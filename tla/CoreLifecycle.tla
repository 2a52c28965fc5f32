--------------------------- MODULE CoreLifecycle ---------------------------
(***************************************************************************)
(* The life of a satellite Core (src/satellite/core.go): New builds the   *)
(* subsystems block by block (lines 126-367), Run launches the non-nil    *)
(* ones (lines 370-423, here reduced to which tasks it launches and the   *)
(* error it may return: CoreRun models its inside), and Close releases    *)
(* them in its own order (lines 426-481).  New calls Close itself when a  *)
(* block fails, and returns no Core.                                      *)
(*                                                                         *)
(* Components are the Core's fields; "built" is the set of non-nil ones.  *)
(* A component remembers the fields it was given when it was constructed  *)
(* ("refs"): a field still nil at that moment is remembered as absent.    *)
(* The configuration chooses the payments provider and whether graceful  *)
(* exit is enabled; three constructors can fail (tlsopts.NewOptions,      *)
(* versionInfo.Proto, audit.NewWorker).  Every subsystem Close may fail.  *)
(***************************************************************************)
EXTENDS Naturals, Sequences, FiniteSets

CONSTANTS
  MaxCloses,    \* how many times the owner of a Core calls Close
  NoErr         \* the nil error

ASSUME MaxClosesAssumption == MaxCloses \in Nat \ {0}

Components ==
  { "Version", "Dialer", "Contact", "OverlayDB", "Overlay", "LiveAccounting",
    "ProjectUsage", "Orders", "MetainfoDB", "MetainfoService",
    "MetainfoLoop", "Checker", "Repairer", "AuditQueue", "AuditVerifier",
    "AuditReporter", "AuditWorker", "AuditChore", "GarbageCollection",
    "DBCleanup", "Tally", "Rollup", "PaymentsAccounts", "PaymentsChore",
    "GracefulExit", "Metrics", "DowntimeService", "DowntimeDetection" }

ASSUME NoErrAssumption == NoErr \notin Components

\* The setup blocks of New, in source order.
Blocks ==
  << "version", "server", "contact", "overlay", "liveaccounting",
     "projectusage", "orders", "metainfo", "repair", "audit", "gc",
     "dbcleanup", "accounting", "payments", "gracefulexit", "metrics",
     "downtime" >>

Configs == [gracefulExit : BOOLEAN, provider : {"mock", "stripecoinpayments"}]

\* The fields a block assigns when it completes, under configuration cfg.
Builds(b, cfg) ==
  CASE b = "version"        -> {"Version"}
    [] b = "server"         -> {"Dialer"}
    [] b = "contact"        -> {"Contact"}
    [] b = "overlay"        -> {"OverlayDB", "Overlay"}
    [] b = "liveaccounting" -> {"LiveAccounting"}
    [] b = "projectusage"   -> {"ProjectUsage"}
    [] b = "orders"         -> {"Orders"}
    [] b = "metainfo"       -> {"MetainfoDB", "MetainfoService", "MetainfoLoop"}
    [] b = "repair"         -> {"Checker", "Repairer"}
    [] b = "audit"          -> {"AuditQueue", "AuditVerifier", "AuditReporter",
                                "AuditWorker", "AuditChore"}
    [] b = "gc"             -> {"GarbageCollection"}
    [] b = "dbcleanup"      -> {"DBCleanup"}
    [] b = "accounting"     -> {"Tally", "Rollup"}
    [] b = "payments"       -> IF cfg.provider = "stripecoinpayments"
                                 THEN {"PaymentsAccounts", "PaymentsChore"}
                                 ELSE {"PaymentsAccounts"}
    [] b = "gracefulexit"   -> IF cfg.gracefulExit THEN {"GracefulExit"} ELSE {}
    [] b = "metrics"        -> {"Metrics"}
    [] b = "downtime"       -> {"DowntimeService", "DowntimeDetection"}

(***************************************************************************)
(* The blocks that can fail, and what each has assigned when it does:     *)
(* tlsopts.NewOptions fails before Dialer is set, versionInfo.Proto before *)
(* Contact is, and audit.NewWorker after Queue, Verifier and Reporter,    *)
(* its own (possibly nil) result being assigned to Audit.Worker.          *)
(***************************************************************************)
FailingBlocks == {"server", "contact", "audit"}

BuiltOnFailure(b) ==
  IF b = "audit"
    THEN { {"AuditQueue", "AuditVerifier", "AuditReporter"},
           {"AuditQueue", "AuditVerifier", "AuditReporter", "AuditWorker"} }
    ELSE { {} }

\* The Core fields each constructor is passed (dependency bundle excluded).
Reads(c) ==
  CASE c = "Contact"           -> {"Overlay", "Dialer"}
    [] c = "Overlay"           -> {"OverlayDB"}
    [] c = "ProjectUsage"      -> {"LiveAccounting"}
    [] c = "Orders"            -> {"Overlay"}
    [] c = "MetainfoService"   -> {"MetainfoDB"}
    [] c = "MetainfoLoop"      -> {"MetainfoDB"}
    [] c = "Checker"           -> {"MetainfoService", "MetainfoLoop", "Overlay"}
    [] c = "Repairer"          -> {"MetainfoService", "Orders", "Overlay", "Dialer"}
    [] c = "AuditVerifier"     -> {"MetainfoService", "Dialer", "Overlay", "Orders"}
    [] c = "AuditReporter"     -> {"Overlay"}
    [] c = "AuditWorker"       -> {"AuditQueue", "AuditVerifier", "AuditReporter"}
    [] c = "AuditChore"        -> {"AuditQueue", "MetainfoLoop"}
    [] c = "GarbageCollection" -> {"Dialer", "OverlayDB", "MetainfoLoop"}
    [] c = "Tally"             -> {"LiveAccounting", "MetainfoLoop"}
    [] c = "GracefulExit"      -> {"OverlayDB", "MetainfoLoop"}
    [] c = "Metrics"           -> {"MetainfoLoop"}
    [] c = "DowntimeService"   -> {"Overlay", "Contact"}
    [] c = "DowntimeDetection" -> {"Overlay", "DowntimeService"}
    [] OTHER                   -> {}

\* The group.Go statements of Run, and the two guarded by "!= nil".
LaunchOrder ==
  << "MetainfoLoop", "Version", "Checker", "Repairer", "DBCleanup", "Tally",
     "Rollup", "AuditWorker", "AuditChore", "GarbageCollection",
     "GracefulExit", "Metrics", "PaymentsChore", "DowntimeDetection" >>

RunOptional == {"GracefulExit", "PaymentsChore"}

\* Fault variant: the metainfo loop released before the repair subsystems.
CloseOrderLoopEarly ==
  << "DowntimeDetection", "Metrics", "GracefulExit", "AuditChore",
     "AuditWorker", "Rollup", "Tally", "DBCleanup", "MetainfoLoop",
     "Repairer", "Checker", "Overlay", "Contact" >>

\* The "if x != nil { errlist.Add(x.Close()) }" statements of Close, in order.
CloseOrder ==
  << "DowntimeDetection", "Metrics", "GracefulExit", "AuditChore",
     "AuditWorker", "Rollup", "Tally", "DBCleanup", "Repairer", "Checker",
     "Overlay", "Contact", "MetainfoLoop" >>

Closable == {CloseOrder[i] : i \in 1..Len(CloseOrder)}

VARIABLES
  phase,       \* "new", "ready", "closing", "failed", "closed"
  run,         \* Run: "none" (not called), "running", "ran" (returned)
  blk,         \* index in Blocks of the next setup block New runs
  config,      \* the configuration New was given
  built,       \* the non-nil fields of the Core
  refs,        \* per component, the fields it was given non-nil
  launched,    \* the subsystems Run started a task for
  runResult,   \* what Run returned
  closer,      \* who is in Close: "new" (teardown of a failed New) or "owner"
  closePc,     \* index in CloseOrder of the next Close statement
  closeErr,    \* the errs.Group of the Close in progress is non-empty
  coreCloses,  \* completed calls of Core.Close
  closeCalls   \* per component, how many times its Close was invoked

vars == <<phase, run, blk, config, built, refs, launched, runResult, closer,
          closePc, closeErr, coreCloses, closeCalls>>

(***************************************************************************)
(* What a component depends on, directly or through other components: the *)
(* transitive closure of refs.  One composition adds to every component    *)
(* what its dependencies depend on, doubling the length of the paths      *)
(* covered; a path without repetition has fewer edges than the 28         *)
(* components, and five compositions cover paths of up to 2^5 = 32 edges. *)
(***************************************************************************)
Compose(d) == [c \in Components |-> d[c] \cup UNION {d[e] : e \in d[c]}]

\* DependsOn[c]: the components c depends on.
DependsOn == Compose(Compose(Compose(Compose(Compose(refs)))))

Init ==
  /\ phase = "new"
  /\ run = "none"
  /\ blk = 1
  /\ config \in Configs
  /\ built = {}
  /\ refs = [c \in Components |-> {}]
  /\ launched = {}
  /\ runResult = NoErr
  /\ closer = "owner"
  /\ closePc = 0
  /\ closeErr = FALSE
  /\ coreCloses = 0
  /\ closeCalls = [c \in Components |-> 0]

\* Fields assigned in a step of New, each remembering its non-nil inputs.
Assign(new) ==
  /\ built' = built \cup new
  /\ refs' = [c \in Components |->
                IF c \in new THEN Reads(c) \cap (built \cup new) ELSE refs[c]]

(***************************************************************************)
(* One setup block of New completes (lines 135-364); after the last one   *)
(* New returns the Core (line 366).                                        *)
(***************************************************************************)
Build ==
  /\ phase = "new"
  /\ Assign(Builds(Blocks[blk], config))
  /\ blk' = blk + 1
  /\ phase' = IF blk = Len(Blocks) THEN "ready" ELSE "new"
  /\ UNCHANGED <<run, config, launched, runResult, closer, closePc, closeErr,
                 coreCloses, closeCalls>>

(***************************************************************************)
(* A setup block fails (lines 148-150, 157-159, 277-279): New calls        *)
(* peer.Close() on what it has built and returns the combined error.       *)
(***************************************************************************)
BuildFails ==
  /\ phase = "new"
  /\ Blocks[blk] \in FailingBlocks
  /\ \E partial \in BuiltOnFailure(Blocks[blk]) : Assign(partial)
  /\ phase' = "closing"
  /\ closer' = "new"
  /\ closePc' = 1
  /\ closeErr' = FALSE
  /\ UNCHANGED <<run, blk, config, launched, runResult, coreCloses, closeCalls>>

(***************************************************************************)
(* Run (lines 373-420): a task for every group.Go statement whose slot is *)
(* not a nil optional one.                                                 *)
(***************************************************************************)
\* Fault variant: graceful exit launched without its nil check.
RunGuardNoGracefulExitCheck(s) == s # "PaymentsChore" \/ s \in built

RunGuard(s) == s \notin RunOptional \/ s \in built

RunStart ==
  /\ phase = "ready"
  /\ run = "none"
  /\ run' = "running"
  /\ launched' = {LaunchOrder[i] : i \in {j \in 1..Len(LaunchOrder) :
                                          RunGuard(LaunchOrder[j])}}
  /\ UNCHANGED <<phase, blk, config, built, refs, runResult, closer, closePc,
                 closeErr, coreCloses, closeCalls>>

\* Fault variant: a task's cancellation error reaches the errgroup unfiltered.
RunReturnUnfiltered ==
  /\ run = "running"
  /\ run' = "ran"
  /\ runResult' \in {NoErr, "context.Canceled"} \cup launched
  /\ UNCHANGED <<phase, blk, config, built, refs, launched, closer, closePc,
                 closeErr, coreCloses, closeCalls>>

\* group.Wait returns (line 422): nil or the error of a launched subsystem.
RunReturn ==
  /\ run = "running"
  /\ run' = "ran"
  /\ runResult' \in {NoErr} \cup launched
  /\ UNCHANGED <<phase, blk, config, built, refs, launched, closer, closePc,
                 closeErr, coreCloses, closeCalls>>

(***************************************************************************)
(* The owner calls Close on the Core New returned.  Nothing in Core orders *)
(* Close after Run's return (the spec's lifecycle goes from running to    *)
(* closed), so Close may be called while Run's tasks still run.           *)
(***************************************************************************)
CloseCall ==
  /\ phase \in {"ready", "closed"}
  /\ coreCloses < MaxCloses
  /\ phase' = "closing"
  /\ closer' = "owner"
  /\ closePc' = 1
  /\ closeErr' = FALSE
  /\ UNCHANGED <<run, blk, config, built, refs, launched, runResult, coreCloses,
                 closeCalls>>

(***************************************************************************)
(* One "if x != nil { errlist.Add(x.Close()) }" statement (lines 432-478): *)
(* the Close of a non-nil slot is invoked, and may fail; a failure is      *)
(* added to the errs.Group and Close goes on.                              *)
(***************************************************************************)
CloseGuard(c) == c \in built

\* Fault variant: Close gives up at the first subsystem Close that fails.
CloseStepAbort ==
  /\ phase = "closing"
  /\ closePc \in 1..Len(CloseOrder)
  /\ LET c == CloseOrder[closePc] IN
       IF CloseGuard(c)
         THEN /\ closeCalls' = [closeCalls EXCEPT ![c] = @ + 1]
              /\ \E ok \in BOOLEAN :
                   /\ closeErr' = (closeErr \/ ~ok)
                   /\ closePc' = IF ok THEN closePc + 1 ELSE Len(CloseOrder) + 1
         ELSE /\ UNCHANGED <<closeCalls, closeErr>>
              /\ closePc' = closePc + 1
  /\ UNCHANGED <<phase, run, blk, config, built, refs, launched, runResult,
                 closer, coreCloses>>

CloseStep ==
  /\ phase = "closing"
  /\ closePc \in 1..Len(CloseOrder)
  /\ LET c == CloseOrder[closePc] IN
       IF CloseGuard(c)
         THEN /\ closeCalls' = [closeCalls EXCEPT ![c] = @ + 1]
              /\ \E ok \in BOOLEAN :
                   closeErr' = (closeErr \/ ~ok)
         ELSE UNCHANGED <<closeCalls, closeErr>>
  /\ closePc' = closePc + 1
  /\ UNCHANGED <<phase, run, blk, config, built, refs, launched, runResult,
                 closer, coreCloses>>

\* return errlist.Err() (line 480), to the owner or to New's error path.
CloseReturn ==
  /\ phase = "closing"
  /\ closePc = Len(CloseOrder) + 1
  /\ phase' = IF closer = "new" THEN "failed" ELSE "closed"
  /\ closePc' = 0
  /\ coreCloses' = coreCloses + 1
  /\ UNCHANGED <<run, blk, config, built, refs, launched, runResult, closer,
                 closeErr, closeCalls>>

\* No step is left: New failed, or the owner has made all its Close calls.
Finished ==
  /\ \/ phase = "failed"
     \/ phase = "closed" /\ coreCloses = MaxCloses
  /\ UNCHANGED vars

Next ==
  \/ Build
  \/ BuildFails
  \/ RunStart
  \/ RunReturn
  \/ CloseCall
  \/ CloseStep
  \/ CloseReturn
  \/ Finished

Spec == Init /\ [][Next]_vars

-----------------------------------------------------------------------------
TypeOK ==
  /\ phase \in {"new", "ready", "closing", "failed", "closed"}
  /\ run \in {"none", "running", "ran"}
  /\ blk \in 1..(Len(Blocks) + 1)
  /\ config \in Configs
  /\ built \subseteq Components
  /\ refs \in [Components -> SUBSET Components]
  /\ launched \subseteq Components
  /\ runResult \in Components \cup {NoErr}
  /\ closer \in {"new", "owner"}
  /\ closePc \in 0..(Len(CloseOrder) + 1)
  /\ closeErr \in BOOLEAN
  /\ coreCloses \in 0..MaxCloses
  /\ closeCalls \in [Components -> 0..MaxCloses]

\* The subsystems Run starts a task for when they are non-nil.
RunSlots == {LaunchOrder[i] : i \in 1..Len(LaunchOrder)}

(***************************************************************************)
(* Neither Run nor Close ever calls into an empty slot, whatever the       *)
(* configuration and wherever New failed: the optional graceful-exit and  *)
(* payments chores are skipped by Run when absent, and Close, called by    *)
(* New on a half-built Core, skips every field not yet assigned.          *)
(***************************************************************************)
NoNilUse ==
  /\ launched \subseteq built
  /\ \A c \in Components : closeCalls[c] > 0 => c \in built

(***************************************************************************)
(* Every call of Close, the one New makes on a failed construction        *)
(* included, invokes the Close of every non-nil closable field exactly     *)
(* once, however many of those calls fail: errors are collected in the    *)
(* errs.Group, never a reason to stop.                                     *)
(***************************************************************************)
TeardownComplete ==
  phase \in {"failed", "closed"} =>
    \A c \in built \cap Closable : closeCalls[c] = coreCloses

(***************************************************************************)
(* Close releases a component only after every closable component that    *)
(* holds it, directly or through other components, has been released:     *)
(* the metainfo loop after all its iterators, the overlay after the       *)
(* repair, audit and downtime subsystems using it.                         *)
(***************************************************************************)
DependentsClosedFirst ==
  LET dependsOn == DependsOn
  IN  \A c, d \in Closable \cap built :
        c \in dependsOn[d] => closeCalls[d] >= closeCalls[c]

(***************************************************************************)
(* Spec, section 4.1: later steps take earlier ones as direct inputs, the *)
(* contact service the overlay service among them.  Every constructor     *)
(* must be given non-nil fields only.                                      *)
(***************************************************************************)
ConstructionReadsBuilt ==
  \A c \in built : refs[c] = Reads(c)

(***************************************************************************)
(* Spec, section 4.3: Close is idempotent and never double-releases a     *)
(* resource, so no subsystem's Close is invoked twice when the owner       *)
(* calls Core.Close twice.                                                 *)
(***************************************************************************)
CloseReleasesOnce ==
  \A c \in Components : closeCalls[c] <= 1

(***************************************************************************)
(* Spec, sections 2 and 8: every subsystem has Close, and after a failed  *)
(* construction or a Close every subsystem that was built has had its      *)
(* Close invoked.  Here: every subsystem Run would start a task for.       *)
(***************************************************************************)
SubsystemsReleased ==
  phase \in {"failed", "closed"} =>
    \A s \in RunSlots \cap built : closeCalls[s] > 0

(***************************************************************************)
(* Spec, section 4.3: Close releases subsystems so that none still in use *)
(* needs a dependency already released.  A subsystem whose task Run still *)
(* runs, and whose own Close has not been invoked (which stops it), uses   *)
(* no component that Close has released.                                   *)
(***************************************************************************)
ReleasedNotInUse ==
  LET dependsOn == DependsOn
  IN  \A s \in launched :
        run = "running" /\ closeCalls[s] = 0 =>
          \A d \in dependsOn[s] : closeCalls[d] = 0

=============================================================================
