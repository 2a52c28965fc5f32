------------------------ MODULE CoreLifecycle_proofs ------------------------
(***************************************************************************)
(* Proofs about the life of a Core (module CoreLifecycle): whatever the   *)
(* configuration, wherever New fails, however many subsystem Closes fail  *)
(* and whenever the owner calls Close, Run and Close touch only non-nil    *)
(* fields and every Close call releases every non-nil closable field once. *)
(*                                                                         *)
(* None of these is inductive by itself.  IInv adds what New's and Close's *)
(* control keeps true:                                                     *)
(*   - while New runs, the fields built are those of the blocks before    *)
(*     blk, and nothing has been launched or closed yet;                   *)
(*   - a Core the owner holds has every field of every block;             *)
(*   - while Close runs, the fields whose Close statement it has passed    *)
(*     have been closed once more than the completed Close calls;          *)
(*   - only closable fields are ever closed.                               *)
(***************************************************************************)
EXTENDS CoreLifecycle, TLAPS

\* The fields assigned by the blocks before the k-th, under New's config.
BuiltBy(k) == UNION {Builds(Blocks[i], config) : i \in 1..(k - 1)}

\* Every field of a Core that New returned.
AllBuilt == BuiltBy(Len(Blocks) + 1)

ConstructionState ==
  phase = "new" =>
    /\ blk \in 1..Len(Blocks)
    /\ built = BuiltBy(blk)
    /\ run = "none"
    /\ launched = {}
    /\ closer = "owner"
    /\ coreCloses = 0
    /\ closeCalls = [c \in Components |-> 0]

OwnerCore ==
  /\ closer = "owner" /\ phase # "new" => built = AllBuilt
  /\ closer = "new" => phase \in {"closing", "failed"} /\ run = "none"

CloseProgress ==
  phase = "closing" =>
    /\ closePc \in 1..(Len(CloseOrder) + 1)
    /\ coreCloses < MaxCloses
    /\ \A i \in 1..Len(CloseOrder) :
         CloseOrder[i] \in built =>
           closeCalls[CloseOrder[i]] = coreCloses + (IF i < closePc THEN 1 ELSE 0)

ClosedCounts ==
  phase \in {"ready", "failed", "closed"} =>
    \A c \in built \cap Closable : closeCalls[c] = coreCloses

NonClosableUntouched == \A c \in Components \ Closable : closeCalls[c] = 0

IInv ==
  /\ TypeOK
  /\ NoNilUse
  /\ ConstructionState
  /\ OwnerCore
  /\ CloseProgress
  /\ ClosedCounts
  /\ NonClosableUntouched

(***************************************************************************)
(* For DependentsClosedFirst: a rank per component, the position of its   *)
(* Close statement for a closable one and, for any other, the earliest    *)
(* position among the closable components it reaches (14: none).  Every   *)
(* input a constructor remembers ranks no lower than the component, so    *)
(* every dependency does: a closable component is closed no later than    *)
(* the closable ones it depends on.  The one input of Reads that breaks   *)
(* the order, the overlay passed to the contact service, is still nil     *)
(* when the contact service is built.                                      *)
(***************************************************************************)
Rank(c) ==
  CASE c = "DowntimeDetection" -> 1
    [] c = "Metrics"           -> 2
    [] c = "GracefulExit"      -> 3
    [] c = "AuditChore"        -> 4
    [] c = "AuditWorker"       -> 5
    [] c = "Rollup"            -> 6
    [] c = "Tally"             -> 7
    [] c = "DBCleanup"         -> 8
    [] c = "Repairer"          -> 9
    [] c = "Checker"           -> 10
    [] c = "Overlay"           -> 11
    [] c = "Contact"           -> 12
    [] c = "MetainfoLoop"      -> 13
    [] c \in {"DowntimeService", "AuditVerifier", "AuditReporter", "Orders"} -> 11
    [] c = "GarbageCollection" -> 13
    [] OTHER                   -> 14

\* Along every edge of a dependency table R, the rank does not decrease.
Ranked(R) == \A x \in Components : \A y \in R[x] : Rank(x) <= Rank(y)

RefsRanked == Ranked(refs)

USE MaxClosesAssumption, NoErrAssumption

-----------------------------------------------------------------------------
(***************************************************************************)
(* Facts about the constant tables of core.go.                            *)
(***************************************************************************)
\* The fields of every block, under a configuration cfg.
BuiltFor(cfg) == UNION {Builds(Blocks[i], cfg) : i \in 1..Len(Blocks)}

LEMMA TableFacts ==
  /\ Len(Blocks) = 17
  /\ Len(CloseOrder) = 13
  /\ Len(LaunchOrder) = 14
  /\ \A i \in 1..Len(CloseOrder) : CloseOrder[i] \in Components
  /\ \A i \in 1..Len(LaunchOrder) : LaunchOrder[i] \in Components
  /\ Closable \subseteq Components
BY DEF Blocks, CloseOrder, LaunchOrder, Components, Closable

\* Each Close statement names a different field.
LEMMA CloseOrderDistinct ==
  \A i, j \in 1..Len(CloseOrder) : i # j => CloseOrder[i] # CloseOrder[j]
BY DEF CloseOrder

LEMMA BuildsTyped ==
  ASSUME NEW cfg \in Configs, NEW i \in 1..Len(Blocks)
  PROVE  /\ Builds(Blocks[i], cfg) \subseteq Components
         /\ \A p \in BuiltOnFailure(Blocks[i]) : p \subseteq Components
BY DEF Blocks, Builds, BuiltOnFailure, Components, Configs

(***************************************************************************)
(* New assigns, under every configuration, every field that Run launches   *)
(* without a nil check.                                                    *)
(***************************************************************************)
LEMMA RequiredBuilt ==
  ASSUME NEW cfg \in Configs
  PROVE  \A i \in 1..Len(LaunchOrder) :
           LaunchOrder[i] \notin RunOptional => LaunchOrder[i] \in BuiltFor(cfg)
<1>1. "MetainfoLoop" \in Builds(Blocks[8], cfg) BY DEF Blocks, Builds
<1>2. "Version" \in Builds(Blocks[1], cfg) BY DEF Blocks, Builds
<1>3. {"Checker", "Repairer"} \subseteq Builds(Blocks[9], cfg) BY DEF Blocks, Builds
<1>4. {"AuditWorker", "AuditChore"} \subseteq Builds(Blocks[10], cfg)
  BY DEF Blocks, Builds
<1>5. "GarbageCollection" \in Builds(Blocks[11], cfg) BY DEF Blocks, Builds
<1>6. "DBCleanup" \in Builds(Blocks[12], cfg) BY DEF Blocks, Builds
<1>7. {"Tally", "Rollup"} \subseteq Builds(Blocks[13], cfg) BY DEF Blocks, Builds
<1>8. "Metrics" \in Builds(Blocks[16], cfg) BY DEF Blocks, Builds
<1>9. "DowntimeDetection" \in Builds(Blocks[17], cfg) BY DEF Blocks, Builds
<1>10. {"MetainfoLoop", "Version", "Checker", "Repairer", "AuditWorker",
        "AuditChore", "GarbageCollection", "DBCleanup", "Tally", "Rollup",
        "Metrics", "DowntimeDetection"} \subseteq BuiltFor(cfg)
  BY <1>1, <1>2, <1>3, <1>4, <1>5, <1>6, <1>7, <1>8, <1>9, TableFacts DEF BuiltFor
<1>11. QED
  BY <1>10 DEF LaunchOrder, RunOptional

-----------------------------------------------------------------------------
LEMMA InitIInv == Init => IInv
<1> SUFFICES ASSUME Init PROVE IInv
  OBVIOUS
<1>1. BuiltBy(1) = {}
  BY DEF BuiltBy
<1>2. TypeOK
  <2>1. refs \in [Components -> SUBSET Components]
    BY DEF Init
  <2>2. closeCalls \in [Components -> 0..MaxCloses]
    BY DEF Init
  <2>3. blk \in 1..Len(Blocks) + 1 /\ closePc \in 0..Len(CloseOrder) + 1
    BY TableFacts DEF Init
  <2>4. coreCloses \in 0..MaxCloses /\ runResult \in Components \cup {NoErr}
    BY DEF Init
  <2>5. config \in Configs /\ built \subseteq Components
        /\ launched \subseteq Components
    BY DEF Init
  <2>6. /\ phase \in {"new", "ready", "closing", "failed", "closed"}
        /\ run \in {"none", "running", "ran"}
        /\ closer \in {"new", "owner"}
        /\ closeErr \in BOOLEAN
    BY DEF Init
  <2>7. QED
    BY <2>1, <2>2, <2>3, <2>4, <2>5, <2>6 DEF TypeOK
<1>3. QED
  BY <1>1, <1>2, TableFacts
  DEF Init, IInv, NoNilUse, ConstructionState, OwnerCore, CloseProgress,
      ClosedCounts, NonClosableUntouched

-----------------------------------------------------------------------------
(***************************************************************************)
(* One lemma per action: each preserves IInv.                              *)
(***************************************************************************)
\* The fields a step of New assigns are fields of the Core, and so are the
\* inputs every constructor then remembers.
LEMMA AssignTyped ==
  ASSUME NEW new, TypeOK, new \subseteq Components, Assign(new)
  PROVE  /\ built' \subseteq Components
         /\ refs' \in [Components -> SUBSET Components]
BY DEF Assign, TypeOK

LEMMA BuildIInv == IInv /\ Build => IInv'
<1> SUFFICES ASSUME IInv, Build PROVE IInv'
  OBVIOUS
<1> DEFINE new == Builds(Blocks[blk], config)
<1>1. blk \in 1..17 /\ built = BuiltBy(blk) /\ closer = "owner"
      /\ launched = {} /\ coreCloses = 0 /\ closeCalls = [c \in Components |-> 0]
      /\ run = "none"
  BY TableFacts DEF Build, IInv, ConstructionState
<1>2. new \subseteq Components
  BY <1>1, BuildsTyped, TableFacts DEF IInv, TypeOK
<1>3. (built = BuiltBy(blk))'
  <2>1. built' = built \cup new
    BY DEF Build, Assign
  <2>2. BuiltBy(blk)' = UNION {Builds(Blocks[i], config) : i \in 1..blk}
    BY <1>1 DEF Build, BuiltBy
  <2>3. UNION {Builds(Blocks[i], config) : i \in 1..blk} = BuiltBy(blk) \cup new
    <3> SUFFICES ASSUME NEW x
                 PROVE  x \in UNION {Builds(Blocks[i], config) : i \in 1..blk}
                          <=> x \in BuiltBy(blk) \cup new
      OBVIOUS
    <3>1. x \in UNION {Builds(Blocks[i], config) : i \in 1..blk}
            <=> \E i \in 1..blk : x \in Builds(Blocks[i], config)
      OBVIOUS
    <3>2. x \in BuiltBy(blk)
            <=> \E i \in 1..(blk - 1) : x \in Builds(Blocks[i], config)
      BY DEF BuiltBy
    <3>3. (\E i \in 1..blk : x \in Builds(Blocks[i], config))
            <=> (\E i \in 1..(blk - 1) : x \in Builds(Blocks[i], config))
                \/ x \in new
      BY <1>1
    <3>4. QED
      BY <3>1, <3>2, <3>3
  <2>4. QED
    BY <1>1, <2>1, <2>2, <2>3
<1>4. TypeOK'
  <2>1. built' \subseteq Components /\ refs' \in [Components -> SUBSET Components]
    BY <1>2, AssignTyped DEF Build, IInv
  <2>2. blk' \in 1..Len(Blocks) + 1 /\ phase' \in {"new", "ready"}
    BY <1>1, TableFacts DEF Build
  <2>3. QED
    BY <2>1, <2>2 DEF Build, IInv, TypeOK
<1>5. ConstructionState'
  BY <1>1, <1>3, TableFacts DEF Build, ConstructionState
<1>6. OwnerCore'
  <2>1. phase' # "new" => blk = 17
    BY <1>1, TableFacts DEF Build
  <2>2. phase' # "new" => built' = AllBuilt'
    BY <1>3, <2>1, TableFacts DEF Build, AllBuilt, BuiltBy
  <2>3. QED
    BY <1>1, <2>2 DEF Build, OwnerCore
<1>7. ClosedCounts' /\ CloseProgress'
  BY <1>1, TableFacts DEF Build, ClosedCounts, CloseProgress
<1>8. QED
  BY <1>1, <1>4, <1>5, <1>6, <1>7
  DEF Build, IInv, NoNilUse, NonClosableUntouched

LEMMA BuildFailsIInv == IInv /\ BuildFails => IInv'
<1> SUFFICES ASSUME IInv, BuildFails PROVE IInv'
  OBVIOUS
<1>1. blk \in 1..17 /\ closer = "owner" /\ run = "none"
      /\ launched = {} /\ coreCloses = 0 /\ closeCalls = [c \in Components |-> 0]
  BY TableFacts DEF BuildFails, IInv, ConstructionState
<1>2. PICK partial \in BuiltOnFailure(Blocks[blk]) : Assign(partial)
  BY DEF BuildFails
<1>3. partial \subseteq Components
  BY <1>1, <1>2, BuildsTyped, TableFacts DEF IInv, TypeOK
<1>4. TypeOK'
  <2>1. built' \subseteq Components /\ refs' \in [Components -> SUBSET Components]
    BY <1>2, <1>3, AssignTyped DEF IInv
  <2>2. closePc' \in 0..Len(CloseOrder) + 1
    BY TableFacts DEF BuildFails
  <2>3. QED
    BY <2>1, <2>2 DEF BuildFails, IInv, TypeOK
<1>5. NoNilUse'
  BY <1>1 DEF BuildFails, NoNilUse
<1>6. CloseProgress'
  BY <1>1, TableFacts DEF BuildFails, CloseProgress
<1>7. QED
  BY <1>1, <1>4, <1>5, <1>6
  DEF BuildFails, IInv, ConstructionState, OwnerCore, ClosedCounts,
      NonClosableUntouched

\* A Core New returned has the fields of every block.
LEMMA AllBuiltFields == AllBuilt = BuiltFor(config)
BY TableFacts DEF AllBuilt, BuiltBy, BuiltFor

LEMMA RunStartIInv == IInv /\ RunStart => IInv'
<1> SUFFICES ASSUME IInv, RunStart PROVE IInv'
  OBVIOUS
<1>1. closer = "owner" /\ built = BuiltFor(config) /\ config \in Configs
  BY AllBuiltFields DEF RunStart, IInv, OwnerCore, TypeOK
<1>2. launched' \subseteq built
  <2> SUFFICES ASSUME NEW j \in 1..Len(LaunchOrder), RunGuard(LaunchOrder[j])
               PROVE  LaunchOrder[j] \in built
    BY DEF RunStart
  <2>1. CASE LaunchOrder[j] \in RunOptional
    BY <2>1 DEF RunGuard
  <2>2. CASE LaunchOrder[j] \notin RunOptional
    BY <1>1, <2>2, RequiredBuilt
  <2>3. QED
    BY <2>1, <2>2
<1>3. TypeOK'
  BY <1>2 DEF RunStart, IInv, TypeOK
<1>4. AllBuilt' = AllBuilt
  BY DEF RunStart, AllBuilt, BuiltBy
<1>5. QED
  BY <1>1, <1>2, <1>3, <1>4
  DEF RunStart, IInv, NoNilUse, ConstructionState, OwnerCore, CloseProgress,
      ClosedCounts, NonClosableUntouched

LEMMA RunReturnIInv == IInv /\ RunReturn => IInv'
<1> SUFFICES ASSUME IInv, RunReturn PROVE IInv'
  OBVIOUS
<1>1. run = "running" /\ closer = "owner"
  BY DEF RunReturn, IInv, OwnerCore, TypeOK
<1>2. phase # "new"
  BY <1>1 DEF IInv, ConstructionState
<1>3. TypeOK'
  BY DEF RunReturn, IInv, TypeOK, NoNilUse
<1>4. AllBuilt' = AllBuilt
  BY DEF RunReturn, AllBuilt, BuiltBy
<1>5. QED
  BY <1>1, <1>2, <1>3, <1>4
  DEF RunReturn, IInv, NoNilUse, ConstructionState, OwnerCore, CloseProgress,
      ClosedCounts, NonClosableUntouched

LEMMA CloseCallIInv == IInv /\ CloseCall => IInv'
<1> SUFFICES ASSUME IInv, CloseCall PROVE IInv'
  OBVIOUS
<1>1. closer = "owner" /\ built = AllBuilt
  BY DEF CloseCall, IInv, OwnerCore, TypeOK
<1>2. \A c \in built \cap Closable : closeCalls[c] = coreCloses
  BY DEF CloseCall, IInv, ClosedCounts
<1>3. CloseProgress'
  <2>1. \A i \in 1..Len(CloseOrder) : CloseOrder[i] \in Closable
    BY DEF Closable
  <2>2. QED
    BY <1>2, <2>1, TableFacts DEF CloseCall, CloseProgress, IInv, TypeOK
<1>4. TypeOK'
  <2>1. closePc' \in 0..Len(CloseOrder) + 1 /\ phase' = "closing"
        /\ closer' = "owner" /\ closeErr' = FALSE
    BY TableFacts DEF CloseCall
  <2>2. QED
    BY <2>1 DEF CloseCall, IInv, TypeOK
<1>5. AllBuilt' = AllBuilt
  BY DEF CloseCall, AllBuilt, BuiltBy
<1>6. QED
  BY <1>1, <1>3, <1>4, <1>5
  DEF CloseCall, IInv, NoNilUse, ConstructionState, OwnerCore, ClosedCounts,
      NonClosableUntouched

LEMMA CloseStepIInv == IInv /\ CloseStep => IInv'
<1> SUFFICES ASSUME IInv, CloseStep PROVE IInv'
  OBVIOUS
<1> DEFINE cc == CloseOrder[closePc]
<1>1. closePc \in 1..13 /\ coreCloses < MaxCloses /\ cc \in Closable
  BY TableFacts DEF CloseStep, IInv, CloseProgress, Closable
<1>2. cc \in built => closeCalls[cc] = coreCloses
  BY <1>1, TableFacts DEF CloseStep, IInv, CloseProgress, TypeOK
<1>3. closeCalls' = IF cc \in built THEN [closeCalls EXCEPT ![cc] = @ + 1]
                                   ELSE closeCalls
  BY DEF CloseStep, CloseGuard
<1>4. closeErr' \in BOOLEAN /\ closePc' = closePc + 1
  BY DEF CloseStep, CloseGuard, IInv, TypeOK
<1>5. closeCalls' \in [Components -> 0..MaxCloses]
  BY <1>1, <1>2, <1>3, TableFacts DEF IInv, TypeOK
<1>6. TypeOK'
  BY <1>1, <1>4, <1>5, TableFacts DEF CloseStep, IInv, TypeOK
<1>7. NoNilUse' /\ NonClosableUntouched'
  BY <1>1, <1>3 DEF CloseStep, IInv, NoNilUse, NonClosableUntouched, TypeOK
<1>8. CloseProgress'
  <2> SUFFICES ASSUME NEW i \in 1..Len(CloseOrder), CloseOrder[i] \in built
               PROVE  closeCalls'[CloseOrder[i]] =
                        coreCloses + (IF i < closePc + 1 THEN 1 ELSE 0)
    BY <1>1, <1>4, TableFacts DEF CloseStep, CloseProgress
  <2>1. CASE i = closePc
    BY <1>2, <1>3, <2>1, TableFacts DEF IInv, TypeOK
  <2>2. CASE i # closePc
    <3>1. CloseOrder[i] # cc /\ CloseOrder[i] \in Components
      BY <1>1, <2>2, CloseOrderDistinct, TableFacts
    <3>2. closeCalls[CloseOrder[i]] = coreCloses + (IF i < closePc THEN 1 ELSE 0)
      BY DEF CloseStep, IInv, CloseProgress
    <3>3. QED
      BY <1>1, <1>3, <2>2, <3>1, <3>2, TableFacts DEF IInv, TypeOK
  <2>3. QED
    BY <2>1, <2>2
<1>9. AllBuilt' = AllBuilt
  BY DEF CloseStep, AllBuilt, BuiltBy
<1>10. QED
  BY <1>6, <1>7, <1>8, <1>9
  DEF CloseStep, IInv, ConstructionState, OwnerCore, ClosedCounts

LEMMA CloseReturnIInv == IInv /\ CloseReturn => IInv'
<1> SUFFICES ASSUME IInv, CloseReturn PROVE IInv'
  OBVIOUS
<1>1. closePc = 14 /\ coreCloses < MaxCloses
  BY TableFacts DEF CloseReturn, IInv, CloseProgress
<1>2. TypeOK'
  BY <1>1, TableFacts DEF CloseReturn, IInv, TypeOK
<1>3. ClosedCounts'
  <2> SUFFICES ASSUME NEW x \in built \cap Closable
               PROVE  closeCalls[x] = coreCloses + 1
    BY DEF CloseReturn, ClosedCounts
  <2>1. PICK i \in 1..Len(CloseOrder) : CloseOrder[i] = x
    BY DEF Closable
  <2>2. QED
    BY <1>1, <2>1, TableFacts DEF CloseReturn, IInv, CloseProgress, TypeOK
<1>4. OwnerCore'
  <2>1. AllBuilt' = AllBuilt
    BY DEF CloseReturn, AllBuilt, BuiltBy
  <2>2. QED
    BY <2>1 DEF CloseReturn, IInv, OwnerCore, TypeOK
<1>5. QED
  BY <1>2, <1>3, <1>4
  DEF CloseReturn, IInv, NoNilUse, ConstructionState, CloseProgress,
      NonClosableUntouched

LEMMA StutterIInv == IInv /\ (Finished \/ UNCHANGED vars) => IInv'
<1> SUFFICES ASSUME IInv, UNCHANGED vars PROVE IInv'
  BY DEF Finished
<1>1. AllBuilt' = AllBuilt /\ BuiltBy(blk)' = BuiltBy(blk)
  BY DEF vars, AllBuilt, BuiltBy
<1>2. QED
  BY <1>1
  DEF vars, IInv, TypeOK, NoNilUse, ConstructionState, OwnerCore,
      CloseProgress, ClosedCounts, NonClosableUntouched

LEMMA NextIInv == IInv /\ [Next]_vars => IInv'
BY BuildIInv, BuildFailsIInv, RunStartIInv, RunReturnIInv, CloseCallIInv,
   CloseStepIInv, CloseReturnIInv, StutterIInv DEF Next

-----------------------------------------------------------------------------
(***************************************************************************)
(* IInv holds in every state of every behaviour of the Core's life.        *)
(***************************************************************************)
THEOREM LifecycleIInvariant == Spec => []IInv
BY InitIInv, NextIInv, PTL DEF Spec

(***************************************************************************)
(* Type correctness of the Core's life: in particular no subsystem's Close *)
(* is invoked more often than the owner calls Core.Close, and Close's      *)
(* statement index never leaves its range.                                 *)
(***************************************************************************)
THEOREM LifecycleTypeCorrect == Spec => []TypeOK
<1>1. IInv => TypeOK
  BY DEF IInv
<1>2. QED
  BY <1>1, LifecycleIInvariant, PTL

(***************************************************************************)
(* Under every configuration and wherever New fails, Run launches only     *)
(* non-nil subsystems (New assigns every field Run launches without a nil  *)
(* check) and Close invokes Close only on non-nil fields.                  *)
(***************************************************************************)
THEOREM NoNilUseHolds == Spec => []NoNilUse
<1>1. IInv => NoNilUse
  BY DEF IInv
<1>2. QED
  BY <1>1, LifecycleIInvariant, PTL

(***************************************************************************)
(* Every Core.Close, the one New makes after a failed block included,      *)
(* invokes the Close of every non-nil closable field exactly once, however *)
(* many of those Closes fail and whether or not Run still runs.            *)
(***************************************************************************)
THEOREM TeardownCompleteHolds == Spec => []TeardownComplete
<1>1. IInv => TeardownComplete
  BY DEF IInv, ClosedCounts, TeardownComplete
<1>2. QED
  BY <1>1, LifecycleIInvariant, PTL

-----------------------------------------------------------------------------
(***************************************************************************)
(* Release order of dependencies.                                         *)
(***************************************************************************)
LEMMA RankRange == \A x \in Components : Rank(x) \in 1..14
BY DEF Rank, Components

\* The rank of a closable field is the position of its Close statement.
LEMMA RankIsPosition == \A i \in 1..Len(CloseOrder) : Rank(CloseOrder[i]) = i
BY DEF Rank, CloseOrder

\* Every input a constructor is passed ranks no lower, but the overlay of
\* the contact service.
LEMMA ReadsRanked ==
  \A x \in Components : \A y \in Reads(x) :
    (x = "Contact" /\ y = "Overlay") \/ Rank(x) <= Rank(y)
BY DEF Reads, Rank, Components

\* The contact service is built in an earlier block than the overlay, under
\* every configuration, and no failing block leaves it assigned.
LEMMA ContactBeforeOverlay ==
  ASSUME NEW cfg \in Configs, NEW i \in 1..Len(Blocks), NEW j \in 1..Len(Blocks),
         "Contact" \in Builds(Blocks[i], cfg), "Overlay" \in Builds(Blocks[j], cfg)
  PROVE  i < j
<1>1. i = 3
  BY DEF Blocks, Builds
<1>2. j = 4
  BY DEF Blocks, Builds
<1>3. QED
  BY <1>1, <1>2

LEMMA ContactNotOnFailure ==
  \A i \in 1..Len(Blocks) : \A p \in BuiltOnFailure(Blocks[i]) : "Contact" \notin p
BY DEF BuiltOnFailure

(***************************************************************************)
(* One composition keeps a dependency table ranked: the rank does not      *)
(* decrease along an edge, so not along a path of two.                     *)
(***************************************************************************)
LEMMA ComposeRanked ==
  ASSUME NEW R \in [Components -> SUBSET Components], Ranked(R)
  PROVE  Compose(R) \in [Components -> SUBSET Components] /\ Ranked(Compose(R))
<1>1. Compose(R) \in [Components -> SUBSET Components]
  BY DEF Compose
<1>2. ASSUME NEW x \in Components, NEW y \in Compose(R)[x]
      PROVE  Rank(x) <= Rank(y)
  <2>1. CASE y \in R[x]
    BY <2>1 DEF Ranked
  <2>2. CASE ~(y \in R[x])
    <3>1. PICK e \in R[x] : y \in R[e]
      BY <2>2 DEF Compose
    <3>2. e \in Components /\ y \in Components
      BY <3>1
    <3>3. Rank(x) <= Rank(e) /\ Rank(e) <= Rank(y)
      BY <3>1, <3>2 DEF Ranked
    <3>4. QED
      BY <3>2, <3>3, RankRange
  <2>3. QED
    BY <2>1, <2>2
<1>3. QED
  BY <1>1, <1>2 DEF Ranked

\* The dependency closure of a ranked table of captured inputs is ranked.
LEMMA DependsOnRanked ==
  ASSUME TypeOK, RefsRanked
  PROVE  Ranked(DependsOn)
<1> DEFINE d1 == Compose(refs)
           d2 == Compose(d1)
           d3 == Compose(d2)
           d4 == Compose(d3)
<1>1. refs \in [Components -> SUBSET Components] /\ Ranked(refs)
  BY DEF TypeOK, RefsRanked
<1>2. d1 \in [Components -> SUBSET Components] /\ Ranked(d1)
  BY <1>1, ComposeRanked
<1>3. d2 \in [Components -> SUBSET Components] /\ Ranked(d2)
  BY <1>2, ComposeRanked
<1>4. d3 \in [Components -> SUBSET Components] /\ Ranked(d3)
  BY <1>3, ComposeRanked
<1>5. d4 \in [Components -> SUBSET Components] /\ Ranked(d4)
  BY <1>4, ComposeRanked
<1>6. Ranked(Compose(d4))
  BY <1>5, ComposeRanked
<1>7. QED
  BY <1>6 DEF DependsOn

\* A component built in a step of New remembers ranked inputs only.
LEMMA AssignRanked ==
  ASSUME NEW new, TypeOK, RefsRanked, new \subseteq Components, Assign(new),
         \A x \in new : \A y \in Reads(x) \cap (built \cup new) :
           Rank(x) <= Rank(y)
  PROVE  RefsRanked'
<1> SUFFICES ASSUME NEW x \in Components, NEW y \in refs'[x]
             PROVE  Rank(x) <= Rank(y)
  BY DEF RefsRanked, Ranked
<1>1. CASE x \in new
  BY <1>1 DEF Assign
<1>2. CASE x \notin new
  BY <1>2 DEF Assign, RefsRanked, Ranked, TypeOK
<1>3. QED
  BY <1>1, <1>2

LEMMA BuildRanked == IInv /\ RefsRanked /\ Build => RefsRanked'
<1> SUFFICES ASSUME IInv, RefsRanked, Build PROVE RefsRanked'
  OBVIOUS
<1> DEFINE new == Builds(Blocks[blk], config)
<1>1. blk \in 1..Len(Blocks) /\ built = BuiltBy(blk) /\ config \in Configs
  BY TableFacts DEF Build, IInv, ConstructionState, TypeOK
<1>2. new \subseteq Components
  BY <1>1, BuildsTyped
<1>3. ASSUME NEW x \in new, NEW y \in Reads(x) \cap (built \cup new)
      PROVE  Rank(x) <= Rank(y)
  <2>1. CASE x = "Contact" /\ y = "Overlay"
    <3>1. PICK j \in 1..blk : y \in Builds(Blocks[j], config)
      BY <1>1, <1>3 DEF BuiltBy
    <3>2. j \in 1..Len(Blocks)
      BY <1>1
    <3>3. "Contact" \in Builds(Blocks[blk], config)
          /\ "Overlay" \in Builds(Blocks[j], config)
      BY <1>3, <2>1, <3>1
    <3>4. blk < j
      BY <1>1, <3>2, <3>3, ContactBeforeOverlay
    <3>5. QED
      BY <1>1, <3>1, <3>4, TableFacts
  <2>2. QED
    BY <1>2, <2>1, ReadsRanked
<1>4. QED
  BY <1>2, <1>3, AssignRanked DEF Build, IInv

LEMMA BuildFailsRanked == IInv /\ RefsRanked /\ BuildFails => RefsRanked'
<1> SUFFICES ASSUME IInv, RefsRanked, BuildFails PROVE RefsRanked'
  OBVIOUS
<1>1. blk \in 1..Len(Blocks) /\ config \in Configs
  BY DEF BuildFails, IInv, ConstructionState, TypeOK
<1>2. PICK partial \in BuiltOnFailure(Blocks[blk]) : Assign(partial)
  BY DEF BuildFails
<1>3. partial \subseteq Components /\ "Contact" \notin partial
  BY <1>1, BuildsTyped, ContactNotOnFailure
<1>4. \A x \in partial : \A y \in Reads(x) \cap (built \cup partial) :
        Rank(x) <= Rank(y)
  BY <1>3, ReadsRanked
<1>5. QED
  BY <1>2, <1>3, <1>4, AssignRanked DEF IInv

\* Only New assigns fields.
LEMMA RefsRankedNext == IInv /\ RefsRanked /\ [Next]_vars => RefsRanked'
<1> SUFFICES ASSUME IInv, RefsRanked, [Next]_vars PROVE RefsRanked'
  OBVIOUS
<1>1. CASE Build
  BY <1>1, BuildRanked
<1>2. CASE BuildFails
  BY <1>2, BuildFailsRanked
<1>3. CASE ~Build /\ ~BuildFails
  <2>1. refs' = refs
    BY <1>3 DEF Next, vars, RunStart, RunReturn, CloseCall, CloseStep,
                CloseReturn, Finished
  <2>2. QED
    BY <2>1 DEF RefsRanked, Ranked
<1>4. QED
  BY <1>1, <1>2, <1>3

(***************************************************************************)
(* Of two closed fields, the one whose Close statement comes first has     *)
(* been closed at least as often: every Close call passes the statements   *)
(* in order.                                                               *)
(***************************************************************************)
LEMMA RankOrderClosed ==
  ASSUME IInv, NEW c \in Closable \cap built, NEW d \in Closable \cap built,
         Rank(d) <= Rank(c)
  PROVE  closeCalls[d] >= closeCalls[c]
<1>1. PICK i \in 1..Len(CloseOrder) : CloseOrder[i] = d
  BY DEF Closable
<1>2. PICK j \in 1..Len(CloseOrder) : CloseOrder[j] = c
  BY DEF Closable
<1>3. i <= j
  BY <1>1, <1>2, RankIsPosition
<1>4. CASE phase = "new"
  BY <1>4, TableFacts DEF IInv, ConstructionState
<1>5. CASE phase = "closing"
  <2>1. closePc \in 1..(Len(CloseOrder) + 1) /\ coreCloses \in Nat
    BY <1>5 DEF IInv, CloseProgress, TypeOK
  <2>2. /\ closeCalls[d] = coreCloses + (IF i < closePc THEN 1 ELSE 0)
        /\ closeCalls[c] = coreCloses + (IF j < closePc THEN 1 ELSE 0)
    BY <1>1, <1>2, <1>5 DEF IInv, CloseProgress
  <2>3. QED
    BY <1>3, <2>1, <2>2, TableFacts
<1>6. CASE phase \in {"ready", "failed", "closed"}
  <2>1. closeCalls[d] = coreCloses /\ closeCalls[c] = coreCloses
    BY <1>6 DEF IInv, ClosedCounts
  <2>2. coreCloses \in Nat
    BY DEF IInv, TypeOK
  <2>3. QED
    BY <2>1, <2>2
<1>7. QED
  BY <1>4, <1>5, <1>6 DEF IInv, TypeOK

(***************************************************************************)
(* Whatever the configuration, wherever New fails and however often the   *)
(* owner calls Close, Close releases a closable field only once every      *)
(* closable field depending on it, directly or through other fields, has  *)
(* been released as often: the order of the Close statements of core.go   *)
(* respects the dependencies the constructors capture.                     *)
(***************************************************************************)
THEOREM DependentsClosedFirstHolds == Spec => []DependentsClosedFirst
<1>1. Init => RefsRanked
  BY DEF Init, RefsRanked, Ranked
<1>2. Spec => [](IInv /\ RefsRanked)
  BY <1>1, InitIInv, NextIInv, RefsRankedNext, PTL DEF Spec
<1>3. IInv /\ RefsRanked => DependentsClosedFirst
  <2> SUFFICES ASSUME IInv, RefsRanked,
                      NEW c \in Closable \cap built, NEW d \in Closable \cap built,
                      c \in DependsOn[d]
               PROVE  closeCalls[d] >= closeCalls[c]
    BY DEF DependentsClosedFirst
  <2>1. Ranked(DependsOn)
    BY DependsOnRanked DEF IInv
  <2>2. Rank(d) <= Rank(c)
    BY <2>1, TableFacts DEF Ranked
  <2>3. QED
    BY <2>2, RankOrderClosed
<1>4. QED
  BY <1>2, <1>3, PTL


=============================================================================
