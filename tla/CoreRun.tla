------------------------------ MODULE CoreRun ------------------------------
(***************************************************************************)
(* Core.Run of src/satellite/core.go (lines 369-423), with the parts of    *)
(* golang.org/x/sync/errgroup it relies on.                                *)
(*                                                                         *)
(* Run derives one cancelable context from the caller's (errgroup.         *)
(* WithContext), then issues one group.Go per subsystem slot, in the       *)
(* order of the source; the two optional slots (GracefulExit.Chore,        *)
(* Payments.Chore) are launched only when New populated them.  Each task   *)
(* runs the subsystem's Run(ctx) and passes its result through             *)
(* errs2.IgnoreCanceled, which turns a cancellation-shaped error into nil. *)
(* The errgroup records the first non-nil result (errOnce) and cancels     *)
(* the shared context; group.Wait joins every task, cancels the context    *)
(* and returns the recorded error.                                         *)
(*                                                                         *)
(* A subsystem is an actor of its own: while running it may return nil,   *)
(* a genuine error, or a cancellation-shaped error, at any time; after     *)
(* the shared context is canceled it is assumed to return (the subsystem   *)
(* contract of the spec, section 4.2), which is the only fairness on it.   *)
(* Errors are identified by the slot that produced them.                   *)
(***************************************************************************)
EXTENDS Naturals, Sequences, FiniteSets

CONSTANTS
  Slots,        \* the subsystem slots Core.Run launches a task for
  LaunchOrder,  \* the order of the group.Go statements, a sequence of Slots
  Optional,     \* the slots guarded by "!= nil" in Run
  NoErr         \* the nil error

ASSUME LaunchOrderAssumption ==
  /\ LaunchOrder \in Seq(Slots)
  /\ Len(LaunchOrder) > 0
  /\ \A s \in Slots : \E i \in 1..Len(LaunchOrder) : LaunchOrder[i] = s
  \* each subsystem has one group.Go of its own
  /\ \A i, j \in 1..Len(LaunchOrder) : i # j => LaunchOrder[i] # LaunchOrder[j]

ASSUME OptionalAssumption == Optional \subseteq Slots

ASSUME NoErrAssumption == NoErr \notin Slots

VARIABLES
  present,         \* slots New left non-nil (fixed once Run may start)
  runPc,           \* where Core.Run is: "idle", "launch", "wait", "returned"
  next,            \* index in LaunchOrder of the next group.Go statement
  task,            \* per slot: "none" (not launched), "running", "done"
  parentCanceled,  \* the caller canceled the context passed to Run
  groupCanceled,   \* the errgroup's cancel function has been called
  groupErr,        \* the errgroup's recorded error (errOnce)
  result,          \* the error Run returned, once runPc = "returned"
  (*************************************************************************)
  (* History variable, read only by properties.                            *)
  (*************************************************************************)
  failures         \* slots whose Run returned a non-cancellation error, in order

vars == <<present, runPc, next, task, parentCanceled, groupCanceled,
          groupErr, result, failures>>

ErrorVal == Slots \cup {NoErr}

\* What a subsystem's Run(ctx) may return: nil, its own error, or an error
\* that errs2.IsCanceled recognises.
Outcomes == {"nil", "error", "canceled"}

\* The context the tasks see: child of the caller's, canceled by either.
CtxDone == parentCanceled \/ groupCanceled

\* Fault variant: the task returns Run's error without IgnoreCanceled, so a
\* cancellation reaches the errgroup as the error context.Canceled.
IgnoreCanceledDropped(s, outcome) ==
  CASE outcome = "nil"   -> NoErr
    [] outcome = "error" -> s
    [] OTHER             -> "context.Canceled"

\* errs2.IgnoreCanceled(err) applied to what slot s's Run returned.
IgnoreCanceled(s, outcome) == IF outcome = "error" THEN s ELSE NoErr

Init ==
  /\ \E opt \in SUBSET Optional : present = (Slots \ Optional) \cup opt
  /\ runPc = "idle"
  /\ next = 1
  /\ task = [s \in Slots |-> "none"]
  /\ parentCanceled = FALSE
  /\ groupCanceled = FALSE
  /\ groupErr = NoErr
  /\ result = NoErr
  /\ failures = <<>>

(***************************************************************************)
(* errgroup.WithContext(ctx) at the top of Run (line 373).                 *)
(***************************************************************************)
RunStart ==
  /\ runPc = "idle"
  /\ runPc' = "launch"
  /\ UNCHANGED <<present, next, task, parentCanceled, groupCanceled,
                 groupErr, result, failures>>

(***************************************************************************)
(* One group.Go statement (lines 375-420): the slot at position next is    *)
(* launched, unless it is an optional slot that New left nil.  After the   *)
(* last one Run blocks in group.Wait.                                      *)
(***************************************************************************)
\* A launch without the nil checks of lines 405 and 414.
LaunchUnguarded ==
  /\ runPc = "launch"
  /\ task' = [task EXCEPT ![LaunchOrder[next]] = "running"]
  /\ next' = next + 1
  /\ runPc' = IF next = Len(LaunchOrder) THEN "wait" ELSE "launch"
  /\ UNCHANGED <<present, parentCanceled, groupCanceled, groupErr, result,
                 failures>>

Launch ==
  /\ runPc = "launch"
  /\ LET s == LaunchOrder[next] IN
       task' = IF s \in present
                 THEN [task EXCEPT ![s] = "running"]
                 ELSE task
  /\ next' = next + 1
  /\ runPc' = IF next = Len(LaunchOrder) THEN "wait" ELSE "launch"
  /\ UNCHANGED <<present, parentCanceled, groupCanceled, groupErr, result,
                 failures>>

(***************************************************************************)
(* Fault variants of TaskExit: the wrapper overwrites the recorded error   *)
(* instead of keeping the first (no errOnce); it records the error but     *)
(* forgets to cancel the shared context; it cancels the context whenever   *)
(* a task returns, as a deferred cancel in each goroutine would.           *)
(***************************************************************************)
TaskExitNoOnce(s, outcome) ==
  /\ task[s] = "running"
  /\ task' = [task EXCEPT ![s] = "done"]
  /\ LET err == IgnoreCanceled(s, outcome) IN
       IF err # NoErr
         THEN groupErr' = err /\ groupCanceled' = TRUE
         ELSE UNCHANGED <<groupErr, groupCanceled>>
  /\ failures' = IF outcome = "error" THEN Append(failures, s) ELSE failures
  /\ UNCHANGED <<present, runPc, next, parentCanceled, result>>

TaskExitNoCancel(s, outcome) ==
  /\ task[s] = "running"
  /\ task' = [task EXCEPT ![s] = "done"]
  /\ LET err == IgnoreCanceled(s, outcome) IN
       IF err # NoErr /\ groupErr = NoErr
         THEN groupErr' = err
         ELSE UNCHANGED groupErr
  /\ UNCHANGED groupCanceled
  /\ failures' = IF outcome = "error" THEN Append(failures, s) ELSE failures
  /\ UNCHANGED <<present, runPc, next, parentCanceled, result>>

TaskExitCancelOnExit(s, outcome) ==
  /\ task[s] = "running"
  /\ task' = [task EXCEPT ![s] = "done"]
  /\ LET err == IgnoreCanceled(s, outcome) IN
       groupErr' = IF err # NoErr /\ groupErr = NoErr THEN err ELSE groupErr
  /\ groupCanceled' = TRUE
  /\ failures' = IF outcome = "error" THEN Append(failures, s) ELSE failures
  /\ UNCHANGED <<present, runPc, next, parentCanceled, result>>

(***************************************************************************)
(* The task of slot s finishes: the subsystem's Run returns, the result    *)
(* goes through IgnoreCanceled, and the errgroup's wrapper records the     *)
(* first non-nil result and cancels the shared context (errOnce.Do), then  *)
(* calls wg.Done.                                                          *)
(***************************************************************************)
TaskExit(s, outcome) ==
  /\ task[s] = "running"
  /\ task' = [task EXCEPT ![s] = "done"]
  /\ LET err == IgnoreCanceled(s, outcome) IN
       IF err # NoErr /\ groupErr = NoErr
         THEN /\ groupErr' = err
              /\ groupCanceled' = TRUE
         ELSE UNCHANGED <<groupErr, groupCanceled>>
  /\ failures' = IF outcome = "error" THEN Append(failures, s) ELSE failures
  /\ UNCHANGED <<present, runPc, next, parentCanceled, result>>

(***************************************************************************)
(* group.Wait (line 422): once every launched task is done, the errgroup   *)
(* cancels the context and Run returns the recorded error.                 *)
(***************************************************************************)
WaitReturn ==
  /\ runPc = "wait"
  /\ \A s \in Slots : task[s] # "running"
  /\ runPc' = "returned"
  /\ result' = groupErr
  /\ groupCanceled' = TRUE
  /\ UNCHANGED <<present, next, task, parentCanceled, groupErr, failures>>

(***************************************************************************)
(* The caller cancels the context it passed to Run (shutdown signal).      *)
(***************************************************************************)
ParentCancel ==
  /\ ~parentCanceled
  /\ parentCanceled' = TRUE
  /\ UNCHANGED <<present, runPc, next, task, groupCanceled, groupErr, result,
                 failures>>

\* Run has returned: the behaviour may stop here.
Returned ==
  /\ runPc = "returned"
  /\ UNCHANGED vars

Next ==
  \/ RunStart
  \/ Launch
  \/ \E s \in Slots, o \in Outcomes : TaskExit(s, o)
  \/ WaitReturn
  \/ ParentCancel
  \/ Returned

(***************************************************************************)
(* Run's own steps are taken whenever enabled; a subsystem is only assumed *)
(* to return once the shared context is canceled.  The caller is not       *)
(* assumed to call Run or to cancel.                                       *)
(***************************************************************************)
Fairness ==
  /\ WF_vars(Launch)
  /\ WF_vars(WaitReturn)
  /\ \A s \in Slots : WF_vars(CtxDone /\ TaskExit(s, "canceled"))

Spec == Init /\ [][Next]_vars /\ Fairness

-----------------------------------------------------------------------------
TypeOK ==
  /\ present \subseteq Slots
  /\ runPc \in {"idle", "launch", "wait", "returned"}
  /\ next \in 1..(Len(LaunchOrder) + 1)
  /\ task \in [Slots -> {"none", "running", "done"}]
  /\ parentCanceled \in BOOLEAN
  /\ groupCanceled \in BOOLEAN
  /\ groupErr \in ErrorVal
  /\ result \in ErrorVal
  /\ failures \in Seq(Slots)

(***************************************************************************)
(* Run returns only after every subsystem it launched has returned, and    *)
(* what it returns is the first genuine (non-cancellation) error a         *)
(* subsystem returned, or nil when none did: the fan-in of group.Wait      *)
(* together with errOnce and IgnoreCanceled.                               *)
(***************************************************************************)
RunOutcome ==
  runPc = "returned" =>
    /\ \A s \in present : task[s] = "done"
    /\ result = IF failures = <<>> THEN NoErr ELSE Head(failures)

(***************************************************************************)
(* The shared context is canceled only by the caller, by a genuine failure *)
(* of some subsystem, or by Run's own return: a subsystem that exits       *)
(* cleanly, or with a cancellation-shaped error, never takes its siblings  *)
(* down (IgnoreCanceled before the errgroup wrapper).                      *)
(***************************************************************************)
CancelOnlyOnFailure ==
  groupCanceled => (failures # <<>> \/ runPc = "returned")

(***************************************************************************)
(* The refinement mapping to RunContract: Run is running from its first    *)
(* launch until Wait returns, and a subsystem has exited when its          *)
(* goroutine has returned.                                                 *)
(***************************************************************************)
RunPhase == IF runPc \in {"idle", "returned"} THEN runPc ELSE "running"

Exited == {s \in Slots : task[s] = "done"}

RC == INSTANCE RunContract WITH phase <- RunPhase, exited <- Exited

(***************************************************************************)
(* Core.Run implements its contract: only populated subsystems run and     *)
(* exit, each once, and Run returns the first failure only after all of   *)
(* them have exited, after which nothing it reports changes.               *)
(***************************************************************************)
RunContractSpec == RC!Spec

(***************************************************************************)
(* Once Run has started, a shutdown request from the caller or a genuine   *)
(* failure of any subsystem leads to Run returning: the cancellation       *)
(* reaches every task, including those launched after it, and Wait joins  *)
(* them.                                                                   *)
(***************************************************************************)
ShutdownCompletes ==
  (runPc # "idle" /\ (parentCanceled \/ failures # <<>>)) ~> (runPc = "returned")

(***************************************************************************)
(* Spec, sections 7 and 8: errors are never silently dropped; when two     *)
(* subsystems fail concurrently, both failures must survive (returned or   *)
(* logged).  Core.Run logs nothing and the errgroup keeps only the first   *)
(* error, so every genuine failure must be the one Run returns.            *)
(***************************************************************************)
FailuresNotLost ==
  runPc = "returned" => \A i \in 1..Len(failures) : failures[i] = result

=============================================================================
