--------------------------- MODULE CoreRun_proofs ---------------------------
(***************************************************************************)
(* Proofs about Core.Run (module CoreRun), for every set of slots, every  *)
(* launch order and every choice of optional slots.                        *)
(*                                                                         *)
(* TypeOK and RunOutcome are not inductive by themselves: a Launch step    *)
(* stays in range only because runPc = "launch" implies next is a valid    *)
(* index, and Run's result is the first failure only because the          *)
(* errgroup's recorded error always is.  IInv adds what Run's control      *)
(* keeps true:                                                             *)
(*   - only slots New populated are ever launched;                        *)
(*   - where next stands for each value of runPc;                         *)
(*   - every populated slot before next has been launched, and no slot    *)
(*     from next on has;                                                   *)
(*   - the recorded error is the head of the failure history;              *)
(*   - once Run returned, it returned that error and every populated       *)
(*     task is done.                                                       *)
(***************************************************************************)
EXTENDS CoreRun, SequenceTheorems, TLAPS

LaunchedPresent == \A s \in Slots : task[s] # "none" => s \in present

PcNext ==
  /\ runPc = "idle" => next = 1
  /\ runPc = "launch" => next \in 1..Len(LaunchOrder)
  /\ runPc \in {"wait", "returned"} => next = Len(LaunchOrder) + 1

LaunchedBefore ==
  \A i \in 1..Len(LaunchOrder) :
    i < next /\ LaunchOrder[i] \in present => task[LaunchOrder[i]] # "none"

NotYetLaunched ==
  \A i \in 1..Len(LaunchOrder) : i >= next => task[LaunchOrder[i]] = "none"

FirstFailure == groupErr = IF failures = <<>> THEN NoErr ELSE Head(failures)

Joined ==
  runPc = "returned" =>
    /\ result = groupErr
    /\ \A s \in present : task[s] = "done"

IInv ==
  /\ TypeOK
  /\ LaunchedPresent
  /\ PcNext
  /\ LaunchedBefore
  /\ NotYetLaunched
  /\ FirstFailure
  /\ Joined

-----------------------------------------------------------------------------
(***************************************************************************)
(* The facts about the constants every step uses.                          *)
(***************************************************************************)
LEMMA ConstantFacts ==
  /\ LaunchOrder \in Seq(Slots)
  /\ Len(LaunchOrder) \in Nat \ {0}
  /\ \A s \in Slots : \E i \in 1..Len(LaunchOrder) : LaunchOrder[i] = s
  /\ \A i \in 1..Len(LaunchOrder) : LaunchOrder[i] \in Slots
  /\ \A i, j \in 1..Len(LaunchOrder) : i # j => LaunchOrder[i] # LaunchOrder[j]
  /\ NoErr \notin Slots
<1>1. LaunchOrder \in Seq(Slots) /\ Len(LaunchOrder) > 0
  BY LaunchOrderAssumption
<1>2. Len(LaunchOrder) \in Nat
  BY <1>1, LenProperties
<1>3. \A i \in 1..Len(LaunchOrder) : LaunchOrder[i] \in Slots
  BY <1>1, ElementOfSeq
<1>4. QED
  BY <1>1, <1>2, <1>3, LaunchOrderAssumption, NoErrAssumption

LEMMA InitIInv == Init => IInv
<1> SUFFICES ASSUME Init PROVE IInv
  OBVIOUS
<1>1. TypeOK
  <2>1. present \subseteq Slots
    BY OptionalAssumption DEF Init
  <2>2. next \in 1..Len(LaunchOrder) + 1
    BY ConstantFacts DEF Init
  <2>3. failures \in Seq(Slots)
    BY EmptySeq DEF Init
  <2>4. QED
    BY <2>1, <2>2, <2>3 DEF Init, TypeOK, ErrorVal
<1>2. FirstFailure
  BY DEF Init, FirstFailure
<1>3. NotYetLaunched
  BY ConstantFacts DEF Init, NotYetLaunched
<1>4. QED
  BY <1>1, <1>2, <1>3 DEF Init, IInv, LaunchedPresent, PcNext, LaunchedBefore,
                          Joined

-----------------------------------------------------------------------------
(***************************************************************************)
(* One lemma per action: each preserves IInv.                              *)
(***************************************************************************)
LEMMA RunStartIInv == IInv /\ RunStart => IInv'
<1> SUFFICES ASSUME IInv, RunStart PROVE IInv'
  OBVIOUS
<1>1. TypeOK'
  BY DEF IInv, RunStart, TypeOK
<1>2. PcNext'
  BY ConstantFacts DEF IInv, RunStart, PcNext
<1>3. QED
  BY <1>1, <1>2 DEF IInv, RunStart, LaunchedPresent, LaunchedBefore,
                    NotYetLaunched, FirstFailure, Joined

LEMMA LaunchIInv == IInv /\ Launch => IInv'
<1> SUFFICES ASSUME IInv, Launch PROVE IInv'
  OBVIOUS
<1> DEFINE s == LaunchOrder[next]
<1>1. next \in 1..Len(LaunchOrder) /\ s \in Slots
  BY ConstantFacts DEF IInv, PcNext, Launch
<1>2. task' = IF s \in present THEN [task EXCEPT ![s] = "running"] ELSE task
  BY DEF Launch
<1>3. TypeOK'
  <2>1. task' \in [Slots -> {"none", "running", "done"}]
    BY <1>1, <1>2 DEF IInv, TypeOK
  <2>2. next' \in 1..Len(LaunchOrder) + 1
    BY <1>1, ConstantFacts DEF Launch
  <2>3. runPc' \in {"idle", "launch", "wait", "returned"}
    BY DEF Launch
  <2>4. QED
    BY <2>1, <2>2, <2>3 DEF IInv, Launch, TypeOK
<1>4. LaunchedPresent'
  BY <1>1, <1>2 DEF IInv, Launch, LaunchedPresent, TypeOK
<1>5. PcNext'
  BY <1>1, ConstantFacts DEF IInv, Launch, PcNext
<1>6. LaunchedBefore'
  <2> SUFFICES ASSUME NEW i \in 1..Len(LaunchOrder),
                      i < next + 1, LaunchOrder[i] \in present
               PROVE  task'[LaunchOrder[i]] # "none"
    BY DEF Launch, LaunchedBefore
  <2>1. CASE i = next
    BY <1>1, <1>2, <2>1 DEF IInv, TypeOK
  <2>2. CASE i < next
    BY <1>1, <1>2, <2>2, ConstantFacts DEF IInv, TypeOK, LaunchedBefore
  <2>3. QED
    BY <1>1, <2>1, <2>2
<1>7. NotYetLaunched'
  <2> SUFFICES ASSUME NEW i \in 1..Len(LaunchOrder), i >= next + 1
               PROVE  task'[LaunchOrder[i]] = "none"
    BY DEF Launch, NotYetLaunched
  <2>1. LaunchOrder[i] # s /\ LaunchOrder[i] \in Slots
    BY <1>1, ConstantFacts
  <2>2. task[LaunchOrder[i]] = "none"
    BY <1>1 DEF IInv, NotYetLaunched
  <2>3. QED
    BY <1>2, <2>1, <2>2 DEF IInv, TypeOK
<1>8. QED
  BY <1>3, <1>4, <1>5, <1>6, <1>7 DEF IInv, Launch, FirstFailure, Joined

LEMMA TaskExitIInv ==
  ASSUME NEW s \in Slots, NEW o \in Outcomes, IInv, TaskExit(s, o)
  PROVE  IInv'
<1>1. failures' = IF o = "error" THEN Append(failures, s) ELSE failures
  BY DEF TaskExit
<1>2. failures' \in Seq(Slots)
  BY <1>1, AppendProperties DEF IInv, TypeOK
<1>3. groupErr' = IF IgnoreCanceled(s, o) # NoErr /\ groupErr = NoErr
                    THEN IgnoreCanceled(s, o) ELSE groupErr
  BY DEF TaskExit
<1>4. TypeOK'
  BY <1>2, <1>3 DEF IInv, TaskExit, TypeOK, ErrorVal, IgnoreCanceled
<1>5. FirstFailure'
  <2>1. CASE o = "error"
    <3>1. failures' = Append(failures, s) /\ IgnoreCanceled(s, o) = s
      BY <1>1, <2>1 DEF IgnoreCanceled
    <3>2. Head(failures') = IF failures = <<>> THEN s ELSE Head(failures)
      BY <3>1, HeadTailAppend DEF IInv, TypeOK
    <3>3. failures # <<>> => Head(failures) \in Slots
      BY HeadTailProperties DEF IInv, TypeOK
    <3>4. failures' # <<>>
      BY <3>1, AppendProperties DEF IInv, TypeOK
    <3>5. QED
      BY <1>3, <3>1, <3>2, <3>3, <3>4, ConstantFacts DEF IInv, FirstFailure
  <2>2. CASE o # "error"
    BY <1>1, <1>3, <2>2 DEF IInv, FirstFailure, IgnoreCanceled
  <2>3. QED
    BY <2>1, <2>2
<1>6. Joined'
  \* After Run returned no task is running, so no task can exit.
  <2>1. runPc # "returned"
    BY DEF IInv, TaskExit, Joined, LaunchedPresent
  <2>2. QED
    BY <2>1 DEF TaskExit, Joined
<1>7. LaunchedPresent' /\ LaunchedBefore'
  BY DEF IInv, TaskExit, TypeOK, LaunchedPresent, LaunchedBefore
<1>8. NotYetLaunched'
  <2> SUFFICES ASSUME NEW i \in 1..Len(LaunchOrder), i >= next
               PROVE  task'[LaunchOrder[i]] = "none"
    BY DEF TaskExit, NotYetLaunched
  <2>1. task[LaunchOrder[i]] = "none" /\ LaunchOrder[i] \in Slots
    BY ConstantFacts DEF IInv, NotYetLaunched
  <2>2. LaunchOrder[i] # s
    BY <2>1 DEF TaskExit
  <2>3. QED
    BY <2>1, <2>2 DEF TaskExit, IInv, TypeOK
<1>9. QED
  BY <1>4, <1>5, <1>6, <1>7, <1>8 DEF IInv, TaskExit, PcNext

LEMMA WaitReturnIInv == IInv /\ WaitReturn => IInv'
<1> SUFFICES ASSUME IInv, WaitReturn PROVE IInv'
  OBVIOUS
<1>1. TypeOK'
  BY DEF IInv, WaitReturn, TypeOK
<1>2. ASSUME NEW s \in present PROVE task[s] = "done"
  <2>1. s \in Slots
    BY DEF IInv, TypeOK
  <2>2. PICK i \in 1..Len(LaunchOrder) : LaunchOrder[i] = s
    BY <2>1, ConstantFacts
  <2>3. next = Len(LaunchOrder) + 1
    BY DEF IInv, PcNext, WaitReturn
  <2>4. i < next
    BY <2>3, ConstantFacts
  <2>5. task[LaunchOrder[i]] # "none"
    BY <2>2, <2>4 DEF IInv, LaunchedBefore
  <2>6. task[s] # "none"
    BY <2>2, <2>5
  <2>7. QED
    BY <2>1, <2>6 DEF IInv, TypeOK, WaitReturn
<1>2a. Joined'
  BY <1>2 DEF WaitReturn, Joined
<1>3. QED
  BY <1>1, <1>2a DEF IInv, WaitReturn, LaunchedPresent, PcNext,
                     LaunchedBefore, NotYetLaunched, FirstFailure

LEMMA ParentCancelIInv == IInv /\ ParentCancel => IInv'
  BY DEF IInv, ParentCancel, TypeOK, LaunchedPresent, PcNext, LaunchedBefore,
         NotYetLaunched, FirstFailure, Joined

LEMMA StutterIInv == IInv /\ UNCHANGED vars => IInv'
  BY DEF IInv, vars, TypeOK, LaunchedPresent, PcNext, LaunchedBefore,
         NotYetLaunched, FirstFailure, Joined

LEMMA NextIInv == IInv /\ [Next]_vars => IInv'
<1> SUFFICES ASSUME IInv, [Next]_vars PROVE IInv'
  OBVIOUS
<1>1. CASE RunStart
  BY <1>1, RunStartIInv
<1>2. CASE Launch
  BY <1>2, LaunchIInv
<1>3. CASE \E s \in Slots, o \in Outcomes : TaskExit(s, o)
  BY <1>3, TaskExitIInv
<1>4. CASE WaitReturn
  BY <1>4, WaitReturnIInv
<1>5. CASE ParentCancel
  BY <1>5, ParentCancelIInv
<1>6. CASE Returned \/ UNCHANGED vars
  BY <1>6, StutterIInv DEF Returned
<1>7. QED
  BY <1>1, <1>2, <1>3, <1>4, <1>5, <1>6 DEF Next

-----------------------------------------------------------------------------
(***************************************************************************)
(* IInv holds in every state of every behaviour of Spec.                   *)
(***************************************************************************)
THEOREM IInvariant == Spec => []IInv
BY InitIInv, NextIInv, PTL DEF Spec

(***************************************************************************)
(* Type correctness of Core.Run's state: every variable keeps its type,   *)
(* the launch index in particular never leaves LaunchOrder's range.        *)
(***************************************************************************)
THEOREM TypeCorrect == Spec => []TypeOK
<1>1. IInv => TypeOK
  BY DEF IInv
<1>2. QED
  BY <1>1, IInvariant, PTL

(***************************************************************************)
(* For every set of subsystems and every launch order, Core.Run returns   *)
(* only after every populated subsystem's task has returned, and returns  *)
(* the first genuine failure, or nil when there was none.                  *)
(***************************************************************************)
THEOREM RunOutcomeCorrect == Spec => []RunOutcome
<1>1. IInv => RunOutcome
  BY DEF IInv, Joined, FirstFailure, RunOutcome
<1>2. QED
  BY <1>1, IInvariant, PTL


-----------------------------------------------------------------------------
(***************************************************************************)
(* Core.Run implements RunContract under the mapping of CoreRun (RunPhase, *)
(* Exited): the errgroup's launches, context cancels and errOnce are      *)
(* internal steps that the contract does not see.                          *)
(***************************************************************************)
LEMMA InitRefines == Init => RC!Init
<1> SUFFICES ASSUME Init PROVE RC!Init
  OBVIOUS
<1>1. RunPhase = "idle"
  BY DEF Init, RunPhase
<1>2. present \in SUBSET Slots
  BY OptionalAssumption DEF Init
<1>3. Exited = {}
  BY DEF Init, Exited
<1>4. QED
  BY <1>1, <1>2, <1>3 DEF Init, RC!Init

\* Before RunStart no task has been launched: every slot is in LaunchOrder
\* at an index >= next = 1.
LEMMA IdleNoneRunning ==
  ASSUME IInv, runPc = "idle", NEW s \in Slots
  PROVE  task[s] = "none"
BY ConstantFacts DEF IInv, PcNext, NotYetLaunched

LEMMA StepRefines == IInv /\ [Next]_vars => [RC!Next]_RC!vars
<1> SUFFICES ASSUME IInv, [Next]_vars PROVE [RC!Next]_RC!vars
  OBVIOUS
<1>1. CASE RunStart
  <2>1. RunPhase = "idle" /\ RunPhase' = "running"
    BY <1>1 DEF RunStart, RunPhase
  <2>2. Exited' = Exited
    BY <1>1 DEF RunStart, Exited
  <2>3. QED
    BY <1>1, <2>1, <2>2 DEF RunStart, RC!Next, RC!Start
<1>2. CASE Launch
  <2> DEFINE ls == LaunchOrder[next]
  <2>0. next \in 1..Len(LaunchOrder)
    BY <1>2 DEF IInv, PcNext, Launch
  <2>1. ls \in Slots /\ task[ls] = "none"
    BY <2>0, ConstantFacts DEF IInv, NotYetLaunched
  <2>2. task' = IF ls \in present THEN [task EXCEPT ![ls] = "running"] ELSE task
    BY <1>2 DEF Launch
  <2>3. Exited' = Exited
    BY <2>1, <2>2 DEF IInv, TypeOK, Exited
  <2>4. RunPhase' = RunPhase
    BY <1>2 DEF Launch, RunPhase
  <2>5. QED
    BY <1>2, <2>3, <2>4 DEF Launch, RC!vars
<1>3. ASSUME NEW s \in Slots, NEW o \in Outcomes, TaskExit(s, o)
      PROVE  [RC!Next]_RC!vars
  <2>1. task[s] = "running"
    BY <1>3 DEF TaskExit
  <2>2. s \in present
    BY <2>1 DEF IInv, LaunchedPresent
  <2>3. runPc # "idle"
    BY <2>1, IdleNoneRunning
  <2>4. runPc # "returned"
    BY <2>1, <2>2 DEF IInv, Joined
  <2>5. RunPhase = "running" /\ RunPhase' = "running"
    BY <1>3, <2>3, <2>4 DEF TaskExit, RunPhase, IInv, TypeOK
  <2>6. s \notin Exited /\ Exited' = Exited \cup {s}
    BY <1>3, <2>1 DEF TaskExit, Exited, IInv, TypeOK
  <2>7. failures' = IF o = "error" THEN Append(failures, s) ELSE failures
    BY <1>3 DEF TaskExit
  <2>8. RC!Exit(s, o = "error")
    BY <1>3, <2>2, <2>5, <2>6, <2>7 DEF TaskExit, RC!Exit
  <2>9. QED
    BY <2>8 DEF RC!Next
<1>4. CASE WaitReturn
  <2>1. RunPhase = "running" /\ RunPhase' = "returned"
    BY <1>4 DEF WaitReturn, RunPhase
  <2>2. Exited \subseteq present
    BY DEF IInv, LaunchedPresent, Exited
  <2>3. present \subseteq Exited
    <3> SUFFICES ASSUME NEW s \in present PROVE task[s] = "done"
      BY DEF Exited, IInv, TypeOK
    <3>1. PICK i \in 1..Len(LaunchOrder) : LaunchOrder[i] = s
      BY ConstantFacts DEF IInv, TypeOK
    <3>2. task[s] # "none"
      BY <1>4, <3>1, ConstantFacts DEF IInv, PcNext, LaunchedBefore, WaitReturn
    <3>3. QED
      BY <1>4, <3>2 DEF WaitReturn, IInv, TypeOK
  <2>4. Exited' = Exited
    BY <1>4 DEF WaitReturn, Exited
  <2>5. result' = IF failures = <<>> THEN NoErr ELSE Head(failures)
    BY <1>4 DEF WaitReturn, IInv, FirstFailure
  <2>6. QED
    BY <1>4, <2>1, <2>2, <2>3, <2>4, <2>5 DEF WaitReturn, RC!Next, RC!Return
<1>5. CASE ParentCancel \/ Returned \/ UNCHANGED vars
  BY <1>5 DEF ParentCancel, Returned, vars, RC!vars, RunPhase, Exited
<1>6. QED
  BY <1>1, <1>2, <1>3, <1>4, <1>5 DEF Next

(***************************************************************************)
(* Core.Run refines RunContract: once started, every populated subsystem   *)
(* exits once, and Run returns only after all have, with the first failure *)
(* or nil, for every set of slots and every launch order.                  *)
(***************************************************************************)
THEOREM RunRefinesContract == Spec => RunContractSpec
<1>1. []IInv /\ [][Next]_vars => [][RC!Next]_RC!vars
  BY StepRefines, PTL
<1>2. QED
  BY <1>1, InitRefines, IInvariant, PTL DEF Spec, RunContractSpec, RC!Spec

-----------------------------------------------------------------------------
(***************************************************************************)
(* CancelOnlyOnFailure is inductive once TypeOK is known: the only steps   *)
(* that cancel the group context are a TaskExit carrying a genuine error, *)
(* which appends to the failure history, and Wait's return; the history   *)
(* never shrinks and Run never leaves "returned".                          *)
(***************************************************************************)
LEMMA CancelStep ==
  IInv /\ CancelOnlyOnFailure /\ [Next]_vars => CancelOnlyOnFailure'
<1> SUFFICES ASSUME IInv, CancelOnlyOnFailure, [Next]_vars
             PROVE  CancelOnlyOnFailure'
  OBVIOUS
<1>1. CASE RunStart
  BY <1>1 DEF RunStart, CancelOnlyOnFailure
<1>2. CASE Launch
  BY <1>2 DEF Launch, CancelOnlyOnFailure
<1>3. ASSUME NEW s \in Slots, NEW o \in Outcomes, TaskExit(s, o)
      PROVE  CancelOnlyOnFailure'
  <2>1. failures' = IF o = "error" THEN Append(failures, s) ELSE failures
    BY <1>3 DEF TaskExit
  <2>2. o = "error" => failures' # <<>>
    BY <2>1, AppendProperties DEF IInv, TypeOK
  <2>3. failures # <<>> => failures' # <<>>
    BY <2>1, <2>2
  <2>4. groupCanceled' => groupCanceled \/ o = "error"
    BY <1>3 DEF TaskExit, IgnoreCanceled
  <2>5. QED
    BY <1>3, <2>2, <2>3, <2>4 DEF TaskExit, CancelOnlyOnFailure
<1>4. CASE WaitReturn
  BY <1>4 DEF WaitReturn, CancelOnlyOnFailure
<1>5. CASE ParentCancel \/ Returned \/ UNCHANGED vars
  BY <1>5 DEF ParentCancel, Returned, vars, CancelOnlyOnFailure
<1>6. QED
  BY <1>1, <1>2, <1>3, <1>4, <1>5 DEF Next

(***************************************************************************)
(* For every instance, the errgroup's context is canceled only by a       *)
(* genuine failure of some subsystem or by group.Wait returning: a clean   *)
(* exit or a cancellation-shaped error never takes the siblings down.     *)
(***************************************************************************)
THEOREM CancelOnlyOnFailureHolds == Spec => []CancelOnlyOnFailure
<1>1. Init => CancelOnlyOnFailure
  BY DEF Init, CancelOnlyOnFailure
<1>2. QED
  BY <1>1, CancelStep, IInvariant, PTL DEF Spec

=============================================================================
