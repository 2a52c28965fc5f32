---------------------------- MODULE RunContract ----------------------------
(***************************************************************************)
(* What Core.Run (src/satellite/core.go 369-423) promises its caller,      *)
(* without goroutines, the errgroup or its context: once started, each     *)
(* populated subsystem exits once, cleanly or with a failure, and Run      *)
(* returns only when all of them have exited, returning the first failure  *)
(* or nil.  Nothing changes after Run has returned.                        *)
(***************************************************************************)
EXTENDS Sequences

CONSTANTS
  Slots,   \* the subsystem slots of Core
  NoErr    \* nil

VARIABLES
  phase,     \* "idle", "running" or "returned"
  present,   \* the populated slots
  exited,    \* the populated slots whose task has returned
  failures,  \* the failed slots, in the order they failed
  result     \* what Run returned

vars == <<phase, present, exited, failures, result>>

Init ==
  /\ phase = "idle"
  /\ present \in SUBSET Slots
  /\ exited = {}
  /\ failures = <<>>
  /\ result = NoErr

Start ==
  /\ phase = "idle"
  /\ phase' = "running"
  /\ UNCHANGED <<present, exited, failures, result>>

\* A populated subsystem's task returns, with a failure or without one.
Exit(s, failed) ==
  /\ phase = "running"
  /\ s \in present \ exited
  /\ exited' = exited \cup {s}
  /\ failures' = IF failed THEN Append(failures, s) ELSE failures
  /\ UNCHANGED <<phase, present, result>>

\* Run returns once every populated task has, with the first failure.
Return ==
  /\ phase = "running"
  /\ exited = present
  /\ phase' = "returned"
  /\ result' = IF failures = <<>> THEN NoErr ELSE Head(failures)
  /\ UNCHANGED <<present, exited, failures>>

Next ==
  \/ Start
  \/ \E s \in Slots, failed \in BOOLEAN : Exit(s, failed)
  \/ Return

Spec == Init /\ [][Next]_vars

=============================================================================
