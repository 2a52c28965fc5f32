---------------------------- MODULE MC_CoreRun ----------------------------
(***************************************************************************)
(* Core.Run on four of its slots: the metainfo loop (launched first), two  *)
(* always-present chores, and the graceful-exit chore, optional as in the *)
(* source.  Every subsystem behaves alike, so four slots already give     *)
(* every order of failures, clean exits and cancellations between a       *)
(* task launched before and one launched after a failure.                 *)
(***************************************************************************)
EXTENDS CoreRun

CONSTANTS loop, checker, tally, gracefulexit

MCLaunchOrder == <<loop, checker, tally, gracefulexit>>
=============================================================================
