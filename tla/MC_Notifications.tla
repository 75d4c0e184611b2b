-------------------------- MODULE MC_Notifications --------------------------
(***************************************************************************)
(* Model-checking instance of Notifications: two concurrent callers, one   *)
(* notification key, a 2-second debounce interval, a clock of 4 seconds,   *)
(* three notify calls and one process restart.                             *)
(***************************************************************************)
EXTENDS Notifications, TLC

MCIntervals == {2}

\* The key is a Warning.
MCLevelOf == [k \in Keys |-> "Warning"]

\* Callers are interchangeable.
MCSymmetry == Permutations(Procs)

=============================================================================
