----------------------------- MODULE MC_Backup ------------------------------
(***************************************************************************)
(* Model-checking instance of Backup: two marketplace URLs and None, two   *)
(* package versions, three create attempts, a clock of two seconds and    *)
(* one crash.                                                              *)
(***************************************************************************)
EXTENDS Backup, TLC

\* The marketplace URLs are interchangeable.
MCSymmetry == Permutations(Urls)

=============================================================================
