------------------------------ MODULE MC_Auth ------------------------------
EXTENDS Auth, TLC

\* Callers, session tokens and passwords are interchangeable.
MCSymmetry == Permutations(Procs) \cup Permutations(SessionIds)
                \cup Permutations(Passwords)
=============================================================================
