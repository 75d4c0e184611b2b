---------------------------- MODULE MC_AtomicFile ----------------------------
EXTENDS AtomicFile, TLC
=============================================================================
