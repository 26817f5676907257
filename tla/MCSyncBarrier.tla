--------------------------- MODULE MCSyncBarrier ---------------------------
(* SyncBarrier for model checking.                                          *)
EXTENDS SyncBarrier, TLC

Symmetry == Permutations(Threads)
=============================================================================
