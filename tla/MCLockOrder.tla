---------------------------- MODULE MCLockOrder ----------------------------
(* Two threads, each of which draws, removes a font or reloads. *)
EXTENDS LockOrder, TLC

CONSTANTS t1, t2

TwoThreads == {t1, t2}
Symmetry == Permutations(TwoThreads)
=============================================================================
