---------------------------- MODULE MCLockOrder ----------------------------
(* One session that runs any call, two that keep the order and are interchangeable. *)
EXTENDS LockOrder, TLC

CONSTANTS c1, c2, c3

Symmetry == Permutations(Orderly)

=============================================================================
