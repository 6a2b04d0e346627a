-------------------------- MODULE MCMessageHandles --------------------------
(* Instances of MessageHandles for TLC. *)
EXTENDS MessageHandles, TLC

CONSTANTS p1, p2

Perms == Permutations({p1, p2})

=============================================================================
