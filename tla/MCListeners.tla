---------------------------- MODULE MCListeners -----------------------------
(* Three addresses: a change finds one that is free, or the old one again. *)
EXTENDS Listeners, TLC

CONSTANTS p1, p2, p3

MCAddrs == {p1, p2, p3}
MCDefault == [k \in Kinds |-> IF k = "proxy" THEN p1 ELSE p2]
Symmetry == Permutations(Handlers)
=============================================================================
