---------------------------- MODULE MCThrottle -----------------------------
(***************************************************************************)
(* Instances of Throttle for TLC: the proportions of the code's limits     *)
(* with few failures and short times.                                      *)
(***************************************************************************)
EXTENDS Throttle, TLC

MCMaxFails == ("login" :> 2) @@ ("account" :> 2) @@ ("proxy" :> 2)
MCWindow == ("login" :> 2) @@ ("account" :> 2) @@ ("proxy" :> 2)
MCLockout == ("login" :> 2) @@ ("account" :> 2) @@ ("proxy" :> 1)

CONSTANT name
MCWatched == <<"account", name>>

Symmetry == Permutations(Attempts)
=============================================================================
