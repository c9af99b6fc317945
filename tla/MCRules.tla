------------------------------ MODULE MCRules ------------------------------
(***************************************************************************)
(* Instances of Rules for TLC: host a is matched by pattern pa alone, host *)
(* b by the wider pattern pab as well.                                     *)
(***************************************************************************)
EXTENDS Rules, TLC

CONSTANTS a, b, pa, pab, blank

MCMatches == (pa :> {a}) @@ (pab :> {a, b}) @@ (blank :> {})

Rule(o, w, k) == [only |-> o, white |-> w, black |-> k]

MCGlobalBodies == {NoRules, Rule(FALSE, {blank}, {pa}), Rule(TRUE, {pa}, {})}

MCUserBodies == {NoRules, Rule(FALSE, {pa}, {}), Rule(TRUE, {pab}, {pa})}
=============================================================================
