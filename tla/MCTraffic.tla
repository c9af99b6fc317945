----------------------------- MODULE MCTraffic ------------------------------
(* Every user has the smallest quota.  Old has traffic on record from before, as much
   as a run allows, and is the last in the list: the deletion of another user moves
   that record to a place of less traffic. *)
EXTENDS Traffic, FiniteSets, TLC

CONSTANT Old

MCLimit == [u \in Users |-> 1]
MCLists == {l \in [1 .. Cardinality(Users) -> Users] :
              (\A i, j \in DOMAIN l : l[i] = l[j] => i = j) /\ l[Cardinality(Users)] = Old}
MCSnapshots == {[u \in Users |-> IF u = Old THEN MaxTotal ELSE 0]}
=============================================================================
