---------------------------- MODULE MCUserStore ----------------------------
(***************************************************************************)
(* Instances of UserStore for TLC.  "bob" and "Bob" log in alike; " bob"   *)
(* does not, but is the same name to the import, which trims it.           *)
(***************************************************************************)
EXTENDS UserStore

MCNames == {"admin", "bob", "Bob", " bob"}
MCKey == [n \in MCNames |-> IF n = "Bob" THEN "bob" ELSE n]
MCTrimKey == [n \in MCNames |-> IF n = "admin" THEN n ELSE "bob"]

MCCreateBodies ==
  {[op |-> "create", name |-> "bob", role |-> "user", enabled |-> TRUE],
   [op |-> "create", name |-> "Bob", role |-> "admin", enabled |-> TRUE]}

(* A rename, a demotion, a disabling. *)
MCUpdateBodies ==
  {[op |-> "update", id |-> id, name |-> "bob", role |-> Keep, enabled |-> Keep] : id \in IDs}
  \cup {[op |-> "update", id |-> id, name |-> Keep, role |-> "user", enabled |-> Keep] : id \in IDs}
  \cup {[op |-> "update", id |-> id, name |-> Keep, role |-> Keep, enabled |-> FALSE] : id \in IDs}

(* A snapshot of another deployment, and one without an enabled admin. *)
MCDocs ==
  {<<[id |-> "i1", name |-> "admin", role |-> "admin", enabled |-> TRUE],
     [id |-> "i2", name |-> " bob", role |-> "user", enabled |-> TRUE]>>,
   <<[id |-> "i1", name |-> "admin", role |-> "admin", enabled |-> FALSE]>>}
=============================================================================
