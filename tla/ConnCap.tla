------------------------------ MODULE ConnCap ------------------------------
(***************************************************************************)
(* What connection admission promises, with nothing of how it is done: a   *)
(* request holds a slot or it does not, and it takes one only when the     *)
(* slots then held, its own included, fit a global cap and a per-user cap  *)
(* that the administrator may configure.  A cap of 0 means "unlimited".    *)
(***************************************************************************)
EXTENDS Naturals, FiniteSets

CONSTANTS Reqs,        \* handler goroutines
          Users,       \* user IDs
          NoUser,      \* the caller when proxy.require_auth is off
          Out,         \* "holds no slot"
          GlobalCaps,  \* values max_global_conns may be given
          UserCaps     \* values the effective per-user cap may take

VARIABLE holder        \* holder[r]: the user whose slot r holds, or Out

Callers == Users \cup {NoUser}

(* Requests that hold a slot, and those that hold one of user u's. *)
Holding == {r \in Reqs : holder[r] # Out}
HoldingFor(u) == {r \in Reqs : holder[r] = u}

(* n connections fit one of the caps. *)
Fits(n, caps) == \E c \in caps : c = 0 \/ n <= c

Init == holder = [r \in Reqs |-> Out]

Admit(r, u) ==
  /\ holder[r] = Out
  /\ holder' = [holder EXCEPT ![r] = u]
  /\ Fits(Cardinality(Holding'), GlobalCaps)
  /\ u \in Users => Fits(Cardinality(HoldingFor(u)'), UserCaps)

Release(r) ==
  /\ holder[r] # Out
  /\ holder' = [holder EXCEPT ![r] = Out]

Next == \E r \in Reqs : Release(r) \/ \E u \in Callers : Admit(r, u)

Spec == Init /\ [][Next]_holder
=============================================================================
