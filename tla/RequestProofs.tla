--------------------------- MODULE RequestProofs ---------------------------
(***************************************************************************)
(* Proofs about ConnSlots and about Request, which serves inside of it,    *)
(* for any finite set of handlers, any users and any caps.  The counters   *)
(* equal the number of handlers that have counted themselves; from that, a *)
(* test that passes bounds the handlers let in.  Serving adds no step of   *)
(* admission, so all of this carries over to whole requests; and a handler *)
(* that serves owns a socket only from the hijack to the end of the        *)
(* tunnel, whichever way it leaves.                                        *)
(***************************************************************************)
EXTENDS Request, FiniteSetTheorems, TLAPS

(* Where only a request with a user record can be. *)
UserLabels == {"userAdd", "userTest", "userUndo", "exitLookup", "exitDec"}

LocalsOK ==
  \A r \in Reqs : /\ pc[r] \in UserLabels => caller[r] \in Users
                  /\ pc[r] \in UserCounted \cup {"userAdd"} /\ caller[r] \in Users
                       => cap[r] \in UserCaps

(* However many of the requests let in one looks at, one of them has read a cap
   that they all fit: each fitted its own when it came, with all those before it.
   Per user this is so from the per-user test on, not only for those holding. *)
FitOne(H, limit) == H # {} => \E r \in H : Within(Cardinality(H), limit[r])
maxGlobals == [r \in Reqs |-> cfg[r].maxGlobal]

PassedFit == \A u \in Users : \A H \in SUBSET PassedFor(u) : FitOne(H, cap)
HoldingFit == \A H \in SUBSET Holding : FitOne(H, maxGlobals)

IInv == TypeOK /\ CountersExact /\ LocalsOK /\ PassedFit /\ HoldingFit
-----------------------------------------------------------------------------
(* Counting a set of handlers: adding and removing one. *)
LEMMA CountAdd ==
  ASSUME NEW H \in SUBSET Reqs, NEW r \in Reqs, r \notin H
  PROVE  Cardinality(H \cup {r}) = Cardinality(H) + 1
  BY FS_AddElement, FS_Subset, ConnAssumption DEF ConnAssumption

(* ... so that a counted handler makes its counter positive. *)
LEMMA CountRemove ==
  ASSUME NEW H \in SUBSET Reqs, NEW r \in H
  PROVE  /\ Cardinality(H) \in Nat \ {0}
         /\ Cardinality(H \ {r}) = Cardinality(H) - 1
<1>1. IsFiniteSet(H) /\ IsFiniteSet(H \ {r})
  BY FS_Subset, ConnAssumption DEF ConnAssumption
<1>2. Cardinality(H) \in Nat /\ Cardinality(H \ {r}) \in Nat
  BY <1>1, FS_CardinalityType
<1>3. Cardinality(H \ {r}) = Cardinality(H) - 1
  BY <1>1, FS_RemoveElement
<1>4. QED
  BY <1>2, <1>3

(* A set of handlers has a size, ... *)
LEMMA CountNat ==
  ASSUME NEW H \in SUBSET Reqs
  PROVE  Cardinality(H) \in Nat
  BY FS_Subset, FS_CardinalityType, ConnAssumption DEF ConnAssumption

(* ... and a smaller set a smaller one. *)
LEMMA CountMonotone ==
  ASSUME NEW G \in SUBSET Reqs, NEW H \in SUBSET G
  PROVE  Cardinality(H) <= Cardinality(G)
  BY FS_Subset, ConnAssumption DEF ConnAssumption

(* A set that the newcomer r makes is at most the whole, which fits r's limit. *)
LEMMA FitWithNew ==
  ASSUME NEW limit \in [Reqs -> Nat], NEW G \in SUBSET Reqs, NEW r \in G,
         Within(Cardinality(G), limit[r]),
         \A H \in SUBSET (G \ {r}) : FitOne(H, limit),
         NEW H \in SUBSET G
  PROVE  FitOne(H, limit)
<1>1. CASE r \in H
  <2>1. Cardinality(H) <= Cardinality(G) /\ Cardinality(H) \in Nat /\ Cardinality(G) \in Nat
    BY CountMonotone, CountNat
  <2>2. Within(Cardinality(H), limit[r])
    BY <2>1 DEF Within
  <2>3. QED
    BY <1>1, <2>2 DEF FitOne
<1>2. CASE r \notin H
  BY <1>2
<1>3. QED
  BY <1>1, <1>2

(* Every configured cap is a natural number. *)
LEMMA CapsNat == UserCaps \in SUBSET Nat /\ MaxGlobalVals \in SUBSET Nat
  BY ConnAssumption DEF ConnAssumption, UserCaps
-----------------------------------------------------------------------------
(* A step of one handler moves only that handler. *)
LEMMA TypeStep == TypeOK /\ CountersExact /\ LocalsOK /\ [Next]_vars => TypeOK'
<1> SUFFICES ASSUME TypeOK, CountersExact, LocalsOK, [Next]_vars PROVE TypeOK'
  OBVIOUS
<1> USE DEF Labels, Goto, config, counters, locals
<1>1. CASE UNCHANGED vars
  BY <1>1 DEF TypeOK, vars
<1>2. ASSUME NEW s \in Settings, ChangeSettings(s) PROVE TypeOK'
  BY <1>2 DEF TypeOK, ChangeSettings
<1>3. ASSUME NEW u \in Users, NEW m \in UserMaxVals, ChangeUser(u, m) PROVE TypeOK'
  BY <1>3 DEF TypeOK, ChangeUser
<1>4. ASSUME NEW r \in Reqs, Begin(r) PROVE TypeOK'
  BY <1>4 DEF TypeOK, Begin
<1>5. ASSUME NEW r \in Reqs, NEW u \in Callers, Authorize(r, u) PROVE TypeOK'
  <2>1. cfg[r].defaultMax \in Nat /\ (u \in Users => maxConns[u] \in Nat)
    BY ConnAssumption DEF TypeOK, Settings, ConnAssumption
  <2>2. cap' \in [Reqs -> Nat]
    BY <1>5, <2>1 DEF TypeOK, Authorize, Callers
  <2>3. pc' \in [Reqs -> Labels]
    BY <1>5 DEF TypeOK, Authorize
  <2>4. caller' \in [Reqs -> Callers]
    BY <1>5 DEF TypeOK, Authorize
  <2>5. QED
    BY <1>5, <2>2, <2>3, <2>4 DEF TypeOK, Authorize
<1>6. ASSUME NEW r \in Reqs, Refuse(r) PROVE TypeOK'
  BY <1>6 DEF TypeOK, Refuse
<1>7. ASSUME NEW r \in Reqs, UserAdd(r) PROVE TypeOK'
  <2>1. caller[r] \in Users
    BY <1>7 DEF UserAdd, LocalsOK, UserLabels
  <2>2. userConns' \in [Users -> Nat]
    BY <1>7, <2>1 DEF TypeOK, UserAdd
  <2>3. QED
    BY <1>7, <2>2 DEF TypeOK, UserAdd
(* A decrement stays a natural: the handler itself is among those counted. *)
<1>8. ASSUME NEW r \in Reqs, pc[r] \in UserCounted, caller[r] \in Users
      PROVE  userConns[caller[r]] - 1 \in Nat
  <2>1. r \in CountedFor(caller[r]) /\ CountedFor(caller[r]) \in SUBSET Reqs
    BY <1>8 DEF CountedFor
  <2>2. Cardinality(CountedFor(caller[r])) \in Nat \ {0}
    BY <2>1, CountRemove
  <2>3. QED
    BY <1>8, <2>2 DEF CountersExact
<1>9. ASSUME NEW r \in Reqs, pc[r] \in GlobalCounted PROVE globalConns - 1 \in Nat
  <2>1. r \in CountedGlobally /\ CountedGlobally \in SUBSET Reqs
    BY <1>9 DEF CountedGlobally
  <2>2. Cardinality(CountedGlobally) \in Nat \ {0}
    BY <2>1, CountRemove
  <2>3. QED
    BY <2>2 DEF CountersExact
<1>10. ASSUME NEW r \in Reqs, UserDeny(r) \/ UserUndo(r) \/ ExitDec(r) PROVE TypeOK'
  <2>1. pc[r] \in UserCounted /\ caller[r] \in Users
    BY <1>10 DEF UserDeny, UserUndo, ExitDec, UserCounted, LocalsOK, UserLabels
  <2>2. userConns[caller[r]] - 1 \in Nat
    BY <1>8, <2>1
  <2>3. userConns' = [userConns EXCEPT ![caller[r]] = @ - 1]
    BY <1>10 DEF UserDeny, UserUndo, ExitDec
  <2>4. userConns' \in [Users -> Nat]
    BY <2>2, <2>3 DEF TypeOK
  <2>5. QED
    BY <1>10, <2>4 DEF TypeOK, UserDeny, UserUndo, ExitDec
<1>11. ASSUME NEW r \in Reqs, GlobalUndo(r) \/ ExitGlobal(r) PROVE TypeOK'
  <2>1. globalConns - 1 \in Nat
    BY <1>9, <1>11 DEF GlobalUndo, ExitGlobal, GlobalCounted
  <2>2. pc' \in [Reqs -> Labels]
    BY <1>11 DEF TypeOK, GlobalUndo, ExitGlobal
  <2>3. QED
    BY <1>11, <2>1, <2>2 DEF TypeOK, GlobalUndo, ExitGlobal
<1>12. ASSUME NEW r \in Reqs,
              \/ UserPass(r) \/ GlobalAdd(r) \/ GlobalPass(r) \/ GlobalDeny(r) \/ ExitLookup(r)
       PROVE  TypeOK'
  BY <1>12 DEF TypeOK, UserPass, GlobalAdd, GlobalPass, GlobalDeny, ExitLookup
<1>13. QED
  BY <1>1, <1>2, <1>3, <1>4, <1>5, <1>6, <1>7, <1>10, <1>11, <1>12 DEF Next, Step

(* A handler at the user's counter has a user, and keeps that user's cap. *)
LEMMA LocalsStep == TypeOK /\ LocalsOK /\ [Next]_vars => LocalsOK'
<1> SUFFICES ASSUME TypeOK, LocalsOK, [Next]_vars PROVE LocalsOK'
  OBVIOUS
<1> USE DEF Goto, config, counters, locals, UserLabels, UserCounted
<1>1. CASE UNCHANGED vars
  BY <1>1 DEF LocalsOK, vars
<1>2. ASSUME NEW s \in Settings, ChangeSettings(s) PROVE LocalsOK'
  BY <1>2 DEF LocalsOK, ChangeSettings
<1>3. ASSUME NEW u \in Users, NEW m \in UserMaxVals, ChangeUser(u, m) PROVE LocalsOK'
  BY <1>3 DEF LocalsOK, ChangeUser
<1>4. ASSUME NEW r \in Reqs, NEW u \in Callers, Authorize(r, u) PROVE LocalsOK'
  <2>1. u \in Users => cap'[r] \in UserCaps
    BY <1>4, ConnAssumption DEF TypeOK, Authorize, UserCaps, Settings, ConnAssumption
  <2>2. pc'[r] = (IF u = NoUser THEN "globalAdd" ELSE "userAdd") /\ caller'[r] = u
    BY <1>4 DEF TypeOK, Authorize
  <2>3. \A q \in Reqs \ {r} : pc'[q] = pc[q] /\ caller'[q] = caller[q] /\ cap'[q] = cap[q]
    BY <1>4 DEF TypeOK, Authorize
  <2>4. QED
    BY <2>1, <2>2, <2>3 DEF LocalsOK, Callers
<1>5. ASSUME NEW r \in Reqs,
             \/ Begin(r) \/ Refuse(r) \/ UserAdd(r) \/ UserDeny(r) \/ UserPass(r)
             \/ GlobalAdd(r) \/ GlobalPass(r) \/ GlobalDeny(r)
             \/ UserUndo(r) \/ ExitLookup(r) \/ ExitDec(r)
      PROVE  LocalsOK'
  BY <1>5 DEF TypeOK, LocalsOK, Begin, Refuse, UserAdd, UserDeny, UserPass,
              GlobalAdd, GlobalPass, GlobalDeny, UserUndo, ExitLookup, ExitDec
<1>6. ASSUME NEW r \in Reqs, GlobalUndo(r) \/ ExitGlobal(r) PROVE LocalsOK'
  BY <1>6 DEF TypeOK, LocalsOK, GlobalUndo, ExitGlobal, Callers
<1>7. QED
  BY <1>1, <1>2, <1>3, <1>4, <1>5, <1>6 DEF Next, Step
-----------------------------------------------------------------------------
(* How each step changes the sets that the counters count. *)
LEMMA CountersStep ==
  TypeOK /\ CountersExact /\ LocalsOK /\ [Next]_vars => CountersExact'
<1> SUFFICES ASSUME TypeOK, CountersExact, LocalsOK, [Next]_vars PROVE CountersExact'
  OBVIOUS
<1> USE DEF Goto, config, counters, locals, UserCounted, GlobalCounted
<1>1. CASE UNCHANGED vars
  BY <1>1 DEF CountersExact, CountedGlobally, CountedFor, vars
<1>2. ASSUME NEW s \in Settings, ChangeSettings(s) PROVE CountersExact'
  BY <1>2 DEF CountersExact, CountedGlobally, CountedFor, ChangeSettings
<1>3. ASSUME NEW u \in Users, NEW m \in UserMaxVals, ChangeUser(u, m) PROVE CountersExact'
  BY <1>3 DEF CountersExact, CountedGlobally, CountedFor, ChangeUser
(* Steps that count nobody. *)
<1>4. ASSUME NEW r \in Reqs,
             \/ Begin(r) \/ (\E u \in Callers : Authorize(r, u)) \/ Refuse(r)
             \/ UserPass(r) \/ GlobalPass(r) \/ GlobalDeny(r) \/ ExitLookup(r)
      PROVE  CountersExact'
  <2>1. CountedGlobally' = CountedGlobally
    BY <1>4 DEF TypeOK, CountedGlobally, Begin, Authorize, Refuse, UserPass,
                GlobalPass, GlobalDeny, ExitLookup
  <2>2. \A u \in Users : CountedFor(u)' = CountedFor(u)
    <3>1. CASE \E u \in Callers : Authorize(r, u)
      <4>1. PICK w \in Callers : Authorize(r, w)
        BY <3>1
      <4>2. \A q \in Reqs \ {r} : pc'[q] = pc[q] /\ caller'[q] = caller[q]
        BY <4>1 DEF TypeOK, Authorize
      <4>3. w = NoUser <=> pc'[r] = "globalAdd"
        BY <4>1 DEF TypeOK, Authorize
      <4>4. caller'[r] = w /\ pc'[r] \in {"globalAdd", "userAdd"} /\ pc[r] = "authorize"
        BY <4>1 DEF TypeOK, Authorize
      <4>5. QED
        BY <4>2, <4>3, <4>4, ConnAssumption DEF CountedFor, ConnAssumption
    <3>2. CASE Begin(r) \/ Refuse(r) \/ UserPass(r) \/ GlobalPass(r) \/ GlobalDeny(r) \/ ExitLookup(r)
      BY <3>2 DEF TypeOK, CountedFor, Begin, Refuse, UserPass, GlobalPass, GlobalDeny, ExitLookup
    <3>3. QED
      BY <1>4, <3>1, <3>2
  <2>3. UNCHANGED <<userConns, globalConns>>
    BY <1>4 DEF Begin, Authorize, Refuse, UserPass, GlobalPass, GlobalDeny, ExitLookup
  <2>4. QED
    BY <2>1, <2>2, <2>3 DEF CountersExact
<1>5. ASSUME NEW r \in Reqs, UserAdd(r) PROVE CountersExact'
  <2>1. caller[r] \in Users
    BY <1>5 DEF UserAdd, LocalsOK, UserLabels
  <2>2. CountedGlobally' = CountedGlobally
    BY <1>5 DEF TypeOK, CountedGlobally, UserAdd
  <2>3. \A u \in Users \ {caller[r]} : CountedFor(u)' = CountedFor(u)
    BY <1>5 DEF TypeOK, CountedFor, UserAdd
  <2>4. CountedFor(caller[r])' = CountedFor(caller[r]) \cup {r}
    BY <1>5 DEF TypeOK, CountedFor, UserAdd
  <2>5. r \notin CountedFor(caller[r]) /\ CountedFor(caller[r]) \in SUBSET Reqs
    BY <1>5 DEF CountedFor, UserAdd
  <2>6. Cardinality(CountedFor(caller[r])') = userConns[caller[r]] + 1
    BY <2>1, <2>4, <2>5, CountAdd DEF CountersExact
  <2>7. /\ userConns'[caller[r]] = userConns[caller[r]] + 1
        /\ \A u \in Users \ {caller[r]} : userConns'[u] = userConns[u]
        /\ globalConns' = globalConns
        /\ caller' = caller
    BY <1>5, <2>1 DEF TypeOK, UserAdd
  <2>8. QED
    BY <2>1, <2>2, <2>3, <2>6, <2>7 DEF CountersExact
<1>6. ASSUME NEW r \in Reqs, UserDeny(r) \/ UserUndo(r) \/ ExitDec(r) PROVE CountersExact'
  <2>1. caller[r] \in Users /\ pc[r] \in {"userTest", "userUndo", "exitDec"}
    BY <1>6 DEF UserDeny, UserUndo, ExitDec, LocalsOK, UserLabels
  <2>2. /\ pc' = [pc EXCEPT ![r] = "idle"]
        /\ userConns' = [userConns EXCEPT ![caller[r]] = @ - 1]
        /\ UNCHANGED <<globalConns, caller>>
    BY <1>6 DEF UserDeny, UserUndo, ExitDec
  <2>3. CountedGlobally' = CountedGlobally
    BY <2>1, <2>2 DEF TypeOK, CountedGlobally
  <2>4. \A u \in Users \ {caller[r]} : CountedFor(u)' = CountedFor(u)
    BY <2>1, <2>2 DEF TypeOK, CountedFor
  <2>5. CountedFor(caller[r])' = CountedFor(caller[r]) \ {r}
    BY <2>1, <2>2 DEF TypeOK, CountedFor
  <2>6. r \in CountedFor(caller[r]) /\ CountedFor(caller[r]) \in SUBSET Reqs
    BY <2>1 DEF CountedFor
  <2>7. Cardinality(CountedFor(caller[r])') = userConns[caller[r]] - 1
    BY <2>1, <2>5, <2>6, CountRemove DEF CountersExact
  <2>8. /\ userConns'[caller[r]] = userConns[caller[r]] - 1
        /\ \A u \in Users \ {caller[r]} : userConns'[u] = userConns[u]
    BY <2>1, <2>2 DEF TypeOK
  <2>9. QED
    BY <2>1, <2>2, <2>3, <2>4, <2>7, <2>8 DEF CountersExact
<1>7. ASSUME NEW r \in Reqs, GlobalAdd(r) PROVE CountersExact'
  <2>1. CountedGlobally' = CountedGlobally \cup {r}
    BY <1>7 DEF TypeOK, CountedGlobally, GlobalAdd
  <2>2. r \notin CountedGlobally /\ CountedGlobally \in SUBSET Reqs
    BY <1>7 DEF CountedGlobally, GlobalAdd
  <2>3. Cardinality(CountedGlobally') = globalConns + 1
    BY <2>1, <2>2, CountAdd DEF CountersExact
  <2>4. \A u \in Users : CountedFor(u)' = CountedFor(u)
    BY <1>7 DEF TypeOK, CountedFor, GlobalAdd
  <2>5. QED
    BY <1>7, <2>3, <2>4 DEF CountersExact, GlobalAdd
<1>8. ASSUME NEW r \in Reqs, GlobalUndo(r) \/ ExitGlobal(r) PROVE CountersExact'
  <2>1. pc[r] \in {"globalUndo", "held"}
    BY <1>8 DEF GlobalUndo, ExitGlobal
  <2>2. /\ globalConns' = globalConns - 1
        /\ UNCHANGED <<userConns, caller>>
        /\ \E l \in {"idle", "userUndo", "exitLookup"} :
             /\ pc' = [pc EXCEPT ![r] = l]
             /\ l = "idle" => caller[r] = NoUser
    BY <1>8 DEF GlobalUndo, ExitGlobal
  <2>3. CountedGlobally' = CountedGlobally \ {r}
    BY <2>1, <2>2 DEF TypeOK, CountedGlobally
  <2>4. r \in CountedGlobally /\ CountedGlobally \in SUBSET Reqs
    BY <2>1 DEF CountedGlobally
  <2>5. Cardinality(CountedGlobally') = globalConns - 1
    BY <2>3, <2>4, CountRemove DEF CountersExact
  <2>6. \A u \in Users : CountedFor(u)' = CountedFor(u)
    BY <2>1, <2>2, ConnAssumption DEF TypeOK, CountedFor, ConnAssumption
  <2>7. QED
    BY <2>2, <2>5, <2>6 DEF CountersExact
<1>9. QED
  BY <1>1, <1>2, <1>3, <1>4, <1>5, <1>6, <1>7, <1>8 DEF Next, Step
-----------------------------------------------------------------------------
(* A handler is added to the passed ones by UserPass and to the holding ones
   by GlobalPass; every other step keeps these sets or shrinks them. *)
LEMMA PassedStep ==
  TypeOK /\ CountersExact /\ LocalsOK /\ PassedFit /\ [Next]_vars => PassedFit'
<1> DEFINE Fit(u) == \A H \in SUBSET PassedFor(u) : FitOne(H, cap)
<1> SUFFICES ASSUME TypeOK, CountersExact, LocalsOK, PassedFit, [Next]_vars,
                    NEW u \in Users
             PROVE  Fit(u)'
  BY DEF PassedFit
<1> USE DEF Goto, config, counters, locals, UserCounted, UserPassed
<1>0. Fit(u)
  BY DEF PassedFit
(* A request that is past the test keeps the cap it was tested against. *)
<1>1. ASSUME PassedFor(u)' \in SUBSET PassedFor(u), \A q \in PassedFor(u)' : cap'[q] = cap[q]
      PROVE  Fit(u)'
  BY <1>0, <1>1 DEF FitOne
<1>2. ASSUME NEW r \in Reqs, UserPass(r) PROVE Fit(u)'
  <2>0. cap' = cap
    BY <1>2 DEF UserPass
  <2>1. CASE caller[r] # u
    BY <1>1, <1>2, <2>0, <2>1 DEF TypeOK, PassedFor, UserPass
  <2>2. CASE caller[r] = u
    <3> DEFINE G == PassedFor(u) \cup {r}
    <3>1. /\ PassedFor(u)' = G /\ r \in G /\ G \in SUBSET Reqs
          /\ G \in SUBSET CountedFor(u) /\ CountedFor(u) \in SUBSET Reqs
          /\ G \ {r} \in SUBSET PassedFor(u)
      BY <1>2, <2>2 DEF TypeOK, PassedFor, CountedFor, UserPass
    <3>2. Cardinality(G) <= userConns[u] /\ Cardinality(G) \in Nat
      BY <3>1, CountMonotone, CountNat DEF CountersExact
    <3>3. cap[r] = 0 \/ userConns[u] <= cap[r]
      BY <1>2, <2>2 DEF TypeOK, UserPass, OverUser
    <3>4. Within(Cardinality(G), cap[r])
      BY <3>2, <3>3 DEF Within, TypeOK
    <3>5. \A H \in SUBSET (G \ {r}) : FitOne(H, cap)
      BY <1>0, <3>1
    <3>6. cap \in [Reqs -> Nat]
      BY DEF TypeOK
    <3> HIDE DEF G
    <3>7. \A H \in SUBSET G : FitOne(H, cap)
      BY <3>1, <3>4, <3>5, <3>6, FitWithNew
    <3>8. QED
      BY <2>0, <3>1, <3>7 DEF FitOne
  <2>3. QED
    BY <2>1, <2>2
<1>3. CASE UNCHANGED vars
  BY <1>1, <1>3 DEF PassedFor, vars
<1>4. ASSUME NEW s \in Settings, ChangeSettings(s) PROVE Fit(u)'
  BY <1>1, <1>4 DEF PassedFor, ChangeSettings
<1>5. ASSUME NEW w \in Users, NEW m \in UserMaxVals, ChangeUser(w, m) PROVE Fit(u)'
  BY <1>1, <1>5 DEF PassedFor, ChangeUser
<1>6. ASSUME NEW r \in Reqs, NEW w \in Callers, Authorize(r, w) PROVE Fit(u)'
  <2>1. \A q \in Reqs \ {r} : pc'[q] = pc[q] /\ caller'[q] = caller[q] /\ cap'[q] = cap[q]
    BY <1>6 DEF TypeOK, Authorize
  <2>2. w = NoUser <=> pc'[r] = "globalAdd"
    BY <1>6 DEF TypeOK, Authorize
  <2>3. caller'[r] = w /\ pc'[r] \in {"globalAdd", "userAdd"} /\ pc[r] = "authorize"
    BY <1>6 DEF TypeOK, Authorize
  <2>4. r \notin PassedFor(u)'
    BY <2>2, <2>3, ConnAssumption DEF PassedFor, ConnAssumption
  <2>5. PassedFor(u)' \in SUBSET PassedFor(u) /\ \A q \in PassedFor(u)' : cap'[q] = cap[q]
    BY <2>1, <2>4 DEF PassedFor
  <2>6. QED
    BY <1>1, <2>5
<1>7. ASSUME NEW r \in Reqs,
             \/ Begin(r) \/ Refuse(r) \/ UserAdd(r) \/ UserDeny(r)
             \/ GlobalAdd(r) \/ GlobalPass(r) \/ GlobalDeny(r) \/ GlobalUndo(r)
             \/ UserUndo(r) \/ ExitGlobal(r) \/ ExitLookup(r) \/ ExitDec(r)
      PROVE  Fit(u)'
  <2>1. PassedFor(u)' \in SUBSET PassedFor(u)
    BY <1>7 DEF TypeOK, PassedFor, Begin, Refuse, UserAdd, UserDeny, GlobalAdd,
                GlobalPass, GlobalDeny, GlobalUndo, UserUndo, ExitGlobal, ExitLookup, ExitDec
  <2>2. cap' = cap
    BY <1>7 DEF Begin, Refuse, UserAdd, UserDeny, GlobalAdd,
                GlobalPass, GlobalDeny, GlobalUndo, UserUndo, ExitGlobal, ExitLookup, ExitDec
  <2>3. QED
    BY <1>1, <2>1, <2>2
<1>8. QED
  BY <1>2, <1>3, <1>4, <1>5, <1>6, <1>7 DEF Next, Step

(* The step that takes a slot, and what it finds. *)
LEMMA AdmissionFits ==
  ASSUME TypeOK, CountersExact, NEW r \in Reqs, GlobalPass(r)
  PROVE  /\ Holding' = Holding \cup {r}
         /\ Cardinality(Holding') \in Nat
         /\ cfg[r].maxGlobal \in MaxGlobalVals
         /\ Within(Cardinality(Holding'), cfg[r].maxGlobal)
<1> USE DEF Goto
<1>1. Holding' = Holding \cup {r}
  BY DEF TypeOK, GlobalPass, Holding
<1>2. Holding' \in SUBSET CountedGlobally /\ CountedGlobally \in SUBSET Reqs
  BY <1>1 DEF GlobalPass, Holding, CountedGlobally, GlobalCounted
<1>3. Cardinality(Holding') <= globalConns /\ Cardinality(Holding') \in Nat
  BY <1>2, CountMonotone, CountNat DEF CountersExact
<1>4. cfg[r].maxGlobal \in MaxGlobalVals /\ cfg[r].maxGlobal \in Nat
  BY ConnAssumption DEF TypeOK, Settings, ConnAssumption
<1>5. cfg[r].maxGlobal = 0 \/ globalConns <= cfg[r].maxGlobal
  BY <1>4 DEF TypeOK, GlobalPass, OverGlobal
<1>6. QED
  BY <1>1, <1>3, <1>4, <1>5 DEF TypeOK, Within

(* Only GlobalPass takes a slot and only ExitGlobal gives one back. *)
LEMMA HoldingChanges ==
  ASSUME TypeOK, [Next]_vars
  PROVE  \/ \E r \in Reqs : GlobalPass(r) \/ ExitGlobal(r)
         \/ \A q \in Reqs : /\ pc'[q] = "held" <=> pc[q] = "held"
                            /\ pc[q] = "held" => caller'[q] = caller[q] /\ cfg'[q] = cfg[q]
<1> DEFINE Same ==
      \A q \in Reqs : /\ pc'[q] = "held" <=> pc[q] = "held"
                      /\ pc[q] = "held" => caller'[q] = caller[q] /\ cfg'[q] = cfg[q]
<1> USE DEF Goto, config, counters, locals
<1>1. CASE UNCHANGED vars
  BY <1>1 DEF vars
<1>2. CASE \/ \E s \in Settings : ChangeSettings(s)
           \/ \E u \in Users, m \in UserMaxVals : ChangeUser(u, m)
  BY <1>2 DEF ChangeSettings, ChangeUser
<1>3. ASSUME NEW r \in Reqs, NEW u \in Callers, Authorize(r, u) PROVE Same
  BY <1>3 DEF TypeOK, Authorize
<1>4. ASSUME NEW r \in Reqs,
             \/ Begin(r) \/ Refuse(r) \/ UserAdd(r) \/ UserDeny(r) \/ UserPass(r)
             \/ GlobalAdd(r) \/ GlobalDeny(r) \/ GlobalUndo(r)
             \/ UserUndo(r) \/ ExitLookup(r) \/ ExitDec(r)
      PROVE  Same
  BY <1>4 DEF TypeOK, Begin, Refuse, UserAdd, UserDeny, UserPass, GlobalAdd,
              GlobalDeny, GlobalUndo, UserUndo, ExitLookup, ExitDec
<1>5. QED
  BY <1>1, <1>2, <1>3, <1>4 DEF Next, Step

(* Taking a slot fits the caller's own global cap; nothing else takes one. *)
LEMMA HoldingStep ==
  TypeOK /\ CountersExact /\ HoldingFit /\ [Next]_vars => HoldingFit'
<1> SUFFICES ASSUME TypeOK, CountersExact, HoldingFit, [Next]_vars PROVE HoldingFit'
  OBVIOUS
<1>1. ASSUME NEW r \in Reqs, GlobalPass(r) PROVE HoldingFit'
  <2> DEFINE G == Holding \cup {r}
  <2>1. /\ Holding' = G /\ r \in G /\ G \in SUBSET Reqs /\ G \ {r} \in SUBSET Holding
        /\ Within(Cardinality(G), maxGlobals[r])
    BY <1>1, AdmissionFits DEF Holding, maxGlobals
  <2>2. maxGlobals \in [Reqs -> Nat] /\ maxGlobals' = maxGlobals
    BY <1>1, ConnAssumption DEF maxGlobals, TypeOK, Settings, ConnAssumption, GlobalPass, locals
  <2>3. \A H \in SUBSET (G \ {r}) : FitOne(H, maxGlobals)
    BY <2>1 DEF HoldingFit
  <2> HIDE DEF G
  <2>4. \A H \in SUBSET G : FitOne(H, maxGlobals)
    BY <2>1, <2>2, <2>3, FitWithNew
  <2>5. QED
    BY <2>1, <2>2, <2>4 DEF HoldingFit, FitOne
<1>2. ASSUME Holding' \in SUBSET Holding, \A q \in Holding' : cfg'[q] = cfg[q]
      PROVE  HoldingFit'
  BY <1>2 DEF HoldingFit, FitOne, maxGlobals, Holding
<1>3. ASSUME NEW r \in Reqs, ExitGlobal(r) PROVE Holding' \in SUBSET Holding /\ cfg' = cfg
  BY <1>3 DEF TypeOK, ExitGlobal, Goto, Holding, locals
<1>4. QED
  BY <1>1, <1>2, <1>3, HoldingChanges DEF Holding

(* Nobody is counted at first. *)
LEMMA InitOK == Init => IInv
<1> SUFFICES ASSUME Init PROVE IInv
  OBVIOUS
<1>1. TypeOK
  BY DEF Init, TypeOK, Labels, Callers
<1>2. CountersExact
  <2>1. CountedGlobally = {} /\ \A u \in Users : CountedFor(u) = {}
    BY DEF Init, CountedGlobally, CountedFor, GlobalCounted, UserCounted
  <2>2. QED
    BY <2>1, FS_EmptySet DEF Init, CountersExact
<1>3. LocalsOK
  BY ConnAssumption DEF Init, LocalsOK, UserLabels, UserCounted, ConnAssumption
<1>5. Holding = {} /\ \A u \in Users : PassedFor(u) = {}
  BY DEF Init, Holding, PassedFor, UserPassed, UserCounted
<1>6. PassedFit /\ HoldingFit
  BY <1>5 DEF PassedFit, HoldingFit, FitOne
<1>7. QED
  BY <1>1, <1>2, <1>3, <1>6 DEF IInv

(* The inductive invariant of tryEnterConn and exitConn. *)
THEOREM Inductive == Spec => []IInv
<1>1. IInv /\ [Next]_vars => IInv'
  BY TypeStep, LocalsStep, CountersStep, PassedStep, HoldingStep DEF IInv
<1>2. QED
  BY InitOK, <1>1, PTL DEF Spec

(* No counter ever leaves its type; in particular none goes below zero,
   whatever the interleaving of rollbacks and exits. *)
THEOREM TypeCorrect == Spec => []TypeOK
<1>1. IInv => TypeOK
  BY DEF IInv
<1>2. QED
  BY Inductive, <1>1, PTL

(* Both counters of proxy.go are exact at every step: what tryEnterConn
   reserves is given back exactly once, on refusal or by exitConn. *)
THEOREM CountersAreExact == Spec => []CountersExact
<1>1. IInv => CountersExact
  BY DEF IInv
<1>2. QED
  BY Inductive, <1>1, PTL

(* The caps hold for any number of handlers, users and limits, with the global
   counter incremented and tested outside connMu: the connections held fit the cap
   that one of their holders read.  Inductive is the same of every set of them. *)
THEOREM CapsAreRespected == Spec => []CapsRespected
<1>1. IInv => CapsRespected
  <2> SUFFICES ASSUME IInv PROVE CapsRespected
    OBVIOUS
  <2>1. ASSUME NEW u \in Users
        PROVE  HoldingFor(u) # {} =>
                 \E r \in HoldingFor(u) : Within(Cardinality(HoldingFor(u)), cap[r])
    <3>1. HoldingFor(u) \in SUBSET PassedFor(u)
      BY DEF HoldingFor, Holding, PassedFor, UserPassed, UserCounted
    <3>2. QED
      BY <3>1 DEF IInv, PassedFit, FitOne
  <2>2. Holding # {} => \E r \in Holding : Within(Cardinality(Holding), cfg[r].maxGlobal)
    BY DEF IInv, HoldingFit, FitOne, maxGlobals, Holding
  <2>3. QED
    BY <2>1, <2>2 DEF CapsRespected
<1>2. QED
  BY Inductive, <1>1, PTL

(* Whoever is let in fits the global cap of the configuration it read. *)
THEOREM AdmittedWithinOwnCap == Spec => AdmissionWithinOwnCap
<1>1. ASSUME IInv, [Next]_vars, NEW r \in Reqs, Admitted(r), cfg[r].maxGlobal > 0
      PROVE  Cardinality(Holding') <= cfg[r].maxGlobal
  <2>1. PICK q \in Reqs : GlobalPass(q) \/ ExitGlobal(q)
    BY <1>1, HoldingChanges DEF IInv, Admitted
  <2>2. GlobalPass(q) /\ q = r
    BY <1>1, <2>1 DEF IInv, TypeOK, Admitted, GlobalPass, ExitGlobal, Goto
  <2>3. cfg[r].maxGlobal \in Nat
    BY ConnAssumption, <1>1 DEF IInv, TypeOK, Settings, ConnAssumption
  <2>4. QED
    BY <1>1, <2>2, <2>3, AdmissionFits DEF IInv, Within
<1>2. IInv /\ [Next]_vars =>
        [\A r \in Reqs : Admitted(r) /\ cfg[r].maxGlobal > 0
           => Cardinality(Holding') <= cfg[r].maxGlobal]_vars
  BY <1>1
<1>3. QED
  BY Inductive, <1>2, PTL DEF Spec, AdmissionWithinOwnCap
-----------------------------------------------------------------------------
(* The instance of ConnCap counts as this module does. *)
LEMMA SameCount == ASSUME NEW H PROVE Cap!Cardinality(H) = Cardinality(H)
  BY Zenon DEF Cap!Cardinality, Cardinality

(* The atomic steps implement the abstract admission of ConnCap: taking a slot
   and giving it back each look like one indivisible step. *)
THEOREM Implements == Spec => CapSpec
<1> DEFINE holder == [r \in Reqs |-> IF pc[r] = "held" THEN caller[r] ELSE NoReq]
<1>1. Init => Cap!Init
  BY DEF Init, Cap!Init
<1>2. ASSUME IInv, IInv', [Next]_vars PROVE [Cap!Next]_holder
  <2>0. NoReq \notin Callers /\ (\A r \in Reqs : caller[r] \in Callers)
    BY <1>2, ConnAssumption DEF IInv, TypeOK, Callers, ConnAssumption
  <2>1. CASE holder' = holder
    BY <2>1
  <2>2. ASSUME NEW r \in Reqs, ExitGlobal(r) PROVE Cap!Release(r)
    <3>1. holder[r] # NoReq
      BY <2>0, <2>2 DEF ExitGlobal
    <3>2. holder' = [holder EXCEPT ![r] = NoReq]
      BY <1>2, <2>2 DEF IInv, TypeOK, ExitGlobal, Goto, locals
    <3>3. QED
      BY <3>1, <3>2 DEF Cap!Release
  <2>3. ASSUME NEW r \in Reqs, NEW u \in Callers, u = caller[r], GlobalPass(r)
        PROVE  Cap!Admit(r, u)
    <3>1. holder[r] = NoReq /\ caller' = caller
      BY <2>3 DEF GlobalPass, locals
    <3>2. holder' = [holder EXCEPT ![r] = u]
      BY <1>2, <2>3 DEF IInv, TypeOK, GlobalPass, Goto, locals
    <3>3. Cap!Holding' = Holding'
      BY <2>0, <3>1 DEF Cap!Holding, Holding
    <3>4. Cap!Fits(Cardinality(Holding'), MaxGlobalVals)
      BY <1>2, <2>3, AdmissionFits DEF IInv, Within, Cap!Fits
    <3>5. ASSUME u \in Users PROVE Cap!Fits(Cardinality(Cap!HoldingFor(u)'), UserCaps)
      <4> DEFINE H == Cap!HoldingFor(u)'
      <4>1. H \in SUBSET PassedFor(u)' /\ H # {}
        BY <2>0, <2>3, <3>1, <3>2 DEF Cap!HoldingFor, PassedFor, UserPassed, UserCounted
      <4>2. PICK q \in H : Within(Cardinality(H), cap'[q])
        BY <1>2, <3>5, <4>1 DEF IInv, PassedFit, FitOne
      <4>3. cap'[q] \in UserCaps
        BY <1>2, <3>5, <4>1 DEF IInv, LocalsOK, PassedFor, UserPassed, UserCounted
      <4>4. QED
        BY <4>2, <4>3 DEF Within, Cap!Fits
    <3>6. Cap!Fits(Cap!Cardinality(Cap!Holding'), MaxGlobalVals)
      BY <3>3, <3>4, SameCount
    <3>7. u \in Users => Cap!Fits(Cap!Cardinality(Cap!HoldingFor(u)'), UserCaps)
      BY <3>5, SameCount
    <3>8. QED
      BY <3>1, <3>2, <3>6, <3>7 DEF Cap!Admit
  <2>4. CASE \E r \in Reqs : GlobalPass(r) \/ ExitGlobal(r)
    BY <2>0, <2>2, <2>3, <2>4 DEF Cap!Next, Cap!Callers, Callers
  <2>5. CASE \A q \in Reqs : /\ pc'[q] = "held" <=> pc[q] = "held"
                             /\ pc[q] = "held" => caller'[q] = caller[q] /\ cfg'[q] = cfg[q]
    BY <2>1, <2>5
  <2>6. QED
    BY <1>2, <2>4, <2>5, HoldingChanges DEF IInv
<1>3. QED
  BY Inductive, <1>1, <1>2, PTL DEF Spec, CapSpec, Cap!Spec
-----------------------------------------------------------------------------
(* Where the handler owns no socket: before the hijack, after the tunnel, and
   for a plain request always (its connections belong to the server and to the
   transport). *)
Socketless == {"off", "hijack", "account", "end"} \cup S!ForwardLabels

JobOK(j) ==
  /\ j \in S!Jobs
  /\ \A d \in S!Dirs : j.side[d] # "done" => j.at = "copy"
  /\ j.at \in Socketless => j.open = {}

(* What the handler of r may turn its job into while it serves. *)
ServesOn(r) == \E j : /\ job' = [job EXCEPT ![r] = j]
                      /\ JobOK(j)
                      /\ j.at # "off"

RInv ==
  /\ job \in [Reqs -> S!Jobs]
  /\ \A r \in Reqs : JobOK(job[r])
  /\ \A r \in Reqs : job[r].at # "off" <=> pc[r] = "held"

(* How the lemmas below conclude. *)
LEMMA ServesOnWith ==
  ASSUME NEW r, NEW j, job' = [job EXCEPT ![r] = j], JobOK(j), j.at # "off"
  PROVE  ServesOn(r)
  BY DEF ServesOn

(* handleConnect up to the tunnel: on each early return the sockets are closed. *)
LEMMA ConnectSteps ==
  ASSUME job \in [Reqs -> S!Jobs], NEW r \in Reqs, JobOK(job[r]),
         \/ S!HijackFail(r) \/ S!Hijack(r) \/ S!DialFail(r) \/ S!Dial(r)
         \/ S!Reply(r) \/ S!Leftover(r) \/ S!LeftoverFail(r)
  PROVE  ServesOn(r)
<1> DEFINE j == job[r]
<1> USE DEF S!At, Socketless, S!ForwardLabels
<1>1. CASE S!HijackFail(r)
  <2>1. job' = [job EXCEPT ![r] = [j EXCEPT !.at = "end"]] /\ j.at = "hijack"
    BY <1>1 DEF S!HijackFail
  <2>2. JobOK([j EXCEPT !.at = "end"]) /\ [j EXCEPT !.at = "end"].at # "off"
    BY <2>1 DEF JobOK, S!Jobs
  <2>3. QED
    BY <2>1, <2>2, ServesOnWith
<1>2. CASE S!Hijack(r)
  <2>1. job' = [job EXCEPT ![r] = [j EXCEPT !.at = "dial", !.open = {"client"}]] /\ j.at = "hijack"
    BY <1>2 DEF S!Hijack
  <2>2. JobOK([j EXCEPT !.at = "dial", !.open = {"client"}]) /\ [j EXCEPT !.at = "dial", !.open = {"client"}].at # "off"
    BY <2>1 DEF JobOK, S!Jobs, S!ConnectLabels, S!Ends
  <2>3. QED
    BY <2>1, <2>2, ServesOnWith
<1>3. CASE S!DialFail(r) \/ S!LeftoverFail(r)
  <2>1. job' = [job EXCEPT ![r] = [j EXCEPT !.at = "end", !.open = {}]] /\ j.at \in {"dial", "leftover"}
    BY <1>3 DEF S!DialFail, S!LeftoverFail
  <2>2. JobOK([j EXCEPT !.at = "end", !.open = {}]) /\ [j EXCEPT !.at = "end", !.open = {}].at # "off"
    BY <2>1 DEF JobOK, S!Jobs
  <2>3. QED
    BY <2>1, <2>2, ServesOnWith
<1>4. CASE S!Dial(r)
  <2>1. job' = [job EXCEPT ![r] = [j EXCEPT !.at = "reply", !.open = S!Ends]] /\ j.at = "dial"
    BY <1>4 DEF S!Dial
  <2>2. JobOK([j EXCEPT !.at = "reply", !.open = S!Ends]) /\ [j EXCEPT !.at = "reply", !.open = S!Ends].at # "off"
    BY <2>1 DEF JobOK, S!Jobs, S!ConnectLabels
  <2>3. QED
    BY <2>1, <2>2, ServesOnWith
<1>5. CASE S!Reply(r) \/ S!Leftover(r)
  <2>1. j.at \in {"reply", "leftover"}
    BY <1>5 DEF S!Reply, S!Leftover
  <2>2. CASE job' = [job EXCEPT ![r] = S!RunTunnel(j)]
    <3>1. JobOK(S!RunTunnel(j))
      BY <2>1 DEF JobOK, S!Jobs, S!RunTunnel, S!ConnectLabels
    <3>2. S!RunTunnel(j).at = "copy"
      BY DEF S!RunTunnel, S!Jobs
    <3>3. QED
      BY <2>2, <3>1, <3>2, ServesOnWith
  <2>3. CASE job' = [job EXCEPT ![r] = [j EXCEPT !.at = "leftover"]]
    <3>1. JobOK([j EXCEPT !.at = "leftover"]) /\ [j EXCEPT !.at = "leftover"].at # "off"
      BY <2>1 DEF JobOK, S!Jobs, S!ConnectLabels
    <3>2. QED
      BY <2>3, <3>1, ServesOnWith
  <2>4. QED
    BY <1>5, <2>2, <2>3 DEF S!Reply, S!Leftover
<1>6. QED
  BY <1>1, <1>2, <1>3, <1>4, <1>5

(* The two goroutines of the tunnel, and the handler that waits for them. *)
LEMMA TunnelSteps ==
  ASSUME job \in [Reqs -> S!Jobs], NEW r \in Reqs, JobOK(job[r]),
         (\E d \in S!Dirs : S!Side(r, d)) \/ S!Join(r) \/ S!Account(r)
  PROVE  ServesOn(r)
<1> DEFINE j == job[r]
<1> USE DEF S!At, Socketless, S!ForwardLabels
<1>1. ASSUME NEW d \in S!Dirs, S!Side(r, d) PROVE ServesOn(r)
  <2>1. j.side[d] # "done" /\ j.at = "copy"
    BY <1>1 DEF JobOK, S!Side, S!Read, S!ReadFail, S!Write, S!WriteFail, S!CloseDst
  <2>2. \E l \in {"read", "write", "close", "done"}, o \in SUBSET S!Ends :
          job' = [job EXCEPT ![r] = [j EXCEPT !.side[d] = l, !.open = o]]
    <3>1. j.open \in SUBSET S!Ends /\ j = [j EXCEPT !.open = j.open]
      BY DEF S!Jobs
    <3>2. CASE S!CloseDst(r, d)
      BY <3>1, <3>2 DEF S!CloseDst
    <3>3. ASSUME NEW l \in {"read", "write", "close", "done"},
                 job' = [job EXCEPT ![r] = [j EXCEPT !.side[d] = l]]
          PROVE  job' = [job EXCEPT ![r] = [j EXCEPT !.side[d] = l, !.open = j.open]]
      BY <3>3 DEF S!Jobs
    <3>4. CASE S!Read(r, d) \/ S!ReadFail(r, d) \/ S!Write(r, d) \/ S!WriteFail(r, d)
      <4>1. \E l \in {"read", "write", "close", "done"} :
              job' = [job EXCEPT ![r] = [j EXCEPT !.side[d] = l]]
        BY <3>4 DEF S!Read, S!ReadFail, S!Write, S!WriteFail
      <4>2. QED
        BY <3>1, <3>3, <4>1
    <3>5. QED
      BY <1>1, <3>2, <3>4 DEF S!Side
  <2>3. PICK l \in {"read", "write", "close", "done"}, o \in SUBSET S!Ends :
          job' = [job EXCEPT ![r] = [j EXCEPT !.side[d] = l, !.open = o]]
    BY <2>2
  <2>4. JobOK([j EXCEPT !.side[d] = l, !.open = o]) /\ [j EXCEPT !.side[d] = l, !.open = o].at # "off"
    BY <2>1 DEF JobOK, S!Jobs
  <2>5. QED
    BY <2>1, <2>3, <2>4, ServesOnWith
<1>2. CASE S!Join(r)
  <2>1. job' = [job EXCEPT ![r] = [j EXCEPT !.at = "account", !.open = {}]]
    BY <1>2 DEF S!Join
  <2>2. JobOK([j EXCEPT !.at = "account", !.open = {}]) /\ [j EXCEPT !.at = "account", !.open = {}].at # "off"
    BY <1>2 DEF JobOK, S!Join, S!Jobs
  <2>3. QED
    BY <2>1, <2>2, ServesOnWith
<1>3. CASE S!Account(r)
  <2>1. job' = [job EXCEPT ![r] = [j EXCEPT !.at = "end"]] /\ j.at = "account"
    BY <1>3 DEF S!Account
  <2>2. JobOK([j EXCEPT !.at = "end"]) /\ [j EXCEPT !.at = "end"].at # "off"
    BY <2>1 DEF JobOK, S!Jobs
  <2>3. QED
    BY <2>1, <2>2, ServesOnWith
<1>4. QED
  BY <1>1, <1>2, <1>3

(* handleForward, and what the other ends do. *)
LEMMA ForwardSteps ==
  ASSUME job \in [Reqs -> S!Jobs], NEW r \in Reqs, JobOK(job[r]),
         \/ S!RoundTrip(r) \/ S!RoundTripFail(r) \/ S!BodyRead(r) \/ S!BodyEnd(r)
         \/ S!BodyWrite(r) \/ S!BodyWriteFail(r) \/ S!Timeout(r) \/ S!Peer(r)
  PROVE  ServesOn(r)
<1> DEFINE j == job[r]
<1> USE DEF S!At, Socketless, S!ForwardLabels
<1>1. ASSUME j.at \in S!ForwardLabels,
             NEW l \in {"account", "end"} \cup S!ForwardLabels,
             job' = [job EXCEPT ![r] = [j EXCEPT !.at = l]]
      PROVE  ServesOn(r)
  <2>1. JobOK([j EXCEPT !.at = l]) /\ [j EXCEPT !.at = l].at # "off"
    BY <1>1 DEF JobOK, S!Jobs
  <2>2. QED
    BY <1>1, <2>1, ServesOnWith
<1>2. CASE \/ S!RoundTrip(r) \/ S!RoundTripFail(r) \/ S!BodyRead(r) \/ S!BodyEnd(r)
           \/ S!BodyWrite(r) \/ S!BodyWriteFail(r)
  BY <1>1, <1>2 DEF S!RoundTrip, S!RoundTripFail, S!BodyRead, S!BodyEnd, S!BodyWrite,
                    S!BodyWriteFail
<1>3. CASE S!Timeout(r)
  <2>1. job' = [job EXCEPT ![r] = [j EXCEPT !.timedOut = TRUE]] /\ j.at # "off"
    BY <1>3 DEF S!Timeout
  <2>2. JobOK([j EXCEPT !.timedOut = TRUE]) /\ [j EXCEPT !.timedOut = TRUE].at # "off"
    BY <2>1 DEF JobOK, S!Jobs
  <2>3. QED
    BY <2>1, <2>2, ServesOnWith
<1>4. ASSUME NEW e \in S!Ends, S!PeerStopsSending(r, e) \/ S!PeerStopsReading(r, e)
      PROVE  ServesOn(r)
  <2>1. j.at # "off"
    BY <1>4 DEF S!PeerStopsSending, S!PeerStopsReading
  <2>2. \E p \in S!Peers : job' = [job EXCEPT ![r] = [j EXCEPT !.peer[e] = p]]
    <3>1. j.peer[e] \in S!Peers
      BY DEF S!Jobs
    <3>2. CASE S!PeerStopsReading(r, e)
      <4>1. [j.peer[e] EXCEPT !.reads = FALSE] \in S!Peers
        BY <3>1 DEF S!Peers
      <4>2. QED
        BY <3>2, <4>1 DEF S!PeerStopsReading
    <3>3. CASE S!PeerStopsSending(r, e)
      <4>1. PICK s \in {"no", "eof"} : job' = [job EXCEPT ![r].peer[e].sends = s]
        BY <3>3 DEF S!PeerStopsSending
      <4>2. [j.peer[e] EXCEPT !.sends = s] \in S!Peers
        BY <3>1 DEF S!Peers
      <4>3. QED
        BY <4>1, <4>2
    <3>4. QED
      BY <1>4, <3>2, <3>3
  <2>3. PICK p \in S!Peers : job' = [job EXCEPT ![r] = [j EXCEPT !.peer[e] = p]]
    BY <2>2
  <2>4. JobOK([j EXCEPT !.peer[e] = p]) /\ [j EXCEPT !.peer[e] = p].at # "off"
    BY <2>1 DEF JobOK, S!Jobs
  <2>5. QED
    BY <2>1, <2>3, <2>4, ServesOnWith
<1>5. QED
  BY <1>2, <1>3, <1>4 DEF S!Peer

(* Whatever happens while r is served leaves a job in order. *)
LEMMA ServeStep ==
  ASSUME job \in [Reqs -> S!Jobs], NEW r \in Reqs, JobOK(job[r]), S!Serve(r)
  PROVE  ServesOn(r)
  BY ConnectSteps, TunnelSteps, ForwardSteps DEF S!Serve, S!Handler

(* A step of admission that is not Enter or Exit keeps who holds a slot. *)
LEMMA QuietAdmission ==
  ASSUME TypeOK, Outside \/ \E r \in Reqs : Admission(r)
  PROVE  /\ UNCHANGED job
         /\ \A q \in Reqs : pc'[q] = "held" <=> pc[q] = "held"
<1> USE DEF Goto, config, counters, locals
<1>1. CASE Outside
  BY <1>1 DEF Outside, TypeOK, ChangeSettings, ChangeUser, Begin, Refuse, Authorize
<1>2. ASSUME NEW r \in Reqs, Admission(r)
      PROVE  /\ UNCHANGED job
             /\ \A q \in Reqs : pc'[q] = "held" <=> pc[q] = "held"
  BY <1>2 DEF Admission, TypeOK, UserAdd, UserDeny, UserPass, GlobalAdd, GlobalDeny,
              GlobalUndo, UserUndo, ExitLookup, ExitDec
<1>3. QED
  BY <1>1, <1>2

(* A job starts as its handler gets the slot, and ends as it gives it back. *)
LEMMA RInvStep == TypeOK /\ RInv /\ [RNext]_allVars => RInv'
<1> SUFFICES ASSUME TypeOK, RInv, [RNext]_allVars PROVE RInv'
  OBVIOUS
<1>1. CASE UNCHANGED allVars
  BY <1>1 DEF RInv, JobOK, allVars
<1>2. CASE Outside \/ \E r \in Reqs : Admission(r)
  BY <1>2, QuietAdmission DEF RInv, JobOK
<1>3. ASSUME NEW r \in Reqs, NEW j, job' = [job EXCEPT ![r] = j], JobOK(j),
             j.at # "off" <=> pc'[r] = "held",
             \A q \in Reqs \ {r} : pc'[q] = pc[q]
      PROVE  RInv'
  <2>1. job' \in [Reqs -> S!Jobs] /\ job'[r] = j /\ \A q \in Reqs \ {r} : job'[q] = job[q]
    BY <1>3 DEF RInv, JobOK
  <2>2. \A q \in Reqs : JobOK(job'[q])
    BY <1>3, <2>1 DEF RInv
  <2>3. \A q \in Reqs : job'[q].at # "off" <=> pc'[q] = "held"
    BY <1>3, <2>1 DEF RInv
  <2>4. QED
    BY <2>1, <2>2, <2>3 DEF RInv, JobOK
<1>4. ASSUME NEW r \in Reqs, Serve(r) PROVE RInv'
  <2>1. UNCHANGED vars /\ pc' = pc
    BY <1>4 DEF Serve, vars
  <2>2. job[r].at # "off"
    BY <1>4 DEF Serve, RInv, JobOK, S!Serve, S!Handler, S!Side, S!Peer, S!Timeout, S!At,
       S!HijackFail, S!Hijack, S!DialFail, S!Dial, S!Reply, S!Leftover, S!LeftoverFail,
       S!Join, S!Account, S!RoundTrip, S!RoundTripFail, S!BodyRead, S!BodyEnd, S!BodyWrite,
       S!BodyWriteFail, S!PeerStopsSending, S!PeerStopsReading, S!ForwardLabels,
       S!Read, S!ReadFail, S!Write, S!WriteFail, S!CloseDst
  <2>3. ServesOn(r)
    BY <1>4, ServeStep DEF Serve, RInv
  <2>4. PICK j : job' = [job EXCEPT ![r] = j] /\ JobOK(j) /\ j.at # "off"
    BY <2>3 DEF ServesOn
  <2>5. QED
    BY <1>3, <2>1, <2>2, <2>4 DEF RInv
<1>5. ASSUME NEW r \in Reqs, Enter(r) PROVE RInv'
  <2>1. PICK via \in {"connect", "forward"} : S!Start(r, via)
    BY <1>5 DEF Enter
  <2> DEFINE j == [job[r] EXCEPT !.via = via,
                                 !.at = IF via = "connect" THEN "hijack" ELSE "roundTrip"]
  <2>2. job' = [job EXCEPT ![r] = j] /\ job[r].at = "off"
    BY <2>1 DEF S!Start, S!At
  <2>3. JobOK(j) /\ j.at # "off"
    <3>1. JobOK(job[r])
      BY DEF RInv
    <3>2. CASE via = "connect"
      <4>1. j = [job[r] EXCEPT !.via = "connect", !.at = "hijack"]
        BY <3>2
      <4>2. QED
        BY <2>2, <3>1, <4>1 DEF JobOK, S!Jobs, Socketless, S!ConnectLabels
    <3>3. CASE via = "forward"
      <4>1. j = [job[r] EXCEPT !.via = "forward", !.at = "roundTrip"]
        BY <3>3
      <4>2. QED
        BY <2>2, <3>1, <4>1 DEF JobOK, S!Jobs, Socketless, S!ForwardLabels
    <3>4. QED
      BY <3>2, <3>3
  <2>4. pc'[r] = "held" /\ \A q \in Reqs \ {r} : pc'[q] = pc[q]
    BY <1>5 DEF Enter, GlobalPass, Goto, TypeOK
  <2>5. QED
    BY <1>3, <2>2, <2>3, <2>4
<1>6. ASSUME NEW r \in Reqs, Exit(r) PROVE RInv'
  <2>1. job' = [job EXCEPT ![r] = S!Off]
    BY <1>6 DEF Exit, S!Finish
  <2>2. JobOK(S!Off) /\ S!Off.at = "off"
    BY DEF JobOK, S!Off, S!Jobs, S!Peers, S!Live
  <2>3. pc'[r] # "held" /\ \A q \in Reqs \ {r} : pc'[q] = pc[q]
    BY <1>6 DEF Exit, ExitGlobal, Goto, TypeOK
  <2>4. QED
    BY <1>3, <2>1, <2>2, <2>3
<1>7. QED
  BY <1>1, <1>2, <1>4, <1>5, <1>6 DEF RNext

(* Whole requests implement admission: RSpec takes only the steps of
   tryEnterConn and exitConn on the counters, so every theorem above about
   Spec is one about proxied requests too. *)
THEOREM RequestsAdmit == RSpec => Spec
<1>1. RInit => Init
  BY DEF RInit
<1>2. [RNext]_allVars => [Next]_vars
  <2> SUFFICES ASSUME RNext PROVE [Next]_vars
    BY DEF allVars, vars
  <2>1. CASE Outside
    BY <2>1 DEF Outside, Next
  <2>2. ASSUME NEW r \in Reqs, Admission(r) PROVE Next
    BY <2>2 DEF Admission, Next, Step
  <2>3. ASSUME NEW r \in Reqs, Enter(r) \/ Exit(r) PROVE Next
    BY <2>3 DEF Enter, Exit, Next, Step
  <2>4. ASSUME NEW r \in Reqs, Serve(r) PROVE UNCHANGED vars
    BY <2>4 DEF Serve
  <2>5. QED
    BY <2>1, <2>2, <2>3, <2>4 DEF RNext
<1>3. QED
  BY <1>1, <1>2, PTL DEF RSpec, Spec

(* However a request of any number of them ends (a failed hijack, dial or
   write, a reset, an idle deadline, a timeout), its handler comes to exitConn
   with both sockets closed and both goroutines of runTunnel done, and exactly
   the handlers that hold a slot serve. *)
THEOREM EveryEndIsClean == RSpec => []CleanEnd
<1>1. RInit => RInv
  <2> SUFFICES ASSUME RInit PROVE RInv
    OBVIOUS
  <2>1. JobOK(S!Off) /\ S!Off.at = "off" /\ S!Off \in S!Jobs
    BY DEF JobOK, S!Off, S!Jobs, S!Peers, S!Live
  <2>2. job = [r \in Reqs |-> S!Off] /\ pc = [r \in Reqs |-> "idle"]
    BY DEF RInit, Init, S!Init
  <2>3. QED
    BY <2>1, <2>2 DEF RInv
<1>2. IInv => TypeOK
  BY DEF IInv
<1>3. RInv => CleanEnd
  BY DEF RInv, JobOK, CleanEnd, ServingTypeOK, S!TypeOK, S!CleanEnd, S!At, Socketless
<1>4. QED
  BY <1>1, <1>2, <1>3, RInvStep, RequestsAdmit, Inductive, PTL DEF RSpec

(* The caps hold for whole requests: those being served, of all handlers and of
   each user, fit the cap that one of them read at every moment of their service. *)
THEOREM ServedWithinCaps == RSpec => []CapsRespected
  BY RequestsAdmit, CapsAreRespected, PTL
=============================================================================
