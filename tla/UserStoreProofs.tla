-------------------------- MODULE UserStoreProofs --------------------------
(***************************************************************************)
(* Proofs about UserStore, for any users, names, request bodies and        *)
(* snapshots.  Memory and file are each a good list at every step, whether *)
(* or not a save fails, and the indexes are always those of the file.      *)
(***************************************************************************)
EXTENDS UserStore, SequenceTheorems, TLAPS

Good(s) == s \in Seq(User) /\ Distinct(s) /\ HasAdmin(s)

IndexesOfFile == byID = IndexByID(disk) /\ byName = IndexByName(disk)

IInv == Good(users) /\ Good(disk) /\ TypeOK /\ IndexesOfFile
-----------------------------------------------------------------------------
(* Each transaction function returns a good list when it succeeds. *)
LEMMA GoodAppend ==
  ASSUME NEW s, Good(s), NEW u \in User, u.id \notin Ids(s), ~Taken(s, u.name, Nobody)
  PROVE  Good(Append(s, u))
<1> DEFINE t == Append(s, u)
<1>1. /\ t \in Seq(User) /\ DOMAIN s = 1 .. Len(s) /\ DOMAIN t = 1 .. Len(s) + 1
      /\ Len(s) \in Nat
      /\ \A i \in 1 .. Len(s) : t[i] = s[i]
      /\ t[Len(s) + 1] = u
  BY DEF Good
<1>2. \A i \in 1 .. Len(s) : s[i].id # u.id /\ Key[s[i].name] # Key[u.name]
  <2>1. \A i \in 1 .. Len(s) : s[i] \in User
    BY DEF Good
  <2>2. QED
    BY <1>1, <2>1, StoreAssumption DEF Ids, Taken, User, StoreAssumption
<1>3. Distinct(t)
  <2> HIDE DEF t
  <2>1. \A i \in 1 .. Len(s) + 1 : i \in 1 .. Len(s) \/ i = Len(s) + 1
    BY <1>1
  <2>2. QED
    BY <1>1, <1>2, <2>1 DEF Distinct, Good
<1>4. HasAdmin(t)
  BY <1>1 DEF HasAdmin, Good
<1>5. QED
  BY <1>1, <1>3, <1>4 DEF Good

(* An update keeps the ID and the type of a record. *)
LEMMA UpdatedUser ==
  ASSUME NEW u \in User, NEW b \in UpdateBodies
  PROVE  Updated(u, b) \in User /\ Updated(u, b).id = u.id
  BY StoreAssumption DEF Updated, Field, User, StoreAssumption

(* An update that apiUserUpdate's checks accept keeps a list good, ... *)
LEMMA GoodUpdate ==
  ASSUME NEW s, Good(s), NEW i \in DOMAIN s, NEW u \in User, u.id = s[i].id,
         ~UpdateRejected(s, u)
  PROVE  Good([s EXCEPT ![i] = u])
<1> DEFINE t == [s EXCEPT ![i] = u]
<1>1. t \in Seq(User) /\ DOMAIN t = DOMAIN s /\ t[i] = u
      /\ \A j \in DOMAIN s \ {i} : t[j] = s[j]
  BY DEF Good
<1>2. \A j \in DOMAIN s \ {i} : s[j].id # u.id /\ Key[s[j].name] # Key[u.name]
  BY DEF Good, Distinct, UpdateRejected, Taken
<1>3. Distinct(t)
  BY <1>1, <1>2 DEF Distinct, Good
<1>4. HasAdmin(t)
  <2>1. CASE IsAdmin(u)
    BY <1>1, <2>1 DEF HasAdmin
  <2>2. CASE OtherAdmin(s, u.id)
    BY <1>1, <2>2 DEF OtherAdmin, HasAdmin
  <2>3. QED
    BY <2>1, <2>2 DEF UpdateRejected
<1>5. QED
  BY <1>1, <1>3, <1>4 DEF Good

(* ... so does a deletion that leaves another admin, ... *)
LEMMA GoodWithout ==
  ASSUME NEW s, Good(s), NEW i \in DOMAIN s, IsAdmin(s[i]) => OtherAdmin(s, s[i].id)
  PROVE  Good(Without(s, i))
<1> DEFINE t == Without(s, i)
           Old(j) == IF j < i THEN j ELSE j + 1
<1>1. Len(s) \in Nat /\ DOMAIN s = 1 .. Len(s) /\ \A j \in DOMAIN s : s[j] \in User
  BY DEF Good
<1>2. t = [j \in 1 .. Len(s) - 1 |-> s[Old(j)]]
  BY DEF Without
<1>3. \A j \in 1 .. Len(s) - 1 : Old(j) \in DOMAIN s \ {i} /\ t[j] = s[Old(j)]
  BY <1>1, <1>2
<1>4. t \in Seq(User) /\ DOMAIN t = 1 .. Len(s) - 1
  BY <1>1, <1>2, <1>3
<1>5. \A j, k \in 1 .. Len(s) - 1 : j # k => Old(j) # Old(k)
  BY <1>1
<1>6. Distinct(t)
  <2> HIDE DEF t, Old
  <2>1. QED
    BY <1>3, <1>4, <1>5 DEF Distinct, Good
<1>7. HasAdmin(t)
  <2>1. PICK k \in DOMAIN s : k # i /\ IsAdmin(s[k])
    BY DEF Good, HasAdmin, OtherAdmin
  <2>2. PICK j \in 1 .. Len(s) - 1 : Old(j) = k
    <3>1. CASE k < i
      BY <1>1, <2>1, <3>1
    <3>2. CASE k > i
      <4>1. k - 1 \in 1 .. Len(s) - 1 /\ Old(k - 1) = k
        BY <1>1, <2>1, <3>2
      <4>2. QED
        BY <4>1
    <3>3. QED
      BY <1>1, <2>1, <3>1, <3>2
  <2>3. t[j] = s[k]
    BY <1>3, <2>2
  <2>4. QED
    BY <1>4, <2>1, <2>2, <2>3 DEF HasAdmin
<1>8. QED
  BY <1>4, <1>6, <1>7 DEF Good

(* ... an import that validates is good, ... *)
LEMMA GoodSnapshot ==
  ASSUME NEW s \in Seq(User), ValidSnapshot(s)
  PROVE  Good(s)
<1>1. \A i \in DOMAIN s : s[i] \in User
  OBVIOUS
<1>2. Distinct(s)
  BY <1>1, StoreAssumption DEF ValidSnapshot, Distinct, User, StoreAssumption
<1>3. QED
  BY <1>2 DEF Good, ValidSnapshot

(* ... and so is the list a first start makes. *)
LEMMA GoodDefault ==
  ASSUME NEW id \in IDs
  PROVE  Good(DefaultUsers(id))
<1>1. DefaultUsers(id) \in Seq(User) /\ DOMAIN DefaultUsers(id) = {1}
      /\ IsAdmin(DefaultUsers(id)[1])
  BY StoreAssumption DEF DefaultUsers, User, Roles, IsAdmin, StoreAssumption
<1>2. QED
  BY <1>1 DEF Good, Distinct, HasAdmin
-----------------------------------------------------------------------------
(* What every step does to the store: nothing, or a good list goes to memory
   and, with its indexes, to the file; or to memory only. *)
Keeps == UNCHANGED store
Writes == Good(users') /\ Saved(users')
Diverges == Good(users') /\ SaveFailed(users')

(* Every action of the module is one of the three. *)
LEMMA StoreStep == IInv /\ [Next]_vars => Keeps \/ Writes \/ Diverges
<1> SUFFICES ASSUME IInv, [Next]_vars PROVE Keeps \/ Writes \/ Diverges
  OBVIOUS
<1>1. ASSUME NEW s, Good(s), Commit(s) PROVE Writes \/ Diverges
  BY <1>1 DEF Commit, Saved, SaveFailed, Writes, Diverges
<1>2. ASSUME NEW s, Good(s), Load(s) PROVE Writes
  BY <1>2 DEF Load, Saved, Writes
<1>3. CASE UNCHANGED vars
  BY <1>3 DEF vars, store, Keeps
<1>4. ASSUME NEW h \in Handlers,
             \/ \E b \in CreateBodies : CreateLookup(h, b)
             \/ CreateTaken(h)
             \/ \E b \in UpdateBodies : UpdateLookup(h, b)
             \/ UpdateFails(h)
      PROVE  Keeps
  BY <1>4 DEF CreateLookup, CreateTaken, UpdateLookup, UpdateFails, Keeps
<1>5. ASSUME NEW h \in Handlers, NEW id \in IDs, CreateCommit(h, id) PROVE Writes \/ Diverges
  <2> DEFINE b == pend[h]
             u == [id |-> id, name |-> b.name, role |-> b.role, enabled |-> b.enabled]
  <2>1. b \in CreateBodies
    BY <1>5 DEF CreateCommit
  <2>2. u \in User /\ u.id = id /\ u.name = b.name
    BY <2>1, StoreAssumption DEF User, StoreAssumption
  <2>3. u.id \notin Ids(users) /\ ~Taken(users, u.name, Nobody) /\ Commit(Append(users, u))
    BY <1>5, <2>2 DEF CreateCommit
  <2>4. Good(Append(users, u))
    BY <2>2, <2>3, GoodAppend DEF IInv
  <2>5. QED
    BY <1>1, <2>3, <2>4
<1>6. ASSUME NEW h \in Handlers, UpdateCommit(h) PROVE Writes \/ Diverges
  <2>1. pend[h] \in UpdateBodies
    BY <1>6 DEF UpdateCommit
  <2>2. PICK i \in DOMAIN users :
          /\ ~UpdateRejected(users, Updated(users[i], pend[h]))
          /\ Commit([users EXCEPT ![i] = Updated(users[i], pend[h])])
    BY <1>6 DEF UpdateCommit
  <2>3. users[i] \in User
    BY DEF IInv, Good
  <2>4. Updated(users[i], pend[h]) \in User /\ Updated(users[i], pend[h]).id = users[i].id
    BY <2>1, <2>3, UpdatedUser
  <2>5. Good([users EXCEPT ![i] = Updated(users[i], pend[h])])
    BY <2>2, <2>4, GoodUpdate DEF IInv
  <2>6. QED
    BY <1>1, <2>2, <2>5
<1>7. ASSUME NEW id \in IDs, Delete(id) PROVE Writes \/ Diverges
  <2>1. PICK i \in DOMAIN users : /\ IsAdmin(users[i]) => OtherAdmin(users, users[i].id)
                                  /\ Commit(Without(users, i))
    BY <1>7 DEF Delete
  <2>2. Good(Without(users, i))
    BY <2>1, GoodWithout DEF IInv
  <2>3. QED
    BY <1>1, <2>1, <2>2
<1>8. ASSUME NEW doc \in Docs, Import(doc) PROVE Writes \/ Diverges
  <2>1. Good(doc)
    BY <1>8, GoodSnapshot, StoreAssumption DEF Import, StoreAssumption
  <2>2. QED
    BY <1>1, <1>8, <2>1 DEF Import
<1>9. CASE Rewrite
  BY <1>1, <1>9 DEF Rewrite, IInv
<1>10. CASE Restart
  BY <1>2, <1>10 DEF Restart, IInv
<1>11. ASSUME NEW id \in IDs, RestartUnreadable(id) PROVE Writes
  BY <1>2, <1>11, GoodDefault DEF RestartUnreadable
<1>12. QED
  BY <1>3, <1>4, <1>5, <1>6, <1>7, <1>8, <1>9, <1>10, <1>11 DEF Next

(* The handlers' pending bodies keep their type. *)
LEMMA PendStep ==
  ASSUME IInv, [Next]_vars
  PROVE  pend' \in [Handlers -> CreateBodies \cup UpdateBodies \cup {Idle}]
  BY DEF IInv, TypeOK, Next, vars, CreateLookup, CreateCommit, CreateTaken, UpdateLookup,
         UpdateCommit, UpdateFails, Delete, Import, Rewrite, Restart, RestartUnreadable, Load

(* The inductive invariant: good lists in memory and in the file, and indexes
   that are always those of the file. *)
THEOREM Inductive == Spec => []IInv
<1>1. Init => IInv
  <2> SUFFICES ASSUME Init PROVE IInv
    OBVIOUS
  <2>1. Good(users)
    BY GoodDefault DEF Init
  <2>2. pend \in [Handlers -> CreateBodies \cup UpdateBodies \cup {Idle}]
    BY DEF Init
  <2>3. QED
    BY <2>1, <2>2 DEF Init, IInv, TypeOK, IndexesOfFile, Good
<1>2. IInv /\ [Next]_vars => IInv'
  <2> SUFFICES ASSUME IInv, [Next]_vars PROVE IInv'
    OBVIOUS
  <2>1. pend' \in [Handlers -> CreateBodies \cup UpdateBodies \cup {Idle}]
    BY PendStep
  <2>2. Good(users)' /\ Good(disk)' /\ IndexesOfFile'
    <3>1. CASE Keeps
      BY <3>1 DEF Keeps, store, IInv, Good, Distinct, HasAdmin, IndexesOfFile,
                  IndexByID, IndexByName, Ids, Keys
    <3>2. CASE Writes
      BY <3>2 DEF Writes, Saved, Good, Distinct, HasAdmin, IndexesOfFile,
                  IndexByID, IndexByName, Ids, Keys
    <3>3. CASE Diverges
      BY <3>3 DEF Diverges, SaveFailed, IInv, Good, Distinct, HasAdmin, IndexesOfFile,
                  IndexByID, IndexByName, Ids, Keys
    <3>4. QED
      BY <3>1, <3>2, <3>3, StoreStep
  <2>3. QED
    BY <2>1, <2>2 DEF IInv, TypeOK, Good
<1>3. QED
  BY <1>1, <1>2, PTL DEF Spec

(* Memory, file and pending bodies keep their types. *)
THEOREM TypeCorrect == Spec => []TypeOK
<1>1. IInv => TypeOK
  BY DEF IInv
<1>2. QED
  BY Inductive, <1>1, PTL

(* No update of config.go and admin.go, failed saves and stale lookups
   included, ever yields two accounts with one ID or one login name. *)
THEOREM UsersStayUnique == Spec => []UniqueUsers
<1>1. IInv => UniqueUsers
  BY DEF IInv, Good, UniqueUsers
<1>2. QED
  BY Inductive, <1>1, PTL

(* An enabled admin remains, in memory and in what a restart loads. *)
THEOREM AdminAlwaysRemains == Spec => []AdminRemains
<1>1. IInv => AdminRemains
  BY DEF IInv, Good, AdminRemains
<1>2. QED
  BY Inductive, <1>1, PTL

(* FindUser and FindUserByName never return another account, and find every
   account whenever memory and file agree. *)
THEOREM LookupsAreCorrect == Spec => []LookupCorrect
<1>1. IInv => LookupCorrect
  <2> SUFFICES ASSUME IInv PROVE LookupCorrect
    OBVIOUS
  <2>1. ASSUME NEW id \in IDs, FindUser(id) # Nobody PROVE FindUser(id).id = id
    BY <2>1 DEF FindUser
  <2>2. ASSUME users = disk, NEW i \in DOMAIN users
        PROVE  FindUser(users[i].id) = users[i] /\ FindUserByName(users[i].name) = users[i]
    <3> DEFINE id == users[i].id
               k == Key[users[i].name]
               P(j) == users[j].id = id /\ \A l \in DOMAIN users : users[l].id = id => l <= j
               Q(j) == Key[users[j].name] = k
                       /\ \A l \in DOMAIN users : Key[users[l].name] = k => l <= j
    <3>0. \A l \in DOMAIN users : l \in Nat
      BY DEF IInv, Good
    <3>1. P(i) /\ \A j \in DOMAIN users : P(j) => j = i
      BY <2>2, <3>0 DEF IInv, Good, Distinct
    <3>2. Q(i) /\ \A j \in DOMAIN users : Q(j) => j = i
      BY <2>2, <3>0 DEF IInv, Good, Distinct
    <3>3. (CHOOSE j \in DOMAIN users : P(j)) = i
      BY <2>2, <3>1
    <3>4. (CHOOSE j \in DOMAIN users : Q(j)) = i
      BY <2>2, <3>2
    <3>5. id \in DOMAIN byID /\ byID[id] = i
      BY <2>2, <3>3 DEF IInv, IndexesOfFile, IndexByID, Ids
    <3>6. k \in DOMAIN byName /\ byName[k] = i
      BY <2>2, <3>4 DEF IInv, IndexesOfFile, IndexByName, Keys
    <3>7. QED
      BY <2>2, <3>5, <3>6 DEF FindUser, FindUserByName
  <2>3. QED
    BY <2>1, <2>2 DEF LookupCorrect
<1>2. QED
  BY Inductive, <1>1, PTL
=============================================================================
