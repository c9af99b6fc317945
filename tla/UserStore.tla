----------------------------- MODULE UserStore -----------------------------
(***************************************************************************)
(* The user accounts of the forward proxy: Store (config.go) holding them  *)
(* in memory, in config.json and in two lookup indexes, and the admin API  *)
(* handlers that change them (admin.go).                                   *)
(*                                                                         *)
(* Store.update runs a handler's function under the write lock, saves the  *)
(* file (temporary file and rename) and rebuilds the indexes.  A function  *)
(* that fails is rolled back; a save that fails is not: the memory keeps   *)
(* the change, the file and the indexes stay as they were.                 *)
(* Handlers that look a name up before their transaction do so in a step   *)
(* of their own, since the lock is released in between.                    *)
(***************************************************************************)
EXTENDS Naturals, Sequences

CONSTANTS Handlers,      \* admin API requests in flight
          IDs,           \* user IDs (randomHex(8))
          Names,         \* usernames, spellings kept apart
          Key,           \* Key[n]: strings.ToLower(n), what EqualFold compares
          TrimKey,       \* TrimKey[n]: strings.ToLower(strings.TrimSpace(n))
          DefaultName,   \* "admin"
          Idle, Keep, Nobody,
          CreateBodies,  \* bodies of POST /users that pass userBody.validate
          UpdateBodies,  \* bodies of PUT /users/{id}; Keep: field absent
          Docs,          \* user lists of the snapshots offered to import
          MaxUsers       \* bound on the accounts a run creates

Roles == {"user", "admin"}
User == [id : IDs, name : Names, role : Roles, enabled : BOOLEAN]

ASSUME StoreAssumption ==
  /\ Key \in [Names -> Names] /\ TrimKey \in [Names -> Names]
  /\ \A m, n \in Names : Key[m] = Key[n] => TrimKey[m] = TrimKey[n]
  /\ DefaultName \in Names
  /\ Keep \notin Names \cup Roles /\ Keep \notin BOOLEAN
  /\ Nobody \notin IDs /\ Nobody \notin User
  /\ CreateBodies \subseteq [op : {"create"}, name : Names, role : Roles, enabled : BOOLEAN]
  /\ UpdateBodies \subseteq [op : {"update"}, id : IDs, name : Names \cup {Keep},
                            role : Roles \cup {Keep}, enabled : BOOLEAN \cup {Keep}]
  /\ Idle \notin CreateBodies \cup UpdateBodies
  /\ Docs \subseteq Seq(User)
  /\ MaxUsers \in Nat

VARIABLES
  users,    \* Store.cfg.Users
  disk,     \* the users of config.json
  byID,     \* Store.byID:   user ID -> position
  byName,   \* Store.byName: lowercased name -> position
  pend      \* pend[h]: the body h is about to apply, or Idle

vars == <<users, disk, byID, byName, pend>>
-----------------------------------------------------------------------------
Ids(s) == {s[i].id : i \in DOMAIN s}
Keys(s) == {Key[s[i].name] : i \in DOMAIN s}

(* rebuildIndex: a later entry overwrites an earlier one. *)
IndexByID(s) == [id \in Ids(s) |-> CHOOSE i \in DOMAIN s :
                   s[i].id = id /\ \A j \in DOMAIN s : s[j].id = id => j <= i]
IndexByName(s) == [k \in Keys(s) |-> CHOOSE i \in DOMAIN s :
                   Key[s[i].name] = k /\ \A j \in DOMAIN s : Key[s[j].name] = k => j <= i]

(* Faulty variant: the position found in the index is trusted. *)
FindUserTrusting(id) ==
  IF id \in DOMAIN byID /\ byID[id] \in DOMAIN users THEN users[byID[id]] ELSE Nobody

(* The index may be stale: both lookups check the entry they land on. *)
FindUser(id) ==
  IF id \in DOMAIN byID /\ byID[id] \in DOMAIN users /\ users[byID[id]].id = id
  THEN users[byID[id]] ELSE Nobody

FindUserByName(n) ==
  IF Key[n] \in DOMAIN byName /\ byName[Key[n]] \in DOMAIN users
     /\ Key[users[byName[Key[n]]].name] = Key[n]
  THEN users[byName[Key[n]]] ELSE Nobody

(* Faulty variant: names compared as spelled. *)
TakenExact(s, n, exclude) == \E i \in DOMAIN s : s[i].id # exclude /\ s[i].name = n

(* usernameTaken and countEnabledAdmins(...) > 0, on the list in memory. *)
Taken(s, n, exclude) == \E i \in DOMAIN s : s[i].id # exclude /\ Key[s[i].name] = Key[n]
IsAdmin(u) == u.role = "admin" /\ u.enabled
HasAdmin(s) == \E i \in DOMAIN s : IsAdmin(s[i])
OtherAdmin(s, id) == \E i \in DOMAIN s : s[i].id # id /\ IsAdmin(s[i])

(* append(c.Users[:i], c.Users[i+1:]...) *)
Without(s, i) == [j \in 1 .. Len(s) - 1 |-> IF j < i THEN s[j] ELSE s[j + 1]]

(* validateImportSnapshot, as far as it is about users. *)
ValidSnapshot(s) ==
  /\ \A i, j \in DOMAIN s : s[i].id = s[j].id => i = j
  /\ \A i, j \in DOMAIN s : TrimKey[s[i].name] = TrimKey[s[j].name] => i = j
  /\ HasAdmin(s)

DefaultUsers(id) == <<[id |-> id, name |-> DefaultName, role |-> "admin", enabled |-> TRUE]>>
-----------------------------------------------------------------------------
(* The end of Store.update once its function has produced the list s. *)
Saved(s) ==
  /\ users' = s
  /\ disk' = s
  /\ byID' = IndexByID(s)
  /\ byName' = IndexByName(s)

SaveFailed(s) == users' = s /\ UNCHANGED <<disk, byID, byName>>

Commit(s) == Saved(s) \/ SaveFailed(s)

store == <<users, disk, byID, byName>>

(* apiUsers, POST: the name is looked up first; then, after the password has
   been hashed, the transaction repeats the test. *)
CreateLookup(h, b) ==
  /\ pend[h] = Idle
  /\ FindUserByName(b.name) = Nobody
  /\ pend' = [pend EXCEPT ![h] = b]
  /\ UNCHANGED store

CreateCommit(h, id) ==
  /\ pend[h] \in CreateBodies
  /\ Len(users) < MaxUsers
  /\ id \notin Ids(users)
  /\ LET b == pend[h] IN
       /\ ~Taken(users, b.name, Nobody)
       /\ Commit(Append(users, [id |-> id, name |-> b.name, role |-> b.role,
                                enabled |-> b.enabled]))
  /\ pend' = [pend EXCEPT ![h] = Idle]

CreateTaken(h) ==
  /\ pend[h] \in CreateBodies
  /\ Taken(users, pend[h].name, Nobody)
  /\ pend' = [pend EXCEPT ![h] = Idle]
  /\ UNCHANGED store

(* apiUserUpdate: absent fields keep their value. *)
UpdateLookup(h, b) ==
  /\ pend[h] = Idle
  /\ b.name # Keep => LET other == FindUserByName(b.name)
                      IN other # Nobody => other.id = b.id
  /\ pend' = [pend EXCEPT ![h] = b]
  /\ UNCHANGED store

Field(new, old) == IF new = Keep THEN old ELSE new

(* Faulty variant: an absent role is not left untouched. *)
UpdatedRole(u, b) == [u EXCEPT !.name = Field(b.name, @), !.role = b.role,
                               !.enabled = Field(b.enabled, @)]

Updated(u, b) == [u EXCEPT !.name = Field(b.name, @), !.role = Field(b.role, @),
                           !.enabled = Field(b.enabled, @)]

(* Faulty variant, the check apiUserUpdate once had: only disabling counts. *)
UpdateRejectedIfDisabled(s, u) ==
  \/ Taken(s, u.name, u.id)
  \/ u.role = "admin" /\ ~u.enabled /\ ~OtherAdmin(s, u.id)

(* errDuplicateName or errLastAdmin: the function fails, update rolls back. *)
UpdateRejected(s, u) ==
  \/ Taken(s, u.name, u.id)
  \/ ~IsAdmin(u) /\ ~OtherAdmin(s, u.id)

UpdateCommit(h) ==
  /\ pend[h] \in UpdateBodies
  /\ \E i \in DOMAIN users :
       LET u == Updated(users[i], pend[h]) IN
         /\ users[i].id = pend[h].id
         /\ ~UpdateRejected(users, u)
         /\ Commit([users EXCEPT ![i] = u])
  /\ pend' = [pend EXCEPT ![h] = Idle]

UpdateFails(h) ==
  /\ pend[h] \in UpdateBodies
  /\ \A i \in DOMAIN users :
       users[i].id = pend[h].id => UpdateRejected(users, Updated(users[i], pend[h]))
  /\ pend' = [pend EXCEPT ![h] = Idle]
  /\ UNCHANGED store

(* apiUserDelete: one transaction. *)
Delete(id) ==
  /\ \E i \in DOMAIN users :
       /\ users[i].id = id
       /\ IsAdmin(users[i]) => OtherAdmin(users, id)
       /\ Commit(Without(users, i))
  /\ UNCHANGED pend

(* apiImport: the snapshot replaces the list. *)
Import(doc) ==
  /\ ValidSnapshot(doc)
  /\ Commit(doc)
  /\ UNCHANGED pend

(* Updates of fields this module leaves out (apiUserPassword, apiGlobalRules,
   apiSettings, FlushStats) save the whole configuration as well, and with it
   whatever an earlier save failed to write. *)
Rewrite == Commit(users) /\ UNCHANGED pend

(* The process stops and starts: NewStore loads the file.  Requests in flight
   are gone. *)
Load(s) ==
  /\ users' = s
  /\ disk' = s
  /\ byID' = IndexByID(s)
  /\ byName' = IndexByName(s)
  /\ pend' = [h \in Handlers |-> Idle]

Restart == Load(disk)

(* ... or cannot read it, and writes a default configuration instead. *)
RestartUnreadable(id) == Load(DefaultUsers(id))

Init ==
  /\ \E id \in IDs : users = DefaultUsers(id)
  /\ disk = users
  /\ byID = IndexByID(users)
  /\ byName = IndexByName(users)
  /\ pend = [h \in Handlers |-> Idle]

Next ==
  \/ \E h \in Handlers : \/ \E b \in CreateBodies : CreateLookup(h, b)
                         \/ \E id \in IDs : CreateCommit(h, id)
                         \/ CreateTaken(h)
                         \/ \E b \in UpdateBodies : UpdateLookup(h, b)
                         \/ UpdateCommit(h)
                         \/ UpdateFails(h)
  \/ \E id \in IDs : Delete(id) \/ RestartUnreadable(id)
  \/ \E doc \in Docs : Import(doc)
  \/ Rewrite
  \/ Restart

Spec == Init /\ [][Next]_vars
-----------------------------------------------------------------------------
(* Types of the state. *)
TypeOK ==
  /\ users \in Seq(User)
  /\ disk \in Seq(User)
  /\ pend \in [Handlers -> CreateBodies \cup UpdateBodies \cup {Idle}]

(* No two accounts share an ID or a name that logs in the same way, in memory
   or in the file, although each handler's first look at the names is stale by
   the time it commits and a failed save leaves the two lists different. *)
Distinct(s) ==
  \A i, j \in DOMAIN s : i # j => s[i].id # s[j].id /\ Key[s[i].name] # Key[s[j].name]

UniqueUsers == Distinct(users) /\ Distinct(disk)

(* The guards of apiUserUpdate, apiUserDelete and import keep an enabled admin,
   in memory and in what a restart would load. *)
AdminRemains == HasAdmin(users) /\ HasAdmin(disk)

(* The indexes lag behind the memory after a failed save.  A lookup then
   returns the account asked for or nobody, never another one; and as soon as
   memory and file agree again (the next save of any kind, or a restart) every
   account is found by its ID and by its name. *)
LookupCorrect ==
  /\ \A id \in IDs : FindUser(id) # Nobody => FindUser(id).id = id
  /\ users = disk => \A i \in DOMAIN users :
       FindUser(users[i].id) = users[i] /\ FindUserByName(users[i].name) = users[i]
=============================================================================
