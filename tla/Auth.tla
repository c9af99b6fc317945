------------------------------- MODULE Auth --------------------------------
(***************************************************************************)
(* Who may do what: HTTP Basic credentials checked through the cache of    *)
(* password verifications, and the signed admin session tokens (auth.go,   *)
(* apiLogin in admin.go), while administrators change the accounts.        *)
(*                                                                         *)
(* checkBasicAuth copies the account, then looks in the cache, then runs   *)
(* the key derivation with no lock held, then fills the cache; apiLogin    *)
(* goes on with that copy and signs a token for it.  Each of these is a    *)
(* step of its own, and the account may change between any two.            *)
(*                                                                         *)
(* A password hash is its password and its salt (fresh every time); hex,   *)
(* base64 and HMAC are left out: a token is what it says, and its key.     *)
(* There is no clock: a cache entry may be found expired whenever it is    *)
(* looked at, and no token expires, so nothing below relies on either.     *)
(***************************************************************************)
EXTENDS Naturals, FiniteSets

CONSTANTS Names, Passwords, Calls,
          None,        \* no account, no user
          CacheMax,    \* authCacheMax
          MaxSalt, MaxLife, MaxKey, MaxTokens   \* bounds of a run

ASSUME AuthAssumption ==
  /\ CacheMax \in Nat /\ MaxTokens \in Nat
  /\ MaxSalt \in Nat \ {0} /\ MaxLife \in Nat \ {0} /\ MaxKey \in Nat \ {0}
  /\ IsFiniteSet(Names) /\ IsFiniteSet(Passwords) /\ IsFiniteSet(Calls)

Hash == [pw : Passwords, salt : 1 .. MaxSalt]
Dummy == [pw |-> None, salt |-> 0]     \* getDummyHash: nobody's password

(* Enabled and Role; the role of a disabled account is never looked at. *)
Status == {"admin", "user", "disabled"}

(* life is history: which account this is.  So are hash and life of a token. *)
Account == [hash : Hash, epoch : Nat, status : Status, life : 1 .. MaxLife]
Token == [name : Names, epoch : Nat, key : 1 .. MaxKey, hash : Hash, life : 1 .. MaxLife]

(* A call in checkBasicAuth: the step it is at, its credentials, and its copy of
   the account (None: there is none, and the dummy hash is verified instead). *)
Call == [at : {"equalize", "cache", "kdf", "verified"}, name : Names, pw : Passwords,
         user : Account \cup {None}]

ASSUME NoneAssumption == None \notin Account \cup Passwords \cup Call

VARIABLES
  acct,    \* the accounts in memory, by name
  key,     \* Config.SessionKey
  cache,   \* Store.authCache: <<hash, password>> -> ok
  tokens,  \* the session tokens handed out
  call,    \* the requests being authenticated
  salts,   \* history: salts used
  lives    \* history: accounts made, by creating or importing

vars == <<acct, key, cache, tokens, call, salts, lives>>
admin == <<acct, key, salts, lives>>   \* what no call changes

(* FindUserByName of an enabled account. *)
Active(n) == acct[n] # None /\ acct[n].status # "disabled"

Goto(c, step) == call' = [call EXCEPT ![c].at = step]
Return(c) == call' = [call EXCEPT ![c] = None]
-----------------------------------------------------------------------------
(* checkBasicAuth: the account is copied. *)
Lookup(c, n, p) ==
  /\ call[c] = None
  /\ call' = [call EXCEPT ![c] =
                [at |-> IF Active(n) THEN "cache" ELSE "equalize", name |-> n, pw |-> p,
                 user |-> IF Active(n) THEN acct[n] ELSE None]]
  /\ UNCHANGED <<admin, cache, tokens>>

At(c, step) == call[c] # None /\ call[c].at = step

(* equalizeAuthTiming, after a refusal: unless the name now belongs to an
   enabled account, the same work is done with the dummy hash. *)
Equalize(c) ==
  /\ At(c, "equalize")
  /\ IF Active(call[c].name) THEN Return(c)
     ELSE call' = [call EXCEPT ![c].at = "cache", ![c].user = None]
  /\ UNCHANGED <<admin, cache, tokens>>

(* Where a verification leads: the user is returned, or the call is refused. *)
Conclude(c, ok) ==
  IF call[c].user = None THEN Return(c) ELSE Goto(c, IF ok THEN "verified" ELSE "equalize")

(* Faulty variant: the entry belongs to the account, not to its hash. *)
CacheKeyByAccount(c) == <<call[c].name, call[c].pw>>

HashOf(c) == IF call[c].user = None THEN Dummy ELSE call[c].user.hash

CacheKey(c) == <<HashOf(c), call[c].pw>>

(* verifyCached: an entry that has not expired is the answer ... *)
CacheHit(c) ==
  /\ At(c, "cache")
  /\ CacheKey(c) \in DOMAIN cache
  /\ Conclude(c, cache[CacheKey(c)])
  /\ UNCHANGED <<admin, cache, tokens>>

(* ... and if there is none, or it has, the lock is released for the KDF. *)
CacheMiss(c) ==
  /\ At(c, "cache")
  /\ Goto(c, "kdf")
  /\ UNCHANGED <<admin, cache, tokens>>

VerifyPassword(h, p) == h.pw = p

Put(f, k, v) == [j \in DOMAIN f \cup {k} |-> IF j = k THEN v ELSE f[j]]

(* A full cache first loses what has expired. *)
Prunings == IF Cardinality(DOMAIN cache) < CacheMax THEN {DOMAIN cache} ELSE SUBSET DOMAIN cache

(* Faulty variant: a full cache is pruned and then filled in any case. *)
RememberAlways(c, ok) ==
  \E S \in Prunings : cache' = Put([k \in S |-> cache[k]], CacheKey(c), ok)

(* Still full: the result is not cached. *)
Remember(c, ok) ==
  \E S \in Prunings :
    LET rest == [k \in S |-> cache[k]] IN
      cache' = IF Cardinality(S) >= CacheMax THEN rest ELSE Put(rest, CacheKey(c), ok)

(* The key derivation ends, and the result is remembered. *)
Derive(c) ==
  /\ At(c, "kdf")
  /\ LET ok == VerifyPassword(HashOf(c), call[c].pw) IN
       Remember(c, ok) /\ Conclude(c, ok)
  /\ UNCHANGED <<admin, tokens>>

(* The proxy, or an admin endpoint with Basic credentials, has its user; or the
   login is refused because the account is no admin. *)
Authenticated(c) ==
  /\ At(c, "verified")
  /\ Return(c)
  /\ UNCHANGED <<admin, cache, tokens>>

(* issueToken. *)
issueToken(n, epoch, u) ==
  /\ Cardinality(tokens) < MaxTokens
  /\ tokens' = tokens \cup {[name |-> n, epoch |-> epoch, key |-> key,
                             hash |-> u.hash, life |-> u.life]}

(* Faulty variant: the epoch is looked up when the token is signed. *)
IssueCurrent(c) ==
  /\ At(c, "verified") /\ call[c].user.status = "admin" /\ acct[call[c].name] # None
  /\ issueToken(call[c].name, acct[call[c].name].epoch, call[c].user)
  /\ Return(c)
  /\ UNCHANGED <<admin, cache>>

(* apiLogin: signed with the key of now and the epoch of the copy. *)
Issue(c) ==
  /\ At(c, "verified") /\ call[c].user.status = "admin"
  /\ issueToken(call[c].name, call[c].user.epoch, call[c].user)
  /\ Return(c)
  /\ UNCHANGED <<admin, cache>>

(* The token half of validAdminFromRequest, and apiSelf: verifyToken accepts the
   key, and the account is an enabled admin of the same epoch. *)
SessionValid(t) ==
  /\ t.key = key
  /\ acct[t.name] # None
  /\ acct[t.name].status = "admin" /\ acct[t.name].epoch = t.epoch
-----------------------------------------------------------------------------
(* Store.update.  What a failed save leaves behind is the matter of UserStore;
   the memory, which is all a call sees, has the change in any case. *)
Commit(a) == acct' = a /\ UNCHANGED <<key, cache, tokens, call>>

(* apiUserPassword, and apiUserUpdate with a password. *)
SetPassword(n, p) ==
  /\ acct[n] # None /\ salts < MaxSalt
  /\ salts' = salts + 1
  /\ Commit([acct EXCEPT ![n].hash = [pw |-> p, salt |-> salts'], ![n].epoch = @ + 1])
  /\ UNCHANGED lives

(* The other fields of apiUserUpdate that matter here. *)
SetStatus(n, status) ==
  /\ acct[n] # None
  /\ Commit([acct EXCEPT ![n].status = status])
  /\ UNCHANGED <<salts, lives>>

(* apiUserDelete. *)
Delete(n) ==
  /\ acct[n] # None
  /\ Commit([acct EXCEPT ![n] = None])
  /\ UNCHANGED <<salts, lives>>

(* apiUsers, POST: a new account starts at epoch 0. *)
Create(n, p) ==
  /\ acct[n] = None /\ salts < MaxSalt /\ lives < MaxLife
  /\ salts' = salts + 1 /\ lives' = lives + 1
  /\ Commit([acct EXCEPT ![n] = [hash |-> [pw |-> p, salt |-> salts'], epoch |-> 0,
                                 status |-> "admin", life |-> lives']])

(* apiImport of a snapshot with the one account n: it comes back with a hash and
   an epoch of an earlier day.  It is a life of its own: what happened since is
   forgotten with it. *)
Import(n, h, e) ==
  /\ lives < MaxLife /\ h.salt <= salts /\ e < h.salt
  /\ lives' = lives + 1
  /\ Commit([m \in Names |-> IF m # n THEN None
                 ELSE [hash |-> h, epoch |-> e, status |-> "admin", life |-> lives']])
  /\ UNCHANGED salts

(* A restart makes a new session key (migrate), and forgets the cache and the
   calls in flight. *)
Restart ==
  /\ key < MaxKey
  /\ key' = key + 1
  /\ cache' = << >>
  /\ call' = [c \in Calls |-> None]
  /\ UNCHANGED <<acct, tokens, salts, lives>>

Init ==
  /\ \E n \in Names, p \in Passwords :
       acct = [m \in Names |-> IF m # n THEN None
                 ELSE [hash |-> [pw |-> p, salt |-> 1], epoch |-> 0,
                       status |-> "admin", life |-> 1]]
  /\ key = 1 /\ cache = << >> /\ tokens = {} /\ salts = 1 /\ lives = 1
  /\ call = [c \in Calls |-> None]

Next ==
  \/ \E c \in Calls : \/ \E n \in Names, p \in Passwords : Lookup(c, n, p)
                      \/ Equalize(c) \/ CacheHit(c) \/ CacheMiss(c)
                      \/ Derive(c) \/ Authenticated(c) \/ Issue(c)
  \/ \E n \in Names : \/ \E p \in Passwords : SetPassword(n, p) \/ Create(n, p)
                      \/ \E s \in Status : SetStatus(n, s)
                      \/ \E h \in Hash, e \in 0 .. MaxSalt : Import(n, h, e)
                      \/ Delete(n)
  \/ Restart

Spec == Init /\ [][Next]_vars
-----------------------------------------------------------------------------
(* Types of the state. *)
TypeOK ==
  /\ key \in 1 .. MaxKey
  /\ acct \in [Names -> Account \cup {None}]
  /\ DOMAIN cache \subseteq (Hash \cup {Dummy}) \X Passwords
  /\ \A k \in DOMAIN cache : cache[k] \in BOOLEAN
  /\ tokens \subseteq Token
  /\ call \in [Calls -> Call \cup {None}]
  /\ salts \in 1 .. MaxSalt /\ lives \in 1 .. MaxLife

(* "changing a password immediately invalidates all previously issued sessions"
   (User.TokenEpoch): during one life of an account, a session that is accepted
   was opened with the password the account has now, even if the login was in
   flight when the password changed. *)
SessionsFollowPassword ==
  \A t \in tokens :
    SessionValid(t) /\ acct[t.name].life = t.life => acct[t.name].hash = t.hash

(* Through hits, misses, expiry, pruning, password changes in flight and
   accounts that are replaced: a call is accepted exactly if its password is
   the one of the account as the call found it. *)
BasicExact ==
  \A c \in Calls :
    /\ At(c, "verified") => call[c].user # None /\ VerifyPassword(call[c].user.hash, call[c].pw)
    /\ At(c, "equalize") /\ call[c].user # None => ~VerifyPassword(call[c].user.hash, call[c].pw)

(* "the map holds at most authCacheMax (hash, password) keys": the size is
   tested in the section that fills the cache, not in the one that missed.  (The
   state is well typed, too.) *)
CacheBounded == TypeOK /\ Cardinality(DOMAIN cache) <= CacheMax
=============================================================================
