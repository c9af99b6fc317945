---------------------------- MODULE AuthProofs -----------------------------
(***************************************************************************)
(* Proofs about Auth, for any names, passwords and calls and any bounds.   *)
(* A cache entry is a fact about its key; a copy of an account, in a call  *)
(* or in a token, is never ahead of the account it was taken from.         *)
(***************************************************************************)
EXTENDS Auth, FiniteSetTheorems, TLAPS

(* An entry says of its hash and password what the key derivation would. *)
CacheRight == \A k \in DOMAIN cache : cache[k] = VerifyPassword(k[1], k[2])

CacheFits == IsFiniteSet(DOMAIN cache) /\ Cardinality(DOMAIN cache) <= CacheMax

(* x was copied from the account n: while that account lives, its epoch has not
   gone back, and as long as the epoch is the same, so is the hash. *)
CopyOf(x, n) ==
  /\ x.life <= lives
  /\ acct[n] # None /\ acct[n].life = x.life =>
       x.epoch <= acct[n].epoch /\ (x.epoch = acct[n].epoch => x.hash = acct[n].hash)

AccountsLive == \A n \in Names : acct[n] # None => acct[n].life <= lives
CallsCopy == \A c \in Calls : call[c] # None /\ call[c].user # None => CopyOf(call[c].user, call[c].name)
TokensCopy == \A t \in tokens : CopyOf(t, t.name)

IInv == /\ TypeOK /\ CacheRight /\ CacheFits /\ BasicExact
        /\ AccountsLive /\ CallsCopy /\ TokensCopy
-----------------------------------------------------------------------------
(* The bounds of a run are numbers, and None is nothing else. *)
LEMMA Bounds ==
  /\ CacheMax \in Nat /\ 1 \in 1 .. MaxSalt /\ 1 \in 1 .. MaxLife /\ 1 \in 1 .. MaxKey
  /\ MaxSalt \in Nat /\ MaxLife \in Nat /\ MaxKey \in Nat
  /\ None \notin Account /\ None \notin Call /\ None \notin Passwords
BY AuthAssumption, NoneAssumption DEF AuthAssumption, NoneAssumption

(* What of the invariant is about a call alone. *)
CallOK(x) ==
  /\ x.at = "verified" => x.user # None /\ VerifyPassword(x.user.hash, x.pw)
  /\ x.at = "equalize" /\ x.user # None => ~VerifyPassword(x.user.hash, x.pw)
  /\ x.user # None => CopyOf(x.user, x.name)

(* A call that moves on leaves the accounts, the key and the other calls alone. *)
LEMMA CallStep ==
  ASSUME IInv, UNCHANGED admin, NEW c \in Calls, NEW x \in Call \cup {None},
         call' = [call EXCEPT ![c] = x], x # None => CallOK(x)
  PROVE  /\ call' \in [Calls -> Call \cup {None}]
         /\ BasicExact' /\ AccountsLive' /\ CallsCopy'
<1>1. call \in [Calls -> Call \cup {None}] /\ call'[c] = x /\ \A d \in Calls \ {c} : call'[d] = call[d]
  BY DEF IInv, TypeOK
<1>2. call' \in [Calls -> Call \cup {None}]
  BY <1>1
<1>3. BasicExact'
  BY <1>1 DEF IInv, BasicExact, At, CallOK
<1>4. AccountsLive'
  BY DEF IInv, AccountsLive, admin
<1>5. \A y, n : CopyOf(y, n) => CopyOf(y, n)'
  BY DEF CopyOf, admin
<1>6. CallsCopy'
  BY <1>1, <1>5 DEF IInv, CallsCopy, CallOK
<1>7. QED
  BY <1>2, <1>3, <1>4, <1>6

(* A call that moves on and leaves the cache and the tokens alone, too. *)
LEMMA QuietStep ==
  ASSUME IInv, UNCHANGED <<admin, cache, tokens>>, NEW c \in Calls, NEW x \in Call \cup {None},
         call' = [call EXCEPT ![c] = x], x # None => CallOK(x)
  PROVE  IInv'
<1>1. /\ call' \in [Calls -> Call \cup {None}]
      /\ BasicExact' /\ AccountsLive' /\ CallsCopy'
  BY CallStep
<1>2. TypeOK'
  BY <1>1 DEF IInv, TypeOK, admin
<1>3. CacheRight' /\ CacheFits' /\ TokensCopy'
  BY DEF IInv, CacheRight, CacheFits, TokensCopy, CopyOf, admin
<1>4. QED
  BY <1>1, <1>2, <1>3 DEF IInv

(* The call of c, as the steps use it. *)
LEMMA CallFacts ==
  ASSUME IInv, NEW c \in Calls, call[c] # None
  PROVE  /\ call[c] \in Call /\ CallOK(call[c])
         /\ call[c].user # None => call[c].user.hash \in Hash
         /\ CacheKey(c) \in (Hash \cup {Dummy}) \X Passwords
         /\ VerifyPassword(HashOf(c), call[c].pw) \in BOOLEAN
<1>1. call[c] \in Call
  BY DEF IInv, TypeOK
<1>2. CallOK(call[c])
  BY DEF IInv, BasicExact, CallsCopy, CallOK, At
<1>3. call[c].user # None => call[c].user.hash \in Hash
  BY <1>1 DEF Call, Account
<1>4. CacheKey(c) \in (Hash \cup {Dummy}) \X Passwords
  BY <1>1, <1>3 DEF CacheKey, HashOf, Call
<1>5. QED
  BY <1>1, <1>2, <1>3, <1>4 DEF VerifyPassword

(* A verification that answers ok, rightly, takes the call to an OK place. *)
LEMMA ConcludeStep ==
  ASSUME IInv, NEW c \in Calls, call[c] # None, NEW ok \in BOOLEAN,
         ok = VerifyPassword(HashOf(c), call[c].pw), Conclude(c, ok)
  PROVE  \E x \in Call \cup {None} : call' = [call EXCEPT ![c] = x] /\ (x # None => CallOK(x))
<1>0. call \in [Calls -> Call \cup {None}] /\ call[c] \in Call /\ CallOK(call[c])
  BY CallFacts DEF IInv, TypeOK
<1>1. CASE call[c].user = None
  BY <1>1 DEF Conclude, Return
<1>2. CASE call[c].user # None
  <2> DEFINE x == [call[c] EXCEPT !.at = IF ok THEN "verified" ELSE "equalize"]
  <2>1. x \in Call /\ x.user = call[c].user /\ x.pw = call[c].pw /\ x.name = call[c].name
        /\ x.at = IF ok THEN "verified" ELSE "equalize"
    BY <1>0 DEF Call
  <2>2. ok = VerifyPassword(x.user.hash, x.pw)
    BY <1>2, <2>1 DEF HashOf
  <2>3. CallOK(x)
    BY <1>0, <1>2, <2>1, <2>2 DEF CallOK
  <2>4. call' = [call EXCEPT ![c] = x]
    BY <1>0, <1>2 DEF Conclude, Goto
  <2> HIDE DEF x
  <2>5. QED
    BY <2>1, <2>3, <2>4
<1>3. QED
  BY <1>1, <1>2
-----------------------------------------------------------------------------
(* Filling the cache with a right answer keeps it right and within its size,
   whatever has been pruned. *)
LEMMA RememberStep ==
  ASSUME IInv, NEW c \in Calls, call[c] # None, NEW ok \in BOOLEAN,
         ok = VerifyPassword(HashOf(c), call[c].pw), Remember(c, ok)
  PROVE  /\ DOMAIN cache' \subseteq (Hash \cup {Dummy}) \X Passwords
         /\ \A k \in DOMAIN cache' : cache'[k] \in BOOLEAN
         /\ CacheRight' /\ CacheFits'
<1> DEFINE key0 == CacheKey(c)
<1>0. /\ key0 \in (Hash \cup {Dummy}) \X Passwords
      /\ key0[1] = HashOf(c) /\ key0[2] = call[c].pw
  BY CallFacts DEF CacheKey
<1>1. PICK S \in Prunings :
        cache' = IF Cardinality(S) >= CacheMax THEN [k \in S |-> cache[k]]
                 ELSE Put([k \in S |-> cache[k]], key0, ok)
  BY DEF Remember
<1>2. S \subseteq DOMAIN cache
  BY <1>1 DEF Prunings
<1>3. IsFiniteSet(S) /\ Cardinality(S) \in Nat /\ Cardinality(S) <= CacheMax
  <2>1. IsFiniteSet(S) /\ Cardinality(S) <= Cardinality(DOMAIN cache)
    BY <1>2, FS_Subset DEF IInv, CacheFits
  <2>2. Cardinality(S) \in Nat /\ Cardinality(DOMAIN cache) \in Nat
    BY <2>1, FS_CardinalityType DEF IInv, CacheFits
  <2>3. QED
    BY <2>1, <2>2, Bounds DEF IInv, CacheFits
<1>4. /\ DOMAIN cache \subseteq (Hash \cup {Dummy}) \X Passwords
      /\ \A k \in DOMAIN cache : cache[k] \in BOOLEAN /\ cache[k] = VerifyPassword(k[1], k[2])
  BY DEF IInv, TypeOK, CacheRight
<1> HIDE DEF key0
<1>5. CASE Cardinality(S) >= CacheMax
  <2>1. DOMAIN cache' = S /\ \A k \in S : cache'[k] = cache[k]
    BY <1>1, <1>5
  <2>2. QED
    BY <1>2, <1>3, <1>4, <2>1 DEF CacheRight, CacheFits
<1>6. CASE ~(Cardinality(S) >= CacheMax)
  <2>1. /\ DOMAIN cache' = S \cup {key0}
        /\ \A k \in S \cup {key0} : cache'[k] = IF k = key0 THEN ok ELSE cache[k]
    BY <1>1, <1>6 DEF Put
  <2>2. IsFiniteSet(S \cup {key0}) /\ Cardinality(S \cup {key0}) <= Cardinality(S) + 1
    BY <1>3, FS_AddElement
  <2>3. Cardinality(S \cup {key0}) <= CacheMax
    <3>1. Cardinality(S \cup {key0}) \in Nat
      BY <2>2, FS_CardinalityType
    <3>2. QED
      BY <1>3, <1>6, <2>2, <3>1, Bounds
  <2>4. ok = VerifyPassword(key0[1], key0[2])
    BY <1>0
  <2>5. \A k \in DOMAIN cache' : cache'[k] \in BOOLEAN /\ cache'[k] = VerifyPassword(k[1], k[2])
    BY <1>2, <1>4, <2>1, <2>4
  <2>6. DOMAIN cache' \subseteq (Hash \cup {Dummy}) \X Passwords
    BY <1>0, <1>2, <1>4, <2>1
  <2>7. QED
    BY <2>1, <2>2, <2>3, <2>5, <2>6 DEF CacheRight, CacheFits
<1>7. QED
  BY <1>5, <1>6

(* The steps of a call. *)
LEMMA CallSteps ==
  ASSUME IInv, NEW c \in Calls,
         \/ \E n \in Names, p \in Passwords : Lookup(c, n, p)
         \/ Equalize(c) \/ CacheHit(c) \/ CacheMiss(c) \/ Derive(c) \/ Authenticated(c)
  PROVE  IInv'
<1>0. call \in [Calls -> Call \cup {None}]
  BY DEF IInv, TypeOK
<1>1. ASSUME NEW n \in Names, NEW p \in Passwords, Lookup(c, n, p) PROVE IInv'
  <2> DEFINE x == [at |-> IF Active(n) THEN "cache" ELSE "equalize", name |-> n, pw |-> p,
                   user |-> IF Active(n) THEN acct[n] ELSE None]
  <2>1. Active(n) => acct[n] \in Account
    BY DEF IInv, TypeOK, Active
  <2>2. x \in Call
    BY <2>1 DEF Call
  <2>3. Active(n) => CopyOf(acct[n], n)
    BY <2>1 DEF IInv, AccountsLive, CopyOf, Account, Active
  <2>4. CallOK(x)
    BY <2>3 DEF CallOK
  <2>5. QED
    BY <1>1, <2>2, <2>4, QuietStep DEF Lookup
<1>2. CASE Equalize(c)
  <2>1. CASE Active(call[c].name)
    BY <1>2, <2>1, QuietStep DEF Equalize, Return
  <2>2. CASE ~Active(call[c].name)
    <3> DEFINE x == [call[c] EXCEPT !.at = "cache", !.user = None]
    <3>1. call[c] \in Call
      BY <1>2, CallFacts DEF Equalize, At
    <3>2. x \in Call /\ x.at = "cache" /\ x.user = None
      BY <3>1 DEF Call
    <3>3. CallOK(x)
      BY <3>2 DEF CallOK
    <3>4. call' = [call EXCEPT ![c] = x]
      BY <1>0, <1>2, <2>2 DEF Equalize
    <3> HIDE DEF x
    <3>5. QED
      BY <1>2, <3>2, <3>3, <3>4, QuietStep DEF Equalize
  <2>3. QED
    BY <2>1, <2>2
<1>3. CASE CacheHit(c)
  <2>1. call[c] # None /\ CacheKey(c) \in DOMAIN cache /\ Conclude(c, cache[CacheKey(c)])
        /\ UNCHANGED <<admin, cache, tokens>>
    BY <1>3 DEF CacheHit, At
  <2>2. cache[CacheKey(c)] \in BOOLEAN
        /\ cache[CacheKey(c)] = VerifyPassword(HashOf(c), call[c].pw)
    BY <2>1, CallFacts DEF IInv, TypeOK, CacheRight, CacheKey
  <2>3. PICK x \in Call \cup {None} : call' = [call EXCEPT ![c] = x] /\ (x # None => CallOK(x))
    BY <2>1, <2>2, ConcludeStep
  <2>4. QED
    BY <2>1, <2>3, QuietStep
<1>4. CASE CacheMiss(c)
  <2> DEFINE x == [call[c] EXCEPT !.at = "kdf"]
  <2>1. call[c] \in Call /\ CallOK(call[c])
    BY <1>4, CallFacts DEF CacheMiss, At
  <2>2. x \in Call /\ x.at = "kdf" /\ x.user = call[c].user /\ x.name = call[c].name
    BY <2>1 DEF Call
  <2>3. CallOK(x)
    BY <2>1, <2>2 DEF CallOK
  <2>4. call' = [call EXCEPT ![c] = x]
    BY <1>0, <1>4 DEF CacheMiss, Goto
  <2> HIDE DEF x
  <2>5. QED
    BY <1>4, <2>2, <2>3, <2>4, QuietStep DEF CacheMiss
<1>5. CASE Derive(c)
  <2> DEFINE ok == VerifyPassword(HashOf(c), call[c].pw)
  <2>1. call[c] # None /\ Remember(c, ok) /\ Conclude(c, ok) /\ UNCHANGED <<admin, tokens>>
    BY <1>5 DEF Derive, At
  <2>2. ok \in BOOLEAN
    BY DEF VerifyPassword
  <2> HIDE DEF ok
  <2>3. ok = VerifyPassword(HashOf(c), call[c].pw)
    BY DEF ok
  <2>4. /\ DOMAIN cache' \subseteq (Hash \cup {Dummy}) \X Passwords
        /\ \A k \in DOMAIN cache' : cache'[k] \in BOOLEAN
        /\ CacheRight' /\ CacheFits'
    BY <2>1, <2>2, <2>3, RememberStep
  <2>5. PICK x \in Call \cup {None} : call' = [call EXCEPT ![c] = x] /\ (x # None => CallOK(x))
    BY <2>1, <2>2, <2>3, ConcludeStep
  <2>6. /\ call' \in [Calls -> Call \cup {None}]
        /\ BasicExact' /\ AccountsLive' /\ CallsCopy'
    BY <2>1, <2>5, CallStep
  <2>7. TypeOK'
    BY <2>1, <2>4, <2>6 DEF IInv, TypeOK, admin
  <2>8. TokensCopy'
    BY <2>1 DEF IInv, TokensCopy, CopyOf, admin
  <2>9. QED
    BY <2>4, <2>6, <2>7, <2>8 DEF IInv
<1>6. CASE Authenticated(c)
  BY <1>6, QuietStep DEF Authenticated, Return
<1>7. QED
  BY <1>1, <1>2, <1>3, <1>4, <1>5, <1>6

(* A login that goes on to issueToken: the token copies what the call copied. *)
LEMMA IssueStep ==
  ASSUME IInv, NEW c \in Calls, Issue(c)
  PROVE  IInv'
<1> DEFINE u == call[c].user
           t == [name |-> call[c].name, epoch |-> u.epoch, key |-> key, hash |-> u.hash, life |-> u.life]
<1>1. /\ call[c] # None /\ call[c].at = "verified" /\ tokens' = tokens \cup {t}
      /\ call' = [call EXCEPT ![c] = None] /\ UNCHANGED <<admin, cache>>
  BY DEF Issue, At, issueToken, Return
<1>2. call[c] \in Call /\ u # None /\ CopyOf(u, call[c].name)
  BY <1>1, CallFacts DEF CallOK
<1>3. u \in Account /\ call[c].name \in Names
  BY <1>2 DEF Call
<1>4. t \in Token
  BY <1>3 DEF IInv, TypeOK, Account, Token
<1>5. CopyOf(t, t.name)
  BY <1>2 DEF CopyOf
<1> HIDE DEF t, u
<1>6. /\ call' \in [Calls -> Call \cup {None}]
      /\ BasicExact' /\ AccountsLive' /\ CallsCopy'
  BY <1>1, CallStep
<1>7. TypeOK'
  BY <1>1, <1>4, <1>6 DEF IInv, TypeOK, admin
<1>8. CacheRight' /\ CacheFits'
  BY <1>1 DEF IInv, CacheRight, CacheFits
<1>9. TokensCopy'
  BY <1>1, <1>5 DEF IInv, TokensCopy, CopyOf, admin
<1>10. QED
  BY <1>6, <1>7, <1>8, <1>9 DEF IInv
-----------------------------------------------------------------------------
(* A change of the accounts keeps the invariant if every copy stays one. *)
LEMMA AccountsStep ==
  ASSUME IInv, UNCHANGED <<key, cache, tokens, call>>,
         acct' \in [Names -> Account \cup {None}],
         salts' \in 1 .. MaxSalt, lives' \in 1 .. MaxLife,
         AccountsLive',
         \A n \in Names, x \in Account \cup Token : CopyOf(x, n) => CopyOf(x, n)'
  PROVE  IInv'
<1>1. TypeOK'
  BY DEF IInv, TypeOK
<1>2. CacheRight' /\ CacheFits' /\ BasicExact'
  BY DEF IInv, CacheRight, CacheFits, BasicExact, At
<1>3. CallsCopy'
  <2>1. \A c \in Calls : call[c] # None /\ call[c].user # None =>
          call[c].user \in Account /\ call[c].name \in Names
    BY DEF IInv, TypeOK, Call
  <2>2. QED
    BY <2>1 DEF IInv, CallsCopy
<1>4. TokensCopy'
  <2>1. \A t \in tokens : t \in Token /\ t.name \in Names
    BY DEF IInv, TypeOK, Token
  <2>2. QED
    BY <2>1 DEF IInv, TokensCopy
<1>5. QED
  BY <1>1, <1>2, <1>3, <1>4 DEF IInv

(* A new password raises the epoch: no copy of the old one catches up. *)
LEMMA SetPasswordStep ==
  ASSUME IInv, NEW n \in Names, NEW p \in Passwords, SetPassword(n, p)
  PROVE  IInv'
<1> DEFINE h == [pw |-> p, salt |-> salts']
           e == acct[n].epoch + 1
           a == [acct[n] EXCEPT !.hash = h, !.epoch = e]
<1>1. /\ acct \in [Names -> Account \cup {None}] /\ acct[n] \in Account
      /\ salts \in 1 .. MaxSalt /\ lives \in 1 .. MaxLife
  BY DEF IInv, TypeOK, SetPassword
<1>2. /\ salts' \in 1 .. MaxSalt /\ lives' = lives /\ UNCHANGED <<key, cache, tokens, call>>
      /\ acct' = [acct EXCEPT ![n] = a]
  <2>1. salts' \in 1 .. MaxSalt /\ lives' = lives /\ UNCHANGED <<key, cache, tokens, call>>
    BY <1>1, Bounds DEF SetPassword, Commit
  <2>2. acct' = [acct EXCEPT ![n].hash = h, ![n].epoch = e]
    BY DEF SetPassword, Commit
  <2> HIDE DEF h, e
  <2>3. acct' = [acct EXCEPT ![n] = a]
    BY <1>1, <2>2
  <2>4. QED
    BY <2>1, <2>3
<1>3. a \in Account /\ a.life = acct[n].life /\ a.epoch = acct[n].epoch + 1 /\ acct[n].epoch \in Nat
  <2>1. acct[n].epoch \in Nat /\ e \in Nat /\ h \in Hash
    BY <1>1, <1>2 DEF Account, Hash
  <2>2. e = acct[n].epoch + 1
    OBVIOUS
  <2> HIDE DEF h, e
  <2>3. a \in Account /\ a.life = acct[n].life /\ a.epoch = e
    BY <1>1, <2>1 DEF Account
  <2>4. QED
    BY <2>1, <2>2, <2>3
<1> HIDE DEF a
<1>4. acct' \in [Names -> Account \cup {None}] /\ acct'[n] = a /\ \A m \in Names \ {n} : acct'[m] = acct[m]
  BY <1>1, <1>2, <1>3
<1>5. AccountsLive'
  BY <1>1, <1>2, <1>3, <1>4, Bounds DEF IInv, AccountsLive
<1>6. ASSUME NEW m \in Names, NEW x \in Account \cup Token, CopyOf(x, m) PROVE CopyOf(x, m)'
  <2>1. x.epoch \in Nat
    BY DEF Account, Token
  <2>2. CASE m = n
    BY <1>1, <1>2, <1>3, <1>4, <1>6, <2>1, <2>2, Bounds DEF CopyOf
  <2>3. CASE m # n
    BY <1>2, <1>4, <1>6, <2>3 DEF CopyOf
  <2>4. QED
    BY <2>2, <2>3
<1>7. QED
  BY <1>1, <1>2, <1>4, <1>5, <1>6, AccountsStep

(* Enabling, disabling and changing the role touch neither epoch nor hash. *)
LEMMA SetStatusStep ==
  ASSUME IInv, NEW n \in Names, NEW st \in Status, SetStatus(n, st)
  PROVE  IInv'
<1> DEFINE a == [acct[n] EXCEPT !.status = st]
<1>1. /\ acct \in [Names -> Account \cup {None}] /\ acct[n] \in Account
      /\ salts' \in 1 .. MaxSalt /\ lives' = lives /\ lives' \in 1 .. MaxLife
      /\ UNCHANGED <<key, cache, tokens, call>> /\ acct' = [acct EXCEPT ![n] = a]
  BY DEF IInv, TypeOK, SetStatus, Commit
<1>2. a \in Account /\ a.life = acct[n].life /\ a.epoch = acct[n].epoch /\ a.hash = acct[n].hash
  BY <1>1 DEF Account
<1> HIDE DEF a
<1>3. acct' \in [Names -> Account \cup {None}] /\ acct'[n] = a /\ \A m \in Names \ {n} : acct'[m] = acct[m]
  BY <1>1, <1>2
<1>4. AccountsLive' /\ \A m \in Names, x \in Account \cup Token : CopyOf(x, m) => CopyOf(x, m)'
  BY <1>1, <1>2, <1>3, Bounds DEF IInv, AccountsLive, CopyOf
<1>5. QED
  BY <1>1, <1>3, <1>4, AccountsStep

(* Accounts that go, and accounts of a life that no copy has seen yet. *)
LEMMA ReplaceStep ==
  ASSUME IInv, UNCHANGED <<key, cache, tokens, call>>,
         acct' \in [Names -> Account \cup {None}],
         salts' \in 1 .. MaxSalt, lives' \in 1 .. MaxLife, lives <= lives',
         \A n \in Names : \/ acct'[n] = acct[n] \/ acct'[n] = None
                          \/ acct'[n].life = lives' /\ lives' = lives + 1
  PROVE  IInv'
<1>1. lives \in Nat /\ lives' \in Nat
  BY Bounds DEF IInv, TypeOK
<1>2. \A n \in Names : acct[n] # None => acct[n].life \in Nat /\ acct[n].life <= lives
  BY Bounds DEF IInv, TypeOK, AccountsLive, Account
<1>3. AccountsLive'
  BY <1>1, <1>2 DEF AccountsLive
<1>4. ASSUME NEW n \in Names, NEW x \in Account \cup Token, CopyOf(x, n) PROVE CopyOf(x, n)'
  <2>1. x.life \in Nat
    BY Bounds DEF Account, Token
  <2>2. QED
    BY <1>1, <1>4, <2>1 DEF CopyOf
<1>5. QED
  BY <1>3, <1>4, AccountsStep

(* apiUserDelete, apiUsers and apiImport. *)
LEMMA ReplaceSteps ==
  ASSUME IInv, NEW n \in Names,
         \/ \E p \in Passwords : Create(n, p)
         \/ \E h \in Hash, e \in 0 .. MaxSalt : Import(n, h, e)
         \/ Delete(n)
  PROVE  IInv'
<1>0. /\ acct \in [Names -> Account \cup {None}]
      /\ salts \in 1 .. MaxSalt /\ lives \in 1 .. MaxLife /\ lives <= lives
  BY Bounds DEF IInv, TypeOK
<1>1. ASSUME NEW p \in Passwords, Create(n, p) PROVE IInv'
  <2> DEFINE a == [hash |-> [pw |-> p, salt |-> salts'], epoch |-> 0, status |-> "admin", life |-> lives']
  <2>1. /\ salts' \in 1 .. MaxSalt /\ lives' \in 1 .. MaxLife /\ lives' = lives + 1 /\ lives <= lives'
        /\ UNCHANGED <<key, cache, tokens, call>> /\ acct' = [acct EXCEPT ![n] = a]
    BY <1>0, <1>1, Bounds DEF Create, Commit
  <2>2. a \in Account /\ a.life = lives'
    BY <2>1 DEF Account, Hash, Status
  <2> HIDE DEF a
  <2>3. acct' \in [Names -> Account \cup {None}] /\ acct'[n] = a /\ \A m \in Names \ {n} : acct'[m] = acct[m]
    BY <1>0, <2>1, <2>2
  <2>4. QED
    BY <2>1, <2>2, <2>3, ReplaceStep
<1>2. ASSUME NEW h \in Hash, NEW e \in 0 .. MaxSalt, Import(n, h, e) PROVE IInv'
  <2> DEFINE a == [hash |-> h, epoch |-> e, status |-> "admin", life |-> lives']
  <2>1. /\ salts' = salts /\ lives' \in 1 .. MaxLife /\ lives' = lives + 1 /\ lives <= lives'
        /\ UNCHANGED <<key, cache, tokens, call>> /\ acct' = [m \in Names |-> IF m # n THEN None ELSE a]
    BY <1>0, <1>2, Bounds DEF Import, Commit
  <2>2. a \in Account /\ a.life = lives'
    BY <2>1, Bounds DEF Account, Status
  <2> HIDE DEF a
  <2>3. acct' \in [Names -> Account \cup {None}] /\ acct'[n] = a /\ \A m \in Names \ {n} : acct'[m] = None
    BY <2>1, <2>2
  <2>4. QED
    BY <1>0, <2>1, <2>2, <2>3, ReplaceStep
<1>3. CASE Delete(n)
  <2>1. /\ salts' = salts /\ lives' = lives /\ UNCHANGED <<key, cache, tokens, call>>
        /\ acct' = [acct EXCEPT ![n] = None]
    BY <1>3 DEF Delete, Commit
  <2>2. acct' \in [Names -> Account \cup {None}] /\ acct'[n] = None /\ \A m \in Names \ {n} : acct'[m] = acct[m]
    BY <1>0, <2>1
  <2>3. QED
    BY <1>0, <2>1, <2>2, ReplaceStep
<1>4. QED
  BY <1>1, <1>2, <1>3

(* A restart forgets the cache and the calls, and keeps accounts and tokens. *)
LEMMA RestartStep ==
  ASSUME IInv, Restart
  PROVE  IInv'
<1>1. /\ key' \in 1 .. MaxKey /\ cache' = << >> /\ call' = [c \in Calls |-> None]
      /\ UNCHANGED <<acct, tokens, salts, lives>>
  BY Bounds DEF IInv, TypeOK, Restart
<1>2. DOMAIN cache' = {}
  BY <1>1
<1>3. IsFiniteSet(DOMAIN cache') /\ Cardinality(DOMAIN cache') <= CacheMax
  BY <1>2, FS_EmptySet, Bounds
<1>4. TypeOK'
  BY <1>1, <1>2 DEF IInv, TypeOK
<1>5. CacheRight' /\ CacheFits' /\ BasicExact'
  BY <1>1, <1>2, <1>3 DEF CacheRight, CacheFits, BasicExact, At
<1>6. AccountsLive' /\ CallsCopy' /\ TokensCopy'
  BY <1>1 DEF IInv, AccountsLive, CallsCopy, TokensCopy, CopyOf
<1>7. QED
  BY <1>4, <1>5, <1>6 DEF IInv
-----------------------------------------------------------------------------
(* The start: one account, an empty cache, no call and no token. *)
LEMMA Initially == Init => IInv
<1> SUFFICES ASSUME Init PROVE IInv
  OBVIOUS
<1>1. PICK n \in Names, p \in Passwords :
        acct = [m \in Names |-> IF m # n THEN None
                  ELSE [hash |-> [pw |-> p, salt |-> 1], epoch |-> 0, status |-> "admin", life |-> 1]]
  BY DEF Init
<1>2. acct \in [Names -> Account \cup {None}] /\ \A m \in Names : acct[m] # None => acct[m].life = 1
  BY <1>1, Bounds DEF Account, Hash, Status
<1>3. DOMAIN cache = {} /\ IsFiniteSet(DOMAIN cache) /\ Cardinality(DOMAIN cache) <= CacheMax
  BY FS_EmptySet, Bounds DEF Init
<1>4. TypeOK
  BY <1>2, <1>3, Bounds DEF Init, TypeOK
<1>5. CacheRight /\ CacheFits /\ BasicExact
  BY <1>3 DEF Init, CacheRight, CacheFits, BasicExact, At
<1>6. AccountsLive /\ CallsCopy /\ TokensCopy
  BY <1>2 DEF Init, AccountsLive, CallsCopy, TokensCopy
<1>7. QED
  BY <1>4, <1>5, <1>6 DEF IInv

(* Every step keeps the invariant. *)
LEMMA Inductive == IInv /\ [Next]_vars => IInv'
<1> SUFFICES ASSUME IInv, [Next]_vars PROVE IInv'
  OBVIOUS
<1>1. CASE UNCHANGED vars
  BY <1>1 DEF vars, IInv, TypeOK, CacheRight, CacheFits, BasicExact, At, AccountsLive, CallsCopy,
              TokensCopy, CopyOf
<1>2. QED
  BY <1>1, CallSteps, IssueStep, SetPasswordStep, SetStatusStep, ReplaceSteps, RestartStep DEF Next

(* The inductive invariant holds in every reachable state. *)
LEMMA Always == Spec => []IInv
<1>1. QED
  BY Initially, Inductive, PTL DEF Spec

(* For any number of calls and accounts: verifyCached never lets a call in with
   another password than that of the account it looked up, and never refuses the
   right one, whatever the cache has seen, pruned or let expire. *)
THEOREM CallsAreJudgedExactly == Spec => []BasicExact
<1>1. IInv => BasicExact
  BY DEF IInv
<1>2. QED
  BY <1>1, Always, PTL

(* The cache never holds more than authCacheMax entries, however many calls ran
   their key derivation at once; and the state stays well typed. *)
THEOREM CacheStaysBounded == Spec => []CacheBounded
<1>1. IInv => CacheBounded
  BY DEF IInv, CacheFits, CacheBounded
<1>2. QED
  BY <1>1, Always, PTL

(* During one life of an account every accepted session was opened with the
   password the account has now, a login in flight during the change included. *)
THEOREM SessionsFollowThePassword == Spec => []SessionsFollowPassword
<1>1. IInv => SessionsFollowPassword
  BY DEF IInv, TokensCopy, CopyOf, SessionValid, SessionsFollowPassword
<1>2. QED
  BY <1>1, Always, PTL
=============================================================================
