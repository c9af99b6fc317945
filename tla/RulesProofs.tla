---------------------------- MODULE RulesProofs ----------------------------
(***************************************************************************)
(* Proofs about Rules.  The engine is always compiled from the             *)
(* configuration source; Mirrors says how source, memory and file hang     *)
(* together through saves that succeed, fail or are silent, and RecordsOK  *)
(* what a request under way has copied.                                    *)
(***************************************************************************)
EXTENDS Rules, TLAPS

(* The engine has been compiled from source; during an update that was saved
   memory and file have the new configuration; between updates, if the last save
   went well, all copies agree. *)
Mirrors ==
  /\ engine = Rebuild(source)
  /\ saving # NoConfig => mem = saving /\ disk = saving /\ ~failed
  /\ saving = NoConfig /\ ~failed => mem = disk /\ source = mem

(* A request's copy of its user comes from the configuration it read. *)
RecordsOK ==
  \A r \in Reqs : pc[r] = "authorized" =>
    IF rec[r].user = NoUser THEN rec[r].only = FALSE
    ELSE /\ read[r].users[rec[r].user] # NoUser
         /\ rec[r].only = read[r].users[rec[r].user].only

IInv == TypeOK /\ Mirrors /\ RecordsOK
-----------------------------------------------------------------------------
(* Compiling keeps the mode and drops the blank patterns. *)
LEMMA CompiledSet ==
  ASSUME NEW s \in RuleSet
  PROVE  /\ Compiled(s) \in CompiledRuleSet
         /\ Compiled(s).only = s.only
         /\ Compiled(s).white = s.white \ Blanks
         /\ Compiled(s).black = s.black \ Blanks
BY DEF Compiled, compileList, RuleSet, CompiledRuleSet

(* No set of rules, compiled or not, is the missing user. *)
LEMMA RuleSetIsUser ==
  /\ NoUser \notin RuleSet
  /\ CompiledRuleSet \subseteq RuleSet
BY RulesAssumption DEF RulesAssumption, RuleSet, CompiledRuleSet

(* What Rebuild puts where. *)
LEMMA Rebuilt ==
  ASSUME NEW c \in Config
  PROVE  /\ Rebuild(c) \in [global : CompiledRuleSet, users : [Users -> CompiledRuleSet \cup {NoUser}]]
         /\ Rebuild(c).global = Compiled(c.global)
         /\ \A u \in Users : Rebuild(c).users[u] =
              IF c.users[u] = NoUser THEN NoUser ELSE Compiled(c.users[u])
<1>1. c.global \in RuleSet /\ c.users \in [Users -> RuleSet \cup {NoUser}]
  BY DEF Config
<1>2. \A u \in Users : c.users[u] # NoUser => Compiled(c.users[u]) \in CompiledRuleSet
  BY <1>1, CompiledSet
<1>3. Compiled(c.global) \in CompiledRuleSet
  BY <1>1, CompiledSet
<1>4. QED
  BY <1>2, <1>3 DEF Rebuild

(* The initial configuration. *)
LEMMA DefaultConfig == Default \in Config
BY DEF Default, NoRules, Config, RuleSet
-----------------------------------------------------------------------------
(* The start: one configuration, compiled, and no request. *)
LEMMA Initially == Init => IInv
<1> SUFFICES ASSUME Init PROVE IInv
  OBVIOUS
<1>1. Default \in Config /\ NoConfig \notin Config
  BY DefaultConfig, RulesAssumption DEF RulesAssumption
<1>2. TypeOK
  BY <1>1, Rebuilt DEF Init, TypeOK
<1>3. Mirrors
  BY <1>1 DEF Init, Mirrors
<1>4. RecordsOK
  BY DEF Init, RecordsOK
<1>5. QED
  BY <1>2, <1>3, <1>4 DEF IInv

(* An update by any of the handlers: saved, or left in memory alone. *)
LEMMA UpdateStep ==
  ASSUME IInv, NEW c \in Config, Update(c)
  PROVE  IInv'
<1>1. TypeOK'
  BY DEF IInv, TypeOK, Update, requests
<1>2. Mirrors'
  BY RulesAssumption DEF IInv, Mirrors, Update, requests, RulesAssumption
<1>3. RecordsOK'
  BY DEF IInv, RecordsOK, Update, requests
<1>4. QED
  BY <1>1, <1>2, <1>3 DEF IInv

(* Every step keeps the invariant. *)
LEMMA Inductive == IInv /\ [Next]_vars => IInv'
<1> SUFFICES ASSUME IInv, [Next]_vars PROVE IInv'
  OBVIOUS
<1> USE DEF IInv
<1>0. /\ mem \in Config /\ disk \in Config /\ source \in Config
      /\ mem.global \in RuleSet /\ mem.users \in [Users -> RuleSet \cup {NoUser}]
      /\ GlobalBodies \subseteq RuleSet /\ UserBodies \subseteq RuleSet
  BY RulesAssumption DEF TypeOK, Config, RulesAssumption
<1>1. ASSUME NEW g \in GlobalBodies, PutGlobalRules(g) PROVE IInv'
  <2>1. [mem EXCEPT !.global = g] \in Config
    BY <1>0 DEF Config
  <2>2. QED
    BY <1>1, <2>1, UpdateStep DEF PutGlobalRules
<1>2. ASSUME NEW u \in Users, NEW b \in UserBodies, PutUser(u, b) PROVE IInv'
  <2>1. [mem EXCEPT !.users[u] = b] \in Config
    BY <1>0 DEF Config
  <2>2. QED
    BY <1>2, <2>1, UpdateStep DEF PutUser
<1>3. ASSUME NEW u \in Users, DeleteUser(u) PROVE IInv'
  <2>1. [mem EXCEPT !.users[u] = NoUser] \in Config
    BY <1>0 DEF Config
  <2>2. QED
    BY <1>3, <2>1, UpdateStep DEF DeleteUser
<1>4. ASSUME NEW g \in GlobalBodies, NEW us \in [Users -> UserBodies \cup {NoUser}], Import(g, us)
      PROVE  IInv'
  <2>1. [global |-> g, users |-> us] \in Config
    BY <1>0 DEF Config
  <2>2. QED
    BY <1>4, <2>1, UpdateStep DEF Import
<1>5. CASE Rewrite
  BY <1>0, <1>5, UpdateStep DEF Rewrite
<1>6. CASE Notify
  <2>1. saving \in Config /\ saving = mem /\ saving = disk /\ ~failed
    BY <1>6 DEF Notify, TypeOK, Mirrors
  <2>2. TypeOK'
    BY <1>6, <2>1, Rebuilt DEF Notify, TypeOK, requests
  <2>3. Mirrors'
    BY <1>6, <2>1 DEF Notify, Mirrors, requests
  <2>4. RecordsOK'
    BY <1>6 DEF Notify, RecordsOK, requests
  <2>5. QED
    BY <2>2, <2>3, <2>4
<1>7. CASE FlushStats
  BY <1>7 DEF FlushStats, TypeOK, Mirrors, RecordsOK, requests
<1>8. CASE Restart
  <2>1. TypeOK'
    BY <1>0, <1>8, Rebuilt DEF Restart, TypeOK
  <2>2. Mirrors'
    BY <1>8 DEF Restart, Mirrors
  <2>3. RecordsOK'
    BY <1>8 DEF Restart, RecordsOK
  <2>4. QED
    BY <2>1, <2>2, <2>3
<1>9. ASSUME NEW r \in Reqs, NEW u \in Users \cup {NoUser}, NEW h \in Hosts, Authorize(r, u, h)
      PROVE  IInv'
  <2>1. u # NoUser => u \in Users /\ mem.users[u] \in RuleSet
    BY <1>0, <1>9 DEF Authorize
  <2>2. (u # NoUser /\ mem.users[u].only) \in BOOLEAN
    BY <2>1 DEF RuleSet
  <2>3. TypeOK'
    BY <1>9, <2>2 DEF Authorize, TypeOK, store
  <2>4. Mirrors'
    BY <1>9 DEF Authorize, Mirrors, store
  <2>5. RecordsOK'
    BY <1>9, <2>1, <2>2 DEF Authorize, RecordsOK, TypeOK, RuleSet
  <2>6. QED
    BY <2>3, <2>4, <2>5
<1>10. ASSUME NEW r \in Reqs, CheckAccess(r) PROVE IInv'
  <2>1. Mirrors' /\ RecordsOK'
    BY <1>10 DEF CheckAccess, Mirrors, RecordsOK, TypeOK, store
  <2>2. Evaluate(rec[r].user, rec[r].only, host[r]) \in BOOLEAN
    BY DEF Evaluate
  <2>3. TypeOK'
    BY <1>10, <2>2 DEF CheckAccess, TypeOK, store
  <2>4. QED
    BY <2>1, <2>3
<1>11. CASE UNCHANGED vars
  BY <1>11 DEF vars, TypeOK, Mirrors, RecordsOK
<1>12. QED
  BY <1>1, <1>2, <1>3, <1>4, <1>5, <1>6, <1>7, <1>8, <1>9, <1>10, <1>11 DEF Next
-----------------------------------------------------------------------------
(* The rule sets that apply to a request: the global one, and the user's if the
   configuration has the user. *)
LEMMA SetsApplying ==
  ASSUME NEW c \in Config, NEW u \in Users \cup {NoUser}
  PROVE  /\ u = NoUser => RuleSetsFor(c, u) = {c.global}
         /\ u # NoUser /\ c.users[u] = NoUser => RuleSetsFor(c, u) = {c.global}
         /\ u # NoUser /\ c.users[u] # NoUser => RuleSetsFor(c, u) = {c.global, c.users[u]}
BY DEF RuleSetsFor

(* The entries of one rule set, or of two, without the blank ones. *)
LEMMA EntriesOfTwo ==
  ASSUME NEW s \in RuleSet, NEW t \in RuleSet
  PROVE  /\ Entries({s, t}, "white") = (s.white \cup t.white) \ Blanks
         /\ Entries({s, t}, "black") = (s.black \cup t.black) \ Blanks
BY DEF Entries, RuleSet

(* The lists of one rule set alone. *)
LEMMA EntriesOfOne ==
  ASSUME NEW s \in RuleSet
  PROVE  /\ Entries({s}, "white") = s.white \ Blanks
         /\ Entries({s}, "black") = s.black \ Blanks
BY DEF Entries, RuleSet

(* Evaluate for a request whose user the engine does not know, or that has none:
   the global lists alone decide. *)
LEMMA EvaluateGlobal ==
  ASSUME NEW c \in Config, engine = Rebuild(c), NEW u \in Users \cup {NoUser},
         NEW only \in BOOLEAN, NEW h \in Hosts, u # NoUser => c.users[u] = NoUser
  PROVE  Evaluate(u, only, h) = Permitted(c, u, h)
<1>1. c.global \in RuleSet
  BY DEF Config
<1>2. RuleSetsFor(c, u) = {c.global}
  BY SetsApplying
<1>3. /\ engine.global.only = c.global.only
      /\ engine.global.white = Entries({c.global}, "white")
      /\ engine.global.black = Entries({c.global}, "black")
  BY <1>1, Rebuilt, CompiledSet, EntriesOfOne
<1>4. ~(u # NoUser /\ engine.users[u] # NoUser)
  BY Rebuilt
<1>5. Evaluate(u, only, h) = IF matchAny(engine.global.black, h) THEN FALSE
        ELSE (engine.global.only \/ engine.global.white # {})
               => whitelistGate(h, {}, engine.global.white)
  BY <1>4 DEF Evaluate
<1>6. c.global.only \in BOOLEAN
  BY <1>1 DEF RuleSet
<1>7. QED
  BY <1>2, <1>3, <1>5, <1>6 DEF Permitted, Listed, matchAny, whitelistGate

(* Evaluate for a user of the engine, whose WhitelistOnly the request may have
   copied from an older configuration: the lists of the engine, and the mode of
   the copy. *)
LEMMA EvaluateUser ==
  ASSUME NEW c \in Config, engine = Rebuild(c), NEW u \in Users, c.users[u] # NoUser, u # NoUser,
         NEW only \in BOOLEAN, NEW h \in Hosts
  PROVE  Evaluate(u, only, h) =
           LET sets == RuleSetsFor(c, u) IN
             /\ ~Listed(sets, "black", h)
             /\ (c.global.only \/ only \/ Entries(sets, "white") # {}) => Listed(sets, "white", h)
<1> DEFINE g == c.global
           s == c.users[u]
           sets == RuleSetsFor(c, u)
<1>1. g \in RuleSet /\ s \in RuleSet
  BY DEF Config
<1>2. sets = {g, s}
  BY SetsApplying
<1>3. /\ engine.global.only = g.only
      /\ engine.global.white = g.white \ Blanks
      /\ engine.global.black = g.black \ Blanks
  BY <1>1, Rebuilt, CompiledSet
<1>4. /\ engine.users[u] # NoUser
      /\ engine.users[u].white = s.white \ Blanks
      /\ engine.users[u].black = s.black \ Blanks
  BY <1>1, Rebuilt, CompiledSet, RuleSetIsUser
<1>5. /\ Entries(sets, "white") = engine.global.white \cup engine.users[u].white
      /\ Entries(sets, "black") = engine.global.black \cup engine.users[u].black
  <2>1. /\ Entries(sets, "white") = (g.white \cup s.white) \ Blanks
        /\ Entries(sets, "black") = (g.black \cup s.black) \ Blanks
    BY <1>1, <1>2, EntriesOfTwo
  <2>2. QED
    BY <1>3, <1>4, <2>1
<1>6. Evaluate(u, only, h) =
        IF matchAny(engine.global.black, h) THEN FALSE
        ELSE IF matchAny(engine.users[u].black, h) THEN FALSE
        ELSE (g.only \/ only \/ engine.global.white # {} \/ engine.users[u].white # {})
               => whitelistGate(h, engine.users[u].white, engine.global.white)
  BY <1>3, <1>4 DEF Evaluate
<1>7. g.only \in BOOLEAN
  BY <1>1 DEF RuleSet
<1>8. /\ Listed(sets, "black", h) <=>
           (matchAny(engine.global.black, h) \/ matchAny(engine.users[u].black, h))
      /\ Listed(sets, "white", h) <=>
           whitelistGate(h, engine.users[u].white, engine.global.white)
      /\ Entries(sets, "white") # {} <=>
           (engine.global.white # {} \/ engine.users[u].white # {})
  BY <1>5 DEF Listed, matchAny, whitelistGate
<1>9. QED
  BY <1>6, <1>7, <1>8
-----------------------------------------------------------------------------
(* Only checkAccess takes a request to its verdict. *)
LEMMA JudgedByCheckAccess ==
  ASSUME IInv, [Next]_vars, NEW r \in Reqs, Judged(r)
  PROVE  CheckAccess(r)
<1> USE DEF Judged, requests
<1>0. pc \in [Reqs -> {"idle", "authorized", "judged"}]
  BY DEF IInv, TypeOK
<1>1. ASSUME NEW c, Update(c) PROVE FALSE
  BY <1>1 DEF Update
<1>2. CASE Notify \/ FlushStats \/ Restart
  BY <1>2 DEF Notify, FlushStats, Restart
<1>3. ASSUME NEW q \in Reqs, NEW u \in Users \cup {NoUser}, NEW h \in Hosts, Authorize(q, u, h)
      PROVE  FALSE
  BY <1>0, <1>3 DEF Authorize
<1>4. ASSUME NEW q \in Reqs, CheckAccess(q) PROVE q = r
  BY <1>0, <1>4 DEF CheckAccess
<1>5. CASE UNCHANGED vars
  BY <1>5 DEF vars
<1>6. QED
  BY <1>1, <1>2, <1>3, <1>4, <1>5 DEF Next, PutGlobalRules, PutUser, DeleteUser, Import, Rewrite

(* What CheckAccess decides, in terms of the two configurations involved. *)
LEMMA VerdictStep ==
  ASSUME IInv, NEW r \in Reqs, CheckAccess(r),
         NEW u, u = rec[r].user, NEW h, h = host[r]
  PROVE  /\ SameMode(read[r], source, u) => verdict'[r] = Permitted(source, u, h)
         /\ SameLists(read[r], source, u) => verdict'[r] = Permitted(read[r], u, h)
         /\ verdict'[r] => LET sets == RuleSetsFor(source, u) IN
              /\ ~Listed(sets, "black", h)
              /\ source.global.only => Listed(sets, "white", h)
<1> DEFINE only == rec[r].only
<1>1. /\ source \in Config /\ read[r] \in Config
      /\ u \in Users \cup {NoUser} /\ only \in BOOLEAN /\ h \in Hosts
      /\ engine = Rebuild(source)
      /\ verdict'[r] = Evaluate(u, only, h)
  BY DEF IInv, TypeOK, Mirrors, CheckAccess
<1>2. u # NoUser => /\ u \in Users /\ read[r].users[u] # NoUser
                    /\ only = read[r].users[u].only
  BY <1>1 DEF IInv, RecordsOK, CheckAccess
<1>3. CASE u # NoUser => source.users[u] = NoUser
  <2>1. verdict'[r] = Permitted(source, u, h)
    BY <1>1, <1>3, EvaluateGlobal
  <2>2. ~SameLists(read[r], source, u)
    BY <1>3 DEF SameLists
  <2>3. RuleSetsFor(source, u) = {source.global}
    BY <1>1, <1>3, SetsApplying
  <2>4. Permitted(source, u, h) => LET sets == RuleSetsFor(source, u) IN
              /\ ~Listed(sets, "black", h)
              /\ source.global.only => Listed(sets, "white", h)
    BY <2>3 DEF Permitted
  <2>5. QED
    BY <2>1, <2>2, <2>4
<1>4. CASE u # NoUser /\ source.users[u] # NoUser
  <2> DEFINE sets == RuleSetsFor(source, u)
             judged(m) == /\ ~Listed(sets, "black", h)
                          /\ (source.global.only \/ m \/ Entries(sets, "white") # {})
                               => Listed(sets, "white", h)
  <2>1. verdict'[r] = judged(only)
    BY <1>1, <1>2, <1>4, EvaluateUser
  <2>2. sets = {source.global, source.users[u]}
    BY <1>1, <1>4, SetsApplying
  <2>3. Permitted(source, u, h) = judged(source.users[u].only)
    BY <2>2 DEF Permitted
  <2>4. SameMode(read[r], source, u) => only = source.users[u].only
    BY <1>2, <1>4 DEF SameMode
  <2>5. ASSUME SameLists(read[r], source, u) PROVE Permitted(read[r], u, h) = judged(only)
    <3> DEFINE c == read[r]
               t == RuleSetsFor(c, u)
    <3>1. /\ source.users \in [Users -> RuleSet \cup {NoUser}] /\ source.users[u] \in RuleSet
          /\ c.users[u] \in RuleSet /\ source.global \in RuleSet
      BY <1>1, <1>2, <1>4 DEF Config
    <3>2. /\ c.global = source.global
          /\ c.users[u].white = source.users[u].white
          /\ c.users[u].black = source.users[u].black
      BY <1>1, <1>2, <2>5, <3>1 DEF SameLists, Config, RuleSet
    <3>3. t = {source.global, c.users[u]}
      BY <1>1, <1>2, <1>4, <3>2, SetsApplying
    <3>4. Entries(t, "white") = Entries(sets, "white") /\ Entries(t, "black") = Entries(sets, "black")
      <4>1. /\ Entries(t, "white") = (source.global.white \cup c.users[u].white) \ Blanks
            /\ Entries(t, "black") = (source.global.black \cup c.users[u].black) \ Blanks
        BY <3>1, <3>3, EntriesOfTwo
      <4>2. /\ Entries(sets, "white") = (source.global.white \cup source.users[u].white) \ Blanks
            /\ Entries(sets, "black") = (source.global.black \cup source.users[u].black) \ Blanks
        BY <2>2, <3>1, EntriesOfTwo
      <4>3. QED
        BY <3>2, <4>1, <4>2
    <3>5. Permitted(c, u, h) = (/\ ~Listed(t, "black", h)
                                /\ (source.global.only \/ only \/ Entries(t, "white") # {})
                                      => Listed(t, "white", h))
      BY <1>2, <1>4, <3>3 DEF Permitted
    <3>6. QED
      BY <3>4, <3>5 DEF Listed
  <2>6. QED
    BY <2>1, <2>3, <2>4, <2>5
<1>5. QED
  BY <1>3, <1>4
-----------------------------------------------------------------------------
(* The inductive invariant holds in every reachable state. *)
LEMMA Always == Spec => []IInv
<1>1. QED
  BY Initially, Inductive, PTL DEF Spec

(* For any users, patterns, rule bodies and any number of requests: between
   updates, unless the last save failed, memory, config.json and the compiled
   engine hold the same rules (Store.update, OnConfigChanged, Rebuild). *)
THEOREM RulesAreCurrent == Spec => []RulesCurrent
<1>1. IInv => RulesCurrent
  BY DEF IInv, Mirrors, RulesCurrent
<1>2. QED
  BY <1>1, Always, PTL

(* Evaluate's order of tests computes the meaning of the configuration in the
   engine whatever update, failed save or restart falls between the lookup of
   the user and the verdict. *)
THEOREM VerdictsAreConsistent == Spec => VerdictConsistent
<1> DEFINE Consistent(r) ==
      Judged(r) =>
        LET u == rec[r].user IN
         /\ SameMode(read[r], source, u) => verdict'[r] = Permitted(source, u, host[r])
         /\ SameLists(read[r], source, u) => verdict'[r] = Permitted(read[r], u, host[r])
<1>1. IInv /\ [Next]_vars => \A r \in Reqs : Consistent(r)
  BY JudgedByCheckAccess, VerdictStep
<1>2. QED
  BY <1>1, Always, PTL DEF Spec, VerdictConsistent

(* A request judged after a blacklist entered the engine never gets to a host on
   it, however old its copy of its user is; likewise for a global whitelist that
   is the only way in. *)
THEOREM BlockedHostsStayBlocked == Spec => BlockedStaysBlocked
<1> DEFINE Blocked(r) ==
      Judged(r) /\ verdict'[r] =>
        LET sets == RuleSetsFor(source, rec[r].user) IN
         /\ ~Listed(sets, "black", host[r])
         /\ source.global.only => Listed(sets, "white", host[r])
<1>1. IInv /\ [Next]_vars => \A r \in Reqs : Blocked(r)
  BY JudgedByCheckAccess, VerdictStep
<1>2. QED
  BY <1>1, Always, PTL DEF Spec, BlockedStaysBlocked
=============================================================================
