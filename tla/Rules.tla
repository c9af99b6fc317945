------------------------------- MODULE Rules -------------------------------
(***************************************************************************)
(* The access rules of the forward proxy: the lists in the configuration   *)
(* (config.go, admin.go), the RulesEngine compiled from them (rules.go),   *)
(* and the requests that are judged by it.                                 *)
(*                                                                         *)
(* Three copies of the rules exist: the memory, config.json, and the       *)
(* engine, which Store.update rebuilds by its change callback after a save *)
(* that succeeded.  A request takes a fourth: the user record it looks up  *)
(* when it authenticates carries WhitelistOnly, while the lists are read   *)
(* from the engine when the target is judged, one password hash later.     *)
(*                                                                         *)
(* Patterns and hosts are names; what a pattern matches is a constant.  A  *)
(* blank pattern passes validatePatterns and is dropped by compileList.    *)
(***************************************************************************)
EXTENDS Naturals

CONSTANTS Reqs, Users, Hosts, Patterns,
          Blanks,        \* the patterns of white space only
          Matches,       \* Matches[p]: the hosts compilePattern(p) matches
          NoUser,        \* authorize's nil user; also: no such account
          GlobalBodies,  \* values of GlobalRules an administrator puts
          UserBodies,    \* rule fields of a user an administrator puts
          NoConfig

RuleSet == [only : BOOLEAN, white : SUBSET Patterns, black : SUBSET Patterns]
Config == [global : RuleSet, users : [Users -> RuleSet \cup {NoUser}]]

ASSUME RulesAssumption ==
  /\ Blanks \subseteq Patterns
  /\ Matches \in [Patterns -> SUBSET Hosts]
  /\ NoUser \notin Users \cup RuleSet
  /\ GlobalBodies \subseteq RuleSet /\ UserBodies \subseteq RuleSet
  /\ NoConfig \notin Config

VARIABLES
  mem,      \* the rules in Store.cfg
  disk,     \* the rules in config.json
  engine,   \* RulesEngine: compiled lists, and globalWhitelistOnly
  saving,   \* config saved, its callbacks still to run (write lock held), or NoConfig
  pc,       \* where the handler of r is
  rec,      \* what r looked up: [user, only], its copy of the user record
  host,     \* the target of r
  verdict,  \* Allowed of the last Evaluate for r
  read,     \* history: the configuration r's record was copied from
  source,   \* history: the configuration the engine was last rebuilt from
  failed    \* history: the save of the last update failed

store == <<mem, disk, engine, saving, source, failed>>
requests == <<pc, rec, host, verdict, read>>
vars == <<mem, disk, engine, saving, source, failed, pc, rec, host, verdict, read>>

(* compileList: patterns that do not compile are skipped. *)
compileList(patterns) == patterns \ Blanks

Compiled(s) == [s EXCEPT !.white = compileList(@), !.black = compileList(@)]

(* Rebuild. *)
Rebuild(c) == [global |-> Compiled(c.global),
               users |-> [u \in Users |-> IF c.users[u] = NoUser THEN NoUser
                                          ELSE Compiled(c.users[u])]]

(* matchAny: which of several matching rules comes first only changes the
   wording of the answer. *)
matchAny(rules, h) == \E p \in rules : h \in Matches[p]

whitelistGate(h, white, globalWhite) == matchAny(white, h) \/ matchAny(globalWhite, h)

(* Faulty variants: the user's own blacklist is looked at only when no
   whitelist lets the host through; a user without rules in the engine passes
   freely. *)
EvaluateWhiteFirst(u, only, h) ==
  LET g == engine.global
      known == u # NoUser /\ engine.users[u] # NoUser
      ur == engine.users[u]
  IN  IF matchAny(g.black, h) THEN FALSE
      ELSE IF ~known THEN (g.only \/ g.white # {}) => whitelistGate(h, {}, g.white)
      ELSE IF whitelistGate(h, ur.white, g.white) THEN TRUE
      ELSE ~matchAny(ur.black, h) /\ ~(g.only \/ only \/ g.white # {} \/ ur.white # {})

EvaluateUnknownFree(u, only, h) ==
  LET g == engine.global
      known == u # NoUser /\ engine.users[u] # NoUser
      ur == engine.users[u]
  IN  IF matchAny(g.black, h) THEN FALSE
      ELSE IF ~known THEN TRUE
      ELSE IF matchAny(ur.black, h) THEN FALSE
      ELSE (g.only \/ only \/ g.white # {} \/ ur.white # {})
             => whitelistGate(h, ur.white, g.white)

(* Evaluate(user, host).Allowed: the lists are the engine's, user.WhitelistOnly
   is the caller's copy; a user the engine does not know is judged by the
   global rules alone. *)
Evaluate(u, only, h) ==
  LET g == engine.global
      known == u # NoUser /\ engine.users[u] # NoUser
      ur == engine.users[u]
  IN  IF matchAny(g.black, h) THEN FALSE
      ELSE IF ~known THEN (g.only \/ g.white # {}) => whitelistGate(h, {}, g.white)
      ELSE IF matchAny(ur.black, h) THEN FALSE
      ELSE (g.only \/ only \/ g.white # {} \/ ur.white # {})
             => whitelistGate(h, ur.white, g.white)
-----------------------------------------------------------------------------
(* Store.update up to the save: the function has produced c under the write
   lock.  A failed save returns its error and leaves c in memory. *)
Update(c) ==
  /\ saving = NoConfig
  /\ mem' = c
  /\ \/ disk' = c /\ saving' = c /\ failed' = FALSE
     \/ failed' = TRUE /\ UNCHANGED <<disk, saving>>
  /\ UNCHANGED <<engine, source, requests>>

(* Faulty variant: the callback recompiles the global rules only. *)
NotifyGlobal ==
  /\ saving # NoConfig
  /\ engine' = [Rebuild(saving) EXCEPT !.users = engine.users]
  /\ source' = saving
  /\ saving' = NoConfig
  /\ UNCHANGED <<mem, disk, failed, requests>>

(* OnConfigChanged, still under the write lock; then the administrator is told
   that the change is made. *)
Notify ==
  /\ saving # NoConfig
  /\ engine' = Rebuild(saving)
  /\ source' = saving
  /\ saving' = NoConfig
  /\ UNCHANGED <<mem, disk, failed, requests>>

(* apiGlobalRules, PUT. *)
PutGlobalRules(b) == Update([mem EXCEPT !.global = b])

(* apiUsers, POST, and the rule fields of apiUserUpdate. *)
PutUser(u, b) == Update([mem EXCEPT !.users[u] = b])

DeleteUser(u) == mem.users[u] # NoUser /\ Update([mem EXCEPT !.users[u] = NoUser])

(* apiImport: everything at once. *)
Import(g, us) == Update([global |-> g, users |-> us])

(* A handler that changes other parts of the configuration. *)
Rewrite == Update(mem)

(* UpdateSilent by FlushStats: saved, with whatever an earlier save failed to
   write, and no callback. *)
FlushStats ==
  /\ saving = NoConfig
  /\ disk' = mem
  /\ UNCHANGED <<mem, engine, saving, source, failed, requests>>

(* NewStore and NewProxy. *)
Restart ==
  /\ mem' = disk
  /\ engine' = Rebuild(disk)
  /\ saving' = NoConfig
  /\ source' = disk
  /\ failed' = FALSE
  /\ pc' = [r \in Reqs |-> "idle"]
  /\ UNCHANGED <<disk, rec, host, verdict, read>>
-----------------------------------------------------------------------------
(* authorize: FindUserByName copies the record under the read lock; without
   RequireAuth there is no user. *)
Authorize(r, u, h) ==
  /\ pc[r] # "authorized"
  /\ saving = NoConfig
  /\ u # NoUser => mem.users[u] # NoUser
  /\ rec' = [rec EXCEPT ![r] = [user |-> u,
                                only |-> u # NoUser /\ mem.users[u].only]]
  /\ host' = [host EXCEPT ![r] = h]
  /\ read' = [read EXCEPT ![r] = mem]
  /\ pc' = [pc EXCEPT ![r] = "authorized"]
  /\ UNCHANGED <<store, verdict>>

(* checkAccess, as far as the rules go: Evaluate takes the engine's lock only,
   so it may run between the save and the callback of an update. *)
CheckAccess(r) ==
  /\ pc[r] = "authorized"
  /\ verdict' = [verdict EXCEPT ![r] = Evaluate(rec[r].user, rec[r].only, host[r])]
  /\ pc' = [pc EXCEPT ![r] = "judged"]
  /\ UNCHANGED <<store, rec, host, read>>

NoRules == [only |-> FALSE, white |-> {}, black |-> {}]
Default == [global |-> NoRules, users |-> [u \in Users |-> NoRules]]

Init ==
  /\ mem = Default /\ disk = Default
  /\ engine = Rebuild(Default)
  /\ saving = NoConfig
  /\ source = Default /\ failed = FALSE
  /\ pc = [r \in Reqs |-> "idle"]
  /\ rec = [r \in Reqs |-> [user |-> NoUser, only |-> FALSE]]
  /\ host \in [Reqs -> Hosts]
  /\ verdict = [r \in Reqs |-> FALSE]
  /\ read = [r \in Reqs |-> Default]

Next ==
  \/ \E g \in GlobalBodies : PutGlobalRules(g)
  \/ \E u \in Users : (\E b \in UserBodies : PutUser(u, b)) \/ DeleteUser(u)
  \/ \E g \in GlobalBodies, us \in [Users -> UserBodies \cup {NoUser}] : Import(g, us)
  \/ Rewrite \/ Notify \/ FlushStats \/ Restart
  \/ \E r \in Reqs : \/ \E u \in Users \cup {NoUser}, h \in Hosts : Authorize(r, u, h)
                     \/ CheckAccess(r)

Spec == Init /\ [][Next]_vars
-----------------------------------------------------------------------------
(* What a configuration means, without an order of evaluation: nothing that is
   on a blacklist that applies; and, when a whitelist that applies has entries
   or is the only way in, nothing that is on none of them. *)
RuleSetsFor(c, u) ==
  {c.global} \cup (IF u = NoUser THEN {} ELSE {c.users[u]} \ {NoUser})

Entries(sets, list) == (UNION {s[list] : s \in sets}) \ Blanks

Listed(sets, list, h) == \E p \in Entries(sets, list) : h \in Matches[p]

Permitted(c, u, h) ==
  LET sets == RuleSetsFor(c, u) IN
    /\ ~Listed(sets, "black", h)
    /\ (\E s \in sets : s.only) \/ Entries(sets, "white") # {} => Listed(sets, "white", h)

(* c and d give u the same WhitelistOnly (or one of them has no such user). *)
SameMode(c, d, u) ==
  u = NoUser \/ c.users[u] = NoUser \/ d.users[u] = NoUser \/ c.users[u].only = d.users[u].only

(* c and d differ in u's WhitelistOnly at most. *)
SameLists(c, d, u) ==
  /\ u # NoUser /\ c.users[u] # NoUser /\ d.users[u] # NoUser
  /\ c = [d EXCEPT !.users[u].only = c.users[u].only]

(* Types of the state; a compiled list holds no blank pattern. *)
CompiledRuleSet == [only : BOOLEAN, white : SUBSET (Patterns \ Blanks),
                    black : SUBSET (Patterns \ Blanks)]

TypeOK ==
  /\ mem \in Config /\ disk \in Config /\ source \in Config
  /\ engine \in [global : CompiledRuleSet, users : [Users -> CompiledRuleSet \cup {NoUser}]]
  /\ saving \in Config \cup {NoConfig}
  /\ failed \in BOOLEAN
  /\ pc \in [Reqs -> {"idle", "authorized", "judged"}]
  /\ rec \in [Reqs -> [user : Users \cup {NoUser}, only : BOOLEAN]]
  /\ host \in [Reqs -> Hosts]
  /\ verdict \in [Reqs -> BOOLEAN]
  /\ read \in [Reqs -> Config]

Judged(r) == pc[r] = "authorized" /\ pc'[r] = "judged"

(* "Precedence: global blacklist > user blacklist > whitelist (if any defined) >
   allow" (Evaluate), across changes in flight, failed saves and restarts: the
   verdict is what the configuration in the engine means; and if WhitelistOnly
   of the user was switched between the lookup and the verdict, and nothing
   else, what the configuration at the lookup meant. *)
VerdictConsistent ==
  [][\A r \in Reqs : Judged(r) =>
       LET u == rec[r].user IN
         /\ SameMode(read[r], source, u) => verdict'[r] = Permitted(source, u, host[r])
         /\ SameLists(read[r], source, u) => verdict'[r] = Permitted(read[r], u, host[r])]_vars

(* However old the request's copy of its user is, and even if it mixes two
   configurations: no request judged after a blacklist was put in place gets
   to a host on it, and with the global whitelist as the only way in, none
   gets past the lists. *)
BlockedStaysBlocked ==
  [][\A r \in Reqs : Judged(r) /\ verdict'[r] =>
       LET sets == RuleSetsFor(source, rec[r].user) IN
         /\ ~Listed(sets, "black", host[r])
         /\ source.global.only => Listed(sets, "white", host[r])]_vars

(* "RulesEngine holds compiled rules for the current config snapshot. It is
   rebuilt on every config change": whenever no update is running, the rules in
   force are those in memory and in the file.  Not after a save that failed: its
   change stays in memory, the next flush of the statistics writes it to the file
   without a callback, and the engine does not know it before the next update.
   (The state is well typed, too.) *)
RulesCurrent ==
  /\ TypeOK
  /\ saving = NoConfig /\ ~failed => mem = disk /\ engine = Rebuild(mem)
=============================================================================
