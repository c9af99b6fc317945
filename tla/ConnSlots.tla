----------------------------- MODULE ConnSlots -----------------------------
(***************************************************************************)
(* Connection caps of the forward proxy: Proxy.tryEnterConn and exitConn   *)
(* (proxy.go), run by one goroutine per request.  The per-user counters    *)
(* are an atomic.Int32 each, looked up under connMu; globalConns is an     *)
(* atomic.Int32 that no lock guards.  Every atomic operation is a step of  *)
(* its own, so the handlers interleave as they do in the program.          *)
(*                                                                         *)
(* A handler takes two snapshots before it reserves: the settings          *)
(* (store.Config() at its first line) and, later, the user record that     *)
(* authorize returns.  An administrator may change both in between and     *)
(* afterwards, and the handler then works with the values it read.         *)
(***************************************************************************)
EXTENDS Naturals, FiniteSets

CONSTANTS Reqs, Users, NoUser,
          NoReq,            \* connMu is not held
          MaxGlobalVals,    \* values of proxy.max_global_conns   (0 = unlimited)
          DefaultMaxVals,   \* values of proxy.default_max_conns  (0 = unlimited)
          UserMaxVals       \* values of user.max_conns   (0 = use the default)

ASSUME ConnAssumption ==
  /\ IsFiniteSet(Reqs)
  /\ NoUser \notin Users
  /\ NoReq \notin Reqs \cup Users \cup {NoUser}
  /\ MaxGlobalVals \in SUBSET Nat /\ MaxGlobalVals # {}
  /\ DefaultMaxVals \in SUBSET Nat /\ DefaultMaxVals # {}
  /\ UserMaxVals \in SUBSET Nat /\ UserMaxVals # {}

Callers == Users \cup {NoUser}

VARIABLES
  settings,     \* cfg.Proxy in the store: [maxGlobal, defaultMax]
  maxConns,     \* maxConns[u]: User.MaxConns in the store
  connMu,       \* the request holding Proxy.connMu, or NoReq
  userConns,    \* Proxy.userConns: user ID -> counter (absent = 0)
  globalConns,  \* Proxy.globalConns
  pc,           \* where the handler of r is
  caller,       \* the user authorize returned to r (NoUser: nil)
  cfg,          \* r's snapshot of settings
  cap           \* the local variable cap of tryEnterConn

config == <<settings, maxConns>>
counters == <<connMu, userConns, globalConns>>
locals == <<caller, cfg, cap>>
vars == <<settings, maxConns, connMu, userConns, globalConns, pc, caller, cfg, cap>>

Settings == [maxGlobal : MaxGlobalVals, defaultMax : DefaultMaxVals]

(* The values the effective per-user cap may take. *)
UserCaps == (UserMaxVals \ {0}) \cup (IF 0 \in UserMaxVals THEN DefaultMaxVals ELSE {})

Labels == {"idle", "authorize", "userAdd", "userTest", "globalAdd", "globalTest",
           "globalUndo", "userUndo", "held", "exitLookup", "exitDec"}

Init ==
  /\ settings \in Settings
  /\ maxConns \in [Users -> UserMaxVals]
  /\ connMu = NoReq
  /\ userConns = [u \in Users |-> 0]
  /\ globalConns = 0
  /\ pc = [r \in Reqs |-> "idle"]
  /\ caller = [r \in Reqs |-> NoUser]
  /\ cfg = [r \in Reqs |-> settings]
  /\ cap = [r \in Reqs |-> 0]
-----------------------------------------------------------------------------
Goto(r, l) == pc' = [pc EXCEPT ![r] = l]

(* An administrator changes the limits; admitted connections are left alone. *)
ChangeSettings(s) ==
  /\ settings' = s
  /\ UNCHANGED <<maxConns, connMu, userConns, globalConns, pc, caller, cfg, cap>>

ChangeUser(u, m) ==
  /\ maxConns' = [maxConns EXCEPT ![u] = m]
  /\ UNCHANGED <<settings, connMu, userConns, globalConns, pc, caller, cfg, cap>>

(* The handler starts: its snapshot of the configuration. *)
Begin(r) ==
  /\ pc[r] = "idle"
  /\ cfg' = [cfg EXCEPT ![r] = settings]
  /\ Goto(r, "authorize")
  /\ UNCHANGED <<config, counters, caller, cap>>

(* authorize and checkAccess let the request through; tryEnterConn is called
   with the user record as it was when authorize looked it up. *)
Authorize(r, u) ==
  /\ pc[r] = "authorize"
  /\ caller' = [caller EXCEPT ![r] = u]
  /\ cap' = [cap EXCEPT ![r] = IF u = NoUser THEN 0
                               ELSE IF maxConns[u] = 0 THEN cfg[r].defaultMax
                               ELSE maxConns[u]]
  /\ Goto(r, IF u = NoUser THEN "globalAdd" ELSE "userAdd")
  /\ UNCHANGED <<config, counters, cfg>>

(* authorize or checkAccess refuses: nothing was reserved. *)
Refuse(r) ==
  /\ pc[r] = "authorize"
  /\ Goto(r, "idle")
  /\ UNCHANGED <<config, counters, locals>>

(* connMu.Lock(); c.Add(1) *)
UserAdd(r) ==
  /\ pc[r] = "userAdd"
  /\ connMu = NoReq
  /\ connMu' = r
  /\ userConns' = [userConns EXCEPT ![caller[r]] = @ + 1]
  /\ Goto(r, "userTest")
  /\ UNCHANGED <<config, globalConns, locals>>

(* Faulty variant: the request's own reservation is not taken into account. *)
OverUserExcludingSelf(r) == cap[r] > 0 /\ userConns[caller[r]] - 1 > cap[r]

(* c.Load() against the effective cap, still under connMu. *)
OverUser(r) == cap[r] > 0 /\ userConns[caller[r]] > cap[r]

(* Faulty variant: the early return of the 429 leaves connMu locked. *)
UserDenyLocked(r) ==
  /\ pc[r] = "userTest"
  /\ OverUser(r)
  /\ userConns' = [userConns EXCEPT ![caller[r]] = @ - 1]
  /\ Goto(r, "idle")
  /\ UNCHANGED <<config, connMu, globalConns, locals>>

(* Over the cap: c.Add(-1), unlock, deny with 429. *)
UserDeny(r) ==
  /\ pc[r] = "userTest"
  /\ OverUser(r)
  /\ userConns' = [userConns EXCEPT ![caller[r]] = @ - 1]
  /\ connMu' = NoReq
  /\ Goto(r, "idle")
  /\ UNCHANGED <<config, globalConns, locals>>

(* Within the cap: unlock and go on to the global counter. *)
UserPass(r) ==
  /\ pc[r] = "userTest"
  /\ ~OverUser(r)
  /\ connMu' = NoReq
  /\ Goto(r, "globalAdd")
  /\ UNCHANGED <<config, userConns, globalConns, locals>>

(* globalConns.Add(1), outside any lock. *)
GlobalAdd(r) ==
  /\ pc[r] = "globalAdd"
  /\ globalConns' = globalConns + 1
  /\ Goto(r, "globalTest")
  /\ UNCHANGED <<config, connMu, userConns, locals>>

(* Faulty variant: the request's own reservation is not taken into account. *)
OverGlobalExcludingSelf(r) ==
  cfg[r].maxGlobal > 0 /\ globalConns - 1 > cfg[r].maxGlobal

(* globalConns.Load() against the cap of the snapshot. *)
OverGlobal(r) == cfg[r].maxGlobal > 0 /\ globalConns > cfg[r].maxGlobal

GlobalPass(r) ==
  /\ pc[r] = "globalTest"
  /\ ~OverGlobal(r)
  /\ Goto(r, "held")
  /\ UNCHANGED <<config, counters, locals>>

GlobalDeny(r) ==
  /\ pc[r] = "globalTest"
  /\ OverGlobal(r)
  /\ Goto(r, "globalUndo")
  /\ UNCHANGED <<config, counters, locals>>

(* Faulty variants: the user's slot is not rolled back; the deferred exitConn
   runs for a refused request as well. *)
GlobalUndoOnly(r) ==
  /\ pc[r] = "globalUndo"
  /\ globalConns' = globalConns - 1
  /\ Goto(r, "idle")
  /\ UNCHANGED <<config, connMu, userConns, locals>>

GlobalUndoThenExit(r) ==
  /\ pc[r] = "globalUndo"
  /\ globalConns' = globalConns - 1
  /\ Goto(r, "held")
  /\ UNCHANGED <<config, connMu, userConns, locals>>

(* globalConns.Add(-1); the user's slot, if any, is rolled back next. *)
GlobalUndo(r) ==
  /\ pc[r] = "globalUndo"
  /\ globalConns' = globalConns - 1
  /\ Goto(r, IF caller[r] = NoUser THEN "idle" ELSE "userUndo")
  /\ UNCHANGED <<config, connMu, userConns, locals>>

(* Lock, c.Add(-1), unlock; deny with 503. *)
UserUndo(r) ==
  /\ pc[r] = "userUndo"
  /\ connMu = NoReq
  /\ userConns' = [userConns EXCEPT ![caller[r]] = @ - 1]
  /\ Goto(r, "idle")
  /\ UNCHANGED <<config, connMu, globalConns, locals>>

(* exitConn, deferred by the handler: first the global counter ... *)
ExitGlobal(r) ==
  /\ pc[r] = "held"
  /\ globalConns' = globalConns - 1
  /\ Goto(r, IF caller[r] = NoUser THEN "idle" ELSE "exitLookup")
  /\ UNCHANGED <<config, connMu, userConns, locals>>

(* ... then the counter is looked up under the lock ... *)
ExitLookup(r) ==
  /\ pc[r] = "exitLookup"
  /\ connMu = NoReq
  /\ Goto(r, "exitDec")
  /\ UNCHANGED <<config, counters, locals>>

(* ... and decremented after the lock is released. *)
ExitDec(r) ==
  /\ pc[r] = "exitDec"
  /\ userConns' = [userConns EXCEPT ![caller[r]] = @ - 1]
  /\ Goto(r, "idle")
  /\ UNCHANGED <<config, connMu, globalConns, locals>>

(* The steps a handler takes by itself inside tryEnterConn and exitConn; how
   long it holds its slot is up to the client and the upstream. *)
Step(r) ==
  \/ UserAdd(r) \/ UserDeny(r) \/ UserPass(r)
  \/ GlobalAdd(r) \/ GlobalPass(r) \/ GlobalDeny(r) \/ GlobalUndo(r) \/ UserUndo(r)
  \/ ExitLookup(r) \/ ExitDec(r)

Next ==
  \/ \E s \in Settings : ChangeSettings(s)
  \/ \E u \in Users, m \in UserMaxVals : ChangeUser(u, m)
  \/ \E r \in Reqs : \/ Begin(r)
                     \/ \E u \in Callers : Authorize(r, u)
                     \/ Refuse(r)
                     \/ Step(r)
                     \/ ExitGlobal(r)

Spec == Init /\ [][Next]_vars
-----------------------------------------------------------------------------
(* Where a handler has counted itself in the user's and the global counter. *)
UserCounted == {"userTest", "globalAdd", "globalTest", "globalUndo", "userUndo",
                "held", "exitLookup", "exitDec"}
GlobalCounted == {"globalTest", "globalUndo", "held"}
(* ... and where it has passed the per-user test as well. *)
UserPassed == UserCounted \ {"userTest"}

CountedFor(u) == {r \in Reqs : caller[r] = u /\ pc[r] \in UserCounted}
CountedGlobally == {r \in Reqs : pc[r] \in GlobalCounted}
Holding == {r \in Reqs : pc[r] = "held"}
HoldingFor(u) == {r \in Holding : caller[r] = u}
PassedFor(u) == {r \in Reqs : caller[r] = u /\ pc[r] \in UserPassed}

(* Types of the state. *)
TypeOK ==
  /\ settings \in Settings
  /\ maxConns \in [Users -> UserMaxVals]
  /\ connMu \in Reqs \cup {NoReq}
  /\ userConns \in [Users -> Nat]
  /\ globalConns \in Nat
  /\ pc \in [Reqs -> Labels]
  /\ caller \in [Reqs -> Callers]
  /\ cfg \in [Reqs -> Settings]
  /\ cap \in [Reqs -> Nat]

(* Every reservation is undone exactly once: a counter always equals the
   number of handlers that have counted themselves and not yet left, through
   both rollbacks of tryEnterConn and through exitConn.  A lost decrement
   would keep a user locked out for good, a double one would defeat the cap. *)
CountersExact ==
  /\ globalConns = Cardinality(CountedGlobally)
  /\ \A u \in Users : userConns[u] = Cardinality(CountedFor(u))

(* "caps can never be exceeded under concurrent load" (tryEnterConn): the
   connections held, all of them and those of each user, fit the cap that one of
   their own holders read, although the global counter is tested outside connMu
   and both caps are changed meanwhile.  (The cap of the holder that came last:
   those before it may have read a lower one.) *)
Within(n, c) == c = 0 \/ n <= c

CapsRespected ==
  /\ Holding # {} => \E r \in Holding : Within(Cardinality(Holding), cfg[r].maxGlobal)
  /\ \A u \in Users : HoldingFor(u) # {} =>
       \E r \in HoldingFor(u) : Within(Cardinality(HoldingFor(u)), cap[r])

(* Sharper, per step, for the global cap: whoever is let in fits the global limit
   that it read itself, however that limit and the other handlers moved meanwhile.
   (Not so per user: between the two tests of one handler another one of the same
   user, with a higher cap, may come in.) *)
Admitted(r) == pc[r] # "held" /\ pc'[r] = "held"

AdmissionWithinOwnCap ==
  [][\A r \in Reqs : Admitted(r) /\ cfg[r].maxGlobal > 0
       => Cardinality(Holding') <= cfg[r].maxGlobal]_vars

(* Nobody waits for connMu for ever: a reservation is decided (a slot, or a
   refusal with everything rolled back), and exitConn gives the slot back. *)
EventuallyDecided ==
  \A r \in Reqs : (pc[r] \notin {"idle", "authorize", "held"}) ~> (pc[r] \in {"idle", "held"})

(* The promise this implements: a slot is held from the step that passes the
   last test to the first step of exitConn. *)
Cap == INSTANCE ConnCap WITH
         GlobalCaps <- MaxGlobalVals,
         Out <- NoReq,
         holder <- [r \in Reqs |-> IF pc[r] = "held" THEN caller[r] ELSE NoReq]

CapSpec == Cap!Spec
=============================================================================
