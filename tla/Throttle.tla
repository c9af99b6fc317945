----------------------------- MODULE Throttle ------------------------------
(***************************************************************************)
(* The limits on failed authentication: loginFails (per address, for       *)
(* /api/login), accountFails (per account, for /api/login and for Basic    *)
(* credentials on the admin API) and proxyAuthFails (per address, for the  *)
(* proxy and for Basic credentials on the admin API), in admin.go,         *)
(* proxy.go and auth.go.                                                   *)
(*                                                                         *)
(* The three are the same machine with other limits.  An attempt asks the  *)
(* limits that concern it, verifies its password with no lock held, and    *)
(* reports to each of them, so attempts that were let in together report   *)
(* after the lockout one of them caused.  The limits are minutes: a clock  *)
(* read just before the lock is taken is not old when it is used.          *)
(***************************************************************************)
EXTENDS Naturals, Sequences, FiniteSets

CONSTANTS Attempts, Clients, Accounts,
          None,
          MaxFails,   \* MaxFails[k]: loginMaxFails, proxyMaxFails
          Window,     \* Window[k]:   loginFailWindow, proxyFailWindow
          Lockout,    \* Lockout[k]:  loginLockoutTime, proxyCooldown
          Watched,    \* the limit whose failures are written down in recent
          MaxTime     \* bound on the clock

Kinds == {"login", "account", "proxy"}

(* The maps of failures, each with its keys. *)
Keys == ({"login", "proxy"} \X Clients) \cup ({"account"} \X Accounts)

(* The lockout of each kind ends before its window does: 10 of 15 minutes, and
   60 seconds of 10 minutes.  pruneAuthFailures relies on it. *)
ASSUME ThrottleAssumption ==
  /\ MaxFails \in [Kinds -> Nat \ {0}]
  /\ Window \in [Kinds -> Nat]
  /\ Lockout \in [Kinds -> Nat \ {0}]
  /\ \A k \in Kinds : Lockout[k] <= Window[k]
  /\ Watched \in Keys
  /\ MaxTime \in Nat

(* loginFails: until = 0 is the zero time. *)
Entry == [count : Nat, window : Nat, until : Nat]

(* An attempt: its step, the limits it has to do with and how many of them it
   has dealt with in this step. *)
Attempt == [at : {"ask", "verify", "fail", "ok"}, via : {"login", "admin", "proxy"},
            client : Clients, account : Accounts \cup {None}, done : Nat]

ASSUME NoneAssumption == None \notin Entry \cup Attempt \cup Accounts

VARIABLES
  now,      \* the clock
  fails,    \* fails[k]: the entry of k in its map, or None
  att,      \* the attempts in progress
  recent    \* history: the last failures of Watched since its last lockout or success

vars == <<now, fails, att, recent>>

(* The limits an attempt has to do with, in the order of the code; there is no
   account to limit without a username, or at the proxy (None). *)
Limits(a) ==
  LET addr == IF att[a].via = "login" THEN <<"login", att[a].client>>
                                      ELSE <<"proxy", att[a].client>>
  IN  IF att[a].account = None THEN <<addr>>
      ELSE <<addr, <<"account", att[a].account>>>>

At(a, step) == att[a] # None /\ att[a].at = step
Key(a) == Limits(a)[att[a].done + 1]
Last(a) == att[a].done + 1 = Len(Limits(a))

(* On to the next limit, or to the next step. *)
Proceed(a, next) ==
  att' = [att EXCEPT ![a] =
    IF ~Last(a) THEN [@ EXCEPT !.done = att[a].done + 1]
    ELSE IF next = "return" THEN None
    ELSE [@ EXCEPT !.at = next, !.done = 0]]
-----------------------------------------------------------------------------
(* apiLogin, authorize, and requireAdmin with Basic credentials; the proxy has no
   limit per account. *)
Begin(a, via, c, n) ==
  /\ att[a] = None
  /\ via = "proxy" => n = None
  /\ att' = [att EXCEPT ![a] = [at |-> "ask", via |-> via, client |-> c, account |-> n,
                                done |-> 0]]
  /\ UNCHANGED <<now, fails, recent>>

(* requireAdmin with a signed session token beside the Basic credentials: the
   limits are not asked, so nothing here is read before the result is known.  Let
   in, by the session or by the password, is a success, reported for the account
   that was let in.  Refused (a token of an earlier password, with a wrong one
   beside it) is reported for the name in the Basic credentials if the token has
   expired since the first look, and otherwise not at all: then nothing changes. *)
BeginWithSession(a, c, n) ==
  /\ att[a] = None
  /\ \E result \in {"fail", "ok"} :
       /\ result = "ok" => n # None
       /\ att' = [att EXCEPT ![a] = [at |-> result, via |-> "admin", client |-> c,
                                     account |-> n, done |-> 0]]
  /\ UNCHANGED <<now, fails, recent>>

Blocked(e, t) == e # None /\ e.until # 0 /\ t < e.until

(* The entry after a question that was answered with yes: a lockout that is
   over, or a window that has passed, is forgotten. *)
Elapsed(k, e, t) == t > e.window + Window[k[1]]

Asked(k, e, t) ==
  IF e = None THEN None
  ELSE IF e.until # 0 \/ Elapsed(k, e, t) THEN None
  ELSE e

(* loginAllowed, accountAllowed, proxyAuthAllowed. *)
Ask(a) ==
  /\ At(a, "ask")
  /\ ~Blocked(fails[Key(a)], now)
  /\ fails' = [fails EXCEPT ![Key(a)] = Asked(Key(a), @, now)]
  /\ Proceed(a, "verify")
  /\ UNCHANGED <<now, recent>>

(* 429 *)
Refuse(a) ==
  /\ At(a, "ask")
  /\ Blocked(fails[Key(a)], now)
  /\ att' = [att EXCEPT ![a] = None]
  /\ UNCHANGED <<now, fails, recent>>

(* apiLogin decodes the body between its two questions, and gives up. *)
BadBody(a) ==
  /\ At(a, "ask") /\ att[a].via = "login" /\ att[a].done = 1
  /\ att' = [att EXCEPT ![a] = None]
  /\ UNCHANGED <<now, fails, recent>>

(* checkBasicAuth, with whatever result; nobody has an empty username. *)
Verify(a) ==
  /\ At(a, "verify")
  /\ \E result \in {"fail", "ok"} :
       /\ result = "ok" => att[a].via = "proxy" \/ att[a].account # None
       /\ att' = [att EXCEPT ![a].at = result]
  /\ UNCHANGED <<now, fails, recent>>

(* apiLogin: the password is right, the account is no admin.  Nothing is
   reported. *)
WrongRole(a) ==
  /\ At(a, "verify") /\ att[a].via = "login" /\ att[a].account # None
  /\ att' = [att EXCEPT ![a] = None]
  /\ UNCHANGED <<now, fails, recent>>

(* The entry a failure at time t is added to. *)
Opened(k, e, t) ==
  IF e = None \/ Elapsed(k, e, t) THEN [count |-> 0, window |-> t, until |-> 0]
  ELSE e

Reached(k, e, t) == Opened(k, e, t).count + 1 >= MaxFails[k[1]]

(* Faulty variants: the window is not moved to the lockout; the limit is one
   too high. *)
FailedKeepsWindow(k, e, t) ==
  LET o == Opened(k, e, t) IN
    IF Reached(k, e, t) THEN [o EXCEPT !.count = 0, !.until = t + Lockout[k[1]]]
    ELSE [o EXCEPT !.count = @ + 1]

FailedLate(k, e, t) ==
  LET o == Opened(k, e, t) IN
    IF o.count >= MaxFails[k[1]]
    THEN [count |-> 0, window |-> t, until |-> t + Lockout[k[1]]]
    ELSE [o EXCEPT !.count = @ + 1]

(* The entry after a failure: the limit is reached and a lockout begins (again),
   or the failure is counted. *)
Failed(k, e, t) ==
  LET o == Opened(k, e, t) IN
    IF Reached(k, e, t) THEN [count |-> 0, window |-> t, until |-> t + Lockout[k[1]]]
    ELSE [o EXCEPT !.count = @ + 1]

(* Failures kept in recent: more than any window can hold. *)
Depth == 2 * (MaxFails[Watched[1]] - 1)

(* loginFail, accountFail, proxyAuthFail. *)
Fail(a) ==
  /\ At(a, "fail")
  /\ LET k == Key(a)
         times == Append(recent, now)
     IN  /\ fails' = [fails EXCEPT ![k] = Failed(k, @, now)]
         /\ recent' = IF k # Watched THEN recent
                      ELSE IF fails'[k].count = 0 THEN << >>
                      ELSE IF Len(times) > Depth THEN Tail(times) ELSE times
  /\ Proceed(a, "return")
  /\ UNCHANGED now

(* loginOK, accountOK, proxyAuthOK. *)
OK(a) ==
  /\ At(a, "ok")
  /\ fails' = [fails EXCEPT ![Key(a)] = None]
  /\ recent' = IF Key(a) = Watched THEN << >> ELSE recent
  /\ Proceed(a, "return")
  /\ UNCHANGED now

(* pruneAuthFailures, called by FlushStats: first the two maps of loginMu, then
   that of proxyAuthMu. *)
Prune(kinds) ==
  /\ fails' = [k \in Keys |-> IF k[1] \in kinds /\ fails[k] # None /\ Elapsed(k, fails[k], now)
                              THEN None ELSE fails[k]]
  /\ UNCHANGED <<now, att, recent>>

Tick == now < MaxTime /\ now' = now + 1 /\ UNCHANGED <<fails, att, recent>>

Init ==
  /\ now = 0
  /\ fails = [k \in Keys |-> None]
  /\ att = [a \in Attempts |-> None]
  /\ recent = << >>

Next ==
  \/ \E a \in Attempts :
       \/ \E c \in Clients :
            \/ \E via \in {"login", "admin", "proxy"}, n \in Accounts \cup {None} : Begin(a, via, c, n)
            \/ \E n \in Accounts \cup {None} : BeginWithSession(a, c, n)
       \/ Ask(a) \/ Refuse(a) \/ BadBody(a) \/ Verify(a) \/ WrongRole(a) \/ Fail(a) \/ OK(a)
  \/ Prune({"login", "account"}) \/ Prune({"proxy"})
  \/ Tick

Spec == Init /\ [][Next]_vars
-----------------------------------------------------------------------------
(* Types of the state; a count that reaches the limit has become a lockout. *)
TypeOK ==
  /\ now \in Nat
  /\ fails \in [Keys -> Entry \cup {None}]
  /\ \A k \in Keys : fails[k] # None => fails[k].count < MaxFails[k[1]]
  /\ att \in [Attempts -> Attempt \cup {None}]
  /\ recent \in Seq(Nat) /\ Len(recent) <= Depth
  /\ \A a \in Attempts : att[a] # None => att[a].done < Len(Limits(a))

(* A lockout lasts until its time is over or a success ends it: late reports of
   attempts that were let in before it, windows that pass, entries that are
   dropped and opened again, and the pruning by the flush neither lift nor
   shorten it. *)
LockoutHolds ==
  [][\A k \in Keys : Blocked(fails[k], now) =>
       \/ fails'[k] # None /\ fails'[k].until >= fails[k].until
       \/ \E a \in Attempts : At(a, "ok") /\ Key(a) = k]_vars

(* A limit counts in windows that start with a failure, not in every span of
   that length; what it guarantees is that of 2 * max - 1 failures reported in a
   row, with no success in between, one locks or they are spread over more than a
   window, whatever is let in at once, forgotten and pruned.  (A wrong password
   beside a signed session is not reported: see BeginWithSession.) *)
FailuresLock ==
  [][\A a \in Attempts : At(a, "fail") /\ att'[a] # att[a] /\ Key(a) = Watched
       /\ Len(recent) = Depth /\ recent' # << >>
       => now > recent[1] + Window[Watched[1]]]_vars
=============================================================================
