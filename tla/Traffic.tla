------------------------------ MODULE Traffic -------------------------------
(***************************************************************************)
(* Accounting of traffic (proxy.go): the per-user statistics, counted in   *)
(* memory (liveStats) and moved to config.json by FlushStats every five    *)
(* seconds and at shutdown, and the daily counters behind the quota.       *)
(*                                                                         *)
(* A request is counted when it ends, in two steps under two locks; a      *)
(* flush takes the live counters first and adds them to the user records   *)
(* later, under the store's lock; the admin API adds the two up, having    *)
(* read them one after the other, from an array of records that updates    *)
(* change in place; and whoever looks at the date may use it after         *)
(* midnight.  Requests, downloads and uploads are one counter.             *)
(***************************************************************************)
EXTENDS Naturals, Sequences

CONSTANTS Users,     \* user IDs; requests without a user are not counted
          Reqs,      \* requests in flight
          Limit,     \* Limit[u]: daily_traffic_mb (0 = unlimited)
          Lists,     \* the lists of users a configuration may have, at first or imported
          Snapshots, \* the User.Stats it may have, at first or imported
          MaxMove,   \* bound on the traffic of one request, or one half of it
          MaxTotal,  \* bound on the traffic of a user in a run
          MaxDay,    \* bound on the days a run lasts
          MaxChanges, \* bound on the deletions and imports
          MaxRow     \* bound on the rows of the list of users that are looked at

ASSUME TrafficAssumption ==
  /\ Users # {} /\ Limit \in [Users -> Nat]
  /\ Lists \subseteq Seq(Users) /\ Snapshots \subseteq [Users -> Nat]
  /\ MaxMove \in Nat /\ MaxTotal \in Nat /\ MaxDay \in Nat /\ MaxRow \in Nat /\ MaxChanges \in Nat

Flushers == {"ticker", "shutdown"}
Days == 1 .. MaxDay
Amounts == [Users -> Nat]
Zero == [u \in Users |-> 0]

(* The locals of a FlushStats, and those of a request that are about traffic. *)
FlushState == [at : {"idle", "prune", "swap", "persist"}, today : Nat, took : Amounts]
ReqState == [at : {"idle", "open", "tunnel", "daily"}, user : Users,
             n : Nat, today : Nat, more : BOOLEAN]

(* A user record, and a row of apiUsers or apiStatus in the making.  slot: where
   the record is in the array of Config().Users, or 0 when that place is not one
   of the store's records any more and keeps the record left; user: the ID that
   was read; read: the Stats that were read, and whose; replaced (history): an
   import has replaced the records since. *)
Record == [id : Users, stats : Nat]
View == [at : {"idle", "config", "id", "stats", "read"}, slot : Nat, left : Record,
         user : Users, read : Record, replaced : BOOLEAN]

VARIABLES
  phase,    \* "up", "stopping" (Shutdown runs), "flushed" (it has returned)
  users,    \* the users in the store, in the order of Config.Users
  changes,  \* how many users were deleted and lists imported
  stats,    \* User.Stats in memory
  disk,     \* config.json: [list, stats]
  live,     \* liveStats
  flush,    \* flush[f]: where FlushStats is in the ticker and in Shutdown
  day,      \* the UTC date
  daily,    \* p.daily: [date, bytes], date 0 when there is no entry
  req,      \* req[r]: where request r is
  view,     \* a request to the admin API that lists the users
  counted,  \* history: what config.json had and live.add has been told, less what
            \* a restart, an import or the deletion of the user made of it
  usedToday, \* history: what was counted today, since the last reset
  skewed,   \* history: a date that somebody had read went out of date
  unsaved   \* history: the last save failed

vars == <<phase, users, changes, stats, disk, live, flush, day, daily, req, view,
          counted, usedToday, skewed, unsaved>>

Flushing(at, date, took) == [at |-> at, today |-> date, took |-> took]
FlushIdle == Flushing("idle", 0, Zero)
Counting(u, n, more) == [at |-> "daily", user |-> u, n |-> n, today |-> day, more |-> more]
Request(at, u) == [at |-> at, user |-> u, n |-> 0, today |-> 0, more |-> FALSE]
NoEntry == [date |-> 0, bytes |-> 0]

(* No request, and no row: nothing is said of a user. *)
AnyUser == CHOOSE u \in Users : TRUE
NoReq == Request("idle", AnyUser)
NoRecord == [id |-> AnyUser, stats |-> 0]
NoView == [at |-> "idle", slot |-> 0, left |-> NoRecord, user |-> AnyUser,
           read |-> NoRecord, replaced |-> FALSE]

known == {users[i] : i \in DOMAIN users}

(* Where a date has been read and not yet used. *)
DatePending ==
  \/ \E r \in Reqs : req[r].at = "daily"
  \/ \E f \in Flushers : flush[f].at = "prune"

Init ==
  /\ phase = "up" /\ users \in Lists /\ changes = 0
  /\ stats \in Snapshots /\ disk = [list |-> users, stats |-> stats] /\ live = Zero
  /\ flush = [f \in Flushers |-> FlushIdle]
  /\ day = 1 /\ daily = [u \in Users |-> NoEntry]
  /\ req = [r \in Reqs |-> NoReq] /\ view = NoView
  /\ counted = stats /\ usedToday = Zero /\ skewed = FALSE /\ unsaved = FALSE
-----------------------------------------------------------------------------
(* dailyBytes: an entry of another day counts as nothing. *)
dailyBytes(u) == IF daily[u].date = day THEN daily[u].bytes ELSE 0

(* Faulty variant: the quota may be used up and more. *)
WithinQuotaOrEqual(u) == Limit[u] > 0 => dailyBytes(u) <= Limit[u]

(* checkAccess, the quota. *)
WithinQuota(u) == Limit[u] > 0 => dailyBytes(u) < Limit[u]

(* A request is let in; it may go on for as long as it likes. *)
Admit(r, u) ==
  /\ phase = "up" /\ u \in known
  /\ req[r].at = "idle" /\ WithinQuota(u)
  /\ req' = [req EXCEPT ![r] = Request("open", u)]
  /\ UNCHANGED <<phase, users, changes, stats, disk, live, flush, day, daily, view,
                 counted, usedToday, skewed, unsaved>>

(* The upstream cannot be reached, or not be written to: nothing is counted. *)
Fail(r) ==
  /\ req[r].at = "open"
  /\ req' = [req EXCEPT ![r] = NoReq]
  /\ UNCHANGED <<phase, users, changes, stats, disk, live, flush, day, daily, view,
                 counted, usedToday, skewed, unsaved>>

(* live.add; then addDaily reads the date, before it takes its lock.  "more":
   these are the bytes pipelined after a CONNECT, the tunnel is yet to come. *)
Count(r, n, more) ==
  LET u == req[r].user IN
  /\ req[r].at \in IF more THEN {"open"} ELSE {"open", "tunnel"}
  /\ counted[u] + n <= MaxTotal
  /\ live' = [live EXCEPT ![u] = @ + n]
  /\ counted' = [counted EXCEPT ![u] = @ + n]
  /\ req' = [req EXCEPT ![r] = Counting(u, n, more)]
  /\ UNCHANGED <<phase, users, changes, stats, disk, flush, day, daily, view, usedToday, skewed, unsaved>>

(* Faulty variant: an entry of another day is continued. *)
AddedStale(d, date, n) == [date |-> date, bytes |-> d.bytes + n]

(* addDaily: an entry of another day is replaced. *)
Added(d, date, n) == [date |-> date, bytes |-> IF d.date = date THEN d.bytes + n ELSE n]

DailyAdd(r) ==
  LET q == req[r] IN
  /\ q.at = "daily"
  /\ daily' = [daily EXCEPT ![q.user] = Added(@, q.today, q.n)]
  /\ usedToday' = [usedToday EXCEPT ![q.user] = @ + q.n]
  /\ req' = [req EXCEPT ![r] = IF q.more THEN Request("tunnel", q.user) ELSE NoReq]
  /\ UNCHANGED <<phase, users, changes, stats, disk, live, flush, day, view, counted, skewed, unsaved>>

Midnight ==
  /\ day < MaxDay
  /\ day' = day + 1
  /\ usedToday' = Zero
  /\ skewed' = (skewed \/ DatePending)
  /\ UNCHANGED <<phase, users, changes, stats, disk, live, flush, daily, req, view, counted, unsaved>>

(* resetDaily. *)
ResetEntry(u) == NoEntry

(* apiUserReset. *)
ResetDaily(u) ==
  /\ phase = "up" /\ u \in known
  /\ daily' = [daily EXCEPT ![u] = ResetEntry(u)]
  /\ usedToday' = [usedToday EXCEPT ![u] = 0]
  /\ UNCHANGED <<phase, users, changes, stats, disk, live, flush, day, req, view, counted, skewed, unsaved>>

(* Store.update: the new records are in memory, and in config.json unless the
   save fails. *)
Saved ==
  \/ disk' = [list |-> users', stats |-> stats'] /\ unsaved' = FALSE
  \/ UNCHANGED disk /\ unsaved' = TRUE

(* The record in the place that a row is made of. *)
Place == IF view.slot = 0 THEN view.left
         ELSE [id |-> users[view.slot], stats |-> stats[users[view.slot]]]

(* The place of a row is no longer one of the store's records. *)
Left == [view EXCEPT !.slot = 0, !.left = Place]

(* append(c.Users[:i], c.Users[i+1:]...): the later records move, in the array
   that Config() has given away; its last place keeps what it had. *)
Without(i) == [k \in 1 .. Len(users) - 1 |-> users[IF k < i THEN k ELSE k + 1]]

(* apiUserDelete; the requests of the user go on. *)
DeleteUser(i) ==
  /\ phase = "up" /\ i \in DOMAIN users
  /\ changes < MaxChanges /\ changes' = changes + 1
  /\ users' = Without(i)
  /\ view' = IF view.slot = Len(users) THEN Left ELSE view
  /\ UNCHANGED stats /\ Saved
  /\ UNCHANGED <<phase, live, flush, day, daily, req, counted, usedToday, skewed>>

(* apiImport: other records in an array of their own; what is in the live counters
   or in the hands of a flush will be added to them. *)
Import(l, s) ==
  /\ phase = "up"
  /\ changes < MaxChanges /\ changes' = changes + 1
  /\ users' = l
  /\ stats' = [u \in Users |-> IF u \in known' THEN s[u] ELSE stats[u]]
  /\ counted' = [u \in Users |-> counted[u] - stats[u] + stats'[u]]
  /\ view' = IF view.at # "idle" THEN [Left EXCEPT !.replaced = TRUE] ELSE view
  /\ Saved
  /\ UNCHANGED <<phase, live, flush, day, daily, req, usedToday, skewed>>

(* Every other Store.Update of the admin API writes the records as they are. *)
SaveOther ==
  /\ phase = "up"
  /\ UNCHANGED <<users, changes, stats>> /\ Saved
  /\ UNCHANGED <<phase, live, flush, day, daily, req, view, counted, usedToday, skewed>>
-----------------------------------------------------------------------------
(* FlushStats: the ticker of main, which may still be running, or about to,
   when the signal arrives; and once from Shutdown. *)
FlushBegin(f) ==
  /\ flush[f].at = "idle"
  /\ phase # "flushed" /\ (f = "shutdown" => phase = "stopping")
  /\ flush' = [flush EXCEPT ![f] = Flushing("prune", day, Zero)]
  /\ UNCHANGED <<phase, users, changes, stats, disk, live, day, daily, req, view,
                 counted, usedToday, skewed, unsaved>>

(* Entries that are not of the day are dropped. *)
FlushPrune(f) ==
  /\ flush[f].at = "prune"
  /\ daily' = [u \in Users |-> IF daily[u].date = flush[f].today THEN daily[u] ELSE NoEntry]
  /\ flush' = [flush EXCEPT ![f] = Flushing("swap", 0, Zero)]
  /\ UNCHANGED <<phase, users, changes, stats, disk, live, day, req, view,
                 counted, usedToday, skewed, unsaved>>

(* Shutdown returns, and with it main. *)
Returned(f) == IF f = "shutdown" THEN "flushed" ELSE phase

(* Faulty variant: the live counters are copied and not cleared. *)
LiveKept == live

(* The live counters begin anew. *)
LiveAfterSwap == Zero

(* The live counters are taken; without any there is nothing to save. *)
FlushSwap(f) ==
  /\ flush[f].at = "swap"
  /\ IF live = Zero
     THEN /\ flush' = [flush EXCEPT ![f] = FlushIdle]
          /\ phase' = Returned(f)
          /\ UNCHANGED live
     ELSE /\ flush' = [flush EXCEPT ![f] = Flushing("persist", 0, live)]
          /\ live' = LiveAfterSwap
          /\ UNCHANGED phase
  /\ UNCHANGED <<users, changes, stats, disk, day, daily, req, view, counted, usedToday, skewed, unsaved>>

(* UpdateSilent: users that are gone by now are passed over.  The error of a
   failed save is ignored; the memory keeps what was added. *)
FlushPersist(f) ==
  /\ flush[f].at = "persist"
  /\ stats' = [u \in Users |-> IF u \in known THEN stats[u] + flush[f].took[u] ELSE stats[u]]
  /\ counted' = [u \in Users |-> IF u \in known THEN counted[u] ELSE counted[u] - flush[f].took[u]]
  /\ UNCHANGED <<users, changes>> /\ Saved
  /\ flush' = [flush EXCEPT ![f] = FlushIdle]
  /\ phase' = Returned(f)
  /\ UNCHANGED <<live, day, daily, req, view, usedToday, skewed>>

(* SIGTERM: the listeners close, and no further request is let in. *)
Shutdown ==
  /\ phase = "up" /\ phase' = "stopping"
  /\ UNCHANGED <<users, changes, stats, disk, live, flush, day, daily, req, view,
                 counted, usedToday, skewed, unsaved>>

(* The process ends, after Shutdown or in a crash, and starts again. *)
Restart ==
  /\ phase' = "up"
  /\ users' = disk.list /\ stats' = disk.stats /\ counted' = disk.stats /\ UNCHANGED disk
  /\ live' = Zero
  /\ flush' = [f \in Flushers |-> FlushIdle]
  /\ daily' = [u \in Users |-> NoEntry] /\ usedToday' = Zero
  /\ req' = [r \in Reqs |-> NoReq]
  /\ view' = NoView
  /\ skewed' = FALSE /\ unsaved' = FALSE
  /\ UNCHANGED <<day, changes>>
-----------------------------------------------------------------------------
(* apiUsers, apiStatus: Config() copies the slice, not the records; the request
   goes through them place by place ... *)
ViewConfig(i) ==
  /\ phase = "up" /\ view.at = "idle" /\ i \in DOMAIN users /\ i <= MaxRow
  /\ view' = [view EXCEPT !.at = "config", !.slot = i]
  /\ UNCHANGED <<phase, users, changes, stats, disk, live, flush, day, daily, req,
                 counted, usedToday, skewed, unsaved>>

(* ... takes the ID from a place, without a lock ... *)
ViewId ==
  /\ view.at \in {"config", "stats"}
  /\ view' = [view EXCEPT !.at = IF @ = "config" THEN "id" ELSE "read", !.user = Place.id]
  /\ UNCHANGED <<phase, users, changes, stats, disk, live, flush, day, daily, req,
                 counted, usedToday, skewed, unsaved>>

(* ... and the Stats, before the ID or after it (apiStatus copies the record, of
   which apiUsers gives toView a pointer; the language leaves the order open) ... *)
ViewStats ==
  /\ view.at \in {"config", "id"}
  /\ view' = [view EXCEPT !.at = IF @ = "config" THEN "stats" ELSE "read", !.read = Place]
  /\ UNCHANGED <<phase, users, changes, stats, disk, live, flush, day, daily, req,
                 counted, usedToday, skewed, unsaved>>

(* ... to which MergedStats adds the live counters as they are by now, of the ID
   of the row.  (In apiUsers MergedStats reads that ID for itself, which makes a
   difference only where another record moves there in between.) *)
Merged == view.read.stats + live[view.user]

ViewMerge ==
  /\ view.at = "read"
  /\ view' = NoView
  /\ UNCHANGED <<phase, users, changes, stats, disk, live, flush, day, daily, req,
                 counted, usedToday, skewed, unsaved>>
-----------------------------------------------------------------------------
Next ==
  \/ \E r \in Reqs : \/ \E u \in Users : Admit(r, u)
                     \/ Fail(r)
                     \/ \E n \in 1 .. MaxMove, more \in BOOLEAN : Count(r, n, more)
                     \/ DailyAdd(r)
  \/ \E u \in Users : ResetDaily(u)
  \/ \E i \in DOMAIN users : DeleteUser(i) \/ ViewConfig(i)
  \/ \E l \in Lists, s \in Snapshots : Import(l, s)
  \/ \E f \in Flushers : FlushBegin(f) \/ FlushPrune(f) \/ FlushSwap(f) \/ FlushPersist(f)
  \/ Midnight \/ SaveOther \/ Shutdown \/ Restart
  \/ ViewId \/ ViewStats \/ ViewMerge

Spec == Init /\ [][Next]_vars
-----------------------------------------------------------------------------
TypeOK ==
  /\ phase \in {"up", "stopping", "flushed"} /\ users \in Seq(Users) /\ changes \in Nat
  /\ stats \in Amounts /\ disk \in [list : Seq(Users), stats : Amounts] /\ live \in Amounts
  /\ flush \in [Flushers -> FlushState]
  /\ day \in Nat
  /\ daily \in [Users -> [date : Nat, bytes : Nat]]
  /\ req \in [Reqs -> ReqState]
  /\ view \in View
  /\ counted \in Amounts /\ usedToday \in Amounts
  /\ skewed \in BOOLEAN /\ unsaved \in BOOLEAN

(* No traffic is lost or counted twice on its way from a handler to the record
   of its user, whatever flushes run at the same time: it is in the record, in
   the live counters or in the hands of a flush. *)
StatsConserved ==
  \A u \in Users :
    stats[u] + live[u] + flush["ticker"].took[u] + flush["shutdown"].took[u] = counted[u]

(* What the admin UI shows for a user is never more than what was counted for
   that user, although the terms are read at different times and a flush moves
   traffic from one to the other meanwhile, and records move in the array they are
   read from.  Unless an import has replaced the records since, or the row has the
   Stats of another user, who was moved to its place between the two reads. *)
ViewNeverInflated ==
  view.at = "read" /\ ~view.replaced /\ view.read.id = view.user
    => Merged <= counted[view.user]

CountersRight == ~skewed => \A u \in Users : dailyBytes(u) = usedToday[u]

(* The quota is judged by what was counted today, no more and no less, as long
   as no date is used after the midnight that follows it. *)
DailyExact ==
  /\ TypeOK
  /\ CountersRight

(* Traffic is counted when a request ends, so a quota can be overrun, but only
   by requests let in before it was reached: none is let in once the traffic
   counted today amounts to the quota, whoever adds to it meanwhile. *)
AdmittedUnderQuota ==
  [][\A r \in Reqs : ~skewed /\ req[r].at = "idle" /\ req'[r].at = "open"
       => LET u == req'[r].user IN Limit[u] > 0 => usedToday[u] < Limit[u]]_vars

(* Why the above hold.  A flush holds traffic only on its way to the record, and
   no record shrinks while a row is made of it, but for an import ... *)
Books ==
  /\ StatsConserved
  /\ \A f \in Flushers : flush[f].at # "persist" => flush[f].took = Zero
  /\ IF view.at = "idle" THEN view.slot = 0 ELSE view.slot \in 0 .. Len(users)
  /\ view.at # "idle" /\ ~view.replaced => Place.stats <= stats[Place.id]
  /\ view.at \in {"stats", "read"} /\ ~view.replaced => view.read.stats <= stats[view.read.id]

(* ... and a date that was read is today's, or midnight has passed since. *)
Dates ==
  /\ \A u \in Users : daily[u].date <= day
  /\ \A r \in Reqs : req[r].at = "daily" =>
       req[r].today <= day /\ (~skewed => req[r].today = day)
  /\ \A f \in Flushers : flush[f].at = "prune" /\ ~skewed => flush[f].today = day
  /\ CountersRight

(* "Shutdown stops both servers and flushes pending stats": when it returns,
   no save has failed and nothing was counted since it took the live counters,
   config.json has everything that was counted. *)
ShutdownKeepsStats ==
  phase = "flushed" /\ ~unsaved /\ live = Zero => \A u \in known : disk.stats[u] = counted[u]
=============================================================================
