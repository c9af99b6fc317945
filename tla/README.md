# TLA+ verification of forward-proxy

forward-proxy is one Go process: an HTTP/HTTPS forward proxy with per-user
limits, rules and statistics, and an admin API that changes all of them while
traffic flows. Its state is shared by one goroutine per request, a ticker, the
callbacks of the configuration store and background goroutines that close
servers. This directory models that state and those goroutines, checks the
models with TLC on small instances and proves the most important properties
with TLAPS for every instance.

## Inventory

| Component | State | Operations | Talks to |
|---|---|---|---|
| Store (`config.go`) | `cfg` in memory, `config.json`, `byID`/`byName` indexes, change callbacks | `NewStore`, `Update`, `UpdateSilent`, `Config`, `FindUser`, `FindUserByName` | everything; callbacks run under its write lock |
| User accounts (`admin.go`) | the list of users in the store | create, update, delete, password, export, import | Store, audit log |
| Connection admission (`proxy.go`) | `userConns`, `globalConns`, `connMu` | `tryEnterConn`, `exitConn` | called by both request handlers |
| Traffic accounting (`proxy.go`) | `live` counters, `daily` counters, `User.Stats` | `live.add`, `addDaily`, `checkAccess`, `FlushStats`, `MergedStats`, `resetDaily` | handlers write, ticker and `Shutdown` flush into the Store, admin API reads |
| Listeners (`proxy.go`, `admin.go`, `main.go`) | two servers, their registered and configured addresses | `Start`, `apiSettings`, `apiImport`, `rebindIfChanged`, `shutdownServer` | Store callbacks, operating system |
| Activity log (`logstore.go`) | ring of entries, JSONL file, `bufio.Writer`, `fileSize` | `Add`, `Flush`, `Clear`, rotation, `loadFile` | handlers add, ticker flushes |
| Request handlers (`proxy.go`) | locals of one goroutine | `handleForward`, `handleConnect`, `runTunnel`, `copySide` | all of the above |
| Rules engine (`rules.go`) | compiled lists, apart from the configuration they come from | `Rebuild`, `Evaluate` | Store callback, handlers |
| Authentication, sessions (`auth.go`, `admin.go`) | password cache, signing key, token epochs | `verifyCached`, `checkBasicAuth`, `equalizeAuthTiming`, `apiLogin`, `issueToken`, `verifyToken` | Store |
| Throttles (`admin.go`, `proxy.go`) | failure counters by address and by account | `...Allowed`, `...Fail` and `...OK` of each limiter, `pruneAuthFailures` | login, Basic credentials, handlers, ticker |
| Audit log (`audit.go`) | file, its handle and size | `Record`, rotation, `Recent` | admin handlers, after their transaction |

What is hard here: a handler works with a snapshot of the settings and a user
record while an administrator changes both; reservations are made in two
counters, one of them under no lock, and rolled back in several steps; admin
handlers look before they lock; a save may fail after the memory has changed;
statistics are taken from one place and put into another under different
locks; the list of users that `Store.Config` returns shares its array with later
changes, which move records in it; dates are read before they are used; a listener is probed, released and
bound later; a log line reaches the disk in pieces and rotation cuts the file
at a byte; the account that was looked up has changed when its password is
verified, its session signed or its rules applied; failures are reported after
the lockout they caused; a tunnel has two goroutines that must both come to an
end whatever the two parties do. `PROJECT.json` lists these under "hazards", at their lines, with the
properties that would notice.

## Modules

`ConnCap` (abstract) is implemented by `ConnSlots`; `Request` composes
`ConnSlots` with `Serving`; `UserStore`, `LogStore`, `Listeners`, `Traffic`,
`Rules`, `Auth`, `Throttle` and `Audit` stand for themselves. Each has an `MC...` module for
TLC. The theorems are in `RequestProofs` (`ConnSlots`, `Request` and `Serving`),
`UserStoreProofs`, `TrafficProofs`, `RulesProofs`, `AuthProofs`, `ThrottleProofs`,
`ListenersProofs` and `LogProofs` (`LogStore` and `Audit`). `SeqFilter` holds `Keep`,
the elements of a sequence that are in a set, which both logs use to drop what does
not parse. Definitions with the comment "Faulty variant" are
mistakes the code does not make: each, put in place of the correct definition,
makes TLC report the property named for it in `PROJECT.json`, which shows that
the property is able to fail.

**ConnSlots.** `pc[r]` is where handler *r* is in `tryEnterConn` or `exitConn`.
Each atomic add and each load is a step, and other handlers can move between
any two of them; taking `connMu` is part of the first step of its critical
section and releasing it of the last. `cfg[r]` and
`cap[r]` are the snapshots, taken in `Begin` and `Authorize`, at different
times. `ChangeSettings` and `ChangeUser` are the administrator. What happens in
`authorize` and `checkAccess` is reduced to its outcome. `CapsRespected` compares
the connections held, all of them and those of each user, with the cap that one of
their holders read; `AdmissionWithinOwnCap` is about the global cap only, because
between the two tests of a handler another one of the same user, with a higher cap,
may come in.

**ConnCap.** A request holds a slot or not, and takes one only if the slots
then held fit caps that may be configured. The refinement mapping gives a
handler its slot from the step that passes the last test to the first step of
`exitConn`.

**UserStore.** `users` is the memory, `disk` the file, `byID` and `byName` the
indexes. `Commit(s)` is the end of `Store.update`: it saves and indexes, or the
save fails and only the memory changes. `CreateLookup` and `UpdateLookup` are
the unlocked first looks; the matching commits repeat the test. A name is a
model value with two functions that stand for its conversions: `Key` (lower
case, what logging in compares) and `TrimKey` (trimmed as well, what import
compares). `RestartUnreadable` is `NewStore` replacing a file that it cannot
read or that is empty.

**LogStore.** Each method holds `l.mu`, so it is one action. A line is
`LogLine` cells, the last its newline, so that a buffer flush, a rotation or a
failure can cut it. `Flushed`, `LogOpened`, `LogHalved` and `Truncated` give the set
of results of a file operation, failures included (a `Stat` that fails leaves the
size of the file unknown: `sized`); `LogFaults` bounds the failures. `ChangeLogs`
changes the ring size, `to_file` and `file_max_mb`, which the next `Add` reads; a
limit that is lowered leaves the file as it is until then, and each rotation halves
it once. A `file_max_mb` of 0 is `to_file` being off.
`rotateLog` is `rotateLocked`; names that `Audit` has too are marked as those of the
activity log (`LogSpec`, `LogTypeOK`), so that one module of proofs extends both.
`Decode` is what the reader of the file finds.

**Listeners.** `sock[a]` is who listens on address *a*: a listener of ours, a
probe of `tryBind`, another process. `mem` and `disk` are the configured
addresses, `reg` the registered ones, `closing` the servers whose
`shutdownServer` has not run. A handler probes, commits under the store's lock,
and keeps the lock through `Capture` and each `Rebind`, as `Store.update` does.
`StartAdmin` and `StartRegister` are apart because the admin server answers
before it is registered.

**Traffic.** `live`, `stats` and `disk` are the three places where traffic is
kept, `users` the list of accounts; `flush[f]` is what a `FlushStats` holds between
taking and saving. `req` has the date a handler has read and not yet used. `view` is
one row of `apiUsers` or `apiStatus` in the making: `Store.Config` copies the slice
of users and not the records, so the row is read from a *place* of an array, its ID
and its Stats one after the other, in either order, without a lock. `DeleteUser`
shifts the records in that array; the last place, and every place once `Import` has
put in an array of its own, is no longer part of the store and keeps what it had
(`Left`). `Saved` is the end of `Store.update`, whose save may fail. `counted` and
`usedToday` are history variables: what the handlers reported, in total and today;
an import, a restart, and a flush that finds the user gone change `counted` with
the records. `skewed` records that midnight passed between the reading of a date and
its use; `unsaved` that the last save failed. `apiUserCreate` is left out: it would add
a record without traffic, perhaps in a place that a deletion has freed, where a row can
only show less.

**Serving.** `job[r]` is what handler *r* does between `tryEnterConn` and
`exitConn`: where it is, its two `copySide` goroutines, the sockets it owns, and
how the parties at the other ends behave. These may stop sending, close their
sending direction or stop reading, at any time. A read or write after
`SetReadDeadline` or `SetWriteDeadline` may fail at any time; fairness makes it
fail in the end.

**Request.** The two of them along one request: a handler serves exactly while it
holds its slot. `Enter` is the step that passes the last test and starts to
serve, `Exit` the first step of the deferred `exitConn`.

**Rules.** `mem`, `disk` and `engine` are the three copies of the rules, `rec[r]`
the fourth: the user record a handler copied, of which `Evaluate` uses
`WhitelistOnly` and the ID. `saving` holds a configuration between its save and
the callback that rebuilds the engine. What a pattern matches is the constant
`Matches`. `Permitted` says what a configuration means, without an order of
evaluation. `read` and `source` are history: from which configuration the record
and the engine come.

**Auth.** `call[c]` is a call in `checkBasicAuth` or `equalizeAuthTiming`, with its
copy of the account; looking in the cache, deriving the key, filling the cache and
signing the token are separate steps. A hash is its password and a salt that is
fresh each time. A cache entry may be found expired at any time and a token never
expires: no property relies on either. `life` tells accounts of the same name
apart.

**Throttle.** The three limiters are one machine with other limits. An attempt
asks its limits one by one, verifies, and reports to each. `BeginWithSession` is
`requireAdmin` with a session token beside the Basic credentials, which asks no
limit: let in, it reports a success; refused, a failure or, if the token is signed
but of an earlier password, nothing. `recent` (history) has the times of the last
failures of one limit; `FailuresLock` speaks of failures that were reported.

**Audit.** A handler's `Commit`, `RecordAction` and `Reply` are separate steps;
`Skips` is `auditUserUpdate` looking its account up again. `exists` is the account in
memory, `saved` in the file and `found` what `FindUser` says: after a change that
could not be saved (`CommitUnsaved`) the index is that of the file, and an account
that is there may not be found. `missed` (history) marks an update whose account was
not found at some time before its record. Lines are cells as in
LogStore. `Opened`, `Halved` and `Written` give the results of file operations,
failures included.

`TypeOK` (`LogTypeOK`) is checked on its own or, in `LogStore`, `Listeners`, `Rules`, `Auth`,
`Request`, `Traffic` and `Audit`, as a conjunct of `SizeExact`, `ListenersServe`,
`RulesCurrent`, `CacheBounded`, `CleanEnd`, `DailyExact` and `AuditBounded`.

## Runs

| Run | Instance | Shows |
|---|---|---|
| `conn_slots` | 3 handlers, 2 users, global caps 2 and 3, per-user caps 1 and 2 | counters exact, caps kept, ConnCap implemented |
| `user_store` | 2 admin requests, 3 accounts, 4 spellings | unique names, an admin remains, lookups correct |
| `log_store` | 6 entries, lines of 3 cells, limits of 6 and 12, 2 faults | order, no gaps, clearing, exact size, file within the limit in force |
| `listeners` | 3 addresses, 2 admin requests | listeners serve, none leaks, changes applied |
| `listeners_boot` | the same | **violation**: one address saved for both listeners |
| `traffic` | 2 users in a list, 1 request, 2 days, quota 1, 1 deletion or import | nothing lost or doubled, no row shows more than was counted, quota exact |
| `traffic_shutdown` | the same without rows, deletions and midnight | **violation**: a flush under way at shutdown is lost |
| `request` | 2 handlers, 1 slot | tunnels and plain requests end, leave nothing behind and give the slot back; nobody waits for `connMu` for ever |
| `rules` | 1 request, 1 user, 2 hosts, 3 patterns | verdicts belong to one configuration, blacklists hold for requests under way, the engine is current |
| `auth` | 2 calls, 1 name, 2 passwords, cache of 1 | verdicts exact, sessions end with the password, cache bounded |
| `throttle` | 2 attempts, 1 address, 1 account, time 0 to 4 | lockouts hold, failures lock |
| `audit` | 2 handlers, 4 actions, lines of 3 cells, 1 fault | what is acknowledged is recorded, but for updates whose account was not found; order, window, size, recovery |

Bounds. Two racing handlers need a third to hold or release a slot, hence 3. The
default per-user cap of 1 is below every global cap, so that each of the two tests is
somewhere the one that refuses. A delete must move two accounts to make positions stale, hence 3 accounts. A
buffer of 4 cells and half of a file that has a newline too many are not multiples of
the line, so that flushes and rotations cut lines; of the two limits of the log one is
twice the other, so that six entries rotate twice and a file at the larger limit is
still above the lower one after it was halved. Three addresses let a listener go away and come back, with one in another process's
hands. Counters and quotas are per user; the rows of the admin API are made from a list
that two users share, where a deletion moves the second, who has traffic on record from
before, to the place of the first. A quota of 1 is reached by the first unit of traffic
and overrun by the second count of a CONNECT (bytes sent along, then the tunnel); one
request is enough, because each step on the counters is atomic and the theorems are
about any number; two days have one midnight. `MaxChanges` bounds deletions and imports,
`MaxRow` the places that are looked at. `MaxUsers`, `MaxAdds`, `MaxFaults`, `LogFaults`, `MaxMove`,
`MaxTotal` and `MaxDay` only limit how long a run goes on. Handlers (and users,
in `conn_slots`) are interchangeable, and permuted except in `request`, where
liveness is checked.

In `request` two handlers and one slot are enough for one to be refused, roll
back or wait while the other holds or returns it. In `rules` the rule sets that
an administrator may put are three global and three personal ones, chosen so that
each branch of `Evaluate` decides for some host; users meet only in the global
rules. In `auth` two calls race for the one entry of the cache; two salts and two
lives give one password change or re-creation, and one token is enough because
tokens do not interact. In `throttle` a limit of 2 and windows of 2 have the
proportions of the code (a lockout is not longer than the window), and four units
of time hold a lockout, the window after it and another lockout. In `audit` a
file of 8 cells is rotated at the fourth line, in the middle of one, and the
window of 6 cells starts sometimes at a line and sometimes within one.

Deadlock is checked in every run.

Fairness. Only `request` assumes any. Strong fairness of a handler's steps in
`tryEnterConn` and `exitConn`: the Go scheduler runs every runnable goroutine,
and `sync.Mutex` hands the lock over to a waiter that has waited for more than a
millisecond (its starvation mode), so a step that is enabled again and again is
taken. Weak fairness of the steps of the handler and of each copy goroutine, and
of the timeout of a request's context: deadlines expire. Of clients and upstreams
nothing is assumed but that a write to one that still reads goes through. The
write of a response by `handleForward` has no deadline, and the model gives it
none.

Conditions in the properties. `DailyExact` and `AdmittedUnderQuota` hold as long
as no date was used after midnight (`~skewed`): `addDaily` and `FlushStats` read
the date before they take the lock. `NoLeakedListener` and `ChangesApplied` need
that no change is applied before `Start` has returned (`~early`).
`ClearedStaysCleared` is about clears that could truncate the file, `NoGaps`
about runs without a fault or a lost buffer. `SizeExact` leaves out a file whose size
`Stat` did not tell. `FileBounded` is about each step that meets no failure: it allows
one cell too many, because the code does not count the newline, and a file above a
limit that was lowered, as long as it shrinks. `ViewNeverInflated` leaves out rows
that an import overtook and rows that mix two users. `LookupCorrect` allows a
lookup to find nobody while memory and file differ.
`RulesCurrent` excludes the time after a save that failed. `ForwardReturnsSlot`
excludes a handler that writes to a client which does not read. `AckedRecorded`
excludes an update whose account, before it was recorded, was removed or could not be
found after another request's failed save; "recorded" means handed to `Record`, and
`AuditDurable` and `AuditRecovers` say what is then on file.
`SessionsFollowPassword` speaks of one life of an account: a name that is deleted
and re-created, or imported, starts again at an epoch that old tokens may carry,
and they are then accepted for the new account until the process restarts.
`VerdictConsistent` leaves out requests whose `WhitelistOnly` and lists changed
together between lookup and verdict; `BlockedStaysBlocked` covers them.

## Findings

Two runs show the code doing something else than its comments say; details and
quotes are in `PROJECT.json`.

1. One new address for both listeners passes both probes and stops the next
   start.
2. `Shutdown` does not wait for a flush under way.

Other observations made while modelling, of which the models keep the behaviour
and the properties the condition:

- The global cap is not validated under a lock, although `proxy.go:585-586` says
  so: two requests for the last slot can both get 503.
- A failed save is not rolled back (`config.go:242`), although `admin.go:1083-1084`
  says that `Store.Update` does: the memory keeps the change, the indexes are
  stale, so an untouched account may not be found, and the rules engine does not
  follow even when the next flush of the statistics writes the change to the file.
- Import validates trimmed names and stores them untrimmed (`admin.go:1191`); an
  export of the accounts that result may be refused by import.
- After a failed reopen the activity log is not written for the rest of the
  process (`logstore.go:227`), although `logstore.go:181` and `272-273` say that it
  resumes.
- The write of a plain response has no deadline (`proxy.go:780`), although
  `proxy.go:298-299` says that per-request timeouts are enforced in the handlers:
  the slot is kept for as long as a client that does not read stays connected.
- `read_timeout_sec` is an idle timeout for a tunnel and the time of a whole plain
  request (`proxy.go:746-752`); `config.go:25` calls it an idle timeout.
- The bytes of a request body that was sent before its round trip failed are not
  accounted.
- `Store.Config` "returns a copy of the current config" (`config.go:198`), but of the
  slice of users and not of the records: while users are listed (`admin.go:539`), a
  deletion (`admin.go:741`) can put the Stats of one user beside the ID of another.
- An update that was acknowledged is not audited if `auditUserUpdate` does not find its
  account (`admin.go:701`), because another request has removed it or has failed to save
  another change of the list; `audit.go:22-24` promises a durable record.
- Lowering `file_max_mb` does not shrink the activity log: the next entries halve it,
  once each, until it fits.
- A wrong Basic password beside a signed session token of an earlier password is
  refused and counted by no limiter (`auth.go:272-286`).
- A failed write of the audit log costs two entries when part of the line got
  through, its own and the next one.

## Proofs

TLC checks small instances; the theorems hold for every value of the constants.
Assumptions are those of the modules, and TLC evaluates them in every run:

- `ConnAssumption`: finitely many handlers, caps are naturals, the special values
  are no users or handlers.
- `StoreAssumption`: the conversions of names are functions, names that are equal
  in lower case are equal when trimmed as well, bodies and snapshots are well
  formed.
- `TrafficAssumption`, `AuthAssumption`, `AuditAssumption`: bounds, quotas and
  lengths are naturals; there is a user, lists are sequences of users, recorded and imported Stats are naturals; a line of the audit log has at least two cells and is at
  most half of the file; names, passwords and calls are finitely many at a time.
- `LogAssumption`: a line of the activity log has at least two cells, the buffer holds
  a line, every limit of the file two of them, and ring sizes are positive.
- `RulesAssumption`: rule bodies are sets of patterns, a pattern matches a set of
  hosts.
- `ThrottleAssumption`: limits and lockouts are positive, and a lockout is not
  longer than its window (10 against 15 minutes in `admin.go:172-173`, 1
  against 10 in `proxy.go:193-194`).
- `ListenAssumption`, `NoneAssumption`: default addresses are addresses, and
  "none" is no other value.

Every invariant below was checked with TLC on the instance of its run before it
was proved. Each module proves that it holds at first, that each action keeps
it, and that it implies the properties.

**RequestProofs** (admission). The inductive invariant is the type invariant,
`CountersExact`, that a handler in a per-user step has a user, and that the
handlers of a user *past the per-user test* (not only those holding a slot) fit the
cap of one of them, as do those holding a slot globally. The middle part is needed because the
per-user counter includes handlers that are about to roll back: with exact
counters, a handler that passes the test under `connMu` is one of at most `cap`
that have passed it. Exactness is proved by adding one handler to a finite set, or
removing one. From it follow `CapsRespected`, `AdmissionWithinOwnCap` (the step
that lets a handler in has compared the exact global counter, which counts every
holder, with its own cap) and the implementation of `ConnCap`.

**RequestProofs** (whole requests). `RequestsAdmit`: on the variables of
`ConnSlots` every step of `Request` is a step of `ConnSlots` or none, so the
theorems above carry over (`ServedWithinCaps` is one of them). `RInv`: a job is
under way exactly while its slot is held; a copy goroutine runs only while the
handler waits for it; a handler owns no socket before the hijack, after the
tunnel, or for a plain request. The last part is what `CleanEnd` lacks to be
inductive: the steps that end a plain request or a failed hijack close nothing,
because there is nothing to close.

**UserStoreProofs.** A list is *good* if IDs and keys are distinct and an enabled
admin is in it. Each transaction maps good lists to good lists (one lemma each),
so memory and file are both good; the strengthening that `LookupCorrect` needs is
that the indexes are always those of the *file*: a save that fails leaves both
alone.

**TrafficProofs.** `Books`: what the handlers counted is in the record, in the live
counters or in a flush; a flush that is not about to save holds nothing; the place a
row is made of is in the list or has left the store; and unless an import has replaced
the records, neither what is in that place nor the Stats read from it are more than the
record of the user they belong to has now. The place matters because it may be read
after it has left the store or another user has moved there: either way it holds a
record of somebody, which was not larger then. `Dates`: an entry is not of a future
day, and a date in hand is today's unless `skewed`. Both are inductive together with
the type invariant and imply the four properties.

**RulesProofs.** `Mirrors`: the engine is always `Rebuild(source)`; while a saved
update waits for its callback, memory and file have the new rules; between
updates, unless the last save failed, all copies agree. `RecordsOK`: what a
request carries is what the configuration it read says of its user. The lemmas
about `Evaluate` show that its order of tests computes `Permitted`, user by user
and for requests without one. `RulesCurrent` follows from `Mirrors`, the two
action properties from both.

**AuthProofs.** `CacheRight`: an entry says of its hash and password what the key
derivation would; it is keyed by the hash, so a changed password cannot make it
wrong. With it `BasicExact` is inductive. `CacheFits`: an insertion removes an
entry first if the cache is full. `CopyOf`: of an account that still lives, a copy
(in a call or signed into a token) has an epoch not later than the account's, and
the same epoch only with the same hash. This is what `SessionsFollowPassword`
needs of logins that are between their lookup and their signature when the
password changes.

**ThrottleProofs.** `LocksOK`: a window began in the past and its lockout with it,
so an entry that is locked has not run out and pruning leaves it.
`LockoutHolds` follows. For `FailuresLock` the failures of the watched limit are
split into groups, one for each window: the current one has as many as the entry
counts, the one before fewer than the limit, and whatever is older is a window
older (`Groups`). So 2 * max - 1 failures without a lockout are spread over more
than a window.

**ListenersProofs.** The invariant says who owns which socket. A registered server,
a server being closed, one a handler has captured in order to close it, the one
`Start` has yet to register and the probes of `tryBind` have different addresses;
a handler holds the store's lock exactly from its commit to its last callback, with
memory and file equal. `AppliedOK` is about the time within an update: as long as
none was applied during `Start`, what a handler has captured is what is
registered, and what it has not left to bind is where it is configured. Together
they imply `ListenersServe`, `NoLeakedListener`, `ChangesApplied` and
`MovesArePersisted`.

**LogProofs** (sequences). What a restart or `Recent` reads is the result of a fold
over the cells of a file, so it takes induction over data. The induction theorems of
the library have an operator as parameter, which the provers cannot instantiate;
`SetInduction` and `BoundedInduction` are stated about a *set* of numbers instead and
follow from `<` being well founded on the naturals. `RecursiveFunction` uses them to
show that a function defined step by step exists, which makes the recursive functions
of the models (`Keep` and the folds that split a file into lines) usable. Then:
`KeepFacts`, what `Keep` returns and where it finds it; `SameLists`, two increasing
lists of the same numbers are equal; and facts about parts of a sequence.

**LogProofs** (activity log). `LogInv` is about the cells that are or will be on file,
written and buffered together: they are sorted by entry and by place in the line, lie
between `cleared` and the next number, and as long as nothing was lost each follows
the one before without a gap up to the newest; the ring is likewise sorted and solid;
and `fileSize` is exact while the writer works and the size was told at opening. A rotation or a partial write leaves a
part of such a sequence, which is sorted again but may begin or end within a line
(`PartSorted`, `EndPartChain`). `LinesRise` and `LinesGapless` carry sortedness and the
absence of gaps through reading lines, so a restart loads such a ring again. Hence
`LogOrdered`, `ClearedStaysCleared`, `NoGaps` and `SizeExact`. For `FileBounded` the
size is followed through one entry (`WriteSize`): with an exact size, either the line
fits as it is, or the file is halved first and is then smaller than before or has room
for the line.

**LogProofs** (audit log). `MissedSeen`: an update that waits for its record while its
account cannot be found was marked when that began; so what `auditUserUpdate` skips is
what `AckedRecorded` excepts, even if the account is removed and imported again, or an
index built again, in between. `SizeOK`, with a lemma for each file operation: without a failure the size is
that of the file, and half of a file that exceeds its limit by at most a newline leaves
room for a line. `AInv` adds `RecordedOnce` (the number of an action is new until it is
recorded, so `order` has no number twice) and `FileInOrder`: each cell on file has a
place in `order`, and the places and the cells within a place increase (`Places`);
without a failure they leave nothing out (`Unbroken`) and the file ends with a line.
`order` itself is not sorted, since handlers record in another order than they commit:
that is why the cells are compared by place. `FileEntries` and `WindowEntries` show
that the fold reads exactly the whole lines of the file, and of a window that starts at
any cell. Together they give `AuditDurable`, `RecentExact` and `AuditRecovers`.

Only model-checked are `EventuallyDecided`, `TunnelReturnsSlot` and
`ForwardReturnsSlot`, because liveness under fairness is out of the prover's reach, and
the two violations under Findings.

## Not modelled

String functions without state (`compilePattern`, `matches`, `normalizeHost`,
`normalizeTarget`, header rewriting), cryptography, TLS, the transport of
`net/http`, JSON, CSV and timeline views, HTTP routing and the web interface are
out of scope: they keep no state of their own that another component relies on, or
belong to a library. `Store.Config` shares the backing array of the users with
later updates in place: what that does to the rows of `apiUsers` and `apiStatus` is in
`Traffic`, for the ID and the Stats; the other fields of a row can be mixed in the same
way, and `UserStore` treats an export as atomic. `applyTransport` replaces `p.transport`
without a lock while handlers read the pointer; either value serves. The cache of
`isDefaultPassword` only saves time. In `Auth` an account is not renamed: for one
name a rename is a deletion or an import. An admin action whose save fails records
nothing; in `Audit` it is only what it does to the lookups of others, the state it
leaves is in `UserStore` and `Rules`.
Counters are unbounded naturals: `int32` connections and `uint64` bytes do not
overflow in practice.

## Plan

All safety invariants and action properties of the passing runs are proved. What could be
added: the steps of a tunnel in `Serving` as an abstract "open, half closed, closed",
to state more of what `runTunnel` promises between its start and its end.
