------------------------------- MODULE Audit -------------------------------
(***************************************************************************)
(* The audit log (audit.go) and the admin handlers that write to it: a     *)
(* handler commits its change, records it, and replies, in three steps     *)
(* that others interleave with and that the process may stop between.      *)
(* Record appends a line to a file without a buffer and rotates the file   *)
(* to its newest half; Recent reads a window at its end.                   *)
(*                                                                         *)
(* Actions are numbered in the order of their commits.  A line is LineLen  *)
(* cells, the last one its newline: a cell stands for a run of bytes, so   *)
(* that a line can be cut.  Failed file operations are bounded.            *)
(***************************************************************************)
EXTENDS Naturals, Sequences, SequencesExt, SeqFilter

CONSTANTS Handlers,    \* goroutines of admin requests
          None,
          LineLen,     \* cells of a line, its newline included
          FileMax,     \* auditMaxBytes, in cells
          MaxRead,     \* Recent's window of 1 MiB, in cells
          Limits,      \* values of Recent's limit
          MaxActions,  \* bound on the actions of a run
          MaxFaults    \* bound on the failed file operations

ASSUME AuditAssumption ==
  /\ None \notin Nat
  /\ LineLen \in Nat /\ LineLen >= 2
  /\ FileMax \in Nat /\ FileMax >= 2 * LineLen
  /\ MaxRead \in Nat \ {0}
  /\ Limits \subseteq Nat \ {0}
  /\ MaxActions \in Nat /\ MaxFaults \in Nat

VARIABLES
  file,    \* audit.log and the handle, see File
  exists,  \* the account that updates and deletions are about is in memory
  found,   \* ... and FindUser finds it: the index knows its place
  saved,   \* ... and it is in config.json
  act,     \* act[h]: the action of h that is committed and not yet replied to
  next,    \* number of the next action
  order    \* history: the actions in the order of their calls of Record

accounts == <<exists, found, saved>>
vars == <<file, exists, found, saved, act, next, order>>

(* open: a.file is set; size: a.size; faults: operations that have failed. *)
Cell == [n : 1 .. MaxActions, k : 1 .. LineLen]
File == [data : Seq(Cell), open : BOOLEAN, size : Nat, faults : 0 .. MaxFaults]

(* "other": an import among them, which may remove the account or bring it back. *)
Kinds == {"update", "delete", "other"}
(* missed (history): while the update was to be recorded, FindUser did not find the
   account at some time. *)
Action == [n : 1 .. MaxActions, kind : Kinds, at : {"record", "reply"}, missed : BOOLEAN]

Line(n) == [k \in 1 .. LineLen |-> [n |-> n, k |-> k]]
-----------------------------------------------------------------------------
(* strings.Split at the newlines, the piece after the last one included. *)
Cut(acc, c) ==
  IF c.k < LineLen THEN [acc EXCEPT !.cur = Append(@, c)]
  ELSE [cur |-> <<>>, out |-> Append(acc.out, acc.cur)]

Split(cells) ==
  LET acc[i \in 0 .. Len(cells)] ==
        IF i = 0 THEN [cur |-> <<>>, out |-> <<>>] ELSE Cut(acc[i - 1], cells[i])
  IN  Append(acc[Len(cells)].out, acc[Len(cells)].cur)

(* A piece that is the JSON of an entry; one that was cut, or two that run into
   each other, are not. *)
Parses(piece) == piece # <<>> /\ piece = SubSeq(Line(piece[1].n), 1, LineLen - 1)

Number(piece) == IF Parses(piece) THEN piece[1].n ELSE 0

Entries(pieces) == Keep([i \in DOMAIN pieces |-> Number(pieces[i])], 1 .. MaxActions)

OnFile == Entries(Split(file.data))

(* The newest n, newest first. *)
NewestFirst(s, n) == Reverse(SubSeq(s, IF Len(s) > n THEN Len(s) - n + 1 ELSE 1, Len(s)))

(* Where the window of Recent starts. *)
Offset == IF Len(file.data) > MaxRead THEN Len(file.data) - MaxRead ELSE 0

(* Faulty variant: the first piece of a window is always dropped. *)
RecentDropsFirst(limit) ==
  LET pieces == Split(SubSeq(file.data, Offset + 1, Len(file.data))) IN
    IF ~file.open THEN <<>>
    ELSE NewestFirst(Entries(IF Offset > 0 THEN Tail(pieces) ELSE pieces), limit)

(* Recent: a window that does not start a line loses its first piece. *)
Recent(limit) ==
  LET pieces == Split(SubSeq(file.data, Offset + 1, Len(file.data)))
      torn == Offset > 0 /\ file.data[Offset].k # LineLen
  IN  IF ~file.open THEN <<>>
      ELSE NewestFirst(Entries(IF torn THEN Tail(pieces) ELSE pieces), limit)
-----------------------------------------------------------------------------
CanFail(f) == f.faults < MaxFaults
Faulted(f) == [f EXCEPT !.faults = @ + 1]

(* open: the handle, and the size of the file as it is; without Stat's answer
   the size stays what it was. *)
Opened(f) ==
  {[f EXCEPT !.open = TRUE, !.size = Len(f.data)]}
  \cup (IF ~CanFail(f) THEN {}
        ELSE {Faulted([f EXCEPT !.open = o]) : o \in BOOLEAN})

(* Faulty variant: the oldest half is kept. *)
HalvedOld(f) ==
  IF f.data = <<>> THEN {f} ELSE {[f EXCEPT !.data = SubSeq(@, 1, Len(@) \div 2)]}

(* The newest half replaces the file; a failure leaves the file alone, except
   that a short read is not noticed. *)
Halved(f) ==
  LET half == SubSeq(f.data, Len(f.data) \div 2 + 1, Len(f.data)) IN
  IF f.data = <<>> THEN {f}
  ELSE {[f EXCEPT !.data = half]}
       \cup (IF ~CanFail(f) THEN {}
             ELSE {Faulted([f EXCEPT !.data = d]) :
                     d \in {f.data} \cup {SubSeq(half, 1, k) : k \in 0 .. Len(half) - 1}})

rotateLocked(f) == UNION {Opened([h EXCEPT !.open = FALSE, !.size = 0]) : h \in Halved(f)}

(* Faulty variant: the size grows by the line without its newline. *)
WrittenShort(f, line) == {[f EXCEPT !.data = @ \o line, !.size = @ + Len(line) - 1]}

(* The line, or part of it and an error, after which size is as before. *)
Written(f, line) ==
  {[f EXCEPT !.data = @ \o line, !.size = @ + Len(line)]}
  \cup (IF ~CanFail(f) THEN {}
        ELSE {Faulted([f EXCEPT !.data = @ \o SubSeq(line, 1, k)]) : k \in 0 .. Len(line) - 1})

(* Record: what the file may be afterwards. *)
Recorded(f, line) ==
  IF ~f.open THEN {f}
  ELSE IF f.size + Len(line) - 1 > FileMax
  THEN UNION {IF r.open THEN Written(r, line) ELSE {r} : r \in rotateLocked(f)}
  ELSE Written(f, line)
-----------------------------------------------------------------------------
(* What a change of the accounts means for an update still to be recorded. *)
Missing(g) ==
  IF act[g] # None /\ act[g].at = "record" /\ act[g].kind = "update" /\ ~found'
  THEN [act[g] EXCEPT !.missed = TRUE]
  ELSE act[g]

(* The change is made and saved, and the index is built again.  An update or a
   deletion needs its account. *)
Commit(h, kind) ==
  /\ act[h] = None /\ next <= MaxActions
  /\ kind \in {"update", "delete"} => exists
  /\ exists' \in CASE kind = "update" -> {TRUE}
                   [] kind = "delete" -> {FALSE}
                   [] kind = "other" -> BOOLEAN
  /\ found' = exists' /\ saved' = exists'
  /\ act' = [g \in Handlers |->
               IF g = h THEN [n |-> next, kind |-> kind, at |-> "record", missed |-> FALSE]
               ELSE Missing(g)]
  /\ next' = next + 1
  /\ UNCHANGED <<file, order>>

(* A change that cannot be saved: it stays in memory, beside the index of the last
   one that could, which may point past or beside the account from now on.  The
   handler replies with the error and records nothing. *)
CommitUnsaved ==
  /\ exists' \in BOOLEAN
  /\ found' \in {FALSE, exists' /\ saved}
  /\ act' = [g \in Handlers |-> Missing(g)]
  /\ UNCHANGED <<file, saved, next, order>>

(* Faulty variant: every kind of action looks its account up again. *)
SkipsAll(h) == act[h].kind \in {"update", "delete"} /\ ~found

(* auditUserUpdate looks the account up again, and records nothing if it does not
   find it. *)
Skips(h) == act[h].kind = "update" /\ ~found

RecordAction(h) ==
  /\ act[h] # None /\ act[h].at = "record"
  /\ IF Skips(h) THEN UNCHANGED <<file, order>>
     ELSE /\ file' \in Recorded(file, Line(act[h].n))
          /\ order' = Append(order, act[h].n)
  /\ act' = [act EXCEPT ![h].at = "reply"]
  /\ UNCHANGED <<accounts, next>>

Reply(h) ==
  /\ act[h] # None /\ act[h].at = "reply"
  /\ act' = [act EXCEPT ![h] = None]
  /\ UNCHANGED <<file, accounts, next, order>>

(* The process stops, with whatever its handlers had left to do, and starts with
   the accounts of config.json. *)
Restart ==
  /\ file' \in Opened([file EXCEPT !.open = FALSE, !.size = 0])
  /\ act' = [h \in Handlers |-> None]
  /\ exists' = saved /\ found' = saved
  /\ UNCHANGED <<saved, next, order>>

Init ==
  /\ file = [data |-> <<>>, open |-> TRUE, size |-> 0, faults |-> 0]
  /\ exists = TRUE /\ found = TRUE /\ saved = TRUE
  /\ act = [h \in Handlers |-> None]
  /\ next = 1
  /\ order = <<>>

Next ==
  \/ \E h \in Handlers : RecordAction(h) \/ Reply(h) \/ \E kind \in Kinds : Commit(h, kind)
  \/ CommitUnsaved
  \/ Restart

Spec == Init /\ [][Next]_vars
-----------------------------------------------------------------------------
(* Types of the state; without a handle the size is 0. *)
TypeOK ==
  /\ file \in File
  /\ ~file.open => file.size = 0
  /\ exists \in BOOLEAN /\ saved \in BOOLEAN
  /\ found \in BOOLEAN /\ (found => exists)
  /\ act \in [Handlers -> Action \cup {None}]
  /\ next \in 1 .. MaxActions + 1
  /\ order \in Seq(1 .. MaxActions)

(* An action that is going to be replied to with success has been handed to Record
   (what then is on file: AuditDurable and AuditRecovers), unless it was an update
   and, before auditUserUpdate looked its account up again, another action removed
   that account, or changed the list and failed to save it. *)
AckedRecorded ==
  \A h \in Handlers : act[h] # None /\ act[h].at = "reply" =>
    act[h].n \in Range(order) \/ (act[h].kind = "update" /\ act[h].missed)

(* What is on file is on it once and in the order of recording, whatever fails;
   and without a failure it is all that was recorded, back to where the last
   rotation cut, crashes and restarts notwithstanding. *)
AuditDurable ==
  /\ OnFile = Keep(order, Range(OnFile))
  /\ file.faults = 0 => IsSuffix(OnFile, order) /\ (order # <<>> => OnFile # <<>>)

(* A failed write costs the line it was to write and, at most, the next one,
   which is glued to the rest: a record that meets no failure itself is on file,
   unless the file ended within a line. *)
EndsWithinLine(cells) == cells # <<>> /\ cells[Len(cells)].k # LineLen

AuditRecovers ==
  [][order' # order /\ file'.open /\ file'.faults = file.faults =>
       \/ order'[Len(order')] \in Range(OnFile') /\ ~EndsWithinLine(file'.data)
       \/ EndsWithinLine(file.data) /\ ~EndsWithinLine(file'.data)]_vars

(* Recent returns every line that lies in its window as a whole, and no more
   than the limit, newest first: the window may start between two lines. *)
RecentExact ==
  LET whole == {n \in Range(OnFile) :
                  \E i \in DOMAIN file.data : i > Offset /\ file.data[i] = [n |-> n, k |-> 1]}
  IN  file.open =>
        \A limit \in Limits :
          Recent(limit) = NewestFirst(Keep(OnFile, whole), limit)

(* The state is well typed; and size, which decides when to rotate, is that of
   the file, so without a fault the file stays within its limit, but for the
   newline the test leaves out. *)
AuditBounded ==
  /\ TypeOK
  /\ file.faults = 0 => file.size = Len(file.data) /\ file.size <= FileMax + 1
=============================================================================
