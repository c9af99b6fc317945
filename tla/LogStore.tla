----------------------------- MODULE LogStore ------------------------------
(***************************************************************************)
(* The activity log (logstore.go): a bounded ring in memory and a JSONL    *)
(* file behind a bufio.Writer, rotated to its newest half.  Every method   *)
(* holds l.mu, so each is one action; what makes it hard is that rotation  *)
(* cuts the file at a byte offset, the buffer reaches the file in pieces,  *)
(* the process may stop at any point, and every file operation may fail.   *)
(*                                                                         *)
(* Entries are numbered in the order of Add.  A line is LogLine cells, the *)
(* last one its newline: a cell stands for a run of bytes, so that a line  *)
(* can be cut.  Failures are counted and bounded by LogFaults.             *)
(***************************************************************************)
EXTENDS Naturals, Sequences, SeqFilter

CONSTANTS LogLine,    \* cells of a line, its newline included
          BufCap,     \* cells of the bufio.Writer
          LogSizes,   \* values of logs.file_max_mb other than 0, in cells
          RingSizes,  \* values of logs.ring_size
          MaxAdds,    \* bound on the entries a run adds
          LogFaults   \* bound on the failed file operations

ASSUME LogAssumption ==
  /\ LogLine \in Nat /\ LogLine >= 2
  /\ BufCap \in Nat /\ BufCap >= LogLine
  /\ LogSizes \subseteq Nat /\ LogSizes # {} /\ \A m \in LogSizes : m >= 2 * LogLine
  /\ RingSizes \subseteq Nat \ {0} /\ RingSizes # {}
  /\ MaxAdds \in Nat /\ LogFaults \in Nat

VARIABLES
  entries,    \* LogStore.entries
  log,        \* the file and its writer, see LogFile
  ring,       \* logs.ring_size
  toFile,     \* logs.to_file and logs.file_max_mb > 0
  fileMax,    \* logs.file_max_mb when it is not 0
  nextEntry,  \* number of the next entry
  cleared,    \* history: the last entry emptied by a Clear that truncated the file
  clean       \* history: no fault, no lost buffer, no entry left out of the file

logSettings == <<ring, toFile, fileMax>>
logVars == <<entries, log, ring, toFile, fileMax, nextEntry, cleared, clean>>

(* open: l.file and l.bw are set; err: the sticky error of bufio.Writer;
   fileSize: l.fileSize; sized (history): Stat has told the size of the open file;
   faults: how many operations have failed so far. *)
EntryCell == [e : 1 .. MaxAdds, k : 1 .. LogLine]
LogFile == [data : Seq(EntryCell), buf : Seq(EntryCell), fileSize : Nat,
            open : BOOLEAN, err : BOOLEAN, sized : BOOLEAN, faults : 0 .. LogFaults]

EntryLine(n) == [k \in 1 .. LogLine |-> [e |-> n, k |-> k]]

(* The last n elements, or all of them. *)
Newest(s, n) == SubSeq(s, IF Len(s) > n THEN Len(s) - n + 1 ELSE 1, Len(s))
-----------------------------------------------------------------------------
(* What a reader of the file makes of it: complete lines, in order; 0 for one
   that is not the JSON of an entry (cut, or run together with another). An
   empty line is skipped, and so is a last line without its newline. *)
Feed(acc, c) ==
  IF c.k < LogLine THEN [acc EXCEPT !.cur = Append(@, c)]
  ELSE IF acc.cur = <<>> THEN acc
  ELSE [cur |-> <<>>,
        out |-> Append(acc.out, IF Append(acc.cur, c) = EntryLine(c.e) THEN c.e ELSE 0)]

Lines(cells) ==
  LET acc[i \in 0 .. Len(cells)] ==
        IF i = 0 THEN [cur |-> <<>>, out |-> <<>>] ELSE Feed(acc[i - 1], cells[i])
  IN  acc[Len(cells)].out
Valid(lines) == Keep(lines, 1 .. MaxAdds)
Decode(cells) == Valid(Lines(cells))

(* One more failure, if the bound allows it. *)
LogCanFail(d) == d.faults < LogFaults

(* Faulty variant: the buffer is not emptied once it is written. *)
FlushedKept(d) == IF ~d.open \/ d.err THEN {d} ELSE {[d EXCEPT !.data = @ \o d.buf]}

(* bw.Flush: everything is written; or some of it, and the writer fails from
   then on.  Every caller ignores the error. *)
Flushed(d) ==
  IF ~d.open \/ d.err \/ d.buf = <<>> THEN {d}
  ELSE {[d EXCEPT !.data = @ \o d.buf, !.buf = <<>>]}
       \cup {[d EXCEPT !.data = @ \o SubSeq(d.buf, 1, k),
                       !.buf = SubSeq(@, k + 1, Len(@)),
                       !.err = TRUE, !.faults = @ + 1] :
               k \in IF LogCanFail(d) THEN 0 .. Len(d.buf) - 1 ELSE {}}

(* bw.Write of one line: what does not fit fills the buffer and flushes it. *)
LogWritten(d, line) ==
  LET room == BufCap - Len(d.buf) IN
  IF d.err THEN {d}
  ELSE IF Len(line) <= room
  THEN {[d EXCEPT !.buf = @ \o line, !.fileSize = @ + Len(line)]}
  ELSE {IF f.err THEN f
        ELSE [f EXCEPT !.buf = SubSeq(line, room + 1, Len(line)), !.fileSize = @ + Len(line)] :
          f \in Flushed([d EXCEPT !.buf = @ \o SubSeq(line, 1, room)])}

(* Faulty variant: the size of an existing file is not looked up. *)
OpenedUnsized(d) ==
  {[d EXCEPT !.open = TRUE, !.buf = <<>>, !.err = FALSE, !.fileSize = 0, !.sized = TRUE]}

(* openFile: an append handle over the file as it is, or none; or one over a file
   that Stat does not tell the size of: fileSize is then 0, as before openFile. *)
LogOpened(d) ==
  LET fresh == [d EXCEPT !.buf = <<>>, !.err = FALSE, !.fileSize = 0] IN
  {[fresh EXCEPT !.open = TRUE, !.fileSize = Len(d.data), !.sized = TRUE]}
  \cup {[fresh EXCEPT !.open = o, !.sized = ~o, !.faults = @ + 1] :
          o \in IF LogCanFail(d) THEN BOOLEAN ELSE {}}

(* The rewrite of rotateLocked: the newest half replaces the file (temporary
   file and rename); a failure leaves the file alone, except that a failed
   read is ignored and keeps what was read. *)
LogHalved(d) ==
  LET size == Len(d.data)
      half == SubSeq(d.data, size \div 2 + 1, size) IN
  IF size \div 2 = 0 THEN {d}
  ELSE {[d EXCEPT !.data = half]}
       \cup {[d EXCEPT !.data = x, !.faults = @ + 1] :
               x \in IF LogCanFail(d)
                     THEN {d.data} \cup {SubSeq(half, 1, k) : k \in 0 .. Len(half) - 1}
                     ELSE {}}

(* Faulty variant: what is still in the buffer is dropped. *)
rotateUnflushed(d) == UNION {LogOpened(h) : h \in LogHalved(d)}

(* rotateLocked. *)
rotateLog(d) == UNION {UNION {LogOpened(h) : h \in LogHalved(f)} : f \in Flushed(d)}

(* Faulty variant: the line that is to be written is not counted. *)
writeFileLate(d, line, maxBytes) ==
  IF ~d.open THEN {d}
  ELSE IF d.fileSize > maxBytes
  THEN UNION {IF r.open THEN LogWritten(r, line) ELSE {r} : r \in rotateLog(d)}
  ELSE LogWritten(d, line)

(* writeFileLocked: nothing without a writer; rotate, once, when the line, its
   newline not counted, would exceed the limit. *)
writeFileLocked(d, line, maxBytes) ==
  IF ~d.open THEN {d}
  ELSE IF d.fileSize + Len(line) - 1 > maxBytes
  THEN UNION {IF r.open THEN LogWritten(r, line) ELSE {r} : r \in rotateLog(d)}
  ELSE LogWritten(d, line)
-----------------------------------------------------------------------------
Add ==
  /\ nextEntry <= MaxAdds
  /\ entries' = Newest(Append(entries, nextEntry), ring)
  /\ log' \in IF toFile THEN writeFileLocked(log, EntryLine(nextEntry), fileMax) ELSE {log}
  /\ nextEntry' = nextEntry + 1
  /\ clean' = (clean /\ toFile /\ log'.faults = log.faults)
  /\ UNCHANGED <<logSettings, cleared>>

Flush ==
  /\ log' \in Flushed(log)
  /\ clean' = (clean /\ log'.faults = log.faults)
  /\ UNCHANGED <<entries, logSettings, nextEntry, cleared>>

(* Faulty variant: reopened without O_TRUNC. *)
TruncatedNot(d) == {[f EXCEPT !.err = FALSE, !.fileSize = 0] : f \in Flushed(d)}

(* Clear: flush, close and reopen with O_TRUNC; without a file only the ring
   is emptied. *)
Truncated(d) ==
  UNION {{[f EXCEPT !.data = <<>>, !.buf = <<>>, !.err = FALSE, !.fileSize = 0, !.sized = TRUE]}
         \cup {[f EXCEPT !.open = FALSE, !.buf = <<>>, !.err = FALSE, !.fileSize = 0, !.sized = TRUE,
                         !.faults = @ + 1] : x \in {y \in {0} : LogCanFail(f)}} :
         f \in Flushed(d)}

Clear ==
  /\ entries' = <<>>
  /\ log' \in IF log.open THEN Truncated(log) ELSE {log}
  /\ cleared' = IF log'.open THEN nextEntry - 1 ELSE cleared
  /\ clean' = (clean /\ log'.faults = log.faults)
  /\ UNCHANGED <<logSettings, nextEntry>>

(* The settings an Add reads; the file is left as it is, also when it is larger
   than the new limit. *)
ChangeLogs(r, f, m) ==
  /\ ring' = r /\ toFile' = f /\ fileMax' = m
  /\ UNCHANGED <<entries, log, nextEntry, cleared, clean>>

(* loadFile: the newest lines, unreadable ones dropped after counting. *)
Loaded(d) ==
  IF d.open /\ toFile THEN Valid(Newest(Lines(d.data), ring)) ELSE <<>>

(* The process ends, with what is in the buffer, and starts: NewLogStore, where
   reading the file back may fail as well. *)
LogRestart ==
  /\ \E d \in LogOpened(log) :
       \/ log' = d /\ entries' = Loaded(d)
       \/ LogCanFail(d) /\ log' = [d EXCEPT !.faults = @ + 1] /\ entries' = <<>>
  /\ clean' = (clean /\ log.buf = <<>> /\ log'.faults = log.faults)
  /\ UNCHANGED <<logSettings, nextEntry, cleared>>

LogInit ==
  /\ entries = <<>>
  /\ log = [data |-> <<>>, buf |-> <<>>, fileSize |-> 0, open |-> TRUE,
            err |-> FALSE, sized |-> TRUE, faults |-> 0]
  /\ ring \in RingSizes /\ toFile \in BOOLEAN /\ fileMax \in LogSizes
  /\ nextEntry = 1 /\ cleared = 0 /\ clean = TRUE

LogNext ==
  \/ Add \/ Flush \/ Clear \/ LogRestart
  \/ \E r \in RingSizes, f \in BOOLEAN, m \in LogSizes : ChangeLogs(r, f, m)

LogSpec == LogInit /\ [][LogNext]_logVars
-----------------------------------------------------------------------------
LogOnFile == Decode(log.data \o log.buf)

(* Types of the state. *)
LogTypeOK ==
  /\ entries \in Seq(1 .. MaxAdds)
  /\ log \in LogFile
  /\ ring \in RingSizes /\ toFile \in BOOLEAN /\ fileMax \in LogSizes
  /\ nextEntry \in 1 .. MaxAdds + 1 /\ cleared \in 0 .. MaxAdds /\ clean \in BOOLEAN

Increasing(s) == \A i, j \in DOMAIN s : i < j => s[i] < s[j]

(* No entry appears twice or out of order, in the ring or in the file, through
   rotations that cut lines, half-written buffers, failures and restarts. *)
LogOrdered == Increasing(entries) /\ Increasing(LogOnFile)

(* Clear: "a restart cannot resurrect the cleared entries", provided the file
   could be truncated. *)
ClearedStaysCleared ==
  /\ \A i \in DOMAIN entries : entries[i] > cleared
  /\ \A i \in DOMAIN LogOnFile : LogOnFile[i] > cleared

(* Without a fault or a lost buffer nothing is missing: ring and file each end
   with the newest entry and have no gap, whatever rotation cuts off. *)
NoGaps ==
  clean => \A s \in {entries, LogOnFile} :
    s = <<>> \/ \A i \in DOMAIN s : s[i] = nextEntry - 1 - Len(s) + i

(* The state is well typed; and l.fileSize, which decides when to rotate, never
   drifts from the bytes that are or will be in the file, as long as the writer
   works and Stat told the size when the file was opened. *)
Size == Len(log.data) + Len(log.buf)

SizeExact == LogTypeOK /\ (log.open /\ ~log.err /\ log.sized => log.fileSize = Size)

(* The file keeps to file_max_mb, but for the newline the test leaves out: each
   entry that is written leaves it within the limit in force, or, after the limit
   was lowered, smaller than before (a rotation only halves it, once for an entry);
   nothing else makes it grow.  An operation that fails, and a size that could not
   be told, are excepted. *)
FileBounded ==
  [][log.sized /\ log'.faults = log.faults =>
       IF nextEntry' # nextEntry /\ toFile /\ log'.open /\ ~log'.err
       THEN Size' <= fileMax + 1 \/ Size' < Size
       ELSE Size' <= Size]_logVars
=============================================================================
