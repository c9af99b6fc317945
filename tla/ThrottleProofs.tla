-------------------------- MODULE ThrottleProofs ---------------------------
(***************************************************************************)
(* Proofs about Throttle, for any attempts, clients and accounts and any   *)
(* limits whose lockouts end before their windows do.  The failures of one *)
(* limit come in groups, one for each window that was opened; the last     *)
(* group is what the entry counts.                                         *)
(***************************************************************************)
EXTENDS Throttle, TLAPS

(* A window began in the past, and a lockout with its window. *)
LocksOK ==
  \A k \in Keys : fails[k] # None =>
    /\ fails[k].window <= now
    /\ fails[k].until # 0 => fails[k].until <= fails[k].window + Lockout[k[1]]

(* The failures that an entry counts: the last ones of recent. *)
Counted(e) == IF e = None THEN 0 ELSE e.count

(* A group has fewer failures than the limit. *)
Full == MaxFails[Watched[1]] - 1

(* With entry e and failures s at time t: the failures before the current group
   are not younger than its window; those that the group before cannot hold are
   older than it, or than now, by a window.  After a lockout everything is in one
   group, whenever the lockout ends. *)
Groups(e, s, t) ==
  /\ \A i \in 1 .. Len(s) : s[i] <= t
  /\ Counted(e) <= Len(s)
  /\ e # None => \A i \in 1 .. Len(s) : i <= Len(s) - Counted(e) => s[i] <= e.window
  /\ \A i \in 1 .. Len(s) : i + Full <= Len(s) - Counted(e) =>
       s[i] + Window[Watched[1]] < IF e = None THEN t ELSE e.window
  /\ e # None /\ e.until # 0 => Counted(e) = Len(s)

GroupsOK == Groups(fails[Watched], recent, now)

IInv == TypeOK /\ LocksOK /\ GroupsOK
-----------------------------------------------------------------------------
(* The limits of a key's kind. *)
LEMMA KeyFacts ==
  ASSUME NEW k \in Keys
  PROVE  /\ k[1] \in Kinds
         /\ MaxFails[k[1]] \in Nat \ {0} /\ Window[k[1]] \in Nat
         /\ Lockout[k[1]] \in Nat \ {0} /\ Lockout[k[1]] <= Window[k[1]]
<1>1. k[1] \in Kinds
  BY DEF Keys, Kinds
<1>2. QED
  BY <1>1, ThrottleAssumption DEF ThrottleAssumption

(* None is told apart from every entry, attempt and account. *)
LEMMA NoneFacts == None \notin Entry /\ None \notin Attempt /\ None \notin Accounts
  BY NoneAssumption DEF NoneAssumption

(* How many limits an attempt has to do with. *)
Size(x) == IF x.account = None THEN 1 ELSE 2

(* An attempt under way has a limit left to go through. *)
LEMMA AttemptFacts ==
  ASSUME TypeOK, NEW a \in Attempts, att[a] # None
  PROVE  /\ att[a] \in Attempt
         /\ Len(Limits(a)) = Size(att[a]) /\ att[a].done < Size(att[a])
         /\ Key(a) \in Keys
<1>1. att[a] \in Attempt
  BY DEF TypeOK
<1>2. Len(Limits(a)) = Size(att[a])
  BY DEF Limits, Size
<1>3. att[a].done \in Nat /\ att[a].done < Size(att[a])
  BY <1>1, <1>2 DEF TypeOK, Attempt
<1> DEFINE addr == IF att[a].via = "login" THEN <<"login", att[a].client>>
                                             ELSE <<"proxy", att[a].client>>
           name == <<"account", att[a].account>>
<1>4. addr \in Keys /\ (att[a].account # None => name \in Keys)
  BY <1>1 DEF Attempt, Keys
<1>5. Limits(a) = IF att[a].account = None THEN <<addr>> ELSE <<addr, name>>
  BY DEF Limits
<1> HIDE DEF addr, name
<1>6. CASE att[a].account = None
  <2>1. att[a].done + 1 = 1
    BY <1>3, <1>6 DEF Size
  <2>2. QED
    BY <1>1, <1>2, <1>3, <1>4, <1>5, <1>6, <2>1 DEF Key
<1>7. CASE att[a].account # None
  <2>1. att[a].done + 1 \in {1, 2}
    BY <1>3, <1>7 DEF Size
  <2>2. QED
    BY <1>1, <1>2, <1>3, <1>4, <1>5, <1>7, <2>1 DEF Key
<1>8. QED
  BY <1>6, <1>7

(* An attempt that changes to x. *)
AttemptsOK ==
  /\ att \in [Attempts -> Attempt \cup {None}]
  /\ \A a \in Attempts : att[a] # None => att[a].done < Len(Limits(a))

(* Changing one attempt keeps them all in order. *)
LEMMA AttemptStep ==
  ASSUME TypeOK, NEW a \in Attempts, NEW x \in Attempt \cup {None}, att' = [att EXCEPT ![a] = x],
         x # None => x.done < Size(x)
  PROVE  AttemptsOK'
<1>1. att \in [Attempts -> Attempt \cup {None}] /\ att'[a] = x /\ \A b \in Attempts \ {a} : att'[b] = att[b]
  BY DEF TypeOK
<1>2. att' \in [Attempts -> Attempt \cup {None}]
  BY <1>1
<1>3. ASSUME NEW b \in Attempts, att'[b] # None PROVE att'[b].done < Len(Limits(b)')
  <2>1. Len(Limits(b)') = Size(att'[b])
    BY DEF Limits, Size
  <2>2. CASE b = a
    BY <1>1, <1>3, <2>1, <2>2
  <2>3. CASE b # a
    BY <1>1, <1>3, <2>1, <2>3, AttemptFacts
  <2>4. QED
    BY <2>2, <2>3
<1>4. QED
  BY <1>2, <1>3 DEF AttemptsOK

(* On to the next limit, or to the next step, or away. *)
LEMMA ProceedStep ==
  ASSUME TypeOK, NEW a \in Attempts, att[a] # None, NEW next \in {"verify", "return"}, Proceed(a, next)
  PROVE  AttemptsOK'
<1>1. /\ att[a] \in Attempt /\ att[a].done \in Nat /\ att[a].done < Size(att[a])
      /\ Last(a) <=> att[a].done + 1 = Size(att[a])
      /\ Size(att[a]) \in {1, 2}
  <2>1. att[a] \in Attempt /\ Len(Limits(a)) = Size(att[a]) /\ att[a].done < Size(att[a])
    BY AttemptFacts
  <2>2. att[a].done \in Nat
    BY <2>1 DEF Attempt
  <2>3. Size(att[a]) \in {1, 2}
    BY DEF Size
  <2>4. QED
    BY <2>1, <2>2, <2>3 DEF Last
<1>2. CASE ~Last(a)
  <2> DEFINE d == att[a].done + 1
             x == [att[a] EXCEPT !.done = d]
  <2>1. d \in Nat /\ d < Size(att[a])
    BY <1>1, <1>2
  <2>2. att' = [att EXCEPT ![a] = x]
    BY <1>2 DEF Proceed
  <2> HIDE DEF d
  <2>3. x \in Attempt /\ x.done = d /\ x.account = att[a].account
    BY <1>1, <2>1 DEF Attempt
  <2>4. x.done < Size(x)
    BY <2>1, <2>3 DEF Size
  <2> HIDE DEF x
  <2>5. QED
    BY <2>2, <2>3, <2>4, AttemptStep
<1>3. CASE Last(a) /\ next = "return"
  BY <1>3, AttemptStep DEF Proceed
<1>4. CASE Last(a) /\ next = "verify"
  <2> DEFINE x == [att[a] EXCEPT !.at = "verify", !.done = 0]
  <2>1. att' = [att EXCEPT ![a] = x]
    BY <1>4 DEF Proceed
  <2>2. x \in Attempt /\ x.done = 0 /\ x.account = att[a].account
    BY <1>1 DEF Attempt
  <2>3. x.done < Size(x)
    BY <2>2 DEF Size
  <2> HIDE DEF x
  <2>4. QED
    BY <2>1, <2>2, <2>3, AttemptStep
<1>5. QED
  BY <1>2, <1>3, <1>4
-----------------------------------------------------------------------------
(* An entry that the invariant allows at time t. *)
EntryOK(k, e, t) ==
  /\ e \in Entry \cup {None}
  /\ e # None => /\ e.count < MaxFails[k[1]] /\ e.window <= t
                 /\ e.until # 0 => e.until <= e.window + Lockout[k[1]]

(* The failure opens a window of its own. *)
Fresh(k, e, t) == e = None \/ Elapsed(k, e, t)

(* What loginFail and its like make of an entry. *)
LEMMA FailedFacts ==
  ASSUME NEW k \in Keys, NEW e, NEW t \in Nat, EntryOK(k, e, t),
         NEW f, f = Failed(k, e, t)
  PROVE  /\ EntryOK(k, f, t) /\ f \in Entry
         /\ Reached(k, e, t) => f.count = 0 /\ f.window = t /\ f.until = t + Lockout[k[1]]
         /\ ~Reached(k, e, t) /\ Fresh(k, e, t) =>
              f.count = 1 /\ f.window = t /\ f.until = 0 /\ 1 < MaxFails[k[1]]
         /\ ~Reached(k, e, t) /\ ~Fresh(k, e, t) =>
              f.count = e.count + 1 /\ f.window = e.window /\ f.until = e.until
<1> DEFINE m == MaxFails[k[1]]
           o == Opened(k, e, t)
           c == o.count + 1
<1>1. m \in Nat \ {0} /\ Lockout[k[1]] \in Nat \ {0}
  BY KeyFacts
<1>2. /\ o \in Entry /\ o.count < m /\ o.window <= t
      /\ o.until # 0 => o.until <= o.window + Lockout[k[1]]
      /\ Fresh(k, e, t) => o.count = 0 /\ o.window = t /\ o.until = 0
      /\ ~Fresh(k, e, t) => o = e
  BY <1>1 DEF Opened, Entry, EntryOK, Fresh
<1>3. o.count \in Nat /\ o.window \in Nat /\ o.until \in Nat /\ c \in Nat
  BY <1>2 DEF Entry
<1>4. CASE Reached(k, e, t)
  <2>1. f = [count |-> 0, window |-> t, until |-> t + Lockout[k[1]]]
    BY <1>4 DEF Failed
  <2>2. QED
    BY <1>1, <1>4, <2>1 DEF Entry, EntryOK
<1>5. CASE ~Reached(k, e, t)
  <2>1. f = [o EXCEPT !.count = c]
    BY <1>5 DEF Failed
  <2>2. c < m
    BY <1>1, <1>3, <1>5 DEF Reached
  <2> HIDE DEF c
  <2>3. f \in Entry /\ f.count = c /\ f.window = o.window /\ f.until = o.until
    BY <1>2, <1>3, <2>1 DEF Entry
  <2> USE DEF c
  <2>4. EntryOK(k, f, t)
    BY <1>2, <2>2, <2>3 DEF EntryOK
  <2>5. QED
    BY <1>2, <1>5, <2>2, <2>3, <2>4
<1>6. QED
  BY <1>4, <1>5
-----------------------------------------------------------------------------
(* The numbers of the watched limit. *)
LEMMA WatchedFacts ==
  /\ Watched \in Keys /\ Full \in Nat /\ MaxFails[Watched[1]] = Full + 1
  /\ Window[Watched[1]] \in Nat /\ Depth = 2 * Full
<1>1. Watched \in Keys
  BY ThrottleAssumption DEF ThrottleAssumption
<1>2. QED
  BY <1>1, KeyFacts DEF Full, Depth

(* The clock goes on. *)
LEMMA GroupsLater ==
  ASSUME NEW e \in Entry \cup {None}, NEW s \in Seq(Nat), NEW t \in Nat, NEW u \in Nat, t <= u,
         Groups(e, s, t)
  PROVE  Groups(e, s, u)
<1>1. \A i \in 1 .. Len(s) : s[i] \in Nat
  OBVIOUS
<1>2. QED
  BY <1>1, WatchedFacts DEF Groups

(* A window that has passed: the failures that are not among its own, which are at
   most Full, are older than now by a window; after a lockout there are none. *)
LEMMA GroupsElapsed ==
  ASSUME NEW e, NEW s \in Seq(Nat), NEW t \in Nat, EntryOK(Watched, e, t), Groups(e, s, t),
         e # None => e.until # 0 \/ Elapsed(Watched, e, t)
  PROVE  \A i \in 1 .. Len(s) : i + Full <= Len(s) => s[i] + Window[Watched[1]] < t
<1> SUFFICES ASSUME NEW i \in 1 .. Len(s), i + Full <= Len(s)
             PROVE  s[i] + Window[Watched[1]] < t
  OBVIOUS
<1>0. s[i] \in Nat /\ Len(s) \in Nat
  OBVIOUS
<1>1. CASE e = None
  BY <1>0, <1>1, WatchedFacts DEF Groups, Counted
<1>2. CASE e # None
  <2>1. e \in Entry /\ e.count \in Nat /\ e.window \in Nat /\ Counted(e) = e.count /\ e.count <= Full
    BY <1>2, WatchedFacts DEF EntryOK, Entry, Counted
  <2>2. i <= Len(s) - e.count /\ e.count # Len(s)
    BY <1>0, <2>1, WatchedFacts
  <2>3. e.until = 0
    BY <1>2, <2>1, <2>2 DEF Groups
  <2>4. s[i] <= e.window
    BY <1>2, <2>1, <2>2 DEF Groups
  <2>5. t > e.window + Window[Watched[1]]
    BY <1>2, <2>3 DEF Elapsed
  <2>6. QED
    BY <1>0, <2>1, <2>4, <2>5, WatchedFacts
<1>3. QED
  BY <1>1, <1>2

(* An entry that is locked or has run out can be forgotten. *)
LEMMA GroupsDropped ==
  ASSUME NEW e, NEW s \in Seq(Nat), NEW t \in Nat, EntryOK(Watched, e, t), Groups(e, s, t),
         e # None => e.until # 0 \/ Elapsed(Watched, e, t)
  PROVE  Groups(None, s, t)
<1>1. \A i \in 1 .. Len(s) : i + Full <= Len(s) => s[i] + Window[Watched[1]] < t
  BY GroupsElapsed
<1>2. QED
  BY <1>1, WatchedFacts DEF Groups, Counted

(* Without failures there is nothing to account for. *)
LEMMA GroupsCleared ==
  ASSUME NEW t \in Nat
  PROVE  Groups(None, << >>, t)
BY DEF Groups, Counted

(* recent after a failure. *)
Recorded(f, s, t) ==
  IF f.count = 0 THEN << >>
  ELSE IF Len(Append(s, t)) > Depth THEN Tail(Append(s, t)) ELSE Append(s, t)

(* The history of failures stays within its depth. *)
LEMMA RecordedFacts ==
  ASSUME NEW f, NEW s \in Seq(Nat), NEW t \in Nat, Len(s) <= Depth
  PROVE  Recorded(f, s, t) \in Seq(Nat) /\ Len(Recorded(f, s, t)) <= Depth
<1>1. Append(s, t) \in Seq(Nat) /\ Len(Append(s, t)) = Len(s) + 1 /\ Len(s) \in Nat
  OBVIOUS
<1>2. Append(s, t) # << >>
  BY <1>1
<1>3. Tail(Append(s, t)) \in Seq(Nat) /\ Len(Tail(Append(s, t))) = Len(s)
  BY <1>1, <1>2
<1>4. Depth \in Nat
  BY WatchedFacts
<1>5. QED
  BY <1>1, <1>3, <1>4 DEF Recorded

(* The oldest failure is dropped from a list longer than the current group. *)
LEMMA GroupsTail ==
  ASSUME NEW f \in Entry, NEW s \in Seq(Nat), NEW t \in Nat, Groups(f, s, t), f # None,
         f.count <= Full, Len(s) > 2 * Full
  PROVE  Groups(f, Tail(s), t)
<1>1. f.count \in Nat /\ f.window \in Nat /\ Counted(f) = f.count
  BY DEF Entry, Counted
<1>2. /\ Len(s) \in Nat /\ s # << >> /\ Len(Tail(s)) = Len(s) - 1 /\ Full \in Nat
      /\ \A i \in 1 .. Len(s) - 1 : i + 1 \in 1 .. Len(s) /\ Tail(s)[i] = s[i + 1] /\ s[i + 1] \in Nat
  BY WatchedFacts
<1>3. \A i \in 1 .. Len(Tail(s)) : Tail(s)[i] <= t
  BY <1>2 DEF Groups
<1>4. Counted(f) <= Len(Tail(s))
  BY <1>1, <1>2
<1>5. \A i \in 1 .. Len(Tail(s)) : i <= Len(Tail(s)) - Counted(f) => Tail(s)[i] <= f.window
  <2> SUFFICES ASSUME NEW i \in 1 .. Len(Tail(s)), i <= Len(Tail(s)) - Counted(f)
               PROVE  Tail(s)[i] <= f.window
    OBVIOUS
  <2>1. i + 1 \in 1 .. Len(s) /\ i + 1 <= Len(s) - Counted(f)
    BY <1>1, <1>2
  <2>2. QED
    BY <1>2, <2>1 DEF Groups
<1>6. \A i \in 1 .. Len(Tail(s)) : i + Full <= Len(Tail(s)) - Counted(f) =>
        Tail(s)[i] + Window[Watched[1]] < f.window
  <2> SUFFICES ASSUME NEW i \in 1 .. Len(Tail(s)), i + Full <= Len(Tail(s)) - Counted(f)
               PROVE  Tail(s)[i] + Window[Watched[1]] < f.window
    OBVIOUS
  <2>1. i + 1 \in 1 .. Len(s) /\ (i + 1) + Full <= Len(s) - Counted(f)
    BY <1>1, <1>2
  <2>2. QED
    BY <1>2, <2>1 DEF Groups
<1>7. ~(f.until # 0)
  <2>1. Counted(f) # Len(s)
    BY <1>1, <1>2
  <2>2. QED
    BY <2>1 DEF Groups
<1>8. QED
  BY <1>3, <1>4, <1>5, <1>6, <1>7 DEF Groups

(* A failure that does not lock joins the current group or begins a new one. *)
LEMMA GroupsCounted ==
  ASSUME NEW e, NEW s \in Seq(Nat), NEW t \in Nat, EntryOK(Watched, e, t), Groups(e, s, t),
         ~Reached(Watched, e, t), NEW f, f = Failed(Watched, e, t)
  PROVE  Groups(f, Append(s, t), t)
<1> DEFINE r == Append(s, t)
           W == Window[Watched[1]]
<1>0. /\ Len(s) \in Nat /\ Len(r) = Len(s) + 1 /\ W \in Nat /\ Full \in Nat
      /\ \A i \in 1 .. Len(s) : r[i] = s[i] /\ s[i] \in Nat
      /\ r[Len(s) + 1] = t
  BY WatchedFacts
<1>1. f \in Entry /\ f # None /\ Counted(f) = f.count /\ f.count \in Nat /\ f.window \in Nat
  BY WatchedFacts, FailedFacts, NoneFacts DEF Entry, Counted
<1> HIDE DEF r, W
<1>2. \A i \in 1 .. Len(r) : r[i] <= t
  <2>1. \A i \in 1 .. Len(s) : s[i] <= t
    BY DEF Groups
  <2>2. \A i \in 1 .. Len(r) : i \in 1 .. Len(s) \/ i = Len(s) + 1
    BY <1>0
  <2>3. QED
    BY <1>0, <2>1, <2>2
<1>3. CASE Fresh(Watched, e, t)
  <2>1. f.count = 1 /\ f.window = t /\ f.until = 0
    BY <1>3, WatchedFacts, FailedFacts
  <2>2. \A i \in 1 .. Len(s) : i + Full <= Len(s) => s[i] + W < t
    BY <1>3, GroupsElapsed DEF Fresh, W
  <2>3. \A i \in 1 .. Len(r) : i + Full <= Len(r) - 1 => i \in 1 .. Len(s) /\ r[i] + W < t
    BY <1>0, <2>2
  <2>4. QED
    BY <1>0, <1>1, <1>2, <2>1, <2>3 DEF Groups, r, W
<1>4. CASE ~Fresh(Watched, e, t)
  <2>1. e # None /\ e \in Entry /\ e.count \in Nat /\ Counted(e) = e.count
    BY <1>4 DEF Fresh, EntryOK, Entry, Counted
  <2>2. f.count = e.count + 1 /\ f.window = e.window /\ f.until = e.until
    BY <1>4, WatchedFacts, FailedFacts
  <2>3. Len(r) - f.count = Len(s) - e.count
    <3>1. \A n, c \in Nat : (n + 1) - (c + 1) = n - c
      OBVIOUS
    <3>2. QED
      BY <1>0, <2>1, <2>2, <3>1
  <2>4. \A i \in 1 .. Len(r) : i <= Len(s) - e.count => i \in 1 .. Len(s)
    BY <1>0, <2>1
  <2>5. \A i \in 1 .. Len(r) : i <= Len(r) - f.count => r[i] <= f.window
    BY <1>0, <2>1, <2>2, <2>3, <2>4 DEF Groups
  <2>6. \A i \in 1 .. Len(r) : i + Full <= Len(r) - f.count => r[i] + W < f.window
    <3>1. \A i \in 1 .. Len(r) : i + Full <= Len(s) - e.count => i <= Len(s) - e.count
      BY <1>0, <2>1
    <3>2. QED
      BY <1>0, <2>1, <2>2, <2>3, <2>4, <3>1 DEF Groups, W
  <2>7. f.count <= Len(r) /\ (f.until # 0 => f.count = Len(r))
    BY <1>0, <2>1, <2>2 DEF Groups
  <2>8. QED
    BY <1>1, <1>2, <2>5, <2>6, <2>7 DEF Groups, r, W
<1>5. QED
  BY <1>3, <1>4

(* A failure of the watched limit. *)
LEMMA GroupsFailed ==
  ASSUME NEW e, NEW s \in Seq(Nat), NEW t \in Nat, EntryOK(Watched, e, t), Groups(e, s, t),
         Len(s) <= Depth, NEW f, f = Failed(Watched, e, t)
  PROVE  /\ Groups(f, Recorded(f, s, t), t)
         /\ Len(s) = Depth /\ Recorded(f, s, t) # << >> => t > s[1] + Window[Watched[1]]
<1>0. /\ Len(s) \in Nat /\ Append(s, t) \in Seq(Nat) /\ Len(Append(s, t)) = Len(s) + 1
      /\ Full \in Nat /\ Depth = 2 * Full /\ Window[Watched[1]] \in Nat
  BY WatchedFacts
<1>1. f \in Entry /\ f # None /\ f.count \in Nat /\ f.count <= Full
  BY WatchedFacts, FailedFacts, NoneFacts DEF EntryOK, Entry
<1>2. CASE Reached(Watched, e, t)
  <2>1. f.count = 0 /\ Recorded(f, s, t) = << >>
    BY <1>2, WatchedFacts, FailedFacts DEF Recorded
  <2>2. QED
    BY <1>1, <2>1 DEF Groups, Counted
<1>3. CASE ~Reached(Watched, e, t)
  <2>1. f.count # 0
    <3>1. CASE Fresh(Watched, e, t)
      BY <1>3, <3>1, WatchedFacts, FailedFacts
    <3>2. CASE ~Fresh(Watched, e, t)
      <4>1. e.count \in Nat /\ f.count = e.count + 1
        BY <1>3, <3>2, WatchedFacts, FailedFacts DEF Fresh, EntryOK, Entry
      <4>2. QED
        BY <4>1
    <3>3. QED
      BY <3>1, <3>2
  <2>2. Groups(f, Append(s, t), t)
    BY <1>3, GroupsCounted
  <2>3. Groups(f, Recorded(f, s, t), t)
    <3>1. CASE Len(Append(s, t)) > Depth
      BY <1>0, <1>1, <2>1, <2>2, <3>1, GroupsTail DEF Recorded
    <3>2. CASE ~(Len(Append(s, t)) > Depth)
      BY <2>1, <2>2, <3>2 DEF Recorded
    <3>3. QED
      BY <3>1, <3>2
  <2>4. ASSUME Len(s) = Depth PROVE t > s[1] + Window[Watched[1]]
    <3>1. 1 \in 1 .. Len(s) /\ s[1] \in Nat /\ 1 + Full <= Len(s)
      <4>1. Full # 0
        BY <1>0, <1>1, <2>1
      <4>2. 1 \in 1 .. Len(s) /\ 1 + Full <= Len(s)
        BY <1>0, <2>4, <4>1
      <4>3. QED
        BY <4>2
    <3>2. CASE Fresh(Watched, e, t)
      <4>1. s[1] + Window[Watched[1]] < t
        BY <3>1, <3>2, GroupsElapsed DEF Fresh
      <4>2. QED
        BY <1>0, <3>1, <4>1
    <3>3. CASE ~Fresh(Watched, e, t)
      <4>1. /\ e # None /\ e.count \in Nat /\ e.window \in Nat /\ e.window <= t /\ Counted(e) = e.count
            /\ f.count = e.count + 1
        BY <1>3, <3>3, WatchedFacts, FailedFacts DEF Fresh, EntryOK, Entry, Counted
      <4>2. 1 + Full <= Len(s) - Counted(e)
        BY <1>0, <1>1, <2>4, <4>1
      <4>3. s[1] + Window[Watched[1]] < e.window
        BY <3>1, <4>1, <4>2 DEF Groups
      <4>4. QED
        BY <1>0, <3>1, <4>1, <4>3
    <3>4. QED
      BY <3>2, <3>3
  <2>5. QED
    BY <2>3, <2>4
<1>4. QED
  BY <1>2, <1>3
-----------------------------------------------------------------------------
(* The invariant, entry by entry. *)
LEMMA Entries ==
  ASSUME IInv
  PROVE  /\ now \in Nat /\ fails \in [Keys -> Entry \cup {None}]
         /\ \A k \in Keys : EntryOK(k, fails[k], now)
         /\ recent \in Seq(Nat) /\ Len(recent) <= Depth
         /\ Groups(fails[Watched], recent, now)
BY DEF IInv, TypeOK, LocksOK, GroupsOK, EntryOK

(* The parts of the invariant, from what a step leaves. *)
LEMMA Assemble ==
  ASSUME AttemptsOK', now' \in Nat, fails' \in [Keys -> Entry \cup {None}],
         \A k \in Keys : EntryOK(k, fails'[k], now'),
         recent' \in Seq(Nat), Len(recent') <= Depth,
         Groups(fails'[Watched], recent', now')
  PROVE  IInv'
<1>1. TypeOK'
  BY DEF AttemptsOK, TypeOK, EntryOK
<1>2. LocksOK'
  BY DEF LocksOK, EntryOK
<1>3. GroupsOK'
  BY DEF GroupsOK
<1>4. QED
  BY <1>1, <1>2, <1>3 DEF IInv

(* The steps of an attempt that touch no entry. *)
QuietStep(a) ==
  \/ \E c \in Clients :
       \/ \E via \in {"login", "admin", "proxy"}, n \in Accounts \cup {None} : Begin(a, via, c, n)
       \/ \E n \in Accounts \cup {None} : BeginWithSession(a, c, n)
  \/ Refuse(a) \/ BadBody(a) \/ Verify(a) \/ WrongRole(a)

(* Such a step keeps the invariant. *)
LEMMA QuietSteps ==
  ASSUME IInv, NEW a \in Attempts, QuietStep(a)
  PROVE  IInv'
<1>0. TypeOK
  BY DEF IInv
<1>1. ASSUME NEW x \in Attempt, x.done = 0, att' = [att EXCEPT ![a] = x] PROVE AttemptsOK'
  <2>1. x.done < Size(x)
    BY <1>1 DEF Size
  <2>2. QED
    BY <1>0, <1>1, <2>1, AttemptStep
<1>2. AttemptsOK' /\ UNCHANGED <<now, fails, recent>>
  <2>1. ASSUME NEW c \in Clients, NEW via \in {"login", "admin", "proxy"},
               NEW n \in Accounts \cup {None}, Begin(a, via, c, n)
        PROVE  AttemptsOK' /\ UNCHANGED <<now, fails, recent>>
    <3>1. [at |-> "ask", via |-> via, client |-> c, account |-> n, done |-> 0] \in Attempt
      BY DEF Attempt
    <3>2. QED
      BY <1>1, <2>1, <3>1 DEF Begin
  <2>2. ASSUME NEW c \in Clients, NEW n \in Accounts \cup {None}, BeginWithSession(a, c, n)
        PROVE  AttemptsOK' /\ UNCHANGED <<now, fails, recent>>
    <3>1. \A result \in {"fail", "ok"} :
            [at |-> result, via |-> "admin", client |-> c, account |-> n, done |-> 0] \in Attempt
      BY DEF Attempt
    <3>2. QED
      BY <1>1, <2>2, <3>1 DEF BeginWithSession
  <2>3. CASE Refuse(a) \/ BadBody(a) \/ WrongRole(a)
    BY <1>0, <2>3, AttemptStep DEF Refuse, BadBody, WrongRole
  <2>4. CASE Verify(a)
    <3>1. PICK result \in {"fail", "ok"} : att' = [att EXCEPT ![a].at = result]
      BY <2>4 DEF Verify
    <3> DEFINE x == [att[a] EXCEPT !.at = result]
    <3>2. att[a] \in Attempt /\ att[a].done < Size(att[a])
      BY <1>0, <2>4, AttemptFacts DEF Verify, At
    <3>3. x \in Attempt /\ x.done = att[a].done /\ x.account = att[a].account
      BY <3>2 DEF Attempt
    <3>4. x.done < Size(x) /\ att' = [att EXCEPT ![a] = x]
      BY <3>1, <3>2, <3>3 DEF Size
    <3> HIDE DEF x
    <3>5. QED
      BY <1>0, <2>4, <3>3, <3>4, AttemptStep DEF Verify
  <2>5. QED
    BY <2>1, <2>2, <2>3, <2>4 DEF QuietStep
<1>3. QED
  BY <1>2, Entries, Assemble

(* A question forgets an entry only after its lockout or its window. *)
LEMMA AskedFacts ==
  ASSUME NEW k, NEW e, NEW t
  PROVE  \/ Asked(k, e, t) = e
         \/ Asked(k, e, t) = None /\ (e # None => e.until # 0 \/ Elapsed(k, e, t))
<1>1. CASE e = None
  BY <1>1 DEF Asked
<1>2. CASE e # None /\ (e.until # 0 \/ Elapsed(k, e, t))
  BY <1>2 DEF Asked
<1>3. CASE e # None /\ ~(e.until # 0 \/ Elapsed(k, e, t))
  BY <1>3 DEF Asked
<1>4. QED
  BY <1>1, <1>2, <1>3

(* loginAllowed, accountAllowed, proxyAuthAllowed. *)
LEMMA AskStep ==
  ASSUME IInv, NEW a \in Attempts, Ask(a)
  PROVE  /\ IInv'
         /\ \A k \in Keys : Blocked(fails[k], now) => fails'[k] = fails[k]
<1> DEFINE k == Key(a)
           e == Asked(k, fails[k], now)
<1>0. TypeOK /\ att[a] # None /\ UNCHANGED <<now, recent>> /\ Proceed(a, "verify") /\ ~Blocked(fails[k], now)
  BY DEF IInv, Ask, At
<1>1. k \in Keys /\ AttemptsOK'
  BY <1>0, AttemptFacts, ProceedStep
<1>2. fails' = [fails EXCEPT ![k] = e]
  BY DEF Ask
<1>3. \/ e = fails[k]
      \/ e = None /\ (fails[k] # None => fails[k].until # 0 \/ Elapsed(k, fails[k], now))
  BY AskedFacts
<1> HIDE DEF k, e
<1>4. fails'[k] = e /\ \A j \in Keys \ {k} : fails'[j] = fails[j]
  BY <1>1, <1>2, Entries
<1>5. fails' \in [Keys -> Entry \cup {None}]
  BY <1>1, <1>2, <1>3, Entries
<1>6. \A j \in Keys : EntryOK(j, fails'[j], now)
  BY <1>3, <1>4, Entries DEF EntryOK
<1>7. Groups(fails'[Watched], recent, now)
  <2>1. CASE fails'[Watched] = fails[Watched]
    BY <2>1, Entries
  <2>2. CASE fails'[Watched] # fails[Watched]
    <3>1. k = Watched /\ fails'[Watched] = None
          /\ (fails[Watched] # None => fails[Watched].until # 0 \/ Elapsed(Watched, fails[Watched], now))
      BY <1>3, <1>4, <2>2, WatchedFacts
    <3>2. EntryOK(Watched, fails[Watched], now)
      BY Entries, WatchedFacts
    <3>3. QED
      BY <3>1, <3>2, Entries, GroupsDropped
  <2>3. QED
    BY <2>1, <2>2
<1>8. IInv'
  BY <1>0, <1>1, <1>5, <1>6, <1>7, Entries, Assemble
<1>9. QED
  BY <1>0, <1>4, <1>8

(* loginFail, accountFail, proxyAuthFail. *)
LEMMA FailStep ==
  ASSUME IInv, NEW a \in Attempts, Fail(a)
  PROVE  /\ IInv'
         /\ \A k \in Keys : Blocked(fails[k], now) =>
              fails'[k] # None /\ fails'[k].until >= fails[k].until
         /\ Key(a) = Watched /\ Len(recent) = Depth /\ recent' # << >> =>
              now > recent[1] + Window[Watched[1]]
<1> DEFINE k == Key(a)
           f == Failed(k, fails[k], now)
<1>0. TypeOK /\ att[a] # None /\ now' = now /\ Proceed(a, "return")
  BY DEF IInv, Fail, At
<1>1. k \in Keys /\ AttemptsOK'
  BY <1>0, AttemptFacts, ProceedStep
<1>2. fails' = [fails EXCEPT ![k] = f]
  BY DEF Fail
<1>3. recent' = IF k # Watched THEN recent
                ELSE IF fails'[k].count = 0 THEN << >>
                ELSE IF Len(Append(recent, now)) > Depth THEN Tail(Append(recent, now))
                ELSE Append(recent, now)
  BY DEF Fail
<1>4. now \in Nat /\ EntryOK(k, fails[k], now) /\ f = Failed(k, fails[k], now)
  BY <1>1, Entries
<1> HIDE DEF k
<1>5. f \in Entry /\ f # None /\ EntryOK(k, f, now)
  BY <1>1, <1>4, FailedFacts, NoneFacts
<1>6. ASSUME Blocked(fails[k], now) PROVE f.until >= fails[k].until
  <2> DEFINE e == fails[k]
  <2>1. /\ e # None /\ e \in Entry /\ e.until \in Nat /\ e.window \in Nat /\ e.window <= now
        /\ e.until <= e.window + Lockout[k[1]] /\ now < e.until
    BY <1>4, <1>6 DEF Blocked, EntryOK, Entry
  <2>2. ~Fresh(k, e, now)
    BY <1>1, <1>4, <2>1, KeyFacts DEF Fresh, Elapsed
  <2>3. CASE Reached(k, e, now)
    BY <1>1, <1>4, <2>1, <2>3, FailedFacts, KeyFacts
  <2>4. CASE ~Reached(k, e, now)
    BY <1>1, <1>4, <2>1, <2>2, <2>4, FailedFacts
  <2>5. QED
    BY <2>3, <2>4
<1> HIDE DEF f
<1>7. fails'[k] = f /\ \A j \in Keys \ {k} : fails'[j] = fails[j]
  BY <1>1, <1>2, Entries
<1>8. fails' \in [Keys -> Entry \cup {None}]
  BY <1>2, <1>5, Entries
<1>9. \A j \in Keys : EntryOK(j, fails'[j], now)
  BY <1>5, <1>7, Entries
<1>10. /\ Groups(fails'[Watched], recent', now)
       /\ recent' \in Seq(Nat) /\ Len(recent') <= Depth
       /\ k = Watched /\ Len(recent) = Depth /\ recent' # << >> => now > recent[1] + Window[Watched[1]]
  <2>1. CASE k # Watched
    BY <1>3, <1>7, <2>1, Entries, WatchedFacts
  <2>2. CASE k = Watched
    <3>1. recent' = Recorded(f, recent, now) /\ fails'[Watched] = f
      BY <1>3, <1>7, <2>2 DEF Recorded
    <3>2. /\ EntryOK(Watched, fails[Watched], now) /\ f = Failed(Watched, fails[Watched], now)
      BY <1>4, <2>2
    <3>3. Recorded(f, recent, now) \in Seq(Nat) /\ Len(Recorded(f, recent, now)) <= Depth
      BY Entries, RecordedFacts
    <3>4. /\ Groups(f, Recorded(f, recent, now), now)
          /\ Len(recent) = Depth /\ Recorded(f, recent, now) # << >> => now > recent[1] + Window[Watched[1]]
      BY <3>2, Entries, GroupsFailed
    <3>5. QED
      BY <3>1, <3>3, <3>4
  <2>3. QED
    BY <2>1, <2>2
<1>11. IInv'
  BY <1>0, <1>1, <1>4, <1>8, <1>9, <1>10, Assemble
<1>12. ASSUME NEW j \in Keys, Blocked(fails[j], now)
       PROVE  fails'[j] # None /\ fails'[j].until >= fails[j].until
  <2>1. CASE j = k
    BY <1>5, <1>6, <1>7, <1>12, <2>1
  <2>2. CASE j # k
    BY <1>7, <1>12, <2>2, Entries DEF Blocked, Entry
  <2>3. QED
    BY <2>1, <2>2
<1>13. QED
  BY <1>10, <1>11, <1>12 DEF k

(* loginOK, accountOK, proxyAuthOK. *)
LEMMA OKStep ==
  ASSUME IInv, NEW a \in Attempts, OK(a)
  PROVE  /\ IInv'
         /\ \A k \in Keys : k # Key(a) => fails'[k] = fails[k]
<1> DEFINE k == Key(a)
<1>0. TypeOK /\ att[a] # None /\ now' = now /\ Proceed(a, "return")
  BY DEF IInv, OK, At
<1>1. k \in Keys /\ AttemptsOK'
  BY <1>0, AttemptFacts, ProceedStep
<1>2. fails' = [fails EXCEPT ![k] = None] /\ recent' = IF k = Watched THEN << >> ELSE recent
  BY DEF OK
<1> HIDE DEF k
<1>3. fails'[k] = None /\ \A j \in Keys \ {k} : fails'[j] = fails[j]
  BY <1>1, <1>2, Entries
<1>4. fails' \in [Keys -> Entry \cup {None}]
  BY <1>2, Entries
<1>5. \A j \in Keys : EntryOK(j, fails'[j], now)
  BY <1>3, Entries DEF EntryOK
<1>6. recent' \in Seq(Nat) /\ Len(recent') <= Depth /\ Groups(fails'[Watched], recent', now)
  <2>1. CASE k = Watched
    <3>1. recent' = << >> /\ fails'[Watched] = None
      BY <1>2, <1>3, <2>1
    <3>2. << >> \in Seq(Nat) /\ Len(<< >>) <= Depth
      BY WatchedFacts
    <3>3. QED
      BY <3>1, <3>2, Entries, GroupsCleared
  <2>2. CASE k # Watched
    BY <1>2, <1>3, <2>2, Entries, WatchedFacts
  <2>3. QED
    BY <2>1, <2>2
<1>7. IInv'
  BY <1>0, <1>1, <1>4, <1>5, <1>6, Entries, Assemble
<1>8. QED
  BY <1>3, <1>7 DEF k

(* pruneAuthFailures. *)
LEMMA PruneStep ==
  ASSUME IInv, NEW kinds, Prune(kinds)
  PROVE  /\ IInv'
         /\ \A k \in Keys : Blocked(fails[k], now) => fails'[k] = fails[k]
<1>1. UNCHANGED <<now, att, recent>> /\ fails' \in [Keys -> Entry \cup {None}]
  BY Entries DEF Prune
<1>2. ASSUME NEW k \in Keys
      PROVE  \/ fails'[k] = fails[k]
             \/ fails'[k] = None /\ fails[k] # None /\ Elapsed(k, fails[k], now)
  BY DEF Prune
<1>3. AttemptsOK'
  BY <1>1 DEF IInv, TypeOK, AttemptsOK, Limits
<1>4. \A j \in Keys : EntryOK(j, fails'[j], now)
  BY <1>2, Entries DEF EntryOK
<1>5. Groups(fails'[Watched], recent, now)
  <2>1. CASE fails'[Watched] = fails[Watched]
    BY <2>1, Entries
  <2>2. CASE fails'[Watched] # fails[Watched]
    <3>1. fails'[Watched] = None /\ Elapsed(Watched, fails[Watched], now)
      BY <1>2, <2>2, WatchedFacts
    <3>2. EntryOK(Watched, fails[Watched], now)
      BY Entries, WatchedFacts
    <3>3. QED
      BY <3>1, <3>2, Entries, GroupsDropped
  <2>3. QED
    BY <2>1, <2>2
<1>6. IInv'
  BY <1>1, <1>3, <1>4, <1>5, Entries, Assemble
<1>7. ASSUME NEW k \in Keys, Blocked(fails[k], now) PROVE fails'[k] = fails[k]
  <2> DEFINE e == fails[k]
  <2>1. /\ e # None /\ e \in Entry /\ e.until \in Nat /\ e.window \in Nat /\ now \in Nat
        /\ e.until <= e.window + Lockout[k[1]] /\ now < e.until
    BY <1>7, Entries DEF Blocked, EntryOK, Entry
  <2>2. ~Elapsed(k, e, now)
    BY <2>1, KeyFacts DEF Elapsed
  <2>3. QED
    BY <1>2, <2>2
<1>8. QED
  BY <1>6, <1>7

(* The clock. *)
LEMMA TickStep ==
  ASSUME IInv, Tick
  PROVE  IInv' /\ fails' = fails
<1>1. UNCHANGED <<fails, att, recent>> /\ now' = now + 1 /\ now \in Nat /\ now' \in Nat /\ now <= now'
  BY Entries DEF Tick
<1>2. AttemptsOK'
  BY <1>1 DEF IInv, TypeOK, AttemptsOK, Limits
<1>3. \A j \in Keys : EntryOK(j, fails'[j], now')
  BY <1>1, Entries DEF EntryOK, Entry
<1>4. Groups(fails'[Watched], recent', now')
  <2>1. fails[Watched] \in Entry \cup {None}
    BY Entries, WatchedFacts
  <2>2. QED
    BY <1>1, <2>1, Entries, GroupsLater
<1>5. QED
  BY <1>1, <1>2, <1>3, <1>4, Entries, Assemble
-----------------------------------------------------------------------------
(* The start: nothing has failed. *)
LEMMA Initially == Init => IInv
<1> SUFFICES ASSUME Init PROVE IInv
  OBVIOUS
<1>1. << >> \in Seq(Nat) /\ Len(<< >>) <= Depth
  BY WatchedFacts
<1>2. TypeOK
  BY <1>1 DEF Init, TypeOK
<1>3. LocksOK
  BY DEF Init, LocksOK
<1>4. GroupsOK
  BY GroupsCleared, WatchedFacts DEF Init, GroupsOK
<1>5. QED
  BY <1>2, <1>3, <1>4 DEF IInv

(* Every step keeps the invariant, and a lockout. *)
LEMMA Inductive ==
  ASSUME IInv, [Next]_vars
  PROVE  /\ IInv'
         /\ \A k \in Keys : Blocked(fails[k], now) =>
              \/ fails'[k] # None /\ fails'[k].until >= fails[k].until
              \/ \E a \in Attempts : At(a, "ok") /\ Key(a) = k
<1>0. ASSUME NEW k \in Keys, Blocked(fails[k], now), fails'[k] = fails[k]
      PROVE  fails'[k] # None /\ fails'[k].until >= fails[k].until
  BY <1>0, Entries DEF Blocked, Entry
<1>1. ASSUME NEW a \in Attempts, QuietStep(a) PROVE IInv' /\ fails' = fails
  <2>1. fails' = fails
    BY <1>1 DEF QuietStep, Begin, BeginWithSession, Refuse, BadBody, Verify, WrongRole
  <2>2. QED
    BY <1>1, <2>1, QuietSteps
<1>2. CASE UNCHANGED vars
  <2>1. IInv'
    BY <1>2 DEF vars, IInv, TypeOK, LocksOK, GroupsOK, Limits
  <2>2. QED
    BY <1>0, <1>2, <2>1 DEF vars
<1>3. CASE \E a \in Attempts : QuietStep(a)
  BY <1>0, <1>1, <1>3
<1>4. CASE \E a \in Attempts : Ask(a)
  BY <1>0, <1>4, AskStep
<1>5. CASE \E a \in Attempts : Fail(a)
  BY <1>5, FailStep
<1>6. ASSUME NEW a \in Attempts, OK(a)
      PROVE  /\ IInv'
             /\ \A k \in Keys : Blocked(fails[k], now) =>
                  \/ fails'[k] # None /\ fails'[k].until >= fails[k].until
                  \/ \E b \in Attempts : At(b, "ok") /\ Key(b) = k
  <2>1. At(a, "ok")
    BY <1>6 DEF OK
  <2>2. QED
    BY <1>0, <1>6, <2>1, OKStep
<1>7. CASE Prune({"login", "account"}) \/ Prune({"proxy"})
  BY <1>0, <1>7, PruneStep
<1>8. CASE Tick
  BY <1>0, <1>8, TickStep
<1>9. QED
  BY <1>2, <1>3, <1>4, <1>5, <1>6, <1>7, <1>8 DEF Next, QuietStep

(* Only a report of a failure moves an attempt that has one to report. *)
LEMMA OnlyFail ==
  ASSUME IInv, [Next]_vars, NEW a \in Attempts, At(a, "fail"), att'[a] # att[a]
  PROVE  Fail(a)
<1>0. att \in [Attempts -> Attempt \cup {None}] /\ att[a] # None /\ att[a].at = "fail"
  BY DEF IInv, TypeOK, At
<1>1. ASSUME NEW b \in Attempts, b # a PROVE ~(\E x : att' = [att EXCEPT ![b] = x])
  BY <1>0, <1>1
<1>2. ASSUME NEW b \in Attempts, QuietStep(b) \/ Ask(b) \/ OK(b) PROVE FALSE
  <2>1. b = a
    <3>1. CASE QuietStep(b)
      BY <1>0, <1>1, <3>1 DEF QuietStep, Begin, BeginWithSession, Refuse, BadBody, Verify, WrongRole
    <3>2. CASE Ask(b) \/ OK(b)
      BY <1>0, <1>1, <3>2 DEF Ask, OK, Proceed
    <3>3. QED
      BY <1>2, <3>1, <3>2
  <2>2. QED
    BY <1>0, <1>2, <2>1 DEF QuietStep, Begin, BeginWithSession, Refuse, BadBody, Verify, WrongRole, Ask, OK, At
<1>3. ASSUME NEW b \in Attempts, Fail(b) PROVE b = a
  BY <1>0, <1>1, <1>3 DEF Fail, Proceed
<1>4. CASE Prune({"login", "account"}) \/ Prune({"proxy"}) \/ Tick \/ UNCHANGED vars
  BY <1>4 DEF Prune, Tick, vars
<1>5. QED
  BY <1>2, <1>3, <1>4 DEF Next, QuietStep

(* The inductive invariant holds in every reachable state. *)
LEMMA Always == Spec => []IInv
<1>1. IInv /\ [Next]_vars => IInv'
  BY Inductive
<1>2. QED
  BY <1>1, Initially, PTL DEF Spec

(* For any limits, clients, accounts and attempts: the state is well typed; no
   count reaches its limit without becoming a lockout. *)
THEOREM ThrottleTypeCorrect == Spec => []TypeOK
<1>1. IInv => TypeOK
  BY DEF IInv
<1>2. QED
  BY <1>1, Always, PTL

(* Neither late reports of attempts let in before, nor questions, nor the pruning
   by the flush lift or shorten a lockout; only a success does. *)
THEOREM LockoutsHold == Spec => LockoutHolds
<1>1. IInv /\ [Next]_vars =>
        \A k \in Keys : Blocked(fails[k], now) =>
          \/ fails'[k] # None /\ fails'[k].until >= fails[k].until
          \/ \E a \in Attempts : At(a, "ok") /\ Key(a) = k
  BY Inductive
<1>2. QED
  BY <1>1, Always, PTL DEF Spec, LockoutHolds

(* Of 2 * max - 1 failures of a limit in a row one locks, or they are spread over
   more than a window, whichever limit is watched. *)
THEOREM FailuresDoLock == Spec => FailuresLock
<1>1. IInv /\ [Next]_vars =>
        \A a \in Attempts : At(a, "fail") /\ att'[a] # att[a] /\ Key(a) = Watched
          /\ Len(recent) = Depth /\ recent' # << >>
          => now > recent[1] + Window[Watched[1]]
  BY OnlyFail, FailStep
<1>2. QED
  BY <1>1, Always, PTL DEF Spec, FailuresLock
=============================================================================
