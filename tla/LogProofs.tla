----------------------------- MODULE LogProofs -----------------------------
(***************************************************************************)
(* Proofs about the two logs: the activity log (LogStore) and the audit    *)
(* log (Audit).  They are in one module for the lemmas about sequences     *)
(* that both need.                                                         *)
(*                                                                         *)
(* Part 1: induction, recursive functions, Keep, lists of positions, parts *)
(* of a sequence.  Part 2: the activity log, for any length of a line, any *)
(* buffer, limit and size of the ring that LogAssumption allows.  Part 3:  *)
(* the audit log, for any handlers, length of a line, limit and window.    *)
(***************************************************************************)
EXTENDS Audit, LogStore, SequenceTheorems, WellFoundedInduction, TLAPS
-----------------------------------------------------------------------------
(* Part 1: sequences. *)

(* Induction over the naturals, for a set: from the well-founded order of the
   naturals, whose theorem needs no operator as a parameter. *)
LEMMA SetInduction ==
  ASSUME NEW S \in SUBSET Nat, 0 \in S, \A n \in S : n + 1 \in S
  PROVE  S = Nat
<1> DEFINE T == Nat \ S
           R == {ss \in Nat \X Nat : ss[1] < ss[2]}
<1>1. SUFFICES ASSUME T # {} PROVE FALSE
  OBVIOUS
<1>2. IsWellFoundedOn(R, Nat)
  BY NatLessThanWellFounded DEF OpToRel
<1>3. \E x \in T : \A y \in T : ~(<<y, x>> \in R)
  <2> HIDE DEF T, R
  <2>1. T \subseteq Nat
    BY DEF T
  <2>2. QED
    BY <1>1, <1>2, <2>1, WFMin
<1>4. PICK x \in T : \A y \in T : ~(<<y, x>> \in R)
  BY <1>3
<1>5. \A y, z \in Nat : y < z => <<y, z>> \in R
  OBVIOUS
<1>6. x # 0 /\ x \in Nat
  OBVIOUS
<1>7. x - 1 \in Nat /\ x - 1 < x /\ (x - 1) + 1 = x
  BY <1>6
<1>8. x - 1 \in T
  BY <1>7
<1>9. QED
  BY <1>4, <1>5, <1>7, <1>8

(* The same up to a bound: what a walk over a sequence needs. *)
LEMMA BoundedInduction ==
  ASSUME NEW N \in Nat, NEW S, 0 \in S, \A i \in 0 .. N : i \in S /\ i < N => i + 1 \in S
  PROVE  0 .. N \subseteq S
<1> DEFINE T == {i \in Nat : i <= N => i \in S}
<1>1. T \in SUBSET Nat /\ 0 \in T
  OBVIOUS
<1>2. ASSUME NEW n \in T PROVE n + 1 \in T
  <2>1. n \in Nat /\ (n <= N => n \in S)
    OBVIOUS
  <2>2. ASSUME n + 1 <= N PROVE n + 1 \in S
    <3>1. n \in 0 .. N /\ n < N /\ n <= N
      BY <2>1, <2>2
    <3>2. QED
      BY <2>1, <3>1
  <2>3. QED
    BY <2>1, <2>2
<1>3. T = Nat
  <2> HIDE DEF T
  <2>1. QED
    BY <1>1, <1>2, SetInduction
<1>4. QED
  BY <1>3

(* F[<<i, v>>] is the value at i after v; a walk starts at b and follows F. *)
StepsWithin(N, V, F) == \A i \in 1 .. N, v \in V : F[<<i, v>>] \in V

HasWalk(N, V, b, F) ==
  \E g \in [0 .. N -> V] : g[0] = b /\ \A i \in 1 .. N : g[i] = F[<<i, g[i - 1]>>]

(* A recursive function exists. *)
LEMMA RecursiveFunction ==
  ASSUME NEW N \in Nat, NEW V, NEW b \in V, NEW F, StepsWithin(N, V, F)
  PROVE  HasWalk(N, V, b, F)
<1> DEFINE P(n) == \E g \in [0 .. n -> V] :
                     g[0] = b /\ \A i \in 1 .. n : g[i] = F[<<i, g[i - 1]>>]
           S == {n \in 0 .. N : P(n)}
<1>1. P(0)
  <2> DEFINE g == [i \in 0 .. 0 |-> b]
  <2>1. g \in [0 .. 0 -> V] /\ g[0] = b /\ \A i \in 1 .. 0 : g[i] = F[<<i, g[i - 1]>>]
    OBVIOUS
  <2>2. QED
    BY <2>1
<1>2. ASSUME NEW n \in 0 .. N, P(n), n < N PROVE P(n + 1)
  <2>1. PICK g \in [0 .. n -> V] :
               g[0] = b /\ \A i \in 1 .. n : g[i] = F[<<i, g[i - 1]>>]
    BY <1>2
  <2> DEFINE x == F[<<n + 1, g[n]>>]
             h == [i \in 0 .. n + 1 |-> IF i = n + 1 THEN x ELSE g[i]]
  <2>2. n \in Nat /\ n + 1 \in 1 .. N /\ g[n] \in V
    BY <1>2, <2>1
  <2>3. x \in V
    BY <2>2 DEF StepsWithin
  <2>4. /\ h \in [0 .. n + 1 -> V] /\ h[n + 1] = x
        /\ \A i \in 0 .. n : h[i] = g[i]
    <3> HIDE DEF x
    <3>1. QED
      BY <2>1, <2>2, <2>3
  <2> HIDE DEF h
  <2>5. ASSUME NEW i \in 1 .. n + 1
        PROVE  h[i] = F[<<i, h[i - 1]>>]
    <3>1. CASE i = n + 1
      <4>1. i - 1 = n /\ n \in 0 .. n
        BY <2>2, <3>1
      <4>2. QED
        BY <2>4, <3>1, <4>1
    <3>2. CASE i \in 1 .. n
      <4>1. i \in 0 .. n /\ i - 1 \in 0 .. n
        BY <2>2, <3>2
      <4>2. QED
        BY <2>1, <2>4, <3>2, <4>1
    <3>3. QED
      BY <2>2, <3>1, <3>2
  <2>6. h[0] = b
    BY <2>1, <2>2, <2>4
  <2>7. QED
    BY <2>4, <2>5, <2>6
<1>3. 0 .. N \subseteq S
  <2> HIDE DEF P
  <2>1. 0 \in S
    BY <1>1
  <2>2. \A i \in 0 .. N : i \in S /\ i < N => i + 1 \in S
    BY <1>2
  <2> HIDE DEF S
  <2>3. QED
    BY <2>1, <2>2, BoundedInduction
<1>4. P(N)
  <2> HIDE DEF P
  <2>1. N \in 0 .. N
    OBVIOUS
  <2>2. QED
    BY <1>3, <2>1
<1>5. QED
  BY <1>4 DEF HasWalk

(* Keep(s, S) walks s: its recursive function. *)
KeepFrom(s, S) ==
  CHOOSE g : g = [i \in 0 .. Len(s) |->
                    IF i = 0 THEN <<>>
                    ELSE IF s[i] \in S THEN Append(g[i - 1], s[i]) ELSE g[i - 1]]

(* The equation of that function. *)
LEMMA KeepWalk ==
  ASSUME NEW V, NEW s \in Seq(V), NEW S
  PROVE  /\ KeepFrom(s, S)[0] = <<>>
         /\ \A i \in 1 .. Len(s) :
              KeepFrom(s, S)[i] = IF s[i] \in S THEN Append(KeepFrom(s, S)[i - 1], s[i])
                                  ELSE KeepFrom(s, S)[i - 1]
         /\ Keep(s, S) = KeepFrom(s, S)[Len(s)]
<1> DEFINE N == Len(s)
           W == Seq(V)
           F == [p \in (1 .. N) \X W |-> IF s[p[1]] \in S THEN Append(p[2], s[p[1]]) ELSE p[2]]
<1>1. N \in Nat
  OBVIOUS
<1>2. ASSUME NEW i \in 1 .. N, NEW v \in W
      PROVE  /\ F[<<i, v>>] = IF s[i] \in S THEN Append(v, s[i]) ELSE v
             /\ F[<<i, v>>] \in W
  BY <1>1
<1>3. <<>> \in W
  OBVIOUS
<1>4. PICK g \in [0 .. N -> W] : g[0] = <<>> /\ \A i \in 1 .. N : g[i] = F[<<i, g[i - 1]>>]
  <2>1. StepsWithin(N, W, F)
    BY <1>2 DEF StepsWithin
  <2> HIDE DEF F, N, W
  <2>2. HasWalk(N, W, <<>>, F)
    BY <1>1, <1>3, <2>1, RecursiveFunction
  <2>3. QED
    BY <2>2 DEF HasWalk
<1>5. g = [i \in 0 .. Len(s) |-> IF i = 0 THEN <<>>
                            ELSE IF s[i] \in S THEN Append(g[i - 1], s[i]) ELSE g[i - 1]]
  <2>1. ASSUME NEW i \in 0 .. N
        PROVE  g[i] = IF i = 0 THEN <<>>
                      ELSE IF s[i] \in S THEN Append(g[i - 1], s[i]) ELSE g[i - 1]
    <3> HIDE DEF F, W
    <3>1. CASE i = 0
      BY <1>4, <3>1
    <3>2. CASE i # 0
      <4>1. i \in 1 .. N /\ i - 1 \in 0 .. N
        BY <1>1, <3>2
      <4>2. g[i] = F[<<i, g[i - 1]>>] /\ g[i - 1] \in W
        BY <1>4, <4>1
      <4>3. QED
        BY <1>2, <3>2, <4>1, <4>2
    <3>3. QED
      BY <3>1, <3>2
  <2> HIDE DEF F, W
  <2>2. QED
    BY <1>4, <2>1
<1> DEFINE k == KeepFrom(s, S)
<1>6. k = [i \in 0 .. Len(s) |-> IF i = 0 THEN <<>>
                            ELSE IF s[i] \in S THEN Append(k[i - 1], s[i]) ELSE k[i - 1]]
  <2> HIDE DEF F
  <2>1. QED
    BY <1>5, Zenon DEF KeepFrom
<1>7. Keep(s, S) = k[Len(s)]
  BY DEF Keep, KeepFrom
<1> HIDE DEF k
<1>8. /\ k[0] = <<>>
      /\ \A i \in 1 .. Len(s) : k[i] = IF s[i] \in S THEN Append(k[i - 1], s[i]) ELSE k[i - 1]
  <2>1. 0 \in 0 .. Len(s) /\ \A i \in 1 .. Len(s) : i \in 0 .. Len(s) /\ i # 0
    BY <1>1
  <2>2. QED
    BY <1>6, <2>1, Zenon
<1>9. QED
  BY <1>7, <1>8 DEF k

(* h lists the positions of s, up to n, whose elements are in S; t is what is
   found there. *)
Picks(t, s, S, n, h) ==
  /\ h \in [1 .. Len(t) -> 1 .. n]
  /\ \A i, j \in 1 .. Len(t) : i < j => h[i] < h[j]
  /\ \A i \in 1 .. Len(t) : t[i] = s[h[i]] /\ t[i] \in S
  /\ \A j \in 1 .. n : s[j] \in S => \E i \in 1 .. Len(t) : h[i] = j

Picked(t, s, S, n) == \E h : Picks(t, s, S, n, h)

(* Keep returns exactly the elements in S, in the order of their positions. *)
LEMMA KeepFacts ==
  ASSUME NEW V, NEW s \in Seq(V), NEW S
  PROVE  Keep(s, S) \in Seq(V) /\ Picked(Keep(s, S), s, S, Len(s))
<1> DEFINE N == Len(s)
           k == KeepFrom(s, S)
           T == {n \in 0 .. N : k[n] \in Seq(V) /\ Picked(k[n], s, S, n)}
<1>1. N \in Nat /\ \A i \in 1 .. N : s[i] \in V
  OBVIOUS
<1>2. /\ k[0] = <<>>
      /\ \A i \in 1 .. N : k[i] = IF s[i] \in S THEN Append(k[i - 1], s[i]) ELSE k[i - 1]
      /\ Keep(s, S) = k[N]
  BY KeepWalk
<1> HIDE DEF k, N
<1>3. 0 \in T
  <2> DEFINE t == k[0]
             h == [i \in 1 .. 0 |-> i]
  <2>1. t \in Seq(V) /\ Len(t) = 0
    BY <1>2
  <2>2. Picks(t, s, S, 0, h)
    <3> HIDE DEF t
    <3>1. QED
      BY <2>1 DEF Picks
  <2>3. QED
    BY <1>1, <2>1, <2>2 DEF Picked
<1>4. ASSUME NEW n \in 0 .. N, n \in T, n < N PROVE n + 1 \in T
  <2> DEFINE t == k[n]
             u == k[n + 1]
  <2>1. /\ n \in Nat /\ n + 1 \in 0 .. N /\ n + 1 \in 1 .. N /\ (n + 1) - 1 = n
        /\ s[n + 1] \in V
    BY <1>1, <1>4
  <2>2. t \in Seq(V) /\ Len(t) \in Nat
    BY <1>4
  <2>3. PICK h : Picks(t, s, S, n, h)
    BY <1>4 DEF Picked
  <2>4. u = IF s[n + 1] \in S THEN Append(t, s[n + 1]) ELSE t
    BY <1>2, <2>1
  <2> HIDE DEF t, u
  <2>5. CASE s[n + 1] \notin S
    <3>1. u = t
      BY <2>4, <2>5
    <3>2. \A j \in 1 .. n + 1 : j \in 1 .. n \/ j = n + 1
      BY <2>1
    <3>3. h \in [1 .. Len(t) -> 1 .. n + 1]
      BY <2>1, <2>2, <2>3 DEF Picks
    <3>4. Picks(u, s, S, n + 1, h)
      BY <2>3, <2>5, <3>1, <3>2, <3>3 DEF Picks
    <3>5. QED
      BY <2>1, <2>2, <3>1, <3>4 DEF Picked, u
  <2>6. CASE s[n + 1] \in S
    <3>1. /\ u \in Seq(V) /\ Len(u) = Len(t) + 1
          /\ \A i \in 1 .. Len(t) : u[i] = t[i]
          /\ u[Len(t) + 1] = s[n + 1]
      BY <2>1, <2>2, <2>4, <2>6, AppendProperties
    <3> DEFINE m == Len(t)
               g == [i \in 1 .. m + 1 |-> IF i = m + 1 THEN n + 1 ELSE h[i]]
    <3>2. h \in [1 .. m -> 1 .. n]
      BY <2>3 DEF Picks
    <3>3. g \in [1 .. m + 1 -> 1 .. n + 1] /\ g[m + 1] = n + 1
      BY <2>1, <2>2, <3>2
    <3>4. \A i \in 1 .. m : g[i] = h[i] /\ h[i] \in 1 .. n
      BY <2>1, <2>2, <3>2
    <3> HIDE DEF g
    <3>5. \A i \in 1 .. m + 1 : i \in 1 .. m \/ i = m + 1
      BY <2>2
    <3>6. ASSUME NEW i \in 1 .. m + 1, NEW j \in 1 .. m + 1, i < j PROVE g[i] < g[j]
      <4>1. i \in 1 .. m
        BY <2>2, <3>6
      <4>2. CASE j = m + 1
        <5>1. g[i] \in 1 .. n /\ g[j] = n + 1
          BY <3>3, <3>4, <4>1, <4>2
        <5>2. QED
          BY <2>1, <5>1
      <4>3. CASE j \in 1 .. m
        BY <2>3, <3>4, <3>6, <4>1, <4>3 DEF Picks
      <4>4. QED
        BY <3>5, <4>2, <4>3
    <3>7. \A i \in 1 .. m + 1 : u[i] = s[g[i]] /\ u[i] \in S
      BY <2>3, <2>6, <3>1, <3>3, <3>4, <3>5 DEF Picks
    <3>8. ASSUME NEW j \in 1 .. n + 1, s[j] \in S PROVE \E i \in 1 .. m + 1 : g[i] = j
      <4>1. CASE j = n + 1
        BY <2>2, <3>3, <4>1
      <4>2. CASE j \in 1 .. n
        <5>1. PICK i \in 1 .. m : h[i] = j
          BY <2>3, <3>8, <4>2 DEF Picks
        <5>2. i \in 1 .. m + 1
          BY <2>2
        <5>3. QED
          BY <3>4, <5>1, <5>2
      <4>3. QED
        BY <2>1, <4>1, <4>2
    <3>9. Picks(u, s, S, n + 1, g)
      BY <3>1, <3>3, <3>6, <3>7, <3>8 DEF Picks
    <3>10. QED
      BY <2>1, <3>1, <3>9 DEF Picked, u
  <2>7. QED
    BY <2>5, <2>6
<1>5. 0 .. N \subseteq T
  <2> HIDE DEF T
  <2>1. QED
    BY <1>1, <1>3, <1>4, BoundedInduction
<1>6. N \in T
  BY <1>1, <1>5
<1>7. QED
  BY <1>2, <1>6 DEF N

(* t is s up to n, with or without its first element. *)
UpTo(t, s, n) ==
  \/ Len(t) = n /\ \A i \in 1 .. n : t[i] = s[i]
  \/ Len(t) + 1 = n /\ \A i \in 1 .. Len(t) : t[i] = s[i + 1]

(* When at most the first element is outside S, at most that one is left out. *)
LEMMA KeepTail ==
  ASSUME NEW V, NEW s \in Seq(V), NEW S, \A i \in 2 .. Len(s) : s[i] \in S
  PROVE  Keep(s, S) = s \/ (s # <<>> /\ Keep(s, S) = Tail(s))
<1> DEFINE N == Len(s)
           k == KeepFrom(s, S)
           T == {n \in 0 .. N : k[n] \in Seq(V) /\ UpTo(k[n], s, n)}
<1>1. N \in Nat /\ \A i \in 1 .. N : s[i] \in V
  OBVIOUS
<1>2. /\ k[0] = <<>>
      /\ \A i \in 1 .. N : k[i] = IF s[i] \in S THEN Append(k[i - 1], s[i]) ELSE k[i - 1]
      /\ Keep(s, S) = k[N]
  BY KeepWalk
<1> HIDE DEF k
<1>3. 0 \in T
  <2> DEFINE t == k[0]
  <2>1. t \in Seq(V) /\ Len(t) = 0
    BY <1>2
  <2>2. UpTo(t, s, 0)
    <3> HIDE DEF t
    <3>1. QED
      BY <2>1 DEF UpTo
  <2>3. QED
    BY <1>1, <2>1, <2>2
<1>4. ASSUME NEW n \in 0 .. N, n \in T, n < N PROVE n + 1 \in T
  <2> DEFINE t == k[n]
             u == k[n + 1]
  <2>1. /\ n \in Nat /\ n + 1 \in 0 .. N /\ n + 1 \in 1 .. N /\ (n + 1) - 1 = n
        /\ s[n + 1] \in V /\ (n >= 1 => n + 1 \in 2 .. N)
    BY <1>1, <1>4
  <2>2. t \in Seq(V) /\ Len(t) \in Nat /\ UpTo(t, s, n)
    BY <1>4
  <2>3. u = IF s[n + 1] \in S THEN Append(t, s[n + 1]) ELSE t
    BY <1>2, <2>1
  <2>4. u \in Seq(V) /\ UpTo(u, s, n + 1)
    <3> HIDE DEF t, u
    <3>1. CASE s[n + 1] \notin S
      <4>1. n = 0 /\ u = t
        BY <2>1, <2>3, <3>1
      <4>2. QED
        BY <2>2, <4>1 DEF UpTo
    <3>2. CASE s[n + 1] \in S
      <4>1. /\ u \in Seq(V) /\ Len(u) = Len(t) + 1
            /\ \A i \in 1 .. Len(t) : u[i] = t[i]
            /\ u[Len(t) + 1] = s[n + 1]
        BY <2>1, <2>2, <2>3, <3>2, AppendProperties
      <4>2. CASE Len(t) = n /\ \A i \in 1 .. n : t[i] = s[i]
        BY <2>1, <4>1, <4>2 DEF UpTo
      <4>3. CASE Len(t) + 1 = n /\ \A i \in 1 .. Len(t) : t[i] = s[i + 1]
        <5>1. \A i \in 1 .. Len(u) : i \in 1 .. Len(t) \/ (i = Len(t) + 1 /\ i + 1 = n + 1)
          BY <2>1, <2>2, <4>1, <4>3
        <5>2. QED
          BY <2>1, <2>2, <4>1, <4>3, <5>1 DEF UpTo
      <4>4. QED
        BY <2>2, <4>2, <4>3 DEF UpTo
    <3>3. QED
      BY <3>1, <3>2
  <2>5. QED
    BY <2>1, <2>4
<1>5. 0 .. N \subseteq T
  <2> HIDE DEF T
  <2>1. QED
    BY <1>1, <1>3, <1>4, BoundedInduction
<1>6. N \in T
  BY <1>1, <1>5
<1> DEFINE t == Keep(s, S)
<1>7. t \in Seq(V) /\ UpTo(t, s, N)
  BY <1>2, <1>6
<1> HIDE DEF t
<1>8. CASE Len(t) = N /\ \A i \in 1 .. N : t[i] = s[i]
  <2>1. t = s
    BY <1>7, <1>8, SeqEqual
  <2>2. QED
    BY <2>1 DEF t
<1>9. CASE Len(t) + 1 = N /\ \A i \in 1 .. Len(t) : t[i] = s[i + 1]
  <2>1. N # 0 /\ Len(t) \in Nat
    BY <1>7, <1>9
  <2>2. s # <<>>
    BY <2>1
  <2> DEFINE r == Tail(s)
  <2>3. /\ r \in Seq(V) /\ Len(r) = Len(s) - 1
        /\ \A i \in 1 .. Len(r) : r[i] = s[i + 1]
    BY <2>2, HeadTailProperties
  <2> HIDE DEF r
  <2>4. Len(t) = Len(r) /\ \A i \in 1 .. Len(t) : t[i] = r[i]
    BY <1>1, <1>9, <2>1, <2>3
  <2>5. t = r
    BY <1>7, <2>3, <2>4, SeqEqual
  <2>6. QED
    BY <2>2, <2>5 DEF t, r
<1>10. QED
  BY <1>7, <1>8, <1>9 DEF UpTo

(* f lists the elements of a set of naturals in their order. *)
Lists(f, n) == f \in [1 .. n -> Nat] /\ \A i, j \in 1 .. n : i < j => f[i] < f[j]

(* g lists what f lists. *)
Covers(g, n, f, m) == \A i \in 1 .. m : \E j \in 1 .. n : g[j] = f[i]

(* Every element that f lists, g lists at the same place. *)
LEMMA SamePlace ==
  ASSUME NEW m \in Nat, NEW n \in Nat, NEW f, NEW g, Lists(f, m), Lists(g, n),
         Covers(g, n, f, m), Covers(f, m, g, n)
  PROVE  \A i \in 1 .. m : i \in 1 .. n /\ f[i] = g[i]
<1> DEFINE T == {i \in 0 .. m : i # 0 => i \in 1 .. n /\ f[i] = g[i]}
<1>1. 0 \in T
  OBVIOUS
<1>2. ASSUME NEW i \in 0 .. m, i \in T, i < m PROVE i + 1 \in T
  <2>1. i \in Nat /\ i + 1 \in 1 .. m /\ i + 1 \in 0 .. m
    BY <1>2
  <2>2. i # 0 => i \in 1 .. m /\ i \in 1 .. n /\ f[i] = g[i]
    BY <1>2
  <2>3. PICK j \in 1 .. n : g[j] = f[i + 1]
    BY <2>1 DEF Covers
  <2>4. j > i
    <3>1. CASE i = 0
      BY <3>1
    <3>2. CASE i # 0
      <4>1. f[i] < f[i + 1]
        BY <2>1, <2>2, <3>2 DEF Lists
      <4>2. g[i] < g[j] /\ g[i] \in Nat /\ g[j] \in Nat /\ i \in 1 .. n
        BY <2>2, <2>3, <3>2, <4>1 DEF Lists
      <4>3. ~(j < i) /\ j # i
        BY <4>2 DEF Lists
      <4>4. QED
        BY <2>1, <4>3
    <3>3. QED
      BY <3>1, <3>2
  <2>5. i + 1 \in 1 .. n
    BY <2>1, <2>4
  <2>6. PICK l \in 1 .. m : f[l] = g[i + 1]
    BY <2>5 DEF Covers
  <2>7. l > i
    <3>1. CASE i = 0
      BY <3>1
    <3>2. CASE i # 0
      <4>1. g[i] < g[i + 1]
        BY <2>1, <2>2, <2>5, <3>2 DEF Lists
      <4>2. f[i] < f[l] /\ f[i] \in Nat /\ f[l] \in Nat /\ i \in 1 .. m
        BY <2>2, <2>6, <3>2, <4>1 DEF Lists
      <4>3. ~(l < i) /\ l # i
        BY <4>2 DEF Lists
      <4>4. QED
        BY <2>1, <4>3
    <3>3. QED
      BY <3>1, <3>2
  <2>8. f[i + 1] \in Nat /\ g[i + 1] \in Nat
    BY <2>1, <2>5 DEF Lists
  <2>9. g[i + 1] <= f[i + 1]
    <3>1. j = i + 1 \/ i + 1 < j
      BY <2>1, <2>4
    <3>2. QED
      BY <2>3, <2>5, <2>8, <3>1 DEF Lists
  <2>10. f[i + 1] <= g[i + 1]
    <3>1. l = i + 1 \/ i + 1 < l
      BY <2>1, <2>7
    <3>2. QED
      BY <2>1, <2>6, <2>8, <3>1 DEF Lists
  <2>11. f[i + 1] = g[i + 1]
    BY <2>8, <2>9, <2>10
  <2>12. QED
    BY <2>1, <2>5, <2>11
<1>3. 0 .. m \subseteq T
  <2> HIDE DEF T
  <2>1. QED
    BY <1>1, <1>2, BoundedInduction
<1>4. QED
  BY <1>3

(* Two lists of the same set are the same. *)
LEMMA SameLists ==
  ASSUME NEW m \in Nat, NEW n \in Nat, NEW f, NEW g, Lists(f, m), Lists(g, n),
         Covers(g, n, f, m), Covers(f, m, g, n)
  PROVE  m = n /\ \A i \in 1 .. m : f[i] = g[i]
<1>1. \A i \in 1 .. m : i \in 1 .. n /\ f[i] = g[i]
  BY SamePlace
<1>2. \A i \in 1 .. n : i \in 1 .. m /\ g[i] = f[i]
  BY SamePlace
<1>3. m = n
  <2>1. (m # 0 => m \in 1 .. m) /\ (n # 0 => n \in 1 .. n)
    OBVIOUS
  <2>2. (m # 0 => m \in 1 .. n) /\ (n # 0 => n \in 1 .. m)
    BY <1>1, <1>2, <2>1
  <2>3. QED
    BY <2>2
<1>4. QED
  BY <1>1, <1>3

(* A sequence whose elements stand in s in the same order is what Keep finds
   of its elements in s, when nothing is twice in s. *)
LEMMA KeepOrdered ==
  ASSUME NEW V, NEW s \in Seq(V), NEW t \in Seq(V), NEW f \in [1 .. Len(t) -> 1 .. Len(s)],
         \A i, j \in 1 .. Len(t) : i < j => f[i] < f[j],
         \A i \in 1 .. Len(t) : t[i] = s[f[i]],
         \A i, j \in 1 .. Len(s) : s[i] = s[j] => i = j,
         NEW S, \A x : x \in S <=> \E i \in 1 .. Len(t) : t[i] = x
  PROVE  Keep(s, S) = t
<1> DEFINE k == Keep(s, S)
           m == Len(k)
           n == Len(t)
<1>1. k \in Seq(V) /\ Picked(k, s, S, Len(s))
  BY KeepFacts
<1>2. PICK h : Picks(k, s, S, Len(s), h)
  BY <1>1 DEF Picked
<1> HIDE DEF k
<1>3. m \in Nat /\ n \in Nat /\ Len(s) \in Nat
  BY <1>1
<1>4. Lists(h, m)
  BY <1>2, <1>3 DEF Lists, Picks
<1>5. Lists(f, n)
  BY <1>3 DEF Lists
<1>6. ASSUME NEW i \in 1 .. m PROVE \E j \in 1 .. n : f[j] = h[i]
  <2>1. h[i] \in 1 .. Len(s) /\ s[h[i]] \in S
    BY <1>2, <1>3 DEF Picks
  <2>2. PICK j \in 1 .. n : t[j] = s[h[i]]
    BY <2>1
  <2>3. f[j] \in 1 .. Len(s) /\ s[f[j]] = s[h[i]]
    BY <2>2
  <2>4. QED
    BY <2>1, <2>3
<1>7. ASSUME NEW j \in 1 .. n PROVE \E i \in 1 .. m : h[i] = f[j]
  <2>1. f[j] \in 1 .. Len(s) /\ s[f[j]] = t[j]
    OBVIOUS
  <2>2. s[f[j]] \in S
    BY <2>1
  <2>3. QED
    BY <1>2, <2>1, <2>2 DEF Picks
<1>8. m = n /\ \A i \in 1 .. m : h[i] = f[i]
  <2>1. Covers(f, n, h, m) /\ Covers(h, m, f, n)
    BY <1>6, <1>7 DEF Covers
  <2> HIDE DEF m, n
  <2>2. QED
    BY ONLY <1>3, <1>4, <1>5, <2>1, SameLists
<1>9. \A i \in 1 .. m : k[i] = t[i]
  <2>1. \A i \in 1 .. m : k[i] = s[h[i]]
    BY <1>2 DEF Picks
  <2>2. \A i \in 1 .. m : i \in 1 .. n /\ h[i] = f[i]
    BY <1>8
  <2>3. \A i \in 1 .. n : t[i] = s[f[i]]
    OBVIOUS
  <2>4. QED
    BY ONLY <2>1, <2>2, <2>3, Zenon
<1>10. k = t
  BY <1>1, <1>8, <1>9, SeqEqual
<1>11. QED
  BY <1>10 DEF k
-----------------------------------------------------------------------------
(* t is a part of s; it is the end of s. *)
Part(t, s) ==
  \E m \in 0 .. Len(s) : m + Len(t) <= Len(s) /\ \A i \in 1 .. Len(t) : t[i] = s[m + i]
EndPart(t, s) ==
  \E m \in 0 .. Len(s) : m + Len(t) = Len(s) /\ \A i \in 1 .. Len(t) : t[i] = s[m + i]

(* A stretch of a sequence. *)
LEMMA Stretch ==
  ASSUME NEW V, NEW s \in Seq(V), NEW m \in 0 .. Len(s), NEW n \in 0 .. Len(s)
  PROVE  /\ SubSeq(s, m + 1, n) \in Seq(V)
         /\ Len(SubSeq(s, m + 1, n)) = IF m <= n THEN n - m ELSE 0
         /\ \A i \in 1 .. n - m : SubSeq(s, m + 1, n)[i] = s[m + i]
<1>1. m + 1 \in Int /\ n \in Int /\ m \in Int
  OBVIOUS
<1>2. \A i \in m + 1 .. n : s[i] \in V
  <2>1. ASSUME NEW i \in m + 1 .. n PROVE i \in 1 .. Len(s)
    OBVIOUS
  <2>2. QED
    BY <2>1
<1> DEFINE t == SubSeq(s, m + 1, n)
<1>3. /\ t \in Seq(V)
      /\ Len(t) = IF m + 1 <= n THEN n - (m + 1) + 1 ELSE 0
      /\ \A i \in 1 .. n - (m + 1) + 1 : t[i] = s[(m + 1) + i - 1]
  BY ONLY <1>1, <1>2, SubSeqProperties
<1> HIDE DEF t
<1>4. n - (m + 1) + 1 = n - m /\ \A i \in Int : (m + 1) + i - 1 = m + i
  BY <1>1
<1>5. Len(t) = IF m <= n THEN n - m ELSE 0
  BY <1>1, <1>3
<1>6. ASSUME NEW i \in 1 .. n - m PROVE t[i] = s[m + i]
  <2>1. i \in 1 .. n - (m + 1) + 1 /\ (m + 1) + i - 1 = m + i
    BY ONLY <1>1, i \in 1 .. n - m
  <2>2. t[i] = s[(m + 1) + i - 1]
    BY ONLY <1>3, <2>1, Zenon
  <2>3. QED
    BY <2>1, <2>2, Zenon
<1>7. QED
  BY <1>3, <1>5, <1>6 DEF t

(* A stretch is a part. *)
LEMMA StretchIsPart ==
  ASSUME NEW V, NEW s \in Seq(V), NEW m \in 0 .. Len(s), NEW n \in 0 .. Len(s)
  PROVE  Part(SubSeq(s, m + 1, n), s) /\ (n = Len(s) => EndPart(SubSeq(s, m + 1, n), s))
<1> DEFINE t == SubSeq(s, m + 1, n)
<1>1. /\ t \in Seq(V) /\ Len(t) = IF m <= n THEN n - m ELSE 0
      /\ \A i \in 1 .. n - m : t[i] = s[m + i]
  BY Stretch
<1> HIDE DEF t
<1>2. /\ Len(s) \in Nat /\ m + Len(t) <= Len(s) /\ (n = Len(s) => m + Len(t) = Len(s))
      /\ \A i \in 1 .. Len(t) : i \in 1 .. n - m
  BY <1>1
<1>3. \A i \in 1 .. Len(t) : t[i] = s[m + i]
  BY <1>1, <1>2
<1>4. QED
  BY <1>2, <1>3 DEF Part, EndPart, t

(* A part of a part is a part. *)
LEMMA PartOfPart ==
  ASSUME NEW V, NEW s \in Seq(V), NEW t \in Seq(V), NEW u \in Seq(V), Part(u, t), Part(t, s)
  PROVE  Part(u, s)
<1>1. PICK m \in 0 .. Len(s) :
             m + Len(t) <= Len(s) /\ \A i \in 1 .. Len(t) : t[i] = s[m + i]
  BY DEF Part
<1>2. PICK l \in 0 .. Len(t) :
             l + Len(u) <= Len(t) /\ \A i \in 1 .. Len(u) : u[i] = t[l + i]
  BY DEF Part
<1>3. Len(s) \in Nat /\ Len(t) \in Nat /\ Len(u) \in Nat
  OBVIOUS
<1>4. m + l \in 0 .. Len(s) /\ (m + l) + Len(u) <= Len(s)
  BY <1>1, <1>2, <1>3
<1>5. ASSUME NEW i \in 1 .. Len(u) PROVE u[i] = s[(m + l) + i]
  <2>1. l + i \in 1 .. Len(t) /\ m + (l + i) = (m + l) + i
    BY <1>2, <1>3
  <2>2. QED
    BY <1>1, <1>2, <2>1
<1>6. QED
  BY <1>4, <1>5 DEF Part

(* What is written so far is a part of the whole. *)
LEMMA PrefixIsPart ==
  ASSUME NEW V, NEW s \in Seq(V), NEW t \in Seq(V), NEW k \in 0 .. Len(t)
  PROVE  Part(s \o SubSeq(t, 1, k), s \o t) /\ Part(s, s \o t)
<1> DEFINE u == SubSeq(t, 1, k)
           x == s \o u
           y == s \o t
<1>1. Len(s) \in Nat /\ Len(t) \in Nat /\ k \in Nat /\ 0 \in 0 .. Len(t) /\ 0 + 1 = 1
  OBVIOUS
<1>2. u \in Seq(V) /\ Len(u) = k /\ \A i \in 1 .. k : u[i] = t[i]
  <2>1. /\ SubSeq(t, 0 + 1, k) \in Seq(V)
        /\ Len(SubSeq(t, 0 + 1, k)) = IF 0 <= k THEN k - 0 ELSE 0
        /\ \A i \in 1 .. k - 0 : SubSeq(t, 0 + 1, k)[i] = t[0 + i]
    BY <1>1, Stretch
  <2>2. u = SubSeq(t, 0 + 1, k)
    BY <1>1
  <2> HIDE DEF u
  <2>3. QED
    BY <1>1, <2>1, <2>2
<1> HIDE DEF u
<1>3. /\ x \in Seq(V) /\ Len(x) = Len(s) + Len(u)
      /\ \A i \in 1 .. Len(s) + Len(u) : x[i] = IF i <= Len(s) THEN s[i] ELSE u[i - Len(s)]
  BY <1>2, ConcatProperties
<1>4. /\ y \in Seq(V) /\ Len(y) = Len(s) + Len(t)
      /\ \A i \in 1 .. Len(s) + Len(t) : y[i] = IF i <= Len(s) THEN s[i] ELSE t[i - Len(s)]
  BY ConcatProperties
<1> HIDE DEF x, y
<1>5. 0 \in 0 .. Len(y) /\ 0 + Len(x) <= Len(y) /\ 0 + Len(s) <= Len(y)
  BY <1>1, <1>2, <1>3, <1>4
<1>6. ASSUME NEW i \in 1 .. Len(x) PROVE x[i] = y[0 + i]
  <2>1. i \in 1 .. Len(s) + Len(u) /\ i \in 1 .. Len(s) + Len(t) /\ 0 + i = i
    BY <1>1, <1>2, <1>3
  <2>2. CASE i <= Len(s)
    BY <1>3, <1>4, <2>1, <2>2
  <2>3. CASE ~(i <= Len(s))
    <3>1. i - Len(s) \in 1 .. k
      BY <1>1, <1>2, <2>1, <2>3
    <3>2. QED
      BY <1>2, <1>3, <1>4, <2>1, <2>3, <3>1
  <2>4. QED
    BY <2>2, <2>3
<1>7. ASSUME NEW i \in 1 .. Len(s) PROVE s[i] = y[0 + i]
  <2>1. i \in 1 .. Len(s) + Len(t) /\ 0 + i = i /\ i <= Len(s)
    BY <1>1
  <2>2. QED
    BY <1>4, <2>1
<1>8. Part(x, y) /\ Part(s, y)
  <2>1. \A i \in 1 .. Len(x) : x[i] = y[0 + i]
    BY <1>6
  <2>2. \A i \in 1 .. Len(s) : s[i] = y[0 + i]
    BY <1>7
  <2>3. QED
    BY ONLY <1>5, <2>1, <2>2, Zenon DEF Part
<1>9. QED
  BY ONLY <1>8, Zenon DEF x, y, u
(* Concatenation is associative. *)
LEMMA Assoc ==
  ASSUME NEW V
  PROVE  \A x, y, z \in Seq(V) : (x \o y) \o z = x \o (y \o z)
  BY ConcatAssociative

(* The length of two sequences together. *)
LEMMA Joined ==
  ASSUME NEW V
  PROVE  \A x, y \in Seq(V) : x \o y \in Seq(V) /\ Len(x \o y) = Len(x) + Len(y)
  BY ConcatProperties

(* A line in two pieces. *)
LEMMA TwoPieces ==
  ASSUME NEW V, NEW s \in Seq(V), NEW k \in 0 .. Len(s)
  PROVE  /\ SubSeq(s, 1, k) \in Seq(V) /\ Len(SubSeq(s, 1, k)) = k
         /\ SubSeq(s, k + 1, Len(s)) \in Seq(V) /\ Len(SubSeq(s, k + 1, Len(s))) = Len(s) - k
         /\ SubSeq(s, 1, k) \o SubSeq(s, k + 1, Len(s)) = s
<1>1. Len(s) \in Nat /\ 0 \in 0 .. Len(s) /\ Len(s) \in 0 .. Len(s) /\ k \in Nat /\ k <= Len(s)
  OBVIOUS
<1>2. /\ SubSeq(s, 0 + 1, k) \in Seq(V)
      /\ Len(SubSeq(s, 0 + 1, k)) = IF 0 <= k THEN k - 0 ELSE 0
  BY <1>1, Stretch
<1>3. SubSeq(s, 1, k) \in Seq(V) /\ Len(SubSeq(s, 1, k)) = k
  <2>1. SubSeq(s, 0 + 1, k) = SubSeq(s, 1, k) /\ (0 <= k) /\ k - 0 = k
    BY <1>1
  <2>2. QED
    BY <1>2, <2>1
<1>4. /\ SubSeq(s, k + 1, Len(s)) \in Seq(V)
      /\ Len(SubSeq(s, k + 1, Len(s))) = IF k <= Len(s) THEN Len(s) - k ELSE 0
  BY <1>1, Stretch
<1>5. SubSeq(s, 1, k) \o SubSeq(s, k + 1, Len(s)) = s
  <2>1. 1 \in 1 .. Len(s) + 1 /\ k \in 1 - 1 .. Len(s) /\ Len(s) \in k .. Len(s)
    BY <1>1
  <2>2. SubSeq(s, 1, k) \o SubSeq(s, k + 1, Len(s)) = SubSeq(s, 1, Len(s))
    BY <2>1, ConcatAdjacentSubSeq
  <2>3. SubSeq(s, 1, Len(s)) = s
    BY SubSeqFull
  <2>4. QED
    BY <2>2, <2>3
<1>6. QED
  BY <1>1, <1>3, <1>4, <1>5

(* A sequence whose elements are in S is a sequence over S. *)
LEMMA NarrowSeq ==
  ASSUME NEW V, NEW S, NEW e \in Seq(V), \A m \in 1 .. Len(e) : e[m] \in S
  PROVE  e \in Seq(S)
<1>1. PICK n \in Nat : n = Len(e)
  OBVIOUS
<1>2. e = [i \in 1 .. n |-> e[i]]
  BY <1>1
<1>3. e \in [1 .. n -> S]
  BY <1>1, <1>2
<1>4. QED
  BY ONLY <1>3, n \in Nat
-----------------------------------------------------------------------------
(* Part 2: the activity log. *)

(* The cells of a file: those written and those still in the buffer. *)
Cells(d) == d.data \o d.buf

(* The order of cells on file, the entries they may belong to, and a file from
   which nothing is missing after its first cell, up to entry last. *)
SortedCells(c) ==
  \A i, j \in 1 .. Len(c) :
    i < j => c[i].e < c[j].e \/ (c[i].e = c[j].e /\ c[i].k < c[j].k)
Between(c, lo, hi) == \A i \in 1 .. Len(c) : lo < c[i].e /\ c[i].e < hi
Follows(a, b) ==
  \/ a.k < LogLine /\ b.e = a.e /\ b.k = a.k + 1
  \/ a.k = LogLine /\ b.e = a.e + 1 /\ b.k = 1
Chain(c, last) ==
  \A i \in 1 .. Len(c) :
    IF i = Len(c) THEN c[i].e = last /\ c[i].k = LogLine ELSE Follows(c[i], c[i + 1])

(* The constants, as facts. *)
LEMMA LogConstants ==
  /\ LogLine \in Nat /\ LogLine >= 2
  /\ BufCap \in Nat /\ BufCap >= LogLine
  /\ LogSizes \subseteq Nat /\ \A m \in LogSizes : m >= 2 * LogLine
  /\ RingSizes \subseteq Nat \ {0}
  /\ MaxAdds \in Nat /\ LogFaults \in Nat
  BY LogAssumption DEF LogAssumption

(* A line has LogLine cells, numbered. *)
LEMMA LogLineFacts ==
  ASSUME NEW n \in 1 .. MaxAdds
  PROVE  /\ EntryLine(n) \in Seq(EntryCell) /\ Len(EntryLine(n)) = LogLine
         /\ \A k \in 1 .. LogLine : EntryLine(n)[k].e = n /\ EntryLine(n)[k].k = k
<1>1. \A k \in 1 .. LogLine : [e |-> n, k |-> k] \in EntryCell
  BY DEF EntryCell
<1>2. LogLine \in Nat
  BY LogConstants
<1>3. EntryLine(n) \in [1 .. LogLine -> EntryCell]
  BY <1>1 DEF EntryLine
<1>4. EntryLine(n) \in Seq(EntryCell) /\ Len(EntryLine(n)) = LogLine
  BY <1>2, <1>3
<1>5. ASSUME NEW k \in 1 .. LogLine PROVE EntryLine(n)[k].e = n /\ EntryLine(n)[k].k = k
  BY DEF EntryLine
<1>6. QED
  BY <1>4, <1>5

(* The numbers of a cell. *)
LEMMA CellFacts ==
  ASSUME NEW c \in EntryCell
  PROVE  /\ c.e \in 1 .. MaxAdds /\ c.k \in 1 .. LogLine
         /\ c.e \in Nat /\ c.k \in Nat
<1>1. MaxAdds \in Nat /\ LogLine \in Nat
  BY LogConstants
<1>2. c.e \in 1 .. MaxAdds /\ c.k \in 1 .. LogLine
  BY DEF EntryCell
<1>3. QED
  BY <1>1, <1>2

(* A part keeps the order and the bounds. *)
LEMMA PartSorted ==
  ASSUME NEW s \in Seq(EntryCell), NEW t \in Seq(EntryCell), Part(t, s), SortedCells(s),
         NEW lo, NEW hi, Between(s, lo, hi)
  PROVE  SortedCells(t) /\ Between(t, lo, hi)
<1>1. PICK m \in 0 .. Len(s) :
             m + Len(t) <= Len(s) /\ \A i \in 1 .. Len(t) : t[i] = s[m + i]
  BY DEF Part
<1>2. Len(s) \in Nat /\ Len(t) \in Nat
  OBVIOUS
<1>3. \A i \in 1 .. Len(t) : m + i \in 1 .. Len(s) /\ t[i] = s[m + i]
  BY <1>1, <1>2
<1>4. Between(t, lo, hi)
  BY <1>3 DEF Between
<1>5. ASSUME NEW i \in 1 .. Len(t), NEW j \in 1 .. Len(t), i < j
      PROVE  t[i].e < t[j].e \/ (t[i].e = t[j].e /\ t[i].k < t[j].k)
  <2>1. m + i \in 1 .. Len(s) /\ m + j \in 1 .. Len(s) /\ m + i < m + j
    BY <1>2, <1>3, <1>5
  <2>2. s[m + i].e < s[m + j].e \/ (s[m + i].e = s[m + j].e /\ s[m + i].k < s[m + j].k)
    BY <2>1 DEF SortedCells
  <2>3. QED
    BY <1>3, <2>2
<1>6. QED
  BY <1>4, <1>5 DEF SortedCells

(* An end of a file without gaps has none. *)
LEMMA EndPartChain ==
  ASSUME NEW s \in Seq(EntryCell), NEW t \in Seq(EntryCell), EndPart(t, s), NEW last, Chain(s, last)
  PROVE  Chain(t, last)
<1>1. PICK m \in 0 .. Len(s) :
             m + Len(t) = Len(s) /\ \A i \in 1 .. Len(t) : t[i] = s[m + i]
  BY DEF EndPart
<1>2. Len(s) \in Nat /\ Len(t) \in Nat
  OBVIOUS
<1>3. ASSUME NEW i \in 1 .. Len(t)
      PROVE  IF i = Len(t) THEN t[i].e = last /\ t[i].k = LogLine ELSE Follows(t[i], t[i + 1])
  <2>1. m + i \in 1 .. Len(s) /\ t[i] = s[m + i]
    BY <1>1, <1>2
  <2>2. CASE i = Len(t)
    <3>1. m + i = Len(s)
      BY <1>1, <2>2
    <3>2. QED
      BY <2>1, <2>2, <3>1 DEF Chain
  <2>3. CASE i # Len(t)
    <3>1. i + 1 \in 1 .. Len(t) /\ m + i # Len(s) /\ (m + i) + 1 = m + (i + 1)
      BY <1>1, <1>2, <2>3
    <3>2. t[i + 1] = s[(m + i) + 1]
      BY <1>1, <3>1
    <3>3. Follows(s[m + i], s[(m + i) + 1])
      BY <2>1, <3>1 DEF Chain
    <3>4. QED
      BY <2>1, <2>3, <3>2, <3>3
  <2>4. QED
    BY <2>2, <2>3
<1>4. QED
  BY <1>3 DEF Chain

(* The line of the next entry continues the file. *)
LEMMA LineContinues ==
  ASSUME NEW s \in Seq(EntryCell), NEW n \in 1 .. MaxAdds,
         NEW lo \in Nat, lo < n, SortedCells(s), Between(s, lo, n)
  PROVE  /\ SortedCells(s \o EntryLine(n)) /\ Between(s \o EntryLine(n), lo, n + 1)
         /\ Chain(s, n - 1) => Chain(s \o EntryLine(n), n)
<1> DEFINE line == EntryLine(n)
           t == s \o line
           a == Len(s)
<1>1. /\ line \in Seq(EntryCell) /\ Len(line) = LogLine
      /\ \A k \in 1 .. LogLine : line[k].e = n /\ line[k].k = k
      /\ LogLine \in Nat /\ LogLine >= 2 /\ a \in Nat
  BY LogLineFacts, LogConstants
<1>2. /\ t \in Seq(EntryCell) /\ Len(t) = a + LogLine
      /\ \A i \in 1 .. a + LogLine : t[i] = IF i <= a THEN s[i] ELSE line[i - a]
  <2> HIDE DEF line
  <2>1. /\ t \in Seq(EntryCell) /\ Len(t) = Len(s) + Len(line)
        /\ \A i \in 1 .. Len(s) + Len(line) : t[i] = IF i <= Len(s) THEN s[i] ELSE line[i - Len(s)]
    BY <1>1, ConcatProperties
  <2> HIDE DEF t
  <2>2. QED
    BY <1>1, <2>1
<1> HIDE DEF line, t
<1>3. ASSUME NEW i \in 1 .. a + LogLine
      PROVE  \/ i \in 1 .. a /\ t[i] = s[i] /\ lo < t[i].e /\ t[i].e < n /\ t[i].e \in Nat
             \/ i > a /\ t[i].e = n /\ t[i].k = i - a
  <2>1. CASE i <= a
    <3>1. i \in 1 .. a /\ t[i] = s[i]
      BY <1>1, <1>2, <2>1
    <3>2. s[i] \in EntryCell /\ s[i].e \in Nat
      BY <3>1, CellFacts
    <3>3. QED
      BY <3>1, <3>2 DEF Between
  <2>2. CASE ~(i <= a)
    <3>1. i - a \in 1 .. LogLine /\ t[i] = line[i - a] /\ i > a
      BY <1>1, <1>2, <2>2
    <3>2. QED
      BY <1>1, <3>1
  <2>3. QED
    BY <2>1, <2>2
<1>4. Between(t, lo, n + 1)
  <2> SUFFICES ASSUME NEW i \in 1 .. Len(t) PROVE lo < t[i].e /\ t[i].e < n + 1
    BY DEF Between
  <2>1. i \in 1 .. a + LogLine
    BY <1>2
  <2>2. QED
    BY <1>3, <2>1
<1>5. SortedCells(t)
  <2> SUFFICES ASSUME NEW i \in 1 .. Len(t), NEW j \in 1 .. Len(t), i < j
               PROVE  t[i].e < t[j].e \/ (t[i].e = t[j].e /\ t[i].k < t[j].k)
    BY DEF SortedCells
  <2>1. i \in 1 .. a + LogLine /\ j \in 1 .. a + LogLine
    BY <1>2
  <2>2. CASE j \in 1 .. a
    <3>1. i \in 1 .. a /\ t[i] = s[i] /\ t[j] = s[j]
      BY <1>1, <1>2, <2>1, <2>2
    <3>2. QED
      BY <2>2, <3>1 DEF SortedCells
  <2>3. CASE j > a
    <3>1. t[j].e = n /\ t[j].k = j - a
      BY <1>1, <1>3, <2>1, <2>3
    <3>2. CASE i > a
      <4>1. t[i].e = n /\ t[i].k = i - a
        BY <1>1, <1>3, <2>1, <3>2
      <4>2. i - a < j - a
        BY <1>1
      <4>3. QED
        BY <3>1, <4>1, <4>2
    <3>3. CASE ~(i > a)
      BY <1>1, <1>3, <2>1, <3>1, <3>3
    <3>4. QED
      BY <3>2, <3>3
  <2>4. QED
    BY <1>1, <2>1, <2>2, <2>3
<1>6. ASSUME Chain(s, n - 1) PROVE Chain(t, n)
  <2> SUFFICES ASSUME NEW i \in 1 .. Len(t)
               PROVE  IF i = Len(t) THEN t[i].e = n /\ t[i].k = LogLine
                      ELSE Follows(t[i], t[i + 1])
    BY DEF Chain
  <2>1. i \in 1 .. a + LogLine
    BY <1>2
  <2>2. CASE i = Len(t)
    <3>1. i > a /\ i - a = LogLine
      BY <1>1, <1>2, <2>2
    <3>2. QED
      BY <1>1, <1>3, <2>1, <2>2, <3>1
  <2>3. CASE i > a /\ i # Len(t)
    <3>1. i + 1 \in 1 .. a + LogLine /\ i + 1 > a /\ i - a < LogLine /\ (i + 1) - a = (i - a) + 1
      <4>1. a \in Nat /\ LogLine \in Nat /\ i \in 1 .. a + LogLine /\ i > a /\ i # a + LogLine
        BY <1>1, <1>2, <2>1, <2>3
      <4>2. QED
        BY ONLY <4>1
    <3>2. t[i].e = n /\ t[i].k = i - a /\ t[i + 1].e = n /\ t[i + 1].k = (i - a) + 1
      BY <1>1, <1>3, <2>1, <2>3, <3>1
    <3>3. QED
      BY <2>3, <3>1, <3>2 DEF Follows
  <2>4. CASE i = a
    <3>1. i \in 1 .. a /\ i + 1 \in 1 .. a + LogLine /\ i + 1 > a /\ (i + 1) - a = 1 /\ i # Len(t)
      BY <1>1, <1>2, <2>1, <2>4
    <3>2. s[i].e = n - 1 /\ s[i].k = LogLine /\ t[i] = s[i]
      BY <1>2, <1>6, <2>1, <2>4, <3>1 DEF Chain
    <3>3. t[i + 1].e = n /\ t[i + 1].k = 1
      <4>1. i + 1 \notin 1 .. a
        BY <1>1, <3>1
      <4>2. t[i + 1].e = n /\ t[i + 1].k = (i + 1) - a
        BY <1>3, <3>1, <4>1
      <4>3. QED
        BY <3>1, <4>2
    <3>4. (n - 1) + 1 = n
      OBVIOUS
    <3>5. QED
      BY <3>1, <3>2, <3>3, <3>4 DEF Follows
  <2>5. CASE i < a
    <3>1. i \in 1 .. a /\ i + 1 \in 1 .. a /\ i # a /\ i # Len(t)
      BY <1>1, <1>2, <2>1, <2>5
    <3>2. t[i] = s[i] /\ t[i + 1] = s[i + 1]
      BY <1>1, <1>2, <3>1
    <3>3. Follows(s[i], s[i + 1])
      BY <1>6, <3>1 DEF Chain
    <3>4. QED
      BY <3>1, <3>2, <3>3
  <2>6. QED
    BY <1>1, <2>1, <2>2, <2>3, <2>4, <2>5
<1>7. QED
  BY <1>4, <1>5, <1>6 DEF t, line
-----------------------------------------------------------------------------
-----------------------------------------------------------------------------
(* A file and its writer between two operations: the buffer within its
   capacity, the size exact while the writer works and Stat told it, and without
   a failure the writer works. *)
Works(d) == d.faults = 0 => d.open /\ ~d.err

Exact(d) == d.open /\ ~d.err /\ d.sized => d.fileSize = Len(d.data) + Len(d.buf)

LogFileOK(d) == d \in LogFile /\ Len(d.buf) <= BufCap /\ Exact(d) /\ Works(d)

(* The fields of a file. *)
LEMMA FieldFacts ==
  ASSUME NEW d \in LogFile
  PROVE  /\ d.data \in Seq(EntryCell) /\ d.buf \in Seq(EntryCell) /\ d.fileSize \in Nat
         /\ d.open \in BOOLEAN /\ d.err \in BOOLEAN /\ d.sized \in BOOLEAN /\ d.faults \in 0 .. LogFaults
         /\ d.faults \in Nat /\ Len(d.data) \in Nat /\ Len(d.buf) \in Nat
         /\ Cells(d) \in Seq(EntryCell) /\ Len(Cells(d)) = Len(d.data) + Len(d.buf)
         /\ Len(Cells(d)) \in Nat
         /\ d.faults < LogFaults => d.faults + 1 \in 0 .. LogFaults /\ d.faults + 1 # 0
<1>1. /\ d.data \in Seq(EntryCell) /\ d.buf \in Seq(EntryCell) /\ d.fileSize \in Nat
      /\ d.open \in BOOLEAN /\ d.err \in BOOLEAN /\ d.sized \in BOOLEAN /\ d.faults \in 0 .. LogFaults
  BY DEF LogFile
<1>2. LogFaults \in Nat
  BY LogConstants
<1>3. d.faults \in Nat /\ (d.faults < LogFaults => d.faults + 1 \in 0 .. LogFaults /\ d.faults + 1 # 0)
  BY <1>1, <1>2
<1>4. Cells(d) \in Seq(EntryCell) /\ Len(Cells(d)) = Len(d.data) + Len(d.buf)
  BY <1>1, ConcatProperties DEF Cells
<1>5. Len(d.data) \in Nat /\ Len(d.buf) \in Nat
  BY <1>1
<1>6. Len(Cells(d)) \in Nat
  <2>1. \A x, y \in Nat : x + y \in Nat
    OBVIOUS
  <2>2. QED
    BY <1>4, <1>5, <2>1, Zenon
<1>7. QED
  BY <1>1, <1>3, <1>4, <1>5, <1>6

(* The same between two operations. *)
LEMMA OKFacts ==
  ASSUME NEW d, LogFileOK(d)
  PROVE  /\ d \in LogFile /\ Len(d.buf) <= BufCap /\ Exact(d) /\ Works(d)
         /\ d.data \in Seq(EntryCell) /\ d.buf \in Seq(EntryCell) /\ d.fileSize \in Nat
         /\ Len(d.data) \in Nat /\ Len(d.buf) \in Nat
         /\ Cells(d) \in Seq(EntryCell) /\ Len(Cells(d)) = Len(d.data) + Len(d.buf)
         /\ Len(Cells(d)) \in Nat
         /\ \A i \in 1 .. Len(Cells(d)) : Cells(d)[i].e \in Nat /\ Cells(d)[i].k \in Nat
<1>1. d \in LogFile /\ Len(d.buf) <= BufCap /\ Exact(d) /\ Works(d)
  BY DEF LogFileOK
<1>2. /\ d.data \in Seq(EntryCell) /\ d.buf \in Seq(EntryCell) /\ d.fileSize \in Nat
      /\ Len(d.data) \in Nat /\ Len(d.buf) \in Nat
      /\ Cells(d) \in Seq(EntryCell) /\ Len(Cells(d)) = Len(d.data) + Len(d.buf)
      /\ Len(Cells(d)) \in Nat
  BY <1>1, FieldFacts
<1>3. ASSUME NEW i \in 1 .. Len(Cells(d))
      PROVE  Cells(d)[i].e \in Nat /\ Cells(d)[i].k \in Nat
  <2>1. Cells(d)[i] \in EntryCell
    BY <1>2, ElementOfSeq
  <2>2. QED
    BY <2>1, CellFacts
<1>4. QED
  BY <1>1, <1>2, <1>3

(* bw.Flush moves cells from the buffer to the file, all of them unless it
   fails; none is lost. *)
LEMMA FlushedFacts ==
  ASSUME NEW d \in LogFile, Works(d), NEW f \in Flushed(d)
  PROVE  /\ f \in LogFile /\ Works(f) /\ Cells(f) = Cells(d) /\ Len(f.buf) <= Len(d.buf)
         /\ f.open = d.open /\ f.fileSize = d.fileSize /\ f.sized = d.sized
         /\ f.faults = 0 => d.faults = 0
         /\ (f.faults = d.faults /\ f.err = d.err) \/ (f.faults = d.faults + 1 /\ f.err)
         /\ d.open /\ ~d.err /\ ~f.err => f.buf = <<>>
<1>0. /\ d.data \in Seq(EntryCell) /\ d.buf \in Seq(EntryCell)
      /\ Len(d.data) \in Nat /\ Len(d.buf) \in Nat
      /\ d.faults < LogFaults => d.faults + 1 \in 0 .. LogFaults /\ d.faults + 1 # 0
  BY FieldFacts
<1>1. CASE f = d /\ (~d.open \/ d.err \/ d.buf = <<>>)
  BY <1>0, <1>1
<1>2. ASSUME d.open, ~d.err, f = [d EXCEPT !.data = @ \o d.buf, !.buf = <<>>]
      PROVE  /\ f \in LogFile /\ f.faults = d.faults /\ f.open = d.open /\ f.err = d.err
             /\ f.fileSize = d.fileSize /\ f.sized = d.sized
             /\ f.buf = <<>> /\ Cells(f) = Cells(d)
  <2> DEFINE c == d.data \o d.buf
  <2>1. c \in Seq(EntryCell) /\ c \o <<>> = c /\ <<>> \in Seq(EntryCell)
    BY <1>0, ConcatProperties, ConcatEmptySeq
  <2>2. f = [d EXCEPT !.data = c, !.buf = <<>>]
    BY <1>2
  <2> HIDE DEF c
  <2>3. /\ f \in LogFile /\ f.faults = d.faults /\ f.open = d.open /\ f.err = d.err
        /\ f.fileSize = d.fileSize /\ f.sized = d.sized /\ f.buf = <<>> /\ f.data = c
    BY <2>1, <2>2 DEF LogFile
  <2>4. QED
    BY <2>1, <2>3 DEF Cells, c
<1>3. ASSUME d.open, ~d.err, LogCanFail(d), NEW k \in 0 .. Len(d.buf) - 1,
             f = [d EXCEPT !.data = @ \o SubSeq(d.buf, 1, k),
                           !.buf = SubSeq(@, k + 1, Len(@)), !.err = TRUE, !.faults = @ + 1]
      PROVE  /\ f \in LogFile /\ f.faults # 0 /\ f.faults = d.faults + 1 /\ f.open = d.open /\ f.err
             /\ f.fileSize = d.fileSize /\ f.sized = d.sized /\ Len(f.buf) <= Len(d.buf) /\ Cells(f) = Cells(d)
  <2> DEFINE a == SubSeq(d.buf, 1, k)
             b == SubSeq(d.buf, k + 1, Len(d.buf))
             c == d.data \o a
  <2>1. k \in 0 .. Len(d.buf) /\ Len(d.buf) \in 0 .. Len(d.buf) /\ 0 \in 0 .. Len(d.buf)
    BY <1>0
  <2>2. a \in Seq(EntryCell)
    <3>1. SubSeq(d.buf, 0 + 1, k) \in Seq(EntryCell)
      BY <1>0, <2>1, Stretch
    <3>2. QED
      BY <3>1
  <2>3. b \in Seq(EntryCell) /\ Len(b) = IF k <= Len(d.buf) THEN Len(d.buf) - k ELSE 0
    BY <1>0, <2>1, Stretch
  <2>4. a \o b = d.buf
    <3>1. SubSeq(d.buf, 1, k) \o SubSeq(d.buf, k + 1, Len(d.buf)) = SubSeq(d.buf, 1, Len(d.buf))
      <4>1. 1 \in 1 .. Len(d.buf) + 1 /\ k \in 1 - 1 .. Len(d.buf) /\ Len(d.buf) \in k .. Len(d.buf)
        BY <1>0, <2>1
      <4>2. QED
        BY <1>0, <4>1, ConcatAdjacentSubSeq
    <3>2. SubSeq(d.buf, 1, Len(d.buf)) = d.buf
      BY <1>0, SubSeqFull
    <3>3. QED
      BY <3>1, <3>2
  <2> HIDE DEF a, b
  <2>5. c \in Seq(EntryCell) /\ c \o b = d.data \o d.buf
    <3>1. (d.data \o a) \o b = d.data \o (a \o b)
      <4>1. \A x, y, z \in Seq(EntryCell) : (x \o y) \o z = x \o (y \o z)
        BY ConcatAssociative
      <4>2. QED
        BY <1>0, <2>2, <2>3, <4>1, Zenon
    <3>2. QED
      BY <1>0, <2>2, <2>4, <3>1, ConcatProperties
  <2>6. f = [d EXCEPT !.data = c, !.buf = b, !.err = TRUE, !.faults = d.faults + 1]
    BY <1>3 DEF a, b
  <2> HIDE DEF c
  <2>7. d.faults + 1 \in 0 .. LogFaults /\ d.faults + 1 # 0
    BY <1>0, <1>3 DEF LogCanFail
  <2>8. /\ f \in LogFile /\ f.faults = d.faults + 1 /\ f.open = d.open /\ f.err = TRUE
        /\ f.fileSize = d.fileSize /\ f.sized = d.sized /\ f.buf = b /\ f.data = c
    BY <2>3, <2>5, <2>6, <2>7 DEF LogFile
  <2>9. Len(b) <= Len(d.buf)
    BY <1>0, <2>1, <2>3
  <2>10. QED
    BY <2>5, <2>7, <2>8, <2>9 DEF Cells
<1>4. \/ f = d /\ (~d.open \/ d.err \/ d.buf = <<>>)
      \/ d.open /\ ~d.err /\ f = [d EXCEPT !.data = @ \o d.buf, !.buf = <<>>]
      \/ /\ d.open /\ ~d.err /\ LogCanFail(d)
         /\ \E k \in 0 .. Len(d.buf) - 1 :
              f = [d EXCEPT !.data = @ \o SubSeq(d.buf, 1, k),
                            !.buf = SubSeq(@, k + 1, Len(@)), !.err = TRUE, !.faults = @ + 1]
  BY DEF Flushed
<1>5. CASE d.open /\ ~d.err /\ f = [d EXCEPT !.data = @ \o d.buf, !.buf = <<>>]
  <2>1. /\ f \in LogFile /\ f.faults = d.faults /\ f.open = d.open /\ f.err = d.err
        /\ f.fileSize = d.fileSize /\ f.sized = d.sized /\ f.buf = <<>> /\ Cells(f) = Cells(d)
    BY <1>2, <1>5
  <2>2. Len(f.buf) = 0
    BY <2>1
  <2>3. QED
    BY <1>0, <2>1, <2>2 DEF Works
<1>6. CASE /\ d.open /\ ~d.err /\ LogCanFail(d)
           /\ \E k \in 0 .. Len(d.buf) - 1 :
                f = [d EXCEPT !.data = @ \o SubSeq(d.buf, 1, k),
                              !.buf = SubSeq(@, k + 1, Len(@)), !.err = TRUE, !.faults = @ + 1]
  BY <1>3, <1>6 DEF Works
<1>7. QED
  BY <1>1, <1>4, <1>5, <1>6
-----------------------------------------------------------------------------

(* openFile: the file as it is and an empty buffer; without a failure a handle,
   and the size of the file. *)
LEMMA LogOpenedFacts ==
  ASSUME NEW d \in LogFile, NEW f \in LogOpened(d)
  PROVE  /\ LogFileOK(f) /\ Cells(f) = d.data /\ f.data = d.data /\ f.buf = <<>>
         /\ f.faults = 0 => d.faults = 0
         /\ f.faults = d.faults \/ f.faults = d.faults + 1
         /\ f.faults = d.faults => f.open /\ ~f.err
<1>0. /\ d.data \in Seq(EntryCell) /\ Len(d.data) \in Nat /\ BufCap \in Nat /\ d.faults \in Nat
      /\ d.faults < LogFaults => d.faults + 1 \in 0 .. LogFaults /\ d.faults + 1 # 0
  BY FieldFacts, LogConstants
<1>1. /\ f \in LogFile /\ f.data = d.data /\ f.buf = <<>> /\ ~f.err
      /\ \/ f.open /\ f.fileSize = Len(d.data) /\ f.faults = d.faults
         \/ (f.open => ~f.sized) /\ f.faults = d.faults + 1 /\ f.faults # 0
  <2> DEFINE fresh == [d EXCEPT !.buf = <<>>, !.err = FALSE, !.fileSize = 0]
  <2>0. /\ fresh \in LogFile /\ fresh.data = d.data /\ fresh.buf = <<>> /\ fresh.err = FALSE
        /\ fresh.faults = d.faults
    <3>1. <<>> \in Seq(EntryCell) /\ 0 \in Nat
      OBVIOUS
    <3>2. QED
      BY <3>1 DEF LogFile
  <2>1. \/ f = [fresh EXCEPT !.open = TRUE, !.fileSize = Len(d.data), !.sized = TRUE]
        \/ LogCanFail(d) /\ \E o \in BOOLEAN : f = [fresh EXCEPT !.open = o, !.sized = ~o, !.faults = @ + 1]
    BY DEF LogOpened
  <2> HIDE DEF fresh
  <2>2. CASE f = [fresh EXCEPT !.open = TRUE, !.fileSize = Len(d.data), !.sized = TRUE]
    <3>1. /\ f \in LogFile /\ f.data = fresh.data /\ f.buf = fresh.buf /\ f.err = fresh.err
          /\ f.open = TRUE /\ f.fileSize = Len(d.data) /\ f.faults = fresh.faults
      BY <1>0, <2>0, <2>2 DEF LogFile
    <3>2. QED
      BY <2>0, <3>1
  <2>3. ASSUME LogCanFail(d), NEW o \in BOOLEAN,
               f = [fresh EXCEPT !.open = o, !.sized = ~o, !.faults = @ + 1]
        PROVE  /\ f \in LogFile /\ f.data = d.data /\ f.buf = <<>> /\ ~f.err
               /\ (f.open => ~f.sized) /\ f.faults = d.faults + 1 /\ f.faults # 0
    <3>1. d.faults + 1 \in 0 .. LogFaults /\ d.faults + 1 # 0
      BY <1>0, <2>3 DEF LogCanFail
    <3>2. PICK s \in BOOLEAN : s = ~o
      OBVIOUS
    <3>3. f = [fresh EXCEPT !.open = o, !.sized = s, !.faults = d.faults + 1]
      BY <2>0, <2>3, <3>2
    <3>4. /\ f \in LogFile /\ f.data = fresh.data /\ f.buf = fresh.buf /\ f.err = fresh.err
          /\ f.open = o /\ f.sized = s /\ f.faults = d.faults + 1
      BY <2>0, <3>1, <3>3 DEF LogFile
    <3>5. QED
      BY <2>0, <3>1, <3>2, <3>4
  <2>4. QED
    BY <2>1, <2>2, <2>3
<1>2. Len(f.buf) = 0 /\ Cells(f) = d.data
  BY <1>0, <1>1, ConcatEmptySeq DEF Cells
<1>3. Exact(f) /\ Works(f)
  <2>1. Exact(f)
    BY <1>0, <1>1, <1>2 DEF Exact
  <2>2. Works(f)
    BY <1>1 DEF Works
  <2>3. QED
    BY <2>1, <2>2
<1>4. QED
  BY <1>0, <1>1, <1>2, <1>3 DEF LogFileOK

(* Half of a number of cells, rounded down. *)
LEMMA HalfFacts ==
  ASSUME NEW n \in Nat
  PROVE  \E q \in 0 .. n : q = n \div 2 /\ 2 * q <= n /\ n <= 2 * q + 1
  OBVIOUS

(* The rewrite: the newest half; a failure leaves a part of the file. *)
LEMMA LogHalvedFacts ==
  ASSUME NEW d \in LogFile, NEW f \in LogHalved(d)
  PROVE  /\ f \in LogFile /\ Part(f.data, d.data)
         /\ f.faults = 0 => d.faults = 0 /\ EndPart(f.data, d.data)
         /\ f.faults = d.faults \/ f.faults = d.faults + 1
         /\ f.faults = d.faults => 2 * Len(f.data) <= Len(d.data) + 1
<1> DEFINE n == Len(d.data)
<1>0. /\ d.data \in Seq(EntryCell) /\ n \in Nat
      /\ d.faults < LogFaults => d.faults + 1 \in 0 .. LogFaults /\ d.faults + 1 # 0
  BY FieldFacts
<1> DEFINE q == n \div 2
           half == SubSeq(d.data, q + 1, n)
<1>1. \/ q = 0 /\ f = d
      \/ f \in {[d EXCEPT !.data = half]}
               \cup {[d EXCEPT !.data = x, !.faults = @ + 1] :
                       x \in IF LogCanFail(d)
                             THEN {d.data} \cup {SubSeq(half, 1, k) : k \in 0 .. Len(half) - 1}
                             ELSE {}}
  BY Zenon DEF LogHalved
<1>q. q \in 0 .. n /\ 2 * q <= n /\ n <= 2 * q + 1
  <2> HIDE DEF n
  <2>1. \E x \in 0 .. n : x = q /\ 2 * x <= n /\ n <= 2 * x + 1
    BY <1>0, HalfFacts
  <2>2. QED
    BY <2>1, Zenon
<1> HIDE DEF q
<1>2. \/ q = 0 /\ f = d
      \/ f = [d EXCEPT !.data = half]
      \/ /\ LogCanFail(d)
         /\ \E x \in {d.data} \cup {SubSeq(half, 1, k) : k \in 0 .. Len(half) - 1} :
              f = [d EXCEPT !.data = x, !.faults = @ + 1]
  <2> HIDE DEF half
  <2>1. QED
    BY <1>1
<1>3. half \in Seq(EntryCell) /\ Len(half) = n - q /\ Part(half, d.data) /\ EndPart(half, d.data)
  <2>1. n \in 0 .. n
    BY <1>0
  <2>2. half \in Seq(EntryCell) /\ Len(half) = IF q <= n THEN n - q ELSE 0
    BY <1>0, <1>q, <2>1, Stretch
  <2>3. Part(half, d.data) /\ EndPart(half, d.data)
    BY <1>0, <1>q, <2>1, StretchIsPart
  <2>4. QED
    BY <1>q, <2>2, <2>3
<1>4. Part(d.data, d.data) /\ EndPart(d.data, d.data)
  <2>1. 0 \in 0 .. n /\ 0 + n <= n /\ 0 + n = n
    BY <1>0
  <2>2. \A i \in 1 .. n : d.data[i] = d.data[0 + i]
    BY <1>0
  <2>3. QED
    BY <2>1, <2>2 DEF Part, EndPart
<1> HIDE DEF half
<1>5. CASE q = 0 /\ f = d
  <2>1. 2 * n <= n + 1
    BY <1>0, <1>q, <1>5
  <2>2. QED
    BY <1>4, <1>5, <2>1
<1>6. CASE f = [d EXCEPT !.data = half]
  <2>1. f \in LogFile /\ f.data = half /\ f.faults = d.faults
    BY <1>3, <1>6 DEF LogFile
  <2>2. 2 * Len(half) <= n + 1
    BY <1>0, <1>q, <1>3
  <2>3. QED
    BY <1>3, <2>1, <2>2
<1>7. ASSUME LogCanFail(d), NEW x \in {d.data} \cup {SubSeq(half, 1, k) : k \in 0 .. Len(half) - 1},
             f = [d EXCEPT !.data = x, !.faults = @ + 1]
      PROVE  f \in LogFile /\ f.faults # 0 /\ f.faults = d.faults + 1 /\ Part(f.data, d.data)
  <2>1. x \in Seq(EntryCell) /\ Part(x, d.data)
    <3>1. CASE x = d.data
      BY <1>0, <1>4, <3>1
    <3>2. ASSUME NEW k \in 0 .. Len(half) - 1, x = SubSeq(half, 1, k)
          PROVE  x \in Seq(EntryCell) /\ Part(x, d.data)
      <4>1. k \in 0 .. Len(half) /\ 0 \in 0 .. Len(half) /\ 0 + 1 = 1
        BY <1>3
      <4>2. SubSeq(half, 0 + 1, k) \in Seq(EntryCell) /\ Part(SubSeq(half, 0 + 1, k), half)
        BY <1>3, <4>1, Stretch, StretchIsPart
      <4>3. x \in Seq(EntryCell) /\ Part(x, half)
        BY <3>2, <4>1, <4>2
      <4>4. QED
        BY <1>0, <1>3, <4>3, PartOfPart
    <3>3. QED
      BY <1>7, <3>1, <3>2
  <2>2. d.faults + 1 \in 0 .. LogFaults /\ d.faults + 1 # 0
    BY <1>0, <1>7 DEF LogCanFail
  <2>3. f \in LogFile /\ f.data = x /\ f.faults = d.faults + 1
    BY <1>7, <2>1, <2>2 DEF LogFile
  <2>4. QED
    BY <2>1, <2>2, <2>3
<1>8. d.faults + 1 # d.faults
  <2>1. d.faults \in Nat
    BY FieldFacts
  <2>2. QED
    BY ONLY <2>1
<1>9. QED
  BY <1>2, <1>5, <1>6, <1>7, <1>8

(* rotateLocked: a part of the file, its end without a failure, and an empty
   buffer. *)
LEMMA RotatedFacts ==
  ASSUME NEW d, LogFileOK(d), NEW r \in rotateLog(d)
  PROVE  /\ LogFileOK(r) /\ Part(Cells(r), Cells(d))
         /\ r.faults = 0 => d.faults = 0 /\ EndPart(Cells(r), Cells(d))
         /\ r.faults >= d.faults
         /\ r.faults = d.faults => r.open /\ ~r.err /\ 2 * Len(Cells(r)) <= Len(Cells(d)) + 1
<1>1. PICK f \in Flushed(d) : \E h \in LogHalved(f) : r \in LogOpened(h)
  BY DEF rotateLog
<1>2. PICK h \in LogHalved(f) : r \in LogOpened(h)
  BY <1>1
<1>3. d \in LogFile /\ Works(d) /\ Exact(d)
  BY DEF LogFileOK
<1>4. /\ f \in LogFile /\ Works(f) /\ Cells(f) = Cells(d) /\ f.open = d.open
      /\ f.faults = 0 => d.faults = 0
      /\ f.faults = d.faults \/ f.faults = d.faults + 1
      /\ d.open /\ ~d.err /\ ~f.err => f.buf = <<>>
  BY <1>3, FlushedFacts
<1>5. f.data \in Seq(EntryCell) /\ f.buf \in Seq(EntryCell) /\ Cells(d) \in Seq(EntryCell)
  BY <1>3, <1>4, FieldFacts
<1>6. Part(f.data, Cells(d))
  <2>1. 0 \in 0 .. Len(f.buf)
    BY <1>5
  <2>2. Part(f.data, f.data \o f.buf)
    BY <1>5, <2>1, PrefixIsPart
  <2>3. QED
    BY <1>4, <2>2 DEF Cells
<1>7. f.faults = 0 => f.data = Cells(d)
  <2>1. f.faults = 0 => f.buf = <<>>
    BY <1>3, <1>4 DEF Works
  <2>2. f.data \o <<>> = f.data
    BY <1>5, ConcatEmptySeq
  <2>3. QED
    BY <1>4, <2>1, <2>2 DEF Cells
<1>8. /\ h \in LogFile /\ Part(h.data, f.data)
      /\ h.faults = 0 => f.faults = 0 /\ EndPart(h.data, f.data)
      /\ h.faults = f.faults \/ h.faults = f.faults + 1
      /\ h.faults = f.faults => 2 * Len(h.data) <= Len(f.data) + 1
  BY <1>4, LogHalvedFacts
<1>9. /\ LogFileOK(r) /\ Cells(r) = h.data /\ (r.faults = 0 => h.faults = 0)
      /\ r.faults = h.faults \/ r.faults = h.faults + 1
      /\ r.faults = h.faults => r.open /\ ~r.err
  BY <1>2, <1>8, LogOpenedFacts
<1>10. h.data \in Seq(EntryCell)
  BY <1>8, FieldFacts
<1>11. Part(h.data, Cells(d))
  BY <1>5, <1>6, <1>8, <1>10, PartOfPart
<1>12. /\ r.faults >= d.faults
       /\ r.faults = d.faults => h.faults = f.faults /\ r.faults = h.faults
  <2>1. d.faults \in Nat
    BY <1>3, FieldFacts
  <2>2. QED
    BY <1>4, <1>8, <1>9, <2>1
<1>13. r.faults = d.faults => 2 * Len(Cells(r)) <= Len(Cells(d)) + 1
  <2>1. Len(Cells(d)) = Len(f.data) + Len(f.buf)
    BY <1>4, FieldFacts
  <2>2. Len(f.data) \in Nat /\ Len(f.buf) \in Nat /\ Len(h.data) \in Nat
    BY <1>5, <1>10
  <2>3. \A x, y, z \in Nat : 2 * z <= x + 1 => 2 * z <= (x + y) + 1
    OBVIOUS
  <2>4. r.faults = d.faults => 2 * Len(h.data) <= Len(f.data) + 1
    BY <1>8, <1>12
  <2>5. QED
    BY <1>9, <2>1, <2>2, <2>3, <2>4
<1>14. r.faults = d.faults => r.open /\ ~r.err
  BY <1>9, <1>12
<1>15. r.faults = 0 => d.faults = 0 /\ EndPart(Cells(r), Cells(d))
  BY <1>4, <1>7, <1>8, <1>9
<1>16. QED
  BY <1>9, <1>11, <1>12, <1>13, <1>14, <1>15
-----------------------------------------------------------------------------

(* bw.Write appends the line, or, when the flush in between fails, the part of
   it that filled the buffer. *)
LEMMA LogWrittenFacts ==
  ASSUME NEW d, LogFileOK(d), d.open,
         NEW line \in Seq(EntryCell), Len(line) = LogLine, NEW g \in LogWritten(d, line)
  PROVE  /\ LogFileOK(g) /\ Part(Cells(g), Cells(d) \o line)
         /\ g.faults = 0 => d.faults = 0 /\ Cells(g) = Cells(d) \o line
         /\ g.open /\ (g.faults = d.faults \/ g.faults = d.faults + 1)
         /\ IF d.err THEN g = d ELSE g.faults = d.faults => ~g.err /\ Cells(g) = Cells(d) \o line
<1> DEFINE room == BufCap - Len(d.buf)
           d2 == [d EXCEPT !.buf = @ \o SubSeq(line, 1, room)]
           z == SubSeq(line, room + 1, Len(line))
           d1 == [d EXCEPT !.buf = @ \o line, !.fileSize = @ + Len(line)]
<1>1. \/ d.err /\ g = d
      \/ ~d.err /\ Len(line) <= room /\ g = d1
      \/ /\ ~d.err /\ ~(Len(line) <= room)
         /\ \E f \in Flushed(d2) :
              g = IF f.err THEN f ELSE [f EXCEPT !.buf = z, !.fileSize = @ + Len(line)]
  BY DEF LogWritten
<1>2. d \in LogFile /\ Exact(d) /\ Works(d)
  BY OKFacts
<1>3. d.data \in Seq(EntryCell) /\ d.buf \in Seq(EntryCell)
  BY OKFacts
<1>4. Cells(d) \in Seq(EntryCell)
  BY OKFacts
<1>5. /\ BufCap \in Nat /\ LogLine \in Nat /\ LogLine <= BufCap
      /\ Len(d.buf) <= BufCap /\ d.fileSize \in Nat /\ Len(d.data) \in Nat /\ Len(d.buf) \in Nat
  BY OKFacts, LogConstants
<1>6. room \in Nat /\ room + Len(d.buf) = BufCap
  BY ONLY <1>5
<1>7. Part(Cells(d) \o line, Cells(d) \o line) /\ Part(Cells(d), Cells(d) \o line)
  <2>1. Len(line) \in 0 .. Len(line)
    OBVIOUS
  <2>2. Part(Cells(d) \o SubSeq(line, 1, Len(line)), Cells(d) \o line) /\ Part(Cells(d), Cells(d) \o line)
    BY <1>4, <2>1, PrefixIsPart
  <2>3. SubSeq(line, 1, Len(line)) = line
    BY SubSeqFull
  <2>4. QED
    BY <2>2, <2>3
<1> HIDE DEF d1, d2, z, room
<1>8. CASE d.err /\ g = d
  BY <1>2, <1>7, <1>8 DEF Works
<1>9. CASE ~d.err /\ Len(line) <= room /\ g = d1
  <2> DEFINE b == d.buf \o line
             n == d.fileSize + LogLine
  <2>1. b \in Seq(EntryCell) /\ Len(b) = Len(d.buf) + LogLine
    <3>1. \A x, y \in Seq(EntryCell) : x \o y \in Seq(EntryCell) /\ Len(x \o y) = Len(x) + Len(y)
      BY Joined
    <3>2. QED
      BY <1>3, <3>1, Zenon
  <2>2. d.data \o b = Cells(d) \o line
    <3>1. \A x, y, u \in Seq(EntryCell) : (x \o y) \o u = x \o (y \o u)
      BY Assoc
    <3>2. QED
      BY <1>3, <3>1, Zenon DEF Cells
  <2>3. n \in Nat
    BY ONLY <1>5
  <2>4. g = [d EXCEPT !.buf = b, !.fileSize = n]
    BY <1>9 DEF d1
  <2> HIDE DEF b, n
  <2>5. /\ g \in LogFile /\ g.data = d.data /\ g.buf = b /\ g.err = d.err /\ g.open = d.open
        /\ g.faults = d.faults /\ g.fileSize = n /\ g.sized = d.sized
    BY <1>2, <2>1, <2>3, <2>4 DEF LogFile
  <2>6. Len(b) <= BufCap
    BY ONLY <1>5, <1>6, <1>9, <2>1, Len(line) = LogLine
  <2>7. Exact(g)
    <3> SUFFICES ASSUME d.sized PROVE g.fileSize = Len(g.data) + Len(g.buf)
      BY <2>5 DEF Exact
    <3>1. d.fileSize = Len(d.data) + Len(d.buf)
      BY <1>2, <1>9 DEF Exact
    <3>2. \A x, y, u \in Nat : (x + y) + u = x + (y + u)
      OBVIOUS
    <3>a. (Len(d.data) + Len(d.buf)) + LogLine = Len(d.data) + (Len(d.buf) + LogLine)
      <4>1. Len(d.data) \in Nat /\ Len(d.buf) \in Nat /\ LogLine \in Nat
        BY <1>5
      <4>2. QED
        BY ONLY <3>2, <4>1, Zenon
    <3>b. n = (Len(d.data) + Len(d.buf)) + LogLine
      BY ONLY <3>1, Zenon DEF n
    <3>c. Len(b) = Len(d.buf) + LogLine
      BY <2>1
    <3>3. n = Len(d.data) + Len(b)
      BY ONLY <3>a, <3>b, <3>c, Zenon
    <3>4. QED
      BY <2>5, <3>3
  <2>8. LogFileOK(g)
    BY <1>2, <2>5, <2>6, <2>7 DEF LogFileOK, Works
  <2>9. Cells(g) = Cells(d) \o line
    BY <2>2, <2>5 DEF Cells
  <2>10. QED
    BY <1>7, <1>9, <2>5, <2>8, <2>9
<1>10. ASSUME ~d.err, ~(Len(line) <= room), NEW f, f \in Flushed(d2),
              g = IF f.err THEN f ELSE [f EXCEPT !.buf = z, !.fileSize = @ + Len(line)]
       PROVE  /\ LogFileOK(g) /\ Part(Cells(g), Cells(d) \o line)
              /\ g.faults = 0 => d.faults = 0 /\ Cells(g) = Cells(d) \o line
              /\ g.open /\ (g.faults = d.faults \/ g.faults = d.faults + 1)
              /\ g.faults = d.faults => ~g.err /\ Cells(g) = Cells(d) \o line
  <2> DEFINE a == SubSeq(line, 1, room)
             b == d.buf \o a
             n == f.fileSize + LogLine
  <2>1. room \in 0 .. Len(line)
    BY ONLY <1>6, <1>10, <1>5, Len(line) = LogLine
  <2>2. /\ a \in Seq(EntryCell) /\ Len(a) = room
        /\ z \in Seq(EntryCell) /\ Len(z) = Len(line) - room /\ a \o z = line
    BY <2>1, TwoPieces DEF z
  <2>3. Part(Cells(d) \o a, Cells(d) \o line)
    BY <1>4, <2>1, PrefixIsPart
  <2>4. d2 = [d EXCEPT !.buf = b]
    BY DEF d2
  <2>5. g = IF f.err THEN f ELSE [f EXCEPT !.buf = z, !.fileSize = n]
    BY <1>10
  <2> HIDE DEF a
  <2>6. b \in Seq(EntryCell) /\ Len(b) = Len(d.buf) + Len(a)
    <3>1. \A x, y \in Seq(EntryCell) : x \o y \in Seq(EntryCell) /\ Len(x \o y) = Len(x) + Len(y)
      BY Joined
    <3>2. QED
      BY <1>3, <2>2, <3>1, Zenon
  <2>7. d.data \o b = Cells(d) \o a
    <3>1. \A x, y, u \in Seq(EntryCell) : (x \o y) \o u = x \o (y \o u)
      BY Assoc
    <3>2. d.data \in Seq(EntryCell) /\ d.buf \in Seq(EntryCell) /\ a \in Seq(EntryCell)
      BY <1>3, <2>2
    <3>3. (d.data \o d.buf) \o a = d.data \o (d.buf \o a)
      BY ONLY <3>1, <3>2, Zenon
    <3>4. QED
      BY <3>3, Zenon DEF Cells
  <2> HIDE DEF b, n
  <2>8. /\ d2 \in LogFile /\ d2.data = d.data /\ d2.buf = b /\ d2.err = d.err /\ d2.open = d.open
        /\ d2.faults = d.faults /\ d2.fileSize = d.fileSize /\ d2.sized = d.sized
    BY <1>2, <2>4, <2>6 DEF LogFile
  <2>9. Len(b) = BufCap
    BY ONLY <1>5, <1>6, <2>2, <2>6
  <2>10. Works(d2) /\ Cells(d2) = Cells(d) \o a
    BY <1>2, <2>7, <2>8 DEF Works, Cells
  <2>11. /\ f \in LogFile /\ Works(f) /\ Cells(f) = Cells(d2) /\ Len(f.buf) <= Len(d2.buf)
         /\ f.open = d2.open /\ f.fileSize = d2.fileSize /\ f.sized = d2.sized
         /\ f.faults = 0 => d2.faults = 0
         /\ (f.faults = d2.faults /\ f.err = d2.err) \/ (f.faults = d2.faults + 1 /\ f.err)
         /\ d2.open /\ ~d2.err /\ ~f.err => f.buf = <<>>
    BY <1>10, <2>8, <2>10, FlushedFacts
  <2>12. CASE f.err
    <3>1. g = f
      BY <2>5, <2>12
    <3>2. LogFileOK(f) /\ f.faults # 0
      BY <2>8, <2>9, <2>11, <2>12 DEF LogFileOK, Exact, Works
    <3>3. g.faults = d.faults + 1 /\ g.faults # d.faults
      <4>1. d.faults \in Nat
        BY <1>2, FieldFacts
      <4>2. d.faults + 1 # d.faults
        BY ONLY <4>1
      <4>3. f.faults = d.faults + 1
        BY <1>10, <2>8, <2>11, <2>12
      <4>4. QED
        BY ONLY <3>1, <4>2, <4>3, Zenon
    <3>4. QED
      BY <2>3, <2>8, <2>10, <2>11, <3>1, <3>2, <3>3
  <2>13. CASE ~f.err
    <3>1. f.buf = <<>> /\ f.open /\ f.fileSize = d.fileSize
      BY <1>10, <2>8, <2>11, <2>13
    <3>2. f.data = Cells(d) \o a
      <4>1. f.data \in Seq(EntryCell)
        BY <2>11, FieldFacts
      <4>2. f.data \o <<>> = f.data
        BY <4>1, ConcatEmptySeq
      <4>3. QED
        BY <2>10, <2>11, <3>1, <4>2 DEF Cells
    <3>3. n \in Nat
      BY ONLY <1>5, <3>1 DEF n
    <3>4. /\ g \in LogFile /\ g.data = f.data /\ g.buf = z /\ g.err = f.err /\ g.open = f.open
          /\ g.faults = f.faults /\ g.fileSize = n /\ g.sized = f.sized
      BY <2>2, <2>5, <2>11, <2>13, <3>3 DEF LogFile
    <3>5. Cells(g) = Cells(d) \o line
      <4>1. \A x, y, u \in Seq(EntryCell) : (x \o y) \o u = x \o (y \o u)
        BY Assoc
      <4>2. (Cells(d) \o a) \o z = Cells(d) \o (a \o z)
        BY <1>4, <2>2, <4>1, Zenon
      <4>3. QED
        BY <2>2, <3>2, <3>4, <4>2 DEF Cells
    <3>6. Len(g.data) = Len(Cells(d)) + Len(a)
      <4>1. Len(Cells(d) \o a) = Len(Cells(d)) + Len(a)
        BY <1>4, <2>2, ConcatProperties
      <4>2. QED
        BY <3>2, <3>4, <4>1
    <3>7. ASSUME d.sized PROVE n = Len(g.data) + Len(z)
      <4>1. d.fileSize = Len(d.data) + Len(d.buf)
        BY <1>2, <1>10, <3>7 DEF Exact
      <4>2. Len(Cells(d)) = Len(d.data) + Len(d.buf)
        BY OKFacts
      <4>3. Len(a) = room /\ Len(z) = LogLine - room
        BY <2>2
      <4>4. QED
        <5>1. \A x, u, v \in Nat : v <= u => x + u = (x + v) + (u - v)
          OBVIOUS
        <5>2. room <= LogLine
          BY ONLY <1>5, <1>6, <2>1, Len(line) = LogLine
        <5>3. QED
          <6>1. Len(d.data) + Len(d.buf) \in Nat /\ LogLine \in Nat /\ room \in Nat
            BY <1>5, <1>6, OKFacts
          <6>2. (Len(d.data) + Len(d.buf)) + LogLine
                  = ((Len(d.data) + Len(d.buf)) + room) + (LogLine - room)
            BY ONLY <5>1, <5>2, <6>1, Zenon
          <6>3. n = (Len(d.data) + Len(d.buf)) + LogLine
            <7>1. f.fileSize = Len(d.data) + Len(d.buf)
              BY <3>1, <4>1
            <7>2. QED
              BY ONLY <7>1, Zenon DEF n
          <6>4. Len(g.data) = (Len(d.data) + Len(d.buf)) + room
            <7>1. Len(a) = room
              BY <4>3
            <7>2. QED
              BY ONLY <3>6, <4>2, <7>1, Zenon
          <6>5. Len(z) = LogLine - room
            BY <4>3
          <6>6. QED
            BY ONLY <6>2, <6>3, <6>4, <6>5, Zenon
    <3>8. Len(z) <= BufCap
      <4>1. Len(z) = LogLine - room
        BY <2>2
      <4>2. QED
        BY ONLY <1>5, <1>6, <4>1
    <3>9. LogFileOK(g)
      <4>1. Exact(g)
        BY <2>8, <2>11, <3>4, <3>7 DEF Exact
      <4>2. QED
        BY <2>11, <2>13, <3>1, <3>4, <3>8, <4>1 DEF LogFileOK, Works
    <3>10. QED
      BY <1>7, <2>8, <2>11, <2>13, <3>4, <3>5, <3>9
  <2>14. QED
    BY <2>12, <2>13
<1>11. QED
  BY <1>1, <1>8, <1>9, <1>10

(* The order of a file's cells and the entries they belong to. *)
CellsOK(d, lo, hi) == SortedCells(Cells(d)) /\ Between(Cells(d), lo, hi)

(* Add to the file: the order stays; and without a failure the file has no gap
   if it had none. *)
LEMMA WriteFacts ==
  ASSUME NEW d, LogFileOK(d), NEW n \in 1 .. MaxAdds, NEW lo \in Nat, lo < n,
         CellsOK(d, lo, n), NEW m, NEW g \in writeFileLocked(d, EntryLine(n), m)
  PROVE  /\ LogFileOK(g) /\ CellsOK(g, lo, n + 1)
         /\ g.faults = 0 => d.faults = 0 /\ (Chain(Cells(d), n - 1) => Chain(Cells(g), n))
<1> DEFINE line == EntryLine(n)
<1>1. line \in Seq(EntryCell) /\ Len(line) = LogLine
  BY LogLineFacts
<1>2. d \in LogFile /\ Cells(d) \in Seq(EntryCell)
  BY OKFacts
<1>3. ASSUME NEW r, LogFileOK(r), r.open, CellsOK(r, lo, n), NEW w \in LogWritten(r, line)
      PROVE  /\ LogFileOK(w) /\ CellsOK(w, lo, n + 1)
             /\ w.faults = 0 => r.faults = 0 /\ (Chain(Cells(r), n - 1) => Chain(Cells(w), n))
  <2>1. /\ LogFileOK(w) /\ Part(Cells(w), Cells(r) \o line)
        /\ w.faults = 0 => r.faults = 0 /\ Cells(w) = Cells(r) \o line
    <3> HIDE DEF line
    <3>1. QED
      BY <1>1, <1>3, LogWrittenFacts
  <2>2. Cells(r) \in Seq(EntryCell) /\ Cells(w) \in Seq(EntryCell)
    BY <1>3, <2>1, FieldFacts DEF LogFileOK
  <2>3. SortedCells(Cells(r)) /\ Between(Cells(r), lo, n)
    BY <1>3 DEF CellsOK
  <2>4. /\ SortedCells(Cells(r) \o line) /\ Between(Cells(r) \o line, lo, n + 1)
        /\ Chain(Cells(r), n - 1) => Chain(Cells(r) \o line, n)
    BY <2>2, <2>3, LineContinues
  <2> HIDE DEF line
  <2>5. Cells(r) \o line \in Seq(EntryCell)
    BY <1>1, <2>2, ConcatProperties
  <2>6. SortedCells(Cells(w)) /\ Between(Cells(w), lo, n + 1)
    BY <2>1, <2>2, <2>4, <2>5, PartSorted
  <2>7. QED
    BY <2>1, <2>4, <2>5, <2>6 DEF CellsOK
<1>4. ASSUME NEW r, r \in rotateLog(d)
      PROVE  /\ LogFileOK(r) /\ CellsOK(r, lo, n)
             /\ r.faults = 0 => d.faults = 0 /\ (Chain(Cells(d), n - 1) => Chain(Cells(r), n - 1))
  <2>1. /\ LogFileOK(r) /\ Part(Cells(r), Cells(d))
        /\ r.faults = 0 => d.faults = 0 /\ EndPart(Cells(r), Cells(d))
    BY <1>4, RotatedFacts
  <2>2. Cells(r) \in Seq(EntryCell)
    BY <2>1, FieldFacts DEF LogFileOK
  <2>3. SortedCells(Cells(r)) /\ Between(Cells(r), lo, n)
    BY <1>2, <2>1, <2>2, PartSorted DEF CellsOK
  <2>4. EndPart(Cells(r), Cells(d)) /\ Chain(Cells(d), n - 1) => Chain(Cells(r), n - 1)
    BY <1>2, <2>2, EndPartChain
  <2>5. QED
    BY <2>1, <2>3, <2>4 DEF CellsOK
<1>5. CellsOK(d, lo, n + 1)
  <2>1. \A i \in 1 .. Len(Cells(d)) : Cells(d)[i].e \in Nat
    BY OKFacts
  <2>2. \A x \in Nat : x < n => x < n + 1
    OBVIOUS
  <2>3. QED
    BY <2>1, <2>2 DEF CellsOK, Between
<1> HIDE DEF line
<1>6. CASE ~d.open /\ g = d
  BY <1>5, <1>6 DEF LogFileOK, Works
<1>7. CASE d.open /\ g \in LogWritten(d, line)
  BY <1>3, <1>7
<1>8. ASSUME NEW r \in rotateLog(d), g \in IF r.open THEN LogWritten(r, line) ELSE {r}
      PROVE  /\ LogFileOK(g) /\ CellsOK(g, lo, n + 1)
             /\ g.faults = 0 => d.faults = 0 /\ (Chain(Cells(d), n - 1) => Chain(Cells(g), n))
  <2>1. /\ LogFileOK(r) /\ CellsOK(r, lo, n)
        /\ r.faults = 0 => d.faults = 0 /\ (Chain(Cells(d), n - 1) => Chain(Cells(r), n - 1))
    BY <1>4
  <2>3. CASE ~r.open
    <3>1. g = r /\ r.faults # 0
      BY <1>8, <2>1, <2>3 DEF LogFileOK, Works
    <3>2. \A i \in 1 .. Len(Cells(r)) : Cells(r)[i].e \in Nat
      BY <2>1, OKFacts
    <3>3. CellsOK(r, lo, n + 1)
      <4>1. \A x \in Nat : x < n => x < n + 1
        OBVIOUS
      <4>2. QED
        BY <2>1, <3>2, <4>1 DEF CellsOK, Between
    <3>4. QED
      BY <2>1, <3>1, <3>3
  <2>4. CASE r.open
    <3>1. /\ LogFileOK(g) /\ CellsOK(g, lo, n + 1)
          /\ g.faults = 0 => r.faults = 0 /\ (Chain(Cells(r), n - 1) => Chain(Cells(g), n))
      BY <1>3, <1>8, <2>1, <2>4
    <3>2. QED
      BY <2>1, <3>1
  <2>5. QED
    BY <2>3, <2>4
<1>9. QED
  BY <1>6, <1>7, <1>8 DEF writeFileLocked, line

(* How large the file becomes: a line that fits is added within the limit; a
   rotation leaves half of the file and a line, which is within the limit or less
   than there was. *)
LEMMA WriteSize ==
  ASSUME NEW d, LogFileOK(d), NEW line \in Seq(EntryCell), Len(line) = LogLine,
         NEW m \in LogSizes, NEW g \in writeFileLocked(d, line, m), d.sized, g.faults = d.faults
  PROVE  IF g.open /\ ~g.err
         THEN Len(Cells(g)) <= m + 1 \/ Len(Cells(g)) < Len(Cells(d))
         ELSE Len(Cells(g)) <= Len(Cells(d))
<1>1. LogLine \in Nat /\ LogLine >= 2 /\ m \in Nat /\ m >= 2 * LogLine
  BY LogConstants
<1>2. /\ d \in LogFile /\ Cells(d) \in Seq(EntryCell) /\ Exact(d)
      /\ Len(Cells(d)) \in Nat /\ Len(Cells(d)) = Len(d.data) + Len(d.buf)
  BY OKFacts
<1>3. d.faults \in Nat
  BY <1>2, FieldFacts
<1>4. ASSUME NEW r, LogFileOK(r), r.open, NEW w \in LogWritten(r, line)
      PROVE  /\ w.open /\ (w.faults = r.faults \/ w.faults = r.faults + 1)
             /\ IF r.err THEN w = r
                ELSE w.faults = r.faults => ~w.err /\ Len(Cells(w)) = Len(Cells(r)) + LogLine
  <2>1. /\ w.open /\ (w.faults = r.faults \/ w.faults = r.faults + 1)
        /\ IF r.err THEN w = r ELSE w.faults = r.faults => ~w.err /\ Cells(w) = Cells(r) \o line
    BY <1>4, LogWrittenFacts
  <2>2. Cells(r) \in Seq(EntryCell)
    BY <1>4, OKFacts
  <2>3. Len(Cells(r) \o line) = Len(Cells(r)) + Len(line)
    BY <2>2, ConcatProperties
  <2>4. QED
    BY <2>1, <2>3
<1>l. \A x \in Nat : x <= x
  OBVIOUS
<1>5. CASE ~d.open /\ g = d
  BY <1>2, <1>5, <1>l, Zenon
<1>6. CASE d.open /\ ~(d.fileSize + Len(line) - 1 > m) /\ g \in LogWritten(d, line)
  <2>1. IF d.err THEN g = d
        ELSE g.faults = d.faults => ~g.err /\ Len(Cells(g)) = Len(Cells(d)) + LogLine
    BY <1>4, <1>6
  <2>2. CASE d.err
    BY <1>2, <1>l, <2>1, <2>2, Zenon
  <2>3. CASE ~d.err
    <3>1. d.fileSize = Len(Cells(d)) /\ Len(Cells(g)) = Len(Cells(d)) + LogLine /\ ~g.err
      BY <1>2, <1>6, <2>1, <2>3 DEF Exact
    <3>2. ~(Len(Cells(d)) + LogLine - 1 > m)
      BY <1>6, <3>1
    <3>3. \A x \in Nat : ~(x + LogLine - 1 > m) => x + LogLine <= m + 1
      BY ONLY <1>1
    <3>4. Len(Cells(g)) <= m + 1
      BY <1>2, <3>1, <3>2, <3>3
    <3>5. g.open
      BY <1>4, <1>6
    <3>6. QED
      BY <3>1, <3>4, <3>5
  <2>4. QED
    BY <2>2, <2>3
<1>7. ASSUME NEW r \in rotateLog(d), g \in IF r.open THEN LogWritten(r, line) ELSE {r}
      PROVE  /\ g.open /\ ~g.err
             /\ Len(Cells(g)) <= m + 1 \/ Len(Cells(g)) < Len(Cells(d))
  <2>1. /\ LogFileOK(r) /\ r.faults >= d.faults
        /\ r.faults = d.faults => r.open /\ ~r.err /\ 2 * Len(Cells(r)) <= Len(Cells(d)) + 1
    BY RotatedFacts
  <2>2. r \in LogFile /\ r.faults \in Nat /\ Len(Cells(r)) \in Nat
    <3>1. r \in LogFile /\ Len(Cells(r)) \in Nat
      BY <2>1, OKFacts
    <3>2. QED
      BY <3>1, FieldFacts
  <2>3. r.faults = d.faults
    <3>1. g.faults = r.faults \/ g.faults = r.faults + 1
      BY <1>4, <1>7, <2>1
    <3>2. QED
      BY <1>3, <2>1, <2>2, <3>1
  <2>4. g \in LogWritten(r, line) /\ r.open /\ ~r.err /\ 2 * Len(Cells(r)) <= Len(Cells(d)) + 1
    BY <1>7, <2>1, <2>3
  <2>5. ~g.err /\ Len(Cells(g)) = Len(Cells(r)) + LogLine
    BY <1>4, <2>1, <2>3, <2>4
  <2>6. \A x, y \in Nat : 2 * x <= y + 1 => x + LogLine <= m + 1 \/ x + LogLine < y
    BY ONLY <1>1
  <2>7. g.open
    BY <1>4, <2>1, <2>4
  <2>8. QED
    BY <1>2, <2>2, <2>4, <2>5, <2>6, <2>7
<1>8. QED
  BY <1>5, <1>6, <1>7 DEF writeFileLocked
-----------------------------------------------------------------------------

(* What a reader has made of the cells so far. *)
Reading == [cur : Seq(EntryCell), out : Seq(0 .. MaxAdds)]

(* Lines(c) walks c: its recursive function. *)
LinesFrom(c) ==
  CHOOSE g : g = [i \in 0 .. Len(c) |->
                    IF i = 0 THEN [cur |-> <<>>, out |-> <<>>] ELSE Feed(g[i - 1], c[i])]

(* What the newline of c closes: an entry, or nothing readable. *)
Closed(cur, c) == IF Append(cur, c) = EntryLine(c.e) THEN c.e ELSE 0

(* One cell: it extends the line, ends an empty one, or ends one that counts. *)
LEMMA FeedFacts ==
  ASSUME NEW a \in Reading, NEW c \in EntryCell
  PROVE  /\ Feed(a, c) \in Reading
         /\ \/ /\ c.k < LogLine
               /\ Feed(a, c).cur = Append(a.cur, c) /\ Feed(a, c).out = a.out
            \/ c.k = LogLine /\ a.cur = <<>> /\ Feed(a, c) = a
            \/ /\ c.k = LogLine /\ a.cur # <<>> /\ Feed(a, c).cur = <<>>
               /\ Feed(a, c).out = Append(a.out, Closed(a.cur, c))
               /\ Closed(a.cur, c) \in 0 .. MaxAdds
<1>1. c.e \in 1 .. MaxAdds /\ c.k \in 1 .. LogLine /\ LogLine \in Nat /\ MaxAdds \in Nat
  BY CellFacts, LogConstants
<1>2. a.cur \in Seq(EntryCell) /\ a.out \in Seq(0 .. MaxAdds)
  BY DEF Reading
<1>3. CASE c.k < LogLine
  <2> DEFINE x == Append(a.cur, c)
  <2>1. x \in Seq(EntryCell)
    BY <1>2, AppendProperties
  <2>2. Feed(a, c) = [a EXCEPT !.cur = x]
    BY <1>3 DEF Feed
  <2> HIDE DEF x
  <2>3. [a EXCEPT !.cur = x] \in Reading /\ [a EXCEPT !.cur = x].cur = x /\ [a EXCEPT !.cur = x].out = a.out
    BY <2>1 DEF Reading
  <2>4. QED
    BY <1>3, <2>2, <2>3 DEF x
<1>4. CASE ~(c.k < LogLine) /\ a.cur = <<>>
  BY <1>1, <1>4 DEF Feed
<1>5. CASE ~(c.k < LogLine) /\ a.cur # <<>>
  <2> DEFINE v == Closed(a.cur, c)
             y == Append(a.out, v)
  <2>1. v \in 0 .. MaxAdds
    BY <1>1 DEF Closed
  <2>2. Feed(a, c) = [cur |-> <<>>, out |-> y]
    BY <1>5 DEF Feed, Closed
  <2> HIDE DEF v
  <2>3. y \in Seq(0 .. MaxAdds) /\ <<>> \in Seq(EntryCell)
    BY <1>2, <2>1, AppendProperties
  <2> HIDE DEF y
  <2>4. [cur |-> <<>>, out |-> y] \in Reading
    BY <2>3 DEF Reading
  <2>5. c.k = LogLine
    BY <1>1, <1>5
  <2>6. QED
    BY <1>5, <2>1, <2>2, <2>4, <2>5 DEF y, v
<1>6. QED
  BY <1>3, <1>4, <1>5

(* The equation of that function. *)
LEMMA LinesWalk ==
  ASSUME NEW s \in Seq(EntryCell)
  PROVE  /\ LinesFrom(s)[0] = [cur |-> <<>>, out |-> <<>>]
         /\ \A i \in 1 .. Len(s) : LinesFrom(s)[i] = Feed(LinesFrom(s)[i - 1], s[i])
         /\ \A i \in 0 .. Len(s) : LinesFrom(s)[i] \in Reading
         /\ Lines(s) = LinesFrom(s)[Len(s)].out
<1> DEFINE N == Len(s)
           b == [cur |-> <<>>, out |-> <<>>]
           F == [p \in (1 .. N) \X Reading |-> Feed(p[2], s[p[1]])]
<1>1. N \in Nat /\ \A i \in 1 .. N : s[i] \in EntryCell
  OBVIOUS
<1>2. ASSUME NEW i \in 1 .. N, NEW v \in Reading
      PROVE  F[<<i, v>>] = Feed(v, s[i]) /\ F[<<i, v>>] \in Reading
  <2>1. F[<<i, v>>] = Feed(v, s[i])
    OBVIOUS
  <2>2. Feed(v, s[i]) \in Reading
    BY <1>1, FeedFacts
  <2>3. QED
    BY <2>1, <2>2
<1>3. b \in Reading
  BY DEF Reading
<1>4. PICK g \in [0 .. N -> Reading] : g[0] = b /\ \A i \in 1 .. N : g[i] = F[<<i, g[i - 1]>>]
  <2>1. StepsWithin(N, Reading, F)
    BY <1>2 DEF StepsWithin
  <2> HIDE DEF F, N, b
  <2>2. HasWalk(N, Reading, b, F)
    BY <1>1, <1>3, <2>1, RecursiveFunction
  <2>3. QED
    BY <2>2 DEF HasWalk
<1>5. g = [i \in 0 .. Len(s) |-> IF i = 0 THEN [cur |-> <<>>, out |-> <<>>]
                                ELSE Feed(g[i - 1], s[i])]
  <2>1. ASSUME NEW i \in 0 .. N
        PROVE  g[i] = IF i = 0 THEN b ELSE Feed(g[i - 1], s[i])
    <3> HIDE DEF F, b
    <3>1. CASE i = 0
      BY <1>4, <3>1
    <3>2. CASE i # 0
      <4>1. i \in 1 .. N /\ i - 1 \in 0 .. N
        BY <1>1, <3>2
      <4>2. g[i] = F[<<i, g[i - 1]>>] /\ g[i - 1] \in Reading
        BY <1>4, <4>1
      <4>3. QED
        BY <1>2, <3>2, <4>1, <4>2
    <3>3. QED
      BY <3>1, <3>2
  <2> HIDE DEF F
  <2>2. QED
    BY <1>4, <2>1
<1> DEFINE k == LinesFrom(s)
<1>6. k = [i \in 0 .. Len(s) |-> IF i = 0 THEN [cur |-> <<>>, out |-> <<>>]
                                ELSE Feed(k[i - 1], s[i])]
  <2> HIDE DEF F
  <2>1. QED
    BY <1>5, Zenon DEF LinesFrom
<1>7. Lines(s) = k[Len(s)].out
  BY DEF Lines, LinesFrom
<1> HIDE DEF k, F
<1>8. k[0] = b /\ \A i \in 1 .. N : k[i] = Feed(k[i - 1], s[i])
  <2>1. 0 \in 0 .. Len(s) /\ \A i \in 1 .. Len(s) : i \in 0 .. Len(s) /\ i # 0
    BY <1>1
  <2>2. QED
    BY <1>6, <2>1, Zenon
<1>9. \A i \in 0 .. N : k[i] \in Reading
  <2> DEFINE T == {i \in 0 .. N : k[i] \in Reading}
  <2>1. 0 \in T
    BY <1>1, <1>3, <1>8
  <2>2. ASSUME NEW i \in 0 .. N, i \in T, i < N PROVE i + 1 \in T
    <3>1. i + 1 \in 1 .. N /\ i + 1 \in 0 .. N /\ (i + 1) - 1 = i
      BY <1>1, <2>2
    <3>2. k[i + 1] = Feed(k[i], s[i + 1]) /\ k[i] \in Reading /\ s[i + 1] \in EntryCell
      BY <1>1, <1>8, <2>2, <3>1
    <3>3. k[i + 1] \in Reading
      BY <3>2, FeedFacts
    <3>4. QED
      BY <3>1, <3>3
  <2>3. 0 .. N \subseteq T
    <3> HIDE DEF T
    <3>1. QED
      BY <1>1, <2>1, <2>2, BoundedInduction
  <2>4. QED
    BY <2>3
<1>10. QED
  BY <1>7, <1>8, <1>9 DEF k
-----------------------------------------------------------------------------
(* Every readable line is closed by a newline cell of its entry; the entries of
   the readable lines rise. *)
Marked(o, c, n) ==
  \A m \in 1 .. Len(o) : o[m] # 0 => \E p \in 1 .. n : c[p].e = o[m] /\ c[p].k = LogLine
Rising(o) == \A m, q \in 1 .. Len(o) : m < q /\ o[m] # 0 /\ o[q] # 0 => o[m] < o[q]
Within(o, lo, hi) == \A m \in 1 .. Len(o) : o[m] # 0 => lo < o[m] /\ o[m] < hi

(* One more cell of a sorted file. *)
LEMMA MarkedStep ==
  ASSUME NEW s \in Seq(EntryCell), SortedCells(s), NEW i \in 0 .. Len(s), i < Len(s),
         NEW o \in Seq(0 .. MaxAdds), Marked(o, s, i), Rising(o), NEW v, v = 0 \/ v = s[i + 1].e,
         s[i + 1].k = LogLine, NEW u, u = Append(o, v)
  PROVE  Marked(u, s, i + 1) /\ Rising(u)
<1>1. /\ Len(s) \in Nat /\ Len(o) \in Nat /\ i \in Nat /\ i + 1 \in 1 .. Len(s)
      /\ \A p \in 1 .. i : p \in 1 .. i + 1 /\ p \in 1 .. Len(s) /\ p < i + 1
  OBVIOUS
<1>2. s[i + 1] \in EntryCell /\ LogLine \in Nat /\ MaxAdds \in Nat
  BY <1>1, LogConstants
<1>3. v \in 0 .. MaxAdds
  BY <1>2, CellFacts
<1>4. /\ u \in Seq(0 .. MaxAdds) /\ Len(u) = Len(o) + 1
      /\ \A m \in 1 .. Len(o) : u[m] = o[m]
      /\ u[Len(o) + 1] = v
  BY <1>3, AppendProperties
<1>5. \A m \in 1 .. Len(u) : m \in 1 .. Len(o) \/ m = Len(o) + 1
  BY <1>1, <1>4
<1>6. Marked(u, s, i + 1)
  <2> SUFFICES ASSUME NEW m \in 1 .. Len(u), u[m] # 0
               PROVE  \E p \in 1 .. i + 1 : s[p].e = u[m] /\ s[p].k = LogLine
    BY DEF Marked
  <2>1. CASE m \in 1 .. Len(o)
    <3>1. PICK p \in 1 .. i : s[p].e = o[m] /\ s[p].k = LogLine
      BY <1>4, <2>1 DEF Marked
    <3>2. QED
      BY <1>1, <1>4, <2>1, <3>1
  <2>2. CASE m = Len(o) + 1
    <3>1. u[m] = s[i + 1].e /\ i + 1 \in 1 .. i + 1
      BY <1>1, <1>4, <2>2
    <3>2. QED
      BY <3>1
  <2>3. QED
    BY <1>5, <2>1, <2>2
<1>7. Rising(u)
  <2> SUFFICES ASSUME NEW m \in 1 .. Len(u), NEW q \in 1 .. Len(u), m < q, u[m] # 0, u[q] # 0
               PROVE  u[m] < u[q]
    BY DEF Rising
  <2>1. m \in 1 .. Len(o)
    BY <1>1, <1>4
  <2>2. CASE q \in 1 .. Len(o)
    BY <1>4, <2>1, <2>2 DEF Rising
  <2>3. CASE q = Len(o) + 1
    <3>1. u[q] = s[i + 1].e
      BY <1>4, <2>3
    <3>2. PICK p \in 1 .. i : s[p].e = o[m] /\ s[p].k = LogLine
      BY <1>4, <2>1 DEF Marked
    <3>3. s[p].e < s[i + 1].e \/ (s[p].e = s[i + 1].e /\ s[p].k < s[i + 1].k)
      BY <1>1, <3>2 DEF SortedCells
    <3>4. ~(LogLine < LogLine)
      BY <1>2
    <3>5. s[p].e < s[i + 1].e
      BY <3>2, <3>3, <3>4
    <3>6. QED
      BY <1>4, <2>1, <3>1, <3>2, <3>5
  <2>4. QED
    BY <1>5, <2>2, <2>3
<1>8. QED
  BY <1>6, <1>7

(* The lines read from a sorted file: their entries rise, within the bounds of
   the file's cells. *)
LEMMA LinesRise ==
  ASSUME NEW s \in Seq(EntryCell), SortedCells(s), NEW lo, NEW hi, Between(s, lo, hi)
  PROVE  Lines(s) \in Seq(0 .. MaxAdds) /\ Rising(Lines(s)) /\ Within(Lines(s), lo, hi)
<1> DEFINE N == Len(s)
           k == LinesFrom(s)
           T == {i \in 0 .. N : Marked(k[i].out, s, i) /\ Rising(k[i].out)}
<1>1. /\ k[0] = [cur |-> <<>>, out |-> <<>>]
      /\ \A i \in 1 .. N : k[i] = Feed(k[i - 1], s[i])
      /\ \A i \in 0 .. N : k[i] \in Reading
      /\ Lines(s) = k[N].out
  BY LinesWalk
<1>2. N \in Nat /\ 0 \in 0 .. N /\ N \in 0 .. N /\ \A i \in 1 .. N : s[i] \in EntryCell
  OBVIOUS
<1> HIDE DEF k
<1>3. 0 \in T
  <2>1. k[0].out = <<>>
    BY <1>1
  <2>2. QED
    BY <1>2, <2>1 DEF Marked, Rising
<1>4. ASSUME NEW i \in 0 .. N, i \in T, i < N PROVE i + 1 \in T
  <2> DEFINE a == k[i]
             c == s[i + 1]
             o == a.out
             u == k[i + 1].out
  <2>1. i + 1 \in 1 .. N /\ i + 1 \in 0 .. N /\ (i + 1) - 1 = i
        /\ \A p \in 1 .. i : p \in 1 .. i + 1
    BY <1>2, <1>4
  <2>2. a \in Reading /\ c \in EntryCell /\ k[i + 1] = Feed(a, c) /\ Marked(o, s, i) /\ Rising(o)
    BY <1>1, <1>2, <1>4, <2>1
  <2>3. \/ u = o
        \/ c.k = LogLine /\ \E v : (v = 0 \/ v = c.e) /\ u = Append(o, v)
    <3> HIDE DEF a, c
    <3>1. \/ Feed(a, c).out = a.out \/ Feed(a, c) = a
          \/ c.k = LogLine /\ Feed(a, c).out = Append(a.out, Closed(a.cur, c))
      BY <2>2, FeedFacts
    <3>2. Closed(a.cur, c) = 0 \/ Closed(a.cur, c) = c.e
      BY DEF Closed
    <3>3. QED
      BY <2>2, <3>1, <3>2
  <2>4. o \in Seq(0 .. MaxAdds)
    BY <2>2 DEF Reading
  <2> HIDE DEF a, o, u
  <2>5. Marked(u, s, i + 1) /\ Rising(u)
    <3>1. CASE u = o
      BY <2>1, <2>2, <3>1 DEF Marked
    <3>2. CASE c.k = LogLine /\ \E v : (v = 0 \/ v = c.e) /\ u = Append(o, v)
      BY <1>4, <2>2, <2>4, <3>2, MarkedStep
    <3>3. QED
      BY <2>3, <3>1, <3>2
  <2>6. QED
    BY <2>1, <2>5 DEF u
<1>5. 0 .. N \subseteq T
  <2> HIDE DEF T, N
  <2>1. QED
    BY <1>2, <1>3, <1>4, BoundedInduction
<1> DEFINE o == Lines(s)
<1>6. o \in Seq(0 .. MaxAdds) /\ Marked(o, s, N) /\ Rising(o)
  <2>1. k[N] \in Reading /\ o = k[N].out /\ N \in T
    BY <1>1, <1>2, <1>5
  <2>2. k[N].out \in Seq(0 .. MaxAdds)
    BY <2>1 DEF Reading
  <2>3. QED
    BY <2>1, <2>2
<1> HIDE DEF o
<1>7. Within(o, lo, hi)
  BY <1>6 DEF Within, Marked, Between
<1>8. QED
  BY <1>6, <1>7 DEF o
-----------------------------------------------------------------------------
(* The lines end with entry last and have no gap; only the first may be
   unreadable. *)
Gapless(o, last) ==
  \A m \in 1 .. Len(o) :
    \/ o[m] \in 1 .. MaxAdds /\ o[m] + Len(o) = last + m
    \/ m = 1 /\ o[m] = 0

(* cur holds the cells of c's line up to c. *)
UpToCell(cur, c) == Len(cur) = c.k /\ \A j \in 1 .. c.k : cur[j] = [e |-> c.e, k |-> j]

(* A file without gaps, read up to the cell c: c ends its line; or the line so far
   is complete, or it is the first one and cut; and the lines before have no
   gap. *)
ReadUpTo(a, c) ==
  /\ c.k = LogLine => a.cur = <<>> /\ Gapless(a.out, c.e)
  /\ c.k # LogLine => /\ a.cur # <<>> /\ Gapless(a.out, c.e - 1)
                      /\ UpToCell(a.cur, c) \/ a.out = <<>>

(* A complete line is readable. *)
LEMMA CompleteLine ==
  ASSUME NEW cur \in Seq(EntryCell), NEW b \in EntryCell, NEW c \in EntryCell,
         UpToCell(cur, b), c.e = b.e, c.k = b.k + 1, c.k = LogLine
  PROVE  Closed(cur, c) = c.e
<1>1. /\ LogLine \in Nat /\ b.k \in Nat /\ c.e \in 1 .. MaxAdds /\ b.k + 1 = LogLine
  BY CellFacts, LogConstants
<1> DEFINE x == Append(cur, c)
           y == EntryLine(c.e)
<1>2. y \in Seq(EntryCell) /\ Len(y) = LogLine /\ \A j \in 1 .. LogLine : y[j] = [e |-> c.e, k |-> j]
  BY <1>1, LogLineFacts DEF EntryLine
<1>3. /\ x \in Seq(EntryCell) /\ Len(x) = Len(cur) + 1
      /\ \A j \in 1 .. Len(cur) : x[j] = cur[j]
      /\ x[Len(cur) + 1] = c
  BY AppendProperties
<1> HIDE DEF x, y
<1>4. Len(cur) = b.k /\ Len(x) = LogLine
  BY <1>1, <1>3 DEF UpToCell
<1>5. c = [e |-> c.e, k |-> LogLine]
  BY DEF EntryCell
<1>6. ASSUME NEW j \in 1 .. LogLine PROVE x[j] = y[j]
  <2>1. CASE j \in 1 .. b.k
    BY <1>2, <1>3, <1>4, <2>1 DEF UpToCell
  <2>2. CASE j = LogLine
    BY <1>1, <1>2, <1>3, <1>4, <1>5, <2>2
  <2>3. QED
    BY <1>1, <2>1, <2>2
<1>7. x = y
  BY <1>2, <1>3, <1>4, <1>6, SeqEqual
<1>8. QED
  BY <1>7 DEF Closed, x, y

(* A line more. *)
LEMMA GaplessStep ==
  ASSUME NEW o \in Seq(0 .. MaxAdds), NEW last \in 1 .. MaxAdds, Gapless(o, last - 1),
         NEW v, v = last \/ (v = 0 /\ o = <<>>), NEW u, u = Append(o, v)
  PROVE  Gapless(u, last)
<1>1. Len(o) \in Nat /\ last \in Nat /\ MaxAdds \in Nat /\ v \in 0 .. MaxAdds
  BY LogConstants
<1>2. /\ u \in Seq(0 .. MaxAdds) /\ Len(u) = Len(o) + 1
      /\ \A m \in 1 .. Len(o) : u[m] = o[m]
      /\ u[Len(o) + 1] = v
  BY <1>1, AppendProperties
<1> SUFFICES ASSUME NEW m \in 1 .. Len(u)
             PROVE  \/ u[m] \in 1 .. MaxAdds /\ u[m] + Len(u) = last + m
                    \/ m = 1 /\ u[m] = 0
  BY DEF Gapless
<1>3. CASE m \in 1 .. Len(o)
  <2>1. CASE o[m] \in 1 .. MaxAdds /\ o[m] + Len(o) = (last - 1) + m
    <3>1. u[m] = o[m] /\ o[m] \in Nat
      BY <1>1, <1>2, <1>3, <2>1
    <3>2. o[m] + (Len(o) + 1) = last + m
      <4>1. m \in Nat /\ Len(o) \in Nat /\ last \in Nat
        BY <1>1, <1>3
      <4>2. \A x \in Nat : x + Len(o) = (last - 1) + m => x + (Len(o) + 1) = last + m
        BY ONLY <4>1
      <4>3. QED
        BY <2>1, <3>1, <4>2
    <3>3. QED
      BY <1>2, <2>1, <3>1, <3>2
  <2>2. CASE m = 1 /\ o[m] = 0
    BY <1>2, <1>3, <2>2
  <2>3. QED
    BY <1>3, <2>1, <2>2 DEF Gapless
<1>4. CASE m = Len(o) + 1
  <2>1. CASE v = last
    BY <1>1, <1>2, <1>4, <2>1
  <2>2. CASE v = 0 /\ o = <<>>
    BY <1>1, <1>2, <1>4, <2>2
  <2>3. QED
    BY <2>1, <2>2
<1>5. QED
  BY <1>1, <1>2, <1>3, <1>4

(* The first cell of a file. *)
LEMMA ReadFirst ==
  ASSUME NEW c \in EntryCell
  PROVE  ReadUpTo(Feed([cur |-> <<>>, out |-> <<>>], c), c)
<1> DEFINE a == [cur |-> <<>>, out |-> <<>>]
           f == Feed(a, c)
<1>1. a \in Reading /\ a.cur = <<>> /\ a.out = <<>>
  BY DEF Reading
<1>2. c.k \in Nat /\ LogLine \in Nat
  BY CellFacts, LogConstants
<1> HIDE DEF a
<1>3. /\ f \in Reading
      /\ \/ c.k < LogLine /\ f.cur = Append(a.cur, c) /\ f.out = a.out
         \/ c.k = LogLine /\ f = a
  BY <1>1, FeedFacts
<1> HIDE DEF f
<1>4. \A x : Gapless(<<>>, x)
  BY DEF Gapless
<1>5. CASE c.k < LogLine /\ f.cur = Append(a.cur, c) /\ f.out = a.out
  <2>1. Append(<<>>, c) # <<>>
    OBVIOUS
  <2>2. c.k # LogLine
    BY <1>2, <1>5
  <2>3. QED
    BY <1>1, <1>4, <1>5, <2>1, <2>2 DEF ReadUpTo, f, a
<1>6. CASE c.k = LogLine /\ f = a
  BY <1>1, <1>4, <1>6 DEF ReadUpTo, f, a
<1>7. QED
  BY <1>3, <1>5, <1>6

(* The cell that follows. *)
LEMMA ReadNext ==
  ASSUME NEW a \in Reading, NEW b \in EntryCell, NEW c \in EntryCell,
         Follows(b, c), ReadUpTo(a, b)
  PROVE  ReadUpTo(Feed(a, c), c)
<1> DEFINE f == Feed(a, c)
<1>1. /\ LogLine \in Nat /\ LogLine >= 2 /\ MaxAdds \in Nat
      /\ b.e \in Nat /\ c.e \in 1 .. MaxAdds /\ c.e \in Nat /\ b.k \in 1 .. LogLine /\ c.k \in 1 .. LogLine
      /\ b.k \in Nat /\ c.k \in Nat
  BY CellFacts, LogConstants
<1>2. a.cur \in Seq(EntryCell) /\ a.out \in Seq(0 .. MaxAdds)
  BY DEF Reading
<1>3. /\ f \in Reading
      /\ \/ c.k < LogLine /\ f.cur = Append(a.cur, c) /\ f.out = a.out
         \/ c.k = LogLine /\ a.cur = <<>> /\ f = a
         \/ /\ c.k = LogLine /\ a.cur # <<>> /\ f.cur = <<>>
            /\ f.out = Append(a.out, Closed(a.cur, c))
  BY FeedFacts
<1>s. c = [e |-> c.e, k |-> c.k]
  BY DEF EntryCell
<1>p. PICK cur \in Seq(EntryCell) : cur = a.cur
  BY <1>2
<1>a. /\ Append(cur, c) \in Seq(EntryCell) /\ Len(Append(cur, c)) = Len(cur) + 1
      /\ \A j \in 1 .. Len(cur) : Append(cur, c)[j] = cur[j]
      /\ Append(cur, c)[Len(cur) + 1] = c
  BY AppendProperties
<1> HIDE DEF f
<1>4. CASE b.k = LogLine
  <2>1. c.e = b.e + 1 /\ c.k = 1 /\ a.cur = <<>> /\ Gapless(a.out, b.e)
    BY <1>1, <1>4 DEF Follows, ReadUpTo
  <2>2. f.cur = Append(a.cur, c) /\ f.out = a.out /\ c.k # LogLine /\ c.e - 1 = b.e
    BY <1>1, <1>3, <2>1
  <2>3. f.cur # <<>> /\ UpToCell(f.cur, c)
    <3>1. Append(<<>>, c) # <<>> /\ Len(Append(<<>>, c)) = 1 /\ Append(<<>>, c)[1] = c
      OBVIOUS
    <3>2. \A j \in 1 .. 1 : j = 1
      OBVIOUS
    <3>3. QED
      BY <1>s, <2>1, <2>2, <3>1, <3>2 DEF UpToCell
  <2>4. QED
    BY <2>1, <2>2, <2>3 DEF ReadUpTo, f
<1>5. CASE b.k # LogLine
  <2>1. /\ c.e = b.e /\ c.k = b.k + 1 /\ a.cur # <<>> /\ Gapless(a.out, b.e - 1)
        /\ UpToCell(a.cur, b) \/ a.out = <<>>
    BY <1>5 DEF Follows, ReadUpTo
  <2>2. CASE c.k < LogLine
    <3>1. f.cur = Append(cur, c) /\ f.out = a.out /\ c.k # LogLine
      BY <1>1, <1>3, <1>p, <2>2
    <3>2. f.cur # <<>>
      <4>1. Append(cur, c) # <<>>
        BY AppendProperties, Zenon
      <4>2. QED
        BY <3>1, <4>1
    <3>3. ASSUME UpToCell(cur, b) PROVE UpToCell(Append(cur, c), c)
      <4>1. Len(cur) = b.k /\ \A j \in 1 .. b.k : cur[j] = [e |-> b.e, k |-> j]
        BY <3>3 DEF UpToCell
      <4>2. \A j \in 1 .. c.k : j \in 1 .. b.k \/ j = c.k
        BY <1>1, <2>1
      <4> DEFINE x == Append(cur, c)
      <4>3. Len(x) = c.k /\ x[c.k] = c /\ \A j \in 1 .. b.k : x[j] = cur[j]
        BY <1>a, <2>1, <4>1
      <4> HIDE DEF x
      <4>4. \A j \in 1 .. c.k : x[j] = [e |-> c.e, k |-> j]
        BY <1>s, <2>1, <4>1, <4>2, <4>3
      <4>5. QED
        BY <4>3, <4>4 DEF UpToCell, x
    <3>4. QED
      BY <1>p, <2>1, <3>1, <3>2, <3>3 DEF ReadUpTo, f
  <2>3. CASE c.k = LogLine
    <3>1. f.cur = <<>> /\ f.out = Append(a.out, Closed(cur, c))
      BY <1>1, <1>3, <1>p, <2>1, <2>3
    <3>2. Closed(cur, c) = c.e \/ (Closed(cur, c) = 0 /\ a.out = <<>>)
      <4>1. CASE UpToCell(cur, b)
        BY <2>1, <2>3, <4>1, CompleteLine
      <4>2. CASE a.out = <<>>
        BY <4>2 DEF Closed
      <4>3. QED
        BY <1>p, <2>1, <4>1, <4>2
    <3>3. Gapless(f.out, c.e)
      <4> DEFINE v == Closed(cur, c)
      <4>1. Gapless(a.out, c.e - 1)
        BY <2>1
      <4>2. PICK o \in Seq(0 .. MaxAdds) : o = a.out
        BY <1>2
      <4> HIDE DEF v
      <4>3. f.out = Append(o, v) /\ (v = c.e \/ (v = 0 /\ o = <<>>)) /\ Gapless(o, c.e - 1)
        BY <3>1, <3>2, <4>1, <4>2 DEF v
      <4>4. QED
        BY <1>1, <4>3, GaplessStep
    <3>4. QED
      BY <2>3, <3>1, <3>3 DEF ReadUpTo, f
  <2>4. QED
    BY <1>1, <2>2, <2>3
<1>6. QED
  BY <1>4, <1>5

(* The lines read from a file without gaps have none. *)
LEMMA LinesGapless ==
  ASSUME NEW s \in Seq(EntryCell), NEW last, Chain(s, last)
  PROVE  Gapless(Lines(s), last)
<1> DEFINE N == Len(s)
           k == LinesFrom(s)
           T == {i \in 0 .. N : i # 0 => ReadUpTo(k[i], s[i])}
<1>1. /\ k[0] = [cur |-> <<>>, out |-> <<>>]
      /\ \A i \in 1 .. N : k[i] = Feed(k[i - 1], s[i])
      /\ \A i \in 0 .. N : k[i] \in Reading
      /\ Lines(s) = k[N].out
  BY LinesWalk
<1>2. N \in Nat /\ 0 \in 0 .. N /\ N \in 0 .. N /\ \A i \in 1 .. N : s[i] \in EntryCell
  OBVIOUS
<1> HIDE DEF k
<1>3. 0 \in T
  BY <1>2
<1>4. ASSUME NEW i \in 0 .. N, i \in T, i < N PROVE i + 1 \in T
  <2>1. i + 1 \in 1 .. N /\ i + 1 \in 0 .. N /\ (i + 1) - 1 = i /\ (i # 0 => i \in 1 .. N /\ i # N)
    BY <1>2, <1>4
  <2>2. k[i + 1] = Feed(k[i], s[i + 1]) /\ k[i] \in Reading /\ s[i + 1] \in EntryCell
    BY <1>1, <1>2, <2>1
  <2>3. CASE i = 0
    <3>1. ReadUpTo(k[i + 1], s[i + 1])
      BY <1>1, <2>2, <2>3, ReadFirst
    <3>2. QED
      BY <2>1, <3>1
  <2>4. CASE i # 0
    <3>1. s[i] \in EntryCell /\ ReadUpTo(k[i], s[i]) /\ Follows(s[i], s[i + 1])
      BY <1>2, <1>4, <2>1, <2>4 DEF Chain
    <3>2. ReadUpTo(k[i + 1], s[i + 1])
      BY <2>2, <3>1, ReadNext
    <3>3. QED
      BY <2>1, <3>2
  <2>5. QED
    BY <2>3, <2>4
<1>5. 0 .. N \subseteq T
  <2> HIDE DEF T, N
  <2>1. QED
    BY <1>2, <1>3, <1>4, BoundedInduction
<1>6. CASE N = 0
  BY <1>1, <1>6 DEF Gapless
<1>7. CASE N # 0
  <2>1. N \in 1 .. N /\ ReadUpTo(k[N], s[N])
    BY <1>2, <1>5, <1>7
  <2>2. s[N].e = last /\ s[N].k = LogLine
    BY <2>1 DEF Chain
  <2>3. QED
    BY <1>1, <2>1, <2>2 DEF ReadUpTo
<1>8. QED
  BY <1>6, <1>7
-----------------------------------------------------------------------------
(* The newest lines: at most n of them, the end of all. *)
LEMMA NewestFacts ==
  ASSUME NEW V, NEW s \in Seq(V), NEW n \in Nat \ {0}
  PROVE  Newest(s, n) \in Seq(V) /\ EndPart(Newest(s, n), s)
<1> DEFINE q == IF Len(s) > n THEN Len(s) - n ELSE 0
<1>1. Len(s) \in Nat /\ q \in 0 .. Len(s) /\ Len(s) \in 0 .. Len(s)
  OBVIOUS
<1>2. (IF Len(s) > n THEN Len(s) - n + 1 ELSE 1) = q + 1
  OBVIOUS
<1>3. Newest(s, n) = SubSeq(s, q + 1, Len(s))
  BY <1>2 DEF Newest
<1> HIDE DEF q
<1>4. SubSeq(s, q + 1, Len(s)) \in Seq(V) /\ EndPart(SubSeq(s, q + 1, Len(s)), s)
  BY <1>1, Stretch, StretchIsPart
<1>5. QED
  BY <1>3, <1>4

(* The end of lines that rise, rises; of lines without gaps, has none. *)
LEMMA EndOfLines ==
  ASSUME NEW s \in Seq(0 .. MaxAdds), NEW t \in Seq(0 .. MaxAdds), EndPart(t, s)
  PROVE  /\ Rising(s) => Rising(t)
         /\ \A lo, hi : Within(s, lo, hi) => Within(t, lo, hi)
         /\ \A last \in Nat : Gapless(s, last) => Gapless(t, last)
<1>1. PICK q \in 0 .. Len(s) :
             q + Len(t) = Len(s) /\ \A i \in 1 .. Len(t) : t[i] = s[q + i]
  BY DEF EndPart
<1>2. Len(s) \in Nat /\ Len(t) \in Nat /\ q \in Nat /\ MaxAdds \in Nat
  BY LogConstants
<1>3. \A i \in 1 .. Len(t) : q + i \in 1 .. Len(s) /\ t[i] = s[q + i]
  BY <1>1, <1>2
<1>4. ASSUME Rising(s) PROVE Rising(t)
  <2> SUFFICES ASSUME NEW m \in 1 .. Len(t), NEW j \in 1 .. Len(t), m < j, t[m] # 0, t[j] # 0
               PROVE  t[m] < t[j]
    BY DEF Rising
  <2>1. q + m < q + j
    BY <1>2
  <2>2. QED
    BY <1>3, <1>4, <2>1 DEF Rising
<1>5. ASSUME NEW lo, NEW hi, Within(s, lo, hi) PROVE Within(t, lo, hi)
  BY <1>3, <1>5 DEF Within
<1>6. ASSUME NEW last \in Nat, Gapless(s, last) PROVE Gapless(t, last)
  <2> SUFFICES ASSUME NEW m \in 1 .. Len(t)
               PROVE  \/ t[m] \in 1 .. MaxAdds /\ t[m] + Len(t) = last + m
                      \/ m = 1 /\ t[m] = 0
    BY DEF Gapless
  <2> DEFINE i == q + m
  <2>1. i \in 1 .. Len(s) /\ t[m] = s[i] /\ m \in Nat /\ m >= 1
    BY <1>2, <1>3
  <2>2. CASE s[i] \in 1 .. MaxAdds /\ s[i] + Len(s) = last + i
    <3>1. \A x, l, a, y, b, z \in Nat : a + b = l /\ x + l = y + (a + z) => x + b = y + z
      OBVIOUS
    <3>2. t[m] \in 1 .. MaxAdds /\ t[m] \in Nat /\ t[m] + Len(s) = last + (q + m)
      BY <1>2, <2>1, <2>2
    <3>a. /\ Len(s) \in Nat /\ Len(t) \in Nat /\ q \in Nat /\ q + Len(t) = Len(s)
          /\ m \in Nat /\ t[m] \in Nat /\ last \in Nat
      BY <1>1, <1>2, <2>1, <3>2
    <3>b. \A x \in Nat : x + Len(s) = last + (q + m) => x + Len(t) = last + m
      BY ONLY <3>a
    <3>3. t[m] + Len(t) = last + m
      BY <3>2, <3>b
    <3>4. QED
      BY <3>2, <3>3
  <2>3. CASE i = 1 /\ s[i] = 0
    <3>1. m = 1
      BY <1>2, <2>1, <2>3
    <3>2. QED
      BY <2>1, <2>3, <3>1
  <2>4. QED
    BY <1>6, <2>1, <2>2, <2>3 DEF Gapless
<1>7. QED
  BY <1>4, <1>5, <1>6

(* The log's entries: in order, within bounds, without gaps up to last. *)
Inside(s, lo, hi) == \A i \in 1 .. Len(s) : lo < s[i] /\ s[i] < hi
Solid(s, last) == \A i \in 1 .. Len(s) : s[i] + Len(s) = last + i

(* The entries kept from lines. *)
LEMMA ValidFacts ==
  ASSUME NEW o \in Seq(0 .. MaxAdds)
  PROVE  /\ Valid(o) \in Seq(1 .. MaxAdds)
         /\ Rising(o) => Increasing(Valid(o))
         /\ \A lo, hi : Within(o, lo, hi) => Inside(Valid(o), lo, hi)
         /\ \A last \in Nat : Gapless(o, last) => Solid(Valid(o), last)
<1> DEFINE S == 1 .. MaxAdds
           V == 0 .. MaxAdds
           t == Keep(o, S)
<1>1. Valid(o) = t
  BY DEF Valid
<1>2. t \in Seq(V) /\ Picked(t, o, S, Len(o))
  <2> HIDE DEF S, V
  <2>1. o \in Seq(V)
    BY DEF V
  <2>2. QED
    BY <2>1, KeepFacts
<1>3. PICK h : Picks(t, o, S, Len(o), h)
  BY <1>2 DEF Picked
<1>t. ASSUME \A i \in 2 .. Len(o) : o[i] \in S
      PROVE  t = o \/ (o # <<>> /\ t = Tail(o))
  <2> HIDE DEF S, V
  <2>1. o \in Seq(V)
    BY DEF V
  <2>2. QED
    BY <1>t, <2>1, KeepTail
<1> HIDE DEF t
<1>4. Len(t) \in Nat /\ Len(o) \in Nat /\ MaxAdds \in Nat /\ DOMAIN t = 1 .. Len(t)
  BY <1>2, LogConstants
<1>5. \A i \in 1 .. Len(t) : /\ h[i] \in 1 .. Len(o) /\ t[i] = o[h[i]] /\ t[i] \in S /\ t[i] # 0
  BY <1>3, <1>4 DEF Picks
<1>6. t \in Seq(S)
  <2>1. \A i \in 1 .. Len(t) : t[i] \in S
    BY <1>5, Zenon
  <2>2. QED
    BY ONLY <1>2, <2>1, NarrowSeq, Zenon
<1>7. ASSUME Rising(o) PROVE Increasing(t)
  <2> SUFFICES ASSUME NEW i \in 1 .. Len(t), NEW j \in 1 .. Len(t), i < j PROVE t[i] < t[j]
    BY <1>4 DEF Increasing
  <2>1. h[i] < h[j]
    BY <1>3 DEF Picks
  <2>2. QED
    BY <1>5, <1>7, <2>1 DEF Rising
<1>8. ASSUME NEW lo, NEW hi, Within(o, lo, hi) PROVE Inside(t, lo, hi)
  BY <1>5, <1>8 DEF Within, Inside
<1>9. ASSUME NEW last \in Nat, Gapless(o, last) PROVE Solid(t, last)
  <2>1. \A i \in 1 .. Len(o) : o[i] \in S => o[i] + Len(o) = last + i
    BY <1>9 DEF Gapless
  <2>2. \A i \in 2 .. Len(o) : o[i] \in S
    <3>1. \A i \in 2 .. Len(o) : i \in 1 .. Len(o) /\ i # 1
      BY <1>4
    <3>2. QED
      BY <1>9, <3>1 DEF Gapless
  <2>3. t = o \/ (o # <<>> /\ t = Tail(o))
    BY <1>t, <2>2
  <2>4. CASE t = o
    BY <1>5, <2>1, <2>4 DEF Solid
  <2>5. CASE o # <<>> /\ t = Tail(o)
    <3>1. Len(o) # 0 /\ Len(t) = Len(o) - 1 /\ \A i \in 1 .. Len(t) : t[i] = o[i + 1]
      BY <2>5, HeadTailProperties
    <3> SUFFICES ASSUME NEW i \in 1 .. Len(t) PROVE t[i] + Len(t) = last + i
      BY DEF Solid
    <3>2. i \in Nat /\ i + 1 \in 1 .. Len(o) /\ o[i + 1] = t[i] /\ t[i] \in S /\ t[i] \in Nat
          /\ Len(t) + 1 = Len(o)
      BY <1>4, <1>5, <3>1
    <3>3. t[i] + (Len(t) + 1) = last + (i + 1)
      BY <2>1, <3>2
    <3>4. Len(t) \in Nat /\ last \in Nat /\ i \in Nat
      BY <1>4, <3>2
    <3>5. \A x \in Nat : x + (Len(t) + 1) = last + (i + 1) => x + Len(t) = last + i
      BY ONLY <3>4
    <3>6. QED
      BY <3>2, <3>3, <3>5
  <2>6. QED
    BY <2>3, <2>4, <2>5
<1>10. QED
  BY <1>1, <1>6, <1>7, <1>8, <1>9
-----------------------------------------------------------------------------
(* The inductive invariant of the activity log: the cells on file are in the
   order of their entries, of those after the last Clear; and as long as nothing
   failed or was lost, file and ring end with the newest entry without a gap. *)
LogInv ==
  /\ LogTypeOK
  /\ LogFileOK(log) /\ CellsOK(log, cleared, nextEntry)
  /\ Increasing(entries) /\ Inside(entries, cleared, nextEntry) /\ cleared < nextEntry
  /\ clean => log.faults = 0 /\ Chain(Cells(log), nextEntry - 1) /\ Solid(entries, nextEntry - 1)

(* The initial state. *)
LEMMA LogStarts ==
  ASSUME LogInit
  PROVE  LogInv
<1>1. MaxAdds \in Nat /\ LogFaults \in Nat /\ BufCap \in Nat
  BY LogConstants
<1>2. /\ log.data = <<>> /\ log.buf = <<>> /\ log.fileSize = 0 /\ log.open = TRUE
      /\ log.err = FALSE /\ log.faults = 0
      /\ entries = <<>> /\ nextEntry = 1 /\ cleared = 0 /\ clean = TRUE
      /\ ring \in RingSizes /\ toFile \in BOOLEAN /\ fileMax \in LogSizes
  BY DEF LogInit
<1>3. log \in LogFile
  <2>1. 0 \in 0 .. LogFaults
    BY <1>1
  <2>2. QED
    BY <2>1 DEF LogFile, LogInit
<1>4. Cells(log) = <<>>
  BY <1>2 DEF Cells
<1>5. LogFileOK(log)
  BY <1>1, <1>2, <1>3 DEF LogFileOK, Exact, Works
<1>6. CellsOK(log, cleared, nextEntry) /\ Chain(Cells(log), nextEntry - 1)
  BY <1>4 DEF CellsOK, SortedCells, Between, Chain
<1>7. Increasing(entries) /\ Inside(entries, cleared, nextEntry) /\ Solid(entries, nextEntry - 1)
  BY <1>2 DEF Increasing, Inside, Solid
<1>8. LogTypeOK
  BY <1>1, <1>2, <1>3 DEF LogTypeOK
<1>9. QED
  BY <1>1, <1>2, <1>5, <1>6, <1>7, <1>8 DEF LogInv

(* The ring takes the next entry and drops the oldest beyond its size. *)
LEMMA RingFacts ==
  ASSUME NEW s \in Seq(1 .. MaxAdds), NEW n \in 1 .. MaxAdds, NEW lo \in Nat, lo < n,
         Increasing(s), Inside(s, lo, n), NEW r \in RingSizes, NEW t, t = Newest(Append(s, n), r)
  PROVE  /\ t \in Seq(1 .. MaxAdds) /\ Increasing(t) /\ Inside(t, lo, n + 1)
         /\ Solid(s, n - 1) => Solid(t, n)
<1> DEFINE V == 1 .. MaxAdds
           u == Append(s, n)
<1>1. MaxAdds \in Nat /\ r \in Nat \ {0} /\ Len(s) \in Nat /\ n \in Nat
  BY LogConstants
<1>2. /\ u \in Seq(V) /\ Len(u) = Len(s) + 1
      /\ \A m \in 1 .. Len(s) : u[m] = s[m]
      /\ u[Len(s) + 1] = n
  BY AppendProperties
<1>3. t \in Seq(V) /\ EndPart(t, u)
  <2> HIDE DEF u, V
  <2>1. QED
    BY <1>1, <1>2, NewestFacts DEF u
<1> HIDE DEF u
<1>4. PICK q \in 0 .. Len(u) :
             q + Len(t) = Len(u) /\ \A i \in 1 .. Len(t) : t[i] = u[q + i]
  BY <1>3 DEF EndPart
<1>5. Len(u) \in Nat /\ Len(t) \in Nat /\ q \in Nat
      /\ DOMAIN s = 1 .. Len(s) /\ DOMAIN t = 1 .. Len(t)
  BY <1>2, <1>3, <1>4
<1>6. \A i \in 1 .. Len(t) : /\ q + i \in 1 .. Len(u) /\ t[i] = u[q + i]
                             /\ q + i \in 1 .. Len(s) \/ q + i = Len(s) + 1
  <2>1. Len(u) \in Nat /\ Len(t) \in Nat /\ q \in Nat /\ Len(s) \in Nat
        /\ q + Len(t) = Len(u) /\ Len(u) = Len(s) + 1
    BY <1>1, <1>2, <1>4, <1>5
  <2>2. \A i \in 1 .. Len(t) : /\ q + i \in 1 .. Len(u)
                               /\ q + i \in 1 .. Len(s) \/ q + i = Len(s) + 1
    BY ONLY <2>1
  <2>3. QED
    BY <1>4, <2>2
<1>7. \A i \in 1 .. Len(s) : s[i] \in Nat /\ lo < s[i] /\ s[i] < n
  BY <1>1 DEF Inside
<1>8. ASSUME NEW i \in 1 .. Len(t), NEW j \in 1 .. Len(t), i < j PROVE t[i] < t[j]
  <2>1. q + i < q + j /\ q + i \in 1 .. Len(s)
    BY <1>1, <1>2, <1>5, <1>6, <1>8
  <2>2. CASE q + j \in 1 .. Len(s)
    <3>1. s[q + i] < s[q + j]
      BY <1>5, <2>1, <2>2 DEF Increasing
    <3>2. QED
      BY <1>2, <1>6, <2>1, <2>2, <3>1
  <2>3. CASE q + j = Len(s) + 1
    BY <1>2, <1>6, <1>7, <2>1, <2>3
  <2>4. QED
    BY <1>6, <2>2, <2>3
<1>9. ASSUME NEW i \in 1 .. Len(t) PROVE lo < t[i] /\ t[i] < n + 1
  <2>1. CASE q + i \in 1 .. Len(s)
    <3>1. t[i] = s[q + i]
      BY <1>2, <1>6, <2>1
    <3>2. \A x \in Nat : x < n => x < n + 1
      BY <1>1
    <3>3. QED
      BY <1>7, <2>1, <3>1, <3>2
  <2>2. CASE q + i = Len(s) + 1
    BY <1>1, <1>2, <1>6, <2>2
  <2>3. QED
    BY <1>6, <2>1, <2>2
<1>10. ASSUME Solid(s, n - 1), NEW i \in 1 .. Len(t) PROVE t[i] + Len(t) = n + i
  <2>0. i \in Nat /\ Len(t) + q = Len(s) + 1
    BY <1>1, <1>2, <1>4, <1>5
  <2>1. CASE q + i \in 1 .. Len(s)
    <3>1. t[i] = s[q + i] /\ s[q + i] + Len(s) = (n - 1) + (q + i) /\ t[i] \in Nat
      BY <1>2, <1>6, <1>7, <1>10, <2>1 DEF Solid
    <3>2. \A x \in Nat : x + Len(s) = (n - 1) + (q + i) => x + Len(t) = n + i
      BY ONLY <1>1, <1>5, <2>0
    <3>3. QED
      BY <3>1, <3>2
  <2>2. CASE q + i = Len(s) + 1
    <3>1. t[i] = n
      BY <1>2, <1>6, <2>2
    <3>2. Len(t) = i
      <4>1. Len(t) \in Nat /\ q \in Nat /\ Len(s) \in Nat
        BY <1>1, <1>5
      <4>2. \A x, y \in Nat : y + q = Len(s) + 1 /\ q + x = Len(s) + 1 => y = x
        BY ONLY <4>1
      <4>3. QED
        BY <2>0, <2>2, <4>1, <4>2
    <3>3. QED
      BY <3>1, <3>2
  <2>3. QED
    BY <1>6, <2>1, <2>2
<1>11. QED
  BY <1>3, <1>5, <1>8, <1>9, <1>10 DEF Increasing, Inside, Solid

(* The parts of the invariant a step starts from. *)
LEMMA LogInvFacts ==
  ASSUME LogInv
  PROVE  /\ entries \in Seq(1 .. MaxAdds) /\ log \in LogFile /\ ring \in RingSizes
         /\ toFile \in BOOLEAN /\ fileMax \in LogSizes /\ clean \in BOOLEAN
         /\ nextEntry \in 1 .. MaxAdds + 1 /\ cleared \in 0 .. MaxAdds
         /\ nextEntry \in Nat /\ cleared \in Nat /\ MaxAdds \in Nat
         /\ log.faults \in Nat
<1>1. /\ entries \in Seq(1 .. MaxAdds) /\ log \in LogFile /\ ring \in RingSizes
      /\ toFile \in BOOLEAN /\ fileMax \in LogSizes /\ clean \in BOOLEAN
      /\ nextEntry \in 1 .. MaxAdds + 1 /\ cleared \in 0 .. MaxAdds
  BY DEF LogInv, LogTypeOK
<1>2. MaxAdds \in Nat
  BY LogConstants
<1>3. nextEntry \in Nat /\ cleared \in Nat
  BY <1>1, <1>2
<1>4. log.faults \in Nat
  BY <1>1, FieldFacts
<1>5. QED
  BY <1>1, <1>2, <1>3, <1>4

(* Add. *)
LEMMA LogAddStep ==
  ASSUME LogInv, Add
  PROVE  LogInv'
<1> USE LogInvFacts
<1>1. /\ nextEntry <= MaxAdds /\ nextEntry' = nextEntry + 1 /\ ring' = ring /\ toFile' = toFile
      /\ fileMax' = fileMax
      /\ cleared' = cleared /\ clean' = (clean /\ toFile /\ log'.faults = log.faults)
      /\ entries' = Newest(Append(entries, nextEntry), ring)
      /\ log' \in IF toFile THEN writeFileLocked(log, EntryLine(nextEntry), fileMax) ELSE {log}
  BY DEF Add, logSettings
<1>2. nextEntry \in 1 .. MaxAdds /\ (nextEntry + 1) - 1 = nextEntry /\ nextEntry + 1 \in 1 .. MaxAdds + 1
  BY <1>1
<1>3. /\ LogFileOK(log) /\ CellsOK(log, cleared, nextEntry) /\ Increasing(entries)
      /\ Inside(entries, cleared, nextEntry) /\ cleared < nextEntry
      /\ clean => log.faults = 0 /\ Chain(Cells(log), nextEntry - 1) /\ Solid(entries, nextEntry - 1)
  BY DEF LogInv
<1>4. /\ entries' \in Seq(1 .. MaxAdds) /\ Increasing(entries')
      /\ Inside(entries', cleared, nextEntry + 1) /\ (Solid(entries, nextEntry - 1) => Solid(entries', nextEntry))
  BY <1>1, <1>2, <1>3, RingFacts
<1>5. /\ LogFileOK(log') /\ CellsOK(log', cleared, nextEntry + 1)
      /\ toFile /\ log'.faults = 0 /\ Chain(Cells(log), nextEntry - 1) => Chain(Cells(log'), nextEntry)
  <2>1. CASE toFile
    <3>1. log' \in writeFileLocked(log, EntryLine(nextEntry), fileMax)
      BY <1>1, <2>1
    <3>2. /\ LogFileOK(log') /\ CellsOK(log', cleared, nextEntry + 1)
          /\ log'.faults = 0 => /\ log.faults = 0
                                /\ Chain(Cells(log), nextEntry - 1) => Chain(Cells(log'), nextEntry)
      BY <1>2, <1>3, <3>1, WriteFacts
    <3>3. QED
      BY <1>3, <3>2
  <2>2. CASE ~toFile
    <3>1. log' = log
      BY <1>1, <2>2
    <3>2. \A i \in 1 .. Len(Cells(log)) : Cells(log)[i].e \in Nat
      BY <1>3, OKFacts
    <3>3. \A x \in Nat : x < nextEntry => x < nextEntry + 1
      OBVIOUS
    <3>4. CellsOK(log, cleared, nextEntry + 1)
      BY <1>3, <3>2, <3>3 DEF CellsOK, Between
    <3>5. QED
      BY <1>3, <2>2, <3>1, <3>4
  <2>3. QED
    BY <2>1, <2>2
<1>6. log' \in LogFile
  BY <1>5 DEF LogFileOK
<1>7. clean' => log'.faults = 0 /\ Chain(Cells(log'), nextEntry) /\ Solid(entries', nextEntry)
  BY <1>1, <1>3, <1>4, <1>5
<1>8. LogTypeOK' /\ cleared < nextEntry + 1
  <2>1. clean' \in BOOLEAN
    BY <1>1
  <2>2. cleared < nextEntry + 1
    BY <1>3
  <2>3. QED
    BY <1>1, <1>2, <1>4, <1>6, <2>1, <2>2 DEF LogTypeOK
<1>9. QED
  BY <1>1, <1>2, <1>4, <1>5, <1>7, <1>8 DEF LogInv

(* Flush. *)
LEMMA LogFlushStep ==
  ASSUME LogInv, Flush
  PROVE  LogInv'
<1>1. /\ nextEntry' = nextEntry /\ ring' = ring /\ toFile' = toFile /\ fileMax' = fileMax
      /\ entries' = entries
      /\ cleared' = cleared /\ clean' = (clean /\ log'.faults = log.faults)
      /\ log' \in Flushed(log)
  BY DEF Flush, logSettings
<1>2. /\ LogFileOK(log) /\ CellsOK(log, cleared, nextEntry)
      /\ clean => log.faults = 0 /\ Chain(Cells(log), nextEntry - 1) /\ Solid(entries, nextEntry - 1)
  BY DEF LogInv
<1>3. /\ log' \in LogFile /\ Works(log') /\ Cells(log') = Cells(log) /\ Len(log'.buf) <= Len(log.buf)
      /\ log'.open = log.open /\ log'.fileSize = log.fileSize /\ log'.sized = log.sized
      /\ log'.faults = 0 => log.faults = 0
      /\ log.open /\ ~log.err /\ ~log'.err => log'.buf = <<>>
  BY <1>1, <1>2, OKFacts, FlushedFacts
<1>4. Exact(log') /\ Len(log'.buf) <= BufCap
  <2>1. /\ Len(log.buf) <= BufCap /\ Exact(log) /\ Len(log.buf) \in Nat /\ BufCap \in Nat
        /\ Len(log.data) + Len(log.buf) = Len(Cells(log))
    BY <1>2, OKFacts, LogConstants
  <2>2. Len(log'.buf) \in Nat /\ Len(Cells(log')) = Len(log'.data) + Len(log'.buf)
    BY <1>3, FieldFacts
  <2>3. Len(log'.buf) <= BufCap
    <3>1. \A x, y, z \in Nat : x <= y /\ y <= z => x <= z
      OBVIOUS
    <3>2. QED
      BY <1>3, <2>1, <2>2, <3>1, Zenon
  <2>4. ASSUME log'.open, ~log'.err, log'.sized PROVE log'.fileSize = Len(log'.data) + Len(log'.buf)
    <3>1. ~log.err
      BY <1>1, <1>3, <2>4 DEF Flushed
    <3>2. log.fileSize = Len(log.data) + Len(log.buf)
      BY <1>3, <2>1, <2>4, <3>1 DEF Exact
    <3>3. QED
      BY <1>3, <2>1, <2>2, <3>2
  <2>5. QED
    BY <2>3, <2>4 DEF Exact
<1>5. LogFileOK(log')
  BY <1>3, <1>4 DEF LogFileOK
<1>6. CellsOK(log', cleared, nextEntry)
  BY <1>2, <1>3 DEF CellsOK
<1>7. LogTypeOK'
  <2>1. clean' \in BOOLEAN
    BY <1>1, LogInvFacts
  <2>2. QED
    BY <1>1, <1>3, <2>1, LogInvFacts DEF LogTypeOK
<1>8. QED
  BY <1>1, <1>2, <1>3, <1>5, <1>6, <1>7 DEF LogInv

(* ChangeLogs. *)
LEMMA LogChangeStep ==
  ASSUME LogInv, NEW r \in RingSizes, NEW f \in BOOLEAN, NEW m \in LogSizes, ChangeLogs(r, f, m)
  PROVE  LogInv'
<1>1. /\ entries' = entries /\ log' = log /\ nextEntry' = nextEntry /\ cleared' = cleared /\ clean' = clean
      /\ ring' = r /\ toFile' = f /\ fileMax' = m
  BY DEF ChangeLogs
<1>2. LogTypeOK'
  BY <1>1, LogInvFacts DEF LogTypeOK
<1>3. QED
  BY <1>1, <1>2 DEF LogInv

(* The truncation of Clear: an empty file, or, when it fails, the old one closed. *)
LEMMA TruncatedFacts ==
  ASSUME NEW d, LogFileOK(d), NEW g \in Truncated(d)
  PROVE  /\ LogFileOK(g)
         /\ \/ Cells(g) = <<>>
            \/ Part(Cells(g), Cells(d)) /\ ~g.open /\ g.faults # 0
         /\ g.faults = 0 => d.faults = 0
<1>1. PICK f \in Flushed(d) :
        g \in {[f EXCEPT !.data = <<>>, !.buf = <<>>, !.err = FALSE, !.fileSize = 0, !.sized = TRUE]}
              \cup {[f EXCEPT !.open = FALSE, !.buf = <<>>, !.err = FALSE, !.fileSize = 0, !.sized = TRUE,
                         !.faults = @ + 1] : x \in {y \in {0} : LogCanFail(f)}}
  BY DEF Truncated
<1>2. d \in LogFile /\ Works(d) /\ BufCap \in Nat
  BY OKFacts, LogConstants
<1>3. /\ f \in LogFile /\ Works(f) /\ Cells(f) = Cells(d) /\ (f.faults = 0 => d.faults = 0)
  BY <1>2, FlushedFacts
<1>4. /\ f.data \in Seq(EntryCell) /\ f.buf \in Seq(EntryCell) /\ Cells(f) \in Seq(EntryCell)
      /\ f.faults < LogFaults => f.faults + 1 \in 0 .. LogFaults /\ f.faults + 1 # 0
  BY <1>3, FieldFacts
<1>5. CASE g = [f EXCEPT !.data = <<>>, !.buf = <<>>, !.err = FALSE, !.fileSize = 0, !.sized = TRUE]
  <2>1. /\ g \in LogFile /\ g.data = <<>> /\ g.buf = <<>> /\ g.err = FALSE /\ g.fileSize = 0
        /\ g.open = f.open /\ g.faults = f.faults
    <3>1. <<>> \in Seq(EntryCell) /\ 0 \in Nat
      OBVIOUS
    <3>2. QED
      BY <1>3, <1>5, <3>1 DEF LogFile
  <2>2. Cells(g) = <<>> /\ Len(g.data) = 0 /\ Len(g.buf) = 0
    BY <2>1 DEF Cells
  <2>3. LogFileOK(g)
    BY <1>2, <1>3, <2>1, <2>2 DEF LogFileOK, Exact, Works
  <2>4. QED
    BY <1>3, <2>1, <2>2, <2>3
<1>6. CASE /\ LogCanFail(f)
           /\ g = [f EXCEPT !.open = FALSE, !.buf = <<>>, !.err = FALSE, !.fileSize = 0, !.sized = TRUE,
                            !.faults = @ + 1]
  <2>1. f.faults + 1 \in 0 .. LogFaults /\ f.faults + 1 # 0
    BY <1>4, <1>6 DEF LogCanFail
  <2>2. /\ g \in LogFile /\ g.data = f.data /\ g.buf = <<>> /\ g.fileSize = 0
        /\ g.open = FALSE /\ g.faults = f.faults + 1
    <3>1. <<>> \in Seq(EntryCell) /\ 0 \in Nat
      OBVIOUS
    <3>2. QED
      BY <1>3, <1>6, <2>1, <3>1 DEF LogFile
  <2>3. Cells(g) = f.data /\ Len(g.buf) = 0
    <3>1. f.data \o <<>> = f.data
      BY <1>4, ConcatEmptySeq
    <3>2. Len(<<>>) = 0
      OBVIOUS
    <3>3. QED
      BY <2>2, <3>1, <3>2 DEF Cells
  <2>4. LogFileOK(g) /\ ~g.open /\ g.faults # 0
    BY <1>2, <2>1, <2>2, <2>3 DEF LogFileOK, Exact, Works
  <2>5. Part(f.data, Cells(f))
    <3>1. Part(f.data, f.data \o f.buf)
      <4>1. Len(f.buf) \in 0 .. Len(f.buf)
        BY <1>4
      <4>2. QED
        BY <1>4, <4>1, PrefixIsPart
    <3>2. QED
      BY <3>1 DEF Cells
  <2>6. QED
    BY <1>3, <2>2, <2>3, <2>4, <2>5
<1>7. QED
  BY <1>1, <1>5, <1>6

(* Clear. *)
LEMMA LogClearStep ==
  ASSUME LogInv, Clear
  PROVE  LogInv'
<1>1. /\ nextEntry' = nextEntry /\ ring' = ring /\ toFile' = toFile /\ fileMax' = fileMax
      /\ entries' = <<>>
      /\ cleared' = (IF log'.open THEN nextEntry - 1 ELSE cleared)
      /\ clean' = (clean /\ log'.faults = log.faults)
      /\ log' \in IF log.open THEN Truncated(log) ELSE {log}
  BY DEF Clear, logSettings
<1>2. /\ LogFileOK(log) /\ CellsOK(log, cleared, nextEntry) /\ cleared < nextEntry
      /\ clean => log.faults = 0
  BY DEF LogInv
<1>3. /\ LogFileOK(log')
      /\ \/ Cells(log') = <<>>
         \/ Part(Cells(log'), Cells(log)) /\ ~log'.open /\ log'.faults # 0
      /\ log'.faults = 0 => log.faults = 0
  <2>1. CASE log.open
    BY <1>1, <1>2, <2>1, TruncatedFacts
  <2>2. CASE ~log.open
    <3>1. log' = log /\ log.faults # 0
      BY <1>1, <1>2, <2>2 DEF LogFileOK, Works
    <3>2. Cells(log) \in Seq(EntryCell)
      BY <1>2, OKFacts
    <3>3. Part(Cells(log), Cells(log))
      <4> DEFINE s == Cells(log)
      <4>1. 0 \in 0 .. Len(s) /\ 0 + Len(s) <= Len(s) /\ \A i \in 1 .. Len(s) : 0 + i = i
        <5> HIDE DEF s
        <5>1. s \in Seq(EntryCell)
          BY <3>2 DEF s
        <5>2. QED
          BY <5>1
      <4> HIDE DEF s
      <4>2. Part(s, s)
        BY <4>1 DEF Part
      <4>3. QED
        BY <4>2 DEF s
    <3>4. QED
      BY <1>2, <2>2, <3>1, <3>3
  <2>3. QED
    BY <2>1, <2>2
<1>4. cleared' \in 0 .. MaxAdds /\ cleared' < nextEntry
  <2>1. /\ nextEntry \in 1 .. MaxAdds + 1 /\ cleared \in 0 .. MaxAdds /\ MaxAdds \in Nat
    BY LogInvFacts
  <2>2. nextEntry - 1 \in 0 .. MaxAdds /\ nextEntry - 1 < nextEntry
    BY <2>1
  <2>3. QED
    BY <1>1, <1>2, <2>1, <2>2
<1>5. Cells(log) \in Seq(EntryCell) /\ Cells(log') \in Seq(EntryCell) /\ log' \in LogFile
  BY <1>2, <1>3, OKFacts
<1>6. CellsOK(log', cleared', nextEntry)
  <2>1. CASE Cells(log') = <<>>
    BY <2>1 DEF CellsOK, SortedCells, Between
  <2>2. CASE Part(Cells(log'), Cells(log)) /\ ~log'.open
    <3>1. SortedCells(Cells(log')) /\ Between(Cells(log'), cleared, nextEntry)
      BY <1>2, <1>5, <2>2, PartSorted DEF CellsOK
    <3>2. QED
      BY <1>1, <2>2, <3>1 DEF CellsOK
  <2>3. QED
    BY <1>3, <2>1, <2>2
<1>7. log'.faults = 0 => Chain(Cells(log'), nextEntry - 1)
  <2>1. CASE Cells(log') = <<>>
    BY <1>5, <2>1 DEF Chain
  <2>2. QED
    BY <1>3, <2>1
<1>8. /\ entries' \in Seq(1 .. MaxAdds) /\ Increasing(entries') /\ Inside(entries', cleared', nextEntry)
      /\ Solid(entries', nextEntry - 1)
  BY <1>1 DEF Increasing, Inside, Solid
<1>9. LogTypeOK'
  <2>1. clean' \in BOOLEAN
    BY <1>1, LogInvFacts
  <2>2. QED
    BY <1>1, <1>4, <1>5, <1>8, <2>1, LogInvFacts DEF LogTypeOK
<1>10. clean' => log'.faults = 0
  BY <1>1, <1>2
<1>11. QED
  BY <1>1, <1>3, <1>4, <1>6, <1>7, <1>8, <1>9, <1>10 DEF LogInv

(* What loadFile puts into the ring. *)
LEMMA LoadedFacts ==
  ASSUME NEW d \in LogFile, NEW lo, NEW hi,
         SortedCells(d.data), Between(d.data, lo, hi), ring \in RingSizes
  PROVE  /\ Loaded(d) \in Seq(1 .. MaxAdds) /\ Increasing(Loaded(d))
         /\ Inside(Loaded(d), lo, hi)
         /\ \A last \in Nat : Chain(d.data, last) => Solid(Loaded(d), last)
<1>1. d.data \in Seq(EntryCell) /\ ring \in Nat \ {0}
  BY FieldFacts, LogConstants
<1>2. CASE d.open /\ toFile
  <2> DEFINE o == Lines(d.data)
             t == Newest(o, ring)
  <2>1. o \in Seq(0 .. MaxAdds) /\ Rising(o) /\ Within(o, lo, hi)
    BY <1>1, LinesRise
  <2>2. \A last \in Nat : Chain(d.data, last) => Gapless(o, last)
    BY <1>1, LinesGapless
  <2> HIDE DEF o
  <2>3. t \in Seq(0 .. MaxAdds) /\ EndPart(t, o)
    BY <1>1, <2>1, NewestFacts
  <2>4. Loaded(d) = Valid(t)
    BY <1>2 DEF Loaded, o
  <2> HIDE DEF t
  <2>5. /\ Rising(t) /\ Within(t, lo, hi)
        /\ \A last \in Nat : Chain(d.data, last) => Gapless(t, last)
    BY <2>1, <2>2, <2>3, EndOfLines
  <2>6. QED
    BY <2>3, <2>4, <2>5, ValidFacts
<1>3. CASE ~(d.open /\ toFile)
  <2>1. Loaded(d) = <<>>
    BY <1>3 DEF Loaded
  <2>2. QED
    BY <2>1 DEF Increasing, Inside, Solid
<1>4. QED
  BY <1>2, <1>3

(* Restart: what the buffer held is lost, the ring is read back from the file. *)
LEMMA LogRestartStep ==
  ASSUME LogInv, LogRestart
  PROVE  LogInv'
<1>1. /\ nextEntry' = nextEntry /\ ring' = ring /\ toFile' = toFile /\ fileMax' = fileMax
      /\ cleared' = cleared
      /\ clean' = (clean /\ log.buf = <<>> /\ log'.faults = log.faults)
  BY DEF LogRestart, logSettings
<1>2. PICK d \in LogOpened(log) :
        \/ log' = d /\ entries' = Loaded(d)
        \/ LogCanFail(d) /\ log' = [d EXCEPT !.faults = @ + 1] /\ entries' = <<>>
  BY DEF LogRestart
<1>3. /\ LogFileOK(log) /\ CellsOK(log, cleared, nextEntry) /\ cleared < nextEntry
      /\ clean => log.faults = 0 /\ Chain(Cells(log), nextEntry - 1)
  BY DEF LogInv
<1>4. /\ log \in LogFile /\ log.data \in Seq(EntryCell) /\ log.buf \in Seq(EntryCell)
      /\ Cells(log) \in Seq(EntryCell) /\ Len(Cells(log)) = Len(log.data) + Len(log.buf)
      /\ Len(log.data) \in Nat /\ Len(log.buf) \in Nat
  BY <1>3, OKFacts
<1>5. /\ LogFileOK(d) /\ Cells(d) = log.data /\ d.data = log.data /\ d.buf = <<>>
      /\ d.faults = 0 => log.faults = 0
      /\ d \in LogFile
  BY <1>4, LogOpenedFacts, OKFacts
<1>6. /\ LogFileOK(log') /\ Cells(log') = log.data /\ (log'.faults = 0 => log.faults = 0)
  <2>1. CASE log' = d
    BY <1>5, <2>1
  <2>2. CASE LogCanFail(d) /\ log' = [d EXCEPT !.faults = @ + 1]
    <3>1. d.faults + 1 \in 0 .. LogFaults /\ d.faults + 1 # 0
      BY <1>5, <2>2, FieldFacts DEF LogCanFail
    <3>2. /\ log' \in LogFile /\ log'.data = d.data /\ log'.buf = d.buf /\ log'.open = d.open
          /\ log'.err = d.err /\ log'.fileSize = d.fileSize /\ log'.sized = d.sized
          /\ log'.faults = d.faults + 1
      BY <1>5, <2>2, <3>1 DEF LogFile
    <3>3. QED
      BY <1>5, <3>1, <3>2 DEF LogFileOK, Exact, Works, Cells
  <2>3. QED
    BY <1>2, <2>1, <2>2
<1>7. SortedCells(log.data) /\ Between(log.data, cleared, nextEntry)
  <2>1. Part(log.data, Cells(log))
    <3>1. Part(log.data, log.data \o log.buf)
      <4>1. Len(log.buf) \in 0 .. Len(log.buf)
        BY <1>4
      <4>2. QED
        BY <1>4, <4>1, PrefixIsPart
    <3>2. QED
      BY <3>1 DEF Cells
  <2>2. QED
    BY <1>3, <1>4, <2>1, PartSorted DEF CellsOK
<1>8. CellsOK(log', cleared, nextEntry)
  BY <1>6, <1>7 DEF CellsOK
<1>9. nextEntry \in Nat /\ nextEntry \in 1 .. MaxAdds + 1 /\ ring \in RingSizes /\ nextEntry - 1 \in Nat
  <2>1. nextEntry \in Nat /\ nextEntry \in 1 .. MaxAdds + 1 /\ ring \in RingSizes /\ MaxAdds \in Nat
    BY LogInvFacts
  <2>2. nextEntry - 1 \in Nat
    BY <2>1
  <2>3. QED
    BY <2>1, <2>2
<1>10. clean' => log'.faults = 0 /\ Chain(Cells(log'), nextEntry - 1)
  <2>1. log.buf = <<>> => Cells(log) = log.data
    <3>1. log.data \o <<>> = log.data
      BY <1>4, ConcatEmptySeq
    <3>2. QED
      BY <3>1 DEF Cells
  <2>2. QED
    BY <1>1, <1>3, <1>6, <2>1
<1>11. /\ entries' \in Seq(1 .. MaxAdds) /\ Increasing(entries') /\ Inside(entries', cleared, nextEntry)
       /\ Chain(log.data, nextEntry - 1) => Solid(entries', nextEntry - 1)
  <2>1. CASE entries' = Loaded(d)
    <3>1. SortedCells(d.data) /\ Between(d.data, cleared, nextEntry)
      BY <1>5, <1>7
    <3>2. /\ Loaded(d) \in Seq(1 .. MaxAdds) /\ Increasing(Loaded(d))
          /\ Inside(Loaded(d), cleared, nextEntry)
          /\ \A last \in Nat : Chain(d.data, last) => Solid(Loaded(d), last)
      BY <1>5, <1>9, <3>1, LoadedFacts
    <3>3. QED
      BY <1>5, <1>9, <2>1, <3>2
  <2>2. CASE entries' = <<>>
    BY <2>2 DEF Increasing, Inside, Solid
  <2>3. QED
    BY <1>2, <2>1, <2>2
<1>12. LogTypeOK'
  <2>1. clean' \in BOOLEAN /\ log' \in LogFile
    BY <1>1, <1>6, LogInvFacts DEF LogFileOK
  <2>2. QED
    BY <1>1, <1>11, <2>1, LogInvFacts DEF LogTypeOK
<1>13. QED
  BY <1>1, <1>3, <1>6, <1>8, <1>10, <1>11, <1>12 DEF LogInv

(* Every step keeps the invariant. *)
LEMMA LogStep ==
  ASSUME LogInv, [LogNext]_logVars
  PROVE  LogInv'
<1>1. CASE UNCHANGED logVars
  BY <1>1 DEF LogInv, logVars, LogTypeOK, LogFileOK, CellsOK, Works, Exact
<1>2. QED
  BY <1>1, LogAddStep, LogFlushStep, LogClearStep, LogRestartStep, LogChangeStep DEF LogNext

(* What a reader of the file and its buffer would find. *)
LEMMA LogOnFileFacts ==
  ASSUME LogInv
  PROVE  /\ LogOnFile \in Seq(1 .. MaxAdds) /\ Increasing(LogOnFile)
         /\ Inside(LogOnFile, cleared, nextEntry)
         /\ clean => Solid(LogOnFile, nextEntry - 1)
<1> DEFINE c == Cells(log)
           o == Lines(c)
<1>1. c \in Seq(EntryCell)
  BY OKFacts DEF LogInv
<1>2. SortedCells(c) /\ Between(c, cleared, nextEntry) /\ (clean => Chain(c, nextEntry - 1))
  BY DEF LogInv, CellsOK
<1>3. LogOnFile = Valid(o)
  BY DEF LogOnFile, Decode, Cells
<1>4. nextEntry - 1 \in Nat
  <2>1. nextEntry \in 1 .. MaxAdds + 1 /\ MaxAdds \in Nat
    BY LogInvFacts
  <2>2. QED
    BY <2>1
<1> HIDE DEF c
<1>5. o \in Seq(0 .. MaxAdds) /\ Rising(o) /\ Within(o, cleared, nextEntry)
  BY <1>1, <1>2, LinesRise
<1>6. clean => Gapless(o, nextEntry - 1)
  BY <1>1, <1>2, LinesGapless
<1> HIDE DEF o
<1>7. QED
  BY <1>3, <1>4, <1>5, <1>6, ValidFacts

(* No gaps, as the module says it. *)
LEMMA SolidMeans ==
  ASSUME NEW s \in Seq(1 .. MaxAdds), nextEntry \in Nat, nextEntry >= 1, Solid(s, nextEntry - 1)
  PROVE  \A i \in DOMAIN s : s[i] = nextEntry - 1 - Len(s) + i
<1>0. DOMAIN s = 1 .. Len(s)
  OBVIOUS
<1> SUFFICES ASSUME NEW i \in 1 .. Len(s) PROVE s[i] = nextEntry - 1 - Len(s) + i
  BY <1>0, Zenon
<1>1. s[i] + Len(s) = (nextEntry - 1) + i /\ s[i] \in Nat /\ Len(s) \in Nat /\ nextEntry \in Nat /\ i \in Nat
  <2>1. MaxAdds \in Nat /\ s[i] \in 1 .. MaxAdds
    BY LogConstants
  <2>2. QED
    BY <2>1 DEF Solid
<1>2. Len(s) \in Nat /\ nextEntry \in Nat /\ i \in Nat
  BY <1>1
<1>3. \A x \in Nat : x + Len(s) = (nextEntry - 1) + i => x = nextEntry - 1 - Len(s) + i
  BY ONLY <1>2
<1>4. QED
  BY <1>1, <1>3

(* The invariant gives the properties of the module that are about states. *)
LEMMA LogInvMeans ==
  ASSUME LogInv
  PROVE  LogOrdered /\ ClearedStaysCleared /\ NoGaps /\ SizeExact
<1>1. /\ LogOnFile \in Seq(1 .. MaxAdds) /\ Increasing(LogOnFile)
      /\ Inside(LogOnFile, cleared, nextEntry) /\ (clean => Solid(LogOnFile, nextEntry - 1))
  BY LogOnFileFacts
<1>2. /\ entries \in Seq(1 .. MaxAdds) /\ Increasing(entries)
      /\ Inside(entries, cleared, nextEntry) /\ (clean => Solid(entries, nextEntry - 1))
  BY LogInvFacts DEF LogInv
<1>3. LogOrdered
  BY <1>1, <1>2 DEF LogOrdered
<1>4. ClearedStaysCleared
  <2>1. ASSUME NEW s \in Seq(1 .. MaxAdds), Inside(s, cleared, nextEntry)
        PROVE  \A i \in DOMAIN s : s[i] > cleared
    <3>1. MaxAdds \in Nat /\ cleared \in Nat /\ DOMAIN s = 1 .. Len(s)
      BY LogInvFacts
    <3>2. \A x \in 1 .. MaxAdds : cleared < x => x > cleared
      BY <3>1
    <3>3. QED
      BY <2>1, <3>1, <3>2 DEF Inside
  <2> HIDE DEF LogOnFile
  <2>2. QED
    BY <1>1, <1>2, <2>1 DEF ClearedStaysCleared
<1>5. NoGaps
  <2>1. nextEntry \in Nat /\ nextEntry >= 1
    <3>1. nextEntry \in 1 .. MaxAdds + 1 /\ MaxAdds \in Nat
      BY LogInvFacts
    <3>2. QED
      BY <3>1
  <2>2. QED
    BY <1>1, <1>2, <2>1, SolidMeans DEF NoGaps
<1>6. SizeExact
  <2>1. LogFileOK(log) /\ LogTypeOK
    BY DEF LogInv
  <2>2. QED
    BY <2>1 DEF SizeExact, Size, Exact, LogFileOK
<1>7. QED
  BY <1>3, <1>4, <1>5, <1>6

(* The invariant holds in every state of the activity log. *)
THEOREM LogInvariant == LogSpec => []LogInv
<1>1. LogInit => LogInv
  BY LogStarts
<1>2. LogInv /\ [LogNext]_logVars => LogInv'
  BY LogStep
<1>3. QED
  BY <1>1, <1>2, PTL DEF LogSpec

(* No entry appears twice or out of order, in the ring or in the file. *)
THEOREM LogIsOrdered == LogSpec => []LogOrdered
<1>1. LogInv => LogOrdered
  BY LogInvMeans
<1>2. QED
  BY <1>1, LogInvariant, PTL

(* Nothing that a Clear removed from the file comes back. *)
THEOREM LogStaysCleared == LogSpec => []ClearedStaysCleared
<1>1. LogInv => ClearedStaysCleared
  BY LogInvMeans
<1>2. QED
  BY <1>1, LogInvariant, PTL

(* Without a failure or a lost buffer, ring and file end with the newest entry
   and have no gap. *)
THEOREM LogHasNoGaps == LogSpec => []NoGaps
<1>1. LogInv => NoGaps
  BY LogInvMeans
<1>2. QED
  BY <1>1, LogInvariant, PTL

(* l.fileSize is the size of what is or will be in the file, as long as the writer
   works and Stat told the size when the file was opened. *)
THEOREM LogSizeIsExact == LogSpec => []SizeExact
<1>1. LogInv => SizeExact
  BY LogInvMeans
<1>2. QED
  BY <1>1, LogInvariant, PTL

(* What a step may do to the size of the file, as FileBounded says it. *)
SizeStep ==
  log.sized /\ log'.faults = log.faults =>
    IF nextEntry' # nextEntry /\ toFile /\ log'.open /\ ~log'.err
    THEN Size' <= fileMax + 1 \/ Size' < Size
    ELSE Size' <= Size

(* Size is the number of cells. *)
LEMMA SizeFacts ==
  ASSUME LogInv, LogInv'
  PROVE  /\ Size = Len(Cells(log)) /\ Size \in Nat
         /\ Size' = Len(Cells(log')) /\ Size' \in Nat
<1>1. LogFileOK(log) /\ LogFileOK(log)'
  BY DEF LogInv
<1>2. LogFileOK(log')
  BY <1>1 DEF LogFileOK, Exact, Works
<1>3. Size = Len(Cells(log)) /\ Size \in Nat
  BY <1>1, OKFacts DEF Size
<1>4. Size' = Len(log'.data) + Len(log'.buf)
  BY DEF Size
<1>5. QED
  BY <1>2, <1>3, <1>4, OKFacts

(* Add makes the file grow within the limit in force. *)
LEMMA AddSize ==
  ASSUME LogInv, LogInv', Add
  PROVE  SizeStep
<1> SUFFICES ASSUME log.sized, log'.faults = log.faults
             PROVE  IF nextEntry' # nextEntry /\ toFile /\ log'.open /\ ~log'.err
                    THEN Size' <= fileMax + 1 \/ Size' < Size
                    ELSE Size' <= Size
  BY DEF SizeStep
<1>1. /\ nextEntry <= MaxAdds /\ nextEntry' = nextEntry + 1
      /\ log' \in IF toFile THEN writeFileLocked(log, EntryLine(nextEntry), fileMax) ELSE {log}
  BY DEF Add
<1>2. /\ nextEntry \in 1 .. MaxAdds /\ nextEntry' # nextEntry /\ LogFileOK(log)
      /\ fileMax \in LogSizes
  <2>1. nextEntry \in 1 .. MaxAdds + 1 /\ nextEntry \in Nat /\ MaxAdds \in Nat /\ fileMax \in LogSizes
    BY LogInvFacts
  <2>2. LogFileOK(log)
    BY DEF LogInv
  <2>3. QED
    BY <1>1, <2>1, <2>2
<1>3. CASE toFile
  <2>1. EntryLine(nextEntry) \in Seq(EntryCell) /\ Len(EntryLine(nextEntry)) = LogLine
    BY <1>2, LogLineFacts
  <2>2. log' \in writeFileLocked(log, EntryLine(nextEntry), fileMax)
    BY <1>1, <1>3
  <2>3. IF log'.open /\ ~log'.err
        THEN Len(Cells(log')) <= fileMax + 1 \/ Len(Cells(log')) < Len(Cells(log))
        ELSE Len(Cells(log')) <= Len(Cells(log))
    BY <1>2, <2>1, <2>2, WriteSize
  <2>4. QED
    BY <1>2, <1>3, <2>3, SizeFacts
<1>4. CASE ~toFile
  <2>1. Size' = Size
    BY <1>1, <1>4 DEF Size
  <2>2. QED
    BY <1>4, <2>1, SizeFacts
<1>5. QED
  BY <1>3, <1>4

(* No other step makes it grow. *)
LEMMA OtherSize ==
  ASSUME LogInv, LogInv', nextEntry' = nextEntry, Size' <= Size
  PROVE  SizeStep
  BY DEF SizeStep

(* A part of a sequence is not longer than the sequence. *)
LEMMA PartIsShorter ==
  ASSUME NEW S, NEW s \in Seq(S), NEW t \in Seq(S), Part(t, s)
  PROVE  Len(t) <= Len(s)
<1>1. PICK q \in 0 .. Len(s) : q + Len(t) <= Len(s)
  BY DEF Part
<1>2. Len(s) \in Nat /\ Len(t) \in Nat
  OBVIOUS
<1>3. QED
  BY <1>1, <1>2

(* Every step does to the size what FileBounded says. *)
LEMMA LogSizeStep ==
  ASSUME LogInv, LogInv', [LogNext]_logVars
  PROVE  SizeStep
<1>0. LogFileOK(log) /\ log \in LogFile /\ Works(log)
  BY DEF LogInv, LogFileOK
<1>s. Size = Len(Cells(log)) /\ Size \in Nat /\ Size' = Len(Cells(log')) /\ Size' \in Nat
  BY SizeFacts
<1>1. CASE Add
  BY <1>1, AddSize
<1>2. CASE Flush
  <2>1. Cells(log') = Cells(log) /\ nextEntry' = nextEntry
    BY <1>0, <1>2, FlushedFacts DEF Flush
  <2>2. Size' <= Size
    BY <1>s, <2>1
  <2>3. QED
    BY <2>1, <2>2, OtherSize
<1>3. CASE Clear
  <2>1. nextEntry' = nextEntry
    BY <1>3 DEF Clear
  <2>2. CASE log.open
    <3>1. Cells(log') = <<>> \/ Part(Cells(log'), Cells(log))
      BY <1>0, <1>3, <2>2, TruncatedFacts DEF Clear
    <3>2. LogFileOK(log') /\ Cells(log) \in Seq(EntryCell)
      <4>1. LogFileOK(log')
        BY <1>0, <1>3, <2>2, TruncatedFacts DEF Clear
      <4>2. QED
        BY <1>0, <4>1, OKFacts
    <3>3. Cells(log') \in Seq(EntryCell)
      BY <3>2, OKFacts
    <3>4. Size' <= Size
      <4>1. CASE Cells(log') = <<>>
        BY <1>s, <4>1
      <4>2. CASE Part(Cells(log'), Cells(log))
        BY <1>s, <3>2, <3>3, <4>2, PartIsShorter
      <4>3. QED
        BY <3>1, <4>1, <4>2
    <3>5. QED
      BY <2>1, <3>4, OtherSize
  <2>3. CASE ~log.open
    <3>1. log' = log
      BY <1>3, <2>3 DEF Clear
    <3>2. Size' <= Size
      BY <1>s, <3>1
    <3>3. QED
      BY <2>1, <3>2, OtherSize
  <2>4. QED
    BY <2>2, <2>3
<1>4. CASE LogRestart
  <2>1. PICK d \in LogOpened(log) : log' = d \/ log' = [d EXCEPT !.faults = @ + 1]
    BY <1>4 DEF LogRestart
  <2>2. LogFileOK(d) /\ d.data = log.data /\ d.buf = <<>>
    BY <1>0, LogOpenedFacts
  <2>3. log'.data = log.data /\ log'.buf = <<>>
    <3>1. d \in LogFile
      BY <2>2, OKFacts
    <3>2. QED
      BY <2>1, <2>2, <3>1 DEF LogFile
  <2>4. Size' <= Size
    <3>1. Size' = Len(log.data) + 0
      BY <2>3 DEF Size
    <3>2. Size = Len(log.data) + Len(log.buf) /\ Len(log.data) \in Nat /\ Len(log.buf) \in Nat
      BY <1>0, FieldFacts DEF Size
    <3>3. \A x, y \in Nat : x + 0 <= x + y
      OBVIOUS
    <3>4. QED
      BY <3>1, <3>2, <3>3, Zenon
  <2>5. QED
    BY <1>4, <2>4, OtherSize DEF LogRestart
<1>5. CASE UNCHANGED log /\ nextEntry' = nextEntry
  <2>1. Size' <= Size
    BY <1>s, <1>5
  <2>2. QED
    BY <1>5, <2>1, OtherSize
<1>6. QED
  BY <1>1, <1>2, <1>3, <1>4, <1>5 DEF LogNext, ChangeLogs, logVars

(* Each entry written without a failure leaves the file within the limit in force,
   or smaller than it was; nothing else makes it grow. *)
THEOREM LogIsBounded == LogSpec => FileBounded
<1>1. LogInv /\ LogInv' /\ [LogNext]_logVars => [SizeStep]_logVars
  BY LogSizeStep
<1>2. LogSpec => [][SizeStep]_logVars
  BY <1>1, LogInvariant, PTL DEF LogSpec
<1>3. QED
  BY <1>2 DEF SizeStep, FileBounded
-----------------------------------------------------------------------------
(* Part 3: the audit log. *)

(* An update that waits to be recorded while FindUser does not find its account is
   marked: what auditUserUpdate skips is exactly what the history says. *)
MissedSeen ==
  \A h \in Handlers :
    act[h] # None /\ act[h].at = "record" /\ act[h].kind = "update" /\ ~found => act[h].missed

FileOK(f) == f \in File /\ (~f.open => f.size = 0)

SizeOK(f) == f.faults = 0 => f.size = Len(f.data) /\ f.size <= FileMax + 1

IInv == TypeOK /\ SizeOK(file) /\ MissedSeen /\ AckedRecorded
-----------------------------------------------------------------------------
(* A line has LineLen cells. *)
LEMMA LineFacts ==
  ASSUME NEW n \in 1 .. MaxActions
  PROVE  Line(n) \in Seq(Cell) /\ Len(Line(n)) = LineLen
<1>1. \A k \in 1 .. LineLen : [n |-> n, k |-> k] \in Cell
  BY DEF Cell
<1>2. LineLen \in Nat
  BY AuditAssumption DEF AuditAssumption
<1>3. Line(n) \in [1 .. LineLen -> Cell]
  BY <1>1 DEF Line
<1>4. QED
  BY <1>2, <1>3

(* One more failure leaves everything else alone. *)
LEMMA FaultedFacts ==
  ASSUME NEW f \in File, CanFail(f)
  PROVE  /\ Faulted(f) \in File
         /\ Faulted(f).data = f.data /\ Faulted(f).open = f.open /\ Faulted(f).size = f.size
         /\ Faulted(f).faults # 0
<1>1. f.faults \in 0 .. MaxFaults /\ f.faults < MaxFaults /\ MaxFaults \in Nat
  BY AuditAssumption DEF File, CanFail, AuditAssumption
<1>2. f.faults + 1 \in 0 .. MaxFaults /\ f.faults + 1 # 0
  BY <1>1
<1>3. QED
  BY <1>2 DEF Faulted, File

(* open: without a failure the size is that of the file. *)
LEMMA OpenedFacts ==
  ASSUME NEW f \in File, ~f.open, f.size = 0, NEW g \in Opened(f)
  PROVE  /\ FileOK(g) /\ g.data = f.data
         /\ g.faults = 0 => f.faults = 0 /\ g.size = Len(g.data)
<1>1. CASE g = [f EXCEPT !.open = TRUE, !.size = Len(f.data)]
  <2>1. Len(f.data) \in Nat
    BY DEF File
  <2>2. QED
    BY <1>1, <2>1 DEF FileOK, File
<1>2. ASSUME CanFail(f), NEW o \in BOOLEAN, g = Faulted([f EXCEPT !.open = o])
      PROVE  FileOK(g) /\ g.data = f.data /\ g.faults # 0
  <2>1. /\ [f EXCEPT !.open = o] \in File /\ CanFail([f EXCEPT !.open = o])
        /\ [f EXCEPT !.open = o].size = 0 /\ [f EXCEPT !.open = o].data = f.data
    BY <1>2 DEF File, CanFail
  <2>2. QED
    BY <1>2, <2>1, FaultedFacts DEF FileOK
<1>3. QED
  BY <1>1, <1>2 DEF Opened

(* A part of a file's cells. *)
LEMMA PartFacts ==
  ASSUME NEW s \in Seq(Cell), NEW m \in Nat \ {0}, NEW n \in 0 .. Len(s)
  PROVE  /\ SubSeq(s, m, n) \in Seq(Cell)
         /\ Len(SubSeq(s, m, n)) = IF m <= n THEN n - m + 1 ELSE 0
<1>1. m \in Int /\ n \in Int
  OBVIOUS
<1>2. \A i \in m .. n : s[i] \in Cell
  <2>1. ASSUME NEW i \in m .. n PROVE i \in 1 .. Len(s)
    OBVIOUS
  <2>2. QED
    BY <2>1
<1>3. QED
  BY ONLY <1>1, <1>2, SubSeqProperties

(* The rewrite: the newest half, or a failure. *)
LEMMA HalvedFacts ==
  ASSUME NEW f \in File, NEW g \in Halved(f)
  PROVE  /\ g \in File
         /\ g.faults = 0 => f.faults = 0 /\ 2 * Len(g.data) <= Len(f.data) + 1
<1> DEFINE n == Len(f.data)
<1>1. f.data \in Seq(Cell) /\ n \in Nat
  BY DEF File
<1>2. PICK q \in 0 .. n : q = n \div 2 /\ 2 * q <= n /\ n <= 2 * q + 1
  BY <1>1, HalfFacts
<1>q. q \in 0 .. n /\ 2 * q <= n /\ n <= 2 * q + 1
  BY <1>2, Zenon
<1> DEFINE half == SubSeq(f.data, q + 1, n)
<1>3. half \in Seq(Cell) /\ Len(half) = n - q
  <2>1. q + 1 \in Nat \ {0} /\ n \in 0 .. Len(f.data)
    BY <1>1
  <2>2. half \in Seq(Cell) /\ Len(half) = IF q + 1 <= n THEN n - (q + 1) + 1 ELSE 0
    BY <1>1, <2>1, PartFacts
  <2>3. QED
    BY <1>1, <1>q, <2>2
<1>4. \/ f.data = <<>> /\ g = f
      \/ g = [f EXCEPT !.data = half]
      \/ /\ CanFail(f)
         /\ \E d \in {f.data} \cup {SubSeq(half, 1, k) : k \in 0 .. Len(half) - 1} :
              g = Faulted([f EXCEPT !.data = d])
  BY <1>2 DEF Halved
<1> HIDE DEF half
<1>5. CASE f.data = <<>> /\ g = f
  BY <1>1, <1>5
<1>6. CASE g = [f EXCEPT !.data = half]
  <2>1. g \in File /\ g.data = half /\ g.faults = f.faults
    BY <1>3, <1>6 DEF File
  <2>2. 2 * Len(half) <= n + 1
    BY <1>1, <1>q, <1>3
  <2>3. QED
    BY <2>1, <2>2
<1>7. ASSUME CanFail(f), NEW d \in {f.data} \cup {SubSeq(half, 1, k) : k \in 0 .. Len(half) - 1},
             g = Faulted([f EXCEPT !.data = d])
      PROVE  g \in File /\ g.faults # 0
  <2>1. d \in Seq(Cell)
    <3>1. ASSUME NEW k \in 0 .. Len(half) - 1 PROVE SubSeq(half, 1, k) \in Seq(Cell)
      <4>1. k \in 0 .. Len(half)
        BY <1>1, <1>3
      <4>2. QED
        BY <1>3, <4>1, PartFacts
    <3>2. QED
      BY <1>1, <3>1
  <2>2. [f EXCEPT !.data = d] \in File /\ CanFail([f EXCEPT !.data = d])
    BY <1>7, <2>1 DEF File, CanFail
  <2>3. QED
    BY <1>7, <2>2, FaultedFacts
<1>8. QED
  BY <1>4, <1>5, <1>6, <1>7

(* The write: the whole line and its length, or a failure. *)
LEMMA WrittenFacts ==
  ASSUME NEW f \in File, f.open, NEW line \in Seq(Cell), NEW g \in Written(f, line)
  PROVE  /\ FileOK(g)
         /\ g.faults = 0 => /\ f.faults = 0
                            /\ Len(g.data) = Len(f.data) + Len(line)
                            /\ g.size = f.size + Len(line)
<1>1. f.data \in Seq(Cell) /\ f.size \in Nat /\ Len(line) \in Nat
  BY DEF File
<1>2. ASSUME NEW s \in Seq(Cell)
      PROVE  f.data \o s \in Seq(Cell) /\ Len(f.data \o s) = Len(f.data) + Len(s)
  BY <1>1, ConcatProperties
<1>3. CASE g = [f EXCEPT !.data = @ \o line, !.size = @ + Len(line)]
  <2>1. f.data \o line \in Seq(Cell) /\ f.size + Len(line) \in Nat
    BY <1>1, <1>2
  <2>2. /\ g \in File /\ g.open /\ g.faults = f.faults
        /\ g.data = f.data \o line /\ g.size = f.size + Len(line)
    BY <1>3, <2>1 DEF File
  <2>3. QED
    BY <1>2, <2>2 DEF FileOK
<1>4. ASSUME CanFail(f), NEW k \in 0 .. Len(line) - 1,
             g = Faulted([f EXCEPT !.data = @ \o SubSeq(line, 1, k)])
      PROVE  FileOK(g) /\ g.faults # 0
  <2>1. k \in 0 .. Len(line)
    BY <1>1
  <2>2. f.data \o SubSeq(line, 1, k) \in Seq(Cell)
    BY <1>2, <2>1, PartFacts
  <2> DEFINE w == [f EXCEPT !.data = f.data \o SubSeq(line, 1, k)]
  <2>3. w \in File /\ CanFail(w) /\ w.open
    BY <1>4, <2>2 DEF File, CanFail
  <2>4. g = Faulted(w)
    BY <1>4
  <2>5. QED
    BY <2>3, <2>4, FaultedFacts DEF FileOK
<1>5. QED
  BY <1>3, <1>4 DEF Written

(* Record: the file stays in order.  It is tested against the limit before the
   write and without the newline, hence the one cell; a half of it and a line
   are within the limit. *)
LEMMA RecordedFacts ==
  ASSUME NEW f, FileOK(f), SizeOK(f), NEW n \in 1 .. MaxActions, NEW g \in Recorded(f, Line(n))
  PROVE  FileOK(g) /\ SizeOK(g)
<1> DEFINE line == Line(n)
<1>1. line \in Seq(Cell) /\ Len(line) = LineLen
  BY LineFacts
<1>2. /\ LineLen \in Nat /\ LineLen >= 2
      /\ FileMax \in Nat /\ FileMax >= 2 * LineLen
  BY AuditAssumption DEF AuditAssumption
<1>3. f \in File /\ f.size \in Nat
  BY DEF FileOK, File
<1> HIDE DEF line
<1>4. CASE ~f.open /\ g = f
  BY <1>4
<1>5. ASSUME f.open, ~(f.size + Len(line) - 1 > FileMax), g \in Written(f, line)
      PROVE  FileOK(g) /\ SizeOK(g)
  <2>1. /\ FileOK(g)
        /\ g.faults = 0 => /\ f.faults = 0
                           /\ Len(g.data) = Len(f.data) + LineLen
                           /\ g.size = f.size + LineLen
    BY <1>1, <1>3, <1>5, WrittenFacts
  <2>2. QED
    BY <1>1, <1>2, <1>3, <1>5, <2>1 DEF SizeOK
<1>6. ASSUME NEW r \in rotateLocked(f) PROVE
        /\ FileOK(r)
        /\ r.faults = 0 => r.size = Len(r.data) /\ 2 * r.size <= FileMax + 2
  <2>1. PICK h \in Halved(f) : r \in Opened([h EXCEPT !.open = FALSE, !.size = 0])
    BY DEF rotateLocked
  <2> DEFINE c == [h EXCEPT !.open = FALSE, !.size = 0]
  <2>2. /\ h \in File
        /\ h.faults = 0 => f.faults = 0 /\ 2 * Len(h.data) <= Len(f.data) + 1
    BY <1>3, HalvedFacts
  <2>3. /\ c \in File /\ ~c.open /\ c.size = 0
        /\ c.data = h.data /\ c.faults = h.faults
    BY <2>2 DEF File
  <2>4. /\ FileOK(r) /\ r.data = c.data
        /\ r.faults = 0 => c.faults = 0 /\ r.size = Len(r.data)
    BY <2>1, <2>3, OpenedFacts
  <2>5. ASSUME r.faults = 0 PROVE 2 * r.size <= FileMax + 2
    <3>1. /\ r.size = Len(h.data) /\ 2 * Len(h.data) <= Len(f.data) + 1
          /\ f.size = Len(f.data) /\ f.size <= FileMax + 1
      BY <2>2, <2>3, <2>4, <2>5 DEF SizeOK
    <3>2. r.size \in Nat
      BY <2>4 DEF FileOK, File
    <3>3. QED
      BY <1>2, <1>3, <3>1, <3>2
  <2>6. QED
    BY <2>4, <2>5
<1>7. ASSUME NEW r \in rotateLocked(f), r.open, g \in Written(r, line)
      PROVE  FileOK(g) /\ SizeOK(g)
  <2>1. /\ r \in File /\ r.size \in Nat
        /\ r.faults = 0 => r.size = Len(r.data) /\ 2 * r.size <= FileMax + 2
    BY <1>6 DEF FileOK, File
  <2>2. /\ FileOK(g)
        /\ g.faults = 0 => /\ r.faults = 0
                           /\ Len(g.data) = Len(r.data) + LineLen
                           /\ g.size = r.size + LineLen
    BY <1>1, <1>7, <2>1, WrittenFacts
  <2>3. QED
    BY <1>2, <2>1, <2>2 DEF SizeOK
<1>8. ASSUME NEW r \in rotateLocked(f), ~r.open, g = r
      PROVE  FileOK(g) /\ SizeOK(g)
  <2>1. /\ FileOK(r) /\ r.size \in Nat
        /\ r.faults = 0 => r.size = Len(r.data) /\ 2 * r.size <= FileMax + 2
    BY <1>6 DEF FileOK, File
  <2>2. QED
    BY <1>2, <1>8, <2>1 DEF SizeOK
<1>9. QED
  BY <1>4, <1>5, <1>7, <1>8 DEF Recorded, line
-----------------------------------------------------------------------------
(* A recorded action stays recorded. *)
LEMMA RangeAppend ==
  ASSUME NEW T, NEW s \in Seq(T), NEW e \in T
  PROVE  /\ Append(s, e) \in Seq(T)
         /\ Range(s) \subseteq Range(Append(s, e)) /\ e \in Range(Append(s, e))
<1>1. /\ Append(s, e) \in Seq(T)
      /\ Len(Append(s, e)) = Len(s) + 1
      /\ \A i \in 1 .. Len(s) : Append(s, e)[i] = s[i]
      /\ Append(s, e)[Len(s) + 1] = e
  BY AppendProperties
<1>2. /\ DOMAIN s = 1 .. Len(s) /\ DOMAIN Append(s, e) = 1 .. Len(s) + 1
      /\ Len(s) \in Nat
  BY <1>1
<1>3. QED
  BY <1>1, <1>2 DEF Range

(* A change of the accounts marks the updates still to be recorded, and no more. *)
LEMMA MissingFacts ==
  ASSUME IInv, NEW g \in Handlers
  PROVE  /\ Missing(g) \in Action \cup {None}
         /\ act[g] = None => Missing(g) = None
         /\ act[g] # None => /\ Missing(g).n = act[g].n /\ Missing(g).at = act[g].at
                             /\ Missing(g).kind = act[g].kind
                             /\ act[g].missed => Missing(g).missed
                             /\ act[g].at = "record" /\ act[g].kind = "update" /\ ~found'
                                  => Missing(g).missed
<1>1. act[g] \in Action \cup {None}
  BY DEF IInv, TypeOK
<1>2. CASE act[g] # None /\ act[g].at = "record" /\ act[g].kind = "update" /\ ~found'
  <2>1. Missing(g) = [act[g] EXCEPT !.missed = TRUE]
    BY <1>2 DEF Missing
  <2>2. QED
    BY <1>1, <1>2, <2>1 DEF Action
<1>3. CASE ~(act[g] # None /\ act[g].at = "record" /\ act[g].kind = "update" /\ ~found')
  <2>1. Missing(g) = act[g]
    BY <1>3 DEF Missing
  <2>2. QED
    BY <1>1, <1>3, <2>1
<1>4. QED
  BY <1>2, <1>3

(* A change that is saved has its action to record; nobody else's is lost. *)
LEMMA CommitStep ==
  ASSUME IInv, NEW h \in Handlers, NEW kind \in Kinds, Commit(h, kind)
  PROVE  IInv'
<1> DEFINE new == [n |-> next, kind |-> kind, at |-> "record", missed |-> FALSE]
<1>1. next \in 1 .. MaxActions /\ next + 1 \in 1 .. MaxActions + 1
  BY AuditAssumption DEF IInv, TypeOK, Commit, AuditAssumption
<1>2. new \in Action
  BY <1>1 DEF Action
<1>3. /\ exists' \in BOOLEAN /\ found' = exists' /\ saved' = exists'
      /\ kind = "update" => found'
  BY DEF Kinds, Commit
<1>4. act' = [g \in Handlers |-> IF g = h THEN new ELSE Missing(g)] /\ order' = order
  BY DEF Commit
<1>5. act'[h] = new /\ \A g \in Handlers \ {h} : act'[g] = Missing(g)
  BY <1>4
<1>6. TypeOK'
  <2>1. \A g \in Handlers : act'[g] \in Action \cup {None}
    BY <1>2, <1>5, MissingFacts
  <2>2. act' \in [Handlers -> Action \cup {None}]
    BY <1>4, <2>1
  <2>3. next' = next + 1 /\ UNCHANGED <<file, order>>
    BY DEF Commit
  <2>4. QED
    BY <1>1, <1>3, <2>2, <2>3 DEF IInv, TypeOK
<1>7. SizeOK(file)'
  BY DEF IInv, SizeOK, Commit
<1>8. MissedSeen'
  <2> SUFFICES ASSUME NEW g \in Handlers, act'[g] # None, act'[g].at = "record",
                      act'[g].kind = "update", ~found'
               PROVE  act'[g].missed
    BY DEF MissedSeen
  <2>1. g # h
    BY <1>3, <1>5
  <2>2. QED
    BY <1>5, <2>1, MissingFacts
<1>9. AckedRecorded'
  <2> SUFFICES ASSUME NEW g \in Handlers, act'[g] # None, act'[g].at = "reply"
               PROVE  act'[g].n \in Range(order') \/ (act'[g].kind = "update" /\ act'[g].missed)
    BY DEF AckedRecorded
  <2>1. g # h
    BY <1>5
  <2>2. act[g].n \in Range(order) \/ (act[g].kind = "update" /\ act[g].missed)
    BY <1>5, <2>1, MissingFacts DEF IInv, AckedRecorded
  <2>3. QED
    BY <1>4, <1>5, <2>1, <2>2, MissingFacts
<1>10. QED
  BY <1>6, <1>7, <1>8, <1>9 DEF IInv

(* One that cannot be saved has none. *)
LEMMA CommitUnsavedStep ==
  ASSUME IInv, CommitUnsaved
  PROVE  IInv'
<1>1. exists' \in BOOLEAN /\ found' \in BOOLEAN /\ (found' => exists')
  BY DEF IInv, TypeOK, CommitUnsaved
<1>2. act' = [g \in Handlers |-> Missing(g)] /\ UNCHANGED <<file, saved, next, order>>
  BY DEF CommitUnsaved
<1>3. \A g \in Handlers : act'[g] = Missing(g)
  BY <1>2
<1>4. TypeOK' /\ SizeOK(file)'
  <2>1. act' \in [Handlers -> Action \cup {None}]
    BY <1>2, MissingFacts
  <2>2. QED
    BY <1>1, <1>2, <2>1 DEF IInv, TypeOK, SizeOK
<1>5. MissedSeen'
  BY <1>3, MissingFacts DEF MissedSeen
<1>6. AckedRecorded'
  <2> SUFFICES ASSUME NEW g \in Handlers, act'[g] # None, act'[g].at = "reply"
               PROVE  act'[g].n \in Range(order') \/ (act'[g].kind = "update" /\ act'[g].missed)
    BY DEF AckedRecorded
  <2>1. act[g].n \in Range(order) \/ (act[g].kind = "update" /\ act[g].missed)
    BY <1>3, MissingFacts DEF IInv, AckedRecorded
  <2>2. QED
    BY <1>2, <1>3, <2>1, MissingFacts
<1>7. QED
  BY <1>4, <1>5, <1>6 DEF IInv

(* Record is called, or skipped for an update that the history has marked. *)
LEMMA RecordStep ==
  ASSUME IInv, NEW h \in Handlers, RecordAction(h)
  PROVE  IInv'
<1>1. /\ act[h] \in Action /\ act[h] # None /\ act[h].at = "record"
      /\ act[h].n \in 1 .. MaxActions
  BY DEF IInv, TypeOK, RecordAction, Action
<1>2. /\ act'[h] = [act[h] EXCEPT !.at = "reply"]
      /\ \A g \in Handlers \ {h} : act'[g] = act[g]
      /\ act' \in [Handlers -> Action \cup {None}]
  <2>1. act' = [act EXCEPT ![h] = [act[h] EXCEPT !.at = "reply"]]
    BY DEF RecordAction
  <2>2. [act[h] EXCEPT !.at = "reply"] \in Action
    BY <1>1 DEF Action
  <2>3. QED
    BY <2>1, <2>2 DEF IInv, TypeOK
<1>3. /\ act'[h].n = act[h].n /\ act'[h].kind = act[h].kind /\ act'[h].missed = act[h].missed
      /\ act'[h].at = "reply"
  BY <1>1, <1>2 DEF Action
<1>4. /\ FileOK(file') /\ SizeOK(file')
      /\ order' \in Seq(1 .. MaxActions) /\ Range(order) \subseteq Range(order')
      /\ act[h].n \in Range(order') \/ Skips(h)
  <2>1. FileOK(file) /\ SizeOK(file) /\ order \in Seq(1 .. MaxActions)
    BY DEF IInv, TypeOK, FileOK
  <2>2. CASE Skips(h)
    <3>1. UNCHANGED <<file, order>>
      BY <2>2 DEF RecordAction
    <3>2. QED
      BY <2>1, <2>2, <3>1
  <2>3. CASE ~Skips(h)
    <3>1. file' \in Recorded(file, Line(act[h].n)) /\ order' = Append(order, act[h].n)
      BY <2>3 DEF RecordAction
    <3>2. FileOK(file') /\ SizeOK(file')
      BY <1>1, <2>1, <3>1, RecordedFacts
    <3>3. QED
      BY <1>1, <2>1, <3>1, <3>2, RangeAppend
  <2>4. QED
    BY <2>2, <2>3
<1>5. UNCHANGED <<exists, found, saved, next>>
  BY DEF RecordAction, accounts
<1>6. TypeOK' /\ SizeOK(file)'
  BY <1>2, <1>4, <1>5 DEF IInv, TypeOK, FileOK, SizeOK
<1>7. MissedSeen'
  BY <1>2, <1>3, <1>5 DEF IInv, MissedSeen
<1>8. AckedRecorded'
  <2> SUFFICES ASSUME NEW g \in Handlers, act'[g] # None, act'[g].at = "reply"
               PROVE  act'[g].n \in Range(order') \/ (act'[g].kind = "update" /\ act'[g].missed)
    BY DEF AckedRecorded
  <2>1. CASE g # h
    <3>1. act'[g] = act[g]
      BY <1>2, <2>1
    <3>2. QED
      BY <1>4, <3>1 DEF IInv, AckedRecorded
  <2>2. CASE g = h
    <3>1. Skips(h) => act[h].kind = "update" /\ act[h].missed
      BY <1>1 DEF IInv, MissedSeen, Skips
    <3>2. QED
      BY <1>3, <1>4, <2>2, <3>1
  <2>3. QED
    BY <2>1, <2>2
<1>9. QED
  BY <1>6, <1>7, <1>8 DEF IInv

(* A reply only forgets the action. *)
LEMMA ReplyStep ==
  ASSUME IInv, NEW h \in Handlers, Reply(h)
  PROVE  IInv'
<1>1. /\ act' \in [Handlers -> Action \cup {None}]
      /\ \A g \in Handlers : act'[g] = None \/ act'[g] = act[g]
  BY DEF IInv, TypeOK, Reply
<1>2. UNCHANGED <<file, exists, found, saved, next, order>>
  BY DEF Reply, accounts
<1>3. TypeOK' /\ SizeOK(file)'
  BY <1>1, <1>2 DEF IInv, TypeOK, SizeOK
<1>4. MissedSeen' /\ AckedRecorded'
  BY <1>1, <1>2 DEF IInv, MissedSeen, AckedRecorded
<1>5. QED
  BY <1>3, <1>4 DEF IInv

(* A restart forgets every action and measures the file anew. *)
LEMMA RestartStep ==
  ASSUME IInv, Restart
  PROVE  IInv'
<1> DEFINE c == [file EXCEPT !.open = FALSE, !.size = 0]
<1>1. /\ c \in File /\ ~c.open /\ c.size = 0
      /\ c.data = file.data /\ c.faults = file.faults
  BY DEF IInv, TypeOK, File
<1>2. /\ FileOK(file') /\ file'.data = file.data
      /\ file'.faults = 0 => file.faults = 0 /\ file'.size = Len(file'.data)
  BY <1>1, OpenedFacts DEF Restart
<1>3. SizeOK(file')
  BY <1>2 DEF IInv, SizeOK
<1>4. act' \in [Handlers -> Action \cup {None}] /\ \A g \in Handlers : act'[g] = None
  BY DEF Restart
<1>5. exists' = saved /\ found' = saved /\ UNCHANGED <<saved, next, order>>
  BY DEF Restart
<1>6. TypeOK' /\ SizeOK(file)'
  BY <1>2, <1>3, <1>4, <1>5 DEF IInv, TypeOK, FileOK, SizeOK
<1>7. MissedSeen' /\ AckedRecorded'
  BY <1>4 DEF MissedSeen, AckedRecorded
<1>8. QED
  BY <1>6, <1>7 DEF IInv
-----------------------------------------------------------------------------
(* The log starts empty, with a handle and without handlers at work. *)
LEMMA AuditStarts ==
  ASSUME Init
  PROVE  IInv
<1>1. MaxActions \in Nat /\ MaxFaults \in Nat /\ FileMax \in Nat
  BY AuditAssumption DEF AuditAssumption
<1>2. FileOK(file) /\ SizeOK(file)
  BY <1>1 DEF Init, FileOK, SizeOK, File
<1>3. act \in [Handlers -> Action \cup {None}] /\ \A h \in Handlers : act[h] = None
  BY DEF Init
<1>4. TypeOK
  BY <1>1, <1>2, <1>3 DEF Init, TypeOK, FileOK
<1>5. MissedSeen /\ AckedRecorded
  BY <1>3 DEF MissedSeen, AckedRecorded
<1>6. QED
  BY <1>2, <1>4, <1>5 DEF IInv

(* The inductive invariant of the handlers and of the file they write to. *)
THEOREM Inductive == Spec => []IInv
<1>1. Init => IInv
  BY AuditStarts
<1>2. IInv /\ [Next]_vars => IInv'
  <2> SUFFICES ASSUME IInv, [Next]_vars PROVE IInv'
    OBVIOUS
  <2>1. CASE UNCHANGED vars
    BY <2>1 DEF IInv, TypeOK, SizeOK, MissedSeen, AckedRecorded, vars
  <2>2. CASE Next
    BY <2>2, CommitStep, CommitUnsavedStep, RecordStep, ReplyStep, RestartStep DEF Next
  <2>3. QED
    BY <2>1, <2>2
<1>3. QED
  BY <1>1, <1>2, PTL DEF Spec

(* For any number of handlers whose commits and records interleave, with restarts,
   failed saves and failed writes, no action is answered before it was handed to
   Record, but for an update whose account was removed, or whose account the index
   lost to another's failed save, before auditUserUpdate looked it up. *)
THEOREM AcknowledgedIsRecorded == Spec => []AckedRecorded
<1>1. IInv => AckedRecorded
  BY DEF IInv
<1>2. QED
  BY Inductive, <1>1, PTL

(* a.size is the size of audit.log through appends, rotations and restarts, and
   the file never exceeds auditMaxBytes by more than a newline, for any limit of
   at least two lines, as long as no file operation fails. *)
THEOREM AuditStaysBounded == Spec => []AuditBounded
<1>1. IInv => AuditBounded
  BY DEF IInv, SizeOK, AuditBounded
<1>2. QED
  BY Inductive, <1>1, PTL

(* strings.Split, piece by piece.  A line of s may begin at q. *)
Begins(s, q) == q = 1 \/ s[q - 1].k = LineLen

(* t is the piece of s from q up to the next newline or the end. *)
IsPiece(t, s, q) ==
  /\ q + Len(t) <= Len(s) + 1
  /\ \A i \in 1 .. Len(t) : t[i] = s[q + i - 1] /\ s[q + i - 1].k # LineLen
  /\ q + Len(t) <= Len(s) => s[q + Len(t)].k = LineLen

(* The pieces t begin at the places a, all those up to n where a line begins. *)
PiecesAt(t, s, n, a) ==
  /\ a \in [1 .. Len(t) -> 1 .. n]
  /\ \A i, j \in 1 .. Len(t) : i < j => a[i] < a[j]
  /\ \A i \in 1 .. Len(t) : Begins(s, a[i]) /\ IsPiece(t[i], s, a[i])
  /\ \A q \in 1 .. n : Begins(s, q) => \E i \in 1 .. Len(t) : a[i] = q

HasPieces(t, s, n) == \E a : PiecesAt(t, s, n, a)

(* The state of Split: pieces and the piece it is in. *)
Cutting == [cur : Seq(Cell), out : Seq(Seq(Cell))]

SplitFrom(c) ==
  CHOOSE g : g = [i \in 0 .. Len(c) |->
                    IF i = 0 THEN [cur |-> <<>>, out |-> <<>>] ELSE Cut(g[i - 1], c[i])]

(* The constants and a cell, as facts. *)
LEMMA AuditConstants ==
  /\ LineLen \in Nat /\ LineLen >= 2 /\ FileMax \in Nat /\ FileMax >= 2 * LineLen
  /\ MaxRead \in Nat /\ MaxRead # 0 /\ MaxActions \in Nat /\ MaxFaults \in Nat
  BY AuditAssumption DEF AuditAssumption

(* A cell of the audit log. *)
LEMMA AuditCellFacts ==
  ASSUME NEW c \in Cell
  PROVE  /\ c.n \in 1 .. MaxActions /\ c.k \in 1 .. LineLen /\ c.n \in Nat /\ c.k \in Nat
         /\ c = [n |-> c.n, k |-> c.k]
<1>1. MaxActions \in Nat /\ LineLen \in Nat
  BY AuditConstants
<1>2. c.n \in 1 .. MaxActions /\ c.k \in 1 .. LineLen /\ c = [n |-> c.n, k |-> c.k]
  BY DEF Cell
<1>3. QED
  BY <1>1, <1>2

(* One cell. *)
LEMMA CutFacts ==
  ASSUME NEW a \in Cutting, NEW c \in Cell
  PROVE  /\ Cut(a, c) \in Cutting
         /\ \/ c.k # LineLen /\ Cut(a, c).cur = Append(a.cur, c) /\ Cut(a, c).out = a.out
            \/ c.k = LineLen /\ Cut(a, c).cur = <<>> /\ Cut(a, c).out = Append(a.out, a.cur)
<1>1. c.k \in 1 .. LineLen /\ LineLen \in Nat
  BY AuditCellFacts, AuditConstants
<1>2. a.cur \in Seq(Cell) /\ a.out \in Seq(Seq(Cell))
  BY DEF Cutting
<1>3. CASE c.k < LineLen
  <2> DEFINE x == Append(a.cur, c)
  <2>1. x \in Seq(Cell)
    BY <1>2, AppendProperties
  <2>2. Cut(a, c) = [a EXCEPT !.cur = x]
    BY <1>3 DEF Cut
  <2> HIDE DEF x
  <2>3. [a EXCEPT !.cur = x] \in Cutting /\ [a EXCEPT !.cur = x].cur = x /\ [a EXCEPT !.cur = x].out = a.out
    BY <2>1 DEF Cutting
  <2>4. c.k # LineLen
    BY <1>1, <1>3
  <2>5. QED
    BY <2>2, <2>3, <2>4 DEF x
<1>4. CASE ~(c.k < LineLen)
  <2> DEFINE y == Append(a.out, a.cur)
  <2>1. y \in Seq(Seq(Cell)) /\ <<>> \in Seq(Cell)
    BY <1>2, AppendProperties
  <2>2. Cut(a, c) = [cur |-> <<>>, out |-> y]
    BY <1>4 DEF Cut
  <2> HIDE DEF y
  <2>3. [cur |-> <<>>, out |-> y] \in Cutting
    BY <2>1 DEF Cutting
  <2>4. c.k = LineLen
    BY <1>1, <1>4
  <2>5. QED
    BY <2>2, <2>3, <2>4 DEF y
<1>5. QED
  BY <1>3, <1>4

(* The equation of Split's recursive function. *)
LEMMA SplitWalk ==
  ASSUME NEW s \in Seq(Cell)
  PROVE  /\ SplitFrom(s)[0] = [cur |-> <<>>, out |-> <<>>]
         /\ \A i \in 1 .. Len(s) : SplitFrom(s)[i] = Cut(SplitFrom(s)[i - 1], s[i])
         /\ \A i \in 0 .. Len(s) : SplitFrom(s)[i] \in Cutting
         /\ Split(s) = Append(SplitFrom(s)[Len(s)].out, SplitFrom(s)[Len(s)].cur)
<1> DEFINE N == Len(s)
           b == [cur |-> <<>>, out |-> <<>>]
           F == [p \in (1 .. N) \X Cutting |-> Cut(p[2], s[p[1]])]
<1>1. N \in Nat /\ \A i \in 1 .. N : s[i] \in Cell
  OBVIOUS
<1>2. ASSUME NEW i \in 1 .. N, NEW v \in Cutting
      PROVE  F[<<i, v>>] = Cut(v, s[i]) /\ F[<<i, v>>] \in Cutting
  <2>1. F[<<i, v>>] = Cut(v, s[i])
    OBVIOUS
  <2>2. Cut(v, s[i]) \in Cutting
    BY <1>1, CutFacts
  <2>3. QED
    BY <2>1, <2>2
<1>3. b \in Cutting
  BY DEF Cutting
<1>4. PICK g \in [0 .. N -> Cutting] : g[0] = b /\ \A i \in 1 .. N : g[i] = F[<<i, g[i - 1]>>]
  <2>1. StepsWithin(N, Cutting, F)
    BY <1>2 DEF StepsWithin
  <2> HIDE DEF F, N, b
  <2>2. HasWalk(N, Cutting, b, F)
    BY <1>1, <1>3, <2>1, RecursiveFunction
  <2>3. QED
    BY <2>2 DEF HasWalk
<1>5. g = [i \in 0 .. Len(s) |-> IF i = 0 THEN [cur |-> <<>>, out |-> <<>>]
                                ELSE Cut(g[i - 1], s[i])]
  <2>1. ASSUME NEW i \in 0 .. N
        PROVE  g[i] = IF i = 0 THEN b ELSE Cut(g[i - 1], s[i])
    <3> HIDE DEF F, b
    <3>1. CASE i = 0
      BY <1>4, <3>1
    <3>2. CASE i # 0
      <4>1. i \in 1 .. N /\ i - 1 \in 0 .. N
        BY <1>1, <3>2
      <4>2. g[i] = F[<<i, g[i - 1]>>] /\ g[i - 1] \in Cutting
        BY <1>4, <4>1
      <4>3. QED
        BY <1>2, <3>2, <4>1, <4>2
    <3>3. QED
      BY <3>1, <3>2
  <2> HIDE DEF F
  <2>2. QED
    BY <1>4, <2>1
<1> DEFINE k == SplitFrom(s)
<1>6. k = [i \in 0 .. Len(s) |-> IF i = 0 THEN [cur |-> <<>>, out |-> <<>>]
                                ELSE Cut(k[i - 1], s[i])]
  <2> HIDE DEF F
  <2>1. QED
    BY <1>5, Zenon DEF SplitFrom
<1>7. Split(s) = Append(k[Len(s)].out, k[Len(s)].cur)
  BY DEF Split, SplitFrom
<1> HIDE DEF k, F
<1>8. k[0] = b /\ \A i \in 1 .. N : k[i] = Cut(k[i - 1], s[i])
  <2>1. 0 \in 0 .. Len(s) /\ \A i \in 1 .. Len(s) : i \in 0 .. Len(s) /\ i # 0
    BY <1>1
  <2>2. QED
    BY <1>6, <2>1, Zenon
<1>9. \A i \in 0 .. N : k[i] \in Cutting
  <2> DEFINE T == {i \in 0 .. N : k[i] \in Cutting}
  <2>1. 0 \in T
    BY <1>1, <1>3, <1>8
  <2>2. ASSUME NEW i \in 0 .. N, i \in T, i < N PROVE i + 1 \in T
    <3>1. i + 1 \in 1 .. N /\ i + 1 \in 0 .. N /\ (i + 1) - 1 = i
      BY <1>1, <2>2
    <3>2. k[i + 1] = Cut(k[i], s[i + 1]) /\ k[i] \in Cutting /\ s[i + 1] \in Cell
      BY <1>1, <1>8, <2>2, <3>1
    <3>3. k[i + 1] \in Cutting
      BY <3>2, CutFacts
    <3>4. QED
      BY <3>1, <3>3
  <2>3. 0 .. N \subseteq T
    <3> HIDE DEF T
    <3>1. QED
      BY <1>1, <2>1, <2>2, BoundedInduction
  <2>4. QED
    BY <2>3
<1>10. QED
  BY <1>7, <1>8, <1>9 DEF k

(* One piece more. *)
LEMMA PieceStep ==
  ASSUME NEW s \in Seq(Cell), NEW out \in Seq(Seq(Cell)), NEW cur \in Seq(Cell),
         NEW q \in Nat \ {0}, HasPieces(out, s, q - 1), Begins(s, q), IsPiece(cur, s, q),
         NEW u, u = Append(out, cur)
  PROVE  u \in Seq(Seq(Cell)) /\ HasPieces(u, s, q + Len(cur))
<1> DEFINE m == Len(out)
           n == q + Len(cur)
<1>1. Len(s) \in Nat /\ m \in Nat /\ Len(cur) \in Nat /\ q \in Nat /\ q >= 1 /\ n \in Nat /\ n >= q
  OBVIOUS
<1>2. /\ u \in Seq(Seq(Cell)) /\ Len(u) = m + 1
      /\ \A i \in 1 .. m : u[i] = out[i]
      /\ u[m + 1] = cur
  BY AppendProperties
<1>3. PICK a : PiecesAt(out, s, q - 1, a)
  BY DEF HasPieces
<1> DEFINE b == [i \in 1 .. m + 1 |-> IF i = m + 1 THEN q ELSE a[i]]
<1>4. a \in [1 .. m -> 1 .. q - 1]
  BY <1>3 DEF PiecesAt
<1>5. /\ \A i \in 1 .. m : b[i] = a[i] /\ a[i] \in 1 .. q - 1
      /\ b[m + 1] = q /\ b \in [1 .. m + 1 -> 1 .. n]
  <2>1. \A i \in 1 .. m : a[i] \in 1 .. q - 1 /\ i # m + 1 /\ i \in 1 .. m + 1
    <3>1. \A i \in 1 .. m : i # m + 1 /\ i \in 1 .. m + 1
      BY <1>1
    <3>2. QED
      BY <1>4, <3>1
  <2>2. m + 1 \in 1 .. m + 1 /\ q \in 1 .. n /\ \A x \in 1 .. q - 1 : x \in 1 .. n
    BY <1>1
  <2>3. \A i \in 1 .. m + 1 : i \in 1 .. m \/ i = m + 1
    BY <1>1
  <2> HIDE DEF m, n
  <2>4. QED
    BY <2>1, <2>2, <2>3
<1> HIDE DEF b
<1>6. \A i \in 1 .. m + 1 : i \in 1 .. m \/ i = m + 1
  BY <1>1
<1>7. ASSUME NEW i \in 1 .. m + 1, NEW j \in 1 .. m + 1, i < j PROVE b[i] < b[j]
  <2>1. i \in 1 .. m
    BY <1>1, <1>7
  <2>2. CASE j = m + 1
    <3>1. b[i] \in 1 .. q - 1 /\ b[j] = q
      BY <1>5, <2>1, <2>2
    <3>2. QED
      BY <1>1, <3>1
  <2>3. CASE j \in 1 .. m
    BY <1>3, <1>5, <1>7, <2>1, <2>3 DEF PiecesAt
  <2>4. QED
    BY <1>6, <2>2, <2>3
<1>8. \A i \in 1 .. m + 1 : Begins(s, b[i]) /\ IsPiece(u[i], s, b[i])
  BY <1>2, <1>3, <1>5, <1>6 DEF PiecesAt
<1>9. ASSUME NEW x \in 1 .. n, Begins(s, x) PROVE \E i \in 1 .. m + 1 : b[i] = x
  <2>1. CASE x \in 1 .. q - 1
    <3>1. PICK i \in 1 .. m : a[i] = x
      BY <1>3, <1>9, <2>1 DEF PiecesAt
    <3>2. i \in 1 .. m + 1
      BY <1>1
    <3>3. QED
      BY <1>5, <3>1, <3>2
  <2>2. CASE x = q
    BY <1>1, <1>5, <2>2
  <2>3. CASE x > q
    <3> DEFINE j == x - q
    <3>1. j \in 1 .. Len(cur) /\ q + j - 1 = x - 1 /\ x # 1
      BY <1>1, <2>3
    <3>2. s[x - 1].k # LineLen
      BY <3>1 DEF IsPiece
    <3>3. QED
      BY <1>9, <3>1, <3>2 DEF Begins
  <2>4. QED
    BY <1>1, <2>1, <2>2, <2>3
<1>10. PiecesAt(u, s, n, b)
  BY <1>2, <1>5, <1>7, <1>8, <1>9 DEF PiecesAt
<1>11. QED
  BY <1>2, <1>10 DEF HasPieces

(* Where Split stands after i cells: in the piece that begins at q. *)
CutAt(a, s, i, q) ==
  /\ q + Len(a.cur) = i + 1 /\ Begins(s, q) /\ HasPieces(a.out, s, q - 1)
  /\ \A j \in 1 .. Len(a.cur) : a.cur[j] = s[q + j - 1] /\ s[q + j - 1].k # LineLen

(* One cell more. *)
LEMMA CutStep ==
  ASSUME NEW s \in Seq(Cell), NEW i \in 0 .. Len(s), i < Len(s), NEW a \in Cutting,
         NEW q \in Nat \ {0}, CutAt(a, s, i, q), NEW b, b = Cut(a, s[i + 1])
  PROVE  \E r \in Nat \ {0} : CutAt(b, s, i + 1, r)
<1> DEFINE c == s[i + 1]
<1>1. /\ Len(s) \in Nat /\ i \in Nat /\ i + 1 \in 1 .. Len(s) /\ c \in Cell
  OBVIOUS
<1>2. PICK cur \in Seq(Cell), out \in Seq(Seq(Cell)) : cur = a.cur /\ out = a.out
  BY DEF Cutting
<1>3. /\ q + Len(cur) = i + 1 /\ Begins(s, q) /\ HasPieces(out, s, q - 1)
      /\ \A j \in 1 .. Len(cur) : cur[j] = s[q + j - 1] /\ s[q + j - 1].k # LineLen
  BY <1>2 DEF CutAt
<1>4. \/ c.k # LineLen /\ b.cur = Append(cur, c) /\ b.out = out
      \/ c.k = LineLen /\ b.cur = <<>> /\ b.out = Append(out, cur)
  BY <1>1, <1>2, CutFacts
<1>5. Len(cur) \in Nat /\ q \in Nat
  OBVIOUS
<1>6. CASE c.k # LineLen /\ b.cur = Append(cur, c) /\ b.out = out
  <2> DEFINE x == Append(cur, c)
  <2>1. /\ Len(x) = Len(cur) + 1 /\ \A j \in 1 .. Len(cur) : x[j] = cur[j]
        /\ x[Len(cur) + 1] = c
    BY <1>1, AppendProperties
  <2> HIDE DEF x
  <2>2. \A j \in 1 .. Len(x) : j \in 1 .. Len(cur) \/ (j = Len(cur) + 1 /\ q + j - 1 = i + 1)
    BY <1>1, <1>3, <1>5, <2>1
  <2>3. q + Len(x) = (i + 1) + 1
    <3>1. i \in Nat /\ Len(cur) \in Nat /\ q \in Nat
      BY <1>1, <1>5
    <3>2. \A y \in Nat : y = Len(cur) + 1 /\ q + Len(cur) = i + 1 => q + y = (i + 1) + 1
      BY ONLY <3>1
    <3>3. Len(x) \in Nat /\ Len(x) = Len(cur) + 1 /\ q + Len(cur) = i + 1
      BY <1>3, <1>5, <2>1
    <3>4. QED
      BY <3>2, <3>3
  <2>4. \A j \in 1 .. Len(x) : x[j] = s[q + j - 1] /\ s[q + j - 1].k # LineLen
    BY <1>3, <1>6, <2>1, <2>2
  <2>5. b.cur = x /\ b.out = out
    BY <1>6 DEF x
  <2>6. CutAt(b, s, i + 1, q)
    BY <1>3, <2>3, <2>4, <2>5 DEF CutAt
  <2>7. QED
    BY <2>6
<1>7. CASE c.k = LineLen /\ b.cur = <<>> /\ b.out = Append(out, cur)
  <2>1. IsPiece(cur, s, q)
    <3>1. q + Len(cur) <= Len(s) + 1
      BY <1>1, <1>3
    <3>2. QED
      BY <1>3, <1>7, <3>1 DEF IsPiece
  <2> DEFINE u == Append(out, cur)
  <2>2. HasPieces(u, s, q + Len(cur))
    BY <1>3, <2>1, PieceStep
  <2> HIDE DEF u
  <2>3. b.out = u /\ b.cur = <<>>
    BY <1>7 DEF u
  <2> DEFINE r == i + 2
  <2>4. r \in Nat \ {0} /\ r - 1 = i + 1 /\ q + Len(cur) = r - 1
    BY <1>1, <1>3
  <2>5. HasPieces(b.out, s, r - 1)
    BY <2>2, <2>3, <2>4
  <2>6. r + Len(b.cur) = (i + 1) + 1
    <3>1. Len(<<>>) = 0
      OBVIOUS
    <3>2. r + 0 = (i + 1) + 1
      BY <1>1
    <3>3. QED
      BY <2>3, <3>1, <3>2
  <2>7. Begins(s, r)
    BY <1>7, <2>4 DEF Begins
  <2>8. \A j \in 1 .. Len(b.cur) : FALSE
    <3>1. \A j \in 1 .. Len(<<>>) : FALSE
      OBVIOUS
    <3>2. QED
      BY <2>3, <3>1
  <2>9. CutAt(b, s, i + 1, r)
    BY <2>5, <2>6, <2>7, <2>8 DEF CutAt
  <2>10. QED
    BY <2>4, <2>9
<1>8. QED
  BY <1>4, <1>6, <1>7

(* The pieces of Split are those from each place where a line begins to the next
   newline, in order, the one after the last newline included. *)
LEMMA SplitFacts ==
  ASSUME NEW s \in Seq(Cell)
  PROVE  Split(s) \in Seq(Seq(Cell)) /\ HasPieces(Split(s), s, Len(s) + 1)
<1> DEFINE N == Len(s)
           k == SplitFrom(s)
           T == {i \in 0 .. N : \E q \in Nat \ {0} : CutAt(k[i], s, i, q)}
<1>1. /\ k[0] = [cur |-> <<>>, out |-> <<>>]
      /\ \A i \in 1 .. N : k[i] = Cut(k[i - 1], s[i])
      /\ \A i \in 0 .. N : k[i] \in Cutting
      /\ Split(s) = Append(k[N].out, k[N].cur)
  BY SplitWalk
<1>2. N \in Nat /\ 0 \in 0 .. N /\ N \in 0 .. N
  OBVIOUS
<1> HIDE DEF k
<1>3. 0 \in T
  <2>1. k[0].cur = <<>> /\ k[0].out = <<>>
    BY <1>1
  <2>2. HasPieces(<<>>, s, 0)
    <3> DEFINE a == [i \in 1 .. 0 |-> 1]
    <3>1. PiecesAt(<<>>, s, 0, a)
      BY DEF PiecesAt
    <3>2. QED
      BY <3>1 DEF HasPieces
  <2>3. 1 - 1 = 0 /\ Len(<<>>) = 0 /\ 1 + 0 = 0 + 1 /\ \A j \in 1 .. 0 : FALSE
    OBVIOUS
  <2>4. CutAt(k[0], s, 0, 1)
    BY <2>1, <2>2, <2>3 DEF CutAt, Begins
  <2>5. 1 \in Nat \ {0}
    OBVIOUS
  <2>6. QED
    BY <1>2, <2>4, <2>5
<1>4. ASSUME NEW i \in 0 .. N, i \in T, i < N PROVE i + 1 \in T
  <2>1. i + 1 \in 1 .. N /\ i + 1 \in 0 .. N /\ (i + 1) - 1 = i
    BY <1>2, <1>4
  <2>2. k[i + 1] = Cut(k[i], s[i + 1]) /\ k[i] \in Cutting
    BY <1>1, <2>1
  <2>3. PICK q \in Nat \ {0} : CutAt(k[i], s, i, q)
    BY <1>4
  <2>4. \E r \in Nat \ {0} : CutAt(k[i + 1], s, i + 1, r)
    BY <1>4, <2>2, <2>3, CutStep
  <2>5. QED
    BY <2>1, <2>4
<1>5. 0 .. N \subseteq T
  <2> HIDE DEF T, N
  <2>1. QED
    BY <1>2, <1>3, <1>4, BoundedInduction
<1>6. PICK q \in Nat \ {0} : CutAt(k[N], s, N, q)
  BY <1>2, <1>5
<1>7. PICK cur \in Seq(Cell), out \in Seq(Seq(Cell)) : cur = k[N].cur /\ out = k[N].out
  BY <1>1, <1>2 DEF Cutting
<1>8. /\ q + Len(cur) = N + 1 /\ Begins(s, q) /\ HasPieces(out, s, q - 1)
      /\ \A j \in 1 .. Len(cur) : cur[j] = s[q + j - 1] /\ s[q + j - 1].k # LineLen
  BY <1>6, <1>7 DEF CutAt
<1>9. IsPiece(cur, s, q)
  <2>1. q + Len(cur) <= Len(s) + 1 /\ ~(q + Len(cur) <= Len(s))
    BY <1>2, <1>8
  <2>2. QED
    BY <1>8, <2>1 DEF IsPiece
<1>10. Split(s) = Append(out, cur)
  BY <1>1, <1>7
<1>11. QED
  BY <1>8, <1>9, <1>10, PieceStep
-----------------------------------------------------------------------------
(* A whole line of s begins at q; only its newline may be missing, at the end. *)
Whole(s, q) ==
  /\ Begins(s, q) /\ q + (LineLen - 1) <= Len(s) + 1
  /\ \A j \in 1 .. LineLen - 1 : s[q + j - 1] = [n |-> s[q].n, k |-> j]
  /\ q + (LineLen - 1) <= Len(s) => s[q + (LineLen - 1)].k = LineLen

(* A line without its newline. *)
LEMMA BodyFacts ==
  ASSUME NEW n \in 1 .. MaxActions, NEW z, z = SubSeq(Line(n), 1, LineLen - 1)
  PROVE  z \in Seq(Cell) /\ Len(z) = LineLen - 1 /\ \A j \in 1 .. LineLen - 1 : z[j] = [n |-> n, k |-> j]
<1>1. LineLen \in Nat /\ LineLen >= 2
  BY AuditConstants
<1>2. Line(n) \in Seq(Cell) /\ Len(Line(n)) = LineLen
  BY LineFacts
<1>3. \A j \in 1 .. LineLen : Line(n)[j] = [n |-> n, k |-> j]
  BY DEF Line
<1> DEFINE l == Line(n)
<1> HIDE DEF l
<1>4. 0 \in 0 .. Len(l) /\ LineLen - 1 \in 0 .. Len(l) /\ l \in Seq(Cell)
  BY <1>1, <1>2 DEF l
<1>5. /\ SubSeq(l, 0 + 1, LineLen - 1) \in Seq(Cell)
      /\ Len(SubSeq(l, 0 + 1, LineLen - 1)) = IF 0 <= LineLen - 1 THEN (LineLen - 1) - 0 ELSE 0
      /\ \A i \in 1 .. (LineLen - 1) - 0 : SubSeq(l, 0 + 1, LineLen - 1)[i] = l[0 + i]
  BY <1>4, Stretch
<1>6. 0 + 1 = 1 /\ (LineLen - 1) - 0 = LineLen - 1 /\ 0 <= LineLen - 1
      /\ \A i \in 1 .. LineLen - 1 : 0 + i = i /\ i \in 1 .. LineLen
  BY <1>1
<1>7. z = SubSeq(l, 0 + 1, LineLen - 1)
  BY <1>6 DEF l
<1>8. z \in Seq(Cell) /\ Len(z) = LineLen - 1 /\ \A i \in 1 .. LineLen - 1 : z[i] = l[i]
  BY <1>5, <1>6, <1>7
<1>9. QED
  BY <1>3, <1>6, <1>8 DEF l

(* What a piece that parses is. *)
LEMMA ParsesMeans ==
  ASSUME NEW t \in Seq(Cell)
  PROVE  Parses(t) <=> /\ t # <<>> /\ Len(t) = LineLen - 1
                       /\ \A j \in 1 .. LineLen - 1 : t[j] = [n |-> t[1].n, k |-> j]
<1>1. CASE t = <<>>
  BY <1>1 DEF Parses
<1>2. CASE t # <<>>
  <2> DEFINE n == t[1].n
             z == SubSeq(Line(n), 1, LineLen - 1)
  <2>1. t[1] \in Cell
    BY <1>2
  <2>2. n \in 1 .. MaxActions
    BY <2>1, AuditCellFacts
  <2> HIDE DEF n
  <2>3. z \in Seq(Cell) /\ Len(z) = LineLen - 1 /\ \A j \in 1 .. LineLen - 1 : z[j] = [n |-> n, k |-> j]
    BY <2>2, BodyFacts
  <2>4. Parses(t) <=> t = z
    BY <1>2 DEF Parses, n
  <2> HIDE DEF z
  <2>5. ASSUME Len(t) = LineLen - 1, \A j \in 1 .. LineLen - 1 : t[j] = [n |-> n, k |-> j]
        PROVE  t = z
    <3>1. Len(t) = Len(z) /\ \A j \in 1 .. Len(t) : t[j] = z[j]
      BY <2>3, <2>5
    <3>2. QED
      BY <2>3, <3>1, SeqEqual
  <2>6. QED
    BY <1>2, <2>3, <2>4, <2>5 DEF n
<1>3. QED
  BY <1>1, <1>2

(* A piece parses exactly when a whole line begins there. *)
LEMMA PieceIsWhole ==
  ASSUME NEW s \in Seq(Cell), NEW t \in Seq(Cell), NEW q \in 1 .. Len(s) + 1,
         Begins(s, q), IsPiece(t, s, q)
  PROVE  /\ Parses(t) <=> Whole(s, q)
         /\ Parses(t) => q \in 1 .. Len(s) /\ Number(t) = s[q].n /\ Number(t) \in 1 .. MaxActions
         /\ ~Parses(t) => Number(t) = 0
<1>1. LineLen \in Nat /\ LineLen >= 2 /\ Len(s) \in Nat /\ Len(t) \in Nat /\ q \in Nat
  BY AuditConstants
<1>2. /\ q + Len(t) <= Len(s) + 1
      /\ \A i \in 1 .. Len(t) : t[i] = s[q + i - 1] /\ s[q + i - 1].k # LineLen
      /\ q + Len(t) <= Len(s) => s[q + Len(t)].k = LineLen
  BY DEF IsPiece
<1>3. ASSUME Parses(t)
      PROVE  Whole(s, q) /\ q \in 1 .. Len(s) /\ Number(t) = s[q].n /\ Number(t) \in 1 .. MaxActions
  <2>1. t # <<>> /\ Len(t) = LineLen - 1 /\ \A j \in 1 .. LineLen - 1 : t[j] = [n |-> t[1].n, k |-> j]
    BY <1>3, ParsesMeans
  <2>2. 1 \in 1 .. Len(t) /\ q + 1 - 1 = q
    BY <1>1, <2>1
  <2>3. t[1] = s[q] /\ t[1] \in Cell
    BY <1>2, <2>2
  <2>4. q \in 1 .. Len(s)
    BY <1>1, <1>2, <2>1
  <2>5. \A j \in 1 .. LineLen - 1 : s[q + j - 1] = [n |-> s[q].n, k |-> j]
    BY <1>2, <2>1, <2>3
  <2>6. Whole(s, q)
    BY <1>2, <2>1, <2>5 DEF Whole
  <2>7. Number(t) = s[q].n /\ Number(t) \in 1 .. MaxActions
    BY <1>3, <2>3, AuditCellFacts DEF Number
  <2>8. QED
    BY <2>4, <2>6, <2>7
<1>4. ASSUME Whole(s, q) PROVE Parses(t)
  <2>1. /\ q + (LineLen - 1) <= Len(s) + 1
        /\ \A j \in 1 .. LineLen - 1 : s[q + j - 1] = [n |-> s[q].n, k |-> j]
        /\ q + (LineLen - 1) <= Len(s) => s[q + (LineLen - 1)].k = LineLen
    BY <1>4 DEF Whole
  <2>2. ~(Len(t) < LineLen - 1)
    <3> SUFFICES ASSUME Len(t) < LineLen - 1 PROVE FALSE
      OBVIOUS
    <3> DEFINE j == Len(t) + 1
    <3>1. j \in 1 .. LineLen - 1 /\ q + j - 1 = q + Len(t) /\ q + Len(t) <= Len(s) /\ j # LineLen
      BY <1>1, <2>1
    <3>2. s[q + Len(t)].k = LineLen
      BY <1>2, <3>1
    <3> HIDE DEF j
    <3>3. s[q + Len(t)].k = j
      <4>1. s[q + j - 1] = [n |-> s[q].n, k |-> j]
        BY <2>1, <3>1
      <4>2. s[q + Len(t)] = [n |-> s[q].n, k |-> j]
        BY <3>1, <4>1
      <4>3. QED
        BY <4>2
    <3>4. QED
      BY <3>1, <3>2, <3>3
  <2>3. ~(Len(t) > LineLen - 1)
    <3> SUFFICES ASSUME Len(t) > LineLen - 1 PROVE FALSE
      OBVIOUS
    <3>1. LineLen \in 1 .. Len(t) /\ q + LineLen - 1 = q + (LineLen - 1) /\ q + (LineLen - 1) <= Len(s)
      BY <1>1, <1>2
    <3>2. QED
      BY <1>2, <2>1, <3>1
  <2>4. Len(t) = LineLen - 1
    BY <1>1, <2>2, <2>3
  <2>5. t # <<>> /\ 1 \in 1 .. Len(t) /\ q + 1 - 1 = q
    BY <1>1, <2>4
  <2>6. t[1] = s[q]
    BY <1>2, <2>5
  <2>7. \A j \in 1 .. LineLen - 1 : t[j] = [n |-> t[1].n, k |-> j]
    BY <1>2, <2>1, <2>4, <2>6
  <2>8. QED
    BY <2>4, <2>5, <2>7, ParsesMeans
<1>5. QED
  BY <1>3, <1>4 DEF Number

(* The pieces t begin at the places a, which are those of B. *)
PiecesOf(t, s, B, a) ==
  /\ Lists(a, Len(t))
  /\ \A i \in 1 .. Len(t) : a[i] \in B /\ IsPiece(t[i], s, a[i])
  /\ \A q \in B : \E i \in 1 .. Len(t) : a[i] = q

(* t has the numbers of the lines of s that begin at the places W, in order. *)
Reads(t, s, W, h) ==
  /\ Lists(h, Len(t))
  /\ \A m \in 1 .. Len(t) : h[m] \in W /\ t[m] = s[h[m]].n
  /\ \A q \in W : \E m \in 1 .. Len(t) : h[m] = q

ReadsAt(t, s, W) == \E h : Reads(t, s, W, h)

(* The entries of pieces are the whole lines among them. *)
LEMMA EntriesFacts ==
  ASSUME NEW s \in Seq(Cell), NEW t \in Seq(Seq(Cell)), NEW B \in SUBSET (1 .. Len(s) + 1),
         \A q \in B : Begins(s, q), NEW a, PiecesOf(t, s, B, a)
  PROVE  /\ Entries(t) \in Seq(1 .. MaxActions)
         /\ ReadsAt(Entries(t), s, {q \in B : Whole(s, q)})
<1> DEFINE S == 1 .. MaxActions
           V == 0 .. MaxActions
           W == {q \in B : Whole(s, q)}
           x == [i \in DOMAIN t |-> Number(t[i])]
           e == Keep(x, S)
<1>1. MaxActions \in Nat /\ Len(t) \in Nat /\ DOMAIN t = 1 .. Len(t)
  BY AuditConstants
<1>2. ASSUME NEW i \in 1 .. Len(t)
      PROVE  /\ a[i] \in B /\ x[i] = Number(t[i])
             /\ Whole(s, a[i]) => x[i] = s[a[i]].n /\ x[i] \in S
             /\ ~Whole(s, a[i]) => x[i] = 0
  <2>1. a[i] \in B /\ IsPiece(t[i], s, a[i]) /\ t[i] \in Seq(Cell)
    BY DEF PiecesOf
  <2>2. a[i] \in 1 .. Len(s) + 1 /\ Begins(s, a[i])
    BY <2>1
  <2>3. x[i] = Number(t[i])
    BY <1>1
  <2> HIDE DEF x
  <2>4. /\ Parses(t[i]) <=> Whole(s, a[i])
        /\ Parses(t[i]) => Number(t[i]) = s[a[i]].n /\ Number(t[i]) \in 1 .. MaxActions
        /\ ~Parses(t[i]) => Number(t[i]) = 0
    BY <2>1, <2>2, PieceIsWhole
  <2>5. QED
    BY <2>1, <2>3, <2>4
<1>3. x \in Seq(V) /\ Len(x) = Len(t)
  <2>1. \A i \in 1 .. Len(t) : Number(t[i]) \in V
    <3>1. ASSUME NEW i \in 1 .. Len(t) PROVE x[i] \in V
      <4> HIDE DEF x
      <4>1. x[i] = 0 \/ x[i] \in S
        BY <1>2
      <4>2. QED
        BY <1>1, <4>1
    <3>2. QED
      BY <1>1, <3>1
  <2> HIDE DEF V
  <2>2. x \in [1 .. Len(t) -> V]
    BY <1>1, <2>1
  <2> HIDE DEF x
  <2>3. PICK l \in Nat : l = Len(t)
    BY <1>1
  <2>4. x \in [1 .. l -> V]
    BY <2>2, <2>3
  <2>5. x \in Seq(V) /\ Len(x) = l
    BY ONLY <2>4, l \in Nat
  <2>6. QED
    BY <2>3, <2>5
<1>4. Entries(t) = e
  BY DEF Entries
<1> HIDE DEF x
<1>5. e \in Seq(V) /\ Picked(e, x, S, Len(x))
  <2> HIDE DEF S, V
  <2>1. QED
    BY <1>3, KeepFacts
<1>6. PICK g : Picks(e, x, S, Len(t), g)
  BY <1>3, <1>5 DEF Picked
<1> HIDE DEF e
<1>7. Len(e) \in Nat /\ \A m \in 1 .. Len(e) : g[m] \in 1 .. Len(t) /\ e[m] = x[g[m]] /\ e[m] \in S
  <2>1. Len(e) \in Nat
    BY ONLY <1>5
  <2>2. g \in [1 .. Len(e) -> 1 .. Len(t)] /\ \A m \in 1 .. Len(e) : e[m] = x[g[m]] /\ e[m] \in S
    BY <1>6 DEF Picks
  <2>3. QED
    BY ONLY <2>1, <2>2
<1>8. e \in Seq(S)
  <2>1. \A m \in 1 .. Len(e) : e[m] \in S
    BY <1>7
  <2> HIDE DEF S, V
  <2>2. QED
    BY <1>5, <2>1, NarrowSeq
<1> DEFINE h == [m \in 1 .. Len(e) |-> a[g[m]]]
<1>9. \A m \in 1 .. Len(e) : h[m] = a[g[m]] /\ h[m] \in Nat
  BY <1>7 DEF PiecesOf, Lists
<1>10. h \in [1 .. Len(e) -> Nat]
  BY <1>9
<1> HIDE DEF h
<1>11. ASSUME NEW i \in 1 .. Len(e), NEW j \in 1 .. Len(e), i < j PROVE h[i] < h[j]
  <2>1. g[i] < g[j] /\ g[i] \in 1 .. Len(t) /\ g[j] \in 1 .. Len(t)
    BY <1>6, <1>7, <1>11 DEF Picks
  <2>2. a[g[i]] < a[g[j]]
    BY <2>1 DEF PiecesOf, Lists
  <2>3. QED
    BY <1>9, <2>2
<1>12. ASSUME NEW m \in 1 .. Len(e) PROVE h[m] \in W /\ e[m] = s[h[m]].n
  <2>1. e[m] = x[g[m]] /\ e[m] \in S /\ g[m] \in 1 .. Len(t) /\ h[m] = a[g[m]]
    BY <1>7, <1>9
  <2>2. x[g[m]] # 0
    BY <2>1
  <2>3. Whole(s, a[g[m]]) /\ a[g[m]] \in B
    BY <1>2, <2>1, <2>2
  <2>4. QED
    BY <1>2, <2>1, <2>3
<1>13. ASSUME NEW q \in W PROVE \E m \in 1 .. Len(e) : h[m] = q
  <2>1. PICK i \in 1 .. Len(t) : a[i] = q
    BY DEF PiecesOf
  <2>2. x[i] \in S
    BY <1>2, <2>1
  <2>3. PICK m \in 1 .. Len(e) : g[m] = i
    BY <1>6, <2>2 DEF Picks
  <2>4. QED
    BY <1>9, <2>1, <2>3
<1>14. Reads(e, s, W, h)
  BY <1>10, <1>11, <1>12, <1>13 DEF Reads, Lists
<1>15. QED
  BY <1>4, <1>8, <1>14 DEF ReadsAt

(* Two readings of the same lines are the same. *)
LEMMA SameReading ==
  ASSUME NEW V, NEW s, NEW W, NEW t \in Seq(V), NEW u \in Seq(V), ReadsAt(t, s, W), ReadsAt(u, s, W)
  PROVE  t = u
<1>1. PICK h : Reads(t, s, W, h)
  BY DEF ReadsAt
<1>2. PICK g : Reads(u, s, W, g)
  BY DEF ReadsAt
<1> DEFINE m == Len(t)
           n == Len(u)
<1>3. m \in Nat /\ n \in Nat
  OBVIOUS
<1>4. Lists(h, m) /\ Lists(g, n) /\ Covers(g, n, h, m) /\ Covers(h, m, g, n)
  BY <1>1, <1>2 DEF Reads, Covers
<1> HIDE DEF m, n
<1>5. m = n /\ \A i \in 1 .. m : h[i] = g[i]
  BY <1>3, <1>4, SameLists
<1>6. Len(t) = Len(u) /\ \A i \in 1 .. Len(t) : t[i] = u[i]
  <2>1. \A i \in 1 .. m : t[i] = s[h[i]].n
    BY <1>1 DEF Reads, m
  <2>2. \A i \in 1 .. n : u[i] = s[g[i]].n
    BY <1>2 DEF Reads, n
  <2>3. m = n /\ \A i \in 1 .. m : t[i] = u[i]
    BY <1>5, <2>1, <2>2
  <2>4. QED
    BY <2>3 DEF m, n
<1>7. QED
  BY <1>6, SeqEqual
-----------------------------------------------------------------------------
(* The places of a file where a whole line begins. *)
WholeLines(s) == {q \in 1 .. Len(s) + 1 : Whole(s, q)}

(* A whole line has a first cell. *)
LEMMA WholeFirst ==
  ASSUME NEW s \in Seq(Cell), NEW q \in WholeLines(s)
  PROVE  q \in 1 .. Len(s) /\ s[q] = [n |-> s[q].n, k |-> 1] /\ s[q] \in Cell /\ s[q].k = 1
<1>1. LineLen \in Nat /\ LineLen >= 2 /\ Len(s) \in Nat /\ q \in Nat /\ q >= 1
  BY AuditConstants DEF WholeLines
<1>2. /\ q + (LineLen - 1) <= Len(s) + 1
      /\ \A j \in 1 .. LineLen - 1 : s[q + j - 1] = [n |-> s[q].n, k |-> j]
  BY DEF WholeLines, Whole
<1>3. q \in 1 .. Len(s) /\ 1 \in 1 .. LineLen - 1 /\ q + 1 - 1 = q
  BY <1>1, <1>2
<1>4. s[q] = [n |-> s[q].n, k |-> 1] /\ s[q] \in Cell
  BY <1>2, <1>3
<1>5. QED
  BY <1>3, <1>4

(* What the whole of a file reads as. *)
LEMMA FileEntries ==
  ASSUME NEW s \in Seq(Cell)
  PROVE  /\ Entries(Split(s)) \in Seq(1 .. MaxActions)
         /\ ReadsAt(Entries(Split(s)), s, WholeLines(s))
<1> DEFINE t == Split(s)
           B == {q \in 1 .. Len(s) + 1 : Begins(s, q)}
<1>1. t \in Seq(Seq(Cell)) /\ HasPieces(t, s, Len(s) + 1)
  BY SplitFacts
<1>2. PICK a : PiecesAt(t, s, Len(s) + 1, a)
  BY <1>1 DEF HasPieces
<1> HIDE DEF t
<1>3. Len(s) \in Nat
  OBVIOUS
<1>4. PiecesOf(t, s, B, a)
  <2>1. a \in [1 .. Len(t) -> 1 .. Len(s) + 1] /\ \A i, j \in 1 .. Len(t) : i < j => a[i] < a[j]
    BY <1>2 DEF PiecesAt
  <2>2. Lists(a, Len(t))
    BY <1>3, <2>1 DEF Lists
  <2>3. \A i \in 1 .. Len(t) : a[i] \in B /\ IsPiece(t[i], s, a[i])
    BY <1>2, <2>1 DEF PiecesAt
  <2>4. \A q \in B : \E i \in 1 .. Len(t) : a[i] = q
    BY <1>2 DEF PiecesAt
  <2>5. QED
    BY <2>2, <2>3, <2>4 DEF PiecesOf
<1>5. {q \in B : Whole(s, q)} = WholeLines(s)
  BY DEF WholeLines, Whole
<1>6. B \in SUBSET (1 .. Len(s) + 1) /\ \A q \in B : Begins(s, q)
  OBVIOUS
<1> HIDE DEF B
<1>7. Entries(t) \in Seq(1 .. MaxActions) /\ ReadsAt(Entries(t), s, {q \in B : Whole(s, q)})
  BY <1>1, <1>4, <1>6, EntriesFacts
<1>8. QED
  BY <1>5, <1>7 DEF t

(* The same without the first piece. *)
LEMMA TailEntries ==
  ASSUME NEW s \in Seq(Cell)
  PROVE  /\ Entries(Tail(Split(s))) \in Seq(1 .. MaxActions)
         /\ ReadsAt(Entries(Tail(Split(s))), s, {q \in WholeLines(s) : q # 1})
<1> DEFINE t == Split(s)
           B == {q \in 1 .. Len(s) + 1 : Begins(s, q) /\ q # 1}
<1>1. t \in Seq(Seq(Cell)) /\ HasPieces(t, s, Len(s) + 1)
  BY SplitFacts
<1>2. PICK a : PiecesAt(t, s, Len(s) + 1, a)
  BY <1>1 DEF HasPieces
<1> DEFINE u == Tail(t)
<1> HIDE DEF t
<1>3. Len(s) \in Nat /\ Len(t) \in Nat
  BY <1>1
<1>4. /\ a \in [1 .. Len(t) -> 1 .. Len(s) + 1] /\ \A i, j \in 1 .. Len(t) : i < j => a[i] < a[j]
      /\ \A i \in 1 .. Len(t) : Begins(s, a[i]) /\ IsPiece(t[i], s, a[i])
      /\ \A q \in 1 .. Len(s) + 1 : Begins(s, q) => \E i \in 1 .. Len(t) : a[i] = q
  BY <1>2 DEF PiecesAt
<1>5. PICK i1 \in 1 .. Len(t) : a[i1] = 1
  <2>1. 1 \in 1 .. Len(s) + 1 /\ Begins(s, 1)
    BY <1>3 DEF Begins
  <2>2. QED
    BY <1>4, <2>1
<1>6. i1 = 1 /\ Len(t) >= 1
  <2>1. Len(t) >= 1 /\ i1 \in Nat /\ i1 >= 1 /\ 1 \in 1 .. Len(t)
    BY <1>3
  <2>2. a[1] \in 1 .. Len(s) + 1 /\ (1 < i1 => a[1] < a[i1])
    BY <1>4, <2>1
  <2>3. ~(1 < i1)
    BY <1>3, <1>5, <2>2
  <2>4. QED
    BY <2>1, <2>3
<1>7. t # <<>>
  BY <1>3, <1>6
<1>8. u \in Seq(Seq(Cell)) /\ Len(u) = Len(t) - 1 /\ \A i \in 1 .. Len(u) : u[i] = t[i + 1]
  BY <1>1, <1>7, HeadTailProperties
<1> HIDE DEF u
<1> DEFINE b == [i \in 1 .. Len(u) |-> a[i + 1]]
<1>9. \A i \in 1 .. Len(u) : i + 1 \in 1 .. Len(t) /\ i + 1 > 1 /\ i \in Nat
  <2>1. \A i \in 1 .. Len(t) - 1 : i + 1 \in 1 .. Len(t) /\ i + 1 > 1 /\ i \in Nat
    BY ONLY <1>3
  <2>2. QED
    BY <1>8, <2>1
<1>10. \A i \in 1 .. Len(u) : b[i] = a[i + 1] /\ b[i] \in 1 .. Len(s) + 1
  BY <1>4, <1>9
<1>11. b \in [1 .. Len(u) -> Nat]
  BY <1>3, <1>10
<1> HIDE DEF b
<1>12. PiecesOf(u, s, B, b)
  <2>1. ASSUME NEW i \in 1 .. Len(u), NEW j \in 1 .. Len(u), i < j PROVE b[i] < b[j]
    <3>1. i + 1 < j + 1
      BY <1>9, <2>1
    <3>2. QED
      BY <1>4, <1>9, <1>10, <3>1
  <2>2. ASSUME NEW i \in 1 .. Len(u) PROVE b[i] \in B /\ IsPiece(u[i], s, b[i])
    <3>1. a[1] < a[i + 1] /\ a[1] = 1
      BY <1>3, <1>4, <1>5, <1>6, <1>9
    <3>2. b[i] # 1
      BY <1>3, <1>10, <3>1
    <3>3. QED
      BY <1>4, <1>8, <1>9, <1>10, <3>2
  <2>3. ASSUME NEW q \in B PROVE \E i \in 1 .. Len(u) : b[i] = q
    <3>1. PICK j \in 1 .. Len(t) : a[j] = q
      BY <1>4
    <3>2. j # 1
      BY <1>5, <1>6, <3>1
    <3>3. j - 1 \in 1 .. Len(t) - 1 /\ (j - 1) + 1 = j
      BY <1>3, <3>2
    <3>4. QED
      BY <1>8, <1>10, <3>1, <3>3
  <2>4. QED
    BY <1>11, <2>1, <2>2, <2>3 DEF PiecesOf, Lists
<1>13. {q \in B : Whole(s, q)} = {q \in WholeLines(s) : q # 1}
  BY DEF WholeLines, Whole
<1>14. B \in SUBSET (1 .. Len(s) + 1) /\ \A q \in B : Begins(s, q)
  OBVIOUS
<1> HIDE DEF B
<1>15. Entries(u) \in Seq(1 .. MaxActions) /\ ReadsAt(Entries(u), s, {q \in B : Whole(s, q)})
  BY <1>8, <1>12, <1>14, EntriesFacts
<1>16. QED
  BY <1>13, <1>15 DEF u, t

(* A line is whole in a window exactly when it is in the file, unless it is the
   one that the window starts within. *)
LEMMA WindowWhole ==
  ASSUME NEW s \in Seq(Cell), NEW o \in 0 .. Len(s), NEW w \in Seq(Cell), Len(w) = Len(s) - o,
         \A i \in 1 .. Len(s) - o : w[i] = s[o + i], NEW q \in 1 .. Len(w) + 1
  PROVE  /\ q # 1 \/ o = 0 \/ s[o].k = LineLen => (Whole(w, q) <=> Whole(s, o + q))
         /\ q = 1 /\ o # 0 /\ s[o].k # LineLen => ~Whole(s, o + q)
<1>1. /\ LineLen \in Nat /\ LineLen >= 2 /\ Len(s) \in Nat /\ o \in Nat /\ Len(w) \in Nat
      /\ q \in Nat /\ q >= 1
  BY AuditConstants
<1>2. ASSUME q # 1 PROVE Begins(w, q) <=> Begins(s, o + q)
  <2>1. q - 1 \in 1 .. Len(s) - o /\ o + (q - 1) = (o + q) - 1 /\ o + q # 1
    BY <1>1, <1>2
  <2>2. w[q - 1] = s[(o + q) - 1]
    BY <2>1
  <2>3. QED
    BY <1>2, <2>1, <2>2 DEF Begins
<1>3. ASSUME q = 1 PROVE Begins(w, q) /\ (Begins(s, o + q) <=> o = 0 \/ s[o].k = LineLen)
  <2>1. (o + q) - 1 = o /\ (o + q = 1 <=> o = 0)
    BY <1>1, <1>3
  <2>2. QED
    BY <1>3, <2>1 DEF Begins
<1>4. /\ q + (LineLen - 1) <= Len(w) + 1 <=> (o + q) + (LineLen - 1) <= Len(s) + 1
      /\ q + (LineLen - 1) <= Len(w) <=> (o + q) + (LineLen - 1) <= Len(s)
  BY <1>1
<1>5. ASSUME q + (LineLen - 1) <= Len(w)
      PROVE  w[q + (LineLen - 1)] = s[(o + q) + (LineLen - 1)]
  <2>1. q + (LineLen - 1) \in 1 .. Len(s) - o /\ o + (q + (LineLen - 1)) = (o + q) + (LineLen - 1)
    BY <1>1, <1>5
  <2>2. QED
    BY <2>1
<1>6. ASSUME q + (LineLen - 1) <= Len(w) + 1
      PROVE  w[q] = s[o + q] /\ \A j \in 1 .. LineLen - 1 : w[q + j - 1] = s[(o + q) + j - 1]
  <2>1. ASSUME NEW j \in 1 .. LineLen - 1 PROVE w[q + j - 1] = s[(o + q) + j - 1]
    <3>1. q + j - 1 \in 1 .. Len(s) - o /\ o + (q + j - 1) = (o + q) + j - 1
      BY <1>1, <1>6
    <3>2. QED
      BY <3>1
  <2>2. q \in 1 .. Len(s) - o
    BY <1>1, <1>6
  <2>3. QED
    BY <2>1, <2>2
<1>7. ASSUME Begins(w, q) <=> Begins(s, o + q) PROVE Whole(w, q) <=> Whole(s, o + q)
  <2>1. CASE q + (LineLen - 1) <= Len(w) + 1
    BY <1>4, <1>5, <1>6, <1>7, <2>1 DEF Whole
  <2>2. CASE ~(q + (LineLen - 1) <= Len(w) + 1)
    BY <1>4, <2>2 DEF Whole
  <2>3. QED
    BY <2>1, <2>2
<1>8. ASSUME q # 1 \/ o = 0 \/ s[o].k = LineLen PROVE Begins(w, q) <=> Begins(s, o + q)
  BY <1>2, <1>3, <1>8
<1>9. ASSUME q = 1, o # 0, s[o].k # LineLen PROVE ~Whole(s, o + q)
  BY <1>3, <1>9 DEF Whole
<1>10. QED
  BY <1>7, <1>8, <1>9

(* What Recent reads of its window are the whole lines of the file that begin in
   the window. *)
LEMMA WindowEntries ==
  ASSUME NEW s \in Seq(Cell), NEW o \in 0 .. Len(s), NEW w, w = SubSeq(s, o + 1, Len(s)), NEW e,
         e = Entries(IF o > 0 /\ s[o].k # LineLen THEN Tail(Split(w)) ELSE Split(w))
  PROVE  e \in Seq(1 .. MaxActions) /\ ReadsAt(e, s, {q \in WholeLines(s) : q > o})
<1>1. Len(s) \in Nat /\ o \in Nat /\ Len(s) \in 0 .. Len(s)
  OBVIOUS
<1>2. w \in Seq(Cell) /\ Len(w) = Len(s) - o /\ \A i \in 1 .. Len(s) - o : w[i] = s[o + i]
  <2>1. /\ w \in Seq(Cell) /\ Len(w) = IF o <= Len(s) THEN Len(s) - o ELSE 0
        /\ \A i \in 1 .. Len(s) - o : w[i] = s[o + i]
    BY <1>1, Stretch
  <2>2. o <= Len(s)
    OBVIOUS
  <2>3. QED
    BY <2>1, <2>2
<1> DEFINE torn == o > 0 /\ s[o].k # LineLen
           U == {q \in WholeLines(w) : torn => q # 1}
           W == {q \in WholeLines(s) : q > o}
<1>3. e \in Seq(1 .. MaxActions) /\ ReadsAt(e, w, U)
  <2>1. CASE torn
    <3>1. e = Entries(Tail(Split(w))) /\ U = {q \in WholeLines(w) : q # 1}
      BY <2>1
    <3>2. QED
      BY <1>2, <3>1, TailEntries
  <2>2. CASE ~torn
    <3>1. e = Entries(Split(w)) /\ U = WholeLines(w)
      BY <2>2
    <3>2. QED
      BY <1>2, <3>1, FileEntries
  <2>3. QED
    BY <2>1, <2>2
<1>4. PICK h : Reads(e, w, U, h)
  BY <1>3 DEF ReadsAt
<1>5. ASSUME NEW q \in Nat PROVE q \in U <=> o + q \in W /\ q >= 1
  <2>1. CASE q \in 1 .. Len(w) + 1
    <3>1. /\ ~torn \/ q # 1 => (Whole(w, q) <=> Whole(s, o + q))
          /\ torn /\ q = 1 => ~Whole(s, o + q)
      <4>1. /\ q # 1 \/ o = 0 \/ s[o].k = LineLen => (Whole(w, q) <=> Whole(s, o + q))
            /\ q = 1 /\ o # 0 /\ s[o].k # LineLen => ~Whole(s, o + q)
        BY <1>2, <2>1, WindowWhole
      <4>2. o > 0 <=> o # 0
        BY <1>1
      <4>3. QED
        BY <4>1, <4>2
    <3>2. o + q \in 1 .. Len(s) + 1 /\ o + q > o /\ q >= 1
      BY <1>1, <1>2, <2>1
    <3>3. QED
      BY <2>1, <3>1, <3>2 DEF WholeLines
  <2>2. CASE q \notin 1 .. Len(w) + 1
    <3>1. q \notin U
      BY <2>2 DEF WholeLines
    <3>2. ~(o + q \in 1 .. Len(s) + 1 /\ q >= 1)
      BY <1>1, <1>2, <2>2
    <3>3. QED
      BY <3>1, <3>2 DEF WholeLines
  <2>3. QED
    BY <2>1, <2>2
<1>6. U \subseteq Nat /\ W \subseteq Nat
  <2>1. Len(w) \in Nat
    BY <1>2
  <2>2. QED
    BY <1>1, <2>1 DEF WholeLines
<1>7. Len(e) \in Nat
  BY <1>3
<1> HIDE DEF U, W, torn
<1>8. /\ h \in [1 .. Len(e) -> Nat] /\ \A i, j \in 1 .. Len(e) : i < j => h[i] < h[j]
      /\ \A m \in 1 .. Len(e) : h[m] \in U /\ e[m] = w[h[m]].n
      /\ \A q \in U : \E m \in 1 .. Len(e) : h[m] = q
  BY <1>4 DEF Reads, Lists
<1> DEFINE g == [m \in 1 .. Len(e) |-> o + h[m]]
<1>9. \A m \in 1 .. Len(e) : g[m] = o + h[m] /\ h[m] \in Nat /\ g[m] \in Nat
  <2>1. \A m \in 1 .. Len(e) : h[m] \in Nat
    BY <1>8
  <2>2. \A x \in Nat : o + x \in Nat
    BY <1>1
  <2>3. \A m \in 1 .. Len(e) : g[m] = o + h[m]
    OBVIOUS
  <2>4. QED
    BY <2>1, <2>2, <2>3
<1>10. g \in [1 .. Len(e) -> Nat]
  BY <1>9
<1> HIDE DEF g
<1>11. ASSUME NEW i \in 1 .. Len(e), NEW j \in 1 .. Len(e), i < j PROVE g[i] < g[j]
  <2>1. h[i] < h[j]
    BY <1>8, <1>11
  <2>2. QED
    BY <1>1, <1>9, <2>1
<1>12. ASSUME NEW m \in 1 .. Len(e) PROVE g[m] \in W /\ e[m] = s[g[m]].n
  <2>1. h[m] \in U /\ e[m] = w[h[m]].n
    BY <1>8
  <2>2. g[m] \in W
    BY <1>5, <1>9, <2>1
  <2>3. h[m] \in 1 .. Len(w)
    BY <1>2, <2>1, WholeFirst DEF U
  <2>4. w[h[m]] = s[g[m]]
    BY <1>2, <1>9, <2>3
  <2>5. QED
    BY <2>1, <2>2, <2>4
<1>13. ASSUME NEW p \in W PROVE \E m \in 1 .. Len(e) : g[m] = p
  <2>1. p \in Nat /\ p > o
    BY <1>6 DEF W
  <2>2. p - o \in Nat /\ p - o >= 1 /\ o + (p - o) = p
    BY <1>1, <2>1
  <2>3. p - o \in U
    BY <1>5, <2>2
  <2>4. PICK m \in 1 .. Len(e) : h[m] = p - o
    BY <1>8, <2>3
  <2>5. QED
    BY <1>9, <2>2, <2>4
<1>14. Reads(e, s, W, g)
  BY <1>10, <1>11, <1>12, <1>13 DEF Reads, Lists
<1>15. QED
  BY <1>3, <1>14 DEF ReadsAt, W
-----------------------------------------------------------------------------
(* p tells of every cell of the file d which of the recorded actions o it belongs
   to: the cells are in the order of recording, and of their line. *)
Places(d, o, p) ==
  /\ p \in [1 .. Len(d) -> 1 .. Len(o)]
  /\ \A i \in 1 .. Len(d) : d[i].n = o[p[i]]
  /\ \A i, j \in 1 .. Len(d) : i < j => p[i] < p[j] \/ (p[i] = p[j] /\ d[i].k < d[j].k)

(* No cell is missing, up to the newline of the last action. *)
Unbroken(d, o, p) ==
  \A i \in 1 .. Len(d) :
    IF i = Len(d) THEN p[i] = Len(o) /\ d[i].k = LineLen
    ELSE \/ p[i + 1] = p[i] /\ d[i + 1].k = d[i].k + 1
         \/ p[i + 1] = p[i] + 1 /\ d[i].k = LineLen /\ d[i + 1].k = 1

Placed(d, o) == \E p : Places(d, o, p)
Complete(d, o) == \E p : Places(d, o, p) /\ Unbroken(d, o, p)

(* The last line of the file is there from its first cell. *)
EndsWithLine(d) == \E q \in 1 .. Len(d) : q + (LineLen - 1) = Len(d) /\ d[q].k = 1

(* What is left of a file after a cut keeps its places. *)
LEMMA CutPlaces ==
  ASSUME NEW V, NEW o \in Seq(V), NEW s \in Seq(Cell), NEW t \in Seq(Cell), NEW m \in 0 .. Len(s),
         m + Len(t) <= Len(s), \A i \in 1 .. Len(t) : t[i] = s[m + i],
         NEW p, Places(s, o, p), NEW q, q = [i \in 1 .. Len(t) |-> p[m + i]]
  PROVE  Places(t, o, q) /\ (m + Len(t) = Len(s) /\ Unbroken(s, o, p) => Unbroken(t, o, q))
<1>1. Len(s) \in Nat /\ Len(t) \in Nat /\ m \in Nat /\ Len(o) \in Nat
  OBVIOUS
<1>2. \A i \in 1 .. Len(t) : m + i \in 1 .. Len(s) /\ i \in Nat
  BY <1>1
<1>3. /\ p \in [1 .. Len(s) -> 1 .. Len(o)]
      /\ \A i \in 1 .. Len(s) : s[i].n = o[p[i]]
      /\ \A i, j \in 1 .. Len(s) : i < j => p[i] < p[j] \/ (p[i] = p[j] /\ s[i].k < s[j].k)
  BY DEF Places
<1>4. \A i \in 1 .. Len(t) : q[i] = p[m + i] /\ q[i] \in 1 .. Len(o)
  BY <1>2, <1>3
<1>5. q \in [1 .. Len(t) -> 1 .. Len(o)]
  BY <1>4
<1>6. \A i \in 1 .. Len(t) : t[i].n = o[q[i]]
  BY <1>2, <1>3, <1>4
<1>7. ASSUME NEW i \in 1 .. Len(t), NEW j \in 1 .. Len(t), i < j
      PROVE  q[i] < q[j] \/ (q[i] = q[j] /\ t[i].k < t[j].k)
  <2>1. m + i < m + j
    BY <1>1, <1>2, <1>7
  <2>2. p[m + i] < p[m + j] \/ (p[m + i] = p[m + j] /\ s[m + i].k < s[m + j].k)
    BY <1>2, <1>3, <2>1
  <2>3. QED
    BY <1>4, <2>2
<1>8. ASSUME m + Len(t) = Len(s), Unbroken(s, o, p), NEW i \in 1 .. Len(t)
      PROVE  IF i = Len(t) THEN q[i] = Len(o) /\ t[i].k = LineLen
             ELSE \/ q[i + 1] = q[i] /\ t[i + 1].k = t[i].k + 1
                  \/ q[i + 1] = q[i] + 1 /\ t[i].k = LineLen /\ t[i + 1].k = 1
  <2>1. (m + i = Len(s) <=> i = Len(t)) /\ (m + i) + 1 = m + (i + 1)
    <3>1. i \in Nat
      BY <1>1
    <3>2. QED
      BY ONLY <1>1, <1>8, <3>1
  <2>2. IF m + i = Len(s) THEN p[m + i] = Len(o) /\ s[m + i].k = LineLen
        ELSE \/ p[(m + i) + 1] = p[m + i] /\ s[(m + i) + 1].k = s[m + i].k + 1
             \/ p[(m + i) + 1] = p[m + i] + 1 /\ s[m + i].k = LineLen /\ s[(m + i) + 1].k = 1
    BY <1>2, <1>8 DEF Unbroken
  <2>3. CASE i = Len(t)
    BY <1>4, <2>1, <2>2, <2>3
  <2>4. CASE i # Len(t)
    <3>1. i + 1 \in 1 .. Len(t)
      BY <1>1, <2>4
    <3>2. t[i + 1] = s[m + (i + 1)] /\ q[i + 1] = p[m + (i + 1)]
      BY <1>4, <3>1
    <3>3. t[i] = s[m + i] /\ q[i] = p[m + i]
      BY <1>4
    <3>4. QED
      BY <2>1, <2>2, <2>4, <3>2, <3>3
  <2>5. QED
    BY <2>3, <2>4
<1>9. QED
  BY <1>5, <1>6, <1>7, <1>8 DEF Places, Unbroken

(* A part of a file in order is in order; the end of a complete one is complete. *)
LEMMA PartPlaced ==
  ASSUME NEW V, NEW o \in Seq(V), NEW s \in Seq(Cell), NEW t \in Seq(Cell)
  PROVE  /\ Part(t, s) /\ Placed(s, o) => Placed(t, o)
         /\ EndPart(t, s) /\ Complete(s, o) => Complete(t, o)
<1>1. ASSUME Part(t, s), Placed(s, o) PROVE Placed(t, o)
  <2>1. PICK m \in 0 .. Len(s) : m + Len(t) <= Len(s) /\ \A i \in 1 .. Len(t) : t[i] = s[m + i]
    BY <1>1 DEF Part
  <2>2. PICK p : Places(s, o, p)
    BY <1>1 DEF Placed
  <2> DEFINE q == [i \in 1 .. Len(t) |-> p[m + i]]
  <2>3. Places(t, o, q)
    <3> HIDE DEF q
    <3>1. QED
      BY <2>1, <2>2, CutPlaces DEF q
  <2>4. QED
    BY <2>3 DEF Placed
<1>2. ASSUME EndPart(t, s), Complete(s, o) PROVE Complete(t, o)
  <2>1. PICK m \in 0 .. Len(s) : m + Len(t) = Len(s) /\ \A i \in 1 .. Len(t) : t[i] = s[m + i]
    BY <1>2 DEF EndPart
  <2>2. PICK p : Places(s, o, p) /\ Unbroken(s, o, p)
    BY <1>2 DEF Complete
  <2> DEFINE q == [i \in 1 .. Len(t) |-> p[m + i]]
  <2>3. m + Len(t) <= Len(s)
    BY <2>1
  <2>4. Places(t, o, q) /\ Unbroken(t, o, q)
    <3> HIDE DEF q
    <3>1. QED
      BY <2>1, <2>2, <2>3, CutPlaces DEF q
  <2>5. QED
    BY <2>4 DEF Complete
<1>3. QED
  BY <1>1, <1>2

(* One more action that has nothing on file. *)
LEMMA MorePlaced ==
  ASSUME NEW V, NEW o \in Seq(V), NEW s \in Seq(Cell), NEW n \in V, Placed(s, o)
  PROVE  Placed(s, Append(o, n))
<1> DEFINE u == Append(o, n)
<1>1. PICK p : Places(s, o, p)
  BY DEF Placed
<1>2. Len(o) \in Nat /\ Len(u) = Len(o) + 1 /\ \A i \in 1 .. Len(o) : u[i] = o[i]
  BY AppendProperties
<1> HIDE DEF u
<1>3. \A x \in 1 .. Len(o) : x \in 1 .. Len(u)
  BY <1>2
<1>4. p \in [1 .. Len(s) -> 1 .. Len(o)] /\ \A i \in 1 .. Len(s) : s[i].n = o[p[i]]
  BY <1>1 DEF Places
<1>5. p \in [1 .. Len(s) -> 1 .. Len(u)] /\ \A i \in 1 .. Len(s) : s[i].n = u[p[i]]
  BY <1>2, <1>3, <1>4
<1>6. Places(s, u, p)
  BY <1>1, <1>5 DEF Places
<1>7. QED
  BY <1>6 DEF Placed, u

(* The cells of a line. *)
LEMMA LineCells ==
  ASSUME NEW n \in 1 .. MaxActions
  PROVE  /\ Line(n) \in Seq(Cell) /\ Len(Line(n)) = LineLen
         /\ \A j \in 1 .. LineLen : Line(n)[j] = [n |-> n, k |-> j] /\ Line(n)[j].n = n /\ Line(n)[j].k = j
<1>1. Line(n) \in Seq(Cell) /\ Len(Line(n)) = LineLen
  BY LineFacts
<1>2. \A j \in 1 .. LineLen : Line(n)[j] = [n |-> n, k |-> j]
  BY DEF Line
<1>3. QED
  BY <1>1, <1>2

(* A file and a line behind it. *)
LEMMA LineBehind ==
  ASSUME NEW s \in Seq(Cell), NEW n \in 1 .. MaxActions
  PROVE  \E t \in Seq(Cell) :
           /\ t = s \o Line(n) /\ Len(t) = Len(s) + LineLen
           /\ \A i \in 1 .. Len(s) : t[i] = s[i]
           /\ \A j \in 1 .. LineLen :
                t[Len(s) + j] = [n |-> n, k |-> j] /\ t[Len(s) + j].n = n /\ t[Len(s) + j].k = j
<1> DEFINE l == Line(n)
<1>1. /\ l \in Seq(Cell) /\ Len(l) = LineLen
      /\ \A j \in 1 .. LineLen : l[j] = [n |-> n, k |-> j] /\ l[j].n = n /\ l[j].k = j
  BY LineCells
<1> HIDE DEF l
<1>2. LineLen \in Nat /\ Len(s) \in Nat
  BY AuditConstants
<1>3. /\ s \o l \in Seq(Cell) /\ Len(s \o l) = Len(s) + Len(l)
      /\ \A i \in 1 .. Len(s) + Len(l) : (s \o l)[i] = IF i <= Len(s) THEN s[i] ELSE l[i - Len(s)]
  BY <1>1, ConcatProperties
<1>4. PICK t \in Seq(Cell) : t = s \o l
  BY <1>3
<1>5. \A i \in 1 .. Len(s) : i \in 1 .. Len(s) + LineLen /\ i <= Len(s)
  BY <1>2
<1>6. \A j \in 1 .. LineLen : /\ Len(s) + j \in 1 .. Len(s) + LineLen /\ ~(Len(s) + j <= Len(s))
                              /\ (Len(s) + j) - Len(s) = j
  BY <1>2
<1>7. \A i \in 1 .. Len(s) : t[i] = s[i]
  BY <1>1, <1>3, <1>4, <1>5
<1>8. \A j \in 1 .. LineLen : t[Len(s) + j] = l[j]
  BY <1>1, <1>3, <1>4, <1>6
<1>9. Len(t) = Len(s) + LineLen
  BY <1>1, <1>3, <1>4
<1>10. \A j \in 1 .. LineLen :
         t[Len(s) + j] = [n |-> n, k |-> j] /\ t[Len(s) + j].n = n /\ t[Len(s) + j].k = j
  BY <1>1, <1>8
<1>11. t = s \o Line(n)
  BY <1>4 DEF l
<1>12. QED
  BY ONLY t \in Seq(Cell), <1>7, <1>9, <1>10, <1>11, Zenon

(* A line of n is added: t is the file s with it, u are the actions o with n, q
   the places p with those of the line. *)
LineAdded(s, o, p, t, u, q, n, l, z) ==
  /\ l = Len(s) /\ z = Len(o)
  /\ Len(t) = l + LineLen /\ \A i \in 1 .. l : t[i] = s[i]
  /\ \A j \in 1 .. LineLen : t[l + j].n = n /\ t[l + j].k = j
  /\ Len(u) = z + 1 /\ (\A i \in 1 .. z : u[i] = o[i]) /\ u[z + 1] = n
  /\ q \in [1 .. l + LineLen -> 1 .. z + 1] /\ \A i \in 1 .. l : q[i] = p[i]
  /\ \A j \in 1 .. LineLen : q[l + j] = z + 1

(* The line of a new action, behind what is on file, keeps the places. *)
LEMMA LinePlaces ==
  ASSUME NEW s, NEW o, NEW n, NEW p, Places(s, o, p), NEW t, NEW u, NEW q,
         NEW l \in Nat, NEW z \in Nat, LineAdded(s, o, p, t, u, q, n, l, z)
  PROVE  Places(t, u, q) /\ (Unbroken(s, o, p) => Unbroken(t, u, q))
<1>1. LineLen \in Nat /\ LineLen >= 2 /\ l \in Nat /\ z \in Nat
  BY AuditConstants
<1>2. /\ l = Len(s) /\ z = Len(o)
      /\ Len(t) = l + LineLen /\ \A i \in 1 .. l : t[i] = s[i]
      /\ \A j \in 1 .. LineLen : t[l + j].n = n /\ t[l + j].k = j
  BY DEF LineAdded
<1>3. /\ Len(u) = z + 1 /\ (\A i \in 1 .. z : u[i] = o[i]) /\ u[z + 1] = n
      /\ q \in [1 .. l + LineLen -> 1 .. z + 1] /\ \A i \in 1 .. l : q[i] = p[i]
      /\ \A j \in 1 .. LineLen : q[l + j] = z + 1
  BY DEF LineAdded
<1>4. /\ p \in [1 .. l -> 1 .. z]
      /\ \A i \in 1 .. l : s[i].n = o[p[i]]
      /\ \A i, j \in 1 .. l : i < j => p[i] < p[j] \/ (p[i] = p[j] /\ s[i].k < s[j].k)
  BY <1>2 DEF Places
<1>5. \A i \in 1 .. l + LineLen : i \in Nat /\ (i \in 1 .. l \/ \E j \in 1 .. LineLen : i = l + j)
  <2>1. ASSUME NEW i \in 1 .. l + LineLen PROVE i \in Nat /\ (i \in 1 .. l \/ i - l \in 1 .. LineLen)
    BY <1>1
  <2>2. \A i \in 1 .. l + LineLen : i = l + (i - l)
    BY <1>1
  <2>3. QED
    BY <2>1, <2>2
<1>6. \A i \in 1 .. l : /\ q[i] = p[i] /\ q[i] \in 1 .. z /\ t[i] = s[i] /\ i \in Nat
                        /\ u[q[i]] = o[p[i]] /\ i \in 1 .. l + LineLen
  <2>1. \A i \in 1 .. l : i \in 1 .. l + LineLen /\ i \in Nat
    BY <1>1
  <2>2. \A i \in 1 .. l : q[i] = p[i] /\ p[i] \in 1 .. z
    BY <1>3, <1>4
  <2>3. QED
    BY <1>2, <1>3, <2>1, <2>2
<1>7. \A j \in 1 .. LineLen : /\ q[l + j] = z + 1 /\ t[l + j].n = n /\ t[l + j].k = j
                              /\ u[q[l + j]] = n /\ l + j \in 1 .. l + LineLen /\ j \in Nat
  <2>1. \A j \in 1 .. LineLen : l + j \in 1 .. l + LineLen /\ j \in Nat
    BY <1>1
  <2>2. QED
    BY <1>2, <1>3, <2>1, Zenon
<1>9. ASSUME NEW i \in 1 .. l + LineLen PROVE t[i].n = u[q[i]]
  <2>1. CASE i \in 1 .. l
    BY <1>4, <1>6, <2>1, Zenon
  <2>2. ASSUME NEW j \in 1 .. LineLen, i = l + j PROVE t[i].n = u[q[i]]
    BY <1>7, <2>2, Zenon
  <2>3. QED
    BY <1>5, <2>1, <2>2
<1>10. ASSUME NEW i \in 1 .. l + LineLen, NEW j \in 1 .. l + LineLen, i < j
       PROVE  q[i] < q[j] \/ (q[i] = q[j] /\ t[i].k < t[j].k)
  <2>1. CASE i \in 1 .. l /\ j \in 1 .. l
    BY <1>4, <1>6, <1>10, <2>1
  <2>2. CASE i \in 1 .. l /\ j \notin 1 .. l
    <3>1. q[j] = z + 1 /\ q[i] \in 1 .. z
      BY <1>5, <1>6, <1>7, <2>2
    <3>2. \A x \in 1 .. z : x < z + 1
      BY <1>1
    <3>3. QED
      BY <3>1, <3>2
  <2>3. CASE i \notin 1 .. l
    <3>1. PICK a \in 1 .. LineLen : i = l + a
      BY <1>5, <2>3
    <3>2. j \notin 1 .. l
      BY <1>1, <1>5, <1>10, <2>3
    <3>3. PICK b \in 1 .. LineLen : j = l + b
      BY <1>5, <3>2
    <3>4. a < b
      BY <1>1, <1>10, <3>1, <3>3
    <3>5. q[i] = q[j] /\ t[i].k = a /\ t[j].k = b
      BY <1>7, <3>1, <3>3
    <3>6. QED
      BY <3>4, <3>5
  <2>4. QED
    BY <2>1, <2>2, <2>3
<1>11. ASSUME Unbroken(s, o, p), NEW i \in 1 .. l + LineLen
       PROVE  IF i = l + LineLen THEN q[i] = z + 1 /\ t[i].k = LineLen
              ELSE \/ q[i + 1] = q[i] /\ t[i + 1].k = t[i].k + 1
                   \/ q[i + 1] = q[i] + 1 /\ t[i].k = LineLen /\ t[i + 1].k = 1
  <2>1. CASE i \in 1 .. l
    <3>1. IF i = l THEN p[i] = z /\ s[i].k = LineLen
          ELSE \/ p[i + 1] = p[i] /\ s[i + 1].k = s[i].k + 1
               \/ p[i + 1] = p[i] + 1 /\ s[i].k = LineLen /\ s[i + 1].k = 1
      BY <1>2, <1>11, <2>1 DEF Unbroken
    <3>2. i # l + LineLen /\ (i # l => i + 1 \in 1 .. l) /\ 1 \in 1 .. LineLen
      BY <1>1, <1>6, <2>1
    <3>3. CASE i = l
      <4>1. q[i] = z /\ t[i].k = LineLen
        BY <1>6, <2>1, <3>1, <3>3
      <4>2. q[i + 1] = z + 1 /\ t[i + 1].k = 1
        BY <1>7, <3>2, <3>3
      <4>3. QED
        BY <3>2, <4>1, <4>2
    <3>4. CASE i # l
      <4>1. q[i] = p[i] /\ t[i] = s[i]
        BY <1>6, <2>1
      <4>2. q[i + 1] = p[i + 1] /\ t[i + 1] = s[i + 1]
        BY <1>6, <3>2, <3>4
      <4>3. QED
        BY <3>1, <3>2, <3>4, <4>1, <4>2
    <3>5. QED
      BY <3>3, <3>4
  <2>2. CASE i \notin 1 .. l
    <3>1. PICK a \in 1 .. LineLen : i = l + a
      BY <1>5, <2>2
    <3>2. q[i] = z + 1 /\ t[i].k = a
      BY <1>7, <3>1
    <3>3. (i = l + LineLen <=> a = LineLen) /\ i + 1 = l + (a + 1) /\ (a # LineLen => a + 1 \in 1 .. LineLen)
      BY <1>1, <3>1
    <3>4. a # LineLen => q[i + 1] = z + 1 /\ t[i + 1].k = a + 1
      BY <1>7, <3>3
    <3>5. QED
      BY <3>2, <3>3, <3>4
  <2>3. QED
    BY <2>1, <2>2
<1>13. Places(t, u, q)
  BY <1>2, <1>3, <1>9, <1>10 DEF Places
<1>14. Unbroken(s, o, p) => Unbroken(t, u, q)
  BY <1>2, <1>3, <1>11 DEF Unbroken
<1>15. QED
  BY <1>13, <1>14

(* A recorded line is in its place. *)
LEMMA LinePlaced ==
  ASSUME NEW V, NEW o \in Seq(V), NEW s \in Seq(Cell), NEW n \in 1 .. MaxActions, n \in V
  PROVE  /\ Placed(s, o) => Placed(s \o Line(n), Append(o, n))
         /\ Complete(s, o) => Complete(s \o Line(n), Append(o, n))
         /\ EndsWithLine(s \o Line(n))
<1> DEFINE u == Append(o, n)
<1>1. PICK l \in Nat, z \in Nat : l = Len(s) /\ z = Len(o)
  OBVIOUS
<1>2. PICK t \in Seq(Cell) :
        /\ t = s \o Line(n) /\ Len(t) = Len(s) + LineLen
        /\ \A i \in 1 .. Len(s) : t[i] = s[i]
        /\ \A j \in 1 .. LineLen :
             t[Len(s) + j] = [n |-> n, k |-> j] /\ t[Len(s) + j].n = n /\ t[Len(s) + j].k = j
  BY LineBehind
<1>3. Len(u) = z + 1 /\ (\A i \in 1 .. z : u[i] = o[i]) /\ u[z + 1] = n
  BY <1>1, AppendProperties
<1> HIDE DEF u
<1>4. LineLen \in Nat /\ LineLen >= 2
  BY AuditConstants
<1>5. ASSUME NEW p, Places(s, o, p)
      PROVE  \E q : Places(t, u, q) /\ (Unbroken(s, o, p) => Unbroken(t, u, q))
  <2> DEFINE q == [i \in 1 .. l + LineLen |-> IF i <= l THEN p[i] ELSE z + 1]
  <2>1. p \in [1 .. l -> 1 .. z]
    BY <1>1, <1>5 DEF Places
  <2>2. /\ \A i \in 1 .. l : i <= l /\ i \in 1 .. l + LineLen
        /\ \A j \in 1 .. LineLen : ~(l + j <= l) /\ l + j \in 1 .. l + LineLen
        /\ \A i \in 1 .. l + LineLen : i <= l => i \in 1 .. l
        /\ \A x \in 1 .. z : x \in 1 .. z + 1
        /\ z + 1 \in 1 .. z + 1
    BY <1>4
  <2>3. \A i \in 1 .. l : q[i] = p[i]
    BY <2>2
  <2>4. \A j \in 1 .. LineLen : q[l + j] = z + 1
    BY <2>2
  <2>5. q \in [1 .. l + LineLen -> 1 .. z + 1]
    BY <2>1, <2>2
  <2> HIDE DEF q
  <2>6. Places(t, u, q) /\ (Unbroken(s, o, p) => Unbroken(t, u, q))
    <3>1. LineAdded(s, o, p, t, u, q, n, l, z)
      BY ONLY <1>1, <1>2, <1>3, <2>3, <2>4, <2>5 DEF LineAdded
    <3>2. QED
      BY <1>5, <3>1, LinePlaces
  <2>7. QED
    BY <2>6
<1>6. EndsWithLine(t)
  <2>1. 1 \in 1 .. LineLen /\ l + 1 \in 1 .. Len(t) /\ (l + 1) + (LineLen - 1) = Len(t)
    BY <1>1, <1>2, <1>4
  <2>2. t[l + 1].k = 1
    BY <1>1, <1>2, <2>1
  <2>3. QED
    BY <2>1, <2>2 DEF EndsWithLine
<1>7. Placed(s, o) => Placed(t, u)
  BY <1>5 DEF Placed
<1>8. Complete(s, o) => Complete(t, u)
  BY <1>5 DEF Complete
<1>9. QED
  BY <1>2, <1>6, <1>7, <1>8 DEF u

(* A sequence is a part of itself, and its end. *)
LEMMA PartOfItself ==
  ASSUME NEW V, NEW s \in Seq(V)
  PROVE  Part(s, s) /\ EndPart(s, s)
<1>1. Len(s) \in Nat /\ 0 \in 0 .. Len(s) /\ 0 + Len(s) = Len(s) /\ 0 + Len(s) <= Len(s)
  OBVIOUS
<1>2. \A i \in 1 .. Len(s) : s[i] = s[0 + i]
  OBVIOUS
<1>3. QED
  BY <1>1, <1>2 DEF Part, EndPart

(* A failure is counted. *)
LEMMA FaultedMore ==
  ASSUME NEW f \in File, CanFail(f)
  PROVE  Faulted(f) \in File /\ Faulted(f).data = f.data /\ Faulted(f).faults > f.faults
<1>1. Faulted(f) \in File /\ Faulted(f).data = f.data
  BY FaultedFacts
<1>2. f.faults \in Nat
  BY AuditConstants DEF File
<1>3. Faulted(f).faults = f.faults + 1
  BY DEF Faulted, File
<1>4. QED
  BY <1>1, <1>2, <1>3

(* open leaves the file alone; without a failure there is a handle. *)
LEMMA OpenedData ==
  ASSUME NEW f \in File, ~f.open, f.size = 0, NEW g \in Opened(f)
  PROVE  /\ g \in File /\ g.data = f.data /\ g.faults >= f.faults
         /\ g.faults = f.faults => g.open
<1>1. g \in File /\ g.data = f.data
  BY OpenedFacts DEF FileOK
<1>2. f.faults \in Nat
  BY AuditConstants DEF File
<1>3. CASE g = [f EXCEPT !.open = TRUE, !.size = Len(f.data)]
  <2>1. g.faults = f.faults /\ g.open
    BY <1>3 DEF File
  <2>2. QED
    BY <1>1, <1>2, <2>1
<1>4. ASSUME CanFail(f), NEW o \in BOOLEAN, g = Faulted([f EXCEPT !.open = o])
      PROVE  g.faults > f.faults
  <2> DEFINE c == [f EXCEPT !.open = o]
  <2>1. c \in File /\ CanFail(c) /\ c.faults = f.faults
    BY <1>4 DEF File, CanFail
  <2>2. g = Faulted(c)
    BY <1>4
  <2> HIDE DEF c
  <2>3. QED
    BY <2>1, <2>2, FaultedMore
<1>5. g.faults \in Nat
  BY <1>1, AuditConstants DEF File
<1>6. CASE \E o \in BOOLEAN : CanFail(f) /\ g = Faulted([f EXCEPT !.open = o])
  BY <1>1, <1>2, <1>4, <1>5, <1>6
<1>7. QED
  BY <1>3, <1>6 DEF Opened

(* The rewrite leaves a part of the file, and without a failure its newer half,
   which is not empty. *)
LEMMA HalvedData ==
  ASSUME NEW f \in File, NEW g \in Halved(f)
  PROVE  /\ g \in File /\ Part(g.data, f.data) /\ g.faults >= f.faults
         /\ g.faults = f.faults => EndPart(g.data, f.data) /\ (f.data # <<>> => g.data # <<>>)
<1>1. PICK s \in Seq(Cell) : s = f.data
  BY DEF File
<1>2. PICK n \in Nat : n = Len(s)
  OBVIOUS
<1>3. PICK q \in 0 .. n : q = n \div 2 /\ 2 * q <= n /\ n <= 2 * q + 1
  BY HalfFacts
<1>4. q \in 0 .. n /\ 2 * q <= n /\ n <= 2 * q + 1
  BY <1>3, Zenon
<1>5. g \in File /\ f.faults \in Nat /\ g.faults \in Nat
  <2>1. g \in File
    BY HalvedFacts
  <2>2. QED
    BY <2>1, AuditConstants DEF File
<1> DEFINE half == SubSeq(s, q + 1, n)
<1>6. half \in Seq(Cell) /\ Len(half) = n - q /\ Part(half, s) /\ EndPart(half, s)
  <2>1. q \in 0 .. Len(s) /\ n \in 0 .. Len(s) /\ q <= n
    BY <1>2, <1>4
  <2>2. half \in Seq(Cell) /\ Len(half) = IF q <= n THEN n - q ELSE 0
    BY <2>1, Stretch
  <2>3. Part(half, s) /\ EndPart(half, s)
    BY <1>2, <2>1, StretchIsPart
  <2>4. QED
    BY <2>1, <2>2, <2>3
<1>7. \/ s = <<>> /\ g = f
      \/ s # <<>> /\ g = [f EXCEPT !.data = half]
      \/ /\ CanFail(f)
         /\ \E d \in {s} \cup {SubSeq(half, 1, k) : k \in 0 .. Len(half) - 1} :
              g = Faulted([f EXCEPT !.data = d])
  BY <1>1, <1>2, <1>3 DEF Halved
<1> HIDE DEF half
<1>8. CASE s = <<>> /\ g = f
  <2>1. Part(s, s) /\ EndPart(s, s)
    BY PartOfItself
  <2>2. g.data = s /\ f.data = s /\ g.faults = f.faults /\ g.faults >= f.faults
    <3>1. g.data = s /\ f.data = s /\ g.faults = f.faults
      BY <1>1, <1>8, Zenon
    <3>2. g.faults >= f.faults
      BY ONLY <1>5, <3>1
    <3>3. QED
      BY <3>1, <3>2
  <2>3. QED
    BY <1>5, <1>8, <2>1, <2>2, Zenon
<1>9. CASE s # <<>> /\ g = [f EXCEPT !.data = half]
  <2>1. g.data = half /\ g.faults = f.faults
    BY <1>9 DEF File
  <2>2. half # <<>>
    <3>1. n # 0
      BY <1>2, <1>9
    <3>2. n - q # 0
      BY <1>4, <3>1
    <3>3. QED
      BY <1>6, <3>2
  <2>3. QED
    BY <1>1, <1>5, <1>6, <2>1, <2>2
<1>10. ASSUME CanFail(f), NEW d \in {s} \cup {SubSeq(half, 1, k) : k \in 0 .. Len(half) - 1},
              g = Faulted([f EXCEPT !.data = d])
       PROVE  Part(g.data, s) /\ g.faults > f.faults
  <2>1. d \in Seq(Cell) /\ Part(d, s)
    <3>1. ASSUME NEW k \in 0 .. Len(half) - 1
          PROVE  SubSeq(half, 1, k) \in Seq(Cell) /\ Part(SubSeq(half, 1, k), s)
      <4>1. k \in 0 .. Len(half) /\ 0 \in 0 .. Len(half) /\ 0 + 1 = 1
        BY <1>6
      <4> DEFINE y == SubSeq(half, 1, k)
      <4>2. y \in Seq(Cell) /\ Part(y, half)
        BY <1>6, <4>1, Stretch, StretchIsPart
      <4> HIDE DEF y
      <4>3. Part(y, s)
        BY <1>6, <4>2, PartOfPart
      <4>4. QED
        BY <4>2, <4>3 DEF y
    <3>2. QED
      BY <3>1, PartOfItself
  <2> DEFINE c == [f EXCEPT !.data = d]
  <2>2. c \in File /\ CanFail(c) /\ c.data = d /\ c.faults = f.faults
    BY <1>10, <2>1 DEF File, CanFail
  <2>3. g = Faulted(c)
    BY <1>10
  <2> HIDE DEF c
  <2>4. g.data = d /\ g.faults > f.faults
    BY <2>2, <2>3, FaultedMore
  <2>5. QED
    BY <2>1, <2>4
<1>11. CASE \E d \in {s} \cup {SubSeq(half, 1, k) : k \in 0 .. Len(half) - 1} :
              CanFail(f) /\ g = Faulted([f EXCEPT !.data = d])
  <2>1. Part(g.data, s) /\ g.faults > f.faults
    BY <1>10, <1>11
  <2>2. QED
    BY <1>1, <1>5, <2>1
<1>12. QED
  BY <1>7, <1>8, <1>9, <1>11

(* The write leaves the file with the line behind it, or a beginning of that. *)
LEMMA WrittenData ==
  ASSUME NEW f \in File, f.open, NEW n \in 1 .. MaxActions, NEW g \in Written(f, Line(n))
  PROVE  /\ g \in File /\ Part(g.data, f.data \o Line(n)) /\ g.faults >= f.faults
         /\ g.faults = f.faults => g.open /\ g.data = f.data \o Line(n)
<1>1. PICK s \in Seq(Cell), l \in Seq(Cell) : s = f.data /\ l = Line(n)
  BY LineFacts DEF File
<1>2. g \in File /\ f.faults \in Nat /\ g.faults \in Nat
  <2>1. g \in File
    BY LineFacts, WrittenFacts DEF FileOK
  <2>2. QED
    BY <2>1, AuditConstants DEF File
<1>3. s \o l \in Seq(Cell)
  BY Joined
<1>4. CASE g = [f EXCEPT !.data = s \o l, !.size = @ + Len(l)]
  <2>1. g.data = s \o l /\ g.faults = f.faults /\ g.open
    BY <1>4 DEF File
  <2>2. PICK x \in Seq(Cell) : x = s \o l
    BY <1>3
  <2>3. Part(x, x)
    BY PartOfItself
  <2>4. Part(g.data, s \o l) /\ g.faults >= f.faults
    BY ONLY <1>2, <2>1, <2>2, <2>3
  <2>5. QED
    BY <1>1, <1>2, <2>1, <2>4, Zenon
<1>5. ASSUME CanFail(f), NEW k \in 0 .. Len(l) - 1, g = Faulted([f EXCEPT !.data = s \o SubSeq(l, 1, k)])
      PROVE  Part(g.data, s \o l) /\ g.faults > f.faults
  <2>1. k \in 0 .. Len(l)
    OBVIOUS
  <2> DEFINE d == s \o SubSeq(l, 1, k)
             c == [f EXCEPT !.data = d]
  <2>2. Part(d, s \o l)
    BY <2>1, PrefixIsPart
  <2>3. d \in Seq(Cell)
    BY <2>1, PartFacts, Joined
  <2> HIDE DEF d
  <2>4. c \in File /\ CanFail(c) /\ c.data = d /\ c.faults = f.faults
    BY <1>5, <2>3 DEF File, CanFail
  <2>5. g = Faulted(c)
    BY <1>5 DEF d
  <2> HIDE DEF c
  <2>6. g.data = d /\ g.faults > f.faults
    BY <2>4, <2>5, FaultedMore
  <2>7. QED
    BY <2>2, <2>6
<1>6. CASE \E k \in 0 .. Len(l) - 1 : CanFail(f) /\ g = Faulted([f EXCEPT !.data = s \o SubSeq(l, 1, k)])
  <2>1. Part(g.data, s \o l) /\ g.faults > f.faults
    BY <1>5, <1>6
  <2>2. QED
    BY <1>1, <1>2, <2>1
<1>7. QED
  BY <1>1, <1>4, <1>6 DEF Written

(* What Record may leave of the file f: some of its cells and of the line, and
   without a failure the end of f with the whole line. *)
RecordLeaves(f, g, n) ==
  /\ g \in File /\ g.faults >= f.faults
  /\ \/ g.data = f.data
     \/ \E b \in Seq(Cell) : Part(b, f.data) /\ (g.data = b \/ Part(g.data, b \o Line(n)))
  /\ g.faults = f.faults /\ f.open =>
       /\ g.open
       /\ \E b \in Seq(Cell) : /\ EndPart(b, f.data) /\ (f.data # <<>> => b # <<>>)
                               /\ g.data = b \o Line(n)

(* What Record leaves, with a rotation or without. *)
LEMMA RecordedData ==
  ASSUME NEW f, FileOK(f), NEW n \in 1 .. MaxActions, NEW g \in Recorded(f, Line(n))
  PROVE  RecordLeaves(f, g, n) /\ (~f.open => g = f)
<1>1. f \in File /\ f.faults \in Nat /\ f.data \in Seq(Cell)
  BY AuditConstants DEF FileOK, File
<1>2. CASE ~f.open
  <2>1. g = f
    BY <1>2 DEF Recorded
  <2>2. g.faults >= f.faults
    BY ONLY <1>1, <2>1
  <2>3. QED
    BY <1>1, <1>2, <2>1, <2>2 DEF RecordLeaves
<1>3. ASSUME f.open, g \in Written(f, Line(n)) PROVE RecordLeaves(f, g, n)
  <2>1. /\ g \in File /\ Part(g.data, f.data \o Line(n)) /\ g.faults >= f.faults
        /\ g.faults = f.faults => g.open /\ g.data = f.data \o Line(n)
    BY <1>1, <1>3, WrittenData
  <2>2. Part(f.data, f.data) /\ EndPart(f.data, f.data)
    BY <1>1, PartOfItself
  <2>3. QED
    BY <1>1, <2>1, <2>2, Zenon DEF RecordLeaves
<1>4. ASSUME NEW r \in rotateLocked(f)
      PROVE  /\ r \in File /\ r.data \in Seq(Cell) /\ r.faults \in Nat
             /\ Part(r.data, f.data) /\ r.faults >= f.faults
             /\ r.faults = f.faults => r.open /\ EndPart(r.data, f.data) /\ (f.data # <<>> => r.data # <<>>)
  <2>1. PICK h \in Halved(f) : r \in Opened([h EXCEPT !.open = FALSE, !.size = 0])
    BY DEF rotateLocked
  <2> DEFINE c == [h EXCEPT !.open = FALSE, !.size = 0]
  <2>2. /\ h \in File /\ Part(h.data, f.data) /\ h.faults >= f.faults
        /\ h.faults = f.faults => EndPart(h.data, f.data) /\ (f.data # <<>> => h.data # <<>>)
    BY <1>1, HalvedData
  <2>3. /\ c \in File /\ ~c.open /\ c.size = 0
        /\ c.data = h.data /\ c.faults = h.faults
    BY <2>2 DEF File
  <2>4. r \in Opened(c)
    BY <2>1
  <2> HIDE DEF c
  <2>5. /\ r \in File /\ r.data = c.data /\ r.faults >= c.faults
        /\ r.faults = c.faults => r.open
    BY <2>3, <2>4, OpenedData
  <2>6. h.faults \in Nat /\ r.faults \in Nat /\ r.data \in Seq(Cell)
    BY <2>2, <2>5, AuditConstants DEF File
  <2>7. r.faults >= f.faults /\ (r.faults = f.faults => r.faults = h.faults /\ h.faults = f.faults)
    <3>1. r.faults >= h.faults
      BY <2>3, <2>5
    <3>2. QED
      BY ONLY <1>1, <2>2, <2>6, <3>1
  <2>8. QED
    BY <2>2, <2>3, <2>5, <2>6, <2>7
<1>5. ASSUME f.open, NEW r \in rotateLocked(f), r.open, g \in Written(r, Line(n)) PROVE RecordLeaves(f, g, n)
  <2>1. /\ r \in File /\ r.data \in Seq(Cell) /\ r.faults \in Nat
        /\ Part(r.data, f.data) /\ r.faults >= f.faults
        /\ r.faults = f.faults => r.open /\ EndPart(r.data, f.data) /\ (f.data # <<>> => r.data # <<>>)
    BY <1>4
  <2>2. /\ g \in File /\ Part(g.data, r.data \o Line(n)) /\ g.faults >= r.faults
        /\ g.faults = r.faults => g.open /\ g.data = r.data \o Line(n)
    BY <1>5, <2>1, WrittenData
  <2>3. g.faults \in Nat
    BY <2>2, AuditConstants DEF File
  <2>4. g.faults >= f.faults /\ (g.faults = f.faults => g.faults = r.faults /\ r.faults = f.faults)
    BY ONLY <1>1, <2>1, <2>2, <2>3
  <2>5. QED
    BY <2>1, <2>2, <2>4, Zenon DEF RecordLeaves
<1>6. ASSUME f.open, NEW r \in rotateLocked(f), ~r.open, g = r PROVE RecordLeaves(f, g, n)
  <2>1. /\ r \in File /\ r.data \in Seq(Cell)
        /\ Part(r.data, f.data) /\ r.faults >= f.faults
        /\ r.faults = f.faults => r.open
    BY <1>4
  <2>2. QED
    BY <1>6, <2>1, Zenon DEF RecordLeaves
<1>7. QED
  BY <1>2, <1>3, <1>5, <1>6 DEF Recorded

(* So the places are kept, and without a failure nothing is missing. *)
LEMMA RecordedPlaced ==
  ASSUME NEW V, NEW o \in Seq(V), NEW f \in File, NEW g, NEW n \in 1 .. MaxActions, n \in V,
         RecordLeaves(f, g, n)
  PROVE  /\ Placed(f.data, o) => Placed(g.data, Append(o, n))
         /\ g.faults = f.faults /\ f.open /\ Complete(f.data, o) =>
              g.open /\ Complete(g.data, Append(o, n)) /\ EndsWithLine(g.data)
<1>1. PICK s \in Seq(Cell), t \in Seq(Cell) : s = f.data /\ t = g.data
  BY DEF RecordLeaves, File
<1>2. ASSUME Placed(s, o) PROVE Placed(t, Append(o, n))
  <2>1. CASE t = s
    BY <1>2, <2>1, MorePlaced
  <2>2. ASSUME NEW b \in Seq(Cell), Part(b, s), t = b \/ Part(t, b \o Line(n))
        PROVE  Placed(t, Append(o, n))
    <3>1. Placed(b, o)
      BY <1>2, <2>2, PartPlaced
    <3>2. CASE t = b
      BY <3>1, <3>2, MorePlaced
    <3>3. CASE Part(t, b \o Line(n))
      <4> DEFINE x == b \o Line(n)
                 u == Append(o, n)
      <4>1. x \in Seq(Cell) /\ u \in Seq(V)
        BY LineFacts, Joined
      <4>2. Placed(x, u)
        BY <3>1, LinePlaced
      <4>3. Part(t, x)
        BY <3>3
      <4> HIDE DEF x, u
      <4>4. Placed(t, u)
        BY <4>1, <4>2, <4>3, PartPlaced
      <4>5. QED
        BY <4>4 DEF u
    <3>4. QED
      BY <2>2, <3>2, <3>3
  <2>3. QED
    BY <1>1, <2>1, <2>2, Zenon DEF RecordLeaves
<1>3. ASSUME g.faults = f.faults, f.open, Complete(s, o)
      PROVE  g.open /\ Complete(t, Append(o, n)) /\ EndsWithLine(t)
  <2>1. PICK b \in Seq(Cell) : EndPart(b, s) /\ t = b \o Line(n)
    BY <1>1, <1>3, Zenon DEF RecordLeaves
  <2>2. Complete(b, o)
    BY <1>3, <2>1, PartPlaced
  <2>3. Complete(t, Append(o, n)) /\ EndsWithLine(t)
    BY <2>1, <2>2, LinePlaced
  <2>4. g.open
    BY <1>3, Zenon DEF RecordLeaves
  <2>5. QED
    BY <2>3, <2>4
<1>4. QED
  BY <1>1, <1>2, <1>3, Zenon
-----------------------------------------------------------------------------
(* Every action is recorded once: its number is its own until it is recorded. *)
RecordedOnce ==
  /\ \A i, j \in 1 .. Len(order) : order[i] = order[j] => i = j
  /\ \A i \in 1 .. Len(order) : order[i] < next
  /\ \A h \in Handlers : act[h] # None =>
       /\ act[h].n < next
       /\ act[h].at = "record" =>
            /\ \A i \in 1 .. Len(order) : order[i] # act[h].n
            /\ \A g \in Handlers : g # h /\ act[g] # None => act[g].n # act[h].n

(* What is on file is in the order of recording; without a failure nothing is
   missing behind the cut of the last rotation, and the last line is whole. *)
FileInOrder(f, o) ==
  /\ Placed(f.data, o)
  /\ f.faults = 0 => f.open /\ Complete(f.data, o) /\ (o # <<>> => EndsWithLine(f.data))

(* The inductive invariant behind the properties of what the file says. *)
AInv == IInv /\ RecordedOnce /\ FileInOrder(file, order)

(* The numbers of a state, as facts. *)
LEMMA NumberFacts ==
  ASSUME IInv
  PROVE  /\ next \in Nat /\ order \in Seq(1 .. MaxActions) /\ order \in Seq(Nat) /\ Len(order) \in Nat
         /\ \A i \in 1 .. Len(order) : order[i] \in Nat
         /\ \A h \in Handlers : act[h] # None => act[h] \in Action /\ act[h].n \in 1 .. MaxActions /\ act[h].n \in Nat
         /\ file \in File /\ file.data \in Seq(Cell) /\ file.faults \in Nat /\ FileOK(file)
<1>1. MaxActions \in Nat /\ MaxFaults \in Nat
  BY AuditConstants
<1>2. next \in Nat /\ order \in Seq(1 .. MaxActions) /\ Len(order) \in Nat
  BY <1>1 DEF IInv, TypeOK
<1>3. \A i \in 1 .. Len(order) : order[i] \in 1 .. MaxActions /\ order[i] \in Nat
  BY <1>1, <1>2
<1>4. order \in Seq(Nat)
  BY <1>2, <1>3, NarrowSeq
<1>5. ASSUME NEW h \in Handlers, act[h] # None
      PROVE  act[h] \in Action /\ act[h].n \in 1 .. MaxActions /\ act[h].n \in Nat
  <2>1. act[h] \in Action
    BY <1>5 DEF IInv, TypeOK
  <2>2. act[h].n \in 1 .. MaxActions
    BY <2>1 DEF Action
  <2>3. QED
    BY <1>1, <2>1, <2>2
<1>6. file \in File /\ file.data \in Seq(Cell) /\ file.faults \in Nat /\ FileOK(file)
  BY <1>1 DEF IInv, TypeOK, File, FileOK
<1>7. QED
  BY <1>2, <1>3, <1>4, <1>5, <1>6

(* A commit takes a new number. *)
LEMMA CommitKeeps ==
  ASSUME AInv, NEW h \in Handlers, NEW kind \in Kinds, Commit(h, kind)
  PROVE  AInv'
<1>1. IInv /\ IInv'
  BY CommitStep DEF AInv
<1>2. /\ next \in Nat /\ Len(order) \in Nat
      /\ \A i \in 1 .. Len(order) : order[i] \in Nat
      /\ \A g \in Handlers : act[g] # None => act[g] \in Action /\ act[g].n \in Nat
  BY <1>1, NumberFacts
<1>3. order' = order /\ file' = file /\ next' = next + 1
  BY DEF Commit
<1>4. /\ act'[h].n = next
      /\ \A g \in Handlers \ {h} : act'[g] # None => act[g] # None /\ act'[g].n = act[g].n /\ act'[g].at = act[g].at
  <2>1. act'[h].n = next /\ \A g \in Handlers \ {h} : act'[g] = Missing(g)
    BY DEF Commit
  <2>2. QED
    BY <1>1, <2>1, MissingFacts
<1>5. /\ \A x \in Nat : x < next => x < next + 1 /\ x # next
      /\ next < next + 1
  BY <1>2
<1>6. /\ \A i, j \in 1 .. Len(order) : order[i] = order[j] => i = j
      /\ \A i \in 1 .. Len(order) : order[i] < next
      /\ \A g \in Handlers : act[g] # None =>
           /\ act[g].n < next
           /\ act[g].at = "record" =>
                /\ \A i \in 1 .. Len(order) : order[i] # act[g].n
                /\ \A f \in Handlers : f # g /\ act[f] # None => act[f].n # act[g].n
  BY DEF AInv, RecordedOnce
<1>7. \A i \in 1 .. Len(order) : order[i] < next + 1 /\ order[i] # next
  BY <1>2, <1>5, <1>6
<1>8. \A g \in Handlers : act[g] # None => act[g].n < next + 1 /\ act[g].n # next
  BY <1>2, <1>5, <1>6
<1>9. ASSUME NEW g \in Handlers, act'[g] # None
      PROVE  /\ act'[g].n < next + 1
             /\ act'[g].at = "record" =>
                  /\ \A i \in 1 .. Len(order) : order[i] # act'[g].n
                  /\ \A f \in Handlers : f # g /\ act'[f] # None => act'[f].n # act'[g].n
  <2>1. CASE g = h
    BY <1>4, <1>5, <1>7, <1>8, <2>1
  <2>2. CASE g # h
    <3>1. act[g] # None /\ act'[g].n = act[g].n /\ act'[g].at = act[g].at
      BY <1>4, <1>9, <2>2
    <3>2. ASSUME act[g].at = "record", NEW f \in Handlers, f # g, act'[f] # None PROVE act'[f].n # act'[g].n
      BY <1>4, <1>6, <1>8, <3>1, <3>2
    <3>3. QED
      BY <1>6, <1>8, <3>1, <3>2
  <2>3. QED
    BY <2>1, <2>2
<1>10. RecordedOnce'
  BY <1>3, <1>6, <1>7, <1>9, Zenon DEF RecordedOnce
<1>11. QED
  BY <1>1, <1>3, <1>10 DEF AInv

(* A change that cannot be saved takes none. *)
LEMMA CommitUnsavedKeeps ==
  ASSUME AInv, CommitUnsaved
  PROVE  AInv'
<1>1. IInv /\ IInv'
  BY CommitUnsavedStep DEF AInv
<1>2. UNCHANGED <<file, next, order>>
  BY DEF CommitUnsaved
<1>3. \A g \in Handlers : act'[g] # None => act[g] # None /\ act'[g].n = act[g].n /\ act'[g].at = act[g].at
  <2>1. \A g \in Handlers : act'[g] = Missing(g)
    BY DEF CommitUnsaved
  <2>2. QED
    BY <1>1, <2>1, MissingFacts
<1>4. RecordedOnce'
  BY <1>2, <1>3 DEF AInv, RecordedOnce
<1>5. QED
  BY <1>1, <1>2, <1>4 DEF AInv

(* Record appends the number of the action and writes its line. *)
LEMMA RecordKeeps ==
  ASSUME AInv, NEW h \in Handlers, RecordAction(h)
  PROVE  AInv'
<1>1. IInv /\ IInv'
  BY RecordStep DEF AInv
<1>2. /\ next \in Nat /\ order \in Seq(1 .. MaxActions) /\ Len(order) \in Nat
      /\ \A i \in 1 .. Len(order) : order[i] \in Nat
      /\ \A g \in Handlers : act[g] # None => act[g] \in Action /\ act[g].n \in 1 .. MaxActions /\ act[g].n \in Nat
      /\ file \in File /\ file.faults \in Nat /\ FileOK(file)
  BY <1>1, NumberFacts
<1>3. act[h] # None /\ act[h].at = "record" /\ next' = next
  BY DEF RecordAction
<1>4. /\ act'[h].n = act[h].n /\ act'[h].at = "reply"
      /\ \A g \in Handlers \ {h} : act'[g] = act[g]
  <2>1. act' = [act EXCEPT ![h] = [act[h] EXCEPT !.at = "reply"]]
    BY DEF RecordAction
  <2>2. act \in [Handlers -> Action \cup {None}] /\ act[h] \in Action
    BY <1>1, <1>2, <1>3 DEF IInv, TypeOK
  <2>3. act'[h] = [act[h] EXCEPT !.at = "reply"] /\ \A g \in Handlers \ {h} : act'[g] = act[g]
    BY <2>1, <2>2
  <2>4. QED
    BY <2>2, <2>3 DEF Action
<1>5. /\ \A i, j \in 1 .. Len(order) : order[i] = order[j] => i = j
      /\ \A i \in 1 .. Len(order) : order[i] < next
      /\ \A g \in Handlers : act[g] # None =>
           /\ act[g].n < next
           /\ act[g].at = "record" =>
                /\ \A i \in 1 .. Len(order) : order[i] # act[g].n
                /\ \A f \in Handlers : f # g /\ act[f] # None => act[f].n # act[g].n
  BY DEF AInv, RecordedOnce
<1>6. CASE Skips(h)
  <2>1. UNCHANGED <<file, order>>
    BY <1>6 DEF RecordAction
  <2>2. RecordedOnce'
    <3>1. ASSUME NEW g \in Handlers, act'[g] # None
          PROVE  /\ act'[g].n < next
                 /\ act'[g].at = "record" =>
                      /\ \A i \in 1 .. Len(order) : order[i] # act'[g].n
                      /\ \A f \in Handlers : f # g /\ act'[f] # None => act'[f].n # act'[g].n
      BY <1>3, <1>4, <1>5, <3>1
    <3>2. QED
      BY <1>3, <1>5, <2>1, <3>1, Zenon DEF RecordedOnce
  <2>3. QED
    BY <1>1, <2>1, <2>2 DEF AInv
<1>7. CASE ~Skips(h)
  <2> DEFINE n == act[h].n
             u == Append(order, n)
  <2>1. file' \in Recorded(file, Line(n)) /\ order' = u
    BY <1>7 DEF RecordAction
  <2>2. n \in 1 .. MaxActions /\ n < next
    BY <1>2, <1>3, <1>5
  <2>3. FileInOrder(file', u)
    <3>1. RecordLeaves(file, file', n) /\ (~file.open => file' = file)
      BY <1>2, <2>1, <2>2, RecordedData
    <3>2. /\ Placed(file.data, order) => Placed(file'.data, u)
          /\ file'.faults = file.faults /\ file.open /\ Complete(file.data, order) =>
               file'.open /\ Complete(file'.data, u) /\ EndsWithLine(file'.data)
      BY <1>2, <2>2, <3>1, RecordedPlaced
    <3>3. FileInOrder(file, order)
      BY DEF AInv
    <3>4. file'.faults \in Nat /\ file'.faults >= file.faults
      <4>1. file' \in File /\ file'.faults >= file.faults
        BY <3>1 DEF RecordLeaves
      <4>2. QED
        BY <4>1, AuditConstants DEF File
    <3>5. file'.faults = 0 => file.faults = 0
      BY <1>2, <3>4
    <3>6. QED
      BY <3>2, <3>3, <3>5, Zenon DEF FileInOrder
  <2>4. /\ Len(u) = Len(order) + 1 /\ \A i \in 1 .. Len(order) : u[i] = order[i]
        /\ u[Len(order) + 1] = n
    BY <1>2, <2>2, AppendProperties
  <2>5. \A i \in 1 .. Len(u) : i \in 1 .. Len(order) \/ i = Len(order) + 1
    BY <1>2, <2>4
  <2> HIDE DEF n, u
  <2>6. \A i \in 1 .. Len(order) : order[i] # n
    BY <1>3, <1>5 DEF n
  <2>7. \A i, j \in 1 .. Len(u) : u[i] = u[j] => i = j
    BY <1>5, <2>4, <2>5, <2>6
  <2>8. \A i \in 1 .. Len(u) : u[i] < next
    BY <1>5, <2>2, <2>4, <2>5
  <2>9. ASSUME NEW g \in Handlers, act'[g] # None
        PROVE  /\ act'[g].n < next
               /\ act'[g].at = "record" =>
                    /\ \A i \in 1 .. Len(u) : u[i] # act'[g].n
                    /\ \A f \in Handlers : f # g /\ act'[f] # None => act'[f].n # act'[g].n
    <3>1. CASE g = h
      BY <1>4, <2>2, <3>1 DEF n
    <3>2. CASE g # h
      <4>1. act'[g] = act[g] /\ act[g] # None
        BY <1>4, <2>9, <3>2
      <4>2. act[g].at = "record" => act[g].n # n
        BY <1>3, <1>5, <3>2, <4>1 DEF n
      <4>3. act[g].at = "record" => \A i \in 1 .. Len(u) : u[i] # act[g].n
        BY <1>5, <2>4, <2>5, <4>1, <4>2
      <4>4. ASSUME act[g].at = "record", NEW f \in Handlers, f # g, act'[f] # None PROVE act'[f].n # act[g].n
        BY <1>3, <1>4, <1>5, <4>1, <4>4
      <4>5. QED
        BY <1>5, <4>1, <4>3, <4>4
    <3>3. QED
      BY <3>1, <3>2
  <2>10. RecordedOnce'
    BY <1>3, <2>1, <2>7, <2>8, <2>9, Zenon DEF RecordedOnce
  <2>11. QED
    BY <1>1, <2>1, <2>3, <2>10 DEF AInv
<1>8. QED
  BY <1>6, <1>7

(* A reply forgets an action. *)
LEMMA ReplyKeeps ==
  ASSUME AInv, NEW h \in Handlers, Reply(h)
  PROVE  AInv'
<1>1. IInv /\ IInv'
  BY ReplyStep DEF AInv
<1>2. \A g \in Handlers : act'[g] = None \/ act'[g] = act[g]
  BY <1>1 DEF IInv, TypeOK, Reply
<1>3. UNCHANGED <<file, next, order>>
  BY DEF Reply
<1>4. RecordedOnce'
  BY <1>2, <1>3 DEF AInv, RecordedOnce
<1>5. QED
  BY <1>1, <1>3, <1>4 DEF AInv

(* A restart forgets all of them, and leaves the file as it is. *)
LEMMA RestartKeeps ==
  ASSUME AInv, Restart
  PROVE  AInv'
<1>1. IInv /\ IInv' /\ file.faults \in Nat
  BY RestartStep, NumberFacts DEF AInv
<1>2. \A g \in Handlers : act'[g] = None
  BY DEF Restart
<1>3. UNCHANGED <<next, order>>
  BY DEF Restart
<1>4. RecordedOnce'
  BY <1>2, <1>3 DEF AInv, RecordedOnce
<1> DEFINE c == [file EXCEPT !.open = FALSE, !.size = 0]
<1>5. c \in File /\ ~c.open /\ c.size = 0 /\ c.data = file.data /\ c.faults = file.faults
  BY <1>1 DEF IInv, TypeOK, File
<1>6. file' \in Opened(c)
  BY DEF Restart
<1> HIDE DEF c
<1>7. /\ file' \in File /\ file'.data = file.data /\ file'.faults >= file.faults
      /\ file'.faults = file.faults => file'.open
  BY <1>5, <1>6, OpenedData
<1>8. file'.faults = 0 => file.faults = 0
  <2>1. file'.faults \in Nat
    BY <1>7, AuditConstants DEF File
  <2>2. QED
    BY <1>1, <1>7, <2>1
<1>9. FileInOrder(file, order)'
  BY <1>3, <1>7, <1>8 DEF AInv, FileInOrder
<1>10. QED
  BY <1>1, <1>4, <1>9 DEF AInv

(* The invariant of the numbers and of the places of the cells. *)
THEOREM AuditInvariant == Spec => []AInv
<1>1. Init => AInv
  <2> SUFFICES ASSUME Init PROVE AInv
    OBVIOUS
  <2>1. IInv
    BY AuditStarts
  <2>2. order = <<>> /\ Len(order) = 0 /\ file.data = <<>> /\ Len(file.data) = 0 /\ file.open
    BY DEF Init
  <2>3. \A h \in Handlers : act[h] = None
    BY DEF Init
  <2>4. RecordedOnce
    BY <2>2, <2>3 DEF RecordedOnce
  <2>5. Places(<<>>, <<>>, <<>>) /\ Unbroken(<<>>, <<>>, <<>>)
    BY DEF Places, Unbroken
  <2>6. FileInOrder(file, order)
    BY <2>2, <2>5 DEF FileInOrder, Placed, Complete
  <2>7. QED
    BY <2>1, <2>4, <2>6 DEF AInv
<1>2. AInv /\ [Next]_vars => AInv'
  <2> SUFFICES ASSUME AInv, [Next]_vars PROVE AInv'
    OBVIOUS
  <2>1. CASE UNCHANGED vars
    <3>1. IInv'
      BY <2>1 DEF AInv, IInv, TypeOK, SizeOK, MissedSeen, AckedRecorded, vars
    <3>2. QED
      BY <2>1, <3>1 DEF AInv, RecordedOnce, vars
  <2>2. CASE Next
    BY <2>2, CommitKeeps, CommitUnsavedKeeps, RecordKeeps, ReplyKeeps, RestartKeeps DEF Next
  <2>3. QED
    BY <2>1, <2>2
<1>3. QED
  BY <1>1, <1>2, PTL DEF Spec
-----------------------------------------------------------------------------
(* Where nothing is missing, the first cell of a line is followed by the others. *)
LEMMA ChainLine ==
  ASSUME NEW s \in Seq(Cell), NEW o, NEW p, Places(s, o, p), Unbroken(s, o, p),
         NEW q \in 1 .. Len(s), s[q].k = 1
  PROVE  \A j \in 0 .. LineLen - 1 : q + j \in 1 .. Len(s) /\ p[q + j] = p[q] /\ s[q + j].k = j + 1
<1>1. PICK N \in Nat : N = LineLen - 1 /\ N + 1 = LineLen
  BY AuditConstants
<1>2. Len(s) \in Nat /\ q \in Nat /\ q + 0 = q /\ 0 + 1 = 1
  OBVIOUS
<1> DEFINE S == {j \in 0 .. N : q + j \in 1 .. Len(s) /\ p[q + j] = p[q] /\ s[q + j].k = j + 1}
<1>3. 0 \in S
  <2>1. 0 \in 0 .. N
    BY <1>1
  <2>2. QED
    BY <1>2, <2>1
<1>4. ASSUME NEW j \in 0 .. N, j \in S, j < N PROVE j + 1 \in S
  <2>1. q + j \in 1 .. Len(s) /\ p[q + j] = p[q] /\ s[q + j].k = j + 1
    BY <1>4
  <2>2. j \in Nat /\ j + 1 # LineLen /\ j + 1 \in 0 .. N /\ (q + j) + 1 = q + (j + 1)
    BY <1>1, <1>2, <1>4
  <2>3. IF q + j = Len(s) THEN p[q + j] = Len(o) /\ s[q + j].k = LineLen
        ELSE \/ p[(q + j) + 1] = p[q + j] /\ s[(q + j) + 1].k = s[q + j].k + 1
             \/ p[(q + j) + 1] = p[q + j] + 1 /\ s[q + j].k = LineLen /\ s[(q + j) + 1].k = 1
    BY <2>1 DEF Unbroken
  <2>4. q + j # Len(s) /\ p[q + (j + 1)] = p[q] /\ s[q + (j + 1)].k = (j + 1) + 1
    BY <2>1, <2>2, <2>3, Zenon
  <2>5. q + (j + 1) \in 1 .. Len(s)
    <3>1. q + j \in 1 .. Len(s) /\ q + j # Len(s)
      BY <2>1, <2>4
    <3>2. QED
      BY ONLY <1>2, <2>2, <3>1
  <2>6. QED
    BY <2>2, <2>4, <2>5
<1>5. 0 .. N \subseteq S
  <2> HIDE DEF S
  <2>1. QED
    BY <1>3, <1>4, BoundedInduction
<1>6. QED
  BY <1>1, <1>5

(* So it begins a whole line, which ends with its newline. *)
LEMMA ChainWhole ==
  ASSUME NEW s \in Seq(Cell), NEW o, NEW p, Places(s, o, p), Unbroken(s, o, p),
         NEW q \in 1 .. Len(s), s[q].k = 1
  PROVE  /\ q \in WholeLines(s) /\ q + (LineLen - 1) \in 1 .. Len(s)
         /\ p[q + (LineLen - 1)] = p[q] /\ s[q + (LineLen - 1)].k = LineLen
<1>1. LineLen \in Nat /\ LineLen >= 2 /\ Len(s) \in Nat /\ q \in Nat /\ q >= 1
  BY AuditConstants
<1>2. \A j \in 0 .. LineLen - 1 : q + j \in 1 .. Len(s) /\ p[q + j] = p[q] /\ s[q + j].k = j + 1
  BY ChainLine
<1>3. LineLen - 1 \in 0 .. LineLen - 1 /\ (LineLen - 1) + 1 = LineLen
  BY <1>1
<1>4. q + (LineLen - 1) \in 1 .. Len(s) /\ p[q + (LineLen - 1)] = p[q] /\ s[q + (LineLen - 1)].k = LineLen
  BY <1>2, <1>3
<1>5. ASSUME NEW j \in 1 .. LineLen - 1 PROVE s[q + j - 1] = [n |-> s[q].n, k |-> j]
  <2>1. j - 1 \in 0 .. LineLen - 1 /\ q + (j - 1) = q + j - 1 /\ (j - 1) + 1 = j
    BY <1>1
  <2>2. q + j - 1 \in 1 .. Len(s) /\ p[q + j - 1] = p[q] /\ s[q + j - 1].k = j
    BY <1>2, <2>1
  <2>3. s[q + j - 1].n = s[q].n
    <3>1. \A i \in 1 .. Len(s) : s[i].n = o[p[i]]
      BY DEF Places
    <3>2. s[q + j - 1].n = o[p[q + j - 1]] /\ s[q].n = o[p[q]]
      BY <2>2, <3>1, Zenon
    <3>3. QED
      BY <2>2, <3>2, Zenon
  <2>4. s[q + j - 1] \in Cell
    BY <2>2
  <2>5. s[q + j - 1] = [n |-> s[q + j - 1].n, k |-> s[q + j - 1].k]
    BY <2>4, AuditCellFacts
  <2>6. QED
    BY <2>2, <2>3, <2>5, Zenon
<1>6. Begins(s, q)
  <2>1. CASE q = 1
    BY <2>1 DEF Begins
  <2>2. CASE q # 1
    <3>1. q - 1 \in 1 .. Len(s) /\ q - 1 # Len(s) /\ (q - 1) + 1 = q
      BY <1>1, <2>2
    <3>2. \/ p[q] = p[q - 1] /\ s[q].k = s[q - 1].k + 1
          \/ p[q] = p[q - 1] + 1 /\ s[q - 1].k = LineLen /\ s[q].k = 1
      <4>1. IF q - 1 = Len(s) THEN p[q - 1] = Len(o) /\ s[q - 1].k = LineLen
            ELSE \/ p[(q - 1) + 1] = p[q - 1] /\ s[(q - 1) + 1].k = s[q - 1].k + 1
                 \/ p[(q - 1) + 1] = p[q - 1] + 1 /\ s[q - 1].k = LineLen /\ s[(q - 1) + 1].k = 1
        BY <3>1 DEF Unbroken
      <4>2. p[(q - 1) + 1] = p[q] /\ s[(q - 1) + 1] = s[q]
        BY <3>1
      <4>3. QED
        BY <3>1, <4>1, <4>2, Zenon
    <3>3. s[q - 1] \in Cell
      BY <3>1
    <3>4. s[q - 1].k \in 1 .. LineLen
      BY <3>3, AuditCellFacts
    <3>5. \A x \in 1 .. LineLen : x + 1 # 1
      BY <1>1
    <3>6. s[q - 1].k = LineLen
      BY <3>2, <3>4, <3>5, Zenon
    <3>7. QED
      BY <3>6 DEF Begins
  <2>3. QED
    BY <2>1, <2>2
<1>7. q + (LineLen - 1) <= Len(s) + 1 /\ q \in 1 .. Len(s) + 1
  BY <1>1, <1>4
<1>8. QED
  BY <1>4, <1>5, <1>6, <1>7 DEF WholeLines, Whole

(* Two lists that are read alike. *)
LEMMA SuffixMeans ==
  ASSUME NEW V, NEW t \in Seq(V), NEW s \in Seq(V), EndPart(t, s)
  PROVE  IsSuffix(t, s)
<1>1. PICK m \in 0 .. Len(s) : m + Len(t) = Len(s) /\ \A i \in 1 .. Len(t) : t[i] = s[m + i]
  BY DEF EndPart
<1> DEFINE x == Reverse(t)
           y == Reverse(s)
<1>2. Len(s) \in Nat /\ Len(t) \in Nat /\ Len(t) <= Len(s) /\ m \in Nat
  BY <1>1
<1>3. /\ \A i \in 1 .. Len(t) : (Len(t) - i) + 1 \in 1 .. Len(t) /\ i \in 1 .. Len(s)
                                /\ m + ((Len(t) - i) + 1) = (Len(s) - i) + 1
      /\ \A i \in 1 .. Len(s) : (Len(s) - i) + 1 \in 1 .. Len(s)
  BY <1>1, <1>2
<1>4. x = [i \in 1 .. Len(t) |-> t[(Len(t) - i) + 1]] /\ y = [i \in 1 .. Len(s) |-> s[(Len(s) - i) + 1]]
  BY DEF Reverse
<1>5. x \in Seq(V) /\ Len(x) = Len(t)
  <2>1. x \in [1 .. Len(t) -> V]
    BY <1>3, <1>4
  <2>2. QED
    BY ONLY <1>2, <2>1
<1>6. y \in Seq(V) /\ Len(y) = Len(s)
  <2>1. y \in [1 .. Len(s) -> V]
    BY <1>3, <1>4
  <2>2. QED
    BY ONLY <1>2, <2>1
<1>7. \A i \in 1 .. Len(t) : x[i] = y[i]
  <2>1. ASSUME NEW i \in 1 .. Len(t) PROVE x[i] = y[i]
    <3>1. x[i] = t[(Len(t) - i) + 1]
      BY <1>4
    <3>2. y[i] = s[(Len(s) - i) + 1]
      BY <1>3, <1>4
    <3>3. QED
      BY <1>1, <1>3, <3>1, <3>2
  <2>2. QED
    BY <2>1
<1> HIDE DEF x, y
<1>8. SubSeq(x, 1, Len(x)) = SubSeq(y, 1, Len(x))
  <2>1. SubSeq(x, 1, Len(x)) = x
    BY <1>5, SubSeqFull
  <2>2. Len(x) \in 0 .. Len(y) /\ 0 \in 0 .. Len(y) /\ 0 + 1 = 1
    BY <1>2, <1>5, <1>6
  <2> DEFINE z == SubSeq(y, 1, Len(x))
  <2>3. /\ SubSeq(y, 0 + 1, Len(x)) \in Seq(V)
        /\ Len(SubSeq(y, 0 + 1, Len(x))) = IF 0 <= Len(x) THEN Len(x) - 0 ELSE 0
        /\ \A i \in 1 .. Len(x) - 0 : SubSeq(y, 0 + 1, Len(x))[i] = y[0 + i]
    BY <1>6, <2>2, Stretch
  <2>4. SubSeq(y, 0 + 1, Len(x)) = z
    BY <2>2
  <2> HIDE DEF z
  <2>5. z \in Seq(V) /\ Len(z) = Len(x) /\ \A i \in 1 .. Len(x) : z[i] = y[i]
    BY <1>2, <1>5, <2>3, <2>4
  <2>6. x = z
    <3>1. \A i \in 1 .. Len(x) : x[i] = z[i]
      BY <1>5, <1>7, <2>5
    <3>2. QED
      BY <1>5, <2>5, <3>1, SeqEqual
  <2>7. QED
    BY <2>1, <2>6 DEF z
<1>9. IsPrefix(x, y)
  BY <1>2, <1>5, <1>6, <1>8 DEF IsPrefix
<1>10. QED
  BY <1>9 DEF IsSuffix, x, y

(* A set of positions that has, with one, the one behind it is the end of a
   sequence: what lists it lists that end. *)
LEMMA UpwardEnd ==
  ASSUME NEW V, NEW o \in Seq(V), NEW e \in Seq(V), NEW f, Lists(f, Len(e)),
         \A m \in 1 .. Len(e) : f[m] \in 1 .. Len(o) /\ e[m] = o[f[m]],
         \A m \in 1 .. Len(e) : f[m] < Len(o) => \E i \in 1 .. Len(e) : f[i] = f[m] + 1
  PROVE  EndPart(e, o)
<1>1. PICK a \in Nat, z \in Nat : a = Len(e) /\ z = Len(o)
  OBVIOUS
<1>2. CASE a = 0
  <2>1. z \in 0 .. z /\ z + 0 = z /\ \A i \in 1 .. 0 : FALSE
    BY <1>1
  <2>2. QED
    BY <1>1, <1>2, <2>1 DEF EndPart
<1>3. CASE a # 0
  <2>1. 1 \in 1 .. a
    BY <1>3
  <2>2. PICK x \in Nat : x = f[1] /\ x >= 1 /\ x <= z
    BY <1>1, <2>1
  <2>3. PICK N \in Nat : N = z - x
    BY <2>2
  <2> DEFINE S == {j \in 0 .. N : \E i \in 1 .. a : f[i] = x + j}
  <2>4. 0 .. N \subseteq S
    <3>1. 0 \in S
      <4>1. 0 \in 0 .. N /\ x + 0 = x
        BY <2>2, <2>3
      <4>2. QED
        BY <2>1, <2>2, <4>1
    <3>2. ASSUME NEW j \in 0 .. N, j \in S, j < N PROVE j + 1 \in S
      <4>1. PICK m \in 1 .. a : f[m] = x + j
        BY <3>2
      <4>2. j + 1 \in 0 .. N /\ x + j < z /\ (x + j) + 1 = x + (j + 1)
        BY ONLY x \in Nat, z \in Nat, N \in Nat, <2>3, j \in 0 .. N, <3>2
      <4>3. PICK i \in 1 .. a : f[i] = f[m] + 1
        <5>1. f[m] < z
          BY <4>1, <4>2
        <5>2. QED
          BY <1>1, <5>1
      <4>4. f[i] = x + (j + 1)
        BY <4>1, <4>2, <4>3
      <4>5. QED
        BY <4>2, <4>4
    <3>3. QED
      <4> HIDE DEF S
      <4>1. QED
        BY <3>1, <3>2, BoundedInduction
  <2>5. \A m \in 1 .. a : f[m] \in Nat /\ f[m] >= x /\ f[m] <= z
    <3>1. ASSUME NEW m \in 1 .. a PROVE f[m] \in Nat /\ f[m] >= x /\ f[m] <= z
      <4>1. f[m] \in 1 .. z
        BY <1>1
      <4>2. f[m] \in Nat /\ f[m] <= z
        BY <1>1, <4>1
      <4>3. m = 1 \/ 1 < m
        BY <1>1
      <4>4. 1 < m => f[1] < f[m]
        BY <1>1, <2>1 DEF Lists
      <4>5. m = 1 => f[m] >= x
        BY <2>2
      <4>6. QED
        BY <2>2, <4>2, <4>3, <4>4, <4>5
    <3>2. QED
      BY <3>1
  <2> DEFINE g == [i \in 1 .. N + 1 |-> (x - 1) + i]
  <2>6. Lists(g, N + 1)
    <3>1. \A i \in 1 .. N + 1 : (x - 1) + i \in Nat
      BY <2>2, <2>3
    <3>2. \A i, j \in 1 .. N + 1 : i < j => (x - 1) + i < (x - 1) + j
      BY <2>2, <2>3
    <3>3. QED
      BY <3>1, <3>2 DEF Lists
  <2>7. \A i \in 1 .. N + 1 : g[i] = (x - 1) + i
    OBVIOUS
  <2>8. Covers(g, N + 1, f, a)
    <3>1. ASSUME NEW m \in 1 .. a PROVE \E i \in 1 .. N + 1 : g[i] = f[m]
      <4>1. \A y \in Nat : y >= x /\ y <= z => y - (x - 1) \in 1 .. N + 1 /\ (x - 1) + (y - (x - 1)) = y
        BY <2>2, <2>3
      <4>2. f[m] - (x - 1) \in 1 .. N + 1 /\ (x - 1) + (f[m] - (x - 1)) = f[m]
        BY <2>5, <4>1
      <4>3. QED
        BY <2>7, <4>2
    <3>2. QED
      BY <3>1 DEF Covers
  <2>9. Covers(f, a, g, N + 1)
    <3>1. ASSUME NEW i \in 1 .. N + 1 PROVE \E m \in 1 .. a : f[m] = g[i]
      <4>1. i - 1 \in 0 .. N /\ x + (i - 1) = (x - 1) + i
        BY <2>2, <2>3
      <4>2. \E m \in 1 .. a : f[m] = x + (i - 1)
        BY <2>4, <4>1
      <4>3. QED
        BY <2>7, <4>1, <4>2
    <3>2. QED
      BY <3>1 DEF Covers
  <2> HIDE DEF g
  <2>10. a = N + 1 /\ \A i \in 1 .. a : f[i] = g[i]
    <3>1. N + 1 \in Nat /\ Lists(f, a)
      BY <1>1, <2>3
    <3>2. QED
      BY <1>1, <2>6, <2>8, <2>9, <3>1, SameLists
  <2>11. x - 1 \in 0 .. z /\ (x - 1) + a = z
    <3>1. x >= 1 /\ x <= z /\ N = z - x /\ a = N + 1
      BY <2>2, <2>3, <2>10
    <3>2. QED
      BY ONLY x \in Nat, z \in Nat, N \in Nat, <3>1
  <2>12. \A i \in 1 .. a : e[i] = o[(x - 1) + i]
    <3>1. \A i \in 1 .. a : i \in 1 .. N + 1
      BY <2>10
    <3>2. \A i \in 1 .. a : f[i] = (x - 1) + i
      BY <2>7, <2>10, <3>1, Zenon
    <3>3. \A i \in 1 .. a : e[i] = o[f[i]]
      BY <1>1
    <3>4. QED
      BY <3>2, <3>3, Zenon
  <2>13. QED
    BY <1>1, <2>11, <2>12 DEF EndPart
<1>4. QED
  BY <1>2, <1>3

(* The numbers of the lines on file, and where their actions stand in the order of
   recording. *)
LEMMA OnFilePlaces ==
  ASSUME NEW s \in Seq(Cell), NEW o \in Seq(1 .. MaxActions), NEW p, Places(s, o, p),
         NEW e \in Seq(1 .. MaxActions), NEW h, Reads(e, s, WholeLines(s), h),
         NEW f, f = [m \in 1 .. Len(e) |-> p[h[m]]]
  PROVE  /\ Lists(f, Len(e)) /\ f \in [1 .. Len(e) -> 1 .. Len(o)]
         /\ \A m \in 1 .. Len(e) : h[m] \in 1 .. Len(s) /\ s[h[m]].k = 1 /\ f[m] = p[h[m]] /\ e[m] = o[f[m]]
<1>1. Len(s) \in Nat /\ Len(o) \in Nat /\ Len(e) \in Nat
  OBVIOUS
<1>2. /\ h \in [1 .. Len(e) -> Nat] /\ \A i, j \in 1 .. Len(e) : i < j => h[i] < h[j]
      /\ \A m \in 1 .. Len(e) : h[m] \in WholeLines(s) /\ e[m] = s[h[m]].n
  BY DEF Reads, Lists
<1>3. \A m \in 1 .. Len(e) : h[m] \in 1 .. Len(s) /\ s[h[m]].k = 1
  BY <1>2, WholeFirst
<1>4. /\ p \in [1 .. Len(s) -> 1 .. Len(o)]
      /\ \A i \in 1 .. Len(s) : s[i].n = o[p[i]]
      /\ \A i, j \in 1 .. Len(s) : i < j => p[i] < p[j] \/ (p[i] = p[j] /\ s[i].k < s[j].k)
  BY DEF Places
<1>5. \A m \in 1 .. Len(e) : f[m] = p[h[m]] /\ f[m] \in 1 .. Len(o)
  BY <1>3, <1>4
<1>6. f \in [1 .. Len(e) -> 1 .. Len(o)] /\ f \in [1 .. Len(e) -> Nat]
  BY <1>1, <1>5
<1>7. \A m \in 1 .. Len(e) : e[m] = o[f[m]]
  <2>1. \A m \in 1 .. Len(e) : s[h[m]].n = o[p[h[m]]]
    BY <1>3, <1>4, Zenon
  <2>2. QED
    BY <1>2, <1>5, <2>1, Zenon
<1>8. ASSUME NEW i \in 1 .. Len(e), NEW j \in 1 .. Len(e), i < j PROVE f[i] < f[j]
  <2>1. h[i] < h[j]
    BY <1>2, <1>8
  <2>2. p[h[i]] < p[h[j]] \/ (p[h[i]] = p[h[j]] /\ s[h[i]].k < s[h[j]].k)
    BY <1>3, <1>4, <2>1, Zenon
  <2>3. ~(s[h[i]].k < s[h[j]].k)
    BY <1>3
  <2>4. QED
    BY <1>5, <2>2, <2>3, Zenon
<1>9. QED
  BY <1>3, <1>5, <1>6, <1>7, <1>8 DEF Lists

(* What is on file has an entry for every line that is whole. *)
LEMMA OnFileFacts ==
  ASSUME file.data \in Seq(Cell)
  PROVE  /\ OnFile \in Seq(1 .. MaxActions) /\ ReadsAt(OnFile, file.data, WholeLines(file.data))
         /\ Range(OnFile) = {OnFile[m] : m \in 1 .. Len(OnFile)}
<1>1. OnFile \in Seq(1 .. MaxActions) /\ ReadsAt(OnFile, file.data, WholeLines(file.data))
  BY FileEntries DEF OnFile
<1>2. DOMAIN OnFile = 1 .. Len(OnFile)
  BY <1>1
<1>3. QED
  BY <1>1, <1>2 DEF Range

(* Where nothing is missing, the lines on file are the last ones recorded. *)
LEMMA CompleteSuffix ==
  ASSUME NEW s \in Seq(Cell), NEW o \in Seq(1 .. MaxActions), Complete(s, o),
         NEW e \in Seq(1 .. MaxActions), ReadsAt(e, s, WholeLines(s))
  PROVE  IsSuffix(e, o) /\ (EndsWithLine(s) => e # <<>>)
<1>1. PICK p : Places(s, o, p) /\ Unbroken(s, o, p)
  BY DEF Complete
<1>2. PICK h : Reads(e, s, WholeLines(s), h)
  BY DEF ReadsAt
<1>3. PICK f : f = [m \in 1 .. Len(e) |-> p[h[m]]]
  OBVIOUS
<1>4. /\ Lists(f, Len(e)) /\ f \in [1 .. Len(e) -> 1 .. Len(o)]
      /\ \A m \in 1 .. Len(e) : h[m] \in 1 .. Len(s) /\ s[h[m]].k = 1 /\ f[m] = p[h[m]] /\ e[m] = o[f[m]]
  BY <1>1, <1>2, <1>3, OnFilePlaces
<1>5. \A q \in WholeLines(s) : \E m \in 1 .. Len(e) : h[m] = q
  BY <1>2 DEF Reads
<1>6. LineLen \in Nat /\ LineLen >= 2 /\ Len(s) \in Nat /\ Len(o) \in Nat
  BY AuditConstants
<1>7. ASSUME NEW m \in 1 .. Len(e), f[m] < Len(o) PROVE \E i \in 1 .. Len(e) : f[i] = f[m] + 1
  <2>1. PICK q \in 1 .. Len(s) : q = h[m] /\ s[q].k = 1 /\ f[m] = p[q]
    BY <1>4
  <2>2. PICK r \in 1 .. Len(s) : r = q + (LineLen - 1) /\ p[r] = p[q] /\ s[r].k = LineLen
    <3>1. /\ q + (LineLen - 1) \in 1 .. Len(s) /\ p[q + (LineLen - 1)] = p[q]
          /\ s[q + (LineLen - 1)].k = LineLen
      BY <1>1, <2>1, ChainWhole
    <3>2. QED
      BY <3>1, Zenon
  <2>3. IF r = Len(s) THEN p[r] = Len(o) /\ s[r].k = LineLen
        ELSE \/ p[r + 1] = p[r] /\ s[r + 1].k = s[r].k + 1
             \/ p[r + 1] = p[r] + 1 /\ s[r].k = LineLen /\ s[r + 1].k = 1
    BY <1>1 DEF Unbroken
  <2>4. r # Len(s)
    <3>1. p[q] # Len(o)
      <4>1. p[q] \in 1 .. Len(o)
        BY <1>4, <2>1
      <4>2. \A x \in 1 .. Len(o) : x < Len(o) => x # Len(o)
        BY <1>6
      <4>3. QED
        BY <1>7, <2>1, <4>1, <4>2
    <3>2. QED
      BY <2>2, <2>3, <3>1
  <2>5. r + 1 \in 1 .. Len(s)
    BY <1>6, <2>4
  <2>6. s[r + 1] \in Cell
    BY <2>5
  <2>7. s[r + 1].k \in 1 .. LineLen
    BY <2>6, AuditCellFacts
  <2>8. \A x \in 1 .. LineLen : x # LineLen + 1
    BY <1>6
  <2>9. p[r + 1] = f[m] + 1 /\ s[r + 1].k = 1
    BY <2>1, <2>2, <2>3, <2>4, <2>7, <2>8, Zenon
  <2>10. r + 1 \in WholeLines(s)
    BY <1>1, <2>5, <2>9, ChainWhole
  <2>11. PICK i \in 1 .. Len(e) : h[i] = r + 1
    BY <1>5, <2>10
  <2>12. QED
    BY <1>4, <2>9, <2>11
<1>8. EndPart(e, o)
  BY <1>4, <1>7, UpwardEnd
<1>9. IsSuffix(e, o)
  BY <1>8, SuffixMeans
<1>10. ASSUME EndsWithLine(s) PROVE e # <<>>
  <2>1. PICK q \in 1 .. Len(s) : s[q].k = 1
    BY <1>10 DEF EndsWithLine
  <2>2. q \in WholeLines(s)
    BY <1>1, <2>1, ChainWhole
  <2>3. PICK m \in 1 .. Len(e) : h[m] = q
    BY <1>5, <2>2
  <2>4. QED
    BY <2>3
<1>11. QED
  BY <1>9, <1>10

(* What the file says of the actions. *)
LEMMA DurableFromPlaces ==
  ASSUME AInv
  PROVE  AuditDurable
<1>1. PICK s \in Seq(Cell), o \in Seq(1 .. MaxActions) : s = file.data /\ o = order
  BY NumberFacts DEF AInv
<1>2. PICK e \in Seq(1 .. MaxActions) : e = OnFile /\ ReadsAt(e, s, WholeLines(s))
  BY <1>1, OnFileFacts
<1>3. Placed(s, o) /\ (file.faults = 0 => Complete(s, o) /\ (o # <<>> => EndsWithLine(s)))
  BY <1>1 DEF AInv, FileInOrder
<1>4. PICK p : Places(s, o, p)
  BY <1>3 DEF Placed
<1>5. PICK h : Reads(e, s, WholeLines(s), h)
  BY <1>2 DEF ReadsAt
<1>6. PICK f : f = [m \in 1 .. Len(e) |-> p[h[m]]]
  OBVIOUS
<1>7. /\ Lists(f, Len(e)) /\ f \in [1 .. Len(e) -> 1 .. Len(o)]
      /\ \A m \in 1 .. Len(e) : e[m] = o[f[m]]
  BY <1>4, <1>5, <1>6, OnFilePlaces
<1>8. \A i, j \in 1 .. Len(e) : i < j => f[i] < f[j]
  BY <1>7 DEF Lists
<1>9. \A i, j \in 1 .. Len(o) : o[i] = o[j] => i = j
  BY <1>1 DEF AInv, RecordedOnce
<1> DEFINE S == Range(e)
<1>10. \A x : x \in S <=> \E i \in 1 .. Len(e) : e[i] = x
  <2>1. DOMAIN e = 1 .. Len(e)
    OBVIOUS
  <2>2. QED
    BY <2>1 DEF Range
<1> HIDE DEF S
<1>11. Keep(o, S) = e
  <2> DEFINE V == 1 .. MaxActions
  <2>1. o \in Seq(V) /\ e \in Seq(V)
    OBVIOUS
  <2> HIDE DEF V
  <2>2. QED
    BY ONLY <1>7, <1>8, <1>9, <1>10, <2>1, KeepOrdered
<1>12. OnFile = Keep(order, Range(OnFile))
  BY <1>1, <1>2, <1>11, Zenon DEF S
<1>13. file.faults = 0 => IsSuffix(OnFile, order) /\ (order # <<>> => OnFile # <<>>)
  BY <1>1, <1>2, <1>3, CompleteSuffix, Zenon
<1>14. QED
  BY <1>12, <1>13 DEF AuditDurable

(* "leave a durable record": whatever fails, and however the handlers interleave
   and the process restarts, each action is on file at most once and the file is
   in the order of the calls of Record; and as long as nothing fails the file has
   every action recorded since the cut of the last rotation, the last included. *)
THEOREM AuditIsDurable == Spec => []AuditDurable
<1>1. AInv => AuditDurable
  BY DurableFromPlaces
<1>2. QED
  BY AuditInvariant, <1>1, PTL

(* No cell is twice on file. *)
LEMMA CellOnce ==
  ASSUME NEW s \in Seq(Cell), NEW o, NEW p, Places(s, o, p),
         \A i, j \in 1 .. Len(o) : o[i] = o[j] => i = j,
         NEW a \in 1 .. Len(s), NEW b \in 1 .. Len(s), s[a] = s[b]
  PROVE  a = b
<1>1. Len(s) \in Nat /\ a \in Nat /\ b \in Nat
  OBVIOUS
<1>2. /\ p \in [1 .. Len(s) -> 1 .. Len(o)]
      /\ \A i \in 1 .. Len(s) : s[i].n = o[p[i]]
      /\ \A i, j \in 1 .. Len(s) : i < j => p[i] < p[j] \/ (p[i] = p[j] /\ s[i].k < s[j].k)
  BY DEF Places
<1>3. p[a] \in 1 .. Len(o) /\ p[b] \in 1 .. Len(o) /\ o[p[a]] = o[p[b]]
  BY <1>2, Zenon
<1>4. p[a] = p[b]
  BY <1>3
<1>5. s[a] \in Cell
  OBVIOUS
<1>6. PICK x \in Nat, y \in Int : x = s[a].k /\ y = p[a]
  <2>1. s[a].k \in Nat
    BY <1>5, AuditCellFacts
  <2>2. p[a] \in Int
    BY <1>3
  <2>3. QED
    BY <2>1, <2>2
<1>7. ~(x < x) /\ ~(y < y)
  OBVIOUS
<1>8. ~(a < b) /\ ~(b < a)
  BY <1>2, <1>4, <1>6, <1>7, Zenon
<1>9. QED
  BY <1>1, <1>8

(* Choosing the entries of the lines that begin in the window is choosing the
   lines. *)
LEMMA WindowKeeps ==
  ASSUME NEW s \in Seq(Cell), NEW e \in Seq(1 .. MaxActions), NEW h, Reads(e, s, WholeLines(s), h),
         NEW o \in Nat, NEW S, \A m \in 1 .. Len(e) : e[m] \in S <=> h[m] > o
  PROVE  Keep(e, S) \in Seq(1 .. MaxActions) /\ ReadsAt(Keep(e, S), s, {q \in WholeLines(s) : q > o})
<1> DEFINE V == 1 .. MaxActions
           t == Keep(e, S)
           W == {q \in WholeLines(s) : q > o}
<1>1. t \in Seq(V) /\ Picked(t, e, S, Len(e))
  <2>1. e \in Seq(V)
    OBVIOUS
  <2> HIDE DEF V
  <2>2. QED
    BY <2>1, KeepFacts
<1> HIDE DEF t
<1>2. PICK g : Picks(t, e, S, Len(e), g)
  BY <1>1 DEF Picked
<1>3. Len(t) \in Nat /\ Len(e) \in Nat
  BY <1>1
<1>4. /\ g \in [1 .. Len(t) -> 1 .. Len(e)]
      /\ \A i, j \in 1 .. Len(t) : i < j => g[i] < g[j]
      /\ \A i \in 1 .. Len(t) : t[i] = e[g[i]] /\ t[i] \in S
      /\ \A j \in 1 .. Len(e) : e[j] \in S => \E i \in 1 .. Len(t) : g[i] = j
  BY <1>2 DEF Picks
<1>5. /\ h \in [1 .. Len(e) -> Nat] /\ \A i, j \in 1 .. Len(e) : i < j => h[i] < h[j]
      /\ \A m \in 1 .. Len(e) : h[m] \in WholeLines(s) /\ e[m] = s[h[m]].n
      /\ \A q \in WholeLines(s) : \E m \in 1 .. Len(e) : h[m] = q
  BY DEF Reads, Lists
<1> DEFINE r == [i \in 1 .. Len(t) |-> h[g[i]]]
<1>6. \A i \in 1 .. Len(t) : g[i] \in 1 .. Len(e) /\ r[i] = h[g[i]] /\ r[i] \in Nat
  BY <1>4, <1>5
<1>7. r \in [1 .. Len(t) -> Nat]
  BY <1>6
<1> HIDE DEF r
<1>8. \A i, j \in 1 .. Len(t) : i < j => r[i] < r[j]
  <2>1. ASSUME NEW i \in 1 .. Len(t), NEW j \in 1 .. Len(t), i < j PROVE r[i] < r[j]
    <3>1. g[i] < g[j]
      BY <1>4, <2>1, Zenon
    <3>2. h[g[i]] < h[g[j]]
      BY <1>5, <1>6, <3>1, Zenon
    <3>3. QED
      BY <1>6, <3>2, Zenon
  <2>2. QED
    BY <2>1
<1>9. ASSUME NEW i \in 1 .. Len(t) PROVE r[i] \in W /\ t[i] = s[r[i]].n
  <2>1. e[g[i]] \in S /\ t[i] = e[g[i]]
    BY <1>4, Zenon
  <2>2. h[g[i]] > o /\ h[g[i]] \in WholeLines(s) /\ e[g[i]] = s[h[g[i]]].n
    BY <1>5, <1>6, <2>1, Zenon
  <2>3. QED
    BY <1>6, <2>1, <2>2, Zenon
<1>10. ASSUME NEW q \in W PROVE \E i \in 1 .. Len(t) : r[i] = q
  <2>1. PICK m \in 1 .. Len(e) : h[m] = q
    BY <1>5
  <2>2. e[m] \in S
    BY <2>1
  <2>3. PICK i \in 1 .. Len(t) : g[i] = m
    BY <1>4, <2>2
  <2>4. QED
    BY <1>6, <2>1, <2>3
<1> HIDE DEF W
<1>11. Reads(t, s, W, r)
  BY <1>7, <1>8, <1>9, <1>10, Zenon DEF Reads, Lists
<1>12. QED
  BY <1>1, <1>11 DEF ReadsAt, t, W

(* What Recent reads. *)
LEMMA ExactFromPlaces ==
  ASSUME AInv
  PROVE  RecentExact
<1>1. PICK s \in Seq(Cell), o \in Seq(1 .. MaxActions) : s = file.data /\ o = order
  BY NumberFacts DEF AInv
<1>2. PICK e \in Seq(1 .. MaxActions) : e = OnFile /\ ReadsAt(e, s, WholeLines(s))
  BY <1>1, OnFileFacts
<1>3. PICK h : Reads(e, s, WholeLines(s), h)
  BY <1>2 DEF ReadsAt
<1>4. PICK p : Places(s, o, p)
  BY <1>1 DEF AInv, FileInOrder, Placed
<1>5. \A i, j \in 1 .. Len(o) : o[i] = o[j] => i = j
  BY <1>1 DEF AInv, RecordedOnce
<1>6. PICK z \in 0 .. Len(s) : z = Offset
  <2>1. Len(s) \in Nat /\ MaxRead \in Nat
    BY AuditConstants
  <2>2. (IF Len(s) > MaxRead THEN Len(s) - MaxRead ELSE 0) \in 0 .. Len(s)
    BY <2>1
  <2>3. QED
    BY <1>1, <2>2 DEF Offset
<1>7. z \in Nat
  OBVIOUS
<1> DEFINE whole == {n \in Range(e) : \E i \in DOMAIN s : i > z /\ s[i] = [n |-> n, k |-> 1]}
<1>8. ASSUME NEW m \in 1 .. Len(e) PROVE e[m] \in whole <=> h[m] > z
  <2>1. h[m] \in WholeLines(s) /\ e[m] = s[h[m]].n
    BY <1>3 DEF Reads
  <2>2. h[m] \in 1 .. Len(s) /\ s[h[m]] = [n |-> s[h[m]].n, k |-> 1]
    BY <2>1, WholeFirst
  <2>3. DOMAIN s = 1 .. Len(s) /\ DOMAIN e = 1 .. Len(e)
    OBVIOUS
  <2>4. e[m] \in Range(e)
    BY <2>3 DEF Range
  <2>5. ASSUME h[m] > z PROVE e[m] \in whole
    BY <2>1, <2>2, <2>3, <2>4, <2>5
  <2>6. ASSUME e[m] \in whole PROVE h[m] > z
    <3>1. PICK i \in 1 .. Len(s) : i > z /\ s[i] = [n |-> e[m], k |-> 1]
      BY <2>3, <2>6
    <3>2. s[i] = s[h[m]]
      BY <2>1, <2>2, <3>1
    <3>3. i = h[m]
      BY <1>4, <1>5, <2>2, <3>2, CellOnce
    <3>4. QED
      BY <3>1, <3>3
  <2>7. QED
    BY <2>5, <2>6
<1> DEFINE W == {q \in WholeLines(s) : q > z}
           w == SubSeq(s, z + 1, Len(s))
           x == Entries(IF z > 0 /\ s[z].k # LineLen THEN Tail(Split(w)) ELSE Split(w))
<1>9. PICK S : S = whole
  OBVIOUS
<1>10. Keep(e, S) \in Seq(1 .. MaxActions) /\ ReadsAt(Keep(e, S), s, W)
  <2>1. \A m \in 1 .. Len(e) : e[m] \in S <=> h[m] > z
    BY <1>8, <1>9
  <2> HIDE DEF whole
  <2>2. QED
    BY <1>3, <1>7, <2>1, WindowKeeps
<1>11. x \in Seq(1 .. MaxActions) /\ ReadsAt(x, s, W)
  <2> HIDE DEF x, w
  <2>1. QED
    BY WindowEntries DEF x, w
<1>12. x = Keep(e, S)
  <2> DEFINE V == 1 .. MaxActions
             k == Keep(e, S)
  <2>1. x \in Seq(V) /\ k \in Seq(V) /\ ReadsAt(x, s, W) /\ ReadsAt(k, s, W)
    BY <1>10, <1>11
  <2> HIDE DEF V, k, x, W
  <2>2. x = k
    BY <2>1, SameReading
  <2>3. QED
    BY <2>2 DEF k
<1>13. ASSUME file.open, NEW limit PROVE Recent(limit) = NewestFirst(x, limit)
  BY <1>1, <1>6, <1>13, Zenon DEF Recent
<1>14. QED
  <2>1. S = {n \in Range(OnFile) : \E i \in DOMAIN file.data : i > Offset /\ file.data[i] = [n |-> n, k |-> 1]}
    BY <1>1, <1>2, <1>6, <1>9, Zenon
  <2> HIDE DEF whole, x
  <2>2. ASSUME file.open, NEW limit \in Limits PROVE Recent(limit) = NewestFirst(Keep(OnFile, S), limit)
    BY <1>2, <1>12, <1>13, <2>2, Zenon
  <2>3. QED
    BY <2>1, <2>2, Zenon DEF RecentExact

(* Recent, whose window may begin between two lines, within a line, or anywhere
   in what failed writes and rotations have left, returns exactly the lines that
   lie in the window as a whole, newest first. *)
THEOREM RecentIsExact == Spec => []RecentExact
<1>1. AInv => RecentExact
  BY ExactFromPlaces
<1>2. QED
  BY AuditInvariant, <1>1, PTL

(* t is the end b of the file s, with the line of n behind it. *)
LineAfter(s, b, n, t) == EndPart(b, s) /\ (s # <<>> => b # <<>>) /\ t = b \o Line(n)

(* A line that is written where a line begins is on file. *)
LEMMA LineIsOnFile ==
  ASSUME NEW s \in Seq(Cell), NEW b \in Seq(Cell), NEW n \in 1 .. MaxActions,
         NEW t \in Seq(Cell), LineAfter(s, b, n, t),
         NEW e \in Seq(1 .. MaxActions), ReadsAt(e, t, WholeLines(t))
  PROVE  /\ ~EndsWithinLine(t)
         /\ EndsWithinLine(s) \/ \E m \in 1 .. Len(e) : e[m] = n
<1>1. PICK l \in Nat : l = Len(b)
  OBVIOUS
<1>2. LineLen \in Nat /\ LineLen >= 2
  BY AuditConstants
<1>3. /\ Len(t) = l + LineLen
      /\ \A i \in 1 .. l : t[i] = b[i]
      /\ \A j \in 1 .. LineLen : t[l + j] = [n |-> n, k |-> j] /\ t[l + j].n = n /\ t[l + j].k = j
  <2>1. PICK x \in Seq(Cell) :
          /\ x = b \o Line(n) /\ Len(x) = Len(b) + LineLen
          /\ \A i \in 1 .. Len(b) : x[i] = b[i]
          /\ \A j \in 1 .. LineLen :
               x[Len(b) + j] = [n |-> n, k |-> j] /\ x[Len(b) + j].n = n /\ x[Len(b) + j].k = j
    BY LineBehind
  <2>2. x = t
    BY <2>1 DEF LineAfter
  <2>3. QED
    BY ONLY <1>1, <2>1, <2>2
<1>4. ~EndsWithinLine(t)
  <2>1. LineLen \in 1 .. LineLen
    BY <1>2
  <2>2. t[Len(t)].k = LineLen
    BY <1>3, <2>1, Zenon
  <2>3. QED
    BY <2>2 DEF EndsWithinLine
<1>5. ASSUME ~EndsWithinLine(s) PROVE \E m \in 1 .. Len(e) : e[m] = n
  <2>1. PICK q \in Nat : q = l + 1 /\ q >= 1 /\ q - 1 = l
    OBVIOUS
  <2>2. Begins(t, q)
    <3>1. CASE l = 0
      BY <2>1, <3>1 DEF Begins
    <3>2. CASE l # 0
      <4>1. PICK m \in 0 .. Len(s) : m + Len(b) = Len(s) /\ \A i \in 1 .. Len(b) : b[i] = s[m + i]
        BY DEF LineAfter, EndPart
      <4>2. l \in 1 .. l /\ Len(s) \in Nat /\ Len(s) # 0 /\ m + l = Len(s)
        BY <1>1, <3>2, <4>1
      <4>3. b[l] = s[Len(s)]
        BY <1>1, <4>1, <4>2
      <4>4. s # <<>>
        BY <4>2
      <4>5. s[Len(s)].k = LineLen
        BY <1>5, <4>4 DEF EndsWithinLine
      <4>6. t[l].k = LineLen
        BY <1>3, <4>2, <4>3, <4>5, Zenon
      <4>7. QED
        BY <2>1, <4>6 DEF Begins
    <3>3. QED
      BY <3>1, <3>2
  <2>3. q + (LineLen - 1) = l + LineLen /\ q \in 1 .. Len(t) + 1 /\ q + (LineLen - 1) <= Len(t) + 1
    BY <1>2, <1>3, <2>1
  <2>4. t[q].n = n
    <3>1. 1 \in 1 .. LineLen
      BY <1>2
    <3>2. QED
      BY <1>3, <2>1, <3>1, Zenon
  <2>5. \A j \in 1 .. LineLen - 1 : t[q + j - 1] = [n |-> t[q].n, k |-> j]
    <3>1. \A j \in 1 .. LineLen - 1 : j \in 1 .. LineLen /\ q + j - 1 = l + j
      BY <1>2, <2>1
    <3>2. QED
      BY <1>3, <2>4, <3>1, Zenon
  <2>6. t[q + (LineLen - 1)].k = LineLen
    <3>1. LineLen \in 1 .. LineLen
      BY <1>2
    <3>2. QED
      BY <1>3, <2>3, <3>1, Zenon
  <2>7. q \in WholeLines(t)
    BY <2>2, <2>3, <2>5, <2>6 DEF WholeLines, Whole
  <2>8. PICK h : Reads(e, t, WholeLines(t), h)
    BY DEF ReadsAt
  <2>9. PICK m \in 1 .. Len(e) : h[m] = q
    BY <2>7, <2>8 DEF Reads
  <2>10. e[m] = t[h[m]].n
    BY <2>8 DEF Reads
  <2>11. QED
    BY <2>4, <2>9, <2>10
<1>6. QED
  BY <1>4, <1>5

(* Only Record changes the order of recording. *)
LEMMA RecoverStep ==
  ASSUME AInv, Next, order' # order, file'.open, file'.faults = file.faults
  PROVE  \/ order'[Len(order')] \in Range(OnFile') /\ ~EndsWithinLine(file'.data)
         \/ EndsWithinLine(file.data) /\ ~EndsWithinLine(file'.data)
<1>1. PICK h \in Handlers : RecordAction(h)
  BY DEF Next, Commit, CommitUnsaved, Reply, Restart
<1>2. ~Skips(h)
  BY <1>1 DEF RecordAction
<1>3. act[h] # None
  BY <1>1 DEF RecordAction
<1>4. PICK n \in 1 .. MaxActions : n = act[h].n
  BY <1>3, NumberFacts DEF AInv
<1>5. file' \in Recorded(file, Line(n)) /\ order' = Append(order, n)
  BY <1>1, <1>2, <1>4 DEF RecordAction
<1>6. order \in Seq(1 .. MaxActions) /\ FileOK(file) /\ file.data \in Seq(Cell)
  BY NumberFacts DEF AInv
<1>7. RecordLeaves(file, file', n) /\ (~file.open => file' = file)
  BY <1>5, <1>6, RecordedData
<1>8. file.open
  BY <1>7
<1>9. PICK s \in Seq(Cell), t \in Seq(Cell) : s = file.data /\ t = file'.data
  BY <1>6, <1>7 DEF RecordLeaves, File
<1>10. PICK b \in Seq(Cell) : LineAfter(s, b, n, t)
  BY <1>7, <1>8, <1>9, Zenon DEF RecordLeaves, LineAfter
<1>11. PICK e \in Seq(1 .. MaxActions) : e = Entries(Split(t)) /\ ReadsAt(e, t, WholeLines(t))
  BY FileEntries
<1>12. ~EndsWithinLine(t) /\ (EndsWithinLine(s) \/ \E m \in 1 .. Len(e) : e[m] = n)
  <2>1. ReadsAt(e, t, WholeLines(t))
    BY <1>11
  <2>2. QED
    BY ONLY s \in Seq(Cell), t \in Seq(Cell), b \in Seq(Cell), n \in 1 .. MaxActions,
            e \in Seq(1 .. MaxActions), <1>10, <2>1, LineIsOnFile
<1>13. order'[Len(order')] = n
  BY <1>5, <1>6, AppendProperties
<1>14. OnFile' = e
  BY <1>9, <1>11 DEF OnFile
<1>15. (\E m \in 1 .. Len(e) : e[m] = n) => n \in Range(e)
  <2>1. DOMAIN e = 1 .. Len(e)
    OBVIOUS
  <2>2. QED
    BY <2>1 DEF Range
<1>16. QED
  BY <1>9, <1>12, <1>13, <1>14, <1>15, Zenon

(* Record recovers from a failed write: for any interleaving, any failures and
   rotations before, a record that meets no failure itself is on file and ends
   with its newline, unless the file ended within a line. *)
THEOREM AuditDoesRecover == Spec => AuditRecovers
<1> DEFINE A == order' # order /\ file'.open /\ file'.faults = file.faults =>
                  \/ order'[Len(order')] \in Range(OnFile') /\ ~EndsWithinLine(file'.data)
                  \/ EndsWithinLine(file.data) /\ ~EndsWithinLine(file'.data)
<1>1. AInv /\ [Next]_vars => [A]_vars
  <2> SUFFICES ASSUME AInv, Next PROVE A
    OBVIOUS
  <2>1. QED
    BY RecoverStep
<1>2. QED
  BY AuditInvariant, <1>1, PTL DEF Spec, AuditRecovers
=============================================================================
