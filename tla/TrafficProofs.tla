--------------------------- MODULE TrafficProofs ----------------------------
(***************************************************************************)
(* Proofs about Traffic, for any number of users, requests and days.  The  *)
(* invariant is TypeOK with Books (where counted traffic is, and what a    *)
(* view has read of it) and Dates (whose date is current).                 *)
(***************************************************************************)
EXTENDS Traffic, TLAPS

(* The states FlushStats goes through. *)
LEMMA FlushTypes ==
  /\ FlushIdle \in FlushState
  /\ \A date \in Nat : Flushing("prune", date, Zero) \in FlushState
  /\ Flushing("swap", 0, Zero) \in FlushState
  /\ \A took \in Amounts : Flushing("persist", 0, took) \in FlushState
  BY DEF FlushIdle, Flushing, FlushState, Amounts, Zero

(* No request and no row are well typed. *)
LEMMA NobodyType == NoReq \in ReqState /\ NoView \in View
<1>1. AnyUser \in Users
  BY TrafficAssumption DEF AnyUser
<1> QED BY <1>1 DEF NoReq, Request, ReqState, NoRecord, Record, NoView, View

(* A place in the list has a user, whose record is one. *)
LEMMA PlaceType ==
  ASSUME TypeOK, Books
  PROVE  /\ \A i \in DOMAIN users : users[i] \in Users
         /\ view.at # "idle" => Place \in Record
         /\ view.slot = 0 => Place \in Record
<1>1. \A i \in DOMAIN users : users[i] \in Users
  BY DEF TypeOK
<1>2. view.left \in Record
  BY DEF TypeOK, View
<1>3. CASE view.slot = 0
  BY <1>1, <1>2, <1>3 DEF Place
<1>4. CASE view.slot # 0
  <2>1. view.at # "idle" => view.slot \in DOMAIN users
    BY <1>4 DEF Books, TypeOK, View
  <2>2. \A i \in DOMAIN users : [id |-> users[i], stats |-> stats[users[i]]] \in Record
    BY <1>1 DEF TypeOK, Amounts, Record
  <2> QED BY <1>1, <1>4, <2>1, <2>2 DEF Place
<1> QED BY <1>3, <1>4

(* A list without one of its users is a list. *)
LEMMA WithoutType ==
  ASSUME TypeOK, NEW i \in DOMAIN users
  PROVE  /\ Without(i) \in Seq(Users) /\ Len(Without(i)) = Len(users) - 1
         /\ Len(users) \in Nat /\ Len(users) >= 1
<1>1. users \in Seq(Users) /\ Len(users) \in Nat /\ i \in 1 .. Len(users)
  BY DEF TypeOK
<1>2. \A k \in 1 .. Len(users) - 1 : (IF k < i THEN k ELSE k + 1) \in 1 .. Len(users)
  BY <1>1
<1>3. \A k \in 1 .. Len(users) - 1 : users[IF k < i THEN k ELSE k + 1] \in Users
  BY <1>1, <1>2
<1>4. Without(i) \in [1 .. Len(users) - 1 -> Users] /\ Len(users) - 1 \in Nat
  BY <1>1, <1>3 DEF Without
<1> QED BY <1>1, <1>4

(* A view that leaves its place keeps its type, and its record. *)
LEMMA LeftFacts ==
  ASSUME TypeOK, Books, view.at # "idle" \/ view.slot = 0
  PROVE  /\ Left \in View /\ [Left EXCEPT !.replaced = TRUE] \in View
         /\ Left.slot = 0 /\ Left.left = Place /\ Left.at = view.at /\ Left.read = view.read
         /\ Left.replaced = view.replaced
         /\ [Left EXCEPT !.replaced = TRUE].slot = 0 /\ [Left EXCEPT !.replaced = TRUE].replaced
<1>1. Place \in Record /\ view \in View
  BY PlaceType DEF TypeOK
<1>2. /\ Left \in View /\ Left.slot = 0 /\ Left.left = Place /\ Left.at = view.at
      /\ Left.read = view.read /\ Left.replaced = view.replaced
  BY <1>1 DEF Left, View
<1> HIDE DEF Left
<1>3. /\ [Left EXCEPT !.replaced = TRUE] \in View /\ [Left EXCEPT !.replaced = TRUE].slot = 0
      /\ [Left EXCEPT !.replaced = TRUE].replaced
  BY <1>2 DEF View
<1> QED BY <1>2, <1>3

(* What has been counted is at least what is recorded, or on its way. *)
LEMMA CountedFacts ==
  ASSUME TypeOK, Books
  PROVE  \A u \in Users :
           /\ counted[u] \in Nat /\ stats[u] \in Nat /\ counted[u] - stats[u] \in Nat
           /\ \A f \in Flushers : flush[f].took[u] \in Nat /\ counted[u] - flush[f].took[u] \in Nat
<1> SUFFICES ASSUME NEW u \in Users
             PROVE  /\ counted[u] \in Nat /\ stats[u] \in Nat /\ counted[u] - stats[u] \in Nat
                    /\ \A f \in Flushers :
                         flush[f].took[u] \in Nat /\ counted[u] - flush[f].took[u] \in Nat
  OBVIOUS
<1>1. counted[u] \in Nat /\ stats[u] \in Nat /\ live[u] \in Nat
  BY DEF TypeOK, Amounts
<1>2. \A f \in Flushers : flush[f].took[u] \in Nat
  BY DEF TypeOK, FlushState, Amounts
<1>3. stats[u] + live[u] + flush["ticker"].took[u] + flush["shutdown"].took[u] = counted[u]
  BY DEF Books, StatsConserved
<1> QED BY <1>1, <1>2, <1>3 DEF Flushers

(* The traffic that a request moves at a time. *)
LEMMA MoveType ==
  ASSUME NEW n \in 1 .. MaxMove
  PROVE  n \in Nat
  BY TrafficAssumption

(* What Store.update writes is well typed. *)
LEMMA SavedType ==
  ASSUME TypeOK, Saved, users' \in Seq(Users), stats' \in [Users -> Nat]
  PROVE  disk' \in [list : Seq(Users), stats : Amounts] /\ unsaved' \in BOOLEAN
<1>1. disk \in [list : Seq(Users), stats : Amounts]
  BY DEF TypeOK
<1>2. CASE disk' = [list |-> users', stats |-> stats'] /\ unsaved' = FALSE
  <2>1. [list |-> users', stats |-> stats'] \in [list : Seq(Users), stats : Amounts]
    BY DEF Amounts
  <2> QED BY <1>2, <2>1
<1>3. CASE UNCHANGED disk /\ unsaved' = TRUE
  BY <1>1, <1>3
<1> QED BY <1>2, <1>3 DEF Saved

(* Every step of Traffic is well typed. *)
LEMMA TypeStep == TypeOK /\ Books /\ [Next]_vars => TypeOK'
<1> SUFFICES ASSUME TypeOK, Books, [Next]_vars PROVE TypeOK'
  OBVIOUS
<1> USE DEF Amounts, Zero, NoEntry
<1>0. /\ req \in [Reqs -> ReqState] /\ view \in View
      /\ flush \in [Flushers -> FlushState] /\ users \in Seq(Users) /\ day \in Nat
      /\ live \in [Users -> Nat] /\ counted \in [Users -> Nat] /\ stats \in [Users -> Nat]
      /\ daily \in [Users -> [date : Nat, bytes : Nat]] /\ usedToday \in [Users -> Nat]
  BY DEF TypeOK
<1>1. ASSUME NEW r \in Reqs, NEW u \in Users, Admit(r, u) PROVE TypeOK'
  <2>1. Request("open", u) \in ReqState
    BY <1>0 DEF Request, ReqState
  <2> QED BY <1>1, <2>1 DEF Admit, TypeOK
<1>2. ASSUME NEW r \in Reqs, Fail(r) PROVE TypeOK'
  <2>1. req' \in [Reqs -> ReqState]
    BY <1>0, <1>2, NobodyType DEF Fail
  <2> QED BY <1>2, <2>1 DEF Fail, TypeOK
<1>3. ASSUME NEW r \in Reqs, NEW n \in 1 .. MaxMove, NEW more \in BOOLEAN, Count(r, n, more)
      PROVE TypeOK'
  <2>1. req[r].user \in Users
    BY <1>0 DEF ReqState
  <2>2. Counting(req[r].user, n, more) \in ReqState
    BY <1>0, <2>1, MoveType DEF Counting, ReqState
  <2>3. req' \in [Reqs -> ReqState]
    BY <1>3, <2>2 DEF Count, TypeOK
  <2>4. live' \in [Users -> Nat] /\ counted' \in [Users -> Nat]
    <3>1. n \in Nat /\ live[req[r].user] + n \in Nat /\ counted[req[r].user] + n \in Nat
      BY <1>0, <2>1, MoveType
    <3> QED BY <1>0, <1>3, <3>1 DEF Count
  <2> QED BY <1>3, <2>3, <2>4 DEF Count, TypeOK
<1>4. ASSUME NEW r \in Reqs, DailyAdd(r) PROVE TypeOK'
  <2>1. req[r].user \in Users /\ req[r].today \in Nat /\ req[r].n \in Nat
    BY <1>0 DEF ReqState
  <2>2. Request("tunnel", req[r].user) \in ReqState
    BY <2>1 DEF Request, ReqState
  <2>3. req' \in [Reqs -> ReqState]
    BY <1>0, <1>4, <2>2, NobodyType DEF DailyAdd
  <2>4. daily' \in [Users -> [date : Nat, bytes : Nat]] /\ usedToday' \in [Users -> Nat]
    <3>1. /\ Added(daily[req[r].user], req[r].today, req[r].n) \in [date : Nat, bytes : Nat]
          /\ usedToday[req[r].user] + req[r].n \in Nat
      <4>1. daily[req[r].user].bytes \in Nat
        BY <1>0, <2>1
      <4> QED BY <1>0, <2>1, <4>1 DEF Added
    <3> QED BY <1>0, <1>4, <3>1 DEF DailyAdd
  <2> QED BY <1>4, <2>3, <2>4 DEF DailyAdd, TypeOK
<1>5. ASSUME NEW u \in Users, ResetDaily(u) PROVE TypeOK'
  BY <1>5 DEF ResetDaily, ResetEntry, TypeOK
<1>6. ASSUME NEW i \in DOMAIN users, DeleteUser(i) PROVE TypeOK'
  <2>1. users' \in Seq(Users) /\ stats' \in [Users -> Nat] /\ Saved
    BY <1>6, WithoutType DEF DeleteUser, TypeOK
  <2>2. disk' \in [list : Seq(Users), stats : Amounts] /\ unsaved' \in BOOLEAN
    BY <2>1, SavedType
  <2>3. view' \in View
    <3>1. CASE view.slot = Len(users)
      <4>1. view.at # "idle" \/ view.slot = 0
        BY DEF Books
      <4> QED BY <1>6, <3>1, <4>1, LeftFacts DEF DeleteUser
    <3>2. CASE view.slot # Len(users)
      BY <1>0, <1>6, <3>2 DEF DeleteUser
    <3> QED BY <3>1, <3>2
  <2>4. changes' \in Nat
    BY <1>6 DEF DeleteUser, TypeOK
  <2> QED BY <1>6, <2>1, <2>2, <2>3, <2>4 DEF DeleteUser, TypeOK
<1>7. ASSUME NEW i \in DOMAIN users, ViewConfig(i) PROVE TypeOK'
  <2>1. view' \in View
    <3>1. Len(users) \in Nat /\ DOMAIN users = 1 .. Len(users)
      BY <1>0
    <3>2. i \in Nat
      BY <3>1
    <3> QED BY <1>0, <1>7, <3>2 DEF ViewConfig, View
  <2> QED BY <1>7, <2>1 DEF ViewConfig, TypeOK
<1>18. ASSUME NEW l \in Lists, NEW s \in Snapshots, Import(l, s) PROVE TypeOK'
  <2>1. users' \in Seq(Users) /\ s \in [Users -> Nat] /\ Saved
    BY <1>18, TrafficAssumption DEF Import
  <2>2. stats' \in [Users -> Nat]
    BY <1>18, <2>1 DEF Import, TypeOK
  <2>3. counted' \in [Users -> Nat]
    <3>1. \A u \in Users : counted[u] - stats[u] \in Nat /\ stats'[u] \in Nat
      BY <2>2, CountedFacts
    <3>2. \A u \in Users : counted[u] - stats[u] + stats'[u] \in Nat
      BY <3>1
    <3> QED BY <1>18, <3>2 DEF Import
  <2>4. view' \in View
    <3>1. CASE view.at # "idle"
      BY <1>18, <3>1, LeftFacts DEF Import, TypeOK
    <3>2. CASE view.at = "idle"
      BY <1>0, <1>18, <3>2 DEF Import
    <3> QED BY <3>1, <3>2
  <2>5. disk' \in [list : Seq(Users), stats : Amounts] /\ unsaved' \in BOOLEAN
    BY <2>1, <2>2, SavedType
  <2> QED BY <1>18, <2>1, <2>2, <2>3, <2>4, <2>5 DEF Import, TypeOK
<1>8. ASSUME NEW f \in Flushers, FlushBegin(f) PROVE TypeOK'
  <2>1. flush' \in [Flushers -> FlushState]
    BY <1>8, FlushTypes DEF FlushBegin, TypeOK
  <2> QED BY <1>8, <2>1 DEF FlushBegin, TypeOK
<1>9. ASSUME NEW f \in Flushers, FlushPrune(f) PROVE TypeOK'
  <2>1. flush' \in [Flushers -> FlushState]
    BY <1>9, FlushTypes DEF FlushPrune, TypeOK
  <2> QED BY <1>9, <2>1 DEF FlushPrune, TypeOK
<1>10. ASSUME NEW f \in Flushers, FlushSwap(f) PROVE TypeOK'
  <2>1. flush' \in [Flushers -> FlushState]
    <3>1. FlushIdle \in FlushState /\ Flushing("persist", 0, live) \in FlushState
      BY <1>0, FlushTypes
    <3>2. \/ flush' = [flush EXCEPT ![f] = FlushIdle]
          \/ flush' = [flush EXCEPT ![f] = Flushing("persist", 0, live)]
      BY <1>10 DEF FlushSwap
    <3> QED BY <1>0, <3>1, <3>2
  <2>2. live' \in [Users -> Nat] /\ phase' \in {"up", "stopping", "flushed"}
    <3>1. /\ live' = live \/ live' = [u \in Users |-> 0]
          /\ phase' \in {phase, "flushed"}
      BY <1>10 DEF FlushSwap, LiveAfterSwap, Returned
    <3>2. phase \in {"up", "stopping", "flushed"}
      BY DEF TypeOK
    <3> QED BY <1>0, <3>1, <3>2
  <2> QED BY <1>10, <2>1, <2>2 DEF FlushSwap, TypeOK
<1>11. ASSUME NEW f \in Flushers, FlushPersist(f) PROVE TypeOK'
  <2>1. flush[f].took \in [Users -> Nat]
    BY <1>0 DEF FlushState
  <2>2. flush' \in [Flushers -> FlushState]
    BY <1>11, FlushTypes DEF FlushPersist, TypeOK
  <2>3. stats' \in [Users -> Nat]
    BY <1>11, <2>1 DEF FlushPersist, TypeOK
  <2>4. counted' \in [Users -> Nat]
    BY <1>11, CountedFacts DEF FlushPersist, TypeOK
  <2>5. disk' \in [list : Seq(Users), stats : Amounts] /\ unsaved' \in BOOLEAN
    BY <1>11, <2>3, SavedType DEF FlushPersist, TypeOK
  <2> QED BY <1>11, <2>2, <2>3, <2>4, <2>5 DEF FlushPersist, TypeOK, Returned
<1>12. CASE Midnight
  <2>1. day' \in Nat /\ usedToday' \in [Users -> Nat]
    BY <1>0, <1>12 DEF Midnight
  <2>2. skewed' \in BOOLEAN
    BY <1>12, Zenon DEF Midnight
  <2> QED BY <1>12, <2>1, <2>2 DEF Midnight, TypeOK
<1>13. CASE SaveOther
  <2>1. disk' \in [list : Seq(Users), stats : Amounts] /\ unsaved' \in BOOLEAN
    BY <1>0, <1>13, SavedType DEF SaveOther
  <2> QED BY <1>13, <2>1 DEF SaveOther, TypeOK
<1>14. CASE Shutdown
  BY <1>14 DEF Shutdown, TypeOK
<1>15. CASE Restart
  <2>2. req' \in [Reqs -> ReqState] /\ flush' \in [Flushers -> FlushState]
    BY <1>15, FlushTypes, NobodyType DEF Restart
  <2>3. view' \in View
    BY <1>15, NobodyType DEF Restart
  <2> QED BY <1>15, <2>2, <2>3 DEF Restart, TypeOK
<1>16. CASE ViewMerge
  <2>1. view' \in View
    BY <1>16, NobodyType DEF ViewMerge
  <2> QED BY <1>16, <2>1 DEF ViewMerge, TypeOK
<1>19. CASE ViewId
  <2>1. Place.id \in Users
    BY <1>19, PlaceType DEF ViewId, Record
  <2>2. view' \in View
    BY <1>0, <1>19, <2>1 DEF ViewId, View
  <2> QED BY <1>19, <2>2 DEF ViewId, TypeOK
<1>20. CASE ViewStats
  <2>1. Place \in Record
    BY <1>20, PlaceType DEF ViewStats
  <2>2. view' \in View
    BY <1>0, <1>20, <2>1 DEF ViewStats, View
  <2> QED BY <1>20, <2>2 DEF ViewStats, TypeOK
<1>17. CASE UNCHANGED vars
  BY <1>17 DEF vars, TypeOK
<1> QED
  BY <1>1, <1>2, <1>3, <1>4, <1>5, <1>6, <1>7, <1>8, <1>9, <1>10, <1>11, <1>12,
     <1>13, <1>14, <1>15, <1>16, <1>17, <1>18, <1>19, <1>20 DEF Next
-----------------------------------------------------------------------------
(* Everything Books and Dates are about, for the steps that leave it alone. *)
LEMMA BooksFrame ==
  Books /\ UNCHANGED <<users, stats, live, flush, view, counted>> => Books'
  BY DEF Books, StatsConserved, Place

(* What Books says of a view, as the view's place and the records change. *)
ViewBooks ==
  /\ view.at # "idle" => view.slot \in 0 .. Len(users)
  /\ view.at = "idle" => view.slot = 0
  /\ view.at # "idle" /\ ~view.replaced => Place.stats <= stats[Place.id]
  /\ view.at \in {"stats", "read"} /\ ~view.replaced => view.read.stats <= stats[view.read.id]

(* A view and its place stay, and no record shrinks. *)
LEMMA ViewFrame ==
  ASSUME TypeOK, Books, UNCHANGED <<users, view>>, stats' \in [Users -> Nat],
         \A u \in Users : stats[u] <= stats'[u]
  PROVE  ViewBooks'
<1>1. /\ view.at # "idle" => view.slot \in 0 .. Len(users)
      /\ view.at = "idle" => view.slot = 0
      /\ view.at # "idle" /\ ~view.replaced => Place.stats <= stats[Place.id]
      /\ view.at \in {"stats", "read"} /\ ~view.replaced => view.read.stats <= stats[view.read.id]
  BY DEF Books
<1>2. \A u \in Users : stats[u] \in Nat /\ stats'[u] \in Nat
  BY DEF TypeOK, Amounts
<1>3. view.read.stats \in Nat /\ view.read.id \in Users /\ view.left.stats \in Nat /\ view.left.id \in Users
  BY DEF TypeOK, View, Record
<1>4. ASSUME view.at # "idle", ~view.replaced PROVE Place'.stats <= stats'[Place'.id]
  <2>1. CASE view.slot = 0
    <3>1. Place = view.left /\ Place' = view.left
      BY <2>1 DEF Place
    <3> QED BY <1>1, <1>2, <1>3, <1>4, <3>1
  <2>2. CASE view.slot # 0
    <3>1. view.slot \in DOMAIN users
      BY <1>1, <1>4, <2>2 DEF TypeOK, View
    <3>2. users[view.slot] \in Users
      BY <3>1, PlaceType
    <3>3. Place' = [id |-> users[view.slot], stats |-> stats'[users[view.slot]]]
      BY <2>2 DEF Place
    <3> QED BY <1>2, <3>2, <3>3
  <2> QED BY <2>1, <2>2
<1>5. view.at \in {"stats", "read"} /\ ~view.replaced => view.read.stats <= stats'[view.read.id]
  BY <1>1, <1>2, <1>3
<1> QED BY <1>1, <1>4, <1>5 DEF ViewBooks

(* The same of the dates. *)
LEMMA DatesFrame ==
  Dates /\ UNCHANGED <<flush, day, daily, req, usedToday, skewed>> => Dates'
  BY DEF Dates, CountersRight, dailyBytes

(* Every step keeps the books. *)
LEMMA BooksStep == TypeOK /\ Books /\ [Next]_vars => Books'
<1> SUFFICES ASSUME TypeOK, Books, [Next]_vars PROVE Books'
  OBVIOUS
<1> USE DEF Flushers
<1>1. ASSUME NEW r \in Reqs, NEW u \in Users, Admit(r, u) PROVE Books'
  BY <1>1, BooksFrame DEF Admit
<1>2. ASSUME NEW r \in Reqs, Fail(r) PROVE Books'
  BY <1>2, BooksFrame DEF Fail
<1>3. ASSUME NEW r \in Reqs, NEW n \in 1 .. MaxMove, NEW more \in BOOLEAN, Count(r, n, more)
      PROVE Books'
  <2>1. /\ req[r].user \in Users /\ n \in Nat
        /\ \A f \in Flushers : flush[f].took \in [Users -> Nat]
    BY MoveType DEF TypeOK, ReqState, FlushState, Amounts
  <2>2. /\ live \in [Users -> Nat] /\ counted \in [Users -> Nat] /\ stats \in [Users -> Nat]
        /\ live' = [live EXCEPT ![req[r].user] = @ + n] /\ UNCHANGED <<stats, flush>>
        /\ counted' = [counted EXCEPT ![req[r].user] = @ + n] /\ StatsConserved
    BY <1>3 DEF Count, Books, TypeOK, Amounts
  <2>3. StatsConserved'
    <3> SUFFICES ASSUME NEW u \in Users
                 PROVE  stats[u] + live'[u] + flush["ticker"].took[u] + flush["shutdown"].took[u]
                          = counted'[u]
      BY <2>2 DEF StatsConserved
    <3>1. /\ stats[u] \in Nat /\ live[u] \in Nat /\ counted[u] \in Nat
          /\ flush["ticker"].took[u] \in Nat /\ flush["shutdown"].took[u] \in Nat
      BY <2>1, <2>2
    <3>2. stats[u] + live[u] + flush["ticker"].took[u] + flush["shutdown"].took[u] = counted[u]
      BY <2>2 DEF StatsConserved
    <3>3. \/ live'[u] = live[u] + n /\ counted'[u] = counted[u] + n
          \/ live'[u] = live[u] /\ counted'[u] = counted[u]
      BY <2>1, <2>2
    <3> QED BY <2>1, <3>1, <3>2, <3>3
  <2> QED BY <1>3, <2>3 DEF Count, Books, Place
<1>4. ASSUME NEW r \in Reqs, DailyAdd(r) PROVE Books'
  BY <1>4, BooksFrame DEF DailyAdd
<1>5. ASSUME NEW u \in Users, ResetDaily(u) PROVE Books'
  BY <1>5, BooksFrame DEF ResetDaily
<1>6. ASSUME NEW i \in DOMAIN users, DeleteUser(i) PROVE Books'
  <2>0. /\ UNCHANGED <<stats, live, flush, counted>>
        /\ users' = Without(i) /\ view' = (IF view.slot = Len(users) THEN Left ELSE view)
    BY <1>6 DEF DeleteUser
  <2>1. /\ Len(users') = Len(users) - 1 /\ users' \in Seq(Users) /\ DOMAIN users' = 1 .. Len(users')
        /\ Len(users) \in Nat /\ Len(users) >= 1
    BY <2>0, WithoutType
  <2>2. StatsConserved' /\ \A f \in Flushers : flush'[f].at # "persist" => flush'[f].took = Zero
    BY <2>0 DEF Books, StatsConserved
  <2>3. \A u \in Users : stats[u] \in Nat
    BY DEF TypeOK, Amounts
  <2>4. CASE view.slot = Len(users)
    <3>1. view.at # "idle" /\ view.slot # 0
      BY <2>1, <2>4 DEF Books
    <3>2. /\ view'.slot = 0 /\ view'.left = Place /\ view'.at = view.at /\ view'.read = view.read
          /\ view'.replaced = view.replaced
      BY <2>0, <2>4, <3>1, LeftFacts
    <3>3. Place' = Place
      BY <3>2 DEF Place
    <3>4. ViewBooks'
      BY <2>0, <2>1, <3>1, <3>2, <3>3 DEF Books, ViewBooks
    <3> QED BY <2>2, <3>4 DEF Books, ViewBooks
  <2>5. CASE view.slot # Len(users)
    <3>1. view' = view
      BY <2>0, <2>5
    <3>2. view.at # "idle" => view.slot \in 0 .. Len(users')
      BY <2>1, <2>5 DEF Books
    <3>3. ASSUME view.at # "idle", ~view.replaced PROVE Place'.stats <= stats'[Place'.id]
      <4>1. CASE view.slot = 0
        <5>1. Place' = view.left /\ Place = view.left
          BY <3>1, <4>1 DEF Place
        <5> QED BY <2>0, <3>3, <5>1 DEF Books
      <4>2. CASE view.slot # 0
        <5>1. users'[view.slot] \in Users
          BY <2>1, <3>2, <3>3, <4>2
        <5>2. Place' = [id |-> users'[view.slot], stats |-> stats[users'[view.slot]]]
          BY <2>0, <3>1, <4>2 DEF Place
        <5> QED BY <2>0, <2>3, <5>1, <5>2
      <4> QED BY <4>1, <4>2
    <3>4. ViewBooks'
      BY <2>0, <3>1, <3>2, <3>3 DEF Books, ViewBooks
    <3> QED BY <2>2, <3>4 DEF Books, ViewBooks
  <2> QED BY <2>4, <2>5
<1>7. ASSUME NEW i \in DOMAIN users, ViewConfig(i) PROVE Books'
  <2>1. UNCHANGED <<users, stats, live, flush, counted>>
    BY <1>7 DEF ViewConfig
  <2>2. StatsConserved' /\ \A f \in Flushers : flush'[f].at # "persist" => flush'[f].took = Zero
    BY <2>1 DEF Books, StatsConserved
  <2>3. view'.at = "config" /\ view'.slot = i /\ i \in 1 .. Len(users) /\ i # 0
    BY <1>7 DEF ViewConfig, TypeOK, View
  <2>4. Place' = [id |-> users[i], stats |-> stats[users[i]]]
    BY <2>1, <2>3 DEF Place
  <2>5. stats[users[i]] \in Nat
    BY PlaceType DEF TypeOK, Amounts
  <2>6. ViewBooks'
    BY <2>1, <2>3, <2>4, <2>5 DEF ViewBooks
  <2> QED BY <2>2, <2>6 DEF Books, ViewBooks
<1>18. ASSUME NEW l \in Lists, NEW s \in Snapshots, Import(l, s) PROVE Books'
  <2>1. /\ UNCHANGED <<live, flush>>
        /\ \A u \in Users : counted'[u] = counted[u] - stats[u] + stats'[u]
        /\ stats' = [u \in Users |-> IF u \in known' THEN s[u] ELSE stats[u]]
        /\ users' = l /\ view' = (IF view.at # "idle" THEN [Left EXCEPT !.replaced = TRUE] ELSE view)
    BY <1>18 DEF Import
  <2>2. s \in [Users -> Nat] /\ stats' \in [Users -> Nat] /\ Len(users') \in Nat
    <3>1. s \in [Users -> Nat] /\ l \in Seq(Users)
      BY TrafficAssumption, Zenon
    <3>2. stats \in [Users -> Nat]
      BY DEF TypeOK, Amounts
    <3>3. stats' \in [Users -> Nat]
      BY <2>1, <3>1, <3>2
    <3>4. Len(l) \in Nat
      BY <3>1
    <3> QED BY <2>1, <3>1, <3>3, <3>4
  <2>3. StatsConserved'
    <3> SUFFICES ASSUME NEW u \in Users
                 PROVE  stats'[u] + live[u] + flush["ticker"].took[u] + flush["shutdown"].took[u]
                          = counted[u] - stats[u] + stats'[u]
      BY <2>1 DEF StatsConserved
    <3>1. /\ stats'[u] \in Nat /\ stats[u] \in Nat /\ live[u] \in Nat /\ counted[u] \in Nat
          /\ flush["ticker"].took[u] \in Nat /\ flush["shutdown"].took[u] \in Nat
      BY <2>2, CountedFacts DEF TypeOK, Amounts
    <3>2. stats[u] + live[u] + flush["ticker"].took[u] + flush["shutdown"].took[u] = counted[u]
      BY DEF Books, StatsConserved
    <3> QED BY <3>1, <3>2
  <2>4. \A f \in Flushers : flush'[f].at # "persist" => flush'[f].took = Zero
    BY <2>1 DEF Books
  <2>5. ViewBooks'
    <3>1. CASE view.at # "idle"
      <4>1. view'.slot = 0 /\ view'.replaced /\ view'.at # "idle"
        BY <2>1, <3>1, LeftFacts DEF Left, View, TypeOK
      <4> QED BY <2>2, <4>1 DEF ViewBooks
    <3>2. CASE view.at = "idle"
      BY <2>1, <3>2 DEF ViewBooks, Books
    <3> QED BY <3>1, <3>2
  <2> QED BY <2>3, <2>4, <2>5 DEF Books, ViewBooks
<1>8. ASSUME NEW f \in Flushers, FlushBegin(f) PROVE Books'
  <2>1. \A g \in Flushers : flush'[g].took = flush[g].took
    BY <1>8 DEF FlushBegin, Flushing, Books, TypeOK
  <2>2. \A g \in Flushers : flush'[g].at # "persist" => flush'[g].took = Zero
    BY <1>8, <2>1 DEF FlushBegin, Flushing, Books, TypeOK
  <2> QED BY <1>8, <2>1, <2>2 DEF FlushBegin, Books, StatsConserved, Place
<1>9. ASSUME NEW f \in Flushers, FlushPrune(f) PROVE Books'
  <2>1. \A g \in Flushers : flush'[g].took = flush[g].took
    BY <1>9 DEF FlushPrune, Flushing, Books, TypeOK
  <2>2. \A g \in Flushers : flush'[g].at # "persist" => flush'[g].took = Zero
    BY <1>9, <2>1 DEF FlushPrune, Flushing, Books, TypeOK
  <2> QED BY <1>9, <2>1, <2>2 DEF FlushPrune, Books, StatsConserved, Place
<1>10. ASSUME NEW f \in Flushers, FlushSwap(f) PROVE Books'
  <2>1. flush[f].took = Zero
    BY <1>10 DEF FlushSwap, Books
  <2>2. CASE live = Zero
    <3>1. flush' = [flush EXCEPT ![f] = FlushIdle] /\ UNCHANGED <<users, stats, live, view, counted>>
      BY <1>10, <2>2 DEF FlushSwap
    <3>2. \A g \in Flushers : flush'[g].took = flush[g].took
      BY <2>1, <3>1 DEF FlushIdle, Flushing, TypeOK
    <3>3. \A g \in Flushers : flush'[g].at # "persist" => flush'[g].took = Zero
      BY <3>1 DEF FlushIdle, Flushing, Books, TypeOK
    <3> QED BY <3>1, <3>2, <3>3 DEF Books, StatsConserved, Place
  <2>3. CASE live # Zero
    <3>1. /\ flush' = [flush EXCEPT ![f] = Flushing("persist", 0, live)]
          /\ live' = Zero /\ UNCHANGED <<users, stats, view, counted>>
      BY <1>10, <2>3 DEF FlushSwap, LiveAfterSwap
    <3>2. flush'[f].took = live /\ \A g \in Flushers \ {f} : flush'[g] = flush[g]
      BY <3>1 DEF Flushing, TypeOK
    <3>3. \A g \in Flushers : flush'[g].at # "persist" => flush'[g].took = Zero
      BY <3>1 DEF Flushing, Books, TypeOK
    <3>4. ASSUME NEW u \in Users
          PROVE live[u] + flush["ticker"].took[u] + flush["shutdown"].took[u]
                  = live'[u] + flush'["ticker"].took[u] + flush'["shutdown"].took[u]
      BY <2>1, <3>1, <3>2 DEF Zero, TypeOK, FlushState, Amounts
    <3>5. StatsConserved'
      <4>1. \A u \in Users : stats[u] \in Nat /\ live[u] \in Nat /\ live'[u] = 0
        BY <3>1 DEF TypeOK, Amounts, Zero
      <4>2. \A u \in Users, g \in Flushers : flush[g].took[u] \in Nat /\ flush'[g].took[u] \in Nat
        BY <3>2, <4>1 DEF TypeOK, FlushState, Amounts
      <4>3. StatsConserved
        BY DEF Books
      <4> QED BY <3>1, <3>4, <4>1, <4>2, <4>3 DEF StatsConserved
    <3> QED BY <3>1, <3>3, <3>5 DEF Books, Place
  <2> QED BY <2>2, <2>3
<1>11. ASSUME NEW f \in Flushers, FlushPersist(f) PROVE Books'
  <2>1. /\ flush'[f].took = Zero /\ flush'[f].at = "idle"
        /\ \A g \in Flushers \ {f} : flush'[g] = flush[g]
    BY <1>11 DEF FlushPersist, FlushIdle, Flushing, TypeOK
  <2>2. \A u \in Users :
          IF u \in known THEN stats'[u] = stats[u] + flush[f].took[u] /\ counted'[u] = counted[u]
          ELSE stats'[u] = stats[u] /\ counted'[u] = counted[u] - flush[f].took[u]
    BY <1>11 DEF FlushPersist
  <2>3. \A g \in Flushers : flush[g].took \in [Users -> Nat]
    BY DEF TypeOK, FlushState, Amounts
  <2>4. StatsConserved'
    <3> SUFFICES ASSUME NEW u \in Users
                 PROVE  stats'[u] + live'[u] + flush'["ticker"].took[u] + flush'["shutdown"].took[u]
                          = counted'[u]
      BY DEF StatsConserved
    <3>1. /\ stats[u] \in Nat /\ live[u] \in Nat /\ counted[u] \in Nat /\ live' = live
          /\ flush["ticker"].took[u] \in Nat /\ flush["shutdown"].took[u] \in Nat
      BY <1>11, <2>3 DEF TypeOK, Amounts, FlushPersist
    <3>2. stats[u] + live[u] + flush["ticker"].took[u] + flush["shutdown"].took[u] = counted[u]
      BY DEF Books, StatsConserved
    <3>3. flush'[f].took[u] = 0 /\ \A g \in Flushers \ {f} : flush'[g].took[u] = flush[g].took[u]
      BY <2>1 DEF Zero
    <3>4. CASE f = "ticker"
      BY <2>2, <3>1, <3>2, <3>3, <3>4
    <3>5. CASE f = "shutdown"
      BY <2>2, <3>1, <3>2, <3>3, <3>5
    <3> QED BY <3>4, <3>5
  <2>5. ViewBooks'
    <3>1. stats' \in [Users -> Nat]
      BY <1>11, <2>3 DEF FlushPersist, TypeOK, Amounts
    <3>2. \A u \in Users : stats[u] <= stats'[u]
      <4>1. \A u \in Users : stats[u] \in Nat /\ flush[f].took[u] \in Nat
        BY <2>3 DEF TypeOK, Amounts
      <4> QED BY <2>2, <4>1
    <3> QED BY <1>11, <3>1, <3>2, ViewFrame DEF FlushPersist
  <2> QED BY <1>11, <2>1, <2>4, <2>5 DEF FlushPersist, Books, ViewBooks
<1>12. CASE Midnight
  BY <1>12, BooksFrame DEF Midnight
<1>13. CASE SaveOther
  BY <1>13, BooksFrame DEF SaveOther
<1>14. CASE Shutdown
  BY <1>14, BooksFrame DEF Shutdown
<1>15. CASE Restart
  <2>1. \A f \in Flushers : flush'[f].took = Zero
    BY <1>15 DEF Restart, FlushIdle, Flushing
  <2>2. StatsConserved'
    BY <1>15, <2>1 DEF Restart, StatsConserved, TypeOK, Amounts, Zero
  <2>3. view'.at = "idle" /\ view'.slot = 0
    BY <1>15 DEF Restart, NoView
  <2> QED BY <2>1, <2>2, <2>3 DEF Books
<1>16. CASE ViewMerge
  <2>1. view'.at = "idle" /\ view'.slot = 0 /\ UNCHANGED <<users, stats, live, flush, counted>>
    BY <1>16 DEF ViewMerge, NoView
  <2> QED BY <2>1 DEF Books, StatsConserved
<1>19. CASE ViewId
  <2>1. /\ \/ view.at = "config" /\ view'.at = "id"
           \/ view.at = "stats" /\ view'.at = "read"
        /\ view'.slot = view.slot /\ view'.left = view.left /\ view'.read = view.read
        /\ view'.replaced = view.replaced /\ UNCHANGED <<users, stats, live, flush, counted>>
    BY <1>19 DEF ViewId, TypeOK, View
  <2>2. Place' = Place
    BY <2>1 DEF Place
  <2> QED BY <2>1, <2>2 DEF Books, StatsConserved
<1>20. CASE ViewStats
  <2>1. /\ view'.at \in {"stats", "read"} /\ view.at \in {"config", "id"}
        /\ view'.slot = view.slot /\ view'.left = view.left /\ view'.read = Place
        /\ view'.replaced = view.replaced /\ UNCHANGED <<users, stats, live, flush, counted>>
    BY <1>20 DEF ViewStats, TypeOK, View
  <2>2. Place' = Place
    BY <2>1 DEF Place
  <2> QED BY <2>1, <2>2 DEF Books, StatsConserved
<1>17. CASE UNCHANGED vars
  BY <1>17, BooksFrame DEF vars
<1> QED
  BY <1>1, <1>2, <1>3, <1>4, <1>5, <1>6, <1>7, <1>8, <1>9, <1>10, <1>11, <1>12,
     <1>13, <1>14, <1>15, <1>16, <1>17, <1>18, <1>19, <1>20 DEF Next

(* Every step keeps the dates. *)
LEMMA DatesStep == TypeOK /\ Dates /\ [Next]_vars => Dates'
<1> SUFFICES ASSUME TypeOK, Dates, [Next]_vars PROVE Dates'
  OBVIOUS
<1>0. /\ \A u \in Users : daily[u].date \in Nat /\ daily[u].bytes \in Nat /\ usedToday[u] \in Nat
      /\ \A r \in Reqs : req[r].user \in Users /\ req[r].n \in Nat /\ req[r].today \in Nat
      /\ day \in Nat
  BY DEF TypeOK, ReqState, Amounts
<1>1. ASSUME NEW r \in Reqs, NEW u \in Users, Admit(r, u) PROVE Dates'
  <2>1. \A q \in Reqs : req'[q].at = "daily" => req'[q] = req[q]
    BY <1>1 DEF Admit, Request, TypeOK
  <2> QED BY <1>1, <2>1 DEF Admit, Dates, CountersRight, dailyBytes
<1>2. ASSUME NEW r \in Reqs, Fail(r) PROVE Dates'
  <2>1. \A q \in Reqs : req'[q].at = "daily" => req'[q] = req[q]
    BY <1>2 DEF Fail, TypeOK, NoReq, Request
  <2> QED BY <1>2, <2>1 DEF Fail, Dates, CountersRight, dailyBytes
<1>3. ASSUME NEW r \in Reqs, NEW n \in 1 .. MaxMove, NEW more \in BOOLEAN, Count(r, n, more)
      PROVE Dates'
  <2>1. \A q \in Reqs : req'[q] = req[q] \/ req'[q].today = day
    BY <1>3 DEF Count, Counting, TypeOK
  <2> QED BY <1>0, <1>3, <2>1 DEF Count, Dates, CountersRight, dailyBytes
<1>4. ASSUME NEW r \in Reqs, DailyAdd(r) PROVE Dates'
  <2> DEFINE v == req[r].user
  <2>1. \A q \in Reqs : req'[q].at = "daily" => req'[q] = req[q]
    BY <1>4 DEF DailyAdd, NoReq, Request, TypeOK
  <2>2. /\ daily'[v] = Added(daily[v], req[r].today, req[r].n)
        /\ usedToday'[v] = usedToday[v] + req[r].n
        /\ \A u \in Users \ {v} : daily'[u] = daily[u] /\ usedToday'[u] = usedToday[u]
        /\ UNCHANGED <<day, flush, skewed>>
    BY <1>0, <1>4 DEF DailyAdd, TypeOK, Amounts
  <2>3. req[r].today <= day /\ (~skewed => req[r].today = day)
    BY <1>4 DEF DailyAdd, Dates
  <2>4. \A u \in Users : daily'[u].date <= day'
    BY <1>0, <2>2, <2>3 DEF Added, Dates
  <2>5. CountersRight'
    <3> SUFFICES ASSUME ~skewed, NEW u \in Users PROVE dailyBytes(u)' = usedToday'[u]
      BY <2>2 DEF CountersRight
    <3>1. dailyBytes(u) = usedToday[u]
      BY DEF Dates, CountersRight
    <3>2. CASE u = v
      BY <1>0, <2>2, <2>3, <3>1, <3>2 DEF Added, dailyBytes
    <3>3. CASE u # v
      BY <2>2, <3>1, <3>3 DEF dailyBytes
    <3> QED BY <3>2, <3>3
  <2> QED BY <2>1, <2>2, <2>4, <2>5 DEF Dates
<1>5. ASSUME NEW u \in Users, ResetDaily(u) PROVE Dates'
  <2>1. /\ daily'[u] = NoEntry /\ usedToday'[u] = 0
        /\ \A w \in Users \ {u} : daily'[w] = daily[w] /\ usedToday'[w] = usedToday[w]
        /\ UNCHANGED <<day, flush, skewed, req>>
    BY <1>5 DEF ResetDaily, ResetEntry, TypeOK, Amounts
  <2>2. \A w \in Users : daily'[w].date <= day'
    BY <1>0, <2>1 DEF NoEntry, Dates
  <2>3. CountersRight'
    BY <1>0, <2>1 DEF CountersRight, dailyBytes, NoEntry, Dates
  <2> QED BY <2>1, <2>2, <2>3 DEF Dates
<1>6. ASSUME NEW i \in DOMAIN users, DeleteUser(i) PROVE Dates'
  BY <1>6, DatesFrame DEF DeleteUser
<1>7. ASSUME NEW i \in DOMAIN users, ViewConfig(i) PROVE Dates'
  BY <1>7, DatesFrame DEF ViewConfig
<1>18. ASSUME NEW l \in Lists, NEW s \in Snapshots, Import(l, s) PROVE Dates'
  BY <1>18, DatesFrame DEF Import
<1>8. ASSUME NEW f \in Flushers, FlushBegin(f) PROVE Dates'
  <2>1. \A g \in Flushers : flush'[g] = flush[g] \/ flush'[g].today = day
    BY <1>8 DEF FlushBegin, Flushing, TypeOK
  <2> QED BY <1>8, <2>1 DEF FlushBegin, Dates, CountersRight, dailyBytes
<1>9. ASSUME NEW f \in Flushers, FlushPrune(f) PROVE Dates'
  <2>1. \A g \in Flushers : flush'[g].at = "prune" => flush'[g] = flush[g]
    BY <1>9 DEF FlushPrune, Flushing, TypeOK
  <2>2. /\ \A u \in Users : daily'[u] = IF daily[u].date = flush[f].today THEN daily[u] ELSE NoEntry
        /\ UNCHANGED <<day, req, usedToday, skewed>>
    BY <1>9 DEF FlushPrune
  <2>3. ~skewed => flush[f].today = day
    BY <1>9 DEF FlushPrune, Dates
  <2>4. \A u \in Users : daily'[u].date <= day'
    BY <1>0, <2>2 DEF NoEntry, Dates
  <2>5. CountersRight'
    BY <1>0, <2>2, <2>3 DEF CountersRight, dailyBytes, NoEntry, Dates
  <2> QED BY <2>1, <2>2, <2>4, <2>5 DEF Dates
<1>10. ASSUME NEW f \in Flushers, FlushSwap(f) PROVE Dates'
  <2>1. \A g \in Flushers : flush'[g].at = "prune" => flush'[g] = flush[g]
    BY <1>10 DEF FlushSwap, Flushing, FlushIdle, TypeOK
  <2> QED BY <1>10, <2>1 DEF FlushSwap, Dates, CountersRight, dailyBytes
<1>11. ASSUME NEW f \in Flushers, FlushPersist(f) PROVE Dates'
  <2>1. \A g \in Flushers : flush'[g].at = "prune" => flush'[g] = flush[g]
    BY <1>11 DEF FlushPersist, Flushing, FlushIdle, TypeOK
  <2> QED BY <1>11, <2>1 DEF FlushPersist, Dates, CountersRight, dailyBytes
<1>12. CASE Midnight
  <2>1. \A u \in Users : daily'[u].date < day'
    BY <1>0, <1>12 DEF Midnight, Dates
  <2>2. \A r \in Reqs : req'[r].at = "daily" => req'[r].today <= day'
    BY <1>0, <1>12 DEF Midnight, Dates
  <2>4. DatePending => skewed'
    BY <1>12, Zenon DEF Midnight
  <2>5. /\ \A r \in Reqs : req'[r].at = "daily" => skewed'
        /\ \A f \in Flushers : flush'[f].at = "prune" => skewed'
    BY <1>12, <2>4, Zenon DEF Midnight, DatePending
  <2>3. CountersRight'
    BY <1>0, <1>12, <2>1 DEF Midnight, CountersRight, dailyBytes, Zero
  <2> QED BY <1>0, <1>12, <2>1, <2>2, <2>3, <2>5 DEF Dates, Midnight
<1>13. CASE SaveOther
  BY <1>13, DatesFrame DEF SaveOther
<1>14. CASE Shutdown
  BY <1>14, DatesFrame DEF Shutdown
<1>15. CASE Restart
  <2>1. /\ \A f \in Flushers : flush'[f].at = "idle"
        /\ \A r \in Reqs : req'[r].at = "idle"
    BY <1>15 DEF Restart, FlushIdle, Flushing, NoReq, Request
  <2>2. \A u \in Users : daily'[u].date = 0 /\ daily'[u].bytes = 0 /\ usedToday'[u] = 0
    BY <1>15 DEF Restart, NoEntry, Zero
  <2> QED BY <1>0, <1>15, <2>1, <2>2 DEF Restart, Dates, CountersRight, dailyBytes
<1>16. CASE ViewMerge
  BY <1>16, DatesFrame DEF ViewMerge
<1>19. CASE ViewId \/ ViewStats
  BY <1>19, DatesFrame DEF ViewId, ViewStats
<1>17. CASE UNCHANGED vars
  BY <1>17, DatesFrame DEF vars
<1> QED
  BY <1>1, <1>2, <1>3, <1>4, <1>5, <1>6, <1>7, <1>8, <1>9, <1>10, <1>11, <1>12,
     <1>13, <1>14, <1>15, <1>16, <1>17, <1>18, <1>19 DEF Next
-----------------------------------------------------------------------------
(* The invariant holds when the process starts, whatever its file has on record. *)
LEMMA Initially == Init => TypeOK /\ Books /\ Dates
<1> SUFFICES ASSUME Init PROVE TypeOK /\ Books /\ Dates
  OBVIOUS
<1>1. /\ users \in Seq(Users) /\ stats \in [Users -> Nat] /\ counted = stats
      /\ disk = [list |-> users, stats |-> stats]
  BY TrafficAssumption DEF Init
<1>2. TypeOK
  <2>1. disk \in [list : Seq(Users), stats : [Users -> Nat]]
    BY <1>1
  <2> QED BY <1>1, <2>1, FlushTypes, NobodyType DEF Init, TypeOK, Amounts, Zero, NoEntry
<1>3. Books
  <2>1. StatsConserved
    <3>1. \A u \in Users : /\ live[u] = 0 /\ flush["ticker"].took[u] = 0
                           /\ flush["shutdown"].took[u] = 0
      BY DEF Init, Zero, FlushIdle, Flushing, Flushers
    <3>2. \A u \in Users : stats[u] \in Nat
      BY <1>1
    <3>3. \A s \in Nat : s + 0 + 0 + 0 = s
      OBVIOUS
    <3>4. ASSUME NEW u \in Users
          PROVE stats[u] + live[u] + flush["ticker"].took[u] + flush["shutdown"].took[u] = counted[u]
      <4>1. stats[u] + 0 + 0 + 0 = stats[u]
        BY <3>2, <3>3
      <4>2. counted[u] = stats[u]
        BY <1>1
      <4> QED BY <3>1, <4>1, <4>2, Zenon
    <3> QED BY <3>4 DEF StatsConserved
  <2> QED BY <2>1 DEF Init, Books, FlushIdle, Flushing, NoView
<1>4. Dates
  BY DEF Init, Dates, CountersRight, dailyBytes, Zero, NoEntry, FlushIdle, Flushing, NoReq, Request
<1> QED BY <1>2, <1>3, <1>4

(* The inductive invariant. *)
THEOREM Inductive == Spec => [](TypeOK /\ Books /\ Dates)
<1>1. TypeOK /\ Books /\ Dates /\ [Next]_vars => (TypeOK /\ Books /\ Dates)'
  BY TypeStep, BooksStep, DatesStep
<1> QED BY Initially, <1>1, PTL DEF Spec

(* Traffic told to live.add is in the user's record, in the live counters or in
   the hands of a FlushStats, once: for any number of users and requests, two
   flushes at a time, failed saves, crashes and restarts. *)
THEOREM TrafficIsConserved == Spec => []StatsConserved
<1>1. Books => StatsConserved
  BY DEF Books
<1> QED BY <1>1, Inductive, PTL

(* A row of the admin UI that has the Stats of its own user never shows more
   traffic than was counted, whatever is deleted, imported or flushed while it is
   put together, but for an import that replaces the records. *)
THEOREM ViewsAreNotInflated == Spec => []ViewNeverInflated
<1>1. TypeOK /\ Books => ViewNeverInflated
  <2> SUFFICES ASSUME TypeOK, Books, view.at = "read", ~view.replaced, view.read.id = view.user
               PROVE Merged <= counted[view.user]
    BY DEF ViewNeverInflated
  <2> DEFINE u == view.user
  <2>1. /\ u \in Users /\ view.read.stats \in Nat /\ stats[u] \in Nat /\ live[u] \in Nat
        /\ counted[u] \in Nat
    BY DEF TypeOK, Amounts, View, Record
  <2>2. \A f \in Flushers : flush[f].took[u] \in Nat
    BY <2>1 DEF TypeOK, FlushState, Amounts
  <2>3. stats[u] + live[u] + flush["ticker"].took[u] + flush["shutdown"].took[u] = counted[u]
    BY <2>1 DEF Books, StatsConserved
  <2>4. view.read.stats <= stats[u]
    BY DEF Books
  <2> QED BY <2>1, <2>2, <2>3, <2>4 DEF Merged, Flushers
<1> QED BY <1>1, Inductive, PTL

(* Unless a date outlives its midnight, the daily counter of a user is what was
   counted today; and the state is well typed, no counter negative. *)
THEOREM DailyCounterIsExact == Spec => []DailyExact
<1>1. TypeOK /\ Dates => DailyExact
  BY DEF Dates, DailyExact
<1> QED BY <1>1, Inductive, PTL

(* No request is let in once the traffic counted today amounts to the quota. *)
THEOREM QuotaIsHonoured == Spec => AdmittedUnderQuota
<1>1. TypeOK /\ Dates /\ [Next]_vars
        => [\A r \in Reqs : ~skewed /\ req[r].at = "idle" /\ req'[r].at = "open"
              => LET u == req'[r].user IN Limit[u] > 0 => usedToday[u] < Limit[u]]_vars
  <2> SUFFICES ASSUME TypeOK, Dates, [Next]_vars, NEW r \in Reqs,
                      ~skewed, req[r].at = "idle", req'[r].at = "open",
                      Limit[req'[r].user] > 0
               PROVE usedToday[req'[r].user] < Limit[req'[r].user]
    OBVIOUS
  <2>1. \E u \in Users : Admit(r, u)
    <3>1. req' # req
      OBVIOUS
    <3>2. PICK q \in Reqs : \/ \E u \in Users : Admit(q, u)
                            \/ Fail(q)
                            \/ \E n \in 1 .. MaxMove, more \in BOOLEAN : Count(q, n, more)
                            \/ DailyAdd(q)
                            \/ Restart
      BY <3>1 DEF Next, vars, ResetDaily, DeleteUser, ViewConfig, ViewId, ViewStats, Import, FlushBegin, FlushPrune,
                  FlushSwap, FlushPersist, Midnight, SaveOther, Shutdown, ViewMerge
    <3>3. CASE Fail(q)
      BY <3>3 DEF Fail, TypeOK, NoReq, Request
    <3>4. CASE \E n \in 1 .. MaxMove, more \in BOOLEAN : Count(q, n, more)
      BY <3>4 DEF Count, Counting, TypeOK
    <3>5. CASE DailyAdd(q)
      BY <3>5 DEF DailyAdd, NoReq, Request, TypeOK
    <3>6. CASE Restart
      BY <3>6 DEF Restart, NoReq, Request
    <3>7. CASE \E u \in Users : Admit(q, u)
      BY <3>7 DEF Admit, TypeOK
    <3> QED BY <3>2, <3>3, <3>4, <3>5, <3>6, <3>7
  <2>2. PICK u \in Users : Admit(r, u)
    BY <2>1
  <2>3. req'[r].user = u
    BY <2>2 DEF Admit, Request, TypeOK
  <2> QED BY <2>2, <2>3 DEF Admit, WithinQuota, Dates, CountersRight
<1> QED BY <1>1, Inductive, PTL DEF Spec, AdmittedUnderQuota
=============================================================================
