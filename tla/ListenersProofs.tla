-------------------------- MODULE ListenersProofs --------------------------
(***************************************************************************)
(* Proofs about Listeners, for any addresses, any number of handlers and   *)
(* whatever other processes do.  The invariant says who owns which socket: *)
(* a server that is registered, one that is being closed, one that a       *)
(* handler has captured to close it, the one Start has yet to register,    *)
(* and the probes are all different.                                       *)
(***************************************************************************)
EXTENDS Listeners, TLAPS

(* The address that a handler is about to probe, or is probing. *)
ProbeAddr(h) == job[h].next[First(job[h].todo)]

(* What a handler has to do is known, and who calls back holds the lock, with the
   configuration saved. *)
JobsOK ==
  /\ \A h \in Handlers :
       /\ job[h].at \in {"probe", "probing"} => job[h].todo # {} /\ job[h].next \in Config
       /\ job[h].at = "commit" => job[h].next \in Config \cup {NoAddrs}
       /\ job[h].at = "bind" => job[h].todo # {}
       /\ job[h].at \in {"notify", "bind"} <=> lock = h
       /\ job[h].at # "idle" => Answering
  /\ lock # None => mem = disk

(* Start's progress. *)
StartOK ==
  /\ main \in {"proxy", "down"} => reg = NoAddrs
  /\ main = "admin" => reg["admin"] = None /\ reg["proxy"] = mem["proxy"]
  /\ IF main = "register"
     THEN boot \in Addrs /\ sock[boot] = "admin" /\ boot \notin closing /\ reg["admin"] # boot
     ELSE boot = None

(* A server that is registered, or that a handler has captured to close it. *)
SocketsOK ==
  /\ \A k \in Kinds : reg[k] # None => sock[reg[k]] = k /\ reg[k] \notin closing
  /\ \A a \in closing : sock[a] \in Kinds
  /\ \A h \in Handlers, k \in Kinds :
       job[h].at = "bind" /\ k \in job[h].todo /\ job[h].old[k] # None =>
         sock[job[h].old[k]] = k /\ job[h].old[k] \notin closing /\ job[h].old[k] # boot

ProbesOK ==
  /\ \A h \in Handlers : job[h].at = "probing" => sock[ProbeAddr(h)] = "probe"
  /\ \A h, g \in Handlers :
       job[h].at = "probing" /\ job[g].at = "probing" /\ h # g => ProbeAddr(h) # ProbeAddr(g)

(* As long as no change was applied while Start was under way: what a handler has
   captured is what is registered, and what it does not still have to bind is
   where it belongs. *)
AppliedOK ==
  ~early =>
    /\ \A h \in Handlers : job[h].at = "bind" =>
         /\ main = "up"
         /\ \A k \in job[h].todo : job[h].old[k] = reg[k]
         /\ \A k \in Kinds \ (behind \cup job[h].todo) : reg[k] = mem[k]
    /\ main = "register" => reg["admin"] = None
    /\ main = "register" /\ lock = None =>
         /\ "proxy" \notin behind => reg["proxy"] = mem["proxy"]
         /\ "admin" \notin behind => boot = mem["admin"]

IInv == /\ TypeOK /\ JobsOK /\ StartOK /\ SocketsOK /\ ProbesOK
        /\ AppliedOK /\ NoLeakedListener /\ ChangesApplied
-----------------------------------------------------------------------------
(* The kinds, and the records that the actions write. *)
LEMMA KindFacts ==
  /\ "proxy" \in Kinds /\ "admin" \in Kinds /\ None \notin Addrs /\ None \notin Handlers
  /\ \A a \in Kinds : a \notin {"free", "foreign", "probe"} /\ a \in Holders
  /\ NoAddrs \in [Kinds -> Addrs \cup {None}] /\ \A k \in Kinds : NoAddrs[k] = None
  /\ \A S \in SUBSET Kinds : S # {} => First(S) \in S
BY ListenAssumption DEF Kinds, NoAddrs, First, Holders, ListenAssumption

(* A handler at rest, and what the handlers make of it. *)
LEMMA IdleFacts ==
  /\ Idle \in Job /\ Idle.at = "idle" /\ Idle.next = NoAddrs /\ Idle.todo = {} /\ Idle.old = NoAddrs
  /\ \A at \in Steps : [Idle EXCEPT !.at = at] \in Job
  /\ \A at \in Steps, next \in [Kinds -> Addrs \cup {None}], todo \in SUBSET Kinds :
       [Idle EXCEPT !.at = at, !.next = next, !.todo = todo] \in Job
  /\ \A at \in Steps, todo \in SUBSET Kinds, old \in [Kinds -> Addrs \cup {None}] :
       [Idle EXCEPT !.at = at, !.todo = todo, !.old = old] \in Job
<1>1. "idle" \in Steps /\ NoAddrs \in [Kinds -> Addrs \cup {None}] /\ {} \in SUBSET Kinds
  BY KindFacts DEF Steps
<1>2. QED
  BY <1>1 DEF Idle, Job

(* The process ends. *)
LEMMA ExitStep ==
  ASSUME IInv, Exit
  PROVE  IInv'
<1>1. TypeOK'
  BY IdleFacts, KindFacts DEF IInv, TypeOK, Exit, Released, Holders
<1>2. job' = [h \in Handlers |-> Idle] /\ \A h \in Handlers : job'[h].at = "idle"
  BY IdleFacts DEF Exit
<1>3. \A a \in Addrs : sock'[a] \in {"free", "foreign"}
  BY DEF Exit, Released
<1>4. JobsOK'
  BY <1>2, KindFacts DEF Exit, JobsOK
<1>5. StartOK' /\ SocketsOK' /\ ProbesOK'
  BY <1>2, KindFacts DEF Exit, StartOK, SocketsOK, ProbesOK
<1>6. AppliedOK' /\ ChangesApplied'
  BY <1>2 DEF Exit, AppliedOK, ChangesApplied
<1>7. NoLeakedListener'
  BY <1>3, KindFacts DEF NoLeakedListener
<1>8. QED
  BY <1>1, <1>4, <1>5, <1>6, <1>7 DEF IInv

(* A new process reads the file. *)
LEMMA RestartStep ==
  ASSUME IInv, Restart
  PROVE  IInv'
<1> USE DEF IInv, Restart
<1>1. TypeOK'
  BY DEF TypeOK
<1>2. (\A h \in Handlers : job[h].at = "idle") /\ lock = None
  BY DEF TypeOK, JobsOK, Answering
<1>3. JobsOK'
  BY <1>2 DEF JobsOK
<1>4. StartOK' /\ SocketsOK'
  BY <1>2 DEF StartOK, SocketsOK
<1>5. ProbesOK'
  BY <1>2 DEF ProbesOK
<1>6. AppliedOK' /\ ChangesApplied' /\ NoLeakedListener'
  BY <1>2 DEF AppliedOK, ChangesApplied, NoLeakedListener
<1>7. QED
  BY <1>1, <1>3, <1>4, <1>5, <1>6

(* Start, the proxy listener: bound and registered, or the process ends. *)
LEMMA StartProxyStep ==
  ASSUME IInv, StartProxy
  PROVE  IInv'
<1> DEFINE a == mem["proxy"]
<1>0. main = "proxy" /\ a \in Addrs /\ reg = NoAddrs /\ boot = None
  BY KindFacts DEF IInv, TypeOK, Config, StartProxy, StartOK
<1>1. (\A h \in Handlers : job[h].at = "idle") /\ lock = None
  BY <1>0 DEF IInv, TypeOK, JobsOK, Answering
<1>2. CASE ~Free(a)
  BY <1>2, ExitStep DEF StartProxy
<1>3. CASE Free(a)
  <2>1. /\ sock' = [sock EXCEPT ![a] = "proxy"] /\ reg' = [reg EXCEPT !["proxy"] = a]
        /\ main' = "admin" /\ UNCHANGED <<mem, disk, lock, closing, boot, job, behind, early>>
    BY <1>3 DEF StartProxy
  <2>2. /\ sock'[a] = "proxy" /\ (\A b \in Addrs \ {a} : sock'[b] = sock[b]) /\ sock[a] = "free"
        /\ reg'["proxy"] = a /\ reg'["admin"] = None
    BY <1>0, <1>3, <2>1, KindFacts DEF IInv, TypeOK, Free
  <2>3. TypeOK'
    BY <1>0, <2>1, KindFacts DEF IInv, TypeOK, Holders
  <2>4. JobsOK'
    BY <1>1, <2>1 DEF IInv, JobsOK
  <2>5. StartOK'
    BY <1>0, <2>1, <2>2 DEF StartOK
  <2>6. SocketsOK' /\ ProbesOK'
    <3>1. \A b \in closing : b # a
      BY <2>2, KindFacts DEF IInv, SocketsOK
    <3>2. QED
      BY <1>1, <2>1, <2>2, <2>3, <3>1 DEF IInv, SocketsOK, ProbesOK, TypeOK, Kinds
  <2>7. AppliedOK' /\ ChangesApplied'
    BY <1>1, <2>1 DEF AppliedOK, ChangesApplied
  <2>8. NoLeakedListener'
    <3>1. \A b \in Addrs : sock[b] \in Kinds => reg[sock[b]] = None
      BY <1>0, KindFacts
    <3>2. QED
      BY <1>0, <2>1, <2>2, <3>1, KindFacts DEF IInv, NoLeakedListener
  <2>9. QED
    BY <2>3, <2>4, <2>5, <2>6, <2>7, <2>8 DEF IInv
<1>4. QED
  BY <1>2, <1>3

(* Start, the admin listener: bound, not yet registered. *)
LEMMA StartAdminStep ==
  ASSUME IInv, StartAdmin
  PROVE  IInv'
<1> DEFINE a == mem["admin"]
<1>0. main = "admin" /\ a \in Addrs /\ reg["admin"] = None /\ reg["proxy"] = mem["proxy"] /\ boot = None
  BY KindFacts DEF IInv, TypeOK, Config, StartAdmin, StartOK
<1>1. (\A h \in Handlers : job[h].at = "idle") /\ lock = None
  BY <1>0 DEF IInv, TypeOK, JobsOK, Answering
<1>2. CASE ~Free(a)
  BY <1>2, ExitStep DEF StartAdmin
<1>3. CASE Free(a)
  <2>1. /\ sock' = [sock EXCEPT ![a] = "admin"] /\ main' = "register" /\ boot' = a
        /\ UNCHANGED <<mem, disk, lock, reg, closing, job, behind, early>>
    BY <1>3 DEF StartAdmin
  <2>2. /\ sock'[a] = "admin" /\ (\A b \in Addrs \ {a} : sock'[b] = sock[b]) /\ sock[a] = "free"
    BY <1>0, <1>3, <2>1 DEF IInv, TypeOK, Free
  <2>3. TypeOK'
    BY <1>0, <2>1, KindFacts DEF IInv, TypeOK, Holders
  <2>4. JobsOK'
    BY <1>1, <2>1 DEF IInv, JobsOK
  <2>5. \A b \in closing : b # a
    BY <2>2, KindFacts DEF IInv, SocketsOK
  <2>6. StartOK'
    BY <1>0, <2>1, <2>2, <2>5, KindFacts DEF StartOK
  <2>7. SocketsOK'
    <3>1. \A k \in Kinds : reg[k] # a
      BY <1>0, <2>2, KindFacts DEF IInv, SocketsOK
    <3>2. \A k \in Kinds : reg[k] # None => reg[k] \in Addrs
      BY DEF IInv, TypeOK
    <3>3. \A k \in Kinds : reg'[k] # None => sock'[reg'[k]] = k /\ reg'[k] \notin closing'
      BY <2>1, <2>2, <3>1, <3>2 DEF IInv, SocketsOK
    <3>4. \A b \in closing' : sock'[b] \in Kinds
      BY <2>1, <2>2, <2>5 DEF IInv, SocketsOK, TypeOK
    <3>5. QED
      BY <1>1, <2>1, <3>3, <3>4 DEF SocketsOK
  <2>8. ProbesOK'
    BY <1>1, <2>1 DEF ProbesOK
  <2>9. AppliedOK' /\ ChangesApplied'
    BY <1>0, <1>1, <2>1 DEF AppliedOK, ChangesApplied
  <2>10. NoLeakedListener'
    BY <1>0, <2>1, <2>2, KindFacts DEF IInv, NoLeakedListener
  <2>11. QED
    BY <2>3, <2>4, <2>6, <2>7, <2>8, <2>9, <2>10 DEF IInv
<1>4. QED
  BY <1>2, <1>3

(* Start registers its admin server; what a handler may have bound meanwhile is
   forgotten, if early. *)
LEMMA StartRegisterStep ==
  ASSUME IInv, StartRegister
  PROVE  IInv'
<1>1. /\ main = "register" /\ reg' = [reg EXCEPT !["admin"] = boot] /\ main' = "up" /\ boot' = None
      /\ UNCHANGED <<mem, disk, lock, sock, closing, job, behind, early>>
  BY DEF StartRegister
<1>2. boot \in Addrs /\ sock[boot] = "admin" /\ boot \notin closing /\ reg["admin"] # boot
  BY <1>1 DEF IInv, StartOK
<1>3. reg'["admin"] = boot /\ reg'["proxy"] = reg["proxy"]
  BY <1>1, KindFacts DEF IInv, TypeOK
<1>4. TypeOK'
  BY <1>1, <1>2 DEF IInv, TypeOK
<1>5. JobsOK'
  BY <1>1 DEF IInv, JobsOK, Answering
<1>6. StartOK'
  BY <1>1 DEF StartOK
<1>7. SocketsOK'
  <2>1. \A k \in Kinds : reg'[k] # None => sock'[reg'[k]] = k /\ reg'[k] \notin closing'
    BY <1>1, <1>2, <1>3 DEF IInv, SocketsOK, Kinds
  <2>2. \A h \in Handlers, k \in Kinds :
          job[h].at = "bind" /\ k \in job[h].todo /\ job[h].old[k] # None =>
            sock[job[h].old[k]] = k /\ job[h].old[k] \notin closing
    BY DEF IInv, SocketsOK
  <2>3. \A a \in closing : sock[a] \in Kinds
    BY DEF IInv, SocketsOK
  <2>4. QED
    BY <1>1, <2>1, <2>2, <2>3 DEF SocketsOK
<1>8. ProbesOK'
  BY <1>1 DEF IInv, ProbesOK, ProbeAddr
<1>9. ~early => \A h \in Handlers : job[h].at # "bind"
  BY <1>1 DEF IInv, AppliedOK
<1>10. AppliedOK'
  BY <1>1, <1>9 DEF AppliedOK
<1>11. ChangesApplied'
  BY <1>1, <1>3 DEF IInv, AppliedOK, ChangesApplied, Kinds
<1>12. NoLeakedListener'
  <2>1. ~early => reg["admin"] = None
    BY <1>1 DEF IInv, AppliedOK
  <2>2. QED
    BY <1>1, <1>2, <1>3, <2>1, KindFacts DEF IInv, NoLeakedListener, Kinds
<1>13. QED
  BY <1>4, <1>5, <1>6, <1>7, <1>8, <1>10, <1>11, <1>12 DEF IInv

(* A silent save. *)
LEMMA FlushStep ==
  ASSUME IInv, FlushStats
  PROVE  IInv'
<1>1. /\ lock = None /\ disk' = mem
      /\ UNCHANGED <<mem, lock, sock, reg, closing, main, boot, job, behind, early>>
  BY DEF FlushStats
<1>2. TypeOK' /\ JobsOK'
  BY <1>1 DEF IInv, TypeOK, JobsOK, Answering
<1>3. StartOK' /\ SocketsOK' /\ ProbesOK' /\ AppliedOK' /\ NoLeakedListener' /\ ChangesApplied'
  BY <1>1 DEF IInv, StartOK, SocketsOK, ProbesOK, ProbeAddr, AppliedOK, NoLeakedListener, ChangesApplied
<1>4. QED
  BY <1>2, <1>3 DEF IInv

(* Nothing changes but the holder of one address a, which is no registered,
   captured or probed one, nor the one Start has yet to register. *)
LEMMA SockStep ==
  ASSUME IInv, NEW a \in Addrs, NEW new \in Holders, sock' = [sock EXCEPT ![a] = new],
         UNCHANGED <<mem, disk, lock, reg, main, boot, job, behind, early>>,
         closing' = closing \ {a}, new \in {"free", "foreign"},
         \/ a \in closing
         \/ sock[a] \in {"free", "foreign"}
  PROVE  IInv'
<1>1. sock'[a] = new /\ (\A b \in Addrs \ {a} : sock'[b] = sock[b])
  BY DEF IInv, TypeOK
<1>2. TypeOK'
  BY DEF IInv, TypeOK
<1>3. JobsOK'
  BY DEF IInv, JobsOK, Answering
<1>4. StartOK'
  BY <1>1, KindFacts DEF IInv, StartOK
<1>5. SocketsOK'
  <2>1. \A k \in Kinds : reg[k] # None => reg[k] \in Addrs /\ reg[k] # a
    BY KindFacts DEF IInv, SocketsOK, TypeOK
  <2>2. \A h \in Handlers, k \in Kinds : job[h].old[k] # None => job[h].old[k] \in Addrs
    BY DEF IInv, TypeOK, Job
  <2>3. \A h \in Handlers, k \in Kinds :
          job[h].at = "bind" /\ k \in job[h].todo /\ job[h].old[k] # None => job[h].old[k] # a
    BY KindFacts DEF IInv, SocketsOK
  <2>4. \A k \in Kinds : reg'[k] # None => sock'[reg'[k]] = k /\ reg'[k] \notin closing'
    BY <1>1, <2>1 DEF IInv, SocketsOK
  <2>5. \A b \in closing' : sock'[b] \in Kinds
    BY <1>1 DEF IInv, SocketsOK, TypeOK
  <2>6. QED
    BY <1>1, <2>2, <2>3, <2>4, <2>5 DEF IInv, SocketsOK
<1>6. ProbesOK'
  <2>1. ASSUME NEW h \in Handlers, job[h].at = "probing"
        PROVE  ProbeAddr(h) \in Addrs /\ ProbeAddr(h) # a /\ ProbeAddr(h)' = ProbeAddr(h)
    <3>1. job[h].todo \in SUBSET Kinds /\ job[h].todo # {} /\ job[h].next \in Config
      BY <2>1 DEF IInv, TypeOK, JobsOK, Job
    <3>2. First(job[h].todo) \in Kinds
      BY <3>1, KindFacts
    <3>3. ProbeAddr(h) \in Addrs
      BY <3>1, <3>2 DEF ProbeAddr, Config
    <3>4. sock[ProbeAddr(h)] = "probe"
      BY <2>1 DEF IInv, ProbesOK
    <3>5. QED
      BY <3>3, <3>4, KindFacts DEF IInv, SocketsOK, ProbeAddr
  <2>2. QED
    BY <1>1, <2>1 DEF IInv, ProbesOK
<1>7. AppliedOK' /\ ChangesApplied'
  BY DEF IInv, AppliedOK, ChangesApplied
<1>8. NoLeakedListener'
  BY <1>1, KindFacts DEF IInv, NoLeakedListener
<1>9. QED
  BY <1>2, <1>3, <1>4, <1>5, <1>6, <1>7, <1>8 DEF IInv

(* The background close of an old server, and the other processes. *)
LEMMA OutsideSteps ==
  ASSUME IInv, NEW a \in Addrs, CloseOld(a) \/ Foreign(a)
  PROVE  IInv'
<1>1. CASE CloseOld(a)
  <2>1. "free" \in Holders
    BY DEF Holders
  <2>2. QED
    BY <1>1, <2>1, SockStep DEF CloseOld
<1>2. CASE Foreign(a)
  <2>1. "free" \in Holders /\ "foreign" \in Holders
    BY DEF Holders
  <2>2. sock[a] \in {"free", "foreign"} /\ closing' = closing /\ a \notin closing
    BY <1>2, KindFacts DEF IInv, SocketsOK, Foreign, Free
  <2>3. closing' = closing \ {a}
    BY <2>2
  <2>4. PICK new \in {"free", "foreign"} : sock' = [sock EXCEPT ![a] = new]
    BY <1>2 DEF Foreign
  <2>5. QED
    BY <1>2, <2>1, <2>2, <2>3, <2>4, SockStep DEF Foreign
<1>3. QED
  BY <1>1, <1>2
-----------------------------------------------------------------------------
(* Nothing changes but what one handler is doing, and it holds neither the lock
   nor a socket, before or after. *)
LEMMA JobStep ==
  ASSUME IInv, NEW h \in Handlers, NEW x \in Job, job' = [job EXCEPT ![h] = x],
         UNCHANGED <<mem, disk, lock, sock, reg, closing, main, boot, behind, early>>,
         job[h].at \in {"idle", "probe", "commit"}, x.at \in {"idle", "probe", "commit"},
         x.at = "probe" => x.todo # {} /\ x.next \in Config,
         x.at = "commit" => x.next \in Config \cup {NoAddrs},
         Answering
  PROVE  IInv'
<1>1. job'[h] = x /\ \A g \in Handlers \ {h} : job'[g] = job[g]
  BY DEF IInv, TypeOK
<1>2. TypeOK'
  BY DEF IInv, TypeOK
<1>3. JobsOK'
  BY <1>1 DEF IInv, JobsOK, Answering
<1>4. StartOK'
  BY DEF IInv, StartOK
<1>5. SocketsOK' /\ AppliedOK'
  BY <1>1 DEF IInv, SocketsOK, AppliedOK
<1>6. ProbesOK'
  BY <1>1 DEF IInv, ProbesOK, ProbeAddr
<1>7. NoLeakedListener' /\ ChangesApplied'
  BY DEF IInv, NoLeakedListener, ChangesApplied
<1>8. QED
  BY <1>2, <1>3, <1>4, <1>5, <1>6, <1>7 DEF IInv

(* A handler reads the configuration, and refuses, without touching a socket. *)
LEMMA BeginSteps ==
  ASSUME IInv, NEW h \in Handlers, PutBegin(h) \/ ImportBegin(h) \/ OtherBegin(h) \/ Refuse(h)
  PROVE  IInv'
<1>0. \A at \in {"probe", "commit"} : at \in Steps
  BY DEF Steps
<1>1. ASSUME NEW next \in Config, Begin(h, next) PROVE IInv'
  <2> DEFINE todo == {k \in Kinds : next[k] # mem[k]}
             at == IF todo = {} THEN "commit" ELSE "probe"
             x == [Idle EXCEPT !.at = at, !.next = next, !.todo = todo]
  <2>1. next \in [Kinds -> Addrs \cup {None}] /\ todo \in SUBSET Kinds /\ at \in Steps
    BY <1>0 DEF Config
  <2>2. x \in Job
    BY <2>1, IdleFacts
  <2>3. x.at = at /\ x.next = next /\ x.todo = todo
    BY DEF Idle
  <2>4. /\ job' = [job EXCEPT ![h] = x] /\ job[h].at = "idle" /\ Answering
        /\ UNCHANGED <<mem, disk, lock, sock, reg, closing, main, boot, behind, early>>
    BY <1>1 DEF Begin
  <2>5. at \in {"probe", "commit"} /\ (at = "probe" => todo # {})
    OBVIOUS
  <2> HIDE DEF x, at, todo
  <2>6. QED
    BY <2>2, <2>3, <2>4, <2>5, JobStep
<1>2. CASE PutBegin(h)
  <2>1. PICK patch \in [Kinds -> Addrs \cup {None}] : Begin(h, Patched(patch))
    BY <1>2 DEF PutBegin
  <2>2. Patched(patch) \in Config
    BY DEF Patched, IInv, TypeOK, Config
  <2>3. QED
    BY <1>1, <2>1, <2>2
<1>3. CASE ImportBegin(h)
  BY <1>1, <1>3 DEF ImportBegin
<1>4. CASE OtherBegin(h)
  <2> DEFINE x == [Idle EXCEPT !.at = "commit"]
  <2>1. x \in Job /\ x.at = "commit" /\ x.next = NoAddrs
    BY <1>0, IdleFacts DEF Idle
  <2>2. /\ job' = [job EXCEPT ![h] = x] /\ job[h].at = "idle" /\ Answering
        /\ UNCHANGED <<mem, disk, lock, sock, reg, closing, main, boot, behind, early>>
    BY <1>4 DEF OtherBegin
  <2> HIDE DEF x
  <2>3. QED
    BY <2>1, <2>2, JobStep
<1>5. CASE Refuse(h)
  <2>1. Answering
    BY <1>5 DEF IInv, JobsOK, Refuse
  <2>2. QED
    BY <1>5, <2>1, IdleFacts, JobStep DEF Refuse
<1>6. QED
  BY <1>2, <1>3, <1>4, <1>5

(* What is known of a handler that probes. *)
LEMMA ProbeFacts ==
  ASSUME IInv, NEW h \in Handlers, job[h].at \in {"probe", "probing"}
  PROVE  /\ First(job[h].todo) \in job[h].todo /\ job[h].todo \in SUBSET Kinds
         /\ job[h].next \in Config /\ ProbeAddr(h) \in Addrs /\ Answering
         /\ job[h] \in Job
<1>1. job[h].todo \in SUBSET Kinds /\ job[h].todo # {} /\ job[h].next \in Config /\ Answering
  BY DEF IInv, TypeOK, JobsOK, Job
<1>2. First(job[h].todo) \in job[h].todo
  BY <1>1, KindFacts
<1>3. QED
  BY <1>1, <1>2 DEF ProbeAddr, Config, IInv, TypeOK

(* A probe opens its address, or the request is refused. *)
LEMMA ProbeStep ==
  ASSUME IInv, NEW h \in Handlers, Probe(h)
  PROVE  IInv'
<1> DEFINE a == ProbeAddr(h)
<1>0. job[h].at = "probe" /\ a \in Addrs /\ Answering /\ job[h] \in Job
      /\ UNCHANGED <<mem, disk, lock, reg, closing, main, boot, behind, early>>
  BY ProbeFacts DEF Probe
<1>1. CASE ~Free(a)
  <2>1. job' = [job EXCEPT ![h] = Idle] /\ sock' = sock
    BY <1>1 DEF Probe, ProbeAddr
  <2>2. QED
    BY <1>0, <2>1, IdleFacts, JobStep
<1>2. CASE Free(a)
  <2>1. sock' = [sock EXCEPT ![a] = "probe"] /\ job' = [job EXCEPT ![h].at = "probing"] /\ sock[a] = "free"
    BY <1>2 DEF Probe, ProbeAddr, Free
  <2>2. /\ job'[h].at = "probing" /\ job'[h].todo = job[h].todo /\ job'[h].next = job[h].next
        /\ job'[h] \in Job
        /\ \A g \in Handlers \ {h} : job'[g] = job[g]
    BY <1>0, <2>1 DEF IInv, TypeOK, Job, Steps
  <2>3. ProbeAddr(h)' = a /\ \A g \in Handlers \ {h} : ProbeAddr(g)' = ProbeAddr(g)
    BY <2>2 DEF ProbeAddr
  <2> HIDE DEF a
  <2>4. sock'[a] = "probe" /\ \A b \in Addrs \ {a} : sock'[b] = sock[b]
    BY <1>0, <2>1 DEF IInv, TypeOK
  <2>5. TypeOK'
    <3>1. sock' \in [Addrs -> Holders]
      BY <2>1 DEF IInv, TypeOK, Holders
    <3>2. job' \in [Handlers -> Job]
      BY <2>1, <2>2 DEF IInv, TypeOK
    <3>3. QED
      BY <1>0, <3>1, <3>2 DEF IInv, TypeOK
  <2>6. JobsOK'
    BY <1>0, <2>2 DEF IInv, JobsOK, Answering
  <2>7. \A b \in Addrs : sock[b] # "free" => sock'[b] = sock[b]
    BY <2>1, <2>4
  <2>8. StartOK'
    BY <1>0, <2>7 DEF IInv, StartOK
  <2>9. SocketsOK'
    <3>1. \A k \in Kinds : reg[k] # None => reg[k] \in Addrs
      BY DEF IInv, TypeOK
    <3>2. \A g \in Handlers, k \in Kinds : job[g].old[k] # None => job[g].old[k] \in Addrs
      BY DEF IInv, TypeOK, Job
    <3>3. \A k \in Kinds : reg'[k] # None => sock'[reg'[k]] = k /\ reg'[k] \notin closing'
      BY <1>0, <2>7, <3>1, KindFacts DEF IInv, SocketsOK
    <3>4. \A b \in closing' : sock'[b] \in Kinds
      BY <1>0, <2>7, KindFacts DEF IInv, SocketsOK, TypeOK
    <3>5. \A g \in Handlers : job'[g].at = "bind" => job'[g] = job[g]
      BY <2>2
    <3>6. \A g \in Handlers, k \in Kinds :
            job'[g].at = "bind" /\ k \in job'[g].todo /\ job'[g].old[k] # None =>
              sock'[job'[g].old[k]] = k /\ job'[g].old[k] \notin closing' /\ job'[g].old[k] # boot'
      BY <1>0, <2>7, <3>2, <3>5, KindFacts DEF IInv, SocketsOK
    <3>7. QED
      BY <3>3, <3>4, <3>6 DEF SocketsOK
  <2>10. ProbesOK'
    <3>1. \A g \in Handlers \ {h} : job[g].at = "probing" => ProbeAddr(g) # a /\ ProbeAddr(g) \in Addrs
      BY <2>1, ProbeFacts DEF IInv, ProbesOK
    <3>2. QED
      BY <2>2, <2>3, <2>4, <3>1 DEF IInv, ProbesOK
  <2>11. AppliedOK' /\ ChangesApplied'
    BY <1>0, <2>2 DEF IInv, AppliedOK, ChangesApplied
  <2>12. NoLeakedListener'
    BY <1>0, <2>4, KindFacts DEF IInv, NoLeakedListener
  <2>13. QED
    BY <2>5, <2>6, <2>8, <2>9, <2>10, <2>11, <2>12 DEF IInv
<1>3. QED
  BY <1>1, <1>2

(* A probe closes its address: nobody else has it. *)
LEMMA ProbeCloseStep ==
  ASSUME IInv, NEW h \in Handlers, ProbeClose(h)
  PROVE  IInv'
<1> DEFINE k0 == First(job[h].todo)
           rest == job[h].todo \ {k0}
           at == IF rest = {} THEN "commit" ELSE "probe"
           a == ProbeAddr(h)
<1>0. job[h].at = "probing" /\ a \in Addrs /\ Answering /\ job[h] \in Job /\ job[h].next \in Config
      /\ rest \in SUBSET Kinds /\ sock[a] = "probe"
      /\ UNCHANGED <<mem, disk, lock, reg, closing, main, boot, behind, early>>
  BY ProbeFacts DEF ProbeClose, IInv, ProbesOK
<1>1. sock' = [sock EXCEPT ![a] = "free"] /\ job' = [job EXCEPT ![h].todo = rest, ![h].at = at]
  BY DEF ProbeClose, ProbeAddr
<1>2. at \in {"commit", "probe"} /\ at \in Steps /\ (at = "probe" => rest # {})
  BY DEF Steps
<1> HIDE DEF rest, at, k0, a
<1>3. /\ job'[h].at = at /\ job'[h].todo = rest /\ job'[h].next = job[h].next
      /\ job'[h] \in Job
      /\ \A g \in Handlers \ {h} : job'[g] = job[g]
  BY <1>0, <1>1, <1>2 DEF IInv, TypeOK, Job
<1>4. sock'[a] = "free" /\ \A b \in Addrs : sock[b] # "probe" => sock'[b] = sock[b]
  BY <1>0, <1>1 DEF IInv, TypeOK
<1>5. TypeOK'
  <2>1. sock' \in [Addrs -> Holders]
    BY <1>1 DEF IInv, TypeOK, Holders
  <2>2. job' \in [Handlers -> Job]
    BY <1>1, <1>3 DEF IInv, TypeOK
  <2>3. QED
    BY <1>0, <2>1, <2>2 DEF IInv, TypeOK
<1>6. JobsOK'
  BY <1>0, <1>2, <1>3 DEF IInv, JobsOK, Answering
<1>7. StartOK'
  BY <1>0, <1>4 DEF IInv, StartOK
<1>8. SocketsOK'
  <2>1. \A k \in Kinds : reg[k] # None => reg[k] \in Addrs
    BY DEF IInv, TypeOK
  <2>2. \A g \in Handlers, k \in Kinds : job[g].old[k] # None => job[g].old[k] \in Addrs
    BY DEF IInv, TypeOK, Job
  <2>3. \A k \in Kinds : reg'[k] # None => sock'[reg'[k]] = k /\ reg'[k] \notin closing'
    BY <1>0, <1>4, <2>1, KindFacts DEF IInv, SocketsOK
  <2>4. \A b \in closing' : sock'[b] \in Kinds
    BY <1>0, <1>4, KindFacts DEF IInv, SocketsOK, TypeOK
  <2>5. \A g \in Handlers : job'[g].at = "bind" => job'[g] = job[g]
    BY <1>2, <1>3
  <2>6. \A g \in Handlers, k \in Kinds :
          job'[g].at = "bind" /\ k \in job'[g].todo /\ job'[g].old[k] # None =>
            sock'[job'[g].old[k]] = k /\ job'[g].old[k] \notin closing' /\ job'[g].old[k] # boot'
    BY <1>0, <1>4, <2>2, <2>5, KindFacts DEF IInv, SocketsOK
  <2>7. QED
    BY <2>3, <2>4, <2>6 DEF SocketsOK
<1>9. ProbesOK'
  <2>1. \A g \in Handlers \ {h} : job[g].at = "probing" =>
          ProbeAddr(g) # a /\ ProbeAddr(g) \in Addrs /\ ProbeAddr(g)' = ProbeAddr(g)
    BY <1>0, <1>3, ProbeFacts DEF IInv, ProbesOK, ProbeAddr, a
  <2>2. \A b \in Addrs \ {a} : sock'[b] = sock[b]
    BY <1>1 DEF IInv, TypeOK
  <2>3. job'[h].at # "probing"
    BY <1>2, <1>3
  <2>4. QED
    BY <1>3, <2>1, <2>2, <2>3 DEF IInv, ProbesOK
<1>10. AppliedOK' /\ ChangesApplied'
  BY <1>0, <1>2, <1>3 DEF IInv, AppliedOK, ChangesApplied
<1>11. NoLeakedListener'
  <2>1. \A b \in Addrs : sock'[b] \in Kinds => sock'[b] = sock[b]
    BY <1>1, KindFacts DEF IInv, TypeOK
  <2>2. QED
    BY <1>0, <2>1 DEF IInv, NoLeakedListener
<1>12. QED
  BY <1>5, <1>6, <1>7, <1>8, <1>9, <1>10, <1>11 DEF IInv
-----------------------------------------------------------------------------
(* Store.update saves, or fails to: nobody holds the lock, and nobody binds. *)
LEMMA CommitStep ==
  ASSUME IInv, NEW h \in Handlers, Commit(h)
  PROVE  IInv'
<1>0. /\ job[h].at = "commit" /\ lock = None /\ Answering /\ mem' \in Config
      /\ UNCHANGED <<sock, reg, closing, main, boot, early>>
  BY KindFacts DEF IInv, TypeOK, JobsOK, Commit
<1>1. \A g \in Handlers : job[g].at \notin {"notify", "bind"}
  BY <1>0, KindFacts DEF IInv, JobsOK
<1>2. PICK x \in Job : /\ job' = [job EXCEPT ![h] = x]
                       /\ \/ x.at = "notify" /\ lock' = h /\ disk' = mem' /\ behind' = behind
                          \/ x.at = "idle" /\ lock' = None /\ disk' = disk /\ behind' = Kinds
  <2>1. [Idle EXCEPT !.at = "notify"] \in Job /\ [Idle EXCEPT !.at = "notify"].at = "notify"
    BY IdleFacts DEF Steps, Idle
  <2>2. QED
    BY <1>0, <2>1, IdleFacts DEF Commit
<1>3. job'[h] = x /\ \A g \in Handlers \ {h} : job'[g] = job[g]
  BY <1>2 DEF IInv, TypeOK
<1>4. TypeOK'
  BY <1>0, <1>2 DEF IInv, TypeOK
<1>5. JobsOK'
  BY <1>0, <1>1, <1>2, <1>3, KindFacts DEF IInv, JobsOK, Answering
<1>6. StartOK'
  BY <1>0 DEF IInv, StartOK, Answering
<1>7. SocketsOK'
  <2>1. \A g \in Handlers : job'[g].at # "bind"
    BY <1>1, <1>2, <1>3
  <2>2. QED
    BY <1>0, <2>1 DEF IInv, SocketsOK
<1>8. ProbesOK'
  BY <1>0, <1>2, <1>3 DEF IInv, ProbesOK, ProbeAddr
<1>9. AppliedOK' /\ ChangesApplied'
  <2>1. \A g \in Handlers : job'[g].at # "bind"
    BY <1>1, <1>2, <1>3
  <2>2. lock' # None \/ behind' = Kinds
    BY <1>2, KindFacts
  <2>3. QED
    BY <1>0, <2>1, <2>2, KindFacts DEF IInv, AppliedOK, ChangesApplied
<1>10. NoLeakedListener'
  BY <1>0 DEF IInv, NoLeakedListener
<1>11. QED
  BY <1>4, <1>5, <1>6, <1>7, <1>8, <1>9, <1>10 DEF IInv

(* The callbacks go on with the binds in todo, or the update is over. *)
LEMMA RemainingFacts ==
  ASSUME TypeOK, NEW h \in Handlers, NEW todo \in SUBSET Kinds,
         NEW old \in [Kinds -> Addrs \cup {None}], Remaining(h, todo, old)
  PROVE  /\ job' \in [Handlers -> Job] /\ lock' = IF todo = {} THEN None ELSE h
         /\ todo = {} => job'[h].at = "idle"
         /\ todo # {} => job'[h].at = "bind" /\ job'[h].todo = todo /\ job'[h].old = old
         /\ \A g \in Handlers \ {h} : job'[g] = job[g]
<1> DEFINE x == IF todo = {} THEN Idle ELSE [Idle EXCEPT !.at = "bind", !.todo = todo, !.old = old]
<1>1. x \in Job
  BY IdleFacts DEF Steps
<1>2. job' = [job EXCEPT ![h] = x] /\ lock' = IF todo = {} THEN None ELSE h
  BY DEF Remaining
<1>3. (todo = {} => x.at = "idle") /\ (todo # {} => x.at = "bind" /\ x.todo = todo /\ x.old = old)
  BY DEF Idle
<1> HIDE DEF x
<1>4. job'[h] = x /\ \A g \in Handlers \ {h} : job'[g] = job[g]
  BY <1>2 DEF TypeOK
<1>5. QED
  BY <1>1, <1>2, <1>3, <1>4 DEF TypeOK

(* rebindIfChanged looks at what is registered. *)
LEMMA CaptureStep ==
  ASSUME IInv, NEW h \in Handlers, Capture(h)
  PROVE  IInv'
<1> DEFINE todo == {k \in Kinds : mem[k] # reg[k]}
<1>0. /\ job[h].at = "notify" /\ lock = h /\ Answering /\ mem = disk /\ Remaining(h, todo, reg)
      /\ behind' = behind \cap todo /\ early' = (early \/ main = "register")
      /\ UNCHANGED <<mem, disk, sock, reg, closing, main, boot>>
  BY KindFacts DEF IInv, JobsOK, Capture
<1>1. /\ todo \in SUBSET Kinds /\ reg \in [Kinds -> Addrs \cup {None}]
      /\ \A k \in Kinds : k \notin todo => reg[k] = mem[k]
  BY DEF IInv, TypeOK
<1> HIDE DEF todo
<1>2. /\ job' \in [Handlers -> Job] /\ lock' = IF todo = {} THEN None ELSE h
      /\ todo = {} => job'[h].at = "idle"
      /\ todo # {} => job'[h].at = "bind" /\ job'[h].todo = todo /\ job'[h].old = reg
      /\ \A g \in Handlers \ {h} : job'[g] = job[g]
  BY <1>0, <1>1, RemainingFacts DEF IInv
<1>3. \A g \in Handlers \ {h} : job[g].at \notin {"notify", "bind"}
  BY <1>0 DEF IInv, JobsOK
<1>4. TypeOK'
  <2>1. lock' \in Handlers \cup {None} /\ behind' \subseteq Kinds /\ early' \in BOOLEAN
    BY <1>0, <1>2 DEF IInv, TypeOK
  <2>2. QED
    BY <1>0, <1>2, <2>1 DEF IInv, TypeOK
<1>5. JobsOK'
  <2>1. CASE todo = {}
    BY <1>0, <1>2, <1>3, <2>1, KindFacts DEF IInv, JobsOK, Answering
  <2>2. CASE todo # {}
    BY <1>0, <1>2, <1>3, <2>2 DEF IInv, JobsOK, Answering
  <2>3. QED
    BY <2>1, <2>2
<1>6. StartOK'
  BY <1>0 DEF IInv, StartOK
<1>7. SocketsOK'
  <2>1. \A k \in Kinds : reg[k] # None => reg[k] # boot
    BY DEF IInv, SocketsOK, StartOK, Kinds
  <2>2. \A g \in Handlers : job'[g].at = "bind" => g = h /\ job'[g].old = reg
    BY <1>2, <1>3
  <2>3. QED
    BY <1>0, <2>1, <2>2 DEF IInv, SocketsOK
<1>8. ProbesOK'
  <2>1. job'[h].at # "probing"
    BY <1>2
  <2>2. QED
    BY <1>0, <1>2, <2>1 DEF IInv, ProbesOK, ProbeAddr
<1>9. AppliedOK' /\ ChangesApplied'
  <2> SUFFICES ASSUME ~early' PROVE AppliedOK' /\ ChangesApplied'
    BY DEF AppliedOK, ChangesApplied
  <2>1. main = "up" /\ main' = "up" /\ ~early
    BY <1>0 DEF Answering
  <2>2. \A g \in Handlers : job'[g].at = "bind" => g = h /\ job'[g].old = reg /\ job'[g].todo = todo
    BY <1>2, <1>3
  <2>3. AppliedOK'
    BY <1>0, <1>1, <2>1, <2>2 DEF AppliedOK
  <2>4. ChangesApplied'
    <3>1. CASE todo = {}
      BY <1>0, <1>1, <3>1 DEF ChangesApplied
    <3>2. CASE todo # {}
      BY <1>2, <3>2, KindFacts DEF ChangesApplied
    <3>3. QED
      BY <3>1, <3>2
  <2>5. QED
    BY <2>3, <2>4
<1>10. NoLeakedListener'
  BY <1>0 DEF IInv, NoLeakedListener
<1>11. QED
  BY <1>4, <1>5, <1>6, <1>7, <1>8, <1>9, <1>10 DEF IInv

(* A bind that succeeds or fails; the last one ends the update. *)
LEMMA RebindStep ==
  ASSUME IInv, NEW h \in Handlers, Rebind(h)
  PROVE  IInv' /\ mem = disk /\ \A k \in Kinds : reg'[k] # reg[k] => reg'[k] = mem[k]
<1> DEFINE k0 == First(job[h].todo)
           a == mem[k0]
           rest == job[h].todo \ {k0}
           old == job[h].old
<1>0. /\ job[h].at = "bind" /\ lock = h /\ Answering /\ mem = disk /\ Remaining(h, rest, old)
      /\ job[h].todo # {} /\ UNCHANGED <<mem, disk, main, boot, early>>
  BY KindFacts DEF IInv, JobsOK, Rebind
<1>1. /\ job[h] \in Job /\ job[h].todo \in SUBSET Kinds /\ old \in [Kinds -> Addrs \cup {None}]
  BY DEF IInv, TypeOK, Job
<1>2. k0 \in job[h].todo /\ k0 \in Kinds /\ a \in Addrs /\ rest \in SUBSET Kinds
  BY <1>0, <1>1, KindFacts DEF IInv, TypeOK, Config
<1>3. \/ /\ sock[a] = "free" /\ sock' = [sock EXCEPT ![a] = k0] /\ reg' = [reg EXCEPT ![k0] = a]
         /\ closing' = closing \cup ({old[k0]} \ {None}) /\ behind' = behind \ {k0}
      \/ behind' = behind \cup {k0} /\ UNCHANGED <<sock, reg, closing>>
  BY DEF Rebind, OldServer, Free
<1>4. rest = job[h].todo \ {k0}
  OBVIOUS
<1>5. a = mem[k0] /\ old = job[h].old
  OBVIOUS
<1> HIDE DEF k0, a, rest, old
<1>6. /\ job' \in [Handlers -> Job] /\ lock' = IF rest = {} THEN None ELSE h
      /\ rest = {} => job'[h].at = "idle"
      /\ rest # {} => job'[h].at = "bind" /\ job'[h].todo = rest /\ job'[h].old = old
      /\ \A g \in Handlers \ {h} : job'[g] = job[g]
  BY <1>0, <1>1, <1>2, RemainingFacts DEF IInv
<1>7. \A g \in Handlers \ {h} : job[g].at \notin {"notify", "bind"}
  BY <1>0 DEF IInv, JobsOK
<1>8. JobsOK'
  <2>1. CASE rest = {}
    BY <1>0, <1>6, <1>7, <2>1, KindFacts DEF IInv, JobsOK, Answering
  <2>2. CASE rest # {}
    BY <1>0, <1>6, <1>7, <2>2 DEF IInv, JobsOK, Answering
  <2>3. QED
    BY <2>1, <2>2
<1>9. job'[h].at # "probing" /\ \A g \in Handlers : job'[g].at = "bind" => g = h /\ rest # {}
  BY <1>6, <1>7
<1>10. lock' \in Handlers \cup {None} /\ behind' \subseteq Kinds
  BY <1>2, <1>3, <1>6 DEF IInv, TypeOK
<1>11. \A k \in Kinds : old[k] # None /\ k \in job[h].todo =>
         sock[old[k]] = k /\ old[k] \notin closing /\ old[k] # boot /\ old[k] \in Addrs
  BY <1>0, <1>1, <1>5 DEF IInv, SocketsOK
<1>12. CASE behind' = behind \cup {k0} /\ UNCHANGED <<sock, reg, closing>>
  <2>1. TypeOK'
    BY <1>0, <1>6, <1>10, <1>12 DEF IInv, TypeOK
  <2>2. StartOK' /\ NoLeakedListener'
    BY <1>0, <1>12 DEF IInv, StartOK, NoLeakedListener
  <2>3. SocketsOK'
    BY <1>0, <1>4, <1>6, <1>9, <1>11, <1>12 DEF IInv, SocketsOK
  <2>4. ProbesOK'
    BY <1>6, <1>9, <1>12 DEF IInv, ProbesOK, ProbeAddr
  <2>5. AppliedOK' /\ ChangesApplied'
    <3> SUFFICES ASSUME ~early PROVE AppliedOK' /\ ChangesApplied'
      BY <1>0 DEF AppliedOK, ChangesApplied
    <3>1. /\ main = "up" /\ (\A k \in job[h].todo : old[k] = reg[k])
          /\ \A k \in Kinds \ (behind \cup job[h].todo) : reg[k] = mem[k]
      BY <1>0, <1>5 DEF IInv, AppliedOK
    <3>2. \A k \in Kinds \ (behind' \cup rest) : reg'[k] = mem'[k]
      BY <1>0, <1>4, <1>12, <3>1
    <3>3. AppliedOK'
      BY <1>0, <1>4, <1>6, <1>9, <1>12, <3>1, <3>2 DEF AppliedOK
    <3>4. ChangesApplied'
      BY <1>0, <1>6, <3>2, KindFacts DEF ChangesApplied
    <3>5. QED
      BY <3>3, <3>4
  <2>6. QED
    BY <1>0, <1>8, <1>12, <2>1, <2>2, <2>3, <2>4, <2>5 DEF IInv
<1>13. CASE /\ sock[a] = "free" /\ sock' = [sock EXCEPT ![a] = k0] /\ reg' = [reg EXCEPT ![k0] = a]
            /\ closing' = closing \cup ({old[k0]} \ {None}) /\ behind' = behind \ {k0}
  <2>1. /\ sock'[a] = k0 /\ (\A b \in Addrs \ {a} : sock'[b] = sock[b])
        /\ reg'[k0] = a /\ (\A k \in Kinds \ {k0} : reg'[k] = reg[k])
    BY <1>2, <1>13 DEF IInv, TypeOK
  <2>2. \A b \in Addrs : sock[b] # "free" => b # a /\ sock'[b] = sock[b]
    BY <1>13, <2>1
  <2>3. closing \subseteq Addrs /\ closing' \subseteq Addrs
    BY <1>2, <1>11, <1>13 DEF IInv, TypeOK
  <2>4. TypeOK'
    <3>1. sock' \in [Addrs -> Holders]
      BY <1>2, <1>13, KindFacts DEF IInv, TypeOK
    <3>2. reg' \in [Kinds -> Addrs \cup {None}]
      BY <1>2, <1>13 DEF IInv, TypeOK
    <3>3. QED
      BY <1>0, <1>6, <1>10, <2>3, <3>1, <3>2 DEF IInv, TypeOK
  <2>5. \A b \in closing' : sock[b] \in Kinds /\ sock[b] # "free" /\ b # a
    BY <1>2, <1>11, <1>13, <2>2, <2>3, KindFacts DEF IInv, SocketsOK
  <2>6. \A b \in closing' \ closing : b = old[k0] /\ sock[b] = k0 /\ b # boot
    BY <1>2, <1>11, <1>13
  <2>7. StartOK'
    <3>1. CASE main = "register"
      <4>1. boot \in Addrs /\ sock[boot] = "admin" /\ boot \notin closing /\ reg["admin"] # boot
        BY <3>1 DEF IInv, StartOK
      <4>2. boot # a /\ sock'[boot] = "admin" /\ boot \notin closing'
        BY <1>13, <2>1, <2>6, <4>1
      <4>3. reg'["admin"] # boot
        BY <2>1, <4>1, <4>2, KindFacts
      <4>4. QED
        BY <1>0, <3>1, <4>1, <4>2, <4>3 DEF StartOK
    <3>2. CASE main # "register"
      BY <1>0, <3>2 DEF IInv, StartOK, Answering
    <3>3. QED
      BY <3>1, <3>2
  <2>8. SocketsOK'
    <3>1. ASSUME NEW k \in Kinds, reg'[k] # None PROVE sock'[reg'[k]] = k /\ reg'[k] \notin closing'
      <4>1. CASE k = k0
        BY <2>1, <2>5, <4>1
      <4>2. CASE k # k0
        <5>1. reg'[k] = reg[k] /\ reg[k] \in Addrs /\ sock[reg[k]] = k /\ reg[k] \notin closing
          BY <2>1, <3>1, <4>2 DEF IInv, SocketsOK, TypeOK
        <5>2. QED
          BY <2>2, <2>6, <4>2, <5>1, KindFacts
      <4>3. QED
        BY <4>1, <4>2
    <3>2. \A b \in closing' : sock'[b] \in Kinds
      BY <2>2, <2>3, <2>5
    <3>3. ASSUME NEW k \in rest, old[k] # None
          PROVE  sock'[old[k]] = k /\ old[k] \notin closing' /\ old[k] # boot'
      <4>1. k \in job[h].todo /\ k # k0 /\ k \in Kinds
        BY <1>2, <1>4, <3>3
      <4>2. sock[old[k]] = k /\ old[k] \notin closing /\ old[k] # boot /\ old[k] \in Addrs
        BY <1>11, <3>3, <4>1
      <4>3. QED
        BY <1>0, <2>2, <2>6, <4>1, <4>2, KindFacts
    <3>4. QED
      BY <1>6, <1>9, <3>1, <3>2, <3>3 DEF SocketsOK
  <2>9. ProbesOK'
    <3>1. \A g \in Handlers \ {h} : job[g].at = "probing" =>
            ProbeAddr(g) \in Addrs /\ sock[ProbeAddr(g)] = "probe" /\ ProbeAddr(g)' = ProbeAddr(g)
      BY <1>6, ProbeFacts DEF IInv, ProbesOK, ProbeAddr
    <3>2. QED
      BY <1>6, <1>9, <2>2, <3>1 DEF IInv, ProbesOK
  <2>10. AppliedOK' /\ ChangesApplied' /\ NoLeakedListener'
    <3> SUFFICES ASSUME ~early PROVE AppliedOK' /\ ChangesApplied' /\ NoLeakedListener'
      BY <1>0 DEF AppliedOK, ChangesApplied, NoLeakedListener
    <3>1. /\ main = "up" /\ (\A k \in job[h].todo : old[k] = reg[k])
          /\ \A k \in Kinds \ (behind \cup job[h].todo) : reg[k] = mem[k]
      BY <1>0, <1>5 DEF IInv, AppliedOK
    <3>2. \A k \in Kinds \ (behind' \cup rest) : reg'[k] = mem'[k]
      BY <1>0, <1>4, <1>5, <1>13, <2>1, <3>1
    <3>3. AppliedOK'
      BY <1>0, <1>2, <1>4, <1>6, <1>9, <2>1, <3>1, <3>2 DEF AppliedOK
    <3>4. ChangesApplied'
      BY <1>0, <1>6, <3>2, KindFacts DEF ChangesApplied
    <3>5. ASSUME NEW b \in Addrs, sock'[b] \in Kinds
          PROVE  b \in closing' \cup {reg'[sock'[b]], boot'}
      <4>1. CASE b = a
        BY <2>1, <4>1
      <4>2. CASE b # a
        <5>1. sock'[b] = sock[b] /\ b \in closing \cup {reg[sock[b]], boot}
          BY <2>1, <3>5, <4>2 DEF IInv, NoLeakedListener
        <5>2. CASE sock[b] = k0
          <6>1. reg[k0] = old[k0]
            BY <1>2, <3>1
          <6>2. QED
            BY <1>0, <1>13, <5>1, <5>2, <6>1, KindFacts
        <5>3. CASE sock[b] # k0
          BY <1>0, <1>13, <2>1, <3>5, <5>1, <5>3
        <5>4. QED
          BY <5>2, <5>3
      <4>3. QED
        BY <4>1, <4>2
    <3>6. QED
      BY <3>3, <3>4, <3>5 DEF NoLeakedListener
  <2>11. \A k \in Kinds : reg'[k] # reg[k] => reg'[k] = mem[k]
    BY <1>5, <2>1
  <2>12. QED
    BY <1>0, <1>8, <2>4, <2>7, <2>8, <2>9, <2>10, <2>11 DEF IInv
<1>14. QED
  BY <1>3, <1>12, <1>13
-----------------------------------------------------------------------------
(* The start: no socket but those of other processes. *)
LEMMA Initially == Init => IInv
<1> SUFFICES ASSUME Init PROVE IInv
  OBVIOUS
<1>1. PICK taken \in SUBSET Contested :
        sock = [a \in Addrs |-> IF a \in taken THEN "foreign" ELSE "free"]
  BY DEF Init
<1>2. \A a \in Addrs : sock[a] \in {"free", "foreign"}
  BY <1>1
<1>3. \A h \in Handlers : job[h].at = "idle"
  BY IdleFacts DEF Init
<1>4. TypeOK
  BY <1>1, IdleFacts, KindFacts, ListenAssumption DEF Init, TypeOK, Holders, ListenAssumption
<1>5. JobsOK
  BY <1>3, KindFacts DEF Init, JobsOK
<1>6. StartOK /\ SocketsOK /\ ProbesOK
  BY <1>3, KindFacts DEF Init, StartOK, SocketsOK, ProbesOK
<1>7. AppliedOK /\ ChangesApplied
  BY <1>3 DEF Init, AppliedOK, ChangesApplied
<1>8. NoLeakedListener
  BY <1>2, KindFacts DEF NoLeakedListener
<1>9. QED
  BY <1>4, <1>5, <1>6, <1>7, <1>8 DEF IInv

(* Every step keeps the invariant. *)
LEMMA Inductive == IInv /\ [Next]_vars => IInv'
<1> SUFFICES ASSUME IInv, [Next]_vars PROVE IInv'
  OBVIOUS
<1>1. CASE UNCHANGED vars
  BY <1>1 DEF vars, IInv, TypeOK, JobsOK, Answering, StartOK, SocketsOK, ProbesOK, ProbeAddr, AppliedOK,
              NoLeakedListener, ChangesApplied
<1>2. CASE (main # "down" /\ Exit) \/ Restart \/ StartProxy \/ StartAdmin \/ StartRegister \/ FlushStats
  BY <1>2, ExitStep, RestartStep, StartProxyStep, StartAdminStep, StartRegisterStep, FlushStep
<1>3. ASSUME NEW h \in Handlers, PutBegin(h) \/ ImportBegin(h) \/ OtherBegin(h) \/ Handle(h)
      PROVE  IInv'
  BY <1>3, BeginSteps, ProbeStep, ProbeCloseStep, CommitStep, CaptureStep, RebindStep DEF Handle
<1>4. ASSUME NEW a \in Addrs, CloseOld(a) \/ Foreign(a) PROVE IInv'
  BY <1>4, OutsideSteps
<1>5. QED
  BY <1>1, <1>2, <1>3, <1>4 DEF Next

(* The inductive invariant holds in every reachable state. *)
LEMMA Always == Spec => []IInv
<1>1. QED
  BY Initially, Inductive, PTL DEF Spec

(* While the process is up only a bind moves a listener, and the lock that it runs
   under keeps the memory and the file the same. *)
LEMMA MoveStep ==
  ASSUME IInv, [Next]_vars, main = "up", main' = "up"
  PROVE  \A k \in Kinds : reg'[k] # reg[k] => reg'[k] = disk[k]
<1>1. CASE UNCHANGED reg
  BY <1>1
<1>2. ASSUME NEW h \in Handlers, Rebind(h) PROVE \A k \in Kinds : reg'[k] # reg[k] => reg'[k] = disk[k]
  BY <1>2, RebindStep
<1>3. ASSUME NEW h \in Handlers, PutBegin(h) \/ ImportBegin(h) \/ OtherBegin(h) PROVE UNCHANGED reg
  BY <1>3 DEF PutBegin, ImportBegin, OtherBegin, Begin
<1>4. ASSUME NEW h \in Handlers, Handle(h) PROVE UNCHANGED reg \/ Rebind(h)
  BY <1>4 DEF Handle, Probe, ProbeClose, Refuse, Commit, Capture
<1>5. ASSUME NEW a \in Addrs, CloseOld(a) \/ Foreign(a) PROVE UNCHANGED reg
  BY <1>5 DEF CloseOld, Foreign
<1>6. CASE (main # "down" /\ Exit) \/ Restart \/ StartProxy \/ StartAdmin \/ StartRegister \/ FlushStats
  BY <1>6 DEF Exit, Restart, StartProxy, StartAdmin, StartRegister, FlushStats
<1>7. CASE UNCHANGED vars
  BY <1>7 DEF vars
<1>8. QED
  BY <1>1, <1>2, <1>3, <1>4, <1>5, <1>6, <1>7 DEF Next

(* For any addresses and handlers and whatever other processes do: a registered
   listener has its socket, and no shutdownServer still to run will close it. *)
THEOREM RegisteredListenersServe == Spec => []ListenersServe
<1>1. IInv => ListenersServe
  BY DEF IInv, SocketsOK, ListenersServe
<1>2. QED
  BY <1>1, Always, PTL

(* Unless a change was applied before Start had returned, every socket of the
   process belongs to a server that is registered, being closed, or about to be
   registered. *)
THEOREM NoListenerLeaks == Spec => []NoLeakedListener
<1>1. IInv => NoLeakedListener
  BY DEF IInv
<1>2. QED
  BY <1>1, Always, PTL

(* Once an update is over, a listener is on its configured address or the save or
   bind that it needed has failed. *)
THEOREM ChangesAreApplied == Spec => []ChangesApplied
<1>1. IInv => ChangesApplied
  BY DEF IInv
<1>2. QED
  BY <1>1, Always, PTL

(* A listener that moves while the process is up moves to the address that
   config.json has. *)
THEOREM MovesPersisted == Spec => MovesArePersisted
<1>1. IInv /\ [Next]_vars =>
        \A k \in Kinds : main = "up" /\ main' = "up" /\ reg'[k] # reg[k] => reg'[k] = disk[k]
  BY MoveStep
<1>2. QED
  BY <1>1, Always, PTL DEF Spec, MovesArePersisted
=============================================================================
