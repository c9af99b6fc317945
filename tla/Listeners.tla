----------------------------- MODULE Listeners ------------------------------
(***************************************************************************)
(* The two listeners of the process, the addresses configured for them,    *)
(* and everything that moves one: start-up (main.go, Proxy.Start), a       *)
(* settings PUT or an import (admin.go), which probes the new addresses    *)
(* before it saves them, and OnConfigChanged (proxy.go), which binds the   *)
(* new address and then closes the old server in the background.           *)
(*                                                                         *)
(* The probe is made without a lock and long before the address is bound;  *)
(* Store.update runs the callbacks with its write lock held; Start holds   *)
(* no lock, and its admin server answers before it is registered.  Other   *)
(* processes take and release addresses at any time, saves may fail, and   *)
(* the process may stop at any point.                                      *)
(*                                                                         *)
(* An address stands for the port it names: two spellings of one port are  *)
(* one address.  A server is identified by the address it listens on.      *)
(***************************************************************************)
EXTENDS Naturals, FiniteSets

CONSTANTS Addrs,      \* listen addresses that pass validListenAddr
          Contested,  \* the addresses that other processes use too
          Handlers,   \* admin API requests in flight
          Default,    \* the addresses of the first config.json
          None

Kinds == {"proxy", "admin"}
Config == [Kinds -> Addrs]

ASSUME ListenAssumption ==
  /\ Default \in Config /\ Contested \subseteq Addrs
  /\ None \notin Addrs \cup Handlers

VARIABLES
  mem,      \* Store.cfg.Proxy.ListenAddr and .AdminListenAddr
  disk,     \* the same two fields of config.json
  lock,     \* the holder of Store.mu (write), or None
  sock,     \* sock[a]: who listens on a
  reg,      \* p.proxyAddr and p.adminAddr, and with them proxySrv and adminSrv
  closing,  \* servers with a shutdownServer goroutine that has not closed them
  main,     \* where main() is
  boot,     \* the admin address Start was called with, until it is registered
  job,      \* job[h]: what handler h is doing
  behind,   \* history: listeners whose last save or bind failed
  early     \* history: a change was applied before Start had returned

vars == <<mem, disk, lock, sock, reg, closing, main, boot, job, behind, early>>

Holders == {"free", "foreign", "probe"} \cup Kinds
Steps == {"idle", "probe", "probing", "commit", "notify", "bind"}
Job == [at : Steps, next : [Kinds -> Addrs \cup {None}], todo : SUBSET Kinds,
        old : [Kinds -> Addrs \cup {None}]]

NoAddrs == [k \in Kinds |-> None]
Idle == [at |-> "idle", next |-> NoAddrs, todo |-> {}, old |-> NoAddrs]

(* Both the probes and the binds take the proxy first. *)
First(kinds) == IF "proxy" \in kinds THEN "proxy" ELSE "admin"

Free(a) == sock[a] = "free"

(* The admin API answers from the moment its socket is open. *)
Answering == main \in {"register", "up"}
-----------------------------------------------------------------------------
Init ==
  /\ mem = Default /\ disk = Default
  /\ lock = None
  /\ \E taken \in SUBSET Contested :
       sock = [a \in Addrs |-> IF a \in taken THEN "foreign" ELSE "free"]
  /\ reg = NoAddrs /\ closing = {}
  /\ main = "proxy" /\ boot = None
  /\ job = [h \in Handlers |-> Idle]
  /\ behind = {} /\ early = FALSE

(* Every socket of the process is gone with it. *)
Released == [a \in Addrs |-> IF sock[a] = "foreign" THEN "foreign" ELSE "free"]

(* The process ends: a failed start (os.Exit), a signal, a crash. *)
Exit ==
  /\ sock' = Released
  /\ reg' = NoAddrs /\ closing' = {} /\ lock' = None
  /\ main' = "down" /\ boot' = None
  /\ job' = [h \in Handlers |-> Idle]
  /\ behind' = {} /\ early' = FALSE
  /\ UNCHANGED <<mem, disk>>

(* NewStore reads config.json. *)
Restart ==
  /\ main = "down"
  /\ mem' = disk /\ main' = "proxy"
  /\ UNCHANGED <<disk, lock, sock, reg, closing, boot, job, behind, early>>

(* Start, first half: the proxy listener.  No handler runs before the admin
   listener answers, so opening and registering it is one step. *)
StartProxy ==
  /\ main = "proxy"
  /\ \/ /\ Free(mem["proxy"])
        /\ sock' = [sock EXCEPT ![mem["proxy"]] = "proxy"]
        /\ reg' = [reg EXCEPT !["proxy"] = mem["proxy"]]
        /\ main' = "admin"
        /\ UNCHANGED <<mem, disk, lock, closing, boot, job, behind, early>>
     \/ ~Free(mem["proxy"]) /\ Exit

(* Second half: the admin server starts to answer, and is registered later. *)
StartAdmin ==
  /\ main = "admin"
  /\ \/ /\ Free(mem["admin"])
        /\ sock' = [sock EXCEPT ![mem["admin"]] = "admin"]
        /\ main' = "register" /\ boot' = mem["admin"]
        /\ UNCHANGED <<mem, disk, lock, reg, closing, job, behind, early>>
     \/ ~Free(mem["admin"]) /\ Exit

StartRegister ==
  /\ main = "register"
  /\ reg' = [reg EXCEPT !["admin"] = boot]
  /\ main' = "up" /\ boot' = None
  /\ UNCHANGED <<mem, disk, lock, sock, closing, job, behind, early>>
-----------------------------------------------------------------------------
(* The addresses to probe: the ones that differ from the config just read. *)
Begin(h, next) ==
  LET todo == {k \in Kinds : next[k] # mem[k]}
  IN /\ Answering /\ lock = None /\ job[h].at = "idle"
     /\ job' = [job EXCEPT ![h] =
          [Idle EXCEPT !.at = IF todo = {} THEN "commit" ELSE "probe",
                       !.next = next, !.todo = todo]]
     /\ UNCHANGED <<mem, disk, lock, sock, reg, closing, main, boot, behind, early>>

(* applyProxyPatch: a field that is absent (None) keeps the value read. *)
Patched(patch) == [k \in Kinds |-> IF patch[k] = None THEN mem[k] ELSE patch[k]]

(* apiSettings, PUT: the merge with the config as it is now. *)
PutBegin(h) == \E patch \in [Kinds -> Addrs \cup {None}] : Begin(h, Patched(patch))

(* apiImport: the snapshot names both addresses. *)
ImportBegin(h) == \E doc \in Config : Begin(h, doc)

(* Any other handler that calls Store.Update (users, rules): it leaves the
   addresses alone, but its callbacks look at them. *)
OtherBegin(h) ==
  /\ Answering /\ job[h].at = "idle"
  /\ job' = [job EXCEPT ![h] = [Idle EXCEPT !.at = "commit"]]
  /\ UNCHANGED <<mem, disk, lock, sock, reg, closing, main, boot, behind, early>>

(* tryBind opens the address, or the request is refused with 400. *)
Probe(h) ==
  LET a == job[h].next[First(job[h].todo)]
  IN /\ job[h].at = "probe"
     /\ \/ /\ Free(a)
           /\ sock' = [sock EXCEPT ![a] = "probe"]
           /\ job' = [job EXCEPT ![h].at = "probing"]
        \/ /\ ~Free(a)
           /\ job' = [job EXCEPT ![h] = Idle]
           /\ UNCHANGED sock
     /\ UNCHANGED <<mem, disk, lock, reg, closing, main, boot, behind, early>>

(* ... and closes it again. *)
ProbeClose(h) ==
  LET k == First(job[h].todo)
      rest == job[h].todo \ {k}
  IN /\ job[h].at = "probing"
     /\ sock' = [sock EXCEPT ![job[h].next[k]] = "free"]
     /\ job' = [job EXCEPT ![h].todo = rest,
                           ![h].at = IF rest = {} THEN "commit" ELSE "probe"]
     /\ UNCHANGED <<mem, disk, lock, reg, closing, main, boot, behind, early>>

(* Another field of the body is out of range: 400 after the probes. *)
Refuse(h) ==
  /\ job[h].at = "commit"
  /\ job' = [job EXCEPT ![h] = Idle]
  /\ UNCHANGED <<mem, disk, lock, sock, reg, closing, main, boot, behind, early>>

(* Faulty variant: the callbacks run whether or not the file was saved. *)
CommitNotifying(h) ==
  /\ job[h].at = "commit" /\ lock = None
  /\ mem' = IF job[h].next = NoAddrs THEN mem ELSE job[h].next
  /\ disk' \in {disk, mem'} /\ lock' = h
  /\ job' = [job EXCEPT ![h] = [Idle EXCEPT !.at = "notify"]]
  /\ UNCHANGED <<behind, sock, reg, closing, main, boot, early>>

(* Store.update: the addresses are replaced as a whole and the file is saved;
   a failed save returns at once and leaves the memory changed. *)
Commit(h) ==
  /\ job[h].at = "commit" /\ lock = None
  /\ mem' = IF job[h].next = NoAddrs THEN mem ELSE job[h].next
  /\ \/ /\ disk' = mem' /\ lock' = h
        /\ job' = [job EXCEPT ![h] = [Idle EXCEPT !.at = "notify"]]
        /\ UNCHANGED behind
     \/ /\ job' = [job EXCEPT ![h] = Idle]
        /\ behind' = Kinds
        /\ UNCHANGED <<disk, lock>>
  /\ UNCHANGED <<sock, reg, closing, main, boot, early>>

(* FlushStats (every 5 s): UpdateSilent saves the whole config. *)
FlushStats ==
  /\ main # "down" /\ lock = None
  /\ disk' = mem
  /\ UNCHANGED <<mem, lock, sock, reg, closing, main, boot, job, behind, early>>
-----------------------------------------------------------------------------
(* Faulty variant: a second address that changed is forgotten. *)
RemainingFirst(h, todo, old) ==
  LET one == {First(todo)} \cap todo \cap {k \in Kinds : job[h].at = "notify"}
  IN /\ lock' = IF one = {} THEN None ELSE h
     /\ job' = [job EXCEPT ![h] = IF one = {} THEN Idle
                  ELSE [Idle EXCEPT !.at = "bind", !.todo = one, !.old = old]]

(* The binds still to be made; after the last of them Store.update returns and
   releases its write lock. *)
Remaining(h, todo, old) ==
  /\ lock' = IF todo = {} THEN None ELSE h
  /\ job' = [job EXCEPT ![h] = IF todo = {} THEN Idle
               ELSE [Idle EXCEPT !.at = "bind", !.todo = todo, !.old = old]]

(* rebindIfChanged: which addresses differ from the registered ones, and the
   servers to close, captured before any bind. *)
Capture(h) ==
  LET todo == {k \in Kinds : mem[k] # reg[k]}
  IN /\ job[h].at = "notify"
     /\ Remaining(h, todo, reg)
     /\ behind' = behind \cap todo
     /\ early' = (early \/ main = "register")
     /\ UNCHANGED <<mem, disk, sock, reg, closing, main, boot>>

(* Faulty variant: whatever is registered after the bind. *)
OldServerLate(h, k) == {mem[k]}

(* Faulty variant: the previous server is not shut down. *)
OldServerKept(h, k) == {}

(* The server that is shut down once k is bound anew, if there was one. *)
OldServer(h, k) == {job[h].old[k]} \ {None}

(* bind: on success the new server is registered and the old one is closed in
   the background; on failure the previous listener stays. *)
Rebind(h) ==
  LET k == First(job[h].todo)
      a == mem[k]
  IN /\ job[h].at = "bind"
     /\ \/ /\ Free(a)
           /\ sock' = [sock EXCEPT ![a] = k]
           /\ reg' = [reg EXCEPT ![k] = a]
           /\ closing' = closing \cup OldServer(h, k)
           /\ behind' = behind \ {k}
        \/ /\ ~Free(a)
           /\ behind' = behind \cup {k}
           /\ UNCHANGED <<sock, reg, closing>>
     /\ Remaining(h, job[h].todo \ {k}, job[h].old)
     /\ UNCHANGED <<mem, disk, main, boot, early>>

(* shutdownServer: Server.Shutdown closes the listening socket first. *)
CloseOld(a) ==
  /\ a \in closing
  /\ closing' = closing \ {a}
  /\ sock' = [sock EXCEPT ![a] = "free"]
  /\ UNCHANGED <<mem, disk, lock, reg, main, boot, job, behind, early>>

(* Another process takes an address, or gives it back. *)
Foreign(a) ==
  /\ \/ a \in Contested /\ Free(a) /\ sock' = [sock EXCEPT ![a] = "foreign"]
     \/ sock[a] = "foreign" /\ sock' = [sock EXCEPT ![a] = "free"]
  /\ UNCHANGED <<mem, disk, lock, reg, closing, main, boot, job, behind, early>>
-----------------------------------------------------------------------------
Handle(h) ==
  \/ Probe(h) \/ ProbeClose(h) \/ Refuse(h)
  \/ Commit(h) \/ Capture(h) \/ Rebind(h)

Next ==
  \/ main # "down" /\ Exit
  \/ Restart \/ StartProxy \/ StartAdmin \/ StartRegister \/ FlushStats
  \/ \E h \in Handlers : PutBegin(h) \/ ImportBegin(h) \/ OtherBegin(h) \/ Handle(h)
  \/ \E a \in Addrs : CloseOld(a) \/ Foreign(a)

Spec == Init /\ [][Next]_vars

-----------------------------------------------------------------------------
(* Types of the state. *)
TypeOK ==
  /\ mem \in Config /\ disk \in Config
  /\ lock \in Handlers \cup {None}
  /\ sock \in [Addrs -> Holders]
  /\ reg \in [Kinds -> Addrs \cup {None}]
  /\ closing \subseteq Addrs
  /\ main \in {"proxy", "admin", "register", "up", "down"}
  /\ boot \in Addrs \cup {None}
  /\ job \in [Handlers -> Job]
  /\ behind \subseteq Kinds /\ early \in BOOLEAN

(* A registered listener answers: it holds its socket, and no shutdownServer
   that is still to run will close it.  "The new listener is the one that
   survives" (rebindIfChanged), whatever fails on the way.  (The state is well
   typed, too.) *)
ListenersServe ==
  /\ TypeOK
  /\ \A k \in Kinds : reg[k] # None => sock[reg[k]] = k /\ reg[k] \notin closing

(* "The old port is actually released" (rebindIfChanged): a socket that the
   process holds for a server is registered, or being closed, or the admin one
   that Start has yet to register.  It needs Start to have returned before the
   first change is applied: until then there is no server to capture. *)
NoLeakedListener ==
  ~early => \A a \in Addrs :
    sock[a] \in Kinds => a \in closing \cup {reg[sock[a]], boot}

(* Once an update is over, each listener is on the configured address, unless
   the save or the bind it needed was the last to fail: no interleaving of
   updates leaves a listener behind in silence. *)
ChangesApplied ==
  main = "up" /\ lock = None /\ ~early => \A k \in Kinds \ behind : reg[k] = mem[k]

(* "Listeners only fire on success" (Store.Update): a listener that is moved
   while the process is up moves to the address that config.json has. *)
MovesArePersisted ==
  [][\A k \in Kinds : main = "up" /\ main' = "up" /\ reg'[k] # reg[k]
       => reg'[k] = disk[k]]_vars

(* "A bad address can no longer crash-loop the container on restart": with no
   other process in the way, Start can bind both addresses of config.json. *)
SavedConfigStarts == disk["proxy"] # disk["admin"]
=============================================================================
