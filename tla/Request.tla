------------------------------ MODULE Request ------------------------------
(***************************************************************************)
(* A request from admission to the return of its slot: ConnSlots and       *)
(* Serving composed.  handleForward and handleConnect serve only after     *)
(* tryEnterConn has let them in, and exitConn is deferred: it runs when    *)
(* the handler returns, on whatever path.  So the slots that limit         *)
(* everybody come back only if every handler comes to its end.             *)
(***************************************************************************)
EXTENDS ConnSlots

VARIABLE job

S == INSTANCE Serving

allVars == <<settings, maxConns, connMu, userConns, globalConns, pc, caller, cfg, cap, job>>

RInit == Init /\ S!Init

Enter(r) == GlobalPass(r) /\ \E via \in {"connect", "forward"} : S!Start(r, via)

Exit(r) == ExitGlobal(r) /\ S!Finish(r)

(* The steps of tryEnterConn and exitConn but for the two above. *)
Admission(r) ==
  /\ \/ UserAdd(r) \/ UserDeny(r) \/ UserPass(r)
     \/ GlobalAdd(r) \/ GlobalDeny(r) \/ GlobalUndo(r) \/ UserUndo(r)
     \/ ExitLookup(r) \/ ExitDec(r)
  /\ UNCHANGED job

(* What comes from outside: requests, and the administrator's changes. *)
Outside ==
  /\ \/ \E s \in Settings : ChangeSettings(s)
     \/ \E u \in Users, m \in UserMaxVals : ChangeUser(u, m)
     \/ \E r \in Reqs : Begin(r) \/ Refuse(r) \/ \E u \in Callers : Authorize(r, u)
  /\ UNCHANGED job

Serve(r) == S!Serve(r) /\ UNCHANGED vars

RNext == Outside \/ \E r \in Reqs : Admission(r) \/ Enter(r) \/ Exit(r) \/ Serve(r)

(* Goroutines that can run are run; sync.Mutex hands the lock to a waiter that
   has waited for long (its starvation mode), so a step of admission that is
   enabled again and again is taken.  Deadlines expire and contexts time out.
   Nothing is asked of clients and upstreams, save that one that still reads
   takes what it is sent. *)
RFair ==
  \A r \in Reqs :
    /\ SF_allVars(Admission(r) \/ Enter(r) \/ Exit(r))
    /\ WF_allVars(S!Handler(r) /\ UNCHANGED vars)
    /\ WF_allVars(S!Timeout(r) /\ UNCHANGED vars)
    /\ \A d \in S!Dirs : WF_allVars(S!Side(r, d) /\ UNCHANGED vars)

RSpec == RInit /\ [][RNext]_allVars /\ RFair
-----------------------------------------------------------------------------
(* Types of the serving state; only who holds a slot serves. *)
ServingTypeOK ==
  /\ S!TypeOK
  /\ \A r \in Reqs : job[r].at # "off" <=> pc[r] = "held"

(* However a CONNECT ends, nothing of it outlives the handler: no socket that it
   owns, and no goroutine.  (The state is well typed, and only who holds a slot
   serves.) *)
CleanEnd == ServingTypeOK /\ S!CleanEnd

(* runTunnel "copies bytes in both directions until either side closes or
   idles": once one end has stopped sending, with or without a word, the tunnel
   comes down and its slot is given back, even if the other end keeps sending,
   and even if somebody has stopped reading in the middle of a chunk. *)
TunnelReturnsSlot ==
  \A r \in Reqs :
    (job[r].at # "off" /\ job[r].via = "connect" /\ \E e \in S!Ends : job[r].peer[e].sends # "yes")
      ~> pc[r] = "idle"

(* "per-request timeouts are enforced inside the handlers" (bind): a plain
   request gives its slot back, for good or bad.  Only the write to the client has
   no deadline: the slot is kept for as long as a client that does not read keeps
   its connection open. *)
StuckWriting(r) == job[r].at = "bodyWrite" /\ ~job[r].peer["client"].reads

ForwardReturnsSlot ==
  \A r \in Reqs :
    (job[r].at # "off" /\ job[r].via = "forward") ~> (pc[r] = "idle" \/ StuckWriting(r))
=============================================================================
