------------------------------ MODULE Serving ------------------------------
(***************************************************************************)
(* What a handler does between tryEnterConn and exitConn (proxy.go):       *)
(* handleConnect hijacks the client's connection, dials, and copies in     *)
(* both directions with two goroutines; handleForward sends the request on *)
(* and streams the response.                                               *)
(*                                                                         *)
(* The parties at the other ends are free: each may stop sending, close    *)
(* its sending direction, or stop reading, at any time and without notice. *)
(* Time is not counted: a read or write that is preceded by arming its     *)
(* deadline may fail at any time, and does so in the end if it is blocked. *)
(* A status line is short enough for the socket buffer and never blocks.   *)
(* The counting of bytes is in Traffic.                                    *)
(***************************************************************************)
EXTENDS FiniteSets

CONSTANT Reqs          \* handler goroutines

VARIABLE job           \* job[r]: what the handler r is serving

Ends == {"client", "upstream"}
Dirs == {"up", "down"}
Src == [up |-> "client", down |-> "upstream"]
Dst == [up |-> "upstream", down |-> "client"]

Peers == [sends : {"yes", "no", "eof"}, reads : BOOLEAN]
Live == [sends |-> "yes", reads |-> TRUE]

ConnectLabels == {"hijack", "dial", "reply", "leftover", "copy"}
ForwardLabels == {"roundTrip", "body", "bodyWrite"}

(* at: the handler; side: its two copySide goroutines; open: the sockets it owns;
   timedOut: the request's context; peer: the parties at the other ends. *)
Jobs == [at : {"off", "account", "end"} \cup ConnectLabels \cup ForwardLabels,
         via : {"connect", "forward"},
         side : [Dirs -> {"read", "write", "close", "done"}],
         open : SUBSET Ends,
         timedOut : BOOLEAN,
         peer : [Ends -> Peers]]

Off == [at |-> "off", via |-> "connect", side |-> [d \in Dirs |-> "done"], open |-> {},
        timedOut |-> FALSE, peer |-> [e \in Ends |-> Live]]

Init == job = [r \in Reqs |-> Off]

At(r, label) == job[r].at = label
-----------------------------------------------------------------------------
(* The slot is reserved. *)
Start(r, via) ==
  /\ At(r, "off")
  /\ job' = [job EXCEPT ![r].via = via,
                        ![r].at = IF via = "connect" THEN "hijack" ELSE "roundTrip"]

(* The handler has returned and its deferred calls are done. *)
Finish(r) == At(r, "end") /\ job' = [job EXCEPT ![r] = Off]

(* The party at the other end of e stops to send, or to read. *)
PeerStopsSending(r, e) ==
  /\ job[r].at \notin {"off", "account", "end"}
  /\ job[r].peer[e].sends # "eof"
  /\ \E s \in {"no", "eof"} \ {job[r].peer[e].sends} :
       job' = [job EXCEPT ![r].peer[e].sends = s]

PeerStopsReading(r, e) ==
  /\ job[r].at \notin {"off", "account", "end"}
  /\ job[r].peer[e].reads
  /\ job' = [job EXCEPT ![r].peer[e].reads = FALSE]

(* The other end is closed altogether: a write is answered by a reset. *)
Dead(r, e) == job[r].peer[e].sends = "eof" /\ ~job[r].peer[e].reads
-----------------------------------------------------------------------------
(* handleConnect: hijacking is unsupported or fails; the connection stays with
   the server, which answers 502. *)
HijackFail(r) == At(r, "hijack") /\ job' = [job EXCEPT ![r].at = "end"]

(* From here the handler owns the client's connection; the server has removed
   its deadlines. *)
Hijack(r) == At(r, "hijack") /\ job' = [job EXCEPT ![r].at = "dial", ![r].open = {"client"}]

(* Faulty variant: the early return forgets the hijacked connection. *)
DialFailOpen(r) == At(r, "dial") /\ job' = [job EXCEPT ![r].at = "end"]

(* Refused, or the dialer's timeout: a raw 502, and the client is closed. *)
DialFail(r) == At(r, "dial") /\ job' = [job EXCEPT ![r].at = "end", ![r].open = {}]

Dial(r) == At(r, "dial") /\ job' = [job EXCEPT ![r].at = "reply", ![r].open = Ends]

(* The two goroutines of runTunnel start to read. *)
RunTunnel(j) == [j EXCEPT !.at = "copy", !.side = [d \in Dirs |-> "read"]]

(* "200 Connection Established"; what the client sent ahead, if anything, goes to
   the upstream before the tunnel starts. *)
Reply(r) ==
  /\ At(r, "reply")
  /\ \/ job' = [job EXCEPT ![r] = RunTunnel(@)]
     \/ job' = [job EXCEPT ![r].at = "leftover"]

Leftover(r) ==
  /\ At(r, "leftover")
  /\ job[r].peer["upstream"].reads
  /\ job' = [job EXCEPT ![r] = RunTunnel(@)]

(* A reset, or the write deadline. *)
LeftoverFail(r) ==
  /\ At(r, "leftover")
  /\ job' = [job EXCEPT ![r].at = "end", ![r].open = {}]
-----------------------------------------------------------------------------
(* copySide in direction d: a chunk arrives. *)
Read(r, d) ==
  /\ job[r].side[d] = "read"
  /\ Src[d] \in job[r].open /\ job[r].peer[Src[d]].sends = "yes"
  /\ job' = [job EXCEPT ![r].side[d] = "write"]

(* End of file, a socket the other goroutine has closed, or the idle deadline. *)
ReadFail(r, d) ==
  /\ job[r].side[d] = "read"
  /\ job' = [job EXCEPT ![r].side[d] = "close"]

Write(r, d) ==
  /\ job[r].side[d] = "write"
  /\ Dst[d] \in job[r].open /\ job[r].peer[Dst[d]].reads
  /\ job' = [job EXCEPT ![r].side[d] = "read"]

(* A reset, a socket the other goroutine has closed, or the idle deadline. *)
WriteFail(r, d) ==
  /\ job[r].side[d] = "write"
  /\ job' = [job EXCEPT ![r].side[d] = "close"]

(* Faulty variant: the destination is left to the handler. *)
CloseDstLater(r, d) ==
  /\ job[r].side[d] = "close"
  /\ job' = [job EXCEPT ![r].side[d] = "done"]

(* The goroutine closes its destination, and only that, and is done. *)
CloseDst(r, d) ==
  /\ job[r].side[d] = "close"
  /\ job' = [job EXCEPT ![r].side[d] = "done", ![r].open = @ \ {Dst[d]}]

Side(r, d) == Read(r, d) \/ ReadFail(r, d) \/ Write(r, d) \/ WriteFail(r, d) \/ CloseDst(r, d)

(* wg.Wait(), and both sockets are closed (again). *)
Join(r) ==
  /\ At(r, "copy") /\ \A d \in Dirs : job[r].side[d] = "done"
  /\ job' = [job EXCEPT ![r].at = "account", ![r].open = {}]

(* live.add, addDaily and the log entry. *)
Account(r) == At(r, "account") /\ job' = [job EXCEPT ![r].at = "end"]
-----------------------------------------------------------------------------
(* Faulty variant: the request's context has no timeout. *)
NoTimeout(r) == FALSE /\ job' = job

(* handleForward.  The context's timeout covers the round trip and every read of
   the response; the server has no timeout for writes. *)
Timeout(r) ==
  /\ job[r].at \in ForwardLabels /\ ~job[r].timedOut
  /\ job' = [job EXCEPT ![r].timedOut = TRUE]

RoundTrip(r) ==
  /\ At(r, "roundTrip") /\ ~job[r].timedOut
  /\ job[r].peer["upstream"].sends = "yes"
  /\ job' = [job EXCEPT ![r].at = "body"]

(* 502 or 504; nothing is accounted, whatever was sent of the request's body. *)
RoundTripFail(r) == At(r, "roundTrip") /\ job' = [job EXCEPT ![r].at = "end"]

BodyRead(r) ==
  /\ At(r, "body") /\ ~job[r].timedOut
  /\ job[r].peer["upstream"].sends = "yes"
  /\ job' = [job EXCEPT ![r].at = "bodyWrite"]

(* The end of the body, an error of the upstream, the timeout, or the context
   that the server cancels when the client closes. *)
BodyEnd(r) ==
  /\ At(r, "body")
  /\ job' = [job EXCEPT ![r].at = "account"]

BodyWrite(r) ==
  /\ At(r, "bodyWrite")
  /\ job[r].peer["client"].reads
  /\ job' = [job EXCEPT ![r].at = "body"]

BodyWriteFail(r) ==
  /\ At(r, "bodyWrite")
  /\ Dead(r, "client")
  /\ job' = [job EXCEPT ![r].at = "account"]

(* The steps of the handler's own goroutine. *)
Handler(r) ==
  \/ HijackFail(r) \/ Hijack(r) \/ DialFail(r) \/ Dial(r) \/ Reply(r)
  \/ Leftover(r) \/ LeftoverFail(r) \/ Join(r) \/ Account(r)
  \/ RoundTrip(r) \/ RoundTripFail(r) \/ BodyRead(r) \/ BodyEnd(r)
  \/ BodyWrite(r) \/ BodyWriteFail(r)

Peer(r) == \E e \in Ends : PeerStopsSending(r, e) \/ PeerStopsReading(r, e)

Serve(r) == Handler(r) \/ (\E d \in Dirs : Side(r, d)) \/ Timeout(r) \/ Peer(r)

Next == \E r \in Reqs : Serve(r) \/ Finish(r) \/ \E via \in {"connect", "forward"} : Start(r, via)

Spec == Init /\ [][Next]_job
-----------------------------------------------------------------------------
(* Types of the state; the goroutines live while the handler waits for them. *)
TypeOK ==
  /\ job \in [Reqs -> Jobs]
  /\ \A r \in Reqs, d \in Dirs : job[r].side[d] # "done" => At(r, "copy")

(* However a CONNECT ends, nothing of it outlives the handler, which then gives
   the slot back: both sockets are closed and both goroutines are done, before
   the handler reads their counters. *)
CleanEnd ==
  \A r \in Reqs : job[r].at \in {"account", "end"} =>
    /\ job[r].open = {}
    /\ \A d \in Dirs : job[r].side[d] = "done"
=============================================================================
