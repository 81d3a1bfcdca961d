------------------------------- MODULE Client -------------------------------
(***************************************************************************)
(* One client (internal/client/client.go): the goroutine of Start, which   *)
(* dials, registers and serves one session after the other, the heartbeat  *)
(* goroutine of each session, the goroutines that read from local          *)
(* connections, and Stop.  They share c.conn and c.localConns under c.mu;  *)
(* Start's goroutine also reads c.conn without it.                         *)
(*                                                                         *)
(* A session is a *websocket.Conn with the heartbeat goroutine run starts  *)
(* for it; a stream is a connID with its local TCP connection.  One that   *)
(* is finished and that nothing refers to stands for a new one.  The       *)
(* server, the network and the local service may do anything.              *)
(***************************************************************************)
EXTENDS Integers, FiniteSets

CONSTANTS Sessions, Streams, None

ASSUME NoneIsNothing == None \notin Sessions \cup Streams

VARIABLES
  main,        \* Start's goroutine: where, in which session, for which stream
  conn,        \* c.conn
  net,         \* the client's end of a session's WebSocket
  heart,       \* the heartbeat goroutine of a session
  runEnded,    \* sessions whose heartbeatDone is closed
  localConns,  \* the streams in c.localConns
  local,       \* the local connection of a stream
  pump,        \* the readFromLocal goroutine of a stream
  stop,        \* progress of Stop
  taken        \* the session Stop has taken out of c.conn

streams  == <<localConns, local, pump>>
hearts   == <<heart, runEnded>>
stopping == <<stop, taken>>
vars == <<main, conn, net, hearts, streams, stopping>>

-----------------------------------------------------------------------------
Stopped == stop # "idle"

(* The process ends with the panic of any of its goroutines.               *)
Running == main.at # "crashed"

MainGoes(from, to, s, i) ==
  /\ main.at = from
  /\ main' = [at |-> to, ws |-> s, stream |-> i]

(* ... within the session.                                                 *)
Goes(from, to) == MainGoes(from, to, main.ws, None)

(* sendMessage succeeds on the session that is in c.conn and alive.        *)
CanSend == conn # None /\ net[conn] = "up"

(* closeConn, under c.mu: whatever session is in c.conn by now.            *)
CloseConn ==
  /\ conn' = None
  /\ net' = IF conn = None THEN net ELSE [net EXCEPT ![conn] = "closed"]

(* closeLocalConn, under c.mu: a stream that has left the map is ignored.  *)
CloseLocalConn(i) ==
  /\ localConns' = localConns \ {i}
  /\ local' = IF i \in localConns THEN [local EXCEPT ![i] = "closed"] ELSE local

PumpGoes(i, from, to) ==
  /\ pump[i] = from
  /\ pump' = [pump EXCEPT ![i] = to]

(* A websocket object that is closed and forgotten, and its goroutine.     *)
NewSession(s) ==
  /\ net[s] = "closed" /\ heart[s] = "off"
  /\ s # main.ws /\ s # conn /\ s # taken

NewStream(i) == i \notin localConns /\ local[i] = "closed" /\ pump[i] = "off"

Init ==
  /\ main = [at |-> "new", ws |-> None, stream |-> None]
  /\ conn = None
  /\ net = [s \in Sessions |-> "closed"]
  /\ heart = [s \in Sessions |-> "off"] /\ runEnded = {}
  /\ localConns = {}
  /\ local = [i \in Streams |-> "closed"]
  /\ pump = [i \in Streams |-> "off"]
  /\ stop = "idle" /\ taken = None

-----------------------------------------------------------------------------
(* Start, connect and register.                                            *)

Start ==
  /\ MainGoes("new", "poll", None, None)
  /\ UNCHANGED <<conn, net, hearts, streams, stopping>>

Poll ==
  /\ MainGoes("poll", IF Stopped THEN "ended" ELSE "dialing", None, None)
  /\ UNCHANGED <<conn, net, hearts, streams, stopping>>

DialFails ==
  /\ MainGoes("dialing", "sleeping", None, None)
  /\ UNCHANGED <<conn, net, hearts, streams, stopping>>

Dial(s) ==
  /\ MainGoes("dialing", "dialed", s, None)
  /\ NewSession(s)
  /\ net' = [net EXCEPT ![s] = "up"]
  /\ UNCHANGED <<conn, hearts, streams, stopping>>

SetConn ==
  /\ Goes("dialed", "registering")
  /\ conn' = main.ws
  /\ UNCHANGED <<net, hearts, streams, stopping>>

SendRegister ==
  /\ Goes("registering", IF CanSend THEN "sent" ELSE "refused")
  /\ UNCHANGED <<conn, net, hearts, streams, stopping>>

(* c.conn is read again, without the lock, to wait for the answer on it.   *)
AwaitAnswer ==
  /\ Goes("sent", IF conn = None THEN "crashed" ELSE "awaiting")
  /\ UNCHANGED <<conn, net, hearts, streams, stopping>>

(* run starts the heartbeat goroutine.                                     *)
Assigned ==
  /\ Goes("awaiting", "loop")
  /\ heart' = [heart EXCEPT ![main.ws] = "ticking"]
  /\ runEnded' = runEnded \ {main.ws}
  /\ UNCHANGED <<conn, net, streams, stopping>>

(* An error message, any other message, or no answer any more.             *)
Refused ==
  /\ Goes("awaiting", "refused")
  /\ UNCHANGED <<conn, net, hearts, streams, stopping>>

(* Mutant: the connection is left open before the next attempt.            *)
RetryWithoutClose ==
  /\ MainGoes("refused", "sleeping", None, None)
  /\ UNCHANGED <<conn, net, hearts, streams, stopping>>

Retry ==
  /\ MainGoes("refused", "sleeping", None, None)
  /\ CloseConn
  /\ UNCHANGED <<hearts, streams, stopping>>

Wake ==
  /\ MainGoes("sleeping", "poll", None, None)
  /\ UNCHANGED <<conn, net, hearts, streams, stopping>>

-----------------------------------------------------------------------------
(* run: the message loop of a session.                                     *)

(* Mutant: the loop does not look at stopCh.                               *)
LoopBlind ==
  /\ Goes("loop", "fetch")
  /\ UNCHANGED <<conn, net, hearts, streams, stopping>>

LoopPoll ==
  /\ Goes("loop", IF Stopped THEN "leaving" ELSE "fetch")
  /\ UNCHANGED <<conn, net, hearts, streams, stopping>>

(* c.conn.ReadMessage() evaluates c.conn without the lock.                 *)
Fetch ==
  /\ Goes("fetch", IF conn = None THEN "crashed" ELSE "reading")
  /\ UNCHANGED <<conn, net, hearts, streams, stopping>>

(* Mutant: the loop goes on after a read error.                            *)
ReadIgnoresError ==
  /\ Goes("reading", "reading")
  /\ net[main.ws] # "up"
  /\ UNCHANGED <<conn, net, hearts, streams, stopping>>

ReadFails ==
  /\ Goes("reading", "leaving")
  /\ net[main.ws] # "up"
  /\ UNCHANGED <<conn, net, hearts, streams, stopping>>

(* A message may still be read after the connection is lost or closed.     *)

(* A message without effect here: an ack, an error, invalid JSON, data of  *)
(* an unknown stream (answered with conn_close).                           *)
ReadOther ==
  /\ Goes("reading", "loop")
  /\ UNCHANGED <<conn, net, hearts, streams, stopping>>

(* conn_open: the local service is dialed before anything else is read.    *)
ReadConnOpen(i) ==
  /\ MainGoes("reading", "opening", main.ws, i)
  /\ NewStream(i)
  /\ UNCHANGED <<conn, net, hearts, streams, stopping>>

(* The server is told with conn_close.                                     *)
LocalDialFails ==
  /\ Goes("opening", "loop")
  /\ UNCHANGED <<conn, net, hearts, streams, stopping>>

LocalDial ==
  /\ Goes("opening", "loop")
  /\ localConns' = localConns \cup {main.stream}
  /\ local' = [local EXCEPT ![main.stream] = "open"]
  /\ pump' = [pump EXCEPT ![main.stream] = "reading"]
  /\ UNCHANGED <<conn, net, hearts, stopping>>

(* data: the stream is looked up under the lock and written to outside.    *)
ReadData(i) ==
  /\ MainGoes("reading", "writing", main.ws, i)
  /\ i \in localConns
  /\ UNCHANGED <<conn, net, hearts, streams, stopping>>

LocalWrite ==
  /\ Goes("writing", "loop")
  /\ local[main.stream] = "open"
  /\ UNCHANGED <<conn, net, hearts, streams, stopping>>

LocalWriteFails ==
  /\ Goes("writing", "loop")
  /\ CloseLocalConn(main.stream)
  /\ UNCHANGED <<conn, net, hearts, pump, stopping>>

ReadConnClose(i) ==
  /\ Goes("reading", "loop")
  /\ CloseLocalConn(i)
  /\ UNCHANGED <<conn, net, hearts, pump, stopping>>

(* Mutant: the heartbeat is not told that its session is over.             *)
LeaveHeartbeat ==
  /\ Goes("leaving", "cleaning")
  /\ UNCHANGED <<conn, net, hearts, streams, stopping>>

(* The deferred function: heartbeatDone is closed, ...                     *)
EndHeartbeat ==
  /\ Goes("leaving", "cleaning")
  /\ runEnded' = runEnded \cup {main.ws}
  /\ UNCHANGED <<conn, net, heart, streams, stopping>>

(* Mutant: the local connections outlive the session.                      *)
CleanupConnOnly ==
  /\ MainGoes("cleaning", "poll", None, None)
  /\ CloseConn
  /\ UNCHANGED <<hearts, streams, stopping>>

(* ... and cleanup closes everything in one critical section.              *)
Cleanup ==
  /\ MainGoes("cleaning", "poll", None, None)
  /\ CloseConn
  /\ localConns' = {}
  /\ local' = [i \in Streams |-> IF i \in localConns THEN "closed" ELSE local[i]]
  /\ UNCHANGED <<hearts, pump, stopping>>

-----------------------------------------------------------------------------
(* heartbeatLoop of session s: its messages go to c.conn, as it is by now. *)

Beat(s) ==
  /\ heart[s] = "ticking"
  /\ heart' = [heart EXCEPT ![s] = IF CanSend THEN "ticking" ELSE "failed"]
  /\ UNCHANGED <<main, conn, net, runEnded, streams, stopping>>

(* "close the connection to trigger the reconnect".                        *)
BeatCloses(s) ==
  /\ heart[s] = "failed"
  /\ heart' = [heart EXCEPT ![s] = "off"]
  /\ CloseConn
  /\ UNCHANGED <<main, runEnded, streams, stopping>>

BeatEnds(s) ==
  /\ heart[s] = "ticking"
  /\ s \in runEnded \/ Stopped
  /\ heart' = [heart EXCEPT ![s] = "off"]
  /\ UNCHANGED <<main, conn, net, runEnded, streams, stopping>>

-----------------------------------------------------------------------------
(* readFromLocal of stream i; it reads nothing while it sends.             *)

PumpData(i) ==
  /\ PumpGoes(i, "reading", "sending")
  /\ local[i] = "open"
  /\ UNCHANGED <<main, conn, net, hearts, localConns, local, stopping>>

PumpSends(i) ==
  /\ PumpGoes(i, "sending", IF CanSend THEN "reading" ELSE "leaving")
  /\ UNCHANGED <<main, conn, net, hearts, localConns, local, stopping>>

(* The local service has closed its end, or the client closed its own.     *)
PumpReadFails(i) ==
  /\ PumpGoes(i, "reading", "leaving")
  /\ UNCHANGED <<main, conn, net, hearts, localConns, local, stopping>>

(* closeLocalConn; then conn_close is sent, or not if that fails.          *)
PumpEnds(i) ==
  /\ PumpGoes(i, "leaving", "off")
  /\ CloseLocalConn(i)
  /\ UNCHANGED <<main, conn, net, hearts, stopping>>

-----------------------------------------------------------------------------
(* Stop, and the peer.                                                     *)

StopSignal ==
  /\ stop = "idle" /\ stop' = "signalled"
  /\ UNCHANGED <<main, conn, net, hearts, streams, taken>>

(* Mutant: Stop does not wait for the goroutine of a client that started.  *)
TakeWithoutLook ==
  /\ stop = "signalled" /\ stop' = "unstarted"
  /\ taken' = conn /\ conn' = None
  /\ UNCHANGED <<main, net, hearts, streams>>

(* Under c.mu: conn is taken; Stop waits only for a client that started.   *)
StopTake ==
  /\ stop = "signalled"
  /\ stop' = IF main.at = "new" THEN "unstarted" ELSE "taken"
  /\ taken' = conn /\ conn' = None
  /\ UNCHANGED <<main, net, hearts, streams>>

(* Mutant: the connection it took is not closed.                           *)
StopWithoutClose ==
  /\ stop \in {"unstarted", "taken"}
  /\ stop' = IF stop = "taken" THEN "waiting" ELSE "returned"
  /\ taken' = None
  /\ UNCHANGED <<main, conn, net, hearts, streams>>

StopClose ==
  /\ stop \in {"unstarted", "taken"}
  /\ stop' = IF stop = "taken" THEN "waiting" ELSE "returned"
  /\ net' = IF taken = None THEN net ELSE [net EXCEPT ![taken] = "closed"]
  /\ taken' = None
  /\ UNCHANGED <<main, conn, hearts, streams>>

StopReturns ==
  /\ stop = "waiting" /\ main.at = "ended"
  /\ stop' = "returned"
  /\ UNCHANGED <<main, conn, net, hearts, streams, taken>>

(* The server closes the connection or the network fails; Go's dialer      *)
(* enables TCP keep-alive, so that reads and writes fail from then on.     *)
ConnectionLost(s) ==
  /\ net[s] = "up"
  /\ net' = [net EXCEPT ![s] = "lost"]
  /\ UNCHANGED <<main, conn, hearts, streams, stopping>>

-----------------------------------------------------------------------------
(* What Start's goroutine does by itself, or when a call of it returns.    *)
MainStep ==
  \/ Poll \/ DialFails \/ SetConn \/ SendRegister \/ AwaitAnswer
  \/ Assigned \/ Refused \/ Retry \/ Wake
  \/ LoopPoll \/ Fetch \/ ReadFails
  \/ LocalDialFails \/ LocalDial \/ LocalWrite \/ LocalWriteFails
  \/ EndHeartbeat \/ Cleanup
  \/ \E s \in Sessions : Dial(s)

MessageArrives ==
  ReadOther \/ \E i \in Streams : ReadConnOpen(i) \/ ReadData(i) \/ ReadConnClose(i)

HeartStep(s) == BeatCloses(s) \/ BeatEnds(s)

PumpStep(i) == PumpSends(i) \/ PumpEnds(i)

StopStep == StopTake \/ StopClose \/ StopReturns

Next ==
  /\ Running
  /\ \/ Start \/ MainStep \/ MessageArrives \/ StopSignal \/ StopStep
     \/ \E s \in Sessions : Beat(s) \/ HeartStep(s) \/ ConnectionLost(s)
     \/ \E i \in Streams : PumpData(i) \/ PumpReadFails(i) \/ PumpStep(i)

Spec == Init /\ [][Next]_vars

(* Fairness: goroutines run, dialing and writing terminate, the server     *)
(* answers a registration or closes the connection, the ticker ticks, and  *)
(* a lost connection has finitely many messages left.                      *)
FairSpec ==
  /\ Spec
  /\ WF_vars(Running /\ MainStep)
  /\ WF_vars(Running /\ StopStep)
  /\ SF_vars(Running /\ ReadFails)
  /\ \A s \in Sessions : WF_vars(Running /\ (Beat(s) \/ HeartStep(s)))
                         /\ SF_vars(Running /\ BeatEnds(s))
  /\ \A i \in Streams : WF_vars(Running /\ PumpStep(i))
                        /\ WF_vars(Running /\ local[i] = "closed" /\ PumpReadFails(i))

-----------------------------------------------------------------------------
(* Properties.                                                             *)

Outside == {"new", "poll", "dialing", "sleeping", "ended"}
InRun   == {"loop", "fetch", "reading", "opening", "writing"}

(* Ranges of the variables (the fields of Client and the program counters  *)
(* of its goroutines); c.conn is only ever the session Start is in.        *)
TypeOK ==
  /\ main \in [at : Outside \cup InRun \cup
                    {"dialed", "registering", "sent", "awaiting", "refused",
                     "leaving", "cleaning", "crashed"},
               ws : Sessions \cup {None}, stream : Streams \cup {None}]
  /\ conn \in {main.ws, None}
  /\ net \in [Sessions -> {"up", "lost", "closed"}]
  /\ heart \in [Sessions -> {"off", "ticking", "failed"}]
  /\ runEnded \subseteq Sessions
  /\ localConns \subseteq Streams
  /\ local \in [Streams -> {"open", "closed"}]
  /\ pump \in [Streams -> {"off", "reading", "sending", "leaving"}]
  /\ stop \in {"idle", "signalled", "unstarted", "taken", "waiting", "returned"}
  /\ taken \in Sessions \cup {None}

(* No WebSocket is ever forgotten open: it is c.conn, or about to become   *)
(* it, or in the hands of Stop.  So reconnecting, refusals and Stop leak   *)
(* no connection, and a client that has ended holds none.                  *)
NoForgottenSession ==
  \A s \in Sessions : net[s] # "closed" =>
    \/ conn = s
    \/ taken = s
    \/ main.at = "dialed" /\ main.ws = s

(* No local connection crosses from one session into the next: when Start  *)
(* dials, registers or has ended none is open and the map is empty.        *)
FreshSession ==
  main.at \notin InRun \cup {"leaving", "cleaning", "crashed"} =>
    localConns = {} /\ \A i \in Streams : local[i] = "closed"

(* Neither a WebSocket nor a local connection survives its session.        *)
SessionLeavesNothing == NoForgottenSession /\ FreshSession

(* A session that is served always has its heartbeat: while its connection *)
(* is c.conn and Stop has not been called, its own heartbeat goroutine is  *)
(* still there, or is about to close that connection; otherwise the server *)
(* would drop a device that looks healthy here.                            *)
HeartbeatServed ==
  main.at \in InRun /\ conn # None /\ ~ Stopped =>
    conn = main.ws /\ heart[main.ws] # "off"

(* Heartbeats do not pile up over reconnects: of all the heartbeat         *)
(* goroutines that are still there, only the one of the session that is    *)
(* being served has not been told to end.                                  *)
OneHeartbeat ==
  \A s \in Sessions : heart[s] = "ticking" /\ s \notin runEnded =>
    s = main.ws /\ main.at \in InRun \cup {"leaving", "crashed"}

(* A session that is served has its own heartbeat and no other.            *)
HeartbeatPerSession == HeartbeatServed /\ OneHeartbeat

(* Stop never waits for a message loop that waits for the server: when run *)
(* is in ReadMessage its connection has been closed, also when Stop took   *)
(* c.conn while Start was dialing and a new session was registered and put *)
(* there after that.  The read of register is not covered: in this very    *)
(* case it waits on an open connection, until the server answers.          *)
StopWakesReader ==
  stop = "waiting" /\ main.at = "reading" => net[main.ws] = "closed"

(* A lost session is left: the client comes back to dial again, unless it  *)
(* is stopped or has crashed.                                              *)
RedialsAfterLoss ==
  (main.at \in InRun /\ net[main.ws] # "up")
    ~> (main.at = "dialing" \/ Stopped \/ ~ Running)

(* Stop returns, whatever Start's goroutine and the heartbeats are doing.  *)
StopTerminates == Stopped ~> (stop = "returned" \/ ~ Running)

(* No goroutine survives the client: after Stop has returned from a client *)
(* that had started, heartbeats and local readers end.                     *)
Quiet ==
  /\ \A s \in Sessions : heart[s] = "off"
  /\ \A i \in Streams : pump[i] = "off"

GoroutinesEnd == (main.at = "ended") ~> Quiet

(* How far Start and Stop are, as ClientLife tells it.                     *)
LifeOf == IF main.at = "new" THEN "new" ELSE IF main.at = "ended" THEN "done" ELSE "running"

HaltOf ==
  IF stop = "idle" THEN "no" ELSE IF stop = "signalled" THEN "asked"
  ELSE IF stop = "unstarted" THEN "free" ELSE IF stop = "returned" THEN "returned"
  ELSE "waiting"

Life == INSTANCE ClientLife WITH Clients <- {"client"},
          life <- [k \in {"client"} |-> LifeOf], halt <- [k \in {"client"} |-> HaltOf]

(* The client keeps what ClientLife promises the manager: Start returns    *)
(* only once Stop has been called, and Stop of a client that has started   *)
(* only once Start has returned, wherever the two meet.                    *)
ImplementsLife == Life!LifeSpec

-----------------------------------------------------------------------------
(* The inductive invariant.                                                *)

(* Start's goroutine is in a session from Dial to the end of cleanup, and  *)
(* the heartbeatDone of a session being served is open.                    *)
MainInv ==
  /\ IF main.at \in Outside THEN main.ws = None ELSE main.ws \in Sessions
  /\ main.at \in InRun => main.ws \notin runEnded
  /\ main.at \in {"opening", "writing"} => main.stream \in Streams

(* Stop closes what it took before anything else can be taken.             *)
TakenInv == taken # None => stop \in {"unstarted", "taken"}

(* What Start does after its look at stopCh it does on the session Stop    *)
(* took; a session that c.conn holds after that will be left by the look.  *)
AfterLook == {"fetch", "reading", "opening", "writing"}

StopInv ==
  stop \notin {"idle", "signalled"} /\ main.at \in AfterLook => conn = None

(* cleanup finds every open local connection in the map.                   *)
LocalInv == \A i \in Streams : local[i] = "open" => i \in localConns

(* The strengthening the proofs use.                                       *)
IInv ==
  /\ TypeOK /\ MainInv /\ TakenInv /\ StopInv /\ LocalInv
  /\ NoForgottenSession /\ FreshSession /\ HeartbeatServed /\ OneHeartbeat

-----------------------------------------------------------------------------
(* client.go:235: a heartbeat that cannot be sent closes the connection    *)
(* "to trigger the reconnect", so a client nobody stops keeps running.     *)
HeartbeatTriggersReconnect == Stopped \/ Running
=============================================================================
