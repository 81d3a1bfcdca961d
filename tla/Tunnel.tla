------------------------------- MODULE Tunnel -------------------------------
(***************************************************************************)
(* A user's connection through the whole tunnel: the proxy's accept and    *)
(* read loops and the device's handler on the server (server.go,           *)
(* proxy.go), the WebSocket with little room in either direction, the main *)
(* loop, the local reader and the heartbeat of the client (client.go), and *)
(* a local service that reads no more before it has written its answer.    *)
(* Server, TcpProxy and Client look at one of these parts each and let the *)
(* others do anything; here everybody can be kept waiting by the next.     *)
(*                                                                         *)
(* One session, one stream at a time; a stream both sides have forgotten   *)
(* stands for a new one.  Chunks of data are alike.                        *)
(***************************************************************************)
EXTENDS Naturals, Sequences

CONSTANT Cap  \* bound: messages the WebSocket takes before a write waits

ASSUME CapAssumption == Cap \in Nat \ {0}

VARIABLES
  accept,   \* acceptLoop: waiting, or announcing the stream
  loop,     \* readLoop of the stream
  handler,  \* handleWebSocket of the device
  sconn,    \* the stream is in p.conns and its connection open
  smu,      \* who holds device.connMu
  ws, down, up, \* the WebSocket: state, to the client, to the server
  main,     \* the client's Start goroutine, in run
  pump,     \* readFromLocal of the stream
  beat,     \* heartbeatLoop
  lconn,    \* the stream is in c.localConns and its connection open
  cmu,      \* who holds c.connMu
  user, svc \* the two ends

server == <<accept, loop, handler, sconn, smu>>
client == <<main, pump, beat, lconn, cmu>>
wire == <<ws, down, up>>
ends == <<user, svc>>
vars == <<server, client, wire, ends>>

-----------------------------------------------------------------------------
Contents(q) == {q[i] : i \in 1..Len(q)}

(* A writer first takes the lock of its side of the connection, ...        *)
TakeServerLock(a) == smu = "free" /\ smu' = a
TakeClientLock(a) == cmu = "free" /\ cmu' = a

(* ... then waits until the message fits, or the connection is closed and  *)
(* the write fails, and releases the lock.                                 *)
SendDown(a, m) ==
  /\ smu = a /\ smu' = "free"
  /\ IF ws = "down" THEN UNCHANGED down
                    ELSE Len(down) < Cap /\ down' = Append(down, m)
  /\ UNCHANGED <<ws, up>>

SendUp(a, m) ==
  /\ cmu = a /\ cmu' = "free"
  /\ IF ws = "down" THEN UNCHANGED up
                    ELSE Len(up) < Cap /\ up' = Append(up, m)
  /\ UNCHANGED <<ws, down>>

(* Proxy.Stop was called: nothing else stops the proxy here.               *)
Stopped == handler = "ended"

Receive(q, m) == q # <<>> /\ Head(q) = m

Init ==
  /\ accept = "idle" /\ loop = "off" /\ handler = "reading"
  /\ sconn = FALSE /\ smu = "free"
  /\ ws = "up" /\ down = <<>> /\ up = <<>>
  /\ main = "reading" /\ pump = "off" /\ beat = "idle"
  /\ lconn = FALSE /\ cmu = "free"
  /\ user = "away" /\ svc = "away"

-----------------------------------------------------------------------------
(* The server: accept and read loops of the proxy.                         *)

(* Nothing is left of the last stream.                                     *)
Forgotten ==
  /\ accept = "idle" /\ loop = "off" /\ ~ sconn
  /\ main \in {"reading", "left"} /\ pump = "off" /\ ~ lconn
  /\ (Contents(down) \cup Contents(up)) \cap {"open", "data", "close"} = {}

(* Accept; the stream enters p.conns.                                      *)
Accept ==
  /\ Forgotten /\ ~ Stopped
  /\ user' = "here" /\ svc' = "away"
  /\ accept' = "announcing" /\ sconn' = TRUE
  /\ UNCHANGED <<loop, handler, smu, client, wire>>

AcceptLocks ==
  /\ accept = "announcing" /\ TakeServerLock("accept")
  /\ UNCHANGED <<accept, loop, handler, sconn, client, wire, ends>>

(* Mutant: the read loop starts before conn_open is sent.                  *)
AnnounceLate ==
  \/ /\ accept = "announcing" /\ loop = "off" /\ smu = "free"
     /\ loop' = "reading"
     /\ UNCHANGED <<accept, handler, sconn, smu, client, wire, ends>>
  \/ /\ accept = "announcing" /\ loop # "off" /\ SendDown("accept", "open")
     /\ accept' = "idle"
     /\ UNCHANGED <<loop, handler, sconn, client, ends>>

(* conn_open is sent, then the read loop starts.                           *)
Announce ==
  /\ accept = "announcing" /\ SendDown("accept", "open")
  /\ accept' = "idle" /\ loop' = "reading"
  /\ UNCHANGED <<handler, sconn, client, ends>>

LoopReads ==
  /\ loop = "reading" /\ sconn /\ user = "here"
  /\ loop' = "sending"
  /\ UNCHANGED <<accept, handler, sconn, smu, client, wire, ends>>

LoopReadFails ==
  /\ loop = "reading" /\ (user = "gone" \/ ~ sconn)
  /\ loop' = "ending"
  /\ UNCHANGED <<accept, handler, sconn, smu, client, wire, ends>>

LoopLocks ==
  /\ loop \in {"sending", "ending"} /\ TakeServerLock("loop")
  /\ UNCHANGED <<accept, loop, handler, sconn, client, wire, ends>>

(* Errors of sendToClient are not looked at.                               *)
LoopSends ==
  /\ loop = "sending" /\ SendDown("loop", "data")
  /\ loop' = IF Stopped THEN "ending" ELSE "reading"
  /\ UNCHANGED <<accept, handler, sconn, client, ends>>

(* Mutant: the function returns with the lock held.                        *)
LoopEndsLocked ==
  /\ loop = "ending" /\ smu = "loop"
  /\ IF ws = "down" THEN UNCHANGED down
                    ELSE Len(down) < Cap /\ down' = Append(down, "close")
  /\ loop' = "off" /\ sconn' = FALSE
  /\ UNCHANGED <<accept, handler, smu, client, ws, up, ends>>

(* The deferred function: conn_close, then the entry.                      *)
LoopEnds ==
  /\ loop = "ending" /\ SendDown("loop", "close")
  /\ loop' = "off" /\ sconn' = FALSE
  /\ UNCHANGED <<accept, handler, client, ends>>

-----------------------------------------------------------------------------
(* The server: the handler of the device.                                  *)

HandlerReads(m) == handler = "reading" /\ Receive(up, m) /\ up' = Tail(up)

HandlerReadsBeat ==
  /\ HandlerReads("heartbeat") /\ handler' = "acking"
  /\ UNCHANGED <<accept, loop, sconn, smu, client, ws, down, ends>>

HandlerLocks ==
  /\ handler = "acking" /\ TakeServerLock("handler")
  /\ UNCHANGED <<accept, loop, handler, sconn, client, wire, ends>>

(* Under the lock LastHeartbeat is set, too.                               *)
HandlerAcks ==
  /\ handler = "acking" /\ SendDown("handler", "ack")
  /\ handler' = "reading"
  /\ UNCHANGED <<accept, loop, sconn, client, ends>>

(* Data for a stream that has left p.conns is dropped.                     *)
HandlerReadsData ==
  /\ HandlerReads("data") /\ handler' = IF sconn THEN "writing" ELSE "reading"
  /\ UNCHANGED <<accept, loop, sconn, smu, client, ws, down, ends>>

(* The user reads, or has gone and the write fails.                        *)
HandlerWrites ==
  /\ handler = "writing" /\ handler' = "reading"
  /\ UNCHANGED <<accept, loop, sconn, smu, client, wire, ends>>

HandlerReadsClose ==
  /\ HandlerReads("close") /\ sconn' = FALSE
  /\ UNCHANGED <<accept, loop, handler, smu, client, ws, down, ends>>

(* handleDisconnect: the proxy is stopped and closes its connections.      *)
HandlerLeaves ==
  /\ handler = "reading" /\ ws = "down" /\ handler' = "ended"
  /\ sconn' = FALSE
  /\ UNCHANGED <<accept, loop, smu, client, wire, ends>>

-----------------------------------------------------------------------------
(* The WebSocket.                                                          *)

CloseWs == ws = "up" /\ ws' = "down" /\ down' = <<>> /\ up' = <<>>

(* A heartbeat is under way.                                               *)
Outstanding == beat = "due" \/ "heartbeat" \in Contents(up) \/ handler = "acking"

(* Mutant: the checker takes the write lock before it closes.              *)
TimesOutLocked ==
  /\ Outstanding /\ smu = "free" /\ CloseWs
  /\ UNCHANGED <<server, client, ends>>

(* checkHeartbeatTimeout, when no heartbeat has been handled for too long. *)
TimesOut ==
  /\ Outstanding /\ CloseWs
  /\ UNCHANGED <<server, client, ends>>

ConnectionLost ==
  /\ CloseWs
  /\ UNCHANGED <<server, client, ends>>

-----------------------------------------------------------------------------
(* The client: the main loop.                                              *)

MainReads(m) == main = "reading" /\ Receive(down, m) /\ down' = Tail(down)

MainReadsAck ==
  /\ MainReads("ack")
  /\ UNCHANGED <<server, client, ws, up, ends>>

MainReadsOpen ==
  /\ MainReads("open") /\ main' = "opening"
  /\ UNCHANGED <<server, pump, beat, lconn, cmu, ws, up, ends>>

LocalDial ==
  /\ main = "opening" /\ main' = "reading"
  /\ lconn' = TRUE /\ pump' = "reading" /\ svc' = "reading"
  /\ UNCHANGED <<server, beat, cmu, wire, user>>

LocalDialFails ==
  /\ main = "opening" /\ main' = "refusing"
  /\ svc' = "gone"
  /\ UNCHANGED <<server, pump, beat, lconn, cmu, wire, user>>

(* Data of a stream that is not in the map is answered with conn_close.    *)
MainReadsData ==
  /\ MainReads("data") /\ main' = IF lconn THEN "writing" ELSE "refusing"
  /\ UNCHANGED <<server, pump, beat, lconn, cmu, ws, up, ends>>

(* The service takes the chunk.                                            *)
LocalWrite ==
  /\ main = "writing" /\ lconn /\ svc = "reading"
  /\ main' = "reading" /\ svc' = "holding"
  /\ UNCHANGED <<server, pump, beat, lconn, cmu, wire, user>>

LocalWriteFails ==
  /\ main = "writing" /\ (~ lconn \/ svc = "gone")
  /\ main' = "reading" /\ lconn' = FALSE
  /\ UNCHANGED <<server, pump, beat, cmu, wire, ends>>

MainReadsClose ==
  /\ MainReads("close") /\ lconn' = FALSE
  /\ UNCHANGED <<server, main, pump, beat, cmu, ws, up, ends>>

MainLocks ==
  /\ main = "refusing" /\ TakeClientLock("main")
  /\ UNCHANGED <<server, main, pump, beat, lconn, wire, ends>>

MainRefuses ==
  /\ main = "refusing" /\ SendUp("main", "close")
  /\ main' = "reading"
  /\ UNCHANGED <<server, pump, beat, lconn, ends>>

(* The session is lost: cleanup.                                           *)
MainLeaves ==
  /\ main = "reading" /\ ws = "down"
  /\ main' = "left" /\ lconn' = FALSE
  /\ UNCHANGED <<server, pump, beat, cmu, wire, ends>>

-----------------------------------------------------------------------------
(* The client: the local reader and the heartbeat.                         *)

(* The service has written its answer and reads again.                     *)
PumpReads ==
  /\ pump = "reading" /\ lconn /\ svc = "holding"
  /\ pump' = "sending" /\ svc' = "reading"
  /\ UNCHANGED <<server, main, beat, lconn, cmu, wire, user>>

(* closeLocalConn, the first deferred step.                                *)
PumpReadFails ==
  /\ pump = "reading" /\ (~ lconn \/ svc = "gone")
  /\ pump' = "ending" /\ lconn' = FALSE
  /\ UNCHANGED <<server, main, beat, cmu, wire, ends>>

PumpLocks ==
  /\ pump \in {"sending", "ending"} /\ TakeClientLock("pump")
  /\ UNCHANGED <<server, main, pump, beat, lconn, wire, ends>>

PumpSends ==
  /\ pump = "sending" /\ SendUp("pump", "data")
  /\ IF ws = "up" THEN pump' = "reading" /\ UNCHANGED lconn
                  ELSE pump' = "ending" /\ lconn' = FALSE
  /\ UNCHANGED <<server, main, beat, ends>>

(* Mutant: the server is not told.                                         *)
PumpEndsSilently ==
  /\ pump = "ending" /\ pump' = "off"
  /\ cmu' = IF cmu = "pump" THEN "free" ELSE cmu
  /\ UNCHANGED <<server, main, beat, lconn, wire, ends>>

PumpEnds ==
  /\ pump = "ending" /\ SendUp("pump", "close")
  /\ pump' = "off"
  /\ UNCHANGED <<server, main, beat, lconn, ends>>

(* The ticker does not care for the fate of earlier heartbeats.            *)
BeatTicks ==
  /\ beat = "idle" /\ ws = "up" /\ main # "left"
  /\ beat' = "due"
  /\ UNCHANGED <<server, main, pump, lconn, cmu, wire, ends>>

BeatLocks ==
  /\ beat = "due" /\ TakeClientLock("beat")
  /\ UNCHANGED <<server, main, pump, beat, lconn, wire, ends>>

BeatSends ==
  /\ beat = "due" /\ SendUp("beat", "heartbeat")
  /\ beat' = "idle"
  /\ UNCHANGED <<server, main, pump, lconn, ends>>

-----------------------------------------------------------------------------
(* The two ends.                                                           *)

UserLeaves ==
  /\ user = "here" /\ user' = "gone"
  /\ UNCHANGED <<server, client, wire, svc>>

SvcCloses ==
  /\ svc \in {"reading", "holding"} /\ svc' = "gone"
  /\ UNCHANGED <<server, client, wire, user>>

-----------------------------------------------------------------------------
(* A stream is announced before it has a read loop.                        *)
ProxyLocks == AcceptLocks \/ LoopLocks
ProxyStep == Announce \/ LoopReadFails \/ LoopSends \/ LoopEnds

HandlerStep ==
  \/ HandlerReadsBeat \/ HandlerAcks \/ HandlerReadsData \/ HandlerWrites
  \/ HandlerReadsClose \/ HandlerLeaves

MainStep ==
  \/ MainReadsAck \/ MainReadsOpen \/ LocalDial \/ LocalDialFails \/ MainReadsData
  \/ LocalWrite \/ LocalWriteFails \/ MainReadsClose \/ MainRefuses \/ MainLeaves

PumpStep == PumpReads \/ PumpReadFails \/ PumpSends \/ PumpEnds

BeatStep == BeatTicks \/ BeatSends

Next ==
  \/ Accept \/ LoopReads \/ ProxyLocks \/ ProxyStep
  \/ HandlerLocks \/ HandlerStep
  \/ TimesOut \/ ConnectionLost
  \/ MainLocks \/ MainStep \/ PumpLocks \/ PumpStep
  \/ BeatLocks \/ BeatStep
  \/ UserLeaves \/ SvcCloses

Spec == Init /\ [][Next]_vars

(* Goroutines run, whoever waits for a mutex gets it (Go's mutexes do not  *)
(* starve), the user reads, the heartbeat ticks, and the checker closes    *)
(* the connection when none is handled any more.                           *)
FairSpec ==
  /\ Spec
  /\ WF_vars(ProxyStep) /\ WF_vars(HandlerStep)
  /\ WF_vars(MainStep) /\ WF_vars(PumpStep) /\ WF_vars(BeatStep)
  /\ SF_vars(ProxyLocks) /\ SF_vars(HandlerLocks)
  /\ SF_vars(MainLocks) /\ SF_vars(PumpLocks) /\ SF_vars(BeatLocks)
  /\ []<><<HandlerAcks>>_vars \/ WF_vars(TimesOut)

-----------------------------------------------------------------------------
(* Properties.                                                             *)

(* Ranges of the variables.                                                *)
TypeOK ==
  /\ accept \in {"idle", "announcing"}
  /\ loop \in {"off", "reading", "sending", "ending"}
  /\ handler \in {"reading", "acking", "writing", "ended"}
  /\ sconn \in BOOLEAN /\ lconn \in BOOLEAN
  /\ smu \in {"free", "accept", "loop", "handler"}
  /\ cmu \in {"free", "main", "pump", "beat"}
  /\ ws \in {"up", "down"}
  /\ down \in Seq({"open", "data", "close", "ack"}) /\ Len(down) <= Cap
  /\ up \in Seq({"data", "close", "heartbeat"}) /\ Len(up) <= Cap
  /\ main \in {"reading", "opening", "writing", "refusing", "left"}
  /\ pump \in {"off", "reading", "sending", "ending"}
  /\ beat \in {"idle", "due"}
  /\ user \in {"away", "here", "gone"}
  /\ svc \in {"away", "reading", "holding", "gone"}

(* No chunk is dropped inside the tunnel while its receiver is there: what *)
(* the user sent finds its local connection unless the service has closed  *)
(* or refused it, even when the user closes right after sending; what the  *)
(* service answered finds the user's connection unless the user has gone   *)
(* or the service closed before its answer was read.                       *)
DataFindsReceiver ==
  /\ main = "reading" /\ Receive(down, "data") => lconn \/ svc = "gone"
  /\ handler = "reading" /\ Receive(up, "data") => sconn \/ user = "gone" \/ svc = "gone"

(* Nobody waits for ever: not the read loop and the handler for each       *)
(* other's lock, not the client for a service that waits for the client.   *)
(* All of them can wait in a circle through both machines, which only the  *)
(* time-out of the heartbeat caught in it breaks.                          *)
Busy(a) ==
  CASE a = "loop"    -> loop \in {"sending", "ending"}
    [] a = "handler" -> handler \in {"acking", "writing"}
    [] a = "main"    -> main \in {"opening", "writing", "refusing"}
    [] a = "pump"    -> pump \in {"sending", "ending"}

NobodyWaitsForever == \A a \in {"loop", "handler", "main", "pump"} : Busy(a) ~> ~ Busy(a)

(* What a goroutine has to do for the tunnel, ...                          *)
Waiting ==
  \/ accept = "announcing" \/ beat = "due"
  \/ \E a \in {"loop", "handler", "main", "pump"} : Busy(a)

(* ... and what keeps it from going on: the lock of its side, a WebSocket  *)
(* that takes no more, nothing to read, or a service that does not read.   *)
MaySendDown(a) == smu = "free" \/ (smu = a /\ (ws = "down" \/ Len(down) < Cap))
MaySendUp(a)   == cmu = "free" \/ (cmu = a /\ (ws = "down" \/ Len(up) < Cap))

SomebodyGoesOn ==
  \/ accept = "announcing" /\ MaySendDown("accept")
  \/ loop \in {"sending", "ending"} /\ MaySendDown("loop")
  \/ handler = "acking" /\ MaySendDown("handler")
  \/ handler = "writing"
  \/ handler = "reading" /\ (up # <<>> \/ ws = "down")
  \/ main = "reading" /\ (down # <<>> \/ ws = "down")
  \/ main = "opening"
  \/ main = "writing" /\ (~ lconn \/ svc \in {"reading", "gone"})
  \/ main = "refusing" /\ MaySendUp("main")
  \/ pump = "reading" /\ lconn /\ svc = "holding"
  \/ pump \in {"sending", "ending"} /\ MaySendUp("pump")
  \/ beat = "due" /\ MaySendUp("beat")

(* There is no other standstill than that circle: when nobody can go on,   *)
(* the WebSocket is full in both directions and the handler is about to    *)
(* acknowledge a heartbeat.  So the time-out that breaks the circle comes, *)
(* and neither the two locks nor the local service can make the tunnel     *)
(* stop in a way that the checker does not see.                            *)
StallHasHeartbeat ==
  Waiting /\ ~ SomebodyGoesOn =>
    ws = "up" /\ handler = "acking" /\ Len(down) = Cap /\ Len(up) = Cap

(* When one end closes, both sides forget the stream, also when their      *)
(* conn_close messages cross or meet data under way.                       *)
BothForget == (user = "gone" \/ svc = "gone") ~> Forgotten

-----------------------------------------------------------------------------
(* The inductive invariant.                                                *)

(* A connection that is down carries nothing; one that is up has both its  *)
(* readers.                                                                *)
WireInv ==
  IF ws = "down" THEN down = <<>> /\ up = <<>>
                 ELSE handler # "ended" /\ main # "left"

(* Towards the client nothing of the stream comes before its conn_open or  *)
(* after its conn_close.                                                   *)
Ordered(q) ==
  \A i, j \in 1..Len(q) : i < j =>
    (q[j] = "open" => q[i] = "ack") /\ (q[i] = "close" => q[j] = "ack")

(* The client has, or is about to have, a local connection.                *)
OpensOrOpen == "open" \in Contents(down) \/ main = "opening" \/ lconn

(* A conn_open is under way once, and the service has not been dialled.    *)
OpenInv ==
  /\ accept = "announcing" \/ "open" \in Contents(down) \/ main = "opening"
     => svc = "away"
  /\ main = "opening" => "open" \notin Contents(down) /\ accept # "announcing"

(* Unless the service has left, what is on its way to it and whoever may   *)
(* send it more have a local connection to go to.                          *)
DownInv ==
  /\ Ordered(down)
  /\ accept = "announcing" => Contents(down) \subseteq {"ack"} /\ loop = "off"
  /\ loop # "off" => "close" \notin Contents(down) /\ OpensOrOpen
  /\ {"data", "close"} \cap Contents(down) # {} => OpensOrOpen
  /\ main = "writing" => lconn

(* Unless either end has left, nobody says that the stream is closed, and  *)
(* the user's connection is there for as long as anything of it is.        *)
UpInv ==
  /\ "close" \notin Contents(down) \cup Contents(up)
  /\ loop # "ending" /\ pump # "ending" /\ main # "refusing"
  /\ pump # "off" => lconn
  /\ "data" \in Contents(up) \/ OpensOrOpen \/ loop # "off" \/ accept = "announcing"
     => sconn

(* The last stream's reader has ended before a stream is opened.           *)
PumpInv ==
  /\ accept = "announcing" \/ "open" \in Contents(down) \/ main = "opening"
     => pump = "off"
  /\ main = "opening" => accept # "announcing"

(* A lock is held by somebody who is sending, and a local connection has   *)
(* its reader.                                                             *)
LockInv ==
  /\ smu = "accept"  => accept = "announcing"
  /\ smu = "loop"    => loop \in {"sending", "ending"}
  /\ smu = "handler" => handler = "acking"
  /\ cmu = "main"    => main = "refusing"
  /\ cmu = "pump"    => pump \in {"sending", "ending"}
  /\ cmu = "beat"    => beat = "due"
  /\ lconn           => pump \in {"reading", "sending"} /\ svc # "away"

(* The strengthening the proofs use.                                       *)
IInv ==
  /\ TypeOK /\ WireInv
  /\ ws = "up" => OpenInv
  /\ ws = "up" /\ svc # "gone" => DownInv
  /\ ws = "up" /\ svc # "gone" /\ user # "gone" => UpInv
=============================================================================
