------------------------------- MODULE Server -------------------------------
(***************************************************************************)
(* The server of the port forwarder (internal/server/server.go): the       *)
(* registry of devices, the port pool they draw from and the TCP proxies   *)
(* that expose them.                                                       *)
(*                                                                         *)
(* Goroutines: one WebSocket handler per connection, one HTTP handler per  *)
(* admin request, the heartbeat checker, the expiry checker and Stop.      *)
(* They share the maps under s.mu, so a step below is one critical section *)
(* of s.mu or one effect outside it.  Proxies are detached from the map    *)
(* under the lock and stopped after it is released: toStop holds, per      *)
(* goroutine, the proxies it has detached and not stopped yet.             *)
(***************************************************************************)
EXTENDS Integers, FiniteSets

CONSTANTS Names,               \* device names
          Conns,               \* *websocket.Conn objects of /ws
          ProxyIds,            \* *Proxy objects
          Requests,            \* goroutines of the admin HTTP handlers
          PortStart, PortEnd,  \* the configured port range
          MaxDevices,          \* config.MaxDevices, 0 for no limit
          ForeignPorts,        \* ports other programs of the host listen on
          None

(* The goroutines that close proxies and sockets outside the lock.         *)
Goroutines == Conns \cup Requests \cup {"expirer", "checker", "stopper"}

Ports == PortStart..PortEnd

(* ExpireAt: zero, in the future, or passed.  silent abstracts             *)
(* LastHeartbeat being older than HeartbeatTimeout.                        *)
Device == [conn    : Conns,
           port    : Ports,
           enabled : BOOLEAN,
           expire  : {"never", "pending", "due"},
           silent  : BOOLEAN]

(* A started proxy: its port, and the Device object it was created for.    *)
Proxy == [port : Ports, conn : Conns, name : Names]

ASSUME PortRange == PortStart \in Nat /\ PortEnd \in Nat
ASSUME DeviceLimit == MaxDevices \in Nat
ASSUME NoneIsNothing ==
  /\ None \notin Names /\ None \notin ProxyIds
  /\ None \notin Device /\ None \notin Proxy
  /\ None \notin Conns \X Names

VARIABLES
  devices,     \* s.devices: name -> device
  conns,       \* s.conns: connection -> name of its device
  proxies,     \* s.proxies: port -> proxy
  used, bindings, nextPort,   \* s.portPool
  obj,         \* proxies whose TCP listener is open, whoever refers to them
  open,        \* connections whose socket neither side has closed
  handler,     \* where the WebSocket handler of a connection is
  wants,       \* the name a handler past the device limit is registering
  writesTo,    \* the proxy a handler in handleData is writing to
  reply,       \* type of the first message sent on a connection
  toStop,      \* goroutine -> proxies it detached and has yet to stop
  toClose,     \* goroutine -> connections it collected and has yet to close
  stage        \* progress of Server.Stop

registry == <<devices, conns>>
pool     == <<used, bindings, nextPort>>
exposed  == <<proxies, obj>>
session  == <<open, handler, wants, writesTo, reply>>
pending  == <<toStop, toClose>>
vars == <<registry, pool, exposed, session, pending, stage>>

Pool == INSTANCE PortPool WITH Holders <- Conns \X Names

-----------------------------------------------------------------------------
Registered == {n \in Names : devices[n] # None}
Live       == {x \in ProxyIds : obj[x] # None}
Listening  == {obj[x].port : x \in Live}

(* The ports of a set of registered devices.                               *)
PortsOf(S) == {devices[n].port : n \in S}

(* The proxies the map holds for a set of ports.                           *)
ProxiesAt(P) == {proxies[p] : p \in P} \ {None}

(* Mutant: the delete from s.proxies is forgotten.                         *)
DetachNothing(P) == UNCHANGED proxies

(* Clears the map entries of the ports in P ...                            *)
Detach(P) == proxies' = [p \in Ports |-> IF p \in P THEN None ELSE proxies[p]]

(* Mutant: the proxy is detached but nobody stops it.                      *)
WillForget(g, S) == UNCHANGED toStop

(* ... whose proxies goroutine g then stops, one after the other.          *)
WillStop(g, S) == toStop' = [toStop EXCEPT ![g] = @ \cup S]

(* The proxy handleData and handleConnCloseFromClient pass a frame of      *)
(* connection c to: both maps are read in one read lock.                   *)
ProxyOf(c) == IF conns[c] = None THEN None ELSE proxies[devices[conns[c]].port]

(* reply keeps the first message the server sends on a connection.         *)
Sends(c, m) == reply' = [reply EXCEPT ![c] = IF @ = "none" THEN m ELSE @]

Goes(c, from, to) ==
  /\ handler[c] = from
  /\ handler' = [handler EXCEPT ![c] = to]

(* A finished object nothing refers to stands for a new one.               *)
NewProxy(x) == obj[x] = None /\ \A c \in Conns : writesTo[c] # x

Unreferenced(c) ==
  /\ toStop[c] = {}
  /\ \A g \in Goroutines : c \notin toClose[g]
  /\ \A x \in Live : obj[x].conn # c
  /\ \A p \in Ports : bindings[p] # None => bindings[p][1] # c

Init ==
  /\ devices = [n \in Names |-> None]
  /\ conns = [c \in Conns |-> None]
  /\ proxies = [p \in Ports |-> None]
  /\ Pool!PoolInit
  /\ obj = [x \in ProxyIds |-> None]
  /\ open = {}
  /\ handler = [c \in Conns |-> "closed"]
  /\ wants = [c \in Conns |-> None]
  /\ writesTo = [c \in Conns |-> None]
  /\ reply = [c \in Conns |-> "none"]
  /\ toStop = [g \in Goroutines |-> {}]
  /\ toClose = [g \in Goroutines |-> {}]
  /\ stage = "running"

-----------------------------------------------------------------------------
(* The WebSocket handler of connection c (handleWebSocket).                *)

Accept(c) ==
  /\ stage # "stopped"
  /\ Unreferenced(c)
  /\ Goes(c, "closed", "reading")
  /\ open' = open \cup {c}
  /\ reply' = [reply EXCEPT ![c] = "none"]
  /\ UNCHANGED <<registry, pool, exposed, wants, writesTo, pending, stage>>

(* The client goes away; what it sent before is still read.                *)
PeerCloses(c) ==
  /\ open' = open \ {c}
  /\ open' # open
  /\ UNCHANGED <<registry, pool, exposed, handler, wants, writesTo, reply, pending,
                 stage>>

(* The client of this repository registers once per connection: it waits   *)
(* for the answer and dials again when that is not "assigned".             *)
AwaitsRegister(c) == handler[c] = "reading" /\ reply[c] = "none"

(* A register message with a wrong token: error reply, connection closed.  *)
RejectToken(c) ==
  /\ AwaitsRegister(c)
  /\ Sends(c, "error")
  /\ open' = open \ {c}
  /\ UNCHANGED <<registry, pool, exposed, handler, wants, writesTo, pending, stage>>

(* A register message without device name or local port: error reply.      *)
RejectFields(c) ==
  /\ AwaitsRegister(c)
  /\ Sends(c, "error")
  /\ UNCHANGED <<registry, pool, exposed, open, handler, wants, writesTo, pending,
                 stage>>

TooManyDevices == MaxDevices > 0 /\ Cardinality(Registered) >= MaxDevices

RejectLimit(c) ==
  /\ AwaitsRegister(c)
  /\ TooManyDevices
  /\ Sends(c, "error")
  /\ open' = open \ {c}
  /\ UNCHANGED <<registry, pool, exposed, handler, wants, writesTo, pending, stage>>

(* The device limit is checked under a read lock that is then released.    *)
PassLimit(c, n) ==
  /\ AwaitsRegister(c)
  /\ Goes(c, "reading", "admitted")
  /\ ~ TooManyDevices
  /\ wants' = [wants EXCEPT ![c] = n]
  /\ UNCHANGED <<writesTo, registry, pool, exposed, open, reply, pending, stage>>

(* Mutant: the name is looked up before the lock only.                     *)
NameUnchecked(n) == TRUE

NameFree(n) == devices[n] = None

(* The second critical section of handleRegister: the name is taken, ...   *)
RejectName(c) ==
  /\ Goes(c, "admitted", "reading")
  /\ ~ NameFree(wants[c])
  /\ Sends(c, "error")
  /\ wants' = [wants EXCEPT ![c] = None]
  /\ UNCHANGED <<writesTo, registry, pool, exposed, open, pending, stage>>

(* ... or no port is left, ...                                             *)
RejectExhausted(c) ==
  /\ Goes(c, "admitted", "reading")
  /\ NameFree(wants[c])
  /\ Pool!Exhausted
  /\ Sends(c, "error")
  /\ wants' = [wants EXCEPT ![c] = None]
  /\ UNCHANGED <<writesTo, registry, exposed, open, pending, stage>>

(* ... or the device enters the registry, disabled.                        *)
Register(c, p) ==
  LET n == wants[c] IN
  /\ Goes(c, "admitted", "registered")
  /\ NameFree(n)
  /\ Pool!Allocate(<<c, n>>, p)
  /\ devices' = [devices EXCEPT ![n] = [conn |-> c, port |-> p, enabled |-> FALSE,
                                        expire |-> "never", silent |-> FALSE]]
  /\ conns' = [conns EXCEPT ![c] = n]
  /\ wants' = [wants EXCEPT ![c] = None]
  /\ UNCHANGED <<writesTo, exposed, open, reply, pending, stage>>

(* After the broadcast to the admin pages the client learns its port.      *)
Announce(c) ==
  /\ Goes(c, "registered", "reading")
  /\ Sends(c, "assigned")
  /\ UNCHANGED <<registry, pool, exposed, open, wants, writesTo, pending, stage>>

HandleHeartbeat(c) ==
  /\ handler[c] = "reading"
  /\ conns[c] # None
  /\ devices' = [devices EXCEPT ![conns[c]].silent = FALSE]
  /\ UNCHANGED <<conns, pool, exposed, session, pending, stage>>

(* A data frame for an external user: handleData looks the proxy up under  *)
(* the read lock and writes to the user's socket after releasing it.  A    *)
(* frame without device or proxy is dropped; a conn_close frame only       *)
(* touches the proxy's own connections.                                    *)
ForwardData(c) ==
  /\ Goes(c, "reading", "writing")
  /\ ProxyOf(c) # None
  /\ writesTo' = [writesTo EXCEPT ![c] = ProxyOf(c)]
  /\ UNCHANGED <<registry, pool, exposed, open, wants, reply, pending,
                 stage>>

(* The write returns: the user's socket took the bytes or is closed.       *)
WriteReturns(c) ==
  /\ Goes(c, "writing", "reading")
  /\ writesTo' = [writesTo EXCEPT ![c] = None]
  /\ UNCHANGED <<registry, pool, exposed, open, wants, reply, pending,
                 stage>>

(* The proxy was stopped: the write is skipped or fails at once.           *)
WriteFails(c) == WriteReturns(c) /\ obj[writesTo[c]] = None

(* Mutant: the read error ends the handler without handleDisconnect.       *)
EndWithoutCleanup(c) ==
  /\ c \notin open
  /\ Goes(c, "reading", "closed")
  /\ UNCHANGED <<registry, pool, exposed, open, wants, writesTo, reply, pending,
                 stage>>

(* ReadMessage fails on a connection that has no device: the handler ends. *)
EndUnregistered(c) ==
  /\ c \notin open
  /\ Goes(c, "reading", "closed")
  /\ conns[c] = None
  /\ UNCHANGED <<registry, pool, exposed, open, wants, writesTo, reply, pending,
                 stage>>

(* ReadMessage fails on the connection of a device (handleDisconnect).     *)
HandleDisconnect(c) ==
  LET n == conns[c]
      p == devices[n].port IN
  /\ c \notin open
  /\ Goes(c, "reading", "closed")
  /\ n # None
  /\ Detach({p})
  /\ WillStop(c, ProxiesAt({p}))
  /\ Pool!Release(p)
  /\ devices' = [devices EXCEPT ![n] = None]
  /\ conns' = [conns EXCEPT ![c] = None]
  /\ UNCHANGED <<obj, open, wants, writesTo, reply, toClose, stage>>

-----------------------------------------------------------------------------
(* Proxy.Start's bind; the kernel refuses a port that is being listened on. *)
PortFree(p) == p \notin Listening /\ p \notin ForeignPorts

(* Mutant: Stop shuts the admin pages down last.                           *)
AdminServedLonger == stage # "stopped"

(* Stop shuts the admin HTTP server down before it clears the registry: no *)
(* admin request is taken to outlast the two seconds that shutdown waits.  *)
AdminServed == stage = "running"

(* The whole body runs under s.mu.  deadline is "pending" for a duration.  *)
EnableDevice(n, x, deadline) ==
  /\ AdminServed
  /\ n \in Registered
  /\ ~ devices[n].enabled
  /\ NewProxy(x)
  /\ PortFree(devices[n].port)
  /\ obj' = [obj EXCEPT ![x] =
               [port |-> devices[n].port, conn |-> devices[n].conn, name |-> n]]
  /\ proxies' = [proxies EXCEPT ![devices[n].port] = x]
  /\ devices' = [devices EXCEPT ![n].enabled = TRUE, ![n].expire = deadline]
  /\ UNCHANGED <<conns, pool, session, pending, stage>>

(* "failed to start proxy": the device stays disabled.                     *)
EnableFails(n) ==
  /\ AdminServed
  /\ n \in Registered
  /\ ~ devices[n].enabled
  /\ ~ PortFree(devices[n].port)
  /\ UNCHANGED vars

Disabled(d) == [d EXCEPT !.enabled = FALSE, !.expire = "never"]

DisableDevice(r, n) ==
  /\ AdminServed
  /\ toStop[r] = {}
  /\ n \in Registered
  /\ devices[n].enabled
  /\ WillStop(r, ProxiesAt({devices[n].port}))
  /\ Detach({devices[n].port})
  /\ devices' = [devices EXCEPT ![n] = Disabled(@)]
  /\ UNCHANGED <<conns, pool, obj, session, toClose, stage>>

-----------------------------------------------------------------------------
(* Time and the two checkers.                                              *)

DeadlinePasses(n) ==
  /\ n \in Registered
  /\ devices[n].expire = "pending"
  /\ devices' = [devices EXCEPT ![n].expire = "due"]
  /\ UNCHANGED <<conns, pool, exposed, session, pending, stage>>

FallSilent(n) ==
  /\ n \in Registered
  /\ ~ devices[n].silent
  /\ devices' = [devices EXCEPT ![n].silent = TRUE]
  /\ UNCHANGED <<conns, pool, exposed, session, pending, stage>>

(* Mutant: the comparison with the clock is the wrong way round.           *)
NotYetExpired ==
  {n \in Registered : devices[n].enabled /\ devices[n].expire = "pending"}

(* The devices checkExpiredDevices disables.                               *)
Expired == {n \in Registered : devices[n].enabled /\ devices[n].expire = "due"}

(* A tick of checkExpiredDevices; one that comes with Stop may still run.  *)
ExpireScan ==
  /\ toStop["expirer"] = {}
  /\ Expired # {}
  /\ WillStop("expirer", ProxiesAt(PortsOf(Expired)))
  /\ Detach(PortsOf(Expired))
  /\ devices' = [n \in Names |->
                   IF n \in Expired THEN Disabled(devices[n]) ELSE devices[n]]
  /\ UNCHANGED <<conns, pool, obj, session, toClose, stage>>

(* Mutant: the comparison with the timeout is the wrong way round.         *)
NotSilent == {n \in Registered : ~ devices[n].silent}

Silent == {n \in Registered : devices[n].silent}

(* A tick of checkHeartbeatTimeout: the scan under the lock.               *)
HeartbeatScan ==
  /\ toClose["checker"] = {}
  /\ Silent # {}
  /\ toClose' = [toClose EXCEPT !["checker"] = {devices[n].conn : n \in Silent}]
  /\ UNCHANGED <<registry, pool, exposed, session, toStop, stage>>

-----------------------------------------------------------------------------
(* Effects outside the lock.                                               *)

(* Proxy.Stop closes the listener of a proxy that g detached.              *)
StopProxy(g, x) ==
  /\ x \in toStop[g]
  /\ obj' = [obj EXCEPT ![x] = None]
  /\ toStop' = [toStop EXCEPT ![g] = @ \ {x}]
  /\ UNCHANGED <<registry, pool, proxies, session, toClose, stage>>

(* conn.Close() by the heartbeat checker or, once its proxies are stopped, *)
(* by Stop.                                                                *)
CloseConn(g, c) ==
  /\ c \in toClose[g]
  /\ toStop[g] = {}
  /\ open' = open \ {c}
  /\ toClose' = [toClose EXCEPT ![g] = @ \ {c}]
  /\ UNCHANGED <<registry, pool, exposed, handler, wants, writesTo, reply, toStop,
                 stage>>

(* An external connection reaches a listener: conn_open goes to the        *)
(* client of the device the proxy was created for (acceptLoop).            *)
AcceptExternal(x) ==
  /\ x \in Live
  /\ obj[x].conn \in open
  /\ Sends(obj[x].conn, "conn_open")
  /\ UNCHANGED <<registry, pool, exposed, open, handler, wants, writesTo, pending,
                 stage>>

(* Server.Stop up to the release of s.mu.                                  *)
BeginStop ==
  /\ stage = "running"
  /\ stage' = "closing"
  /\ WillStop("stopper", ProxiesAt(Ports))
  /\ Detach(Ports)
  /\ toClose' = [toClose EXCEPT !["stopper"] = {devices[n].conn : n \in Registered}]
  /\ devices' = [n \in Names |-> None]
  /\ conns' = [c \in Conns |-> None]
  /\ UNCHANGED <<pool, obj, session>>

(* The /ws HTTP server is shut down; doneCh is closed.                     *)
FinishStop ==
  /\ stage = "closing"
  /\ toStop["stopper"] = {} /\ toClose["stopper"] = {}
  /\ stage' = "stopped"
  /\ UNCHANGED <<registry, pool, exposed, session, pending>>

-----------------------------------------------------------------------------
(* What one handler does by itself once its message has arrived.           *)
HandlerStep(c) ==
  \/ RejectName(c) \/ RejectExhausted(c) \/ \E p \in Ports : Register(c, p)
  \/ Announce(c)
  \/ EndUnregistered(c) \/ HandleDisconnect(c)

(* A register message arrives.                                             *)
RegisterArrives(c) ==
  \/ RejectToken(c) \/ RejectFields(c) \/ RejectLimit(c)
  \/ \E n \in Names : PassLimit(c, n)

PeerStep(c) ==
  \/ Accept(c) \/ PeerCloses(c)
  \/ HandleHeartbeat(c) \/ ForwardData(c) \/ WriteReturns(c)

AdminStep ==
  \/ \E n \in Names, x \in ProxyIds, e \in {"never", "pending"} : EnableDevice(n, x, e)
  \/ \E n \in Names : EnableFails(n)
  \/ \E r \in Requests, n \in Names : DisableDevice(r, n)

ClockStep == \E n \in Names : DeadlinePasses(n) \/ FallSilent(n)

BackgroundStep ==
  \/ ExpireScan \/ HeartbeatScan
  \/ \E g \in Goroutines, x \in ProxyIds : StopProxy(g, x)
  \/ \E g \in Goroutines, c \in Conns : CloseConn(g, c)
  \/ \E x \in ProxyIds : AcceptExternal(x)
  \/ BeginStop \/ FinishStop

Next ==
  \/ \E c \in Conns : HandlerStep(c) \/ RegisterArrives(c) \/ PeerStep(c)
  \/ AdminStep \/ ClockStep \/ BackgroundStep

Spec == Init /\ [][Next]_vars

(* Fairness: a handler that holds a message finishes it, unless it writes  *)
(* to an open external socket; a goroutine that has proxies to stop or     *)
(* sockets to close goes on; a closed connection has finitely many frames  *)
(* left, so reading it ends in the error; while the server runs the        *)
(* tickers keep firing.  Nothing is assumed of peers, admins or clocks.    *)
Fairness ==
  /\ \A c \in Conns : /\ WF_vars(HandlerStep(c)) /\ WF_vars(WriteFails(c))
                     /\ SF_vars(EndUnregistered(c) \/ HandleDisconnect(c))
  /\ \A g \in Goroutines, x \in ProxyIds : WF_vars(StopProxy(g, x))
  /\ \A g \in Goroutines, c \in Conns : WF_vars(CloseConn(g, c))
  /\ WF_vars(stage = "running" /\ ExpireScan)
  /\ WF_vars(stage = "running" /\ HeartbeatScan)

(* External users keep reading, so that no write to one blocks for ever.    *)
ReadersDrain == \A c \in Conns : WF_vars(WriteReturns(c))

FairSpec == Spec /\ Fairness /\ ReadersDrain

-----------------------------------------------------------------------------
(* Properties.                                                             *)

(* Ranges of the variables: maps hold registered names, ports in range and *)
(* existing objects; the pool's own ranges hold (portPool's fields).       *)
TypeOK ==
  /\ devices \in [Names -> Device \cup {None}]
  /\ conns \in [Conns -> Names \cup {None}]
  /\ proxies \in [Ports -> ProxyIds \cup {None}]
  /\ Pool!PoolTypeOK
  /\ obj \in [ProxyIds -> Proxy \cup {None}]
  /\ open \subseteq Conns
  /\ handler \in [Conns -> {"closed", "reading", "admitted", "registered", "writing"}]
  /\ wants \in [Conns -> Names \cup {None}]
  /\ writesTo \in [Conns -> ProxyIds \cup {None}]
  /\ reply \in [Conns -> {"none", "error", "assigned", "conn_open"}]
  /\ toStop \in [Goroutines -> SUBSET ProxyIds]
  /\ toClose \in [Goroutines -> SUBSET Conns]
  /\ stage \in {"running", "closing", "stopped"}

(* s.devices and s.conns describe the same devices: every connection in    *)
(* conns leads to a device that names it as its connection and every       *)
(* device is found through its connection (handleRegister writes both,     *)
(* handleDisconnect deletes both, through different keys).                 *)
RegistryConsistent ==
  /\ \A c \in Conns : conns[c] # None =>
       devices[conns[c]] # None /\ devices[conns[c]].conn = c
  /\ \A n \in Names : devices[n] # None => conns[devices[n].conn] = n

(* A port belongs to one device at a time, its binding is that device, and *)
(* until Stop empties the registry no port is marked used without a        *)
(* registered device: nothing leaks over registrations and disconnects.    *)
PortsAccounted ==
  /\ \A n \in Registered : bindings[devices[n].port] = <<devices[n].conn, n>>
  /\ \A p \in Ports : p \in used <=> bindings[p] # None
  /\ stage = "running" => used = PortsOf(Registered)

(* A device is marked enabled exactly while the map has a proxy for its    *)
(* port, and that proxy was created for this very Device object; a port    *)
(* without registered device has no proxy.                                 *)
EnabledIffProxied ==
  /\ \A n \in Registered : devices[n].enabled <=> proxies[devices[n].port] # None
  /\ \A p \in Ports : proxies[p] # None => p \in PortsOf(Registered)

(* The registry, the pool and the proxy map describe the same devices,     *)
(* although different handlers and checkers change them under different    *)
(* keys: connection, name and port.                                        *)
TablesAgree == RegistryConsistent /\ PortsAccounted /\ EnabledIffProxied

(* Every open listener has exactly one owner: either the map has it under  *)
(* its own port, or one goroutine is about to stop it.  So no listener is  *)
(* forgotten and none is stopped while still in the map.                   *)
OneOwnerPerListener ==
  /\ \A p \in Ports : proxies[p] # None =>
       obj[proxies[p]] # None /\ obj[proxies[p]].port = p
  /\ \A g \in Goroutines : \A x \in toStop[g] :
       /\ obj[x] # None
       /\ \A p \in Ports : proxies[p] # x
       /\ \A h \in Goroutines : x \in toStop[h] => h = g
  /\ \A x \in Live : (\E p \in Ports : proxies[p] = x)
                       \/ (\E g \in Goroutines : x \in toStop[g])

(* Frames of one device never reach the external users of another:         *)
(* handleData hands a frame of connection c only to an open proxy created  *)
(* for a device of c, and when it writes, after the lock, that proxy has   *)
(* been stopped at worst: its port may by then serve another device.       *)
RoutesToOwner ==
  \A c \in Conns :
    /\ ProxyOf(c) # None => obj[ProxyOf(c)] # None /\ obj[ProxyOf(c)].conn = c
    /\ writesTo[c] # None => \/ obj[writesTo[c]] = None
                             \/ obj[writesTo[c]].conn = c

(* External users of a port never reach a device that has lost it: when a  *)
(* listener is still open on a port that now belongs to another device,    *)
(* the connection of its own device is closed (the port is released before *)
(* the old proxy is stopped).                                              *)
NoMisdelivery ==
  \A x \in Live, n \in Registered :
    devices[n].port = obj[x].port =>
      \/ obj[x].conn = devices[n].conn /\ obj[x].name = n
      \/ obj[x].conn \notin open

(* Only an enabled device has a deadline: disabling, by an admin or by the *)
(* expiry check, clears it, so an old deadline never ends a later          *)
(* permanent enabling.                                                     *)
DeadlineOfEnabled ==
  \A n \in Registered : devices[n].expire # "never" => devices[n].enabled

(* A handler that has ended leaves no device behind: its name is free and  *)
(* no port stays allocated for it.                                         *)
EndedHandlerHoldsNothing ==
  \A c \in Conns : handler[c] = "closed" =>
    \A n \in Registered : devices[n].conn # c

(* Stop ends every exposure: from its lock on no device gets a proxy, and  *)
(* once it has returned a listener that is still open is one that a        *)
(* handler, an admin request or the expiry check had detached before Stop  *)
(* took the lock and is about to stop (Stop waits for its own only).       *)
StopEndsExposure ==
  /\ stage # "running" => \A p \in Ports : proxies[p] = None
  /\ stage = "stopped" =>
       \A x \in Live : \E g \in Goroutines \ {"stopper"} : x \in toStop[g]

(* Expiry: a device still enabled when its deadline has passed loses its   *)
(* listener, whatever admins and clients do meanwhile and even if the      *)
(* server is told to stop.                                                 *)
DueListenerCloses ==
  \A x \in ProxyIds, n \in Names :
    (/\ n \in Registered /\ devices[n].enabled /\ devices[n].expire = "due"
     /\ proxies[devices[n].port] = x) ~> (obj[x] = None)

(* Disconnect: when the connection of a device closes, its registration    *)
(* ends and the listener it had goes away.                                 *)
LostDeviceLeaves ==
  \A c \in Conns :
    (conns[c] # None /\ c \notin open)
      ~> (conns[c] = None /\ \A x \in Live : obj[x].conn # c)

(* A client that stays silent for longer than the heartbeat timeout is     *)
(* dropped, even if its socket never reports an error.                     *)
SilentDeviceLeaves ==
  \A n \in Names :
    (n \in Registered /\ devices[n].silent /\ stage = "running")
      ~> (n \in Registered => ~ devices[n].silent)

(* The abstract view: what is leased to whom, and who is exposed where.    *)
OpenListeners ==
  {[port |-> obj[x].port, holder |-> <<obj[x].conn, obj[x].name>>] : x \in Live}

Lease == INSTANCE PortLease WITH Holders <- Conns \X Names,
                                 lease <- bindings, listeners <- OpenListeners

(* The server implements the port lease: only the current lessee of a port *)
(* is ever put on it, and never beside a listener that is still open.      *)
ImplementsLease == Lease!LeaseSpec

-----------------------------------------------------------------------------
(* The inductive invariant: the properties above need what handlers know   *)
(* about their connection and what a listener may still be doing after its *)
(* device lost the port.                                                   *)

(* The listener of x serves the device it was created for.                 *)
Serves(x) ==
  /\ devices[obj[x].name] # None
  /\ devices[obj[x].name].conn = obj[x].conn
  /\ devices[obj[x].name].port = obj[x].port

(* A handler that has not registered its connection has no device.         *)
HandlerInv ==
  \A c \in Conns :
    /\ handler[c] \in {"closed", "admitted"} \/ AwaitsRegister(c) => conns[c] = None
    /\ handler[c] = "admitted" => wants[c] \in Names
    /\ handler[c] = "writing" => reply[c] # "none"
    /\ handler[c] = "closed" => c \notin open

(* ... and no port is bound to it either.                                  *)
UnboundInv ==
  \A c \in Conns : handler[c] = "admitted" \/ AwaitsRegister(c) =>
    \A p \in Ports : bindings[p] # None => bindings[p][1] # c

(* The write of a handler goes to a proxy of its connection or a dead one. *)
WritingInv ==
  \A c \in Conns :
    writesTo[c] # None => obj[writesTo[c]] = None \/ obj[writesTo[c]].conn = c

(* A proxy in the map serves its device.                                   *)
AttachedInv == \A p \in Ports : proxies[p] # None => Serves(proxies[p])

(* An open listener serves its device, or the handler of that device has   *)
(* ended, or Stop emptied the registry and the port stays bound.           *)
LingeringInv ==
  \A x \in Live :
    \/ Serves(x)
    \/ handler[obj[x].conn] = "closed"
    \/ stage # "running" /\ bindings[obj[x].port] = <<obj[x].conn, obj[x].name>>

(* Nothing is left for Stop to stop once it has returned.                  *)
StopperInv == stage = "stopped" => toStop["stopper"] = {}

(* The strengthening the proofs use; the run checks it on the small        *)
(* instance before the proof shows that every step of the server keeps it. *)
IInv ==
  /\ TypeOK
  /\ RegistryConsistent /\ PortsAccounted
  /\ EnabledIffProxied /\ OneOwnerPerListener /\ DeadlineOfEnabled
  /\ HandlerInv /\ UnboundInv /\ WritingInv /\ AttachedInv /\ LingeringInv

=============================================================================
