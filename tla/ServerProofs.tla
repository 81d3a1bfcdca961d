---------------------------- MODULE ServerProofs ----------------------------
(***************************************************************************)
(* Proofs about the server: its inductive invariant, the safety properties *)
(* that follow from it and the implementation of the port lease, for any   *)
(* number of names, connections, ports, proxies and admin requests.        *)
(***************************************************************************)
EXTENDS Server, TLAPS

LEMMA GoroutineNames ==
  /\ Conns \subseteq Goroutines /\ Requests \subseteq Goroutines
  /\ "expirer" \in Goroutines /\ "checker" \in Goroutines /\ "stopper" \in Goroutines
BY DEF Goroutines

(* A registered device is a Device record.                                 *)
LEMMA RegisteredDevice ==
  ASSUME TypeOK, NEW n \in Registered
  PROVE  /\ n \in Names
         /\ devices[n] \in Device
         /\ devices[n] # None
         /\ devices[n].conn \in Conns
         /\ devices[n].port \in Ports
BY DEF TypeOK, Registered, Device

(* An open listener is a Proxy record.                                     *)
LEMMA LiveProxy ==
  ASSUME TypeOK, NEW x \in Live
  PROVE  /\ x \in ProxyIds
         /\ obj[x] \in Proxy
         /\ obj[x] # None
         /\ obj[x].conn \in Conns
         /\ obj[x].port \in Ports
         /\ obj[x].name \in Names
BY DEF TypeOK, Live, Proxy

(* Two registered devices never share a port.                              *)
LEMMA PortsDistinct ==
  ASSUME PortsAccounted, NEW m \in Registered, NEW n \in Registered,
         devices[m].port = devices[n].port
  PROVE  m = n
BY DEF PortsAccounted

(* The port of a registered device is bound to that device.                *)
LEMMA BoundPort ==
  ASSUME TypeOK, PortsAccounted, NEW n \in Registered
  PROVE  /\ bindings[devices[n].port] = <<devices[n].conn, n>>
         /\ bindings[devices[n].port] # None
<1>1. bindings[devices[n].port] = <<devices[n].conn, n>>
  BY DEF PortsAccounted
<1>2. <<devices[n].conn, n>> \in Conns \X Names
  BY RegisteredDevice
<1> QED
  BY <1>1, <1>2, NoneIsNothing

(* What Allocate does when it returns port p.                              *)
LEMMA AllocateFacts ==
  ASSUME NEW h, NEW p \in Ports, Pool!Allocate(h, p)
  PROVE  /\ p \notin used
         /\ used' = used \cup {p}
         /\ bindings' = [bindings EXCEPT ![p] = h]
         /\ nextPort' \in Ports \cup {PortStart}
<1>1. p + 1 \in Ports \/ p + 1 > PortEnd
  BY PortRange DEF Ports
<1> QED
  BY <1>1, PortRange DEF Pool!Allocate, Pool!After, Ports

LEMMA DetachType ==
  ASSUME TypeOK, NEW P, Detach(P)
  PROVE  proxies' \in [Ports -> ProxyIds \cup {None}]
BY DEF TypeOK, Detach

LEMMA ProxiesAtType ==
  ASSUME TypeOK, NEW P \in SUBSET Ports
  PROVE  ProxiesAt(P) \subseteq ProxyIds
BY DEF TypeOK, ProxiesAt

LEMMA WillStopType ==
  ASSUME TypeOK, NEW g \in Goroutines, NEW S \in SUBSET ProxyIds, WillStop(g, S)
  PROVE  toStop' \in [Goroutines -> SUBSET ProxyIds]
BY DEF TypeOK, WillStop

LEMMA DisabledDevice ==
  ASSUME NEW d \in Device
  PROVE  /\ Disabled(d) \in Device
         /\ Disabled(d).conn = d.conn
         /\ Disabled(d).port = d.port
         /\ Disabled(d).enabled = FALSE
         /\ Disabled(d).expire = "never"
BY DEF Disabled, Device

-----------------------------------------------------------------------------
(* Type correctness.                                                       *)

LEMMA InitType == Init => TypeOK
<1> SUFFICES ASSUME Init PROVE TypeOK
  OBVIOUS
<1>1. Pool!PoolTypeOK
  BY DEF Init, Pool!PoolInit, Pool!PoolTypeOK, Pool!Ports, Ports
<1> QED
  BY <1>1 DEF Init, TypeOK

-----------------------------------------------------------------------------
(* Steps that leave the maps, the pool, the listeners and toStop alone.    *)

LEMMA CoreFrame ==
  ASSUME IInv, UNCHANGED <<registry, pool, exposed, toStop>>,
         stage' = "running" => stage = "running"
  PROVE  /\ RegistryConsistent' /\ PortsAccounted' /\ EnabledIffProxied'
         /\ OneOwnerPerListener' /\ DeadlineOfEnabled' /\ AttachedInv'
<1> USE DEF IInv, registry, pool, exposed
<1>1. Registered' = Registered /\ Live' = Live
  BY DEF Registered, Live
<1>2. PortsOf(Registered)' = PortsOf(Registered)
  BY <1>1 DEF PortsOf
<1>3. RegistryConsistent' /\ DeadlineOfEnabled'
  BY <1>1 DEF RegistryConsistent, DeadlineOfEnabled
<1>4. PortsAccounted'
  BY <1>1, <1>2 DEF PortsAccounted
<1>5. EnabledIffProxied'
  BY <1>1, <1>2 DEF EnabledIffProxied
<1>6. OneOwnerPerListener'
  BY <1>1 DEF OneOwnerPerListener
<1>7. AttachedInv'
  BY DEF AttachedInv, Serves
<1> QED
  BY <1>3, <1>4, <1>5, <1>6, <1>7

LEMMA WritingFrame ==
  ASSUME IInv, UNCHANGED <<obj, writesTo>>
  PROVE  WritingInv'
BY DEF IInv, WritingInv

LEMMA AcceptStep ==
  ASSUME IInv, NEW c \in Conns, Accept(c)
  PROVE  IInv'
<1> USE DEF IInv, Accept, Goes, Unreferenced, registry, pool, exposed, session, pending
<1>1. TypeOK'
  BY DEF TypeOK, Pool!PoolTypeOK, Pool!Ports
<1>2. HandlerInv'
  BY DEF TypeOK, HandlerInv, AwaitsRegister
<1>3. UnboundInv'
  BY DEF TypeOK, UnboundInv, AwaitsRegister
<1>4. LingeringInv'
  BY DEF TypeOK, LingeringInv, Live, Serves
<1> QED
  BY <1>1, <1>2, <1>3, <1>4, CoreFrame, WritingFrame

LEMMA PeerClosesStep ==
  ASSUME IInv, NEW c \in Conns, PeerCloses(c)
  PROVE  IInv'
<1> USE DEF IInv, PeerCloses, registry, pool, exposed, session, pending
<1>1. TypeOK'
  BY DEF TypeOK, Pool!PoolTypeOK, Pool!Ports
<1>2. HandlerInv'
  BY DEF TypeOK, HandlerInv, AwaitsRegister
<1>3. UnboundInv'
  BY DEF TypeOK, UnboundInv, AwaitsRegister
<1>4. LingeringInv'
  BY DEF TypeOK, LingeringInv, Live, Serves
<1> QED
  BY <1>1, <1>2, <1>3, <1>4, CoreFrame, WritingFrame

LEMMA RejectTokenStep ==
  ASSUME IInv, NEW c \in Conns, RejectToken(c)
  PROVE  IInv'
<1> USE DEF IInv, RejectToken, Sends, AwaitsRegister, registry, pool, exposed, session, pending
<1>1. TypeOK'
  BY DEF TypeOK, Pool!PoolTypeOK, Pool!Ports
<1>2. HandlerInv'
  BY DEF TypeOK, HandlerInv, AwaitsRegister
<1>3. UnboundInv'
  BY DEF TypeOK, UnboundInv, AwaitsRegister
<1>4. LingeringInv'
  BY DEF TypeOK, LingeringInv, Live, Serves
<1> QED
  BY <1>1, <1>2, <1>3, <1>4, CoreFrame, WritingFrame

LEMMA RejectFieldsStep ==
  ASSUME IInv, NEW c \in Conns, RejectFields(c)
  PROVE  IInv'
<1> USE DEF IInv, RejectFields, Sends, AwaitsRegister, registry, pool, exposed, session, pending
<1>1. TypeOK'
  BY DEF TypeOK, Pool!PoolTypeOK, Pool!Ports
<1>2. HandlerInv'
  BY DEF TypeOK, HandlerInv, AwaitsRegister
<1>3. UnboundInv'
  BY DEF TypeOK, UnboundInv, AwaitsRegister
<1>4. LingeringInv'
  BY DEF TypeOK, LingeringInv, Live, Serves
<1> QED
  BY <1>1, <1>2, <1>3, <1>4, CoreFrame, WritingFrame

LEMMA RejectLimitStep ==
  ASSUME IInv, NEW c \in Conns, RejectLimit(c)
  PROVE  IInv'
<1> USE DEF IInv, RejectLimit, Sends, AwaitsRegister, registry, pool, exposed, session, pending
<1>1. TypeOK'
  BY DEF TypeOK, Pool!PoolTypeOK, Pool!Ports
<1>2. HandlerInv'
  BY DEF TypeOK, HandlerInv, AwaitsRegister
<1>3. UnboundInv'
  BY DEF TypeOK, UnboundInv, AwaitsRegister
<1>4. LingeringInv'
  BY DEF TypeOK, LingeringInv, Live, Serves
<1> QED
  BY <1>1, <1>2, <1>3, <1>4, CoreFrame, WritingFrame

LEMMA PassLimitStep ==
  ASSUME IInv, NEW c \in Conns, NEW n \in Names, PassLimit(c, n)
  PROVE  IInv'
<1> USE DEF IInv, PassLimit, Goes, AwaitsRegister, registry, pool, exposed, session, pending
<1>1. TypeOK'
  BY DEF TypeOK, Pool!PoolTypeOK, Pool!Ports
<1>2. HandlerInv'
  BY DEF TypeOK, HandlerInv, AwaitsRegister
<1>3. UnboundInv'
  BY DEF TypeOK, UnboundInv, AwaitsRegister
<1>4. LingeringInv'
  BY DEF TypeOK, LingeringInv, Live, Serves
<1> QED
  BY <1>1, <1>2, <1>3, <1>4, CoreFrame, WritingFrame

LEMMA RejectNameStep ==
  ASSUME IInv, NEW c \in Conns, RejectName(c)
  PROVE  IInv'
<1> USE DEF IInv, RejectName, Goes, Sends, registry, pool, exposed, session, pending
<1>1. TypeOK'
  BY DEF TypeOK, Pool!PoolTypeOK, Pool!Ports
<1>2. HandlerInv'
  BY DEF TypeOK, HandlerInv, AwaitsRegister
<1>3. UnboundInv'
  BY DEF TypeOK, UnboundInv, AwaitsRegister
<1>4. LingeringInv'
  BY DEF TypeOK, LingeringInv, Live, Serves
<1> QED
  BY <1>1, <1>2, <1>3, <1>4, CoreFrame, WritingFrame

LEMMA RejectExhaustedStep ==
  ASSUME IInv, NEW c \in Conns, RejectExhausted(c)
  PROVE  IInv'
<1> USE DEF IInv, RejectExhausted, Goes, Sends, Pool!Exhausted, Pool!poolVars, registry, pool, exposed, session, pending
<1>1. TypeOK'
  BY DEF TypeOK, Pool!PoolTypeOK, Pool!Ports
<1>2. HandlerInv'
  BY DEF TypeOK, HandlerInv, AwaitsRegister
<1>3. UnboundInv'
  BY DEF TypeOK, UnboundInv, AwaitsRegister
<1>4. LingeringInv'
  BY DEF TypeOK, LingeringInv, Live, Serves
<1> QED
  BY <1>1, <1>2, <1>3, <1>4, CoreFrame, WritingFrame

LEMMA AnnounceStep ==
  ASSUME IInv, NEW c \in Conns, Announce(c)
  PROVE  IInv'
<1> USE DEF IInv, Announce, Goes, Sends, registry, pool, exposed, session, pending
<1>1. TypeOK'
  BY DEF TypeOK, Pool!PoolTypeOK, Pool!Ports
<1>2. HandlerInv'
  BY DEF TypeOK, HandlerInv, AwaitsRegister
<1>3. UnboundInv'
  BY DEF TypeOK, UnboundInv, AwaitsRegister
<1>4. LingeringInv'
  BY DEF TypeOK, LingeringInv, Live, Serves
<1> QED
  BY <1>1, <1>2, <1>3, <1>4, CoreFrame, WritingFrame

(* The proxy looked up for a connection serves a device of it.             *)
LEMMA ProxyOfOwner ==
  ASSUME IInv, NEW c \in Conns, ProxyOf(c) # None
  PROVE  /\ ProxyOf(c) \in ProxyIds
         /\ obj[ProxyOf(c)] # None
         /\ obj[ProxyOf(c)].conn = c
<1> DEFINE n == conns[c]
           p == devices[n].port
           x == proxies[p]
<1>1. conns[c] # None /\ ProxyOf(c) = x
  BY DEF ProxyOf
<1>2. n \in Registered /\ devices[n].conn = c
  BY <1>1 DEF IInv, TypeOK, RegistryConsistent, Registered
<1>3. p \in Ports
  BY <1>2, RegisteredDevice DEF IInv
<1>4. obj[x] # None /\ obj[x].port = p /\ Serves(x) /\ x \in Live
  BY <1>1, <1>3 DEF IInv, OneOwnerPerListener, AttachedInv, TypeOK, Live
<1>5. obj[x].name \in Registered /\ devices[obj[x].name].port = p
  BY <1>4, LiveProxy DEF Serves, Registered, IInv
<1>6. obj[x].name = n
  BY <1>2, <1>5, PortsDistinct DEF IInv
<1> QED
  BY <1>1, <1>2, <1>4, <1>6 DEF Serves, Live

LEMMA ForwardDataStep ==
  ASSUME IInv, NEW c \in Conns, ForwardData(c)
  PROVE  IInv'
<1> USE DEF IInv, ForwardData, Goes, registry, pool, exposed, session, pending
<1>1. TypeOK'
  BY ProxyOfOwner DEF TypeOK, Pool!PoolTypeOK, Pool!Ports
<1>2. HandlerInv'
  BY DEF TypeOK, HandlerInv, AwaitsRegister, ProxyOf
<1>3. UnboundInv'
  BY DEF TypeOK, UnboundInv, AwaitsRegister
<1>4. LingeringInv'
  <2>1. \A d \in Conns : handler'[d] = "closed" <=> handler[d] = "closed"
    BY DEF TypeOK
  <2>2. Live' = Live /\ \A x \in Live : obj[x].conn \in Conns
    BY LiveProxy DEF Live
  <2> QED
    BY <2>1, <2>2 DEF LingeringInv, Serves
<1>5. WritingInv'
  BY ProxyOfOwner DEF TypeOK, WritingInv
<1> QED
  BY <1>1, <1>2, <1>3, <1>4, <1>5, CoreFrame

LEMMA WriteReturnsStep ==
  ASSUME IInv, NEW c \in Conns, WriteReturns(c)
  PROVE  IInv'
<1> USE DEF IInv, WriteReturns, Goes, registry, pool, exposed, session, pending
<1>1. TypeOK'
  BY DEF TypeOK, Pool!PoolTypeOK, Pool!Ports
<1>2. HandlerInv'
  BY DEF TypeOK, HandlerInv, AwaitsRegister
<1>3. UnboundInv'
  BY DEF TypeOK, UnboundInv, HandlerInv, AwaitsRegister
<1>4. LingeringInv'
  <2>1. \A d \in Conns : handler'[d] = "closed" <=> handler[d] = "closed"
    BY DEF TypeOK
  <2>2. Live' = Live /\ \A x \in Live : obj[x].conn \in Conns
    BY LiveProxy DEF Live
  <2> QED
    BY <2>1, <2>2 DEF LingeringInv, Serves
<1>5. WritingInv'
  BY DEF TypeOK, WritingInv
<1> QED
  BY <1>1, <1>2, <1>3, <1>4, <1>5, CoreFrame

LEMMA EndUnregisteredStep ==
  ASSUME IInv, NEW c \in Conns, EndUnregistered(c)
  PROVE  IInv'
<1> USE DEF IInv, EndUnregistered, Goes, registry, pool, exposed, session, pending
<1>1. TypeOK'
  BY DEF TypeOK, Pool!PoolTypeOK, Pool!Ports
<1>2. HandlerInv'
  BY DEF TypeOK, HandlerInv, AwaitsRegister
<1>3. UnboundInv'
  BY DEF TypeOK, UnboundInv, AwaitsRegister
<1>4. LingeringInv'
  <2>1. Live' = Live
    BY DEF Live
  <2>2. \A x \in Live : obj[x].conn \in Conns
    BY LiveProxy
  <2> QED
    BY <2>1, <2>2 DEF TypeOK, LingeringInv, Serves
<1> QED
  BY <1>1, <1>2, <1>3, <1>4, CoreFrame, WritingFrame

LEMMA CloseConnStep ==
  ASSUME IInv, NEW g \in Goroutines, NEW c \in Conns, CloseConn(g, c)
  PROVE  IInv'
<1> USE DEF IInv, CloseConn, registry, pool, exposed, session, pending
<1>1. TypeOK'
  BY DEF TypeOK, Pool!PoolTypeOK, Pool!Ports
<1>2. HandlerInv'
  BY DEF TypeOK, HandlerInv, AwaitsRegister
<1>3. UnboundInv'
  BY DEF TypeOK, UnboundInv, AwaitsRegister
<1>4. LingeringInv'
  BY DEF TypeOK, LingeringInv, Live, Serves
<1> QED
  BY <1>1, <1>2, <1>3, <1>4, CoreFrame, WritingFrame

LEMMA AcceptExternalStep ==
  ASSUME IInv, NEW x \in ProxyIds, AcceptExternal(x)
  PROVE  IInv'
<1> USE DEF IInv, AcceptExternal, Sends, registry, pool, exposed, session, pending
<1>1. TypeOK'
  BY DEF TypeOK, Pool!PoolTypeOK, Pool!Ports
<1>2. HandlerInv'
  BY DEF TypeOK, HandlerInv, AwaitsRegister
<1>3. UnboundInv'
  BY DEF TypeOK, UnboundInv, AwaitsRegister
<1>4. LingeringInv'
  BY DEF TypeOK, LingeringInv, Live, Serves
<1> QED
  BY <1>1, <1>2, <1>3, <1>4, CoreFrame, WritingFrame

LEMMA HeartbeatScanStep ==
  ASSUME IInv, HeartbeatScan
  PROVE  IInv'
<1> USE DEF IInv, HeartbeatScan, registry, pool, exposed, session, pending
<1>1. TypeOK'
  <2>1. {devices[n].conn : n \in Silent} \in SUBSET Conns
    BY RegisteredDevice DEF Silent
  <2> QED
    BY <2>1 DEF TypeOK, Pool!PoolTypeOK, Pool!Ports
<1>2. HandlerInv'
  BY DEF TypeOK, HandlerInv, AwaitsRegister
<1>3. UnboundInv'
  BY DEF TypeOK, UnboundInv, AwaitsRegister
<1>4. LingeringInv'
  BY DEF TypeOK, LingeringInv, Live, Serves
<1> QED
  BY <1>1, <1>2, <1>3, <1>4, CoreFrame, WritingFrame

LEMMA EnableFailsStep ==
  ASSUME IInv, NEW n \in Names, EnableFails(n)
  PROVE  IInv'
<1> USE DEF IInv, EnableFails, vars, registry, pool, exposed, session, pending
<1>1. TypeOK'
  BY DEF TypeOK, Pool!PoolTypeOK, Pool!Ports
<1>2. HandlerInv'
  BY DEF TypeOK, HandlerInv, AwaitsRegister
<1>3. UnboundInv'
  BY DEF TypeOK, UnboundInv, AwaitsRegister
<1>4. LingeringInv'
  BY DEF TypeOK, LingeringInv, Live, Serves
<1> QED
  BY <1>1, <1>2, <1>3, <1>4, CoreFrame, WritingFrame

LEMMA FinishStopStep ==
  ASSUME IInv, FinishStop
  PROVE  IInv'
<1> USE DEF IInv, FinishStop, registry, pool, exposed, session, pending
<1>1. TypeOK'
  BY DEF TypeOK, Pool!PoolTypeOK, Pool!Ports
<1>2. HandlerInv'
  BY DEF TypeOK, HandlerInv, AwaitsRegister
<1>3. UnboundInv'
  BY DEF TypeOK, UnboundInv, AwaitsRegister
<1>4. LingeringInv'
  BY DEF TypeOK, LingeringInv, Live, Serves
<1> QED
  BY <1>1, <1>2, <1>3, <1>4, CoreFrame, WritingFrame

-----------------------------------------------------------------------------
(* Steps that change flags of devices but not who they are.                *)

SameDevices ==
  /\ \A n \in Names : devices'[n] = None <=> devices[n] = None
  /\ \A n \in Registered : /\ devices'[n].conn = devices[n].conn
                          /\ devices'[n].port = devices[n].port

LEMMA SameDevicesFrame ==
  ASSUME IInv, SameDevices, UNCHANGED <<conns, pool, obj, session, stage>>
  PROVE  /\ Registered' = Registered
         /\ RegistryConsistent' /\ PortsAccounted'
         /\ HandlerInv' /\ UnboundInv' /\ WritingInv' /\ LingeringInv'
<1> USE DEF IInv, pool, session
<1>1. Registered' = Registered /\ Live' = Live
  BY DEF Registered, Live, SameDevices
<1>2. PortsOf(Registered)' = PortsOf(Registered)
  BY <1>1 DEF PortsOf, SameDevices
<1>3. RegistryConsistent'
  BY <1>1 DEF RegistryConsistent, SameDevices, Registered, TypeOK
<1>4. PortsAccounted'
  BY <1>1, <1>2 DEF PortsAccounted, SameDevices
<1>5. HandlerInv' /\ UnboundInv'
  BY DEF HandlerInv, UnboundInv, AwaitsRegister
<1>6. ASSUME NEW x \in Live, Serves(x) PROVE Serves(x)'
  BY <1>6, LiveProxy DEF Serves, SameDevices, Registered
<1>7. LingeringInv'
  BY <1>1, <1>6 DEF LingeringInv
<1> QED
  BY <1>1, <1>3, <1>4, <1>5, <1>7, WritingFrame

(* Nothing happens to the proxies either.                                  *)
LEMMA FlagFrame ==
  ASSUME IInv, SameDevices, UNCHANGED <<conns, pool, exposed, session, pending, stage>>,
         devices' \in [Names -> Device \cup {None}],
         \A n \in Registered : /\ devices'[n].enabled = devices[n].enabled
                               /\ devices'[n].expire # "never" => devices[n].expire # "never"
  PROVE  IInv'
<1> USE DEF IInv, pool, exposed, session, pending
<1>1. /\ Registered' = Registered
      /\ RegistryConsistent' /\ PortsAccounted'
      /\ HandlerInv' /\ UnboundInv' /\ WritingInv' /\ LingeringInv'
  BY SameDevicesFrame
<1>2. PortsOf(Registered)' = PortsOf(Registered)
  BY <1>1 DEF PortsOf, SameDevices
<1>3. TypeOK'
  BY DEF TypeOK, Pool!PoolTypeOK, Pool!Ports
<1>4. EnabledIffProxied'
  BY <1>1, <1>2 DEF EnabledIffProxied, SameDevices
<1>5. DeadlineOfEnabled'
  BY <1>1 DEF DeadlineOfEnabled
<1>6. OneOwnerPerListener'
  BY DEF OneOwnerPerListener, Live
<1>7. AttachedInv'
  <2>1. ASSUME NEW p \in Ports, proxies[p] # None PROVE Serves(proxies[p])'
    <3>1. proxies[p] \in Live /\ Serves(proxies[p])
      BY <2>1 DEF OneOwnerPerListener, AttachedInv, Live, TypeOK
    <3> QED
      BY <3>1, LiveProxy DEF Serves, SameDevices, Registered
  <2> QED
    BY <2>1 DEF AttachedInv
<1> QED
  BY <1>1, <1>3, <1>4, <1>5, <1>6, <1>7

LEMMA FlagStep ==
  ASSUME IInv, NEW n \in Registered, NEW d \in Device,
         devices' = [devices EXCEPT ![n] = d],
         d.conn = devices[n].conn, d.port = devices[n].port,
         d.enabled = devices[n].enabled,
         d.expire # "never" => devices[n].expire # "never",
         UNCHANGED <<conns, pool, exposed, session, pending, stage>>
  PROVE  IInv'
<1> USE DEF IInv
<1>1. devices' \in [Names -> Device \cup {None}]
  BY DEF TypeOK
<1>2. SameDevices
  BY NoneIsNothing DEF SameDevices, TypeOK, Registered
<1>3. \A m \in Registered : /\ devices'[m].enabled = devices[m].enabled
                            /\ devices'[m].expire # "never" => devices[m].expire # "never"
  BY DEF TypeOK, Registered
<1> QED
  BY <1>1, <1>2, <1>3, FlagFrame

LEMMA HandleHeartbeatStep ==
  ASSUME IInv, NEW c \in Conns, HandleHeartbeat(c)
  PROVE  IInv'
<1> DEFINE n == conns[c]
           d == [devices[n] EXCEPT !.silent = FALSE]
<1>1. n \in Registered
  BY DEF IInv, HandleHeartbeat, TypeOK, RegistryConsistent, Registered
<1>2. devices[n] \in Device
  BY <1>1, RegisteredDevice DEF IInv
<1>3. /\ d \in Device
      /\ d.conn = devices[n].conn /\ d.port = devices[n].port
      /\ d.enabled = devices[n].enabled /\ d.expire = devices[n].expire
  BY <1>2 DEF Device
<1>4. devices' = [devices EXCEPT ![n] = d]
  BY DEF HandleHeartbeat
<1>5. UNCHANGED <<conns, pool, exposed, session, pending, stage>>
  BY DEF HandleHeartbeat
<1> QED
  BY <1>1, <1>3, <1>4, <1>5, FlagStep

LEMMA DeadlinePassesStep ==
  ASSUME IInv, NEW n \in Names, DeadlinePasses(n)
  PROVE  IInv'
<1> DEFINE d == [devices[n] EXCEPT !.expire = "due"]
<1>1. n \in Registered /\ devices[n] \in Device
  BY RegisteredDevice DEF IInv, DeadlinePasses
<1>2. /\ d \in Device
      /\ d.conn = devices[n].conn /\ d.port = devices[n].port
      /\ d.enabled = devices[n].enabled
  BY <1>1 DEF Device
<1>3. devices[n].expire # "never" /\ devices' = [devices EXCEPT ![n] = d]
  BY DEF DeadlinePasses
<1>4. UNCHANGED <<conns, pool, exposed, session, pending, stage>>
  BY DEF DeadlinePasses
<1> QED
  BY <1>1, <1>2, <1>3, <1>4, FlagStep

LEMMA FallSilentStep ==
  ASSUME IInv, NEW n \in Names, FallSilent(n)
  PROVE  IInv'
<1> DEFINE d == [devices[n] EXCEPT !.silent = TRUE]
<1>1. n \in Registered /\ devices[n] \in Device
  BY RegisteredDevice DEF IInv, FallSilent
<1>2. /\ d \in Device
      /\ d.conn = devices[n].conn /\ d.port = devices[n].port
      /\ d.enabled = devices[n].enabled /\ d.expire = devices[n].expire
  BY <1>1 DEF Device
<1>3. devices' = [devices EXCEPT ![n] = d]
  BY DEF FallSilent
<1>4. UNCHANGED <<conns, pool, exposed, session, pending, stage>>
  BY DEF FallSilent
<1> QED
  BY <1>1, <1>2, <1>3, <1>4, FlagStep

-----------------------------------------------------------------------------
(* Detaching proxies hands each of them to the goroutine that will stop    *)
(* it.                                                                     *)

LEMMA DetachKeepsOwner ==
  ASSUME IInv, NEW P \in SUBSET Ports, NEW g \in Goroutines,
         Detach(P), WillStop(g, ProxiesAt(P)), UNCHANGED obj
  PROVE  OneOwnerPerListener'
<1> USE DEF IInv
<1>1. \A p \in Ports : proxies'[p] = IF p \in P THEN None ELSE proxies[p]
  BY DEF Detach
<1>2. \A h \in Goroutines : toStop'[h] =
        IF h = g THEN toStop[g] \cup ProxiesAt(P) ELSE toStop[h]
  BY DEF TypeOK, WillStop
<1>3. Live' = Live
  BY DEF Live
<1>4. \A p \in Ports : proxies'[p] # None =>
        obj[proxies'[p]] # None /\ obj[proxies'[p]].port = p
  BY <1>1 DEF OneOwnerPerListener
<1>5. ASSUME NEW f \in Goroutines, NEW x \in toStop'[f]
      PROVE  /\ obj[x] # None
             /\ \A p \in Ports : proxies'[p] # x
             /\ \A h \in Goroutines : x \in toStop'[h] => h = f
  <2>1. CASE x \in toStop[f]
    <3>1. /\ obj[x] # None
          /\ \A p \in Ports : proxies[p] # x
          /\ \A h \in Goroutines : x \in toStop[h] => h = f
      BY <2>1 DEF OneOwnerPerListener
    <3>2. x \in ProxyIds /\ x # None
      BY <2>1, NoneIsNothing DEF TypeOK
    <3>3. x \notin ProxiesAt(P)
      BY <3>1 DEF ProxiesAt
    <3> QED
      BY <1>1, <1>2, <3>1, <3>2, <3>3
  <2>2. CASE x \notin toStop[f]
    <3>1. f = g
      BY <1>2, <1>5, <2>2
    <3>2. PICK p \in P : x = proxies[p] /\ x # None
      BY <1>2, <1>5, <2>2, <3>1 DEF ProxiesAt
    <3>3. obj[x] # None /\ obj[x].port = p /\ \A h \in Goroutines : x \notin toStop[h]
      BY <3>2 DEF OneOwnerPerListener
    <3>4. \A q \in Ports : proxies'[q] # x
      BY <1>1, <3>2, <3>3 DEF OneOwnerPerListener
    <3> QED
      BY <1>2, <3>1, <3>3, <3>4
  <2> QED
    BY <2>1, <2>2
<1>6. ASSUME NEW x \in Live
      PROVE  (\E p \in Ports : proxies'[p] = x) \/ (\E h \in Goroutines : x \in toStop'[h])
  <2>1. CASE \E h \in Goroutines : x \in toStop[h]
    BY <1>2, <2>1
  <2>2. CASE \E p \in Ports : proxies[p] = x
    <3>1. PICK p \in Ports : proxies[p] = x
      BY <2>2
    <3>2. CASE p \in P
      BY <1>2, <3>1, <3>2, LiveProxy, NoneIsNothing DEF ProxiesAt
    <3>3. CASE p \notin P
      BY <1>1, <3>1, <3>3
    <3> QED
      BY <3>2, <3>3
  <2> QED
    BY <2>1, <2>2 DEF OneOwnerPerListener
<1> QED
  BY <1>3, <1>4, <1>5, <1>6 DEF OneOwnerPerListener

-----------------------------------------------------------------------------
(* Registration and disconnect.                                            *)

LEMMA RegisterStep ==
  ASSUME IInv, NEW c \in Conns, NEW p \in Ports, Register(c, p)
  PROVE  IInv'
<1> DEFINE n == wants[c]
           d == [conn |-> c, port |-> p, enabled |-> FALSE,
                 expire |-> "never", silent |-> FALSE]
<1>1. n \in Names /\ devices[n] = None /\ conns[c] = None
  BY DEF IInv, HandlerInv, Register, Goes, NameFree
<1>2. /\ p \notin used
      /\ used' = used \cup {p}
      /\ bindings' = [bindings EXCEPT ![p] = <<c, n>>]
      /\ nextPort' \in Ports \cup {PortStart}
  BY AllocateFacts DEF Register
<1>3. bindings[p] = None
  BY <1>2 DEF IInv, PortsAccounted
<1>4. d \in Device /\ d # None /\ <<c, n>> # None
  <2>1. d \in Device
    BY DEF Device
  <2>2. d # None
    BY <2>1, NoneIsNothing
  <2>3. <<c, n>> # None
    BY <1>1, NoneIsNothing
  <2> QED
    BY <2>1, <2>2, <2>3
<1>5. /\ devices' = [devices EXCEPT ![n] = d]
      /\ conns' = [conns EXCEPT ![c] = n]
      /\ wants' = [wants EXCEPT ![c] = None]
      /\ handler[c] = "admitted"
      /\ handler' = [handler EXCEPT ![c] = "registered"]
      /\ UNCHANGED <<exposed, open, writesTo, reply, pending, stage>>
  BY DEF Register, Goes
<1>6. TypeOK'
  BY <1>1, <1>2, <1>4, <1>5
     DEF IInv, TypeOK, Pool!PoolTypeOK, Pool!Ports, Ports, exposed, pending
<1>7. Registered' = Registered \cup {n} /\ n \notin Registered
  BY <1>1, <1>4, <1>5 DEF Registered, IInv, TypeOK
<1>8. \A m \in Registered : m # n /\ devices'[m] = devices[m]
  BY <1>5, <1>7 DEF IInv, TypeOK, Registered
<1>9. devices'[n] = d /\ d.conn = c /\ d.port = p /\ d.enabled = FALSE /\ d.expire = "never"
  BY <1>1, <1>5 DEF IInv, TypeOK
<1>10. RegistryConsistent'
  <2>1. ASSUME NEW e \in Conns, conns'[e] # None
        PROVE  devices'[conns'[e]] # None /\ devices'[conns'[e]].conn = e
    <3>1. CASE e = c
      BY <1>4, <1>5, <1>9, <3>1 DEF IInv, TypeOK
    <3>2. CASE e # c
      <4>1. conns'[e] = conns[e] /\ conns[e] \in Registered
        BY <1>5, <2>1, <3>2 DEF IInv, TypeOK, RegistryConsistent, Registered
      <4> QED
        BY <1>8, <4>1, <2>1 DEF IInv, RegistryConsistent, Registered
    <3> QED
      BY <3>1, <3>2
  <2>2. ASSUME NEW m \in Names, devices'[m] # None PROVE conns'[devices'[m].conn] = m
    <3>1. CASE m = n
      BY <1>5, <1>9, <3>1 DEF IInv, TypeOK
    <3>2. CASE m # n
      <4>1. m \in Registered /\ devices'[m] = devices[m]
        BY <1>5, <2>2, <3>2 DEF IInv, TypeOK, Registered
      <4>2. conns[devices[m].conn] = m /\ devices[m].conn # c
        BY <1>1, <4>1, NoneIsNothing DEF IInv, RegistryConsistent, Registered
      <4> QED
        BY <1>5, <4>1, <4>2
    <3> QED
      BY <3>1, <3>2
  <2> QED
    BY <2>1, <2>2 DEF RegistryConsistent
<1>11. PortsOf(Registered)' = PortsOf(Registered) \cup {p}
  BY <1>7, <1>8, <1>9 DEF PortsOf
<1>12. \A m \in Registered : bindings[devices[m].port] # None /\ devices[m].port # p
  BY <1>3, BoundPort DEF IInv
<1>13. PortsAccounted'
  <2>1. \A m \in Registered' : bindings'[devices'[m].port] = <<devices'[m].conn, m>>
    BY <1>2, <1>7, <1>8, <1>9, <1>12, RegisteredDevice
       DEF IInv, TypeOK, PortsAccounted, Pool!PoolTypeOK, Pool!Ports, Ports
  <2>2. \A q \in Ports : q \in used' <=> bindings'[q] # None
    BY <1>2, <1>4 DEF IInv, TypeOK, PortsAccounted, Pool!PoolTypeOK, Pool!Ports, Ports
  <2>3. stage' = "running" => used' = PortsOf(Registered)'
    BY <1>2, <1>5, <1>11 DEF IInv, PortsAccounted
  <2> QED
    BY <2>1, <2>2, <2>3 DEF PortsAccounted
<1>14. proxies[p] = None
  BY <1>12 DEF IInv, EnabledIffProxied, PortsOf
<1>15. EnabledIffProxied' /\ DeadlineOfEnabled'
  <2>1. \A m \in Registered' : devices'[m].enabled <=> proxies[devices'[m].port] # None
    BY <1>7, <1>8, <1>9, <1>14 DEF IInv, EnabledIffProxied
  <2>2. \A q \in Ports : proxies[q] # None => q \in PortsOf(Registered)'
    BY <1>11 DEF IInv, EnabledIffProxied
  <2>3. DeadlineOfEnabled'
    BY <1>7, <1>8, <1>9 DEF IInv, DeadlineOfEnabled
  <2> QED
    BY <1>5, <2>1, <2>2, <2>3 DEF EnabledIffProxied, exposed
<1>16. OneOwnerPerListener' /\ Live' = Live
  BY <1>5 DEF IInv, OneOwnerPerListener, Live, exposed, pending
<1>17. ASSUME NEW x \in Live, Serves(x) PROVE Serves(x)'
  <2>1. obj[x].name \in Registered
    BY <1>17, LiveProxy DEF Serves, Registered, IInv
  <2>2. devices'[obj[x].name] = devices[obj[x].name] /\ obj' = obj
    BY <1>5, <1>8, <2>1 DEF exposed
  <2> QED
    BY <1>17, <2>2 DEF Serves
<1>18. AttachedInv'
  <2>1. ASSUME NEW q \in Ports, NEW x \in ProxyIds, proxies[q] = x PROVE Serves(x)'
    BY <1>17, <2>1, NoneIsNothing DEF IInv, AttachedInv, OneOwnerPerListener, Live
  <2> QED
    BY <1>5, <1>6, <2>1 DEF AttachedInv, exposed, Serves, TypeOK
<1>19. HandlerInv'
  BY <1>5 DEF IInv, HandlerInv, AwaitsRegister, TypeOK
<1>20. UnboundInv'
  BY <1>2, <1>3, <1>5 DEF IInv, UnboundInv, AwaitsRegister, TypeOK, Pool!PoolTypeOK, Pool!Ports, Ports
<1>21. LingeringInv'
  <2>1. ASSUME NEW x \in Live
        PROVE  \/ Serves(x)'
               \/ handler'[obj[x].conn] = "closed"
               \/ stage # "running" /\ bindings'[obj[x].port] = <<obj[x].conn, obj[x].name>>
    <3>1. CASE Serves(x)
      BY <1>17, <3>1
    <3>2. CASE handler[obj[x].conn] = "closed"
      BY <1>5, <3>2, LiveProxy DEF IInv, TypeOK
    <3>3. CASE stage # "running" /\ bindings[obj[x].port] = <<obj[x].conn, obj[x].name>>
      <4>1. <<obj[x].conn, obj[x].name>> \in Conns \X Names
        BY LiveProxy DEF IInv
      <4>2. obj[x].port # p
        BY <1>3, <3>3, <4>1, NoneIsNothing
      <4> QED
        BY <1>2, <3>3, <4>2, LiveProxy DEF IInv, TypeOK, Pool!PoolTypeOK, Pool!Ports, Ports
    <3> QED
      BY <3>1, <3>2, <3>3 DEF IInv, LingeringInv
  <2> QED
    BY <1>5, <1>16, <2>1 DEF LingeringInv, exposed
<1>22. WritingInv'
  BY <1>5, WritingFrame DEF exposed
<1> QED
  BY <1>6, <1>10, <1>13, <1>15, <1>16, <1>18, <1>19, <1>20, <1>21, <1>22 DEF IInv

LEMMA HandleDisconnectStep ==
  ASSUME IInv, NEW c \in Conns, HandleDisconnect(c)
  PROVE  IInv'
<1> DEFINE n == conns[c]
           p == devices[n].port
<1>1. n \in Registered /\ devices[n].conn = c /\ p \in Ports
  BY RegisteredDevice DEF HandleDisconnect, IInv, TypeOK, RegistryConsistent, Registered
<1>2. /\ c \notin open
      /\ handler[c] = "reading"
      /\ handler' = [handler EXCEPT ![c] = "closed"]
      /\ proxies' = [q \in Ports |-> IF q = p THEN None ELSE proxies[q]]
      /\ toStop' = [toStop EXCEPT ![c] = @ \cup ({proxies[p]} \ {None})]
      /\ used' = used \ {p}
      /\ bindings' = [bindings EXCEPT ![p] = None]
      /\ nextPort' = nextPort
      /\ devices' = [devices EXCEPT ![n] = None]
      /\ conns' = [conns EXCEPT ![c] = None]
      /\ UNCHANGED <<obj, open, wants, writesTo, reply, toClose, stage>>
  BY DEF HandleDisconnect, Goes, Detach, WillStop, ProxiesAt, Pool!Release
<1>3. TypeOK'
  BY <1>1, <1>2, GoroutineNames DEF IInv, TypeOK, Pool!PoolTypeOK, Pool!Ports, Ports
<1>4. Registered' = Registered \ {n} /\ Live' = Live
  BY <1>1, <1>2 DEF Registered, Live, IInv, TypeOK
<1>5. \A m \in Registered' : m \in Registered /\ devices'[m] = devices[m] /\ devices[m].port # p
  BY <1>1, <1>2, <1>4, PortsDistinct DEF IInv, TypeOK, Registered
<1>6. \A m \in Registered' : devices[m].conn # c
  BY <1>1, <1>4, <1>5 DEF IInv, RegistryConsistent, Registered
<1>7. RegistryConsistent'
  <2>1. \A m \in Registered' : conns'[devices'[m].conn] = m
    BY <1>2, <1>5, <1>6, RegisteredDevice DEF IInv, TypeOK, RegistryConsistent, Registered
  <2>2. ASSUME NEW e \in Conns, conns'[e] # None
        PROVE  devices'[conns'[e]] # None /\ devices'[conns'[e]].conn = e
    <3>1. e # c /\ conns'[e] = conns[e]
      BY <1>2, <2>2 DEF IInv, TypeOK
    <3>2. devices[conns[e]] # None /\ devices[conns[e]].conn = e
      BY <2>2, <3>1 DEF IInv, RegistryConsistent
    <3>3. conns[e] # n
      BY <1>1, <3>1, <3>2
    <3> QED
      BY <1>2, <3>1, <3>2, <3>3, <2>2 DEF IInv, TypeOK
  <2> QED
    BY <2>1, <2>2 DEF RegistryConsistent, Registered
<1>8. PortsOf(Registered)' = PortsOf(Registered) \ {p}
  BY <1>1, <1>4, <1>5 DEF PortsOf
<1>9. PortsAccounted'
  <2>1. \A m \in Registered' : bindings'[devices'[m].port] = <<devices'[m].conn, m>>
    BY <1>2, <1>5, RegisteredDevice
       DEF IInv, TypeOK, PortsAccounted, Pool!PoolTypeOK, Pool!Ports, Ports
  <2>2. \A q \in Ports : q \in used' <=> bindings'[q] # None
    BY <1>2 DEF IInv, TypeOK, PortsAccounted, Pool!PoolTypeOK, Pool!Ports, Ports
  <2>3. stage' = "running" => used' = PortsOf(Registered)'
    BY <1>2, <1>8 DEF IInv, PortsAccounted
  <2> QED
    BY <2>1, <2>2, <2>3 DEF PortsAccounted
<1>10. EnabledIffProxied' /\ DeadlineOfEnabled'
  <2>1. \A m \in Registered' : devices'[m].enabled <=> proxies'[devices'[m].port] # None
    BY <1>2, <1>5, RegisteredDevice DEF IInv, EnabledIffProxied
  <2>2. \A q \in Ports : proxies'[q] # None => q \in PortsOf(Registered)'
    BY <1>2, <1>8 DEF IInv, EnabledIffProxied
  <2> QED
    BY <1>5, <2>1, <2>2 DEF IInv, EnabledIffProxied, DeadlineOfEnabled
<1>11. OneOwnerPerListener'
  BY <1>1, GoroutineNames, DetachKeepsOwner DEF HandleDisconnect
<1>12. ASSUME NEW x \in Live, Serves(x), obj[x].name # n PROVE Serves(x)'
  <2>1. devices'[obj[x].name] = devices[obj[x].name] /\ obj' = obj
    BY <1>2, <1>12, LiveProxy DEF IInv, TypeOK
  <2> QED
    BY <1>12, <2>1 DEF Serves
<1>13. AttachedInv'
  <2>1. ASSUME NEW q \in Ports, NEW x \in ProxyIds, proxies'[q] = x PROVE Serves(x)'
    <3>1. q # p /\ proxies[q] = x /\ x # None
      BY <1>2, <2>1, NoneIsNothing
    <3>2. x \in Live /\ Serves(x) /\ obj[x].port = q
      BY <3>1 DEF IInv, AttachedInv, OneOwnerPerListener, Live
    <3>3. obj[x].name # n
      BY <3>1, <3>2 DEF Serves
    <3> QED
      BY <1>12, <3>2, <3>3
  <2> QED
    BY <1>3, <2>1 DEF AttachedInv, Serves, TypeOK
<1>14. HandlerInv'
  BY <1>2 DEF IInv, HandlerInv, AwaitsRegister, TypeOK
<1>15. UnboundInv'
  BY <1>1, <1>2 DEF IInv, UnboundInv, AwaitsRegister, TypeOK, Pool!PoolTypeOK, Pool!Ports, Ports
<1>16. LingeringInv'
  <2>1. ASSUME NEW x \in Live
        PROVE  \/ Serves(x)'
               \/ handler'[obj[x].conn] = "closed"
               \/ stage # "running" /\ bindings'[obj[x].port] = <<obj[x].conn, obj[x].name>>
    <3>1. CASE Serves(x) /\ obj[x].name # n
      BY <1>12, <3>1
    <3>2. CASE Serves(x) /\ obj[x].name = n
      BY <1>1, <1>2, <3>2 DEF Serves, IInv, TypeOK
    <3>3. CASE handler[obj[x].conn] = "closed"
      BY <1>2, <3>3, LiveProxy DEF IInv, TypeOK
    <3>4. CASE stage # "running" /\ bindings[obj[x].port] = <<obj[x].conn, obj[x].name>>
      <4>1. CASE obj[x].port = p
        <5>1. bindings[p] = <<c, n>>
          BY <1>1 DEF IInv, PortsAccounted
        <5> QED
          BY <1>2, <3>4, <4>1, <5>1 DEF IInv, TypeOK
      <4>2. CASE obj[x].port # p
        BY <1>2, <3>4, <4>2, LiveProxy DEF IInv, TypeOK, Pool!PoolTypeOK, Pool!Ports, Ports
      <4> QED
        BY <4>1, <4>2
    <3> QED
      BY <3>1, <3>2, <3>3, <3>4 DEF IInv, LingeringInv
  <2> QED
    BY <1>2, <1>4, <2>1 DEF LingeringInv
<1> QED
  BY <1>2, <1>3, <1>7, <1>9, <1>10, <1>11, <1>13, <1>14, <1>15, <1>16, WritingFrame DEF IInv

-----------------------------------------------------------------------------
(* Enabling and disabling.                                                 *)

LEMMA EnableDeviceStep ==
  ASSUME IInv, NEW n \in Names, NEW x \in ProxyIds, NEW e \in {"never", "pending"},
         EnableDevice(n, x, e)
  PROVE  IInv'
<1> USE DEF IInv
<1> DEFINE p == devices[n].port
           d == [devices[n] EXCEPT !.enabled = TRUE, !.expire = e]
           o == [port |-> p, conn |-> devices[n].conn, name |-> n]
<1>1. n \in Registered /\ devices[n] \in Device /\ devices[n].conn \in Conns /\ p \in Ports
  BY RegisteredDevice DEF EnableDevice
<1>2. /\ d \in Device /\ d.conn = devices[n].conn /\ d.port = p
      /\ d.enabled = TRUE /\ d.expire = e
  BY <1>1 DEF Device
<1>3. o \in Proxy /\ o # None /\ o.port = p /\ o.conn = devices[n].conn /\ o.name = n
  <2>1. o \in Proxy
    BY <1>1 DEF Proxy
  <2> QED
    BY <2>1, NoneIsNothing
<1>4. /\ devices' = [devices EXCEPT ![n] = d]
      /\ proxies' = [proxies EXCEPT ![p] = x]
      /\ obj' = [obj EXCEPT ![x] = o]
      /\ obj[x] = None /\ ~ devices[n].enabled
      /\ \A c \in Conns : writesTo[c] # x
      /\ stage = "running"
      /\ UNCHANGED <<conns, pool, session, pending, stage>>
  BY DEF EnableDevice, NewProxy, AdminServed
<1>5. proxies[p] = None
  BY <1>1, <1>4 DEF EnabledIffProxied
<1>6. TypeOK'
  BY <1>1, <1>2, <1>3, <1>4 DEF TypeOK, Pool!PoolTypeOK, Pool!Ports, pool, session, pending
<1>7. SameDevices
  BY <1>1, <1>2, <1>4, NoneIsNothing DEF SameDevices, TypeOK, Registered
<1>8. Registered' = Registered /\ PortsOf(Registered)' = PortsOf(Registered)
  BY <1>7 DEF SameDevices, Registered, PortsOf
<1>9. RegistryConsistent'
  BY <1>4, <1>7, <1>8 DEF RegistryConsistent, SameDevices, Registered, TypeOK
<1>10. PortsAccounted'
  BY <1>4, <1>7, <1>8 DEF PortsAccounted, SameDevices, pool
<1>11. HandlerInv' /\ UnboundInv'
  BY <1>4 DEF HandlerInv, UnboundInv, AwaitsRegister, session, pool
<1>12. \A m \in Registered : m # n => devices'[m] = devices[m] /\ devices[m].port # p
  BY <1>1, <1>4, PortsDistinct DEF TypeOK, Registered
<1>13. EnabledIffProxied'
  <2>1. \A m \in Registered : devices'[m].enabled <=> proxies'[devices'[m].port] # None
    BY <1>1, <1>2, <1>4, <1>12, RegisteredDevice, NoneIsNothing DEF EnabledIffProxied, TypeOK
  <2>2. \A q \in Ports : proxies'[q] # None => q \in PortsOf(Registered)
    BY <1>1, <1>4 DEF EnabledIffProxied, TypeOK, PortsOf
  <2> QED
    BY <1>8, <2>1, <2>2 DEF EnabledIffProxied
<1>14. DeadlineOfEnabled'
  BY <1>2, <1>4, <1>8, <1>12 DEF DeadlineOfEnabled, TypeOK
<1>15. OneOwnerPerListener'
  <2>1. \A g \in Goroutines : x \notin toStop[g]
    BY <1>4 DEF OneOwnerPerListener
  <2>2. \A q \in Ports : proxies[q] # x
    BY <1>4, NoneIsNothing DEF OneOwnerPerListener
  <2>3. Live' = Live \cup {x}
    BY <1>3, <1>4 DEF Live, TypeOK
  <2>4. \A q \in Ports : proxies'[q] # None =>
          obj'[proxies'[q]] # None /\ obj'[proxies'[q]].port = q
    BY <1>3, <1>4, <2>2 DEF OneOwnerPerListener, TypeOK
  <2>5. \A g \in Goroutines : \A y \in toStop[g] :
          /\ obj'[y] # None
          /\ \A q \in Ports : proxies'[q] # y
          /\ \A h \in Goroutines : y \in toStop[h] => h = g
    BY <1>4, <2>1 DEF OneOwnerPerListener, TypeOK
  <2>6. \A y \in Live : (\E q \in Ports : proxies'[q] = y) \/ (\E g \in Goroutines : y \in toStop[g])
    <3>1. ASSUME NEW y \in Live, NEW q \in Ports, proxies[q] = y PROVE proxies'[q] = y
      BY <1>4, <1>5, <3>1, LiveProxy, NoneIsNothing DEF TypeOK
    <3> QED
      BY <3>1 DEF OneOwnerPerListener
  <2>7. proxies'[p] = x
    BY <1>1, <1>4 DEF TypeOK
  <2> QED
    BY <1>1, <1>4, <2>3, <2>4, <2>5, <2>6, <2>7 DEF OneOwnerPerListener, pending
<1>16. ASSUME NEW y \in Live, Serves(y) PROVE y # x /\ Serves(y)'
  <2>1. y # x /\ obj'[y] = obj[y]
    BY <1>4 DEF Live, TypeOK
  <2> QED
    BY <1>7, <1>16, <2>1, LiveProxy DEF Serves, SameDevices, Registered
<1>17. Serves(x)'
  BY <1>1, <1>2, <1>3, <1>4, NoneIsNothing DEF Serves, TypeOK
<1>18. AttachedInv'
  <2>1. ASSUME NEW q \in Ports, NEW y \in ProxyIds, proxies'[q] = y PROVE Serves(y)'
    <3>1. CASE y = x
      BY <1>17, <3>1
    <3>2. CASE y # x
      <4>1. proxies[q] = y /\ y # None
        BY <1>4, <2>1, <3>2, NoneIsNothing DEF TypeOK
      <4>2. y \in Live /\ Serves(y)
        BY <4>1 DEF AttachedInv, OneOwnerPerListener, Live
      <4> QED
        BY <1>16, <4>2
    <3> QED
      BY <3>1, <3>2
  <2> QED
    BY <1>6, <2>1 DEF AttachedInv, Serves, TypeOK
<1>19. LingeringInv'
  <2>1. ASSUME NEW y \in Live'
        PROVE  \/ Serves(y)'
               \/ handler'[obj'[y].conn] = "closed"
               \/ stage' # "running" /\ bindings'[obj'[y].port] = <<obj'[y].conn, obj'[y].name>>
    <3>1. CASE y = x
      BY <1>17, <3>1
    <3>2. CASE y # x
      <4>1. y \in Live /\ obj'[y] = obj[y]
        BY <1>4, <3>2 DEF Live, TypeOK
      <4> QED
        BY <1>4, <1>16, <4>1 DEF LingeringInv, session, pool
    <3> QED
      BY <3>1, <3>2
  <2> QED
    BY <2>1 DEF LingeringInv
<1>20. WritingInv'
  BY <1>4 DEF WritingInv, TypeOK, session
<1> QED
  BY <1>6, <1>9, <1>10, <1>11, <1>13, <1>14, <1>15, <1>18, <1>19, <1>20

(* Disabling a set of devices, as DisableDevice and the expiry check do.   *)
LEMMA HideStep ==
  ASSUME IInv, NEW S \in SUBSET Registered, NEW g \in Goroutines,
         devices' = [n \in Names |-> IF n \in S THEN Disabled(devices[n]) ELSE devices[n]],
         Detach(PortsOf(S)), WillStop(g, ProxiesAt(PortsOf(S))),
         UNCHANGED <<conns, pool, obj, session, toClose, stage>>
  PROVE  IInv'
<1> USE DEF IInv
<1>1. \A n \in S : /\ n \in Registered
                   /\ devices'[n] = Disabled(devices[n])
                   /\ devices'[n] \in Device
                   /\ devices'[n].conn = devices[n].conn
                   /\ devices'[n].port = devices[n].port
                   /\ devices'[n].enabled = FALSE
                   /\ devices'[n].expire = "never"
  BY RegisteredDevice, DisabledDevice
<1>2. \A n \in Names \ S : devices'[n] = devices[n]
  OBVIOUS
<1>3. SameDevices
  BY <1>1, <1>2, NoneIsNothing DEF SameDevices, Registered
<1>4. /\ Registered' = Registered
      /\ RegistryConsistent' /\ PortsAccounted'
      /\ HandlerInv' /\ UnboundInv' /\ WritingInv' /\ LingeringInv'
  BY <1>3, SameDevicesFrame
<1>5. PortsOf(S) \in SUBSET Ports
  BY RegisteredDevice DEF PortsOf
<1>6. TypeOK'
  <2>1. devices' \in [Names -> Device \cup {None}]
    BY <1>1, <1>2 DEF TypeOK
  <2>2. proxies' \in [Ports -> ProxyIds \cup {None}]
    BY DetachType
  <2>3. toStop' \in [Goroutines -> SUBSET ProxyIds]
    BY <1>5, ProxiesAtType, WillStopType
  <2> QED
    BY <2>1, <2>2, <2>3 DEF TypeOK, Pool!PoolTypeOK, Pool!Ports, pool, session
<1>7. OneOwnerPerListener'
  BY <1>5, DetachKeepsOwner
<1>8. \A q \in Ports : proxies'[q] = IF q \in PortsOf(S) THEN None ELSE proxies[q]
  BY DEF Detach
<1>9. \A n \in Registered : devices[n].port \in PortsOf(S) <=> n \in S
  BY PortsDistinct DEF PortsOf
<1>10. EnabledIffProxied'
  <2>1. \A n \in Registered : devices'[n].enabled <=> proxies'[devices'[n].port] # None
    BY <1>1, <1>2, <1>8, <1>9, RegisteredDevice DEF EnabledIffProxied
  <2>2. PortsOf(Registered)' = PortsOf(Registered)
    BY <1>3, <1>4 DEF PortsOf, SameDevices
  <2> QED
    BY <1>4, <1>8, <2>1, <2>2 DEF EnabledIffProxied
<1>11. DeadlineOfEnabled'
  BY <1>1, <1>2, <1>4 DEF DeadlineOfEnabled, Registered
<1>12. AttachedInv'
  <2>1. ASSUME NEW q \in Ports, NEW x \in ProxyIds, proxies'[q] = x PROVE Serves(x)'
    <3>1. proxies[q] = x /\ x # None
      BY <1>8, <2>1, NoneIsNothing
    <3>2. x \in Live /\ Serves(x)
      BY <3>1 DEF AttachedInv, OneOwnerPerListener, Live
    <3> QED
      BY <1>3, <3>2, LiveProxy DEF Serves, SameDevices, Registered
  <2> QED
    BY <1>6, <2>1 DEF AttachedInv, Serves, TypeOK
<1> QED
  BY <1>4, <1>6, <1>7, <1>10, <1>11, <1>12

LEMMA DisableDeviceStep ==
  ASSUME IInv, NEW r \in Requests, NEW n \in Names, DisableDevice(r, n)
  PROVE  IInv'
<1>1. n \in Registered /\ {n} \in SUBSET Registered /\ r \in Goroutines
  BY GoroutineNames DEF DisableDevice
<1>2. PortsOf({n}) = {devices[n].port}
  BY DEF PortsOf
<1>3. devices' = [m \in Names |-> IF m \in {n} THEN Disabled(devices[m]) ELSE devices[m]]
  BY DEF DisableDevice, IInv, TypeOK
<1> QED
  BY <1>1, <1>2, <1>3, HideStep DEF DisableDevice

LEMMA ExpireScanStep ==
  ASSUME IInv, ExpireScan
  PROVE  IInv'
<1>1. Expired \in SUBSET Registered
  BY DEF Expired
<1> QED
  BY <1>1, GoroutineNames, HideStep DEF ExpireScan

-----------------------------------------------------------------------------
(* Stopping a proxy, and stopping the server.                              *)

LEMMA StopProxyStep ==
  ASSUME IInv, NEW g \in Goroutines, NEW x \in ProxyIds, StopProxy(g, x)
  PROVE  IInv'
<1> USE DEF IInv
<1>1. /\ x \in toStop[g]
      /\ obj' = [obj EXCEPT ![x] = None]
      /\ toStop' = [toStop EXCEPT ![g] = @ \ {x}]
      /\ UNCHANGED <<registry, pool, proxies, session, toClose, stage>>
  BY DEF StopProxy
<1>2. Registered' = Registered /\ Live' = Live \ {x}
  BY <1>1 DEF Registered, Live, registry, TypeOK
<1>3. \A q \in Ports : proxies[q] # x
  BY <1>1 DEF OneOwnerPerListener
<1>4. TypeOK'
  BY <1>1 DEF TypeOK, Pool!PoolTypeOK, Pool!Ports, registry, pool, session
<1>5. RegistryConsistent' /\ DeadlineOfEnabled'
  BY <1>1, <1>2 DEF RegistryConsistent, DeadlineOfEnabled, registry
<1>6. PortsOf(Registered)' = PortsOf(Registered)
  BY <1>1, <1>2 DEF PortsOf, registry
<1>7. PortsAccounted' /\ EnabledIffProxied'
  BY <1>1, <1>2, <1>6 DEF PortsAccounted, EnabledIffProxied, registry, pool
<1>8. HandlerInv' /\ UnboundInv'
  BY <1>1 DEF HandlerInv, UnboundInv, AwaitsRegister, session, registry, pool
<1>9. OneOwnerPerListener'
  <2>1. \A h \in Goroutines : /\ toStop'[h] \subseteq toStop[h]
                             /\ x \notin toStop'[h]
                             /\ \A y \in toStop[h] : y # x => y \in toStop'[h]
    BY <1>1 DEF TypeOK, OneOwnerPerListener
  <2>2. \A y \in ProxyIds : y # x => obj'[y] = obj[y]
    BY <1>1 DEF TypeOK
  <2>3. \A q \in Ports : proxies[q] # None =>
          obj'[proxies[q]] # None /\ obj'[proxies[q]].port = q
    BY <1>3, <2>2 DEF OneOwnerPerListener, TypeOK
  <2>4. \A h \in Goroutines : \A y \in toStop'[h] : y \in ProxyIds /\ y # x
    BY <2>1 DEF TypeOK
  <2> QED
    BY <1>1, <1>2, <2>1, <2>2, <2>3, <2>4 DEF OneOwnerPerListener
<1>10. ASSUME NEW y \in Live, y # x, Serves(y) PROVE Serves(y)'
  <2>1. obj'[y] = obj[y]
    BY <1>1, <1>10 DEF TypeOK, Live
  <2> QED
    BY <1>1, <1>10, <2>1 DEF Serves, registry
<1>11. AttachedInv'
  <2>1. ASSUME NEW q \in Ports, NEW y \in ProxyIds, proxies[q] = y PROVE Serves(y)'
    BY <1>3, <1>10, <2>1, NoneIsNothing DEF AttachedInv, OneOwnerPerListener, Live
  <2> QED
    BY <1>1, <2>1 DEF AttachedInv, Serves, TypeOK
<1>12. LingeringInv'
  <2>1. \A y \in Live' : y \in Live /\ y # x /\ obj'[y] = obj[y]
    BY <1>1, <1>2 DEF TypeOK, Live
  <2> QED
    BY <1>1, <1>10, <2>1 DEF LingeringInv, session, pool
<1>13. WritingInv'
  BY <1>1 DEF WritingInv, TypeOK, session
<1> QED
  BY <1>4, <1>5, <1>7, <1>8, <1>9, <1>11, <1>12, <1>13

LEMMA BeginStopStep ==
  ASSUME IInv, BeginStop
  PROVE  IInv'
<1> USE DEF IInv
<1>1. /\ stage' = "closing"
      /\ Detach(Ports) /\ WillStop("stopper", ProxiesAt(Ports))
      /\ toClose' = [toClose EXCEPT !["stopper"] = {devices[n].conn : n \in Registered}]
      /\ devices' = [n \in Names |-> None]
      /\ conns' = [c \in Conns |-> None]
      /\ UNCHANGED <<pool, obj, session>>
  BY DEF BeginStop
<1>2. {devices[n].conn : n \in Registered} \in SUBSET Conns
  BY RegisteredDevice
<1>3. TypeOK'
  <2>1. toStop' \in [Goroutines -> SUBSET ProxyIds]
    BY <1>1, GoroutineNames, ProxiesAtType, WillStopType
  <2>2. proxies' \in [Ports -> ProxyIds \cup {None}]
    BY <1>1, DetachType
  <2> QED
    BY <1>1, <1>2, <2>1, <2>2 DEF TypeOK, Pool!PoolTypeOK, Pool!Ports, pool, session
<1>4. Registered' = {} /\ Live' = Live
  BY <1>1 DEF Registered, Live
<1>5. \A q \in Ports : proxies'[q] = None
  BY <1>1 DEF Detach
<1>6. RegistryConsistent' /\ DeadlineOfEnabled'
  BY <1>1, <1>4 DEF RegistryConsistent, DeadlineOfEnabled
<1>7. PortsAccounted' /\ EnabledIffProxied' /\ AttachedInv'
  BY <1>1, <1>4, <1>5 DEF PortsAccounted, EnabledIffProxied, AttachedInv, pool
<1>8. OneOwnerPerListener'
  BY <1>1, GoroutineNames, DetachKeepsOwner
<1>9. HandlerInv' /\ UnboundInv'
  BY <1>1 DEF HandlerInv, UnboundInv, AwaitsRegister, session, pool
<1>10. LingeringInv'
  <2>1. ASSUME NEW x \in Live, Serves(x)
        PROVE  bindings[obj[x].port] = <<obj[x].conn, obj[x].name>>
    BY <2>1, LiveProxy DEF Serves, PortsAccounted, Registered
  <2> QED
    BY <1>1, <1>4, <2>1 DEF LingeringInv, session, pool
<1>11. WritingInv'
  BY <1>1, WritingFrame DEF session
<1> QED
  BY <1>3, <1>6, <1>7, <1>8, <1>9, <1>10, <1>11

-----------------------------------------------------------------------------
(* The inductive invariant.                                                *)

LEMMA InitIInv == Init => IInv
<1> SUFFICES ASSUME Init PROVE IInv
  OBVIOUS
<1> USE DEF Init
<1>1. TypeOK
  BY InitType
<1>2. Registered = {} /\ Live = {}
  BY DEF Registered, Live
<1>3. \A p \in Ports : bindings[p] = None /\ p \notin used
  BY DEF Pool!PoolInit, Pool!Ports, Ports
<1>4. RegistryConsistent /\ EnabledIffProxied /\ DeadlineOfEnabled /\ OneOwnerPerListener
  BY <1>2 DEF RegistryConsistent, EnabledIffProxied, DeadlineOfEnabled, OneOwnerPerListener
<1>5. PortsAccounted
  BY <1>2, <1>3 DEF PortsAccounted, PortsOf, Pool!PoolInit
<1>6. HandlerInv /\ UnboundInv /\ WritingInv /\ AttachedInv /\ LingeringInv
  BY <1>2, <1>3 DEF HandlerInv, UnboundInv, WritingInv, AttachedInv, LingeringInv
<1> QED
  BY <1>1, <1>4, <1>5, <1>6 DEF IInv

LEMMA StutterIInv ==
  ASSUME IInv, UNCHANGED vars
  PROVE  IInv'
<1>1. /\ UNCHANGED <<registry, pool, exposed, toStop>>
      /\ UNCHANGED <<session, pending, stage>>
  BY DEF vars, pending
<1>2. TypeOK' /\ HandlerInv' /\ UnboundInv' /\ LingeringInv'
  BY <1>1 DEF IInv, TypeOK, Pool!PoolTypeOK, Pool!Ports, HandlerInv, UnboundInv,
              AwaitsRegister, LingeringInv, Live, Serves,
              registry, pool, exposed, session, pending
<1> QED
  BY <1>1, <1>2, CoreFrame, WritingFrame DEF IInv, exposed, session

(* Every step of every goroutine keeps the invariant.                      *)
LEMMA NextIInv == IInv /\ [Next]_vars => IInv'
<1> SUFFICES ASSUME IInv, [Next]_vars PROVE IInv'
  OBVIOUS
<1>1. ASSUME NEW c \in Conns, HandlerStep(c) PROVE IInv'
  BY <1>1, RejectNameStep, RejectExhaustedStep, RegisterStep, AnnounceStep,
     EndUnregisteredStep, HandleDisconnectStep DEF HandlerStep
<1>2. ASSUME NEW c \in Conns, RegisterArrives(c) PROVE IInv'
  BY <1>2, RejectTokenStep, RejectFieldsStep, RejectLimitStep, PassLimitStep
     DEF RegisterArrives
<1>3. ASSUME NEW c \in Conns, PeerStep(c) PROVE IInv'
  BY <1>3, AcceptStep, PeerClosesStep, HandleHeartbeatStep, ForwardDataStep,
     WriteReturnsStep DEF PeerStep
<1>4. CASE AdminStep
  BY <1>4, EnableDeviceStep, EnableFailsStep, DisableDeviceStep DEF AdminStep
<1>5. CASE ClockStep
  BY <1>5, DeadlinePassesStep, FallSilentStep DEF ClockStep
<1>6. CASE BackgroundStep
  BY <1>6, ExpireScanStep, HeartbeatScanStep, StopProxyStep, CloseConnStep,
     AcceptExternalStep, BeginStopStep, FinishStopStep DEF BackgroundStep
<1>7. CASE UNCHANGED vars
  BY <1>7, StutterIInv
<1> QED
  BY <1>1, <1>2, <1>3, <1>4, <1>5, <1>6, <1>7 DEF Next

(* The inductive invariant holds in every reachable state of the server.   *)
THEOREM Inductive == Spec => []IInv
<1>1. Init => IInv
  BY InitIInv
<1>2. IInv /\ [Next]_vars => IInv'
  BY NextIInv
<1> QED
  BY <1>1, <1>2, PTL DEF Spec

(* The registry, the pool and the proxy map agree at all times.            *)
THEOREM RegistryCorrect == Spec => []TablesAgree
<1>1. IInv => TablesAgree
  BY DEF IInv, TablesAgree
<1> QED
  BY <1>1, Inductive, PTL

(* A handler that has ended leaves neither device nor port behind.         *)
THEOREM NoLeak == Spec => []EndedHandlerHoldsNothing
<1>1. IInv => EndedHandlerHoldsNothing
  <2> SUFFICES ASSUME IInv, NEW c \in Conns, handler[c] = "closed",
                      NEW n \in Registered, devices[n].conn = c
               PROVE  FALSE
    BY DEF EndedHandlerHoldsNothing
  <2>1. conns[c] = None
    BY DEF IInv, HandlerInv
  <2>2. conns[c] = n
    BY DEF IInv, RegistryConsistent, Registered
  <2> QED
    BY <2>1, <2>2, NoneIsNothing DEF Registered
<1> QED
  BY <1>1, Inductive, PTL

(* Frames from a client only reach proxies created for that client, when   *)
(* they are looked up and when they are written.                           *)
THEOREM Routing == Spec => []RoutesToOwner
<1>1. IInv => RoutesToOwner
  BY ProxyOfOwner DEF IInv, WritingInv, RoutesToOwner
<1> QED
  BY <1>1, Inductive, PTL

(* External users of a port are never forwarded to a device that no longer *)
(* owns it.                                                                *)
THEOREM Delivery == Spec => []NoMisdelivery
<1>1. IInv => NoMisdelivery
  <2> SUFFICES ASSUME IInv, NEW x \in Live, NEW n \in Registered,
                      devices[n].port = obj[x].port, obj[x].conn \in open
               PROVE  obj[x].conn = devices[n].conn /\ obj[x].name = n
    BY DEF NoMisdelivery
  <2>1. handler[obj[x].conn] # "closed"
    BY LiveProxy DEF IInv, HandlerInv
  <2>2. bindings[obj[x].port] = <<devices[n].conn, n>>
    BY DEF IInv, PortsAccounted
  <2>3. CASE Serves(x)
    BY <2>3, LiveProxy, PortsDistinct DEF Serves, Registered, IInv
  <2>4. CASE bindings[obj[x].port] = <<obj[x].conn, obj[x].name>>
    BY <2>2, <2>4
  <2> QED
    BY <2>1, <2>3, <2>4 DEF IInv, LingeringInv
<1> QED
  BY <1>1, Inductive, PTL

-----------------------------------------------------------------------------
(* The server implements the port lease.                                   *)

(* Only four kinds of steps touch the bindings or the open listeners.      *)
LEMMA LeaseSteps ==
  ASSUME IInv, [Next]_vars
  PROVE  \/ \E c \in Conns, p \in Ports : Register(c, p)
         \/ \E c \in Conns : HandleDisconnect(c)
         \/ \E n \in Names, x \in ProxyIds, e \in {"never", "pending"} : EnableDevice(n, x, e)
         \/ \E g \in Goroutines, x \in ProxyIds : StopProxy(g, x)
         \/ UNCHANGED <<bindings, obj>>
<1> USE DEF registry, pool, exposed
<1>1. ASSUME NEW c \in Conns, HandlerStep(c), ~ HandleDisconnect(c),
             ~ \E p \in Ports : Register(c, p)
      PROVE  UNCHANGED <<bindings, obj>>
  BY <1>1 DEF HandlerStep, RejectName, RejectExhausted, Announce, EndUnregistered,
              Pool!Exhausted, Pool!poolVars
<1>2. ASSUME NEW c \in Conns, RegisterArrives(c) \/ PeerStep(c)
      PROVE  UNCHANGED <<bindings, obj>>
  BY <1>2 DEF RegisterArrives, RejectToken, RejectFields, RejectLimit, PassLimit,
              PeerStep, Accept, PeerCloses, HandleHeartbeat, ForwardData, WriteReturns
<1>3. ASSUME AdminStep,
             ~ \E n \in Names, x \in ProxyIds, e \in {"never", "pending"} : EnableDevice(n, x, e)
      PROVE  UNCHANGED <<bindings, obj>>
  BY <1>3 DEF AdminStep, EnableFails, vars, pool, exposed, DisableDevice
<1>4. CASE ClockStep
  BY <1>4 DEF ClockStep, DeadlinePasses, FallSilent
<1>5. ASSUME BackgroundStep, ~ \E g \in Goroutines, x \in ProxyIds : StopProxy(g, x)
      PROVE  UNCHANGED <<bindings, obj>>
  BY <1>5 DEF BackgroundStep, ExpireScan, HeartbeatScan, CloseConn, AcceptExternal,
              BeginStop, FinishStop
<1>6. CASE UNCHANGED vars
  BY <1>6 DEF vars
<1> QED
  BY <1>1, <1>2, <1>3, <1>4, <1>5, <1>6 DEF Next, HandlerStep

(* The kernel gives a port to one listener at a time.                      *)
OneListenerPerPort ==
  \A x, y \in Live : obj[x].port = obj[y].port => x = y

LEMMA ListenerStep ==
  IInv /\ OneListenerPerPort /\ [Next]_vars => OneListenerPerPort'
<1> SUFFICES ASSUME IInv, OneListenerPerPort, [Next]_vars PROVE OneListenerPerPort'
  OBVIOUS
<1>1. ASSUME NEW n \in Names, NEW x \in ProxyIds, NEW e, EnableDevice(n, x, e)
      PROVE  OneListenerPerPort'
  <2> DEFINE o == [port |-> devices[n].port, conn |-> devices[n].conn, name |-> n]
  <2>1. obj' = [obj EXCEPT ![x] = o] /\ o.port \notin Listening
    BY <1>1 DEF EnableDevice, PortFree
  <2>2. \A y \in Live' : y # x => y \in Live /\ obj'[y] = obj[y]
    BY <2>1 DEF Live, IInv, TypeOK
  <2>3. obj'[x].port = o.port
    BY <2>1 DEF IInv, TypeOK
  <2>4. \A y \in Live : obj[y].port # o.port
    BY <2>1 DEF Listening
  <2> QED
    BY <2>2, <2>3, <2>4 DEF OneListenerPerPort
<1>2. ASSUME NEW g \in Goroutines, NEW x \in ProxyIds, StopProxy(g, x)
      PROVE  OneListenerPerPort'
  BY <1>2 DEF StopProxy, OneListenerPerPort, Live, IInv, TypeOK
<1>3. CASE obj' = obj
  BY <1>3 DEF OneListenerPerPort, Live
<1>4. ASSUME NEW c \in Conns, NEW p \in Ports, Register(c, p) PROVE obj' = obj
  BY <1>4 DEF Register, exposed
<1>5. ASSUME NEW c \in Conns, HandleDisconnect(c) PROVE obj' = obj
  BY <1>5 DEF HandleDisconnect
<1> QED
  BY <1>1, <1>2, <1>3, <1>4, <1>5, LeaseSteps

LEMMA GrantStep ==
  ASSUME IInv, NEW c \in Conns, NEW p \in Ports, Register(c, p)
  PROVE  Lease!LeaseNext
<1> DEFINE h == <<c, wants[c]>>
<1>1. h \in Conns \X Names /\ handler[c] = "admitted"
  BY DEF Register, Goes, IInv, HandlerInv
<1>2. bindings[p] = None /\ bindings' = [bindings EXCEPT ![p] = h]
  BY AllocateFacts DEF Register, IInv, PortsAccounted
<1>3. \A q \in Ports : bindings[q] # h
  BY <1>1, NoneIsNothing DEF IInv, UnboundInv
<1>4. OpenListeners' = OpenListeners
  BY DEF Register, exposed, OpenListeners, Live
<1> QED
  BY <1>1, <1>2, <1>3, <1>4 DEF Lease!LeaseNext, Lease!Grant

LEMMA RevokeStep ==
  ASSUME IInv, NEW c \in Conns, HandleDisconnect(c)
  PROVE  Lease!LeaseNext
<1> DEFINE n == conns[c]
           p == devices[n].port
<1>1. n \in Registered /\ p \in Ports /\ devices[n].conn \in Conns
  BY RegisteredDevice DEF HandleDisconnect, IInv, TypeOK, RegistryConsistent, Registered
<1>2. bindings[p] # None
  BY <1>1, BoundPort DEF IInv
<1>3. bindings' = [bindings EXCEPT ![p] = None]
  BY DEF HandleDisconnect, Pool!Release
<1>4. OpenListeners' = OpenListeners
  BY DEF HandleDisconnect, OpenListeners, Live
<1> QED
  BY <1>1, <1>2, <1>3, <1>4 DEF Lease!LeaseNext, Lease!Revoke

LEMMA ExposeStep ==
  ASSUME IInv, NEW n \in Names, NEW x \in ProxyIds, NEW e, EnableDevice(n, x, e)
  PROVE  Lease!LeaseNext
<1> DEFINE p == devices[n].port
           o == [port |-> p, conn |-> devices[n].conn, name |-> n]
           new == [port |-> p, holder |-> bindings[p]]
<1>1. n \in Registered /\ p \in Ports /\ devices[n].conn \in Conns
  BY RegisteredDevice DEF EnableDevice, IInv
<1>2. bindings[p] = <<devices[n].conn, n>> /\ bindings[p] # None
  BY <1>1, BoundPort DEF IInv
<1>3. /\ obj[x] = None
      /\ obj' = [obj EXCEPT ![x] = o]
      /\ p \notin Listening
      /\ bindings' = bindings
  BY DEF EnableDevice, NewProxy, PortFree, pool
<1>4. o \in Proxy /\ o # None
  <2>1. o \in Proxy
    BY <1>1 DEF Proxy
  <2> QED
    BY <2>1, NoneIsNothing
<1>5. Live' = Live \cup {x} /\ \A y \in Live : obj'[y] = obj[y]
  BY <1>3, <1>4 DEF Live, IInv, TypeOK
<1>6. obj'[x] = o
  BY <1>3 DEF IInv, TypeOK
<1>7. OpenListeners' = OpenListeners \cup {new}
  <2>1. OpenListeners' =
          {[port |-> obj'[y].port, holder |-> <<obj'[y].conn, obj'[y].name>>] : y \in Live'}
    BY DEF OpenListeners
  <2>2. [port |-> obj'[x].port, holder |-> <<obj'[x].conn, obj'[x].name>>] = new
    BY <1>2, <1>6
  <2> QED
    BY <1>5, <2>1, <2>2 DEF OpenListeners
<1>8. \A l \in OpenListeners : l.port # p
  BY <1>3 DEF OpenListeners, Listening
<1> QED
  BY <1>1, <1>2, <1>3, <1>7, <1>8 DEF Lease!LeaseNext, Lease!Expose

LEMMA CloseStep ==
  ASSUME IInv, OneListenerPerPort, NEW g \in Goroutines, NEW x \in ProxyIds, StopProxy(g, x)
  PROVE  Lease!LeaseNext
<1> DEFINE l == [port |-> obj[x].port, holder |-> <<obj[x].conn, obj[x].name>>]
<1>1. x \in Live
  BY DEF StopProxy, IInv, OneOwnerPerListener, Live
<1>2. obj' = [obj EXCEPT ![x] = None] /\ bindings' = bindings
  BY DEF StopProxy, pool
<1>3. Live' = Live \ {x} /\ \A y \in Live' : obj'[y] = obj[y]
  BY <1>2 DEF Live, IInv, TypeOK
<1>4. OpenListeners' =
        {[port |-> obj[y].port, holder |-> <<obj[y].conn, obj[y].name>>] : y \in Live \ {x}}
  BY <1>3 DEF OpenListeners
<1>5. \A y \in Live \ {x} : obj[y].port # l.port
  BY <1>1 DEF OneListenerPerPort
<1>6. OpenListeners' = OpenListeners \ {l}
  BY <1>4, <1>5 DEF OpenListeners
<1>7. l \in OpenListeners
  BY <1>1 DEF OpenListeners
<1> QED
  BY <1>2, <1>6, <1>7 DEF Lease!LeaseNext, Lease!Close

(* Every behaviour of the server is one of the port lease: registration    *)
(* grants, disconnect revokes, EnableDevice exposes, Proxy.Stop closes and *)
(* everything else is invisible.                                           *)
THEOREM Refinement == Spec => ImplementsLease
<1>1. Init => Lease!LeaseInit
  BY DEF Init, Lease!LeaseInit, Pool!PoolInit, Pool!Ports, Ports, OpenListeners, Live
<1>2. Init => OneListenerPerPort
  BY DEF Init, OneListenerPerPort, Live
<1>3. IInv /\ OneListenerPerPort /\ [Next]_vars => [Lease!LeaseNext]_(Lease!leaseVars)
  <2> SUFFICES ASSUME IInv, OneListenerPerPort, [Next]_vars,
                      ~ UNCHANGED Lease!leaseVars
               PROVE  Lease!LeaseNext
    OBVIOUS
  <2>1. ~ UNCHANGED <<bindings, obj>>
    BY DEF Lease!leaseVars, OpenListeners, Live
  <2> QED
    BY <2>1, LeaseSteps, GrantStep, RevokeStep, ExposeStep, CloseStep
<1> QED
  BY <1>1, <1>2, <1>3, ListenerStep, Inductive, PTL DEF Spec, ImplementsLease, Lease!LeaseSpec

(* Every variable keeps its range: maps hold registered names, ports are   *)
(* those of the pool, goroutines hold what exists.                         *)
THEOREM ServerTyped == Spec => []TypeOK
<1>1. IInv => TypeOK
  BY DEF IInv
<1> QED
  BY <1>1, Inductive, PTL

(* No deadline outlives the enabling it was set for.                       *)
THEOREM DeadlinesEnd == Spec => []DeadlineOfEnabled
<1>1. IInv => DeadlineOfEnabled
  BY DEF IInv
<1> QED
  BY <1>1, Inductive, PTL

(* Whoever detaches a proxy owes its listener a Stop, and nobody else does.*)
THEOREM ListenersOwned == Spec => []OneOwnerPerListener
<1>1. IInv => OneOwnerPerListener
  BY DEF IInv
<1> QED
  BY <1>1, Inductive, PTL
-----------------------------------------------------------------------------
(* Stop.                                                                   *)

(* Once Stop has taken the lock the map stays empty: enabling is an admin  *)
(* request, and the admin pages are shut down by then.                     *)
Silenced == stage # "running" => \A p \in Ports : proxies[p] = None

LEMMA NothingToDetach ==
  ASSUME Silenced, stage # "running", NEW P \in SUBSET Ports
  PROVE  ProxiesAt(P) = {}
BY DEF Silenced, ProxiesAt

(* A step that detaches the proxies of some ports and goes on running.     *)
LEMMA DetachSilenced ==
  ASSUME IInv, Silenced, StopperInv, NEW g \in Goroutines, NEW P \in SUBSET Ports,
         Detach(P), WillStop(g, ProxiesAt(P)), stage' = stage
  PROVE  Silenced' /\ StopperInv'
<1>1. Silenced'
  BY DEF Silenced, Detach
<1>2. stage # "running" => toStop' = toStop
  <2> HAVE stage # "running"
  <2>1. toStop' = [toStop EXCEPT ![g] = toStop[g] \cup {}]
    BY NothingToDetach DEF WillStop
  <2> QED
    BY <2>1 DEF IInv, TypeOK
<1> QED
  BY <1>1, <1>2 DEF StopperInv

LEMMA SilencedStep ==
  IInv /\ Silenced /\ StopperInv /\ [Next]_vars => Silenced' /\ StopperInv'
<1> SUFFICES ASSUME IInv, Silenced, StopperInv, [Next]_vars
             PROVE  Silenced' /\ StopperInv'
  OBVIOUS
<1>1. ASSUME UNCHANGED <<proxies, toStop, stage>> PROVE Silenced' /\ StopperInv'
  BY <1>1 DEF Silenced, StopperInv
<1>2. ASSUME NEW c \in Conns, HandlerStep(c), ~ HandleDisconnect(c)
      PROVE  UNCHANGED <<proxies, toStop, stage>>
  BY <1>2 DEF HandlerStep, RejectName, RejectExhausted, Register, Announce,
              EndUnregistered, exposed, pending
<1>3. ASSUME NEW c \in Conns, HandleDisconnect(c) PROVE Silenced' /\ StopperInv'
  <2> DEFINE p == devices[conns[c]].port
  <2>1. {p} \in SUBSET Ports
    BY <1>3, RegisteredDevice
       DEF HandleDisconnect, IInv, TypeOK, RegistryConsistent, Registered
  <2>2. Detach({p}) /\ WillStop(c, ProxiesAt({p})) /\ stage' = stage
    BY <1>3 DEF HandleDisconnect
  <2> QED
    BY <2>1, <2>2, DetachSilenced, GoroutineNames
<1>4. ASSUME NEW c \in Conns, RegisterArrives(c) \/ PeerStep(c)
      PROVE  UNCHANGED <<proxies, toStop, stage>>
  BY <1>4 DEF RegisterArrives, RejectToken, RejectFields, RejectLimit, PassLimit,
              PeerStep, Accept, PeerCloses, HandleHeartbeat, ForwardData,
              WriteReturns, exposed, pending
<1>5. CASE AdminStep
  <2>1. stage = "running" /\ stage' = stage
    BY <1>5 DEF AdminStep, EnableDevice, EnableFails, DisableDevice, AdminServed, vars
  <2> QED
    BY <2>1 DEF Silenced, StopperInv
<1>6. CASE ClockStep
  <2>1. UNCHANGED <<proxies, toStop, stage>>
    BY <1>6 DEF ClockStep, DeadlinePasses, FallSilent, exposed, pending
  <2> QED
    BY <2>1, <1>1
<1>7. CASE ExpireScan
  <2>1. PortsOf(Expired) \in SUBSET Ports
    BY RegisteredDevice DEF PortsOf, Expired, IInv
  <2> QED
    BY <1>7, <2>1, DetachSilenced, GoroutineNames DEF ExpireScan
<1>8. ASSUME NEW g \in Goroutines, NEW x \in ProxyIds, StopProxy(g, x)
      PROVE  Silenced' /\ StopperInv'
  BY <1>8, GoroutineNames DEF StopProxy, Silenced, StopperInv, IInv, TypeOK
<1>9. CASE BeginStop
  <2>1. stage' = "closing" /\ \A p \in Ports : proxies'[p] = None
    BY <1>9 DEF BeginStop, Detach
  <2> QED
    BY <2>1 DEF Silenced, StopperInv
<1>10. CASE FinishStop
  BY <1>10 DEF FinishStop, Silenced, StopperInv, exposed, pending
<1>11. ASSUME BackgroundStep, ~ ExpireScan, ~ BeginStop, ~ FinishStop,
              ~ \E g \in Goroutines, x \in ProxyIds : StopProxy(g, x)
       PROVE  UNCHANGED <<proxies, toStop, stage>>
  BY <1>11 DEF BackgroundStep, HeartbeatScan, CloseConn, AcceptExternal, exposed,
               pending
<1>12. CASE UNCHANGED vars
  BY <1>12, <1>1 DEF vars, exposed, pending
<1> QED
  BY <1>1, <1>2, <1>3, <1>4, <1>5, <1>6, <1>7, <1>8, <1>9, <1>10, <1>11, <1>12
     DEF Next

(* Stop ends every exposure: after it no device is ever exposed again, and *)
(* only goroutines that were ahead of it still have a listener to close.   *)
THEOREM StopIsFinal == Spec => []StopEndsExposure
<1>1. Init => Silenced /\ StopperInv
  BY DEF Init, Silenced, StopperInv
<1>2. IInv /\ Silenced /\ StopperInv => StopEndsExposure
  <2> SUFFICES ASSUME IInv, Silenced, StopperInv, stage = "stopped", NEW x \in Live
               PROVE  \E g \in Goroutines \ {"stopper"} : x \in toStop[g]
    BY DEF StopEndsExposure, Silenced
  <2>1. \A p \in Ports : proxies[p] # x
    BY NoneIsNothing DEF Silenced, Live
  <2>2. PICK g \in Goroutines : x \in toStop[g]
    BY <2>1 DEF IInv, OneOwnerPerListener
  <2>3. g # "stopper"
    BY <2>2 DEF StopperInv
  <2> QED
    BY <2>2, <2>3
<1> QED
  BY <1>1, <1>2, SilencedStep, Inductive, PTL DEF Spec
=============================================================================
