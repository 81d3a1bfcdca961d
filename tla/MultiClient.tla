---------------------------- MODULE MultiClient ----------------------------
(***************************************************************************)
(* The multi-port manager (internal/client/multi_client.go) as the host of *)
(* the DLL (cmd/dll/main.go) drives it.  Threads of the host call the      *)
(* exports; AddPort and RemovePort hold mcMu for reading, Initialize and   *)
(* Stop for writing.  Every client runs in a goroutine of AddPort that     *)
(* deletes a map entry when Start has returned.  The clients keep the      *)
(* promise of ClientLife.                                                  *)
(*                                                                         *)
(* A Client object whose goroutine has ended and that nothing refers to    *)
(* stands for a new one.                                                   *)
(***************************************************************************)
EXTENDS FiniteSets

CONSTANTS Names,     \* device names
          Clients,   \* *Client objects
          Threads,   \* threads of the host
          None

ASSUME NoneIsNothing == None \notin Names \cup Clients

VARIABLES
  manager,    \* whether the DLL's multiClient is set
  clients,    \* m.clients: name -> client
  mine,       \* clients whose goroutine refers to the current manager
  name,       \* Config.DeviceName of a client
  gor,        \* the goroutine AddPort starts for a client
  life, halt, \* the clients themselves
  thread,     \* what a thread is doing: where, clients yet to stop, for which name
  shown,      \* the last state the host was told of a name
  displaced   \* history: clients whose entry another goroutine deleted

Life == INSTANCE ClientLife

table == <<manager, clients, mine, displaced>>
objects == <<name, gor>>
lives == <<life, halt>>
vars == <<table, objects, lives, thread, shown>>

-----------------------------------------------------------------------------
Idle == [at |-> "idle", todo |-> {}, name |-> None]

(* What the clients in m.clients are.                                      *)
Listed == {clients[n] : n \in Names} \ {None}

(* RemovePort and a failing AddPort hold mcMu for reading, Stop for        *)
(* writing; a Stop that waits for the lock keeps new readers out.          *)
Reading(t) == thread[t].at \in {"removing", "refused"}
CanRead    == \A t \in Threads : thread[t].at \notin {"locking", "stopping"}
CanWrite   == \A t \in Threads : ~ Reading(t) /\ thread[t].at # "stopping"

ThreadGoes(t, from, to) == thread[t].at = from /\ thread' = [thread EXCEPT ![t] = to]

Tells(n, state) == shown' = [shown EXCEPT ![n] = state]

NewClient(k) ==
  /\ gor[k] = "none"
  /\ \A t \in Threads : k \notin thread[t].todo

Init ==
  /\ manager = "none"
  /\ clients = [n \in Names |-> None]
  /\ mine = {}
  /\ name = [k \in Clients |-> None]
  /\ gor = [k \in Clients |-> "none"]
  /\ Life!LifeInit
  /\ thread = [t \in Threads |-> Idle]
  /\ shown = [n \in Names |-> "none"]
  /\ displaced = {}

-----------------------------------------------------------------------------
(* Exports of the DLL.                                                     *)

Initialize(t) ==
  /\ thread[t] = Idle /\ CanWrite /\ CanRead
  /\ manager = "none"
  /\ manager' = "up"
  /\ UNCHANGED <<clients, mine, displaced, objects, lives, thread, shown>>

AddPort(t, n, k) ==
  /\ thread[t] = Idle /\ CanRead
  /\ manager = "up"
  /\ clients[n] = None
  /\ NewClient(k)
  /\ clients' = [clients EXCEPT ![n] = k]
  /\ mine' = mine \cup {k}
  /\ name' = [name EXCEPT ![k] = n]
  /\ gor' = [gor EXCEPT ![k] = "spawned"]
  /\ life' = [life EXCEPT ![k] = "new"]
  /\ halt' = [halt EXCEPT ![k] = "no"]
  /\ UNCHANGED <<manager, displaced, thread, shown>>

(* "device name already exists": the host is told of an error.             *)
AddPortFails(t, n) ==
  /\ ThreadGoes(t, "idle", [at |-> "refused", todo |-> {}, name |-> n])
  /\ CanRead
  /\ manager = "up"
  /\ clients[n] # None
  /\ UNCHANGED <<table, objects, lives, shown>>

TellError(t) ==
  /\ ThreadGoes(t, "refused", Idle)
  /\ Tells(thread[t].name, "error")
  /\ UNCHANGED <<table, objects, lives>>

(* The entry is deleted first, the client stopped outside m.mu.            *)
RemovePort(t, n) ==
  /\ ThreadGoes(t, "idle", [at |-> "removing", todo |-> {clients[n]}, name |-> n])
  /\ CanRead
  /\ manager = "up"
  /\ clients[n] # None
  /\ clients' = [clients EXCEPT ![n] = None]
  /\ UNCHANGED <<manager, mine, displaced, objects, lives, shown>>

(* client.Stop, one client after the other.                                *)
BeginStopOf(t, k) ==
  /\ k \in thread[t].todo
  /\ \A j \in thread[t].todo : halt[j] = "no"
  /\ Life!Ask(k)
  /\ UNCHANGED <<table, objects, thread, shown>>

ContinueStopOf(t, k) ==
  /\ k \in thread[t].todo
  /\ Life!StopStep(k)
  /\ UNCHANGED <<table, objects, thread, shown>>

EndStopOf(t, k) ==
  /\ k \in thread[t].todo
  /\ halt[k] = "returned"
  /\ thread' = [thread EXCEPT ![t].todo = @ \ {k}]
  /\ UNCHANGED <<table, objects, lives, shown>>

RemoveReturns(t) ==
  /\ ThreadGoes(t, "removing", Idle)
  /\ thread[t].todo = {}
  /\ Tells(thread[t].name, "disconnected")
  /\ UNCHANGED <<table, objects, lives>>

StopWaitsForLock(t) ==
  /\ ThreadGoes(t, "idle", [at |-> "locking", todo |-> {}, name |-> None])
  /\ UNCHANGED <<table, objects, lives, shown>>

(* Nothing to stop: multiClient is nil.                                    *)
StopNothing(t) ==
  /\ ThreadGoes(t, "locking", Idle)
  /\ CanWrite
  /\ manager = "none"
  /\ UNCHANGED <<table, objects, lives, shown>>

(* Mutant: the clients are not collected before the map is replaced.       *)
StopCollectsNone(t) ==
  /\ ThreadGoes(t, "locking", [at |-> "stopping", todo |-> {}, name |-> None])
  /\ CanWrite
  /\ manager = "up"
  /\ clients' = [n \in Names |-> None]
  /\ mine' = {}
  /\ UNCHANGED <<manager, displaced, objects, lives, shown>>

(* Stop collects the clients and replaces the map, under m.mu.             *)
StopCollects(t) ==
  /\ ThreadGoes(t, "locking", [at |-> "stopping", todo |-> Listed, name |-> None])
  /\ CanWrite
  /\ manager = "up"
  /\ clients' = [n \in Names |-> None]
  /\ mine' = {}
  /\ UNCHANGED <<manager, displaced, objects, lives, shown>>

StopReturns(t) ==
  /\ ThreadGoes(t, "stopping", Idle)
  /\ thread[t].todo = {}
  /\ manager' = "none"
  /\ UNCHANGED <<clients, mine, displaced, objects, lives, shown>>

-----------------------------------------------------------------------------
(* The goroutine of client k.                                              *)

GorGoes(k, from, to) == gor[k] = from /\ gor' = [gor EXCEPT ![k] = to]

TellConnecting(k) ==
  /\ GorGoes(k, "spawned", "starting")
  /\ Tells(name[k], "connecting")
  /\ UNCHANGED <<table, name, lives, thread>>

Start(k) ==
  /\ GorGoes(k, "starting", "serving")
  /\ Life!Start(k)
  /\ UNCHANGED <<table, name, thread, shown>>

(* Mutant: doneCh is not closed when Start returns.                        *)
StartReturnsUnsaid(k) ==
  /\ GorGoes(k, "serving", "returned")
  /\ halt[k] # "no"
  /\ UNCHANGED <<table, name, lives, thread, shown>>

StartReturns(k) ==
  /\ GorGoes(k, "serving", "returned")
  /\ Life!Finish(k)
  /\ UNCHANGED <<table, name, thread, shown>>

(* Mutant: the goroutine ends without telling the host.                    *)
EndSilently(k) ==
  /\ GorGoes(k, "returned", "leaving")
  /\ UNCHANGED <<table, name, lives, thread, shown>>

TellDisconnected(k) ==
  /\ GorGoes(k, "returned", "leaving")
  /\ Tells(name[k], "disconnected")
  /\ UNCHANGED <<table, name, lives, thread>>

(* The entry of the name goes, whichever client it holds by then.          *)
DeleteEntry(k) ==
  /\ GorGoes(k, "leaving", "none")
  /\ clients' = IF k \in mine THEN [clients EXCEPT ![name[k]] = None] ELSE clients
  /\ displaced' = (displaced \cup (IF k \in mine THEN {clients[name[k]]} ELSE {}))
                  \ {k, None}
  /\ mine' = mine \ {k}
  /\ name' = [name EXCEPT ![k] = None]
  /\ UNCHANGED <<manager, lives, thread, shown>>

-----------------------------------------------------------------------------
(* Calls the host makes as it likes, and what then goes on by itself.      *)
HostCall(t) ==
  \/ Initialize(t) \/ StopWaitsForLock(t)
  \/ \E n \in Names : AddPortFails(t, n) \/ RemovePort(t, n)
                      \/ \E k \in Clients : AddPort(t, n, k)

ThreadStep(t) ==
  \/ TellError(t) \/ RemoveReturns(t)
  \/ StopNothing(t) \/ StopCollects(t) \/ StopReturns(t)
  \/ \E k \in Clients : BeginStopOf(t, k) \/ ContinueStopOf(t, k) \/ EndStopOf(t, k)

GorStep(k) ==
  TellConnecting(k) \/ Start(k) \/ StartReturns(k) \/ TellDisconnected(k) \/ DeleteEntry(k)

Next ==
  \/ \E t \in Threads : HostCall(t) \/ ThreadStep(t)
  \/ \E k \in Clients : GorStep(k)

Spec == Init /\ [][Next]_vars

(* Goroutines and threads run, the host's callback returns, and Start      *)
(* returns once its client is stopped (what the runs of Client check).     *)
FairSpec ==
  /\ Spec
  /\ \A t \in Threads : WF_vars(ThreadStep(t))
  /\ \A k \in Clients : WF_vars(GorStep(k))

-----------------------------------------------------------------------------
(* Properties.                                                             *)

(* Ranges of the variables.                                                *)
TypeOK ==
  /\ manager \in {"none", "up"}
  /\ clients \in [Names -> Clients \cup {None}]
  /\ mine \subseteq Clients
  /\ name \in [Clients -> Names \cup {None}]
  /\ gor \in [Clients -> {"none", "spawned", "starting", "serving", "returned", "leaving"}]
  /\ life \in [Clients -> {"new", "running", "done"}]
  /\ halt \in [Clients -> {"no", "asked", "free", "waiting", "returned"}]
  /\ thread \in [Threads -> [at : {"idle", "removing", "refused", "locking", "stopping"},
                             todo : SUBSET Clients, name : Names \cup {None}]]
  /\ shown \in [Names -> {"none", "connecting", "disconnected", "error"}]
  /\ displaced \subseteq Clients

(* What GetPorts lists is served: a client in the map runs under its own   *)
(* name, nobody is stopping it, and its goroutine has not got beyond       *)
(* Start, however removals, additions and late goroutines overlap.         *)
ListedIsServed ==
  \A n \in Names : clients[n] # None =>
    /\ name[clients[n]] = n
    /\ halt[clients[n]] = "no"
    /\ gor[clients[n]] \in {"spawned", "starting", "serving"}
    /\ \A t \in Threads : clients[n] \notin thread[t].todo

(* A client that runs and that nobody has told to stop can be found: it is *)
(* in the map, or a call has taken it out to stop it.  The one way to lose *)
(* it is the delete of multi_client.go:114 for its predecessor.            *)
LostOnlyByDelete ==
  \A k \in Clients : gor[k] # "none" /\ halt[k] = "no" =>
    \/ clients[name[k]] = k
    \/ \E t \in Threads : k \in thread[t].todo
    \/ k \in displaced

(* The manager's map follows what really runs, in both directions.         *)
MapTracksClients == ListedIsServed /\ LostOnlyByDelete

(* Every client is stopped by one call only: a second Stop of the same     *)
(* client would find stopCh closed and let RemovePort, or the manager's    *)
(* Stop, return while the client still runs.                               *)
StoppedOnce ==
  \A t, u \in Threads : t # u => thread[t].todo \cap thread[u].todo = {}

(* No call waits for a client that will never end: Stop only waits for a   *)
(* client that has returned from Start, or whose goroutine is in Start and *)
(* will find stopCh closed.  A goroutine that AddPort has spawned and that *)
(* has not come to Start when RemovePort calls is not waited for.          *)
AwaitedWillEnd ==
  \A k \in Clients : halt[k] = "waiting" =>
    life[k] = "done" \/ (life[k] = "running" /\ gor[k] = "serving")

(* Stop is called once per client and only waits for one that will end.    *)
StopsOnceAndEnds == StoppedOnce /\ AwaitedWillEnd

(* When nothing is left of a name, the host has not been left with the     *)
(* state "connecting": the last report of every client that ends comes     *)
(* after its first, although goroutines and calls report independently.    *)
GoneIsNotConnecting ==
  \A n \in Names : shown[n] = "connecting" =>
    \E k \in Clients : name[k] = n /\ gor[k] \in {"starting", "serving", "returned"}

(* Every call of the host returns: RemovePort waits for a goroutine that   *)
(* needs m.mu to end, Stop waits for the lock the others hold and for all  *)
(* clients.                                                                *)
CallsReturn == \A t \in Threads : thread[t].at # "idle" ~> thread[t].at = "idle"

-----------------------------------------------------------------------------
(* The inductive invariant.                                                *)

(* A goroutine that has not ended serves a name, and a thread has clients  *)
(* to stop only while a call of it stops them.                             *)
Bookkeeping ==
  /\ \A k \in Clients : gor[k] # "none" => name[k] \in Names
  /\ \A t \in Threads : thread[t].todo # {} => thread[t].at \in {"removing", "stopping"}
  /\ \A t \in Threads : thread[t].at \in {"removing", "refused"} => thread[t].name \in Names

(* Start runs in the client's own goroutine.                               *)
OwnGoroutine == \A k \in Clients : life[k] = "running" => gor[k] = "serving"

(* The strengthening the proofs use.                                       *)
IInv ==
  /\ TypeOK /\ Bookkeeping /\ OwnGoroutine
  /\ ListedIsServed /\ LostOnlyByDelete /\ GoneIsNotConnecting
  /\ StoppedOnce /\ AwaitedWillEnd

-----------------------------------------------------------------------------
(* README.md:296, "stop all connections" (and multi_client.go:166): after  *)
(* Stop no client is left that nobody has told to stop.                    *)
StopLeavesNone ==
  manager = "none" => \A k \in Clients : gor[k] = "serving" => halt[k] # "no"
=============================================================================
