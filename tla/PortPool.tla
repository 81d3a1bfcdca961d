------------------------------ MODULE PortPool ------------------------------
(***************************************************************************)
(* The port pool of the server (internal/server/port_pool.go): a range of  *)
(* TCP ports handed out round-robin to devices.  Every method takes the    *)
(* pool's mutex for its whole body, so each method is one action.          *)
(***************************************************************************)
EXTENDS Integers

CONSTANTS PortStart, PortEnd,   \* the configured range, both ends included
          Holders,              \* what a port can be bound to: Device objects
          None

ASSUME PortRange == PortStart \in Nat /\ PortEnd \in Nat
ASSUME NoneIsNoHolder == None \notin Holders

VARIABLES used,       \* ports marked as allocated
          bindings,   \* port -> the device it is bound to, or None
          nextPort    \* where the next search starts

poolVars == <<used, bindings, nextPort>>

Ports == PortStart..PortEnd

(* Number of iterations of Allocate's loop; not positive when the          *)
(* configured range is empty, and then the loop never runs.                *)
PoolSize == PortEnd - PortStart + 1

PoolInit ==
  /\ used = {}
  /\ bindings = [p \in Ports |-> None]
  /\ nextPort = PortStart

(* The round-robin increment.                                              *)
After(p) == IF p + 1 > PortEnd THEN PortStart ELSE p + 1

(* Mutant: the search starts over at the first port.                       *)
ProbeFromStart(i) == PortStart + i

(* The port tried by iteration i of the search that starts at nextPort.    *)
Probe(i) == IF nextPort + i > PortEnd THEN nextPort + i - PoolSize
                                      ELSE nextPort + i

(* Mutant: the map of used ports is not consulted.                         *)
AllocateUnchecked(holder, p) ==
  /\ p = nextPort
  /\ used' = used \cup {p}
  /\ bindings' = [bindings EXCEPT ![p] = holder]
  /\ nextPort' = After(p)

(* Allocate returns port p: the first free port in cyclic order.           *)
Allocate(holder, p) ==
  /\ \E i \in 0..(PoolSize - 1) :
       /\ p = Probe(i)
       /\ p \notin used
       /\ \A j \in 0..(i - 1) : Probe(j) \in used
  /\ used' = used \cup {p}
  /\ bindings' = [bindings EXCEPT ![p] = holder]
  /\ nextPort' = After(p)

(* Allocate fails: PoolSize increments have brought nextPort round again.  *)
Exhausted ==
  /\ \A i \in 0..(PoolSize - 1) : Probe(i) \in used
  /\ UNCHANGED poolVars

Release(p) ==
  /\ used' = used \ {p}
  /\ bindings' = [bindings EXCEPT ![p] = None]
  /\ UNCHANGED nextPort

PoolNext ==
  \/ \E h \in Holders, p \in Ports : Allocate(h, p)
  \/ Exhausted
  \/ \E p \in used : Release(p)

PoolSpec == PoolInit /\ [][PoolNext]_poolVars

-----------------------------------------------------------------------------
(* What a reader of the pool may rely on.                                  *)

(* Ranges of the pool's variables: allocated and bound ports stay inside   *)
(* the configured range, and so does the search position.                  *)
PoolTypeOK ==
  /\ used \subseteq Ports
  /\ bindings \in [Ports -> Holders \cup {None}]
  /\ nextPort \in Ports \cup {PortStart}

(* The two maps of the pool never disagree: a port is marked used exactly  *)
(* when it is bound to a device (Allocate and Release update both).        *)
UsedIsBound == \A p \in Ports : p \in used <=> bindings[p] # None
=============================================================================
