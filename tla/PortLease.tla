----------------------------- MODULE PortLease -----------------------------
(***************************************************************************)
(* What the server promises about ports, without maps, locks, handlers or  *)
(* checkers: a port is leased to one device at a time, only the lessee of  *)
(* a port is exposed on it, and a listener may outlive the lease it was    *)
(* opened under but never shares its port.  Server implements this.        *)
(***************************************************************************)
CONSTANTS Ports, Holders, None

VARIABLES lease,      \* port -> the device it is leased to, or None
          listeners   \* open listeners, each with the device it serves

leaseVars == <<lease, listeners>>

Listener == [port : Ports, holder : Holders]

LeaseInit ==
  /\ lease = [p \in Ports |-> None]
  /\ listeners = {}

(* A registration: a free port for a device that has none.                 *)
Grant(p, h) ==
  /\ lease[p] = None
  /\ \A q \in Ports : lease[q] # h
  /\ lease' = [lease EXCEPT ![p] = h]
  /\ UNCHANGED listeners

(* The device is gone.                                                     *)
Revoke(p) ==
  /\ lease[p] # None
  /\ lease' = [lease EXCEPT ![p] = None]
  /\ UNCHANGED listeners

(* An admin enables the device: its port starts to listen.                 *)
Expose(p) ==
  /\ lease[p] # None
  /\ \A l \in listeners : l.port # p
  /\ listeners' = listeners \cup {[port |-> p, holder |-> lease[p]]}
  /\ UNCHANGED lease

Close(l) ==
  /\ listeners' = listeners \ {l}
  /\ UNCHANGED lease

LeaseNext ==
  \/ \E p \in Ports : Revoke(p) \/ Expose(p)
  \/ \E p \in Ports, h \in Holders : Grant(p, h)
  \/ \E l \in listeners : Close(l)

LeaseSpec == LeaseInit /\ [][LeaseNext]_leaseVars
=============================================================================
