----------------------------- MODULE ConnSlots -----------------------------
(***************************************************************************)
(* What one TCP proxy promises its client and its configuration            *)
(* (internal/server/proxy.go): every external connection it lets in takes  *)
(* one of MaxConns slots, is announced by one conn_open, ended by one      *)
(* conn_close, and gives the slot back only after that.  So the client     *)
(* never knows of more than MaxConns connections at a time, and a          *)
(* connection ID that has been closed is not used again.                   *)
(*                                                                         *)
(* Nothing is said of sockets, locks, goroutines, the map or Stop: that    *)
(* is TcpProxy, which implements this specification.                       *)
(***************************************************************************)
EXTENDS Integers, FiniteSets

CONSTANTS Users,     \* external connections
          MaxConns   \* p.maxConns

VARIABLES
  held,  \* the connections that hold a slot
  told   \* the last conn message sent to the client for a connection

Init == held = {} /\ told = [c \in Users |-> "none"]

Take(c) ==
  /\ told[c] = "none" /\ c \notin held
  /\ Cardinality(held) < MaxConns
  /\ held' = held \cup {c}
  /\ UNCHANGED told

Open(c) ==
  /\ told[c] = "none" /\ c \in held
  /\ told' = [told EXCEPT ![c] = "conn_open"]
  /\ UNCHANGED held

Close(c) ==
  /\ told[c] = "conn_open" /\ c \in held
  /\ told' = [told EXCEPT ![c] = "conn_close"]
  /\ UNCHANGED held

GiveBack(c) ==
  /\ told[c] = "conn_close" /\ c \in held
  /\ held' = held \ {c}
  /\ UNCHANGED told

Next == \E c \in Users : Take(c) \/ Open(c) \/ Close(c) \/ GiveBack(c)

Spec == Init /\ [][Next]_<<held, told>>
=============================================================================
