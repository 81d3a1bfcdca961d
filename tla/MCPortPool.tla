----------------------------- MODULE MCPortPool -----------------------------
(***************************************************************************)
(* Model checking of the port pool on its own: the closed form Allocate    *)
(* uses is compared, in every reachable state, with the loop of the source *)
(* executed iteration by iteration.                                        *)
(***************************************************************************)
EXTENDS PortPool

CONSTANT NoPort  \* what an Allocate that fails returns for a port

ASSUME NoPortAssumption == NoPort \notin Ports

(* nextPort after i failed iterations of the loop.                         *)
SearchPosition[i \in 0..PoolSize] ==
  IF i = 0 THEN nextPort ELSE After(SearchPosition[i - 1])

(* The loop from iteration i on: the port it returns, or NoPort, and where *)
(* it leaves nextPort.                                                     *)
Search[i \in 0..PoolSize] ==
  IF i = PoolSize THEN [port |-> NoPort, next |-> SearchPosition[i]]
  ELSE IF SearchPosition[i] \notin used
  THEN [port |-> SearchPosition[i], next |-> After(SearchPosition[i])]
  ELSE Search[i + 1]

LoopAllocate == Search[0]

(* Every allocation step takes the port the source's loop would have       *)
(* returned and leaves the search where the loop leaves it.  Fails if the  *)
(* wrap-around at PortEnd, the loop bound or the increment is wrong.       *)
AllocationFollowsLoop ==
  [][used' \ used # {} =>
       /\ used' \ used = {LoopAllocate.port}
       /\ nextPort' = LoopAllocate.next]_poolVars
=============================================================================
