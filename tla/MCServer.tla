------------------------------ MODULE MCServer ------------------------------
(* Model checking of Server: symmetric sets of names, connections, proxy   *)
(* objects and admin requests.                                             *)
EXTENDS Server, TLC

Symmetry == Permutations(Names) \cup Permutations(Conns)
              \cup Permutations(ProxyIds) \cup Permutations(Requests)
=============================================================================
