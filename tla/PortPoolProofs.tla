--------------------------- MODULE PortPoolProofs ---------------------------
(***************************************************************************)
(* Proofs about the port pool for every range of ports: its maps agree,    *)
(* and the round-robin search is complete, so that "port pool exhausted"   *)
(* is reported exactly when no port is free.                               *)
(***************************************************************************)
EXTENDS MCPortPool, WellFoundedInduction, TLAPS

LEMMA AfterInRange ==
  ASSUME NEW p \in Ports
  PROVE  After(p) \in Ports
BY PortRange DEF Ports, After

(* The pool's two maps agree and stay in range under every sequence of     *)
(* allocations and releases.                                               *)
THEOREM PoolCorrect == PoolSpec => [](PoolTypeOK /\ UsedIsBound)
<1> DEFINE Inv == PoolTypeOK /\ UsedIsBound
<1>1. PoolInit => Inv
  BY DEF PoolInit, PoolTypeOK, UsedIsBound
<1>2. Inv /\ [PoolNext]_poolVars => Inv'
  <2> SUFFICES ASSUME Inv, [PoolNext]_poolVars PROVE Inv'
    OBVIOUS
  <2>1. ASSUME NEW h \in Holders, NEW p \in Ports, Allocate(h, p) PROVE Inv'
    BY <2>1, AfterInRange, NoneIsNoHolder DEF Allocate, PoolTypeOK, UsedIsBound
  <2>2. CASE Exhausted
    BY <2>2 DEF Exhausted, PoolTypeOK, UsedIsBound, poolVars
  <2>3. ASSUME NEW p \in used, Release(p) PROVE Inv'
    BY <2>3 DEF Release, PoolTypeOK, UsedIsBound
  <2>4. CASE UNCHANGED poolVars
    BY <2>4 DEF PoolTypeOK, UsedIsBound, poolVars
  <2> QED
    BY <2>1, <2>2, <2>3, <2>4 DEF PoolNext
<1> QED
  BY <1>1, <1>2, PTL DEF PoolSpec

(* The search tries every port of the range ...                            *)
LEMMA ProbeReachesAll ==
  ASSUME PoolTypeOK, NEW p \in Ports
  PROVE  \E i \in 0..(PoolSize - 1) : Probe(i) = p
<1>1. nextPort \in PortStart..PortEnd /\ p \in PortStart..PortEnd
  BY PortRange DEF PoolTypeOK, Ports
<1>2. CASE p >= nextPort
  <2>1. p - nextPort \in 0..(PoolSize - 1) /\ Probe(p - nextPort) = p
    BY <1>1, <1>2, PortRange DEF PoolSize, Probe
  <2> QED
    BY <2>1
<1>3. CASE p < nextPort
  <2> DEFINE i == p - nextPort + PoolSize
  <2>1. i \in 0..(PoolSize - 1) /\ Probe(i) = p
    BY <1>1, <1>3, PortRange DEF PoolSize, Probe
  <2> QED
    BY <2>1
<1> QED
  BY <1>1, <1>2, <1>3, PortRange

(* ... and nothing outside of it.                                          *)
LEMMA ProbeInRange ==
  ASSUME PoolTypeOK, NEW i \in 0..(PoolSize - 1)
  PROVE  Probe(i) \in Ports
BY PortRange DEF PoolTypeOK, PoolSize, Probe, Ports

(* "port pool exhausted" means that every port of the range is taken.      *)
THEOREM ExhaustedMeansFull ==
  ASSUME PoolTypeOK, Exhausted
  PROVE  used = Ports
BY ProbeReachesAll DEF Exhausted, PoolTypeOK

(* A set of naturals that is not empty has a least element: induction over *)
(* the iterations of a loop, as the proofs below use it.                   *)
LEMMA LeastElement ==
  ASSUME NEW T, T \subseteq Nat, T # {}
  PROVE  \E n \in T : \A m \in T : n <= m
<1>1. PICK n \in T : \A m \in T : <<m, n>> \notin OpToRel(<, Nat)
  BY WFMin, NatLessThanWellFounded
<1>2. \A m \in T : ~ (m < n)
  BY <1>1 DEF OpToRel
<1> QED
  BY <1>2

(* Conversely, as long as a port is free the search finds one: the first   *)
(* free port in cyclic order exists, so Allocate's loop returns.           *)
THEOREM FreePortIsFound ==
  ASSUME PoolTypeOK, NEW free \in Ports \ used
  PROVE  \E p \in Ports \ used : \E i \in 0..(PoolSize - 1) :
           p = Probe(i) /\ \A j \in 0..(i - 1) : Probe(j) \in used
<1> DEFINE Hits == {i \in 0..(PoolSize - 1) : Probe(i) \notin used}
<1>1. Hits # {} /\ Hits \subseteq Nat
  BY ProbeReachesAll, PortRange DEF PoolSize
<1>2. PICK i \in Hits : \A j \in Hits : i <= j
  BY <1>1, LeastElement
<1>3. \A j \in 0..(i - 1) : j \in 0..(PoolSize - 1) /\ ~ (i <= j)
  BY <1>1, PortRange DEF PoolSize
<1>4. \A j \in 0..(i - 1) : Probe(j) \in used
  BY <1>2, <1>3
<1> QED
  BY <1>4, ProbeInRange

-----------------------------------------------------------------------------
(* The closed form of the search against the loop of the source.           *)

(* The loop tries the ports in the order of the closed form, and has come  *)
(* round when it has tried them all.                                       *)
LEMMA PositionIsProbe ==
  ASSUME PoolTypeOK, PoolSize > 0
  PROVE  \A i \in 0..PoolSize : SearchPosition[i] = Probe(i)
<1>1. /\ PoolSize \in Nat /\ nextPort \in PortStart..PortEnd
      /\ PoolSize = PortEnd - PortStart + 1
  BY PortRange DEF PoolTypeOK, Ports, PoolSize
<1>2. /\ Probe(0) = nextPort
      /\ \A i \in 0..PoolSize : i # 0 => i - 1 \in 0..PoolSize /\ Probe(i) = After(Probe(i - 1))
  BY <1>1, PortRange DEF Probe, After
<1> DEFINE Step(f) == [i \in 0..PoolSize |-> IF i = 0 THEN nextPort ELSE After(f[i - 1])]
           probes == [i \in 0..PoolSize |-> Probe(i)]
<1>3. probes = Step(probes)
  BY <1>1, <1>2
<1>4. SearchPosition = Step(SearchPosition)
  BY <1>3, Zenon DEF SearchPosition
<1> DEFINE Wrong == {i \in 0..PoolSize : SearchPosition[i] # Probe(i)}
<1>5. Wrong \subseteq Nat
  BY <1>1
<1>6. ASSUME Wrong # {} PROVE FALSE
  <2>1. PICK i \in Wrong : \A j \in Wrong : i <= j
    BY <1>5, <1>6, LeastElement
  <2>2. i # 0
    BY <1>1, <1>2, <1>4
  <2>3. i - 1 \in 0..PoolSize /\ ~ (i <= i - 1)
    BY <1>1, <2>2
  <2>4. SearchPosition[i - 1] = Probe(i - 1)
    BY <2>1, <2>3
  <2>5. SearchPosition[i] = After(SearchPosition[i - 1])
    BY <1>4, <2>1, <2>2
  <2> QED
    BY <1>2, <2>1, <2>2, <2>4, <2>5
<1> QED
  BY <1>6

(* The loop does what its body says in every iteration.                    *)
LEMMA SearchUnfolds ==
  ASSUME PoolTypeOK, PoolSize > 0
  PROVE  \A i \in 0..PoolSize :
           Search[i] =
             IF i = PoolSize THEN [port |-> NoPort, next |-> SearchPosition[i]]
             ELSE IF SearchPosition[i] \notin used
             THEN [port |-> SearchPosition[i], next |-> After(SearchPosition[i])]
             ELSE Search[i + 1]
<1> DEFINE Finish(i) ==
             IF i = PoolSize THEN [port |-> NoPort, next |-> SearchPosition[i]]
             ELSE [port |-> SearchPosition[i], next |-> After(SearchPosition[i])]
           Ends(i) == i = PoolSize \/ SearchPosition[i] \notin used
           Step(f) == [i \in 0..PoolSize |-> IF Ends(i) THEN Finish(i) ELSE f[i + 1]]
           EndOf(i) == CHOOSE e \in i..PoolSize : Ends(e) /\ \A k \in i..(e - 1) : ~ Ends(k)
           ends == [i \in 0..PoolSize |-> Finish(EndOf(i))]
<1>1. PoolSize \in Nat
  BY PortRange DEF PoolSize
<1>2. ASSUME NEW i \in 0..PoolSize
      PROVE  /\ EndOf(i) \in i..PoolSize /\ Ends(EndOf(i))
             /\ \A k \in i..(EndOf(i) - 1) : ~ Ends(k)
  <2> DEFINE T == {e \in i..PoolSize : Ends(e)}
  <2>1. T \subseteq Nat /\ PoolSize \in T
    BY <1>1
  <2>2. PICK e \in T : \A k \in T : e <= k
    BY <2>1, LeastElement
  <2>3. \A k \in i..(e - 1) : k \in i..PoolSize /\ ~ (e <= k)
    BY <1>1, <2>1, <2>2
  <2>4. e \in i..PoolSize /\ Ends(e) /\ \A k \in i..(e - 1) : ~ Ends(k)
    BY <2>2, <2>3
  <2> HIDE DEF Ends
  <2> QED
    BY <2>4, Zenon
<1>3. ASSUME NEW i \in 0..PoolSize
      PROVE  EndOf(i) = IF Ends(i) THEN i ELSE EndOf(i + 1)
  <2> HIDE DEF Ends, EndOf
  <2>1. CASE Ends(i)
    BY <1>1, <1>2, <2>1
  <2>2. CASE ~ Ends(i)
    <3>1. Ends(PoolSize)
      BY DEF Ends
    <3>2. i + 1 \in 0..PoolSize
      BY <1>1, <2>2, <3>1
    <3>3. /\ EndOf(i) \in i..PoolSize /\ Ends(EndOf(i))
          /\ \A k \in i..(EndOf(i) - 1) : ~ Ends(k)
      BY <1>2
    <3>4. /\ EndOf(i + 1) \in (i + 1)..PoolSize /\ Ends(EndOf(i + 1))
          /\ \A k \in (i + 1)..(EndOf(i + 1) - 1) : ~ Ends(k)
      BY <1>2, <3>2
    <3>5. EndOf(i) # i
      BY <2>2, <3>3
    <3>6. ~ (EndOf(i) < EndOf(i + 1)) /\ ~ (EndOf(i + 1) < EndOf(i))
      BY <1>1, <3>3, <3>4, <3>5
    <3> QED
      BY <1>1, <2>2, <3>3, <3>4, <3>6
  <2> QED
    BY <2>1, <2>2
<1>4. ends = Step(ends)
  <2> HIDE DEF Ends, EndOf, Finish
  <2>1. ASSUME NEW i \in 0..PoolSize, ~ Ends(i) PROVE i + 1 \in 0..PoolSize
    BY <1>1, <2>1 DEF Ends
  <2> QED
    BY <1>3, <2>1
<1>5. \A f : Step(f) = [i \in 0..PoolSize |->
               IF i = PoolSize THEN [port |-> NoPort, next |-> SearchPosition[i]]
               ELSE IF SearchPosition[i] \notin used
               THEN [port |-> SearchPosition[i], next |-> After(SearchPosition[i])]
               ELSE f[i + 1]]
  OBVIOUS
<1>6. Search = [i \in 0..PoolSize |->
               IF i = PoolSize THEN [port |-> NoPort, next |-> SearchPosition[i]]
               ELSE IF SearchPosition[i] \notin used
               THEN [port |-> SearchPosition[i], next |-> After(SearchPosition[i])]
               ELSE Search[i + 1]]
  <2> HIDE DEF Step, ends
  <2>1. ends = [i \in 0..PoolSize |->
               IF i = PoolSize THEN [port |-> NoPort, next |-> SearchPosition[i]]
               ELSE IF SearchPosition[i] \notin used
               THEN [port |-> SearchPosition[i], next |-> After(SearchPosition[i])]
               ELSE ends[i + 1]]
    BY <1>4, <1>5
  <2> QED
    BY <2>1, Zenon DEF Search
<1> QED
  BY <1>6

(* The same in the terms of the closed form.                               *)
LEMMA SearchProbes ==
  ASSUME PoolTypeOK, PoolSize > 0
  PROVE  /\ \A i \in 0..(PoolSize - 1) :
              Search[i] = IF Probe(i) \notin used
                          THEN [port |-> Probe(i), next |-> After(Probe(i))]
                          ELSE Search[i + 1]
         /\ Search[PoolSize] = [port |-> NoPort, next |-> nextPort]
<1>1. PoolSize \in Nat
  BY PortRange DEF PoolSize
<1>2. ASSUME NEW i \in 0..(PoolSize - 1)
      PROVE  Search[i] = IF Probe(i) \notin used
                         THEN [port |-> Probe(i), next |-> After(Probe(i))]
                         ELSE Search[i + 1]
  <2>1. i \in 0..PoolSize /\ i # PoolSize
    BY <1>1
  <2>2. SearchPosition[i] = Probe(i)
    BY <2>1, PositionIsProbe
  <2>3. Search[i] = IF SearchPosition[i] \notin used
                    THEN [port |-> SearchPosition[i], next |-> After(SearchPosition[i])]
                    ELSE Search[i + 1]
    BY <2>1, SearchUnfolds, Zenon
  <2> QED
    BY <2>2, <2>3
<1>3. Search[PoolSize] = [port |-> NoPort, next |-> nextPort]
  <2>1. PoolSize \in 0..PoolSize
    BY <1>1
  <2>2. nextPort \in PortStart..PortEnd
    BY PortRange DEF PoolTypeOK, Ports, PoolSize
  <2>3. Probe(PoolSize) = nextPort
    BY <2>2, PortRange DEF Probe, PoolSize
  <2>4. SearchPosition[PoolSize] = nextPort
    BY <2>1, <2>3, PositionIsProbe
  <2>5. Search[PoolSize] = [port |-> NoPort, next |-> SearchPosition[PoolSize]]
    BY <2>1, SearchUnfolds, Zenon
  <2> QED
    BY <2>4, <2>5
<1> QED
  BY <1>2, <1>3

(* The loop ends where the closed form says: at the first free port of the *)
(* search, ...                                                             *)
LEMMA SearchFinds ==
  ASSUME PoolTypeOK, NEW h \in 0..(PoolSize - 1), Probe(h) \notin used,
         \A j \in 0..(h - 1) : Probe(j) \in used
  PROVE  LoopAllocate = [port |-> Probe(h), next |-> After(Probe(h))]
<1>1. PoolSize \in Nat /\ PoolSize > 0 /\ h \in Nat /\ h < PoolSize
  BY PortRange DEF PoolSize
<1>2. \A i \in 0..(h - 1) : i \in 0..(PoolSize - 1)
  BY <1>1
<1>3. \A i \in 0..(h - 1) : Search[i] = Search[i + 1]
  BY <1>1, <1>2, SearchProbes
<1>4. Search[h] = [port |-> Probe(h), next |-> After(Probe(h))]
  BY <1>1, SearchProbes
<1> DEFINE Same == {i \in 0..h : Search[i] = Search[h]}
<1>5. Same \subseteq Nat /\ h \in Same
  BY <1>1
<1>6. PICK i \in Same : \A j \in Same : i <= j
  BY <1>5, LeastElement
<1>7. ASSUME i # 0 PROVE FALSE
  <2>1. i - 1 \in 0..(h - 1) /\ (i - 1) + 1 = i /\ ~ (i <= i - 1)
    BY <1>1, <1>7
  <2>2. Search[i - 1] = Search[i]
    BY <1>3, <2>1
  <2>3. i - 1 \in Same
    BY <1>1, <2>1, <2>2
  <2> QED
    BY <1>6, <2>1, <2>3
<1> QED
  BY <1>4, <1>6, <1>7 DEF LoopAllocate

(* ... or nowhere, and then nextPort is where it was.                      *)
LEMMA SearchFails ==
  ASSUME PoolTypeOK, PoolSize > 0, \A j \in 0..(PoolSize - 1) : Probe(j) \in used
  PROVE  LoopAllocate = [port |-> NoPort, next |-> nextPort]
<1>1. PoolSize \in Nat
  BY PortRange DEF PoolSize
<1>2. \A i \in 0..(PoolSize - 1) : Search[i] = Search[i + 1]
  BY SearchProbes
<1>3. Search[PoolSize] = [port |-> NoPort, next |-> nextPort]
  BY SearchProbes
<1> DEFINE Same == {i \in 0..PoolSize : Search[i] = Search[PoolSize]}
<1>4. Same \subseteq Nat /\ PoolSize \in Same
  BY <1>1
<1>5. PICK i \in Same : \A j \in Same : i <= j
  BY <1>4, LeastElement
<1>6. ASSUME i # 0 PROVE FALSE
  <2>1. i - 1 \in 0..(PoolSize - 1) /\ (i - 1) + 1 = i /\ ~ (i <= i - 1)
    BY <1>1, <1>6
  <2>2. Search[i - 1] = Search[i]
    BY <1>2, <2>1
  <2>3. i - 1 \in Same
    BY <1>1, <2>1, <2>2
  <2> QED
    BY <1>5, <2>1, <2>3
<1> QED
  BY <1>3, <1>5, <1>6 DEF LoopAllocate

(* "port pool exhausted" is what the loop returns exactly in the states    *)
(* and steps of Exhausted, with the round-robin position where it was: it  *)
(* neither gives up early nor misses that nothing is free.                 *)
THEOREM LoopReportsExhaustion ==
  ASSUME PoolTypeOK, PoolSize > 0, UNCHANGED poolVars
  PROVE  /\ Exhausted <=> LoopAllocate.port = NoPort
         /\ Exhausted => LoopAllocate.next = nextPort
<1>1. ASSUME Exhausted PROVE LoopAllocate = [port |-> NoPort, next |-> nextPort]
  BY <1>1, SearchFails DEF Exhausted
<1>2. ASSUME ~ Exhausted PROVE LoopAllocate.port # NoPort
  <2> DEFINE Hits == {i \in 0..(PoolSize - 1) : Probe(i) \notin used}
  <2>1. Hits # {} /\ Hits \subseteq Nat
    BY <1>2, PortRange DEF Exhausted, PoolSize
  <2>2. PICK h \in Hits : \A j \in Hits : h <= j
    BY <2>1, LeastElement
  <2>3. \A j \in 0..(h - 1) : j \in 0..(PoolSize - 1) /\ ~ (h <= j)
    BY <2>1, PortRange DEF PoolSize
  <2>4. \A j \in 0..(h - 1) : Probe(j) \in used
    BY <2>2, <2>3
  <2>5. LoopAllocate = [port |-> Probe(h), next |-> After(Probe(h))]
    BY <2>4, SearchFinds
  <2>6. Probe(h) # NoPort
    BY ProbeInRange, NoPortAssumption
  <2> QED
    BY <2>5, <2>6
<1> QED
  BY <1>1, <1>2

(* Every allocation takes the port the loop of the source would have       *)
(* returned and leaves the search where the loop leaves it.                *)
THEOREM ClosedFormIsLoop == PoolSpec => AllocationFollowsLoop
<1> DEFINE A == used' \ used # {} =>
                  used' \ used = {LoopAllocate.port} /\ nextPort' = LoopAllocate.next
<1>1. PoolTypeOK /\ [PoolNext]_poolVars => [A]_poolVars
  <2> SUFFICES ASSUME PoolTypeOK, PoolNext, used' \ used # {}
               PROVE  used' \ used = {LoopAllocate.port} /\ nextPort' = LoopAllocate.next
    BY DEF poolVars
  <2>1. PICK holder \in Holders, p \in Ports : Allocate(holder, p)
    BY DEF PoolNext, Exhausted, Release, poolVars
  <2>2. PICK h \in 0..(PoolSize - 1) :
          p = Probe(h) /\ p \notin used /\ \A j \in 0..(h - 1) : Probe(j) \in used
    BY <2>1 DEF Allocate
  <2>3. LoopAllocate = [port |-> p, next |-> After(p)]
    BY <2>2, SearchFinds
  <2> QED
    BY <2>1, <2>2, <2>3 DEF Allocate
<1>2. PoolSpec => [](PoolTypeOK /\ UsedIsBound)
  BY PoolCorrect
<1> QED
  BY <1>1, <1>2, PTL DEF PoolSpec, AllocationFollowsLoop
=============================================================================
