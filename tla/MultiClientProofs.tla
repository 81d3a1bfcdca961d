-------------------------- MODULE MultiClientProofs --------------------------
(***************************************************************************)
(* Proofs about the multi-port manager, for any number of device names,    *)
(* clients and threads of the host.                                        *)
(***************************************************************************)
EXTENDS MultiClient, TLAPS

USE DEF vars, table, objects, lives

-----------------------------------------------------------------------------
(* One lemma per action, one step per conjunct of the invariant.           *)

(* A new manager.                                                          *)
LEMMA InitializeKeeps ==
  ASSUME IInv, NEW t \in Threads, Initialize(t)
  PROVE  IInv'
<1>1. TypeOK'
  BY NoneIsNothing DEF Initialize, IInv, TypeOK, Bookkeeping
<1>2. Bookkeeping'
  BY NoneIsNothing DEF Initialize, IInv, TypeOK, Bookkeeping
<1>3. ListedIsServed'
  BY NoneIsNothing DEF Initialize, IInv, TypeOK, Bookkeeping, ListedIsServed
<1>4. LostOnlyByDelete'
  BY NoneIsNothing DEF Initialize, IInv, TypeOK, Bookkeeping, ListedIsServed,
     LostOnlyByDelete
<1>5. GoneIsNotConnecting'
  BY NoneIsNothing DEF Initialize, IInv, TypeOK, Bookkeeping,
     GoneIsNotConnecting
<1>6. StoppedOnce'
  BY NoneIsNothing DEF Initialize, IInv, TypeOK, Bookkeeping, ListedIsServed,
     StoppedOnce
<1>7. OwnGoroutine' /\ AwaitedWillEnd'
  BY NoneIsNothing DEF Initialize, IInv, TypeOK, Bookkeeping, OwnGoroutine,
     AwaitedWillEnd
<1> QED
  BY <1>1, <1>2, <1>3, <1>4, <1>5, <1>6, <1>7 DEF IInv

(* A client that nothing refers to enters the map.                         *)
LEMMA AddPortKeeps ==
  ASSUME IInv, NEW t \in Threads, NEW n \in Names, NEW k \in Clients,
         AddPort(t, n, k)
  PROVE  IInv'
<1>1. TypeOK'
  BY NoneIsNothing DEF AddPort, NewClient, IInv, TypeOK, Bookkeeping
<1>2. Bookkeeping'
  BY NoneIsNothing DEF AddPort, NewClient, IInv, TypeOK, Bookkeeping
<1>3. ListedIsServed'
  BY NoneIsNothing DEF AddPort, NewClient, IInv, TypeOK, Bookkeeping,
     ListedIsServed
<1>4. LostOnlyByDelete'
  BY NoneIsNothing DEF AddPort, NewClient, IInv, TypeOK, Bookkeeping,
     ListedIsServed, LostOnlyByDelete
<1>5. GoneIsNotConnecting'
  BY NoneIsNothing DEF AddPort, NewClient, IInv, TypeOK, Bookkeeping,
     GoneIsNotConnecting
<1>6. StoppedOnce'
  BY NoneIsNothing DEF AddPort, NewClient, IInv, TypeOK, Bookkeeping,
     ListedIsServed, StoppedOnce
<1>7. OwnGoroutine' /\ AwaitedWillEnd'
  BY NoneIsNothing DEF AddPort, NewClient, IInv, TypeOK, Bookkeeping,
     OwnGoroutine, AwaitedWillEnd
<1> QED
  BY <1>1, <1>2, <1>3, <1>4, <1>5, <1>6, <1>7 DEF IInv

(* A name that is taken is refused, ...                                    *)
LEMMA AddPortFailsKeeps ==
  ASSUME IInv, NEW t \in Threads, NEW n \in Names, AddPortFails(t, n)
  PROVE  IInv'
<1>1. TypeOK'
  BY NoneIsNothing DEF AddPortFails, ThreadGoes, IInv, TypeOK, Bookkeeping
<1>2. Bookkeeping'
  BY NoneIsNothing DEF AddPortFails, ThreadGoes, IInv, TypeOK, Bookkeeping
<1>3. ListedIsServed'
  BY NoneIsNothing DEF AddPortFails, ThreadGoes, IInv, TypeOK, Bookkeeping,
     ListedIsServed
<1>4. LostOnlyByDelete'
  BY NoneIsNothing DEF AddPortFails, ThreadGoes, IInv, TypeOK, Bookkeeping,
     ListedIsServed, LostOnlyByDelete
<1>5. GoneIsNotConnecting'
  BY NoneIsNothing DEF AddPortFails, ThreadGoes, IInv, TypeOK, Bookkeeping,
     GoneIsNotConnecting
<1>6. StoppedOnce'
  BY NoneIsNothing DEF AddPortFails, ThreadGoes, IInv, TypeOK, Bookkeeping,
     ListedIsServed, StoppedOnce
<1>7. OwnGoroutine' /\ AwaitedWillEnd'
  BY NoneIsNothing DEF AddPortFails, ThreadGoes, IInv, TypeOK, Bookkeeping,
     OwnGoroutine, AwaitedWillEnd
<1> QED
  BY <1>1, <1>2, <1>3, <1>4, <1>5, <1>6, <1>7 DEF IInv

(* ... and the host is told.                                               *)
LEMMA TellErrorKeeps ==
  ASSUME IInv, NEW t \in Threads, TellError(t)
  PROVE  IInv'
<1>1. TypeOK'
  BY NoneIsNothing DEF TellError, ThreadGoes, Idle, Tells, IInv, TypeOK,
     Bookkeeping
<1>2. Bookkeeping'
  BY NoneIsNothing DEF TellError, ThreadGoes, Idle, Tells, IInv, TypeOK,
     Bookkeeping
<1>3. ListedIsServed'
  BY NoneIsNothing DEF TellError, ThreadGoes, Idle, Tells, IInv, TypeOK,
     Bookkeeping, ListedIsServed
<1>4. LostOnlyByDelete'
  BY NoneIsNothing DEF TellError, ThreadGoes, Idle, Tells, IInv, TypeOK,
     Bookkeeping, ListedIsServed, LostOnlyByDelete
<1>5. GoneIsNotConnecting'
  BY NoneIsNothing DEF TellError, ThreadGoes, Idle, Tells, IInv, TypeOK,
     Bookkeeping, GoneIsNotConnecting
<1>6. StoppedOnce'
  BY NoneIsNothing DEF TellError, ThreadGoes, Idle, Tells, IInv, TypeOK,
     Bookkeeping, ListedIsServed,
     StoppedOnce
<1>7. OwnGoroutine' /\ AwaitedWillEnd'
  BY NoneIsNothing DEF TellError, ThreadGoes, Idle, Tells, IInv, TypeOK,
     Bookkeeping, OwnGoroutine,
     AwaitedWillEnd
<1> QED
  BY <1>1, <1>2, <1>3, <1>4, <1>5, <1>6, <1>7 DEF IInv

(* The entry leaves the map for the list of the call.                      *)
LEMMA RemovePortKeeps ==
  ASSUME IInv, NEW t \in Threads, NEW n \in Names, RemovePort(t, n)
  PROVE  IInv'
<1>1. TypeOK'
  BY NoneIsNothing DEF RemovePort, ThreadGoes, IInv, TypeOK, Bookkeeping
<1>2. Bookkeeping'
  BY NoneIsNothing DEF RemovePort, ThreadGoes, IInv, TypeOK, Bookkeeping
<1>3. ListedIsServed'
  BY NoneIsNothing DEF RemovePort, ThreadGoes, IInv, TypeOK, Bookkeeping,
     ListedIsServed
<1>4. LostOnlyByDelete'
  BY NoneIsNothing DEF RemovePort, ThreadGoes, IInv, TypeOK, Bookkeeping,
     ListedIsServed, LostOnlyByDelete
<1>5. GoneIsNotConnecting'
  BY NoneIsNothing DEF RemovePort, ThreadGoes, IInv, TypeOK, Bookkeeping,
     GoneIsNotConnecting
<1>6. StoppedOnce'
  BY NoneIsNothing DEF RemovePort, ThreadGoes, IInv, TypeOK, Bookkeeping,
     ListedIsServed, StoppedOnce
<1>7. OwnGoroutine' /\ AwaitedWillEnd'
  BY NoneIsNothing DEF RemovePort, ThreadGoes, IInv, TypeOK, Bookkeeping,
     OwnGoroutine, AwaitedWillEnd
<1> QED
  BY <1>1, <1>2, <1>3, <1>4, <1>5, <1>6, <1>7 DEF IInv

(* Only clients outside the map are stopped.                               *)
LEMMA BeginStopOfKeeps ==
  ASSUME IInv, NEW t \in Threads, NEW k \in Clients, BeginStopOf(t, k)
  PROVE  IInv'
<1>1. TypeOK'
  BY NoneIsNothing DEF BeginStopOf, Life!Ask, Life!Halts, IInv, TypeOK,
     Bookkeeping
<1>2. Bookkeeping'
  BY NoneIsNothing DEF BeginStopOf, Life!Ask, Life!Halts, IInv, TypeOK,
     Bookkeeping
<1>3. ListedIsServed'
  BY NoneIsNothing DEF BeginStopOf, Life!Ask, Life!Halts, IInv, TypeOK,
     Bookkeeping, ListedIsServed
<1>4. LostOnlyByDelete'
  BY NoneIsNothing DEF BeginStopOf, Life!Ask, Life!Halts, IInv, TypeOK,
     Bookkeeping, ListedIsServed, LostOnlyByDelete
<1>5. GoneIsNotConnecting'
  BY NoneIsNothing DEF BeginStopOf, Life!Ask, Life!Halts, IInv, TypeOK,
     Bookkeeping, GoneIsNotConnecting
<1>6. StoppedOnce'
  BY NoneIsNothing DEF BeginStopOf, Life!Ask, Life!Halts, IInv, TypeOK,
     Bookkeeping, ListedIsServed,
     StoppedOnce
<1>7. OwnGoroutine' /\ AwaitedWillEnd'
  BY NoneIsNothing DEF BeginStopOf, Life!Ask, Life!Halts, IInv, TypeOK,
     Bookkeeping, OwnGoroutine,
     AwaitedWillEnd
<1> QED
  BY <1>1, <1>2, <1>3, <1>4, <1>5, <1>6, <1>7 DEF IInv

(* Only clients outside the map are stopped.                               *)
LEMMA ContinueStopOfKeeps ==
  ASSUME IInv, NEW t \in Threads, NEW k \in Clients, ContinueStopOf(t, k)
  PROVE  IInv'
<1>1. TypeOK'
  BY NoneIsNothing DEF ContinueStopOf, Life!StopStep, Life!Look, Life!Return,
     Life!Halts, IInv, TypeOK, Bookkeeping
<1>2. Bookkeeping'
  BY NoneIsNothing DEF ContinueStopOf, Life!StopStep, Life!Look, Life!Return,
     Life!Halts, IInv, TypeOK, Bookkeeping
<1>3. ListedIsServed'
  BY NoneIsNothing DEF ContinueStopOf, Life!StopStep, Life!Look, Life!Return,
     Life!Halts, IInv, TypeOK, Bookkeeping, ListedIsServed
<1>4. LostOnlyByDelete'
  BY NoneIsNothing DEF ContinueStopOf, Life!StopStep, Life!Look, Life!Return,
     Life!Halts, IInv, TypeOK, Bookkeeping, ListedIsServed, LostOnlyByDelete
<1>5. GoneIsNotConnecting'
  BY NoneIsNothing DEF ContinueStopOf, Life!StopStep, Life!Look, Life!Return,
     Life!Halts, IInv, TypeOK, Bookkeeping, GoneIsNotConnecting
<1>6. StoppedOnce'
  BY NoneIsNothing DEF ContinueStopOf, Life!StopStep, Life!Look, Life!Return,
     Life!Halts, IInv, TypeOK, Bookkeeping, ListedIsServed,
     StoppedOnce
<1>7. OwnGoroutine' /\ AwaitedWillEnd'
  BY NoneIsNothing DEF ContinueStopOf, Life!StopStep, Life!Look, Life!Return,
     Life!Halts, IInv, TypeOK, Bookkeeping, OwnGoroutine,
     AwaitedWillEnd
<1> QED
  BY <1>1, <1>2, <1>3, <1>4, <1>5, <1>6, <1>7 DEF IInv

(* A client leaves the list of a call only when its Stop has returned.     *)
LEMMA EndStopOfKeeps ==
  ASSUME IInv, NEW t \in Threads, NEW k \in Clients, EndStopOf(t, k)
  PROVE  IInv'
<1>1. TypeOK'
  BY NoneIsNothing DEF EndStopOf, IInv, TypeOK, Bookkeeping
<1>2. Bookkeeping'
  BY NoneIsNothing DEF EndStopOf, IInv, TypeOK, Bookkeeping
<1>3. ListedIsServed'
  BY NoneIsNothing DEF EndStopOf, IInv, TypeOK, Bookkeeping, ListedIsServed
<1>4. LostOnlyByDelete'
  BY NoneIsNothing DEF EndStopOf, IInv, TypeOK, Bookkeeping, ListedIsServed,
     LostOnlyByDelete
<1>5. GoneIsNotConnecting'
  BY NoneIsNothing DEF EndStopOf, IInv, TypeOK, Bookkeeping,
     GoneIsNotConnecting
<1>6. StoppedOnce'
  BY NoneIsNothing DEF EndStopOf, IInv, TypeOK, Bookkeeping, ListedIsServed,
     StoppedOnce
<1>7. OwnGoroutine' /\ AwaitedWillEnd'
  BY NoneIsNothing DEF EndStopOf, IInv, TypeOK, Bookkeeping, OwnGoroutine,
     AwaitedWillEnd
<1> QED
  BY <1>1, <1>2, <1>3, <1>4, <1>5, <1>6, <1>7 DEF IInv

(* "disconnected" replaces what the host was shown.                        *)
LEMMA RemoveReturnsKeeps ==
  ASSUME IInv, NEW t \in Threads, RemoveReturns(t)
  PROVE  IInv'
<1>1. TypeOK'
  BY NoneIsNothing DEF RemoveReturns, ThreadGoes, Idle, Tells, IInv, TypeOK,
     Bookkeeping
<1>2. Bookkeeping'
  BY NoneIsNothing DEF RemoveReturns, ThreadGoes, Idle, Tells, IInv, TypeOK,
     Bookkeeping
<1>3. ListedIsServed'
  BY NoneIsNothing DEF RemoveReturns, ThreadGoes, Idle, Tells, IInv, TypeOK,
     Bookkeeping, ListedIsServed
<1>4. LostOnlyByDelete'
  BY NoneIsNothing DEF RemoveReturns, ThreadGoes, Idle, Tells, IInv, TypeOK,
     Bookkeeping, ListedIsServed, LostOnlyByDelete
<1>5. GoneIsNotConnecting'
  BY NoneIsNothing DEF RemoveReturns, ThreadGoes, Idle, Tells, IInv, TypeOK,
     Bookkeeping, GoneIsNotConnecting
<1>6. StoppedOnce'
  BY NoneIsNothing DEF RemoveReturns, ThreadGoes, Idle, Tells, IInv, TypeOK,
     Bookkeeping, ListedIsServed,
     StoppedOnce
<1>7. OwnGoroutine' /\ AwaitedWillEnd'
  BY NoneIsNothing DEF RemoveReturns, ThreadGoes, Idle, Tells, IInv, TypeOK,
     Bookkeeping, OwnGoroutine,
     AwaitedWillEnd
<1> QED
  BY <1>1, <1>2, <1>3, <1>4, <1>5, <1>6, <1>7 DEF IInv

(* Stop waits for the lock.                                                *)
LEMMA StopWaitsForLockKeeps ==
  ASSUME IInv, NEW t \in Threads, StopWaitsForLock(t)
  PROVE  IInv'
<1>1. TypeOK'
  BY NoneIsNothing DEF StopWaitsForLock, ThreadGoes, IInv, TypeOK, Bookkeeping
<1>2. Bookkeeping'
  BY NoneIsNothing DEF StopWaitsForLock, ThreadGoes, IInv, TypeOK, Bookkeeping
<1>3. ListedIsServed'
  BY NoneIsNothing DEF StopWaitsForLock, ThreadGoes, IInv, TypeOK, Bookkeeping,
     ListedIsServed
<1>4. LostOnlyByDelete'
  BY NoneIsNothing DEF StopWaitsForLock, ThreadGoes, IInv, TypeOK, Bookkeeping,
     ListedIsServed, LostOnlyByDelete
<1>5. GoneIsNotConnecting'
  BY NoneIsNothing DEF StopWaitsForLock, ThreadGoes, IInv, TypeOK, Bookkeeping,
     GoneIsNotConnecting
<1>6. StoppedOnce'
  BY NoneIsNothing DEF StopWaitsForLock, ThreadGoes, IInv, TypeOK, Bookkeeping,
     ListedIsServed, StoppedOnce
<1>7. OwnGoroutine' /\ AwaitedWillEnd'
  BY NoneIsNothing DEF StopWaitsForLock, ThreadGoes, IInv, TypeOK, Bookkeeping,
     OwnGoroutine, AwaitedWillEnd
<1> QED
  BY <1>1, <1>2, <1>3, <1>4, <1>5, <1>6, <1>7 DEF IInv

(* There is no manager to stop.                                            *)
LEMMA StopNothingKeeps ==
  ASSUME IInv, NEW t \in Threads, StopNothing(t)
  PROVE  IInv'
<1>1. TypeOK'
  BY NoneIsNothing DEF StopNothing, ThreadGoes, Idle, IInv, TypeOK, Bookkeeping
<1>2. Bookkeeping'
  BY NoneIsNothing DEF StopNothing, ThreadGoes, Idle, IInv, TypeOK, Bookkeeping
<1>3. ListedIsServed'
  BY NoneIsNothing DEF StopNothing, ThreadGoes, Idle, IInv, TypeOK,
     Bookkeeping, ListedIsServed
<1>4. LostOnlyByDelete'
  BY NoneIsNothing DEF StopNothing, ThreadGoes, Idle, IInv, TypeOK,
     Bookkeeping, ListedIsServed, LostOnlyByDelete
<1>5. GoneIsNotConnecting'
  BY NoneIsNothing DEF StopNothing, ThreadGoes, Idle, IInv, TypeOK,
     Bookkeeping, GoneIsNotConnecting
<1>6. StoppedOnce'
  BY NoneIsNothing DEF StopNothing, ThreadGoes, Idle, IInv, TypeOK,
     Bookkeeping, ListedIsServed,
     StoppedOnce
<1>7. OwnGoroutine' /\ AwaitedWillEnd'
  BY NoneIsNothing DEF StopNothing, ThreadGoes, Idle, IInv, TypeOK,
     Bookkeeping, OwnGoroutine,
     AwaitedWillEnd
<1> QED
  BY <1>1, <1>2, <1>3, <1>4, <1>5, <1>6, <1>7 DEF IInv

(* Everything in the map goes to the list of the call.                     *)
LEMMA StopCollectsKeeps ==
  ASSUME IInv, NEW t \in Threads, StopCollects(t)
  PROVE  IInv'
<1>1. TypeOK'
  BY NoneIsNothing DEF StopCollects, ThreadGoes, Listed, IInv, TypeOK,
     Bookkeeping
<1>2. Bookkeeping'
  BY NoneIsNothing DEF StopCollects, ThreadGoes, Listed, IInv, TypeOK,
     Bookkeeping
<1>3. ListedIsServed'
  BY NoneIsNothing DEF StopCollects, ThreadGoes, Listed, IInv, TypeOK,
     Bookkeeping, ListedIsServed
<1>4. LostOnlyByDelete'
  BY NoneIsNothing DEF StopCollects, ThreadGoes, Listed, IInv, TypeOK,
     Bookkeeping, ListedIsServed, LostOnlyByDelete
<1>5. GoneIsNotConnecting'
  BY NoneIsNothing DEF StopCollects, ThreadGoes, Listed, IInv, TypeOK,
     Bookkeeping, GoneIsNotConnecting
<1>6. StoppedOnce'
  BY NoneIsNothing DEF StopCollects, ThreadGoes, Listed, IInv, TypeOK,
     Bookkeeping, ListedIsServed,
     StoppedOnce
<1>7. OwnGoroutine' /\ AwaitedWillEnd'
  BY NoneIsNothing DEF StopCollects, ThreadGoes, Listed, IInv, TypeOK,
     Bookkeeping, OwnGoroutine,
     AwaitedWillEnd
<1> QED
  BY <1>1, <1>2, <1>3, <1>4, <1>5, <1>6, <1>7 DEF IInv

(* Stop has nothing left to stop.                                          *)
LEMMA StopReturnsKeeps ==
  ASSUME IInv, NEW t \in Threads, StopReturns(t)
  PROVE  IInv'
<1>1. TypeOK'
  BY NoneIsNothing DEF StopReturns, ThreadGoes, Idle, IInv, TypeOK, Bookkeeping
<1>2. Bookkeeping'
  BY NoneIsNothing DEF StopReturns, ThreadGoes, Idle, IInv, TypeOK, Bookkeeping
<1>3. ListedIsServed'
  BY NoneIsNothing DEF StopReturns, ThreadGoes, Idle, IInv, TypeOK,
     Bookkeeping, ListedIsServed
<1>4. LostOnlyByDelete'
  BY NoneIsNothing DEF StopReturns, ThreadGoes, Idle, IInv, TypeOK,
     Bookkeeping, ListedIsServed, LostOnlyByDelete
<1>5. GoneIsNotConnecting'
  BY NoneIsNothing DEF StopReturns, ThreadGoes, Idle, IInv, TypeOK,
     Bookkeeping, GoneIsNotConnecting
<1>6. StoppedOnce'
  BY NoneIsNothing DEF StopReturns, ThreadGoes, Idle, IInv, TypeOK,
     Bookkeeping, ListedIsServed,
     StoppedOnce
<1>7. OwnGoroutine' /\ AwaitedWillEnd'
  BY NoneIsNothing DEF StopReturns, ThreadGoes, Idle, IInv, TypeOK,
     Bookkeeping, OwnGoroutine,
     AwaitedWillEnd
<1> QED
  BY <1>1, <1>2, <1>3, <1>4, <1>5, <1>6, <1>7 DEF IInv

(* The client behind the report is there.                                  *)
LEMMA TellConnectingKeeps ==
  ASSUME IInv, NEW k \in Clients, TellConnecting(k)
  PROVE  IInv'
<1>1. TypeOK'
  BY NoneIsNothing DEF TellConnecting, GorGoes, Tells, IInv, TypeOK,
     Bookkeeping
<1>2. Bookkeeping'
  BY NoneIsNothing DEF TellConnecting, GorGoes, Tells, IInv, TypeOK,
     Bookkeeping
<1>3. ListedIsServed'
  BY NoneIsNothing DEF TellConnecting, GorGoes, Tells, IInv, TypeOK,
     Bookkeeping, ListedIsServed
<1>4. LostOnlyByDelete'
  BY NoneIsNothing DEF TellConnecting, GorGoes, Tells, IInv, TypeOK,
     Bookkeeping, ListedIsServed, LostOnlyByDelete
<1>5. GoneIsNotConnecting'
  BY NoneIsNothing DEF TellConnecting, GorGoes, Tells, IInv, TypeOK,
     Bookkeeping, GoneIsNotConnecting
<1>6. StoppedOnce'
  BY NoneIsNothing DEF TellConnecting, GorGoes, Tells, IInv, TypeOK,
     Bookkeeping, ListedIsServed,
     StoppedOnce
<1>7. OwnGoroutine' /\ AwaitedWillEnd'
  BY NoneIsNothing DEF TellConnecting, GorGoes, Tells, IInv, TypeOK,
     Bookkeeping, OwnGoroutine,
     AwaitedWillEnd
<1> QED
  BY <1>1, <1>2, <1>3, <1>4, <1>5, <1>6, <1>7 DEF IInv

(* A listed client starts to serve.                                        *)
LEMMA StartKeeps ==
  ASSUME IInv, NEW k \in Clients, Start(k)
  PROVE  IInv'
<1>1. TypeOK'
  BY NoneIsNothing DEF Start, GorGoes, Life!Start, Life!Lives, IInv, TypeOK,
     Bookkeeping
<1>2. Bookkeeping'
  BY NoneIsNothing DEF Start, GorGoes, Life!Start, Life!Lives, IInv, TypeOK,
     Bookkeeping
<1>3. ListedIsServed'
  BY NoneIsNothing DEF Start, GorGoes, Life!Start, Life!Lives, IInv, TypeOK,
     Bookkeeping, ListedIsServed
<1>4. LostOnlyByDelete'
  BY NoneIsNothing DEF Start, GorGoes, Life!Start, Life!Lives, IInv, TypeOK,
     Bookkeeping, ListedIsServed, LostOnlyByDelete
<1>5. GoneIsNotConnecting'
  BY NoneIsNothing DEF Start, GorGoes, Life!Start, Life!Lives, IInv, TypeOK,
     Bookkeeping, GoneIsNotConnecting
<1>6. StoppedOnce'
  BY NoneIsNothing DEF Start, GorGoes, Life!Start, Life!Lives, IInv, TypeOK,
     Bookkeeping, ListedIsServed,
     StoppedOnce
<1>7. OwnGoroutine' /\ AwaitedWillEnd'
  BY NoneIsNothing DEF Start, GorGoes, Life!Start, Life!Lives, IInv, TypeOK,
     Bookkeeping, OwnGoroutine,
     AwaitedWillEnd
<1> QED
  BY <1>1, <1>2, <1>3, <1>4, <1>5, <1>6, <1>7 DEF IInv

(* Start returns for a client that was stopped, so it is not in the map.   *)
LEMMA StartReturnsKeeps ==
  ASSUME IInv, NEW k \in Clients, StartReturns(k)
  PROVE  IInv'
<1>1. TypeOK'
  BY NoneIsNothing DEF StartReturns, GorGoes, Life!Finish, Life!Lives, IInv,
     TypeOK, Bookkeeping
<1>2. Bookkeeping'
  BY NoneIsNothing DEF StartReturns, GorGoes, Life!Finish, Life!Lives, IInv,
     TypeOK, Bookkeeping
<1>3. ListedIsServed'
  BY NoneIsNothing DEF StartReturns, GorGoes, Life!Finish, Life!Lives, IInv,
     TypeOK, Bookkeeping, ListedIsServed
<1>4. LostOnlyByDelete'
  BY NoneIsNothing DEF StartReturns, GorGoes, Life!Finish, Life!Lives, IInv,
     TypeOK, Bookkeeping, ListedIsServed, LostOnlyByDelete
<1>5. GoneIsNotConnecting'
  BY NoneIsNothing DEF StartReturns, GorGoes, Life!Finish, Life!Lives, IInv,
     TypeOK, Bookkeeping, GoneIsNotConnecting
<1>6. StoppedOnce'
  BY NoneIsNothing DEF StartReturns, GorGoes, Life!Finish, Life!Lives, IInv,
     TypeOK, Bookkeeping, ListedIsServed,
     StoppedOnce
<1>7. OwnGoroutine' /\ AwaitedWillEnd'
  BY NoneIsNothing DEF StartReturns, GorGoes, Life!Finish, Life!Lives, IInv,
     TypeOK, Bookkeeping, OwnGoroutine,
     AwaitedWillEnd
<1> QED
  BY <1>1, <1>2, <1>3, <1>4, <1>5, <1>6, <1>7 DEF IInv

(* The last report of a client replaces what the host was shown.           *)
LEMMA TellDisconnectedKeeps ==
  ASSUME IInv, NEW k \in Clients, TellDisconnected(k)
  PROVE  IInv'
<1>1. TypeOK'
  BY NoneIsNothing DEF TellDisconnected, GorGoes, Tells, IInv, TypeOK,
     Bookkeeping
<1>2. Bookkeeping'
  BY NoneIsNothing DEF TellDisconnected, GorGoes, Tells, IInv, TypeOK,
     Bookkeeping
<1>3. ListedIsServed'
  BY NoneIsNothing DEF TellDisconnected, GorGoes, Tells, IInv, TypeOK,
     Bookkeeping, ListedIsServed
<1>4. LostOnlyByDelete'
  BY NoneIsNothing DEF TellDisconnected, GorGoes, Tells, IInv, TypeOK,
     Bookkeeping, ListedIsServed, LostOnlyByDelete
<1>5. GoneIsNotConnecting'
  BY NoneIsNothing DEF TellDisconnected, GorGoes, Tells, IInv, TypeOK,
     Bookkeeping, GoneIsNotConnecting
<1>6. StoppedOnce'
  BY NoneIsNothing DEF TellDisconnected, GorGoes, Tells, IInv, TypeOK,
     Bookkeeping, ListedIsServed,
     StoppedOnce
<1>7. OwnGoroutine' /\ AwaitedWillEnd'
  BY NoneIsNothing DEF TellDisconnected, GorGoes, Tells, IInv, TypeOK,
     Bookkeeping, OwnGoroutine,
     AwaitedWillEnd
<1> QED
  BY <1>1, <1>2, <1>3, <1>4, <1>5, <1>6, <1>7 DEF IInv

(* Whoever is in the map under the name is recorded as displaced.          *)
LEMMA DeleteEntryKeeps ==
  ASSUME IInv, NEW k \in Clients, DeleteEntry(k)
  PROVE  IInv'
<1>1. TypeOK'
  BY NoneIsNothing DEF DeleteEntry, GorGoes, IInv, TypeOK, Bookkeeping
<1>2. Bookkeeping'
  BY NoneIsNothing DEF DeleteEntry, GorGoes, IInv, TypeOK, Bookkeeping
<1>3. ListedIsServed'
  BY NoneIsNothing DEF DeleteEntry, GorGoes, IInv, TypeOK, Bookkeeping,
     ListedIsServed
<1>4. LostOnlyByDelete'
  BY NoneIsNothing DEF DeleteEntry, GorGoes, IInv, TypeOK, Bookkeeping,
     ListedIsServed, LostOnlyByDelete
<1>5. GoneIsNotConnecting'
  BY NoneIsNothing DEF DeleteEntry, GorGoes, IInv, TypeOK, Bookkeeping,
     GoneIsNotConnecting
<1>6. StoppedOnce'
  BY NoneIsNothing DEF DeleteEntry, GorGoes, IInv, TypeOK, Bookkeeping,
     ListedIsServed, StoppedOnce
<1>7. OwnGoroutine' /\ AwaitedWillEnd'
  BY NoneIsNothing DEF DeleteEntry, GorGoes, IInv, TypeOK, Bookkeeping,
     OwnGoroutine, AwaitedWillEnd
<1> QED
  BY <1>1, <1>2, <1>3, <1>4, <1>5, <1>6, <1>7 DEF IInv

-----------------------------------------------------------------------------
(* No manager, no client.                                                  *)
LEMMA Initially == Init => IInv
BY NoneIsNothing DEF Init, Idle, Life!LifeInit, IInv, TypeOK, Bookkeeping,
   ListedIsServed, LostOnlyByDelete, GoneIsNotConnecting, StoppedOnce,
   OwnGoroutine, AwaitedWillEnd

(* Every call and every goroutine keeps the invariant.                     *)
LEMMA Preserved == IInv /\ [Next]_vars => IInv'
<1> SUFFICES ASSUME IInv, [Next]_vars PROVE IInv'
  OBVIOUS
<1>1. ASSUME NEW t \in Threads, HostCall(t) PROVE IInv'
  BY <1>1, InitializeKeeps, AddPortKeeps, AddPortFailsKeeps,
     RemovePortKeeps, StopWaitsForLockKeeps DEF HostCall
<1>2. ASSUME NEW t \in Threads, ThreadStep(t) PROVE IInv'
  BY <1>2, TellErrorKeeps, RemoveReturnsKeeps, StopNothingKeeps,
     StopCollectsKeeps, StopReturnsKeeps, BeginStopOfKeeps,
     ContinueStopOfKeeps, EndStopOfKeeps DEF ThreadStep
<1>3. ASSUME NEW k \in Clients, GorStep(k) PROVE IInv'
  BY <1>3, TellConnectingKeeps, StartKeeps, StartReturnsKeeps,
     TellDisconnectedKeeps, DeleteEntryKeeps DEF GorStep
<1>4. CASE UNCHANGED vars
  BY <1>4 DEF IInv, TypeOK, Bookkeeping, ListedIsServed, LostOnlyByDelete,
     GoneIsNotConnecting, StoppedOnce, OwnGoroutine, AwaitedWillEnd
<1> QED
  BY <1>1, <1>2, <1>3, <1>4 DEF Next

(* The invariant holds in every reachable state.                           *)
THEOREM MultiClientInductive == Spec => []IInv
BY Initially, Preserved, PTL DEF Spec

(* What GetPorts lists is served and nobody is stopping it, for any        *)
(* overlap of removals, additions and goroutines that end late; and a      *)
(* client nobody has told to stop is lost to the manager in one way only,  *)
(* by the delete of a predecessor of the same name.                        *)
THEOREM ManagerKnowsItsClients == Spec => []MapTracksClients
<1>1. IInv => MapTracksClients
  BY DEF IInv, MapTracksClients
<1> QED
  BY <1>1, MultiClientInductive, PTL

(* No client is stopped by two calls, and no call waits for a client that  *)
(* cannot end: what is left of CallsReturn without fairness.               *)
THEOREM NobodyAwaitedInVain == Spec => []StopsOnceAndEnds
<1>1. IInv => StopsOnceAndEnds
  BY DEF IInv, StopsOnceAndEnds
<1> QED
  BY <1>1, MultiClientInductive, PTL

(* A name the host sees as "connecting" has a client whose last report is  *)
(* still to come.                                                          *)
THEOREM ConnectingIsThere == Spec => []GoneIsNotConnecting
<1>1. IInv => GoneIsNotConnecting
  BY DEF IInv
<1> QED
  BY <1>1, MultiClientInductive, PTL
=============================================================================
