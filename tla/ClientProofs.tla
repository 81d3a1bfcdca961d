---------------------------- MODULE ClientProofs ----------------------------
(***************************************************************************)
(* Proofs about one client, for any number of sessions and streams.        *)
(***************************************************************************)
EXTENDS Client, TLAPS

USE DEF vars, streams, hearts, stopping

-----------------------------------------------------------------------------
(* One lemma per group of actions.                                         *)

(* Start's goroutine outside of run: dial and register.                    *)
LEMMA RegisterSteps ==
  ASSUME IInv,
         \/ Start \/ Poll \/ DialFails \/ SetConn \/ SendRegister
         \/ AwaitAnswer \/ Assigned \/ Refused \/ Retry \/ Wake
  PROVE  IInv'
<1>1. CASE Start
  BY <1>1, NoneIsNothing DEF Start, MainGoes, IInv, TypeOK, MainInv, TakenInv,
     StopInv, LocalInv, NoForgottenSession, FreshSession, HeartbeatServed,
     OneHeartbeat, Outside, InRun, AfterLook, Stopped
<1>2. CASE Poll
  BY <1>2, NoneIsNothing DEF Poll, MainGoes, IInv, TypeOK, MainInv, TakenInv,
     StopInv, LocalInv, NoForgottenSession, FreshSession, HeartbeatServed,
     OneHeartbeat, Outside, InRun, AfterLook, Stopped
<1>3. CASE DialFails
  BY <1>3, NoneIsNothing DEF DialFails, MainGoes, IInv, TypeOK, MainInv,
     TakenInv, StopInv, LocalInv, NoForgottenSession, FreshSession,
     HeartbeatServed, OneHeartbeat, Outside, InRun, AfterLook, Stopped
<1>4. CASE SetConn
  BY <1>4, NoneIsNothing DEF SetConn, Goes, MainGoes, IInv, TypeOK, MainInv,
     TakenInv, StopInv, LocalInv, NoForgottenSession, FreshSession,
     HeartbeatServed, OneHeartbeat, Outside, InRun, AfterLook, Stopped
<1>5. CASE SendRegister
  BY <1>5, NoneIsNothing DEF SendRegister, Goes, MainGoes, IInv, TypeOK,
     MainInv, TakenInv, StopInv, LocalInv, NoForgottenSession, FreshSession,
     HeartbeatServed, OneHeartbeat, Outside, InRun, AfterLook, Stopped
<1>6. CASE AwaitAnswer
  BY <1>6, NoneIsNothing DEF AwaitAnswer, Goes, MainGoes, IInv, TypeOK,
     MainInv, TakenInv, StopInv, LocalInv, NoForgottenSession, FreshSession,
     HeartbeatServed, OneHeartbeat, Outside, InRun, AfterLook, Stopped
<1>7. CASE Assigned
  BY <1>7, NoneIsNothing DEF Assigned, Goes, MainGoes, IInv, TypeOK,
     MainInv, TakenInv, StopInv, LocalInv, NoForgottenSession, FreshSession,
     HeartbeatServed, OneHeartbeat, Outside, InRun, AfterLook, Stopped
<1>8. CASE Refused
  BY <1>8, NoneIsNothing DEF Refused, Goes, MainGoes, IInv, TypeOK, MainInv,
     TakenInv, StopInv, LocalInv, NoForgottenSession, FreshSession,
     HeartbeatServed, OneHeartbeat, Outside, InRun, AfterLook, Stopped
<1>9. CASE Retry
  BY <1>9, NoneIsNothing DEF Retry, CloseConn, MainGoes, IInv, TypeOK,
     MainInv, TakenInv, StopInv, LocalInv, NoForgottenSession, FreshSession,
     HeartbeatServed, OneHeartbeat, Outside, InRun, AfterLook, Stopped
<1>10. CASE Wake
  BY <1>10, NoneIsNothing DEF Wake, MainGoes, IInv, TypeOK, MainInv, TakenInv,
     StopInv, LocalInv, NoForgottenSession, FreshSession, HeartbeatServed,
     OneHeartbeat, Outside, InRun, AfterLook, Stopped
<1> QED
  BY <1>1, <1>2, <1>3, <1>4, <1>5, <1>6, <1>7, <1>8, <1>9, <1>10

(* run and cleanup.                                                        *)
LEMMA RunSteps ==
  ASSUME IInv,
         \/ LoopPoll \/ Fetch \/ ReadFails \/ LocalDialFails
         \/ LocalDial \/ LocalWrite \/ LocalWriteFails
         \/ EndHeartbeat \/ Cleanup \/ ReadOther
  PROVE  IInv'
<1>1. CASE LoopPoll
  BY <1>1, NoneIsNothing DEF LoopPoll, Goes, MainGoes, IInv, TypeOK,
     MainInv, TakenInv, StopInv, LocalInv, NoForgottenSession, FreshSession,
     HeartbeatServed, OneHeartbeat, Outside, InRun, AfterLook, Stopped
<1>2. CASE Fetch
  BY <1>2, NoneIsNothing DEF Fetch, Goes, MainGoes, IInv, TypeOK, MainInv,
     TakenInv, StopInv, LocalInv, NoForgottenSession, FreshSession,
     HeartbeatServed, OneHeartbeat, Outside, InRun, AfterLook, Stopped
<1>3. CASE ReadFails
  BY <1>3, NoneIsNothing DEF ReadFails, Goes, MainGoes, IInv, TypeOK,
     MainInv, TakenInv, StopInv, LocalInv, NoForgottenSession, FreshSession,
     HeartbeatServed, OneHeartbeat, Outside, InRun, AfterLook, Stopped
<1>4. CASE LocalDialFails
  BY <1>4, NoneIsNothing DEF LocalDialFails, Goes, MainGoes, IInv, TypeOK,
     MainInv, TakenInv, StopInv, LocalInv, NoForgottenSession, FreshSession,
     HeartbeatServed, OneHeartbeat, Outside, InRun, AfterLook, Stopped
<1>5. CASE LocalDial
  BY <1>5, NoneIsNothing DEF LocalDial, Goes, MainGoes, IInv, TypeOK,
     MainInv, TakenInv, StopInv, LocalInv, NoForgottenSession, FreshSession,
     HeartbeatServed, OneHeartbeat, Outside, InRun, AfterLook, Stopped
<1>6. CASE LocalWrite
  BY <1>6, NoneIsNothing DEF LocalWrite, Goes, MainGoes, IInv, TypeOK,
     MainInv, TakenInv, StopInv, LocalInv, NoForgottenSession, FreshSession,
     HeartbeatServed, OneHeartbeat, Outside, InRun, AfterLook, Stopped
<1>7. CASE LocalWriteFails
  BY <1>7, NoneIsNothing DEF LocalWriteFails, Goes, CloseLocalConn, MainGoes,
     IInv, TypeOK, MainInv, TakenInv, StopInv, LocalInv, NoForgottenSession,
     FreshSession, HeartbeatServed, OneHeartbeat, Outside, InRun, AfterLook,
     Stopped
<1>8. CASE EndHeartbeat
  BY <1>8, NoneIsNothing DEF EndHeartbeat, Goes, MainGoes, IInv, TypeOK,
     MainInv, TakenInv, StopInv, LocalInv, NoForgottenSession, FreshSession,
     HeartbeatServed, OneHeartbeat, Outside, InRun, AfterLook, Stopped
<1>9. CASE Cleanup
  BY <1>9, NoneIsNothing DEF Cleanup, CloseConn, MainGoes, IInv, TypeOK,
     MainInv, TakenInv, StopInv, LocalInv, NoForgottenSession, FreshSession,
     HeartbeatServed, OneHeartbeat, Outside, InRun, AfterLook, Stopped
<1>10. CASE ReadOther
  BY <1>10, NoneIsNothing DEF ReadOther, Goes, MainGoes, IInv, TypeOK,
     MainInv, TakenInv, StopInv, LocalInv, NoForgottenSession, FreshSession,
     HeartbeatServed, OneHeartbeat, Outside, InRun, AfterLook, Stopped
<1> QED
  BY <1>1, <1>2, <1>3, <1>4, <1>5, <1>6, <1>7, <1>8, <1>9, <1>10

(* Messages for a stream.                                                  *)
LEMMA MessageSteps ==
  ASSUME IInv, NEW i \in Streams,
         \/ ReadConnOpen(i) \/ ReadData(i) \/ ReadConnClose(i)
  PROVE  IInv'
<1>1. CASE ReadConnOpen(i)
  BY <1>1, NoneIsNothing DEF ReadConnOpen, MainGoes, IInv, TypeOK, MainInv,
     TakenInv, StopInv, LocalInv, NoForgottenSession, FreshSession,
     HeartbeatServed, OneHeartbeat, Outside, InRun, AfterLook, Stopped
<1>2. CASE ReadData(i)
  BY <1>2, NoneIsNothing DEF ReadData, MainGoes, IInv, TypeOK, MainInv,
     TakenInv, StopInv, LocalInv, NoForgottenSession, FreshSession,
     HeartbeatServed, OneHeartbeat, Outside, InRun, AfterLook, Stopped
<1>3. CASE ReadConnClose(i)
  BY <1>3, NoneIsNothing DEF ReadConnClose, Goes, CloseLocalConn, MainGoes,
     IInv, TypeOK, MainInv, TakenInv, StopInv, LocalInv, NoForgottenSession,
     FreshSession, HeartbeatServed, OneHeartbeat, Outside, InRun, AfterLook,
     Stopped
<1> QED
  BY <1>1, <1>2, <1>3

(* A new session, the heartbeats and the network.                          *)
LEMMA SessionSteps ==
  ASSUME IInv, NEW s \in Sessions,
         \/ Dial(s) \/ Beat(s) \/ BeatCloses(s) \/ BeatEnds(s)
         \/ ConnectionLost(s)
  PROVE  IInv'
<1>1. CASE Dial(s)
  BY <1>1, NoneIsNothing DEF Dial, NewSession, MainGoes, IInv, TypeOK,
     MainInv, TakenInv, StopInv, LocalInv, NoForgottenSession, FreshSession,
     HeartbeatServed, OneHeartbeat, Outside, InRun, AfterLook, Stopped
<1>2. CASE Beat(s)
  BY <1>2, NoneIsNothing DEF Beat, IInv, TypeOK, MainInv, TakenInv, StopInv,
     LocalInv, NoForgottenSession, FreshSession, HeartbeatServed, OneHeartbeat,
     Outside, InRun, AfterLook, Stopped
<1>3. CASE BeatCloses(s)
  BY <1>3, NoneIsNothing DEF BeatCloses, CloseConn, IInv, TypeOK, MainInv,
     TakenInv, StopInv, LocalInv, NoForgottenSession, FreshSession,
     HeartbeatServed, OneHeartbeat, Outside, InRun, AfterLook, Stopped
<1>4. CASE BeatEnds(s)
  BY <1>4, NoneIsNothing DEF BeatEnds, IInv, TypeOK, MainInv, TakenInv,
     StopInv, LocalInv, NoForgottenSession, FreshSession, HeartbeatServed,
     OneHeartbeat, Outside, InRun, AfterLook, Stopped
<1>5. CASE ConnectionLost(s)
  BY <1>5, NoneIsNothing DEF ConnectionLost, IInv, TypeOK, MainInv, TakenInv,
     StopInv, LocalInv, NoForgottenSession, FreshSession, HeartbeatServed,
     OneHeartbeat, Outside, InRun, AfterLook, Stopped
<1> QED
  BY <1>1, <1>2, <1>3, <1>4, <1>5

(* The goroutines that read from local connections.                        *)
LEMMA PumpSteps ==
  ASSUME IInv, NEW i \in Streams,
         \/ PumpData(i) \/ PumpSends(i) \/ PumpReadFails(i)
         \/ PumpEnds(i)
  PROVE  IInv'
<1>1. CASE PumpData(i)
  BY <1>1, NoneIsNothing DEF PumpData, PumpGoes, IInv, TypeOK, MainInv,
     TakenInv, StopInv, LocalInv, NoForgottenSession, FreshSession,
     HeartbeatServed, OneHeartbeat, Outside, InRun, AfterLook, Stopped
<1>2. CASE PumpSends(i)
  BY <1>2, NoneIsNothing DEF PumpSends, PumpGoes, IInv, TypeOK, MainInv,
     TakenInv, StopInv, LocalInv, NoForgottenSession, FreshSession,
     HeartbeatServed, OneHeartbeat, Outside, InRun, AfterLook, Stopped
<1>3. CASE PumpReadFails(i)
  BY <1>3, NoneIsNothing DEF PumpReadFails, PumpGoes, IInv, TypeOK, MainInv,
     TakenInv, StopInv, LocalInv, NoForgottenSession, FreshSession,
     HeartbeatServed, OneHeartbeat, Outside, InRun, AfterLook, Stopped
<1>4. CASE PumpEnds(i)
  BY <1>4, NoneIsNothing DEF PumpEnds, PumpGoes, CloseLocalConn, IInv, TypeOK,
     MainInv, TakenInv, StopInv, LocalInv, NoForgottenSession, FreshSession,
     HeartbeatServed, OneHeartbeat, Outside, InRun, AfterLook, Stopped
<1> QED
  BY <1>1, <1>2, <1>3, <1>4

(* Stop.                                                                   *)
LEMMA StopSteps ==
  ASSUME IInv,
         \/ StopSignal \/ StopTake \/ StopClose \/ StopReturns
  PROVE  IInv'
<1>1. CASE StopSignal
  BY <1>1, NoneIsNothing DEF StopSignal, IInv, TypeOK, MainInv, TakenInv,
     StopInv, LocalInv, NoForgottenSession, FreshSession, HeartbeatServed,
     OneHeartbeat, Outside, InRun, AfterLook, Stopped
<1>2. CASE StopTake
  BY <1>2, NoneIsNothing DEF StopTake, IInv, TypeOK, MainInv, TakenInv,
     StopInv, LocalInv, NoForgottenSession, FreshSession, HeartbeatServed,
     OneHeartbeat, Outside, InRun, AfterLook, Stopped
<1>3. CASE StopClose
  BY <1>3, NoneIsNothing DEF StopClose, IInv, TypeOK, MainInv, TakenInv,
     StopInv, LocalInv, NoForgottenSession, FreshSession, HeartbeatServed,
     OneHeartbeat, Outside, InRun, AfterLook, Stopped
<1>4. CASE StopReturns
  BY <1>4, NoneIsNothing DEF StopReturns, IInv, TypeOK, MainInv, TakenInv,
     StopInv, LocalInv, NoForgottenSession, FreshSession, HeartbeatServed,
     OneHeartbeat, Outside, InRun, AfterLook, Stopped
<1> QED
  BY <1>1, <1>2, <1>3, <1>4

-----------------------------------------------------------------------------
(* A client that has not started.                                          *)
LEMMA Initially == Init => IInv
BY NoneIsNothing DEF Init, IInv, TypeOK, MainInv, TakenInv, StopInv, LocalInv,
   NoForgottenSession, FreshSession, HeartbeatServed, OneHeartbeat, Outside,
   InRun, AfterLook, Stopped

(* Every step of every goroutine keeps the invariant.                      *)
LEMMA Preserved == IInv /\ [Next]_vars => IInv'
<1> SUFFICES ASSUME IInv, [Next]_vars PROVE IInv'
  OBVIOUS
<1>1. CASE Start \/ MainStep \/ MessageArrives
  BY <1>1, RegisterSteps, RunSteps, MessageSteps, SessionSteps
     DEF MainStep, MessageArrives
<1>2. CASE StopSignal \/ StopStep
  BY <1>2, StopSteps DEF StopStep
<1>3. ASSUME NEW s \in Sessions, Beat(s) \/ HeartStep(s) \/ ConnectionLost(s)
      PROVE  IInv'
  BY <1>3, SessionSteps DEF HeartStep
<1>4. ASSUME NEW i \in Streams, PumpData(i) \/ PumpReadFails(i) \/ PumpStep(i)
      PROVE  IInv'
  BY <1>4, PumpSteps DEF PumpStep
<1>5. CASE UNCHANGED vars
  BY <1>5 DEF IInv, TypeOK, MainInv, TakenInv, StopInv, LocalInv,
     NoForgottenSession, FreshSession, HeartbeatServed, OneHeartbeat, Outside,
     InRun, AfterLook, Stopped
<1> QED
  BY <1>1, <1>2, <1>3, <1>4, <1>5 DEF Next

(* The invariant holds in every reachable state, however many sessions     *)
(* follow each other and whatever the server and the network do.           *)
THEOREM ClientInductive == Spec => []IInv
BY Initially, Preserved, PTL DEF Spec

(* No WebSocket is forgotten open over reconnects, refusals and Stop, and  *)
(* no local connection crosses from one session into the next.             *)
THEOREM SessionsSeparate == Spec => []SessionLeavesNothing
<1>1. IInv => SessionLeavesNothing
  BY DEF IInv, SessionLeavesNothing
<1> QED
  BY <1>1, ClientInductive, PTL

(* A served session has its heartbeat, and heartbeat goroutines do not     *)
(* pile up over reconnects.                                                *)
THEOREM HeartbeatKept == Spec => []HeartbeatPerSession
<1>1. IInv => HeartbeatPerSession
  BY DEF IInv, HeartbeatPerSession
<1> QED
  BY <1>1, ClientInductive, PTL

(* Stop does not wait for a message loop that waits for the server (the    *)
(* read of run, not the one of register), wherever the two meet.           *)
THEOREM StopIsHeard == Spec => []StopWakesReader
<1>1. IInv => StopWakesReader
  BY NoneIsNothing DEF IInv, TypeOK, MainInv, TakenInv, StopInv, AfterLook,
     Outside, InRun, NoForgottenSession, StopWakesReader
<1> QED
  BY <1>1, ClientInductive, PTL

(* The ranges of the client's fields and of its goroutines' positions.     *)
THEOREM ClientTyped == Spec => []TypeOK
<1>1. IInv => TypeOK
  BY DEF IInv
<1> QED
  BY <1>1, ClientInductive, PTL

-----------------------------------------------------------------------------
(* Start and Stop keep the promise the manager is built on.                *)

(* Steps that neither begin nor end Start, nor move Stop.                  *)
LEMMA InnerSteps ==
  ASSUME Next, main'.at = main.at \/ {main.at, main'.at} \cap {"new", "ended"} = {}, UNCHANGED stop
  PROVE  UNCHANGED <<LifeOf, HaltOf>>
BY DEF LifeOf, HaltOf

(* Which steps those are.                                                  *)
LEMMA StartAndStop ==
  ASSUME Next
  PROVE  \/ Start \/ Poll \/ StopSignal \/ StopTake \/ StopClose \/ StopReturns
         \/ /\ main'.at = main.at \/ {main.at, main'.at} \cap {"new", "ended"} = {}
            /\ UNCHANGED stop
<1>1. CASE StopSignal \/ StopStep \/ Start
  BY <1>1 DEF StopStep
<1>2. CASE MessageArrives
  BY <1>2 DEF MessageArrives, ReadOther, ReadConnOpen, ReadData,
     ReadConnClose, Goes, MainGoes
<1>3. CASE MainStep
  <2>1. CASE Poll \/ DialFails \/ SetConn \/ SendRegister \/ AwaitAnswer
             \/ \E s \in Sessions : Dial(s)
    BY <2>1 DEF DialFails, SetConn, SendRegister, AwaitAnswer, Dial, Goes,
       MainGoes
  <2>2. CASE Assigned \/ Refused \/ Retry \/ Wake \/ LoopPoll \/ Fetch \/ ReadFails
    BY <2>2 DEF Assigned, Refused, Retry, Wake, LoopPoll, Fetch, ReadFails,
       Goes, MainGoes
  <2>3. CASE LocalDialFails \/ LocalDial \/ LocalWrite \/ LocalWriteFails
             \/ EndHeartbeat \/ Cleanup
    BY <2>3 DEF LocalDialFails, LocalDial, LocalWrite, LocalWriteFails,
       EndHeartbeat, Cleanup, Goes, MainGoes
  <2> QED
    BY <1>3, <2>1, <2>2, <2>3 DEF MainStep
<1>4. ASSUME NEW s \in Sessions, Beat(s) \/ HeartStep(s) \/ ConnectionLost(s)
      PROVE  UNCHANGED <<main, stop>>
  BY <1>4 DEF Beat, HeartStep, BeatCloses, BeatEnds, ConnectionLost
<1>5. ASSUME NEW i \in Streams, PumpData(i) \/ PumpReadFails(i) \/ PumpStep(i)
      PROVE  UNCHANGED <<main, stop>>
  BY <1>5 DEF PumpData, PumpReadFails, PumpStep, PumpSends, PumpEnds
<1> QED
  BY <1>1, <1>2, <1>3, <1>4, <1>5 DEF Next

(* A step is one of Start, of Stop, or none the manager can tell.          *)
LEMMA LifeStep ==
  ASSUME TypeOK, Next
  PROVE  \/ Life!Start("client") \/ Life!Finish("client") \/ Life!Ask("client")
         \/ Life!Look("client") \/ Life!Return("client")
         \/ UNCHANGED <<LifeOf, HaltOf>>
<1>1. CASE Start
  <2>1. Life!Start("client")
    BY <1>1 DEF Start, MainGoes, Life!Start, Life!Lives, LifeOf, HaltOf
  <2> QED
    BY <2>1
<1>2. CASE Poll
  <2>1. CASE Stopped
    <3>1. Life!Finish("client")
      BY <1>2, <2>1 DEF TypeOK, Poll, MainGoes, Stopped, Life!Finish,
         Life!Lives, LifeOf, HaltOf
    <3> QED
      BY <3>1
  <2>2. CASE ~ Stopped
    BY <1>2, <2>2 DEF Poll, MainGoes, LifeOf, HaltOf
  <2> QED
    BY <2>1, <2>2
<1>3. CASE StopSignal
  <2>1. Life!Ask("client")
    BY <1>3 DEF StopSignal, Life!Ask, Life!Halts, LifeOf, HaltOf
  <2> QED
    BY <2>1
<1>4. CASE StopTake
  <2>1. Life!Look("client")
    BY <1>4 DEF StopTake, Life!Look, Life!Halts, LifeOf, HaltOf
  <2> QED
    BY <2>1
<1>5. CASE StopClose
  <2>1. CASE stop = "unstarted"
    <3>1. Life!Return("client")
      BY <1>5, <2>1 DEF StopClose, Life!Return, Life!Halts, LifeOf, HaltOf
    <3> QED
      BY <3>1
  <2>2. CASE stop = "taken"
    BY <1>5, <2>2 DEF StopClose, LifeOf, HaltOf
  <2> QED
    BY <1>5, <2>1, <2>2 DEF StopClose
<1>6. CASE StopReturns
  <2>1. Life!Return("client")
    BY <1>6 DEF StopReturns, Life!Return, Life!Halts, LifeOf, HaltOf
  <2> QED
    BY <2>1
<1> QED
  BY <1>1, <1>2, <1>3, <1>4, <1>5, <1>6, StartAndStop, InnerSteps

(* Start returns only after Stop was called, and Stop of a client that has *)
(* started only after Start has returned: the client implements ClientLife *)
(* whatever the server, the network and the local service do.              *)
THEOREM ClientKeepsPromise == Spec => ImplementsLife
<1>1. Init => Life!LifeInit
  BY DEF Init, Life!LifeInit, LifeOf, HaltOf
<1>2. TypeOK /\ [Next]_vars =>
        [Life!LifeNext]_<<[k \in {"client"} |-> LifeOf], [k \in {"client"} |-> HaltOf]>>
  <2>1. ASSUME TypeOK, Next
        PROVE  Life!LifeNext \/ UNCHANGED <<LifeOf, HaltOf>>
    BY <2>1, LifeStep DEF Life!LifeNext, Life!StopStep
  <2>2. UNCHANGED vars => UNCHANGED <<LifeOf, HaltOf>>
    BY DEF LifeOf, HaltOf
  <2> QED
    BY <2>1, <2>2
<1> QED
  BY <1>1, <1>2, ClientTyped, PTL DEF Spec, ImplementsLife, Life!LifeSpec
=============================================================================
