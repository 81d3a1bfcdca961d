--------------------------- MODULE TcpProxyProofs ---------------------------
(***************************************************************************)
(* Proofs about one TCP proxy, for any set of users, however many come and *)
(* go, and any connection limit.                                           *)
(***************************************************************************)
EXTENDS TcpProxy, FiniteSetTheorems, TLAPS

(* Everything but the counting of slots.                                   *)
Shape ==
  /\ TypeOK /\ LoopInv /\ SocketInv /\ MapInv
  /\ ToldInv /\ CallInv /\ ReadInv

USE DEF vars, stopping, sockets, table

-----------------------------------------------------------------------------
(* The slots.                                                              *)

(* Whoever leaves the accept loop's user and the read loops alone, or only *)
(* moves them between states that hold a slot, keeps the count.            *)
LEMMA SlotsKept ==
  ASSUME SlotInv, Holders' = Holders, connCount' = connCount
  PROVE  SlotInv'
BY DEF SlotInv

(* The accept loop counts a user it had not counted, below the limit.      *)
LEMMA SlotTaken ==
  ASSUME IInv, NEW c \in Users, Admit(c)
  PROVE  SlotInv' /\ connCount' \in 0..MaxConns
<1>1. c \notin Holders /\ Holders' = Holders \cup {c}
  BY DEF IInv, LoopInv, Holders, Admitted, InHand, Admit, LoopGoes
<1>2. IsFiniteSet(Holders) /\ connCount = Cardinality(Holders)
  BY DEF IInv, SlotInv
<1>3. IsFiniteSet(Holders \cup {c}) /\ Cardinality(Holders \cup {c}) = connCount + 1
  BY <1>1, <1>2, FS_AddElement
<1>4. connCount' = connCount + 1 /\ connCount' \in 0..MaxConns
  BY Limit DEF Admit, Full, IInv, TypeOK
<1> QED
  BY <1>1, <1>3, <1>4 DEF SlotInv

(* A read loop gives back a slot it holds.                                 *)
LEMMA SlotFreed ==
  ASSUME IInv, NEW c \in Users, FreeSlot(c)
  PROVE  SlotInv' /\ connCount' \in 0..MaxConns
<1>1. c \in Holders /\ Holders' = Holders \ {c}
  BY DEF IInv, TypeOK, LoopInv, Holders, Admitted, InHand, FreeSlot,
     ReaderGoes
<1>2. IsFiniteSet(Holders) /\ connCount = Cardinality(Holders)
  BY DEF IInv, SlotInv
<1>3. IsFiniteSet(Holders \ {c}) /\ Cardinality(Holders \ {c}) = connCount - 1
  BY <1>1, <1>2, FS_RemoveElement
<1>4. Cardinality(Holders \ {c}) \in Nat
  BY <1>3, FS_CardinalityType
<1>5. connCount' = connCount - 1 /\ connCount' \in 0..MaxConns
  BY <1>3, <1>4, Limit DEF FreeSlot, IInv, TypeOK
<1> QED
  BY <1>1, <1>3, <1>5 DEF SlotInv

-----------------------------------------------------------------------------
(* One lemma per group of actions.                                         *)

(* External users come and go.                                             *)
LEMMA UserSteps ==
  ASSUME IInv, NEW c \in Users, UserConnects(c) \/ UserCloses(c)
  PROVE  IInv'
<1>1. CASE UserConnects(c)
  <2>1. Holders' = Holders
    BY <1>1, NoneIsNoUser DEF UserConnects, IInv, LoopInv, TypeOK, Holders,
       Admitted, InHand
  <2>2. SlotInv'
    BY <1>1, <2>1, SlotsKept DEF UserConnects, IInv
  <2>3. Shape'
    BY <1>1, <2>1, NoneIsNoUser DEF UserConnects, IInv, Shape, TypeOK, LoopInv,
       SocketInv, MapInv, ToldInv, CallInv, ReadInv, Unchecked, InHand,
       Admitted, Entered
  <2> QED
    BY <2>2, <2>3 DEF IInv, Shape
<1>2. CASE UserCloses(c)
  <2>1. Holders' = Holders
    BY <1>2, NoneIsNoUser DEF UserCloses, IInv, LoopInv, TypeOK, Holders,
       Admitted, InHand
  <2>2. SlotInv'
    BY <1>2, <2>1, SlotsKept DEF UserCloses, IInv
  <2>3. Shape'
    BY <1>2, <2>1, NoneIsNoUser DEF UserCloses, IInv, Shape, TypeOK, LoopInv,
       SocketInv, MapInv, ToldInv, CallInv, ReadInv, Unchecked, InHand,
       Admitted, Entered
  <2> QED
    BY <2>2, <2>3 DEF IInv, Shape
<1> QED
  BY <1>1, <1>2

(* The accept loop.                                                        *)
LEMMA AcceptSteps ==
  ASSUME IInv, Poll \/ AcceptError
  PROVE  IInv'
<1>1. CASE Poll
  <2>1. Holders' = Holders
    BY <1>1, NoneIsNoUser DEF Poll, LoopGoes, LoopStates, IInv, LoopInv,
       TypeOK, Holders, Admitted, InHand
  <2>2. SlotInv'
    BY <1>1, <2>1, SlotsKept DEF Poll, IInv
  <2>3. Shape'
    BY <1>1, <2>1, NoneIsNoUser DEF Poll, LoopGoes, LoopStates, IInv, Shape,
       TypeOK, LoopInv, SocketInv, MapInv, ToldInv, CallInv, ReadInv,
       Unchecked, InHand, Admitted, Entered
  <2> QED
    BY <2>2, <2>3 DEF IInv, Shape
<1>2. CASE AcceptError
  <2>1. Holders' = Holders
    BY <1>2, NoneIsNoUser DEF AcceptError, LoopGoes, LoopStates, IInv,
       LoopInv, TypeOK, Holders, Admitted, InHand
  <2>2. SlotInv'
    BY <1>2, <2>1, SlotsKept DEF AcceptError, IInv
  <2>3. Shape'
    BY <1>2, <2>1, NoneIsNoUser DEF AcceptError, LoopGoes, LoopStates, IInv,
       Shape, TypeOK, LoopInv, SocketInv, MapInv, ToldInv, CallInv, ReadInv,
       Unchecked, InHand, Admitted, Entered
  <2> QED
    BY <2>2, <2>3 DEF IInv, Shape
<1> QED
  BY <1>1, <1>2

(* The accept loop with a user in its hands.                               *)
LEMMA AcceptUserSteps ==
  ASSUME IInv, NEW c \in Users,
                \/ Accept(c) \/ Reject(c) \/ Admit(c)
                \/ Enter(c) \/ Announce(c) \/ StartReader(c)
  PROVE  IInv'
<1>1. CASE Accept(c)
  <2>1. Holders' = Holders
    BY <1>1, NoneIsNoUser DEF Accept, LoopGoes, LoopStates, IInv, LoopInv,
       TypeOK, Holders, Admitted, InHand
  <2>2. SlotInv'
    BY <1>1, <2>1, SlotsKept DEF Accept, IInv
  <2>3. Shape'
    BY <1>1, <2>1, NoneIsNoUser DEF Accept, LoopGoes, LoopStates, IInv, Shape,
       TypeOK, LoopInv, SocketInv, MapInv, ToldInv, CallInv, ReadInv,
       Unchecked, InHand, Admitted, Entered
  <2> QED
    BY <2>2, <2>3 DEF IInv, Shape
<1>2. CASE Reject(c)
  <2>1. Holders' = Holders
    BY <1>2, NoneIsNoUser DEF Reject, LoopGoes, LoopStates, Closes, IInv,
       LoopInv, TypeOK, Holders, Admitted, InHand
  <2>2. SlotInv'
    BY <1>2, <2>1, SlotsKept DEF Reject, IInv
  <2>3. Shape'
    BY <1>2, <2>1, NoneIsNoUser DEF Reject, LoopGoes, LoopStates, Closes, IInv,
       Shape, TypeOK, LoopInv, SocketInv, MapInv, ToldInv, CallInv, ReadInv,
       Unchecked, InHand, Admitted, Entered
  <2> QED
    BY <2>2, <2>3 DEF IInv, Shape
<1>3. CASE Admit(c)
  <2>1. SlotInv' /\ connCount' \in 0..MaxConns
    BY <1>3, SlotTaken
  <2>2. Shape'
    BY <1>3, <2>1, NoneIsNoUser DEF Admit, LoopGoes, LoopStates, IInv, Shape,
       TypeOK, LoopInv, SocketInv, MapInv, ToldInv, CallInv, ReadInv,
       Unchecked, InHand, Admitted, Entered, Holders
  <2> QED
    BY <2>1, <2>2 DEF IInv, Shape
<1>4. CASE Enter(c)
  <2>1. Holders' = Holders
    BY <1>4, NoneIsNoUser DEF Enter, LoopGoes, LoopStates, IInv, LoopInv,
       TypeOK, Holders, Admitted, InHand
  <2>2. SlotInv'
    BY <1>4, <2>1, SlotsKept DEF Enter, IInv
  <2>3. Shape'
    BY <1>4, <2>1, NoneIsNoUser DEF Enter, LoopGoes, LoopStates, IInv, Shape,
       TypeOK, LoopInv, SocketInv, MapInv, ToldInv, CallInv, ReadInv,
       Unchecked, InHand, Admitted, Entered
  <2> QED
    BY <2>2, <2>3 DEF IInv, Shape
<1>5. CASE Announce(c)
  <2>1. Holders' = Holders
    BY <1>5, NoneIsNoUser DEF Announce, LoopGoes, LoopStates, Tells, IInv,
       LoopInv, TypeOK, Holders, Admitted, InHand
  <2>2. SlotInv'
    BY <1>5, <2>1, SlotsKept DEF Announce, IInv
  <2>3. Shape'
    BY <1>5, <2>1, NoneIsNoUser DEF Announce, LoopGoes, LoopStates, Tells,
       IInv, Shape, TypeOK, LoopInv, SocketInv, MapInv, ToldInv, CallInv,
       ReadInv, Unchecked, InHand, Admitted, Entered
  <2> QED
    BY <2>2, <2>3 DEF IInv, Shape
<1>6. CASE StartReader(c)
  <2>1. Holders' = Holders
    BY <1>6, NoneIsNoUser DEF StartReader, LoopGoes, LoopStates, ReaderGoes,
       IInv, LoopInv, TypeOK, Holders, Admitted, InHand
  <2>2. SlotInv'
    BY <1>6, <2>1, SlotsKept DEF StartReader, IInv
  <2>3. Shape'
    <3>1. TypeOK' /\ LoopInv'
      BY <1>6, NoneIsNoUser DEF StartReader, LoopGoes, LoopStates, ReaderGoes,
         IInv, TypeOK, LoopInv
    <3>2. SocketInv'
      BY <1>6, <2>1, NoneIsNoUser DEF StartReader, LoopGoes, LoopStates,
         ReaderGoes, IInv, TypeOK, SocketInv, Unchecked, InHand
    <3>3. MapInv'
      BY <1>6, <2>1, NoneIsNoUser DEF StartReader, LoopGoes, LoopStates,
         ReaderGoes, IInv, TypeOK, MapInv, ToldInv, Admitted, InHand
    <3>4. ToldInv'
      BY <1>6, <2>1, NoneIsNoUser DEF StartReader, LoopGoes, LoopStates,
         ReaderGoes, IInv, TypeOK, LoopInv, ToldInv, Entered, InHand
    <3>5. CallInv'
      BY <1>6, <2>1, NoneIsNoUser DEF StartReader, LoopGoes, LoopStates,
         ReaderGoes, IInv, CallInv
    <3>6. ReadInv'
      BY <1>6, NoneIsNoUser DEF StartReader, LoopGoes, LoopStates,
         ReaderGoes, IInv, TypeOK, ReadInv
    <3> QED
      BY <3>1, <3>2, <3>3, <3>4, <3>5, <3>6 DEF Shape
  <2> QED
    BY <2>2, <2>3 DEF IInv, Shape
<1> QED
  BY <1>1, <1>2, <1>3, <1>4, <1>5, <1>6

(* The read loop of a user.                                                *)
LEMMA ReaderSteps ==
  ASSUME IInv, NEW c \in Users,
                \/ PollReader(c) \/ ReadData(c) \/ ReadFails(c) \/ TellClosed(c)
                \/ CloseSocket(c) \/ RemoveEntry(c) \/ FreeSlot(c)
  PROVE  IInv'
<1>1. CASE PollReader(c)
  <2>1. Holders' = Holders
    BY <1>1, NoneIsNoUser DEF PollReader, ReaderGoes, IInv, LoopInv, TypeOK,
       Holders, Admitted, InHand
  <2>2. SlotInv'
    BY <1>1, <2>1, SlotsKept DEF PollReader, IInv
  <2>3. TypeOK' /\ LoopInv' /\ SocketInv' /\ MapInv' /\ CallInv'
    BY <1>1, <2>1, NoneIsNoUser DEF PollReader, ReaderGoes, IInv, TypeOK,
       LoopInv, SocketInv, MapInv, CallInv, Unchecked, InHand, Admitted
  <2>4. ToldInv'
    BY <1>1, NoneIsNoUser DEF PollReader, ReaderGoes, IInv, TypeOK, LoopInv,
       ToldInv, InHand, Entered
  <2>5. ReadInv'
    BY <1>1 DEF PollReader, ReaderGoes, Signalled, IInv, TypeOK, ToldInv,
       ReadInv, Entered
  <2> QED
    BY <2>2, <2>3, <2>4, <2>5 DEF IInv
<1>2. CASE ReadData(c)
  <2>1. Holders' = Holders
    BY <1>2, NoneIsNoUser DEF ReadData, ReaderGoes, IInv, LoopInv, TypeOK,
       Holders, Admitted, InHand
  <2>2. SlotInv'
    BY <1>2, <2>1, SlotsKept DEF ReadData, IInv
  <2>3. Shape'
    BY <1>2, <2>1, NoneIsNoUser DEF ReadData, ReaderGoes, IInv, Shape, TypeOK,
       LoopInv, SocketInv, MapInv, ToldInv, CallInv, ReadInv, Unchecked,
       InHand, Admitted, Entered
  <2> QED
    BY <2>2, <2>3 DEF IInv, Shape
<1>3. CASE ReadFails(c)
  <2>1. Holders' = Holders
    BY <1>3, NoneIsNoUser DEF ReadFails, ReaderGoes, IInv, LoopInv, TypeOK,
       Holders, Admitted, InHand
  <2>2. SlotInv'
    BY <1>3, <2>1, SlotsKept DEF ReadFails, IInv
  <2>3. Shape'
    BY <1>3, <2>1, NoneIsNoUser DEF ReadFails, ReaderGoes, IInv, Shape, TypeOK,
       LoopInv, SocketInv, MapInv, ToldInv, CallInv, ReadInv, Unchecked,
       InHand, Admitted, Entered
  <2> QED
    BY <2>2, <2>3 DEF IInv, Shape
<1>4. CASE TellClosed(c)
  <2>1. Holders' = Holders
    BY <1>4, NoneIsNoUser DEF TellClosed, ReaderGoes, Tells, IInv, LoopInv,
       TypeOK, Holders, Admitted, InHand
  <2>2. SlotInv'
    BY <1>4, <2>1, SlotsKept DEF TellClosed, IInv
  <2>3. Shape'
    BY <1>4, <2>1, NoneIsNoUser DEF TellClosed, ReaderGoes, Tells, IInv, Shape,
       TypeOK, LoopInv, SocketInv, MapInv, ToldInv, CallInv, ReadInv,
       Unchecked, InHand, Admitted, Entered
  <2> QED
    BY <2>2, <2>3 DEF IInv, Shape
<1>5. CASE CloseSocket(c)
  <2>1. Holders' = Holders
    BY <1>5, NoneIsNoUser DEF CloseSocket, ReaderGoes, Closes, IInv, LoopInv,
       TypeOK, Holders, Admitted, InHand
  <2>2. SlotInv'
    BY <1>5, <2>1, SlotsKept DEF CloseSocket, IInv
  <2>3. Shape'
    BY <1>5, <2>1, NoneIsNoUser DEF CloseSocket, ReaderGoes, Closes, IInv,
       Shape, TypeOK, LoopInv, SocketInv, MapInv, ToldInv, CallInv, ReadInv,
       Unchecked, InHand, Admitted, Entered
  <2> QED
    BY <2>2, <2>3 DEF IInv, Shape
<1>6. CASE RemoveEntry(c)
  <2>1. Holders' = Holders
    BY <1>6, NoneIsNoUser DEF RemoveEntry, ReaderGoes, IInv, LoopInv, TypeOK,
       Holders, Admitted, InHand
  <2>2. SlotInv'
    BY <1>6, <2>1, SlotsKept DEF RemoveEntry, IInv
  <2>3. Shape'
    BY <1>6, <2>1, NoneIsNoUser DEF RemoveEntry, ReaderGoes, IInv, Shape,
       TypeOK, LoopInv, SocketInv, MapInv, ToldInv, CallInv, ReadInv,
       Unchecked, InHand, Admitted, Entered
  <2> QED
    BY <2>2, <2>3 DEF IInv, Shape
<1>7. CASE FreeSlot(c)
  <2>1. SlotInv' /\ connCount' \in 0..MaxConns
    BY <1>7, SlotFreed
  <2>2. Shape'
    BY <1>7, <2>1, NoneIsNoUser DEF FreeSlot, ReaderGoes, IInv, Shape, TypeOK,
       LoopInv, SocketInv, MapInv, ToldInv, CallInv, ReadInv, Unchecked,
       InHand, Admitted, Entered, Holders
  <2> QED
    BY <2>1, <2>2 DEF IInv, Shape
<1> QED
  BY <1>1, <1>2, <1>3, <1>4, <1>5, <1>6, <1>7

(* The WebSocket handler.                                                  *)
LEMMA HandlerSteps ==
  ASSUME IInv, NEW c \in Users,
                \/ LookUp(c) \/ CheckStopped(c)
                \/ Write(c) \/ CloseConn(c)
  PROVE  IInv'
<1>1. CASE LookUp(c)
  <2>1. Holders' = Holders
    BY <1>1, NoneIsNoUser DEF LookUp, CallGoes, IInv, LoopInv, TypeOK,
       Holders, Admitted, InHand
  <2>2. SlotInv'
    BY <1>1, <2>1, SlotsKept DEF LookUp, IInv
  <2>3. Shape'
    BY <1>1, <2>1, NoneIsNoUser DEF LookUp, CallGoes, IInv, Shape, TypeOK,
       LoopInv, SocketInv, MapInv, ToldInv, CallInv, ReadInv, Unchecked,
       InHand, Admitted, Entered
  <2> QED
    BY <2>2, <2>3 DEF IInv, Shape
<1>2. CASE CheckStopped(c)
  <2>1. Holders' = Holders
    BY <1>2, NoneIsNoUser DEF CheckStopped, CallGoes, NotStopped, IInv,
       LoopInv, TypeOK, Holders, Admitted, InHand
  <2>2. SlotInv'
    BY <1>2, <2>1, SlotsKept DEF CheckStopped, IInv
  <2>3. Shape'
    BY <1>2, <2>1, NoneIsNoUser DEF CheckStopped, CallGoes, NotStopped, IInv,
       Shape, TypeOK, LoopInv, SocketInv, MapInv, ToldInv, CallInv, ReadInv,
       Unchecked, InHand, Admitted, Entered
  <2> QED
    BY <2>2, <2>3 DEF IInv, Shape
<1>3. CASE Write(c)
  <2>1. Holders' = Holders
    BY <1>3, NoneIsNoUser DEF Write, CallGoes, IInv, LoopInv, TypeOK, Holders,
       Admitted, InHand
  <2>2. SlotInv'
    BY <1>3, <2>1, SlotsKept DEF Write, IInv
  <2>3. Shape'
    BY <1>3, <2>1, NoneIsNoUser DEF Write, CallGoes, IInv, Shape, TypeOK,
       LoopInv, SocketInv, MapInv, ToldInv, CallInv, ReadInv, Unchecked,
       InHand, Admitted, Entered
  <2> QED
    BY <2>2, <2>3 DEF IInv, Shape
<1>4. CASE CloseConn(c)
  <2>1. Holders' = Holders
    BY <1>4, NoneIsNoUser DEF CloseConn, Closes, IInv, LoopInv, TypeOK,
       Holders, Admitted, InHand
  <2>2. SlotInv'
    BY <1>4, <2>1, SlotsKept DEF CloseConn, IInv
  <2>3. Shape'
    BY <1>4, <2>1, NoneIsNoUser DEF CloseConn, Closes, IInv, Shape, TypeOK,
       LoopInv, SocketInv, MapInv, ToldInv, CallInv, ReadInv, Unchecked,
       InHand, Admitted, Entered
  <2> QED
    BY <2>2, <2>3 DEF IInv, Shape
<1> QED
  BY <1>1, <1>2, <1>3, <1>4

(* Stop.                                                                   *)
LEMMA StopSteps ==
  ASSUME IInv, Mark \/ Signal \/ CloseListener \/ Collect \/ Return
  PROVE  IInv'
<1>1. CASE Mark
  <2>1. Holders' = Holders
    BY <1>1, NoneIsNoUser DEF Mark, StopGoes, IInv, LoopInv, TypeOK, Holders,
       Admitted, InHand
  <2>2. SlotInv'
    BY <1>1, <2>1, SlotsKept DEF Mark, IInv
  <2>3. Shape'
    BY <1>1, <2>1, NoneIsNoUser DEF Mark, StopGoes, IInv, Shape, TypeOK,
       LoopInv, SocketInv, MapInv, ToldInv, CallInv, ReadInv, Unchecked,
       InHand, Admitted, Entered
  <2> QED
    BY <2>2, <2>3 DEF IInv, Shape
<1>2. CASE Signal
  <2>1. Holders' = Holders
    BY <1>2, NoneIsNoUser DEF Signal, StopGoes, IInv, LoopInv, TypeOK,
       Holders, Admitted, InHand
  <2>2. SlotInv'
    BY <1>2, <2>1, SlotsKept DEF Signal, IInv
  <2>3. Shape'
    BY <1>2, <2>1, NoneIsNoUser DEF Signal, StopGoes, IInv, Shape, TypeOK,
       LoopInv, SocketInv, MapInv, ToldInv, CallInv, ReadInv, Unchecked,
       InHand, Admitted, Entered
  <2> QED
    BY <2>2, <2>3 DEF IInv, Shape
<1>3. CASE CloseListener
  <2>1. Holders' = Holders
    BY <1>3, NoneIsNoUser DEF CloseListener, StopGoes, IInv, LoopInv, TypeOK,
       Holders, Admitted, InHand
  <2>2. SlotInv'
    BY <1>3, <2>1, SlotsKept DEF CloseListener, IInv
  <2>3. Shape'
    BY <1>3, <2>1, NoneIsNoUser DEF CloseListener, StopGoes, IInv, Shape,
       TypeOK, LoopInv, SocketInv, MapInv, ToldInv, CallInv, ReadInv,
       Unchecked, InHand, Admitted, Entered
  <2> QED
    BY <2>2, <2>3 DEF IInv, Shape
<1>4. CASE Collect
  <2>1. Holders' = Holders
    BY <1>4, NoneIsNoUser DEF Collect, StopGoes, IInv, LoopInv, TypeOK,
       Holders, Admitted, InHand
  <2>2. SlotInv'
    BY <1>4, <2>1, SlotsKept DEF Collect, IInv
  <2>3. Shape'
    BY <1>4, <2>1, NoneIsNoUser DEF Collect, StopGoes, IInv, Shape, TypeOK,
       LoopInv, SocketInv, MapInv, ToldInv, CallInv, ReadInv, Unchecked,
       InHand, Admitted, Entered
  <2> QED
    BY <2>2, <2>3 DEF IInv, Shape
<1>5. CASE Return
  <2>1. Holders' = Holders
    BY <1>5, NoneIsNoUser DEF Return, StopGoes, IInv, LoopInv, TypeOK,
       Holders, Admitted, InHand
  <2>2. SlotInv'
    BY <1>5, <2>1, SlotsKept DEF Return, IInv
  <2>3. Shape'
    BY <1>5, <2>1, NoneIsNoUser DEF Return, StopGoes, IInv, Shape, TypeOK,
       LoopInv, SocketInv, MapInv, ToldInv, CallInv, ReadInv, Unchecked,
       InHand, Admitted, Entered
  <2> QED
    BY <2>2, <2>3 DEF IInv, Shape
<1> QED
  BY <1>1, <1>2, <1>3, <1>4, <1>5

(* Stop closes what it collected.                                          *)
LEMMA StopClosesUser ==
  ASSUME IInv, NEW c \in Users, CloseCollected(c)
  PROVE  IInv'
<1>1. Holders' = Holders
  BY NoneIsNoUser DEF CloseCollected, Closes, IInv, LoopInv, TypeOK, Holders,
     Admitted, InHand
<1>2. SlotInv'
  BY <1>1, SlotsKept DEF CloseCollected, IInv
<1>3. Shape'
  BY <1>1, NoneIsNoUser DEF CloseCollected, Closes, IInv, Shape, TypeOK,
     LoopInv, SocketInv, MapInv, ToldInv, CallInv, ReadInv, Unchecked, InHand,
     Admitted, Entered
<1> QED
  BY <1>2, <1>3 DEF IInv, Shape

-----------------------------------------------------------------------------
(* A proxy that has just started.                                          *)
LEMMA Initially == Init => IInv
<1> SUFFICES ASSUME Init PROVE IInv
  OBVIOUS
<1>1. Holders = {}
  BY DEF Init, Holders, Admitted, InHand
<1>2. SlotInv
  BY <1>1, FS_EmptySet DEF Init, SlotInv
<1>3. Shape
  BY <1>1, Limit, NoneIsNoUser DEF Init, Shape, TypeOK, LoopStates, LoopInv,
     SocketInv, MapInv, ToldInv, CallInv, ReadInv, Unchecked, InHand, Admitted,
     Entered
<1> QED
  BY <1>2, <1>3 DEF IInv, Shape

(* Every step of every goroutine keeps the invariant.                      *)
LEMMA Preserved == IInv /\ [Next]_vars => IInv'
<1> SUFFICES ASSUME IInv, [Next]_vars PROVE IInv'
  OBVIOUS
<1>1. CASE AcceptStep \/ AcceptError
  BY <1>1, AcceptSteps, AcceptUserSteps DEF AcceptStep
<1>2. CASE Mark \/ StopStep
  BY <1>2, StopSteps, StopClosesUser DEF StopStep, CloseCollected, IInv,
     TypeOK
<1>3. ASSUME NEW c \in Users,
             \/ UserConnects(c) \/ UserCloses(c) \/ Accept(c)
             \/ ReaderStep(c) \/ ReadData(c) \/ ReadFails(c)
             \/ LookUp(c) \/ CheckStopped(c) \/ Write(c) \/ CloseConn(c)
      PROVE  IInv'
  BY <1>3, UserSteps, AcceptUserSteps, ReaderSteps, HandlerSteps DEF
     ReaderStep
<1>4. CASE UNCHANGED vars
  <2>1. Holders' = Holders
    BY <1>4 DEF Holders, Admitted, InHand
  <2>2. SlotInv'
    BY <1>4, <2>1, SlotsKept DEF IInv
  <2>3. Shape'
    BY <1>4, <2>1 DEF IInv, Shape, TypeOK, LoopInv, SocketInv, MapInv,
       ToldInv, CallInv, ReadInv, Unchecked, InHand, Admitted, Entered
  <2> QED
    BY <2>2, <2>3 DEF IInv, Shape
<1> QED
  BY <1>1, <1>2, <1>3, <1>4 DEF Next

(* The invariant holds in every reachable state, for any number of users   *)
(* and slots.                                                              *)
THEOREM ProxyInductive == Spec => []IInv
BY Initially, Preserved, PTL DEF Spec

(* Never more sockets open than maxConns, whatever closes them: a user,    *)
(* the client, a read loop or Stop.                                        *)
THEOREM LimitKept == Spec => []OpenWithinLimit
<1> DEFINE Open == {c \in Users : sock[c] = "open" /\ ~ Unchecked(c)}
<1>1. IInv => OpenWithinLimit
  <2> SUFFICES ASSUME IInv PROVE Cardinality(Open) <= MaxConns
    BY DEF OpenWithinLimit
  <2>1. Open \subseteq Holders
    BY DEF IInv, SocketInv
  <2>2. IsFiniteSet(Holders) /\ connCount = Cardinality(Holders)
    BY DEF IInv, SlotInv
  <2>3. IsFiniteSet(Open) /\ Cardinality(Open) <= connCount
    BY <2>1, <2>2, FS_Subset
  <2>4. connCount \in 0..MaxConns /\ Cardinality(Open) \in Nat
    BY <2>3, FS_CardinalityType DEF IInv, TypeOK
  <2> QED
    BY <2>3, <2>4, Limit
<1> QED
  BY <1>1, ProxyInductive, PTL

(* After Stop has returned no bytes reach an external user, and no read    *)
(* loop is left that waits for bytes: every one has been woken, whichever  *)
(* way its poll of stopCh and Stop were interleaved.                       *)
THEOREM SilentAfterStop == Spec => []QuietAfterStop
<1>1. IInv => NoWriteAfterStop
  BY DEF IInv, MapInv, CallInv, ReadInv, NoWriteAfterStop
<1>2. IInv => NoReadAfterStop
  BY DEF IInv, MapInv, ReadInv, NoReadAfterStop
<1> QED
  BY <1>1, <1>2, ProxyInductive, PTL DEF QuietAfterStop

(* The map follows what the client has been told: an announced connection  *)
(* is found as long as it is open, and no ended one stays behind.          *)
THEOREM MapFollowsClient == Spec => [](AnnouncedIsKnown /\ NoStaleEntry)
<1>1. IInv => AnnouncedIsKnown /\ NoStaleEntry
  BY DEF IInv, MapInv, ToldInv, Entered, AnnouncedIsKnown, NoStaleEntry
<1> QED
  BY <1>1, ProxyInductive, PTL

-----------------------------------------------------------------------------
(* The promise to the client (module ConnSlots).                           *)

(* The accept loop takes a slot and announces the connection it is for.    *)
LEMMA LoopSlots ==
  ASSUME IInv, NEW c \in Users
  PROVE  /\ Admit(c) => Slots!Take(c)
         /\ Announce(c) => Slots!Open(c)
<1>1. ASSUME Admit(c) PROVE Slots!Take(c)
  <2>1. c \notin Holders /\ Holders' = Holders \cup {c}
    BY <1>1 DEF IInv, LoopInv, Holders, Admitted, InHand, Admit, LoopGoes
  <2>2. told[c] = "none" /\ told' = told
    BY <1>1 DEF IInv, TypeOK, LoopInv, ToldInv, InHand, Admit, LoopGoes
  <2>3. Cardinality(Holders) < MaxConns
    BY <1>1, Limit DEF IInv, TypeOK, SlotInv, Admit, Full
  <2>4. Slots!Cardinality(Holders) = Cardinality(Holders)
    BY Zenon DEF Slots!Cardinality, Cardinality
  <2> QED
    BY <2>1, <2>2, <2>3, <2>4 DEF Slots!Take
<1>2. ASSUME Announce(c) PROVE Slots!Open(c)
  <2>1. c \in Holders /\ Holders' = Holders
    BY <1>2 DEF IInv, LoopInv, Holders, Admitted, InHand, Announce, LoopGoes
  <2>2. told[c] = "none"
    BY <1>2 DEF IInv, TypeOK, LoopInv, ToldInv, InHand, Announce, LoopGoes
  <2> QED
    BY <1>2, <2>1, <2>2 DEF Slots!Open, Announce, Tells
<1> QED
  BY <1>1, <1>2

(* The read loop tells the client the end and gives the slot back.         *)
LEMMA ReaderSlots ==
  ASSUME IInv, NEW c \in Users
  PROVE  /\ TellClosed(c) => Slots!Close(c)
         /\ FreeSlot(c) => Slots!GiveBack(c)
<1>1. ASSUME TellClosed(c) PROVE Slots!Close(c)
  <2>1. c \in Holders /\ Holders' = Holders
    BY <1>1 DEF IInv, TypeOK, Holders, Admitted, InHand, TellClosed, ReaderGoes
  <2>2. told[c] = "conn_open"
    BY <1>1 DEF IInv, TypeOK, ToldInv, TellClosed, ReaderGoes
  <2> QED
    BY <1>1, <2>1, <2>2 DEF Slots!Close, TellClosed, Tells
<1>2. ASSUME FreeSlot(c) PROVE Slots!GiveBack(c)
  <2>1. c \in Holders /\ Holders' = Holders \ {c}
    BY <1>2 DEF IInv, TypeOK, LoopInv, Holders, Admitted, InHand, FreeSlot,
       ReaderGoes
  <2>2. told[c] = "conn_close"
    BY <1>2 DEF IInv, TypeOK, ToldInv, FreeSlot, ReaderGoes
  <2> QED
    BY <1>2, <2>1, <2>2 DEF Slots!GiveBack, FreeSlot
<1> QED
  BY <1>1, <1>2

(* No other step is seen: nobody else touches the slots or tells the       *)
(* client anything.                                                        *)
LEMMA OthersStutter ==
  ASSUME IInv, [Next]_vars,
         \A c \in Users : /\ ~ Admit(c) /\ ~ Announce(c)
                          /\ ~ TellClosed(c) /\ ~ FreeSlot(c)
  PROVE  UNCHANGED <<Holders, told>>
<1> USE NoneIsNoUser DEF IInv, TypeOK, LoopInv, LoopStates, Holders, Admitted,
      InHand
<1>1. CASE Poll \/ AcceptError
  BY <1>1 DEF Poll, AcceptError, LoopGoes
<1>2. ASSUME NEW c \in Users, Accept(c) \/ Reject(c) \/ Enter(c)
      PROVE  UNCHANGED <<Holders, told>>
  BY <1>2 DEF Accept, Reject, Enter, LoopGoes
<1>3. ASSUME NEW c \in Users, StartReader(c)
      PROVE  UNCHANGED <<Holders, told>>
  BY <1>3 DEF StartReader, LoopGoes, ReaderGoes
<1>4. ASSUME NEW c \in Users,
             \/ PollReader(c) \/ ReadData(c) \/ ReadFails(c)
             \/ CloseSocket(c) \/ RemoveEntry(c)
      PROVE  UNCHANGED <<Holders, told>>
  BY <1>4 DEF PollReader, ReadData, ReadFails, CloseSocket, RemoveEntry,
     ReaderGoes
<1>5. ASSUME NEW c \in Users,
             \/ UserConnects(c) \/ UserCloses(c) \/ LookUp(c)
             \/ CheckStopped(c) \/ Write(c) \/ CloseConn(c)
             \/ CloseCollected(c)
      PROVE  UNCHANGED <<Holders, told>>
  BY <1>5 DEF UserConnects, UserCloses, LookUp, CheckStopped, Write, CloseConn,
     CloseCollected
<1>6. CASE Mark \/ Signal \/ CloseListener \/ Collect \/ Return
  BY <1>6 DEF Mark, Signal, CloseListener, Collect, Return
<1>7. CASE UNCHANGED vars
  BY <1>7
<1> HIDE DEF IInv, TypeOK, LoopInv, LoopStates, Holders, Admitted, InHand
<1> QED
  BY <1>1, <1>2, <1>3, <1>4, <1>5, <1>6, <1>7 DEF Next, AcceptStep,
     ReaderStep, StopStep

(* The proxy implements ConnSlots: every step takes, announces, ends or    *)
(* frees one connection, in this order and within maxConns, or is not      *)
(* seen.                                                                   *)
THEOREM ProxyKeepsSlots == Spec => KeepsSlots
<1>1. ASSUME Init PROVE Slots!Init
  <2>1. Holders = {}
    BY <1>1 DEF Init, Holders, Admitted, InHand
  <2>2. told = [c \in Users |-> "none"]
    BY <1>1 DEF Init
  <2> QED
    BY <2>1, <2>2 DEF Slots!Init
<1>2. IInv /\ [Next]_vars => [Slots!Next]_<<Holders, told>>
  BY LoopSlots, ReaderSlots, OthersStutter DEF Slots!Next
<1> QED
  BY <1>1, <1>2, ProxyInductive, PTL DEF Spec, KeepsSlots, Slots!Spec

-----------------------------------------------------------------------------
(* Every variable keeps its range; the connection counter stays within the *)
(* limit and never turns negative.                                         *)
THEOREM ProxyTyped == Spec => []TypeOK
<1>1. IInv => TypeOK
  BY DEF IInv
<1> QED
  BY <1>1, ProxyInductive, PTL
=============================================================================
