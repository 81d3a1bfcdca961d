---------------------------- MODULE TunnelProofs ----------------------------
(***************************************************************************)
(* What travels towards the client finds its local connection, and what    *)
(* travels back the user's, for every capacity of the WebSocket.           *)
(***************************************************************************)
EXTENDS Tunnel, TLAPS

-----------------------------------------------------------------------------
(* Queues.                                                                 *)

Messages == {"open", "data", "close", "ack", "heartbeat"}

(* What an added message changes of the contents: it is added.             *)
LEMMA ContentsAppend ==
  ASSUME NEW q \in Seq(Messages), NEW m \in Messages
  PROVE  Contents(Append(q, m)) = Contents(q) \cup {m}
<1>1. Len(Append(q, m)) = Len(q) + 1 /\ Len(q) \in Nat
  OBVIOUS
<1>2. \A i \in 1..Len(q) : Append(q, m)[i] = q[i]
  OBVIOUS
<1>3. Append(q, m)[Len(q) + 1] = m
  OBVIOUS
<1>4. 1..(Len(q) + 1) = 1..Len(q) \cup {Len(q) + 1}
  BY <1>1
<1> QED
  BY <1>1, <1>2, <1>3, <1>4 DEF Contents

(* A received message leaves the others, and it was there.                 *)
LEMMA ContentsTail ==
  ASSUME NEW q \in Seq(Messages), q # <<>>
  PROVE  /\ Contents(Tail(q)) \subseteq Contents(q)
         /\ Head(q) \in Contents(q)
         /\ Contents(q) = {Head(q)} \cup Contents(Tail(q))
<1>1. Len(q) \in Nat \ {0} /\ Len(Tail(q)) = Len(q) - 1
  OBVIOUS
<1>2. \A i \in 1..(Len(q) - 1) : Tail(q)[i] = q[i + 1] /\ i + 1 \in 1..Len(q)
  BY <1>1
<1>3. Head(q) = q[1] /\ 1 \in 1..Len(q)
  BY <1>1
<1>4. ASSUME NEW i \in 1..Len(q)
      PROVE  i = 1 \/ \E j \in 1..(Len(q) - 1) : Tail(q)[j] = q[i]
  <2>1. CASE i = 1
    BY <2>1
  <2>2. CASE i # 1
    <3>1. i - 1 \in 1..(Len(q) - 1) /\ (i - 1) + 1 = i
      BY <1>1, <2>2
    <3> QED
      BY <1>2, <3>1
  <2> QED
    BY <2>1, <2>2
<1> QED
  BY <1>1, <1>2, <1>3, <1>4 DEF Contents

(* Receiving keeps the order.                                              *)
LEMMA OrderedTail ==
  ASSUME NEW q \in Seq(Messages), q # <<>>, Ordered(q)
  PROVE  Ordered(Tail(q))
<1>1. Len(q) \in Nat \ {0} /\ Len(Tail(q)) = Len(q) - 1
  OBVIOUS
<1>2. \A i \in 1..(Len(q) - 1) : Tail(q)[i] = q[i + 1] /\ i + 1 \in 1..Len(q)
  BY <1>1
<1> QED
  BY <1>1, <1>2 DEF Ordered

(* What may be sent without disturbing the order.                          *)
LEMMA OrderedAppend ==
  ASSUME NEW q \in Seq(Messages), NEW m \in Messages, Ordered(q),
         \/ m = "ack"
         \/ m = "open" /\ Contents(q) \subseteq {"ack"}
         \/ m # "open" /\ "close" \notin Contents(q)
  PROVE  Ordered(Append(q, m))
<1>1. Len(Append(q, m)) = Len(q) + 1 /\ Len(q) \in Nat
  OBVIOUS
<1>2. \A i \in 1..Len(q) : Append(q, m)[i] = q[i] /\ q[i] \in Contents(q)
  BY DEF Contents
<1>3. Append(q, m)[Len(q) + 1] = m
  OBVIOUS
<1>4. ASSUME NEW i \in 1..(Len(q) + 1), NEW j \in 1..(Len(q) + 1), i < j
      PROVE  i \in 1..Len(q) /\ (j \in 1..Len(q) \/ j = Len(q) + 1)
  BY <1>1, <1>4
<1> QED
  BY <1>1, <1>2, <1>3, <1>4 DEF Ordered

(* After data, or after conn_close, no conn_open can be under way; after   *)
(* conn_close nothing of the stream can.                                   *)
LEMMA OrderedHead ==
  ASSUME NEW q \in Seq(Messages), q # <<>>, Ordered(q)
  PROVE  /\ Head(q) \in {"data", "close"} => "open" \notin Contents(q)
         /\ Head(q) = "close" => Contents(Tail(q)) \subseteq {"ack"}
         /\ Head(q) = "open" => "open" \notin Contents(Tail(q))
<1>1. Len(q) \in Nat \ {0} /\ Len(Tail(q)) = Len(q) - 1 /\ Head(q) = q[1]
  OBVIOUS
<1>2. \A i \in 1..(Len(q) - 1) : Tail(q)[i] = q[i + 1] /\ i + 1 \in 1..Len(q)
                                 /\ 1 < i + 1
  BY <1>1
<1>3. \A i \in 1..Len(q) : i = 1 \/ 1 < i
  BY <1>1
<1>4. 1 \in 1..Len(q)
  BY <1>1
<1>5. Head(q) \in {"data", "close"} => "open" \notin Contents(q)
  BY <1>1, <1>3, <1>4 DEF Ordered, Contents
<1>6. Head(q) = "close" => Contents(Tail(q)) \subseteq {"ack"}
  BY <1>1, <1>2, <1>4 DEF Ordered, Contents
<1>7. Head(q) = "open" => "open" \notin Contents(Tail(q))
  BY <1>1, <1>2, <1>4 DEF Ordered, Contents
<1> QED
  BY <1>5, <1>6, <1>7

(* The empty queue.                                                        *)
LEMMA Nothing ==
  /\ Contents(<<>>) = {} /\ Ordered(<<>>)
  /\ Len(<<>>) <= Cap /\ \A S : <<>> \in Seq(S)
<1>1. Contents(<<>>) = {} /\ Ordered(<<>>)
  BY DEF Contents, Ordered
<1>2. Len(<<>>) <= Cap
  BY CapAssumption
<1>3. \A S : <<>> \in Seq(S)
  OBVIOUS
<1> QED
  BY <1>1, <1>2, <1>3

-----------------------------------------------------------------------------
(* Sending and receiving, as the steps use them.                           *)

(* The variables' ranges as the queue lemmas want them.                    *)
LEMMA Queues ==
  ASSUME TypeOK
  PROVE  /\ down \in Seq(Messages) /\ up \in Seq(Messages)
         /\ Len(down) \in Nat /\ Len(up) \in Nat
<1>1. ASSUME NEW S \in SUBSET Messages, NEW q \in Seq(S)
      PROVE  q \in Seq(Messages) /\ Len(q) \in Nat
  OBVIOUS
<1> QED
  BY <1>1 DEF TypeOK, Messages

(* A message towards the client.                                           *)
LEMMA SentDown ==
  ASSUME TypeOK, NEW a, NEW m \in {"open", "data", "close", "ack"}, SendDown(a, m)
  PROVE  /\ down' \in Seq({"open", "data", "close", "ack"}) /\ Len(down') <= Cap
         /\ up' = up /\ ws' = ws /\ smu' = "free"
         /\ ws = "down" => down' = down
         /\ ws # "down" => Contents(down') = Contents(down) \cup {m}
         /\ ws # "down" /\ Ordered(down)
            /\ (\/ m = "ack"
                \/ m = "open" /\ Contents(down) \subseteq {"ack"}
                \/ m # "open" /\ "close" \notin Contents(down))
            => Ordered(down')
<1>1. down \in Seq(Messages) /\ m \in Messages
  BY Queues DEF Messages
<1>2. down' = down \/ (ws # "down" /\ Len(down) < Cap /\ down' = Append(down, m))
  BY DEF SendDown
<1>3. down' \in Seq({"open", "data", "close", "ack"}) /\ Len(down') <= Cap
  BY <1>2, CapAssumption DEF TypeOK
<1>4. ws # "down" => Contents(down') = Contents(down) \cup {m}
  BY <1>1, ContentsAppend DEF SendDown
<1>5. ws # "down" => down' = Append(down, m)
  BY DEF SendDown
<1> QED
  BY <1>1, <1>3, <1>4, <1>5, OrderedAppend DEF SendDown

(* A message towards the server.                                           *)
LEMMA SentUp ==
  ASSUME TypeOK, NEW a, NEW m \in {"data", "close", "heartbeat"}, SendUp(a, m)
  PROVE  /\ up' \in Seq({"data", "close", "heartbeat"}) /\ Len(up') <= Cap
         /\ down' = down /\ ws' = ws /\ cmu' = "free"
         /\ ws = "down" => up' = up
         /\ ws # "down" => Contents(up') = Contents(up) \cup {m}
<1>1. up \in Seq(Messages) /\ m \in Messages
  BY Queues DEF Messages
<1>2. up' = up \/ (ws # "down" /\ Len(up) < Cap /\ up' = Append(up, m))
  BY DEF SendUp
<1>3. up' \in Seq({"data", "close", "heartbeat"}) /\ Len(up') <= Cap
  BY <1>2, CapAssumption DEF TypeOK
<1>4. ws # "down" => Contents(up') = Contents(up) \cup {m}
  BY <1>1, ContentsAppend DEF SendUp
<1> QED
  BY <1>3, <1>4 DEF SendUp

(* The client receives.                                                    *)
LEMMA GotDown ==
  ASSUME TypeOK, WireInv, NEW m, Receive(down, m), down' = Tail(down)
  PROVE  /\ down' \in Seq({"open", "data", "close", "ack"}) /\ Len(down') <= Cap
         /\ ws = "up" /\ m \in Contents(down)
         /\ Contents(down) = {m} \cup Contents(down')
         /\ Ordered(down) =>
              /\ Ordered(down')
              /\ m \in {"data", "close"} => "open" \notin Contents(down)
              /\ m = "close" => Contents(down') \subseteq {"ack"}
              /\ m = "open" => "open" \notin Contents(down')
<1>1. down \in Seq(Messages) /\ down # <<>> /\ Head(down) = m
  BY Queues DEF Receive
<1>2. down' \in Seq({"open", "data", "close", "ack"}) /\ Len(down') <= Cap
  BY <1>1, CapAssumption DEF TypeOK
<1>3. ws = "up"
  BY <1>1 DEF WireInv, TypeOK
<1> QED
  BY <1>1, <1>2, <1>3, ContentsTail, OrderedTail, OrderedHead

(* The server receives.                                                    *)
LEMMA GotUp ==
  ASSUME TypeOK, WireInv, NEW m, Receive(up, m), up' = Tail(up)
  PROVE  /\ up' \in Seq({"data", "close", "heartbeat"}) /\ Len(up') <= Cap
         /\ ws = "up" /\ m \in Contents(up)
         /\ Contents(up) = {m} \cup Contents(up')
<1>1. up \in Seq(Messages) /\ up # <<>> /\ Head(up) = m
  BY Queues DEF Receive
<1>2. up' \in Seq({"data", "close", "heartbeat"}) /\ Len(up') <= Cap
  BY <1>1, CapAssumption DEF TypeOK
<1>3. ws = "up"
  BY <1>1 DEF WireInv, TypeOK
<1> QED
  BY <1>1, <1>2, <1>3, ContentsTail

-----------------------------------------------------------------------------
(* The steps.                                                              *)

(* Taking a lock changes nothing else.                                     *)
LEMMA LocksKeep ==
  ASSUME IInv, AcceptLocks \/ LoopLocks \/ HandlerLocks \/ MainLocks \/
     PumpLocks \/ BeatLocks
  PROVE  IInv'
<1>1. TypeOK'
  BY DEF AcceptLocks, LoopLocks, HandlerLocks, MainLocks, PumpLocks,
     BeatLocks, TakeServerLock, TakeClientLock, client, wire, ends, server,
     IInv, TypeOK
<1>2. WireInv'
  BY DEF AcceptLocks, LoopLocks, HandlerLocks, MainLocks, PumpLocks,
     BeatLocks, TakeServerLock, TakeClientLock, client, wire, ends, server,
     IInv, TypeOK, WireInv
<1>3. ws' = "up" => OpenInv'
  BY DEF AcceptLocks, LoopLocks, HandlerLocks, MainLocks, PumpLocks,
     BeatLocks, TakeServerLock, TakeClientLock, client, wire, ends, server,
     IInv, TypeOK, WireInv, OpenInv
<1>4. ws' = "up" /\ svc' # "gone" => DownInv'
  BY DEF AcceptLocks, LoopLocks, HandlerLocks, MainLocks, PumpLocks,
     BeatLocks, TakeServerLock, TakeClientLock, client, wire, ends, server,
     IInv, TypeOK, WireInv, OpenInv, DownInv, OpensOrOpen
<1>5. ws' = "up" /\ svc' # "gone" /\ user' # "gone" => UpInv'
  BY DEF AcceptLocks, LoopLocks, HandlerLocks, MainLocks, PumpLocks,
     BeatLocks, TakeServerLock, TakeClientLock, client, wire, ends, server,
     IInv, TypeOK, WireInv, OpenInv, DownInv, UpInv, OpensOrOpen
<1> QED
  BY <1>1, <1>2, <1>3, <1>4, <1>5 DEF IInv

(* An end that leaves only makes the invariant weaker.                     *)
LEMMA LeavingKeeps ==
  ASSUME IInv, UserLeaves \/ SvcCloses
  PROVE  IInv'
<1>1. TypeOK'
  BY DEF UserLeaves, SvcCloses, server, client, wire, IInv, TypeOK
<1>2. WireInv'
  BY DEF UserLeaves, SvcCloses, server, client, wire, IInv, TypeOK, WireInv
<1>3. ws' = "up" => OpenInv'
  BY DEF UserLeaves, SvcCloses, server, client, wire, IInv, TypeOK, WireInv,
     OpenInv
<1>4. ws' = "up" /\ svc' # "gone" => DownInv'
  BY DEF UserLeaves, SvcCloses, server, client, wire, IInv, TypeOK, WireInv,
     OpenInv, DownInv, OpensOrOpen
<1>5. ws' = "up" /\ svc' # "gone" /\ user' # "gone" => UpInv'
  BY DEF UserLeaves, SvcCloses, server, client, wire, IInv, TypeOK, WireInv,
     OpenInv, DownInv, UpInv, OpensOrOpen
<1> QED
  BY <1>1, <1>2, <1>3, <1>4, <1>5 DEF IInv

(* A connection that breaks loses what is under way.                       *)
LEMMA BreakKeeps ==
  ASSUME IInv, TimesOut \/ ConnectionLost
  PROVE  IInv'
<1>1. TypeOK'
  BY Nothing DEF TimesOut, ConnectionLost, CloseWs, server, client, ends,
     IInv, TypeOK
<1>2. WireInv'
  BY Nothing DEF TimesOut, ConnectionLost, CloseWs, server, client, ends,
     IInv, TypeOK, WireInv
<1>3. ws' = "up" => OpenInv'
  BY Nothing DEF TimesOut, ConnectionLost, CloseWs, server, client, ends,
     IInv, TypeOK, WireInv, OpenInv
<1>4. ws' = "up" /\ svc' # "gone" => DownInv'
  BY Nothing DEF TimesOut, ConnectionLost, CloseWs, server, client, ends,
     IInv, TypeOK, WireInv, OpenInv, DownInv, OpensOrOpen
<1>5. ws' = "up" /\ svc' # "gone" /\ user' # "gone" => UpInv'
  BY Nothing DEF TimesOut, ConnectionLost, CloseWs, server, client, ends,
     IInv, TypeOK, WireInv, OpenInv, DownInv, UpInv, OpensOrOpen
<1> QED
  BY <1>1, <1>2, <1>3, <1>4, <1>5 DEF IInv

(* A new stream finds nothing left of the last one.                        *)
LEMMA AcceptKeeps ==
  ASSUME IInv, Accept
  PROVE  IInv'
<1>1. TypeOK'
  BY DEF Accept, Forgotten, client, wire, IInv, TypeOK
<1>2. WireInv'
  BY DEF Accept, Forgotten, client, wire, IInv, TypeOK, WireInv
<1>3. ws' = "up" => OpenInv'
  BY DEF Accept, Forgotten, client, wire, IInv, TypeOK, WireInv, OpenInv
<1>4. ws' = "up" /\ svc' # "gone" => DownInv'
  <2>1. \A i \in 1..Len(down) : down[i] \in {"open", "data", "close", "ack"}
    BY DEF IInv, TypeOK
  <2>2. Contents(down) \subseteq {"ack"}
    BY <2>1 DEF Accept, Forgotten, Contents
  <2>3. Ordered(down)
    BY <2>2 DEF Contents, Ordered
  <2>4. down' = down /\ loop' = "off" /\ main' \in {"reading", "left"}
    BY DEF Accept, Forgotten, client, wire
  <2>5. Ordered(down') /\ Contents(down') \subseteq {"ack"}
    BY <2>2, <2>3, <2>4
  <2> QED
    BY <2>4, <2>5 DEF DownInv
<1>5. ws' = "up" /\ svc' # "gone" /\ user' # "gone" => UpInv'
  BY DEF Accept, Forgotten, client, wire, IInv, TypeOK, WireInv, OpenInv,
     DownInv, UpInv, OpensOrOpen
<1> QED
  BY <1>1, <1>2, <1>3, <1>4, <1>5 DEF IInv

(* conn_open is the first of the stream on the wire.                       *)
LEMMA AnnounceKeeps ==
  ASSUME IInv, Announce
  PROVE  IInv'
<1>1. /\ down' \in Seq({"open", "data", "close", "ack"}) /\ Len(down') <= Cap
      /\ up' = up /\ ws' = ws /\ smu' = "free"
      /\ ws = "down" => down' = down
      /\ ws # "down" => Contents(down') = Contents(down) \cup {"open"}
      /\ ws # "down" /\ DownInv => Ordered(down')
  BY SentDown DEF Announce, IInv, DownInv
<1>2. TypeOK'
  BY <1>1 DEF Announce, client, ends, IInv, TypeOK
<1>3. WireInv'
  BY <1>1 DEF Announce, client, ends, IInv, TypeOK, WireInv
<1>4. ws' = "up" => OpenInv'
  BY <1>1 DEF Announce, client, ends, IInv, TypeOK, WireInv, OpenInv, DownInv
<1>5. ws' = "up" /\ svc' # "gone" => DownInv'
  BY <1>1 DEF Announce, client, ends, IInv, TypeOK, WireInv, OpenInv, DownInv,
     OpensOrOpen
<1>6. ws' = "up" /\ svc' # "gone" /\ user' # "gone" => UpInv'
  BY <1>1 DEF Announce, client, ends, IInv, TypeOK, WireInv, OpenInv, DownInv,
     UpInv, OpensOrOpen
<1> QED
  BY <1>2, <1>3, <1>4, <1>5, <1>6 DEF IInv

(* The user's data is read, or the user has gone.                          *)
LEMMA LoopReadsKeep ==
  ASSUME IInv, LoopReads \/ LoopReadFails
  PROVE  IInv'
<1>1. TypeOK'
  BY DEF LoopReads, LoopReadFails, client, wire, ends, IInv, TypeOK
<1>2. WireInv'
  BY DEF LoopReads, LoopReadFails, client, wire, ends, IInv, TypeOK, WireInv
<1>3. ws' = "up" => OpenInv'
  BY DEF LoopReads, LoopReadFails, client, wire, ends, IInv, TypeOK, WireInv,
     OpenInv
<1>4. ws' = "up" /\ svc' # "gone" => DownInv'
  BY DEF LoopReads, LoopReadFails, client, wire, ends, IInv, TypeOK, WireInv,
     OpenInv, DownInv, OpensOrOpen
<1>5. ws' = "up" /\ svc' # "gone" /\ user' # "gone" => UpInv'
  BY DEF LoopReads, LoopReadFails, client, wire, ends, IInv, TypeOK, WireInv,
     OpenInv, DownInv, UpInv, OpensOrOpen
<1> QED
  BY <1>1, <1>2, <1>3, <1>4, <1>5 DEF IInv

(* Data follows its conn_open.                                             *)
LEMMA LoopSendsKeeps ==
  ASSUME IInv, LoopSends
  PROVE  IInv'
<1>1. /\ down' \in Seq({"open", "data", "close", "ack"}) /\ Len(down') <= Cap
      /\ up' = up /\ ws' = ws /\ smu' = "free"
      /\ ws = "down" => down' = down
      /\ ws # "down" => Contents(down') = Contents(down) \cup {"data"}
      /\ ws # "down" /\ DownInv => Ordered(down')
  BY SentDown DEF LoopSends, IInv, DownInv
<1>2. TypeOK'
  BY <1>1 DEF LoopSends, Stopped, client, ends, IInv, TypeOK
<1>3. WireInv'
  BY <1>1 DEF LoopSends, Stopped, client, ends, IInv, TypeOK, WireInv
<1>4. ws' = "up" => OpenInv'
  BY <1>1 DEF LoopSends, Stopped, client, ends, IInv, TypeOK, WireInv, OpenInv
<1>5. ws' = "up" /\ svc' # "gone" => DownInv'
  BY <1>1 DEF LoopSends, Stopped, client, ends, IInv, TypeOK, WireInv,
     OpenInv, DownInv, OpensOrOpen
<1>6. ws' = "up" /\ svc' # "gone" /\ user' # "gone" => UpInv'
  BY <1>1 DEF LoopSends, Stopped, client, ends, IInv, TypeOK, WireInv,
     OpenInv, DownInv, UpInv, OpensOrOpen
<1> QED
  BY <1>2, <1>3, <1>4, <1>5, <1>6 DEF IInv

(* conn_close is the last of the stream on the wire.                       *)
LEMMA LoopEndsKeeps ==
  ASSUME IInv, LoopEnds
  PROVE  IInv'
<1>1. /\ down' \in Seq({"open", "data", "close", "ack"}) /\ Len(down') <= Cap
      /\ up' = up /\ ws' = ws /\ smu' = "free"
      /\ ws = "down" => down' = down
      /\ ws # "down" => Contents(down') = Contents(down) \cup {"close"}
      /\ ws # "down" /\ DownInv => Ordered(down')
  BY SentDown DEF LoopEnds, IInv, DownInv
<1>2. TypeOK'
  <2>1. sconn' = FALSE /\ lconn' = lconn
    BY DEF LoopEnds, client
  <2>2. sconn' \in BOOLEAN /\ lconn' \in BOOLEAN
    BY <2>1 DEF IInv, TypeOK
  <2> QED
    BY <1>1, <2>2 DEF LoopEnds, client, ends, IInv, TypeOK
<1>3. WireInv'
  BY <1>1 DEF LoopEnds, client, ends, IInv, TypeOK, WireInv
<1>4. ws' = "up" => OpenInv'
  BY <1>1 DEF LoopEnds, client, ends, IInv, TypeOK, WireInv, OpenInv
<1>5. ws' = "up" /\ svc' # "gone" => DownInv'
  BY <1>1 DEF LoopEnds, client, ends, IInv, TypeOK, WireInv, OpenInv, DownInv,
     OpensOrOpen
<1>6. ws' = "up" /\ svc' # "gone" /\ user' # "gone" => UpInv'
  BY <1>1 DEF LoopEnds, client, ends, IInv, TypeOK, WireInv, OpenInv, DownInv,
     UpInv, OpensOrOpen
<1> QED
  BY <1>2, <1>3, <1>4, <1>5, <1>6 DEF IInv

(* An acknowledgement may come anywhere.                                   *)
LEMMA HandlerAcksKeeps ==
  ASSUME IInv, HandlerAcks
  PROVE  IInv'
<1>1. /\ down' \in Seq({"open", "data", "close", "ack"}) /\ Len(down') <= Cap
      /\ up' = up /\ ws' = ws /\ smu' = "free"
      /\ ws = "down" => down' = down
      /\ ws # "down" => Contents(down') = Contents(down) \cup {"ack"}
      /\ ws # "down" /\ DownInv => Ordered(down')
  BY SentDown DEF HandlerAcks, IInv, DownInv
<1>2. TypeOK'
  BY <1>1 DEF HandlerAcks, client, ends, IInv, TypeOK
<1>3. WireInv'
  BY <1>1 DEF HandlerAcks, client, ends, IInv, TypeOK, WireInv
<1>4. ws' = "up" => OpenInv'
  BY <1>1 DEF HandlerAcks, client, ends, IInv, TypeOK, WireInv, OpenInv
<1>5. ws' = "up" /\ svc' # "gone" => DownInv'
  BY <1>1 DEF HandlerAcks, client, ends, IInv, TypeOK, WireInv, OpenInv,
     DownInv, OpensOrOpen
<1>6. ws' = "up" /\ svc' # "gone" /\ user' # "gone" => UpInv'
  BY <1>1 DEF HandlerAcks, client, ends, IInv, TypeOK, WireInv, OpenInv,
     DownInv, UpInv, OpensOrOpen
<1> QED
  BY <1>2, <1>3, <1>4, <1>5, <1>6 DEF IInv

(* The server reads a heartbeat or data.                                   *)
LEMMA HandlerReadsKeep ==
  ASSUME IInv, HandlerReadsBeat \/ HandlerReadsData
  PROVE  IInv'
<1>1. PICK m \in {"heartbeat", "data"} :
        /\ Receive(up, m) /\ up' = Tail(up)
        /\ (m = "heartbeat" /\ HandlerReadsBeat) \/ (m = "data" /\ HandlerReadsData)
  BY DEF HandlerReadsBeat, HandlerReadsData, HandlerReads
<1>2. /\ up' \in Seq({"data", "close", "heartbeat"}) /\ Len(up') <= Cap
      /\ ws = "up" /\ m \in Contents(up)
      /\ Contents(up) = {m} \cup Contents(up')
  BY <1>1, GotUp DEF IInv
<1>3. TypeOK'
  BY <1>1, <1>2 DEF HandlerReadsBeat, HandlerReadsData, HandlerReads, client,
     ends, IInv, TypeOK
<1>4. WireInv'
  BY <1>1, <1>2 DEF HandlerReadsBeat, HandlerReadsData, HandlerReads, client,
     ends, IInv, TypeOK, WireInv
<1>5. ws' = "up" => OpenInv'
  BY <1>1, <1>2 DEF HandlerReadsBeat, HandlerReadsData, HandlerReads, client,
     ends, IInv, TypeOK, WireInv, OpenInv
<1>6. ws' = "up" /\ svc' # "gone" => DownInv'
  BY <1>1, <1>2 DEF HandlerReadsBeat, HandlerReadsData, HandlerReads, client,
     ends, IInv, TypeOK, WireInv, OpenInv, DownInv, OpensOrOpen
<1>7. ws' = "up" /\ svc' # "gone" /\ user' # "gone" => UpInv'
  BY <1>1, <1>2 DEF HandlerReadsBeat, HandlerReadsData, HandlerReads, client,
     ends, IInv, TypeOK, WireInv, OpenInv, DownInv, UpInv, OpensOrOpen
<1> QED
  BY <1>3, <1>4, <1>5, <1>6, <1>7 DEF IInv

(* conn_close comes only from a stream an end has left.                    *)
LEMMA HandlerReadsCloseKeeps ==
  ASSUME IInv, HandlerReadsClose
  PROVE  IInv'
<1>1. PICK m \in {"close"} :
        /\ Receive(up, m) /\ up' = Tail(up)
        /\ HandlerReadsClose
  BY DEF HandlerReadsClose, HandlerReads
<1>2. /\ up' \in Seq({"data", "close", "heartbeat"}) /\ Len(up') <= Cap
      /\ ws = "up" /\ m \in Contents(up)
      /\ Contents(up) = {m} \cup Contents(up')
  BY <1>1, GotUp DEF IInv
<1>3. TypeOK'
  BY <1>1, <1>2 DEF HandlerReadsClose, HandlerReads, client, ends, IInv,
     TypeOK
<1>4. WireInv'
  BY <1>1, <1>2 DEF HandlerReadsClose, HandlerReads, client, ends, IInv,
     TypeOK, WireInv
<1>5. ws' = "up" => OpenInv'
  BY <1>1, <1>2 DEF HandlerReadsClose, HandlerReads, client, ends, IInv,
     TypeOK, WireInv, OpenInv
<1>6. ws' = "up" /\ svc' # "gone" => DownInv'
  BY <1>1, <1>2 DEF HandlerReadsClose, HandlerReads, client, ends, IInv,
     TypeOK, WireInv, OpenInv, DownInv, OpensOrOpen
<1>7. ws' = "up" /\ svc' # "gone" /\ user' # "gone" => UpInv'
  BY <1>1, <1>2 DEF HandlerReadsClose, HandlerReads, client, ends, IInv,
     TypeOK, WireInv, OpenInv, DownInv, UpInv, OpensOrOpen
<1> QED
  BY <1>3, <1>4, <1>5, <1>6, <1>7 DEF IInv

(* The handler writes to the user, or ends with the connection.            *)
LEMMA HandlerOtherKeeps ==
  ASSUME IInv, HandlerWrites \/ HandlerLeaves
  PROVE  IInv'
<1>1. TypeOK'
  BY DEF HandlerWrites, HandlerLeaves, client, wire, ends, IInv, TypeOK
<1>2. WireInv'
  BY DEF HandlerWrites, HandlerLeaves, client, wire, ends, IInv, TypeOK,
     WireInv
<1>3. ws' = "up" => OpenInv'
  BY DEF HandlerWrites, HandlerLeaves, client, wire, ends, IInv, TypeOK,
     WireInv, OpenInv
<1>4. ws' = "up" /\ svc' # "gone" => DownInv'
  BY DEF HandlerWrites, HandlerLeaves, client, wire, ends, IInv, TypeOK,
     WireInv, OpenInv, DownInv, OpensOrOpen
<1>5. ws' = "up" /\ svc' # "gone" /\ user' # "gone" => UpInv'
  BY DEF HandlerWrites, HandlerLeaves, client, wire, ends, IInv, TypeOK,
     WireInv, OpenInv, DownInv, UpInv, OpensOrOpen
<1> QED
  BY <1>1, <1>2, <1>3, <1>4, <1>5 DEF IInv

(* The client reads an acknowledgement, conn_open or data.                 *)
LEMMA MainReadsKeep ==
  ASSUME IInv, MainReadsAck \/ MainReadsOpen \/ MainReadsData
  PROVE  IInv'
<1>1. PICK m \in {"ack", "open", "data"} :
        /\ Receive(down, m) /\ down' = Tail(down)
        /\ \/ m = "ack" /\ MainReadsAck
           \/ m = "open" /\ MainReadsOpen
           \/ m = "data" /\ MainReadsData
  BY DEF MainReadsAck, MainReadsOpen, MainReadsData, MainReads
<1>2. /\ down' \in Seq({"open", "data", "close", "ack"}) /\ Len(down') <= Cap
      /\ ws = "up" /\ m \in Contents(down)
      /\ Contents(down) = {m} \cup Contents(down')
      /\ Ordered(down) =>
           /\ Ordered(down')
           /\ m \in {"data", "close"} => "open" \notin Contents(down)
           /\ m = "close" => Contents(down') \subseteq {"ack"}
           /\ m = "open" => "open" \notin Contents(down')
  BY <1>1, GotDown DEF IInv
<1>3. TypeOK'
  BY <1>1, <1>2 DEF MainReadsAck, MainReadsOpen, MainReadsData, MainReads,
     server, client, ends, IInv, TypeOK
<1>4. WireInv'
  BY <1>1, <1>2 DEF MainReadsAck, MainReadsOpen, MainReadsData, MainReads,
     server, client, ends, IInv, TypeOK, WireInv
<1>5. ws' = "up" => OpenInv'
  BY <1>1, <1>2 DEF MainReadsAck, MainReadsOpen, MainReadsData, MainReads,
     server, client, ends, IInv, TypeOK, WireInv, OpenInv, DownInv
<1>6. ws' = "up" /\ svc' # "gone" => DownInv'
  BY <1>1, <1>2 DEF MainReadsAck, MainReadsOpen, MainReadsData, MainReads,
     server, client, ends, IInv, TypeOK, WireInv, OpenInv, DownInv,
     OpensOrOpen
<1>7. ws' = "up" /\ svc' # "gone" /\ user' # "gone" => UpInv'
  BY <1>1, <1>2 DEF MainReadsAck, MainReadsOpen, MainReadsData, MainReads,
     server, client, ends, IInv, TypeOK, WireInv, OpenInv, DownInv, UpInv,
     OpensOrOpen
<1> QED
  BY <1>3, <1>4, <1>5, <1>6, <1>7 DEF IInv

(* After conn_close nothing of the stream comes to the client.             *)
LEMMA MainReadsCloseKeeps ==
  ASSUME IInv, MainReadsClose
  PROVE  IInv'
<1>1. PICK m \in {"close"} :
        /\ Receive(down, m) /\ down' = Tail(down)
        /\ MainReadsClose
  BY DEF MainReadsClose, MainReads
<1>2. /\ down' \in Seq({"open", "data", "close", "ack"}) /\ Len(down') <= Cap
      /\ ws = "up" /\ m \in Contents(down)
      /\ Contents(down) = {m} \cup Contents(down')
      /\ Ordered(down) =>
           /\ Ordered(down')
           /\ m \in {"data", "close"} => "open" \notin Contents(down)
           /\ m = "close" => Contents(down') \subseteq {"ack"}
           /\ m = "open" => "open" \notin Contents(down')
  BY <1>1, GotDown DEF IInv
<1>3. TypeOK'
  <2>1. sconn' = sconn /\ lconn' = FALSE
    BY DEF MainReadsClose, server
  <2>2. sconn' \in BOOLEAN /\ lconn' \in BOOLEAN
    BY <2>1 DEF IInv, TypeOK
  <2> QED
    BY <1>2, <2>2 DEF MainReadsClose, server, ends, IInv, TypeOK
<1>4. WireInv'
  BY <1>1, <1>2 DEF MainReadsClose, MainReads, server, ends, IInv, TypeOK,
     WireInv
<1>5. ws' = "up" => OpenInv'
  BY <1>1, <1>2 DEF MainReadsClose, MainReads, server, ends, IInv, TypeOK,
     WireInv, OpenInv
<1>6. ws' = "up" /\ svc' # "gone" => DownInv'
  BY <1>1, <1>2 DEF MainReadsClose, MainReads, server, ends, IInv, TypeOK,
     WireInv, OpenInv, DownInv, OpensOrOpen
<1>7. ws' = "up" /\ svc' # "gone" /\ user' # "gone" => UpInv'
  BY <1>1, <1>2 DEF MainReadsClose, MainReads, server, ends, IInv, TypeOK,
     WireInv, OpenInv, DownInv, UpInv, OpensOrOpen
<1> QED
  BY <1>3, <1>4, <1>5, <1>6, <1>7 DEF IInv

(* The client dials: the local connection that is about to be there is.    *)
LEMMA LocalDialKeeps ==
  ASSUME IInv, LocalDial
  PROVE  IInv'
<1>1. TypeOK'
  BY DEF LocalDial, server, wire, IInv, TypeOK
<1>2. WireInv'
  BY DEF LocalDial, server, wire, IInv, TypeOK, WireInv
<1>3. ws' = "up" => OpenInv'
  BY DEF LocalDial, server, wire, IInv, TypeOK, WireInv, OpenInv
<1>4. ws' = "up" /\ svc' # "gone" => DownInv'
  BY DEF LocalDial, server, wire, IInv, TypeOK, WireInv, OpenInv, DownInv,
     OpensOrOpen
<1>5. ws' = "up" /\ svc' # "gone" /\ user' # "gone" => UpInv'
  BY DEF LocalDial, server, wire, IInv, TypeOK, WireInv, OpenInv, DownInv,
     UpInv, OpensOrOpen
<1> QED
  BY <1>1, <1>2, <1>3, <1>4, <1>5 DEF IInv

(* A service that refuses has left.                                        *)
LEMMA LocalDialFailsKeeps ==
  ASSUME IInv, LocalDialFails
  PROVE  IInv'
<1>1. TypeOK'
  BY DEF LocalDialFails, server, wire, IInv, TypeOK
<1>2. WireInv'
  BY DEF LocalDialFails, server, wire, IInv, TypeOK, WireInv
<1>3. ws' = "up" => OpenInv'
  BY DEF LocalDialFails, server, wire, IInv, TypeOK, WireInv, OpenInv
<1>4. ws' = "up" /\ svc' # "gone" => DownInv'
  BY DEF LocalDialFails, server, wire, IInv, TypeOK, WireInv, OpenInv,
     DownInv, OpensOrOpen
<1>5. ws' = "up" /\ svc' # "gone" /\ user' # "gone" => UpInv'
  BY DEF LocalDialFails, server, wire, IInv, TypeOK, WireInv, OpenInv,
     DownInv, UpInv, OpensOrOpen
<1> QED
  BY <1>1, <1>2, <1>3, <1>4, <1>5 DEF IInv

(* The client writes to the service, or ends its session.                  *)
LEMMA LocalWritesKeep ==
  ASSUME IInv, LocalWrite \/ LocalWriteFails \/ MainLeaves
  PROVE  IInv'
<1>1. TypeOK'
  BY DEF LocalWrite, LocalWriteFails, MainLeaves, server, wire, ends, IInv,
     TypeOK
<1>2. WireInv'
  BY DEF LocalWrite, LocalWriteFails, MainLeaves, server, wire, ends, IInv,
     TypeOK, WireInv
<1>3. ws' = "up" => OpenInv'
  BY DEF LocalWrite, LocalWriteFails, MainLeaves, server, wire, ends, IInv,
     TypeOK, WireInv, OpenInv
<1>4. ws' = "up" /\ svc' # "gone" => DownInv'
  BY DEF LocalWrite, LocalWriteFails, MainLeaves, server, wire, ends, IInv,
     TypeOK, WireInv, OpenInv, DownInv, OpensOrOpen
<1>5. ws' = "up" /\ svc' # "gone" /\ user' # "gone" => UpInv'
  BY DEF LocalWrite, LocalWriteFails, MainLeaves, server, wire, ends, IInv,
     TypeOK, WireInv, OpenInv, DownInv, UpInv, OpensOrOpen
<1> QED
  BY <1>1, <1>2, <1>3, <1>4, <1>5 DEF IInv

(* Only a stream an end has left is refused.                               *)
LEMMA MainRefusesKeeps ==
  ASSUME IInv, MainRefuses
  PROVE  IInv'
<1>1. /\ up' \in Seq({"data", "close", "heartbeat"}) /\ Len(up') <= Cap
      /\ down' = down /\ ws' = ws /\ cmu' = "free"
      /\ ws = "down" => up' = up
      /\ ws # "down" => Contents(up') = Contents(up) \cup {"close"}
  BY SentUp DEF MainRefuses, IInv
<1>2. TypeOK'
  BY <1>1 DEF MainRefuses, server, ends, IInv, TypeOK
<1>3. WireInv'
  BY <1>1 DEF MainRefuses, server, ends, IInv, TypeOK, WireInv
<1>4. ws' = "up" => OpenInv'
  BY <1>1 DEF MainRefuses, server, ends, IInv, TypeOK, WireInv, OpenInv
<1>5. ws' = "up" /\ svc' # "gone" => DownInv'
  BY <1>1 DEF MainRefuses, server, ends, IInv, TypeOK, WireInv, OpenInv,
     DownInv, OpensOrOpen
<1>6. ws' = "up" /\ svc' # "gone" /\ user' # "gone" => UpInv'
  BY <1>1 DEF MainRefuses, server, ends, IInv, TypeOK, WireInv, OpenInv,
     DownInv, UpInv, OpensOrOpen
<1> QED
  BY <1>2, <1>3, <1>4, <1>5, <1>6 DEF IInv

(* The answer is read, or the local connection is gone.                    *)
LEMMA PumpReadsKeep ==
  ASSUME IInv, PumpReads \/ PumpReadFails
  PROVE  IInv'
<1>1. TypeOK'
  BY DEF PumpReads, PumpReadFails, server, wire, ends, IInv, TypeOK
<1>2. WireInv'
  BY DEF PumpReads, PumpReadFails, server, wire, ends, IInv, TypeOK, WireInv
<1>3. ws' = "up" => OpenInv'
  BY DEF PumpReads, PumpReadFails, server, wire, ends, IInv, TypeOK, WireInv,
     OpenInv
<1>4. ws' = "up" /\ svc' # "gone" => DownInv'
  BY DEF PumpReads, PumpReadFails, server, wire, ends, IInv, TypeOK, WireInv,
     OpenInv, DownInv, OpensOrOpen
<1>5. ws' = "up" /\ svc' # "gone" /\ user' # "gone" => UpInv'
  BY DEF PumpReads, PumpReadFails, server, wire, ends, IInv, TypeOK, WireInv,
     OpenInv, DownInv, UpInv, OpensOrOpen
<1> QED
  BY <1>1, <1>2, <1>3, <1>4, <1>5 DEF IInv

(* An answer is sent only while the local connection is in the map.        *)
LEMMA PumpSendsKeeps ==
  ASSUME IInv, PumpSends
  PROVE  IInv'
<1>1. /\ up' \in Seq({"data", "close", "heartbeat"}) /\ Len(up') <= Cap
      /\ down' = down /\ ws' = ws /\ cmu' = "free"
      /\ ws = "down" => up' = up
      /\ ws # "down" => Contents(up') = Contents(up) \cup {"data"}
  BY SentUp DEF PumpSends, IInv
<1>2. TypeOK'
  <2>1. sconn' = sconn /\ lconn' \in {lconn, FALSE}
    BY DEF PumpSends, server
  <2>2. sconn' \in BOOLEAN /\ lconn' \in BOOLEAN
    BY <2>1 DEF IInv, TypeOK
  <2>3. pump' \in {"reading", "ending"}
    BY DEF PumpSends
  <2> QED
    BY <1>1, <2>2, <2>3 DEF PumpSends, server, ends, IInv, TypeOK
<1>3. WireInv'
  BY <1>1 DEF PumpSends, server, ends, IInv, TypeOK, WireInv
<1>4. ws' = "up" => OpenInv'
  BY <1>1 DEF PumpSends, server, ends, IInv, TypeOK, WireInv, OpenInv
<1>5. ws' = "up" /\ svc' # "gone" => DownInv'
  BY <1>1 DEF PumpSends, server, ends, IInv, TypeOK, WireInv, OpenInv,
     DownInv, OpensOrOpen
<1>6. ws' = "up" /\ svc' # "gone" /\ user' # "gone" => UpInv'
  BY <1>1 DEF PumpSends, server, ends, IInv, TypeOK, WireInv, OpenInv,
     DownInv, UpInv, OpensOrOpen
<1> QED
  BY <1>2, <1>3, <1>4, <1>5, <1>6 DEF IInv

(* The reader ends only when an end has left.                              *)
LEMMA PumpEndsKeeps ==
  ASSUME IInv, PumpEnds
  PROVE  IInv'
<1>1. /\ up' \in Seq({"data", "close", "heartbeat"}) /\ Len(up') <= Cap
      /\ down' = down /\ ws' = ws /\ cmu' = "free"
      /\ ws = "down" => up' = up
      /\ ws # "down" => Contents(up') = Contents(up) \cup {"close"}
  BY SentUp DEF PumpEnds, IInv
<1>2. TypeOK'
  BY <1>1 DEF PumpEnds, server, ends, IInv, TypeOK
<1>3. WireInv'
  BY <1>1 DEF PumpEnds, server, ends, IInv, TypeOK, WireInv
<1>4. ws' = "up" => OpenInv'
  BY <1>1 DEF PumpEnds, server, ends, IInv, TypeOK, WireInv, OpenInv
<1>5. ws' = "up" /\ svc' # "gone" => DownInv'
  BY <1>1 DEF PumpEnds, server, ends, IInv, TypeOK, WireInv, OpenInv, DownInv,
     OpensOrOpen
<1>6. ws' = "up" /\ svc' # "gone" /\ user' # "gone" => UpInv'
  BY <1>1 DEF PumpEnds, server, ends, IInv, TypeOK, WireInv, OpenInv, DownInv,
     UpInv, OpensOrOpen
<1> QED
  BY <1>2, <1>3, <1>4, <1>5, <1>6 DEF IInv

(* A heartbeat is due.                                                     *)
LEMMA BeatTicksKeeps ==
  ASSUME IInv, BeatTicks
  PROVE  IInv'
<1>1. TypeOK'
  BY DEF BeatTicks, server, wire, ends, IInv, TypeOK
<1>2. WireInv'
  BY DEF BeatTicks, server, wire, ends, IInv, TypeOK, WireInv
<1>3. ws' = "up" => OpenInv'
  BY DEF BeatTicks, server, wire, ends, IInv, TypeOK, WireInv, OpenInv
<1>4. ws' = "up" /\ svc' # "gone" => DownInv'
  BY DEF BeatTicks, server, wire, ends, IInv, TypeOK, WireInv, OpenInv,
     DownInv, OpensOrOpen
<1>5. ws' = "up" /\ svc' # "gone" /\ user' # "gone" => UpInv'
  BY DEF BeatTicks, server, wire, ends, IInv, TypeOK, WireInv, OpenInv,
     DownInv, UpInv, OpensOrOpen
<1> QED
  BY <1>1, <1>2, <1>3, <1>4, <1>5 DEF IInv

(* A heartbeat may come anywhere.                                          *)
LEMMA BeatSendsKeeps ==
  ASSUME IInv, BeatSends
  PROVE  IInv'
<1>1. /\ up' \in Seq({"data", "close", "heartbeat"}) /\ Len(up') <= Cap
      /\ down' = down /\ ws' = ws /\ cmu' = "free"
      /\ ws = "down" => up' = up
      /\ ws # "down" => Contents(up') = Contents(up) \cup {"heartbeat"}
  BY SentUp DEF BeatSends, IInv
<1>2. TypeOK'
  BY <1>1 DEF BeatSends, server, ends, IInv, TypeOK
<1>3. WireInv'
  BY <1>1 DEF BeatSends, server, ends, IInv, TypeOK, WireInv
<1>4. ws' = "up" => OpenInv'
  BY <1>1 DEF BeatSends, server, ends, IInv, TypeOK, WireInv, OpenInv
<1>5. ws' = "up" /\ svc' # "gone" => DownInv'
  BY <1>1 DEF BeatSends, server, ends, IInv, TypeOK, WireInv, OpenInv,
     DownInv, OpensOrOpen
<1>6. ws' = "up" /\ svc' # "gone" /\ user' # "gone" => UpInv'
  BY <1>1 DEF BeatSends, server, ends, IInv, TypeOK, WireInv, OpenInv,
     DownInv, UpInv, OpensOrOpen
<1> QED
  BY <1>2, <1>3, <1>4, <1>5, <1>6 DEF IInv

-----------------------------------------------------------------------------
(* The theorems.                                                           *)

(* At the start there is no stream and nothing under way.                  *)
LEMMA Initially == Init => IInv
<1>1. Init => TypeOK
  BY Nothing DEF Init, TypeOK
<1>2. Init => WireInv /\ OpenInv /\ DownInv /\ UpInv
  BY Nothing DEF Init, WireInv, OpenInv, DownInv, UpInv, OpensOrOpen
<1> QED
  BY <1>1, <1>2 DEF IInv

(* Every step keeps the invariant.                                         *)
LEMMA Preserved == IInv /\ [Next]_vars => IInv'
<1> SUFFICES ASSUME IInv, [Next]_vars PROVE IInv'
  OBVIOUS
<1>1. CASE AcceptLocks \/ LoopLocks \/ HandlerLocks \/ MainLocks \/ PumpLocks \/ BeatLocks
  BY <1>1, LocksKeep
<1>2. CASE Accept \/ Announce
  BY <1>2, AcceptKeeps, AnnounceKeeps
<1>3. CASE LoopReads \/ LoopReadFails \/ LoopSends \/ LoopEnds
  BY <1>3, LoopReadsKeep, LoopSendsKeeps, LoopEndsKeeps
<1>4. CASE HandlerStep
  BY <1>4, HandlerAcksKeeps, HandlerReadsKeep, HandlerReadsCloseKeeps, HandlerOtherKeeps
     DEF HandlerStep
<1>5. CASE TimesOut \/ ConnectionLost
  BY <1>5, BreakKeeps
<1>6. CASE MainStep
  BY <1>6, MainReadsKeep, MainReadsCloseKeeps, LocalDialKeeps, LocalDialFailsKeeps,
     LocalWritesKeep, MainRefusesKeeps DEF MainStep
<1>7. CASE PumpStep
  BY <1>7, PumpReadsKeep, PumpSendsKeeps, PumpEndsKeeps DEF PumpStep
<1>8. CASE BeatTicks \/ BeatSends \/ UserLeaves \/ SvcCloses
  BY <1>8, BeatTicksKeeps, BeatSendsKeeps, LeavingKeeps
<1>9. CASE UNCHANGED vars
  BY <1>9 DEF vars, server, client, wire, ends, IInv, TypeOK, WireInv, OpenInv,
     DownInv, UpInv, OpensOrOpen
<1> QED
  BY <1>1, <1>2, <1>3, <1>4, <1>5, <1>6, <1>7, <1>8, <1>9
     DEF Next, ProxyLocks, ProxyStep, BeatStep

(* The order of the messages of a stream, who is there to take them, and   *)
(* what a broken connection leaves, in every reachable state.              *)
THEOREM TunnelInductive == Spec => []IInv
<1> QED
  BY Initially, Preserved, PTL DEF Spec

(* No chunk is dropped inside the tunnel while its receiver is there: data *)
(* handleData of the client looks up has its local connection, data        *)
(* HandleFromClient looks up has the user's.                               *)
THEOREM NothingDropped == Spec => []DataFindsReceiver
<1>1. IInv => DataFindsReceiver
  <2> SUFFICES ASSUME IInv PROVE DataFindsReceiver
    OBVIOUS
  <2>1. ASSUME main = "reading", Receive(down, "data") PROVE lconn \/ svc = "gone"
    <3>1. /\ down \in Seq(Messages) /\ down # <<>> /\ Head(down) = "data" /\ ws = "up"
      BY <2>1, Queues DEF IInv, Receive, WireInv, TypeOK
    <3>2. "data" \in Contents(down) /\ (Ordered(down) => "open" \notin Contents(down))
      BY <3>1, ContentsTail, OrderedHead
    <3> QED
      BY <2>1, <3>1, <3>2 DEF IInv, DownInv, OpensOrOpen
  <2>2. ASSUME handler = "reading", Receive(up, "data")
        PROVE  sconn \/ user = "gone" \/ svc = "gone"
    <3>1. /\ up \in Seq(Messages) /\ up # <<>> /\ Head(up) = "data" /\ ws = "up"
      BY <2>2, Queues DEF IInv, Receive, WireInv, TypeOK
    <3>2. "data" \in Contents(up)
      BY <3>1, ContentsTail
    <3> QED
      BY <3>1, <3>2 DEF IInv, UpInv
  <2> QED
    BY <2>1, <2>2 DEF DataFindsReceiver
<1> QED
  BY <1>1, TunnelInductive, PTL

-----------------------------------------------------------------------------
(* The locks.                                                              *)

(* A stream is opened when nothing is left of the last one, and its reader *)
(* is started when nothing of the opening is left.                         *)
LEMMA PumpFollows ==
  ASSUME IInv, PumpInv, Next
  PROVE  PumpInv'
<1> USE DEF PumpInv, server, client, wire, ends
<1>1. CASE Accept
  BY <1>1 DEF Accept, Forgotten
<1>2. CASE Announce
  <2>1. ws # "down" => Contents(down') = Contents(down) \cup {"open"}
    BY <1>2, SentDown DEF Announce, IInv
  <2>2. pump' = "off"
    BY <1>2 DEF Announce
  <2>3. main' # "opening"
    BY <1>2 DEF Announce
  <2> QED
    BY <2>2, <2>3
<1>3. CASE AcceptLocks \/ LoopLocks \/ HandlerLocks \/ MainLocks \/ PumpLocks
           \/ BeatLocks
  BY <1>3 DEF AcceptLocks, LoopLocks, HandlerLocks, MainLocks, PumpLocks,
     BeatLocks
<1>4. ASSUME NEW m \in {"data", "close", "ack"}, NEW a, SendDown(a, m),
             UNCHANGED <<accept, main, pump>>
      PROVE  PumpInv'
  <2>1. "open" \in Contents(down') => "open" \in Contents(down)
    BY <1>4, SentDown DEF IInv
  <2> QED
    BY <1>4, <2>1
<1>5. CASE LoopSends \/ LoopEnds \/ HandlerAcks
  BY <1>4, <1>5 DEF LoopSends, LoopEnds, HandlerAcks
<1>6. CASE LoopReads \/ LoopReadFails \/ HandlerReadsBeat \/ HandlerReadsData
           \/ HandlerWrites \/ HandlerReadsClose \/ HandlerLeaves
           \/ UserLeaves \/ SvcCloses \/ BeatTicks
  BY <1>6 DEF LoopReads, LoopReadFails, HandlerReadsBeat, HandlerReadsData,
     HandlerWrites, HandlerReadsClose, HandlerLeaves, UserLeaves, SvcCloses,
     BeatTicks
<1>7. CASE TimesOut \/ ConnectionLost
  BY <1>7, Nothing DEF TimesOut, ConnectionLost, CloseWs
<1>8. CASE MainReadsAck \/ MainReadsData \/ MainReadsClose
  <2>1. PICK m : Receive(down, m) /\ down' = Tail(down)
    BY <1>8 DEF MainReadsAck, MainReadsData, MainReadsClose, MainReads
  <2>2. Contents(down') \subseteq Contents(down)
    BY <2>1, GotDown DEF IInv
  <2>3. main' # "opening" /\ accept' = accept /\ pump' = pump
    BY <1>8 DEF MainReadsAck, MainReadsData, MainReadsClose, MainReads
  <2> QED
    BY <2>2, <2>3
<1>9. CASE MainReadsOpen
  <2>1. "open" \in Contents(down) /\ ws = "up"
    BY <1>9, GotDown DEF MainReadsOpen, MainReads, IInv
  <2>2. accept # "announcing"
    BY <2>1 DEF IInv, OpenInv, DownInv
  <2> QED
    BY <1>9, <2>1, <2>2 DEF MainReadsOpen, MainReads
<1>10. CASE LocalDial
  <2>1. "open" \notin Contents(down)
    BY <1>10, Nothing DEF LocalDial, IInv, TypeOK, WireInv, OpenInv
  <2> QED
    BY <1>10, <2>1 DEF LocalDial
<1>11. CASE LocalDialFails \/ LocalWrite \/ LocalWriteFails \/ MainLeaves
  BY <1>11 DEF LocalDialFails, LocalWrite, LocalWriteFails, MainLeaves
<1>12. CASE MainRefuses \/ PumpEnds \/ BeatSends
  BY <1>12 DEF MainRefuses, PumpEnds, BeatSends, SendUp
<1>13. CASE PumpReads \/ PumpReadFails \/ PumpSends
  BY <1>13 DEF PumpReads, PumpReadFails, PumpSends, SendUp
<1> QED
  BY <1>1, <1>2, <1>3, <1>5, <1>6, <1>7, <1>8, <1>9, <1>10, <1>11, <1>12, <1>13
     DEF Next, ProxyLocks, ProxyStep, HandlerStep, MainStep, PumpStep, BeatStep

(* Taking one, and what the server does.                                   *)
LEMMA ServerLocks ==
  ASSUME TypeOK, LockInv,
         \/ Accept \/ LoopReads \/ ProxyLocks \/ ProxyStep
         \/ HandlerLocks \/ HandlerStep
  PROVE  LockInv'
<1> USE DEF TypeOK, LockInv, server, client, wire, ends
<1>1. CASE Accept
  BY <1>1 DEF Accept, Forgotten
<1>2. CASE AcceptLocks \/ LoopLocks \/ HandlerLocks
  BY <1>2 DEF AcceptLocks, LoopLocks, HandlerLocks, TakeServerLock
<1>3. CASE Announce
  BY <1>3 DEF Announce, SendDown
<1>4. CASE LoopReads \/ LoopReadFails
  BY <1>4 DEF LoopReads, LoopReadFails
<1>5. CASE LoopSends \/ LoopEnds
  BY <1>5 DEF LoopSends, LoopEnds, SendDown
<1>6. CASE HandlerReadsBeat \/ HandlerReadsData \/ HandlerWrites
           \/ HandlerReadsClose \/ HandlerLeaves
  BY <1>6 DEF HandlerReadsBeat, HandlerReadsData, HandlerWrites,
     HandlerReadsClose, HandlerLeaves, HandlerReads
<1>7. CASE HandlerAcks
  BY <1>7 DEF HandlerAcks, SendDown
<1> QED
  BY <1>1, <1>2, <1>3, <1>4, <1>5, <1>6, <1>7
     DEF ProxyLocks, ProxyStep, HandlerStep

(* What the client does, the WebSocket and the ends.                       *)
LEMMA ClientLocks ==
  ASSUME TypeOK, PumpInv, LockInv,
         \/ TimesOut \/ ConnectionLost \/ UserLeaves \/ SvcCloses
         \/ MainLocks \/ MainStep \/ PumpLocks \/ PumpStep
         \/ BeatLocks \/ BeatStep
  PROVE  LockInv'
<1> USE DEF TypeOK, LockInv, server, client, wire, ends
<1>1. CASE TimesOut \/ ConnectionLost \/ UserLeaves \/ SvcCloses
  BY <1>1 DEF TimesOut, ConnectionLost, UserLeaves, SvcCloses
<1>2. CASE MainLocks \/ PumpLocks \/ BeatLocks
  BY <1>2 DEF MainLocks, PumpLocks, BeatLocks, TakeClientLock
<1>3. CASE MainReadsAck \/ MainReadsOpen \/ MainReadsData \/ MainReadsClose
  BY <1>3 DEF MainReadsAck, MainReadsOpen, MainReadsData, MainReadsClose,
     MainReads
<1>4. CASE LocalDial
  BY <1>4 DEF LocalDial, PumpInv
<1>5. CASE LocalWrite
  BY <1>5 DEF LocalWrite
<1>6. CASE LocalWriteFails \/ MainLeaves
  BY <1>6 DEF LocalWriteFails, MainLeaves
<1>7. CASE LocalDialFails
  BY <1>7 DEF LocalDialFails
<1>8. CASE MainRefuses
  BY <1>8 DEF MainRefuses, SendUp
<1>9. CASE PumpReads \/ PumpReadFails
  BY <1>9 DEF PumpReads, PumpReadFails
<1>10. CASE PumpSends \/ PumpEnds
  BY <1>10 DEF PumpSends, PumpEnds, SendUp
<1>11. CASE BeatTicks
  BY <1>11 DEF BeatTicks
<1>12. CASE BeatSends
  BY <1>12 DEF BeatSends, SendUp
<1> QED
  BY <1>1, <1>2, <1>3, <1>4, <1>5, <1>6, <1>7, <1>8, <1>9, <1>10, <1>11, <1>12
     DEF MainStep, PumpStep, BeatStep

(* Who holds a lock is sending, in every reachable state.                  *)
THEOREM HoldersSend == Spec => []LockInv
<1>1. Init => PumpInv /\ LockInv
  BY Nothing DEF Init, PumpInv, LockInv
<1>2. IInv /\ PumpInv /\ LockInv /\ [Next]_vars => PumpInv' /\ LockInv'
  <2>1. CASE UNCHANGED vars
    BY <2>1 DEF PumpInv, LockInv, vars, server, client, wire, ends
  <2> QED
    BY <2>1, PumpFollows, ServerLocks, ClientLocks DEF IInv, Next
<1> QED
  BY <1>1, <1>2, TunnelInductive, PTL DEF Spec

(* Nobody waits while the handler reads and finds nothing: there is room   *)
(* towards the server, so whoever sends there goes on; then there is       *)
(* nobody who could keep the client's main loop, and it reads the rest.    *)
LEMMA IdleHandlerIsIdle ==
  ASSUME TypeOK, WireInv, LockInv, ~ SomebodyGoesOn, handler # "acking"
  PROVE  ~ Waiting
<1> USE DEF TypeOK, LockInv
<1>1. ws = "up" => handler = "reading" /\ up = <<>>
  BY DEF SomebodyGoesOn, WireInv
<1>2. ws = "down" \/ Len(up) < Cap
  BY <1>1, CapAssumption
<1>3. cmu = "free" /\ beat # "due" /\ main # "refusing"
      /\ pump \notin {"sending", "ending"}
  BY <1>2 DEF SomebodyGoesOn, MaySendUp
<1>4. main # "writing"
  <2> SUFFICES ASSUME main = "writing" PROVE FALSE
    OBVIOUS
  <2>1. lconn /\ svc = "holding"
    BY DEF SomebodyGoesOn
  <2> QED
    BY <1>3, <2>1 DEF SomebodyGoesOn
<1>5. ws = "down" \/ down = <<>>
  BY <1>3, <1>4 DEF SomebodyGoesOn, WireInv
<1>6. ws = "down" \/ Len(down) < Cap
  BY <1>5, CapAssumption
<1>7. smu = "free" /\ accept # "announcing" /\ loop \notin {"sending", "ending"}
  BY <1>6 DEF SomebodyGoesOn, MaySendDown
<1>8. handler # "writing" /\ main # "opening"
  BY DEF SomebodyGoesOn
<1> QED
  BY <1>3, <1>4, <1>7, <1>8 DEF Waiting, Busy

(* A handler that cannot acknowledge waits for the client, which waits for *)
(* the handler.                                                            *)
LEMMA AckingIsTheCircle ==
  ASSUME TypeOK, WireInv, LockInv, ~ SomebodyGoesOn, handler = "acking"
  PROVE  ws = "up" /\ Len(down) = Cap /\ Len(up) = Cap
<1> USE DEF TypeOK, LockInv
<1>1. smu # "free" /\ ws = "up" /\ ~ (Len(down) < Cap)
  BY DEF SomebodyGoesOn, MaySendDown
<1>2. Len(down) \in Nat /\ Len(up) \in Nat /\ Len(down) <= Cap /\ Len(up) <= Cap
  BY Queues
<1>3. Len(down) = Cap /\ down # <<>>
  BY <1>1, <1>2, CapAssumption
<1>4. main \in {"writing", "refusing"}
  BY <1>1, <1>3 DEF SomebodyGoesOn, WireInv
<1>5. main = "refusing" \/ pump = "sending"
  BY <1>4 DEF SomebodyGoesOn
<1>6. cmu # "free" /\ ~ (Len(up) < Cap)
  BY <1>1, <1>5 DEF SomebodyGoesOn, MaySendUp
<1> QED
  BY <1>1, <1>2, <1>3, <1>6, CapAssumption

(* The circle through both machines with a heartbeat in it is the only     *)
(* standstill of the tunnel, however much the WebSocket takes.             *)
THEOREM StandstillIsSeen == Spec => []StallHasHeartbeat
<1>1. IInv /\ LockInv => StallHasHeartbeat
  BY IdleHandlerIsIdle, AckingIsTheCircle DEF IInv, StallHasHeartbeat
<1> QED
  BY <1>1, TunnelInductive, HoldersSend, PTL
=============================================================================
