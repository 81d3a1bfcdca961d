------------------------------ MODULE TcpProxy ------------------------------
(***************************************************************************)
(* One TCP proxy of the server (internal/server/proxy.go), from the        *)
(* successful Start to the end of its last goroutine: the accept loop, one *)
(* read loop per external user, the WebSocket handler that writes to the   *)
(* users, and Stop.  They share p.conns under p.mu and p.connCount under   *)
(* connCountMu; a step is one such critical section, one call on a socket  *)
(* or one poll of stopCh.                                                  *)
(*                                                                         *)
(* A user stands for its TCP connection and for the connID it is given.    *)
(* Bytes are left out: the properties are about which sockets are open,    *)
(* who still refers to them and what the client has been told.             *)
(***************************************************************************)
EXTENDS Integers, FiniteSets

CONSTANTS Users,      \* external TCP connections
          MaxConns,   \* p.maxConns, 10000 when the configuration says 0
          None

ASSUME Limit == MaxConns \in Nat \ {0}
ASSUME NoneIsNoUser == None \notin Users

VARIABLES
  stage,      \* progress of Stop, "running" before it is called
  toClose,    \* the sockets Stop has collected and not closed yet
  sock,       \* the server's end of a user's connection
  gone,       \* users that have closed their end
  conns,      \* the users in p.conns
  connCount,  \* p.connCount
  accept,     \* where acceptLoop is, and the user it is busy with
  reader,     \* where the readLoop of a user is
  told,       \* the last conn message sent to the client for a user
  call        \* HandleFromClient: where it is, and for which user

stopping == <<stage, toClose>>
sockets  == <<sock, gone>>
table    == <<conns, connCount>>
vars == <<stopping, sockets, table, accept, reader, told, call>>

-----------------------------------------------------------------------------
(* The flag p.stopped, the channel stopCh and the listener are set, closed *)
(* and closed by the first three steps of Stop.                            *)
Signalled == stage \notin {"running", "marked"}
Listening == stage \in {"running", "marked", "signalled"}

(* Mutant: HandleFromClient does not look at p.stopped.                    *)
NeverStopped == TRUE

NotStopped == stage = "running"

Closes(c) == sock' = [sock EXCEPT ![c] = "closed"]
Tells(c, m) == told' = [told EXCEPT ![c] = m]

LoopGoes(from, to, c) ==
  /\ accept.at = from
  /\ accept' = [at |-> to, user |-> c]

ReaderGoes(c, from, to) ==
  /\ reader[c] = from
  /\ reader' = [reader EXCEPT ![c] = to]

CallGoes(from, to, c) ==
  /\ call.at = from
  /\ call' = [at |-> to, user |-> c]

Init ==
  /\ stage = "running" /\ toClose = {}
  /\ sock = [c \in Users |-> "none"] /\ gone = {}
  /\ conns = {} /\ connCount = 0
  /\ accept = [at |-> "poll", user |-> None]
  /\ reader = [c \in Users |-> "none"]
  /\ told = [c \in Users |-> "none"]
  /\ call = [at |-> "idle", user |-> None]

-----------------------------------------------------------------------------
(* External users.                                                         *)

(* The kernel completes the connection; it waits in the backlog.           *)
UserConnects(c) ==
  /\ Listening
  /\ sock[c] = "none"
  /\ sock' = [sock EXCEPT ![c] = "queued"]
  /\ UNCHANGED <<stopping, gone, table, accept, reader, told, call>>

(* The end of what the user sends has been read.                           *)
UserCloses(c) ==
  /\ sock[c] \in {"queued", "open"}
  /\ c \notin gone
  /\ gone' = gone \cup {c}
  /\ UNCHANGED <<stopping, sock, table, accept, reader, told, call>>

-----------------------------------------------------------------------------
(* acceptLoop.                                                             *)

Poll ==
  /\ LoopGoes("poll", IF Signalled THEN "ended" ELSE "accept", None)
  /\ UNCHANGED <<stopping, sockets, table, reader, told, call>>

Accept(c) ==
  /\ LoopGoes("accept", "check", c)
  /\ sock[c] = "queued"
  /\ sock' = [sock EXCEPT ![c] = "open"]
  /\ UNCHANGED <<stopping, gone, table, reader, told, call>>

(* Mutant: any error ends the loop.                                        *)
AcceptErrorEnds ==
  /\ LoopGoes("accept", "ended", None)
  /\ UNCHANGED <<stopping, sockets, table, reader, told, call>>

(* Accept fails: for good once the listener is closed, and the loop ends;  *)
(* now and then (no file descriptor left, say) before, and it goes on.     *)
AcceptError ==
  /\ LoopGoes("accept", IF Signalled THEN "ended" ELSE "poll", None)
  /\ UNCHANGED <<stopping, sockets, table, reader, told, call>>

(* Mutant: one connection too many.                                        *)
FullByOne == connCount > MaxConns

Full == connCount >= MaxConns

Reject(c) ==
  /\ LoopGoes("check", "poll", None)
  /\ accept.user = c
  /\ Full
  /\ Closes(c)
  /\ UNCHANGED <<stopping, gone, table, reader, told, call>>

Admit(c) ==
  /\ LoopGoes("check", "counted", c)
  /\ accept.user = c
  /\ ~ Full
  /\ connCount' = connCount + 1
  /\ UNCHANGED <<stopping, sockets, conns, reader, told, call>>

(* Mutant: the client is told before the connection is in the map.         *)
AnnounceUnmapped(c) ==
  /\ LoopGoes("counted", "mapped", c)
  /\ accept.user = c
  /\ Tells(c, "conn_open")
  /\ UNCHANGED <<stopping, sockets, table, reader, call>>

Enter(c) ==
  /\ LoopGoes("counted", "mapped", c)
  /\ accept.user = c
  /\ conns' = conns \cup {c}
  /\ UNCHANGED <<stopping, sockets, connCount, reader, told, call>>

Announce(c) ==
  /\ LoopGoes("mapped", "opened", c)
  /\ accept.user = c
  /\ Tells(c, "conn_open")
  /\ UNCHANGED <<stopping, sockets, table, reader, call>>

StartReader(c) ==
  /\ LoopGoes("opened", "poll", None)
  /\ accept.user = c
  /\ ReaderGoes(c, "none", "poll")
  /\ UNCHANGED <<stopping, sockets, table, told, call>>

-----------------------------------------------------------------------------
(* readLoop of user c.                                                     *)

(* Mutant: the loop does not look at stopCh.                               *)
PollBlind(c) ==
  /\ ReaderGoes(c, "poll", "read")
  /\ UNCHANGED <<stopping, sockets, table, accept, told, call>>

PollReader(c) ==
  /\ ReaderGoes(c, "poll", IF Signalled THEN "leaving" ELSE "read")
  /\ UNCHANGED <<stopping, sockets, table, accept, told, call>>

(* Read returns bytes and they are sent to the client.                     *)
ReadData(c) ==
  /\ ReaderGoes(c, "read", "poll")
  /\ sock[c] = "open" /\ c \notin gone
  /\ UNCHANGED <<stopping, sockets, table, accept, told, call>>

(* Mutant: a failed read is tried again.                                   *)
ReadRetries(c) ==
  /\ ReaderGoes(c, "read", "poll")
  /\ sock[c] = "closed" \/ c \in gone
  /\ UNCHANGED <<stopping, sockets, table, accept, told, call>>

(* Mutant: a failed read ends the loop without a word to the client.       *)
ReadFailsSilently(c) ==
  /\ ReaderGoes(c, "read", "told")
  /\ sock[c] = "closed" \/ c \in gone
  /\ UNCHANGED <<stopping, sockets, table, accept, told, call>>

ReadFails(c) ==
  /\ ReaderGoes(c, "read", "leaving")
  /\ sock[c] = "closed" \/ c \in gone
  /\ UNCHANGED <<stopping, sockets, table, accept, told, call>>

(* The deferred function: the client is told, the socket closed, the entry *)
(* deleted and the slot given back, in this order.                         *)
TellClosed(c) ==
  /\ ReaderGoes(c, "leaving", "told")
  /\ Tells(c, "conn_close")
  /\ UNCHANGED <<stopping, sockets, table, accept, call>>

CloseSocket(c) ==
  /\ ReaderGoes(c, "told", "shut")
  /\ Closes(c)
  /\ UNCHANGED <<stopping, gone, table, accept, told, call>>

RemoveEntry(c) ==
  /\ ReaderGoes(c, "shut", "removed")
  /\ conns' = conns \ {c}
  /\ UNCHANGED <<stopping, sockets, connCount, accept, told, call>>

FreeSlot(c) ==
  /\ ReaderGoes(c, "removed", "done")
  /\ connCount' = connCount - 1
  /\ UNCHANGED <<stopping, sockets, conns, accept, told, call>>

-----------------------------------------------------------------------------
(* The WebSocket handler, for users the client has heard of.  The server   *)
(* calls it for proxies in its map only; here it may call at any time.     *)

LookUp(c) ==
  /\ CallGoes("idle", "found", c)
  /\ told[c] # "none"
  /\ c \in conns
  /\ UNCHANGED <<stopping, sockets, table, accept, reader, told>>

CheckStopped(c) ==
  /\ CallGoes("found", IF NotStopped THEN "write" ELSE "idle",
              IF NotStopped THEN c ELSE None)
  /\ call.user = c
  /\ UNCHANGED <<stopping, sockets, table, accept, reader, told>>

(* The write succeeds, or fails because the socket is closed.              *)
Write(c) ==
  /\ CallGoes("write", "idle", None)
  /\ call.user = c
  /\ UNCHANGED <<stopping, sockets, table, accept, reader, told>>

(* CloseConn: the client has lost its end.                                 *)
CloseConn(c) ==
  /\ call.at = "idle"
  /\ told[c] # "none"
  /\ c \in conns
  /\ Closes(c)
  /\ conns' = conns \ {c}
  /\ UNCHANGED <<stopping, gone, connCount, accept, reader, told, call>>

-----------------------------------------------------------------------------
(* Stop.                                                                   *)

StopGoes(from, to) == stage = from /\ stage' = to

(* The flag is swapped; a second Stop returns at once.                     *)
Mark ==
  /\ StopGoes("running", "marked")
  /\ UNCHANGED <<toClose, sockets, table, accept, reader, told, call>>

Signal ==
  /\ StopGoes("marked", "signalled")
  /\ UNCHANGED <<toClose, sockets, table, accept, reader, told, call>>

(* The kernel resets what is left in the backlog.                          *)
CloseListener ==
  /\ StopGoes("signalled", "deaf")
  /\ sock' = [c \in Users |-> IF sock[c] = "queued" THEN "closed" ELSE sock[c]]
  /\ UNCHANGED <<toClose, gone, table, accept, reader, told, call>>

Collect ==
  /\ StopGoes("deaf", "closing")
  /\ toClose' = conns
  /\ conns' = {}
  /\ UNCHANGED <<sockets, connCount, accept, reader, told, call>>

CloseCollected(c) ==
  /\ c \in toClose
  /\ toClose' = toClose \ {c}
  /\ Closes(c)
  /\ UNCHANGED <<stage, gone, table, accept, reader, told, call>>

Return ==
  /\ StopGoes("closing", "stopped")
  /\ toClose = {}
  /\ UNCHANGED <<toClose, sockets, table, accept, reader, told, call>>

-----------------------------------------------------------------------------
AcceptStep ==
  \/ Poll \/ (Signalled /\ AcceptError)
  \/ \E c \in Users : \/ Reject(c) \/ Admit(c) \/ Enter(c)
                      \/ Announce(c) \/ StartReader(c)

ReaderStep(c) ==
  \/ PollReader(c) \/ TellClosed(c) \/ CloseSocket(c)
  \/ RemoveEntry(c) \/ FreeSlot(c)

StopStep ==
  \/ Signal \/ CloseListener \/ Collect \/ Return
  \/ \E c \in Users : CloseCollected(c)

Next ==
  \/ AcceptStep \/ AcceptError \/ Mark \/ StopStep
  \/ \E c \in Users :
       \/ UserConnects(c) \/ UserCloses(c) \/ Accept(c)
       \/ ReaderStep(c) \/ ReadData(c) \/ ReadFails(c)
       \/ LookUp(c) \/ CheckStopped(c) \/ Write(c) \/ CloseConn(c)

Spec == Init /\ [][Next]_vars

(* Fairness: every goroutine runs, messages to the client do not block for *)
(* ever, Accept does not fail for ever while users wait, and a closed      *)
(* connection has finitely many bytes left to read.  Nothing is assumed    *)
(* of users, of the client or of whether Stop is called.                   *)
FairSpec ==
  /\ Spec
  /\ WF_vars(AcceptStep) /\ WF_vars(StopStep)
  /\ SF_vars(\E c \in Users : Accept(c))
  /\ \A c \in Users : WF_vars(ReaderStep(c)) /\ SF_vars(ReadFails(c))

-----------------------------------------------------------------------------
(* Properties.                                                             *)

LoopStates == {"poll", "accept", "check", "counted", "mapped", "opened", "ended"}

(* Ranges of the variables (the fields of Proxy and the program counters   *)
(* of its goroutines).                                                     *)
TypeOK ==
  /\ stage \in {"running", "marked", "signalled", "deaf", "closing", "stopped"}
  /\ toClose \subseteq Users
  /\ sock \in [Users -> {"none", "queued", "open", "closed"}]
  /\ gone \subseteq Users
  /\ conns \subseteq Users
  /\ connCount \in 0..MaxConns
  /\ accept \in [at : LoopStates, user : Users \cup {None}]
  /\ reader \in [Users -> {"none", "poll", "read", "leaving", "told", "shut",
                           "removed", "done"}]
  /\ told \in [Users -> {"none", "conn_open", "conn_close"}]
  /\ call \in [at : {"idle", "found", "write"}, user : Users \cup {None}]

(* The accept loop has user c in its hands: past the limit check or not.   *)
InHand(c) == accept.user = c
Unchecked(c) == accept.at = "check" /\ InHand(c)

(* The connections that really are open never exceed the limit, although   *)
(* the counter is kept apart from the map and from the sockets: a slot is  *)
(* given back only after its socket is closed.                             *)
OpenWithinLimit ==
  Cardinality({c \in Users : sock[c] = "open" /\ ~ Unchecked(c)}) <= MaxConns

(* Once Stop has returned no bytes reach an external user any more, not    *)
(* even from a handler that found the connection in the map before Stop    *)
(* emptied it, or one accepted while Stop was running.                     *)
NoWriteAfterStop ==
  stage = "stopped" /\ call.at = "write" => sock[call.user] = "closed"

(* Nor does a read loop wait for them: whoever is in Read when Stop has    *)
(* returned reads from a closed socket.  A loop that was between its look  *)
(* at stopCh and its Read, or was started while Stop ran, is no exception. *)
(* Without this the goroutine would stay until its user hangs up.          *)
NoReadAfterStop ==
  \A c \in Users : stage = "stopped" /\ reader[c] = "read" => sock[c] = "closed"

(* Once Stop has returned no goroutine of the proxy touches a user's open  *)
(* connection any more, in either direction.                               *)
QuietAfterStop == NoWriteAfterStop /\ NoReadAfterStop

(* Data for a connection the client has been told of is never dropped as   *)
(* "unknown conn_id" while that connection is open and Stop has not        *)
(* emptied the map: the entry is made before the client hears of it and    *)
(* removed only with the socket.                                           *)
AnnouncedIsKnown ==
  \A c \in Users : told[c] # "none" /\ c \notin conns =>
    sock[c] = "closed" \/ stage \in {"closing", "stopped"}

(* The map keeps no dead entry: whatever the order of conn_close from the  *)
(* client, the end of the user and Stop, a read loop that has ended leaves *)
(* nothing behind (Stop replaces the map while read loops delete from it). *)
NoStaleEntry == \A c \in Users : reader[c] = "done" => c \notin conns

(* A queued user is accepted, turned away or reset: the accept loop never  *)
(* gets stuck, not even after it had to turn a user away.                  *)
UserIsAnswered == \A c \in Users : sock[c] = "queued" ~> sock[c] # "queued"

(* Whoever closes an announced connection, its user, the client or Stop:   *)
(* the client is told and the slot comes free again.                       *)
ClosedFreesSlot ==
  \A c \in Users :
    (told[c] = "conn_open" /\ (sock[c] = "closed" \/ c \in gone))
      ~> (told[c] = "conn_close" /\ reader[c] = "done")

(* After Stop nothing of the proxy is left: no socket, no map entry, no    *)
(* slot, no goroutine, also for the user it was just accepting.            *)
Drained ==
  /\ stage = "stopped" /\ accept.at = "ended"
  /\ conns = {} /\ connCount = 0
  /\ \A c \in Users : sock[c] \in {"none", "closed"} /\ reader[c] \in {"none", "done"}

StopDrains == stage # "running" ~> Drained

(* The users that occupy a slot: from the accept loop's increment to the   *)
(* read loop's decrement.                                                  *)
Admitted(c) == accept.at \in {"counted", "mapped", "opened"} /\ InHand(c)
Holders == {c \in Users : Admitted(c) \/ reader[c] \notin {"none", "done"}}

(* The proxy keeps its promise (module ConnSlots), whatever ends a         *)
(* connection and whether Stop runs or not: one slot, one conn_open and    *)
(* one conn_close for each, in this order, the slot free after the client  *)
(* has been told, and never more slots than maxConns.                      *)
Slots == INSTANCE ConnSlots WITH held <- Holders
KeepsSlots == Slots!Spec
-----------------------------------------------------------------------------
(* The inductive invariant.                                                *)

SlotInv == IsFiniteSet(Holders) /\ connCount = Cardinality(Holders)

(* The accept loop holds a user without read loop, and only between Accept *)
(* and the start of that read loop.                                        *)
LoopInv ==
  /\ accept.at \in {"poll", "accept", "ended"} => accept.user = None
  /\ accept.at \notin {"poll", "accept", "ended"} =>
       accept.user \in Users /\ reader[accept.user] = "none"

(* Every open socket has a goroutine that will close it, none before that. *)
SocketInv ==
  \A c \in Users :
    /\ sock[c] \in {"none", "queued"} => reader[c] = "none" /\ ~ InHand(c)
    /\ sock[c] = "open" => Unchecked(c) \/ c \in Holders
    /\ reader[c] \in {"shut", "removed", "done"} => sock[c] = "closed"

(* Only admitted connections are in the map, and their sockets are open or *)
(* closed; what Stop still has to close came from the map.                 *)
MapInv ==
  /\ \A c \in conns \cup toClose : told[c] # "none" \/ Admitted(c)
  /\ \A c \in Users : reader[c] \in {"removed", "done"} => c \notin conns
  /\ stage # "closing" => toClose = {}

(* The client hears of a connection after it has entered the map.          *)
Entered(c) == told[c] # "none" \/ (accept.at \in {"mapped", "opened"} /\ InHand(c))

ToldInv ==
  \A c \in Users :
    /\ Entered(c) /\ c \notin conns =>
         sock[c] = "closed" \/ stage \in {"closing", "stopped"}
    /\ told[c] # "none" <=>
         reader[c] # "none" \/ (accept.at = "opened" /\ InHand(c))
    /\ told[c] = "conn_close" <=>
         reader[c] \in {"told", "shut", "removed", "done"}

(* A handler that passed the check writes to a connection Stop will find   *)
(* in the map, or has collected, or that is closed.                        *)
CallInv ==
  /\ call.at # "idle" => call.user \in Users /\ told[call.user] # "none"
  /\ call.at = "write" =>
       \/ sock[call.user] = "closed"
       \/ call.user \in toClose
       \/ call.user \in conns /\ stage \notin {"closing", "stopped"}

(* A read loop in Read polled stopCh before Stop closed it: Stop will find *)
(* its connection in the map, or has collected it, or it is closed.        *)
ReadInv ==
  \A c \in Users : reader[c] = "read" =>
    \/ sock[c] = "closed"
    \/ c \in toClose
    \/ c \in conns /\ stage \notin {"closing", "stopped"}

(* The strengthening the proofs use.                                       *)
IInv ==
  /\ TypeOK /\ SlotInv /\ LoopInv /\ SocketInv
  /\ MapInv /\ ToldInv /\ CallInv /\ ReadInv
=============================================================================
