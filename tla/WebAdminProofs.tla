--------------------------- MODULE WebAdminProofs ---------------------------
(***************************************************************************)
(* Proofs about the admin interface, for any number of pages, devices and  *)
(* requests, and any number of changes.                                    *)
(***************************************************************************)
EXTENDS WebAdmin, TLAPS

USE DEF vars, pages, stops, Senders

-----------------------------------------------------------------------------
(* What a sender holds, before and after a step of it.                     *)
LEMMA JobRanges ==
  /\ Idle \in Jobs /\ [Idle EXCEPT !.at = "collect"] \in Jobs
  /\ [Idle EXCEPT !.at = "stopping"] \in Jobs
  /\ [Idle EXCEPT !.at = "crashed"] \in Jobs
  /\ \A j \in Jobs : [j EXCEPT !.fresh = FALSE] \in Jobs /\ j.todo \in SUBSET Pages
  /\ \A rest \in SUBSET Pages :
       [Idle EXCEPT !.at = "send", !.todo = rest] \in Jobs
BY DEF Idle, Jobs

(* A change makes what senders hold old, and touches nothing else of them. *)
LEMMA ChangeKeepsJobs ==
  ASSUME TypeOK, JobInv, NEW a \in Senders, a \notin Pages,
         NEW next \in {"stopping", "collect"}, Change(a, next), UNCHANGED page
  PROVE  JobInv'
<1>1. ASSUME NEW b \in Senders, b # a
      PROVE  /\ job'[b].at = job[b].at /\ job'[b].todo = job[b].todo
             /\ job'[b].to = job[b].to
  BY <1>1 DEF Change, TypeOK, Jobs
<1>2. job'[a].at = next /\ job'[a].todo = {} /\ job'[a].to = None
  BY DEF Change, Idle, TypeOK
<1> QED
  BY <1>1, <1>2 DEF JobInv

(* One lemma per action, one step per conjunct of the invariant.           *)

(* A login changes no page.                                                *)
LEMMA LoginKeeps ==
  ASSUME IInv, Login
  PROVE  IInv'
<1>1. TypeOK'
  BY NamesAssumption DEF Login, IInv, TypeOK, Jobs, JobInv
<1>2. JobInv'
  BY NamesAssumption DEF Login, IInv, TypeOK, Jobs, JobInv
<1>3. PageInv'
  BY NamesAssumption DEF Login, IInv, TypeOK, Jobs, JobInv, PageInv
<1>4. Covered'
  BY NamesAssumption DEF Login, IInv, TypeOK, Jobs, JobInv, PageInv, OnItsWay,
     Covered
<1> QED
  BY <1>1, <1>2, <1>3, <1>4 DEF IInv

(* Open pages survive the session.                                         *)
LEMMA SessionExpiresKeeps ==
  ASSUME IInv, SessionExpires
  PROVE  IInv'
<1>1. TypeOK'
  BY NamesAssumption DEF SessionExpires, IInv, TypeOK, Jobs, JobInv
<1>2. JobInv'
  BY NamesAssumption DEF SessionExpires, IInv, TypeOK, Jobs, JobInv
<1>3. PageInv'
  BY NamesAssumption DEF SessionExpires, IInv, TypeOK, Jobs, JobInv, PageInv
<1>4. Covered'
  BY NamesAssumption DEF SessionExpires, IInv, TypeOK, Jobs, JobInv, PageInv,
     OnItsWay, Covered
<1> QED
  BY <1>1, <1>2, <1>3, <1>4 DEF IInv

(* After a change its sender has yet to collect the pages.                 *)
LEMMA RequestChangeKeeps ==
  ASSUME IInv, NEW r \in Requests, RequestChange(r)
  PROVE  IInv'
<1>1. TypeOK'
  BY JobRanges, NamesAssumption DEF RequestChange, ChangeAndBroadcast, Change, Others,
     IInv, TypeOK, JobInv
<1>2. JobInv'
  BY ChangeKeepsJobs, NamesAssumption DEF RequestChange, ChangeAndBroadcast, Others, IInv
<1>3. PageInv'
  BY NamesAssumption DEF RequestChange, ChangeAndBroadcast, Change, Idle, Others, IInv,
     TypeOK, Jobs, JobInv, PageInv
<1>4. Covered'
  BY NamesAssumption DEF RequestChange, ChangeAndBroadcast, Change, Idle, Others, IInv,
     TypeOK, Jobs, JobInv, PageInv, OnItsWay, Covered
<1> QED
  BY <1>1, <1>2, <1>3, <1>4 DEF IInv

(* After a change its sender has yet to collect the pages.                 *)
LEMMA RegisterKeeps ==
  ASSUME IInv, NEW h \in Handlers, Register(h)
  PROVE  IInv'
<1>1. TypeOK'
  BY JobRanges, NamesAssumption DEF Register, ChangeAndBroadcast, Change, DevGoes,
     Others, IInv, TypeOK, JobInv
<1>2. JobInv'
  BY ChangeKeepsJobs, NamesAssumption DEF Register, ChangeAndBroadcast, Others, IInv
<1>3. PageInv'
  BY NamesAssumption DEF Register, ChangeAndBroadcast, Change, DevGoes, Idle, Others,
     IInv, TypeOK, Jobs, JobInv, PageInv
<1>4. Covered'
  BY NamesAssumption DEF Register, ChangeAndBroadcast, Change, DevGoes, Idle, Others,
     IInv, TypeOK, Jobs, JobInv, PageInv, OnItsWay, Covered
<1> QED
  BY <1>1, <1>2, <1>3, <1>4 DEF IInv

(* After a change its sender has yet to collect the pages.                 *)
LEMMA DisconnectKeeps ==
  ASSUME IInv, NEW h \in Handlers, Disconnect(h)
  PROVE  IInv'
<1>1. TypeOK'
  BY JobRanges, NamesAssumption DEF Disconnect, ChangeAndBroadcast, Change, DevGoes,
     Others, IInv, TypeOK, JobInv
<1>2. JobInv'
  BY ChangeKeepsJobs, NamesAssumption DEF Disconnect, ChangeAndBroadcast, Others, IInv
<1>3. PageInv'
  BY NamesAssumption DEF Disconnect, ChangeAndBroadcast, Change, DevGoes, Idle, Others,
     IInv, TypeOK, Jobs, JobInv, PageInv
<1>4. Covered'
  BY NamesAssumption DEF Disconnect, ChangeAndBroadcast, Change, DevGoes, Idle, Others,
     IInv, TypeOK, Jobs, JobInv, PageInv, OnItsWay, Covered
<1> QED
  BY <1>1, <1>2, <1>3, <1>4 DEF IInv

(* After a change its sender has yet to collect the pages.                 *)
LEMMA ExpireDevicesKeeps ==
  ASSUME IInv, ExpireDevices
  PROVE  IInv'
<1>1. TypeOK'
  BY JobRanges, NamesAssumption DEF ExpireDevices, ChangeAndBroadcast, Change, Others,
     IInv, TypeOK, JobInv
<1>2. JobInv'
  BY ChangeKeepsJobs, NamesAssumption DEF ExpireDevices, ChangeAndBroadcast, Others, IInv
<1>3. PageInv'
  BY NamesAssumption DEF ExpireDevices, ChangeAndBroadcast, Change, Idle, Others, IInv,
     TypeOK, Jobs, JobInv, PageInv
<1>4. Covered'
  BY NamesAssumption DEF ExpireDevices, ChangeAndBroadcast, Change, Idle, Others, IInv,
     TypeOK, Jobs, JobInv, PageInv, OnItsWay, Covered
<1> QED
  BY <1>1, <1>2, <1>3, <1>4 DEF IInv

(* The checker is about to collect the pages.                              *)
LEMMA TickKeeps ==
  ASSUME IInv, Tick
  PROVE  IInv'
<1>1. TypeOK'
  BY NamesAssumption DEF Tick, Others, IInv, TypeOK, Jobs, JobInv
<1>2. JobInv'
  BY NamesAssumption DEF Tick, Others, IInv, TypeOK, Jobs, JobInv
<1>3. PageInv'
  BY NamesAssumption DEF Tick, Others, IInv, TypeOK, Jobs, JobInv, PageInv
<1>4. Covered'
  BY NamesAssumption DEF Tick, Others, IInv, TypeOK, Jobs, JobInv, PageInv,
     OnItsWay, Covered
<1> QED
  BY <1>1, <1>2, <1>3, <1>4 DEF IInv

(* It is about to collect the pages now.                                   *)
LEMMA StopExpiredKeeps ==
  ASSUME IInv, StopExpired
  PROVE  IInv'
<1>1. TypeOK'
  BY NamesAssumption DEF StopExpired, Others, IInv, TypeOK, Jobs, JobInv
<1>2. JobInv'
  BY NamesAssumption DEF StopExpired, Others, IInv, TypeOK, Jobs, JobInv
<1>3. PageInv'
  BY NamesAssumption DEF StopExpired, Others, IInv, TypeOK, Jobs, JobInv, PageInv
<1>4. Covered'
  BY NamesAssumption DEF StopExpired, Others, IInv, TypeOK, Jobs, JobInv, PageInv,
     OnItsWay, Covered
<1> QED
  BY <1>1, <1>2, <1>3, <1>4 DEF IInv

(* The checker held nothing.                                               *)
LEMMA CheckerEndsKeeps ==
  ASSUME IInv, CheckerEnds
  PROVE  IInv'
<1>1. TypeOK'
  BY NamesAssumption DEF CheckerEnds, Others, IInv, TypeOK, Jobs, JobInv
<1>2. JobInv'
  BY NamesAssumption DEF CheckerEnds, Others, IInv, TypeOK, Jobs, JobInv
<1>3. PageInv'
  BY NamesAssumption DEF CheckerEnds, Others, IInv, TypeOK, Jobs, JobInv, PageInv
<1>4. Covered'
  BY NamesAssumption DEF CheckerEnds, Others, IInv, TypeOK, Jobs, JobInv, PageInv,
     OnItsWay, Covered
<1> QED
  BY <1>1, <1>2, <1>3, <1>4 DEF IInv

(* A new page is not in the map.                                           *)
LEMMA UpgradeKeeps ==
  ASSUME IInv, NEW p \in Pages, Upgrade(p)
  PROVE  IInv'
<1>1. TypeOK'
  BY NamesAssumption DEF Upgrade, PageGoes, Unreferenced, IInv, TypeOK, Jobs,
     JobInv
<1>2. JobInv'
  BY NamesAssumption DEF Upgrade, PageGoes, Unreferenced, IInv, TypeOK, Jobs,
     JobInv
<1>3. PageInv'
  BY NamesAssumption DEF Upgrade, PageGoes, Unreferenced, IInv, TypeOK, Jobs,
     JobInv, PageInv
<1>4. Covered'
  BY NamesAssumption DEF Upgrade, PageGoes, Unreferenced, IInv, TypeOK, Jobs,
     JobInv, PageInv, OnItsWay, Covered
<1> QED
  BY <1>1, <1>2, <1>3, <1>4 DEF IInv

(* Every page in the map is before the sender.                             *)
LEMMA CollectKeeps ==
  ASSUME IInv, NEW a \in Senders, Collect(a)
  PROVE  IInv'
<1>1. TypeOK'
  BY JobRanges, NamesAssumption DEF Collect, SendsOn, IInv, TypeOK, JobInv
<1>2. JobInv'
  BY NamesAssumption DEF Collect, SendsOn, Idle, IInv, TypeOK, Jobs, JobInv
<1>3. PageInv'
  BY NamesAssumption DEF Collect, SendsOn, Idle, IInv, TypeOK, Jobs, JobInv,
     PageInv
<1>4. Covered'
  BY NamesAssumption DEF Collect, SendsOn, Idle, IInv, TypeOK, Jobs, JobInv,
     PageInv, OnItsWay, Covered
<1> QED
  BY <1>1, <1>2, <1>3, <1>4 DEF IInv

(* What the sender holds for its page is fresh.                            *)
LEMMA SnapshotKeeps ==
  ASSUME IInv, NEW a \in Senders, NEW p \in Pages, Snapshot(a, p)
  PROVE  IInv'
<1>1. TypeOK'
  BY NamesAssumption DEF Snapshot, IInv, TypeOK, Jobs, JobInv
<1>2. JobInv'
  BY NamesAssumption DEF Snapshot, IInv, TypeOK, Jobs, JobInv
<1>3. PageInv'
  BY NamesAssumption DEF Snapshot, IInv, TypeOK, Jobs, JobInv, PageInv
<1>4. Covered'
  BY NamesAssumption DEF Snapshot, IInv, TypeOK, Jobs, JobInv, PageInv,
     OnItsWay, Covered
<1> QED
  BY <1>1, <1>2, <1>3, <1>4 DEF IInv

(* What the sender holds is not touched.                                   *)
LEMMA BeginWriteKeeps ==
  ASSUME IInv, NEW a \in Senders, BeginWrite(a)
  PROVE  IInv'
<1>1. TypeOK'
  BY NamesAssumption DEF BeginWrite, Writing, IInv, TypeOK, Jobs, JobInv
<1>2. JobInv'
  BY NamesAssumption DEF BeginWrite, Writing, IInv, TypeOK, Jobs, JobInv
<1>3. PageInv'
  BY NamesAssumption DEF BeginWrite, Writing, IInv, TypeOK, Jobs, JobInv,
     PageInv
<1>4. Covered'
  BY NamesAssumption DEF BeginWrite, Writing, IInv, TypeOK, Jobs, JobInv,
     PageInv, OnItsWay, Covered
<1> QED
  BY <1>1, <1>2, <1>3, <1>4 DEF IInv

(* A fresh table is received; of an old one another is on its way.         *)
LEMMA WrittenKeeps ==
  ASSUME IInv, NEW a \in Senders, Written(a)
  PROVE  IInv'
<1>1. TypeOK'
  <2>1. job[a].to \in Pages
    BY JobRanges DEF Written, IInv, TypeOK, JobInv
  <2>2. shown' \subseteq got' /\ got' \subseteq Pages
    BY <2>1 DEF Written, IInv, TypeOK
  <2>3. UNCHANGED <<session, link, adminClients, skipped, stops>>
    BY DEF Written
  <2>4. dev' \in [Handlers -> {"away", "joining", "here", "leaving", "ghost"}]
    BY DEF Written, WriteEnds, SendsOn, IInv, TypeOK
  <2>5. page' \in [Pages -> {"none", "upgraded", "sending", "reading", "leaving"}]
    BY DEF Written, WriteEnds, SendsOn, IInv, TypeOK
  <2>6. job' \in [Senders -> Jobs]
    BY JobRanges DEF Written, WriteEnds, SendsOn, IInv, TypeOK
  <2> QED
    BY <2>2, <2>3, <2>4, <2>5, <2>6 DEF IInv, TypeOK
<1>2. JobInv'
  BY NamesAssumption DEF Written, WriteEnds, SendsOn, Idle, IInv, TypeOK, Jobs,
     JobInv
<1>3. PageInv'
  BY NamesAssumption DEF Written, WriteEnds, SendsOn, Idle, IInv, TypeOK, Jobs,
     JobInv, PageInv
<1>4. Covered'
  BY NamesAssumption DEF Written, WriteEnds, SendsOn, Idle, IInv, TypeOK, Jobs,
     JobInv, PageInv, OnItsWay, Covered
<1> QED
  BY <1>1, <1>2, <1>3, <1>4 DEF IInv

(* A write fails only on a page that is not connected.                     *)
LEMMA WriteFailsKeeps ==
  ASSUME IInv, NEW a \in Senders, WriteFails(a)
  PROVE  IInv'
<1>1. TypeOK'
  BY JobRanges, NamesAssumption DEF WriteFails, WriteEnds, SendsOn, IInv,
     TypeOK, JobInv
<1>2. JobInv'
  BY NamesAssumption DEF WriteFails, WriteEnds, SendsOn, Idle, IInv, TypeOK,
     Jobs, JobInv
<1>3. PageInv'
  BY NamesAssumption DEF WriteFails, WriteEnds, SendsOn, Idle, IInv, TypeOK,
     Jobs, JobInv, PageInv
<1>4. Covered'
  BY NamesAssumption DEF WriteFails, WriteEnds, SendsOn, Idle, IInv, TypeOK,
     Jobs, JobInv, PageInv, OnItsWay, Covered
<1> QED
  BY <1>1, <1>2, <1>3, <1>4 DEF IInv

(* A page that got a broken frame is not connected.                        *)
LEMMA GarbleKeeps ==
  ASSUME IInv, NEW a \in Senders, Garble(a)
  PROVE  IInv'
<1>1. TypeOK'
  BY JobRanges, NamesAssumption DEF Garble, WriteEnds, SendsOn, Writing, IInv,
     TypeOK, JobInv
<1>2. JobInv'
  BY NamesAssumption DEF Garble, WriteEnds, SendsOn, Idle, Writing, IInv,
     TypeOK, Jobs, JobInv
<1>3. PageInv'
  BY NamesAssumption DEF Garble, WriteEnds, SendsOn, Idle, Writing, IInv,
     TypeOK, Jobs, JobInv, PageInv
<1>4. Covered'
  BY NamesAssumption DEF Garble, WriteEnds, SendsOn, Idle, Writing, IInv,
     TypeOK, Jobs, JobInv, PageInv, OnItsWay, Covered
<1> QED
  BY <1>1, <1>2, <1>3, <1>4 DEF IInv

(* The pages of a panicking sender count as skipped.                       *)
LEMMA PanicKeeps ==
  ASSUME IInv, NEW a \in Senders, Panic(a)
  PROVE  IInv'
<1>1. TypeOK'
  BY JobRanges, NamesAssumption DEF Panic, Writing, IInv, TypeOK, JobInv
<1>2. JobInv'
  BY NamesAssumption DEF Panic, Idle, Writing, IInv, TypeOK, Jobs, JobInv
<1>3. PageInv'
  BY NamesAssumption DEF Panic, Idle, Writing, IInv, TypeOK, Jobs, JobInv,
     PageInv
<1>4. Covered'
  BY NamesAssumption DEF Panic, Idle, Writing, IInv, TypeOK, Jobs, JobInv,
     PageInv, OnItsWay, Covered
<1> QED
  BY <1>1, <1>2, <1>3, <1>4 DEF IInv

(* The page is in the map before its first message is prepared.            *)
LEMMA EnterKeeps ==
  ASSUME IInv, NEW p \in Pages, Enter(p)
  PROVE  IInv'
<1>1. TypeOK'
  BY JobRanges, NamesAssumption DEF Enter, PageGoes, IInv, TypeOK, JobInv
<1>2. JobInv'
  BY NamesAssumption DEF Enter, PageGoes, Idle, IInv, TypeOK, Jobs, JobInv
<1>3. PageInv'
  BY NamesAssumption DEF Enter, PageGoes, Idle, IInv, TypeOK, Jobs, JobInv,
     PageInv
<1>4. Covered'
  BY NamesAssumption DEF Enter, PageGoes, Idle, IInv, TypeOK, Jobs, JobInv,
     PageInv, OnItsWay, Covered
<1> QED
  BY <1>1, <1>2, <1>3, <1>4 DEF IInv

(* A page that leaves is not connected.                                    *)
LEMMA ReadFailsKeeps ==
  ASSUME IInv, NEW p \in Pages, ReadFails(p)
  PROVE  IInv'
<1>1. TypeOK'
  BY NamesAssumption DEF ReadFails, PageGoes, IInv, TypeOK, Jobs, JobInv
<1>2. JobInv'
  BY NamesAssumption DEF ReadFails, PageGoes, IInv, TypeOK, Jobs, JobInv
<1>3. PageInv'
  BY NamesAssumption DEF ReadFails, PageGoes, IInv, TypeOK, Jobs, JobInv,
     PageInv
<1>4. Covered'
  BY NamesAssumption DEF ReadFails, PageGoes, IInv, TypeOK, Jobs, JobInv,
     PageInv, OnItsWay, Covered
<1> QED
  BY <1>1, <1>2, <1>3, <1>4 DEF IInv

(* A page that leaves is out of the map.                                   *)
LEMMA LeaveKeeps ==
  ASSUME IInv, NEW p \in Pages, Leave(p)
  PROVE  IInv'
<1>1. TypeOK'
  BY NamesAssumption DEF Leave, PageGoes, IInv, TypeOK, Jobs, JobInv
<1>2. JobInv'
  BY NamesAssumption DEF Leave, PageGoes, IInv, TypeOK, Jobs, JobInv
<1>3. PageInv'
  BY NamesAssumption DEF Leave, PageGoes, IInv, TypeOK, Jobs, JobInv, PageInv
<1>4. Covered'
  BY NamesAssumption DEF Leave, PageGoes, IInv, TypeOK, Jobs, JobInv, PageInv,
     OnItsWay, Covered
<1> QED
  BY <1>1, <1>2, <1>3, <1>4 DEF IInv

(* A page that has gone is not connected.                                  *)
LEMMA GoAwayKeeps ==
  ASSUME IInv, NEW p \in Pages, GoAway(p)
  PROVE  IInv'
<1>1. TypeOK'
  BY NamesAssumption DEF GoAway, IInv, TypeOK, Jobs, JobInv
<1>2. JobInv'
  BY NamesAssumption DEF GoAway, IInv, TypeOK, Jobs, JobInv
<1>3. PageInv'
  BY NamesAssumption DEF GoAway, IInv, TypeOK, Jobs, JobInv, PageInv
<1>4. Covered'
  BY NamesAssumption DEF GoAway, IInv, TypeOK, Jobs, JobInv, PageInv, OnItsWay,
     Covered
<1> QED
  BY <1>1, <1>2, <1>3, <1>4 DEF IInv

(* The signal touches nothing else.                                        *)
LEMMA StopSignalsKeeps ==
  ASSUME IInv, StopSignals
  PROVE  IInv'
<1>1. TypeOK'
  BY NamesAssumption DEF StopSignals, IInv, TypeOK, Jobs, JobInv
<1>2. JobInv'
  BY NamesAssumption DEF StopSignals, IInv, TypeOK, Jobs, JobInv
<1>3. PageInv'
  BY NamesAssumption DEF StopSignals, IInv, TypeOK, Jobs, JobInv, PageInv
<1>4. Covered'
  BY NamesAssumption DEF StopSignals, IInv, TypeOK, Jobs, JobInv, PageInv,
     OnItsWay, Covered
<1> QED
  BY <1>1, <1>2, <1>3, <1>4 DEF IInv

(* Nothing is left in the map.                                             *)
LEMMA StopCollectsKeeps ==
  ASSUME IInv, StopCollects
  PROVE  IInv'
<1>1. TypeOK'
  BY NamesAssumption DEF StopCollects, IInv, TypeOK, Jobs, JobInv
<1>2. JobInv'
  BY NamesAssumption DEF StopCollects, IInv, TypeOK, Jobs, JobInv
<1>3. PageInv'
  BY NamesAssumption DEF StopCollects, IInv, TypeOK, Jobs, JobInv, PageInv
<1>4. Covered'
  BY NamesAssumption DEF StopCollects, IInv, TypeOK, Jobs, JobInv, PageInv,
     OnItsWay, Covered
<1> QED
  BY <1>1, <1>2, <1>3, <1>4 DEF IInv

(* A page that is closed is not connected.                                 *)
LEMMA StopClosesKeeps ==
  ASSUME IInv, NEW p \in Pages, StopCloses(p)
  PROVE  IInv'
<1>1. TypeOK'
  BY NamesAssumption DEF StopCloses, IInv, TypeOK, Jobs, JobInv
<1>2. JobInv'
  BY NamesAssumption DEF StopCloses, IInv, TypeOK, Jobs, JobInv
<1>3. PageInv'
  BY NamesAssumption DEF StopCloses, IInv, TypeOK, Jobs, JobInv, PageInv
<1>4. Covered'
  BY NamesAssumption DEF StopCloses, IInv, TypeOK, Jobs, JobInv, PageInv,
     OnItsWay, Covered
<1> QED
  BY <1>1, <1>2, <1>3, <1>4 DEF IInv

-----------------------------------------------------------------------------
(* No page, no broadcast.                                                  *)
LEMMA Initially == Init => IInv
<1>1. Init => TypeOK
  BY JobRanges DEF Init, TypeOK
<1>2. Init => JobInv
  BY DEF Init, Idle, JobInv
<1>3. Init => PageInv /\ Covered
  BY DEF Init, PageInv, Covered
<1> QED
  BY <1>1, <1>2, <1>3 DEF IInv

(* Every step of every goroutine keeps the invariant.                      *)
LEMMA Preserved == IInv /\ [Next]_vars => IInv'
<1> SUFFICES ASSUME IInv, [Next]_vars PROVE IInv'
  OBVIOUS
<1>1. CASE Login \/ SessionExpires \/ ExpireDevices \/ CheckerStep
           \/ StopSignals \/ StopCollects
  BY <1>1, LoginKeeps, SessionExpiresKeeps, ExpireDevicesKeeps, TickKeeps,
     StopExpiredKeeps, CheckerEndsKeeps, StopSignalsKeeps, StopCollectsKeeps
     DEF CheckerStep
<1>2. ASSUME NEW r \in Requests, RequestChange(r) PROVE IInv'
  BY <1>2, RequestChangeKeeps
<1>3. ASSUME NEW h \in Handlers, Register(h) \/ Disconnect(h) PROVE IInv'
  BY <1>3, RegisterKeeps, DisconnectKeeps
<1>4. ASSUME NEW a \in Senders, SenderStep(a) \/ Written(a) PROVE IInv'
  BY <1>4, CollectKeeps, SnapshotKeeps, BeginWriteKeeps, WrittenKeeps,
     WriteFailsKeeps, GarbleKeeps, PanicKeeps DEF SenderStep
<1>5. ASSUME NEW p \in Pages,
             Upgrade(p) \/ PageStep(p) \/ StopCloses(p) \/ GoAway(p)
      PROVE  IInv'
  BY <1>5, UpgradeKeeps, EnterKeeps, ReadFailsKeeps, LeaveKeeps,
     StopClosesKeeps, GoAwayKeeps DEF PageStep
<1>6. CASE UNCHANGED vars
  BY <1>6 DEF IInv, TypeOK, JobInv, PageInv, Covered, OnItsWay
<1> QED
  BY <1>1, <1>2, <1>3, <1>4, <1>5, <1>6 DEF Next

(* The invariant holds in every reachable state.                           *)
THEOREM WebAdminInductive == Spec => []IInv
BY Initially, Preserved, PTL DEF Spec

(* No page in the map misses a change of the device table, however its     *)
(* registration, the changes and the broadcasts overlap.                   *)
THEOREM NothingMissed == Spec => []NoChangeMissed
<1>1. IInv => NoChangeMissed
  BY DEF IInv, Covered, NoChangeMissed
<1> QED
  BY <1>1, WebAdminInductive, PTL
=============================================================================
