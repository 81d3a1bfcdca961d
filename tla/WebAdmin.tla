------------------------------ MODULE WebAdmin ------------------------------
(***************************************************************************)
(* The admin interface (internal/server/web.go) and everybody who writes   *)
(* to its pages: the handlers of the devices, the admin's HTTP requests    *)
(* and the expiry checker (server.go) change the device table and then     *)
(* broadcast it; the handler of a page sends it once when it opens.        *)
(* Nothing orders these writes: each reads the table before it writes.  Of *)
(* a table that was read only its age matters: whether the table has       *)
(* changed since.                                                          *)
(*                                                                         *)
(* gorilla/websocket allows one writer at a time.  Two at once are a data  *)
(* race: one of them panics, or the page receives a broken frame and       *)
(* leaves.  net/http recovers a panic of its handlers; one of the checker  *)
(* ends the process.                                                       *)
(*                                                                         *)
(* Of Server.Stop its signal to the checker and WebServer.Stop are here;   *)
(* that it then empties the device table, without a broadcast, is not.     *)
(***************************************************************************)
CONSTANTS Pages,       \* WebSockets of admin pages
          Handlers,    \* handlers of devices
          Requests,    \* HTTP requests of admins
          Expirer,     \* the checker's goroutine
          None

Senders == Pages \cup Handlers \cup Requests \cup {Expirer}

ASSUME NamesAssumption ==
  /\ None \notin Pages
  /\ Pages \cap (Handlers \cup Requests \cup {Expirer}) = {}
  /\ Handlers \cap (Requests \cup {Expirer}) = {}
  /\ Expirer \notin Requests

VARIABLES
  dev,          \* a device and its handler
  session,      \* whether a login session admits requests
  page,         \* the goroutine of handleAdminWS
  link,         \* its connection
  adminClients, \* w.adminClients
  got,          \* pages that have received the table as it is now
  shown,        \* those that have received nothing older after it
  job,          \* what a sender is sending: to whom, and whether it is fresh
  skipped,      \* history: pages a panicking sender did not get to
  stop,         \* how far Server.Stop is
  closing       \* the pages WebServer.Stop has yet to close

pages == <<page, link, adminClients, got, shown>>
stops == <<stop, closing>>
vars == <<dev, session, pages, job, skipped, stops>>

-----------------------------------------------------------------------------
Idle == [at |-> "idle", todo |-> {}, to |-> None, fresh |-> FALSE]

Crashed == job[Expirer].at = "crashed"

PageGoes(p, from, to) == page[p] = from /\ page' = [page EXCEPT ![p] = to]

DevGoes(h, from, to) == dev[h] = from /\ dev' = [dev EXCEPT ![h] = to]

(* The table changes, and all that was read of it before is old.           *)
Change(a, next) ==
  /\ job[a].at = "idle"
  /\ job' = [b \in Senders |-> IF b = a THEN [Idle EXCEPT !.at = next]
                               ELSE [job[b] EXCEPT !.fresh = FALSE]]
  /\ got' = {} /\ shown' = {}

(* The broadcast follows outside the lock.                                 *)
ChangeAndBroadcast(a) == Change(a, "collect")

Others == <<page, link, adminClients, skipped, stops>>

(* Requests are served until the HTTP server is shut down, as the last     *)
(* thing WebServer.Stop does.                                              *)
Serving == stop # "collected" \/ closing # {}

Unreferenced(p) == p \notin closing /\ \A a \in Senders : p \notin job[a].todo

Init ==
  /\ dev = [h \in Handlers |-> "away"]
  /\ session = "none"
  /\ page = [p \in Pages |-> "none"]
  /\ link = [p \in Pages |-> "closed"]
  /\ adminClients = {}
  /\ got = {} /\ shown = {}
  /\ job = [a \in Senders |-> Idle]
  /\ skipped = {}
  /\ stop = "no" /\ closing = {}

-----------------------------------------------------------------------------
(* Login, and what it admits.                                              *)

(* handleLogin with the right password.                                    *)
Login ==
  /\ Serving
  /\ session' = "valid"
  /\ UNCHANGED <<dev, pages, job, skipped, stops>>

(* 24 hours later.  The entry stays in w.sessions, but authenticate admits *)
(* no request by it any more; open pages stay.                             *)
SessionExpires ==
  /\ session = "valid" /\ session' = "none"
  /\ UNCHANGED <<dev, pages, job, skipped, stops>>

(* handleDeviceEnable and handleDeviceDisable, when they succeed.          *)
RequestChange(r) ==
  /\ session = "valid" /\ Serving
  /\ ChangeAndBroadcast(r)
  /\ UNCHANGED <<dev, session, Others>>

(* handleAdminWS up to the upgrade.                                        *)
Upgrade(p) ==
  /\ session = "valid" /\ Serving
  /\ PageGoes(p, "none", "upgraded")
  /\ Unreferenced(p)
  /\ link' = [link EXCEPT ![p] = "open"]
  /\ UNCHANGED <<dev, session, adminClients, got, shown, job, skipped, stops>>

-----------------------------------------------------------------------------
(* Devices.                                                                *)

Register(h) ==
  /\ DevGoes(h, "away", "joining")
  /\ ChangeAndBroadcast(h)
  /\ UNCHANGED <<session, Others>>

Disconnect(h) ==
  /\ DevGoes(h, "here", "leaving")
  /\ ChangeAndBroadcast(h)
  /\ UNCHANGED <<session, Others>>

(* checkExpiredDevices, when a device has expired: ...                     *)
ExpireDevices ==
  /\ Change(Expirer, "stopping")
  /\ UNCHANGED <<dev, session, Others>>

(* ... its proxy is stopped before the broadcast.                          *)
StopExpired ==
  /\ job[Expirer].at = "stopping"
  /\ job' = [job EXCEPT ![Expirer].at = "collect"]
  /\ UNCHANGED <<dev, session, got, shown, Others>>

(* Mutant: no broadcast unless a device has expired.                       *)
TickSilently ==
  /\ job[Expirer].at = "idle"
  /\ UNCHANGED vars

(* Its minute is over and nothing has expired: it broadcasts all the same. *)
Tick ==
  /\ job[Expirer].at = "idle"
  /\ job' = [job EXCEPT ![Expirer].at = "collect"]
  /\ UNCHANGED <<dev, session, got, shown, Others>>

(* The select sees stopCh, if it does not take another tick first.         *)
CheckerEnds ==
  /\ job[Expirer].at = "idle" /\ stop # "no"
  /\ job' = [job EXCEPT ![Expirer].at = "ended"]
  /\ UNCHANGED <<dev, session, got, shown, Others>>

-----------------------------------------------------------------------------
(* BroadcastDevices and sendDevicesToClient.                               *)

(* The pages a sender has yet to send to; when there is none it returns to *)
(* the handler that called it.                                             *)
SendsOn(a, rest) ==
  /\ job' = [job EXCEPT ![a] = IF rest = {} THEN Idle
                              ELSE [Idle EXCEPT !.at = "send", !.todo = rest]]
  /\ dev' = [h \in Handlers |-> IF h # a \/ rest # {} THEN dev[h]
                                ELSE IF dev[h] = "joining" THEN "here" ELSE "away"]
  /\ page' = [p \in Pages |-> IF p = a /\ rest = {} THEN "reading" ELSE page[p]]

Collect(a) ==
  /\ job[a].at = "collect"
  /\ SendsOn(a, adminClients)
  /\ UNCHANGED <<session, link, adminClients, got, shown, skipped, stops>>

(* The table is read under s.mu, ...                                       *)
Snapshot(a, p) ==
  /\ job[a].at = "send"
  /\ p \in job[a].todo
  /\ job' = [job EXCEPT ![a].at = "ready", ![a].to = p, ![a].fresh = TRUE]
  /\ UNCHANGED <<dev, session, pages, skipped, stops>>

Writing(p) == {a \in Senders : job[a].at = "writing" /\ job[a].to = p}

(* ... and written without a lock.                                         *)
BeginWrite(a) ==
  /\ job[a].at = "ready"
  /\ Writing(job[a].to) = {}
  /\ job' = [job EXCEPT ![a].at = "writing"]
  /\ UNCHANGED <<dev, session, pages, skipped, stops>>

WriteEnds(a) == SendsOn(a, job[a].todo \ {job[a].to})

(* A page that does not read keeps the writer waiting: no deadline is set. *)
Written(a) ==
  /\ job[a].at = "writing"
  /\ link[job[a].to] = "open"
  /\ IF job[a].fresh THEN got' = got \cup {job[a].to} /\ shown' = shown \cup {job[a].to}
                     ELSE UNCHANGED got /\ shown' = shown \ {job[a].to}
  /\ WriteEnds(a)
  /\ UNCHANGED <<session, link, adminClients, skipped, stops>>

(* The error of WriteMessage is ignored.                                   *)
WriteFails(a) ==
  /\ job[a].at = "writing"
  /\ link[job[a].to] # "open"
  /\ WriteEnds(a)
  /\ UNCHANGED <<session, link, adminClients, got, shown, skipped, stops>>

(* Two writers at once: a broken frame makes the page leave, ...           *)
Garble(a) ==
  /\ job[a].at = "ready"
  /\ Writing(job[a].to) # {}
  /\ link' = [link EXCEPT ![job[a].to] = IF @ = "open" THEN "gone" ELSE @]
  /\ WriteEnds(a)
  /\ UNCHANGED <<session, adminClients, got, shown, skipped, stops>>

(* ... or one of the two panics, at its first check or at its last.  The   *)
(* handler of a device ends without handleDisconnect; that of a page runs  *)
(* its deferred functions.                                                 *)
Panic(a) ==
  /\ \/ job[a].at = "ready" /\ Writing(job[a].to) # {}
     \/ job[a].at = "writing"
        /\ \E b \in Senders : job[b].at = "ready" /\ job[b].to = job[a].to
  /\ job' = [job EXCEPT ![a] = IF a = Expirer THEN [Idle EXCEPT !.at = "crashed"] ELSE Idle]
  /\ skipped' = skipped \cup job[a].todo
  /\ dev' = [h \in Handlers |-> IF h # a THEN dev[h]
                                ELSE IF dev[h] = "joining" THEN "ghost" ELSE "away"]
  /\ page' = [p \in Pages |-> IF p = a THEN "leaving" ELSE page[p]]
  /\ UNCHANGED <<session, link, adminClients, got, shown, stops>>

-----------------------------------------------------------------------------
(* handleAdminWS after the upgrade.                                        *)

(* Mutant: the page enters the map only after its first message.           *)
EnterLate(p) ==
  \/ /\ PageGoes(p, "upgraded", "sending")
     /\ job' = [job EXCEPT ![p] = [Idle EXCEPT !.at = "send", !.todo = {p}]]
     /\ UNCHANGED <<dev, session, link, adminClients, got, shown, skipped, stops>>
  \/ /\ page[p] = "reading" /\ p \notin adminClients
     /\ adminClients' = adminClients \cup {p}
     /\ UNCHANGED <<dev, session, page, link, got, shown, job, skipped, stops>>

(* The page enters the map and is sent the table as it is now.             *)
Enter(p) ==
  /\ PageGoes(p, "upgraded", "sending")
  /\ adminClients' = adminClients \cup {p}
  /\ job' = [job EXCEPT ![p] = [Idle EXCEPT !.at = "send", !.todo = {p}]]
  /\ UNCHANGED <<dev, session, link, got, shown, skipped, stops>>

(* Mutant: the loop ignores a read error.                                  *)
ReadIgnored(p) ==
  /\ PageGoes(p, "reading", "reading")
  /\ link[p] # "open"
  /\ UNCHANGED <<dev, session, link, adminClients, got, shown, job, skipped, stops>>

ReadFails(p) ==
  /\ PageGoes(p, "reading", "leaving")
  /\ link[p] # "open"
  /\ UNCHANGED <<dev, session, link, adminClients, got, shown, job, skipped, stops>>

(* The deferred functions: out of the map, and closed.                     *)
Leave(p) ==
  /\ PageGoes(p, "leaving", "none")
  /\ adminClients' = adminClients \ {p}
  /\ link' = [link EXCEPT ![p] = "closed"]
  /\ got' = got \ {p} /\ shown' = shown \ {p}
  /\ skipped' = skipped \ {p}
  /\ UNCHANGED <<dev, session, job, stops>>

(* The browser goes away, or the network.                                  *)
GoAway(p) ==
  /\ link[p] = "open" /\ link' = [link EXCEPT ![p] = "gone"]
  /\ UNCHANGED <<dev, session, page, adminClients, got, shown, job, skipped, stops>>

-----------------------------------------------------------------------------
(* Server.Stop closes stopCh, ...                                          *)
StopSignals ==
  /\ stop = "no" /\ stop' = "signalled"
  /\ UNCHANGED <<dev, session, pages, job, skipped, closing>>

(* ... then calls WebServer.Stop.                                          *)
StopCollects ==
  /\ stop = "signalled" /\ stop' = "collected"
  /\ closing' = adminClients /\ adminClients' = {}
  /\ UNCHANGED <<dev, session, page, link, got, shown, job, skipped>>

StopCloses(p) ==
  /\ p \in closing /\ closing' = closing \ {p}
  /\ link' = [link EXCEPT ![p] = "closed"]
  /\ UNCHANGED <<dev, session, page, adminClients, got, shown, job, skipped, stop>>

-----------------------------------------------------------------------------
TableChanges ==
  /\ ~ Crashed
  /\ \/ ExpireDevices
     \/ \E r \in Requests : RequestChange(r)
     \/ \E h \in Handlers : Register(h) \/ Disconnect(h)

CheckerStep == StopExpired \/ Tick \/ CheckerEnds

SenderStep(a) ==
  \/ Collect(a) \/ BeginWrite(a) \/ WriteFails(a)
  \/ Garble(a) \/ Panic(a)
  \/ \E p \in Pages : Snapshot(a, p)

PageStep(p) == Enter(p) \/ ReadFails(p) \/ Leave(p)

Next ==
  /\ ~ Crashed
  /\ \/ Login \/ SessionExpires \/ ExpireDevices \/ CheckerStep
     \/ StopSignals \/ StopCollects
     \/ \E r \in Requests : RequestChange(r)
     \/ \E h \in Handlers : Register(h) \/ Disconnect(h)
     \/ \E a \in Senders : SenderStep(a) \/ Written(a)
     \/ \E p \in Pages : Upgrade(p) \/ PageStep(p) \/ StopCloses(p) \/ GoAway(p)

Spec == Init /\ [][Next]_vars

(* Goroutines run, the checker's ticker ticks until Stop, and pages read   *)
(* what is sent to them or go away: a write has no deadline, and one to a  *)
(* page that keeps its socket open and does not read holds up the          *)
(* goroutine that broadcasts, be it the expiry checker's.                  *)
FairSpec ==
  /\ Spec
  /\ \A a \in Senders : WF_vars(~ Crashed /\ SenderStep(a)) /\ WF_vars(~ Crashed /\ Written(a))
  /\ \A p \in Pages : WF_vars(~ Crashed /\ PageStep(p)) /\ WF_vars(~ Crashed /\ StopCloses(p))
  /\ WF_vars(~ Crashed /\ CheckerStep)

-----------------------------------------------------------------------------
(* Properties.                                                             *)

Jobs == [at : {"idle", "stopping", "collect", "send", "ready", "writing", "crashed", "ended"},
         todo : SUBSET Pages, to : Pages \cup {None}, fresh : BOOLEAN]

(* Ranges of the variables.                                                *)
TypeOK ==
  /\ dev \in [Handlers -> {"away", "joining", "here", "leaving", "ghost"}]
  /\ session \in {"none", "valid"}
  /\ page \in [Pages -> {"none", "upgraded", "sending", "reading", "leaving"}]
  /\ link \in [Pages -> {"closed", "open", "gone"}]
  /\ adminClients \subseteq Pages
  /\ shown \subseteq got /\ got \subseteq Pages
  /\ job \in [Senders -> Jobs]
  /\ skipped \subseteq Pages
  /\ stop \in {"no", "signalled", "collected"} /\ closing \subseteq Pages

(* The newest table is on its way to page p: a sender has yet to collect   *)
(* the pages, or has p before it and has not read an older table for it.   *)
OnItsWay(p) ==
  \E a \in Senders :
    \/ job[a].at \in {"stopping", "collect"}
    \/ p \in job[a].todo /\ (job[a].to = p => job[a].fresh)

(* No change is missed: a connected page in the map has received the       *)
(* newest table or it is on its way, however registration, changes and     *)
(* broadcasts overlap; the exception is a page a panicking sender skipped. *)
NoChangeMissed ==
  \A p \in adminClients \ skipped :
    page[p] = "reading" /\ link[p] = "open" => p \in got \/ OnItsWay(p)

(* When the table no longer changes, a page that shows an old one shows    *)
(* the current one some time later, or is gone: broadcasts that overtake   *)
(* each other and broadcasts that panic are repaired by the checker's      *)
(* broadcast of every minute, until Stop ends the checker.                 *)
PagesCatchUp ==
  \/ []<><<TableChanges>>_vars
  \/ \A p \in Pages :
       p \in adminClients ~> (p \in shown \/ p \notin adminClients \/ Crashed \/ stop # "no")

(* A page that has gone away leaves the map, even while it is written to.  *)
LostPageLeaves ==
  \A p \in Pages : link[p] = "gone" ~> (page[p] = "none" \/ Crashed)

-----------------------------------------------------------------------------
(* The inductive invariant.                                                *)

(* A sender has pages before it only while it broadcasts, and writes to    *)
(* one of them; the handler of a page sends only to open it.               *)
JobInv ==
  \A a \in Senders :
    /\ job[a].at \in {"ready", "writing"} \/ job[a].to = None
    /\ job[a].at \in {"send", "ready", "writing"} \/ job[a].todo = {}
    /\ job[a].at \in {"ready", "writing"} => job[a].to \in job[a].todo
    /\ a \in Pages => job[a].at \notin {"stopping", "collect"} /\ (job[a].at # "idle" => page[a] = "sending")

(* A page is in the map only after its upgrade.                            *)
PageInv == \A p \in adminClients : page[p] \notin {"none", "upgraded"}

(* NoChangeMissed, from the moment a page is in the map.                   *)
Covered ==
  \A p \in adminClients \ skipped :
    page[p] \in {"sending", "reading"} /\ link[p] = "open" => p \in got \/ OnItsWay(p)

(* The strengthening the proofs use.                                       *)
IInv == TypeOK /\ JobInv /\ PageInv /\ Covered

-----------------------------------------------------------------------------
(* protocol.md:113, a device whose connection is lost is removed: no       *)
(* device is left in the table without a handler.                          *)
NoGhostDevice == \A h \in Handlers : dev[h] # "ghost"
=============================================================================
