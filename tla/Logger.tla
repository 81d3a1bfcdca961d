------------------------------- MODULE Logger -------------------------------
(***************************************************************************)
(* The logger of the server program (logger.go) with the goroutines that   *)
(* share it: writers, the loop that marks a file as out of date, the loop  *)
(* that removes old directories, and the two goroutines of main.go that    *)
(* close it, main itself and the one that waits for a signal.              *)
(*                                                                         *)
(* Files are named by their hour; the directories hold a day each.  The    *)
(* name of a directory is a local date that the cleanup parses as UTC.     *)
(***************************************************************************)
EXTENDS Integers, FiniteSets

CONSTANTS
  Writers,      \* goroutines that log
  DayHours,     \* hours of a day
  West,         \* hours local time is behind UTC, negative if it is ahead
  Flag, File,   \* -log-max-age and log_max_age in days, 0 if not given
  First, Last   \* bound: the hours of the local clock while the program runs

(* No time zone is more than half a day behind UTC; those ahead of it are  *)
(* not limited (there are some of 13 and 14 hours).                        *)
ASSUME LoggerAssumption ==
  /\ IsFiniteSet(Writers)
  /\ DayHours \in Nat \ {0} /\ West \in Int
  /\ 2 * West <= DayHours
  /\ Flag \in Int /\ File \in Int
  /\ First \in Nat /\ Last \in Nat

VARIABLES
  now,      \* local clock, in hours
  dirs,     \* days with a directory
  cur,      \* currentDate and currentHour
  open,     \* currentFile is open
  marked,   \* needRotate
  mu,       \* who holds l.mu over several steps: "free" or a writer
  at,       \* the hour rotateIfNeeded has read
  writer,   \* per writer: where its call of write is
  check,    \* rotateCheckLoop
  clean,    \* cleanupLoop; "off" when doneCh is closed
  doomed,   \* days cleanOldLogs is about to remove
  stopCh,   \* stopCh is closed
  main, sig,\* the two goroutines of startServer
  exited    \* the process has ended

file == <<cur, open, marked, mu, at>>
cleaner == <<clean, doomed>>
closers == <<stopCh, main, sig, exited>>
vars == <<now, dirs, file, writer, check, cleaner, closers>>

-----------------------------------------------------------------------------
(* A flag comes before the configuration file, which comes before the      *)
(* default; neither can make it less than a day.                           *)
MaxAge == IF Flag > 0 THEN Flag ELSE IF File > 0 THEN File ELSE 7

Day(h) == h \div DayHours

(* Mutant: a day less.                                                     *)
BeforeCutoffEarly(d) == d * DayHours < now + West - (MaxAge - 1) * DayHours

(* The midnight of d, taken as UTC, is before the cutoff.                  *)
BeforeCutoff(d) == d * DayHours < now + West - MaxAge * DayHours

(* NewLogger has opened a file; older directories may be there.            *)
Init ==
  /\ now = First /\ cur = First /\ at = First
  /\ \E oldest \in 0..Day(First) : dirs = oldest..Day(First)
  /\ open = TRUE /\ marked = FALSE /\ mu = "free"
  /\ writer = [w \in Writers |-> "idle"]
  /\ check = "idle" /\ clean = "cleaning" /\ doomed = {}
  /\ stopCh = FALSE /\ main = "serving" /\ sig = "waiting" /\ exited = FALSE

Tick ==
  /\ now < Last /\ now' = now + 1
  /\ UNCHANGED <<dirs, file, writer, check, cleaner, closers>>

-----------------------------------------------------------------------------
(* write.                                                                  *)
Moves(w, from, to) == writer[w] = from /\ writer' = [writer EXCEPT ![w] = to]

(* needRotate is loaded without the lock; without the mark, and after a    *)
(* rotation, the line is written and no variable changes.                  *)
Load(w) ==
  /\ marked /\ Moves(w, "idle", "rotating")
  /\ UNCHANGED <<now, dirs, file, check, cleaner, closers>>

(* rotateIfNeeded: another writer may have rotated; the mark stays.        *)
RotateNotNeeded(w) ==
  /\ mu = "free" /\ cur = now
  /\ Moves(w, "rotating", "idle")
  /\ UNCHANGED <<now, dirs, file, check, cleaner, closers>>

(* Mutant: the fields are set before the file is there.                    *)
CloseCurrentNamesFirst(w) ==
  /\ mu = "free" /\ cur # now
  /\ Moves(w, "rotating", "opening")
  /\ mu' = w /\ at' = now /\ open' = FALSE /\ cur' = now
  /\ UNCHANGED <<now, dirs, marked, check, cleaner, closers>>

CloseCurrent(w) ==
  /\ mu = "free" /\ cur # now
  /\ Moves(w, "rotating", "opening")
  /\ mu' = w /\ at' = now /\ open' = FALSE
  /\ UNCHANGED <<now, dirs, cur, marked, check, cleaner, closers>>

OpenNext(w) ==
  /\ Moves(w, "opening", "idle")
  /\ mu' = "free"
  /\ dirs' = dirs \cup {Day(at)}
  /\ cur' = at /\ open' = TRUE /\ marked' = FALSE
  /\ UNCHANGED <<now, at, check, cleaner, closers>>

(* The directory cannot be made, or it can and the file cannot: the line   *)
(* is dropped.                                                             *)
OpenFails(w) ==
  /\ Moves(w, "opening", "idle")
  /\ mu' = "free"
  /\ dirs' \in {dirs, dirs \cup {Day(at)}}
  /\ UNCHANGED <<now, cur, open, marked, at, check, cleaner, closers>>

-----------------------------------------------------------------------------
(* rotateCheckLoop.                                                        *)

(* The current file is compared with the clock, which is read just before  *)
(* the lock is taken: a late comparison is made up for by the next, ...    *)
Compare ==
  /\ check = "idle" /\ mu = "free" /\ cur # now
  /\ check' = "marking"
  /\ UNCHANGED <<now, dirs, file, writer, cleaner, closers>>

(* ... and marked after it.                                                *)
Mark ==
  /\ check = "marking" /\ check' = "idle" /\ marked' = TRUE
  /\ UNCHANGED <<now, dirs, cur, open, mu, at, writer, cleaner, closers>>

CheckStops ==
  /\ check = "idle" /\ stopCh /\ check' = "off"
  /\ UNCHANGED <<now, dirs, file, writer, cleaner, closers>>

-----------------------------------------------------------------------------
(* cleanupLoop: at once, then every hour.                                  *)
CleanStarts ==
  /\ clean = "idle" /\ clean' = "cleaning"
  /\ UNCHANGED <<now, dirs, file, writer, check, doomed, closers>>

(* Mutant: only the directory of the day that has just expired.            *)
ListLastOnly ==
  /\ clean = "cleaning" /\ clean' = "removing"
  /\ doomed' = {d \in dirs : BeforeCutoff(d) /\ ~ BeforeCutoff(d + 1)}
  /\ UNCHANGED <<now, dirs, file, writer, check, closers>>

ListOld ==
  /\ clean = "cleaning" /\ clean' = "removing"
  /\ doomed' = {d \in dirs : BeforeCutoff(d)}
  /\ UNCHANGED <<now, dirs, file, writer, check, closers>>

(* Errors of RemoveAll are ignored: the directories in gone are removed.   *)
(* None of them is when the log directory could not be read, either.       *)
RemoveOld(gone) ==
  /\ clean = "removing" /\ clean' = "idle"
  /\ dirs' = dirs \ gone /\ doomed' = {}
  /\ UNCHANGED <<now, file, writer, check, closers>>

(* Mutant: doneCh stays open.                                              *)
CleanEndsSilently ==
  /\ clean = "idle" /\ stopCh /\ clean' = "gone"
  /\ UNCHANGED <<now, dirs, file, writer, check, doomed, closers>>

CleanStops ==
  /\ clean = "idle" /\ stopCh /\ clean' = "off"
  /\ UNCHANGED <<now, dirs, file, writer, check, doomed, closers>>

-----------------------------------------------------------------------------
(* startServer and Close.                                                  *)

(* Server.Start fails, or returns because Stop shut its listener down.     *)
StartReturns ==
  /\ main = "serving" /\ main' = "closing"
  /\ UNCHANGED <<now, dirs, file, writer, check, cleaner, stopCh, sig, exited>>

(* A signal; Server.Stop runs until it shuts the listener down.            *)
Signal ==
  /\ sig = "waiting" /\ sig' = "stopping"
  /\ UNCHANGED <<now, dirs, file, writer, check, cleaner, stopCh, main, exited>>

(* Server.Stop has returned: the logger is closed in a goroutine.          *)
ServerStopped ==
  /\ sig = "stopping" /\ sig' = "closing"
  /\ UNCHANGED <<now, dirs, file, writer, check, cleaner, stopCh, main, exited>>

(* close(stopCh) panics the second time, which ends the process.           *)
MainCloses ==
  /\ main = "closing" /\ main' = "awaiting"
  /\ stopCh' = TRUE /\ exited' = stopCh
  /\ UNCHANGED <<now, dirs, file, writer, check, cleaner, sig>>

SigCloses ==
  /\ sig = "closing" /\ sig' = "awaiting"
  /\ stopCh' = TRUE /\ exited' = stopCh
  /\ UNCHANGED <<now, dirs, file, writer, check, cleaner, main>>

(* doneCh is closed and the file is closed; os.Exit follows.               *)
Closed ==
  /\ clean = "off" /\ mu = "free" /\ open' = FALSE
  /\ UNCHANGED <<now, dirs, cur, marked, mu, at, writer, check, cleaner, stopCh>>

MainExits ==
  /\ main = "awaiting" /\ Closed
  /\ main' = "exiting" /\ exited' = TRUE /\ UNCHANGED sig

SigExits ==
  /\ sig = "awaiting" /\ Closed
  /\ sig' = "exiting" /\ exited' = TRUE /\ UNCHANGED main

(* Three seconds pass first.                                               *)
SigTimesOut ==
  /\ sig \in {"closing", "awaiting"} /\ mu = "free"
  /\ sig' = "exiting" /\ exited' = TRUE
  /\ UNCHANGED <<now, dirs, file, writer, check, cleaner, stopCh, main>>

-----------------------------------------------------------------------------
RotateStep(w) == RotateNotNeeded(w) \/ CloseCurrent(w)

WriterStep(w) == Load(w) \/ RotateStep(w) \/ OpenNext(w) \/ OpenFails(w)
CheckStep == Compare \/ Mark \/ CheckStops
CleanStep ==
  CleanStarts \/ ListOld \/ \E gone \in SUBSET doomed : RemoveOld(gone)
MainStep == MainCloses \/ MainExits
SigStep == ServerStopped \/ SigCloses \/ SigExits \/ SigTimesOut

Next ==
  /\ ~ exited
  /\ \/ Tick
     \/ \E w \in Writers : WriterStep(w)
     \/ CheckStep
     \/ CleanStep \/ CleanStops
     \/ StartReturns \/ MainStep
     \/ Signal \/ SigStep

Spec == Init /\ [][Next]_vars

(* Something is always logged again, the tickers tick, whoever waits for   *)
(* the mutex gets it, a disk that refuses a file or a removal does not     *)
(* refuse it for ever, and a select with two channels ready does not       *)
(* ignore one of them.                                                     *)
Runs(A) == A /\ ~ exited

FairSpec ==
  /\ Spec
  /\ WF_vars(\E w \in Writers : Runs(Load(w)))
  /\ SF_vars(\E w \in Writers : Runs(RotateStep(w)))
  /\ SF_vars(\E w \in Writers : Runs(OpenNext(w)))
  /\ SF_vars(Runs(Compare)) /\ WF_vars(Runs(Mark))
  /\ WF_vars(Runs(CleanStep)) /\ SF_vars(Runs(RemoveOld(doomed)))
  /\ SF_vars(Runs(CleanStops))
  /\ WF_vars(Runs(MainCloses)) /\ SF_vars(Runs(MainExits))
  /\ SF_vars(Runs(SigStep))

-----------------------------------------------------------------------------
(* Properties.                                                             *)

(* Ranges of the variables.                                                *)
TypeOK ==
  /\ now \in Nat /\ cur \in Nat /\ at \in Nat
  /\ dirs \subseteq Int /\ doomed \subseteq Int
  /\ open \in BOOLEAN /\ marked \in BOOLEAN
  /\ mu \in Writers \cup {"free"}
  /\ writer \in [Writers -> {"idle", "rotating", "opening"}]
  /\ check \in {"idle", "marking", "off"}
  /\ clean \in {"idle", "cleaning", "removing", "off"}
  /\ stopCh \in BOOLEAN /\ exited \in BOOLEAN
  /\ main \in {"serving", "closing", "awaiting", "exiting"}
  /\ sig \in {"waiting", "stopping", "closing", "awaiting", "exiting"}

(* The cleanup never takes the directory of the day the current file was   *)
(* opened in, although it reads local dates as UTC and removes what it has *)
(* listed later, while the clock goes on and files are opened.  This needs *)
(* at least two days of retention (see RetentionKept).                     *)
TodayKept == MaxAge >= 2 /\ open /\ Day(cur) = Day(now) => Day(cur) \in dirs

(* The cleanup takes no directory before it is MaxAge days old by the      *)
(* calendar of UTC, however much later than listed it is removed, while    *)
(* the clock goes on and files are opened.  This is not what is documented *)
(* (RetentionKept): west of UTC its calendar is ahead of the local one     *)
(* that names the directories, for a part of every day.                    *)
RetentionByUTC == [][\A d \in dirs \ dirs' : Day(now + West) - d >= MaxAge]_vars

(* What that means by the local calendar: a day too early at most.         *)
DayEarlyAtMost == [][\A d \in dirs \ dirs' : Day(now) - d >= MaxAge - 1]_vars

(* "Days logs are kept" (README.md:130), and directories past them are     *)
(* removed (docs/logging.md:153): no directory goes before MaxAge days     *)
(* after its own.  The code keeps this in UTC and east of it only; west of *)
(* it, with one day of retention, it takes the directory of today.         *)
RetentionKept == [][\A d \in dirs \ dirs' : Day(now) - d >= MaxAge]_vars

(* A closed file is never taken for the file of the hour: after a rotation *)
(* that could not open the next file the comparison with the clock finds   *)
(* the file out of date, so the rotation is tried again, whatever other    *)
(* writers and late marks have done to needRotate.                         *)
FailedRotationIsSeen == ~ open /\ ~ exited => cur # now

(* What the proofs need: hours are read off the clock and a file is named  *)
(* by an hour that is over while the next one is being opened; what was    *)
(* old when it was listed is old.                                          *)
ClockInv == cur <= now /\ at <= now
RotateInv == open \/ exited \/ cur < now
DoomedInv == \A d \in doomed : BeforeCutoff(d)
IInv == TypeOK /\ ClockInv /\ RotateInv /\ DoomedInv /\ TodayKept

(* When the hour is over, and when a rotation has closed the old file and  *)
(* could not open the next, the file of the hour is opened in the end.     *)
FileFollowsClock == (~ open \/ cur # now) ~> (open /\ cur = now) \/ stopCh \/ exited

AllCurrent == \A d \in dirs : ~ BeforeCutoff(d)

(* Directories past their retention go, also those of days the program did *)
(* not run and those that could not be removed at first.                   *)
OldLogsGo == ~ AllCurrent ~> AllCurrent \/ stopCh \/ exited

(* Once Start has returned or a signal has come the process ends, whoever  *)
(* closes the logger first.                                                *)
ProcessEnds == (main # "serving" \/ sig # "waiting") ~> exited
=============================================================================
