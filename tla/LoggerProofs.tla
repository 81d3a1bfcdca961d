---------------------------- MODULE LoggerProofs ----------------------------
(***************************************************************************)
(* The cleanup never takes the directory of the day (with two days of      *)
(* retention), takes none more than a day before its time, and takes none  *)
(* before its time in UTC or east of it; a rotation that failed is seen.   *)
(* All of it whatever the length of a day, the distance from UTC (up to    *)
(* half a day behind, any ahead), the retention and the number of          *)
(* goroutines that log.                                                    *)
(***************************************************************************)
EXTENDS Logger, TLAPS

(* What division by the hours of a day says.                               *)
LEMMA DayBounds ==
  ASSUME NEW h \in Int
  PROVE  /\ Day(h) \in Int
         /\ Day(h) * DayHours <= h
         /\ h < Day(h) * DayHours + DayHours
  BY LoggerAssumption, SMTT(60) DEF Day

LEMMA NextMultiple ==
  ASSUME NEW a \in Int, NEW b \in Int, NEW n \in Nat, a < b
  PROVE  a * n + n <= b * n
<1> DEFINE k == b - a - 1
<1>1. k \in Nat /\ b = a + 1 + k OBVIOUS
<1>2. k * n >= 0 BY <1>1
<1>3. b * n = a * n + n + k * n BY <1>1
<1> QED BY <1>1, <1>2, <1>3

LEMMA DayMonotonic ==
  ASSUME NEW g \in Int, NEW h \in Int, g <= h
  PROVE  Day(g) <= Day(h)
<1>1. SUFFICES ASSUME Day(h) < Day(g) PROVE FALSE
  BY DayBounds
<1>2. Day(h) * DayHours + DayHours <= Day(g) * DayHours
  BY <1>1, DayBounds, NextMultiple, LoggerAssumption
<1>3. Day(g) * DayHours <= g /\ h < Day(h) * DayHours + DayHours
  BY DayBounds
<1>4. Day(g) * DayHours \in Int /\ Day(h) * DayHours \in Int /\ DayHours \in Nat
  BY DayBounds, LoggerAssumption
<1> DEFINE u == Day(g) * DayHours
           v == Day(h) * DayHours
<1>5. u \in Int /\ v \in Int /\ v + DayHours <= u /\ u <= g /\ h < v + DayHours
  BY <1>2, <1>3, <1>4
<1> HIDE DEF u, v
<1> QED BY <1>4, <1>5

(* With two days of retention today is not old.                            *)
LEMMA TodayIsCurrent ==
  ASSUME NEW h \in Nat, MaxAge >= 2
  PROVE  ~ (Day(h) * DayHours < h + West - MaxAge * DayHours)
<1>1. MaxAge \in Nat /\ DayHours \in Nat /\ DayHours > 0 /\ West \in Int
  BY LoggerAssumption DEF MaxAge
<1>2. DayHours + DayHours <= MaxAge * DayHours
  <2>1. 1 * DayHours + DayHours <= MaxAge * DayHours BY <1>1, NextMultiple
  <2> QED BY <2>1, <1>1
<1>3. 2 * West <= DayHours
  BY LoggerAssumption
<1> DEFINE u == Day(h) * DayHours
           v == MaxAge * DayHours
<1>4. u \in Int /\ v \in Int /\ DayHours + DayHours <= v /\ h < u + DayHours
  BY <1>1, <1>2, DayBounds
<1> HIDE DEF u, v
<1>5. ~ (u < h + West - v)
  BY <1>1, <1>3, <1>4
<1> QED BY <1>5 DEF u, v
-----------------------------------------------------------------------------
LEMMA InitIInv == Init => IInv
<1> SUFFICES ASSUME Init PROVE IInv
  OBVIOUS
<1>1. First \in Nat /\ Day(First) \in Int
  BY LoggerAssumption, DayBounds
<1>2. PICK oldest \in 0..Day(First) : dirs = oldest..Day(First)
  BY DEF Init
<1>3. TypeOK
  <2>1. dirs \subseteq Int
    BY <1>1, <1>2
  <2>2. writer \in [Writers -> {"idle", "rotating", "opening"}]
    BY DEF Init
  <2> QED BY <1>1, <2>1, <2>2 DEF Init, TypeOK
<1>4. ClockInv /\ DoomedInv
  BY <1>1 DEF Init, ClockInv, DoomedInv
<1>5. TodayKept /\ RotateInv
  BY <1>1, <1>2 DEF Init, TodayKept, RotateInv
<1> QED BY <1>3, <1>4, <1>5 DEF IInv

(* Ticking keeps what is old old, and a day is an interval of hours.       *)
LEMMA TickIInv == IInv /\ Tick => IInv'
<1> SUFFICES ASSUME IInv, Tick PROVE IInv'
  OBVIOUS
<1> USE DEF IInv
<1>1. now \in Nat /\ cur \in Nat /\ at \in Nat /\ now' = now + 1 /\ UNCHANGED <<dirs, file, doomed>>
  BY DEF TypeOK, Tick, file, cleaner
<1>2. TypeOK'
  BY <1>1 DEF TypeOK, Tick, file, cleaner, closers
<1>3. ClockInv'
  BY <1>1 DEF ClockInv, file
<1>4. RotateInv'
  BY <1>1 DEF RotateInv, Tick, file, closers
<1>5. DoomedInv'
  <2>1. SUFFICES ASSUME NEW d \in doomed PROVE BeforeCutoff(d)'
    BY <1>1 DEF DoomedInv
  <2>2. BeforeCutoff(d) /\ d \in Int
    BY DEF DoomedInv, TypeOK
  <2>3. d * DayHours \in Int /\ MaxAge * DayHours \in Int /\ West \in Int
    BY <2>2, LoggerAssumption DEF MaxAge
  <2> DEFINE u == d * DayHours
             v == MaxAge * DayHours
  <2>4. u < now + West - v
    BY <2>2 DEF BeforeCutoff
  <2>5. u \in Int /\ v \in Int
    BY <2>3
  <2> HIDE DEF u, v
  <2>6. u < (now + 1) + West - v
    BY <2>3, <2>4, <2>5, <1>1
  <2> QED BY <2>6, <1>1 DEF BeforeCutoff, MaxAge, u, v
<1>6. TodayKept'
  <2>1. SUFFICES ASSUME MaxAge >= 2, open, Day(cur) = Day(now + 1) PROVE Day(cur) \in dirs
    BY <1>1 DEF TodayKept, MaxAge, Day, file
  <2>2. Day(cur) <= Day(now) /\ Day(now) <= Day(now + 1)
    BY <1>1, DayMonotonic DEF ClockInv
  <2>3. Day(cur) = Day(now)
    BY <2>1, <2>2, <1>1, DayBounds
  <2> QED BY <2>1, <2>3 DEF TodayKept
<1> QED BY <1>2, <1>3, <1>5, <1>6, <1>4

LEMMA WriterIInv ==
  ASSUME IInv, NEW w \in Writers, WriterStep(w)
  PROVE  IInv'
<1> USE DEF IInv
<1>1. CASE Load(w) \/ RotateNotNeeded(w)
  <2>1. TypeOK'
    <3>1. /\ UNCHANGED <<now, dirs, file, check, cleaner, closers>>
          /\ \E to \in {"idle", "rotating"} : writer' = [writer EXCEPT ![w] = to]
      BY <1>1 DEF Load, RotateNotNeeded, Moves
    <3> QED BY <3>1 DEF TypeOK, file, cleaner, closers
  <2>2. ClockInv' /\ DoomedInv' /\ TodayKept'
    BY <1>1 DEF Load, RotateNotNeeded, ClockInv, DoomedInv, BeforeCutoff, TodayKept, file, cleaner
  <2>3. RotateInv'
    BY <1>1 DEF Load, RotateNotNeeded, RotateInv, file, closers
  <2> QED BY <2>1, <2>2, <2>3
<1>2. CASE CloseCurrent(w)
  <2>1. TypeOK'
    BY <1>2 DEF CloseCurrent, Moves, TypeOK, cleaner, closers
  <2>2. ClockInv' /\ DoomedInv' /\ TodayKept'
    BY <1>2 DEF CloseCurrent, TypeOK, ClockInv, DoomedInv, BeforeCutoff, TodayKept, cleaner
  <2>3. RotateInv'
    <3>1. cur < now
      BY <1>2 DEF CloseCurrent, TypeOK, ClockInv
    <3> QED BY <1>2, <3>1 DEF CloseCurrent, RotateInv
  <2> QED BY <2>1, <2>2, <2>3
<1>3. CASE OpenNext(w)
  <2>1. Day(at) \in Int
    BY DayBounds DEF TypeOK
  <2>2. TypeOK'
    BY <1>3, <2>1 DEF OpenNext, Moves, TypeOK, cleaner, closers
  <2>3. ClockInv' /\ DoomedInv'
    BY <1>3 DEF OpenNext, ClockInv, DoomedInv, BeforeCutoff, cleaner
  <2>4. TodayKept' /\ RotateInv'
    BY <1>3 DEF OpenNext, TodayKept, RotateInv
  <2> QED BY <2>2, <2>3, <2>4
<1>4. CASE OpenFails(w)
  <2>1. Day(at) \in Int
    BY DayBounds DEF TypeOK
  <2>2. TypeOK'
    BY <1>4, <2>1 DEF OpenFails, Moves, TypeOK, cleaner, closers
  <2>3. ClockInv' /\ DoomedInv'
    BY <1>4 DEF OpenFails, ClockInv, DoomedInv, BeforeCutoff, cleaner
  <2>4. TodayKept' /\ RotateInv'
    BY <1>4 DEF OpenFails, TodayKept, RotateInv, closers
  <2> QED BY <2>2, <2>3, <2>4
<1> QED BY <1>1, <1>2, <1>3, <1>4 DEF WriterStep, RotateStep

LEMMA CleanIInv == IInv /\ (CleanStep \/ CleanStops) => IInv'
<1> SUFFICES ASSUME IInv, CleanStep \/ CleanStops PROVE IInv'
  OBVIOUS
<1> USE DEF IInv
<1>1. RotateInv'
  BY DEF CleanStep, CleanStarts, ListOld, RemoveOld, CleanStops, RotateInv, file, closers
<1>2. CASE CleanStarts \/ CleanStops
  <2>1. TypeOK'
    BY <1>2 DEF CleanStarts, CleanStops, TypeOK, file, closers
  <2>2. ClockInv' /\ DoomedInv' /\ TodayKept'
    BY <1>2 DEF CleanStarts, CleanStops, ClockInv, DoomedInv, BeforeCutoff, TodayKept, file
  <2> QED BY <1>1, <2>1, <2>2
<1>3. CASE ListOld
  <2>1. TypeOK' /\ ClockInv' /\ TodayKept'
    BY <1>3 DEF ListOld, TypeOK, ClockInv, TodayKept, file, closers
  <2>2. DoomedInv'
    BY <1>3 DEF ListOld, DoomedInv, BeforeCutoff
  <2> QED BY <1>1, <2>1, <2>2
<1>4. ASSUME NEW gone \in SUBSET doomed, RemoveOld(gone) PROVE IInv'
  <2>1. TypeOK' /\ ClockInv' /\ DoomedInv'
    BY <1>4 DEF RemoveOld, TypeOK, ClockInv, DoomedInv, file, closers
  <2>2. TodayKept'
    <3>1. SUFFICES ASSUME MaxAge >= 2, open, Day(cur) = Day(now) PROVE Day(cur) \in dirs \ gone
      BY <1>4 DEF RemoveOld, TodayKept, file
    <3>2. Day(cur) \in dirs
      BY <3>1 DEF TodayKept
    <3>3. Day(now) \notin doomed
      BY <3>1, TodayIsCurrent DEF DoomedInv, BeforeCutoff, TypeOK
    <3> QED BY <3>1, <3>2, <3>3
  <2> QED BY <1>1, <2>1, <2>2
<1> QED BY <1>2, <1>3, <1>4 DEF CleanStep

(* The marking loop and the goroutines that close the logger.              *)
LEMMA OthersIInv ==
  ASSUME IInv, ~ exited,
         CheckStep \/ StartReturns \/ MainStep \/ Signal \/ SigStep
  PROVE  IInv'
<1> USE DEF IInv
<1>1. CASE CheckStep
  <2>1. TypeOK'
    <3>1. /\ UNCHANGED <<now, dirs, cur, open, mu, at, writer, clean, doomed, closers>>
          /\ marked' \in {marked, TRUE} /\ check' \in {"idle", "marking", "off"}
      BY <1>1, Zenon DEF CheckStep, Compare, Mark, CheckStops, file, cleaner
    <3> QED BY <3>1 DEF TypeOK, closers
  <2>2. ClockInv' /\ DoomedInv' /\ TodayKept'
    BY <1>1 DEF CheckStep, Compare, Mark, CheckStops, ClockInv, DoomedInv, BeforeCutoff,
                TodayKept, file, cleaner
  <2>3. RotateInv'
    BY <1>1 DEF CheckStep, Compare, Mark, CheckStops, RotateInv, file, closers
  <2> QED BY <2>1, <2>2, <2>3
<1>2. CASE StartReturns \/ Signal \/ ServerStopped \/ MainCloses \/ SigCloses \/ SigTimesOut
  <2>1. /\ UNCHANGED <<now, dirs, cur, open, marked, mu, at, writer, check, clean, doomed>>
        /\ stopCh' \in {stopCh, TRUE} /\ exited' \in {exited, stopCh, TRUE}
        /\ main' \in {main, "closing", "awaiting"}
        /\ sig' \in {sig, "stopping", "closing", "awaiting", "exiting"}
    BY <1>2, Zenon DEF StartReturns, Signal, ServerStopped, MainCloses, SigCloses, SigTimesOut, file, cleaner
  <2>2. stopCh' \in BOOLEAN /\ exited' \in BOOLEAN
    BY <2>1, Zenon DEF TypeOK
  <2>3. TypeOK'
    BY <2>1, <2>2 DEF TypeOK
  <2>4. ClockInv' /\ DoomedInv' /\ TodayKept'
    BY <2>1 DEF ClockInv, DoomedInv, BeforeCutoff, TodayKept
  <2>5. RotateInv'
    BY <2>1 DEF RotateInv
  <2> QED BY <2>3, <2>4, <2>5
<1>3. CASE MainExits \/ SigExits
  <2>1. TypeOK'
    <3>1. /\ UNCHANGED <<now, dirs, cur, marked, mu, at, writer, check, clean, doomed, stopCh>>
          /\ open' = FALSE /\ exited' = TRUE
          /\ main' \in {main, "exiting"} /\ sig' \in {sig, "exiting"}
      BY <1>3, Zenon DEF MainExits, SigExits, Closed, cleaner
    <3> QED BY <3>1 DEF TypeOK
  <2>2. ClockInv' /\ DoomedInv' /\ TodayKept'
    BY <1>3 DEF MainExits, SigExits, Closed, ClockInv, DoomedInv, BeforeCutoff, TodayKept, cleaner
  <2>3. RotateInv'
    BY <1>3 DEF MainExits, SigExits, RotateInv
  <2> QED BY <2>1, <2>2, <2>3
<1> QED BY <1>1, <1>2, <1>3 DEF MainStep, SigStep

LEMMA NextIInv == IInv /\ [Next]_vars => IInv'
<1> SUFFICES ASSUME IInv, [Next]_vars PROVE IInv'
  OBVIOUS
<1>1. CASE UNCHANGED vars
  BY <1>1 DEF vars, IInv, TypeOK, ClockInv, RotateInv, DoomedInv, BeforeCutoff, TodayKept, file, cleaner, closers
<1> QED BY <1>1, TickIInv, WriterIInv, CleanIInv, OthersIInv DEF Next

-----------------------------------------------------------------------------
(* The variables of the logger keep their types, hours come from the       *)
(* clock, and what the cleanup is about to remove is old.                  *)
THEOREM LoggerInductive == Spec => []IInv
  BY InitIInv, NextIInv, PTL DEF Spec

(* The cleanup leaves the directory of the day the logger writes to alone. *)
THEOREM TodayIsKept == Spec => []TodayKept
<1>1. IInv => TodayKept
  BY DEF IInv
<1> QED BY <1>1, LoggerInductive, PTL

(* A rotation that closed the old file and could not open the next is seen *)
(* by the comparison with the clock: the mark may be lost, the need of a   *)
(* rotation is not.                                                        *)
THEOREM FailureIsSeen == Spec => []FailedRotationIsSeen
<1>1. IInv => FailedRotationIsSeen
  BY DEF IInv, TypeOK, RotateInv, FailedRotationIsSeen
<1> QED BY <1>1, LoggerInductive, PTL

-----------------------------------------------------------------------------
(* What is before the cutoff is MaxAge days old by the calendar of UTC.    *)
LEMMA CutoffIsPast ==
  ASSUME NEW h \in Int, NEW d \in Int, d * DayHours < h - MaxAge * DayHours
  PROVE  Day(h) - d >= MaxAge
<1>1. MaxAge \in Nat /\ DayHours \in Nat /\ DayHours > 0
  BY LoggerAssumption DEF MaxAge
<1>2. Day(h) \in Int /\ h < Day(h) * DayHours + DayHours
  BY DayBounds
<1> DEFINE today == Day(h)
           last == d + MaxAge
<1>3. SUFFICES ASSUME today < last PROVE FALSE
  BY <1>1, <1>2
<1>4. today * DayHours + DayHours <= last * DayHours
  <2>1. today \in Int /\ last \in Int
    BY <1>1, <1>2
  <2> HIDE DEF today, last
  <2> QED BY <1>1, <1>3, <2>1, NextMultiple
<1>5. last * DayHours = d * DayHours + MaxAge * DayHours
  BY <1>1
<1> DEFINE u == today * DayHours
           v == d * DayHours
           m == MaxAge * DayHours
<1>6. u \in Int /\ v \in Int /\ m \in Int
  BY <1>1, <1>2
<1>7. u + DayHours <= v + m /\ v < h - m /\ h < u + DayHours
  BY <1>2, <1>4, <1>5
<1> HIDE DEF u, v, m
<1> QED BY <1>1, <1>6, <1>7

(* The calendar of UTC is a day ahead of the local one at most.            *)
LEMMA NextDay ==
  ASSUME NEW h \in Nat
  PROVE  Day(h + West) \in Int /\ Day(h) \in Int /\ Day(h + West) <= Day(h) + 1
<1>1. DayHours \in Nat /\ DayHours > 0 /\ West \in Int /\ West <= DayHours
  BY LoggerAssumption
<1>2. Day(h + DayHours) = Day(h) + 1
  BY <1>1, SMTT(60) DEF Day
<1>3. Day(h + West) <= Day(h + DayHours)
  BY <1>1, DayMonotonic
<1>4. Day(h) \in Int /\ Day(h + West) \in Int
  BY <1>1, DayBounds
<1> QED BY <1>2, <1>3, <1>4

(* Only the cleanup removes directories, and only such as are old when it  *)
(* does, however long ago it has listed them.                              *)
LEMMA RemovedIsOld ==
  ASSUME IInv, Next, NEW d \in dirs, d \notin dirs'
  PROVE  now \in Nat /\ d \in Int /\ BeforeCutoff(d)
<1>1. PICK gone \in SUBSET doomed : RemoveOld(gone)
  BY DEF Next, Tick, WriterStep, RotateStep, Load, RotateNotNeeded,
     CloseCurrent, OpenNext, OpenFails, CheckStep, Compare, Mark, CheckStops,
     CleanStep, CleanStarts, ListOld, CleanStops, StartReturns, MainStep,
     MainCloses, MainExits, Signal, SigStep, ServerStopped, SigCloses,
     SigExits, SigTimesOut, Closed
<1>2. d \in doomed
  BY <1>1 DEF RemoveOld
<1> QED BY <1>2 DEF IInv, TypeOK, DoomedInv

(* By then a directory is past its days in UTC.                            *)
LEMMA RemovedIsPast ==
  ASSUME IInv, Next, NEW d \in dirs, d \notin dirs'
  PROVE  now \in Nat /\ d \in Int /\ Day(now + West) - d >= MaxAge
<1>1. now \in Nat /\ d \in Int /\ BeforeCutoff(d)
  BY RemovedIsOld
<1>2. now + West \in Int
  BY <1>1, LoggerAssumption
<1>3. d * DayHours < (now + West) - MaxAge * DayHours
  <2> DEFINE days == MaxAge * DayHours
  <2>1. days \in Int /\ West \in Int
    BY LoggerAssumption DEF MaxAge
  <2>2. d * DayHours < now + West - days
    BY <1>1 DEF BeforeCutoff
  <2> HIDE DEF days
  <2>3. now + West - days = (now + West) - days
    BY <1>1, <2>1
  <2>4. d * DayHours < (now + West) - days
    BY <2>2, <2>3
  <2> QED BY <2>4 DEF days
<1>4. ASSUME NEW h \in Int, d * DayHours < h - MaxAge * DayHours
      PROVE  Day(h) - d >= MaxAge
  BY <1>1, <1>4, CutoffIsPast
<1>5. Day(now + West) - d >= MaxAge
  BY <1>2, <1>3, <1>4, Zenon
<1> QED BY <1>1, <1>5

(* Every directory is kept for MaxAge days of the calendar of UTC.         *)
THEOREM KeptByUTC == Spec => RetentionByUTC
<1> DEFINE Kept == \A d \in dirs \ dirs' : Day(now + West) - d >= MaxAge
<1>1. IInv /\ [Next]_vars => [Kept]_vars
  BY RemovedIsPast
<1> QED BY <1>1, LoggerInductive, PTL DEF Spec, RetentionByUTC

(* By the local calendar, which names the directories, the cleanup is at   *)
(* most a day early.                                                       *)
THEOREM EarlyByADayAtMost == Spec => DayEarlyAtMost
<1> DEFINE Kept == \A d \in dirs \ dirs' : Day(now) - d >= MaxAge - 1
<1>1. IInv /\ [Next]_vars => [Kept]_vars
  <2> SUFFICES ASSUME IInv, Next, NEW d \in dirs, d \notin dirs'
               PROVE  Day(now) - d >= MaxAge - 1
    OBVIOUS
  <2>1. now \in Nat /\ d \in Int /\ Day(now + West) - d >= MaxAge
    BY RemovedIsPast
  <2>2. MaxAge \in Int
    BY LoggerAssumption DEF MaxAge
  <2> QED BY <2>1, <2>2, NextDay
<1> QED BY <1>1, LoggerInductive, PTL DEF Spec, DayEarlyAtMost

(* Where local time is UTC or ahead of it every directory is kept for the  *)
(* MaxAge days that are promised.                                          *)
THEOREM KeptForTheirDays == ASSUME West <= 0 PROVE Spec => RetentionKept
<1> DEFINE Kept == \A d \in dirs \ dirs' : Day(now) - d >= MaxAge
<1>1. IInv /\ [Next]_vars => [Kept]_vars
  <2> SUFFICES ASSUME IInv, Next, NEW d \in dirs, d \notin dirs'
               PROVE  Day(now) - d >= MaxAge
    OBVIOUS
  <2>1. now \in Nat /\ d \in Int /\ Day(now + West) - d >= MaxAge
    BY RemovedIsPast
  <2>2. MaxAge \in Int /\ West \in Int
    BY LoggerAssumption DEF MaxAge
  <2>3. Day(now + West) <= Day(now)
    BY <2>1, <2>2, DayMonotonic
  <2>4. Day(now) \in Int /\ Day(now + West) \in Int
    BY <2>1, <2>2, DayBounds
  <2> QED BY <2>1, <2>2, <2>3, <2>4
<1> QED BY <1>1, LoggerInductive, PTL DEF Spec, RetentionKept
=============================================================================
