\* Days of four hours; the program runs over a midnight, with one day of
\* retention, in the time zone furthest west: the directory of today goes, too.
CONSTANTS
  Writers = {w1, w2}
  DayHours = 4
  West = 2
  Flag = 1
  File = 2
  First = 6
  Last = 8
SPECIFICATION FairSpec
PROPERTIES
   FileFollowsClock OldLogsGo ProcessEnds
CHECK_DEADLOCK FALSE
