------------------------------- MODULE Calendar -------------------------------
(***************************************************************************)
(* The month and day arithmetic of core/timex and the dates a scheduled    *)
(* item falls on (schedule.Item).                                          *)
(*                                                                         *)
(* A day is a number; the months follow one another from day 0.  An        *)
(* instant counts half days: the midnight that opens a day in the app's    *)
(* timezone, or any later moment of that day.                              *)
(***************************************************************************)
EXTENDS Integers, Sequences, FiniteSets, FiniteSetsExt

CONSTANTS
  MonthLengths,  \* the number of days of each month, in order
  NoDate         \* no date: a biweekly item without an anchor, nothing to project

ASSUME CalendarAssumption ==
  /\ MonthLengths \in Seq(28..31)
  /\ NoDate \notin Int

Months == 1..Len(MonthLengths)

FirstDay[m \in 1..(Len(MonthLengths) + 1)] ==
  IF m = 1 THEN 0 ELSE FirstDay[m - 1] + MonthLengths[m - 1]

Days == 0..(FirstDay[Len(MonthLengths) + 1] - 1)

DaysInMonth(m) == MonthLengths[m]
MonthOf(day) == CHOOSE m \in Months : FirstDay[m] <= day /\ day < FirstDay[m + 1]
DayOfMonth(day) == day - FirstDay[MonthOf(day)] + 1

Midnight(day) == 2 * day
DayOf(instant) == instant \div 2
StartOfDay(instant) == Midnight(DayOf(instant))

\* A month is bounded by its first day and the next month's, that one excluded.
MonthRange(m) == {d \in Days : FirstDay[m] <= d /\ d < FirstDay[m + 1]}

CurrentMonth(now) == MonthOf(DayOf(now))

\* Today counts, so at least one day is left.
DaysLeftInclusive(now) == Max({1, FirstDay[CurrentMonth(now) + 1] - DayOf(now)})

\* The same day n months on, or the last of a month too short to hold it.
AddMonthsClamped(day, n) ==
  LET target == MonthOf(day) + n
  IN  FirstDay[target] + Min({DayOfMonth(day), DaysInMonth(target)}) - 1

-----------------------------------------------------------------------------
(* The dates of a declared item.                                            *)

BiweeklyStepDays == 14

\* A dateless item's first of the month stands for the month.
MonthlyOccurrenceIn(item, m) ==
  FirstDay[m] + Min({Max({item.day, 1}), DaysInMonth(m)}) - 1

MonthlyOccurrences(item, from, to) == {MonthlyOccurrenceIn(item, m) : m \in Months} \cap from..to

\* The anchor is any occurrence, before the window or after it.
BiweeklyOccurrences(item, from, to) ==
  IF item.anchor = NoDate THEN {}
  ELSE {d \in from..to : (d - item.anchor) % BiweeklyStepDays = 0}

Occurrences(item, from, to) ==
  IF item.cadence = "monthly" THEN MonthlyOccurrences(item, from, to)
                              ELSE BiweeklyOccurrences(item, from, to)

\* Mutant: the missing days of a short month run over into the next one.
OneCadenceOverflowing(item, day) ==
  IF item.cadence = "biweekly" THEN day - BiweeklyStepDays
  ELSE FirstDay[MonthOf(day) - 1] + DayOfMonth(day) - 1

OneCadenceBefore(item, day) ==
  IF item.cadence = "biweekly" THEN day - BiweeklyStepDays ELSE AddMonthsClamped(day, -1)
=============================================================================
