----------------------------- MODULE ScheduleView -----------------------------
(***************************************************************************)
(* What the pages show of the schedule: the occurrences that may already   *)
(* have been satisfied, each with what was decided about it, the next date *)
(* of an item, the one that is overdue in its place, and the occurrence    *)
(* the attach picker proposes for a transaction.                           *)
(*                                                                         *)
(* settled and cleared are sets of occurrences <<item, day>>.              *)
(***************************************************************************)
EXTENDS Calendar

\* Nothing decided, settled by a transaction, or cleared by the user.
OccurrenceState(i, day, settled, cleared) ==
  IF <<i, day>> \in settled THEN "settled"
  ELSE IF <<i, day>> \in cleared THEN "cleared" ELSE "outstanding"

ActiveItems(items) ==
  LET active == {i \in DOMAIN items : items[i].active} IN [i \in active |-> items[i]]

\* Each active item's occurrences of the last cadence, up to today.
MatchingWindow(items, settled, cleared, today) ==
  [i \in DOMAIN ActiveItems(items) |->
     [d \in Occurrences(items[i], OneCadenceBefore(items[i], today), today) |->
        OccurrenceState(i, d, settled, cleared)]]

Outstanding(window) == {d \in DOMAIN window : window[d] = "outstanding"}

\* A dateless item has no date to project.
NextOccurrence(item, today) ==
  LET ahead == Occurrences(item, today, AddMonthsClamped(today, 2))
  IN IF (item.cadence = "monthly" /\ item.day < 1) \/ ahead = {} THEN NoDate ELSE Min(ahead)

\* The latest of each item's days that its next occurrence has left behind.
LeftBehind(items, days, today) ==
  LET behind == [i \in DOMAIN days |->
                   {d \in days[i] : /\ NextOccurrence(items[i], today) # NoDate
                                    /\ d < NextOccurrence(items[i], today)}]
  IN [i \in {j \in DOMAIN days : behind[j] # {}} |-> Max(behind[i])]

\* Mutant: what has been decided about an occurrence is not asked.
OverdueUndecided(items, windows, today) ==
  LeftBehind(items, [i \in DOMAIN windows |-> DOMAIN windows[i]], today)

\* The latest outstanding date of an item that its next one has left behind.
OverdueOccurrences(items, windows, today) ==
  LeftBehind(items, [i \in DOMAIN windows |-> Outstanding(windows[i])], today)

Gap(d, e) == IF d < e THEN e - d ELSE d - e

\* The outstanding occurrence nearest the date, the earlier one of two.
NearestOutstanding(window, date) ==
  CHOOSE d \in Outstanding(window) :
    \A e \in Outstanding(window) \ {d} :
      Gap(d, date) < Gap(e, date) \/ (Gap(d, date) = Gap(e, date) /\ d < e)

\* The items of the transaction's direction that have an outstanding occurrence.
AttachableItems(items, windows, direction, date) ==
  {<<i, NearestOutstanding(windows[i], date)>> :
     i \in {j \in DOMAIN windows :
              items[j].direction = direction /\ Outstanding(windows[j]) # {}}}
=============================================================================
