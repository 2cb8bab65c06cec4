------------------------------ MODULE MCSweepRun ------------------------------
(***************************************************************************)
(* A small instance of SweepRun for TLC: six months,  a checking account,  *)
(* a card, a bill on the 31st, a paycheck every fortnight.                 *)
(***************************************************************************)
EXTENDS SweepRun

CONSTANTS job, user

\* A blank field, a refused figure and a margin.
Submitted == {Null, -1, 2}

\* West of Greenwich the UTC midnight of a date falls on the evening before.
West == -1

\* December to May.
SixMonths == <<31, 31, 28, 31, 30, 31>>

\* The afternoons of 31 January and of 30 March.
Afternoons == {123, 239}

Cycle(billed, issued, due, paid, paidAt) ==
  [billed |-> billed, issued |-> issued, due |-> due, paid |-> paid, paidAt |-> paidAt]

\* A balance has an age only as never confirmed.
Row(a, kind, balance, synced, cycle) ==
  [id |-> a, conn |-> 1, kind |-> kind, savings |-> FALSE, balance |-> balance,
   state |-> "active", synced |-> synced, custom |-> Null, cycle |-> cycle,
   sched |-> DefaultSchedule, gap |-> FALSE]

\* Checking is fresh or never confirmed.  The card has been paid in part before and
\* after its statement, reports nothing, or was in credit when billed.
TwoAccounts ==
  [a \in Accounts |->
     IF a = 1 THEN {Row(1, "cash", 20, 120, BlankCycle), Row(1, "cash", 20, Null, BlankCycle)}
     ELSE {Row(2, "credit", 9, 120, Cycle(8, 100, 125, 3, 101)),
           Row(2, "credit", 9, 120, Cycle(8, 100, 125, Null, 101)),
           Row(2, "credit", 9, 120, BlankCycle),
           Row(2, "credit", 4, 120, Cycle(-2, 60, 85, Null, Null))}]

Item(direction, cadence, day, anchor, amount, active) ==
  [direction |-> direction, cadence |-> cadence, day |-> day, anchor |-> anchor,
   amount |-> amount, active |-> active]

TwoItems ==
  [i \in Items |->
     IF i = 3 THEN {Item("out", "monthly", 31, NoDate, 5, TRUE),
                    Item("out", "monthly", 0, NoDate, Null, TRUE)}
     ELSE {Item("in", "biweekly", 0, 64, 6, TRUE), Item("in", "biweekly", 0, 64, 6, FALSE)}]
=============================================================================
