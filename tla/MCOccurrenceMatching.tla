------------------------ MODULE MCOccurrenceMatching ------------------------
(***************************************************************************)
(* Small instances of OccurrenceMatching for TLC.                          *)
(***************************************************************************)
EXTENDS OccurrenceMatching

CONSTANTS t1, t2, store, p1, p2

Item(amount, dates, since, active) ==
  [direction |-> "out", amount |-> amount, dates |-> dates, since |-> since,
   active |-> active]

Form(day, amount, merchant) == [day |-> day, amount |-> amount, merchant |-> merchant]

\* A monthly item, its amount declared or computed, and a biweekly one that the user may
\* switch off.
TwoItems ==
  [i \in Items |->
     IF i = 1 THEN {Item(100, {10}, 0, TRUE), Item(0, {10}, 0, TRUE)}
              ELSE {Item(102, {2, 16}, 6, TRUE), Item(102, {2, 16}, 6, FALSE)}]

\* Both are near both items.  Of one form of each only the learned merchant can tell that
\* it is an item's.
NearForms ==
  [t \in Txns |->
     IF t = t1 THEN {Form(12, 101, store), Form(12, 60, store)}
               ELSE {Form(11, 70, store), Form(11, 99, store)}]
=============================================================================
