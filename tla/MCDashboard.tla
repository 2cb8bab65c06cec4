----------------------------- MODULE MCDashboard -----------------------------
(***************************************************************************)
(* A small instance of Dashboard for TLC: the end of January and the first *)
(* of February, two spending categories, an everyday account and one whose *)
(* bank may be disconnected.                                               *)
(***************************************************************************)
EXTENDS Dashboard, TLC

CONSTANTS everyday, other, food, fun

\* One slot is as good as another.
SlotSymmetry == Permutations(Slots)

JanuaryFebruary == <<31, 28>>

\* A purchase at the end of January and a refund on the first of February.
TwoReports ==
  [t \in Txns |->
     CASE t = 1 -> [account |-> everyday, day |-> 30, amount |-> 5, pending |-> TRUE]
       [] t = 2 -> [account |-> other, day |-> 31, amount |-> -2, pending |-> FALSE]]

\* The purchase is there and paired as a transfer into savings; the refund is there and
\* categorized, or not posted yet.
TwoLedgers ==
  {[t \in Txns |->
      CASE t = 1 -> Row(t, Facets("transfer", NoCategory, "savings_contribution", TRUE))
        [] t = 2 -> refund]
     : refund \in {Absent, Row(2, Facets("spending", fun, "", FALSE))}}

Plans == {[income |-> 0, savings |-> 0], [income |-> 10, savings |-> 2]}

\* A plan that limits one category.
OneBudget == {[targets |-> [income |-> 10, savings |-> 2], limits |-> [k \in {food} |-> 4]]}

FewPages == {Tracker, Wrap(1), Drill(1, "everything-else"), Activity("needs-attention"),
             Activity("all")}
=============================================================================
