---------------------------- MODULE MCAccountRows ----------------------------
\* One bank with a checking account and a card, for TLC.
EXTENDS AccountRows, TLC

CONSTANTS c1, a1, d1, p1, p2, e1, n1

MCConnOf == [a \in Accts |-> c1]
MCKindAtBank == (a1 :> "cash") @@ (d1 :> "credit")
MCSavesAtBank == (a1 :> FALSE) @@ (d1 :> FALSE)
\* A cycle the bank knows the figure of.
MCReports ==
  {[known |-> TRUE, balance |-> 1, issued |-> 0, due |-> 2, paid |-> Null, paidAt |-> Null]}
MCOffsets == {-1, 1}
=============================================================================
