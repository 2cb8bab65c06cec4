------------------------- MODULE MCTransactionFacets -------------------------
(***************************************************************************)
(* Small instances of TransactionFacets for TLC.                           *)
(***************************************************************************)
EXTENDS TransactionFacets

CONSTANTS t1, t2, t3, checking, saving, shop, payee, broad, narrow, food, p1, p2

\* The broad pattern occurs in both merchants, the narrow one in payee only.
MCFoundIn == [p \in Patterns |-> IF p = broad THEN {shop, payee} ELSE {payee}]
MCLength == [p \in Patterns |-> IF p = broad THEN 3 ELSE 5]

Form(account, merchant, signal, amount, day) ==
  [account |-> account, merchant |-> merchant, signal |-> signal,
   amount |-> amount, day |-> day]

\* One outflow, whose merchant and category the bank may correct.
OneOutflow ==
  [t \in Txns |-> {Form(checking, payee, "unknown", 2, 0), Form(checking, shop, food, 2, 0)}]

\* An outflow the bank reports as a transfer.
OneTransfer == [t \in Txns |-> {Form(checking, payee, "transfer", 2, 0)}]

\* A transfer out of checking, its mirror in savings, and an inflow of the same
\* amount just outside or just inside the window.
Transfers ==
  [t \in Txns |->
     CASE t = t1 -> {Form(checking, payee, "transfer", 2, 1)}
       [] t = t2 -> {Form(saving, payee, "transfer", -2, 2)}
       [] t = t3 -> {Form(saving, shop, "transfer", -2, 3),
                     Form(saving, shop, "unknown", -2, 2)}]
=============================================================================
