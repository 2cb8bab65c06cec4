------------------------------ MODULE BankFeed ------------------------------
(***************************************************************************)
(* The bank behind the provider seam (src/src/internal/banking), as the    *)
(* rest of the code can see it: a login lists accounts, and each login has *)
(* an append-only history of transaction changes that a pull reads from a  *)
(* resume cursor.  A position n in history[c] stands for a cursor; the     *)
(* snapshot stored there gives, for every transaction id of the login, the *)
(* version of the transaction the bank reports at that position, or 0 when *)
(* it reports none.                                                        *)
(***************************************************************************)
EXTENDS Integers, Sequences

CONSTANTS
  Conns,      \* connections: one bank login each
  Accts,      \* bank accounts, by provider account id
  Txns,       \* bank transactions, by provider transaction id
  ConnOf,     \* the login an account belongs to
  AcctOf,     \* the account a transaction was posted on
  MaxEvents   \* bound on the length of a login's history

ASSUME FeedAssumption ==
  /\ ConnOf \in [Accts -> Conns]
  /\ AcctOf \in [Txns -> Accts]
  /\ MaxEvents \in Nat

AcctsOf(c) == {a \in Accts : ConnOf[a] = c}
TxnsOf(c) == {t \in Txns : ConnOf[AcctOf[t]] = c}

\* What one login reports at one position: a version per transaction, 0 for absent.
Snapshot == [Txns -> 0..MaxEvents]
Nothing == [t \in Txns |-> 0]

\* The bank's answer at position n of a history.
At(history, n) == IF n = 0 THEN Nothing ELSE history[n]

\* The transactions a pull from one position to another reports: each that changed
\* in between, once added or modified with its version at the end, or among the
\* removed ids (banking.TransactionChanges).
Delta(history, from, to) ==
  {t \in Txns : \E n \in from..to : At(history, n)[t] # At(history, from)[t]}

\* The bank appends one change to a login's history: transaction t is posted or
\* modified (it takes a fresh version), or it is removed and its id retired.
Posted(history, t) ==
  Append(history,
         [At(history, Len(history)) EXCEPT ![t] = Len(history) + 1])
Removed(history, t) ==
  Append(history, [At(history, Len(history)) EXCEPT ![t] = 0])

\* An id the bank has removed is never issued again.
Retired(history, t) ==
  \E n \in 1..Len(history) : history[n][t] # 0 /\ At(history, Len(history))[t] = 0
=============================================================================
