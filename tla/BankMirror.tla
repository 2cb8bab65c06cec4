----------------------------- MODULE BankMirror -----------------------------
(***************************************************************************)
(* What a transaction sync promises, without its steps: the store mirrors  *)
(* every login at some position of its history.  One step moves one        *)
(* login's mirror forward and, in the same step, brings every transaction  *)
(* that changed in between to the bank's version, except the added or      *)
(* modified ones that no stored account claims.                            *)
(***************************************************************************)
EXTENDS BankFeed

VARIABLES
  history,   \* history[c]: the bank's changes for login c
  position,  \* position[c]: where the mirror of login c stands
  rows       \* the mirrored transactions

vars == <<history, position, rows>>

Init ==
  /\ history = [c \in Conns |-> <<>>]
  /\ position = [c \in Conns |-> 0]
  /\ rows = Nothing

BankChanges(c) ==
  /\ \E t \in TxnsOf(c) :
       \/ history' = [history EXCEPT ![c] = Posted(@, t)]
       \/ history' = [history EXCEPT ![c] = Removed(@, t)]
  /\ UNCHANGED <<position, rows>>

\* unclaimed holds the changed transactions that have no account row.
Advance(c, to) ==
  LET h == history[c] IN
  /\ to \in position[c]..Len(h)
  /\ \E unclaimed \in SUBSET {t \in TxnsOf(c) : At(h, to)[t] # 0} :
       rows' = [t \in Txns |->
                  IF t \in Delta(h, position[c], to) \ unclaimed
                    THEN At(h, to)[t] ELSE rows[t]]
  /\ position' = [position EXCEPT ![c] = to]
  /\ UNCHANGED history

Next ==
  \E c \in Conns : BankChanges(c) \/ \E to \in 0..MaxEvents : Advance(c, to)

Spec == Init /\ [][Next]_vars
=============================================================================
