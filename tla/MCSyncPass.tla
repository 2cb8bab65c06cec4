----------------------------- MODULE MCSyncPass -----------------------------
(***************************************************************************)
(* Small instances of SyncPass for TLC.                                    *)
(***************************************************************************)
EXTENDS SyncPass

CONSTANTS c1, c2, a1, a2, b1, t1, t2, u1, p1, p2

\* Two accounts under the first login, one under the second.
MCConnOf == [a \in Accts |-> IF a = b1 THEN c2 ELSE c1]

\* One transaction on each account.
MCAcctOf == [t \in Txns |-> CASE t = t1 -> a1 [] t = t2 -> a2 [] t = u1 -> b1]
=============================================================================
