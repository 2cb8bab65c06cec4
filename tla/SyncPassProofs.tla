--------------------------- MODULE SyncPassProofs ---------------------------
(***************************************************************************)
(* Proofs about SyncPass, for every set of logins, accounts, transactions  *)
(* and passes.  The type invariant holds however many passes overlap.      *)
(***************************************************************************)
EXTENDS SyncPass, SequenceTheorems, TLAPS

\* What a visit holds: a connection while it has one in hand, and positions that
\* the login's history has already reached.
VisitOK ==
  \A p \in Passes :
    /\ pc[p] \in {"accountsWrite", "pull", "apply"} => current[p] \in Conns
    /\ pc[p] \in {"pull", "apply"} => from[p] <= Len(history[current[p]])
    /\ pc[p] = "apply" => /\ from[p] <= upto[p]
                          /\ upto[p] <= Len(history[current[p]])

TypeInv == TypeOK /\ VisitOK

-----------------------------------------------------------------------------
(* The bank's histories. *)

\* The bank's answer at any position of a history is a snapshot.
LEMMA AtType ==
  ASSUME NEW h \in Seq(Snapshot), NEW n \in 0..Len(h)
  PROVE  At(h, n) \in Snapshot
  BY FeedAssumption DEF At, Snapshot, Nothing

\* A history only grows: what the bank answered at a position it answers for good.
LEMMA HistoryGrows ==
  ASSUME NEW h \in Seq(Snapshot), NEW s \in Snapshot, NEW n \in 0..Len(h)
  PROVE  At(Append(h, s), n) = At(h, n)
  BY AppendProperties DEF At

\* A change appended to a history below the bound leaves a history one longer.
LEMMA ChangeType ==
  ASSUME NEW h \in Seq(Snapshot), NEW t \in Txns, Len(h) < MaxEvents,
         NEW g, g = Posted(h, t) \/ g = Removed(h, t)
  PROVE  /\ g \in Seq(Snapshot)
         /\ Len(g) = Len(h) + 1
         /\ \A n \in 0..Len(h) : At(g, n) = At(h, n)
         /\ \A u \in Txns \ {t} : At(g, Len(g))[u] = At(h, Len(h))[u]
<1> DEFINE last == At(h, Len(h))
           s == [last EXCEPT ![t] = IF g = Posted(h, t) THEN Len(h) + 1 ELSE 0]
<1>1. last \in Snapshot
  BY AtType, LenProperties
<1>2. s \in Snapshot
  BY <1>1, FeedAssumption, LenProperties DEF Snapshot
<1>3. g = Append(h, s)
  BY DEF Posted, Removed
<1>4. /\ g \in Seq(Snapshot)
      /\ Len(g) = Len(h) + 1
      /\ g[Len(h) + 1] = s
  BY <1>2, <1>3, AppendProperties
<1>5. \A n \in 0..Len(h) : At(g, n) = At(h, n)
  BY <1>2, <1>3, HistoryGrows
<1>6. \A u \in Txns \ {t} : At(g, Len(g))[u] = last[u]
  BY <1>1, <1>4, LenProperties DEF At, Snapshot
<1> QED
  BY <1>4, <1>5, <1>6

-----------------------------------------------------------------------------
(* Type correctness. *)

\* The local values of a visit that has ended are typed.
LEMMA EndVisitType ==
  ASSUME TypeInv, NEW p \in Passes, EndVisit(p)
  PROVE  /\ current' \in [Passes -> Conns \cup {NoConn}]
         /\ seen' \in [Passes -> SUBSET Accts]
         /\ from' \in [Passes -> Nat]
         /\ upto' \in [Passes -> Nat]
         /\ \A q \in Passes \ {p} : /\ current'[q] = current[q]
                                    /\ from'[q] = from[q]
                                    /\ upto'[q] = upto[q]
  BY DEF TypeInv, TypeOK, EndVisit

\* So are those of a pass that has returned.
LEMMA EndPassType ==
  ASSUME TypeInv, NEW p \in Passes, EndPass(p)
  PROVE  /\ pc' \in [Passes -> Stages]
         /\ pc'[p] = "idle"
         /\ todo' \in [Passes -> SUBSET Conns]
         /\ targets' \in [Passes -> SUBSET Conns]
         /\ attribution' \in [Passes -> SUBSET Accts]
  BY DEF TypeInv, TypeOK, EndPass, Stages

\* A pass that returns leaves the visits of the others as they were.
LEMMA EndPassVisits ==
  ASSUME TypeInv, NEW p \in Passes, EndPass(p), UNCHANGED history
  PROVE  VisitOK'
<1> SUFFICES ASSUME NEW q \in Passes
             PROVE  /\ pc'[q] \in {"accountsWrite", "pull", "apply"}
                         => current'[q] \in Conns
                    /\ pc'[q] \in {"pull", "apply"}
                         => from'[q] <= Len(history[current'[q]])
                    /\ pc'[q] = "apply"
                         => /\ from'[q] <= upto'[q]
                            /\ upto'[q] <= Len(history[current'[q]])
  BY DEF VisitOK
<1>1. CASE q = p
  BY <1>1, EndPassType
<1>2. CASE q # p
  BY <1>2 DEF EndPass, EndVisit, TypeInv, TypeOK, VisitOK
<1> QED
  BY <1>1, <1>2

\* Applying a pull stores versions the bank reports.
LEMMA AppliedType ==
  ASSUME TypeInv, NEW p \in Passes, pc[p] = "apply"
  PROVE  Applied(p) \in [Txns -> 0..MaxEvents]
<1> DEFINE h == history[current[p]]
<1>1. h \in Seq(Snapshot) /\ upto[p] \in 0..Len(h)
  BY LenProperties DEF TypeInv, TypeOK, VisitOK
<1>2. At(h, upto[p]) \in Snapshot
  BY <1>1, AtType
<1> QED
  BY <1>2 DEF Applied, Snapshot, TypeInv, TypeOK

\* Each kind of step keeps the type invariant: the bank ...
LEMMA BankType == TypeInv /\ Bank => TypeInv'
<1> SUFFICES ASSUME TypeInv, Bank PROVE TypeInv'
  OBVIOUS
<1>1. CASE \E a \in Accts : OpenAccount(a)
  BY <1>1 DEF OpenAccount, storeVars, passVars, TypeInv, TypeOK, VisitOK
<1>2. CASE \E t \in Txns : BankPosts(t) \/ BankRemoves(t)
  <2>1. PICK t \in Txns : BankPosts(t) \/ BankRemoves(t)
    BY <1>2
  <2> DEFINE c == ConnOf[AcctOf[t]]
  <2>2. c \in Conns /\ history[c] \in Seq(Snapshot)
    BY FeedAssumption DEF TypeInv, TypeOK
  <2>3. \/ history' = [history EXCEPT ![c] = Posted(history[c], t)]
        \/ history' = [history EXCEPT ![c] = Removed(history[c], t)]
    BY <2>1 DEF BankPosts, BankRemoves
  <2>4. Len(history[c]) < MaxEvents
    BY <2>1 DEF BankPosts, BankRemoves
  <2>5. /\ history'[c] \in Seq(Snapshot)
        /\ Len(history'[c]) = Len(history[c]) + 1
    <3>1. history'[c] = Posted(history[c], t) \/ history'[c] = Removed(history[c], t)
      BY <2>2, <2>3 DEF TypeInv, TypeOK
    <3> QED
      BY <2>2, <2>4, <3>1, ChangeType
  <2>6. /\ history' \in [Conns -> Seq(Snapshot)]
        /\ \A d \in Conns : /\ Len(history'[d]) <= MaxEvents
                            /\ Len(history[d]) <= Len(history'[d])
    <3>1. history' \in [Conns -> Seq(Snapshot)]
      BY <2>2, <2>3, <2>5 DEF TypeInv, TypeOK
    <3>2. ASSUME NEW d \in Conns
          PROVE  /\ Len(history'[d]) <= MaxEvents
                 /\ Len(history[d]) <= Len(history'[d])
      <4>1. CASE d = c
        BY <2>2, <2>4, <2>5, <4>1, LenProperties, FeedAssumption
      <4>2. CASE d # c
        BY <2>3, <4>2, LenProperties DEF TypeInv, TypeOK
      <4> QED
        BY <4>1, <4>2
    <3> QED
      BY <3>1, <3>2
  <2>7. UNCHANGED <<open, severed, storeVars, deleting, interruptions, passVars>>
    BY <2>1 DEF BankPosts, BankRemoves
  <2>8. TypeOK'
    BY <2>6, <2>7, LenProperties DEF TypeInv, TypeOK, storeVars, passVars
  <2>9. VisitOK'
    BY <2>6, <2>7, LenProperties DEF TypeInv, TypeOK, VisitOK, storeVars, passVars
  <2> QED
    BY <2>8, <2>9 DEF TypeInv
<1> QED
  BY <1>1, <1>2 DEF Bank

\* ... the user who links and disconnects ...
LEMMA UserType == TypeInv /\ User => TypeInv'
<1> SUFFICES ASSUME TypeInv, NEW c \in Conns,
                    \/ RegisterConnection(c)
                    \/ DisconnectAtProvider(c)
                    \/ DisconnectInStore(c)
             PROVE  TypeInv'
  BY DEF User
<1> USE DEF TypeInv, TypeOK, VisitOK, bankVars, storeVars, passVars, AcctsOf, Linked
<1>1. CASE RegisterConnection(c)
  BY <1>1 DEF RegisterConnection
<1>2. CASE DisconnectAtProvider(c)
  BY <1>2 DEF DisconnectAtProvider
<1>3. CASE DisconnectInStore(c)
  BY <1>3 DEF DisconnectInStore
<1> QED
  BY <1>1, <1>2, <1>3

\* ... crashes and abandoned requests ...
LEMMA InterruptionType == TypeInv /\ Interruption => TypeInv'
<1> SUFFICES ASSUME TypeInv, Interruption PROVE TypeInv'
  OBVIOUS
<1> USE SyncAssumption DEF bankVars, storeVars
<1>1. CASE Crash
  BY <1>1 DEF Crash, TypeInv, TypeOK, VisitOK, Stages
<1>2. ASSUME NEW p \in Passes, AbandonPass(p) PROVE TypeInv'
  <2>1. EndPass(p) /\ EndVisit(p)
    BY <1>2 DEF AbandonPass, EndPass
  <2>2. TypeOK'
    BY <1>2, <2>1, EndPassType, EndVisitType DEF AbandonPass, TypeInv, TypeOK
  <2>3. VisitOK'
    BY <1>2, EndPassVisits DEF AbandonPass
  <2> QED
    BY <2>2, <2>3 DEF TypeInv
<1>3. CASE \E c \in Conns : AbandonDisconnect(c)
  BY <1>3 DEF AbandonDisconnect, TypeInv, TypeOK, VisitOK, passVars
<1> QED
  BY <1>1, <1>2, <1>3 DEF Interruption

\* ... and a pass.
LEMMA PassType == ASSUME NEW p \in Passes PROVE TypeInv /\ PassStep(p) => TypeInv'
<1> SUFFICES ASSUME TypeInv, PassStep(p) PROVE TypeInv'
  OBVIOUS
<1> USE DEF bankVars, storeVars
<1>1. CASE StartPass(p)
  BY <1>1 DEF StartPass, TypeInv, TypeOK, VisitOK, Stages, Linked
<1>2. CASE WriteAccounts(p)
  <2>1. EndVisit(p) /\ current[p] \in Conns
    BY <1>2 DEF WriteAccounts, TypeInv, VisitOK
  <2>2. TypeOK'
    BY <1>2, <2>1, EndVisitType DEF WriteAccounts, TypeInv, TypeOK, Stages
  <2>3. VisitOK'
    BY <1>2, <2>1, EndVisitType DEF WriteAccounts, TypeInv, TypeOK, VisitOK
  <2> QED
    BY <2>2, <2>3 DEF TypeInv
<1>3. CASE StartEnumerate(p)
  BY <1>3 DEF StartEnumerate, TypeInv, TypeOK, VisitOK, Stages, Linked
<1>4. CASE StartPulls(p)
  BY <1>4 DEF StartPulls, TypeInv, TypeOK, VisitOK, Stages
<1>5. CASE Pull(p)
  BY <1>5, LenProperties DEF Pull, TypeInv, TypeOK, VisitOK, Stages
<1>6. CASE ApplyPull(p)
  <2>1. /\ EndVisit(p)
        /\ current[p] \in Conns
        /\ history[current[p]] \in Seq(Snapshot)
        /\ upto[p] <= Len(history[current[p]])
    BY <1>6 DEF ApplyPull, TypeInv, TypeOK, VisitOK
  <2>2. rows' \in [Txns -> 0..MaxEvents]
    BY <1>6, AppliedType DEF ApplyPull
  <2>3. skipped' \subseteq Txns
    BY <1>6 DEF ApplyPull, Dropped, Delta, TypeInv, TypeOK
  <2>4. TypeOK'
    BY <1>6, <2>1, <2>2, <2>3, EndVisitType DEF ApplyPull, TypeInv, TypeOK, Stages
  <2>5. VisitOK'
    BY <1>6, <2>1, EndVisitType DEF ApplyPull, TypeInv, TypeOK, VisitOK
  <2> QED
    BY <2>4, <2>5 DEF TypeInv
<1>7. CASE PullStepFails(p)
  <2>1. EndVisit(p)
    BY <1>7 DEF PullStepFails
  <2>2. TypeOK'
    BY <1>7, <2>1, EndVisitType DEF PullStepFails, TypeInv, TypeOK, Stages
  <2>3. VisitOK'
    BY <1>7, <2>1, EndVisitType DEF PullStepFails, TypeInv, TypeOK, VisitOK
  <2> QED
    BY <2>2, <2>3 DEF TypeInv
<1>8. ASSUME EndPass(p), UNCHANGED <<bankVars, storeVars, deleting, interruptions>>
      PROVE  TypeInv'
  <2>1. EndVisit(p)
    BY <1>8 DEF EndPass
  <2>2. TypeOK'
    BY <1>8, <2>1, EndPassType, EndVisitType DEF TypeInv, TypeOK
  <2>3. VisitOK'
    BY <1>8, EndPassVisits
  <2> QED
    BY <2>2, <2>3 DEF TypeInv
<1>9. CASE FinishPass(p)
  BY <1>8, <1>9 DEF FinishPass
<1>10. ASSUME NEW c \in Conns, FetchAccounts(p, c) PROVE TypeInv'
  BY <1>10 DEF FetchAccounts, TypeInv, TypeOK, VisitOK, Stages
<1>11. ASSUME NEW c \in Conns, AccountsStepFails(p, c) PROVE TypeInv'
  <2>1. EndVisit(p)
    BY <1>11 DEF AccountsStepFails
  <2>2. TypeOK'
    BY <1>11, <2>1, EndVisitType DEF AccountsStepFails, TypeInv, TypeOK, Stages
  <2>3. VisitOK'
    BY <1>11, <2>1, EndVisitType DEF AccountsStepFails, TypeInv, TypeOK, VisitOK
  <2> QED
    BY <2>2, <2>3 DEF TypeInv
<1>12. ASSUME NEW c \in Conns, EnumerateConnection(p, c) PROVE TypeInv'
  BY <1>12 DEF EnumerateConnection, TypeInv, TypeOK, VisitOK, AcctsOf
<1>13. ASSUME NEW c \in Conns, EnumerateFails(p, c) PROVE TypeInv'
  BY <1>8, <1>13 DEF EnumerateFails
<1>14. ASSUME NEW c \in Conns, ReadCursor(p, c) PROVE TypeInv'
  BY <1>14, LenProperties DEF ReadCursor, TypeInv, TypeOK, VisitOK, Stages
<1> QED
  BY <1>1, <1>2, <1>3, <1>4, <1>5, <1>6, <1>7, <1>9, <1>10, <1>11, <1>12, <1>13,
     <1>14 DEF PassStep

\* The type invariant is inductive.
LEMMA TypeInvariant == Spec => []TypeInv
<1>1. Init => TypeInv
  BY FeedAssumption, SyncAssumption, EmptySeq
     DEF Init, TypeInv, TypeOK, VisitOK, Stages, Snapshot, Nothing
<1>2. TypeInv /\ [Next]_vars => TypeInv'
  <2> SUFFICES ASSUME TypeInv, [Next]_vars PROVE TypeInv'
    OBVIOUS
  <2>1. CASE Next
    BY <2>1, BankType, UserType, InterruptionType, PassType DEF Next
  <2>2. CASE UNCHANGED vars
    BY <2>2 DEF vars, bankVars, storeVars, passVars, TypeInv, TypeOK, VisitOK
  <2> QED
    BY <2>1, <2>2
<1> QED
  BY <1>1, <1>2, PTL DEF Spec

\* Every state has its type, however many passes overlap: in particular no stored
\* cursor is ever past the end of its login's history.
THEOREM TypeCorrect == Spec => []TypeOK
  BY TypeInvariant, PTL DEF TypeInv

-----------------------------------------------------------------------------
(* One pass at a time.                                                     *)
(*                                                                         *)
(* LostOnlyIfSkipped is not inductive: that a pull applied to the store    *)
(* starts where the store stands needs the cursor the pass read to be the  *)
(* stored one still, which is where a second pass would break it.          *)

OnePass == \A p, q \in Passes : p = q

\* A login's history speaks of its own transactions only.
OwnHistory ==
  \A c \in Conns : \A n \in 0..Len(history[c]) : \A t \in Txns \ TxnsOf(c) :
    At(history[c], n)[t] = 0

\* The cursor a visit read is the stored one.
FreshCursor ==
  \A p \in Passes : pc[p] \in {"pull", "apply"} => from[p] = cursor[current[p]]

MirrorInv == TypeInv /\ OwnHistory /\ FreshCursor /\ LostOnlyIfSkipped

\* A transaction a pull does not report has the same version at both its ends.
LEMMA UntouchedSame ==
  ASSUME NEW h, NEW f \in Nat, NEW to \in Nat, f <= to,
         NEW t \in Txns \ Delta(h, f, to)
  PROVE  At(h, to)[t] = At(h, f)[t]
  BY DEF Delta

\* A pull of one login reports only that login's transactions.
LEMMA DeltaOwn ==
  ASSUME TypeInv, OwnHistory, NEW c \in Conns, NEW f \in Nat, NEW to \in Nat,
         f <= to, to <= Len(history[c])
  PROVE  Delta(history[c], f, to) \subseteq TxnsOf(c)
<1>1. Len(history[c]) \in Nat
  BY LenProperties DEF TypeInv, TypeOK
<1>2. f..to \subseteq 0..Len(history[c]) /\ f \in 0..Len(history[c])
  BY <1>1
<1> QED
  BY <1>2 DEF Delta, OwnHistory

\* The bank extends one login's history and keeps every answer already given.
LEMMA BankGrows ==
  ASSUME TypeInv, OwnHistory, Bank
  PROVE  /\ OwnHistory'
         /\ \A c \in Conns : /\ Len(history[c]) <= Len(history'[c])
                             /\ \A n \in 0..Len(history[c]) :
                                  At(history'[c], n) = At(history[c], n)
<1>1. CASE \E a \in Accts : OpenAccount(a)
  BY <1>1, LenProperties DEF OpenAccount, OwnHistory, TypeInv, TypeOK
<1>2. CASE \E t \in Txns : BankPosts(t) \/ BankRemoves(t)
  <2>1. PICK t \in Txns : BankPosts(t) \/ BankRemoves(t)
    BY <1>2
  <2> DEFINE c == ConnOf[AcctOf[t]]
             h == history[c]
             g == history'[c]
  <2>2. c \in Conns /\ h \in Seq(Snapshot) /\ Len(h) < MaxEvents /\ t \in TxnsOf(c)
    BY <2>1, FeedAssumption DEF TypeInv, TypeOK, BankPosts, BankRemoves, TxnsOf
  <2>3. /\ g = Posted(h, t) \/ g = Removed(h, t)
        /\ \A d \in Conns \ {c} : history'[d] = history[d]
    BY <2>1, <2>2 DEF TypeInv, TypeOK, BankPosts, BankRemoves
  <2>4. /\ Len(g) = Len(h) + 1
        /\ \A n \in 0..Len(h) : At(g, n) = At(h, n)
        /\ \A u \in Txns \ {t} : At(g, Len(g))[u] = At(h, Len(h))[u]
    BY <2>2, <2>3, ChangeType
  <2>5. Len(h) \in Nat
    BY <2>2, LenProperties
  <2>6. \A n \in 0..Len(g) : \A u \in Txns \ TxnsOf(c) : At(g, n)[u] = 0
    <3> SUFFICES ASSUME NEW n \in 0..Len(g), NEW u \in Txns \ TxnsOf(c)
                 PROVE  At(g, n)[u] = 0
      OBVIOUS
    <3>1. CASE n \in 0..Len(h)
      BY <2>2, <2>4, <3>1 DEF OwnHistory
    <3>2. CASE n = Len(g)
      <4>1. At(g, n)[u] = At(h, Len(h))[u]
        BY <2>2, <2>4, <3>2
      <4> QED
        BY <2>2, <2>5, <4>1 DEF OwnHistory
    <3> QED
      BY <2>4, <2>5, <3>1, <3>2
  <2>7. OwnHistory'
    <3> SUFFICES ASSUME NEW d \in Conns, NEW n \in 0..Len(history'[d]),
                        NEW u \in Txns \ TxnsOf(d)
                 PROVE  At(history'[d], n)[u] = 0
      BY DEF OwnHistory, TxnsOf
    <3>1. CASE d = c
      BY <2>6, <3>1
    <3>2. CASE d # c
      BY <2>3, <3>2 DEF OwnHistory
    <3> QED
      BY <3>1, <3>2
  <2>8. ASSUME NEW d \in Conns
        PROVE  /\ Len(history[d]) <= Len(history'[d])
               /\ \A n \in 0..Len(history[d]) : At(history'[d], n) = At(history[d], n)
    <3>1. CASE d = c
      BY <2>4, <2>5, <3>1
    <3>2. CASE d # c
      BY <2>3, <3>2, LenProperties DEF TypeInv, TypeOK
    <3> QED
      BY <3>1, <3>2
  <2> QED
    BY <2>7, <2>8
<1> QED
  BY <1>1, <1>2 DEF Bank

\* What applying a pull does to the mirrored positions and versions.
LEMMA ApplyMirrors ==
  ASSUME MirrorInv, NEW p \in Passes, ApplyPull(p)
  PROVE  LostOnlyIfSkipped'
<1> DEFINE c == current[p]
           h == history[c]
<1>1. /\ c \in Conns
      /\ h \in Seq(Snapshot)
      /\ from[p] \in Nat /\ upto[p] \in Nat
      /\ from[p] <= upto[p] /\ upto[p] <= Len(h)
      /\ from[p] = cursor[c]
  BY DEF ApplyPull, MirrorInv, TypeInv, TypeOK, VisitOK, FreshCursor
<1>2. Delta(h, from[p], upto[p]) \subseteq TxnsOf(c)
  BY <1>1, DeltaOwn DEF MirrorInv
<1>3. /\ UNCHANGED history
      /\ rows' = Applied(p)
      /\ cursor' = [cursor EXCEPT ![c] = upto[p]]
      /\ skipped' = (skipped \ Delta(h, from[p], upto[p])) \cup Dropped(p)
  BY DEF ApplyPull, bankVars
<1>4. \A t \in Txns : rows'[t] =
        IF t \in Delta(h, from[p], upto[p]) \ Dropped(p)
          THEN At(h, upto[p])[t] ELSE rows[t]
  BY <1>3 DEF Applied
<1> SUFFICES ASSUME NEW d \in Conns, NEW t \in TxnsOf(d) \ skipped'
             PROVE  rows'[t] = At(history[d], cursor'[d])[t]
  BY <1>3 DEF LostOnlyIfSkipped, TxnsOf
<1>5. t \in Txns /\ t \notin Dropped(p)
  BY <1>3 DEF TxnsOf
<1>6. CASE t \in Delta(h, from[p], upto[p])
  <2>1. d = c
    BY <1>2, <1>6 DEF TxnsOf
  <2>2. cursor'[d] = upto[p]
    BY <1>1, <1>3, <2>1 DEF MirrorInv, TypeInv, TypeOK
  <2> QED
    BY <1>4, <1>5, <1>6, <2>1, <2>2
<1>7. CASE t \notin Delta(h, from[p], upto[p])
  <2>1. t \notin skipped
    BY <1>3, <1>7
  <2>2. rows'[t] = rows[t] /\ rows[t] = At(history[d], cursor[d])[t]
    BY <1>4, <1>5, <1>7, <2>1 DEF MirrorInv, LostOnlyIfSkipped
  <2>3. CASE d = c
    <3>1. At(h, upto[p])[t] = At(h, from[p])[t]
      BY <1>1, <1>5, <1>7, UntouchedSame
    <3>2. cursor'[d] = upto[p]
      BY <1>1, <1>3, <2>3 DEF MirrorInv, TypeInv, TypeOK
    <3> QED
      BY <1>1, <2>2, <2>3, <3>1, <3>2
  <2>4. CASE d # c
    BY <1>1, <1>3, <2>2, <2>4 DEF MirrorInv, TypeInv, TypeOK
  <2> QED
    BY <2>3, <2>4
<1> QED
  BY <1>6, <1>7

\* Only an applied pull touches the stored transactions or the cursors.
LEMMA StoreFrame ==
  ASSUME User \/ Interruption \/ \E p \in Passes : PassStep(p) /\ ~ApplyPull(p)
  PROVE  UNCHANGED <<history, rows, cursor, skipped>>
<1> USE DEF bankVars, storeVars
<1>1. CASE User
  BY <1>1 DEF User, RegisterConnection, DisconnectAtProvider, DisconnectInStore
<1>2. CASE Interruption
  BY <1>2 DEF Interruption, Crash, AbandonPass, AbandonDisconnect
<1>3. CASE \E p \in Passes : PassStep(p) /\ ~ApplyPull(p)
  BY <1>3 DEF PassStep, StartPass, WriteAccounts, StartEnumerate, StartPulls, Pull,
              PullStepFails, FinishPass, FetchAccounts, AccountsStepFails,
              EnumerateConnection, EnumerateFails, ReadCursor
<1> QED
  BY <1>1, <1>2, <1>3

\* With one pass the cursor in a visit's hand stays the stored one.
LEMMA FreshStep ==
  ASSUME OnePass, MirrorInv, Next
  PROVE  FreshCursor'
<1> USE DEF MirrorInv, TypeInv, TypeOK, FreshCursor
<1>1. CASE Bank
  BY <1>1 DEF Bank, OpenAccount, BankPosts, BankRemoves, storeVars, passVars
<1>2. CASE User
  BY <1>2 DEF User, RegisterConnection, DisconnectAtProvider, DisconnectInStore,
              storeVars, passVars
<1>3. CASE Interruption
  <2>1. CASE Crash
    BY <2>1 DEF Crash
  <2>2. ASSUME NEW p \in Passes, AbandonPass(p) PROVE FreshCursor'
    BY <2>2 DEF OnePass, AbandonPass, EndPass
  <2>3. ASSUME NEW c \in Conns, AbandonDisconnect(c) PROVE FreshCursor'
    BY <2>3 DEF AbandonDisconnect, storeVars, passVars
  <2> QED
    BY <1>3, <2>1, <2>2, <2>3 DEF Interruption
<1>4. ASSUME NEW p \in Passes, PassStep(p) PROVE FreshCursor'
  <2> SUFFICES ASSUME pc'[p] \in {"pull", "apply"}
               PROVE  from'[p] = cursor'[current'[p]]
    BY DEF OnePass
  <2>1. \/ \E c \in Conns : ReadCursor(p, c)
        \/ Pull(p)
    BY <1>4 DEF PassStep, StartPass, WriteAccounts, StartEnumerate, StartPulls,
                ApplyPull, PullStepFails, FinishPass, FetchAccounts,
                AccountsStepFails, EnumerateConnection, EnumerateFails, EndPass
  <2> QED
    BY <2>1 DEF ReadCursor, Pull, storeVars
<1> QED
  BY <1>1, <1>2, <1>3, <1>4 DEF Next

LEMMA MirrorInvariant == ASSUME OnePass PROVE Spec => []MirrorInv
<1>1. Init => MirrorInv
  <2> SUFFICES ASSUME Init PROVE MirrorInv
    OBVIOUS
  <2>1. TypeInv
    BY FeedAssumption, SyncAssumption, EmptySeq
       DEF Init, TypeInv, TypeOK, VisitOK, Stages, Snapshot, Nothing
  <2>2. OwnHistory /\ FreshCursor /\ LostOnlyIfSkipped
    BY EmptySeq DEF Init, OwnHistory, FreshCursor, LostOnlyIfSkipped, At, Nothing,
                    TxnsOf
  <2> QED
    BY <2>1, <2>2 DEF MirrorInv
<1>2. MirrorInv /\ [Next]_vars => MirrorInv'
  <2> SUFFICES ASSUME MirrorInv, [Next]_vars PROVE MirrorInv'
    OBVIOUS
  <2>1. CASE Bank
    <3>1. TypeInv'
      BY <2>1, BankType DEF MirrorInv
    <3>2. OwnHistory' /\ FreshCursor'
      BY <2>1, BankGrows, FreshStep DEF MirrorInv, Next
    <3>3. UNCHANGED <<rows, cursor, skipped>>
      BY <2>1 DEF Bank, OpenAccount, BankPosts, BankRemoves, storeVars
    <3>4. \A c \in Conns : cursor[c] \in 0..Len(history[c])
      BY LenProperties DEF MirrorInv, TypeInv, TypeOK
    <3>5. LostOnlyIfSkipped'
      BY <2>1, <3>3, <3>4, BankGrows DEF MirrorInv, LostOnlyIfSkipped, TxnsOf
    <3> QED
      BY <3>1, <3>2, <3>5 DEF MirrorInv
  <2>2. ASSUME NEW p \in Passes, ApplyPull(p) PROVE MirrorInv'
    <3>1. PassStep(p) /\ Next
      BY <2>2 DEF PassStep, Next
    <3>2. TypeInv' /\ FreshCursor'
      BY <3>1, PassType, FreshStep DEF MirrorInv
    <3>3. OwnHistory'
      BY <2>2 DEF MirrorInv, OwnHistory, ApplyPull, bankVars, TxnsOf
    <3> QED
      BY <2>2, <3>2, <3>3, ApplyMirrors DEF MirrorInv
  <2>3. CASE User \/ Interruption \/ \E p \in Passes : PassStep(p) /\ ~ApplyPull(p)
    <3>1. Next
      BY <2>3 DEF Next
    <3>2. TypeInv'
      BY <2>3, UserType, InterruptionType, PassType DEF MirrorInv
    <3>3. FreshCursor'
      BY <3>1, FreshStep
    <3>4. UNCHANGED <<history, rows, cursor, skipped>>
      BY <2>3, StoreFrame
    <3>5. OwnHistory' /\ LostOnlyIfSkipped'
      BY <3>4 DEF MirrorInv, OwnHistory, LostOnlyIfSkipped, TxnsOf
    <3> QED
      BY <3>2, <3>3, <3>5 DEF MirrorInv
  <2>4. CASE UNCHANGED vars
    BY <2>4 DEF vars, bankVars, storeVars, passVars, MirrorInv, TypeInv, TypeOK,
                VisitOK, OwnHistory, FreshCursor, LostOnlyIfSkipped, TxnsOf
  <2> QED
    BY <2>1, <2>2, <2>3, <2>4 DEF Next
<1> QED
  BY <1>1, <1>2, PTL DEF Spec

\* With one pass at a time, and whatever fails, is abandoned or crashes, the store
\* is the bank's own record at the stored cursor, except for changes dropped
\* because their account had no row.
THEOREM SoloPassLosesNothing ==
  ASSUME OnePass PROVE Spec => []LostOnlyIfSkipped
<1>1. Spec => []MirrorInv
  BY MirrorInvariant
<1> QED
  BY <1>1, PTL DEF MirrorInv

\* With one pass at a time every step of the sync either leaves the mirror alone or
\* is one whole step of it.
THEOREM SoloPassImplementsMirror ==
  ASSUME OnePass PROVE Spec => ImplementsMirror
<1>1. Init => Mirror!Init
  BY DEF Init, Mirror!Init, Nothing, Mirror!Nothing
<1>2. MirrorInv /\ [Next]_vars => [Mirror!Next]_(Mirror!vars)
  <2> SUFFICES ASSUME MirrorInv, [Next]_vars
               PROVE  [Mirror!Next]_(Mirror!vars)
    OBVIOUS
  <2>1. CASE \E t \in Txns : BankPosts(t) \/ BankRemoves(t)
    <3>1. PICK t \in Txns : BankPosts(t) \/ BankRemoves(t)
      BY <2>1
    <3> DEFINE c == ConnOf[AcctOf[t]]
    <3>2. c \in Conns /\ t \in Mirror!TxnsOf(c)
      BY FeedAssumption DEF Mirror!TxnsOf
    <3>3. Mirror!BankChanges(c)
      BY <3>1, <3>2 DEF BankPosts, BankRemoves, Mirror!BankChanges, storeVars,
                        Posted, Removed, Mirror!Posted, Mirror!Removed, At, Mirror!At,
                        Nothing, Mirror!Nothing
    <3> QED
      BY <3>2, <3>3 DEF Mirror!Next
  <2>2. ASSUME NEW p \in Passes, ApplyPull(p) PROVE [Mirror!Next]_(Mirror!vars)
    <3> DEFINE c == current[p]
               h == history[c]
    <3>1. /\ c \in Conns
          /\ h \in Seq(Snapshot)
          /\ from[p] \in Nat /\ upto[p] \in Nat
          /\ from[p] <= upto[p] /\ upto[p] <= Len(h) /\ Len(h) <= MaxEvents
          /\ from[p] = cursor[c]
      BY <2>2 DEF ApplyPull, MirrorInv, TypeInv, TypeOK, VisitOK, FreshCursor
    <3>2. Len(h) \in Nat
      BY <3>1, LenProperties
    <3>3. upto[p] \in cursor[c]..Len(h) /\ upto[p] \in 0..MaxEvents
      BY <3>1, <3>2, FeedAssumption
    <3>4. Delta(h, from[p], upto[p]) \subseteq TxnsOf(c)
      BY <3>1, DeltaOwn DEF MirrorInv
    <3>5. Dropped(p) \in SUBSET {t \in TxnsOf(c) : At(h, upto[p])[t] # 0}
      BY <3>4 DEF Dropped
    <3>6. rows' = [t \in Txns |->
                     IF t \in Delta(h, cursor[c], upto[p]) \ Dropped(p)
                       THEN At(h, upto[p])[t] ELSE rows[t]]
      BY <2>2, <3>1 DEF ApplyPull, Applied
    <3>7. Mirror!Advance(c, upto[p])
      BY <2>2, <3>3, <3>5, <3>6
         DEF ApplyPull, bankVars, Mirror!Advance, Mirror!At, Mirror!Delta,
             Mirror!TxnsOf, Mirror!Nothing, At, Delta, TxnsOf, Nothing
    <3> QED
      BY <3>1, <3>3, <3>7 DEF Mirror!Next
  <2>3. CASE User \/ Interruption \/ \E p \in Passes : PassStep(p) /\ ~ApplyPull(p)
    BY <2>3, StoreFrame DEF Mirror!vars
  <2>4. CASE (\E a \in Accts : OpenAccount(a)) \/ UNCHANGED vars
    BY <2>4 DEF OpenAccount, vars, bankVars, storeVars, Mirror!vars
  <2> QED
    BY <2>1, <2>2, <2>3, <2>4 DEF Next, Bank
<1>3. Spec => []MirrorInv
  BY MirrorInvariant
<1> QED
  BY <1>1, <1>2, <1>3, PTL DEF Spec, ImplementsMirror, Mirror!Spec
=============================================================================
