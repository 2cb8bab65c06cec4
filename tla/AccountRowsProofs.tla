--------------------------- MODULE AccountRowsProofs ---------------------------
(***************************************************************************)
(* Proofs about AccountRows, for every set of logins and accounts, however *)
(* many passes run: rows and their logins, the kinds and flags pairing     *)
(* relies on, and the page's sums for any number of requests that edit,    *)
(* the user's choices for one at a time.                                   *)
(***************************************************************************)
EXTENDS AccountRows, FiniteReasoning

ConnStates == {"unlinked", "active", "needs", "gone"}
Stages == {"next", "fetch", "flag", "refresh", "statements", "write"}

Listing == [open : BOOLEAN, balance : Int \cup {Null}, cycle : Reports \cup {Null}]
Offer == [kind : Kinds, savings : BOOLEAN, balance : Int \cup {Null}]
Heard == UNION {[S -> Offer] : S \in SUBSET Accts}

Cycles == {BlankCycle} \cup {CardStatementFrom(r) : r \in Reports}
Writes ==
  [phase : {1, 2}, op : {"cycle"}, acct : Accts, id : 1..2, value : Cycles \cup {Null}]
  \cup [phase : {3}, op : {"gap"}, acct : Accts, id : 1..2, value : BOOLEAN]

Visits ==
  [pc : Stages, how : {"sync", "reconnect"}, left : SUBSET Conns,
   was : [Conns -> ConnStates], conn : Conns \cup {Null}, heard : Heard,
   todo : SUBSET Writes]

TypeInv ==
  /\ TypeOK
  /\ bank \in [Accts -> Listing]
  /\ today \in Nat
  /\ job \in [Passes -> {Idle} \cup Visits]
  /\ \A p \in Passes : job[p].pc \notin {"idle", "next"} => job[p].conn \in Conns
  /\ edit \in [Editors -> {NoEdit} \cup [acct : Accts, row : Rows]]
  /\ severing \subseteq Conns

\* A row there is differs from no row.
LEMMA RowStored ==
  /\ NoRow \notin Rows
  /\ \A row \in Rows : row.kind \in Kinds /\ row.id \in 1..2
BY DEF NoRow, Rows, Kinds

\* The row an account that is new to the table gets.
NewRow(c, offer) ==
  [id |-> FreshId(c), conn |-> c, kind |-> offer.kind, savings |-> offer.savings,
   balance |-> offer.balance, state |-> "active", synced |-> today,
   custom |-> Null, cycle |-> BlankCycle, sched |-> DefaultSchedule, gap |-> FALSE]

LEMMA NewRowType ==
  ASSUME TypeInv, NEW c \in Conns, NEW offer \in Offer
  PROVE  NewRow(c, offer) \in Rows
<1>1. FreshId(c) \in 1..2
  BY DEF FreshId
<1>2. DefaultSchedule \in [mode : {"due_date", "statement_plus_days"}, offset : Nat]
  BY DEF DefaultSchedule
<1> QED
  BY <1>1, <1>2 DEF NewRow, Rows, Offer, TypeInv

\* Inserts, one for each listed account.
LEMMA SeededRows ==
  ASSUME TypeInv, NEW c \in Conns, NEW offers \in Heard
  PROVE  Seeded(accts, c, offers, today)
           = [a \in Accts |-> IF a \in DOMAIN offers THEN NewRow(c, offers[a]) ELSE accts[a]]
<1>1. \A a \in Accts :
        CreateAccount(accts, a, NewAccount(FreshId(c), c, offers[a], today))[a]
          = NewRow(c, offers[a])
  BY DEF CreateAccount, NewAccount, NewRow, TypeInv, TypeOK
<1> QED
  BY <1>1 DEF Seeded

\* A visit's rows: a listed row of the login's own takes its balance and stamp, one that
\* is not there is created, the rest stand.
LEMMA RefreshedRows ==
  ASSUME TypeInv, NEW c \in Conns, NEW offers \in Heard
  PROVE  Refreshed(c, offers) =
           [a \in Accts |->
              IF a \notin DOMAIN offers THEN accts[a]
              ELSE IF accts[a] # NoRow /\ accts[a].conn = c
              THEN [accts[a] EXCEPT !.balance = offers[a].balance, !.synced = today]
              ELSE NewRow(c, offers[a])]
<1> DEFINE existing == ListAccountsByConnection(accts, c)
           balanced(a) == UpdateAccount(accts, a,
                            [accts[a] EXCEPT !.balance = offers[a].balance, !.synced = today])
           created == Seeded(accts, c, offers, today)
<1>1. ASSUME NEW a \in Accts, accts[a] # NoRow
      PROVE  balanced(a)[a]
               = [accts[a] EXCEPT !.balance = offers[a].balance, !.synced = today]
  <2>1. accts \in [Accts -> Rows \cup {NoRow}] /\ accts[a] \in Rows
    BY <1>1 DEF TypeInv, TypeOK
  <2>2. PICK row \in Rows : row = accts[a]
    BY <2>1
  <2>3. balanced(a)[a] = [row EXCEPT !.kind = row.kind, !.savings = row.savings,
           !.balance = offers[a].balance, !.state = row.state, !.synced = today]
    BY <2>1, <2>2 DEF UpdateAccount, Rows
  <2> QED
    BY <2>2, <2>3 DEF Rows
<1>2. \A a \in Accts : a \in existing <=> accts[a] # NoRow /\ accts[a].conn = c
  BY DEF ListAccountsByConnection, Stored, TypeInv, TypeOK
<1>3. Refreshed(c, offers) =
        [a \in Accts |-> IF a \in DOMAIN offers
                         THEN IF a \in existing THEN balanced(a)[a] ELSE created[a]
                         ELSE accts[a]]
  BY DEF Refreshed
<1>4. \A a \in Accts : a \in DOMAIN offers => created[a] = NewRow(c, offers[a])
  BY SeededRows
<1> HIDE DEF existing, balanced, created
<1> QED
  BY <1>1, <1>2, <1>3, <1>4

\* What the bank offers has its type; the savings default is a cash account's.
LEMMA OfferedType ==
  ASSUME TypeInv, NEW c \in Conns
  PROVE  /\ Offered(c) \in Heard
         /\ \A a \in DOMAIN Offered(c) :
              /\ a \in Accts /\ ConnOf[a] = c
              /\ Offered(c)[a].savings => Offered(c)[a].kind = "cash"
<1> DEFINE S == {b \in Accts : ConnOf[b] = c /\ bank[b].open}
           f == [a \in S |-> [kind |-> KindAtBank[a], savings |-> SavesAtBank[a],
                              balance |-> bank[a].balance]]
<1>1. Offered(c) = f
  BY DEF Offered
<1>2. f \in [S -> Offer] /\ S \in SUBSET Accts
  BY RowsAssumption DEF TypeInv, Listing, Offer
<1>3. \A a \in S : f[a].savings => f[a].kind = "cash"
  BY RowsAssumption
<1> QED
  BY <1>1, <1>2, <1>3 DEF Heard

\* A pass that is done with a login goes to the next of its list, or home.
LEMMA VisitEnds ==
  ASSUME TypeInv, NEW p \in Passes, job[p].pc # "idle", EndVisit(p)
  PROVE  /\ job' \in [Passes -> {Idle} \cup Visits]
         /\ \A q \in Passes \ {p} : job'[q] = job[q]
         /\ \/ job'[p] = Idle
            \/ /\ job'[p].pc = "next" /\ job'[p].left = job[p].left
               /\ job'[p].heard = <<>> /\ job'[p].conn = Null
<1>1. job[p] \in Visits
  BY DEF TypeInv, Idle
<1>2. <<>> \in Heard
  <2>1. <<>> \in [{} -> Offer]
    OBVIOUS
  <2> QED
    BY <2>1 DEF Heard
<1>3. PICK v \in Visits : v = job[p]
  BY <1>1
<1> DEFINE n == [v EXCEPT !.pc = "next", !.conn = Null, !.heard = <<>>, !.todo = {}]
<1>4. n \in Visits /\ n.pc = "next" /\ n.left = v.left /\ n.heard = <<>> /\ n.conn = Null
  BY <1>2 DEF Visits, Stages
<1> HIDE DEF n
<1>5. job' = [job EXCEPT ![p] = IF v.left = {} THEN Idle ELSE n]
  BY <1>3 DEF EndVisit, n
<1> QED
  BY <1>3, <1>4, <1>5 DEF TypeInv

\* Every write that follows a statement is of a row that was there, or of its gap.
LEMMA WritesType ==
  ASSUME TypeInv, NEW c \in Conns, NEW rows, rows \subseteq Stored(accts)
  PROVE  /\ StatementWrites(rows, ReportedCycles(c)) \subseteq Writes
         /\ MarkGap(rows, TRUE) \subseteq Writes
<1>1. \A a \in rows : a \in Accts /\ accts[a].id \in 1..2
  BY RowStored DEF Stored, TypeInv, TypeOK
<1>2. \A gap \in BOOLEAN : MarkGap(rows, gap) \subseteq Writes
  BY <1>1 DEF MarkGap, Writes
<1>3. \A a \in DOMAIN ReportedCycles(c) : ReportedCycles(c)[a] \in Cycles
  BY OfferedType DEF ReportedCycles, Cycles, TypeInv, Listing
<1>4. \A a \in rows \cap DOMAIN ReportedCycles(c) :
        [phase |-> 1, op |-> "cycle", acct |-> a, id |-> accts[a].id,
         value |-> ReportedCycles(c)[a]] \in Writes
  BY <1>1, <1>3 DEF Writes
<1>5. \A a \in rows :
        [phase |-> 2, op |-> "cycle", acct |-> a, id |-> accts[a].id, value |-> Null]
          \in Writes
  BY <1>1 DEF Writes
<1> QED
  BY <1>2, <1>4, <1>5 DEF StatementWrites

LEMMA InitType == Init => TypeInv
<1> SUFFICES ASSUME Init PROVE TypeInv
  OBVIOUS
<1>1. bank \in [Accts -> Listing]
  BY DEF Init, Listing
<1> QED
  BY <1>1 DEF Init, TypeInv, TypeOK, Idle, NoEdit

\* The rows a transaction of a visit or a new connection leaves are rows.
LEMMA ListedRowsType ==
  ASSUME TypeInv, NEW c \in Conns, NEW offers \in Heard
  PROVE  /\ Seeded(accts, c, offers, today) \in [Accts -> Rows \cup {NoRow}]
         /\ Refreshed(c, offers) \in [Accts -> Rows \cup {NoRow}]
<1>1. \A a \in DOMAIN offers : offers[a] \in Offer
  BY DEF Heard
<1>2. \A a \in DOMAIN offers : NewRow(c, offers[a]) \in Rows
  BY <1>1, NewRowType
<1>3. accts \in [Accts -> Rows \cup {NoRow}]
  BY DEF TypeInv, TypeOK
<1>4. ASSUME NEW row \in Rows, NEW offer \in Offer
      PROVE  [row EXCEPT !.balance = offer.balance, !.synced = today] \in Rows
  BY DEF Rows, Offer, TypeInv
<1>5. Seeded(accts, c, offers, today) \in [Accts -> Rows \cup {NoRow}]
  BY <1>2, <1>3, SeededRows
<1>6. ASSUME NEW a \in Accts, a \in DOMAIN offers, accts[a] # NoRow
      PROVE  [accts[a] EXCEPT !.balance = offers[a].balance, !.synced = today] \in Rows
  BY <1>1, <1>3, <1>4, <1>6
<1>7. Refreshed(c, offers) \in [Accts -> Rows \cup {NoRow}]
  <2> DEFINE after(a) == IF a \notin DOMAIN offers THEN accts[a]
                         ELSE IF accts[a] # NoRow /\ accts[a].conn = c
                         THEN [accts[a] EXCEPT !.balance = offers[a].balance, !.synced = today]
                         ELSE NewRow(c, offers[a])
  <2>1. \A a \in Accts : after(a) \in Rows \cup {NoRow}
    BY <1>2, <1>3, <1>6
  <2>2. Refreshed(c, offers) = [a \in Accts |-> after(a)]
    BY RefreshedRows
  <2> HIDE DEF after
  <2> QED
    BY <2>1, <2>2
<1> QED
  BY <1>5, <1>7

\* The row as read, with the change, is a row; so is what it makes of the row there is.
LEMMA WrittenBackType ==
  ASSUME TypeInv, NEW e \in Editors, NEW row \in Rows, NEW choice,
         WriteBack(e, row, choice)
  PROVE  accts' \in [Accts -> Rows \cup {NoRow}]
<1>1. edit[e].acct \in Accts
  BY DEF WriteBack, TypeInv
<1>2. ASSUME NEW a \in Accts, Stands(a, row.id)
      PROVE  UpdateAccount(accts, a, row) \in [Accts -> Rows \cup {NoRow}]
  <2>1. accts \in [Accts -> Rows \cup {NoRow}] /\ accts[a] \in Rows
    BY <1>2 DEF Stands, TypeInv, TypeOK
  <2>2. [accts[a] EXCEPT !.kind = row.kind, !.savings = row.savings,
               !.balance = row.balance, !.state = row.state, !.synced = row.synced] \in Rows
    BY <2>1 DEF Rows
  <2> QED
    BY <2>1, <2>2 DEF UpdateAccount
<1> QED
  BY <1>1, <1>2 DEF WriteBack, TypeInv, TypeOK

\* What a request read is a row, and an edit of it is one.
LEMMA EditedRow ==
  ASSUME TypeInv, NEW e \in Editors, edit[e] # NoEdit
  PROVE  /\ edit[e].acct \in Accts /\ edit[e].row \in Rows
         /\ \A kind \in Kinds : \A savings \in BOOLEAN :
              [edit[e].row EXCEPT !.kind = kind, !.savings = savings] \in Rows
         /\ [edit[e].row EXCEPT !.savings = ~@] \in Rows
         /\ \A state \in {"active", "hidden"} : [edit[e].row EXCEPT !.state = state] \in Rows
<1>1. edit[e].acct \in Accts /\ edit[e].row \in Rows
  BY DEF TypeInv
<1> QED
  BY <1>1 DEF Rows

LEMMA BankStepType ==
  ASSUME TypeInv,
         \/ \E a \in Accts : BankMoves(a)
         \/ \E c \in Conns : LoginChanges(c)
         \/ DayPasses
  PROVE  TypeInv'
<1> USE DEF bankVars, userVars
<1>1. ASSUME NEW a \in Accts, BankMoves(a) PROVE TypeInv'
  <2>1. bank' \in [Accts -> Listing]
    <3>1. bank \in [Accts -> Listing]
      BY DEF TypeInv
    <3>2. CASE \E b \in (0..MaxBalance \cup {Null}) \ {bank[a].balance} :
                 bank' = [bank EXCEPT ![a].balance = b]
      BY <3>1, <3>2, RowsAssumption DEF Listing
    <3>3. CASE bank' = [bank EXCEPT ![a].open = ~@]
      BY <3>1, <3>3 DEF Listing
    <3>4. CASE \E r \in (Reports \cup {Null}) \ {bank[a].cycle} :
                 bank' = [bank EXCEPT ![a].cycle = r]
      BY <3>1, <3>4 DEF Listing
    <3> QED
      BY <1>1, <3>2, <3>3, <3>4 DEF BankMoves
  <2> QED
    BY <1>1, <2>1 DEF BankMoves, TypeInv, TypeOK
<1>2. ASSUME NEW c \in Conns, LoginChanges(c) PROVE TypeInv'
  BY <1>2 DEF LoginChanges, TypeInv, TypeOK
<1>3. CASE DayPasses
  BY <1>3 DEF DayPasses, TypeInv, TypeOK
<1> QED
  BY <1>1, <1>2, <1>3

LEMMA ConnStepType ==
  ASSUME TypeInv, NEW c \in Conns,
         RegisterConnection(c) \/ DisconnectAtProvider(c) \/ DisconnectInStore(c)
           \/ AbandonDisconnect(c)
  PROVE  TypeInv'
<1> USE DEF bankVars, userVars
<1>1. CASE RegisterConnection(c)
  <2>1. accts' \in [Accts -> Rows \cup {NoRow}]
    BY <1>1, OfferedType, ListedRowsType DEF RegisterConnection
  <2>2. conns' \in [Conns -> ConnStates]
    BY <1>1 DEF RegisterConnection, CreateConnection, TypeInv, TypeOK, ConnStates
  <2> QED
    BY <1>1, <2>1, <2>2 DEF RegisterConnection, TypeInv, TypeOK, ConnStates
<1>2. CASE DisconnectAtProvider(c)
  BY <1>2 DEF DisconnectAtProvider, TypeInv, TypeOK
<1>3. CASE DisconnectInStore(c)
  <2>1. accts' \in [Accts -> Rows \cup {NoRow}]
    BY <1>3 DEF DisconnectInStore, DeleteAccountsByConnection, TypeInv, TypeOK
  <2>2. conns' \in [Conns -> ConnStates]
    BY <1>3 DEF DisconnectInStore, DeleteConnection, TypeInv, TypeOK, ConnStates
  <2> QED
    BY <1>3, <2>1, <2>2 DEF DisconnectInStore, TypeInv, TypeOK, ConnStates
<1>4. CASE AbandonDisconnect(c)
  BY <1>4 DEF AbandonDisconnect, TypeInv, TypeOK
<1> QED
  BY <1>1, <1>2, <1>3, <1>4

\* Where a pass goes, and what it takes along, stays of its type.
LEMMA JobType ==
  ASSUME TypeInv, NEW p \in Passes, NEW v \in Visits,
         v.pc # "next" => v.conn \in Conns, job' = [job EXCEPT ![p] = v]
  PROVE  /\ job' \in [Passes -> {Idle} \cup Visits]
         /\ \A q \in Passes : job'[q].pc \notin {"idle", "next"} => job'[q].conn \in Conns
         /\ \A q \in Passes : job'[q].pc \in {"idle"} \cup Stages
BY DEF TypeInv, Idle, Visits

LEMMA EndVisitType ==
  ASSUME TypeInv, NEW p \in Passes, job[p].pc # "idle", EndVisit(p)
  PROVE  /\ job' \in [Passes -> {Idle} \cup Visits]
         /\ \A q \in Passes : job'[q].pc \notin {"idle", "next"} => job'[q].conn \in Conns
         /\ \A q \in Passes : job'[q].pc \in {"idle"} \cup Stages
BY VisitEnds DEF TypeInv, Idle, Visits

LEMMA PassStepType ==
  ASSUME TypeInv, NEW p \in Passes,
         \/ StartPass(p) \/ PassStep(p) \/ FailVisit(p)
         \/ \E c \in Conns : StartReconnect(p, c)
  PROVE  TypeInv'
<1> USE DEF bankVars, userVars
<1>0. <<>> \in Heard
  <2>1. <<>> \in [{} -> Offer]
    OBVIOUS
  <2> QED
    BY <2>1 DEF Heard
<1>1. /\ conns \in [Conns -> ConnStates] /\ Linked \subseteq Conns
      /\ job[p].pc # "idle" => job[p] \in Visits
  BY DEF TypeInv, TypeOK, ConnStates, Linked, ListLinked, Idle
<1> DEFINE JobOK == /\ job' \in [Passes -> {Idle} \cup Visits]
                    /\ \A q \in Passes :
                         job'[q].pc \notin {"idle", "next"} => job'[q].conn \in Conns
                    /\ \A q \in Passes : job'[q].pc \in {"idle"} \cup Stages
<1>2. ASSUME JobOK, UNCHANGED <<bankVars, today, edit, severing>>,
             accts' \in [Accts -> Rows \cup {NoRow}], conns' \in [Conns -> ConnStates]
      PROVE  TypeInv'
  BY <1>2 DEF TypeInv, TypeOK, ConnStates, Stages
<1>3. accts \in [Accts -> Rows \cup {NoRow}]
  BY DEF TypeInv, TypeOK
<1>4. CASE StartPass(p)
  <2> DEFINE v == [pc |-> "next", how |-> "sync", left |-> Linked, was |-> conns,
                   conn |-> Null, heard |-> <<>>, todo |-> {}]
  <2>1. v \in Visits /\ v.pc = "next"
    BY <1>0, <1>1 DEF Visits, Stages
  <2>2. job' = [job EXCEPT ![p] = v]
    BY <1>4 DEF StartPass
  <2> HIDE DEF v
  <2>3. JobOK
    BY <2>1, <2>2, JobType
  <2> QED
    BY <1>1, <1>2, <1>3, <1>4, <2>3 DEF StartPass
<1>5. ASSUME NEW c \in Conns, StartReconnect(p, c) PROVE TypeInv'
  <2> DEFINE v == [pc |-> "fetch", how |-> "reconnect", left |-> {}, was |-> conns,
                   conn |-> c, heard |-> <<>>, todo |-> {}]
  <2>1. v \in Visits /\ v.conn \in Conns
    BY <1>0, <1>1 DEF Visits, Stages
  <2>2. job' = [job EXCEPT ![p] = v]
    BY <1>5 DEF StartReconnect
  <2> HIDE DEF v
  <2>3. JobOK
    BY <2>1, <2>2, JobType
  <2> QED
    BY <1>1, <1>2, <1>3, <1>5, <2>3 DEF StartReconnect
<1>6. CASE Visit(p)
  <2>1. PICK c \in job[p].left :
          job' = [job EXCEPT ![p] = [job[p] EXCEPT !.pc = "fetch", !.conn = c,
                                                   !.left = job[p].left \ {c}]]
    BY <1>6 DEF Visit
  <2>2. PICK v \in Visits : v = job[p]
    BY <1>1, <1>6 DEF Visit
  <2> DEFINE w == [v EXCEPT !.pc = "fetch", !.conn = c, !.left = @ \ {c}]
  <2>3. w \in Visits /\ w.conn \in Conns
    BY <2>1, <2>2 DEF Visits, Stages
  <2>4. job' = [job EXCEPT ![p] = w]
    <3>1. w = [job[p] EXCEPT !.pc = "fetch", !.conn = c, !.left = job[p].left \ {c}]
      BY <2>2
    <3> HIDE DEF w
    <3> QED
      BY <2>1, <3>1
  <2> HIDE DEF w
  <2>5. JobOK
    BY <2>3, <2>4, JobType
  <2> QED
    BY <1>1, <1>2, <1>3, <1>6, <2>5 DEF Visit
<1>7. ASSUME job[p].pc \notin {"idle", "next"},
             \/ EndVisit(p)
             \/ job' = [job EXCEPT ![p].pc = "flag"]
             \/ job' = [job EXCEPT ![p].pc = "statements"]
             \/ job' = [job EXCEPT ![p] = [@ EXCEPT !.pc = "refresh",
                                                    !.heard = Offered(job[p].conn)]]
             \/ \E todo \in SUBSET Writes :
                  job' = [job EXCEPT ![p] = [@ EXCEPT !.pc = "write", !.todo = todo]]
      PROVE  JobOK
  <2>1. PICK v \in Visits : v = job[p]
    BY <1>1, <1>7
  <2>2. v.conn \in Conns
    BY <1>7, <2>1 DEF TypeInv
  <2>3. CASE EndVisit(p)
    BY <1>7, <2>3, EndVisitType
  <2>4. ASSUME NEW w \in Visits, w.conn = v.conn, job' = [job EXCEPT ![p] = w] PROVE JobOK
    BY <2>2, <2>4, JobType
  <2>5. ASSUME NEW pc \in Stages, job' = [job EXCEPT ![p].pc = pc] PROVE JobOK
    <3> DEFINE w == [v EXCEPT !.pc = pc]
    <3>1. w \in Visits /\ w.conn = v.conn
      BY DEF Visits
    <3>2. job' = [job EXCEPT ![p] = w]
      BY <2>1, <2>5 DEF TypeInv
    <3> HIDE DEF w, JobOK
    <3> QED
      BY <2>4, <3>1, <3>2
  <2>6. CASE job' = [job EXCEPT ![p] = [@ EXCEPT !.pc = "refresh",
                                                 !.heard = Offered(job[p].conn)]]
    <3> DEFINE w == [v EXCEPT !.pc = "refresh", !.heard = Offered(v.conn)]
    <3>1. w \in Visits /\ w.conn = v.conn
      BY <2>2, OfferedType DEF Visits, Stages
    <3>2. job' = [job EXCEPT ![p] = w]
      BY <2>1, <2>6 DEF TypeInv
    <3> HIDE DEF w, JobOK
    <3> QED
      BY <2>4, <3>1, <3>2
  <2>7. ASSUME NEW todo \in SUBSET Writes,
               job' = [job EXCEPT ![p] = [@ EXCEPT !.pc = "write", !.todo = todo]]
        PROVE  JobOK
    <3> DEFINE w == [v EXCEPT !.pc = "write", !.todo = todo]
    <3>1. w \in Visits /\ w.conn = v.conn
      BY DEF Visits, Stages
    <3>2. job' = [job EXCEPT ![p] = w]
      BY <2>1, <2>7 DEF TypeInv
    <3> HIDE DEF w, JobOK
    <3> QED
      BY <2>4, <3>1, <3>2
  <2> HIDE DEF JobOK
  <2> QED
    BY <1>7, <2>3, <2>5, <2>6, <2>7 DEF Stages
<1> HIDE DEF JobOK
<1>8. CASE Fetch(p)
  <2>1. JobOK
    BY <1>7, <1>8 DEF Fetch
  <2> QED
    BY <1>1, <1>2, <1>3, <1>8, <2>1 DEF Fetch
<1>9. CASE Flag(p)
  <2>1. JobOK
    BY <1>7, <1>9 DEF Flag
  <2>2. conns' \in [Conns -> ConnStates]
    BY <1>1, <1>9 DEF Flag, UpdateConnection, ConnStates
  <2> QED
    BY <1>2, <1>3, <1>9, <2>1, <2>2 DEF Flag
<1>10. CASE Refresh(p)
  <2>1. JobOK
    BY <1>7, <1>10 DEF Refresh
  <2>2. job[p].conn \in Conns /\ job[p].heard \in Heard
    BY <1>1, <1>10 DEF Refresh, TypeInv, Visits
  <2>3. conns' \in [Conns -> ConnStates]
    BY <1>1, <1>10 DEF Refresh, UpdateConnection, ConnStates
  <2>4. accts' \in [Accts -> Rows \cup {NoRow}]
    BY <1>3, <1>10, <2>2, ListedRowsType DEF Refresh
  <2> QED
    BY <1>2, <1>10, <2>1, <2>3, <2>4 DEF Refresh
<1>11. CASE ReadStatements(p)
  <2> DEFINE c == job[p].conn
             rows == ListAccountsByConnection(accts, c)
             writes == CASE login[c] # "ok" -> {}
                         [] product[c] = "served" -> StatementWrites(rows, ReportedCycles(c))
                         [] product[c] = "withheld" -> MarkGap(rows, TRUE)
                         [] OTHER -> {}
  <2>1. c \in Conns /\ rows \subseteq Stored(accts)
    BY <1>11 DEF ReadStatements, TypeInv, ListAccountsByConnection
  <2> HIDE DEF rows
  <2>2. writes \in SUBSET Writes
    BY <2>1, WritesType
  <2>3. /\ job[p].pc = "statements"
        /\ \/ job' = [job EXCEPT ![p].pc = "flag"]
           \/ EndVisit(p)
           \/ job' = [job EXCEPT ![p] = [@ EXCEPT !.pc = "write", !.todo = writes]]
    BY <1>11 DEF ReadStatements, rows
  <2> HIDE DEF writes
  <2>4. JobOK
    BY <1>7, <2>2, <2>3
  <2> QED
    BY <1>1, <1>2, <1>3, <1>11, <2>4 DEF ReadStatements
<1>12. CASE WriteStatement(p)
  <2>1. PICK w \in job[p].todo :
          /\ accts' = IF ~Stands(w.acct, w.id) THEN accts
                      ELSE IF w.op = "gap"
                      THEN UpdateAccountStatementsUnavailable(accts, w.acct, w.value)
                      ELSE SetAccountStatement(accts, w.acct, w.value)
          /\ IF ~Stands(w.acct, w.id) \/ job[p].todo = {w} THEN EndVisit(p)
             ELSE job' = [job EXCEPT ![p].todo = @ \ {w}]
    BY <1>12 DEF WriteStatement
  <2>2. PICK v \in Visits : v = job[p]
    BY <1>1, <1>12 DEF WriteStatement
  <2>3. w \in Writes /\ v.conn \in Conns /\ v.pc = "write"
    BY <1>12, <2>1, <2>2 DEF WriteStatement, TypeInv, Visits
  <2>4. JobOK
    <3>1. CASE EndVisit(p)
      BY <1>7, <1>12, <3>1 DEF WriteStatement
    <3>2. CASE job' = [job EXCEPT ![p].todo = @ \ {w}]
      <4> DEFINE n == [v EXCEPT !.todo = @ \ {w}]
      <4>1. n \in Visits /\ n.conn \in Conns
        BY <2>3 DEF Visits
      <4>2. job' = [job EXCEPT ![p] = n]
        BY <2>2, <3>2 DEF TypeInv
      <4> HIDE DEF n
      <4> QED
        BY <4>1, <4>2, JobType DEF JobOK
    <3> QED
      BY <2>1, <3>1, <3>2
  <2>5. accts' \in [Accts -> Rows \cup {NoRow}]
    <3>1. CASE ~Stands(w.acct, w.id)
      BY <1>3, <2>1, <3>1
    <3>2. CASE Stands(w.acct, w.id) /\ w.op = "gap"
      <4>1. w.acct \in Accts /\ w.value \in BOOLEAN
        BY <2>3, <3>2 DEF Writes
      <4>2. [accts[w.acct] EXCEPT !.gap = w.value] \in Rows
        BY <1>3, <3>2, <4>1 DEF Stands, Rows
      <4> QED
        BY <1>3, <2>1, <3>2, <4>1, <4>2 DEF UpdateAccountStatementsUnavailable
    <3>3. CASE Stands(w.acct, w.id) /\ w.op # "gap"
      <4>1. w.acct \in Accts /\ w.value \in Cycles \cup {Null}
        BY <2>3, <3>3 DEF Writes
      <4>2. PICK cycle \in Cycles : cycle = IF w.value = Null THEN BlankCycle ELSE w.value
        BY <4>1 DEF Cycles
      <4>3. [accts[w.acct] EXCEPT !.cycle = cycle] \in Rows
        BY <1>3, <3>3, <4>1 DEF Stands, Rows, Cycles
      <4> QED
        BY <1>3, <2>1, <3>3, <4>1, <4>2, <4>3 DEF SetAccountStatement, UpdateAccountStatement
    <3> QED
      BY <3>1, <3>2, <3>3
  <2> QED
    BY <1>1, <1>2, <1>12, <2>4, <2>5 DEF WriteStatement
<1>13. CASE FailVisit(p)
  <2>1. JobOK
    BY <1>7, <1>13 DEF FailVisit
  <2> QED
    BY <1>1, <1>2, <1>3, <1>13, <2>1 DEF FailVisit
<1> QED
  BY <1>4, <1>5, <1>6, <1>8, <1>9, <1>10, <1>11, <1>12, <1>13 DEF PassStep

\* A schedule is stored in a mode there is, with an offset that is not negative.
LEMMA ScheduleType ==
  ASSUME NEW mode, NEW offset \in Offsets \cup {Null},
         ValidSchedule(PostedSchedule(mode, offset))
  PROVE  Normalised(PostedSchedule(mode, offset)) \in
           [mode : {"due_date", "statement_plus_days"}, offset : Nat]
<1>1. PICK n \in Int : n = IF offset = Null THEN 0 ELSE offset
  BY RowsAssumption
<1>2. PostedSchedule(mode, offset) = [mode |-> mode, offset |-> n]
  BY <1>1 DEF PostedSchedule
<1>3. mode \in {"due_date", "statement_plus_days"} /\ n \in Nat
  BY <1>2 DEF ValidSchedule
<1> QED
  BY <1>2, <1>3 DEF Normalised

LEMMA EditStepType ==
  ASSUME TypeInv, EditStep
  PROVE  TypeInv'
<1> USE DEF bankVars, userVars
<1>1. accts \in [Accts -> Rows \cup {NoRow}]
  BY DEF TypeInv, TypeOK
<1>2. ASSUME NEW e \in Editors, NEW row \in Rows, NEW choice, WriteBack(e, row, choice)
      PROVE  TypeInv'
  <2>1. accts' \in [Accts -> Rows \cup {NoRow}]
    BY <1>2, WrittenBackType
  <2>2. edit' \in [Editors -> {NoEdit} \cup [acct : Accts, row : Rows]]
    BY <1>2 DEF WriteBack, TypeInv
  <2> QED
    BY <1>2, <2>1, <2>2 DEF WriteBack, TypeInv, TypeOK
<1>3. ASSUME NEW e \in Editors, SetAccountKind(e) PROVE TypeInv'
  <2>1. PICK kind \in Kinds :
          LET row == [edit[e].row EXCEPT !.kind = kind,
                                         !.savings = IF kind = "credit" THEN FALSE ELSE @]
          IN  edit[e] # NoEdit /\ \E choice : WriteBack(e, row, choice)
    BY <1>3 DEF SetAccountKind
  <2>2. PICK savings \in BOOLEAN :
          savings = IF kind = "credit" THEN FALSE ELSE edit[e].row.savings
    BY <2>1, EditedRow DEF Rows
  <2>3. PICK choice :
          WriteBack(e, [edit[e].row EXCEPT !.kind = kind, !.savings = savings], choice)
    BY <2>1, <2>2
  <2> QED
    BY <1>2, <2>1, <2>3, EditedRow
<1>4. ASSUME NEW e \in Editors, ToggleCountsAsSavings(e) PROVE TypeInv'
  BY <1>2, <1>4, EditedRow DEF ToggleCountsAsSavings
<1>5. ASSUME NEW e \in Editors, SetAccountState(e) PROVE TypeInv'
  <2>1. PICK state \in {"active", "hidden"} :
          /\ edit[e] # NoEdit
          /\ WriteBack(e, [edit[e].row EXCEPT !.state = state],
                       [wish[edit[e].acct] EXCEPT !.state = state])
    BY <1>5 DEF SetAccountState
  <2> QED
    BY <1>2, <2>1, EditedRow
<1>6. ASSUME NEW e \in Editors, RefuseSavings(e) PROVE TypeInv'
  BY <1>6 DEF RefuseSavings, TypeInv, TypeOK
<1>7. ASSUME NEW e \in Editors, NEW a \in Accts, BeginEdit(e, a) PROVE TypeInv'
  <2>1. [acct |-> a, row |-> accts[a]] \in [acct : Accts, row : Rows]
    BY <1>1, <1>7 DEF BeginEdit
  <2>2. edit' \in [Editors -> {NoEdit} \cup [acct : Accts, row : Rows]]
    BY <1>7, <2>1 DEF BeginEdit, TypeInv
  <2> QED
    BY <1>7, <2>2 DEF BeginEdit, TypeInv, TypeOK
<1>8. ASSUME NEW a \in Accts, SetAccountName(a) PROVE TypeInv'
  <2>1. PICK name \in Names \cup {Null} :
          accts' = UpdateAccountCustomName(accts, a, name) /\ accts[a] # NoRow
    BY <1>8 DEF SetAccountName
  <2>2. [accts[a] EXCEPT !.custom = name] \in Rows
    BY <1>1, <2>1 DEF Rows
  <2>3. accts' \in [Accts -> Rows \cup {NoRow}]
    BY <1>1, <2>1, <2>2 DEF UpdateAccountCustomName
  <2> QED
    BY <1>8, <2>3 DEF SetAccountName, TypeInv, TypeOK
<1>9. ASSUME NEW a \in Accts, SetPaymentSchedule(a) PROVE TypeInv'
  <2>1. PICK mode \in {"due_date", "statement_plus_days", "unknown"},
             offset \in Offsets \cup {Null} :
          /\ accts[a] # NoRow /\ ValidSchedule(PostedSchedule(mode, offset))
          /\ accts' = UpdateAccountPaymentSchedule(accts, a,
                        Normalised(PostedSchedule(mode, offset)))
    BY <1>9 DEF SetPaymentSchedule
  <2>2. PICK sched \in [mode : {"due_date", "statement_plus_days"}, offset : Nat] :
          sched = Normalised(PostedSchedule(mode, offset))
    BY <2>1, ScheduleType
  <2>3. [accts[a] EXCEPT !.sched = sched] \in Rows
    BY <1>1, <2>1 DEF Rows
  <2>4. accts' \in [Accts -> Rows \cup {NoRow}]
    BY <1>1, <2>1, <2>2, <2>3 DEF UpdateAccountPaymentSchedule
  <2> QED
    BY <1>9, <2>4 DEF SetPaymentSchedule, TypeInv, TypeOK
<1> QED
  BY <1>3, <1>4, <1>5, <1>6, <1>7, <1>8, <1>9 DEF EditStep

LEMMA PageStepType ==
  ASSUME TypeInv, ListForPage \/ ShowPage \/ LeavePage
  PROVE  TypeInv'
BY DEF ListForPage, ShowPage, LeavePage, TypeInv, TypeOK, bankVars

LEMMA TypeStep == TypeInv /\ [Next]_vars => TypeInv'
<1> SUFFICES ASSUME TypeInv, [Next]_vars PROVE TypeInv'
  OBVIOUS
<1>1. CASE UNCHANGED vars
  BY <1>1 DEF vars, bankVars, TypeInv, TypeOK
<1>2. CASE Next
  BY <1>2, BankStepType, ConnStepType, PassStepType, EditStepType, PageStepType DEF Next
<1> QED
  BY <1>1, <1>2

\* Whatever the order of connects, syncs, edits and disconnects, what is stored, read and
\* written is a connection, an account row or an edit of one (accounts/accounts.go).
THEOREM TypeCorrect == Spec => []TypeOK
<1>1. TypeInv => TypeOK
  BY DEF TypeInv
<1> QED
  BY InitType, TypeStep, <1>1, PTL DEF Spec

-----------------------------------------------------------------------------
(* What one step does to a connection, a pass, a request and a row. *)

\* A connection stays a connection until it is gone, and then for ever; only the
\* transaction of its disconnect takes it away.
LEMMA ConnectionStep ==
  ASSUME TypeInv, [Next]_vars, NEW c \in Conns
  PROVE  /\ conns[c] # "unlinked" => conns'[c] # "unlinked"
         /\ conns[c] = "gone" => conns'[c] = "gone"
         /\ c \in Linked /\ c \notin Linked' => DisconnectInStore(c)
         /\ severing' \subseteq severing \cup Linked
         /\ DisconnectInStore(c) => c \notin severing'
<1> USE DEF TypeInv, TypeOK, Linked, ListLinked, bankVars, userVars
<1>1. CASE UNCHANGED vars
  BY <1>1 DEF vars, DisconnectInStore
<1>2. ASSUME NEW a \in Accts, BankMoves(a) PROVE UNCHANGED <<conns, severing>>
  BY <1>2 DEF BankMoves
<1>3. ASSUME NEW d \in Conns, LoginChanges(d) \/ AbandonDisconnect(d)
      PROVE  UNCHANGED conns /\ severing' \subseteq severing
  BY <1>3 DEF LoginChanges, AbandonDisconnect
<1>4. ASSUME NEW d \in Conns, RegisterConnection(d)
      PROVE  /\ UNCHANGED severing /\ conns' = [conns EXCEPT ![d] = "active"]
             /\ conns[d] = "unlinked"
  BY <1>4 DEF RegisterConnection, CreateConnection
<1>5. ASSUME NEW d \in Conns, DisconnectAtProvider(d)
      PROVE  UNCHANGED conns /\ severing' \subseteq severing \cup Linked
  BY <1>5 DEF DisconnectAtProvider
<1>6. ASSUME NEW d \in Conns, DisconnectInStore(d)
      PROVE  severing' = severing \ {d} /\ conns' = [conns EXCEPT ![d] = "gone"]
  BY <1>6 DEF DisconnectInStore, DeleteConnection
<1>7. ASSUME DayPasses \/ ListForPage \/ ShowPage \/ LeavePage
      PROVE  UNCHANGED <<conns, severing>>
  BY <1>7 DEF DayPasses, ListForPage, ShowPage, LeavePage
<1>8. ASSUME NEW p \in Passes, Flag(p)
      PROVE  /\ UNCHANGED severing
             /\ conns' = conns \/ \E d \in Linked : conns' = [conns EXCEPT ![d] = "needs"]
  BY <1>8 DEF Flag, UpdateConnection
<1>9. ASSUME NEW p \in Passes, Refresh(p)
      PROVE  /\ UNCHANGED severing
             /\ conns' = conns \/ \E d \in Linked : conns' = [conns EXCEPT ![d] = "active"]
  BY <1>9 DEF Refresh, UpdateConnection
<1>10. ASSUME NEW p \in Passes,
              \/ StartPass(p) \/ Visit(p) \/ Fetch(p) \/ ReadStatements(p)
              \/ WriteStatement(p) \/ FailVisit(p) \/ \E d \in Conns : StartReconnect(p, d)
       PROVE  UNCHANGED <<conns, severing>>
  BY <1>10 DEF StartPass, Visit, Fetch, ReadStatements, WriteStatement, FailVisit,
              StartReconnect
<1>11. ASSUME EditStep PROVE UNCHANGED <<conns, severing>>
  BY <1>11 DEF EditStep, SetAccountKind, ToggleCountsAsSavings, RefuseSavings,
              SetAccountState, BeginEdit, SetAccountName, SetPaymentSchedule, WriteBack
<1>12. \/ UNCHANGED conns /\ severing' \subseteq severing \cup Linked
       \/ \E d \in Conns : /\ UNCHANGED severing /\ conns' = [conns EXCEPT ![d] = "active"]
                           /\ conns[d] = "unlinked" /\ RegisterConnection(d)
       \/ \E d \in Conns : /\ severing' = severing \ {d} /\ DisconnectInStore(d)
                           /\ conns' = [conns EXCEPT ![d] = "gone"]
       \/ \E d \in Linked : /\ UNCHANGED severing
                            /\ conns' = [conns EXCEPT ![d] = "active"]
       \/ \E d \in Linked : /\ UNCHANGED severing
                            /\ conns' = [conns EXCEPT ![d] = "needs"]
  <2>1. CASE UNCHANGED vars
    BY <2>1 DEF vars
  <2>2. CASE Next
    BY <2>2, <1>2, <1>3, <1>4, <1>5, <1>6, <1>7, <1>8, <1>9, <1>10, <1>11
       DEF Next, PassStep
  <2> QED
    BY <2>1, <2>2
<1>13. DisconnectInStore(c) => severing' = severing \ {c}
  BY DEF DisconnectInStore
<1>14. /\ conns \in [Conns -> ConnStates]
       /\ \A d \in Conns : d \in Linked <=> conns[d] \in {"active", "needs"}
  BY DEF ConnStates
<1>15. \A d \in Conns : d \in Linked' <=> conns'[d] \in {"active", "needs"}
  <2>1. DOMAIN conns' = Conns
    BY <1>12
  <2> QED
    BY <2>1
<1>16. CASE UNCHANGED conns /\ severing' \subseteq severing \cup Linked
  BY <1>13, <1>16
<1>17. ASSUME NEW d \in Conns, UNCHANGED severing, conns' = [conns EXCEPT ![d] = "active"],
              RegisterConnection(d), conns[d] = "unlinked"
       PROVE  /\ conns[c] # "unlinked" => conns'[c] # "unlinked"
              /\ conns[c] = "gone" => conns'[c] = "gone"
              /\ c \in Linked => c \in Linked'
  <2>1. conns'[c] = IF c = d THEN "active" ELSE conns[c]
    BY <1>14, <1>17
  <2> HIDE DEF Linked, TypeInv
  <2> QED
    BY <1>14, <1>15, <1>17, <2>1
<1>18. ASSUME NEW d \in Conns, severing' = severing \ {d}, DisconnectInStore(d),
              conns' = [conns EXCEPT ![d] = "gone"]
       PROVE  /\ conns[c] # "unlinked" => conns'[c] # "unlinked"
              /\ conns[c] = "gone" => conns'[c] = "gone"
              /\ c \in Linked /\ c \notin Linked' => DisconnectInStore(c)
  <2>1. conns'[c] = IF c = d THEN "gone" ELSE conns[c]
    BY <1>14, <1>18
  <2> HIDE DEF Linked, TypeInv
  <2> QED
    BY <1>14, <1>15, <1>18, <2>1
<1>19. ASSUME NEW d \in Linked, UNCHANGED severing, NEW s \in {"active", "needs"},
              conns' = [conns EXCEPT ![d] = s]
       PROVE  /\ conns[c] # "unlinked" => conns'[c] # "unlinked"
              /\ conns[c] = "gone" => conns'[c] = "gone"
              /\ c \in Linked => c \in Linked'
  <2>1. conns'[c] = IF c = d THEN s ELSE conns[c]
    BY <1>14, <1>19
  <2> HIDE DEF Linked, TypeInv
  <2> QED
    BY <1>14, <1>15, <1>19, <2>1
<1> HIDE DEF TypeInv, TypeOK, Linked, ListLinked
<1> QED
  BY <1>12, <1>13, <1>16, <1>17, <1>18, <1>19

\* What a pass will visit it had listed, the login it visits it had listed or was asked to
\* reconnect, and what it heard is what that login offered when it was asked.
Onward(old, new) ==
  /\ new.pc # "idle" =>
       \A c \in new.left : c \in Linked \/ (old.pc # "idle" /\ c \in old.left)
  /\ new.pc \notin {"idle", "next"} =>
       \/ new.conn \in Linked
       \/ old.pc # "idle" /\ new.conn \in old.left
       \/ old.pc \notin {"idle", "next"} /\ new.conn = old.conn
  /\ new.pc = "refresh" =>
       \/ old.pc = "refresh" /\ new.heard = old.heard /\ new.conn = old.conn
       \/ old.pc = "fetch" /\ new.heard = Offered(old.conn) /\ new.conn = old.conn

LEMMA JobStep ==
  ASSUME TypeInv, [Next]_vars, NEW q \in Passes
  PROVE  Onward(job[q], job'[q])
<1> USE DEF bankVars, userVars
<1>1. Onward(job[q], job[q])
  BY DEF Onward
<1>2. ASSUME UNCHANGED job PROVE Onward(job[q], job'[q])
  BY <1>1, <1>2
<1>3. ASSUME NEW p \in Passes, job[p].pc # "idle", EndVisit(p) PROVE Onward(job[q], job'[q])
  <2>1. CASE q = p
    BY <1>3, <2>1, VisitEnds DEF Onward, Idle
  <2>2. CASE q # p
    BY <1>1, <1>3, <2>2, VisitEnds
  <2> QED
    BY <2>1, <2>2
<1>4. ASSUME NEW p \in Passes, NEW w, job' = [job EXCEPT ![p] = w], Onward(job[p], w)
      PROVE  Onward(job[q], job'[q])
  BY <1>1, <1>4 DEF TypeInv
<1>5. ASSUME NEW p \in Passes, job[p].pc \notin {"idle", "next"}, NEW pc, pc # "refresh",
             job' = [job EXCEPT ![p].pc = pc]
      PROVE  Onward(job[q], job'[q])
  <2>1. PICK v \in Visits : v = job[p]
    BY <1>5 DEF TypeInv, Idle
  <2>2. Onward(v, [v EXCEPT !.pc = pc])
    BY <1>5, <2>1 DEF Onward, Visits
  <2>3. job' = [job EXCEPT ![p] = [v EXCEPT !.pc = pc]]
    BY <1>5, <2>1 DEF TypeInv
  <2> QED
    BY <1>4, <2>1, <2>2, <2>3
<1>6. CASE UNCHANGED vars
  BY <1>2, <1>6 DEF vars
<1>7. ASSUME NEW a \in Accts, BankMoves(a) PROVE Onward(job[q], job'[q])
  BY <1>2, <1>7 DEF BankMoves
<1>8. ASSUME NEW c \in Conns,
             LoginChanges(c) \/ RegisterConnection(c) \/ DisconnectAtProvider(c)
               \/ DisconnectInStore(c) \/ AbandonDisconnect(c)
      PROVE  Onward(job[q], job'[q])
  BY <1>2, <1>8 DEF LoginChanges, RegisterConnection, DisconnectAtProvider,
                    DisconnectInStore, AbandonDisconnect
<1>9. CASE DayPasses \/ ListForPage \/ ShowPage \/ LeavePage
  BY <1>2, <1>9 DEF DayPasses, ListForPage, ShowPage, LeavePage
<1>10. CASE EditStep
  BY <1>2, <1>10 DEF EditStep, SetAccountKind, ToggleCountsAsSavings, RefuseSavings,
                     SetAccountState, BeginEdit, SetAccountName, SetPaymentSchedule, WriteBack
<1>11. ASSUME NEW p \in Passes, StartPass(p) PROVE Onward(job[q], job'[q])
  <2> DEFINE v == [pc |-> "next", how |-> "sync", left |-> Linked, was |-> conns,
                   conn |-> Null, heard |-> <<>>, todo |-> {}]
  <2>1. Onward(job[p], v)
    BY DEF Onward
  <2>2. job' = [job EXCEPT ![p] = v]
    BY <1>11 DEF StartPass
  <2> HIDE DEF v
  <2> QED
    BY <1>4, <2>1, <2>2
<1>12. ASSUME NEW p \in Passes, NEW c \in Conns, StartReconnect(p, c)
       PROVE  Onward(job[q], job'[q])
  <2> DEFINE v == [pc |-> "fetch", how |-> "reconnect", left |-> {}, was |-> conns,
                   conn |-> c, heard |-> <<>>, todo |-> {}]
  <2>1. Onward(job[p], v)
    BY <1>12 DEF Onward, StartReconnect
  <2>2. job' = [job EXCEPT ![p] = v]
    BY <1>12 DEF StartReconnect
  <2> HIDE DEF v
  <2> QED
    BY <1>4, <2>1, <2>2
<1>13. ASSUME NEW p \in Passes, Visit(p) PROVE Onward(job[q], job'[q])
  <2>1. PICK v \in Visits : v = job[p]
    BY <1>13 DEF Visit, TypeInv, Idle
  <2>2. PICK c \in v.left :
          job' = [job EXCEPT ![p] = [job[p] EXCEPT !.pc = "fetch", !.conn = c,
                                                   !.left = job[p].left \ {c}]]
    BY <1>13, <2>1 DEF Visit
  <2> DEFINE w == [v EXCEPT !.pc = "fetch", !.conn = c, !.left = v.left \ {c}]
  <2>3. Onward(v, w)
    BY <1>13, <2>1 DEF Onward, Visits, Visit
  <2>4. job' = [job EXCEPT ![p] = w]
    <3>1. w = [job[p] EXCEPT !.pc = "fetch", !.conn = c, !.left = job[p].left \ {c}]
      BY <2>1
    <3> HIDE DEF w
    <3> QED
      BY <2>2, <3>1
  <2> HIDE DEF w
  <2> QED
    BY <1>4, <2>1, <2>3, <2>4
<1>14. ASSUME NEW p \in Passes, Fetch(p) PROVE Onward(job[q], job'[q])
  <2>1. PICK v \in Visits : v = job[p]
    BY <1>14 DEF Fetch, TypeInv, Idle
  <2>2. CASE job' = [job EXCEPT ![p] = [@ EXCEPT !.pc = "refresh",
                                                 !.heard = Offered(job[p].conn)]]
    <3> DEFINE w == [v EXCEPT !.pc = "refresh", !.heard = Offered(v.conn)]
    <3>1. Onward(v, w)
      BY <1>14, <2>1 DEF Onward, Visits, Fetch
    <3>2. job' = [job EXCEPT ![p] = w]
      BY <2>1, <2>2 DEF TypeInv
    <3> HIDE DEF w
    <3> QED
      BY <1>4, <2>1, <3>1, <3>2
  <2>3. CASE job' = [job EXCEPT ![p].pc = "flag"]
    BY <1>5, <1>14, <2>3 DEF Fetch
  <2>4. CASE EndVisit(p)
    BY <1>3, <1>14, <2>4 DEF Fetch
  <2> QED
    BY <1>14, <2>2, <2>3, <2>4 DEF Fetch
<1>15. ASSUME NEW p \in Passes, Flag(p) \/ FailVisit(p) PROVE Onward(job[q], job'[q])
  BY <1>3, <1>15 DEF Flag, FailVisit
<1>16. ASSUME NEW p \in Passes, Refresh(p) PROVE Onward(job[q], job'[q])
  BY <1>3, <1>5, <1>16 DEF Refresh
<1>17. ASSUME NEW p \in Passes, ReadStatements(p) PROVE Onward(job[q], job'[q])
  <2>1. CASE EndVisit(p) \/ job' = [job EXCEPT ![p].pc = "flag"]
    BY <1>3, <1>5, <1>17, <2>1 DEF ReadStatements
  <2>2. ASSUME NEW todo,
               job' = [job EXCEPT ![p] = [@ EXCEPT !.pc = "write", !.todo = todo]]
        PROVE  Onward(job[q], job'[q])
    <3>1. PICK v \in Visits : v = job[p]
      BY <1>17 DEF ReadStatements, TypeInv, Idle
    <3> DEFINE w == [v EXCEPT !.pc = "write", !.todo = todo]
    <3>2. Onward(v, w)
      BY <1>17, <3>1 DEF Onward, Visits, ReadStatements
    <3>3. job' = [job EXCEPT ![p] = w]
      BY <2>2, <3>1 DEF TypeInv
    <3> HIDE DEF w
    <3> QED
      BY <1>4, <3>1, <3>2, <3>3
  <2> QED
    BY <1>17, <2>1, <2>2 DEF ReadStatements
<1>18. ASSUME NEW p \in Passes, WriteStatement(p) PROVE Onward(job[q], job'[q])
  <2>1. CASE EndVisit(p)
    BY <1>3, <1>18, <2>1 DEF WriteStatement
  <2>2. ASSUME NEW x, job' = [job EXCEPT ![p].todo = @ \ {x}]
        PROVE  Onward(job[q], job'[q])
    <3>1. PICK v \in Visits : v = job[p]
      BY <1>18 DEF WriteStatement, TypeInv, Idle
    <3> DEFINE w == [v EXCEPT !.todo = @ \ {x}]
    <3>2. Onward(v, w)
      BY <1>18, <3>1 DEF Onward, Visits, WriteStatement
    <3>3. job' = [job EXCEPT ![p] = w]
      BY <2>2, <3>1 DEF TypeInv
    <3> HIDE DEF w
    <3> QED
      BY <1>4, <3>1, <3>2, <3>3
  <2> QED
    BY <1>18, <2>1, <2>2 DEF WriteStatement
<1>19. CASE Next
  BY <1>19, <1>7, <1>8, <1>9, <1>10, <1>11, <1>12, <1>13, <1>14, <1>15, <1>16, <1>17, <1>18
     DEF Next, PassStep
<1> QED
  BY <1>6, <1>19

\* A request holds the row it read.
LEMMA EditHolds ==
  ASSUME TypeInv, [Next]_vars, NEW e \in Editors, edit'[e] # NoEdit
  PROVE  \/ edit'[e] = edit[e]
         \/ \E a \in Accts : /\ edit'[e] = [acct |-> a, row |-> accts[a]]
                             /\ accts[a] # NoRow /\ UNCHANGED <<accts, conns, wish>>
<1> USE DEF bankVars, userVars
<1>1. CASE UNCHANGED vars
  BY <1>1 DEF vars
<1>2. ASSUME NEW a \in Accts, BankMoves(a) PROVE UNCHANGED edit
  BY <1>2 DEF BankMoves
<1>3. ASSUME NEW c \in Conns,
             LoginChanges(c) \/ RegisterConnection(c) \/ DisconnectAtProvider(c)
               \/ DisconnectInStore(c) \/ AbandonDisconnect(c)
      PROVE  UNCHANGED edit
  BY <1>3 DEF LoginChanges, RegisterConnection, DisconnectAtProvider,
              DisconnectInStore, AbandonDisconnect
<1>4. ASSUME DayPasses \/ ListForPage \/ ShowPage \/ LeavePage PROVE UNCHANGED edit
  BY <1>4 DEF DayPasses, ListForPage, ShowPage, LeavePage
<1>5. ASSUME NEW p \in Passes,
             \/ StartPass(p) \/ PassStep(p) \/ FailVisit(p)
             \/ \E c \in Conns : StartReconnect(p, c)
      PROVE  UNCHANGED edit
  BY <1>5 DEF StartPass, PassStep, FailVisit, StartReconnect, Visit, Fetch, Flag, Refresh,
              ReadStatements, WriteStatement
<1>6. ASSUME NEW a \in Accts, SetAccountName(a) \/ SetPaymentSchedule(a)
      PROVE  UNCHANGED edit
  BY <1>6 DEF SetAccountName, SetPaymentSchedule
<1>7. ASSUME NEW f \in Editors, NEW a \in Accts, BeginEdit(f, a)
      PROVE  \/ edit'[e] = edit[e]
             \/ /\ edit'[e] = [acct |-> a, row |-> accts[a]]
                /\ accts[a] # NoRow /\ UNCHANGED <<accts, conns, wish>>
  BY <1>7 DEF BeginEdit, TypeInv
<1>8. ASSUME NEW f \in Editors,
             SetAccountKind(f) \/ ToggleCountsAsSavings(f) \/ RefuseSavings(f)
               \/ SetAccountState(f)
      PROVE  edit'[e] = edit[e]
  <2>1. edit' = [edit EXCEPT ![f] = NoEdit]
    BY <1>8 DEF SetAccountKind, ToggleCountsAsSavings, RefuseSavings, SetAccountState,
                WriteBack
  <2> QED
    BY <2>1 DEF TypeInv
<1>9. CASE Next
  BY <1>9, <1>2, <1>3, <1>4, <1>5, <1>6, <1>7, <1>8 DEF Next, EditStep
<1> QED
  BY <1>1, <1>9

\* The record of what was decided has an entry for each account.
WishShape == wish = [a \in Accts |-> wish[a]]

LEMMA WishStep == TypeInv /\ WishShape /\ [Next]_vars => WishShape'
<1> SUFFICES ASSUME TypeInv, WishShape, [Next]_vars PROVE WishShape'
  OBVIOUS
<1> USE DEF bankVars, userVars
<1>1. CASE UNCHANGED vars
  BY <1>1 DEF vars, WishShape
<1>2. ASSUME UNCHANGED wish PROVE WishShape'
  BY <1>2 DEF WishShape
<1>3. ASSUME wish' = Decided(accts, accts') PROVE WishShape'
  BY <1>3 DEF WishShape, Decided
<1>4. ASSUME NEW a, NEW choice, wish' = [wish EXCEPT ![a] = choice] PROVE WishShape'
  BY <1>4 DEF WishShape
<1>5. ASSUME NEW a \in Accts, BankMoves(a) PROVE UNCHANGED wish
  BY <1>5 DEF BankMoves
<1>6. ASSUME NEW c \in Conns,
             LoginChanges(c) \/ DisconnectAtProvider(c) \/ DisconnectInStore(c)
               \/ AbandonDisconnect(c)
      PROVE  UNCHANGED wish
  BY <1>6 DEF LoginChanges, DisconnectAtProvider, DisconnectInStore, AbandonDisconnect
<1>7. ASSUME NEW c \in Conns, RegisterConnection(c) PROVE WishShape'
  BY <1>3, <1>7 DEF RegisterConnection
<1>8. ASSUME DayPasses \/ ListForPage \/ ShowPage \/ LeavePage PROVE UNCHANGED wish
  BY <1>8 DEF DayPasses, ListForPage, ShowPage, LeavePage
<1>9. ASSUME NEW p \in Passes,
             \/ StartPass(p) \/ Visit(p) \/ Fetch(p) \/ Flag(p) \/ ReadStatements(p)
             \/ WriteStatement(p) \/ FailVisit(p) \/ \E c \in Conns : StartReconnect(p, c)
      PROVE  UNCHANGED wish
  BY <1>9 DEF StartPass, Visit, Fetch, Flag, ReadStatements, WriteStatement, FailVisit,
              StartReconnect
<1>10. ASSUME NEW p \in Passes, Refresh(p) PROVE WishShape'
  BY <1>3, <1>10 DEF Refresh
<1>11. ASSUME EditStep PROVE WishShape'
  <2>1. ASSUME NEW e \in Editors,
               SetAccountKind(e) \/ ToggleCountsAsSavings(e) \/ SetAccountState(e)
        PROVE  WishShape'
    BY <1>2, <1>4, <2>1 DEF SetAccountKind, ToggleCountsAsSavings, SetAccountState, WriteBack
  <2>2. ASSUME NEW e \in Editors, NEW a \in Accts, BeginEdit(e, a)
        PROVE  UNCHANGED wish
    BY <2>2 DEF BeginEdit
  <2>3. ASSUME NEW e \in Editors, RefuseSavings(e) PROVE UNCHANGED wish
    BY <2>3 DEF RefuseSavings
  <2>4. ASSUME NEW a \in Accts, SetAccountName(a) PROVE WishShape'
    <3>1. PICK name \in Names \cup {Null} : wish' = [wish EXCEPT ![a].custom = name]
      BY <2>4 DEF SetAccountName
    <3> QED
      BY <3>1 DEF WishShape
  <2>5. ASSUME NEW a \in Accts, SetPaymentSchedule(a) PROVE WishShape'
    <3>1. \E sched : wish' = [wish EXCEPT ![a].sched = sched]
      BY <2>5 DEF SetPaymentSchedule
    <3> QED
      BY <3>1 DEF WishShape
  <2> QED
    BY <1>2, <1>11, <2>1, <2>2, <2>3, <2>4, <2>5 DEF EditStep
<1>12. CASE Next
  BY <1>12, <1>2, <1>5, <1>6, <1>7, <1>8, <1>9, <1>10, <1>11 DEF Next, PassStep
<1> QED
  BY <1>1, <1>12

\* What an account's row may become, and what was decided about it.
SameRow(row, new) ==
  /\ row.id = new.id /\ row.conn = new.conn
  /\ row.kind = new.kind /\ row.savings = new.savings /\ row.state = new.state

Untouched(a) ==
  \/ accts[a] = NoRow /\ accts'[a] = NoRow
  \/ /\ accts[a] # NoRow /\ accts'[a] # NoRow /\ SameRow(accts[a], accts'[a])
     /\ Choice(accts[a]) = wish[a] => Choice(accts'[a]) = wish'[a]

Removed(a) ==
  /\ accts[a] # NoRow /\ accts'[a] = NoRow /\ accts[a].conn \in Conns
  /\ DisconnectInStore(accts[a].conn)

Inserted(a, c, offer) ==
  /\ accts'[a] = NewRow(c, offer) /\ accts'[a] # NoRow
  /\ accts[a] # NoRow => accts[a].conn # c \/ conns[c] = "unlinked"
  /\ accts[a] = NoRow => wish'[a] = Choice(accts'[a])
  /\ \/ RegisterConnection(c) /\ offer = Offered(c)[a] /\ a \in DOMAIN Offered(c)
     \/ \E p \in Passes : /\ job[p].pc = "refresh" /\ job[p].conn = c
                          /\ a \in DOMAIN job[p].heard /\ offer = job[p].heard[a]

Harmless(row) == ~(row.kind = "credit" /\ row.savings)

Edited(a, e) ==
  /\ edit[e] # NoEdit /\ edit[e].acct = a /\ Stands(a, edit[e].row.id)
  /\ accts'[a] # NoRow /\ accts'[a].id = accts[a].id /\ accts'[a].conn = accts[a].conn
  /\ edit' = [edit EXCEPT ![e] = NoEdit]
  /\ Harmless(edit[e].row) => Harmless(accts'[a])
  /\ SameRow([edit[e].row EXCEPT !.conn = accts[a].conn], accts[a])
       /\ Choice(accts[a]) = wish[a]
       => Choice(accts'[a]) = wish'[a]

AccountGoes(a) ==
  \/ Untouched(a) \/ Removed(a)
  \/ \E c \in Conns, offer \in Offer : Inserted(a, c, offer)
  \/ \E e \in Editors : Edited(a, e)

\* The rows that a connection's first listing, or a visit's, leaves.
LEMMA ListingStep ==
  ASSUME TypeInv, WishShape, NEW a \in Accts,
         \/ \E c \in Conns : RegisterConnection(c)
         \/ \E p \in Passes : Refresh(p)
  PROVE  AccountGoes(a)
<1>1. accts \in [Accts -> Rows \cup {NoRow}]
  BY DEF TypeInv, TypeOK
<1>2. ASSUME NEW c \in Conns, RegisterConnection(c) PROVE AccountGoes(a)
  <2>1. Offered(c) \in Heard
    BY OfferedType
  <2>2. accts' = [b \in Accts |-> IF b \in DOMAIN Offered(c) THEN NewRow(c, Offered(c)[b])
                                                             ELSE accts[b]]
    BY <1>2, <2>1, SeededRows DEF RegisterConnection
  <2>3. wish'[a] = IF accts[a] = NoRow /\ accts'[a] # NoRow THEN Choice(accts'[a]) ELSE wish[a]
    BY <1>2 DEF RegisterConnection, Decided
  <2>4. CASE a \in DOMAIN Offered(c)
    <3>1. Offered(c)[a] \in Offer
      BY <2>1, <2>4 DEF Heard
    <3>2. NewRow(c, Offered(c)[a]) \in Rows
      BY <3>1, NewRowType
    <3>3. Inserted(a, c, Offered(c)[a])
      BY <1>2, <2>2, <2>3, <2>4, <3>2, RowStored DEF Inserted, RegisterConnection
    <3> QED
      BY <3>1, <3>3 DEF AccountGoes
  <2>5. CASE a \notin DOMAIN Offered(c)
    BY <2>2, <2>3, <2>5 DEF AccountGoes, Untouched, SameRow
  <2> QED
    BY <2>4, <2>5
<1>3. ASSUME NEW p \in Passes, Refresh(p) PROVE AccountGoes(a)
  <2> DEFINE c == job[p].conn
             offers == job[p].heard
  <2>1. c \in Conns /\ offers \in Heard /\ job[p].pc = "refresh"
    BY <1>3 DEF Refresh, TypeInv, Idle, Visits
  <2>2. wish'[a] = IF accts[a] = NoRow /\ accts'[a] # NoRow THEN Choice(accts'[a]) ELSE wish[a]
    BY <1>3 DEF Refresh, Decided
  <2>3. accts' = accts \/ accts' = Refreshed(c, offers)
    BY <1>3 DEF Refresh
  <2> HIDE DEF c, offers
  <2>4. CASE accts'[a] = accts[a]
    BY <2>2, <2>4 DEF AccountGoes, Untouched, SameRow
  <2>5. CASE accts' = Refreshed(c, offers) /\ a \in DOMAIN offers
    <3>1. accts'[a] = IF accts[a] # NoRow /\ accts[a].conn = c
                      THEN [accts[a] EXCEPT !.balance = offers[a].balance, !.synced = today]
                      ELSE NewRow(c, offers[a])
      BY <2>1, <2>5, RefreshedRows
    <3>2. CASE accts[a] # NoRow /\ accts[a].conn = c
      <4>1. PICK row \in Rows : row = accts[a]
        BY <1>1, <3>2
      <4>2. offers[a] \in Offer
        BY <2>1, <2>5 DEF Heard
      <4>3. accts'[a] = [row EXCEPT !.balance = offers[a].balance, !.synced = today]
        BY <3>1, <3>2, <4>1
      <4>4. /\ SameRow(row, accts'[a]) /\ Choice(row) = Choice(accts'[a])
            /\ accts'[a].kind \in Kinds
        BY <4>3 DEF SameRow, Choice, Rows
      <4>5. accts'[a] # NoRow
        BY <4>4 DEF NoRow, Kinds
      <4> QED
        BY <2>2, <3>2, <4>1, <4>4, <4>5 DEF AccountGoes, Untouched
    <3>3. CASE ~(accts[a] # NoRow /\ accts[a].conn = c)
      <4>1. offers[a] \in Offer
        BY <2>1, <2>5 DEF Heard
      <4>2. NewRow(c, offers[a]) \in Rows
        BY <2>1, <4>1, NewRowType
      <4>3. Inserted(a, c, offers[a])
        BY <2>1, <2>2, <2>5, <3>1, <3>3, <4>2, RowStored DEF Inserted, c, offers
      <4> QED
        BY <2>1, <4>1, <4>3 DEF AccountGoes
    <3> QED
      BY <3>2, <3>3
  <2>6. CASE accts' = Refreshed(c, offers) /\ a \notin DOMAIN offers
    <3>1. accts'[a] = accts[a]
      BY <2>1, <2>6, RefreshedRows
    <3> QED
      BY <2>4, <3>1
  <2> QED
    BY <2>3, <2>4, <2>5, <2>6
<1> QED
  BY <1>2, <1>3

\* A choice with the kind, flag and state of one row, the name and schedule of another.
ChoiceOf(row, kept) ==
  [kind : {row.kind}, savings : {row.savings}, state : {row.state},
   custom : {kept.custom}, sched : {kept.sched}]

\* The rows an edit leaves: the request writes back what it read, with its change.
LEMMA WriteBackStep ==
  ASSUME TypeInv, WishShape, NEW a \in Accts, NEW e \in Editors,
         SetAccountKind(e) \/ ToggleCountsAsSavings(e) \/ SetAccountState(e)
  PROVE  AccountGoes(a)
<1>1. PICK r \in Rows : edit[e] = [acct |-> edit[e].acct, row |-> r] /\ edit[e] # NoEdit
  BY DEF SetAccountKind, ToggleCountsAsSavings, SetAccountState, TypeInv
<1>2. edit[e].row = r
  BY <1>1
<1>3. ASSUME NEW row \in Rows, NEW choice, WriteBack(e, row, choice), row.id = r.id,
             Harmless(r) => Harmless(row),
             ASSUME r.kind = accts[a].kind, r.savings = accts[a].savings,
                    r.state = accts[a].state, accts[a] \in Rows,
                    Choice(accts[a]) = wish[a], edit[e].acct = a
             PROVE  choice \in ChoiceOf(row, accts[a])
      PROVE  AccountGoes(a)
  <2>1. accts \in [Accts -> Rows \cup {NoRow}]
    BY DEF TypeInv, TypeOK
  <2>2. CASE ~(edit[e].acct = a /\ Stands(a, row.id))
    <3>1. accts'[a] = accts[a] /\ wish'[a] = wish[a]
      BY <1>3, <2>1, <2>2 DEF WriteBack, UpdateAccount, WishShape
    <3> QED
      BY <3>1 DEF AccountGoes, Untouched, SameRow
  <2>3. CASE edit[e].acct = a /\ Stands(a, row.id)
    <3>1. PICK old \in Rows : old = accts[a]
      BY <2>1, <2>3 DEF Stands
    <3>2. accts'[a] = [old EXCEPT !.kind = row.kind, !.savings = row.savings,
                         !.balance = row.balance, !.state = row.state, !.synced = row.synced]
      BY <1>1, <1>3, <2>1, <2>3, <3>1 DEF WriteBack, UpdateAccount
    <3>3. /\ accts'[a].id = old.id /\ accts'[a].conn = old.conn
          /\ accts'[a].kind = row.kind /\ accts'[a].savings = row.savings
          /\ accts'[a].state = row.state /\ accts'[a].custom = old.custom
          /\ accts'[a].sched = old.sched
      BY <3>2 DEF Rows
    <3>4. accts'[a] # NoRow
      BY <3>3 DEF NoRow, Rows, Kinds
    <3>5. wish'[a] = choice /\ edit' = [edit EXCEPT ![e] = NoEdit]
      BY <1>1, <1>3, <2>3 DEF WriteBack, WishShape
    <3>6. ASSUME SameRow([r EXCEPT !.conn = old.conn], old), Choice(old) = wish[a]
          PROVE  Choice(accts'[a]) = wish'[a]
      <4>1. r.kind = old.kind /\ r.savings = old.savings /\ r.state = old.state
        BY <3>6 DEF SameRow, Rows
      <4>2. choice \in ChoiceOf(row, old)
        BY <1>3, <2>3, <3>1, <3>6, <4>1
      <4>3. \A x \in ChoiceOf(row, old) : x = Choice(accts'[a])
        BY <3>3 DEF Choice, ChoiceOf
      <4> QED
        BY <3>5, <4>2, <4>3
    <3>7. Harmless(r) => Harmless(accts'[a])
      BY <1>3, <3>3 DEF Harmless
    <3>8. Edited(a, e)
      BY <1>1, <1>2, <1>3, <2>3, <3>1, <3>3, <3>4, <3>5, <3>6, <3>7 DEF Edited
    <3> QED
      BY <3>8 DEF AccountGoes
  <2> QED
    BY <2>2, <2>3
<1>4. CASE SetAccountKind(e)
  <2>1. PICK kind \in Kinds :
          WriteBack(e, [edit[e].row EXCEPT !.kind = kind,
                          !.savings = IF kind = "credit" THEN FALSE ELSE edit[e].row.savings],
                    [wish[edit[e].acct] EXCEPT !.kind = kind,
                       !.savings = IF kind = "credit" THEN FALSE
                                   ELSE wish[edit[e].acct].savings])
    BY <1>4 DEF SetAccountKind
  <2> DEFINE row == [r EXCEPT !.kind = kind,
                              !.savings = IF kind = "credit" THEN FALSE ELSE r.savings]
             choice == [wish[edit[e].acct] EXCEPT !.kind = kind,
                          !.savings = IF kind = "credit" THEN FALSE
                                      ELSE wish[edit[e].acct].savings]
  <2>2. /\ row \in Rows /\ row.id = r.id /\ row.kind = kind /\ row.state = r.state
        /\ row.savings = IF kind = "credit" THEN FALSE ELSE r.savings
    BY DEF Rows
  <2>3. Harmless(r) => Harmless(row)
    BY <2>2 DEF Harmless
  <2>4. ASSUME r.kind = accts[a].kind, r.savings = accts[a].savings,
               r.state = accts[a].state, accts[a] \in Rows,
               Choice(accts[a]) = wish[a], edit[e].acct = a
        PROVE  choice \in ChoiceOf(row, accts[a])
    <3>1. wish[edit[e].acct] \in ChoiceOf(r, accts[a])
      BY <2>4 DEF Choice, ChoiceOf
    <3>2. (IF kind = "credit" THEN FALSE ELSE wish[edit[e].acct].savings) = row.savings
      BY <2>2, <3>1 DEF ChoiceOf
    <3>3. choice = [wish[edit[e].acct] EXCEPT !.kind = kind, !.savings = row.savings]
      BY <3>2
    <3>4. row.kind = kind /\ row.state = r.state
      BY <2>2
    <3> HIDE DEF row, choice
    <3> QED
      BY <3>1, <3>3, <3>4 DEF ChoiceOf
  <2>5. WriteBack(e, row, choice)
    BY <1>2, <2>1
  <2> HIDE DEF row, choice
  <2> QED
    BY <1>3, <2>2, <2>3, <2>4, <2>5
<1>5. CASE ToggleCountsAsSavings(e)
  <2> DEFINE row == [r EXCEPT !.savings = ~r.savings]
             choice == [wish[edit[e].acct] EXCEPT !.savings = row.savings]
  <2>1. r.kind # "credit" /\ WriteBack(e, row, choice)
    BY <1>2, <1>5 DEF ToggleCountsAsSavings, Rows
  <2>2. /\ row \in Rows /\ row.id = r.id /\ row.kind = r.kind /\ row.state = r.state
    BY DEF Rows
  <2>3. Harmless(r) => Harmless(row)
    BY <2>1, <2>2 DEF Harmless
  <2>4. ASSUME r.kind = accts[a].kind, r.savings = accts[a].savings,
               r.state = accts[a].state, accts[a] \in Rows,
               Choice(accts[a]) = wish[a], edit[e].acct = a
        PROVE  choice \in ChoiceOf(row, accts[a])
    <3>1. wish[edit[e].acct] \in ChoiceOf(r, accts[a])
      BY <2>4 DEF Choice, ChoiceOf
    <3> QED
      BY <2>2, <2>4, <3>1 DEF ChoiceOf
  <2> HIDE DEF row, choice
  <2> QED
    BY <1>3, <2>1, <2>2, <2>3, <2>4
<1>6. CASE SetAccountState(e)
  <2>1. PICK state \in {"active", "hidden"} :
          WriteBack(e, [edit[e].row EXCEPT !.state = state],
                    [wish[edit[e].acct] EXCEPT !.state = state])
    BY <1>6 DEF SetAccountState
  <2> DEFINE row == [r EXCEPT !.state = state]
             choice == [wish[edit[e].acct] EXCEPT !.state = state]
  <2>2. /\ row \in Rows /\ row.id = r.id /\ row.kind = r.kind /\ row.state = state
        /\ row.savings = r.savings
    BY DEF Rows
  <2>3. Harmless(r) => Harmless(row)
    BY <2>2 DEF Harmless
  <2>4. ASSUME r.kind = accts[a].kind, r.savings = accts[a].savings,
               r.state = accts[a].state, accts[a] \in Rows,
               Choice(accts[a]) = wish[a], edit[e].acct = a
        PROVE  choice \in ChoiceOf(row, accts[a])
    <3>1. wish[edit[e].acct] \in ChoiceOf(r, accts[a])
      BY <2>4 DEF Choice, ChoiceOf
    <3> QED
      BY <2>2, <2>4, <3>1 DEF ChoiceOf
  <2>5. WriteBack(e, row, choice)
    BY <1>2, <2>1
  <2> HIDE DEF row, choice
  <2> QED
    BY <1>3, <2>2, <2>3, <2>4, <2>5
<1> QED
  BY <1>4, <1>5, <1>6


\* Whatever the step, an account's row stands with what was decided about it, or is
\* removed with its connection, or is inserted, or written back by a request.
LEMMA AccountStep ==
  ASSUME TypeInv, WishShape, [Next]_vars, NEW a \in Accts
  PROVE  AccountGoes(a)
<1> USE DEF bankVars, userVars
<1>1. accts \in [Accts -> Rows \cup {NoRow}]
  BY DEF TypeInv, TypeOK
<1>2. ASSUME accts'[a] = accts[a], wish'[a] = wish[a] PROVE AccountGoes(a)
  BY <1>2 DEF AccountGoes, Untouched, SameRow
<1>3. CASE UNCHANGED vars
  BY <1>2, <1>3 DEF vars
<1>4. ASSUME NEW b \in Accts, BankMoves(b) PROVE AccountGoes(a)
  BY <1>2, <1>4 DEF BankMoves
<1>5. ASSUME NEW c \in Conns,
             LoginChanges(c) \/ DisconnectAtProvider(c) \/ AbandonDisconnect(c)
      PROVE  AccountGoes(a)
  BY <1>2, <1>5 DEF LoginChanges, DisconnectAtProvider, AbandonDisconnect
<1>6. ASSUME NEW c \in Conns, DisconnectInStore(c) PROVE AccountGoes(a)
  <2>1. /\ accts'[a] = IF accts[a] # NoRow /\ accts[a].conn = c THEN NoRow ELSE accts[a]
        /\ wish' = wish
    BY <1>1, <1>6 DEF DisconnectInStore, DeleteAccountsByConnection,
                      ListAccountsByConnection, Stored
  <2>2. CASE accts[a] # NoRow /\ accts[a].conn = c
    BY <1>6, <2>1, <2>2 DEF AccountGoes, Removed
  <2>3. CASE ~(accts[a] # NoRow /\ accts[a].conn = c)
    BY <1>2, <2>1, <2>3
  <2> QED
    BY <2>2, <2>3
<1>7. CASE DayPasses \/ ListForPage \/ ShowPage \/ LeavePage
  BY <1>2, <1>7 DEF DayPasses, ListForPage, ShowPage, LeavePage
<1>8. ASSUME NEW p \in Passes,
             \/ StartPass(p) \/ Visit(p) \/ Fetch(p) \/ Flag(p) \/ ReadStatements(p)
             \/ FailVisit(p) \/ \E c \in Conns : StartReconnect(p, c)
      PROVE  AccountGoes(a)
  BY <1>2, <1>8 DEF StartPass, Visit, Fetch, Flag, ReadStatements, FailVisit, StartReconnect
<1>9. ASSUME NEW p \in Passes, WriteStatement(p) PROVE AccountGoes(a)
  <2>1. PICK w \in job[p].todo :
          accts' = IF ~Stands(w.acct, w.id) THEN accts
                   ELSE IF w.op = "gap"
                   THEN UpdateAccountStatementsUnavailable(accts, w.acct, w.value)
                   ELSE SetAccountStatement(accts, w.acct, w.value)
    BY <1>9 DEF WriteStatement
  <2>2. wish' = wish
    BY <1>9 DEF WriteStatement
  <2>3. CASE accts'[a] = accts[a]
    BY <1>2, <2>2, <2>3
  <2>4. CASE accts'[a] # accts[a]
    <3>1. accts[a] # NoRow
      BY <1>1, <2>1, <2>4 DEF Stands, UpdateAccountStatementsUnavailable,
                              SetAccountStatement, UpdateAccountStatement
    <3>2. PICK row \in Rows : row = accts[a]
      BY <1>1, <3>1
    <3>3. \/ \E gap : accts'[a] = [row EXCEPT !.gap = gap]
          \/ \E cycle : accts'[a] = [row EXCEPT !.cycle = cycle]
      BY <1>1, <2>1, <2>4, <3>2 DEF UpdateAccountStatementsUnavailable,
                                    SetAccountStatement, UpdateAccountStatement
    <3>4. /\ SameRow(row, accts'[a]) /\ Choice(accts'[a]) = Choice(row)
          /\ accts'[a].kind \in Kinds
      BY <3>3 DEF SameRow, Choice, Rows
    <3>5. accts'[a] # NoRow
      BY <3>4 DEF NoRow, Kinds
    <3> QED
      BY <2>2, <3>1, <3>2, <3>4, <3>5 DEF AccountGoes, Untouched
  <2> QED
    BY <2>3, <2>4
<1>10. ASSUME NEW e \in Editors, NEW b \in Accts, BeginEdit(e, b) PROVE AccountGoes(a)
  BY <1>2, <1>10 DEF BeginEdit
<1>11. ASSUME NEW e \in Editors, RefuseSavings(e) PROVE AccountGoes(a)
  BY <1>2, <1>11 DEF RefuseSavings
<1>12. ASSUME NEW b \in Accts, SetAccountName(b) PROVE AccountGoes(a)
  <2>1. PICK name \in Names \cup {Null} :
          /\ accts' = [accts EXCEPT ![b].custom = name] /\ accts[b] # NoRow
          /\ wish' = [wish EXCEPT ![b].custom = name]
    BY <1>12 DEF SetAccountName, UpdateAccountCustomName
  <2>2. CASE b # a
    BY <1>1, <1>2, <2>1, <2>2 DEF WishShape
  <2>3. CASE b = a
    <3>1. PICK row \in Rows : row = accts[a]
      BY <1>1, <2>1, <2>3
    <3>2. /\ accts'[a] = [row EXCEPT !.custom = name]
          /\ wish'[a] = [wish[a] EXCEPT !.custom = name]
      BY <1>1, <2>1, <2>3, <3>1 DEF WishShape
    <3>3. SameRow(row, accts'[a]) /\ accts'[a].kind \in Kinds
      BY <3>2 DEF SameRow, Rows
    <3>4. Choice(accts'[a]) = [Choice(row) EXCEPT !.custom = name]
      BY <3>2 DEF Choice, Rows
    <3>5. accts'[a] # NoRow
      BY <3>3 DEF NoRow, Kinds
    <3> QED
      BY <2>1, <2>3, <3>1, <3>2, <3>3, <3>4, <3>5 DEF AccountGoes, Untouched
  <2> QED
    BY <2>2, <2>3
<1>13. ASSUME NEW b \in Accts, SetPaymentSchedule(b) PROVE AccountGoes(a)
  <2>1. accts[b] # NoRow /\ \E sched : /\ accts' = [accts EXCEPT ![b].sched = sched]
                                       /\ wish' = [wish EXCEPT ![b].sched = sched]
    BY <1>13 DEF SetPaymentSchedule, UpdateAccountPaymentSchedule
  <2>2. PICK sched : /\ accts' = [accts EXCEPT ![b].sched = sched]
                     /\ wish' = [wish EXCEPT ![b].sched = sched]
    BY <2>1
  <2>3. CASE b # a
    BY <1>1, <1>2, <2>2, <2>3 DEF WishShape
  <2>4. CASE b = a
    <3>1. PICK row \in Rows : row = accts[a]
      BY <1>1, <2>1, <2>4
    <3>2. /\ accts'[a] = [row EXCEPT !.sched = sched]
          /\ wish'[a] = [wish[a] EXCEPT !.sched = sched]
      BY <1>1, <2>2, <2>4, <3>1 DEF WishShape
    <3>3. SameRow(row, accts'[a]) /\ accts'[a].kind \in Kinds
      BY <3>2 DEF SameRow, Rows
    <3>4. Choice(accts'[a]) = [Choice(row) EXCEPT !.sched = sched]
      BY <3>2 DEF Choice, Rows
    <3>5. accts'[a] # NoRow
      BY <3>3 DEF NoRow, Kinds
    <3> QED
      BY <2>1, <2>4, <3>1, <3>2, <3>3, <3>4, <3>5 DEF AccountGoes, Untouched
  <2> QED
    BY <2>3, <2>4
<1>14. CASE Next
  BY <1>14, <1>4, <1>5, <1>6, <1>7, <1>8, <1>9, <1>10, <1>11, <1>12, <1>13, ListingStep,
     WriteBackStep
     DEF Next, PassStep, EditStep
<1> QED
  BY <1>3, <1>14

-----------------------------------------------------------------------------
(* A row has its connection, for any number of passes and requests. *)

\* A disconnect that commits while a pass visits, or has yet to visit, is remembered.
LEMMA OverlapStep ==
  ASSUME TypeInv, [Next]_vars, NEW c \in Conns
  PROVE  /\ overlapped \subseteq overlapped'
         /\ DisconnectInStore(c) =>
              /\ UNCHANGED <<job, edit, wish>>
              /\ \A p \in Passes :
                   job[p].pc # "idle" /\ (c \in job[p].left \/ job[p].conn = c)
                     => c \in overlapped'
              /\ \A a \in Accts : accts[a] # NoRow /\ accts[a].conn = c => accts'[a] = NoRow
<1> USE DEF bankVars, userVars
<1>1. overlapped' = overlapped \/ \E d \in Conns : overlapped' = overlapped \cup {d}
  <2>1. CASE UNCHANGED vars
    BY <2>1 DEF vars
  <2>2. ASSUME NEW a \in Accts, BankMoves(a) PROVE UNCHANGED overlapped
    BY <2>2 DEF BankMoves
  <2>3. ASSUME NEW d \in Conns,
               LoginChanges(d) \/ RegisterConnection(d) \/ DisconnectAtProvider(d)
                 \/ AbandonDisconnect(d)
        PROVE  UNCHANGED overlapped
    BY <2>3 DEF LoginChanges, RegisterConnection, DisconnectAtProvider, AbandonDisconnect
  <2>4. ASSUME NEW d \in Conns, DisconnectInStore(d)
        PROVE  overlapped' = overlapped \/ overlapped' = overlapped \cup {d}
    BY <2>4 DEF DisconnectInStore
  <2>5. ASSUME DayPasses \/ ListForPage \/ ShowPage \/ LeavePage PROVE UNCHANGED overlapped
    BY <2>5 DEF DayPasses, ListForPage, ShowPage, LeavePage
  <2>6. ASSUME NEW p \in Passes,
               \/ StartPass(p) \/ PassStep(p) \/ FailVisit(p)
               \/ \E d \in Conns : StartReconnect(p, d)
        PROVE  UNCHANGED overlapped
    BY <2>6 DEF StartPass, PassStep, FailVisit, StartReconnect, Visit, Fetch, Flag, Refresh,
                ReadStatements, WriteStatement
  <2>7. ASSUME EditStep PROVE UNCHANGED overlapped
    BY <2>7 DEF EditStep, SetAccountKind, ToggleCountsAsSavings, RefuseSavings,
                SetAccountState, BeginEdit, SetAccountName, SetPaymentSchedule, WriteBack
  <2>8. CASE Next
    BY <2>8, <2>2, <2>3, <2>4, <2>5, <2>6, <2>7 DEF Next
  <2> QED
    BY <2>1, <2>8
<1>2. ASSUME DisconnectInStore(c)
      PROVE  /\ UNCHANGED <<job, edit, wish>>
             /\ \A p \in Passes :
                  job[p].pc # "idle" /\ (c \in job[p].left \/ job[p].conn = c)
                    => c \in overlapped'
    BY <1>2 DEF DisconnectInStore, Visiting
<1>3. ASSUME DisconnectInStore(c), NEW a \in Accts, accts[a] # NoRow, accts[a].conn = c
      PROVE  accts'[a] = NoRow
  BY <1>3 DEF DisconnectInStore, DeleteAccountsByConnection, ListAccountsByConnection,
              Stored, TypeInv, TypeOK
<1> QED
  BY <1>1, <1>2, <1>3

LinkInv ==
  /\ GoneMeansGone
  /\ \A p \in Passes :
       /\ job[p].pc # "idle" => job[p].left \subseteq Linked \cup overlapped
       /\ job[p].pc \notin {"idle", "next"} => job[p].conn \in Linked \cup overlapped
  /\ severing \subseteq Linked

\* A row, and what a pass visits or has yet to visit, is of a connection there is, or of
\* one whose disconnect the pass met.
LEMMA LinkStep == TypeInv /\ WishShape /\ LinkInv /\ [Next]_vars => LinkInv'
<1> SUFFICES ASSUME TypeInv, WishShape, LinkInv, [Next]_vars PROVE LinkInv'
  OBVIOUS
<1>1. Linked \subseteq Conns
  BY DEF Linked, ListLinked, TypeInv, TypeOK
<1>2. ASSUME NEW c \in Conns, c \in Linked \cup overlapped, c \notin (Linked \cup overlapped)'
      PROVE  /\ DisconnectInStore(c) /\ UNCHANGED <<job, edit>>
             /\ \A p \in Passes : job[p].pc # "idle" => c \notin job[p].left /\ job[p].conn # c
  BY <1>2, ConnectionStep, OverlapStep
<1>3. ASSUME NEW c \in severing' PROVE c \in Linked'
  <2>1. c \in Conns
    BY <1>3, TypeStep DEF TypeInv
  <2>2. c \in Linked
    BY <1>3, <2>1, ConnectionStep DEF LinkInv
  <2> QED
    BY <1>3, <2>1, <2>2, ConnectionStep
<1>4. ASSUME NEW p \in Passes, job'[p].pc # "idle", NEW c \in job'[p].left
      PROVE  c \in (Linked \cup overlapped)'
  <2>1. c \in Linked \/ (job[p].pc # "idle" /\ c \in job[p].left)
    BY <1>4, JobStep DEF Onward
  <2>2. c \in Linked \cup overlapped
    BY <2>1 DEF LinkInv
  <2>3. c \in Conns
    BY <1>1, <2>1 DEF TypeInv, Idle, Visits
  <2> QED
    BY <1>2, <1>4, <2>2, <2>3
<1>5. ASSUME NEW p \in Passes, job'[p].pc \notin {"idle", "next"}
      PROVE  job'[p].conn \in (Linked \cup overlapped)'
  <2> DEFINE c == job'[p].conn
  <2>1. \/ c \in Linked
        \/ job[p].pc # "idle" /\ c \in job[p].left
        \/ job[p].pc \notin {"idle", "next"} /\ c = job[p].conn
    BY <1>5, JobStep DEF Onward
  <2>2. c \in Linked \cup overlapped
    BY <2>1 DEF LinkInv
  <2>3. c \in Conns
    BY <1>5, TypeStep DEF TypeInv
  <2> QED
    BY <1>2, <1>5, <2>2, <2>3
<1>6. ASSUME NEW a \in Accts, accts'[a] # NoRow
      PROVE  accts'[a].conn \in (Linked \cup overlapped)'
  <2>1. AccountGoes(a)
    BY AccountStep
  <2>2. CASE accts[a] # NoRow /\ accts'[a].conn = accts[a].conn
    <3>1. accts[a].conn \in Linked \cup overlapped /\ accts[a].conn \in Conns
      BY <2>2 DEF LinkInv, GoneMeansGone, Stored, TypeInv, TypeOK, Rows
    <3> QED
      BY <1>2, <1>6, <2>2, <3>1, OverlapStep
  <2>3. ASSUME NEW c \in Conns, NEW offer \in Offer, Inserted(a, c, offer)
        PROVE  accts'[a].conn \in (Linked \cup overlapped)'
    <3>1. accts'[a].conn = c
      BY <2>3 DEF Inserted, NewRow
    <3>2. CASE RegisterConnection(c)
      BY <3>1, <3>2 DEF RegisterConnection, CreateConnection, Linked, ListLinked, TypeInv,
                        TypeOK
    <3>3. ASSUME NEW p \in Passes, job[p].pc = "refresh", job[p].conn = c
          PROVE  c \in (Linked \cup overlapped)'
      BY <1>2, <3>3 DEF LinkInv
    <3> QED
      BY <2>3, <3>1, <3>2, <3>3 DEF Inserted
  <2>4. Untouched(a) \/ (\E e \in Editors : Edited(a, e)) =>
          accts[a] # NoRow /\ accts'[a].conn = accts[a].conn
    BY <1>6 DEF Untouched, SameRow, Edited, Stands
  <2> QED
    BY <1>6, <2>1, <2>2, <2>3, <2>4 DEF AccountGoes, Removed
<1>7. DOMAIN accts' = Accts
  BY TypeStep DEF TypeInv, TypeOK
<1> QED
  BY <1>3, <1>4, <1>5, <1>6, <1>7 DEF LinkInv, GoneMeansGone, Stored

LEMMA LinkInit == Init => LinkInv /\ WishShape
BY DEF Init, LinkInv, GoneMeansGone, Stored, Idle, WishShape

-----------------------------------------------------------------------------
(* A card is never savings, for any number of passes and requests. *)

CardsInv ==
  /\ CreditNotSavings
  /\ \A e \in Editors : edit[e] # NoEdit => Harmless(edit[e].row)
  /\ \A p \in Passes : job[p].pc = "refresh" =>
       \A a \in DOMAIN job[p].heard : job[p].heard[a].savings => job[p].heard[a].kind = "cash"

\* A request writes back a kind and a flag that agree, for what it read agreed.
LEMMA CardsStep == TypeInv /\ WishShape /\ CardsInv /\ [Next]_vars => CardsInv'
<1> SUFFICES ASSUME TypeInv, WishShape, CardsInv, [Next]_vars PROVE CardsInv'
  OBVIOUS
<1>1. DOMAIN accts' = Accts /\ DOMAIN accts = Accts
  BY TypeStep DEF TypeInv, TypeOK
<1>2. ASSUME NEW a \in Accts, accts'[a] # NoRow PROVE Harmless(accts'[a])
  <2>1. CASE Untouched(a)
    BY <1>1, <1>2, <2>1 DEF Untouched, SameRow, CardsInv, CreditNotSavings, Stored, Harmless
  <2>2. ASSUME NEW e \in Editors, Edited(a, e) PROVE Harmless(accts'[a])
    BY <2>2 DEF Edited, CardsInv
  <2>3. ASSUME NEW c \in Conns, NEW offer \in Offer, Inserted(a, c, offer)
        PROVE  Harmless(accts'[a])
    <3>1. offer.savings => offer.kind = "cash"
      BY <2>3, OfferedType DEF Inserted, CardsInv
    <3> QED
      BY <2>3, <3>1 DEF Inserted, NewRow, Harmless
  <2> QED
    BY <1>2, <2>1, <2>2, <2>3, AccountStep DEF AccountGoes, Removed
<1>3. ASSUME NEW e \in Editors, edit'[e] # NoEdit PROVE Harmless(edit'[e].row)
  <2>1. CASE edit'[e] = edit[e]
    BY <1>3, <2>1 DEF CardsInv
  <2>2. ASSUME NEW a \in Accts, edit'[e] = [acct |-> a, row |-> accts[a]], accts[a] # NoRow
        PROVE  Harmless(edit'[e].row)
    BY <1>1, <2>2 DEF CardsInv, CreditNotSavings, Stored, Harmless
  <2> QED
    BY <1>3, <2>1, <2>2, EditHolds
<1>4. ASSUME NEW p \in Passes, job'[p].pc = "refresh", NEW a \in DOMAIN job'[p].heard
      PROVE  job'[p].heard[a].savings => job'[p].heard[a].kind = "cash"
  <2>1. CASE job[p].pc = "refresh" /\ job'[p].heard = job[p].heard
    BY <1>4, <2>1 DEF CardsInv
  <2>2. CASE job[p].pc = "fetch" /\ job'[p].heard = Offered(job[p].conn)
    BY <1>4, <2>2, OfferedType DEF TypeInv
  <2> QED
    BY <1>4, <2>1, <2>2, JobStep DEF Onward
<1> QED
  BY <1>1, <1>2, <1>3, <1>4 DEF CardsInv, CreditNotSavings, Stored, Harmless

LEMMA CardsInit == Init => CardsInv
BY DEF Init, CardsInv, CreditNotSavings, Stored, Idle

-----------------------------------------------------------------------------

\* No row outlives its connection but where a pass met the disconnect, however many
\* passes and requests run (accounts.Service.Disconnect, refreshConnection).
THEOREM GoneAlwaysGone == Spec => []GoneMeansGone
<1>1. LinkInv => GoneMeansGone
  BY DEF LinkInv
<1> QED
  BY InitType, TypeStep, LinkInit, LinkStep, WishStep, <1>1, PTL DEF Spec

\* A credit account never counts as savings, however many passes and requests run: each
\* write of kind and flag is of a pair that agrees (accounts.Service.SetAccountKind).
THEOREM CreditNeverSavings == Spec => []CreditNotSavings
<1>1. CardsInv => CreditNotSavings
  BY DEF CardsInv
<1> QED
  BY InitType, TypeStep, LinkInit, WishStep, CardsInit, CardsStep, <1>1, PTL DEF Spec

-----------------------------------------------------------------------------
(* What the user chose stands, while one request at a time edits. *)

OneEditor == \A e, f \in Editors : e = f

\* Whose row is whose: a row is its account's login's, a row created again is of a
\* connection that is gone, and a row that was read stands, or was deleted with its
\* connection and never comes back under its id.
OwnInv ==
  /\ \A a \in Stored(accts) :
       /\ accts[a].conn = ConnOf[a] /\ conns[ConnOf[a]] # "unlinked"
       /\ accts[a].id = 2 => conns[ConnOf[a]] = "gone"
  /\ \A p \in Passes :
       /\ job[p].pc # "idle" => \A c \in job[p].left : conns[c] # "unlinked"
       /\ job[p].pc \notin {"idle", "next"} => conns[job[p].conn] # "unlinked"
       /\ job[p].pc = "refresh" => \A a \in DOMAIN job[p].heard : ConnOf[a] = job[p].conn
  /\ \A e \in Editors : edit[e] # NoEdit =>
       \/ Stands(edit[e].acct, edit[e].row.id)
       \/ edit[e].row.id = 1 /\ conns[ConnOf[edit[e].acct]] = "gone"

\* Ids tell rows apart, for any number of passes and requests.
LEMMA OwnStep == TypeInv /\ WishShape /\ LinkInv /\ OwnInv /\ [Next]_vars => OwnInv'
<1> SUFFICES ASSUME TypeInv, WishShape, LinkInv, OwnInv, [Next]_vars PROVE OwnInv'
  OBVIOUS
<1>1. /\ DOMAIN accts' = Accts /\ DOMAIN accts = Accts
      /\ \A a \in Accts : ConnOf[a] \in Conns
      /\ Linked \subseteq Conns /\ \A c \in Linked : conns[c] # "unlinked" /\ conns[c] # "gone"
  BY TypeStep, RowsAssumption DEF TypeInv, TypeOK, Linked, ListLinked
<1>2. \A c \in Conns : /\ conns[c] # "unlinked" => conns'[c] # "unlinked"
                       /\ conns[c] = "gone" => conns'[c] = "gone"
  BY ConnectionStep
<1>3. ASSUME NEW a \in Accts, NEW c \in Conns, NEW offer \in Offer, Inserted(a, c, offer)
      PROVE  /\ c = ConnOf[a] /\ accts[a] = NoRow
             /\ accts'[a].conn = c /\ conns'[c] # "unlinked"
             /\ accts'[a].id = IF conns[c] = "gone" THEN 2 ELSE 1
  <2>1. accts'[a].conn = c /\ accts'[a].id = IF conns[c] = "gone" THEN 2 ELSE 1
    BY <1>3 DEF Inserted, NewRow, FreshId
  <2>2. c = ConnOf[a] /\ conns'[c] # "unlinked"
    <3>1. CASE RegisterConnection(c) /\ a \in DOMAIN Offered(c)
      BY <3>1, OfferedType DEF RegisterConnection, CreateConnection, TypeInv, TypeOK
    <3>2. ASSUME NEW p \in Passes, job[p].pc = "refresh", job[p].conn = c,
                 a \in DOMAIN job[p].heard
          PROVE  c = ConnOf[a] /\ conns'[c] # "unlinked"
      BY <1>2, <3>2 DEF OwnInv
    <3> QED
      BY <1>3, <3>1, <3>2 DEF Inserted
  <2>3. accts[a] = NoRow
    BY <1>1, <1>3, <2>2 DEF Inserted, OwnInv, Stored
  <2> QED
    BY <2>1, <2>2, <2>3
<1>4. ASSUME NEW a \in Accts, Removed(a)
      PROVE  accts[a].id = 1 /\ conns'[ConnOf[a]] = "gone"
  <2>1. accts[a].conn = ConnOf[a]
    BY <1>1, <1>4 DEF Removed, OwnInv, Stored
  <2>2. ConnOf[a] \in severing /\ conns' = [conns EXCEPT ![ConnOf[a]] = "gone"]
    BY <1>4, <2>1 DEF Removed, DisconnectInStore, DeleteConnection
  <2>3. conns[ConnOf[a]] # "gone" /\ conns'[ConnOf[a]] = "gone"
    BY <1>1, <2>2 DEF LinkInv, TypeInv, TypeOK
  <2>4. accts[a].id \in 1..2
    BY <1>4, RowStored DEF Removed, TypeInv, TypeOK
  <2> QED
    BY <1>1, <1>4, <2>3, <2>4 DEF Removed, OwnInv, Stored
<1>5. ASSUME NEW a \in Accts, accts'[a] # NoRow
      PROVE  /\ accts'[a].conn = ConnOf[a] /\ conns'[ConnOf[a]] # "unlinked"
             /\ accts'[a].id = 2 => conns'[ConnOf[a]] = "gone"
  <2>1. CASE Untouched(a) \/ \E e \in Editors : Edited(a, e)
    <3>1. accts[a] # NoRow /\ accts'[a].conn = accts[a].conn /\ accts'[a].id = accts[a].id
      BY <1>5, <2>1 DEF Untouched, SameRow, Edited, Stands
    <3> QED
      BY <1>1, <1>2, <3>1 DEF OwnInv, Stored
  <2>2. ASSUME NEW c \in Conns, NEW offer \in Offer, Inserted(a, c, offer)
        PROVE  /\ accts'[a].conn = ConnOf[a] /\ conns'[ConnOf[a]] # "unlinked"
               /\ accts'[a].id = 2 => conns'[ConnOf[a]] = "gone"
    BY <1>2, <1>3, <2>2
  <2> QED
    BY <1>5, <2>1, <2>2, AccountStep DEF AccountGoes, Removed
<1>6. ASSUME NEW p \in Passes, job'[p].pc # "idle", NEW c \in job'[p].left
      PROVE  conns'[c] # "unlinked"
  <2>1. c \in Linked \/ (job[p].pc # "idle" /\ c \in job[p].left)
    BY <1>6, JobStep DEF Onward
  <2>2. c \in Conns
    BY <1>1, <2>1 DEF TypeInv, Idle, Visits
  <2> QED
    BY <1>1, <1>2, <2>1, <2>2 DEF OwnInv
<1>7. ASSUME NEW p \in Passes, job'[p].pc \notin {"idle", "next"}
      PROVE  conns'[job'[p].conn] # "unlinked"
  <2> DEFINE c == job'[p].conn
  <2>1. \/ c \in Linked
        \/ job[p].pc # "idle" /\ c \in job[p].left
        \/ job[p].pc \notin {"idle", "next"} /\ c = job[p].conn
    BY <1>7, JobStep DEF Onward
  <2>2. c \in Conns
    BY <1>7, TypeStep DEF TypeInv
  <2> QED
    BY <1>1, <1>2, <2>1, <2>2 DEF OwnInv
<1>8. ASSUME NEW p \in Passes, job'[p].pc = "refresh", NEW a \in DOMAIN job'[p].heard
      PROVE  ConnOf[a] = job'[p].conn
  <2>1. CASE /\ job[p].pc = "refresh" /\ job'[p].heard = job[p].heard
             /\ job'[p].conn = job[p].conn
    BY <1>8, <2>1 DEF OwnInv
  <2>2. CASE /\ job[p].pc = "fetch" /\ job'[p].heard = Offered(job[p].conn)
             /\ job'[p].conn = job[p].conn
    BY <1>8, <2>2, OfferedType DEF TypeInv
  <2> QED
    BY <1>8, <2>1, <2>2, JobStep DEF Onward
<1>9. ASSUME NEW e \in Editors, edit'[e] # NoEdit
      PROVE  \/ Stands(edit[e].acct, edit[e].row.id)'
             \/ edit'[e].row.id = 1 /\ conns'[ConnOf[edit'[e].acct]] = "gone"
  <2>1. ASSUME NEW a \in Accts, edit'[e] = [acct |-> a, row |-> accts[a]],
               accts[a] # NoRow, UNCHANGED accts
        PROVE  Stands(edit[e].acct, edit[e].row.id)'
    BY <2>1 DEF Stands
  <2>2. CASE edit'[e] = edit[e]
    <3> DEFINE a == edit[e].acct
               id == edit[e].row.id
    <3>1. a \in Accts /\ edit[e] # NoEdit
      BY <1>9, <2>2 DEF TypeInv
    <3>2. CASE Stands(a, id)
      <4>1. accts[a] # NoRow /\ accts[a].id = id
        BY <3>2 DEF Stands
      <4>2. CASE Untouched(a) \/ \E f \in Editors : Edited(a, f)
        BY <2>2, <4>1, <4>2 DEF Untouched, SameRow, Edited, Stands
      <4>3. CASE Removed(a)
        BY <1>4, <2>2, <3>1, <4>1, <4>3
      <4>4. ASSUME NEW c \in Conns, NEW offer \in Offer PROVE ~Inserted(a, c, offer)
        BY <1>3, <3>1, <4>1
      <4> QED
        BY <3>1, <4>2, <4>3, <4>4, AccountStep DEF AccountGoes
    <3>3. CASE id = 1 /\ conns[ConnOf[a]] = "gone"
      BY <1>1, <1>2, <2>2, <3>1, <3>3
    <3> QED
      BY <3>1, <3>2, <3>3 DEF OwnInv
  <2> QED
    BY <1>9, <2>1, <2>2, EditHolds
<1> QED
  BY <1>1, <1>5, <1>6, <1>7, <1>8, <1>9 DEF OwnInv, Stored

\* What the request read of kind, flag and state is what a row that stands says.
ReadStands ==
  \A e \in Editors : edit[e] # NoEdit /\ Stands(edit[e].acct, edit[e].row.id) =>
    LET row == edit[e].row
        old == accts[edit[e].acct]
    IN  row.kind = old.kind /\ row.savings = old.savings /\ row.state = old.state

ChoiceInv == ChoicesStand /\ ReadStands

\* No sync reseeds a choice, and no other request's is overwritten.
LEMMA ChoiceStep ==
  ASSUME OneEditor
  PROVE  TypeInv /\ WishShape /\ LinkInv /\ OwnInv /\ ChoiceInv /\ [Next]_vars => ChoiceInv'
<1> SUFFICES ASSUME TypeInv, WishShape, LinkInv, OwnInv, ChoiceInv, [Next]_vars
             PROVE  ChoiceInv'
  OBVIOUS
<1>1. /\ DOMAIN accts' = Accts /\ DOMAIN accts = Accts
      /\ \A a \in Accts : ConnOf[a] \in Conns
  BY TypeStep, RowsAssumption DEF TypeInv, TypeOK
<1>2. ASSUME NEW a \in Accts, NEW c \in Conns, NEW offer \in Offer, Inserted(a, c, offer)
      PROVE  c = ConnOf[a] /\ accts[a] = NoRow
  <2>1. c = ConnOf[a]
    BY <1>2, OfferedType DEF Inserted, OwnInv
  <2> QED
    BY <1>1, <1>2, <2>1 DEF Inserted, OwnInv, Stored
<1>3. ASSUME NEW a \in Accts, accts'[a] # NoRow PROVE Choice(accts'[a]) = wish'[a]
  <2>1. CASE Untouched(a)
    BY <1>1, <1>3, <2>1 DEF Untouched, ChoiceInv, ChoicesStand, Stored
  <2>2. ASSUME NEW e \in Editors, Edited(a, e) PROVE Choice(accts'[a]) = wish'[a]
    <3>1. accts[a] # NoRow /\ accts[a].id = edit[e].row.id
      BY <2>2 DEF Edited, Stands
    <3>2. Choice(accts[a]) = wish[a]
      BY <1>1, <3>1 DEF ChoiceInv, ChoicesStand, Stored
    <3>3. PICK row \in Rows : row = edit[e].row
      BY <2>2 DEF Edited, TypeInv
    <3>4. SameRow([row EXCEPT !.conn = accts[a].conn], accts[a])
      BY <2>2, <3>1, <3>3 DEF Edited, ChoiceInv, ReadStands, SameRow, Rows
    <3> QED
      BY <2>2, <3>2, <3>3, <3>4 DEF Edited
  <2>3. ASSUME NEW c \in Conns, NEW offer \in Offer, Inserted(a, c, offer)
        PROVE  Choice(accts'[a]) = wish'[a]
    BY <1>2, <2>3 DEF Inserted
  <2> QED
    BY <1>3, <2>1, <2>2, <2>3, AccountStep DEF AccountGoes, Removed
<1>4. ASSUME NEW e \in Editors, edit'[e] # NoEdit, Stands(edit[e].acct, edit[e].row.id)'
      PROVE  LET row == edit'[e].row
                 new == accts'[edit'[e].acct]
             IN  row.kind = new.kind /\ row.savings = new.savings /\ row.state = new.state
  <2>1. ASSUME NEW a \in Accts, edit'[e] = [acct |-> a, row |-> accts[a]], UNCHANGED accts
        PROVE  LET row == edit'[e].row
                   new == accts'[edit'[e].acct]
               IN  row.kind = new.kind /\ row.savings = new.savings /\ row.state = new.state
    BY <2>1
  <2>2. CASE edit'[e] = edit[e]
    <3> DEFINE a == edit[e].acct
               id == edit[e].row.id
    <3>1. a \in Accts /\ edit[e] # NoEdit /\ accts'[a] # NoRow /\ accts'[a].id = id
      BY <1>4, <2>2 DEF TypeInv, Stands
    <3>2. \A f \in Editors : ~Edited(a, f)
      <4>1. ASSUME NEW f \in Editors, Edited(a, f) PROVE FALSE
        <5>1. edit'[f] = NoEdit
          BY <4>1 DEF Edited, TypeInv
        <5> QED
          BY <1>4, <5>1 DEF OneEditor
      <4> QED
        BY <4>1
    <3>3. ASSUME NEW c \in Conns, NEW offer \in Offer, Inserted(a, c, offer) PROVE FALSE
      <4>1. c = ConnOf[a] /\ accts[a] = NoRow
        BY <1>2, <3>1, <3>3
      <4>2. id = 1 /\ conns[ConnOf[a]] = "gone"
        BY <3>1, <4>1 DEF OwnInv, Stands
      <4> QED
        BY <3>1, <3>3, <4>1, <4>2 DEF Inserted, NewRow, FreshId
    <3>4. Untouched(a)
      BY <3>1, <3>2, <3>3, AccountStep DEF AccountGoes, Removed
    <3>5. Stands(a, id) /\ SameRow(accts[a], accts'[a])
      BY <3>1, <3>4 DEF Untouched, SameRow, Stands
    <3> QED
      BY <2>2, <3>1, <3>5 DEF ChoiceInv, ReadStands, SameRow
  <2> QED
    BY <1>4, <2>1, <2>2, EditHolds
<1> QED
  BY <1>1, <1>3, <1>4 DEF ChoiceInv, ChoicesStand, ReadStands, Stored

LEMMA ChoiceInit == Init => OwnInv /\ ChoiceInv
BY DEF Init, OwnInv, ChoiceInv, ChoicesStand, ReadStands, Stored, Idle

\* What the user last decided about an account is what its row says, syncs, disconnects
\* and reconnects notwithstanding (accounts.Service.refreshConnection writes balances
\* only, SetAccountKind and its like what they read).
THEOREM ChoicesAlwaysStand ==
  ASSUME OneEditor
  PROVE  Spec => []ChoicesStand
<1>1. ChoiceInv => ChoicesStand
  BY DEF ChoiceInv
<1>2. Init => TypeInv /\ WishShape /\ LinkInv /\ OwnInv /\ ChoiceInv
  BY InitType, LinkInit, ChoiceInit
<1>3. /\ TypeInv /\ WishShape /\ LinkInv /\ OwnInv /\ ChoiceInv /\ [Next]_vars
      => (TypeInv /\ WishShape /\ LinkInv /\ OwnInv /\ ChoiceInv)'
  BY TypeStep, WishStep, LinkStep, OwnStep, ChoiceStep
<1> QED
  BY <1>1, <1>2, <1>3, PTL DEF Spec
-----------------------------------------------------------------------------
(* The page.                                                                *)

Tables == [Accts -> Rows \cup {NoRow}]

GroupTotal(group) ==
  SumFunction([a \in DOMAIN group |-> IF group[a].balance = Null THEN 0 ELSE group[a].balance])

\* The figures above the groups are the groups' own.
AddsUp(view) ==
  LET spendable == {a \in DOMAIN view.cash : ~view.cash[a].savings}
  IN  /\ view.overview.net = GroupTotal(view.cash) - GroupTotal(view.credit)
      /\ view.overview.free =
           GroupTotal([a \in spendable |-> view.cash[a]]) - GroupTotal(view.credit)
      /\ \A a \in DOMAIN view.hidden :
           a \notin DOMAIN view.cash \cup DOMAIN view.credit \cup DOMAIN view.other

PageInv ==
  /\ page.step \in {"none", "listed", "shown"}
  /\ page.step = "listed" => page.table \in Tables
  /\ page.step = "shown" => AddsUp(page.view)

\* A group's rows sum to what its accounts of known balance hold.
LEMMA GroupSum ==
  ASSUME NEW table \in Tables, NEW S \in SUBSET Stored(table), NEW group, DOMAIN group = S,
         \A a \in S : group[a].balance = table[a].balance
  PROVE  /\ GroupTotal(group) = Sum(table, {a \in S : Known(table[a])})
         /\ GroupTotal(group) \in Int
<1> DEFINE f == [a \in S |-> IF group[a].balance = Null THEN 0 ELSE group[a].balance]
           T == {a \in S : Known(table[a])}
           g == [a \in T |-> table[a].balance]
<1>1. S \subseteq Accts /\ \A a \in S : table[a].balance \in Int \cup {Null}
  BY DEF Stored, Tables, Rows
<1>2. T \subseteq S /\ \A a \in S \ T : f[a] = 0
  BY DEF Known
<1>3. \A a \in T : f[a] = g[a]
  BY DEF Known
<1>4. Summands(f, S)
  BY <1>1, RowsAssumption, FS_Subset DEF Summands
<1>5. GroupTotal(group) = SumFunctionOnSet(f, S)
  BY DEF GroupTotal, SumFunction
<1>6. Sum(table, T) = SumFunctionOnSet(g, T)
  BY DEF Sum, SumFunction
<1> HIDE DEF f, g, T
<1>7. SumFunctionOnSet(f, S) = SumFunctionOnSet(f, T)
  BY <1>2, <1>4, SumWithoutZeros
<1>8. SumFunctionOnSet(f, T) = SumFunctionOnSet(g, T)
  BY <1>2, <1>3, <1>4, FS_Subset, SumSame DEF Summands
<1>9. SumFunctionOnSet(f, S) \in Int
  BY <1>4, SumIsInt
<1> QED
  BY <1>5, <1>6, <1>7, <1>8, <1>9 DEF T

\* What a table's accounts of known balance hold falls into two parts.
LEMMA SumSplit ==
  ASSUME NEW table \in Tables, NEW S \in SUBSET Stored(table), NEW T \in SUBSET S,
         \A a \in S : Known(table[a])
  PROVE  /\ Sum(table, S) = Sum(table, T) + Sum(table, S \ T)
         /\ Sum(table, S) \in Int /\ Sum(table, T) \in Int /\ Sum(table, S \ T) \in Int
<1> DEFINE f(U) == [a \in U |-> table[a].balance]
           R == S \ T
<1>1. S \subseteq Accts /\ \A a \in S : table[a].balance \in Int
  BY DEF Stored, Tables, Rows, Known
<1>2. IsFiniteSet(S) /\ IsFiniteSet(T) /\ IsFiniteSet(R)
  BY <1>1, RowsAssumption, FS_Subset
<1>3. \A U \in SUBSET S : Sum(table, U) = SumFunctionOnSet(f(U), U)
  BY DEF Sum, SumFunction
<1>4. ASSUME NEW U \in SUBSET S, IsFiniteSet(U)
      PROVE  Sum(table, U) = SumFunctionOnSet(f(S), U) /\ Sum(table, U) \in Int
  <2>1. \A a \in U : f(U)[a] = f(S)[a]
    OBVIOUS
  <2>2. Summands(f(S), U)
    BY <1>1, <1>4 DEF Summands
  <2> HIDE DEF f
  <2> QED
    BY <1>3, <1>4, <2>1, <2>2, SumSame, SumIsInt
<1>5. Summands(f(S), T) /\ Summands(f(S), R) /\ T \cup R = S /\ T \cap R = {}
  BY <1>1, <1>2 DEF Summands
<1>6. R \in SUBSET S
  OBVIOUS
<1>7. Sum(table, S) = Sum(table, T) + Sum(table, R)
  <2> HIDE DEF f, R
  <2>1. SumFunctionOnSet(f(S), T \cup R) = SumFunctionOnSet(f(S), T) + SumFunctionOnSet(f(S), R)
    BY <1>5, SumJoined
  <2> QED
    BY <1>2, <1>4, <1>5, <1>6, <2>1
<1> QED
  BY <1>2, <1>4, <1>6, <1>7

\* Whatever the table holds, the page computed from it adds up.
LEMMA DashboardAddsUp ==
  ASSUME NEW table \in Tables, NEW cs, NEW t
  PROVE  AddsUp(Dashboard(table, cs, t))
<1> DEFINE view == Dashboard(table, cs, t)
           Group(ids) == [a \in ids |-> DashboardRow(a, table, cs, t)]
           Shown(kind) == {a \in Active(table) : table[a].kind = kind}
           Counted(kind) == {a \in Shown(kind) : Known(table[a])}
           spendable == {a \in Shown("cash") : ~table[a].savings}
           saved == {a \in Counted("cash") : table[a].savings}
<1>1. /\ view.cash = Group(Shown("cash")) /\ view.credit = Group(Shown("credit"))
      /\ view.other = Group({a \in Active(table) : table[a].kind \notin {"cash", "credit"}})
      /\ view.hidden = Group({a \in Stored(table) : table[a].state = "hidden"})
      /\ view.overview = ComputeOverview(table)
  BY DEF Dashboard
<1>2. \A ids : DOMAIN Group(ids) = ids /\ \A a \in ids :
        Group(ids)[a].balance = table[a].balance /\ Group(ids)[a].savings = table[a].savings
  BY DEF DashboardRow
<1>3. /\ Shown("cash") \in SUBSET Stored(table) /\ Shown("credit") \in SUBSET Stored(table)
      /\ spendable \in SUBSET Stored(table)
  BY DEF Active
<1>4. /\ GroupTotal(Group(Shown("cash"))) = Sum(table, Counted("cash"))
      /\ GroupTotal(Group(Shown("credit"))) = Sum(table, Counted("credit"))
      /\ GroupTotal(Group(Shown("credit"))) \in Int
  <2> HIDE DEF Group, Shown
  <2> QED
    BY <1>2, <1>3, GroupSum
<1>5. GroupTotal(Group(spendable)) = Sum(table, Counted("cash") \ saved)
  <2>1. {a \in spendable : Known(table[a])} = Counted("cash") \ saved
    OBVIOUS
  <2>2. GroupTotal(Group(spendable)) = Sum(table, {a \in spendable : Known(table[a])})
    <3> HIDE DEF Group, spendable
    <3> QED
      BY <1>2, <1>3, GroupSum
  <2> QED
    BY <2>1, <2>2
<1>6. /\ Sum(table, Counted("cash"))
           = Sum(table, saved) + Sum(table, Counted("cash") \ saved)
      /\ Sum(table, Counted("cash")) \in Int /\ Sum(table, saved) \in Int
      /\ Sum(table, Counted("cash") \ saved) \in Int
  <2>1. Counted("cash") \in SUBSET Stored(table) /\ saved \in SUBSET Counted("cash")
    BY <1>3
  <2>2. \A a \in Counted("cash") : Known(table[a])
    OBVIOUS
  <2> HIDE DEF Counted, saved
  <2> QED
    BY <2>1, <2>2, SumSplit
<1>7. /\ ComputeOverview(table).net
           = Sum(table, Counted("cash")) - Sum(table, Counted("credit"))
      /\ ComputeOverview(table).free =
           Sum(table, Counted("cash")) - Sum(table, Counted("credit")) - Sum(table, saved)
  <2>1. \A kind : {a \in {b \in Active(table) : Known(table[b])} : table[a].kind = kind}
                    = Counted(kind)
    OBVIOUS
  <2> HIDE DEF Counted
  <2> QED
    BY <2>1 DEF ComputeOverview
<1>8. [a \in {b \in DOMAIN view.cash : ~view.cash[b].savings} |-> view.cash[a]]
        = Group(spendable)
  <2>1. {b \in DOMAIN view.cash : ~view.cash[b].savings} = spendable
    BY <1>1, <1>2
  <2>2. \A a \in spendable : view.cash[a] = Group(spendable)[a]
    BY <1>1
  <2> HIDE DEF spendable, view
  <2> QED
    BY <1>2, <2>1, <2>2
<1>9. \A a \in DOMAIN view.hidden :
        a \notin DOMAIN view.cash \cup DOMAIN view.credit \cup DOMAIN view.other
  BY <1>1, <1>2 DEF Active
<1>10. view.overview.net = GroupTotal(view.cash) - GroupTotal(view.credit)
  <2> HIDE DEF view, Group, Shown
  <2> QED
    BY <1>1, <1>4, <1>7
<1>11. view.overview.free =
         GroupTotal([a \in {b \in DOMAIN view.cash : ~view.cash[b].savings} |-> view.cash[a]])
           - GroupTotal(view.credit)
  <2> DEFINE A == Sum(table, Counted("cash"))
             B == Sum(table, saved)
             C == Sum(table, Counted("cash") \ saved)
             D == Sum(table, Counted("credit"))
  <2>1. A = B + C /\ A \in Int /\ B \in Int /\ C \in Int /\ D \in Int
    BY <1>4, <1>6
  <2>2. view.overview.free = A - D - B
    BY <1>1, <1>7
  <2>3. /\ GroupTotal([a \in {b \in DOMAIN view.cash : ~view.cash[b].savings} |->
                           view.cash[a]]) = C
        /\ GroupTotal(view.credit) = D
    BY <1>1, <1>4, <1>5, <1>8
  <2> HIDE DEF A, B, C, D
  <2> QED
    BY <2>1, <2>2, <2>3
<1>12. AddsUp(view)
  <2> HIDE DEF view
  <2> QED
    BY <1>9, <1>10, <1>11 DEF AddsUp
<1> QED
  BY <1>12

\* Three steps touch the page.
LEMMA PageMoves == [Next]_vars => UNCHANGED page \/ ListForPage \/ ShowPage \/ LeavePage
<1> USE DEF userVars
<1> SUFFICES ASSUME Next, ~(ListForPage \/ ShowPage \/ LeavePage) PROVE UNCHANGED page
  BY DEF vars
<1>1. CASE \E a \in Accts : BankMoves(a)
  BY <1>1 DEF BankMoves
<1>2. CASE \E c \in Conns : LoginChanges(c) \/ RegisterConnection(c) \/ DisconnectAtProvider(c)
                              \/ DisconnectInStore(c) \/ AbandonDisconnect(c)
  BY <1>2 DEF LoginChanges, RegisterConnection, DisconnectAtProvider, DisconnectInStore,
     AbandonDisconnect
<1>3. CASE DayPasses
  BY <1>3 DEF DayPasses
<1>4. CASE \E p \in Passes : StartPass(p) \/ PassStep(p) \/ FailVisit(p)
  BY <1>4 DEF StartPass, PassStep, FailVisit, Visit, Fetch, Flag, Refresh, ReadStatements,
     WriteStatement
<1>5. CASE \E p \in Passes, c \in Conns : StartReconnect(p, c)
  BY <1>5 DEF StartReconnect
<1>6. CASE EditStep
  BY <1>6 DEF EditStep, BeginEdit, WriteBack, SetKindAlone, SetAccountKind,
     ToggleCountsAsSavings, RefuseSavings, SetAccountState, SetAccountName, SetPaymentSchedule
<1> QED
  BY <1>1, <1>2, <1>3, <1>4, <1>5, <1>6 DEF Next

LEMMA PageStep == TypeInv /\ PageInv /\ [Next]_vars => PageInv'
<1> SUFFICES ASSUME TypeInv, PageInv, [Next]_vars PROVE PageInv'
  OBVIOUS
<1>1. CASE UNCHANGED page
  BY <1>1 DEF PageInv
<1>2. CASE ListForPage
  BY <1>2 DEF ListForPage, PageInv, Tables, TypeInv, TypeOK
<1>3. CASE ShowPage
  <2>1. AddsUp(Dashboard(page.table, conns, today))
    BY <1>3, DashboardAddsUp DEF ShowPage, PageInv
  <2>2. page' = [step |-> "shown", view |-> Dashboard(page.table, conns, today)]
    BY <1>3 DEF ShowPage
  <2>3. page'.step = "shown" /\ page'.view = Dashboard(page.table, conns, today)
    BY <2>2
  <2>4. AddsUp(page.view)'
    BY <2>1, <2>3 DEF AddsUp
  <2> QED
    BY <2>3, <2>4 DEF PageInv
<1>4. CASE LeavePage
  BY <1>4 DEF LeavePage, NoPage, PageInv
<1> QED
  BY <1>1, <1>2, <1>3, <1>4, PageMoves

\* The page never shows groups that add up to another position than the one above them,
\* whatever changed between the listing and the answer (accounts.ComputeOverview and the
\* grouping of the dashboard are two passes over the same rows).
THEOREM PositionAlwaysMatches == Spec => []PositionMatchesGroups
<1>1. Init => PageInv
  BY DEF Init, PageInv, NoPage
<1>2. PageInv => PositionMatchesGroups
  BY DEF PageInv, AddsUp, GroupTotal, PositionMatchesGroups
<1>3. TypeInv /\ [Next]_vars => TypeInv'
  BY TypeStep
<1> QED
  BY <1>1, <1>2, <1>3, InitType, PageStep, PTL DEF Spec

==============================================================================
