---------------------------- MODULE AccountTable ----------------------------
(***************************************************************************)
(* The accounts and connections tables (src/src/internal/accounts): the    *)
(* statements the repository runs on them, each a function from the table  *)
(* before to the table after, and the reads that derive the cash position, *)
(* the dashboard and the facets other modules ask for.                     *)
(*                                                                         *)
(* A table is a function from ids to a row, or to NoRow.  Money is whole,  *)
(* Null is SQL's NULL (and Go's nil), a balance the bank never reported is *)
(* Null too.  The override flags are left out: no code reads them.         *)
(***************************************************************************)
EXTENDS Integers, FiniteSets, FiniteSetsExt

CONSTANTS
  Null,        \* no value
  StaleAfter   \* how long a balance counts as current (24 hours)

ASSUME TableAssumption == Null \notin Int /\ StaleAfter \in Nat

NoRow == [kind |-> "none"]
Stored(table) == {a \in DOMAIN table : table[a] # NoRow}

Kinds == {"cash", "credit", "other"}
Known(row) == row.balance # Null

\* When a card is paid.  The zero value is the default.
DefaultSchedule == [mode |-> "due_date", offset |-> 0]

\* The five statement columns, each NULL on its own.
BlankCycle == [billed |-> Null, issued |-> Null, due |-> Null, paid |-> Null, paidAt |-> Null]

-----------------------------------------------------------------------------
\* Statements on the accounts table.

\* An insert names the bank's columns; the user's and the card's take defaults.
CreateAccount(table, a, new) ==
  [table EXCEPT ![a] =
     [id |-> new.id, conn |-> new.conn, kind |-> new.kind, savings |-> new.savings,
      balance |-> new.balance, state |-> new.state, synced |-> new.synced,
      custom |-> Null, cycle |-> BlankCycle, sched |-> DefaultSchedule, gap |-> FALSE]]

\* Mutant: the row is written back whole, the user's own columns included.
UpdateEveryColumn(table, a, row) == [table EXCEPT ![a] = row]

\* The whole-row update: the custom name, the schedule and the card's columns are
\* not among its columns, every other column is written as given.
UpdateAccount(table, a, row) ==
  [table EXCEPT ![a] =
     [@ EXCEPT !.kind = row.kind, !.savings = row.savings,
               !.balance = row.balance, !.state = row.state, !.synced = row.synced]]

UpdateAccountCustomName(table, a, name) == [table EXCEPT ![a].custom = name]
UpdateAccountPaymentSchedule(table, a, sched) == [table EXCEPT ![a].sched = sched]
UpdateAccountStatement(table, a, cycle) == [table EXCEPT ![a].cycle = cycle]
UpdateAccountStatementsUnavailable(table, a, gap) == [table EXCEPT ![a].gap = gap]

\* No statement at all clears all five columns.
SetAccountStatement(table, a, cycle) ==
  UpdateAccountStatement(table, a, IF cycle = Null THEN BlankCycle ELSE cycle)

ListAccountsByConnection(table, c) == {a \in Stored(table) : table[a].conn = c}

\* Mutant: hidden rows are kept.
DeleteShownAccounts(table, c) ==
  [a \in DOMAIN table |->
     IF a \in ListAccountsByConnection(table, c) /\ table[a].state = "active" THEN NoRow
     ELSE table[a]]

DeleteAccountsByConnection(table, c) ==
  [a \in DOMAIN table |->
     IF a \in ListAccountsByConnection(table, c) THEN NoRow ELSE table[a]]

\* Statements on the connections table: a row's state, unlinked before there is one.
CreateConnection(conns, c) == [conns EXCEPT ![c] = "active"]
UpdateConnection(conns, c, state) == [conns EXCEPT ![c] = state]
DeleteConnection(conns, c) == [conns EXCEPT ![c] = "gone"]

\* Only the connections a sync asks about; one that is gone never comes back.
ListLinked(conns) == {c \in DOMAIN conns : conns[c] \in {"active", "needs"}}

\* A row read back has a statement once any of the five columns has a value.
HasStatement(row) == \E column \in DOMAIN row.cycle : row.cycle[column] # Null

-----------------------------------------------------------------------------
\* What a login reports, turned into rows.

\* A fresh account: a fresh id, the bank's kind and savings default, shown, stamped now.
NewAccount(id, c, offer, now) ==
  [id |-> id, conn |-> c, kind |-> offer.kind, savings |-> offer.savings,
   balance |-> offer.balance, state |-> "active", synced |-> now]

\* A statement keeps its figure only when the bank knows it; the other fields are
\* carried across as they are, the payment never netted into the figure.
CardStatementFrom(report) ==
  [billed |-> IF report.known THEN report.balance ELSE Null,
   issued |-> report.issued, due |-> report.due,
   paid |-> report.paid, paidAt |-> report.paidAt]

HoldsCreditAccount(offers) == \E a \in DOMAIN offers : offers[a].kind = "credit"

-----------------------------------------------------------------------------
\* Reads.

Active(table) == {a \in Stored(table) : table[a].state = "active"}

DisplayName(a, row) == IF row.custom # Null THEN row.custom ELSE a

BalanceStale(row, now) == row.synced = Null \/ now - row.synced > StaleAfter

\* When the card's payment leaves checking; Null while its mode's input is missing.
PaymentDate(row) ==
  IF ~HasStatement(row) THEN Null
  ELSE IF row.sched.mode = "statement_plus_days"
       THEN IF row.cycle.issued = Null THEN Null
            ELSE row.cycle.issued + row.sched.offset
       ELSE row.cycle.due

\* Mutant: only the mode is looked at.
ValidMode(sched) == sched.mode \in {"due_date", "statement_plus_days"}

\* A schedule in a mode the program does not know, or with a negative offset, is refused.
ValidSchedule(sched) ==
  sched.mode \in {"due_date", "statement_plus_days"} /\ sched.offset >= 0

ActiveCashAccounts(table) == {a \in Active(table) : table[a].kind = "cash"}
ActiveCreditAccounts(table) == {a \in Active(table) : table[a].kind = "credit"}

\* Checking is the one active cash account that is not savings, or it is unknown.
DeriveChecking(table, cash) ==
  LET candidates == {a \in cash : ~table[a].savings}
  IN  IF Cardinality(candidates) = 1 THEN CHOOSE a \in candidates : TRUE ELSE Null
CheckingAccountID(table) == DeriveChecking(table, ActiveCashAccounts(table))

\* What the transfer pairing may name as a destination.
ConnectedAccountFacets(table) ==
  [a \in Active(table) |->
     [name |-> DisplayName(a, table[a]), kind |-> table[a].kind, savings |-> table[a].savings]]

\* Every state counts here; an id whose row is gone has no name.
DisplayNames(table, ids) ==
  [a \in ids \cap Stored(table) |-> DisplayName(a, table[a])]

Sum(table, ids) == SumFunction([a \in ids |-> table[a].balance])

\* Mutant: hidden accounts count.
OverviewOfStored(table) ==
  LET counted == {a \in Stored(table) : Known(table[a])}
      cash == {a \in counted : table[a].kind = "cash"}
      debt == {a \in counted : table[a].kind = "credit"}
      saved == {a \in cash : table[a].savings}
  IN  [cash |-> Sum(table, cash), debt |-> Sum(table, debt), savings |-> Sum(table, saved),
       net |-> Sum(table, cash) - Sum(table, debt),
       free |-> Sum(table, cash) - Sum(table, debt) - Sum(table, saved)]

\* The cash position: shown accounts with a known balance, the other kind left out.
ComputeOverview(table) ==
  LET counted == {a \in Active(table) : Known(table[a])}
      cash == {a \in counted : table[a].kind = "cash"}
      debt == {a \in counted : table[a].kind = "credit"}
      saved == {a \in cash : table[a].savings}
  IN  [cash |-> Sum(table, cash), debt |-> Sum(table, debt), savings |-> Sum(table, saved),
       net |-> Sum(table, cash) - Sum(table, debt),
       free |-> Sum(table, cash) - Sum(table, debt) - Sum(table, saved)]

\* One row of the dashboard.  A card's figure is capped at its balance, and
\* nothing owed shows nothing.
DashboardRow(a, table, conns, now) ==
  LET row == table[a]
      billed == IF HasStatement(row) /\ row.cycle.billed # Null /\ Known(row)
                THEN Min({row.cycle.billed, row.balance}) ELSE 0
  IN  [name |-> DisplayName(a, row), kind |-> row.kind, savings |-> row.savings,
       balance |-> row.balance, needsReconnect |-> conns[row.conn] = "needs",
       stale |-> BalanceStale(row, now), gap |-> row.gap, sched |-> row.sched,
       billed |-> IF billed > 0 THEN billed ELSE Null, due |-> PaymentDate(row)]

\* The accounts page: the position, and the rows in their groups, hidden ones apart.
Dashboard(table, conns, now) ==
  LET Group(ids) == [a \in ids |-> DashboardRow(a, table, conns, now)]
      Shown(kind) == {a \in Active(table) : table[a].kind = kind}
  IN  [overview |-> ComputeOverview(table),
       cash |-> Group(Shown("cash")), credit |-> Group(Shown("credit")),
       other |-> Group({a \in Active(table) : table[a].kind \notin {"cash", "credit"}}),
       hidden |-> Group({a \in Stored(table) : table[a].state = "hidden"})]

\* A bank whose every account is hidden still shows the populated page.
HasAccounts(page) ==
  DOMAIN page.cash \cup DOMAIN page.credit \cup DOMAIN page.other \cup DOMAIN page.hidden # {}
=============================================================================
