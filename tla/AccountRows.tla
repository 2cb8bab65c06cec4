----------------------------- MODULE AccountRows -----------------------------
(***************************************************************************)
(* Who writes the accounts and connections tables, and in which order      *)
(* (src/src/internal/accounts).  A pass - the recurring bank sync or a     *)
(* reconnect - asks the bank what a login holds, stores the accounts in    *)
(* one transaction, then asks for the cards' statements and stores them    *)
(* row by row.  Meanwhile the user connects and disconnects banks, and     *)
(* changes rows: some edits read the whole row, and write it back later.   *)
(* One action is one statement, one transaction or one call of the bank.   *)
(***************************************************************************)
EXTENDS AccountTable

CONSTANTS
  Conns,      \* bank logins
  Accts,      \* accounts, by provider account id
  ConnOf,     \* the login an account belongs to
  KindAtBank, \* the kind the bank reports for an account
  SavesAtBank,\* the savings default the bank's subtype gives
  Reports,    \* the billing cycles a bank may report for a card
  Passes,     \* actors that sync: the cron, a request
  Editors,    \* requests that change a row
  Names,      \* custom names
  Offsets,    \* payment offsets a user types, negative ones too
  MaxBalance, \* bound on how often a balance moves
  MaxMoves    \* bound on all of: what the bank does, what the user does, what fails

ASSUME RowsAssumption ==
  /\ IsFiniteSet(Accts)
  /\ ConnOf \in [Accts -> Conns]
  /\ KindAtBank \in [Accts -> Kinds]
  /\ SavesAtBank \in [Accts -> BOOLEAN]
  /\ \A a \in Accts : SavesAtBank[a] => KindAtBank[a] = "cash"
  /\ Offsets \subseteq Int
  /\ {MaxBalance, MaxMoves} \subseteq Nat

VARIABLES
  bank,     \* per account: open, balance and the card's reported cycle
  login,    \* per login: ok, reauth, error or severed
  product,  \* per login, its statements: served, withheld or failing
  conns,    \* the connections table: unlinked, active, needs or gone
  accts,    \* the accounts table
  today,    \* the clock that stamps a refresh
  job,      \* per pass: where it is and what it has heard
  edit,     \* per editor: the row it read, or NoEdit
  severing, \* logins a disconnect has severed and not yet deleted
  wish,     \* per account: what the user (or the first listing) last decided
  page,     \* the accounts page: none, its rows listed, or what it shows
  overlapped, \* a disconnect committed while a pass was visiting that login
  moves       \* counts what MaxMoves bounds

bankVars == <<bank, login, product>>
userVars == <<edit, severing, wish, overlapped, page>>
vars == <<bank, login, product, conns, accts, today, job, edit, severing, wish, overlapped,
          page, moves>>

CountMove == moves < MaxMoves /\ moves' = moves + 1

NoPage == [step |-> "none"]
NoEdit == [acct |-> Null]
Idle == [pc |-> "idle"]
Choice(row) == [kind |-> row.kind, savings |-> row.savings, state |-> row.state,
                custom |-> row.custom, sched |-> row.sched]

Init ==
  /\ \E cycles \in [Accts -> Reports \cup {Null}] :
       /\ \A a \in Accts : KindAtBank[a] # "credit" => cycles[a] = Null
       /\ bank = [a \in Accts |-> [open |-> TRUE, balance |-> 1, cycle |-> cycles[a]]]
  /\ login = [c \in Conns |-> "ok"]
  /\ product \in [Conns -> {"served", "withheld", "failing"}]
  /\ conns = [c \in Conns |-> "unlinked"]
  /\ accts = [a \in Accts |-> NoRow]
  /\ today = 0
  /\ job = [p \in Passes |-> Idle]
  /\ edit = [e \in Editors |-> NoEdit]
  /\ severing = {}
  /\ wish = [a \in Accts |-> Null]
  /\ overlapped = {}
  /\ page = NoPage
  /\ moves = 0

Linked == ListLinked(conns)

\* A row that appears brings its seeds, which stand for a choice until the user makes one.
Decided(before, after) ==
  [a \in Accts |-> IF before[a] = NoRow /\ after[a] # NoRow THEN Choice(after[a]) ELSE wish[a]]

\* What a login offers when asked: its open accounts, with their balances.
Offered(c) ==
  [a \in {b \in Accts : ConnOf[b] = c /\ bank[b].open} |->
     [kind |-> KindAtBank[a], savings |-> SavesAtBank[a], balance |-> bank[a].balance]]

\* What it reports for its cards: a statement each, for those it has one for.
ReportedCycles(c) ==
  [a \in {b \in DOMAIN Offered(c) : KindAtBank[b] = "credit" /\ bank[b].cycle # Null} |->
     CardStatementFrom(bank[a].cycle)]

-----------------------------------------------------------------------------
\* The bank, and time.

BankMoves(a) ==
  /\ CountMove
  /\ \/ \E b \in (0..MaxBalance \cup {Null}) \ {bank[a].balance} :
          bank' = [bank EXCEPT ![a].balance = b]
     \/ bank' = [bank EXCEPT ![a].open = ~@]
     \/ /\ KindAtBank[a] = "credit"
        /\ \E r \in (Reports \cup {Null}) \ {bank[a].cycle} : bank' = [bank EXCEPT ![a].cycle = r]
  /\ UNCHANGED <<login, product, conns, accts, today, job, userVars>>

LoginChanges(c) ==
  /\ CountMove
  /\ login[c] # "severed"
  /\ \/ \E s \in {"ok", "reauth", "error"} \ {login[c]} : login' = [login EXCEPT ![c] = s] /\ product' = product
     \/ \E s \in {"served", "withheld", "failing"} \ {product[c]} :
          product' = [product EXCEPT ![c] = s] /\ login' = login
  /\ UNCHANGED <<bank, conns, accts, today, job, userVars>>

\* Time passes; every balance not refreshed since is older than before.
DayPasses ==
  /\ CountMove
  /\ today' = today + 1
  /\ UNCHANGED <<bank, login, product, conns, accts, job, userVars>>

-----------------------------------------------------------------------------
\* Connecting and disconnecting.

\* Row ids are fresh ones.  Two are enough: a row created again once its connection
\* is gone is not the row that was deleted with it.
FreshId(c) == IF conns[c] = "gone" THEN 2 ELSE 1

Stands(a, id) == accts[a] # NoRow /\ accts[a].id = id

\* One row for each listed account.
Seeded(table, c, offers, now) ==
  [a \in Accts |-> IF a \in DOMAIN offers
                   THEN CreateAccount(table, a, NewAccount(FreshId(c), c, offers[a], now))[a]
                   ELSE table[a]]

\* CompleteConnect: the connection and its accounts, in one transaction.
RegisterConnection(c) ==
  /\ conns[c] = "unlinked" /\ login[c] = "ok"
  /\ conns' = CreateConnection(conns, c)
  /\ accts' = Seeded(accts, c, Offered(c), today)
  /\ wish' = Decided(accts, accts')
  /\ UNCHANGED <<bankVars, today, job, edit, severing, overlapped, moves, page>>

\* Disconnect severs the login at the bank first; a login already severed refuses,
\* and the request ends there.
DisconnectAtProvider(c) ==
  /\ CountMove
  /\ c \in Linked /\ c \notin severing /\ login[c] \in {"ok", "reauth"}
  /\ login' = [login EXCEPT ![c] = "severed"]
  /\ severing' = severing \cup {c}
  /\ UNCHANGED <<bank, product, conns, accts, today, job, edit, wish, overlapped, page>>

Visiting(c) == {p \in Passes : job[p].pc # "idle" /\ (c \in job[p].left \/ job[p].conn = c)}

\* Then the rows go, the accounts before the connection, in one transaction.
DisconnectInStore(c) ==
  /\ c \in severing
  /\ severing' = severing \ {c}
  /\ accts' = DeleteAccountsByConnection(accts, c)
  /\ conns' = DeleteConnection(conns, c)
  /\ overlapped' = IF Visiting(c) # {} THEN overlapped \cup {c} ELSE overlapped
  /\ UNCHANGED <<bankVars, today, job, edit, wish, moves, page>>

\* Or the request ends in between: the login is severed, the rows stand.
AbandonDisconnect(c) ==
  /\ CountMove
  /\ c \in severing
  /\ severing' = severing \ {c}
  /\ UNCHANGED <<bankVars, conns, accts, today, job, edit, wish, overlapped, page>>

-----------------------------------------------------------------------------
\* A pass.

\* Where a pass goes once it is done with a login: the next one of its list, or home.
EndVisit(p) ==
  job' = [job EXCEPT ![p] = IF job[p].left = {} THEN Idle
                            ELSE [@ EXCEPT !.pc = "next", !.conn = Null, !.heard = <<>>, !.todo = {}]]

\* SyncAccounts lists the connections, and their states, once.
StartPass(p) ==
  /\ job[p].pc = "idle" /\ Linked # {}
  /\ job' = [job EXCEPT ![p] = [pc |-> "next", how |-> "sync", left |-> Linked, was |-> conns,
                                conn |-> Null, heard |-> <<>>, todo |-> {}]]
  /\ UNCHANGED <<bankVars, conns, accts, today, userVars, moves>>

\* CompleteReconnect reads the one connection.
StartReconnect(p, c) ==
  /\ CountMove
  /\ job[p].pc = "idle" /\ c \in Linked
  /\ job' = [job EXCEPT ![p] = [pc |-> "fetch", how |-> "reconnect", left |-> {}, was |-> conns,
                                conn |-> c, heard |-> <<>>, todo |-> {}]]
  /\ UNCHANGED <<bankVars, conns, accts, today, edit, severing, wish, overlapped, page>>

Visit(p) ==
  /\ job[p].pc = "next"
  /\ \E c \in job[p].left :
       job' = [job EXCEPT ![p] = [@ EXCEPT !.pc = "fetch", !.conn = c,
                                           !.left = job[p].left \ {c}]]
  /\ UNCHANGED <<bankVars, conns, accts, today, userVars, moves>>

\* The token is loaded and the login asked for its accounts and balances.  A login
\* that asks for the user is flagged by a sync; a reconnect only reports the refusal.
Fetch(p) ==
  LET c == job[p].conn
      flag == login[c] = "reauth" /\ job[p].how = "sync"
  IN  /\ job[p].pc = "fetch"
      /\ IF c \in Linked /\ login[c] = "ok"
         THEN job' = [job EXCEPT ![p] = [@ EXCEPT !.pc = "refresh", !.heard = Offered(c)]]
         ELSE IF c \in Linked /\ flag
         THEN job' = [job EXCEPT ![p].pc = "flag"]
         ELSE EndVisit(p)
      /\ UNCHANGED <<bankVars, conns, accts, today, userVars, moves>>

\* SetConnectionState: the row is read, then written; a row that is gone is an error.
Flag(p) ==
  /\ job[p].pc = "flag"
  /\ conns' = IF job[p].conn \in Linked THEN UpdateConnection(conns, job[p].conn, "needs") ELSE conns
  /\ EndVisit(p)
  /\ UNCHANGED <<bankVars, accts, today, userVars, moves>>

\* The rows after a refresh: the login's own rows are read here, inside the
\* transaction; a listed account with a row takes its balance and stamp, one without
\* is created.
Refreshed(c, offers) ==
  LET existing == ListAccountsByConnection(accts, c)
      Balanced(a) == UpdateAccount(accts, a,
                       [accts[a] EXCEPT !.balance = offers[a].balance, !.synced = today])
      created == Seeded(accts, c, offers, today)
  IN  [a \in Accts |-> IF a \in DOMAIN offers
                       THEN IF a \in existing THEN Balanced(a)[a] ELSE created[a]
                       ELSE accts[a]]

\* The transaction of a visit.  A login the pass listed as flagged is set active in
\* it, which fails, and takes the rest along, when the connection is gone.
Refresh(p) ==
  LET c == job[p].conn
      reactivate == job[p].was[c] # "active"
      committed == ~reactivate \/ c \in Linked
      asks == job[p].how = "sync" /\ HoldsCreditAccount(job[p].heard)
  IN  /\ job[p].pc = "refresh"
      /\ accts' = IF committed THEN Refreshed(c, job[p].heard) ELSE accts
      /\ conns' = IF committed /\ reactivate THEN UpdateConnection(conns, c, "active") ELSE conns
      /\ wish' = Decided(accts, accts')
      /\ IF committed /\ asks
         THEN job' = [job EXCEPT ![p].pc = "statements"]
         ELSE EndVisit(p)
      /\ UNCHANGED <<bankVars, today, edit, severing, overlapped, moves, page>>

\* The gap, on each credit row that does not already record it so.
MarkGap(rows, gap) ==
  {[phase |-> 3, op |-> "gap", acct |-> a, id |-> accts[a].id, value |-> gap] :
     a \in {b \in rows : accts[b].kind = "credit" /\ accts[b].gap # gap}}

\* Mutant: a card the response leaves out keeps its cycle.
WritesForReported(rows, reported) ==
  {[phase |-> 1, op |-> "cycle", acct |-> a, id |-> accts[a].id, value |-> reported[a]] :
     a \in rows \cap DOMAIN reported}
  \cup MarkGap(rows, FALSE)

\* What a served response makes of the rows: the reported cycles, then the credit rows
\* that hold one the bank no longer reports, then the gap that is over.
StatementWrites(rows, reported) ==
  {[phase |-> 1, op |-> "cycle", acct |-> a, id |-> accts[a].id, value |-> reported[a]] :
     a \in rows \cap DOMAIN reported}
  \cup {[phase |-> 2, op |-> "cycle", acct |-> a, id |-> accts[a].id, value |-> Null] :
     a \in {b \in rows \ DOMAIN reported : accts[b].kind = "credit" /\ HasStatement(accts[b])}}
  \cup MarkGap(rows, FALSE)

\* The cards' statements are asked for and the rows listed; the writes follow one by one.
ReadStatements(p) ==
  LET c == job[p].conn
      rows == ListAccountsByConnection(accts, c)
      writes == CASE login[c] # "ok" -> {}
                  [] product[c] = "served" -> StatementWrites(rows, ReportedCycles(c))
                  [] product[c] = "withheld" -> MarkGap(rows, TRUE)
                  [] OTHER -> {}
  IN  /\ job[p].pc = "statements"
      /\ IF login[c] = "reauth" THEN job' = [job EXCEPT ![p].pc = "flag"]
         ELSE IF writes = {} THEN EndVisit(p)
         ELSE job' = [job EXCEPT ![p] = [@ EXCEPT !.pc = "write", !.todo = writes]]
      /\ UNCHANGED <<bankVars, conns, accts, today, userVars, moves>>

\* One row at a time, each its own statement; a row that is gone ends the visit.
WriteStatement(p) ==
  /\ job[p].pc = "write"
  /\ \E w \in job[p].todo :
       /\ \A v \in job[p].todo : w.phase <= v.phase
       /\ accts' = IF ~Stands(w.acct, w.id) THEN accts
                   ELSE IF w.op = "gap"
                   THEN UpdateAccountStatementsUnavailable(accts, w.acct, w.value)
                   ELSE SetAccountStatement(accts, w.acct, w.value)
       /\ IF ~Stands(w.acct, w.id) \/ job[p].todo = {w} THEN EndVisit(p)
          ELSE job' = [job EXCEPT ![p].todo = @ \ {w}]
  /\ UNCHANGED <<bankVars, conns, today, userVars, moves>>

\* A call or a statement fails: this login's visit is over, the others still follow.
FailVisit(p) ==
  /\ CountMove
  /\ job[p].pc \in {"fetch", "flag", "refresh", "statements", "write"}
  /\ EndVisit(p)
  /\ UNCHANGED <<bankVars, conns, accts, today, userVars>>

PassStep(p) ==
  Visit(p) \/ Fetch(p) \/ Flag(p) \/ Refresh(p) \/ ReadStatements(p) \/ WriteStatement(p)

-----------------------------------------------------------------------------
\* The user's edits.  The first three read the whole row, and write it back later.

\* A request reads the row it means to change.
BeginEdit(e, a) ==
  /\ CountMove
  /\ edit[e] = NoEdit /\ accts[a] # NoRow
  /\ edit' = [edit EXCEPT ![e] = [acct |-> a, row |-> accts[a]]]
  /\ UNCHANGED <<bankVars, conns, accts, today, job, severing, wish, overlapped, page>>

\* The end of an edit: the row as read, with the change, is written whole; the write
\* fails when the row is gone.
WriteBack(e, row, choice) ==
  LET a == edit[e].acct
      stands == edit[e] # NoEdit /\ Stands(a, row.id)
  IN  /\ edit[e] # NoEdit
      /\ accts' = IF stands THEN UpdateAccount(accts, a, row) ELSE accts
      /\ wish' = IF stands THEN [wish EXCEPT ![a] = choice] ELSE wish
      /\ edit' = [edit EXCEPT ![e] = NoEdit]
      /\ UNCHANGED <<bankVars, conns, today, job, severing, overlapped, moves, page>>

\* Mutant: choosing credit leaves the flag.
SetKindAlone(e) == \E kind \in Kinds :
  /\ edit[e] # NoEdit
  /\ WriteBack(e, [edit[e].row EXCEPT !.kind = kind], [wish[edit[e].acct] EXCEPT !.kind = kind])

\* A card is never savings: choosing credit clears the flag.
SetAccountKind(e) == \E kind \in Kinds :
  LET a == edit[e].acct
      row == [edit[e].row EXCEPT !.kind = kind,
                                 !.savings = IF kind = "credit" THEN FALSE ELSE @]
  IN  /\ edit[e] # NoEdit
      /\ WriteBack(e, row, [wish[a] EXCEPT !.kind = kind,
                                           !.savings = IF kind = "credit" THEN FALSE ELSE @])

\* The savings toggle refuses a row it read as a card.
ToggleCountsAsSavings(e) ==
  LET a == edit[e].acct
      row == [edit[e].row EXCEPT !.savings = ~@]
  IN  /\ edit[e] # NoEdit
      /\ row.kind # "credit"
      /\ WriteBack(e, row, [wish[a] EXCEPT !.savings = row.savings])
RefuseSavings(e) ==
  /\ edit[e] # NoEdit /\ edit[e].row.kind = "credit"
  /\ edit' = [edit EXCEPT ![e] = NoEdit]
  /\ UNCHANGED <<bankVars, conns, accts, today, job, severing, wish, overlapped, moves, page>>

SetAccountState(e) == \E state \in {"active", "hidden"} :
  LET a == edit[e].acct
  IN  /\ edit[e] # NoEdit
      /\ WriteBack(e, [edit[e].row EXCEPT !.state = state], [wish[a] EXCEPT !.state = state])

\* The name and the schedule are columns of their own, written without a read.  No name
\* goes back to the bank's.
SetAccountName(a) == \E name \in Names \cup {Null} :
  /\ CountMove
  /\ accts[a] # NoRow
  /\ accts' = UpdateAccountCustomName(accts, a, name)
  /\ wish' = [wish EXCEPT ![a].custom = name]
  /\ UNCHANGED <<bankVars, conns, today, job, edit, severing, overlapped, page>>

\* An offset that does not parse is posted as zero, one outside its mode is cleared.
PostedSchedule(mode, offset) == [mode |-> mode, offset |-> IF offset = Null THEN 0 ELSE offset]
Normalised(sched) == IF sched.mode = "due_date" THEN [sched EXCEPT !.offset = 0] ELSE sched
SetPaymentSchedule(a) ==
  \E mode \in {"due_date", "statement_plus_days", "unknown"}, offset \in Offsets \cup {Null} :
    LET posted == PostedSchedule(mode, offset)
    IN  /\ CountMove
        /\ accts[a] # NoRow /\ ValidSchedule(posted)
        /\ accts' = UpdateAccountPaymentSchedule(accts, a, Normalised(posted))
        /\ wish' = [wish EXCEPT ![a].sched = Normalised(posted)]
        /\ UNCHANGED <<bankVars, conns, today, job, edit, severing, overlapped, page>>

EditStep ==
  \/ \E e \in Editors : SetAccountKind(e) \/ ToggleCountsAsSavings(e) \/ RefuseSavings(e)
                          \/ SetAccountState(e)
  \/ \E e \in Editors, a \in Accts : BeginEdit(e, a)
  \/ \E a \in Accts : SetAccountName(a) \/ SetPaymentSchedule(a)

\* The accounts page: the rows are read, then the connections, then it is rendered.
ListForPage ==
  /\ CountMove
  /\ page = NoPage
  /\ page' = [step |-> "listed", table |-> accts]
  /\ UNCHANGED <<bankVars, conns, accts, today, job, edit, severing, wish, overlapped>>
ShowPage ==
  /\ page.step = "listed"
  /\ page' = [step |-> "shown", view |-> Dashboard(page.table, conns, today)]
  /\ UNCHANGED <<bankVars, conns, accts, today, job, edit, severing, wish, overlapped, moves>>
LeavePage ==
  /\ page.step = "shown"
  /\ page' = NoPage
  /\ UNCHANGED <<bankVars, conns, accts, today, job, edit, severing, wish, overlapped, moves>>

Next ==
  \/ \E a \in Accts : BankMoves(a)
  \/ \E c \in Conns : LoginChanges(c) \/ RegisterConnection(c) \/ DisconnectAtProvider(c)
                        \/ DisconnectInStore(c) \/ AbandonDisconnect(c)
  \/ DayPasses
  \/ \E p \in Passes : StartPass(p) \/ PassStep(p) \/ FailVisit(p)
  \/ \E p \in Passes, c \in Conns : StartReconnect(p, c)
  \/ EditStep
  \/ ListForPage \/ ShowPage \/ LeavePage

Spec == Init /\ [][Next]_vars

\* The cron starts a pass whenever none of its own runs, and a pass that runs goes on.
Fairness == \A p \in Passes : WF_vars(StartPass(p)) /\ WF_vars(PassStep(p))
FairSpec == Spec /\ Fairness

-----------------------------------------------------------------------------
Rows ==
  [id : 1..2, conn : Conns, kind : Kinds, savings : BOOLEAN, balance : Int \cup {Null},
   state : {"active", "hidden"}, synced : Nat, custom : Names \cup {Null},
   cycle : {BlankCycle} \cup {CardStatementFrom(r) : r \in Reports},
   sched : [mode : {"due_date", "statement_plus_days"}, offset : Nat], gap : BOOLEAN]

TypeOK ==
  /\ conns \in [Conns -> {"unlinked", "active", "needs", "gone"}]
  /\ accts \in [Accts -> Rows \cup {NoRow}]
  /\ login \in [Conns -> {"ok", "reauth", "error", "severed"}]
  /\ product \in [Conns -> {"served", "withheld", "failing"}]
  /\ \A p \in Passes : job[p].pc \in {"idle", "next", "fetch", "flag", "refresh", "statements", "write"}
  /\ \A e \in Editors : edit[e] # NoEdit => edit[e].row \in Rows

\* SetAccountKind's rule "a credit destination is never a savings contribution"
\* (accounts/service.go:516-519), on which the transfer pairing relies: it survives
\* every order of syncs and edits, however many requests edit at a time, since one that
\* writes either column writes both of them back together.
CreditNotSavings == \A a \in Stored(accts) : ~(accts[a].kind = "credit" /\ accts[a].savings)

\* "it does not ... reseed an account's kind or counts-as-savings" (accounts/service.go:
\* 109-110): whatever the user last decided about a row - kind, savings, visibility,
\* name, payment schedule - is what the row says, syncs in between notwithstanding.
ChoicesStand == \A a \in Stored(accts) : Choice(accts[a]) = wish[a]

\* "After it returns the bank is gone from Two Cents entirely" (accounts/service.go:445),
\* unless a pass was visiting the bank when the rows went: rows outlive their connection
\* only then, and never lose it otherwise.
GoneMeansGone ==
  \A a \in Stored(accts) : accts[a].conn \in Linked \cup overlapped

\* The page can never show groups that add up to another position than the one above
\* them (accounts/dashboard.go:76-79): cash rows sum to the cash figure, credit rows to
\* the debt, and a hidden row counts in neither.
PositionMatchesGroups ==
  page.step = "shown" =>
    LET view == page.view
        Total(group) == SumFunction(
          [a \in DOMAIN group |-> IF group[a].balance = Null THEN 0 ELSE group[a].balance])
        Spendable == {a \in DOMAIN view.cash : ~view.cash[a].savings}
    IN  /\ view.overview.net = Total(view.cash) - Total(view.credit)
        /\ view.overview.free = Total([a \in Spendable |-> view.cash[a]]) - Total(view.credit)
        /\ \A a \in DOMAIN view.hidden :
             a \notin DOMAIN view.cash \cup DOMAIN view.credit \cup DOMAIN view.other

\* A login that stays reachable is caught up with, whatever stale row an edit wrote back
\* and whatever a pass on an old listing left: it is active again, every account it lists
\* has its balance, fresh, and its cards the statements or the gap the bank reports.
InStep(c) ==
  LET offers == Offered(c)
      asked == HoldsCreditAccount(offers)
  IN  /\ conns[c] = "active"
      /\ \A a \in DOMAIN offers :
           /\ accts[a] # NoRow
           /\ accts[a].balance = offers[a].balance
           /\ ~BalanceStale(accts[a], today)
      /\ \A a \in {b \in Stored(accts) : ConnOf[b] = c /\ accts[b].kind = "credit"} :
           /\ asked /\ product[c] = "served" =>
                /\ ~accts[a].gap
                /\ accts[a].cycle = IF a \in DOMAIN ReportedCycles(c) THEN ReportedCycles(c)[a]
                                    ELSE BlankCycle
           /\ asked /\ product[c] = "withheld" => accts[a].gap
EventuallyInStep ==
  \A c \in Conns : <>[](c \in Linked /\ login[c] = "ok") => <>[]InStep(c)
=============================================================================
