------------------------------ MODULE Dashboard ------------------------------
(***************************************************************************)
(* The home pages and the activity list in one browser tab, the            *)
(* transaction editor on top of them, and the budget editor in another     *)
(* tab.  A page is computed from several statements, and its region reads  *)
(* itself again when the editor announces a change; meanwhile the sync,    *)
(* the rules and other pages change the same tables unannounced.           *)
(*                                                                         *)
(* The elements of a page send their requests each for itself, and their   *)
(* answers may cross.  An element has one request in flight; what it is to *)
(* send meanwhile waits for that answer, and is dropped when the answer,   *)
(* any answer, replaces the region with the element in it.                 *)
(*                                                                         *)
(* An action is one SQL statement or one transaction, with exceptions: the *)
(* clock goes with the statement that follows it, the budget editor's      *)
(* page is read at once, and so is the row a destination mark is checked   *)
(* against.  Which rows the sync and the rules write, and why, is          *)
(* TransactionFacets' matter: here they write any row they may.            *)
(***************************************************************************)
EXTENDS MonthFigures

CONSTANTS
  Txns,        \* transaction ids, numbers
  Accounts,    \* account ids
  Reports,     \* Reports[t]: what the bank reports of t: account, day, amount, pending
  Ledgers,     \* the ledgers to start from
  SavedBudgets,\* the budgets to start from
  Absent,      \* no row
  Nothing,     \* not read, not open, no transaction
  Addresses,   \* the pages the user looks at
  Instants,    \* the instants at which something happens
  Targets,     \* the targets the user may submit
  Amounts,     \* the limits the user may submit, 0 for a blank field
  RecentLimit, \* recentTransactionsLimit
  Slots,       \* bound on the requests the tab has in flight, one in each
  MaxMoves     \* bound on what changes, fails or is asked for

ASSUME DashboardAssumption ==
  /\ Txns \subseteq Nat /\ IsFiniteSet(Txns) /\ IsFiniteSet(Categories)
  /\ Reports \in [Txns -> [account : Accounts, day : Days, amount : Int, pending : BOOLEAN]]
  /\ Instants \subseteq {Midnight(d) + 1 : d \in Days}
  /\ Targets \subseteq [income : Nat, savings : Nat]
  /\ Amounts \subseteq Nat
  /\ NoCategory \notin Categories
  /\ {"income", "savings", "uncategorized", "everything-else"} \cap Categories = {}
  /\ MaxMoves \in Nat
  /\ \A a \in Addresses : /\ a.page \in {"tracker", "wrap", "drill", "activity"}
                          /\ a.page = "wrap" => a.month \in Months

VARIABLES
  ledger,    \* ledger[t]: the row of t
  accounts,  \* the accounts stored
  archived,  \* the archived categories
  targets,   \* the budget row
  limits,    \* the stored limits, archived categories' included
  now,       \* the instant
  page,      \* what the tab shows
  requests,  \* the requests in flight for it
  queued,    \* a change was announced while the refresh listener's was
  editor,    \* the save in progress in the transaction editor
  form,      \* the categories the budget editor shows
  post,      \* its save in progress
  moves      \* what has changed, failed or been asked for so far

tables == <<ledger, accounts, archived, targets, limits>>
tab == <<page, requests, queued>>
vars == <<tables, now, tab, editor, form, post, moves>>

Move == moves < MaxMoves /\ moves' = moves + 1

-----------------------------------------------------------------------------
(* Rows and what the queries return of them.                                *)

Facets(class, category, subtype, destined) ==
  [class |-> class, category |-> category, subtype |-> subtype, destined |-> destined,
   overridden |-> FALSE, marked |-> FALSE]

NoFacets == Facets("", NoCategory, "", FALSE)

\* What a sync or a rule may make of a row.
Decisions ==
  {[class |-> "spending", category |-> k] : k \in Categories \cup {NoCategory}}
    \cup {[class |-> c, category |-> NoCategory] : c \in {"income", "transfer", "needs_review"}}

\* What the user may choose: a spending category is required.
UserChoices == {d \in Decisions : d.class = "spending" => d.category # NoCategory}

Row(t, facets) ==
  [txn |-> t, account |-> Reports[t].account, day |-> Reports[t].day,
   amount |-> Reports[t].amount, pending |-> Reports[t].pending,
   class |-> facets.class, category |-> facets.category, subtype |-> facets.subtype,
   destined |-> facets.destined, overridden |-> facets.overridden, marked |-> facets.marked]

Stored == {t \in Txns : ledger[t] # Absent}

\* Joined on the account: rows of a removed one are left out.
Listed == {ledger[t] : t \in {s \in Stored : ledger[s].account \in accounts}}

RowsOfMonth(m) == {r \in Listed : r.day \in MonthRange(m)}

\* The earliest date is taken over every row stored.
Earliest == IF Stored = {} THEN NoDate ELSE Min({ledger[t].day : t \in Stored})

ActiveLimits(stored, active) == [k \in DOMAIN stored \cap active |-> stored[k]]
Active == Categories \ archived

-----------------------------------------------------------------------------
(* Pages.                                                                   *)

Tracker == [page |-> "tracker", month |-> Nothing, bucket |-> Nothing]
Wrap(m) == [page |-> "wrap", month |-> m, bucket |-> Nothing]
Drill(m, b) == [page |-> "drill", month |-> m, bucket |-> b]
Activity(filter) == [page |-> "activity", month |-> Nothing, bucket |-> filter]

\* The first statement of each page.
RowsFor(address) ==
  CASE address.page = "tracker"  -> RowsOfMonth(CurrentMonth(now))
    [] address.page = "activity" ->
         IF address.bucket = "needs-attention" THEN {r \in Listed : NeedsAttention(r)}
                                               ELSE MostRecent(Listed, RecentLimit)
    [] OTHER                     -> RowsOfMonth(address.month)

NothingRead == [now |-> Nothing, rows |-> Nothing, targets |-> Nothing,
                limits |-> Nothing, edge |-> Nothing]

\* What a page's region shows of what was read.
View(address, reads) ==
  CASE address.page = "tracker" ->
         [rows |-> reads.rows, figures |->
            BuildTracker(reads.rows, reads.targets, reads.limits, DaysLeftInclusive(reads.now))]
    [] address.page = "wrap"    -> [rows |-> reads.rows, figures |-> BuildWrap(reads.rows)]
    [] address.page = "drill"   ->
         LET drill == SpendDrill(reads.rows, address.bucket, reads.limits)
         IN  [rows |-> drill.rows, figures |-> drill.total]
    [] OTHER                    -> [rows |-> reads.rows, figures |-> Nothing]

\* Everything read at this moment.
ReadNow(address) ==
  [now |-> now, rows |-> RowsFor(address), targets |-> targets,
   limits |-> ActiveLimits(limits, Active), edge |-> Earliest]

ViewNow(address) == View(address, ReadNow(address))

\* What the badges of a wrap show.
BadgesOf(address, reads) ==
  IF address.page = "wrap"
  THEN WrapBadges(reads.rows, PartialMonth(reads.edge, address.month)) ELSE Nothing

\* The page made of these reads: its region and, outside of it, the label, the badges
\* and the rail, which has a clock and a date of its own.
PageOf(address, reads, lag) ==
  [address |-> address, view |-> View(address, reads), lag |-> lag,
   month |-> IF address.page = "tracker" THEN CurrentMonth(reads.now) ELSE address.month,
   badges |-> BadgesOf(address, reads),
   rail |-> IF address.page \in {"tracker", "wrap"} THEN MonthRail(Earliest, CurrentMonth(now))
                                                    ELSE {}]

\* The statements of a page, in order; the last one answers.
Stages(address) ==
  CASE address.page = "tracker" -> {"rows", "targets", "limits", "active", "respond"}
    [] address.page = "wrap"    -> {"rows", "edge", "respond"}
    [] address.page = "drill" /\ address.bucket = "everything-else" ->
         {"rows", "targets", "limits", "active", "respond"}
    [] OTHER                    -> {"rows", "respond"}

NextStage(address, stage) ==
  CASE stage = "rows" /\ "targets" \in Stages(address) -> "targets"
    [] stage = "rows" /\ "edge" \in Stages(address)    -> "edge"
    [] stage = "targets"                               -> "limits"
    [] stage = "limits"                                -> "active"
    [] OTHER                                           -> "respond"

\* A request of an element.  One that is none's is a slot free; one whose element is
\* gone was sent from a region replaced since.  What changed and its rows do not have is
\* "asked" for by a later request, or "missed".
Get(element, address) ==
  [element |-> element, address |-> address, stage |-> "rows", reads |-> NothingRead,
   lag |-> "none"]

Idle == Get("none", Tracker)
InFlight == {s \in Slots : requests[s].element # "none"}
Busy(element) == \E s \in InFlight : requests[s].element = element

OnRegion == {"listener", "sync", "tab"}

NoSave == [stage |-> "none", txn |-> Nothing, class |-> Nothing]
NoPost == [stage |-> "none", targets |-> Nothing, amounts |-> Nothing, limits |-> Nothing]

Budgets == UNION {[K -> Amounts \ {0}] : K \in SUBSET Categories}

Subtypes == {"", "plain", "savings_contribution"}

Rows ==
  [txn : Txns, account : Accounts, day : Days, amount : Int, pending : BOOLEAN,
   class : {"", "spending", "income", "transfer", "needs_review"},
   category : Categories \cup {NoCategory}, subtype : Subtypes,
   destined : BOOLEAN, overridden : BOOLEAN, marked : BOOLEAN]

\* The facets some writer may leave: only an outflow is marked, with a subtype, and one
\* that the user has the last word on only while it is a transfer.
RowOK(r, t) ==
  /\ r \in Rows /\ r.txn = t
  /\ r.category # NoCategory => r.class = "spending"
  /\ r.marked => r.subtype # "" /\ r.amount > 0
  /\ r.marked /\ r.overridden => r.class = "transfer"

NoTargets == [income |-> 0, savings |-> 0]

\* What there is to start from is what the writers leave.
ASSUME StartAssumption ==
  /\ \A l \in Ledgers : /\ DOMAIN l = Txns
                         /\ \A t \in Txns : l[t] # Absent => RowOK(l[t], t)
  /\ \A budget \in SavedBudgets :
       budget.targets \in Targets \cup {NoTargets} /\ budget.limits \in Budgets

\* Every variable has its type; a budget limit is positive, and a row's facets are
\* those some writer may leave.  A listener and a sync form have one request each in
\* flight, and only a listener waiting for its answer has another to send.
TypeOK ==
  /\ DOMAIN ledger = Txns /\ \A t \in Stored : RowOK(ledger[t], t)
  /\ accounts \subseteq Accounts /\ archived \subseteq Categories
  /\ targets \in Targets \cup {NoTargets} /\ limits \in Budgets
  /\ now \in Instants
  /\ page.lag \in {"none", "asked", "missed"}
  /\ DOMAIN requests = Slots
  /\ \A s \in InFlight :
       /\ requests[s].element \in OnRegion \cup {"page", "gone"}
       /\ requests[s].stage \in Stages(requests[s].address)
       /\ requests[s].element \in OnRegion => requests[s].address.page = page.address.page
       /\ requests[s].element \in {"listener", "sync"} =>
            \A t \in InFlight \ {s} : requests[t].element # requests[s].element
  /\ queued => Busy("listener")
  /\ editor.stage \in {"none", "check", "mark", "announce"}
  /\ form \in (SUBSET Categories) \cup {Nothing}
  /\ post.stage \in {"none", "active", "save", "render"}
  /\ moves \in 0..MaxMoves

\* The rail and the back-links lead to no month after the current one.
Linked == {a \in Addresses : a.page = "wrap" => a.month <= CurrentMonth(now)}

\* A wrap of the current month: the tracker in its place.
OfCurrentMonth(address) == address.page = "wrap" /\ address.month = CurrentMonth(now)

Init ==
  /\ ledger \in Ledgers
  /\ accounts = Accounts
  /\ archived = {}
  /\ \E budget \in SavedBudgets : targets = budget.targets /\ limits = budget.limits
  /\ now \in Instants /\ \A i \in Instants : now <= i
  /\ page \in {PageOf(a, ReadNow(a), "none") : a \in {b \in Linked : ~OfCurrentMonth(b)}}
  /\ requests = [s \in Slots |-> Idle] /\ queued = FALSE
  /\ editor = NoSave
  /\ form = Nothing /\ post = NoPost
  /\ moves = 0

-----------------------------------------------------------------------------
(* The requests: a whole page's, or one for the region of the page on screen. *)

\* What changes now, the screen does not show, nor will an answer whose rows are read.
Behind(r, lag) == IF r.stage = "rows" THEN r ELSE [r EXCEPT !.lag = lag]
Changed(lag) ==
  /\ page' = [page EXCEPT !.lag = lag]
  /\ requests' = [s \in Slots |-> Behind(requests[s], lag)]

\* The next of the page's statements, with what this one returned.
Reading(s, stage, reads) ==
  /\ s \in InFlight /\ requests[s].stage = stage
  /\ requests' = [requests EXCEPT ![s].stage = NextStage(requests[s].address, stage),
                                  ![s].reads = reads]
  /\ UNCHANGED <<tables, now, page, queued, editor, form, post, moves>>

\* A wrap of the current month is redirected to the tracker.
Redirect(s) ==
  /\ s \in InFlight /\ requests[s].stage = "rows" /\ OfCurrentMonth(requests[s].address)
  /\ requests' = [requests EXCEPT ![s] = Get(requests[s].element, Tracker)]
  /\ UNCHANGED <<tables, now, page, queued, editor, form, post, moves>>

ReadRows(s) ==
  LET r == requests[s]
  IN /\ ~OfCurrentMonth(r.address)
     /\ Reading(s, "rows", [r.reads EXCEPT !.now = now, !.rows = RowsFor(r.address)])

\* The residual of a past month has no budget to be drilled against.
ResidualAvailable(address) == address.page = "drill" => address.month = CurrentMonth(now)

ReadTargets(s) ==
  /\ ResidualAvailable(requests[s].address)
  /\ Reading(s, "targets", [requests[s].reads EXCEPT !.targets = targets])

ReadLimits(s) == Reading(s, "limits", [requests[s].reads EXCEPT !.limits = limits])

\* The limits of archived categories are dropped.
ReadActive(s) ==
  LET reads == requests[s].reads
  IN Reading(s, "active", [reads EXCEPT !.limits = ActiveLimits(reads.limits, Active)])

ReadEdge(s) == Reading(s, "edge", [requests[s].reads EXCEPT !.edge = Earliest])

\* The body is replaced: no answer reaches the old page's region any more, while other
\* pages asked for still come.
SwapPage(s) ==
  LET r == requests[s]
  IN /\ r.element = "page" /\ r.stage = "respond"
     /\ page' = PageOf(r.address, r.reads, IF r.lag = "none" THEN "none" ELSE "missed")
     /\ requests' = [t \in Slots |-> IF t # s /\ requests[t].element = "page" THEN requests[t]
                                                                         ELSE Idle]
     /\ queued' = FALSE
     /\ UNCHANGED <<tables, now, editor, form, post, moves>>

\* An answer without what a later one may have shown.
LagAfter(r) ==
  IF r.lag = "none" THEN "none" ELSE IF page.lag = "asked" THEN r.lag ELSE "missed"

\* The region is replaced and the elements in it are gone, with what waited to be sent;
\* the answers to those still come.
SwapRegion(s) ==
  LET r == requests[s]
  IN /\ r.element \in OnRegion \cup {"gone"} /\ r.stage = "respond"
     /\ page' = [page EXCEPT !.address = r.address, !.view = View(r.address, r.reads),
                             !.lag = LagAfter(r)]
     /\ requests' = [t \in Slots |->
                       IF t = s THEN Idle
                       ELSE IF requests[t].element \in OnRegion
                              THEN [requests[t] EXCEPT !.element = "gone"]
                              ELSE requests[t]]
     /\ queued' = FALSE
     /\ UNCHANGED <<tables, now, editor, form, post, moves>>

\* A failed statement, or the drill of a residual that is no longer there: what is on
\* screen stays, and a listener sends what waited.
FailRequest(s) ==
  LET r == requests[s]
      resent == r.element = "listener" /\ queued
  IN /\ s \in InFlight
     /\ \/ Move
        \/ r.stage = "targets" /\ ~ResidualAvailable(r.address) /\ UNCHANGED moves
     /\ requests' = [requests EXCEPT ![s] =
                       IF resent THEN Get("listener", page.address) ELSE Idle]
     /\ page' = [page EXCEPT !.lag = IF resent THEN "asked"
                                     ELSE IF @ = "asked" /\ r.lag = "none" THEN "missed" ELSE @]
     /\ queued' = (queued /\ ~resent)
     /\ UNCHANGED <<tables, now, editor, form, post>>

Send(element, address) ==
  /\ \E s \in Slots \ InFlight : requests' = [requests EXCEPT ![s] = Get(element, address)]
  /\ UNCHANGED <<tables, now, page, queued, editor, form, post>>

\* A link, each an element of its own; the editor, when open, covers them.
Navigate(address) ==
  /\ Move
  /\ editor.stage = "none"
  /\ Send("page", address)

\* The sync button of the activity list answers with its region.
PostSync ==
  /\ Move
  /\ page.address.page = "activity" /\ ~Busy("sync")
  /\ Send("sync", page.address)

\* A tab of the activity list: its region with the other rows.
SwitchView(address) ==
  /\ Move
  /\ page.address.page = "activity" /\ address.page = "activity"
  /\ ~\E s \in InFlight : requests[s].element = "tab" /\ requests[s].address = address
  /\ Send("tab", address)

-----------------------------------------------------------------------------
(* The transaction editor. *)

\* The row with the columns of change written over.
Updated(row, change) ==
  [column \in DOMAIN row |-> IF column \in DOMAIN change THEN change[column] ELSE row[column]]

\* A write by id to a row removed meanwhile changes nothing.
Write(t, change) ==
  ledger' = IF t \in Stored THEN [ledger EXCEPT ![t] = Updated(ledger[t], change)] ELSE ledger

\* Mutant: a destination outlives the transfer.
OverriddenInPlace(choice) ==
  [class |-> choice.class, category |-> choice.category, overridden |-> TRUE]

\* OverrideTransactionCategorization: off a transfer the destination goes too.
Overridden(choice) ==
  IF choice.class = "transfer"
  THEN [class |-> choice.class, category |-> choice.category, overridden |-> TRUE]
  ELSE [class |-> choice.class, category |-> choice.category, overridden |-> TRUE,
        subtype |-> "", destined |-> FALSE, marked |-> FALSE]

PostEdit(t, choice) ==
  /\ Move
  /\ editor.stage = "none" /\ ~Busy("page")
  /\ t \in {r.txn : r \in page.view.rows}
  /\ Write(t, Overridden(choice))
  /\ editor' = [stage |-> "check", txn |-> t, class |-> choice.class]
  /\ UNCHANGED <<accounts, archived, targets, limits, now, tab, form, post>>

\* The row is read back: only an outflow saved as a transfer carries a destination.
CheckOutflow ==
  /\ editor.stage = "check"
  /\ \E r \in Listed :
       /\ r.txn = editor.txn
       /\ editor' = [editor EXCEPT !.stage =
                       IF editor.class = "transfer" /\ r.amount > 0 THEN "mark" ELSE "announce"]
  /\ UNCHANGED <<tables, now, tab, form, post, moves>>

\* The row as it is now must still be such a transfer.
Markable(t) == t \in Stored /\ ledger[t].class = "transfer" /\ ledger[t].amount > 0

\* Mutant: the save ends with its second statement and nothing is announced.
MarkUnannounced(destined, subtype) ==
  /\ editor.stage = "mark"
  /\ Markable(editor.txn)
  /\ Write(editor.txn, [destined |-> destined, subtype |-> subtype, marked |-> TRUE])
  /\ editor' = NoSave
  /\ UNCHANGED <<accounts, archived, targets, limits, now, tab, form, post, moves>>

MarkTransferDestination(destined, subtype) ==
  /\ editor.stage = "mark"
  /\ Markable(editor.txn)
  /\ Write(editor.txn, [destined |-> destined, subtype |-> subtype, marked |-> TRUE])
  /\ editor' = [editor EXCEPT !.stage = "announce"]
  /\ UNCHANGED <<accounts, archived, targets, limits, now, tab, form, post, moves>>

\* transaction-changed: the listener reads the region on screen again, or waits to while
\* a request of its own is in flight.
Announce ==
  /\ editor.stage = "announce"
  /\ editor' = NoSave
  /\ \/ /\ ~Busy("listener")
        /\ \E s \in Slots \ InFlight :
             requests' = [t \in Slots |-> IF t = s THEN Get("listener", page.address)
                                                  ELSE Behind(requests[t], "asked")]
        /\ page' = [page EXCEPT !.lag = "asked"]
        /\ UNCHANGED queued
     \/ Busy("listener") /\ Changed("missed") /\ queued' = TRUE
  /\ UNCHANGED <<tables, now, form, post, moves>>

\* The row is gone, no longer markable, or a statement fails: what was written stays
\* and nothing is announced.
FailEdit ==
  /\ editor.stage # "none"
  /\ \/ Move
     \/ /\ \/ editor.stage = "check" /\ editor.txn \notin {r.txn : r \in Listed}
           \/ editor.stage = "mark" /\ ~Markable(editor.txn)
        /\ UNCHANGED moves
  /\ editor' = NoSave
  /\ Changed("missed")
  /\ UNCHANGED <<tables, now, queued, form, post>>

-----------------------------------------------------------------------------
(* The budget editor. *)

\* GET /budget: a row for every active category.
GetBudgetPage ==
  /\ Move
  /\ post.stage = "none"
  /\ form' = Active
  /\ UNCHANGED <<tables, now, tab, editor, post>>

\* Categories the form does not show are not submitted.
PostBudget(plan, amounts) ==
  /\ Move
  /\ form # Nothing /\ post.stage = "none"
  /\ \A k \in Categories \ form : amounts[k] = 0
  /\ post' = [stage |-> "active", targets |-> plan, amounts |-> amounts, limits |-> Nothing]
  /\ UNCHANGED <<tables, now, tab, editor, form>>

\* Of the categories active now, those with a positive amount.
SubmittedLimits ==
  /\ post.stage = "active"
  /\ post' = [post EXCEPT !.stage = "save", !.limits =
                [k \in {c \in Active : post.amounts[c] > 0} |-> post.amounts[k]]]
  /\ UNCHANGED <<tables, now, tab, editor, form, moves>>

\* One transaction: the budget row, and all limits replaced.
SetBudget ==
  /\ post.stage = "save"
  /\ targets' = post.targets /\ limits' = post.limits
  /\ post' = [post EXCEPT !.stage = "render"]
  /\ Changed("missed")
  /\ UNCHANGED <<ledger, accounts, archived, now, queued, editor, form, moves>>

\* The form is rendered anew: after the save, or without one for an amount that does
\* not parse.
RenderBudget ==
  /\ \/ post.stage = "render" /\ UNCHANGED moves
     \/ post.stage = "active" /\ Move
  /\ form' = Active
  /\ post' = NoPost
  /\ UNCHANGED <<tables, now, tab, editor>>

\* The transaction is rolled back; the form stays as it was.
FailBudget ==
  /\ Move
  /\ post.stage \in {"active", "save", "render"}
  /\ post' = NoPost
  /\ UNCHANGED <<tables, now, tab, editor, form>>

-----------------------------------------------------------------------------
(* What changes with nothing announced. *)

Silently == Move /\ Changed("missed") /\ UNCHANGED <<now, queued, editor, form, post>>
OnlyLedger == UNCHANGED <<accounts, archived, targets, limits>>

BankPosts(t) ==
  /\ Silently /\ OnlyLedger
  /\ ledger[t] = Absent /\ Reports[t].account \in accounts
  /\ ledger' = [ledger EXCEPT ![t] = Row(t, NoFacets)]

BankSettles(t) ==
  /\ Silently /\ OnlyLedger
  /\ t \in Stored /\ ledger[t].pending
  /\ Write(t, [pending |-> FALSE])

BankRemoves(t) ==
  /\ Silently /\ OnlyLedger
  /\ t \in Stored
  /\ ledger' = [ledger EXCEPT ![t] = Absent]

\* SetTransactionCategorization: an overridden row is skipped, and the destination is
\* left alone.
Recategorize(t, decision) ==
  /\ Silently /\ OnlyLedger
  /\ t \in Stored /\ ~ledger[t].overridden
  /\ Write(t, decision)

\* SetTransactionTransferDestination: a pass pairs the outflows.
Pair(t, destined, subtype) ==
  /\ Silently /\ OnlyLedger
  /\ Markable(t) /\ ~ledger[t].marked
  /\ subtype = "savings_contribution" => destined
  /\ Write(t, [destined |-> destined, subtype |-> subtype])

\* The rows of a disconnected bank stay, without their account.
Disconnect(a) ==
  /\ Silently
  /\ accounts' = accounts \ {a} /\ accounts' # accounts
  /\ UNCHANGED <<ledger, archived, targets, limits>>

ArchiveCategory(k) ==
  /\ Silently
  /\ archived' = archived \cup {k} /\ archived' # archived
  /\ UNCHANGED <<ledger, accounts, targets, limits>>

UnarchiveCategory(k) ==
  /\ Silently
  /\ archived' = archived \ {k} /\ archived' # archived
  /\ UNCHANGED <<ledger, accounts, targets, limits>>

TimePasses(instant) ==
  /\ instant \in Instants /\ instant > now
  /\ now' = instant
  /\ Changed("missed")
  /\ UNCHANGED <<tables, queued, editor, form, post, moves>>

-----------------------------------------------------------------------------
Home ==
  \/ \E s \in Slots :
       \/ Redirect(s) \/ ReadRows(s) \/ ReadTargets(s) \/ ReadLimits(s) \/ ReadActive(s)
       \/ ReadEdge(s) \/ SwapPage(s) \/ SwapRegion(s) \/ FailRequest(s)
  \/ \E address \in Linked : Navigate(address) \/ SwitchView(address)
  \/ PostSync

Editor ==
  \/ \E t \in Txns : \E choice \in UserChoices : PostEdit(t, choice)
  \/ CheckOutflow
  \/ \E destined \in BOOLEAN : \E subtype \in {"plain", "savings_contribution"} :
       MarkTransferDestination(destined, subtype)
  \/ Announce \/ FailEdit

BudgetEditor ==
  \/ GetBudgetPage \/ SubmittedLimits \/ SetBudget \/ RenderBudget \/ FailBudget
  \/ \E plan \in Targets : \E amounts \in [Categories -> Amounts] : PostBudget(plan, amounts)

Others ==
  \/ \E t \in Txns : BankPosts(t) \/ BankSettles(t) \/ BankRemoves(t)
  \/ \E t \in Txns : \E decision \in Decisions : Recategorize(t, decision)
  \/ \E t \in Txns : \E destined \in BOOLEAN : \E subtype \in {"plain", "savings_contribution"} :
       Pair(t, destined, subtype)
  \/ \E a \in Accounts : Disconnect(a)
  \/ \E k \in Categories : ArchiveCategory(k) \/ UnarchiveCategory(k)
  \/ \E instant \in Instants : TimePasses(instant)

Next == Home \/ Editor \/ BudgetEditor \/ Others

Spec == Init /\ [][Next]_vars

-----------------------------------------------------------------------------
(* Properties. *)

\* No request and no save is in flight.
AtRest == InFlight = {} /\ editor.stage = "none"

\* At rest, what is on screen is what the tables say, unless the screen missed something:
\* a change that was not announced, or announced while the listener was waiting for an
\* answer, or whose read failed or was answered before an older one.  The editor writes
\* in two statements and announces them once; each read takes up to four (PostEdit,
\* announceChange, the pages' refresh listeners).
StaleOnlyIfMissed ==
  AtRest /\ page.lag # "missed" => page.view = ViewNow(page.address)

\* However its reads interleave with changes, a page on screen adds up: a tracker's
\* lines and the rest share the plan and the spending between them without gap or
\* overlap, a wrap's categories share the spending, and the list below sums to the same
\* (BuildTracker, BuildWrap).
PartsSumToTotal ==
  LET f == page.view.figures
      spent == Net({r \in page.view.rows : r.class = "spending"})
      Over(field) == SumFunction([k \in DOMAIN f.lines |-> f.lines[k][field]]) + f.rest[field]
  IN /\ page.address.page = "tracker" /\ ~f.needsBudget =>
          /\ Over("limit") = f.total.limit
          /\ Over("spent") = spent
          /\ f.total.remaining = f.total.limit - spent
     /\ page.address.page = "wrap" =>
          /\ SumFunction(f.byCategory) = spent
          /\ f.surplus = f.gross - spent - f.saved

\* Every figure that can be drilled is, in the page of any one moment, the total of the
\* page its link leads to: a tracker's lines, rest, income and savings, a wrap's
\* categories, income and savings.  The drills select with queries and predicates of
\* their own (SpendDrill).
DrillsReconcile ==
  LET a == page.address
      f == ViewNow(a).figures
      month == IF a.page = "tracker" THEN CurrentMonth(now) ELSE a.month
      Drilled(bucket) == ViewNow(Drill(month, bucket)).figures
  IN /\ a.page = "tracker" =>
          /\ Drilled("income") = f.actuals.income /\ Drilled("savings") = f.actuals.saved
          /\ ~f.needsBudget => /\ Drilled("everything-else") = f.rest.spent
                               /\ \A k \in DOMAIN f.lines : Drilled(k) = f.lines[k].spent
     /\ a.page = "wrap" =>
          /\ Drilled("income") = f.gross /\ Drilled("savings") = f.saved
          /\ \A k \in DOMAIN f.byCategory :
               Drilled(IF k = NoCategory THEN "uncategorized" ELSE k) = f.byCategory[k]

\* A limit on an archived category is inert but stays stored, so that it revives when
\* the category does (budget.go: "stays in storage so it revives"): a save whose form
\* did not show the category keeps its limit.
ArchivedLimitStays ==
  [][\A k \in archived \cap DOMAIN limits :
       form # Nothing /\ k \notin form => k \in DOMAIN limits' /\ limits'[k] = limits[k]]_vars
=============================================================================
