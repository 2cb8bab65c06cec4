# Two Cents: a verification project

Two Cents is a self-hosted, single-user budgeting web application: a Go server over
one SQLite file, with Plaid (or an in-process fake bank) behind a provider seam.
This directory holds TLA+ modules that model its core, TLC configurations that check
them on small instances and proofs that TLAPS checks for every value of the
constants.  Paths below are relative to `src/src/internal` unless they start with
`src/`.

## 1. Inventory of the system

| part | state it keeps | operations | what is hard about it |
|---|---|---|---|
| **accounts** (`accounts`) | connection rows (state, encrypted token), account rows (bank facts plus the user's kind, savings flag, name, hidden state, statement, payment schedule) | connect, reconnect, disconnect, `SyncAccounts`, `ConnectionsToSync`, the account edits | read-then-write of whole rows; a disconnect or an edit in the middle of a sync; connection health that must heal |
| **transactions** (`transactions`) | transaction rows, one resume cursor per connection, merchant-logo cache | `SyncTransactions`, the categorization sweep, transfer pairing, the user's edits, `ApplyCategorization` | overlapping passes, per-connection and per-stage failure isolation, cursor against data, automatic writers against the user's sticky choices |
| **categorization** (`categorization`) | categories, rules | `Resolve`, rule and category edits with re-application | precedence and tie-breaks; rule edits that run at once |
| **schedule** (`schedule`) | schedule items, occurrence matches | item edits, manual match, clear, confirm, `ResolveOccurrenceMatches` | one transaction settles at most one occurrence; a pass that fails half way; pass against user |
| **sweep** (`sweep`) | immutable recommendation snapshots, safety margin | `Compute`, `Run`, monthly task | order of events on a day, peak obligation at its boundaries, inputs read by separate statements |
| **budget**, **home**, **tracker**, **reporting** | budget rows; the rest derive from the ledger | read models, budget edits | month boundaries, what counts as spending, income or savings |
| **banking**, **plaid**, **fakebank** | provider client state | the provider seam | pagination, error classes |
| **auth**, **core**, **server** | users, sessions, cron | HTTP plumbing, encryption, task runner, composition root | nothing of their own: cron starts a pass whether or not another is running |

Calls go one way: `server` wires `transactions -> accounts, categorization` and hands
`schedule` a ledger over `transactions`; `categorization` calls back into
`transactions.ApplyCategorization` after a rule change, and `transactions` calls back
into `schedule.ResolveOccurrenceMatches` at the end of a pass.  What interacts through
shared state is the SQLite file: HTTP handlers and cron run on goroutines of their own
with no application lock, a statement is atomic, and a group of statements is atomic
only inside `db.WithTx`.

What is correct, for each part:

* **transactions** - the store is the bank's record at the stored cursor, and the cursor
  never passes data that was not applied; a broken login does not cost a healthy one its
  pull; what the user chose for a row stays; a row that can be classified or paired is, in
  the end; a transfer's destination and subtype agree with its inflows.
* **categorization** - a classified row is where the stored rules put it; a category sits
  on spending only; an archived category is never assigned.
* **schedule** - a transaction settles at most one occurrence; a decision of the user's
  stands; an occurrence that one transaction plainly paid is matched, and one whose
  transaction was removed is not; the passes come to rest.
* **accounts** - what a sync may write and what only the user may write do not mix; a
  credit account is never savings; a login that answers again is active again; a card's
  cycle is the last one the bank reported or none.
* **sweep** - the required balance is the least that keeps checking from going negative
  within the month; what is not known never lowers it; a snapshot describes one moment.
* **budget, home, tracker, reporting** - the parts sum to the totals shown beside them; a
  limit comes back with its category.

The parts that have no module are listed in `PROJECT.json` with the reason: rendering,
HTTP plumbing, start-up, authentication (no state but a password hash), the provider's
field mapping.

## 2. Plan

| step | modules | composes | abstract specification | status |
|---|---|---|---|---|
| 1 | `BankFeed`, `SyncPass`, `BankMirror`, `SyncPassProofs` | transactions, accounts, the bank | `BankMirror` | done, proved for one pass at a time |
| 2 | `Categorization`, `TransactionFacets`, `TransactionFacetsProofs` | the pure decisions; sweep, pairing, rules, editor | - | done, safety proved |
| 3 | `OccurrenceMatching`, `OccurrenceMatchingProofs` | the ledger, the user, the resolution pass | - | done, safety proved |
| 4 | `AccountTable`, `AccountRows`, `AccountRowsProofs` | the statements on account and connection rows; syncs, reconnecting, edits, the accounts page | every row is the last sync's facts beside the last user choices (`ChoicesStand`, `InStep`) | done, safety proved |
| 5 | `Calendar`, `ScheduleView`, `SweepTimeline`, `SweepRun`, `CalendarProofs`, `SweepRunProofs` | cards, schedule, matches, history, page | the least balance, by definition, against the walk of the events (`RequirementIsLeast`) | done, safety proved |
| 6 | `MonthFigures`, `Dashboard`, `DashboardProofs` | budget, tracker, reporting, home, the editor's announcement | the page as it would be read at this moment (`ViewNow`) | done, safety proved |
| 7 | `FiniteReasoning` | facts about finite sets and sums that the proofs share | - | done |

Every invariant of the runs expected to pass is a theorem, and so is the one refinement.
Left, in the order of their worth: a `SyncPass` theorem for overlapping passes that weakens
the one-pass assumption to one pass per login; an abstract specification of the account
rows and its refinement; what two goroutines do keep of `ManualStands` and `MatchesHaveItem`.

Modules meant for proofs declare no RECURSIVE operator; constants carry named
assumptions, invariants are conjunctions of named parts, and one action stands for one
statement, transaction or provider call.

## 3. The modules and the code

**Granularity.**  SQLite serializes writers, so a statement outside `db.WithTx` and a
whole `WithTx` callback are one step each; a call to the provider is one step.  Between
two steps of a goroutine any other may run.

**`BankFeed`** is the provider seam (`banking`, with `plaid.SyncTransactions` and the fake
bank as its two implementations): a login has a history of changes, a cursor is a
position in it, and a pull reports what changed between two positions.  A version number
stands for a transaction's content.

**`SyncPass`** is `transactions.SyncTransactions` down to the stages that read only the
store: `accounts.SyncAccounts`, `ConnectionsToSync`, then for each connection the cursor
read, the pull and the transaction that applies it.  `pc` names the stage, `todo` the
connections the loop still has to visit, `current`, `seen`, `from`, `upto` the local
variables of one visit, `attribution` the account id maps.  `Passes` are the goroutines
(cron, `POST /transactions/sync`, the backfill after a connect), and beside them run the
bank, `RegisterConnection`, the two halves of `Disconnect`, crashes and cancelled
requests.  Left out of it: connection health and card statements inside `SyncAccounts`,
and the wording of the collected error.

**`BankMirror`** is what the sync promises: each login is mirrored at some position, and a
step moves one login forward, whole.

**`Categorization`** is the pure part of the package of that name: `Resolve` (rules by
length, then age; the bank's category; the direction) and `ResolveTransferSubtype`.
**`TransactionFacets`** is everything that writes what they decide: the categorization
sweep, pairing, the three rule edits with re-application, the editor's two writes, the
savings flag, archiving.  `form` is the bank's columns of a row, `bucket` and
`destination` its two facets, `overridden` and `marked` the user's sticky flags; `choice`,
`mark` and `aged` are history variables, read by properties only.  Merchant text is
abstracted to which patterns occur in which merchant.

**`OccurrenceMatching`** is the schedule service over one table of decisions: item edits,
manual match, clear, confirm, creating an item from a transaction, and the resolution pass
statement by statement.  `learned`, `claimedBy` and `decisions` are the pass's local maps;
`orphans` the rows it will drop.  The reads of the ledger are merged into the statement on
the matches table they go with.  `decided` is a history variable.  A failing statement and
a restart are one action, `Fail`.

**`AccountTable`** holds the statements on account and connection rows and the pure
functions over a row: what a sync may write beside what only the user may, the payment
date, staleness, the checking account, the overview and the dashboard's groups.
**`AccountRows`** runs them: connecting and disconnecting in two halves, `SyncAccounts` and
a reconnect as passes (`job`), provider call, state flag, account write, statement read and
one write per card, and the user's edits (`edit`) as the read and the whole-row write they
are.  `login` and `product` are the bank's side; `wish` and `overlapped` are history
variables.  An account that was removed and listed again gets a new id (two generations are
told apart).  The listing of accounts and that of balances are one call; a response and the
listing it is matched with are one step; the override flags are left out, for what the user
decided is in `wish`.

**`Calendar`** is `core/timex` and the schedule's date arithmetic on months of real lengths:
a day is a number, an instant half a day.  **`ScheduleView`** is what the schedule answers
about occurrences: outstanding, overdue, next, attachable.  **`SweepTimeline`** is the pure
part of the sweep, from account rows to recommendation, its history and the steps between
snapshots.  **`SweepRun`** runs it: the monthly job and the user's button read accounts,
items, matches and margin in five statements and append, while accounts, items, matches,
the margin and the time change and the page is asked for snapshots.  `ZoneShift` is the
half day between a midnight of the bank (UTC) and one of the app.  `inputs` is a history
variable: what each run read.  The clock is read with the first statement; an item carries
its resolved amount as data (`OccurrenceMatching` computes it); the page's reads are one step.

**`MonthFigures`** is the plan, the tracker, the wrap, the drill-downs and the rail as
functions of a set of rows, in whole cents (the forms take steps of a cent, and every sum
in the code is of rounded cents).  **`Dashboard`** puts them on screen.  `page` is what one
tab shows; `editor` and `post` are the saves in progress, `form` the categories the budget
form shows.  The sync, the rules, the pairing, a disconnect and archiving change the same
tables by themselves (`Others`); which rows they write is the matter of the modules above,
here they write any they may.

`requests` holds the requests the tab has in flight, each with the element that sent it, its
address and what its statements have returned so far.  Elements are the refresh listener,
the sync form, the activity list's tabs and the links (`page`, each link an element of its
own).  Requests of different elements run side by side and their answers may come in
any order; one element has one request in flight.  What the listener is to send while its
own is in flight waits (`queued`).  The listener is an element inside the region that its
answer replaces (`tracker_page.templ` 55-64, `wrap_page.templ` 98-113,
`transactions_page.templ` 188-198), and htmx sends nothing for an element that has left the
document: a successful answer, of whichever element, drops what waited (`SwapRegion`), and only
a failed one lets it be sent (`FailRequest`).  The elements of a replaced region are
`gone`; their answers still come.  A region's answer replaces its rows and figures and
leaves what stands outside it as the page was loaded: the label, the rail and a
wrap's Settling and Partial badges (`month`, `rail` and `badges` of `page`;
`wrap_page.templ` 27-40).  htmx is not in the repository; its queue and its rule for
removed elements are modelled from how the templates use it.

`lag`, on the page and on every request whose rows are read, is a history variable: `none`
as long as nothing has changed since the read began, `asked` when a later request was
sent to show the change, `missed` when none was (the change was not announced, its announcement
waits behind a request, or the request for it failed) or its answer may have been replaced
by an older one.

Simplifications: the editor is a modal, so no link is followed while it is open, and no edit
begins while a page load is in flight; an announcement waits for a free slot (`Slots` bounds
the requests in flight); the activity list's search form and the region refreshes of the
schedule pages are left out.  The budget page is read in one step, and so is the row a
destination mark is validated against.  Names, logos, currencies, the schedule's marks on
rows and the weekly pace are left out.

The `MC*` modules only give the constants values.  An operator whose comment begins with
"Mutant" is not part of a model: it is a wrong version of the operator after it, and
`PROJECT.json` "mutants" says which property it breaks.

## 4. The runs

| run | asks | answer |
|---|---|---|
| `sync_solo` | one pass at a time over two logins, one able to fail at every step, one crash or abandoned request: is the store the bank's record at the cursor (`LostOnlyIfSkipped`), does every step implement the mirror (`ImplementsMirror`), is the login that works brought up to date for good (`HealthyLoginCatchesUp`)? | yes |
| `sync_skip` | does the cursor never pass data that was not applied (`syncConnection`'s comment)? | no: a transaction on an account first listed after the pass's `SyncAccounts` is dropped for good |
| `facets_solo` | one goroutine at a time, rules created, edited and deleted, editor, failures, a crash: are rows where the rules put them, do the user's choices stand? | yes |
| `facets_pairing` | two goroutines: is every row classified and every transfer paired in the end, is a category only ever on spending? | yes |
| `facets_override_lost` | does a user's classification stand against an overlapping sweep? | no: the sweep writes by id after the user did |
| `schedule_solo` | one goroutine at a time: do the user's decisions stand, does a deleted item leave nothing, do passes come to rest? | yes |
| `schedule_pair` | two goroutines: one settlement per transaction, orphans dropped, uncontested occurrences matched? | yes |
| `accounts` | two passes, one editing request, the page, any two events: do the user's choices stand, is a credit account never savings, does a disconnect leave nothing but what a visiting pass writes, do the page's groups add up to its position, is a reachable login caught up with whatever stale row was written back? | yes |
| `sweep` | the job and the button at once, at the ends of January and of March: is the requirement the least that keeps checking from going negative, does an unpaid bill stay reserved through short months, does knowing less of a card never lower it, does the page show what it was asked for, is what it marks overdue held back by a run? | yes |
| `sweep_card_day` | does a card's payment stand on the calendar day it is due less the offset, as the page shows it (`localized`'s comment)? | no: west of Greenwich, where the default timezone lies, it stands a day early |
| `month` | pages read in several statements while the editor, the budget form, the sync and midnight intervene: is a screen at rest what the tables say unless it missed a change (`StaleOnlyIfMissed`), do the parts on screen share the total, does every figure equal its drill in the page of one moment? | yes |
| `month_limit_lost` | does a limit on an archived category stay stored (`budget.go`)? | no: any save of the budget form deletes it |

The runs that answer "no" each check one property, quoted from the code in `PROJECT.json`
"findings", and keep the counterexample reproducible.

**Bounds.**  `MaxEvents` caps what the environment does: the length of a login's history in
the sync, the number of bank changes, user actions and failures together elsewhere.
`MaxInterruptions` caps crashes and cancelled requests.  They are chosen for the case the
property fears to happen: a transaction posted, modified and removed around one failed
pass (a history of 2 for each login); a rule made, matched against, edited, and the bank's correction and a crash
around it (5); an item declared, matched, cleared, its rival paid and a pass failing (5).
`MaxMoves` does the same in the later modules.  In `accounts` two moves are an edit with the
failure, bank event or disconnect it races, and the passes beside them are not counted.  In
`sweep` two changes fall between the statements of two runs, at two instants chosen for
the lengths of months: the afternoons of 31 January and 30 March; a balance there is fresh or
was never confirmed, since its age needs no third instant; the job runs on the 30th instead
of the 7th, so that it meets them.  In `month` three moves are an edit with the tab or the sync sent beside it and a failure, or
two edits during one read, or a category archived, the form opened and posted; two slots let
two answers cross; the instants are the
last of January and the first of February; the ledgers start empty but for one row, or
categorized and paired.
Two goroutines are what a race needs; two logins, two merchants, two patterns
of which one lies inside the other, three transfer legs and two items whose dates lie
near enough to compete are what the decisions need.  Symmetry is used in `month` alone, over the
slots, which its module never tells apart and whose properties are all invariants; the
liveness properties of the other runs would not allow it.  `month` is the largest run, 1.29
million distinct states; it takes two minutes.

**Deadlock** is checked in the sync, facets and schedule runs, where a pass can always
start.  In `accounts`, `sweep` and `month` it is not: once the bounded events are spent, a
quiet browser and a finished job may leave nothing to do.

**Fairness.**  `FairSpec` gives each goroutine weak fairness on its own steps: the cron
starts a pass every six hours (`task.go`), a goroutine that has started a stage goes on,
and a handler finishes what it began.  Nothing is assumed of the bank, the user, failures
or crashes; failures stop only because their number is bounded, which says "if it stops
failing", the most the code can promise.

## 5. What is proved

The theorems hold for every value of the constants that satisfies the named assumptions.
Each safety property is proved from an inductive invariant: what the goroutines hold in
their local variables between two statements is what the properties leave out, and what
makes them true.  Where a theorem assumes one goroutine (`OneActor`), one editing request
(`OneEditor`) or one pass (`OnePass`) at a time, the code promises no more: the runs that
answer "no", and the overlaps that `PROJECT.json` lists as hazards, are the two-goroutine
schedules that break the property.

**`SyncPassProofs`**

* `TypeCorrect`: `Spec => []TypeOK`, for any number of overlapping passes.  It includes
  that a stored cursor never passes the end of its login's history, which needs the same
  of the positions that passes hold in their local variables (`TypeInv`).
* `SoloPassLosesNothing`: with at most one pass at a time (`OnePass`),
  `Spec => []LostOnlyIfSkipped`.
* `SoloPassImplementsMirror`: under the same assumption, `Spec => Mirror!Spec`.

The assumption cannot be dropped: of two overlapping passes the slower stores what it pulled
over the newer.  `LostOnlyIfSkipped` is not inductive: a pass in its apply step holds a cursor
and a position read earlier.  The invariant is `MirrorInv`, the conjunction of
`TypeInv`; `OwnHistory`: a login's history reports its own transactions only, so that
applying one login leaves the others as they were; `FreshCursor`: what a pass read as the
cursor of the connection it visits is still the stored one, which is where one pass at a
time is used; and `LostOnlyIfSkipped` itself.  `ApplyMirrors` then shows that applying a
delta to the record at `from` gives the record at `upto`.  The refinement follows from the
same invariant, action by action: the bank's steps map to the bank's, `ApplyPull` to one
`Advance`, everything else to a stutter.

**`TransactionFacetsProofs`**

* `TypeCorrect` and `CategoryAlwaysFits` (`CategoryFitsClass`), for any number of goroutines.
  The invariant `TypeInv` adds that rule ids tell rules apart (`DistinctRules`) and that what a
  goroutine decided for the row it is about to write already fits (`LocalOK`).  That a
  resolution gives a category that fits rests on `WinnerExists`: of the rules that match, one
  beats all others, whatever their number.
* `OverrideAlwaysSticks` and `MarkAlwaysSticks`, for one goroutine (`OneActor`), from `UserInv`:
  no row that a stage has listed and not yet written is one the user has chosen for since.
  `facets_override_lost` is the counterexample with two.
* `RulesAlwaysApplied` (`RulesApplied`), for one goroutine, from `RulesInv`: a stored row is
  where the rules put it, or it is still among the rows a re-application will list or has
  listed (`ToReapply`), or a failure left it behind.  The lemma that carries it is
  `SameResolution`: rules that do not match a row do not decide it, so an edit concerns only
  the rows that the old or the new rule matches.

**`OccurrenceMatchingProofs`**

* `TypeCorrect`, for any number of goroutines; `TypeOK` holds the table's two unique indexes
  (one decision for an occurrence, one settled occurrence for a transaction).
* `ManualAlwaysStands` (`ManualStands`), for one goroutine, from `StandInv`: a transaction that
  something is matched to has been in the ledger (`SeenInv`), and what a pass is about to
  drop is settled by transactions that are gone (`OrphansGone`).
* `MatchesAlwaysHaveItem` (`MatchesHaveItem`), for one goroutine, from `ItemInv`: the items a
  pass has read, and those of its decisions, are still declared (`HeldItems`).

**`AccountRowsProofs`**

* `TypeCorrect`, `GoneAlwaysGone` (`GoneMeansGone`) and `CreditNeverSavings`
  (`CreditNotSavings`), for any number of passes and editing requests.  `LinkInv` adds that the
  connections a pass still has to visit, or visits, are linked or were disconnected under it;
  `CardsInv` that what a request holds to write back, and what the bank has just answered,
  agree in kind and flag.
* `ChoicesAlwaysStand` (`ChoicesStand`), for any number of passes and one editing request, from
  `ChoiceInv` (what a request read is still what is stored of the user's columns) and `OwnInv`
  (ids tell rows apart: a row that was deleted and listed again is not the one that was
  read).
* `PositionAlwaysMatches` (`PositionMatchesGroups`), from `PageInv`: what the page shows adds up
  from the moment its rows are read.

**`DashboardProofs`**, for every ledger, budget, page, instant and number of moves:

* `TypeCorrect`, from `TablesInv`: rows carry the facets their writers leave.  Its clause on
  marks says that a row both marked and overridden is a transfer, not that every marked row
  is: an automatic write may take a marked transfer out of Transfer, and the row then keeps
  its mark until the user has the last word.
* `PartsAlwaysSum` (`PartsSumToTotal`) and `DrillsAlwaysReconcile` (`DrillsReconcile`).  The first
  holds however stale the statements of one page are against each other, so its invariant
  (`FiguresInv`) says only that what was read has its type (`ReadsTyped`); the rest is algebra
  of sums (`NetIsSum`, `NetOfCategories`, `TrackerFigures`, `WrapFigures`).  The second is about
  the page of any one moment and its drills at that moment, and follows from `TablesInv`
  (`DrilledNow`): every figure and the predicate of the drill it leads to select the same rows.
* `StaleIsMissed` (`StaleOnlyIfMissed`), for any number of requests in flight at once.  The
  property speaks of a screen at rest only; the invariant, `ScreenInv`, says what makes it come
  true:
  * `ReadsFresh`: what a request in flight without a lag has read so far is what its
    statements would return now, statement by statement (`Fresh`), unless a save is in
    progress.
  * `OnItsWay`: while the screen waits for what was `asked`, a request without a lag is in
    flight.
  * `ScreenFresh`: a screen without a lag is what the tables say, unless a save is in progress.
  * `Asked`: a request for the region is for a page of the kind on screen, the listener and the sync form
    have at most one each, something waits only behind the listener's own, and
    no page on screen or asked for is of a month to come.
  * `Shapes`: the fields of the records, and that a read is at a statement its page makes.

  `StatementsSuffice` shows that the statements a page does not make do not matter to it.  What
  changes unannounced marks the screen and every request that has read its rows
  (`ChangePreserves`, `ElsewherePreserves`); an answer of a read without a lag is the page of this
  moment (`FreshAnswer`); a save in progress ends in a new read by the listener or, when that
  one is busy, in a mark (`AnnouncePreserves`).

**`CalendarProofs`** is the arithmetic of months, for every sequence of month lengths from 28
to 31: months are consecutive spans of days (`RowSums`, `MonthsInOrder`), a day lies in one of
them (`DayHasMonth`), `MonthsOn` says where a day lands so many months on.  `LatestDue` is
what the sweep rests on: the last occurrence that has fallen due lies at most one cadence
back, however short the months between.  `DashboardProofs` uses the module for the months of its clock.

**`SweepRunProofs`**, for any number of runs at once, accounts, items and instants.  Accounts,
items, matches and margin change between the statements of a run, so nothing about a
recommendation follows from the tables as they are when it is stored.  The invariant is
`Base`: what a run has read so far has its type, stage by stage (`ReadSoFar`), and every stored
recommendation is what `Compute` makes of what its run has read (`HistoryOK`).  From it follow

* `RequirementAlwaysLeast` (`RequirementIsLeast`).  `SortedLists`: a total order lists a finite
  set, each member once; `TotalsAddUp`: the running balance after n events is the sum of the
  first n; `ThroughIsPrefix`: the events up to a date are a prefix of the list; so every
  need is met by the highest running balance (`NeededIsHeld`) and the highest is somebody's
  need, because outflows come first within an instant (`HeldIsNeeded`).
* `UnpaidAlwaysReserved` (`UnpaidStaysReserved`): what is owed is considered
  (`OwedIsConsidered`, from `LatestDue`), what is considered and not settled becomes an event
  (`ConsideredIsReserved`).
* `OverdueAlwaysReserved` (`OverdueIsReserved`), with `OverdueOK`: what the page marks is past,
  and a run at that instant would consider it (`LeftBehindIsPast`).
* `PageAlwaysShowsAsked` (`PageShowsAsked`), with `PageOK`: what is on screen is what was asked
  for, or a run is about to replace it.  `NewestFirst`: the list of a history is the history,
  latest first; `FoundStays`: appending changes nothing between the earlier entries.
* `TypeCorrect` (`TypeOK`), with `Decided` (no occurrence is both settled and cleared) and `Booked` (the runs under way have their place in the history).
* `UnknownAlwaysCautious` (`UnknownNeverLowers`).  For one card at a time, what is owed knowing
  less is no less and no later (`LessOwes`); `CardsAddUp` adds the cards up, and what is needed
  by an instant knowing less covers what is needed knowing more (`LessNeedsMore`).  It assumes
  `PaymentsPositive`: no bank reports a negative payment.  `qualifyingPayment` subtracts what is
  reported without looking at its sign, so with a negative one, knowing it would raise what is
  owed; nothing in the code refuses one, and the theorem says so by naming it.

**`FiniteReasoning`** holds the lemmas that all of these share.  The library's induction
rules take an operator as a parameter, which the provers cannot instantiate; instead a set
without the property that is minimal for inclusion is refuted (`MinimalMember`).  Thus
follow that a finite set of integers has a greatest member, that a finite choice has a best,
and that `SumFunction` of the community modules is well defined, does not depend on the
order of its terms, and may be split, joined and compared term by term.

**Assumptions on the constants.**  `FeedAssumption`, `SyncAssumption`,
`CategorizationAssumption`, `FacetsAssumption`, `MatchingAssumption`, `TableAssumption`, the
`RowsAssumption` of the accounts, `DashboardAssumption`, `StartAssumption`, `CalendarAssumption`,
`ZoneAssumption` and `SweepAssumption` say that sentinels differ from values, that the sets the
code sums or picks from are finite, that months have 28 to 31 days, and that the data the
model starts with is of the program's types.  Three deserve a word.  The buckets a page makes
up for itself ("uncategorized" and its kin) are not ids of categories: these are UUIDs or the
seeded slugs (`db/migrations/20260614230000_categories.sql`).  The `RowsAssumption` of the sweep
is what the columns of accounts and items hold: a declared amount is positive, but one
computed from past matches may come to nothing, so amounts are natural numbers or absent;
balances may be negative.  `InstantsAssumption` says that the calendar, which is finite in the
model, reaches a month back and two ahead of every instant.  TLC evaluates every assumption
in the run of its module.

## 6. What is only model-checked, and what is not modelled

Liveness (`HealthyLoginCatchesUp`, `EventuallyCategorized`, `EventuallyPaired`,
`OrphansDropped`, `UncontestedMatched`, `PassesSettle`, `EventuallyInStep`) stays with TLC:
the prover has no support for fairness.  Every invariant of the runs that answer
"yes" is proved.

Abstractions of the modules above that a reader should know of:

* Provider errors have no classes in `SyncPass`: a failing connection's step writes
  nothing, whether its error is reported or, when the login needs re-authentication,
  swallowed; the flag that then goes on the connection row is in `AccountRows`.
* The bank never issues a removed transaction id again.
* `Resolve` reads rules and categories in one step; all accounts are active.
* The day stands still in `OccurrenceMatching`; the dates of one item lie more than two
  tolerances apart, so occurrences of one item do not compete; every transaction is on the
  checking account; amounts are whole dollars.
* `ManualStands` and `MatchesHaveItem` are checked for one goroutine at a time and do not
  hold of two (an orphan's drop, and a pass's insert after a delete, are by key); neither
  does `PassesSettle` (two passes timed against each other can trade a match for ever).
  `PROJECT.json` "hazards" gives the lines.

* `ChoicesStand` is checked and proved with one request editing at a time: the edits read a row
  and write it back outside a transaction, so two at once lose one another.
* In `Dashboard` a page's label, rail and badges are state, and nothing but a new page replaces
  them: at midnight a refreshed region stands under the old month's label, and a wrap whose
  last pending row has settled goes on saying Settling.  No property claims otherwise.
* That every region catches up with every announced edit does not hold, and no property says so: an
  edit announced while the listener waits for an answer is dropped when the answer
  arrives, and of two requests the one sent first may be answered last.  Either leaves an old
  region on screen until the next announcement or page; `StaleOnlyIfMissed` says that these,
  failures and changes nobody announces are the only ways.
* A page's addresses are those the pages link to, none after the current month; one typed
  by hand for a later month would show an empty wrap.
* A stale savings subtype on a row that is no transfer (an automatic write leaves it) counts
  in both the savings and the spending of `MonthFigures`, as in the code.

**Not modelled**: the merchant-logo cache (images only, errors swallowed, read by no figure
or decision); `AmountStates` of the schedule's management page; category creation and
renaming; rendering, configuration, encryption, authentication, the provider's HTTP client
and its field mapping, which hold no state these properties could go wrong in.
