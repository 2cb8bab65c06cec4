----------------------------- MODULE MonthFigures -----------------------------
(***************************************************************************)
(* The pure arithmetic of a month: the plan of the budget module, the      *)
(* current month's tracker, a past month's wrap (reporting) and the        *)
(* drill-downs and month rail of the home module that go with them.        *)
(*                                                                         *)
(* A row is a transaction as a list reads it.  Amounts are whole cents,    *)
(* outflow positive.  Category names and currencies are left out, and so   *)
(* is the week's pace, seven times the day's.                              *)
(***************************************************************************)
EXTENDS Calendar

CONSTANTS
  Categories,  \* category ids
  NoCategory   \* no category

Net(rows) == SumFunction([r \in rows |-> r.amount])
OfClass(rows, class) == {r \in rows : r.class = class}
Spending(rows) == OfClass(rows, "spending")
InCategory(rows, k) == {r \in rows : r.category = k}

\* The source legs, by their subtype whatever their class.
SavingsLegs(rows) == {r \in rows : r.subtype = "savings_contribution"}

IncomeCents(rows) == -Net(OfClass(rows, "income"))
SavingsCents(rows) == Net(SavingsLegs(rows))

-----------------------------------------------------------------------------
(* The plan: income and savings targets, and limits, a function on the      *)
(* categories that have one.                                               *)

TotalLimits(limits) == SumFunction(limits)

ComputeResidual(targets, limits) == targets.income - TotalLimits(limits) - targets.savings

IsNoBudget(targets, limits) ==
  targets.income = 0 /\ targets.savings = 0 /\ DOMAIN limits = {}

-----------------------------------------------------------------------------
(* The tracker. *)

PaceFor(remaining, daysLeft) ==
  IF remaining <= 0 \/ daysLeft < 1 THEN 0 ELSE remaining \div daysLeft

\* A bar's width: empty on a net refund or without a budget, full when over.
PercentOf(part, whole) ==
  IF whole <= 0 THEN 0 ELSE Max({0, Min({100, (100 * part) \div whole})})

\* One line of the budget.
Standing(limit, spent, daysLeft) ==
  [limit |-> limit, spent |-> spent, remaining |-> limit - spent,
   pace |-> PaceFor(limit - spent, daysLeft), over |-> spent > limit,
   used |-> PercentOf(spent, limit)]

\* Mutant: only what has no category at all counts as everything else.
ResidualUncategorized(rows, limits) == {r \in Spending(rows) : r.category = NoCategory}

\* Spending that no limit covers.
Residual(rows, limits) == {r \in Spending(rows) : r.category \notin DOMAIN limits}

Actuals(rows) ==
  [spent |-> Net(Spending(rows)), income |-> IncomeCents(rows), saved |-> SavingsCents(rows)]

NoLines == [k \in {} |-> Standing(0, 0, 1)]

BuildTracker(rows, targets, limits, daysLeft) ==
  LET lines == [k \in DOMAIN limits |-> Standing(limits[k], Net(InCategory(Spending(rows), k)), daysLeft)]
      rest == Standing(ComputeResidual(targets, limits), Net(Residual(rows, limits)), daysLeft)
      remaining == SumFunction([k \in DOMAIN lines |-> lines[k].remaining]) + rest.remaining
      plan == targets.income - targets.savings
  IN IF IsNoBudget(targets, limits)
       THEN [needsBudget |-> TRUE, actuals |-> Actuals(rows), lines |-> NoLines]
       ELSE [needsBudget |-> FALSE, actuals |-> Actuals(rows), lines |-> lines, rest |-> rest,
             total |-> [limit |-> plan, remaining |-> remaining,
                        pace |-> PaceFor(remaining, daysLeft), over |-> remaining < 0,
                        used |-> PercentOf(Net(Spending(rows)), plan)],
             income |-> PercentOf(IncomeCents(rows), targets.income),
             savings |-> PercentOf(SavingsCents(rows), targets.savings)]

-----------------------------------------------------------------------------
(* The wrap. *)

\* One pass over the rows: a row adds to the savings by its subtype and, apart from
\* that, to income or to spending by its class.
BuildWrap(rows) ==
  LET income == SumFunction([r \in OfClass(rows, "income") |-> -r.amount])
      spending == Net(Spending(rows))
      savings == Net(SavingsLegs(rows))
  IN [gross |-> income, spending |-> spending, net |-> income - spending,
      saved |-> savings, surplus |-> income - spending - savings,
      byCategory |-> [k \in {r.category : r \in Spending(rows)} |->
                        Net(InCategory(Spending(rows), k))]]

\* Settling while a row is pending, final once all have posted.
WrapBadges(rows, partial) == [settling |-> \E r \in rows : r.pending, partial |-> partial]

\* At or before the month of the earliest transaction held.
PartialMonth(earliest, month) == earliest # NoDate /\ month <= MonthOf(earliest)

-----------------------------------------------------------------------------
(* The drill-downs. *)

\* Of a month's rows, those a bucket's query and selector keep.
DrillRows(rows, bucket, limits) ==
  CASE bucket = "income"          -> OfClass(rows, "income")
    [] bucket = "savings"         -> SavingsLegs(rows)
    [] bucket = "uncategorized"   -> InCategory(Spending(rows), NoCategory)
    [] bucket = "everything-else" -> {r \in Spending(rows) : r.category = NoCategory
                                                              \/ r.category \notin DOMAIN limits}
    [] OTHER                      -> InCategory(Spending(rows), bucket)

\* Mutant: income is summed as it is stored.
SignedDrill(rows, bucket, limits) ==
  [rows |-> DrillRows(rows, bucket, limits), total |-> Net(DrillRows(rows, bucket, limits))]

SpendDrill(rows, bucket, limits) ==
  LET kept == DrillRows(rows, bucket, limits)
  IN [rows |-> kept, total |-> IF bucket = "income" THEN -Net(kept) ELSE Net(kept)]

-----------------------------------------------------------------------------
(* The activity list. *)

\* An outflow transfer whose destination nobody knows.
DestinationUnknown(r) ==
  r.class = "transfer" /\ r.amount > 0 /\ ~r.destined /\ ~r.marked

NeedsAttention(r) ==
  \/ r.class = "needs_review"
  \/ r.class = "spending" /\ r.category = NoCategory
  \/ DestinationUnknown(r)

\* Newest first: by date, then by id.
NewerRow(r, s) == r.day > s.day \/ (r.day = s.day /\ r.txn > s.txn)

MostRecent(rows, limit) == {r \in rows : Cardinality({s \in rows : NewerRow(s, r)}) < limit}

-----------------------------------------------------------------------------
(* The months a page can move to. *)

\* From the earliest transaction's month to the current one, the root page's; empty
\* when every transaction is of a later month.
MonthRail(earliest, month) == (IF earliest = NoDate THEN month ELSE MonthOf(earliest))..month
=============================================================================
