---------------------------- MODULE SweepTimeline ----------------------------
(***************************************************************************)
(* The arithmetic of the cash-sweep recommendation: what a run derives     *)
(* from the account rows, the timeline it builds, the figure it reads off, *)
(* and the history of recommendations the page steps through.              *)
(*                                                                         *)
(* Money is whole, outflow positive.  The dates of a card's statement come *)
(* from the bank as UTC midnights; the occurrences of an item are          *)
(* midnights in the app's timezone.                                        *)
(***************************************************************************)
EXTENDS ScheduleView, AccountTable, SequencesExt

CONSTANT ZoneShift  \* half days from the app's midnight to the UTC midnight of a date

ASSUME ZoneAssumption == ZoneShift \in {-1, 0, 1}

UtcMidnight(day) == Midnight(day) + ZoneShift

\* One month on, at the same time of day.
HorizonFrom(now) == Midnight(AddMonthsClamped(DayOf(now), 1)) + (now - StartOfDay(now))

\* The days an occurrence may fall on: today, up to the day before the horizon's.
WindowStart(now) == DayOf(now)
WindowEnd(now) == DayOf(HorizonFrom(now)) - 1

-----------------------------------------------------------------------------
(* What the account rows say.                                               *)

\* Only a payment after the statement's issue counts against it; one that is not
\* known, or cannot be dated against it, counts nothing.
QualifyingPayment(cycle) ==
  IF Null \in {cycle.paid, cycle.paidAt, cycle.issued} THEN 0
  ELSE IF cycle.paidAt > cycle.issued THEN cycle.paid ELSE 0

\* A figure and a date, or no statement.
StatementFor(row) ==
  IF ~HasStatement(row) \/ row.cycle.billed = Null \/ PaymentDate(row) = Null THEN Null
  ELSE [balance |-> row.cycle.billed, paid |-> QualifyingPayment(row.cycle),
        due |-> UtcMidnight(PaymentDate(row))]

\* rows are the active accounts as they were read.
CardObligations(credit, now) ==
  {[label |-> a, balance |-> credit[a].balance, statement |-> StatementFor(credit[a])] :
     a \in {b \in DOMAIN credit : Known(credit[b]) /\ ~BalanceStale(credit[b], now)}}

\* Every reason there is, each one a missing value.
Reasons(cash, credit, now) ==
  LET checking == DeriveChecking(cash, DOMAIN cash)
      unknown == {a \in DOMAIN credit : ~Known(credit[a])}
      stale == {a \in DOMAIN credit \ unknown : BalanceStale(credit[a], now)}
  IN (IF checking = Null THEN {"checking_undetermined"}
      ELSE IF ~Known(cash[checking]) THEN {"checking_balance_unknown"}
      ELSE IF BalanceStale(cash[checking], now) THEN {"checking_stale"} ELSE {})
     \cup (IF unknown = {} THEN {} ELSE {"card_balance_unknown"})
     \cup (IF stale = {} THEN {} ELSE {"card_balance_stale"})

\* The one savings account, when its balance can be stood behind.
SavingsBalance(cash, now) ==
  LET savings == {a \in DOMAIN cash : cash[a].savings}
      usable == {a \in savings : Known(cash[a]) /\ ~BalanceStale(cash[a], now)}
  IN IF Cardinality(savings) = 1 /\ usable # {}
     THEN cash[CHOOSE a \in usable : TRUE].balance ELSE Null

-----------------------------------------------------------------------------
(* The timeline.                                                            *)

Event(date, label, direction, amount, dueOn) ==
  [date |-> date, label |-> label, direction |-> direction, amount |-> amount,
   dueOn |-> dueOn]

\* What a card owes: without a statement its whole balance.
CardAmount(card) ==
  IF card.statement = Null THEN card.balance
  ELSE Min({card.statement.balance - card.statement.paid, card.balance})

\* On its date, or at once when that has passed or is not known.
CardDate(card, now) ==
  IF card.statement = Null THEN now ELSE Max({card.statement.due, now})

\* Mutant: a card without a statement owes nothing yet.
DatedCardEvents(cards, now) ==
  {Event(CardDate(c, now), c.label, "out", CardAmount(c), Null) :
     c \in {d \in cards : d.balance > 0 /\ d.statement # Null /\ CardAmount(d) > 0
                          /\ d.statement.due <= HorizonFrom(now)}}

\* Mutant: the amount may be anything.
CardEventsOfAnySign(cards, now) ==
  {Event(CardDate(c, now), c.label, "out",
         CardAmount(c), Null) :
     c \in {d \in cards : /\ d.balance > 0
                          /\ d.statement # Null => d.statement.due <= HorizonFrom(now)}}

CardEvents(cards, now) ==
  {Event(CardDate(c, now), c.label, "out",
         CardAmount(c), Null) :
     c \in {d \in cards : /\ d.balance > 0
                          /\ d.statement # Null =>
                               /\ d.statement.due <= HorizonFrom(now)
                               /\ CardAmount(d) > 0}}

\* The occurrences a run looks at: one cadence back, so that an unmatched one stays.
Considered(item, now) ==
  Occurrences(item, OneCadenceBefore(item, WindowStart(now)), WindowEnd(now))

\* An inflow that has fallen due may never come; an outflow is owed now.
ItemEvents(i, item, settled, now) ==
  LET owed == {d \in Considered(item, now) : <<i, d>> \notin settled}
      past == {d \in owed : Midnight(d) < now}
  IN IF item.amount = Null THEN {}
     ELSE {Event(Midnight(d), i, item.direction, item.amount, Null) : d \in owed \ past}
          \cup {Event(now, i, "out", item.amount, d) :
                  d \in IF item.direction = "out" THEN past ELSE {}}

BuildTimeline(cards, items, settled, now) ==
  CardEvents(cards, now)
    \cup UNION {ItemEvents(i, items[i], settled, now) : i \in DOMAIN items}

\* The order the rows were appended in: the cards, then the items as listed.
Appended(e, f) ==
  \/ e.label < f.label
  \/ e.label = f.label /\ e.dueOn # Null /\ (f.dueOn = Null \/ e.dueOn < f.dueOn)

\* Mutant: a deposit clears before a debit of the same instant.
InflowFirst(e, f) ==
  \/ e.date < f.date
  \/ e.date = f.date /\ e.direction = "in" /\ f.direction = "out"
  \/ e.date = f.date /\ e.direction = f.direction /\ Appended(e, f)

\* By date, the outflows of an instant first, otherwise as they were appended.
Precedes(e, f) ==
  \/ e.date < f.date
  \/ e.date = f.date /\ e.direction = "out" /\ f.direction = "in"
  \/ e.date = f.date /\ e.direction = f.direction /\ Appended(e, f)

Signed(e) == IF e.direction = "in" THEN -e.amount ELSE e.amount

\* The members of S as R orders them: the nth is the one that n - 1 others precede.
Sorted(S, R) ==
  [n \in 1..Cardinality(S) |-> CHOOSE x \in S : Cardinality({y \in S : <<y, x>> \in R}) = n - 1]

TimelineOrder(events) == {p \in events \X events : Precedes(p[1], p[2])}

RunningTotals(ordered) ==
  LET total[n \in 0..Len(ordered)] == IF n = 0 THEN 0 ELSE total[n - 1] + Signed(ordered[n])
  IN total

\* The highest running total, 0 at least, and the first row that reaches it.
Evaluate(events) ==
  LET ordered == Sorted(events, TimelineOrder(events))
      total == RunningTotals(ordered)
      required == Max({total[n] : n \in DOMAIN total})
      peak == IF required = 0 THEN 0
              ELSE Min({n \in 1..Len(ordered) : total[n] = required})
  IN [required |-> required,
      timeline |-> [n \in 1..Len(ordered) |->
                      [event |-> ordered[n], running |-> total[n], peak |-> n = peak]]]

DirectionOf(suggested) ==
  CASE suggested > 0 -> "checking->savings"
    [] suggested < 0 -> "savings->checking"
    [] suggested = 0 -> "none"

\* A number when every value is there, and otherwise all that is missing.
Compute(cash, credit, items, settled, margin, now) ==
  LET reasons == Reasons(cash, credit, now)
      figure == Evaluate(BuildTimeline(CardObligations(credit, now), items, settled, now))
      checking == cash[DeriveChecking(cash, DOMAIN cash)].balance
      suggested == checking - figure.required - margin
  IN IF reasons # {} THEN [kind |-> "needs_attention", at |-> now, reasons |-> reasons]
     ELSE [kind |-> "numeric", at |-> now, checking |-> checking,
           savings |-> SavingsBalance(cash, now), timeline |-> figure.timeline,
           required |-> figure.required, margin |-> margin, suggested |-> suggested,
           direction |-> DirectionOf(suggested)]

-----------------------------------------------------------------------------
(* The stored history: a sequence in the order the rows were appended, each *)
(* recommendation's id its place in it.                                     *)

\* ORDER BY computed_at DESC, rowid DESC.
Newer(history, m, n) ==
  history[m].at > history[n].at \/ (history[m].at = history[n].at /\ m > n)

List(history) ==
  LET ids == DOMAIN history
  IN Sorted(ids, {p \in ids \X ids : Newer(history, p[1], p[2])})

NotFound == [found |-> FALSE]

\* Mutant: an id that is not there shows the newest.
NeighborsOfAny(all, id) ==
  IF all = << >> THEN NotFound
  ELSE LET i == IF id \notin ToSet(all) THEN 1 ELSE CHOOSE n \in DOMAIN all : all[n] = id
       IN [found |-> TRUE, shown |-> all[i],
           older |-> IF i < Len(all) THEN all[i + 1] ELSE Null,
           newer |-> IF i > 1 THEN all[i - 1] ELSE Null]

\* Null asks for the newest; an id that is not there finds nothing.
Neighbors(all, id) ==
  IF all = << >> \/ (id # Null /\ id \notin ToSet(all)) THEN NotFound
  ELSE LET i == IF id = Null THEN 1 ELSE CHOOSE n \in DOMAIN all : all[n] = id
       IN [found |-> TRUE, shown |-> all[i],
           older |-> IF i < Len(all) THEN all[i + 1] ELSE Null,
           newer |-> IF i > 1 THEN all[i - 1] ELSE Null]

Snapshot(history, id) == Neighbors(List(history), id)
=============================================================================
