------------------------------- MODULE SweepRun -------------------------------
(***************************************************************************)
(* The sweep service at work: runs of the monthly job and of the user's    *)
(* button, each reading the accounts, the schedule, its matches and the    *)
(* margin one statement at a time and appending a recommendation, while    *)
(* the bank and the user change all of these; and the page that steps      *)
(* through the history.                                                    *)
(*                                                                         *)
(* The tables other modules write are external here: AccountRows and       *)
(* OccurrenceMatching say how they come about.  An item's amount is the    *)
(* one the schedule resolves for it.                                       *)
(***************************************************************************)
EXTENDS SweepTimeline

CONSTANTS
  Runs,          \* those who run the sweep
  Job,           \* the one of them that is the monthly job
  JobDay,        \* the day of the month it fires on (the 7th)
  Accounts,      \* account ids, numbers
  Rows,          \* Rows[a]: the rows account a may have
  Items,         \* item ids, numbers above the accounts'
  Declarations,  \* Declarations[i]: the declarations item i may have
  Instants,      \* the instants at which something happens
  Margins,       \* what the user may submit as a margin, Null for a blank field
  MaxRuns,       \* bound on the history
  MaxMoves       \* bound on what changes, fails or is looked at

ASSUME SweepAssumption ==
  /\ Job \in Runs
  /\ Accounts \cup Items \cup Instants \subseteq Nat
  /\ \A a \in Accounts : \A i \in Items : a < i
  /\ Margins \ {Null} \subseteq Int
  /\ {MaxRuns, MaxMoves} \subseteq Nat
  /\ IsFiniteSet(Runs) /\ IsFiniteSet(Accounts) /\ IsFiniteSet(Items)
  /\ Null \notin [balance : Int, paid : Int, due : Int]

OptionalInt == Int \cup {Null}
Cycles == [billed : OptionalInt, issued : OptionalInt, due : OptionalInt,
           paid : OptionalInt, paidAt : OptionalInt]

\* What the columns of the two tables may hold: a declared amount is positive, one that
\* is computed from the matches may be nothing at all (normalize, resolveAmounts).
ASSUME RowsAssumption ==
  /\ \A a \in Accounts : \A row \in Rows[a] \ {NoRow} :
       /\ {"balance", "savings", "synced", "cycle", "sched"} \subseteq DOMAIN row
       /\ row.balance \in OptionalInt /\ row.synced \in OptionalInt
       /\ row.cycle \in Cycles /\ row.sched.offset \in Nat
  /\ \A i \in Items : \A item \in Declarations[i] :
       /\ item.direction \in {"out", "in"} /\ item.cadence \in {"monthly", "biweekly"}
       /\ item.day \in 0..31 /\ item.anchor \in Int \cup {NoDate}
       /\ item.amount \in Nat \cup {Null} /\ item.active \in BOOLEAN

\* The calendar reaches a month back and two ahead of every instant.
ASSUME InstantsAssumption ==
  \A t \in Instants : \E m \in 2..(Len(MonthLengths) - 2) : DayOf(t) \in MonthRange(m)

VARIABLES
  now,      \* the instant
  table,    \* the accounts table
  items,    \* the items as ActiveItems returns them
  settled,  \* the occurrences that carry a match with a transaction
  cleared,  \* the occurrences the user cleared
  margin,   \* the stored safety margin
  history,  \* the stored recommendations
  inputs,   \* inputs[n]: what recommendation n was computed from (history)
  pc,       \* pc[p]: what the run p does next
  reads,    \* reads[p]: what it has read so far
  page,     \* the recommendation on screen, with the steps offered
  moves     \* what has changed, failed or been looked at so far

matches == <<settled, cleared>>
external == <<now, table, items, matches>>
stored == <<margin, history, inputs>>
vars == <<external, stored, pc, reads, page, moves>>

Occurred == Items \X Days
NothingRead == [at |-> Null, cash |-> Null, credit |-> Null, items |-> Null, settled |-> Null]
Unasked == [asked |-> Null, view |-> NotFound, status |-> 200, overdue |-> << >>, read |-> Null]

RowsOf(ids) == [a \in ids |-> table[a]]

\* A timeline holds no negative amounts, none before the run; the totals go with them.
TimelineOK(rec) ==
  \A n \in DOMAIN rec.timeline :
    LET row == rec.timeline[n]
    IN /\ row.event.amount >= 0 /\ row.event.date \in rec.at..HorizonFrom(rec.at)
       /\ row.peak => row.running = rec.required

\* Every variable has its type, and every stored timeline is one.
TypeOK ==
  /\ now \in Instants
  /\ \A a \in Accounts : table[a] \in Rows[a]
  /\ \A i \in Items : items[i] \in Declarations[i]
  /\ settled \cup cleared \subseteq Occurred /\ settled \cap cleared = {}
  /\ margin \in Margins /\ margin >= 0
  /\ Len(history) \in 0..MaxRuns /\ DOMAIN inputs = DOMAIN history
  /\ \A n \in DOMAIN history :
       history[n].kind = "numeric" => history[n].required >= 0 /\ TimelineOK(history[n])
  /\ pc \in [Runs -> {"idle", "credit", "items", "settled", "margin", "save", "show"}]
  /\ moves \in 0..MaxMoves

Init ==
  /\ now \in Instants
  /\ table \in {t \in [Accounts -> UNION {Rows[a] : a \in Accounts}] :
                  \A a \in Accounts : t[a] \in Rows[a]}
  /\ items \in {f \in [Items -> UNION {Declarations[i] : i \in Items}] :
                  \A i \in Items : f[i] \in Declarations[i]}
  /\ settled = {} /\ cleared = {}
  /\ margin \in {m \in Margins \ {Null} : m >= 0}
  /\ history = << >> /\ inputs = << >>
  /\ pc = [p \in Runs |-> "idle"]
  /\ reads = [p \in Runs |-> NothingRead]
  /\ page = Unasked
  /\ moves = 0

Move == moves < MaxMoves /\ moves' = moves + 1

-----------------------------------------------------------------------------
(* A run.                                                                   *)

Goto(p, next) == pc' = [pc EXCEPT ![p] = next]
Idle(p) == Goto(p, "idle") /\ reads' = [reads EXCEPT ![p] = NothingRead]

\* The clock is read once, with the first of the reads.  The job fires as its day opens.
StartRun(p) ==
  /\ pc[p] = "idle"
  /\ Len(history) + Cardinality({q \in Runs : pc[q] # "idle"}) < MaxRuns
  /\ p = Job => DayOfMonth(DayOf(now)) = JobDay
  /\ reads' = [reads EXCEPT ![p].at = now, ![p].cash = RowsOf(ActiveCashAccounts(table))]
  /\ Goto(p, "credit")
  /\ UNCHANGED <<external, stored, page, moves>>

ReadCredit(p) ==
  /\ pc[p] = "credit"
  /\ reads' = [reads EXCEPT ![p].credit = RowsOf(ActiveCreditAccounts(table))]
  /\ Goto(p, "items")
  /\ UNCHANGED <<external, stored, page, moves>>

ReadItems(p) ==
  /\ pc[p] = "items"
  /\ reads' = [reads EXCEPT ![p].items = ActiveItems(items)]
  /\ Goto(p, "settled")
  /\ UNCHANGED <<external, stored, page, moves>>

\* Over the widest span a cadence reaches: one month back, up to the horizon.
ReadSettled(p) ==
  /\ pc[p] = "settled"
  /\ LET at == reads[p].at
         span == AddMonthsClamped(DayOf(at), -1)..DayOf(HorizonFrom(at))
     IN reads' = [reads EXCEPT ![p].settled = {s \in settled : s[2] \in span}]
  /\ Goto(p, "save")
  /\ UNCHANGED <<external, stored, page, moves>>

\* The margin is the last read, and the arithmetic in between is the run's own.
Save(p) ==
  /\ pc[p] = "save"
  /\ LET r == reads[p]
     IN /\ history' = Append(history, Compute(r.cash, r.credit, r.items, r.settled, margin, r.at))
        /\ inputs' = Append(inputs, r)
  /\ IF p = Job THEN Idle(p) /\ UNCHANGED page
     ELSE /\ Goto(p, "show")
          /\ page' = [page EXCEPT !.asked = Len(history) + 1]
          /\ UNCHANGED reads
  /\ UNCHANGED <<external, margin, moves>>

\* A read or the insert fails: nothing is stored, and the user keeps what he was shown.
FailRun(p) ==
  /\ pc[p] \in {"credit", "items", "settled", "save"}
  /\ Move
  /\ IF p = Job THEN Idle(p) /\ UNCHANGED page
     ELSE /\ Goto(p, "show")
          /\ page' = [page EXCEPT !.asked = IF page.view.found THEN page.view.shown ELSE Null]
          /\ UNCHANGED reads
  /\ UNCHANGED <<external, stored>>

\* The region is rendered for the run's own recommendation.
RenderRegion(p) ==
  /\ pc[p] = "show"
  /\ page' = [page EXCEPT !.view = Snapshot(history, page.asked), !.status = 200]
  /\ Idle(p)
  /\ UNCHANGED <<external, stored, moves>>

RunStep(p) ==
  \/ StartRun(p) \/ ReadCredit(p) \/ ReadItems(p) \/ ReadSettled(p)
  \/ Save(p) \/ RenderRegion(p)

-----------------------------------------------------------------------------
(* The page.                                                                *)

\* The page itself, a step from it, or a link, with the schedule as it is now; the
\* page answers one request at a time.
RenderSnapshot ==
  /\ \A p \in Runs \ {Job} : pc[p] = "idle"
  /\ Move
  /\ \E id \in 1..MaxRuns \cup {Null} :
       LET view == Snapshot(history, id)
           windows == MatchingWindow(items, settled, cleared, DayOf(now))
       IN page' = [asked |-> id, view |-> view,
                   status |-> IF ~view.found /\ id # Null THEN 404 ELSE 200,
                   overdue |-> OverdueOccurrences(items, windows, DayOf(now)),
                   read |-> [at |-> now, items |-> ActiveItems(items), settled |-> settled]]
  /\ UNCHANGED <<external, stored, pc, reads>>

\* A blank field, and a negative figure, are refused.
PostSafetyMargin ==
  /\ Move
  /\ \E m \in Margins :
       margin' = IF m = Null THEN margin ELSE IF m < 0 THEN margin ELSE m
  /\ UNCHANGED <<external, history, inputs, pc, reads, page>>

-----------------------------------------------------------------------------
(* What the others do.                                                      *)

TimePasses ==
  /\ now' \in {t \in Instants : t > now}
  /\ Move
  /\ UNCHANGED <<table, items, matches, stored, pc, reads, page>>

AccountsChange ==
  /\ \E a \in Accounts : \E row \in Rows[a] \ {table[a]} :
       table' = [table EXCEPT ![a] = row]
  /\ Move
  /\ UNCHANGED <<now, items, matches, stored, pc, reads, page>>

\* The picker proposes the outstanding occurrence nearest the transaction, here one of
\* today, and the user takes it.
AttachScheduleItem ==
  /\ LET windows == MatchingWindow(items, settled, cleared, DayOf(now))
     IN \E direction \in {"out", "in"} :
          \E option \in AttachableItems(items, windows, direction, DayOf(now)) :
            settled' = settled \cup {option}
  /\ Move
  /\ UNCHANGED <<now, table, items, cleared, stored, pc, reads, page>>

ClearOccurrence ==
  /\ \E o \in settled : settled' = settled \ {o} /\ cleared' = cleared \cup {o}
  /\ Move
  /\ UNCHANGED <<now, table, items, stored, pc, reads, page>>

\* A pass settles an occurrence nothing was decided about, or drops a match whose
\* transaction has gone.
ResolveMatches ==
  /\ LET windows == MatchingWindow(items, settled, cleared, DayOf(now))
     IN \/ \E i \in DOMAIN windows : \E d \in Outstanding(windows[i]) :
             settled' = settled \cup {<<i, d>>}
        \/ \E o \in settled : settled' = settled \ {o}
  /\ Move
  /\ UNCHANGED <<now, table, items, cleared, stored, pc, reads, page>>

ScheduleChanges ==
  /\ \E i \in Items : \E d \in Declarations[i] \ {items[i]} :
       items' = [items EXCEPT ![i] = d]
  /\ Move
  /\ UNCHANGED <<now, table, matches, stored, pc, reads, page>>

Next ==
  \/ \E p \in Runs : RunStep(p) \/ FailRun(p)
  \/ RenderSnapshot \/ PostSafetyMargin
  \/ TimePasses \/ AccountsChange \/ ScheduleChanges
  \/ AttachScheduleItem \/ ClearOccurrence \/ ResolveMatches

Spec == Init /\ [][Next]_vars

-----------------------------------------------------------------------------
(* Properties.                                                              *)

Numeric == {n \in DOMAIN history : history[n].kind = "numeric"}
EventsOf(rec) == {rec.timeline[n].event : n \in DOMAIN rec.timeline}
Total(events) == SumFunction([e \in events |-> e.amount])

\* What must be in checking at t for the outflows up to then, were every inflow of that
\* very instant late.
NeededBy(events, t) ==
  Total({e \in events : e.direction = "out" /\ e.date <= t})
    - Total({e \in events : e.direction = "in" /\ e.date < t})

\* The requirement is the least that keeps checking from going negative at any instant
\* of the window, read off the stored rows: no inflow pays what is due before it or
\* with it, and nothing more is held back (evaluate).
RequirementIsLeast ==
  \A n \in Numeric :
    LET events == EventsOf(history[n])
    IN history[n].required = Max({0} \cup {NeededBy(events, e.date) : e \in events})

\* The outflows of item i that are owed at instant t: every one still to come in the
\* window, and the last that has fallen due.
OwedDays(item, t) ==
  LET today == DayOf(t)
      due == Occurrences(item, 0, today)
  IN Occurrences(item, today, WindowEnd(t)) \cup (IF due = {} THEN {} ELSE {Max(due)})

\* An outflow that nothing has settled stays on the timeline from the day it comes into
\* the window until the item's next occurrence falls due, however short the months
\* in between (buildTimeline, OneCadenceBefore).
UnpaidStaysReserved ==
  \A n \in Numeric :
    LET r == inputs[n]
    IN \A i \in {j \in DOMAIN r.items : r.items[j].direction = "out" /\ r.items[j].amount # Null} :
         \A d \in OwedDays(r.items[i], r.at) :
           <<i, d>> \in r.settled \/
             \E e \in EventsOf(history[n]) :
               e.label = i /\ (e.dueOn = d \/ e.date = Midnight(d))

\* less says what cycle says, with some of it missing.
LessKnown(less, cycle) == \A c \in DOMAIN cycle : less[c] \in {cycle[c], Null}

\* Knowing less of a card never lowers the requirement: of two runs at one instant that
\* read the same but for the statement columns, the one that read fewer of them holds
\* back no less (buildTimeline, statementFor, qualifyingPayment).
UnknownNeverLowers ==
  \A m, n \in Numeric :
    LET known == inputs[m]
        less == inputs[n]
    IN (/\ [known EXCEPT !.credit = Null] = [less EXCEPT !.credit = Null]
        /\ DOMAIN known.credit = DOMAIN less.credit
        /\ \A a \in DOMAIN known.credit :
             /\ [known.credit[a] EXCEPT !.cycle = Null] = [less.credit[a] EXCEPT !.cycle = Null]
             /\ LessKnown(less.credit[a].cycle, known.credit[a].cycle))
       => history[n].required >= history[m].required

\* The page never shows another recommendation than the one it was asked for, whichever
\* runs finish meanwhile, and a step from it leads to the next there was (neighbors).
PageShowsAsked ==
  page.view.found =>
    /\ \/ page.asked \in {Null, page.view.shown}
       \/ \E p \in Runs \ {Job} : pc[p] = "show"
    /\ page.view.older # Null => Newer(history, page.view.shown, page.view.older)
    /\ page.view.newer # Null => Newer(history, page.view.newer, page.view.shown)

\* What the page marks as overdue is money a run holds back: computed at that instant
\* from the same declarations and matches, a recommendation lists the outflow with the
\* date it was due (overdueOccurrences, buildTimeline).
OverdueIsReserved ==
  \A n \in Numeric :
    page.read = [at |-> inputs[n].at, items |-> inputs[n].items, settled |-> inputs[n].settled]
    => \A i \in DOMAIN page.overdue :
         LET item == page.read.items[i]
         IN item.direction = "out" /\ item.amount # Null =>
              \E e \in EventsOf(history[n]) : e.label = i /\ e.dueOn = page.overdue[i]

\* The outflow of a card whose date is still to come stands on that date: the page
\* shows calendar dates (localized).
CardOnItsDay ==
  \A n \in Numeric :
    LET r == inputs[n]
    IN \A e \in EventsOf(history[n]) :
         e.label \in DOMAIN r.credit /\ e.date > r.at
           => DayOf(e.date) = PaymentDate(r.credit[e.label])
=============================================================================
