------------------------- MODULE OccurrenceMatching -------------------------
(***************************************************************************)
(* The schedule module's matches: which transaction settled which dated    *)
(* occurrence of a declared item, decided by the user or by the resolution *)
(* that ends every sync pass (ResolveOccurrenceMatches).                   *)
(*                                                                         *)
(* Each actor is a goroutine; an action is one statement on the matches    *)
(* table, with the ledger reads that go with it.  The day stays Today, so  *)
(* the occurrences that are due stay the same.  All transactions are on    *)
(* the checking account.  Amounts are whole dollars, outflow positive.     *)
(***************************************************************************)
EXTENDS Integers, FiniteSets, FiniteSetsExt

CONSTANTS
  Items,         \* scheduled items, numbered in the order List returns them
  Declarations,  \* Declarations[i]: what the user may declare of item i
  Undeclared,    \* an item not declared yet
  Deleted,       \* an item deleted
  Txns,          \* transactions
  NoTxn,         \* no transaction: in a match, nothing settled the occurrence
  Forms,         \* Forms[t]: the forms in which the bank may report t
  Absent,        \* the form of a transaction not stored yet
  Gone,          \* the form of a transaction the bank removed
  Merchants,     \* merchants
  NoMerchant,    \* no merchant
  NoHolder,      \* no occurrence, no item
  Today,         \* the day
  Tolerance,     \* matchDateToleranceDays
  TrailingDays,  \* the days a computed amount is read from
  Actors,        \* goroutines
  MaxEvents      \* bound on what the bank, the user and failures do

Days == UNION {d.dates : d \in UNION {Declarations[i] : i \in Items}}
Keys == Items \X Days

Distance(a, b) == IF a < b THEN b - a ELSE a - b
Magnitude(a) == IF a < 0 THEN -a ELSE a

\* dates are the days an item falls on, and since is one cadence before Today.  An
\* amount of 0 is left to be computed.  Two dates of an item lie so far apart that a
\* transaction is near enough to one of them only.
ASSUME MatchingAssumption ==
  /\ Items \subseteq Nat
  /\ \A i \in Items :
       /\ {Undeclared, Deleted} \cap Declarations[i] = {}
       /\ \A d \in Declarations[i] :
            /\ d \in [direction : {"out", "in"}, amount : Nat, dates : SUBSET Nat,
                      since : Nat, active : BOOLEAN]
            /\ d.dates # {}
            /\ \A a, b \in d.dates : a # b => Distance(a, b) > 2 * Tolerance
  /\ NoTxn \notin Txns
  /\ Absent # Gone
  /\ \A t \in Txns :
       /\ {Absent, Gone} \cap Forms[t] = {}
       /\ Forms[t] \subseteq [day : Nat, amount : Int \ {0},
                              merchant : Merchants \cup {NoMerchant}]
  /\ NoMerchant \notin Merchants
  /\ NoHolder \notin Keys \cup Items
  /\ {Today, Tolerance, MaxEvents} \subseteq Nat

VARIABLES
  declared,   \* declared[i]: the stored declaration of item i
  ledger,     \* ledger[t]: the stored row of transaction t
  matches,    \* the stored decisions, one per occurrence
  decided,    \* decided[k]: what the user last decided about k (history)
  events,     \* what the bank, the user and failures have done so far
  pc,         \* pc[p]: what actor p does next
  items,      \* items[p]: the active items it has still to score, as it read them
  orphans,    \* orphans[p]: the occurrences whose decision it will drop
  learned,    \* learned[p]: the merchant it read for each item
  claimedBy,  \* claimedBy[p]: the occurrence that holds each transaction
  decisions,  \* decisions[p]: the matches it will record
  doomed      \* doomed[p]: the item it is deleting

storeVars == <<declared, ledger, matches, decided>>
localVars == <<items, orphans, learned, claimedBy, decisions, doomed>>
vars == <<storeVars, events, pc, localVars>>

Sources == {"manual", "auto"}
Match(i, day, t, source) == [item |-> i, day |-> day, txn |-> t, source |-> source]
Key(m) == <<m.item, m.day>>
Settled(m) == m.txn # NoTxn

\* No decision of the user's, a clear, or the transaction he chose.
Choice == {"none", "cleared"} \cup Txns

Stored == {t \in Txns : ledger[t] \notin {Absent, Gone}}
Declared == {i \in Items : declared[i] \notin {Undeclared, Deleted}}

Due(declaration) == declaration.dates \cap declaration.since..Today
Decided(key) == \E m \in matches : Key(m) = key

\* A partial UNIQUE index: at most one occurrence per transaction.
HeldElsewhere(t, key) == \E m \in matches : m.txn = t /\ Key(m) # key

ReadItem == [id : Items, direction : {"out", "in"}, amount : Nat, due : SUBSET Days,
             since : Nat]

\* Every variable has its type; an occurrence has one decision and a transaction
\* settles one occurrence, whoever writes.
TypeOK ==
  /\ \A i \in Items : declared[i] \in Declarations[i] \cup {Undeclared, Deleted}
  /\ \A t \in Txns : ledger[t] \in Forms[t] \cup {Absent, Gone}
  /\ matches \subseteq [item : Items, day : Days, txn : Txns \cup {NoTxn}, source : Sources]
  /\ \A m, n \in matches : m # n => Key(m) # Key(n) /\ (Settled(m) => m.txn # n.txn)
  /\ decided \in [Keys -> Choice]
  /\ events \in 0..MaxEvents
  /\ pc \in [Actors -> {"idle", "orphans", "drop", "learn", "claims", "score",
                        "insert", "update", "confirm", "delete"}]
  /\ \A p \in Actors : items[p] \subseteq ReadItem
  /\ orphans \in [Actors -> SUBSET Keys]
  /\ learned \in [Actors -> [Items -> Merchants \cup {NoMerchant}]]
  /\ claimedBy \in [Actors -> [Txns -> Keys \cup {NoHolder}]]
  /\ \A p \in Actors : decisions[p] \subseteq
       [item : Items, day : Days, txn : Txns, source : Sources]
  /\ doomed \in [Actors -> Items \cup {NoHolder}]

NothingLearned == [i \in Items |-> NoMerchant]
NothingClaimed == [t \in Txns |-> NoHolder]

\* Items are declared, and nothing is stored yet.
Init ==
  /\ \E chosen \in [Items -> (UNION {Declarations[i] : i \in Items}) \cup {Undeclared}] :
       /\ \A i \in Items : chosen[i] \in Declarations[i] \cup {Undeclared}
       /\ declared = chosen
  /\ ledger = [t \in Txns |-> Absent]
  /\ matches = {}
  /\ decided = [k \in Keys |-> "none"]
  /\ events = 0
  /\ pc = [p \in Actors |-> "idle"]
  /\ items = [p \in Actors |-> {}]
  /\ orphans = [p \in Actors |-> {}]
  /\ learned = [p \in Actors |-> NothingLearned]
  /\ claimedBy = [p \in Actors |-> NothingClaimed]
  /\ decisions = [p \in Actors |-> {}]
  /\ doomed = [p \in Actors |-> NoHolder]

Event ==
  /\ events < MaxEvents
  /\ events' = events + 1

Goto(p, next) == pc' = [pc EXCEPT ![p] = next]

Finish(p) ==
  /\ Goto(p, "idle")
  /\ items' = [items EXCEPT ![p] = {}]
  /\ orphans' = [orphans EXCEPT ![p] = {}]
  /\ learned' = [learned EXCEPT ![p] = NothingLearned]
  /\ claimedBy' = [claimedBy EXCEPT ![p] = NothingClaimed]
  /\ decisions' = [decisions EXCEPT ![p] = {}]
  /\ doomed' = [doomed EXCEPT ![p] = NoHolder]

-----------------------------------------------------------------------------
(* What a pass reads.                                                       *)

Evidence(i) ==
  {Magnitude(ledger[m.txn].amount) :
     m \in {n \in matches : n.item = i /\ n.txn \in Stored
                                       /\ ledger[n.txn].day \in TrailingDays}}

\* The declared amount, or the conservative reading of what settled the item before:
\* 0 where there is nothing to read.
EffectiveAmount(i) ==
  LET d == declared[i]
  IN CASE d.amount > 0 -> d.amount
       [] d.amount = 0 /\ Evidence(i) = {} -> 0
       [] d.amount = 0 /\ Evidence(i) # {} /\ d.direction = "out" -> Max(Evidence(i))
       [] d.amount = 0 /\ Evidence(i) # {} /\ d.direction = "in" -> Min(Evidence(i))

ActiveItems ==
  {[id |-> i, direction |-> declared[i].direction, amount |-> EffectiveAmount(i),
    due |-> Due(declared[i]), since |-> declared[i].since] :
     i \in {j \in Declared : declared[j].active}}

EarliestLookback(read) == Min({a.since : a \in read} \cup {Today})

\* Mutant: what the user decided outlives the transaction.
OrphanedAuto(read) ==
  {Key(m) : m \in {n \in matches : /\ Settled(n) /\ n.source = "auto"
                                   /\ n.day \in EarliestLookback(read)..Today
                                   /\ n.txn \notin Stored}}

\* Matches does not know an item: it hands back the decisions of a deleted one too.
Orphaned(read) ==
  {Key(m) : m \in {n \in matches : /\ Settled(n)
                                   /\ n.day \in EarliestLookback(read)..Today
                                   /\ n.txn \notin Stored}}

LatestManual(i) ==
  {m \in matches :
     /\ m.item = i /\ m.source = "manual" /\ Settled(m)
     /\ \A n \in matches :
          n.item = i /\ n.source = "manual" /\ Settled(n) => n.day <= m.day}

Taught(i) == {ledger[m.txn].merchant : m \in {n \in LatestManual(i) : n.txn \in Stored}}
               \ {NoMerchant}

\* A merchant that two items learned identifies neither.
LearnedMerchants(read) ==
  LET active == {a.id : a \in read}
      Distinctive(i, merchant) == \A j \in active \ {i} : merchant \notin Taught(j)
  IN [i \in Items |->
        IF i \in active /\ \E c \in Taught(i) : Distinctive(i, c)
        THEN CHOOSE c \in Taught(i) : TRUE
        ELSE NoMerchant]

Holders ==
  [t \in Txns |-> IF \E m \in matches : m.txn = t
                  THEN Key(CHOOSE m \in matches : m.txn = t)
                  ELSE NoHolder]

-----------------------------------------------------------------------------
(* How an occurrence is scored.                                             *)

DirectionAgrees(a, t) == IF a.direction = "out" THEN ledger[t].amount > 0
                                                ELSE ledger[t].amount < 0

\* Half to double the expected amount from the learned merchant; else 5% or 5 dollars.
AmountAdmissible(a, t, merchant) ==
  LET actual == Magnitude(ledger[t].amount)
  IN IF merchant # NoMerchant /\ ledger[t].merchant = merchant
     THEN 2 * actual >= a.amount /\ actual <= 2 * a.amount
     ELSE 20 * Distance(actual, a.amount) <= Max({a.amount, 100})

Admissible(a, day, t, merchant) ==
  /\ t \in Stored
  /\ a.amount > 0
  /\ DirectionAgrees(a, t)
  /\ Distance(ledger[t].day, day) <= Tolerance
  /\ AmountAdmissible(a, t, merchant)

\* compareCandidates: nearer in days, then nearer in amount.
Nearer(a, day, t, u) ==
  LET DayGap(c) == Distance(ledger[c].day, day)
      AmountGap(c) == Distance(Magnitude(ledger[c].amount), a.amount)
  IN \/ DayGap(t) < DayGap(u)
     \/ DayGap(t) = DayGap(u) /\ AmountGap(t) < AmountGap(u)

\* Mutant: an occurrence is refused its own standing match.
UnheldCandidates(a, day, merchant, claims) ==
  {t \in Txns : claims[t] = NoHolder /\ Admissible(a, day, t, merchant)}

Candidates(a, day, merchant, claims) ==
  {t \in Txns : claims[t] \in {NoHolder, <<a.id, day>>} /\ Admissible(a, day, t, merchant)}

\* The one candidate nearer than every other, if there is one.
BestCandidate(a, day, merchant, claims) ==
  LET offered == Candidates(a, day, merchant, claims)
  IN {t \in offered : \A u \in offered \ {t} : Nearer(a, day, t, u)}

Winners(a, merchant, claims) ==
  UNION {{Match(a.id, day, t, "auto") : t \in BestCandidate(a, day, merchant, claims)} :
           day \in a.due}

Claim(claims, won) ==
  [t \in Txns |-> IF \E m \in won : m.txn = t
                  THEN Key(CHOOSE m \in won : m.txn = t)
                  ELSE claims[t]]

-----------------------------------------------------------------------------
(* A pass: ResolveOccurrenceMatches.                                        *)

ListItems(p) ==
  /\ pc[p] = "idle"
  /\ items' = [items EXCEPT ![p] = ActiveItems]
  /\ Goto(p, "orphans")
  /\ UNCHANGED <<storeVars, events, orphans, learned, claimedBy, decisions, doomed>>

ListOrphans(p) ==
  /\ pc[p] = "orphans"
  /\ orphans' = [orphans EXCEPT ![p] = Orphaned(items[p])]
  /\ Goto(p, IF orphans'[p] = {} THEN "learn" ELSE "drop")
  /\ UNCHANGED <<storeVars, events, items, learned, claimedBy, decisions, doomed>>

\* The decision goes by its key, whatever it says by now.
DropOrphan(p) ==
  /\ pc[p] = "drop"
  /\ \E key \in orphans[p] :
       /\ matches' = {m \in matches : Key(m) # key}
       /\ orphans' = [orphans EXCEPT ![p] = @ \ {key}]
  /\ Goto(p, IF orphans'[p] = {} THEN "learn" ELSE "drop")
  /\ UNCHANGED <<declared, ledger, decided, events, items, learned, claimedBy, decisions,
                 doomed>>

Learn(p) ==
  /\ pc[p] = "learn"
  /\ learned' = [learned EXCEPT ![p] = LearnedMerchants(items[p])]
  /\ Goto(p, "claims")
  /\ UNCHANGED <<storeVars, events, items, orphans, claimedBy, decisions, doomed>>

ReadClaims(p) ==
  /\ pc[p] = "claims"
  /\ claimedBy' = [claimedBy EXCEPT ![p] = Holders]
  /\ Goto(p, "score")
  /\ UNCHANGED <<storeVars, events, items, orphans, learned, decisions, doomed>>

\* Mutant: an item with nothing to match ends the scoring.
ScoreItemThenStop(p) ==
  /\ pc[p] = "score"
  /\ \E a \in items[p] :
       LET won == Winners(a, learned[p][a.id], claimedBy[p])
       IN /\ \A b \in items[p] : a.id <= b.id
          /\ claimedBy' = [claimedBy EXCEPT ![p] = Claim(@, won)]
          /\ decisions' = [decisions EXCEPT ![p] = @ \cup won]
          /\ items' = [items EXCEPT ![p] = IF won = {} THEN {} ELSE @ \ {a}]
  /\ UNCHANGED <<storeVars, events, pc, orphans, learned, doomed>>

\* The next item's occurrences, against its own read of the candidates.
ScoreItem(p) ==
  /\ pc[p] = "score"
  /\ \E a \in items[p] :
       LET won == Winners(a, learned[p][a.id], claimedBy[p])
       IN /\ \A b \in items[p] : a.id <= b.id
          /\ claimedBy' = [claimedBy EXCEPT ![p] = Claim(@, won)]
          /\ decisions' = [decisions EXCEPT ![p] = @ \cup won]
          /\ items' = [items EXCEPT ![p] = @ \ {a}]
  /\ UNCHANGED <<storeVars, events, pc, orphans, learned, doomed>>

StartRecording(p) ==
  /\ pc[p] = "score"
  /\ items[p] = {}
  /\ Goto(p, "insert")
  /\ UNCHANGED <<storeVars, events, localVars>>

\* Decisions are recorded in the order they were made.
NextDecision(p, d) ==
  /\ d \in decisions[p]
  /\ \A e \in decisions[p] :
       d.item < e.item \/ (d.item = e.item /\ d.day <= e.day)

\* UpsertAutoMatch, first statement: ON CONFLICT DO NOTHING.
InsertAuto(p) ==
  /\ pc[p] = "insert"
  /\ \E d \in decisions[p] :
       /\ NextDecision(p, d)
       /\ Decided(Key(d)) \/ ~HeldElsewhere(d.txn, Key(d))
       /\ matches' = IF Decided(Key(d)) THEN matches ELSE matches \cup {d}
  /\ Goto(p, "update")
  /\ UNCHANGED <<declared, ledger, decided, events, localVars>>

\* Mutant: the source is not asked.
SupersedesAny(d, m) == Key(m) = Key(d)

Supersedes(d, m) == Key(m) = Key(d) /\ m.source = "auto"

\* UpsertAutoMatch, second statement: WHERE source = 'auto'.
UpdateAuto(p) ==
  /\ pc[p] = "update"
  /\ \E d \in decisions[p] :
       /\ NextDecision(p, d)
       /\ (\E m \in matches : Supersedes(d, m)) => ~HeldElsewhere(d.txn, Key(d))
       /\ matches' = {IF Supersedes(d, m) THEN d ELSE m : m \in matches}
       /\ decisions' = [decisions EXCEPT ![p] = @ \ {d}]
  /\ Goto(p, "insert")
  /\ UNCHANGED <<declared, ledger, decided, events, items, orphans, learned, claimedBy,
                 doomed>>

\* Another occurrence has taken the transaction since the claims were read: the index
\* refuses the write, and the rest of the pass is not recorded.
RecordFails(p) ==
  /\ \E d \in decisions[p] :
       /\ NextDecision(p, d)
       /\ HeldElsewhere(d.txn, Key(d))
       /\ \/ pc[p] = "insert" /\ ~Decided(Key(d))
          \/ pc[p] = "update" /\ \E m \in matches : Supersedes(d, m)
  /\ Finish(p)
  /\ UNCHANGED <<storeVars, events>>

EndPass(p) ==
  /\ pc[p] = "insert"
  /\ decisions[p] = {}
  /\ Finish(p)
  /\ UNCHANGED <<storeVars, events>>

PassStep(p) ==
  \/ ListItems(p) \/ ListOrphans(p) \/ DropOrphan(p) \/ Learn(p) \/ ReadClaims(p)
  \/ ScoreItem(p) \/ StartRecording(p) \/ InsertAuto(p) \/ UpdateAuto(p)
  \/ RecordFails(p) \/ EndPass(p)

-----------------------------------------------------------------------------
(* The user.                                                                *)

Upserted(m) == {n \in matches : Key(n) # Key(m)} \cup {m}
Chosen(m) == IF Settled(m) THEN m.txn ELSE "cleared"

\* Mutant: no unique index on the transaction.
UpsertManualUnchecked(m) ==
  /\ matches' = Upserted(m)
  /\ decided' = [decided EXCEPT ![Key(m)] = Chosen(m)]

\* UpsertManualMatch: refused when the transaction settles another occurrence.
UpsertManual(m) ==
  /\ Settled(m) => ~HeldElsewhere(m.txn, Key(m))
  /\ matches' = Upserted(m)
  /\ decided' = [decided EXCEPT ![Key(m)] = Chosen(m)]

MatchOccurrence(p) ==
  /\ pc[p] = "idle"
  /\ \E i \in Declared, t \in Stored :
       \E day \in Due(declared[i]) : UpsertManual(Match(i, day, t, "manual"))
  /\ Event
  /\ UNCHANGED <<declared, ledger, pc, localVars>>

ClearOccurrence(p) ==
  /\ pc[p] = "idle"
  /\ \E i \in Declared :
       \E day \in Due(declared[i]) : UpsertManual(Match(i, day, NoTxn, "manual"))
  /\ Event
  /\ UNCHANGED <<declared, ledger, pc, localVars>>

ConfirmOccurrence(p) ==
  /\ pc[p] = "idle"
  /\ \E m \in matches :
       /\ m.item \in Declared /\ m.day \in Due(declared[m.item]) /\ Settled(m)
       /\ decisions' = [decisions EXCEPT ![p] = {[m EXCEPT !.source = "manual"]}]
  /\ Goto(p, "confirm")
  /\ Event
  /\ UNCHANGED <<storeVars, items, orphans, learned, claimedBy, doomed>>

WriteConfirmed(p) ==
  /\ pc[p] = "confirm"
  /\ \E m \in decisions[p] : UpsertManual(m)
  /\ Finish(p)
  /\ UNCHANGED <<declared, ledger, events>>

\* Another occurrence took the transaction after it was read here.
ConfirmFails(p) ==
  /\ pc[p] = "confirm"
  /\ \E m \in decisions[p] : HeldElsewhere(m.txn, Key(m))
  /\ Finish(p)
  /\ UNCHANGED <<storeVars, events>>

Create(p) ==
  /\ pc[p] = "idle"
  /\ \E i \in Items :
       /\ declared[i] = Undeclared
       /\ \E d \in Declarations[i] : d.active /\ declared' = [declared EXCEPT ![i] = d]
  /\ Event
  /\ UNCHANGED <<ledger, matches, decided, pc, localVars>>

\* The date of d nearest the transaction's, the earlier one of two.
Bootstrap(d, t) ==
  CHOOSE day \in d.dates :
    \A other \in d.dates \ {day} :
      LET gap == Distance(day, ledger[t].day)
          otherGap == Distance(other, ledger[t].day)
      IN gap < otherGap \/ (gap = otherGap /\ day < other)

\* One transaction stores the item and the match that seeds it, or neither.
CreateItemFromTransaction(p) ==
  /\ pc[p] = "idle"
  /\ \E i \in Items, t \in Stored :
       /\ declared[i] = Undeclared
       /\ \E d \in Declarations[i] :
            /\ d.active /\ d.amount = 0
            /\ d.direction = IF ledger[t].amount > 0 THEN "out" ELSE "in"
            /\ declared' = [declared EXCEPT ![i] = d]
            /\ UpsertManual(Match(i, Bootstrap(d, t), t, "manual"))
  /\ Event
  /\ UNCHANGED <<ledger, pc, localVars>>

\* The form rewrites the whole declaration; what was decided about its dates stays.
Update(p) ==
  /\ pc[p] = "idle"
  /\ \E i \in Declared :
       \E d \in Declarations[i] \ {declared[i]} : declared' = [declared EXCEPT ![i] = d]
  /\ Event
  /\ UNCHANGED <<ledger, matches, decided, pc, localVars>>

\* Mutant: the cascade is left to remove the decisions, and does not.
DeleteMatchesByCascade(p) ==
  /\ pc[p] = "idle"
  /\ \E i \in Declared :
       /\ decided' = [k \in Keys |-> IF k[1] = i THEN "none" ELSE decided[k]]
       /\ doomed' = [doomed EXCEPT ![p] = i]
  /\ Goto(p, "delete")
  /\ Event
  /\ UNCHANGED <<declared, ledger, matches, items, orphans, learned, claimedBy, decisions>>

\* Delete, first statement.
DeleteMatchesForItem(p) ==
  /\ pc[p] = "idle"
  /\ \E i \in Declared :
       /\ matches' = {m \in matches : m.item # i}
       /\ decided' = [k \in Keys |-> IF k[1] = i THEN "none" ELSE decided[k]]
       /\ doomed' = [doomed EXCEPT ![p] = i]
  /\ Goto(p, "delete")
  /\ Event
  /\ UNCHANGED <<declared, ledger, items, orphans, learned, claimedBy, decisions>>

\* Delete, second statement.
DeleteItem(p) ==
  /\ pc[p] = "delete"
  /\ declared' = [declared EXCEPT ![doomed[p]] = Deleted]
  /\ Finish(p)
  /\ UNCHANGED <<ledger, matches, decided, events>>

UserStep(p) ==
  \/ MatchOccurrence(p) \/ ClearOccurrence(p) \/ ConfirmOccurrence(p) \/ WriteConfirmed(p)
  \/ ConfirmFails(p) \/ Create(p) \/ CreateItemFromTransaction(p) \/ Update(p)
  \/ DeleteMatchesForItem(p) \/ DeleteItem(p)

-----------------------------------------------------------------------------
(* The bank, and failures.                                                  *)

\* The sync pass stores a transaction, a new form of it, or its removal.
LedgerChanges ==
  /\ \E t \in Txns :
       /\ ledger[t] # Gone
       /\ \E f \in (Forms[t] \cup {Gone}) \ {ledger[t]} :
            /\ ledger[t] = Absent => f # Gone
            /\ ledger' = [ledger EXCEPT ![t] = f]
  /\ Event
  /\ UNCHANGED <<declared, matches, decided, pc, localVars>>

\* A statement fails, or the server stops: whatever the actor was doing is not finished.
Fail(p) ==
  /\ pc[p] # "idle"
  /\ Finish(p)
  /\ Event
  /\ UNCHANGED storeVars

Next ==
  \/ \E p \in Actors : PassStep(p) \/ UserStep(p) \/ Fail(p)
  \/ LedgerChanges

Spec == Init /\ [][Next]_vars

\* The scheduler runs passes again and again, and a request runs to its end.
FairSpec ==
  /\ Spec
  /\ \A p \in Actors :
       /\ WF_vars(PassStep(p))
       /\ WF_vars(WriteConfirmed(p) \/ ConfirmFails(p) \/ DeleteItem(p))

-----------------------------------------------------------------------------
(* Properties.                                                              *)

\* What the user decided about an occurrence stands until he decides again: no pass
\* replaces it, and none drops it but for a transaction that is gone.
ManualStands ==
  \A k \in Keys :
    decided[k] = "none" \/ decided[k] \in {t \in Txns : ledger[t] = Gone} \/
      \E m \in matches : Key(m) = k /\ m.source = "manual" /\ Chosen(m) = decided[k]

\* Nothing stays decided about an item that was deleted: such a row would hold its
\* transaction for ever (schedule.Service.Delete).
MatchesHaveItem == \A m \in matches : declared[m.item] # Deleted

DueNow == UNION {{<<a, day>> : day \in a.due} : a \in ActiveItems}

\* In the end no due occurrence of an active item is settled by a transaction that the
\* ledger does not hold: it would stay off the timeline unpaid (dropOrphanedMatches).
OrphansDropped ==
  <>[](\A o \in DueNow : \A m \in matches :
         Key(m) = <<o[1].id, o[2]>> /\ Settled(m) => m.txn \in Stored)

AdmissibleNow(o, t) ==
  Admissible(o[1], o[2], t, LearnedMerchants(ActiveItems)[o[1].id])

UserDecided(o) ==
  \E m \in matches : Key(m) = <<o[1].id, o[2]>> /\ m.source = "manual"

\* t is what o would take and no occurrence among rivals would take it.
Meant(o, t, rivals) ==
  /\ {u \in Txns : AdmissibleNow(o, u)} = {t}
  /\ \A r \in rivals \ {o} : ~AdmissibleNow(r, t)
  /\ ~HeldElsewhere(t, <<o[1].id, o[2]>>)

MatchedIn(rivals) ==
  \A o \in DueNow : \A t \in Txns :
    Meant(o, t, rivals) /\ ~UserDecided(o) =>
      \E m \in matches : Key(m) = <<o[1].id, o[2]>> /\ m.txn = t

\* A due occurrence with one admissible transaction, which no other due occurrence
\* would take, is settled by it in the end, whichever passes failed on the way.
UncontestedMatched == <>[]MatchedIn(DueNow)

\* Re-resolved from scratch every pass, the matches still come to rest: two occurrences
\* do not trade a transaction for ever, and none gives up its own match to retake it.
PassesSettle == <>[][UNCHANGED matches]_vars
=============================================================================
