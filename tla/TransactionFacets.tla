-------------------------- MODULE TransactionFacets --------------------------
(***************************************************************************)
(* Everything that writes the two facets of a transaction row, its bucket  *)
(* (classification and category) and its transfer destination:             *)
(*   - the sync pass: the categorization sweep, then transfer pairing;     *)
(*   - a rule created, edited or deleted, then re-applied to the ledger;   *)
(*   - the user's transaction editor, which writes both facets in turn;    *)
(*   - a change of an account's savings flag, which pairs again.           *)
(* Each runs on a goroutine of its own with no transaction around it: an   *)
(* action is one SQL statement, except that Resolve reads rules and        *)
(* categories in one step.  An actor is a goroutine; the pull of another   *)
(* pass shows up as UpsertTransaction and DeleteTransaction.  All accounts *)
(* are active.                                                             *)
(***************************************************************************)
EXTENDS Categorization

CONSTANTS
  Txns,       \* transactions
  NoTxn,      \* no transaction
  Reports,    \* Reports[t]: the forms in which the bank may report t
  NoRule,     \* no rule
  Absent,     \* the form of a transaction not stored yet
  Gone,       \* the form of a transaction the bank removed
  Actors,     \* goroutines
  DefaultSavings,  \* accounts that count as savings by their kind
  MaxEvents,  \* bound on what the bank, the user and failures do
  WindowDays  \* transferPairingWindowDays

ASSUME FacetsAssumption ==
  /\ NoTxn \notin Txns
  /\ NoRule \notin RuleIds
  /\ Absent # Gone
  /\ \A t \in Txns :
       /\ {Absent, Gone} \cap Reports[t] = {}
       /\ Reports[t] \subseteq [account : Accounts, merchant : Merchants,
                                signal : Signals, amount : Int, day : Nat]
  /\ DefaultSavings \subseteq Accounts
  /\ MaxEvents \in Nat
  /\ WindowDays \in Nat

VARIABLES
  form,        \* form[t]: the bank columns of row t, Absent or Gone
  bucket,      \* bucket[t]: its classification and category
  overridden,  \* rows whose bucket the user chose
  destination, \* destination[t]: its transfer destination and subtype
  marked,      \* rows whose destination the user chose
  rules,       \* stored rules
  archived,    \* archived categories
  savings,     \* accounts that count as savings
  choice,      \* choice[t]: the user's last bucket for t, when overridden
  mark,        \* mark[t]: the user's last destination for t, when marked
  aged,        \* rows whose bank columns or category list changed, or whose
               \* re-application was cut short, since they were last resolved
  events,      \* what the bank, the user and failures have done so far
  pc,          \* pc[p]: what actor p does next
  listed,      \* listed[p]: the rows its stage listed
  todo,        \* todo[p]: the listed rows it still has to write
  current,     \* current[p]: the row it is about to write, or NoTxn
  decision,    \* decision[p]: what it is about to write there
  scope,       \* scope[p]: the substrings of the rule it changes
  target,      \* target[p]: the rule it changes, or NoRule
  facets       \* facets[p]: the savings accounts its pairing read

ledgerVars == <<form, bucket, overridden, destination, marked>>
settingVars == <<rules, archived, savings>>
ghostVars == <<choice, mark, aged>>
stageVars == <<listed, todo, current, decision, scope, target, facets>>
vars == <<ledgerVars, settingVars, ghostVars, events, pc, stageVars>>

NoBucket == [class |-> Uncategorized, category |-> NoCategory]
Buckets == Decisions \cup {NoBucket}
NoDestination == [account |-> NoAccount, subtype |-> NoSubtype]

Stored == {t \in Txns : form[t] \notin {Absent, Gone}}
Outflow(f) == f.amount > 0

Row(t) == [txn |-> t, form |-> form[t], bucket |-> bucket[t]]
Rows == [txn : Txns, form : UNION {Reports[t] : t \in Txns}, bucket : Buckets]

\* The bucket the stored rules and categories give a row.
Resolved(f) ==
  ResolveCategorization(rules, archived, f.merchant, f.signal, Outflow(f))

\* Every variable has its type, and no facet outlives its row: a write by id to a row
\* removed meanwhile changes nothing.
TypeOK ==
  /\ \A t \in Txns : form[t] \in Reports[t] \cup {Absent, Gone}
  /\ bucket \in [Txns -> Buckets]
  /\ overridden \subseteq Stored
  /\ destination \in [Txns -> Destinations \cup {NoDestination}]
  /\ marked \subseteq Stored
  /\ rules \subseteq Rules
  /\ archived \subseteq Categories
  /\ savings \subseteq Accounts
  /\ choice \in [Txns -> Buckets]
  /\ mark \in [Txns -> Destinations \cup {NoDestination}]
  /\ \A t \in Txns \ Stored : bucket[t] = NoBucket /\ destination[t] = NoDestination
  /\ aged \subseteq Stored
  /\ events \in 0..MaxEvents
  /\ pc \in [Actors -> {"idle", "list", "categorize", "reapply", "readFacets",
                        "listLegs", "pair", "editRule", "deleteRule",
                        "validateMark", "mark"}]
  /\ \A p \in Actors : listed[p] \subseteq Rows
  /\ todo \in [Actors -> SUBSET Txns]
  /\ current \in [Actors -> Txns \cup {NoTxn}]
  /\ decision \in [Actors -> Buckets \cup Destinations]
  /\ scope \in [Actors -> SUBSET Patterns]
  /\ target \in [Actors -> RuleIds \cup {NoRule}]
  /\ facets \in [Actors -> SUBSET Accounts]

Init ==
  /\ form = [t \in Txns |-> Absent]
  /\ bucket = [t \in Txns |-> NoBucket]
  /\ overridden = {}
  /\ destination = [t \in Txns |-> NoDestination]
  /\ marked = {}
  /\ rules = {}
  /\ archived = {}
  /\ savings = DefaultSavings
  /\ choice = [t \in Txns |-> NoBucket]
  /\ mark = [t \in Txns |-> NoDestination]
  /\ aged = {}
  /\ events = 0
  /\ pc = [p \in Actors |-> "idle"]
  /\ listed = [p \in Actors |-> {}]
  /\ todo = [p \in Actors |-> {}]
  /\ current = [p \in Actors |-> NoTxn]
  /\ decision = [p \in Actors |-> NoBucket]
  /\ scope = [p \in Actors |-> {}]
  /\ target = [p \in Actors |-> NoRule]
  /\ facets = [p \in Actors |-> {}]

Event ==
  /\ events < MaxEvents
  /\ events' = events + 1

-----------------------------------------------------------------------------
(* The pull of some pass. *)

\* A new row takes the default facets; an existing one keeps what it has.  The bank
\* does not reuse the id of a transaction it removed.
UpsertTransaction(t, f) ==
  /\ form[t] \notin {f, Gone}
  /\ Event
  /\ form' = [form EXCEPT ![t] = f]
  /\ aged' = IF t \in Stored THEN aged \cup {t} ELSE aged
  /\ UNCHANGED <<bucket, overridden, destination, marked, settingVars,
                 choice, mark, pc, stageVars>>

DeleteTransaction(t) ==
  /\ t \in Stored
  /\ Event
  /\ form' = [form EXCEPT ![t] = Gone]
  /\ bucket' = [bucket EXCEPT ![t] = NoBucket]
  /\ overridden' = overridden \ {t}
  /\ destination' = [destination EXCEPT ![t] = NoDestination]
  /\ marked' = marked \ {t}
  /\ choice' = [choice EXCEPT ![t] = NoBucket]
  /\ mark' = [mark EXCEPT ![t] = NoDestination]
  /\ aged' = aged \ {t}
  /\ UNCHANGED <<settingVars, pc, stageVars>>

-----------------------------------------------------------------------------
(* Stages. *)

\* A stage over no rows at all: its locals go out of scope.
ClearStage(p) ==
  /\ listed' = [listed EXCEPT ![p] = {}]
  /\ todo' = [todo EXCEPT ![p] = {}]
  /\ current' = [current EXCEPT ![p] = NoTxn]
  /\ decision' = [decision EXCEPT ![p] = NoBucket]
  /\ scope' = [scope EXCEPT ![p] = {}]
  /\ target' = [target EXCEPT ![p] = NoRule]
  /\ facets' = [facets EXCEPT ![p] = {}]

Goto(p, next) == pc' = [pc EXCEPT ![p] = next]

\* What follows a stage: pairing follows the sweep whether or not it failed.
After(stage) == IF stage = "categorize" THEN "readFacets" ELSE "idle"

EndStage(p) ==
  /\ pc[p] \in {"categorize", "reapply", "pair"}
  /\ todo[p] = {}
  /\ Goto(p, After(pc[p]))
  /\ ClearStage(p)
  /\ UNCHANGED <<ledgerVars, settingVars, ghostVars, events>>

\* Mutant: a re-application does not skip the rows the user classified.
ListMatchingOverridden(substrings) ==
  {t \in Stored : \E s \in substrings : form[t].merchant \in FoundIn[s]}

\* The rows whose merchant contains one of the substrings, but for the user's own.
ListMatching(substrings) ==
  {t \in Stored \ overridden : \E s \in substrings : form[t].merchant \in FoundIn[s]}

\* A statement fails, or the request is cancelled: the stage stops where it is.
FailStage(p) ==
  /\ pc[p] # "idle"
  /\ Event
  /\ aged' = aged \cup CASE pc[p] = "list"    -> ListMatching(scope[p])
                         [] pc[p] = "reapply" -> todo[p] \cap Stored
                         [] OTHER             -> {}
  /\ Goto(p, After(pc[p]))
  /\ ClearStage(p)
  /\ UNCHANGED <<ledgerVars, settingVars, choice, mark>>

\* categorizeUncategorizedSweep lists the rows no one has classified ...
ListUncategorized ==
  {t \in Stored : bucket[t].class = Uncategorized /\ t \notin overridden}

StartPass(p) ==
  /\ pc[p] = "idle"
  /\ todo' = [todo EXCEPT ![p] = ListUncategorized]
  /\ listed' = [listed EXCEPT ![p] = {Row(t) : t \in ListUncategorized}]
  /\ Goto(p, "categorize")
  /\ UNCHANGED <<ledgerVars, settingVars, ghostVars, events,
                 current, decision, scope, target, facets>>

\* ... and ApplyCategorization the rows a changed rule may concern.
ListForReapply(p) ==
  /\ pc[p] = "list"
  /\ todo' = [todo EXCEPT ![p] = ListMatching(scope[p])]
  /\ listed' = [listed EXCEPT ![p] = {Row(t) : t \in ListMatching(scope[p])}]
  /\ Goto(p, "reapply")
  /\ UNCHANGED <<ledgerVars, settingVars, ghostVars, events,
                 current, decision, scope, target, facets>>

\* resolveAndWrite decides one listed row, in any order, from the columns it was
\* listed with; a row already in that bucket is left alone.
Resolve(p, r) ==
  LET d == Resolved(r.form) IN
  /\ pc[p] \in {"categorize", "reapply"}
  /\ current[p] = NoTxn
  /\ r \in listed[p] /\ r.txn \in todo[p]
  /\ aged' = IF form[r.txn] = r.form THEN aged \ {r.txn} ELSE aged
  /\ \/ /\ d = r.bucket
        /\ todo' = [todo EXCEPT ![p] = @ \ {r.txn}]
        /\ UNCHANGED <<current, decision>>
     \/ /\ d # r.bucket
        /\ current' = [current EXCEPT ![p] = r.txn]
        /\ decision' = [decision EXCEPT ![p] = d]
        /\ UNCHANGED todo
  /\ UNCHANGED <<ledgerVars, settingVars, choice, mark, events,
                 pc, listed, scope, target, facets>>

\* Mutant: a write creates the row it does not find.
WriteBucketOrInsert(p) ==
  LET t == current[p] IN
  /\ pc[p] \in {"categorize", "reapply"}
  /\ t # NoTxn
  /\ bucket' = [bucket EXCEPT ![t] = decision[p]]
  /\ todo' = [todo EXCEPT ![p] = @ \ {t}]
  /\ current' = [current EXCEPT ![p] = NoTxn]
  /\ decision' = [decision EXCEPT ![p] = NoBucket]
  /\ UNCHANGED <<form, overridden, destination, marked, settingVars, ghostVars,
                 events, pc, listed, scope, target, facets>>

\* SetTransactionCategorization, by id alone.
WriteBucket(p) ==
  LET t == current[p] IN
  /\ pc[p] \in {"categorize", "reapply"}
  /\ t # NoTxn
  /\ bucket' = IF t \in Stored THEN [bucket EXCEPT ![t] = decision[p]] ELSE bucket
  /\ todo' = [todo EXCEPT ![p] = @ \ {t}]
  /\ current' = [current EXCEPT ![p] = NoTxn]
  /\ decision' = [decision EXCEPT ![p] = NoBucket]
  /\ UNCHANGED <<form, overridden, destination, marked, settingVars, ghostVars,
                 events, pc, listed, scope, target, facets>>

\* resolveTransferDestinations reads the accounts' savings flags, then the legs ...
ReadFacets(p) ==
  /\ pc[p] = "readFacets"
  /\ facets' = [facets EXCEPT ![p] = savings]
  /\ Goto(p, "listLegs")
  /\ UNCHANGED <<ledgerVars, settingVars, ghostVars, events,
                 listed, todo, current, decision, scope, target>>

Legs == {t \in Stored : bucket[t].class = "transfer"}

\* Mutant: a leg is paired once and never again.
UnpairedSources == {t \in Legs : Outflow(form[t]) /\ destination[t] = NoDestination}

\* Mutant: pairing does not skip the legs the user marked.
AllSources == {t \in Legs : Outflow(form[t])}

Sources == {t \in Legs \ marked : Outflow(form[t])}

ListLegs(p) ==
  /\ pc[p] = "listLegs"
  /\ listed' = [listed EXCEPT ![p] = {Row(t) : t \in Legs}]
  /\ todo' = [todo EXCEPT ![p] = Sources]
  /\ Goto(p, "pair")
  /\ UNCHANGED <<ledgerVars, settingVars, ghostVars, events,
                 current, decision, scope, target, facets>>

\* The inflow legs are the candidates of the outflow legs.
Inflows(rows) ==
  {[txn |-> r.txn, account |-> r.form.account, amount |-> r.form.amount,
    day |-> r.form.day] : r \in {r \in rows : r.form.amount < 0}}

\* ... and writes each outflow leg's destination, by id alone.
SetTransferDestination(p, r) ==
  /\ pc[p] = "pair"
  /\ r \in listed[p] /\ r.txn \in todo[p]
  /\ destination' =
       IF r.txn \in Stored
         THEN [destination EXCEPT ![r.txn] =
                 ResolveTransferSubtype(r.form, Inflows(listed[p]), WindowDays, facets[p])]
         ELSE destination
  /\ todo' = [todo EXCEPT ![p] = @ \ {r.txn}]
  /\ UNCHANGED <<form, bucket, overridden, marked, settingVars, ghostVars, events,
                 pc, listed, current, decision, scope, target, facets>>

-----------------------------------------------------------------------------
(* Rules. *)

\* updated_at of a rule written now: the clock has a resolution of one second, so
\* it may equal the last one.
Stamps == {s \in 0..MaxEdits : /\ \A r \in rules : r.edited <= s
                               /\ s = 0 \/ \E r \in rules : s <= r.edited + 1}

RuleOf(id, pattern, outcome, edited) ==
  [id |-> id, pattern |-> pattern, outcome |-> outcome, edited |-> edited]

Reapply(p, substrings) ==
  /\ Goto(p, "list")
  /\ scope' = [scope EXCEPT ![p] = substrings]
  /\ target' = [target EXCEPT ![p] = NoRule]
  /\ UNCHANGED <<ledgerVars, archived, savings, ghostVars,
                 listed, todo, current, decision, facets>>

CreateRule(p, id, pattern, outcome) ==
  /\ pc[p] = "idle"
  /\ \A r \in rules : r.id # id
  /\ Event
  /\ \E s \in Stamps : rules' = rules \cup {RuleOf(id, pattern, outcome, s)}
  /\ Reapply(p, {pattern})

\* EditRule and DeleteRule first read the rule for its old substring ...
ReadRule(p, r, next) ==
  /\ pc[p] = "idle"
  /\ r \in rules
  /\ Event
  /\ Goto(p, next)
  /\ target' = [target EXCEPT ![p] = r.id]
  /\ scope' = [scope EXCEPT ![p] = {r.pattern}]
  /\ UNCHANGED <<ledgerVars, settingVars, ghostVars,
                 listed, todo, current, decision, facets>>

\* Mutant: an edit re-applies the new substring alone.
EditRuleNewOnly(p, pattern, outcome) ==
  LET others == {r \in rules : r.id # target[p]} IN
  /\ pc[p] = "editRule"
  /\ others # rules
  /\ \E s \in Stamps : rules' = others \cup {RuleOf(target[p], pattern, outcome, s)}
  /\ Reapply(p, {pattern})
  /\ UNCHANGED events

\* ... then write it by id, and re-apply the old substring and the new one.  An
\* edit of a rule deleted in between fails; a second delete deletes nothing.
EditRule(p, pattern, outcome) ==
  LET others == {r \in rules : r.id # target[p]} IN
  /\ pc[p] = "editRule"
  /\ others # rules
  /\ \E s \in Stamps : rules' = others \cup {RuleOf(target[p], pattern, outcome, s)}
  /\ Reapply(p, scope[p] \cup {pattern})
  /\ UNCHANGED events

EditRuleGone(p) ==
  /\ pc[p] = "editRule"
  /\ \A r \in rules : r.id # target[p]
  /\ Goto(p, "idle")
  /\ ClearStage(p)
  /\ UNCHANGED <<ledgerVars, settingVars, ghostVars, events>>

DeleteRule(p) ==
  /\ pc[p] = "deleteRule"
  /\ rules' = {r \in rules : r.id # target[p]}
  /\ Reapply(p, scope[p])
  /\ UNCHANGED events

\* Archiving re-applies nothing: rows resolved before keep what they have.
SetCategoryArchived(k) ==
  /\ Event
  /\ archived' = IF k \in archived THEN archived \ {k} ELSE archived \cup {k}
  /\ aged' = Stored
  /\ UNCHANGED <<ledgerVars, rules, savings, choice, mark, pc, stageVars>>

-----------------------------------------------------------------------------
(* The user's edits of a transaction and of an account. *)

\* Mutant: a choice keeps whatever category the form sent.
UncoupledChoice(class, category) == {Decide(class, category)}

\* coupleChoice: a spending choice needs a category, any other drops it.
CoupleChoice(class, category) ==
  IF class = "spending"
    THEN {Decide(class, k) : k \in {category} \ {NoCategory}}
    ELSE {Decide(class, NoCategory)}

\* OverrideTransactionCategorization: the flag is set, and a row moved off Transfer
\* loses its transfer facet.
OverrideBucket(t, d) ==
  /\ bucket' = [bucket EXCEPT ![t] = d]
  /\ overridden' = overridden \cup {t}
  /\ choice' = [choice EXCEPT ![t] = d]
  /\ IF d.class = "transfer"
       THEN UNCHANGED <<destination, marked, mark>>
       ELSE /\ destination' = [destination EXCEPT ![t] = NoDestination]
            /\ marked' = marked \ {t}
            /\ mark' = [mark EXCEPT ![t] = NoDestination]

\* PostEdit: ReCategorize, and for an outflow chosen as a transfer its destination
\* next.
ReCategorize(p, t, class, category, dest) ==
  /\ pc[p] = "idle"
  /\ t \in Stored
  /\ Event
  /\ \E d \in CoupleChoice(class, category) : OverrideBucket(t, d)
  /\ IF class = "transfer" /\ Outflow(form[t])
       THEN /\ Goto(p, "validateMark")
            /\ current' = [current EXCEPT ![p] = t]
            /\ decision' = [decision EXCEPT ![p] = dest]
       ELSE UNCHANGED <<pc, current, decision>>
  /\ UNCHANGED <<form, settingVars, aged, listed, todo, scope, target, facets>>

\* MarkTransferDestination reads the row and refuses all but an outflow transfer ...
Markable(t) == t \in Stored /\ bucket[t].class = "transfer" /\ Outflow(form[t])

ValidateMark(p) ==
  /\ pc[p] = "validateMark"
  /\ Markable(current[p])
  /\ Goto(p, "mark")
  /\ UNCHANGED <<ledgerVars, settingVars, ghostVars, events, stageVars>>

RefuseMark(p) ==
  /\ pc[p] = "validateMark"
  /\ ~Markable(current[p])
  /\ Goto(p, "idle")
  /\ ClearStage(p)
  /\ UNCHANGED <<ledgerVars, settingVars, ghostVars, events>>

\* ... then writes it by id alone.
MarkTransferDestination(p) ==
  LET t == current[p] IN
  /\ pc[p] = "mark"
  /\ IF t \in Stored
       THEN /\ destination' = [destination EXCEPT ![t] = decision[p]]
            /\ marked' = marked \cup {t}
            /\ mark' = [mark EXCEPT ![t] = decision[p]]
       ELSE UNCHANGED <<destination, marked, mark>>
  /\ Goto(p, "idle")
  /\ ClearStage(p)
  /\ UNCHANGED <<form, bucket, overridden, settingVars, choice, aged, events>>

\* A kind or savings override that changes the flag pairs again.
ChangeSavings(p, a) ==
  /\ pc[p] = "idle"
  /\ Event
  /\ savings' = IF a \in savings THEN savings \ {a} ELSE savings \cup {a}
  /\ Goto(p, "readFacets")
  /\ UNCHANGED <<ledgerVars, rules, archived, ghostVars, stageVars>>

\* The process dies and restarts.
Crash ==
  /\ Event
  /\ aged' = aged
       \cup (UNION {todo[p] \cap Stored : p \in {p \in Actors : pc[p] = "reapply"}})
       \cup (UNION {ListMatching(scope[p]) : p \in {p \in Actors : pc[p] = "list"}})
  /\ pc' = [p \in Actors |-> "idle"]
  /\ listed' = [p \in Actors |-> {}]
  /\ todo' = [p \in Actors |-> {}]
  /\ current' = [p \in Actors |-> NoTxn]
  /\ decision' = [p \in Actors |-> NoBucket]
  /\ scope' = [p \in Actors |-> {}]
  /\ target' = [p \in Actors |-> NoRule]
  /\ facets' = [p \in Actors |-> {}]
  /\ UNCHANGED <<ledgerVars, settingVars, choice, mark>>

-----------------------------------------------------------------------------

\* What an actor does of itself: start passes and carry on with what it began.
ActorStep(p) ==
  \/ StartPass(p)
  \/ ListForReapply(p)
  \/ \E r \in listed[p] : Resolve(p, r) \/ SetTransferDestination(p, r)
  \/ WriteBucket(p)
  \/ ReadFacets(p)
  \/ ListLegs(p)
  \/ EndStage(p)
  \/ \E pattern \in Patterns, o \in RuleOutcomes : EditRule(p, pattern, o)
  \/ EditRuleGone(p)
  \/ DeleteRule(p)
  \/ ValidateMark(p)
  \/ RefuseMark(p)
  \/ MarkTransferDestination(p)

\* What the user asks of it.
Request(p) ==
  \/ \E id \in RuleIds, pattern \in Patterns, o \in RuleOutcomes :
       CreateRule(p, id, pattern, o)
  \/ \E r \in rules : ReadRule(p, r, "editRule") \/ ReadRule(p, r, "deleteRule")
  \/ \E t \in Txns, class \in Classifications,
        category \in Categories \cup {NoCategory}, dest \in Destinations :
       ReCategorize(p, t, class, category, dest)
  \/ \E a \in Accounts : ChangeSavings(p, a)

Environment ==
  \/ \E t \in Txns : DeleteTransaction(t) \/ \E f \in Reports[t] : UpsertTransaction(t, f)
  \/ \E k \in Categories : SetCategoryArchived(k)
  \/ \E p \in Actors : FailStage(p)
  \/ Crash

Next == Environment \/ \E p \in Actors : ActorStep(p) \/ Request(p)

Spec == Init /\ [][Next]_vars

\* Passes recur (the six-hour cron) and no goroutine stops half way for good.
FairSpec == Spec /\ \A p \in Actors : WF_vars(ActorStep(p))
-----------------------------------------------------------------------------
(* Properties. *)

\* Budget and Reporting sum categories over spending rows: whatever runs at once, a
\* row of another class carries no category (resolveAndWrite, coupleChoice).
CategoryFitsClass ==
  \A t \in Txns : bucket[t].category # NoCategory => bucket[t].class = "spending"

\* Once no rule change is being applied, every classified row is in the bucket the
\* stored rules give it, unless the user chose its bucket, or the bank, an archived
\* category or a re-application cut short left it as it was.
RulesApplied ==
  (\A p \in Actors : pc[p] = "idle") =>
     \A t \in Stored \ (overridden \cup aged) :
        bucket[t].class # Uncategorized => bucket[t] = Resolved(form[t])

\* No automatic writer reverts a bucket the user chose.
OverrideSticks == \A t \in overridden : bucket[t] = choice[t]

\* No automatic writer reverts a transfer destination the user chose.
MarkSticks == \A t \in marked : destination[t] = mark[t]

\* The sweep heals itself: whatever failed, in the end no row stays unclassified.
EventuallyCategorized == <>[](\A t \in Stored : bucket[t].class # Uncategorized)

\* In the end every outflow transfer the user left alone has the destination that the
\* stored inflows and the savings flags give it, whichever leg came first.
Paired ==
  \A t \in {u \in Legs \ marked : Outflow(form[u])} :
    destination[t] = ResolveTransferSubtype(form[t], Inflows({Row(u) : u \in Legs}),
                                            WindowDays, savings)
EventuallyPaired == <>[]Paired
=============================================================================
