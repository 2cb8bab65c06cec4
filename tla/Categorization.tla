--------------------------- MODULE Categorization ---------------------------
(***************************************************************************)
(* The two pure decisions of the categorization module: the bucket of one  *)
(* transaction (ResolveCategorization) and the destination of one outflow  *)
(* transfer (ResolveTransferSubtype).                                      *)
(*                                                                         *)
(* Text is abstracted to what the decisions tell apart: a cleaned merchant *)
(* is a value, a rule's substring is a pattern with the set of merchants   *)
(* it occurs in and a length, and a bank category is the signal its        *)
(* primary carries.                                                        *)
(***************************************************************************)
EXTENDS Integers, FiniteSets

CONSTANTS
  Merchants,   \* cleaned merchant names
  Patterns,    \* rule substrings
  FoundIn,     \* FoundIn[p]: the merchants that contain p, whatever the case
  Length,      \* Length[p]: the length of p
  RuleIds,     \* rule ids; ListRules breaks ties on them
  MaxEdits,    \* bound on rule edits
  Categories,  \* spending categories
  NoCategory,  \* no category
  Accounts,    \* accounts
  NoAccount    \* no (known) account

ASSUME CategorizationAssumption ==
  /\ FoundIn \in [Patterns -> SUBSET Merchants]
  /\ Length \in [Patterns -> Nat]
  /\ RuleIds \subseteq Nat
  /\ MaxEdits \in Nat
  /\ NoCategory \notin Categories
  /\ NoAccount \notin Accounts

Classifications == {"income", "spending", "transfer", "needs_review"}
Uncategorized == ""

\* A classification and, for spending, maybe a category.
Decisions == [class : Classifications, category : Categories \cup {NoCategory}]

Decide(class, category) == [class |-> class, category |-> category]

\* validateRule: a spending rule carries a category, the others none.
RuleOutcomes ==
  {Decide("spending", k) : k \in Categories}
    \cup {Decide(c, NoCategory) : c \in {"income", "transfer"}}

\* edited stands for updated_at, which only an edit advances.
Rules == [id : RuleIds, pattern : Patterns, outcome : RuleOutcomes,
          edited : 0..MaxEdits]

\* What a bank category's primary says: a transfer, income, a built-in spending
\* category, or nothing known.
Signals == {"transfer", "income", "unknown"} \cup Categories

-----------------------------------------------------------------------------
(* The bucket of one transaction. *)

\* A rule applies when its text occurs in the merchant, unless it would assign an
\* archived category.
Matching(rules, archived, merchant) ==
  {r \in rules : merchant \in FoundIn[r.pattern] /\ r.outcome.category \notin archived}

\* The longer text wins, then the more recent edit; equals stay in ListRules order.
Beats(r, s) ==
  \/ Length[r.pattern] > Length[s.pattern]
  \/ /\ Length[r.pattern] = Length[s.pattern]
     /\ r.edited > s.edited \/ (r.edited = s.edited /\ r.id > s.id)

Winner(matches) == CHOOSE r \in matches : \A s \in matches \ {r} : Beats(r, s)

\* What the bank says, when that decides anything.
BankDecisions(signal, archived) ==
  CASE signal = "transfer"              -> {Decide("transfer", NoCategory)}
    [] signal = "income"                -> {Decide("income", NoCategory)}
    [] signal \in Categories \ archived -> {Decide("spending", signal)}
    [] OTHER                            -> {}

\* Mutant: an inflow nothing decides is left unclassified, not flagged for review.
FallbackUndecided(outflow) ==
  Decide(IF outflow THEN "spending" ELSE Uncategorized, NoCategory)

Fallback(outflow) ==
  Decide(IF outflow THEN "spending" ELSE "needs_review", NoCategory)

\* A rule first, then the bank's category, then the direction.
ResolveCategorization(rules, archived, merchant, signal, outflow) ==
  LET matches == Matching(rules, archived, merchant)
      bank == BankDecisions(signal, archived)
  IN CASE matches # {}                -> Winner(matches).outcome
       [] matches = {} /\ bank # {}   -> CHOOSE d \in bank : TRUE
       [] matches = {} /\ bank = {}   -> Fallback(outflow)

-----------------------------------------------------------------------------
(* The destination of one outflow transfer. *)

Subtypes == {"savings_contribution", "plain"}
NoSubtype == ""

Destinations == [account : Accounts \cup {NoAccount}, subtype : Subtypes]

CalendarDayDiff(a, b) == IF a < b THEN b - a ELSE a - b
AmountCents(amount) == IF amount < 0 THEN -amount ELSE amount

\* The candidates a leg may be paired with; legs and candidates are transactions
\* with an account, an amount (outflow positive) and a day.
Pairs(leg, candidates, window) ==
  {c \in candidates : /\ c.account # leg.account
                      /\ AmountCents(c.amount) = AmountCents(leg.amount)
                      /\ CalendarDayDiff(leg.day, c.day) <= window}

\* Exactly one partner names the destination; none or several leave it unknown.
\* savings is the set of accounts that count as savings.
ResolveTransferSubtype(leg, candidates, window, savings) ==
  LET pairs == Pairs(leg, candidates, window)
      dest == (CHOOSE c \in pairs : TRUE).account
  IN IF Cardinality(pairs) = 1
       THEN [account |-> dest,
             subtype |-> IF dest \in savings THEN "savings_contribution" ELSE "plain"]
       ELSE [account |-> NoAccount, subtype |-> "plain"]
=============================================================================
