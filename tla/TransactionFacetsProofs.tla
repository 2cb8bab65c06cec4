----------------------- MODULE TransactionFacetsProofs -----------------------
(***************************************************************************)
(* Proofs about TransactionFacets, for every set of transactions, rules,   *)
(* categories and accounts.  Types and the fit of category and class hold  *)
(* however many goroutines run; what the user chose stands, and rules stay *)
(* applied, while one runs.                                                *)
(***************************************************************************)
EXTENDS TransactionFacets, FiniteReasoning

-----------------------------------------------------------------------------
(* Resolution. *)

\* Rules are told apart by their ids, and there are finitely many.
DistinctRules(S) ==
  /\ S \subseteq Rules
  /\ IsFiniteSet(S)
  /\ \A r, s \in S : r.id = s.id => r = s

\* Among rules that match, one beats every other: length, edit and id order them
\* totally, so ResolveCategorization does not depend on how they are enumerated.
LEMMA WinnerExists ==
  ASSUME NEW S, DistinctRules(S), S # {}
  PROVE  \E r \in S : \A s \in S \ {r} : Beats(r, s)
<1> USE DEF DistinctRules
<1> DEFINE Won(T) == \E r \in T : \A s \in T \ {r} : Beats(r, s)
           Lost == {T \in FiniteSubsetsOf(S) : T # {} /\ ~Won(T)}
<1>1. SUFFICES ASSUME Lost # {} PROVE FALSE
  BY FS_Subset DEF FiniteSubsetsOf
<1>2. PICK T \in Lost : \A U \in Lost : U \subseteq T => U = T
  <2>1. Lost \in SUBSET FiniteSubsetsOf(S)
    OBVIOUS
  <2> HIDE DEF Lost
  <2> QED
    BY <1>1, <2>1, MinimalMember
<1>3. PICK x \in T : TRUE
  OBVIOUS
<1> DEFINE U == T \ {x}
<1>4. U = {} \/ Won(U)
  <2>1. U \in FiniteSubsetsOf(S) /\ U \subseteq T /\ U # T
    BY <1>3, FS_RemoveElement DEF FiniteSubsetsOf
  <2> QED
    BY <1>2, <2>1
<1>5. CASE U = {}
  BY <1>3, <1>5
<1>6. CASE Won(U)
  <2>1. PICK y \in U : \A s \in U \ {y} : Beats(y, s)
    BY <1>6
  <2>2. x \in Rules /\ y \in Rules /\ x.id # y.id /\ T \subseteq Rules
    BY <1>3 DEF FiniteSubsetsOf
  <2>3. ASSUME NEW r \in Rules
        PROVE  r.id \in Nat /\ r.edited \in Nat /\ Length[r.pattern] \in Nat
    <3>1. r.id \in RuleIds /\ r.edited \in 0..MaxEdits /\ r.pattern \in Patterns
      BY DEF Rules
    <3>2. /\ RuleIds \subseteq Nat /\ 0..MaxEdits \subseteq Nat
          /\ \A l \in Patterns : Length[l] \in Nat
      BY CategorizationAssumption
    <3> QED
      BY <3>1, <3>2
  <2>4. Beats(x, y) \/ Beats(y, x)
    BY <2>2, <2>3 DEF Beats
  <2>5. ASSUME Beats(x, y), NEW s \in T \ {x} PROVE Beats(x, s)
    BY <2>1, <2>2, <2>3, <2>5 DEF Beats
  <2> QED
    BY <1>3, <2>1, <2>4, <2>5
<1> QED
  BY <1>4, <1>5, <1>6

\* A bucket whose category, if any, is a spending one.
Fits(b) == b.category # NoCategory => b.class = "spending"

\* Whatever decides a row, a rule, the bank or the direction, the decision is a
\* classification with a category only for spending.
LEMMA ResolvedFits ==
  ASSUME NEW S, DistinctRules(S), NEW A, NEW merchant, NEW signal, NEW outflow,
         NEW d, d = ResolveCategorization(S, A, merchant, signal, outflow)
  PROVE  d \in Decisions /\ Fits(d) /\ d.class # Uncategorized
<1> DEFINE matches == Matching(S, A, merchant)
           bank == BankDecisions(signal, A)
<1>1. ASSUME NEW c \in Classifications, NEW k \in Categories \cup {NoCategory},
             k = NoCategory \/ c = "spending", d = Decide(c, k)
      PROVE  d \in Decisions /\ Fits(d) /\ d.class # Uncategorized
  <2>1. d.class = c /\ d.category = k
    BY <1>1 DEF Decide
  <2>2. d \in Decisions
    BY <1>1 DEF Decide, Decisions
  <2>3. c # Uncategorized
    BY DEF Classifications, Uncategorized
  <2> QED
    BY <1>1, <2>1, <2>2, <2>3 DEF Fits
<1>2. {"income", "transfer", "spending", "needs_review"} \subseteq Classifications
  BY DEF Classifications
<1>3. CASE matches # {}
  <2>1. DistinctRules(matches)
    BY FS_Subset DEF DistinctRules, Matching
  <2>2. Winner(matches) \in matches
    BY <1>3, <2>1, WinnerExists DEF Winner
  <2>3. d = Winner(matches).outcome
    BY <1>3 DEF ResolveCategorization
  <2>4. d \in RuleOutcomes
    BY <2>1, <2>2, <2>3 DEF DistinctRules, Rules
  <2> QED
    BY <1>1, <1>2, <2>4 DEF RuleOutcomes
<1>4. CASE matches = {} /\ bank # {}
  <2>1. d \in bank
    BY <1>4 DEF ResolveCategorization
  <2> QED
    BY <1>1, <1>2, <2>1 DEF BankDecisions
<1>5. CASE matches = {} /\ bank = {}
  <2>1. d = Fallback(outflow)
    BY <1>5 DEF ResolveCategorization
  <2> QED
    BY <1>1, <1>2, <2>1 DEF Fallback
<1> QED
  BY <1>3, <1>4, <1>5

\* A paired leg names an account of one of the candidates.
LEMMA DestinationType ==
  ASSUME NEW leg, NEW C, \A c \in C : c.account \in Accounts, NEW window, NEW S
  PROVE  ResolveTransferSubtype(leg, C, window, S) \in Destinations
<1> DEFINE pairs == Pairs(leg, C, window)
           c == CHOOSE c \in pairs : TRUE
<1>1. Cardinality(pairs) = 1 => pairs # {}
  BY FS_EmptySet
<1>2. pairs \subseteq C
  BY DEF Pairs
<1>3. Cardinality(pairs) = 1 => c.account \in Accounts
  BY <1>1, <1>2
<1> QED
  BY <1>3 DEF ResolveTransferSubtype, Destinations, Subtypes

-----------------------------------------------------------------------------
(* Types, for any number of goroutines. *)

Stages ==
  {"idle", "list", "categorize", "reapply", "readFacets", "listLegs", "pair", "editRule",
   "deleteRule", "validateMark", "mark"}

Forms == (UNION {Reports[t] : t \in Txns}) \cup {Absent, Gone}

\* What an actor holds: the rule it edits, the row and the destination it marks, and
\* otherwise a bucket to write.
LocalOK ==
  \A p \in Actors :
    /\ pc[p] = "editRule" => target[p] \in RuleIds
    /\ pc[p] \in {"validateMark", "mark"} =>
         current[p] \in Txns /\ decision[p] \in Destinations
    /\ pc[p] \notin {"validateMark", "mark"} =>
         decision[p] \in Buckets /\ Fits(decision[p])

TypeInv ==
  /\ TypeOK
  /\ form \in [Txns -> Forms]
  /\ listed \in [Actors -> SUBSET Rows]
  /\ LocalOK
  /\ DistinctRules(rules)
  /\ CategoryFitsClass

\* The default bucket is one, and carries no category.
LEMMA NoBucketFits ==
  NoBucket \in Buckets /\ Fits(NoBucket)
BY DEF NoBucket, Buckets, Fits

\* A stage cleared leaves what an idle actor holds.
LEMMA ClearStageType ==
  ASSUME TypeInv, NEW p \in Actors, ClearStage(p), NEW next, Goto(p, next),
         next \in {"idle", "readFacets"}
  PROVE  /\ pc' \in [Actors -> Stages]
         /\ listed' \in [Actors -> SUBSET Rows]
         /\ todo' \in [Actors -> SUBSET Txns]
         /\ current' \in [Actors -> Txns \cup {NoTxn}]
         /\ decision' \in [Actors -> Buckets \cup Destinations]
         /\ scope' \in [Actors -> SUBSET Patterns]
         /\ target' \in [Actors -> RuleIds \cup {NoRule}]
         /\ facets' \in [Actors -> SUBSET Accounts]
         /\ LocalOK'
<1> USE NoBucketFits DEF TypeInv, TypeOK, ClearStage, Goto, Stages
<1>1. pc' \in [Actors -> Stages]
  OBVIOUS
<1>2. LocalOK'
  BY DEF LocalOK
<1> QED
  BY <1>1, <1>2

\* The type invariant holds of an empty ledger.
LEMMA InitType == Init => TypeInv
<1> SUFFICES ASSUME Init PROVE TypeInv
  OBVIOUS
<1> USE FacetsAssumption, NoBucketFits
<1>1. TypeOK
  BY DEF Init, TypeOK, Stored
<1>2. DistinctRules(rules)
  BY FS_EmptySet DEF Init, DistinctRules
<1>3. CategoryFitsClass /\ LocalOK
  BY DEF Init, CategoryFitsClass, Fits, LocalOK, NoBucket
<1> QED
  BY <1>1, <1>2, <1>3 DEF TypeInv, Init, Forms

\* What the bank and the user's settings do keeps the types ...
LEMMA EnvironmentType == TypeInv /\ Environment => TypeInv'
<1> SUFFICES ASSUME TypeInv, Environment PROVE TypeInv'
  OBVIOUS
<1> USE FacetsAssumption, NoBucketFits
    DEF Stages, ledgerVars, settingVars, ghostVars, stageVars, Event
<1>1. ASSUME NEW t \in Txns, DeleteTransaction(t) PROVE TypeInv'
  BY <1>1 DEF DeleteTransaction, TypeInv, TypeOK, LocalOK, CategoryFitsClass, Fits, Stored,
     Forms, NoBucket
<1>2. ASSUME NEW t \in Txns, NEW f \in Reports[t], UpsertTransaction(t, f) PROVE TypeInv'
  BY <1>2 DEF UpsertTransaction, TypeInv, TypeOK, LocalOK, CategoryFitsClass, Stored, Forms
<1>3. ASSUME NEW k \in Categories, SetCategoryArchived(k) PROVE TypeInv'
  BY <1>3 DEF SetCategoryArchived, TypeInv, TypeOK, LocalOK, CategoryFitsClass, Stored, Forms
<1>4. ASSUME NEW p \in Actors, FailStage(p) PROVE TypeInv'
  <2>1. aged' \subseteq Stored
    BY <1>4 DEF FailStage, TypeInv, TypeOK, ListMatching
  <2>2. After(pc[p]) \in {"idle", "readFacets"} /\ Goto(p, After(pc[p])) /\ ClearStage(p)
    BY <1>4 DEF FailStage, After
  <2>3. UNCHANGED <<ledgerVars, settingVars, choice, mark>> /\ events' \in 0..MaxEvents
    BY <1>4 DEF FailStage, TypeInv, TypeOK
  <2> QED
    BY <2>1, <2>2, <2>3, ClearStageType DEF TypeInv, TypeOK, Stored, CategoryFitsClass
<1>5. CASE Crash
  <2>1. aged' \subseteq Stored
    BY <1>5 DEF Crash, TypeInv, TypeOK, ListMatching
  <2>2. LocalOK'
    BY <1>5 DEF Crash, LocalOK
  <2> QED
    BY <1>5, <2>1, <2>2 DEF Crash, TypeInv, TypeOK, Stored, CategoryFitsClass
<1> QED
  BY <1>1, <1>2, <1>3, <1>4, <1>5 DEF Environment

\* ... so do the stages of an actor ...
LEMMA ActorType == ASSUME NEW p \in Actors PROVE TypeInv /\ ActorStep(p) => TypeInv'
<1> SUFFICES ASSUME TypeInv, ActorStep(p) PROVE TypeInv'
  OBVIOUS
<1> USE FacetsAssumption, NoBucketFits
    DEF Stages, ledgerVars, settingVars, ghostVars, stageVars
<1>1. CASE StartPass(p) \/ ListForReapply(p)
  <2>1. /\ {Row(t) : t \in ListUncategorized} \subseteq Rows
        /\ {Row(t) : t \in ListMatching(scope[p])} \subseteq Rows
    BY DEF Rows, Row, ListUncategorized, ListMatching, Stored, TypeInv, TypeOK, Forms
  <2>2. CASE StartPass(p)
    BY <2>1, <2>2 DEF StartPass, Goto, TypeInv, TypeOK, LocalOK, Stored, CategoryFitsClass,
       ListUncategorized
  <2>3. CASE ListForReapply(p)
    BY <2>1, <2>3 DEF ListForReapply, Goto, TypeInv, TypeOK, LocalOK, Stored,
       CategoryFitsClass, ListMatching
  <2> QED
    BY <1>1, <2>2, <2>3
<1>2. ASSUME NEW r \in listed[p], Resolve(p, r) PROVE TypeInv'
  <2> DEFINE d == Resolved(r.form)
  <2>1. d \in Decisions /\ Fits(d)
    BY ResolvedFits DEF Resolved, TypeInv
  <2> HIDE DEF d
  <2>2. r.txn \in Txns
    BY DEF TypeInv, Rows
  <2>3. decision' \in [Actors -> Buckets \cup Destinations] /\ LocalOK'
    BY <1>2, <2>1 DEF Resolve, d, TypeInv, TypeOK, LocalOK, Buckets
  <2> QED
    BY <1>2, <2>2, <2>3 DEF Resolve, TypeInv, TypeOK, Stored, CategoryFitsClass
<1>3. ASSUME NEW r \in listed[p], SetTransferDestination(p, r) PROVE TypeInv'
  <2>1. r.txn \in Txns /\ listed[p] \subseteq Rows
    BY DEF TypeInv, Rows
  <2>2. \A c \in Inflows(listed[p]) : c.account \in Accounts
    BY <2>1 DEF Inflows, Rows
  <2> DEFINE e == ResolveTransferSubtype(r.form, Inflows(listed[p]), WindowDays, facets[p])
  <2>3. e \in Destinations
    BY <2>2, DestinationType
  <2> HIDE DEF e
  <2> QED
    BY <1>3, <2>1, <2>3 DEF SetTransferDestination, e, TypeInv, TypeOK, LocalOK, Stored,
       CategoryFitsClass
<1>4. CASE WriteBucket(p)
  BY <1>4 DEF WriteBucket, TypeInv, TypeOK, LocalOK, Stored, CategoryFitsClass, Fits
<1>5. CASE ReadFacets(p)
  BY <1>5 DEF ReadFacets, Goto, TypeInv, TypeOK, LocalOK, Stored, CategoryFitsClass
<1>6. CASE ListLegs(p)
  <2>1. {Row(t) : t \in Legs} \subseteq Rows
    BY DEF Rows, Row, Legs, Stored, TypeInv, TypeOK, Forms
  <2> QED
    BY <1>6, <2>1 DEF ListLegs, Goto, TypeInv, TypeOK, LocalOK, Stored, CategoryFitsClass,
       Sources, Legs
<1>7. CASE EndStage(p)
  <2>1. After(pc[p]) \in {"idle", "readFacets"}
    BY DEF After
  <2> QED
    BY <1>7, <2>1, ClearStageType DEF EndStage, TypeInv, TypeOK, Stored, CategoryFitsClass
<1>8. ASSUME NEW pattern \in Patterns, NEW o \in RuleOutcomes, EditRule(p, pattern, o)
      PROVE  TypeInv'
  <2>1. PICK s \in Stamps :
          rules' = {r \in rules : r.id # target[p]} \cup {RuleOf(target[p], pattern, o, s)}
    BY <1>8 DEF EditRule
  <2>2. target[p] \in RuleIds
    BY <1>8 DEF EditRule, TypeInv, LocalOK
  <2>3. /\ RuleOf(target[p], pattern, o, s) \in Rules
        /\ RuleOf(target[p], pattern, o, s).id = target[p]
    BY <2>2 DEF RuleOf, Rules, Stamps
  <2>4. DistinctRules(rules')
    BY <2>1, <2>3, FS_Subset, FS_AddElement DEF TypeInv, DistinctRules
  <2> QED
    BY <1>8, <2>4 DEF EditRule, Reapply, Goto, TypeInv, TypeOK, LocalOK, Stored,
       CategoryFitsClass, DistinctRules
<1>9. CASE EditRuleGone(p)
  BY <1>9, ClearStageType DEF EditRuleGone, TypeInv, TypeOK, Stored, CategoryFitsClass
<1>10. CASE DeleteRule(p)
  <2>1. DistinctRules(rules')
    BY <1>10, FS_Subset DEF DeleteRule, TypeInv, DistinctRules
  <2> QED
    BY <1>10, <2>1 DEF DeleteRule, Reapply, Goto, TypeInv, TypeOK, LocalOK, Stored,
       CategoryFitsClass, DistinctRules
<1>11. CASE ValidateMark(p)
  BY <1>11 DEF ValidateMark, Goto, TypeInv, TypeOK, LocalOK, Stored, CategoryFitsClass
<1>12. CASE RefuseMark(p)
  BY <1>12, ClearStageType DEF RefuseMark, TypeInv, TypeOK, Stored, CategoryFitsClass
<1>13. CASE MarkTransferDestination(p)
  <2>1. decision[p] \in Destinations
    BY <1>13 DEF MarkTransferDestination, TypeInv, LocalOK
  <2>2. /\ destination' \in [Txns -> Destinations \cup {NoDestination}]
        /\ mark' \in [Txns -> Destinations \cup {NoDestination}]
        /\ marked' \subseteq Stored
        /\ \A t \in Txns \ Stored : destination'[t] = destination[t]
    BY <1>13, <2>1 DEF MarkTransferDestination, TypeInv, TypeOK
  <2>3. ClearStage(p) /\ Goto(p, "idle")
    BY <1>13 DEF MarkTransferDestination
  <2>4. UNCHANGED <<form, bucket, overridden, rules, archived, savings, choice, aged, events>>
    BY <1>13 DEF MarkTransferDestination
  <2>5. Stored' = Stored /\ CategoryFitsClass'
    BY <2>4 DEF TypeInv, Stored, CategoryFitsClass
  <2>6. TypeOK'
    BY <2>2, <2>3, <2>4, <2>5, ClearStageType DEF TypeInv, TypeOK
  <2> QED
    BY <2>3, <2>4, <2>5, <2>6, ClearStageType DEF TypeInv
<1> QED
  BY <1>1, <1>2, <1>3, <1>4, <1>5, <1>6, <1>7, <1>8, <1>9, <1>10, <1>11, <1>12, <1>13
  DEF ActorStep

\* ... and the user's requests.
LEMMA RequestType == ASSUME NEW p \in Actors PROVE TypeInv /\ Request(p) => TypeInv'
<1> SUFFICES ASSUME TypeInv, Request(p) PROVE TypeInv'
  OBVIOUS
<1> USE FacetsAssumption, NoBucketFits
    DEF Stages, ledgerVars, settingVars, ghostVars, stageVars, Event, Goto
<1>1. ASSUME NEW id \in RuleIds, NEW pattern \in Patterns, NEW o \in RuleOutcomes,
             CreateRule(p, id, pattern, o)
      PROVE  TypeInv'
  <2>1. PICK s \in Stamps : rules' = rules \cup {RuleOf(id, pattern, o, s)}
    BY <1>1 DEF CreateRule
  <2>2. RuleOf(id, pattern, o, s) \in Rules /\ RuleOf(id, pattern, o, s).id = id
    BY DEF RuleOf, Rules, Stamps
  <2>3. DistinctRules(rules')
    BY <1>1, <2>1, <2>2, FS_AddElement DEF CreateRule, TypeInv, DistinctRules
  <2> QED
    BY <1>1, <2>3 DEF CreateRule, Reapply, TypeInv, TypeOK, LocalOK, Stored,
       CategoryFitsClass, DistinctRules
<1>2. ASSUME NEW r \in rules, NEW next \in {"editRule", "deleteRule"}, ReadRule(p, r, next)
      PROVE  TypeInv'
  <2>1. r.id \in RuleIds /\ r.pattern \in Patterns
    BY DEF TypeInv, DistinctRules, Rules
  <2> QED
    BY <1>2, <2>1 DEF ReadRule, TypeInv, TypeOK, LocalOK, Stored, CategoryFitsClass
<1>3. ASSUME NEW t \in Txns, NEW class \in Classifications,
             NEW category \in Categories \cup {NoCategory}, NEW dest \in Destinations,
             ReCategorize(p, t, class, category, dest)
      PROVE  TypeInv'
  <2>1. PICK d \in CoupleChoice(class, category) : OverrideBucket(t, d)
    BY <1>3 DEF ReCategorize
  <2>2. d \in Buckets /\ Fits(d)
    BY DEF CoupleChoice, Decide, Decisions, Buckets, Fits
  <2>3. /\ bucket' \in [Txns -> Buckets]
        /\ CategoryFitsClass'
        /\ choice' \in [Txns -> Buckets]
        /\ overridden' = overridden \cup {t}
        /\ \A u \in Txns \ {t} : bucket'[u] = bucket[u]
    BY <2>1, <2>2 DEF OverrideBucket, TypeInv, TypeOK, CategoryFitsClass, Fits
  <2>4. /\ destination' \in [Txns -> Destinations \cup {NoDestination}]
        /\ mark' \in [Txns -> Destinations \cup {NoDestination}]
        /\ marked' \subseteq marked
        /\ \A u \in Txns \ {t} : destination'[u] = destination[u]
    BY <2>1 DEF OverrideBucket, TypeInv, TypeOK
  <2>5. LocalOK' /\ pc' \in [Actors -> Stages]
                 /\ current' \in [Actors -> Txns \cup {NoTxn}]
                 /\ decision' \in [Actors -> Buckets \cup Destinations]
    BY <1>3 DEF ReCategorize, TypeInv, TypeOK, LocalOK
  <2> QED
    BY <1>3, <2>3, <2>4, <2>5 DEF ReCategorize, TypeInv, TypeOK, Stored
<1>4. ASSUME NEW a \in Accounts, ChangeSavings(p, a) PROVE TypeInv'
  BY <1>4 DEF ChangeSavings, TypeInv, TypeOK, LocalOK, Stored, CategoryFitsClass
<1> QED
  BY <1>1, <1>2, <1>3, <1>4 DEF Request

\* The type invariant, with the fit of category and class, is inductive.
LEMMA TypeStep == TypeInv /\ [Next]_vars => TypeInv'
<1> SUFFICES ASSUME TypeInv, [Next]_vars PROVE TypeInv'
  OBVIOUS
<1>1. CASE UNCHANGED vars
  BY <1>1 DEF vars, ledgerVars, settingVars, ghostVars, stageVars, TypeInv, TypeOK, LocalOK,
     Stored, CategoryFitsClass, DistinctRules
<1> QED
  BY <1>1, EnvironmentType, ActorType, RequestType DEF Next

\* Every variable has its type, rules have distinct ids, and no facet outlives its row,
\* however many goroutines run, fail and crash.
THEOREM TypeCorrect == Spec => []TypeOK
<1>1. TypeInv => TypeOK
  BY DEF TypeInv
<1> QED
  BY <1>1, InitType, TypeStep, PTL DEF Spec

\* A row that is not spending carries no category, however many goroutines write it.
THEOREM CategoryAlwaysFits == Spec => []CategoryFitsClass
<1>1. TypeInv => CategoryFitsClass
  BY DEF TypeInv
<1> QED
  BY <1>1, InitType, TypeStep, PTL DEF Spec

-----------------------------------------------------------------------------
(* What the user chose, with one goroutine.  With two it may be lost: a      *)
(* re-application lists a row, the user overrides it, and the row is written *)
(* (run facets_override_lost).                                               *)

OneActor == \A p, q \in Actors : p = q

Sweeping(p) == pc[p] \in {"categorize", "reapply"}

\* A row the user chose something for is not one a stage still has to write.
UserInv ==
  /\ OverrideSticks
  /\ MarkSticks
  /\ \A p \in Actors :
       /\ Sweeping(p) => /\ todo[p] \cap overridden = {}
                         /\ current[p] \in todo[p] \cup {NoTxn}
       /\ pc[p] \notin {"categorize", "reapply", "validateMark", "mark"} => current[p] = NoTxn
       /\ pc[p] = "pair" => todo[p] \cap marked = {}

\* The bank, failures and crashes leave the user's choices standing ...
LEMMA UserEnvironment ==
  ASSUME OneActor, TypeInv, UserInv, Environment
  PROVE  UserInv'
<1> USE DEF ledgerVars, settingVars, ghostVars, stageVars, OverrideSticks, MarkSticks,
            Sweeping, TypeInv, TypeOK
<1>1. ASSUME NEW t \in Txns, DeleteTransaction(t) PROVE UserInv'
  BY <1>1 DEF DeleteTransaction, UserInv, Stored
<1>2. ASSUME NEW t \in Txns, NEW f \in Reports[t], UpsertTransaction(t, f) PROVE UserInv'
  BY <1>2 DEF UpsertTransaction, UserInv
<1>3. ASSUME NEW k \in Categories, SetCategoryArchived(k) PROVE UserInv'
  BY <1>3 DEF SetCategoryArchived, UserInv
<1>4. ASSUME NEW p \in Actors, FailStage(p) PROVE UserInv'
  BY <1>4 DEF FailStage, After, Goto, ClearStage, UserInv
<1>5. CASE Crash
  BY <1>5 DEF Crash, UserInv
<1> QED
  BY <1>1, <1>2, <1>3, <1>4, <1>5 DEF Environment

\* ... so do the stages of the one goroutine ...
LEMMA UserActor ==
  ASSUME OneActor, TypeInv, UserInv, NEW p \in Actors, ActorStep(p)
  PROVE  UserInv'
<1> USE FacetsAssumption
    DEF ledgerVars, settingVars, ghostVars, stageVars, OverrideSticks, MarkSticks,
        Sweeping, TypeInv, TypeOK, Goto, ClearStage, OneActor
<1>1. CASE StartPass(p)
  BY <1>1 DEF StartPass, ListUncategorized, UserInv
<1>2. CASE ListForReapply(p)
  BY <1>2 DEF ListForReapply, ListMatching, UserInv
<1>3. ASSUME NEW r \in listed[p], Resolve(p, r) PROVE UserInv'
  BY <1>3 DEF Resolve, UserInv
<1>4. ASSUME NEW r \in listed[p], SetTransferDestination(p, r) PROVE UserInv'
  BY <1>4 DEF SetTransferDestination, UserInv
<1>5. CASE WriteBucket(p)
  BY <1>5 DEF WriteBucket, UserInv
<1>6. CASE ReadFacets(p)
  BY <1>6 DEF ReadFacets, UserInv
<1>7. CASE ListLegs(p)
  BY <1>7 DEF ListLegs, Sources, UserInv
<1>8. CASE EndStage(p)
  BY <1>8 DEF EndStage, After, UserInv
<1>9. ASSUME NEW pattern \in Patterns, NEW o \in RuleOutcomes, EditRule(p, pattern, o)
      PROVE  UserInv'
  BY <1>9 DEF EditRule, Reapply, UserInv
<1>10. CASE EditRuleGone(p)
  BY <1>10 DEF EditRuleGone, UserInv
<1>11. CASE DeleteRule(p)
  BY <1>11 DEF DeleteRule, Reapply, UserInv
<1>12. CASE ValidateMark(p)
  BY <1>12 DEF ValidateMark, UserInv
<1>13. CASE RefuseMark(p)
  BY <1>13 DEF RefuseMark, UserInv
<1>14. CASE MarkTransferDestination(p)
  <2>1. OverrideSticks'
    BY <1>14 DEF MarkTransferDestination, UserInv
  <2>2. MarkSticks'
    <3>1. marked \subseteq Txns /\ Stored \subseteq Txns /\ UserInv
      BY DEF Stored
    <3>2. CASE current[p] \in Stored
      BY <1>14, <3>1, <3>2 DEF MarkTransferDestination, UserInv
    <3>3. CASE current[p] \notin Stored
      BY <1>14, <3>3 DEF MarkTransferDestination, UserInv
    <3> QED
      BY <3>2, <3>3
  <2>3. pc'[p] = "idle" /\ current'[p] = NoTxn
    BY <1>14 DEF MarkTransferDestination
  <2> QED
    BY <2>1, <2>2, <2>3 DEF UserInv
<1> QED
  BY <1>1, <1>2, <1>3, <1>4, <1>5, <1>6, <1>7, <1>8, <1>9, <1>10, <1>11, <1>12, <1>13,
     <1>14 DEF ActorStep

\* ... and the requests it serves.
LEMMA UserRequest ==
  ASSUME OneActor, TypeInv, UserInv, NEW p \in Actors, Request(p)
  PROVE  UserInv'
<1> USE DEF ledgerVars, settingVars, ghostVars, stageVars, OverrideSticks, MarkSticks,
            Sweeping, TypeInv, TypeOK, Goto, OneActor
<1>1. ASSUME NEW id \in RuleIds, NEW pattern \in Patterns, NEW o \in RuleOutcomes,
             CreateRule(p, id, pattern, o)
      PROVE  UserInv'
  BY <1>1 DEF CreateRule, Reapply, UserInv
<1>2. ASSUME NEW r \in rules, NEW next \in {"editRule", "deleteRule"}, ReadRule(p, r, next)
      PROVE  UserInv'
  BY <1>2 DEF ReadRule, UserInv
<1>3. ASSUME NEW t \in Txns, NEW class \in Classifications,
             NEW category \in Categories \cup {NoCategory}, NEW dest \in Destinations,
             ReCategorize(p, t, class, category, dest)
      PROVE  UserInv'
  <2>1. PICK d \in CoupleChoice(class, category) : OverrideBucket(t, d)
    BY <1>3 DEF ReCategorize
  <2>2. OverrideSticks'
    BY <2>1 DEF OverrideBucket, UserInv
  <2>3. MarkSticks'
    <3>1. marked \subseteq Txns
      BY DEF Stored
    <3>2. CASE d.class = "transfer"
      BY <2>1, <3>2 DEF OverrideBucket, UserInv
    <3>3. CASE d.class # "transfer"
      BY <2>1, <3>1, <3>3 DEF OverrideBucket, UserInv
    <3> QED
      BY <3>2, <3>3
  <2>4. \/ pc'[p] = "idle" /\ current'[p] = NoTxn
        \/ pc'[p] = "validateMark"
    BY <1>3 DEF ReCategorize, UserInv
  <2> QED
    BY <2>2, <2>3, <2>4 DEF UserInv
<1>4. ASSUME NEW a \in Accounts, ChangeSavings(p, a) PROVE UserInv'
  BY <1>4 DEF ChangeSavings, UserInv
<1> QED
  BY <1>1, <1>2, <1>3, <1>4 DEF Request

\* Both invariants hold of every behaviour with one goroutine.
LEMMA UserInvariant == ASSUME OneActor PROVE Spec => [](TypeInv /\ UserInv)
<1>1. Init => UserInv
  BY DEF Init, UserInv, OverrideSticks, MarkSticks, Sweeping
<1>2. TypeInv /\ UserInv /\ [Next]_vars => UserInv'
  <2> SUFFICES ASSUME TypeInv, UserInv, [Next]_vars PROVE UserInv'
    OBVIOUS
  <2>1. CASE UNCHANGED vars
    BY <2>1 DEF vars, ledgerVars, ghostVars, stageVars, UserInv, OverrideSticks,
       MarkSticks, Sweeping
  <2> QED
    BY <2>1, UserEnvironment, UserActor, UserRequest DEF Next
<1> QED
  BY <1>1, <1>2, InitType, TypeStep, PTL DEF Spec

\* With one goroutine no automatic writer reverts a bucket the user chose.
THEOREM OverrideAlwaysSticks == ASSUME OneActor PROVE Spec => []OverrideSticks
<1>1. UserInv => OverrideSticks
  BY DEF UserInv
<1> QED
  BY <1>1, UserInvariant, PTL

\* With one goroutine no automatic writer reverts a destination the user chose.
THEOREM MarkAlwaysSticks == ASSUME OneActor PROVE Spec => []MarkSticks
<1>1. UserInv => MarkSticks
  BY DEF UserInv
<1> QED
  BY <1>1, UserInvariant, PTL

-----------------------------------------------------------------------------
(* The rules in force, with one goroutine. *)

ResolvedBy(S, A, f) == ResolveCategorization(S, A, f.merchant, f.signal, Outflow(f))

\* The row is one that a rule change still has to reach.
ToReapply(t) ==
  \E p \in Actors : \/ pc[p] = "list" /\ t \in ListMatching(scope[p])
                    \/ pc[p] = "reapply" /\ t \in todo[p]

\* RulesApplied, while an actor runs as well.
Applied ==
  \A t \in Stored \ (overridden \cup aged) :
    \/ bucket[t].class = Uncategorized
    \/ bucket[t] = ResolvedBy(rules, archived, form[t])
    \/ ToReapply(t)

\* What a sweep or a re-application listed still describes the rows it has to write,
\* and what it is about to write is what the rules say, but where the row has aged.
SweepOK(p) ==
  /\ \A t \in todo[p] : form[t] # Absent
  /\ \A r, s \in listed[p] : r.txn = s.txn => r = s
  /\ \A r \in listed[p] : r.txn \in todo[p] /\ r.txn \in Stored =>
       r.bucket = bucket[r.txn] /\ (r.form # form[r.txn] => r.txn \in aged)
  /\ current[p] \in Stored \ aged =>
       decision[p] = ResolvedBy(rules, archived, form[current[p]])
  /\ pc[p] = "categorize" => \A t \in todo[p] \cap Stored : bucket[t].class = Uncategorized

\* The rule an edit or a deletion read is still the stored one.
ReadOK(p) == \E r \in rules : r.id = target[p] /\ scope[p] = {r.pattern}

RulesInv ==
  /\ Applied
  /\ \A p \in Actors : Sweeping(p) => SweepOK(p)
  /\ \A p \in Actors : pc[p] \in {"editRule", "deleteRule"} => ReadOK(p)

\* Rules that do not match a row do not decide it.
LEMMA SameResolution ==
  ASSUME NEW S, NEW T, NEW A, NEW f, Matching(S, A, f.merchant) = Matching(T, A, f.merchant)
  PROVE  ResolvedBy(S, A, f) = ResolvedBy(T, A, f)
BY DEF ResolvedBy, ResolveCategorization

\* A row that the bank corrects, or whose category list changes, ages; one that is
\* removed is no row; what a failure or a crash cuts short ages with it.
LEMMA RulesEnvironment ==
  ASSUME OneActor, TypeInv, UserInv, RulesInv, Environment
  PROVE  RulesInv'
<1> USE DEF ledgerVars, settingVars, ghostVars, stageVars, TypeInv, TypeOK
<1>1. ASSUME NEW t \in Txns, DeleteTransaction(t) PROVE RulesInv'
  <2> USE <1>1 DEF DeleteTransaction
  <2>1. Stored' = Stored \ {t}
    BY DEF Stored
  <2>2. \A u \in Txns \ {t} : form'[u] = form[u] /\ bucket'[u] = bucket[u]
    OBVIOUS
  <2>3. \A u \in Stored' : ToReapply(u) => ToReapply(u)'
    BY <2>1, <2>2 DEF ToReapply, ListMatching
  <2>4. Applied'
    BY <2>1, <2>2, <2>3 DEF Applied, RulesInv, Stored
  <2>5. ASSUME NEW p \in Actors, Sweeping(p) PROVE SweepOK(p)'
    <3>1. SweepOK(p) /\ todo[p] \subseteq Txns /\ (\A r \in listed[p] : r.txn \in Txns)
      BY <2>5 DEF RulesInv, Rows
    <3>2. \A u \in todo[p] : form'[u] # Absent
      BY <2>2, <3>1, FacetsAssumption DEF SweepOK, Stored
    <3>3. \A r \in listed[p] : r.txn \in todo[p] /\ r.txn \in Stored' =>
            r.bucket = bucket'[r.txn] /\ (r.form # form'[r.txn] => r.txn \in aged')
      BY <2>1, <2>2, <3>1 DEF SweepOK
    <3>4. current[p] \in Stored' \ aged' =>
            decision[p] = ResolvedBy(rules, archived, form'[current[p]])
      BY <2>1, <2>2, <3>1 DEF SweepOK, Stored
    <3>5. \A u \in todo[p] \cap Stored' : bucket'[u] = bucket[u]
      BY <2>1, <2>2, <3>1
    <3> QED
      BY <2>1, <3>1, <3>2, <3>3, <3>4, <3>5 DEF SweepOK
  <2>6. ASSUME NEW p \in Actors, ReadOK(p) PROVE ReadOK(p)'
    BY <2>6 DEF ReadOK
  <2> QED
    BY <2>4, <2>5, <2>6 DEF RulesInv, Sweeping
<1>2. ASSUME NEW t \in Txns, NEW f \in Reports[t], UpsertTransaction(t, f) PROVE RulesInv'
  <2> USE <1>2 DEF UpsertTransaction
  <2>1. Stored' = Stored \cup {t}
    BY FacetsAssumption DEF Stored
  <2>2. \A u \in Txns \ {t} : form'[u] = form[u]
    OBVIOUS
  <2>3. t \in Stored \/ (form[t] = Absent /\ bucket[t] = NoBucket)
    BY DEF Stored
  <2>4. t \in Stored => t \in aged'
    OBVIOUS
  <2>5. \A u \in Stored' \ aged' : ToReapply(u) => ToReapply(u)'
    BY <2>1, <2>2, <2>3, <2>4 DEF ToReapply, ListMatching
  <2>6. Applied'
    BY <2>1, <2>2, <2>3, <2>4, <2>5 DEF Applied, RulesInv, Stored, NoBucket
  <2>7. ASSUME NEW p \in Actors, Sweeping(p) PROVE SweepOK(p)'
    BY <2>1, <2>2, <2>3, <2>4, <2>7, FacetsAssumption
    DEF SweepOK, RulesInv, UserInv, Sweeping, NoBucket, Stored
  <2>8. ASSUME NEW p \in Actors, ReadOK(p) PROVE ReadOK(p)'
    BY <2>8 DEF ReadOK
  <2> QED
    BY <2>6, <2>7, <2>8 DEF RulesInv, Sweeping
<1>3. ASSUME NEW k \in Categories, SetCategoryArchived(k) PROVE RulesInv'
  BY <1>3 DEF SetCategoryArchived, RulesInv, Applied, SweepOK, ReadOK, Sweeping, Stored
<1>4. ASSUME NEW p \in Actors, FailStage(p) PROVE RulesInv'
  <2> USE <1>4 DEF FailStage
  <2>1. pc'[p] \in {"idle", "readFacets"} /\ \A q \in Actors : q = p
    BY DEF Goto, After, OneActor
  <2>2. \A t \in Stored \ aged' : ~ToReapply(t)
    BY <2>1 DEF ToReapply
  <2>3. aged \subseteq aged' /\ Stored' = Stored
    BY DEF Stored
  <2>4. Applied'
    BY <2>2, <2>3 DEF Applied, RulesInv
  <2> QED
    BY <2>1, <2>4 DEF RulesInv, Sweeping
<1>5. CASE Crash
  <2> USE <1>5 DEF Crash
  <2>1. \A t \in Stored \ aged' : ~ToReapply(t)
    BY DEF ToReapply
  <2>2. aged \subseteq aged' /\ Stored' = Stored
    BY DEF Stored
  <2>3. Applied'
    BY <2>1, <2>2 DEF Applied, RulesInv
  <2> QED
    BY <2>3 DEF RulesInv, Sweeping
<1> QED
  BY <1>1, <1>2, <1>3, <1>4, <1>5 DEF Environment

\* A step of the goroutine that leaves rows, rules and categories alone, and every row
\* that still has to be reached to be reached, keeps the rules applied.
LEMMA RulesFrame ==
  ASSUME OneActor, TypeInv, RulesInv, NEW p \in Actors,
         UNCHANGED <<form, bucket, rules, archived>>, overridden \subseteq overridden',
         aged' = aged, \A t \in Stored \ (overridden \cup aged) : ToReapply(t) => ToReapply(t)',
         pc'[p] \notin {"categorize", "reapply", "editRule", "deleteRule"}
  PROVE  RulesInv'
<1>1. Stored' = Stored
  BY DEF Stored
<1>2. Applied'
  BY <1>1 DEF Applied, RulesInv
<1> QED
  BY <1>2 DEF RulesInv, Sweeping, OneActor

\* Stages keep the rules applied: a re-application reaches the rows of the substring
\* that was and of the one that is, and each row is written from a reading that holds.
LEMMA RulesActor ==
  ASSUME OneActor, TypeInv, UserInv, RulesInv, NEW p \in Actors, ActorStep(p)
  PROVE  RulesInv'
<1> USE DEF ledgerVars, settingVars, ghostVars, stageVars, TypeInv, TypeOK, Goto, ClearStage
<1>0. \A q \in Actors : q = p
  BY DEF OneActor
<1>1. CASE StartPass(p)
  <2> USE <1>1 DEF StartPass
  <2>1. Stored' = Stored /\ pc'[p] = "categorize" /\ current'[p] = NoTxn /\ NoTxn \notin Stored
    BY FacetsAssumption DEF Stored, UserInv
  <2>2. \A t : ~ToReapply(t)
    BY <1>0 DEF ToReapply
  <2>3. Applied'
    BY <2>1, <2>2 DEF Applied, RulesInv
  <2>4. todo'[p] = ListUncategorized /\ listed'[p] = {Row(t) : t \in ListUncategorized}
    OBVIOUS
  <2>5. SweepOK(p)'
    BY <2>1, <2>4 DEF SweepOK, ListUncategorized, Row, Stored
  <2> QED
    BY <1>0, <2>1, <2>3, <2>5 DEF RulesInv
<1>2. CASE ListForReapply(p)
  <2> USE <1>2 DEF ListForReapply
  <2>1. Stored' = Stored /\ pc'[p] = "reapply" /\ current'[p] = NoTxn /\ NoTxn \notin Stored
    BY FacetsAssumption DEF Stored, UserInv
  <2>2. /\ todo'[p] = ListMatching(scope[p])
        /\ listed'[p] = {Row(t) : t \in ListMatching(scope[p])}
    OBVIOUS
  <2>3. \A t : ToReapply(t) => ToReapply(t)'
    BY <1>0, <2>1, <2>2 DEF ToReapply
  <2>4. Applied'
    BY <2>1, <2>3 DEF Applied, RulesInv
  <2>5. SweepOK(p)'
    BY <2>1, <2>2 DEF SweepOK, ListMatching, Row, Stored
  <2> QED
    BY <1>0, <2>1, <2>4, <2>5 DEF RulesInv
<1>3. ASSUME NEW r \in listed[p], Resolve(p, r) PROVE RulesInv'
  <2> USE <1>3 DEF Resolve
  <2> DEFINE t == r.txn
             d == ResolvedBy(rules, archived, r.form)
  <2>1. /\ Stored' = Stored
        /\ UNCHANGED <<form, bucket, overridden, rules, archived, pc, listed>>
        /\ t \in todo[p] /\ t \in Txns /\ current[p] = NoTxn /\ Sweeping(p) /\ SweepOK(p)
        /\ todo[p] \subseteq Txns
    BY DEF Stored, RulesInv, Sweeping, Rows
  <2>2. aged' = IF form[t] = r.form THEN aged \ {t} ELSE aged
    OBVIOUS
  <2>3. t \in Stored => r.bucket = bucket[t] /\ (r.form # form[t] => t \in aged)
    BY <2>1 DEF SweepOK
  <2>4. \/ d = r.bucket /\ todo'[p] = todo[p] \ {t} /\ current'[p] = NoTxn
        \/ todo'[p] = todo[p] /\ current'[p] = t /\ decision'[p] = d
    BY <2>1 DEF Resolved, ResolvedBy
  <2>5. SweepOK(p)'
    <3>1. \A s \in listed[p] : s.txn \in todo'[p] /\ s.txn \in Stored =>
            s.bucket = bucket[s.txn] /\ (s.form # form[s.txn] => s.txn \in aged')
      BY <2>1, <2>2, <2>4 DEF SweepOK
    <3>2. current'[p] \in Stored \ aged' =>
            decision'[p] = ResolvedBy(rules, archived, form[current'[p]])
      BY <2>1, <2>2, <2>3, <2>4, FacetsAssumption DEF Stored
    <3> QED
      BY <2>1, <2>4, <3>1, <3>2 DEF SweepOK
  <2>6. \A u \in Txns \ {t} : ToReapply(u) => ToReapply(u)'
    BY <1>0, <2>1, <2>4 DEF ToReapply, ListMatching, Sweeping
  <2>7. t \in Stored \ (overridden \cup aged') =>
          \/ bucket[t].class = Uncategorized
          \/ bucket[t] = ResolvedBy(rules, archived, form[t])
          \/ ToReapply(t)'
    <3>1. t \in Stored \ aged' => form[t] = r.form
      BY <2>2, <2>3
    <3>2. CASE pc[p] = "categorize"
      BY <2>1, <3>2 DEF SweepOK
    <3>3. CASE pc[p] = "reapply"
      BY <2>1, <2>3, <2>4, <3>1, <3>3 DEF ToReapply
    <3> QED
      BY <2>1, <3>2, <3>3 DEF Sweeping
  <2>8. Applied'
    BY <2>1, <2>2, <2>6, <2>7 DEF Applied, RulesInv, Stored
  <2> QED
    BY <1>0, <2>1, <2>5, <2>8 DEF RulesInv, Sweeping
<1>4. ASSUME NEW r \in listed[p], SetTransferDestination(p, r) PROVE RulesInv'
  BY <1>0, <1>4, RulesFrame DEF SetTransferDestination, ToReapply
<1>5. CASE WriteBucket(p)
  <2> USE <1>5 DEF WriteBucket
  <2> DEFINE t == current[p]
  <2>1. /\ Stored' = Stored /\ UNCHANGED <<form, overridden, rules, archived, pc, listed, aged>>
        /\ t \in todo[p] /\ t \in Txns /\ Sweeping(p) /\ SweepOK(p)
        /\ todo[p] \subseteq Txns /\ NoTxn \notin Stored
    BY FacetsAssumption DEF Stored, RulesInv, Sweeping, UserInv
  <2>2. todo'[p] = todo[p] \ {t} /\ current'[p] = NoTxn
    OBVIOUS
  <2>3. /\ \A u \in Txns \ {t} : bucket'[u] = bucket[u]
        /\ t \in Stored => bucket'[t] = decision[p]
    BY <2>1
  <2>4. SweepOK(p)'
    BY <2>1, <2>2, <2>3 DEF SweepOK
  <2>5. \A u \in Txns \ {t} : ToReapply(u) => ToReapply(u)'
    BY <1>0, <2>1, <2>2 DEF ToReapply, Sweeping
  <2>6. t \in Stored \ aged => bucket'[t] = ResolvedBy(rules, archived, form[t])
    BY <2>1, <2>3 DEF SweepOK
  <2>7. Applied'
    BY <2>1, <2>3, <2>5, <2>6 DEF Applied, RulesInv, Stored
  <2> QED
    BY <1>0, <2>1, <2>4, <2>7 DEF RulesInv, Sweeping
<1>6. CASE ReadFacets(p)
  BY <1>0, <1>6, RulesFrame DEF ReadFacets, ToReapply
<1>7. CASE ListLegs(p)
  BY <1>0, <1>7, RulesFrame DEF ListLegs, ToReapply
<1>8. CASE EndStage(p)
  BY <1>0, <1>8, RulesFrame DEF EndStage, After, ToReapply
<1>9. ASSUME NEW pattern \in Patterns, NEW o \in RuleOutcomes, EditRule(p, pattern, o)
      PROVE  RulesInv'
  <2> USE <1>9 DEF EditRule, Reapply
  <2>1. PICK s \in Stamps :
          rules' = {r \in rules : r.id # target[p]} \cup {RuleOf(target[p], pattern, o, s)}
    OBVIOUS
  <2>2. PICK old \in rules : old.id = target[p] /\ scope[p] = {old.pattern}
    BY DEF RulesInv, ReadOK
  <2>3. /\ Stored' = Stored /\ pc'[p] = "list" /\ scope'[p] = {old.pattern, pattern}
        /\ UNCHANGED <<form, bucket, overridden, aged, archived>>
    BY <2>2 DEF Stored
  <2>4. \A r \in rules : r.id = target[p] => r = old
    BY <2>2 DEF DistinctRules
  <2>5. \A m : m \notin FoundIn[old.pattern] /\ m \notin FoundIn[pattern] =>
          Matching(rules', archived, m) = Matching(rules, archived, m)
    BY <2>1, <2>4 DEF Matching, RuleOf
  <2>6. ASSUME NEW t \in Stored \ (overridden \cup aged),
               bucket[t] = ResolvedBy(rules, archived, form[t])
        PROVE  bucket[t] = ResolvedBy(rules', archived, form[t]) \/ ToReapply(t)'
    <3>1. CASE \E x \in scope'[p] : form[t].merchant \in FoundIn[x]
      BY <2>3, <3>1 DEF ToReapply, ListMatching, Stored
    <3>2. CASE \A x \in scope'[p] : form[t].merchant \notin FoundIn[x]
      BY <2>3, <2>5, <2>6, <3>2, SameResolution
    <3> QED
      BY <3>1, <3>2
  <2>7. \A t : ~ToReapply(t)
    BY <1>0 DEF ToReapply
  <2>8. Applied'
    BY <2>3, <2>6, <2>7 DEF Applied, RulesInv
  <2> QED
    BY <1>0, <2>3, <2>8 DEF RulesInv, Sweeping
<1>10. CASE EditRuleGone(p)
  BY <1>0, <1>10, RulesFrame DEF EditRuleGone, ToReapply
<1>11. CASE DeleteRule(p)
  <2> USE <1>11 DEF DeleteRule, Reapply
  <2>1. PICK old \in rules : old.id = target[p] /\ scope[p] = {old.pattern}
    BY DEF RulesInv, ReadOK
  <2>2. /\ Stored' = Stored /\ pc'[p] = "list" /\ scope'[p] = {old.pattern}
        /\ UNCHANGED <<form, bucket, overridden, aged, archived>>
    BY <2>1 DEF Stored
  <2>3. \A r \in rules : r.id = target[p] => r = old
    BY <2>1 DEF DistinctRules
  <2>4. \A m : m \notin FoundIn[old.pattern] =>
          Matching(rules', archived, m) = Matching(rules, archived, m)
    BY <2>3 DEF Matching
  <2>5. ASSUME NEW t \in Stored \ (overridden \cup aged),
               bucket[t] = ResolvedBy(rules, archived, form[t])
        PROVE  bucket[t] = ResolvedBy(rules', archived, form[t]) \/ ToReapply(t)'
    <3>1. CASE form[t].merchant \in FoundIn[old.pattern]
      BY <2>2, <3>1 DEF ToReapply, ListMatching, Stored
    <3>2. CASE form[t].merchant \notin FoundIn[old.pattern]
      BY <2>4, <2>5, <3>2, SameResolution
    <3> QED
      BY <3>1, <3>2
  <2>6. \A t : ~ToReapply(t)
    BY <1>0 DEF ToReapply
  <2>7. Applied'
    BY <2>2, <2>5, <2>6 DEF Applied, RulesInv
  <2> QED
    BY <1>0, <2>2, <2>7 DEF RulesInv, Sweeping
<1>12. CASE ValidateMark(p)
  BY <1>0, <1>12, RulesFrame DEF ValidateMark, ToReapply
<1>13. CASE RefuseMark(p)
  BY <1>0, <1>13, RulesFrame DEF RefuseMark, ToReapply
<1>14. CASE MarkTransferDestination(p)
  BY <1>0, <1>14, RulesFrame DEF MarkTransferDestination, ToReapply
<1> QED
  BY <1>1, <1>2, <1>3, <1>4, <1>5, <1>6, <1>7, <1>8, <1>9, <1>10, <1>11, <1>12, <1>13,
     <1>14 DEF ActorStep

\* Requests do: a new rule decides only rows that contain its substring.
LEMMA RulesRequest ==
  ASSUME OneActor, TypeInv, UserInv, RulesInv, NEW p \in Actors, Request(p)
  PROVE  RulesInv'
<1> USE DEF ledgerVars, settingVars, ghostVars, stageVars, TypeInv, TypeOK, Goto
<1>0. (\A q \in Actors : q = p) /\ pc[p] = "idle"
  BY DEF OneActor, Request, CreateRule, ReadRule, ReCategorize, ChangeSavings
<1>1. \A t : ~ToReapply(t)
  BY <1>0 DEF ToReapply
<1>2. ASSUME NEW id \in RuleIds, NEW pattern \in Patterns, NEW o \in RuleOutcomes,
             CreateRule(p, id, pattern, o)
      PROVE  RulesInv'
  <2> USE <1>2 DEF CreateRule, Reapply
  <2>1. PICK s \in Stamps : rules' = rules \cup {RuleOf(id, pattern, o, s)}
    OBVIOUS
  <2>2. /\ Stored' = Stored /\ pc'[p] = "list" /\ scope'[p] = {pattern}
        /\ UNCHANGED <<form, bucket, overridden, aged, archived>>
    BY DEF Stored
  <2>3. \A m : m \notin FoundIn[pattern] =>
          Matching(rules', archived, m) = Matching(rules, archived, m)
    BY <2>1 DEF Matching, RuleOf
  <2>4. ASSUME NEW t \in Stored \ (overridden \cup aged),
               bucket[t] = ResolvedBy(rules, archived, form[t])
        PROVE  bucket[t] = ResolvedBy(rules', archived, form[t]) \/ ToReapply(t)'
    <3>1. CASE form[t].merchant \in FoundIn[pattern]
      BY <2>2, <3>1 DEF ToReapply, ListMatching, Stored
    <3>2. CASE form[t].merchant \notin FoundIn[pattern]
      <4>1. ResolvedBy(rules', archived, form[t]) = ResolvedBy(rules, archived, form[t])
        <5>1. Matching(rules', archived, form[t].merchant)
                = Matching(rules, archived, form[t].merchant)
          BY <2>3, <3>2
        <5> QED
          BY <5>1, SameResolution
      <4> QED
        BY <2>4, <4>1
    <3> QED
      BY <3>1, <3>2
  <2>5. Applied'
    BY <1>1, <2>2, <2>4 DEF Applied, RulesInv
  <2> QED
    BY <1>0, <2>2, <2>5 DEF RulesInv, Sweeping
<1>3. ASSUME NEW r \in rules, NEW next \in {"editRule", "deleteRule"}, ReadRule(p, r, next)
      PROVE  RulesInv'
  <2> USE <1>3 DEF ReadRule
  <2>1. Stored' = Stored /\ pc'[p] = next
    BY DEF Stored
  <2>2. ReadOK(p)'
    BY DEF ReadOK
  <2>3. Applied'
    BY <1>1, <2>1 DEF Applied, RulesInv
  <2> QED
    BY <1>0, <2>1, <2>2, <2>3 DEF RulesInv, Sweeping
<1>4. ASSUME NEW t \in Txns, NEW class \in Classifications,
             NEW category \in Categories \cup {NoCategory}, NEW dest \in Destinations,
             ReCategorize(p, t, class, category, dest)
      PROVE  RulesInv'
  <2> USE <1>4 DEF ReCategorize
  <2>1. PICK d \in CoupleChoice(class, category) : OverrideBucket(t, d)
    OBVIOUS
  <2>2. /\ overridden' = overridden \cup {t}
        /\ \A u \in Txns \ {t} : bucket'[u] = bucket[u]
    BY <2>1 DEF OverrideBucket
  <2>3. Stored' = Stored /\ pc'[p] \in {"idle", "validateMark"}
    BY <1>0 DEF Stored
  <2>4. Applied'
    BY <1>1, <2>2, <2>3 DEF Applied, RulesInv, Stored
  <2> QED
    BY <1>0, <2>3, <2>4 DEF RulesInv, Sweeping
<1>5. ASSUME NEW a \in Accounts, ChangeSavings(p, a) PROVE RulesInv'
  BY <1>0, <1>1, <1>5, RulesFrame DEF ChangeSavings
<1> QED
  BY <1>2, <1>3, <1>4, <1>5 DEF Request

\* So the rules stay applied in every behaviour with one goroutine.
LEMMA RulesInvariant == ASSUME OneActor PROVE Spec => []RulesInv
<1>1. Init => RulesInv
  BY FacetsAssumption DEF Init, RulesInv, Applied, Stored, Sweeping
<1>2. TypeInv /\ UserInv /\ RulesInv /\ [Next]_vars => RulesInv'
  <2> SUFFICES ASSUME TypeInv, UserInv, RulesInv, [Next]_vars PROVE RulesInv'
    OBVIOUS
  <2>1. CASE UNCHANGED vars
    BY <2>1 DEF vars, ledgerVars, settingVars, ghostVars, stageVars, RulesInv, Applied,
       Stored, ToReapply, ListMatching, SweepOK, ReadOK, Sweeping
  <2> QED
    BY <2>1, RulesEnvironment, RulesActor, RulesRequest DEF Next
<1> QED
  BY <1>1, <1>2, UserInvariant, PTL DEF Spec

\* With one goroutine, whenever it is idle every classified row that neither the user,
\* nor the bank since, nor an archived category, nor a re-application cut short has
\* taken out of the rules' hands is in the bucket that the stored rules give it.
THEOREM RulesAlwaysApplied == ASSUME OneActor PROVE Spec => []RulesApplied
<1>1. RulesInv => RulesApplied
  BY DEF RulesInv, Applied, RulesApplied, ToReapply, Resolved, ResolvedBy
<1> QED
  BY <1>1, RulesInvariant, PTL
==============================================================================
