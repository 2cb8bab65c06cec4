---------------------- MODULE OccurrenceMatchingProofs ----------------------
(***************************************************************************)
(* Proofs about OccurrenceMatching, for every set of items, transactions   *)
(* and dates.  Types, with the two unique indexes, hold however many       *)
(* goroutines run; what the user decided stands, and no deleted item keeps *)
(* a match, while one runs.                                                *)
(***************************************************************************)
EXTENDS OccurrenceMatching, FiniteReasoning

Stages ==
  {"idle", "orphans", "drop", "learn", "claims", "score", "insert", "update", "confirm",
   "delete"}

Decision == [item : Items, day : Days, txn : Txns, source : Sources]
StoredMatch == [item : Items, day : Days, txn : Txns \cup {NoTxn}, source : Sources]

\* A table of decisions: an occurrence has one, a transaction settles one occurrence.
MatchesOK(M) ==
  /\ M \subseteq StoredMatch
  /\ \A m, n \in M : m # n => Key(m) # Key(n) /\ (Settled(m) => m.txn # n.txn)
  /\ IsFiniteSet(M)

-----------------------------------------------------------------------------
(* The table of decisions. *)

\* Rows may go.
LEMMA RowsGo ==
  ASSUME NEW M, MatchesOK(M), NEW N, N \subseteq M
  PROVE  MatchesOK(N)
BY FS_Subset DEF MatchesOK

\* A row may replace the one of its occurrence, if no other occurrence holds its
\* transaction.
LEMMA RowReplaced ==
  ASSUME NEW M, MatchesOK(M), NEW m \in StoredMatch,
         Settled(m) => \A n \in M : n.txn = m.txn => Key(n) = Key(m)
  PROVE  MatchesOK({n \in M : Key(n) # Key(m)} \cup {m})
<1> DEFINE K == {n \in M : Key(n) # Key(m)}
<1>1. MatchesOK(K)
  BY RowsGo
<1>2. IsFiniteSet(K \cup {m})
  BY <1>1, FS_AddElement DEF MatchesOK
<1>3. \A n \in K : Key(n) # Key(m) /\ (Settled(n) => n.txn # m.txn)
                                   /\ (Settled(m) => m.txn # n.txn)
  BY DEF Settled
<1> QED
  BY <1>1, <1>2, <1>3 DEF MatchesOK

\* Both statements of UpsertAutoMatch leave the table alone, or replace the row of the
\* decision's occurrence.
LEMMA InsertedRows ==
  ASSUME MatchesOK(matches), NEW d, ~Decided(Key(d))
  PROVE  matches \cup {d} = Upserted(d)
BY DEF Decided, Upserted

LEMMA UpdatedRows ==
  ASSUME MatchesOK(matches), NEW d,
         NEW M, M = {IF Supersedes(d, m) THEN d ELSE m : m \in matches}
  PROVE  \/ M = matches
         \/ /\ M = Upserted(d)
            /\ \E m \in matches : Supersedes(d, m)
<1>1. CASE \E m \in matches : Supersedes(d, m)
  <2>1. PICK m \in matches : Supersedes(d, m)
    BY <1>1
  <2>2. \A n \in matches : Supersedes(d, n) <=> Key(n) = Key(d)
    BY <2>1 DEF MatchesOK, Supersedes
  <2>3. M \subseteq Upserted(d)
    BY <2>2 DEF Upserted
  <2>4. Upserted(d) \subseteq M
    BY <2>1, <2>2 DEF Upserted
  <2> QED
    BY <2>1, <2>3, <2>4
<1>2. CASE \A m \in matches : ~Supersedes(d, m)
  BY <1>2
<1> QED
  BY <1>1, <1>2

-----------------------------------------------------------------------------
(* Types, for any number of goroutines. *)

DeclaredForms == (UNION {Declarations[i] : i \in Items}) \cup {Undeclared, Deleted}
LedgerForms == (UNION {Forms[t] : t \in Txns}) \cup {Absent, Gone}

TypeInv ==
  /\ TypeOK
  /\ declared \in [Items -> DeclaredForms]
  /\ ledger \in [Txns -> LedgerForms]
  /\ MatchesOK(matches)
  /\ items \in [Actors -> SUBSET ReadItem]
  /\ decisions \in [Actors -> SUBSET Decision]

\* A declaration in force, and a row of the ledger, have the types assumed of them.
LEMMA DeclarationType ==
  ASSUME NEW i \in Items, NEW d \in Declarations[i]
  PROVE  /\ d.direction \in {"out", "in"}
         /\ d.amount \in Nat
         /\ d.since \in Nat
         /\ d.dates \in SUBSET Nat
         /\ d.dates # {}
         /\ d.dates \subseteq Days
         /\ d \notin {Undeclared, Deleted}
<1>1. /\ d \in [direction : {"out", "in"}, amount : Nat, dates : SUBSET Nat,
                since : Nat, active : BOOLEAN]
      /\ d.dates # {}
      /\ d \notin {Undeclared, Deleted}
  BY MatchingAssumption
<1> QED
  BY <1>1 DEF Days

LEMMA LedgerType ==
  ASSUME TypeInv, NEW t \in Stored
  PROVE  /\ ledger[t].day \in Nat
         /\ ledger[t].amount \in Int
         /\ ledger[t].merchant \in Merchants \cup {NoMerchant}
         /\ t \in Txns
<1>1. ledger[t] \in Forms[t] /\ t \in Txns
  BY DEF TypeInv, TypeOK, Stored
<1>2. ledger[t] \in [day : Nat, amount : Int \ {0}, merchant : Merchants \cup {NoMerchant}]
  BY <1>1, MatchingAssumption
<1> QED
  BY <1>1, <1>2

\* A computed amount is read from finitely many payments, so there is a greatest and a
\* least.
LEMMA EffectiveAmountType ==
  ASSUME TypeInv, NEW i \in Declared
  PROVE  EffectiveAmount(i) \in Nat
<1> DEFINE d == declared[i]
           E == Evidence(i)
           M == {n \in matches : n.item = i /\ n.txn \in Stored
                                            /\ ledger[n.txn].day \in TrailingDays}
           f == [m \in M |-> Magnitude(ledger[m.txn].amount)]
<1>1. d \in Declarations[i] /\ i \in Items
  BY DEF Declared, TypeInv, TypeOK
<1>2. d.amount \in Nat /\ d.direction \in {"out", "in"}
  BY <1>1, DeclarationType
<1>3. IsFiniteSet(M)
  BY FS_Subset DEF TypeInv, MatchesOK
<1>4. E = {f[m] : m \in M}
  BY DEF Evidence
<1>5. IsFiniteSet(E)
  <2> HIDE DEF f, M, E
  <2> QED
    BY <1>3, <1>4, FiniteImage
<1>6. E \subseteq Nat
  <2>1. ASSUME NEW m \in M PROVE Magnitude(ledger[m.txn].amount) \in Nat
    <3>1. ledger[m.txn].amount \in Int
      BY LedgerType
    <3> QED
      BY <3>1 DEF Magnitude
  <2> QED
    BY <2>1 DEF Evidence
<1>7. E # {} => Max(E) \in Nat /\ Min(E) \in Nat
  <2> SUFFICES ASSUME E # {} PROVE Max(E) \in Nat /\ Min(E) \in Nat
    OBVIOUS
  <2> HIDE DEF E
  <2>1. E \in SUBSET Int
    BY <1>6
  <2>2. \E x \in E : \A y \in E : y <= x
    BY <1>5, <2>1, FiniteMaximum
  <2>3. \E x \in E : \A y \in E : x <= y
    BY <1>5, <2>1, FiniteMinimum
  <2>4. \A x, y \in E : x >= y <=> y <= x
    BY <2>1
  <2>5. Max(E) \in E
    BY <2>2, <2>4 DEF Max
  <2>6. Min(E) \in E
    BY <2>3 DEF Min
  <2> QED
    BY <1>6, <2>5, <2>6
<1> HIDE DEF E, d
<1>8. EffectiveAmount(i) = CASE d.amount > 0 -> d.amount
       [] d.amount = 0 /\ E = {} -> 0
       [] d.amount = 0 /\ E # {} /\ d.direction = "out" -> Max(E)
       [] d.amount = 0 /\ E # {} /\ d.direction = "in" -> Min(E)
  BY DEF EffectiveAmount, E, d
<1>9. CASE d.amount > 0
  BY <1>2, <1>8, <1>9
<1>10. CASE d.amount = 0 /\ E = {}
  BY <1>8, <1>10
<1>11. CASE d.amount = 0 /\ E # {} /\ d.direction = "out"
  BY <1>7, <1>8, <1>11
<1>12. CASE d.amount = 0 /\ E # {} /\ d.direction = "in"
  BY <1>7, <1>8, <1>12
<1> QED
  BY <1>2, <1>9, <1>10, <1>11, <1>12

LEMMA ActiveItemsType ==
  ASSUME TypeInv
  PROVE  ActiveItems \subseteq ReadItem
<1> SUFFICES ASSUME NEW i \in Declared
             PROVE  [id |-> i, direction |-> declared[i].direction,
                     amount |-> EffectiveAmount(i), due |-> Due(declared[i]),
                     since |-> declared[i].since] \in ReadItem
  BY DEF ActiveItems
<1>1. declared[i] \in Declarations[i] /\ i \in Items
  BY DEF Declared, TypeInv, TypeOK
<1>2. /\ declared[i].direction \in {"out", "in"}
      /\ declared[i].since \in Nat
      /\ Due(declared[i]) \subseteq Days
  BY <1>1, DeclarationType DEF Due
<1> QED
  BY <1>1, <1>2, EffectiveAmountType DEF ReadItem

\* What a pass reads and computes is typed: the occurrences it will drop ...
LEMMA OrphanedType ==
  ASSUME TypeInv, NEW read
  PROVE  Orphaned(read) \subseteq Keys
BY DEF Orphaned, Key, Keys, TypeInv, MatchesOK, StoredMatch

\* ... the merchant it learned for each item ...
LEMMA LearnedType ==
  ASSUME TypeInv, NEW read
  PROVE  LearnedMerchants(read) \in [Items -> Merchants \cup {NoMerchant}]
<1>1. \A i : Taught(i) \subseteq Merchants
  <2> SUFFICES ASSUME NEW i, NEW m \in LatestManual(i), m.txn \in Stored
               PROVE  ledger[m.txn].merchant \in Merchants \cup {NoMerchant}
    BY DEF Taught
  <2> QED
    BY LedgerType
<1>2. \A i : Taught(i) # {} => (CHOOSE c \in Taught(i) : TRUE) \in Taught(i)
  OBVIOUS
<1> QED
  BY <1>1, <1>2 DEF LearnedMerchants

\* ... the occurrence that holds each transaction ...
LEMMA HoldersType ==
  ASSUME TypeInv
  PROVE  Holders \in [Txns -> Keys \cup {NoHolder}]
<1>1. \A m \in matches : Key(m) \in Keys
  BY DEF TypeInv, MatchesOK, StoredMatch, Key, Keys
<1>2. \A t : (\E m \in matches : m.txn = t) => (CHOOSE m \in matches : m.txn = t) \in matches
  OBVIOUS
<1> QED
  BY <1>1, <1>2 DEF Holders

\* ... and the matches it decides on, which it claims.
LEMMA WinnersType ==
  ASSUME TypeInv, NEW a \in ReadItem, NEW merchant, NEW claims
  PROVE  Winners(a, merchant, claims) \subseteq Decision
<1> SUFFICES ASSUME NEW day \in a.due, NEW t \in BestCandidate(a, day, merchant, claims)
             PROVE  Match(a.id, day, t, "auto") \in Decision
  BY DEF Winners
<1>1. t \in Txns
  BY DEF BestCandidate, Candidates
<1>2. a.id \in Items /\ day \in Days
  BY DEF ReadItem
<1> QED
  BY <1>1, <1>2 DEF Match, Decision, Sources

LEMMA ClaimType ==
  ASSUME NEW won \in SUBSET Decision, NEW claims \in [Txns -> Keys \cup {NoHolder}]
  PROVE  Claim(claims, won) \in [Txns -> Keys \cup {NoHolder}]
<1>1. \A m \in won : Key(m) \in Keys
  BY DEF Decision, Key, Keys
<1>2. \A t : (\E m \in won : m.txn = t) => (CHOOSE m \in won : m.txn = t) \in won
  OBVIOUS
<1> QED
  BY <1>1, <1>2 DEF Claim

\* An item created from a transaction has a date nearest to it, the earlier of two.
LEMMA BootstrapType ==
  ASSUME TypeInv, NEW i \in Items, NEW d \in Declarations[i], NEW t \in Stored
  PROVE  Bootstrap(d, t) \in d.dates
<1> DEFINE Gap(day) == Distance(day, ledger[t].day)
           G == {Gap(day) : day \in d.dates}
<1>1. /\ d.dates \in SUBSET Nat
      /\ d.dates # {}
      /\ ledger[t].day \in Nat
  BY DeclarationType, LedgerType
<1>2. \A day \in d.dates : Gap(day) \in Nat
  BY <1>1 DEF Distance
<1> HIDE DEF Gap
<1>3. PICK g \in G : \A h \in G : g <= h
  <2>1. G \in SUBSET Nat /\ G # {}
    BY <1>1, <1>2
  <2> HIDE DEF G
  <2> QED
    BY <2>1, LeastNatural
<1> DEFINE N == {day \in d.dates : Gap(day) = g}
<1>4. PICK b \in N : \A c \in N : b <= c
  <2>1. N \in SUBSET Nat /\ N # {}
    BY <1>1
  <2> HIDE DEF N
  <2> QED
    BY <2>1, LeastNatural
<1>5. ASSUME NEW other \in d.dates \ {b}
      PROVE  Gap(b) < Gap(other) \/ (Gap(b) = Gap(other) /\ b < other)
  <2>1. b \in Nat /\ other \in Nat /\ b # other /\ Gap(b) = g /\ b \in d.dates
    BY <1>1
  <2>2. Gap(b) \in Nat /\ Gap(other) \in Nat /\ Gap(b) <= Gap(other)
    BY <1>2, <1>3, <2>1
  <2>3. CASE Gap(other) = g
    BY <1>4, <2>1, <2>3
  <2>4. CASE Gap(other) # g
    BY <2>1, <2>2, <2>4
  <2> QED
    BY <2>3, <2>4
<1>6. \E day \in d.dates : \A other \in d.dates \ {day} :
        Gap(day) < Gap(other) \/ (Gap(day) = Gap(other) /\ day < other)
  BY <1>5
<1> QED
  BY <1>6 DEF Bootstrap, Gap

\* The type invariant holds before anything is stored.
LEMMA InitType == Init => TypeInv
<1> SUFFICES ASSUME Init PROVE TypeInv
  OBVIOUS
<1>1. declared \in [Items -> DeclaredForms]
      /\ \A i \in Items : declared[i] \in Declarations[i] \cup {Undeclared, Deleted}
  BY DEF Init, DeclaredForms
<1>2. MatchesOK(matches)
  BY FS_EmptySet DEF Init, MatchesOK
<1>3. TypeOK
  BY <1>1, <1>2, MatchingAssumption
  DEF Init, TypeOK, MatchesOK, Choice, NothingLearned, NothingClaimed
<1> QED
  BY <1>1, <1>2, <1>3 DEF TypeInv, Init, LedgerForms

\* The bound on events holds.
LEMMA EventType == TypeInv /\ Event => events' \in 0..MaxEvents
BY MatchingAssumption DEF TypeInv, TypeOK, Event

\* A goroutine that returns leaves its locals empty.
LEMMA FinishType ==
  ASSUME TypeInv, NEW p \in Actors, Finish(p)
  PROVE  /\ pc' \in [Actors -> Stages]
         /\ items' \in [Actors -> SUBSET ReadItem]
         /\ orphans' \in [Actors -> SUBSET Keys]
         /\ learned' \in [Actors -> [Items -> Merchants \cup {NoMerchant}]]
         /\ claimedBy' \in [Actors -> [Txns -> Keys \cup {NoHolder}]]
         /\ decisions' \in [Actors -> SUBSET Decision]
         /\ doomed' \in [Actors -> Items \cup {NoHolder}]
BY DEF Finish, Goto, Stages, TypeInv, TypeOK, NothingLearned, NothingClaimed

\* A pass keeps the types ...
LEMMA PassType == ASSUME NEW p \in Actors PROVE TypeInv /\ PassStep(p) => TypeInv'
<1> SUFFICES ASSUME TypeInv, PassStep(p) PROVE TypeInv'
  OBVIOUS
<1> USE DEF storeVars, localVars, Goto, Decision
<1>1. CASE ListItems(p)
  <2>1. ActiveItems \in SUBSET ReadItem
    BY ActiveItemsType
  <2> QED
    BY <1>1, <2>1 DEF ListItems, TypeInv, TypeOK
<1>2. CASE ListOrphans(p)
  <2>1. Orphaned(items[p]) \in SUBSET Keys
    BY OrphanedType
  <2> QED
    BY <1>2, <2>1 DEF ListOrphans, TypeInv, TypeOK
<1>3. CASE DropOrphan(p)
  <2>1. MatchesOK(matches')
    BY <1>3, RowsGo DEF DropOrphan, TypeInv
  <2>2. orphans' \in [Actors -> SUBSET Keys] /\ pc' \in [Actors -> Stages]
    BY <1>3 DEF DropOrphan, TypeInv, TypeOK, Stages
  <2> QED
    BY <1>3, <2>1, <2>2 DEF DropOrphan, TypeInv, TypeOK, Stages, MatchesOK, StoredMatch
<1>4. CASE Learn(p)
  <2>1. LearnedMerchants(items[p]) \in [Items -> Merchants \cup {NoMerchant}]
    BY LearnedType
  <2> QED
    BY <1>4, <2>1 DEF Learn, TypeInv, TypeOK
<1>5. CASE ReadClaims(p)
  <2>1. Holders \in [Txns -> Keys \cup {NoHolder}]
    BY HoldersType
  <2> QED
    BY <1>5, <2>1 DEF ReadClaims, TypeInv, TypeOK
<1>6. CASE ScoreItem(p)
  <2>1. PICK a \in items[p] :
          LET won == Winners(a, learned[p][a.id], claimedBy[p])
          IN  /\ claimedBy' = [claimedBy EXCEPT ![p] = Claim(@, won)]
              /\ decisions' = [decisions EXCEPT ![p] = @ \cup won]
              /\ items' = [items EXCEPT ![p] = @ \ {a}]
    BY <1>6 DEF ScoreItem
  <2> DEFINE won == Winners(a, learned[p][a.id], claimedBy[p])
  <2>2. won \in SUBSET Decision
    BY WinnersType DEF TypeInv
  <2>3. Claim(claimedBy[p], won) \in [Txns -> Keys \cup {NoHolder}]
    BY <2>2, ClaimType DEF TypeInv, TypeOK
  <2> HIDE DEF won
  <2>4. /\ claimedBy' = [claimedBy EXCEPT ![p] = Claim(@, won)]
        /\ decisions' = [decisions EXCEPT ![p] = @ \cup won]
        /\ items' = [items EXCEPT ![p] = @ \ {a}]
    BY <2>1 DEF won
  <2>5. /\ claimedBy' \in [Actors -> [Txns -> Keys \cup {NoHolder}]]
        /\ decisions' \in [Actors -> SUBSET Decision]
        /\ items' \in [Actors -> SUBSET ReadItem]
    BY <2>2, <2>3, <2>4 DEF TypeInv, TypeOK
  <2> QED
    BY <1>6, <2>5 DEF ScoreItem, TypeInv, TypeOK
<1>7. CASE StartRecording(p)
  BY <1>7 DEF StartRecording, TypeInv, TypeOK
<1>8. CASE InsertAuto(p)
  <2>1. PICK d \in decisions[p] :
          /\ Decided(Key(d)) \/ ~HeldElsewhere(d.txn, Key(d))
          /\ matches' = IF Decided(Key(d)) THEN matches ELSE matches \cup {d}
    BY <1>8 DEF InsertAuto
  <2>2. d \in StoredMatch
    BY DEF TypeInv, StoredMatch
  <2>3. MatchesOK(matches')
    <3>1. CASE Decided(Key(d))
      BY <2>1, <3>1 DEF TypeInv
    <3>2. CASE ~Decided(Key(d))
      BY <2>1, <2>2, <3>2, InsertedRows, RowReplaced DEF TypeInv, Upserted, HeldElsewhere
    <3> QED
      BY <3>1, <3>2
  <2> QED
    BY <1>8, <2>3 DEF InsertAuto, TypeInv, TypeOK, MatchesOK, StoredMatch
<1>9. CASE UpdateAuto(p)
  <2>1. PICK d \in decisions[p] :
          /\ (\E m \in matches : Supersedes(d, m)) => ~HeldElsewhere(d.txn, Key(d))
          /\ matches' = {IF Supersedes(d, m) THEN d ELSE m : m \in matches}
          /\ decisions' = [decisions EXCEPT ![p] = @ \ {d}]
    BY <1>9 DEF UpdateAuto
  <2>2. d \in StoredMatch
    BY DEF TypeInv, StoredMatch
  <2>3. MatchesOK(matches')
    <3>1. CASE matches' = matches
      BY <3>1 DEF TypeInv
    <3>2. CASE matches' = Upserted(d) /\ \E m \in matches : Supersedes(d, m)
      BY <2>1, <2>2, <3>2, RowReplaced DEF TypeInv, Upserted, HeldElsewhere
    <3> QED
      BY <2>1, <3>1, <3>2, UpdatedRows DEF TypeInv
  <2>4. decisions' \in [Actors -> SUBSET Decision]
    BY <2>1 DEF TypeInv
  <2> QED
    BY <1>9, <2>3, <2>4 DEF UpdateAuto, TypeInv, TypeOK, MatchesOK, StoredMatch
<1>10. CASE RecordFails(p) \/ EndPass(p)
  BY <1>10, FinishType DEF RecordFails, EndPass, TypeInv, TypeOK, Stages
<1> QED
  BY <1>1, <1>2, <1>3, <1>4, <1>5, <1>6, <1>7, <1>8, <1>9, <1>10 DEF PassStep

\* A decision of the user's keeps the table in order and is recorded as his.
LEMMA UpsertManualType ==
  ASSUME TypeInv, NEW m \in StoredMatch, UpsertManual(m)
  PROVE  /\ MatchesOK(matches')
         /\ decided' \in [Keys -> Choice]
<1>1. Key(m) \in Keys /\ Chosen(m) \in Choice
  BY DEF StoredMatch, Key, Keys, Chosen, Choice, Settled
<1> QED
  BY <1>1, RowReplaced DEF UpsertManual, Upserted, HeldElsewhere, TypeInv, TypeOK

\* ... so do the user's requests.
LEMMA UserType == ASSUME NEW p \in Actors PROVE TypeInv /\ UserStep(p) => TypeInv'
<1> SUFFICES ASSUME TypeInv, UserStep(p) PROVE TypeInv'
  OBVIOUS
<1> USE EventType DEF storeVars, localVars, Goto, Decision, Stages
<1>1. CASE MatchOccurrence(p) \/ ClearOccurrence(p)
  <2>0. PICK i \in Declared, t \in Txns \cup {NoTxn} :
          \E day \in Due(declared[i]) : UpsertManual(Match(i, day, t, "manual"))
    BY <1>1 DEF MatchOccurrence, ClearOccurrence, Stored
  <2>1. PICK day \in Due(declared[i]) : UpsertManual(Match(i, day, t, "manual"))
    BY <2>0
  <2>2. declared[i] \in Declarations[i] /\ i \in Items
    BY DEF Declared, TypeInv, TypeOK
  <2>3. day \in Days
    BY <2>2, DeclarationType DEF Due
  <2>4. Match(i, day, t, "manual") \in StoredMatch
    BY <2>2, <2>3 DEF Match, StoredMatch, Sources
  <2>5. MatchesOK(matches') /\ decided' \in [Keys -> Choice]
    BY <2>1, <2>4, UpsertManualType
  <2>6. UNCHANGED <<declared, ledger, pc, localVars>> /\ events' \in 0..MaxEvents
    BY <1>1 DEF MatchOccurrence, ClearOccurrence, TypeInv, TypeOK
  <2> QED
    BY <2>5, <2>6 DEF TypeInv, TypeOK, MatchesOK, StoredMatch
<1>2. CASE ConfirmOccurrence(p)
  <2>1. PICK m \in matches :
          /\ Settled(m)
          /\ decisions' = [decisions EXCEPT ![p] = {[m EXCEPT !.source = "manual"]}]
    BY <1>2 DEF ConfirmOccurrence
  <2>2. [m EXCEPT !.source = "manual"] \in Decision
    BY <2>1 DEF TypeInv, MatchesOK, StoredMatch, Settled, Sources
  <2>3. decisions' \in [Actors -> SUBSET Decision]
    BY <2>1, <2>2 DEF TypeInv
  <2> QED
    BY <1>2, <2>3 DEF ConfirmOccurrence, TypeInv, TypeOK
<1>3. CASE WriteConfirmed(p)
  <2>1. PICK m \in decisions[p] : UpsertManual(m)
    BY <1>3 DEF WriteConfirmed
  <2>2. m \in StoredMatch
    BY DEF TypeInv, StoredMatch
  <2>3. MatchesOK(matches') /\ decided' \in [Keys -> Choice]
    BY <2>1, <2>2, UpsertManualType
  <2> QED
    BY <1>3, <2>3, FinishType
    DEF WriteConfirmed, TypeInv, TypeOK, MatchesOK, StoredMatch, Stages
<1>4. CASE ConfirmFails(p)
  BY <1>4, FinishType DEF ConfirmFails, TypeInv, TypeOK, Stages
<1>5. CASE Create(p)
  BY <1>5 DEF Create, TypeInv, TypeOK, DeclaredForms
<1>6. CASE CreateItemFromTransaction(p)
  <2>0. PICK i \in Items, t \in Stored :
          \E d \in Declarations[i] :
            /\ declared' = [declared EXCEPT ![i] = d]
            /\ UpsertManual(Match(i, Bootstrap(d, t), t, "manual"))
    BY <1>6 DEF CreateItemFromTransaction
  <2>1. PICK d \in Declarations[i] :
          /\ declared' = [declared EXCEPT ![i] = d]
          /\ UpsertManual(Match(i, Bootstrap(d, t), t, "manual"))
    BY <2>0
  <2>2. Bootstrap(d, t) \in Days /\ t \in Txns
    BY BootstrapType, DeclarationType DEF Stored
  <2>3. Match(i, Bootstrap(d, t), t, "manual") \in StoredMatch
    BY <2>2 DEF Match, StoredMatch, Sources
  <2>4. MatchesOK(matches') /\ decided' \in [Keys -> Choice]
    BY <2>1, <2>3, UpsertManualType
  <2>5. /\ declared' \in [Items -> DeclaredForms]
        /\ \A j \in Items : declared'[j] \in Declarations[j] \cup {Undeclared, Deleted}
    BY <2>1 DEF TypeInv, TypeOK, DeclaredForms
  <2> QED
    BY <1>6, <2>4, <2>5
    DEF CreateItemFromTransaction, TypeInv, TypeOK, MatchesOK, StoredMatch
<1>7. CASE Update(p)
  BY <1>7 DEF Update, Declared, TypeInv, TypeOK, DeclaredForms
<1>8. CASE DeleteMatchesForItem(p)
  <2>1. PICK i \in Declared :
          /\ matches' = {m \in matches : m.item # i}
          /\ decided' = [k \in Keys |-> IF k[1] = i THEN "none" ELSE decided[k]]
          /\ doomed' = [doomed EXCEPT ![p] = i]
    BY <1>8 DEF DeleteMatchesForItem
  <2>2. MatchesOK(matches')
    BY <2>1, RowsGo DEF TypeInv
  <2>3. decided' \in [Keys -> Choice] /\ doomed' \in [Actors -> Items \cup {NoHolder}]
    BY <2>1 DEF TypeInv, TypeOK, Choice, Declared
  <2> QED
    BY <1>8, <2>2, <2>3 DEF DeleteMatchesForItem, TypeInv, TypeOK, MatchesOK, StoredMatch
<1>9. CASE DeleteItem(p)
  <2>1. /\ declared' \in [Items -> DeclaredForms]
        /\ \A j \in Items : declared'[j] \in Declarations[j] \cup {Undeclared, Deleted}
    BY <1>9 DEF DeleteItem, TypeInv, TypeOK, DeclaredForms
  <2> QED
    BY <1>9, <2>1, FinishType DEF DeleteItem, TypeInv, TypeOK, Stages
<1> QED
  BY <1>1, <1>2, <1>3, <1>4, <1>5, <1>6, <1>7, <1>8, <1>9 DEF UserStep

\* The type invariant is inductive.
LEMMA TypeStep == TypeInv /\ [Next]_vars => TypeInv'
<1> SUFFICES ASSUME TypeInv, [Next]_vars PROVE TypeInv'
  OBVIOUS
<1>1. CASE UNCHANGED vars
  BY <1>1 DEF vars, storeVars, localVars, TypeInv, TypeOK, MatchesOK
<1>2. CASE LedgerChanges
  BY <1>2, EventType DEF LedgerChanges, localVars, TypeInv, TypeOK, LedgerForms
<1>3. ASSUME NEW p \in Actors, Fail(p) PROVE TypeInv'
  <2>1. UNCHANGED <<declared, ledger, matches, decided>> /\ Finish(p)
    BY <1>3 DEF Fail, storeVars
  <2>2. events' \in 0..MaxEvents
    BY <1>3, EventType DEF Fail
  <2> QED
    BY <2>1, <2>2, FinishType DEF TypeInv, TypeOK, Stages, Decision
<1> QED
  BY <1>1, <1>2, <1>3, PassType, UserType DEF Next

\* Every variable has its type; an occurrence has one decision and a transaction settles
\* one occurrence, however many passes and requests write at once.
THEOREM TypeCorrect == Spec => []TypeOK
<1>1. TypeInv => TypeOK
  BY DEF TypeInv
<1> QED
  BY <1>1, InitType, TypeStep, PTL DEF Spec

-----------------------------------------------------------------------------
(* What the user decided. *)

\* A transaction that something is matched to has been in the ledger, and what a
\* confirmation writes is the user's.
SeenInv ==
  /\ \A m \in matches : Settled(m) => ledger[m.txn] # Absent
  /\ \A p \in Actors : \A d \in decisions[p] : ledger[d.txn] # Absent
  /\ \A p \in Actors : pc[p] = "confirm" => \A d \in decisions[p] : d.source = "manual"

\* An actor that finishes holds nothing, and the others hold what they held.
LEMMA Finished ==
  ASSUME TypeInv, NEW p \in Actors, Finish(p)
  PROVE  /\ pc'[p] = "idle" /\ items'[p] = {} /\ orphans'[p] = {} /\ decisions'[p] = {}
         /\ doomed'[p] = NoHolder
         /\ \A q \in Actors \ {p} :
              /\ pc'[q] = pc[q] /\ items'[q] = items[q] /\ orphans'[q] = orphans[q]
              /\ decisions'[q] = decisions[q] /\ doomed'[q] = doomed[q]
BY DEF Finish, Goto, TypeInv, TypeOK

\* What is matched was stored when it was chosen, and the bank never reports again what
\* it removed: this holds however many goroutines run.
LEMMA SeenStep == TypeInv /\ SeenInv /\ [Next]_vars => SeenInv'
<1> SUFFICES ASSUME TypeInv, SeenInv, [Next]_vars PROVE SeenInv'
  OBVIOUS
<1> USE DEF storeVars, localVars, Goto
<1>1. CASE UNCHANGED vars
  BY <1>1 DEF vars, SeenInv, Settled
<1>2. CASE LedgerChanges
  <2>1. \A t \in Txns : ledger[t] # Absent => ledger'[t] # Absent
    BY <1>2, MatchingAssumption DEF LedgerChanges, TypeInv
  <2>2. UNCHANGED <<matches, decisions, pc>>
    BY <1>2 DEF LedgerChanges
  <2>3. /\ \A m \in matches : Settled(m) => m.txn \in Txns
        /\ \A p \in Actors : \A d \in decisions[p] : d.txn \in Txns
    BY DEF TypeInv, MatchesOK, StoredMatch, Settled, Decision
  <2> QED
    BY <2>1, <2>2, <2>3 DEF SeenInv, Settled
<1> DEFINE Ends(p) == Finish(p) /\ UNCHANGED <<ledger, matches>>
<1>6. ASSUME NEW p \in Actors, Ends(p) PROVE SeenInv'
  BY <1>6, Finished DEF SeenInv, Settled
<1> HIDE DEF Ends
<1>3. ASSUME NEW p \in Actors, Fail(p) PROVE SeenInv'
  BY <1>3, <1>6 DEF Fail, Ends
<1>4. ASSUME NEW p \in Actors, PassStep(p) PROVE SeenInv'
  <2>1. CASE ListItems(p) \/ ListOrphans(p) \/ Learn(p) \/ ReadClaims(p) \/ StartRecording(p)
    <3>1. UNCHANGED <<ledger, matches, decisions>> /\ pc'[p] # "confirm"
          /\ \A q \in Actors \ {p} : pc'[q] = pc[q]
      BY <2>1 DEF ListItems, ListOrphans, Learn, ReadClaims, StartRecording, TypeInv, TypeOK
    <3> QED
      BY <3>1 DEF SeenInv, Settled
  <2>2. CASE DropOrphan(p)
    <3>1. UNCHANGED <<ledger, decisions>> /\ pc'[p] # "confirm" /\ matches' \subseteq matches
          /\ \A q \in Actors \ {p} : pc'[q] = pc[q]
      BY <2>2 DEF DropOrphan, TypeInv, TypeOK
    <3> QED
      BY <3>1 DEF SeenInv, Settled
  <2>3. CASE ScoreItem(p)
    <3>1. PICK a \in items[p] :
            decisions' = [decisions EXCEPT ![p] =
                            @ \cup Winners(a, learned[p][a.id], claimedBy[p])]
      BY <2>3 DEF ScoreItem
    <3>2. \A d \in Winners(a, learned[p][a.id], claimedBy[p]) : d.txn \in Stored
      BY DEF Winners, BestCandidate, Candidates, Admissible, Match
    <3>3. UNCHANGED <<ledger, matches, pc>> /\ pc[p] = "score"
      BY <2>3 DEF ScoreItem
    <3>4. \A q \in Actors : \A d \in decisions'[q] :
            d \in decisions[q] \/ (q = p /\ ledger[d.txn] # Absent)
      BY <3>1, <3>2 DEF Stored, TypeInv
    <3> QED
      BY <3>3, <3>4 DEF SeenInv, Settled
  <2>4. CASE InsertAuto(p)
    <3>1. PICK d \in decisions[p] : matches' \subseteq matches \cup {d}
      BY <2>4 DEF InsertAuto
    <3>2. UNCHANGED <<ledger, decisions>> /\ pc'[p] # "confirm"
          /\ \A q \in Actors \ {p} : pc'[q] = pc[q]
      BY <2>4 DEF InsertAuto, TypeInv, TypeOK
    <3> QED
      BY <3>1, <3>2 DEF SeenInv, Settled
  <2>5. CASE UpdateAuto(p)
    <3>1. PICK d \in decisions[p] :
            /\ matches' = {IF Supersedes(d, m) THEN d ELSE m : m \in matches}
            /\ decisions' = [decisions EXCEPT ![p] = @ \ {d}]
      BY <2>5 DEF UpdateAuto
    <3>2. matches' \subseteq matches \cup {d}
      BY <3>1
    <3>3. \A q \in Actors : decisions'[q] \subseteq decisions[q]
      BY <3>1 DEF TypeInv
    <3>4. UNCHANGED ledger /\ pc'[p] # "confirm" /\ \A q \in Actors \ {p} : pc'[q] = pc[q]
      BY <2>5 DEF UpdateAuto, TypeInv, TypeOK
    <3> QED
      BY <3>2, <3>3, <3>4 DEF SeenInv, Settled
  <2>6. CASE RecordFails(p) \/ EndPass(p)
    BY <2>6, <1>6 DEF RecordFails, EndPass, Ends
  <2> QED
    BY <1>4, <2>1, <2>2, <2>3, <2>4, <2>5, <2>6 DEF PassStep
<1>5. ASSUME NEW p \in Actors, UserStep(p) PROVE SeenInv'
  <2>1. CASE MatchOccurrence(p) \/ ClearOccurrence(p) \/ CreateItemFromTransaction(p)
    <3>1. UNCHANGED <<ledger, decisions, pc>>
      BY <2>1 DEF MatchOccurrence, ClearOccurrence, CreateItemFromTransaction
    <3>2. \E m : /\ Settled(m) => m.txn \in Stored
                 /\ UpsertManual(m)
      BY <2>1 DEF MatchOccurrence, ClearOccurrence, CreateItemFromTransaction, Match, Settled
    <3>3. \A m \in matches' : m \in matches \/ (Settled(m) => m.txn \in Stored)
      BY <3>2 DEF UpsertManual, Upserted
    <3> QED
      BY <3>1, <3>3 DEF SeenInv, Settled, Stored
  <2>2. CASE ConfirmOccurrence(p)
    <3>1. PICK m \in matches :
            /\ Settled(m)
            /\ decisions' = [decisions EXCEPT ![p] = {[m EXCEPT !.source = "manual"]}]
      BY <2>2 DEF ConfirmOccurrence
    <3>2. \A d \in {[m EXCEPT !.source = "manual"]} : d.txn = m.txn /\ d.source = "manual"
      BY DEF TypeInv, MatchesOK, StoredMatch
    <3>3. decisions'[p] = {[m EXCEPT !.source = "manual"]}
          /\ \A q \in Actors \ {p} : decisions'[q] = decisions[q]
      BY <3>1 DEF TypeInv
    <3>4. UNCHANGED <<ledger, matches>> /\ \A q \in Actors \ {p} : pc'[q] = pc[q]
      BY <2>2 DEF ConfirmOccurrence, TypeInv, TypeOK
    <3>5. ledger[m.txn] # Absent
      BY <3>1 DEF SeenInv
    <3>6. ASSUME NEW q \in Actors, NEW d \in decisions'[q]
          PROVE  ledger'[d.txn] # Absent /\ (pc'[q] = "confirm" => d.source = "manual")
      BY <3>2, <3>3, <3>4, <3>5 DEF SeenInv
    <3> QED
      BY <3>4, <3>6 DEF SeenInv, Settled
  <2>3. CASE WriteConfirmed(p)
    <3>1. PICK m \in decisions[p] : UpsertManual(m)
      BY <2>3 DEF WriteConfirmed
    <3>2. matches' \subseteq matches \cup {m}
      BY <3>1 DEF UpsertManual, Upserted
    <3>3. UNCHANGED ledger /\ Finish(p)
      BY <2>3 DEF WriteConfirmed
    <3> QED
      BY <3>2, <3>3, Finished DEF SeenInv, Settled
  <2>4. CASE ConfirmFails(p) \/ DeleteItem(p)
    BY <2>4, <1>6 DEF ConfirmFails, DeleteItem, Ends
  <2>5. CASE Create(p) \/ Update(p)
    BY <2>5 DEF Create, Update, SeenInv, Settled
  <2>6. CASE DeleteMatchesForItem(p)
    BY <2>6 DEF DeleteMatchesForItem, SeenInv, TypeInv, TypeOK, Settled
  <2> QED
    BY <1>5, <2>1, <2>2, <2>3, <2>4, <2>5, <2>6 DEF UserStep
<1> QED
  BY <1>1, <1>2, <1>3, <1>4, <1>5 DEF Next

LEMMA SeenInit == Init => SeenInv
BY DEF Init, SeenInv

-----------------------------------------------------------------------------
(* With one goroutine at work, what the user decided stands. *)

OneActor == \A p, q \in Actors : p = q

\* What a pass is about to drop is settled by transactions that are gone.
OrphansGone ==
  \A p \in Actors : pc[p] = "drop" =>
    \A m \in matches : Key(m) \in orphans[p] => Settled(m) /\ ledger[m.txn] = Gone

StandInv == ManualStands /\ SeenInv /\ OrphansGone

\* A step that writes no decision of the user's, and keeps the rows he decided.
LEMMA UserRowsStay ==
  ASSUME TypeInv, ManualStands, UNCHANGED decided,
         \A t \in Txns : ledger[t] = Gone => ledger'[t] = Gone,
         \A m \in matches : m.source = "manual" => m \in matches'
  PROVE  ManualStands'
BY DEF ManualStands, Key, Chosen, Settled

\* UpsertManualMatch writes what the user decides and touches no other occurrence.
LEMMA UserDecides ==
  ASSUME TypeInv, ManualStands, UNCHANGED ledger,
         NEW m \in StoredMatch, m.source = "manual", UpsertManual(m)
  PROVE  ManualStands'
<1>1. /\ matches' = {n \in matches : Key(n) # Key(m)} \cup {m}
      /\ decided' = [decided EXCEPT ![Key(m)] = Chosen(m)]
  BY DEF UpsertManual, Upserted
<1>2. Key(m) \in Keys
  BY DEF Key, Keys, StoredMatch
<1>3. decided'[Key(m)] = Chosen(m) /\ \A k \in Keys \ {Key(m)} : decided'[k] = decided[k]
  BY <1>1, <1>2 DEF TypeInv, TypeOK
<1> SUFFICES ASSUME NEW k \in Keys
             PROVE  (decided[k] = "none" \/ decided[k] \in {t \in Txns : ledger[t] = Gone} \/
                       \E n \in matches : Key(n) = k /\ n.source = "manual"
                                          /\ Chosen(n) = decided[k])'
  BY DEF ManualStands
<1>4. CASE k = Key(m)
  <2>1. (Key(m) = k /\ m.source = "manual" /\ Chosen(m) = decided'[k]) /\ m \in matches'
    BY <1>1, <1>3, <1>4
  <2> QED
    BY <2>1 DEF Key, Chosen, Settled
<1>5. CASE k # Key(m)
  <2>1. \A n \in matches : Key(n) = k => n \in matches'
    BY <1>1, <1>5
  <2>2. decided'[k] = decided[k]
    BY <1>3, <1>5
  <2> QED
    BY <2>1, <2>2 DEF ManualStands, Key, Chosen, Settled
<1> QED
  BY <1>4, <1>5

\* What dropOrphanedMatches reads is gone from the ledger: matched, it had been there.
LEMMA OrphansAreGone ==
  ASSUME TypeInv, SeenInv, NEW read,
         NEW m \in matches, Key(m) \in Orphaned(read)
  PROVE  Settled(m) /\ ledger[m.txn] = Gone
<1>1. PICK n \in matches : Key(n) = Key(m) /\ Settled(n) /\ n.txn \notin Stored
  BY DEF Orphaned
<1>2. n = m
  BY <1>1 DEF TypeInv, MatchesOK
<1>3. m.txn \in Txns
  BY <1>1, <1>2 DEF TypeInv, MatchesOK, StoredMatch, Settled
<1> QED
  BY <1>1, <1>2, <1>3 DEF SeenInv, Stored

\* No step of the one goroutine, and none of the bank, takes a decision of the user's
\* away but for a transaction that is gone.
LEMMA StandStep ==
  ASSUME OneActor
  PROVE  TypeInv /\ StandInv /\ [Next]_vars => StandInv'
<1> SUFFICES ASSUME TypeInv, StandInv, [Next]_vars PROVE ManualStands' /\ OrphansGone'
  BY SeenStep DEF StandInv
<1> USE DEF storeVars, localVars, StandInv
<1> DEFINE Leaves == /\ UNCHANGED <<decided, ledger>>
                     /\ \A m \in matches : m.source = "manual" => m \in matches'
           Busy(p) == pc'[p] # "drop"
<1>1. ASSUME NEW p \in Actors, Leaves, Busy(p) PROVE ManualStands' /\ OrphansGone'
  BY <1>1, UserRowsStay, OneActor DEF OneActor, OrphansGone
<1>2. ASSUME NEW p \in Actors, Busy(p), UNCHANGED ledger,
             NEW m \in StoredMatch, m.source = "manual", UpsertManual(m)
      PROVE  ManualStands' /\ OrphansGone'
  BY <1>2, UserDecides DEF OneActor, OrphansGone
<1>3. CASE UNCHANGED vars
  BY <1>3, UserRowsStay DEF vars, OrphansGone, Key, Settled
<1>4. CASE LedgerChanges
  <2>1. \A t \in Txns : ledger[t] = Gone => ledger'[t] = Gone
    BY <1>4 DEF LedgerChanges, TypeInv
  <2>2. UNCHANGED <<matches, decided, orphans, pc>>
    BY <1>4 DEF LedgerChanges
  <2>3. \A m \in matches : Settled(m) => m.txn \in Txns
    BY DEF TypeInv, MatchesOK, StoredMatch, Settled
  <2> QED
    BY <2>1, <2>2, <2>3, UserRowsStay DEF OrphansGone, Key, Settled
<1>5. ASSUME NEW p \in Actors, Fail(p) PROVE ManualStands' /\ OrphansGone'
  BY <1>5, <1>1, Finished DEF Fail
<1>6. ASSUME NEW p \in Actors, PassStep(p) PROVE ManualStands' /\ OrphansGone'
  <2>1. CASE ListItems(p) \/ Learn(p) \/ ReadClaims(p) \/ ScoreItem(p) \/ StartRecording(p)
             \/ InsertAuto(p)
    <3>1. Leaves
      BY <2>1 DEF ListItems, Learn, ReadClaims, ScoreItem, StartRecording, InsertAuto
    <3>2. Busy(p)
      BY <2>1 DEF ListItems, Learn, ReadClaims, ScoreItem, StartRecording, InsertAuto,
                  Goto, TypeInv, TypeOK
    <3> QED
      BY <3>1, <3>2, <1>1
  <2>2. CASE ListOrphans(p)
    <3>1. UNCHANGED <<matches, decided, ledger>> /\ orphans'[p] = Orphaned(items[p])
      BY <2>2 DEF ListOrphans, TypeInv, TypeOK
    <3>2. ManualStands'
      BY <3>1, UserRowsStay
    <3>3. \A m \in matches : Key(m) \in orphans'[p] => Settled(m) /\ ledger[m.txn] = Gone
      BY <3>1, OrphansAreGone
    <3> QED
      BY <3>1, <3>2, <3>3 DEF OrphansGone, OneActor, Key, Settled
  <2>3. CASE DropOrphan(p)
    <3>1. PICK key \in orphans[p] : /\ matches' = {m \in matches : Key(m) # key}
                                    /\ orphans' = [orphans EXCEPT ![p] = @ \ {key}]
      BY <2>3 DEF DropOrphan
    <3>2. UNCHANGED <<decided, ledger>> /\ pc[p] = "drop"
      BY <2>3 DEF DropOrphan
    <3>3. ASSUME NEW k \in Keys, NEW m \in matches,
                 Key(m) = k, m.source = "manual", Chosen(m) = decided[k]
          PROVE  decided[k] \in {t \in Txns : ledger[t] = Gone} \/ m \in matches'
      <4>1. CASE Key(m) = key
        <5>1. Settled(m) /\ ledger[m.txn] = Gone
          BY <3>1, <3>2, <4>1 DEF OrphansGone
        <5>2. m.txn \in Txns
          BY <5>1 DEF TypeInv, MatchesOK, StoredMatch, Settled
        <5> QED
          BY <3>3, <5>1, <5>2 DEF Chosen
      <4> QED
        BY <3>1, <4>1
    <3>4. ManualStands'
      BY <3>2, <3>3 DEF ManualStands, Key, Chosen, Settled
    <3>5. matches' \subseteq matches /\ orphans'[p] \subseteq orphans[p]
      BY <3>1 DEF TypeInv, TypeOK
    <3> QED
      BY <3>2, <3>4, <3>5 DEF OrphansGone, OneActor, Key, Settled
  <2>4. CASE UpdateAuto(p)
    <3>1. PICK d \in decisions[p] :
            matches' = {IF Supersedes(d, m) THEN d ELSE m : m \in matches}
      BY <2>4 DEF UpdateAuto
    <3>2. \A m \in matches : m.source = "manual" => ~Supersedes(d, m)
      BY DEF Supersedes
    <3>3. Leaves
      BY <2>4, <3>1, <3>2 DEF UpdateAuto
    <3>4. Busy(p)
      BY <2>4 DEF UpdateAuto, Goto, TypeInv, TypeOK
    <3> QED
      BY <3>3, <3>4, <1>1
  <2>5. CASE RecordFails(p) \/ EndPass(p)
    BY <2>5, <1>1, Finished DEF RecordFails, EndPass
  <2> QED
    BY <1>6, <2>1, <2>2, <2>3, <2>4, <2>5 DEF PassStep
<1>7. ASSUME NEW p \in Actors, UserStep(p) PROVE ManualStands' /\ OrphansGone'
  <2>1. CASE MatchOccurrence(p) \/ ClearOccurrence(p) \/ CreateItemFromTransaction(p)
    <3>1. UNCHANGED ledger /\ Busy(p)
      BY <2>1 DEF MatchOccurrence, ClearOccurrence, CreateItemFromTransaction
    <3>2. PICK m \in StoredMatch : m.source = "manual" /\ UpsertManual(m)
      <4>1. CASE MatchOccurrence(p)
        <5>1. PICK i \in Declared, t \in Stored :
                \E day \in Due(declared[i]) : UpsertManual(Match(i, day, t, "manual"))
          BY <4>1 DEF MatchOccurrence
        <5>2. PICK day \in Due(declared[i]) : UpsertManual(Match(i, day, t, "manual"))
          BY <5>1
        <5>3. i \in Items /\ day \in Days /\ t \in Txns
          BY DeclarationType DEF Declared, Due, Stored, TypeInv, TypeOK
        <5> QED
          BY <5>2, <5>3 DEF Match, StoredMatch, Sources
      <4>2. CASE ClearOccurrence(p)
        <5>1. PICK i \in Declared :
                \E day \in Due(declared[i]) : UpsertManual(Match(i, day, NoTxn, "manual"))
          BY <4>2 DEF ClearOccurrence
        <5>2. PICK day \in Due(declared[i]) : UpsertManual(Match(i, day, NoTxn, "manual"))
          BY <5>1
        <5>3. i \in Items /\ day \in Days
          BY DeclarationType DEF Declared, Due, TypeInv, TypeOK
        <5> QED
          BY <5>2, <5>3 DEF Match, StoredMatch, Sources
      <4>3. CASE CreateItemFromTransaction(p)
        <5>1. PICK i \in Items, t \in Stored :
                \E d \in Declarations[i] :
                  UpsertManual(Match(i, Bootstrap(d, t), t, "manual"))
          BY <4>3 DEF CreateItemFromTransaction
        <5>2. PICK d \in Declarations[i] :
                UpsertManual(Match(i, Bootstrap(d, t), t, "manual"))
          BY <5>1
        <5>3. Bootstrap(d, t) \in d.dates
          BY BootstrapType
        <5>4. i \in Items /\ Bootstrap(d, t) \in Days /\ t \in Txns
          BY <5>3, DeclarationType DEF Stored
        <5> QED
          BY <5>2, <5>4 DEF Match, StoredMatch, Sources
      <4> QED
        BY <2>1, <4>1, <4>2, <4>3
    <3> QED
      BY <3>1, <3>2, <1>2
  <2>2. CASE ConfirmOccurrence(p)
    BY <2>2, <1>1 DEF ConfirmOccurrence, Goto, TypeInv, TypeOK
  <2>3. CASE WriteConfirmed(p)
    <3>1. PICK m \in decisions[p] : UpsertManual(m)
      BY <2>3 DEF WriteConfirmed
    <3>2. m \in StoredMatch /\ m.source = "manual"
      BY <2>3, <3>1 DEF WriteConfirmed, SeenInv, TypeInv, Decision, StoredMatch
    <3>3. UNCHANGED ledger /\ Busy(p)
      BY <2>3, Finished DEF WriteConfirmed
    <3> QED
      BY <3>1, <3>2, <3>3, <1>2
  <2>4. CASE ConfirmFails(p) \/ DeleteItem(p)
    BY <2>4, <1>1, Finished DEF ConfirmFails, DeleteItem
  <2>5. CASE Create(p) \/ Update(p)
    BY <2>5, <1>1 DEF Create, Update
  <2>6. CASE DeleteMatchesForItem(p)
    <3>1. PICK i \in Declared :
            /\ matches' = {m \in matches : m.item # i}
            /\ decided' = [k \in Keys |-> IF k[1] = i THEN "none" ELSE decided[k]]
      BY <2>6 DEF DeleteMatchesForItem
    <3>2. UNCHANGED ledger /\ Busy(p)
      BY <2>6 DEF DeleteMatchesForItem, Goto, TypeInv, TypeOK
    <3>3. \A m \in matches : Key(m)[1] = m.item
      BY DEF Key
    <3>4. ManualStands'
      BY <3>1, <3>2, <3>3 DEF ManualStands, Key, Chosen, Settled
    <3> QED
      BY <3>2, <3>4 DEF OrphansGone, OneActor
  <2> QED
    BY <1>7, <2>1, <2>2, <2>3, <2>4, <2>5, <2>6 DEF UserStep
<1> QED
  BY <1>3, <1>4, <1>5, <1>6, <1>7 DEF Next

LEMMA StandInit == Init => StandInv
BY SeenInit DEF Init, StandInv, ManualStands, OrphansGone

-----------------------------------------------------------------------------
(* With one goroutine at work, no deleted item keeps a match. *)

\* At rest a goroutine holds nothing; what a pass read and what it will write is of items
\* not deleted; and the item whose decisions were deleted has none.
HeldItems ==
  \A p \in Actors :
    /\ pc[p] \in {"idle", "delete"} => items[p] = {} /\ decisions[p] = {}
    /\ \A a \in items[p] : declared[a.id] # Deleted
    /\ \A d \in decisions[p] : declared[d.item] # Deleted
    /\ pc[p] = "delete" => \A m \in matches : m.item # doomed[p]

ItemInv == MatchesHaveItem /\ HeldItems

\* A decision is added for an item that is not deleted, by the goroutine that made it.
LEMMA ItemStep ==
  ASSUME OneActor
  PROVE  TypeInv /\ ItemInv /\ [Next]_vars => ItemInv'
<1> SUFFICES ASSUME TypeInv, ItemInv, [Next]_vars PROVE ItemInv'
  OBVIOUS
<1> USE DEF storeVars, localVars, ItemInv
<1> DEFINE Rows(p) == \A m \in matches' : m \in matches \/ declared'[m.item] # Deleted
           Kept == \A i \in Items : declared[i] # Deleted => declared'[i] # Deleted
           Rest(p) == items'[p] = {} /\ decisions'[p] = {}
<1>0. /\ \A m \in matches : m.item \in Items
      /\ \A p \in Actors : \A a \in items[p] : a.id \in Items
      /\ \A p \in Actors : \A d \in decisions[p] : d.item \in Items
  BY DEF TypeInv, MatchesOK, StoredMatch, Decision, ReadItem
<1>1. ASSUME NEW p \in Actors, Rows(p), Kept, Rest(p), pc'[p] # "delete" PROVE ItemInv'
  BY <1>0, <1>1 DEF MatchesHaveItem, HeldItems, OneActor
<1>2. ASSUME NEW p \in Actors, Rows(p), UNCHANGED declared,
             pc'[p] \notin {"idle", "delete"},
             \A a \in items'[p] : declared[a.id] # Deleted,
             \A d \in decisions'[p] : declared[d.item] # Deleted
      PROVE  ItemInv'
  BY <1>0, <1>2 DEF MatchesHaveItem, HeldItems, OneActor
<1>3. CASE UNCHANGED vars
  BY <1>3 DEF vars, MatchesHaveItem, HeldItems
<1>4. CASE LedgerChanges
  BY <1>4 DEF LedgerChanges, MatchesHaveItem, HeldItems
<1>5. ASSUME NEW p \in Actors, Fail(p) PROVE ItemInv'
  BY <1>5, <1>1, Finished DEF Fail
<1>6. ASSUME NEW p \in Actors, PassStep(p) PROVE ItemInv'
  <2>1. CASE ListItems(p)
    <3>1. /\ items'[p] = ActiveItems /\ decisions'[p] = {} /\ pc'[p] = "orphans"
          /\ UNCHANGED <<matches, declared>>
      BY <2>1 DEF ListItems, Goto, HeldItems, TypeInv, TypeOK
    <3>2. \A a \in ActiveItems : declared[a.id] # Deleted
      BY DEF ActiveItems, Declared
    <3> QED
      BY <3>1, <3>2, <1>2
  <2>2. CASE ListOrphans(p) \/ DropOrphan(p) \/ Learn(p) \/ ReadClaims(p)
             \/ StartRecording(p)
    <3>1. /\ UNCHANGED <<declared, items, decisions>> /\ matches' \subseteq matches
          /\ pc'[p] \notin {"idle", "delete"}
      BY <2>2 DEF ListOrphans, DropOrphan, Learn, ReadClaims, StartRecording, Goto, TypeInv,
                  TypeOK
    <3> QED
      BY <3>1, <1>2 DEF HeldItems
  <2>3. CASE ScoreItem(p)
    <3>1. PICK a \in items[p] :
            /\ decisions' = [decisions EXCEPT ![p] =
                               @ \cup Winners(a, learned[p][a.id], claimedBy[p])]
            /\ items' = [items EXCEPT ![p] = @ \ {a}]
      BY <2>3 DEF ScoreItem
    <3>2. \A d \in Winners(a, learned[p][a.id], claimedBy[p]) : d.item = a.id
      BY DEF Winners, Match
    <3>3. UNCHANGED <<matches, declared, pc>> /\ pc[p] = "score"
      BY <2>3 DEF ScoreItem
    <3>4. /\ decisions'[p] = decisions[p] \cup Winners(a, learned[p][a.id], claimedBy[p])
          /\ items'[p] \subseteq items[p]
      BY <3>1 DEF TypeInv
    <3>5. declared[a.id] # Deleted
      BY DEF HeldItems
    <3> QED
      BY <3>2, <3>3, <3>4, <3>5, <1>2 DEF HeldItems
  <2>4. CASE InsertAuto(p)
    <3>1. PICK d \in decisions[p] : matches' \subseteq matches \cup {d}
      BY <2>4 DEF InsertAuto
    <3>2. UNCHANGED <<declared, items, decisions>> /\ pc'[p] = "update"
      BY <2>4 DEF InsertAuto, Goto, TypeInv, TypeOK
    <3> QED
      BY <3>1, <3>2, <1>2 DEF HeldItems
  <2>5. CASE UpdateAuto(p)
    <3>1. PICK d \in decisions[p] :
            /\ matches' = {IF Supersedes(d, m) THEN d ELSE m : m \in matches}
            /\ decisions' = [decisions EXCEPT ![p] = @ \ {d}]
      BY <2>5 DEF UpdateAuto
    <3>2. matches' \subseteq matches \cup {d} /\ decisions'[p] \subseteq decisions[p]
      BY <3>1 DEF TypeInv
    <3>3. UNCHANGED <<declared, items>> /\ pc'[p] = "insert"
      BY <2>5 DEF UpdateAuto, Goto, TypeInv, TypeOK
    <3> QED
      BY <3>2, <3>3, <1>2 DEF HeldItems
  <2>6. CASE RecordFails(p) \/ EndPass(p)
    BY <2>6, <1>1, Finished DEF RecordFails, EndPass
  <2> QED
    BY <1>6, <2>1, <2>2, <2>3, <2>4, <2>5, <2>6 DEF PassStep
<1>7. ASSUME NEW p \in Actors, UserStep(p) PROVE ItemInv'
  <2>1. CASE MatchOccurrence(p) \/ ClearOccurrence(p)
    <3>1. UNCHANGED <<declared, items, decisions, pc>> /\ pc[p] = "idle"
      BY <2>1 DEF MatchOccurrence, ClearOccurrence
    <3>2. \E m : m.item \in Declared /\ UpsertManual(m)
      BY <2>1 DEF MatchOccurrence, ClearOccurrence, Match
    <3>3. Rows(p)
      BY <3>1, <3>2 DEF UpsertManual, Upserted, Declared
    <3> QED
      BY <3>1, <3>3, <1>1 DEF HeldItems
  <2>2. CASE ConfirmOccurrence(p)
    <3>1. PICK m \in matches :
            /\ m.item \in Declared
            /\ decisions' = [decisions EXCEPT ![p] = {[m EXCEPT !.source = "manual"]}]
      BY <2>2 DEF ConfirmOccurrence
    <3>2. \A d \in {[m EXCEPT !.source = "manual"]} : d.item = m.item
      BY DEF TypeInv, MatchesOK, StoredMatch
    <3>3. /\ decisions'[p] = {[m EXCEPT !.source = "manual"]} /\ pc'[p] = "confirm"
          /\ UNCHANGED <<matches, declared, items>>
      BY <2>2, <3>1 DEF ConfirmOccurrence, Goto, TypeInv, TypeOK
    <3>4. declared[m.item] # Deleted
      BY <3>1 DEF Declared
    <3> QED
      BY <3>2, <3>3, <3>4, <1>2 DEF HeldItems
  <2>3. CASE WriteConfirmed(p)
    <3>1. PICK m \in decisions[p] : UpsertManual(m)
      BY <2>3 DEF WriteConfirmed
    <3>2. matches' \subseteq matches \cup {m} /\ declared[m.item] # Deleted
      BY <3>1 DEF UpsertManual, Upserted, HeldItems
    <3> QED
      BY <2>3, <3>2, Finished, <1>1 DEF WriteConfirmed
  <2>4. CASE ConfirmFails(p)
    BY <2>4, Finished, <1>1 DEF ConfirmFails
  <2>5. CASE Create(p) \/ Update(p)
    <3>1. PICK i \in Items : \E d \in Declarations[i] : declared' = [declared EXCEPT ![i] = d]
      BY <2>5 DEF Create, Update, Declared
    <3>2. PICK d \in Declarations[i] : declared' = [declared EXCEPT ![i] = d]
      BY <3>1
    <3>3. Kept
      BY <3>2, DeclarationType DEF TypeInv
    <3>4. UNCHANGED <<matches, items, decisions, pc>> /\ pc[p] = "idle"
      BY <2>5 DEF Create, Update
    <3> QED
      BY <3>3, <3>4, <1>1 DEF HeldItems
  <2>6. CASE CreateItemFromTransaction(p)
    <3>1. PICK i \in Items, t \in Stored :
            \E d \in Declarations[i] :
              /\ declared' = [declared EXCEPT ![i] = d]
              /\ UpsertManual(Match(i, Bootstrap(d, t), t, "manual"))
      BY <2>6 DEF CreateItemFromTransaction
    <3>2. PICK d \in Declarations[i] :
            /\ declared' = [declared EXCEPT ![i] = d]
            /\ UpsertManual(Match(i, Bootstrap(d, t), t, "manual"))
      BY <3>1
    <3>3. Kept /\ declared'[i] # Deleted
      BY <3>2, DeclarationType DEF TypeInv
    <3>4. Rows(p)
      BY <3>2, <3>3 DEF UpsertManual, Upserted, Match
    <3>5. UNCHANGED <<items, decisions, pc>> /\ pc[p] = "idle"
      BY <2>6 DEF CreateItemFromTransaction
    <3> QED
      BY <3>3, <3>4, <3>5, <1>1 DEF HeldItems
  <2>7. CASE DeleteMatchesForItem(p)
    <3>1. PICK i \in Declared :
            /\ matches' = {m \in matches : m.item # i}
            /\ doomed' = [doomed EXCEPT ![p] = i]
      BY <2>7 DEF DeleteMatchesForItem
    <3>2. doomed'[p] = i /\ pc'[p] = "delete" /\ UNCHANGED <<declared, items, decisions>>
          /\ pc[p] = "idle"
      BY <2>7, <3>1 DEF DeleteMatchesForItem, Goto, TypeInv, TypeOK
    <3> QED
      BY <3>1, <3>2 DEF MatchesHaveItem, HeldItems, OneActor
  <2>8. CASE DeleteItem(p)
    <3>1. declared' = [declared EXCEPT ![doomed[p]] = Deleted]
          /\ UNCHANGED matches /\ Finish(p) /\ pc[p] = "delete"
      BY <2>8 DEF DeleteItem
    <3>2. \A m \in matches : declared'[m.item] # Deleted
      BY <3>1, <1>0 DEF MatchesHaveItem, HeldItems, TypeInv
    <3>3. Rest(p) /\ pc'[p] = "idle"
      BY <3>1, Finished
    <3> QED
      BY <3>1, <3>2, <3>3 DEF MatchesHaveItem, HeldItems, OneActor
  <2> QED
    BY <1>7, <2>1, <2>2, <2>3, <2>4, <2>5, <2>6, <2>7, <2>8 DEF UserStep
<1> QED
  BY <1>3, <1>4, <1>5, <1>6, <1>7 DEF Next

LEMMA ItemInit == Init => ItemInv
BY DEF Init, ItemInv, MatchesHaveItem, HeldItems

-----------------------------------------------------------------------------
(* The theorems that need one goroutine. *)

\* What the user decided about an occurrence stands until he decides again, whatever the
\* passes resolve (schedule.Service.ResolveOccurrenceMatches, UpsertAutoMatch).
THEOREM ManualAlwaysStands ==
  ASSUME OneActor
  PROVE  Spec => []ManualStands
<1>1. Init => TypeInv /\ StandInv
  BY InitType, StandInit
<1>2. TypeInv /\ StandInv /\ [Next]_vars => (TypeInv /\ StandInv)'
  BY TypeStep, StandStep
<1>3. StandInv => ManualStands
  BY DEF StandInv
<1> QED
  BY <1>1, <1>2, <1>3, PTL DEF Spec

\* No decision outlives its item (schedule.Service.Delete deletes the decisions first).
THEOREM MatchesAlwaysHaveItem ==
  ASSUME OneActor
  PROVE  Spec => []MatchesHaveItem
<1>1. Init => TypeInv /\ ItemInv
  BY InitType, ItemInit
<1>2. TypeInv /\ ItemInv /\ [Next]_vars => (TypeInv /\ ItemInv)'
  BY TypeStep, ItemStep
<1>3. ItemInv => MatchesHaveItem
  BY DEF ItemInv
<1> QED
  BY <1>1, <1>2, <1>3, PTL DEF Spec
==============================================================================
