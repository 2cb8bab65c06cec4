---------------------------- MODULE SweepRunProofs ----------------------------
(***************************************************************************)
(* Proofs about SweepRun, for every set of accounts and items, however     *)
(* many runs are under way and whatever changes between their reads: what  *)
(* a stored recommendation holds back follows from what its run has read.  *)
(***************************************************************************)
EXTENDS SweepRun, CalendarProofs, SequenceTheorems, TLAPS

-----------------------------------------------------------------------------
(* Sorting. *)

\* R orders S, strictly and totally.
Orders(R, S) ==
  /\ \A x \in S : <<x, x>> \notin R
  /\ \A x, y \in S : x # y => <<x, y>> \in R \/ <<y, x>> \in R
  /\ \A x, y, z \in S : <<x, y>> \in R /\ <<y, z>> \in R => <<x, z>> \in R

\* The sequence s lists S, each member once, as R orders them.
Lists(s, S, R) ==
  /\ s \in [1..Cardinality(S) -> S]
  /\ \A x \in S : \E n \in 1..Cardinality(S) : s[n] = x
  /\ \A m, n \in 1..Cardinality(S) : m < n <=> <<s[m], s[n]>> \in R

\* A set that is ordered totally is listed in that order.
LEMMA SortedLists ==
  ASSUME NEW S, IsFiniteSet(S), NEW R, Orders(R, S)
  PROVE  Lists(Sorted(S, R), S, R)
<1> DEFINE N == Cardinality(S)
           Below(x) == {y \in S : <<y, x>> \in R}
           rank == [x \in S |-> Cardinality(Below(x))]
<1>1. N \in Nat
  BY FS_CardinalityType
<1>2. ASSUME NEW x \in S
      PROVE  /\ IsFiniteSet(Below(x)) /\ Cardinality(Below(x)) \in 0..(N - 1)
             /\ Cardinality(Below(x)) \in Nat
  <2>1. Below(x) \in SUBSET (S \ {x})
    BY DEF Orders
  <2>2. IsFiniteSet(S \ {x}) /\ Cardinality(S \ {x}) = N - 1
    BY FS_RemoveElement
  <2> HIDE DEF Below
  <2>3. IsFiniteSet(Below(x)) /\ Cardinality(Below(x)) <= N - 1
    BY <2>1, <2>2, FS_Subset
  <2> QED
    BY <2>3, <1>1, FS_CardinalityType
<1>3. ASSUME NEW x \in S, NEW y \in S, <<x, y>> \in R
      PROVE  Cardinality(Below(x)) < Cardinality(Below(y))
  <2>1. Below(x) \cup {x} \in SUBSET Below(y) /\ x \notin Below(x)
    BY <1>3 DEF Orders
  <2>2. IsFiniteSet(Below(x)) /\ IsFiniteSet(Below(y))
        /\ Cardinality(Below(x)) \in Nat /\ Cardinality(Below(y)) \in Nat
    BY <1>1, <1>2
  <2> HIDE DEF Below
  <2>3. Cardinality(Below(x) \cup {x}) = Cardinality(Below(x)) + 1
    BY <2>1, <2>2, FS_AddElement
  <2>4. Cardinality(Below(x) \cup {x}) <= Cardinality(Below(y))
    BY <2>1, <2>2, FS_Subset
  <2> QED
    BY <2>2, <2>3, <2>4
<1>4. ASSUME NEW x \in S, NEW y \in S, Cardinality(Below(x)) = Cardinality(Below(y))
      PROVE  x = y
  <2>1. Cardinality(Below(x)) \in Nat
    BY <1>2
  <2>2. /\ <<x, y>> \in R => Cardinality(Below(x)) < Cardinality(Below(y))
        /\ <<y, x>> \in R => Cardinality(Below(y)) < Cardinality(Below(x))
    BY <1>3
  <2> HIDE DEF Below
  <2> QED
    BY <2>1, <2>2, <1>4 DEF Orders
<1>5. rank \in Surjection(S, 0..(N - 1))
  <2>1. rank \in [S -> 0..(N - 1)]
    BY <1>2
  <2>2. \A x, y \in S : rank[x] = rank[y] => x = y
    BY <1>4
  <2> HIDE DEF rank
  <2>3. rank \in Injection(S, 0..(N - 1))
    BY <2>1, <2>2 DEF Injection, IsInjective
  <2>4. IsFiniteSet(0..(N - 1)) /\ Cardinality(0..(N - 1)) = N
    BY <1>1, FS_Interval
  <2> QED
    BY <2>3, <2>4, FS_Injection
<1>6. \A n \in 1..N : \E x \in S : Cardinality(Below(x)) = n - 1
  <2>1. ASSUME NEW n \in 1..N PROVE \E x \in S : rank[x] = n - 1
    <3>1. n - 1 \in 0..(N - 1)
      BY <1>1
    <3> HIDE DEF rank
    <3> QED
      BY <1>5, <3>1 DEF Surjection
  <2> QED
    BY <2>1
<1> DEFINE s == Sorted(S, R)
<1>7. ASSUME NEW n \in 1..N PROVE s[n] \in S /\ Cardinality(Below(s[n])) = n - 1
  <2>1. s[n] = CHOOSE x \in S : Cardinality(Below(x)) = n - 1
    BY DEF Sorted
  <2> HIDE DEF Below, s
  <2> QED
    BY <1>6, <2>1
<1>8. s \in [1..N -> S]
  <2> DEFINE nth(n) == CHOOSE x \in S : Cardinality({y \in S : <<y, x>> \in R}) = n - 1
  <2>0. s = [n \in 1..N |-> nth(n)]
    BY DEF Sorted
  <2>1. s = [n \in 1..N |-> s[n]]
    <3> HIDE DEF s, nth
    <3> QED
      BY <2>0
  <2> HIDE DEF s, N, Below
  <2> QED
    BY <1>7, <2>1
<1> HIDE DEF s, Below, rank
<1>9. ASSUME NEW x \in S PROVE \E n \in 1..N : s[n] = x
  <2>1. Cardinality(Below(x)) + 1 \in 1..N
    BY <1>1, <1>2
  <2>2. s[Cardinality(Below(x)) + 1] \in S
        /\ Cardinality(Below(s[Cardinality(Below(x)) + 1])) = Cardinality(Below(x))
    BY <2>1, <1>1, <1>2, <1>7
  <2> QED
    BY <2>1, <2>2, <1>4
<1>10. ASSUME NEW m \in 1..N, NEW n \in 1..N PROVE m < n <=> <<s[m], s[n]>> \in R
  <2>1. /\ s[m] \in S /\ Cardinality(Below(s[m])) = m - 1
        /\ s[n] \in S /\ Cardinality(Below(s[n])) = n - 1
    BY <1>7
  <2>2. m < n => s[m] # s[n]
    BY <1>1, <2>1
  <2>3. <<s[n], s[m]>> \in R => n < m
    BY <1>1, <1>3, <2>1
  <2>4. <<s[m], s[n]>> \in R => m < n
    BY <1>1, <1>3, <2>1
  <2> QED
    BY <1>1, <2>1, <2>2, <2>3, <2>4 DEF Orders
<1> QED
  BY <1>8, <1>9, <1>10 DEF Lists, s

-----------------------------------------------------------------------------
(* The running totals. *)

\* The walk of the rows is well defined: each total is the one before it and the row.
LEMMA TotalsWalk ==
  ASSUME NEW S, NEW N \in Nat, NEW ordered \in [1..N -> S]
  PROVE  /\ Len(ordered) = N
         /\ DOMAIN RunningTotals(ordered) = 0..N
         /\ RunningTotals(ordered)[0] = 0
         /\ \A n \in 1..N : RunningTotals(ordered)[n]
                              = RunningTotals(ordered)[n - 1] + Signed(ordered[n])
<1>1. Len(ordered) = N
  <2>1. ordered \in Seq(S)
    BY SeqDef
  <2>2. Len(ordered) \in Nat /\ DOMAIN ordered = 1..Len(ordered)
    BY <2>1, LenProperties
  <2> QED
    BY <2>2
<1> DEFINE d == [n \in 1..N |-> Signed(ordered[n])]
           total == RunningTotals(ordered)
<1>2. \E f : f = [n \in 0..Len(ordered) |-> IF n = 0 THEN 0 ELSE f[n - 1] + Signed(ordered[n])]
  <2>1. PICK f : SumsUp(f, d, 0, N)
    <3>1. 0 \in Int /\ N \in Int /\ 0 <= N
      OBVIOUS
    <3> HIDE DEF d
    <3> QED
      BY <3>1, RowSums
  <2>2. \A n \in 1..N : d[n] = Signed(ordered[n])
    OBVIOUS
  <2>3. f = [n \in 0..N |-> IF n = 0 THEN 0 ELSE f[n - 1] + d[n]]
    BY <2>1 DEF SumsUp
  <2> HIDE DEF d
  <2>4. f = [n \in 0..N |-> IF n = 0 THEN 0 ELSE f[n - 1] + Signed(ordered[n])]
    BY <2>2, <2>3
  <2> QED
    BY <2>4, <1>1
<1>3. total = [n \in 0..Len(ordered) |-> IF n = 0 THEN 0 ELSE total[n - 1] + Signed(ordered[n])]
  BY <1>2, Zenon DEF RunningTotals
<1> HIDE DEF total
<1>4. \A n \in 0..N : total[n] = IF n = 0 THEN 0 ELSE total[n - 1] + Signed(ordered[n])
  BY <1>1, <1>3, Zenon
<1>5. DOMAIN total = 0..N
  BY <1>1, <1>3, Zenon
<1> QED
  BY <1>1, <1>4, <1>5 DEF total

\* A row as far as the figure is concerned.
Worth(e) == e.date \in Int /\ e.amount \in Nat /\ e.direction \in {"in", "out"}

\* The total at a row is what the rows up to it add up to.
LEMMA TotalsAddUp ==
  ASSUME NEW E, IsFiniteSet(E), NEW R, NEW s, Lists(s, E, R), \A e \in E : Worth(e)
  PROVE  \A n \in 0..Cardinality(E) :
           /\ RunningTotals(s)[n] \in Int
           /\ RunningTotals(s)[n]
                = SumFunctionOnSet([e \in E |-> Signed(e)], {s[m] : m \in 1..n})
<1> DEFINE N == Cardinality(E)
           total == RunningTotals(s)
           v == [e \in E |-> Signed(e)]
           First(n) == {s[m] : m \in 1..n}
           Right(n) == total[n] \in Int /\ total[n] = SumFunctionOnSet(v, First(n))
           Bad == {n \in 0..N : ~Right(n)}
<1>1. N \in Nat /\ s \in [1..N -> E] /\ \A m, n \in 1..N : m # n => s[m] # s[n]
  <2>1. N \in Nat
    BY FS_CardinalityType
  <2>2. \A n \in 1..N : <<s[n], s[n]>> \notin R
    BY <2>1 DEF Lists
  <2>3. \A m, n \in 1..N : m < n => <<s[m], s[n]>> \in R
    BY DEF Lists
  <2>4. ASSUME NEW m \in 1..N, NEW n \in 1..N, m # n, s[m] = s[n] PROVE FALSE
    <3>1. m < n \/ n < m
      BY <2>4
    <3> QED
      BY <2>2, <2>3, <2>4, <3>1
  <2> QED
    BY <2>1, <2>4 DEF Lists
<1>2. /\ total[0] = 0
      /\ \A n \in 1..N : total[n] = total[n - 1] + Signed(s[n])
  <2>1. N \in Nat /\ s \in [1..N -> E]
    BY <1>1
  <2> HIDE DEF N, total, v, Bad, First
  <2>2. /\ RunningTotals(s)[0] = 0
        /\ \A n \in 1..N : RunningTotals(s)[n] = RunningTotals(s)[n - 1] + Signed(s[n])
    BY <2>1, TotalsWalk
  <2> QED
    BY <2>2 DEF total
<1>3. \A e \in E : v[e] = Signed(e) /\ v[e] \in Int
  BY DEF Signed, Worth
<1> HIDE DEF total, v
<1>4. SUFFICES Bad = {}
  BY DEF total, v
<1>5. SUFFICES ASSUME Bad # {} PROVE FALSE
  OBVIOUS
<1>6. PICK n \in Bad : \A k \in Bad : n <= k
  <2>1. Bad \in SUBSET Nat
    BY <1>1
  <2> HIDE DEF Bad
  <2> QED
    BY <1>5, <2>1, LeastNatural
<1>7. CASE n = 0
  <2>1. First(n) = {}
    BY <1>7
  <2>2. SumFunctionOnSet(v, {}) = 0
    BY SumEmpty
  <2> QED
    BY <1>2, <1>6, <1>7, <2>1, <2>2
<1>8. CASE n # 0
  <2>1. n \in 1..N /\ n - 1 \in 0..N /\ n - 1 \notin Bad
    <3>1. n \in 1..N /\ n - 1 \in 0..N
      BY <1>1, <1>8
    <3> HIDE DEF Bad
    <3> QED
      BY <1>1, <1>6, <3>1
  <2>2. Right(n - 1)
    <3> HIDE DEF Right
    <3> QED
      BY <2>1
  <2>3. First(n) \subseteq E /\ s[n] \in First(n) /\ First(n) \ {s[n]} = First(n - 1)
    <3>1. \A m \in 1..n : m \in 1..N /\ s[m] \in E
      BY <1>1, <2>1
    <3>2. \A m \in 1..(n - 1) : m \in 1..n /\ m # n
      BY <2>1
    <3>3. \A m \in 1..n : m # n => m \in 1..(n - 1)
      BY <2>1
    <3>4. n \in 1..n
      BY <2>1
    <3> QED
      BY <1>1, <2>1, <3>1, <3>2, <3>3, <3>4
  <2> DEFINE F == First(n)
  <2>4. Summands(v, F)
    BY <1>3, <2>3, FS_Subset DEF Summands
  <2>5. SumFunctionOnSet(v, F) = v[s[n]] + SumFunctionOnSet(v, F \ {s[n]})
    <3>1. s[n] \in F
      BY <2>3
    <3> HIDE DEF F
    <3> QED
      BY <2>4, <3>1, SumRemove
  <2>6. total[n] = total[n - 1] + v[s[n]] /\ v[s[n]] \in Int
    BY <1>1, <1>2, <1>3, <2>1
  <2>7. Right(n)
    <3>1. SumFunctionOnSet(v, F) = v[s[n]] + SumFunctionOnSet(v, First(n - 1))
      BY <2>3, <2>5
    <3> HIDE DEF F, First
    <3>2. total[n - 1] \in Int /\ total[n - 1] = SumFunctionOnSet(v, First(n - 1))
      BY <2>2
    <3>3. total[n] \in Int /\ total[n] = SumFunctionOnSet(v, F)
      BY <2>6, <3>1, <3>2
    <3> QED
      BY <3>3 DEF F
  <2> QED
    BY <2>7, <1>6
<1> QED
  BY <1>7, <1>8

-----------------------------------------------------------------------------
(* The figure. *)

\* The rows in the order of evaluate, and the totals that go with them.
InOrder(E) == Sorted(E, TimelineOrder(E))
Totals(E) == RunningTotals(InOrder(E))

\* What a timeline is built of: rows that an order tells apart.
Orderly(E) == IsFiniteSet(E) /\ Orders(TimelineOrder(E), E) /\ \A e \in E : Worth(e)

LEMMA Walked ==
  ASSUME NEW E, Orderly(E)
  PROVE  /\ Cardinality(E) \in Nat
         /\ Lists(InOrder(E), E, TimelineOrder(E))
         /\ Len(InOrder(E)) = Cardinality(E)
         /\ DOMAIN Totals(E) = 0..Cardinality(E)
         /\ Totals(E)[0] = 0
         /\ \A n \in 0..Cardinality(E) :
              /\ Totals(E)[n] \in Int
              /\ Totals(E)[n] = SumFunctionOnSet([e \in E |-> Signed(e)],
                                                 {InOrder(E)[m] : m \in 1..n})
<1>1. Lists(InOrder(E), E, TimelineOrder(E))
  BY SortedLists DEF InOrder, Orderly
<1>2. Cardinality(E) \in Nat
  BY FS_CardinalityType DEF Orderly
<1>3. InOrder(E) \in [1..Cardinality(E) -> E]
  BY <1>1 DEF Lists
<1>4. /\ Len(InOrder(E)) = Cardinality(E)
      /\ DOMAIN Totals(E) = 0..Cardinality(E)
      /\ Totals(E)[0] = 0
  BY <1>2, <1>3, TotalsWalk DEF Totals
<1>5. \A n \in 0..Cardinality(E) :
        /\ RunningTotals(InOrder(E))[n] \in Int
        /\ RunningTotals(InOrder(E))[n]
             = SumFunctionOnSet([e \in E |-> Signed(e)], {InOrder(E)[m] : m \in 1..n})
  BY <1>1, TotalsAddUp DEF Orderly
<1> QED
  BY <1>1, <1>2, <1>4, <1>5 DEF Totals

\* The figure is the highest total; the rows are the timeline's, and the peak is one
\* that reaches it.
LEMMA EvaluateShows ==
  ASSUME NEW E, Orderly(E)
  PROVE  /\ Evaluate(E).required \in Nat
         /\ \A n \in 0..Cardinality(E) : Totals(E)[n] <= Evaluate(E).required
         /\ \E n \in 0..Cardinality(E) : Totals(E)[n] = Evaluate(E).required
         /\ DOMAIN Evaluate(E).timeline = 1..Cardinality(E)
         /\ \A n \in 1..Cardinality(E) :
              /\ Evaluate(E).timeline[n].event = InOrder(E)[n]
              /\ Evaluate(E).timeline[n].peak
                   => Evaluate(E).timeline[n].running = Evaluate(E).required
<1> DEFINE N == Cardinality(E)
           s == InOrder(E)
           t == Totals(E)
           R == {t[n] : n \in DOMAIN t}
           required == Max(R)
           peak == IF required = 0 THEN 0 ELSE Min({n \in 1..Len(s) : t[n] = required})
           rows == [n \in 1..Len(s) |-> [event |-> s[n], running |-> t[n], peak |-> n = peak]]
<1>1. N \in Nat /\ Len(s) = N /\ DOMAIN t = 0..N /\ t[0] = 0 /\ \A n \in 0..N : t[n] \in Int
  BY Walked
<1>2. Evaluate(E).required = required /\ Evaluate(E).timeline = rows
  BY Zenon DEF Evaluate, InOrder, Totals
<1> HIDE DEF s, t, N
<1>3. R \in SUBSET Int /\ IsFiniteSet(R) /\ t[0] \in R
  <2>1. IsFiniteSet(DOMAIN t)
    BY <1>1, FS_Interval
  <2> DEFINE D == DOMAIN t
  <2>2. IsFiniteSet({t[n] : n \in D})
    <3> HIDE DEF D
    <3> QED
      BY <2>1, FiniteImage DEF D
  <2> QED
    BY <1>1, <2>2
<1>4. PICK top \in R : \A r \in R : r <= top
  <2> HIDE DEF R
  <2>1. R # {}
    BY <1>3
  <2> QED
    BY <1>3, <2>1, FiniteMaximum
<1>5. required = top
  <2> HIDE DEF R
  <2> QED
    BY <1>3, <1>4, ExtremeIs
<1>6. required \in Nat /\ required \in Int /\ required \in R
  <2> HIDE DEF R, required
  <2>1. 0 <= top /\ top \in Int
    BY <1>1, <1>3, <1>4
  <2> QED
    BY <1>5, <2>1
<1>7. \A n \in 0..N : t[n] <= required
  BY <1>1, <1>4, <1>5
<1>8. \E n \in 0..N : t[n] = required
  BY <1>1, <1>6
<1> HIDE DEF R, required
<1>9. ASSUME NEW n \in 1..N, n = peak PROVE t[n] = required
  <2> DEFINE P == {k \in 1..Len(s) : t[k] = required}
  <2>1. required # 0
    <3>1. n # 0
      BY <1>1
    <3> QED
      BY <1>9, <3>1
  <2>2. peak = Min(P)
    BY <2>1
  <2>3. P # {} /\ P \in SUBSET Nat /\ P \in SUBSET Int
    BY <1>1, <1>8, <2>1
  <2>4. PICK k \in P : \A j \in P : k <= j
    <3> HIDE DEF P
    <3> QED
      BY <2>3, LeastNatural
  <2>5. Min(P) = k
    <3> HIDE DEF P
    <3> QED
      BY <2>3, <2>4, ExtremeIs
  <2> QED
    BY <1>9, <2>2, <2>4, <2>5
<1> HIDE DEF peak
<1>10. /\ DOMAIN rows = 1..N
       /\ \A n \in 1..N : /\ rows[n].event = s[n] /\ rows[n].running = t[n]
                          /\ rows[n].peak = (n = peak)
  BY <1>1
<1> HIDE DEF rows
<1>11. /\ DOMAIN Evaluate(E).timeline = 1..N
       /\ \A n \in 1..N : /\ Evaluate(E).timeline[n].event = s[n]
                          /\ Evaluate(E).timeline[n].peak
                               => Evaluate(E).timeline[n].running = Evaluate(E).required
  BY <1>2, <1>9, <1>10
<1> QED
  BY <1>2, <1>6, <1>7, <1>8, <1>11 DEF s, t, N

-----------------------------------------------------------------------------
(* The requirement. *)

\* What precedes every inflow of instant t in the walk, and no inflow of t itself.
Through(E, t) == {e \in E : e.date < t \/ (e.date = t /\ e.direction = "out")}
SumOf(E, S) == SumFunctionOnSet([e \in E |-> Signed(e)], S)

LEMMA SumsOfRows ==
  ASSUME NEW E, Orderly(E), NEW S \in SUBSET E
  PROVE  Summands([e \in E |-> Signed(e)], S) /\ SumOf(E, S) \in Int
<1> DEFINE v == [e \in E |-> Signed(e)]
<1>1. \A e \in E : v[e] \in Int
  BY DEF Orderly, Worth, Signed
<1>2. Summands(v, S)
  <2> HIDE DEF v
  <2> QED
    BY <1>1, FS_Subset DEF Orderly, Summands
<1>3. SumFunctionOnSet(v, S) \in Int
  <2> HIDE DEF v
  <2> QED
    BY <1>2, SumIsInt
<1> QED
  BY <1>2, <1>3 DEF SumOf

\* What is needed by an instant is what the rows through it add up to.
LEMMA NeededIsSum ==
  ASSUME NEW E, Orderly(E), NEW t \in Int
  PROVE  NeededBy(E, t) = SumOf(E, Through(E, t))
<1> DEFINE v == [e \in E |-> Signed(e)]
           O == {e \in E : e.direction = "out" /\ e.date <= t}
           I == {e \in E : e.direction = "in" /\ e.date < t}
           amountO == [e \in O |-> e.amount]
           amountI == [e \in I |-> e.amount]
           zero == [e \in I |-> 0]
<1>1. O \subseteq E /\ I \subseteq E /\ O \cap I = {} /\ Through(E, t) = O \cup I
  BY DEF Orderly, Worth, Through
<1>2. IsFiniteSet(O) /\ IsFiniteSet(I)
  <2> HIDE DEF O, I
  <2> QED
    BY <1>1, FS_Subset DEF Orderly
<1>3. /\ \A e \in O : v[e] = amountO[e] /\ amountO[e] \in Int
      /\ \A e \in I : v[e] = zero[e] - amountI[e] /\ zero[e] \in Int /\ amountI[e] \in Int
      /\ \A e \in I : zero[e] = 0
  BY DEF Orderly, Worth, Signed
<1>4. /\ Total(O) = SumFunctionOnSet(amountO, O)
      /\ Total(I) = SumFunctionOnSet(amountI, I)
  BY DEF Total, SumFunction
<1>5. NeededBy(E, t) = Total(O) - Total(I)
  BY DEF NeededBy
<1>6. Summands(v, O) /\ Summands(v, I)
  BY <1>1, SumsOfRows
<1> HIDE DEF v, O, I, amountO, amountI, zero
<1>7. SumFunctionOnSet(v, O \cup I) = SumFunctionOnSet(v, O) + SumFunctionOnSet(v, I)
  BY <1>1, <1>6, SumJoined
<1>8. SumFunctionOnSet(v, O) = SumFunctionOnSet(amountO, O)
  BY <1>2, <1>3, SumSame
<1>9. SumFunctionOnSet(v, I) = SumFunctionOnSet(zero, I) - SumFunctionOnSet(amountI, I)
  BY <1>2, <1>3, SumOfDifferences DEF Summands
<1>10. SumFunctionOnSet(zero, I) = 0
  BY <1>2, <1>3, SumOfZeros
<1>11. SumFunctionOnSet(amountI, I) \in Int /\ SumFunctionOnSet(amountO, O) \in Int
  BY <1>2, <1>3, SumIsInt DEF Summands
<1>12. SumOf(E, O \cup I) = SumFunctionOnSet(v, O \cup I)
  BY DEF SumOf, v
<1> QED
  BY <1>1, <1>4, <1>5, <1>7, <1>8, <1>9, <1>10, <1>11, <1>12

\* The rows through an instant come first in the walk.
LEMMA ThroughIsPrefix ==
  ASSUME NEW E, Orderly(E), NEW t \in Int
  PROVE  \E k \in 0..Cardinality(E) : Through(E, t) = {InOrder(E)[m] : m \in 1..k}
<1> DEFINE N == Cardinality(E)
           s == InOrder(E)
           P == Through(E, t)
           K == {n \in 0..N : n = 0 \/ s[n] \in P}
<1>1. N \in Nat /\ Lists(s, E, TimelineOrder(E))
  BY Walked
<1>2. PICK k \in K : \A n \in K : n <= k
  <2>1. K \in SUBSET Int /\ K # {} /\ IsFiniteSet(K)
    <3> DEFINE I == 0..N
    <3>1. IsFiniteSet(I) /\ K \in SUBSET I /\ 0 \in K /\ I \in SUBSET Int
      BY <1>1, FS_Interval
    <3> HIDE DEF K, I
    <3> QED
      BY <3>1, FS_Subset
  <2> HIDE DEF K
  <2> QED
    BY <2>1, FiniteMaximum
<1> HIDE DEF s
<1>3. ASSUME NEW m \in 1..N, NEW n \in 1..N, m < n, s[n] \in P PROVE s[m] \in P
  <2>1. s[m] \in E /\ s[n] \in E /\ <<s[m], s[n]>> \in TimelineOrder(E)
    BY <1>1, <1>3 DEF Lists
  <2>2. Precedes(s[m], s[n])
    BY <2>1 DEF TimelineOrder
  <2> QED
    BY <1>3, <2>1, <2>2 DEF Precedes, Through, Orderly, Worth
<1>4. ASSUME NEW m \in 1..k PROVE s[m] \in P
  <2>1. k # 0 /\ s[k] \in P /\ k \in 1..N /\ m \in 1..N
    BY <1>1, <1>2, <1>4
  <2> HIDE DEF P, K, N
  <2> QED
    BY <1>1, <1>3, <1>4, <2>1
<1>5. ASSUME NEW e \in P PROVE \E m \in 1..k : s[m] = e
  <2>1. e \in E
    BY DEF Through
  <2>2. PICK m \in 1..N : s[m] = e
    BY <1>1, <2>1 DEF Lists
  <2>3. m \in K
    BY <1>1, <1>5, <2>2
  <2> QED
    BY <1>1, <1>2, <2>2, <2>3
<1>6. P = {s[m] : m \in 1..k}
  <2> HIDE DEF P
  <2> QED
    BY <1>4, <1>5
<1> QED
  BY <1>2, <1>6 DEF s

\* Whatever is needed by an instant is held back, ...
LEMMA NeededIsHeld ==
  ASSUME NEW E, Orderly(E), NEW t \in Int
  PROVE  NeededBy(E, t) \in Int /\ NeededBy(E, t) <= Evaluate(E).required
<1>1. PICK k \in 0..Cardinality(E) : Through(E, t) = {InOrder(E)[m] : m \in 1..k}
  BY ThroughIsPrefix
<1>2. Totals(E)[k] \in Int /\ Totals(E)[k] = SumOf(E, {InOrder(E)[m] : m \in 1..k})
  BY Walked DEF SumOf
<1>3. Totals(E)[k] <= Evaluate(E).required
  BY EvaluateShows
<1> QED
  BY <1>1, <1>2, <1>3, NeededIsSum

\* ... and no more than is needed by some row's instant.
LEMMA HeldIsNeeded ==
  ASSUME NEW E, Orderly(E), Evaluate(E).required # 0
  PROVE  \E e \in E : Evaluate(E).required <= NeededBy(E, e.date)
<1> DEFINE s == InOrder(E)
           v == [e \in E |-> Signed(e)]
<1>1. PICK n \in 0..Cardinality(E) : Totals(E)[n] = Evaluate(E).required
  BY EvaluateShows
<1>2. Cardinality(E) \in Nat /\ Lists(s, E, TimelineOrder(E)) /\ n \in 1..Cardinality(E)
  BY <1>1, Walked
<1> HIDE DEF s
<1> DEFINE Q == {s[m] : m \in 1..n}
           t == s[n].date
           P == Through(E, t)
<1>3. s[n] \in E /\ t \in Int
  BY <1>2 DEF Lists, Orderly, Worth
<1>4. Q \subseteq E /\ P \subseteq E
  BY <1>2 DEF Lists, Through
<1>5. \A m \in 1..Cardinality(E) : \A k \in 1..Cardinality(E) : m < k => Precedes(s[m], s[k])
  BY <1>2 DEF Lists, TimelineOrder
<1>6. ASSUME NEW e \in P \ Q PROVE v[e] >= 0
  <2>1. PICK m \in 1..Cardinality(E) : s[m] = e
    BY <1>2, <1>4 DEF Lists
  <2>2. n < m
    BY <1>2, <1>6, <2>1
  <2>3. Precedes(s[n], e)
    BY <1>2, <1>5, <2>1, <2>2
  <2>4. e.direction = "out" /\ e \in E
    BY <1>3, <1>4, <1>6, <2>3 DEF Precedes, Through, Orderly, Worth
  <2> QED
    BY <2>4 DEF Signed, Orderly, Worth
<1>7. ASSUME NEW e \in Q \ P PROVE v[e] <= 0
  <2>1. PICK m \in 1..n : s[m] = e
    BY <1>7
  <2>2. m \in 1..Cardinality(E) /\ (m = n \/ m < n)
    BY <1>2, <2>1
  <2>3. e = s[n] \/ Precedes(e, s[n])
    BY <1>2, <1>5, <2>1, <2>2
  <2>4. e.direction = "in" /\ e \in E
    BY <1>3, <1>4, <1>7, <2>3 DEF Precedes, Through, Orderly, Worth
  <2> QED
    BY <2>4 DEF Signed, Orderly, Worth
<1> HIDE DEF P, Q, t
<1>8. /\ Summands(v, P \cap Q) /\ Summands(v, P \ Q) /\ Summands(v, Q \ P)
      /\ SumFunctionOnSet(v, P \cap Q) \in Int
      /\ SumFunctionOnSet(v, P \ Q) \in Int /\ SumFunctionOnSet(v, Q \ P) \in Int
  <2>1. P \cap Q \in SUBSET E /\ P \ Q \in SUBSET E /\ Q \ P \in SUBSET E
    BY <1>4
  <2> QED
    BY <2>1, SumsOfRows DEF SumOf
<1> DEFINE z == [e \in E |-> 0]
<1>9. /\ \A e \in E : z[e] = 0
      /\ \A S \in SUBSET E : Summands(z, S) /\ SumFunctionOnSet(z, S) = 0
  <2>1. \A e \in E : z[e] = 0
    OBVIOUS
  <2> HIDE DEF z
  <2>2. ASSUME NEW S \in SUBSET E PROVE Summands(z, S) /\ SumFunctionOnSet(z, S) = 0
    <3>1. IsFiniteSet(S)
      BY FS_Subset DEF Orderly
    <3> QED
      BY <2>1, <3>1, SumOfZeros DEF Summands
  <2> QED
    BY <2>1, <2>2
<1> HIDE DEF v, z
<1>10. SumFunctionOnSet(v, P \ Q) >= 0
  <2> DEFINE D == P \ Q
  <2>1. Summands(z, D) /\ SumFunctionOnSet(z, D) = 0 /\ Summands(v, D)
        /\ \A e \in D : z[e] <= v[e]
    <3>1. D \in SUBSET E /\ \A e \in D : v[e] \in Int
      BY <1>4, <1>8 DEF Summands
    <3> QED
      BY <1>6, <1>8, <1>9, <3>1
  <2>2. SumFunctionOnSet(z, D) <= SumFunctionOnSet(v, D)
    <3> HIDE DEF D
    <3> QED
      BY <2>1, SumMonotone
  <2> QED
    BY <1>8, <2>1, <2>2
<1>11. SumFunctionOnSet(v, Q \ P) <= 0
  <2> DEFINE D == Q \ P
  <2>1. Summands(z, D) /\ SumFunctionOnSet(z, D) = 0 /\ Summands(v, D)
        /\ \A e \in D : v[e] <= z[e]
    <3>1. D \in SUBSET E /\ \A e \in D : v[e] \in Int
      BY <1>4, <1>8 DEF Summands
    <3> QED
      BY <1>7, <1>8, <1>9, <3>1
  <2>2. SumFunctionOnSet(v, D) <= SumFunctionOnSet(z, D)
    <3> HIDE DEF D
    <3> QED
      BY <2>1, SumMonotone
  <2> QED
    BY <1>8, <2>1, <2>2
<1>12. /\ SumFunctionOnSet(v, P) = SumFunctionOnSet(v, P \cap Q) + SumFunctionOnSet(v, P \ Q)
       /\ SumFunctionOnSet(v, Q) = SumFunctionOnSet(v, P \cap Q) + SumFunctionOnSet(v, Q \ P)
  <2>1. P = (P \cap Q) \cup (P \ Q) /\ (P \cap Q) \cap (P \ Q) = {}
        /\ Q = (P \cap Q) \cup (Q \ P) /\ (P \cap Q) \cap (Q \ P) = {}
    OBVIOUS
  <2> QED
    BY <1>8, <2>1, SumJoined
<1>13. SumFunctionOnSet(v, Q) = Evaluate(E).required
  BY <1>1, Walked DEF Q, s, v
<1>14. SumFunctionOnSet(v, P) = NeededBy(E, t)
  BY <1>3, NeededIsSum DEF SumOf, v, P, t
<1>15. Evaluate(E).required <= NeededBy(E, t)
  BY <1>8, <1>10, <1>11, <1>12, <1>13, <1>14
<1> QED
  BY <1>3, <1>15 DEF t

\* The figure is the least that keeps checking from going negative.
LEMMA RequiredIsLeast ==
  ASSUME NEW E, Orderly(E)
  PROVE  Evaluate(E).required = Max({0} \cup {NeededBy(E, e.date) : e \in E})
<1> DEFINE S == {0} \cup {NeededBy(E, e.date) : e \in E}
           required == Evaluate(E).required
<1>1. required \in Nat
  BY EvaluateShows
<1>2. \A e \in E : NeededBy(E, e.date) \in Int /\ NeededBy(E, e.date) <= required
  <2>1. \A e \in E : e.date \in Int
    BY DEF Orderly, Worth
  <2> QED
    BY <2>1, NeededIsHeld
<1>3. required # 0 => \E e \in E : required <= NeededBy(E, e.date)
  BY HeldIsNeeded
<1> HIDE DEF required
<1>4. S \in SUBSET Int /\ \A y \in S : y <= required
  BY <1>1, <1>2
<1>5. required \in S
  <2>1. CASE required = 0
    BY <2>1
  <2>2. CASE required # 0
    <3>1. PICK e \in E : required <= NeededBy(E, e.date)
      BY <1>3, <2>2
    <3>2. required = NeededBy(E, e.date)
      BY <1>1, <1>2, <3>1
    <3> QED
      BY <3>2
  <2> QED
    BY <2>1, <2>2
<1>6. Max(S) = required
  <2> HIDE DEF S
  <2> QED
    BY <1>4, <1>5, ExtremeIs
<1> QED
  BY <1>6 DEF required

-----------------------------------------------------------------------------
(* The window of a run. *)

LEMMA Around ==
  ASSUME NEW t \in Instants
  PROVE  \E m \in Months : /\ Within(DayOf(t), m) /\ DayOf(t) \in Nat
                           /\ m - 1 \in Months /\ m + 1 \in Months /\ m + 2 \in Months
<1>1. PICK m \in 2..(Len(MonthLengths) - 2) : DayOf(t) \in MonthRange(m)
  BY InstantsAssumption
<1>2. m \in Months /\ m - 1 \in Months /\ m + 1 \in Months /\ m + 2 \in Months
  BY MonthFollows DEF Months
<1>3. DayOf(t) \in Nat
  BY SweepAssumption DEF DayOf
<1>4. Within(DayOf(t), m)
  BY <1>1, <1>2, <1>3 DEF Within, MonthRange
<1> QED
  BY <1>2, <1>3, <1>4

\* The window opens today and closes before the horizon, which is later.
LEMMA WindowIs ==
  ASSUME NEW t \in Instants
  PROVE  /\ t \in Nat /\ DayOf(t) \in Nat
         /\ HorizonFrom(t) \in Int /\ t <= HorizonFrom(t)
         /\ WindowEnd(t) \in Int /\ DayOf(t) <= WindowEnd(t)
         /\ Midnight(WindowEnd(t)) <= HorizonFrom(t)
<1>1. PICK m \in Months : /\ Within(DayOf(t), m) /\ DayOf(t) \in Nat
                          /\ m - 1 \in Months /\ m + 1 \in Months /\ m + 2 \in Months
  BY Around
<1> DEFINE a == AddMonthsClamped(DayOf(t), 1)
<1>2. Within(a, m + 1)
  BY <1>1, MonthsOn
<1>3. a \in Int /\ DayOf(t) < a
  BY <1>1, <1>2, MonthBounds DEF Within
<1> HIDE DEF a
<1>4. t \in Nat
  BY SweepAssumption
<1>5. HorizonFrom(t) = 2 * a + (t - 2 * (t \div 2))
  BY DEF HorizonFrom, Midnight, StartOfDay, DayOf, a
<1>6. t - 2 * (t \div 2) \in {0, 1}
  BY <1>4
<1>7. WindowEnd(t) = HorizonFrom(t) \div 2 - 1
  BY DEF WindowEnd, DayOf
<1>8. HorizonFrom(t) \div 2 = a
  BY <1>3, <1>5, <1>6
<1> QED
  BY <1>1, <1>3, <1>4, <1>5, <1>6, <1>7, <1>8 DEF DayOf, Midnight

-----------------------------------------------------------------------------
(* The rows of a run's timeline. *)

\* What a run has read has its type.
ReadOK(r) ==
  /\ r.at \in Instants
  /\ DOMAIN r.credit \subseteq Accounts /\ DOMAIN r.items \subseteq Items
  /\ \A a \in DOMAIN r.credit : r.credit[a] \in Rows[a] \ {NoRow}
  /\ \A i \in DOMAIN r.items : r.items[i] \in Declarations[i]

EventsFor(r) == BuildTimeline(CardObligations(r.credit, r.at), r.items, r.settled, r.at)

CardOf(r, a) ==
  [label |-> a, balance |-> r.credit[a].balance, statement |-> StatementFor(r.credit[a])]

\* The card gets a row, and this is it.
Owes(r, a) ==
  /\ a \in DOMAIN r.credit /\ Known(r.credit[a]) /\ ~BalanceStale(r.credit[a], r.at)
  /\ r.credit[a].balance > 0
  /\ StatementFor(r.credit[a]) # Null =>
       /\ StatementFor(r.credit[a]).due <= HorizonFrom(r.at)
       /\ CardAmount(CardOf(r, a)) > 0
CardEvent(r, a) ==
  Event(CardDate(CardOf(r, a), r.at), a, "out", CardAmount(CardOf(r, a)), Null)

\* Event e is the one of occurrence d of item i.
IsOccurrence(e, r, i, d) ==
  /\ r.items[i].amount # Null
  /\ d \in Considered(r.items[i], r.at) /\ <<i, d>> \notin r.settled
  /\ \/ /\ Midnight(d) >= r.at
        /\ e = Event(Midnight(d), i, r.items[i].direction, r.items[i].amount, Null)
     \/ /\ Midnight(d) < r.at /\ r.items[i].direction = "out"
        /\ e = Event(r.at, i, "out", r.items[i].amount, d)

LEMMA ItemTyped ==
  ASSUME NEW r, ReadOK(r), NEW i \in DOMAIN r.items
  PROVE  /\ i \in Items /\ i \in Nat /\ Declared(r.items[i])
         /\ r.items[i].amount \in Nat \cup {Null} /\ r.items[i].direction \in {"out", "in"}
BY SweepAssumption, RowsAssumption DEF ReadOK, Declared

\* The days a run considers are numbers, and finitely many.
LEMMA ConsideredIs ==
  ASSUME NEW r, ReadOK(r), NEW i \in DOMAIN r.items
  PROVE  /\ OneCadenceBefore(r.items[i], DayOf(r.at)) \in Nat
         /\ OneCadenceBefore(r.items[i], DayOf(r.at)) < DayOf(r.at)
         /\ IsFiniteSet(Considered(r.items[i], r.at))
         /\ \A d \in Considered(r.items[i], r.at) : d \in Int /\ d <= WindowEnd(r.at)
<1>1. r.at \in Instants
  BY DEF ReadOK
<1>2. PICK m \in Months : Within(DayOf(r.at), m) /\ m - 1 \in Months
  BY <1>1, Around
<1>3. Declared(r.items[i])
  BY ItemTyped
<1>4. /\ OneCadenceBefore(r.items[i], DayOf(r.at)) \in Nat
      /\ OneCadenceBefore(r.items[i], DayOf(r.at)) < DayOf(r.at)
  BY <1>2, <1>3, OneCadenceBack
<1>5. WindowEnd(r.at) \in Int
  BY <1>1, WindowIs
<1> DEFINE from == OneCadenceBefore(r.items[i], DayOf(r.at))
           to == WindowEnd(r.at)
<1>6. Considered(r.items[i], r.at) = Occurrences(r.items[i], from, to)
  BY DEF Considered, WindowStart
<1>7. /\ Occurrences(r.items[i], from, to) \subseteq from..to
      /\ IsFiniteSet(Occurrences(r.items[i], from, to))
  <2>1. from \in Int /\ to \in Int
    BY <1>4, <1>5
  <2> HIDE DEF from, to
  <2> QED
    BY <2>1, OccurrencesInside
<1> QED
  BY <1>4, <1>5, <1>6, <1>7

\* A statement needs a figure and a date.
LEMMA StatementIs ==
  ASSUME NEW a \in Accounts, NEW row \in Rows[a] \ {NoRow}
  PROVE  /\ PaymentDate(row) \in OptionalInt /\ QualifyingPayment(row.cycle) \in Int
         /\ StatementFor(row) = Null
              <=> ~HasStatement(row) \/ row.cycle.billed = Null \/ PaymentDate(row) = Null
         /\ StatementFor(row) # Null =>
              /\ StatementFor(row).balance = row.cycle.billed /\ row.cycle.billed \in Int
              /\ StatementFor(row).paid = QualifyingPayment(row.cycle)
              /\ StatementFor(row).due = UtcMidnight(PaymentDate(row))
              /\ UtcMidnight(PaymentDate(row)) \in Int
<1>1. /\ row.cycle \in Cycles /\ row.sched.offset \in Nat
      /\ row.cycle.billed \in OptionalInt /\ row.cycle.issued \in OptionalInt
      /\ row.cycle.due \in OptionalInt /\ row.cycle.paid \in OptionalInt
      /\ row.cycle.paidAt \in OptionalInt
  BY RowsAssumption DEF Cycles
<1>2. PaymentDate(row) \in OptionalInt
  BY <1>1 DEF PaymentDate, OptionalInt
<1>3. QualifyingPayment(row.cycle) \in Int
  BY <1>1, TableAssumption DEF QualifyingPayment, OptionalInt
<1> DEFINE st == [balance |-> row.cycle.billed, paid |-> QualifyingPayment(row.cycle),
                  due |-> UtcMidnight(PaymentDate(row))]
           missing == ~HasStatement(row) \/ row.cycle.billed = Null \/ PaymentDate(row) = Null
<1>4. StatementFor(row) = IF missing THEN Null ELSE st
  BY DEF StatementFor
<1>5. ~missing => row.cycle.billed \in Int /\ UtcMidnight(PaymentDate(row)) \in Int
  BY <1>1, <1>2, ZoneAssumption DEF OptionalInt, UtcMidnight, Midnight
<1>6. ~missing => st # Null
  BY <1>3, <1>5, SweepAssumption
<1>7. /\ st.balance = row.cycle.billed /\ st.paid = QualifyingPayment(row.cycle)
      /\ st.due = UtcMidnight(PaymentDate(row))
  OBVIOUS
<1> HIDE DEF st
<1> QED
  BY <1>2, <1>3, <1>4, <1>5, <1>6, <1>7

\* Which rows there are.
LEMMA EventsAre ==
  ASSUME NEW r
  PROVE  EventsFor(r) = {CardEvent(r, a) : a \in {b \in DOMAIN r.credit : Owes(r, b)}}
           \cup UNION {ItemEvents(i, r.items[i], r.settled, r.at) : i \in DOMAIN r.items}
<1>1. CardObligations(r.credit, r.at)
        = {CardOf(r, a) : a \in {b \in DOMAIN r.credit :
                                   Known(r.credit[b]) /\ ~BalanceStale(r.credit[b], r.at)}}
  BY DEF CardObligations, CardOf
<1>2. \A a : /\ CardOf(r, a).label = a
             /\ CardOf(r, a).balance = r.credit[a].balance
             /\ CardOf(r, a).statement = StatementFor(r.credit[a])
  BY DEF CardOf
<1>3. CardEvents(CardObligations(r.credit, r.at), r.at)
        = {CardEvent(r, a) : a \in {b \in DOMAIN r.credit : Owes(r, b)}}
  BY <1>1, <1>2 DEF CardEvents, CardEvent, Owes
<1> QED
  BY <1>3 DEF EventsFor, BuildTimeline

LEMMA ItemEventIs ==
  ASSUME NEW r, NEW i \in DOMAIN r.items, ReadOK(r), NEW e
  PROVE  e \in ItemEvents(i, r.items[i], r.settled, r.at)
           <=> \E d : IsOccurrence(e, r, i, d)
<1> DEFINE item == r.items[i]
           owed == {d \in Considered(item, r.at) : <<i, d>> \notin r.settled}
           past == {d \in owed : Midnight(d) < r.at}
<1>1. \A d \in owed : Midnight(d) \in Int /\ r.at \in Int
  BY ConsideredIs, WindowIs DEF ReadOK, Midnight
<1>2. e \in ItemEvents(i, item, r.settled, r.at)
        <=> /\ item.amount # Null
            /\ \/ \E d \in owed \ past : e = Event(Midnight(d), i, item.direction, item.amount, Null)
               \/ item.direction = "out" /\ \E d \in past : e = Event(r.at, i, "out", item.amount, d)
  BY DEF ItemEvents
<1>3. \A d \in owed : d \notin past <=> Midnight(d) >= r.at
  BY <1>1
<1> QED
  BY <1>2, <1>3 DEF IsOccurrence

\* What a card owes, and when.
LEMMA CardOwes ==
  ASSUME NEW r, ReadOK(r), NEW a, Owes(r, a)
  PROVE  /\ a \in Accounts /\ a \in Nat /\ r.credit[a].balance \in Int
         /\ CardAmount(CardOf(r, a)) \in Nat /\ CardAmount(CardOf(r, a)) > 0
         /\ CardAmount(CardOf(r, a)) <= r.credit[a].balance
         /\ CardDate(CardOf(r, a), r.at) \in r.at..HorizonFrom(r.at)
<1> DEFINE row == r.credit[a]
           st == StatementFor(row)
           card == CardOf(r, a)
<1>1. a \in Accounts /\ row \in Rows[a] \ {NoRow} /\ r.at \in Instants /\ a \in Nat
  BY SweepAssumption DEF Owes, ReadOK
<1>2. row.balance \in Int /\ row.balance > 0
  BY <1>1, RowsAssumption DEF Owes, Known, OptionalInt
<1>3. card.balance = row.balance /\ card.statement = st
  BY DEF CardOf
<1>4. r.at \in Int /\ HorizonFrom(r.at) \in Int /\ r.at <= HorizonFrom(r.at)
  BY <1>1, WindowIs
<1> HIDE DEF row, st, card
<1>5. CASE st = Null
  <2>1. CardAmount(card) = row.balance /\ CardDate(card, r.at) = r.at
    BY <1>3, <1>5 DEF CardAmount, CardDate
  <2> QED
    BY <1>1, <1>2, <1>4, <2>1 DEF row, card
<1>6. CASE st # Null
  <2>1. st.balance \in Int /\ st.paid \in Int /\ st.due \in Int
    BY <1>1, <1>6, StatementIs DEF row, st
  <2>2. st.due <= HorizonFrom(r.at) /\ CardAmount(card) > 0
    BY <1>6 DEF Owes, st, row, card
  <2> DEFINE owed == st.balance - st.paid
  <2>3. owed \in Int
    BY <2>1
  <2>4. CardAmount(card) = Min({owed, row.balance}) /\ CardDate(card, r.at) = Max({st.due, r.at})
    BY <1>3, <1>6 DEF CardAmount, CardDate
  <2> HIDE DEF owed
  <2>5. CardAmount(card) = IF owed <= row.balance THEN owed ELSE row.balance
    BY <1>2, <2>3, <2>4, TwoNumbers
  <2>6. CardDate(card, r.at) = IF st.due <= r.at THEN r.at ELSE st.due
    BY <1>4, <2>1, <2>4, TwoNumbers
  <2>7. CardAmount(card) \in Nat /\ CardAmount(card) <= row.balance
    BY <1>2, <2>2, <2>3, <2>5
  <2>8. CardDate(card, r.at) \in r.at..HorizonFrom(r.at)
    BY <1>4, <2>1, <2>2, <2>6
  <2> QED
    BY <1>1, <1>2, <2>2, <2>7, <2>8 DEF row, card
<1> QED
  BY <1>5, <1>6

LEMMA RowIs ==
  ASSUME NEW r, ReadOK(r), NEW e
  PROVE  e \in EventsFor(r)
           <=> \/ \E a \in DOMAIN r.credit : Owes(r, a) /\ e = CardEvent(r, a)
               \/ \E i \in DOMAIN r.items : \E d : IsOccurrence(e, r, i, d)
<1>1. e \in EventsFor(r)
        <=> \/ \E a \in DOMAIN r.credit : Owes(r, a) /\ e = CardEvent(r, a)
            \/ \E i \in DOMAIN r.items : e \in ItemEvents(i, r.items[i], r.settled, r.at)
  BY EventsAre
<1> QED
  BY <1>1, ItemEventIs

\* Every row lies in the window and has its type.
LEMMA RowTyped ==
  ASSUME NEW r, ReadOK(r), NEW e \in EventsFor(r)
  PROVE  /\ e.date \in r.at..HorizonFrom(r.at) /\ e.date \in Int /\ e.amount \in Nat
         /\ e.direction \in {"in", "out"} /\ e.label \in Nat /\ e.dueOn \in Int \cup {Null}
<1>1. r.at \in Int /\ HorizonFrom(r.at) \in Int /\ r.at <= HorizonFrom(r.at)
      /\ WindowEnd(r.at) \in Int /\ Midnight(WindowEnd(r.at)) <= HorizonFrom(r.at)
  BY WindowIs DEF ReadOK
<1>2. ASSUME NEW a \in DOMAIN r.credit, Owes(r, a), e = CardEvent(r, a)
      PROVE  /\ e.date \in r.at..HorizonFrom(r.at) /\ e.amount \in Nat
             /\ e.direction \in {"in", "out"} /\ e.label \in Nat /\ e.dueOn \in Int \cup {Null}
  <2>1. /\ a \in Nat /\ CardAmount(CardOf(r, a)) \in Nat
        /\ CardDate(CardOf(r, a), r.at) \in r.at..HorizonFrom(r.at)
    BY <1>2, CardOwes
  <2> QED
    BY <1>2, <2>1 DEF CardEvent, Event
<1>3. ASSUME NEW i \in DOMAIN r.items, NEW d, IsOccurrence(e, r, i, d)
      PROVE  /\ e.date \in r.at..HorizonFrom(r.at) /\ e.amount \in Nat
             /\ e.direction \in {"in", "out"} /\ e.label \in Nat /\ e.dueOn \in Int \cup {Null}
  <2>1. /\ i \in Nat /\ r.items[i].amount \in Nat /\ r.items[i].direction \in {"out", "in"}
    BY <1>3, ItemTyped DEF IsOccurrence
  <2>2. d \in Int /\ d <= WindowEnd(r.at)
    BY <1>3, ConsideredIs DEF IsOccurrence
  <2>3. Midnight(d) \in Int /\ Midnight(d) <= HorizonFrom(r.at)
    BY <1>1, <2>2 DEF Midnight
  <2>4. CASE e = Event(Midnight(d), i, r.items[i].direction, r.items[i].amount, Null) /\ Midnight(d) >= r.at
    BY <1>1, <2>1, <2>3, <2>4 DEF Event
  <2>5. CASE e = Event(r.at, i, "out", r.items[i].amount, d)
    BY <1>1, <2>1, <2>2, <2>5 DEF Event
  <2> QED
    BY <1>3, <2>4, <2>5 DEF IsOccurrence
<1>4. /\ e.date \in r.at..HorizonFrom(r.at) /\ e.amount \in Nat
      /\ e.direction \in {"in", "out"} /\ e.label \in Nat /\ e.dueOn \in Int \cup {Null}
  BY <1>2, <1>3, RowIs
<1> QED
  BY <1>1, <1>4

\* A card has one row, an item one for each date and direction, a past date named.
LEMMA RowsAgree ==
  ASSUME NEW r, ReadOK(r), NEW e \in EventsFor(r), NEW f \in EventsFor(r),
         e.date = f.date, e.direction = f.direction, e.label = f.label, e.dueOn = f.dueOn
  PROVE  e = f
<1>1. /\ \A a : CardEvent(r, a).label = a
      /\ \A x, i, d : IsOccurrence(x, r, i, d) =>
           x.label = i /\ x = Event(x.date, i, x.direction, r.items[i].amount, x.dueOn)
  BY DEF CardEvent, Event, IsOccurrence
<1>2. \A a \in DOMAIN r.credit : \A i \in DOMAIN r.items : a # i
  BY SweepAssumption DEF ReadOK
<1>3. CASE \E a \in DOMAIN r.credit : Owes(r, a) /\ e = CardEvent(r, a)
  BY <1>1, <1>2, <1>3, RowIs
<1>4. CASE \E i \in DOMAIN r.items : \E d : IsOccurrence(e, r, i, d)
  <2>1. PICK i \in DOMAIN r.items : \E d : IsOccurrence(e, r, i, d)
    BY <1>4
  <2>2. e.label = i /\ e = Event(e.date, i, e.direction, r.items[i].amount, e.dueOn)
    BY <1>1, <2>1
  <2>3. \E j \in DOMAIN r.items : \E d : IsOccurrence(f, r, j, d)
    <3>1. ASSUME NEW a \in DOMAIN r.credit, f = CardEvent(r, a) PROVE FALSE
      BY <1>1, <1>2, <2>2, <3>1
    <3> QED
      BY <3>1, RowIs
  <2>4. f = Event(f.date, i, f.direction, r.items[i].amount, f.dueOn)
    BY <1>1, <2>2, <2>3
  <2> QED
    BY <2>2, <2>4
<1> QED
  BY <1>3, <1>4, RowIs

\* The rows of a timeline are finitely many, and their order tells them apart.
LEMMA RowsOrderly ==
  ASSUME NEW r, ReadOK(r), IsFiniteSet(DOMAIN r.credit), IsFiniteSet(DOMAIN r.items)
  PROVE  Orderly(EventsFor(r))
<1> DEFINE E == EventsFor(r)
           C == {a \in DOMAIN r.credit : Owes(r, a)}
           I == DOMAIN r.items
           card == [a \in C |-> CardEvent(r, a)]
           rows == [i \in I |-> ItemEvents(i, r.items[i], r.settled, r.at)]
<1>1. IsFiniteSet({CardEvent(r, a) : a \in C})
  <2>1. IsFiniteSet(C)
    BY FS_Subset
  <2>2. {CardEvent(r, a) : a \in C} = {card[a] : a \in C}
    OBVIOUS
  <2> HIDE DEF C, card
  <2>3. IsFiniteSet({card[a] : a \in C})
    BY <2>1, FiniteImage
  <2> QED
    BY <2>2, <2>3
<1>2. ASSUME NEW i \in I PROVE IsFiniteSet(rows[i])
  <2> DEFINE item == r.items[i]
             D == Considered(item, r.at)
             ahead == [d \in D |-> Event(Midnight(d), i, item.direction, item.amount, Null)]
             behind == [d \in D |-> Event(r.at, i, "out", item.amount, d)]
             all == {ahead[d] : d \in D} \cup {behind[d] : d \in D}
  <2>1. IsFiniteSet(D)
    BY ConsideredIs
  <2>2. \A e \in rows[i] : \E d \in D : e = ahead[d] \/ e = behind[d]
    <3>1. ASSUME NEW e \in rows[i] PROVE \E d \in D : e = ahead[d] \/ e = behind[d]
      <4>1. \E d : IsOccurrence(e, r, i, d)
        BY ItemEventIs
      <4> QED
        BY <4>1 DEF IsOccurrence
    <3> QED
      BY <3>1
  <2>3. rows[i] \in SUBSET all
    <3> HIDE DEF rows, ahead, behind, D
    <3> QED
      BY <2>2
  <2> HIDE DEF rows, ahead, behind, D
  <2>4. IsFiniteSet({ahead[d] : d \in D}) /\ IsFiniteSet({behind[d] : d \in D})
    BY <2>1, FiniteImage
  <2>5. IsFiniteSet(all)
    BY <2>4, FS_Union
  <2> HIDE DEF all
  <2> QED
    BY <2>3, <2>5, FS_Subset
<1>3. IsFiniteSet(UNION {rows[i] : i \in I})
  <2> HIDE DEF rows
  <2> DEFINE R == {rows[i] : i \in I}
  <2>1. IsFiniteSet(R)
    <3> HIDE DEF I
    <3> QED
      BY FiniteImage DEF I
  <2>2. \A S \in R : IsFiniteSet(S)
    BY <1>2
  <2> HIDE DEF R
  <2> QED
    BY <2>1, <2>2, FS_UNION DEF R
<1>4. E = {CardEvent(r, a) : a \in C} \cup UNION {rows[i] : i \in I}
  BY EventsAre
<1>5. IsFiniteSet(E)
  <2> HIDE DEF E, C, rows, I
  <2> QED
    BY <1>1, <1>3, <1>4, FS_Union
<1>6. \A e \in E : /\ e.date \in Int /\ e.amount \in Nat /\ e.direction \in {"in", "out"}
                   /\ e.label \in Nat /\ e.dueOn \in Int \cup {Null}
  BY RowTyped
<1>7. \A e, f \in E : e.date = f.date /\ e.direction = f.direction /\ e.label = f.label
                        /\ e.dueOn = f.dueOn => e = f
  BY RowsAgree
<1> HIDE DEF E
<1>8. Null \notin Int
  BY TableAssumption
<1>9. ASSUME NEW e \in E PROVE ~Precedes(e, e)
  BY <1>6, <1>8 DEF Precedes, Appended
<1>10. ASSUME NEW e \in E, NEW f \in E, e # f PROVE Precedes(e, f) \/ Precedes(f, e)
  <2>1. CASE e.date # f.date
    BY <1>6, <2>1 DEF Precedes
  <2>2. CASE e.date = f.date /\ e.direction # f.direction
    BY <1>6, <2>2 DEF Precedes
  <2>3. CASE e.date = f.date /\ e.direction = f.direction /\ e.label # f.label
    BY <1>6, <2>3 DEF Precedes, Appended
  <2>4. CASE e.date = f.date /\ e.direction = f.direction /\ e.label = f.label
    BY <1>6, <1>7, <1>8, <1>10, <2>4 DEF Precedes, Appended
  <2> QED
    BY <2>1, <2>2, <2>3, <2>4
<1>11. ASSUME NEW e \in E, NEW f \in E, NEW g \in E, Precedes(e, f), Precedes(f, g)
       PROVE  Precedes(e, g)
  <2>1. e.date <= f.date /\ f.date <= g.date
    BY <1>6, <1>11 DEF Precedes
  <2>2. CASE e.date < g.date
    BY <2>2 DEF Precedes
  <2>3. CASE e.date = g.date
    <3>1. e.date = f.date /\ f.date = g.date
      BY <1>6, <2>1, <2>3
    <3>2. CASE e.direction # g.direction
      BY <1>6, <1>11, <3>1, <3>2 DEF Precedes
    <3>3. CASE e.direction = g.direction
      <4>1. e.direction = f.direction /\ Appended(e, f) /\ Appended(f, g)
        BY <1>6, <1>11, <3>1, <3>3 DEF Precedes
      <4>2. Appended(e, g)
        BY <1>6, <1>8, <4>1 DEF Appended
      <4> QED
        BY <2>3, <3>3, <4>2 DEF Precedes
    <3> QED
      BY <3>2, <3>3
  <2> QED
    BY <1>6, <2>1, <2>2, <2>3
<1>12. Orders(TimelineOrder(E), E)
  BY <1>9, <1>10, <1>11 DEF Orders, TimelineOrder
<1> QED
  BY <1>5, <1>6, <1>12 DEF Orderly, Worth, E

\* The rows of the timeline are the events it was built of.
LEMMA TimelineHolds ==
  ASSUME NEW E, Orderly(E)
  PROVE  {Evaluate(E).timeline[n].event : n \in DOMAIN Evaluate(E).timeline} = E
<1> DEFINE N == Cardinality(E)
           s == InOrder(E)
           T == Evaluate(E).timeline
<1>1. DOMAIN T = 1..N /\ \A n \in 1..N : T[n].event = s[n]
  BY EvaluateShows
<1>2. (\A n \in 1..N : s[n] \in E) /\ \A e \in E : \E n \in 1..N : s[n] = e
  BY Walked DEF Lists
<1> HIDE DEF N, s, T
<1>3. {T[n].event : n \in DOMAIN T} = E
  BY <1>1, <1>2
<1> QED
  BY <1>3 DEF T

-----------------------------------------------------------------------------
(* What is stored. *)

ReadFields == {"at", "cash", "credit", "items", "settled"}

\* The recommendation was computed from what its run has read.
ComputedFrom(rec, r) ==
  /\ ReadOK(r) /\ DOMAIN r = ReadFields
  /\ \E m : rec = Compute(r.cash, r.credit, r.items, r.settled, m, r.at)

\* A stored number is the figure of the run's own timeline.
LEMMA NumberIs ==
  ASSUME NEW rec, NEW r, ComputedFrom(rec, r)
  PROVE  /\ rec.at = r.at /\ r.at \in Instants /\ r.at \in Nat
         /\ IsFiniteSet(DOMAIN r.credit) /\ IsFiniteSet(DOMAIN r.items)
         /\ Orderly(EventsFor(r))
         /\ rec.kind = "numeric" =>
              /\ rec.required = Evaluate(EventsFor(r)).required
              /\ rec.timeline = Evaluate(EventsFor(r)).timeline
              /\ EventsOf(rec) = EventsFor(r)
<1> DEFINE figure == Evaluate(BuildTimeline(CardObligations(r.credit, r.at), r.items, r.settled, r.at))
           checking == r.cash[DeriveChecking(r.cash, DOMAIN r.cash)].balance
           suggested(m) == checking - figure.required - m
           full(m) == [kind |-> "numeric", at |-> r.at, checking |-> checking,
                    savings |-> SavingsBalance(r.cash, r.at), timeline |-> figure.timeline,
                    required |-> figure.required, margin |-> m, suggested |-> suggested(m),
                    direction |-> DirectionOf(suggested(m))]
           short == [kind |-> "needs_attention", at |-> r.at,
                     reasons |-> Reasons(r.cash, r.credit, r.at)]
<1>1. PICK m : rec = Compute(r.cash, r.credit, r.items, r.settled, m, r.at)
  BY DEF ComputedFrom
<1>2. rec = full(m) \/ rec = short
  BY <1>1, Zenon DEF Compute
<1>3. /\ full(m).kind = "numeric" /\ full(m).at = r.at /\ full(m).required = figure.required
      /\ full(m).timeline = figure.timeline
      /\ short.kind = "needs_attention" /\ short.at = r.at
  OBVIOUS
<1>4. figure = Evaluate(EventsFor(r))
  BY DEF EventsFor
<1>5. r.at \in Instants /\ r.at \in Nat
  BY SweepAssumption DEF ComputedFrom, ReadOK
<1>6. IsFiniteSet(DOMAIN r.credit) /\ IsFiniteSet(DOMAIN r.items)
  BY SweepAssumption, FS_Subset DEF ComputedFrom, ReadOK
<1>7. Orderly(EventsFor(r))
  BY <1>6, RowsOrderly DEF ComputedFrom
<1>8. {Evaluate(EventsFor(r)).timeline[n].event : n \in DOMAIN Evaluate(EventsFor(r)).timeline}
        = EventsFor(r)
  BY <1>7, TimelineHolds
<1> HIDE DEF full, short, figure
<1>9. rec.at = r.at
  BY <1>2, <1>3
<1>10. rec.kind = "numeric" => rec = full(m)
  BY <1>2, <1>3
<1>11. rec.kind = "numeric" => rec.required = Evaluate(EventsFor(r)).required
                               /\ rec.timeline = Evaluate(EventsFor(r)).timeline
  BY <1>3, <1>4, <1>10
<1> QED
  BY <1>5, <1>6, <1>7, <1>8, <1>9, <1>11 DEF EventsOf

-----------------------------------------------------------------------------
(* The history. *)

IsSequence(s) == \E S : s \in Seq(S)

LEMMA AppendedTo ==
  ASSUME NEW s, IsSequence(s), NEW e
  PROVE  /\ Len(s) \in Nat /\ DOMAIN s = 1..Len(s)
         /\ IsSequence(Append(s, e))
         /\ Len(Append(s, e)) = Len(s) + 1
         /\ DOMAIN Append(s, e) = 1..(Len(s) + 1)
         /\ \A n \in 1..Len(s) : Append(s, e)[n] = s[n]
         /\ Append(s, e)[Len(s) + 1] = e
<1>1. PICK S : s \in Seq(S)
  BY DEF IsSequence
<1> DEFINE T == S \cup {e}
<1>2. s \in Seq(T) /\ e \in T
  <2>1. PICK n \in Nat : s \in [1..n -> S]
    BY <1>1, SeqDef
  <2>2. s \in [1..n -> T]
    BY <2>1
  <2> QED
    BY <2>2, SeqDef
<1> HIDE DEF T
<1>3. Append(s, e) \in Seq(T)
  BY <1>2, AppendProperties
<1>4. Len(s) \in Nat /\ DOMAIN s = 1..Len(s) /\ Len(Append(s, e)) = Len(s) + 1
  BY <1>2, LenProperties, AppendProperties
<1>5. DOMAIN Append(s, e) = 1..Len(Append(s, e))
  BY <1>3, LenProperties
<1>6. /\ \A n \in 1..Len(s) : Append(s, e)[n] = s[n]
      /\ Append(s, e)[Len(s) + 1] = e
  BY <1>2, AppendProperties
<1> QED
  BY <1>3, <1>4, <1>5, <1>6 DEF IsSequence

-----------------------------------------------------------------------------
(* What holds throughout. *)

CreditRows(c) == DOMAIN c \subseteq Accounts /\ \A a \in DOMAIN c : c[a] \in Rows[a] \ {NoRow}
ItemRows(c) == DOMAIN c \subseteq Items /\ \A i \in DOMAIN c : c[i] \in Declarations[i]

Tables ==
  /\ now \in Instants
  /\ DOMAIN table = Accounts /\ \A a \in Accounts : table[a] \in Rows[a]
  /\ DOMAIN items = Items /\ \A i \in Items : items[i] \in Declarations[i]

Controls ==
  /\ pc \in [Runs -> {"idle", "credit", "items", "settled", "margin", "save", "show"}]
  /\ DOMAIN reads = Runs /\ \A p \in Runs : DOMAIN reads[p] = ReadFields
  /\ DOMAIN page = {"asked", "view", "status", "overdue", "read"}

\* A run has read what the step it is at comes after.
ReadSoFar ==
  \A p \in Runs :
    /\ pc[p] \in {"credit", "items", "settled", "save"} => reads[p].at \in Instants
    /\ pc[p] \in {"items", "settled", "save"} => CreditRows(reads[p].credit)
    /\ pc[p] \in {"settled", "save"} => ItemRows(reads[p].items)

HistoryOK ==
  /\ IsSequence(history) /\ IsSequence(inputs) /\ Len(inputs) = Len(history)
  /\ \A n \in 1..Len(history) : ComputedFrom(history[n], inputs[n])

Base == Tables /\ Controls /\ ReadSoFar /\ HistoryOK

\* A run's own step changes what it has read, and nobody else's.
LEMMA OnlyOwnReads ==
  ASSUME Controls, ReadSoFar, NEW p \in Runs, Controls',
         \A q \in Runs \ {p} : pc'[q] = pc[q] /\ reads'[q] = reads[q],
         pc'[p] \in {"credit", "items", "settled", "save"} => reads'[p].at \in Instants,
         pc'[p] \in {"items", "settled", "save"} => CreditRows(reads'[p].credit),
         pc'[p] \in {"settled", "save"} => ItemRows(reads'[p].items)
  PROVE  ReadSoFar'
<1> SUFFICES ASSUME NEW q \in Runs
             PROVE /\ pc'[q] \in {"credit", "items", "settled", "save"} => reads'[q].at \in Instants
                   /\ pc'[q] \in {"items", "settled", "save"} => CreditRows(reads'[q].credit)
                   /\ pc'[q] \in {"settled", "save"} => ItemRows(reads'[q].items)
  BY DEF ReadSoFar, CreditRows, ItemRows
<1>1. CASE q = p
  BY <1>1
<1>2. CASE q # p
  BY <1>2 DEF ReadSoFar
<1> QED
  BY <1>1, <1>2

LEMMA BaseInit == Init => Base
<1> SUFFICES ASSUME Init PROVE Base
  OBVIOUS
<1>1. Tables
  BY DEF Init, Tables
<1>2. Controls
  BY DEF Init, Controls, NothingRead, ReadFields, Unasked
<1>3. ReadSoFar
  BY DEF Init, ReadSoFar
<1>4. HistoryOK
  <2>1. history = << >> /\ inputs = << >> /\ << >> \in Seq({}) /\ Len(<< >>) = 0
    BY EmptySeq DEF Init
  <2> QED
    BY <2>1 DEF HistoryOK, IsSequence
<1> QED
  BY <1>1, <1>2, <1>3, <1>4 DEF Base

\* The steps of a run.
LEMMA BaseStart ==
  ASSUME Base, NEW p \in Runs, StartRun(p)
  PROVE  Base'
<1> USE DEF Base
<1>1. Tables'
  BY DEF StartRun, external, matches, Tables
<1>2. HistoryOK'
  BY DEF StartRun, stored, HistoryOK
<1>3. Controls'
  BY DEF StartRun, Goto, Controls
<1>4. ReadSoFar'
  <2>1. \A q \in Runs \ {p} : pc'[q] = pc[q] /\ reads'[q] = reads[q]
    BY DEF StartRun, Goto, Controls
  <2>2. pc'[p] = "credit" /\ reads'[p].at = now
    BY DEF StartRun, Goto, Controls, ReadFields
  <2> QED
    BY <1>3, <2>1, <2>2, OnlyOwnReads DEF Tables
<1> QED
  BY <1>1, <1>2, <1>3, <1>4

LEMMA BaseReadCredit ==
  ASSUME Base, NEW p \in Runs, ReadCredit(p)
  PROVE  Base'
<1> USE DEF Base
<1>1. Tables'
  BY DEF ReadCredit, external, matches, Tables
<1>2. HistoryOK'
  BY DEF ReadCredit, stored, HistoryOK
<1>3. Controls'
  BY DEF ReadCredit, Goto, Controls
<1>4. ReadSoFar'
  <2>1. \A q \in Runs \ {p} : pc'[q] = pc[q] /\ reads'[q] = reads[q]
    BY DEF ReadCredit, Goto, Controls
  <2> DEFINE c == RowsOf(ActiveCreditAccounts(table))
  <2>2. pc'[p] = "items" /\ reads'[p].at = reads[p].at /\ reads'[p].credit = c
    BY DEF ReadCredit, Goto, Controls, ReadFields
  <2>3. reads[p].at \in Instants
    BY DEF ReadCredit, ReadSoFar
  <2>4. CreditRows(c)
    BY DEF Tables, CreditRows, RowsOf, ActiveCreditAccounts, Active, Stored
  <2> HIDE DEF c
  <2> QED
    BY <1>3, <2>1, <2>2, <2>3, <2>4, OnlyOwnReads
<1> QED
  BY <1>1, <1>2, <1>3, <1>4

LEMMA BaseReadItems ==
  ASSUME Base, NEW p \in Runs, ReadItems(p)
  PROVE  Base'
<1> USE DEF Base
<1>1. Tables'
  BY DEF ReadItems, external, matches, Tables
<1>2. HistoryOK'
  BY DEF ReadItems, stored, HistoryOK
<1>3. Controls'
  BY DEF ReadItems, Goto, Controls
<1>4. ReadSoFar'
  <2>1. \A q \in Runs \ {p} : pc'[q] = pc[q] /\ reads'[q] = reads[q]
    BY DEF ReadItems, Goto, Controls
  <2> DEFINE c == ActiveItems(items)
  <2>2. /\ pc'[p] = "settled" /\ reads'[p].at = reads[p].at
        /\ reads'[p].credit = reads[p].credit /\ reads'[p].items = c
    BY DEF ReadItems, Goto, Controls, ReadFields
  <2>3. reads[p].at \in Instants /\ CreditRows(reads[p].credit)
    BY DEF ReadItems, ReadSoFar
  <2>4. ItemRows(c)
    BY DEF Tables, ItemRows, ActiveItems
  <2> HIDE DEF c
  <2> QED
    BY <1>3, <2>1, <2>2, <2>3, <2>4, OnlyOwnReads
<1> QED
  BY <1>1, <1>2, <1>3, <1>4

LEMMA BaseReadSettled ==
  ASSUME Base, NEW p \in Runs, ReadSettled(p)
  PROVE  Base'
<1> USE DEF Base
<1>1. Tables'
  BY DEF ReadSettled, external, matches, Tables
<1>2. HistoryOK'
  BY DEF ReadSettled, stored, HistoryOK
<1>0. PICK s : reads' = [reads EXCEPT ![p].settled = s]
  BY DEF ReadSettled
<1>3. Controls'
  BY <1>0 DEF ReadSettled, Goto, Controls
<1>4. ReadSoFar'
  <2>1. \A q \in Runs \ {p} : pc'[q] = pc[q] /\ reads'[q] = reads[q]
    BY <1>0 DEF ReadSettled, Goto, Controls
  <2>2. /\ pc'[p] = "save" /\ reads'[p].at = reads[p].at
        /\ reads'[p].credit = reads[p].credit /\ reads'[p].items = reads[p].items
    BY <1>0 DEF ReadSettled, Goto, Controls, ReadFields
  <2>3. reads[p].at \in Instants /\ CreditRows(reads[p].credit) /\ ItemRows(reads[p].items)
    BY DEF ReadSettled, ReadSoFar
  <2> QED
    BY <1>3, <2>1, <2>2, <2>3, OnlyOwnReads
<1> QED
  BY <1>1, <1>2, <1>3, <1>4

\* A run that stops, or only shows what it has stored, has nothing more to answer for.
LEMMA Finished ==
  ASSUME Controls, NEW p \in Runs,
         \/ Idle(p)
         \/ Goto(p, "show") /\ reads' = reads
  PROVE  /\ pc' \in [Runs -> {"idle", "credit", "items", "settled", "margin", "save", "show"}]
         /\ DOMAIN reads' = Runs /\ \A q \in Runs : DOMAIN reads'[q] = ReadFields
         /\ \A q \in Runs \ {p} : pc'[q] = pc[q] /\ reads'[q] = reads[q]
         /\ pc'[p] \in {"idle", "show"}
<1>1. CASE Idle(p)
  BY <1>1 DEF Idle, Goto, Controls, NothingRead, ReadFields
<1>2. CASE Goto(p, "show") /\ reads' = reads
  BY <1>2 DEF Goto, Controls
<1> QED
  BY <1>1, <1>2

\* What Save appends was computed from what the run has read.
LEMMA Appends ==
  ASSUME Base, NEW p \in Runs, Save(p)
  PROVE  /\ Len(history) \in Nat /\ Len(history') = Len(history) + 1
         /\ DOMAIN history = 1..Len(history) /\ DOMAIN history' = 1..(Len(history) + 1)
         /\ \A n \in 1..Len(history) : history'[n] = history[n] /\ inputs'[n] = inputs[n]
         /\ DOMAIN inputs = DOMAIN history /\ DOMAIN inputs' = DOMAIN history'
         /\ HistoryOK'
<1> DEFINE r == reads[p]
           rec == Compute(r.cash, r.credit, r.items, r.settled, margin, r.at)
<1>1. history' = Append(history, rec) /\ inputs' = Append(inputs, r)
  BY DEF Save
<1>2. ComputedFrom(rec, r)
  BY DEF Save, Base, ReadSoFar, Controls, ComputedFrom, ReadOK, CreditRows, ItemRows
<1> HIDE DEF r, rec
<1>3. IsSequence(history) /\ IsSequence(inputs) /\ Len(inputs) = Len(history)
  BY DEF Base, HistoryOK
<1>4. /\ Len(history) \in Nat /\ DOMAIN history = 1..Len(history)
      /\ IsSequence(history') /\ Len(history') = Len(history) + 1
      /\ DOMAIN history' = 1..(Len(history) + 1)
      /\ \A n \in 1..Len(history) : history'[n] = history[n]
      /\ history'[Len(history) + 1] = rec
  BY <1>1, <1>3, AppendedTo
<1>5. /\ DOMAIN inputs = 1..Len(history)
      /\ IsSequence(inputs') /\ Len(inputs') = Len(history) + 1
      /\ DOMAIN inputs' = 1..(Len(history) + 1)
      /\ \A n \in 1..Len(history) : inputs'[n] = inputs[n]
      /\ inputs'[Len(history) + 1] = r
  BY <1>1, <1>3, AppendedTo
<1>6. ASSUME NEW n \in 1..Len(history') PROVE ComputedFrom(history'[n], inputs'[n])
  <2>1. n \in 1..Len(history) \/ n = Len(history) + 1
    BY <1>4
  <2>2. CASE n \in 1..Len(history)
    BY <1>4, <1>5, <2>2 DEF Base, HistoryOK
  <2>3. CASE n = Len(history) + 1
    BY <1>2, <1>4, <1>5, <2>3
  <2> QED
    BY <2>1, <2>2, <2>3
<1>7. HistoryOK'
  BY <1>4, <1>5, <1>6 DEF HistoryOK, IsSequence, ComputedFrom, ReadOK
<1> QED
  BY <1>4, <1>5, <1>7

LEMMA BaseSave ==
  ASSUME Base, NEW p \in Runs, Save(p)
  PROVE  Base'
<1> USE DEF Base
<1>1. Tables'
  BY DEF Save, external, matches, Tables
<1>2. HistoryOK'
  BY Appends
<1>0. Idle(p) \/ (Goto(p, "show") /\ reads' = reads)
  BY DEF Save
<1>3. Controls'
  <2>1. DOMAIN page' = DOMAIN page
    BY DEF Save
  <2> QED
    BY <1>0, <2>1, Finished DEF Controls
<1>4. ReadSoFar'
  <2>1. /\ \A q \in Runs \ {p} : pc'[q] = pc[q] /\ reads'[q] = reads[q]
        /\ pc'[p] \in {"idle", "show"}
    BY <1>0, Finished
  <2> QED
    BY <1>3, <2>1, OnlyOwnReads
<1> QED
  BY <1>1, <1>2, <1>3, <1>4

LEMMA BaseFail ==
  ASSUME Base, NEW p \in Runs, FailRun(p)
  PROVE  Base'
<1> USE DEF Base
<1>1. Tables'
  BY DEF FailRun, external, matches, Tables
<1>2. HistoryOK'
  BY DEF FailRun, stored, HistoryOK
<1>0. Idle(p) \/ (Goto(p, "show") /\ reads' = reads)
  BY DEF FailRun
<1>3. Controls'
  <2>1. DOMAIN page' = DOMAIN page
    BY DEF FailRun
  <2> QED
    BY <1>0, <2>1, Finished DEF Controls
<1>4. ReadSoFar'
  <2>1. /\ \A q \in Runs \ {p} : pc'[q] = pc[q] /\ reads'[q] = reads[q]
        /\ pc'[p] \in {"idle", "show"}
    BY <1>0, Finished
  <2> QED
    BY <1>3, <2>1, OnlyOwnReads
<1> QED
  BY <1>1, <1>2, <1>3, <1>4

LEMMA BaseRegion ==
  ASSUME Base, NEW p \in Runs, RenderRegion(p)
  PROVE  Base'
<1> USE DEF Base
<1>1. Tables'
  BY DEF RenderRegion, external, matches, Tables
<1>2. HistoryOK'
  BY DEF RenderRegion, stored, HistoryOK
<1>0. Idle(p)
  BY DEF RenderRegion
<1>3. Controls'
  <2>1. DOMAIN page' = DOMAIN page
    BY DEF RenderRegion
  <2> QED
    BY <1>0, <2>1, Finished DEF Controls
<1>4. ReadSoFar'
  <2>1. /\ \A q \in Runs \ {p} : pc'[q] = pc[q] /\ reads'[q] = reads[q]
        /\ pc'[p] \in {"idle", "show"}
    BY <1>0, Finished
  <2> QED
    BY <1>3, <2>1, OnlyOwnReads
<1> QED
  BY <1>1, <1>2, <1>3, <1>4

\* The steps of everybody else.
LEMMA BaseOthers ==
  ASSUME Base, \/ RenderSnapshot \/ PostSafetyMargin
               \/ TimePasses \/ AccountsChange \/ ScheduleChanges
               \/ AttachScheduleItem \/ ClearOccurrence \/ ResolveMatches
               \/ UNCHANGED vars
  PROVE  Base' /\ pc' = pc /\ reads' = reads /\ history' = history /\ inputs' = inputs
<1> USE DEF Base
<1>1. pc' = pc /\ reads' = reads /\ history' = history /\ inputs' = inputs
  BY DEF RenderSnapshot, PostSafetyMargin, TimePasses, AccountsChange, ScheduleChanges,
         AttachScheduleItem, ClearOccurrence, ResolveMatches, stored, vars
<1>2. HistoryOK' /\ ReadSoFar'
  BY <1>1 DEF HistoryOK, ReadSoFar
<1>3. DOMAIN page' = {"asked", "view", "status", "overdue", "read"}
  <2>1. CASE RenderSnapshot
    BY <2>1 DEF RenderSnapshot
  <2>2. CASE ~RenderSnapshot
    BY <2>2 DEF Controls, PostSafetyMargin, TimePasses, AccountsChange, ScheduleChanges,
         AttachScheduleItem, ClearOccurrence, ResolveMatches, vars
  <2> QED
    BY <2>1, <2>2
<1>4. Controls'
  BY <1>1, <1>3 DEF Controls
<1>5. Tables'
  <2>1. CASE RenderSnapshot \/ PostSafetyMargin \/ UNCHANGED vars
    BY <2>1 DEF Tables, RenderSnapshot, PostSafetyMargin, external, matches, vars
  <2>2. CASE TimePasses
    BY <2>2 DEF Tables, TimePasses
  <2>3. CASE AccountsChange
    BY <2>3 DEF Tables, AccountsChange
  <2>4. CASE ScheduleChanges
    BY <2>4 DEF Tables, ScheduleChanges
  <2>5. CASE AttachScheduleItem \/ ClearOccurrence \/ ResolveMatches
    BY <2>5 DEF Tables, AttachScheduleItem, ClearOccurrence, ResolveMatches
  <2> QED
    BY <2>1, <2>2, <2>3, <2>4, <2>5
<1> QED
  BY <1>1, <1>2, <1>4, <1>5

LEMMA BaseStep == Base /\ [Next]_vars => Base'
<1> SUFFICES ASSUME Base, [Next]_vars PROVE Base'
  OBVIOUS
<1>1. CASE \E p \in Runs : RunStep(p) \/ FailRun(p)
  BY <1>1, BaseStart, BaseReadCredit, BaseReadItems, BaseReadSettled, BaseSave, BaseFail,
     BaseRegion DEF RunStep
<1>2. CASE ~\E p \in Runs : RunStep(p) \/ FailRun(p)
  BY <1>2, BaseOthers DEF Next
<1> QED
  BY <1>1, <1>2

LEMMA BaseAlways == Spec => []Base
  BY BaseInit, BaseStep, PTL DEF Spec

-----------------------------------------------------------------------------
(* The requirement, in every history. *)

LEMMA NumericIs ==
  ASSUME Base, NEW n \in Numeric
  PROVE  /\ n \in 1..Len(history) /\ history[n].kind = "numeric"
         /\ ComputedFrom(history[n], inputs[n])
         /\ Orderly(EventsFor(inputs[n])) /\ inputs[n].at \in Instants
         /\ EventsOf(history[n]) = EventsFor(inputs[n])
         /\ history[n].required = Evaluate(EventsFor(inputs[n])).required
<1>1. DOMAIN history = 1..Len(history)
  BY AppendedTo DEF Base, HistoryOK
<1>2. n \in 1..Len(history) /\ history[n].kind = "numeric" /\ ComputedFrom(history[n], inputs[n])
  BY <1>1 DEF Base, HistoryOK, Numeric
<1> QED
  BY <1>2, NumberIs

LEMMA RequirementHolds == Base => RequirementIsLeast
<1> SUFFICES ASSUME Base, NEW n \in Numeric
             PROVE  history[n].required
                      = Max({0} \cup {NeededBy(EventsOf(history[n]), e.date) : e \in EventsOf(history[n])})
  BY DEF RequirementIsLeast
<1> QED
  BY NumericIs, RequiredIsLeast

\* Every stored requirement is the least that keeps checking from going negative at any
\* instant of its window, whatever the cards, the items, the matches and the moment
\* (evaluate, computeAndStore).
THEOREM RequirementAlwaysLeast == Spec => []RequirementIsLeast
  BY BaseAlways, RequirementHolds, PTL

-----------------------------------------------------------------------------
(* Unpaid outflows. *)

\* What is owed lies in the days a run considers, however short the months between.
LEMMA OwedIsConsidered ==
  ASSUME NEW r, ReadOK(r), NEW i \in DOMAIN r.items, NEW d \in OwedDays(r.items[i], r.at)
  PROVE  d \in Considered(r.items[i], r.at)
<1> DEFINE item == r.items[i]
           today == DayOf(r.at)
           from == OneCadenceBefore(item, today)
           to == WindowEnd(r.at)
           due == Occurrences(item, 0, today)
<1>1. Declared(item) /\ from \in Int /\ from < today
  BY ItemTyped, ConsideredIs
<1>2. today \in Int /\ to \in Int /\ today <= to
  BY WindowIs DEF ReadOK
<1>3. PICK m \in Months : Within(today, m) /\ m - 1 \in Months
  BY Around DEF ReadOK
<1>4. Considered(item, r.at) = Occurrences(item, from, to)
  BY DEF Considered, WindowStart
<1>5. d \in Occurrences(item, today, to) \/ (due # {} /\ d = Max(due))
  BY DEF OwedDays
<1>6. due # {} => Max(due) \in Occurrences(item, from, today)
  BY <1>1, <1>3, LatestDue
<1>7. PICK a \in Int, b \in Int : d \in Occurrences(item, a, b) /\ from <= a /\ b <= to
  BY <1>1, <1>2, <1>5, <1>6
<1> HIDE DEF item, today, from, to, due
<1>8. d \in Int /\ a <= d /\ d <= b
  BY <1>7, OccurrencesInside
<1>9. from <= d /\ d <= to
  BY <1>1, <1>2, <1>7, <1>8
<1>10. d \in Occurrences(item, from, to)
  BY <1>1, <1>2, <1>7, <1>9, OccurrencesNarrowed
<1> QED
  BY <1>4, <1>10 DEF item

\* An outflow a run considers and nothing has settled has its row.
LEMMA ConsideredIsReserved ==
  ASSUME NEW r, ReadOK(r), NEW i \in DOMAIN r.items, r.items[i].direction = "out",
         r.items[i].amount # Null, NEW d \in Considered(r.items[i], r.at), <<i, d>> \notin r.settled
  PROVE  \E e \in EventsFor(r) :
           /\ e.label = i
           /\ Midnight(d) < r.at => e.dueOn = d
           /\ Midnight(d) >= r.at => e.date = Midnight(d)
<1>1. Midnight(d) \in Int /\ r.at \in Int
  BY ConsideredIs, WindowIs DEF ReadOK, Midnight
<1>2. CASE Midnight(d) >= r.at
  <2> DEFINE e == Event(Midnight(d), i, "out", r.items[i].amount, Null)
  <2>1. IsOccurrence(e, r, i, d)
    BY <1>2 DEF IsOccurrence
  <2>2. e.label = i /\ e.date = Midnight(d)
    BY DEF Event
  <2> HIDE DEF e
  <2> QED
    BY <1>1, <1>2, <2>1, <2>2, RowIs
<1>3. CASE Midnight(d) < r.at
  <2> DEFINE e == Event(r.at, i, "out", r.items[i].amount, d)
  <2>1. IsOccurrence(e, r, i, d)
    BY <1>3 DEF IsOccurrence
  <2>2. e.label = i /\ e.dueOn = d
    BY DEF Event
  <2> HIDE DEF e
  <2> QED
    BY <1>1, <1>3, <2>1, <2>2, RowIs
<1> QED
  BY <1>1, <1>2, <1>3

LEMMA UnpaidHolds == Base => UnpaidStaysReserved
<1> SUFFICES ASSUME Base, NEW n \in Numeric, NEW i \in DOMAIN inputs[n].items,
                    inputs[n].items[i].direction = "out", inputs[n].items[i].amount # Null,
                    NEW d \in OwedDays(inputs[n].items[i], inputs[n].at),
                    <<i, d>> \notin inputs[n].settled
             PROVE  \E e \in EventsOf(history[n]) :
                      e.label = i /\ (e.dueOn = d \/ e.date = Midnight(d))
  BY DEF UnpaidStaysReserved
<1> DEFINE r == inputs[n]
<1>1. ReadOK(r) /\ EventsOf(history[n]) = EventsFor(r)
  BY NumericIs DEF ComputedFrom
<1>2. d \in Considered(r.items[i], r.at)
  BY <1>1, OwedIsConsidered
<1>3. Midnight(d) \in Int /\ r.at \in Int
  <2>1. r.at \in Instants
    BY <1>1 DEF ReadOK
  <2>2. d \in Int
    BY <1>1, <1>2, ConsideredIs
  <2> QED
    BY <2>1, <2>2, SweepAssumption DEF Midnight
<1>4. PICK e \in EventsFor(r) : /\ e.label = i
                                /\ Midnight(d) < r.at => e.dueOn = d
                                /\ Midnight(d) >= r.at => e.date = Midnight(d)
  BY <1>1, <1>2, ConsideredIsReserved
<1> QED
  BY <1>1, <1>3, <1>4

\* An outflow that nothing has settled stays on every timeline from the day it comes into
\* the window until the item's next occurrence falls due, whatever the months' lengths
\* (buildTimeline, OneCadenceBefore).
THEOREM UnpaidAlwaysReserved == Spec => []UnpaidStaysReserved
  BY BaseAlways, UnpaidHolds, PTL

-----------------------------------------------------------------------------
(* The overdue marks. *)

\* A day that an item's next occurrence has left behind is before today.
LEMMA LeftBehindIsPast ==
  ASSUME NEW t \in Instants, NEW item, Declared(item),
         NEW d \in Occurrences(item, OneCadenceBefore(item, DayOf(t)), DayOf(t)),
         NextOccurrence(item, DayOf(t)) # NoDate, d < NextOccurrence(item, DayOf(t))
  PROVE  d \in Considered(item, t) /\ Midnight(d) < t
<1> DEFINE today == DayOf(t)
           from == OneCadenceBefore(item, today)
           to == WindowEnd(t)
           far == AddMonthsClamped(today, 2)
           ahead == Occurrences(item, today, far)
<1>1. PICK m \in Months : Within(today, m) /\ m - 1 \in Months /\ m + 2 \in Months
  BY Around
<1>2. t \in Nat /\ today \in Int /\ to \in Int /\ today <= to
  BY WindowIs
<1>3. from \in Int /\ from < today
  BY <1>1, OneCadenceBack
<1>4. m \in Int /\ m + 1 \in Months
  BY <1>1 DEF Months
<1>5. Within(far, m + 2)
  BY <1>1, MonthsOn
<1>6. far \in Int /\ today <= far
  <2>1. /\ FirstDay[m + 1] = FirstDay[m] + MonthLengths[m] /\ FirstDay[m] \in Nat
        /\ FirstDay[m + 2] = FirstDay[m + 1] + MonthLengths[m + 1]
        /\ MonthLengths[m] \in 28..31 /\ MonthLengths[m + 1] \in 28..31
    <3>1. (m + 1) + 1 = m + 2
      BY <1>4
    <3> QED
      BY <1>1, <1>4, <3>1, MonthBounds
  <2> QED
    BY <1>1, <1>5, <2>1 DEF Within
<1>7. d \in Int /\ from <= d /\ d <= today
  <2> HIDE DEF from, today
  <2> QED
    BY <1>2, <1>3, OccurrencesInside DEF from, today
<1>8. NextOccurrence(item, today) = Min(ahead) /\ ahead # {}
  BY DEF NextOccurrence
<1>9. today \in ahead => Min(ahead) = today
  <2>1. ahead \subseteq today..far
    BY <1>2, <1>6, OccurrencesInside
  <2>2. ahead \in SUBSET Int /\ \A y \in ahead : today <= y
    BY <1>2, <1>6, <2>1
  <2> HIDE DEF ahead, today
  <2> QED
    BY <1>2, <2>2, ExtremeIs
<1>10. d # today
  <2>1. SUFFICES ASSUME d = today PROVE FALSE
    OBVIOUS
  <2>2. d \in ahead
    <3> HIDE DEF today, far, from
    <3> QED
      BY <1>2, <1>3, <1>6, <1>7, <2>1, OccurrencesNarrowed DEF from, today
  <2>3. d < Min(ahead)
    BY <1>8
  <2> HIDE DEF ahead, today
  <2> QED
    BY <1>2, <1>9, <2>1, <2>2, <2>3
<1>11. d \in Occurrences(item, from, to)
  <2>1. d \in Occurrences(item, from, today)
    OBVIOUS
  <2> HIDE DEF from, to, today
  <2> QED
    BY <1>2, <1>3, <1>7, <2>1, OccurrencesNarrowed
<1>12. Midnight(d) < t
  <2> HIDE DEF from, to, far, ahead
  <2>1. d <= today - 1
    BY <1>2, <1>7, <1>10
  <2>2. today = t \div 2
    BY DEF DayOf
  <2> QED
    BY <1>2, <1>7, <2>1, <2>2 DEF Midnight
<1> QED
  BY <1>11, <1>12 DEF Considered, WindowStart

\* What the page marks was left unsettled when the page read the matches.
OverdueOK ==
  \A i \in DOMAIN page.overdue :
    /\ i \in DOMAIN page.read.items
    /\ page.overdue[i] \in Considered(page.read.items[i], page.read.at)
    /\ <<i, page.overdue[i]>> \notin page.read.settled
    /\ Midnight(page.overdue[i]) < page.read.at

\* What the page marks when it is rendered.
LEMMA OverdueAre ==
  ASSUME Base, NEW i,
         i \in DOMAIN OverdueOccurrences(items, MatchingWindow(items, settled, cleared, DayOf(now)),
                                         DayOf(now)),
         NEW d, d = OverdueOccurrences(items, MatchingWindow(items, settled, cleared, DayOf(now)),
                                       DayOf(now))[i]
  PROVE  /\ i \in DOMAIN ActiveItems(items)
         /\ d \in Considered(ActiveItems(items)[i], now)
         /\ <<i, d>> \notin settled /\ Midnight(d) < now
<1> DEFINE today == DayOf(now)
           item == items[i]
           windows == MatchingWindow(items, settled, cleared, today)
           days == [j \in DOMAIN windows |-> Outstanding(windows[j])]
           next(j) == NextOccurrence(items[j], today)
           behind == [j \in DOMAIN days |->
                        {x \in days[j] : next(j) # NoDate /\ x < next(j)}]
           marked == [j \in {k \in DOMAIN days : behind[k] # {}} |-> Max(behind[j])]
<1>1. marked = OverdueOccurrences(items, windows, today)
  BY DEF OverdueOccurrences, LeftBehind
<1>2. DOMAIN windows = DOMAIN ActiveItems(items)
  BY DEF MatchingWindow
<1> HIDE DEF windows
<1>3. i \in DOMAIN windows /\ behind[i] # {} /\ d = Max(behind[i])
  <2>1. i \in DOMAIN marked /\ d = marked[i]
    BY <1>1 DEF windows
  <2> QED
    BY <2>1
<1>4. i \in DOMAIN ActiveItems(items) /\ ActiveItems(items)[i] = item /\ i \in Items
      /\ now \in Instants
  BY <1>2, <1>3 DEF ActiveItems, Base, Tables
<1>5. Declared(item)
  BY <1>4, RowsAssumption DEF Base, Tables, Declared
<1> DEFINE from == OneCadenceBefore(item, today)
           span == Occurrences(item, from, today)
           window == [x \in span |-> OccurrenceState(i, x, settled, cleared)]
<1>6. windows[i] = window
  BY <1>4 DEF windows, MatchingWindow
<1>7. behind[i] = {x \in Outstanding(windows[i]) : next(i) # NoDate /\ x < next(i)}
  BY <1>3
<1>8. \A x \in behind[i] : x \in span /\ next(i) # NoDate /\ x < next(i) /\ <<i, x>> \notin settled
  <2>1. \A x \in behind[i] : /\ x \in span /\ window[x] = "outstanding"
                             /\ next(i) # NoDate /\ x < next(i)
    BY <1>6, <1>7 DEF Outstanding
  <2> QED
    BY <2>1 DEF OccurrenceState
<1>9. d \in behind[i]
  <2> DEFINE B == behind[i]
  <2>1. from \in Int /\ today \in Int
    <3>1. PICK m \in Months : Within(today, m) /\ m - 1 \in Months
      BY <1>4, Around
    <3> QED
      BY <1>5, <3>1, OneCadenceBack DEF Within
  <2>2. span \subseteq from..today /\ IsFiniteSet(span)
    <3> HIDE DEF from, today
    <3> QED
      BY <2>1, OccurrencesInside
  <2>3. B \in SUBSET Int /\ IsFiniteSet(B) /\ B # {}
    <3>1. B \in SUBSET span
      <4> HIDE DEF span
      <4> QED
        BY <1>8
    <3>2. span \in SUBSET Int
      BY <2>1, <2>2
    <3> HIDE DEF B, span
    <3> QED
      BY <1>3, <2>2, <3>1, <3>2, FS_Subset DEF B
  <2> HIDE DEF B
  <2>4. PICK x \in B : \A y \in B : y <= x
    BY <2>3, FiniteMaximum
  <2>5. Max(B) = x
    BY <2>3, <2>4, ExtremeIs
  <2> QED
    BY <1>3, <2>4, <2>5 DEF B
<1>10. d \in span /\ next(i) # NoDate /\ d < next(i) /\ <<i, d>> \notin settled
  BY <1>8, <1>9
<1>11. d \in Considered(item, now) /\ Midnight(d) < now
  BY <1>4, <1>5, <1>10, LeftBehindIsPast
<1> QED
  BY <1>4, <1>10, <1>11

LEMMA OverdueInit == Init => OverdueOK
BY DEF Init, OverdueOK, Unasked

LEMMA OverdueStep == Base /\ OverdueOK /\ [Next]_vars => OverdueOK'
<1> SUFFICES ASSUME Base, OverdueOK, [Next]_vars PROVE OverdueOK'
  OBVIOUS
<1>1. CASE RenderSnapshot
  <2> DEFINE marked == OverdueOccurrences(items, MatchingWindow(items, settled, cleared, DayOf(now)),
                                          DayOf(now))
             read == [at |-> now, items |-> ActiveItems(items), settled |-> settled]
  <2>1. page'.overdue = marked /\ page'.read = read
    BY <1>1 DEF RenderSnapshot
  <2>2. read.at = now /\ read.items = ActiveItems(items) /\ read.settled = settled
    OBVIOUS
  <2>3. \A i \in DOMAIN marked :
          /\ i \in DOMAIN ActiveItems(items)
          /\ marked[i] \in Considered(ActiveItems(items)[i], now)
          /\ <<i, marked[i]>> \notin settled /\ Midnight(marked[i]) < now
    BY OverdueAre
  <2> HIDE DEF marked, read
  <2> QED
    BY <2>1, <2>2, <2>3 DEF OverdueOK
<1>2. CASE ~RenderSnapshot
  <2>1. page'.overdue = page.overdue /\ page'.read = page.read
    <3>1. CASE UNCHANGED page
      BY <3>1
    <3>2. CASE \E p \in Runs : Save(p) \/ FailRun(p) \/ RenderRegion(p)
      BY <3>2 DEF Save, FailRun, RenderRegion, Base, Controls
    <3> QED
      BY <1>2, <3>1, <3>2 DEF Next, RunStep, StartRun, ReadCredit, ReadItems, ReadSettled,
         PostSafetyMargin, TimePasses, AccountsChange, ScheduleChanges, AttachScheduleItem,
         ClearOccurrence, ResolveMatches, vars
  <2> QED
    BY <2>1 DEF OverdueOK
<1> QED
  BY <1>1, <1>2

LEMMA OverdueHolds == Base /\ OverdueOK => OverdueIsReserved
<1> SUFFICES ASSUME Base, OverdueOK, NEW n \in Numeric,
                    page.read = [at |-> inputs[n].at, items |-> inputs[n].items,
                                 settled |-> inputs[n].settled],
                    NEW i \in DOMAIN page.overdue,
                    page.read.items[i].direction = "out", page.read.items[i].amount # Null
             PROVE  \E e \in EventsOf(history[n]) : e.label = i /\ e.dueOn = page.overdue[i]
  BY DEF OverdueIsReserved
<1> DEFINE r == inputs[n]
<1>1. page.read.at = r.at /\ page.read.items = r.items /\ page.read.settled = r.settled
  OBVIOUS
<1>2. ReadOK(r) /\ EventsOf(history[n]) = EventsFor(r)
  BY NumericIs DEF ComputedFrom
<1> HIDE DEF r
<1>3. /\ i \in DOMAIN r.items /\ page.overdue[i] \in Considered(r.items[i], r.at)
      /\ <<i, page.overdue[i]>> \notin r.settled /\ Midnight(page.overdue[i]) < r.at
      /\ r.items[i].direction = "out" /\ r.items[i].amount # Null
  BY <1>1 DEF OverdueOK
<1>4. \E e \in EventsFor(r) : e.label = i /\ e.dueOn = page.overdue[i]
  BY <1>2, <1>3, ConsideredIsReserved
<1> QED
  BY <1>2, <1>4

\* Whatever the page marks as overdue is money a run at that instant holds back, listed
\* with the date it was due (overdueOccurrences, buildTimeline).
THEOREM OverdueAlwaysReserved == Spec => []OverdueIsReserved
<1>1. Init => OverdueOK
  BY OverdueInit
<1>2. Base /\ OverdueOK /\ [Next]_vars => OverdueOK'
  BY OverdueStep
<1>3. Base /\ OverdueOK => OverdueIsReserved
  BY OverdueHolds
<1> QED
  BY BaseAlways, <1>1, <1>2, <1>3, PTL DEF Spec

-----------------------------------------------------------------------------
(* The page. *)

\* The recommendation found is the one that was asked for, and the ones offered stand
\* next to it in the order of the history.
Found(view, id, h) ==
  view.found =>
    /\ id \in {Null, view.shown} /\ view.shown \in 1..Len(h)
    /\ view.older # Null => view.older \in 1..Len(h) /\ Newer(h, view.shown, view.older)
    /\ view.newer # Null => view.newer \in 1..Len(h) /\ Newer(h, view.newer, view.shown)

LEMMA NewestFirst ==
  ASSUME HistoryOK
  PROVE  /\ Len(history) \in Nat /\ DOMAIN history = 1..Len(history)
         /\ Len(List(history)) = Len(history)
         /\ List(history) \in [1..Len(history) -> 1..Len(history)]
         /\ List(history) \in Seq(1..Len(history))
         /\ \A m, n \in 1..Len(history) :
              m < n => Newer(history, List(history)[m], List(history)[n])
<1> DEFINE N == Len(history)
           ids == 1..N
           R == {p \in ids \X ids : Newer(history, p[1], p[2])}
           all == List(history)
<1>1. N \in Nat /\ DOMAIN history = ids
  BY AppendedTo DEF HistoryOK
<1>2. \A n \in ids : history[n].at \in Nat
  BY NumberIs DEF HistoryOK
<1>3. Orders(R, ids)
  <2>1. \A m \in ids : m \in Nat
    BY <1>1
  <2>2. \A m \in ids : ~Newer(history, m, m)
    BY <1>2, <2>1 DEF Newer
  <2>3. \A m, n \in ids : m # n => Newer(history, m, n) \/ Newer(history, n, m)
    BY <1>2, <2>1 DEF Newer
  <2>4. \A m, n, k \in ids : Newer(history, m, n) /\ Newer(history, n, k) => Newer(history, m, k)
    BY <1>2, <2>1 DEF Newer
  <2> HIDE DEF ids
  <2> QED
    BY <2>2, <2>3, <2>4 DEF Orders
<1>4. IsFiniteSet(ids) /\ Cardinality(ids) = N
  <2> HIDE DEF N
  <2> QED
    BY <1>1, FS_Interval
<1>5. all = Sorted(ids, R)
  BY <1>1 DEF List
<1> HIDE DEF ids, R, all, N
<1>6. Lists(all, ids, R)
  BY <1>3, <1>4, <1>5, SortedLists
<1>7. all \in [1..N -> ids] /\ \A m, n \in 1..N : m < n => <<all[m], all[n]>> \in R
  BY <1>4, <1>6 DEF Lists
<1>8. all \in Seq(ids) /\ Len(all) = N
  <2>1. all \in Seq(ids)
    BY <1>1, <1>7, SeqDef
  <2>2. Len(all) \in Nat /\ DOMAIN all = 1..Len(all)
    BY <2>1, LenProperties
  <2> QED
    BY <1>1, <1>7, <2>1, <2>2
<1>9. \A m, n \in 1..N : m < n => Newer(history, all[m], all[n])
  BY <1>7 DEF R
<1> QED
  BY <1>1, <1>7, <1>8, <1>9 DEF ids, all, N

LEMMA SnapshotFinds ==
  ASSUME HistoryOK, NEW id
  PROVE  Found(Snapshot(history, id), id, history)
<1> DEFINE N == Len(history)
           all == List(history)
           i == IF id = Null THEN 1 ELSE CHOOSE n \in DOMAIN all : all[n] = id
           view == [found |-> TRUE, shown |-> all[i],
                    older |-> IF i < Len(all) THEN all[i + 1] ELSE Null,
                    newer |-> IF i > 1 THEN all[i - 1] ELSE Null]
<1>1. /\ N \in Nat /\ Len(all) = N /\ all \in [1..N -> 1..N] /\ all \in Seq(1..N)
      /\ \A m, n \in 1..N : m < n => Newer(history, all[m], all[n])
  BY NewestFirst
<1>2. Snapshot(history, id)
        = IF all = << >> \/ (id # Null /\ id \notin ToSet(all)) THEN NotFound ELSE view
  BY DEF Snapshot, Neighbors
<1>3. CASE all = << >> \/ (id # Null /\ id \notin ToSet(all))
  BY <1>2, <1>3 DEF Found, NotFound
<1>4. CASE all # << >> /\ (id = Null \/ id \in ToSet(all))
  <2>1. N # 0
    <3> HIDE DEF all, N
    <3> QED
      BY <1>1, <1>4, EmptySeq
  <2>2. i \in 1..N /\ (id = Null \/ all[i] = id)
    <3>1. CASE id = Null
      BY <1>1, <2>1, <3>1
    <3>2. CASE id # Null
      <4>1. \E n \in DOMAIN all : all[n] = id
        BY <1>4, <3>2 DEF ToSet
      <4>2. i \in DOMAIN all /\ all[i] = id
        <5> HIDE DEF all
        <5> QED
          BY <3>2, <4>1
      <4>3. DOMAIN all = 1..N
        BY <1>1
      <4> QED
        BY <4>2, <4>3
    <3> QED
      BY <3>1, <3>2
  <2> HIDE DEF i, all, N
  <2>3. /\ view.found /\ view.shown = all[i]
        /\ view.older = IF i < Len(all) THEN all[i + 1] ELSE Null
        /\ view.newer = IF i > 1 THEN all[i - 1] ELSE Null
    OBVIOUS
  <2>4. Snapshot(history, id) = view
    BY <1>2, <1>4
  <2> HIDE DEF view
  <2>5. view.shown \in 1..N /\ id \in {Null, view.shown}
    BY <1>1, <2>2, <2>3
  <2>6. view.older # Null => view.older \in 1..N /\ Newer(history, view.shown, view.older)
    <3>1. i < N => i + 1 \in 1..N /\ i < i + 1
      BY <1>1, <2>2
    <3> QED
      BY <1>1, <2>2, <2>3, <3>1
  <2>7. view.newer # Null => view.newer \in 1..N /\ Newer(history, view.newer, view.shown)
    <3>1. i > 1 => i - 1 \in 1..N /\ i - 1 < i
      BY <1>1, <2>2
    <3> QED
      BY <1>1, <2>2, <2>3, <3>1
  <2> QED
    BY <2>4, <2>5, <2>6, <2>7 DEF Found, N
<1> QED
  BY <1>3, <1>4

\* Between a run and its region, the page still shows what was asked for before.
PageOK ==
  \/ Found(page.view, page.asked, history)
  \/ /\ \E p \in Runs \ {Job} : pc[p] = "show"
     /\ \E id : Found(page.view, id, history)

LEMMA PageInit == Init => PageOK
BY DEF Init, PageOK, Unasked, NotFound, Found

\* A recommendation that is appended changes nothing between the earlier ones.
LEMMA FoundStays ==
  ASSUME Base, NEW p \in Runs, Save(p), NEW view, NEW id, Found(view, id, history)
  PROVE  Found(view, id, history')
<1>1. /\ Len(history) \in Nat /\ Len(history') = Len(history) + 1
      /\ \A n \in 1..Len(history) : history'[n] = history[n]
  BY Appends
<1>2. \A n \in 1..Len(history) : n \in 1..Len(history')
  BY <1>1
<1>3. \A m, n \in 1..Len(history) : Newer(history, m, n) => Newer(history', m, n)
  BY <1>1 DEF Newer
<1> QED
  BY <1>2, <1>3 DEF Found

LEMMA PageStep == Base /\ PageOK /\ [Next]_vars => PageOK'
<1> SUFFICES ASSUME Base, PageOK, [Next]_vars PROVE PageOK'
  OBVIOUS
<1>0. PICK old : Found(page.view, old, history)
  BY DEF PageOK
<1>1. ASSUME NEW p \in Runs, Save(p) PROVE PageOK'
  <2>1. CASE p = Job
    <3>1. page' = page /\ \A q \in Runs \ {Job} : pc'[q] = pc[q]
      BY <1>1, <2>1 DEF Save, Idle, Goto, Base, Controls
    <3>2. \A id : Found(page.view, id, history) => Found(page.view, id, history')
      BY <1>1, FoundStays
    <3> QED
      BY <3>1, <3>2 DEF PageOK
  <2>2. CASE p # Job
    <3>1. page'.view = page.view /\ pc'[p] = "show"
      BY <1>1, <2>2 DEF Save, Goto, Base, Controls
    <3>2. Found(page.view, old, history')
      BY <1>0, <1>1, FoundStays
    <3> QED
      BY <2>2, <3>1, <3>2 DEF PageOK
  <2> QED
    BY <2>1, <2>2
<1>2. ASSUME NEW p \in Runs, FailRun(p) PROVE PageOK'
  <2>0. history' = history
    BY <1>2 DEF FailRun, stored
  <2>1. CASE p = Job
    <3>1. page' = page /\ \A q \in Runs \ {Job} : pc'[q] = pc[q]
      BY <1>2, <2>1 DEF FailRun, Idle, Goto, Base, Controls
    <3> QED
      BY <2>0, <3>1 DEF PageOK
  <2>2. CASE p # Job
    <3>1. page'.view = page.view /\ pc'[p] = "show"
      BY <1>2, <2>2 DEF FailRun, Goto, Base, Controls
    <3> QED
      BY <1>0, <2>0, <2>2, <3>1 DEF PageOK
  <2> QED
    BY <2>1, <2>2
<1>3. ASSUME NEW p \in Runs, RenderRegion(p) PROVE PageOK'
  <2>1. /\ page'.view = Snapshot(history, page.asked) /\ page'.asked = page.asked
        /\ history' = history
    BY <1>3 DEF RenderRegion, stored, Base, Controls
  <2>2. Found(Snapshot(history, page.asked), page.asked, history)
    BY SnapshotFinds DEF Base
  <2> QED
    BY <2>1, <2>2 DEF PageOK
<1>4. CASE RenderSnapshot
  <2>1. /\ page'.view = Snapshot(history, page'.asked) /\ history' = history
    BY <1>4 DEF RenderSnapshot, stored
  <2>2. Found(Snapshot(history, page'.asked), page'.asked, history)
    BY SnapshotFinds DEF Base
  <2> QED
    BY <2>1, <2>2 DEF PageOK
<1>5. CASE UNCHANGED <<page, history>> /\ \A q \in Runs : pc[q] = "show" => pc'[q] = "show"
  BY <1>5 DEF PageOK
<1>6. ASSUME NEW p \in Runs, StartRun(p) \/ ReadCredit(p) \/ ReadItems(p) \/ ReadSettled(p)
      PROVE  UNCHANGED <<page, history>> /\ \A q \in Runs : pc[q] = "show" => pc'[q] = "show"
  BY <1>6 DEF StartRun, ReadCredit, ReadItems, ReadSettled, Goto, stored, Base, Controls
<1>7. ASSUME \/ PostSafetyMargin \/ TimePasses \/ AccountsChange \/ ScheduleChanges
             \/ AttachScheduleItem \/ ClearOccurrence \/ ResolveMatches \/ UNCHANGED vars
      PROVE  UNCHANGED <<page, history>> /\ \A q \in Runs : pc[q] = "show" => pc'[q] = "show"
  BY <1>7 DEF PostSafetyMargin, TimePasses, AccountsChange, ScheduleChanges, AttachScheduleItem,
     ClearOccurrence, ResolveMatches, stored, vars
<1> QED
  BY <1>1, <1>2, <1>3, <1>4, <1>5, <1>6, <1>7 DEF Next, RunStep

\* The page never shows another recommendation than the one asked for, whichever runs
\* finish meanwhile, and its steps lead to older and newer ones (neighbors).
THEOREM PageAlwaysShowsAsked == Spec => []PageShowsAsked
<1>1. Init => PageOK
  BY PageInit
<1>2. Base /\ PageOK /\ [Next]_vars => PageOK'
  BY PageStep
<1>3. PageOK => PageShowsAsked
  BY DEF PageOK, PageShowsAsked, Found
<1> QED
  BY BaseAlways, <1>1, <1>2, <1>3, PTL DEF Spec

-----------------------------------------------------------------------------
(* Types. *)

WindowsNow == MatchingWindow(items, settled, cleared, DayOf(now))

\* An outstanding occurrence is a day of the calendar that nothing was decided about.
LEMMA OutstandingIs ==
  ASSUME Base, NEW i \in DOMAIN WindowsNow
  PROVE  /\ i \in Items
         /\ IsFiniteSet(Outstanding(WindowsNow[i])) /\ Outstanding(WindowsNow[i]) \subseteq Days
         /\ Days \subseteq Int
         /\ \A d \in Outstanding(WindowsNow[i]) : <<i, d>> \notin settled \cup cleared
<1> DEFINE today == DayOf(now)
           item == items[i]
           from == OneCadenceBefore(item, today)
           span == Occurrences(item, from, today)
           window == [d \in span |-> OccurrenceState(i, d, settled, cleared)]
<1>1. i \in DOMAIN ActiveItems(items) /\ i \in Items /\ now \in Instants
  BY DEF WindowsNow, MatchingWindow, ActiveItems, Base, Tables
<1>2. WindowsNow[i] = window
  BY <1>1 DEF WindowsNow, MatchingWindow
<1>3. Declared(item)
  BY <1>1, RowsAssumption DEF Base, Tables, Declared
<1>4. PICK m \in Months : Within(today, m) /\ m - 1 \in Months
  BY <1>1, Around
<1>5. from \in Nat /\ today \in Int
  BY <1>3, <1>4, OneCadenceBack DEF Within
<1>6. span \subseteq from..today /\ IsFiniteSet(span)
  <2> HIDE DEF from, today
  <2> QED
    BY <1>5, OccurrencesInside
<1>7. today \in Days /\ Days \subseteq Int
  BY <1>1, InstantsAssumption DEF MonthRange, Days
<1>8. span \subseteq Days
  <2> DEFINE last == FirstDay[Len(MonthLengths) + 1] - 1
  <2>1. Days = 0..last /\ today <= last /\ last \in Int
    <3>1. Len(MonthLengths) \in Months
      BY <1>4, MonthFollows DEF Months
    <3>2. FirstDay[Len(MonthLengths) + 1] \in Nat
      BY <3>1, MonthBounds
    <3> QED
      BY <1>5, <1>7, <3>2 DEF Days
  <2> HIDE DEF last, from, today, span
  <2>2. \A d \in from..today : d \in 0..last
    BY <1>5, <2>1
  <2> QED
    BY <1>6, <2>1, <2>2
<1>9. \A d \in Outstanding(WindowsNow[i]) : d \in span /\ <<i, d>> \notin settled \cup cleared
  <2>1. \A d \in Outstanding(WindowsNow[i]) :
          d \in span /\ OccurrenceState(i, d, settled, cleared) = "outstanding"
    BY <1>2 DEF Outstanding
  <2> QED
    BY <2>1 DEF OccurrenceState
<1>10. IsFiniteSet(Outstanding(WindowsNow[i]))
  <2>1. Outstanding(WindowsNow[i]) \in SUBSET span
    BY <1>9
  <2> QED
    BY <1>6, <2>1, FS_Subset
<1> QED
  BY <1>1, <1>7, <1>8, <1>9, <1>10

\* There is a nearest one.
LEMMA NearestIs ==
  ASSUME NEW window, IsFiniteSet(Outstanding(window)), Outstanding(window) \subseteq Int,
         Outstanding(window) # {}, NEW date \in Int
  PROVE  NearestOutstanding(window, date) \in Outstanding(window)
<1> DEFINE S == Outstanding(window)
           gap == [d \in S |-> Gap(d, date)]
           G == {gap[d] : d \in S}
<1>1. \A d \in S : d \in Int /\ gap[d] = Gap(d, date) /\ gap[d] \in Int
  BY DEF Gap
<1>2. IsFiniteSet(S) /\ S # {}
  OBVIOUS
<1> HIDE DEF S, gap
<1>3. G \in SUBSET Int /\ IsFiniteSet(G) /\ G # {}
  BY <1>1, <1>2, FiniteImage
<1>4. PICK g \in G : \A h \in G : g <= h
  <2> HIDE DEF G
  <2> QED
    BY <1>3, FiniteMinimum
<1> DEFINE T == {d \in S : gap[d] = g}
<1>5. T \in SUBSET Int /\ T \in SUBSET S /\ T # {} /\ IsFiniteSet(T)
  <2>1. T \in SUBSET Int /\ T \in SUBSET S /\ T # {}
    BY <1>1, <1>4
  <2> HIDE DEF T
  <2> QED
    BY <1>2, <2>1, FS_Subset
<1>6. PICK d \in T : \A e \in T : d <= e
  <2> HIDE DEF T
  <2> QED
    BY <1>5, FiniteMinimum
<1>7. ASSUME NEW e \in S \ {d}
      PROVE  Gap(d, date) < Gap(e, date) \/ (Gap(d, date) = Gap(e, date) /\ d < e)
  <2>1. d \in S /\ gap[d] = g /\ g <= gap[e] /\ d \in Int /\ e \in Int
    BY <1>1, <1>4, <1>5
  <2>2. CASE gap[e] = g
    <3>1. e \in T
      BY <2>2
    <3> QED
      BY <1>1, <1>6, <2>1, <2>2, <3>1
  <2>3. CASE gap[e] # g
    BY <1>1, <2>1, <2>3
  <2> QED
    BY <2>2, <2>3
<1>8. d \in S
  BY <1>5
<1> HIDE DEF T, G
<1>9. NearestOutstanding(window, date)
        = CHOOSE x \in S : \A e \in S \ {x} :
            Gap(x, date) < Gap(e, date) \/ (Gap(x, date) = Gap(e, date) /\ x < e)
  BY DEF NearestOutstanding, S
<1>10. NearestOutstanding(window, date) \in S
  BY <1>7, <1>8, <1>9
<1> QED
  BY <1>10 DEF S

Decided ==
  /\ settled \cup cleared \subseteq Occurred /\ settled \cap cleared = {}
  /\ margin \in Margins /\ margin >= 0
  /\ moves \in 0..MaxMoves

\* The runs on their way to a recommendation have their place in the history.
Busy == {q \in Runs : pc[q] \notin {"idle", "show"}}
Booked == Len(history) + Cardinality(Busy) <= MaxRuns

LEMMA DecidedInit == Init => Decided
BY SweepAssumption DEF Init, Decided

LEMMA DecidedStep == Base /\ Decided /\ [Next]_vars => Decided'
<1> SUFFICES ASSUME Base, Decided, [Next]_vars PROVE Decided'
  OBVIOUS
<1>0. MaxMoves \in Nat
  BY SweepAssumption
<1>1. moves' \in 0..MaxMoves
  <2>1. moves' = moves \/ Move
    BY DEF Next, RunStep, StartRun, ReadCredit, ReadItems, ReadSettled, Save, FailRun, RenderRegion,
       RenderSnapshot, PostSafetyMargin, TimePasses, AccountsChange, ScheduleChanges,
       AttachScheduleItem, ClearOccurrence, ResolveMatches, vars
  <2> QED
    BY <1>0, <2>1 DEF Move, Decided
<1>2. margin' \in Margins /\ margin' >= 0
  <2>1. CASE PostSafetyMargin
    <3>1. PICK m \in Margins : margin' = IF m = Null THEN margin ELSE IF m < 0 THEN margin ELSE m
      BY <2>1 DEF PostSafetyMargin
    <3>2. m = Null \/ m \in Int
      BY SweepAssumption
    <3> QED
      BY <3>1, <3>2 DEF Decided
  <2>2. CASE ~PostSafetyMargin
    <3>1. margin' = margin
      BY <2>2 DEF Next, RunStep, StartRun, ReadCredit, ReadItems, ReadSettled, Save, FailRun,
         RenderRegion, RenderSnapshot, TimePasses, AccountsChange, ScheduleChanges,
         AttachScheduleItem, ClearOccurrence, ResolveMatches, stored, vars
    <3> QED
      BY <3>1 DEF Decided
  <2> QED
    BY <2>1, <2>2
<1>3. CASE AttachScheduleItem
  <2>0. PICK direction \in {"out", "in"} :
          \E option \in AttachableItems(items, WindowsNow, direction, DayOf(now)) :
            settled' = settled \cup {option}
    BY <1>3 DEF AttachScheduleItem, WindowsNow
  <2>1. PICK option \in AttachableItems(items, WindowsNow, direction, DayOf(now)) :
          settled' = settled \cup {option}
    BY <2>0
  <2>2. PICK i \in DOMAIN WindowsNow :
          Outstanding(WindowsNow[i]) # {} /\ option = <<i, NearestOutstanding(WindowsNow[i], DayOf(now))>>
    BY DEF AttachableItems
  <2>3. DayOf(now) \in Int
    BY WindowIs DEF Base, Tables
  <2>4. NearestOutstanding(WindowsNow[i], DayOf(now)) \in Outstanding(WindowsNow[i])
    <3> DEFINE w == WindowsNow[i]
    <3>1. IsFiniteSet(Outstanding(w)) /\ Outstanding(w) \subseteq Int
      BY OutstandingIs
    <3> HIDE DEF w
    <3>2. NearestOutstanding(w, DayOf(now)) \in Outstanding(w)
      BY <2>2, <2>3, <3>1, NearestIs DEF w
    <3> QED
      BY <3>2 DEF w
  <2>5. option \in Occurred /\ option \notin cleared
    BY <2>2, <2>4, OutstandingIs DEF Occurred
  <2> QED
    BY <1>1, <1>2, <1>3, <2>1, <2>5 DEF AttachScheduleItem, Decided
<1>4. CASE ResolveMatches
  <2>1. CASE \E o \in settled : settled' = settled \ {o}
    BY <1>1, <1>2, <1>4, <2>1 DEF ResolveMatches, Decided
  <2>2. CASE ~\E o \in settled : settled' = settled \ {o}
    <3>0. PICK i \in DOMAIN WindowsNow :
            \E d \in Outstanding(WindowsNow[i]) : settled' = settled \cup {<<i, d>>}
      BY <1>4, <2>2 DEF ResolveMatches, WindowsNow
    <3>1. PICK d \in Outstanding(WindowsNow[i]) : settled' = settled \cup {<<i, d>>}
      BY <3>0
    <3>2. <<i, d>> \in Occurred /\ <<i, d>> \notin cleared
      BY OutstandingIs DEF Occurred
    <3> QED
      BY <1>1, <1>2, <1>4, <3>1, <3>2 DEF ResolveMatches, Decided
  <2> QED
    BY <2>1, <2>2
<1>5. CASE ClearOccurrence
  <2>1. PICK o \in settled : settled' = settled \ {o} /\ cleared' = cleared \cup {o}
    BY <1>5 DEF ClearOccurrence
  <2> QED
    BY <1>1, <1>2, <2>1 DEF Decided
<1>6. CASE ~(AttachScheduleItem \/ ResolveMatches \/ ClearOccurrence)
  <2>1. settled' = settled /\ cleared' = cleared
    BY <1>6 DEF Next, RunStep, StartRun, ReadCredit, ReadItems, ReadSettled, Save, FailRun,
       RenderRegion, RenderSnapshot, PostSafetyMargin, TimePasses, AccountsChange, ScheduleChanges,
       external, matches, vars
  <2> QED
    BY <1>1, <1>2, <2>1 DEF Decided, Occurred
<1> QED
  BY <1>3, <1>4, <1>5, <1>6

LEMMA BookedInit == Init => Booked
<1> SUFFICES ASSUME Init PROVE Booked
  OBVIOUS
<1>1. Busy = {} /\ Len(history) = 0
  BY DEF Init, Busy
<1>2. Cardinality({}) = 0
  BY FS_EmptySet
<1> QED
  BY <1>1, <1>2, SweepAssumption DEF Booked

LEMMA BookedStep == Base /\ Booked /\ [Next]_vars => Booked'
<1> SUFFICES ASSUME Base, Booked, [Next]_vars PROVE Booked'
  OBVIOUS
<1>0. /\ IsFiniteSet(Busy) /\ Cardinality(Busy) \in Nat /\ Len(history) \in Nat
      /\ MaxRuns \in Nat
  <2>1. IsFiniteSet(Busy)
    <3>1. Busy \in SUBSET Runs /\ IsFiniteSet(Runs)
      BY SweepAssumption DEF Busy
    <3> QED
      BY <3>1, FS_Subset
  <2> QED
    BY <2>1, FS_CardinalityType, AppendedTo, SweepAssumption DEF Base, HistoryOK
<1>1. ASSUME NEW p \in Runs, StartRun(p) PROVE Booked'
  <2> DEFINE Open == {q \in Runs : pc[q] # "idle"}
  <2>1. history' = history /\ Len(history) + Cardinality(Open) < MaxRuns /\ p \notin Open
    BY <1>1 DEF StartRun, stored
  <2>2. Busy' \in SUBSET (Open \cup {p})
    BY <1>1 DEF Busy, StartRun, Goto, Base, Controls
  <2>3. IsFiniteSet(Open)
    BY SweepAssumption, FS_Subset
  <2> HIDE DEF Open
  <2>4. IsFiniteSet(Open \cup {p}) /\ Cardinality(Open \cup {p}) = Cardinality(Open) + 1
        /\ Cardinality(Open) \in Nat
    BY <2>1, <2>3, FS_AddElement, FS_CardinalityType
  <2>5. Cardinality(Busy') <= Cardinality(Open) + 1 /\ Cardinality(Busy') \in Nat
    BY <2>2, <2>4, FS_Subset, FS_CardinalityType
  <2> QED
    BY <1>0, <2>1, <2>4, <2>5 DEF Booked
<1>2. ASSUME NEW p \in Runs, Save(p) PROVE Booked'
  <2>1. Len(history') = Len(history) + 1
    BY <1>2, Appends
  <2>2. Idle(p) \/ (Goto(p, "show") /\ reads' = reads)
    BY <1>2 DEF Save
  <2>3. p \in Busy /\ Busy' = Busy \ {p}
    <3>1. (\A q \in Runs \ {p} : pc'[q] = pc[q]) /\ pc'[p] \in {"idle", "show"}
      BY <2>2, Finished DEF Base
    <3> QED
      BY <1>2, <3>1 DEF Busy, Save
  <2>4. Cardinality(Busy') = Cardinality(Busy) - 1
    BY <1>0, <2>3, FS_RemoveElement
  <2> QED
    BY <1>0, <2>1, <2>4 DEF Booked
<1>3. ASSUME history' = history, Busy' \in SUBSET Busy PROVE Booked'
  <2>1. Cardinality(Busy') <= Cardinality(Busy) /\ Cardinality(Busy') \in Nat
    BY <1>0, <1>3, FS_Subset, FS_CardinalityType
  <2> QED
    BY <1>0, <1>3, <2>1 DEF Booked
<1>4. ASSUME NEW p \in Runs, ReadCredit(p) \/ ReadItems(p) \/ ReadSettled(p)
      PROVE  history' = history /\ Busy' \in SUBSET Busy
  BY <1>4 DEF Busy, ReadCredit, ReadItems, ReadSettled, Goto, stored, Base, Controls
<1>5. ASSUME NEW p \in Runs, FailRun(p) \/ RenderRegion(p)
      PROVE  history' = history /\ Busy' \in SUBSET Busy
  <2>1. Idle(p) \/ (Goto(p, "show") /\ reads' = reads)
    BY <1>5 DEF FailRun, RenderRegion
  <2>2. (\A q \in Runs \ {p} : pc'[q] = pc[q]) /\ pc'[p] \in {"idle", "show"}
    BY <2>1, Finished DEF Base
  <2> QED
    BY <1>5, <2>2 DEF Busy, FailRun, RenderRegion, stored
<1>6. ASSUME \/ RenderSnapshot \/ PostSafetyMargin
             \/ TimePasses \/ AccountsChange \/ ScheduleChanges
             \/ AttachScheduleItem \/ ClearOccurrence \/ ResolveMatches
             \/ UNCHANGED vars
      PROVE  history' = history /\ Busy' \in SUBSET Busy
  BY <1>6, BaseOthers DEF Busy
<1> QED
  BY <1>1, <1>2, <1>3, <1>4, <1>5, <1>6 DEF Next, RunStep

LEMMA TypesHold == Base /\ Decided /\ Booked => TypeOK
<1> SUFFICES ASSUME Base, Decided, Booked PROVE TypeOK
  OBVIOUS
<1>1. Len(history) \in Nat /\ DOMAIN history = 1..Len(history) /\ DOMAIN inputs = DOMAIN history
  BY AppendedTo DEF Base, HistoryOK
<1>2. Len(history) \in 0..MaxRuns
  <2>1. Busy \in SUBSET Runs /\ IsFiniteSet(Runs)
    BY SweepAssumption DEF Busy
  <2>2. Cardinality(Busy) \in Nat
    BY <2>1, FS_Subset, FS_CardinalityType
  <2> QED
    BY <1>1, <2>2, SweepAssumption DEF Booked
<1>3. ASSUME NEW n \in DOMAIN history, history[n].kind = "numeric"
      PROVE  history[n].required >= 0 /\ TimelineOK(history[n])
  <2> DEFINE rec == history[n]
             r == inputs[n]
             E == EventsFor(r)
  <2>1. ComputedFrom(rec, r) /\ ReadOK(r)
    BY <1>1 DEF Base, HistoryOK, ComputedFrom
  <2>2. /\ rec.at = r.at /\ Orderly(E)
        /\ rec.required = Evaluate(E).required /\ rec.timeline = Evaluate(E).timeline
    BY <1>3, <2>1, NumberIs
  <2>3. \A e \in E : e.amount >= 0 /\ e.date \in r.at..HorizonFrom(r.at)
    BY <2>1, RowTyped
  <2> HIDE DEF rec, r, E
  <2>4. Evaluate(E).required \in Nat /\ DOMAIN Evaluate(E).timeline = 1..Cardinality(E)
    BY <2>2, EvaluateShows
  <2>5. ASSUME NEW k \in 1..Cardinality(E)
        PROVE  /\ Evaluate(E).timeline[k].event \in E
               /\ Evaluate(E).timeline[k].peak
                    => Evaluate(E).timeline[k].running = Evaluate(E).required
    <3>1. /\ Evaluate(E).timeline[k].event = InOrder(E)[k]
          /\ Evaluate(E).timeline[k].peak
               => Evaluate(E).timeline[k].running = Evaluate(E).required
      BY <2>2, EvaluateShows
    <3>2. InOrder(E)[k] \in E
      BY <2>2, Walked DEF Lists
    <3> QED
      BY <3>1, <3>2
  <2>6. rec.required >= 0 /\ TimelineOK(rec)
    BY <2>2, <2>3, <2>4, <2>5 DEF TimelineOK
  <2> QED
    BY <2>6 DEF rec
<1> QED
  BY <1>1, <1>2, <1>3 DEF TypeOK, Base, Tables, Controls, Decided

\* Every variable keeps its type: the stored figures are never negative, no row of a
\* stored timeline is, and none lies outside the run's window.
THEOREM TypeCorrect == Spec => []TypeOK
<1>1. Init => Decided /\ Booked
  BY DecidedInit, BookedInit
<1>2. Base /\ Decided /\ Booked /\ [Next]_vars => (Decided /\ Booked)'
  BY DecidedStep, BookedStep
<1>3. Base /\ Decided /\ Booked => TypeOK
  BY TypesHold
<1> QED
  BY BaseAlways, <1>1, <1>2, <1>3, PTL DEF Spec

-----------------------------------------------------------------------------
(* Knowing less. *)

\* What the bank reports as paid on a card is no less than nothing.
PaymentsPositive ==
  \A a \in Accounts : \A row \in Rows[a] \ {NoRow} : row.cycle.paid \in Nat \cup {Null}

\* A row that knows less has no other statement, at most a smaller payment on it.
LEMMA LessStatement ==
  ASSUME PaymentsPositive, NEW a \in Accounts, NEW row \in Rows[a] \ {NoRow},
         NEW less \in Rows[a] \ {NoRow}, less.sched = row.sched, LessKnown(less.cycle, row.cycle),
         StatementFor(less) # Null
  PROVE  /\ StatementFor(row) # Null
         /\ StatementFor(row).balance = StatementFor(less).balance
         /\ StatementFor(row).due = StatementFor(less).due
         /\ StatementFor(row).balance \in Int /\ StatementFor(row).due \in Int
         /\ StatementFor(row).paid \in Int /\ StatementFor(less).paid \in Int
         /\ StatementFor(less).paid <= StatementFor(row).paid
<1> DEFINE c == row.cycle
           l == less.cycle
<1>1. /\ c \in Cycles /\ l \in Cycles
      /\ c.paid \in Nat \cup {Null} /\ l.paid \in Nat \cup {Null}
  BY RowsAssumption DEF PaymentsPositive
<1>2. /\ DOMAIN c = {"billed", "issued", "due", "paid", "paidAt"}
      /\ DOMAIN l = DOMAIN c
      /\ c.issued \in OptionalInt /\ c.paidAt \in OptionalInt
  BY <1>1 DEF Cycles
<1>3. /\ l.billed \in {c.billed, Null} /\ l.issued \in {c.issued, Null} /\ l.due \in {c.due, Null}
      /\ l.paid \in {c.paid, Null} /\ l.paidAt \in {c.paidAt, Null}
  BY <1>2 DEF LessKnown
<1>4. HasStatement(less) /\ l.billed # Null /\ PaymentDate(less) # Null
  BY StatementIs
<1>5. HasStatement(row) /\ c.billed # Null /\ c.billed = l.billed
  <2>1. PICK column \in DOMAIN l : l[column] # Null
    BY <1>4 DEF HasStatement
  <2>2. c[column] # Null
    BY <1>2, <2>1 DEF LessKnown
  <2> QED
    BY <1>2, <1>3, <1>4, <2>1, <2>2 DEF HasStatement
<1>6. PaymentDate(row) = PaymentDate(less)
  BY <1>3, <1>4, <1>5 DEF PaymentDate
<1>7. QualifyingPayment(l) \in {QualifyingPayment(c), 0}
  BY <1>3 DEF QualifyingPayment
<1>8. QualifyingPayment(c) >= 0 /\ QualifyingPayment(c) \in Int /\ QualifyingPayment(l) \in Int
  <2>1. QualifyingPayment(c) \in Int /\ QualifyingPayment(l) \in Int
    BY StatementIs
  <2>2. c.paid # Null => c.paid >= 0
    BY <1>1
  <2> QED
    BY <2>1, <2>2 DEF QualifyingPayment
<1>9. StatementFor(row) # Null
  BY <1>4, <1>5, <1>6, StatementIs
<1>10. /\ StatementFor(row).balance = c.billed /\ c.billed \in Int
       /\ StatementFor(row).paid = QualifyingPayment(c)
       /\ StatementFor(row).due = UtcMidnight(PaymentDate(row))
       /\ UtcMidnight(PaymentDate(row)) \in Int
  BY <1>9, StatementIs
<1>11. /\ StatementFor(less).balance = l.billed
       /\ StatementFor(less).paid = QualifyingPayment(l)
       /\ StatementFor(less).due = UtcMidnight(PaymentDate(less))
  BY StatementIs
<1> QED
  BY <1>5, <1>6, <1>7, <1>8, <1>9, <1>10, <1>11

\* less read the same as r, with some of the statement columns missing.
ReadsLess(less, r) ==
  /\ less.at = r.at /\ less.items = r.items /\ less.settled = r.settled
  /\ DOMAIN less.credit = DOMAIN r.credit
  /\ \A a \in DOMAIN r.credit :
       /\ less.credit[a].balance = r.credit[a].balance
       /\ less.credit[a].synced = r.credit[a].synced
       /\ less.credit[a].sched = r.credit[a].sched
       /\ LessKnown(less.credit[a].cycle, r.credit[a].cycle)

\* The card's row is there too, no later and no smaller.
LEMMA LessOwes ==
  ASSUME PaymentsPositive, NEW r, ReadOK(r), NEW less, ReadOK(less), ReadsLess(less, r),
         NEW a, Owes(r, a)
  PROVE  /\ Owes(less, a)
         /\ CardDate(CardOf(less, a), r.at) <= CardDate(CardOf(r, a), r.at)
         /\ CardAmount(CardOf(r, a)) <= CardAmount(CardOf(less, a))
<1> DEFINE row == r.credit[a]
           lrow == less.credit[a]
           st == StatementFor(row)
           lst == StatementFor(lrow)
           card == CardOf(r, a)
           lcard == CardOf(less, a)
<1>1. /\ a \in Accounts /\ row \in Rows[a] \ {NoRow} /\ lrow \in Rows[a] \ {NoRow}
      /\ a \in DOMAIN r.credit /\ a \in DOMAIN less.credit
  BY DEF Owes, ReadOK, ReadsLess
<1>2. /\ lrow.balance = row.balance /\ lrow.synced = row.synced /\ lrow.sched = row.sched
      /\ LessKnown(lrow.cycle, row.cycle) /\ less.at = r.at
  BY <1>1 DEF ReadsLess
<1>3. /\ row.balance \in Int /\ row.balance > 0 /\ CardAmount(card) \in Nat /\ CardAmount(card) > 0
      /\ CardAmount(card) <= row.balance
      /\ CardDate(card, r.at) \in r.at..HorizonFrom(r.at)
  BY CardOwes DEF Owes
<1>4. Known(lrow) /\ ~BalanceStale(lrow, r.at)
  BY <1>2 DEF Owes, Known, BalanceStale
<1>5. /\ card.balance = row.balance /\ card.statement = st
      /\ lcard.balance = row.balance /\ lcard.statement = lst
  BY <1>2 DEF CardOf
<1>6. r.at \in Int /\ HorizonFrom(r.at) \in Int
  BY WindowIs DEF ReadOK
<1>7. CASE lst = Null
  <2>1. CardAmount(lcard) = row.balance /\ CardDate(lcard, r.at) = r.at
    BY <1>5, <1>7 DEF CardAmount, CardDate
  <2>2. Owes(less, a)
    BY <1>1, <1>2, <1>3, <1>4, <1>7 DEF Owes
  <2> QED
    BY <1>3, <1>6, <2>1, <2>2
<1>8. CASE lst # Null
  <2>1. /\ st # Null /\ st.balance = lst.balance /\ st.due = lst.due
        /\ st.balance \in Int /\ st.due \in Int /\ st.paid \in Int /\ lst.paid \in Int
        /\ lst.paid <= st.paid
    BY <1>1, <1>2, <1>8, LessStatement
  <2> DEFINE owed == st.balance - st.paid
             lowed == st.balance - lst.paid
  <2>2. owed \in Int /\ lowed \in Int /\ owed <= lowed
    BY <2>1
  <2>3. CardAmount(card) = Min({owed, row.balance}) /\ CardAmount(lcard) = Min({lowed, row.balance})
    BY <1>5, <1>8, <2>1 DEF CardAmount
  <2>4. CardDate(lcard, r.at) = CardDate(card, r.at)
    BY <1>5, <1>8, <2>1 DEF CardDate
  <2> HIDE DEF owed, lowed
  <2>5. /\ CardAmount(card) = IF owed <= row.balance THEN owed ELSE row.balance
        /\ CardAmount(lcard) = IF lowed <= row.balance THEN lowed ELSE row.balance
    BY <1>3, <2>2, <2>3, TwoNumbers
  <2>6. CardAmount(card) <= CardAmount(lcard) /\ CardAmount(lcard) > 0
    BY <1>3, <2>2, <2>5
  <2>7. lst.due <= HorizonFrom(r.at)
    BY <2>1 DEF Owes
  <2>8. Owes(less, a)
    BY <1>1, <1>2, <1>3, <1>4, <2>6, <2>7 DEF Owes
  <2> QED
    BY <1>3, <1>6, <2>4, <2>6, <2>8
<1> QED
  BY <1>7, <1>8

\* The cards whose rows stand by instant t, and what they owe.
CardsBy(r, t) == {a \in DOMAIN r.credit : Owes(r, a) /\ CardDate(CardOf(r, a), r.at) <= t}
AmountOf(r) == [a \in DOMAIN r.credit |-> CardAmount(CardOf(r, a))]

\* The rows of the items.
ItemRowsOf(r) == UNION {ItemEvents(i, r.items[i], r.settled, r.at) : i \in DOMAIN r.items}

\* What the items' rows alone would need.
NeededByItems(r, t) ==
  Total({e \in ItemRowsOf(r) : e.direction = "out" /\ e.date <= t})
    - Total({e \in ItemRowsOf(r) : e.direction = "in" /\ e.date < t})

LEMMA SumOfOne ==
  ASSUME NEW f, NEW x, f[x] \in Int
  PROVE  SumFunctionOnSet(f, {x}) = f[x]
<1> DEFINE S == {x}
<1>1. Summands(f, S) /\ x \in S /\ S \ {x} = {}
  BY FS_Singleton DEF Summands
<1> HIDE DEF S
<1>2. SumFunctionOnSet(f, S) = f[x] + SumFunctionOnSet(f, {})
  BY <1>1, SumRemove
<1> QED
  BY <1>2, SumEmpty DEF S

\* The rows of the cards add up to what the cards owe.
LEMMA CardsAddUp ==
  ASSUME NEW r, ReadOK(r), IsFiniteSet(DOMAIN r.credit), NEW A \in SUBSET DOMAIN r.credit,
         \A a \in A : Owes(r, a)
  PROVE  /\ IsFiniteSet({CardEvent(r, a) : a \in A})
         /\ Summands(AmountOf(r), A)
         /\ Total({CardEvent(r, a) : a \in A}) = SumFunctionOnSet(AmountOf(r), A)
<1> DEFINE card == [a \in A |-> CardEvent(r, a)]
           S == {card[a] : a \in A}
           v == [e \in S |-> e.amount]
           part == [a \in A |-> {card[a]}]
           g == AmountOf(r)
<1>1. S = {CardEvent(r, a) : a \in A}
  OBVIOUS
<1>2. IsFiniteSet(A)
  BY FS_Subset
<1>3. \A a \in A : /\ card[a].label = a /\ card[a].amount = g[a]
                   /\ g[a] \in Int
  BY CardOwes DEF CardEvent, Event, AmountOf
<1>4. \A a, b \in A : a # b => card[a] # card[b]
  BY <1>3
<1>5. Total(S) = SumFunctionOnSet(v, S)
  BY DEF Total, SumFunction
<1>6. \A a \in A : v[card[a]] = g[a] /\ card[a] \in S
  BY <1>3
<1>7. \A e \in S : v[e] \in Int
  BY <1>3
<1> HIDE DEF card, v
<1>8. IsFiniteSet(S)
  BY <1>2, FiniteImage
<1>9. S = UNION {part[a] : a \in A}
  OBVIOUS
<1>10. \A a, b \in A : a # b => part[a] \cap part[b] = {}
  BY <1>4
<1>11. \A a \in A : g[a] = SumFunctionOnSet(v, part[a])
  <2>1. ASSUME NEW a \in A PROVE g[a] = SumFunctionOnSet(v, part[a])
    <3>1. part[a] = {card[a]} /\ v[card[a]] = g[a] /\ g[a] \in Int
      BY <1>3, <1>6
    <3> HIDE DEF part, g
    <3> QED
      BY <3>1, SumOfOne
  <2> QED
    BY <2>1
<1>12. Summands(v, S)
  BY <1>7, <1>8 DEF Summands
<1>13. Summands(g, A)
  BY <1>2, <1>3 DEF Summands
<1> HIDE DEF S, part, g
<1>14. SumFunctionOnSet(g, A) = SumFunctionOnSet(v, S)
  BY <1>2, <1>9, <1>10, <1>11, <1>12, SumOfParts
<1> QED
  BY <1>1, <1>5, <1>8, <1>13, <1>14 DEF g

\* What is needed is what the cards owe and what the items need.
LEMMA NeededSplits ==
  ASSUME NEW r, ReadOK(r), IsFiniteSet(DOMAIN r.credit), IsFiniteSet(DOMAIN r.items), NEW t \in Int
  PROVE  /\ Summands(AmountOf(r), CardsBy(r, t))
         /\ NeededByItems(r, t) \in Int
         /\ NeededBy(EventsFor(r), t)
              = SumFunctionOnSet(AmountOf(r), CardsBy(r, t)) + NeededByItems(r, t)
<1> DEFINE E == EventsFor(r)
           A == CardsBy(r, t)
           C == {CardEvent(r, a) : a \in A}
           I == {e \in ItemRowsOf(r) : e.direction = "out" /\ e.date <= t}
           D == {e \in ItemRowsOf(r) : e.direction = "in" /\ e.date < t}
           O == {e \in E : e.direction = "out" /\ e.date <= t}
           v == [e \in E |-> e.amount]
<1>1. Orderly(E)
  BY RowsOrderly
<1>2. E = {CardEvent(r, a) : a \in {b \in DOMAIN r.credit : Owes(r, b)}} \cup ItemRowsOf(r)
  BY EventsAre DEF ItemRowsOf
<1>3. \A a : /\ CardEvent(r, a).label = a /\ CardEvent(r, a).direction = "out"
             /\ CardEvent(r, a).date = CardDate(CardOf(r, a), r.at)
  BY DEF CardEvent, Event
<1>4. \A e \in ItemRowsOf(r) : e.label \in DOMAIN r.items
  <2>1. ASSUME NEW i \in DOMAIN r.items, NEW e \in ItemEvents(i, r.items[i], r.settled, r.at)
        PROVE  e.label = i
    <3>1. PICK d : IsOccurrence(e, r, i, d)
      BY <2>1, ItemEventIs
    <3> QED
      BY <3>1 DEF IsOccurrence, Event
  <2> QED
    BY <2>1 DEF ItemRowsOf
<1>5. O = C \cup I /\ C \cap I = {} /\ C \in SUBSET E /\ I \in SUBSET E /\ D \in SUBSET E
  <2>1. \A a \in DOMAIN r.credit : a \notin DOMAIN r.items
    BY SweepAssumption DEF ReadOK
  <2>2. C \in SUBSET E /\ I \in SUBSET E /\ D \in SUBSET E
    BY <1>2 DEF CardsBy
  <2>3. C \cap I = {}
    BY <1>3, <1>4, <2>1 DEF CardsBy
  <2>4. O = C \cup I
    BY <1>2, <1>3 DEF CardsBy
  <2> QED
    BY <2>2, <2>3, <2>4
<1>6. {e \in E : e.direction = "in" /\ e.date < t} = D
  BY <1>2, <1>3
<1>7. NeededBy(E, t) = Total(O) - Total(D)
  BY <1>6 DEF NeededBy
<1>8. /\ Summands(AmountOf(r), A)
      /\ Total(C) = SumFunctionOnSet(AmountOf(r), A)
  <2>1. A \in SUBSET DOMAIN r.credit /\ \A a \in A : Owes(r, a)
    BY DEF CardsBy
  <2> HIDE DEF A
  <2> QED
    BY <2>1, CardsAddUp
<1>9. \A e \in E : v[e] = e.amount /\ v[e] \in Int
  BY <1>1 DEF Orderly, Worth
<1>10. ASSUME NEW S \in SUBSET E
       PROVE  Summands(v, S) /\ Total(S) = SumFunctionOnSet(v, S) /\ Total(S) \in Int
  <2> DEFINE w == [e \in S |-> e.amount]
  <2>1. IsFiniteSet(S)
    BY <1>1, FS_Subset DEF Orderly
  <2>2. Total(S) = SumFunctionOnSet(w, S)
    BY DEF Total, SumFunction
  <2>3. \A e \in S : w[e] = v[e] /\ v[e] \in Int
    BY <1>9
  <2> HIDE DEF v, w
  <2>4. SumFunctionOnSet(w, S) = SumFunctionOnSet(v, S)
    BY <2>1, <2>3, SumSame
  <2>5. Summands(v, S)
    BY <2>1, <2>3 DEF Summands
  <2> QED
    BY <2>2, <2>4, <2>5, SumIsInt
<1> HIDE DEF E, C, I, D, O, v, A
<1>11. Total(O) = Total(C) + Total(I)
  <2>1. /\ Summands(v, C) /\ Total(C) = SumFunctionOnSet(v, C)
        /\ Summands(v, I) /\ Total(I) = SumFunctionOnSet(v, I)
        /\ C \cup I \in SUBSET E
    BY <1>5, <1>10
  <2>2. Total(C \cup I) = SumFunctionOnSet(v, C \cup I)
    BY <1>10, <2>1
  <2>3. SumFunctionOnSet(v, C \cup I) = SumFunctionOnSet(v, C) + SumFunctionOnSet(v, I)
    BY <1>5, <2>1, SumJoined
  <2> QED
    BY <1>5, <2>1, <2>2, <2>3
<1>12. Total(C) \in Int /\ Total(I) \in Int /\ Total(D) \in Int
  BY <1>5, <1>10
<1>13. NeededByItems(r, t) = Total(I) - Total(D)
  BY DEF NeededByItems, I, D
<1> QED
  BY <1>7, <1>8, <1>11, <1>12, <1>13 DEF E, A

\* Knowing less, no less is needed at any instant.
LEMMA LessNeedsMore ==
  ASSUME PaymentsPositive, NEW r, ReadOK(r), NEW less, ReadOK(less), ReadsLess(less, r),
         IsFiniteSet(DOMAIN r.credit), IsFiniteSet(DOMAIN r.items), NEW t \in Int
  PROVE  NeededBy(EventsFor(r), t) <= NeededBy(EventsFor(less), t)
<1> DEFINE A == CardsBy(r, t)
           B == CardsBy(less, t)
           f == AmountOf(r)
           g == AmountOf(less)
           zero == [a \in B \ A |-> 0]
<1>1. less.at = r.at /\ less.items = r.items /\ less.settled = r.settled
      /\ DOMAIN less.credit = DOMAIN r.credit
  BY DEF ReadsLess
<1>2. ItemRowsOf(less) = ItemRowsOf(r)
  BY <1>1 DEF ItemRowsOf
<1>3. NeededByItems(less, t) = NeededByItems(r, t)
  BY <1>2 DEF NeededByItems
<1>4. /\ Summands(f, A) /\ NeededByItems(r, t) \in Int
      /\ NeededBy(EventsFor(r), t) = SumFunctionOnSet(f, A) + NeededByItems(r, t)
  BY NeededSplits
<1>5. /\ Summands(g, B)
      /\ NeededBy(EventsFor(less), t) = SumFunctionOnSet(g, B) + NeededByItems(r, t)
  <2>1. IsFiniteSet(DOMAIN less.credit) /\ IsFiniteSet(DOMAIN less.items)
    BY <1>1
  <2> QED
    BY <1>3, <2>1, NeededSplits
<1>6. \A a \in A : a \in B /\ f[a] <= g[a]
  <2>1. ASSUME NEW a \in A PROVE a \in B /\ f[a] <= g[a]
    <3>1. a \in DOMAIN r.credit /\ Owes(r, a) /\ CardDate(CardOf(r, a), r.at) <= t
      BY DEF CardsBy
    <3>2. /\ Owes(less, a)
          /\ CardDate(CardOf(less, a), r.at) <= CardDate(CardOf(r, a), r.at)
          /\ CardAmount(CardOf(r, a)) <= CardAmount(CardOf(less, a))
      BY <3>1, LessOwes
    <3>3. /\ CardDate(CardOf(r, a), r.at) \in r.at..HorizonFrom(r.at)
          /\ CardDate(CardOf(less, a), less.at) \in less.at..HorizonFrom(less.at)
      BY <3>1, <3>2, CardOwes
    <3>4. r.at \in Int /\ HorizonFrom(r.at) \in Int
      BY WindowIs DEF ReadOK
    <3>5. CardDate(CardOf(less, a), less.at) <= t
      BY <1>1, <3>1, <3>2, <3>3, <3>4
    <3> QED
      BY <1>1, <3>1, <3>2, <3>5 DEF CardsBy, AmountOf
  <2> QED
    BY <2>1
<1>7. \A b \in B : g[b] >= 0
  BY CardOwes DEF CardsBy, AmountOf
<1>8. B = A \cup (B \ A) /\ A \cap (B \ A) = {} /\ \A b \in B \ A : zero[b] = 0
  BY <1>6
<1> HIDE DEF A, B, f, g, zero
<1> DEFINE M == B \ A
<1>9. Summands(g, A) /\ Summands(g, M) /\ Summands(zero, M)
  <2>1. A \in SUBSET B /\ M \in SUBSET B
    BY <1>8
  <2>2. IsFiniteSet(A) /\ IsFiniteSet(M)
    BY <1>5, <2>1, FS_Subset DEF Summands
  <2> QED
    BY <1>5, <1>8, <2>1, <2>2 DEF Summands
<1>10. SumFunctionOnSet(f, A) <= SumFunctionOnSet(g, A)
  BY <1>4, <1>6, <1>9, SumMonotone
<1>11. SumFunctionOnSet(g, M) >= 0
  <2>1. \A b \in M : zero[b] <= g[b]
    BY <1>7, <1>8
  <2>2. \A b \in M : zero[b] = 0
    BY <1>8
  <2> HIDE DEF M
  <2>3. SumFunctionOnSet(zero, M) = 0 /\ SumFunctionOnSet(zero, M) <= SumFunctionOnSet(g, M)
    BY <1>9, <2>1, <2>2, SumOfZeros, SumMonotone DEF Summands
  <2>4. SumFunctionOnSet(g, M) \in Int
    BY <1>9, SumIsInt
  <2> QED
    BY <2>3, <2>4
<1>12. SumFunctionOnSet(g, B) = SumFunctionOnSet(g, A) + SumFunctionOnSet(g, M)
  <2>1. B = A \cup M /\ A \cap M = {}
    BY <1>8
  <2> HIDE DEF M
  <2> QED
    BY <1>9, <2>1, SumJoined
<1>13. /\ SumFunctionOnSet(f, A) \in Int /\ SumFunctionOnSet(g, A) \in Int
       /\ SumFunctionOnSet(g, M) \in Int
  <2> HIDE DEF M
  <2> QED
    BY <1>4, <1>9, SumIsInt
<1> QED
  BY <1>4, <1>5, <1>10, <1>11, <1>12, <1>13

LEMMA UnknownHolds ==
  ASSUME PaymentsPositive, Base
  PROVE  UnknownNeverLowers
<1> SUFFICES ASSUME NEW m \in Numeric, NEW n \in Numeric,
                    [inputs[m] EXCEPT !.credit = Null] = [inputs[n] EXCEPT !.credit = Null],
                    DOMAIN inputs[m].credit = DOMAIN inputs[n].credit,
                    \A a \in DOMAIN inputs[m].credit :
                      /\ [inputs[m].credit[a] EXCEPT !.cycle = Null]
                           = [inputs[n].credit[a] EXCEPT !.cycle = Null]
                      /\ LessKnown(inputs[n].credit[a].cycle, inputs[m].credit[a].cycle)
             PROVE  history[n].required >= history[m].required
  BY DEF UnknownNeverLowers
<1> DEFINE r == inputs[m]
           less == inputs[n]
<1>1. /\ ComputedFrom(history[m], r) /\ ReadOK(r) /\ DOMAIN r = ReadFields /\ Orderly(EventsFor(r))
      /\ history[m].required = Evaluate(EventsFor(r)).required
  BY NumericIs DEF ComputedFrom
<1>2. /\ ReadOK(less) /\ DOMAIN less = ReadFields /\ Orderly(EventsFor(less))
      /\ history[n].required = Evaluate(EventsFor(less)).required
  BY NumericIs DEF ComputedFrom
<1>3. IsFiniteSet(DOMAIN r.credit) /\ IsFiniteSet(DOMAIN r.items)
  BY <1>1, NumberIs
<1>4. /\ DOMAIN less.credit = DOMAIN r.credit
      /\ [r EXCEPT !.credit = Null] = [less EXCEPT !.credit = Null]
      /\ \A a \in DOMAIN r.credit :
           /\ [r.credit[a] EXCEPT !.cycle = Null] = [less.credit[a] EXCEPT !.cycle = Null]
           /\ LessKnown(less.credit[a].cycle, r.credit[a].cycle)
  OBVIOUS
<1> HIDE DEF r, less
<1>5. less.at = r.at /\ less.items = r.items /\ less.settled = r.settled
  <2>1. \A x : x \in ReadFields \ {"credit"} =>
          [r EXCEPT !.credit = Null][x] = r[x] /\ [less EXCEPT !.credit = Null][x] = less[x]
    BY <1>1, <1>2
  <2> QED
    BY <1>4, <2>1 DEF ReadFields
<1>6. ASSUME NEW a \in DOMAIN r.credit
      PROVE  /\ less.credit[a].balance = r.credit[a].balance
             /\ less.credit[a].synced = r.credit[a].synced
             /\ less.credit[a].sched = r.credit[a].sched
  <2> DEFINE c == r.credit[a]
             l == less.credit[a]
  <2>1. /\ {"balance", "savings", "synced", "cycle", "sched"} \subseteq DOMAIN c
        /\ {"balance", "savings", "synced", "cycle", "sched"} \subseteq DOMAIN l
    BY <1>1, <1>2, <1>4, RowsAssumption DEF ReadOK
  <2>2. [c EXCEPT !.cycle = Null] = [l EXCEPT !.cycle = Null]
    BY <1>4
  <2> HIDE DEF c, l
  <2>3. \A x \in {"balance", "synced", "sched"} :
          [c EXCEPT !.cycle = Null][x] = c[x] /\ [l EXCEPT !.cycle = Null][x] = l[x]
    BY <2>1
  <2>4. c.balance = l.balance /\ c.synced = l.synced /\ c.sched = l.sched
    BY <2>2, <2>3
  <2> QED
    BY <2>4 DEF c, l
<1>7. ReadsLess(less, r)
  BY <1>4, <1>5, <1>6 DEF ReadsLess
<1>8. Evaluate(EventsFor(r)).required \in Nat /\ Evaluate(EventsFor(less)).required \in Nat
  BY <1>1, <1>2, EvaluateShows
<1>9. CASE Evaluate(EventsFor(r)).required # 0
  <2>1. PICK e \in EventsFor(r) : Evaluate(EventsFor(r)).required <= NeededBy(EventsFor(r), e.date)
    BY <1>1, <1>9, HeldIsNeeded
  <2>2. e.date \in Int
    BY <1>1 DEF Orderly, Worth
  <2>3. /\ NeededBy(EventsFor(r), e.date) \in Int /\ NeededBy(EventsFor(less), e.date) \in Int
        /\ NeededBy(EventsFor(less), e.date) <= Evaluate(EventsFor(less)).required
    BY <1>1, <1>2, <2>2, NeededIsHeld
  <2>4. NeededBy(EventsFor(r), e.date) <= NeededBy(EventsFor(less), e.date)
    BY <1>1, <1>2, <1>3, <1>7, <2>2, LessNeedsMore
  <2> QED
    BY <1>1, <1>2, <1>8, <2>1, <2>3, <2>4
<1> QED
  BY <1>1, <1>2, <1>8, <1>9

\* Of two runs at one instant that read the same but for the statement columns, the one
\* that read fewer of them holds back no less, as long as the bank reports no payment
\* below nothing (buildTimeline, statementFor, qualifyingPayment).
THEOREM UnknownAlwaysCautious ==
  ASSUME PaymentsPositive
  PROVE  Spec => []UnknownNeverLowers
<1>1. Base => UnknownNeverLowers
  BY UnknownHolds
<1> QED
  BY BaseAlways, <1>1, PTL
==============================================================================
