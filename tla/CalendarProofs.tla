---------------------------- MODULE CalendarProofs ----------------------------
(***************************************************************************)
(* Facts about the calendar's arithmetic, for months of any lengths from   *)
(* 28 to 31 days.                                                          *)
(***************************************************************************)
EXTENDS Calendar, FiniteReasoning

\* f adds up d from b, where it is 0, to c.
SumsUp(f, d, b, c) == f = [n \in b..c |-> IF n = b THEN 0 ELSE f[n - 1] + d[n]]

\* Sums of a row of summands exist, however long the row.
LEMMA RowSums ==
  ASSUME NEW d, NEW b \in Int, NEW c \in Int, b <= c
  PROVE  \E f : SumsUp(f, d, b, c)
<1> DEFINE Bad == {k \in Nat : ~ \E f : SumsUp(f, d, b, b + k)}
<1>1. SUFFICES ASSUME Bad # {} PROVE FALSE
  <2>1. c - b \in Nat /\ b + (c - b) = c
    OBVIOUS
  <2> QED
    BY <1>1, <2>1
<1>2. PICK k \in Bad : \A j \in Bad : k <= j
  BY <1>1, LeastNatural
<1>3. CASE k = 0
  <2>1. SumsUp([n \in b..(b + k) |-> 0], d, b, b + k)
    BY <1>3 DEF SumsUp
  <2> QED
    BY <1>2, <2>1
<1>4. CASE k # 0
  <2>1. k - 1 \in Nat /\ k - 1 \notin Bad
    BY <1>2, <1>4
  <2>2. PICK g : SumsUp(g, d, b, b + (k - 1))
    BY <2>1
  <2> DEFINE h == [n \in b..(b + k) |-> IF n = b + k THEN g[n - 1] + d[n] ELSE g[n]]
  <2>3. ASSUME NEW n \in b..(b + k)
        PROVE  h[n] = IF n = b THEN 0 ELSE h[n - 1] + d[n]
    <3>1. \A i \in b..(b + (k - 1)) : g[i] = IF i = b THEN 0 ELSE g[i - 1] + d[i]
      BY <2>2 DEF SumsUp
    <3>2. CASE n = b + k
      BY <3>2, <1>4, <2>1
    <3>3. CASE n # b + k
      BY <3>1, <3>3, <2>1
    <3> QED
      BY <3>2, <3>3
  <2>4. SumsUp(h, d, b, b + k)
    BY <2>3 DEF SumsUp
  <2> QED
    BY <1>2, <2>4
<1> QED
  BY <1>3, <1>4

-----------------------------------------------------------------------------
(* Months.                                                                  *)

\* A month has 28 days to 31, and the next one's first day follows its last.
LEMMA MonthFollows ==
  /\ Len(MonthLengths) \in Nat
  /\ FirstDay[1] = 0
  /\ \A m \in Months : /\ MonthLengths[m] \in 28..31
                       /\ FirstDay[m + 1] = FirstDay[m] + MonthLengths[m]
<1> DEFINE L == Len(MonthLengths)
           d == [m \in 1..(L + 1) |-> MonthLengths[m - 1]]
<1>1. L \in Nat /\ \A m \in Months : MonthLengths[m] \in 28..31
  BY CalendarAssumption DEF Months
<1>2. \E f : SumsUp(f, d, 1, L + 1)
  <2>1. 1 \in Int /\ L + 1 \in Int /\ 1 <= L + 1
    BY <1>1
  <2> HIDE DEF d, L
  <2> QED
    BY <2>1, RowSums
<1>3. \E f : f = [m \in 1..(L + 1) |-> IF m = 1 THEN 0 ELSE f[m - 1] + MonthLengths[m - 1]]
  <2>1. PICK f : SumsUp(f, d, 1, L + 1)
    BY <1>2
  <2>2. \A m \in 1..(L + 1) : d[m] = MonthLengths[m - 1]
    OBVIOUS
  <2>3. f = [m \in 1..(L + 1) |-> IF m = 1 THEN 0 ELSE f[m - 1] + MonthLengths[m - 1]]
    BY <2>1, <2>2 DEF SumsUp
  <2> QED
    BY <2>3
<1>4. FirstDay = [m \in 1..(L + 1) |->
                    IF m = 1 THEN 0 ELSE FirstDay[m - 1] + MonthLengths[m - 1]]
  BY <1>3, Zenon DEF FirstDay
<1>5. \A m \in 1..(L + 1) :
        FirstDay[m] = IF m = 1 THEN 0 ELSE FirstDay[m - 1] + MonthLengths[m - 1]
  <2> HIDE DEF L
  <2> QED
    BY <1>4, Zenon
<1>6. ASSUME NEW m \in Months
      PROVE  FirstDay[m + 1] = FirstDay[m] + MonthLengths[m]
  <2>1. m + 1 \in 1..(L + 1) /\ m + 1 # 1 /\ (m + 1) - 1 = m
    BY <1>1 DEF Months
  <2> QED
    BY <1>5, <2>1
<1>7. FirstDay[1] = 0
  BY <1>1, <1>5
<1> QED
  BY <1>1, <1>6, <1>7

\* Months begin in order, 28 days apart at least.
LEMMA MonthsInOrder ==
  ASSUME NEW m \in 1..(Len(MonthLengths) + 1), NEW n \in 1..(Len(MonthLengths) + 1), m <= n
  PROVE  /\ FirstDay[m] \in Nat /\ FirstDay[n] \in Nat
         /\ m < n => FirstDay[m] + 28 <= FirstDay[n]
<1> DEFINE L == Len(MonthLengths)
           Before(k) == \A i \in 1..(k + 1) : /\ FirstDay[i] \in Nat
                                              /\ i <= k => FirstDay[i] + 28 <= FirstDay[k + 1]
           Bad == {k \in 0..L : ~Before(k)}
<1>1. L \in Nat /\ Bad \in SUBSET Nat
  BY MonthFollows
<1>2. Bad = {}
  <2>1. SUFFICES ASSUME Bad # {} PROVE FALSE
    OBVIOUS
  <2>2. PICK k \in Bad : \A j \in Bad : k <= j
    <3> HIDE DEF Bad
    <3> QED
      BY <1>1, <2>1, LeastNatural
  <2>3. CASE k = 0
    BY <2>2, <2>3, MonthFollows
  <2>4. CASE k # 0
    <3>1. k \in 1..L /\ k - 1 \in 0..L /\ (k - 1) + 1 = k
      BY <1>1, <2>4
    <3>2. k - 1 \notin Bad
      <4> HIDE DEF Bad
      <4> QED
        BY <2>2, <3>1
    <3>3. Before(k - 1)
      <4> HIDE DEF Before
      <4> QED
        BY <3>1, <3>2
    <3>4. \A i \in 1..k : FirstDay[i] \in Nat /\ (i < k => FirstDay[i] + 28 <= FirstDay[k])
      BY <3>1, <3>3
    <3>5. /\ MonthLengths[k] \in 28..31
          /\ FirstDay[k + 1] = FirstDay[k] + MonthLengths[k]
      BY <3>1, MonthFollows DEF Months
    <3>6. FirstDay[k] \in Nat /\ FirstDay[k + 1] \in Nat /\ FirstDay[k] + 28 <= FirstDay[k + 1]
      BY <3>1, <3>4, <3>5
    <3>7. ASSUME NEW i \in 1..(k + 1)
          PROVE  FirstDay[i] \in Nat /\ (i <= k => FirstDay[i] + 28 <= FirstDay[k + 1])
      <4>1. CASE i = k + 1
        BY <3>6, <4>1, <3>1
      <4>2. CASE i # k + 1
        <5>1. i \in 1..k
          BY <3>1, <4>2
        <5>2. CASE i = k
          BY <3>6, <5>2
        <5>3. CASE i # k
          <6>1. i < k
            BY <3>1, <5>1, <5>3
          <6>2. FirstDay[i] \in Nat /\ FirstDay[i] + 28 <= FirstDay[k]
            BY <3>4, <5>1, <6>1
          <6> QED
            BY <3>6, <6>2
        <5> QED
          BY <5>2, <5>3
      <4> QED
        BY <4>1, <4>2
    <3> QED
      BY <3>7, <2>2
  <2> QED
    BY <2>3, <2>4
<1>3. n - 1 \in 0..L /\ (n - 1) + 1 = n
  BY <1>1
<1>4. Before(n - 1)
  <2> HIDE DEF Before
  <2> QED
    BY <1>2, <1>3
<1>5. m \in 1..n /\ n \in 1..n
  BY <1>1
<1> QED
  BY <1>3, <1>4, <1>5

\* The day lies in the month.
Within(day, m) == m \in Months /\ day \in Int /\ FirstDay[m] <= day /\ day < FirstDay[m + 1]

LEMMA MonthBounds ==
  ASSUME NEW m \in Months
  PROVE  /\ FirstDay[m] \in Nat /\ FirstDay[m + 1] \in Nat
         /\ MonthLengths[m] \in 28..31 /\ FirstDay[m + 1] = FirstDay[m] + MonthLengths[m]
<1>1. m \in 1..(Len(MonthLengths) + 1) /\ m + 1 \in 1..(Len(MonthLengths) + 1)
  BY MonthFollows DEF Months
<1> QED
  BY <1>1, MonthFollows, MonthsInOrder

\* A day lies in one month only.
LEMMA MonthIs ==
  ASSUME NEW day, NEW m, Within(day, m)
  PROVE  MonthOf(day) = m
<1>1. ASSUME NEW k \in Months, FirstDay[k] <= day, day < FirstDay[k + 1], k # m
      PROVE  FALSE
  <2>1. /\ k \in 1..(Len(MonthLengths) + 1) /\ m \in 1..(Len(MonthLengths) + 1)
        /\ k + 1 \in 1..(Len(MonthLengths) + 1) /\ m + 1 \in 1..(Len(MonthLengths) + 1)
    BY MonthFollows DEF Months, Within
  <2>2. CASE k < m
    <3>1. FirstDay[k + 1] <= FirstDay[m]
      BY <2>1, <2>2, MonthsInOrder
    <3> QED
      BY <1>1, <3>1, <2>1, MonthsInOrder DEF Within
  <2>3. CASE m < k
    <3>1. FirstDay[m + 1] <= FirstDay[k]
      BY <2>1, <2>3, MonthsInOrder
    <3> QED
      BY <1>1, <3>1, <2>1, MonthsInOrder DEF Within
  <2> QED
    BY <2>1, <2>2, <2>3, <1>1, MonthFollows
<1> QED
  BY <1>1 DEF MonthOf, Within

\* Every day of the calendar lies in one.
LEMMA DayHasMonth ==
  ASSUME NEW day \in Days
  PROVE  \E m \in Months : Within(day, m)
<1> DEFINE L == Len(MonthLengths)
           K == {k \in 1..(L + 1) : day < FirstDay[k]}
<1>1. /\ L \in Nat /\ FirstDay[1] = 0 /\ FirstDay[L + 1] \in Nat
      /\ \A k \in 1..(L + 1) : FirstDay[k] \in Nat
  <2>1. \A k \in 1..(L + 1) : FirstDay[k] \in Nat
    <3>1. \A k \in 1..(L + 1) : k <= k
      OBVIOUS
    <3> QED
      BY <3>1, MonthsInOrder
  <2>2. L \in Nat /\ FirstDay[1] = 0
    BY MonthFollows
  <2> QED
    BY <2>1, <2>2
<1>2. day \in Nat /\ day < FirstDay[L + 1]
  BY <1>1 DEF Days
<1> HIDE DEF L
<1>3. K \in SUBSET Nat /\ K # {}
  BY <1>1, <1>2
<1>4. PICK k \in K : \A j \in K : k <= j
  <2> HIDE DEF K
  <2> QED
    BY <1>3, LeastNatural
<1>5. k \in 1..(L + 1) /\ day < FirstDay[k] /\ k # 1
  BY <1>1, <1>2, <1>4
<1>6. k - 1 \in 1..L /\ k - 1 \in 1..(L + 1) /\ k - 1 \notin K
  <2>1. k - 1 \in 1..L /\ k - 1 \in 1..(L + 1) /\ ~(k <= k - 1)
    BY <1>1, <1>5
  <2> HIDE DEF K
  <2> QED
    BY <1>4, <2>1
<1>7. FirstDay[k - 1] <= day
  BY <1>1, <1>2, <1>6
<1>8. (k - 1) + 1 = k
  BY <1>5
<1> QED
  BY <1>2, <1>5, <1>6, <1>7, <1>8 DEF Within, Months, L

\* A later day lies in no earlier month.
LEMMA MonthsAdvance ==
  ASSUME NEW day, NEW m, Within(day, m), NEW later, NEW n, Within(later, n), day <= later
  PROVE  m <= n
<1>1. m \in Int /\ n \in Int /\ n + 1 \in 1..(Len(MonthLengths) + 1)
      /\ m \in 1..(Len(MonthLengths) + 1)
  BY MonthFollows DEF Within, Months
<1>2. CASE n + 1 <= m
  <2>1. /\ FirstDay[n + 1] \in Nat /\ FirstDay[m] \in Nat
        /\ n + 1 < m => FirstDay[n + 1] + 28 <= FirstDay[m]
    BY <1>1, <1>2, MonthsInOrder
  <2>2. FirstDay[n + 1] <= FirstDay[m]
    BY <1>1, <1>2, <2>1
  <2> QED
    BY <2>1, <2>2 DEF Within
<1> QED
  BY <1>1, <1>2

\* The lesser and the greater of two numbers.
LEMMA TwoNumbers ==
  ASSUME NEW a \in Int, NEW b \in Int
  PROVE  /\ Min({a, b}) = IF a <= b THEN a ELSE b
         /\ Max({a, b}) = IF a <= b THEN b ELSE a
BY DEF Min, Max

\* The least and the greatest of a set are what they should be.
LEMMA ExtremeIs ==
  ASSUME NEW S \in SUBSET Int, NEW x \in S
  PROVE  /\ (\A y \in S : y <= x) => Max(S) = x
         /\ (\A y \in S : x <= y) => Min(S) = x
<1>0. \A y \in S : y \in Int
  OBVIOUS
<1>1. ASSUME \A y \in S : y <= x PROVE Max(S) = x
  <2>1. \E z \in S : \A y \in S : z >= y
    BY <1>1
  <2>2. Max(S) \in S /\ \A y \in S : Max(S) >= y
    BY <2>1 DEF Max
  <2>3. Max(S) <= x /\ x <= Max(S) /\ Max(S) \in Int /\ x \in Int
    BY <1>0, <1>1, <2>2
  <2> QED
    BY <2>3
<1>2. ASSUME \A y \in S : x <= y PROVE Min(S) = x
  <2>1. \E z \in S : \A y \in S : z <= y
    BY <1>2
  <2>2. Min(S) \in S /\ \A y \in S : Min(S) <= y
    BY <2>1 DEF Min
  <2>3. Min(S) <= x /\ x <= Min(S) /\ Min(S) \in Int /\ x \in Int
    BY <1>0, <1>2, <2>2
  <2> QED
    BY <2>3
<1> QED
  BY <1>1, <1>2

\* So many months on from a day of month m, short months cut off.
LEMMA MonthsOn ==
  ASSUME NEW day, NEW m, Within(day, m), NEW n \in Int, m + n \in Months
  PROVE  /\ Within(AddMonthsClamped(day, n), m + n)
         /\ AddMonthsClamped(day, n) =
              FirstDay[m + n] + (IF day - FirstDay[m] + 1 <= MonthLengths[m + n]
                                 THEN day - FirstDay[m] ELSE MonthLengths[m + n] - 1)
<1>1. MonthOf(day) = m
  BY MonthIs
<1>2. /\ FirstDay[m] \in Nat /\ FirstDay[m + n] \in Nat /\ MonthLengths[m + n] \in 28..31
      /\ FirstDay[m + n + 1] = FirstDay[m + n] + MonthLengths[m + n]
  BY MonthBounds DEF Within
<1>3. Min({day - FirstDay[m] + 1, MonthLengths[m + n]}) =
        IF day - FirstDay[m] + 1 <= MonthLengths[m + n]
        THEN day - FirstDay[m] + 1 ELSE MonthLengths[m + n]
  BY <1>2, TwoNumbers DEF Within
<1>4. AddMonthsClamped(day, n) =
        FirstDay[m + n] + Min({day - FirstDay[m] + 1, MonthLengths[m + n]}) - 1
  BY <1>1 DEF AddMonthsClamped, DayOfMonth, DaysInMonth
<1> QED
  BY <1>2, <1>3, <1>4 DEF Within

-----------------------------------------------------------------------------
(* Occurrences.                                                             *)

\* What Occurrences needs of a declaration.
Declared(item) ==
  /\ item.cadence \in {"monthly", "biweekly"}
  /\ item.day \in Nat /\ item.anchor \in Int \cup {NoDate}

LEMMA OccurrencesInside ==
  ASSUME NEW item, NEW from \in Int, NEW to \in Int
  PROVE  /\ Occurrences(item, from, to) \subseteq from..to
         /\ IsFiniteSet(Occurrences(item, from, to))
<1>1. Occurrences(item, from, to) \subseteq from..to
  BY DEF Occurrences, MonthlyOccurrences, BiweeklyOccurrences
<1> QED
  BY <1>1, FS_Interval, FS_Subset

\* An occurrence of a longer window is one of a shorter window it lies in.
LEMMA OccurrencesNarrowed ==
  ASSUME NEW item, NEW from \in Int, NEW to \in Int, NEW day \in Occurrences(item, from, to),
         NEW a \in Int, NEW b \in Int, a <= day, day <= b
  PROVE  day \in Occurrences(item, a, b)
<1>1. day \in from..to
  BY OccurrencesInside
<1> QED
  BY <1>1 DEF Occurrences, MonthlyOccurrences, BiweeklyOccurrences

\* A monthly item's occurrence of a month lies in it.
LEMMA MonthlyIs ==
  ASSUME NEW item, item.day \in Nat, NEW m \in Months
  PROVE  /\ Within(MonthlyOccurrenceIn(item, m), m)
         /\ MonthlyOccurrenceIn(item, m) =
              FirstDay[m] + (IF item.day < 1 THEN 0
                             ELSE IF item.day <= MonthLengths[m] THEN item.day - 1
                             ELSE MonthLengths[m] - 1)
<1>1. /\ FirstDay[m] \in Nat /\ MonthLengths[m] \in 28..31
      /\ FirstDay[m + 1] = FirstDay[m] + MonthLengths[m]
  BY MonthBounds
<1> DEFINE d == Max({item.day, 1})
<1>2. d = IF item.day <= 1 THEN 1 ELSE item.day
  BY TwoNumbers
<1>3. d \in Nat
  BY <1>2
<1>4. Min({d, MonthLengths[m]}) = IF d <= MonthLengths[m] THEN d ELSE MonthLengths[m]
  <2> HIDE DEF d
  <2> QED
    BY <1>1, <1>3, TwoNumbers
<1>5. MonthlyOccurrenceIn(item, m) = FirstDay[m] + Min({d, MonthLengths[m]}) - 1
  BY DEF MonthlyOccurrenceIn, DaysInMonth
<1> HIDE DEF d
<1> QED
  BY <1>1, <1>2, <1>4, <1>5 DEF Within

\* One cadence back is at most a month back.
LEMMA OneCadenceBack ==
  ASSUME NEW item, Declared(item), NEW day, NEW m, Within(day, m), m - 1 \in Months
  PROVE  /\ OneCadenceBefore(item, day) \in Nat
         /\ OneCadenceBefore(item, day) < day
         /\ OneCadenceBefore(item, day) >= AddMonthsClamped(day, -1)
<1>1. /\ FirstDay[m - 1] \in Nat /\ FirstDay[m] = FirstDay[m - 1] + MonthLengths[m - 1]
      /\ MonthLengths[m - 1] \in 28..31 /\ (m - 1) + 1 = m /\ m + (-1) = m - 1 /\ m \in Int
  <2>1. m \in Int /\ (m - 1) + 1 = m
    BY MonthFollows DEF Within, Months
  <2> QED
    BY <2>1, MonthBounds
<1>2. /\ Within(AddMonthsClamped(day, -1), m - 1)
      /\ AddMonthsClamped(day, -1) =
           FirstDay[m - 1] + (IF day - FirstDay[m] + 1 <= MonthLengths[m - 1]
                              THEN day - FirstDay[m] ELSE MonthLengths[m - 1] - 1)
  BY <1>1, MonthsOn
<1>3. CASE item.cadence = "biweekly"
  <2>1. OneCadenceBefore(item, day) = day - 14
    BY <1>3 DEF OneCadenceBefore, BiweeklyStepDays
  <2> QED
    BY <2>1, <1>1, <1>2 DEF Within
<1>4. CASE item.cadence = "monthly"
  <2>1. OneCadenceBefore(item, day) = AddMonthsClamped(day, -1)
    BY <1>4 DEF OneCadenceBefore
  <2> QED
    BY <2>1, <1>1, <1>2 DEF Within
<1> QED
  BY <1>3, <1>4 DEF Declared

\* The last occurrence that has fallen due lies at most one cadence back, however short
\* the months between.
LEMMA LatestDue ==
  ASSUME NEW item, Declared(item), NEW today, NEW m, Within(today, m), m - 1 \in Months,
         Occurrences(item, 0, today) # {}
  PROVE  Max(Occurrences(item, 0, today))
           \in Occurrences(item, OneCadenceBefore(item, today), today)
<1> DEFINE due == Occurrences(item, 0, today)
<1>1. today \in Nat /\ m \in Int /\ (m - 1) + 1 = m
  <2>1. m \in Int /\ (m - 1) + 1 = m /\ FirstDay[m] \in Nat
    BY MonthFollows, MonthBounds DEF Within, Months
  <2> QED
    BY <2>1 DEF Within
<1>2. due \subseteq 0..today /\ IsFiniteSet(due)
  BY <1>1, OccurrencesInside
<1>3. PICK last \in due : \A d \in due : d <= last
  <2> HIDE DEF due
  <2>1. due \in SUBSET Int /\ due # {}
    BY <1>2 DEF due
  <2> QED
    BY <1>2, <2>1, FiniteMaximum
<1>4. Max(due) = last
  <2> HIDE DEF due
  <2>1. due \in SUBSET Int
    BY <1>2
  <2> QED
    BY <2>1, <1>3, ExtremeIs
<1>5. /\ OneCadenceBefore(item, today) \in Nat
      /\ OneCadenceBefore(item, today) < today
  BY OneCadenceBack
<1>6. OneCadenceBefore(item, today) <= last
  <2>1. CASE item.cadence = "biweekly"
    <3>1. OneCadenceBefore(item, today) = today - 14
      BY <2>1 DEF OneCadenceBefore, BiweeklyStepDays
    <3>2. /\ item.anchor \in Int
          /\ \A d \in 0..today : d \in due <=> (d - item.anchor) % 14 = 0
      BY <2>1, <1>3 DEF Declared, Occurrences, BiweeklyOccurrences, BiweeklyStepDays
    <3>3. CASE last < today - 14
      <4>1. last + 14 \in 0..today /\ last \in 0..today
        BY <1>1, <1>2, <1>3, <3>3
      <4>2. ((last + 14) - item.anchor) % 14 = (last - item.anchor) % 14
        BY <3>2, <4>1
      <4>3. last + 14 \in due
        BY <3>2, <4>1, <4>2, <1>3
      <4> QED
        BY <1>3, <4>1, <4>3
    <3> QED
      BY <1>1, <1>2, <1>3, <3>1, <3>3
  <2>2. CASE item.cadence = "monthly"
    <3> DEFINE there == MonthlyOccurrenceIn(item, m - 1)
               here == MonthlyOccurrenceIn(item, m)
    <3>1. /\ Within(there, m - 1) /\ Within(here, m)
          /\ there = FirstDay[m - 1] + (IF item.day < 1 THEN 0
                                        ELSE IF item.day <= MonthLengths[m - 1] THEN item.day - 1
                                        ELSE MonthLengths[m - 1] - 1)
          /\ here = FirstDay[m] + (IF item.day < 1 THEN 0
                                   ELSE IF item.day <= MonthLengths[m] THEN item.day - 1
                                   ELSE MonthLengths[m] - 1)
      BY MonthlyIs DEF Declared, Within
    <3>2. /\ FirstDay[m - 1] \in Nat /\ FirstDay[m] = FirstDay[m - 1] + MonthLengths[m - 1]
          /\ MonthLengths[m - 1] \in 28..31
          /\ MonthLengths[m] \in 28..31 /\ FirstDay[m + 1] = FirstDay[m] + MonthLengths[m]
      BY <1>1, MonthBounds DEF Within
    <3>3. OneCadenceBefore(item, today) =
            FirstDay[m - 1] + (IF today - FirstDay[m] + 1 <= MonthLengths[m - 1]
                               THEN today - FirstDay[m] ELSE MonthLengths[m - 1] - 1)
      <4>1. m + (-1) = m - 1
        BY <1>1
      <4>2. OneCadenceBefore(item, today) = AddMonthsClamped(today, -1)
        BY <2>2 DEF OneCadenceBefore
      <4> QED
        BY <4>1, <4>2, MonthsOn
    <3>4. \A k \in Months : MonthlyOccurrenceIn(item, k) \in 0..today
                              => MonthlyOccurrenceIn(item, k) \in due
      BY <2>2 DEF Occurrences, MonthlyOccurrences
    <3>5. CASE here <= today
      <4>1. here \in due
        BY <3>1, <3>2, <3>4, <3>5, <1>1 DEF Within
      <4>2. here <= last
        BY <1>3, <4>1
      <4> HIDE DEF due, here, there
      <4> QED
        BY <1>1, <1>2, <1>3, <3>1, <3>2, <3>3, <4>2 DEF Within
    <3>6. CASE here > today
      <4>1. there \in due
        BY <3>1, <3>2, <3>4, <1>1 DEF Within
      <4>2. there <= last
        BY <1>3, <4>1
      <4>3. OneCadenceBefore(item, today) <= there
        <5> HIDE DEF due, here, there
        <5> QED
          BY <3>1, <3>2, <3>3, <3>6, <1>1 DEF Declared, Within
      <4> HIDE DEF due, here, there
      <4> QED
        BY <1>1, <1>2, <1>3, <1>5, <3>1, <4>2, <4>3 DEF Within
    <3> QED
      <4>1. here \in Int
        BY <3>1 DEF Within
      <4> QED
        BY <3>5, <3>6, <4>1, <1>1
  <2> QED
    BY <2>1, <2>2 DEF Declared
<1>7. last \in 0..today
  BY <1>2, <1>3
<1>8. last \in Occurrences(item, OneCadenceBefore(item, today), today)
  BY <1>1, <1>3, <1>5, <1>6, <1>7, OccurrencesNarrowed
<1> QED
  BY <1>4, <1>8
==============================================================================
