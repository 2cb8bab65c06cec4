--------------------------- MODULE FiniteReasoning ---------------------------
(***************************************************************************)
(* Facts about finite sets the proofs of the components share.             *)
(*                                                                         *)
(* Induction on finite sets without an operator parameter: to prove that   *)
(* every finite set of some kind has a property, take a minimal one that   *)
(* has not.                                                                *)
(*                                                                         *)
(* What sums over finite sets obey, for SumFunctionOnSet and SumFunction   *)
(* of the community module Functions: a sum does not depend on the order   *)
(* of its terms, so sums may be split, joined and compared term by term.   *)
(***************************************************************************)
EXTENDS Integers, FiniteSets, Functions, FiniteSetTheorems, WellFoundedInduction, TLAPS

-----------------------------------------------------------------------------
(* Minimal members.                                                         *)

\* A nonempty family of finite sets has a member minimal for inclusion.
LEMMA MinimalMember ==
  ASSUME NEW S, NEW F \in SUBSET FiniteSubsetsOf(S), F # {}
  PROVE  \E T \in F : \A U \in F : U \subseteq T => U = T
<1> DEFINE R == StrictSubsetOrdering(S)
<1>1. IsWellFoundedOn(R, FiniteSubsetsOf(S))
  BY FS_StrictSubsetOrderingWellFounded
<1>2. F \subseteq FiniteSubsetsOf(S)
  OBVIOUS
<1>3. \E x \in F : \A y \in F : ~ (<<y, x>> \in R)
  <2> HIDE DEF R
  <2> QED
    BY <1>1, <1>2, WFMin
<1> QED
  BY <1>3 DEF FiniteSubsetsOf, StrictSubsetOrdering

\* Finitely many integers have a greatest one ...
LEMMA FiniteMaximum ==
  ASSUME NEW S \in SUBSET Int, IsFiniteSet(S), S # {}
  PROVE  \E x \in S : \A y \in S : y <= x
<1> DEFINE Bounded(T) == \E x \in T : \A y \in T : y <= x
           Bad == {T \in FiniteSubsetsOf(S) : T # {} /\ ~Bounded(T)}
<1>1. SUFFICES ASSUME Bad # {} PROVE FALSE
  BY FS_Subset DEF FiniteSubsetsOf
<1>2. PICK T \in Bad : \A U \in Bad : U \subseteq T => U = T
  <2>1. Bad \in SUBSET FiniteSubsetsOf(S)
    OBVIOUS
  <2> HIDE DEF Bad
  <2> QED
    BY <1>1, <2>1, MinimalMember
<1>3. PICK x \in T : TRUE
  OBVIOUS
<1> DEFINE U == T \ {x}
<1>4. U = {} \/ Bounded(U)
  <2>1. U \in FiniteSubsetsOf(S) /\ U \subseteq T /\ U # T
    BY <1>3, FS_RemoveElement DEF FiniteSubsetsOf
  <2> QED
    BY <1>2, <2>1
<1>5. T \subseteq Int
  BY DEF FiniteSubsetsOf
<1> QED
  BY <1>3, <1>4, <1>5

\* ... and a least one.
LEMMA FiniteMinimum ==
  ASSUME NEW S \in SUBSET Int, IsFiniteSet(S), S # {}
  PROVE  \E x \in S : \A y \in S : x <= y
<1> DEFINE Bounded(T) == \E x \in T : \A y \in T : x <= y
           Bad == {T \in FiniteSubsetsOf(S) : T # {} /\ ~Bounded(T)}
<1>1. SUFFICES ASSUME Bad # {} PROVE FALSE
  BY FS_Subset DEF FiniteSubsetsOf
<1>2. PICK T \in Bad : \A U \in Bad : U \subseteq T => U = T
  <2>1. Bad \in SUBSET FiniteSubsetsOf(S)
    OBVIOUS
  <2> HIDE DEF Bad
  <2> QED
    BY <1>1, <2>1, MinimalMember
<1>3. PICK x \in T : TRUE
  OBVIOUS
<1> DEFINE U == T \ {x}
<1>4. U = {} \/ Bounded(U)
  <2>1. U \in FiniteSubsetsOf(S) /\ U \subseteq T /\ U # T
    BY <1>3, FS_RemoveElement DEF FiniteSubsetsOf
  <2> QED
    BY <1>2, <2>1
<1>5. T \subseteq Int
  BY DEF FiniteSubsetsOf
<1> QED
  BY <1>3, <1>4, <1>5

\* A nonempty set of naturals, finite or not, has a least member.
LEMMA LeastNatural ==
  ASSUME NEW S \in SUBSET Nat, S # {}
  PROVE  \E x \in S : \A y \in S : x <= y
<1>1. PICK n : n \in S
  OBVIOUS
<1> DEFINE T == {y \in S : y <= n}
<1>2. n \in Nat /\ n <= n
  BY <1>1
<1>3. n \in T /\ T \subseteq S
  BY <1>1, <1>2
<1>4. ASSUME NEW y \in S, y \notin T PROVE n <= y
  <2>1. y \in Nat /\ ~(y <= n)
    BY <1>4
  <2> QED
    BY <1>2, <2>1
<1>5. \A y \in T : y <= n
  OBVIOUS
<1> HIDE DEF T
<1>6. T \in SUBSET Nat
  BY <1>3
<1>7. IsFiniteSet(T)
  BY <1>2, <1>5, <1>6, FS_BoundedSetOfNaturals
<1>8. T \in SUBSET Int /\ T # {}
  BY <1>3, <1>6
<1>9. PICK x \in T : \A y \in T : x <= y
  BY <1>7, <1>8, FiniteMinimum
<1>10. ASSUME NEW y \in S PROVE x <= y
  <2>1. x \in Nat /\ y \in Nat /\ x <= n
    BY <1>5, <1>6
  <2> QED
    BY <1>2, <1>4, <1>9, <2>1
<1> QED
  BY <1>3, <1>10

\* The image of a finite set under a function is finite.
LEMMA FiniteImage ==
  ASSUME NEW S, IsFiniteSet(S), NEW f
  PROVE  IsFiniteSet({f[x] : x \in S})
<1> DEFINE T == {f[x] : x \in S}
           g == [x \in S |-> f[x]]
<1>1. g \in Surjection(S, T)
  BY DEF Surjection
<1> HIDE DEF g, T
<1>2. IsFiniteSet(T)
  BY <1>1, FS_Surjection
<1> QED
  BY <1>2 DEF T

-----------------------------------------------------------------------------
(* Sums.                                                                    *)

Summands(f, S) == IsFiniteSet(S) /\ \A x \in S : f[x] \in Int

\* iter adds up f over the subsets of S of a family that is closed downwards.
Adds(iter, f, D) ==
  iter = [s \in D |->
            IF s = {} THEN 0 ELSE f[CHOOSE x \in s : TRUE] + iter[s \ {CHOOSE x \in s : TRUE}]]

Agree(f, g, S) == \A x \in S : f[x] = g[x]

LEMMA SumUnfolded ==
  ASSUME NEW f, NEW S
  PROVE  SumFunctionOnSet(f, S) = (CHOOSE iter : Adds(iter, f, SUBSET S))[S]
BY Zenon DEF SumFunctionOnSet, FoldFunctionOnSet, MapThenFoldSet, Adds

\* The recursion is well defined: by the number of terms.
LEMMA SumDefined ==
  ASSUME NEW f, NEW S, IsFiniteSet(S)
  PROVE  \E iter : Adds(iter, f, SUBSET S)
<1> DEFINE D(n) == {s \in SUBSET S : Cardinality(s) <= n}
           Bad == {n \in Nat : ~ \E iter : Adds(iter, f, D(n))}
<1>1. \A s \in SUBSET S :
        IsFiniteSet(s) /\ Cardinality(s) \in Nat /\ Cardinality(s) <= Cardinality(S)
  BY FS_Subset, FS_CardinalityType
<1>2. Cardinality(S) \in Nat /\ D(Cardinality(S)) = SUBSET S
  BY <1>1
<1>3. SUFFICES ASSUME Bad # {} PROVE FALSE
  BY <1>2
<1>4. PICK n \in Bad : \A m \in Bad : n <= m
  <2>1. Bad \in SUBSET Nat
    OBVIOUS
  <2> HIDE DEF Bad
  <2> QED
    BY <1>3, <2>1, LeastNatural
<1>5. CASE n = 0
  <2>1. \A s \in D(0) : s = {}
    <3> SUFFICES ASSUME NEW s \in SUBSET S, Cardinality(s) <= 0 PROVE s = {}
      OBVIOUS
    <3>1. Cardinality(s) = 0
      BY <1>1
    <3> QED
      BY <1>1, <3>1, FS_EmptySet
  <2>2. Adds([s \in D(0) |-> 0], f, D(0))
    BY <2>1 DEF Adds
  <2> QED
    BY <1>5, <2>2
<1>6. CASE n # 0
  <2>1. n - 1 \in Nat /\ n - 1 \notin Bad
    <3>1. n \in Nat /\ n - 1 \in Nat /\ ~(n <= n - 1)
      BY <1>6
    <3> HIDE DEF Bad
    <3> QED
      BY <1>4, <3>1
  <2>2. PICK g : Adds(g, f, D(n - 1))
    BY <2>1
  <2> DEFINE c(s) == CHOOSE x \in s : TRUE
             h == [s \in D(n) |-> IF s = {} THEN 0 ELSE f[c(s)] + g[s \ {c(s)}]]
  <2>3. \A s \in D(n - 1) : g[s] = IF s = {} THEN 0 ELSE f[c(s)] + g[s \ {c(s)}]
    BY <2>2, Zenon DEF Adds
  <2>4. ASSUME NEW s \in D(n), s # {} PROVE s \ {c(s)} \in D(n - 1)
    <3>1. c(s) \in s
      BY <2>4
    <3>2. Cardinality(s \ {c(s)}) = Cardinality(s) - 1
      BY <1>1, <3>1, FS_RemoveElement
    <3> QED
      BY <1>1, <2>1, <3>2
  <2>5. D(n - 1) \subseteq D(n)
    BY <1>1, <2>1
  <2> HIDE DEF D
  <2>6. \A s \in D(n - 1) : h[s] = g[s]
    BY <2>3, <2>5
  <2>7. h = [s \in D(n) |-> IF s = {} THEN 0 ELSE f[c(s)] + h[s \ {c(s)}]]
    <3>1. \A s \in D(n) : s # {} => h[s \ {c(s)}] = g[s \ {c(s)}]
      BY <2>4, <2>6
    <3>2. \A s \in D(n) : s # {} => f[c(s)] + h[s \ {c(s)}] = f[c(s)] + g[s \ {c(s)}]
      BY <3>1
    <3>3. [s \in D(n) |-> IF s = {} THEN 0 ELSE f[c(s)] + h[s \ {c(s)}]]
             = [s \in D(n) |-> IF s = {} THEN 0 ELSE f[c(s)] + g[s \ {c(s)}]]
      BY <3>2, Zenon
    <3> QED
      BY <3>3, Zenon
  <2>8. Adds(h, f, D(n))
    <3> HIDE DEF h
    <3> QED
      BY <2>7 DEF Adds
  <2> QED
    BY <2>8
<1> QED
  BY <1>5, <1>6

\* It depends on the terms alone.
LEMMA SumUnique ==
  ASSUME NEW f, NEW g, NEW S, NEW T, NEW h, NEW k,
         Adds(h, f, SUBSET S), Adds(k, g, SUBSET T),
         NEW U, U \subseteq S, U \subseteq T, IsFiniteSet(U), Agree(f, g, U)
  PROVE  h[U] = k[U]
<1> DEFINE Bad == {s \in FiniteSubsetsOf(U) : h[s] # k[s]}
<1>1. SUFFICES ASSUME Bad # {} PROVE FALSE
  BY FS_Subset DEF FiniteSubsetsOf
<1>2. PICK s \in Bad : \A t \in Bad : t \subseteq s => t = s
  <2>1. Bad \in SUBSET FiniteSubsetsOf(U)
    OBVIOUS
  <2> HIDE DEF Bad
  <2> QED
    BY <1>1, <2>1, MinimalMember
<1>3. s \subseteq U /\ IsFiniteSet(s) /\ s \in SUBSET S /\ s \in SUBSET T
  BY DEF FiniteSubsetsOf
<1> DEFINE c == CHOOSE x \in s : TRUE
<1>4. /\ h[s] = IF s = {} THEN 0 ELSE f[c] + h[s \ {c}]
      /\ k[s] = IF s = {} THEN 0 ELSE g[c] + k[s \ {c}]
  BY <1>3, Zenon DEF Adds
<1>5. s # {}
  BY <1>2, <1>4
<1>6. c \in s
  BY <1>5
<1> HIDE DEF c
<1>7. s \ {c} \in FiniteSubsetsOf(U) /\ s \ {c} # s
  BY <1>3, <1>6, FS_RemoveElement DEF FiniteSubsetsOf
<1>8. h[s \ {c}] = k[s \ {c}]
  BY <1>2, <1>7
<1> QED
  BY <1>2, <1>3, <1>4, <1>5, <1>6, <1>8 DEF Agree

\* What has been added up over a part is the sum over it.
LEMMA SumOfPart ==
  ASSUME NEW f, NEW S, IsFiniteSet(S), NEW h, Adds(h, f, SUBSET S), NEW T \in SUBSET S
  PROVE  h[T] = SumFunctionOnSet(f, T)
<1> DEFINE k == CHOOSE iter : Adds(iter, f, SUBSET T)
<1>1. IsFiniteSet(T)
  BY FS_Subset
<1>2. Adds(k, f, SUBSET T)
  BY <1>1, SumDefined, Zenon
<1>3. SumFunctionOnSet(f, T) = k[T]
  BY SumUnfolded
<1>4. T \subseteq T /\ Agree(f, f, T)
  BY DEF Agree
<1> HIDE DEF k
<1> QED
  BY <1>1, <1>2, <1>3, <1>4, SumUnique

\* Equal terms, equal sums.
LEMMA SumSame ==
  ASSUME NEW f, NEW g, NEW S, IsFiniteSet(S), \A x \in S : f[x] = g[x]
  PROVE  SumFunctionOnSet(f, S) = SumFunctionOnSet(g, S)
<1> DEFINE h == CHOOSE iter : Adds(iter, f, SUBSET S)
           k == CHOOSE iter : Adds(iter, g, SUBSET S)
<1>1. Adds(h, f, SUBSET S) /\ Adds(k, g, SUBSET S)
  BY SumDefined, Zenon
<1>2. SumFunctionOnSet(f, S) = h[S] /\ SumFunctionOnSet(g, S) = k[S]
  BY SumUnfolded
<1>3. Agree(f, g, S) /\ S \subseteq S
  BY DEF Agree
<1> HIDE DEF h, k
<1> QED
  BY <1>1, <1>2, <1>3, SumUnique

LEMMA SumEmpty == ASSUME NEW f PROVE SumFunctionOnSet(f, {}) = 0
<1> DEFINE h == CHOOSE iter : Adds(iter, f, SUBSET {})
<1>1. Adds(h, f, SUBSET {})
  BY SumDefined, FS_EmptySet, Zenon
<1>2. SumFunctionOnSet(f, {}) = h[{}]
  BY SumUnfolded
<1> HIDE DEF h
<1> QED
  BY <1>1, <1>2 DEF Adds

\* The first term taken.
LEMMA SumFirst ==
  ASSUME NEW f, NEW S, IsFiniteSet(S), S # {}
  PROVE  \E c \in S : SumFunctionOnSet(f, S) = f[c] + SumFunctionOnSet(f, S \ {c})
<1> DEFINE h == CHOOSE iter : Adds(iter, f, SUBSET S)
           c == CHOOSE x \in S : TRUE
<1>1. c \in S
  OBVIOUS
<1> HIDE DEF c
<1>3. Adds(h, f, SUBSET S)
  BY SumDefined, Zenon
<1>4. SumFunctionOnSet(f, S) = h[S]
  BY SumUnfolded
<1> HIDE DEF h
<1>5. h[S \ {c}] = SumFunctionOnSet(f, S \ {c})
  <2>1. \A T \in SUBSET S : h[T] = SumFunctionOnSet(f, T)
    BY <1>3, SumOfPart
  <2> QED
    BY <2>1
<1>6. h[S] = f[c] + h[S \ {c}]
  BY <1>3, Zenon DEF Adds, c
<1> QED
  BY <1>1, <1>4, <1>5, <1>6

LEMMA SumIsInt ==
  ASSUME NEW f, NEW S, Summands(f, S)
  PROVE  SumFunctionOnSet(f, S) \in Int
<1> USE DEF Summands
<1> DEFINE Bad == {T \in FiniteSubsetsOf(S) : SumFunctionOnSet(f, T) \notin Int}
<1>1. SUFFICES ASSUME Bad # {} PROVE FALSE
  BY FS_Subset DEF FiniteSubsetsOf
<1>2. PICK T \in Bad : \A U \in Bad : U \subseteq T => U = T
  <2>1. Bad \in SUBSET FiniteSubsetsOf(S)
    OBVIOUS
  <2> HIDE DEF Bad
  <2> QED
    BY <1>1, <2>1, MinimalMember
<1>3. T # {} /\ IsFiniteSet(T) /\ T \subseteq S
  BY SumEmpty DEF FiniteSubsetsOf
<1>4. PICK c \in T : SumFunctionOnSet(f, T) = f[c] + SumFunctionOnSet(f, T \ {c})
  BY <1>3, SumFirst
<1>5. T \ {c} \in FiniteSubsetsOf(S) /\ T \ {c} # T
  BY <1>3, FS_RemoveElement DEF FiniteSubsetsOf
<1>6. SumFunctionOnSet(f, T \ {c}) \in Int
  BY <1>2, <1>5
<1> QED
  BY <1>2, <1>3, <1>4, <1>6

\* Any term may be taken first.
LEMMA SumRemove ==
  ASSUME NEW f, NEW S, Summands(f, S), NEW x \in S
  PROVE  SumFunctionOnSet(f, S) = f[x] + SumFunctionOnSet(f, S \ {x})
<1> USE DEF Summands
<1> DEFINE Splits(T) ==
             \A y \in T : SumFunctionOnSet(f, T) = f[y] + SumFunctionOnSet(f, T \ {y})
           Bad == {T \in FiniteSubsetsOf(S) : ~Splits(T)}
<1>1. SUFFICES ASSUME Bad # {} PROVE FALSE
  BY FS_Subset DEF FiniteSubsetsOf
<1>2. PICK T \in Bad : \A U \in Bad : U \subseteq T => U = T
  <2>1. Bad \in SUBSET FiniteSubsetsOf(S)
    OBVIOUS
  <2> HIDE DEF Bad
  <2> QED
    BY <1>1, <2>1, MinimalMember
<1>3. PICK y \in T : SumFunctionOnSet(f, T) # f[y] + SumFunctionOnSet(f, T \ {y})
  BY <1>2
<1>4. IsFiniteSet(T) /\ T \subseteq S
  BY DEF FiniteSubsetsOf
<1>5. PICK c \in T : SumFunctionOnSet(f, T) = f[c] + SumFunctionOnSet(f, T \ {c})
  BY <1>3, <1>4, SumFirst
<1>6. c # y
  BY <1>3, <1>5
<1>7. \A z \in T : T \ {z} \in FiniteSubsetsOf(S) /\ T \ {z} # T
  BY <1>4, FS_RemoveElement DEF FiniteSubsetsOf
<1>8. \A z \in T : Splits(T \ {z})
  BY <1>2, <1>7
<1>9. /\ SumFunctionOnSet(f, T \ {c}) = f[y] + SumFunctionOnSet(f, (T \ {c}) \ {y})
      /\ SumFunctionOnSet(f, T \ {y}) = f[c] + SumFunctionOnSet(f, (T \ {y}) \ {c})
  BY <1>6, <1>8
<1>10. (T \ {c}) \ {y} = (T \ {y}) \ {c}
  OBVIOUS
<1> DEFINE rest == SumFunctionOnSet(f, (T \ {y}) \ {c})
<1>11. rest \in Int
  <2>1. Summands(f, (T \ {y}) \ {c})
    BY <1>4, <1>7, FS_RemoveElement
  <2> QED
    BY <2>1, SumIsInt
<1>12. f[y] \in Int /\ f[c] \in Int
  BY <1>4
<1> HIDE DEF rest, Bad, Splits
<1>13. /\ SumFunctionOnSet(f, T) = f[c] + (f[y] + rest)
       /\ SumFunctionOnSet(f, T \ {y}) = f[c] + rest
  BY <1>5, <1>9, <1>10 DEF rest
<1> QED
  BY <1>3, <1>11, <1>12, <1>13

\* Nothing but zeros.
LEMMA SumOfZeros ==
  ASSUME NEW f, NEW S, IsFiniteSet(S), \A x \in S : f[x] = 0
  PROVE  SumFunctionOnSet(f, S) = 0
<1> DEFINE Bad == {T \in FiniteSubsetsOf(S) : SumFunctionOnSet(f, T) # 0}
<1>1. SUFFICES ASSUME Bad # {} PROVE FALSE
  BY FS_Subset DEF FiniteSubsetsOf
<1>2. PICK T \in Bad : \A U \in Bad : U \subseteq T => U = T
  <2>1. Bad \in SUBSET FiniteSubsetsOf(S)
    OBVIOUS
  <2> HIDE DEF Bad
  <2> QED
    BY <1>1, <2>1, MinimalMember
<1>3. T # {} /\ IsFiniteSet(T) /\ T \subseteq S
  BY SumEmpty DEF FiniteSubsetsOf
<1>4. PICK c \in T : SumFunctionOnSet(f, T) = f[c] + SumFunctionOnSet(f, T \ {c})
  BY <1>3, SumFirst
<1>5. T \ {c} \in FiniteSubsetsOf(S) /\ T \ {c} # T
  BY <1>3, FS_RemoveElement DEF FiniteSubsetsOf
<1>6. SumFunctionOnSet(f, T \ {c}) = 0
  BY <1>2, <1>5
<1> QED
  BY <1>2, <1>3, <1>4, <1>6

\* The sum over two parts.
LEMMA SumJoined ==
  ASSUME NEW f, NEW S, NEW T, Summands(f, S), Summands(f, T), S \cap T = {}
  PROVE  SumFunctionOnSet(f, S \cup T) = SumFunctionOnSet(f, S) + SumFunctionOnSet(f, T)
<1> USE DEF Summands
<1> DEFINE Joins(U) == SumFunctionOnSet(f, U \cup T)
                         = SumFunctionOnSet(f, U) + SumFunctionOnSet(f, T)
           Bad == {U \in FiniteSubsetsOf(S) : ~Joins(U)}
<1>1. SUFFICES ASSUME Bad # {} PROVE FALSE
  BY FS_Subset DEF FiniteSubsetsOf
<1>2. PICK U \in Bad : \A V \in Bad : V \subseteq U => V = U
  <2>1. Bad \in SUBSET FiniteSubsetsOf(S)
    OBVIOUS
  <2> HIDE DEF Bad
  <2> QED
    BY <1>1, <2>1, MinimalMember
<1>3. SumFunctionOnSet(f, T) \in Int
  BY SumIsInt
<1>4. U # {} /\ IsFiniteSet(U) /\ U \subseteq S
  <2>1. Joins({})
    <3>1. {} \cup T = T
      OBVIOUS
    <3>2. SumFunctionOnSet(f, {} \cup T) = SumFunctionOnSet(f, T)
      BY <3>1, Zenon
    <3> QED
      BY <1>3, <3>2, SumEmpty
  <2> QED
    BY <1>2, <2>1 DEF FiniteSubsetsOf
<1>5. PICK c : c \in U
  BY <1>4
<1> DEFINE V == U \ {c}
<1>6. V \in FiniteSubsetsOf(S) /\ V # U /\ V \subseteq U /\ IsFiniteSet(V)
  BY <1>4, <1>5, FS_RemoveElement DEF FiniteSubsetsOf
<1>7. Joins(V)
  BY <1>2, <1>6
<1>8. SumFunctionOnSet(f, V) \in Int
  <2>1. Summands(f, V)
    BY <1>4, <1>6
  <2> QED
    BY <2>1, SumIsInt
<1>9. SumFunctionOnSet(f, U) = f[c] + SumFunctionOnSet(f, V)
  <2>1. Summands(f, U)
    BY <1>4
  <2> QED
    BY <1>5, <2>1, SumRemove
<1>10. SumFunctionOnSet(f, U \cup T) = f[c] + SumFunctionOnSet(f, V \cup T)
  <2>1. Summands(f, U \cup T)
    BY <1>4, FS_Union
  <2>2. c \in U \cup T /\ (U \cup T) \ {c} = V \cup T
    BY <1>4, <1>5
  <2> QED
    BY <2>1, <2>2, SumRemove
<1>11. f[c] \in Int
  BY <1>4, <1>5
<1> HIDE DEF V
<1>12. Joins(U)
  BY <1>3, <1>7, <1>8, <1>9, <1>10, <1>11
<1> QED
  BY <1>2, <1>12

\* Zeros may be left out.
LEMMA SumWithoutZeros ==
  ASSUME NEW f, NEW S, Summands(f, S), NEW T \in SUBSET S, \A x \in S \ T : f[x] = 0
  PROVE  SumFunctionOnSet(f, S) = SumFunctionOnSet(f, T)
<1> DEFINE R == S \ T
<1>1. Summands(f, T) /\ Summands(f, R) /\ T \cup R = S /\ T \cap R = {}
  BY FS_Subset DEF Summands
<1>2. \A x \in R : f[x] = 0
  OBVIOUS
<1> HIDE DEF R
<1>3. SumFunctionOnSet(f, R) = 0
  BY <1>1, <1>2, SumOfZeros DEF Summands
<1>4. SumFunctionOnSet(f, S) = SumFunctionOnSet(f, T) + SumFunctionOnSet(f, R)
  BY <1>1, SumJoined
<1> QED
  BY <1>1, <1>3, <1>4, SumIsInt

\* A difference term by term.
LEMMA SumOfDifferences ==
  ASSUME NEW f, NEW g, NEW h, NEW S, Summands(f, S), Summands(g, S),
         \A x \in S : h[x] = f[x] - g[x]
  PROVE  SumFunctionOnSet(h, S) = SumFunctionOnSet(f, S) - SumFunctionOnSet(g, S)
<1> USE DEF Summands
<1> DEFINE Differs(T) ==
             SumFunctionOnSet(h, T) = SumFunctionOnSet(f, T) - SumFunctionOnSet(g, T)
           Bad == {T \in FiniteSubsetsOf(S) : ~Differs(T)}
<1>1. SUFFICES ASSUME Bad # {} PROVE FALSE
  BY FS_Subset DEF FiniteSubsetsOf
<1>2. PICK T \in Bad : \A U \in Bad : U \subseteq T => U = T
  <2>1. Bad \in SUBSET FiniteSubsetsOf(S)
    OBVIOUS
  <2> HIDE DEF Bad
  <2> QED
    BY <1>1, <2>1, MinimalMember
<1>3. T # {} /\ IsFiniteSet(T) /\ T \subseteq S
  <2>1. Differs({})
    BY SumEmpty
  <2> QED
    BY <1>2, <2>1 DEF FiniteSubsetsOf
<1>4. PICK c : c \in T
  BY <1>3
<1> DEFINE U == T \ {c}
<1>5. U \in FiniteSubsetsOf(S) /\ U # T /\ U \subseteq T /\ IsFiniteSet(U) /\ U \subseteq S
  BY <1>3, <1>4, FS_RemoveElement DEF FiniteSubsetsOf
<1>6. Differs(U)
  BY <1>2, <1>5
<1>7. \A x \in T : f[x] \in Int /\ g[x] \in Int /\ h[x] \in Int
  BY <1>3
<1>8. Summands(f, T) /\ Summands(g, T) /\ Summands(h, T) /\ Summands(f, U) /\ Summands(g, U)
  BY <1>3, <1>5, <1>7
<1>9. /\ SumFunctionOnSet(f, T) = f[c] + SumFunctionOnSet(f, U)
      /\ SumFunctionOnSet(g, T) = g[c] + SumFunctionOnSet(g, U)
      /\ SumFunctionOnSet(h, T) = h[c] + SumFunctionOnSet(h, U)
  <2> HIDE DEF Summands
  <2> QED
    BY <1>4, <1>8, SumRemove
<1>10. SumFunctionOnSet(f, U) \in Int /\ SumFunctionOnSet(g, U) \in Int
  <2> HIDE DEF Summands, U
  <2> QED
    BY <1>8, SumIsInt
<1>11. h[c] = f[c] - g[c] /\ f[c] \in Int /\ g[c] \in Int
  BY <1>3, <1>4
<1> HIDE DEF U
<1>12. Differs(T)
  BY <1>6, <1>9, <1>10, <1>11
<1> QED
  BY <1>2, <1>12

\* The sum of the sums over disjoint parts.
LEMMA SumOfParts ==
  ASSUME NEW K, IsFiniteSet(K), NEW f, NEW part, NEW g,
         Summands(f, UNION {part[k] : k \in K}),
         \A k, l \in K : k # l => part[k] \cap part[l] = {},
         \A k \in K : g[k] = SumFunctionOnSet(f, part[k])
  PROVE  SumFunctionOnSet(g, K) = SumFunctionOnSet(f, UNION {part[k] : k \in K})
<1> DEFINE All(L) == UNION {part[k] : k \in L}
           Adds1(L) == SumFunctionOnSet(g, L) = SumFunctionOnSet(f, All(L))
           Bad == {L \in FiniteSubsetsOf(K) : ~Adds1(L)}
<1>1. SUFFICES ASSUME Bad # {} PROVE FALSE
  BY FS_Subset DEF FiniteSubsetsOf
<1>2. PICK L \in Bad : \A M \in Bad : M \subseteq L => M = L
  <2>1. Bad \in SUBSET FiniteSubsetsOf(K)
    OBVIOUS
  <2> HIDE DEF Bad
  <2> QED
    BY <1>1, <2>1, MinimalMember
<1>3. L # {} /\ IsFiniteSet(L) /\ L \subseteq K
  <2>1. All({}) = {}
    OBVIOUS
  <2>2. Adds1({})
    BY <2>1, SumEmpty
  <2> QED
    BY <1>2, <2>2 DEF FiniteSubsetsOf
<1>4. PICK c : c \in L
  BY <1>3
<1> DEFINE M == L \ {c}
<1>5. M \in FiniteSubsetsOf(K) /\ M # L /\ M \subseteq L
  BY <1>3, <1>4, FS_RemoveElement DEF FiniteSubsetsOf
<1>6. Adds1(M)
  BY <1>2, <1>5
<1>7. /\ All(L) = part[c] \cup All(M) /\ part[c] \cap All(M) = {}
      /\ part[c] \subseteq All(K) /\ All(M) \subseteq All(K)
  BY <1>3, <1>4
<1>8. \A S \in SUBSET All(K) : Summands(f, S)
  BY FS_Subset DEF Summands
<1>9. SumFunctionOnSet(f, All(L)) = SumFunctionOnSet(f, part[c]) + SumFunctionOnSet(f, All(M))
  <2> HIDE DEF All, M
  <2>1. Summands(f, part[c]) /\ Summands(f, All(M))
    BY <1>7, <1>8
  <2> QED
    BY <1>7, <2>1, SumJoined
<1>10. \A k \in L : g[k] \in Int
  <2> SUFFICES ASSUME NEW k \in L PROVE g[k] \in Int
    OBVIOUS
  <2>1. part[k] \in SUBSET All(K) /\ g[k] = SumFunctionOnSet(f, part[k])
    BY <1>3
  <2> HIDE DEF All
  <2> QED
    BY <1>8, <2>1, SumIsInt
<1>11. SumFunctionOnSet(g, L) = g[c] + SumFunctionOnSet(g, M)
  <2>1. Summands(g, L)
    BY <1>3, <1>10 DEF Summands
  <2> QED
    BY <1>4, <2>1, SumRemove
<1>12. g[c] = SumFunctionOnSet(f, part[c])
  BY <1>3, <1>4
<1> HIDE DEF M, All
<1>13. Adds1(L)
  BY <1>6, <1>9, <1>11, <1>12
<1> QED
  BY <1>2, <1>13

\* Sums are compared term by term.
LEMMA SumMonotone ==
  ASSUME NEW f, NEW g, NEW S, Summands(f, S), Summands(g, S), \A x \in S : f[x] <= g[x]
  PROVE  SumFunctionOnSet(f, S) <= SumFunctionOnSet(g, S)
<1> DEFINE Below(T) == SumFunctionOnSet(f, T) <= SumFunctionOnSet(g, T)
           Bad == {T \in FiniteSubsetsOf(S) : ~Below(T)}
<1>1. SUFFICES ASSUME Bad # {} PROVE FALSE
  BY FS_Subset DEF FiniteSubsetsOf, Summands
<1>2. PICK T \in Bad : \A U \in Bad : U \subseteq T => U = T
  <2>1. Bad \in SUBSET FiniteSubsetsOf(S)
    OBVIOUS
  <2> HIDE DEF Bad
  <2> QED
    BY <1>1, <2>1, MinimalMember
<1>3. T \subseteq S /\ IsFiniteSet(T) /\ ~Below(T)
  BY <1>2 DEF FiniteSubsetsOf
<1>4. T # {}
  <2>1. SumFunctionOnSet(f, {}) = 0 /\ SumFunctionOnSet(g, {}) = 0
    BY SumEmpty
  <2> QED
    BY <1>3, <2>1
<1>5. PICK x \in T : TRUE
  BY <1>4
<1> DEFINE U == T \ {x}
<1>6. U \in FiniteSubsetsOf(S) /\ U \subseteq T /\ U # T
  BY <1>3, <1>5, FS_Subset DEF FiniteSubsetsOf
<1>7. Below(U)
  <2> HIDE DEF Below, U
  <2> QED
    BY <1>2, <1>6
<1>8. Summands(f, T) /\ Summands(g, T) /\ Summands(f, U) /\ Summands(g, U)
  BY <1>3, <1>6 DEF Summands, FiniteSubsetsOf
<1>9. /\ SumFunctionOnSet(f, T) = f[x] + SumFunctionOnSet(f, U)
      /\ SumFunctionOnSet(g, T) = g[x] + SumFunctionOnSet(g, U)
  BY <1>5, <1>8, SumRemove
<1>10. /\ SumFunctionOnSet(f, U) \in Int /\ SumFunctionOnSet(g, U) \in Int
       /\ f[x] \in Int /\ g[x] \in Int /\ f[x] <= g[x]
  <2> HIDE DEF U
  <2> QED
    BY <1>3, <1>5, <1>8, SumIsInt DEF Summands
<1> HIDE DEF U
<1> QED
  BY <1>3, <1>7, <1>9, <1>10
==============================================================================
