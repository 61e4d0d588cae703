----------------------------- MODULE MatchingProofs -----------------------------
(***************************************************************************)
(* Theorems about what pairs and groups by best totals: the clusters of an  *)
(* instant, the solver of every tracker's association, and the matching of  *)
(* an evaluated frame.  All rest on sums over finite sets.  The image       *)
(* workspace, which nothing else in the project uses, comes last.           *)
(*                                                                          *)
(* A sum is a fold over the set in an unspecified order.  What it comes to  *)
(* is an induction, which goes by a smallest counterexample: the subsets of *)
(* a finite set, and the numbers, are well-founded.                         *)
(***************************************************************************)
EXTENDS CrossCameraMatching, Association, ImageWorkspace, Evaluation, TLAPS, FiniteSetTheorems,
        SequenceTheorems, WellFoundedInduction

------------------------------------------------------------------------------
(* Sums.                                                                     *)

LEMMA CountingUp ==
    ASSUME NEW P, 0 \in P, \A n \in Nat : n \in P => n + 1 \in P
    PROVE  \A n \in Nat : n \in P
  <1> DEFINE bad == {n \in Nat : n \notin P}
  <1> SUFFICES ASSUME bad # {} PROVE FALSE
    OBVIOUS
  <1>1. \E n \in bad : \A m \in bad : ~ (<<m, n>> \in OpToRel(<, Nat))
    <2>1. bad \subseteq Nat
      OBVIOUS
    <2> HIDE DEF bad
    <2> QED BY <2>1, NatLessThanWellFounded, WFMin
  <1>2. PICK n \in bad : \A m \in bad : ~ (m < n)
    BY <1>1 DEF OpToRel
  <1>3. n \in Nat /\ n # 0 /\ n - 1 \in Nat /\ n - 1 < n /\ (n - 1) + 1 = n
    OBVIOUS
  <1>4. n - 1 \in P
    BY <1>2, <1>3
  <1> QED BY <1>3, <1>4

LEMMA OneByOne ==
    ASSUME NEW I, IsFiniteSet(I), NEW P, {} \in P,
           \A S \in SUBSET I : \A x \in I \ S : S \in P => S \cup {x} \in P
    PROVE  \A S \in SUBSET I : S \in P
  <1> DEFINE bad == {S \in SUBSET I : S \notin P}
             smaller == StrictSubsetOrdering(I)
  <1> SUFFICES ASSUME bad # {} PROVE FALSE
    OBVIOUS
  <1>1. IsWellFoundedOn(smaller, SUBSET I)
    BY FS_StrictSubsetOrderingWellFounded, FS_FiniteSubsetsOfFinite
  <1>2. \E S \in bad : \A T \in bad : ~ (<<T, S>> \in smaller)
    <2>1. bad \subseteq SUBSET I
      OBVIOUS
    <2> HIDE DEF bad, smaller
    <2> QED BY <1>1, <2>1, WFMin
  <1>3. PICK S \in bad : \A T \in bad : ~ (T \subseteq S /\ T # S)
    BY <1>2 DEF StrictSubsetOrdering
  <1>4. PICK x \in S : TRUE
    OBVIOUS
  <1>5. S \ {x} \in P
    BY <1>3, <1>4
  <1>6. (S \ {x}) \cup {x} \in P
    BY <1>4, <1>5
  <1>7. (S \ {x}) \cup {x} = S
    OBVIOUS
  <1> QED BY <1>6, <1>7

(* The fold behind a sum: what the sets to come have, and one more.          *)
FirstOf(S) == CHOOSE x \in S : TRUE

SumTable(f, I, g) ==
    g = [S \in SUBSET I |-> IF S = {} THEN 0 ELSE f[FirstOf(S)] + g[S \ {FirstOf(S)}]]

Summable(f, I) == IsFiniteSet(I) /\ \A x \in I : f[x] \in Int

LEMMA FirstIn == ASSUME NEW S, S # {} PROVE FirstOf(S) \in S
  BY DEF FirstOf

LEMMA SumByTable ==
    ASSUME NEW f, NEW I
    PROVE  SumFunctionOnSet(f, I) = (CHOOSE g : SumTable(f, I, g))[I]
  <1>1. SumFunctionOnSet(f, I)
          = (CHOOSE g : g = [S \in SUBSET I |-> IF S = {} THEN 0
                                ELSE f[CHOOSE x \in S : TRUE] + g[S \ {CHOOSE x \in S : TRUE}]])[I]
    BY Zenon DEF SumFunctionOnSet, FoldFunctionOnSet, MapThenFoldSet
  <1> QED BY Zenon, <1>1 DEF SumTable, FirstOf

LEMMA LessWithoutFirst ==
    ASSUME NEW S, S # {}, IsFiniteSet(S), NEW n \in Nat, Cardinality(S) <= n + 1
    PROVE  Cardinality(S \ {FirstOf(S)}) <= n
  <1>1. FirstOf(S) \in S
    BY FirstIn
  <1>2. Cardinality(S) \in Nat
    BY FS_CardinalityType
  <1>3. PICK x : x = FirstOf(S)
    OBVIOUS
  <1>4. Cardinality(S \ {x}) = Cardinality(S) - 1
    BY <1>1, <1>3, FS_RemoveElement
  <1> QED BY <1>2, <1>3, <1>4

LEMMA TableExists ==
    ASSUME NEW f, NEW I, Summable(f, I)
    PROVE  \E g \in [SUBSET I -> Int] : SumTable(f, I, g)
  <1> DEFINE Value(g, S) == IF S = {} THEN 0 ELSE f[FirstOf(S)] + g[S \ {FirstOf(S)}]
             done == {n \in Nat : \E g \in [SUBSET I -> Int] :
                         \A S \in SUBSET I : Cardinality(S) <= n => g[S] = Value(g, S)}
  <1>1. \A S \in SUBSET I : IsFiniteSet(S) /\ Cardinality(S) \in Nat
    BY FS_Subset, FS_CardinalityType DEF Summable
  <1>2. ASSUME NEW g \in [SUBSET I -> Int], NEW S \in SUBSET I
        PROVE  Value(g, S) \in Int
    <2>1. CASE S # {}
      <3>1. FirstOf(S) \in S
        BY <2>1, FirstIn
      <3>2. f[FirstOf(S)] \in Int /\ g[S \ {FirstOf(S)}] \in Int
        BY <3>1 DEF Summable
      <3> QED BY <2>1, <3>2
    <2> QED BY <2>1
  <1>3. 0 \in done
    <2>1. \A S \in SUBSET I : Cardinality(S) <= 0 => S = {}
      BY <1>1, FS_EmptySet
    <2>2. [S \in SUBSET I |-> 0] \in [SUBSET I -> Int]
      OBVIOUS
    <2> QED BY <2>1, <2>2
  <1>4. ASSUME NEW n \in Nat, n \in done PROVE n + 1 \in done
    <2>1. PICK g \in [SUBSET I -> Int] : \A S \in SUBSET I : Cardinality(S) <= n => g[S] = Value(g, S)
      BY <1>4
    <2> DEFINE h == [S \in SUBSET I |-> Value(g, S)]
    <2>2. h \in [SUBSET I -> Int]
      BY <1>2
    <2>3. ASSUME NEW S \in SUBSET I, Cardinality(S) <= n + 1 PROVE h[S] = Value(h, S)
      <3>1. CASE S # {}
        <4>1. Cardinality(S \ {FirstOf(S)}) <= n
          BY <1>1, <2>3, <3>1, LessWithoutFirst
        <4>2. S \ {FirstOf(S)} \in SUBSET I
          OBVIOUS
        <4>3. h[S \ {FirstOf(S)}] = g[S \ {FirstOf(S)}]
          BY <2>1, <4>1, <4>2
        <4> QED BY <3>1, <4>3
      <3> QED BY <3>1
    <2> HIDE DEF h, Value
    <2> QED BY <2>2, <2>3
  <1>5. \A n \in Nat : n \in done
    <2> HIDE DEF done
    <2> QED BY <1>3, <1>4, CountingUp
  <1>6. Cardinality(I) \in Nat /\ \A S \in SUBSET I : Cardinality(S) <= Cardinality(I)
    BY <1>1, FS_Subset DEF Summable
  <1>7. PICK g \in [SUBSET I -> Int] : \A S \in SUBSET I : g[S] = Value(g, S)
    BY <1>5, <1>6
  <1>8. g = [S \in SUBSET I |-> g[S]]
    OBVIOUS
  <1>9. g = [S \in SUBSET I |-> Value(g, S)]
    <2> HIDE DEF Value
    <2> QED BY <1>7, <1>8
  <1> QED BY <1>9 DEF SumTable

LEMMA TableType ==
    ASSUME NEW f, NEW I, Summable(f, I), NEW g, SumTable(f, I, g)
    PROVE  \A S \in SUBSET I : g[S] \in Int
  <1> DEFINE good == {S \in SUBSET I : g[S] \in Int}
             done == {n \in Nat : \A S \in SUBSET I : Cardinality(S) <= n => g[S] \in Int}
  <1>1. \A S \in SUBSET I : IsFiniteSet(S) /\ Cardinality(S) \in Nat
    BY FS_Subset, FS_CardinalityType DEF Summable
  <1>2. \A S \in SUBSET I : g[S] = IF S = {} THEN 0 ELSE f[FirstOf(S)] + g[S \ {FirstOf(S)}]
    BY DEF SumTable
  <1>3. 0 \in done
    <2>1. \A S \in SUBSET I : Cardinality(S) <= 0 => S = {}
      BY <1>1, FS_EmptySet
    <2>2. g[{}] = 0
      BY <1>2
    <2> QED BY <2>1, <2>2
  <1>4. ASSUME NEW n \in Nat, n \in done PROVE n + 1 \in done
    <2>1. ASSUME NEW S \in SUBSET I, Cardinality(S) <= n + 1, S # {} PROVE g[S] \in Int
      <3>1. Cardinality(S \ {FirstOf(S)}) <= n
        BY <1>1, <2>1, LessWithoutFirst
      <3>2. g[S \ {FirstOf(S)}] \in Int
        BY <1>4, <3>1
      <3>3. f[FirstOf(S)] \in Int
        BY <2>1, FirstIn DEF Summable
      <3> QED BY <1>2, <2>1, <3>2, <3>3
    <2>2. g[{}] = 0
      BY <1>2
    <2>3. ASSUME NEW S \in SUBSET I, Cardinality(S) <= n + 1 PROVE g[S] \in Int
      <3>1. CASE S = {}
        BY <2>2, <3>1
      <3>2. CASE S # {}
        BY <2>1, <2>3, <3>2
      <3> QED BY <3>1, <3>2
    <2> QED BY <2>3
  <1>5. \A n \in Nat : n \in done
    <2> HIDE DEF done
    <2> QED BY <1>3, <1>4, CountingUp
  <1> QED BY <1>1, <1>5

(* Two tables agree where both are defined.                                  *)
LEMMA TablesAgree ==
    ASSUME NEW f, NEW I, NEW J, IsFiniteSet(I), J \subseteq I,
           NEW g, SumTable(f, I, g), NEW h, SumTable(f, J, h)
    PROVE  \A S \in SUBSET J : g[S] = h[S]
  <1> DEFINE done == {n \in Nat : \A S \in SUBSET J : Cardinality(S) <= n => g[S] = h[S]}
  <1>1. \A S \in SUBSET J : IsFiniteSet(S) /\ Cardinality(S) \in Nat /\ S \in SUBSET I
    BY FS_Subset, FS_CardinalityType
  <1>2. \A S \in SUBSET I : g[S] = IF S = {} THEN 0 ELSE f[FirstOf(S)] + g[S \ {FirstOf(S)}]
    BY DEF SumTable
  <1>3. \A S \in SUBSET J : h[S] = IF S = {} THEN 0 ELSE f[FirstOf(S)] + h[S \ {FirstOf(S)}]
    BY DEF SumTable
  <1>4. 0 \in done
    <2>1. \A S \in SUBSET J : Cardinality(S) <= 0 => S = {}
      BY <1>1, FS_EmptySet
    <2> QED BY <1>2, <1>3, <2>1
  <1>5. ASSUME NEW n \in Nat, n \in done PROVE n + 1 \in done
    <2>1. ASSUME NEW S \in SUBSET J, Cardinality(S) <= n + 1, S # {} PROVE g[S] = h[S]
      <3>1. Cardinality(S \ {FirstOf(S)}) <= n
        BY <1>1, <2>1, LessWithoutFirst
      <3>2. g[S \ {FirstOf(S)}] = h[S \ {FirstOf(S)}]
        BY <1>5, <3>1
      <3> QED BY <1>1, <1>2, <1>3, <2>1, <3>2
    <2>2. g[{}] = 0 /\ h[{}] = 0
      BY <1>2, <1>3
    <2>3. ASSUME NEW S \in SUBSET J, Cardinality(S) <= n + 1 PROVE g[S] = h[S]
      <3>1. CASE S = {}
        BY <2>2, <3>1
      <3>2. CASE S # {}
        BY <2>1, <2>3, <3>2
      <3> QED BY <3>1, <3>2
    <2> QED BY <2>3
  <1>6. \A n \in Nat : n \in done
    <2> HIDE DEF done
    <2> QED BY <1>4, <1>5, CountingUp
  <1> QED BY <1>1, <1>6

LEMMA SumEmpty == ASSUME NEW f PROVE SumFunctionOnSet(f, {}) = 0
  <1>1. Summable(f, {})
    BY FS_EmptySet DEF Summable
  <1>2. PICK g : g = CHOOSE h : SumTable(f, {}, h)
    OBVIOUS
  <1>3. SumTable(f, {}, g)
    BY <1>1, <1>2, TableExists
  <1>4. g[{}] = 0
    BY <1>3 DEF SumTable
  <1> QED BY <1>2, <1>4, SumByTable

LEMMA SumType == ASSUME NEW f, NEW I, Summable(f, I) PROVE SumFunctionOnSet(f, I) \in Int
  <1>1. PICK g : g = CHOOSE h : SumTable(f, I, h)
    OBVIOUS
  <1>2. SumTable(f, I, g)
    BY <1>1, TableExists
  <1>3. g[I] \in Int
    BY <1>2, TableType
  <1> QED BY <1>1, <1>3, SumByTable

LEMMA SumOfFirst ==
    ASSUME NEW f, NEW I, Summable(f, I), I # {}
    PROVE  SumFunctionOnSet(f, I) = f[FirstOf(I)] + SumFunctionOnSet(f, I \ {FirstOf(I)})
  <1>1. PICK J : J = I \ {FirstOf(I)}
    OBVIOUS
  <1>2. Summable(f, J) /\ J \subseteq I
    BY <1>1, FS_Subset DEF Summable
  <1>3. PICK g, h : g = (CHOOSE t : SumTable(f, I, t)) /\ h = (CHOOSE t : SumTable(f, J, t))
    OBVIOUS
  <1>4. SumTable(f, I, g) /\ SumTable(f, J, h)
    BY <1>2, <1>3, TableExists
  <1>5. g[J] = h[J]
    <2>1. IsFiniteSet(I) /\ J \in SUBSET J
      BY DEF Summable
    <2> QED BY <1>2, <1>4, <2>1, TablesAgree
  <1>6. g[I] = f[FirstOf(I)] + g[J]
    BY <1>1, <1>4 DEF SumTable
  <1> QED BY <1>1, <1>3, <1>5, <1>6, SumByTable

(* One more summand, whichever the fold takes first.                         *)
LEMMA SumAdd ==
    ASSUME NEW f, NEW I, Summable(f, I), NEW a \in I
    PROVE  SumFunctionOnSet(f, I) = SumFunctionOnSet(f, I \ {a}) + f[a]
  <1> DEFINE T(S) == SumFunctionOnSet(f, S)
             good == {n \in Nat : \A S \in SUBSET I : Cardinality(S) <= n =>
                                     \A x \in S : T(S) = T(S \ {x}) + f[x]}
  <1>1. \A S \in SUBSET I : IsFiniteSet(S) /\ Cardinality(S) \in Nat /\ Summable(f, S)
    BY FS_Subset, FS_CardinalityType DEF Summable
  <1>2. \A S \in SUBSET I : T(S) \in Int
    BY <1>1, SumType
  <1>3. 0 \in good
    <2>1. \A S \in SUBSET I : Cardinality(S) <= 0 => S = {}
      BY <1>1, FS_EmptySet
    <2> QED BY <2>1
  <1>4. ASSUME NEW n \in Nat, n \in good PROVE n + 1 \in good
    <2>1. ASSUME NEW S \in SUBSET I, Cardinality(S) <= n + 1, NEW x \in S
          PROVE  T(S) = T(S \ {x}) + f[x]
      <3>1. PICK y \in S : y = FirstOf(S)
        BY FirstIn
      <3>2. T(S) = f[y] + T(S \ {y})
        BY <1>1, <3>1, SumOfFirst
      <3>3. f[x] \in Int /\ f[y] \in Int
        BY DEF Summable
      <3>4. CASE x = y
        BY <1>2, <3>2, <3>3, <3>4
      <3>5. CASE x # y
        <4>1. Cardinality(S \ {y}) <= n /\ Cardinality(S \ {x}) <= n
          <5>1. Cardinality(S \ {y}) = Cardinality(S) - 1 /\ Cardinality(S \ {x}) = Cardinality(S) - 1
            BY <1>1, FS_RemoveElement
          <5> QED BY <1>1, <2>1, <5>1
        <4>2. x \in S \ {y} /\ y \in S \ {x} /\ S \ {x} \in SUBSET I /\ S \ {y} \in SUBSET I
          BY <3>5
        <4>3. T(S \ {y}) = T((S \ {y}) \ {x}) + f[x]
          BY <1>4, <4>1, <4>2
        <4>4. T(S \ {x}) = T((S \ {x}) \ {y}) + f[y]
          BY <1>4, <4>1, <4>2
        <4>5. (S \ {y}) \ {x} = (S \ {x}) \ {y}
          OBVIOUS
        <4>6. PICK a1, a2, a3, a4 \in Int : /\ a1 = T(S) /\ a2 = T(S \ {x}) /\ a3 = T(S \ {y})
                                            /\ a4 = T((S \ {x}) \ {y})
          <5>1. (S \ {x}) \ {y} \in SUBSET I
            OBVIOUS
          <5> HIDE DEF T
          <5> QED BY <1>2, <4>2, <5>1
        <4>7. PICK b1 \in Int, b2 \in Int : b1 = f[x] /\ b2 = f[y]
          BY <3>3
        <4>8. a1 = b2 + a3 /\ a3 = a4 + b1 /\ a2 = a4 + b2
          <5> HIDE DEF T
          <5> QED BY <3>2, <4>3, <4>4, <4>5, <4>6, <4>7
        <4>9. a1 = a2 + b1
          BY <4>8
        <4> QED BY <4>6, <4>7, <4>9
      <3> QED BY <3>4, <3>5
    <2> QED BY <2>1
  <1>5. \A n \in Nat : n \in good
    <2> HIDE DEF good
    <2> QED BY <1>3, <1>4, CountingUp
  <1> QED BY <1>1, <1>5

LEMMA SumInsert ==
    ASSUME NEW f, NEW S, NEW a, Summable(f, S \cup {a}), a \notin S
    PROVE  SumFunctionOnSet(f, S \cup {a}) = SumFunctionOnSet(f, S) + f[a]
  <1>1. (S \cup {a}) \ {a} = S
    OBVIOUS
  <1> QED BY <1>1, SumAdd

LEMMA SummablePart ==
    ASSUME NEW f, NEW I, Summable(f, I), NEW S \in SUBSET I
    PROVE  Summable(f, S)
  BY FS_Subset DEF Summable

(* Termwise.                                                                 *)
LEMMA SumBelow ==
    ASSUME NEW f, NEW g, NEW I, Summable(f, I), Summable(g, I), \A x \in I : f[x] <= g[x]
    PROVE  SumFunctionOnSet(f, I) <= SumFunctionOnSet(g, I)
  <1> DEFINE F(S) == SumFunctionOnSet(f, S)
             G(S) == SumFunctionOnSet(g, S)
             below == {S \in SUBSET I : F(S) <= G(S)}
  <1>1. {} \in below
    <2>1. F({}) = 0 /\ G({}) = 0
      BY SumEmpty
    <2> QED BY <2>1
  <1>2. ASSUME NEW S \in SUBSET I, NEW x \in I \ S, S \in below PROVE S \cup {x} \in below
    <2>1. /\ Summable(f, S \cup {x}) /\ Summable(g, S \cup {x})
          /\ Summable(f, S) /\ Summable(g, S)
      BY SummablePart
    <2>2. F(S \cup {x}) = F(S) + f[x] /\ G(S \cup {x}) = G(S) + g[x]
      BY <2>1, SumInsert
    <2>3. F(S) \in Int /\ G(S) \in Int
      BY <2>1, SumType
    <2>4. f[x] \in Int /\ g[x] \in Int /\ f[x] <= g[x]
      BY DEF Summable
    <2>5. PICK a \in Int, b \in Int, c \in Int, d \in Int :
              a = F(S) /\ b = G(S) /\ c = f[x] /\ d = g[x]
      BY <2>3, <2>4
    <2>6. a <= b
      BY <1>2, <2>5
    <2>7. F(S \cup {x}) = a + c /\ G(S \cup {x}) = b + d /\ c <= d
      BY <2>2, <2>4, <2>5
    <2>8. F(S \cup {x}) <= G(S \cup {x})
      BY <2>6, <2>7
    <2> QED BY <2>8
  <1>3. \A S \in SUBSET I : S \in below
    <2>1. IsFiniteSet(I)
      BY DEF Summable
    <2> HIDE DEF below
    <2> QED BY <1>1, <1>2, <2>1, OneByOne
  <1> QED BY <1>3

LEMMA SumSame ==
    ASSUME NEW f, NEW g, NEW I, Summable(f, I), \A x \in I : f[x] = g[x]
    PROVE  SumFunctionOnSet(f, I) = SumFunctionOnSet(g, I)
  <1>1. Summable(g, I)
    BY DEF Summable
  <1>2. \A x \in I : f[x] <= g[x] /\ g[x] <= f[x]
    BY DEF Summable
  <1>3. /\ SumFunctionOnSet(f, I) <= SumFunctionOnSet(g, I)
        /\ SumFunctionOnSet(g, I) <= SumFunctionOnSet(f, I)
    BY <1>1, <1>2, SumBelow
  <1>4. SumFunctionOnSet(f, I) \in Int /\ SumFunctionOnSet(g, I) \in Int
    BY <1>1, SumType
  <1> QED BY <1>3, <1>4

(* A sum of what is not negative is as great as each of it.                  *)
LEMMA SumCovers ==
    ASSUME NEW f, NEW I, Summable(f, I), \A x \in I : f[x] >= 0, NEW a \in I
    PROVE  SumFunctionOnSet(f, I) >= f[a]
  <1>1. PICK S \in SUBSET I : S = I \ {a}
    OBVIOUS
  <1>2. Summable(f, S)
    BY SummablePart
  <1>3. PICK zero : zero = [x \in S |-> 0]
    OBVIOUS
  <1>4. Summable(zero, S) /\ \A x \in S : zero[x] <= f[x]
    BY <1>2, <1>3 DEF Summable
  <1>5. SumFunctionOnSet(f, S) >= SumFunctionOnSet(zero, S)
    BY <1>2, <1>4, SumBelow, SumType
  <1>6. SumFunctionOnSet(zero, S) = 0
    <2> DEFINE none == {T \in SUBSET S : SumFunctionOnSet(zero, T) = 0}
    <2>1. {} \in none
      BY SumEmpty
    <2>2. ASSUME NEW T \in SUBSET S, NEW x \in S \ T, T \in none PROVE T \cup {x} \in none
      <3>1. Summable(zero, T \cup {x})
        BY <1>4, SummablePart
      <3>2. SumFunctionOnSet(zero, T \cup {x}) = SumFunctionOnSet(zero, T) + zero[x]
        BY <3>1, SumInsert
      <3> QED BY <1>3, <2>2, <3>2
    <2>3. \A T \in SUBSET S : T \in none
      <3>1. IsFiniteSet(S)
        BY <1>2 DEF Summable
      <3> HIDE DEF none
      <3> QED BY <2>1, <2>2, <3>1, OneByOne
    <2> QED BY <2>3
  <1>7. SumFunctionOnSet(f, I) = SumFunctionOnSet(f, S) + f[a]
    BY <1>1, SumAdd
  <1>8. SumFunctionOnSet(f, S) \in Int /\ f[a] \in Int
    BY <1>2, SumType DEF Summable
  <1> QED BY <1>5, <1>6, <1>7, <1>8

(* Two sums are the sum of both.                                             *)
IsBoth(h, f, g, I) == \A x \in I : h[x] = f[x] + g[x]

LEMMA SumOfBoth ==
    ASSUME NEW f, NEW g, NEW h, NEW I, Summable(f, I), Summable(g, I), IsBoth(h, f, g, I)
    PROVE  Summable(h, I)
           /\ SumFunctionOnSet(h, I) = SumFunctionOnSet(f, I) + SumFunctionOnSet(g, I)
  <1> DEFINE F(S) == SumFunctionOnSet(f, S)
             G(S) == SumFunctionOnSet(g, S)
             H(S) == SumFunctionOnSet(h, S)
             both == {S \in SUBSET I : H(S) = F(S) + G(S)}
  <1>1. Summable(h, I)
    BY DEF Summable, IsBoth
  <1>2. {} \in both
    <2>1. F({}) = 0 /\ G({}) = 0 /\ H({}) = 0
      BY SumEmpty
    <2> QED BY <2>1
  <1>3. ASSUME NEW S \in SUBSET I, NEW x \in I \ S, S \in both PROVE S \cup {x} \in both
    <2>1. /\ Summable(f, S \cup {x}) /\ Summable(g, S \cup {x}) /\ Summable(h, S \cup {x})
          /\ Summable(f, S) /\ Summable(g, S)
      BY <1>1, SummablePart
    <2>2. PICK a \in Int, b \in Int, c \in Int, d \in Int :
              a = F(S) /\ b = G(S) /\ c = f[x] /\ d = g[x]
      <3>1. F(S) \in Int /\ G(S) \in Int
        BY <2>1, SumType
      <3>2. f[x] \in Int /\ g[x] \in Int
        BY DEF Summable
      <3> QED BY <3>1, <3>2
    <2>3. F(S \cup {x}) = a + c /\ G(S \cup {x}) = b + d
      BY <2>1, <2>2, SumInsert
    <2>4. H(S \cup {x}) = H(S) + h[x]
      BY <2>1, SumInsert
    <2>5. h[x] = c + d /\ H(S) = a + b
      BY <1>3, <2>2 DEF IsBoth
    <2>6. H(S \cup {x}) = (a + c) + (b + d)
      BY <2>4, <2>5
    <2>7. H(S \cup {x}) = F(S \cup {x}) + G(S \cup {x})
      BY <2>3, <2>6
    <2> QED BY <2>7
  <1>4. \A S \in SUBSET I : S \in both
    <2>1. IsFiniteSet(I)
      BY DEF Summable
    <2> HIDE DEF both
    <2> QED BY <1>2, <1>3, <2>1, OneByOne
  <1> QED BY <1>1, <1>4

(* A sum may be taken over what indexes its summands.                        *)
Indexes(b, I, image) ==
    IsFiniteSet(I) /\ image = {b[x] : x \in I} /\ \A x, y \in I : b[x] = b[y] => x = y

Through(g, f, b, I) == \A x \in I : f[b[x]] \in Int /\ g[x] = f[b[x]]

LEMMA SumByIndex ==
    ASSUME NEW I, NEW b, NEW image, Indexes(b, I, image),
           NEW f, NEW g, Through(g, f, b, I)
    PROVE  /\ Summable(f, image) /\ Summable(g, I)
           /\ SumFunctionOnSet(f, image) = SumFunctionOnSet(g, I)
  <1> DEFINE Image(S) == {b[x] : x \in S}
             done == {S \in SUBSET I : Summable(f, Image(S))
                                        /\ SumFunctionOnSet(f, Image(S)) = SumFunctionOnSet(g, S)}
  <1>1. IsFiniteSet(I) /\ image = Image(I) /\ Summable(g, I)
        /\ \A x \in I : f[b[x]] \in Int /\ g[x] = f[b[x]]
    BY DEF Summable, Indexes, Through
  <1> \A x, y \in I : b[x] = b[y] => x = y
    BY DEF Indexes
  <1>2. {} \in done
    <2>1. Image({}) = {}
      OBVIOUS
    <2>2. Summable(f, {})
      BY FS_EmptySet DEF Summable
    <2> QED BY <2>1, <2>2, SumEmpty
  <1>3. ASSUME NEW S \in SUBSET I, NEW x \in I \ S, S \in done PROVE S \cup {x} \in done
    <2>1. PICK J : J = Image(S)
      OBVIOUS
    <2>2. Image(S \cup {x}) = J \cup {b[x]}
      BY <2>1
    <2>3. b[x] \notin J
      BY <2>1
    <2>4. Summable(f, J)
      BY <1>3, <2>1
    <2>5. Summable(f, J \cup {b[x]})
      <3>1. IsFiniteSet(J \cup {b[x]})
        BY <2>4, FS_AddElement DEF Summable
      <3> QED BY <1>1, <2>4, <3>1 DEF Summable
    <2>6. SumFunctionOnSet(f, J \cup {b[x]}) = SumFunctionOnSet(f, J) + f[b[x]]
      BY <2>3, <2>5, SumInsert
    <2>7. SumFunctionOnSet(g, S \cup {x}) = SumFunctionOnSet(g, S) + g[x]
      <3>1. Summable(g, S \cup {x})
        BY <1>1, SummablePart
      <3> QED BY <3>1, SumInsert
    <2>8. SumFunctionOnSet(f, J) = SumFunctionOnSet(g, S)
      BY <1>3, <2>1
    <2>9. SumFunctionOnSet(f, J \cup {b[x]}) = SumFunctionOnSet(g, S \cup {x})
      BY <1>1, <2>6, <2>7, <2>8
    <2> QED BY <2>2, <2>5, <2>9
  <1>4. \A S \in SUBSET I : S \in done
    <2> HIDE DEF done
    <2> QED BY <1>1, <1>2, <1>3, OneByOne
  <1> QED BY <1>1, <1>4

(* What is not positive only lessens a sum.                                  *)
LEMMA SumOverMore ==
    ASSUME NEW f, NEW I, Summable(f, I), NEW J \in SUBSET I, \A x \in I \ J : f[x] <= 0
    PROVE  /\ SumFunctionOnSet(f, I) <= SumFunctionOnSet(f, J)
           /\ (\A x \in I \ J : f[x] = 0) => SumFunctionOnSet(f, I) = SumFunctionOnSet(f, J)
  <1> DEFINE less == {S \in SUBSET (I \ J) :
                         /\ SumFunctionOnSet(f, J \cup S) <= SumFunctionOnSet(f, J)
                         /\ (\A x \in I \ J : f[x] = 0) =>
                               SumFunctionOnSet(f, J \cup S) = SumFunctionOnSet(f, J)}
  <1>1. Summable(f, J)
    BY SummablePart
  <1>2. SumFunctionOnSet(f, J) \in Int
    BY <1>1, SumType
  <1>3. {} \in less
    <2>1. J \cup {} = J
      OBVIOUS
    <2> QED BY <1>2, <2>1
  <1>4. ASSUME NEW S \in SUBSET (I \ J), NEW x \in (I \ J) \ S, S \in less
        PROVE  S \cup {x} \in less
    <2>1. PICK K : K = J \cup S
      OBVIOUS
    <2>2. J \cup (S \cup {x}) = K \cup {x} /\ x \notin K /\ K \subseteq I /\ K \cup {x} \subseteq I
      BY <2>1
    <2>3. Summable(f, K) /\ Summable(f, K \cup {x})
      BY <2>2, SummablePart
    <2>4. SumFunctionOnSet(f, K \cup {x}) = SumFunctionOnSet(f, K) + f[x]
      BY <2>2, <2>3, SumInsert
    <2>5. SumFunctionOnSet(f, K) \in Int /\ f[x] \in Int /\ f[x] <= 0
      BY <2>3, SumType DEF Summable
    <2>6. SumFunctionOnSet(f, K) <= SumFunctionOnSet(f, J)
          /\ ((\A y \in I \ J : f[y] = 0) => SumFunctionOnSet(f, K) = SumFunctionOnSet(f, J))
      BY <1>4, <2>1
    <2>7. SumFunctionOnSet(f, K \cup {x}) <= SumFunctionOnSet(f, J)
      BY <1>2, <2>4, <2>5, <2>6
    <2>8. ASSUME \A y \in I \ J : f[y] = 0
          PROVE  SumFunctionOnSet(f, K \cup {x}) = SumFunctionOnSet(f, J)
      <3>1. f[x] = 0
        BY <2>8
      <3>2. PICK a \in Int : a = SumFunctionOnSet(f, K) /\ a = SumFunctionOnSet(f, J)
        BY <2>5, <2>6, <2>8
      <3> QED BY <2>4, <3>1, <3>2
    <2>9. S \cup {x} \in SUBSET (I \ J)
      OBVIOUS
    <2> QED BY <2>2, <2>7, <2>8, <2>9
  <1>5. \A S \in SUBSET (I \ J) : S \in less
    <2>1. IsFiniteSet(I \ J)
      BY FS_Difference DEF Summable
    <2> HIDE DEF less
    <2> QED BY <1>3, <1>4, <2>1, OneByOne, ZenonT(40)
  <1>6. I \ J \in less /\ J \cup (I \ J) = I
    BY <1>5
  <1> QED BY <1>6

LEMMA SumOfNothing ==
    ASSUME NEW f, NEW I, Summable(f, I), \A x \in I : f[x] = 0
    PROVE  SumFunctionOnSet(f, I) = 0
  <1> DEFINE none == {S \in SUBSET I : SumFunctionOnSet(f, S) = 0}
  <1>1. {} \in none
    BY SumEmpty
  <1>2. ASSUME NEW S \in SUBSET I, NEW x \in I \ S, S \in none PROVE S \cup {x} \in none
    <2>1. Summable(f, S \cup {x}) /\ x \notin S
      BY SummablePart
    <2>2. SumFunctionOnSet(f, S \cup {x}) = SumFunctionOnSet(f, S) + f[x]
      BY <2>1, SumInsert
    <2>3. SumFunctionOnSet(f, S) = 0 /\ f[x] = 0
      BY <1>2
    <2> QED BY <2>2, <2>3
  <1>3. I \in none
    <2>1. IsFiniteSet(I)
      BY DEF Summable
    <2>2. \A S \in SUBSET I : S \in none
      <3> HIDE DEF none
      <3> QED BY <1>1, <1>2, <2>1, OneByOne
    <2> QED BY <2>2
  <1> QED BY <1>3

(* The least and the greatest of a finite set of integers, and of any that   *)
(* has one.                                                                  *)
LEMMA LeastOfFinite ==
    ASSUME NEW I, IsFiniteSet(I), I \subseteq Int, I # {}
    PROVE  Min(I) \in I /\ \A x \in I : Min(I) <= x
  <1> DEFINE has == {S \in SUBSET I : S # {} => \E x \in S : \A y \in S : x <= y}
  <1>1. {} \in has
    OBVIOUS
  <1>2. ASSUME NEW S \in SUBSET I, NEW x \in I \ S, S \in has PROVE S \cup {x} \in has
    <2>1. CASE S = {}
      BY <2>1
    <2>2. CASE S # {}
      <3>1. PICK z \in S : \A y \in S : z <= y
        BY <1>2, <2>2
      <3>2. CASE z <= x
        BY <3>1, <3>2
      <3>3. CASE x < z
        <4>1. \A y \in S \cup {x} : x <= y
          BY <3>1, <3>3
        <4> QED BY <4>1
      <3> QED BY <3>2, <3>3
    <2> QED BY <2>1, <2>2
  <1>3. \A S \in SUBSET I : S \in has
    <2> HIDE DEF has
    <2> QED BY <1>1, <1>2, OneByOne
  <1>4. \E x \in I : \A y \in I : x <= y
    BY <1>3
  <1> QED BY <1>4 DEF Min

LEMMA GreatestIs ==
    ASSUME NEW I, I \subseteq Int, NEW a \in I, \A x \in I : x <= a
    PROVE  Max(I) = a
  <1>1. \E x \in I : \A y \in I : x >= y
    OBVIOUS
  <1>2. Max(I) \in I /\ \A y \in I : Max(I) >= y
    BY <1>1 DEF Max
  <1>3. PICK m \in I : m = Max(I) /\ m >= a /\ m <= a
    BY <1>2
  <1>4. m \in Int /\ a \in Int
    OBVIOUS
  <1> QED BY <1>3, <1>4

------------------------------------------------------------------------------
(* What a matcher makes of two tracks.                                       *)

LEMMA LargestOfTwo ==
    ASSUME NEW a \in Int, NEW b \in Int
    PROVE  Max({a, b}) = IF a >= b THEN a ELSE b
  <1>1. \E x \in {a, b} : \A y \in {a, b} : x >= y
    OBVIOUS
  <1>2. Max({a, b}) \in {a, b} /\ \A y \in {a, b} : Max({a, b}) >= y
    BY <1>1 DEF Max
  <1> QED BY <1>2

LEMMA SmallestOfTwo ==
    ASSUME NEW a \in Int, NEW b \in Int
    PROVE  Min({a, b}) = IF a <= b THEN a ELSE b
  <1>1. \E x \in {a, b} : \A y \in {a, b} : x <= y
    OBVIOUS
  <1>2. Min({a, b}) \in {a, b} /\ \A y \in {a, b} : Min({a, b}) <= y
    BY <1>1 DEF Min
  <1> QED BY <1>2

LEMMA OnlyOne == ASSUME NEW a \in Int PROVE Max({a}) = a
  <1>1. \E x \in {a} : \A y \in {a} : x >= y
    OBVIOUS
  <1>2. Max({a}) \in {a}
    BY <1>1 DEF Max
  <1> QED BY <1>2

LEMMA GapType ==
    ASSUME NEW a \in Int, NEW b \in Int
    PROVE  Gap(a, b) \in Nat /\ Gap(a, b) = Gap(b, a) /\ (a = b => Gap(a, b) = 0)
  BY DEF Gap

(* Whatever its size, the frame's edge does not move a person's feet: the    *)
(* box it cut off is extrapolated to where they are.                         *)
LEMMA FeetAreFound ==
    ASSUME NEW foot \in Nat, NEW size \in Nat \ {0}
    PROVE  FootPoint(BoxOf(foot, size), size) = size * foot
  <1>1. PICK low \in Nat : low = Min({foot, FrameRows}) /\ low = IF foot <= FrameRows THEN foot ELSE FrameRows
    BY SmallestOfTwo, MatchingAssumption
  <1>2. PICK t \in Int, b \in Int, f \in Int, r \in Int :
            t = size * (foot - 4) /\ b = size * low /\ f = size * foot /\ r = size * FrameRows
    BY MatchingAssumption
  <1>3. t = f - 4 * size
    BY <1>2
  <1>4. BoxOf(foot, size) = [top |-> t, bottom |-> b, width |-> size]
    BY <1>1, <1>2 DEF BoxOf
  <1>5. FootPoint(BoxOf(foot, size), size)
          = t + IF b >= r - 1 THEN Max({b - t, 4 * size}) ELSE b - t
    BY <1>2, <1>4 DEF FootPoint
  <1>6. Max({b - t, 4 * size}) = IF b - t >= 4 * size THEN b - t ELSE 4 * size
    BY LargestOfTwo
  <1>7. CASE foot <= FrameRows
    <2>1. b = f
      BY <1>1, <1>2, <1>7
    <2>2. b - t = 4 * size
      BY <1>3, <2>1
    <2>3. FootPoint(BoxOf(foot, size), size) = t + 4 * size
      BY <1>5, <1>6, <2>2
    <2> QED BY <1>2, <1>3, <2>3
  <1>8. CASE FrameRows < foot
    <2>1. low = FrameRows /\ b = r
      BY <1>1, <1>2, <1>8, MatchingAssumption
    <2>2. b <= f
      <3>1. PICK d \in Nat : foot = FrameRows + d
        <4>1. foot - FrameRows \in Nat /\ foot = FrameRows + (foot - FrameRows)
          BY <1>8, MatchingAssumption
        <4> QED BY <4>1
      <3>2. PICK e \in Int : e = size * d
        OBVIOUS
      <3>3. f = b + e
        <4>1. PICK w \in Int : w = FrameRows
          BY MatchingAssumption
        <4>2. size * (w + d) = size * w + size * d
          OBVIOUS
        <4> QED BY <1>2, <2>1, <3>1, <3>2, <4>1, <4>2
      <3>4. e >= 0
        BY <3>2
      <3> QED BY <3>3, <3>4
    <2>3. b - t <= 4 * size
      BY <1>3, <2>2
    <2>4. FootPoint(BoxOf(foot, size), size) = t + 4 * size
      BY <1>5, <1>6, <2>1, <2>3
    <2> QED BY <1>2, <1>3, <2>4
  <1>9. foot <= FrameRows \/ FrameRows < foot
    BY MatchingAssumption
  <1> QED BY <1>2, <1>7, <1>8, <1>9

(* Nor does the size it comes in: a point is where the calibration says.     *)
LEMMA QuotientExact ==
    ASSUME NEW a \in Nat \ {0}, NEW b \in Int
    PROVE  (a * b) \div a = b
  OBVIOUS

LEMMA ProjectedTwice ==
    ASSUME NEW foot \in Nat, NEW size \in Nat \ {0}, NEW calibrated \in {1, 2}
    PROVE  Project(size * foot, size, calibrated) = 2 * foot
  <1>1. PICK b \in Nat : b = foot * calibrated
    OBVIOUS
  <1>2. (size * foot) * calibrated = size * b
    BY <1>1
  <1>3. ToCalibrationDomain(size * foot, size, calibrated) = b
    BY <1>2, QuotientExact DEF ToCalibrationDomain
  <1>4. CASE calibrated = 1
    BY <1>1, <1>3, <1>4 DEF Project
  <1>5. CASE calibrated = 2
    BY <1>1, <1>3, <1>5 DEF Project
  <1> QED BY <1>4, <1>5

Scenes ==
    [matcher : Matchers, looks : [Tracks -> Looks], feet : [Tracks -> Feet],
     sizes : [{c \in DOMAIN Calibrations : Calibrations[c] # 0} -> Sizes], bare : {{}, Tracks}]

LEMMA SceneParts ==
    ASSUME scene \in Scenes, NEW t \in Tracks
    PROVE  /\ scene.matcher \in Matchers /\ scene.looks[t] \in 0 .. 2 /\ scene.feet[t] \in Nat
           /\ SeenBy[t] \in DOMAIN Calibrations
           /\ Calibrations[SeenBy[t]] # 0 => /\ Calibrations[SeenBy[t]] \in {1, 2}
                                             /\ scene.sizes[SeenBy[t]] \in Nat \ {0}
  <1>1. SeenBy[t] \in DOMAIN Calibrations /\ Calibrations[SeenBy[t]] \in 0 .. 2
    BY MatchingAssumption
  <1>2. /\ scene.matcher \in Matchers /\ scene.looks \in [Tracks -> Looks] /\ scene.feet \in [Tracks -> Feet]
        /\ scene.sizes \in [{c \in DOMAIN Calibrations : Calibrations[c] # 0} -> Sizes]
    BY DEF Scenes
  <1>3. scene.looks[t] \in 0 .. 2 /\ scene.feet[t] \in Nat
    BY <1>2, MatchingAssumption DEF Looks
  <1>4. ASSUME Calibrations[SeenBy[t]] # 0
        PROVE  Calibrations[SeenBy[t]] \in {1, 2} /\ scene.sizes[SeenBy[t]] \in Nat \ {0}
    <2>1. scene.sizes[SeenBy[t]] \in Sizes
      BY <1>1, <1>2, <1>4
    <2> QED BY <1>1, <1>4, <2>1, MatchingAssumption
  <1> QED BY <1>1, <1>2, <1>3, <1>4

LEMMA GroundIsWhereFeetAre ==
    ASSUME scene \in Scenes, NEW t \in Tracks, Calibrations[SeenBy[t]] # 0
    PROVE  GroundPosition(t) = 2 * scene.feet[t]
  <1>1. PICK foot \in Nat : foot = scene.feet[t]
    BY SceneParts
  <1>2. PICK size \in Nat \ {0} : size = scene.sizes[SeenBy[t]]
    BY SceneParts
  <1>3. PICK calibrated \in {1, 2} : calibrated = Calibrations[SeenBy[t]]
    BY SceneParts
  <1>4. GroundPosition(t) = Project(FootPoint(BoxOf(foot, size), size), size, calibrated)
    BY <1>1, <1>2, <1>3 DEF GroundPosition
  <1>5. FootPoint(BoxOf(foot, size), size) = size * foot
    BY FeetAreFound
  <1> QED BY <1>1, <1>4, <1>5, ProjectedTwice

LEMMA RealDistances ==
    ASSUME scene \in Scenes, NEW s \in Tracks, NEW t \in Tracks
    PROVE  /\ Really(s, t) \in Nat /\ Really(s, t) = Really(t, s)
           /\ GroundDistances(s, t) = IF Calibrated(s) /\ Calibrated(t) THEN {Really(s, t)} ELSE {}
  <1>1. PICK a \in Nat, b \in Nat : a = scene.feet[s] /\ b = scene.feet[t]
    BY SceneParts
  <1>2. Really(s, t) \in Nat /\ Really(s, t) = Really(t, s)
    BY <1>1 DEF Really, Gap
  <1>3. ASSUME Calibrated(s), Calibrated(t) PROVE Gap(GroundPosition(s), GroundPosition(t)) = Really(s, t)
    <2>1. GroundPosition(s) = 2 * a /\ GroundPosition(t) = 2 * b
      BY <1>1, <1>3, GroundIsWhereFeetAre DEF Calibrated
    <2>2. Gap(2 * a, 2 * b) = 2 * Gap(a, b)
      BY DEF Gap
    <2> QED BY <1>1, <2>1, <2>2 DEF Really
  <1> QED BY <1>2, <1>3 DEF GroundDistances

LEMMA EvidenceIsMutual ==
    ASSUME scene \in Scenes, NEW s \in Tracks, NEW t \in Tracks
    PROVE  MayBeOne(s, t) <=> MayBeOne(t, s)
  <1>1. Really(s, t) = Really(t, s)
    BY RealDistances
  <1>2. Gap(scene.looks[s], scene.looks[t]) = Gap(scene.looks[t], scene.looks[s])
    <2>1. scene.looks[s] \in Int /\ scene.looks[t] \in Int
      BY SceneParts
    <2> QED BY <2>1, GapType
  <1>3. scene.matcher \in Matchers
    BY SceneParts
  <1>4. CASE scene.matcher = "appearance"
    BY <1>2, <1>4 DEF MayBeOne
  <1>5. CASE scene.matcher = "spatial"
    BY <1>1, <1>5 DEF MayBeOne
  <1>6. CASE scene.matcher = "gated"
    BY <1>1, <1>2, <1>6 DEF MayBeOne
  <1> QED BY <1>3, <1>4, <1>5, <1>6 DEF Matchers

LEMMA LooksJudged ==
    ASSUME scene \in Scenes, NEW s \in Tracks, NEW t \in Tracks
    PROVE  /\ AppearanceSimilarity(s, t) \in 0 .. 100
           /\ AppearanceSimilarity(s, t) > 0 => Gap(scene.looks[s], scene.looks[t]) <= 1
  <1>1. PICK a \in 0 .. 2, b \in 0 .. 2 : a = scene.looks[s] /\ b = scene.looks[t]
    BY SceneParts
  <1>2. PICK gap \in 0 .. 2 : gap = Gap(a, b)
    BY DEF Gap
  <1>3. Cosine(s, t) = <<100, 45, 10>>[gap + 1]
    BY <1>1, <1>2 DEF Cosine
  <1>4. CASE gap = 0
    BY <1>1, <1>2, <1>3, <1>4, MatchingAssumption DEF AppearanceSimilarity
  <1>5. CASE gap = 1
    BY <1>1, <1>2, <1>3, <1>5, MatchingAssumption DEF AppearanceSimilarity
  <1>6. CASE gap = 2
    BY <1>1, <1>2, <1>3, <1>6, MatchingAssumption DEF AppearanceSimilarity
  <1> QED BY <1>4, <1>5, <1>6

LEMMA PlaceJudged ==
    ASSUME scene \in Scenes, NEW s \in Tracks, NEW t \in Tracks
    PROVE  /\ SpatialSimilarity(s, t) \in 0 .. 100
           /\ SpatialSimilarity(s, t) > 0 =>
                 Calibrated(s) /\ Calibrated(t) /\ Really(s, t) < SpatialThreshold
  <1> DEFINE near == {d \in GroundDistances(s, t) : d < SpatialThreshold}
  <1>1. SpatialSimilarity(s, t) = IF near = {} THEN 0 ELSE 100 - (100 * Max(near)) \div SpatialThreshold
    BY DEF SpatialSimilarity
  <1>2. CASE near = {}
    BY <1>1, <1>2
  <1>3. CASE near # {}
    <2>1. Calibrated(s) /\ Calibrated(t) /\ Really(s, t) < SpatialThreshold /\ near = {Really(s, t)}
      BY <1>3, RealDistances
    <2>2. PICK d \in Nat : d = Really(s, t)
      BY RealDistances
    <2>3. PICK limit \in Nat \ {0} : limit = SpatialThreshold
      BY MatchingAssumption
    <2>4. PICK q \in Int : q = (100 * d) \div limit
      OBVIOUS
    <2>5. q >= 0 /\ q <= 100
      <3>1. d < limit
        BY <2>1, <2>2, <2>3
      <3>2. q * limit <= 100 * d /\ 100 * d < (q + 1) * limit
        BY <2>4
      <3>3. q >= 0
        BY <2>4
      <3>4. ~ (q > 100)
        <4>1. SUFFICES ASSUME q >= 101 PROVE FALSE
          OBVIOUS
        <4>2. PICK k \in Nat : q = 101 + k
          <5>1. q - 101 \in Nat /\ q = 101 + (q - 101)
            BY <4>1
          <5> QED BY <5>1
        <4>3. q * limit = 101 * limit + k * limit /\ k * limit >= 0
          BY <4>2
        <4> QED BY <3>1, <3>2, <4>3
      <3> QED BY <3>3, <3>4
    <2>6. SpatialSimilarity(s, t) = 100 - q
      BY <1>1, <1>3, <2>1, <2>2, <2>3, <2>4, OnlyOne
    <2> QED BY <2>1, <2>5, <2>6
  <1> QED BY <1>2, <1>3

LEMMA SimilarityIsEvidence ==
    ASSUME scene \in Scenes, NEW s \in Tracks, NEW t \in Tracks
    PROVE  PairSimilarity(s, t) \in 0 .. 100 /\ (PairSimilarity(s, t) > 0 => MayBeOne(s, t))
  <1>1. scene.matcher \in Matchers
    BY SceneParts
  <1>2. CASE scene.matcher = "appearance"
    BY <1>2, LooksJudged DEF PairSimilarity, MayBeOne
  <1>3. CASE scene.matcher = "spatial"
    BY <1>3, PlaceJudged DEF PairSimilarity, MayBeOne, Calibrated
  <1>4. CASE scene.matcher = "gated"
    <2>1. GateOpen(s, t) /\ Calibrations[SeenBy[s]] # 0 /\ Calibrations[SeenBy[t]] # 0
            => Really(s, t) < SpatialThreshold
      BY <1>4, RealDistances DEF GateOpen, Calibrated, Accepted
    <2>2. PairSimilarity(s, t) = IF GateOpen(s, t) THEN AppearanceSimilarity(s, t) ELSE 0
      BY <1>4 DEF PairSimilarity, Veto
    <2> QED BY <1>4, <2>1, <2>2, LooksJudged DEF MayBeOne
  <1> QED BY <1>1, <1>2, <1>3, <1>4 DEF Matchers

------------------------------------------------------------------------------
(* The clusters of an instant.                                               *)

Matrix == distances = [pair \in Tracks \X Tracks |-> ToDistance(pair[1], pair[2])]

(* Every two members are of different cameras and may be one.                *)
Vouched(g) == \A s, t \in g : s # t => SeenBy[s] # SeenBy[t] /\ MayBeOne(s, t)

Apart(groups) == \A g, h \in groups : g # h => g \cap h = {}

(* The inductive invariant: it holds of the clusters after every merge.      *)
ClusterInv ==
    /\ scene \in Scenes
    /\ UNION grouping = Tracks /\ (\A g \in grouping : g # {}) /\ Apart(grouping)
    /\ \A g \in grouping : Vouched(g)
    /\ linkage \in {"build", "merge", "cut", "refused"}
    /\ linkage \in {"merge", "cut"} => Matrix
    /\ linkage = "cut" => Within = {}

LEMMA DistanceIsEvidence ==
    ASSUME scene \in Scenes, NEW s \in Tracks, NEW t \in Tracks
    PROVE  /\ ToDistance(s, t) \in Nat
           /\ s # t /\ ToDistance(s, t) < NeverMerge => SeenBy[s] # SeenBy[t] /\ MayBeOne(s, t)
  BY SimilarityIsEvidence DEF ToDistance, Mergeable, NeverMerge

LEMMA OneOfACamera ==
    ASSUME NEW g \in SUBSET Tracks, Vouched(g)
    PROVE  /\ IsFiniteSet(g) /\ Cardinality(g) \in Nat
           /\ Cardinality(g) <= Cardinality(DOMAIN Calibrations)
  <1> DEFINE cameras == DOMAIN Calibrations
             camera == [t \in g |-> SeenBy[t]]
  <1>1. IsFiniteSet(g) /\ IsFiniteSet(cameras)
    BY FS_Subset, MatchingAssumption
  <1>2. camera \in Injection(g, cameras)
    <2>1. camera \in [g -> cameras]
      BY MatchingAssumption
    <2>2. \A s, t \in g : camera[s] = camera[t] => s = t
      BY DEF Vouched
    <2> QED BY <2>1, <2>2 DEF Injection, IsInjective
  <1>3. Cardinality(g) <= Cardinality(cameras)
    <2> HIDE DEF cameras, camera
    <2> QED BY <1>1, <1>2, FS_Injection
  <1> QED BY <1>1, <1>3, FS_CardinalityType

(* The sum over a pair of clusters, and how many pairs it is over.           *)
LEMMA PairSum ==
    ASSUME scene \in Scenes, Matrix, NEW g \in SUBSET Tracks, NEW h \in SUBSET Tracks,
           g # {}, h # {}
    PROVE  /\ Cardinality(g) * Cardinality(h) \in Nat \ {0}
           /\ SumFunction([pair \in g \X h |-> distances[pair]]) \in Int
           /\ \A s \in g, t \in h :
                 SumFunction([pair \in g \X h |-> distances[pair]]) >= ToDistance(s, t)
  <1> DEFINE pairs == g \X h
             table == [pair \in pairs |-> distances[pair]]
  <1>1. IsFiniteSet(g) /\ IsFiniteSet(h)
    BY FS_Subset, MatchingAssumption
  <1>2. Cardinality(g) \in Nat \ {0} /\ Cardinality(h) \in Nat \ {0}
    BY <1>1, FS_CardinalityType, FS_EmptySet
  <1>3. PICK a \in Nat \ {0}, b \in Nat \ {0} : a = Cardinality(g) /\ b = Cardinality(h)
    BY <1>2
  <1>4. a * b \in Nat \ {0}
    OBVIOUS
  <1>5. \A pair \in pairs : table[pair] = ToDistance(pair[1], pair[2]) /\ table[pair] \in Nat
    <2>1. ASSUME NEW pair \in pairs
          PROVE  table[pair] = ToDistance(pair[1], pair[2]) /\ table[pair] \in Nat
      <3>1. pair \in Tracks \X Tracks /\ pair[1] \in Tracks /\ pair[2] \in Tracks
        OBVIOUS
      <3>2. table[pair] = ToDistance(pair[1], pair[2])
        BY <3>1 DEF Matrix
      <3> QED BY <3>1, <3>2, DistanceIsEvidence
    <2> QED BY <2>1
  <1>6. IsFiniteSet(pairs)
    BY <1>1, FS_Product
  <1>7. SumFunction(table) = SumFunctionOnSet(table, pairs)
    BY DEF SumFunction
  <1>8. Summable(table, pairs) /\ \A pair \in pairs : table[pair] >= 0
    <2> HIDE DEF table, pairs
    <2> QED BY <1>5, <1>6 DEF Summable
  <1>9. SumFunctionOnSet(table, pairs) \in Int
        /\ \A pair \in pairs : SumFunctionOnSet(table, pairs) >= table[pair]
    <2> HIDE DEF table, pairs
    <2> QED BY <1>8, SumType, SumCovers
  <1>10. ASSUME NEW s \in g, NEW t \in h PROVE SumFunction(table) >= ToDistance(s, t)
    <2>1. <<s, t>> \in pairs
      OBVIOUS
    <2>2. table[<<s, t>>] = ToDistance(s, t)
      BY <1>5, <2>1
    <2> HIDE DEF table, pairs
    <2> QED BY <1>7, <1>9, <2>1, <2>2
  <1>11. SumFunction(table) \in Int
    <2> HIDE DEF table, pairs
    <2> QED BY <1>7, <1>9
  <1> QED BY <1>3, <1>4, <1>10, <1>11

LEMMA AverageType ==
    ASSUME scene \in Scenes, Matrix, NEW g \in SUBSET Tracks, NEW h \in SUBSET Tracks,
           g # {}, h # {}
    PROVE  Average(g, h) \in Int
  <1>1. PICK n \in Nat \ {0}, total \in Int :
            /\ n = Cardinality(g) * Cardinality(h)
            /\ total = SumFunction([pair \in g \X h |-> distances[pair]])
    BY PairSum
  <1>2. Average(g, h) = (total * 12) \div n
    BY <1>1 DEF Average
  <1> QED BY <1>2

(* A pair that must never merge keeps the average of its clusters above the  *)
(* cut.                                                                      *)
LEMMA AverageHidesNothing ==
    ASSUME NEW n \in Nat \ {0}, NEW total \in Int, NEW bound \in Nat, NEW d \in Nat,
           NEW enormous \in Int, n <= bound, bound * (d + 1) <= enormous,
           (total * 12) \div n <= 12 * d
    PROVE  total < enormous
  <1>1. PICK q \in Int : q = (total * 12) \div n
    OBVIOUS
  <1>2. total * 12 < (q + 1) * n
    BY <1>1
  <1>3. (q + 1) * n <= (12 * d + 1) * n
    <2>1. PICK k \in Nat : 12 * d = q + k
      <3>1. 12 * d - q \in Nat /\ 12 * d = q + (12 * d - q)
        BY <1>1
      <3> QED BY <3>1
    <2>2. (12 * d + 1) * n = (q + 1) * n + k * n /\ k * n >= 0
      BY <2>1
    <2> QED BY <2>2
  <1>4. PICK m \in Int : m = (d + 1) * n
    OBVIOUS
  <1>5. (12 * d + 1) * n <= 12 * m
    <2>1. 12 * m = (12 * d + 1) * n + 11 * n
      BY <1>4
    <2> QED BY <2>1
  <1>6. m <= bound * (d + 1)
    <2>1. PICK k \in Nat : bound = n + k
      <3>1. bound - n \in Nat /\ bound = n + (bound - n)
        OBVIOUS
      <3> QED BY <3>1
    <2>2. bound * (d + 1) = m + k * (d + 1) /\ k * (d + 1) >= 0
      BY <1>4, <2>1
    <2> QED BY <2>2
  <1> QED BY <1>2, <1>3, <1>5, <1>6

LEMMA CloseClustersVouch ==
    ASSUME scene \in Scenes, Matrix, NEW g \in SUBSET Tracks, NEW h \in SUBSET Tracks,
           g # {}, h # {}, g \cap h = {}, Vouched(g), Vouched(h),
           Average(g, h) <= 12 * DistanceThreshold,
           NEW s \in g, NEW t \in h
    PROVE  SeenBy[s] # SeenBy[t] /\ MayBeOne(s, t)
  <1>1. PICK n \in Nat \ {0}, total \in Int :
            /\ n = Cardinality(g) * Cardinality(h)
            /\ total = SumFunction([pair \in g \X h |-> distances[pair]])
            /\ total >= ToDistance(s, t)
    BY PairSum
  <1>2. PICK a \in Nat, b \in Nat, c \in Nat :
            a = Cardinality(g) /\ b = Cardinality(h) /\ c = Cardinality(DOMAIN Calibrations)
    BY OneOfACamera, FS_CardinalityType, MatchingAssumption
  <1>3. a <= c /\ b <= c
    BY <1>2, OneOfACamera
  <1>4. n <= c * c
    <2>1. a * b <= c * b
      BY <1>3
    <2>2. c * b <= c * c
      BY <1>3
    <2> QED BY <1>1, <1>2, <2>1, <2>2
  <1>5. PICK d \in Nat : d = DistanceThreshold
    BY MatchingAssumption
  <1>6. PICK bound \in Nat : bound = c * c
    OBVIOUS
  <1>7. n <= bound /\ bound * (d + 1) <= NeverMerge
    BY <1>2, <1>4, <1>5, <1>6, MatchingAssumption
  <1>8. (total * 12) \div n <= 12 * d
    BY <1>1, <1>5 DEF Average
  <1>9. total < NeverMerge
    BY <1>7, <1>8, AverageHidesNothing DEF NeverMerge
  <1>10. ToDistance(s, t) < NeverMerge /\ s # t
    BY <1>1, <1>9, DistanceIsEvidence DEF NeverMerge
  <1> QED BY <1>10, DistanceIsEvidence

LEMMA MergedVouch ==
    ASSUME scene \in Scenes, Matrix, NEW g \in SUBSET Tracks, NEW h \in SUBSET Tracks,
           g # {}, h # {}, g \cap h = {}, Vouched(g), Vouched(h),
           Average(g, h) <= 12 * DistanceThreshold
    PROVE  Vouched(g \cup h)
  <1> SUFFICES ASSUME NEW s \in g \cup h, NEW t \in g \cup h, s # t
               PROVE  SeenBy[s] # SeenBy[t] /\ MayBeOne(s, t)
    BY DEF Vouched
  <1>1. CASE s \in g /\ t \in g
    BY <1>1 DEF Vouched
  <1>2. CASE s \in h /\ t \in h
    BY <1>2 DEF Vouched
  <1>3. CASE s \in g /\ t \in h
    BY <1>3, CloseClustersVouch
  <1>4. CASE s \in h /\ t \in g
    <2>1. SeenBy[t] # SeenBy[s] /\ MayBeOne(t, s)
      BY <1>4, CloseClustersVouch
    <2> QED BY <1>4, <2>1, EvidenceIsMutual
  <1> QED BY <1>1, <1>2, <1>3, <1>4

LEMMA MatchingStarts == MatchingInit => ClusterInv
  <1> SUFFICES ASSUME MatchingInit PROVE ClusterInv
    OBVIOUS
  <1>1. scene \in Scenes /\ linkage = "build" /\ grouping = {{t} : t \in Tracks}
    BY DEF MatchingInit, Scenes
  <1>2. UNION grouping = Tracks
    <2>1. \A t : t \in UNION {{e} : e \in Tracks} <=> t \in Tracks
      OBVIOUS
    <2> QED BY <1>1, <2>1
  <1>3. (\A g \in grouping : g # {}) /\ Apart(grouping)
    BY <1>1, ZenonT(40) DEF Apart
  <1>4. \A g \in grouping : Vouched(g)
    BY <1>1 DEF Vouched
  <1> QED BY <1>1, <1>2, <1>3, <1>4 DEF ClusterInv

(* What does not change with a step that leaves the scene alone.             *)
LEMMA SameScene ==
    ASSUME UNCHANGED scene
    PROVE  /\ (scene \in Scenes)' <=> scene \in Scenes
           /\ \A g : Vouched(g)' <=> Vouched(g)
           /\ UNCHANGED distances => (Matrix' <=> Matrix)
           /\ UNCHANGED <<distances, grouping>> => Within' = Within
  <1>1. \A g : Vouched(g)' <=> Vouched(g)
    BY DEF Vouched, MayBeOne, Really
  <1>2. \A s, t : ToDistance(s, t)' = ToDistance(s, t)
    BY DEF ToDistance, PairSimilarity, AppearanceSimilarity, Cosine, SpatialSimilarity, GroundDistances,
           Calibrated, GroundPosition, GateOpen, Mergeable
  <1>3. (scene \in Scenes)' <=> scene \in Scenes
    BY DEF Scenes
  <1>4. ASSUME UNCHANGED distances PROVE Matrix' <=> Matrix
    BY <1>2, <1>4 DEF Matrix
  <1>5. ASSUME UNCHANGED <<distances, grouping>> PROVE Within' = Within
    BY <1>5 DEF Within, GroupPairs, Average
  <1> QED BY <1>1, <1>3, <1>4, <1>5

LEMMA BuildKeepsClusters == ClusterInv /\ Build => ClusterInv'
  <1> SUFFICES ASSUME ClusterInv, Build PROVE ClusterInv'
    OBVIOUS
  <1>1. UNCHANGED <<scene, grouping>> /\ linkage' = "merge"
    BY DEF Build
  <1>2. \A s, t : ToDistance(s, t)' = ToDistance(s, t)
    BY <1>1 DEF ToDistance, PairSimilarity, AppearanceSimilarity, Cosine, SpatialSimilarity,
                GroundDistances, Calibrated, GroundPosition, GateOpen, Mergeable
  <1>3. Matrix'
    BY <1>2 DEF Build, Matrix
  <1>4. (scene \in Scenes)' /\ \A g \in grouping' : Vouched(g)'
    BY <1>1, SameScene DEF ClusterInv
  <1> QED BY <1>1, <1>3, <1>4 DEF ClusterInv, Apart

LEMMA MergeKeepsClusters == ClusterInv /\ Merge => ClusterInv'
  <1> SUFFICES ASSUME ClusterInv, Merge PROVE ClusterInv'
    OBVIOUS
  <1>1. PICK pair \in Within : grouping' = (grouping \ {pair[1], pair[2]}) \cup {pair[1] \cup pair[2]}
    BY DEF Merge
  <1>2. PICK g, h : g = pair[1] /\ h = pair[2]
    OBVIOUS
  <1>3. g \in grouping /\ h \in grouping /\ g # h /\ Average(g, h) <= 12 * DistanceThreshold
    BY <1>1, <1>2 DEF Within, GroupPairs
  <1>4. grouping' = (grouping \ {g, h}) \cup {g \cup h}
    BY <1>1, <1>2
  <1>5. /\ g \in SUBSET Tracks /\ h \in SUBSET Tracks /\ g # {} /\ h # {} /\ g \cap h = {}
        /\ Vouched(g) /\ Vouched(h)
    BY <1>3 DEF ClusterInv, Apart
  <1>6. /\ UNCHANGED <<scene, distances, linkage>> /\ linkage = "merge"
        /\ scene \in Scenes /\ Matrix
    BY DEF Merge, ClusterInv
  <1>7. Vouched(g \cup h)
    BY <1>3, <1>5, <1>6, MergedVouch
  <1>8. \A k \in grouping' : Vouched(k)'
    <2>1. \A k \in grouping' : Vouched(k)
      BY <1>4, <1>7 DEF ClusterInv
    <2> QED BY <1>6, <2>1, SameScene
  <1>9. UNION grouping' = Tracks
    <2>1. PICK groups : groups = grouping'
      OBVIOUS
    <2>2. ASSUME NEW t \in UNION groups PROVE t \in UNION grouping
      <3>1. PICK k \in groups : t \in k
        OBVIOUS
      <3>2. k \in grouping \/ k = g \cup h
        BY <1>4, <2>1, <3>1
      <3>3. CASE k \in grouping
        BY <3>1, <3>3
      <3>4. CASE k = g \cup h
        <4>1. t \in g \/ t \in h
          BY <3>1, <3>4
        <4> QED BY <1>3, <4>1
      <3> QED BY <3>2, <3>3, <3>4
    <2>3. ASSUME NEW t \in UNION grouping PROVE t \in UNION groups
      <3>1. PICK k \in grouping : t \in k
        OBVIOUS
      <3>2. CASE k = g \/ k = h
        <4>1. t \in g \cup h /\ g \cup h \in groups
          BY <1>4, <2>1, <3>1, <3>2
        <4> QED BY <4>1
      <3>3. CASE k # g /\ k # h
        <4>1. k \in groups
          BY <1>4, <2>1, <3>1, <3>3
        <4> QED BY <3>1, <4>1
      <3> QED BY <3>2, <3>3
    <2>4. UNION groups = UNION grouping
      BY <2>2, <2>3
    <2> QED BY <2>1, <2>4 DEF ClusterInv
  <1>10. \A k \in grouping' : k # {}
    BY <1>4, <1>5 DEF ClusterInv
  <1>11. Apart(grouping')
    <2>1. ASSUME NEW k \in grouping \ {g, h} PROVE k \cap (g \cup h) = {}
      BY <1>3, <2>1 DEF ClusterInv, Apart
    <2>2. ASSUME NEW k \in grouping', NEW l \in grouping', k # l PROVE k \cap l = {}
      <3>1. CASE k = g \cup h
        BY <1>4, <2>1, <2>2, <3>1
      <3>2. CASE l = g \cup h
        BY <1>4, <2>1, <2>2, <3>2
      <3>3. CASE k # g \cup h /\ l # g \cup h
        BY <1>4, <2>2, <3>3 DEF ClusterInv, Apart
      <3> QED BY <3>1, <3>2, <3>3
    <2> QED BY <2>2 DEF Apart
  <1>12. (scene \in Scenes)' /\ Matrix' /\ linkage' = "merge"
    BY <1>6, SameScene
  <1>13. Apart(grouping)'
    BY <1>11 DEF Apart
  <1> QED BY <1>8, <1>9, <1>10, <1>12, <1>13 DEF ClusterInv

LEMMA OthersKeepClusters == ClusterInv /\ (Refuse \/ Cut \/ UNCHANGED matching) => ClusterInv'
  <1> SUFFICES ASSUME ClusterInv, Refuse \/ Cut \/ UNCHANGED matching PROVE ClusterInv'
    OBVIOUS
  <1>1. UNCHANGED <<scene, distances, grouping>>
    BY DEF Refuse, Cut, matching
  <1>2. /\ (scene \in Scenes)' /\ (Matrix' <=> Matrix) /\ Within' = Within
        /\ \A g \in grouping' : Vouched(g)'
    BY <1>1, SameScene DEF ClusterInv
  <1>3. /\ linkage' \in {"build", "merge", "cut", "refused"}
        /\ linkage' \in {"merge", "cut"} => Matrix
        /\ linkage' = "cut" => Within = {}
    BY DEF Refuse, Cut, matching, ClusterInv
  <1>4. Apart(grouping)'
    BY <1>1 DEF ClusterInv, Apart
  <1> QED BY <1>1, <1>2, <1>3, <1>4 DEF ClusterInv

LEMMA ClustersInvariant == MatchingSpec => []ClusterInv
  <1>1. ClusterInv /\ [MatchingNext]_matching => ClusterInv'
    BY BuildKeepsClusters, MergeKeepsClusters, OthersKeepClusters DEF MatchingNext
  <1> QED BY <1>1, MatchingStarts, PTL DEF MatchingSpec

(* However the averages fall, two tracks end in a cluster only when they are *)
(* of different cameras and have evidence of their own that they are one:    *)
(* the sentinel in the matrix (base.py to_distance) is never averaged away.  *)
(* Clusters are disjoint, hold every track, and stay apart only where they   *)
(* are further apart than the cut.                                           *)
THEOREM AveragingHidesNothing == MatchingSpec => []ClustersAreEvidence
  <1>1. ClusterInv => ClustersAreEvidence
    <2> SUFFICES ASSUME ClusterInv, linkage = "cut"
                 PROVE  /\ UNION grouping = Tracks
                        /\ \A g, h \in grouping : g # h =>
                              g \cap h = {} /\ Average(g, h) > 12 * DistanceThreshold
                        /\ \A g \in grouping : Vouched(g)
      BY DEF ClustersAreEvidence, Vouched
    <2>1. scene \in Scenes /\ Matrix /\ Within = {}
      BY DEF ClusterInv
    <2>2. ASSUME NEW g \in grouping, NEW h \in grouping, g # h
          PROVE  Average(g, h) > 12 * DistanceThreshold
      <3>1. g \in SUBSET Tracks /\ h \in SUBSET Tracks /\ g # {} /\ h # {}
        BY DEF ClusterInv
      <3>2. Average(g, h) \in Int
        BY <2>1, <3>1, AverageType
      <3>3. ~ (Average(g, h) <= 12 * DistanceThreshold)
        <4>1. <<g, h>> \in GroupPairs
          BY <2>2 DEF GroupPairs
        <4> QED BY <2>1, <4>1 DEF Within
      <3>4. DistanceThreshold \in Nat
        BY MatchingAssumption
      <3> QED BY <3>2, <3>3, <3>4
    <2> QED BY <2>2 DEF ClusterInv, Apart
  <1> QED BY <1>1, ClustersInvariant, PTL

------------------------------------------------------------------------------
(* What an assignment costs, and what its potentials say it must: n rows, m  *)
(* columns, a matrix c, potentials u of the rows and v of the columns.       *)

Slack(c, u, v, i, j) == c[i][j] - u[i] - v[j]

Expense(c, n, s) == SumFunctionOnSet([i \in 1 .. n |-> c[i][s[i]]], 1 .. n)

Dual(u, v, n, m) == SumFunctionOnSet(u, 1 .. n) + SumFunctionOnSet(v, 1 .. m)

LEMMA Duality ==
    ASSUME NEW n \in Nat, NEW m \in Nat, NEW c \in [1 .. n -> [1 .. m -> Int]],
           NEW u \in [0 .. n -> Int], NEW v \in [0 .. m -> Int],
           NEW s \in Injection(1 .. n, 1 .. m), \A j \in 1 .. m : v[j] <= 0
    PROVE  /\ Expense(c, n, s) \in Int /\ Dual(u, v, n, m) \in Int
           /\ (\A i \in 1 .. n, j \in 1 .. m : Slack(c, u, v, i, j) >= 0)
                 => Expense(c, n, s) >= Dual(u, v, n, m)
           /\ (/\ \A i \in 1 .. n : Slack(c, u, v, i, s[i]) = 0
               /\ \A j \in 1 .. m : v[j] = 0 \/ \E i \in 1 .. n : s[i] = j)
                 => Expense(c, n, s) = Dual(u, v, n, m)
  <1> DEFINE I == 1 .. n
             J == 1 .. m
             hit == {s[i] : i \in I}
             costs == [i \in I |-> c[i][s[i]]]
             worths == [i \in I |-> v[s[i]]]
             prices == [i \in I |-> u[i] + v[s[i]]]
  <1>1. IsFiniteSet(I) /\ IsFiniteSet(J)
    BY FS_Interval
  <1>2. s \in [I -> J] /\ \A i, k \in I : s[i] = s[k] => i = k
    BY DEF Injection, IsInjective
  <1>3. \A i \in I : s[i] \in J /\ c[i][s[i]] \in Int /\ u[i] \in Int /\ v[s[i]] \in Int
    BY <1>2
  <1>4. \A j \in J : v[j] \in Int
    OBVIOUS
  <1>5. Summable(costs, I) /\ Summable(worths, I) /\ Summable(u, I) /\ Summable(v, J)
    <2> HIDE DEF I, J
    <2> QED BY <1>1, <1>3, <1>4 DEF Summable
  <1>6. PICK x \in Int : x = SumFunctionOnSet(costs, I)
    <2> HIDE DEF I, costs
    <2> QED BY <1>5, SumType
  <1>7. PICK a \in Int, b \in Int : a = SumFunctionOnSet(u, I) /\ b = SumFunctionOnSet(v, J)
    <2> HIDE DEF I, J
    <2> QED BY <1>5, SumType
  <1>8. Summable(v, hit) /\ SumFunctionOnSet(v, hit) = SumFunctionOnSet(worths, I)
    <2>1. \A i \in I : worths[i] = v[s[i]] /\ v[s[i]] \in Int
      BY <1>3
    <2>2. Indexes(s, I, hit)
      BY <1>1, <1>2 DEF Indexes
    <2>3. Through(worths, v, s, I)
      BY <2>1 DEF Through
    <2> HIDE DEF I, worths, hit
    <2> QED BY <2>2, <2>3, SumByIndex
  <1>9. PICK w \in Int : w = SumFunctionOnSet(worths, I) /\ w = SumFunctionOnSet(v, hit)
    <2> HIDE DEF I, worths, hit
    <2> QED BY <1>5, <1>8, SumType
  <1>10. hit \in SUBSET J /\ \A j \in J \ hit : v[j] <= 0
    BY <1>2
  <1>11. b <= w /\ ((\A j \in J \ hit : v[j] = 0) => b = w)
    <2>1. /\ SumFunctionOnSet(v, J) <= SumFunctionOnSet(v, hit)
          /\ (\A j \in J \ hit : v[j] = 0) => SumFunctionOnSet(v, J) = SumFunctionOnSet(v, hit)
      <3> HIDE DEF J, hit
      <3> QED BY <1>5, <1>10, SumOverMore
    <2> HIDE DEF J, hit
    <2> QED BY <1>7, <1>9, <2>1
  <1>12. Summable(prices, I) /\ SumFunctionOnSet(prices, I) = a + w
    <2>1. IsBoth(prices, u, worths, I)
      BY DEF IsBoth
    <2>2. /\ Summable(prices, I)
          /\ SumFunctionOnSet(prices, I) = SumFunctionOnSet(u, I) + SumFunctionOnSet(worths, I)
      <3> HIDE DEF I, prices, worths, costs
      <3> QED BY <1>5, <2>1, SumOfBoth
    <2> HIDE DEF I, prices, worths
    <2> QED BY <1>7, <1>9, <2>2
  <1>13. Expense(c, n, s) = x /\ Dual(u, v, n, m) = a + b
    BY <1>6, <1>7 DEF Expense, Dual
  <1>14. ASSUME \A i \in I, j \in J : Slack(c, u, v, i, j) >= 0 PROVE x >= a + b
    <2>1. \A i \in I : prices[i] <= costs[i]
      <3> SUFFICES ASSUME NEW i \in I PROVE prices[i] <= costs[i]
        OBVIOUS
      <3>1. PICK k \in Int, l \in Int, q \in Int : k = c[i][s[i]] /\ l = u[i] /\ q = v[s[i]]
        BY <1>3
      <3>2. k - l - q >= 0
        BY <1>3, <1>14, <3>1 DEF Slack
      <3>3. l + q <= k
        BY <3>2
      <3> QED BY <3>1, <3>3
    <2>2. SumFunctionOnSet(prices, I) <= SumFunctionOnSet(costs, I)
      <3> HIDE DEF I, prices, costs
      <3> QED BY <1>5, <1>12, <2>1, SumBelow
    <2>3. a + w <= x
      BY <1>6, <1>12, <2>2
    <2> QED BY <1>11, <2>3
  <1>15. ASSUME \A i \in I : Slack(c, u, v, i, s[i]) = 0,
                \A j \in J : v[j] = 0 \/ \E i \in I : s[i] = j
         PROVE  x = a + b
    <2>1. \A i \in I : costs[i] = prices[i]
      <3> SUFFICES ASSUME NEW i \in I PROVE costs[i] = prices[i]
        OBVIOUS
      <3>1. PICK k \in Int, l \in Int, q \in Int : k = c[i][s[i]] /\ l = u[i] /\ q = v[s[i]]
        BY <1>3
      <3>2. k - l - q = 0
        BY <1>15, <3>1 DEF Slack
      <3>3. k = l + q
        BY <3>2
      <3> QED BY <3>1, <3>3
    <2>2. SumFunctionOnSet(costs, I) = SumFunctionOnSet(prices, I)
      <3> HIDE DEF I, prices, costs
      <3> QED BY <1>5, <2>1, SumSame
    <2>3. \A j \in J \ hit : v[j] = 0
      BY <1>15
    <2>4. x = a + w
      BY <1>6, <1>12, <2>2
    <2> QED BY <1>11, <2>3, <2>4
  <1> QED BY <1>13, <1>14, <1>15

------------------------------------------------------------------------------
(* The solver between two iterations: n rows and m columns, the matrix c,    *)
(* potentials u and v, row k being placed, q the column at hand, mt the      *)
(* mates, pt the paths, sh the shortest ways, vis the columns visited.       *)

Solvable(n, m, c, u, v, mt, pt) ==
    /\ n \in Nat \ {0} /\ m \in Nat /\ n <= m /\ c \in [1 .. n -> [1 .. m -> Int]]
    /\ u \in [0 .. n -> Int] /\ v \in [0 .. m -> Int]
    /\ mt \in [0 .. m -> 0 .. n] /\ pt \in [0 .. m -> 0 .. m]

(* The columns but the hole have the rows up to k, one each.                 *)
OneEach(m, k, mt, hole) ==
    /\ \A j \in (0 .. m) \ {hole} : mt[j] \in 0 .. k
    /\ \A i, j \in (0 .. m) \ {hole} : mt[i] # 0 /\ mt[i] = mt[j] => i = j
    /\ \A r \in 1 .. k : \E j \in (0 .. m) \ {hole} : mt[j] = r

(* The potentials are feasible for the rows up to k, a mate is worth what it *)
(* costs, and a column nobody holds is free of charge.                       *)
Priced(m, k, c, u, v, mt, hole) ==
    /\ \A i \in 1 .. k, j \in 1 .. m : Slack(c, u, v, i, j) >= 0
    /\ \A j \in 1 .. m : v[j] <= 0
    /\ \A j \in (1 .. m) \ {hole} :
          IF mt[j] = 0 THEN v[j] = 0 ELSE Slack(c, u, v, mt[j], j) = 0

(* Paths lead down a tree of columns, along pairs without slack.             *)
Rooted(c, u, v, mt, pt, tree, top, rank) ==
    /\ top \in tree
    /\ \A j \in tree : /\ rank[j] <= rank[top]
                       /\ j # 0 => /\ pt[j] \in tree /\ rank[pt[j]] < rank[j] /\ mt[pt[j]] # 0
                                   /\ Slack(c, u, v, mt[pt[j]], j) = 0

(* The shortest way to a column is the least slack of a row on the tree.     *)
Nearest(m, c, u, v, mt, pt, sh, vis) ==
    IF vis = {} THEN \A j \in 1 .. m : sh[j] = {}
    ELSE \A j \in (1 .. m) \ vis :
            /\ pt[j] \in vis
            /\ sh[j] = {Slack(c, u, v, mt[pt[j]], j)}
            /\ \A i \in vis : Slack(c, u, v, mt[i], j) >= Slack(c, u, v, mt[pt[j]], j)

Nowhere == -1

Searching(n, m, c, k, q, mt, pt, sh, vis, u, v) ==
    /\ Solvable(n, m, c, u, v, mt, pt) /\ sh \in [0 .. m -> SUBSET Int]
    /\ k \in 1 .. n /\ mt[0] = k
    /\ vis \in SUBSET (0 .. m) /\ q \in (0 .. m) \ vis /\ (vis = {} <=> q = 0)
    /\ \A j \in vis \cup {q} : mt[j] # 0
    /\ OneEach(m, k, mt, Nowhere)
    /\ Priced(m, IF vis = {} THEN k - 1 ELSE k, c, u, v, mt, Nowhere)
    /\ \E rank \in [0 .. m -> Nat] : Rooted(c, u, v, mt, pt, vis \cup {q}, q, rank)
    /\ Nearest(m, c, u, v, mt, pt, sh, vis)

Flipping(n, m, c, k, q, mt, pt, u, v) ==
    /\ Solvable(n, m, c, u, v, mt, pt) /\ k \in 1 .. n /\ q \in 1 .. m
    /\ OneEach(m, k, mt, q) /\ Priced(m, k, c, u, v, mt, q)
    /\ \E rank \in [0 .. m -> Nat], tree \in SUBSET (0 .. m) : Rooted(c, u, v, mt, pt, tree, q, rank)

Solved(n, m, c, mt, pt, u, v) ==
    Solvable(n, m, c, u, v, mt, pt) /\ OneEach(m, n, mt, 0) /\ Priced(m, n, c, u, v, mt, 0)

(* There is always a column left to go to.                                   *)
LEMMA ColumnLeft ==
    ASSUME NEW n \in Nat, NEW m \in Nat, n <= m, NEW k \in 1 .. n,
           NEW mt \in [0 .. m -> 0 .. n], mt[0] = k, OneEach(m, k, mt, Nowhere),
           NEW seen \in SUBSET (0 .. m), \A j \in seen : mt[j] # 0
    PROVE  (1 .. m) \ seen # {}
  <1> SUFFICES ASSUME (1 .. m) \ seen = {} PROVE FALSE
    OBVIOUS
  <1>1. \A j \in 1 .. m : j \in seen /\ j \in (0 .. m) \ {Nowhere} /\ j # 0
    BY DEF Nowhere
  <1>2. 0 \in (0 .. m) \ {Nowhere}
    BY DEF Nowhere
  <1>3. \A j \in 1 .. m : mt[j] \in 1 .. (k - 1)
    <2> SUFFICES ASSUME NEW j \in 1 .. m PROVE mt[j] \in 1 .. (k - 1)
      OBVIOUS
    <2>1. mt[j] \in 0 .. k /\ mt[j] # 0 /\ mt[j] # k
      BY <1>1, <1>2 DEF OneEach
    <2> QED BY <2>1
  <1> DEFINE I == 1 .. m
             K == 1 .. (k - 1)
             f == [j \in I |-> mt[j]]
  <1>4. f \in Injection(I, K)
    <2>1. f \in [I -> K]
      BY <1>3
    <2>2. \A i, j \in I : f[i] = f[j] => i = j
      BY <1>1 DEF OneEach
    <2> QED BY <2>1, <2>2 DEF Injection, IsInjective
  <1>5. IsFiniteSet(K) /\ Cardinality(I) = m /\ Cardinality(K) = k - 1
    <2>1. 1 \in Int /\ m \in Int /\ k - 1 \in Int /\ ~ (1 > m) /\ k - 1 >= 0
      OBVIOUS
    <2>2. Cardinality(1 .. m) = m - 1 + 1
      BY <2>1, FS_Interval
    <2>3. IsFiniteSet(1 .. (k - 1)) /\ Cardinality(1 .. (k - 1)) = IF 1 > k - 1 THEN 0 ELSE (k - 1) - 1 + 1
      BY <2>1, FS_Interval
    <2> QED BY <2>1, <2>2, <2>3
  <1>6. Cardinality(I) <= Cardinality(K)
    <2> HIDE DEF I, K, f
    <2> QED BY <1>4, <1>5, FS_Injection
  <1>7. m <= k - 1
    <2> HIDE DEF I, K, f
    <2> QED BY <1>5, <1>6
  <1> QED BY <1>7

(* One iteration of the search, its new values named.                        *)
Searched(n, m, c, k, q, mt, pt, sh, vis, u, v, seen, free, closer, way, delta, next, pt2, sh2, u2, v2) ==
    /\ seen = vis \cup {q} /\ free = (1 .. m) \ seen
    /\ closer = {j \in free : \A length \in sh[j] : Slack(c, u, v, mt[q], j) < length}
    /\ way = [j \in free |-> IF j \in closer THEN Slack(c, u, v, mt[q], j)
                             ELSE CHOOSE length \in sh[j] : TRUE]
    /\ delta = Min({way[j] : j \in free}) /\ next = Min({j \in free : way[j] = delta})
    /\ pt2 = [j \in 0 .. m |-> IF j \in closer THEN q ELSE pt[j]]
    /\ sh2 = [j \in 0 .. m |-> IF j \in free THEN {way[j] - delta} ELSE sh[j]]
    /\ u2 = [i \in 0 .. n |-> u[i] + IF i \in {mt[j] : j \in seen} THEN delta ELSE 0]
    /\ v2 = [j \in 0 .. m |-> v[j] - IF j \in seen THEN delta ELSE 0]

(* The search steps to the nearest column that is left, and prices the tree  *)
(* by as much as that takes.                                                 *)
Nearer(n, m, c, u, v, mt, seen, free, way, delta, next, pt2) ==
    /\ seen \in SUBSET (0 .. m) /\ (\A j \in seen : mt[j] # 0)
    /\ free = (1 .. m) \ seen /\ next \in free /\ delta \in Int
    /\ pt2 \in [0 .. m -> 0 .. m]
    /\ \A j \in free : /\ pt2[j] \in seen /\ way[j] \in Int /\ delta <= way[j]
                       /\ way[j] = Slack(c, u, v, mt[pt2[j]], j)
                       /\ \A i \in seen : Slack(c, u, v, mt[i], j) >= way[j]
    /\ way[next] = delta

LEMMA SearchGoesToNearest ==
    ASSUME NEW n, NEW m, NEW c, NEW k, NEW q, NEW mt, NEW pt, NEW sh, NEW vis, NEW u, NEW v,
           NEW seen, NEW free, NEW closer, NEW way, NEW delta, NEW next, NEW pt2, NEW sh2, NEW u2, NEW v2,
           Searching(n, m, c, k, q, mt, pt, sh, vis, u, v),
           Searched(n, m, c, k, q, mt, pt, sh, vis, u, v,
                    seen, free, closer, way, delta, next, pt2, sh2, u2, v2)
    PROVE  /\ Nearer(n, m, c, u, v, mt, seen, free, way, delta, next, pt2)
           /\ \A j \in seen : pt2[j] = pt[j]
  <1>a. n \in Nat /\ m \in Nat /\ n <= m /\ k \in 1 .. n /\ vis \in SUBSET (0 .. m) /\ q \in 0 .. m
    BY DEF Searching, Solvable
  <1>b. mt \in [0 .. m -> 0 .. n] /\ pt \in [0 .. m -> 0 .. m]
    BY DEF Searching, Solvable
  <1>c. c \in [1 .. n -> [1 .. m -> Int]] /\ u \in [0 .. n -> Int] /\ v \in [0 .. m -> Int]
    BY DEF Searching, Solvable
  <1>d. mt[0] = k /\ OneEach(m, k, mt, Nowhere)
    BY DEF Searching
  <1>2. \A j \in vis \cup {q} : mt[j] # 0
    BY DEF Searching
  <1>3. seen = vis \cup {q} /\ free = (1 .. m) \ seen
    BY DEF Searched
  <1>4. seen \in SUBSET (0 .. m) /\ \A j \in seen : mt[j] \in 1 .. n
    <2>1. seen \in SUBSET (0 .. m)
      BY <1>a, <1>3
    <2>2. \A j \in seen : mt[j] \in 0 .. n /\ mt[j] # 0
      BY <1>b, <1>2, <1>3, <2>1
    <2> QED BY <1>a, <2>1, <2>2
  <1>5. free # {} /\ free \subseteq 1 .. m
    <2>1. (1 .. m) \ seen # {}
      <3>1. \A j \in seen : mt[j] # 0
        BY <1>2, <1>3
      <3> QED BY <1>a, <1>b, <1>d, <1>4, <3>1, ColumnLeft
    <2> QED BY <1>3, <2>1
  <1>6. \A i \in 1 .. n, j \in 1 .. m : Slack(c, u, v, i, j) \in Int
    <2> SUFFICES ASSUME NEW i \in 1 .. n, NEW j \in 1 .. m PROVE Slack(c, u, v, i, j) \in Int
      OBVIOUS
    <2>1. i \in 0 .. n /\ j \in 0 .. m
      BY <1>a
    <2>2. c[i][j] \in Int /\ u[i] \in Int /\ v[j] \in Int
      BY <1>c, <2>1
    <2> QED BY <2>2 DEF Slack
  <1>7. \A j \in free : /\ pt2[j] = IF j \in closer THEN q ELSE pt[j]
                        /\ way[j] = IF j \in closer THEN Slack(c, u, v, mt[q], j)
                                    ELSE CHOOSE length \in sh[j] : TRUE
    BY <1>5 DEF Searched
  <1>8. ASSUME NEW j \in free
        PROVE  /\ pt2[j] \in seen
               /\ way[j] = Slack(c, u, v, mt[pt2[j]], j)
               /\ \A i \in seen : Slack(c, u, v, mt[i], j) >= way[j]
    <2>1. j \in 1 .. m /\ j \notin vis
      BY <1>3, <1>5
    <2>2. mt[q] \in 1 .. n /\ Slack(c, u, v, mt[q], j) \in Int
      BY <1>3, <1>4, <1>6, <2>1
    <2>3. CASE vis = {}
      <3>1. sh[j] = {}
        BY <2>1, <2>3 DEF Searching, Nearest
      <3>2. j \in closer
        BY <3>1 DEF Searched
      <3> QED BY <1>3, <1>7, <2>2, <2>3, <3>2
    <2>4. CASE vis # {}
      <3>1. /\ pt[j] \in vis /\ sh[j] = {Slack(c, u, v, mt[pt[j]], j)}
            /\ \A i \in vis : Slack(c, u, v, mt[i], j) >= Slack(c, u, v, mt[pt[j]], j)
        BY <2>1, <2>4 DEF Searching, Nearest
      <3>2. PICK a \in Int, b \in Int : a = Slack(c, u, v, mt[q], j) /\ b = Slack(c, u, v, mt[pt[j]], j)
        <4>1. pt[j] \in seen
          BY <1>3, <3>1
        <4>2. Slack(c, u, v, mt[pt[j]], j) \in Int
          BY <1>4, <1>6, <2>1, <4>1
        <4> QED BY <2>2, <4>2
      <3>3. j \in closer <=> a < b
        BY <3>1, <3>2 DEF Searched
      <3>4. CASE a < b
        <4>1. pt2[j] = q /\ way[j] = a
          BY <1>7, <3>2, <3>3, <3>4
        <4>2. ASSUME NEW i \in seen PROVE Slack(c, u, v, mt[i], j) >= a
          <5>1. CASE i = q
            BY <3>2, <5>1
          <5>2. CASE i \in vis
            <6>1. Slack(c, u, v, mt[i], j) \in Int /\ Slack(c, u, v, mt[i], j) >= b
              BY <1>4, <1>6, <2>1, <3>1, <3>2, <5>2
            <6> QED BY <3>4, <6>1
          <5> QED BY <1>3, <5>1, <5>2
        <4> QED BY <1>3, <3>2, <4>1, <4>2
      <3>5. CASE ~ (a < b)
        <4>1. pt2[j] = pt[j]
          BY <1>7, <3>3, <3>5
        <4>2. way[j] = b
          <5>1. way[j] = CHOOSE length \in sh[j] : TRUE
            BY <1>7, <3>3, <3>5
          <5>2. sh[j] = {b}
            BY <3>1, <3>2
          <5> QED BY <5>1, <5>2
        <4>3. ASSUME NEW i \in seen PROVE Slack(c, u, v, mt[i], j) >= b
          <5>1. CASE i = q
            BY <3>2, <3>5, <5>1
          <5>2. CASE i \in vis
            BY <3>1, <3>2, <5>2
          <5> QED BY <1>3, <5>1, <5>2
        <4> QED BY <1>3, <3>1, <3>2, <4>1, <4>2, <4>3
      <3> QED BY <3>4, <3>5
    <2> QED BY <2>3, <2>4
  <1>9. \A j \in free : way[j] \in Int
    <2> SUFFICES ASSUME NEW j \in free PROVE way[j] \in Int
      OBVIOUS
    <2>1. way[j] = Slack(c, u, v, mt[pt2[j]], j) /\ mt[pt2[j]] \in 1 .. n
      BY <1>4, <1>8
    <2> QED BY <1>5, <1>6, <2>1
  <1>10. delta \in Int /\ (\A j \in free : delta <= way[j]) /\ \E j \in free : way[j] = delta
    <2> DEFINE ways == {way[j] : j \in free}
    <2>1. ways \subseteq Int /\ ways # {}
      BY <1>5, <1>9
    <2>2. IsFiniteSet(ways)
      <3>1. IsFiniteSet(free)
        <4>1. IsFiniteSet(1 .. m)
          BY <1>a, FS_Interval
        <4> QED BY <1>5, <4>1, FS_Subset
      <3>2. PICK w : w = [j \in free |-> way[j]]
        OBVIOUS
      <3>3. w \in Surjection(free, ways)
        BY <3>2 DEF Surjection
      <3> HIDE DEF ways
      <3> QED BY <3>1, <3>3, FS_Surjection
    <2>3. delta = Min(ways)
      BY DEF Searched
    <2>4. delta \in ways /\ \A x \in ways : delta <= x
      <3> HIDE DEF ways
      <3> QED BY <2>1, <2>2, <2>3, LeastOfFinite
    <2> QED BY <2>1, <2>4
  <1>11. next \in free /\ way[next] = delta
    <2> DEFINE least == {j \in free : way[j] = delta}
    <2>0. PICK j \in free : way[j] = delta
      BY <1>10
    <2>1. least # {} /\ least \subseteq Int /\ least \subseteq 1 .. m
      <3>1. j \in least
        BY <2>0
      <3>2. least \subseteq free
        OBVIOUS
      <3>3. 1 .. m \subseteq Int
        OBVIOUS
      <3> HIDE DEF least
      <3> QED BY <1>5, <3>1, <3>2, <3>3
    <2>2. IsFiniteSet(least)
      <3>1. IsFiniteSet(1 .. m)
        BY <1>a, FS_Interval
      <3> HIDE DEF least
      <3> QED BY <2>1, <3>1, FS_Subset
    <2>3. next = Min(least)
      BY DEF Searched
    <2>4. next \in least
      <3> HIDE DEF least
      <3> QED BY <2>1, <2>2, <2>3, LeastOfFinite
    <2> QED BY <2>4
  <1>12. pt2 \in [0 .. m -> 0 .. m] /\ \A j \in seen : pt2[j] = pt[j]
    <2>1. closer \subseteq free /\ pt2 = [j \in 0 .. m |-> IF j \in closer THEN q ELSE pt[j]]
      BY DEF Searched
    <2>2. q \in 0 .. m
      BY <1>a
    <2> QED BY <1>b, <1>3, <1>4, <2>1, <2>2
  <1> QED BY <1>2, <1>3, <1>4, <1>8, <1>9, <1>10, <1>11, <1>12 DEF Nearer

(* What the repricing of the tree does to the slack of a pair.               *)
Tree(mt, seen) == {mt[j] : j \in seen}

LEMMA SlackRepriced ==
    ASSUME NEW n, NEW m, NEW c, NEW k, NEW q, NEW mt, NEW pt, NEW sh, NEW vis, NEW u, NEW v,
           NEW seen, NEW free, NEW closer, NEW way, NEW delta, NEW next, NEW pt2, NEW sh2, NEW u2, NEW v2,
           Searching(n, m, c, k, q, mt, pt, sh, vis, u, v),
           Searched(n, m, c, k, q, mt, pt, sh, vis, u, v,
                    seen, free, closer, way, delta, next, pt2, sh2, u2, v2),
           delta \in Int
    PROVE  /\ u2 \in [0 .. n -> Int] /\ v2 \in [0 .. m -> Int]
           /\ \A j \in 1 .. m : v2[j] = IF j \in seen THEN v[j] - delta ELSE v[j]
           /\ \A i \in 1 .. n, j \in 1 .. m :
                 /\ Slack(c, u, v, i, j) \in Int /\ Slack(c, u2, v2, i, j) \in Int
                 /\ i \in Tree(mt, seen) /\ j \in seen
                       => Slack(c, u2, v2, i, j) = Slack(c, u, v, i, j)
                 /\ i \in Tree(mt, seen) /\ j \notin seen
                       => Slack(c, u2, v2, i, j) = Slack(c, u, v, i, j) - delta
                 /\ i \notin Tree(mt, seen) /\ j \in seen
                       => Slack(c, u2, v2, i, j) = Slack(c, u, v, i, j) + delta
                 /\ i \notin Tree(mt, seen) /\ j \notin seen
                       => Slack(c, u2, v2, i, j) = Slack(c, u, v, i, j)
  <1>1. n \in Nat /\ m \in Nat
    BY DEF Searching, Solvable
  <1>2. c \in [1 .. n -> [1 .. m -> Int]] /\ u \in [0 .. n -> Int] /\ v \in [0 .. m -> Int]
    BY DEF Searching, Solvable
  <1>3. /\ u2 = [i \in 0 .. n |-> u[i] + IF i \in Tree(mt, seen) THEN delta ELSE 0]
        /\ v2 = [j \in 0 .. m |-> v[j] - IF j \in seen THEN delta ELSE 0]
    BY DEF Searched, Tree
  <1>4. \A i \in 0 .. n : u[i] + (IF i \in Tree(mt, seen) THEN delta ELSE 0) \in Int
    BY <1>2
  <1>5. \A j \in 0 .. m : v[j] - (IF j \in seen THEN delta ELSE 0) \in Int
    BY <1>2
  <1>6. u2 \in [0 .. n -> Int] /\ v2 \in [0 .. m -> Int]
    BY <1>3, <1>4, <1>5
  <1>7. ASSUME NEW j \in 1 .. m PROVE v2[j] = IF j \in seen THEN v[j] - delta ELSE v[j]
    <2>1. j \in 0 .. m
      BY <1>1
    <2>2. v[j] \in Int
      BY <1>2, <2>1
    <2> QED BY <1>3, <2>1, <2>2
  <1>8. ASSUME NEW i \in 1 .. n PROVE u2[i] = IF i \in Tree(mt, seen) THEN u[i] + delta ELSE u[i]
    <2>1. i \in 0 .. n
      BY <1>1
    <2>2. u[i] \in Int
      BY <1>2, <2>1
    <2> QED BY <1>3, <2>1, <2>2
  <1>9. ASSUME NEW i \in 1 .. n, NEW j \in 1 .. m
        PROVE  \E a, b, d \in Int : a = c[i][j] /\ b = u[i] /\ d = v[j]
    <2>1. i \in 0 .. n /\ j \in 0 .. m
      BY <1>1
    <2> QED BY <1>2, <2>1
  <1>10. ASSUME NEW i \in 1 .. n, NEW j \in 1 .. m
         PROVE  /\ Slack(c, u, v, i, j) \in Int /\ Slack(c, u2, v2, i, j) \in Int
                /\ i \in Tree(mt, seen) /\ j \in seen
                      => Slack(c, u2, v2, i, j) = Slack(c, u, v, i, j)
                /\ i \in Tree(mt, seen) /\ j \notin seen
                      => Slack(c, u2, v2, i, j) = Slack(c, u, v, i, j) - delta
                /\ i \notin Tree(mt, seen) /\ j \in seen
                      => Slack(c, u2, v2, i, j) = Slack(c, u, v, i, j) + delta
                /\ i \notin Tree(mt, seen) /\ j \notin seen
                      => Slack(c, u2, v2, i, j) = Slack(c, u, v, i, j)
    <2>1. PICK a, b, d \in Int : a = c[i][j] /\ b = u[i] /\ d = v[j]
      BY <1>9
    <2>2. Slack(c, u, v, i, j) = a - b - d
      BY <2>1 DEF Slack
    <2>3. Slack(c, u2, v2, i, j) = a - (IF i \in Tree(mt, seen) THEN b + delta ELSE b)
                                     - (IF j \in seen THEN d - delta ELSE d)
      BY <1>7, <1>8, <2>1 DEF Slack
    <2> QED BY <2>2, <2>3
  <1> QED BY <1>6, <1>7, <1>10

LEMMA SearchKeeps ==
    ASSUME NEW n, NEW m, NEW c, NEW k, NEW q, NEW mt, NEW pt, NEW sh, NEW vis, NEW u, NEW v,
           NEW seen, NEW free, NEW closer, NEW way, NEW delta, NEW next, NEW pt2, NEW sh2, NEW u2, NEW v2,
           Searching(n, m, c, k, q, mt, pt, sh, vis, u, v),
           Searched(n, m, c, k, q, mt, pt, sh, vis, u, v,
                    seen, free, closer, way, delta, next, pt2, sh2, u2, v2)
    PROVE  /\ mt[next] = 0 => Flipping(n, m, c, k, next, mt, pt2, u2, v2)
           /\ mt[next] # 0 => Searching(n, m, c, k, next, mt, pt2, sh2, seen, u2, v2)
  <1>1. n \in Nat /\ m \in Nat /\ n <= m /\ k \in 1 .. n /\ vis \in SUBSET (0 .. m) /\ q \in 0 .. m
    BY DEF Searching, Solvable
  <1>2. mt \in [0 .. m -> 0 .. n] /\ mt[0] = k
    BY DEF Searching, Solvable
  <1>3. /\ vis = {} <=> q = 0
        /\ q \notin vis
        /\ OneEach(m, k, mt, Nowhere)
        /\ \A j \in vis \cup {q} : mt[j] # 0
    BY DEF Searching
  <1>4. /\ Nearer(n, m, c, u, v, mt, seen, free, way, delta, next, pt2)
        /\ \A j \in seen : pt2[j] = pt[j]
    BY SearchGoesToNearest
  <1>5. /\ seen \in SUBSET (0 .. m) /\ free = (1 .. m) \ seen /\ next \in free /\ delta \in Int
        /\ pt2 \in [0 .. m -> 0 .. m] /\ way[next] = delta
        /\ \A j \in seen : mt[j] # 0
    BY <1>4 DEF Nearer
  <1>6. \A j \in free : /\ pt2[j] \in seen /\ way[j] \in Int /\ delta <= way[j]
                        /\ way[j] = Slack(c, u, v, mt[pt2[j]], j)
                        /\ \A i \in seen : Slack(c, u, v, mt[i], j) >= way[j]
    BY <1>4 DEF Nearer
  <1>7. seen = vis \cup {q} /\ sh2 = [j \in 0 .. m |-> IF j \in free THEN {way[j] - delta} ELSE sh[j]]
    BY DEF Searched
  <1>8. u2 \in [0 .. n -> Int] /\ v2 \in [0 .. m -> Int]
    BY <1>5, SlackRepriced
  <1>9. \A j \in 1 .. m : v2[j] = IF j \in seen THEN v[j] - delta ELSE v[j]
    BY <1>5, SlackRepriced
  <1>10. \A i \in 1 .. n, j \in 1 .. m :
            /\ Slack(c, u, v, i, j) \in Int /\ Slack(c, u2, v2, i, j) \in Int
            /\ i \in Tree(mt, seen) /\ j \in seen
                  => Slack(c, u2, v2, i, j) = Slack(c, u, v, i, j)
            /\ i \in Tree(mt, seen) /\ j \notin seen
                  => Slack(c, u2, v2, i, j) = Slack(c, u, v, i, j) - delta
            /\ i \notin Tree(mt, seen) /\ j \in seen
                  => Slack(c, u2, v2, i, j) = Slack(c, u, v, i, j) + delta
            /\ i \notin Tree(mt, seen) /\ j \notin seen
                  => Slack(c, u2, v2, i, j) = Slack(c, u, v, i, j)
    BY <1>5, SlackRepriced
  <1>11. \A j \in 0 .. m : mt[j] \in 0 .. k /\ j \in (0 .. m) \ {Nowhere}
    <2>1. \A j \in 0 .. m : j # Nowhere
      BY DEF Nowhere
    <2> QED BY <1>3, <2>1 DEF OneEach
  <1>12. \A j \in seen : mt[j] \in 1 .. k /\ mt[j] \in 1 .. n /\ mt[j] \in Tree(mt, seen)
    <2> SUFFICES ASSUME NEW j \in seen
                 PROVE  mt[j] \in 1 .. k /\ mt[j] \in 1 .. n /\ mt[j] \in Tree(mt, seen)
      OBVIOUS
    <2>1. mt[j] \in 0 .. k /\ mt[j] # 0
      BY <1>5, <1>11
    <2>2. mt[j] \in 1 .. k /\ k \in 1 .. n
      BY <1>1, <2>1
    <2>3. mt[j] \in 1 .. n
      BY <1>1, <2>2
    <2> QED BY <2>2, <2>3 DEF Tree
  <1>13. \A j \in 0 .. m : mt[j] \in Tree(mt, seen) /\ mt[j] # 0 => j \in seen
    <2> SUFFICES ASSUME NEW j \in 0 .. m, mt[j] \in Tree(mt, seen), mt[j] # 0 PROVE j \in seen
      OBVIOUS
    <2>1. PICK i \in seen : mt[i] = mt[j]
      BY DEF Tree
    <2>2. i = j
      BY <1>3, <1>5, <1>11, <2>1 DEF OneEach
    <2> QED BY <2>1, <2>2
  <1>14. Priced(m, IF vis = {} THEN k - 1 ELSE k, c, u, v, mt, Nowhere)
    BY DEF Searching
  <1>15. ASSUME vis # {} PROVE delta >= 0
    <2>1. next \in 1 .. m /\ pt2[next] \in seen /\ delta = Slack(c, u, v, mt[pt2[next]], next)
      BY <1>5, <1>6
    <2>2. mt[pt2[next]] \in 1 .. k
      BY <1>12, <2>1
    <2> QED BY <1>14, <1>15, <2>1, <2>2 DEF Priced
  <1>16. vis = {} => \A j \in 1 .. m : j \notin seen
    BY <1>3, <1>7
  <1>17. \A i \in 1 .. k, j \in 1 .. m : Slack(c, u2, v2, i, j) >= 0
    <2> SUFFICES ASSUME NEW i \in 1 .. k, NEW j \in 1 .. m PROVE Slack(c, u2, v2, i, j) >= 0
      OBVIOUS
    <2>1. i \in 1 .. n
      BY <1>1
    <2>2. PICK a \in Int, b \in Int : a = Slack(c, u, v, i, j) /\ b = Slack(c, u2, v2, i, j)
      BY <1>10, <2>1
    <2>3. CASE i \in Tree(mt, seen) /\ j \notin seen
      <3>1. b = a - delta
        BY <1>10, <2>1, <2>2, <2>3
      <3>2. PICK x \in seen : i = mt[x]
        BY <2>3 DEF Tree
      <3>3. j \in free
        BY <1>5, <2>3
      <3>4. delta <= way[j] /\ a >= way[j] /\ way[j] \in Int
        BY <1>6, <2>2, <3>2, <3>3
      <3> QED BY <1>5, <2>2, <3>1, <3>4
    <2>4. CASE i \in Tree(mt, seen) /\ j \in seen
      <3>1. a >= 0
        BY <1>14, <1>16, <2>2, <2>4 DEF Priced
      <3> QED BY <1>10, <2>1, <2>2, <2>4, <3>1
    <2>5. CASE i \notin Tree(mt, seen) /\ j \in seen
      <3>1. a >= 0 /\ delta >= 0
        BY <1>14, <1>15, <1>16, <2>2, <2>5 DEF Priced
      <3>2. b = a + delta
        BY <1>10, <2>1, <2>2, <2>5
      <3> QED BY <1>5, <2>2, <3>1, <3>2
    <2>6. CASE i \notin Tree(mt, seen) /\ j \notin seen
      <3>1. vis = {} => i \in 1 .. (k - 1)
        <4>1. vis = {} => i # k
          BY <1>2, <1>3, <1>7, <1>12, <2>6
        <4> QED BY <1>1, <4>1
      <3>2. a >= 0
        BY <1>14, <2>2, <3>1 DEF Priced
      <3> QED BY <1>10, <2>1, <2>2, <2>6, <3>2
    <2> QED BY <2>3, <2>4, <2>5, <2>6
  <1>18. \A j \in 1 .. m : v2[j] <= 0
    <2> SUFFICES ASSUME NEW j \in 1 .. m PROVE v2[j] <= 0
      OBVIOUS
    <2>0. j \in 0 .. m /\ v \in [0 .. m -> Int]
      BY <1>1 DEF Searching, Solvable
    <2>1. v[j] <= 0 /\ v[j] \in Int
      BY <1>14, <2>0 DEF Priced
    <2>2. CASE j \in seen
      <3>1. delta >= 0
        BY <1>15, <1>16, <2>2
      <3> QED BY <1>5, <1>9, <2>1, <2>2, <3>1
    <2>3. CASE j \notin seen
      BY <1>9, <2>1, <2>3
    <2> QED BY <2>2, <2>3
  <1>19. \A j \in 1 .. m : IF mt[j] = 0 THEN v2[j] = 0 ELSE Slack(c, u2, v2, mt[j], j) = 0
    <2> SUFFICES ASSUME NEW j \in 1 .. m
                 PROVE  IF mt[j] = 0 THEN v2[j] = 0 ELSE Slack(c, u2, v2, mt[j], j) = 0
      OBVIOUS
    <2>1. j \in 0 .. m /\ j \in (1 .. m) \ {Nowhere}
      BY <1>1 DEF Nowhere
    <2>2. IF mt[j] = 0 THEN v[j] = 0 ELSE Slack(c, u, v, mt[j], j) = 0
      BY <1>14, <2>1 DEF Priced
    <2>3. CASE mt[j] = 0
      <3>1. j \notin seen
        BY <1>5, <2>3
      <3> QED BY <1>9, <2>2, <2>3, <3>1
    <2>4. CASE mt[j] # 0 /\ j \in seen
      <3>1. mt[j] \in 1 .. n /\ mt[j] \in Tree(mt, seen)
        BY <1>12, <2>4
      <3> QED BY <1>10, <2>2, <2>4, <3>1
    <2>5. CASE mt[j] # 0 /\ j \notin seen
      <3>1. mt[j] \in 1 .. n /\ mt[j] \notin Tree(mt, seen)
        BY <1>1, <1>11, <1>13, <2>1, <2>5
      <3> QED BY <1>10, <2>2, <2>5, <3>1
    <2> QED BY <2>3, <2>4, <2>5
  <1>20. Priced(m, k, c, u2, v2, mt, Nowhere) /\ Priced(m, k, c, u2, v2, mt, next)
    BY <1>17, <1>18, <1>19 DEF Priced
  <1>21. Solvable(n, m, c, u2, v2, mt, pt2)
    BY <1>5, <1>8 DEF Searching, Solvable
  <1>22. next \in 1 .. m /\ next \notin seen
    BY <1>5
  <1>23. \E rank \in [0 .. m -> Nat] : Rooted(c, u2, v2, mt, pt2, seen \cup {next}, next, rank)
    <2>1. PICK rank \in [0 .. m -> Nat] : Rooted(c, u, v, mt, pt, vis \cup {q}, q, rank)
      BY DEF Searching
    <2>2. \A j \in seen : /\ rank[j] <= rank[q]
                          /\ j # 0 => /\ pt[j] \in seen /\ rank[pt[j]] < rank[j] /\ mt[pt[j]] # 0
                                      /\ Slack(c, u, v, mt[pt[j]], j) = 0
      BY <1>7, <2>1 DEF Rooted
    <2> DEFINE higher == [rank EXCEPT ![next] = rank[q] + 1]
    <2>3. rank[q] \in Nat /\ \A j \in seen : rank[j] \in Nat
      BY <1>1, <1>5
    <2>4. higher \in [0 .. m -> Nat]
      <3>1. PICK x \in Nat : x = rank[q] + 1
        BY <2>3
      <3>2. [rank EXCEPT ![next] = x] \in [0 .. m -> Nat]
        BY <2>1
      <3> QED BY <3>1, <3>2
    <2>5. next \in 0 .. m
      BY <1>1, <1>22
    <2>6. higher[next] = rank[q] + 1 /\ \A j \in seen : higher[j] = rank[j]
      BY <1>5, <1>22, <2>5
    <2>7. ASSUME NEW j \in seen
          PROVE  /\ higher[j] <= higher[next]
                 /\ j # 0 => /\ pt2[j] \in seen /\ higher[pt2[j]] < higher[j] /\ mt[pt2[j]] # 0
                             /\ Slack(c, u2, v2, mt[pt2[j]], j) = 0
      <3>1. higher[j] <= higher[next]
        <4>1. PICK x, y \in Nat : x = rank[j] /\ y = rank[q] /\ x <= y
          BY <2>2, <2>3
        <4>2. higher[j] = x /\ higher[next] = y + 1
          BY <2>6, <4>1
        <4> HIDE DEF higher
        <4> QED BY <4>1, <4>2
      <3>2. ASSUME j # 0
            PROVE  /\ pt2[j] \in seen /\ higher[pt2[j]] < higher[j] /\ mt[pt2[j]] # 0
                   /\ Slack(c, u2, v2, mt[pt2[j]], j) = 0
        <4>1. PICK p \in seen : p = pt[j] /\ p = pt2[j]
          BY <1>4, <2>2, <3>2
        <4>2. rank[p] < rank[j] /\ mt[p] # 0 /\ Slack(c, u, v, mt[p], j) = 0
          BY <2>2, <3>2, <4>1
        <4>3. mt[p] \in 1 .. n /\ mt[p] \in Tree(mt, seen) /\ j \in 1 .. m
          <5>1. j \in 0 .. m
            BY <1>5
          <5>2. j \in 1 .. m
            BY <1>1, <3>2, <5>1
          <5> QED BY <1>12, <5>2
        <4>4. Slack(c, u2, v2, mt[p], j) = 0
          BY <1>10, <4>2, <4>3
        <4> HIDE DEF higher
        <4> QED BY <2>6, <4>1, <4>2, <4>4
      <3> HIDE DEF higher
      <3> QED BY <3>1, <3>2
    <2>8. /\ pt2[next] \in seen /\ higher[pt2[next]] < higher[next] /\ mt[pt2[next]] # 0
          /\ Slack(c, u2, v2, mt[pt2[next]], next) = 0
      <3>1. PICK p \in seen : p = pt2[next]
        BY <1>5, <1>6
      <3>2. mt[p] \in 1 .. n /\ mt[p] \in Tree(mt, seen) /\ mt[p] # 0
        BY <1>5, <1>12
      <3>3. Slack(c, u, v, mt[p], next) = delta
        BY <1>5, <1>6, <3>1
      <3>4. Slack(c, u2, v2, mt[p], next) = 0
        BY <1>5, <1>10, <1>22, <3>2, <3>3
      <3>5. higher[p] < higher[next]
        <4>1. PICK x, y \in Nat : x = rank[p] /\ y = rank[q] /\ x <= y
          BY <2>2, <2>3, <3>1
        <4>2. higher[p] = x /\ higher[next] = y + 1
          BY <2>6, <3>1, <4>1
        <4> HIDE DEF higher
        <4> QED BY <4>1, <4>2
      <3> HIDE DEF higher
      <3> QED BY <3>1, <3>2, <3>4, <3>5
    <2>9. higher[next] <= higher[next]
      <3> HIDE DEF higher
      <3> QED BY <2>3, <2>6
    <2>10. Rooted(c, u2, v2, mt, pt2, seen \cup {next}, next, higher)
      <3> HIDE DEF higher
      <3> QED BY <2>7, <2>8, <2>9 DEF Rooted
    <2> HIDE DEF higher
    <2> QED BY <2>4, <2>10
  <1>24. ASSUME mt[next] = 0 PROVE Flipping(n, m, c, k, next, mt, pt2, u2, v2)
    <2>1. OneEach(m, k, mt, next)
      <3>1. \A j \in (0 .. m) \ {next} : j \in (0 .. m) \ {Nowhere}
        BY <1>11
      <3>2. \A r \in 1 .. k : \E j \in (0 .. m) \ {next} : mt[j] = r
        <4> SUFFICES ASSUME NEW r \in 1 .. k PROVE \E j \in (0 .. m) \ {next} : mt[j] = r
          OBVIOUS
        <4>1. PICK j \in 0 .. m : mt[j] = r
          BY <1>3 DEF OneEach
        <4> QED BY <1>24, <4>1
      <3> QED BY <1>3, <3>1, <3>2 DEF OneEach
    <2>2. seen \cup {next} \in SUBSET (0 .. m)
      <3>1. next \in 0 .. m
        BY <1>1, <1>22
      <3> QED BY <1>5, <3>1
    <2> QED BY <1>1, <1>20, <1>21, <1>22, <1>23, <2>1, <2>2 DEF Flipping
  <1>25. ASSUME mt[next] # 0 PROVE Searching(n, m, c, k, next, mt, pt2, sh2, seen, u2, v2)
    <2>1. sh2 \in [0 .. m -> SUBSET Int]
      <3>1. \A j \in free : {way[j] - delta} \in SUBSET Int
        BY <1>5, <1>6
      <3>2. sh \in [0 .. m -> SUBSET Int]
        BY DEF Searching
      <3> QED BY <1>7, <3>1, <3>2
    <2>2. seen # {} /\ next # 0 /\ next \in (0 .. m) \ seen
      BY <1>1, <1>7, <1>22
    <2>3. \A j \in seen \cup {next} : mt[j] # 0
      BY <1>5, <1>25
    <2>4. Nearest(m, c, u2, v2, mt, pt2, sh2, seen)
      <3>1. ASSUME NEW j \in (1 .. m) \ seen
            PROVE  /\ pt2[j] \in seen
                   /\ sh2[j] = {Slack(c, u2, v2, mt[pt2[j]], j)}
                   /\ \A i \in seen : Slack(c, u2, v2, mt[i], j) >= Slack(c, u2, v2, mt[pt2[j]], j)
        <4>1. j \in free /\ j \in 0 .. m
          BY <1>1, <1>5
        <4>2. PICK p \in seen : p = pt2[j]
          BY <1>6, <4>1
        <4>3. PICK w \in Int : w = way[j] /\ w = Slack(c, u, v, mt[p], j)
          BY <1>6, <4>1, <4>2
        <4>4. ASSUME NEW i \in seen
              PROVE  Slack(c, u2, v2, mt[i], j) = Slack(c, u, v, mt[i], j) - delta
                     /\ Slack(c, u, v, mt[i], j) \in Int
          BY <1>10, <1>12, <3>1
        <4>5. Slack(c, u2, v2, mt[p], j) = w - delta
          BY <4>3, <4>4
        <4>6. sh2[j] = {w - delta}
          BY <1>7, <4>1, <4>3
        <4>7. ASSUME NEW i \in seen PROVE Slack(c, u2, v2, mt[i], j) >= w - delta
          <5>1. Slack(c, u, v, mt[i], j) >= w
            BY <1>6, <4>1, <4>3
          <5> QED BY <1>5, <4>4, <5>1
        <4> QED BY <4>2, <4>5, <4>6, <4>7
      <3> QED BY <2>2, <3>1 DEF Nearest
    <2>5. (IF seen = {} THEN k - 1 ELSE k) = k
      BY <2>2
    <2> QED BY <1>1, <1>2, <1>3, <1>5, <1>20, <1>21, <1>23, <2>1, <2>2, <2>3, <2>4, <2>5 DEF Searching
  <1> QED BY <1>24, <1>25

(* Flipping an edge moves the hole one column up the path.                   *)
LEMMA FlipMoves ==
    ASSUME NEW n, NEW m, NEW c, NEW k, NEW q, NEW mt, NEW pt, NEW u, NEW v, NEW p, NEW mt2,
           Flipping(n, m, c, k, q, mt, pt, u, v),
           p = pt[q], mt2 = [mt EXCEPT ![q] = mt[p]]
    PROVE  /\ p \in 0 .. m /\ p # q /\ mt[p] # 0 /\ mt2 \in [0 .. m -> 0 .. n]
           /\ OneEach(m, k, mt2, p) /\ Priced(m, k, c, u, v, mt2, p)
           /\ p # 0 => \E rank \in [0 .. m -> Nat], tree \in SUBSET (0 .. m) :
                          Rooted(c, u, v, mt2, pt, tree, p, rank)
  <1>1. n \in Nat /\ m \in Nat /\ k \in 1 .. n /\ q \in 1 .. m /\ q \in 0 .. m
    BY DEF Flipping, Solvable
  <1>2. mt \in [0 .. m -> 0 .. n] /\ pt \in [0 .. m -> 0 .. m]
    BY DEF Flipping, Solvable
  <1>3. /\ \A j \in (0 .. m) \ {q} : mt[j] \in 0 .. k
        /\ \A i, j \in (0 .. m) \ {q} : mt[i] # 0 /\ mt[i] = mt[j] => i = j
        /\ \A r \in 1 .. k : \E j \in (0 .. m) \ {q} : mt[j] = r
    BY DEF Flipping, OneEach
  <1>4. PICK rank \in [0 .. m -> Nat], tree \in SUBSET (0 .. m) : Rooted(c, u, v, mt, pt, tree, q, rank)
    BY DEF Flipping
  <1>5. \A j \in tree : /\ rank[j] <= rank[q]
                        /\ j # 0 => /\ pt[j] \in tree /\ rank[pt[j]] < rank[j] /\ mt[pt[j]] # 0
                                    /\ Slack(c, u, v, mt[pt[j]], j) = 0
    BY <1>4 DEF Rooted
  <1>6. q \in tree /\ q # 0
    BY <1>1, <1>4 DEF Rooted
  <1>7. p \in tree /\ p \in 0 .. m /\ rank[p] < rank[q] /\ mt[p] # 0 /\ Slack(c, u, v, mt[p], q) = 0
    BY <1>4, <1>5, <1>6
  <1>8. \A j \in 0 .. m : rank[j] \in Nat
    BY <1>4
  <1>9. p # q
    BY <1>1, <1>7, <1>8
  <1>10. mt[p] \in 0 .. n /\ mt[p] \in 0 .. k
    BY <1>2, <1>3, <1>7, <1>9
  <1>11. /\ mt2 \in [0 .. m -> 0 .. n] /\ mt2[q] = mt[p]
         /\ \A j \in (0 .. m) \ {q} : mt2[j] = mt[j]
    BY <1>1, <1>2, <1>10
  <1>12. OneEach(m, k, mt2, p)
    <2>1. \A j \in (0 .. m) \ {p} : mt2[j] \in 0 .. k
      BY <1>3, <1>10, <1>11
    <2>2. ASSUME NEW i \in (0 .. m) \ {p}, NEW j \in (0 .. m) \ {p}, mt2[i] # 0, mt2[i] = mt2[j]
          PROVE  i = j
      <3>1. p \in (0 .. m) \ {q}
        BY <1>7, <1>9
      <3>2. CASE i = q /\ j # q
        BY <1>3, <1>11, <2>2, <3>1, <3>2
      <3>3. CASE i # q /\ j = q
        BY <1>3, <1>11, <2>2, <3>1, <3>3
      <3>4. CASE i # q /\ j # q
        BY <1>3, <1>11, <2>2, <3>4
      <3> QED BY <3>2, <3>3, <3>4
    <2>3. ASSUME NEW r \in 1 .. k PROVE \E j \in (0 .. m) \ {p} : mt2[j] = r
      <3>1. PICK j \in (0 .. m) \ {q} : mt[j] = r
        BY <1>3
      <3>2. CASE j = p
        BY <1>1, <1>9, <1>11, <3>1, <3>2
      <3>3. CASE j # p
        BY <1>11, <3>1, <3>3
      <3> QED BY <3>2, <3>3
    <2> QED BY <2>1, <2>2, <2>3 DEF OneEach
  <1>13. Priced(m, k, c, u, v, mt2, p)
    <2>1. /\ \A i \in 1 .. k, j \in 1 .. m : Slack(c, u, v, i, j) >= 0
          /\ \A j \in 1 .. m : v[j] <= 0
          /\ \A j \in (1 .. m) \ {q} : IF mt[j] = 0 THEN v[j] = 0 ELSE Slack(c, u, v, mt[j], j) = 0
      BY DEF Flipping, Priced
    <2>2. ASSUME NEW j \in (1 .. m) \ {p}
          PROVE  IF mt2[j] = 0 THEN v[j] = 0 ELSE Slack(c, u, v, mt2[j], j) = 0
      <3>1. j \in 0 .. m
        BY <1>1
      <3>2. CASE j = q
        BY <1>7, <1>11, <3>2
      <3>3. CASE j # q
        BY <1>11, <2>1, <3>1, <3>3
      <3> QED BY <3>2, <3>3
    <2> QED BY <2>1, <2>2 DEF Priced
  <1>14. ASSUME p # 0
         PROVE  \E rank2 \in [0 .. m -> Nat], tree2 \in SUBSET (0 .. m) :
                   Rooted(c, u, v, mt2, pt, tree2, p, rank2)
    <2> DEFINE lower == {j \in tree : rank[j] <= rank[p]}
    <2>1. p \in lower /\ lower \in SUBSET (0 .. m)
      BY <1>4, <1>7, <1>8
    <2>2. ASSUME NEW j \in lower
          PROVE  /\ rank[j] <= rank[p]
                 /\ j # 0 => /\ pt[j] \in lower /\ rank[pt[j]] < rank[j] /\ mt2[pt[j]] # 0
                             /\ Slack(c, u, v, mt2[pt[j]], j) = 0
      <3>1. j \in tree /\ j \in 0 .. m /\ rank[j] <= rank[p]
        BY <1>4
      <3>2. ASSUME j # 0
            PROVE  /\ pt[j] \in lower /\ rank[pt[j]] < rank[j] /\ mt2[pt[j]] # 0
                   /\ Slack(c, u, v, mt2[pt[j]], j) = 0
        <4>1. /\ pt[j] \in tree /\ rank[pt[j]] < rank[j] /\ mt[pt[j]] # 0
              /\ Slack(c, u, v, mt[pt[j]], j) = 0
          BY <1>5, <3>1, <3>2
        <4>2. pt[j] \in 0 .. m
          BY <1>4, <4>1
        <4>3. PICK w, x, y, z \in Nat : w = rank[pt[j]] /\ x = rank[j] /\ y = rank[p] /\ z = rank[q]
          BY <1>1, <1>7, <1>8, <3>1, <4>2
        <4>4. w < x /\ x <= y /\ y < z
          BY <1>7, <3>1, <4>1, <4>3
        <4>5. w <= y /\ w < z
          BY <4>3, <4>4
        <4>6. pt[j] # q
          BY <4>3, <4>5
        <4>7. mt2[pt[j]] = mt[pt[j]]
          BY <1>11, <4>2, <4>6
        <4>8. pt[j] \in lower
          BY <4>1, <4>3, <4>5
        <4> HIDE DEF lower
        <4> QED BY <4>1, <4>7, <4>8
      <3> HIDE DEF lower
      <3> QED BY <3>1, <3>2
    <2>3. Rooted(c, u, v, mt2, pt, lower, p, rank)
      <3> HIDE DEF lower
      <3> QED BY <2>1, <2>2 DEF Rooted
    <2> HIDE DEF lower
    <2> QED BY <1>4, <2>1, <2>3
  <1> QED BY <1>7, <1>9, <1>11, <1>12, <1>13, <1>14

(* The row after k is placed, from no ways yet.                              *)
NextRow(n, m, c, k, mt, pt, u, v) ==
    \A sh \in [0 .. m -> {{}}] :
        Searching(n, m, c, k + 1, 0, [mt EXCEPT ![0] = k + 1], pt, sh, {}, u, v)

(* Flipping an edge goes on up the path; at the root the solve is over, or   *)
(* the next row is placed.                                                   *)
LEMMA FlipKeeps ==
    ASSUME NEW n, NEW m, NEW c, NEW k, NEW q, NEW mt, NEW pt, NEW u, NEW v, NEW p, NEW mt2,
           Flipping(n, m, c, k, q, mt, pt, u, v),
           p = pt[q], mt2 = [mt EXCEPT ![q] = mt[p]]
    PROVE  /\ p # 0 => Flipping(n, m, c, k, p, mt2, pt, u, v)
           /\ p = 0 /\ k = n => Solved(n, m, c, mt2, pt, u, v)
           /\ p = 0 /\ k # n => NextRow(n, m, c, k, mt2, pt, u, v)
  <1>1. n \in Nat /\ m \in Nat /\ k \in 1 .. n /\ q \in 1 .. m
    BY DEF Flipping, Solvable
  <1>2. /\ p \in 0 .. m /\ mt2 \in [0 .. m -> 0 .. n]
        /\ OneEach(m, k, mt2, p) /\ Priced(m, k, c, u, v, mt2, p)
    BY FlipMoves
  <1>3. Solvable(n, m, c, u, v, mt2, pt)
    BY <1>2 DEF Flipping, Solvable
  <1>4. ASSUME p # 0 PROVE Flipping(n, m, c, k, p, mt2, pt, u, v)
    <2>1. p \in 1 .. m
      BY <1>1, <1>2, <1>4
    <2>2. \E rank \in [0 .. m -> Nat], tree \in SUBSET (0 .. m) : Rooted(c, u, v, mt2, pt, tree, p, rank)
      BY <1>4, FlipMoves
    <2> QED BY <1>1, <1>2, <1>3, <2>1, <2>2 DEF Flipping
  <1>5. ASSUME p = 0, k = n PROVE Solved(n, m, c, mt2, pt, u, v)
    BY <1>2, <1>3, <1>5 DEF Solved
  <1>6. ASSUME p = 0, k # n, NEW sh \in [0 .. m -> {{}}]
        PROVE  Searching(n, m, c, k + 1, 0, [mt2 EXCEPT ![0] = k + 1], pt, sh, {}, u, v)
    <2>1. PICK mt3 : mt3 = [mt2 EXCEPT ![0] = k + 1]
      OBVIOUS
    <2>2. k + 1 \in 1 .. n /\ k + 1 \in 0 .. n /\ 0 \in 0 .. m /\ k + 1 # 0
      BY <1>1, <1>6
    <2>3. mt3 \in [0 .. m -> 0 .. n] /\ mt3[0] = k + 1 /\ \A j \in (0 .. m) \ {0} : mt3[j] = mt2[j]
      BY <1>2, <2>1, <2>2
    <2>4. /\ \A j \in (0 .. m) \ {0} : mt3[j] \in 0 .. k
          /\ \A i, j \in (0 .. m) \ {0} : mt3[i] # 0 /\ mt3[i] = mt3[j] => i = j
          /\ \A r \in 1 .. k : \E j \in (0 .. m) \ {0} : mt3[j] = r
      BY <1>2, <1>6, <2>3 DEF OneEach
    <2>5. \A j \in 0 .. m : j # Nowhere
      BY <1>1 DEF Nowhere
    <2>6. OneEach(m, k + 1, mt3, Nowhere)
      <3>1. \A j \in 0 .. m : mt3[j] \in 0 .. (k + 1)
        <4> SUFFICES ASSUME NEW j \in 0 .. m PROVE mt3[j] \in 0 .. (k + 1)
          OBVIOUS
        <4>1. CASE j = 0
          BY <1>1, <2>3, <4>1
        <4>2. CASE j # 0
          <5>1. mt3[j] \in 0 .. k
            BY <2>4, <4>2
          <5> QED BY <1>1, <5>1
        <4> QED BY <4>1, <4>2
      <3>2. ASSUME NEW i \in 0 .. m, NEW j \in 0 .. m, mt3[i] # 0, mt3[i] = mt3[j] PROVE i = j
        <4>1. k + 1 \notin 0 .. k
          BY <1>1
        <4>2. CASE i = 0 \/ j = 0
          BY <2>3, <2>4, <3>2, <4>1, <4>2
        <4>3. CASE i # 0 /\ j # 0
          BY <2>4, <3>2, <4>3
        <4> QED BY <4>2, <4>3
      <3>3. ASSUME NEW r \in 1 .. (k + 1) PROVE \E j \in 0 .. m : mt3[j] = r
        <4>1. CASE r = k + 1
          BY <2>2, <2>3, <4>1
        <4>2. CASE r # k + 1
          <5>1. r \in 1 .. k
            BY <1>1, <4>2
          <5> QED BY <2>4, <5>1
        <4> QED BY <4>1, <4>2
      <3> QED BY <2>5, <3>1, <3>2, <3>3 DEF OneEach
    <2>7. Priced(m, k, c, u, v, mt3, Nowhere)
      <3>1. \A j \in 1 .. m : j \in (0 .. m) \ {0} /\ j \in (1 .. m) \ {p}
        BY <1>1, <1>6
      <3> QED BY <1>2, <2>3, <3>1 DEF Priced
    <2>8. Solvable(n, m, c, u, v, mt3, pt)
      BY <1>3, <2>3 DEF Solvable
    <2>9. \E rank \in [0 .. m -> Nat] : Rooted(c, u, v, mt3, pt, {} \cup {0}, 0, rank)
      <3> DEFINE flat == [j \in 0 .. m |-> 0]
      <3>1. flat \in [0 .. m -> Nat] /\ flat[0] = 0
        BY <2>2
      <3>2. Rooted(c, u, v, mt3, pt, {} \cup {0}, 0, flat)
        <4> HIDE DEF flat
        <4> QED BY <3>1 DEF Rooted
      <3> HIDE DEF flat
      <3> QED BY <3>1, <3>2
    <2>10. sh \in [0 .. m -> SUBSET Int] /\ Nearest(m, c, u, v, mt3, pt, sh, {})
      <3>1. \A j \in 0 .. m : sh[j] = {}
        BY <1>6
      <3>2. \A j \in 1 .. m : j \in 0 .. m
        BY <1>1
      <3>3. sh \in [0 .. m -> SUBSET Int]
        BY <1>6
      <3> QED BY <3>1, <3>2, <3>3 DEF Nearest
    <2>11. (IF {} = {} THEN (k + 1) - 1 ELSE k + 1) = k
      BY <1>1
    <2>12. Priced(m, IF {} = {} THEN (k + 1) - 1 ELSE k + 1, c, u, v, mt3, Nowhere)
      BY <2>7, <2>11
    <2>13. 0 \in (0 .. m) \ {} /\ \A j \in {} \cup {0} : mt3[j] # 0
      BY <2>2, <2>3
    <2>14. Searching(n, m, c, k + 1, 0, mt3, pt, sh, {}, u, v)
      BY <2>2, <2>3, <2>6, <2>8, <2>9, <2>10, <2>12, <2>13 DEF Searching
    <2> QED BY <2>1, <2>14
  <1>7. ASSUME p = 0, k # n PROVE NextRow(n, m, c, k, mt2, pt, u, v)
    BY <1>6, <1>7 DEF NextRow
  <1> QED BY <1>4, <1>5, <1>7

(* The first row is placed from no potentials and no mates.                  *)
LEMMA OpenStarts ==
    ASSUME NEW n \in Nat \ {0}, NEW m \in Nat, n <= m, NEW c \in [1 .. n -> [1 .. m -> Int]]
    PROVE  Searching(n, m, c, 1, 0, [j \in 0 .. m |-> IF j = 0 THEN 1 ELSE 0], [j \in 0 .. m |-> 0],
                     [j \in 0 .. m |-> {}], {}, [i \in 0 .. n |-> 0], [j \in 0 .. m |-> 0])
  <1>1. PICK mt : mt = [j \in 0 .. m |-> IF j = 0 THEN 1 ELSE 0]
    OBVIOUS
  <1>2. PICK z : z = [j \in 0 .. m |-> 0]
    OBVIOUS
  <1>3. PICK sh : sh = [j \in 0 .. m |-> {}]
    OBVIOUS
  <1>4. PICK u : u = [i \in 0 .. n |-> 0]
    OBVIOUS
  <1>5. 0 \in 0 .. m /\ 0 \in 0 .. n /\ 1 \in 1 .. n /\ 1 \in 0 .. n /\ (1 .. m) \subseteq 0 .. m
    OBVIOUS
  <1>6. mt \in [0 .. m -> 0 .. n] /\ mt[0] = 1 /\ \A j \in (0 .. m) \ {0} : mt[j] = 0
    BY <1>1, <1>5
  <1>7. z \in [0 .. m -> Int] /\ z \in [0 .. m -> 0 .. m] /\ z \in [0 .. m -> Nat] /\ \A j \in 0 .. m : z[j] = 0
    BY <1>2, <1>5
  <1>8. u \in [0 .. n -> Int] /\ sh \in [0 .. m -> SUBSET Int] /\ \A j \in 1 .. m : sh[j] = {}
    BY <1>3, <1>4, <1>5
  <1>9. Solvable(n, m, c, u, z, mt, z)
    BY <1>6, <1>7, <1>8 DEF Solvable
  <1>10. OneEach(m, 1, mt, Nowhere)
    <2>1. \A j \in 0 .. m : mt[j] \in 0 .. 1 /\ (mt[j] # 0 => j = 0)
      BY <1>6
    <2>2. \A r \in 1 .. 1 : mt[0] = r /\ 0 \in (0 .. m) \ {Nowhere}
      BY <1>5, <1>6 DEF Nowhere
    <2> QED BY <2>1, <2>2 DEF OneEach
  <1>11. Priced(m, 0, c, u, z, mt, Nowhere)
    <2>1. \A j \in 1 .. m : mt[j] = 0 /\ z[j] = 0
      BY <1>5, <1>6, <1>7
    <2> QED BY <2>1 DEF Priced
  <1>12. Priced(m, IF {} = {} THEN 1 - 1 ELSE 1, c, u, z, mt, Nowhere)
    <2>1. (IF {} = {} THEN 1 - 1 ELSE 1) = 0
      OBVIOUS
    <2> QED BY <1>11, <2>1
  <1>13. Rooted(c, u, z, mt, z, {} \cup {0}, 0, z)
    BY <1>5, <1>7 DEF Rooted
  <1>14. Nearest(m, c, u, z, mt, z, sh, {})
    BY <1>8 DEF Nearest
  <1>15. 0 \in (0 .. m) \ {} /\ \A j \in {} \cup {0} : mt[j] # 0
    BY <1>5, <1>6
  <1>16. Searching(n, m, c, 1, 0, mt, z, sh, {}, u, z)
    BY <1>5, <1>6, <1>7, <1>8, <1>9, <1>10, <1>12, <1>13, <1>14, <1>15 DEF Searching
  <1> QED BY <1>1, <1>2, <1>3, <1>4, <1>16

(* A side of the problem, in the order the solver numbers it.                *)
Enumerates(x, n, X) ==
    /\ n \in Nat /\ x \in [1 .. n -> X]
    /\ \A i, j \in 1 .. n : x[i] = x[j] => i = j
    /\ \A e \in X : \E i \in 1 .. n : x[i] = e

LEMMA EnumeratedSize ==
    ASSUME NEW x, NEW n, NEW X, Enumerates(x, n, X)
    PROVE  IsFiniteSet(X) /\ Cardinality(X) = n
  <1>1. n \in Nat /\ IsFiniteSet(1 .. n) /\ Cardinality(1 .. n) = n
    <2>1. n \in Nat /\ 1 \in Int /\ n \in Int
      BY DEF Enumerates
    <2>2. IsFiniteSet(1 .. n) /\ Cardinality(1 .. n) = IF 1 > n THEN 0 ELSE n - 1 + 1
      BY <2>1, FS_Interval
    <2>3. (IF 1 > n THEN 0 ELSE n - 1 + 1) = n
      BY <2>1
    <2> QED BY <2>1, <2>2, <2>3
  <1>2. x \in Bijection(1 .. n, X)
    BY DEF Enumerates, Bijection, Injection, Surjection, IsInjective
  <1>3. ExistsBijection(1 .. n, X)
    BY <1>2 DEF ExistsBijection
  <1> QED BY <1>1, <1>3, FS_Bijection

(* Placing the members of a side and placing their positions is the same.    *)
LEMMA PlacedByPosition ==
    ASSUME NEW x, NEW n, NEW X, Enumerates(x, n, X), NEW y, NEW m, NEW Y, Enumerates(y, m, Y)
    PROVE  /\ \A f \in Injection(X, Y) : \E s \in Injection(1 .. n, 1 .. m) :
                 \A i \in 1 .. n : y[s[i]] = f[x[i]]
           /\ \A s \in Injection(1 .. n, 1 .. m) : \E f \in Injection(X, Y) :
                 \A i \in 1 .. n : y[s[i]] = f[x[i]]
  <1>1. /\ \A i \in 1 .. n : x[i] \in X
        /\ \A i, j \in 1 .. n : x[i] = x[j] => i = j
        /\ \A e \in X : \E i \in 1 .. n : x[i] = e
    BY DEF Enumerates
  <1>2. /\ \A i \in 1 .. m : y[i] \in Y
        /\ \A i, j \in 1 .. m : y[i] = y[j] => i = j
        /\ \A e \in Y : \E i \in 1 .. m : y[i] = e
    BY DEF Enumerates
  <1>3. ASSUME NEW f \in Injection(X, Y)
        PROVE  \E s \in Injection(1 .. n, 1 .. m) : \A i \in 1 .. n : y[s[i]] = f[x[i]]
    <2>1. f \in [X -> Y] /\ \A a, b \in X : f[a] = f[b] => a = b
      BY DEF Injection, IsInjective
    <2>2. PICK s : s = [i \in 1 .. n |-> CHOOSE j \in 1 .. m : y[j] = f[x[i]]]
      OBVIOUS
    <2>3. \A i \in 1 .. n : s[i] \in 1 .. m /\ y[s[i]] = f[x[i]]
      BY <1>1, <1>2, <2>1, <2>2
    <2>4. s \in [1 .. n -> 1 .. m]
      BY <2>2, <2>3
    <2>5. \A i, j \in 1 .. n : s[i] = s[j] => i = j
      BY <1>1, <2>1, <2>3
    <2>6. s \in Injection(1 .. n, 1 .. m)
      BY <2>4, <2>5 DEF Injection, IsInjective
    <2> QED BY <2>3, <2>6
  <1>4. ASSUME NEW s \in Injection(1 .. n, 1 .. m)
        PROVE  \E f \in Injection(X, Y) : \A i \in 1 .. n : y[s[i]] = f[x[i]]
    <2>1. s \in [1 .. n -> 1 .. m] /\ \A a, b \in 1 .. n : s[a] = s[b] => a = b
      BY DEF Injection, IsInjective
    <2>2. PICK pos : pos = [e \in X |-> CHOOSE i \in 1 .. n : x[i] = e]
      OBVIOUS
    <2>3. \A e \in X : pos[e] \in 1 .. n /\ x[pos[e]] = e
      BY <1>1, <2>2
    <2>4. PICK f : f = [e \in X |-> y[s[pos[e]]]]
      OBVIOUS
    <2>5. f \in [X -> Y]
      BY <1>2, <2>1, <2>3, <2>4
    <2>6. \A a, b \in X : f[a] = f[b] => a = b
      <3> SUFFICES ASSUME NEW a \in X, NEW b \in X, f[a] = f[b] PROVE a = b
        OBVIOUS
      <3>1. s[pos[a]] = s[pos[b]]
        BY <1>2, <2>1, <2>3, <2>4
      <3>2. pos[a] = pos[b]
        BY <2>1, <2>3, <3>1
      <3> QED BY <2>3, <3>2
    <2>7. f \in Injection(X, Y)
      BY <2>5, <2>6 DEF Injection, IsInjective
    <2>8. \A i \in 1 .. n : y[s[i]] = f[x[i]]
      <3> SUFFICES ASSUME NEW i \in 1 .. n PROVE y[s[i]] = f[x[i]]
        OBVIOUS
      <3>1. x[i] \in X /\ pos[x[i]] \in 1 .. n /\ x[pos[x[i]]] = x[i]
        BY <1>1, <2>3
      <3>2. pos[x[i]] = i
        BY <1>1, <3>1
      <3> QED BY <2>4, <3>1, <3>2
    <2> QED BY <2>7, <2>8
  <1> QED BY <1>3, <1>4

(* A position's pair in the caller's order: a tall problem is solved the     *)
(* other way round.                                                          *)
Paired(x, y, i, j, tall) == IF tall THEN <<y[j], x[i]>> ELSE <<x[i], y[j]>>

LaidOut(x, y, s, n, tall) == {Paired(x, y, i, s[i], tall) : i \in 1 .. n}

Facing(X, Y, n, m, tall) == n <= m /\ (tall => n < m) /\ tall \in BOOLEAN

LEMMA WaysLaidOut ==
    ASSUME NEW x, NEW n, NEW X, Enumerates(x, n, X), NEW y, NEW m, NEW Y, Enumerates(y, m, Y),
           NEW tall, Facing(X, Y, n, m, tall)
    PROVE  Ways(IF tall THEN Y ELSE X, IF tall THEN X ELSE Y)
              = {LaidOut(x, y, s, n, tall) : s \in Injection(1 .. n, 1 .. m)}
  <1>1. Cardinality(X) = n /\ Cardinality(Y) = m /\ n \in Nat /\ m \in Nat
    <2>1. Cardinality(X) = n
      BY EnumeratedSize
    <2>2. Cardinality(Y) = m
      BY EnumeratedSize
    <2> QED BY <2>1, <2>2 DEF Enumerates
  <1>2. n <= m /\ (tall => n < m) /\ tall \in BOOLEAN
    BY DEF Facing
  <1>3. /\ \A i \in 1 .. n : x[i] \in X
        /\ \A e \in X : \E i \in 1 .. n : x[i] = e
    BY DEF Enumerates
  <1>4. CASE tall
    <2>1. Ways(Y, X) = {{<<f[e], e>> : e \in X} : f \in Injection(X, Y)}
      <3>1. ~ (m <= n)
        BY <1>1, <1>2, <1>4
      <3> QED BY <1>1, <3>1 DEF Ways
    <2>2. ASSUME NEW f, NEW s, \A i \in 1 .. n : y[s[i]] = f[x[i]]
          PROVE  {<<f[e], e>> : e \in X} = LaidOut(x, y, s, n, tall)
      <3>1. LaidOut(x, y, s, n, tall) = {<<y[s[i]], x[i]>> : i \in 1 .. n}
        BY <1>4 DEF LaidOut, Paired
      <3>2. {<<y[s[i]], x[i]>> : i \in 1 .. n} = {<<f[x[i]], x[i]>> : i \in 1 .. n}
        BY <2>2
      <3>3. {<<f[x[i]], x[i]>> : i \in 1 .. n} = {<<f[e], e>> : e \in X}
        BY <1>3
      <3> QED BY <3>1, <3>2, <3>3
    <2>3. ASSUME NEW way \in Ways(Y, X)
          PROVE  \E s \in Injection(1 .. n, 1 .. m) : way = LaidOut(x, y, s, n, tall)
      <3>1. PICK f \in Injection(X, Y) : way = {<<f[e], e>> : e \in X}
        BY <2>1
      <3>2. PICK s \in Injection(1 .. n, 1 .. m) : \A i \in 1 .. n : y[s[i]] = f[x[i]]
        BY PlacedByPosition
      <3>3. way = LaidOut(x, y, s, n, tall)
        BY <2>2, <3>1, <3>2
      <3> QED BY <3>3
    <2>4. ASSUME NEW s \in Injection(1 .. n, 1 .. m) PROVE LaidOut(x, y, s, n, tall) \in Ways(Y, X)
      <3>1. PICK f \in Injection(X, Y) : \A i \in 1 .. n : y[s[i]] = f[x[i]]
        BY PlacedByPosition
      <3>2. {<<f[e], e>> : e \in X} = LaidOut(x, y, s, n, tall)
        BY <2>2, <3>1
      <3> QED BY <2>1, <3>2
    <2> QED BY <1>4, <2>3, <2>4
  <1>5. CASE ~ tall
    <2>1. Ways(X, Y) = {{<<e, f[e]>> : e \in X} : f \in Injection(X, Y)}
      BY <1>1, <1>2 DEF Ways
    <2>2. ASSUME NEW f, NEW s, \A i \in 1 .. n : y[s[i]] = f[x[i]]
          PROVE  {<<e, f[e]>> : e \in X} = LaidOut(x, y, s, n, tall)
      <3>1. LaidOut(x, y, s, n, tall) = {<<x[i], y[s[i]]>> : i \in 1 .. n}
        BY <1>5 DEF LaidOut, Paired
      <3>2. {<<x[i], y[s[i]]>> : i \in 1 .. n} = {<<x[i], f[x[i]]>> : i \in 1 .. n}
        BY <2>2
      <3>3. {<<x[i], f[x[i]]>> : i \in 1 .. n} = {<<e, f[e]>> : e \in X}
        BY <1>3
      <3> QED BY <3>1, <3>2, <3>3
    <2>3. ASSUME NEW way \in Ways(X, Y)
          PROVE  \E s \in Injection(1 .. n, 1 .. m) : way = LaidOut(x, y, s, n, tall)
      <3>1. PICK f \in Injection(X, Y) : way = {<<e, f[e]>> : e \in X}
        BY <2>1
      <3>2. PICK s \in Injection(1 .. n, 1 .. m) : \A i \in 1 .. n : y[s[i]] = f[x[i]]
        BY PlacedByPosition
      <3>3. way = LaidOut(x, y, s, n, tall)
        BY <2>2, <3>1, <3>2
      <3> QED BY <3>3
    <2>4. ASSUME NEW s \in Injection(1 .. n, 1 .. m) PROVE LaidOut(x, y, s, n, tall) \in Ways(X, Y)
      <3>1. PICK f \in Injection(X, Y) : \A i \in 1 .. n : y[s[i]] = f[x[i]]
        BY PlacedByPosition
      <3>2. {<<e, f[e]>> : e \in X} = LaidOut(x, y, s, n, tall)
        BY <2>2, <3>1
      <3> QED BY <2>1, <3>2
    <2> QED BY <1>5, <2>3, <2>4
  <1> QED BY <1>2, <1>4, <1>5

(* Scores are what pairs do not cost.                                        *)
Scores(score, c, x, y, n, m, tall) ==
    \A i \in 1 .. n, j \in 1 .. m : score[Paired(x, y, i, j, tall)] = - c[i][j]

LEMMA WorthIsExpense ==
    ASSUME NEW x, NEW n, NEW X, Enumerates(x, n, X), NEW y, NEW m, NEW tall,
           NEW c \in [1 .. n -> [1 .. m -> Int]], NEW score, Scores(score, c, x, y, n, m, tall),
           NEW s \in Injection(1 .. n, 1 .. m)
    PROVE  /\ Expense(c, n, s) \in Int
           /\ Worth(score, LaidOut(x, y, s, n, tall)) = - Expense(c, n, s)
  <1>1. s \in [1 .. n -> 1 .. m] /\ n \in Nat /\ IsFiniteSet(1 .. n)
    <2>1. n \in Nat /\ 1 \in Int /\ n \in Int
      BY DEF Enumerates
    <2> QED BY <2>1, FS_Interval DEF Injection
  <1>2. PICK way : way = LaidOut(x, y, s, n, tall)
    OBVIOUS
  <1>3. PICK f : f = [pair \in way |-> score[pair]]
    OBVIOUS
  <1>4. PICK b : b = [i \in 1 .. n |-> Paired(x, y, i, s[i], tall)]
    OBVIOUS
  <1>5. PICK costs : costs = [i \in 1 .. n |-> c[i][s[i]]]
    OBVIOUS
  <1>6. PICK g : g = [i \in 1 .. n |-> - c[i][s[i]]]
    OBVIOUS
  <1>7. \A i \in 1 .. n : s[i] \in 1 .. m /\ c[i][s[i]] \in Int
    BY <1>1
  <1>8. Indexes(b, 1 .. n, way)
    <2>1. way = {b[i] : i \in 1 .. n}
      BY <1>2, <1>4 DEF LaidOut
    <2>2. ASSUME NEW i \in 1 .. n, NEW j \in 1 .. n, b[i] = b[j] PROVE i = j
      <3>1. x[i] = x[j]
        BY <1>4, <2>2 DEF Paired
      <3> QED BY <3>1 DEF Enumerates
    <2> QED BY <1>1, <2>1, <2>2 DEF Indexes
  <1>9. Through(g, f, b, 1 .. n)
    <2> SUFFICES ASSUME NEW i \in 1 .. n PROVE f[b[i]] \in Int /\ g[i] = f[b[i]]
      BY DEF Through
    <2>1. b[i] \in way /\ f[b[i]] = score[b[i]]
      BY <1>2, <1>3, <1>4 DEF LaidOut
    <2>2. score[b[i]] = - c[i][s[i]]
      BY <1>4, <1>7 DEF Scores
    <2>3. - c[i][s[i]] \in Int
      BY <1>7
    <2> QED BY <1>6, <2>1, <2>2, <2>3
  <1>10. Summable(g, 1 .. n) /\ SumFunctionOnSet(f, way) = SumFunctionOnSet(g, 1 .. n)
    BY <1>8, <1>9, SumByIndex
  <1>11. Worth(score, way) = SumFunctionOnSet(g, 1 .. n)
    <2>1. DOMAIN f = way
      BY <1>3
    <2>2. Worth(score, way) = SumFunctionOnSet(f, DOMAIN f)
      BY <1>3, Zenon DEF Worth, SumFunction
    <2> QED BY <1>10, <2>1, <2>2
  <1>12. Summable(costs, 1 .. n) /\ Expense(c, n, s) = SumFunctionOnSet(costs, 1 .. n)
    BY <1>1, <1>5, <1>7 DEF Summable, Expense
  <1>13. PICK zero : zero = [i \in 1 .. n |-> 0]
    OBVIOUS
  <1>14. IsBoth(zero, costs, g, 1 .. n)
    <2> SUFFICES ASSUME NEW i \in 1 .. n PROVE zero[i] = costs[i] + g[i]
      BY DEF IsBoth
    <2>1. PICK a \in Int : a = c[i][s[i]]
      BY <1>7
    <2>2. costs[i] = a /\ g[i] = - a /\ zero[i] = 0
      BY <1>5, <1>6, <1>13, <2>1
    <2> QED BY <2>2
  <1>15. SumFunctionOnSet(zero, 1 .. n) = SumFunctionOnSet(costs, 1 .. n) + SumFunctionOnSet(g, 1 .. n)
    BY <1>10, <1>12, <1>14, SumOfBoth
  <1>16. SumFunctionOnSet(zero, 1 .. n) = 0
    <2>1. Summable(zero, 1 .. n)
      BY <1>1, <1>13 DEF Summable
    <2>2. \A i \in 1 .. n : zero[i] = 0
      BY <1>13
    <2> QED BY <2>1, <2>2, SumOfNothing
  <1>17. PICK e \in Int, w \in Int : e = SumFunctionOnSet(costs, 1 .. n) /\ w = SumFunctionOnSet(g, 1 .. n)
    BY <1>10, <1>12, SumType
  <1>18. w = - e
    BY <1>15, <1>16, <1>17
  <1> QED BY <1>2, <1>11, <1>12, <1>17, <1>18

(* The mates a solve ends with are an assignment of least total cost: the    *)
(* potentials prove that no other is cheaper.                                *)
Mated(x, y, mt, m, tall) == {Paired(x, y, mt[j], j, tall) : j \in {h \in 1 .. m : mt[h] # 0}}

LEMMA MatesCostLeast ==
    ASSUME NEW n, NEW m, NEW c, NEW mt, NEW pt, NEW u, NEW v, Solved(n, m, c, mt, pt, u, v)
    PROVE  \E t \in Injection(1 .. n, 1 .. m) :
              /\ \A i \in 1 .. n : mt[t[i]] = i
              /\ \A j \in 1 .. m : mt[j] # 0 => mt[j] \in 1 .. n /\ t[mt[j]] = j
              /\ \A s \in Injection(1 .. n, 1 .. m) : Expense(c, n, t) <= Expense(c, n, s)
  <1>1. n \in Nat /\ m \in Nat /\ c \in [1 .. n -> [1 .. m -> Int]]
    BY DEF Solved, Solvable
  <1>2. u \in [0 .. n -> Int] /\ v \in [0 .. m -> Int]
    BY DEF Solved, Solvable
  <1>3. \A j \in 1 .. m : j \in (0 .. m) \ {0} /\ j \in (1 .. m) \ {0}
    BY <1>1
  <1>4. \A j \in (0 .. m) \ {0} : j \in 1 .. m
    BY <1>1
  <1>5. /\ \A j \in 1 .. m : mt[j] \in 0 .. n
        /\ \A i, j \in 1 .. m : mt[i] # 0 /\ mt[i] = mt[j] => i = j
        /\ \A r \in 1 .. n : \E j \in 1 .. m : mt[j] = r
    BY <1>3, <1>4 DEF Solved, OneEach
  <1>6. /\ \A i \in 1 .. n, j \in 1 .. m : Slack(c, u, v, i, j) >= 0
        /\ \A j \in 1 .. m : v[j] <= 0
        /\ \A j \in 1 .. m : IF mt[j] = 0 THEN v[j] = 0 ELSE Slack(c, u, v, mt[j], j) = 0
    BY <1>3 DEF Solved, Priced
  <1>7. PICK t : t = [i \in 1 .. n |-> CHOOSE j \in 1 .. m : mt[j] = i]
    OBVIOUS
  <1>8. \A i \in 1 .. n : t[i] \in 1 .. m /\ mt[t[i]] = i
    BY <1>5, <1>7
  <1>9. \A i \in 1 .. n : i # 0
    BY <1>1
  <1>10. t \in Injection(1 .. n, 1 .. m)
    <2>1. t \in [1 .. n -> 1 .. m]
      BY <1>7, <1>8
    <2>2. \A i, j \in 1 .. n : t[i] = t[j] => i = j
      BY <1>8
    <2> QED BY <2>1, <2>2 DEF Injection, IsInjective
  <1>11. ASSUME NEW j \in 1 .. m, mt[j] # 0 PROVE mt[j] \in 1 .. n /\ t[mt[j]] = j
    <2>1. mt[j] \in 1 .. n
      <3>1. PICK r \in 0 .. n : r = mt[j] /\ r # 0
        BY <1>5, <1>11
      <3> QED BY <1>1, <3>1
    <2>2. t[mt[j]] \in 1 .. m /\ mt[t[mt[j]]] = mt[j]
      BY <1>8, <2>1
    <2> QED BY <1>5, <1>11, <2>1, <2>2
  <1>12. Expense(c, n, t) = Dual(u, v, n, m)
    <2>1. \A i \in 1 .. n : Slack(c, u, v, i, t[i]) = 0
      BY <1>6, <1>8, <1>9
    <2>2. ASSUME NEW j \in 1 .. m PROVE v[j] = 0 \/ \E i \in 1 .. n : t[i] = j
      <3>1. CASE mt[j] = 0
        BY <1>6, <3>1
      <3>2. CASE mt[j] # 0
        BY <1>11, <3>2
      <3> QED BY <3>1, <3>2
    <2> QED BY <1>1, <1>2, <1>6, <1>10, <2>1, <2>2, Duality
  <1>13. ASSUME NEW s \in Injection(1 .. n, 1 .. m) PROVE Expense(c, n, s) >= Dual(u, v, n, m)
    BY <1>1, <1>2, <1>6, Duality
  <1>14. \A s \in Injection(1 .. n, 1 .. m) : Expense(c, n, s) \in Int /\ Dual(u, v, n, m) \in Int
    BY <1>1, <1>2, <1>6, Duality
  <1>15. ASSUME NEW s \in Injection(1 .. n, 1 .. m) PROVE Expense(c, n, t) <= Expense(c, n, s)
    <2>1. PICK a \in Int, b \in Int : a = Expense(c, n, s) /\ b = Dual(u, v, n, m)
      BY <1>14
    <2>2. a >= b
      BY <1>13, <2>1
    <2> QED BY <1>12, <2>1, <2>2
  <1> QED BY <1>8, <1>10, <1>11, <1>15

LEMMA MatesAreBest ==
    ASSUME NEW n, NEW m, NEW c, NEW mt, NEW pt, NEW u, NEW v, Solved(n, m, c, mt, pt, u, v),
           NEW x, NEW X, Enumerates(x, n, X), NEW y, NEW Y, Enumerates(y, m, Y),
           NEW tall, Facing(X, Y, n, m, tall), NEW score, Scores(score, c, x, y, n, m, tall)
    PROVE  Mated(x, y, mt, m, tall) \in Best(score, IF tall THEN Y ELSE X, IF tall THEN X ELSE Y)
  <1>1. c \in [1 .. n -> [1 .. m -> Int]]
    BY DEF Solved, Solvable
  <1>2. PICK t \in Injection(1 .. n, 1 .. m) :
           /\ \A i \in 1 .. n : mt[t[i]] = i
           /\ \A j \in 1 .. m : mt[j] # 0 => mt[j] \in 1 .. n /\ t[mt[j]] = j
           /\ \A s \in Injection(1 .. n, 1 .. m) : Expense(c, n, t) <= Expense(c, n, s)
    BY MatesCostLeast
  <1>3. Mated(x, y, mt, m, tall) = LaidOut(x, y, t, n, tall)
    <2>1. t \in [1 .. n -> 1 .. m] /\ n \in Nat
      BY DEF Injection, Enumerates
    <2>2. \A i \in 1 .. n : t[i] \in 1 .. m /\ mt[t[i]] = i /\ i # 0
      BY <1>2, <2>1
    <2>3. \A j \in 1 .. m : mt[j] # 0 => mt[j] \in 1 .. n /\ t[mt[j]] = j
      BY <1>2
    <2>4. \A pair \in Mated(x, y, mt, m, tall) : pair \in LaidOut(x, y, t, n, tall)
      BY <2>3 DEF Mated, LaidOut
    <2>5. ASSUME NEW i \in 1 .. n PROVE Paired(x, y, i, t[i], tall) \in Mated(x, y, mt, m, tall)
      <3>1. PICK j \in {h \in 1 .. m : mt[h] # 0} : j = t[i] /\ mt[j] = i
        BY <2>2
      <3> QED BY <3>1 DEF Mated
    <2> QED BY <2>4, <2>5 DEF LaidOut
  <1>4. PICK ways : ways = Ways(IF tall THEN Y ELSE X, IF tall THEN X ELSE Y)
    OBVIOUS
  <1>5. ways = {LaidOut(x, y, s, n, tall) : s \in Injection(1 .. n, 1 .. m)}
    BY <1>4, WaysLaidOut
  <1>6. ASSUME NEW s \in Injection(1 .. n, 1 .. m)
        PROVE  /\ Expense(c, n, s) \in Int
               /\ Worth(score, LaidOut(x, y, s, n, tall)) = - Expense(c, n, s)
    BY <1>1, WorthIsExpense
  <1>7. PICK w : w = Worth(score, LaidOut(x, y, t, n, tall))
    OBVIOUS
  <1>8. PICK worths : worths = {Worth(score, way) : way \in ways}
    OBVIOUS
  <1>9. worths \subseteq Int /\ w \in worths /\ \A z \in worths : z <= w
    <2>1. LaidOut(x, y, t, n, tall) \in ways
      BY <1>5
    <2>2. w \in worths
      BY <1>7, <1>8, <2>1
    <2>3. ASSUME NEW z \in worths PROVE z \in Int /\ z <= w
      <3>1. PICK s \in Injection(1 .. n, 1 .. m) : z = Worth(score, LaidOut(x, y, s, n, tall))
        BY <1>5, <1>8
      <3>2. PICK a \in Int, b \in Int : a = Expense(c, n, s) /\ b = Expense(c, n, t)
        BY <1>6
      <3>3. z = - a /\ w = - b /\ b <= a
        BY <1>2, <1>6, <1>7, <3>1, <3>2
      <3> QED BY <3>2, <3>3
    <2> QED BY <2>2, <2>3
  <1>10. Max(worths) = w
    BY <1>9, GreatestIs
  <1>11. Best(score, IF tall THEN Y ELSE X, IF tall THEN X ELSE Y)
            = {way \in ways : Worth(score, way) = Max(worths)}
    BY <1>4, <1>8, Zenon DEF Best
  <1>12. LaidOut(x, y, t, n, tall) \in ways
    BY <1>5
  <1> QED BY <1>3, <1>7, <1>10, <1>11, <1>12

------------------------------------------------------------------------------
(* The cascade around the solves.                                            *)

Ascends(list, n, S) ==
    /\ list \in [1 .. n -> S]
    /\ \A i, j \in 1 .. n : i < j => list[i] < list[j]

LEMMA AscendingExists ==
    ASSUME NEW I, IsFiniteSet(I), I \subseteq Int
    PROVE  \E list : Ascends(list, Cardinality(I), I)
  <1> DEFINE P == {n \in Nat : \A S \in SUBSET I : Cardinality(S) = n => \E list : Ascends(list, n, S)}
  <1>1. \A S \in SUBSET I : IsFiniteSet(S) /\ Cardinality(S) \in Nat
    BY FS_Subset, FS_CardinalityType
  <1>2. 0 \in P
    <2> SUFFICES ASSUME NEW S \in SUBSET I, Cardinality(S) = 0 PROVE \E list : Ascends(list, 0, S)
      OBVIOUS
    <2>1. PICK list : list = [i \in 1 .. 0 |-> i]
      OBVIOUS
    <2>2. 1 .. 0 = {}
      OBVIOUS
    <2>3. list \in [1 .. 0 -> S]
      BY <2>1, <2>2
    <2> QED BY <2>2, <2>3 DEF Ascends
  <1>3. ASSUME NEW n \in Nat, n \in P PROVE n + 1 \in P
    <2> SUFFICES ASSUME NEW S \in SUBSET I, Cardinality(S) = n + 1
                 PROVE  \E list : Ascends(list, n + 1, S)
      OBVIOUS
    <2>1. S # {}
      BY FS_EmptySet
    <2>2. PICK a \in S : \A x \in S : a <= x
      <3>1. IsFiniteSet(S) /\ S \subseteq Int
        BY <1>1
      <3>2. Min(S) \in S /\ \A x \in S : Min(S) <= x
        BY <2>1, <3>1, LeastOfFinite
      <3> QED BY <3>2
    <2>3. PICK T \in SUBSET I : T = S \ {a}
      OBVIOUS
    <2>4. Cardinality(T) = n
      <3>1. Cardinality(T) = Cardinality(S) - 1
        BY <1>1, <2>3, FS_RemoveElement
      <3> QED BY <3>1
    <2>5. PICK list : Ascends(list, n, T)
      BY <1>3, <2>4
    <2>6. list \in [1 .. n -> T] /\ \A i, j \in 1 .. n : i < j => list[i] < list[j]
      BY <2>5 DEF Ascends
    <2>7. PICK more : more = [i \in 1 .. (n + 1) |-> IF i = 1 THEN a ELSE list[i - 1]]
      OBVIOUS
    <2>8. \A i \in 1 .. (n + 1) : i # 1 => i - 1 \in 1 .. n
      OBVIOUS
    <2>9. more \in [1 .. (n + 1) -> S]
      BY <2>3, <2>6, <2>7, <2>8
    <2>10. ASSUME NEW i \in 1 .. (n + 1), NEW j \in 1 .. (n + 1), i < j PROVE more[i] < more[j]
      <3>1. j # 1 /\ j - 1 \in 1 .. n /\ more[j] = list[j - 1] /\ list[j - 1] \in T
        BY <2>6, <2>7, <2>8, <2>10
      <3>2. a \in Int /\ list[j - 1] \in Int
        BY <3>1
      <3>3. CASE i = 1
        <4>1. a <= list[j - 1] /\ a # list[j - 1]
          BY <2>2, <2>3, <3>1
        <4> QED BY <2>7, <3>1, <3>2, <3>3, <4>1
      <3>4. CASE i # 1
        <4>1. i - 1 \in 1 .. n /\ more[i] = list[i - 1] /\ i - 1 < j - 1
          BY <2>7, <2>8, <2>10, <3>4
        <4> QED BY <2>6, <3>1, <4>1
      <3> QED BY <3>3, <3>4
    <2>11. Ascends(more, n + 1, S)
      BY <2>9, <2>10 DEF Ascends
    <2> QED BY <2>11
  <1>4. \A n \in Nat : n \in P
    <2> HIDE DEF P
    <2> QED BY <1>2, <1>3, CountingUp
  <1>5. I \in SUBSET I /\ Cardinality(I) \in Nat
    BY <1>1
  <1> QED BY <1>4, <1>5

LEMMA ListedEnumerates ==
    ASSUME NEW S, IsFiniteSet(S), S \subseteq Int
    PROVE  Enumerates(Listed(S), Cardinality(S), S)
  <1>1. PICK n \in Nat : n = Cardinality(S)
    BY FS_CardinalityType
  <1>2. PICK list : list = Listed(S)
    OBVIOUS
  <1>3. list \in [1 .. n -> S] /\ \A i, j \in DOMAIN list : i < j => list[i] < list[j]
    <2>1. PICK l : Ascends(l, n, S)
      BY <1>1, AscendingExists
    <2>2. l \in [1 .. n -> S] /\ \A i, j \in DOMAIN l : i < j => l[i] < l[j]
      BY <2>1 DEF Ascends
    <2>3. list = CHOOSE h \in [1 .. n -> S] : \A i, j \in DOMAIN h : i < j => h[i] < h[j]
      BY <1>1, <1>2 DEF Listed
    <2> QED BY <2>2, <2>3
  <1>4. \A i, j \in 1 .. n : list[i] = list[j] => i = j
    <2> SUFFICES ASSUME NEW i \in 1 .. n, NEW j \in 1 .. n, list[i] = list[j] PROVE i = j
      OBVIOUS
    <2>1. list[i] \in Int /\ list[j] \in Int /\ i \in DOMAIN list /\ j \in DOMAIN list
      BY <1>3
    <2>2. ~ (i < j) /\ ~ (j < i)
      BY <1>3, <2>1
    <2> QED BY <2>2
  <1>5. list \in Injection(1 .. n, S)
    BY <1>3, <1>4 DEF Injection, IsInjective
  <1>6. Cardinality(1 .. n) = n
    <2>1. 1 \in Int /\ n \in Int
      OBVIOUS
    <2>2. Cardinality(1 .. n) = IF 1 > n THEN 0 ELSE n - 1 + 1
      BY <2>1, FS_Interval
    <2> QED BY <2>1, <2>2
  <1>7. list \in Surjection(1 .. n, S)
    BY <1>1, <1>5, <1>6, FS_Injection
  <1>8. \A e \in S : \E i \in 1 .. n : list[i] = e
    BY <1>7 DEF Surjection
  <1> QED BY <1>1, <1>2, <1>3, <1>4, <1>8 DEF Enumerates

(* A list that enumerates a set is a sequence of it.                         *)
LEMMA EnumeratedList ==
    ASSUME NEW x, NEW n, NEW X, Enumerates(x, n, X)
    PROVE  Len(x) = n /\ ToSet(x) = X /\ (x = <<>> <=> X = {})
  <1>1. n \in Nat /\ x \in [1 .. n -> X] /\ \A e \in X : \E i \in 1 .. n : x[i] = e
    BY DEF Enumerates
  <1>2. x \in Seq(X)
    BY <1>1, SeqDef
  <1>3. Len(x) \in Nat /\ DOMAIN x = 1 .. Len(x)
    BY <1>2, LenProperties
  <1>4. Len(x) = n
    <2>1. 1 .. Len(x) = 1 .. n
      BY <1>1, <1>3
    <2> QED BY <1>1, <1>3, <2>1
  <1>5. ToSet(x) = X
    BY <1>1 DEF ToSet
  <1>6. ASSUME x = <<>> PROVE X = {}
    <2>1. n = 0
      BY <1>4, <1>6
    <2> QED BY <1>1, <2>1
  <1>7. ASSUME X = {} PROVE x = <<>>
    <2>1. n = 0
      <3>1. n # 0 => 1 \in 1 .. n
        BY <1>1
      <3> QED BY <1>1, <1>7, <3>1
    <2>2. x \in Seq(X) /\ <<>> \in Seq(X) /\ Len(x) = Len(<<>>)
      BY <1>2, <1>4, <2>1, EmptySeq
    <2>3. Len(<<>>) = 0 /\ Len(x) = 0
      BY <1>4, <2>1, <2>2
    <2> QED BY <1>2, <2>3, EmptySeq
  <1> QED BY <1>4, <1>5, <1>6, <1>7

(* With nobody on one side there is nothing to choose.                       *)
LEMMA NothingToChoose ==
    ASSUME NEW R, NEW C, IsFiniteSet(R), IsFiniteSet(C), R = {} \/ C = {}
    PROVE  {} \in Least(R, C)
  <1>1. PICK score : score = [pair \in R \X C |-> -cost[pair[1]][pair[2]]]
    OBVIOUS
  <1>2. Cardinality({}) = 0 /\ Cardinality(R) \in Nat /\ Cardinality(C) \in Nat
    BY FS_EmptySet, FS_CardinalityType
  <1>3. Ways(R, C) = {{}}
    <2>1. CASE R = {}
      <3>1. Ways(R, C) = {{<<r, f[r]>> : r \in {}} : f \in Injection({}, C)}
        BY <1>2, <2>1 DEF Ways
      <3>2. PICK f : f = [e \in {} |-> e]
        OBVIOUS
      <3>3. f \in Injection({}, C)
        BY <3>2 DEF Injection, IsInjective
      <3> QED BY <3>1, <3>3
    <2>2. CASE R # {} /\ C = {}
      <3>1. Cardinality(R) # 0
        BY <2>2, FS_EmptySet
      <3>2. ~ (Cardinality(R) <= Cardinality(C))
        BY <1>2, <2>2, <3>1
      <3>3. Ways(R, C) = {{<<f[e], e>> : e \in {}} : f \in Injection({}, R)}
        BY <2>2, <3>2 DEF Ways
      <3>4. PICK f : f = [e \in {} |-> e]
        OBVIOUS
      <3>5. f \in Injection({}, R)
        BY <3>4 DEF Injection, IsInjective
      <3> QED BY <3>3, <3>5
    <2> QED BY <2>1, <2>2
  <1>4. Worth(score, {}) = 0
    <2>1. PICK f : f = [pair \in {} |-> score[pair]]
      OBVIOUS
    <2>2. DOMAIN f = {} /\ Worth(score, {}) = SumFunctionOnSet(f, DOMAIN f)
      BY <2>1, Zenon DEF Worth, SumFunction
    <2> QED BY <2>2, SumEmpty
  <1>5. PICK worths : worths = {Worth(score, way) : way \in Ways(R, C)}
    OBVIOUS
  <1>6. worths = {0}
    BY <1>3, <1>4, <1>5
  <1>7. Best(score, R, C) = {way \in Ways(R, C) : Worth(score, way) = Max(worths)}
    BY <1>5, Zenon DEF Best
  <1>8. {} \in Best(score, R, C)
    BY <1>3, <1>4, <1>6, <1>7, OnlyOne
  <1> QED BY <1>1, <1>8 DEF Least

(* Two starts of bands are a stride apart.                                   *)
LEMMA BandsApart ==
    ASSUME NEW s \in Nat \ {0}, NEW a \in Nat, NEW b \in Nat, a % s = 0, b % s = 0, a > b - s
    PROVE  a >= b
  <1>1. PICK x \in Nat, y \in Nat : x = a \div s /\ y = b \div s
    OBVIOUS
  <1>2. a = s * x /\ b = s * y
    BY <1>1
  <1>3. x < y => x + 1 <= y
    OBVIOUS
  <1>4. x + 1 <= y => s * (x + 1) <= s * y
    OBVIOUS
  <1>5. s * (x + 1) = s * x + s
    OBVIOUS
  <1>6. x >= y => s * x >= s * y
    OBVIOUS
  <1> QED BY <1>2, <1>3, <1>4, <1>5, <1>6

LEMMA NextStart ==
    ASSUME NEW s \in Nat \ {0}, NEW a \in Nat, a % s = 0
    PROVE  (a + s) % s = 0
  <1>1. PICK x \in Nat : x = a \div s
    OBVIOUS
  <1>2. a = s * x
    BY <1>1
  <1>3. a + s = s * (x + 1)
    BY <1>2
  <1>4. (s * (x + 1)) % s = 0
    OBVIOUS
  <1> QED BY <1>3, <1>4

(* The parts of BandsChooseInOrder, for the bands that are behind.           *)
Certain == IF locking THEN WithoutRivals ELSE {}
RowsOf(age) == {r \in AllRows : ages[r] \in age .. age + Stride - 1}
BeforeBand(age) == {pair \in matches : ages[pair[1]] < age}
LeftAt(age) == ToSet(offered) \ {pair[2] : pair \in BeforeBand(age) \cup Certain}
BiddingAt(age) == RowsOf(age) \ {pair[1] : pair \in Certain}
ChosenAt(age) == {pair \in matches : pair[1] \in RowsOf(age)} \ Certain
ChoseWell(age) == \E way \in Least(BiddingAt(age), LeftAt(age)) : ChosenAt(age) = Evidence(way)

Untaken == ToSet(offered) \ {pair[2] : pair \in matches}

CascadeProblem ==
    /\ IsFiniteSet(AllRows) /\ AllRows \subseteq Int
    /\ IsFiniteSet(ToSet(offered)) /\ ToSet(offered) \subseteq Int
    /\ \A r \in AllRows : ages[r] \in 0 .. MaxDepth
    /\ \A r \in AllRows, c \in ToSet(offered) : cost[r][c] \in Int
    /\ locking \in BOOLEAN /\ (locking => \A r \in AllRows : ages[r] = 0)

Depth == Max({MaxDepth, 1})

Handed ==
    /\ Certain \subseteq matches /\ matches \subseteq AllRows \X ToSet(offered)
    /\ \A pair \in matches \ Certain : ages[pair[1]] < start
    /\ Enumerates(remaining, Len(remaining), Untaken)
    /\ \A age \in Nat : age % Stride = 0 /\ age < start => ChoseWell(age)

AtABand == start \in Nat /\ start % Stride = 0 /\ start - Stride < Depth

LEMMA DepthType == Depth \in Nat /\ Depth >= MaxDepth /\ Depth >= 1 /\ MaxDepth \in Nat /\ Stride \in Nat \ {0}
                   /\ (Depth = MaxDepth \/ Depth = 1)
  BY LargestOfTwo, CascadeAssumption DEF Depth

LEMMA SameProblem ==
    ASSUME UNCHANGED problem
    PROVE  /\ (CascadeProblem => CascadeProblem')
           /\ AllRows' = AllRows /\ ToSet(offered)' = ToSet(offered) /\ Certain' = Certain
           /\ ages' = ages /\ cost' = cost
           /\ \A R, C : Least(R, C)' = Least(R, C)
           /\ \A pairs : Evidence(pairs)' = Evidence(pairs)
           /\ \A age : RowsOf(age)' = RowsOf(age) /\ BiddingAt(age)' = BiddingAt(age)
  <1>1. cost' = cost /\ ages' = ages /\ offered' = offered /\ locking' = locking
    BY DEF problem
  <1>2. AllRows' = AllRows /\ ToSet(offered)' = ToSet(offered)
    BY <1>1 DEF AllRows
  <1>3. Certain' = Certain
    BY <1>1, <1>2 DEF Certain, WithoutRivals, Affordable
  <1>4. \A R, C : Least(R, C)' = Least(R, C)
    BY <1>1 DEF Least
  <1>5. \A pairs : Evidence(pairs)' = Evidence(pairs)
    BY <1>1 DEF Evidence, Affordable
  <1>6. \A age : RowsOf(age)' = RowsOf(age)
    BY <1>1, <1>2 DEF RowsOf
  <1>7. \A age : BiddingAt(age)' = BiddingAt(age)
    BY <1>3, <1>6 DEF BiddingAt
  <1>8. CascadeProblem => CascadeProblem'
    BY <1>1, <1>2 DEF CascadeProblem
  <1> QED BY <1>1, <1>2, <1>3, <1>4, <1>5, <1>6, <1>7, <1>8

(* What the band at hand is offered is what nobody has taken.                *)
LEMMA BandAtHand ==
    ASSUME CascadeProblem, Handed, AtABand
    PROVE  /\ LeftAt(start) = Untaken
           /\ BiddingAt(start) = {r \in AllRows : ages[r] >= start /\ ages[r] < start + Stride}
                                     \ {pair[1] : pair \in matches}
           /\ ChosenAt(start) = {}
           /\ \A age \in Nat : age >= start => LeftAt(age) = Untaken /\ ChosenAt(age) = {}
  <1>1. /\ Certain \subseteq matches /\ matches \subseteq AllRows \X ToSet(offered)
        /\ \A pair \in matches \ Certain : ages[pair[1]] < start
    BY DEF Handed
  <1>2. start \in Nat /\ Stride \in Nat \ {0}
    BY DepthType DEF AtABand
  <1>3. \A r \in AllRows : ages[r] \in Nat
    <2>1. \A r \in AllRows : ages[r] \in 0 .. MaxDepth
      BY DEF CascadeProblem
    <2> QED BY <2>1, DepthType
  <1>4. \A pair \in matches : pair[1] \in AllRows /\ ages[pair[1]] \in Nat
    BY <1>1, <1>3
  <1>5. ASSUME NEW age \in Nat, age >= start PROVE LeftAt(age) = Untaken
    <2>1. ASSUME NEW pair \in matches PROVE pair \in BeforeBand(age) \cup Certain
      <3>1. CASE pair \in Certain
        BY <3>1
      <3>2. CASE pair \notin Certain
        <4>1. ages[pair[1]] < start /\ ages[pair[1]] \in Nat
          BY <1>1, <1>4, <3>2
        <4>2. ages[pair[1]] < age
          BY <1>2, <1>5, <4>1
        <4> QED BY <4>2 DEF BeforeBand
      <3> QED BY <3>1, <3>2
    <2>2. BeforeBand(age) \cup Certain = matches
      BY <1>1, <2>1 DEF BeforeBand
    <2> QED BY <2>2 DEF LeftAt, Untaken
  <1>6. ASSUME NEW r \in AllRows
        PROVE  r \in RowsOf(start) <=> ages[r] >= start /\ ages[r] < start + Stride
    BY <1>2, <1>3 DEF RowsOf
  <1>7. ASSUME NEW r \in RowsOf(start)
        PROVE  r \in {pair[1] : pair \in matches} <=> r \in {pair[1] : pair \in Certain}
    <2>1. ASSUME NEW pair \in matches, r = pair[1] PROVE pair \in Certain
      <3>1. r \in AllRows /\ ages[r] >= start /\ ages[r] \in Nat
        BY <1>3, <1>6 DEF RowsOf
      <3>2. ~ (ages[r] < start)
        BY <1>2, <3>1
      <3> QED BY <1>1, <2>1, <3>2
    <2> QED BY <1>1, <2>1
  <1>8. BiddingAt(start) = {r \in AllRows : ages[r] >= start /\ ages[r] < start + Stride}
                              \ {pair[1] : pair \in matches}
    <2>1. RowsOf(start) = {r \in AllRows : ages[r] >= start /\ ages[r] < start + Stride}
      BY <1>6 DEF RowsOf
    <2> QED BY <1>7, <2>1 DEF BiddingAt
  <1>9. ASSUME NEW age \in Nat, age >= start PROVE ChosenAt(age) = {}
    <2> SUFFICES ASSUME NEW pair \in matches, pair[1] \in RowsOf(age), pair \notin Certain PROVE FALSE
      BY DEF ChosenAt
    <2>1. ages[pair[1]] < start /\ ages[pair[1]] \in Nat
      BY <1>1, <1>4
    <2>2. ages[pair[1]] >= age
      BY <2>1, <1>2 DEF RowsOf
    <2> QED BY <1>2, <1>9, <2>1, <2>2
  <1>10. start >= start
    BY <1>2
  <1> QED BY <1>2, <1>5, <1>8, <1>9, <1>10

(* A band that chose well leaves those before it as they were.               *)
LEMMA BandBehind ==
    ASSUME CascadeProblem, Handed, AtABand, UNCHANGED problem, start' = start + Stride,
           NEW new, NEW way \in Least(BiddingAt(start), LeftAt(start)), new = Evidence(way),
           new \subseteq BiddingAt(start) \X LeftAt(start),
           matches' = matches \cup new, Enumerates(remaining', Len(remaining'), Untaken')
    PROVE  Handed'
  <1>1. /\ Certain \subseteq matches /\ matches \subseteq AllRows \X ToSet(offered)
        /\ \A pair \in matches \ Certain : ages[pair[1]] < start
        /\ \A age \in Nat : age % Stride = 0 /\ age < start => ChoseWell(age)
    BY DEF Handed
  <1>2. start \in Nat /\ start % Stride = 0 /\ Stride \in Nat \ {0}
    BY DepthType DEF AtABand
  <1>3. \A r \in AllRows : ages[r] \in Nat
    <2>1. \A r \in AllRows : ages[r] \in 0 .. MaxDepth
      BY DEF CascadeProblem
    <2> QED BY <2>1, DepthType
  <1>4. /\ AllRows' = AllRows /\ ToSet(offered)' = ToSet(offered) /\ Certain' = Certain
        /\ ages' = ages
        /\ \A R, C : Least(R, C)' = Least(R, C)
        /\ \A pairs : Evidence(pairs)' = Evidence(pairs)
        /\ \A age : RowsOf(age)' = RowsOf(age) /\ BiddingAt(age)' = BiddingAt(age)
    BY SameProblem
  <1>5. \A pair \in new : pair[1] \in BiddingAt(start) /\ pair[2] \in LeftAt(start)
    OBVIOUS
  <1>6. \A r \in BiddingAt(start) : /\ r \in AllRows /\ r \in RowsOf(start)
                                    /\ r \notin {pair[1] : pair \in Certain}
                                    /\ ages[r] >= start /\ ages[r] < start + Stride
    BY BandAtHand DEF BiddingAt
  <1>7. \A pair \in new : pair \notin Certain
    BY <1>5, <1>6
  <1>8. matches' \subseteq AllRows \X ToSet(offered)
    <2>1. BiddingAt(start) \subseteq AllRows /\ LeftAt(start) \subseteq ToSet(offered)
      BY <1>6 DEF LeftAt
    <2> QED BY <1>1, <2>1
  <1>9. ASSUME NEW age \in Nat, age <= start
        PROVE  LeftAt(age)' = LeftAt(age)
    <2>1. ASSUME NEW pair \in new PROVE ~ (ages[pair[1]] < age)
      <3>1. PICK a \in Nat : a = ages[pair[1]] /\ a >= start
        BY <1>3, <1>5, <1>6
      <3> QED BY <1>2, <1>9, <3>1
    <2>2. BeforeBand(age)' = BeforeBand(age)
      BY <1>4, <2>1 DEF BeforeBand
    <2> QED BY <1>4, <2>2 DEF LeftAt
  <1>10. ASSUME NEW age \in Nat, age % Stride = 0, age < start PROVE ChosenAt(age)' = ChosenAt(age)
    <2>1. age + Stride <= start
      <3>0. age + Stride \in Nat
        BY <1>2
      <3>1. (age + Stride) % Stride = 0
        BY <1>2, <1>10, NextStart
      <3>2. start > (age + Stride) - Stride
        BY <1>2, <1>10
      <3>3. start >= age + Stride
        BY <1>2, <3>0, <3>1, <3>2, BandsApart
      <3> QED BY <1>2, <3>3
    <2>2. ASSUME NEW pair \in new PROVE pair[1] \notin RowsOf(age)
      <3>1. PICK a \in Nat : a = ages[pair[1]] /\ a >= start
        BY <1>3, <1>5, <1>6
      <3>2. ~ (a \in age .. age + Stride - 1)
        BY <1>2, <2>1, <3>1
      <3> QED BY <3>1, <3>2 DEF RowsOf
    <2> QED BY <1>4, <2>2 DEF ChosenAt
  <1>11. PICK s \in Nat : s = start
    BY <1>2
  <1>12. ChosenAt(s)' = new
    <2>1. ChosenAt(s)' = {pair \in matches \cup new : pair[1] \in RowsOf(s)} \ Certain
      BY <1>4 DEF ChosenAt
    <2>2. ChosenAt(s) = {}
      BY <1>11, BandAtHand
    <2>3. \A pair \in new : pair[1] \in RowsOf(s) /\ pair \notin Certain
      BY <1>5, <1>6, <1>7, <1>11
    <2> QED BY <2>1, <2>2, <2>3 DEF ChosenAt
  <1>13. ASSUME NEW age \in Nat, age % Stride = 0, age < start + Stride PROVE ChoseWell(age)'
    <2>1. CASE age < start
      <3>1. ChoseWell(age) /\ LeftAt(age)' = LeftAt(age) /\ ChosenAt(age)' = ChosenAt(age)
        BY <1>1, <1>2, <1>9, <1>10, <1>13, <2>1
      <3> QED BY <1>4, <3>1 DEF ChoseWell
    <2>2. CASE ~ (age < start)
      <3>1. age = s
        <4>1. start > age - Stride
          BY <1>2, <1>13
        <4>2. start >= age
          BY <1>2, <1>13, <4>1, BandsApart
        <4> QED BY <1>2, <1>11, <2>2, <4>2
      <3>2. LeftAt(s)' = LeftAt(s)
        BY <1>9, <1>11
      <3>3. way \in Least(BiddingAt(s), LeftAt(s)) /\ new = Evidence(way)
        BY <1>11
      <3>4. ChoseWell(s)'
        BY <1>4, <1>12, <3>2, <3>3 DEF ChoseWell
      <3> QED BY <3>1, <3>4
    <2> QED BY <2>1, <2>2
  <1>14. ASSUME NEW pair \in matches', pair \notin Certain PROVE ages[pair[1]] < start + Stride
    <2>1. CASE pair \in matches
      <3>1. PICK a \in Nat : a = ages[pair[1]] /\ a < start
        BY <1>1, <1>3, <1>14, <2>1
      <3> QED BY <1>2, <3>1
    <2>2. CASE pair \in new
      BY <1>5, <1>6, <2>2
    <2> QED BY <2>1, <2>2
  <1>15. Certain' \subseteq matches'
    BY <1>1, <1>4
  <1>16. matches' \subseteq AllRows' \X ToSet(offered)'
    BY <1>4, <1>8
  <1>17. \A pair \in matches' \ Certain' : ages'[pair[1]] < start'
    BY <1>4, <1>14
  <1>18. \A age \in Nat : age % Stride = 0 /\ age < start' => ChoseWell(age)'
    BY <1>13
  <1> QED BY <1>15, <1>16, <1>17, <1>18 DEF Handed

LEMMA HandedStays ==
    ASSUME Handed, UNCHANGED <<problem, start, remaining, matches>>
    PROVE  Handed'
  <1>1. start' = start /\ remaining' = remaining /\ matches' = matches
    OBVIOUS
  <1>2. /\ AllRows' = AllRows /\ ToSet(offered)' = ToSet(offered) /\ Certain' = Certain
        /\ ages' = ages
        /\ \A R, C : Least(R, C)' = Least(R, C)
        /\ \A pairs : Evidence(pairs)' = Evidence(pairs)
        /\ \A age : RowsOf(age)' = RowsOf(age) /\ BiddingAt(age)' = BiddingAt(age)
    BY SameProblem
  <1>3. \A age : LeftAt(age)' = LeftAt(age)
    <2>1. \A age : BeforeBand(age)' = BeforeBand(age)
      BY <1>1, <1>2 DEF BeforeBand
    <2> QED BY <1>2, <2>1 DEF LeftAt
  <1>4. \A age : ChosenAt(age)' = ChosenAt(age)
    BY <1>1, <1>2 DEF ChosenAt
  <1>5. \A age : ChoseWell(age) => ChoseWell(age)'
    BY <1>2, <1>3, <1>4 DEF ChoseWell
  <1>6. Untaken' = Untaken
    BY <1>1, <1>2 DEF Untaken
  <1> QED BY <1>1, <1>2, <1>5, <1>6 DEF Handed

(* The problem a solve is about, and how far it is.                          *)
SolverSide == IF Transposed THEN remaining ELSE band
OtherSide == IF Transposed THEN band ELSE remaining
CostTable == [i \in 1 .. SolverRows |-> [j \in 1 .. SolverColumns |-> CostAt(i, j)]]

InSearch == Searching(SolverRows, SolverColumns, CostTable, row, column, mate, path, shortest,
                      visited, potentialRow, potentialColumn)
InFlip ==
    /\ Flipping(SolverRows, SolverColumns, CostTable, row, column, mate, path,
                potentialRow, potentialColumn)
    /\ DOMAIN shortest = 0 .. SolverColumns
InSettle == Solved(SolverRows, SolverColumns, CostTable, mate, path, potentialRow, potentialColumn)

LEMMA SameSolve ==
    ASSUME UNCHANGED <<problem, cascade>>
    PROVE  SolverRows' = SolverRows /\ SolverColumns' = SolverColumns /\ CostTable' = CostTable
  <1>1. cost' = cost /\ band' = band /\ remaining' = remaining
    BY DEF problem, cascade
  <1>2. Transposed' = Transposed /\ SolverRows' = SolverRows /\ SolverColumns' = SolverColumns
    BY <1>1 DEF Transposed, SolverRows, SolverColumns
  <1>3. \A i, j : CostAt(i, j)' = CostAt(i, j)
    BY <1>1, <1>2 DEF CostAt, PairAt
  <1> QED BY <1>2, <1>3 DEF CostTable

LEMMA SearchStep ==
    ASSUME Search, InSearch
    PROVE  /\ UNCHANGED <<problem, cascade>> /\ stage' \in {"search", "flip"}
           /\ stage' = "search" => InSearch'
           /\ stage' = "flip" => InFlip'
  <1>1. UNCHANGED <<problem, cascade>> /\ row' = row /\ mate' = mate
    BY DEF Search
  <1>2. PICK n, m, c : n = SolverRows /\ m = SolverColumns /\ c = CostTable
    OBVIOUS
  <1>3. SolverRows' = n /\ SolverColumns' = m /\ CostTable' = c
    BY <1>1, <1>2, SameSolve
  <1>4. PICK k, q, mt, pt : k = row /\ q = column /\ mt = mate /\ pt = path
    OBVIOUS
  <1>5. PICK sh, vis, u, v : sh = shortest /\ vis = visited /\ u = potentialRow /\ v = potentialColumn
    OBVIOUS
  <1>6. Searching(n, m, c, k, q, mt, pt, sh, vis, u, v)
    BY <1>2, <1>4, <1>5 DEF InSearch
  <1>7. /\ mt \in [0 .. m -> 0 .. n] /\ pt \in [0 .. m -> 0 .. m] /\ sh \in [0 .. m -> SUBSET Int]
        /\ u \in [0 .. n -> Int] /\ v \in [0 .. m -> Int]
        /\ n \in Nat /\ m \in Nat /\ q \in 0 .. m /\ mt[q] # 0
    BY <1>6 DEF Searching, Solvable
  <1>8. mt[q] \in 1 .. n
    BY <1>7
  <1>9. PICK seen : seen = vis \cup {q}
    OBVIOUS
  <1>10. PICK free : free = (1 .. m) \ seen
    OBVIOUS
  <1>11. ASSUME NEW j \in free PROVE Reduced(mt[q], j) = Slack(c, u, v, mt[q], j)
    <2>1. c[mt[q]][j] = CostAt(mt[q], j)
      BY <1>2, <1>8, <1>10 DEF CostTable
    <2> QED BY <1>5, <2>1 DEF Reduced, Slack
  <1>12. PICK closer : closer = {j \in free : \A length \in sh[j] : Slack(c, u, v, mt[q], j) < length}
    OBVIOUS
  <1>13. PICK way : way = [j \in free |-> IF j \in closer THEN Slack(c, u, v, mt[q], j)
                                          ELSE CHOOSE length \in sh[j] : TRUE]
    OBVIOUS
  <1>14. PICK delta : delta = Min({way[j] : j \in free})
    OBVIOUS
  <1>15. PICK next : next = NextFree(free, way, delta)
    OBVIOUS
  <1>16. closer = {j \in free : \A length \in sh[j] : Reduced(mt[q], j) < length}
    BY <1>11, <1>12
  <1>17. way = [j \in free |-> IF j \in closer THEN Reduced(mt[q], j)
                               ELSE CHOOSE length \in sh[j] : TRUE]
    BY <1>11, <1>13
  <1>18. /\ visited' = seen
         /\ path' = [j \in DOMAIN pt |-> IF j \in closer THEN q ELSE pt[j]]
         /\ shortest' = [j \in DOMAIN sh |-> IF j \in free THEN {way[j] - delta} ELSE sh[j]]
         /\ potentialRow' = Repriced(seen, delta)
         /\ potentialColumn' = [j \in DOMAIN v |-> v[j] - IF j \in seen THEN delta ELSE 0]
         /\ column' = next /\ stage' = IF mt[next] = 0 THEN "flip" ELSE "search"
    BY <1>2, <1>4, <1>5, <1>9, <1>10, <1>14, <1>15, <1>16, <1>17 DEF Search
  <1>19. PICK pt2, sh2, u2, v2 : pt2 = path' /\ sh2 = shortest' /\ u2 = potentialRow'
                                 /\ v2 = potentialColumn'
    OBVIOUS
  <1>20. u2 = [i \in 0 .. n |-> u[i] + IF i \in {mt[j] : j \in seen} THEN delta ELSE 0]
    BY <1>4, <1>5, <1>7, <1>18, <1>19 DEF Repriced
  <1>21. /\ pt2 = [j \in 0 .. m |-> IF j \in closer THEN q ELSE pt[j]]
         /\ sh2 = [j \in 0 .. m |-> IF j \in free THEN {way[j] - delta} ELSE sh[j]]
         /\ v2 = [j \in 0 .. m |-> v[j] - IF j \in seen THEN delta ELSE 0]
    BY <1>7, <1>18, <1>19
  <1>22. Searched(n, m, c, k, q, mt, pt, sh, vis, u, v, seen, free, closer, way, delta, next,
                  pt2, sh2, u2, v2)
    BY <1>9, <1>10, <1>12, <1>13, <1>14, <1>15, <1>20, <1>21 DEF Searched, NextFree
  <1>23. /\ mt[next] = 0 => Flipping(n, m, c, k, next, mt, pt2, u2, v2)
         /\ mt[next] # 0 => Searching(n, m, c, k, next, mt, pt2, sh2, seen, u2, v2)
    BY <1>6, <1>22, SearchKeeps
  <1>24. stage' = "search" => InSearch'
    BY <1>1, <1>3, <1>4, <1>18, <1>19, <1>23 DEF InSearch
  <1>25. stage' = "flip" => InFlip'
    <2>1. DOMAIN shortest' = 0 .. m
      BY <1>19, <1>21
    <2> QED BY <1>1, <1>3, <1>4, <1>18, <1>19, <1>23, <2>1 DEF InFlip
  <1> QED BY <1>1, <1>18, <1>24, <1>25

LEMMA FlipStep ==
    ASSUME Flip, InFlip
    PROVE  /\ UNCHANGED <<problem, cascade>> /\ stage' \in {"search", "flip", "settle"}
           /\ stage' = "search" => InSearch'
           /\ stage' = "flip" => InFlip'
           /\ stage' = "settle" => InSettle'
  <1>1. /\ UNCHANGED <<problem, cascade>> /\ path' = path /\ potentialRow' = potentialRow
        /\ potentialColumn' = potentialColumn /\ stage = "flip"
    BY DEF Flip
  <1>2. PICK n, m, c : n = SolverRows /\ m = SolverColumns /\ c = CostTable
    OBVIOUS
  <1>3. SolverRows' = n /\ SolverColumns' = m /\ CostTable' = c
    BY <1>1, <1>2, SameSolve
  <1>4. PICK k, q, mt, pt, u, v : k = row /\ q = column /\ mt = mate /\ pt = path
                                  /\ u = potentialRow /\ v = potentialColumn
    OBVIOUS
  <1>5. Flipping(n, m, c, k, q, mt, pt, u, v)
    BY <1>2, <1>4 DEF InFlip
  <1>6. PICK p : p = pt[q]
    OBVIOUS
  <1>7. PICK mt2 : mt2 = [mt EXCEPT ![q] = mt[p]]
    OBVIOUS
  <1>8. /\ p # 0 => Flipping(n, m, c, k, p, mt2, pt, u, v)
        /\ p = 0 /\ k = n => Solved(n, m, c, mt2, pt, u, v)
        /\ p = 0 /\ k # n => NextRow(n, m, c, k, mt2, pt, u, v)
    BY <1>5, <1>6, <1>7, FlipKeeps
  <1>9. /\ column' = p
        /\ IF p # 0
           THEN mate' = mt2 /\ UNCHANGED <<row, shortest, visited, stage>>
           ELSE IF k = n
           THEN mate' = mt2 /\ stage' = "settle" /\ UNCHANGED <<row, shortest, visited>>
           ELSE /\ mate' = [mt2 EXCEPT ![0] = k + 1] /\ row' = k + 1
                /\ shortest' = [j \in DOMAIN shortest |-> NoWay]
                /\ visited' = {} /\ stage' = "search"
    BY <1>2, <1>4, <1>6, <1>7 DEF Flip
  <1>10. CASE p # 0
    <2>1. Flipping(n, m, c, k, p, mt2, pt, u, v)
      BY <1>8, <1>10
    <2>2. mate' = mt2 /\ row' = k /\ stage' = "flip" /\ column' = p
      BY <1>1, <1>4, <1>9, <1>10
    <2>3. DOMAIN shortest' = 0 .. m
      BY <1>2, <1>9, <1>10 DEF InFlip
    <2>4. InFlip'
      BY <1>1, <1>3, <1>4, <2>1, <2>2, <2>3 DEF InFlip
    <2> QED BY <1>1, <2>2, <2>4
  <1>11. CASE p = 0 /\ k = n
    <2>1. Solved(n, m, c, mt2, pt, u, v)
      BY <1>8, <1>11
    <2>2. mate' = mt2 /\ stage' = "settle"
      BY <1>9, <1>11
    <2>3. InSettle'
      BY <1>1, <1>3, <1>4, <2>1, <2>2 DEF InSettle
    <2> QED BY <1>1, <2>2, <2>3
  <1>12. CASE p = 0 /\ k # n
    <2>1. DOMAIN shortest = 0 .. m
      BY <1>2 DEF InFlip
    <2>2. /\ mate' = [mt2 EXCEPT ![0] = k + 1] /\ row' = k + 1 /\ column' = p
          /\ visited' = {} /\ stage' = "search"
      BY <1>9, <1>12
    <2>3. PICK sh : sh = [j \in 0 .. m |-> {}]
      OBVIOUS
    <2>4. shortest' = sh /\ sh \in [0 .. m -> {{}}]
      BY <1>9, <1>12, <2>1, <2>3 DEF NoWay
    <2>5. Searching(n, m, c, k + 1, p, [mt2 EXCEPT ![0] = k + 1], pt, sh, {}, u, v)
      BY <1>8, <1>12, <2>4 DEF NextRow
    <2>6. InSearch'
      BY <1>1, <1>3, <1>4, <2>2, <2>4, <2>5 DEF InSearch
    <2> QED BY <1>1, <2>2, <2>6
  <1> QED BY <1>10, <1>11, <1>12

BandOpen ==
    /\ start < Depth /\ band # <<>> /\ remaining # <<>>
    /\ Enumerates(band, Len(band), BiddingAt(start))

TableGood ==
    /\ SolverRows \in Nat \ {0} /\ SolverColumns \in Nat /\ SolverRows <= SolverColumns
    /\ CostTable \in [1 .. SolverRows -> [1 .. SolverColumns -> Int]]

LEMMA SidesFace ==
    ASSUME CascadeProblem, Handed, AtABand, BandOpen
    PROVE  /\ SolverRows \in Nat \ {0} /\ SolverColumns \in Nat /\ SolverRows <= SolverColumns
           /\ Facing(IF Transposed THEN Untaken ELSE BiddingAt(start),
                     IF Transposed THEN BiddingAt(start) ELSE Untaken,
                     SolverRows, SolverColumns, Transposed)
           /\ Enumerates(SolverSide, SolverRows, IF Transposed THEN Untaken ELSE BiddingAt(start))
           /\ Enumerates(OtherSide, SolverColumns, IF Transposed THEN BiddingAt(start) ELSE Untaken)
  <1>1. PICK a, b : a = Len(band) /\ b = Len(remaining)
    OBVIOUS
  <1>2. Enumerates(band, a, BiddingAt(start)) /\ Enumerates(remaining, b, Untaken)
    BY <1>1 DEF BandOpen, Handed
  <1>3. a \in Nat /\ b \in Nat
    BY <1>2 DEF Enumerates
  <1>4. a # 0 /\ b # 0
    <2>1. BiddingAt(start) # {} /\ Untaken # {}
      BY <1>2, EnumeratedList DEF BandOpen
    <2>2. Cardinality(BiddingAt(start)) = a /\ IsFiniteSet(BiddingAt(start))
      BY <1>2, EnumeratedSize
    <2>3. Cardinality(Untaken) = b /\ IsFiniteSet(Untaken)
      BY <1>2, EnumeratedSize
    <2> QED BY <2>1, <2>2, <2>3, FS_EmptySet
  <1>5. CASE Transposed
    <2>1. a > b /\ SolverRows = b /\ SolverColumns = a /\ SolverSide = remaining /\ OtherSide = band
      BY <1>1, <1>5 DEF Transposed, SolverRows, SolverColumns, SolverSide, OtherSide
    <2> QED BY <1>2, <1>3, <1>4, <1>5, <2>1 DEF Facing, Transposed
  <1>6. CASE ~ Transposed
    <2>1. ~ (a > b) /\ SolverRows = a /\ SolverColumns = b /\ SolverSide = band /\ OtherSide = remaining
      BY <1>1, <1>6 DEF Transposed, SolverRows, SolverColumns, SolverSide, OtherSide
    <2> QED BY <1>2, <1>3, <1>4, <1>6, <2>1 DEF Facing, Transposed
  <1> QED BY <1>5, <1>6

LEMMA PairsArePaired ==
    \A i, j : PairAt(i, j) = Paired(SolverSide, OtherSide, i, j, Transposed)
  BY DEF PairAt, Paired, SolverSide, OtherSide

LEMMA PairsAreOffered ==
    ASSUME CascadeProblem, Handed, AtABand, BandOpen,
           NEW i \in 1 .. SolverRows, NEW j \in 1 .. SolverColumns
    PROVE  /\ PairAt(i, j) \in BiddingAt(start) \X Untaken
           /\ CostAt(i, j) = cost[PairAt(i, j)[1]][PairAt(i, j)[2]] /\ CostAt(i, j) \in Int
  <1>1. PairAt(i, j) \in BiddingAt(start) \X Untaken
    <2>1. CASE Transposed
      <3>1. OtherSide[j] \in BiddingAt(start) /\ SolverSide[i] \in Untaken
        BY <2>1, SidesFace DEF Enumerates
      <3> QED BY <2>1, <3>1, PairsArePaired DEF Paired
    <2>2. CASE ~ Transposed
      <3>1. SolverSide[i] \in BiddingAt(start) /\ OtherSide[j] \in Untaken
        BY <2>2, SidesFace DEF Enumerates
      <3> QED BY <2>2, <3>1, PairsArePaired DEF Paired
    <2> QED BY <2>1, <2>2
  <1>2. PICK r \in BiddingAt(start), e \in Untaken : PairAt(i, j) = <<r, e>>
    BY <1>1
  <1>3. r \in AllRows /\ e \in ToSet(offered)
    BY DEF BiddingAt, RowsOf, Untaken
  <1>4. CostAt(i, j) = cost[r][e]
    BY <1>2 DEF CostAt
  <1>5. cost[r][e] \in Int
    BY <1>3 DEF CascadeProblem
  <1> QED BY <1>1, <1>2, <1>4, <1>5

LEMMA TableIsGood == CascadeProblem /\ Handed /\ AtABand /\ BandOpen => TableGood
  <1> SUFFICES ASSUME CascadeProblem, Handed, AtABand, BandOpen PROVE TableGood
    OBVIOUS
  <1>1. SolverRows \in Nat \ {0} /\ SolverColumns \in Nat /\ SolverRows <= SolverColumns
    BY SidesFace
  <1>2. \A i \in 1 .. SolverRows, j \in 1 .. SolverColumns : CostAt(i, j) \in Int
    BY PairsAreOffered
  <1>3. CostTable \in [1 .. SolverRows -> [1 .. SolverColumns -> Int]]
    BY <1>2 DEF CostTable
  <1> QED BY <1>1, <1>3 DEF TableGood

(* The solve ends with an assignment of least cost.                          *)
LEMMA SettledIsLeast ==
    ASSUME CascadeProblem, Handed, AtABand, BandOpen, InSettle
    PROVE  Assigned \in Least(BiddingAt(start), Untaken)
  <1>1. PICK n, m, c : n = SolverRows /\ m = SolverColumns /\ c = CostTable
    OBVIOUS
  <1>2. PICK x, y, tall : x = SolverSide /\ y = OtherSide /\ tall = Transposed
    OBVIOUS
  <1>3. PICK X, Y : /\ X = IF Transposed THEN Untaken ELSE BiddingAt(start)
                    /\ Y = IF Transposed THEN BiddingAt(start) ELSE Untaken
    OBVIOUS
  <1>4. PICK score : score = [pair \in BiddingAt(start) \X Untaken |-> -cost[pair[1]][pair[2]]]
    OBVIOUS
  <1>5. Enumerates(x, n, X) /\ Enumerates(y, m, Y) /\ Facing(X, Y, n, m, tall)
    BY <1>1, <1>2, <1>3, SidesFace
  <1>6. Solved(n, m, c, mate, path, potentialRow, potentialColumn)
    BY <1>1 DEF InSettle
  <1>7. Scores(score, c, x, y, n, m, tall)
    <2> SUFFICES ASSUME NEW i \in 1 .. n, NEW j \in 1 .. m
                 PROVE  score[Paired(x, y, i, j, tall)] = - c[i][j]
      BY DEF Scores
    <2>1. /\ PairAt(i, j) \in BiddingAt(start) \X Untaken
          /\ CostAt(i, j) = cost[PairAt(i, j)[1]][PairAt(i, j)[2]]
      BY <1>1, PairsAreOffered
    <2>2. Paired(x, y, i, j, tall) = PairAt(i, j)
      BY <1>2, PairsArePaired
    <2>3. c[i][j] = CostAt(i, j)
      BY <1>1 DEF CostTable
    <2>4. score[PairAt(i, j)] = - CostAt(i, j)
      BY <1>4, <2>1
    <2> QED BY <2>2, <2>3, <2>4
  <1>8. Mated(x, y, mate, m, tall) \in Best(score, IF tall THEN Y ELSE X, IF tall THEN X ELSE Y)
    BY <1>5, <1>6, <1>7, MatesAreBest
  <1>9. Assigned = Mated(x, y, mate, m, tall)
    <2>1. \A i, j : PairAt(i, j) = Paired(x, y, i, j, tall)
      BY <1>2, PairsArePaired
    <2> QED BY <1>1, <2>1 DEF Assigned, Mated
  <1>10. (IF tall THEN Y ELSE X) = BiddingAt(start) /\ (IF tall THEN X ELSE Y) = Untaken
    BY <1>2, <1>3
  <1>11. Best(score, BiddingAt(start), Untaken) = Least(BiddingAt(start), Untaken)
    BY <1>4 DEF Least
  <1> QED BY <1>8, <1>9, <1>10, <1>11

Over == start >= Depth \/ remaining = <<>> \/ Cardinality(MatchedRows) = Cardinality(AllRows)

CascadeInv ==
    /\ CascadeProblem /\ AtABand
    /\ stage \in {"lock", "band", "search", "flip", "settle", "done"}
    /\ stage = "lock" => /\ locking /\ start = 0 /\ matches = {}
                         /\ Enumerates(remaining, Len(remaining), ToSet(offered))
    /\ stage # "lock" => Handed
    /\ stage \in {"search", "flip", "settle"} => BandOpen
    /\ stage = "search" => InSearch
    /\ stage = "flip" => InFlip
    /\ stage = "settle" => InSettle
    /\ stage = "done" => Over

LEMMA CascadeStarts == CascadeInit => CascadeInv
  <1> SUFFICES ASSUME CascadeInit PROVE CascadeInv
    OBVIOUS
  <1>1. PICK n \in 0 .. MaxRows, m \in 0 .. MaxColumns :
           /\ cost \in [1 .. n -> [1 .. m -> Costs]] /\ ages \in [1 .. n -> 0 .. MaxDepth]
           /\ offered = [j \in 1 .. m |-> j] /\ remaining = offered
           /\ locking \in BOOLEAN /\ (locking => \A r \in 1 .. n : ages[r] = 0)
           /\ stage = IF locking THEN "lock" ELSE "band"
           /\ start = 0 /\ matches = {}
    BY DEF CascadeInit
  <1>2. n \in Nat /\ m \in Nat
    BY <1>1, CascadeAssumption
  <1>3. AllRows = 1 .. n
    BY <1>1 DEF AllRows
  <1>4. Enumerates(offered, m, 1 .. m)
    BY <1>1, <1>2 DEF Enumerates
  <1>5. Len(offered) = m /\ ToSet(offered) = 1 .. m
    BY <1>4, EnumeratedList
  <1>6. IsFiniteSet(1 .. n) /\ IsFiniteSet(1 .. m)
    BY <1>2, FS_Interval
  <1>7. 1 .. n \subseteq Int /\ 1 .. m \subseteq Int
    BY <1>2
  <1>8. \A r \in 1 .. n, e \in 1 .. m : cost[r][e] \in Int
    BY <1>1, CascadeAssumption
  <1>9. CascadeProblem
    BY <1>1, <1>3, <1>5, <1>6, <1>7, <1>8 DEF CascadeProblem
  <1>10. AtABand
    <2>1. 0 % Stride = 0
      BY DepthType
    <2> QED BY <1>1, <2>1, DepthType DEF AtABand
  <1>11. ASSUME stage # "lock" PROVE Handed
    <2>1. Certain = {}
      BY <1>1, <1>11 DEF Certain
    <2>2. Untaken = ToSet(offered)
      BY <1>1 DEF Untaken
    <2>3. Enumerates(remaining, Len(remaining), Untaken)
      BY <1>1, <1>4, <1>5, <2>2
    <2>4. \A age \in Nat : ~ (age < start)
      BY <1>1
    <2> QED BY <1>1, <2>1, <2>3, <2>4 DEF Handed
  <1> QED BY <1>1, <1>4, <1>5, <1>9, <1>10, <1>11 DEF CascadeInv

(* What McByte locks is what has no rival.                                   *)
LEMMA ClearHaveNoRivals == CascadeProblem => ClearMatches = WithoutRivals
  <1> SUFFICES ASSUME CascadeProblem PROVE ClearMatches = WithoutRivals
    OBVIOUS
  <1>1. PICK R, C : R = AllRows /\ C = ToSet(offered)
    OBVIOUS
  <1>2. IsFiniteSet(R) /\ IsFiniteSet(C)
    BY <1>1 DEF CascadeProblem
  <1>3. ASSUME NEW r \in R, NEW e \in C, Affordable(r, e)
        PROVE  <<r, e>> \in ClearMatches <=> <<r, e>> \in WithoutRivals
    <2>1. PICK row1 : row1 = {h \in C : Affordable(r, h)}
      OBVIOUS
    <2>2. PICK column1 : column1 = {h \in R : Affordable(h, e)}
      OBVIOUS
    <2>3. IsFiniteSet(row1) /\ IsFiniteSet(column1)
      <3>1. row1 \in SUBSET C /\ column1 \in SUBSET R
        BY <2>1, <2>2
      <3> QED BY <1>2, <3>1, FS_Subset
    <2>4. Cardinality(row1) = 1 <=> row1 = {e}
      <3>1. e \in row1
        BY <1>3, <2>1
      <3> QED BY <2>3, <3>1, FS_Singleton
    <2>5. Cardinality(column1) = 1 <=> column1 = {r}
      <3>1. r \in column1
        BY <1>3, <2>2
      <3> QED BY <2>3, <3>1, FS_Singleton
    <2>6. <<r, e>> \in ClearMatches <=> Cardinality(row1) = 1 /\ Cardinality(column1) = 1
      BY <1>1, <1>3, <2>1, <2>2 DEF ClearMatches
    <2>7. PICK affordable : affordable = {pair \in R \X C : Affordable(pair[1], pair[2])}
      OBVIOUS
    <2>8. <<r, e>> \in WithoutRivals <=> \A q \in affordable \ {<<r, e>>} : r # q[1] /\ e # q[2]
      <3>1. <<r, e>> \in affordable
        BY <1>3, <2>7
      <3>2. WithoutRivals = {p \in affordable : \A q \in affordable \ {p} : p[1] # q[1] /\ p[2] # q[2]}
        BY <1>1, <2>7 DEF WithoutRivals
      <3> QED BY <3>1, <3>2
    <2>9. (\A q \in affordable \ {<<r, e>>} : r # q[1] /\ e # q[2])
             <=> (\A h \in R, k \in C : Affordable(h, k) /\ <<h, k>> # <<r, e>> => r # h /\ e # k)
      <3>1. ASSUME \A q \in affordable \ {<<r, e>>} : r # q[1] /\ e # q[2],
                   NEW h \in R, NEW k \in C, Affordable(h, k), <<h, k>> # <<r, e>>
            PROVE  r # h /\ e # k
        <4>1. <<h, k>> \in affordable \ {<<r, e>>} /\ <<h, k>>[1] = h /\ <<h, k>>[2] = k
          BY <2>7, <3>1
        <4> QED BY <3>1, <4>1
      <3>2. ASSUME \A h \in R, k \in C : Affordable(h, k) /\ <<h, k>> # <<r, e>> => r # h /\ e # k,
                   NEW q \in affordable \ {<<r, e>>}
            PROVE  r # q[1] /\ e # q[2]
        <4>1. PICK h \in R, k \in C : q = <<h, k>>
          BY <2>7
        <4>2. Affordable(h, k) /\ q[1] = h /\ q[2] = k
          BY <2>7, <4>1
        <4> QED BY <3>2, <4>1, <4>2
      <3> QED BY <3>1, <3>2
    <2>10. (\A h \in R, k \in C : Affordable(h, k) /\ <<h, k>> # <<r, e>> => r # h /\ e # k)
              <=> row1 = {e} /\ column1 = {r}
      <3>1. ASSUME row1 = {e}, column1 = {r}, NEW h \in R, NEW k \in C, Affordable(h, k),
                   <<h, k>> # <<r, e>>
            PROVE  r # h /\ e # k
        BY <2>1, <2>2, <3>1
      <3>2. ASSUME \A h \in R, k \in C : Affordable(h, k) /\ <<h, k>> # <<r, e>> => r # h /\ e # k
            PROVE  row1 = {e} /\ column1 = {r}
        <4>1. ASSUME NEW k \in row1 PROVE k = e
          BY <2>1, <3>2, <4>1
        <4>2. ASSUME NEW h \in column1 PROVE h = r
          BY <2>2, <3>2, <4>2
        <4>3. e \in row1 /\ r \in column1
          BY <1>3, <2>1, <2>2
        <4> QED BY <4>1, <4>2, <4>3
      <3> QED BY <3>1, <3>2
    <2> QED BY <2>4, <2>5, <2>6, <2>8, <2>9, <2>10
  <1>4. ASSUME NEW pair, pair \in ClearMatches \/ pair \in WithoutRivals
        PROVE  \E r \in R, e \in C : pair = <<r, e>> /\ Affordable(r, e)
    BY <1>1, <1>4 DEF ClearMatches, WithoutRivals
  <1>5. \A pair : pair \in ClearMatches <=> pair \in WithoutRivals
    BY <1>3, <1>4
  <1>6. ClearMatches \subseteq R \X C /\ WithoutRivals \subseteq R \X C
    BY <1>1 DEF ClearMatches, WithoutRivals
  <1> QED BY <1>5, <1>6

(* What is kept is what the pairs left, in its order.                        *)
LEMMA KeptIsLeft ==
    ASSUME NEW S, IsFiniteSet(S), S \subseteq Int, NEW pairs, NEW side, NEW rest,
           rest = S \ {pair[side] : pair \in pairs}
    PROVE  LET list == Kept(S, pairs, side) IN Enumerates(list, Len(list), rest)
  <1>1. IsFiniteSet(rest) /\ rest \subseteq Int
    BY FS_Subset
  <1>2. Kept(S, pairs, side) = Listed(rest)
    BY DEF Kept
  <1>3. Enumerates(Listed(rest), Cardinality(rest), rest)
    BY <1>1, ListedEnumerates
  <1>4. Len(Listed(rest)) = Cardinality(rest)
    BY <1>3, EnumeratedList
  <1> QED BY <1>2, <1>3, <1>4

LEMMA LockKeepsCascade == CascadeInv /\ LockClearMatches => CascadeInv'
  <1> SUFFICES ASSUME CascadeInv, LockClearMatches PROVE CascadeInv'
    OBVIOUS
  <1>1. /\ UNCHANGED problem /\ start' = start /\ stage = "lock" /\ stage' = "band"
        /\ matches' = ClearMatches /\ remaining' = Kept(ToSet(remaining), ClearMatches, 2)
    BY DEF LockClearMatches
  <1>2. /\ CascadeProblem /\ AtABand /\ locking /\ start = 0
        /\ Enumerates(remaining, Len(remaining), ToSet(offered))
    BY <1>1 DEF CascadeInv
  <1>3. CascadeProblem' /\ AtABand'
    BY <1>1, <1>2, SameProblem DEF AtABand, Depth
  <1>4. Certain' = ClearMatches
    <2>1. Certain = ClearMatches
      BY <1>2, ClearHaveNoRivals DEF Certain
    <2> QED BY <1>1, <2>1, SameProblem
  <1>5. matches' \subseteq AllRows' \X ToSet(offered)'
    BY <1>1, SameProblem DEF ClearMatches
  <1>6. Enumerates(remaining', Len(remaining'), Untaken')
    <2>1. PICK C : C = ToSet(offered)
      OBVIOUS
    <2>2. ToSet(remaining) = C /\ IsFiniteSet(C) /\ C \subseteq Int
      BY <1>2, <2>1, EnumeratedList DEF CascadeProblem
    <2>3. PICK pairs : pairs = ClearMatches
      OBVIOUS
    <2>4. PICK rest : rest = C \ {pair[2] : pair \in pairs}
      OBVIOUS
    <2>5. PICK list : list = Kept(C, pairs, 2)
      OBVIOUS
    <2>6. Enumerates(list, Len(list), rest)
      BY <2>2, <2>4, <2>5, KeptIsLeft
    <2>7. remaining' = list
      BY <1>1, <2>2, <2>3, <2>5
    <2>8. Untaken' = rest
      BY <1>1, <2>1, <2>3, <2>4, SameProblem DEF Untaken
    <2> QED BY <2>6, <2>7, <2>8
  <1>7. \A age \in Nat : ~ (age < start')
    BY <1>1, <1>2
  <1>8. Handed'
    BY <1>1, <1>4, <1>5, <1>6, <1>7 DEF Handed
  <1> QED BY <1>1, <1>3, <1>8 DEF CascadeInv

LEMMA NextIsCounted ==
    ASSUME AtABand, start < Depth, start' = start + Stride PROVE AtABand'
  <1>1. start \in Nat /\ start % Stride = 0 /\ Stride \in Nat \ {0} /\ Depth \in Nat
    BY DepthType DEF AtABand
  <1>2. start + Stride \in Nat /\ (start + Stride) - Stride = start
    BY <1>1
  <1>3. (start + Stride) % Stride = 0
    BY <1>1, NextStart
  <1>4. Depth' = Depth
    BY DEF Depth
  <1> QED BY <1>2, <1>3, <1>4 DEF AtABand

LEMMA SkipKeepsCascade == CascadeInv /\ SkipBand => CascadeInv'
  <1> SUFFICES ASSUME CascadeInv, SkipBand PROVE CascadeInv'
    OBVIOUS
  <1>1. /\ UNCHANGED <<problem, band, remaining, matches, stage>> /\ start' = start + Stride
        /\ stage = "band" /\ BandAt(start) = <<>> /\ start < Depth
    BY DEF SkipBand, Open, Depth
  <1>2. CascadeProblem /\ AtABand /\ Handed
    BY <1>1 DEF CascadeInv
  <1>3. BiddingAt(start) = {}
    <2>1. PICK S, rest : /\ S = {r \in AllRows : ages[r] >= start /\ ages[r] < start + Stride}
                         /\ rest = S \ {pair[1] : pair \in matches}
      OBVIOUS
    <2>2. IsFiniteSet(S) /\ S \subseteq Int
      BY <1>2, <2>1, FS_Subset DEF CascadeProblem
    <2>3. PICK list : list = Kept(S, matches, 1)
      OBVIOUS
    <2>4. Enumerates(list, Len(list), rest)
      BY <2>1, <2>2, <2>3, KeptIsLeft
    <2>5. list = <<>>
      BY <1>1, <2>1, <2>3 DEF BandAt
    <2>6. rest = {}
      BY <2>4, <2>5, EnumeratedList
    <2> QED BY <1>2, <2>1, <2>6, BandAtHand
  <1>4. {} \in Least(BiddingAt(start), LeftAt(start))
    <2>1. IsFiniteSet({}) /\ IsFiniteSet(LeftAt(start))
      BY <1>2, FS_EmptySet, FS_Subset DEF CascadeProblem, LeftAt
    <2> QED BY <1>3, <2>1, NothingToChoose
  <1>5. Handed'
    <2>1. {} = Evidence({})
      BY DEF Evidence
    <2>2. Enumerates(remaining', Len(remaining'), Untaken')
      <3>1. Untaken' = Untaken
        BY <1>1, SameProblem DEF Untaken
      <3> QED BY <1>1, <1>2, <3>1 DEF Handed
    <2>3. UNCHANGED problem /\ matches' = matches \cup {}
      BY <1>1
    <2> QED BY <1>1, <1>2, <1>4, <2>1, <2>2, <2>3, BandBehind
  <1>6. AtABand'
    BY <1>1, <1>2, NextIsCounted
  <1>7. CascadeProblem'
    BY <1>1, <1>2, SameProblem
  <1> QED BY <1>1, <1>5, <1>6, <1>7 DEF CascadeInv

LEMMA OpenKeepsCascade == CascadeInv /\ OpenBand => CascadeInv'
  <1> SUFFICES ASSUME CascadeInv, OpenBand PROVE CascadeInv'
    OBVIOUS
  <1>1. /\ UNCHANGED <<problem, start, remaining, matches>>
        /\ stage = "band" /\ stage' = "search" /\ BandAt(start) # <<>> /\ band' = BandAt(start)
        /\ start < Depth /\ remaining # <<>>
    BY DEF OpenBand, Open, Depth
  <1>2. CascadeProblem /\ AtABand /\ Handed
    BY <1>1 DEF CascadeInv
  <1>3. CascadeProblem' /\ AtABand' /\ Handed'
    <2>1. UNCHANGED problem
      BY <1>1
    <2> QED BY <1>1, <1>2, <2>1, SameProblem, HandedStays DEF AtABand, Depth
  <1>4. Enumerates(band', Len(band'), BiddingAt(start)')
    <2>1. PICK S, rest : /\ S = {r \in AllRows : ages[r] >= start /\ ages[r] < start + Stride}
                         /\ rest = S \ {pair[1] : pair \in matches}
      OBVIOUS
    <2>2. IsFiniteSet(S) /\ S \subseteq Int
      BY <1>2, <2>1, FS_Subset DEF CascadeProblem
    <2>3. PICK list : list = Kept(S, matches, 1)
      OBVIOUS
    <2>4. Enumerates(list, Len(list), rest)
      BY <2>1, <2>2, <2>3, KeptIsLeft
    <2>5. band' = list
      BY <1>1, <2>1, <2>3 DEF BandAt
    <2>6. BiddingAt(start) = rest
      BY <1>2, <2>1, BandAtHand
    <2>7. BiddingAt(start)' = BiddingAt(start)
      <3>1. PICK s : s = start
        OBVIOUS
      <3>2. BiddingAt(s)' = BiddingAt(s)
        BY <1>1, SameProblem
      <3> QED BY <1>1, <3>1, <3>2
    <2> QED BY <2>4, <2>5, <2>6, <2>7
  <1>5. BandOpen'
    BY <1>1, <1>4 DEF BandOpen, Depth
  <1>6. TableGood'
    <2>1. (CascadeProblem /\ Handed /\ AtABand /\ BandOpen => TableGood)'
      BY TableIsGood, PTL
    <2> QED BY <1>3, <1>5, <2>1
  <1>7. PICK n, m, c : n = SolverRows' /\ m = SolverColumns' /\ c = CostTable'
    OBVIOUS
  <1>8. n \in Nat \ {0} /\ m \in Nat /\ n <= m /\ c \in [1 .. n -> [1 .. m -> Int]]
    BY <1>6, <1>7 DEF TableGood
  <1>9. PICK mt, z, sh, u : /\ mt = [j \in 0 .. m |-> IF j = 0 THEN 1 ELSE 0]
                            /\ z = [j \in 0 .. m |-> 0] /\ sh = [j \in 0 .. m |-> {}]
                            /\ u = [i \in 0 .. n |-> 0]
    OBVIOUS
  <1>10. Searching(n, m, c, 1, 0, mt, z, sh, {}, u, z)
    BY <1>8, <1>9, OpenStarts
  <1>11. PICK a, b : a = Len(BandAt(start)) /\ b = Len(remaining)
    OBVIOUS
  <1>12. a \in Nat /\ b \in Nat
    BY <1>1, <1>2, <1>4, <1>11 DEF Enumerates, Handed
  <1>13. Max({a, b}) = m /\ Min({a, b}) = n
    <2>1. /\ n = IF a > b THEN b ELSE a
          /\ m = IF a > b THEN a ELSE b
      BY <1>1, <1>7, <1>11 DEF SolverRows, SolverColumns, Transposed
    <2>2. Max({a, b}) = IF a >= b THEN a ELSE b
      BY <1>12, LargestOfTwo
    <2>3. Min({a, b}) = IF a <= b THEN a ELSE b
      BY <1>12, SmallestOfTwo
    <2> QED BY <1>12, <2>1, <2>2, <2>3
  <1>14. /\ potentialRow' = [i \in 0 .. Min({a, b}) |-> 0]
         /\ potentialColumn' = [j \in 0 .. Max({a, b}) |-> 0]
         /\ mate' = [j \in 0 .. Max({a, b}) |-> IF j = 0 THEN 1 ELSE 0]
         /\ path' = [j \in 0 .. Max({a, b}) |-> 0]
         /\ shortest' = [j \in 0 .. Max({a, b}) |-> NoWay]
         /\ row' = 1 /\ column' = 0 /\ visited' = {}
    BY <1>11 DEF OpenBand
  <1>15. InSearch'
    <2>1. mate' = mt /\ path' = z /\ shortest' = sh /\ potentialRow' = u /\ potentialColumn' = z
      BY <1>9, <1>13, <1>14 DEF NoWay
    <2> QED BY <1>7, <1>10, <1>14, <2>1 DEF InSearch
  <1> QED BY <1>1, <1>3, <1>5, <1>15 DEF CascadeInv

LEMMA SolveKeepsCascade == CascadeInv /\ (Search \/ Flip) => CascadeInv'
  <1> SUFFICES ASSUME CascadeInv, Search \/ Flip PROVE CascadeInv'
    OBVIOUS
  <1>1. UNCHANGED <<problem, cascade>> /\ stage \in {"search", "flip"}
    BY DEF Search, Flip
  <1>2. UNCHANGED problem /\ start' = start /\ band' = band /\ remaining' = remaining /\ matches' = matches
    BY <1>1 DEF cascade
  <1>3. CascadeProblem /\ AtABand /\ Handed /\ BandOpen
    BY <1>1 DEF CascadeInv
  <1>4. CascadeProblem' /\ AtABand' /\ Handed'
    BY <1>2, <1>3, SameProblem, HandedStays DEF AtABand, Depth
  <1>5. BandOpen'
    <2>1. PICK s : s = start
      OBVIOUS
    <2>2. BiddingAt(s)' = BiddingAt(s)
      BY <1>2, SameProblem
    <2>3. BiddingAt(start)' = BiddingAt(start)
      BY <1>2, <2>1, <2>2
    <2> QED BY <1>2, <1>3, <2>3 DEF BandOpen, Depth
  <1>6. /\ stage' \in {"search", "flip", "settle"}
        /\ stage' = "search" => InSearch'
        /\ stage' = "flip" => InFlip'
        /\ stage' = "settle" => InSettle'
    <2>1. CASE Search
      <3>1. InSearch
        BY <2>1 DEF Search, CascadeInv
      <3> QED BY <2>1, <3>1, SearchStep
    <2>2. CASE Flip
      <3>1. InFlip
        BY <2>2 DEF Flip, CascadeInv
      <3> QED BY <2>2, <3>1, FlipStep
    <2> QED BY <2>1, <2>2
  <1> QED BY <1>4, <1>5, <1>6 DEF CascadeInv

LEMMA AssignedAreOffered ==
    ASSUME CascadeProblem, Handed, AtABand, BandOpen, InSettle
    PROVE  Assigned \subseteq BiddingAt(start) \X Untaken
  <1>1. PICK n, m, c : n = SolverRows /\ m = SolverColumns /\ c = CostTable
    OBVIOUS
  <1>2. Solved(n, m, c, mate, path, potentialRow, potentialColumn)
    BY <1>1 DEF InSettle
  <1>3. \A j \in 1 .. m : mate[j] # 0 => mate[j] \in 1 .. n
    BY <1>2, MatesCostLeast
  <1>4. ASSUME NEW j \in 1 .. m, mate[j] # 0 PROVE PairAt(mate[j], j) \in BiddingAt(start) \X Untaken
    <2>1. PICK i \in 1 .. n : i = mate[j]
      BY <1>3, <1>4
    <2>2. PairAt(i, j) \in BiddingAt(start) \X Untaken
      BY <1>1, PairsAreOffered
    <2> QED BY <2>1, <2>2
  <1> QED BY <1>1, <1>4 DEF Assigned

LEMMA SettleKeepsCascade == CascadeInv /\ Settle => CascadeInv'
  <1> SUFFICES ASSUME CascadeInv, Settle PROVE CascadeInv'
    OBVIOUS
  <1>1. /\ UNCHANGED problem /\ start' = start + Stride /\ stage = "settle" /\ stage' = "band"
        /\ matches' = matches \cup Evidence(Assigned)
        /\ remaining' = Kept(ToSet(remaining), Evidence(Assigned), 2)
    BY DEF Settle
  <1>2. CascadeProblem /\ AtABand /\ Handed /\ BandOpen /\ InSettle
    BY <1>1 DEF CascadeInv
  <1>3. PICK way, new : way = Assigned /\ new = Evidence(way)
    OBVIOUS
  <1>4. way \in Least(BiddingAt(start), LeftAt(start))
    BY <1>2, <1>3, SettledIsLeast, BandAtHand
  <1>5. new \subseteq BiddingAt(start) \X LeftAt(start)
    <2>1. new \subseteq way
      BY <1>3 DEF Evidence
    <2> QED BY <1>2, <1>3, <2>1, AssignedAreOffered, BandAtHand
  <1>6. matches' = matches \cup new
    BY <1>1, <1>3
  <1>7. Enumerates(remaining', Len(remaining'), Untaken')
    <2>1. PICK S, rest : S = Untaken /\ rest = S \ {pair[2] : pair \in new}
      OBVIOUS
    <2>2. IsFiniteSet(S) /\ S \subseteq Int
      BY <1>2, <2>1, FS_Subset DEF CascadeProblem, Untaken
    <2>3. ToSet(remaining) = S
      BY <1>2, <2>1, EnumeratedList DEF Handed
    <2>4. PICK list : list = Kept(S, new, 2)
      OBVIOUS
    <2>5. Enumerates(list, Len(list), rest)
      BY <2>1, <2>2, <2>4, KeptIsLeft
    <2>6. remaining' = list
      BY <1>1, <1>3, <2>3, <2>4
    <2>7. Untaken' = rest
      <3>1. Untaken' = ToSet(offered) \ {pair[2] : pair \in matches \cup new}
        BY <1>1, <1>6, SameProblem DEF Untaken
      <3> QED BY <2>1, <3>1 DEF Untaken
    <2> QED BY <2>5, <2>6, <2>7
  <1>8. Handed'
    BY <1>1, <1>2, <1>3, <1>4, <1>5, <1>6, <1>7, BandBehind
  <1>9. AtABand' /\ CascadeProblem'
    BY <1>1, <1>2, NextIsCounted, SameProblem DEF BandOpen
  <1> QED BY <1>1, <1>8, <1>9 DEF CascadeInv

LEMMA EndKeepsCascade == CascadeInv /\ (EndCascade \/ UNCHANGED association) => CascadeInv'
  <1> SUFFICES ASSUME CascadeInv, EndCascade \/ UNCHANGED association PROVE CascadeInv'
    OBVIOUS
  <1>1. UNCHANGED <<problem, cascade, solver>>
    BY DEF EndCascade, association
  <1>2. UNCHANGED problem /\ start' = start /\ band' = band /\ remaining' = remaining /\ matches' = matches
    BY <1>1 DEF cascade
  <1>3. /\ row' = row /\ column' = column /\ mate' = mate /\ path' = path /\ shortest' = shortest
        /\ visited' = visited /\ potentialRow' = potentialRow /\ potentialColumn' = potentialColumn
    BY <1>1 DEF solver
  <1>4. CascadeProblem' /\ AtABand' /\ (Handed => Handed')
    BY <1>2, SameProblem, HandedStays DEF CascadeInv, AtABand, Depth
  <1>5. CASE EndCascade
    <2>1. stage = "band" /\ stage' = "done" /\ Over
      BY <1>5 DEF EndCascade, Over, Depth
    <2>2. Over'
      <3>1. MatchedRows' = MatchedRows /\ AllRows' = AllRows
        BY <1>2, SameProblem DEF MatchedRows
      <3> QED BY <1>2, <2>1, <3>1 DEF Over, Depth
    <2> QED BY <1>4, <2>1, <2>2 DEF CascadeInv
  <1>6. CASE UNCHANGED association
    <2>1. stage' = stage
      BY <1>6 DEF association
    <2>2. SolverRows' = SolverRows /\ SolverColumns' = SolverColumns /\ CostTable' = CostTable
      BY <1>1, SameSolve
    <2>3. BandOpen => BandOpen'
      <3>1. PICK s : s = start
        OBVIOUS
      <3>2. BiddingAt(s)' = BiddingAt(s)
        BY <1>2, SameProblem
      <3>3. BiddingAt(start)' = BiddingAt(start)
        BY <1>2, <3>1, <3>2
      <3> QED BY <1>2, <3>3 DEF BandOpen, Depth
    <2>4. (InSearch => InSearch') /\ (InFlip => InFlip') /\ (InSettle => InSettle')
      BY <1>3, <2>2 DEF InSearch, InFlip, InSettle
    <2>5. Over => Over'
      <3>1. MatchedRows' = MatchedRows /\ AllRows' = AllRows
        BY <1>2, SameProblem DEF MatchedRows
      <3> QED BY <1>2, <3>1 DEF Over, Depth
    <2>6. ToSet(offered)' = ToSet(offered) /\ locking' = locking
      BY <1>2, SameProblem DEF problem
    <2> QED BY <1>2, <1>4, <2>1, <2>3, <2>4, <2>5, <2>6 DEF CascadeInv
  <1> QED BY <1>5, <1>6

LEMMA CascadeInvariant == CascadeSpec => []CascadeInv
  <1>1. CascadeInv /\ [CascadeNext]_association => CascadeInv'
    BY LockKeepsCascade, SkipKeepsCascade, OpenKeepsCascade, SolveKeepsCascade, SettleKeepsCascade,
       EndKeepsCascade DEF CascadeNext
  <1> QED BY <1>1, CascadeStarts, PTL DEF CascadeSpec

LEMMA BandsAheadGetNothing ==
    ASSUME CascadeProblem, Handed, AtABand, Over, NEW age \in Nat, age >= start, age % Stride = 0
    PROVE  /\ ChosenAt(age) = {}
           /\ age < Depth => ChoseWell(age)
  <1>1. LeftAt(age) = Untaken /\ ChosenAt(age) = {}
    BY BandAtHand
  <1>2. ASSUME age < Depth PROVE BiddingAt(age) = {} \/ LeftAt(age) = {}
    <2>1. start \in Nat /\ Depth \in Nat
      BY DepthType DEF AtABand
    <2>2. ~ (start >= Depth)
      BY <1>2, <2>1
    <2>3. CASE remaining = <<>>
      <3>1. Untaken = {}
        BY <2>3, EnumeratedList DEF Handed
      <3> QED BY <1>1, <3>1
    <2>4. CASE Cardinality(MatchedRows) = Cardinality(AllRows)
      <3>1. MatchedRows = AllRows
        <4>1. MatchedRows \in SUBSET AllRows /\ IsFiniteSet(AllRows)
          BY DEF MatchedRows, Handed, CascadeProblem
        <4> QED BY <2>4, <4>1, FS_Subset
      <3>2. ASSUME NEW r \in BiddingAt(age) PROVE FALSE
        <4>1. r \in AllRows /\ r \in RowsOf(age) /\ r \notin {pair[1] : pair \in Certain}
          BY DEF BiddingAt, RowsOf
        <4>2. PICK pair \in matches : pair[1] = r
          BY <3>1, <4>1 DEF MatchedRows
        <4>3. pair \notin Certain
          BY <4>1, <4>2
        <4>4. pair \in ChosenAt(age)
          BY <4>1, <4>2, <4>3 DEF ChosenAt
        <4> QED BY <1>1, <4>4
      <3> QED BY <3>2
    <2> QED BY <2>2, <2>3, <2>4 DEF Over
  <1>3. ASSUME age < Depth PROVE ChoseWell(age)
    <2>1. IsFiniteSet(BiddingAt(age)) /\ IsFiniteSet(LeftAt(age))
      BY FS_Subset DEF CascadeProblem, BiddingAt, RowsOf, LeftAt
    <2>2. {} \in Least(BiddingAt(age), LeftAt(age))
      BY <1>2, <1>3, <2>1, NothingToChoose
    <2>3. {} = Evidence({})
      BY DEF Evidence
    <2> QED BY <1>1, <2>2, <2>3 DEF ChoseWell
  <1> QED BY <1>1, <1>3

(* Every solve of the cascade returns an assignment of least total cost, and *)
(* the younger tracks choose first: each band's matches are a least          *)
(* assignment on what the bands before it and the locked pairs left, without *)
(* its pairs that cost too much (association.cpp: solve_assignment,          *)
(* matching_cascade; mcbyte/tracker.py: clear_matches).                      *)
THEOREM EveryBandChoosesWell == CascadeSpec => []BandsChooseInOrder
  <1>1. CascadeInv => BandsChooseInOrder
    <2> SUFFICES ASSUME CascadeInv PROVE BandsChooseInOrder
      OBVIOUS
    <2>1. ASSUME stage = "settle" PROVE Assigned \in Least(ToSet(band), ToSet(remaining))
      <3>1. CascadeProblem /\ AtABand /\ Handed /\ BandOpen /\ InSettle
        BY <2>1 DEF CascadeInv
      <3>2. ToSet(band) = BiddingAt(start) /\ ToSet(remaining) = Untaken
        BY <3>1, EnumeratedList DEF BandOpen, Handed
      <3> QED BY <3>1, <3>2, SettledIsLeast
    <2>2. ASSUME stage = "done"
          PROVE  /\ Certain \subseteq matches
                 /\ \A age \in {a \in 0 .. MaxDepth : a % Stride = 0} :
                       IF age < Depth THEN ChoseWell(age) ELSE ChosenAt(age) = {}
                 /\ ToSet(remaining) = Untaken
      <3>1. CascadeProblem /\ AtABand /\ Handed /\ Over
        BY <2>2 DEF CascadeInv
      <3>2. ToSet(remaining) = Untaken
        BY <3>1, EnumeratedList DEF Handed
      <3>3. ASSUME NEW age \in Nat, age % Stride = 0
            PROVE  IF age < Depth THEN ChoseWell(age) ELSE ChosenAt(age) = {}
        <4>1. start \in Nat /\ start % Stride = 0 /\ start - Stride < Depth /\ Depth \in Nat
              /\ Stride \in Nat \ {0}
          BY <3>1, DepthType DEF AtABand
        <4>2. CASE age >= start
          BY <3>1, <3>3, <4>2, BandsAheadGetNothing
        <4>3. CASE ~ (age >= start)
          <5>1. ~ (age > start - Stride)
            BY <3>3, <4>1, <4>3, BandsApart
          <5>2. age < Depth /\ age < start
            BY <4>1, <4>3, <5>1
          <5> QED BY <3>1, <3>3, <5>2 DEF Handed
        <4> QED BY <4>2, <4>3
      <3>4. \A age \in 0 .. MaxDepth : age \in Nat
        BY DepthType
      <3> QED BY <3>1, <3>2, <3>3, <3>4 DEF Handed
    <2> QED BY <2>1, <2>2 DEF BandsChooseInOrder, Certain, ChoseWell, ChosenAt, BiddingAt, LeftAt,
                              RowsOf, BeforeBand, Untaken, Depth
  <1> QED BY <1>1, CascadeInvariant, PTL

------------------------------------------------------------------------------
(* The matching of an evaluated frame.  An assignment that is best cannot be *)
(* bettered by giving one pair to each other at the expense of at most two   *)
(* others; the preference for what was matched before, and admissibility,    *)
(* are each worth more than what those two can lose.                         *)

(* Giving one member another partner, and its old partner to whoever had     *)
(* the new one.                                                              *)
Swapped(f, a, b) ==
    [x \in DOMAIN f |-> IF x = a THEN b ELSE IF f[x] = b THEN f[a] ELSE f[x]]

LEMMA SwappedIsInjective ==
    ASSUME NEW X, NEW Y, NEW f \in Injection(X, Y), NEW a \in X, NEW b \in Y, f[a] # b
    PROVE  Swapped(f, a, b) \in Injection(X, Y)
  <1>1. PICK g : g = Swapped(f, a, b)
    OBVIOUS
  <1>2. f \in [X -> Y] /\ \A x, y \in X : f[x] = f[y] => x = y
    BY DEF Injection, IsInjective
  <1>3. g \in [X -> Y]
        /\ \A x \in X : g[x] = IF x = a THEN b ELSE IF f[x] = b THEN f[a] ELSE f[x]
    BY <1>1, <1>2 DEF Swapped
  <1>4. ASSUME NEW x \in X, NEW y \in X, g[x] = g[y] PROVE x = y
    BY <1>2, <1>3, <1>4
  <1>5. g \in Injection(X, Y)
    BY <1>3, <1>4 DEF Injection, IsInjective
  <1> QED BY <1>1, <1>5

LEMMA ExchangedSum ==
    ASSUME NEW X, NEW v, NEW w, Summable(v, X), Summable(w, X), NEW a \in X, NEW l \in Nat,
           v[a] <= l, NEW E, E \subseteq X \ {a}, \A e, h \in E : e = h,
           \A e \in E : v[e] <= l /\ w[e] >= 0,
           \A x \in X \ {a} : x \notin E => w[x] = v[x]
    PROVE  SumFunctionOnSet(w, X) + 2 * l >= SumFunctionOnSet(v, X) + w[a]
  <1>1. PICK J : J = X \ {a}
    OBVIOUS
  <1>2. Summable(v, J) /\ Summable(w, J)
    BY <1>1, SummablePart
  <1>3. PICK sv \in Int, sw \in Int, jv \in Int, jw \in Int :
            /\ sv = SumFunctionOnSet(v, X) /\ sw = SumFunctionOnSet(w, X)
            /\ jv = SumFunctionOnSet(v, J) /\ jw = SumFunctionOnSet(w, J)
    BY <1>2, SumType
  <1>4. sv = jv + v[a] /\ sw = jw + w[a]
    BY <1>1, <1>3, SumAdd
  <1>5. v[a] \in Int /\ w[a] \in Int
    BY DEF Summable
  <1>6. CASE E = {}
    <2>1. jv = jw
      BY <1>1, <1>2, <1>3, <1>6, SumSame
    <2> QED BY <1>3, <1>4, <1>5, <2>1
  <1>7. CASE E # {}
    <2>1. PICK e \in E : TRUE
      BY <1>7
    <2>2. PICK K : K = J \ {e}
      OBVIOUS
    <2>3. e \in J /\ Summable(v, K) /\ Summable(w, K)
      BY <1>1, <1>2, <2>1, <2>2, SummablePart
    <2>4. PICK kv \in Int, kw \in Int : kv = SumFunctionOnSet(v, K) /\ kw = SumFunctionOnSet(w, K)
      BY <2>3, SumType
    <2>5. jv = kv + v[e] /\ jw = kw + w[e]
      BY <1>2, <1>3, <2>2, <2>3, <2>4, SumAdd
    <2>6. \A x \in K : v[x] = w[x]
      BY <1>1, <2>1, <2>2
    <2>7. kv = kw
      BY <2>3, <2>4, <2>6, SumSame
    <2>8. v[e] \in Int /\ w[e] \in Int /\ v[e] <= l /\ w[e] >= 0
      BY <2>1, <2>3, <1>2 DEF Summable
    <2> QED BY <1>3, <1>4, <1>5, <2>4, <2>5, <2>7, <2>8
  <1> QED BY <1>6, <1>7

(* The worth of a way, summed over the side that gets partners.              *)
LEMMA WorthByIndex ==
    ASSUME NEW X, IsFiniteSet(X), NEW b, \A x, y \in X : b[x] = b[y] => x = y,
           NEW score, \A x \in X : score[b[x]] \in Int,
           NEW v, \A x \in X : v[x] = score[b[x]], NEW way, way = {b[x] : x \in X}
    PROVE  Summable(v, X) /\ Worth(score, way) = SumFunctionOnSet(v, X)
  <1>1. PICK f : f = [pair \in way |-> score[pair]]
    OBVIOUS
  <1>2. Indexes(b, X, way)
    BY DEF Indexes
  <1>3. \A x \in X : f[b[x]] = score[b[x]]
    BY <1>1
  <1>4. Through(v, f, b, X)
    BY <1>3 DEF Through
  <1>5. Summable(v, X) /\ SumFunctionOnSet(f, way) = SumFunctionOnSet(v, X)
    BY <1>2, <1>4, SumByIndex
  <1>6. Worth(score, way) = SumFunctionOnSet(f, way)
    BY <1>1 DEF Worth, SumFunction
  <1> QED BY <1>5, <1>6

(* A pair of a member and its partner, in whichever order the sides are.     *)
Turned(flip, x, y) == IF flip THEN <<y, x>> ELSE <<x, y>>

AsPairs(flip, f, X) == {Turned(flip, x, f[x]) : x \in X}

LEMMA ExchangedInWay ==
    ASSUME NEW flip \in BOOLEAN, NEW X, IsFiniteSet(X), NEW Y, NEW score,
           \A x \in X, y \in Y : score[Turned(flip, x, y)] \in Nat,
           NEW f \in Injection(X, Y), NEW a \in X, NEW b \in Y, f[a] # b,
           NEW l \in Nat, \A x \in X : x = a \/ f[x] = b => score[Turned(flip, x, f[x])] <= l
    PROVE  \E g \in Injection(X, Y) :
              Worth(score, AsPairs(flip, g, X)) + 2 * l
                 >= Worth(score, AsPairs(flip, f, X)) + score[Turned(flip, a, b)]
  <1>1. PICK g : g = Swapped(f, a, b)
    OBVIOUS
  <1>2. g \in Injection(X, Y)
    BY <1>1, SwappedIsInjective
  <1>3. /\ f \in [X -> Y] /\ \A x, y \in X : f[x] = f[y] => x = y
        /\ g \in [X -> Y] /\ \A x, y \in X : g[x] = g[y] => x = y
    BY <1>2 DEF Injection, IsInjective
  <1>4. \A x \in X : g[x] = IF x = a THEN b ELSE IF f[x] = b THEN f[a] ELSE f[x]
    BY <1>1, <1>3 DEF Swapped
  <1>5. PICK p, q : /\ p = [x \in X |-> Turned(flip, x, f[x])]
                    /\ q = [x \in X |-> Turned(flip, x, g[x])]
    OBVIOUS
  <1>6. PICK v, w : v = [x \in X |-> score[p[x]]] /\ w = [x \in X |-> score[q[x]]]
    OBVIOUS
  <1>7. \A x \in X : v[x] \in Nat /\ w[x] \in Nat /\ score[p[x]] \in Int /\ score[q[x]] \in Int
    BY <1>3, <1>5, <1>6
  <1>8. (\A x, y \in X : p[x] = p[y] => x = y) /\ (\A x, y \in X : q[x] = q[y] => x = y)
    BY <1>5 DEF Turned
  <1>9. AsPairs(flip, f, X) = {p[x] : x \in X} /\ AsPairs(flip, g, X) = {q[x] : x \in X}
    BY <1>5 DEF AsPairs
  <1>10. Summable(v, X) /\ Worth(score, AsPairs(flip, f, X)) = SumFunctionOnSet(v, X)
    BY <1>6, <1>7, <1>8, <1>9, WorthByIndex
  <1>11. Summable(w, X) /\ Worth(score, AsPairs(flip, g, X)) = SumFunctionOnSet(w, X)
    BY <1>6, <1>7, <1>8, <1>9, WorthByIndex
  <1>12. PICK E : E = {x \in X \ {a} : f[x] = b}
    OBVIOUS
  <1>13. E \subseteq X \ {a} /\ \A e, h \in E : e = h
    BY <1>3, <1>12
  <1>14. v[a] <= l /\ \A e \in E : v[e] <= l /\ w[e] >= 0
    BY <1>5, <1>6, <1>7, <1>12
  <1>15. \A x \in X \ {a} : x \notin E => w[x] = v[x]
    BY <1>4, <1>5, <1>6, <1>12
  <1>16. w[a] = score[Turned(flip, a, b)]
    BY <1>4, <1>5, <1>6
  <1>17. SumFunctionOnSet(w, X) + 2 * l >= SumFunctionOnSet(v, X) + w[a]
    BY <1>10, <1>11, <1>13, <1>14, <1>15, ExchangedSum
  <1> QED BY <1>2, <1>10, <1>11, <1>16, <1>17

LEMMA Exchanged ==
    ASSUME NEW R, NEW C, IsFiniteSet(R), IsFiniteSet(C), NEW score,
           \A r \in R, c \in C : score[<<r, c>>] \in Nat,
           NEW way \in Ways(R, C), NEW a \in R, NEW b \in C, <<a, b>> \notin way,
           NEW l \in Nat, \A pair \in way : pair[1] = a \/ pair[2] = b => score[pair] <= l
    PROVE  \E other \in Ways(R, C) :
              Worth(score, other) + 2 * l >= Worth(score, way) + score[<<a, b>>]
  <1>1. CASE Cardinality(R) <= Cardinality(C)
    <2>1. Ways(R, C) = {AsPairs(FALSE, f, R) : f \in Injection(R, C)}
      BY <1>1 DEF Ways, AsPairs, Turned
    <2>2. PICK f \in Injection(R, C) : way = AsPairs(FALSE, f, R)
      BY <2>1
    <2>3. f \in [R -> C]
      BY DEF Injection
    <2>4. \A x \in R : <<x, f[x]>> \in way
      BY <2>2 DEF AsPairs, Turned
    <2>5. f[a] # b
      BY <2>4
    <2>6. \A x \in R : x = a \/ f[x] = b => score[Turned(FALSE, x, f[x])] <= l
      BY <2>4 DEF Turned
    <2>7. \A x \in R, y \in C : score[Turned(FALSE, x, y)] \in Nat
      <3>1. \A x \in R, y \in C : Turned(FALSE, x, y) = <<x, y>>
        BY DEF Turned
      <3> QED BY <3>1
    <2>8. \E g \in Injection(R, C) :
              Worth(score, AsPairs(FALSE, g, R)) + 2 * l
                 >= Worth(score, AsPairs(FALSE, f, R)) + score[Turned(FALSE, a, b)]
      BY <2>5, <2>6, <2>7, ExchangedInWay
    <2> QED BY <2>1, <2>2, <2>8 DEF Turned
  <1>2. CASE ~ (Cardinality(R) <= Cardinality(C))
    <2>1. Ways(R, C) = {AsPairs(TRUE, f, C) : f \in Injection(C, R)}
      BY <1>2 DEF Ways, AsPairs, Turned
    <2>2. PICK f \in Injection(C, R) : way = AsPairs(TRUE, f, C)
      BY <2>1
    <2>3. f \in [C -> R]
      BY DEF Injection
    <2>4. \A x \in C : <<f[x], x>> \in way
      BY <2>2 DEF AsPairs, Turned
    <2>5. f[b] # a
      BY <2>4
    <2>6. \A x \in C : x = b \/ f[x] = a => score[Turned(TRUE, x, f[x])] <= l
      BY <2>4 DEF Turned
    <2>7. \A x \in C, y \in R : score[Turned(TRUE, x, y)] \in Nat
      <3>1. \A x \in C, y \in R : Turned(TRUE, x, y) = <<y, x>>
        BY DEF Turned
      <3> QED BY <3>1
    <2>8. \E g \in Injection(C, R) :
              Worth(score, AsPairs(TRUE, g, C)) + 2 * l
                 >= Worth(score, AsPairs(TRUE, f, C)) + score[Turned(TRUE, b, a)]
      BY <2>5, <2>6, <2>7, ExchangedInWay
    <2> QED BY <2>1, <2>2, <2>8 DEF Turned
  <1> QED BY <1>1, <1>2

(* Nobody has two partners.                                                  *)
OneToOne(pairs) == \A p, q \in pairs : p[1] = q[1] \/ p[2] = q[2] => p = q

LEMMA WaysAreOneToOne ==
    ASSUME NEW R, NEW C, NEW way \in Ways(R, C)
    PROVE  way \subseteq R \X C /\ OneToOne(way)
  <1>1. CASE Cardinality(R) <= Cardinality(C)
    <2>1. PICK f \in Injection(R, C) : way = {<<r, f[r]>> : r \in R}
      BY <1>1 DEF Ways
    <2>2. f \in [R -> C] /\ \A x, y \in R : f[x] = f[y] => x = y
      BY DEF Injection, IsInjective
    <2> QED BY <2>1, <2>2 DEF OneToOne
  <1>2. CASE ~ (Cardinality(R) <= Cardinality(C))
    <2>1. PICK f \in Injection(C, R) : way = {<<f[c], c>> : c \in C}
      BY <1>2 DEF Ways
    <2>2. f \in [C -> R] /\ \A x, y \in C : f[x] = f[y] => x = y
      BY DEF Injection, IsInjective
    <2> QED BY <2>1, <2>2 DEF OneToOne
  <1> QED BY <1>1, <1>2

LEMMA GreatestOfFinite ==
    ASSUME NEW I, IsFiniteSet(I), I \subseteq Int, I # {}
    PROVE  Max(I) \in I /\ \A x \in I : x <= Max(I)
  <1>1. PICK J : J = {-x : x \in I}
    OBVIOUS
  <1>2. PICK f : f = [x \in I |-> -x]
    OBVIOUS
  <1>3. f \in Surjection(I, J)
    BY <1>1, <1>2 DEF Surjection
  <1>4. IsFiniteSet(J) /\ J \subseteq Int /\ J # {}
    BY <1>1, <1>3, FS_Surjection
  <1>5. PICK m \in J : \A y \in J : m <= y
    BY <1>4, LeastOfFinite
  <1>6. PICK a \in I : m = -a
    BY <1>1, <1>5
  <1>7. ASSUME NEW x \in I PROVE x <= a
    <2>1. -x \in J /\ x \in Int /\ a \in Int
      BY <1>1
    <2>2. m <= -x
      BY <1>5, <2>1
    <2> QED BY <1>6, <2>1, <2>2
  <1>8. Max(I) = a
    BY <1>7, GreatestIs
  <1> QED BY <1>7, <1>8

LEMMA BestIsMost ==
    ASSUME NEW R, NEW C, IsFiniteSet(R), IsFiniteSet(C), NEW score,
           \A pair \in R \X C : score[pair] \in Int,
           NEW way \in Best(score, R, C), NEW other \in Ways(R, C)
    PROVE  /\ way \in Ways(R, C) /\ Worth(score, way) \in Int /\ Worth(score, other) \in Int
           /\ Worth(score, other) <= Worth(score, way)
  <1>1. ASSUME NEW w \in Ways(R, C) PROVE Worth(score, w) \in Int
    <2>1. w \subseteq R \X C
      BY WaysAreOneToOne
    <2>2. IsFiniteSet(w)
      BY <2>1, FS_Product, FS_Subset
    <2>3. PICK f : f = [pair \in w |-> score[pair]]
      OBVIOUS
    <2>4. Summable(f, w)
      BY <2>1, <2>2, <2>3 DEF Summable
    <2>5. SumFunctionOnSet(f, w) \in Int
      BY <2>4, SumType
    <2> QED BY <2>3, <2>5 DEF Worth, SumFunction
  <1>2. PICK worths : worths = {Worth(score, w) : w \in Ways(R, C)}
    OBVIOUS
  <1>3. IsFiniteSet(Ways(R, C))
    <2>1. Ways(R, C) \subseteq SUBSET (R \X C)
      BY WaysAreOneToOne
    <2>2. IsFiniteSet(SUBSET (R \X C))
      BY FS_Product, FS_SUBSET
    <2> QED BY <2>1, <2>2, FS_Subset
  <1>4. IsFiniteSet(worths)
    <2>1. PICK f : f = [w \in Ways(R, C) |-> Worth(score, w)]
      OBVIOUS
    <2>2. f \in Surjection(Ways(R, C), worths)
      BY <1>2, <2>1 DEF Surjection
    <2> QED BY <1>3, <2>2, FS_Surjection
  <1>5. Worth(score, other) \in worths /\ worths \subseteq Int
    BY <1>1, <1>2
  <1>6. Worth(score, other) <= Max(worths)
    BY <1>4, <1>5, GreatestOfFinite
  <1>7. way \in Ways(R, C) /\ Worth(score, way) = Max(worths)
    BY <1>2 DEF Best
  <1> QED BY <1>1, <1>6, <1>7

Halves(similarity, R, C) == similarity \in [R \X C -> 0 .. 2]

Favoured(pair, previous) == pair[1] \in DOMAIN previous /\ previous[pair[1]] = pair[2]

LEMMA SidesOfPairs ==
    ASSUME NEW R, NEW C, R # {}, C # {}, NEW f, DOMAIN f = R \X C
    PROVE  RowIds(f) = R /\ ColumnIds(f) = C
  <1>1. PICK a \in R : TRUE
    OBVIOUS
  <1>2. PICK b \in C : TRUE
    OBVIOUS
  <1>3. \A r \in R : <<r, b>> \in R \X C
    BY <1>2
  <1>4. \A c \in C : <<a, c>> \in R \X C
    BY <1>1
  <1>5. RowIds(f) = R
    <2>1. \A r \in R : r = (<<r, b>>)[1]
      OBVIOUS
    <2>2. \A pair \in R \X C : pair[1] \in R
      OBVIOUS
    <2>3. RowIds(f) = {pair[1] : pair \in R \X C}
      BY DEF RowIds
    <2> QED BY <1>3, <2>1, <2>2, <2>3
  <1>6. ColumnIds(f) = C
    <2>1. \A c \in C : c = (<<a, c>>)[2]
      OBVIOUS
    <2>2. \A pair \in R \X C : pair[2] \in C
      OBVIOUS
    <2>3. ColumnIds(f) = {pair[2] : pair \in R \X C}
      BY DEF ColumnIds
    <2> QED BY <1>4, <2>1, <2>2, <2>3
  <1> QED BY <1>5, <1>6

LEMMA BonusIsEnough ==
    ASSUME NEW R, NEW C, IsFiniteSet(R), IsFiniteSet(C), R # {}, C # {}, NEW f, DOMAIN f = R \X C
    PROVE  Bonus(f) \in Nat /\ Bonus(f) >= 4
  <1>1. PICK m, n : m = Cardinality(R) /\ n = Cardinality(C)
    OBVIOUS
  <1>2. m \in Nat /\ n \in Nat /\ m # 0 /\ n # 0
    BY <1>1, FS_CardinalityType, FS_EmptySet
  <1>3. PICK k : k = Min({m, n})
    OBVIOUS
  <1>4. k \in Nat /\ k >= 1
    BY <1>2, <1>3, SmallestOfTwo
  <1>5. Bonus(f) = 2 * (1 + k)
    BY <1>1, <1>3, SidesOfPairs DEF Bonus
  <1> QED BY <1>4, <1>5

LEMMA WhatPairsAreWorth ==
    ASSUME NEW R, NEW C, IsFiniteSet(R), IsFiniteSet(C), R # {}, C # {},
           NEW similarity, Halves(similarity, R, C), NEW previous,
           NEW score, score = Preference(similarity, previous)
    PROVE  /\ DOMAIN score = R \X C
           /\ \A pair \in R \X C :
                 /\ score[pair] \in Nat
                 /\ score[pair] > 0 <=> similarity[pair] >= 1
                 /\ ~ Favoured(pair, previous) => score[pair] <= 2
                 /\ Favoured(pair, previous) /\ similarity[pair] >= 1 => score[pair] >= 5
  <1>1. DOMAIN similarity = R \X C /\ \A pair \in R \X C : similarity[pair] \in 0 .. 2
    BY DEF Halves
  <1>2. PICK bonus : bonus = Bonus(similarity)
    OBVIOUS
  <1>3. bonus \in Nat /\ bonus >= 4
    BY <1>1, <1>2, BonusIsEnough
  <1>4. score = [pair \in R \X C |->
                    IF similarity[pair] < 1 THEN 0
                    ELSE similarity[pair] + IF Favoured(pair, previous) THEN bonus ELSE 0]
    BY <1>1, <1>2 DEF Preference, Threshold, Favoured
  <1>5. DOMAIN score = R \X C
    BY <1>4
  <1>6. ASSUME NEW pair \in R \X C
        PROVE  /\ score[pair] \in Nat
               /\ score[pair] > 0 <=> similarity[pair] >= 1
               /\ ~ Favoured(pair, previous) => score[pair] <= 2
               /\ Favoured(pair, previous) /\ similarity[pair] >= 1 => score[pair] >= 5
    <2>1. score[pair] = IF similarity[pair] < 1 THEN 0
                        ELSE similarity[pair] + IF Favoured(pair, previous) THEN bonus ELSE 0
      BY <1>4
    <2>2. PICK s \in 0 .. 2 : s = similarity[pair]
      BY <1>1
    <2>3. CASE Favoured(pair, previous)
      BY <1>3, <2>1, <2>2, <2>3
    <2>4. CASE ~ Favoured(pair, previous)
      BY <1>3, <2>1, <2>2, <2>4
    <2> QED BY <2>3, <2>4
  <1> QED BY <1>5, <1>6

(* What a frame's matches are, of the pairs of its two sides.                *)
WellMatched(way, R, C, similarity) ==
    /\ way \subseteq R \X C /\ OneToOne(way)
    /\ \A pair \in R \X C :
          similarity[pair] >= 1 => \E match \in way : match[1] = pair[1] \/ match[2] = pair[2]

LEMMA MatchingPrefers ==
    ASSUME NEW R, NEW C, IsFiniteSet(R), IsFiniteSet(C), R # {}, C # {},
           NEW similarity, Halves(similarity, R, C), NEW previous,
           \A a, b \in DOMAIN previous : previous[a] = previous[b] => a = b,
           NEW way \in MatchPreferring(similarity, previous)
    PROVE  /\ WellMatched(way, R, C, similarity)
           /\ \A pair \in R \X C :
                 Favoured(pair, previous) /\ similarity[pair] >= 1 => pair \in way
  <1>1. PICK score : score = Preference(similarity, previous)
    OBVIOUS
  <1>2. /\ DOMAIN score = R \X C
        /\ \A pair \in R \X C :
              /\ score[pair] \in Nat
              /\ score[pair] > 0 <=> similarity[pair] >= 1
              /\ ~ Favoured(pair, previous) => score[pair] <= 2
              /\ Favoured(pair, previous) /\ similarity[pair] >= 1 => score[pair] >= 5
    BY <1>1, WhatPairsAreWorth
  <1>3. PICK whole \in Best(score, R, C) : way = {pair \in whole : score[pair] > 0}
    <2>1. RowIds(score) = R /\ ColumnIds(score) = C
      BY <1>2, SidesOfPairs
    <2>2. way \in SolveMaximum(score)
      BY <1>1 DEF MatchPreferring
    <2> QED BY <2>1, <2>2 DEF SolveMaximum
  <1>4. whole \in Ways(R, C)
    BY <1>3 DEF Best
  <1>5. whole \subseteq R \X C /\ OneToOne(whole)
    BY <1>4, WaysAreOneToOne
  <1>6. ASSUME NEW a \in R, NEW b \in C, <<a, b>> \notin whole, NEW l \in Nat,
               \A pair \in whole : pair[1] = a \/ pair[2] = b => score[pair] <= l
        PROVE  score[<<a, b>>] <= 2 * l
    <2>1. \A r \in R, c \in C : score[<<r, c>>] \in Nat
      BY <1>2
    <2>2. PICK other \in Ways(R, C) :
              Worth(score, other) + 2 * l >= Worth(score, whole) + score[<<a, b>>]
      BY <1>4, <1>6, <2>1, Exchanged
    <2>3. /\ Worth(score, whole) \in Int /\ Worth(score, other) \in Int
          /\ Worth(score, other) <= Worth(score, whole)
      BY <1>2, <1>3, BestIsMost
    <2>4. score[<<a, b>>] \in Nat
      BY <2>1
    <2> QED BY <2>2, <2>3, <2>4
  <1>7. ASSUME NEW a \in R, NEW b \in C, Favoured(<<a, b>>, previous), similarity[<<a, b>>] >= 1
        PROVE  <<a, b>> \in way
    <2>1. score[<<a, b>>] \in Nat /\ score[<<a, b>>] >= 5
      BY <1>2, <1>7
    <2>2. ASSUME NEW pair \in whole, pair[1] = a \/ pair[2] = b, <<a, b>> \notin whole
          PROVE  score[pair] <= 2
      <3>1. pair \in R \X C /\ pair # <<a, b>>
        BY <1>5, <2>2
      <3>2. ~ Favoured(pair, previous)
        BY <1>7, <2>2, <3>1 DEF Favoured
      <3> QED BY <1>2, <3>1, <3>2
    <2>3. <<a, b>> \in whole
      BY <1>6, <2>1, <2>2
    <2> QED BY <1>3, <2>1, <2>3
  <1>8. ASSUME NEW a \in R, NEW b \in C, similarity[<<a, b>>] >= 1
        PROVE  \E match \in way : match[1] = a \/ match[2] = b
    <2>1. score[<<a, b>>] \in Nat /\ score[<<a, b>>] > 0
      BY <1>2, <1>8
    <2>2. SUFFICES ASSUME \A match \in way : match[1] # a /\ match[2] # b PROVE FALSE
      OBVIOUS
    <2>3. <<a, b>> \notin whole
      BY <1>3, <2>1, <2>2
    <2>4. ASSUME NEW pair \in whole, pair[1] = a \/ pair[2] = b PROVE score[pair] <= 0
      BY <1>2, <1>3, <1>5, <2>2, <2>4
    <2>5. score[<<a, b>>] <= 2 * 0
      BY <1>6, <2>3, <2>4
    <2> QED BY <2>1, <2>5
  <1>9. way \subseteq R \X C /\ OneToOne(way)
    BY <1>3, <1>5 DEF OneToOne
  <1> QED BY <1>7, <1>8, <1>9 DEF WellMatched

------------------------------------------------------------------------------
(* A frame as it is aligned.                                                 *)
IsAligned(f) ==
    /\ f.scored \in SUBSET Pedestrians /\ f.predicted \in SUBSET Predictions
    /\ Halves(f.overlap, f.scored, f.predicted)

LEMMA SidesAreFinite ==
    ASSUME NEW f, IsAligned(f)
    PROVE  IsFiniteSet(f.scored) /\ IsFiniteSet(f.predicted)
  BY EvaluationAssumption, FS_Subset DEF IsAligned

LEMMA AlignedFramesAre == \A f \in AlignedFrames : IsAligned(f)
  <1>1. ASSUME NEW boxes \in ObjectFrames(Objects), NEW output \in ObjectFrames(Predictions),
               NEW f \in Align(boxes, output)
        PROVE  IsAligned(f)
    <2>1. PICK truth : truth = Of(boxes, Pedestrians)
      OBVIOUS
    <2>2. PICK predicted \in DropPredictionsMatching(output, Of(boxes, Distractors),
                                                     Of(boxes, Pedestrians \cup Unscored)) :
              f = [scored |-> DOMAIN boxes \cap Pedestrians, predicted |-> DOMAIN predicted,
                   overlap |-> Similarity(truth, predicted)]
      BY <1>1, <2>1 DEF Align
    <2>3. DOMAIN truth = DOMAIN boxes \cap Pedestrians
      BY <2>1 DEF Of, Restrict
    <2>4. DOMAIN output \subseteq Predictions
      BY DEF ObjectFrames
    <2>5. DOMAIN predicted \subseteq DOMAIN output
      <3>1. CASE DOMAIN output = {} \/ DOMAIN Of(boxes, Distractors) = {}
        BY <2>2, <3>1 DEF DropPredictionsMatching
      <3>2. CASE ~ (DOMAIN output = {} \/ DOMAIN Of(boxes, Distractors) = {})
        <4>1. \E gone : predicted = Restrict(output, DOMAIN output \ gone)
          BY <2>2, <3>2 DEF DropPredictionsMatching
        <4> QED BY <4>1 DEF Restrict
      <3> QED BY <3>1, <3>2
    <2>6. Halves(Similarity(truth, predicted), DOMAIN truth, DOMAIN predicted)
      BY DEF Halves, Similarity
    <2> QED BY <2>2, <2>3, <2>4, <2>5, <2>6 DEF IsAligned
  <1> QED BY <1>1 DEF AlignedFrames

(* What clear_counts remembers of a frame's matches are those matches.       *)
LEMMA MatesRemembered ==
    ASSUME NEW way, OneToOne(way), NEW c, NEW frame, NEW mates,
           mates = ClearFrame(c, frame, way).matchedPrevious
    PROVE  /\ \A pair \in way : Favoured(pair, mates)
           /\ \A a, b \in DOMAIN mates : mates[a] = mates[b] => a = b
  <1>1. mates = [id \in {pair[1] : pair \in way} |-> (CHOOSE p \in way : p[1] = id)[2]]
    BY DEF ClearFrame
  <1>2. \A id \in DOMAIN mates : \E p \in way : p[1] = id /\ mates[id] = p[2]
    <2> TAKE id \in DOMAIN mates
    <2>1. \E p \in way : p[1] = id
      BY <1>1
    <2>2. PICK p : p = CHOOSE q \in way : q[1] = id
      OBVIOUS
    <2>3. p \in way /\ p[1] = id
      BY <2>1, <2>2
    <2> QED BY <1>1, <2>2, <2>3
  <1>3. ASSUME NEW pair \in way PROVE Favoured(pair, mates)
    <2>1. pair[1] \in DOMAIN mates
      BY <1>1
    <2>2. PICK p \in way : p[1] = pair[1] /\ mates[pair[1]] = p[2]
      BY <1>2, <2>1
    <2>3. p = pair
      BY <2>2 DEF OneToOne
    <2> QED BY <2>1, <2>2, <2>3 DEF Favoured
  <1>4. ASSUME NEW a \in DOMAIN mates, NEW b \in DOMAIN mates, mates[a] = mates[b]
        PROVE  a = b
    <2>1. PICK p \in way : p[1] = a /\ mates[a] = p[2]
      BY <1>2
    <2>2. PICK q \in way : q[1] = b /\ mates[b] = q[2]
      BY <1>2
    <2>3. p = q
      BY <1>4, <2>1, <2>2 DEF OneToOne
    <2> QED BY <2>1, <2>2, <2>3
  <1> QED BY <1>3, <1>4

LEMMA CountsAddUp ==
    ASSUME NEW fs, NEW n \in Nat, DOMAIN fs = 1 .. n, NEW side,
           \A t \in 1 .. n : IsFiniteSet(fs[t][side])
    PROVE  Detections(fs, side) \in Nat
  <1>1. PICK sizes : sizes = [t \in DOMAIN fs |-> Cardinality(fs[t][side])]
    OBVIOUS
  <1>2. PICK I : I = 1 .. n
    OBVIOUS
  <1>3. IsFiniteSet(I)
    BY <1>2, FS_Interval
  <1>4. ASSUME NEW t \in I PROVE sizes[t] \in Nat
    <2>1. PICK those : those = fs[t][side]
      OBVIOUS
    <2>2. IsFiniteSet(those) /\ sizes[t] = Cardinality(those)
      BY <1>1, <1>2, <2>1
    <2>3. Cardinality(those) \in Nat
      BY <2>2, FS_CardinalityType
    <2> QED BY <2>2, <2>3
  <1>5. PICK none : none = [t \in I |-> 0]
    OBVIOUS
  <1>6. Summable(sizes, I) /\ Summable(none, I) /\ \A t \in I : none[t] = 0 /\ none[t] <= sizes[t]
    BY <1>3, <1>4, <1>5 DEF Summable
  <1>7. PICK s \in Int, z \in Int : s = SumFunctionOnSet(sizes, I) /\ z = SumFunctionOnSet(none, I)
    BY <1>6, SumType
  <1>8. z = 0 /\ z <= s
    BY <1>6, <1>7, SumOfNothing, SumBelow
  <1>9. Detections(fs, side) = s
    BY <1>1, <1>2, <1>7 DEF Detections, SumFunction
  <1> QED BY <1>7, <1>8, <1>9

Records ==
    [sequence : Nat, scored : SUBSET Pedestrians, predicted : SUBSET Predictions,
     overlap : UNION {[pairs -> 0 .. 2] : pairs \in SUBSET (Pedestrians \X Predictions)},
     matches : SUBSET (Pedestrians \X Predictions)]

EvaluationTypes ==
    /\ frames \in Seq(Records) /\ totals.sequences \in Nat
    /\ DOMAIN clear = {"state", "length"} /\ "matchedPrevious" \in DOMAIN clear.state

KeptFrame(f, now) ==
    /\ IsAligned(f) /\ f.sequence <= now
    /\ TwoSided(f) => WellMatched(f.matches, f.scored, f.predicted, f.overlap)

Injects(previous) == \A a, b \in DOMAIN previous : previous[a] = previous[b] => a = b

Latest(u) == TwoSided(frames[u]) /\ \A v \in u + 1 .. Len(frames) : ~ TwoSided(frames[v])

(* What CLEAR prefers is what it matched last in the sequence at hand.       *)
Remembers ==
    /\ Injects(clear.state.matchedPrevious)
    /\ \A u \in DOMAIN frames : frames[u].sequence = Current /\ Latest(u) =>
          \A pair \in frames[u].matches : Favoured(pair, clear.state.matchedPrevious)

EvaluationInv ==
    /\ EvaluationTypes /\ (\A t \in DOMAIN frames : KeptFrame(frames[t], Current))
    /\ Remembers /\ MatchesPersist

LEMMA EvaluationStarts == EvaluationInit => EvaluationInv
  <1> SUFFICES ASSUME EvaluationInit PROVE EvaluationInv
    OBVIOUS
  <1>1. /\ frames = <<>> /\ DOMAIN frames = {} /\ totals.sequences = 0
        /\ clear = [state |-> ClearStart, length |-> 0]
    BY DEF EvaluationInit
  <1>2. ClearStart.matchedPrevious = <<>> /\ "matchedPrevious" \in DOMAIN ClearStart
    BY DEF ClearStart
  <1>3. EvaluationTypes
    BY <1>1, <1>2 DEF EvaluationTypes
  <1>4. Remembers
    BY <1>1, <1>2 DEF Remembers, Injects
  <1>5. MatchesPersist
    BY <1>1 DEF MatchesPersist
  <1> QED BY <1>1, <1>3, <1>4, <1>5 DEF EvaluationInv

(* A frame that is stored, whatever there was to match in it.                *)
WellStored(frame, kept, previous) ==
    /\ kept \in SUBSET (Pedestrians \X Predictions)
    /\ Injects(previous)
    /\ TwoSided(frame) =>
          /\ WellMatched(kept, frame.scored, frame.predicted, frame.overlap)
          /\ \A pair \in Admissible(frame) :
                Favoured(pair, clear.state.matchedPrevious) => pair \in kept
          /\ \A pair \in kept : Favoured(pair, previous)
    /\ ~ TwoSided(frame) => previous = clear.state.matchedPrevious

LEMMA StoreKeeps ==
    ASSUME EvaluationInv, NEW frame, IsAligned(frame), NEW kept, NEW state,
           "matchedPrevious" \in DOMAIN state, WellStored(frame, kept, state.matchedPrevious),
           Store(frame, kept, state), UNCHANGED totals
    PROVE  EvaluationInv'
  <1>1. PICK e : e = [sequence |-> Current, scored |-> frame.scored,
                      predicted |-> frame.predicted, overlap |-> frame.overlap,
                      matches |-> kept]
    OBVIOUS
  <1>2. PICK n \in Nat : n = Len(frames)
    BY DEF EvaluationInv, EvaluationTypes
  <1>3. e \in Records
    <2>1. Current \in Nat
      BY DEF EvaluationInv, EvaluationTypes, Current
    <2>2. frame.scored \in SUBSET Pedestrians /\ frame.predicted \in SUBSET Predictions
          /\ frame.overlap \in [frame.scored \X frame.predicted -> 0 .. 2]
      BY DEF IsAligned, Halves
    <2>3. frame.overlap \in UNION {[pairs -> 0 .. 2] : pairs \in SUBSET (Pedestrians \X Predictions)}
      BY <2>2
    <2>4. kept \in SUBSET (Pedestrians \X Predictions)
      BY DEF WellStored
    <2> QED BY <1>1, <2>1, <2>2, <2>3, <2>4 DEF Records
  <1>4. frames \in Seq(Records) /\ DOMAIN frames = 1 .. n
    BY <1>2 DEF EvaluationInv, EvaluationTypes
  <1>5. frames' = Append(frames, e)
    BY <1>1 DEF Store
  <1>6. /\ frames' \in Seq(Records) /\ DOMAIN frames' = 1 .. n + 1 /\ Len(frames') = n + 1
        /\ (\A t \in 1 .. n : frames'[t] = frames[t]) /\ frames'[n + 1] = e
    BY <1>2, <1>3, <1>4, <1>5
  <1>7. clear' = [state |-> state, length |-> clear.length + 1] /\ Current' = Current
    BY DEF Store, Current
  <1>8. clear'.state.matchedPrevious = state.matchedPrevious
    BY <1>7
  <1>9. EvaluationTypes'
    BY <1>6, <1>7 DEF EvaluationInv, EvaluationTypes
  <1>10. /\ e.scored = frame.scored /\ e.predicted = frame.predicted /\ e.overlap = frame.overlap
         /\ e.matches = kept /\ e.sequence = Current
    BY <1>1
  <1>11. (TwoSided(e) <=> TwoSided(frame)) /\ Admissible(e) = Admissible(frame) /\ IsAligned(e)
    BY <1>10 DEF TwoSided, Admissible, IsAligned
  <1>12. KeptFrame(e, Current)
    <2>1. e.sequence <= Current
      BY <1>10 DEF Current, EvaluationInv, EvaluationTypes
    <2> QED BY <2>1, <1>10, <1>11 DEF KeptFrame, WellStored
  <1>13. ASSUME NEW t \in 1 .. n + 1 PROVE KeptFrame(frames'[t], Current')
    BY <1>4, <1>6, <1>7, <1>12 DEF EvaluationInv
  <1>14. Remembers'
    <2>1. ASSUME NEW u \in 1 .. n + 1, frames'[u].sequence = Current, Latest(u)',
                 NEW pair \in frames'[u].matches
          PROVE  Favoured(pair, state.matchedPrevious)
      <3>1. TwoSided(frames'[u]) /\ \A v \in u + 1 .. n + 1 : ~ TwoSided(frames'[v])
        BY <1>6, <2>1 DEF Latest
      <3>2. CASE u = n + 1
        BY <1>6, <1>10, <1>11, <2>1, <3>1, <3>2 DEF WellStored
      <3>3. CASE u # n + 1
        <4>1. u \in 1 .. n /\ frames'[u] = frames[u] /\ n + 1 \in u + 1 .. n + 1
          BY <1>6, <3>3
        <4>2. ~ TwoSided(frame)
          BY <1>6, <1>11, <3>1, <4>1
        <4>3. Latest(u)
          BY <1>2, <1>6, <3>1, <4>1 DEF Latest
        <4>4. Favoured(pair, clear.state.matchedPrevious)
          BY <1>4, <2>1, <4>1, <4>3 DEF EvaluationInv, Remembers
        <4> QED BY <4>2, <4>4 DEF WellStored
      <3> QED BY <3>2, <3>3
    <2>2. Injects(state.matchedPrevious)
      BY DEF WellStored
    <2> QED BY <1>6, <1>7, <1>8, <2>1, <2>2 DEF Remembers, Injects
  <1>15. MatchesPersist'
    <2>1. ASSUME NEW t \in 1 .. n + 1, TwoSided(frames'[t]),
                 NEW u \in 1 .. n + 1, Precedes(u, t)'
          PROVE  frames'[u].matches \cap Admissible(frames'[t]) \subseteq frames'[t].matches
      <3>1. /\ u < t /\ frames'[u].sequence = frames'[t].sequence /\ TwoSided(frames'[u])
            /\ \A v \in u + 1 .. t - 1 : ~ TwoSided(frames'[v])
        BY <2>1 DEF Precedes
      <3>2. u \in 1 .. n /\ frames'[u] = frames[u]
        BY <1>6, <3>1
      <3>3. CASE t = n + 1
        <4>1. Latest(u)
          BY <1>2, <1>6, <3>1, <3>2, <3>3 DEF Latest
        <4>2. \A pair \in frames[u].matches : Favoured(pair, clear.state.matchedPrevious)
          BY <1>4, <1>6, <1>10, <3>1, <3>2, <3>3, <4>1 DEF EvaluationInv, Remembers
        <4>3. TwoSided(frame) /\ frames'[t].matches = kept
              /\ Admissible(frames'[t]) = Admissible(frame)
          BY <1>6, <1>10, <1>11, <2>1, <3>3
        <4> QED BY <3>2, <4>2, <4>3 DEF WellStored
      <3>4. CASE t # n + 1
        <4>1. t \in 1 .. n /\ frames'[t] = frames[t]
          BY <1>6, <3>4
        <4>2. Precedes(u, t)
          BY <1>6, <3>1, <3>2, <4>1 DEF Precedes
        <4> QED BY <1>4, <2>1, <3>2, <4>1, <4>2 DEF EvaluationInv, MatchesPersist
      <3> QED BY <3>3, <3>4
    <2>2. ASSUME NEW t \in 1 .. n + 1, TwoSided(frames'[t]), NEW pair \in Admissible(frames'[t])
          PROVE  \E match \in frames'[t].matches : match[1] = pair[1] \/ match[2] = pair[2]
      <3>1. KeptFrame(frames'[t], Current)
        BY <1>4, <1>6, <1>12 DEF EvaluationInv
      <3>2. PICK f : f = frames'[t]
        OBVIOUS
      <3>3. WellMatched(f.matches, f.scored, f.predicted, f.overlap) /\ IsAligned(f)
        BY <2>2, <3>1, <3>2 DEF KeptFrame
      <3>4. pair \in f.scored \X f.predicted /\ f.overlap[pair] >= 1
        BY <2>2, <3>2, <3>3 DEF Admissible, Threshold, IsAligned, Halves
      <3> QED BY <3>2, <3>3, <3>4 DEF WellMatched
    <2> QED BY <1>6, <2>1, <2>2 DEF MatchesPersist
  <1> QED BY <1>6, <1>9, <1>13, <1>14, <1>15 DEF EvaluationInv

(* A frame the evaluation may be given is an aligned one.                    *)
LEMMA FrameGiven ==
    ASSUME EvaluationInv, NEW left,
           left = MaxBoxes - totals.sequences
                     - Detections(frames, "scored") - Detections(frames, "predicted"),
           left >= 0, NEW frame \in FramesWithin[left]
    PROVE  IsAligned(frame)
  <1>1. PICK n \in Nat : n = Len(frames) /\ DOMAIN frames = 1 .. n
    BY DEF EvaluationInv, EvaluationTypes
  <1>2. \A t \in 1 .. n : IsAligned(frames[t])
    BY <1>1 DEF EvaluationInv, KeptFrame
  <1>3. \A t \in 1 .. n : IsFiniteSet(frames[t].scored) /\ IsFiniteSet(frames[t].predicted)
    BY <1>2, SidesAreFinite
  <1>4. PICK a \in Nat, b \in Nat :
            a = Detections(frames, "scored") /\ b = Detections(frames, "predicted")
    BY <1>1, <1>3, CountsAddUp
  <1>5. totals.sequences \in Nat /\ MaxBoxes \in Nat
    BY EvaluationAssumption DEF EvaluationInv, EvaluationTypes
  <1>6. left \in 0 .. MaxBoxes
    BY <1>4, <1>5
  <1>7. frame \in AlignedFrames
    BY <1>6 DEF FramesWithin
  <1> QED BY <1>7, AlignedFramesAre

LEMMA EvaluateFrameKeeps == EvaluationInv /\ EvaluateFrame => EvaluationInv'
  <1> SUFFICES ASSUME EvaluationInv, EvaluateFrame PROVE EvaluationInv'
    OBVIOUS
  <1>1. PICK left : left = MaxBoxes - totals.sequences
                     - Detections(frames, "scored") - Detections(frames, "predicted")
    OBVIOUS
  <1>2. PICK frame \in FramesWithin[left] :
            IF frame.scored = {} /\ frame.predicted = {}
            THEN clear' = [clear EXCEPT !.length = @ + 1] /\ UNCHANGED frames
            ELSE IF ~ TwoSided(frame) THEN Store(frame, {}, ClearOneSided(clear.state, frame))
            ELSE \E way \in MatchPreferring(frame.overlap, Preferred(clear.state, frame)) :
                    Store(frame, way, ClearFrame(clear.state, frame, way))
    BY <1>1 DEF EvaluateFrame
  <1>3. left >= 0 /\ UNCHANGED totals
    BY <1>1 DEF EvaluateFrame
  <1>4. IsAligned(frame)
    BY <1>1, <1>2, <1>3, FrameGiven
  <1>5. /\ Injects(clear.state.matchedPrevious) /\ "matchedPrevious" \in DOMAIN clear.state
        /\ DOMAIN clear = {"state", "length"}
    BY DEF EvaluationInv, EvaluationTypes, Remembers
  <1>6. CASE frame.scored = {} /\ frame.predicted = {}
    <2>1. clear' = [clear EXCEPT !.length = @ + 1] /\ UNCHANGED frames
      BY <1>2, <1>6
    <2>2. DOMAIN clear' = {"state", "length"} /\ clear'.state = clear.state
      BY <1>5, <2>1
    <2>3. Current' = Current /\ (\A u : Latest(u)' <=> Latest(u))
          /\ (\A u, t : Precedes(u, t)' <=> Precedes(u, t))
      BY <1>3, <2>1 DEF Current, Latest, Precedes
    <2>4. EvaluationTypes'
      BY <1>3, <2>1, <2>2 DEF EvaluationInv, EvaluationTypes
    <2>5. Remembers'
      BY <2>1, <2>2, <2>3 DEF EvaluationInv, Remembers
    <2>6. MatchesPersist'
      BY <2>1, <2>3 DEF EvaluationInv, MatchesPersist
    <2> QED BY <2>1, <2>3, <2>4, <2>5, <2>6 DEF EvaluationInv
  <1>7. CASE ~ (frame.scored = {} /\ frame.predicted = {}) /\ ~ TwoSided(frame)
    <2>1. PICK state : state = ClearOneSided(clear.state, frame)
      OBVIOUS
    <2>2. state.matchedPrevious = clear.state.matchedPrevious
          /\ "matchedPrevious" \in DOMAIN state
      BY <1>5, <2>1 DEF ClearOneSided
    <2>3. Store(frame, {}, state)
      BY <1>2, <1>7, <2>1
    <2>4. WellStored(frame, {}, state.matchedPrevious)
      BY <1>5, <1>7, <2>2 DEF WellStored
    <2> QED BY <1>3, <1>4, <2>2, <2>3, <2>4, StoreKeeps
  <1>8. CASE TwoSided(frame)
    <2>1. PICK previous : previous = clear.state.matchedPrevious
      OBVIOUS
    <2>2. PICK preferred : preferred = Preferred(clear.state, frame)
      OBVIOUS
    <2>3. preferred = [id \in frame.scored \cap DOMAIN previous |-> previous[id]]
      BY <2>1, <2>2 DEF Preferred, Restrict
    <2>4. PICK way \in MatchPreferring(frame.overlap, preferred) :
              Store(frame, way, ClearFrame(clear.state, frame, way))
      BY <1>2, <1>8, <2>2 DEF TwoSided
    <2>5. \A a, b \in DOMAIN preferred : preferred[a] = preferred[b] => a = b
      BY <1>5, <2>1, <2>3 DEF Injects
    <2>6. /\ WellMatched(way, frame.scored, frame.predicted, frame.overlap)
          /\ \A pair \in frame.scored \X frame.predicted :
                Favoured(pair, preferred) /\ frame.overlap[pair] >= 1 => pair \in way
      BY <1>4, <1>8, <2>4, <2>5, SidesAreFinite, MatchingPrefers DEF IsAligned, TwoSided
    <2>7. OneToOne(way) /\ way \subseteq frame.scored \X frame.predicted
      BY <2>6 DEF WellMatched
    <2>8. PICK state : state = ClearFrame(clear.state, frame, way)
      OBVIOUS
    <2>9. "matchedPrevious" \in DOMAIN state
      BY <2>8 DEF ClearFrame
    <2>10. /\ \A pair \in way : Favoured(pair, state.matchedPrevious)
           /\ Injects(state.matchedPrevious)
      BY <2>7, <2>8, MatesRemembered DEF Injects
    <2>11. ASSUME NEW pair \in Admissible(frame), Favoured(pair, previous)
           PROVE  pair \in way
      <3>1. pair \in frame.scored \X frame.predicted /\ frame.overlap[pair] >= 1
        BY <1>4, <2>11 DEF Admissible, Threshold, IsAligned, Halves
      <3>2. Favoured(pair, preferred)
        BY <2>3, <2>11, <3>1 DEF Favoured
      <3> QED BY <2>6, <3>1, <3>2
    <2>12. way \in SUBSET (Pedestrians \X Predictions)
      BY <1>4, <2>7 DEF IsAligned
    <2>13. WellStored(frame, way, state.matchedPrevious)
      BY <1>8, <2>1, <2>6, <2>10, <2>11, <2>12 DEF WellStored
    <2> QED BY <1>3, <1>4, <2>4, <2>8, <2>9, <2>13, StoreKeeps
  <1> QED BY <1>6, <1>7, <1>8 DEF TwoSided

LEMMA EndSequenceKeeps == EvaluationInv /\ EndSequence => EvaluationInv'
  <1> SUFFICES ASSUME EvaluationInv, EndSequence PROVE EvaluationInv'
    OBVIOUS
  <1>1. /\ clear' = [state |-> ClearStart, length |-> 0] /\ UNCHANGED frames
        /\ totals'.sequences = Current
    BY DEF EndSequence
  <1>2. Current \in Nat /\ Current' = Current + 1
    BY <1>1 DEF Current, EvaluationInv, EvaluationTypes
  <1>3. /\ clear'.state.matchedPrevious = <<>> /\ DOMAIN clear' = {"state", "length"}
        /\ "matchedPrevious" \in DOMAIN clear'.state
    BY <1>1 DEF ClearStart
  <1>4. EvaluationTypes'
    BY <1>1, <1>2, <1>3 DEF EvaluationInv, EvaluationTypes
  <1>5. \A t \in DOMAIN frames : frames[t].sequence \in Nat /\ frames[t].sequence <= Current
    <2> TAKE t \in DOMAIN frames
    <2>1. frames \in Seq(Records)
      BY DEF EvaluationInv, EvaluationTypes
    <2>2. frames[t] \in Records
      BY <2>1
    <2>3. frames[t].sequence \in Nat
      BY <2>2 DEF Records
    <2> QED BY <2>3 DEF EvaluationInv, KeptFrame
  <1>6. \A t \in DOMAIN frames' : KeptFrame(frames'[t], Current')
    BY <1>1, <1>2, <1>5 DEF EvaluationInv, KeptFrame
  <1>7. Remembers'
    BY <1>1, <1>2, <1>3, <1>5 DEF Remembers, Injects
  <1>8. MatchesPersist'
    BY <1>1 DEF EvaluationInv, MatchesPersist, Precedes
  <1> QED BY <1>4, <1>6, <1>7, <1>8 DEF EvaluationInv

(* A match lasts as long as it is admissible, and no admissible pair is left *)
(* with both of its sides free: in every frame of every sequence with        *)
(* something to match, for any objects, identities and boxes, whatever the   *)
(* frames without anything on one side in between (clear.py match_preferring *)
(* and association.py's bonus).                                              *)
THEOREM MatchesAlwaysPersist == EvaluationSpec => []MatchesPersist
  <1>1. EvaluationInv /\ [EvaluationNext]_evaluation => EvaluationInv'
    <2>1. CASE EvaluateFrame
      BY <2>1, EvaluateFrameKeeps
    <2>2. CASE EndSequence
      BY <2>2, EndSequenceKeeps
    <2>3. CASE UNCHANGED evaluation
      BY <2>3 DEF evaluation, EvaluationInv, EvaluationTypes, Remembers, MatchesPersist,
                  Precedes, Latest, Current
    <2> QED BY <2>1, <2>2, <2>3 DEF EvaluationNext
  <1>2. EvaluationInv => MatchesPersist
    BY DEF EvaluationInv
  <1> QED BY <1>1, <1>2, EvaluationStarts, PTL DEF EvaluationSpec

------------------------------------------------------------------------------
(* The image workspace, for any number of threads, staging slots and calls:  *)
(* the instance has one user, and what a call writes are its own pixels.     *)
(* The second needs the first, and an account of the stream: the bytes every *)
(* piece of work in it is going to find when its turn comes.                 *)
(* ---------------------------------------------------------------- the claim *)

Places == {"idle", "elsewhere", "lock", "claim", "take", "compare"} \cup Inside

ClaimTypes ==
    /\ owner \in Workers \cup {NoThread}
    /\ holder \in Workers \cup {NoThread}
    /\ at \in [Workers -> Places]

(* Whoever looks again has the lock, and finds what he saw when he writes.   *)
LockCovers ==
    \A t \in Workers :
        /\ at[t] \in {"claim", "take"} => holder = t
        /\ at[t] = "take" => owner = NoThread

ClaimInv == ClaimTypes /\ LockCovers /\ OneOwner

(* NoThread is nobody.                                                       *)
LEMMA NobodyIsNoThread == \A t \in Workers : t # NoThread
BY WorkspaceAssumption

(* What the steps of a call do after the claim does not touch it.            *)
LEMMA ClaimUndisturbed ==
    ASSUME ClaimInv, NEW t \in Workers, owner' = owner, holder' = holder,
           at[t] \notin {"claim", "take"},
           NEW place \in Places, at' = [at EXCEPT ![t] = place],
           place \notin {"claim", "take"},
           place \in Inside => owner = t
    PROVE  ClaimInv'
BY DEF ClaimInv, ClaimTypes, LockCovers, OneOwner

(* Every step keeps the instance with one thread, and the lock covers the    *)
(* second look and the writing of the owner (_claim_thread).                 *)
LEMMA ClaimPreserved == ClaimInv /\ [WorkspaceNext]_workspace => ClaimInv'
<1> SUFFICES ASSUME ClaimInv, [WorkspaceNext]_workspace PROVE ClaimInv'
    OBVIOUS
<1> USE NobodyIsNoThread
<1>1. CASE UNCHANGED workspace
    BY <1>1 DEF workspace, ClaimInv, ClaimTypes, LockCovers, OneOwner
<1>2. CASE Work
    BY <1>2 DEF Work, ClaimInv, ClaimTypes, LockCovers, OneOwner
<1>3. ASSUME NEW t \in Workers, Lock(t) PROVE ClaimInv'
    BY <1>3 DEF Lock, Go, Places, Inside, ClaimInv, ClaimTypes, LockCovers, OneOwner
<1>4. ASSUME NEW t \in Workers, Claim(t) PROVE ClaimInv'
    BY <1>4 DEF Claim, MayClaim, Go, Places, Inside, ClaimInv, ClaimTypes, LockCovers, OneOwner
<1>5. ASSUME NEW t \in Workers, Take(t) PROVE ClaimInv'
    BY <1>5 DEF Take, Go, Places, Inside, ClaimInv, ClaimTypes, LockCovers, OneOwner
<1>6. ASSUME NEW t \in Workers, Call(t) PROVE ClaimInv'
    <2>1. at[t] = "idle" /\ owner' = owner /\ holder' = holder
        BY <1>6 DEF Call
    <2>2. PICK place \in {"elsewhere", "lock", "compare"} : at' = [at EXCEPT ![t] = place]
        <3> DEFINE place == CASE backend # "native" -> "elsewhere"
                              [] owner = NoThread -> "lock"
                              [] OTHER -> "compare"
        <3>1. at' = [at EXCEPT ![t] = place]
            BY <1>6 DEF Call, Go
        <3>2. place \in {"elsewhere", "lock", "compare"}
            OBVIOUS
        <3> QED
            BY <3>1, <3>2
    <2> QED
        BY <2>1, <2>2, ClaimUndisturbed DEF Places, Inside
<1>7. ASSUME NEW t \in Workers, Elsewhere(t) PROVE ClaimInv'
    BY <1>7, ClaimUndisturbed DEF Elsewhere, Go, Places, Inside
<1>8. ASSUME NEW t \in Workers, Compare(t) PROVE ClaimInv'
    <2>1. at[t] = "compare" /\ owner' = owner /\ holder' = holder
        BY <1>8 DEF Compare
    <2>2. PICK place \in {"check", "idle"} :
              at' = [at EXCEPT ![t] = place] /\ (place = "check" => owner = t)
        BY <1>8 DEF Compare, Go
    <2> QED
        BY <2>1, <2>2, ClaimUndisturbed DEF Places, Inside
<1>9. ASSUME NEW t \in Workers, Check(t) \/ Acquire(t) \/ Fill(t) \/ Launch(t) \/ Download(t)
      PROVE  ClaimInv'
    <2>1. at[t] \in Inside /\ owner = t
        BY <1>9 DEF Check, Acquire, Fill, Launch, Download, Inside, ClaimInv, OneOwner
    <2>2. owner' = owner /\ holder' = holder
        BY <1>9 DEF Check, Acquire, Fill, Launch, Download
    <2>3. PICK place \in Inside \cup {"idle"} : at' = [at EXCEPT ![t] = place]
        BY <1>9 DEF Check, Acquire, Fill, Launch, Download, Go, Inside
    <2> QED
        BY <2>1, <2>2, <2>3, ClaimUndisturbed DEF Places, Inside
<1> QED
    BY <1>1, <1>2, <1>3, <1>4, <1>5, <1>6, <1>7, <1>8, <1>9 DEF WorkspaceNext

LEMMA ClaimInitially == WorkspaceInit => ClaimInv
BY DEF WorkspaceInit, Places, Inside, ClaimInv, ClaimTypes, LockCovers, OneOwner

(* Nobody gets past the claim but the one thread the instance belongs to:    *)
(* NativeImageOps._claim_thread, for any number of threads.                  *)
THEOREM ClaimedByOne == WorkspaceSpec => []OneOwner
<1>1. ClaimInv => OneOwner
    BY DEF ClaimInv
<1> QED
    BY <1>1, ClaimInitially, ClaimPreserved, PTL DEF WorkspaceSpec

(* The instance serves one thread for its life: once claimed, it never       *)
(* changes hands.                                                            *)
THEOREM ClaimedForLife == WorkspaceSpec => [][owner # NoThread => owner' = owner]_workspace
<1>1. ClaimInv /\ [WorkspaceNext]_workspace => [owner # NoThread => owner' = owner]_workspace
    BY DEF WorkspaceNext, Call, Elsewhere, Lock, Claim, Take, Compare, Check, Acquire, Fill,
           Launch, Download, Work, workspace, ClaimInv, LockCovers
<1> QED
    BY <1>1, ClaimInitially, ClaimPreserved, PTL DEF WorkspaceSpec

(* --------------------------------------------------------------- the stream *)

CallsAtHand == [call : Nat, op : Operations, flaw : Flaws, slot : 0 .. Slots]

Works == [op : {"upload", "kernel", "event", "download"}, call : Nat,
          slot : 1 .. Slots, into : BOOLEAN]

RingTypes ==
    /\ issued \in Nat
    /\ cursor \in 1 .. Slots
    /\ ring \in [1 .. Slots -> [pinned : Nat, device : Nat, event : Nat]]
    /\ scratch \in [output : Nat, download : Nat]
    /\ stream \in Seq(Works)
    /\ job \in [Workers -> CallsAtHand \cup {<<>>}]
    /\ \A t \in Workers :
          /\ at[t] # "idle" => job[t] \in CallsAtHand
          /\ at[t] \in {"fill", "launch", "download"} => job[t].slot \in 1 .. Slots

(* A kernel comes between its upload and its event, and its pixels are where *)
(* it or its upload will read them.                                          *)
KernelsFindTheirs ==
    \A i \in DOMAIN stream : stream[i].op = "kernel" =>
        LET w == stream[i]
        IN /\ i < Len(stream)
           /\ stream[i + 1].op = "event" /\ stream[i + 1].slot = w.slot
           /\ ring[w.slot].pinned = w.call
           /\ i = 1 => ring[w.slot].device = w.call
           /\ i > 1 => /\ stream[i - 1].op = "upload" /\ stream[i - 1].slot = w.slot

(* An event in the stream is the one its slot waits for.                     *)
EventsAreAwaited ==
    \A i \in DOMAIN stream :
        stream[i].op = "event" => ring[stream[i].slot].event = stream[i].call

(* A download is the last of the stream, behind its kernel, while its caller *)
(* waits.                                                                    *)
DownloadsFindTheirs ==
    /\ \A i \in DOMAIN stream : stream[i].op = "download" =>
          /\ i = Len(stream)
          /\ \E t \in Workers : at[t] = "download"
          /\ i <= 2 => scratch.output = stream[i].call
          /\ i > 1 => stream[i - 1].op = "event"
          /\ i > 2 => /\ stream[i - 2].op = "kernel" /\ ~stream[i - 2].into
                      /\ stream[i - 2].call = stream[i].call
    /\ \A t \in Workers : at[t] = "download" =>
          IF stream = <<>> THEN scratch.download = job[t].call
          ELSE /\ stream[Len(stream)].op = "download"
               /\ stream[Len(stream)].call = job[t].call

(* The slot a call has acquired is free, and has its pixels once filled.     *)
AcquiredIsFree ==
    \A t \in Workers : at[t] \in {"fill", "launch"} =>
        /\ \A i \in DOMAIN stream : stream[i].op = "event" => stream[i].slot # job[t].slot
        /\ at[t] = "launch" => ring[job[t].slot].pinned = job[t].call

StreamInv == /\ KernelsFindTheirs
             /\ EventsAreAwaited
             /\ DownloadsFindTheirs
             /\ AcquiredIsFree

IInv == ClaimInv /\ RingTypes /\ StreamInv /\ PixelsAreTheCalls

(* Two threads are never past the claim at once.                             *)
LEMMA SoleInside ==
    ASSUME ClaimInv, NEW t \in Workers, NEW u \in Workers, at[t] \in Inside, at[u] \in Inside
    PROVE  t = u
BY DEF ClaimInv, OneOwner

(* ------------------------------------------------------ the types are kept *)

LEMMA RingTypesQuiet ==
    ASSUME ClaimTypes, RingTypes, NEW t \in Workers, NEW place \in Places,
           at' = [at EXCEPT ![t] = place], UNCHANGED <<issued, ring, cursor, stream, scratch, job>>,
           at[t] # "idle", place \notin {"fill", "launch", "download"}
    PROVE  RingTypes'
BY DEF ClaimTypes, RingTypes

LEMMA RingTypesCall ==
    ASSUME ClaimTypes, RingTypes, NEW t \in Workers, Call(t)
    PROVE  RingTypes'
<1>1. PICK r \in Requests :
        job' = [job EXCEPT ![t] = [call |-> issued', op |-> r.op, flaw |-> r.flaw, slot |-> 0]]
    BY DEF Call
<1>2. r.op \in Operations /\ r.flaw \in Flaws
    BY DEF Requests
<1>3. issued' \in Nat /\ at[t] = "idle" /\ UNCHANGED <<ring, cursor, stream, scratch>>
    BY DEF Call, RingTypes
<1>4. [call |-> issued', op |-> r.op, flaw |-> r.flaw, slot |-> 0] \in CallsAtHand
    BY <1>2, <1>3, WorkspaceAssumption DEF CallsAtHand
<1>5. \A u \in Workers : u # t => at'[u] = at[u]
    BY DEF Call, Go, ClaimTypes
<1>6. at'[t] \in {"elsewhere", "lock", "compare"}
    <2> DEFINE place == CASE backend # "native" -> "elsewhere"
                          [] owner = NoThread -> "lock"
                          [] OTHER -> "compare"
    <2>1. at' = [at EXCEPT ![t] = place]
        BY DEF Call, Go
    <2>2. place \in {"elsewhere", "lock", "compare"}
        OBVIOUS
    <2> QED
        BY <2>1, <2>2 DEF ClaimTypes
<1> QED
    BY <1>1, <1>3, <1>4, <1>5, <1>6 DEF RingTypes

LEMMA RingTypesAcquire ==
    ASSUME ClaimTypes, RingTypes, NEW t \in Workers, Acquire(t)
    PROVE  RingTypes' /\ cursor' = (cursor % Slots) + 1 /\ job'[t].slot = cursor'
                      /\ job'[t].call = job[t].call
<1>1. cursor' = (cursor % Slots) + 1 /\ cursor' \in 1 .. Slots
    BY WorkspaceAssumption DEF Acquire, RingTypes
<1>2. job' = [job EXCEPT ![t].slot = cursor'] /\ job[t] \in CallsAtHand
    BY <1>1 DEF Acquire, RingTypes
<1>3. [job[t] EXCEPT !.slot = cursor'] \in CallsAtHand
    BY <1>1, <1>2 DEF CallsAtHand
<1>4. job' = [job EXCEPT ![t] = [job[t] EXCEPT !.slot = cursor']]
    BY <1>2
<1>5. job' \in [Workers -> CallsAtHand \cup {<<>>}] /\ \A u \in Workers : u # t => job'[u] = job[u]
    BY <1>3, <1>4 DEF RingTypes
<1>6. job'[t] \in CallsAtHand /\ job'[t].slot = cursor' /\ job'[t].call = job[t].call
    BY <1>2, <1>3, <1>4 DEF RingTypes, CallsAtHand
<1>7. at' = [at EXCEPT ![t] = "fill"] /\ UNCHANGED <<issued, ring, stream, scratch>>
    BY DEF Acquire, Go
<1> QED
    BY <1>1, <1>5, <1>6, <1>7 DEF RingTypes, ClaimTypes

LEMMA RingTypesFill ==
    ASSUME ClaimTypes, RingTypes, NEW t \in Workers, Fill(t)
    PROVE  RingTypes'
<1>1. job[t].slot \in 1 .. Slots /\ job[t].call \in Nat
    BY DEF Fill, RingTypes, CallsAtHand
<1>2. ring' = [ring EXCEPT ![job[t].slot] = [ring[job[t].slot] EXCEPT !.pinned = job[t].call]]
    BY DEF Fill
<1>3. ring' \in [1 .. Slots -> [pinned : Nat, device : Nat, event : Nat]]
    BY <1>1, <1>2 DEF RingTypes
<1>4. UNCHANGED <<job, issued, cursor, stream, scratch>> /\ at' = [at EXCEPT ![t] = "launch"]
    BY DEF Fill, Go
<1> QED
    BY <1>3, <1>4, <1>1 DEF RingTypes, ClaimTypes, Fill

(* What a launch appends.                                                    *)
Item(t, name) ==
    [op |-> name, call |-> job[t].call, slot |-> job[t].slot, into |-> Into(job[t].op)]

Appended(t, items) ==
    /\ stream' \in Seq(Works)
    /\ Len(stream') = Len(stream) + Len(items)
    /\ \A i \in 1 .. Len(stream) : stream'[i] = stream[i]
    /\ \A i \in 1 .. Len(items) : stream'[Len(stream) + i] = items[i]

LEMMA AppendedByConcat ==
    ASSUME RingTypes, NEW t \in Workers, NEW items \in Seq(Works), stream' = stream \o items
    PROVE  Appended(t, items)
<1>1. stream \in Seq(Works)
    BY DEF RingTypes
<1> QED
    BY <1>1, ConcatProperties, LenProperties DEF Appended

LEMMA ItemTypes ==
    ASSUME RingTypes, NEW t \in Workers, at[t] = "launch",
           NEW name \in {"upload", "kernel", "event", "download"}
    PROVE  Item(t, name) \in Works
BY DEF RingTypes, CallsAtHand, Item, Works, Into

(* The three ways a launch may go: refused by the driver after its upload,   *)
(* queued for a device buffer, or queued for the host, which waits.          *)
LEMMA LaunchCases ==
    ASSUME ClaimTypes, RingTypes, NEW t \in Workers, Launch(t)
    PROVE  \/ /\ Appended(t, <<Item(t, "upload")>>)
              /\ UNCHANGED ring /\ at' = [at EXCEPT ![t] = "idle"]
           \/ /\ Into(job[t].op)
              /\ Appended(t, <<Item(t, "upload"), Item(t, "kernel"), Item(t, "event")>>)
              /\ ring' = [ring EXCEPT ![job[t].slot].event = job[t].call]
              /\ at' = [at EXCEPT ![t] = "idle"]
           \/ /\ ~Into(job[t].op)
              /\ Appended(t, <<Item(t, "upload"), Item(t, "kernel"), Item(t, "event"),
                               Item(t, "download")>>)
              /\ ring' = [ring EXCEPT ![job[t].slot].event = job[t].call]
              /\ at' = [at EXCEPT ![t] = "download"]
<1>1. at[t] = "launch" /\ stream \in Seq(Works)
    BY DEF Launch, RingTypes
<1>2. /\ Item(t, "upload") \in Works /\ Item(t, "kernel") \in Works
      /\ Item(t, "event") \in Works /\ Item(t, "download") \in Works
    BY <1>1, ItemTypes
<1>3. CASE /\ stream' = Append(stream, Item(t, "upload"))
           /\ Go(t, "idle") /\ UNCHANGED ring
    <2>1. stream' = stream \o <<Item(t, "upload")>>
        BY <1>1, <1>2, <1>3, AppendIsConcat
    <2>2. <<Item(t, "upload")>> \in Seq(Works)
        BY <1>2
    <2> QED
        BY <2>1, <2>2, <1>3, AppendedByConcat DEF Go
<1>4. CASE /\ stream' = stream \o <<Item(t, "upload"), Item(t, "kernel"), Item(t, "event")>>
                              \o IF Into(job[t].op) THEN <<>> ELSE <<Item(t, "download")>>
           /\ ring' = [ring EXCEPT ![job[t].slot].event = job[t].call]
           /\ Go(t, IF Into(job[t].op) THEN "idle" ELSE "download")
    <2> DEFINE first == <<Item(t, "upload"), Item(t, "kernel"), Item(t, "event")>>
    <2>1. first \in Seq(Works) /\ Len(first) = 3
        BY <1>2
    <2>2. CASE Into(job[t].op)
        <3>1. stream \o first \in Seq(Works)
            BY <1>1, <2>1, ConcatProperties
        <3>2. stream' = stream \o first
            BY <1>4, <2>2, <3>1, ConcatEmptySeq
        <3> QED
            BY <2>1, <2>2, <3>2, <1>4, AppendedByConcat DEF Go
    <2>3. CASE ~Into(job[t].op)
        <3> DEFINE all == <<Item(t, "upload"), Item(t, "kernel"), Item(t, "event"),
                            Item(t, "download")>>
        <3>1. all \in Seq(Works) /\ <<Item(t, "download")>> \in Seq(Works)
            BY <1>2
        <3>2. (stream \o first) \o <<Item(t, "download")>> = stream \o (first \o <<Item(t, "download")>>)
            BY <1>1, <2>1, <3>1, ConcatAssociative
        <3>3. first \o <<Item(t, "download")>> = all
            <4> DEFINE last == <<Item(t, "download")>>
            <4>1. Len(last) = 1 /\ last[1] = Item(t, "download") /\ Len(all) = 4
                OBVIOUS
            <4>2. /\ first \o last \in Seq(Works) /\ Len(first \o last) = 4
                  /\ \A i \in 1 .. 4 : (first \o last)[i] = IF i <= 3 THEN first[i] ELSE last[i - 3]
                BY <2>1, <3>1, <4>1, ConcatProperties
            <4>3. \A i \in 1 .. 4 : all[i] = IF i <= 3 THEN first[i] ELSE last[i - 3]
                OBVIOUS
            <4>4. first \o last = all
                <5> HIDE DEF last, all, first
                <5> QED
                    BY SMTT(30), <3>1, <4>1, <4>2, <4>3, SeqEqual
            <4> QED
                BY <4>4
        <3>4. stream' = stream \o all
            BY <1>4, <2>3, <3>2, <3>3
        <3> QED
            BY <2>3, <3>1, <3>4, <1>4, AppendedByConcat DEF Go
    <2> QED
        BY <2>2, <2>3
<1> QED
    BY <1>3, <1>4 DEF Launch, Item

LEMMA RingTypesLaunch ==
    ASSUME ClaimTypes, RingTypes, NEW t \in Workers, Launch(t)
    PROVE  RingTypes'
<1>1. job[t].slot \in 1 .. Slots /\ job[t].call \in Nat /\ at[t] = "launch"
    BY DEF Launch, RingTypes, CallsAtHand
<1>2. UNCHANGED <<job, issued, cursor, scratch>>
    BY DEF Launch
<1>3. stream' \in Seq(Works)
    BY LaunchCases DEF Appended
<1>4. ring' \in [1 .. Slots -> [pinned : Nat, device : Nat, event : Nat]]
    <2>1. CASE UNCHANGED ring
        BY <2>1 DEF RingTypes
    <2>2. CASE ring' = [ring EXCEPT ![job[t].slot].event = job[t].call]
        <3>1. ring' = [ring EXCEPT ![job[t].slot] = [ring[job[t].slot] EXCEPT !.event = job[t].call]]
            BY <2>2
        <3> QED
            BY <3>1, <1>1 DEF RingTypes
    <2> QED
        BY <2>1, <2>2, LaunchCases
<1>5. \E place \in {"idle", "download"} : at' = [at EXCEPT ![t] = place]
    BY LaunchCases
<1> QED
    BY <1>1, <1>2, <1>3, <1>4, <1>5 DEF RingTypes, ClaimTypes

(* The device takes the head of the stream.                                  *)
LEMMA WorkShifts ==
    ASSUME RingTypes, Work
    PROVE  /\ stream # <<>> /\ 1 \in DOMAIN stream /\ Head(stream) = stream[1]
           /\ \A i \in DOMAIN stream : stream[i] \in Works
           /\ stream' \in Seq(Works) /\ Len(stream') = Len(stream) - 1
           /\ DOMAIN stream' = 1 .. Len(stream) - 1 /\ DOMAIN stream = 1 .. Len(stream)
           /\ Len(stream) \in Nat
           /\ \A i \in DOMAIN stream' : i + 1 \in DOMAIN stream /\ stream'[i] = stream[i + 1]
<1>1. stream \in Seq(Works) /\ stream # <<>> /\ stream' = Tail(stream)
    BY DEF Work, RingTypes
<1>2. /\ stream' \in Seq(Works) /\ Len(stream') = Len(stream) - 1
      /\ \A i \in 1 .. Len(stream') : stream'[i] = stream[i + 1]
    BY <1>1, HeadTailProperties
<1>3. Len(stream) \in Nat /\ DOMAIN stream = 1 .. Len(stream) /\ Len(stream) # 0
    BY <1>1, LenProperties
<1> QED
    BY <1>1, <1>2, <1>3

(* A slot stays one when its device bytes become what is pinned.             *)
LEMMA SlotUploaded ==
    ASSUME NEW slots \in [1 .. Slots -> [pinned : Nat, device : Nat, event : Nat]],
           NEW s \in 1 .. Slots
    PROVE  [slots EXCEPT ![s].device = slots[s].pinned]
              \in [1 .. Slots -> [pinned : Nat, device : Nat, event : Nat]]
OBVIOUS

LEMMA RingTypesWork ==
    ASSUME RingTypes, Work
    PROVE  RingTypes'
<1> DEFINE w == stream[1]
           read == ring[w.slot].device
<1>1. w \in Works /\ Head(stream) = w
    BY WorkShifts
<1>2. read \in Nat
    BY <1>1 DEF Works, RingTypes
<1>3. ring' \in [1 .. Slots -> [pinned : Nat, device : Nat, event : Nat]]
    <2>1. CASE UNCHANGED ring
        BY <2>1 DEF RingTypes
    <2>2. CASE ring' = [ring EXCEPT ![w.slot].device = ring[w.slot].pinned]
        <3>1. w.slot \in 1 .. Slots
            BY <1>1 DEF Works
        <3> QED
            BY <2>2, <3>1, SlotUploaded DEF RingTypes
    <2> QED
        BY <1>1, <2>1, <2>2 DEF Work
<1>4. scratch' \in [output : Nat, download : Nat]
    <2>1. \/ scratch' = [scratch EXCEPT !.output = read]
          \/ scratch' = [scratch EXCEPT !.download = scratch.output]
          \/ scratch' = scratch
        BY <1>1 DEF Work
    <2> QED
        BY <2>1, <1>2 DEF RingTypes
<1>5. stream' \in Seq(Works)
    BY WorkShifts
<1> QED
    BY <1>3, <1>4, <1>5 DEF RingTypes, Work

(* What is in the stream.                                                    *)
LEMMA StreamTypes ==
    ASSUME RingTypes
    PROVE  /\ Len(stream) \in Nat /\ DOMAIN stream = 1 .. Len(stream)
           /\ \A i \in DOMAIN stream :
                 stream[i] \in Works /\ stream[i].slot \in 1 .. Slots /\ stream[i].call \in Nat
<1>1. stream \in Seq(Works)
    BY DEF RingTypes
<1>2. \A i \in DOMAIN stream : stream[i] \in Works
    BY <1>1
<1>3. \A w \in Works : w.slot \in 1 .. Slots /\ w.call \in Nat
    BY DEF Works
<1> QED
    BY <1>1, <1>2, <1>3, LenProperties

(* --------------------------------------------- the stream is kept in order *)

(* A step that leaves the stream and the ring alone and brings nobody to     *)
(* them.                                                                     *)
LEMMA StreamQuiet ==
    ASSUME ClaimTypes, RingTypes, StreamInv, NEW t \in Workers, NEW place \in Places,
           at' = [at EXCEPT ![t] = place], UNCHANGED <<ring, stream, scratch>>,
           \A u \in Workers : u # t => job'[u] = job[u],
           place \notin {"fill", "launch", "download"},
           at[t] # "download" \/ stream = <<>>
    PROVE  StreamInv'
<1>1. \A u \in Workers : at'[u] = IF u = t THEN place ELSE at[u]
    BY DEF ClaimTypes
<1>2. KernelsFindTheirs' /\ EventsAreAwaited'
    BY DEF StreamInv, KernelsFindTheirs, EventsAreAwaited
<1>3. DownloadsFindTheirs'
    <2>1. CASE stream = <<>>
        BY <2>1, <1>1 DEF StreamInv, DownloadsFindTheirs
    <2>2. CASE at[t] # "download"
        BY <2>2, <1>1 DEF StreamInv, DownloadsFindTheirs
    <2> QED
        BY <2>1, <2>2
<1>4. AcquiredIsFree'
    BY <1>1 DEF StreamInv, AcquiredIsFree
<1> QED
    BY <1>2, <1>3, <1>4 DEF StreamInv

(* StagingRing.acquire: a slot whose event has passed has no event left.     *)
LEMMA StreamAcquire ==
    ASSUME ClaimInv, RingTypes, StreamInv, NEW t \in Workers, Acquire(t)
    PROVE  StreamInv'
<1> DEFINE next == (cursor % Slots) + 1
<1>1. UNCHANGED <<ring, stream, scratch>> /\ at[t] = "acquire" /\ at' = [at EXCEPT ![t] = "fill"]
    BY DEF Acquire, Go
<1>2. \A u \in Workers : at'[u] = IF u = t THEN "fill" ELSE at[u]
    BY <1>1 DEF ClaimInv, ClaimTypes
<1>3. /\ \A u \in Workers : u # t => job'[u] = job[u]
      /\ job'[t].slot = next
    BY RingTypesAcquire DEF Acquire, RingTypes, ClaimInv
<1>4. \A i \in DOMAIN stream : stream[i].op = "event" => stream[i].slot # next
    <2>1. \A i \in DOMAIN stream : stream[i].op = "event" => stream[i].call # ring[next].event
        BY DEF Acquire, Reusable, Pending
    <2> QED
        BY <2>1 DEF StreamInv, EventsAreAwaited
<1>5. KernelsFindTheirs' /\ EventsAreAwaited'
    BY <1>1 DEF StreamInv, KernelsFindTheirs, EventsAreAwaited
<1>6. DownloadsFindTheirs'
    BY SMTT(30), <1>1, <1>2, <1>3 DEF StreamInv, DownloadsFindTheirs
<1>7. AcquiredIsFree'
    BY <1>1, <1>2, <1>3, <1>4 DEF StreamInv, AcquiredIsFree
<1> QED
    BY <1>5, <1>6, <1>7 DEF StreamInv

(* The pixels go into the acquired slot: no kernel in the stream has its     *)
(* bytes there.                                                              *)
LEMMA StreamFill ==
    ASSUME ClaimInv, RingTypes, StreamInv, NEW t \in Workers, Fill(t)
    PROVE  StreamInv'
<1> DEFINE slot == job[t].slot
<1>1. /\ UNCHANGED <<stream, scratch, job>> /\ at[t] = "fill" /\ slot \in 1 .. Slots
      /\ ring' = [ring EXCEPT ![slot].pinned = job[t].call]
    BY DEF Fill, RingTypes
<1>2. \A u \in Workers : at'[u] = IF u = t THEN "launch" ELSE at[u]
    BY DEF Fill, Go, ClaimInv, ClaimTypes
<1>3. \A s \in 1 .. Slots : /\ ring'[s].event = ring[s].event /\ ring'[s].device = ring[s].device
                            /\ ring'[s].pinned = IF s = slot THEN job[t].call ELSE ring[s].pinned
    BY <1>1 DEF RingTypes
<1>4. \A i \in DOMAIN stream : stream[i] \in Works /\ stream[i].slot \in 1 .. Slots
    BY StreamTypes
<1>5. \A i \in DOMAIN stream : stream[i].op = "kernel" => stream[i].slot # slot
    <2> SUFFICES ASSUME NEW i \in DOMAIN stream, stream[i].op = "kernel", stream[i].slot = slot
                 PROVE  FALSE
        OBVIOUS
    <2>1. i + 1 \in DOMAIN stream /\ stream[i + 1].op = "event" /\ stream[i + 1].slot = slot
        BY DEF StreamInv, KernelsFindTheirs, RingTypes
    <2> QED
        BY <2>1, <1>1 DEF StreamInv, AcquiredIsFree
<1>6. KernelsFindTheirs'
    BY <1>1, <1>3, <1>4, <1>5 DEF StreamInv, KernelsFindTheirs
<1>7. EventsAreAwaited'
    BY <1>1, <1>3, <1>4 DEF StreamInv, EventsAreAwaited
<1>8. DownloadsFindTheirs'
    BY <1>1, <1>2 DEF StreamInv, DownloadsFindTheirs
<1>9. AcquiredIsFree'
    <2> SUFFICES ASSUME NEW u \in Workers, at'[u] \in {"fill", "launch"}
                 PROVE  /\ \A i \in DOMAIN stream : stream[i].op = "event" => stream[i].slot # job[u].slot
                        /\ at'[u] = "launch" => ring'[job[u].slot].pinned = job[u].call
        BY <1>1 DEF AcquiredIsFree
    <2>1. u = t
        BY <1>1, <1>2, SoleInside DEF Inside
    <2> QED
        BY <2>1, <1>1, <1>3 DEF StreamInv, AcquiredIsFree
<1> QED
    BY <1>6, <1>7, <1>8, <1>9 DEF StreamInv

(* While a call is at its launch nobody waits for a download, and no kernel  *)
(* or event of its slot is in the stream.                                    *)
LEMMA BeforeLaunch ==
    ASSUME ClaimInv, RingTypes, StreamInv, NEW t \in Workers, at[t] = "launch"
    PROVE  /\ \A i \in DOMAIN stream : stream[i].op # "download"
           /\ \A i \in DOMAIN stream : stream[i].op = "event" => stream[i].slot # job[t].slot
           /\ \A u \in Workers : u # t => at[u] \notin Inside
           /\ ring[job[t].slot].pinned = job[t].call
           /\ job[t].slot \in 1 .. Slots /\ job[t].call \in Nat
<1>1. \A u \in Workers : u # t => at[u] \notin Inside
    BY SoleInside DEF Inside
<1>2. \A i \in DOMAIN stream : stream[i].op # "download"
    BY <1>1 DEF StreamInv, DownloadsFindTheirs, Inside
<1>3. job[t].slot \in 1 .. Slots /\ job[t].call \in Nat
    BY DEF RingTypes, CallsAtHand
<1> QED
    BY <1>1, <1>2, <1>3 DEF StreamInv, AcquiredIsFree

(* Refused after its upload: the upload is never read.                       *)
LEMMA StreamLaunchRefused ==
    ASSUME ClaimInv, RingTypes, StreamInv, NEW t \in Workers, at[t] = "launch",
           Appended(t, <<Item(t, "upload")>>), UNCHANGED <<ring, scratch, job>>,
           at' = [at EXCEPT ![t] = "idle"]
    PROVE  StreamInv'
<1> DEFINE n == Len(stream)
<1>1. /\ n \in Nat /\ DOMAIN stream = 1 .. n /\ DOMAIN stream' = 1 .. n + 1
      /\ \A i \in 1 .. n : stream'[i] = stream[i]
      /\ stream'[n + 1].op = "upload" /\ Len(stream') = n + 1
    BY StreamTypes, LenProperties DEF Appended, Item
<1>2. \A u \in Workers : at'[u] \notin {"fill", "launch", "download"}
    BY BeforeLaunch DEF ClaimInv, ClaimTypes, Inside
<1>3. KernelsFindTheirs'
    BY <1>1 DEF StreamInv, KernelsFindTheirs
<1>4. EventsAreAwaited'
    BY <1>1 DEF StreamInv, EventsAreAwaited
<1>5. DownloadsFindTheirs'
    BY <1>1, <1>2, BeforeLaunch DEF DownloadsFindTheirs
<1>6. AcquiredIsFree'
    BY <1>2 DEF AcquiredIsFree
<1> QED
    BY <1>3, <1>4, <1>5, <1>6 DEF StreamInv

LEMMA Positions ==
    ASSUME NEW n \in Nat, NEW k \in {3, 4}, NEW i \in 1 .. n + k
    PROVE  i \in 1 .. n \/ i = n + 1 \/ i = n + 2 \/ i = n + 3 \/ (i = n + 4 /\ k = 4)
<1>1. CASE k = 3
    BY <1>1
<1>2. CASE k = 4
    BY <1>2
<1> QED
    BY <1>1, <1>2

(* Queued: its upload, its kernel and its event follow each other, and for   *)
(* the host the download.                                                    *)
LEMMA StreamLaunchQueued ==
    ASSUME ClaimInv, RingTypes, StreamInv, NEW t \in Workers, at[t] = "launch",
           NEW items, items \in {<<Item(t, "upload"), Item(t, "kernel"), Item(t, "event")>>,
                                 <<Item(t, "upload"), Item(t, "kernel"), Item(t, "event"),
                                   Item(t, "download")>>},
           Appended(t, items), UNCHANGED <<scratch, job>>,
           ring' = [ring EXCEPT ![job[t].slot].event = job[t].call],
           Len(items) = 4 => ~Into(job[t].op),
           at' = [at EXCEPT ![t] = IF Len(items) = 4 THEN "download" ELSE "idle"]
    PROVE  StreamInv'
<1> DEFINE n == Len(stream)
           slot == job[t].slot
<1>1. /\ Len(items) = 3 \/ Len(items) = 4
      /\ items[1] = Item(t, "upload") /\ items[2] = Item(t, "kernel")
      /\ items[3] = Item(t, "event") /\ (Len(items) = 4 => items[4] = Item(t, "download"))
    OBVIOUS
<1>2. /\ n \in Nat /\ DOMAIN stream = 1 .. n
      /\ DOMAIN stream' = 1 .. n + Len(items) /\ Len(stream') = n + Len(items)
      /\ \A i \in 1 .. n : stream'[i] = stream[i]
    BY <1>1, StreamTypes, LenProperties DEF Appended
<1>3. /\ stream'[n + 1] = Item(t, "upload") /\ stream'[n + 2] = Item(t, "kernel")
      /\ stream'[n + 3] = Item(t, "event")
      /\ Len(items) = 4 => stream'[n + 4] = Item(t, "download")
    <2>1. \A i \in 1 .. Len(items) : stream'[n + i] = items[i]
        BY DEF Appended
    <2>2. 1 \in 1 .. Len(items) /\ 2 \in 1 .. Len(items) /\ 3 \in 1 .. Len(items)
          /\ (Len(items) = 4 => 4 \in 1 .. Len(items))
        BY <1>1
    <2> QED
        BY <2>1, <2>2, <1>1
<1>4. /\ stream'[n + 1].op = "upload" /\ stream'[n + 1].slot = slot
      /\ stream'[n + 2].op = "kernel" /\ stream'[n + 2].slot = slot
      /\ stream'[n + 2].call = job[t].call /\ stream'[n + 2].into = Into(job[t].op)
      /\ stream'[n + 3].op = "event" /\ stream'[n + 3].slot = slot
      /\ stream'[n + 3].call = job[t].call
      /\ Len(items) = 4 => stream'[n + 4].op = "download" /\ stream'[n + 4].call = job[t].call
    BY <1>3 DEF Item
<1>5. /\ slot \in 1 .. Slots
      /\ \A s \in 1 .. Slots : /\ ring'[s].pinned = ring[s].pinned
                                /\ ring'[s].device = ring[s].device
                                /\ ring'[s].event = IF s = slot THEN job[t].call ELSE ring[s].event
    BY SMTT(30), BeforeLaunch DEF RingTypes
<1>6. \A u \in Workers : /\ at'[u] \notin {"fill", "launch"}
                         /\ at'[u] = "download" => u = t /\ Len(items) = 4
                         /\ Len(items) = 4 => at'[t] = "download"
    BY BeforeLaunch DEF ClaimInv, ClaimTypes, Inside
<1>7. KernelsFindTheirs'
    <2> SUFFICES ASSUME NEW i \in DOMAIN stream', stream'[i].op = "kernel"
                 PROVE  LET w == stream'[i]
                        IN /\ i < Len(stream')
                           /\ stream'[i + 1].op = "event" /\ stream'[i + 1].slot = w.slot
                           /\ ring'[w.slot].pinned = w.call
                           /\ i = 1 => ring'[w.slot].device = w.call
                           /\ i > 1 => /\ stream'[i - 1].op = "upload"
                                       /\ stream'[i - 1].slot = w.slot
        BY DEF KernelsFindTheirs
    <2>1. CASE i <= n
        <3>1. stream'[i] = stream[i] /\ i \in DOMAIN stream /\ stream[i].slot \in 1 .. Slots
            BY <2>1, <1>2, StreamTypes
        <3> QED
            BY SMTT(30), <2>1, <3>1, <1>2, <1>5 DEF StreamInv, KernelsFindTheirs
    <2>2. CASE i = n + 2
        <3>1. i + 1 = n + 3 /\ i - 1 = n + 1 /\ i > 1 /\ i < Len(stream') /\ i # 1
            BY <2>2, <1>1, <1>2
        <3> QED
            BY <2>2, <3>1, <1>4, <1>5, BeforeLaunch
    <2>3. i <= n \/ i = n + 2
        <3>1. i \in 1 .. n \/ i = n + 1 \/ i = n + 2 \/ i = n + 3 \/ (i = n + 4 /\ Len(items) = 4)
            BY <1>1, <1>2, Positions
        <3> QED
            BY <3>1, <1>2, <1>4
    <2> QED
        BY <2>1, <2>2, <2>3
<1>8. EventsAreAwaited'
    <2> SUFFICES ASSUME NEW i \in DOMAIN stream', stream'[i].op = "event"
                 PROVE  ring'[stream'[i].slot].event = stream'[i].call
        BY DEF EventsAreAwaited
    <2>1. CASE i <= n
        <3>1. stream'[i] = stream[i] /\ i \in DOMAIN stream /\ stream[i].slot \in 1 .. Slots
            BY <2>1, <1>2, StreamTypes
        <3>2. stream[i].slot # slot
            BY <3>1, BeforeLaunch
        <3> QED
            BY <3>1, <3>2, <1>5 DEF StreamInv, EventsAreAwaited
    <2>2. CASE i = n + 3
        BY <2>2, <1>4, <1>5
    <2>3. i <= n \/ i = n + 3
        <3>1. i \in 1 .. n \/ i = n + 1 \/ i = n + 2 \/ i = n + 3 \/ (i = n + 4 /\ Len(items) = 4)
            BY <1>1, <1>2, Positions
        <3> QED
            BY <3>1, <1>2, <1>4
    <2> QED
        BY <2>1, <2>2, <2>3
<1>9. DownloadsFindTheirs'
    <2>1. ASSUME NEW i \in DOMAIN stream', stream'[i].op = "download"
          PROVE  i = n + 4 /\ Len(items) = 4
        <3>1. i \in 1 .. n \/ i = n + 1 \/ i = n + 2 \/ i = n + 3 \/ (i = n + 4 /\ Len(items) = 4)
            BY <1>1, <1>2, Positions
        <3> QED
            BY <2>1, <3>1, <1>2, <1>4, BeforeLaunch
    <2>2. CASE Len(items) = 4
        <3>1. /\ Len(stream') = n + 4 /\ stream' # <<>> /\ ~Into(job[t].op)
              /\ ~(n + 4 <= 2) /\ (n + 4) - 1 = n + 3 /\ (n + 4) - 2 = n + 2
            BY <2>2, <1>2
        <3> QED
            BY <2>1, <2>2, <3>1, <1>4, <1>6 DEF DownloadsFindTheirs
    <2>3. CASE Len(items) # 4
        BY <2>1, <2>3, <1>6 DEF DownloadsFindTheirs
    <2> QED
        BY <2>2, <2>3
<1>10. AcquiredIsFree'
    BY <1>6 DEF AcquiredIsFree
<1> QED
    BY <1>7, <1>8, <1>9, <1>10 DEF StreamInv

LEMMA StreamLaunch ==
    ASSUME ClaimInv, RingTypes, StreamInv, NEW t \in Workers, Launch(t)
    PROVE  StreamInv'
<1>1. at[t] = "launch" /\ UNCHANGED <<scratch, job>> /\ ClaimTypes
    BY DEF Launch, ClaimInv
<1>2. CASE /\ Appended(t, <<Item(t, "upload")>>)
           /\ UNCHANGED ring /\ at' = [at EXCEPT ![t] = "idle"]
    BY <1>1, <1>2, StreamLaunchRefused
<1>3. CASE /\ Into(job[t].op)
           /\ Appended(t, <<Item(t, "upload"), Item(t, "kernel"), Item(t, "event")>>)
           /\ ring' = [ring EXCEPT ![job[t].slot].event = job[t].call]
           /\ at' = [at EXCEPT ![t] = "idle"]
    <2> DEFINE items == <<Item(t, "upload"), Item(t, "kernel"), Item(t, "event")>>
    <2>1. Len(items) = 3
        OBVIOUS
    <2>2. at' = [at EXCEPT ![t] = IF Len(items) = 4 THEN "download" ELSE "idle"]
        BY <1>3, <2>1
    <2>3. Len(items) = 4 => ~Into(job[t].op)
        BY <2>1
    <2> HIDE DEF items
    <2> QED
        BY <1>1, <1>3, <2>2, <2>3, StreamLaunchQueued DEF items
<1>4. CASE /\ ~Into(job[t].op)
           /\ Appended(t, <<Item(t, "upload"), Item(t, "kernel"), Item(t, "event"),
                            Item(t, "download")>>)
           /\ ring' = [ring EXCEPT ![job[t].slot].event = job[t].call]
           /\ at' = [at EXCEPT ![t] = "download"]
    <2> DEFINE items == <<Item(t, "upload"), Item(t, "kernel"), Item(t, "event"),
                          Item(t, "download")>>
    <2>1. Len(items) = 4
        OBVIOUS
    <2>2. at' = [at EXCEPT ![t] = IF Len(items) = 4 THEN "download" ELSE "idle"]
        BY <1>4, <2>1
    <2> HIDE DEF items
    <2> QED
        BY <1>1, <1>4, <2>1, <2>2, StreamLaunchQueued DEF items
<1> QED
    BY <1>1, <1>2, <1>3, <1>4, LaunchCases

(* The device, one piece of work further.                                    *)
LEMMA StreamWork ==
    ASSUME ClaimInv, RingTypes, StreamInv, Work
    PROVE  StreamInv'
<1> DEFINE w == stream[1]
<1>1. UNCHANGED <<at, job>>
    BY DEF Work
<1>2. /\ w \in Works /\ w.slot \in 1 .. Slots /\ Head(stream) = w
      /\ DOMAIN stream = 1 .. Len(stream) /\ Len(stream) \in Nat /\ Len(stream) >= 1
      /\ DOMAIN stream' = 1 .. Len(stream) - 1 /\ Len(stream') = Len(stream) - 1
      /\ \A i \in DOMAIN stream' : i + 1 \in DOMAIN stream /\ stream'[i] = stream[i + 1]
    BY WorkShifts, StreamTypes
<1>3. \A s \in 1 .. Slots : /\ ring'[s].pinned = ring[s].pinned /\ ring'[s].event = ring[s].event
                            /\ w.op = "upload" /\ s = w.slot => ring'[s].device = ring[s].pinned
    <2>1. ring' = IF w.op = "upload"
                  THEN [ring EXCEPT ![w.slot].device = ring[w.slot].pinned] ELSE ring
        BY <1>2 DEF Work
    <2> QED
        BY <2>1, <1>2 DEF RingTypes
<1>4. /\ w.op = "kernel" /\ ~w.into => scratch'.output = ring[w.slot].device
      /\ w.op # "kernel" => scratch'.output = scratch.output
      /\ w.op = "download" => scratch'.download = scratch.output
    <2>1. scratch' = CASE w.op = "kernel" /\ ~w.into -> [scratch EXCEPT !.output = ring[w.slot].device]
                       [] w.op = "download" -> [scratch EXCEPT !.download = scratch.output]
                       [] OTHER -> scratch
        BY <1>2 DEF Work
    <2> QED
        BY <2>1 DEF RingTypes
<1>5. KernelsFindTheirs'
    <2> SUFFICES ASSUME NEW i \in DOMAIN stream', stream'[i].op = "kernel"
                 PROVE  LET k == stream'[i]
                        IN /\ i < Len(stream')
                           /\ stream'[i + 1].op = "event" /\ stream'[i + 1].slot = k.slot
                           /\ ring'[k.slot].pinned = k.call
                           /\ i = 1 => ring'[k.slot].device = k.call
                           /\ i > 1 => /\ stream'[i - 1].op = "upload"
                                       /\ stream'[i - 1].slot = k.slot
        BY DEF KernelsFindTheirs
    <2> DEFINE j == i + 1
    <2>1. /\ j \in DOMAIN stream /\ stream'[i] = stream[j] /\ j > 1 /\ i \in Nat
          /\ stream[j].slot \in 1 .. Slots
        BY <1>2, StreamTypes
    <2>2. /\ j < Len(stream)
          /\ stream[j + 1].op = "event" /\ stream[j + 1].slot = stream[j].slot
          /\ ring[stream[j].slot].pinned = stream[j].call
          /\ stream[j - 1].op = "upload" /\ stream[j - 1].slot = stream[j].slot
        BY <2>1 DEF StreamInv, KernelsFindTheirs
    <2>3. i < Len(stream') /\ stream'[i + 1] = stream[j + 1]
        BY <2>1, <2>2, <1>2
    <2>4. i = 1 => ring'[stream[j].slot].device = stream[j].call
        BY <2>1, <2>2, <1>2, <1>3
    <2>5. i > 1 => stream'[i - 1] = stream[j - 1]
        <3> SUFFICES ASSUME i > 1 PROVE stream'[i - 1] = stream[j - 1]
            OBVIOUS
        <3>1. i - 1 \in DOMAIN stream' /\ (i - 1) + 1 = j - 1
            BY <1>2, <2>1
        <3> QED
            BY <3>1, <1>2
    <2> QED
        BY <2>1, <2>2, <2>3, <2>4, <2>5, <1>3
<1>6. EventsAreAwaited'
    <2> SUFFICES ASSUME NEW i \in DOMAIN stream', stream'[i].op = "event"
                 PROVE  ring'[stream'[i].slot].event = stream'[i].call
        BY DEF EventsAreAwaited
    <2> QED
        BY <1>2, <1>3, StreamTypes DEF StreamInv, EventsAreAwaited
<1>7. \A i \in DOMAIN stream' : stream'[i].op = "download" =>
          /\ i = Len(stream')
          /\ \E t \in Workers : at'[t] = "download"
          /\ i <= 2 => scratch'.output = stream'[i].call
          /\ i > 1 => stream'[i - 1].op = "event"
          /\ i > 2 => /\ stream'[i - 2].op = "kernel" /\ ~stream'[i - 2].into
                      /\ stream'[i - 2].call = stream'[i].call
    <2> SUFFICES ASSUME NEW i \in DOMAIN stream', stream'[i].op = "download"
                 PROVE  /\ i = Len(stream')
                        /\ \E t \in Workers : at'[t] = "download"
                        /\ i <= 2 => scratch'.output = stream'[i].call
                        /\ i > 1 => stream'[i - 1].op = "event"
                        /\ i > 2 => /\ stream'[i - 2].op = "kernel" /\ ~stream'[i - 2].into
                                    /\ stream'[i - 2].call = stream'[i].call
        OBVIOUS
    <2> DEFINE j == i + 1
    <2>1. j \in DOMAIN stream /\ stream'[i] = stream[j] /\ j > 1 /\ i \in Nat /\ i >= 1
        BY <1>2
    <2>2. /\ j = Len(stream)
          /\ \E t \in Workers : at[t] = "download"
          /\ j <= 2 => scratch.output = stream[j].call
          /\ stream[j - 1].op = "event"
          /\ j > 2 => /\ stream[j - 2].op = "kernel" /\ ~stream[j - 2].into
                      /\ stream[j - 2].call = stream[j].call
        BY <2>1 DEF StreamInv, DownloadsFindTheirs
    <2>3. CASE i = 1
        <3>1. j - 1 = 1 /\ j <= 2 /\ w.op = "event"
            BY <2>1, <2>2, <2>3
        <3> QED
            BY <2>1, <2>2, <2>3, <3>1, <1>1, <1>2, <1>4
    <2>4. CASE i = 2
        <3>1. j - 2 = 1 /\ j > 2 /\ stream'[1] = stream[2] /\ j - 1 = 2 /\ 1 \in DOMAIN stream
            BY <2>1, <2>2, <2>4, <1>2
        <3>2. ring[w.slot].device = w.call
            BY <3>1, <2>2 DEF StreamInv, KernelsFindTheirs
        <3>3. scratch'.output = stream'[i].call
            BY <2>1, <2>2, <3>1, <3>2, <1>4
        <3>4. stream'[i - 1] = stream[j - 1] /\ ~(i > 2) /\ i = Len(stream')
            BY <2>1, <2>2, <2>4, <3>1, <1>2
        <3> QED
            BY <2>1, <2>2, <2>4, <3>3, <3>4, <1>1
    <2>5. CASE i > 2
        <3>1. /\ i - 1 \in DOMAIN stream' /\ (i - 1) + 1 = j - 1
              /\ i - 2 \in DOMAIN stream' /\ (i - 2) + 1 = j - 2 /\ j > 2
            BY <2>1, <2>5, <1>2
        <3>2. stream'[i - 1] = stream[j - 1] /\ stream'[i - 2] = stream[j - 2]
            BY <3>1, <1>2
        <3>3. i = Len(stream') /\ ~(i <= 2)
            BY <2>1, <2>2, <2>5, <1>2
        <3>4. /\ stream'[i - 1].op = "event"
              /\ stream'[i - 2].op = "kernel" /\ ~stream'[i - 2].into
              /\ stream'[i - 2].call = stream'[i].call
            BY <2>1, <2>2, <3>1, <3>2
        <3> QED
            BY <2>2, <3>3, <3>4, <1>1
    <2> QED
        BY <2>1, <2>3, <2>4, <2>5
<1>8. ASSUME NEW t \in Workers, at'[t] = "download"
      PROVE  IF stream' = <<>> THEN scratch'.download = job'[t].call
             ELSE /\ stream'[Len(stream')].op = "download"
                  /\ stream'[Len(stream')].call = job'[t].call
    <2>1. /\ stream # <<>> /\ stream[Len(stream)].op = "download"
          /\ stream[Len(stream)].call = job[t].call
        BY <1>8, <1>1, WorkShifts DEF StreamInv, DownloadsFindTheirs
    <2>2. CASE Len(stream) = 1
        <3>1. stream' = <<>>
            BY <2>2, <1>2, WorkShifts
        <3>2. w.op = "download" /\ w.call = job[t].call
            BY <2>1, <2>2
        <3>3. scratch.output = w.call
            BY <3>2, <1>2 DEF StreamInv, DownloadsFindTheirs
        <3> QED
            BY <3>1, <3>2, <3>3, <1>1, <1>4
    <2>3. CASE Len(stream) > 1
        <3>1. Len(stream') \in DOMAIN stream' /\ Len(stream') + 1 = Len(stream)
            BY <2>3, <1>2
        <3>2. stream'[Len(stream')] = stream[Len(stream)] /\ stream' # <<>>
            BY <3>1, <1>2
        <3> QED
            BY <2>1, <3>2, <1>1
    <2> QED
        BY <2>2, <2>3, <1>2
<1>9. DownloadsFindTheirs'
    BY <1>7, <1>8 DEF DownloadsFindTheirs
<1>10. AcquiredIsFree'
    <2> SUFFICES ASSUME NEW t \in Workers, at[t] \in {"fill", "launch"}
                 PROVE  /\ \A i \in DOMAIN stream' :
                              stream'[i].op = "event" => stream'[i].slot # job[t].slot
                        /\ at[t] = "launch" => ring'[job[t].slot].pinned = job[t].call
        BY <1>1 DEF AcquiredIsFree
    <2>1. job[t].slot \in 1 .. Slots
        BY DEF RingTypes
    <2> QED
        BY <2>1, <1>2, <1>3 DEF StreamInv, AcquiredIsFree
<1> QED
    BY <1>5, <1>6, <1>9, <1>10 DEF StreamInv

(* ------------------------------------------------------------- what is written *)

(* A call's own pixels added to what is written.                             *)
LEMMA OwnPixels ==
    ASSUME PixelsAreTheCalls, NEW c, written' = Wrote(c, c)
    PROVE  PixelsAreTheCalls'
BY DEF PixelsAreTheCalls, Wrote

LEMMA PixelsElsewhere ==
    ASSUME PixelsAreTheCalls, NEW t \in Workers, Elsewhere(t)
    PROVE  PixelsAreTheCalls'
<1>1. CASE written' = written
    BY <1>1 DEF PixelsAreTheCalls
<1>2. CASE written' = Wrote(job[t].call, job[t].call)
    BY <1>2, OwnPixels
<1> QED
    BY <1>1, <1>2 DEF Elsewhere

(* A call for the host copies out what its own download brought.             *)
LEMMA PixelsDownload ==
    ASSUME StreamInv, PixelsAreTheCalls, NEW t \in Workers, Download(t)
    PROVE  PixelsAreTheCalls'
<1>1. scratch.download = job[t].call
    BY DEF Download, Synchronised, StreamInv, DownloadsFindTheirs
<1>2. written' = Wrote(job[t].call, job[t].call)
    BY <1>1 DEF Download
<1> QED
    BY <1>2, OwnPixels

(* A kernel for a device buffer reads what its own upload left.              *)
LEMMA PixelsWork ==
    ASSUME RingTypes, StreamInv, PixelsAreTheCalls, Work
    PROVE  PixelsAreTheCalls'
<1> DEFINE w == stream[1]
<1>1. 1 \in DOMAIN stream /\ Head(stream) = w
    BY WorkShifts
<1>2. w.op = "kernel" => ring[w.slot].device = w.call
    BY <1>1 DEF StreamInv, KernelsFindTheirs
<1>3. written' = IF w.op = "kernel" /\ w.into THEN Wrote(w.call, ring[w.slot].device) ELSE written
    BY <1>1 DEF Work
<1>4. CASE w.op = "kernel" /\ w.into
    BY <1>2, <1>3, <1>4, OwnPixels
<1>5. CASE ~(w.op = "kernel" /\ w.into)
    BY <1>3, <1>5 DEF PixelsAreTheCalls
<1> QED
    BY <1>4, <1>5

LEMMA IInvInitially == WorkspaceInit => IInv
<1> SUFFICES ASSUME WorkspaceInit PROVE IInv
    OBVIOUS
<1>1. stream = <<>> /\ stream \in Seq(Works) /\ DOMAIN stream = {} /\ Len(stream) = 0
    BY DEF WorkspaceInit
<1>2. RingTypes
    BY <1>1, WorkspaceAssumption DEF WorkspaceInit, RingTypes
<1>3. StreamInv
    BY <1>1 DEF WorkspaceInit, StreamInv, KernelsFindTheirs, EventsAreAwaited,
                DownloadsFindTheirs, AcquiredIsFree
<1>4. PixelsAreTheCalls
    BY DEF WorkspaceInit, PixelsAreTheCalls
<1> QED
    BY <1>2, <1>3, <1>4, ClaimInitially DEF IInv

LEMMA IInvPreserved == IInv /\ [WorkspaceNext]_workspace => IInv'
<1> SUFFICES ASSUME IInv, [WorkspaceNext]_workspace PROVE IInv'
    OBVIOUS
<1>1. ClaimInv' /\ ClaimInv /\ ClaimTypes /\ RingTypes /\ StreamInv /\ PixelsAreTheCalls
    BY ClaimPreserved DEF IInv, ClaimInv
<1>2. CASE UNCHANGED workspace
    BY <1>1, <1>2 DEF workspace, IInv, RingTypes, StreamInv, KernelsFindTheirs, EventsAreAwaited,
                      DownloadsFindTheirs, AcquiredIsFree, PixelsAreTheCalls
<1>3. CASE Work
    BY <1>1, <1>3, RingTypesWork, StreamWork, PixelsWork DEF IInv
<1>4. ASSUME NEW t \in Workers, Call(t) PROVE IInv'
    <2>1. \A u \in Workers : u # t => job'[u] = job[u]
        BY <1>1, <1>4 DEF Call, RingTypes
    <2>2. UNCHANGED <<ring, stream, scratch, written>> /\ at[t] # "download"
        BY <1>4 DEF Call
    <2> DEFINE place == CASE backend # "native" -> "elsewhere"
                          [] owner = NoThread -> "lock"
                          [] OTHER -> "compare"
    <2>3. at' = [at EXCEPT ![t] = place] /\ place \in {"elsewhere", "lock", "compare"}
        BY <1>4 DEF Call, Go
    <2>4. StreamInv'
        <3> HIDE DEF place
        <3> QED
            BY <1>1, <2>1, <2>2, <2>3, StreamQuiet DEF Places
    <2> QED
        BY <1>1, <1>4, <2>2, <2>4, RingTypesCall DEF IInv, PixelsAreTheCalls
<1>5. ASSUME NEW t \in Workers, NEW place \in Places, at[t] \notin {"idle", "download"},
             at' = [at EXCEPT ![t] = place], place \notin {"fill", "launch", "download"},
             UNCHANGED <<job, issued, ring, cursor, stream, scratch>>
      PROVE  RingTypes' /\ StreamInv'
    BY <1>1, <1>5, RingTypesQuiet, StreamQuiet
<1>6. ASSUME NEW t \in Workers, Elsewhere(t) PROVE IInv'
    BY <1>1, <1>5, <1>6, PixelsElsewhere DEF Elsewhere, Go, Places, IInv
<1>7. ASSUME NEW t \in Workers, Lock(t) \/ Claim(t) \/ Take(t) \/ Compare(t) \/ Check(t) PROVE IInv'
    <2>1. UNCHANGED <<job, issued, ring, cursor, stream, scratch, written>>
        BY <1>7 DEF Lock, Claim, Take, Compare, Check
    <2>2. at[t] \notin {"idle", "download"}
        BY <1>7 DEF Lock, Claim, Take, Compare, Check
    <2>3. PICK place \in {"claim", "take", "compare", "check", "idle", "acquire"} :
              at' = [at EXCEPT ![t] = place]
        BY <1>7 DEF Lock, Claim, Take, Compare, Check, Go
    <2>4. RingTypes' /\ StreamInv'
        BY <1>5, <2>1, <2>2, <2>3 DEF Places, Inside
    <2> QED
        BY <1>1, <2>1, <2>4 DEF IInv, PixelsAreTheCalls
<1>8. ASSUME NEW t \in Workers, Acquire(t) PROVE IInv'
    BY <1>1, <1>8, RingTypesAcquire, StreamAcquire DEF Acquire, IInv, PixelsAreTheCalls
<1>9. ASSUME NEW t \in Workers, Fill(t) PROVE IInv'
    BY <1>1, <1>9, RingTypesFill, StreamFill DEF Fill, IInv, PixelsAreTheCalls
<1>10. ASSUME NEW t \in Workers, Launch(t) PROVE IInv'
    BY <1>1, <1>10, RingTypesLaunch, StreamLaunch DEF Launch, IInv, PixelsAreTheCalls
<1>11. ASSUME NEW t \in Workers, Download(t) PROVE IInv'
    <2>1. /\ at[t] = "download" /\ stream = <<>> /\ at' = [at EXCEPT ![t] = "idle"]
          /\ UNCHANGED <<job, issued, ring, cursor, stream, scratch>>
        BY <1>11 DEF Download, Synchronised, Go
    <2>2. StreamInv'
        BY <1>1, <2>1, StreamQuiet DEF Places
    <2>3. RingTypes'
        BY <1>1, <2>1, RingTypesQuiet DEF Places
    <2> QED
        BY <1>1, <1>11, <2>2, <2>3, PixelsDownload DEF IInv
<1> QED
    BY <1>2, <1>3, <1>4, <1>6, <1>7, <1>8, <1>9, <1>10, <1>11 DEF WorkspaceNext

(* What a call writes are its own pixels, for every number of staging slots, *)
(* threads and calls, whoever was refused and whichever launches failed:     *)
(* StagingRing, run_letterbox and download under NativeImageOps.             *)
THEOREM PixelsNeverMixed == WorkspaceSpec => []PixelsAreTheCalls
<1>1. IInv => PixelsAreTheCalls
    BY DEF IInv
<1> QED
    BY <1>1, IInvInitially, IInvPreserved, PTL DEF WorkspaceSpec

(* At a launch no event of the slot is left in the stream: a staging slot is *)
(* never filled under a copy that will still be read (StagingRing::acquire). *)
THEOREM SlotsAreFree == WorkspaceSpec => []AcquiredIsFree
<1>1. IInv => AcquiredIsFree
    BY DEF IInv, StreamInv
<1> QED
    BY <1>1, IInvInitially, IInvPreserved, PTL DEF WorkspaceSpec

==============================================================================
