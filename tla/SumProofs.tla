----------------------------- MODULE SumProofs -----------------------------
(***************************************************************************)
(* Sums over finite sets, as Functions!SumFunctionOnSet defines them.      *)
(***************************************************************************)
EXTENDS Integers, FiniteSets, Functions, FiniteSetTheorems, WellFoundedInduction, TLAPS

\* A set of naturals that has an element has a least one.
LEMMA LeastNatural ==
    ASSUME NEW S \in SUBSET Nat, S # {}
    PROVE  \E i \in S : \A j \in S : i <= j
<1>1. IsWellFoundedOn(OpToRel(<, Nat), Nat)
  BY NatLessThanWellFounded
<1>2. PICK i \in S : \A j \in S : <<j, i>> \notin OpToRel(<, Nat)
  BY <1>1, WFMin
<1>3. \A j \in S : ~(j < i)
  BY <1>2 DEF OpToRel
<1>4. i \in Nat /\ \A j \in S : j \in Nat
  OBVIOUS
<1>5. \A j \in S : i <= j
  BY <1>3, <1>4, SMT
<1> QED BY <1>5

\* Induction, for a set of numbers in place of a predicate.
LEMMA InductionOnNat ==
    ASSUME NEW G, 0 \in G, \A n \in Nat : n \in G => n + 1 \in G
    PROVE  Nat \subseteq G
<1> SUFFICES ASSUME Nat \ G # {} PROVE FALSE
  OBVIOUS
<1>1. PICK m \in Nat \ G : \A j \in Nat \ G : m <= j
  BY LeastNatural
<1>2. m # 0 /\ m - 1 \in Nat
  BY <1>1, SMT
<1>3. m - 1 \in G
  BY <1>1, <1>2, SMT
<1>4. (m - 1) + 1 \in G
  BY <1>2, <1>3
<1> QED BY <1>1, <1>4, SMT

\* Induction over the subsets of a finite set, likewise.
LEMMA InductionOnSet ==
    ASSUME NEW S, IsFiniteSet(S), NEW G, {} \in G,
           \A T \in SUBSET S, x \in S : T \in G /\ x \notin T => T \cup {x} \in G
    PROVE  S \in G
<1> DEFINE N == {n \in Nat : \A T \in SUBSET S : Cardinality(T) = n => T \in G}
<1>1. \A T \in SUBSET S : IsFiniteSet(T) /\ Cardinality(T) \in Nat
  BY FS_Subset, FS_CardinalityType
<1>2. 0 \in N
  BY <1>1, FS_EmptySet
<1>3. ASSUME NEW n \in Nat, n \in N PROVE n + 1 \in N
  <2> SUFFICES ASSUME NEW T \in SUBSET S, Cardinality(T) = n + 1 PROVE T \in G
    OBVIOUS
  <2>0. IsFiniteSet(T) /\ T # {}
    BY <1>1, FS_EmptySet, SMT
  <2>1. PICK x : x \in T
    BY <2>0
  <2>2. Cardinality(T \ {x}) = Cardinality(T) - 1
    BY <2>0, <2>1, FS_RemoveElement
  <2>3. T \ {x} \in G
    BY <1>3, <2>2, SMT
  <2>4. (T \ {x}) \cup {x} \in G
    BY <2>1, <2>3
  <2>5. (T \ {x}) \cup {x} = T
    BY <2>1
  <2> QED BY <2>4, <2>5
<1> HIDE DEF N
<1>4. Nat \subseteq N
  BY <1>2, <1>3, InductionOnNat
<1>5. Cardinality(S) \in N
  BY <1>1, <1>4
<1> QED BY <1>5 DEF N

-----------------------------------------------------------------------------
(* The recursive function behind a sum.                                    *)

Some(s) == CHOOSE x \in s : TRUE

SumStep(f, g, s) == IF s = {} THEN 0 ELSE f[Some(s)] + g[s \ {Some(s)}]

SumTable(f, S) == CHOOSE g : g = [s \in SUBSET S |-> SumStep(f, g, s)]

LEMMA SumIsTable ==
    ASSUME NEW f, NEW S
    PROVE  SumFunctionOnSet(f, S) = SumTable(f, S)[S]
BY DEF SumFunctionOnSet, FoldFunctionOnSet, MapThenFoldSet, SumTable, SumStep, Some

\* The table exists: it is built up for sets of one element more at a time.
LEMMA SumTableDef ==
    ASSUME NEW f, NEW S, IsFiniteSet(S)
    PROVE  \A s \in SUBSET S : SumTable(f, S)[s] = SumStep(f, SumTable(f, S), s)
<1> DEFINE Small(n) == {s \in SUBSET S : Cardinality(s) <= n}
           Part(g, n) == g = [s \in Small(n) |-> SumStep(f, g, s)]
           N == {n \in Nat : \E g : Part(g, n)}
<1>1. \A s \in SUBSET S : IsFiniteSet(s) /\ Cardinality(s) \in Nat
  BY FS_Subset, FS_CardinalityType
<1>2. \A s \in SUBSET S : s # {} => /\ Some(s) \in s
                                    /\ Cardinality(s \ {Some(s)}) = Cardinality(s) - 1
  BY <1>1, FS_RemoveElement DEF Some
<1>3. 0 \in N
  <2> DEFINE g == [s \in Small(0) |-> 0]
  <2>1. \A s \in Small(0) : s = {}
    BY <1>1, FS_EmptySet, SMT
  <2>2. \A s \in Small(0) : SumStep(f, g, s) = 0
    BY <2>1 DEF SumStep
  <2>3. Part(g, 0)
    BY <2>2
  <2> QED BY <2>3
<1>4. ASSUME NEW n \in Nat, n \in N PROVE n + 1 \in N
  <2>1. PICK g : Part(g, n)
    BY <1>4
  <2> DEFINE h == [s \in Small(n + 1) |-> SumStep(f, g, s)]
  <2>2. \A s \in Small(n) : s \in Small(n + 1) /\ h[s] = g[s]
    <3>1. \A s \in Small(n) : s \in Small(n + 1)
      BY <1>1, SMT
    <3>2. \A s \in Small(n) : g[s] = SumStep(f, g, s)
      BY <2>1, Zenon
    <3> QED BY <3>1, <3>2
  <2>3. \A s \in Small(n + 1) : s # {} => s \ {Some(s)} \in Small(n)
    BY <1>1, <1>2, SMT
  <2>4. \A s \in Small(n + 1) : SumStep(f, h, s) = SumStep(f, g, s)
    BY <2>2, <2>3, Zenon DEF SumStep
  <2>5. Part(h, n + 1)
    BY <2>4, Zenon
  <2>6. \E k : Part(k, n + 1)
    BY <2>5, Zenon
  <2>7. n + 1 \in Nat
    OBVIOUS
  <2> QED BY <2>6, <2>7, Zenon
<1> HIDE DEF N
<1>5. Cardinality(S) \in N
  BY <1>1, <1>3, <1>4, InductionOnNat
<1>6. PICK g : Part(g, Cardinality(S))
  BY <1>5 DEF N
<1>7. Small(Cardinality(S)) = SUBSET S
  BY FS_Subset
<1>8. g = [s \in SUBSET S |-> SumStep(f, g, s)]
  BY <1>6, <1>7
<1> DEFINE T == SumTable(f, S)
<1>9. T = [s \in SUBSET S |-> SumStep(f, T, s)]
  BY <1>8, Zenon DEF SumTable
<1> HIDE DEF T
<1>10. \A s \in SUBSET S : T[s] = SumStep(f, T, s)
  BY <1>9
<1> QED BY <1>10 DEF T

\* The table of a set agrees with that of a set within.
LEMMA SumTableSubset ==
    ASSUME NEW f, NEW S, IsFiniteSet(S), NEW T \in SUBSET S
    PROVE  SumTable(f, S)[T] = SumTable(f, T)[T]
<1> DEFINE g == SumTable(f, S)
           h == SumTable(f, T)
           N == {n \in Nat : \A s \in SUBSET T : Cardinality(s) = n => g[s] = h[s]}
<1>1. IsFiniteSet(T) /\ \A s \in SUBSET T : IsFiniteSet(s) /\ Cardinality(s) \in Nat
  BY FS_Subset, FS_CardinalityType
<1>2. \A s \in SUBSET T : g[s] = SumStep(f, g, s)
  <2>1. \A s \in SUBSET S : g[s] = SumStep(f, g, s)
    BY SumTableDef
  <2> QED BY <2>1
<1>3. \A s \in SUBSET T : h[s] = SumStep(f, h, s)
  BY <1>1, SumTableDef
<1> HIDE DEF g, h
<1>4. 0 \in N
  <2> SUFFICES ASSUME NEW s \in SUBSET T, Cardinality(s) = 0 PROVE g[s] = h[s]
    OBVIOUS
  <2>1. s = {}
    BY <1>1, FS_EmptySet
  <2> QED BY <2>1, <1>2, <1>3 DEF SumStep
<1>5. ASSUME NEW n \in Nat, n \in N PROVE n + 1 \in N
  <2> SUFFICES ASSUME NEW s \in SUBSET T, Cardinality(s) = n + 1 PROVE g[s] = h[s]
    OBVIOUS
  <2>1. s # {} /\ IsFiniteSet(s)
    BY <1>1, FS_EmptySet, SMT
  <2>2. Some(s) \in s
    BY <2>1 DEF Some
  <2>3. Cardinality(s \ {Some(s)}) = Cardinality(s) - 1
    BY <2>1, <2>2, FS_RemoveElement
  <2>4. g[s \ {Some(s)}] = h[s \ {Some(s)}]
    BY <1>5, <2>3, SMT
  <2> QED BY <2>1, <2>4, <1>2, <1>3 DEF SumStep
<1> HIDE DEF N
<1>6. Cardinality(T) \in N
  BY <1>1, <1>4, <1>5, InductionOnNat
<1> QED BY <1>6 DEF N, g, h

-----------------------------------------------------------------------------
(* What a reader expects of a sum.                                         *)

\* The sum over nothing is zero.
LEMMA SumEmpty == ASSUME NEW f PROVE SumFunctionOnSet(f, {}) = 0
<1>1. IsFiniteSet({})
  BY FS_EmptySet
<1>2. SumTable(f, {})[{}] = SumStep(f, SumTable(f, {}), {})
  BY <1>1, SumTableDef
<1> QED BY <1>2, SumIsTable DEF SumStep

\* The element the definition takes out.
LEMMA SumSome ==
    ASSUME NEW f, NEW S, IsFiniteSet(S), S # {}
    PROVE  /\ Some(S) \in S
           /\ SumFunctionOnSet(f, S) = f[Some(S)] + SumFunctionOnSet(f, S \ {Some(S)})
<1>1. Some(S) \in S
  BY DEF Some
<1>2. SumTable(f, S)[S] = f[Some(S)] + SumTable(f, S)[S \ {Some(S)}]
  <2>1. SumTable(f, S)[S] = SumStep(f, SumTable(f, S), S)
    BY SumTableDef
  <2> QED BY <2>1 DEF SumStep
<1>3. SumTable(f, S)[S \ {Some(S)}] = SumTable(f, S \ {Some(S)})[S \ {Some(S)}]
  BY SumTableSubset
<1> QED BY <1>1, <1>2, <1>3, SumIsTable

\* A sum of naturals is one.
LEMMA SumNat ==
    ASSUME NEW f, NEW S, IsFiniteSet(S), \A x \in S : f[x] \in Nat
    PROVE  SumFunctionOnSet(f, S) \in Nat
<1> DEFINE N == {n \in Nat : \A T \in SUBSET S :
                    Cardinality(T) = n => SumFunctionOnSet(f, T) \in Nat}
<1>1. \A T \in SUBSET S : IsFiniteSet(T) /\ Cardinality(T) \in Nat
  BY FS_Subset, FS_CardinalityType
<1>2. 0 \in N
  BY <1>1, FS_EmptySet, SumEmpty
<1>3. ASSUME NEW n \in Nat, n \in N PROVE n + 1 \in N
  <2> SUFFICES ASSUME NEW T \in SUBSET S, Cardinality(T) = n + 1
               PROVE  SumFunctionOnSet(f, T) \in Nat
    OBVIOUS
  <2>1. IsFiniteSet(T) /\ T # {}
    BY <1>1, FS_EmptySet, SMT
  <2>2. /\ Some(T) \in T
        /\ SumFunctionOnSet(f, T) = f[Some(T)] + SumFunctionOnSet(f, T \ {Some(T)})
    BY <2>1, SumSome
  <2>3. Cardinality(T \ {Some(T)}) = Cardinality(T) - 1
    BY <2>1, <2>2, FS_RemoveElement
  <2>4. SumFunctionOnSet(f, T \ {Some(T)}) \in Nat
    BY <1>3, <2>3, SMT
  <2> QED BY <2>2, <2>4, SMT
<1> HIDE DEF N
<1>4. Cardinality(S) \in N
  BY <1>1, <1>2, <1>3, InductionOnNat
<1> QED BY <1>4 DEF N

\* Any element may be taken out of a sum, not only the one the definition chooses.
LEMMA SumTakeOut ==
    ASSUME NEW f, NEW S, IsFiniteSet(S), \A x \in S : f[x] \in Nat, NEW y \in S
    PROVE  SumFunctionOnSet(f, S) = f[y] + SumFunctionOnSet(f, S \ {y})
<1> DEFINE Sum(T) == SumFunctionOnSet(f, T)
           N == {n \in Nat : \A T \in SUBSET S : \A x \in T :
                    Cardinality(T) = n => Sum(T) = f[x] + Sum(T \ {x})}
<1>1. \A T \in SUBSET S : IsFiniteSet(T) /\ Cardinality(T) \in Nat /\ Sum(T) \in Nat
  BY FS_Subset, FS_CardinalityType, SumNat
<1>2. 0 \in N
  BY <1>1, FS_EmptySet
<1>3. ASSUME NEW n \in Nat, n \in N PROVE n + 1 \in N
  <2> SUFFICES ASSUME NEW T \in SUBSET S, NEW x \in T, Cardinality(T) = n + 1
               PROVE  Sum(T) = f[x] + Sum(T \ {x})
    OBVIOUS
  <2> DEFINE y0 == Some(T)
  <2>1. IsFiniteSet(T) /\ T # {}
    BY <1>1
  <2>2. y0 \in T /\ Sum(T) = f[y0] + Sum(T \ {y0})
    BY <2>1, SumSome
  <2>3. CASE x = y0
    BY <2>2, <2>3
  <2>4. CASE x # y0
    <3>1. Cardinality(T \ {y0}) = Cardinality(T) - 1 /\ Cardinality(T \ {x}) = Cardinality(T) - 1
      BY <2>1, <2>2, FS_RemoveElement
    <3>2. Cardinality(T \ {y0}) = n /\ Cardinality(T \ {x}) = n
      BY <3>1, SMT
    <3>3. x \in T \ {y0} /\ y0 \in T \ {x}
      BY <2>2, <2>4
    <3> HIDE DEF y0, Sum
    <3>4. Sum(T \ {y0}) = f[x] + Sum((T \ {y0}) \ {x})
      BY <1>3, <3>2, <3>3
    <3>5. Sum(T \ {x}) = f[y0] + Sum((T \ {x}) \ {y0})
      BY <1>3, <3>2, <3>3
    <3>6. (T \ {y0}) \ {x} = (T \ {x}) \ {y0}
      OBVIOUS
    <3>7. f[x] \in Nat /\ f[y0] \in Nat /\ Sum((T \ {x}) \ {y0}) \in Nat
      BY <1>1, <2>2
    <3> QED BY <2>2, <3>4, <3>5, <3>6, <3>7, SMT
  <2> QED BY <2>3, <2>4
<1> HIDE DEF N
<1>4. Cardinality(S) \in N
  BY <1>1, <1>2, <1>3, InductionOnNat
<1> QED BY <1>4 DEF N

\* An element more.
LEMMA SumPutIn ==
    ASSUME NEW f, NEW S, IsFiniteSet(S), NEW y, y \notin S, \A x \in S \cup {y} : f[x] \in Nat
    PROVE  SumFunctionOnSet(f, S \cup {y}) = SumFunctionOnSet(f, S) + f[y]
<1>1. IsFiniteSet(S \cup {y})
  BY FS_AddElement
<1>2. (S \cup {y}) \ {y} = S
  OBVIOUS
<1>3. SumFunctionOnSet(f, S \cup {y}) = f[y] + SumFunctionOnSet(f, S)
  BY <1>1, <1>2, SumTakeOut
<1>4. SumFunctionOnSet(f, S) \in Nat /\ f[y] \in Nat
  BY SumNat
<1> QED BY <1>3, <1>4, SMT

\* Only the values on the set count, and a sum grows with them.
LEMMA SumMonotone ==
    ASSUME NEW f, NEW g, NEW S, IsFiniteSet(S),
           \A x \in S : f[x] \in Nat /\ g[x] \in Nat /\ f[x] <= g[x]
    PROVE  SumFunctionOnSet(f, S) <= SumFunctionOnSet(g, S)
<1> DEFINE G == {T \in SUBSET S : SumFunctionOnSet(f, T) <= SumFunctionOnSet(g, T)}
<1>1. {} \in G
  BY SumEmpty
<1>2. ASSUME NEW T \in SUBSET S, NEW x \in S, T \in G, x \notin T PROVE T \cup {x} \in G
  <2>1. IsFiniteSet(T)
    BY FS_Subset
  <2>2. /\ SumFunctionOnSet(f, T \cup {x}) = SumFunctionOnSet(f, T) + f[x]
        /\ SumFunctionOnSet(g, T \cup {x}) = SumFunctionOnSet(g, T) + g[x]
    BY <1>2, <2>1, SumPutIn
  <2>3. SumFunctionOnSet(f, T) \in Nat /\ SumFunctionOnSet(g, T) \in Nat
    BY <2>1, SumNat
  <2>4. SumFunctionOnSet(f, T \cup {x}) <= SumFunctionOnSet(g, T \cup {x})
    BY <1>2, <2>2, <2>3, SMT
  <2> QED BY <2>4
<1> HIDE DEF G
<1>3. S \in G
  BY <1>1, <1>2, InductionOnSet
<1> QED BY <1>3 DEF G

LEMMA SumSame ==
    ASSUME NEW f, NEW g, NEW S, IsFiniteSet(S), \A x \in S : f[x] \in Nat /\ g[x] = f[x]
    PROVE  SumFunctionOnSet(f, S) = SumFunctionOnSet(g, S)
<1>1. \A x \in S : /\ f[x] \in Nat /\ g[x] \in Nat
                   /\ f[x] <= g[x] /\ g[x] <= f[x]
  OBVIOUS
<1>2. SumFunctionOnSet(f, S) <= SumFunctionOnSet(g, S)
  BY <1>1, SumMonotone
<1>3. SumFunctionOnSet(g, S) <= SumFunctionOnSet(f, S)
  BY <1>1, SumMonotone
<1>4. SumFunctionOnSet(f, S) \in Nat /\ SumFunctionOnSet(g, S) \in Nat
  BY SumNat
<1> QED BY <1>2, <1>3, <1>4, SMT

\* One value changes.
LEMMA SumChange ==
    ASSUME NEW f, NEW g, NEW S, IsFiniteSet(S), NEW y \in S,
           \A x \in S : f[x] \in Nat /\ g[x] \in Nat,
           \A x \in S \ {y} : g[x] = f[x]
    PROVE  SumFunctionOnSet(g, S) + f[y] = SumFunctionOnSet(f, S) + g[y]
<1>1. IsFiniteSet(S \ {y})
  BY FS_Subset
<1>2. SumFunctionOnSet(f, S) = f[y] + SumFunctionOnSet(f, S \ {y})
  BY SumTakeOut
<1>3. SumFunctionOnSet(g, S) = g[y] + SumFunctionOnSet(g, S \ {y})
  BY SumTakeOut
<1>4. SumFunctionOnSet(f, S \ {y}) = SumFunctionOnSet(g, S \ {y})
  BY <1>1, SumSame
<1>5. SumFunctionOnSet(f, S \ {y}) \in Nat
  BY <1>1, SumNat
<1> QED BY <1>2, <1>3, <1>4, <1>5, SMT

\* A part is no more than the whole.
LEMMA SumPart ==
    ASSUME NEW f, NEW S, IsFiniteSet(S), \A x \in S : f[x] \in Nat, NEW T \in SUBSET S
    PROVE  SumFunctionOnSet(f, T) <= SumFunctionOnSet(f, S)
<1> DEFINE G == {U \in SUBSET S : SumFunctionOnSet(f, T \cap U) <= SumFunctionOnSet(f, U)}
<1>1. {} \in G
  <2>1. T \cap {} = {}
    OBVIOUS
  <2> QED BY <2>1, SumEmpty
<1>2. ASSUME NEW U \in SUBSET S, NEW x \in S, U \in G, x \notin U PROVE U \cup {x} \in G
  <2>1. IsFiniteSet(U) /\ IsFiniteSet(T \cap U)
    BY FS_Subset
  <2>2. SumFunctionOnSet(f, U \cup {x}) = SumFunctionOnSet(f, U) + f[x]
    BY <1>2, <2>1, SumPutIn
  <2>3. \/ T \cap (U \cup {x}) = T \cap U
        \/ T \cap (U \cup {x}) = (T \cap U) \cup {x}
    OBVIOUS
  <2>4. SumFunctionOnSet(f, (T \cap U) \cup {x}) = SumFunctionOnSet(f, T \cap U) + f[x]
    BY <1>2, <2>1, SumPutIn
  <2>5. SumFunctionOnSet(f, U) \in Nat /\ SumFunctionOnSet(f, T \cap U) \in Nat
    BY <2>1, SumNat
  <2>6. CASE T \cap (U \cup {x}) = T \cap U
    <3>1. SumFunctionOnSet(f, T \cap (U \cup {x})) = SumFunctionOnSet(f, T \cap U)
      BY <2>6, Zenon
    <3> QED BY <1>2, <2>2, <2>5, <3>1, SMT
  <2>7. CASE T \cap (U \cup {x}) = (T \cap U) \cup {x}
    <3>1. SumFunctionOnSet(f, T \cap (U \cup {x})) = SumFunctionOnSet(f, (T \cap U) \cup {x})
      BY <2>7, Zenon
    <3> QED BY <1>2, <2>2, <2>4, <2>5, <3>1, SMT
  <2> QED BY <2>3, <2>6, <2>7
<1> HIDE DEF G
<1>3. S \in G
  BY <1>1, <1>2, InductionOnSet
<1>4. T \cap S = T
  OBVIOUS
<1> QED BY <1>3, <1>4 DEF G

\* A sum of nothing but zeros.
LEMMA SumZero ==
    ASSUME NEW f, NEW S, IsFiniteSet(S), \A x \in S : f[x] = 0
    PROVE  SumFunctionOnSet(f, S) = 0
<1> DEFINE G == {T \in SUBSET S : SumFunctionOnSet(f, T) = 0}
<1>1. {} \in G
  BY SumEmpty
<1>2. ASSUME NEW T \in SUBSET S, NEW x \in S, T \in G, x \notin T PROVE T \cup {x} \in G
  <2>1. IsFiniteSet(T)
    BY FS_Subset
  <2>2. SumFunctionOnSet(f, T \cup {x}) = SumFunctionOnSet(f, T) + f[x]
    BY <1>2, <2>1, SumPutIn
  <2> QED BY <1>2, <2>2, SMT
<1> HIDE DEF G
<1>3. S \in G
  BY <1>1, <1>2, InductionOnSet
<1> QED BY <1>3 DEF G

\* Sums are added value by value.
LEMMA SumPlus ==
    ASSUME NEW f, NEW g, NEW h, NEW S, IsFiniteSet(S),
           \A x \in S : f[x] \in Nat /\ g[x] \in Nat /\ h[x] = f[x] + g[x]
    PROVE  SumFunctionOnSet(h, S) = SumFunctionOnSet(f, S) + SumFunctionOnSet(g, S)
<1> DEFINE G == {T \in SUBSET S : SumFunctionOnSet(h, T)
                                    = SumFunctionOnSet(f, T) + SumFunctionOnSet(g, T)}
<1>1. {} \in G
  BY SumEmpty
<1>2. ASSUME NEW T \in SUBSET S, NEW x \in S, T \in G, x \notin T PROVE T \cup {x} \in G
  <2>1. IsFiniteSet(T)
    BY FS_Subset
  <2>2. /\ SumFunctionOnSet(f, T \cup {x}) = SumFunctionOnSet(f, T) + f[x]
        /\ SumFunctionOnSet(g, T \cup {x}) = SumFunctionOnSet(g, T) + g[x]
    BY <1>2, <2>1, SumPutIn
  <2>3. SumFunctionOnSet(h, T \cup {x}) = SumFunctionOnSet(h, T) + h[x]
    <3>1. \A y \in S : h[y] \in Nat
      OBVIOUS
    <3> QED BY <1>2, <2>1, <3>1, SumPutIn
  <2>4. SumFunctionOnSet(f, T) \in Nat /\ SumFunctionOnSet(g, T) \in Nat
    BY <2>1, SumNat
  <2>5. SumFunctionOnSet(h, T \cup {x})
           = SumFunctionOnSet(f, T \cup {x}) + SumFunctionOnSet(g, T \cup {x})
    BY <1>2, <2>2, <2>3, <2>4, SMT
  <2> QED BY <2>5
<1> HIDE DEF G
<1>3. S \in G
  BY <1>1, <1>2, InductionOnSet
<1> QED BY <1>3 DEF G

\* What has no value may be left out.
LEMMA SumSupport ==
    ASSUME NEW f, NEW S, IsFiniteSet(S), \A x \in S : f[x] \in Nat,
           NEW T \in SUBSET S, \A x \in S \ T : f[x] = 0
    PROVE  SumFunctionOnSet(f, S) = SumFunctionOnSet(f, T)
<1> DEFINE G == {U \in SUBSET S : SumFunctionOnSet(f, U) = SumFunctionOnSet(f, T \cap U)}
<1>1. {} \in G
  <2>1. T \cap {} = {}
    OBVIOUS
  <2> QED BY <2>1
<1>2. ASSUME NEW U \in SUBSET S, NEW x \in S, U \in G, x \notin U PROVE U \cup {x} \in G
  <2>1. IsFiniteSet(U) /\ IsFiniteSet(T \cap U) /\ \A y \in U \cup {x} : f[y] \in Nat
    BY FS_Subset
  <2>2. SumFunctionOnSet(f, U \cup {x}) = SumFunctionOnSet(f, U) + f[x]
    BY <1>2, <2>1, SumPutIn
  <2>3. SumFunctionOnSet(f, T \cap (U \cup {x})) = SumFunctionOnSet(f, T \cap U) + f[x]
    <3>1. CASE x \in T
      <4>1. T \cap (U \cup {x}) = (T \cap U) \cup {x}
        BY <3>1
      <4>2. \A y \in (T \cap U) \cup {x} : f[y] \in Nat
        BY <2>1
      <4>3. SumFunctionOnSet(f, (T \cap U) \cup {x}) = SumFunctionOnSet(f, T \cap U) + f[x]
        BY <1>2, <2>1, <4>2, SumPutIn
      <4> QED BY <4>1, <4>3
    <3>2. CASE x \notin T
      <4>1. T \cap (U \cup {x}) = T \cap U
        BY <3>2
      <4>2. SumFunctionOnSet(f, T \cap U) \in Nat
        <5>1. \A y \in T \cap U : f[y] \in Nat
          BY <2>1
        <5>2. IsFiniteSet(T \cap U)
          BY <2>1
        <5> QED BY <5>1, <5>2, SumNat
      <4>3. f[x] = 0
        BY <3>2
      <4>4. SumFunctionOnSet(f, T \cap (U \cup {x})) = SumFunctionOnSet(f, T \cap U)
        BY <4>1, Zenon
      <4> QED BY <4>2, <4>3, <4>4
    <3> QED BY <3>1, <3>2
  <2>4. SumFunctionOnSet(f, U) = SumFunctionOnSet(f, T \cap U)
    BY <1>2
  <2>5. SumFunctionOnSet(f, U \cup {x}) = SumFunctionOnSet(f, T \cap (U \cup {x}))
    BY <2>2, <2>3, <2>4
  <2> QED BY <2>5
<1>3. T \cap S = T
  OBVIOUS
<1> HIDE DEF G
<1>4. S \in G
  BY <1>1, <1>2, InductionOnSet
<1> QED BY <1>3, <1>4 DEF G

\* Sorted by a key and added up for each key, it is the same sum.
ByKey(w, R, key, K) == [k \in K |-> SumFunctionOnSet(w, {r \in R : key[r] = k})]

LEMMA SumByKey ==
    ASSUME NEW w, NEW key, NEW R, IsFiniteSet(R), \A r \in R : w[r] \in Nat,
           NEW K, IsFiniteSet(K), \A r \in R : key[r] \in K
    PROVE  SumFunctionOnSet(ByKey(w, R, key, K), K) = SumFunctionOnSet(w, R)
<1> DEFINE Of(T, k) == {r \in T : key[r] = k}
           Row(T) == [k \in K |-> SumFunctionOnSet(w, Of(T, k))]
           G == {T \in SUBSET R : SumFunctionOnSet(Row(T), K) = SumFunctionOnSet(w, T)}
<1>1. {} \in G
  <2>1. \A k \in K : Of({}, k) = {}
    OBVIOUS
  <2>2. \A k \in K : Row({})[k] = 0
    BY <2>1, SumEmpty
  <2> HIDE DEF Row
  <2>3. SumFunctionOnSet(Row({}), K) = 0
    BY <2>2, SumZero
  <2> QED BY <2>3, SumEmpty
<1>2. ASSUME NEW T \in SUBSET R, NEW x \in R, T \in G, x \notin T PROVE T \cup {x} \in G
  <2> DEFINE U == T \cup {x}
  <2>1. IsFiniteSet(T) /\ IsFiniteSet(U)
    BY FS_Subset
  <2>2. SumFunctionOnSet(w, U) = SumFunctionOnSet(w, T) + w[x]
    BY <1>2, <2>1, SumPutIn
  <2>3. SumFunctionOnSet(w, T) \in Nat
    BY <2>1, SumNat
  <2>4. \A k \in K : Row(T)[k] \in Nat /\ Row(U)[k] \in Nat
    <3>1. \A k \in K : IsFiniteSet(Of(T, k)) /\ IsFiniteSet(Of(U, k))
      BY <2>1, FS_Subset
    <3>2. \A k \in K : /\ SumFunctionOnSet(w, Of(T, k)) \in Nat
                       /\ SumFunctionOnSet(w, Of(U, k)) \in Nat
      BY <3>1, SumNat
    <3> QED BY <3>2
  <2>5. \A k \in K : k # key[x] => Row(U)[k] = Row(T)[k]
    <3>1. \A k \in K : k # key[x] => Of(U, k) = Of(T, k)
      OBVIOUS
    <3> QED BY <3>1
  <2>6. Row(U)[key[x]] = Row(T)[key[x]] + w[x]
    <3>1. Of(U, key[x]) = Of(T, key[x]) \cup {x}
      OBVIOUS
    <3>2. IsFiniteSet(Of(T, key[x])) /\ x \notin Of(T, key[x])
      BY <1>2, <2>1, FS_Subset
    <3>3. \A r \in Of(T, key[x]) \cup {x} : w[r] \in Nat
      OBVIOUS
    <3> HIDE DEF Of
    <3>4. SumFunctionOnSet(w, Of(T, key[x]) \cup {x}) = SumFunctionOnSet(w, Of(T, key[x])) + w[x]
      BY <3>2, <3>3, SumPutIn
    <3> QED BY <3>1, <3>4
  <2> HIDE DEF Row, U
  <2>7. SumFunctionOnSet(Row(T), K) \in Nat /\ SumFunctionOnSet(Row(U), K) \in Nat
    BY <2>4, SumNat
  <2>8. SumFunctionOnSet(Row(U), K) + Row(T)[key[x]]
           = SumFunctionOnSet(Row(T), K) + Row(U)[key[x]]
    BY <2>4, <2>5, SumChange
  <2>9. SumFunctionOnSet(Row(U), K) = SumFunctionOnSet(w, U)
    BY <1>2, <2>2, <2>3, <2>4, <2>6, <2>7, <2>8, SMT
  <2> QED BY <2>9 DEF U
<1> HIDE DEF Row, G
<1>3. R \in G
  BY <1>1, <1>2, InductionOnSet
<1> QED BY <1>3 DEF G, Row, ByKey
=============================================================================
