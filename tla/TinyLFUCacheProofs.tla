------------------------ MODULE TinyLFUCacheProofs -------------------------
(***************************************************************************)
(* The sketch of TinyLFU errs on one side only, its door protects hot keys *)
(* and the cache keeps the interface of CachePolicy: proved for every set  *)
(* of keys, every hash, every table shape, every capacity and every aging  *)
(* window.                                                                 *)
(*                                                                         *)
(* The lemmas about lists are those of ARCCacheProofs, which has other      *)
(* variables and cannot be extended here.                                  *)
(*                                                                         *)
(* NeverUnderestimates says something of the least cell of a key.  What is *)
(* inductive is said of all of them (EveryCell): each cell a key hashes to *)
(* has been counted at least as often as the key, and halving keeps the    *)
(* order.  A cell that one key has for itself is exact (LoneCells), which   *)
(* HotKeysSurvive needs of a newcomer.  RowsWithinTotal speaks of sums: SumFunction is unfolded one     *)
(* element at a time (SumUnfolds), so that what halving and counting do to *)
(* each counter can be said of their sum.                                  *)
(***************************************************************************)
EXTENDS TinyLFUCache, FiniteSetTheorems, SequenceTheorems, TLAPS
-----------------------------------------------------------------------------
\* Lists in which no element occurs twice: the OrderedDict of the cache.
Distinct(S) == {s \in Seq(S) : IsInjective(s)}

\* A non-empty set of naturals has a least element (induction, by the
\* well-founded order on the intervals 0 .. x).
LEMMA SmallestExists ==
    ASSUME NEW S \in SUBSET Nat, S # {}
    PROVE  Min(S) \in S /\ \A x \in S : Min(S) <= x
<1> DEFINE Below == {0 .. x : x \in S}
<1>1. Below \subseteq FiniteSubsetsOf(Nat) /\ Below # {}
  <2>1. ASSUME NEW x \in S PROVE 0 .. x \in FiniteSubsetsOf(Nat)
    <3>1. IsFiniteSet(0 .. x) /\ 0 .. x \in SUBSET Nat
      BY FS_Interval
    <3> QED
      BY <3>1 DEF FiniteSubsetsOf
  <2> QED
    BY <2>1
<1>2. PICK X \in Below : \A Y \in Below : <<Y, X>> \notin StrictSubsetOrdering(Nat)
  BY <1>1, FS_StrictSubsetOrderingWellFounded, WFMin
<1>3. PICK x \in S : X = 0 .. x
  OBVIOUS
<1>4. ASSUME NEW y \in S PROVE x <= y
  <2> SUFFICES ASSUME y < x PROVE FALSE
    OBVIOUS
  <2>1. 0 .. y \in SUBSET Nat /\ X \in SUBSET Nat /\ 0 .. y \subseteq X
    BY <1>3
  <2>2. x \in X /\ x \notin 0 .. y
    BY <1>3
  <2>3. <<0 .. y, X>> \in StrictSubsetOrdering(Nat)
    BY <2>1, <2>2 DEF StrictSubsetOrdering
  <2> QED
    BY <1>2, <2>3
<1> QED
  BY <1>4 DEF Min

LEMMA DistinctRange ==
    ASSUME NEW S, NEW s \in Distinct(S)
    PROVE  /\ Len(s) \in Nat
           /\ ToSet(s) \subseteq S
           /\ ToSet(s) = {} <=> Len(s) = 0
           /\ s = <<>> <=> Len(s) = 0
           /\ \A i \in 1 .. Len(s) : s[i] \in ToSet(s)
  BY DEF Distinct, ToSet

\* del d[key], pop(key)
LEMMA RemoveElement ==
    ASSUME NEW S, NEW s \in Distinct(S), NEW i \in 1 .. Len(s)
    PROVE  /\ RemoveAt(s, i) \in Distinct(S)
           /\ Len(RemoveAt(s, i)) = Len(s) - 1
           /\ ToSet(RemoveAt(s, i)) = ToSet(s) \ {s[i]}
<1> DEFINE head == SubSeq(s, 1, i - 1)
           tail == SubSeq(s, i + 1, Len(s))
           rest == RemoveAt(s, i)
<1>1. /\ s \in Seq(S) /\ Len(s) \in Nat /\ DOMAIN s = 1 .. Len(s)
      /\ \A j \in 1 .. Len(s) : s[j] \in S
      /\ \A j, k \in 1 .. Len(s) : s[j] = s[k] => j = k
  BY LenProperties DEF Distinct, IsInjective
<1>2. /\ head \in Seq(S) /\ Len(head) = i - 1
      /\ \A j \in 1 .. i - 1 : head[j] = s[j]
  BY <1>1, SubSeqProperties
<1>3. /\ tail \in Seq(S) /\ Len(tail) = Len(s) - i
      /\ \A j \in 1 .. Len(s) - i : tail[j] = s[i + j]
  <2>1. /\ tail \in Seq(S)
        /\ Len(tail) = IF i + 1 <= Len(s) THEN Len(s) - (i + 1) + 1 ELSE 0
        /\ \A j \in 1 .. Len(s) - (i + 1) + 1 : tail[j] = s[(i + 1) + j - 1]
    <3>1. \A j \in i + 1 .. Len(s) : s[j] \in S
      BY <1>1
    <3> HIDE DEF tail
    <3> DEFINE m == i + 1
               n == Len(s)
    <3>2. m \in Int /\ n \in Int
      BY <1>1
    <3>3. tail = SubSeq(s, m, n)
      BY DEF tail
    <3> HIDE DEF m, n
    <3>4. /\ tail \in Seq(S)
          /\ Len(tail) = IF m <= n THEN n - m + 1 ELSE 0
          /\ \A j \in 1 .. n - m + 1 : tail[j] = s[m + j - 1]
      BY <3>1, <3>2, <3>3, SubSeqProperties DEF m, n
    <3> QED
      BY <3>4 DEF m, n
  <2> HIDE DEF tail
  <2>2. Len(tail) = Len(s) - i
    <3>1. Len(s) \in Nat /\ i \in Nat /\ i <= Len(s)
      BY <1>1
    <3> QED
      BY <2>1, <3>1
  <2>3. ASSUME NEW j \in 1 .. Len(s) - i PROVE tail[j] = s[i + j]
    <3>1. j \in 1 .. Len(s) - (i + 1) + 1 /\ (i + 1) + j - 1 = i + j
      BY <1>1
    <3> QED
      BY <2>1, <3>1
  <2> QED
    BY <2>1, <2>2, <2>3
<1>4. /\ rest \in Seq(S) /\ Len(rest) = Len(s) - 1
      /\ DOMAIN rest = 1 .. Len(s) - 1
      /\ \A j \in 1 .. Len(s) - 1 : rest[j] = IF j < i THEN s[j] ELSE s[j + 1]
  <2> HIDE DEF head, tail
  <2>1. rest = head \o tail
    BY DEF RemoveAt, head, tail
  <2> HIDE DEF rest
  <2>2. rest \in Seq(S) /\ Len(rest) = Len(head) + Len(tail)
    BY <2>1, <1>2, <1>3, ConcatProperties
  <2>3. \A j \in 1 .. Len(head) + Len(tail) :
            rest[j] = IF j <= Len(head) THEN head[j] ELSE tail[j - Len(head)]
    BY <2>1, <1>2, <1>3, ConcatProperties
  <2>4. Len(s) \in Nat /\ i \in 1 .. Len(s)
    BY <1>1
  <2>5. Len(rest) = Len(s) - 1
    BY <1>2, <1>3, <2>2, <2>4
  <2>6. ASSUME NEW j \in 1 .. Len(s) - 1
        PROVE  rest[j] = IF j < i THEN s[j] ELSE s[j + 1]
    <3>1. j \in 1 .. Len(head) + Len(tail)
      BY <1>2, <1>3, <2>4
    <3>2. CASE j < i
      BY <1>2, <2>3, <2>4, <3>1, <3>2
    <3>3. CASE j >= i
      <4>1. j - (i - 1) \in 1 .. Len(s) - i /\ i + (j - (i - 1)) = j + 1
        BY <2>4, <3>3
      <4>2. ~(j <= Len(head))
        BY <1>2, <2>4, <3>3
      <4>3. rest[j] = tail[j - Len(head)]
        BY <2>3, <3>1, <4>2
      <4> QED
        BY <1>2, <1>3, <2>4, <3>3, <4>1, <4>3
    <3> QED
      BY <2>4, <3>2, <3>3
  <2> QED
    BY <2>2, <2>5, <2>6, LenProperties
<1> HIDE DEF rest
<1>5. IsInjective(rest)
  <2> SUFFICES ASSUME NEW j \in 1 .. Len(s) - 1, NEW k \in 1 .. Len(s) - 1, rest[j] = rest[k]
               PROVE  j = k
    BY <1>4 DEF IsInjective
  <2> DEFINE old(n) == IF n < i THEN n ELSE n + 1
  <2>1. old(j) \in 1 .. Len(s) /\ old(k) \in 1 .. Len(s) /\ s[old(j)] = s[old(k)]
    BY <1>1, <1>4
  <2>2. old(j) = old(k)
    BY <1>1, <2>1
  <2> QED
    BY <2>2
<1>6. ToSet(rest) = ToSet(s) \ {s[i]}
  <2>1. ASSUME NEW j \in 1 .. Len(s) - 1 PROVE rest[j] \in ToSet(s) \ {s[i]}
    BY <1>1, <1>4 DEF ToSet
  <2>2. ASSUME NEW j \in 1 .. Len(s), s[j] # s[i] PROVE s[j] \in ToSet(rest)
    <3>1. CASE j < i
      BY <1>1, <1>4, <3>1 DEF ToSet
    <3>2. CASE j > i
      <4>1. j - 1 \in 1 .. Len(s) - 1 /\ rest[j - 1] = s[j]
        BY <1>1, <1>4, <3>2
      <4> QED
        BY <1>4, <4>1 DEF ToSet
    <3> QED
      BY <2>2, <3>1, <3>2
  <2> QED
    BY <1>1, <1>4, <2>1, <2>2 DEF ToSet
<1> QED
  BY <1>4, <1>5, <1>6 DEF Distinct, rest

\* d[key] = value for a new key.
LEMMA AppendElement ==
    ASSUME NEW S, NEW s \in Distinct(S), NEW key \in S
    PROVE  /\ Len(Append(s, key)) = Len(s) + 1
           /\ ToSet(Append(s, key)) = ToSet(s) \cup {key}
           /\ key \notin ToSet(s) => Append(s, key) \in Distinct(S)
<1>1. /\ s \in Seq(S) /\ Len(s) \in Nat /\ DOMAIN s = 1 .. Len(s)
      /\ \A j \in 1 .. Len(s) : s[j] \in S
      /\ \A j, k \in 1 .. Len(s) : s[j] = s[k] => j = k
  BY LenProperties DEF Distinct, IsInjective
<1>2. /\ Append(s, key) \in Seq(S) /\ Len(Append(s, key)) = Len(s) + 1
      /\ DOMAIN Append(s, key) = 1 .. Len(s) + 1
      /\ \A i \in 1 .. Len(s) : Append(s, key)[i] = s[i]
      /\ Append(s, key)[Len(s) + 1] = key
  BY <1>1, AppendProperties, LenProperties
<1> DEFINE longer == Append(s, key)
<1> HIDE DEF longer
<1>3. ToSet(longer) = ToSet(s) \cup {key}
  BY <1>1, <1>2 DEF ToSet, longer
<1>4. key \notin ToSet(s) => IsInjective(longer)
  BY <1>1, <1>2 DEF IsInjective, ToSet, longer
<1> QED
  BY <1>2, <1>3, <1>4 DEF Distinct, longer

LEMMA ContainsIsIn ==
    ASSUME NEW S, NEW s \in Distinct(S), NEW key
    PROVE  Contains(s, key) <=> key \in ToSet(s)
  BY LenProperties DEF Contains, ToSet, Distinct

\* len(d) counts the elements.
LEMMA DistinctCardinality ==
    ASSUME NEW S, NEW s \in Distinct(S)
    PROVE  IsFiniteSet(ToSet(s)) /\ Cardinality(ToSet(s)) = Len(s)
<1>1. Len(s) \in Nat /\ s \in [1 .. Len(s) -> ToSet(s)]
  BY LenProperties DEF Distinct, ToSet
<1>2. s \in Bijection(1 .. Len(s), ToSet(s))
  BY <1>1 DEF Distinct, Bijection, Injection, Surjection, IsInjective, ToSet
<1>3. IsFiniteSet(1 .. Len(s)) /\ Cardinality(1 .. Len(s)) = Len(s)
  BY <1>1, FS_Interval
<1> QED
  BY <1>2, <1>3, FS_Bijection DEF ExistsBijection
-----------------------------------------------------------------------------
\* The counters of a row, added up one at a time.
AnyOf(s) == CHOOSE x \in s : TRUE

\* Induction on the subsets of a finite set.
LEMMA AllSubsets ==
    ASSUME NEW C, IsFiniteSet(C), NEW G, {} \in G,
           \A s \in SUBSET C : s # {} /\ s \ {AnyOf(s)} \in G => s \in G
    PROVE  SUBSET C \subseteq G
<1> DEFINE bad == {s \in SUBSET C : s \notin G}
<1> SUFFICES ASSUME bad # {} PROVE FALSE
  OBVIOUS
<1>1. \A s : s \in bad <=> s \in SUBSET C /\ s \notin G
  OBVIOUS
<1>2. \A s : s \in SUBSET C /\ s \notin G => s \in bad
  BY <1>1
<1> HIDE DEF bad
<1>3. bad \subseteq FiniteSubsetsOf(C)
  BY <1>1, FS_Subset DEF FiniteSubsetsOf
<1>4. PICK s \in bad : \A u \in bad : <<u, s>> \notin StrictSubsetOrdering(C)
  BY <1>3, FS_StrictSubsetOrderingWellFounded, WFMin
<1>5. s \in SUBSET C /\ s # {} /\ AnyOf(s) \in s
  <2>1. s \in SUBSET C /\ s \notin G
    BY <1>1, <1>4
  <2>2. s # {}
    BY <2>1
  <2> QED
    BY <2>1, <2>2 DEF AnyOf
<1> DEFINE rest == s \ {AnyOf(s)}
<1>6. rest \in SUBSET C /\ rest \subseteq s /\ rest # s
  BY <1>5
<1>7. <<rest, s>> \in StrictSubsetOrdering(C)
  BY <1>5, <1>6 DEF StrictSubsetOrdering
<1>8. rest \in G
  BY <1>2, <1>4, <1>6, <1>7
<1> QED
  BY <1>1, <1>4, <1>5, <1>8

IsSum(f, C, add) ==
    /\ add \in [SUBSET C -> Nat]
    /\ add[{}] = 0
    /\ \A s \in SUBSET C : s # {} => add[s] = f[AnyOf(s)] + add[s \ {AnyOf(s)}]

\* The recursion of SumFunction has a solution: the sums of the subsets of at
\* most n elements are extended to those of n + 1.
LEMMA SumExists ==
    ASSUME NEW C, IsFiniteSet(C), NEW f \in [C -> Nat]
    PROVE  \E add : IsSum(f, C, add)
<1> DEFINE small(n) == {s \in SUBSET C : Cardinality(s) <= n}
           Part(n, g) ==
               /\ g \in [small(n) -> Nat]
               /\ g[{}] = 0
               /\ \A s \in small(n) : s # {} => g[s] = f[AnyOf(s)] + g[s \ {AnyOf(s)}]
           some == {n \in Nat : \E g : Part(n, g)}
<1>1. \A s \in SUBSET C : IsFiniteSet(s) /\ Cardinality(s) \in Nat /\ Cardinality(s) <= Cardinality(C)
  BY FS_Subset, FS_CardinalityType
<1>2. \A s \in SUBSET C :
         s # {} => /\ AnyOf(s) \in s
                   /\ Cardinality(s \ {AnyOf(s)}) = Cardinality(s) - 1
  <2>1. \A s \in SUBSET C : s # {} => AnyOf(s) \in s
    BY DEF AnyOf
  <2> QED
    BY <1>1, <2>1, FS_RemoveElement
<1>3. Cardinality({}) = 0 /\ \A s \in SUBSET C : Cardinality(s) = 0 => s = {}
  BY <1>1, FS_EmptySet
<1>4. 0 \in some
  <2> DEFINE g == [s \in small(0) |-> 0]
  <2>1. \A s \in small(0) : s = {}
    BY <1>1, <1>3
  <2>2. {} \in small(0)
    BY <1>3
  <2>3. Part(0, g)
    BY <2>1, <2>2
  <2> HIDE DEF Part
  <2> QED
    BY <2>3
<1>5. ASSUME NEW n \in some PROVE n + 1 \in some
  <2>1. PICK g : Part(n, g)
    OBVIOUS
  <2>2. n \in Nat
    OBVIOUS
  <2> DEFINE h == [s \in small(n + 1) |->
                      IF s = {} THEN 0 ELSE f[AnyOf(s)] + g[s \ {AnyOf(s)}]]
  <2>3. ASSUME NEW s \in small(n + 1), s # {}
        PROVE  s \ {AnyOf(s)} \in small(n) /\ f[AnyOf(s)] \in Nat
    BY <1>1, <1>2, <2>2, <2>3
  <2>4. small(n) \subseteq small(n + 1)
    BY <1>1, <2>2
  <2>5. {} \in small(n) /\ {} \in small(n + 1)
    BY <1>3, <2>2
  <2>6. h \in [small(n + 1) -> Nat]
    <3>1. \A s \in small(n) : g[s] \in Nat
      BY <2>1
    <3> HIDE DEF small
    <3> QED
      BY <2>3, <3>1
  <2>7. h[{}] = 0
    BY <2>5
  <2>8. \A s \in small(n + 1) : s # {} => h[s] = f[AnyOf(s)] + g[s \ {AnyOf(s)}]
    <3> HIDE DEF small
    <3> QED
      OBVIOUS
  <2> HIDE DEF h
  <2>9. ASSUME NEW s \in small(n) PROVE h[s] = g[s]
    <3>1. CASE s = {}
      BY <2>1, <2>7, <3>1
    <3>2. CASE s # {}
      <4>1. g[s] = f[AnyOf(s)] + g[s \ {AnyOf(s)}]
        BY <2>1, <3>2
      <4> HIDE DEF small
      <4> QED
        BY <2>4, <2>8, <3>2, <4>1
    <3> QED
      BY <3>1, <3>2
  <2>10. \A s \in small(n + 1) : s # {} => h[s] = f[AnyOf(s)] + h[s \ {AnyOf(s)}]
    <3> HIDE DEF small
    <3> QED
      BY <2>3, <2>8, <2>9
  <2>11. Part(n + 1, h)
    <3> HIDE DEF small
    <3> QED
      BY <2>6, <2>7, <2>10
  <2> HIDE DEF Part
  <2> QED
    BY <2>2, <2>11
<1>6. Cardinality(C) \in some
  <2> DEFINE out == Nat \ some
  <2>1. out \in SUBSET Nat
    OBVIOUS
  <2>2. some \in SUBSET Nat
    OBVIOUS
  <2> HIDE DEF some
  <2>3. out = {}
    <3> SUFFICES ASSUME out # {} PROVE FALSE
      OBVIOUS
    <3>1. PICK m \in out : \A x \in out : m <= x
      BY <2>1, SmallestExists
    <3>2. m # 0 /\ m \in Nat
      BY <1>4, <3>1
    <3>3. m - 1 \in Nat /\ m - 1 \notin out
      BY <3>1, <3>2
    <3>4. (m - 1) + 1 \in some
      BY <1>5, <3>3
    <3>5. (m - 1) + 1 = m
      BY <3>2
    <3> QED
      BY <3>1, <3>4, <3>5
  <2> QED
    BY <1>1, <2>3
<1>7. small(Cardinality(C)) = SUBSET C
  BY <1>1
<1>8. PICK g : Part(Cardinality(C), g)
  <2> HIDE DEF Part
  <2> QED
    BY <1>6
<1>9. IsSum(f, C, g)
  <2> HIDE DEF small
  <2> QED
    BY <1>7, <1>8 DEF IsSum
<1> QED
  BY <1>9

LEMMA SumUnfolds ==
    ASSUME NEW C, IsFiniteSet(C), NEW f \in [C -> Nat]
    PROVE  \E add : IsSum(f, C, add) /\ SumFunction(f) = add[C]
<1> DEFINE Step(add, s) == IF s = {} THEN 0 ELSE f[AnyOf(s)] + add[s \ {AnyOf(s)}]
           IsAdd(add) == add = [s \in SUBSET C |-> Step(add, s)]
           chosen == CHOOSE add : IsAdd(add)
<1>1. PICK add : IsSum(f, C, add)
  BY SumExists
<1>2. add = [s \in SUBSET C |-> Step(add, s)]
  <2>1. \A s \in SUBSET C : add[s] = Step(add, s)
    BY <1>1 DEF IsSum
  <2>2. add = [s \in SUBSET C |-> add[s]]
    BY <1>1 DEF IsSum
  <2> HIDE DEF Step
  <2> QED
    BY <2>1, <2>2
<1>3. IsAdd(chosen)
  <2>1. IsAdd(add)
    BY <1>2
  <2> HIDE DEF IsAdd
  <2> QED
    BY <2>1
<1>4. SumFunction(f) = chosen[C]
  <2>1. DOMAIN f = C
    OBVIOUS
  <2> QED
    BY <2>1 DEF SumFunction, SumFunctionOnSet, FoldFunctionOnSet, MapThenFoldSet, AnyOf
<1> HIDE DEF chosen
<1>5. \A s \in SUBSET C : chosen[s] = Step(chosen, s)
  BY <1>3
<1>6. chosen[{}] = 0 /\ \A s \in SUBSET C : s # {} => chosen[s] = f[AnyOf(s)] + chosen[s \ {AnyOf(s)}]
  BY <1>5
<1>7. ASSUME NEW s \in SUBSET C PROVE chosen[s] \in Nat
  <2> DEFINE G == {u \in SUBSET C : chosen[u] \in Nat}
  <2>1. {} \in G
    BY <1>6
  <2>2. ASSUME NEW u \in SUBSET C, u # {}, u \ {AnyOf(u)} \in G PROVE u \in G
    <3>1. AnyOf(u) \in u
      BY <2>2 DEF AnyOf
    <3>2. f[AnyOf(u)] \in Nat
      BY <3>1
    <3>3. chosen[u \ {AnyOf(u)}] \in Nat /\ chosen[u] = f[AnyOf(u)] + chosen[u \ {AnyOf(u)}]
      BY <1>6, <2>2
    <3>4. chosen[u] \in Nat
      BY <3>2, <3>3
    <3> QED
      BY <3>4
  <2>3. SUBSET C \subseteq G
    <3> HIDE DEF G
    <3> QED
      BY <2>1, <2>2, AllSubsets
  <2> QED
    BY <2>3
<1>8. chosen \in [SUBSET C -> Nat]
  BY <1>3, <1>7
<1>9. IsSum(f, C, chosen)
  BY <1>6, <1>8 DEF IsSum
<1> QED
  BY <1>4, <1>9

LEMMA SumCompares ==
    ASSUME NEW C, IsFiniteSet(C)
    PROVE  /\ \A f \in [C -> Nat] : SumFunction(f) \in Nat
           /\ SumFunction([c \in C |-> 0]) = 0
           /\ \A f, g \in [C -> Nat] :
                 (\A c \in C : 2 * g[c] <= f[c]) => 2 * SumFunction(g) <= SumFunction(f)
<1>1. ASSUME NEW f \in [C -> Nat] PROVE SumFunction(f) \in Nat
  <2>1. PICK add : IsSum(f, C, add) /\ SumFunction(f) = add[C]
    BY SumUnfolds
  <2>2. C \in SUBSET C /\ add \in [SUBSET C -> Nat]
    BY <2>1 DEF IsSum
  <2>3. add[C] \in Nat
    BY <2>2
  <2> QED
    BY <2>1, <2>3
<1>2. SumFunction([c \in C |-> 0]) = 0
  <2> DEFINE f == [c \in C |-> 0]
  <2>1. f \in [C -> Nat] /\ \A c \in C : f[c] = 0
    OBVIOUS
  <2> HIDE DEF f
  <2>2. PICK add : IsSum(f, C, add) /\ SumFunction(f) = add[C]
    BY <2>1, SumUnfolds
  <2> DEFINE G == {s \in SUBSET C : add[s] = 0}
  <2>3. {} \in G
    BY <2>2 DEF IsSum
  <2>4. ASSUME NEW s \in SUBSET C, s # {}, s \ {AnyOf(s)} \in G PROVE s \in G
    <3>1. AnyOf(s) \in C
      BY <2>4 DEF AnyOf
    <3>2. add[s] = f[AnyOf(s)] + add[s \ {AnyOf(s)}] /\ add[s \ {AnyOf(s)}] = 0
      BY <2>2, <2>4 DEF IsSum
    <3>3. add[s] = 0
      BY <2>1, <3>1, <3>2
    <3> QED
      BY <3>3
  <2>5. C \in G
    <3> HIDE DEF G
    <3>1. SUBSET C \subseteq G
      BY <2>3, <2>4, AllSubsets
    <3> QED
      BY <3>1
  <2> QED
    BY <2>2, <2>5 DEF f
<1>3. ASSUME NEW f \in [C -> Nat], NEW g \in [C -> Nat], \A c \in C : 2 * g[c] <= f[c]
      PROVE  2 * SumFunction(g) <= SumFunction(f)
  <2>1. PICK more : IsSum(f, C, more) /\ SumFunction(f) = more[C]
    BY SumUnfolds
  <2>2. PICK less : IsSum(g, C, less) /\ SumFunction(g) = less[C]
    BY SumUnfolds
  <2> DEFINE G == {s \in SUBSET C : 2 * less[s] <= more[s]}
  <2>3. {} \in G
    BY <2>1, <2>2 DEF IsSum
  <2>4. ASSUME NEW s \in SUBSET C, s # {}, s \ {AnyOf(s)} \in G PROVE s \in G
    <3> DEFINE x == AnyOf(s)
               rest == s \ {x}
    <3>1. x \in C /\ rest \in SUBSET C
      BY <2>4 DEF AnyOf
    <3>2. more[s] = f[x] + more[rest] /\ less[s] = g[x] + less[rest]
      BY <2>1, <2>2, <2>4 DEF IsSum
    <3>3. 2 * less[rest] <= more[rest]
      BY <2>4
    <3> HIDE DEF x, rest
    <3>4. more[rest] \in Nat /\ less[rest] \in Nat /\ f[x] \in Nat /\ g[x] \in Nat /\ 2 * g[x] <= f[x]
      BY <1>3, <2>1, <2>2, <3>1 DEF IsSum
    <3>5. 2 * less[s] <= more[s]
      BY <3>2, <3>3, <3>4
    <3> QED
      BY <3>5
  <2>5. C \in G
    <3> HIDE DEF G
    <3>1. SUBSET C \subseteq G
      BY <2>3, <2>4, AllSubsets
    <3> QED
      BY <3>1
  <2> QED
    BY <2>1, <2>2, <2>5
<1> QED
  BY <1>1, <1>2, <1>3

\* One more in one cell is one more in the sum.
LEMMA SumCounts ==
    ASSUME NEW C, IsFiniteSet(C), NEW f \in [C -> Nat], NEW c \in C
    PROVE  SumFunction([f EXCEPT ![c] = @ + 1]) = SumFunction(f) + 1
<1> DEFINE g == [f EXCEPT ![c] = @ + 1]
<1>1. g \in [C -> Nat] /\ g[c] = f[c] + 1 /\ \A x \in C : x # c => g[x] = f[x]
  OBVIOUS
<1> HIDE DEF g
<1>2. PICK old : IsSum(f, C, old) /\ SumFunction(f) = old[C]
  BY SumUnfolds
<1>3. PICK new : IsSum(g, C, new) /\ SumFunction(g) = new[C]
  BY <1>1, SumUnfolds
<1> DEFINE G == {s \in SUBSET C : new[s] = old[s] + IF c \in s THEN 1 ELSE 0}
<1>4. {} \in G
  BY <1>2, <1>3 DEF IsSum
<1>5. ASSUME NEW s \in SUBSET C, s # {}, s \ {AnyOf(s)} \in G PROVE s \in G
  <2> DEFINE x == AnyOf(s)
             rest == s \ {x}
  <2>1. x \in s /\ x \in C /\ rest \in SUBSET C
    BY <1>5 DEF AnyOf
  <2>2. new[s] = g[x] + new[rest] /\ old[s] = f[x] + old[rest]
    BY <1>2, <1>3, <1>5 DEF IsSum
  <2>3. new[rest] = old[rest] + IF c \in rest THEN 1 ELSE 0
    BY <1>5
  <2>4. c \in rest <=> c \in s /\ c # x
    OBVIOUS
  <2> HIDE DEF x, rest
  <2>5. old[rest] \in Nat /\ f[x] \in Nat
    BY <1>2, <2>1 DEF IsSum
  <2>6. CASE x = c
    <3>1. g[x] = f[x] + 1 /\ new[rest] = old[rest]
      BY <1>1, <2>3, <2>4, <2>5, <2>6
    <3> QED
      BY <2>1, <2>2, <2>5, <2>6, <3>1
  <2>7. CASE x # c
    <3>1. g[x] = f[x]
      BY <1>1, <2>1, <2>7
    <3> QED
      BY <2>1, <2>2, <2>3, <2>4, <2>5, <2>7, <3>1
  <2> QED
    BY <2>6, <2>7
<1>6. C \in G
  <2> HIDE DEF G
  <2>1. SUBSET C \subseteq G
    BY <1>4, <1>5, AllSubsets
  <2> QED
    BY <2>1
<1> QED
  BY <1>2, <1>3, <1>6 DEF g
-----------------------------------------------------------------------------
USE CapacityAssumption, IdxAssumption, RowAssumption, SampleAssumption, FiniteAssumption

EveryCell ==
    \A row \in Row, key \in Key : table[row][Idx[row][key]] >= accesses[key]

\* The cell is the key's own in this row.
Own(row, key) == \A other \in Key \ {key} : Idx[row][other] # Idx[row][key]

LoneCells ==
    \A row \in Row, key \in Key : Own(row, key) => table[row][Idx[row][key]] = accesses[key]

Inv == TypeOK /\ EveryCell /\ LoneCells /\ RowsWithinTotal

LEMMA Halving ==
    ASSUME NEW m \in Nat, NEW n \in Nat, m >= n
    PROVE  m \div 2 \in Nat /\ m \div 2 >= n \div 2 /\ m \div 2 <= m
  OBVIOUS

\* What increment does to the table, the total and the exact counts.
IncrementEffect ==
    /\ table' \in [Row -> [Column -> Nat]]
    /\ total' \in 0 .. (IF Sample > 1 THEN Sample - 1 ELSE 0)
    /\ accesses' \in [Key -> Nat]
    /\ EveryCell'
    /\ LoneCells'
    /\ RowsWithinTotal'

LEMMA IncrementKeeps ==
    ASSUME Inv, NEW key \in Key, Increment(key)
    PROVE  IncrementEffect
<1> DEFINE counted == Counted(table, key)
           exact == [accesses EXCEPT ![key] = @ + 1]
           age == total + 1 >= Sample
<1>1. /\ table \in [Row -> [Column -> Nat]] /\ accesses \in [Key -> Nat]
      /\ total \in 0 .. (IF Sample > 1 THEN Sample - 1 ELSE 0)
      /\ \A row \in Row, k \in Key : Idx[row][k] \in Column
      /\ \A row \in Row, k \in Key : table[row][Idx[row][k]] >= accesses[k]
      /\ \A row \in Row, k \in Key : Own(row, k) => table[row][Idx[row][k]] = accesses[k]
  BY DEF Inv, TypeOK, EveryCell, LoneCells
<1>2. /\ table' = IF age THEN [row \in Row |-> HalfOf(counted[row])] ELSE counted
      /\ total' = IF age THEN (total + 1) \div 2 ELSE total + 1
      /\ accesses' = IF age THEN HalfOf(exact) ELSE exact
  BY DEF Increment
<1>3. counted \in [Row -> [Column -> Nat]]
  BY <1>1 DEF Counted
<1>4. exact \in [Key -> Nat] /\ \A k \in Key : exact[k] = accesses[k] + IF k = key THEN 1 ELSE 0
  BY <1>1
<1>5. ASSUME NEW row \in Row, NEW k \in Key
      PROVE  /\ counted[row][Idx[row][k]] >= exact[k]
             /\ Own(row, k) => counted[row][Idx[row][k]] = exact[k]
  <2>1. counted[row] = [table[row] EXCEPT ![Idx[row][key]] = @ + 1]
    BY DEF Counted
  <2>2. table[row] \in [Column -> Nat] /\ Idx[row][k] \in Column /\ Idx[row][key] \in Column
    BY <1>1
  <2>3. table[row][Idx[row][k]] \in Nat /\ accesses[k] \in Nat
        /\ table[row][Idx[row][k]] >= accesses[k]
    BY <1>1, <2>2
  <2>4. counted[row][Idx[row][k]] =
          table[row][Idx[row][k]] + IF Idx[row][k] = Idx[row][key] THEN 1 ELSE 0
    BY <2>1, <2>2, <2>3
  <2>5. Own(row, k) => (Idx[row][k] = Idx[row][key] <=> k = key)
    BY DEF Own
  <2>6. Own(row, k) => table[row][Idx[row][k]] = accesses[k]
    BY <1>1
  <2> QED
    BY <1>4, <2>3, <2>4, <2>5, <2>6
<1> HIDE DEF counted, exact
<1>9. ASSUME NEW row \in Row
      PROVE  SumFunction(counted[row]) \in Nat /\ SumFunction(counted[row]) <= total + 1
  <2>1. /\ table[row] \in [Column -> Nat] /\ Idx[row][key] \in Column
        /\ SumFunction(table[row]) <= total
    BY <1>1 DEF Inv, RowsWithinTotal
  <2>2. counted[row] = [table[row] EXCEPT ![Idx[row][key]] = @ + 1]
    BY DEF Counted, counted
  <2>3. SumFunction(counted[row]) = SumFunction(table[row]) + 1
    BY <2>1, <2>2, SumCounts
  <2>4. SumFunction(table[row]) \in Nat
    BY <2>1, SumCompares
  <2> QED
    BY <1>1, <2>1, <2>3, <2>4
<1>6. total' \in 0 .. (IF Sample > 1 THEN Sample - 1 ELSE 0)
  BY <1>1, <1>2
<1>7. CASE ~age
  <2>1. table' = counted /\ total' = total + 1 /\ accesses' = exact
    BY <1>2, <1>7
  <2>2. RowsWithinTotal'
    BY <1>9, <2>1 DEF RowsWithinTotal
  <2>3. EveryCell' /\ LoneCells'
    BY <1>5, <2>1 DEF EveryCell, LoneCells, Own
  <2> QED
    BY <1>3, <1>4, <1>6, <2>1, <2>2, <2>3 DEF IncrementEffect
<1>8. CASE age
  <2>1. ASSUME NEW row \in Row
        PROVE  /\ table'[row] \in [Column -> Nat]
               /\ \A c \in Column : table'[row][c] = counted[row][c] \div 2
    BY <1>2, <1>3, <1>8, Halving DEF HalfOf
  <2>2. table' \in [Row -> [Column -> Nat]]
    <3>1. table' = [row \in Row |-> HalfOf(counted[row])]
      BY <1>2, <1>8
    <3> QED
      BY <2>1, <3>1
  <2>3. accesses' \in [Key -> Nat] /\ \A k \in Key : accesses'[k] = exact[k] \div 2
    BY <1>2, <1>4, <1>8, Halving DEF HalfOf
  <2>4. ASSUME NEW row \in Row, NEW k \in Key
        PROVE  /\ table'[row][Idx[row][k]] >= accesses'[k]
               /\ Own(row, k) => table'[row][Idx[row][k]] = accesses'[k]
    <3>1. counted[row][Idx[row][k]] \in Nat /\ exact[k] \in Nat /\ Idx[row][k] \in Column
      BY <1>1, <1>3, <1>4
    <3> QED
      BY <1>5, <2>1, <2>3, <3>1, Halving
  <2>5. ASSUME NEW row \in Row PROVE SumFunction(table'[row]) <= total'
    <3>1. counted[row] \in [Column -> Nat] /\ table'[row] \in [Column -> Nat]
      BY <1>3, <2>1
    <3>2. \A c \in Column : 2 * table'[row][c] <= counted[row][c]
      BY <2>1, <3>1
    <3>3. /\ 2 * SumFunction(table'[row]) <= SumFunction(counted[row])
          /\ SumFunction(table'[row]) \in Nat
      BY <3>1, <3>2, SumCompares
    <3>4. 2 * SumFunction(table'[row]) <= total + 1 /\ total \in Nat
      BY <1>1, <1>9, <3>3
    <3>5. total' = (total + 1) \div 2
      BY <1>2, <1>8
    <3> QED
      BY <3>3, <3>4, <3>5
  <2>6. RowsWithinTotal'
    BY <2>5 DEF RowsWithinTotal
  <2> QED
    BY <1>6, <2>2, <2>3, <2>4, <2>6 DEF IncrementEffect, EveryCell, LoneCells, Own
<1> QED
  BY <1>7, <1>8

\* The estimate is the least of the key's cells, so no less than the exact
\* count.
LEMMA EstimateCovers ==
    ASSUME NEW tab \in [Row -> [Column -> Nat]], NEW count \in [Key -> Nat], NEW key \in Key,
           \A row \in Row : tab[row][Idx[row][key]] >= count[key]
    PROVE  /\ Estimate(tab, key) \in Nat /\ Estimate(tab, key) >= count[key]
           /\ \A row \in Row : Estimate(tab, key) <= tab[row][Idx[row][key]]
<1> DEFINE cells == {tab[row][Idx[row][key]] : row \in Row}
<1>1. cells \in SUBSET Nat /\ cells # {}
  OBVIOUS
<1>2. Min(cells) \in cells /\ \A n \in cells : Min(cells) <= n
  BY <1>1, SmallestExists
<1> QED
  BY <1>1, <1>2 DEF Estimate
-----------------------------------------------------------------------------
\* The first unpinned key of the list is found unless all are pinned.
LEMMA OldestFinds ==
    ASSUME main \in Distinct(Key)
    PROVE  /\ Oldest = 0 => Resident \subseteq pinned
           /\ Oldest # 0 => Oldest \in 1 .. Len(main) /\ main[Oldest] \in Resident \ pinned
<1> DEFINE I == {i \in 1 .. Len(main) : main[i] \notin pinned}
<1>1. Oldest = IF I # {} THEN Min(I) ELSE 0
  BY DEF Oldest, SelectInSeq
<1>2. I \in SUBSET Nat
  BY DistinctRange
<1>3. CASE I = {}
  BY <1>1, <1>3 DEF Distinct, Resident, ToSet
<1>4. CASE I # {}
  <2>1. Oldest \in I
    BY <1>1, <1>2, <1>4, SmallestExists
  <2> QED
    BY <2>1, DistinctRange DEF Resident
<1> QED
  BY <1>3, <1>4

LEMMA ToMRUKeeps ==
    ASSUME main \in Distinct(Key), NEW key \in Resident
    PROVE  /\ ToMRU(key) \in Distinct(Key) /\ ToSet(ToMRU(key)) = Resident
           /\ Len(ToMRU(key)) = Len(main)
<1> DEFINE i == CHOOSE i \in DOMAIN main : main[i] = key
<1>1. i \in 1 .. Len(main) /\ main[i] = key /\ key \in Key
  BY LenProperties DEF Resident, ToSet, Distinct
<1>2. /\ Without(main, key) \in Distinct(Key) /\ ToSet(Without(main, key)) = Resident \ {key}
      /\ Len(Without(main, key)) = Len(main) - 1
  BY <1>1, RemoveElement DEF Without, Resident
<1> DEFINE rest == Without(main, key)
<1>3. /\ rest \in Distinct(Key) /\ ToSet(rest) = Resident \ {key} /\ ToMRU(key) = Append(rest, key)
      /\ Len(rest) = Len(main) - 1 /\ Len(main) \in Nat
  BY <1>2, DistinctRange DEF ToMRU
<1> HIDE DEF rest
<1>4. /\ Append(rest, key) \in Distinct(Key)
      /\ ToSet(Append(rest, key)) = ToSet(rest) \cup {key}
      /\ Len(Append(rest, key)) = Len(rest) + 1
  BY <1>1, <1>3, AppendElement
<1> QED
  BY <1>3, <1>4

\* What put does to the resident keys: an action of CachePolicy, with a door.
Served(key) ==
    \/ /\ key \in Resident
       /\ Resident' = Resident
       /\ outcome' = "done"
    \/ /\ key \notin Resident /\ ~Full
       /\ Resident' = Resident \cup {key}
       /\ outcome' = "done"
    \/ /\ key \notin Resident /\ Full
       /\ Oldest # 0 /\ Admits(key, main[Oldest])
       /\ main[Oldest] \in Resident \ pinned
       /\ Resident' = (Resident \ {main[Oldest]}) \cup {key}
       /\ outcome' = "done"
    \/ /\ key \notin Resident /\ Full
       /\ Resident \ pinned # {}
       /\ Resident' = Resident
       /\ outcome' = "done"
    \/ /\ key \notin Resident /\ Full
       /\ Resident \subseteq pinned
       /\ Resident' = Resident
       /\ outcome' = "RuntimeError"

LEMMA PutServed ==
    ASSUME main \in Distinct(Key), Len(main) <= Capacity, NEW key \in Key, Put(key)
    PROVE  PutBegins(key) /\ main' \in Distinct(Key) /\ Len(main') <= Capacity /\ Served(key)
<1>len. Len(main) \in Nat
  BY DistinctRange
<1>0. PutBegins(key)
  BY DEF Put, PutAgain, PutRoom, PutTrade, PutTurnedAway, PutRefused
<1>1. CASE PutAgain(key)
  BY <1>0, <1>1, ToMRUKeeps DEF PutAgain, Served, Resident
<1>2. CASE PutRoom(key)
  <2>1. Len(main') = Len(main) + 1 /\ Len(main) < Capacity
    BY <1>len, <1>2, AppendElement DEF PutRoom, Full
  <2>2. Len(main') <= Capacity
    BY <1>len, <2>1
  <2> QED
    BY <1>0, <1>2, <2>2, AppendElement DEF PutRoom, Served, Resident
<1>3. CASE PutTrade(key)
  <2> DEFINE i == Oldest
             rest == RemoveAt(main, i)
  <2>1. i \in 1 .. Len(main) /\ main[i] \in Resident \ pinned
    BY <1>3, OldestFinds DEF PutTrade
  <2> HIDE DEF i
  <2>2. /\ rest \in Distinct(Key) /\ ToSet(rest) = Resident \ {main[i]}
        /\ Len(rest) = Len(main) - 1
    BY <2>1, RemoveElement DEF Resident
  <2>3. main' = Append(rest, key) /\ key \notin Resident
    BY <1>3 DEF PutTrade, i
  <2> HIDE DEF rest
  <2>4. main' \in Distinct(Key) /\ Resident' = (Resident \ {main[i]}) \cup {key}
    BY <2>2, <2>3, AppendElement DEF Resident
  <2>5. Len(main') = Len(main)
    BY <1>len, <2>2, <2>3, AppendElement
  <2> QED
    BY <1>0, <1>3, <2>1, <2>4, <2>5 DEF PutTrade, Served, i
<1>4. CASE PutTurnedAway(key)
  BY <1>0, <1>4, OldestFinds DEF PutTurnedAway, Served, Resident
<1>5. CASE PutRefused(key)
  BY <1>0, <1>5, OldestFinds DEF PutRefused, Served, Resident
<1> QED
  BY <1>1, <1>2, <1>3, <1>4, <1>5 DEF Put

LEMMA GetServed ==
    ASSUME main \in Distinct(Key), Len(main) <= Capacity, NEW key \in Key, Get(key)
    PROVE  /\ Increment(key)
           /\ main' \in Distinct(Key) /\ Resident' = Resident
           /\ Len(main') <= Capacity
           /\ GetHit(key) \/ GetMiss(key)
<1>1. CASE GetHit(key)
  BY <1>1, ToMRUKeeps DEF GetHit, Resident
<1>2. CASE GetMiss(key)
  BY <1>2 DEF GetMiss, Resident
<1> QED
  BY <1>1, <1>2 DEF Get
-----------------------------------------------------------------------------
LEMMA InitInv == Init => Inv
<1> SUFFICES ASSUME Init PROVE Inv
  OBVIOUS
<1>1. <<>> \in Seq(Key) /\ IsInjective(<<>>)
  BY DEF IsInjective
<1>2. RowsWithinTotal
  <2>1. ASSUME NEW row \in Row PROVE SumFunction(table[row]) <= total
    <3>1. table[row] = [column \in Column |-> 0] /\ total = 0
      BY DEF Init
    <3>2. SumFunction([column \in Column |-> 0]) = 0
      BY SumCompares
    <3> QED
      BY <3>1, <3>2
  <2> QED
    BY <2>1 DEF RowsWithinTotal
<1> QED
  BY <1>1, <1>2 DEF Init, Inv, TypeOK, EveryCell, LoneCells

LEMMA StepInv == Inv /\ [Next]_vars => Inv'
<1> SUFFICES ASSUME Inv, [Next]_vars PROVE Inv'
  OBVIOUS
<1>0. main \in Distinct(Key) /\ Len(main) <= Capacity
  BY DEF Inv, TypeOK, Distinct
<1>1. ASSUME NEW key \in Key, Get(key) PROVE Inv'
  <2>1. IncrementEffect /\ main' \in Distinct(Key) /\ Len(main') <= Capacity
    BY <1>0, <1>1, GetServed, IncrementKeeps
  <2> QED
    BY <1>1, <2>1 DEF Inv, TypeOK, IncrementEffect, Distinct, Get, GetHit, GetMiss
<1>2. ASSUME NEW key \in Key, Put(key) PROVE Inv'
  <2>1. PutBegins(key) /\ main' \in Distinct(Key) /\ Len(main') <= Capacity /\ Served(key)
    BY <1>0, <1>2, PutServed
  <2>2. IncrementEffect
    BY <2>1, IncrementKeeps DEF PutBegins
  <2> QED
    BY <2>1, <2>2 DEF Inv, TypeOK, IncrementEffect, Distinct, PutBegins, Served
<1>3. ASSUME NEW key \in Key, Pin(key) \/ Unpin(key) PROVE Inv'
  BY <1>3 DEF Inv, TypeOK, EveryCell, LoneCells, RowsWithinTotal, Pin, Unpin
<1>4. CASE UNCHANGED vars
  BY <1>4 DEF vars, Inv, TypeOK, EveryCell, LoneCells, RowsWithinTotal
<1> QED
  BY <1>1, <1>2, <1>3, <1>4 DEF Next

LEMMA Invariance == Spec => []Inv
  BY InitInv, StepInv, PTL DEF Spec

(* Types; no key is twice in the list, which is never longer than the       *)
(* capacity, and no caller ever sees a complete sample that has not been    *)
(* aged.                                                                    *)
THEOREM TinyLFUTypes == Spec => []TypeOK
<1>1. Inv => TypeOK
  BY DEF Inv
<1> QED
  BY <1>1, Invariance, PTL

(* The estimate of a key is never below its exact count, aged as often as   *)
(* the sketch, whatever the hash and however many keys collide.             *)
THEOREM TinyLFUNeverUnderestimates == Spec => []NeverUnderestimates
<1>1. Inv => NeverUnderestimates
  <2> SUFFICES ASSUME Inv, NEW key \in Key PROVE Estimate(table, key) >= accesses[key]
    BY DEF NeverUnderestimates
  <2> QED
    BY EstimateCovers DEF Inv, TypeOK, EveryCell
<1> QED
  BY <1>1, Invariance, PTL

(* The counters of every row add up to no more than _total, through any     *)
(* number of agings: halving rounds each counter down but the total only    *)
(* once, so the rows can only fall further behind it.                       *)
THEOREM TinyLFURowsWithinTotal == Spec => []RowsWithinTotal
<1>1. Inv => RowsWithinTotal
  BY DEF Inv
<1> QED
  BY <1>1, Invariance, PTL

(* A newcomer takes the place of a key only if its own estimate has reached *)
(* the exact count of that key, and if it has a cell of its own in some row *)
(* only if its exact count has: the victim is the key the door compared, no *)
(* other key leaves, the victim's estimate is not too low, and the          *)
(* newcomer's is no more than its own cell, which is exact.                 *)
THEOREM TinyLFUHotKeysSurvive == Spec => HotKeysSurvive
<1>1. ASSUME Inv, Inv', Next, NEW key \in Resident, NEW new \in Key,
             ~Contains(main', key), new \notin Resident, Contains(main', new)
      PROVE  /\ Estimate(table', new) >= accesses'[key]
             /\ Alone(new) => accesses'[new] >= accesses'[key]
  <2>1. /\ main \in Distinct(Key) /\ main' \in Distinct(Key) /\ key \in Key
        /\ Len(main) <= Capacity
    BY <1>1, DistinctRange DEF Inv, TypeOK, Distinct, Resident
  <2>2. key \notin Resident' /\ new \in Resident'
    BY <1>1, <2>1, ContainsIsIn DEF Resident
  <2>3. ASSUME NEW other \in Key, Get(other) PROVE FALSE
    BY <1>1, <2>1, <2>2, <2>3, GetServed
  <2>4. ASSUME NEW other \in Key, Pin(other) \/ Unpin(other) PROVE FALSE
    BY <1>1, <2>2, <2>4 DEF Pin, Unpin, Resident
  <2>5. PICK other \in Key : Put(other)
    BY <1>1, <2>3, <2>4 DEF Next
  <2>6. new = other /\ key = main[Oldest] /\ Admits(new, key)
    BY <1>1, <2>1, <2>2, <2>5, PutServed DEF Served
  <2>7. /\ Estimate(table', key) \in Nat /\ Estimate(table', key) >= accesses'[key]
        /\ Estimate(table', new) \in Nat /\ accesses'[key] \in Nat /\ accesses'[new] \in Nat
        /\ \A row \in Row : Estimate(table', new) <= table'[row][Idx[row][new]]
    BY <1>1, <2>1, EstimateCovers DEF Inv, TypeOK, EveryCell
  <2>8. Estimate(table', new) >= accesses'[key]
    BY <2>6, <2>7 DEF Admits
  <2>9. ASSUME Alone(new) PROVE accesses'[new] >= accesses'[key]
    <3>1. PICK row \in Row : Own(row, new)
      BY <2>9 DEF Alone, Own
    <3>2. table'[row][Idx[row][new]] = accesses'[new]
      BY <1>1, <3>1 DEF Inv, LoneCells, Own
    <3>3. Estimate(table', new) <= accesses'[new]
      BY <2>7, <3>2
    <3> QED
      BY <2>7, <2>8, <3>3
  <2> QED
    BY <2>8, <2>9
<1>2. Inv /\ Inv' /\ [Next]_vars =>
        [\A key \in Resident, new \in Key :
            ~Contains(main', key) /\ new \notin Resident /\ Contains(main', new)
            => /\ Estimate(table', new) >= accesses'[key]
               /\ Alone(new) => accesses'[new] >= accesses'[key]]_vars
  BY <1>1
<1> QED
  BY <1>2, Invariance, PTL DEF Spec, HotKeysSurvive
-----------------------------------------------------------------------------
\* The interface counts keys as this module does.
LEMMA SameCardinality ==
    ASSUME NEW S
    PROVE  Abstract!Cardinality(S) = Cardinality(S)
  BY DEF Abstract!Cardinality, Cardinality

(* Every step of TinyLFU is a step of the interface with a door: at most    *)
(* one unpinned key leaves, and only for the key that is stored; a refused  *)
(* newcomer changes nothing that a caller sees.                             *)
THEOREM TinyLFUImplementsPolicy == Spec => ImplementsPolicy
<1>1. Init => Abstract!Init
  BY DEF Init, Abstract!Init, Resident, ToSet
<1>2. ASSUME Inv, [Next]_vars
      PROVE  [Abstract!Next]_(Abstract!vars)
  <2>1. main \in Distinct(Key) /\ Len(main) <= Capacity
    BY <1>2 DEF Inv, TypeOK, Distinct
  <2>2. Abstract!Full <=> Full
    BY <2>1, DistinctCardinality, SameCardinality DEF Abstract!Full, Full, Resident
  <2>3. ASSUME NEW key \in Key, Get(key)
        PROVE  Abstract!GetHit(key) \/ Abstract!GetMiss(key)
    BY <2>1, <2>3, GetServed DEF GetHit, GetMiss, Abstract!GetHit, Abstract!GetMiss
  <2>4. ASSUME NEW key \in Key, Put(key)
        PROVE  Abstract!Put(key)
    <3>1. Served(key) /\ UNCHANGED <<hits, misses, pinned>>
      BY <2>1, <2>4, PutServed DEF PutBegins
    <3> QED
      BY <2>2, <3>1
      DEF Served, Abstract!Put, Abstract!PutAgain, Abstract!PutRoom, Abstract!PutTrade,
          Abstract!PutTurnedAway, Abstract!PutRefused
  <2>5. ASSUME NEW key \in Key, Pin(key) \/ Unpin(key)
        PROVE  Abstract!Pin(key) \/ Abstract!Unpin(key)
    BY <2>5 DEF Pin, Unpin, Abstract!Pin, Abstract!Unpin, Resident
  <2>6. CASE UNCHANGED vars
    BY <2>6 DEF vars, Abstract!vars, Resident
  <2> QED
    BY <1>2, <2>3, <2>4, <2>5, <2>6 DEF Next, Abstract!Next
<1> QED
  BY <1>1, <1>2, Invariance, PTL DEF Spec, ImplementsPolicy, Abstract!Spec
-----------------------------------------------------------------------------
\* Trading one key of a finite set for a new one keeps its size.
LEMMA TradedSize ==
    ASSUME NEW R, IsFiniteSet(R), NEW victim \in R, NEW key, key \notin R
    PROVE  /\ IsFiniteSet((R \ {victim}) \cup {key})
           /\ Cardinality((R \ {victim}) \cup {key}) = Cardinality(R)
<1> DEFINE rest == R \ {victim}
<1>1. /\ IsFiniteSet(rest) /\ key \notin rest
      /\ Cardinality(rest) = Cardinality(R) - 1
  BY FS_RemoveElement
<1>2. Cardinality(R) \in Nat /\ Cardinality(rest) \in Nat
  BY <1>1, FS_CardinalityType
<1> HIDE DEF rest
<1>3. /\ IsFiniteSet(rest \cup {key})
      /\ Cardinality(rest \cup {key}) = Cardinality(rest) + 1
  BY <1>1, FS_AddElement
<1> QED
  BY <1>1, <1>2, <1>3 DEF rest

(* What callers rely on, drawn from the refinement: never more keys than    *)
(* the capacity, no pinned key taken out, and a full cache stays full.      *)
LEMMA PromisesCount ==
    /\ Abstract!WithinCapacity <=> IsFiniteSet(Resident) /\ Cardinality(Resident) <= Capacity
    /\ Abstract!WithinCapacity'
           <=> IsFiniteSet(Resident') /\ Cardinality(Resident') <= Capacity
    /\ Abstract!Full <=> Cardinality(Resident) >= Capacity
    /\ Abstract!Full' <=> Cardinality(Resident') >= Capacity
  BY DEF Abstract!WithinCapacity, Abstract!Full, Abstract!IsFiniteSet, IsFiniteSet,
         Abstract!Cardinality, Cardinality

LEMMA PromisesKept ==
    ASSUME Abstract!WithinCapacity, [Abstract!Next]_(Abstract!vars)
    PROVE  /\ Abstract!WithinCapacity'
           /\ Resident \cap pinned \subseteq Resident'
           /\ Abstract!Full => Abstract!Full'
<1> USE PromisesCount, CapacityAssumption
<1>1. IsFiniteSet(Resident) /\ Cardinality(Resident) \in Nat
  BY FS_CardinalityType
<1>2. CASE Resident' = Resident
  BY <1>2
<1>3. ASSUME NEW key, Abstract!PutRoom(key)
      PROVE  /\ Abstract!WithinCapacity' /\ (Abstract!Full => Abstract!Full')
             /\ Resident \cap pinned \subseteq Resident'
  <2>1. /\ IsFiniteSet(Resident \cup {key})
        /\ Cardinality(Resident \cup {key}) = Cardinality(Resident) + 1
    BY <1>1, <1>3, FS_AddElement DEF Abstract!PutRoom
  <2>2. Resident' = Resident \cup {key} /\ ~Abstract!Full
    BY <1>3 DEF Abstract!PutRoom
  <2> QED
    BY <1>1, <2>1, <2>2
<1>4. ASSUME NEW key, Abstract!PutTrade(key)
      PROVE  /\ Abstract!WithinCapacity' /\ (Abstract!Full => Abstract!Full')
             /\ Resident \cap pinned \subseteq Resident'
  <2>1. PICK victim \in Resident \ pinned :
            Resident' = (Resident \ {victim}) \cup {key}
    BY <1>4 DEF Abstract!PutTrade
  <2>2. IsFiniteSet(Resident') /\ Cardinality(Resident') = Cardinality(Resident)
    BY <1>1, <1>4, <2>1, TradedSize DEF Abstract!PutTrade
  <2> QED
    BY <2>1, <2>2
<1> QED
  BY <1>2, <1>3, <1>4
  DEF Abstract!Next, Abstract!vars, Abstract!GetHit, Abstract!GetMiss, Abstract!Put,
      Abstract!PutAgain, Abstract!PutTurnedAway, Abstract!PutRefused, Abstract!Pin, Abstract!Unpin

(* TinyLFUCache keeps the promises of the interface.                       *)
THEOREM TinyLFUKeepsPromises ==
    Spec => []Abstract!WithinCapacity /\ Abstract!PinnedStay /\ Abstract!FullStaysFull
<1>1. Abstract!Init => Abstract!WithinCapacity
  BY FS_EmptySet, PromisesCount, CapacityAssumption DEF Abstract!Init
<1>2. Abstract!WithinCapacity /\ [Abstract!Next]_(Abstract!vars) => Abstract!WithinCapacity'
  BY PromisesKept
<1>3. Abstract!WithinCapacity /\ [Abstract!Next]_(Abstract!vars)
          => /\ [Resident \cap pinned \subseteq Resident']_(Abstract!vars)
             /\ [Abstract!Full => Abstract!Full']_(Abstract!vars)
  BY PromisesKept
<1> QED
  BY <1>1, <1>2, <1>3, TinyLFUImplementsPolicy, PTL
  DEF ImplementsPolicy, Abstract!Spec, Abstract!PinnedStay, Abstract!FullStaysFull
=============================================================================
