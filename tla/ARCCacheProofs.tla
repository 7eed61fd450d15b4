--------------------------- MODULE ARCCacheProofs ---------------------------
(***************************************************************************)
(* ARC keeps its directory in order and keeps the interface of CachePolicy,*)
(* proved for every set of keys, every capacity and every pinning.         *)
(*                                                                         *)
(* The four lists are reasoned about as one record (Lists).  Good says     *)
(* what holds of it between calls; Put and Get are shown to take a good    *)
(* record to a good record, and to do to the resident keys what one action *)
(* of CachePolicy does.                                                    *)
(***************************************************************************)
EXTENDS ARCCache, FiniteSetTheorems, SequenceTheorems, TLAPS
-----------------------------------------------------------------------------
\* Lists in which no element occurs twice: the OrderedDicts of the cache.
Distinct(S) == {s \in Seq(S) : IsInjective(s)}

\* A non-empty set of naturals has a least element (induction, by the
\* well-founded order on the intervals 0 .. x).
LEMMA SmallestExists ==
    ASSUME NEW S \in SUBSET Nat, S # {}
    PROVE  Min(S) \in S /\ \A x \in S : Min(S) <= x
<1> DEFINE Below == {0 .. x : x \in S}
<1>1. Below \subseteq FiniteSubsetsOf(Nat) /\ Below # {}
  <2>1. ASSUME NEW x \in S PROVE 0 .. x \in FiniteSubsetsOf(Nat)
    <3>1. IsFiniteSet(0 .. x) /\ 0 .. x \in SUBSET Nat
      BY FS_Interval
    <3> QED
      BY <3>1 DEF FiniteSubsetsOf
  <2> QED
    BY <2>1
<1>2. PICK X \in Below : \A Y \in Below : <<Y, X>> \notin StrictSubsetOrdering(Nat)
  BY <1>1, FS_StrictSubsetOrderingWellFounded, WFMin
<1>3. PICK x \in S : X = 0 .. x
  OBVIOUS
<1>4. ASSUME NEW y \in S PROVE x <= y
  <2> SUFFICES ASSUME y < x PROVE FALSE
    OBVIOUS
  <2>1. 0 .. y \in SUBSET Nat /\ X \in SUBSET Nat /\ 0 .. y \subseteq X
    BY <1>3
  <2>2. x \in X /\ x \notin 0 .. y
    BY <1>3
  <2>3. <<0 .. y, X>> \in StrictSubsetOrdering(Nat)
    BY <2>1, <2>2 DEF StrictSubsetOrdering
  <2> QED
    BY <1>2, <2>3
<1> QED
  BY <1>4 DEF Min

LEMMA DistinctRange ==
    ASSUME NEW S, NEW s \in Distinct(S)
    PROVE  /\ Len(s) \in Nat
           /\ ToSet(s) \subseteq S
           /\ ToSet(s) = {} <=> Len(s) = 0
           /\ s = <<>> <=> Len(s) = 0
           /\ \A i \in 1 .. Len(s) : s[i] \in ToSet(s)
  BY DEF Distinct, ToSet

\* del d[key], pop(key)
LEMMA RemoveElement ==
    ASSUME NEW S, NEW s \in Distinct(S), NEW i \in 1 .. Len(s)
    PROVE  /\ RemoveAt(s, i) \in Distinct(S)
           /\ Len(RemoveAt(s, i)) = Len(s) - 1
           /\ ToSet(RemoveAt(s, i)) = ToSet(s) \ {s[i]}
<1> DEFINE head == SubSeq(s, 1, i - 1)
           tail == SubSeq(s, i + 1, Len(s))
           rest == RemoveAt(s, i)
<1>1. /\ s \in Seq(S) /\ Len(s) \in Nat /\ DOMAIN s = 1 .. Len(s)
      /\ \A j \in 1 .. Len(s) : s[j] \in S
      /\ \A j, k \in 1 .. Len(s) : s[j] = s[k] => j = k
  BY LenProperties DEF Distinct, IsInjective
<1>2. /\ head \in Seq(S) /\ Len(head) = i - 1
      /\ \A j \in 1 .. i - 1 : head[j] = s[j]
  BY <1>1, SubSeqProperties
<1>3. /\ tail \in Seq(S) /\ Len(tail) = Len(s) - i
      /\ \A j \in 1 .. Len(s) - i : tail[j] = s[i + j]
  <2>1. /\ tail \in Seq(S)
        /\ Len(tail) = IF i + 1 <= Len(s) THEN Len(s) - (i + 1) + 1 ELSE 0
        /\ \A j \in 1 .. Len(s) - (i + 1) + 1 : tail[j] = s[(i + 1) + j - 1]
    <3>1. \A j \in i + 1 .. Len(s) : s[j] \in S
      BY <1>1
    <3> HIDE DEF tail
    <3> DEFINE m == i + 1
               n == Len(s)
    <3>2. m \in Int /\ n \in Int
      BY <1>1
    <3>3. tail = SubSeq(s, m, n)
      BY DEF tail
    <3> HIDE DEF m, n
    <3>4. /\ tail \in Seq(S)
          /\ Len(tail) = IF m <= n THEN n - m + 1 ELSE 0
          /\ \A j \in 1 .. n - m + 1 : tail[j] = s[m + j - 1]
      BY <3>1, <3>2, <3>3, SubSeqProperties DEF m, n
    <3> QED
      BY <3>4 DEF m, n
  <2> HIDE DEF tail
  <2>2. Len(tail) = Len(s) - i
    <3>1. Len(s) \in Nat /\ i \in Nat /\ i <= Len(s)
      BY <1>1
    <3> QED
      BY <2>1, <3>1
  <2>3. ASSUME NEW j \in 1 .. Len(s) - i PROVE tail[j] = s[i + j]
    <3>1. j \in 1 .. Len(s) - (i + 1) + 1 /\ (i + 1) + j - 1 = i + j
      BY <1>1
    <3> QED
      BY <2>1, <3>1
  <2> QED
    BY <2>1, <2>2, <2>3
<1>4. /\ rest \in Seq(S) /\ Len(rest) = Len(s) - 1
      /\ DOMAIN rest = 1 .. Len(s) - 1
      /\ \A j \in 1 .. Len(s) - 1 : rest[j] = IF j < i THEN s[j] ELSE s[j + 1]
  <2> HIDE DEF head, tail
  <2>1. rest = head \o tail
    BY DEF RemoveAt, head, tail
  <2> HIDE DEF rest
  <2>2. rest \in Seq(S) /\ Len(rest) = Len(head) + Len(tail)
    BY <2>1, <1>2, <1>3, ConcatProperties
  <2>3. \A j \in 1 .. Len(head) + Len(tail) :
            rest[j] = IF j <= Len(head) THEN head[j] ELSE tail[j - Len(head)]
    BY <2>1, <1>2, <1>3, ConcatProperties
  <2>4. Len(s) \in Nat /\ i \in 1 .. Len(s)
    BY <1>1
  <2>5. Len(rest) = Len(s) - 1
    BY <1>2, <1>3, <2>2, <2>4
  <2>6. ASSUME NEW j \in 1 .. Len(s) - 1
        PROVE  rest[j] = IF j < i THEN s[j] ELSE s[j + 1]
    <3>1. j \in 1 .. Len(head) + Len(tail)
      BY <1>2, <1>3, <2>4
    <3>2. CASE j < i
      BY <1>2, <2>3, <2>4, <3>1, <3>2
    <3>3. CASE j >= i
      <4>1. j - (i - 1) \in 1 .. Len(s) - i /\ i + (j - (i - 1)) = j + 1
        BY <2>4, <3>3
      <4>2. ~(j <= Len(head))
        BY <1>2, <2>4, <3>3
      <4>3. rest[j] = tail[j - Len(head)]
        BY <2>3, <3>1, <4>2
      <4> QED
        BY <1>2, <1>3, <2>4, <3>3, <4>1, <4>3
    <3> QED
      BY <2>4, <3>2, <3>3
  <2> QED
    BY <2>2, <2>5, <2>6, LenProperties
<1> HIDE DEF rest
<1>5. IsInjective(rest)
  <2> SUFFICES ASSUME NEW j \in 1 .. Len(s) - 1, NEW k \in 1 .. Len(s) - 1, rest[j] = rest[k]
               PROVE  j = k
    BY <1>4 DEF IsInjective
  <2> DEFINE old(n) == IF n < i THEN n ELSE n + 1
  <2>1. old(j) \in 1 .. Len(s) /\ old(k) \in 1 .. Len(s) /\ s[old(j)] = s[old(k)]
    BY <1>1, <1>4
  <2>2. old(j) = old(k)
    BY <1>1, <2>1
  <2> QED
    BY <2>2
<1>6. ToSet(rest) = ToSet(s) \ {s[i]}
  <2>1. ASSUME NEW j \in 1 .. Len(s) - 1 PROVE rest[j] \in ToSet(s) \ {s[i]}
    BY <1>1, <1>4 DEF ToSet
  <2>2. ASSUME NEW j \in 1 .. Len(s), s[j] # s[i] PROVE s[j] \in ToSet(rest)
    <3>1. CASE j < i
      BY <1>1, <1>4, <3>1 DEF ToSet
    <3>2. CASE j > i
      <4>1. j - 1 \in 1 .. Len(s) - 1 /\ rest[j - 1] = s[j]
        BY <1>1, <1>4, <3>2
      <4> QED
        BY <1>4, <4>1 DEF ToSet
    <3> QED
      BY <2>2, <3>1, <3>2
  <2> QED
    BY <1>1, <1>4, <2>1, <2>2 DEF ToSet
<1> QED
  BY <1>4, <1>5, <1>6 DEF Distinct, rest

\* d[key] = value for a new key.
LEMMA AppendElement ==
    ASSUME NEW S, NEW s \in Distinct(S), NEW key \in S
    PROVE  /\ Len(Append(s, key)) = Len(s) + 1
           /\ ToSet(Append(s, key)) = ToSet(s) \cup {key}
           /\ key \notin ToSet(s) => Append(s, key) \in Distinct(S)
<1>1. /\ s \in Seq(S) /\ Len(s) \in Nat /\ DOMAIN s = 1 .. Len(s)
      /\ \A j \in 1 .. Len(s) : s[j] \in S
      /\ \A j, k \in 1 .. Len(s) : s[j] = s[k] => j = k
  BY LenProperties DEF Distinct, IsInjective
<1>2. /\ Append(s, key) \in Seq(S) /\ Len(Append(s, key)) = Len(s) + 1
      /\ DOMAIN Append(s, key) = 1 .. Len(s) + 1
      /\ \A i \in 1 .. Len(s) : Append(s, key)[i] = s[i]
      /\ Append(s, key)[Len(s) + 1] = key
  BY <1>1, AppendProperties, LenProperties
<1> DEFINE longer == Append(s, key)
<1> HIDE DEF longer
<1>3. ToSet(longer) = ToSet(s) \cup {key}
  BY <1>1, <1>2 DEF ToSet, longer
<1>4. key \notin ToSet(s) => IsInjective(longer)
  BY <1>1, <1>2 DEF IsInjective, ToSet, longer
<1> QED
  BY <1>2, <1>3, <1>4 DEF Distinct, longer

LEMMA ContainsIsIn ==
    ASSUME NEW S, NEW s \in Distinct(S), NEW key
    PROVE  Contains(s, key) <=> key \in ToSet(s)
  BY LenProperties DEF Contains, ToSet, Distinct

\* popitem(last=False)
LEMMA TailElement ==
    ASSUME NEW S, NEW s \in Distinct(S), s # <<>>
    PROVE  /\ Tail(s) \in Distinct(S)
           /\ Len(Tail(s)) = Len(s) - 1
           /\ ToSet(Tail(s)) \subseteq ToSet(s)
<1>1. /\ s \in Seq(S) /\ Len(s) \in Nat /\ DOMAIN s = 1 .. Len(s)
      /\ \A j \in 1 .. Len(s) : s[j] \in S
      /\ \A j, k \in 1 .. Len(s) : s[j] = s[k] => j = k
  BY LenProperties DEF Distinct, IsInjective
<1>2. /\ Tail(s) \in Seq(S) /\ Len(Tail(s)) = Len(s) - 1
      /\ DOMAIN Tail(s) = 1 .. Len(s) - 1
      /\ \A i \in 1 .. Len(s) - 1 : Tail(s)[i] = s[i + 1]
  BY <1>1, HeadTailProperties, LenProperties
<1>3. IsInjective(Tail(s))
  <2> SUFFICES ASSUME NEW j \in 1 .. Len(s) - 1, NEW k \in 1 .. Len(s) - 1, Tail(s)[j] = Tail(s)[k]
               PROVE  j = k
    BY <1>2 DEF IsInjective
  <2>1. s[j + 1] = s[k + 1] /\ j + 1 \in 1 .. Len(s) /\ k + 1 \in 1 .. Len(s)
    BY <1>1, <1>2
  <2> QED
    BY <1>1, <2>1
<1>4. ToSet(Tail(s)) \subseteq ToSet(s)
  <2>1. \A j \in 1 .. Len(s) - 1 : j + 1 \in 1 .. Len(s)
    BY <1>1
  <2> QED
    BY <1>1, <1>2, <2>1 DEF ToSet
<1> QED
  BY <1>2, <1>3, <1>4 DEF Distinct

LEMMA ConcatDistinct ==
    ASSUME NEW S, NEW s \in Distinct(S), NEW u \in Distinct(S), ToSet(s) \cap ToSet(u) = {}
    PROVE  s \o u \in Distinct(S) /\ ToSet(s \o u) = ToSet(s) \cup ToSet(u)
<1> DEFINE m == Len(s)
           n == Len(u)
           su == s \o u
<1>1. /\ s \in Seq(S) /\ u \in Seq(S) /\ m \in Nat /\ n \in Nat
      /\ DOMAIN s = 1 .. m /\ DOMAIN u = 1 .. n
      /\ \A i, j \in 1 .. m : s[i] = s[j] => i = j
      /\ \A i, j \in 1 .. n : u[i] = u[j] => i = j
      /\ \A i \in 1 .. m, j \in 1 .. n : s[i] # u[j]
  BY LenProperties DEF Distinct, IsInjective, ToSet
<1>2. /\ su \in Seq(S)
      /\ DOMAIN su = 1 .. m + n
      /\ \A i \in 1 .. m + n : su[i] = IF i <= m THEN s[i] ELSE u[i - m]
  BY <1>1, ConcatProperties, LenProperties
<1> HIDE DEF m, n, su
<1>3. ASSUME NEW i \in 1 .. m + n, NEW j \in 1 .. m + n, su[i] = su[j]
      PROVE  i = j
  <2>1. CASE i <= m /\ j <= m
    BY <1>1, <1>2, <1>3, <2>1
  <2>2. CASE i > m /\ j > m
    <3>1. i - m \in 1 .. n /\ j - m \in 1 .. n /\ u[i - m] = u[j - m]
      BY <1>1, <1>2, <1>3, <2>2
    <3>2. i - m = j - m
      BY <1>1, <3>1
    <3> QED
      BY <1>1, <3>2
  <2>3. ASSUME NEW a \in 1 .. m + n, NEW b \in 1 .. m + n, a <= m, b > m, su[a] = su[b]
        PROVE  FALSE
    <3>1. a \in 1 .. m /\ b - m \in 1 .. n /\ s[a] = u[b - m]
      BY <1>1, <1>2, <2>3
    <3> QED
      BY <1>1, <3>1
  <2> QED
    BY <1>1, <1>3, <2>1, <2>2, <2>3
<1>4. ToSet(su) = ToSet(s) \cup ToSet(u)
  <2>1. ASSUME NEW i \in 1 .. m PROVE s[i] \in ToSet(su)
    <3>1. i \in 1 .. m + n /\ su[i] = s[i]
      BY <1>1, <1>2
    <3> QED
      BY <1>2, <3>1 DEF ToSet
  <2>2. ASSUME NEW i \in 1 .. n PROVE u[i] \in ToSet(su)
    <3>1. i + m \in 1 .. m + n /\ ~(i + m <= m) /\ (i + m) - m = i
      BY <1>1
    <3>2. su[i + m] = u[i]
      BY <1>2, <3>1
    <3> QED
      BY <1>2, <3>1, <3>2 DEF ToSet
  <2>3. ASSUME NEW i \in 1 .. m + n PROVE su[i] \in ToSet(s) \cup ToSet(u)
    <3>1. CASE i <= m
      <4>1. i \in 1 .. m /\ su[i] = s[i]
        BY <1>1, <1>2, <3>1
      <4> QED
        BY <1>1, <4>1 DEF ToSet
    <3>2. CASE i > m
      <4>1. i - m \in 1 .. n /\ su[i] = u[i - m]
        BY <1>1, <1>2, <3>2
      <4> QED
        BY <1>1, <4>1 DEF ToSet
    <3> QED
      BY <1>1, <3>1, <3>2
  <2>4. ToSet(su) \subseteq ToSet(s) \cup ToSet(u)
    <3>1. ASSUME NEW x \in ToSet(su) PROVE x \in ToSet(s) \cup ToSet(u)
      <4>1. PICK i \in 1 .. m + n : x = su[i]
        BY <1>2 DEF ToSet
      <4> QED
        BY <2>3, <4>1
    <3> QED
      BY <3>1
  <2>5. ToSet(s) \subseteq ToSet(su)
    BY <1>1, <2>1 DEF ToSet
  <2>6. ToSet(u) \subseteq ToSet(su)
    BY <1>1, <2>2 DEF ToSet
  <2> QED
    BY <2>4, <2>5, <2>6
<1> QED
  BY <1>2, <1>3, <1>4 DEF Distinct, IsInjective, su

\* len(d) counts the elements.
LEMMA DistinctCardinality ==
    ASSUME NEW S, NEW s \in Distinct(S)
    PROVE  IsFiniteSet(ToSet(s)) /\ Cardinality(ToSet(s)) = Len(s)
<1>1. Len(s) \in Nat /\ s \in [1 .. Len(s) -> ToSet(s)]
  BY LenProperties DEF Distinct, ToSet
<1>2. s \in Bijection(1 .. Len(s), ToSet(s))
  BY <1>1 DEF Distinct, Bijection, Injection, Surjection, IsInjective, ToSet
<1>3. IsFiniteSet(1 .. Len(s)) /\ Cardinality(1 .. Len(s)) = Len(s)
  BY <1>1, FS_Interval
<1> QED
  BY <1>2, <1>3, FS_Bijection DEF ExistsBijection

USE CapacityAssumption, KeyAssumption

LEMMA PairMax == ASSUME NEW a \in Int, NEW b \in Int
                 PROVE  Max({a, b}) = IF a >= b THEN a ELSE b
  BY DEF Max

LEMMA PairMin == ASSUME NEW a \in Int, NEW b \in Int
                 PROVE  Min({a, b}) = IF a <= b THEN a ELSE b
  BY DEF Min

\* _pop_lru_unpinned finds an unpinned key unless all are pinned.
LEMMA OldestFinds ==
    ASSUME NEW s \in Distinct(Key)
    PROVE  /\ Oldest(s) = 0 => ToSet(s) \subseteq pinned
           /\ Oldest(s) # 0 => Oldest(s) \in 1 .. Len(s) /\ s[Oldest(s)] \in ToSet(s) \ pinned
<1> DEFINE I == {i \in 1 .. Len(s) : s[i] \notin pinned}
<1>1. Oldest(s) = IF I # {} THEN Min(I) ELSE 0
  BY DEF Oldest, SelectInSeq
<1>2. I \in SUBSET Nat
  BY DistinctRange
<1>3. CASE I = {}
  BY <1>1, <1>3 DEF Distinct, ToSet
<1>4. CASE I # {}
  <2>1. Oldest(s) \in I
    BY <1>1, <1>2, <1>4, SmallestExists
  <2> QED
    BY <2>1, DistinctRange
<1> QED
  BY <1>3, <1>4

LEMMA WithoutElement ==
    ASSUME NEW s \in Distinct(Key), NEW key \in ToSet(s)
    PROVE  /\ Without(s, key) \in Distinct(Key)
           /\ Len(Without(s, key)) = Len(s) - 1
           /\ ToSet(Without(s, key)) = ToSet(s) \ {key}
<1> DEFINE i == CHOOSE i \in DOMAIN s : s[i] = key
<1>1. i \in 1 .. Len(s) /\ s[i] = key
  BY LenProperties DEF ToSet, Distinct
<1> QED
  BY <1>1, RemoveElement DEF Without

-----------------------------------------------------------------------------
Dir == [t1 : Distinct(Key), t2 : Distinct(Key), b1 : Distinct(Key), b2 : Distinct(Key)]

\* No key is in two lists.
Apart(l) ==
    /\ l \in Dir
    /\ ToSet(l.t1) \cap ToSet(l.t2) = {}
    /\ ToSet(l.b1) \cap ToSet(l.b2) = {}
    /\ (ToSet(l.t1) \cup ToSet(l.t2)) \cap (ToSet(l.b1) \cup ToSet(l.b2)) = {}

Held(l) == ToSet(l.t1) \cup ToSet(l.t2)
Shadow(l) == ToSet(l.b1) \cup ToSet(l.b2)
Size(l) == Len(l.t1) + Len(l.t2)
Left(l) == Len(l.t1) + Len(l.b1)
All(l) == Len(l.t1) + Len(l.t2) + Len(l.b1) + Len(l.b2)

\* What _replace does to a directory: one resident, unpinned key becomes a
\* ghost, on the same side (T1 to B1, T2 to B2).
Evicts(l, r) ==
    /\ Apart(r)
    /\ Size(r) = Size(l) - 1
    /\ Left(r) = Left(l)
    /\ All(r) = All(l)
    /\ \E victim \in Held(l) \ pinned :
          Held(r) = Held(l) \ {victim} /\ Shadow(r) = Shadow(l) \cup {victim}
    /\ ToSet(l.b1) \subseteq ToSet(r.b1) /\ ToSet(l.b2) \subseteq ToSet(r.b2)

\* The type of a directory, in the form that the arithmetic on lengths needs.
LEMMA DirType ==
    ASSUME NEW l, Apart(l)
    PROVE  l \in [t1 : Seq(Key), t2 : Seq(Key), b1 : Seq(Key), b2 : Seq(Key)]
  BY DEF Apart, Dir, Distinct

LEMMA Lengths ==
    ASSUME NEW l, Apart(l)
    PROVE  /\ Len(l.t1) \in Nat /\ Len(l.t2) \in Nat /\ Len(l.b1) \in Nat /\ Len(l.b2) \in Nat
           /\ Size(l) \in Nat /\ Left(l) \in Nat /\ All(l) \in Nat
           /\ Shadow(l) = {} <=> Len(l.b1) + Len(l.b2) = 0
<1>0. l \in [t1 : Seq(Key), t2 : Seq(Key), b1 : Seq(Key), b2 : Seq(Key)]
  BY DirType
<1>1. /\ l.t1 \in Distinct(Key) /\ l.t2 \in Distinct(Key)
      /\ l.b1 \in Distinct(Key) /\ l.b2 \in Distinct(Key)
  BY DEF Apart, Dir
<1>2. Len(l.t1) \in Nat /\ Len(l.t2) \in Nat /\ Len(l.b1) \in Nat /\ Len(l.b2) \in Nat
  BY <1>1, DistinctRange
<1>3. (ToSet(l.b1) = {} <=> Len(l.b1) = 0) /\ (ToSet(l.b2) = {} <=> Len(l.b2) = 0)
  BY <1>1, DistinctRange
<1>4. Shadow(l) = {} <=> ToSet(l.b1) = {} /\ ToSet(l.b2) = {}
  BY DEF Shadow
<1>5. Len(l.b1) + Len(l.b2) = 0 <=> Len(l.b1) = 0 /\ Len(l.b2) = 0
  BY <1>0
<1>6. Size(l) \in Nat /\ Left(l) \in Nat /\ All(l) \in Nat
  BY <1>0 DEF Size, Left, All
<1> QED
  BY <1>2, <1>3, <1>4, <1>5, <1>6

LEMMA EvictT1Evicts ==
    ASSUME NEW l, Apart(l), Oldest(l.t1) # 0
    PROVE  Evicts(l, EvictT1(l)) /\ EvictT1(l).t2 = l.t2
<1> DEFINE i == Oldest(l.t1)
           victim == l.t1[i]
           r == EvictT1(l)
<1>1. /\ l.t1 \in Distinct(Key) /\ l.t2 \in Distinct(Key)
      /\ l.b1 \in Distinct(Key) /\ l.b2 \in Distinct(Key)
  BY DEF Apart, Dir
<1>2. i \in 1 .. Len(l.t1) /\ victim \in ToSet(l.t1) \ pinned /\ victim \in Key
  BY <1>1, OldestFinds, DistinctRange
<1> HIDE DEF i
<1>3. /\ r.t1 = RemoveAt(l.t1, i) /\ r.t2 = l.t2
      /\ r.b1 = Append(l.b1, victim) /\ r.b2 = l.b2
      /\ r = [t1 |-> r.t1, t2 |-> r.t2, b1 |-> r.b1, b2 |-> r.b2]
  BY DEF EvictT1, Directory, i
<1> HIDE DEF victim, r
<1>4. /\ r.t1 \in Distinct(Key) /\ Len(r.t1) = Len(l.t1) - 1
      /\ ToSet(r.t1) = ToSet(l.t1) \ {victim}
  BY <1>1, <1>2, <1>3, RemoveElement DEF victim
<1>5. victim \notin ToSet(l.b1) /\ victim \notin ToSet(l.b2) /\ victim \notin ToSet(l.t2)
  BY <1>2 DEF Apart
<1>6. /\ r.b1 \in Distinct(Key) /\ Len(r.b1) = Len(l.b1) + 1
      /\ ToSet(r.b1) = ToSet(l.b1) \cup {victim}
  BY <1>1, <1>2, <1>3, <1>5, AppendElement
<1>7. Apart(r)
  <2>1. r \in Dir
    BY <1>1, <1>3, <1>4, <1>5, <1>6 DEF Dir
  <2> QED
    BY <1>1, <1>3, <1>4, <1>5, <1>6, <2>1 DEF Apart
<1>8. Size(r) = Size(l) - 1 /\ Left(r) = Left(l) /\ All(r) = All(l)
  <2>1. /\ l \in [t1 : Seq(Key), t2 : Seq(Key), b1 : Seq(Key), b2 : Seq(Key)]
        /\ r \in [t1 : Seq(Key), t2 : Seq(Key), b1 : Seq(Key), b2 : Seq(Key)]
    BY <1>7, DirType
  <2> QED
    BY <1>3, <1>4, <1>6, <2>1 DEF Size, Left, All
<1>9. Held(r) = Held(l) \ {victim} /\ Shadow(r) = Shadow(l) \cup {victim}
  BY <1>3, <1>4, <1>5, <1>6 DEF Held, Shadow
<1> QED
  BY <1>2, <1>3, <1>6, <1>7, <1>8, <1>9 DEF Evicts, Held, r

LEMMA EvictT2Evicts ==
    ASSUME NEW l, Apart(l), Oldest(l.t2) # 0
    PROVE  Evicts(l, EvictT2(l))
<1> DEFINE i == Oldest(l.t2)
           victim == l.t2[i]
           r == EvictT2(l)
<1>1. /\ l.t1 \in Distinct(Key) /\ l.t2 \in Distinct(Key)
      /\ l.b1 \in Distinct(Key) /\ l.b2 \in Distinct(Key)
  BY DEF Apart, Dir
<1>2. i \in 1 .. Len(l.t2) /\ victim \in ToSet(l.t2) \ pinned /\ victim \in Key
  BY <1>1, OldestFinds, DistinctRange
<1> HIDE DEF i
<1>3. /\ r.t2 = RemoveAt(l.t2, i) /\ r.t1 = l.t1
      /\ r.b2 = Append(l.b2, victim) /\ r.b1 = l.b1
      /\ r = [t1 |-> r.t1, t2 |-> r.t2, b1 |-> r.b1, b2 |-> r.b2]
  BY DEF EvictT2, Directory, i
<1> HIDE DEF victim, r
<1>4. /\ r.t2 \in Distinct(Key) /\ Len(r.t2) = Len(l.t2) - 1
      /\ ToSet(r.t2) = ToSet(l.t2) \ {victim}
  BY <1>1, <1>2, <1>3, RemoveElement DEF victim
<1>5. victim \notin ToSet(l.b1) /\ victim \notin ToSet(l.b2) /\ victim \notin ToSet(l.t1)
  BY <1>2 DEF Apart
<1>6. /\ r.b2 \in Distinct(Key) /\ Len(r.b2) = Len(l.b2) + 1
      /\ ToSet(r.b2) = ToSet(l.b2) \cup {victim}
  BY <1>1, <1>2, <1>3, <1>5, AppendElement
<1>7. Apart(r)
  <2>1. r \in Dir
    BY <1>1, <1>3, <1>4, <1>5, <1>6 DEF Dir
  <2> QED
    BY <1>1, <1>3, <1>4, <1>5, <1>6, <2>1 DEF Apart
<1>8. Size(r) = Size(l) - 1 /\ Left(r) = Left(l) /\ All(r) = All(l)
  <2>1. /\ l \in [t1 : Seq(Key), t2 : Seq(Key), b1 : Seq(Key), b2 : Seq(Key)]
        /\ r \in [t1 : Seq(Key), t2 : Seq(Key), b1 : Seq(Key), b2 : Seq(Key)]
    BY <1>7, DirType
  <2> QED
    BY <1>3, <1>4, <1>6, <2>1 DEF Size, Left, All
<1>9. Held(r) = Held(l) \ {victim} /\ Shadow(r) = Shadow(l) \cup {victim}
  BY <1>3, <1>4, <1>5, <1>6 DEF Held, Shadow
<1> QED
  BY <1>2, <1>3, <1>6, <1>7, <1>8, <1>9 DEF Evicts, Held, r

LEMMA ReplacedEvicts ==
    ASSUME NEW l, Apart(l), CanEvict(l), NEW target, NEW key
    PROVE  Evicts(l, Replaced(l, target, key))
  BY EvictT1Evicts, EvictT2Evicts DEF CanEvict, Replaced

\* When nothing can be evicted, everything resident is pinned.
LEMMA CannotEvict ==
    ASSUME NEW l, Apart(l), ~CanEvict(l)
    PROVE  Held(l) \subseteq pinned
  BY OldestFinds DEF Apart, Dir, CanEvict, Held

LEMMA HeldSize ==
    ASSUME NEW l, Apart(l)
    PROVE  IsFiniteSet(Held(l)) /\ Cardinality(Held(l)) = Size(l)
<1>1. /\ IsFiniteSet(ToSet(l.t1)) /\ Cardinality(ToSet(l.t1)) = Len(l.t1)
      /\ IsFiniteSet(ToSet(l.t2)) /\ Cardinality(ToSet(l.t2)) = Len(l.t2)
  BY DistinctCardinality DEF Apart, Dir
<1>2. Cardinality(ToSet(l.t1) \cap ToSet(l.t2)) = 0
  BY FS_EmptySet DEF Apart
<1>3. Len(l.t1) \in Nat /\ Len(l.t2) \in Nat
  BY Lengths
<1>4. /\ IsFiniteSet(Held(l))
      /\ Cardinality(Held(l)) = Cardinality(ToSet(l.t1)) + Cardinality(ToSet(l.t2)) -
                                Cardinality(ToSet(l.t1) \cap ToSet(l.t2))
  BY <1>1, FS_Union DEF Held
<1> QED
  BY <1>1, <1>2, <1>3, <1>4 DEF Size
-----------------------------------------------------------------------------
\* What holds of the directory between calls.  The size bound is what makes
\* the tests with equality (l1 = c, total = 2c) sufficient.
Good(l) ==
    /\ Apart(l)
    /\ Left(l) <= Capacity
    /\ All(l) <= 2 * Capacity
    /\ Size(l) <= Capacity
    /\ Shadow(l) # {} => Size(l) = Capacity

\* A new directory n holds the key in the place of an unpinned one of l.
Trades(l, n, key) ==
    \E victim \in Held(l) \ pinned : Held(n) = (Held(l) \ {victim}) \cup {key}

InsertT1(l, key) == Directory(Append(l.t1, key), l.t2, l.b1, l.b2)

LEMMA InsertInT1 ==
    ASSUME NEW l, Apart(l), NEW key \in Key, key \notin Held(l) \cup Shadow(l)
    PROVE  LET n == InsertT1(l, key)
           IN  /\ Apart(n)
               /\ Size(n) = Size(l) + 1 /\ Left(n) = Left(l) + 1 /\ All(n) = All(l) + 1
               /\ Held(n) = Held(l) \cup {key} /\ Shadow(n) = Shadow(l)
<1> DEFINE n == InsertT1(l, key)
<1>1. /\ l.t1 \in Distinct(Key) /\ l.t2 \in Distinct(Key)
      /\ l.b1 \in Distinct(Key) /\ l.b2 \in Distinct(Key)
  BY DEF Apart, Dir
<1>2. /\ n.t1 = Append(l.t1, key) /\ n.t2 = l.t2 /\ n.b1 = l.b1 /\ n.b2 = l.b2
      /\ n = [t1 |-> n.t1, t2 |-> n.t2, b1 |-> n.b1, b2 |-> n.b2]
  BY DEF InsertT1, Directory
<1> HIDE DEF n
<1>3. /\ key \notin ToSet(l.t1) /\ key \notin ToSet(l.t2)
      /\ key \notin ToSet(l.b1) /\ key \notin ToSet(l.b2)
  BY DEF Held, Shadow
<1>4. /\ n.t1 \in Distinct(Key) /\ Len(n.t1) = Len(l.t1) + 1
      /\ ToSet(n.t1) = ToSet(l.t1) \cup {key}
  BY <1>1, <1>2, <1>3, AppendElement
<1>5. Apart(n)
  BY <1>1, <1>2, <1>3, <1>4 DEF Apart, Dir
<1>6. Size(n) = Size(l) + 1 /\ Left(n) = Left(l) + 1 /\ All(n) = All(l) + 1
  <2>1. /\ l \in [t1 : Seq(Key), t2 : Seq(Key), b1 : Seq(Key), b2 : Seq(Key)]
        /\ n \in [t1 : Seq(Key), t2 : Seq(Key), b1 : Seq(Key), b2 : Seq(Key)]
    BY <1>5, DirType
  <2> QED
    BY <1>2, <1>4, <2>1 DEF Size, Left, All
<1>7. Held(n) = Held(l) \cup {key} /\ Shadow(n) = Shadow(l)
  BY <1>2, <1>4 DEF Held, Shadow
<1> QED
  BY <1>5, <1>6, <1>7 DEF n

\* Case IV: evict, then insert into T1.
LEMMA EvictThenInsert ==
    ASSUME NEW l, Apart(l), NEW r, Evicts(l, r),
           NEW key \in Key, key \notin Held(l) \cup Shadow(l)
    PROVE  LET n == InsertT1(r, key)
           IN  /\ Apart(n)
               /\ Size(n) = Size(l) /\ Left(n) = Left(l) + 1 /\ All(n) = All(l) + 1
               /\ Trades(l, n, key)
<1> DEFINE n == InsertT1(r, key)
<1>1. PICK victim \in Held(l) \ pinned :
          Held(r) = Held(l) \ {victim} /\ Shadow(r) = Shadow(l) \cup {victim}
  BY DEF Evicts
<1>2. Apart(r) /\ key \notin Held(r) \cup Shadow(r)
  BY <1>1 DEF Evicts
<1>3. /\ Apart(n)
      /\ Size(n) = Size(r) + 1 /\ Left(n) = Left(r) + 1 /\ All(n) = All(r) + 1
      /\ Held(n) = Held(r) \cup {key}
  BY <1>2, InsertInT1
<1>4. Size(l) \in Nat /\ Size(r) = Size(l) - 1 /\ Left(r) = Left(l) /\ All(r) = All(l)
  BY Lengths DEF Evicts
<1> HIDE DEF n
<1>5. Size(n) = Size(l) /\ Left(n) = Left(l) + 1 /\ All(n) = All(l) + 1
  BY <1>3, <1>4
<1> QED
  BY <1>1, <1>3, <1>5 DEF Trades, n

\* Cases II and III: evict, then take the key out of its ghost list into T2.
LEMMA PromoteB1 ==
    ASSUME NEW l, Apart(l), NEW r, Evicts(l, r), NEW key \in ToSet(l.b1)
    PROVE  LET n == Directory(r.t1, Append(r.t2, key), Without(r.b1, key), r.b2)
           IN  /\ Apart(n)
               /\ Size(n) = Size(l) /\ Left(n) = Left(l) - 1 /\ All(n) = All(l)
               /\ Trades(l, n, key)
<1> DEFINE n == Directory(r.t1, Append(r.t2, key), Without(r.b1, key), r.b2)
<1>1. /\ r.t1 \in Distinct(Key) /\ r.t2 \in Distinct(Key)
      /\ r.b1 \in Distinct(Key) /\ r.b2 \in Distinct(Key)
      /\ Apart(r)
  BY DEF Evicts, Apart, Dir
<1>2. /\ n.t1 = r.t1 /\ n.t2 = Append(r.t2, key) /\ n.b1 = Without(r.b1, key) /\ n.b2 = r.b2
      /\ n = [t1 |-> n.t1, t2 |-> n.t2, b1 |-> n.b1, b2 |-> n.b2]
  BY DEF Directory
<1> HIDE DEF n
<1>3. key \in ToSet(r.b1) /\ key \in Key
  BY <1>1, DistinctRange DEF Evicts
<1>4. key \notin ToSet(r.t1) /\ key \notin ToSet(r.t2) /\ key \notin ToSet(r.b2)
  BY <1>1, <1>3 DEF Apart
<1>5. /\ n.t2 \in Distinct(Key) /\ Len(n.t2) = Len(r.t2) + 1
      /\ ToSet(n.t2) = ToSet(r.t2) \cup {key}
  BY <1>1, <1>2, <1>3, <1>4, AppendElement
<1>6. /\ n.b1 \in Distinct(Key) /\ Len(n.b1) = Len(r.b1) - 1
      /\ ToSet(n.b1) = ToSet(r.b1) \ {key}
  BY <1>1, <1>2, <1>3, WithoutElement
<1>7. Apart(n)
  <2>1. n \in Dir
    BY <1>1, <1>2, <1>4, <1>5, <1>6 DEF Dir
  <2> QED
    BY <1>1, <1>2, <1>4, <1>5, <1>6, <2>1 DEF Apart
<1>8. Size(n) = Size(l) /\ Left(n) = Left(l) - 1 /\ All(n) = All(l)
  <2>1. /\ r \in [t1 : Seq(Key), t2 : Seq(Key), b1 : Seq(Key), b2 : Seq(Key)]
        /\ n \in [t1 : Seq(Key), t2 : Seq(Key), b1 : Seq(Key), b2 : Seq(Key)]
    BY <1>1, <1>7, DirType
  <2>2. Size(n) = Size(r) + 1 /\ Left(n) = Left(r) - 1 /\ All(n) = All(r)
    BY <1>2, <1>5, <1>6, <2>1 DEF Size, Left, All
  <2>3. Size(l) \in Nat /\ Size(r) = Size(l) - 1 /\ Left(r) = Left(l) /\ All(r) = All(l)
    BY Lengths DEF Evicts
  <2> QED
    BY <2>2, <2>3
<1>9. Held(n) = Held(r) \cup {key}
  BY <1>2, <1>5 DEF Held
<1> QED
  BY <1>7, <1>8, <1>9 DEF Trades, Evicts, n

LEMMA PromoteB2 ==
    ASSUME NEW l, Apart(l), NEW r, Evicts(l, r), NEW key \in ToSet(l.b2)
    PROVE  LET n == Directory(r.t1, Append(r.t2, key), r.b1, Without(r.b2, key))
           IN  /\ Apart(n)
               /\ Size(n) = Size(l) /\ Left(n) = Left(l) /\ All(n) = All(l)
               /\ Trades(l, n, key)
<1> DEFINE n == Directory(r.t1, Append(r.t2, key), r.b1, Without(r.b2, key))
<1>1. /\ r.t1 \in Distinct(Key) /\ r.t2 \in Distinct(Key)
      /\ r.b1 \in Distinct(Key) /\ r.b2 \in Distinct(Key)
      /\ Apart(r)
  BY DEF Evicts, Apart, Dir
<1>2. /\ n.t1 = r.t1 /\ n.t2 = Append(r.t2, key) /\ n.b1 = r.b1 /\ n.b2 = Without(r.b2, key)
      /\ n = [t1 |-> n.t1, t2 |-> n.t2, b1 |-> n.b1, b2 |-> n.b2]
  BY DEF Directory
<1> HIDE DEF n
<1>3. key \in ToSet(r.b2) /\ key \in Key
  BY <1>1, DistinctRange DEF Evicts
<1>4. key \notin ToSet(r.t1) /\ key \notin ToSet(r.t2) /\ key \notin ToSet(r.b1)
  BY <1>1, <1>3 DEF Apart
<1>5. /\ n.t2 \in Distinct(Key) /\ Len(n.t2) = Len(r.t2) + 1
      /\ ToSet(n.t2) = ToSet(r.t2) \cup {key}
  BY <1>1, <1>2, <1>3, <1>4, AppendElement
<1>6. /\ n.b2 \in Distinct(Key) /\ Len(n.b2) = Len(r.b2) - 1
      /\ ToSet(n.b2) = ToSet(r.b2) \ {key}
  BY <1>1, <1>2, <1>3, WithoutElement
<1>7. Apart(n)
  <2>1. n \in Dir
    BY <1>1, <1>2, <1>4, <1>5, <1>6 DEF Dir
  <2> QED
    BY <1>1, <1>2, <1>4, <1>5, <1>6, <2>1 DEF Apart
<1>8. Size(n) = Size(l) /\ Left(n) = Left(l) /\ All(n) = All(l)
  <2>1. /\ r \in [t1 : Seq(Key), t2 : Seq(Key), b1 : Seq(Key), b2 : Seq(Key)]
        /\ n \in [t1 : Seq(Key), t2 : Seq(Key), b1 : Seq(Key), b2 : Seq(Key)]
    BY <1>1, <1>7, DirType
  <2>2. Size(n) = Size(r) + 1 /\ Left(n) = Left(r) /\ All(n) = All(r)
    BY <1>2, <1>5, <1>6, <2>1 DEF Size, Left, All
  <2>3. Size(l) \in Nat /\ Size(r) = Size(l) - 1 /\ Left(r) = Left(l) /\ All(r) = All(l)
    BY Lengths DEF Evicts
  <2> QED
    BY <2>2, <2>3
<1>9. Held(n) = Held(r) \cup {key}
  BY <1>2, <1>5 DEF Held
<1> QED
  BY <1>7, <1>8, <1>9 DEF Trades, Evicts, n
-----------------------------------------------------------------------------
\* What put does to the resident keys: an action of CachePolicy.
Served(key) ==
    \/ /\ key \in Held(Lists)
       /\ Held(Lists') = Held(Lists)
       /\ outcome' = "done"
    \/ /\ key \notin Held(Lists) /\ Size(Lists) < Capacity
       /\ Held(Lists') = Held(Lists) \cup {key}
       /\ outcome' = "done"
    \/ /\ key \notin Held(Lists) /\ Size(Lists) = Capacity
       /\ Trades(Lists, Lists', key)
       /\ outcome' = "done"
    \/ /\ key \notin Held(Lists) /\ Size(Lists) = Capacity
       /\ Held(Lists) \subseteq pinned
       /\ Held(Lists') = Held(Lists)
       /\ outcome' = "RuntimeError"

LEMMA ListsFields ==
    /\ Lists.t1 = t1 /\ Lists.t2 = t2 /\ Lists.b1 = b1 /\ Lists.b2 = b2
    /\ Lists' = [t1 |-> t1', t2 |-> t2', b1 |-> b1', b2 |-> b2']
    /\ Resident = Held(Lists) /\ Ghosts = Shadow(Lists)
    /\ L1 = Left(Lists) /\ Total = All(Lists)
    /\ Len(t1) + Len(t2) = Size(Lists)
  BY DEF Lists, Directory, Resident, Ghosts, L1, Total, Held, Shadow, Left, All, Size

LEMMA BecomeLists ==
    ASSUME NEW l \in Dir, Become(l)
    PROVE  Lists' = l
  BY ListsFields DEF Become, Dir

LEMMA DirectoryFields ==
    ASSUME NEW a, NEW b, NEW c, NEW d
    PROVE  /\ Directory(a, b, c, d).t1 = a /\ Directory(a, b, c, d).t2 = b
           /\ Directory(a, b, c, d).b1 = c /\ Directory(a, b, c, d).b2 = d
  BY DEF Directory

\* A resident key moves to the recent end of T2.
LEMMA MoveToT2 ==
    ASSUME Good(Lists), NEW key \in Key, key \in Held(Lists),
           t1' = IF Contains(t1, key) THEN Without(t1, key) ELSE t1,
           t2' = Append(IF Contains(t2, key) THEN Without(t2, key) ELSE t2, key),
           b1' = b1, b2' = b2
    PROVE  Good(Lists') /\ Held(Lists') = Held(Lists)
<1> DEFINE n == Lists'
<1>1. /\ t1 \in Distinct(Key) /\ t2 \in Distinct(Key)
      /\ b1 \in Distinct(Key) /\ b2 \in Distinct(Key) /\ Apart(Lists)
      /\ ToSet(t1) \cap ToSet(t2) = {}
  BY ListsFields DEF Good, Apart, Dir
<1>2. /\ n.t1 = t1' /\ n.t2 = t2' /\ n.b1 = b1 /\ n.b2 = b2
      /\ n = [t1 |-> n.t1, t2 |-> n.t2, b1 |-> n.b1, b2 |-> n.b2]
  BY ListsFields
<1> HIDE DEF n
<1>3. /\ t1' \in Distinct(Key)
      /\ ToSet(t1') = ToSet(t1) \ {key}
      /\ Len(t1') = IF key \in ToSet(t1) THEN Len(t1) - 1 ELSE Len(t1)
  BY <1>1, ContainsIsIn, WithoutElement
<1> DEFINE rest == IF Contains(t2, key) THEN Without(t2, key) ELSE t2
<1>4. /\ rest \in Distinct(Key)
      /\ ToSet(rest) = ToSet(t2) \ {key}
      /\ Len(rest) = IF key \in ToSet(t2) THEN Len(t2) - 1 ELSE Len(t2)
  BY <1>1, ContainsIsIn, WithoutElement
<1>5. t2' = Append(rest, key)
  OBVIOUS
<1> HIDE DEF rest
<1>6. /\ t2' \in Distinct(Key)
      /\ ToSet(t2') = ToSet(t2) \cup {key}
      /\ Len(t2') = Len(rest) + 1
  <2>1. /\ Append(rest, key) \in Distinct(Key)
        /\ ToSet(Append(rest, key)) = ToSet(rest) \cup {key}
        /\ Len(Append(rest, key)) = Len(rest) + 1
    BY <1>4, AppendElement
  <2> QED
    BY <1>4, <1>5, <2>1
<1>7. key \in ToSet(t1) \/ key \in ToSet(t2)
  BY ListsFields DEF Held
<1>8. Apart(n)
  BY <1>1, <1>2, <1>3, <1>6, <1>7, ListsFields DEF Apart, Dir
<1>9. Held(n) = Held(Lists) /\ Shadow(n) = Shadow(Lists)
  BY <1>2, <1>3, <1>6, <1>7, ListsFields DEF Held, Shadow
<1>10. Size(n) = Size(Lists) /\ Left(n) <= Left(Lists) /\ All(n) = All(Lists)
  <2> DEFINE A == Len(t1)  B == Len(t2)  C == Len(b1)  D == Len(b2)
             A1 == Len(t1')  B0 == Len(rest)  B1 == Len(t2')
             in1 == key \in ToSet(t1)
             in2 == key \in ToSet(t2)
  <2>1. /\ A \in Nat /\ B \in Nat /\ C \in Nat /\ D \in Nat
        /\ A1 \in Nat /\ B0 \in Nat /\ B1 \in Nat
    BY <1>1, <1>3, <1>4, <1>6, DistinctRange
  <2>2. /\ A1 = IF in1 THEN A - 1 ELSE A
        /\ B0 = IF in2 THEN B - 1 ELSE B
        /\ B1 = B0 + 1
        /\ in1 \/ in2
        /\ ~(in1 /\ in2)
    BY <1>1, <1>3, <1>4, <1>6, <1>7
  <2>3. /\ Size(n) = A1 + B1 /\ Left(n) = A1 + C /\ All(n) = A1 + B1 + C + D
        /\ Size(Lists) = A + B /\ Left(Lists) = A + C /\ All(Lists) = A + B + C + D
    BY <1>2, ListsFields DEF Size, Left, All
  <2> HIDE DEF A, B, C, D, A1, B0, B1, in1, in2
  <2>4. A1 + B1 = A + B /\ A1 <= A
    BY <2>1, <2>2
  <2> QED
    BY <2>1, <2>3, <2>4
<1> QED
  <2>1. Good(n)
    <3>1. Left(Lists) \in Nat /\ Left(n) \in Nat
      BY <1>1, <1>8, Lengths
    <3> QED
      BY <1>8, <1>9, <1>10, <3>1 DEF Good
  <2> QED
    BY <1>9, <2>1 DEF n

LEMMA PutResidentServed ==
    ASSUME Good(Lists), NEW key \in Key, PutResident(key)
    PROVE  Good(Lists') /\ Served(key)
<1>1. key \in Held(Lists) /\ outcome' = "done"
  BY ListsFields DEF PutResident
<1>2. Good(Lists') /\ Held(Lists') = Held(Lists)
  BY <1>1, MoveToT2 DEF PutResident
<1> QED
  BY <1>1, <1>2 DEF Served

\* A directory no fuller than the old one, of the same size, with a ghost.
LEMMA TradeIsGood ==
    ASSUME Good(Lists), Size(Lists) = Capacity, NEW key \in Key, key \notin Held(Lists),
           NEW n, Apart(n), Lists' = n,
           Size(n) = Size(Lists), Left(n) <= Capacity, All(n) <= 2 * Capacity,
           Trades(Lists, n, key), outcome' = "done"
    PROVE  Good(Lists') /\ Served(key)
  BY DEF Good, Served

LEMMA RaiseIsGood ==
    ASSUME Good(Lists), Size(Lists) = Capacity, NEW key \in Key, key \notin Held(Lists),
           NEW l, Apart(l), ~CanEvict(l), Held(l) = Held(Lists),
           Size(l) = Size(Lists), Left(l) <= Capacity, All(l) <= 2 * Capacity,
           Raise(l, "RuntimeError")
    PROVE  Good(Lists') /\ Served(key)
<1>1. Lists' = l
  BY BecomeLists DEF Raise, Apart
<1>2. Held(Lists) \subseteq pinned
  BY CannotEvict
<1> QED
  BY <1>1, <1>2 DEF Good, Served, Raise

\* A ghost is never resident, and while there is one the cache is full.
LEMMA GhostFull ==
    ASSUME Good(Lists), NEW key \in Ghosts
    PROVE  Size(Lists) = Capacity /\ key \notin Held(Lists)
  BY ListsFields DEF Good, Apart, Held, Shadow

LEMMA PutGhostB1Served ==
    ASSUME Good(Lists), NEW key \in Key, PutGhostB1(key)
    PROVE  Good(Lists') /\ Served(key)
<1>1. Apart(Lists) /\ b1 \in Distinct(Key) /\ key \in ToSet(Lists.b1) /\ key \in Ghosts
  BY ContainsIsIn, ListsFields DEF PutGhostB1, Good, Apart, Dir, Ghosts
<1>2. Size(Lists) = Capacity /\ key \notin Held(Lists)
  BY <1>1, GhostFull
<1>3. CASE CanEvict(Lists)
  <2> DEFINE r == Replaced(Lists, p', key)
             n == Directory(r.t1, Append(r.t2, key), Without(r.b1, key), r.b2)
  <2>1. Evicts(Lists, r)
    BY <1>1, <1>3, ReplacedEvicts
  <2>2. /\ Apart(n)
        /\ Size(n) = Size(Lists) /\ Left(n) = Left(Lists) - 1 /\ All(n) = All(Lists)
        /\ Trades(Lists, n, key)
    BY <1>1, <2>1, PromoteB1
  <2>3. Become(n) /\ outcome' = "done"
    BY <1>3 DEF PutGhostB1
  <2> HIDE DEF n
  <2>4. Lists' = n
    BY <2>2, <2>3, BecomeLists DEF Apart
  <2>5. Left(n) <= Capacity /\ All(n) <= 2 * Capacity
    <3>1. Left(Lists) \in Nat /\ Left(Lists) <= Capacity /\ All(Lists) <= 2 * Capacity
      BY <1>1, Lengths DEF Good
    <3> HIDE DEF n
    <3> QED
      BY <2>2, <3>1
  <2> QED
    BY <1>2, <2>2, <2>3, <2>4, <2>5, TradeIsGood
<1>4. CASE ~CanEvict(Lists)
  BY <1>1, <1>2, <1>4, RaiseIsGood DEF PutGhostB1, Good
<1> QED
  BY <1>3, <1>4

LEMMA PutGhostB2Served ==
    ASSUME Good(Lists), NEW key \in Key, PutGhostB2(key)
    PROVE  Good(Lists') /\ Served(key)
<1>1. Apart(Lists) /\ b2 \in Distinct(Key) /\ key \in ToSet(Lists.b2) /\ key \in Ghosts
  BY ContainsIsIn, ListsFields DEF PutGhostB2, Good, Apart, Dir, Ghosts
<1>2. Size(Lists) = Capacity /\ key \notin Held(Lists)
  BY <1>1, GhostFull
<1>3. CASE CanEvict(Lists)
  <2> DEFINE r == Replaced(Lists, p', key)
             n == Directory(r.t1, Append(r.t2, key), r.b1, Without(r.b2, key))
  <2>1. Evicts(Lists, r)
    BY <1>1, <1>3, ReplacedEvicts
  <2>2. /\ Apart(n)
        /\ Size(n) = Size(Lists) /\ Left(n) = Left(Lists) /\ All(n) = All(Lists)
        /\ Trades(Lists, n, key)
    BY <1>1, <2>1, PromoteB2
  <2>3. Become(n) /\ outcome' = "done"
    BY <1>3 DEF PutGhostB2
  <2> HIDE DEF n
  <2>4. Lists' = n
    BY <2>2, <2>3, BecomeLists DEF Apart
  <2>5. Left(n) <= Capacity /\ All(n) <= 2 * Capacity
    BY <2>2 DEF Good
  <2> QED
    BY <1>2, <2>2, <2>3, <2>4, <2>5, TradeIsGood
<1>4. CASE ~CanEvict(Lists)
  BY <1>1, <1>2, <1>4, RaiseIsGood DEF PutGhostB2, Good
<1> QED
  BY <1>3, <1>4

LEMMA ReplaceThenInsertServed ==
    ASSUME Good(Lists), Size(Lists) = Capacity,
           NEW key \in Key, key \notin Held(Lists) \cup Shadow(Lists),
           NEW l, Apart(l), Held(l) = Held(Lists), Shadow(l) \subseteq Shadow(Lists),
           Size(l) = Size(Lists), Left(l) < Capacity, All(l) < 2 * Capacity,
           ReplaceThenInsert(l, key)
    PROVE  Good(Lists') /\ Served(key)
<1>1. Left(l) \in Nat /\ All(l) \in Nat
  BY Lengths
<1>2. CASE CanEvict(l)
  <2> DEFINE r == Replaced(l, p, key)
             n == InsertT1(r, key)
  <2>1. Evicts(l, r)
    BY <1>2, ReplacedEvicts
  <2>2. key \notin Held(l) \cup Shadow(l)
    OBVIOUS
  <2>3. /\ Apart(n)
        /\ Size(n) = Size(l) /\ Left(n) = Left(l) + 1 /\ All(n) = All(l) + 1
        /\ Trades(l, n, key)
    BY <2>1, <2>2, EvictThenInsert
  <2>4. Become(n) /\ outcome' = "done"
    BY <1>2 DEF ReplaceThenInsert, InsertT1
  <2> HIDE DEF n
  <2>5. Lists' = n
    BY <2>3, <2>4, BecomeLists DEF Apart
  <2>6. Left(n) <= Capacity /\ All(n) <= 2 * Capacity
    BY <1>1, <2>3
  <2>7. Trades(Lists, n, key)
    BY <2>3 DEF Trades
  <2> QED
    BY <2>3, <2>4, <2>5, <2>6, <2>7, TradeIsGood
<1>3. CASE ~CanEvict(l)
  <2>1. Raise(l, "RuntimeError")
    BY <1>3 DEF ReplaceThenInsert
  <2>2. Left(l) <= Capacity /\ All(l) <= 2 * Capacity
    BY <1>1
  <2> QED
    BY <1>3, <2>1, <2>2, RaiseIsGood
<1> QED
  BY <1>2, <1>3

\* popitem of a ghost list that is not empty.
LEMMA DropB1 ==
    ASSUME Apart(Lists), b1 # <<>>
    PROVE  LET l == Directory(t1, t2, Tail(b1), b2)
           IN  /\ Apart(l) /\ Held(l) = Held(Lists) /\ Shadow(l) \subseteq Shadow(Lists)
               /\ Size(l) = Size(Lists) /\ Left(l) = Left(Lists) - 1 /\ All(l) = All(Lists) - 1
<1> DEFINE l == Directory(t1, t2, Tail(b1), b2)
<1>1. /\ t1 \in Distinct(Key) /\ t2 \in Distinct(Key)
      /\ b1 \in Distinct(Key) /\ b2 \in Distinct(Key)
      /\ ToSet(Tail(b1)) \subseteq ToSet(b1) /\ Tail(b1) \in Distinct(Key)
      /\ Len(Tail(b1)) = Len(b1) - 1
  BY TailElement, ListsFields DEF Apart, Dir
<1>2. /\ l.t1 = t1 /\ l.t2 = t2 /\ l.b1 = Tail(b1) /\ l.b2 = b2
      /\ l = [t1 |-> l.t1, t2 |-> l.t2, b1 |-> l.b1, b2 |-> l.b2]
  BY DEF Directory
<1> HIDE DEF l
<1>3. Apart(l) /\ Held(l) = Held(Lists) /\ Shadow(l) \subseteq Shadow(Lists)
  BY <1>1, <1>2, ListsFields DEF Apart, Dir, Held, Shadow
<1>4. Len(t1) \in Nat /\ Len(t2) \in Nat /\ Len(b1) \in Nat /\ Len(b2) \in Nat
  BY <1>1, DistinctRange
<1>5. /\ Size(Lists) = Len(t1) + Len(t2) /\ Left(Lists) = Len(t1) + Len(b1)
      /\ All(Lists) = Len(t1) + Len(t2) + Len(b1) + Len(b2)
      /\ Size(l) = Len(t1) + Len(t2) /\ Left(l) = Len(t1) + Len(Tail(b1))
      /\ All(l) = Len(t1) + Len(t2) + Len(Tail(b1)) + Len(b2)
  BY <1>2, ListsFields DEF Size, Left, All
<1>6. Size(l) = Size(Lists) /\ Left(l) = Left(Lists) - 1 /\ All(l) = All(Lists) - 1
  BY <1>1, <1>4, <1>5
<1> QED
  BY <1>3, <1>6 DEF l

LEMMA DropB2 ==
    ASSUME Apart(Lists), b2 # <<>>
    PROVE  LET l == Directory(t1, t2, b1, Tail(b2))
           IN  /\ Apart(l) /\ Held(l) = Held(Lists) /\ Shadow(l) \subseteq Shadow(Lists)
               /\ Size(l) = Size(Lists) /\ Left(l) = Left(Lists) /\ All(l) = All(Lists) - 1
<1> DEFINE l == Directory(t1, t2, b1, Tail(b2))
<1>1. /\ t1 \in Distinct(Key) /\ t2 \in Distinct(Key)
      /\ b1 \in Distinct(Key) /\ b2 \in Distinct(Key)
      /\ ToSet(Tail(b2)) \subseteq ToSet(b2) /\ Tail(b2) \in Distinct(Key)
      /\ Len(Tail(b2)) = Len(b2) - 1
  BY TailElement, ListsFields DEF Apart, Dir
<1>2. /\ l.t1 = t1 /\ l.t2 = t2 /\ l.b1 = b1 /\ l.b2 = Tail(b2)
      /\ l = [t1 |-> l.t1, t2 |-> l.t2, b1 |-> l.b1, b2 |-> l.b2]
  BY DEF Directory
<1> HIDE DEF l
<1>3. Apart(l) /\ Held(l) = Held(Lists) /\ Shadow(l) \subseteq Shadow(Lists)
  BY <1>1, <1>2, ListsFields DEF Apart, Dir, Held, Shadow
<1>4. Len(t1) \in Nat /\ Len(t2) \in Nat /\ Len(b1) \in Nat /\ Len(b2) \in Nat
  BY <1>1, DistinctRange
<1>5. /\ Size(Lists) = Len(t1) + Len(t2) /\ Left(Lists) = Len(t1) + Len(b1)
      /\ All(Lists) = Len(t1) + Len(t2) + Len(b1) + Len(b2)
      /\ Size(l) = Len(t1) + Len(t2) /\ Left(l) = Len(t1) + Len(b1)
      /\ All(l) = Len(t1) + Len(t2) + Len(b1) + Len(Tail(b2))
  BY <1>2, ListsFields DEF Size, Left, All
<1>6. Size(l) = Size(Lists) /\ Left(l) = Left(Lists) /\ All(l) = All(Lists) - 1
  BY <1>1, <1>4, <1>5
<1> QED
  BY <1>3, <1>6 DEF l

\* The numbers behind the tests of Case IV.
LEMMA GoodNumbers ==
    ASSUME Good(Lists)
    PROVE  /\ t1 \in Distinct(Key) /\ t2 \in Distinct(Key)
           /\ b1 \in Distinct(Key) /\ b2 \in Distinct(Key)
           /\ Len(t1) \in Nat /\ Len(t2) \in Nat /\ Len(b1) \in Nat /\ Len(b2) \in Nat
           /\ Size(Lists) = Len(t1) + Len(t2)
           /\ Left(Lists) = Len(t1) + Len(b1)
           /\ All(Lists) = Len(t1) + Len(t2) + Len(b1) + Len(b2)
           /\ L1 = Len(t1) + Len(b1) /\ Total = Len(t1) + Len(t2) + Len(b1) + Len(b2)
           /\ Len(t1) + Len(t2) <= Capacity
           /\ Len(t1) + Len(b1) <= Capacity
           /\ Len(t1) + Len(t2) + Len(b1) + Len(b2) <= 2 * Capacity
           /\ Len(b1) + Len(b2) > 0 => Len(t1) + Len(t2) = Capacity
           /\ b1 = <<>> => Len(b1) = 0
           /\ b2 = <<>> => Len(b2) = 0
<1>1. /\ t1 \in Distinct(Key) /\ t2 \in Distinct(Key)
      /\ b1 \in Distinct(Key) /\ b2 \in Distinct(Key)
      /\ Apart(Lists)
  BY ListsFields DEF Good, Apart, Dir
<1>2. Len(t1) \in Nat /\ Len(t2) \in Nat /\ Len(b1) \in Nat /\ Len(b2) \in Nat
  BY <1>1, DistinctRange
<1>3. /\ Size(Lists) = Len(t1) + Len(t2)
      /\ Left(Lists) = Len(t1) + Len(b1)
      /\ All(Lists) = Len(t1) + Len(t2) + Len(b1) + Len(b2)
      /\ L1 = Len(t1) + Len(b1) /\ Total = Len(t1) + Len(t2) + Len(b1) + Len(b2)
  BY ListsFields DEF Size, Left, All
<1>4. Len(b1) + Len(b2) > 0 => Size(Lists) = Capacity
  <2>1. Shadow(Lists) = {} <=> Len(b1) + Len(b2) = 0
    BY <1>1, Lengths, ListsFields
  <2> QED
    BY <1>2, <2>1 DEF Good
<1>5. (b1 = <<>> => Len(b1) = 0) /\ (b2 = <<>> => Len(b2) = 0)
  OBVIOUS
<1> QED
  BY <1>1, <1>2, <1>3, <1>4, <1>5 DEF Good

LEMMA PutNewFullL1Served ==
    ASSUME Good(Lists), NEW key \in Key, IsNew(key), PutNewFullL1(key)
    PROVE  Good(Lists') /\ Served(key)
<1> DEFINE rest == Directory(t1, t2, Tail(b1), b2)
<1>1. Len(t1) + Len(b1) = Capacity /\ Len(t1) < Capacity
  BY GoodNumbers DEF PutNewFullL1
<1>2. Len(b1) > 0 /\ Len(b1) + Len(b2) > 0 /\ b1 # <<>>
  BY <1>1, GoodNumbers
<1>3. /\ Apart(rest) /\ Held(rest) = Held(Lists) /\ Shadow(rest) \subseteq Shadow(Lists)
      /\ Size(rest) = Size(Lists) /\ Left(rest) = Left(Lists) - 1 /\ All(rest) = All(Lists) - 1
  BY <1>2, DropB1 DEF Good
<1>4. ReplaceThenInsert(rest, key)
  BY <1>2 DEF PutNewFullL1, DropGhost
<1> HIDE DEF rest
<1>5. Size(Lists) = Capacity
  BY <1>2, GoodNumbers
<1>6. Left(rest) < Capacity /\ All(rest) < 2 * Capacity
  <2>1. /\ Left(Lists) \in Nat /\ All(Lists) \in Nat
        /\ Left(Lists) <= Capacity /\ All(Lists) <= 2 * Capacity
    BY Lengths DEF Good
  <2> QED
    BY <1>3, <2>1
<1>7. key \notin Held(Lists) \cup Shadow(Lists)
  BY ListsFields DEF IsNew
<1> QED
  BY <1>3, <1>4, <1>5, <1>6, <1>7, ReplaceThenInsertServed

LEMMA PutNewFullT1Served ==
    ASSUME Good(Lists), NEW key \in Key, IsNew(key), PutNewFullT1(key)
    PROVE  Good(Lists') /\ Served(key)
<1>1. Len(t1) = Capacity /\ Len(t2) = 0 /\ Size(Lists) = Capacity
  BY GoodNumbers DEF PutNewFullT1
<1>2. /\ Apart(Lists)
      /\ t1 \in Distinct(Key) /\ t2 \in Distinct(Key)
      /\ b1 \in Distinct(Key) /\ b2 \in Distinct(Key)
  BY GoodNumbers DEF Good
<1>3. key \notin Held(Lists) \cup Shadow(Lists)
  BY ListsFields DEF IsNew
<1>4. CASE Oldest(t1) # 0
  <2> DEFINE i == Oldest(t1)
             victim == t1[i]
             l == Directory(RemoveAt(t1, i), t2, b1, b2)
             n == InsertT1(l, key)
  <2>1. i \in 1 .. Len(t1) /\ victim \in ToSet(t1) \ pinned
    BY <1>2, <1>4, OldestFinds
  <2> HIDE DEF i
  <2>2. /\ RemoveAt(t1, i) \in Distinct(Key) /\ Len(RemoveAt(t1, i)) = Len(t1) - 1
        /\ ToSet(RemoveAt(t1, i)) = ToSet(t1) \ {victim}
    BY <1>2, <2>1, RemoveElement
  <2>3. /\ l.t1 = RemoveAt(t1, i) /\ l.t2 = t2 /\ l.b1 = b1 /\ l.b2 = b2
        /\ l = [t1 |-> l.t1, t2 |-> l.t2, b1 |-> l.b1, b2 |-> l.b2]
    BY DEF Directory
  <2>4. Become(n) /\ outcome' = "done"
    BY <1>1, <1>4, DirectoryFields DEF PutNewFullT1, InsertT1, i
  <2> HIDE DEF victim, l
  <2>5. Apart(l)
    BY <1>2, <2>2, <2>3, ListsFields DEF Apart, Dir
  <2>6. Held(l) = Held(Lists) \ {victim} /\ Shadow(l) = Shadow(Lists) /\ victim \in Held(Lists)
    <3>1. victim \notin ToSet(t2)
      BY <1>2, <2>1, ListsFields DEF Apart
    <3> QED
      BY <2>1, <2>2, <2>3, <3>1, ListsFields DEF Held, Shadow
  <2>7. Size(l) = Size(Lists) - 1 /\ Left(l) = Left(Lists) - 1 /\ All(l) = All(Lists) - 1
    <3>1. /\ Size(l) = Len(RemoveAt(t1, i)) + Len(t2)
          /\ Left(l) = Len(RemoveAt(t1, i)) + Len(b1)
          /\ All(l) = Len(RemoveAt(t1, i)) + Len(t2) + Len(b1) + Len(b2)
      BY <2>3 DEF Size, Left, All
    <3> QED
      BY <2>2, <3>1, GoodNumbers
  <2>8. /\ Apart(n) /\ Held(n) = Held(l) \cup {key}
        /\ Size(n) = Size(l) + 1 /\ Left(n) = Left(l) + 1 /\ All(n) = All(l) + 1
    BY <1>3, <2>5, <2>6, InsertInT1
  <2> HIDE DEF n
  <2>9. /\ Size(n) = Size(Lists) /\ Left(n) <= Capacity /\ All(n) <= 2 * Capacity
    <3>1. /\ Size(Lists) \in Nat /\ Left(Lists) \in Nat /\ All(Lists) \in Nat
          /\ Left(Lists) <= Capacity /\ All(Lists) <= 2 * Capacity
      BY Lengths DEF Good
    <3> QED
      BY <2>7, <2>8, <3>1
  <2>10. Trades(Lists, n, key)
    BY <2>1, <2>6, <2>8 DEF Trades
  <2>11. Lists' = n
    BY <2>4, <2>8, BecomeLists DEF Apart
  <2> QED
    BY <1>1, <1>3, <2>4, <2>8, <2>9, <2>10, <2>11, TradeIsGood
<1>5. CASE Oldest(t1) = 0
  <2>1. Held(Lists) \subseteq pinned
    <3>1. ToSet(t2) = {}
      BY <1>1, <1>2, DistinctRange
    <3>2. ToSet(t1) \subseteq pinned
      BY <1>2, <1>5, OldestFinds
    <3> QED
      BY <3>1, <3>2, ListsFields DEF Held
  <2>2. Become(Lists) /\ outcome' = "RuntimeError"
    BY <1>5 DEF PutNewFullT1, Raise
  <2>3. Lists' = Lists
    BY <1>2, <2>2, BecomeLists DEF Apart
  <2> QED
    BY <1>1, <1>3, <2>1, <2>2, <2>3 DEF Served
<1> QED
  BY <1>4, <1>5

LEMMA PutNewOtherServed ==
    ASSUME Good(Lists), NEW key \in Key, IsNew(key), PutNewOther(key)
    PROVE  Good(Lists') /\ Served(key)
<1>1. Len(t1) + Len(b1) < Capacity
  BY GoodNumbers DEF PutNewOther
<1>2. Apart(Lists) /\ key \notin Held(Lists) \cup Shadow(Lists)
  BY ListsFields DEF IsNew, Good
<1>3. CASE Total >= Capacity /\ Total = 2 * Capacity
  <2> DEFINE rest == Directory(t1, t2, b1, Tail(b2))
  <2>1. Len(b1) + Len(b2) > 0 /\ b2 # <<>> /\ Size(Lists) = Capacity
    BY <1>1, <1>3, GoodNumbers
  <2>2. /\ Apart(rest) /\ Held(rest) = Held(Lists) /\ Shadow(rest) \subseteq Shadow(Lists)
        /\ Size(rest) = Size(Lists) /\ Left(rest) = Left(Lists) /\ All(rest) = All(Lists) - 1
    BY <1>2, <2>1, DropB2
  <2>3. ReplaceThenInsert(rest, key)
    BY <1>3, <2>1 DEF PutNewOther, DropGhost
  <2> HIDE DEF rest
  <2>4. Left(rest) < Capacity /\ All(rest) < 2 * Capacity
    <3>1. Left(Lists) < Capacity /\ All(Lists) \in Nat /\ All(Lists) <= 2 * Capacity
      BY <1>1, <1>2, GoodNumbers, Lengths
    <3> QED
      BY <2>2, <3>1
  <2> QED
    BY <1>2, <2>1, <2>2, <2>3, <2>4, ReplaceThenInsertServed
<1>4. CASE Total >= Capacity /\ Total # 2 * Capacity
  <2>1. Size(Lists) = Capacity
    BY <1>1, <1>4, GoodNumbers
  <2>2. Left(Lists) < Capacity /\ All(Lists) < 2 * Capacity
    BY <1>1, <1>4, GoodNumbers
  <2>3. ReplaceThenInsert(Lists, key)
    BY <1>4 DEF PutNewOther
  <2> QED
    BY <1>2, <2>1, <2>2, <2>3, ReplaceThenInsertServed
<1>5. CASE ~(Total >= Capacity)
  <2> DEFINE n == InsertT1(Lists, key)
  <2>1. Become(n) /\ outcome' = "done"
    BY <1>5, ListsFields DEF PutNewOther, InsertT1
  <2>2. /\ Apart(n) /\ Held(n) = Held(Lists) \cup {key} /\ Shadow(n) = Shadow(Lists)
        /\ Size(n) = Size(Lists) + 1 /\ Left(n) = Left(Lists) + 1 /\ All(n) = All(Lists) + 1
    BY <1>2, InsertInT1
  <2> HIDE DEF n
  <2>3. Lists' = n
    BY <2>1, <2>2, BecomeLists DEF Apart
  <2>4. Shadow(Lists) = {} /\ Size(Lists) < Capacity
    <3>1. ~(Len(b1) + Len(b2) > 0) /\ Size(Lists) < Capacity
      BY <1>5, GoodNumbers
    <3>2. Len(b1) + Len(b2) = 0
      BY <3>1, GoodNumbers
    <3> QED
      BY <1>2, <3>1, <3>2, Lengths, ListsFields
  <2>5. Size(n) <= Capacity /\ Left(n) <= Capacity /\ All(n) <= 2 * Capacity
    <3>1. /\ Size(Lists) \in Nat /\ Left(Lists) \in Nat /\ All(Lists) \in Nat
          /\ Size(Lists) < Capacity /\ Left(Lists) < Capacity /\ All(Lists) < Capacity
      BY <1>1, <1>2, <1>5, <2>4, GoodNumbers, Lengths
    <3> QED
      BY <2>2, <3>1
  <2> QED
    BY <1>2, <2>1, <2>2, <2>3, <2>4, <2>5 DEF Good, Served
<1> QED
  BY <1>3, <1>4, <1>5

LEMMA PutServed ==
    ASSUME Good(Lists), NEW key \in Key, Put(key)
    PROVE  Good(Lists') /\ Served(key)
  BY PutResidentServed, PutGhostB1Served, PutGhostB2Served, PutNewFullL1Served,
     PutNewFullT1Served, PutNewOtherServed
  DEF Put, PutNew
-----------------------------------------------------------------------------
Scalars ==
    /\ p \in 0 .. Capacity
    /\ regions \subseteq Key
    /\ pinned \subseteq Key
    /\ hits \in Nat /\ misses \in Nat
    /\ outcome \in {"new", "hit", "miss", "done", "RuntimeError"}

Inv == Good(Lists) /\ Scalars

LEMMA GetKeeps ==
    ASSUME Good(Lists), NEW key \in Key, Get(key)
    PROVE  Good(Lists') /\ Held(Lists') = Held(Lists)
<1>1. /\ Apart(Lists) /\ t1 \in Distinct(Key) /\ t2 \in Distinct(Key)
      /\ ToSet(t1) \cap ToSet(t2) = {}
      /\ Held(Lists) = ToSet(t1) \cup ToSet(t2)
  BY ListsFields DEF Good, Apart, Dir, Held
<1>2. CASE GetT1(key)
  <2>1. key \in ToSet(t1) /\ Contains(t1, key) /\ ~Contains(t2, key) /\ key \in Held(Lists)
    BY <1>1, <1>2, ContainsIsIn DEF GetT1
  <2> QED
    BY <1>2, <2>1, MoveToT2 DEF GetT1
<1>3. CASE GetT2(key)
  <2>1. key \in ToSet(t2) /\ Contains(t2, key) /\ ~Contains(t1, key) /\ key \in Held(Lists)
    BY <1>1, <1>3, ContainsIsIn DEF GetT2
  <2> QED
    BY <1>3, <2>1, MoveToT2 DEF GetT2
<1>4. CASE GetMiss(key)
  <2>1. Lists' = Lists
    BY <1>4 DEF GetMiss, Lists
  <2> QED
    BY <2>1
<1> QED
  BY <1>2, <1>3, <1>4 DEF Get

\* Either ghost hit moves p by at least one, within 0 and the capacity.
LEMMA TargetInRange ==
    ASSUME Inv, NEW key \in Key, Put(key)
    PROVE  p' \in 0 .. Capacity
<1>1. /\ p \in 0 .. Capacity
      /\ Len(b1) \in Nat /\ Len(b2) \in Nat
  BY GoodNumbers DEF Inv, Scalars
<1>2. ASSUME NEW m \in Nat, NEW n \in Nat
      PROVE  Max({1, m \div Max({1, n})}) \in Nat
  <2>1. Max({1, n}) \in Nat \ {0}
    BY PairMax
  <2>2. m \div Max({1, n}) \in Nat
    BY <2>1
  <2> QED
    BY <2>2, PairMax
<1>3. CASE PutGhostB1(key)
  <2> DEFINE d == Max({1, Len(b2) \div Max({1, Len(b1)})})
  <2>1. p' = Min({Capacity, p + d}) /\ d \in Nat
    BY <1>1, <1>2, <1>3 DEF PutGhostB1
  <2> HIDE DEF d
  <2> QED
    BY <1>1, <2>1, PairMin
<1>4. CASE PutGhostB2(key)
  <2> DEFINE d == Max({1, Len(b1) \div Max({1, Len(b2)})})
  <2>1. p' = Max({0, p - d}) /\ d \in Nat
    BY <1>1, <1>2, <1>4 DEF PutGhostB2
  <2> HIDE DEF d
  <2> QED
    BY <1>1, <2>1, PairMax
<1>5. CASE PutResident(key) \/ PutNew(key)
  BY <1>1, <1>5 DEF PutResident, PutNew
<1> QED
  BY <1>3, <1>4, <1>5 DEF Put

LEMMA PutRemembers ==
    ASSUME NEW key \in Key, Put(key)
    PROVE  Remember(key)
  BY DEF Put, PutResident, PutGhostB1, PutGhostB2, PutNew

LEMMA InitInv == Init => Inv
<1> SUFFICES ASSUME Init PROVE Inv
  OBVIOUS
<1>1. <<>> \in Distinct(Key) /\ ToSet(<<>>) = {} /\ Len(<<>>) = 0
  BY DEF Distinct, IsInjective, ToSet
<1>2. t1 = <<>> /\ t2 = <<>> /\ b1 = <<>> /\ b2 = <<>>
  BY DEF Init
<1>3. Lists = [t1 |-> <<>>, t2 |-> <<>>, b1 |-> <<>>, b2 |-> <<>>]
  BY <1>2 DEF Lists, Directory
<1>4. Apart(Lists) /\ Shadow(Lists) = {}
  BY <1>1, <1>3 DEF Apart, Dir, Shadow
<1>5. Size(Lists) = 0 /\ Left(Lists) = 0 /\ All(Lists) = 0
  BY <1>1, <1>2, ListsFields DEF Size, Left, All
<1> QED
  BY <1>4, <1>5 DEF Inv, Good, Scalars, Init

LEMMA StepInv == Inv /\ [Next]_vars => Inv'
<1> SUFFICES ASSUME Inv, [Next]_vars PROVE Inv'
  OBVIOUS
<1>1. ASSUME NEW key \in Key, Get(key) PROVE Inv'
  <2>1. Good(Lists)'
    BY <1>1, GetKeeps DEF Inv
  <2>2. Scalars'
    BY <1>1 DEF Inv, Scalars, Get, GetT1, GetT2, GetMiss
  <2> QED
    BY <2>1, <2>2 DEF Inv
<1>2. ASSUME NEW key \in Key, Put(key) PROVE Inv'
  <2>1. Good(Lists)' /\ Served(key)
    BY <1>2, PutServed DEF Inv
  <2>2. Scalars'
    BY <1>2, <2>1, TargetInRange, PutRemembers DEF Inv, Scalars, Served, Remember
  <2> QED
    BY <2>1, <2>2 DEF Inv
<1>3. ASSUME NEW key \in Key, Pin(key) \/ Unpin(key) PROVE Inv'
  <2>1. Lists' = Lists
    BY <1>3 DEF Pin, Unpin, Lists
  <2>2. Scalars'
    BY <1>3 DEF Inv, Scalars, Pin, Unpin
  <2> QED
    BY <2>1, <2>2 DEF Inv
<1>4. CASE UNCHANGED vars
  <2>1. Lists' = Lists /\ Scalars'
    BY <1>4 DEF vars, Lists, Inv, Scalars
  <2> QED
    BY <2>1 DEF Inv
<1> QED
  BY <1>1, <1>2, <1>3, <1>4 DEF Next

LEMMA Invariance == Spec => []Inv
  BY InitInv, StepInv, PTL DEF Spec
-----------------------------------------------------------------------------
(* Types; a key is in at most one of the four lists, and once; p stays      *)
(* between 0 and the capacity.                                              *)
THEOREM ARCTypes == Spec => []TypeOK
<1>1. Inv => TypeOK
  <2> SUFFICES ASSUME Inv PROVE TypeOK
    OBVIOUS
  <2>1. /\ t1 \in Distinct(Key) /\ t2 \in Distinct(Key)
        /\ b1 \in Distinct(Key) /\ b2 \in Distinct(Key)
        /\ ToSet(t1) \cap ToSet(t2) = {}
        /\ ToSet(b1) \cap ToSet(b2) = {}
        /\ (ToSet(t1) \cup ToSet(t2)) \cap (ToSet(b1) \cup ToSet(b2)) = {}
    BY ListsFields DEF Inv, Good, Apart, Dir
  <2>2. t1 \o t2 \in Distinct(Key) /\ ToSet(t1 \o t2) = ToSet(t1) \cup ToSet(t2)
    BY <2>1, ConcatDistinct
  <2>3. /\ t1 \o t2 \o b1 \in Distinct(Key)
        /\ ToSet(t1 \o t2 \o b1) = ToSet(t1) \cup ToSet(t2) \cup ToSet(b1)
    BY <2>1, <2>2, ConcatDistinct
  <2>4. t1 \o t2 \o b1 \o b2 \in Distinct(Key)
    BY <2>1, <2>3, ConcatDistinct
  <2> QED
    BY <2>1, <2>4 DEF TypeOK, Distinct, Inv, Scalars
<1> QED
  BY <1>1, Invariance, PTL

(* T1 and B1 together never exceed c, all four lists never exceed 2c,       *)
(* although the code compares with equality only.                           *)
THEOREM ARCDirectoryBounded == Spec => []DirectoryBounded
<1>1. Inv => DirectoryBounded
  BY ListsFields DEF Inv, Good, DirectoryBounded
<1> QED
  BY <1>1, Invariance, PTL

(* A ghost exists only while the cache is full.                             *)
THEOREM ARCGhostsOnlyWhenFull == Spec => []GhostsOnlyWhenFull
<1>1. Inv => GhostsOnlyWhenFull
  BY ListsFields DEF Inv, Good, GhostsOnlyWhenFull
<1> QED
  BY <1>1, Invariance, PTL

(* A key that no list knows enters T1 without touching the frequent list    *)
(* while T1 exceeds its target and has an unpinned key to give.             *)
THEOREM ARCScanSparesT2 == Spec => ScanSparesT2
<1>1. ASSUME Inv, Next, NEW key \in Key, IsNew(key), Len(t1) > p, Oldest(t1) # 0,
             Contains(t1', key)
      PROVE  t2' = t2
  <2>1. /\ key \notin Held(Lists) /\ key \notin Shadow(Lists)
        /\ t1 \in Distinct(Key) /\ b1 \in Distinct(Key) /\ b2 \in Distinct(Key)
    BY <1>1, ListsFields DEF IsNew, Inv, Good, Apart, Dir
  <2>2. ASSUME Good(Lists')
        PROVE  key \in Held(Lists')
    <3>1. Lists'.t1 = t1' /\ t1' \in Distinct(Key)
      BY <2>2, ListsFields DEF Good, Apart, Dir
    <3> QED
      BY <1>1, <3>1, ContainsIsIn DEF Held
  <2>3. PutNew(key)
    <3>1. ASSUME NEW other \in Key, Get(other)
          PROVE  FALSE
      BY <1>1, <2>1, <2>2, <3>1, GetKeeps DEF Inv
    <3>2. ASSUME NEW other \in Key, Pin(other) \/ Unpin(other)
          PROVE  FALSE
      <4>1. Lists' = Lists
        BY <3>2 DEF Pin, Unpin, Lists
      <4> QED
        BY <1>1, <2>1, <2>2, <4>1 DEF Inv
    <3>3. PICK other \in Key : Put(other)
      BY <1>1, <3>1, <3>2 DEF Next
    <3>4. key = other
      BY <1>1, <2>1, <2>2, <3>3, PutServed DEF Inv, Served, Trades
    <3>5. ~PutResident(key) /\ ~PutGhostB1(key) /\ ~PutGhostB2(key)
      BY <2>1, ContainsIsIn, ListsFields DEF PutResident, PutGhostB1, PutGhostB2, Shadow
    <3> QED
      BY <3>3, <3>4, <3>5 DEF Put
  <2>4. ASSUME NEW b, NEW d, ReplaceThenInsert(Directory(t1, t2, b, d), key)
        PROVE  t2' = t2
    <3> DEFINE l == Directory(t1, t2, b, d)
    <3>1. l.t1 = t1 /\ l.t2 = t2
      BY DirectoryFields
    <3> HIDE DEF l
    <3>2. t1 # <<>>
      BY <1>1, <2>1, OldestFinds, DistinctRange
    <3>3. CanEvict(l) /\ PreferT1(l, p, key)
      BY <1>1, <3>1, <3>2 DEF CanEvict, PreferT1
    <3>4. Replaced(l, p, key) = EvictT1(l)
      BY <1>1, <3>1, <3>3 DEF Replaced
    <3>5. EvictT1(l).t2 = t2
      BY <3>1 DEF EvictT1, Directory
    <3> QED
      BY <2>4, <3>3, <3>4, <3>5, DirectoryFields DEF ReplaceThenInsert, Become, l
  <2>5. CASE PutNewFullL1(key)
    BY <2>4, <2>5, ListsFields, DirectoryFields
    DEF PutNewFullL1, DropGhost, Raise, Become
  <2>6. CASE PutNewFullT1(key)
    BY <2>6, ListsFields, DirectoryFields DEF PutNewFullT1, Raise, Become
  <2>7. CASE PutNewOther(key)
    <3>1. ReplaceThenInsert(Lists, key) => t2' = t2
      BY <2>4 DEF Lists
    <3> QED
      BY <2>4, <2>7, <3>1, ListsFields, DirectoryFields
      DEF PutNewOther, DropGhost, Raise, Become
  <2> QED
    BY <2>3, <2>5, <2>6, <2>7 DEF PutNew
<1>2. Inv /\ [Next]_vars =>
        [\A key \in Key :
            IsNew(key) /\ Len(t1) > p /\ Oldest(t1) # 0 /\ Contains(t1', key)
            => t2' = t2]_vars
  BY <1>1
<1> QED
  BY <1>2, Invariance, PTL DEF Spec, ScanSparesT2
-----------------------------------------------------------------------------
\* The interface counts keys as this module does.
LEMMA SameCardinality ==
    ASSUME NEW S
    PROVE  Abstract!Cardinality(S) = Cardinality(S)
  BY DEF Abstract!Cardinality, Cardinality

(* Every step of ARC is a step of the interface: a ghost hit or a new key   *)
(* trades one unpinned key of a full cache for the new one, a new key with  *)
(* room left evicts nobody, and the only exception is RuntimeError from a   *)
(* cache full of pinned keys.                                               *)
THEOREM ARCImplementsPolicy == Spec => ImplementsPolicy
<1>1. Init => Abstract!Init
  BY DEF Init, Abstract!Init, Resident, ToSet
<1>2. ASSUME Inv, [Next]_vars
      PROVE  [Abstract!Next]_(Abstract!vars)
  <2>1. /\ Good(Lists) /\ Resident = Held(Lists) /\ Resident' = Held(Lists')
        /\ Size(Lists) \in Nat
    <3>1. Resident' = Held(Lists')
      BY ListsFields DEF Resident, Held
    <3>2. Size(Lists) \in Nat
      BY <1>2, GoodNumbers DEF Inv
    <3> QED
      BY <1>2, <3>1, <3>2, ListsFields DEF Inv
  <2>2. Abstract!Full <=> Size(Lists) = Capacity
    <3>1. Cardinality(Resident) = Size(Lists)
      BY <2>1, HeldSize DEF Good
    <3> QED
      BY <2>1, <3>1, SameCardinality DEF Abstract!Full, Good
  <2>3. ASSUME NEW key \in Key, Get(key)
        PROVE  Abstract!GetHit(key) \/ Abstract!GetMiss(key)
    <3>1. Resident' = Resident
      BY <2>1, <2>3, GetKeeps
    <3>2. t1 \in Distinct(Key) /\ t2 \in Distinct(Key)
      BY <2>1, ListsFields DEF Good, Apart, Dir
    <3>3. GetT1(key) \/ GetT2(key) => key \in Resident
      BY <3>2, ContainsIsIn DEF GetT1, GetT2, Resident
    <3>4. GetT1(key) \/ GetT2(key) => Abstract!GetHit(key)
      BY <3>1, <3>3 DEF GetT1, GetT2, Abstract!GetHit
    <3>5. GetMiss(key) => Abstract!GetMiss(key)
      BY <3>1 DEF GetMiss, Abstract!GetMiss
    <3> QED
      BY <2>3, <3>4, <3>5 DEF Get
  <2>4. ASSUME NEW key \in Key, Put(key)
        PROVE  Abstract!Put(key)
    <3>1. Served(key) /\ UNCHANGED <<hits, misses, pinned>>
      BY <2>1, <2>4, PutServed, PutRemembers DEF Remember
    <3>2. Size(Lists) < Capacity => ~Abstract!Full
      BY <2>1, <2>2
    <3> QED
      BY <2>1, <2>2, <3>1, <3>2
      DEF Served, Trades, Abstract!Put, Abstract!PutAgain, Abstract!PutRoom,
          Abstract!PutTrade, Abstract!PutRefused
  <2>5. ASSUME NEW key \in Key, Pin(key) \/ Unpin(key)
        PROVE  Abstract!Pin(key) \/ Abstract!Unpin(key)
    BY <2>5 DEF Pin, Unpin, Abstract!Pin, Abstract!Unpin, Resident
  <2>6. CASE UNCHANGED vars
    BY <2>6 DEF vars, Abstract!vars, Resident
  <2> QED
    BY <1>2, <2>3, <2>4, <2>5, <2>6 DEF Next, Abstract!Next
<1> QED
  BY <1>1, <1>2, Invariance, PTL DEF Spec, ImplementsPolicy, Abstract!Spec
-----------------------------------------------------------------------------
\* Trading one key of a finite set for a new one keeps its size.
LEMMA TradedSize ==
    ASSUME NEW R, IsFiniteSet(R), NEW victim \in R, NEW key, key \notin R
    PROVE  /\ IsFiniteSet((R \ {victim}) \cup {key})
           /\ Cardinality((R \ {victim}) \cup {key}) = Cardinality(R)
<1> DEFINE rest == R \ {victim}
<1>1. /\ IsFiniteSet(rest) /\ key \notin rest
      /\ Cardinality(rest) = Cardinality(R) - 1
  BY FS_RemoveElement
<1>2. Cardinality(R) \in Nat /\ Cardinality(rest) \in Nat
  BY <1>1, FS_CardinalityType
<1> HIDE DEF rest
<1>3. /\ IsFiniteSet(rest \cup {key})
      /\ Cardinality(rest \cup {key}) = Cardinality(rest) + 1
  BY <1>1, FS_AddElement
<1> QED
  BY <1>1, <1>2, <1>3 DEF rest

(* What callers rely on, drawn from the refinement: never more keys than    *)
(* the capacity, no pinned key taken out, and a full cache stays full.      *)
LEMMA PromisesCount ==
    /\ Abstract!WithinCapacity <=> IsFiniteSet(Resident) /\ Cardinality(Resident) <= Capacity
    /\ Abstract!WithinCapacity'
           <=> IsFiniteSet(Resident') /\ Cardinality(Resident') <= Capacity
    /\ Abstract!Full <=> Cardinality(Resident) >= Capacity
    /\ Abstract!Full' <=> Cardinality(Resident') >= Capacity
  BY DEF Abstract!WithinCapacity, Abstract!Full, Abstract!IsFiniteSet, IsFiniteSet,
         Abstract!Cardinality, Cardinality

LEMMA PromisesKept ==
    ASSUME Abstract!WithinCapacity, [Abstract!Next]_(Abstract!vars)
    PROVE  /\ Abstract!WithinCapacity'
           /\ Resident \cap pinned \subseteq Resident'
           /\ Abstract!Full => Abstract!Full'
<1> USE PromisesCount, CapacityAssumption
<1>1. IsFiniteSet(Resident) /\ Cardinality(Resident) \in Nat
  BY FS_CardinalityType
<1>2. CASE Resident' = Resident
  BY <1>2
<1>3. ASSUME NEW key, Abstract!PutRoom(key)
      PROVE  /\ Abstract!WithinCapacity' /\ (Abstract!Full => Abstract!Full')
             /\ Resident \cap pinned \subseteq Resident'
  <2>1. /\ IsFiniteSet(Resident \cup {key})
        /\ Cardinality(Resident \cup {key}) = Cardinality(Resident) + 1
    BY <1>1, <1>3, FS_AddElement DEF Abstract!PutRoom
  <2>2. Resident' = Resident \cup {key} /\ ~Abstract!Full
    BY <1>3 DEF Abstract!PutRoom
  <2> QED
    BY <1>1, <2>1, <2>2
<1>4. ASSUME NEW key, Abstract!PutTrade(key)
      PROVE  /\ Abstract!WithinCapacity' /\ (Abstract!Full => Abstract!Full')
             /\ Resident \cap pinned \subseteq Resident'
  <2>1. PICK victim \in Resident \ pinned :
            Resident' = (Resident \ {victim}) \cup {key}
    BY <1>4 DEF Abstract!PutTrade
  <2>2. IsFiniteSet(Resident') /\ Cardinality(Resident') = Cardinality(Resident)
    BY <1>1, <1>4, <2>1, TradedSize DEF Abstract!PutTrade
  <2> QED
    BY <2>1, <2>2
<1> QED
  BY <1>2, <1>3, <1>4
  DEF Abstract!Next, Abstract!vars, Abstract!GetHit, Abstract!GetMiss, Abstract!Put,
      Abstract!PutAgain, Abstract!PutTurnedAway, Abstract!PutRefused, Abstract!Pin, Abstract!Unpin

(* ARCCache keeps the promises of the interface.                           *)
THEOREM ARCKeepsPromises ==
    Spec => []Abstract!WithinCapacity /\ Abstract!PinnedStay /\ Abstract!FullStaysFull
<1>1. Abstract!Init => Abstract!WithinCapacity
  BY FS_EmptySet, PromisesCount, CapacityAssumption DEF Abstract!Init
<1>2. Abstract!WithinCapacity /\ [Abstract!Next]_(Abstract!vars) => Abstract!WithinCapacity'
  BY PromisesKept
<1>3. Abstract!WithinCapacity /\ [Abstract!Next]_(Abstract!vars)
          => /\ [Resident \cap pinned \subseteq Resident']_(Abstract!vars)
             /\ [Abstract!Full => Abstract!Full']_(Abstract!vars)
  BY PromisesKept
<1> QED
  BY <1>1, <1>2, <1>3, ARCImplementsPolicy, PTL
  DEF ImplementsPolicy, Abstract!Spec, Abstract!PinnedStay, Abstract!FullStaysFull
=============================================================================
