----------------------------- MODULE DataProofs -----------------------------
(***************************************************************************)
(* What is proved of the data path, for every set of records, lines and    *)
(* rows and every bound: the loaders, the segmenter, the index, the store  *)
(* and the update benchmarks as one specification (LoadersSpec), and the   *)
(* workload replayer (ReplaySpec).                                         *)
(*                                                                         *)
(* Partitioned is the invariant of the loop of segment, as a relation of   *)
(* the chunks to the keys of the batch; Kept relates the store to the      *)
(* chunks, Spread the store to the records once updates move them.         *)
(***************************************************************************)
EXTENDS Loaders, Replay, FiniteSetTheorems, SequenceTheorems, TLAPS
-----------------------------------------------------------------------------
\* Lists in which no element occurs twice.
Distinct(S) == {s \in Seq(S) : IsInjective(s)}

\* A non-empty set of naturals has a least element (induction, by the
\* well-founded order on the intervals 0 .. x).
LEMMA SmallestExists ==
    ASSUME NEW S \in SUBSET Nat, S # {}
    PROVE  Min(S) \in S /\ \A x \in S : Min(S) <= x
<1> DEFINE Below == {0 .. x : x \in S}
<1>1. Below \subseteq FiniteSubsetsOf(Nat) /\ Below # {}
  <2>1. ASSUME NEW x \in S PROVE 0 .. x \in FiniteSubsetsOf(Nat)
    <3>1. IsFiniteSet(0 .. x) /\ 0 .. x \in SUBSET Nat
      BY FS_Interval
    <3> QED
      BY <3>1 DEF FiniteSubsetsOf
  <2> QED
    BY <2>1
<1>2. PICK X \in Below : \A Y \in Below : <<Y, X>> \notin StrictSubsetOrdering(Nat)
  BY <1>1, FS_StrictSubsetOrderingWellFounded, WFMin
<1>3. PICK x \in S : X = 0 .. x
  OBVIOUS
<1>4. ASSUME NEW y \in S PROVE x <= y
  <2> SUFFICES ASSUME y < x PROVE FALSE
    OBVIOUS
  <2>1. 0 .. y \in SUBSET Nat /\ X \in SUBSET Nat /\ 0 .. y \subseteq X
    BY <1>3
  <2>2. x \in X /\ x \notin 0 .. y
    BY <1>3
  <2>3. <<0 .. y, X>> \in StrictSubsetOrdering(Nat)
    BY <2>1, <2>2 DEF StrictSubsetOrdering
  <2> QED
    BY <1>2, <2>3
<1> QED
  BY <1>4 DEF Min

\* Induction on the places of a sequence.
LEMMA UpTo ==
    ASSUME NEW n \in Nat, NEW S, 1 \in S, \A i \in 1 .. n - 1 : i \in S => i + 1 \in S
    PROVE  1 .. n \subseteq S
<1> DEFINE bad == 1 .. n \ S
<1> SUFFICES ASSUME bad # {} PROVE FALSE
  OBVIOUS
<1>1. Min(bad) \in bad /\ \A x \in bad : Min(bad) <= x
  BY SmallestExists
<1>2. PICK m \in bad : \A x \in bad : m <= x
  BY <1>1
<1>3. m # 1 /\ m - 1 \in 1 .. n - 1 /\ m - 1 \notin bad /\ m - 1 \in 1 .. n
  BY <1>2
<1>4. m - 1 \in S
  BY <1>3
<1>5. (m - 1) + 1 = m
  BY <1>2
<1> QED
  BY <1>2, <1>3, <1>4, <1>5

\* d[key] = value for a new key.
LEMMA AppendElement ==
    ASSUME NEW S, NEW s \in Distinct(S), NEW key \in S
    PROVE  /\ Len(Append(s, key)) = Len(s) + 1
           /\ ToSet(Append(s, key)) = ToSet(s) \cup {key}
           /\ key \notin ToSet(s) => Append(s, key) \in Distinct(S)
<1>1. /\ s \in Seq(S) /\ Len(s) \in Nat /\ DOMAIN s = 1 .. Len(s)
      /\ \A j \in 1 .. Len(s) : s[j] \in S
      /\ \A j, k \in 1 .. Len(s) : s[j] = s[k] => j = k
  BY LenProperties DEF Distinct, IsInjective
<1>2. /\ Append(s, key) \in Seq(S) /\ Len(Append(s, key)) = Len(s) + 1
      /\ DOMAIN Append(s, key) = 1 .. Len(s) + 1
      /\ \A i \in 1 .. Len(s) : Append(s, key)[i] = s[i]
      /\ Append(s, key)[Len(s) + 1] = key
  BY <1>1, AppendProperties, LenProperties
<1> DEFINE longer == Append(s, key)
<1> HIDE DEF longer
<1>3. ToSet(longer) = ToSet(s) \cup {key}
  BY <1>1, <1>2 DEF ToSet, longer
<1>4. key \notin ToSet(s) => IsInjective(longer)
  BY <1>1, <1>2 DEF IsInjective, ToSet, longer
<1> QED
  BY <1>2, <1>3, <1>4 DEF Distinct, longer

\* popitem(last=False)
LEMMA TailElement ==
    ASSUME NEW S, NEW s \in Distinct(S), s # <<>>
    PROVE  /\ Tail(s) \in Distinct(S)
           /\ Len(Tail(s)) = Len(s) - 1
           /\ ToSet(Tail(s)) \subseteq ToSet(s)
<1>1. /\ s \in Seq(S) /\ Len(s) \in Nat /\ DOMAIN s = 1 .. Len(s)
      /\ \A j \in 1 .. Len(s) : s[j] \in S
      /\ \A j, k \in 1 .. Len(s) : s[j] = s[k] => j = k
  BY LenProperties DEF Distinct, IsInjective
<1>2. /\ Tail(s) \in Seq(S) /\ Len(Tail(s)) = Len(s) - 1
      /\ DOMAIN Tail(s) = 1 .. Len(s) - 1
      /\ \A i \in 1 .. Len(s) - 1 : Tail(s)[i] = s[i + 1]
  BY <1>1, HeadTailProperties, LenProperties
<1>3. IsInjective(Tail(s))
  <2> SUFFICES ASSUME NEW j \in 1 .. Len(s) - 1, NEW k \in 1 .. Len(s) - 1, Tail(s)[j] = Tail(s)[k]
               PROVE  j = k
    BY <1>2 DEF IsInjective
  <2>1. s[j + 1] = s[k + 1] /\ j + 1 \in 1 .. Len(s) /\ k + 1 \in 1 .. Len(s)
    BY <1>1, <1>2
  <2> QED
    BY <1>1, <2>1
<1>4. ToSet(Tail(s)) \subseteq ToSet(s)
  <2>1. \A j \in 1 .. Len(s) - 1 : j + 1 \in 1 .. Len(s)
    BY <1>1
  <2> QED
    BY <1>1, <1>2, <2>1 DEF ToSet
<1> QED
  BY <1>2, <1>3, <1>4 DEF Distinct

LEMMA ConcatDistinct ==
    ASSUME NEW S, NEW s \in Distinct(S), NEW u \in Distinct(S), ToSet(s) \cap ToSet(u) = {}
    PROVE  s \o u \in Distinct(S) /\ ToSet(s \o u) = ToSet(s) \cup ToSet(u)
<1> DEFINE m == Len(s)
           n == Len(u)
           su == s \o u
<1>1. /\ s \in Seq(S) /\ u \in Seq(S) /\ m \in Nat /\ n \in Nat
      /\ DOMAIN s = 1 .. m /\ DOMAIN u = 1 .. n
      /\ \A i, j \in 1 .. m : s[i] = s[j] => i = j
      /\ \A i, j \in 1 .. n : u[i] = u[j] => i = j
      /\ \A i \in 1 .. m, j \in 1 .. n : s[i] # u[j]
  BY LenProperties DEF Distinct, IsInjective, ToSet
<1>2. /\ su \in Seq(S)
      /\ DOMAIN su = 1 .. m + n
      /\ \A i \in 1 .. m + n : su[i] = IF i <= m THEN s[i] ELSE u[i - m]
  BY <1>1, ConcatProperties, LenProperties
<1> HIDE DEF m, n, su
<1>3. ASSUME NEW i \in 1 .. m + n, NEW j \in 1 .. m + n, su[i] = su[j]
      PROVE  i = j
  <2>1. CASE i <= m /\ j <= m
    BY <1>1, <1>2, <1>3, <2>1
  <2>2. CASE i > m /\ j > m
    <3>1. i - m \in 1 .. n /\ j - m \in 1 .. n /\ u[i - m] = u[j - m]
      BY <1>1, <1>2, <1>3, <2>2
    <3>2. i - m = j - m
      BY <1>1, <3>1
    <3> QED
      BY <1>1, <3>2
  <2>3. ASSUME NEW a \in 1 .. m + n, NEW b \in 1 .. m + n, a <= m, b > m, su[a] = su[b]
        PROVE  FALSE
    <3>1. a \in 1 .. m /\ b - m \in 1 .. n /\ s[a] = u[b - m]
      BY <1>1, <1>2, <2>3
    <3> QED
      BY <1>1, <3>1
  <2> QED
    BY <1>1, <1>3, <2>1, <2>2, <2>3
<1>4. ToSet(su) = ToSet(s) \cup ToSet(u)
  <2>1. ASSUME NEW i \in 1 .. m PROVE s[i] \in ToSet(su)
    <3>1. i \in 1 .. m + n /\ su[i] = s[i]
      BY <1>1, <1>2
    <3> QED
      BY <1>2, <3>1 DEF ToSet
  <2>2. ASSUME NEW i \in 1 .. n PROVE u[i] \in ToSet(su)
    <3>1. i + m \in 1 .. m + n /\ ~(i + m <= m) /\ (i + m) - m = i
      BY <1>1
    <3>2. su[i + m] = u[i]
      BY <1>2, <3>1
    <3> QED
      BY <1>2, <3>1, <3>2 DEF ToSet
  <2>3. ASSUME NEW i \in 1 .. m + n PROVE su[i] \in ToSet(s) \cup ToSet(u)
    <3>1. CASE i <= m
      <4>1. i \in 1 .. m /\ su[i] = s[i]
        BY <1>1, <1>2, <3>1
      <4> QED
        BY <1>1, <4>1 DEF ToSet
    <3>2. CASE i > m
      <4>1. i - m \in 1 .. n /\ su[i] = u[i - m]
        BY <1>1, <1>2, <3>2
      <4> QED
        BY <1>1, <4>1 DEF ToSet
    <3> QED
      BY <1>1, <3>1, <3>2
  <2>4. ToSet(su) \subseteq ToSet(s) \cup ToSet(u)
    <3>1. ASSUME NEW x \in ToSet(su) PROVE x \in ToSet(s) \cup ToSet(u)
      <4>1. PICK i \in 1 .. m + n : x = su[i]
        BY <1>2 DEF ToSet
      <4> QED
        BY <2>3, <4>1
    <3> QED
      BY <3>1
  <2>5. ToSet(s) \subseteq ToSet(su)
    BY <1>1, <2>1 DEF ToSet
  <2>6. ToSet(u) \subseteq ToSet(su)
    BY <1>1, <2>2 DEF ToSet
  <2> QED
    BY <2>4, <2>5, <2>6
<1> QED
  BY <1>2, <1>3, <1>4 DEF Distinct, IsInjective, su

\* len(d) counts the elements.
LEMMA DistinctCardinality ==
    ASSUME NEW S, NEW s \in Distinct(S)
    PROVE  IsFiniteSet(ToSet(s)) /\ Cardinality(ToSet(s)) = Len(s)
<1>1. Len(s) \in Nat /\ s \in [1 .. Len(s) -> ToSet(s)]
  BY LenProperties DEF Distinct, ToSet
<1>2. s \in Bijection(1 .. Len(s), ToSet(s))
  BY <1>1 DEF Distinct, Bijection, Injection, Surjection, IsInjective, ToSet
<1>3. IsFiniteSet(1 .. Len(s)) /\ Cardinality(1 .. Len(s)) = Len(s)
  BY <1>1, FS_Interval
<1> QED
  BY <1>2, <1>3, FS_Bijection DEF ExistsBijection

\* The recursion of FlattenSeq has a solution, which is what it unfolds to.
LEMMA FlattenUnfolds ==
    ASSUME NEW S, NEW ss \in Seq(Seq(S)), ss # <<>>
    PROVE  \E flat \in [1 .. Len(ss) -> Seq(S)] :
              /\ FlattenSeq(ss) = flat[Len(ss)]
              /\ flat[1] = ss[1]
              /\ \A i \in 1 .. Len(ss) - 1 : flat[i + 1] = flat[i] \o ss[i + 1]
<1> DEFINE n == Len(ss)
           Step(f, i) == IF i = 1 THEN ss[i] ELSE f[i - 1] \o ss[i]
           Partial(k, f) ==
               /\ f \in [1 .. k -> Seq(S)]
               /\ f[1] = ss[1]
               /\ \A i \in 1 .. k - 1 : f[i + 1] = f[i] \o ss[i + 1]
           some == {k \in 1 .. n : \E f : Partial(k, f)}
<1>1. n \in Nat /\ n >= 1 /\ \A i \in 1 .. n : ss[i] \in Seq(S)
  BY LenProperties, EmptySeq
<1> HIDE DEF n
<1>2. 1 \in some
  <2> DEFINE g == [i \in 1 .. 1 |-> ss[i]]
  <2>1. g \in [1 .. 1 -> Seq(S)] /\ g[1] = ss[1] /\ 1 .. 1 - 1 = {}
    BY <1>1
  <2>2. Partial(1, g)
    BY <2>1
  <2> HIDE DEF Partial
  <2> QED
    BY <1>1, <2>2
<1>3. ASSUME NEW k \in 1 .. n - 1, k \in some PROVE k + 1 \in some
  <2>1. PICK f : Partial(k, f)
    BY <1>3
  <2> DEFINE last == f[k] \o ss[k + 1]
             g == [i \in 1 .. k + 1 |-> IF i = k + 1 THEN last ELSE f[i]]
  <2>2. k \in Nat /\ k >= 1 /\ k + 1 \in 1 .. n
    BY <1>1
  <2>3. last \in Seq(S)
    BY <1>1, <2>1, <2>2, ConcatProperties
  <2>4. last = f[k] \o ss[k + 1]
    OBVIOUS
  <2> HIDE DEF last
  <2>5. g \in [1 .. k + 1 -> Seq(S)]
    BY <2>1, <2>2, <2>3
  <2>6. g[k + 1] = last /\ \A i \in 1 .. k : g[i] = f[i]
    BY <2>2
  <2> HIDE DEF g
  <2>7. ASSUME NEW i \in 1 .. (k + 1) - 1 PROVE g[i + 1] = g[i] \o ss[i + 1]
    <3>1. CASE i = k
      <4>1. g[k] = f[k]
        BY <2>2, <2>6
      <4> QED
        BY <2>4, <2>6, <3>1, <4>1
    <3>2. CASE i # k
      <4>1. i \in 1 .. k - 1 /\ i \in 1 .. k /\ i + 1 \in 1 .. k
        BY <2>2, <3>2
      <4>2. f[i + 1] = f[i] \o ss[i + 1]
        BY <2>1, <4>1
      <4> QED
        BY <2>6, <4>1, <4>2
    <3> QED
      BY <3>1, <3>2
  <2>8. g[1] = ss[1]
    BY <2>1, <2>2, <2>6
  <2>9. Partial(k + 1, g)
    BY <2>5, <2>7, <2>8
  <2> HIDE DEF Partial
  <2> QED
    BY <2>2, <2>9
<1>4. n \in some
  <2>1. n \in 1 .. n
    BY <1>1
  <2> HIDE DEF some
  <2> QED
    BY <1>1, <1>2, <1>3, <2>1, UpTo
<1>5. PICK flat : Partial(n, flat)
  <2> HIDE DEF Partial
  <2> QED
    BY <1>4
<1>6. ASSUME NEW g, g = [i \in 1 .. n |-> Step(g, i)] PROVE g = flat
  <2> DEFINE same == {i \in 1 .. n : g[i] = flat[i]}
  <2>1. \A i \in 1 .. n : g[i] = Step(g, i)
    BY <1>6
  <2>2. 1 \in same
    BY <1>1, <1>5, <2>1
  <2>3. ASSUME NEW i \in 1 .. n - 1, i \in same PROVE i + 1 \in same
    <3>1. i + 1 \in 1 .. n /\ i + 1 # 1 /\ (i + 1) - 1 = i
      BY <1>1
    <3>2. g[i + 1] = g[i] \o ss[i + 1]
      BY <2>1, <3>1
    <3>3. flat[i + 1] = flat[i] \o ss[i + 1]
      BY <1>5
    <3> QED
      BY <2>3, <3>1, <3>2, <3>3
  <2>4. 1 .. n \subseteq same
    <3> HIDE DEF same
    <3> QED
      BY <1>1, <2>2, <2>3, UpTo
  <2>5. DOMAIN g = 1 .. n /\ g = [i \in 1 .. n |-> g[i]]
    BY <1>6
  <2>6. flat = [i \in 1 .. n |-> flat[i]]
    BY <1>5
  <2> QED
    BY <2>4, <2>5, <2>6
<1>7. flat = [i \in 1 .. n |-> Step(flat, i)]
  <2>1. ASSUME NEW i \in 1 .. n PROVE flat[i] = Step(flat, i)
    <3>1. CASE i = 1
      BY <1>5, <3>1
    <3>2. CASE i # 1
      <4>1. i - 1 \in 1 .. n - 1 /\ (i - 1) + 1 = i
        BY <1>1, <3>2
      <4>2. flat[(i - 1) + 1] = flat[i - 1] \o ss[(i - 1) + 1]
        BY <1>5, <4>1
      <4> QED
        BY <3>2, <4>1, <4>2
    <3> QED
      BY <3>1, <3>2
  <2>2. flat = [i \in 1 .. n |-> flat[i]]
    BY <1>5
  <2> HIDE DEF Step
  <2> QED
    BY <2>1, <2>2
<1> DEFINE IsFlat(g) == g = [i \in 1 .. n |-> Step(g, i)]
           chosen == CHOOSE g : IsFlat(g)
<1>8. IsFlat(flat)
  BY <1>7
<1>9. IsFlat(chosen)
  <2> HIDE DEF IsFlat
  <2> QED
    BY <1>8
<1>10. chosen = flat
  <2> HIDE DEF chosen
  <2> QED
    BY <1>6, <1>9
<1>11. FlattenSeq(ss) = chosen[n]
  BY <1>1 DEF FlattenSeq, n
<1> HIDE DEF chosen
<1> QED
  BY <1>5, <1>10, <1>11 DEF n

\* Pieces of at most one element make a sequence no longer than their number.
LEMMA FlattenPieces ==
    ASSUME NEW S, NEW ss \in Seq(Seq(S)), \A i \in 1 .. Len(ss) : Len(ss[i]) <= 1
    PROVE  FlattenSeq(ss) \in Seq(S) /\ Len(FlattenSeq(ss)) <= Len(ss)
<1>1. CASE ss = <<>>
  BY <1>1, EmptySeq DEF FlattenSeq
<1>2. CASE ss # <<>>
  <2> DEFINE n == Len(ss)
  <2>1. n \in Nat /\ n >= 1 /\ \A i \in 1 .. n : ss[i] \in Seq(S)
    BY <1>2, LenProperties, EmptySeq
  <2>2. PICK flat \in [1 .. n -> Seq(S)] :
           /\ FlattenSeq(ss) = flat[n]
           /\ flat[1] = ss[1]
           /\ \A i \in 1 .. n - 1 : flat[i + 1] = flat[i] \o ss[i + 1]
    BY <1>2, FlattenUnfolds
  <2>3. \A i \in 1 .. n : Len(ss[i]) <= 1
    OBVIOUS
  <2> DEFINE good == {i \in 1 .. n : Len(flat[i]) <= i}
  <2> HIDE DEF n
  <2>4. 1 \in good
    BY <2>1, <2>2, <2>3
  <2>5. ASSUME NEW i \in 1 .. n - 1, i \in good PROVE i + 1 \in good
    <3>1. i + 1 \in 1 .. n /\ i \in 1 .. n /\ flat[i] \in Seq(S) /\ ss[i + 1] \in Seq(S)
      BY <2>1, <2>2
    <3>2. Len(flat[i + 1]) = Len(flat[i]) + Len(ss[i + 1])
      <4>1. flat[i + 1] = flat[i] \o ss[i + 1]
        BY <2>2
      <4>2. Len(flat[i] \o ss[i + 1]) = Len(flat[i]) + Len(ss[i + 1])
        BY <3>1, ConcatProperties
      <4> QED
        BY <4>1, <4>2
    <3>3. Len(flat[i]) \in Nat /\ Len(ss[i + 1]) \in Nat /\ Len(ss[i + 1]) <= 1 /\ Len(flat[i]) <= i
      BY <2>3, <2>5, <3>1, LenProperties
    <3>4. Len(flat[i + 1]) <= i + 1
      BY <3>1, <3>2, <3>3
    <3> QED
      BY <3>1, <3>4
  <2>6. 1 .. n \subseteq good
    <3> HIDE DEF good
    <3> QED
      BY <2>1, <2>4, <2>5, UpTo
  <2>7. n \in good
    BY <2>1, <2>6
  <2>8. flat[n] \in Seq(S) /\ Len(flat[n]) <= n
    BY <2>1, <2>7
  <2> QED
    BY <2>2, <2>8 DEF n
<1> QED
  BY <1>1, <1>2

\* Disjoint lists without repetitions make one such list of all elements.
LEMMA FlattenDistinct ==
    ASSUME NEW S, NEW ss \in Seq(Distinct(S)),
           \A i, j \in 1 .. Len(ss) : i # j => ToSet(ss[i]) \cap ToSet(ss[j]) = {}
    PROVE  /\ FlattenSeq(ss) \in Distinct(S)
           /\ ToSet(FlattenSeq(ss)) = UNION {ToSet(ss[i]) : i \in 1 .. Len(ss)}
<1>1. CASE ss = <<>>
  <2>1. Len(ss) = 0 /\ FlattenSeq(ss) = <<>>
    BY <1>1, EmptySeq DEF FlattenSeq
  <2>2. <<>> \in Distinct(S) /\ ToSet(<<>>) = {}
    BY EmptySeq DEF Distinct, IsInjective, ToSet
  <2> QED
    BY <2>1, <2>2
<1>2. CASE ss # <<>>
  <2> DEFINE n == Len(ss)
             upto(k) == UNION {ToSet(ss[i]) : i \in 1 .. k}
  <2>1. n \in Nat /\ n >= 1 /\ \A i \in 1 .. n : ss[i] \in Distinct(S)
    BY <1>2, LenProperties, EmptySeq
  <2>2. ss \in Seq(Seq(S))
    BY DEF Distinct
  <2>3. PICK flat \in [1 .. n -> Seq(S)] :
           /\ FlattenSeq(ss) = flat[n]
           /\ flat[1] = ss[1]
           /\ \A i \in 1 .. n - 1 : flat[i + 1] = flat[i] \o ss[i + 1]
    BY <1>2, <2>2, FlattenUnfolds
  <2>4. \A i, j \in 1 .. n : i # j => ToSet(ss[i]) \cap ToSet(ss[j]) = {}
    OBVIOUS
  <2> DEFINE good == {k \in 1 .. n : flat[k] \in Distinct(S) /\ ToSet(flat[k]) = upto(k)}
  <2> HIDE DEF n
  <2>5. 1 \in good
    BY <2>1, <2>3
  <2>6. ASSUME NEW i \in 1 .. n - 1, i \in good PROVE i + 1 \in good
    <3>1. i + 1 \in 1 .. n /\ i \in 1 .. n /\ flat[i] \in Distinct(S) /\ ss[i + 1] \in Distinct(S)
      BY <2>1, <2>6
    <3>2. ToSet(flat[i]) = upto(i)
      BY <2>6
    <3>3. \A j \in 1 .. i : j \in 1 .. n /\ j # i + 1
      BY <2>1
    <3>4. upto(i) \cap ToSet(ss[i + 1]) = {}
      BY <2>4, <3>1, <3>3
    <3>5. /\ flat[i + 1] \in Distinct(S)
          /\ ToSet(flat[i + 1]) = ToSet(flat[i]) \cup ToSet(ss[i + 1])
      <4>1. flat[i + 1] = flat[i] \o ss[i + 1]
        BY <2>3
      <4>2. ToSet(flat[i]) \cap ToSet(ss[i + 1]) = {}
        BY <3>2, <3>4
      <4> HIDE DEF upto
      <4> QED
        BY <3>1, <4>1, <4>2, ConcatDistinct
    <3>6. 1 .. i + 1 = (1 .. i) \cup {i + 1}
      BY <3>1
    <3>7. upto(i + 1) = upto(i) \cup ToSet(ss[i + 1])
      BY <3>6
    <3> QED
      BY <3>1, <3>2, <3>5, <3>7
  <2>7. 1 .. n \subseteq good
    <3> HIDE DEF good
    <3> QED
      BY <2>1, <2>5, <2>6, UpTo
  <2> QED
    BY <2>1, <2>3, <2>7 DEF n
<1> QED
  BY <1>1, <1>2

\* The first element of a list without repetitions, and the rest.
LEMMA HeadAndTail ==
    ASSUME NEW S, NEW s \in Distinct(S), s # <<>>
    PROVE  /\ Head(s) \in S /\ Head(s) \in ToSet(s)
           /\ Tail(s) \in Distinct(S)
           /\ ToSet(Tail(s)) = ToSet(s) \ {Head(s)}
<1>1. /\ s \in Seq(S) /\ Len(s) \in Nat /\ Len(s) >= 1 /\ DOMAIN s = 1 .. Len(s)
      /\ \A j \in 1 .. Len(s) : s[j] \in S
      /\ \A j, k \in 1 .. Len(s) : s[j] = s[k] => j = k
  BY LenProperties, EmptySeq DEF Distinct, IsInjective
<1>2. /\ Head(s) = s[1] /\ Tail(s) \in Seq(S) /\ Len(Tail(s)) = Len(s) - 1
      /\ DOMAIN Tail(s) = 1 .. Len(s) - 1
      /\ \A i \in 1 .. Len(s) - 1 : Tail(s)[i] = s[i + 1]
  BY <1>1, HeadTailProperties, LenProperties
<1>3. Tail(s) \in Distinct(S)
  BY TailElement
<1>4. ASSUME NEW x \in ToSet(Tail(s)) PROVE x \in ToSet(s) \ {Head(s)}
  <2>1. PICK i \in 1 .. Len(s) - 1 : x = s[i + 1]
    BY <1>2 DEF ToSet
  <2>2. i + 1 \in 1 .. Len(s) /\ i + 1 # 1
    BY <1>1
  <2> QED
    BY <1>1, <1>2, <2>1, <2>2 DEF ToSet
<1>5. ASSUME NEW x \in ToSet(s), x # Head(s) PROVE x \in ToSet(Tail(s))
  <2>1. PICK i \in 1 .. Len(s) : x = s[i]
    BY <1>1 DEF ToSet
  <2>2. i - 1 \in 1 .. Len(s) - 1 /\ (i - 1) + 1 = i
    BY <1>1, <1>2, <1>5, <2>1
  <2>3. Tail(s)[i - 1] = x
    BY <1>2, <2>1, <2>2
  <2> QED
    BY <1>2, <2>2, <2>3 DEF ToSet
<1> QED
  BY <1>1, <1>2, <1>3, <1>4, <1>5 DEF ToSet
-----------------------------------------------------------------------------
\* The chunks of a batch, as data: ks are the keys of its records.

ChunkOver(K) == [id : Nat, key : K, region : {key[2] : key \in K}, records : Seq(Nat)]

\* What the loop of segment maintains after n records.
Partitioned(cs, ks, n) ==
    /\ cs \in Seq(ChunkOver(ToSet(ks)))
    /\ Len(cs) <= n
    /\ Keys(cs) = {ks[r] : r \in 1 .. n}
    /\ \A i, j \in 1 .. Len(cs) : cs[i].key = cs[j].key => i = j
    /\ \A i \in 1 .. Len(cs) :
          /\ cs[i].id = i - 1
          /\ cs[i].region = cs[i].key[2]
          /\ cs[i].records \in Distinct(Nat)
          /\ ToSet(cs[i].records) = {r \in 1 .. n : ks[r] = cs[i].key}
          /\ InOrder(cs[i].records)

\* The look-up of chunks.get(key).
LEMMA ChunkOfKey ==
    ASSUME NEW S, NEW cs \in Seq(S), NEW key
    PROVE  /\ ChunkOf(cs, key) \in 0 .. Len(cs)
           /\ key \in Keys(cs) <=> ChunkOf(cs, key) # 0
           /\ ChunkOf(cs, key) # 0 => cs[ChunkOf(cs, key)].key = key
<1> DEFINE I == {i \in 1 .. Len(cs) : cs[i].key = key}
<1>1. Len(cs) \in Nat /\ DOMAIN cs = 1 .. Len(cs)
  BY LenProperties
<1>2. ChunkOf(cs, key) = IF I # {} THEN Min(I) ELSE 0
  BY DEF ChunkOf, SelectInSeq
<1>3. I # {} => Min(I) \in I
  <2>1. I \in SUBSET Nat
    BY <1>1
  <2> HIDE DEF I
  <2> QED
    BY <2>1, SmallestExists
<1>4. key \in Keys(cs) <=> I # {}
  BY <1>1 DEF Keys
<1> QED
  BY <1>1, <1>2, <1>3, <1>4

\* A list that stays in order when a greater number is appended.
LEMMA AppendGreater ==
    ASSUME NEW s \in Distinct(Nat), InOrder(s), NEW n \in Nat, \A x \in ToSet(s) : x < n
    PROVE  /\ Append(s, n) \in Distinct(Nat)
           /\ ToSet(Append(s, n)) = ToSet(s) \cup {n}
           /\ InOrder(Append(s, n))
<1> DEFINE new == Append(s, n)
<1>1. /\ s \in Seq(Nat) /\ Len(s) \in Nat /\ DOMAIN s = 1 .. Len(s)
      /\ \A j \in 1 .. Len(s) : s[j] \in ToSet(s)
  BY LenProperties DEF Distinct, ToSet
<1>2. /\ DOMAIN new = 1 .. Len(s) + 1
      /\ \A i \in 1 .. Len(s) : new[i] = s[i]
      /\ new[Len(s) + 1] = n
  BY <1>1, AppendProperties, LenProperties
<1>3. n \notin ToSet(s)
  BY <1>1
<1>4. new \in Distinct(Nat) /\ ToSet(new) = ToSet(s) \cup {n}
  BY <1>3, AppendElement
<1> HIDE DEF new
<1>5. InOrder(new)
  <2> SUFFICES ASSUME NEW j \in 1 .. Len(s) + 1, NEW k \in 1 .. Len(s) + 1, j < k
               PROVE  new[j] < new[k]
    BY <1>2 DEF InOrder
  <2>1. CASE k <= Len(s)
    <3>1. j \in DOMAIN s /\ k \in DOMAIN s /\ new[j] = s[j] /\ new[k] = s[k]
      BY <1>1, <1>2, <2>1
    <3> QED
      BY <3>1 DEF InOrder
  <2>2. CASE k > Len(s)
    <3>1. j \in 1 .. Len(s) /\ k = Len(s) + 1
      BY <1>1, <2>2
    <3> QED
      BY <1>1, <1>2, <3>1
  <2> QED
    BY <1>1, <2>1, <2>2
<1> QED
  BY <1>4, <1>5 DEF new

\* A record whose key has no chunk yet opens one.
LEMMA OpenKeeps ==
    ASSUME NEW ks, NEW cs, NEW n \in Nat, Partitioned(cs, ks, n),
           ks[n + 1] \in ToSet(ks), ks[n + 1] \notin Keys(cs),
           NEW c, c = [id |-> Len(cs), key |-> ks[n + 1], region |-> ks[n + 1][2],
                       records |-> <<n + 1>>]
    PROVE  Partitioned(Append(cs, c), ks, n + 1)
<1> DEFINE C == ChunkOver(ToSet(ks))
           new == Append(cs, c)
           key == ks[n + 1]
<1>1. cs \in Seq(C) /\ Len(cs) \in Nat /\ DOMAIN cs = 1 .. Len(cs) /\ Len(cs) <= n
  BY LenProperties DEF Partitioned
<1>2. c.id = Len(cs) /\ c.key = key /\ c.region = key[2] /\ c.records = <<n + 1>>
  OBVIOUS
<1>3. /\ <<n + 1>> \in Distinct(Nat) /\ ToSet(<<n + 1>>) = {n + 1} /\ InOrder(<<n + 1>>)
  BY DEF Distinct, IsInjective, ToSet, InOrder
<1>4. c \in C
  BY <1>1, <1>3 DEF ChunkOver, Distinct
<1> HIDE DEF C
<1>5. /\ new \in Seq(C) /\ Len(new) = Len(cs) + 1 /\ DOMAIN new = 1 .. Len(cs) + 1
      /\ \A i \in 1 .. Len(cs) : new[i] = cs[i]
      /\ new[Len(cs) + 1] = c
  BY <1>1, <1>4, AppendProperties, LenProperties
<1> HIDE DEF new
<1>6. \A i \in 1 .. Len(cs) : cs[i].key # key
  BY <1>1 DEF Keys
<1>7. 1 .. n + 1 = (1 .. n) \cup {n + 1}
  OBVIOUS
<1>8. Keys(cs) = {ks[r] : r \in 1 .. n}
  BY DEF Partitioned
<1>9. Keys(new) = {ks[r] : r \in 1 .. n + 1}
  <2>1. 1 .. Len(cs) + 1 = (1 .. Len(cs)) \cup {Len(cs) + 1}
    BY <1>1
  <2>2. Keys(new) = Keys(cs) \cup {key}
    BY <1>1, <1>2, <1>5, <2>1 DEF Keys
  <2> QED
    BY <1>7, <1>8, <2>2
<1>10. \A i, j \in 1 .. Len(new) : new[i].key = new[j].key => i = j
  <2>1. \A i, j \in 1 .. Len(cs) : cs[i].key = cs[j].key => i = j
    BY DEF Partitioned
  <2> QED
    BY <1>1, <1>2, <1>5, <1>6, <2>1
<1>11. ASSUME NEW i \in 1 .. Len(new)
       PROVE  /\ new[i].id = i - 1
              /\ new[i].region = new[i].key[2]
              /\ new[i].records \in Distinct(Nat)
              /\ ToSet(new[i].records) = {r \in 1 .. n + 1 : ks[r] = new[i].key}
              /\ InOrder(new[i].records)
  <2>1. CASE i \in 1 .. Len(cs)
    <3>1. /\ cs[i].id = i - 1
          /\ cs[i].region = cs[i].key[2]
          /\ cs[i].records \in Distinct(Nat)
          /\ ToSet(cs[i].records) = {r \in 1 .. n : ks[r] = cs[i].key}
          /\ InOrder(cs[i].records)
      BY <2>1 DEF Partitioned
    <3>2. {r \in 1 .. n + 1 : ks[r] = cs[i].key} = {r \in 1 .. n : ks[r] = cs[i].key}
      BY <1>6, <1>7, <2>1
    <3>3. new[i] = cs[i]
      BY <1>5, <2>1
    <3> QED
      BY <3>1, <3>2, <3>3
  <2>2. CASE i = Len(cs) + 1
    <3>1. {r \in 1 .. n + 1 : ks[r] = key} = {n + 1}
      BY <1>7, <1>8
    <3>2. new[i] = c
      BY <1>5, <2>2
    <3> QED
      BY <1>1, <1>2, <1>3, <2>2, <3>1, <3>2
  <2> QED
    BY <1>1, <1>5, <2>1, <2>2
<1>12. Len(new) <= n + 1
  BY <1>1, <1>5
<1> QED
  BY <1>5, <1>9, <1>10, <1>11, <1>12 DEF Partitioned, C, new

\* A record whose key has a chunk goes to the end of it.
LEMMA ExtendKeeps ==
    ASSUME NEW ks, NEW cs, NEW n \in Nat, Partitioned(cs, ks, n),
           NEW i \in 1 .. Len(cs), cs[i].key = ks[n + 1]
    PROVE  Partitioned([cs EXCEPT ![i] = Holding(@, Append(@.records, n + 1))], ks, n + 1)
<1> DEFINE C == ChunkOver(ToSet(ks))
           c == Holding(cs[i], Append(cs[i].records, n + 1))
           new == [cs EXCEPT ![i] = Holding(@, Append(@.records, n + 1))]
           key == ks[n + 1]
<1>1. cs \in Seq(C) /\ Len(cs) \in Nat /\ DOMAIN cs = 1 .. Len(cs) /\ Len(cs) <= n
  BY LenProperties DEF Partitioned
<1>2. /\ cs[i].id = i - 1
      /\ cs[i].region = cs[i].key[2]
      /\ cs[i].records \in Distinct(Nat)
      /\ ToSet(cs[i].records) = {r \in 1 .. n : ks[r] = cs[i].key}
      /\ InOrder(cs[i].records)
  BY DEF Partitioned
<1>3. cs[i] \in C
  BY <1>1
<1>4. /\ c.id = cs[i].id /\ c.key = cs[i].key /\ c.region = cs[i].region
      /\ c.records = Append(cs[i].records, n + 1)
  BY DEF Holding
<1>5. /\ c.records \in Distinct(Nat)
      /\ ToSet(c.records) = ToSet(cs[i].records) \cup {n + 1}
      /\ InOrder(c.records)
  <2> DEFINE old == cs[i].records
  <2>1. old \in Distinct(Nat) /\ InOrder(old) /\ \A x \in ToSet(old) : x < n + 1
    BY <1>2
  <2>2. c.records = Append(old, n + 1)
    BY <1>4
  <2> HIDE DEF c
  <2>3. /\ Append(old, n + 1) \in Distinct(Nat)
        /\ ToSet(Append(old, n + 1)) = ToSet(old) \cup {n + 1}
        /\ InOrder(Append(old, n + 1))
    <3> HIDE DEF old
    <3> QED
      BY <2>1, AppendGreater
  <2> QED
    BY <2>2, <2>3
<1>6. c \in C
  <2>1. c.records \in Seq(Nat)
    BY <1>5 DEF Distinct
  <2> QED
    BY <1>3, <1>4, <2>1 DEF Holding, ChunkOver
<1>7. new = [cs EXCEPT ![i] = c]
  OBVIOUS
<1> HIDE DEF C, c, new
<1>8. /\ new \in Seq(C) /\ Len(new) = Len(cs) /\ DOMAIN new = 1 .. Len(cs)
      /\ new[i] = c
      /\ \A j \in 1 .. Len(cs) : j # i => new[j] = cs[j]
  BY <1>1, <1>6, <1>7, ExceptSeq, LenProperties
<1>9. 1 .. n + 1 = (1 .. n) \cup {n + 1}
  OBVIOUS
<1>10. Keys(cs) = {ks[r] : r \in 1 .. n}
  BY DEF Partitioned
<1>11. \A j \in 1 .. Len(cs) : new[j].key = cs[j].key
  BY <1>4, <1>8
<1>12. Keys(new) = {ks[r] : r \in 1 .. n + 1}
  <2>1. Keys(new) = Keys(cs) /\ key \in Keys(cs)
    BY <1>1, <1>8, <1>11 DEF Keys
  <2> QED
    BY <1>9, <1>10, <2>1
<1>13. \A j, k \in 1 .. Len(cs) : cs[j].key = cs[k].key => j = k
  BY DEF Partitioned
<1>14. ASSUME NEW j \in 1 .. Len(new)
       PROVE  /\ new[j].id = j - 1
              /\ new[j].region = new[j].key[2]
              /\ new[j].records \in Distinct(Nat)
              /\ ToSet(new[j].records) = {r \in 1 .. n + 1 : ks[r] = new[j].key}
              /\ InOrder(new[j].records)
  <2>1. CASE j # i
    <3>1. /\ cs[j].id = j - 1
          /\ cs[j].region = cs[j].key[2]
          /\ cs[j].records \in Distinct(Nat)
          /\ ToSet(cs[j].records) = {r \in 1 .. n : ks[r] = cs[j].key}
          /\ InOrder(cs[j].records)
      BY <1>8 DEF Partitioned
    <3>2. cs[j].key # key
      BY <1>8, <1>13, <2>1
    <3>3. {r \in 1 .. n + 1 : ks[r] = cs[j].key} = {r \in 1 .. n : ks[r] = cs[j].key}
      BY <1>9, <3>2
    <3>4. new[j] = cs[j]
      BY <1>8, <2>1
    <3> QED
      BY <3>1, <3>3, <3>4
  <2>2. CASE j = i
    <3>1. {r \in 1 .. n + 1 : ks[r] = key} = {r \in 1 .. n : ks[r] = key} \cup {n + 1}
      BY <1>9
    <3> QED
      BY <1>2, <1>4, <1>5, <1>8, <2>2, <3>1
  <2> QED
    BY <2>1, <2>2
<1>15. \A j, k \in 1 .. Len(new) : new[j].key = new[k].key => j = k
  BY <1>8, <1>11, <1>13
<1>16. Len(new) <= n + 1
  BY <1>1, <1>8
<1> QED
  BY <1>8, <1>12, <1>14, <1>15, <1>16 DEF Partitioned, C, new

\* reassemble gives every record back, once.
LEMMA ReassembleAll ==
    ASSUME NEW ks, NEW cs, NEW n \in Nat, Partitioned(cs, ks, n)
    PROVE  Len(Reassemble(cs)) = n /\ ToSet(Reassemble(cs)) = 1 .. n
<1> DEFINE ss == [i \in DOMAIN cs |-> cs[i].records]
<1>1. /\ cs \in Seq(ChunkOver(ToSet(ks))) /\ Len(cs) \in Nat /\ DOMAIN cs = 1 .. Len(cs)
  BY LenProperties DEF Partitioned
<1>2. \A i \in 1 .. Len(cs) :
          /\ cs[i].records \in Distinct(Nat)
          /\ ToSet(cs[i].records) = {r \in 1 .. n : ks[r] = cs[i].key}
  BY DEF Partitioned
<1>3. /\ ss \in Seq(Distinct(Nat)) /\ Len(ss) = Len(cs)
      /\ \A i \in 1 .. Len(cs) : ss[i] = cs[i].records
  <2>1. ss \in [1 .. Len(cs) -> Distinct(Nat)]
    BY <1>1, <1>2
  <2>2. ss \in Seq(Distinct(Nat))
    BY <1>1, <2>1, SeqDef
  <2>3. Len(ss) = Len(cs)
    BY <1>1, <2>1, <2>2, LenProperties
  <2> QED
    BY <1>1, <2>2, <2>3
<1>4. Reassemble(cs) = FlattenSeq(ss)
  BY DEF Reassemble
<1> HIDE DEF ss
<1>5. \A i, j \in 1 .. Len(ss) : i # j => ToSet(ss[i]) \cap ToSet(ss[j]) = {}
  <2>1. \A i, j \in 1 .. Len(cs) : cs[i].key = cs[j].key => i = j
    BY DEF Partitioned
  <2> QED
    BY <1>2, <1>3, <2>1
<1>6. /\ FlattenSeq(ss) \in Distinct(Nat)
      /\ ToSet(FlattenSeq(ss)) = UNION {ToSet(ss[i]) : i \in 1 .. Len(ss)}
  BY <1>3, <1>5, FlattenDistinct
<1>7. UNION {ToSet(ss[i]) : i \in 1 .. Len(ss)} = 1 .. n
  <2>1. ASSUME NEW r \in 1 .. n PROVE \E i \in 1 .. Len(ss) : r \in ToSet(ss[i])
    <3>1. ks[r] \in Keys(cs)
      BY DEF Partitioned
    <3>2. PICK i \in 1 .. Len(cs) : cs[i].key = ks[r]
      BY <1>1, <3>1 DEF Keys
    <3> QED
      BY <1>2, <1>3, <3>2
  <2>2. \A i \in 1 .. Len(ss) : ToSet(ss[i]) \subseteq 1 .. n
    BY <1>2, <1>3
  <2> QED
    BY <2>1, <2>2
<1>8. Len(FlattenSeq(ss)) = n
  <2>1. Cardinality(1 .. n) = n
    BY FS_Interval
  <2> QED
    BY <1>6, <1>7, <2>1, DistinctCardinality
<1> QED
  BY <1>4, <1>6, <1>7, <1>8

\* The chunks of cs that are stored, and the index of all of them.
Kept(st, cs, b, n) ==
    \A i \in 1 .. n : cs[i].key \in DOMAIN st /\ st[cs[i].key] = Blob(b, cs[i].records)

ChunkIndex(cs) == [key \in Keys(cs) |-> <<cs[ChunkOf(cs, key)].id>>]

\* Every record of R is in one blob, once.
Spread(st, R) ==
    /\ \A key \in DOMAIN st : st[key].records \in Distinct(R)
    /\ \A r \in R : \E key \in DOMAIN st : r \in ToSet(st[key].records)
    /\ \A j, k \in DOMAIN st : j # k => ToSet(st[j].records) \cap ToSet(st[k].records) = {}

\* Storing the next chunk touches no chunk of the batch that is stored already.
LEMMA StoreKeeps ==
    ASSUME NEW ks, NEW cs, NEW m, Partitioned(cs, ks, m),
           NEW n \in Nat, n < Len(cs), NEW st, NEW b, Kept(st, cs, b, n),
           NEW new, new = [key \in DOMAIN st \cup {cs[n + 1].key} |->
                              IF key = cs[n + 1].key THEN Blob(b, cs[n + 1].records) ELSE st[key]]
    PROVE  Kept(new, cs, b, n + 1) /\ DOMAIN new \subseteq DOMAIN st \cup Keys(cs)
<1>1. /\ Len(cs) \in Nat /\ DOMAIN cs = 1 .. Len(cs)
      /\ \A i, j \in 1 .. Len(cs) : cs[i].key = cs[j].key => i = j
  BY LenProperties DEF Partitioned
<1>2. cs[n + 1].key \in Keys(cs)
  BY <1>1 DEF Keys
<1>3. ASSUME NEW i \in 1 .. n + 1
      PROVE  cs[i].key \in DOMAIN new /\ new[cs[i].key] = Blob(b, cs[i].records)
  <2>1. CASE i = n + 1
    BY <2>1
  <2>2. CASE i # n + 1
    <3>1. i \in 1 .. n /\ i \in 1 .. Len(cs) /\ n + 1 \in 1 .. Len(cs)
      BY <1>1, <2>2
    <3>2. cs[i].key # cs[n + 1].key
      BY <1>1, <2>2, <3>1
    <3>3. cs[i].key \in DOMAIN st /\ st[cs[i].key] = Blob(b, cs[i].records)
      BY <3>1 DEF Kept
    <3> QED
      BY <3>2, <3>3
  <2> QED
    BY <2>1, <2>2
<1> QED
  BY <1>2, <1>3 DEF Kept

\* The blobs of one batch are spread as its chunks are.
LEMMA KeptSpreads ==
    ASSUME NEW ks, NEW cs, NEW n \in Nat, Partitioned(cs, ks, n),
           NEW st, NEW b, Kept(st, cs, b, Len(cs)), DOMAIN st \subseteq Keys(cs)
    PROVE  DOMAIN st = Keys(cs) /\ Spread(st, 1 .. n)
<1>1. Len(cs) \in Nat /\ DOMAIN cs = 1 .. Len(cs)
  BY LenProperties DEF Partitioned
<1>2. DOMAIN st = {cs[i].key : i \in 1 .. Len(cs)} /\ DOMAIN st = Keys(cs)
  BY <1>1 DEF Kept, Keys
<1>3. \A i \in 1 .. Len(cs) :
          /\ cs[i].records \in Distinct(Nat)
          /\ ToSet(cs[i].records) = {r \in 1 .. n : ks[r] = cs[i].key}
  BY DEF Partitioned
<1>4. \A i \in 1 .. Len(cs) : st[cs[i].key].records = cs[i].records
  <2>1. ASSUME NEW i \in 1 .. Len(cs) PROVE st[cs[i].key].records = cs[i].records
    <3>1. st[cs[i].key] = Blob(b, cs[i].records)
      BY DEF Kept
    <3>2. Blob(b, cs[i].records).records = cs[i].records
      BY DEF Blob
    <3> QED
      BY <3>1, <3>2
  <2> QED
    BY <2>1
<1>5. \A i \in 1 .. Len(cs) : cs[i].records \in Distinct(1 .. n)
  <2> SUFFICES ASSUME NEW i \in 1 .. Len(cs) PROVE cs[i].records \in Distinct(1 .. n)
    OBVIOUS
  <2> DEFINE s == cs[i].records
  <2>1. /\ s \in Seq(Nat) /\ Len(s) \in Nat /\ DOMAIN s = 1 .. Len(s) /\ IsInjective(s)
    BY <1>3, LenProperties DEF Distinct
  <2>2. \A j \in 1 .. Len(s) : s[j] \in 1 .. n
    BY <1>3, <2>1 DEF ToSet
  <2> HIDE DEF s
  <2>3. s \in [1 .. Len(s) -> 1 .. n]
    BY <2>1, <2>2, LenProperties
  <2>4. s \in Seq(1 .. n)
    BY <2>1, <2>3, SeqDef
  <2> QED
    BY <2>1, <2>4 DEF Distinct, s
<1>6. \A r \in 1 .. n : \E key \in DOMAIN st : r \in ToSet(st[key].records)
  <2> SUFFICES ASSUME NEW r \in 1 .. n PROVE \E key \in DOMAIN st : r \in ToSet(st[key].records)
    OBVIOUS
  <2>1. ks[r] \in Keys(cs)
    BY DEF Partitioned
  <2>2. PICK i \in 1 .. Len(cs) : cs[i].key = ks[r]
    BY <1>1, <2>1 DEF Keys
  <2> QED
    BY <1>2, <1>3, <1>4, <2>2
<1>7. \A j, k \in DOMAIN st : j # k => ToSet(st[j].records) \cap ToSet(st[k].records) = {}
  <2>1. \A i \in 1 .. Len(cs) : \A r \in ToSet(st[cs[i].key].records) : ks[r] = cs[i].key
    BY <1>3, <1>4
  <2>2. \A key \in DOMAIN st : \A r \in ToSet(st[key].records) : ks[r] = key
    BY <1>2, <2>1
  <2> QED
    BY <2>2
<1>8. \A key \in DOMAIN st : st[key].records \in Distinct(1 .. n)
  BY <1>2, <1>4, <1>5
<1> QED
  BY <1>2, <1>6, <1>7, <1>8 DEF Spread

\* A move takes one record out of one blob and puts it into another.
LEMMA MoveSpreads ==
    ASSUME NEW R, Spread(stored, R), NEW a \in DOMAIN stored, NEW b \in DOMAIN stored, a # b
    PROVE  DOMAIN Moved(a, b) = DOMAIN stored /\ Spread(Moved(a, b), R)
<1>1. CASE stored[a].records = <<>>
  BY <1>1 DEF Moved
<1>2. CASE stored[a].records # <<>>
  <2> DEFINE new == Moved(a, b)
             from == stored[a].records
             to == stored[b].records
             r == Head(from)
  <2>1. /\ DOMAIN new = DOMAIN stored
        /\ new[a] = Blob(stored[a].batch, Tail(from))
        /\ new[b] = Blob(stored[b].batch, Append(to, r))
        /\ \A k \in DOMAIN stored : k # a /\ k # b => new[k] = stored[k]
    BY <1>2 DEF Moved
  <2>2. from \in Distinct(R) /\ to \in Distinct(R) /\ ToSet(from) \cap ToSet(to) = {}
    BY DEF Spread
  <2>3. new[a].records = Tail(from) /\ new[b].records = Append(to, r)
    BY <2>1 DEF Blob
  <2>4. from # <<>>
    BY <1>2
  <2> HIDE DEF new, from, to
  <2>5. /\ r \in R /\ r \in ToSet(from)
        /\ Tail(from) \in Distinct(R) /\ ToSet(Tail(from)) = ToSet(from) \ {r}
    BY <2>2, <2>4, HeadAndTail
  <2> HIDE DEF r
  <2>6. Append(to, r) \in Distinct(R) /\ ToSet(Append(to, r)) = ToSet(to) \cup {r}
    BY <2>2, <2>5, AppendElement
  <2>7. \A key \in DOMAIN new : new[key].records \in Distinct(R)
    BY <2>1, <2>3, <2>5, <2>6 DEF Spread
  <2>8. /\ ToSet(new[a].records) = ToSet(stored[a].records) \ {r}
        /\ ToSet(new[b].records) = ToSet(stored[b].records) \cup {r}
        /\ \A k \in DOMAIN stored :
              k # a /\ k # b => ToSet(new[k].records) = ToSet(stored[k].records)
        /\ r \in ToSet(stored[a].records)
    BY <2>1, <2>3, <2>5, <2>6 DEF from, to
  <2>9. \A x \in R : \E key \in DOMAIN new : x \in ToSet(new[key].records)
    <3> SUFFICES ASSUME NEW x \in R PROVE \E key \in DOMAIN new : x \in ToSet(new[key].records)
      OBVIOUS
    <3>1. PICK k \in DOMAIN stored : x \in ToSet(stored[k].records)
      BY DEF Spread
    <3>2. CASE x = r
      BY <2>1, <2>8, <3>2
    <3>3. CASE x # r
      BY <2>1, <2>8, <3>1, <3>3
    <3> QED
      BY <3>2, <3>3
  <2>10. \A j, k \in DOMAIN new : j # k => ToSet(new[j].records) \cap ToSet(new[k].records) = {}
    <3>1. \A j, k \in DOMAIN stored :
              j # k => ToSet(stored[j].records) \cap ToSet(stored[k].records) = {}
      BY DEF Spread
    <3>2. \A k \in DOMAIN stored :
             /\ k # b => ToSet(new[k].records) \subseteq ToSet(stored[k].records)
             /\ r \in ToSet(new[k].records) => k = b
      BY <2>8, <3>1
    <3>3. ToSet(new[b].records) = ToSet(stored[b].records) \cup {r}
      BY <2>8
    <3> QED
      BY <2>1, <3>1, <3>2, <3>3
  <2> QED
    BY <2>1, <2>7, <2>9, <2>10 DEF Spread, new
<1> QED
  BY <1>1, <1>2
-----------------------------------------------------------------------------
\* The extractors, and what a recipe makes of each record.

KeyFun == [record \in Fields |-> Extract(record)]
KeyOf == [r \in DOMAIN batch |-> KeyFun[batch[r]]]

LEMMA HourInRange == ASSUME NEW value \in Value
                     PROVE  SafeInt(value) \in Int /\ SafeInt(value) % 24 \in 0 .. 23
  BY DEF SafeInt, Value

LEMMA KeyFunKdd == recipe = "kdd" => KeyFun = [record \in Fields |-> KDDKey(record)]
<1> SUFFICES ASSUME recipe = "kdd", NEW record \in Fields PROVE Extract(record) = KDDKey(record)
  BY Zenon DEF KeyFun
<1> QED
  BY Zenon DEF Extract

LEMMA KeyFunTaxi == recipe = "taxi" => KeyFun = [record \in Fields |-> TaxiKey(record)]
<1> SUFFICES ASSUME recipe = "taxi", NEW record \in Fields PROVE Extract(record) = TaxiKey(record)
  BY Zenon DEF KeyFun
<1> QED
  BY Zenon DEF Extract

LEMMA KeyFunWeblog == recipe = "weblog" => KeyFun = [record \in Fields |-> WeblogKey(record)]
<1> SUFFICES ASSUME recipe = "weblog", NEW record \in Fields
             PROVE  Extract(record) = WeblogKey(record)
  BY Zenon DEF KeyFun
<1> QED
  BY Zenon DEF Extract

KeyFunIs ==
    /\ recipe = "kdd" => KeyFun = [record \in Fields |-> KDDKey(record)]
    /\ recipe = "taxi" => KeyFun = [record \in Fields |-> TaxiKey(record)]
    /\ recipe = "weblog" => KeyFun = [record \in Fields |-> WeblogKey(record)]

LEMMA KeyFunIsAlways == KeyFunIs
  BY KeyFunKdd, KeyFunTaxi, KeyFunWeblog DEF KeyFunIs

LEMMA KeysStay ==
    recipe \in Recipe /\ UNCHANGED <<recipe, batch>> => KeyFun' = KeyFun /\ KeyOf' = KeyOf
<1> SUFFICES ASSUME recipe \in Recipe, UNCHANGED <<recipe, batch>>
             PROVE  KeyFun' = KeyFun /\ KeyOf' = KeyOf
  OBVIOUS
<1>1. KeyFunIs
  BY KeyFunIsAlways
<1>2. KeyFunIs'
  BY KeyFunIsAlways, PTL
<1>3. KeyFun' = KeyFun
  BY <1>1, <1>2 DEF Recipe, KeyFunIs
<1> QED
  BY <1>3 DEF KeyOf

\* The computed parts of a key stay in their ranges.
LEMMA KeyRanges ==
    ASSUME recipe \in Recipe, NEW record \in Fields
    PROVE  /\ KeyFun[record][1] \in 0 .. 23
           /\ recipe = "kdd" => KeyFun[record][2] \in 0 .. 7
<1>1. /\ record.time \in Value /\ record.epoch \in Value /\ record.region \in Value
  BY DEF Fields
<1>2. CASE recipe = "kdd"
  <2>1. KeyFun[record] = KDDKey(record)
    BY <1>2, KeyFunKdd
  <2>2. SafeInt(record.region) % 8 \in 0 .. 7
    BY <1>1, HourInRange
  <2> QED
    BY <1>1, <2>1, <2>2, HourInRange DEF KDDKey
<1>3. CASE recipe = "taxi"
  <2>1. KeyFun[record] = TaxiKey(record)
    BY <1>3, KeyFunTaxi
  <2> QED
    BY <1>1, <1>3, <2>1, HourInRange DEF TaxiKey
<1>4. CASE recipe = "weblog"
  <2>1. KeyFun[record] = WeblogKey(record)
    BY <1>4, KeyFunWeblog
  <2>2. WeblogHour(record) \in Int
    <3>1. SafeInt(record.time) \in Int /\ SafeInt(record.epoch) \in Int
      BY <1>1, HourInRange
    <3>2. (SafeInt(record.epoch) \div 3600) % 24 \in Int
      BY <3>1
    <3> QED
      BY <3>1, <3>2 DEF WeblogHour
  <2>3. WeblogHour(record) % 24 \in 0 .. 23
    BY <2>2
  <2> QED
    BY <1>4, <2>1, <2>3 DEF WeblogKey
<1> QED
  BY <1>2, <1>3, <1>4 DEF Recipe

\* Records with a time, and without unhashable parts.
Digestible(record) ==
    record.time.kind # "missing" /\ record.region.kind # "list" /\ record.type.kind # "list"

LEMMA OnlyInfinitiesCrash ==
    ASSUME recipe \in Recipe, NEW record, Digestible(record), Crashes(record)
    PROVE  "inf" \in {record.time.kind, record.region.kind}
<1>1. Converted(record) \subseteq {record.time, record.region}
  <2>1. CASE recipe = "kdd"
    <3>1. Converted(record) = {record.time, record.region}
      BY Zenon, <2>1 DEF Converted
    <3> QED
      BY <3>1
  <2>2. CASE recipe = "taxi"
    <3>1. Converted(record) = {record.time}
      BY Zenon, <2>2 DEF Converted
    <3> QED
      BY <3>1
  <2>3. CASE recipe = "weblog"
    <3>1. Converted(record) = {IF record.time.kind # "missing" THEN record.time ELSE record.epoch}
      BY Zenon, <2>3 DEF Converted
    <3> QED
      BY <3>1 DEF Digestible
  <2> QED
    BY <2>1, <2>2, <2>3 DEF Recipe
<1>2. \A value \in Verbatim(record) : value.kind # "list"
  BY DEF Verbatim, Digestible
<1> QED
  BY <1>1, <1>2 DEF Crashes, Overflows
-----------------------------------------------------------------------------
\* The invariant of the data path.

Control ==
    /\ recipe \in Recipe
    /\ batches \in 0 .. MaxBatches
    /\ phase \in {"segment", "store", "done", "moving", "raised"}
    /\ stage \in Stage
    /\ next \in 0 .. MaxBatch
    /\ phase \in {"segment", "raised"} => next <= Len(batch)
    /\ phase = "store" => next <= Len(chunks)
    /\ phase # "done" => batches > 0
    /\ stage = "building" => phase # "moving" /\ drawn = <<>>
    /\ stage # "building" =>
          batches = 1 /\ phase = IF stage = "in-chunk" THEN "done" ELSE "moving"

Grouped ==
    /\ batch \in Seq(Fields)
    /\ Len(batch) <= MaxBatch
    /\ next_id = Len(chunks)
    /\ Partitioned(chunks, KeyOf, Segmented)

\* The index and the store follow the chunks until updates move records.
Following ==
    /\ batches = 0 => DOMAIN stored = {}
    /\ batches <= 1 => DOMAIN stored \subseteq Keys(chunks)
    /\ phase \in {"store", "done", "moving"} /\ batches > 0 => index = ChunkIndex(chunks)
    /\ phase = "store" => Kept(stored, chunks, batches, next)
    /\ phase = "done" /\ batches > 0 => Kept(stored, chunks, batches, Len(chunks))

Updating ==
    stage \in {"in-chunk", "cross-chunk"} =>
        /\ DOMAIN stored = Keys(chunks)
        /\ Spread(stored, 1 .. Len(batch))
        /\ drawn \in Distinct(DOMAIN stored)

\* What the loaders produce; LoadedRecordsIngest is part of the invariant.
Loading ==
    /\ origin # "caller" =>
          \A r \in 1 .. Len(batch) :
              /\ Digestible(batch[r])
              /\ origin # "kdd-file" => "inf" \notin {batch[r].time.kind, batch[r].region.kind}
    /\ LoadedRecordsIngest

DataInv == Control /\ Grouped /\ Following /\ Updating /\ Loading

LEMMA EmptyPartitioned == \A ks : Partitioned(<<>>, ks, 0)
  BY EmptySeq DEF Partitioned, Keys

\* Lengths and places, in one place.
LEMMA Sizes ==
    ASSUME DataInv
    PROVE  /\ batch \in Seq(Fields) /\ Len(batch) \in Nat /\ DOMAIN batch = 1 .. Len(batch)
           /\ Len(chunks) \in Nat /\ DOMAIN chunks = 1 .. Len(chunks)
           /\ Segmented \in 0 .. Len(batch) /\ Len(chunks) <= Segmented
           /\ next \in Nat
<1>1. batch \in Seq(Fields) /\ Len(batch) \in Nat /\ DOMAIN batch = 1 .. Len(batch)
  BY LenProperties DEF DataInv, Grouped
<1>2. /\ Len(chunks) \in Nat /\ DOMAIN chunks = 1 .. Len(chunks)
      /\ Len(chunks) <= Segmented
  BY LenProperties DEF DataInv, Grouped, Partitioned
<1>3. next \in Nat
  BY MaxBatchAssumption DEF DataInv, Control
<1>4. Segmented \in 0 .. Len(batch)
  BY <1>1, <1>3 DEF DataInv, Control, Segmented
<1> QED
  BY <1>1, <1>2, <1>3, <1>4

\* A step that changes neither the batch nor the chunks.
LEMMA SameChunks ==
    ASSUME DataInv, UNCHANGED <<recipe, batch, chunks, next_id>>, Segmented' = Segmented
    PROVE  Grouped'
<1>1. KeyOf' = KeyOf
  BY KeysStay DEF DataInv, Control
<1> QED
  BY <1>1 DEF DataInv, Grouped

\* A step that raises no exception.
LEMMA SameLoad ==
    ASSUME DataInv, UNCHANGED <<batch, origin>>, phase' # "raised" \/ UNCHANGED <<phase, next>>
    PROVE  Loading'
  BY DEF DataInv, Loading, LoadedRecordsIngest

LEMMA DataStarts == LoadersInit => DataInv
<1> SUFFICES ASSUME LoadersInit PROVE DataInv
  OBVIOUS
<1>1. /\ recipe \in Recipe /\ batch = <<>> /\ next = 0 /\ chunks = <<>> /\ next_id = 0
      /\ stored = <<>> /\ phase = "done" /\ batches = 0 /\ stage = "building"
      /\ drawn = <<>> /\ origin = "none"
  BY DEF LoadersInit, WritesInit, Init
<1>2. Control
  BY <1>1, MaxBatchAssumption, MaxBatchesAssumption DEF Control, Stage
<1>3. Segmented = 0
  BY <1>1, EmptySeq DEF Segmented
<1>4. Grouped
  BY <1>1, <1>3, EmptySeq, EmptyPartitioned, MaxBatchAssumption DEF Grouped
<1>5. Following
  BY <1>1, EmptySeq DEF Following
<1>6. Updating /\ Loading
  BY <1>1, EmptySeq DEF Updating, Loading, LoadedRecordsIngest
<1> QED
  BY <1>2, <1>4, <1>5, <1>6 DEF DataInv

LEMMA BeginStep ==
    ASSUME DataInv, NEW records \in Seq(Fields), Len(records) <= MaxBatch,
           stage = "building", Begin(records), UNCHANGED <<stage, updates, edited, drawn>>,
           origin' # "caller" =>
               \A r \in 1 .. Len(records) :
                   /\ Digestible(records[r])
                   /\ origin' # "kdd-file" =>
                         "inf" \notin {records[r].time.kind, records[r].region.kind}
    PROVE  DataInv'
<1>1. /\ phase = "done" /\ batches < MaxBatches /\ batches' = batches + 1
      /\ batch' = records /\ next' = 0 /\ chunks' = <<>> /\ next_id' = 0
      /\ phase' = "segment" /\ UNCHANGED <<recipe, index, stored>>
  BY DEF Begin
<1>2. batches \in 0 .. MaxBatches /\ recipe \in Recipe
  BY DEF DataInv, Control
<1>3. Control'
  <2>1. batches + 1 \in 0 .. MaxBatches /\ batches + 1 > 0
    BY <1>1, <1>2, MaxBatchesAssumption
  <2>2. 0 \in 0 .. MaxBatch /\ 0 <= Len(records)
    BY MaxBatchAssumption, LenProperties
  <2> QED
    BY <1>1, <1>2, <2>1, <2>2 DEF DataInv, Control
<1>4. Segmented' = 0
  BY <1>1 DEF Segmented
<1>5. Grouped'
  BY <1>1, <1>4, EmptySeq, EmptyPartitioned DEF Grouped
<1>6. Following'
  <2> DEFINE b == batches
  <2>1. b \in Nat /\ batches' = b + 1
    BY <1>1, <1>2, MaxBatchesAssumption
  <2> HIDE DEF b
  <2>2. (batches' <= 1 => b = 0) /\ batches' # 0
    BY <2>1
  <2>3. batches' <= 1 => batches = 0
    BY <2>2 DEF b
  <2> QED
    BY <1>1, <2>2, <2>3 DEF DataInv, Following
<1>7. Updating'
  BY DEF Updating
<1>8. Loading'
  BY <1>1 DEF Loading, LoadedRecordsIngest
<1> QED
  BY <1>3, <1>5, <1>6, <1>7, <1>8 DEF DataInv

LEMMA SegmentStep ==
    ASSUME DataInv, stage = "building", Segment, UNCHANGED <<stage, updates, edited, drawn, origin>>
    PROVE  DataInv'
<1>1. /\ phase = "segment" /\ next < Len(batch) /\ next' = next + 1
      /\ UNCHANGED <<recipe, batch, index, stored, phase, batches>>
  BY DEF Segment
<1> DEFINE key == KeyOf[next + 1]
           i == ChunkOf(chunks, key)
<1>2. /\ next \in Nat /\ Len(batch) \in Nat /\ DOMAIN batch = 1 .. Len(batch)
      /\ Len(chunks) \in Nat /\ DOMAIN chunks = 1 .. Len(chunks)
      /\ next + 1 \in DOMAIN batch
      /\ Len(batch) <= MaxBatch
  BY <1>1, Sizes DEF DataInv, Grouped
<1>3. KeyOf' = KeyOf
  BY <1>1, KeysStay DEF DataInv, Control
<1>4. key = Extract(batch[next + 1]) /\ key \in ToSet(KeyOf)
  <2>1. batch[next + 1] \in Fields
    BY <1>2, ElementOfSeq DEF DataInv, Grouped
  <2>2. key = KeyFun[batch[next + 1]] /\ DOMAIN KeyOf = DOMAIN batch
    BY <1>2 DEF KeyOf
  <2>3. KeyFun[batch[next + 1]] = Extract(batch[next + 1])
    BY <2>1 DEF KeyFun
  <2> QED
    BY <1>2, <2>2, <2>3 DEF ToSet
<1>5. Segmented = next /\ Segmented' = next + 1
  BY <1>1 DEF Segmented
<1>6. Partitioned(chunks, KeyOf, next) /\ next_id = Len(chunks)
  BY <1>5 DEF DataInv, Grouped
<1>7. /\ i \in 0 .. Len(chunks) /\ (key \in Keys(chunks) <=> i # 0)
      /\ i # 0 => chunks[i].key = key
  <2>1. chunks \in Seq(ChunkOver(ToSet(KeyOf)))
    BY <1>6 DEF Partitioned
  <2> HIDE DEF key
  <2> QED
    BY <2>1, ChunkOfKey
<1>8. /\ i = 0 => Open
      /\ i # 0 => Extend(i)
  BY <1>4 DEF Segment
<1>9. /\ Partitioned(chunks', KeyOf, next + 1)
      /\ next_id' = Len(chunks')
      /\ Keys(chunks) \subseteq Keys(chunks')
  <2>1. CASE i = 0
    <3> DEFINE c == NewChunk(key, next_id)
    <3>1. chunks' = Append(chunks, c) /\ next_id' = next_id + 1
      BY <1>4, <1>8, <2>1 DEF Open
    <3>2. c = [id |-> Len(chunks), key |-> KeyOf[next + 1], region |-> KeyOf[next + 1][2],
               records |-> <<next + 1>>]
      BY <1>6 DEF NewChunk
    <3>3. key \notin Keys(chunks)
      BY <1>7, <2>1
    <3> HIDE DEF c, i
    <3>4. Partitioned(Append(chunks, c), KeyOf, next + 1)
      BY <1>2, <1>4, <1>6, <3>2, <3>3, OpenKeeps
    <3> HIDE DEF key
    <3>5. Len(chunks') = Len(chunks) + 1
      BY <1>6, <3>1, AppendProperties, <3>4, LenProperties DEF Partitioned
    <3>6. Keys(chunks) \subseteq Keys(chunks')
      <4>1. \A j \in 1 .. Len(chunks) : chunks'[j] = chunks[j]
        BY <1>2, <3>1, <1>6, AppendProperties DEF Partitioned
      <4>2. DOMAIN chunks' = 1 .. Len(chunks) + 1
        BY <3>1, <3>4, <3>5, LenProperties DEF Partitioned
      <4> QED
        BY <1>2, <4>1, <4>2 DEF Keys
    <3> QED
      BY <1>6, <3>1, <3>4, <3>5, <3>6
  <2>2. CASE i # 0
    <3>1. /\ chunks' = [chunks EXCEPT ![i] = Holding(@, Append(@.records, next + 1))]
          /\ next_id' = next_id
      BY <1>8, <2>2 DEF Extend
    <3>2. i \in 1 .. Len(chunks) /\ chunks[i].key = KeyOf[next + 1]
      BY <1>2, <1>7, <2>2
    <3> HIDE DEF i
    <3>3. Partitioned(chunks', KeyOf, next + 1)
      BY <1>2, <1>6, <3>1, <3>2, ExtendKeeps
    <3>4. Len(chunks') = Len(chunks)
      <4>1. DOMAIN chunks' = 1 .. Len(chunks)
        BY <1>2, <3>1
      <4> QED
        BY <1>2, <3>3, <4>1, LenProperties DEF Partitioned
    <3>5. /\ Keys(chunks) = {KeyOf[r] : r \in 1 .. next}
          /\ Keys(chunks') = {KeyOf[r] : r \in 1 .. next + 1}
      BY <1>6, <3>3 DEF Partitioned
    <3>6. 1 .. next \subseteq 1 .. next + 1
      BY <1>2
    <3> QED
      BY <1>6, <3>1, <3>3, <3>4, <3>5, <3>6
  <2> QED
    BY <2>1, <2>2
<1>10. Control'
  BY <1>1, <1>2, MaxBatchAssumption DEF DataInv, Control
<1>11. Grouped'
  BY <1>1, <1>3, <1>5, <1>9 DEF DataInv, Grouped
<1>12. Following'
  BY <1>1, <1>9 DEF DataInv, Following
<1>13. Updating'
  BY DEF Updating
<1>14. Loading'
  BY <1>1, SameLoad
<1> QED
  BY <1>10, <1>11, <1>12, <1>13, <1>14 DEF DataInv

LEMMA RaiseStep ==
    ASSUME DataInv, stage = "building", SegmentRaises,
           UNCHANGED <<stage, updates, edited, drawn, origin>>
    PROVE  DataInv'
<1>1. /\ phase = "segment" /\ next < Len(batch) /\ phase' = "raised"
      /\ Crashes(batch[next + 1])
      /\ UNCHANGED <<recipe, batch, next, chunks, next_id, index, stored, batches>>
  BY DEF SegmentRaises
<1>2. Control'
  BY <1>1 DEF DataInv, Control
<1>3. Segmented' = Segmented
  BY <1>1 DEF Segmented
<1>4. Grouped'
  BY <1>1, <1>3, SameChunks
<1>5. Following' /\ Updating'
  BY <1>1 DEF DataInv, Following, Updating
<1>6. Loading'
  <2>1. next + 1 \in 1 .. Len(batch)
    BY <1>1, Sizes
  <2>2. ASSUME origin # "caller"
        PROVE  /\ origin = "kdd-file"
               /\ "inf" \in {batch[next + 1].time.kind, batch[next + 1].region.kind}
    <3>1. Digestible(batch[next + 1])
      BY <2>1, <2>2 DEF DataInv, Loading
    <3>2. "inf" \in {batch[next + 1].time.kind, batch[next + 1].region.kind}
      BY <1>1, <3>1, OnlyInfinitiesCrash DEF DataInv, Control
    <3> QED
      BY <2>1, <2>2, <3>2 DEF DataInv, Loading
  <2> QED
    BY <1>1, <2>2 DEF DataInv, Loading, LoadedRecordsIngest
<1> QED
  BY <1>2, <1>4, <1>5, <1>6 DEF DataInv

LEMMA BuildStep ==
    ASSUME DataInv, stage = "building", Build, UNCHANGED <<stage, updates, edited, drawn, origin>>
    PROVE  DataInv'
<1>1. /\ phase = "segment" /\ next = Len(batch) /\ phase' = "store" /\ next' = 0
      /\ index' = ChunkIndex(chunks)
      /\ UNCHANGED <<recipe, batch, chunks, next_id, stored, batches>>
  BY DEF Build, Indexed, ChunkIndex
<1>2. Control'
  BY <1>1, Sizes, MaxBatchAssumption DEF DataInv, Control
<1>3. Segmented' = Segmented
  BY <1>1 DEF Segmented
<1>4. Grouped'
  BY <1>1, <1>3, SameChunks
<1>5. Following' /\ Updating'
  BY <1>1 DEF DataInv, Following, Updating, Kept
<1>6. Loading'
  BY <1>1, SameLoad
<1> QED
  BY <1>2, <1>4, <1>5, <1>6 DEF DataInv

LEMMA StoreStep ==
    ASSUME DataInv, stage = "building", Store, UNCHANGED <<stage, updates, edited, drawn, origin>>
    PROVE  DataInv'
<1>1. /\ phase = "store" /\ next < Len(chunks) /\ next' = next + 1
      /\ stored' = [key \in DOMAIN stored \cup {chunks[next + 1].key} |->
                       IF key = chunks[next + 1].key
                       THEN Blob(batches, chunks[next + 1].records)
                       ELSE stored[key]]
      /\ UNCHANGED <<recipe, batch, chunks, next_id, index, phase, batches>>
  BY DEF Store
<1>2. /\ next \in Nat /\ Len(chunks) \in Nat /\ Len(chunks) <= MaxBatch
      /\ Partitioned(chunks, KeyOf, Segmented) /\ Kept(stored, chunks, batches, next)
  BY <1>1, Sizes, MaxBatchAssumption DEF DataInv, Grouped, Following
<1>3. /\ Kept(stored', chunks, batches, next + 1)
      /\ DOMAIN stored' \subseteq DOMAIN stored \cup Keys(chunks)
  BY <1>1, <1>2, StoreKeeps
<1>4. Control'
  BY <1>1, <1>2, MaxBatchAssumption DEF DataInv, Control
<1>5. Segmented' = Segmented
  BY <1>1 DEF Segmented
<1>6. Grouped'
  BY <1>1, <1>5, SameChunks
<1>7. Following'
  <2>1. batches' # 0
    BY <1>1, MaxBatchesAssumption DEF DataInv, Control
  <2> QED
    BY <1>1, <1>3, <2>1 DEF DataInv, Following
<1>8. Updating'
  BY DEF Updating
<1>9. Loading'
  BY <1>1, SameLoad
<1> QED
  BY <1>4, <1>6, <1>7, <1>8, <1>9 DEF DataInv

LEMMA FinishStep ==
    ASSUME DataInv, stage = "building", Finish, UNCHANGED <<stage, updates, edited, drawn, origin>>
    PROVE  DataInv'
<1>1. /\ phase = "store" /\ next = Len(chunks) /\ phase' = "done"
      /\ UNCHANGED <<recipe, batch, next, chunks, next_id, index, stored, batches>>
  BY DEF Finish
<1>2. Control'
  BY <1>1 DEF DataInv, Control
<1>3. Segmented' = Segmented
  BY <1>1 DEF Segmented
<1>4. Grouped'
  BY <1>1, <1>3, SameChunks
<1>5. Following' /\ Updating'
  BY <1>1 DEF DataInv, Following, Updating
<1>6. Loading'
  BY <1>1, SameLoad
<1> QED
  BY <1>2, <1>4, <1>5, <1>6 DEF DataInv

LEMMA BeginUpdatesStep ==
    ASSUME DataInv, BeginUpdates, UNCHANGED origin
    PROVE  DataInv'
<1>1. /\ stage = "building" /\ phase = "done" /\ batches = 1
      /\ \/ stage' = "in-chunk" /\ phase' = phase
         \/ stage' \in {"cross-chunk", "too-few"} /\ phase' = "moving"
      /\ UNCHANGED <<recipe, batch, next, chunks, next_id, index, stored, batches, drawn>>
  BY DEF BeginUpdates
<1>2. Control'
  <2>1. /\ recipe' \in Recipe /\ batches' \in 0 .. MaxBatches /\ next' \in 0 .. MaxBatch
        /\ drawn' = <<>> /\ batches' = 1
    BY <1>1 DEF DataInv, Control
  <2>2. CASE stage' = "in-chunk" /\ phase' = phase
    BY <1>1, <2>1, <2>2 DEF Control, Stage
  <2>3. CASE stage' \in {"cross-chunk", "too-few"} /\ phase' = "moving"
    BY <1>1, <2>1, <2>3 DEF Control, Stage
  <2> QED
    BY <1>1, <2>2, <2>3
<1>3. Segmented' = Segmented /\ Segmented = Len(batch)
  BY <1>1 DEF Segmented
<1>4. Grouped'
  BY <1>1, <1>3, SameChunks
<1>5. Following'
  BY <1>1 DEF DataInv, Following
<1>6. DOMAIN stored = Keys(chunks) /\ Spread(stored, 1 .. Len(batch))
  <2>1. /\ Partitioned(chunks, KeyOf, Len(batch)) /\ Kept(stored, chunks, batches, Len(chunks))
        /\ DOMAIN stored \subseteq Keys(chunks)
    <3>1. batches <= 1 /\ batches > 0
      BY <1>1
    <3> QED
      BY <1>1, <1>3, <3>1 DEF DataInv, Grouped, Following
  <2> QED
    BY <2>1, Sizes, KeptSpreads
<1>7. drawn = <<>> /\ <<>> \in Distinct(DOMAIN stored)
  <2>1. drawn = <<>>
    BY <1>1 DEF DataInv, Control
  <2> QED
    BY <2>1, EmptySeq DEF Distinct, IsInjective
<1>8. Updating'
  BY <1>1, <1>6, <1>7 DEF Updating
<1>9. Loading'
  BY <1>1, SameLoad
<1> QED
  BY <1>2, <1>4, <1>5, <1>8, <1>9 DEF DataInv

\* Steps of the update loops leave the control of the ingestion alone.
LEMMA UpdateFrame ==
    ASSUME DataInv, stage \in {"in-chunk", "cross-chunk"},
           UNCHANGED <<recipe, batch, next, chunks, next_id, index, phase, batches, stage, origin>>
    PROVE  Control' /\ Grouped' /\ Loading'
<1>1. Segmented' = Segmented
  BY DEF Segmented
<1>2. Control'
  BY DEF DataInv, Control
<1> QED
  BY <1>1, <1>2, SameChunks, SameLoad

LEMMA InChunkStep ==
    ASSUME DataInv, NEW key, UpdateInChunk(key), UNCHANGED origin
    PROVE  DataInv'
<1>1. /\ stage = "in-chunk"
      /\ UNCHANGED <<recipe, batch, next, chunks, next_id, index, phase, batches, stage>>
      /\ UNCHANGED <<stored, drawn>>
  BY DEF UpdateInChunk, Update
<1>2. Following' /\ Updating'
  BY <1>1 DEF DataInv, Following, Updating
<1> QED
  BY <1>1, <1>2, UpdateFrame DEF DataInv

LEMMA DrawStep ==
    ASSUME DataInv, NEW key \in DOMAIN stored, Draw(key), UNCHANGED origin
    PROVE  DataInv'
<1>1. /\ stage = "cross-chunk"
      /\ drawn' = IF Contains(drawn, key) THEN drawn ELSE Append(drawn, key)
      /\ UNCHANGED <<recipe, batch, next, chunks, next_id, index, stored, phase, batches, stage>>
  BY DEF Draw
<1>2. drawn \in Distinct(DOMAIN stored)
  BY <1>1 DEF DataInv, Updating
<1>3. drawn' \in Distinct(DOMAIN stored)
  <2>1. CASE Contains(drawn, key)
    BY <1>1, <1>2, <2>1
  <2>2. CASE ~Contains(drawn, key)
    <3>1. key \notin ToSet(drawn)
      BY <1>2, <2>2, LenProperties DEF Contains, ToSet, Distinct
    <3> QED
      BY <1>1, <1>2, <2>2, <3>1, AppendElement
  <2> QED
    BY <2>1, <2>2
<1>4. Following' /\ Updating'
  BY <1>1, <1>3 DEF DataInv, Following, Updating
<1> QED
  BY <1>1, <1>4, UpdateFrame DEF DataInv

LEMMA MoveStep ==
    ASSUME DataInv, MoveAcross, UNCHANGED origin
    PROVE  DataInv'
<1>1. /\ stage = "cross-chunk" /\ Len(drawn) = 2 /\ drawn' = <<>>
      /\ stored' = Moved(drawn[1], drawn[2])
      /\ UNCHANGED <<recipe, batch, next, chunks, next_id, index, phase, batches, stage>>
  BY DEF MoveAcross, Update
<1>2. phase = "moving" /\ batches = 1
  BY <1>1 DEF DataInv, Control
<1>3. /\ drawn \in Distinct(DOMAIN stored) /\ Spread(stored, 1 .. Len(batch))
      /\ DOMAIN stored = Keys(chunks)
  BY <1>1 DEF DataInv, Updating
<1>4. drawn[1] \in DOMAIN stored /\ drawn[2] \in DOMAIN stored /\ drawn[1] # drawn[2]
  <2>1. drawn \in Seq(DOMAIN stored) /\ DOMAIN drawn = 1 .. 2
    BY <1>1, <1>3, LenProperties DEF Distinct
  <2>2. 1 \in DOMAIN drawn /\ 2 \in DOMAIN drawn
    BY <2>1
  <2> QED
    BY <1>1, <1>3, <2>1, <2>2, ElementOfSeq DEF Distinct, IsInjective
<1>5. DOMAIN stored' = DOMAIN stored /\ Spread(stored', 1 .. Len(batch))
  BY <1>1, <1>3, <1>4, MoveSpreads
<1>6. drawn' \in Distinct(DOMAIN stored)
  BY <1>1, EmptySeq DEF Distinct, IsInjective
<1>7. Following'
  BY <1>1, <1>2, <1>3, <1>5 DEF DataInv, Following
<1>8. Updating'
  BY <1>1, <1>3, <1>5, <1>6 DEF Updating
<1> QED
  BY <1>1, <1>7, <1>8, UpdateFrame DEF DataInv
-----------------------------------------------------------------------------
\* What the loaders hand over.

LEMMA ParsedValue ==
    ASSUME NEW token \in Token
    PROVE  Parsed(token) \in Value /\ Parsed(token).kind \in {"int", "float", "inf", "text"}
<1>1. token.n \in Int /\ token.text \in {"integer", "decimal", "infinity", "word"}
  BY DEF Token
<1>2. \/ Parsed(token) = [kind |-> "int", n |-> token.n]
      \/ Parsed(token) = [kind |-> "float", n |-> token.n]
      \/ Parsed(token) = [kind |-> "inf", n |-> 0]
      \/ Parsed(token) = [kind |-> "text", n |-> token.n]
  <2>1. CASE token.text = "integer"
    BY Zenon, <2>1 DEF Parsed
  <2>2. CASE token.text = "decimal"
    BY Zenon, <2>2 DEF Parsed
  <2>3. CASE token.text = "infinity"
    BY Zenon, <2>3 DEF Parsed
  <2>4. CASE token.text = "word"
    BY Zenon, <2>4 DEF Parsed
  <2> QED
    BY <1>1, <2>1, <2>2, <2>3, <2>4
<1> QED
  BY <1>1, <1>2 DEF Value, Kind

\* Records a KDD line can give; a piece of the file is one of them or none.
KDDPart == {record \in Fields : Digestible(record)}

LEMMA KDDPiece ==
    ASSUME NEW line \in Line
    PROVE  KDDRecord(line) \in KDDPart
<1>1. line.src_bytes \in Token /\ line.dst_bytes \in Token /\ line.protocol_type \in Token
  BY LineAssumption
<1>2. Absent \in Value
  BY DEF Absent, Value, Kind
<1>3. KDDRecord(line) \in Fields
  BY <1>1, <1>2, ParsedValue DEF KDDRecord, Fields
<1>4. Digestible(KDDRecord(line))
  BY <1>1, ParsedValue DEF KDDRecord, Digestible
<1> QED
  BY <1>3, <1>4 DEF KDDPart

LEMMA ParsedLines ==
    ASSUME NEW n \in Nat, NEW lines \in [1 .. n -> Line]
    PROVE  ParseKDD(lines) \in Seq(KDDPart) /\ Len(ParseKDD(lines)) <= MaxBatch
<1> DEFINE m == IF Len(lines) < MaxBatch THEN Len(lines) ELSE MaxBatch
           ss == [i \in 1 .. m |->
                     IF lines[i].columns = 42 THEN <<KDDRecord(lines[i])>> ELSE <<>>]
<1>1. Len(lines) = n
  BY LenProperties, SeqDef
<1>2. m \in Nat /\ m <= MaxBatch /\ m <= n
  BY <1>1, MaxBatchAssumption
<1>3. ParseKDD(lines) = FlattenSeq(ss)
  BY DEF ParseKDD
<1> HIDE DEF m
<1>4. ASSUME NEW i \in 1 .. m PROVE ss[i] \in Seq(KDDPart) /\ Len(ss[i]) <= 1
  <2>1. lines[i] \in Line
    BY <1>2
  <2>2. KDDRecord(lines[i]) \in KDDPart
    BY <2>1, KDDPiece
  <2>3. <<KDDRecord(lines[i])>> \in Seq(KDDPart) /\ Len(<<KDDRecord(lines[i])>>) = 1
    BY <2>2
  <2>4. <<>> \in Seq(KDDPart) /\ Len(<<>>) = 0
    BY EmptySeq
  <2> QED
    BY <2>3, <2>4
<1>5. ss \in Seq(Seq(KDDPart)) /\ Len(ss) = m
  <2>1. ss \in [1 .. m -> Seq(KDDPart)]
    BY <1>4
  <2> HIDE DEF ss
  <2> QED
    BY <1>2, <2>1, LenProperties, SeqDef
<1> HIDE DEF ss
<1>6. FlattenSeq(ss) \in Seq(KDDPart) /\ Len(FlattenSeq(ss)) <= Len(ss)
  BY <1>4, <1>5, FlattenPieces
<1>7. Len(FlattenSeq(ss)) \in Nat
  BY <1>6, LenProperties
<1> QED
  BY <1>2, <1>3, <1>5, <1>6, <1>7, MaxBatchAssumption

LEMMA TaxiRecordsGood ==
    ASSUME NEW n \in Nat, NEW rows \in [1 .. n -> TaxiRow], ~TaxiRaises(rows)
    PROVE  /\ ParseTaxi(rows) \in Seq(Fields) /\ Len(ParseTaxi(rows)) = n
           /\ \A i \in 1 .. n :
                 /\ Digestible(ParseTaxi(rows)[i])
                 /\ "inf" \notin {ParseTaxi(rows)[i].time.kind, ParseTaxi(rows)[i].region.kind}
<1> DEFINE Made1(row) == [time |-> TaxiHour(row), epoch |-> Absent,
                          region |-> [kind |-> "int", n |-> (row.PULocationID.n % 5) + 1],
                          type |-> [kind |-> "text", n |-> 1]]
<1>1. ASSUME NEW row \in TaxiRow, row.PULocationID # Absent
      PROVE  /\ Made1(row) \in Fields /\ Digestible(Made1(row))
             /\ "inf" \notin {Made1(row).time.kind, Made1(row).region.kind}
  <2>1. /\ row.hour \in [kind : {"int", "float"}, n : Int] \cup {Absent}
        /\ row.PULocationID \in [kind : {"int", "float"}, n : Int]
    BY <1>1, TaxiRowAssumption
  <2>2. Absent \in Value
    BY DEF Absent, Value, Kind
  <2>3. TaxiHour(row) \in Value /\ TaxiHour(row).kind \in {"int", "float", "text"}
    <3>1. CASE row.hour = Absent
      BY <3>1 DEF TaxiHour, Value, Kind
    <3>2. CASE row.hour # Absent
      BY <2>1, <3>2 DEF TaxiHour, Value, Kind
    <3> QED
      BY <3>1, <3>2
  <2>4. (row.PULocationID.n % 5) + 1 \in Int
    BY <2>1
  <2> QED
    BY <2>2, <2>3, <2>4 DEF Fields, Value, Kind, Digestible
<1>2. \A i \in 1 .. n : rows[i] \in TaxiRow /\ rows[i].PULocationID # Absent
  BY DEF TaxiRaises
<1>3. ParseTaxi(rows) = [i \in 1 .. n |-> Made1(rows[i])]
  BY DEF ParseTaxi
<1> HIDE DEF Made1
<1>4. ParseTaxi(rows) \in [1 .. n -> Fields]
  BY <1>1, <1>2, <1>3
<1>5. ParseTaxi(rows) \in Seq(Fields) /\ Len(ParseTaxi(rows)) = n
  BY <1>4, LenProperties, SeqDef
<1> QED
  BY <1>1, <1>2, <1>3, <1>5

LEMMA GeneratedRecordsGood ==
    ASSUME NEW record,
           \/ record \in KDDSynthetic
           \/ record \in TaxiSynthetic
           \/ record \in WeblogSynthetic
    PROVE  /\ record \in Fields /\ Digestible(record)
           /\ "inf" \notin {record.time.kind, record.region.kind}
<1>1. Absent \in Value
  BY DEF Absent, Value, Kind
<1>2. /\ Integer(ByteCounts) \subseteq Value /\ Integer(Hours) \subseteq Value
      /\ Integer(Boroughs) \subseteq Value /\ Text \subseteq Value
  <2>1. /\ ByteCounts \subseteq Int /\ Hours \subseteq Int
        /\ Boroughs \subseteq Int /\ Texts \subseteq Int
    BY DrawsAssumption
  <2> QED
    BY <2>1 DEF Integer, Text, Value, Kind
<1>3. /\ \A v \in Integer(ByteCounts) \cup Integer(Hours) \cup Integer(Boroughs) : v.kind = "int"
      /\ \A v \in Text : v.kind = "text"
  BY DEF Integer, Text
<1>4. CASE record \in KDDSynthetic
  BY <1>1, <1>2, <1>3, <1>4 DEF KDDSynthetic, Made, Fields, Digestible
<1>5. CASE record \in TaxiSynthetic
  BY <1>1, <1>2, <1>3, <1>5 DEF TaxiSynthetic, Made, Fields, Digestible
<1>6. CASE record \in WeblogSynthetic
  BY <1>1, <1>2, <1>3, <1>6 DEF WeblogSynthetic, Made, Fields, Digestible
<1> QED
  BY <1>4, <1>5, <1>6
-----------------------------------------------------------------------------
\* Which steps begin a batch.

LEMMA CallerStep ==
    ASSUME DataInv, WritesNext, origin' = IF batches' = batches THEN origin ELSE "caller"
    PROVE  DataInv'
<1>1. batches \in Nat
  BY MaxBatchesAssumption DEF DataInv, Control
<1>2. CASE BuildSystem
  <2>1. stage = "building" /\ UNCHANGED <<stage, updates, edited, drawn>>
    BY <1>2 DEF BuildSystem
  <2>2. ASSUME NEW n \in 0 .. MaxBatch, NEW records \in [1 .. n -> Record], Begin(records)
        PROVE  DataInv'
    <3>1. n \in Nat /\ n <= MaxBatch
      BY MaxBatchAssumption
    <3>2. records \in Seq(Fields) /\ Len(records) = n
      <4>1. records \in [1 .. n -> Fields]
        BY RecordAssumption
      <4> QED
        BY <3>1, <4>1, LenProperties, SeqDef
    <3>3. batches' # batches
      BY <1>1, <2>2 DEF Begin
    <3> QED
      BY <2>1, <2>2, <3>1, <3>2, <3>3, BeginStep
  <2>3. ASSUME Segment \/ SegmentRaises \/ Build \/ Store \/ Finish
        PROVE  DataInv'
    <3>1. batches' = batches
      BY <2>3 DEF Segment, SegmentRaises, Build, Store, Finish
    <3>2. UNCHANGED origin
      BY <3>1
    <3> QED
      BY <2>1, <2>3, <3>2, SegmentStep, RaiseStep, BuildStep, StoreStep, FinishStep
  <2> QED
    BY <1>2, <2>2, <2>3 DEF BuildSystem, Next
<1>3. CASE BeginUpdates
  <2>1. UNCHANGED origin
    BY <1>3 DEF BeginUpdates
  <2> QED
    BY <1>3, <2>1, BeginUpdatesStep
<1>4. ASSUME NEW key \in DOMAIN stored, UpdateInChunk(key) PROVE DataInv'
  <2>1. UNCHANGED origin
    BY <1>4 DEF UpdateInChunk, Update
  <2> QED
    BY <1>4, <2>1, InChunkStep
<1>5. ASSUME NEW key \in DOMAIN stored, Draw(key) PROVE DataInv'
  <2>1. UNCHANGED origin
    BY <1>5 DEF Draw
  <2> QED
    BY <1>5, <2>1, DrawStep
<1>6. CASE MoveAcross
  <2>1. UNCHANGED origin
    BY <1>6 DEF MoveAcross, Update
  <2> QED
    BY <1>6, <2>1, MoveStep
<1> QED
  BY <1>2, <1>3, <1>4, <1>5, <1>6 DEF WritesNext

LEMMA LoaderStep ==
    ASSUME DataInv, NEW records \in Seq(Fields), Len(records) <= MaxBatch,
           NEW from, from # "caller", Ingests(records, from),
           \A r \in 1 .. Len(records) :
               /\ Digestible(records[r])
               /\ from # "kdd-file" => "inf" \notin {records[r].time.kind, records[r].region.kind}
    PROVE  DataInv'
  BY BeginStep DEF Ingests

LEMMA LoadKDDStep ==
    ASSUME DataInv, NEW n \in Nat, NEW lines \in [1 .. n -> Line], LoadKDD(lines)
    PROVE  DataInv'
<1>1. ParseKDD(lines) \in Seq(KDDPart) /\ Len(ParseKDD(lines)) <= MaxBatch
  BY ParsedLines
<1> DEFINE records == ParseKDD(lines)
<1> HIDE DEF records
<1>2. records \in Seq(KDDPart) /\ Len(records) <= MaxBatch
  BY <1>1 DEF records
<1>3. records \in Seq(Fields) /\ \A r \in 1 .. Len(records) : Digestible(records[r])
  <2>1. \A r \in 1 .. Len(records) : records[r] \in KDDPart
    BY <1>2, ElementOfSeq
  <2> QED
    BY <1>2, <2>1 DEF KDDPart
<1>4. Ingests(records, "kdd-file")
  BY DEF LoadKDD, records
<1> QED
  BY <1>2, <1>3, <1>4, LoaderStep

LEMMA LoadTaxiStep ==
    ASSUME DataInv, NEW n \in 0 .. MaxBatch, NEW rows \in [1 .. n -> TaxiRow], LoadTaxi(rows)
    PROVE  DataInv'
<1>1. n \in Nat /\ n <= MaxBatch
  BY MaxBatchAssumption
<1> DEFINE records == ParseTaxi(rows)
<1>2. ~TaxiRaises(rows) /\ Ingests(records, "taxi-file")
  BY DEF LoadTaxi
<1>3. /\ records \in Seq(Fields) /\ Len(records) = n
      /\ \A i \in 1 .. n :
            Digestible(records[i]) /\ "inf" \notin {records[i].time.kind, records[i].region.kind}
  BY <1>1, <1>2, TaxiRecordsGood
<1> HIDE DEF records
<1> QED
  BY <1>1, <1>2, <1>3, LoaderStep

LEMMA GenerateStep ==
    ASSUME DataInv, GenerateKDD \/ GenerateTaxi \/ GenerateWeblog
    PROVE  DataInv'
<1>1. PICK makes \in {KDDSynthetic, TaxiSynthetic, WeblogSynthetic} : Generates(makes)
  BY DEF GenerateKDD, GenerateTaxi, GenerateWeblog
<1>2. PICK records \in [1 .. MaxBatch -> makes] : Ingests(records, "generator")
  BY <1>1 DEF Generates
<1>3. \A record \in makes :
         /\ record \in Fields /\ Digestible(record)
         /\ "inf" \notin {record.time.kind, record.region.kind}
  BY <1>1, GeneratedRecordsGood
<1>4. records \in Seq(Fields) /\ Len(records) = MaxBatch
  <2>1. records \in [1 .. MaxBatch -> Fields]
    BY <1>3
  <2> QED
    BY <2>1, LenProperties, SeqDef, MaxBatchAssumption
<1>5. \A r \in 1 .. Len(records) :
         Digestible(records[r]) /\ "inf" \notin {records[r].time.kind, records[r].region.kind}
  BY <1>3, <1>4
<1> QED
  BY <1>2, <1>4, <1>5, LoaderStep, MaxBatchAssumption

LEMMA DataStep == DataInv /\ [LoadersNext]_loadersVars => DataInv'
<1> SUFFICES ASSUME DataInv, [LoadersNext]_loadersVars PROVE DataInv'
  OBVIOUS
<1>1. CASE UNCHANGED loadersVars
  <2>1. /\ UNCHANGED <<recipe, batch, next, chunks, next_id, index, stored, phase, batches>>
        /\ UNCHANGED <<stage, drawn, origin>>
    BY <1>1 DEF loadersVars, writesVars, vars
  <2>2. Segmented' = Segmented
    BY <2>1 DEF Segmented
  <2>3. Control' /\ Following' /\ Updating'
    BY <2>1 DEF DataInv, Control, Following, Updating
  <2> QED
    BY <2>1, <2>2, <2>3, SameChunks, SameLoad DEF DataInv
<1>2. CASE WritesNext /\ origin' = IF batches' = batches THEN origin ELSE "caller"
  BY <1>2, CallerStep
<1>3. ASSUME NEW n \in 0 .. MaxBatch + 1, NEW lines \in [1 .. n -> Line], LoadKDD(lines)
      PROVE  DataInv'
  BY <1>3, LoadKDDStep, MaxBatchAssumption
<1>4. ASSUME NEW n \in 0 .. MaxBatch, NEW rows \in [1 .. n -> TaxiRow], LoadTaxi(rows)
      PROVE  DataInv'
  BY <1>4, LoadTaxiStep
<1>5. CASE GenerateKDD \/ GenerateTaxi \/ GenerateWeblog
  BY <1>5, GenerateStep
<1> QED
  BY <1>1, <1>2, <1>3, <1>4, <1>5 DEF LoadersNext

LEMMA DataInvariant == LoadersSpec => []DataInv
  BY DataStarts, DataStep, PTL DEF LoadersSpec
-----------------------------------------------------------------------------
LEMMA TypesFollow == DataInv => TypeOK
<1> SUFFICES ASSUME DataInv PROVE TypeOK
  OBVIOUS
<1>1. Partitioned(chunks, KeyOf, Segmented)
  BY DEF DataInv, Grouped
<1>2. \A r \in 1 .. Len(batch) : batch[r] \in Fields /\ KeyOf[r] = KeyFun[batch[r]]
  BY Sizes, ElementOfSeq DEF KeyOf
<1>3. \A r \in 1 .. Len(batch) : KeyOf[r] = Extract(batch[r])
  BY <1>2 DEF KeyFun
<1>4. 1 .. Segmented \subseteq 1 .. Len(batch)
  BY Sizes
<1>5. Keys(chunks) = {Extract(batch[i]) : i \in 1 .. Segmented}
  <2>1. Keys(chunks) = {KeyOf[i] : i \in 1 .. Segmented}
    BY <1>1 DEF Partitioned
  <2> QED
    BY <1>3, <1>4, <2>1
<1>6. ASSUME NEW i \in DOMAIN chunks
      PROVE  /\ chunks[i].key[1] \in 0 .. 23
             /\ recipe = "kdd" => chunks[i].key[2] \in 0 .. 7
             /\ chunks[i].region = chunks[i].key[2]
  <2>1. PICK r \in 1 .. Segmented : chunks[i].key = KeyOf[r]
    <3>1. chunks[i].key \in Keys(chunks)
      BY DEF Keys
    <3> QED
      BY <1>1, <3>1 DEF Partitioned
  <2>2. r \in 1 .. Len(batch)
    BY <1>4
  <2>3. chunks[i].region = chunks[i].key[2]
    BY <1>1, Sizes DEF Partitioned
  <2>4. batch[r] \in Fields /\ chunks[i].key = KeyFun[batch[r]] /\ recipe \in Recipe
    BY <1>2, <2>1, <2>2 DEF DataInv, Control
  <2>5. /\ KeyFun[batch[r]][1] \in 0 .. 23
        /\ recipe = "kdd" => KeyFun[batch[r]][2] \in 0 .. 7
    BY <2>4, KeyRanges
  <2> QED
    BY <2>3, <2>4, <2>5
<1> QED
  BY <1>5, <1>6 DEF TypeOK, DataInv, Control

LEMMA PartitionFollows == DataInv => RecordsPartitioned
<1> SUFFICES ASSUME DataInv PROVE RecordsPartitioned
  OBVIOUS
<1>1. Partitioned(chunks, KeyOf, Segmented) /\ next_id = Len(chunks)
  BY DEF DataInv, Grouped
<1>2. \A r \in 1 .. Len(batch) : KeyOf[r] = Extract(batch[r])
  <2>1. \A r \in 1 .. Len(batch) : batch[r] \in Fields /\ KeyOf[r] = KeyFun[batch[r]]
    BY Sizes, ElementOfSeq DEF KeyOf
  <2> QED
    BY <2>1 DEF KeyFun
<1>3. 1 .. Segmented \subseteq 1 .. Len(batch) /\ Segmented \in Nat
  BY Sizes
<1>4. ASSUME NEW i \in DOMAIN chunks
      PROVE  /\ ToSet(chunks[i].records) =
                   {r \in 1 .. Segmented : Extract(batch[r]) = chunks[i].key}
             /\ InOrder(chunks[i].records)
             /\ chunks[i].id = i - 1
  <2>1. /\ ToSet(chunks[i].records) = {r \in 1 .. Segmented : KeyOf[r] = chunks[i].key}
        /\ InOrder(chunks[i].records)
        /\ chunks[i].id = i - 1
    BY <1>1, Sizes DEF Partitioned
  <2> QED
    BY <1>2, <1>3, <2>1
<1>5. \A i, j \in DOMAIN chunks : chunks[i].key = chunks[j].key => i = j
  BY <1>1, Sizes DEF Partitioned
<1>6. Len(Reassemble(chunks)) = Segmented /\ ToSet(Reassemble(chunks)) = 1 .. Segmented
  BY <1>1, <1>3, ReassembleAll
<1> QED
  BY <1>1, <1>4, <1>5, <1>6 DEF RecordsPartitioned

LEMMA IndexFollows == DataInv => IndexMatchesStore
<1> SUFFICES ASSUME DataInv, phase = "done", batches > 0
             PROVE  /\ DOMAIN index = Keys(chunks)
                    /\ \A key \in DOMAIN index :
                          /\ Len(index[key]) = 1
                          /\ stored[key] =
                                Blob(batches, chunks[ChunkOf(chunks, key)].records)
                    /\ \A j, k \in DOMAIN index : index[j] = index[k] => j = k
  BY DEF IndexMatchesStore
<1>1. /\ Partitioned(chunks, KeyOf, Segmented) /\ index = ChunkIndex(chunks)
      /\ Kept(stored, chunks, batches, Len(chunks))
  BY DEF DataInv, Grouped, Following
<1>2. /\ DOMAIN index = Keys(chunks)
      /\ \A key \in Keys(chunks) : index[key] = <<chunks[ChunkOf(chunks, key)].id>>
  BY <1>1 DEF ChunkIndex
<1>3. \A key \in Keys(chunks) :
         /\ ChunkOf(chunks, key) \in 1 .. Len(chunks)
         /\ chunks[ChunkOf(chunks, key)].key = key
  <2> SUFFICES ASSUME NEW key \in Keys(chunks)
               PROVE  /\ ChunkOf(chunks, key) \in 1 .. Len(chunks)
                      /\ chunks[ChunkOf(chunks, key)].key = key
    OBVIOUS
  <2>1. chunks \in Seq(ChunkOver(ToSet(KeyOf)))
    BY <1>1 DEF Partitioned
  <2>2. /\ ChunkOf(chunks, key) \in 0 .. Len(chunks) /\ ChunkOf(chunks, key) # 0
        /\ chunks[ChunkOf(chunks, key)].key = key
    BY <2>1, ChunkOfKey
  <2> QED
    BY <2>2, Sizes
<1>4. \A i \in 1 .. Len(chunks) : chunks[i].id = i - 1
  BY <1>1 DEF Partitioned
<1>5. ASSUME NEW key \in DOMAIN index
      PROVE  /\ Len(index[key]) = 1
             /\ stored[key] = Blob(batches, chunks[ChunkOf(chunks, key)].records)
  <2> DEFINE i == ChunkOf(chunks, key)
  <2>1. i \in 1 .. Len(chunks) /\ chunks[i].key = key /\ index[key] = <<chunks[i].id>>
    BY <1>2, <1>3
  <2> HIDE DEF i
  <2>2. stored[chunks[i].key] = Blob(batches, chunks[i].records)
    BY <1>1, <2>1 DEF Kept
  <2>3. Len(index[key]) = 1
    BY <2>1
  <2> QED
    BY <2>1, <2>2, <2>3 DEF i
<1>6. ASSUME NEW j \in DOMAIN index, NEW k \in DOMAIN index, index[j] = index[k]
      PROVE  j = k
  <2>1. chunks[ChunkOf(chunks, j)].id = chunks[ChunkOf(chunks, k)].id
    BY <1>2, <1>6
  <2>2. ChunkOf(chunks, j) - 1 = ChunkOf(chunks, k) - 1
    BY <1>2, <1>3, <1>4, <2>1
  <2>3. ChunkOf(chunks, j) = ChunkOf(chunks, k)
    BY <1>2, <1>3, <2>2, Sizes
  <2> QED
    BY <1>2, <1>3, <2>3
<1> QED
  BY <1>2, <1>5, <1>6

LEMMA ConservationFollows == DataInv => UpdatesConserveRecords
<1> SUFFICES ASSUME DataInv, stage \in {"in-chunk", "cross-chunk"}
             PROVE  /\ \A r \in DOMAIN batch : Cardinality(Places(r)) = 1
                    /\ \A key \in DOMAIN stored : IsInjective(stored[key].records)
                    /\ DOMAIN index = DOMAIN stored
  BY DEF UpdatesConserveRecords
<1>1. /\ DOMAIN stored = Keys(chunks) /\ Spread(stored, 1 .. Len(batch))
  BY DEF DataInv, Updating
<1>2. batches > 0 /\ phase \in {"done", "moving"}
  BY DEF DataInv, Control
<1>3. index = ChunkIndex(chunks)
  BY <1>2 DEF DataInv, Following
<1>4. DOMAIN index = DOMAIN stored
  BY <1>1, <1>3 DEF ChunkIndex
<1>5. \A key \in DOMAIN stored : stored[key].records \in Distinct(1 .. Len(batch))
  BY <1>1 DEF Spread
<1>6. ASSUME NEW r \in DOMAIN batch PROVE Cardinality(Places(r)) = 1
  <2>1. r \in 1 .. Len(batch)
    BY Sizes
  <2>2. PICK home \in DOMAIN stored : r \in ToSet(stored[home].records)
    BY <1>1, <2>1 DEF Spread
  <2>3. \A key \in DOMAIN stored : r \in ToSet(stored[key].records) => key = home
    BY <1>1, <2>2 DEF Spread
  <2>4. \A key \in DOMAIN stored :
           Contains(stored[key].records, r) <=> r \in ToSet(stored[key].records)
    BY <1>5, LenProperties DEF Contains, ToSet, Distinct
  <2>5. Places(r) = {home}
    BY <2>2, <2>3, <2>4 DEF Places
  <2> QED
    BY <2>5, FS_Singleton
<1> QED
  BY <1>4, <1>5, <1>6 DEF Distinct

\* The variables of the data path have their types, for every set of records,
\* and the computed parts of every key stay in their ranges.
THEOREM DataTypes == LoadersSpec => []TypeOK
  BY DataInvariant, TypesFollow, PTL

\* segment puts every record in exactly one chunk, that of its key, in order,
\* and reassemble gives all of them back.
THEOREM DataPartitioned == LoadersSpec => []RecordsPartitioned
  BY DataInvariant, PartitionFollows, PTL

\* After an ingestion the index names exactly the chunks of the last batch and
\* the store holds them, whatever earlier batches have left.
THEOREM DataIndexed == LoadersSpec => []IndexMatchesStore
  BY DataInvariant, IndexFollows, PTL

\* No sequence of updates, in place or across chunks, loses or copies a record.
THEOREM DataConserved == LoadersSpec => []UpdatesConserveRecords
  BY DataInvariant, ConservationFollows, PTL

\* Of what the loaders produce, only an infinity in a KDD file stops segment.
THEOREM DataLoads == LoadersSpec => []LoadedRecordsIngest
<1>1. DataInv => LoadedRecordsIngest
  BY DEF DataInv, Loading
<1> QED
  BY <1>1, DataInvariant, PTL
-----------------------------------------------------------------------------
\* The replayer: what a generator has yielded is what it has read, and the
\* keys of all generators together are what rows_replayed counts.

USE IteratorAssumption, LimitAssumption, BoundAssumption

ReplayTypes ==
    /\ log \in Seq(Row)
    /\ Len(log) <= MaxLog
    /\ max_rows \in Nat \cup {None}
    /\ rows_replayed \in Nat
    /\ state \in [Iterator -> {"new", "open", "stopped", "FileNotFoundError"}]
    /\ at \in [Iterator -> Nat]
    /\ yielded \in [Iterator -> Seq(Nat)]
    /\ running \in Iterator \cup {None}

\* A generator has read a part of the log, and yielded the good rows of it.
Progress(i) ==
    /\ at[i] <= Len(log)
    /\ ToSet(yielded[i]) = {n \in 1 .. at[i] : log[n] = "good"}
    /\ InOrder(yielded[i])
    /\ max_rows # None => Len(yielded[i]) <= max_rows

\* The keys yielded so far, by generator and number.
Given == UNION {{i} \X DOMAIN yielded[i] : i \in Iterator}

ReplayInv ==
    /\ ReplayTypes
    /\ \A i \in Iterator : Progress(i)
    /\ IsFiniteSet(Given) /\ rows_replayed = Cardinality(Given)

LEMMA ReplayStarts == ReplayInit => ReplayInv
<1> SUFFICES ASSUME ReplayInit PROVE ReplayInv
  OBVIOUS
<1>1. log \in Seq(Row) /\ Len(log) \in Nat /\ Len(log) <= MaxLog
  <2>1. PICK n \in 0 .. MaxLog : log \in [1 .. n -> Row]
    BY DEF ReplayInit, BoundedSeq, SeqOf
  <2> QED
    BY <2>1, LenProperties, SeqDef
<1>2. ReplayTypes
  BY <1>1, EmptySeq DEF ReplayInit, ReplayTypes
<1>3. \A i \in Iterator : Progress(i)
  BY <1>1, EmptySeq DEF ReplayInit, Progress, ToSet, InOrder
<1>4. Given = {}
  BY EmptySeq DEF ReplayInit, Given
<1> QED
  BY <1>2, <1>3, <1>4, FS_EmptySet DEF ReplayInv, ReplayInit

\* A step that leaves the log and what has been yielded alone.
LEMMA NothingRead ==
    ASSUME ReplayInv, ReplayTypes', UNCHANGED <<log, max_rows, rows_replayed, at, yielded>>
    PROVE  ReplayInv'
<1>1. Given' = Given
  BY DEF Given
<1>2. \A i \in Iterator : Progress(i)'
  BY DEF ReplayInv, Progress, InOrder, ToSet
<1> QED
  BY <1>1, <1>2 DEF ReplayInv

\* A row that is dealt with and gives no key.
LEMMA RowSkipped ==
    ASSUME ReplayInv, ReplayTypes', NEW i \in Iterator,
           at[i] < Len(log), log[at[i] + 1] # "good",
           at' = [at EXCEPT ![i] = @ + 1],
           UNCHANGED <<log, max_rows, rows_replayed, yielded>>
    PROVE  ReplayInv'
<1>1. Given' = Given
  BY DEF Given
<1>2. Len(log) \in Nat /\ \A k \in Iterator : at[k] \in Nat
  BY LenProperties DEF ReplayInv, ReplayTypes
<1>3. ASSUME NEW k \in Iterator PROVE Progress(k)'
  <2>1. Progress(k)
    BY DEF ReplayInv
  <2>2. CASE k # i
    <3>1. at'[k] = at[k]
      BY <2>2 DEF ReplayInv, ReplayTypes
    <3> QED
      BY <2>1, <3>1 DEF Progress, InOrder, ToSet
  <2>3. CASE k = i
    <3>1. at'[k] = at[k] + 1
      BY <2>3 DEF ReplayInv, ReplayTypes
    <3>2. {n \in 1 .. at[k] + 1 : log[n] = "good"} = {n \in 1 .. at[k] : log[n] = "good"}
      BY <1>2, <2>3
    <3> QED
      BY <1>2, <2>1, <2>3, <3>1, <3>2 DEF Progress, InOrder, ToSet
  <2> QED
    BY <2>2, <2>3
<1> QED
  BY <1>1, <1>3 DEF ReplayInv

LEMMA RowGrown ==
    ASSUME ReplayInv, NEW row \in Row, Grow(row)
    PROVE  ReplayInv'
<1>1. /\ log \in Seq(Row) /\ Len(log) \in Nat /\ Len(log) < MaxLog
      /\ \A k \in Iterator : at[k] \in Nat
  BY LenProperties DEF ReplayInv, ReplayTypes, Grow
<1>2. /\ log' \in Seq(Row) /\ Len(log') = Len(log) + 1
      /\ \A n \in 1 .. Len(log) : log'[n] = log[n]
  BY <1>1, AppendProperties DEF Grow
<1>3. ReplayTypes'
  BY <1>1, <1>2 DEF ReplayInv, ReplayTypes, Grow
<1>4. Given' = Given
  BY DEF Given, Grow
<1>5. ASSUME NEW k \in Iterator PROVE Progress(k)'
  <2>1. Progress(k) /\ at[k] \in 0 .. Len(log)
    BY <1>1 DEF ReplayInv, Progress
  <2>2. {n \in 1 .. at[k] : log'[n] = "good"} = {n \in 1 .. at[k] : log[n] = "good"}
    BY <1>1, <1>2, <2>1
  <2> QED
    BY <1>1, <1>2, <2>1, <2>2 DEF Progress, InOrder, ToSet, Grow
<1> QED
  BY <1>3, <1>4, <1>5 DEF ReplayInv, Grow

LEMMA RowYielded ==
    ASSUME ReplayInv, NEW i \in Iterator, Yield(i)
    PROVE  ReplayInv'
<1> DEFINE old == yielded[i]
           new == Append(old, at[i] + 1)
<1>1. /\ log \in Seq(Row) /\ Len(log) \in Nat /\ old \in Seq(Nat) /\ Len(old) \in Nat
      /\ DOMAIN old = 1 .. Len(old)
      /\ \A k \in Iterator : at[k] \in Nat
      /\ at[i] < Len(log) /\ log[at[i] + 1] = "good"
      /\ Progress(i)
      /\ rows_replayed \in Nat
      /\ max_rows \in Nat \cup {None}
  BY LenProperties DEF ReplayInv, ReplayTypes, Yield, Reads
<1>2. max_rows # None => Len(old) < max_rows
  BY <1>1 DEF Yield, LimitReached
<1>3. /\ new \in Seq(Nat) /\ Len(new) = Len(old) + 1 /\ DOMAIN new = 1 .. Len(old) + 1
      /\ \A j \in 1 .. Len(old) : new[j] = old[j]
      /\ new[Len(old) + 1] = at[i] + 1
  BY <1>1, AppendProperties, LenProperties
<1>4. /\ at' = [at EXCEPT ![i] = @ + 1]
      /\ yielded' = [yielded EXCEPT ![i] = new]
      /\ rows_replayed' = rows_replayed + 1
      /\ running' = None
      /\ UNCHANGED <<log, exists, active, max_rows, state>>
  BY DEF Yield
<1> HIDE DEF new
<1>5. /\ at'[i] = at[i] + 1 /\ yielded'[i] = new
      /\ \A k \in Iterator : k # i => at'[k] = at[k] /\ yielded'[k] = yielded[k]
  BY <1>4 DEF ReplayInv, ReplayTypes
<1>6. ReplayTypes'
  BY <1>1, <1>3, <1>4 DEF ReplayInv, ReplayTypes
<1>7. ToSet(old) = {n \in 1 .. at[i] : log[n] = "good"} /\ InOrder(old)
  BY <1>1 DEF Progress
<1>8. ToSet(new) = ToSet(old) \cup {at[i] + 1}
  <2> HIDE DEF old
  <2>1. ASSUME NEW x \in ToSet(new) PROVE x \in ToSet(old) \cup {at[i] + 1}
    <3>1. PICK j \in 1 .. Len(old) + 1 : x = new[j]
      BY <1>3 DEF ToSet
    <3>2. j = Len(old) + 1 \/ (j \in 1 .. Len(old) /\ x = old[j])
      BY <1>1, <1>3, <3>1
    <3> QED
      BY <1>1, <1>3, <3>1, <3>2 DEF ToSet
  <2>2. ASSUME NEW j \in 1 .. Len(old) PROVE old[j] \in ToSet(new)
    <3>1. j \in 1 .. Len(old) + 1 /\ new[j] = old[j]
      BY <1>1, <1>3
    <3> QED
      BY <1>3, <3>1 DEF ToSet
  <2>3. at[i] + 1 \in ToSet(new)
    <3>1. Len(old) + 1 \in 1 .. Len(old) + 1
      BY <1>1
    <3> QED
      BY <1>3, <3>1 DEF ToSet
  <2> QED
    BY <1>1, <2>1, <2>2, <2>3 DEF ToSet
<1>9. InOrder(new)
  <2> HIDE DEF old
  <2> SUFFICES ASSUME NEW j \in 1 .. Len(old) + 1, NEW k \in 1 .. Len(old) + 1, j < k
               PROVE  new[j] < new[k]
    BY <1>3 DEF InOrder
  <2>1. CASE k <= Len(old)
    <3>1. j \in DOMAIN old /\ k \in DOMAIN old /\ new[j] = old[j] /\ new[k] = old[k]
      BY <1>1, <1>3, <2>1
    <3> QED
      BY <1>7, <3>1 DEF InOrder
  <2>2. CASE k > Len(old)
    <3>1. j \in 1 .. Len(old) /\ k = Len(old) + 1
      BY <1>1, <2>2
    <3>2. old[j] \in ToSet(old)
      BY <1>1, <3>1 DEF ToSet
    <3>3. old[j] \in 1 .. at[i]
      BY <1>7, <3>2
    <3> QED
      BY <1>1, <1>3, <3>1, <3>3
  <2> QED
    BY <1>1, <2>1, <2>2
<1>10. Progress(i)'
  <2>1. {n \in 1 .. at[i] + 1 : log[n] = "good"} =
        {n \in 1 .. at[i] : log[n] = "good"} \cup {at[i] + 1}
    BY <1>1
  <2>2. ToSet(new) = {n \in 1 .. at'[i] : log'[n] = "good"}
    BY <1>4, <1>5, <1>7, <1>8, <2>1
  <2>3. at'[i] <= Len(log')
    BY <1>1, <1>4, <1>5
  <2>4. max_rows' # None => Len(new) <= max_rows'
    BY <1>1, <1>2, <1>3, <1>4
  <2>5. ToSet(yielded[i])' = ToSet(new) /\ InOrder(yielded[i])' = InOrder(new)
    BY <1>5 DEF ToSet, InOrder
  <2> QED
    BY <1>5, <1>9, <2>2, <2>3, <2>4, <2>5 DEF Progress
<1>11. \A k \in Iterator : Progress(k)'
  <2>1. ASSUME NEW k \in Iterator, k # i PROVE Progress(k)'
    BY <1>4, <1>5, <2>1 DEF ReplayInv, Progress, InOrder, ToSet
  <2> QED
    BY <1>10, <2>1
<1>12. Given' = Given \cup {<<i, Len(old) + 1>>} /\ <<i, Len(old) + 1>> \notin Given
  <2>1. 1 .. Len(old) + 1 = (1 .. Len(old)) \cup {Len(old) + 1}
    BY <1>1
  <2>2. DOMAIN yielded'[i] = DOMAIN old \cup {Len(old) + 1} /\ Len(old) + 1 \notin DOMAIN old
    BY <1>1, <1>3, <1>5, <2>1
  <2>3. \A k \in Iterator : k # i => DOMAIN yielded'[k] = DOMAIN yielded[k]
    BY <1>5
  <2> QED
    BY <2>2, <2>3 DEF Given
<1>13. IsFiniteSet(Given') /\ Cardinality(Given') = Cardinality(Given) + 1
  BY <1>12, FS_AddElement DEF ReplayInv
<1> QED
  BY <1>4, <1>6, <1>11, <1>13 DEF ReplayInv

LEMMA ReplayStep == ReplayInv /\ [ReplayNext]_replayVars => ReplayInv'
<1> SUFFICES ASSUME ReplayInv, [ReplayNext]_replayVars PROVE ReplayInv'
  OBVIOUS
<1>1. ASSUME NEW i \in Iterator, OpenLog(i) PROVE ReplayInv'
  <2>1. ReplayTypes'
    BY <1>1 DEF ReplayInv, ReplayTypes, OpenLog, Goto
  <2> QED
    BY <1>1, <2>1, NothingRead DEF OpenLog
<1>2. ASSUME NEW i \in Iterator, SkipBlank(i) PROVE ReplayInv'
  <2>1. ReplayTypes'
    BY <1>2 DEF ReplayInv, ReplayTypes, SkipBlank
  <2> QED
    BY <1>2, <2>1, RowSkipped DEF SkipBlank, Reads
<1>3. ASSUME NEW i \in Iterator, StopAtLimit(i) PROVE ReplayInv'
  <2>1. ReplayTypes'
    BY <1>3 DEF ReplayInv, ReplayTypes, StopAtLimit, Goto
  <2> QED
    BY <1>3, <2>1, NothingRead DEF StopAtLimit
<1>4. ASSUME NEW i \in Iterator, SkipOdd(i) PROVE ReplayInv'
  <2>1. ReplayTypes'
    BY <1>4 DEF ReplayInv, ReplayTypes, SkipOdd
  <2> QED
    BY <1>4, <2>1, RowSkipped DEF SkipOdd, Reads
<1>5. ASSUME NEW i \in Iterator, Yield(i) PROVE ReplayInv'
  BY <1>5, RowYielded
<1>6. ASSUME NEW i \in Iterator, EndOfLog(i) PROVE ReplayInv'
  <2>1. ReplayTypes'
    BY <1>6 DEF ReplayInv, ReplayTypes, EndOfLog, Goto
  <2> QED
    BY <1>6, <2>1, NothingRead DEF EndOfLog
<1>7. ASSUME NEW row \in Row, Grow(row) PROVE ReplayInv'
  BY <1>7, RowGrown
<1>8. CASE RemoveLog
  <2>1. ReplayTypes'
    BY <1>8 DEF ReplayInv, ReplayTypes, RemoveLog
  <2> QED
    BY <1>8, <2>1, NothingRead DEF RemoveLog
<1>9. CASE UNCHANGED replayVars
  <2>1. ReplayTypes'
    BY <1>9 DEF ReplayInv, ReplayTypes, replayVars
  <2> QED
    BY <1>9, <2>1, NothingRead DEF replayVars
<1> QED
  BY <1>1, <1>2, <1>3, <1>4, <1>5, <1>6, <1>7, <1>8, <1>9 DEF ReplayNext

LEMMA ReplayInvariant == ReplaySpec => []ReplayInv
  BY ReplayStarts, ReplayStep, PTL DEF ReplaySpec

LEMMA AccountsFollow == ReplayInv => EveryRowAccounted
  BY DEF ReplayInv, Progress, InOrder, Given, EveryRowAccounted

\* However many replays alternate over one log, and wherever it grows or is
\* removed, each has yielded exactly the good rows it has read, in order and
\* within its limit, and rows_replayed is the number of keys of all of them.
THEOREM ReplayAccounts == ReplaySpec => []EveryRowAccounted
  BY ReplayInvariant, AccountsFollow, PTL

StopReason ==
    \A i \in Iterator :
        state[i] = "open" /\ state'[i] = "stopped" =>
            Len(yielded[i]) = max_rows \/ at[i] = Len(log)

LEMMA StopHasReason == ReplayInv /\ [ReplayNext]_replayVars => [StopReason]_replayVars
<1> SUFFICES ASSUME ReplayInv, ReplayNext, NEW i \in Iterator,
                    state[i] = "open", state'[i] = "stopped",
                    at[i] # Len(log)
             PROVE  Len(yielded[i]) = max_rows
  BY DEF StopReason
<1>1. /\ state \in [Iterator -> {"new", "open", "stopped", "FileNotFoundError"}]
      /\ Len(yielded[i]) \in Nat
      /\ max_rows # None => max_rows \in Nat /\ Len(yielded[i]) <= max_rows
  BY LenProperties DEF ReplayInv, ReplayTypes, Progress
<1>2. StopAtLimit(i)
  <2>1. \A k \in Iterator : ~OpenLog(k) \/ k # i
    BY DEF OpenLog
  <2>2. ASSUME NEW k \in Iterator,
               OpenLog(k) \/ StopAtLimit(k) \/ EndOfLog(k), k # i
        PROVE  FALSE
    <3>1. PICK where : state' = [state EXCEPT ![k] = where]
      BY <2>2 DEF OpenLog, StopAtLimit, EndOfLog, Goto
    <3> QED
      BY <1>1, <2>2, <3>1
  <2>3. \A k \in Iterator : ~SkipBlank(k) /\ ~SkipOdd(k) /\ ~Yield(k)
    BY DEF SkipBlank, SkipOdd, Yield
  <2>4. ~EndOfLog(i)
    BY DEF EndOfLog
  <2>5. (\A row \in Row : ~Grow(row)) /\ ~RemoveLog
    BY DEF Grow, RemoveLog
  <2> QED
    BY <2>1, <2>2, <2>3, <2>4, <2>5 DEF ReplayNext
<1> QED
  BY <1>1, <1>2 DEF StopAtLimit, LimitReached

\* No generator ends before the end of the log or its own limit, whatever
\* the other generators have yielded.
THEOREM ReplayStopsForAReason == ReplaySpec => StopsForAReason
<1>1. ReplayInv /\ [ReplayNext]_replayVars => [StopReason]_replayVars
  BY StopHasReason
<1>2. StopsForAReason <=> [][StopReason]_replayVars
  BY DEF StopsForAReason, StopReason
<1> QED
  BY <1>1, <1>2, ReplayInvariant, PTL DEF ReplaySpec
=============================================================================
