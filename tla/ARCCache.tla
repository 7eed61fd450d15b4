----------------------------- MODULE ARCCache ------------------------------
(***************************************************************************)
(* class ARCCache of core/cache.py: two resident lists T1 and T2, two      *)
(* ghost lists B1 and B2 that remember evicted keys, and the target size p *)
(* of T1 that ghost hits move.  The lists run from least to most recently  *)
(* used.  Unlike the published algorithm, eviction here skips pinned keys. *)
(***************************************************************************)
EXTENDS Integers, SequencesExt

CONSTANTS
    Key,         \* chunk keys
    Capacity     \* self.capacity, which the class also calls self.c

ASSUME CapacityAssumption == Capacity \in Nat \ {0}
ASSUME KeyAssumption == IsFiniteSet(Key)

VARIABLES
    t1, t2,      \* resident: seen once, seen at least twice
    b1, b2,      \* ghosts of t1 and of t2
    p,           \* target length of t1
    regions,     \* keys of self._region, which no operation ever removes
    hits, misses, pinned,
    outcome      \* what the last call returned or raised

vars == <<t1, t2, b1, b2, p, regions, hits, misses, pinned, outcome>>

Directory(once, twice, ghosts1, ghosts2) ==
    [t1 |-> once, t2 |-> twice, b1 |-> ghosts1, b2 |-> ghosts2]

Lists == Directory(t1, t2, b1, b2)

Become(lists) ==
    /\ t1' = lists.t1
    /\ t2' = lists.t2
    /\ b1' = lists.b1
    /\ b2' = lists.b2

Resident == ToSet(t1) \cup ToSet(t2)
Ghosts == ToSet(b1) \cup ToSet(b2)

Without(s, key) == RemoveAt(s, CHOOSE i \in DOMAIN s : s[i] = key)

\* _pop_lru_unpinned: the first key of the list that is not pinned; 0 if none.
OldestMutant(s) == IF s = <<>> THEN 0 ELSE 1
Oldest(s) == SelectInSeq(s, LAMBDA key : key \notin pinned)
-----------------------------------------------------------------------------
EvictT1(lists) ==
    LET i == Oldest(lists.t1)
    IN  Directory(RemoveAt(lists.t1, i), lists.t2, Append(lists.b1, lists.t1[i]), lists.b2)

EvictT2(lists) ==
    LET i == Oldest(lists.t2)
    IN  Directory(lists.t1, RemoveAt(lists.t2, i), lists.b1, Append(lists.b2, lists.t2[i]))

BelowTargetMutant(lists, target, incoming) ==
    /\ lists.t1 # <<>>
    /\ \/ Len(lists.t1) < target
       \/ Contains(lists.b2, incoming) /\ Len(lists.t1) = target

PreferT1(lists, target, incoming) ==
    /\ lists.t1 # <<>>
    /\ \/ Len(lists.t1) > target
       \/ Contains(lists.b2, incoming) /\ Len(lists.t1) = target

CanEvict(lists) == Oldest(lists.t1) # 0 \/ Oldest(lists.t2) # 0

\* _replace: the preferred list gives up its oldest unpinned key, or the
\* other list when all of the preferred one is pinned.
Replaced(lists, target, incoming) ==
    IF PreferT1(lists, target, incoming)
    THEN IF Oldest(lists.t1) # 0 THEN EvictT1(lists) ELSE EvictT2(lists)
    ELSE IF Oldest(lists.t2) # 0 THEN EvictT2(lists) ELSE EvictT1(lists)
-----------------------------------------------------------------------------
Init ==
    /\ t1 = <<>> /\ t2 = <<>> /\ b1 = <<>> /\ b2 = <<>>
    /\ p = 0
    /\ regions = {}
    /\ hits = 0 /\ misses = 0
    /\ pinned = {}
    /\ outcome = "new"

GetT1(key) ==
    /\ Contains(t1, key)
    /\ t1' = Without(t1, key)
    /\ t2' = Append(t2, key)
    /\ hits' = hits + 1
    /\ outcome' = "hit"
    /\ UNCHANGED <<b1, b2, p, regions, misses, pinned>>

GetT2(key) ==
    /\ Contains(t2, key)
    /\ t2' = Append(Without(t2, key), key)
    /\ hits' = hits + 1
    /\ outcome' = "hit"
    /\ UNCHANGED <<t1, b1, b2, p, regions, misses, pinned>>

GetMiss(key) ==
    /\ key \notin Resident
    /\ misses' = misses + 1
    /\ outcome' = "miss"
    /\ UNCHANGED <<t1, t2, b1, b2, p, regions, hits, pinned>>

\* put remembers the region, if one is given, before anything can fail.
Remember(key) ==
    /\ regions' \in {regions, regions \cup {key}}
    /\ UNCHANGED <<hits, misses, pinned>>

KeepInT1Mutant(key) ==
    /\ key \in Resident
    /\ Remember(key)
    /\ t2' = Append(IF Contains(t2, key) THEN Without(t2, key) ELSE t2, key)
    /\ outcome' = "done"
    /\ UNCHANGED <<t1, b1, b2, p>>

PutResident(key) ==
    /\ key \in Resident
    /\ Remember(key)
    /\ t1' = IF Contains(t1, key) THEN Without(t1, key) ELSE t1
    /\ t2' = Append(IF Contains(t2, key) THEN Without(t2, key) ELSE t2, key)
    /\ outcome' = "done"
    /\ UNCHANGED <<b1, b2, p>>

\* A raise leaves the lists as they were when _replace was called.
Raise(lists, exception) == Become(lists) /\ outcome' = exception

\* Case II: the key was evicted from T1 too early, so T1 gets a larger share.
\* p has moved even if _replace then raises.
PutGhostB1(key) ==
    /\ Contains(b1, key)
    /\ Remember(key)
    /\ p' = Min({Capacity, p + Max({1, Len(b2) \div Max({1, Len(b1)})})})
    /\ IF CanEvict(Lists)
       THEN LET lists == Replaced(Lists, p', key)
            IN  /\ Become(Directory(lists.t1, Append(lists.t2, key),
                                    Without(lists.b1, key), lists.b2))
                /\ outcome' = "done"
       ELSE Raise(Lists, "RuntimeError")

\* Case III: the mirror image.
PutGhostB2(key) ==
    /\ Contains(b2, key)
    /\ Remember(key)
    /\ p' = Max({0, p - Max({1, Len(b1) \div Max({1, Len(b2)})})})
    /\ IF CanEvict(Lists)
       THEN LET lists == Replaced(Lists, p', key)
            IN  /\ Become(Directory(lists.t1, Append(lists.t2, key),
                                    lists.b1, Without(lists.b2, key)))
                /\ outcome' = "done"
       ELSE Raise(Lists, "RuntimeError")

L1 == Len(t1) + Len(b1)
Total == Len(t1) + Len(t2) + Len(b1) + Len(b2)

\* Make room with _replace in lists that may already have lost a ghost.
ReplaceThenInsert(lists, key) ==
    IF CanEvict(lists)
    THEN LET after == Replaced(lists, p, key)
         IN  /\ Become(Directory(Append(after.t1, key), after.t2, after.b1, after.b2))
             /\ outcome' = "done"
    ELSE Raise(lists, "RuntimeError")

\* popitem of an empty list raises KeyError.
DropGhost(key, list, rest) ==
    IF list = <<>>
    THEN Raise(Lists, "KeyError")
    ELSE ReplaceThenInsert(rest, key)

IsNew(key) == key \notin Resident \cup Ghosts

\* Case IV with T1 and B1 together at the capacity, B1 not empty.
PutNewFullL1(key) ==
    /\ L1 = Capacity /\ Len(t1) < Capacity
    /\ DropGhost(key, b1, Directory(t1, t2, Tail(b1), b2))

\* Case IV with T1 alone at the capacity: the victim leaves no ghost.
PutNewFullT1(key) ==
    /\ L1 = Capacity /\ Len(t1) >= Capacity
    /\ IF Oldest(t1) # 0
       THEN /\ Become(Directory(Append(RemoveAt(t1, Oldest(t1)), key), t2, b1, b2))
            /\ outcome' = "done"
       ELSE Raise(Lists, "RuntimeError")

KeepGhostMutant(key) ==
    /\ L1 # Capacity
    /\ IF Total >= Capacity
       THEN ReplaceThenInsert(Lists, key)
       ELSE Become(Directory(Append(t1, key), t2, b1, b2)) /\ outcome' = "done"

EarlyReplaceMutant(key) ==
    /\ L1 # Capacity
    /\ IF Total + 1 >= Capacity /\ CanEvict(Lists)
       THEN ReplaceThenInsert(Lists, key)
       ELSE Become(Directory(Append(t1, key), t2, b1, b2)) /\ outcome' = "done"

\* Case IV otherwise.
PutNewOther(key) ==
    /\ L1 # Capacity
    /\ IF Total >= Capacity
       THEN IF Total = 2 * Capacity
            THEN DropGhost(key, b2, Directory(t1, t2, b1, Tail(b2)))
            ELSE ReplaceThenInsert(Lists, key)
       ELSE Become(Directory(Append(t1, key), t2, b1, b2)) /\ outcome' = "done"

PutNew(key) ==
    /\ IsNew(key)
    /\ Remember(key)
    /\ PutNewFullL1(key) \/ PutNewFullT1(key) \/ PutNewOther(key)
    /\ UNCHANGED p

Get(key) == GetT1(key) \/ GetT2(key) \/ GetMiss(key)
Put(key) == PutResident(key) \/ PutGhostB1(key) \/ PutGhostB2(key) \/ PutNew(key)

Pin(key) ==
    /\ pinned' = pinned \cup {key}
    /\ outcome' = "done"
    /\ UNCHANGED <<t1, t2, b1, b2, p, regions, hits, misses>>

Unpin(key) ==
    /\ pinned' = pinned \ {key}
    /\ outcome' = "done"
    /\ UNCHANGED <<t1, t2, b1, b2, p, regions, hits, misses>>

Next == \E key \in Key : Get(key) \/ Put(key) \/ Pin(key) \/ Unpin(key)

Spec == Init /\ [][Next]_vars
-----------------------------------------------------------------------------
(* Types; a key is in at most one of the four lists, and once; p stays      *)
(* between 0 and the capacity.                                              *)
TypeOK ==
    /\ \A s \in {t1, t2, b1, b2} : s \in Seq(Key)
    /\ IsInjective(t1 \o t2 \o b1 \o b2)
    /\ p \in 0 .. Capacity
    /\ regions \subseteq Key
    /\ pinned \subseteq Key
    /\ hits \in Nat /\ misses \in Nat
    /\ outcome \in {"new", "hit", "miss", "done", "RuntimeError", "KeyError"}

(* The bounds of the published algorithm survive pinning and refused puts:  *)
(* T1 and B1 together never exceed c, all four lists never exceed 2c.  The  *)
(* code tests l1 == c and total == 2c with equality, so one step past       *)
(* either bound would never be noticed again.                               *)
DirectoryBounded == L1 <= Capacity /\ Total <= 2 * Capacity

(* A ghost exists only while the cache is full.  A ghost hit always evicts, *)
(* without comparing the size with the capacity: this is what makes that    *)
(* safe, and what keeps "cache full and all frames pinned" true when it is  *)
(* raised.                                                                  *)
GhostsOnlyWhenFull == Ghosts # {} => Len(t1) + Len(t2) = Capacity

(* A scan of new keys does not touch the frequent list while T1 exceeds its *)
(* target and has something to give.                                        *)
ScanSparesT2 ==
    [][\A key \in Key :
          IsNew(key) /\ Len(t1) > p /\ Oldest(t1) # 0 /\ Contains(t1', key)
          => t2' = t2]_vars

Abstract == INSTANCE CachePolicy WITH resident <- Resident, Door <- FALSE

(* ARC keeps the interface: at most Capacity keys, pinned keys stay, a hit  *)
(* exactly on resident keys, RuntimeError only when full of pinned keys and *)
(* never a KeyError from an empty ghost list.                               *)
ImplementsPolicy == Abstract!Spec
=============================================================================
