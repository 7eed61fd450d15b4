----------------------------- MODULE CacheBench -----------------------------
(***************************************************************************)
(* One trial of benchmarks/bench_baseline_cache.py and bench_cache.py:     *)
(* every policy is filled from, and then replays, the same query list.     *)
(* The code runs the policies one after another, each with a generator     *)
(* seeded alike; the module runs them side by side.  The caches of         *)
(* core/cache.py stand behind CachePolicy; _RefLRU and _RefLFU are modelled *)
(* in full, cachetools.LRUCache as the adapter uses it.  Query regions     *)
(* only reach the score of SCADS (module FrameCache) and are left out; so  *)
(* are the regions that the adapter stores, which kdd_extractor makes      *)
(* integers, so that "is not None" means "is there".                       *)
(***************************************************************************)
EXTENDS Integers, SequencesExt, Functions

CONSTANTS
    Key,          \* keys of the segmented data set
    Capacity,     \* one of CAPACITIES
    QueryCount    \* bound: N_QUERIES, 500 in the code

ASSUME KeyAssumption == IsFiniteSet(Key) /\ Key # {}
ASSUME CapacityAssumption == Capacity \in Nat \ {0}
ASSUME QueryCountAssumption == QueryCount \in Nat \ {0}

VARIABLES
    queries,                            \* the trial's query list
    phase,                              \* "fill", "get", "put" or "done"
    pos,                                \* position in queries
    seen,                               \* keys put while filling
    resident, hits, misses, outcome,    \* a cache of core/cache.py
    od,                                 \* _RefLRU: keys, least recent first
    order, freq,                        \* _RefLFU: _order and _freq
    ct,                                 \* cachetools.LRUCache: keys, least recent first
    hit_count,                          \* _run_adapter's local, of the other policies
    answer                              \* what the others' last get or put did

coreVars == <<resident, hits, misses, outcome>>
benchVars == <<queries, phase, pos, seen, coreVars, od, order, freq, ct, hit_count, answer>>

Policy == {"reference_LRU", "reference_LFU", "cachetools.LRU"}

\* The benchmark pins nothing.
Core == INSTANCE CachePolicy WITH pinned <- {}, Door <- TRUE

Without(keys, key) ==
    IF Contains(keys, key)
    THEN RemoveAt(keys, CHOOSE i \in DOMAIN keys : keys[i] = key)
    ELSE keys

\* A key goes to the end of the OrderedDict when it is inserted and when used.
Touch(keys, key) == Append(Without(keys, key), key)
-----------------------------------------------------------------------------
PopNewestMutant(keys, key) ==
    LET inserted == Touch(keys, key)
    IN  IF Len(inserted) > Capacity THEN Front(inserted) ELSE inserted

\* _RefLRU.put inserts first and pops the oldest if there is one too many.
RefLRUPut(keys, key) ==
    LET inserted == Touch(keys, key)
    IN  IF Len(inserted) > Capacity THEN Tail(inserted) ELSE inserted

\* cachetools makes room before it inserts.
CachetoolsPut(keys, key) ==
    IF Contains(keys, key) \/ Len(keys) < Capacity
    THEN Touch(keys, key)
    ELSE Append(Tail(keys), key)

NoTouchMutant(keys, key) == keys

\* move_to_end in _RefLRU.get, and what a read does in cachetools.
LRUGet(keys, key) == IF Contains(keys, key) THEN Touch(keys, key) ELSE keys

\* _RefLFU's victim: the least used, then the one inserted first.
RefLFUVictim ==
    CHOOSE i \in DOMAIN order :
        \A j \in DOMAIN order :
            \/ freq[order[i]] < freq[order[j]]
            \/ freq[order[i]] = freq[order[j]] /\ i <= j

\* A use of a resident key counts; a new key starts at zero and a victim, if there
\* was no room, loses its count.
Used(key) ==
    /\ freq' = [freq EXCEPT ![key] = @ + 1]
    /\ UNCHANGED order

Admit(keys, key) ==
    /\ order' = Append(keys, key)
    /\ freq' = [k \in ToSet(keys) \cup {key} |-> IF k = key THEN 0 ELSE freq[k]]

LateEvictionMutant(key) ==
    IF Contains(order, key)
    THEN Used(key)
    ELSE Admit(IF Len(order) > Capacity THEN RemoveAt(order, RefLFUVictim) ELSE order, key)

RefLFUPut(key) ==
    IF Contains(order, key)
    THEN Used(key)
    ELSE Admit(IF Len(order) >= Capacity THEN RemoveAt(order, RefLFUVictim) ELSE order, key)

RefLFUGet(key) ==
    IF Contains(order, key) THEN Used(key) ELSE UNCHANGED <<order, freq>>
-----------------------------------------------------------------------------
Holds(policy) ==
    ToSet(CASE policy = "reference_LRU" -> od
            [] policy = "reference_LFU" -> order
            [] policy = "cachetools.LRU" -> ct)

\* Any list of QueryCount keys: each generator of workloads.py (zipf, burst,
\* temporal, uniform) draws one of them.
QueryLists == [1..QueryCount -> Key]

BenchInit ==
    /\ queries \in QueryLists
    /\ phase = "fill"
    /\ pos = 1
    /\ seen = <<>>
    /\ Core!Init
    /\ od = <<>>
    /\ order = <<>>
    /\ freq = [k \in {} |-> 0]
    /\ ct = <<>>
    /\ hit_count = [policy \in Policy |-> 0]
    /\ answer = [policy \in Policy |-> "new"]

LateBreakMutant ==
    IF Len(seen') > Capacity \/ pos = QueryCount
    THEN phase' = "get" /\ pos' = 1
    ELSE phase' = "fill" /\ pos' = pos + 1

\* for key, _ in queries, of the fill loop: the test that ends it comes after
\* the put, for a repeated key as well.
FillNext ==
    IF Len(seen') >= Capacity \/ pos = QueryCount
    THEN phase' = "get" /\ pos' = 1
    ELSE phase' = "fill" /\ pos' = pos + 1

Fill ==
    LET key == queries[pos]
    IN  /\ phase = "fill"
        /\ ~Contains(seen, key)
        /\ seen' = Append(seen, key)
        /\ Core!Put(key)
        /\ od' = RefLRUPut(od, key)
        /\ RefLFUPut(key)
        /\ ct' = CachetoolsPut(ct, key)
        /\ answer' = [policy \in Policy |-> "done"]
        /\ FillNext
        /\ UNCHANGED <<queries, hit_count>>

FillSkip ==
    /\ phase = "fill"
    /\ Contains(seen, queries[pos])
    /\ seen' = seen
    /\ FillNext
    /\ UNCHANGED <<queries, coreVars, od, order, freq, ct, hit_count, answer>>

Get ==
    LET key == queries[pos]
    IN  /\ phase = "get"
        /\ Core!GetHit(key) \/ Core!GetMiss(key)
        /\ od' = LRUGet(od, key)
        /\ ct' = LRUGet(ct, key)
        /\ RefLFUGet(key)
        /\ answer' = [policy \in Policy |-> IF key \in Holds(policy) THEN "hit" ELSE "miss"]
        /\ phase' = "put"
        /\ UNCHANGED <<queries, pos, seen, hit_count>>

\* if not hit: cache.put(...), for each policy by its own answer.
PutMissed ==
    LET key == queries[pos]
    IN  /\ phase = "put"
        /\ IF outcome = "miss" THEN Core!Put(key) ELSE UNCHANGED coreVars
        /\ od' = IF answer["reference_LRU"] = "miss" THEN RefLRUPut(od, key) ELSE od
        /\ IF answer["reference_LFU"] = "miss" THEN RefLFUPut(key) ELSE UNCHANGED <<order, freq>>
        /\ ct' = IF answer["cachetools.LRU"] = "miss" THEN CachetoolsPut(ct, key) ELSE ct
        /\ hit_count' = [policy \in Policy |-> hit_count[policy] + IF answer[policy] = "hit" THEN 1 ELSE 0]
        /\ answer' = [policy \in Policy |-> IF answer[policy] = "miss" THEN "done" ELSE answer[policy]]
        /\ IF pos = QueryCount
           THEN phase' = "done" /\ UNCHANGED pos
           ELSE phase' = "get" /\ pos' = pos + 1
        /\ UNCHANGED <<queries, seen>>

BenchNext == Fill \/ FillSkip \/ Get \/ PutMissed

BenchSpec == BenchInit /\ [][BenchNext]_benchVars
-----------------------------------------------------------------------------
\* The first Capacity distinct keys of the list, or all of them.
Filled == ToSet(seen)

Resident == <<resident, ToSet(od), ToSet(order), ToSet(ct)>>

(* The comparison is fair: filling evicts nothing, so every policy enters   *)
(* the replay with the same keys (bench_baseline_cache.py:261), all of them *)
(* answer hit until the list asks for a key that was not filled, and then   *)
(* all of them miss.                                                        *)
WarmStart ==
    /\ phase = "get" /\ pos = 1 =>
           /\ \A i \in DOMAIN Resident : Resident[i] = Filled
           /\ Cardinality(Filled) = Capacity \/ Filled = ToSet(queries)
    /\ phase = "put" /\ (\A i \in 1..(pos - 1) : queries[i] \in Filled) =>
           LET expected == IF queries[pos] \in Filled THEN "hit" ELSE "miss"
           IN  outcome = expected /\ \A policy \in Policy : answer[policy] = expected

(* "Policy-equivalent to cachetools.LRUCache" (bench_baseline_cache.py:151): *)
(* the fallback answers alike and holds the same keys in the same order.    *)
(* _RefLFU, which has no such twin, counts the keys it holds and no others. *)
ReferenceMatches ==
    /\ od = ct
    /\ DOMAIN freq = ToSet(order) /\ IsInjective(order)
    /\ answer["reference_LRU"] = answer["cachetools.LRU"]

\* Position of the last request for key; 0 when it has only been filled.
LastAsked(key) ==
    LET asked == {i \in 1..(pos - 1) : queries[i] = key}
    IN  IF asked # {}
        THEN CHOOSE i \in asked : \A j \in asked : j <= i
        ELSE 0

(* Between queries the reference LRU holds the Capacity keys that were asked *)
(* for last, which core/cache.py's LRUCache does not, because of its grace   *)
(* rule: every key lost was asked for before every key held.                *)
LRUKeepsMostRecent ==
    phase = "get" =>
        \A key \in ToSet(od), other \in Filled \cup ToSet(SubSeq(queries, 1, pos - 1)) :
            other \notin ToSet(od) => LastAsked(other) < LastAsked(key)

\* The interface counts an answer when it is given, the driver after the put.
Answered == IF phase = "fill" THEN 0 ELSE IF phase = "get" THEN pos - 1 ELSE pos

Hits(policy) ==
    hit_count[policy] + IF phase = "put" /\ answer[policy] = "hit" THEN 1 ELSE 0

RefLRU == INSTANCE CachePolicy WITH
    resident <- ToSet(od), pinned <- {}, Door <- FALSE,
    hits <- Hits("reference_LRU"), misses <- Answered - Hits("reference_LRU"),
    outcome <- answer["reference_LRU"]

RefLFU == INSTANCE CachePolicy WITH
    resident <- ToSet(order), pinned <- {}, Door <- FALSE,
    hits <- Hits("reference_LFU"), misses <- Answered - Hits("reference_LFU"),
    outcome <- answer["reference_LFU"]

(* The two fallbacks "match the CachePolicy get/put interface" as the        *)
(* adapters do (bench_baseline_cache.py:117): in the driver's hands each    *)
(* call is one of the interface, and the driver counts what they answer.    *)
ReferencesImplementPolicy == RefLRU!Spec /\ RefLFU!Spec

=============================================================================
