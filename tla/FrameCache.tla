---------------------------- MODULE FrameCache -----------------------------
(***************************************************************************)
(* class _FrameCache of core/cache.py and its three subclasses LRUCache,   *)
(* LFUCache and SCADSCache, which differ only in _select_victim.  One call *)
(* of get, put, pin or unpin is one action: this is the cache as one       *)
(* thread sees it.                                                         *)
(***************************************************************************)
EXTENDS Naturals, FiniteSets

CONSTANTS
    Key,         \* chunk keys
    Region,      \* region values a chunk or a query can name
    None,        \* Python's None: no region given
    Capacity,    \* self.capacity
    Policies,    \* the subclasses considered: a subset of LRU, LFU, SCADS
    FreqCap,     \* accesses at which the frequency term saturates: 10 in the code
    MaxClock     \* bound: calls of get and put in one behaviour

ASSUME CapacityAssumption == Capacity \in Nat \ {0}
ASSUME NoneAssumption == None \notin Region
ASSUME PolicyAssumption == Policies \subseteq {"LRU", "LFU", "SCADS"}
ASSUME FreqCapAssumption == FreqCap \in Nat \ {0}
ASSUME MaxClockAssumption == MaxClock \in Nat
ASSUME KeyAssumption == IsFiniteSet(Key)

VARIABLES
    policy,      \* the subclass of the cache object, fixed when it is created
    frames,      \* self._frames: resident key -> its _Frame
    clock,       \* self._clock
    hits,        \* self.hits
    misses,      \* self.misses
    pinned,      \* self._pinned
    outcome      \* what the last call returned or raised

vars == <<policy, frames, clock, hits, misses, pinned, outcome>>

RegionOrNone == Region \cup {None}
Outcome == {"new", "hit", "miss", "done", "RuntimeError"}

Frame == [region : RegionOrNone, access_count : Nat,
          last_query_region : RegionOrNone, grace : BOOLEAN, recency : Nat]

FutureStampMutant(region, recency) ==
    [region |-> region, access_count |-> 0, last_query_region |-> None,
     grace |-> TRUE, recency |-> recency + 1]

NewFrame(region, recency) ==
    [region |-> region, access_count |-> 0, last_query_region |-> None,
     grace |-> TRUE, recency |-> recency]

Resident == DOMAIN frames
-----------------------------------------------------------------------------
(* The score of SCADSCache in integers: 0.6 * min(n/10, 1) + 0.4 * geo,     *)
(* times 100 * FreqCap.  No two different scores of the code are closer     *)
(* than 0.02, so its floating-point order is this order.                    *)
Saturated(n) == IF n < FreqCap THEN n ELSE FreqCap

GeoMatchNoneMutant(f) == f.last_query_region = f.region

GeoMatch(f) == f.last_query_region # None /\ f.last_query_region = f.region

FrameScore(f) ==
    60 * Saturated(f.access_count) + FreqCap * (IF GeoMatch(f) THEN 40 ELSE 8)

(* The first component of the key each subclass minimises; recency is the   *)
(* last component of all three.                                             *)
Worth(f) ==
    CASE policy = "LRU"   -> 0
      [] policy = "LFU"   -> f.access_count
      [] policy = "SCADS" -> FrameScore(f)

NoWorseVictim(f, g) ==
    \/ Worth(f) < Worth(g)
    \/ Worth(f) = Worth(g) /\ f.recency <= g.recency

\* min(pool, key=...): a tie on the whole key would be broken by insertion
\* order, which is left open here and shown not to happen (RecencyDistinct).
SelectVictim(pool) ==
    {k \in pool : \A j \in pool : NoWorseVictim(frames[k], frames[j])}

IgnorePinsMutant == Resident
Candidates == Resident \ pinned

NoGraceMutant == Candidates

\* Fresh frames are spared as long as some candidate is not fresh.
EvictionPool ==
    LET nonGrace == {k \in Candidates : ~frames[k].grace}
    IN  IF nonGrace # {} THEN nonGrace ELSE Candidates
-----------------------------------------------------------------------------
Init ==
    /\ policy \in Policies
    /\ frames = <<>>
    /\ clock = 0
    /\ hits = 0
    /\ misses = 0
    /\ pinned = {}
    /\ outcome = "new"

\* Every get and put begins with self._clock += 1.
Tick == clock < MaxClock /\ clock' = clock + 1

GetMiss(key) ==
    /\ key \notin Resident
    /\ Tick
    /\ misses' = misses + 1
    /\ outcome' = "miss"
    /\ UNCHANGED <<policy, frames, hits, pinned>>

\* What a hit does to the frame: counted, stamped, and no longer fresh.
Touched(f, query_region, now) ==
    [region |-> f.region, access_count |-> f.access_count + 1,
     last_query_region |-> query_region, grace |-> FALSE, recency |-> now]

GetHit(key, query_region) ==
    /\ key \in Resident
    /\ Tick
    /\ frames' = [frames EXCEPT ![key] = Touched(@, query_region, clock + 1)]
    /\ hits' = hits + 1
    /\ outcome' = "hit"
    /\ UNCHANGED <<policy, misses, pinned>>

StaleRecencyMutant(f, region, now) ==
    [f EXCEPT !.region = IF region = None THEN @ ELSE region,
              !.recency = IF now > 1 THEN now - 1 ELSE now]

\* What put does to the frame of a resident key: grace is not touched.
Refreshed(f, region, now) ==
    [f EXCEPT !.region = IF region = None THEN @ ELSE region, !.recency = now]

PutAgain(key, region) ==
    /\ key \in Resident
    /\ Tick
    /\ frames' = [frames EXCEPT ![key] = Refreshed(@, region, clock + 1)]
    /\ outcome' = "done"
    /\ UNCHANGED <<policy, hits, misses, pinned>>

PutRoom(key, region) ==
    /\ key \notin Resident
    /\ Cardinality(Resident) < Capacity
    /\ Tick
    /\ frames' = [k \in Resident \cup {key} |->
                    IF k = key THEN NewFrame(region, clock + 1) ELSE frames[k]]
    /\ outcome' = "done"
    /\ UNCHANGED <<policy, hits, misses, pinned>>

KeepsGraceMutant(k) == frames[k]

\* The candidates that an eviction leaves have survived it and lose their
\* grace; pinned frames keep theirs.
AfterEviction(k) ==
    IF k \in Candidates THEN [frames[k] EXCEPT !.grace = FALSE] ELSE frames[k]

\* _evict and the insertion.
PutEvict(key, region) ==
    /\ key \notin Resident
    /\ Cardinality(Resident) >= Capacity
    /\ Tick
    /\ \E victim \in SelectVictim(EvictionPool) :
          frames' = [k \in (Resident \ {victim}) \cup {key} |->
                        IF k = key THEN NewFrame(region, clock + 1) ELSE AfterEviction(k)]
    /\ outcome' = "done"
    /\ UNCHANGED <<policy, hits, misses, pinned>>

\* "cache full and all frames pinned": only the clock has moved.
PutRefused(key) ==
    /\ key \notin Resident
    /\ Cardinality(Resident) >= Capacity
    /\ Candidates = {}
    /\ Tick
    /\ outcome' = "RuntimeError"
    /\ UNCHANGED <<policy, frames, hits, misses, pinned>>

Get(key, query_region) == GetMiss(key) \/ GetHit(key, query_region)

Put(key, region) ==
    \/ PutAgain(key, region)
    \/ PutRoom(key, region)
    \/ PutEvict(key, region)
    \/ PutRefused(key)

\* pin accepts any key, resident or not; unpin of an unknown key is a no-op.
Pin(key) ==
    /\ pinned' = pinned \cup {key}
    /\ outcome' = "done"
    /\ UNCHANGED <<policy, frames, clock, hits, misses>>

Unpin(key) ==
    /\ pinned' = pinned \ {key}
    /\ outcome' = "done"
    /\ UNCHANGED <<policy, frames, clock, hits, misses>>

Next ==
    \E key \in Key :
        \/ \E region \in RegionOrNone : Get(key, region) \/ Put(key, region)
        \/ Pin(key)
        \/ Unpin(key)

Spec == Init /\ [][Next]_vars
-----------------------------------------------------------------------------
(* Types of the variables; no stamp is ahead of the clock.                  *)
TypeOK ==
    /\ policy \in Policies
    /\ Resident \subseteq Key
    /\ \A k \in Resident : frames[k] \in Frame /\ frames[k].recency <= clock
    /\ clock \in Nat
    /\ hits \in Nat
    /\ misses \in Nat
    /\ pinned \subseteq Key
    /\ outcome \in Outcome

(* Two resident frames never carry the same recency, so min(pool, key=...)  *)
(* in _select_victim never falls back on the order of the dictionary.       *)
RecencyDistinct ==
    \A j, k \in Resident : frames[j].recency = frames[k].recency => j = k

Evicted(k) == k \in Resident /\ k \notin DOMAIN frames'
Spared(j) == j \in Resident \ pinned /\ j \in DOMAIN frames'

(* A fresh frame is evicted only when every unpinned frame is fresh         *)
(* ("exempt from this eviction if any non-fresh candidate exists").         *)
FreshSpared ==
    [][\A j, k \in Key :
          Evicted(k) /\ frames[k].grace /\ Spared(j) => frames[j].grace]_vars

(* "Grace lasts exactly one eviction event": the first eviction that a       *)
(* fresh frame survives unpinned ends its grace, whichever frame was        *)
(* evicted.  Otherwise only a hit ends it, and nothing brings it back.      *)
GraceLastsOneEviction ==
    [][\A k \in Resident \cap DOMAIN frames' :
          /\ frames'[k].grace =>
                /\ frames[k].grace
                /\ frames'[k].access_count = frames[k].access_count
                /\ \A j \in Key : Evicted(j) => k \in pinned
          /\ frames[k].grace /\ ~frames'[k].grace =>
                \/ frames'[k].access_count > frames[k].access_count
                \/ \E j \in Key : Evicted(j)]_vars

Matched(f) == f.region # None /\ f.region = f.last_query_region

(* SCADSCache: a proven frame whose last query came from its own region is  *)
(* evicted before a proven frame without that match only if the other one   *)
(* is ahead in frequency by the 0.32 of score that the match is worth.      *)
GeoMatchOutweighs ==
    [][\A j, k \in Key :
          /\ policy = "SCADS"
          /\ Evicted(k) /\ ~frames[k].grace /\ Matched(frames[k])
          /\ Spared(j) /\ ~frames[j].grace /\ ~Matched(frames[j])
          => 60 * Saturated(frames[j].access_count)
               >= 60 * Saturated(frames[k].access_count) + 32 * FreqCap]_vars

\* The frame cache keeps every promise of the interface, and never turns a
\* key away.
Abstract == INSTANCE CachePolicy WITH resident <- Resident, Door <- FALSE

(* Every behaviour of the frame cache is one of the interface: capacity,    *)
(* pins, hits exactly on resident keys, RuntimeError only when everything   *)
(* is pinned, and a key stored by every put that returns.                   *)
ImplementsPolicy == Abstract!Spec
=============================================================================
