---------------------------- MODULE CachePolicy ----------------------------
(***************************************************************************)
(* What every cache of core/cache.py promises to its callers, whatever the *)
(* policy: the interface of class CachePolicy (get, put, pin, unpin, the   *)
(* hit and miss counters) seen through the set of resident chunk keys.     *)
(* FrameCache, ARCCache and TinyLFUCache are each shown to implement it.   *)
(***************************************************************************)
EXTENDS Naturals, FiniteSets

CONSTANTS
    Key,         \* the chunk keys
    Capacity,    \* self.capacity, positive: the constructor raises otherwise
    Door         \* TRUE when the policy may turn a new key away (TinyLFU)

VARIABLES
    resident,    \* the keys for which __contains__ answers True
    pinned,      \* self._pinned: any key, resident or not
    hits,        \* self.hits
    misses,      \* self.misses
    outcome      \* what the last call returned or raised

vars == <<resident, pinned, hits, misses, outcome>>

\* get returns True or False; put, pin and unpin return None; put may raise.
Outcome == {"new", "hit", "miss", "done", "RuntimeError"}

Full == Cardinality(resident) >= Capacity

Init ==
    /\ resident = {}
    /\ pinned = {}
    /\ hits = 0
    /\ misses = 0
    /\ outcome = "new"

\* get: a hit exactly when the key is resident; it moves nothing in or out.
GetHit(key) ==
    /\ key \in resident
    /\ hits' = hits + 1
    /\ outcome' = "hit"
    /\ UNCHANGED <<resident, pinned, misses>>

GetMiss(key) ==
    /\ key \notin resident
    /\ misses' = misses + 1
    /\ outcome' = "miss"
    /\ UNCHANGED <<resident, pinned, hits>>

\* put of a resident key stores nothing new.
PutAgain(key) ==
    /\ key \in resident
    /\ outcome' = "done"
    /\ UNCHANGED <<resident, pinned, hits, misses>>

\* put with room to spare evicts nobody.
PutRoom(key) ==
    /\ key \notin resident
    /\ ~Full
    /\ resident' = resident \cup {key}
    /\ outcome' = "done"
    /\ UNCHANGED <<pinned, hits, misses>>

\* put into a full cache trades one unpinned key for the new one.
PutTrade(key) ==
    /\ key \notin resident
    /\ Full
    /\ \E victim \in resident \ pinned :
          resident' = (resident \ {victim}) \cup {key}
    /\ outcome' = "done"
    /\ UNCHANGED <<pinned, hits, misses>>

\* put that an admission filter turns away.
PutTurnedAway(key) ==
    /\ Door
    /\ key \notin resident
    /\ Full
    /\ resident \ pinned # {}
    /\ outcome' = "done"
    /\ UNCHANGED <<resident, pinned, hits, misses>>

\* put raises only when the cache is full of pinned keys, and keeps them all.
PutRefused(key) ==
    /\ key \notin resident
    /\ Full
    /\ resident \subseteq pinned
    /\ outcome' = "RuntimeError"
    /\ UNCHANGED <<resident, pinned, hits, misses>>

Put(key) ==
    \/ PutAgain(key)
    \/ PutRoom(key)
    \/ PutTrade(key)
    \/ PutTurnedAway(key)
    \/ PutRefused(key)

Pin(key) ==
    /\ pinned' = pinned \cup {key}
    /\ outcome' = "done"
    /\ UNCHANGED <<resident, hits, misses>>

Unpin(key) ==
    /\ pinned' = pinned \ {key}
    /\ outcome' = "done"
    /\ UNCHANGED <<resident, hits, misses>>

Next ==
    \E key \in Key :
        GetHit(key) \/ GetMiss(key) \/ Put(key) \/ Pin(key) \/ Unpin(key)

Spec == Init /\ [][Next]_vars
-----------------------------------------------------------------------------
TypeOK ==
    /\ resident \subseteq Key
    /\ pinned \subseteq Key
    /\ hits \in Nat
    /\ misses \in Nat
    /\ outcome \in Outcome

(* A cache never holds more keys than its capacity.                         *)
WithinCapacity ==
    /\ IsFiniteSet(resident)
    /\ Cardinality(resident) <= Capacity

(* No step takes a pinned key out of the cache (tests/test_cache.py, "a    *)
(* pinned frame survives arbitrary eviction pressure").                     *)
PinnedStay == [][resident \cap pinned \subseteq resident']_vars

(* A cache that has become full stays full: an eviction always makes room   *)
(* for a key that is then stored.                                           *)
FullStaysFull == [][Full => Full']_vars
=============================================================================
