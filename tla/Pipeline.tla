------------------------------ MODULE Pipeline ------------------------------
(***************************************************************************)
(* core/pipeline.py: SCADSPipeline.query run by several threads over one   *)
(* index, one cache and one secure store.  The cache is any implementation *)
(* of CachePolicy, its calls taken as atomic (FrameCacheThreads looks      *)
(* inside them); the store's fetch is interleaved step by step.            *)
(***************************************************************************)
EXTENDS SecureStore

CONSTANT Capacity    \* capacity of the cache

VARIABLES
    indexed,     \* keys for which SmartIndex.lookup gives at least one id
    resident, pinned, hits, misses, outcome,    \* the cache, as in CachePolicy
    hit          \* query's local: what cache.get answered

cacheVars == <<resident, pinned, hits, misses, outcome>>
pipelineVars == <<vars, indexed, cacheVars, hit>>

Cache == INSTANCE CachePolicy WITH Door <- TRUE

\* The index is built before the store is filled, and not rebuilt after.
Init ==
    /\ InitStore
    /\ InitCalls
    /\ Cache!Init
    /\ indexed \in SUBSET Key
    /\ hit = [t \in Thread |-> FALSE]

Query(t, role, key) ==
    /\ Call(t, "lookup", role, key)
    /\ hit' = [hit EXCEPT ![t] = FALSE]
    /\ UNCHANGED <<indexed, cacheVars>>

NoIndexMutant(t) ==
    /\ Goto(t, "lookup", "get")
    /\ Elsewhere
    /\ UNCHANGED <<indexed, cacheVars, hit>>

\* Step 1: an index miss returns the empty list, unlogged and uncounted.
Lookup(t) ==
    /\ Goto(t, "lookup", IF args[t].key \in indexed THEN "get" ELSE "returned")
    /\ Elsewhere
    /\ UNCHANGED <<indexed, cacheVars, hit>>

ServeHitMutant(t) ==
    /\ hit' = [hit EXCEPT ![t] = args[t].key \in resident]
    /\ Goto(t, "get", IF hit'[t] THEN "returned" ELSE "decide")
    /\ Cache!GetHit(args[t].key) \/ Cache!GetMiss(args[t].key)
    /\ Elsewhere
    /\ UNCHANGED indexed

\* Step 2: the access is counted before anything is known of its outcome.
CacheGet(t) ==
    /\ Goto(t, "get", "decide")
    /\ hit' = [hit EXCEPT ![t] = args[t].key \in resident]
    /\ Cache!GetHit(args[t].key) \/ Cache!GetMiss(args[t].key)
    /\ Elsewhere
    /\ UNCHANGED indexed

\* Step 3.
Fetch(t) == FetchStep(t) /\ UNCHANGED <<indexed, cacheVars, hit>>

\* Step 4, whatever fetch has answered: what put raises, query raises.
Populate(t) ==
    /\ ~hit[t]
    /\ Cache!Put(args[t].key)
    /\ Goto(t, "fetched", IF outcome' = "RuntimeError" THEN "raised" ELSE "returned")
    /\ Elsewhere
    /\ UNCHANGED <<indexed, hit>>

ReturnHit(t) ==
    /\ hit[t]
    /\ Goto(t, "fetched", "returned")
    /\ Elsewhere
    /\ UNCHANGED <<indexed, cacheVars, hit>>

\* The owner of the pipeline pins and unpins frames and changes the store
\* meanwhile (pinning twice changes nothing and is left out).
PinKey(key) ==
    /\ IF key \in pinned THEN Cache!Unpin(key) ELSE Cache!Pin(key)
    /\ UNCHANGED <<policy, blobs>>
    /\ Change
    /\ UNCHANGED <<indexed, hit>>

ChangeStore ==
    /\ \/ \E role \in Role : GrantAll(role) \/ Revoke(role)
       \/ \E role \in Role, key \in Key : Grant(role, key)
       \/ \E key \in Key, payload \in Payload : StoreRecords(key, payload)
       \/ \E key \in Key : Corrupt(key)
    /\ UNCHANGED <<indexed, cacheVars, hit>>

QueryStep(t) ==
    \/ Lookup(t)
    \/ CacheGet(t)
    \/ Fetch(t)
    \/ Populate(t)
    \/ ReturnHit(t)

Next ==
    \/ \E t \in Thread, role \in Role, key \in Key : Query(t, role, key)
    \/ \E t \in Thread : QueryStep(t)
    \/ \E key \in Key : PinKey(key)
    \/ ChangeStore

Spec == Init /\ [][Next]_pipelineVars
-----------------------------------------------------------------------------
(* Types; only ingested keys ever occupy the cache.                         *)
TypeOK ==
    /\ StoreTypeOK
    /\ indexed \subseteq Key
    /\ resident \subseteq indexed
    /\ hit \in [Thread -> BOOLEAN]

(* Every access the cache counts is audited, hit or miss, granted or        *)
(* denied, and nothing else is: the counters are ahead of the log by the    *)
(* calls between cache.get and audit.log ("100% capture",                   *)
(* tests/test_concurrency.py).                                              *)
CountedIsAudited ==
    hits + misses =
        Len(audit) + Cardinality({t \in Thread : pc[t] \in {"decide", "log"}})

(* A query that returns nothing has a reason: its key was not ingested, or  *)
(* at some moment of the call the role was not allowed it, or the store had *)
(* no blob for it, or an empty one.  A chunk that was there and readable    *)
(* throughout the call is returned.                                         *)
EmptyIsJustified ==
    \A t \in Thread : pc[t] = "returned" /\ result[t] = NoRecords =>
        \/ args[t].key \notin indexed
        \/ \E s \in seen[t] : ~s.allowed \/ s.blob = NoBlob \/ s.blob.payload = NoRecords

(* "Never raises for normal denial" (the docstring of query): a query that  *)
(* raises had been granted.  cache.put breaks this when the cache is full   *)
(* of pinned frames.                                                        *)
NeverRaisesForDenial == \A t \in Thread : pc[t] = "raised" => granted[t]
=============================================================================
