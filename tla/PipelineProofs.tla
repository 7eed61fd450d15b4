--------------------------- MODULE PipelineProofs ---------------------------
(***************************************************************************)
(* What a query of SCADSPipeline may rely on, proved for any number of     *)
(* threads, roles, keys and payloads and any interleaving of queries with  *)
(* grants, revokes, stores and corruptions.                                *)
(*                                                                         *)
(* The inductive invariant Inv says what each thread knows:                *)
(*   Witnessed   a call in progress has seen the present state;            *)
(*   Locals      which locals of fetch are still as the call found them;   *)
(*   Evidence    what the call has seen that explains its locals;          *)
(*   Ingested    a call past the index holds a key of the index.           *)
(* The two counting invariants are proved on top of it.                    *)
(***************************************************************************)
EXTENDS Pipeline, FiniteSetTheorems, TLAPS

USE RoleAssumption, ThreadAssumption, MaxChangesAssumption, MaxCallsAssumption

Sight == [allowed : BOOLEAN, blob : Blob \cup {NoBlob}]

Types ==
    /\ TypeOK
    /\ seen \in [Thread -> SUBSET Sight]
    /\ hits \in Nat
    /\ misses \in Nat

Witnessed == \A t \in Thread : pc[t] \notin Resting => Snapshot(args[t]) \in seen[t]

Locals ==
    \A t \in Thread :
        /\ pc[t] \in {"lookup", "get", "decide"} => ~granted[t]
        /\ pc[t] \in {"lookup", "get", "decide", "log", "read"} => blob[t] = NoBlob
        /\ pc[t] = "decrypt" => blob[t] # NoBlob
        /\ pc[t] \notin {"fetched", "returned", "raised"} => result[t] = NoRecords

Reason(s) == ~s.allowed \/ s.blob = NoBlob \/ s.blob.payload = NoRecords

Evidence ==
    \A t \in Thread :
        /\ granted[t] => \E s \in seen[t] : s.allowed
        /\ pc[t] \in {"log", "read"} /\ ~granted[t] => \E s \in seen[t] : ~s.allowed
        /\ blob[t] # NoBlob => granted[t] /\ \E s \in seen[t] : s.blob = blob[t]
        /\ result[t] # NoRecords => blob[t] # NoBlob /\ blob[t] = Sealed(result[t])
        /\ pc[t] = "fetched" /\ result[t] = NoRecords => \E s \in seen[t] : Reason(s)

Ingested ==
    \A t \in Thread :
        pc[t] \in {"get", "decide", "log", "read", "decrypt", "fetched"} => args[t].key \in indexed

Inv == Types /\ Witnessed /\ Locals /\ Evidence /\ Ingested /\ EmptyIsJustified

\* The calls of a role and key whose grant is in the log.
Logged(role, key) ==
    {t \in Thread : args[t] = [role |-> role, key |-> key] /\ granted[t] /\ pc[t] # "log"}

LoggedInLog ==
    \A role \in Role, key \in Key :
        Cardinality(Logged(role, key)) <= Cardinality(GrantedEntries(role, key))
-----------------------------------------------------------------------------
SnapshotTypeOK == \A t \in Thread : Snapshot(args[t]) \in Sight

LEMMA SnapshotType == StoreTypeOK => SnapshotTypeOK
<1> SUFFICES ASSUME StoreTypeOK, NEW t \in Thread PROVE Snapshot(args[t]) \in Sight
  BY DEF SnapshotTypeOK
<1>1. IsAllowed(args[t].role, args[t].key) \in BOOLEAN
  BY DEF IsAllowed
<1>2. BlobAt(args[t].key) \in Blob \cup {NoBlob}
  BY DEF StoreTypeOK, BlobAt
<1> QED
  BY <1>1, <1>2 DEF Snapshot, Sight

LEMMA NextSnapshotType == StoreTypeOK' => SnapshotTypeOK'
  BY SnapshotType, PTL

\* What the history variable gains in a step, whatever the step.
Seen ==
    /\ seen' \in [Thread -> SUBSET Sight]
    /\ Witnessed'
    /\ \A t \in Thread : pc[t] \notin Resting => seen[t] \subseteq seen'[t]
    /\ \A t \in Thread : pc[t] \in Resting /\ pc'[t] \in Resting => seen'[t] = seen[t]

LEMMA WitnessSees ==
    ASSUME Types, StoreTypeOK', Witness
    PROVE  Seen
<1>1. SnapshotTypeOK'
  BY NextSnapshotType
<1>2. \A t \in Thread : Snapshot(args[t])' \in Sight
  BY <1>1 DEF SnapshotTypeOK
<1> QED
  BY <1>2 DEF Witness, Types, Witnessed, Seen

-----------------------------------------------------------------------------
LEMMA InitInv == Init => Inv
<1> SUFFICES ASSUME Init PROVE Inv
  OBVIOUS
<1> USE DEF Init, InitStore, InitCalls
<1>1. Types
  <2>1. (CHOOSE r \in Role : TRUE) \in Role /\ (CHOOSE k \in Key : TRUE) \in Key
    OBVIOUS
  <2>2. StoreTypeOK
    BY <2>1 DEF StoreTypeOK, Location, Resting, Entry
  <2> QED
    BY <2>2 DEF Types, TypeOK, Cache!Init, Sight
<1>2. Witnessed /\ Locals /\ Evidence /\ Ingested /\ EmptyIsJustified
  BY DEF Witnessed, Locals, Evidence, Ingested, EmptyIsJustified, Resting
<1> QED
  BY <1>1, <1>2 DEF Inv

\* Types, action by action.
LEMMA StepTypeOK == Inv /\ Next => TypeOK'
<1> SUFFICES ASSUME Inv, Next PROVE TypeOK'
  OBVIOUS
<1> USE DEF Inv, Types, TypeOK, StoreTypeOK, Location, Resting, storeVars, callVars, cacheVars,
            Goto, Elsewhere, Change
<1>1. ASSUME NEW t \in Thread, NEW role \in Role, NEW key \in Key, Query(t, role, key)
      PROVE  TypeOK'
  BY <1>1 DEF Query, Call
<1>2. ASSUME NEW t \in Thread, Lookup(t) \/ ReturnHit(t) PROVE TypeOK'
  BY <1>2 DEF Lookup, ReturnHit
<1>3. ASSUME NEW t \in Thread, CacheGet(t) PROVE TypeOK'
  BY <1>3 DEF CacheGet, Cache!GetHit, Cache!GetMiss
<1>4. ASSUME NEW t \in Thread, Fetch(t), FetchDecide(t) PROVE TypeOK'
  BY <1>4 DEF Fetch, FetchDecide, IsAllowed
<1>5. ASSUME NEW t \in Thread, Fetch(t), FetchLog(t) PROVE TypeOK'
  BY <1>5 DEF Fetch, FetchLog, AuditEntry, Entry
<1>6. ASSUME NEW t \in Thread, Fetch(t), FetchDeny(t) \/ FetchInvalidTag(t) PROVE TypeOK'
  BY <1>6 DEF Fetch, FetchDeny, FetchInvalidTag
<1>7. ASSUME NEW t \in Thread, Fetch(t), FetchRead(t) PROVE TypeOK'
  BY <1>7 DEF Fetch, FetchRead, BlobAt
<1>8. ASSUME NEW t \in Thread, Fetch(t), FetchDecrypt(t) PROVE TypeOK'
  BY <1>8 DEF Fetch, FetchDecrypt, Blob, Locals
<1>9. ASSUME NEW t \in Thread, Populate(t) PROVE TypeOK'
  BY <1>9 DEF Populate, Ingested, Cache!Put, Cache!PutAgain, Cache!PutRoom, Cache!PutTrade,
     Cache!PutTurnedAway, Cache!PutRefused
<1>10. ASSUME NEW key \in Key, PinKey(key) PROVE TypeOK'
  BY <1>10 DEF PinKey, Cache!Pin, Cache!Unpin
<1>11. ASSUME ChangeStore PROVE TypeOK'
  <2> USE <1>11 DEF ChangeStore
  <2>1. ASSUME NEW role \in Role, NEW key \in Key, Grant(role, key) PROVE TypeOK'
    BY <2>1 DEF Grant, Assign
  <2>2. ASSUME NEW role \in Role, GrantAll(role) PROVE TypeOK'
    BY <2>2 DEF GrantAll, Assign
  <2>3. ASSUME NEW role \in Role, Revoke(role) PROVE TypeOK'
    BY <2>3 DEF Revoke
  <2>4. ASSUME NEW key \in Key, NEW payload \in Payload, StoreRecords(key, payload) PROVE TypeOK'
    BY <2>4 DEF StoreRecords, Assign, Sealed, Blob
  <2>5. ASSUME NEW key \in Key, Corrupt(key) PROVE TypeOK'
    BY <2>5 DEF Corrupt, Damaged, Blob
  <2> QED
    BY <2>1, <2>2, <2>3, <2>4, <2>5
<1> HIDE DEF Inv, Types, TypeOK, StoreTypeOK, Goto, Elsewhere, Change
<1> QED
  BY <1>1, <1>2, <1>3, <1>4, <1>5, <1>6, <1>7, <1>8, <1>9, <1>10, <1>11
  DEF Next, QueryStep, Fetch, FetchStep

LEMMA StepSeen == Inv /\ Next => Seen
<1> SUFFICES ASSUME Inv, Next PROVE Seen
  OBVIOUS
<1>1. Witness
  BY DEF Next, Query, Call, QueryStep, Lookup, CacheGet, Fetch, FetchStep, FetchDecide, FetchLog,
     FetchDeny, FetchRead, FetchDecrypt, FetchInvalidTag, Populate, ReturnHit, Elsewhere, PinKey,
     ChangeStore, Grant, GrantAll, Revoke, StoreRecords, Corrupt, Change
<1>2. TypeOK'
  BY StepTypeOK
<1> QED
  BY <1>1, <1>2, WitnessSees DEF Inv, TypeOK

\* What the owner of the pipeline does leaves every call where it is.
OwnerStep == ChangeStore \/ \E key \in Key : PinKey(key)

LEMMA OwnerKeepsCalls == OwnerStep => UNCHANGED <<callVars, audit, indexed, hit, hits, misses>>
<1>1. ChangeStore => UNCHANGED <<callVars, audit, indexed, hit, hits, misses>>
  BY DEF ChangeStore, Grant, GrantAll, Revoke, StoreRecords, Corrupt, Change, cacheVars
<1>2. \A key \in Key : PinKey(key) => UNCHANGED <<callVars, audit, indexed, hit, hits, misses>>
  BY DEF PinKey, Change, Cache!Pin, Cache!Unpin
<1> QED
  BY <1>1, <1>2 DEF OwnerStep

\* The locals a call has not reached yet are as its beginning left them.
LEMMA StepLocals == Inv /\ Next => Locals'
<1> SUFFICES ASSUME Inv, Next PROVE Locals'
  OBVIOUS
<1> USE DEF Inv, Types, TypeOK, StoreTypeOK, Locals, storeVars, callVars, cacheVars, Goto,
            Elsewhere, Change, Resting
<1>1. ASSUME NEW t \in Thread, NEW role \in Role, NEW key \in Key, Query(t, role, key)
      PROVE  Locals'
  BY <1>1 DEF Query, Call
<1>2. ASSUME NEW t \in Thread, Lookup(t) PROVE Locals'
  BY <1>2 DEF Lookup
<1>3. ASSUME NEW t \in Thread, CacheGet(t) PROVE Locals'
  BY <1>3 DEF CacheGet
<1>4. ASSUME NEW t \in Thread, Fetch(t), FetchDecide(t) PROVE Locals'
  BY <1>4 DEF Fetch, FetchDecide
<1>5. ASSUME NEW t \in Thread, Fetch(t), FetchLog(t) PROVE Locals'
  BY <1>5 DEF Fetch, FetchLog
<1>6. ASSUME NEW t \in Thread, Fetch(t), FetchDeny(t) PROVE Locals'
  BY <1>6 DEF Fetch, FetchDeny
<1>7. ASSUME NEW t \in Thread, Fetch(t), FetchRead(t) PROVE Locals'
  BY <1>7 DEF Fetch, FetchRead
<1>8. ASSUME NEW t \in Thread, Fetch(t), FetchDecrypt(t) PROVE Locals'
  BY <1>8 DEF Fetch, FetchDecrypt
<1>9. ASSUME NEW t \in Thread, Fetch(t), FetchInvalidTag(t) PROVE Locals'
  BY <1>9 DEF Fetch, FetchInvalidTag
<1>10. ASSUME NEW t \in Thread, Populate(t) PROVE Locals'
  BY <1>10 DEF Populate
<1>11. ASSUME NEW t \in Thread, ReturnHit(t) PROVE Locals'
  BY <1>11 DEF ReturnHit
<1>12. ASSUME OwnerStep PROVE Locals'
  BY <1>12, OwnerKeepsCalls
<1> HIDE DEF Inv, Types, TypeOK, StoreTypeOK, Locals, Goto, Elsewhere, Change
<1> QED
  BY <1>1, <1>2, <1>3, <1>4, <1>5, <1>6, <1>7, <1>8, <1>9, <1>10, <1>11, <1>12
  DEF Next, QueryStep, Fetch, FetchStep, OwnerStep

LEMMA StepIngested == Inv /\ Next => Ingested'
<1> SUFFICES ASSUME Inv, Next PROVE Ingested'
  OBVIOUS
<1> USE DEF Inv, Types, TypeOK, StoreTypeOK, Ingested, storeVars, callVars, cacheVars, Goto,
            Elsewhere, Change, Resting
<1>1. ASSUME NEW t \in Thread, NEW role \in Role, NEW key \in Key, Query(t, role, key)
      PROVE  Ingested'
  BY <1>1 DEF Query, Call
<1>2. ASSUME NEW t \in Thread, Lookup(t) PROVE Ingested'
  BY <1>2 DEF Lookup
<1>3. ASSUME NEW t \in Thread, CacheGet(t) PROVE Ingested'
  BY <1>3 DEF CacheGet
<1>4. ASSUME NEW t \in Thread, Fetch(t), FetchDecide(t) PROVE Ingested'
  BY <1>4 DEF Fetch, FetchDecide
<1>5. ASSUME NEW t \in Thread, Fetch(t), FetchLog(t) PROVE Ingested'
  BY <1>5 DEF Fetch, FetchLog
<1>6. ASSUME NEW t \in Thread, Fetch(t), FetchDeny(t) PROVE Ingested'
  BY <1>6 DEF Fetch, FetchDeny
<1>7. ASSUME NEW t \in Thread, Fetch(t), FetchRead(t) PROVE Ingested'
  BY <1>7 DEF Fetch, FetchRead
<1>8. ASSUME NEW t \in Thread, Fetch(t), FetchDecrypt(t) PROVE Ingested'
  BY <1>8 DEF Fetch, FetchDecrypt
<1>9. ASSUME NEW t \in Thread, Fetch(t), FetchInvalidTag(t) PROVE Ingested'
  BY <1>9 DEF Fetch, FetchInvalidTag
<1>10. ASSUME NEW t \in Thread, Populate(t) PROVE Ingested'
  BY <1>10 DEF Populate
<1>11. ASSUME NEW t \in Thread, ReturnHit(t) PROVE Ingested'
  BY <1>11 DEF ReturnHit
<1>12. ASSUME OwnerStep PROVE Ingested'
  BY <1>12, OwnerKeepsCalls
<1> HIDE DEF Inv, Types, TypeOK, StoreTypeOK, Ingested, Goto, Elsewhere, Change
<1> QED
  BY <1>1, <1>2, <1>3, <1>4, <1>5, <1>6, <1>7, <1>8, <1>9, <1>10, <1>11, <1>12
  DEF Next, QueryStep, Fetch, FetchStep, OwnerStep

\* The shared state a call reads is a state it has seen.
LEMMA StepEvidence == Inv /\ Next => Evidence'
<1> SUFFICES ASSUME Inv, Next PROVE Evidence'
  OBVIOUS
<1> USE DEF Inv, Types, TypeOK, StoreTypeOK, Evidence, Reason, Locals, storeVars, callVars,
            cacheVars, Goto, Elsewhere, Change, Resting
<1>0. Seen
  BY StepSeen
<1>1. ASSUME NEW t \in Thread, NEW role \in Role, NEW key \in Key, Query(t, role, key)
      PROVE  Evidence'
  BY <1>1, <1>0 DEF Query, Call, Seen
<1>2. ASSUME NEW t \in Thread, Lookup(t) PROVE Evidence'
  BY <1>2, <1>0 DEF Lookup, Seen
<1>3. ASSUME NEW t \in Thread, CacheGet(t) PROVE Evidence'
  BY <1>3, <1>0 DEF CacheGet, Seen
<1>4. ASSUME NEW t \in Thread, Fetch(t), FetchDecide(t) PROVE Evidence'
  <2>1. /\ Snapshot(args[t]) \in seen'[t]
        /\ Snapshot(args[t]).allowed = IsAllowed(args[t].role, args[t].key)
        /\ Snapshot(args[t]).blob = BlobAt(args[t].key)
    BY <1>4, <1>0 DEF FetchDecide, Witnessed, Snapshot, Seen
  <2> QED
    BY <1>4, <1>0, <2>1 DEF Fetch, FetchDecide, Seen
<1>5. ASSUME NEW t \in Thread, Fetch(t), FetchLog(t) PROVE Evidence'
  BY <1>5, <1>0 DEF Fetch, FetchLog, Seen
<1>6. ASSUME NEW t \in Thread, Fetch(t), FetchDeny(t) PROVE Evidence'
  BY <1>6, <1>0 DEF Fetch, FetchDeny, Seen
<1>7. ASSUME NEW t \in Thread, Fetch(t), FetchRead(t) PROVE Evidence'
  <2>1. /\ Snapshot(args[t]) \in seen'[t]
        /\ Snapshot(args[t]).allowed = IsAllowed(args[t].role, args[t].key)
        /\ Snapshot(args[t]).blob = BlobAt(args[t].key)
    BY <1>7, <1>0 DEF FetchRead, Witnessed, Snapshot, Seen
  <2> QED
    BY <1>7, <1>0, <2>1 DEF Fetch, FetchRead, Seen
<1>8. ASSUME NEW t \in Thread, Fetch(t), FetchDecrypt(t) PROVE Evidence'
  BY <1>8, <1>0 DEF Fetch, FetchDecrypt, Sealed, Blob, Seen
<1>9. ASSUME NEW t \in Thread, Fetch(t), FetchInvalidTag(t) PROVE Evidence'
  BY <1>9, <1>0 DEF Fetch, FetchInvalidTag, Seen
<1>10. ASSUME NEW t \in Thread, Populate(t) PROVE Evidence'
  BY <1>10, <1>0 DEF Populate, Seen
<1>11. ASSUME NEW t \in Thread, ReturnHit(t) PROVE Evidence'
  BY <1>11, <1>0 DEF ReturnHit, Seen
<1>12. ASSUME OwnerStep PROVE Evidence'
  BY <1>12, OwnerKeepsCalls, <1>0 DEF Seen
<1> HIDE DEF Inv, Types, TypeOK, StoreTypeOK, Evidence, Reason, Locals, Goto, Elsewhere, Change
<1> QED
  BY <1>1, <1>2, <1>3, <1>4, <1>5, <1>6, <1>7, <1>8, <1>9, <1>10, <1>11, <1>12
  DEF Next, QueryStep, Fetch, FetchStep, OwnerStep

LEMMA StepEmptyIsJustified == Inv /\ Next => EmptyIsJustified'
<1> SUFFICES ASSUME Inv, Next PROVE EmptyIsJustified'
  OBVIOUS
<1> USE DEF Inv, Types, TypeOK, StoreTypeOK, EmptyIsJustified, Locals, Evidence, Reason,
            storeVars, callVars, cacheVars, Goto, Elsewhere, Change, Resting
<1>0. Seen
  BY StepSeen
<1>1. ASSUME NEW t \in Thread, NEW role \in Role, NEW key \in Key, Query(t, role, key)
      PROVE  EmptyIsJustified'
  BY <1>1, <1>0 DEF Query, Call, Seen
<1>2. ASSUME NEW t \in Thread, Lookup(t) PROVE EmptyIsJustified'
  BY <1>2, <1>0 DEF Lookup, Seen
<1>3. ASSUME NEW t \in Thread, CacheGet(t) PROVE EmptyIsJustified'
  BY <1>3, <1>0 DEF CacheGet, Seen
<1>4. ASSUME NEW t \in Thread, Fetch(t), FetchDecide(t) PROVE EmptyIsJustified'
  BY <1>4, <1>0 DEF Fetch, FetchDecide, Seen
<1>5. ASSUME NEW t \in Thread, Fetch(t), FetchLog(t) PROVE EmptyIsJustified'
  BY <1>5, <1>0 DEF Fetch, FetchLog, Seen
<1>6. ASSUME NEW t \in Thread, Fetch(t), FetchDeny(t) PROVE EmptyIsJustified'
  BY <1>6, <1>0 DEF Fetch, FetchDeny, Seen
<1>7. ASSUME NEW t \in Thread, Fetch(t), FetchRead(t) PROVE EmptyIsJustified'
  BY <1>7, <1>0 DEF Fetch, FetchRead, Seen
<1>8. ASSUME NEW t \in Thread, Fetch(t), FetchDecrypt(t) PROVE EmptyIsJustified'
  BY <1>8, <1>0 DEF Fetch, FetchDecrypt, Seen
<1>9. ASSUME NEW t \in Thread, Fetch(t), FetchInvalidTag(t) PROVE EmptyIsJustified'
  BY <1>9, <1>0 DEF Fetch, FetchInvalidTag, Seen
<1>10. ASSUME NEW t \in Thread, Populate(t) PROVE EmptyIsJustified'
  BY <1>10, <1>0 DEF Populate, Seen
<1>11. ASSUME NEW t \in Thread, ReturnHit(t) PROVE EmptyIsJustified'
  BY <1>11, <1>0 DEF ReturnHit, Seen
<1>12. ASSUME OwnerStep PROVE EmptyIsJustified'
  BY <1>12, OwnerKeepsCalls, <1>0 DEF Seen
<1> HIDE DEF Inv, Types, TypeOK, StoreTypeOK, EmptyIsJustified, Locals, Evidence, Reason, Goto,
             Elsewhere, Change
<1> QED
  BY <1>1, <1>2, <1>3, <1>4, <1>5, <1>6, <1>7, <1>8, <1>9, <1>10, <1>11, <1>12
  DEF Next, QueryStep, Fetch, FetchStep, OwnerStep

\* The counters move in CacheGet only, the log in FetchLog only.
LEMMA CountersAndLog ==
    ASSUME Inv, Next
    PROVE  \/ \E t \in Thread :
                 /\ CacheGet(t)
                 /\ hits' + misses' = hits + misses + 1
                 /\ hits' \in Nat /\ misses' \in Nat
                 /\ audit' = audit
           \/ \E t \in Thread : FetchLog(t) /\ UNCHANGED <<hits, misses>>
           \/ /\ UNCHANGED <<audit, hits, misses>>
              /\ {t \in Thread : pc'[t] \in {"decide", "log"}} =
                 {t \in Thread : pc[t] \in {"decide", "log"}}
<1> USE DEF Inv, Types, TypeOK, StoreTypeOK, Goto, Elsewhere, storeVars, cacheVars
<1> DEFINE Uncounted ==
              /\ UNCHANGED <<audit, hits, misses>>
              /\ {t \in Thread : pc'[t] \in {"decide", "log"}} =
                 {t \in Thread : pc[t] \in {"decide", "log"}}
<1>1. ASSUME NEW t \in Thread, NEW role \in Role, NEW key \in Key, Query(t, role, key)
      PROVE  Uncounted
  BY <1>1 DEF Query, Call, Resting
<1>2. ASSUME NEW t \in Thread, Lookup(t) \/ ReturnHit(t) PROVE Uncounted
  BY <1>2 DEF Lookup, ReturnHit
<1>3. ASSUME NEW t \in Thread, CacheGet(t)
      PROVE  /\ hits' + misses' = hits + misses + 1
             /\ hits' \in Nat /\ misses' \in Nat
             /\ audit' = audit
  <2>1. hits \in Nat /\ misses \in Nat
    OBVIOUS
  <2>2. audit' = audit
    BY <1>3 DEF CacheGet
  <2>3. CASE Cache!GetHit(args[t].key)
    BY <2>1, <2>2, <2>3 DEF Cache!GetHit
  <2>4. CASE Cache!GetMiss(args[t].key)
    BY <2>1, <2>2, <2>4 DEF Cache!GetMiss
  <2> QED
    BY <1>3, <2>3, <2>4 DEF CacheGet
<1>4. ASSUME NEW t \in Thread, Fetch(t), ~FetchLog(t) PROVE Uncounted
  BY <1>4 DEF Fetch, FetchStep, FetchDecide, FetchDeny, FetchRead, FetchDecrypt, FetchInvalidTag
<1>5. ASSUME NEW t \in Thread, Fetch(t), FetchLog(t) PROVE UNCHANGED <<hits, misses>>
  BY <1>5 DEF Fetch
<1>6. ASSUME NEW t \in Thread, Populate(t) PROVE Uncounted
  BY <1>6 DEF Populate, Cache!Put, Cache!PutAgain, Cache!PutRoom, Cache!PutTrade,
     Cache!PutTurnedAway, Cache!PutRefused
<1>7. ASSUME OwnerStep PROVE Uncounted
  BY <1>7, OwnerKeepsCalls DEF callVars
<1> HIDE DEF Inv, Goto, Elsewhere, Uncounted
<1>8. (\E t \in Thread : CacheGet(t)) \/ (\E t \in Thread : Fetch(t) /\ FetchLog(t)) \/ Uncounted
  BY <1>1, <1>2, <1>4, <1>6, <1>7 DEF Next, QueryStep, OwnerStep
<1> QED
  BY <1>3, <1>5, <1>8 DEF Uncounted

LEMMA StepInv == Inv /\ [Next]_pipelineVars => Inv'
<1>1. ASSUME Inv, Next PROVE Inv'
  <2>1. hits' \in Nat /\ misses' \in Nat
    BY <1>1, CountersAndLog DEF Inv, Types
  <2> QED
    BY <1>1, <2>1, StepTypeOK, StepSeen, StepLocals, StepEvidence, StepIngested,
       StepEmptyIsJustified
    DEF Inv, Types, Seen
<1>2. ASSUME Inv, UNCHANGED pipelineVars PROVE Inv'
  <2> USE <1>2 DEF pipelineVars, vars, storeVars, callVars, cacheVars
  <2>1. Types'
    BY DEF Inv, Types, TypeOK, StoreTypeOK
  <2>2. Witnessed'
    BY DEF Inv, Witnessed, Snapshot, IsAllowed, BlobAt
  <2>3. Locals' /\ Evidence' /\ Ingested' /\ EmptyIsJustified'
    BY DEF Inv, Locals, Evidence, Reason, Ingested, EmptyIsJustified
  <2> QED
    BY <2>1, <2>2, <2>3 DEF Inv
<1> QED
  BY <1>1, <1>2

LEMMA Invariance == Spec => []Inv
  BY InitInv, StepInv, PTL DEF Spec
-----------------------------------------------------------------------------
(* Every variable keeps its type, and only ingested keys occupy the cache.  *)
THEOREM PipelineTypes == Spec => []TypeOK
  BY Invariance, PTL DEF Inv, Types

(* Records are returned only as the key held them, whole, and only when its *)
(* role was allowed the key at some moment of the call.                     *)
THEOREM PipelineAnswersAreGenuine == Spec => []AnswersAreGenuine
<1>1. Inv => AnswersAreGenuine
  BY DEF Inv, Evidence, AnswersAreGenuine
<1> QED
  BY <1>1, Invariance, PTL

(* A query that returns nothing has seen the reason.                        *)
THEOREM PipelineEmptyIsJustified == Spec => []EmptyIsJustified
  BY Invariance, PTL DEF Inv
-----------------------------------------------------------------------------
Pending == {t \in Thread : pc[t] \in {"decide", "log"}}

LEMMA CountedStep == Inv /\ CountedIsAudited /\ [Next]_pipelineVars => CountedIsAudited'
<1> SUFFICES ASSUME Inv, CountedIsAudited, [Next]_pipelineVars PROVE CountedIsAudited'
  OBVIOUS
<1> USE DEF CountedIsAudited
<1>1. /\ IsFiniteSet(Pending) /\ Cardinality(Pending) \in Nat
      /\ audit \in Seq(Entry) /\ Len(audit) \in Nat
      /\ hits \in Nat /\ misses \in Nat
      /\ pc \in [Thread -> Location]
  BY FS_Subset, FS_CardinalityType DEF Pending, Inv, Types, TypeOK, StoreTypeOK
<1>2. ASSUME NEW t \in Thread, CacheGet(t), audit' = audit,
             hits' + misses' = hits + misses + 1
      PROVE  CountedIsAudited'
  <2>1. t \notin Pending /\ Pending' = Pending \cup {t}
    BY <1>1, <1>2 DEF CacheGet, Goto, Pending
  <2>2. Cardinality(Pending') = Cardinality(Pending) + 1
    BY <1>1, <2>1, FS_AddElement
  <2> QED
    BY <1>1, <1>2, <2>2 DEF Pending
<1>3. ASSUME NEW t \in Thread, FetchLog(t), UNCHANGED <<hits, misses>>
      PROVE  CountedIsAudited'
  <2>1. t \in Pending /\ Pending' = Pending \ {t}
    BY <1>1, <1>3 DEF FetchLog, Goto, Pending
  <2>2. Cardinality(Pending') = Cardinality(Pending) - 1
    BY <1>1, <2>1, FS_RemoveElement
  <2>3. Len(audit') = Len(audit) + 1
    BY <1>1, <1>3 DEF FetchLog
  <2> QED
    BY <1>1, <1>3, <2>2, <2>3 DEF Pending
<1>4. CASE UNCHANGED pipelineVars
  BY <1>4 DEF pipelineVars, vars, callVars, cacheVars
<1> QED
  BY <1>2, <1>3, <1>4, CountersAndLog

(* Every access the cache counts is audited, once, whichever of the threads *)
(* counts and logs in between.                                              *)
THEOREM PipelineCountedIsAudited == Spec => []CountedIsAudited
<1>1. Init => CountedIsAudited
  BY FS_EmptySet DEF Init, InitStore, InitCalls, Cache!Init, CountedIsAudited
<1> QED
  BY <1>1, CountedStep, Invariance, PTL DEF Spec
-----------------------------------------------------------------------------
\* A call enters Logged by logging its grant, and only by that.
LEMMA LoggedStep ==
    ASSUME Inv, Next
    PROVE  \/ \E t \in Thread : FetchLog(t)
           \/ /\ audit' = audit
              /\ \A role \in Role, key \in Key :
                    Logged(role, key)' \subseteq Logged(role, key)
<1> DEFINE Kept == audit' = audit /\ \A role \in Role, key \in Key :
                                        Logged(role, key)' \subseteq Logged(role, key)
<1> USE DEF Inv, Types, TypeOK, StoreTypeOK, Locals, Goto, Elsewhere, storeVars, callVars, Logged
<1>1. ASSUME NEW t \in Thread, NEW role \in Role, NEW key \in Key, Query(t, role, key)
      PROVE  Kept
  BY <1>1 DEF Query, Call
<1>2. ASSUME NEW t \in Thread, Lookup(t) \/ CacheGet(t) \/ Populate(t) \/ ReturnHit(t) PROVE Kept
  BY <1>2 DEF Lookup, CacheGet, Populate, ReturnHit
<1>3. ASSUME NEW t \in Thread, FetchDecide(t) PROVE Kept
  BY <1>3 DEF FetchDecide
<1>4. ASSUME NEW t \in Thread, FetchDeny(t) \/ FetchRead(t) \/ FetchDecrypt(t) \/ FetchInvalidTag(t)
      PROVE  Kept
  BY <1>4 DEF FetchDeny, FetchRead, FetchDecrypt, FetchInvalidTag
<1>5. ASSUME OwnerStep PROVE Kept
  BY <1>5, OwnerKeepsCalls
<1> HIDE DEF Inv, Goto, Elsewhere, Kept
<1>6. (\E t \in Thread : FetchLog(t)) \/ Kept
  BY <1>1, <1>2, <1>3, <1>4, <1>5 DEF Next, QueryStep, Fetch, FetchStep, OwnerStep
<1> QED
  BY <1>6 DEF Kept

LEMMA LoggedFinite ==
    ASSUME Inv, NEW role \in Role, NEW key \in Key
    PROVE  /\ IsFiniteSet(Logged(role, key)) /\ Cardinality(Logged(role, key)) \in Nat
           /\ IsFiniteSet(GrantedEntries(role, key))
           /\ Cardinality(GrantedEntries(role, key)) \in Nat
<1>1. IsFiniteSet(Logged(role, key))
  BY FS_Subset DEF Logged
<1>2. IsFiniteSet(GrantedEntries(role, key))
  <2>1. audit \in Seq(Entry)
    BY DEF Inv, Types, TypeOK, StoreTypeOK
  <2>2. IsFiniteSet(1 .. Len(audit)) /\ GrantedEntries(role, key) \subseteq 1 .. Len(audit)
    BY <2>1, FS_Interval DEF GrantedEntries
  <2> QED
    BY <2>2, FS_Subset
<1> QED
  BY <1>1, <1>2, FS_CardinalityType

LEMMA LoggedInLogStep == Inv /\ LoggedInLog /\ [Next]_pipelineVars => LoggedInLog'
<1>1. ASSUME Inv, LoggedInLog, NEW t \in Thread, FetchLog(t),
             NEW role \in Role, NEW key \in Key
      PROVE  Cardinality(Logged(role, key)') <= Cardinality(GrantedEntries(role, key)')
  <2> DEFINE last == Len(audit) + 1
             joins == granted[t] /\ args[t] = [role |-> role, key |-> key]
  <2> USE DEF Inv, Types, TypeOK, StoreTypeOK
  <2>1. /\ audit \in Seq(Entry) /\ Len(audit) \in Nat
        /\ audit' = Append(audit, AuditEntry(t))
        /\ DOMAIN audit' = DOMAIN audit \cup {last} /\ last \notin DOMAIN audit
        /\ audit'[last] = AuditEntry(t)
        /\ \A i \in DOMAIN audit : audit'[i] = audit[i]
    BY <1>1 DEF FetchLog, AuditEntry, Entry
  <2>2. t \notin Logged(role, key)
    BY <1>1 DEF FetchLog, Goto, Logged
  <2>3. Cardinality(Logged(role, key)) <= Cardinality(GrantedEntries(role, key))
    BY <1>1 DEF LoggedInLog
  <2>4. CASE joins
    <3>1. Logged(role, key)' = Logged(role, key) \cup {t}
      BY <1>1, <2>4 DEF FetchLog, Goto, Logged
    <3>2. GrantedEntries(role, key)' = GrantedEntries(role, key) \cup {last}
      BY <2>1, <2>4 DEF GrantedEntries, AuditEntry
    <3>3. last \notin GrantedEntries(role, key)
      BY <2>1 DEF GrantedEntries
    <3>4. /\ Cardinality(Logged(role, key)') = Cardinality(Logged(role, key)) + 1
          /\ Cardinality(GrantedEntries(role, key)') = Cardinality(GrantedEntries(role, key)) + 1
      BY <1>1, <2>2, <3>1, <3>2, <3>3, LoggedFinite, FS_AddElement
    <3>5. /\ Cardinality(Logged(role, key)) \in Nat
          /\ Cardinality(GrantedEntries(role, key)) \in Nat
      BY <1>1, LoggedFinite
    <3> HIDE DEF Inv, Types, TypeOK, StoreTypeOK
    <3> QED
      BY <2>3, <3>4, <3>5
  <2>5. CASE ~joins
    <3>1. Logged(role, key)' = Logged(role, key)
      BY <1>1, <2>5 DEF FetchLog, Goto, Logged
    <3>2. GrantedEntries(role, key)' = GrantedEntries(role, key)
      BY <1>1, <2>1, <2>5 DEF GrantedEntries, AuditEntry
    <3> QED
      BY <2>3, <3>1, <3>2
  <2> QED
    BY <2>4, <2>5
<1>2. ASSUME Inv, LoggedInLog, NEW role \in Role, NEW key \in Key,
             audit' = audit, Logged(role, key)' \subseteq Logged(role, key)
      PROVE  Cardinality(Logged(role, key)') <= Cardinality(GrantedEntries(role, key)')
  <2>1. GrantedEntries(role, key)' = GrantedEntries(role, key)
    BY <1>2 DEF GrantedEntries
  <2>2. /\ Cardinality(Logged(role, key)') \in Nat
        /\ Cardinality(Logged(role, key)') <= Cardinality(Logged(role, key))
    BY <1>2, LoggedFinite, FS_Subset, FS_CardinalityType
  <2> QED
    BY <1>2, <2>1, <2>2, LoggedFinite DEF LoggedInLog
<1>3. ASSUME Inv, LoggedInLog, UNCHANGED pipelineVars PROVE LoggedInLog'
  BY <1>3 DEF pipelineVars, vars, callVars, LoggedInLog, Logged, GrantedEntries
<1> QED
  BY <1>1, <1>2, <1>3, LoggedStep DEF LoggedInLog

(* A chunk is only ever in the hands of a call whose grant is in the log,   *)
(* one entry for each such call.                                            *)
THEOREM PipelineAuditedBeforeRead == Spec => []AuditedBeforeRead
<1>1. Init => LoggedInLog
  <2> SUFFICES ASSUME Init, NEW role \in Role, NEW key \in Key
               PROVE  Cardinality(Logged(role, key)) <= Cardinality(GrantedEntries(role, key))
    BY DEF LoggedInLog
  <2>1. Logged(role, key) = {} /\ GrantedEntries(role, key) = {}
    BY DEF Init, InitStore, InitCalls, Logged, GrantedEntries
  <2> QED
    BY <2>1, FS_EmptySet
<1>2. Inv /\ LoggedInLog => AuditedBeforeRead
  <2> SUFFICES ASSUME Inv, LoggedInLog, NEW role \in Role, NEW key \in Key
               PROVE  Cardinality(Holders(role, key)) <= Cardinality(GrantedEntries(role, key))
    BY DEF AuditedBeforeRead
  <2>1. Holders(role, key) \subseteq Logged(role, key)
    BY DEF Inv, Locals, Evidence, Holders, Logged
  <2>2. /\ Cardinality(Holders(role, key)) \in Nat
        /\ Cardinality(Holders(role, key)) <= Cardinality(Logged(role, key))
    BY <2>1, LoggedFinite, FS_Subset, FS_CardinalityType
  <2> QED
    BY <2>2, LoggedFinite DEF LoggedInLog
<1> QED
  BY <1>1, <1>2, LoggedInLogStep, Invariance, PTL DEF Spec
-----------------------------------------------------------------------------
(* Whatever the threads interleave, the pipeline uses its cache as the      *)
(* interface of class CachePolicy allows: each step of a query is one call  *)
(* of it or none, so its guarantees (the capacity, pinned keys stay) hold   *)
(* of the pipeline's cache too.                                             *)
THEOREM PipelineUsesCachePolicy == Spec => Cache!Spec
<1>1. Init => Cache!Init
  BY DEF Init
<1>2. Inv /\ [Next]_pipelineVars => [Cache!Next]_(Cache!vars)
  <2> SUFFICES ASSUME Inv, Next PROVE Cache!Next \/ UNCHANGED cacheVars
    BY DEF pipelineVars, cacheVars, Cache!vars
  <2>1. \A t \in Thread : args[t].key \in Key
    BY DEF Inv, Types, TypeOK, StoreTypeOK
  <2>2. ASSUME NEW t \in Thread, CacheGet(t) \/ Populate(t) PROVE Cache!Next
    BY <2>1, <2>2 DEF CacheGet, Populate, Cache!Next
  <2>3. ASSUME NEW key \in Key, PinKey(key) PROVE Cache!Next
    BY <2>3 DEF PinKey, Cache!Next
  <2> QED
    BY <2>2, <2>3 DEF Next, QueryStep, Query, Lookup, Fetch, ReturnHit, ChangeStore
<1> QED
  BY <1>1, <1>2, Invariance, PTL DEF Spec, Cache!Spec
=============================================================================
