---------------------------- MODULE SecureStore ----------------------------
(***************************************************************************)
(* core/security.py: AccessControl, AuditLogger and SecureChunkStore, with *)
(* the fetches of several threads interleaved at every access to shared    *)
(* state (core/pipeline.py relies on the GIL alone for thread safety).     *)
(* AES-GCM is external: a blob decrypts to what was encrypted, or raises   *)
(* InvalidTag once its bytes have been changed.                            *)
(* The module gives the state and the steps; Pipeline makes a system of    *)
(* them.                                                                   *)
(***************************************************************************)
EXTENDS Naturals, Sequences, FiniteSets

CONSTANTS
    Thread,      \* the threads that call fetch
    Role,        \* roles
    Key,         \* chunk keys
    Payload,     \* what a chunk may contain: a list of records
    NoRecords,   \* the empty list fetch returns when there is nothing to give
    Wildcard,    \* AccessControl.WILDCARD
    NoBlob,      \* None, for a key that is not in _blobs
    MaxChanges,  \* bound: grants, revokes, stores and corruptions in a behaviour
    MaxCalls     \* bound: calls of fetch in a behaviour

ASSUME MaxChangesAssumption == MaxChanges \in Nat
ASSUME MaxCallsAssumption == MaxCalls \in Nat
ASSUME RoleAssumption == Role # {} /\ Key # {}
ASSUME ThreadAssumption == IsFiniteSet(Thread)

VARIABLES
    policy,      \* AccessControl._policy: role -> Wildcard or a set of keys
    audit,       \* AuditLogger.entries
    blobs,       \* SecureChunkStore._blobs: key -> blob
    pc,          \* where each thread is in its call
    args,        \* the role and key of its call
    granted,     \* fetch's local: the decision of is_allowed
    blob,        \* fetch's local: the blob it read
    result,      \* what the call will return
    seen,        \* history: what the shared state said of args during the call
    changes,     \* changes of policy and blobs so far
    calls        \* calls begun so far

storeVars == <<policy, blobs, changes>>
callVars == <<pc, args, granted, blob, result, calls>>
vars == <<storeVars, audit, callVars, seen>>

Blob == [payload : Payload, intact : BOOLEAN]
Entry == [role : Role, key : Key, granted : BOOLEAN]
Resting == {"idle", "returned", "raised"}
Location == Resting \cup
    {"lookup", "get", "decide", "log", "read", "decrypt", "fetched"}

Sealed(payload) == [payload |-> payload, intact |-> TRUE]
Damaged(sealed) == [payload |-> sealed.payload, intact |-> FALSE]
BlobAt(key) == IF key \in DOMAIN blobs THEN blobs[key] ELSE NoBlob

\* dict[key] = value
Assign(dict, key, value) ==
    [k \in DOMAIN dict \cup {key} |-> IF k = key THEN value ELSE dict[k]]

\* is_allowed: an unknown role and an unlisted key are denied.
IsAllowed(role, key) ==
    /\ role \in DOMAIN policy
    /\ policy[role] # Wildcard => key \in policy[role]

Snapshot(call) == [allowed |-> IsAllowed(call.role, call.key), blob |-> BlobAt(call.key)]

\* Every action ends with this: each call in progress sees the new state.
Witness ==
    seen' = [t \in Thread |->
        IF pc'[t] \in Resting /\ pc[t] \in Resting
        THEN seen[t]
        ELSE {Snapshot(args[t])'} \cup (IF pc[t] \in Resting THEN {} ELSE seen[t])]
-----------------------------------------------------------------------------
\* The constructors: any initial policy, an empty log and an empty store.
InitStore ==
    /\ \E roles \in SUBSET Role : policy \in [roles -> {Wildcard} \cup {{key} : key \in Key}]
    /\ audit = <<>>
    /\ blobs = <<>>
    /\ changes = 0

InitCalls ==
    /\ pc = [t \in Thread |-> "idle"]
    /\ args = [t \in Thread |-> [role |-> CHOOSE r \in Role : TRUE,
                                 key |-> CHOOSE k \in Key : TRUE]]
    /\ granted = [t \in Thread |-> FALSE]
    /\ blob = [t \in Thread |-> NoBlob]
    /\ result = [t \in Thread |-> NoRecords]
    /\ seen = [t \in Thread |-> {}]
    /\ calls = 0

Change ==
    /\ changes < MaxChanges
    /\ changes' = changes + 1
    /\ UNCHANGED <<audit, callVars>>
    /\ Witness

\* grant with a key: a wildcard stays a wildcard.
Grant(role, key) ==
    /\ policy' = IF role \notin DOMAIN policy
                 THEN Assign(policy, role, {key})
                 ELSE IF policy[role] = Wildcard
                      THEN policy
                      ELSE [policy EXCEPT ![role] = @ \cup {key}]
    /\ UNCHANGED blobs
    /\ Change

\* grant without a key.
GrantAll(role) ==
    /\ policy' = Assign(policy, role, Wildcard)
    /\ UNCHANGED blobs
    /\ Change

\* revoke forgets the role and every key it was granted.
Revoke(role) ==
    /\ policy' = [r \in DOMAIN policy \ {role} |-> policy[r]]
    /\ UNCHANGED blobs
    /\ Change

\* store_records and store_chunk: encrypt, then one assignment.
StoreRecords(key, payload) ==
    /\ blobs' = Assign(blobs, key, Sealed(payload))
    /\ UNCHANGED policy
    /\ Change

\* The stored bytes of a chunk are corrupted from outside.
Corrupt(key) ==
    /\ key \in DOMAIN blobs
    /\ blobs' = [blobs EXCEPT ![key] = Damaged(@)]
    /\ UNCHANGED policy
    /\ Change
-----------------------------------------------------------------------------
Goto(t, from, to) == pc[t] = from /\ pc' = [pc EXCEPT ![t] = to]

\* A call begins at the given location, with fresh locals.
Call(t, to, role, key) ==
    /\ calls < MaxCalls
    /\ calls' = calls + 1
    /\ pc[t] \in Resting
    /\ pc' = [pc EXCEPT ![t] = to]
    /\ args' = [args EXCEPT ![t] = [role |-> role, key |-> key]]
    /\ granted' = [granted EXCEPT ![t] = FALSE]
    /\ blob' = [blob EXCEPT ![t] = NoBlob]
    /\ result' = [result EXCEPT ![t] = NoRecords]
    /\ UNCHANGED <<storeVars, audit>>
    /\ Witness

\* A step of a call that touches neither the store nor the locals of fetch.
Elsewhere == UNCHANGED <<storeVars, audit, args, granted, blob, result, calls>> /\ Witness

\* granted = self.access.is_allowed(role, chunk_key)
FetchDecide(t) ==
    /\ Goto(t, "decide", "log")
    /\ granted' = [granted EXCEPT ![t] = IsAllowed(args[t].role, args[t].key)]
    /\ UNCHANGED <<storeVars, audit, args, blob, result, calls>>
    /\ Witness

AuditEntry(t) ==
    [role |-> args[t].role, key |-> args[t].key, granted |-> granted[t]]

LogDenialsOnlyMutant(t) ==
    /\ Goto(t, "log", "read")
    /\ audit' = IF granted[t] THEN audit ELSE Append(audit, AuditEntry(t))
    /\ UNCHANGED <<storeVars, args, granted, blob, result, calls>>
    /\ Witness

\* self.audit.log(...), whatever was decided.
FetchLog(t) ==
    /\ Goto(t, "log", "read")
    /\ audit' = Append(audit, AuditEntry(t))
    /\ UNCHANGED <<storeVars, args, granted, blob, result, calls>>
    /\ Witness

\* Denied: the empty list, and no decryption.
FetchDeny(t) ==
    /\ ~granted[t]
    /\ Goto(t, "read", "fetched")
    /\ Elsewhere

ReadDeniedMutant(t) ==
    /\ Goto(t, "read", IF BlobAt(args[t].key) = NoBlob THEN "fetched" ELSE "decrypt")
    /\ blob' = [blob EXCEPT ![t] = BlobAt(args[t].key)]
    /\ UNCHANGED <<storeVars, audit, args, granted, result, calls>>
    /\ Witness

\* blob = self._blobs.get(chunk_key), returning the empty list for None.
FetchRead(t) ==
    /\ granted[t]
    /\ Goto(t, "read", IF BlobAt(args[t].key) = NoBlob THEN "fetched" ELSE "decrypt")
    /\ blob' = [blob EXCEPT ![t] = BlobAt(args[t].key)]
    /\ UNCHANGED <<storeVars, audit, args, granted, result, calls>>
    /\ Witness

UncheckedTagMutant(t) ==
    /\ Goto(t, "decrypt", "fetched")
    /\ result' = [result EXCEPT ![t] = IF blob[t].intact THEN blob[t].payload ELSE NoRecords]
    /\ UNCHANGED <<storeVars, audit, args, granted, blob, calls>>
    /\ Witness

\* decrypt and deserialize the blob that was read.
FetchDecrypt(t) ==
    /\ Goto(t, "decrypt", "fetched")
    /\ blob[t].intact
    /\ result' = [result EXCEPT ![t] = blob[t].payload]
    /\ UNCHANGED <<storeVars, audit, args, granted, blob, calls>>
    /\ Witness

\* decrypt raises InvalidTag, which fetch does not catch.
FetchInvalidTag(t) ==
    /\ Goto(t, "decrypt", "raised")
    /\ ~blob[t].intact
    /\ Elsewhere

FetchStep(t) ==
    \/ FetchDecide(t)
    \/ FetchLog(t)
    \/ FetchDeny(t)
    \/ FetchRead(t)
    \/ FetchDecrypt(t)
    \/ FetchInvalidTag(t)
-----------------------------------------------------------------------------
StoreTypeOK ==
    /\ DOMAIN policy \subseteq Role
    /\ \A role \in DOMAIN policy : policy[role] = Wildcard \/ policy[role] \subseteq Key
    /\ audit \in Seq(Entry)
    /\ DOMAIN blobs \subseteq Key
    /\ \A key \in DOMAIN blobs : blobs[key] \in Blob
    /\ pc \in [Thread -> Location]
    /\ args \in [Thread -> [role : Role, key : Key]]
    /\ granted \in [Thread -> BOOLEAN]
    /\ blob \in [Thread -> Blob \cup {NoBlob}]
    /\ result \in [Thread -> Payload \cup {NoRecords}]
    /\ changes \in 0 .. MaxChanges
    /\ calls \in 0 .. MaxCalls

(* A call that returns records returns the whole of a payload that the key  *)
(* held, intact, at some moment of the call, and its role was allowed the   *)
(* key at some moment of the call, however grants, revokes, stores and      *)
(* corruptions interleave ("all records or none - never a partial set",     *)
(* tests/test_concurrency.py).                                              *)
AnswersAreGenuine ==
    \A t \in Thread : pc[t] \in {"fetched", "returned"} /\ result[t] # NoRecords =>
        /\ \E s \in seen[t] : s.allowed
        /\ \E s \in seen[t] : s.blob = Sealed(result[t])

(* A blob is only ever in the hands of a call whose grant is in the log:    *)
(* for each role and key the log has at least as many granted entries as    *)
(* there are calls that hold the chunk ("the audit log cannot be bypassed   *)
(* by any data-touching path").                                             *)
Holders(role, key) ==
    {t \in Thread : args[t] = [role |-> role, key |-> key] /\ blob[t] # NoBlob}

GrantedEntries(role, key) ==
    {i \in DOMAIN audit : audit[i] = [role |-> role, key |-> key, granted |-> TRUE]}

AuditedBeforeRead ==
    \A role \in Role, key \in Key :
        Cardinality(Holders(role, key)) <= Cardinality(GrantedEntries(role, key))
=============================================================================
