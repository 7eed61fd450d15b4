------------------------- MODULE FrameCacheThreads -------------------------
(***************************************************************************)
(* put of class _FrameCache (core/cache.py) run by several threads without *)
(* a lock, while keys are pinned and unpinned.  A step ends where CPython  *)
(* may hand the GIL over: after a call, at the start of a function, at the *)
(* end of a loop iteration.  Only the keys of self._frames are kept: which *)
(* candidates are fresh and which has the lowest score is left open, so    *)
(* the three subclasses are covered.  get changes no key and is left out.  *)
(***************************************************************************)
EXTENDS Integers, FiniteSets

CONSTANTS
    Thread,      \* threads that share the cache
    Key,         \* chunk keys
    Pinnable,    \* the keys that are ever pinned
    Capacity     \* self.capacity

ASSUME CapacityAssumption == Capacity \in Nat \ {0}
ASSUME ThreadAssumption == IsFiniteSet(Thread) /\ Thread # {}
ASSUME KeyAssumption == IsFiniteSet(Key) /\ Pinnable \subseteq Key

VARIABLES
    resident,    \* the keys of self._frames
    pinned,      \* self._pinned
    pc,          \* where each thread is in put
    arg,         \* put's chunk_key
    snapshot,    \* the keys when the iteration over them began; then the candidates
    touched,     \* the keys pinned at some moment of that iteration
    pool,        \* _evict's pool: the fresh frames are out, if others remain
    todo,        \* the keys the current loop has still to visit
    mutated,     \* another thread has changed the keys since that iteration began
    steady,      \* history: the keys pinned all the time since _evict began
    robbed       \* history: another thread has removed a key during this put

locals == <<arg, snapshot, pool, todo>>
pins == <<pinned, touched, steady>>
vars == <<resident, pc, locals, pins, mutated, robbed>>

Resting == {"idle", "returned", "RuntimeError", "KeyError"}
Loop == {"fresh", "select", "survive"}
Location == Resting \cup Loop \cup {"size", "evict", "collect", "delete", "insert"}

IgnorePinsMutant(t) == SUBSET snapshot[t]

\* A key is left out if it is pinned when the iteration comes to it.
Candidates(t) ==
    {c \in SUBSET snapshot[t] : snapshot[t] \ touched[t] \subseteq c /\ c \cap steady[t] = {}}

Init ==
    /\ resident = {}
    /\ pinned = {}
    /\ pc = [t \in Thread |-> "idle"]
    /\ arg \in [Thread -> Key]
    /\ snapshot = [t \in Thread |-> {}]
    /\ touched = [t \in Thread |-> {}]
    /\ steady = [t \in Thread |-> {}]
    /\ pool = [t \in Thread |-> {}]
    /\ todo = [t \in Thread |-> {}]
    /\ mutated = [t \in Thread |-> FALSE]
    /\ robbed = [t \in Thread |-> FALSE]

\* pin and unpin, by whoever holds the cache.
Pin(key) ==
    /\ pinned' = pinned \cup {key}
    /\ touched' = [t \in Thread |-> IF pc[t] = "collect" THEN touched[t] \cup {key} ELSE touched[t]]
    /\ UNCHANGED <<resident, pc, locals, steady, mutated, robbed>>

Unpin(key) ==
    /\ pinned' = pinned \ {key}
    /\ steady' = [t \in Thread |-> steady[t] \ {key}]
    /\ UNCHANGED <<resident, pc, locals, touched, mutated, robbed>>

Goto(t, from, to) == pc[t] = from /\ pc' = [pc EXCEPT ![t] = to]

\* f = self._frames.get(chunk_key): a resident key is only refreshed.
Put(t, key) ==
    /\ pc[t] \in Resting
    /\ pc' = [pc EXCEPT ![t] = IF key \in resident THEN "returned" ELSE "size"]
    /\ arg' = [arg EXCEPT ![t] = key]
    /\ robbed' = [robbed EXCEPT ![t] = FALSE]
    /\ UNCHANGED <<resident, snapshot, pool, todo, pins, mutated>>

OffByOneMutant(t) ==
    /\ Goto(t, "size", IF Cardinality(resident) > Capacity THEN "evict" ELSE "insert")
    /\ UNCHANGED <<resident, locals, pins, mutated, robbed>>

\* len(self._frames) >= self.capacity
Size(t) ==
    /\ Goto(t, "size", IF Cardinality(resident) >= Capacity THEN "evict" ELSE "insert")
    /\ UNCHANGED <<resident, locals, pins, mutated, robbed>>

\* The locals of _evict go with the call.
Forget(t) ==
    /\ snapshot' = [snapshot EXCEPT ![t] = {}]
    /\ pool' = [pool EXCEPT ![t] = {}]
    /\ todo' = [todo EXCEPT ![t] = {}]
    /\ steady' = [steady EXCEPT ![t] = {}]
    /\ touched' = [touched EXCEPT ![t] = {}]
    /\ UNCHANGED pinned

\* The iteration over the dictionary begins.
Evict(t) ==
    /\ Goto(t, "evict", "collect")
    /\ snapshot' = [snapshot EXCEPT ![t] = resident]
    /\ touched' = [touched EXCEPT ![t] = pinned]
    /\ steady' = [steady EXCEPT ![t] = pinned]
    /\ mutated' = [mutated EXCEPT ![t] = FALSE]
    /\ UNCHANGED <<resident, pinned, arg, pool, todo, robbed>>

\* It ends without another look at the dictionary once the last key is out.
Collect(t) ==
    /\ \E candidates \in Candidates(t) :
          /\ Goto(t, "collect", IF candidates = {} THEN "RuntimeError" ELSE "fresh")
          /\ snapshot' = [snapshot EXCEPT ![t] = candidates]
          /\ todo' = [todo EXCEPT ![t] = candidates]
    /\ touched' = [touched EXCEPT ![t] = {}]
    /\ UNCHANGED <<resident, pinned, steady, arg, pool, mutated, robbed>>

\* "OrderedDict mutated during iteration", raised when a next key is asked for.
CollectMutated(t) ==
    /\ Goto(t, "collect", "RuntimeError")
    /\ mutated[t]
    /\ Cardinality(snapshot[t]) > 1
    /\ Forget(t)
    /\ UNCHANGED <<resident, arg, mutated, robbed>>

\* One iteration of a loop that reads self._frames[k]: for grace, for the
\* score, or to clear grace.
Visit(t) ==
    /\ pc[t] \in Loop
    /\ \E k \in todo[t] :
          /\ k \in resident
          /\ todo' = [todo EXCEPT ![t] = @ \ {k}]
    /\ UNCHANGED <<resident, pc, arg, snapshot, pool, pins, mutated, robbed>>

VisitGone(t) ==
    /\ pc[t] \in Loop
    /\ ~(todo[t] \subseteq resident)
    /\ pc' = [pc EXCEPT ![t] = "KeyError"]
    /\ Forget(t)
    /\ UNCHANGED <<resident, arg, mutated, robbed>>

\* The fresh candidates are spared unless there are no others.
Pool(t) ==
    /\ Goto(t, "fresh", "select")
    /\ todo[t] = {}
    /\ \E spared \in SUBSET snapshot[t] :
          /\ spared # snapshot[t]
          /\ pool' = [pool EXCEPT ![t] = snapshot[t] \ spared]
          /\ todo' = [todo EXCEPT ![t] = snapshot[t] \ spared]
    /\ UNCHANGED <<resident, arg, snapshot, pins, mutated, robbed>>

\* min(pool, key=...) has read a score for every key, and names one: the
\* pool shrinks to the victim.
Select(t) ==
    /\ Goto(t, "select", "delete")
    /\ todo[t] = {}
    /\ \E victim \in pool[t] : pool' = [pool EXCEPT ![t] = {victim}]
    /\ UNCHANGED <<resident, arg, snapshot, todo, pins, mutated, robbed>>

VisitVictimMutant(t) ==
    /\ pool[t] \subseteq resident
    /\ Goto(t, "delete", "survive")
    /\ resident' = resident \ pool[t]
    /\ todo' = [todo EXCEPT ![t] = snapshot[t]]
    /\ mutated' = [u \in Thread |-> mutated[u] \/ u # t]
    /\ robbed' = [u \in Thread |-> robbed[u] \/ u # t]
    /\ UNCHANGED <<arg, snapshot, pool, pins>>

\* del self._frames[victim]; the loop over the other candidates follows.
Delete(t) ==
    /\ pool[t] \subseteq resident
    /\ Goto(t, "delete", "survive")
    /\ resident' = resident \ pool[t]
    /\ todo' = [todo EXCEPT ![t] = snapshot[t] \ pool[t]]
    /\ mutated' = [u \in Thread |-> mutated[u] \/ u # t]
    /\ robbed' = [u \in Thread |-> robbed[u] \/ u # t]
    /\ UNCHANGED <<arg, snapshot, pool, pins>>

DeleteGone(t) ==
    /\ ~(pool[t] \subseteq resident)
    /\ Goto(t, "delete", "KeyError")
    /\ Forget(t)
    /\ UNCHANGED <<resident, arg, mutated, robbed>>

Survived(t) ==
    /\ Goto(t, "survive", "insert")
    /\ todo[t] = {}
    /\ UNCHANGED <<resident, locals, pins, mutated, robbed>>

\* self._frames[chunk_key] = _Frame(...): an existing frame is overwritten.
Insert(t) ==
    /\ Goto(t, "insert", "returned")
    /\ resident' = resident \cup {arg[t]}
    /\ mutated' = [u \in Thread |-> mutated[u] \/ (u # t /\ arg[t] \notin resident)]
    /\ Forget(t)
    /\ UNCHANGED <<arg, robbed>>

Step(t) ==
    \/ \E key \in Key : Put(t, key)
    \/ Size(t)
    \/ Evict(t)
    \/ Collect(t)
    \/ CollectMutated(t)
    \/ Visit(t)
    \/ VisitGone(t)
    \/ Pool(t)
    \/ Select(t)
    \/ Delete(t)
    \/ DeleteGone(t)
    \/ Survived(t)
    \/ Insert(t)

Next ==
    \/ \E t \in Thread : Step(t)
    \/ \E key \in Pinnable : Pin(key) \/ Unpin(key)

Spec == Init /\ [][Next]_vars
-----------------------------------------------------------------------------
TypeOK ==
    /\ resident \subseteq Key
    /\ pinned \subseteq Key
    /\ pc \in [Thread -> Location]
    /\ arg \in [Thread -> Key]
    /\ snapshot \in [Thread -> SUBSET Key]
    /\ touched \in [Thread -> SUBSET Key]
    /\ steady \in [Thread -> SUBSET Key]
    /\ pool \in [Thread -> SUBSET Key]
    /\ todo \in [Thread -> SUBSET Key]
    /\ mutated \in [Thread -> BOOLEAN]
    /\ robbed \in [Thread -> BOOLEAN]

\* The threads that have made room, or found some, and have not used it yet.
Reserved == {t \in Thread : pc[t] \in {"survive", "insert"}}

(* Threads can overfill the cache, but only so far: the keys it holds and   *)
(* the places promised to puts under way never exceed the capacity by more  *)
(* than the number of other threads.                                        *)
OverfillBounded ==
    Cardinality(resident) + Cardinality(Reserved) <= Capacity + Cardinality(Thread) - 1

(* A key is removed only by an eviction that has found it unpinned after it *)
(* began.  A pin that returns later comes too late for that eviction, and   *)
(* for no other.                                                            *)
PinnedStay ==
    [][\A key \in resident \ resident' :
          \E t \in Thread : pc[t] = "delete" /\ pc'[t] # "delete" /\ key \notin steady[t]]_vars

Raises(t, exception) == pc[t] # exception /\ pc'[t] = exception

(* What put raises without a race, one thread alone could get.  A KeyError  *)
(* is always the work of another thread, which has removed a key during     *)
(* this call.  A RuntimeError, if no other thread has changed the keys      *)
(* since the iteration over them began, means that every resident key was   *)
(* pinned at some moment of it ("all frames pinned"); and if none has       *)
(* removed a key during the call, that the cache was full.                  *)
ErrorsNeedRace ==
    [][\A t \in Thread :
          /\ Raises(t, "KeyError") => robbed[t]
          /\ Raises(t, "RuntimeError") /\ ~mutated[t] =>
                /\ resident \subseteq touched[t]
                /\ ~robbed[t] => Cardinality(resident) >= Capacity]_vars
=============================================================================
