--------------------------- MODULE TinyLFUCache ----------------------------
(***************************************************************************)
(* classes _CountMinSketch and TinyLFUCache of core/cache.py: an LRU list  *)
(* whose door is kept by a frequency sketch.  The sketch is modelled cell  *)
(* by cell, with the hash of each row a constant function, so collisions   *)
(* are those of the instance.  The history variable accesses counts the    *)
(* calls for each key exactly, and ages when the sketch ages.              *)
(***************************************************************************)
EXTENDS Integers, SequencesExt

CONSTANTS
    Key,         \* chunk keys
    Capacity,    \* self.capacity
    Row,         \* the rows of the table: depth = 4 in the code
    Column,      \* the cells of a row: width = 512 in the code
    Idx,         \* Idx[row][key]: the column of _idx, any hash
    Sample       \* increments before aging: 8 * width in the code

ASSUME CapacityAssumption == Capacity \in Nat \ {0}
ASSUME IdxAssumption == Idx \in [Row -> [Key -> Column]]
ASSUME RowAssumption == Row # {}
ASSUME SampleAssumption == Sample \in Nat \ {0}
ASSUME FiniteAssumption == IsFiniteSet(Column) /\ IsFiniteSet(Key)

VARIABLES
    main,        \* self._main, least recently used first
    table,       \* the rows of counters
    total,       \* increments since the counters were last halved, halved with them
    regions,     \* keys of self._region, also those that were turned away
    hits, misses, pinned,
    outcome,     \* what the last call returned or raised
    accesses     \* history: the exact count the sketch approximates

vars == <<main, table, total, regions, hits, misses, pinned, outcome, accesses>>

Resident == ToSet(main)
Full == Len(main) >= Capacity

Without(s, key) == RemoveAt(s, CHOOSE i \in DOMAIN s : s[i] = key)
ToMRU(key) == Append(Without(main, key), key)

HalfOf(f) == [x \in DOMAIN f |-> f[x] \div 2]

SingleRowMutant(tab, key) ==
    [tab EXCEPT ![CHOOSE row \in Row : TRUE] =
        [@ EXCEPT ![Idx[CHOOSE row \in Row : TRUE][key]] = @ + 1]]

\* One more in the key's cell of every row.
Counted(tab, key) ==
    [row \in Row |-> [tab[row] EXCEPT ![Idx[row][key]] = @ + 1]]

LateAgingMutant(key) ==
    LET counted == Counted(table, key)
        exact == [accesses EXCEPT ![key] = @ + 1]
        age == total + 1 > Sample
    IN  /\ table' = IF age THEN [row \in Row |-> HalfOf(counted[row])] ELSE counted
        /\ total' = IF age THEN (total + 1) \div 2 ELSE total + 1
        /\ accesses' = IF age THEN HalfOf(exact) ELSE exact

ResetTotalMutant(key) ==
    LET counted == Counted(table, key)
        exact == [accesses EXCEPT ![key] = @ + 1]
        age == total + 1 >= Sample
    IN  /\ table' = IF age THEN [row \in Row |-> HalfOf(counted[row])] ELSE counted
        /\ total' = IF age THEN 0 ELSE total + 1
        /\ accesses' = IF age THEN HalfOf(exact) ELSE exact

\* increment, with _age once the sample is complete: every counter is halved,
\* rounding down, and the total with them.
Increment(key) ==
    LET counted == Counted(table, key)
        exact == [accesses EXCEPT ![key] = @ + 1]
        age == total + 1 >= Sample
    IN  /\ table' = IF age THEN [row \in Row |-> HalfOf(counted[row])] ELSE counted
        /\ total' = IF age THEN (total + 1) \div 2 ELSE total + 1
        /\ accesses' = IF age THEN HalfOf(exact) ELSE exact

\* The estimate of a key in a table of counters: the least of its cells.
Estimate(tab, key) == Min({tab[row][Idx[row][key]] : row \in Row})

OldestMutant == IF main = <<>> THEN 0 ELSE 1
\* The position of the first unpinned key of the list, 0 if there is none.
Oldest == SelectInSeq(main, LAMBDA key : key \notin pinned)
-----------------------------------------------------------------------------
Init ==
    /\ main = <<>>
    /\ table = [row \in Row |-> [column \in Column |-> 0]]
    /\ total = 0
    /\ regions = {}
    /\ hits = 0 /\ misses = 0
    /\ pinned = {}
    /\ outcome = "new"
    /\ accesses = [key \in Key |-> 0]

\* get counts the access before it looks the key up.
GetHit(key) ==
    /\ key \in Resident
    /\ Increment(key)
    /\ main' = ToMRU(key)
    /\ hits' = hits + 1
    /\ outcome' = "hit"
    /\ UNCHANGED <<regions, misses, pinned>>

GetMiss(key) ==
    /\ key \notin Resident
    /\ Increment(key)
    /\ misses' = misses + 1
    /\ outcome' = "miss"
    /\ UNCHANGED <<main, regions, hits, pinned>>

\* put counts the access again and remembers the region, even of a key that
\* is then turned away or refused.
PutBegins(key) ==
    /\ Increment(key)
    /\ regions' \in {regions, regions \cup {key}}
    /\ UNCHANGED <<hits, misses, pinned>>

PutAgain(key) ==
    /\ key \in Resident
    /\ PutBegins(key)
    /\ main' = ToMRU(key)
    /\ outcome' = "done"

PutRoom(key) ==
    /\ key \notin Resident
    /\ ~Full
    /\ PutBegins(key)
    /\ main' = Append(main, key)
    /\ outcome' = "done"

\* The door compares the estimates after this access has been counted.
AlwaysAdmitMutant(key, victim) == TRUE
Admits(key, victim) == Estimate(table', key) >= Estimate(table', victim)

PutTrade(key) ==
    /\ key \notin Resident
    /\ Full
    /\ Oldest # 0
    /\ PutBegins(key)
    /\ Admits(key, main[Oldest])
    /\ main' = Append(RemoveAt(main, Oldest), key)
    /\ outcome' = "done"

PutTurnedAway(key) ==
    /\ key \notin Resident
    /\ Full
    /\ Oldest # 0
    /\ PutBegins(key)
    /\ ~Admits(key, main[Oldest])
    /\ outcome' = "done"
    /\ UNCHANGED main

PutRefused(key) ==
    /\ key \notin Resident
    /\ Full
    /\ Oldest = 0
    /\ PutBegins(key)
    /\ outcome' = "RuntimeError"
    /\ UNCHANGED main

Get(key) == GetHit(key) \/ GetMiss(key)
Put(key) ==
    \/ PutAgain(key)
    \/ PutRoom(key)
    \/ PutTrade(key)
    \/ PutTurnedAway(key)
    \/ PutRefused(key)

Pin(key) ==
    /\ pinned' = pinned \cup {key}
    /\ outcome' = "done"
    /\ UNCHANGED <<main, table, total, regions, hits, misses, accesses>>

Unpin(key) ==
    /\ pinned' = pinned \ {key}
    /\ outcome' = "done"
    /\ UNCHANGED <<main, table, total, regions, hits, misses, accesses>>

Next == \E key \in Key : Get(key) \/ Put(key) \/ Pin(key) \/ Unpin(key)

Spec == Init /\ [][Next]_vars
-----------------------------------------------------------------------------
(* Types; the list holds no key twice and never more keys than the          *)
(* capacity, and the sketch is always aged before a caller sees a complete  *)
(* sample.                                                                  *)
TypeOK ==
    /\ main \in Seq(Key) /\ IsInjective(main) /\ Len(main) <= Capacity
    /\ table \in [Row -> [Column -> Nat]]
    /\ total \in 0 .. (IF Sample > 1 THEN Sample - 1 ELSE 0)
    /\ regions \subseteq Key /\ pinned \subseteq Key
    /\ hits \in Nat /\ misses \in Nat
    /\ outcome \in {"new", "hit", "miss", "done", "RuntimeError"}
    /\ accesses \in [Key -> Nat]

(* The sketch errs on one side only, through any number of agings: the      *)
(* estimate of a key is never below its exact, equally aged count.          *)
NeverUnderestimates == \A key \in Key : Estimate(table, key) >= accesses[key]

(* The counters of a row never add up to more than the total that decides   *)
(* when to age, so aging is never late.                                     *)
RowsWithinTotal == \A row \in Row : SumFunction(table[row]) <= total

(* In some row no other key hashes to the cell of this one.                 *)
Alone(key) ==
    \E row \in Row : \A other \in Key \ {key} : Idx[row][other] # Idx[row][key]

(* A newcomer evicts a key only if its own estimate has reached the exact   *)
(* count of the evicted key; and if a single row keeps the newcomer apart   *)
(* from all other keys, only if it has itself been asked for as often.      *)
(* One-off keys that collide with nothing cannot flood out a proven hot key.*)
HotKeysSurvive ==
    [][\A key \in Resident, new \in Key :
          ~Contains(main', key) /\ new \notin Resident /\ Contains(main', new)
          => /\ Estimate(table', new) >= accesses'[key]
             /\ Alone(new) => accesses'[new] >= accesses'[key]]_vars

Abstract == INSTANCE CachePolicy WITH resident <- Resident, Door <- TRUE

(* TinyLFU keeps the interface, with a door.                                *)
ImplementsPolicy == Abstract!Spec
=============================================================================
