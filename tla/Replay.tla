------------------------------- MODULE Replay -------------------------------
(***************************************************************************)
(* data/replayer.py: WorkloadReplayer, iterated by several consumers of    *)
(* one thread.  A replay is a generator: it runs from one yield to the     *)
(* next, and between two yields of one replay the others may run and the   *)
(* log may grow or be removed.  A row is known by its place in the log and *)
(* by what the parser and the extractor make of it.                        *)
(***************************************************************************)
EXTENDS Integers, SequencesExt

CONSTANTS
    Iterator,    \* the generators made by replay() or iter()
    None,        \* max_rows: no limit; running: no generator is executing
    MaxRows,     \* bound on max_rows
    MaxLog       \* bound on the length of the log

ASSUME IteratorAssumption == IsFiniteSet(Iterator) /\ None \notin Iterator
ASSUME LimitAssumption == None \notin Nat
ASSUME BoundAssumption == MaxRows \in Nat /\ MaxLog \in Nat

VARIABLES
    log,             \* the rows of the file
    exists,          \* the path leads to the file
    active,          \* is_active: the constructor found the file
    max_rows,        \* self._max_rows
    rows_replayed,   \* self._rows_replayed, of all replays together
    state,           \* where each generator is
    at,              \* rows it has dealt with
    yielded,         \* places of the rows it has turned into keys
    running          \* the generator between two yields, or None

replayVars == <<log, exists, active, max_rows, rows_replayed, state, at, yielded, running>>

\* "blank": an empty or undecodable line of a JSON-lines file, dropped by
\* _parse_jsonlines (a csv has none); "odd": the extractor raises on it, as
\* for a line that is JSON but not an object; "good": it has a key.
Row == {"blank", "odd", "good"}

ReplayInit ==
    /\ log \in BoundedSeq(Row, MaxLog)
    /\ exists \in BOOLEAN
    /\ active = exists
    /\ max_rows \in 0..MaxRows \cup {None}
    /\ rows_replayed = 0
    /\ state = [i \in Iterator |-> "new"]
    /\ at = [i \in Iterator |-> 0]
    /\ yielded = [i \in Iterator |-> <<>>]
    /\ running = None
-----------------------------------------------------------------------------
\* The generator i has the thread.
Executes(i) == running \in {None, i}

Goto(i, where) ==
    /\ state' = [state EXCEPT ![i] = where]
    /\ running' = IF where = "open" THEN i ELSE None

\* The first next(): the file is opened now, not by the constructor.
OpenLog(i) ==
    /\ running = None
    /\ state[i] = "new"
    /\ Goto(i, IF ~active THEN "stopped" ELSE IF exists THEN "open" ELSE "FileNotFoundError")
    /\ UNCHANGED <<log, exists, active, max_rows, rows_replayed, at, yielded>>

SharedLimitMutant(i) == max_rows # None /\ rows_replayed >= max_rows

\* count, the loop's own counter, is the number of keys yielded.
LimitReached(i) == max_rows # None /\ Len(yielded[i]) >= max_rows

\* The generator reads the next row, of the file it has open.
Reads(i, kind) ==
    /\ Executes(i)
    /\ state[i] = "open"
    /\ at[i] < Len(log)
    /\ log[at[i] + 1] = kind

SkipBlank(i) ==
    /\ Reads(i, "blank")
    /\ at' = [at EXCEPT ![i] = @ + 1]
    /\ running' = i
    /\ UNCHANGED <<log, exists, active, max_rows, rows_replayed, state, yielded>>

\* break: the row that is not wanted any more has been read.
StopAtLimit(i) ==
    /\ Reads(i, "odd") \/ Reads(i, "good")
    /\ LimitReached(i)
    /\ Goto(i, "stopped")
    /\ UNCHANGED <<log, exists, active, max_rows, rows_replayed, at, yielded>>

CountOddMutant(i) ==
    /\ Reads(i, "odd")
    /\ ~LimitReached(i)
    /\ at' = [at EXCEPT ![i] = @ + 1]
    /\ rows_replayed' = rows_replayed + 1
    /\ running' = i
    /\ UNCHANGED <<log, exists, active, max_rows, state, yielded>>

\* The extractor raises, whatever it raises: continue.
SkipOdd(i) ==
    /\ Reads(i, "odd")
    /\ ~LimitReached(i)
    /\ at' = [at EXCEPT ![i] = @ + 1]
    /\ running' = i
    /\ UNCHANGED <<log, exists, active, max_rows, rows_replayed, state, yielded>>

Yield(i) ==
    /\ Reads(i, "good")
    /\ ~LimitReached(i)
    /\ at' = [at EXCEPT ![i] = @ + 1]
    /\ yielded' = [yielded EXCEPT ![i] = Append(@, at[i] + 1)]
    /\ rows_replayed' = rows_replayed + 1
    /\ running' = None
    /\ UNCHANGED <<log, exists, active, max_rows, state>>

EndOfLog(i) ==
    /\ Executes(i)
    /\ state[i] = "open"
    /\ at[i] = Len(log)
    /\ Goto(i, "stopped")
    /\ UNCHANGED <<log, exists, active, max_rows, rows_replayed, at, yielded>>

\* Whoever writes the log; an open generator goes on reading a removed file.
Grow(row) ==
    /\ exists
    /\ Len(log) < MaxLog
    /\ log' = Append(log, row)
    /\ UNCHANGED <<exists, active, max_rows, rows_replayed, state, at, yielded, running>>

RemoveLog ==
    /\ exists
    /\ exists' = FALSE
    /\ UNCHANGED <<log, active, max_rows, rows_replayed, state, at, yielded, running>>

ReplayNext ==
    \/ \E i \in Iterator :
          \/ OpenLog(i) \/ SkipBlank(i) \/ StopAtLimit(i)
          \/ SkipOdd(i) \/ Yield(i) \/ EndOfLog(i)
    \/ \E row \in Row : Grow(row)
    \/ RemoveLog

ReplaySpec == ReplayInit /\ [][ReplayNext]_replayVars
-----------------------------------------------------------------------------
(* However the replays of one replayer alternate, each yields every row     *)
(* that has a key, once and in the order of the log, as far as it has read  *)
(* and up to the limit, which each has for itself, and rows_replayed counts *)
(* the keys of all of them and nothing else.                                *)
EveryRowAccounted ==
    /\ \A i \in Iterator :
          /\ ToSet(yielded[i]) = {n \in 1..at[i] : log[n] = "good"}
          /\ \A j, k \in DOMAIN yielded[i] : j < k => yielded[i][j] < yielded[i][k]
    /\ max_rows # None => \A i \in Iterator : Len(yielded[i]) <= max_rows
    /\ rows_replayed = Cardinality(UNION {{i} \X DOMAIN yielded[i] : i \in Iterator})

(* "Stops after max_rows if set" (replayer.py:109): a replay ends when it    *)
(* has itself yielded max_rows keys or has come to the end of the log, and   *)
(* not because other replays have used the limit up.                        *)
StopsForAReason ==
    [][\A i \in Iterator :
          state[i] = "open" /\ state'[i] = "stopped" =>
              Len(yielded[i]) = max_rows \/ at[i] = Len(log)]_replayVars

=============================================================================
