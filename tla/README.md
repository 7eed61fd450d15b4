# A verification development for SCADS

SCADS (`core/`, about 770 lines of Python) cuts a data set into chunks, indexes
them, tracks their use in an eviction cache, and serves them encrypted, behind
role-based access control and an audit log. `benchmarks/`, `data/` and
`analysis/` measure that core. This directory holds TLA+ modules of the core,
the TLC configurations that check them on small instances, and proofs of their
main properties that the TLA+ proof system checks for every instance.

## 1. Inventory

| Part | State | Operations | Met with |
|---|---|---|---|
| `core/segmenter.py` | the chunks and the id counter of one call | `segment`, `reassemble`, three key recipes | called with a batch of records; gives chunks to the index and the store |
| `core/index.py` | `_index`: key -> ids | `build`, `lookup` | `query` step 1 |
| `core/cache.py` `_FrameCache` | `_frames`, `_clock`, counters, `_pinned` | `get`, `put`, `pin`, `unpin`; subclasses differ in `_select_victim` | `query` steps 2 and 4 |
| `core/cache.py` `ARCCache` | `_t1 _t2 _b1 _b2`, `p`, `_region` | the same | the same |
| `core/cache.py` `TinyLFUCache`, `_CountMinSketch` | `_main`, the counter table, `_total`, `_region` | the same, with an admission door | the same |
| `core/security.py` | `_policy`, `entries`, `_blobs` | `grant`, `revoke`, `is_allowed`, `log`, `store_records`, `fetch` | `query` step 3 |
| `core/pipeline.py` | none of its own but references | `query` | wires the four layers; many threads call it without a lock |
| `benchmarks/bench_writes.py` | a system built by `_build_system` | build, bulk load, in-chunk and cross-chunk updates | works on the index and on the private `_blobs` |
| `benchmarks/bench_cache.py`, `bench_baseline_cache.py`, `workloads.py` | one cache or adapter per trial | generate queries, fill the cache, replay | call `get` and `put` |
| `data/kdd.py`, `taxi.py`, `weblog.py` | none | load a real file or generate records | feed the segmenter and the benchmarks |
| `data/replayer.py` | a row stream, counters | replay | feeds queries to the benchmarks |
| `benchmarks/bench_index.py`, `bench_security.py` and `bench_cache.py` as scripts, `analysis/` | the results directory | measure, write results, draw figures, write tables | each script reads what earlier ones have written |
| `benchmarks/bench_baseline_sql.py`, `stats.py` | none that outlives a measurement | time, summarise | |

There is no network, no disk state and no lock in the core; only the scripts around it leave files. What is hard here:

* **Threads.** `core/pipeline.py` relies on "Python's GIL serialising bytecode
  execution". The GIL makes one bytecode atomic, not a method: a fetch can be
  interleaved with a grant, a revoke, a store and other fetches, and `put` of one
  cache with another `put` of the same cache.
* **Long call sequences.** ARC's four lists obey bounds that its code tests with
  equality and that pinning (which the published algorithm lacks) might break;
  the sketch ages by rounding down; the grace rule of `_FrameCache` overrides the
  order of each subclass.
* **One step of several failing.** `put` can raise in the middle of a query or
  after it has changed ARC's ghosts; a corrupted blob raises out of `fetch`; one
  record can end an ingestion.
* **Stale state.** A decision is used after the policy has changed, a role's set after the
  role has been revoked; a rebuilt index stands beside blobs of earlier batches;
  constructors replace falsy arguments.
* **Crashes between files.** The published figures and tables are written by scripts that can
  stop anywhere, into a directory that still holds the files of earlier runs.

What makes each part correct, in one line each: the segmenter neither loses nor
duplicates a record and numbers its chunks densely; the index names exactly the
stored chunks; a cache never exceeds its capacity, never evicts a pinned key,
answers "hit" exactly for resident keys and raises only when everything is
pinned; the store returns only payloads that were really stored, to roles that
were really allowed, after an audit entry; the pipeline audits exactly what it
counts; a grant lasts until its role is revoked and not longer; figures and tables show the
results that lie beside them. `PROJECT.json` lists the hazards with their lines.

## 2. The modules

```
CachePolicy  <--refines--  FrameCache   ARCCache   TinyLFUCache
     ^                         |
     | INSTANCE                +-- FrameCacheThreads (inside put, several threads)
  Pipeline --EXTENDS--> SecureStore            Loaders --EXTENDS--> Writes --EXTENDS--> Ingest
     |                     AccessControl (inside grant and is_allowed, several threads)
  CacheBench (refines it twice, uses it once)  Replay   Reporting
```

**CachePolicy** is the abstract specification: what `class CachePolicy` promises,
seen through the set of resident keys. `put` either refreshes, finds room, trades
an unpinned key, is turned away (only with `Door`, TinyLFU) or is refused.

**FrameCache** is `_FrameCache` with its three subclasses; `policy` says which. One
call is one action, split by its early returns (`GetHit`, `GetMiss`, `PutAgain`,
`PutRoom`, `PutEvict`, `PutRefused`). `_evict` is part of `PutEvict`, its trailing
loop over the surviving candidates included. The score of SCADS is kept as an
integer: 0.6 min(n/10, 1) + 0.4 geo is multiplied by 100 * FreqCap. Two different
scores of the code differ by at least 0.02, far more than a rounding error, so
the order is the same. `min` with a tie is left open over the tied frames.

**ARCCache** keeps the four lists as sequences from least to most recently used,
and the five cases of `put` as actions. The order of effects inside a `put` that
raises is kept: `p` has moved and a ghost may be gone. `popitem` of an empty
list is modelled as the KeyError it would raise.

**TinyLFUCache** keeps the count-min sketch cell by cell. The hash is the constant
`Idx`: any function, so a run decides which keys collide. `accesses` is a history
variable: the exact count, aged when the sketch ages.

**FrameCacheThreads** looks inside `put`. A step ends where CPython 3.13 may hand
over the GIL (after a call returns, at a function's start, at a loop's back
edge). Only the keys of `_frames` are kept: which candidates are fresh and which
scores lowest is left open, so it covers every subclass. Keys are pinned and
unpinned at any moment: a key is a candidate if it is unpinned when the
comprehension comes to it, so `Candidates` is the set of all candidate lists that pins and
unpins during the iteration allow. `get` changes no key and is left out. An iteration over a dictionary that another thread has
changed raises when the next key is asked for; a missing key raises KeyError.

**SecureStore** is `AccessControl`, `AuditLogger` and `SecureChunkStore`: `fetch` is
five steps (`FetchDecide`, `FetchLog`, `FetchDeny` or `FetchRead`, then
`FetchDecrypt` or `FetchInvalidTag`), one per access to shared state. AES-GCM is
external: a blob decrypts to what was encrypted or, once changed, raises.
`seen` is a history variable: for each call in progress, what the policy
and the store have said of its role and key at any moment of the call. Its decision is one
step; that this loses nothing a caller could notice is what AccessControl is for.

**AccessControl** looks inside `grant`, `revoke` and `is_allowed`. `self._policy.get(role)` is one
step and what is done with the result another, so a thread may add to, or ask, a
set that another thread has replaced or thrown away. Sets are therefore objects with an
identity (`object`), and `policy` names one. `live`, `seen`, `raced` and `owed` are history
variables: what has been granted and not revoked, what of it a question in progress has
met, which grants another write of the role has overlapped, and what the others have granted.

**Pipeline** is `query` on top of it: `Lookup`, `CacheGet`, `Fetch`, then `Populate` or
`ReturnHit`. The cache is `CachePolicy` with a door, hence any of the caches, each
call atomic. Between any two steps the owner may grant, revoke, store, corrupt,
pin and unpin. The index is built first and stays, as in `_build_system`; any set
of keys may be indexed.

**Ingest** is `segment` record by record under each recipe, `SmartIndex.build`, then
one `store_records` per chunk, for several batches in a row. A field is a tagged
value: an integer, digits, other text, an infinity, a list, or missing, because
what `int()` and `hash()` do with it is what the properties are about.

**Writes** goes on where one ingestion has ended: `bench_s2` overwrites a field of a chunk's
first record, `bench_s3` moves a chunk's first record to the end of another chunk. The
script has one thread and neither loop body can fail on blobs it wrote itself, so one
iteration is one action (decrypt, change, encrypt, store back and, in `bench_s3`, two
lookups that change nothing). A moved record keeps its fields, so it ends up in a chunk
of another key; the source calls this a simulation and the module models it as it is. The
draws of `bench_s3`, which repeats the second until it differs from the first, are steps of
their own (`Draw`).
`edited` records which records have been overwritten; `stage` which loop runs.

**Loaders** puts `data/` in front of it: `kdd._parse_real` and `taxi._parse_real` turn the lines and
rows of a real file into records, with what is skipped (`ParseKDD`), coerced
(`TaxiHour`) or refused (`TaxiRaises`); the three generators make any record within their ranges. A batch is
then segmented like a caller's; `origin` says where it came from.

**CacheBench** is one trial of the cache benchmarks: fill a cache with the first distinct keys of a
query list, then replay the list, `get` first and `put` after a miss. The code replays the list
for one policy after another, with equally seeded generators; the module lets all policies go
through it side by side. `core/cache.py`'s caches are one instance of `CachePolicy`; `_RefLRU` and `_RefLFU` are
modelled in full and refine it: the mapping counts an answer when `get` gives it, the
driver only after the `put`. cachetools' LRU is external, modelled from its use by the adapter.

**Replay** is `WorkloadReplayer`: several generators over one log, each running from one `yield` to the
next (`running`), while the log grows or is removed in between. The file is opened by the
first `next()`, its existence tested by the constructor; both are in the model. A row is
known by its place and by whether it is blank, raises in the extractor, or has a key.

**Reporting** is `analysis/run_all.py` and the scripts it calls, statement by statement: `todo` is what the
running script has still to do, `file` the results directory. A file is emptied by
`Open` and complete after `Write`; `Stop` (an exception, a full disk, a signal) may come between
any two steps, and the next script finds what is there. A number is known by the run and the
data file it comes from, so a figure *shows* a result and Table B a verdict of pytest.

A module named `MC...` gives a module its instance (Reporting needs only a `.cfg`); a module named `...Proofs` holds
theorems: DataProofs those of Loaders and Replay, EvaluationProofs those of Reporting and CacheBench, FrameCacheProofs
those of CachePolicy and FrameCache, the others those of the module they are named after.
Replay and CacheBench name their specifications `ReplayInit`, `ReplayNext`, `BenchInit`, `BenchNext` and so on, because they share a proof module with another. Operators named `...Mutant` are plausible bugs, each stated next to
the definition it would replace; no specification uses them.

## 3. The runs

| Run | Checks | Bounds | States |
|---|---|---|---|
| `frame_cache` | types, `RecencyDistinct`, `FreshSpared`, `GraceLastsOneEviction`, `GeoMatchOutweighs`, refinement of CachePolicy | 3 keys, 2 slots, 2 regions and None, 7 timed calls, FreqCap 3 | 227 thousand |
| `arc_cache` | types, `DirectoryBounded`, `GhostsOnlyWhenFull`, `ScanSparesT2`, refinement | 5 keys, 2 slots, no bound on calls | 8 thousand |
| `tinylfu_cache` | types, `NeverUnderestimates`, `RowsWithinTotal`, `HotKeysSurvive`, refinement | 3 keys of which 2 have a cell of their own in one row, 2 slots, 2 x 2 cells, sample 16, no bound on calls | 221 thousand |
| `pipeline` | types, `AnswersAreGenuine`, `AuditedBeforeRead`, `CountedIsAudited`, `EmptyIsJustified` | 2 threads, 2 keys, 2 payloads, 1 role, 1 slot, 2 queries, 3 changes | 1.2 million |
| `pipeline_denial` | (violation) `NeverRaisesForDenial` | 2 changes | |
| `frame_cache_threads` | `OverfillBounded`, `ErrorsNeedRace`, `PinnedStay` | 2 threads, 3 keys of which 1 is pinned and unpinned, 2 slots, no bound on calls | 87 thousand |
| `ingest` | types, `RecordsPartitioned`, `IndexMatchesStore`, `UpdatesConserveRecords`, `LoadedRecordsIngest`, `UpdatesFinish` | 7 records, 3 KDD lines, 3 taxi rows, batches of up to 3, 2 batches, 3 recipes, 3 updates | 496 thousand |
| `ingest_malformed` | (violation) `MalformedStillIngest` | the same | |
| `cache_bench` | `WarmStart`, `ReferenceMatches`, `LRUKeepsMostRecent`, `ReferencesImplementPolicy` | 4 keys, 2 slots, every list of 7 queries | 41 thousand |
| `replay` | `EveryRowAccounted`, `StopsForAReason` | 2 replays, logs of up to 4 rows, limits 0 to 2 and none | 37 thousand |
| `reporting` | `SameRun`, `FiguresAreOneReading` | 3 scripts, 2 sizes in the index benchmark | 4.6 million |
| `access_control` | `NoGrantOutlivesRevoke`, `LostGrantNeedsRace` | 3 threads, 2 roles, 2 keys, 4 calls | 388 thousand |

Why the bounds are enough for the interesting cases:

* *frame_cache.* Two slots and a third key give evictions with a choice; seven
  calls are enough to fill the cache, let one frame survive, hit both and evict
  by score. FreqCap 3 instead of 10 lets the frequency term saturate within
  those calls. Only `get` and `put` move the clock, so only they are bounded.
* *arc_cache.* Five keys exceed the 2c = 4 of the whole directory, so ghosts are dropped,
  forgotten and hit again. The state space closes by itself.
* *tinylfu_cache.* k1 collides with k2 in one row and with k3 in the other, so every
  estimate can be inflated. Aging keeps the counters finite, so the run
  covers any number of agings.
* *pipeline.* Two calls are enough to overlap in any order; three changes suffice to
  revoke and grant again, or to store, corrupt and store again, during one call.
* *frame_cache_threads.* Two threads of any number of puts each; three keys of which one
  is pinned now and then leave two evictable ones for the threads to fight over. The bound of
  `OverfillBounded` is proved for every number of threads.
* *ingest.* The records lie on both sides of each modulus, and include a negative
  number, digits in a string, garbage, an infinity and an unhashable value. Two
  batches show what the index and the store keep of the first. Three updates
  suffice to empty a chunk and to move a record away and back. A KDD file has up to one line more
  than is asked for, among its lines one too short and one with an infinity; a taxi file
  has a row without a date and one without a location.
* *cache_bench.* Four keys against two slots: lists that fit into the cache, that just
  do not, and that keep evicting, with up to five queries after the fill to build
  up differences in frequency and recency.
* *replay.* Four rows hold every order of a skipped and a kept row on both sides of a
  limit of two; the second replay can start, overtake or stop at any point of the first.
* *reporting.* Three scripts: one that leaves results, one that is stopped among them, one that uses
  what is left. Two sizes let the data file come or go within one benchmark.
* *access_control.* Three threads, so that two writers and a question meet; four calls allow
  grant, revoke, grant again and a question, all overlapping.

`VIEW` leaves out variables that steps write and no step reads: `hits`, `misses`,
`outcome`, and `regions`. The refinement and the action properties judge a step by
the values it writes, so a state merged away has the same future. `SYMMETRY` is used
for keys, regions, threads and payloads that nothing distinguishes; no run with
symmetry checks liveness. `CHECK_DEADLOCK FALSE` is set for the pipeline, where
calls and changes are bounded and everything may be used up, and for the ingestion,
which ends when it has raised or its batches are used up, for the trial and the
replays, which end, and for the scripts and the policy, whose calls are bounded. The frame cache with
its bounded clock can always pin and unpin.

**Fairness.** Only `Writes` (and with it `Loaders`) assumes any: weak fairness of the two update loops and of
the draws, for `UpdatesFinish`. The script has one thread, so a loop that has begun runs
on. The fairness of `Draw` is for all chunks together; a second draw of the same chunk leaves the state
as it is and is no step, so the assumption is that `random.choice` does not draw the same
chunk for ever. The property still fails where there is
no second chunk to draw, which is what the test for two chunks at line 327 prevents. Everything else neither waits nor
retries: no lock, no queue, every call returns or raises by running on, so all other properties are
safety properties and refinements.

## 4. What is proved

Every property of a passing run but one is proved for every value of the constants that satisfies the assumptions
below; the one is `UpdatesFinish`, which is liveness. That a model may take the calls of another for atomic (the pipeline those
of the cache and of the policy) is stated by no run and no theorem; sections 5 and 6 say what speaks for it.
The bounds of the runs (`MaxClock`, `MaxCalls`, `MaxBatch`, `MaxLog`, `QueryCount`, ...) are constants
too, so a theorem holds for calls, batches and lists of any number. The eight modules with proofs:

| Module | Theorems | Inductive invariant |
|---|---|---|
| FrameCacheProofs | the interface: `PolicyTypes`, `PolicyCapacity`, `PolicyPinnedStay`, `PolicyFullStaysFull`; the frame caches: types, `RecencyDistinct`, `FreshSpared`, `GraceLastsOneEviction`, `GeoMatchOutweighs`, the refinement, `FrameCacheKeepsPromises` | `TypeOK /\ RecencyDistinct` |
| ARCCacheProofs | types, `DirectoryBounded`, `GhostsOnlyWhenFull`, `ScanSparesT2`, the refinement, `ARCKeepsPromises` | `Good(Lists) /\ Scalars` |
| TinyLFUCacheProofs | types, `NeverUnderestimates`, `RowsWithinTotal`, `HotKeysSurvive`, the refinement, `TinyLFUKeepsPromises` | `TypeOK /\ EveryCell /\ LoneCells /\ RowsWithinTotal` |
| FrameCacheThreadsProofs | `OverfillBounded`, `ErrorsNeedRace`, `PinnedStay` | `TypeOK /\ Shape /\ Undisturbed`, then `FullWhenEvicting` and the bound |
| AccessControlProofs | `NoGrantOutlivesRevoke`, `LostGrantNeedsRace` | `IInv`, in four layers |
| PipelineProofs | types, `AnswersAreGenuine`, `EmptyIsJustified`, `AuditedBeforeRead`, `CountedIsAudited`, the use of the cache interface | `Types /\ Witnessed /\ Locals /\ Evidence /\ Ingested /\ EmptyIsJustified`, then two counts |
| DataProofs | `DataTypes`, `RecordsPartitioned`, `IndexMatchesStore`, `UpdatesConserveRecords`, `LoadedRecordsIngest`; `EveryRowAccounted`, `StopsForAReason` | `DataInv`; `ReplayInv` |
| EvaluationProofs | `SameRun`, `FiguresAreOneReading`; `WarmStart`, `ReferenceMatches`, `LRUKeepsMostRecent`, the two refinements | `Inv` of the scripts; `BenchInv` |

**Assumptions.** The proofs take only those of the constants, each named in its module: a positive
capacity (the constructor raises otherwise), finite sets of keys and threads (and at least one thread
where the bound counts them), `None` not a region, a number or an iterator, pinned keys among the keys, at least one
role and key, at least one row in the sketch and a hash into its columns, fields of records,
lines and rows of the kinds the loaders tell apart (`RecordAssumption`, `LineAssumption`,
`TaxiRowAssumption`, `DrawsAssumption`: hours of the generators lie in a day), and at least one query and one sweep size.

*FrameCacheProofs.* `PolicyCapacity` goes by the size of `resident`: a trade keeps it, room leaves it at
most at the capacity. `TypeOK` of the frames says that no stamp is ahead of the clock; without it the
frame stamped `clock + 1` could share its stamp with another, so `RecencyDistinct` is not inductive
alone. The lemmas `NewFrameType`, `TouchedFrame`, `RefreshedFrame` say what each helper does
to a frame, `EvictFrames`, `HitFrames`, `AgainFrames`, `RoomFrames`, `StillFrames` what each
kind of step does to all of them, and the preservation lemmas and `GraceLastsOneEviction` use those alone.
`GeoMatchOutweighs` is arithmetic on two scores (`MatchWorth`): the geographical terms differ by
32 * FreqCap, and the victim has the lower score. `FrameCacheImplementsPolicy` shows the
refinement: the initial state maps to the abstract one and each action to the
abstract action of the same kind, or to a stutter. What a caller relies on is drawn from it: each of the three cache
modules ends with a theorem `...KeepsPromises` (never more keys than the capacity, no step takes a pinned key out, a full
cache stays full), whose proof uses the refinement and the abstract actions only.

*ARCCacheProofs.* The four lists are one record. `Good` says of it what both bounds need and neither
implies: no key twice (`Apart`), T1 and B1 within c, all four within 2c, T1 and T2 within c, and a ghost
only when T1 and T2 are full. It is inductive only as a whole: `PutGhostB1` makes its eviction without
comparing sizes, which is right because the ghost it hit shows that the cache is full. `Put` takes a
good record to a good record even when it ends in RuntimeError half way. The refinement needs, besides, that
`popitem` never meets an empty list.

*TinyLFUCacheProofs.* `NeverUnderestimates` speaks of the least cell of a key. `EveryCell` says it of all cells the key
hashes to, and that is preserved: counting adds to each of them, halving keeps the order. `LoneCells` says that a cell
that one key has for itself is exact. `HotKeysSurvive` needs both: the victim's estimate is at least its exact count, and the estimate of
a newcomer with a cell of its own is at most its exact count. `RowsWithinTotal` is about sums; `SumUnfolds` takes
one counter out of the fold, and with it `SumCompares` and `SumCounts` say
what halving each counter and counting one of them does to their sum. (Halving a sum rounds down less often than halving its
terms, so the total stays ahead.)

*FrameCacheThreadsProofs.* `Shape` says
what each location of `put` knows of its locals (the victim is one key of the pool, the
pool lies among the candidates, and none of these has been pinned ever since the eviction began; an iteration over keys that
nobody has changed still iterates over the resident ones); `Undisturbed` says that a call during which no other thread
has removed a key still sees its candidates resident. From them follows
`ThreadsPinnedStay`, and with `FullWhenEvicting` (the test of the size stays true as long as no other thread removes a key)
`ThreadsErrorsNeedRace`: the RuntimeError of `_evict` means what its message says unless another thread
has changed the dictionary under the iteration, and a KeyError always means that. `ThreadsOverfillBounded` is inductive relative to
the same invariant: `resident` plus the threads that hold a place (`Reserved`) never exceed the capacity by
more than N - 1. A thread that finds room leaves at most N - 1 others with a place, a
deletion trades a resident key for a place, an insertion trades it back.

*AccessControlProofs.* `IInv` has four layers, each preserved with the help of those before it. `TypeOK` says
that a thread about to use a set holds one made for the role of its call. `OnlyLive`:
the set in force, and every grant under way, is within what its role has been granted; `NoGrantOutlivesRevoke`
alone is not inductive, because nothing in it speaks of a set before it is asked. `AskersSee`: a question has
seen all that is live for its role, and all that the set it holds contains, though that set may
no longer be in force. `GrantsHold`: a grant that nothing has overlapped is the only one of its role, finds
no set when it is about to install one, and holds the set in force when it is about to add; with
it `LostGrantNeedsRace` is inductive. The proof cuts the steps into lemmas about what
happens to the objects (`AddKey`, `NewObject`, `ObjectsGrow`), to the questions (`AnswerTrue`,
`WitnessSees`) and to what is owed (`NothingOwed`, `AllowsKept`, `NewlyOwed`).

*PipelineProofs.* `AnswersAreGenuine` speaks of calls that have returned, so it says nothing of a call half way.
`Witnessed` says that a call in progress has seen the present state, whoever changed it; `Locals` which of
fetch's locals are still untouched; `Evidence` that each local that has been set is explained by something
the call has seen: a grant by an allowed role, a blob by the store, a result by the decryption of that blob.
`CountedIsAudited` and `AuditedBeforeRead` count log entries and threads: an entry appended is matched with the one thread that
moves past `log` (`LoggedInLog`). `PipelineUsesCachePolicy` shows that every step is one of the cache
interface or leaves the cache alone, so what is proved of the interface holds inside a query.

*DataProofs.* `Partitioned` is the loop invariant of `segment`: the chunks of the records seen so far hold each
of them once, in order, under its key. `DataInv` is `Control /\ Grouped /\ Following /\ Updating /\ Loading`:
what each phase knows of the counters; the loop invariant; that the index and the
store follow the chunks until updates move records (`Kept`); that afterwards the store as a whole still holds each
record once (`Spread`), though not under its key; and that what a loader makes is digestible. `UpdatesConserveRecords`
alone is not inductive, because the moves begin from what the store was left with. For the replayer,
`ReplayInv` says of each generator that it has yielded exactly the good rows of the part of the log it has read, in order
and within its limit (`Progress`), and that the shared counter is the number of rows yielded by all of them.

*EvaluationProofs.* The statements of `run_all` have an order (`Rank`), and every script runs a stretch of it
(`Shape`). `Inv` says by the rank of the next statement what is done: what has been drawn
and from which reading (`Drawn`), which artefacts are of this run (`SoFar`), and that nothing since has torn them.
`BenchInv` says how the caches are filled (`Filling`), that they hold the filled keys until the list asks for
another (`Warm`), and that the list of the LRU fallback is ordered by last requests (`Recent`, stated with `Before` so that it
needs no greatest element). Right after the fill that order is the order of filling, not of requests; it does no harm because the list misses
a key only after every filled key has been asked for (`MissedLate`): the fill took the keys in the order in which the list first names them.

The three largest invariants were checked by TLC before they were proved: `Inv` of the scripts on the 4.6 million states of
run `reporting`, `DataInv` on the 496 thousand of run `ingest`, `BenchInv` with two slots and three.

**Induction.** The library's induction theorems take an operator as a parameter, which the provers at hand cannot
instantiate. Two forms of induction that take a set instead are available and suffice: a set of naturals has
a least element (`SmallestExists`, by the well-founded order on finite sets), and a family of sets that is closed under adding one
element contains all finite ones (`AllSubsets`). Everything else is induction over the steps of
the system, which the temporal rule of the last step (PTL) provides. Each module that handles lists states the few lemmas about them that it needs (`Distinct`, what
removing and appending do); they cannot be shared by EXTENDS, because the components have variables of the same names.

**Only model-checked.** `UpdatesFinish`, liveness under fairness. The two violations are counterexamples and need no proof. Nothing here uses a RECURSIVE operator.

## 5. Where code and documents disagree

* `LRUCache` does not always evict the least recently used key (`core/cache.py:6`): the grace rule
  at line 122 spares frames that were inserted and never touched, even when a frame that
  has just been hit goes instead. `FreshSpared` states what the code does, `GraceLastsOneEviction` for how long.
* A denied query can raise (`core/pipeline.py:50`, "Never raises for normal denial"): step 4 puts
  the key into the cache whatever `fetch` answered, and a cache full of pinned
  frames refuses it. Run `pipeline_denial`.
* The GIL does not make `put` atomic (`core/pipeline.py:6`): two threads that both find room
  overfill the cache. `OverfillBounded` says by how much.
* A malformed record can end the ingestion (`core/segmenter.py:15` and 28): `int(float("inf"))`
  raises OverflowError, an unhashable part of the key TypeError. Run `ingest_malformed`.

* Nor does it make `grant` atomic: two first grants of a role may lose one of them, and a grant of one key may
  replace a wildcard given at the same time. `LostGrantNeedsRace` says that nothing else can.
* `README.md:119` says that `is_synthetic` "is recorded in every `results/*.json` file"; `bench_cache.py`,
  `bench_writes.py` and `bench_baseline_cache.py` do not write it.
* Table B (`analysis/tables.py:8`, "reflects the negative-test suite results") lists "Pinned page survives eviction (100
  trials)", whose test is in `tests/test_cache.py:127`, but line 131 runs `tests/test_security.py` only, and all
  six rows repeat its exit status, or PASS when pytest could not be run in two minutes.
* `README.md:156` promises "no stale artifacts". That holds once `run_all` has returned (`SameRun`). A benchmark run alone
  leaves the older figures beside its result, and figures drawn alone may combine results of
  different runs; `FiguresAreOneReading` is what remains true then.
* `kdd._parse_real` counts a line it skips against `n`, so fewer records than asked for may come
  back; the self-check at `data/kdd.py:140` expects `n`, and `bench_s1` divides the size it asked for by the time
  (`benchmarks/bench_writes.py:173`).

A revoke during a fetch, on the other hand, is not a divergence: the decision is taken at one
moment of the call, and `AnswersAreGenuine` says just that. Nor is an answer from a set that has been revoked since
`is_allowed` fetched it: `NoGrantOutlivesRevoke` shows that the grant was in force at some moment of the question,
so that a single moment of decision, as in SecureStore, is a fair abstraction of it.

## 6. What is not modelled, and why

* Key generation, nonces, AES-GCM itself and JSON: external; only "decrypts to what was
  encrypted, or raises" matters here.
* Races on ARC and TinyLFU, and on the clock and the counters of a frame: the same lack of a lock; `get`
  changes no key of a frame cache, so what FrameCacheThreads says holds with it. `RecencyDistinct` is a property of one thread: two
  threads may read the same clock and stamp two frames alike, and then the order of the dictionary decides between them.
* In the replayer, what the parsers raise besides JSONDecodeError (`csv.Error`, a number that `json` refuses, nesting that is
  too deep): the generator ends with the exception, as it does when the file has vanished, and the rows it has
  yielded and counted by then are what the properties speak of.
* The constructors that replace a falsy argument (`core/security.py:147`, `core/pipeline.py:39`): the models start
  with the objects the program really keeps; the tests know of the first (`tests/test_pipeline.py:46`).
* The loaders' tests of the size they are asked for, the search for a taxi file and the goodness-of-fit printout.
  Of the workload generators only the shape of their
  lists matters (any list of keys); the query regions they attach are covered by
  `frame_cache`, which asks with every region.
* The cachetools LFU adapter (its ties depend on the library's version) and the optional Redis
  adapter; timing, statistics and figures of all benchmarks.
* What `bench_index`, `bench_baseline_sql` and `bench_security` measure, and `stats.py`: timings of pandas, DuckDB,
  SQLite and AES. Reporting has their results as opaque values.
* Layout and contents of figures and tables beyond which result they show.

## 7. Plan

Done, in this order: the cache interface and the frame caches with their proofs; ARC and
TinyLFU; the store and the pipeline; the frame cache under threads with its proofs; ingestion;
the updates of the write benchmark; the cache benchmark with its reference caches; the replayer; the loaders; pins
during an eviction; access control under threads with its proofs; the scripts and their artefacts; the proofs of
all other safety properties and refinements that the runs check.

Next:

1. ARC and TinyLFU under threads: `_replace` and the four lists between two steps.
2. The benchmarks of the index: the pipelines of `bench_index.py` and `bench_baseline_sql.py` as
   different access paths to one answer, checked against the segmenter's partition.
3. That AccessControl implements the atomic decision of SecureStore, as a refinement of its own
   instead of the argument in section 5.
