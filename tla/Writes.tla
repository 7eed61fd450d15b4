------------------------------- MODULE Writes ------------------------------
(***************************************************************************)
(* The update benchmarks of benchmarks/bench_writes.py: after one batch    *)
(* has been segmented, indexed and stored, bench_s2 rewrites records in    *)
(* place and bench_s3 moves records between chunks, both straight on the   *)
(* blobs.  The script has one thread and nothing in an update can fail, so *)
(* one update is one step, after the draws of bench_s3, which may repeat.  *)
(***************************************************************************)
EXTENDS Ingest

CONSTANT MaxUpdates   \* bound: n_updates, 1000 in the code

ASSUME MaxUpdatesAssumption == MaxUpdates \in Nat

VARIABLES
    stage,       \* which part of the benchmark is running
    updates,     \* iterations of the loop so far
    edited,      \* records whose duration has been overwritten
    drawn        \* the chunks bench_s3 has drawn for its next update

writesVars == <<vars, stage, updates, edited, drawn>>

Stage == {"building", "in-chunk", "cross-chunk", "too-few"}

WritesInit ==
    /\ Init
    /\ stage = "building"
    /\ updates = 0
    /\ edited = {}
    /\ drawn = <<>>

BuildSystem == stage = "building" /\ Next /\ UNCHANGED <<stage, updates, edited, drawn>>

AnyChunksMutant == TRUE

\* bench_s3 gives up on one chunk, for it could never draw a second one.
EnoughChunks == Cardinality(DOMAIN stored) >= 2

\* Both benchmarks start from the first batch.
BeginUpdates ==
    /\ stage = "building"
    /\ phase = "done"
    /\ recipe = "kdd"
    /\ batches = 1
    /\ batch # <<>>
    /\ \/ stage' = "in-chunk" /\ UNCHANGED phase
       \/ /\ stage' = IF EnoughChunks THEN "cross-chunk" ELSE "too-few"
          /\ phase' = "moving"
    /\ UNCHANGED <<recipe, batch, next, chunks, next_id, index, stored, batches, updates, edited, drawn>>

Update(kind) ==
    /\ stage = kind
    /\ updates < MaxUpdates
    /\ updates' = updates + 1
    /\ UNCHANGED <<recipe, batch, next, chunks, next_id, index, phase, batches, stage>>

\* Decrypt, overwrite the first record's duration, encrypt, store: no key
\* depends on the duration.
UpdateInChunk(key) ==
    /\ edited' = IF stored[key].records = <<>>
                 THEN edited
                 ELSE edited \cup {Head(stored[key].records)}
    /\ UNCHANGED <<stored, drawn>>
    /\ Update("in-chunk")

\* rng.choice: the first chunk, then a second one until it differs.
Draw(key) ==
    /\ stage = "cross-chunk"
    /\ updates < MaxUpdates
    /\ Len(drawn) < 2
    /\ drawn' = IF Contains(drawn, key) THEN drawn ELSE Append(drawn, key)
    /\ UNCHANGED <<recipe, batch, next, chunks, next_id, index, stored, phase, batches,
                   stage, updates, edited>>

CopyMutant(a, b) ==
    IF stored[a].records = <<>>
    THEN stored
    ELSE [stored EXCEPT ![b] = Blob(@.batch, Append(@.records, Head(stored[a].records)))]

\* The first record of a, if there is one, goes to the end of b.  The record
\* itself does not change, so it leaves the chunk of its own key.
Moved(a, b) ==
    IF stored[a].records = <<>>
    THEN stored
    ELSE [stored EXCEPT ![a] = Blob(@.batch, Tail(@.records)),
                        ![b] = Blob(@.batch, Append(@.records, Head(stored[a].records)))]

MoveAcross ==
    /\ Len(drawn) = 2
    /\ stored' = Moved(drawn[1], drawn[2])
    /\ drawn' = <<>>
    /\ UNCHANGED edited
    /\ Update("cross-chunk")

WritesNext ==
    \/ BuildSystem
    \/ BeginUpdates
    \/ \E key \in DOMAIN stored : UpdateInChunk(key) \/ Draw(key)
    \/ MoveAcross

\* A benchmark that has begun runs on, and random.choice does not draw the
\* same chunk for ever.
Fairness ==
    /\ WF_writesVars(\E key \in DOMAIN stored : UpdateInChunk(key))
    /\ WF_writesVars(\E key \in DOMAIN stored : Draw(key))
    /\ WF_writesVars(MoveAcross)

WritesSpec == WritesInit /\ [][WritesNext]_writesVars /\ Fairness
-----------------------------------------------------------------------------
Places(r) ==
    {key \in DOMAIN stored : Contains(stored[key].records, r)}

(* No sequence of updates loses or copies a record, and the index needs no  *)
(* change: every record stays in exactly one stored chunk, once, and the    *)
(* index names the stored chunks, also those that have become empty.        *)
UpdatesConserveRecords ==
    stage \in {"in-chunk", "cross-chunk"} =>
        /\ \A r \in DOMAIN batch : Cardinality(Places(r)) = 1
        /\ \A key \in DOMAIN stored : IsInjective(stored[key].records)
        /\ DOMAIN index = DOMAIN stored

(* Both loops end: the second draw of bench_s3 always finds another chunk   *)
(* in the end, so `while key_b == key_a` does not spin for ever.            *)
UpdatesFinish == stage \in {"in-chunk", "cross-chunk"} ~> updates = MaxUpdates

=============================================================================
