------------------------------ MODULE Ingest -------------------------------
(***************************************************************************)
(* Ingestion: core/segmenter.py groups records into chunks with one of     *)
(* three key recipes, core/index.py indexes the chunks, and the chunks are *)
(* then stored one by one (_build_system of benchmarks/bench_writes.py).   *)
(* One iteration of a loop is one step.  A record is known by its position *)
(* in the batch; its fields are tagged values, for what int() and hash()   *)
(* make of them is what the properties are about.                          *)
(***************************************************************************)
EXTENDS Integers, SequencesExt

CONSTANTS
    Record,      \* the records that can occur
    MaxBatch,    \* bound: records in a batch
    MaxBatches   \* bound: batches ingested one after the other

\* float: a finite one, n its integer part; digits: a string int() accepts;
\* text: one it does not, or nan; inf: a float infinity; list: an unhashable
\* value; missing: no such field.
Kind == {"int", "float", "digits", "text", "inf", "list", "missing"}
Value == [kind : Kind, n : Int]
Fields == [time : Value, epoch : Value, region : Value, type : Value]

ASSUME RecordAssumption == Record \subseteq Fields
ASSUME MaxBatchAssumption == MaxBatch \in Nat
ASSUME MaxBatchesAssumption == MaxBatches \in Nat

VARIABLES
    recipe,      \* which extractor the Segmenter was given
    batch,       \* segment's argument
    next,        \* records of the batch segmented so far
    chunks,      \* segment's result, in insertion order
    next_id,     \* segment's counter
    index,       \* SmartIndex._index: key -> ids
    stored,      \* chunk key -> the chunk that was last stored under it
    phase,       \* the statement that comes next; moving: see Writes
    batches      \* batches begun so far

vars == <<recipe, batch, next, chunks, next_id, index, stored, phase, batches>>

Recipe == {"kdd", "taxi", "weblog"}
\* The literals the recipes fall back on.
Unknown == [kind |-> "text", n |-> 0]

StrictIntMutant(value) == value.kind \in {"text", "inf"}

\* _safe_int catches TypeError and ValueError, not int()'s OverflowError.
Overflows(value) == value.kind = "inf"
SafeInt(value) == IF value.kind \in {"int", "float", "digits"} THEN value.n ELSE 0
OrUnknown(value) == IF value.kind = "missing" THEN Unknown ELSE value

RawRegionMutant(record) ==
    <<SafeInt(record.time) % 24, SafeInt(record.region), OrUnknown(record.type)>>

KDDKey(record) ==
    <<SafeInt(record.time) % 24, SafeInt(record.region) % 8, OrUnknown(record.type)>>

TaxiKey(record) ==
    <<SafeInt(record.time) % 24, record.region, OrUnknown(record.type)>>

WeblogHour(record) ==
    IF record.time.kind # "missing"
    THEN SafeInt(record.time)
    ELSE (SafeInt(record.epoch) \div 3600) % 24

WeblogKey(record) ==
    <<WeblogHour(record) % 24, record.region, OrUnknown(record.type)>>

Extract(record) ==
    CASE recipe = "kdd"    -> KDDKey(record)
      [] recipe = "taxi"   -> TaxiKey(record)
      [] recipe = "weblog" -> WeblogKey(record)

\* The fields the recipe converts, and those it puts in the key as they are.
Converted(record) ==
    CASE recipe = "kdd"    -> {record.time, record.region}
      [] recipe = "taxi"   -> {record.time}
      [] recipe = "weblog" -> {IF record.time.kind # "missing" THEN record.time ELSE record.epoch}
Verbatim(record) == {record.type} \cup (IF recipe = "kdd" THEN {} ELSE {record.region})

\* An infinity raises OverflowError in the extractor, an unhashable part of
\* the key raises TypeError in chunks.get(key).
Crashes(record) ==
    \/ \E value \in Converted(record) : Overflows(value)
    \/ \E value \in Verbatim(record) : value.kind = "list"

ChunkOf(s, key) == SelectInSeq(s, LAMBDA chunk : chunk.key = key)
Keys(s) == {s[i].key : i \in DOMAIN s}
-----------------------------------------------------------------------------
Init ==
    /\ recipe \in Recipe
    /\ batch = <<>>
    /\ next = 0
    /\ chunks = <<>>
    /\ next_id = 0
    /\ index = <<>>
    /\ stored = <<>>
    /\ phase = "done"
    /\ batches = 0

\* A call of segment: chunks and ids start afresh, the index and the store do not.
Begin(records) ==
    /\ phase = "done"
    /\ batches < MaxBatches
    /\ batches' = batches + 1
    /\ batch' = records
    /\ next' = 0
    /\ chunks' = <<>>
    /\ next_id' = 0
    /\ phase' = "segment"
    /\ UNCHANGED <<recipe, index, stored>>

NewChunk(key, id) == [id |-> id, key |-> key, region |-> key[2], records |-> <<next + 1>>]

Open ==
    /\ chunks' = Append(chunks, NewChunk(Extract(batch[next + 1]), next_id))
    /\ next_id' = next_id + 1

Holding(chunk, records) ==
    [id |-> chunk.id, key |-> chunk.key, region |-> chunk.region, records |-> records]

ReplaceRecordsMutant(i) ==
    /\ chunks' = [chunks EXCEPT ![i] = Holding(@, <<next + 1>>)]
    /\ UNCHANGED next_id

Extend(i) ==
    /\ chunks' = [chunks EXCEPT ![i] = Holding(@, Append(@.records, next + 1))]
    /\ UNCHANGED next_id

\* One record: into the chunk of its key, which is opened if there is none.
Segment ==
    /\ phase = "segment"
    /\ next < Len(batch)
    /\ ~Crashes(batch[next + 1])
    /\ next' = next + 1
    /\ LET i == ChunkOf(chunks, Extract(batch[next + 1]))
       IN  IF i = 0 THEN Open ELSE Extend(i)
    /\ UNCHANGED <<recipe, batch, index, stored, phase, batches>>

SegmentRaises ==
    /\ phase = "segment"
    /\ next < Len(batch)
    /\ Crashes(batch[next + 1])
    /\ phase' = "raised"
    /\ UNCHANGED <<recipe, batch, next, chunks, next_id, index, stored, batches>>

MergeIndexMutant(old) ==
    [key \in DOMAIN old \cup Keys(chunks) |->
        (IF key \in DOMAIN old THEN old[key] ELSE <<>>)
        \o (IF key \in Keys(chunks) THEN <<chunks[ChunkOf(chunks, key)].id>> ELSE <<>>)]

\* A fresh dictionary, assigned at the end, replaces the previous one.
Indexed(old) == [key \in Keys(chunks) |-> <<chunks[ChunkOf(chunks, key)].id>>]

Build ==
    /\ phase = "segment"
    /\ next = Len(batch)
    /\ index' = Indexed(index)
    /\ phase' = "store"
    /\ next' = 0
    /\ UNCHANGED <<recipe, batch, chunks, next_id, stored, batches>>

Blob(number, records) == [batch |-> number, records |-> records]

\* store_records of the next chunk; next now counts the chunks stored.
Store ==
    /\ phase = "store"
    /\ next < Len(chunks)
    /\ next' = next + 1
    /\ LET chunk == chunks[next + 1]
       IN  stored' = [key \in DOMAIN stored \cup {chunk.key} |->
                         IF key = chunk.key
                         THEN Blob(batches, chunk.records)
                         ELSE stored[key]]
    /\ UNCHANGED <<recipe, batch, chunks, next_id, index, phase, batches>>

Finish ==
    /\ phase = "store"
    /\ next = Len(chunks)
    /\ phase' = "done"
    /\ UNCHANGED <<recipe, batch, next, chunks, next_id, index, stored, batches>>

Next ==
    \/ \E n \in 0 .. MaxBatch : \E records \in [1 .. n -> Record] : Begin(records)
    \/ Segment
    \/ SegmentRaises
    \/ Build
    \/ Store
    \/ Finish

Spec == Init /\ [][Next]_vars
-----------------------------------------------------------------------------
\* reassemble: the records of every chunk, in the order of the chunks.
Reassemble(s) == FlattenSeq([i \in DOMAIN s |-> s[i].records])

Segmented == IF phase = "segment" \/ phase = "raised" THEN next ELSE Len(batch)

(* Types; the parts of a key the recipe computes stay in their ranges, and  *)
(* a chunk's region is the region of its key.                               *)
TypeOK ==
    /\ recipe \in Recipe
    /\ next \in 0 .. MaxBatch
    /\ phase \in {"segment", "store", "done", "moving", "raised"}
    /\ batches \in 0 .. MaxBatches
    /\ Keys(chunks) = {Extract(batch[i]) : i \in 1 .. Segmented}
    /\ \A i \in DOMAIN chunks :
          /\ chunks[i].key[1] \in 0 .. 23
          /\ recipe = "kdd" => chunks[i].key[2] \in 0 .. 7
          /\ chunks[i].region = chunks[i].key[2]

InOrder(s) == \A i, j \in DOMAIN s : i < j => s[i] < s[j]

(* Every record segmented so far is in exactly one chunk, that of its key,  *)
(* and once; records of a chunk keep their order ("every record lands in   *)
(* exactly one chunk"), reassemble gives all of them back ("no records are *)
(* lost across segment -> reassemble"), and ids number the chunks densely.  *)
RecordsPartitioned ==
    /\ \A i \in DOMAIN chunks :
          /\ ToSet(chunks[i].records) = {r \in 1 .. Segmented : Extract(batch[r]) = chunks[i].key}
          /\ InOrder(chunks[i].records)
    /\ \A i, j \in DOMAIN chunks : chunks[i].key = chunks[j].key => i = j
    /\ Len(Reassemble(chunks)) = Segmented /\ ToSet(Reassemble(chunks)) = 1 .. Segmented
    /\ next_id = Len(chunks) /\ \A i \in DOMAIN chunks : chunks[i].id = i - 1

(* Between ingestions the index names exactly the chunks of the last batch, *)
(* one id each and no id twice, and what is stored under an indexed key is  *)
(* the chunk of that batch; blobs of earlier batches stay, unreachable.     *)
IndexMatchesStore ==
    phase = "done" /\ batches > 0 =>
        /\ DOMAIN index = Keys(chunks)
        /\ \A key \in DOMAIN index :
              /\ Len(index[key]) = 1
              /\ stored[key] = Blob(batches, chunks[ChunkOf(chunks, key)].records)
        /\ \A j, k \in DOMAIN index : index[j] = index[k] => j = k

(* "Malformed records still ingest without a schema crash", _safe_int is    *)
(* "never raising on malformed input": an infinity and an unhashable region *)
(* or type do crash.                                                        *)
MalformedStillIngest == phase # "raised"
=============================================================================
