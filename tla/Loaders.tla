------------------------------ MODULE Loaders ------------------------------
(***************************************************************************)
(* The data loaders in front of ingestion: data/kdd.py, data/taxi.py and   *)
(* data/weblog.py read a real file where there is one and generate records *)
(* otherwise.  What they load is the batch that Ingest segments with the   *)
(* recipe of the same data; a caller's own records still come beside it.   *)
(* A line or a row is known by the fields the recipes look at.             *)
(***************************************************************************)
EXTENDS Writes

CONSTANTS
    Line,        \* lines a real KDD file can have
    TaxiRow,     \* rows a real taxi file can have
    ByteCounts,  \* numbers of bytes the generators draw
    Hours,       \* hours of the day they draw
    Boroughs,    \* boroughs they draw
    Texts        \* the values of a field of text

ASSUME DrawsAssumption ==
    /\ ByteCounts \subseteq Nat /\ Hours \subseteq 0 .. 23 /\ Boroughs \subseteq 1 .. 5
    /\ Texts \subseteq Int

\* A token of a line: what int() and float() make of it, and its number.
Token == [text : {"integer", "decimal", "infinity", "word"}, n : Int]
Absent == [kind |-> "missing", n |-> 0]

ASSUME LineAssumption ==
    Line \subseteq [columns : Nat, src_bytes : Token, dst_bytes : Token, protocol_type : Token]
ASSUME TaxiRowAssumption ==
    TaxiRow \subseteq [hour : [kind : {"int", "float"}, n : Int] \cup {Absent},
                      PULocationID : [kind : {"int", "float"}, n : Int] \cup {Absent}]

VARIABLE origin  \* where the batch comes from

loadersVars == <<writesVars, origin>>

\* int(val), else float(val), else the text: float accepts inf and nan, which
\* int() then refuses, nan with the ValueError that _safe_int knows.
Parsed(token) ==
    CASE token.text = "integer"  -> [kind |-> "int", n |-> token.n]
      [] token.text = "decimal"  -> [kind |-> "float", n |-> token.n]
      [] token.text = "infinity" -> [kind |-> "inf", n |-> 0]
      [] OTHER                   -> [kind |-> "text", n |-> token.n]

KDDRecord(line) ==
    [time |-> Parsed(line.src_bytes), epoch |-> Absent,
     region |-> Parsed(line.dst_bytes), type |-> Parsed(line.protocol_type)]

\* The first n lines, without those that do not have 42 columns: a line that
\* is left out still counts.  MaxBatch is the size asked for.
ParseKDD(lines) ==
    FlattenSeq([i \in 1 .. (IF Len(lines) < MaxBatch THEN Len(lines) ELSE MaxBatch) |->
                   IF lines[i].columns = 42 THEN <<KDDRecord(lines[i])>> ELSE <<>>])

\* errors="coerce": a date that cannot be read leaves nan for the hour.
TaxiHour(row) == IF row.hour = Absent THEN [kind |-> "text", n |-> 0] ELSE row.hour

\* The borough is counted from the location; the trip type is always the same.
ParseTaxi(rows) ==
    [i \in DOMAIN rows |->
        [time |-> TaxiHour(rows[i]), epoch |-> Absent,
         region |-> [kind |-> "int", n |-> (rows[i].PULocationID.n % 5) + 1],
         type |-> [kind |-> "text", n |-> 1]]]

\* astype(int) raises where there is no location: nothing is loaded.
TaxiRaises(rows) == \E i \in DOMAIN rows : rows[i].PULocationID = Absent

\* What the generators can make, field by field.
Made(times, regions, types) ==
    [time: times, epoch: {Absent}, region: regions, type: types]

Integer(numbers) == [kind: {"int"}, n: numbers]
Text == [kind: {"text"}, n: Texts]

KDDSynthetic == Made(Integer(ByteCounts), Integer(ByteCounts), Text)
TaxiSynthetic == Made(Integer(Hours), Integer(Boroughs), Text)
WeblogSynthetic == Made(Integer(Hours), Text, Text)
-----------------------------------------------------------------------------
LoadersInit == WritesInit /\ origin = "none"

\* A batch from a loader is segmented like any other.
Ingests(records, from) ==
    /\ stage = "building"
    /\ Begin(records)
    /\ origin' = from
    /\ UNCHANGED <<stage, updates, edited, drawn>>

LoadKDD(lines) == recipe = "kdd" /\ Ingests(ParseKDD(lines), "kdd-file")

LoadTaxi(rows) ==
    /\ recipe = "taxi"
    /\ ~TaxiRaises(rows)
    /\ Ingests(ParseTaxi(rows), "taxi-file")

Generates(makes) ==
    \E records \in [1 .. MaxBatch -> makes] : Ingests(records, "generator")

\* kdd.load and taxi.load without a file, weblog.load always: n records.
GenerateKDD == recipe = "kdd" /\ Generates(KDDSynthetic)
GenerateTaxi == recipe = "taxi" /\ Generates(TaxiSynthetic)
GenerateWeblog == recipe = "weblog" /\ Generates(WeblogSynthetic)

LoadersNext ==
    \/ WritesNext /\ origin' = IF batches' = batches THEN origin ELSE "caller"
    \/ \E n \in 0 .. MaxBatch + 1 : \E lines \in [1 .. n -> Line] : LoadKDD(lines)
    \/ \E n \in 0 .. MaxBatch : \E rows \in [1 .. n -> TaxiRow] : LoadTaxi(rows)
    \/ GenerateKDD
    \/ GenerateTaxi
    \/ GenerateWeblog

LoadersSpec == LoadersInit /\ [][LoadersNext]_loadersVars /\ Fairness
-----------------------------------------------------------------------------
(* What the loaders produce, the recipes can digest: segmenting a batch     *)
(* that was loaded ends with an exception only for a real KDD file with an  *)
(* infinity in one of its two converted columns.  A broken line, a date     *)
(* that cannot be read and every generated record go through.               *)
LoadedRecordsIngest ==
    phase = "raised" =>
        \/ origin = "caller"
        \/ /\ origin = "kdd-file"
           /\ "inf" \in {batch[next + 1].time.kind, batch[next + 1].region.kind}
=============================================================================
