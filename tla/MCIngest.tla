------------------------------ MODULE MCIngest ------------------------------
(* Ingest, Writes and Loaders on a few telling records: values on both      *)
(* sides of the moduli, a negative one in digits, garbage, an epoch instead *)
(* of an hour, an infinity and an unhashable region; and on files with a    *)
(* line too short, a number that is infinite, a date that cannot be read.   *)
EXTENDS Loaders

Num(i) == [kind |-> "int", n |-> i]
Other(kind) == [kind |-> kind, n |-> 0]

Plain == [time |-> Num(1), epoch |-> Other("missing"), region |-> Num(2), type |-> Other("missing")]

MCRecord ==
    {Plain,
     [Plain EXCEPT !.time = Num(25)],
     [Plain EXCEPT !.time = [kind |-> "digits", n |-> -23], !.region = Num(10)],
     [Plain EXCEPT !.time = Other("text"), !.region = Other("missing"), !.type = Other("int")],
     [Plain EXCEPT !.time = Other("missing"), !.epoch = Num(90000)],
     [Plain EXCEPT !.time = Other("inf")],
     [Plain EXCEPT !.region = Other("list")]}

Tok(text, i) == [text |-> text, n |-> i]
Good == [columns |-> 42, src_bytes |-> Tok("integer", 30), dst_bytes |-> Tok("decimal", 9),
         protocol_type |-> Tok("word", 1)]

MCLine ==
    {Good,
     [Good EXCEPT !.columns = 41],
     [Good EXCEPT !.src_bytes = Tok("infinity", 0)]}

MCTaxiRow ==
    {[hour |-> [kind |-> "float", n |-> 5], PULocationID |-> Num(7)],
     [hour |-> Absent, PULocationID |-> Num(2)],
     [hour |-> Num(23), PULocationID |-> Absent]}
=============================================================================
