----------------------------- MODULE Reporting -----------------------------
(***************************************************************************)
(* From benchmarks to published artefacts: analysis/run_all.py calls three *)
(* benchmarks, each of which writes a JSON result, then                    *)
(* generate_figures.py, which plots the results, then tables.py, which     *)
(* asks pytest.  Each part is a script of its own too.  Scripts run one at *)
(* a time in one results directory; any of them may raise or be killed     *)
(* between two steps, and what it had written stays.  The KDD file may     *)
(* come or go at any time.  A file is opened (and so emptied) in one step  *)
(* and complete after another.  Numbers are known by where they come from. *)
(***************************************************************************)
EXTENDS Naturals, Sequences

CONSTANTS
    MaxRuns,     \* bound: scripts started
    SweepSizes   \* bound: sizes bench_index measures, five in the code

ASSUME MaxRunsAssumption == MaxRuns \in Nat
ASSUME SweepSizesAssumption == SweepSizes \in Nat \ {0}

VARIABLES
    file,        \* the results directory
    todo,        \* statements the running script has still to execute
    whole,       \* the script is run_all.py
    run,         \* scripts started so far; the running one's number
    half,        \* the file of the next statement has been opened
    loads,       \* what kdd.load gave to the running benchmark
    read,        \* the dictionaries generate has read
    verdict,     \* what _run_pytest_and_derive_results returned
    present,     \* the KDD file exists
    last,        \* how the previous script ended
    cut          \* the last run of generate stopped among its figures

vars == <<file, todo, whole, run, half, loads, read, verdict, present, last, cut>>

Bench == {"index", "cache", "security"}
Figures == {"fig1", "fig2", "fig3", "fig4"}
Artefact == Bench \cup Figures \cup {"table_a", "table_b"}

File(state, r, shows) == [state |-> state, run |-> r, shows |-> shows]
Missing == File("missing", 0, <<>>)

GenerateFigures == <<"read", "fig1", "fig2", "fig3", "fig4">>
GenerateTables == <<"table_a", "pytest", "table_b">>

FiguresEarlyMutant ==
    <<"index", "cache">> \o GenerateFigures \o <<"security">> \o GenerateTables

RunAll == <<"index", "cache", "security">> \o GenerateFigures \o GenerateTables

Script == {RunAll, GenerateFigures, GenerateTables} \cup {<<b>> : b \in Bench}
-----------------------------------------------------------------------------
\* What the repository ships with, or an emptied directory.
Init ==
    /\ file \in {[f \in Artefact |-> Missing], [f \in Artefact |-> File("whole", 0, <<>>)]}
    /\ todo = <<>>
    /\ whole = FALSE
    /\ run = 0
    /\ half = FALSE
    /\ loads = <<>>
    /\ read = <<>>
    /\ verdict = "none"
    /\ present \in BOOLEAN
    /\ last = "none"
    /\ cut = FALSE

Idle == todo = <<>>
At(statement) == ~Idle /\ Head(todo) = statement

\* The script leaves nothing in memory when it ends.
Forget == loads' = <<>> /\ read' = <<>> /\ verdict' = "none"

Start(script) ==
    /\ Idle
    /\ run < MaxRuns
    /\ run' = run + 1
    /\ todo' = script
    /\ whole' = (script = RunAll)
    /\ UNCHANGED <<file, half, loads, read, verdict, present, last, cut>>

\* The script ends, after its last statement or by an exception or a signal.
End(how) ==
    /\ todo' = <<>>
    /\ last' = how
    /\ half' = FALSE
    /\ Forget

\* kdd.load: the real file if there is one at this moment, else synthetic.
Load == loads' = Append(loads, IF present THEN "real" ELSE "synthetic")

Measured(bench) == Len(loads) = IF bench = "index" THEN SweepSizes ELSE 1

Measure(bench) ==
    /\ At(bench)
    /\ ~Measured(bench)
    /\ Load
    /\ UNCHANGED <<file, todo, whole, run, half, read, verdict, present, last, cut>>

\* open(out_path, "w"), write_text or savefig: what was there is gone.
Open(f) ==
    /\ At(f)
    /\ f \in Bench => Measured(f)
    /\ ~half
    /\ half' = TRUE
    /\ file' = [file EXCEPT ![f] = File("torn", run, <<>>)]
    /\ UNCHANGED <<todo, whole, run, loads, read, verdict, present, last, cut>>

\* Each figure shows the one result it is handed.
FigIndexSpeedup == read["index"]
FigCacheHitrate == read["cache"]
FigCacheCapacity == read["cache"]
FigEncryptionScopes == read["security"]

\* Table A is fixed text; Table B repeats the status on every row.
FormatTableA == "fixed"
FormatTableB == verdict

Shown(f) ==
    CASE f \in Bench     -> loads
      [] f = "fig1"      -> FigIndexSpeedup
      [] f = "fig2"      -> FigCacheHitrate
      [] f = "fig3"      -> FigCacheCapacity
      [] f = "fig4"      -> FigEncryptionScopes
      [] f = "table_a"   -> FormatTableA
      [] f = "table_b"   -> FormatTableB

\* The statement is done: the next one, or the end of the script.
Advance ==
    /\ half' = FALSE
    /\ IF Len(todo) = 1
       THEN End("returned")
       ELSE todo' = Tail(todo) /\ loads' = <<>> /\ UNCHANGED <<read, verdict, last>>

Write(f) ==
    /\ At(f)
    /\ half
    /\ file' = [file EXCEPT ![f] = File("whole", run, Shown(f))]
    /\ cut' = (cut /\ f # "fig4")
    /\ Advance
    /\ UNCHANGED <<whole, run, present>>

ReadIndexOnlyMutant == file["index"].state = "whole"

\* json.loads raises on a missing file and on one that was cut short.
Readable == \A b \in Bench : file[b].state = "whole"

\* generate reads all three results before it draws anything.
Read ==
    /\ At("read")
    /\ Readable
    /\ read' = [b \in Bench |-> file[b]]
    /\ todo' = Tail(todo)
    /\ UNCHANGED <<file, whole, run, half, loads, verdict, present, last, cut>>

ReadRaises ==
    /\ At("read")
    /\ ~Readable
    /\ End("raised")
    /\ UNCHANGED <<file, whole, run, present, cut>>

\* One status for every row of Table B: whether tests/test_security.py passed,
\* and PASS when pytest cannot be started or takes longer than two minutes.
Pytest(status) ==
    /\ At("pytest")
    /\ verdict' = status
    /\ todo' = Tail(todo)
    /\ UNCHANGED <<file, whole, run, half, loads, read, present, last, cut>>

\* A benchmark raises, or a write fails, or the process is killed.
Stop ==
    /\ ~Idle
    /\ End("stopped")
    /\ cut' = (cut \/ (Head(todo) \in Figures /\ (half \/ Head(todo) # "fig1")))
    /\ UNCHANGED <<file, whole, run, present>>

DatasetChanges ==
    /\ present' = ~present
    /\ UNCHANGED <<file, todo, whole, run, half, loads, read, verdict, last, cut>>

Next ==
    \/ \E script \in Script : Start(script)
    \/ \E bench \in Bench : Measure(bench)
    \/ \E f \in Artefact : Open(f) \/ Write(f)
    \/ Read
    \/ ReadRaises
    \/ \E status \in {"PASS", "FAIL"} : Pytest(status)
    \/ Stop
    \/ DatasetChanges

Spec == Init /\ [][Next]_vars
-----------------------------------------------------------------------------
(* "Every number in the writeup comes from the same run" (run_all.py:2):    *)
(* once run_all has returned, whatever was interrupted before it, every     *)
(* artefact is complete and of this run, and a figure shows the result that *)
(* lies beside it.                                                          *)
SameRun ==
    Idle /\ whole /\ last = "returned" =>
        /\ \A f \in Artefact : file[f].state = "whole" /\ file[f].run = run
        /\ file["fig1"].shows = file["index"]
        /\ file["fig2"].shows = file["cache"]
        /\ file["fig3"].shows = file["cache"]
        /\ file["fig4"].shows = file["security"]

(* Whatever was run alone, crashed or run again: unless generate itself was *)
(* stopped among its figures, the four of them come from one reading of the *)
(* results, and none shows a result that was cut short                      *)
(* (generate_figures.py:207 reads everything first).                        *)
FiguresAreOneReading ==
    Idle /\ ~cut /\ file["fig1"].run > 0 =>
        /\ \A f \in Figures : file[f].state = "whole" /\ file[f].run = file["fig1"].run
        /\ \A f \in Figures : file[f].shows.state = "whole"
        /\ file["fig2"].shows = file["fig3"].shows
=============================================================================
