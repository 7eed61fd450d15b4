------------------------- MODULE EvaluationProofs --------------------------
(***************************************************************************)
(* What the published numbers can be trusted for: the artefacts (module    *)
(* Reporting), for any number of script runs, interrupted anywhere, and    *)
(* any sweep; and the comparison of cache policies behind them (module     *)
(* CacheBench), for any query list, capacity and number of queries.  The   *)
(* two share no variable.                                                  *)
(*                                                                         *)
(* Reporting: the statements of run_all have an order (Rank), and every    *)
(* script runs a stretch of it without gaps (Shape); generate and tables   *)
(* end where a stretch of run_all ends.  The inductive invariant, Inv,     *)
(* says by the rank of the next statement what the running script has      *)
(* done so far.                                                            *)
(*                                                                         *)
(* CacheBench: the inductive invariant, BenchInv, says how the caches are  *)
(* filled (Filling), that nothing changes until the list asks for a key    *)
(* that was not filled (Warm), and that an LRU list is in the order of the *)
(* last requests (Recent), put as: b was asked for after a was for the     *)
(* last time (Before).  The lemmas about lists are those of ARCCacheProofs.*)
(***************************************************************************)
EXTENDS Reporting, CacheBench, FiniteSetTheorems, SequenceTheorems, TLAPS

Statement == Artefact \cup {"read", "pytest"}

\* The place of a statement in run_all.
Rank(s) == CHOOSE i \in 1 .. 11 : RunAll[i] = s

\* The rank of the next statement, and the ranks at which a script ends.
Pos == Rank(Head(todo))
Ends == {1, 2, 3, 8, 11}

\* todo is the part of the order that ends at rank z.
Stretch(z) == \A i \in 1 .. Len(todo) : Rank(todo[i]) = z - Len(todo) + i

Shape ==
    /\ todo \in Seq(Statement)
    /\ file = [f \in Artefact |-> file[f]]
    /\ ~Idle => \E z \in Ends : Stretch(z) /\ (whole => z = 11)

\* The result a figure shows.
Source(f) == IF f = "fig1" THEN "index" ELSE IF f = "fig4" THEN "security" ELSE "cache"

InFigures == ~Idle /\ Pos \in 5 .. 8

\* generate at its figures: it has read complete results only, and drawn
\* the figures before this one from them.
Drawn ==
    InFigures =>
        /\ \A b \in Bench : read[b].state = "whole"
        /\ \A f \in Figures : Rank(f) < Pos => file[f] = File("whole", run, read[Source(f)])

\* run_all under way: what it has passed is complete and of this run, and
\* the results are those generate has read.
SoFar ==
    ~Idle /\ whole =>
        /\ \A f \in Artefact : Rank(f) < Pos => file[f].state = "whole" /\ file[f].run = run
        /\ \A f \in Figures : Rank(f) < Pos => file[f].shows = file[Source(f)]
        /\ InFigures => \A b \in Bench : read[b] = file[b]

\* A script that stops now leaves figures of two readings.
Among == InFigures /\ (half \/ Head(todo) # "fig1")

OneReading ==
    file["fig1"].run > 0 =>
        /\ \A f \in Figures : file[f].state = "whole" /\ file[f].run = file["fig1"].run
        /\ \A f \in Figures : file[f].shows.state = "whole"
        /\ file["fig2"].shows = file["fig3"].shows

Intact == ~Among /\ ~cut => OneReading

Inv == Shape /\ Drawn /\ SoFar /\ Intact /\ SameRun
-----------------------------------------------------------------------------
LEMMA RunAllIs ==
    /\ RunAll \in Seq(Statement) /\ Len(RunAll) = 11
    /\ RunAll[1] = "index" /\ RunAll[2] = "cache" /\ RunAll[3] = "security"
    /\ RunAll[4] = "read" /\ RunAll[5] = "fig1" /\ RunAll[6] = "fig2"
    /\ RunAll[7] = "fig3" /\ RunAll[8] = "fig4" /\ RunAll[9] = "table_a"
    /\ RunAll[10] = "pytest" /\ RunAll[11] = "table_b"
  BY DEF RunAll, GenerateFigures, GenerateTables, Statement, Artefact, Bench, Figures

LEMMA RankOfPlace ==
    ASSUME NEW i \in 1 .. 11
    PROVE  Rank(RunAll[i]) = i
<1>1. \A j \in 1 .. 11 : RunAll[j] = RunAll[i] => j = i
  BY RunAllIs
<1> QED
  BY <1>1 DEF Rank

LEMMA RankIs ==
    ASSUME NEW s \in Statement
    PROVE  /\ Rank(s) \in 1 .. 11
           /\ Rank(s) = 1 <=> s = "index"
           /\ Rank(s) = 2 <=> s = "cache"
           /\ Rank(s) = 3 <=> s = "security"
           /\ Rank(s) = 4 <=> s = "read"
           /\ Rank(s) = 5 <=> s = "fig1"
           /\ Rank(s) = 6 <=> s = "fig2"
           /\ Rank(s) = 7 <=> s = "fig3"
           /\ Rank(s) = 8 <=> s = "fig4"
           /\ Rank(s) = 9 <=> s = "table_a"
           /\ Rank(s) = 10 <=> s = "pytest"
           /\ Rank(s) = 11 <=> s = "table_b"
<1>1. PICK i \in 1 .. 11 : RunAll[i] = s
  BY RunAllIs DEF Statement, Artefact, Bench, Figures
<1>2. Rank(s) = i
  BY <1>1, RankOfPlace
<1>3. s = RunAll[i] /\ Rank(s) = i /\ i \in 1 .. 11
  BY <1>1, <1>2
<1> QED
  BY <1>3, RunAllIs

LEMMA RankKinds ==
    ASSUME NEW s \in Statement
    PROVE  /\ s \in Figures <=> Rank(s) \in 5 .. 8
           /\ s \in Bench <=> Rank(s) \in 1 .. 3
           /\ s \in Artefact <=> Rank(s) \notin {4, 10}
  BY RankIs DEF Statement, Artefact, Bench, Figures

LEMMA RankInjective ==
    ASSUME NEW s \in Statement, NEW u \in Statement, Rank(s) = Rank(u)
    PROVE  s = u
  BY RankIs

LEMMA FirstElement ==
    ASSUME NEW S, NEW s \in Seq(S), Len(s) # 0
    PROVE  s # <<>> /\ Head(s) = s[1] /\ Head(s) \in S /\ Len(s) \in Nat \ {0}
  BY HeadTailProperties, EmptySeq

\* What the shape says of the next statement.
LEMMA NextStatement ==
    ASSUME Shape, ~Idle
    PROVE  /\ Len(todo) \in Nat \ {0} /\ Head(todo) = todo[1]
           /\ Head(todo) \in Statement /\ Pos \in 1 .. 11
           /\ Len(todo) = 1 => Pos \in Ends /\ (whole => Pos = 11)
<1>1. todo \in Seq(Statement) /\ todo # <<>>
  BY DEF Shape, Idle
<1>2. Len(todo) \in Nat \ {0} /\ Head(todo) = todo[1] /\ Head(todo) \in Statement
  BY <1>1
<1>3. PICK z \in Ends : Stretch(z) /\ (whole => z = 11)
  BY DEF Shape
<1>4. Len(todo) = 1 => Pos = z
  <2>1. Pos = z - Len(todo) + 1
    BY <1>2, <1>3 DEF Stretch, Pos
  <2> QED
    BY <1>3, <2>1 DEF Ends
<1> QED
  BY <1>2, <1>3, <1>4, RankIs DEF Pos

\* The statement after the next one is its successor in the order.
LEMMA Advances ==
    ASSUME Shape, ~Idle, Len(todo) # 1, todo' = Tail(todo), whole' = whole
    PROVE  /\ ~Idle' /\ Pos' = Pos + 1
           /\ todo' \in Seq(Statement)
           /\ \E z \in Ends : Stretch(z)' /\ (whole' => z = 11)
<1> DEFINE n == Len(todo)
<1>1. todo \in Seq(Statement) /\ n \in Nat /\ n > 1 /\ todo # <<>>
  <2>1. n \in Nat \ {0} /\ n # 1
    BY NextStatement
  <2> HIDE DEF n
  <2> QED
    BY <2>1 DEF Shape, Idle
<1>2. PICK z \in Ends : Stretch(z) /\ (whole => z = 11)
  BY DEF Shape
<1>3. /\ Tail(todo) \in Seq(Statement) /\ Len(Tail(todo)) = n - 1
      /\ \A i \in 1 .. n - 1 : Tail(todo)[i] = todo[i + 1]
  BY <1>1, HeadTailProperties
<1>4. z \in Int
  BY <1>2 DEF Ends
<1>5. \A i \in 1 .. n : Rank(todo[i]) = z - n + i
  BY <1>2 DEF Stretch
<1> HIDE DEF n
<1>6. ASSUME NEW i \in 1 .. n - 1
      PROVE  Rank(todo'[i]) = z - (n - 1) + i
  <2>1. i + 1 \in 1 .. n /\ todo'[i] = todo[i + 1]
    BY <1>1, <1>3
  <2>2. z - n + (i + 1) = z - (n - 1) + i
    BY <1>1, <1>4
  <2> QED
    BY <1>5, <2>1, <2>2
<1>7. Len(todo') = n - 1 /\ todo' \in Seq(Statement)
  BY <1>3
<1>8. Stretch(z)'
  BY <1>6, <1>7 DEF Stretch
<1>9. todo' # <<>> /\ Head(todo') = todo'[1] /\ Head(todo) = todo[1]
  <2>1. Len(todo') # 0
    BY <1>1, <1>7
  <2> QED
    BY <1>1, <1>7, <2>1, FirstElement
<1>10. Pos' = Pos + 1
  <2>1. Rank(todo'[1]) = z - (n - 1) + 1 /\ Rank(todo[1]) = z - n + 1
    <3>1. 1 \in 1 .. n - 1 /\ 1 \in 1 .. n
      BY <1>1
    <3> QED
      BY <1>5, <1>6, <3>1
  <2>2. z - (n - 1) + 1 = (z - n + 1) + 1
    BY <1>1, <1>4
  <2> QED
    BY <1>9, <2>1, <2>2 DEF Pos
<1> QED
  BY <1>2, <1>7, <1>8, <1>9, <1>10 DEF Idle

\* Every script is a stretch of the order; only run_all begins at its start.
LEMMA Scripts ==
    ASSUME NEW script \in Script
    PROVE  /\ script \in Seq(Statement) /\ script # <<>>
           /\ Rank(Head(script)) \notin 5 .. 8
           /\ script = RunAll => Rank(Head(script)) = 1
           /\ \E z \in Ends :
                 /\ \A i \in 1 .. Len(script) : Rank(script[i]) = z - Len(script) + i
                 /\ script = RunAll => z = 11
<1> USE DEF Statement, Artefact, Bench, Figures
<1>1. CASE script = RunAll
  <2>1. \A i \in 1 .. 11 : Rank(script[i]) = 11 - 11 + i
    BY <1>1, RankOfPlace
  <2>2. script \in Seq(Statement) /\ Len(script) # 0
    BY <1>1, RunAllIs
  <2>3. script # <<>> /\ Head(script) = script[1]
    BY <2>2, FirstElement
  <2>4. Rank(script[1]) = 1
    BY <1>1, RankOfPlace
  <2> QED
    BY <1>1, <2>1, <2>2, <2>3, <2>4, RunAllIs DEF Ends
<1>2. CASE script = GenerateFigures
  <2>1. /\ script \in Seq(Statement) /\ Len(script) = 5
        /\ script # <<>> /\ Head(script) = "read" /\ script # RunAll
        /\ \A i \in 1 .. 5 : script[i] = RunAll[3 + i]
    BY <1>2, RunAllIs DEF GenerateFigures
  <2>2. \A i \in 1 .. 5 : Rank(script[i]) = 8 - 5 + i
    <3>1. \A i \in 1 .. 5 : 3 + i \in 1 .. 11 /\ 3 + i = 8 - 5 + i
      OBVIOUS
    <3> QED
      BY <2>1, <3>1, RankOfPlace
  <2>3. Rank(Head(script)) = 4
    BY <2>1, RankIs
  <2> QED
    BY <2>1, <2>2, <2>3 DEF Ends
<1>3. CASE script = GenerateTables
  <2>1. /\ script \in Seq(Statement) /\ Len(script) = 3
        /\ script # <<>> /\ Head(script) = "table_a" /\ script # RunAll
        /\ \A i \in 1 .. 3 : script[i] = RunAll[8 + i]
    BY <1>3, RunAllIs DEF GenerateTables
  <2>2. \A i \in 1 .. 3 : Rank(script[i]) = 11 - 3 + i
    <3>1. \A i \in 1 .. 3 : 8 + i \in 1 .. 11 /\ 8 + i = 11 - 3 + i
      OBVIOUS
    <3> QED
      BY <2>1, <3>1, RankOfPlace
  <2>3. Rank(Head(script)) = 9
    BY <2>1, RankIs
  <2> QED
    BY <2>1, <2>2, <2>3 DEF Ends
<1>4. CASE \E b \in Bench : script = <<b>>
  <2>1. PICK b \in Bench : script = <<b>>
    BY <1>4
  <2>2. /\ script \in Seq(Statement) /\ Len(script) = 1 /\ script # <<>>
        /\ Head(script) = b /\ script[1] = b
    BY <2>1
  <2>3. script # RunAll
    BY <2>2, RunAllIs
  <2>4. Rank(b) \in 1 .. 3 /\ Rank(b) = Rank(b) - 1 + 1
    BY RankKinds
  <2>5. \A i \in 1 .. 1 : Rank(script[i]) = Rank(b) - 1 + i
    BY <2>2, <2>4
  <2> QED
    BY <2>2, <2>3, <2>4, <2>5 DEF Ends
<1> QED
  BY <1>1, <1>2, <1>3, <1>4 DEF Script
-----------------------------------------------------------------------------
\* Steps that change nothing the invariant speaks of.
LEMMA Quiet ==
    ASSUME Inv, UNCHANGED <<file, todo, whole, run, half, read, last, cut>>
    PROVE  Inv'
<1>1. Shape'
  BY DEF Inv, Shape, Idle, Stretch
<1>2. InFigures' = InFigures /\ Pos' = Pos /\ Idle' = Idle
  BY DEF InFigures, Pos, Idle
<1>3. Drawn' /\ SoFar'
  BY <1>2 DEF Inv, Drawn, SoFar
<1>4. Intact'
  BY <1>2 DEF Inv, Intact, Among, OneReading
<1>5. SameRun'
  BY <1>2 DEF Inv, SameRun
<1> QED
  BY <1>1, <1>3, <1>4, <1>5 DEF Inv

LEMMA StepStart ==
    ASSUME Inv, NEW script \in Script, Start(script)
    PROVE  Inv'
<1>1. /\ todo' = script /\ (whole' = (script = RunAll))
      /\ UNCHANGED <<file, half, read, last, cut>> /\ Idle
  BY DEF Start
<1>2. PICK z \in Ends :
          /\ \A i \in 1 .. Len(script) : Rank(script[i]) = z - Len(script) + i
          /\ script = RunAll => z = 11
  BY Scripts
<1>3. /\ script \in Seq(Statement) /\ ~Idle' /\ Pos' \notin 5 .. 8
      /\ (whole' => Pos' = 1)
  BY <1>1, Scripts DEF Idle, Pos
<1>4. Shape'
  BY <1>1, <1>2, <1>3 DEF Inv, Shape, Stretch
<1>5. Drawn' /\ ~Among'
  BY <1>3 DEF Drawn, Among, InFigures
<1>6. SoFar'
  <2>1. \A g \in Artefact : ~(Rank(g) < 1)
    BY RankIs DEF Statement
  <2>2. Figures \subseteq Artefact
    BY DEF Artefact
  <2> QED
    BY <1>3, <2>1, <2>2 DEF SoFar, InFigures
<1>7. Intact' /\ SameRun'
  BY <1>1, <1>3 DEF Inv, Intact, Among, InFigures, OneReading, SameRun
<1> QED
  BY <1>4, <1>5, <1>6, <1>7 DEF Inv

\* A script ends: nothing it had written changes.
LEMMA StepEnd ==
    ASSUME Inv, ~Idle, todo' = <<>>, UNCHANGED <<file, whole, run>>,
           last' # "returned", ~cut' => ~cut /\ ~Among
    PROVE  Inv'
<1>1. Idle' /\ ~InFigures' /\ ~Among'
  BY DEF Idle, InFigures, Among
<1>2. Shape'
  BY <1>1 DEF Inv, Shape
<1>3. Drawn' /\ SoFar' /\ SameRun'
  BY <1>1 DEF Drawn, SoFar, SameRun
<1>4. Intact'
  BY <1>1 DEF Inv, Intact, OneReading
<1> QED
  BY <1>2, <1>3, <1>4 DEF Inv

LEMMA StepStop ==
    ASSUME Inv, Stop
    PROVE  Inv'
<1>1. /\ ~Idle /\ todo' = <<>> /\ last' = "stopped" /\ UNCHANGED <<file, whole, run>>
      /\ (cut' = (cut \/ (Head(todo) \in Figures /\ (half \/ Head(todo) # "fig1"))))
  BY DEF Stop, End
<1>2. Head(todo) \in Statement
  BY <1>1, NextStatement DEF Inv
<1>3. InFigures <=> Head(todo) \in Figures
  BY <1>1, <1>2, RankKinds DEF InFigures, Pos
<1> QED
  BY <1>1, <1>3, StepEnd DEF Among

LEMMA StepReadRaises ==
    ASSUME Inv, ReadRaises
    PROVE  Inv'
<1>1. /\ ~Idle /\ Head(todo) = "read" /\ todo' = <<>> /\ last' = "raised"
      /\ UNCHANGED <<file, whole, run, cut>>
  BY DEF ReadRaises, At, End
<1>2. ~Among
  BY <1>1, RankIs DEF Among, InFigures, Pos, Statement
<1> QED
  BY <1>1, <1>2, StepEnd

\* generate has read the results, or tables has asked pytest.
LEMMA StepRead ==
    ASSUME Inv, Read
    PROVE  Inv'
<1>1. /\ ~Idle /\ Head(todo) = "read" /\ todo' = Tail(todo)
      /\ \A b \in Bench : file[b].state = "whole" /\ read'[b] = file[b]
      /\ UNCHANGED <<file, whole, run, half, last, cut>>
  BY DEF Read, Readable, At
<1>2. Pos = 4
  BY <1>1, RankIs DEF Pos, Statement
<1>3. /\ ~Idle' /\ Pos' = 5 /\ todo' \in Seq(Statement)
      /\ \E z \in Ends : Stretch(z)' /\ (whole' => z = 11)
  BY <1>1, <1>2, NextStatement, Advances DEF Inv, Ends
<1>4. Shape'
  BY <1>1, <1>3 DEF Inv, Shape
<1>5. /\ \A g \in Figures : ~(Rank(g) < 5)
      /\ \A g \in Artefact : Rank(g) < 5 => Rank(g) < 4
  BY RankIs, RankKinds DEF Statement, Artefact
<1>6. Drawn'
  BY <1>1, <1>3, <1>5 DEF Drawn
<1>7. SoFar'
  BY <1>1, <1>2, <1>3, <1>5 DEF Inv, SoFar
<1>8. Intact'
  BY <1>1, <1>2 DEF Inv, Intact, Among, InFigures, OneReading
<1> QED
  BY <1>3, <1>4, <1>6, <1>7, <1>8 DEF Inv, SameRun

LEMMA StepPytest ==
    ASSUME Inv, NEW status, Pytest(status)
    PROVE  Inv'
<1>1. /\ ~Idle /\ Head(todo) = "pytest" /\ todo' = Tail(todo)
      /\ UNCHANGED <<file, whole, run, half, read, last, cut>>
  BY DEF Pytest, At
<1>2. Pos = 10
  BY <1>1, RankIs DEF Pos, Statement
<1>3. /\ ~Idle' /\ Pos' = 11 /\ todo' \in Seq(Statement)
      /\ \E z \in Ends : Stretch(z)' /\ (whole' => z = 11)
  BY <1>1, <1>2, NextStatement, Advances DEF Inv, Ends
<1>4. Shape'
  BY <1>1, <1>3 DEF Inv, Shape
<1>5. /\ \A g \in Figures : Rank(g) < 10
      /\ \A g \in Artefact : Rank(g) < 11 => Rank(g) < 10
  BY RankIs, RankKinds DEF Statement, Artefact
<1>6. Drawn'
  BY <1>3 DEF Drawn, InFigures
<1>7. SoFar'
  BY <1>1, <1>2, <1>3, <1>5 DEF Inv, SoFar, InFigures
<1>8. Intact'
  BY <1>1, <1>2 DEF Inv, Intact, Among, InFigures, OneReading
<1> QED
  BY <1>3, <1>4, <1>6, <1>7, <1>8 DEF Inv, SameRun
-----------------------------------------------------------------------------
\* Writing a file leaves the others alone.
LEMMA FileWritten ==
    ASSUME Shape, NEW f \in Artefact, NEW content, file' = [file EXCEPT ![f] = content]
    PROVE  /\ file' = [g \in Artefact |-> file'[g]]
           /\ file'[f] = content
           /\ \A g \in Artefact : g # f => file'[g] = file[g]
  BY DEF Shape

LEMMA SourceIsResult ==
    ASSUME NEW f \in Figures
    PROVE  Source(f) \in Bench /\ Source(f) \in Artefact /\ f \in Artefact /\ f \in Statement
  BY DEF Source, Figures, Bench, Artefact, Statement

LEMMA StepOpen ==
    ASSUME Inv, NEW f \in Artefact, Open(f)
    PROVE  Inv'
<1>1. /\ ~Idle /\ Head(todo) = f /\ half' = TRUE
      /\ file' = [file EXCEPT ![f] = File("torn", run, <<>>)]
      /\ UNCHANGED <<todo, whole, run, read, last, cut>>
  BY DEF Open, At
<1>2. Rank(f) = Pos /\ f \in Statement
  BY <1>1 DEF Pos, Statement
<1>3. /\ file' = [g \in Artefact |-> file'[g]]
      /\ \A g \in Artefact : Rank(g) # Pos => file'[g] = file[g]
  BY <1>1, <1>2, FileWritten DEF Inv
<1>4. InFigures' = InFigures /\ Pos' = Pos /\ Idle' = Idle
  BY <1>1 DEF InFigures, Pos, Idle
<1>5. Shape'
  BY <1>1, <1>3, <1>4 DEF Inv, Shape, Stretch
<1>6. \A g \in Artefact : Rank(g) \in 1 .. 11
  BY RankIs DEF Statement
<1>7. \A b \in Bench : b \in Artefact /\ Rank(b) \in 1 .. 3
  BY RankKinds DEF Artefact, Statement
<1>8. \A g \in Figures :
          /\ g \in Artefact /\ Rank(g) \in 5 .. 8
          /\ Source(g) \in Artefact /\ Rank(Source(g)) \in 1 .. 3
  BY <1>7, SourceIsResult, RankKinds
<1>9. Pos \in 1 .. 11
  BY <1>2, RankIs
<1>10. Drawn'
  <2>1. ASSUME NEW g \in Figures, Rank(g) < Pos PROVE file'[g] = file[g]
    BY <1>3, <1>8, <1>9, <2>1
  <2> QED
    BY <1>1, <1>4, <2>1 DEF Inv, Drawn
<1>11. SoFar'
  <2>1. ASSUME NEW g \in Artefact, Rank(g) < Pos PROVE file'[g] = file[g]
    BY <1>3, <1>6, <1>9, <2>1
  <2>2. ASSUME NEW g \in Figures, Rank(g) < Pos
        PROVE  file'[g] = file[g] /\ file'[Source(g)] = file[Source(g)]
    BY <1>3, <1>8, <1>9, <2>2
  <2>3. ASSUME NEW b \in Bench, InFigures PROVE file'[b] = file[b]
    BY <1>3, <1>7, <2>3 DEF InFigures
  <2> QED
    BY <1>1, <1>4, <2>1, <2>2, <2>3 DEF Inv, SoFar
<1>12. Intact'
  <2>1. CASE InFigures
    BY <1>1, <1>4, <2>1 DEF Intact, Among
  <2>2. CASE ~InFigures
    <3>1. Pos \notin 5 .. 8
      BY <1>1, <2>2 DEF InFigures
    <3>2. \A g \in Figures : file'[g] = file[g]
      BY <1>3, <1>8, <3>1
    <3>3. "fig1" \in Figures /\ "fig2" \in Figures /\ "fig3" \in Figures
      BY DEF Figures
    <3> QED
      BY <1>1, <2>2, <3>2, <3>3 DEF Inv, Intact, Among, OneReading
  <2> QED
    BY <2>1, <2>2
<1>13. SameRun'
  BY <1>1, <1>4 DEF SameRun
<1> QED
  BY <1>5, <1>10, <1>11, <1>12, <1>13 DEF Inv

LEMMA FileFields ==
    ASSUME NEW state, NEW r, NEW shows
    PROVE  /\ File(state, r, shows).state = state
           /\ File(state, r, shows).run = r
           /\ File(state, r, shows).shows = shows
  BY DEF File

\* What each plotting function shows is what generate read for it.
LEMMA ShownFigure ==
    ASSUME NEW f \in Figures
    PROVE  Shown(f) = read[Source(f)]
<1>1. CASE f = "fig1"
  <2>1. Shown("fig1") = FigIndexSpeedup
    BY Zenon DEF Shown, Bench
  <2> QED
    BY <1>1, <2>1 DEF FigIndexSpeedup, Source
<1>2. CASE f = "fig2"
  <2>1. Shown("fig2") = FigCacheHitrate
    BY Zenon DEF Shown, Bench
  <2> QED
    BY <1>2, <2>1 DEF FigCacheHitrate, Source
<1>3. CASE f = "fig3"
  <2>1. Shown("fig3") = FigCacheCapacity
    BY Zenon DEF Shown, Bench
  <2> QED
    BY <1>3, <2>1 DEF FigCacheCapacity, Source
<1>4. CASE f = "fig4"
  <2>1. Shown("fig4") = FigEncryptionScopes
    BY Zenon DEF Shown, Bench
  <2> QED
    BY <1>4, <2>1 DEF FigEncryptionScopes, Source
<1> QED
  BY <1>1, <1>2, <1>3, <1>4 DEF Figures

LEMMA StepWrite ==
    ASSUME Inv, NEW f \in Artefact, Write(f)
    PROVE  Inv'
<1>1. /\ ~Idle /\ Head(todo) = f
      /\ file' = [file EXCEPT ![f] = File("whole", run, Shown(f))]
      /\ (cut' = (cut /\ f # "fig4")) /\ Advance
      /\ UNCHANGED <<whole, run>>
  BY DEF Write, At
<1>2. Rank(f) = Pos /\ f \in Statement /\ Pos \in 1 .. 11 /\ Pos # 4
  <2>1. f \in Statement
    BY DEF Statement
  <2> QED
    BY <1>1, <2>1, RankIs, RankKinds DEF Pos
<1>3. /\ file' = [g \in Artefact |-> file'[g]]
      /\ file'[f] = File("whole", run, Shown(f))
      /\ \A g \in Artefact : g # f => file'[g] = file[g]
  BY <1>1, FileWritten DEF Inv
<1>4. \A g \in Artefact : g \in Statement /\ Rank(g) \in 1 .. 11 /\ (Rank(g) = Pos => g = f)
  BY <1>2, RankIs, RankInjective DEF Statement
<1>5. \A b \in Bench : b \in Artefact /\ Rank(b) \in 1 .. 3
  BY RankKinds DEF Artefact, Statement
<1>6. \A g \in Figures :
          /\ g \in Artefact /\ Rank(g) \in 5 .. 8
          /\ Source(g) \in Bench
  BY SourceIsResult, RankKinds
<1>7. InFigures <=> f \in Figures
  BY <1>1, <1>2, RankKinds DEF InFigures
<1>8. ASSUME NEW b \in Bench, Pos > 3 PROVE file'[b] = file[b] /\ b # f
  BY <1>2, <1>3, <1>5, <1>8
\* What was true of the files before f is now true of f too.
<1>9. ASSUME NEW g \in Figures, InFigures, Rank(g) <= Pos
      PROVE  file'[g] = File("whole", run, read[Source(g)])
  <2>1. CASE g = f
    BY <1>3, <2>1, ShownFigure
  <2>2. CASE g # f
    <3>1. Rank(g) < Pos /\ file'[g] = file[g]
      BY <1>2, <1>3, <1>4, <1>6, <1>9, <2>2
    <3> QED
      BY <1>9, <3>1 DEF Inv, Drawn
  <2> QED
    BY <2>1, <2>2
<1>10. ASSUME NEW g \in Artefact, whole, Rank(g) <= Pos
       PROVE  file'[g].state = "whole" /\ file'[g].run = run
  <2>1. CASE g = f
    BY <1>3, <2>1 DEF File
  <2>2. CASE g # f
    <3>1. Rank(g) < Pos /\ file'[g] = file[g]
      BY <1>2, <1>3, <1>4, <1>10, <2>2
    <3> QED
      BY <1>1, <1>10, <3>1 DEF Inv, SoFar
  <2> QED
    BY <2>1, <2>2
<1>11. ASSUME NEW g \in Figures, whole, Rank(g) <= Pos
       PROVE  file'[g].shows = file'[Source(g)]
  <2>1. file'[Source(g)] = file[Source(g)]
    BY <1>2, <1>6, <1>8, <1>11
  <2>2. CASE g = f
    <3>1. InFigures /\ file'[g].shows = read[Source(g)]
      BY <1>3, <1>7, <2>2, ShownFigure DEF File
    <3> QED
      BY <1>1, <1>6, <1>11, <2>1, <3>1 DEF Inv, SoFar
  <2>3. CASE g # f
    <3>1. Rank(g) < Pos /\ file'[g] = file[g]
      BY <1>2, <1>3, <1>4, <1>6, <1>11, <2>3
    <3> QED
      BY <1>1, <1>11, <2>1, <3>1 DEF Inv, SoFar
  <2> QED
    BY <2>2, <2>3
\* The last figure completes the four.
<1>12. f = "fig4" => OneReading'
  <2> SUFFICES ASSUME f = "fig4" PROVE OneReading'
    OBVIOUS
  <2>1. InFigures /\ Pos = 8
    BY <1>2, <1>7, RankIs DEF Figures
  <2>2. \A g \in Figures : file'[g] = File("whole", run, read[Source(g)])
    BY <1>6, <1>9, <2>1
  <2>3. \A b \in Bench : read[b].state = "whole"
    BY <2>1 DEF Inv, Drawn
  <2>4. \A g \in Figures : file'[g].shows = read[Source(g)]
    BY <2>2, FileFields
  <2>5. \A g \in Figures : file'[g].shows.state = "whole"
    BY <1>6, <2>3, <2>4
  <2>6. \A g \in Figures : file'[g].state = "whole" /\ file'[g].run = run
    BY <2>2, FileFields
  <2>7. /\ "fig1" \in Figures /\ "fig2" \in Figures /\ "fig3" \in Figures
        /\ Source("fig2") = Source("fig3")
    BY DEF Figures, Source
  <2> QED
    BY <2>4, <2>5, <2>6, <2>7 DEF OneReading
<1>13. f \notin Figures => (~cut' => OneReading')
  <2> SUFFICES ASSUME f \notin Figures, ~cut' PROVE OneReading'
    OBVIOUS
  <2>1. ~cut /\ ~Among
    BY <1>1, <1>7 DEF Among, Figures
  <2>2. \A g \in Figures : file'[g] = file[g]
    BY <1>3, <1>6
  <2>3. "fig1" \in Figures /\ "fig2" \in Figures /\ "fig3" \in Figures
    BY DEF Figures
  <2> QED
    BY <2>1, <2>2, <2>3 DEF Inv, Intact, OneReading
<1>14. CASE Len(todo) # 1
  <2>1. todo' = Tail(todo) /\ UNCHANGED <<read, last>> /\ half' = FALSE
    BY <1>1, <1>14 DEF Advance
  <2>2. /\ ~Idle' /\ Pos' = Pos + 1 /\ todo' \in Seq(Statement)
        /\ \E z \in Ends : Stretch(z)' /\ (whole' => z = 11)
    BY <1>1, <1>14, <2>1, Advances DEF Inv
  <2>3. Shape'
    BY <1>3, <2>2 DEF Shape
  <2>4. InFigures' => InFigures
    BY <1>1, <1>2, <2>2 DEF InFigures
  <2>5. \A g \in Artefact : Rank(g) < Pos + 1 => Rank(g) <= Pos
    BY <1>2, <1>4
  <2>6. Drawn'
    <3>1. InFigures' => \A b \in Bench : read'[b].state = "whole"
      BY <2>1, <2>4 DEF Inv, Drawn
    <3>2. ASSUME InFigures', NEW g \in Figures, Rank(g) < Pos + 1
          PROVE  file'[g] = File("whole", run', read'[Source(g)])
      BY <1>1, <1>6, <1>9, <2>1, <2>4, <2>5, <3>2
    <3> QED
      BY <2>2, <3>1, <3>2 DEF Drawn
  <2>7. SoFar'
    <3>1. ASSUME whole, NEW g \in Artefact, Rank(g) < Pos + 1
          PROVE  file'[g].state = "whole" /\ file'[g].run = run'
      BY <1>1, <1>10, <2>5, <3>1
    <3>2. ASSUME whole, NEW g \in Figures, Rank(g) < Pos + 1
          PROVE  file'[g].shows = file'[Source(g)]
      BY <1>6, <1>11, <2>5, <3>2
    <3>3. ASSUME whole, InFigures', NEW b \in Bench
          PROVE  read'[b] = file'[b]
      <4>1. InFigures /\ Pos > 3
        BY <2>4, <3>3 DEF InFigures
      <4> QED
        BY <1>1, <1>8, <2>1, <3>3, <4>1 DEF Inv, SoFar
    <3> QED
      BY <1>1, <2>2, <3>1, <3>2, <3>3 DEF SoFar
  <2>8. Intact'
    <3>1. CASE f \notin Figures
      BY <1>13, <3>1 DEF Intact
    <3>2. CASE f = "fig4"
      BY <1>12, <3>2 DEF Intact
    <3>3. CASE f \in Figures /\ f # "fig4"
      <4>1. Pos \in 5 .. 7
        BY <1>2, <3>3, RankIs, RankKinds
      <4>2. InFigures' /\ Pos' # 5
        BY <2>2, <4>1 DEF InFigures
      <4>3. Head(todo)' # "fig1"
        BY <4>2, RankIs DEF Pos, Statement, Artefact, Figures
      <4> QED
        BY <4>2, <4>3 DEF Intact, Among
    <3> QED
      BY <3>1, <3>2, <3>3
  <2>9. SameRun'
    BY <2>2 DEF SameRun
  <2> QED
    BY <2>3, <2>6, <2>7, <2>8, <2>9 DEF Inv
<1>15. CASE Len(todo) = 1
  <2>1. todo' = <<>>
    BY <1>1, <1>15 DEF Advance, End
  <2>2. Idle' /\ ~InFigures' /\ ~Among'
    BY <2>1 DEF Idle, InFigures, Among
  <2>3. Pos \in Ends /\ (whole => Pos = 11)
    BY <1>1, <1>15, NextStatement DEF Inv
  <2>4. Shape'
    BY <1>3, <2>1, <2>2 DEF Shape
  <2>5. Drawn' /\ SoFar'
    BY <2>2 DEF Drawn, SoFar
  <2>6. Intact'
    <3>1. CASE f \notin Figures
      BY <1>13, <3>1 DEF Intact
    <3>2. CASE f \in Figures
      <4>1. f = "fig4"
        BY <1>2, <2>3, <3>2, RankIs, RankKinds DEF Ends
      <4> QED
        BY <1>12, <4>1 DEF Intact
    <3> QED
      BY <3>1, <3>2
  <2>7. SameRun'
    <3> SUFFICES ASSUME whole
                 PROVE  /\ \A g \in Artefact : file'[g].state = "whole" /\ file'[g].run = run
                        /\ \A g \in Figures : file'[g].shows = file'[Source(g)]
      BY <1>1 DEF SameRun, Figures, Source
    <3>1. Pos = 11
      BY <2>3
    <3>2. \A g \in Artefact : Rank(g) <= Pos
      BY <1>4, <3>1
    <3> QED
      BY <1>6, <1>10, <1>11, <3>2
  <2> QED
    BY <2>4, <2>5, <2>6, <2>7 DEF Inv
<1> QED
  BY <1>14, <1>15
-----------------------------------------------------------------------------
LEMMA InitInv == Init => Inv
<1> SUFFICES ASSUME Init PROVE Inv
  OBVIOUS
<1>1. Idle /\ ~InFigures /\ todo \in Seq(Statement) /\ last # "returned"
  BY DEF Init, Idle, InFigures
<1>2. file = [g \in Artefact |-> file[g]] /\ file["fig1"].run = 0
  BY DEF Init, Missing, File, Artefact, Figures
<1>3. Shape /\ Drawn /\ SoFar /\ SameRun
  BY <1>1, <1>2 DEF Shape, Drawn, SoFar, SameRun
<1>4. Intact
  BY <1>2 DEF Intact, OneReading
<1> QED
  BY <1>3, <1>4 DEF Inv

LEMMA StepInv == Inv /\ [Next]_vars => Inv'
<1> SUFFICES ASSUME Inv, [Next]_vars PROVE Inv'
  OBVIOUS
<1>1. CASE \E script \in Script : Start(script)
  BY <1>1, StepStart
<1>2. CASE \E bench \in Bench : Measure(bench)
  BY <1>2, Quiet DEF Measure
<1>3. CASE \E f \in Artefact : Open(f) \/ Write(f)
  BY <1>3, StepOpen, StepWrite
<1>4. CASE Read
  BY <1>4, StepRead
<1>5. CASE ReadRaises
  BY <1>5, StepReadRaises
<1>6. CASE \E status \in {"PASS", "FAIL"} : Pytest(status)
  BY <1>6, StepPytest
<1>7. CASE Stop
  BY <1>7, StepStop
<1>8. CASE DatasetChanges
  BY <1>8, Quiet DEF DatasetChanges
<1>9. CASE UNCHANGED vars
  BY <1>9, Quiet DEF vars
<1> QED
  BY <1>1, <1>2, <1>3, <1>4, <1>5, <1>6, <1>7, <1>8, <1>9 DEF Next

LEMMA Invariance == Spec => []Inv
  BY InitInv, StepInv, PTL DEF Spec

(* run_all.py:2, "Every number in the writeup comes from the same run":     *)
(* after any history of crashes and partial reruns, a run_all that returned *)
(* leaves every artefact complete, of this run, and every figure showing    *)
(* the result that lies beside it.                                          *)
THEOREM ReportingSameRun == Spec => []SameRun
<1>1. Inv => SameRun
  BY DEF Inv
<1> QED
  BY <1>1, Invariance, PTL

(* Unless generate was stopped among its figures, the four come from one    *)
(* reading of complete results (generate_figures.py:207).                   *)
THEOREM ReportingFiguresAreOneReading == Spec => []FiguresAreOneReading
<1>1. Inv => FiguresAreOneReading
  <2>1. Idle => ~Among
    BY DEF Among, InFigures
  <2> QED
    BY <2>1 DEF Inv, Intact, OneReading, FiguresAreOneReading
<1> QED
  BY <1>1, Invariance, PTL
-----------------------------------------------------------------------------
\* An OrderedDict: keys in order, none twice, and no more than the cache takes.
Distinct(S) == {s \in Seq(S) : IsInjective(s)}

\* A non-empty set of naturals has a least element.
LEMMA SmallestExists ==
    ASSUME NEW S \in SUBSET Nat, S # {}
    PROVE  Min(S) \in S /\ \A x \in S : Min(S) <= x
<1> DEFINE Below == {0 .. x : x \in S}
<1>1. Below \subseteq FiniteSubsetsOf(Nat) /\ Below # {}
  <2>1. ASSUME NEW x \in S PROVE 0 .. x \in FiniteSubsetsOf(Nat)
    <3>1. IsFiniteSet(0 .. x) /\ 0 .. x \in SUBSET Nat
      BY FS_Interval
    <3> QED
      BY <3>1 DEF FiniteSubsetsOf
  <2> QED
    BY <2>1
<1>2. PICK X \in Below : \A Y \in Below : <<Y, X>> \notin StrictSubsetOrdering(Nat)
  BY <1>1, FS_StrictSubsetOrderingWellFounded, WFMin
<1>3. PICK x \in S : X = 0 .. x
  OBVIOUS
<1>4. ASSUME NEW y \in S PROVE x <= y
  <2> SUFFICES ASSUME y < x PROVE FALSE
    OBVIOUS
  <2>1. 0 .. y \in SUBSET Nat /\ X \in SUBSET Nat /\ 0 .. y \subseteq X
    BY <1>3
  <2>2. x \in X /\ x \notin 0 .. y
    BY <1>3
  <2>3. <<0 .. y, X>> \in StrictSubsetOrdering(Nat)
    BY <2>1, <2>2 DEF StrictSubsetOrdering
  <2> QED
    BY <1>2, <2>3
<1> QED
  BY <1>4 DEF Min

LEMMA DistinctRange ==
    ASSUME NEW S, NEW s \in Distinct(S)
    PROVE  /\ Len(s) \in Nat
           /\ ToSet(s) \subseteq S
           /\ ToSet(s) = {} <=> Len(s) = 0
           /\ s = <<>> <=> Len(s) = 0
           /\ \A i \in 1 .. Len(s) : s[i] \in ToSet(s)
  BY DEF Distinct, ToSet

LEMMA RemoveElement ==
    ASSUME NEW S, NEW s \in Distinct(S), NEW i \in 1 .. Len(s)
    PROVE  /\ RemoveAt(s, i) \in Distinct(S)
           /\ Len(RemoveAt(s, i)) = Len(s) - 1
           /\ ToSet(RemoveAt(s, i)) = ToSet(s) \ {s[i]}
           /\ \A j \in 1 .. Len(s) - 1 : RemoveAt(s, i)[j] = IF j < i THEN s[j] ELSE s[j + 1]
<1> DEFINE head == SubSeq(s, 1, i - 1)
           tail == SubSeq(s, i + 1, Len(s))
           rest == RemoveAt(s, i)
<1>1. /\ s \in Seq(S) /\ Len(s) \in Nat /\ DOMAIN s = 1 .. Len(s)
      /\ \A j \in 1 .. Len(s) : s[j] \in S
      /\ \A j, k \in 1 .. Len(s) : s[j] = s[k] => j = k
  BY LenProperties DEF Distinct, IsInjective
<1>2. /\ head \in Seq(S) /\ Len(head) = i - 1
      /\ \A j \in 1 .. i - 1 : head[j] = s[j]
  BY <1>1, SubSeqProperties
<1>3. /\ tail \in Seq(S) /\ Len(tail) = Len(s) - i
      /\ \A j \in 1 .. Len(s) - i : tail[j] = s[i + j]
  <2>1. /\ tail \in Seq(S)
        /\ Len(tail) = IF i + 1 <= Len(s) THEN Len(s) - (i + 1) + 1 ELSE 0
        /\ \A j \in 1 .. Len(s) - (i + 1) + 1 : tail[j] = s[(i + 1) + j - 1]
    <3>1. \A j \in i + 1 .. Len(s) : s[j] \in S
      BY <1>1
    <3> HIDE DEF tail
    <3> DEFINE m == i + 1
               n == Len(s)
    <3>2. m \in Int /\ n \in Int
      BY <1>1
    <3>3. tail = SubSeq(s, m, n)
      BY DEF tail
    <3> HIDE DEF m, n
    <3>4. /\ tail \in Seq(S)
          /\ Len(tail) = IF m <= n THEN n - m + 1 ELSE 0
          /\ \A j \in 1 .. n - m + 1 : tail[j] = s[m + j - 1]
      BY <3>1, <3>2, <3>3, SubSeqProperties DEF m, n
    <3> QED
      BY <3>4 DEF m, n
  <2> HIDE DEF tail
  <2>2. Len(tail) = Len(s) - i
    <3>1. Len(s) \in Nat /\ i \in Nat /\ i <= Len(s)
      BY <1>1
    <3> QED
      BY <2>1, <3>1
  <2>3. ASSUME NEW j \in 1 .. Len(s) - i PROVE tail[j] = s[i + j]
    <3>1. j \in 1 .. Len(s) - (i + 1) + 1 /\ (i + 1) + j - 1 = i + j
      BY <1>1
    <3> QED
      BY <2>1, <3>1
  <2> QED
    BY <2>1, <2>2, <2>3
<1>4. /\ rest \in Seq(S) /\ Len(rest) = Len(s) - 1
      /\ DOMAIN rest = 1 .. Len(s) - 1
      /\ \A j \in 1 .. Len(s) - 1 : rest[j] = IF j < i THEN s[j] ELSE s[j + 1]
  <2> HIDE DEF head, tail
  <2>1. rest = head \o tail
    BY DEF RemoveAt, head, tail
  <2> HIDE DEF rest
  <2>2. rest \in Seq(S) /\ Len(rest) = Len(head) + Len(tail)
    BY <2>1, <1>2, <1>3, ConcatProperties
  <2>3. \A j \in 1 .. Len(head) + Len(tail) :
            rest[j] = IF j <= Len(head) THEN head[j] ELSE tail[j - Len(head)]
    BY <2>1, <1>2, <1>3, ConcatProperties
  <2>4. Len(s) \in Nat /\ i \in 1 .. Len(s)
    BY <1>1
  <2>5. Len(rest) = Len(s) - 1
    BY <1>2, <1>3, <2>2, <2>4
  <2>6. ASSUME NEW j \in 1 .. Len(s) - 1
        PROVE  rest[j] = IF j < i THEN s[j] ELSE s[j + 1]
    <3>1. j \in 1 .. Len(head) + Len(tail)
      BY <1>2, <1>3, <2>4
    <3>2. CASE j < i
      BY <1>2, <2>3, <2>4, <3>1, <3>2
    <3>3. CASE j >= i
      <4>1. j - (i - 1) \in 1 .. Len(s) - i /\ i + (j - (i - 1)) = j + 1
        BY <2>4, <3>3
      <4>2. ~(j <= Len(head))
        BY <1>2, <2>4, <3>3
      <4>3. rest[j] = tail[j - Len(head)]
        BY <2>3, <3>1, <4>2
      <4> QED
        BY <1>2, <1>3, <2>4, <3>3, <4>1, <4>3
    <3> QED
      BY <2>4, <3>2, <3>3
  <2> QED
    BY <2>2, <2>5, <2>6, LenProperties
<1> HIDE DEF rest
<1>5. IsInjective(rest)
  <2> SUFFICES ASSUME NEW j \in 1 .. Len(s) - 1, NEW k \in 1 .. Len(s) - 1, rest[j] = rest[k]
               PROVE  j = k
    BY <1>4 DEF IsInjective
  <2> DEFINE old(n) == IF n < i THEN n ELSE n + 1
  <2>1. old(j) \in 1 .. Len(s) /\ old(k) \in 1 .. Len(s) /\ s[old(j)] = s[old(k)]
    BY <1>1, <1>4
  <2>2. old(j) = old(k)
    BY <1>1, <2>1
  <2> QED
    BY <2>2
<1>6. ToSet(rest) = ToSet(s) \ {s[i]}
  <2>1. ASSUME NEW j \in 1 .. Len(s) - 1 PROVE rest[j] \in ToSet(s) \ {s[i]}
    BY <1>1, <1>4 DEF ToSet
  <2>2. ASSUME NEW j \in 1 .. Len(s), s[j] # s[i] PROVE s[j] \in ToSet(rest)
    <3>1. CASE j < i
      BY <1>1, <1>4, <3>1 DEF ToSet
    <3>2. CASE j > i
      <4>1. j - 1 \in 1 .. Len(s) - 1 /\ rest[j - 1] = s[j]
        BY <1>1, <1>4, <3>2
      <4> QED
        BY <1>4, <4>1 DEF ToSet
    <3> QED
      BY <2>2, <3>1, <3>2
  <2> QED
    BY <1>1, <1>4, <2>1, <2>2 DEF ToSet
<1> QED
  BY <1>4, <1>5, <1>6 DEF Distinct, rest

LEMMA AppendElement ==
    ASSUME NEW S, NEW s \in Distinct(S), NEW key \in S
    PROVE  /\ Len(Append(s, key)) = Len(s) + 1
           /\ ToSet(Append(s, key)) = ToSet(s) \cup {key}
           /\ key \notin ToSet(s) => Append(s, key) \in Distinct(S)
<1>1. /\ s \in Seq(S) /\ Len(s) \in Nat /\ DOMAIN s = 1 .. Len(s)
      /\ \A j \in 1 .. Len(s) : s[j] \in S
      /\ \A j, k \in 1 .. Len(s) : s[j] = s[k] => j = k
  BY LenProperties DEF Distinct, IsInjective
<1>2. /\ Append(s, key) \in Seq(S) /\ Len(Append(s, key)) = Len(s) + 1
      /\ DOMAIN Append(s, key) = 1 .. Len(s) + 1
      /\ \A i \in 1 .. Len(s) : Append(s, key)[i] = s[i]
      /\ Append(s, key)[Len(s) + 1] = key
  BY <1>1, AppendProperties, LenProperties
<1> DEFINE longer == Append(s, key)
<1> HIDE DEF longer
<1>3. ToSet(longer) = ToSet(s) \cup {key}
  BY <1>1, <1>2 DEF ToSet, longer
<1>4. key \notin ToSet(s) => IsInjective(longer)
  BY <1>1, <1>2 DEF IsInjective, ToSet, longer
<1> QED
  BY <1>2, <1>3, <1>4 DEF Distinct, longer

LEMMA ContainsIsIn ==
    ASSUME NEW S, NEW s \in Distinct(S), NEW key
    PROVE  Contains(s, key) <=> key \in ToSet(s)
  BY LenProperties DEF Contains, ToSet, Distinct

LEMMA DistinctCardinality ==
    ASSUME NEW S, NEW s \in Distinct(S)
    PROVE  IsFiniteSet(ToSet(s)) /\ Cardinality(ToSet(s)) = Len(s)
<1>1. Len(s) \in Nat /\ s \in [1 .. Len(s) -> ToSet(s)]
  BY LenProperties DEF Distinct, ToSet
<1>2. s \in Bijection(1 .. Len(s), ToSet(s))
  BY <1>1 DEF Distinct, Bijection, Injection, Surjection, IsInjective, ToSet
<1>3. IsFiniteSet(1 .. Len(s)) /\ Cardinality(1 .. Len(s)) = Len(s)
  BY <1>1, FS_Interval
<1> QED
  BY <1>2, <1>3, FS_Bijection DEF ExistsBijection

-----------------------------------------------------------------------------
Lists == {s \in Distinct(Key) : Len(s) <= Capacity}

Asked(n) == {queries[i] : i \in 1 .. n}

BenchTypes ==
    /\ queries \in QueryLists
    /\ phase \in {"fill", "get", "put", "done"}
    /\ pos \in 1 .. QueryCount
    /\ seen \in Lists /\ od \in Lists /\ order \in Lists
    /\ freq \in [ToSet(order) -> Nat]
    /\ hit_count \in [Policy -> Nat]
    /\ answer \in [Policy -> {"new", "hit", "miss", "done"}]

\* The fallback and cachetools are one list.
Twins == ct = od /\ answer["reference_LRU"] = answer["cachetools.LRU"]

AnswerOf(keys) == IF queries[pos] \in keys THEN "hit" ELSE "miss"

\* What get has answered is still so when put comes.
Answers ==
    phase = "put" =>
        /\ answer["reference_LRU"] = AnswerOf(ToSet(od))
        /\ answer["reference_LFU"] = AnswerOf(ToSet(order))

\* While filling, every policy holds what has been seen, and has room.
Filling ==
    IF phase = "fill"
    THEN /\ Filled = Asked(pos - 1)
         /\ Len(seen) < Capacity
         /\ od = seen /\ order = seen /\ resident = Filled
    ELSE /\ \E m \in 1 .. QueryCount : Filled = Asked(m)
         /\ Len(seen) = Capacity \/ Filled = Asked(QueryCount)

\* Until the replay asks for a key that was not filled, nothing is evicted.
Warm ==
    phase \in {"get", "put"} /\ Asked(pos - 1) \subseteq Filled =>
        /\ resident = Filled /\ ToSet(od) = Filled /\ ToSet(order) = Filled
        /\ phase = "put" => outcome = AnswerOf(Filled)

\* Among the first n queries, b is asked for after a is for the last time.
Before(n, a, b) ==
    \E i \in 1 .. n : queries[i] = b /\ \A j \in 1 .. n : queries[j] = a => j < i

\* The list is in the order of the last requests, filled keys that were not
\* asked for coming first; what has been lost was asked for before what is
\* held.  A key that was just missed is neither.
Recent ==
    phase # "fill" =>
        /\ ToSet(od) \subseteq Filled \cup Asked(Answered)
        /\ \A i, j \in 1 .. Len(od) :
              i < j /\ od[i] \in Asked(Answered) => Before(Answered, od[i], od[j])
        /\ \A key \in ToSet(od), other \in Filled \cup Asked(Answered) :
              other \notin ToSet(od) /\ ~(phase = "put" /\ other = queries[pos])
                => Before(Answered, other, key)

BenchInv == BenchTypes /\ Twins /\ Answers /\ Filling /\ Warm /\ Recent
-----------------------------------------------------------------------------
\* The elements of rest are elements of s, in the order of s.
Within(rest, s) ==
    \A i, j \in 1 .. Len(rest) :
        i < j => \E k, l \in 1 .. Len(s) : k < l /\ s[k] = rest[i] /\ s[l] = rest[j]

LEMMA WithoutKeeps ==
    ASSUME NEW s \in Distinct(Key), NEW key \in Key
    PROVE  /\ Without(s, key) \in Distinct(Key)
           /\ ToSet(Without(s, key)) = ToSet(s) \ {key}
           /\ Within(Without(s, key), s)
           /\ key \notin ToSet(s) => Without(s, key) = s
           /\ key \in ToSet(s) => Len(Without(s, key)) = Len(s) - 1
<1>0. Len(s) \in Nat
  BY DistinctRange
<1>1. CASE key \notin ToSet(s)
  <2>1. Without(s, key) = s
    BY <1>1, ContainsIsIn DEF Without
  <2>2. Within(s, s)
    BY <1>0 DEF Within
  <2> QED
    BY <1>1, <2>1, <2>2
<1>2. CASE key \in ToSet(s)
  <2> DEFINE i == CHOOSE i \in DOMAIN s : s[i] = key
             rest == RemoveAt(s, i)
  <2>1. i \in 1 .. Len(s) /\ s[i] = key
    BY <1>2, LenProperties DEF Distinct, ToSet
  <2>2. Without(s, key) = rest
    BY <1>2, ContainsIsIn DEF Without
  <2> HIDE DEF i
  <2>3. /\ rest \in Distinct(Key) /\ Len(rest) = Len(s) - 1
        /\ ToSet(rest) = ToSet(s) \ {key}
        /\ \A j \in 1 .. Len(s) - 1 : rest[j] = IF j < i THEN s[j] ELSE s[j + 1]
    BY <2>1, RemoveElement
  <2> HIDE DEF rest
  <2>4. Within(rest, s)
    <3> SUFFICES ASSUME NEW j \in 1 .. Len(rest), NEW k \in 1 .. Len(rest), j < k
                 PROVE  \E a, b \in 1 .. Len(s) : a < b /\ s[a] = rest[j] /\ s[b] = rest[k]
      BY DEF Within
    <3> DEFINE old(n) == IF n < i THEN n ELSE n + 1
    <3>1. j \in 1 .. Len(s) - 1 /\ k \in 1 .. Len(s) - 1
      BY <2>3
    <3>2. old(j) \in 1 .. Len(s) /\ old(k) \in 1 .. Len(s) /\ old(j) < old(k)
      BY <1>0, <2>1, <3>1
    <3>3. s[old(j)] = rest[j] /\ s[old(k)] = rest[k]
      BY <2>3, <3>1
    <3> HIDE DEF old
    <3> QED
      BY <3>2, <3>3
  <2> QED
    BY <1>2, <2>2, <2>3, <2>4
<1> QED
  BY <1>1, <1>2

LEMMA TailKeeps ==
    ASSUME NEW s \in Distinct(Key), Len(s) # 0
    PROVE  /\ Tail(s) \in Distinct(Key)
           /\ Len(Tail(s)) = Len(s) - 1
           /\ s[1] \in ToSet(s)
           /\ ToSet(Tail(s)) = ToSet(s) \ {s[1]}
           /\ \A i \in 1 .. Len(s) - 1 : Tail(s)[i] = s[i + 1]
           /\ Within(Tail(s), s)
<1> DEFINE rest == Tail(s)
<1>1. /\ s \in Seq(Key) /\ Len(s) \in Nat /\ s # <<>> /\ DOMAIN s = 1 .. Len(s)
      /\ \A i, j \in 1 .. Len(s) : s[i] = s[j] => i = j
  BY LenProperties DEF Distinct, IsInjective
<1>2. /\ rest \in Seq(Key) /\ Len(rest) = Len(s) - 1
      /\ DOMAIN rest = 1 .. Len(s) - 1
      /\ \A i \in 1 .. Len(s) - 1 : rest[i] = s[i + 1]
  BY <1>1, HeadTailProperties, LenProperties
<1> HIDE DEF rest
<1>3. IsInjective(rest)
  BY <1>1, <1>2 DEF IsInjective
<1>4. ToSet(rest) = ToSet(s) \ {s[1]}
  <2>1. ASSUME NEW i \in 1 .. Len(s) - 1 PROVE rest[i] \in ToSet(s) \ {s[1]}
    BY <1>1, <1>2 DEF ToSet
  <2>2. ASSUME NEW i \in 1 .. Len(s), s[i] # s[1] PROVE s[i] \in ToSet(rest)
    <3>1. i - 1 \in 1 .. Len(s) - 1 /\ rest[i - 1] = s[i]
      BY <1>1, <1>2, <2>2
    <3> QED
      BY <1>2, <3>1 DEF ToSet
  <2> QED
    BY <1>1, <1>2, <2>1, <2>2 DEF ToSet
<1>5. Within(rest, s)
  <2> SUFFICES ASSUME NEW i \in 1 .. Len(rest), NEW j \in 1 .. Len(rest), i < j
               PROVE  \E k, l \in 1 .. Len(s) : k < l /\ s[k] = rest[i] /\ s[l] = rest[j]
    BY DEF Within
  <2>1. i + 1 \in 1 .. Len(s) /\ j + 1 \in 1 .. Len(s) /\ i + 1 < j + 1
    BY <1>1, <1>2
  <2> QED
    BY <1>2, <2>1
<1>6. s[1] \in ToSet(s)
  <2>1. 1 \in 1 .. Len(s)
    BY <1>1
  <2> QED
    BY <2>1, DistinctRange
<1> QED
  BY <1>2, <1>3, <1>4, <1>5, <1>6 DEF rest, Distinct

LEMMA TailOfAppend ==
    ASSUME NEW s \in Distinct(Key), Len(s) # 0, NEW key \in Key
    PROVE  Tail(Append(s, key)) = Append(Tail(s), key)
<1>1. s \in Seq(Key) /\ Len(s) \in Nat
  BY DEF Distinct
<1>2. /\ Append(s, key) \in Seq(Key) /\ Len(Append(s, key)) = Len(s) + 1
      /\ \A i \in 1 .. Len(s) : Append(s, key)[i] = s[i]
      /\ Append(s, key)[Len(s) + 1] = key
  BY <1>1, AppendProperties
<1>3. /\ Tail(s) \in Seq(Key) /\ Len(Tail(s)) = Len(s) - 1
      /\ \A i \in 1 .. Len(s) - 1 : Tail(s)[i] = s[i + 1]
  BY TailKeeps DEF Distinct
<1>4. /\ Append(Tail(s), key) \in Seq(Key) /\ Len(Append(Tail(s), key)) = Len(s)
      /\ \A i \in 1 .. Len(s) - 1 : Append(Tail(s), key)[i] = s[i + 1]
      /\ Append(Tail(s), key)[Len(s)] = key
  <2> DEFINE t == Tail(s)
  <2>1. t \in Seq(Key) /\ Len(t) = Len(s) - 1
    BY <1>3
  <2> HIDE DEF t
  <2>2. /\ Append(t, key) \in Seq(Key) /\ Len(Append(t, key)) = Len(t) + 1
        /\ \A i \in 1 .. Len(t) : Append(t, key)[i] = t[i]
        /\ Append(t, key)[Len(t) + 1] = key
    BY <2>1, AppendProperties
  <2>3. Len(t) + 1 = Len(s)
    BY <1>1, <2>1
  <2> QED
    BY <1>3, <2>1, <2>2, <2>3 DEF t
<1> DEFINE longer == Append(s, key)
           x == Tail(longer)
           y == Append(Tail(s), key)
<1>5. longer \in Seq(Key) /\ longer # <<>>
  BY <1>1, <1>2
<1>6. /\ x \in Seq(Key) /\ Len(x) = Len(s)
      /\ \A i \in 1 .. Len(s) : x[i] = longer[i + 1]
  <2>1. Len(longer) = Len(s) + 1
    BY <1>2
  <2> HIDE DEF longer
  <2>2. /\ Tail(longer) \in Seq(Key) /\ Len(Tail(longer)) = Len(longer) - 1
        /\ \A i \in 1 .. Len(Tail(longer)) : Tail(longer)[i] = longer[i + 1]
    BY <1>5, HeadTailProperties
  <2> QED
    BY <1>1, <2>1, <2>2
<1>7. \A i \in 1 .. Len(s) : x[i] = y[i]
  <2> SUFFICES ASSUME NEW i \in 1 .. Len(s) PROVE x[i] = y[i]
    OBVIOUS
  <2>1. x[i] = longer[i + 1]
    BY <1>6
  <2>2. CASE i = Len(s)
    BY <1>2, <1>4, <2>1, <2>2
  <2>3. CASE i # Len(s)
    <3>1. i \in 1 .. Len(s) - 1 /\ i + 1 \in 1 .. Len(s)
      BY <1>1, <2>3
    <3> QED
      BY <1>2, <1>4, <2>1, <3>1
  <2> QED
    BY <2>2, <2>3
<1>8. y \in Seq(Key) /\ Len(y) = Len(s)
  BY <1>4
<1> HIDE DEF x, y
<1>9. x = y
  BY <1>6, <1>7, <1>8, SeqEqual
<1> QED
  BY <1>9 DEF x, y

USE CapacityAssumption, QueryCountAssumption, KeyAssumption

\* What put makes of an LRU list: the key goes to the end of what is left.
Stored(s, key, rest, new) ==
    /\ new = Append(rest, key)
    /\ rest \in Distinct(Key) /\ key \notin ToSet(rest)
    /\ Len(rest) < Capacity
    /\ Within(rest, s)
    /\ \/ /\ key \in ToSet(s)
          /\ ToSet(rest) = ToSet(s) \ {key}
       \/ /\ key \notin ToSet(s) /\ Len(s) < Capacity
          /\ rest = s
       \/ /\ key \notin ToSet(s) /\ Len(s) = Capacity
          /\ rest = Tail(s)
          /\ s[1] \in ToSet(s) /\ ToSet(rest) = ToSet(s) \ {s[1]}

\* The fallback inserts and then pops, cachetools makes room first: the same.
LEMMA PutStores ==
    ASSUME NEW s \in Lists, NEW key \in Key
    PROVE  /\ \E rest : Stored(s, key, rest, RefLRUPut(s, key))
           /\ CachetoolsPut(s, key) = RefLRUPut(s, key)
<1>1. /\ s \in Distinct(Key) /\ Len(s) \in Nat /\ Len(s) <= Capacity
      /\ Capacity \in Nat /\ Capacity > 0
  BY DistinctRange DEF Lists
<1> DEFINE rest == Without(s, key)
<1>2. /\ rest \in Distinct(Key) /\ ToSet(rest) = ToSet(s) \ {key} /\ Within(rest, s)
      /\ key \notin ToSet(s) => rest = s
      /\ key \in ToSet(s) => Len(rest) = Len(s) - 1
  BY <1>1, WithoutKeeps
<1>3. Touch(s, key) = Append(rest, key)
  BY DEF Touch
<1> HIDE DEF rest
<1>4. /\ Len(Append(rest, key)) = Len(rest) + 1
      /\ Len(rest) \in Nat
  BY <1>2, AppendElement, DistinctRange
<1>5. Contains(s, key) <=> key \in ToSet(s)
  BY <1>1, ContainsIsIn
<1>6. CASE key \in ToSet(s)
  <2>1. Len(rest) = Len(s) - 1 /\ ~(Len(Append(rest, key)) > Capacity)
    BY <1>1, <1>2, <1>4, <1>6
  <2>2. RefLRUPut(s, key) = Append(rest, key) /\ CachetoolsPut(s, key) = Append(rest, key)
    BY <1>3, <1>5, <1>6, <2>1 DEF RefLRUPut, CachetoolsPut
  <2>3. Stored(s, key, rest, RefLRUPut(s, key))
    BY <1>1, <1>2, <1>6, <2>1, <2>2 DEF Stored
  <2> QED
    BY <2>2, <2>3
<1>7. CASE key \notin ToSet(s) /\ Len(s) < Capacity
  <2>1. rest = s /\ ~(Len(Append(rest, key)) > Capacity)
    BY <1>1, <1>2, <1>4, <1>7
  <2>2. RefLRUPut(s, key) = Append(rest, key) /\ CachetoolsPut(s, key) = Append(rest, key)
    BY <1>3, <1>7, <2>1 DEF RefLRUPut, CachetoolsPut
  <2>3. Stored(s, key, rest, RefLRUPut(s, key))
    BY <1>1, <1>2, <1>7, <2>1, <2>2 DEF Stored
  <2> QED
    BY <2>2, <2>3
<1>8. CASE key \notin ToSet(s) /\ Len(s) = Capacity
  <2>1. rest = s /\ Len(Append(s, key)) > Capacity /\ Len(s) # 0
    BY <1>1, <1>2, <1>4, <1>8
  <2>2. RefLRUPut(s, key) = Append(Tail(s), key)
    <3>1. RefLRUPut(s, key) = Tail(Append(s, key))
      BY <1>3, <2>1 DEF RefLRUPut
    <3> QED
      BY <1>1, <2>1, <3>1, TailOfAppend
  <2>3. CachetoolsPut(s, key) = Append(Tail(s), key)
    BY <1>5, <1>8 DEF CachetoolsPut
  <2>4. Stored(s, key, Tail(s), RefLRUPut(s, key))
    <3>1. /\ Tail(s) \in Distinct(Key) /\ Len(Tail(s)) = Len(s) - 1
          /\ s[1] \in ToSet(s) /\ ToSet(Tail(s)) = ToSet(s) \ {s[1]}
          /\ Within(Tail(s), s)
      BY <1>1, <2>1, TailKeeps
    <3>2. Len(Tail(s)) < Capacity
      BY <1>1, <1>8, <3>1
    <3> QED
      BY <1>8, <2>2, <3>1, <3>2 DEF Stored
  <2> QED
    BY <2>2, <2>3, <2>4
<1> QED
  BY <1>1, <1>6, <1>7, <1>8

LEMMA StoredList ==
    ASSUME NEW s \in Lists, NEW key \in Key, NEW rest, NEW new, Stored(s, key, rest, new)
    PROVE  /\ new \in Lists
           /\ ToSet(new) = ToSet(rest) \cup {key}
           /\ Len(rest) \in Nat /\ Len(new) = Len(rest) + 1
           /\ new[Len(new)] = key
           /\ \A i \in 1 .. Len(rest) : new[i] = rest[i] /\ rest[i] \in ToSet(rest)
<1>1. /\ rest \in Distinct(Key) /\ key \notin ToSet(rest)
      /\ Len(rest) < Capacity /\ new = Append(rest, key)
  BY DEF Stored
<1>2. rest \in Seq(Key) /\ Len(rest) \in Nat /\ \A i \in 1 .. Len(rest) : rest[i] \in ToSet(rest)
  BY <1>1, DistinctRange DEF Distinct
<1>3. /\ Len(new) = Len(rest) + 1 /\ new[Len(rest) + 1] = key
      /\ \A i \in 1 .. Len(rest) : new[i] = rest[i]
  BY <1>1, <1>2, AppendProperties
<1>4. new \in Distinct(Key) /\ ToSet(new) = ToSet(rest) \cup {key}
  BY <1>1, AppendElement
<1> QED
  BY <1>1, <1>2, <1>3, <1>4 DEF Lists

\* get moves the key to the end, if it is there.
LEMMA GetMoves ==
    ASSUME NEW s \in Lists, NEW key \in Key
    PROVE  /\ LRUGet(s, key) \in Lists
           /\ ToSet(LRUGet(s, key)) = ToSet(s)
           /\ key \notin ToSet(s) => LRUGet(s, key) = s
           /\ key \in ToSet(s) => \E rest : Stored(s, key, rest, LRUGet(s, key))
<1>1. s \in Distinct(Key) /\ Len(s) \in Nat /\ Len(s) <= Capacity /\ Capacity \in Nat
  BY DistinctRange DEF Lists
<1>2. Contains(s, key) <=> key \in ToSet(s)
  BY <1>1, ContainsIsIn
<1>3. CASE key \notin ToSet(s)
  BY <1>2, <1>3 DEF LRUGet
<1>4. CASE key \in ToSet(s)
  <2> DEFINE rest == Without(s, key)
  <2>1. /\ rest \in Distinct(Key) /\ ToSet(rest) = ToSet(s) \ {key} /\ Within(rest, s)
        /\ Len(rest) = Len(s) - 1
    BY <1>1, <1>4, WithoutKeeps
  <2>2. LRUGet(s, key) = Append(rest, key)
    BY <1>2, <1>4 DEF LRUGet, Touch
  <2> HIDE DEF rest
  <2>3. Len(rest) < Capacity
    BY <1>1, <2>1
  <2>4. Stored(s, key, rest, LRUGet(s, key))
    BY <1>4, <2>1, <2>2, <2>3 DEF Stored
  <2>5. LRUGet(s, key) \in Lists /\ ToSet(LRUGet(s, key)) = ToSet(rest) \cup {key}
    BY <2>4, StoredList
  <2> QED
    BY <1>4, <2>1, <2>4, <2>5
<1> QED
  BY <1>3, <1>4
-----------------------------------------------------------------------------
\* The victim of _RefLFU: a least count exists, and a first key that has it.
LEMMA VictimIsThere ==
    ASSUME order \in Distinct(Key), Len(order) # 0, freq \in [ToSet(order) -> Nat]
    PROVE  RefLFUVictim \in 1 .. Len(order)
<1>1. /\ Len(order) \in Nat /\ DOMAIN order = 1 .. Len(order)
      /\ \A i \in 1 .. Len(order) : order[i] \in ToSet(order)
  BY DistinctRange, LenProperties DEF Distinct
<1>2. \A i \in 1 .. Len(order) : freq[order[i]] \in Nat
  BY <1>1
<1> DEFINE counts == {freq[order[i]] : i \in 1 .. Len(order)}
<1>3. counts \in SUBSET Nat /\ counts # {}
  <2>1. 1 \in 1 .. Len(order)
    BY <1>1
  <2> QED
    BY <1>2, <2>1
<1>4. PICK i \in 1 .. Len(order) : \A j \in 1 .. Len(order) : freq[order[i]] <= freq[order[j]]
  <2>1. Min(counts) \in counts /\ \A c \in counts : Min(counts) <= c
    BY <1>3, SmallestExists
  <2> QED
    BY <2>1
<1> DEFINE least == {j \in 1 .. Len(order) : freq[order[j]] = freq[order[i]]}
<1>5. least \in SUBSET Nat /\ least # {}
  OBVIOUS
<1>6. PICK first \in least : \A j \in least : first <= j
  BY <1>5, SmallestExists
<1>7. first \in 1 .. Len(order) /\ freq[order[first]] = freq[order[i]]
  BY <1>6
<1>8. ASSUME NEW j \in 1 .. Len(order)
      PROVE  \/ freq[order[first]] < freq[order[j]]
             \/ freq[order[first]] = freq[order[j]] /\ first <= j
  <2>1. freq[order[first]] \in Nat /\ freq[order[j]] \in Nat /\ freq[order[first]] <= freq[order[j]]
    BY <1>2, <1>4, <1>7
  <2>2. CASE freq[order[j]] = freq[order[i]]
    BY <1>6, <1>7, <2>2
  <2>3. CASE freq[order[j]] # freq[order[i]]
    BY <1>7, <2>1, <2>3
  <2> QED
    BY <2>2, <2>3
<1> HIDE DEF least, counts
<1>9. \E k \in DOMAIN order : \A j \in DOMAIN order :
          \/ freq[order[k]] < freq[order[j]]
          \/ freq[order[k]] = freq[order[j]] /\ k <= j
  BY <1>1, <1>7, <1>8
<1> QED
  BY <1>1, <1>9 DEF RefLFUVictim

\* What put does to _RefLFU.
LFUStored(key) ==
    \/ /\ key \in ToSet(order)
       /\ order' = order
    \/ /\ key \notin ToSet(order) /\ Len(order) < Capacity
       /\ order' = Append(order, key)
       /\ ToSet(order') = ToSet(order) \cup {key}
    \/ /\ key \notin ToSet(order) /\ Len(order) = Capacity
       /\ \E victim \in ToSet(order) : ToSet(order') = (ToSet(order) \ {victim}) \cup {key}

LEMMA UsedCounts ==
    ASSUME freq \in [ToSet(order) -> Nat], NEW key \in ToSet(order), Used(key)
    PROVE  order' = order /\ freq' \in [ToSet(order) -> Nat]
  BY DEF Used

LEMMA AdmitStores ==
    ASSUME freq \in [ToSet(order) -> Nat], NEW keys \in Distinct(Key), NEW key \in Key,
           ToSet(keys) \subseteq ToSet(order), key \notin ToSet(order), Len(keys) < Capacity,
           Admit(keys, key)
    PROVE  /\ order' \in Lists /\ ToSet(order') = ToSet(keys) \cup {key}
           /\ freq' \in [ToSet(order') -> Nat]
<1>1. /\ order' \in Distinct(Key) /\ Len(order') = Len(keys) + 1
      /\ ToSet(order') = ToSet(keys) \cup {key}
  BY AppendElement DEF Admit
<1>2. Len(keys) \in Nat
  BY DistinctRange
<1>3. freq' \in [ToSet(order') -> Nat]
  BY <1>1 DEF Admit
<1> QED
  BY <1>1, <1>2, <1>3 DEF Lists

LEMMA LFUPutStores ==
    ASSUME order \in Lists, freq \in [ToSet(order) -> Nat], NEW key \in Key, RefLFUPut(key)
    PROVE  order' \in Lists /\ freq' \in [ToSet(order') -> Nat] /\ LFUStored(key)
<1>1. /\ order \in Distinct(Key) /\ Len(order) \in Nat /\ Len(order) <= Capacity
      /\ Capacity \in Nat /\ Capacity > 0
  BY DistinctRange DEF Lists
<1>2. Contains(order, key) <=> key \in ToSet(order)
  BY <1>1, ContainsIsIn
<1>3. CASE key \in ToSet(order)
  <2>1. Used(key)
    BY <1>2, <1>3 DEF RefLFUPut
  <2> QED
    BY <1>3, <2>1, UsedCounts DEF LFUStored
<1>4. CASE key \notin ToSet(order) /\ Len(order) < Capacity
  <2>1. Admit(order, key)
    BY <1>1, <1>2, <1>4 DEF RefLFUPut
  <2>2. order' = Append(order, key)
    BY <2>1 DEF Admit
  <2> QED
    BY <1>1, <1>4, <2>1, <2>2, AdmitStores DEF LFUStored
<1>5. CASE key \notin ToSet(order) /\ Len(order) = Capacity
  <2> DEFINE i == RefLFUVictim
             rest == RemoveAt(order, i)
  <2>1. i \in 1 .. Len(order)
    BY <1>1, <1>5, VictimIsThere
  <2>2. Admit(rest, key)
    BY <1>1, <1>2, <1>5 DEF RefLFUPut
  <2> HIDE DEF i
  <2>3. /\ rest \in Distinct(Key) /\ Len(rest) = Len(order) - 1
        /\ ToSet(rest) = ToSet(order) \ {order[i]}
    BY <1>1, <2>1, RemoveElement
  <2> HIDE DEF rest
  <2>4. Len(rest) < Capacity
    BY <1>1, <1>5, <2>3
  <2>5. /\ order' \in Lists /\ ToSet(order') = ToSet(rest) \cup {key}
        /\ freq' \in [ToSet(order') -> Nat]
    BY <1>5, <2>2, <2>3, <2>4, AdmitStores
  <2>6. order[i] \in ToSet(order)
    BY <1>1, <2>1, DistinctRange
  <2> QED
    BY <1>5, <2>3, <2>5, <2>6 DEF LFUStored
<1> QED
  BY <1>1, <1>3, <1>4, <1>5

LEMMA LFUGetCounts ==
    ASSUME order \in Lists, freq \in [ToSet(order) -> Nat], NEW key \in Key, RefLFUGet(key)
    PROVE  order' = order /\ freq' \in [ToSet(order) -> Nat]
<1>1. Contains(order, key) <=> key \in ToSet(order)
  BY ContainsIsIn DEF Lists
<1> QED
  BY <1>1, UsedCounts DEF RefLFUGet

LEMMA HoldsIs ==
    /\ Holds("reference_LRU") = ToSet(od)
    /\ Holds("reference_LFU") = ToSet(order)
    /\ Holds("cachetools.LRU") = ToSet(ct)
  BY Zenon DEF Holds

LEMMA PolicyIs ==
    /\ "reference_LRU" \in Policy /\ "reference_LFU" \in Policy /\ "cachetools.LRU" \in Policy
    /\ \A policy \in Policy : policy \in {"reference_LRU", "reference_LFU", "cachetools.LRU"}
  BY DEF Policy

LEMMA AskedGrows ==
    ASSUME NEW n \in Nat \ {0}
    PROVE  /\ Asked(n) = Asked(n - 1) \cup {queries[n]}
           /\ \A m \in Nat : m <= n => Asked(m) \subseteq Asked(n)
<1>1. \A i : i \in 1 .. n <=> i \in 1 .. n - 1 \/ i = n
  OBVIOUS
<1>2. \A m \in Nat : m <= n => 1 .. m \subseteq 1 .. n
  OBVIOUS
<1> QED
  BY <1>1, <1>2 DEF Asked

\* The key asked for last comes after every other.
LEMMA BeforeLast ==
    ASSUME NEW n \in Nat \ {0}, NEW a, a # queries[n]
    PROVE  Before(n, a, queries[n])
<1>1. \A j \in 1 .. n : queries[j] = a => j < n
  OBVIOUS
<1>2. n \in 1 .. n
  OBVIOUS
<1> QED
  BY <1>1, <1>2 DEF Before

LEMMA BeforeGrows ==
    ASSUME NEW n \in Nat \ {0}, NEW a, NEW b, a # queries[n], Before(n - 1, a, b)
    PROVE  Before(n, a, b)
<1>1. PICK i \in 1 .. n - 1 : queries[i] = b /\ \A j \in 1 .. n - 1 : queries[j] = a => j < i
  BY DEF Before
<1>2. \A j \in 1 .. n : queries[j] = a => j < i
  <2> SUFFICES ASSUME NEW j \in 1 .. n, queries[j] = a PROVE j < i
    OBVIOUS
  <2>1. j \in 1 .. n - 1
    OBVIOUS
  <2> QED
    BY <1>1, <2>1
<1>3. i \in 1 .. n
  OBVIOUS
<1> QED
  BY <1>1, <1>2, <1>3 DEF Before

\* The query list of a trial does not change.
LEMMA SameQueries ==
    ASSUME queries' = queries
    PROVE  /\ \A n : Asked(n)' = Asked(n)
           /\ \A n, a, b : Before(n, a, b)' <=> Before(n, a, b)
  BY DEF Asked, Before

\* The interface counts keys as this module does.
LEMMA CoreCardinality ==
    ASSUME NEW S
    PROVE  Core!Cardinality(S) = Cardinality(S)
  BY DEF Core!Cardinality, Cardinality

\* put into a cache with room only adds.
LEMMA CorePutRoom ==
    ASSUME NEW s \in Distinct(Key), resident = ToSet(s), Len(s) < Capacity,
           NEW key, key \notin resident, Core!Put(key)
    PROVE  resident' = resident \cup {key}
<1>1. Cardinality(resident) = Len(s) /\ Len(s) \in Nat
  BY DistinctCardinality, DistinctRange
<1>2. ~Core!Full
  BY <1>1, CoreCardinality DEF Core!Full
<1> QED
  BY <1>2 DEF Core!Put, Core!PutAgain, Core!PutRoom, Core!PutTrade, Core!PutTurnedAway,
              Core!PutRefused
-----------------------------------------------------------------------------
LEMMA BenchInitInv == BenchInit => BenchInv
<1> SUFFICES ASSUME BenchInit PROVE BenchInv
  OBVIOUS
<1>1. <<>> \in Lists /\ ToSet(<<>>) = {} /\ Len(<<>>) = 0
  <2>1. <<>> \in Distinct(Key)
    BY DEF Distinct, IsInjective
  <2> QED
    BY <2>1, DistinctRange DEF Lists
<1>2. phase = "fill" /\ pos = 1 /\ 1 \in 1 .. QueryCount
  BY DEF BenchInit
<1>3. BenchTypes
  BY <1>1, <1>2 DEF BenchInit, BenchTypes
<1>4. Filling
  <2>1. Asked(0) = {} /\ pos - 1 = 0
    BY <1>2 DEF Asked
  <2>2. seen = <<>> /\ od = <<>> /\ order = <<>> /\ resident = {}
    BY DEF BenchInit, Core!Init
  <2>3. Filled = {} /\ Len(seen) < Capacity
    BY <1>1, <2>2 DEF Filled
  <2> QED
    BY <1>2, <2>1, <2>2, <2>3 DEF Filling
<1>5. Twins /\ Answers /\ Warm /\ Recent
  BY <1>2, PolicyIs DEF BenchInit, Twins, Answers, Warm, Recent
<1> QED
  BY <1>3, <1>4, <1>5 DEF BenchInv

\* What both branches of the fill loop end in.
LEMMA FillEnds ==
    ASSUME phase = "fill", pos \in 1 .. QueryCount, queries' = queries,
           BenchTypes', Twins', FillNext,
           Filled' = Asked(pos), seen' \in Lists,
           od' = seen', order' = seen', resident' = Filled'
    PROVE  BenchInv'
<1>1. /\ Len(seen') \in Nat /\ Len(seen') <= Capacity /\ Capacity \in Nat
      /\ pos \in Nat \ {0}
  BY DistinctRange DEF Lists
<1>2. \A n : Asked(n)' = Asked(n)
  BY SameQueries
<1>3. ToSet(od') = Filled' /\ ToSet(order') = Filled'
  BY DEF Filled
<1>4. CASE Len(seen') >= Capacity \/ pos = QueryCount
  <2>1. phase' = "get" /\ pos' = 1
    BY <1>4 DEF FillNext
  <2>2. Asked(0)' = {} /\ Answered' = 0 /\ pos' - 1 = 0
    BY <2>1 DEF Asked, Answered
  <2>3. Filling'
    <3>1. Len(seen') = Capacity \/ pos = QueryCount
      BY <1>1, <1>4
    <3>2. \E m \in 1 .. QueryCount : Filled' = Asked(m)'
      BY <1>2
    <3>3. Len(seen') = Capacity \/ Filled' = Asked(QueryCount)'
      BY <1>2, <3>1
    <3> QED
      BY <2>1, <3>2, <3>3 DEF Filling
  <2>4. Warm'
    BY <1>3, <2>1 DEF Warm
  <2>5. Recent'
    <3>1. ToSet(od') = Filled' /\ Asked(Answered)' = {}
      BY <1>3, <2>2
    <3> QED
      BY <3>1 DEF Recent
  <2> QED
    BY <2>1, <2>3, <2>4, <2>5 DEF BenchInv, Answers
<1>5. CASE ~(Len(seen') >= Capacity \/ pos = QueryCount)
  <2>1. phase' = "fill" /\ pos' = pos + 1
    BY <1>5 DEF FillNext
  <2>2. pos' - 1 = pos /\ Len(seen') < Capacity
    BY <1>1, <1>5, <2>1
  <2>3. Filling'
    BY <1>2, <2>1, <2>2 DEF Filling
  <2> QED
    BY <2>1, <2>3 DEF BenchInv, Answers, Warm, Recent
<1> QED
  BY <1>4, <1>5

LEMMA FillPlace ==
    ASSUME BenchInv, phase = "fill"
    PROVE  /\ pos \in 1 .. QueryCount /\ pos \in Nat \ {0} /\ queries[pos] \in Key
           /\ seen \in Lists /\ seen \in Distinct(Key) /\ Len(seen) < Capacity
           /\ od = seen /\ order = seen /\ ct = seen /\ resident = Filled
           /\ Asked(pos) = Filled \cup {queries[pos]}
<1>1. pos \in 1 .. QueryCount /\ queries \in [1 .. QueryCount -> Key] /\ seen \in Lists
  BY DEF BenchInv, BenchTypes, QueryLists
<1>2. /\ Filled = Asked(pos - 1) /\ Len(seen) < Capacity
      /\ od = seen /\ order = seen /\ resident = Filled /\ ct = od
  BY DEF BenchInv, Filling, Twins
<1>3. Asked(pos) = Asked(pos - 1) \cup {queries[pos]}
  BY <1>1, AskedGrows
<1> QED
  BY <1>1, <1>2, <1>3 DEF Lists

LEMMA StepFill == BenchInv /\ Fill => BenchInv'
<1> SUFFICES ASSUME BenchInv, Fill PROVE BenchInv'
  OBVIOUS
<1> DEFINE key == queries[pos]
<1>1. phase = "fill" /\ queries' = queries /\ hit_count' = hit_count
  BY DEF Fill
<1>2. /\ pos \in 1 .. QueryCount /\ pos \in Nat \ {0} /\ key \in Key
      /\ seen \in Lists /\ seen \in Distinct(Key) /\ Len(seen) < Capacity
      /\ od = seen /\ order = seen /\ ct = seen /\ resident = Filled
      /\ Asked(pos) = Filled \cup {key}
  BY <1>1, FillPlace
<1>3. /\ ~Contains(seen, key) /\ seen' = Append(seen, key) /\ Core!Put(key)
      /\ od' = RefLRUPut(od, key) /\ ct' = CachetoolsPut(ct, key) /\ RefLFUPut(key)
      /\ answer' = [policy \in Policy |-> "done"]
      /\ FillNext
  BY DEF Fill
<1> HIDE DEF key
<1>4. key \notin ToSet(seen) /\ key \notin Filled
  BY <1>2, <1>3, ContainsIsIn DEF Filled
<1>5. od' = Append(seen, key) /\ ct' = od'
  <2>1. PICK rest : Stored(seen, key, rest, RefLRUPut(seen, key))
    BY <1>2, PutStores
  <2>2. rest = seen /\ RefLRUPut(seen, key) = Append(rest, key)
    <3>1. Len(seen) # Capacity
      BY <1>2, DistinctRange
    <3> QED
      BY <1>4, <2>1, <3>1 DEF Stored
  <2>3. CachetoolsPut(seen, key) = RefLRUPut(seen, key)
    BY <1>2, PutStores
  <2> QED
    BY <1>2, <1>3, <2>2, <2>3
<1>6. order' = Append(seen, key) /\ freq' \in [ToSet(order') -> Nat]
  <2>1. order \in Lists /\ freq \in [ToSet(order) -> Nat]
    BY DEF BenchInv, BenchTypes
  <2>2. LFUStored(key) /\ freq' \in [ToSet(order') -> Nat]
    BY <1>2, <1>3, <2>1, LFUPutStores
  <2>3. Len(order) # Capacity /\ key \notin ToSet(order)
    BY <1>2, <1>4, DistinctRange
  <2> QED
    BY <1>2, <2>2, <2>3 DEF LFUStored
<1>7. seen' \in Lists /\ ToSet(seen') = ToSet(seen) \cup {key}
  <2>1. /\ Append(seen, key) \in Distinct(Key) /\ Len(Append(seen, key)) = Len(seen) + 1
        /\ ToSet(Append(seen, key)) = ToSet(seen) \cup {key}
    BY <1>2, <1>4, AppendElement
  <2>2. Len(seen) \in Nat
    BY <1>2, DistinctRange
  <2>3. Len(Append(seen, key)) <= Capacity
    BY <1>2, <2>1, <2>2
  <2> QED
    BY <1>3, <2>1, <2>3 DEF Lists
<1>8. Filled' = Asked(pos)
  BY <1>2, <1>7 DEF Filled
<1>9. resident' = Filled'
  <2>1. resident' = resident \cup {key}
    BY <1>2, <1>3, <1>4, CorePutRoom DEF Filled
  <2> QED
    BY <1>2, <1>8, <2>1
<1>10. od' = seen' /\ order' = seen'
  BY <1>3, <1>5, <1>6
<1>11. phase' \in {"fill", "get"} /\ pos' \in 1 .. QueryCount
  BY <1>2, <1>3 DEF FillNext
<1>12. BenchTypes'
  BY <1>1, <1>3, <1>6, <1>7, <1>10, <1>11 DEF BenchInv, BenchTypes, QueryLists
<1>13. Twins'
  BY <1>3, <1>5, PolicyIs DEF Twins
<1> QED
  BY <1>1, <1>2, <1>3, <1>7, <1>8, <1>9, <1>10, <1>12, <1>13, FillEnds

LEMMA StepFillSkip == BenchInv /\ FillSkip => BenchInv'
<1> SUFFICES ASSUME BenchInv, FillSkip PROVE BenchInv'
  OBVIOUS
<1>1. /\ phase = "fill" /\ queries' = queries /\ seen' = seen /\ Contains(seen, queries[pos])
      /\ FillNext
      /\ UNCHANGED <<resident, od, order, freq, ct, hit_count, answer>>
  BY DEF FillSkip, coreVars
<1>2. /\ pos \in 1 .. QueryCount /\ seen \in Lists /\ seen \in Distinct(Key)
      /\ od = seen /\ order = seen /\ ct = seen /\ resident = Filled
      /\ Asked(pos) = Filled \cup {queries[pos]}
  BY <1>1, FillPlace
<1>3. queries[pos] \in Filled
  BY <1>1, <1>2, ContainsIsIn DEF Filled
<1>4. Filled' = Asked(pos) /\ resident' = Filled'
  BY <1>1, <1>2, <1>3 DEF Filled
<1>5. phase' \in {"fill", "get"} /\ pos' \in 1 .. QueryCount
  BY <1>1, <1>2 DEF FillNext
<1>6. BenchTypes'
  BY <1>1, <1>5 DEF BenchInv, BenchTypes, QueryLists
<1>7. Twins'
  BY <1>1 DEF BenchInv, Twins
<1> QED
  BY <1>1, <1>2, <1>4, <1>6, <1>7, FillEnds

LEMMA ReplayPlace ==
    ASSUME BenchInv, phase \in {"get", "put"}
    PROVE  /\ pos \in 1 .. QueryCount /\ pos \in Nat \ {0} /\ queries[pos] \in Key
           /\ od \in Lists /\ order \in Lists /\ ct = od
           /\ freq \in [ToSet(order) -> Nat]
           /\ Asked(pos) = Asked(pos - 1) \cup {queries[pos]}
<1>1. /\ pos \in 1 .. QueryCount /\ queries \in [1 .. QueryCount -> Key]
      /\ od \in Lists /\ order \in Lists /\ freq \in [ToSet(order) -> Nat] /\ ct = od
  BY DEF BenchInv, BenchTypes, QueryLists, Twins
<1>2. Asked(pos) = Asked(pos - 1) \cup {queries[pos]}
  BY <1>1, AskedGrows
<1> QED
  BY <1>1, <1>2

LEMMA StepGet == BenchInv /\ Get => BenchInv'
<1> SUFFICES ASSUME BenchInv, Get PROVE BenchInv'
  OBVIOUS
<1> DEFINE key == queries[pos]
<1>1. /\ phase = "get" /\ phase' = "put"
      /\ Core!GetHit(key) \/ Core!GetMiss(key)
      /\ od' = LRUGet(od, key) /\ ct' = LRUGet(ct, key) /\ RefLFUGet(key)
      /\ answer' = [policy \in Policy |-> IF key \in Holds(policy) THEN "hit" ELSE "miss"]
      /\ UNCHANGED <<queries, pos, seen, hit_count>>
  BY DEF Get
<1>2. /\ pos \in 1 .. QueryCount /\ pos \in Nat \ {0} /\ key \in Key
      /\ od \in Lists /\ order \in Lists /\ ct = od
      /\ freq \in [ToSet(order) -> Nat]
      /\ Asked(pos) = Asked(pos - 1) \cup {key}
  BY <1>1, ReplayPlace
<1>3. /\ \A n : Asked(n)' = Asked(n)
      /\ \A n, a, b : Before(n, a, b)' <=> Before(n, a, b)
      /\ queries'[pos'] = key
  BY <1>1, SameQueries
<1>4. key = queries[pos]
  OBVIOUS
<1> HIDE DEF key
<1>5. /\ od' \in Lists /\ ToSet(od') = ToSet(od) /\ ct' = od'
      /\ key \notin ToSet(od) => od' = od
      /\ key \in ToSet(od) => \E rest : Stored(od, key, rest, od')
  BY <1>1, <1>2, GetMoves
<1>6. order' = order /\ freq' \in [ToSet(order) -> Nat]
  BY <1>1, <1>2, LFUGetCounts
<1>7. Filled' = Filled
  BY <1>1 DEF Filled
<1>8. /\ answer'["reference_LRU"] = IF key \in ToSet(od) THEN "hit" ELSE "miss"
      /\ answer'["reference_LFU"] = IF key \in ToSet(order) THEN "hit" ELSE "miss"
      /\ answer'["cachetools.LRU"] = IF key \in ToSet(od) THEN "hit" ELSE "miss"
  BY <1>1, <1>2, HoldsIs, PolicyIs
<1>9. BenchTypes'
  <2>1. answer' \in [Policy -> {"new", "hit", "miss", "done"}]
    BY <1>1
  <2>2. queries \in QueryLists /\ seen \in Lists /\ hit_count \in [Policy -> Nat]
    BY DEF BenchInv, BenchTypes
  <2> QED
    BY <1>1, <1>2, <1>5, <1>6, <2>1, <2>2 DEF BenchTypes, QueryLists
<1>10. Twins' /\ Answers'
  BY <1>3, <1>5, <1>6, <1>8 DEF Twins, Answers, AnswerOf
<1>11. Filling'
  <2>1. /\ \E m \in 1 .. QueryCount : Filled = Asked(m)
        /\ Len(seen) = Capacity \/ Filled = Asked(QueryCount)
    BY <1>1 DEF BenchInv, Filling
  <2> QED
    BY <1>1, <1>3, <1>7, <2>1 DEF Filling
<1>12. Warm'
  <2> SUFFICES ASSUME Asked(pos - 1) \subseteq Filled
               PROVE  /\ resident' = Filled /\ ToSet(od') = Filled /\ ToSet(order') = Filled
                      /\ outcome' = IF key \in Filled THEN "hit" ELSE "miss"
    BY <1>1, <1>3, <1>7 DEF Warm, AnswerOf
  <2>1. resident = Filled /\ ToSet(od) = Filled /\ ToSet(order) = Filled
    BY <1>1 DEF BenchInv, Warm
  <2>2. /\ resident' = resident
        /\ outcome' = IF key \in resident THEN "hit" ELSE "miss"
    BY <1>1 DEF Core!GetHit, Core!GetMiss
  <2> QED
    BY <1>5, <1>6, <2>1, <2>2
<1>13. /\ ToSet(od) \subseteq Filled \cup Asked(pos - 1)
       /\ \A i, j \in 1 .. Len(od) :
             i < j /\ od[i] \in Asked(pos - 1) => Before(pos - 1, od[i], od[j])
       /\ \A k \in ToSet(od), other \in Filled \cup Asked(pos - 1) :
             other \notin ToSet(od) => Before(pos - 1, other, k)
  <2>1. Answered = pos - 1
    BY <1>1 DEF Answered
  <2> QED
    BY <1>1, <2>1 DEF BenchInv, Recent
<1>14. \A a, b : a # key /\ Before(pos - 1, a, b) => Before(pos, a, b)
  BY <1>2, <1>4, BeforeGrows
<1>15. /\ \A i, j \in 1 .. Len(od') :
             i < j /\ od'[i] \in Asked(pos) => Before(pos, od'[i], od'[j])
  <2>1. CASE key \notin ToSet(od)
    <3>1. \A i \in 1 .. Len(od) : od[i] # key
      BY <1>2, <2>1, DistinctRange DEF Lists
    <3> QED
      BY <1>2, <1>5, <1>13, <1>14, <2>1, <3>1
  <2>2. CASE key \in ToSet(od)
    <3>1. PICK rest : Stored(od, key, rest, od')
      BY <1>5, <2>2
    <3> SUFFICES ASSUME NEW i \in 1 .. Len(od'), NEW j \in 1 .. Len(od'), i < j,
                        od'[i] \in Asked(pos)
                 PROVE  Before(pos, od'[i], od'[j])
      OBVIOUS
    <3>2. /\ Len(rest) \in Nat /\ Len(od') = Len(rest) + 1 /\ od'[Len(od')] = key
          /\ \A k \in 1 .. Len(rest) : od'[k] = rest[k] /\ rest[k] \in ToSet(rest)
      BY <1>2, <3>1, StoredList
    <3>3. i \in 1 .. Len(rest) /\ (j \in 1 .. Len(rest) \/ j = Len(od'))
      BY <3>2
    <3>4. key \notin ToSet(rest) /\ Within(rest, od)
      BY <3>1 DEF Stored
    <3>5. od'[i] = rest[i] /\ rest[i] # key
      BY <3>2, <3>3, <3>4
    <3>6. CASE j = Len(od')
      BY <1>2, <1>4, <3>2, <3>5, <3>6, BeforeLast
    <3>7. CASE j \in 1 .. Len(rest)
      <4>1. PICK k \in 1 .. Len(od), l \in 1 .. Len(od) :
                k < l /\ od[k] = rest[i] /\ od[l] = rest[j]
        BY <3>3, <3>4, <3>7 DEF Within
      <4>2. od[k] \in Asked(pos - 1)
        BY <1>2, <3>5, <4>1
      <4>3. Before(pos - 1, rest[i], rest[j])
        BY <1>13, <4>1, <4>2
      <4>4. od'[j] = rest[j]
        BY <3>2, <3>7
      <4> QED
        BY <1>14, <3>5, <4>3, <4>4
    <3> QED
      BY <3>3, <3>6, <3>7
  <2> QED
    BY <2>1, <2>2
<1>16. \A k \in ToSet(od'), other \in Filled \cup Asked(pos) :
          other \notin ToSet(od') /\ other # key => Before(pos, other, k)
  BY <1>2, <1>5, <1>13, <1>14
<1>17. Recent'
  <2>1. Answered' = pos
    BY <1>1 DEF Answered
  <2>2. ToSet(od') \subseteq Filled \cup Asked(pos)
    BY <1>2, <1>5, <1>13
  <2>3. Asked(Answered)' = Asked(pos) /\ \A a, b : Before(Answered, a, b)' <=> Before(pos, a, b)
    BY <1>3, <2>1
  <2> QED
    BY <1>1, <1>3, <1>7, <1>15, <1>16, <2>2, <2>3 DEF Recent
<1> QED
  BY <1>9, <1>10, <1>11, <1>12, <1>17 DEF BenchInv

\* A key is missed by a full list only after all that was filled has been
\* asked for: until then the filled keys are held and are all that is asked.
LEMMA MissedLate ==
    ASSUME BenchInv, phase = "put", queries[pos] \notin ToSet(od)
    PROVE  Filled \subseteq Asked(pos - 1)
<1>1. pos \in 1 .. QueryCount /\ pos \in Nat \ {0}
  BY ReplayPlace
<1>2. PICK m \in 1 .. QueryCount : Filled = Asked(m)
  BY DEF BenchInv, Filling
<1>3. CASE m <= pos - 1
  <2>1. CASE pos = 1
    BY <1>1, <1>2, <1>3, <2>1
  <2>2. CASE pos # 1
    <3>1. pos - 1 \in Nat \ {0} /\ m \in Nat
      BY <1>1, <1>2, <2>2
    <3> QED
      BY <1>2, <1>3, <3>1, AskedGrows
  <2> QED
    BY <2>1, <2>2
<1>4. CASE m >= pos
  <2>1. m \in Nat \ {0} /\ pos - 1 \in Nat /\ pos - 1 <= m /\ pos \in 1 .. m
    BY <1>1, <1>2, <1>4
  <2>2. Asked(pos - 1) \subseteq Filled /\ queries[pos] \in Filled
    BY <1>2, <2>1, AskedGrows DEF Asked
  <2>3. ToSet(od) = Filled
    BY <2>2 DEF BenchInv, Warm
  <2> QED
    BY <2>2, <2>3
<1> QED
  BY <1>1, <1>2, <1>3, <1>4

\* The order of the list, after the put that follows a miss.
LEMMA PutKeepsOrder ==
    ASSUME BenchInv, phase = "put", queries[pos] \notin ToSet(od),
           NEW rest, NEW new, Stored(od, queries[pos], rest, new)
    PROVE  /\ new \in Lists
           /\ ToSet(new) \subseteq Filled \cup Asked(pos)
           /\ \A i, j \in 1 .. Len(new) :
                 i < j /\ new[i] \in Asked(pos) => Before(pos, new[i], new[j])
           /\ \A k \in ToSet(new), other \in Filled \cup Asked(pos) :
                 other \notin ToSet(new) => Before(pos, other, k)
<1> DEFINE key == queries[pos]
<1>1. /\ pos \in 1 .. QueryCount /\ pos \in Nat \ {0} /\ key \in Key
      /\ od \in Lists /\ Asked(pos) = Asked(pos - 1) \cup {key}
  BY ReplayPlace
<1>2. /\ ToSet(od) \subseteq Filled \cup Asked(pos)
      /\ \A i, j \in 1 .. Len(od) :
            i < j /\ od[i] \in Asked(pos) => Before(pos, od[i], od[j])
      /\ \A k \in ToSet(od), other \in Filled \cup Asked(pos) :
            other \notin ToSet(od) /\ other # key => Before(pos, other, k)
  <2>1. Answered = pos
    BY DEF Answered
  <2> QED
    BY <2>1 DEF BenchInv, Recent
<1>3. key \notin ToSet(od) /\ Stored(od, key, rest, new)
  OBVIOUS
<1>4. \A a : a # key => Before(pos, a, key)
  BY <1>1, BeforeLast
<1>5. ToSet(od) \subseteq Asked(pos)
  BY <1>1, <1>2, MissedLate
<1> HIDE DEF key
<1>6. /\ new \in Lists /\ ToSet(new) = ToSet(rest) \cup {key}
      /\ Len(rest) \in Nat /\ Len(new) = Len(rest) + 1 /\ new[Len(new)] = key
      /\ \A i \in 1 .. Len(rest) : new[i] = rest[i] /\ rest[i] \in ToSet(rest)
  BY <1>1, <1>3, StoredList
<1>7. /\ key \notin ToSet(rest) /\ Within(rest, od)
      /\ \/ rest = od
         \/ /\ rest = Tail(od) /\ Len(od) = Capacity
            /\ ToSet(rest) = ToSet(od) \ {od[1]}
  BY <1>3 DEF Stored
<1>8. ASSUME NEW i \in 1 .. Len(new), NEW j \in 1 .. Len(new), i < j, new[i] \in Asked(pos)
      PROVE  Before(pos, new[i], new[j])
  <2>1. i \in 1 .. Len(rest) /\ (j \in 1 .. Len(rest) \/ j = Len(new))
    BY <1>6, <1>8
  <2>2. new[i] = rest[i] /\ rest[i] # key
    BY <1>6, <1>7, <2>1
  <2>3. CASE j = Len(new)
    BY <1>4, <1>6, <2>2, <2>3
  <2>4. CASE j \in 1 .. Len(rest)
    <3>1. PICK k \in 1 .. Len(od), l \in 1 .. Len(od) : k < l /\ od[k] = rest[i] /\ od[l] = rest[j]
      BY <1>7, <1>8, <2>1, <2>4 DEF Within
    <3>2. Before(pos, rest[i], rest[j])
      BY <1>2, <1>8, <2>2, <3>1
    <3> QED
      BY <1>6, <2>2, <2>4, <3>2
  <2> QED
    BY <2>1, <2>3, <2>4
<1>9. ASSUME NEW k \in ToSet(new), NEW other \in Filled \cup Asked(pos), other \notin ToSet(new)
      PROVE  Before(pos, other, k)
  <2>1. other # key /\ (k = key \/ k \in ToSet(rest))
    BY <1>6, <1>9
  <2>2. CASE k = key
    BY <1>4, <2>1, <2>2
  <2>3. CASE k \in ToSet(rest) /\ other \notin ToSet(od)
    BY <1>2, <1>7, <2>1, <2>3
  <2>4. CASE k \in ToSet(rest) /\ other \in ToSet(od)
    <3>1. rest = Tail(od) /\ other = od[1] /\ Len(od) = Capacity
      BY <1>6, <1>7, <1>9, <2>4
    <3>2. /\ Len(rest) = Len(od) - 1 /\ rest \in Distinct(Key)
          /\ \A i \in 1 .. Len(od) - 1 : rest[i] = od[i + 1]
      BY <1>1, <3>1, TailKeeps DEF Lists
    <3>3. PICK i \in 1 .. Len(od) - 1 : rest[i] = k
      BY <2>4, <3>2, LenProperties DEF ToSet, Distinct
    <3>4. Len(od) \in Nat
      BY <1>1, DistinctRange DEF Lists
    <3>5. 1 \in 1 .. Len(od) /\ i + 1 \in 1 .. Len(od) /\ 1 < i + 1 /\ od[i + 1] = k
      BY <3>2, <3>3, <3>4
    <3>6. od[1] \in Asked(pos)
      BY <1>5, <2>4, <3>1
    <3> QED
      BY <1>2, <3>1, <3>5, <3>6
  <2> QED
    BY <2>1, <2>2, <2>3, <2>4
<1>10. ToSet(new) \subseteq Filled \cup Asked(pos)
  BY <1>1, <1>2, <1>6, <1>7
<1> QED
  BY <1>6, <1>8, <1>9, <1>10

LEMMA StepPutMissed == BenchInv /\ PutMissed => BenchInv'
<1> SUFFICES ASSUME BenchInv, PutMissed PROVE BenchInv'
  OBVIOUS
<1> DEFINE key == queries[pos]
<1>1. /\ phase = "put"
      /\ IF outcome = "miss" THEN Core!Put(key) ELSE UNCHANGED coreVars
      /\ od' = IF answer["reference_LRU"] = "miss" THEN RefLRUPut(od, key) ELSE od
      /\ IF answer["reference_LFU"] = "miss" THEN RefLFUPut(key) ELSE UNCHANGED <<order, freq>>
      /\ ct' = IF answer["cachetools.LRU"] = "miss" THEN CachetoolsPut(ct, key) ELSE ct
      /\ queries' = queries /\ seen' = seen
  BY DEF PutMissed
<1>2. /\ pos \in 1 .. QueryCount /\ pos \in Nat \ {0} /\ key \in Key
      /\ od \in Lists /\ order \in Lists /\ ct = od
      /\ freq \in [ToSet(order) -> Nat]
      /\ Asked(pos) = Asked(pos - 1) \cup {key}
  BY <1>1, ReplayPlace
<1>3. /\ answer["reference_LRU"] = IF key \in ToSet(od) THEN "hit" ELSE "miss"
      /\ answer["reference_LFU"] = IF key \in ToSet(order) THEN "hit" ELSE "miss"
      /\ answer["cachetools.LRU"] = answer["reference_LRU"]
  BY <1>1 DEF BenchInv, Answers, AnswerOf, Twins
<1>4. \/ phase' = "done" /\ pos' = pos
      \/ phase' = "get" /\ pos' = pos + 1 /\ pos # QueryCount
  BY DEF PutMissed
<1>5. /\ answer' = [policy \in Policy |->
                      IF answer[policy] = "miss" THEN "done" ELSE answer[policy]]
      /\ hit_count' = [policy \in Policy |->
                          hit_count[policy] + IF answer[policy] = "hit" THEN 1 ELSE 0]
  BY DEF PutMissed
<1>6. /\ \A n : Asked(n)' = Asked(n)
      /\ \A n, a, b : Before(n, a, b)' <=> Before(n, a, b)
      /\ Filled' = Filled
  BY <1>1, SameQueries DEF Filled
<1>7. key = queries[pos]
  OBVIOUS
<1> HIDE DEF key
<1>8. ct' = od'
  <2>1. CachetoolsPut(od, key) = RefLRUPut(od, key)
    BY <1>2, PutStores
  <2> QED
    BY <1>1, <1>2, <1>3, <2>1
<1>9. order' \in Lists /\ freq' \in [ToSet(order') -> Nat]
  <2>1. CASE answer["reference_LFU"] = "miss"
    BY <1>1, <1>2, <2>1, LFUPutStores
  <2>2. CASE answer["reference_LFU"] # "miss"
    BY <1>1, <1>2, <2>2
  <2> QED
    BY <2>1, <2>2
<1>10. /\ od' \in Lists
       /\ ToSet(od') \subseteq Filled \cup Asked(pos)
       /\ \A i, j \in 1 .. Len(od') :
             i < j /\ od'[i] \in Asked(pos) => Before(pos, od'[i], od'[j])
       /\ \A k \in ToSet(od'), other \in Filled \cup Asked(pos) :
             other \notin ToSet(od') => Before(pos, other, k)
  <2>1. CASE key \notin ToSet(od)
    <3>1. od' = RefLRUPut(od, key)
      BY <1>1, <1>3, <2>1
    <3>2. PICK rest : Stored(od, key, rest, od')
      BY <1>2, <3>1, PutStores
    <3> QED
      BY <1>1, <1>7, <2>1, <3>2, PutKeepsOrder
  <2>2. CASE key \in ToSet(od)
    <3>1. od' = od
      BY <1>1, <1>3, <2>2
    <3>2. Answered = pos
      BY <1>1 DEF Answered
    <3> QED
      BY <1>1, <1>2, <1>7, <2>2, <3>1, <3>2 DEF BenchInv, Recent
  <2> QED
    BY <2>1, <2>2
<1>11. Recent'
  <2>1. Answered' = pos /\ phase' # "put" /\ phase' # "fill"
    BY <1>2, <1>4 DEF Answered
  <2>2. Asked(Answered)' = Asked(pos) /\ \A a, b : Before(Answered, a, b)' <=> Before(pos, a, b)
    BY <1>6, <2>1
  <2> QED
    BY <1>6, <1>10, <2>1, <2>2 DEF Recent
<1>12. Filling'
  <2>1. /\ \E m \in 1 .. QueryCount : Filled = Asked(m)
        /\ Len(seen) = Capacity \/ Filled = Asked(QueryCount)
    BY <1>1 DEF BenchInv, Filling
  <2>2. phase' # "fill"
    BY <1>4
  <2> QED
    BY <1>1, <1>6, <2>1, <2>2 DEF Filling
<1>13. Warm'
  <2> SUFFICES ASSUME phase' = "get", pos' = pos + 1, Asked(pos' - 1) \subseteq Filled
               PROVE  resident' = Filled /\ ToSet(od') = Filled /\ ToSet(order') = Filled
    BY <1>4, <1>6 DEF Warm
  <2>1. pos' - 1 = pos
    BY <1>2
  <2>2. Asked(pos - 1) \subseteq Filled /\ key \in Filled
    BY <1>2, <2>1
  <2>3. /\ resident = Filled /\ ToSet(od) = Filled /\ ToSet(order) = Filled
        /\ outcome = "hit"
    BY <1>1, <1>7, <2>2 DEF BenchInv, Warm, AnswerOf
  <2>4. resident' = resident
    BY <1>1, <2>3 DEF coreVars
  <2>5. od' = od /\ order' = order
    BY <1>1, <1>3, <2>2, <2>3
  <2> QED
    BY <2>3, <2>4, <2>5
<1>14. BenchTypes'
  <2>1. /\ queries \in QueryLists /\ seen \in Lists /\ hit_count \in [Policy -> Nat]
        /\ answer \in [Policy -> {"new", "hit", "miss", "done"}]
    BY DEF BenchInv, BenchTypes
  <2>2. hit_count' \in [Policy -> Nat] /\ answer' \in [Policy -> {"new", "hit", "miss", "done"}]
    BY <1>5, <2>1
  <2>3. pos' \in 1 .. QueryCount /\ phase' \in {"fill", "get", "put", "done"}
    BY <1>2, <1>4
  <2> QED
    BY <1>1, <1>9, <1>10, <2>1, <2>2, <2>3 DEF BenchTypes, QueryLists
<1>15. Twins' /\ Answers'
  BY <1>3, <1>4, <1>5, <1>8, PolicyIs DEF Twins, Answers
<1> QED
  BY <1>11, <1>12, <1>13, <1>14, <1>15 DEF BenchInv

LEMMA BenchStepInv == BenchInv /\ [BenchNext]_benchVars => BenchInv'
<1> SUFFICES ASSUME BenchInv, [BenchNext]_benchVars PROVE BenchInv'
  OBVIOUS
<1>1. CASE UNCHANGED benchVars
  <2>1. /\ UNCHANGED <<queries, phase, pos, seen, resident, hits, misses, outcome>>
        /\ UNCHANGED <<od, order, freq, ct, hit_count, answer>>
    BY <1>1 DEF benchVars, coreVars
  <2>2. /\ \A n : Asked(n)' = Asked(n)
        /\ \A n, a, b : Before(n, a, b)' <=> Before(n, a, b)
        /\ Filled' = Filled /\ Answered' = Answered
    BY <2>1, SameQueries DEF Filled, Answered
  <2>3. (BenchTypes' <=> BenchTypes) /\ (Twins' <=> Twins) /\ (Answers' <=> Answers)
    BY <2>1 DEF BenchTypes, QueryLists, Twins, Answers, AnswerOf
  <2>4. (Filling' <=> Filling) /\ (Warm' <=> Warm)
    BY <2>1, <2>2 DEF Filling, Warm, AnswerOf
  <2>5. Recent' <=> Recent
    <3>1. Asked(Answered)' = Asked(Answered)
      BY <2>2
    <3>2. \A a, b : Before(Answered, a, b)' <=> Before(Answered, a, b)
      BY <2>2
    <3> QED
      BY <2>1, <2>2, <3>1, <3>2 DEF Recent
  <2> QED
    BY <2>3, <2>4, <2>5 DEF BenchInv
<1> QED
  BY <1>1, StepFill, StepFillSkip, StepGet, StepPutMissed DEF BenchNext

LEMMA BenchInvariance == BenchSpec => []BenchInv
  BY BenchInitInv, BenchStepInv, PTL DEF BenchSpec

(* The comparison is fair, for every query list, every capacity and every   *)
(* number of queries: all policies start the replay with the same keys, and *)
(* answer alike until the list asks for a key that was not filled.          *)
THEOREM BenchWarmStart == BenchSpec => []WarmStart
<1>1. BenchInv => WarmStart
  <2> SUFFICES ASSUME BenchInv PROVE WarmStart
    OBVIOUS
  <2>1. /\ queries \in [1 .. QueryCount -> Key] /\ pos \in 1 .. QueryCount
        /\ seen \in Distinct(Key) /\ ct = od
        /\ answer["reference_LRU"] = answer["cachetools.LRU"]
    BY DEF BenchInv, BenchTypes, QueryLists, Lists, Twins
  <2>2. ASSUME phase = "get", pos = 1
        PROVE  /\ \A i \in DOMAIN Resident : Resident[i] = Filled
               /\ Cardinality(Filled) = Capacity \/ Filled = ToSet(queries)
    <3>1. Asked(pos - 1) \subseteq Filled
      BY <2>2 DEF Asked
    <3>2. resident = Filled /\ ToSet(od) = Filled /\ ToSet(order) = Filled /\ ToSet(ct) = Filled
      BY <2>1, <2>2, <3>1 DEF BenchInv, Warm
    <3>3. \A i \in DOMAIN Resident : Resident[i] = Filled
      BY <3>2 DEF Resident
    <3>4. Cardinality(Filled) = Len(seen)
      BY <2>1, DistinctCardinality DEF Filled
    <3>5. Asked(QueryCount) = ToSet(queries)
      BY <2>1 DEF Asked, ToSet
    <3>6. Len(seen) = Capacity \/ Filled = Asked(QueryCount)
      BY <2>2 DEF BenchInv, Filling
    <3> QED
      BY <3>3, <3>4, <3>5, <3>6
  <2>3. ASSUME phase = "put", \A i \in 1 .. pos - 1 : queries[i] \in Filled
        PROVE  /\ outcome = AnswerOf(Filled)
               /\ \A policy \in Policy : answer[policy] = AnswerOf(Filled)
    <3>1. Asked(pos - 1) \subseteq Filled
      BY <2>3 DEF Asked
    <3>2. ToSet(od) = Filled /\ ToSet(order) = Filled /\ outcome = AnswerOf(Filled)
      BY <2>3, <3>1 DEF BenchInv, Warm
    <3>3. /\ answer["reference_LRU"] = AnswerOf(Filled)
          /\ answer["reference_LFU"] = AnswerOf(Filled)
      BY <2>3, <3>2 DEF BenchInv, Answers
    <3> QED
      BY <2>1, <3>2, <3>3, PolicyIs
  <2> QED
    BY <2>2, <2>3 DEF WarmStart, AnswerOf
<1> QED
  BY <1>1, BenchInvariance, PTL

(* The fallback of the benchmark answers as cachetools would and holds the  *)
(* same keys in the same order, whatever is asked of it; the fallback for   *)
(* LFU counts the keys it holds and no others.                              *)
THEOREM BenchReferenceMatches == BenchSpec => []ReferenceMatches
<1>1. BenchInv => ReferenceMatches
  BY DEF BenchInv, BenchTypes, Twins, ReferenceMatches, Lists, Distinct
<1> QED
  BY <1>1, BenchInvariance, PTL

\* LastAsked names the last request: of the distances to the end, one is least.
LEMMA LastAskedIs ==
    ASSUME pos \in 1 .. QueryCount, NEW key
    PROVE  /\ LastAsked(key) \in 0 .. pos - 1
           /\ LastAsked(key) # 0 => queries[LastAsked(key)] = key
           /\ \A i \in 1 .. pos - 1 : queries[i] = key => i <= LastAsked(key)
<1> DEFINE asked == {i \in 1 .. pos - 1 : queries[i] = key}
<1>1. CASE asked = {}
  <2>1. LastAsked(key) = 0
    BY <1>1 DEF LastAsked
  <2> QED
    BY <1>1, <2>1
<1>2. CASE asked # {}
  <2> DEFINE toGo == {pos - i : i \in asked}
  <2>1. toGo \in SUBSET Nat /\ toGo # {}
    BY <1>2
  <2>2. PICK d \in toGo : \A e \in toGo : d <= e
    BY <2>1, SmallestExists
  <2>3. PICK i \in asked : d = pos - i
    BY <2>2
  <2>4. ASSUME NEW j \in asked PROVE j <= i
    <3>1. pos - j \in toGo
      OBVIOUS
    <3>2. pos - i <= pos - j
      BY <2>2, <2>3, <3>1
    <3>3. i \in Int /\ j \in Int /\ pos \in Int
      OBVIOUS
    <3> HIDE DEF asked, toGo
    <3> QED
      BY <3>2, <3>3
  <2>5. LastAsked(key) = CHOOSE k \in asked : \A j \in asked : j <= k
    BY <1>2 DEF LastAsked
  <2> HIDE DEF asked
  <2>6. LastAsked(key) \in asked /\ \A j \in asked : j <= LastAsked(key)
    BY <2>4, <2>5
  <2> QED
    BY <2>6 DEF asked
<1> QED
  BY <1>1, <1>2

(* Between queries the fallback for LRU holds what was asked for last: of a *)
(* key that it lost and one that it holds, the latter was asked for later.  *)
THEOREM BenchLRUKeepsMostRecent == BenchSpec => []LRUKeepsMostRecent
<1>1. BenchInv => LRUKeepsMostRecent
  <2> SUFFICES ASSUME BenchInv, phase = "get", NEW key \in ToSet(od),
                      NEW other \in Filled \cup ToSet(SubSeq(queries, 1, pos - 1)),
                      other \notin ToSet(od)
               PROVE  LastAsked(other) < LastAsked(key)
    BY DEF LRUKeepsMostRecent
  <2>1. pos \in 1 .. QueryCount /\ queries \in [1 .. QueryCount -> Key]
    BY DEF BenchInv, BenchTypes, QueryLists
  <2>2. other \in Filled \cup Asked(pos - 1)
    <3>1. \A i \in 1 .. pos - 1 : queries[i] \in Key
      BY <2>1
    <3> DEFINE n == pos - 1
               past == SubSeq(queries, 1, n)
    <3>2. n \in Int
      BY <2>1
    <3> HIDE DEF n
    <3>3. /\ past \in Seq(Key) /\ Len(past) = IF 1 <= n THEN n - 1 + 1 ELSE 0
          /\ \A i \in 1 .. n - 1 + 1 : past[i] = queries[1 + i - 1]
      BY <3>1, <3>2, SubSeqProperties DEF n
    <3> HIDE DEF past
    <3>4. DOMAIN past = 1 .. Len(past)
      BY <3>3, LenProperties
    <3>5. \A i \in DOMAIN past : i \in 1 .. n /\ past[i] = queries[i]
      BY <3>2, <3>3, <3>4
    <3> QED
      BY <3>5 DEF ToSet, Asked, n, past
  <2>3. Before(pos - 1, other, key)
    <3>1. Answered = pos - 1
      BY DEF Answered
    <3> QED
      BY <2>2, <3>1 DEF BenchInv, Recent
  <2>4. PICK i \in 1 .. pos - 1 :
            queries[i] = key /\ \A j \in 1 .. pos - 1 : queries[j] = other => j < i
    BY <2>3 DEF Before
  <2>5. i <= LastAsked(key) /\ LastAsked(key) \in Nat
    BY <2>1, <2>4, LastAskedIs
  <2>6. LastAsked(other) < i
    <3>1. CASE LastAsked(other) = 0
      BY <2>1, <2>4, <3>1
    <3>2. CASE LastAsked(other) # 0
      <4>1. LastAsked(other) \in 1 .. pos - 1 /\ queries[LastAsked(other)] = other
        BY <2>1, <3>2, LastAskedIs
      <4> QED
        BY <2>4, <4>1
    <3> QED
      BY <3>1, <3>2
  <2>7. LastAsked(other) \in Nat /\ i \in Nat
    BY <2>1, <2>4, LastAskedIs
  <2> QED
    BY <2>5, <2>6, <2>7
<1> QED
  BY <1>1, BenchInvariance, PTL

-----------------------------------------------------------------------------
\* The counters that the driver keeps, as the interface keeps them.
LEMMA HitsIs ==
    ASSUME BenchTypes, NEW policy \in Policy
    PROVE  /\ hit_count[policy] \in Nat /\ Hits(policy) \in Nat /\ Answered \in Nat
           /\ phase # "put" => Hits(policy) = hit_count[policy]
           /\ phase = "put" =>
                 Hits(policy) = hit_count[policy] + IF answer[policy] = "hit" THEN 1 ELSE 0
  BY DEF BenchTypes, Hits, Answered

LEMMA FillCounts ==
    ASSUME BenchInv, BenchInv', Fill \/ FillSkip, NEW policy \in Policy
    PROVE  Hits(policy)' = Hits(policy) /\ Answered' = Answered
<1>1. BenchTypes /\ BenchTypes'
  BY DEF BenchInv
<1>2. /\ phase = "fill" /\ hit_count' = hit_count
      /\ phase' = "fill" \/ (phase' = "get" /\ pos' = 1)
  BY DEF Fill, FillSkip, FillNext
<1>3. Answered = 0 /\ Answered' = 0
  BY <1>2 DEF Answered
<1>4. Hits(policy) = hit_count[policy]
  BY <1>1, <1>2, HitsIs
<1>5. Hits(policy)' = hit_count'[policy]
  <2>1. hit_count'[policy] \in Nat
    BY <1>1 DEF BenchTypes
  <2> QED
    BY <1>2, <2>1 DEF Hits
<1> QED
  BY <1>2, <1>3, <1>4, <1>5

LEMMA GetCounts ==
    ASSUME BenchInv, BenchInv', Get, NEW policy \in Policy
    PROVE  /\ Hits(policy)' = Hits(policy) + IF answer'[policy] = "hit" THEN 1 ELSE 0
           /\ Answered' = Answered + 1
           /\ Hits(policy) \in Nat /\ Answered \in Nat
<1>1. BenchTypes
  BY DEF BenchInv
<1>2. phase = "get" /\ phase' = "put" /\ pos' = pos /\ hit_count' = hit_count
  BY DEF Get
<1>3. /\ hit_count[policy] \in Nat /\ Hits(policy) = hit_count[policy]
      /\ Hits(policy) \in Nat /\ Answered \in Nat
  BY <1>1, <1>2, HitsIs
<1>4. Hits(policy)' = hit_count'[policy] + IF answer'[policy] = "hit" THEN 1 ELSE 0
  BY <1>2 DEF Hits
<1>5. Answered = pos - 1 /\ Answered' = pos /\ pos \in Nat
  BY <1>1, <1>2 DEF Answered, BenchTypes
<1> QED
  BY <1>2, <1>3, <1>4, <1>5

LEMMA PutMissedCounts ==
    ASSUME BenchInv, BenchInv', PutMissed, NEW policy \in Policy
    PROVE  Hits(policy)' = Hits(policy) /\ Answered' = Answered
<1>1. BenchTypes /\ BenchTypes'
  BY DEF BenchInv
<1>2. /\ phase = "put"
      /\ \/ phase' = "done" /\ pos' = pos
         \/ phase' = "get" /\ pos' = pos + 1
      /\ hit_count'[policy] = hit_count[policy] + IF answer[policy] = "hit" THEN 1 ELSE 0
  BY DEF PutMissed
<1>3. Answered' = Answered
  <2>1. pos \in Nat
    BY <1>1 DEF BenchTypes
  <2>2. Answered = pos
    BY <1>2 DEF Answered
  <2>3. CASE phase' = "done" /\ pos' = pos
    BY <2>2, <2>3 DEF Answered
  <2>4. CASE phase' = "get" /\ pos' = pos + 1
    <3>1. Answered' = pos' - 1
      BY <2>4 DEF Answered
    <3> QED
      BY <2>1, <2>2, <2>4, <3>1
  <2> QED
    BY <1>2, <2>3, <2>4
<1>4. Hits(policy) = hit_count[policy] + IF answer[policy] = "hit" THEN 1 ELSE 0
  BY <1>1, <1>2, HitsIs
<1>5. Hits(policy)' = hit_count'[policy]
  <2>1. hit_count'[policy] \in Nat
    BY <1>1 DEF BenchTypes
  <2>2. phase' # "put"
    BY <1>2
  <2> QED
    BY <2>1, <2>2 DEF Hits
<1> QED
  BY <1>2, <1>3, <1>4, <1>5

LEMMA RefLRUFull ==
    ASSUME od \in Lists
    PROVE  RefLRU!Full <=> Len(od) = Capacity
<1>1. Len(od) \in Nat /\ Len(od) <= Capacity /\ Cardinality(ToSet(od)) = Len(od)
  BY DistinctRange, DistinctCardinality DEF Lists
<1>2. RefLRU!Cardinality(ToSet(od)) = Cardinality(ToSet(od))
  BY DEF RefLRU!Cardinality, Cardinality
<1> QED
  BY <1>1, <1>2 DEF RefLRU!Full

LEMMA RefLFUFull ==
    ASSUME order \in Lists
    PROVE  RefLFU!Full <=> Len(order) = Capacity
<1>1. Len(order) \in Nat /\ Len(order) <= Capacity /\ Cardinality(ToSet(order)) = Len(order)
  BY DistinctRange, DistinctCardinality DEF Lists
<1>2. RefLFU!Cardinality(ToSet(order)) = Cardinality(ToSet(order))
  BY DEF RefLFU!Cardinality, Cardinality
<1> QED
  BY <1>1, <1>2 DEF RefLFU!Full

\* A put by the driver, if the counters stand still, is a put of the interface.
LEMMA RefLRUPuts ==
    ASSUME od \in Lists, NEW key \in Key, key \notin ToSet(od), od' = RefLRUPut(od, key),
           answer'["reference_LRU"] = "done",
           Hits("reference_LRU")' = Hits("reference_LRU"), Answered' = Answered
    PROVE  RefLRU!Next
<1>1. PICK rest : Stored(od, key, rest, od')
  BY PutStores
<1>2. ToSet(od') = ToSet(rest) \cup {key}
  BY <1>1, StoredList
<1>3. CASE Len(od) < Capacity /\ rest = od
  <2>1. ~RefLRU!Full
    BY <1>3, RefLRUFull
  <2>2. RefLRU!PutRoom(key)
    BY <1>2, <1>3, <2>1 DEF RefLRU!PutRoom
  <2> QED
    BY <2>2 DEF RefLRU!Next, RefLRU!Put
<1>4. CASE Len(od) = Capacity /\ od[1] \in ToSet(od) /\ ToSet(rest) = ToSet(od) \ {od[1]}
  <2>1. RefLRU!Full
    BY <1>4, RefLRUFull
  <2>2. RefLRU!PutTrade(key)
    BY <1>2, <1>4, <2>1 DEF RefLRU!PutTrade
  <2> QED
    BY <2>2 DEF RefLRU!Next, RefLRU!Put
<1> QED
  BY <1>1, <1>3, <1>4 DEF Stored

LEMMA RefLFUPuts ==
    ASSUME order \in Lists, freq \in [ToSet(order) -> Nat],
           NEW key \in Key, key \notin ToSet(order), RefLFUPut(key),
           answer'["reference_LFU"] = "done",
           Hits("reference_LFU")' = Hits("reference_LFU"), Answered' = Answered
    PROVE  RefLFU!Next
<1>1. LFUStored(key)
  BY LFUPutStores
<1>2. CASE Len(order) < Capacity /\ ToSet(order') = ToSet(order) \cup {key}
  <2>1. ~RefLFU!Full
    BY <1>2, RefLFUFull
  <2>2. RefLFU!PutRoom(key)
    BY <1>2, <2>1 DEF RefLFU!PutRoom
  <2> QED
    BY <2>2 DEF RefLFU!Next, RefLFU!Put
<1>3. CASE Len(order) = Capacity /\ \E victim \in ToSet(order) :
              ToSet(order') = (ToSet(order) \ {victim}) \cup {key}
  <2>1. RefLFU!Full
    BY <1>3, RefLFUFull
  <2>2. RefLFU!PutTrade(key)
    BY <1>3, <2>1 DEF RefLFU!PutTrade
  <2> QED
    BY <2>2 DEF RefLFU!Next, RefLFU!Put
<1> QED
  BY <1>1, <1>2, <1>3 DEF LFUStored

LEMMA RefStutter ==
    /\ (/\ ToSet(od') = ToSet(od) /\ answer'["reference_LRU"] = answer["reference_LRU"]
        /\ Hits("reference_LRU")' = Hits("reference_LRU") /\ Answered' = Answered)
         => UNCHANGED RefLRU!vars
    /\ (/\ ToSet(order') = ToSet(order) /\ answer'["reference_LFU"] = answer["reference_LFU"]
        /\ Hits("reference_LFU")' = Hits("reference_LFU") /\ Answered' = Answered)
         => UNCHANGED RefLFU!vars
  BY DEF RefLRU!vars, RefLFU!vars

LEMMA StepRefines ==
    ASSUME BenchInv, BenchInv', [BenchNext]_benchVars
    PROVE  [RefLRU!Next]_(RefLRU!vars) /\ [RefLFU!Next]_(RefLFU!vars)
<1>1. CASE UNCHANGED benchVars
  <2>1. UNCHANGED <<od, order, answer, hit_count, phase, pos>>
    BY <1>1 DEF benchVars
  <2>2. /\ Hits("reference_LRU")' = Hits("reference_LRU")
        /\ Hits("reference_LFU")' = Hits("reference_LFU")
        /\ Answered' = Answered
    BY <2>1 DEF Hits, Answered
  <2> QED
    BY <2>1, <2>2, RefStutter
<1>2. CASE FillSkip
  <2>1. UNCHANGED <<od, order, answer>>
    BY <1>2 DEF FillSkip
  <2> QED
    BY <1>2, <2>1, FillCounts, RefStutter, PolicyIs
<1>3. CASE Fill
  <2> DEFINE key == queries[pos]
  <2>1. /\ phase = "fill" /\ ~Contains(seen, key)
        /\ od' = RefLRUPut(od, key) /\ RefLFUPut(key)
        /\ answer' = [policy \in Policy |-> "done"]
    BY <1>3 DEF Fill
  <2>2. /\ key \in Key /\ seen \in Distinct(Key) /\ seen \in Lists /\ od = seen /\ order = seen
    BY <2>1, FillPlace
  <2>3. key \notin ToSet(od) /\ key \notin ToSet(order)
    BY <2>1, <2>2, ContainsIsIn
  <2>4. freq \in [ToSet(order) -> Nat]
    BY DEF BenchInv, BenchTypes
  <2>5. answer'["reference_LRU"] = "done" /\ answer'["reference_LFU"] = "done"
    BY <2>1, PolicyIs
  <2>6. /\ Hits("reference_LRU")' = Hits("reference_LRU")
        /\ Hits("reference_LFU")' = Hits("reference_LFU")
        /\ Answered' = Answered
    BY <1>3, FillCounts, PolicyIs
  <2> HIDE DEF key
  <2>7. RefLRU!Next
    BY <2>1, <2>2, <2>3, <2>5, <2>6, RefLRUPuts
  <2>8. RefLFU!Next
    BY <2>1, <2>2, <2>3, <2>4, <2>5, <2>6, RefLFUPuts
  <2> QED
    BY <2>7, <2>8
<1>4. CASE Get
  <2> DEFINE key == queries[pos]
  <2>1. /\ phase = "get" /\ od' = LRUGet(od, key) /\ RefLFUGet(key)
        /\ answer' = [policy \in Policy |-> IF key \in Holds(policy) THEN "hit" ELSE "miss"]
    BY <1>4 DEF Get
  <2>2. key \in Key /\ od \in Lists /\ order \in Lists /\ freq \in [ToSet(order) -> Nat]
    BY <2>1, ReplayPlace
  <2> HIDE DEF key
  <2>3. ToSet(od') = ToSet(od) /\ order' = order
    BY <2>1, <2>2, GetMoves, LFUGetCounts
  <2>4. /\ answer'["reference_LRU"] = IF key \in ToSet(od) THEN "hit" ELSE "miss"
        /\ answer'["reference_LFU"] = IF key \in ToSet(order) THEN "hit" ELSE "miss"
    BY <2>1, HoldsIs, PolicyIs
  <2>5. \A policy \in Policy :
           /\ Hits(policy)' = Hits(policy) + IF answer'[policy] = "hit" THEN 1 ELSE 0
           /\ Answered' = Answered + 1
           /\ Hits(policy) \in Nat /\ Answered \in Nat
    BY <1>4, GetCounts
  <2>6. ASSUME NEW policy \in Policy
        PROVE  IF answer'[policy] = "hit"
               THEN /\ Hits(policy)' = Hits(policy) + 1
                    /\ Answered' - Hits(policy)' = Answered - Hits(policy)
               ELSE /\ Hits(policy)' = Hits(policy)
                    /\ Answered' - Hits(policy)' = (Answered - Hits(policy)) + 1
    BY <2>5
  <2>7. RefLRU!GetHit(key) \/ RefLRU!GetMiss(key)
    BY <2>3, <2>4, <2>6, PolicyIs DEF RefLRU!GetHit, RefLRU!GetMiss
  <2>8. RefLFU!GetHit(key) \/ RefLFU!GetMiss(key)
    BY <2>3, <2>4, <2>6, PolicyIs DEF RefLFU!GetHit, RefLFU!GetMiss
  <2> QED
    BY <2>2, <2>7, <2>8 DEF RefLRU!Next, RefLFU!Next
<1>5. CASE PutMissed
  <2> DEFINE key == queries[pos]
  <2>1. /\ phase = "put"
        /\ od' = IF answer["reference_LRU"] = "miss" THEN RefLRUPut(od, key) ELSE od
        /\ IF answer["reference_LFU"] = "miss" THEN RefLFUPut(key) ELSE UNCHANGED <<order, freq>>
        /\ answer' = [policy \in Policy |->
                         IF answer[policy] = "miss" THEN "done" ELSE answer[policy]]
    BY <1>5 DEF PutMissed
  <2>2. key \in Key /\ od \in Lists /\ order \in Lists /\ freq \in [ToSet(order) -> Nat]
    BY <2>1, ReplayPlace
  <2>3. /\ answer["reference_LRU"] = IF key \in ToSet(od) THEN "hit" ELSE "miss"
        /\ answer["reference_LFU"] = IF key \in ToSet(order) THEN "hit" ELSE "miss"
    BY <2>1 DEF BenchInv, Answers, AnswerOf
  <2>4. /\ Hits("reference_LRU")' = Hits("reference_LRU")
        /\ Hits("reference_LFU")' = Hits("reference_LFU")
        /\ Answered' = Answered
    BY <1>5, PutMissedCounts, PolicyIs
  <2> HIDE DEF key
  <2>5. [RefLRU!Next]_(RefLRU!vars)
    <3>1. CASE key \in ToSet(od)
      <4>1. od' = od /\ answer'["reference_LRU"] = answer["reference_LRU"]
        BY <2>1, <2>3, <3>1, PolicyIs
      <4> QED
        BY <2>4, <4>1, RefStutter
    <3>2. CASE key \notin ToSet(od)
      <4>1. od' = RefLRUPut(od, key) /\ answer'["reference_LRU"] = "done"
        BY <2>1, <2>3, <3>2, PolicyIs
      <4> QED
        BY <2>2, <2>4, <3>2, <4>1, RefLRUPuts
    <3> QED
      BY <3>1, <3>2
  <2>6. [RefLFU!Next]_(RefLFU!vars)
    <3>1. CASE key \in ToSet(order)
      <4>1. order' = order /\ answer'["reference_LFU"] = answer["reference_LFU"]
        BY <2>1, <2>3, <3>1, PolicyIs
      <4> QED
        BY <2>4, <4>1, RefStutter
    <3>2. CASE key \notin ToSet(order)
      <4>1. RefLFUPut(key) /\ answer'["reference_LFU"] = "done"
        BY <2>1, <2>3, <3>2, PolicyIs
      <4> QED
        BY <2>2, <2>4, <3>2, <4>1, RefLFUPuts
    <3> QED
      BY <3>1, <3>2
  <2> QED
    BY <2>5, <2>6
<1> QED
  BY <1>1, <1>2, <1>3, <1>4, <1>5 DEF BenchNext

(* In the hands of the driver each of the two fallbacks keeps the interface *)
(* of CachePolicy, without a door, and the driver's own counters are those  *)
(* the interface would keep.                                                *)
THEOREM BenchReferencesImplementPolicy == BenchSpec => ReferencesImplementPolicy
<1>1. BenchInit => RefLRU!Init /\ RefLFU!Init
  <2> SUFFICES ASSUME BenchInit PROVE RefLRU!Init /\ RefLFU!Init
    OBVIOUS
  <2>1. od = <<>> /\ order = <<>> /\ phase = "fill"
    BY DEF BenchInit
  <2>2. ToSet(<<>>) = {}
    BY DEF ToSet
  <2>3. \A policy \in Policy : hit_count[policy] = 0 /\ answer[policy] = "new"
    BY DEF BenchInit
  <2>4. Answered = 0 /\ \A policy \in Policy : Hits(policy) = 0
    BY <2>1, <2>3 DEF Answered, Hits
  <2> QED
    BY <2>1, <2>2, <2>3, <2>4, PolicyIs DEF RefLRU!Init, RefLFU!Init
<1>2. BenchInv /\ BenchInv' /\ [BenchNext]_benchVars =>
        [RefLRU!Next]_(RefLRU!vars) /\ [RefLFU!Next]_(RefLFU!vars)
  BY StepRefines
<1> QED
  BY <1>1, <1>2, BenchInvariance, PTL
  DEF BenchSpec, ReferencesImplementPolicy, RefLRU!Spec, RefLFU!Spec
=============================================================================
