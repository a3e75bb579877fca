--------------------------- MODULE BenchRun_proofs ---------------------------
(***************************************************************************)
(* What results, claims and publication of a benchmark run rest on, for    *)
(* any declared controls, any number of rounds, any outputs, and any       *)
(* number of runs on one results directory.                                *)
(***************************************************************************)
EXTENDS BenchRun, FiniteSetTheorems, TLAPS

\* Turns a side has had: the rounds before this one, and this one if it went first.
Turns(s) == IF position = 2 /\ s = OrderForRound(round)[1] THEN round ELSE round - 1

\* The rounds follow one another, and what is recorded is what they prescribe.
Discipline ==
  /\ round \in Nat \ {0} /\ round <= TotalRounds + 1
  /\ position = 2 => round <= TotalRounds
  /\ \A s \in Sides : /\ Len(metrics[s]) = Turns(s)
                      /\ \A i \in DOMAIN metrics[s] : metrics[s][i].phase = PhaseOf(i)
  /\ Len(schedule) = IF position = 2 THEN round ELSE round - 1
  /\ \A i \in DOMAIN schedule :
       schedule[i] = [phase |-> PhaseOf(i), order |-> OrderForRound(i)]

AllSucceeded == \A s \in Sides : \A i \in DOMAIN metrics[s] : metrics[s][i].status = "succeeded"

AllVerified ==
  \A s \in Sides : \A i \in DOMAIN metrics[s] : metrics[s][i].verified = RuntimeControls

Executed == Symmetric /\ AllSucceeded /\ round = TotalRounds + 1 /\ (claimable => AllVerified)

Before    == {"prepare", "stat", "layout", "round"}
Writing   == {"write", "verdict", "publish", "done"}
Afterward == {"evidence"} \cup Writing

\* Where a run stands in its execution; what a file of it on disk stands for.
Progress ==
  /\ pc \in Before => AllSucceeded
  /\ pc \in {"stat", "layout", "round"} => Symmetric
  /\ pc \in Afterward \/ (\E name \in FileNames : OnDisk(name)) => Executed

\* The files of the results directory, run by run.
Directory ==
  /\ \A f \in FileNames : files[f] # None => directory /\ files[f] <= run
  /\ pc \in {"prepare", "stat"} => \A f \in FileNames : files[f] # run
  /\ pc = "layout" => ~directory
  /\ pc \in {"round", "evidence"} => directory /\ \A f \in FileNames : files[f] = None
  /\ pc \in Writing => directory /\ \A f \in FileNames : files[f] \in {run, None}
  /\ ResultsOfOneRun

\* How far the writing is, and when the parity report is the one compared.
Written ==
  /\ pc \in Before \cup {"evidence"} => written = 0
  /\ pc = "write" => written < Len(ResultFiles)
  /\ pc \in {"verdict", "publish", "done"} => written = Len(ResultFiles)
  /\ pc \in Writing => \A i \in 1..written : OnDisk(ResultFiles[i])
  /\ OnDisk("parity") => parity = Compared
  /\ pc \in {"publish", "done"} => parity.passed

\* The measured outputs there are, and which of them is kept.
Kept ==
  /\ \A s \in Sides : output[s] = IF produced[s] = <<>> THEN None ELSE produced[s][1]
  /\ AllSucceeded => \A s \in Sides : Len(produced[s]) =
       IF Len(metrics[s]) > controls["baseline"].warmup
         THEN Len(metrics[s]) - controls["baseline"].warmup ELSE 0

Inv == TypeOK /\ Discipline /\ Progress /\ Kept /\ Directory /\ Written

-----------------------------------------------------------------------------
LEMMA Files10 ==
  /\ Len(ResultFiles) = 10 /\ DOMAIN ResultFiles = 1..10
  /\ ResultFiles[9] = "parity"
  /\ \A i \in 1..10 : ResultFiles[i] \in FileNames
  /\ "parity" \in FileNames
BY DEF ResultFiles, FileNames

LEMMA Declared ==
  ASSUME TypeOK
  PROVE  /\ \A s \in Sides : controls[s].warmup \in Nat /\ controls[s].measured \in Nat
         /\ TotalRounds \in Nat
<1>1. controls \in [Sides -> Controls]
  BY ScenarioAssumption DEF TypeOK
<1>2. \A s \in Sides : controls[s].warmup \in Nat /\ controls[s].measured \in Nat
  BY <1>1 DEF Controls
<1>3. "baseline" \in Sides
  BY DEF Sides
<1> QED BY <1>2, <1>3 DEF TotalRounds

LEMMA Orders ==
  \A r : /\ OrderForRound(r) \in {<<"baseline", "rewrite">>, <<"rewrite", "baseline">>}
         /\ OrderForRound(r)[1] \in Sides /\ OrderForRound(r)[2] \in Sides
         /\ OrderForRound(r)[1] # OrderForRound(r)[2]
         /\ Sides = {OrderForRound(r)[1], OrderForRound(r)[2]}
BY DEF OrderForRound, Sides

LEMMA NewRun ==
  ASSUME TypeOK, RunAgain
  PROVE  run \in Nat /\ run' = run + 1 /\ run' \in Nat /\ run' # None
<1>1. run \in 1..MaxRuns /\ run < MaxRuns /\ run' = run + 1 /\ MaxRuns \in Nat
  BY BoundAssumption DEF TypeOK, RunAgain
<1>2. run' \in 1..MaxRuns
  BY <1>1
<1> QED BY <1>1, <1>2, NoneAssumption

\* The metric a turn appends.
Turn(side, status, cached) ==
  [phase |-> PhaseOf(round), round |-> round, position |-> position,
   status |-> status, verified |-> Proved(controls[side], cached)]

LEMMA TurnTypes ==
  ASSUME TypeOK, NEW side \in Sides, NEW status \in {"succeeded", "failed"},
         NEW cached \in BOOLEAN
  PROVE  Turn(side, status, cached) \in Metric
<1>1. PhaseOf(round) \in Phases
  BY DEF PhaseOf, Phases
<1>2. Proved(controls[side], cached) \in SUBSET RuntimeControls
  BY DEF Proved
<1> QED BY <1>1, <1>2 DEF Turn, Metric, TypeOK

\* What a turn of the side that is due leaves.
LEMMA RecordEffect ==
  ASSUME TypeOK, Discipline, NEW status \in {"succeeded", "failed"}, NEW cached \in BOOLEAN,
         Record(Current, status, cached)
  PROVE  /\ metrics' \in [Sides -> Seq(Metric)] /\ Current \in Sides
         /\ \A s \in Sides : s # Current => metrics'[s] = metrics[s]
         /\ Len(metrics[Current]) = round - 1 /\ Len(metrics'[Current]) = round
         /\ \A i \in 1..(round - 1) : metrics'[Current][i] = metrics[Current][i]
         /\ metrics'[Current][round] = Turn(Current, status, cached)
<1>1. Current \in Sides /\ Len(metrics[Current]) = round - 1
  BY Orders DEF Current, Discipline, Turns, TypeOK, Sides
<1> DEFINE m == metrics[Current]
           t == Turn(Current, status, cached)
<1>2. m \in Seq(Metric) /\ t \in Metric
  BY <1>1, TurnTypes DEF TypeOK
<1>3. metrics' = [metrics EXCEPT ![Current] = Append(m, t)]
  BY DEF Record, Turn
<1> HIDE DEF m, t
<1>4. metrics'[Current] = Append(m, t) /\ \A s \in Sides : s # Current => metrics'[s] = metrics[s]
  BY <1>1, <1>3 DEF TypeOK
<1>5. Len(m) = round - 1 /\ round \in Nat \ {0}
  BY <1>1 DEF m, Discipline
<1>6. /\ Append(m, t) \in Seq(Metric) /\ Len(Append(m, t)) = round
      /\ Append(m, t)[round] = t
      /\ \A i \in 1..(round - 1) : Append(m, t)[i] = m[i]
  BY <1>2, <1>5
<1>7. metrics' \in [Sides -> Seq(Metric)]
  BY <1>1, <1>3, <1>6 DEF TypeOK
<1> QED BY <1>1, <1>4, <1>5, <1>6, <1>7 DEF m, t

-----------------------------------------------------------------------------
(* Types.                                                                  *)

LEMMA TypesInit == Init => TypeOK
<1> SUFFICES ASSUME Init PROVE TypeOK
  OBVIOUS
<1>1. run \in 1..MaxRuns
  BY BoundAssumption DEF Init
<1>2. /\ metrics \in [Sides -> Seq(Metric)]
      /\ produced \in [Sides -> Seq(Output)]
      /\ output \in [Sides -> Output \cup {None}]
      /\ schedule \in Seq(Round)
  BY DEF Init
<1>3. written \in 0..Len(ResultFiles)
  BY Files10 DEF Init
<1>4. files \in [FileNames -> 1..MaxRuns \cup {None}]
  BY DEF Init
<1>5. round \in Nat /\ position \in 1..2
  BY DEF Init
<1>6. claimable \in BOOLEAN /\ directory \in BOOLEAN /\ taskset \in BOOLEAN
  BY DEF Init
<1>7. controls \in Scenarios /\ pc \in PCs
  BY DEF Init, PCs
<1>8. parity \in [passed : BOOLEAN, claims : BOOLEAN] \cup {None}
  BY DEF Init
<1> QED BY <1>1, <1>2, <1>3, <1>4, <1>5, <1>6, <1>7, <1>8 DEF TypeOK

LEMMA NoteTypes == TypeOK /\ NoteRound => schedule' \in Seq(Round)
<1> SUFFICES ASSUME TypeOK, NoteRound PROVE schedule' \in Seq(Round)
  OBVIOUS
<1>1. [phase |-> PhaseOf(round), order |-> OrderForRound(round)] \in Round
  BY Orders DEF PhaseOf, Phases, Round
<1>2. schedule \in Seq(Round)
  BY DEF TypeOK
<1> QED BY <1>1, <1>2 DEF NoteRound

LEMMA AfterTypes ==
  ASSUME TypeOK
  PROVE  AfterTurn.round \in Nat /\ AfterTurn.position \in 1..2
BY DEF TypeOK, AfterTurn

LEMMA TypesStep ==
  ASSUME TypeOK, Discipline, Written, [Next]_vars
  PROVE  TypeOK'
<1>1. CASE Prepare \/ Stat \/ CreateLayout \/ BuildManifest \/ Verdict \/ Publish
  BY <1>1 DEF Prepare, Stat, CreateLayout, BuildManifest, Verdict, Publish, Goto,
              TypeOK, PCs, execution, reports, disk
<1>2. CASE Iterate
  <2>1. PICK cached \in BOOLEAN, o \in Output :
          /\ Record(Current, "succeeded", cached)
          /\ output' = [output EXCEPT ![Current] = IF KeepsOutput(Current, PhaseOf(round)) THEN o ELSE @]
          /\ produced' = [produced EXCEPT ![Current] =
                            IF PhaseOf(round) = "measured" THEN Append(@, o) ELSE @]
    BY <1>2 DEF Iterate
  <2>2. metrics' \in [Sides -> Seq(Metric)] /\ Current \in Sides
    BY <2>1, RecordEffect
  <2>3. output' \in [Sides -> Output \cup {None}]
    BY <2>1, <2>2 DEF TypeOK
  <2>4. produced' \in [Sides -> Seq(Output)]
    <3>1. produced[Current] \in Seq(Output) /\ Append(produced[Current], o) \in Seq(Output)
      BY <2>2 DEF TypeOK
    <3> QED BY <2>1, <2>2, <3>1 DEF TypeOK
  <2>5. schedule' \in Seq(Round) /\ round' \in Nat /\ position' \in 1..2
    BY <1>2, NoteTypes, AfterTypes DEF Iterate
  <2>6. /\ pc' \in PCs
        /\ UNCHANGED <<controls, taskset, run, claimable, parity, written, directory, files>>
    BY <1>2 DEF Iterate, Goto, reports, disk, PCs
  <2> QED BY <2>2, <2>3, <2>4, <2>5, <2>6 DEF TypeOK
<1>3. CASE IterationFails
  <2>1. PICK cached \in BOOLEAN : Record(Current, "failed", cached)
    BY <1>3 DEF IterationFails
  <2>2. metrics' \in [Sides -> Seq(Metric)]
    BY <2>1, RecordEffect
  <2>3. schedule' \in Seq(Round) /\ round' \in Nat /\ position' \in 1..2
    BY <1>3, NoteTypes, AfterTypes DEF IterationFails
  <2>4. /\ pc' \in PCs
        /\ UNCHANGED <<controls, taskset, run, output, produced, claimable, parity,
                       written, directory, files>>
    BY <1>3 DEF IterationFails, OnFailure, Goto, reports, disk, PCs
  <2> QED BY <2>2, <2>3, <2>4 DEF TypeOK
<1>4. CASE FinishRounds
  <2>1. claimable' \in BOOLEAN /\ pc' \in PCs
    BY <1>4 DEF FinishRounds, Goto, Claimable, TypeOK, PCs
  <2> QED BY <1>4, <2>1 DEF FinishRounds, TypeOK, execution, disk
<1>5. CASE WriteFile
  <2>1. Compared \in [passed : BOOLEAN, claims : BOOLEAN]
    BY DEF Compared, Agree, TypeOK
  <2>2. parity' \in [passed : BOOLEAN, claims : BOOLEAN] \cup {None}
    BY <1>5, <2>1 DEF WriteFile, TypeOK
  <2>3. /\ files' \in [FileNames -> 1..MaxRuns \cup {None}] /\ pc' \in PCs
    BY <1>5 DEF WriteFile, TypeOK, PCs
  <2>4. written' \in 0..Len(ResultFiles)
    BY <1>5, Files10 DEF WriteFile, TypeOK, Written
  <2> QED BY <1>5, <2>2, <2>3, <2>4 DEF WriteFile, TypeOK, execution
<1>6. CASE RunAgain
  <2>1. run' \in 1..MaxRuns
    BY <1>6, BoundAssumption DEF RunAgain, TypeOK
  <2>4. pc' \in PCs /\ round' \in Nat /\ position' \in 1..2
    BY <1>6 DEF RunAgain, PCs
  <2>5. claimable' \in BOOLEAN
    BY <1>6 DEF RunAgain
  <2>6. parity' = None
    BY <1>6 DEF RunAgain
  <2>2. /\ metrics' \in [Sides -> Seq(Metric)]
        /\ produced' \in [Sides -> Seq(Output)]
        /\ output' \in [Sides -> Output \cup {None}]
        /\ schedule' \in Seq(Round)
    BY <1>6 DEF RunAgain
  <2>3. written' \in 0..Len(ResultFiles)
    BY <1>6, Files10 DEF RunAgain
  <2> QED BY <1>6, <2>1, <2>2, <2>3, <2>4, <2>5, <2>6 DEF RunAgain, TypeOK, disk
<1>7. CASE UNCHANGED vars
  BY <1>7 DEF vars, execution, reports, disk, TypeOK
<1> QED BY <1>1, <1>2, <1>3, <1>4, <1>5, <1>6, <1>7 DEF Next

-----------------------------------------------------------------------------
(* The discipline of the rounds.                                           *)

\* A step that starts no turn.
LEMMA KeepsRounds ==
  ASSUME UNCHANGED <<controls, round, position, metrics, schedule>>
  PROVE  /\ TotalRounds' = TotalRounds
         /\ \A s : Turns(s)' = Turns(s)
         /\ \A r : PhaseOf(r)' = PhaseOf(r) /\ OrderForRound(r)' = OrderForRound(r)
         /\ AllSucceeded' = AllSucceeded /\ AllVerified' = AllVerified
         /\ Symmetric' = Symmetric
         /\ Discipline' = Discipline
BY DEF TotalRounds, Turns, PhaseOf, OrderForRound, AllSucceeded, AllVerified,
       Symmetric, Complete, Discipline

\* A turn, whether it succeeds or fails.
LEMMA TurnKeepsDiscipline ==
  ASSUME TypeOK, Discipline, NEW status \in {"succeeded", "failed"}, NEW cached \in BOOLEAN,
         Record(Current, status, cached), NoteRound, round <= TotalRounds,
         round' = AfterTurn.round, position' = AfterTurn.position, controls' = controls
  PROVE  Discipline'
<1>1. /\ round \in Nat \ {0} /\ position \in {1, 2} /\ TotalRounds \in Nat
      /\ TotalRounds' = TotalRounds
      /\ position = 1 => round' = round /\ position' = 2
      /\ position = 2 => round' = round + 1 /\ position' = 1
  BY Declared DEF Discipline, TypeOK, AfterTurn, TotalRounds
<1>2. \A r : PhaseOf(r)' = PhaseOf(r) /\ OrderForRound(r)' = OrderForRound(r)
  BY DEF PhaseOf, OrderForRound
<1>3. /\ Current \in Sides
      /\ \A s \in Sides : s # Current => metrics'[s] = metrics[s]
      /\ Len(metrics[Current]) = round - 1 /\ Len(metrics'[Current]) = round
      /\ \A i \in 1..(round - 1) : metrics'[Current][i] = metrics[Current][i]
      /\ metrics'[Current][round].phase = PhaseOf(round)
      /\ metrics' \in [Sides -> Seq(Metric)]
  <2>1. Turn(Current, status, cached).phase = PhaseOf(round)
    BY DEF Turn
  <2> QED BY <2>1, RecordEffect
<1>4. \A s \in Sides : DOMAIN metrics[s] = 1..Len(metrics[s]) /\ DOMAIN metrics'[s] = 1..Len(metrics'[s])
  BY <1>3 DEF TypeOK
<1>5. \A s \in Sides : Len(metrics'[s]) = Turns(s)'
  <2>1. position = 1 => Current = OrderForRound(round)[1]
    BY DEF Current
  <2>2. position = 2 => Current = OrderForRound(round)[2] /\ Current # OrderForRound(round)[1]
    BY Orders DEF Current
  <2>3. CASE position = 1
    BY <1>1, <1>2, <1>3, <2>1, <2>3 DEF Turns, Discipline
  <2>4. CASE position = 2
    <3>1. \A s \in Sides : s # Current => s = OrderForRound(round)[1]
      BY <2>2, <2>4, Orders
    <3>2. \A s \in Sides : Turns(s)' = round
      BY <1>1, <2>4 DEF Turns
    <3>3. \A s \in Sides : s # Current => Len(metrics[s]) = round
      BY <2>4, <3>1 DEF Discipline, Turns
    <3> QED BY <1>3, <3>2, <3>3
  <2> QED BY <1>1, <2>3, <2>4
<1>6. \A s \in Sides : \A i \in DOMAIN metrics'[s] : metrics'[s][i].phase = PhaseOf(i)
  <2> SUFFICES ASSUME NEW s \in Sides, NEW i \in DOMAIN metrics'[s]
               PROVE  metrics'[s][i].phase = PhaseOf(i)
    OBVIOUS
  <2>1. CASE s # Current
    BY <1>3, <2>1 DEF Discipline
  <2>2. CASE s = Current /\ i # round
    <3>1. i \in 1..(round - 1) /\ i \in DOMAIN metrics[Current]
      BY <1>1, <1>3, <1>4, <2>2
    <3> QED BY <1>3, <2>2, <3>1 DEF Discipline
  <2>3. CASE s = Current /\ i = round
    BY <1>3, <2>3
  <2> QED BY <2>1, <2>2, <2>3
<1>7. /\ Len(schedule') = IF position' = 2 THEN round' ELSE round' - 1
      /\ \A i \in DOMAIN schedule' :
           schedule'[i] = [phase |-> PhaseOf(i), order |-> OrderForRound(i)]
  <2>1. CASE position = 1
    <3> DEFINE entry == [phase |-> PhaseOf(round), order |-> OrderForRound(round)]
    <3>1. schedule' = Append(schedule, entry) /\ schedule \in Seq(Round) /\ Len(schedule) = round - 1
      BY <1>1, <2>1 DEF NoteRound, TypeOK, Discipline
    <3> HIDE DEF entry
    <3>2. /\ Len(schedule') = round /\ DOMAIN schedule' = 1..round
          /\ schedule'[round] = entry
          /\ \A i \in 1..(round - 1) : schedule'[i] = schedule[i] /\ i \in DOMAIN schedule
      BY <1>1, <3>1
    <3>3. \A i \in 1..(round - 1) :
            schedule'[i] = [phase |-> PhaseOf(i), order |-> OrderForRound(i)]
      BY <3>2 DEF Discipline
    <3>4. \A i \in 1..round : i = round \/ i \in 1..(round - 1)
      BY <1>1
    <3> QED BY <1>1, <2>1, <3>2, <3>3, <3>4 DEF entry
  <2>2. CASE position = 2
    <3>1. schedule' = schedule /\ round' - 1 = round /\ position' = 1
      BY <1>1, <2>2 DEF NoteRound
    <3> QED BY <2>2, <3>1 DEF Discipline
  <2> QED BY <1>1, <2>1, <2>2
<1>8. round' \in Nat \ {0} /\ round' <= TotalRounds' + 1 /\ (position' = 2 => round' <= TotalRounds')
  BY <1>1
<1> QED BY <1>2, <1>5, <1>6, <1>7, <1>8 DEF Discipline

LEMMA DisciplineStep ==
  ASSUME TypeOK, Discipline, [Next]_vars
  PROVE  Discipline'
<1>1. CASE Iterate
  <2>1. PICK cached \in BOOLEAN : Record(Current, "succeeded", cached)
    BY <1>1 DEF Iterate
  <2> QED BY <1>1, <2>1, TurnKeepsDiscipline DEF Iterate
<1>2. CASE IterationFails
  <2>1. PICK cached \in BOOLEAN : Record(Current, "failed", cached)
    BY <1>2 DEF IterationFails
  <2> QED BY <1>2, <2>1, TurnKeepsDiscipline DEF IterationFails
<1>3. CASE RunAgain
  <2>1. /\ round' = 1 /\ position' = 1 /\ schedule' = <<>>
        /\ metrics' = [s \in Sides |-> <<>>] /\ controls' = controls
    BY <1>3 DEF RunAgain
  <2>2. TotalRounds' = TotalRounds /\ TotalRounds \in Nat
    BY <2>1, Declared DEF TotalRounds
  <2>3. \A s \in Sides : metrics'[s] = <<>> /\ Turns(s)' = 0
    BY <2>1 DEF Turns
  <2> QED BY <2>1, <2>2, <2>3 DEF Discipline
<1>4. CASE UNCHANGED <<controls, round, position, metrics, schedule>>
  BY <1>4, KeepsRounds
<1> QED BY <1>1, <1>2, <1>3, <1>4
        DEF Next, Prepare, Stat, CreateLayout, FinishRounds, BuildManifest, WriteFile,
            Verdict, Publish, vars, execution

LEMMA DisciplineInit == Init => Discipline
<1> SUFFICES ASSUME Init PROVE Discipline
  OBVIOUS
<1>1. TotalRounds \in Nat
  BY TypesInit, Declared
<1>2. round = 1 /\ position = 1 /\ schedule = <<>>
  BY DEF Init
<1>3. \A s \in Sides : metrics[s] = <<>> /\ Turns(s) = 0
  BY <1>2 DEF Init, Turns
<1> QED BY <1>1, <1>2, <1>3 DEF Discipline

-----------------------------------------------------------------------------
(* Progress: what is behind a file of the results directory.               *)

LEMMA SidesAgree ==
  ASSUME TypeOK, Symmetric, NEW s \in Sides
  PROVE  controls[s].warmup + controls[s].measured = TotalRounds
BY DEF Symmetric, TotalRounds, Sides

LEMMA ClaimableVerified == TypeOK /\ Claimable => AllVerified
<1> SUFFICES ASSUME TypeOK, Claimable, NEW s \in Sides, NEW i \in DOMAIN metrics[s]
             PROVE  metrics[s][i].verified = RuntimeControls
  BY DEF AllVerified
<1>1. metrics[s][i] \in Metric
  BY DEF TypeOK
<1>2. metrics[s][i].verified \in SUBSET RuntimeControls
  BY <1>1 DEF Metric
<1>3. RuntimeControls \subseteq metrics[s][i].verified
  BY DEF Claimable, AlwaysProved
<1> QED BY <1>2, <1>3

\* A step that executes nothing and writes no file.
LEMMA KeepsProgress ==
  ASSUME Progress, UNCHANGED <<controls, run, round, position, metrics, schedule, claimable, files>>,
         pc' \in Before => pc \in Before,
         pc' \in {"stat", "layout", "round"} => pc \in {"stat", "layout", "round"} \/ Symmetric,
         pc' \in Afterward => pc \in Afterward
  PROVE  Progress'
<1>1. /\ AllSucceeded' = AllSucceeded /\ Symmetric' = Symmetric
      /\ Executed' = Executed /\ \A name : OnDisk(name)' = OnDisk(name)
  BY KeepsRounds DEF Executed, OnDisk
<1> QED BY <1>1 DEF Progress

LEMMA ProgressStep ==
  ASSUME TypeOK, Discipline, Progress, Directory, [Next]_vars
  PROVE  Progress'
<1>1. CASE Prepare
  <2>1. /\ pc' \in {"stat", "failed"} /\ pc = "prepare" /\ (pc' = "stat" => Symmetric)
        /\ UNCHANGED <<controls, run, round, position, metrics, schedule, claimable, files>>
    BY <1>1 DEF Prepare, Goto, execution, reports, disk
  <2> QED BY <2>1, KeepsProgress DEF Before, Afterward, Writing
<1>2. CASE Stat \/ CreateLayout
  <2>1. /\ pc' \in {"layout", "round", "failed"} /\ pc \in {"stat", "layout"}
        /\ UNCHANGED <<controls, run, round, position, metrics, schedule, claimable, files>>
    BY <1>2 DEF Stat, CreateLayout, Goto, execution, reports, disk
  <2> QED BY <2>1, KeepsProgress DEF Before, Afterward, Writing
<1>3. CASE BuildManifest \/ Verdict \/ Publish
  <2>1. /\ pc' \in Afterward \cup {"failed"} /\ pc' # "evidence" /\ pc \in Afterward
        /\ UNCHANGED <<controls, run, round, position, metrics, schedule, claimable, files>>
    BY <1>3 DEF BuildManifest, Verdict, Publish, Goto, execution, reports, disk, Afterward, Writing
  <2> QED BY <2>1, KeepsProgress DEF Before, Afterward, Writing
<1>4. CASE UNCHANGED vars
  <2>1. UNCHANGED <<controls, run, round, position, metrics, schedule, claimable, files, pc>>
    BY <1>4 DEF vars, execution, reports, disk
  <2> QED BY <2>1, KeepsProgress
<1>5. CASE Iterate
  <2>1. /\ pc = "round" /\ pc' = "round" /\ UNCHANGED <<controls, run, claimable, files>>
    BY <1>5 DEF Iterate, Goto, reports, disk
  <2>2. PICK cached \in BOOLEAN : Record(Current, "succeeded", cached)
    BY <1>5 DEF Iterate
  <2>3. ASSUME NEW s \in Sides, NEW i \in DOMAIN metrics'[s]
        PROVE  metrics'[s][i].status = "succeeded"
    <3>1. Turn(Current, "succeeded", cached).status = "succeeded"
      BY DEF Turn
    <3>2. /\ Current \in Sides /\ metrics'[s] \in Seq(Metric)
          /\ s # Current => metrics'[s] = metrics[s]
          /\ Len(metrics[Current]) = round - 1 /\ Len(metrics'[Current]) = round
          /\ \A j \in 1..(round - 1) : metrics'[Current][j] = metrics[Current][j]
          /\ metrics'[Current][round].status = "succeeded"
      BY <2>2, <3>1, RecordEffect
    <3>3. AllSucceeded /\ round \in Nat \ {0}
      BY <2>1 DEF Progress, Before, Discipline
    <3>4. CASE s # Current
      BY <3>2, <3>3, <3>4 DEF AllSucceeded
    <3>5. CASE s = Current /\ i = round
      BY <3>2, <3>5
    <3>6. CASE s = Current /\ i # round
      <4>1. i \in 1..(round - 1) /\ i \in DOMAIN metrics[Current]
        BY <3>2, <3>3, <3>6 DEF TypeOK
      <4> QED BY <3>2, <3>3, <3>6, <4>1 DEF AllSucceeded
    <3> QED BY <3>4, <3>5, <3>6
  <2>4. AllSucceeded' /\ Symmetric'
    BY <2>1, <2>3 DEF AllSucceeded, Progress, Symmetric, Complete
  <2>5. \A name \in FileNames : ~OnDisk(name)'
    BY <2>1, NoneAssumption DEF Directory, OnDisk, TypeOK
  <2> QED BY <2>1, <2>4, <2>5 DEF Progress, Before, Afterward, Writing
<1>6. CASE IterationFails
  <2>1. /\ pc = "round" /\ pc' = "failed" /\ UNCHANGED <<controls, run, files>>
    BY <1>6 DEF IterationFails, OnFailure, Goto, reports, disk
  <2>2. \A name \in FileNames : ~OnDisk(name)'
    BY <2>1, NoneAssumption DEF Directory, OnDisk, TypeOK
  <2> QED BY <2>1, <2>2 DEF Progress, Before, Afterward, Writing
<1>7. CASE FinishRounds
  <2>1. /\ pc = "round" /\ pc' \in {"evidence", "failed"} /\ round > TotalRounds
        /\ pc' = "evidence" => claimable' = Claimable
        /\ UNCHANGED <<controls, run, round, position, metrics, schedule, files>>
    BY <1>7 DEF FinishRounds, Goto, execution, disk
  <2>2. \A name \in FileNames : ~OnDisk(name)'
    BY <2>1, NoneAssumption DEF Directory, OnDisk, TypeOK
  <2>3. /\ Symmetric' /\ AllSucceeded' /\ round' = TotalRounds' + 1
    BY <2>1, KeepsRounds, Declared DEF Progress, Before, Discipline
  <2>4. pc' = "evidence" /\ claimable' => AllVerified'
    BY <2>1, ClaimableVerified, KeepsRounds
  <2> QED BY <2>1, <2>2, <2>3, <2>4 DEF Progress, Executed, Before, Afterward, Writing
<1>8. CASE WriteFile
  <2>1. /\ pc = "write" /\ pc' \in Afterward \cup {"failed"} /\ pc' # "evidence"
        /\ UNCHANGED <<controls, run, round, position, metrics, schedule, claimable>>
    BY <1>8 DEF WriteFile, execution, Afterward, Writing
  <2>2. Executed'
    BY <2>1, KeepsRounds DEF Progress, Executed, Afterward, Writing
  <2> QED BY <2>1, <2>2 DEF Progress, Before, Afterward, Writing
<1>9. CASE RunAgain
  <2>1. /\ pc' = "prepare" /\ run' = run + 1 /\ files' = files
        /\ metrics' = [s \in Sides |-> <<>>] /\ run \in Nat
    BY <1>9 DEF RunAgain, disk, TypeOK
  <2>2. AllSucceeded'
    BY <2>1 DEF AllSucceeded
  <2>3. \A name \in FileNames : ~OnDisk(name)'
    <3>1. \A name \in FileNames : files[name] # None => files[name] <= run /\ files[name] \in 1..MaxRuns
      BY DEF Directory, TypeOK
    <3>2. run' # None /\ run' \in Nat
      BY <1>9, NewRun
    <3> QED BY <2>1, <3>1, <3>2 DEF OnDisk
  <2> QED BY <2>1, <2>2, <2>3 DEF Progress, Afterward, Writing
<1> QED BY <1>1, <1>2, <1>3, <1>4, <1>5, <1>6, <1>7, <1>8, <1>9 DEF Next

-----------------------------------------------------------------------------
(* The outputs kept.                                                       *)

LEMMA KeptStep ==
  ASSUME TypeOK, Discipline, Progress, Kept, [Next]_vars
  PROVE  Kept'
<1> DEFINE w == controls["baseline"].warmup
<1>1. CASE Iterate
  <2>1. PICK cached \in BOOLEAN, o \in Output :
          /\ Record(Current, "succeeded", cached)
          /\ output' = [output EXCEPT ![Current] = IF KeepsOutput(Current, PhaseOf(round)) THEN o ELSE @]
          /\ produced' = [produced EXCEPT ![Current] =
                            IF PhaseOf(round) = "measured" THEN Append(@, o) ELSE @]
    BY <1>1 DEF Iterate
  <2>2. /\ Current \in Sides /\ \A s \in Sides : s # Current => metrics'[s] = metrics[s]
        /\ Len(metrics[Current]) = round - 1 /\ Len(metrics'[Current]) = round
    BY <2>1, RecordEffect
  <2>3. w \in Nat /\ round \in Nat \ {0} /\ controls' = controls /\ AllSucceeded
    BY <1>1, Declared DEF Iterate, Goto, Progress, Before, Discipline, Sides
  <2>4. (PhaseOf(round) = "measured") <=> round > w
    BY <2>3 DEF PhaseOf
  <2> DEFINE p == produced[Current]
  <2>5. /\ p \in Seq(Output) /\ produced \in [Sides -> Seq(Output)]
        /\ output \in [Sides -> Output \cup {None}] /\ None \notin Output
        /\ output[Current] = IF p = <<>> THEN None ELSE p[1]
        /\ Len(p) = IF round - 1 > w THEN round - 1 - w ELSE 0
    BY <2>2, <2>3, NoneAssumption DEF TypeOK, Kept
  <2>6. ASSUME NEW s \in Sides, s # Current
        PROVE  /\ output'[s] = IF produced'[s] = <<>> THEN None ELSE produced'[s][1]
               /\ Len(produced'[s]) = IF Len(metrics'[s]) > w THEN Len(metrics'[s]) - w ELSE 0
    <3>1. produced'[s] = produced[s] /\ output'[s] = output[s] /\ metrics'[s] = metrics[s]
      BY <2>1, <2>2, <2>5, <2>6
    <3> QED BY <2>3, <3>1 DEF Kept
  <2>7. CASE round > w
    <3>1. produced'[Current] = Append(p, o) /\ output'[Current] = IF p = <<>> THEN o ELSE p[1]
      <4>1. p # <<>> => p[1] \in Output
        BY <2>5
      <4> QED BY <2>1, <2>2, <2>4, <2>5, <2>7, <4>1 DEF KeepsOutput
    <3> HIDE DEF p
    <3>2. /\ Append(p, o) # <<>> /\ Len(Append(p, o)) = Len(p) + 1
          /\ Append(p, o)[1] = IF p = <<>> THEN o ELSE p[1]
      <4>1. p \in Seq(Output) /\ o \in Output
        BY <2>5
      <4>2. Len(Append(p, o)) = Len(p) + 1 /\ Append(p, o)[Len(p) + 1] = o /\ Len(p) \in Nat
        BY <4>1
      <4>3. p # <<>> => Len(p) > 0 /\ Append(p, o)[1] = p[1]
        BY <4>1
      <4> QED BY <4>2, <4>3
    <3>3. Len(p) + 1 = round - w
      BY <2>3, <2>5, <2>7
    <3>4. /\ output'[Current] = IF produced'[Current] = <<>> THEN None ELSE produced'[Current][1]
          /\ Len(produced'[Current]) = round - w
      BY <3>1, <3>2, <3>3
    <3> QED BY <2>2, <2>3, <2>6, <2>7, <3>4 DEF Kept
  <2>8. CASE ~(round > w)
    <3>1. produced'[Current] = p /\ output'[Current] = output[Current]
      BY <2>1, <2>2, <2>4, <2>5, <2>8 DEF KeepsOutput
    <3>2. /\ output'[Current] = IF produced'[Current] = <<>> THEN None ELSE produced'[Current][1]
          /\ Len(produced'[Current]) = 0
      BY <2>3, <2>5, <2>8, <3>1
    <3> QED BY <2>2, <2>3, <2>6, <2>8, <3>2 DEF Kept
  <2> QED BY <2>7, <2>8
<1>2. CASE IterationFails
  <2>1. PICK cached \in BOOLEAN : Record(Current, "failed", cached)
    BY <1>2 DEF IterationFails
  <2>2. /\ Current \in Sides /\ metrics' \in [Sides -> Seq(Metric)] /\ Len(metrics'[Current]) = round
        /\ metrics'[Current][round] = Turn(Current, "failed", cached)
    BY <2>1, RecordEffect
  <2>3. round \in DOMAIN metrics'[Current] /\ metrics'[Current][round].status = "failed"
    BY <2>2 DEF Turn, Discipline
  <2>4. ~AllSucceeded'
    BY <2>2, <2>3 DEF AllSucceeded
  <2> QED BY <1>2, <2>4 DEF IterationFails, Kept
<1>3. CASE RunAgain
  <2>1. /\ \A s \in Sides : metrics'[s] = <<>> /\ output'[s] = None /\ produced'[s] = <<>>
        /\ w \in Nat /\ controls' = controls
    BY <1>3, Declared DEF RunAgain, Sides
  <2> QED BY <2>1 DEF Kept
<1>4. CASE UNCHANGED <<controls, metrics, output, produced>>
  BY <1>4 DEF Kept, AllSucceeded
<1> QED BY <1>1, <1>2, <1>3, <1>4
        DEF Next, Prepare, Stat, CreateLayout, FinishRounds, BuildManifest, WriteFile,
            Verdict, Publish, vars, execution

-----------------------------------------------------------------------------
(* The directory and the writing.                                          *)

LEMMA DirectoryStep ==
  ASSUME TypeOK, Directory, [Next]_vars
  PROVE  Directory'
<1> USE DEF Directory, ResultsOfOneRun
<1>1. CASE Prepare \/ BuildManifest \/ Verdict \/ Publish \/ Iterate \/ IterationFails
           \/ FinishRounds \/ UNCHANGED vars
  <2>1. /\ UNCHANGED <<run, directory, files>>
        /\ \/ pc' = pc
           \/ pc' = "failed"
           \/ pc = "prepare" /\ pc' = "stat"
           \/ pc = "round" /\ pc' = "evidence"
           \/ pc = "evidence" /\ pc' = "write"
           \/ pc \in Writing /\ pc' \in Writing
    BY <1>1 DEF Prepare, BuildManifest, Verdict, Publish, Iterate, IterationFails, OnFailure,
                FinishRounds, Goto, vars, execution, reports, disk, Writing
  <2> QED BY <2>1 DEF Writing
<1>2. CASE Stat
  <2>1. /\ pc' \in {"layout", "failed"} /\ (pc' = "layout" => ~directory)
        /\ UNCHANGED <<run, directory, files>>
    BY <1>2 DEF Stat, Goto, Available, disk
  <2> QED BY <2>1 DEF Writing
<1>3. CASE CreateLayout
  <2>1. /\ pc = "layout" /\ pc' \in {"round", "failed"} /\ (pc' = "round" => directory')
        /\ UNCHANGED <<run, files>>
    BY <1>3 DEF CreateLayout, Goto
  <2>2. \A f \in FileNames : files[f] = None
    BY <2>1
  <2> QED BY <2>1, <2>2 DEF Writing
<1>4. CASE WriteFile
  <2>1. /\ pc = "write" /\ pc' \in Writing \cup {"failed"} /\ UNCHANGED <<run, directory>>
        /\ run \in Nat
    BY <1>4 DEF WriteFile, Writing, TypeOK
  <2>2. \A f \in FileNames : files'[f] \in {run, files[f]}
    BY <1>4 DEF WriteFile, TypeOK
  <2>3. directory /\ \A f \in FileNames : files'[f] \in {run, None}
    BY <2>1, <2>2 DEF Writing
  <2> QED BY <2>1, <2>3, NoneAssumption DEF Writing
<1>5. CASE RunAgain
  <2>1. /\ pc' = "prepare" /\ run' = run + 1 /\ UNCHANGED <<files, directory>> /\ run \in Nat
        /\ \A f \in FileNames : files[f] \in (1..MaxRuns) \cup {None}
    BY <1>5 DEF RunAgain, disk, TypeOK
  <2>2. run' # None
    BY <1>5, NewRun
  <2>3. \A f \in FileNames : files[f] # None => files[f] \in Nat /\ files[f] <= run
    BY <2>1
  <2> QED BY <2>1, <2>2, <2>3 DEF Writing
<1> QED BY <1>1, <1>2, <1>3, <1>4, <1>5 DEF Next

LEMMA WrittenStep ==
  ASSUME TypeOK, Directory, Written, [Next]_vars
  PROVE  Written'
<1> USE DEF Written
<1>1. CASE Iterate \/ IterationFails \/ FinishRounds
  <2>1. /\ pc = "round" /\ pc' \in {"round", "evidence", "failed"}
        /\ UNCHANGED <<run, written, files>>
    BY <1>1 DEF Iterate, IterationFails, OnFailure, FinishRounds, Goto, execution, reports, disk
  <2>2. ~OnDisk("parity")'
    BY <2>1, Files10, NoneAssumption DEF Directory, OnDisk, TypeOK
  <2> QED BY <2>1, <2>2 DEF Before, Writing
<1>2. CASE Prepare \/ Stat \/ CreateLayout \/ BuildManifest \/ Verdict \/ Publish \/ UNCHANGED vars
  <2>1. /\ UNCHANGED <<run, written, files, parity, output, claimable>>
        /\ \/ pc' = pc
           \/ pc' = "failed"
           \/ pc \in Before /\ pc' \in Before
           \/ pc = "evidence" /\ pc' = "write"
           \/ pc = "verdict" /\ pc' = "publish" /\ parity.passed
           \/ pc = "publish" /\ pc' = "done"
    BY <1>2 DEF Prepare, Stat, CreateLayout, BuildManifest, Verdict, ParityHolds, Publish, Goto,
                vars, execution, reports, disk, Before
  <2>2. Compared' = Compared /\ \A name : OnDisk(name)' = OnDisk(name)
    BY <2>1 DEF Compared, Agree, OnDisk
  <2>3. pc = "evidence" /\ pc' = "write" => \A i \in 1..written : OnDisk(ResultFiles[i])
    OBVIOUS
  <2> QED BY <2>1, <2>2, <2>3, Files10 DEF Before, Writing
<1>3. CASE WriteFile
  <2>1. /\ pc = "write" /\ written \in 0..9 /\ written + 1 \in 1..10 /\ NextFile \in FileNames
        /\ UNCHANGED <<run, output, claimable>>
        /\ parity' = IF NextFile = "parity" THEN Compared ELSE parity
    BY <1>3, Files10 DEF WriteFile, TypeOK, execution, NextFile
  <2>2. Compared' = Compared
    BY <2>1 DEF Compared, Agree
  <2>3. CASE pc' = "failed" /\ UNCHANGED <<files, written>>
    <3>1. OnDisk("parity")' => parity' = Compared'
      BY <2>1, <2>2, <2>3 DEF OnDisk
    <3> QED BY <2>3, <3>1 DEF Before, Writing
  <2>4. CASE /\ files' = [files EXCEPT ![NextFile] = run]
             /\ written' = written + 1
             /\ pc' = IF written' = Len(ResultFiles) THEN "verdict" ELSE "write"
    <3>1. /\ files'[NextFile] = run
          /\ \A f \in FileNames : f # NextFile => files'[f] = files[f]
      BY <2>1, <2>4 DEF TypeOK
    <3>2. OnDisk("parity")' => parity' = Compared'
      BY <2>1, <2>2, <3>1, Files10 DEF OnDisk
    <3>3. ASSUME NEW i \in 1..written'
          PROVE  files'[ResultFiles[i]] = run
      <4>1. CASE i = written + 1
        BY <3>1, <4>1 DEF NextFile
      <4>2. CASE i # written + 1
        <5>1. i \in 1..written /\ i \in 1..10
          BY <2>1, <2>4, <4>2
        <5>2. files[ResultFiles[i]] = run /\ ResultFiles[i] \in FileNames
          BY <2>1, <5>1, Files10 DEF Writing, OnDisk
        <5> QED BY <3>1, <5>2
      <4> QED BY <4>1, <4>2
    <3>4. \A i \in 1..written' : OnDisk(ResultFiles[i])'
      BY <2>1, <3>3 DEF OnDisk
    <3>5. pc' = "write" => written' < Len(ResultFiles)
      BY <2>1, <2>4, Files10
    <3> QED BY <2>4, <3>2, <3>4, <3>5 DEF Before, Writing
  <2> QED BY <1>3, <2>3, <2>4 DEF WriteFile
<1>4. CASE RunAgain
  <2>1. /\ pc' = "prepare" /\ run' = run + 1 /\ files' = files /\ written' = 0 /\ run \in Nat
    BY <1>4 DEF RunAgain, disk, TypeOK
  <2>2. ~OnDisk("parity")'
    <3>1. files["parity"] # None => files["parity"] <= run /\ files["parity"] \in 1..MaxRuns
      BY Files10 DEF Directory, TypeOK
    <3>2. run' # None
      BY <1>4, NewRun
    <3> QED BY <2>1, <3>1, <3>2 DEF OnDisk
  <2> QED BY <2>1, <2>2 DEF Before, Writing
<1> QED BY <1>1, <1>2, <1>3, <1>4 DEF Next

-----------------------------------------------------------------------------
LEMMA InvInit == Init => Inv
<1> SUFFICES ASSUME Init PROVE Inv
  OBVIOUS
<1>1. TypeOK /\ Discipline
  BY TypesInit, DisciplineInit
<1>2. \A f \in FileNames : files[f] = None /\ ~OnDisk(f)
  BY NoneAssumption, BoundAssumption DEF Init, OnDisk
<1>3. AllSucceeded
  BY DEF Init, AllSucceeded
<1>4. pc = "prepare" /\ written = 0 /\ run = 1
  BY DEF Init
<1>5. Progress
  BY <1>2, <1>3, <1>4 DEF Progress, Afterward, Writing
<1>6. Directory
  BY <1>2, <1>4, NoneAssumption, BoundAssumption DEF Directory, ResultsOfOneRun, Writing
<1>7. Written
  BY <1>2, <1>4, Files10 DEF Written, Writing
<1>8. Kept
  <2>1. \A s \in Sides : metrics[s] = <<>> /\ output[s] = None /\ produced[s] = <<>>
    BY DEF Init
  <2>2. controls["baseline"].warmup \in Nat
    BY <1>1, Declared DEF Sides
  <2> QED BY <2>1, <2>2 DEF Kept
<1> QED BY <1>1, <1>5, <1>6, <1>7, <1>8 DEF Inv

LEMMA InvStep == Inv /\ [Next]_vars => Inv'
BY TypesStep, DisciplineStep, ProgressStep, KeptStep, DirectoryStep, WrittenStep DEF Inv

LEMMA Invariant == Spec => []Inv
BY InvInit, InvStep, PTL DEF Spec

\* Every reachable state of a benchmark run is type correct.
THEOREM RunTypes == Spec => []TypeOK
<1>1. Inv => TypeOK
  BY DEF Inv
<1> QED BY <1>1, Invariant, PTL

\* Run (run.go) refuses a directory that exists, so a results directory never mixes
\* the files of two runs.
THEOREM OneRunPerDirectory == Spec => []ResultsOfOneRun
<1>1. Inv => ResultsOfOneRun
  BY DEF Inv, Directory
<1> QED BY <1>1, Invariant, PTL

\* Run (run.go) publishes only after the whole directory is written and the outputs
\* agree on the tracked fields.
THEOREM PublicationNeedsParity == Spec => []PublishedWithParity
<1>1. Inv => PublishedWithParity
  <2> SUFFICES ASSUME Inv, pc \in {"publish", "done"}
               PROVE  /\ \A name \in FileNames : OnDisk(name)
                      /\ Agree(output["baseline"], output["rewrite"])
    BY DEF PublishedWithParity
  <2>1. written = 10 /\ \A i \in 1..10 : OnDisk(ResultFiles[i])
    BY Files10 DEF Inv, Written, Writing
  <2>2. \A name \in FileNames : OnDisk(name)
    BY <2>1, Files10 DEF FileNames
  <2>3. parity = Compared /\ parity.passed
    BY <2>2, Files10 DEF Inv, Written
  <2>4. Compared.passed = Agree(output["baseline"], output["rewrite"])
    BY DEF Compared
  <2> QED BY <2>2, <2>3, <2>4
<1> QED BY <1>1, Invariant, PTL

\* buildParityReport (run.go, fairness_runtime.go) allows performance claims only for
\* a complete run of equal declared controls, every iteration of which succeeded and
\* proved all of them, with outputs that agree.
THEOREM ClaimsAreEarned == Spec => []ClaimsEarned
<1>1. Inv => ClaimsEarned
  <2> SUFFICES ASSUME Inv, OnDisk("parity"), parity.claims
               PROVE  /\ controls["baseline"] = controls["rewrite"]
                      /\ \A s \in Sides :
                           /\ Len(metrics[s]) = controls[s].warmup + controls[s].measured
                           /\ \A i \in DOMAIN metrics[s] :
                                /\ metrics[s][i].status = "succeeded"
                                /\ metrics[s][i].verified = RuntimeControls
                      /\ \A f \in Tracked : output["baseline"][f] = output["rewrite"][f]
    BY DEF ClaimsEarned
  <2>1. Executed /\ TypeOK /\ Discipline
    BY Files10 DEF Inv, Progress
  <2>2. parity = Compared
    BY DEF Inv, Written
  <2>3. claimable /\ Agree(output["baseline"], output["rewrite"])
    <3>1. Compared.claims = (Agree(output["baseline"], output["rewrite"]) /\ claimable)
      BY DEF Compared
    <3> QED BY <2>2, <3>1
  <2>4. \A s \in Sides : Len(metrics[s]) = TotalRounds
    BY <2>1, Declared DEF Executed, Discipline, Turns, TypeOK
  <2> QED BY <2>1, <2>3, <2>4, SidesAgree
          DEF Executed, Symmetric, AllSucceeded, AllVerified, Agree
<1> QED BY <1>1, Invariant, PTL

\* A results file stands for a complete execution (run.go): the declared number of
\* warm-up and measured iterations of both sides, all of them successful, and of
\* each side the output kept is that of the first measured one.
THEOREM ResultsStandForWholeRun == Spec => []ResultsAreComplete
<1>1. Inv => ResultsAreComplete
  <2> SUFFICES ASSUME Inv, \E name \in FileNames : OnDisk(name), NEW s \in Sides
               PROVE  /\ Cardinality(MeasuredOf(s)) = controls[s].measured
                      /\ Len(metrics[s]) = controls[s].warmup + controls[s].measured
                      /\ \A i \in DOMAIN metrics[s] : metrics[s][i].status = "succeeded"
                      /\ Len(produced[s]) = controls[s].measured /\ output[s] = produced[s][1]
    BY DEF ResultsAreComplete
  <2>1. Executed /\ TypeOK /\ Discipline /\ Kept
    BY DEF Inv, Progress
  <2>2. Len(metrics[s]) = TotalRounds /\ DOMAIN metrics[s] = 1..TotalRounds
    BY <2>1, Declared DEF Executed, Discipline, Turns, TypeOK
  <2> DEFINE w == controls["baseline"].warmup
             n == controls["baseline"].measured
  <2>3. /\ w \in Nat /\ n \in Nat /\ TotalRounds = w + n
        /\ controls[s].warmup = w /\ controls[s].measured = n
    BY <2>1, Declared DEF Executed, Symmetric, Sides, TotalRounds
  <2>4. \A i \in 1..TotalRounds : (metrics[s][i].phase = "measured") <=> i > w
    <3>1. \A i \in 1..TotalRounds : metrics[s][i].phase = PhaseOf(i)
      BY <2>1, <2>2 DEF Discipline
    <3>2. \A i \in 1..TotalRounds : (PhaseOf(i) = "measured") <=> i > w
      BY <2>3 DEF PhaseOf
    <3> QED BY <3>1, <3>2
  <2> HIDE DEF w, n
  <2>5. MeasuredOf(s) = (w + 1)..(w + n)
    BY <2>2, <2>3, <2>4 DEF MeasuredOf
  <2>6. Cardinality((w + 1)..(w + n)) = n
    <3> DEFINE a == w + 1
               b == w + n
    <3>1. a \in Int /\ b \in Int /\ n = IF a > b THEN 0 ELSE b - a + 1
      BY <2>3
    <3>2. Cardinality(a..b) = IF a > b THEN 0 ELSE b - a + 1
      <4> HIDE DEF a, b
      <4>1. QED
        BY <3>1, FS_Interval
    <3>3. QED
      BY <3>1, <3>2
  <2>7. Len(produced[s]) = n /\ output[s] = produced[s][1]
    <3>1. n > 0
      BY <2>1 DEF Executed, Symmetric, Complete, Sides, n
    <3>2. Len(produced[s]) = IF Len(metrics[s]) > w THEN Len(metrics[s]) - w ELSE 0
      BY <2>1 DEF Executed, Kept, w
    <3>3. Len(produced[s]) = n /\ produced[s] # <<>>
      BY <2>2, <2>3, <3>1, <3>2
    <3> QED BY <2>1, <3>3 DEF Kept
  <2> QED BY <2>1, <2>2, <2>3, <2>5, <2>6, <2>7 DEF Executed, AllSucceeded
<1> QED BY <1>1, Invariant, PTL

-----------------------------------------------------------------------------
(* The balance of the rounds.                                              *)

\* Of two sets in an interval, one cannot outnumber the other by more than one if
\* each of its elements but the last is followed by one of the other.
LEMMA Followed ==
  ASSUME NEW a \in Int, NEW b \in Int, NEW F \in SUBSET (a..b), NEW G \in SUBSET (a..b),
         \A i \in F : i = b \/ i + 1 \in G
  PROVE  Cardinality(F) \in Nat /\ Cardinality(G) \in Nat /\ Cardinality(F) <= Cardinality(G) + 1
<1>1. IsFiniteSet(F) /\ IsFiniteSet(G)
  BY FS_Interval, FS_Subset
<1> DEFINE E == F \ {b}
           next == [i \in E |-> i + 1]
<1>2. next \in Injection(E, G)
  BY DEF Injection, IsInjective
<1>3. Cardinality(E) <= Cardinality(G)
  <2> HIDE DEF E, next
  <2> QED BY <1>1, <1>2, FS_Injection
<1>4. Cardinality(E) = IF b \in F THEN Cardinality(F) - 1 ELSE Cardinality(F)
  BY <1>1, FS_RemoveElement
<1>5. Cardinality(F) \in Nat /\ Cardinality(G) \in Nat
  BY <1>1, FS_CardinalityType
<1> QED BY <1>3, <1>4, <1>5

LEMMA Alternates ==
  ASSUME NEW i \in Nat, NEW s \in Sides, OrderForRound(i)[1] = s
  PROVE  \A t \in Sides \ {s} : OrderForRound(i + 1)[1] = t
<1>1. (i % 2 = 1) <=> ~((i + 1) % 2 = 1)
  OBVIOUS
<1>2. OrderForRound(i)[1] = IF StartsWithBaseline = (i % 2 = 1) THEN "baseline" ELSE "rewrite"
  BY DEF OrderForRound
<1>3. OrderForRound(i + 1)[1] = IF StartsWithBaseline = ((i + 1) % 2 = 1) THEN "baseline" ELSE "rewrite"
  BY DEF OrderForRound
<1>4. StartsWithBaseline \in BOOLEAN
  BY BoundAssumption
<1> QED BY <1>1, <1>2, <1>3, <1>4 DEF Sides

\* The rounds of a phase that a side has started.
Starts(s, p) == {i \in DOMAIN schedule : schedule[i].phase = p /\ schedule[i].order[1] = s}

LEMMA StartsBalanced ==
  ASSUME TypeOK, Discipline, NEW p \in Phases, NEW s \in Sides, NEW t \in Sides, s # t
  PROVE  Cardinality(Starts(s, p)) <= Cardinality(Starts(t, p)) + 1
<1> DEFINE w == controls["baseline"].warmup
           n == Len(schedule)
           a == IF p = "warmup" THEN 1 ELSE w + 1
           b == IF p = "warmup" /\ n > w THEN w ELSE n
<1>1. w \in Nat /\ n \in Nat /\ DOMAIN schedule = 1..n
  BY Declared DEF TypeOK, Sides
<1>2. \A i \in 1..n : schedule[i].phase = PhaseOf(i) /\ schedule[i].order[1] = OrderForRound(i)[1]
  <2>1. \A i \in 1..n : schedule[i] = [phase |-> PhaseOf(i), order |-> OrderForRound(i)]
    BY <1>1 DEF Discipline
  <2>2. ASSUME NEW i \in 1..n
        PROVE  schedule[i].phase = PhaseOf(i) /\ schedule[i].order = OrderForRound(i)
    <3> DEFINE phase == PhaseOf(i)
               order == OrderForRound(i)
               entry == schedule[i]
    <3>1. entry = [phase |-> phase, order |-> order]
      BY <2>1, <2>2
    <3> HIDE DEF phase, order, entry
    <3>2. entry.phase = phase /\ entry.order = order
      BY <3>1
    <3> QED BY <3>2 DEF phase, order, entry
  <2> QED BY <2>2
<1>3. \A i \in 1..n : (PhaseOf(i) = "warmup" <=> i <= w) /\ (PhaseOf(i) = "measured" <=> i > w)
  BY <1>1 DEF PhaseOf
<1> HIDE DEF w, n
<1>4. p = "warmup" \/ p = "measured"
  BY DEF Phases
<1>5. \A i \in 1..n : PhaseOf(i) = p <=> i \in a..b
  BY <1>1, <1>3, <1>4
<1>6. a \in Int /\ b \in Int /\ a >= 1 /\ b <= n
  BY <1>1
<1> HIDE DEF a, b
<1>7. \A r \in Sides : Starts(r, p) = {i \in a..b : OrderForRound(i)[1] = r}
  BY <1>1, <1>2, <1>5, <1>6 DEF Starts
<1>8. ASSUME NEW i \in Starts(s, p)
      PROVE  i = b \/ i + 1 \in Starts(t, p)
  <2>1. i \in a..b /\ OrderForRound(i)[1] = s
    BY <1>7, <1>8
  <2>2. OrderForRound(i + 1)[1] = t
    BY <2>1, <1>6, Alternates
  <2> QED BY <1>6, <1>7, <2>1, <2>2
<1>9. Starts(s, p) \in SUBSET (a..b) /\ Starts(t, p) \in SUBSET (a..b)
  BY <1>7
<1> QED BY <1>6, <1>8, <1>9, Followed

\* orderForRound (run.go) alternates, so at every moment of a run neither side is more
\* than one iteration, or one start of either phase, ahead of the other.
THEOREM RoundsAreBalanced == Spec => []BalancedRounds
<1>1. Inv => BalancedRounds
  <2> SUFFICES ASSUME TypeOK, Discipline PROVE BalancedRounds
    BY DEF Inv
  <2>1. /\ Len(metrics["baseline"]) = Turns("baseline") /\ Len(metrics["rewrite"]) = Turns("rewrite")
        /\ \A s \in Sides : Turns(s) \in {round - 1, round} /\ round \in Nat
    BY DEF Discipline, Turns, Sides
  <2>2. /\ Len(metrics["baseline"]) <= Len(metrics["rewrite"]) + 1
        /\ Len(metrics["rewrite"]) <= Len(metrics["baseline"]) + 1
    BY <2>1 DEF Sides
  <2>3. \A p \in Phases :
          /\ Cardinality(Starts("baseline", p)) <= Cardinality(Starts("rewrite", p)) + 1
          /\ Cardinality(Starts("rewrite", p)) <= Cardinality(Starts("baseline", p)) + 1
    BY StartsBalanced DEF Sides
  <2> QED BY <2>2, <2>3 DEF BalancedRounds, Starts
<1> QED BY <1>1, Invariant, PTL
=============================================================================
