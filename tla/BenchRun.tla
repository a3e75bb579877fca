------------------------------ MODULE BenchRun ------------------------------
(***************************************************************************)
(* One benchmark scenario, internal/bench Run: paired rounds of the legacy *)
(* baseline and the Go rewrite, the fairness evidence gathered from every  *)
(* iteration, the parity comparison, and the results directory that is     *)
(* written file by file.  Run may be started again with the same results   *)
(* directory, after it failed or succeeded (the default name has a         *)
(* resolution of one second); runs do not overlap here.                    *)
(*                                                                         *)
(* The children, the file system, the corpus cache and the host are the    *)
(* environment: each of them may fail wherever the code checks an error.   *)
(* An output is reduced to the fields CompareOutputs knows, a metric to    *)
(* what fairnessFromExecution and summarizeMetrics read of it.             *)
(***************************************************************************)
EXTENDS Naturals, Sequences, FiniteSets

CONSTANTS
  Fields,              \* fields of an ImplementationOutput
  Tracked,             \* those the scenario's normalization rules list; names
                       \* CompareOutputs does not know are skipped
  Values,              \* values of a field
  Scenarios,           \* the declared controls of both sides, per scenario
  Cores,               \* logical cores of the host
  StartsWithBaseline,  \* scenarioStartsWithBaseline: a bit of the id's hash
  None,                \* "no output", "no report", "no writer"
  MaxRuns              \* bound of the model: Run is started that often

Sides == {"baseline", "rewrite"}
Phases == {"warmup", "measured"}
RuntimeControls == {"cache_posture", "concurrency", "max_procs"}

Controls == [warmup : Nat, measured : Nat, posture : {"cold", "warm", "other", ""},
             concurrency : Nat, maxProcs : Nat]
Output == [Fields -> Values]
Metric == [phase : Phases, round : Nat, position : 1..2,
           status : {"succeeded", "failed"}, verified : SUBSET RuntimeControls]

ASSUME TrackedAssumption == Tracked \subseteq Fields
ASSUME NoneAssumption == None \notin Output \cup (1..MaxRuns)
ASSUME ScenarioAssumption == Scenarios \subseteq [Sides -> Controls]
ASSUME BoundAssumption ==
  Cores \in Nat /\ MaxRuns \in Nat \ {0} /\ StartsWithBaseline \in BOOLEAN

\* The files of the results directory, in the order Run writes them.
ResultFiles == <<"fairness", "manifest",
                 "metrics/baseline", "metrics/rewrite",
                 "summary/baseline", "workload/baseline",
                 "summary/rewrite", "workload/rewrite",
                 "parity", "aggregate">>
FileNames == {ResultFiles[i] : i \in DOMAIN ResultFiles}

VARIABLES
  controls,   \* the scenario: what each side declares
  taskset,    \* whether the host has the taskset program
  run,        \* number of the Run under way
  pc,         \* where it is
  round,      \* the round under way
  position,   \* the turn within the round
  metrics,    \* executionResult.metrics of each side
  output,     \* executionResult.output of each side
  schedule,   \* the rounds started so far
  claimable,  \* the fairness report's verdict
  parity,     \* the parity report, or None
  written,    \* how many result files this Run has written
  directory,  \* the results directory exists
  files,      \* the Run that wrote each file of it, or None
  produced    \* history: every measured output of this Run

execution == <<round, position, metrics, output, schedule, produced>>
reports   == <<claimable, parity>>
disk      == <<directory, files>>
vars == <<controls, taskset, run, pc, execution, reports, written, disk>>

PCs == {"prepare", "stat", "layout", "round", "evidence", "write", "verdict",
        "publish", "done", "failed"}

Round == [phase : Phases, order : {<<"baseline", "rewrite">>, <<"rewrite", "baseline">>}]

TypeOK ==
  /\ controls \in Scenarios
  /\ taskset \in BOOLEAN
  /\ run \in 1..MaxRuns
  /\ pc \in PCs
  /\ round \in Nat
  /\ position \in 1..2
  /\ metrics \in [Sides -> Seq(Metric)]
  /\ output \in [Sides -> Output \cup {None}]
  /\ schedule \in Seq(Round)
  /\ claimable \in BOOLEAN
  /\ parity \in [passed : BOOLEAN, claims : BOOLEAN] \cup {None}
  /\ written \in 0..Len(ResultFiles)
  /\ directory \in BOOLEAN
  /\ files \in [FileNames -> 1..MaxRuns \cup {None}]
  /\ produced \in [Sides -> Seq(Output)]

Init ==
  /\ controls \in Scenarios
  /\ taskset \in BOOLEAN
  /\ run = 1
  /\ pc = "prepare"
  /\ round = 1
  /\ position = 1
  /\ metrics = [s \in Sides |-> <<>>]
  /\ output = [s \in Sides |-> None]
  /\ schedule = <<>>
  /\ produced = [s \in Sides |-> <<>>]
  /\ claimable = FALSE
  /\ parity = None
  /\ written = 0
  /\ directory = FALSE
  /\ files = [f \in FileNames |-> None]

Goto(from, to) == pc = from /\ pc' = to

-----------------------------------------------------------------------------
(***************************************************************************)
(* prepareScenario: the declared controls must be complete and the same on *)
(* both sides (ValidateFairness), and every prerequisite available.        *)
(***************************************************************************)
Complete(c) == c.measured > 0 /\ c.posture # "" /\ c.concurrency > 0 /\ c.maxProcs > 0

Symmetric == /\ \A s \in Sides : Complete(controls[s])
             /\ controls["baseline"] = controls["rewrite"]

Prepare ==
  /\ \/ Symmetric /\ Goto("prepare", "stat")
     \/ Goto("prepare", "failed")
  /\ UNCHANGED <<controls, taskset, run, execution, reports, written, disk>>

\* Mutated form of Available: the results directory not looked for.
AlwaysAvailable == TRUE

\* A results directory that exists is refused.
Available == ~directory

Stat ==
  /\ Goto("stat", IF Available THEN "layout" ELSE "failed")
  /\ UNCHANGED <<controls, taskset, run, execution, reports, written, disk>>

\* createResultsLayout: the directory itself comes first, so it may be left
\* behind when one of its subdirectories cannot be made.
CreateLayout ==
  /\ Goto("layout", "round") \/ Goto("layout", "failed")
  /\ directory' \in {TRUE, directory}
  /\ pc' = "round" => directory'
  /\ UNCHANGED <<controls, taskset, run, execution, reports, written, files>>

-----------------------------------------------------------------------------
(***************************************************************************)
(* runPreparedScenario: each round runs both sides once, one after the     *)
(* other, and the side that starts alternates from round to round.         *)
(***************************************************************************)
\* Mutated form of OrderForRound: the same side first in every round.
FixedOrder(r) == <<"baseline", "rewrite">>

OrderForRound(r) ==
  IF StartsWithBaseline = (r % 2 = 1)
    THEN <<"baseline", "rewrite">>
    ELSE <<"rewrite", "baseline">>

TotalRounds == controls["baseline"].warmup + controls["baseline"].measured
PhaseOf(r) == IF r <= controls["baseline"].warmup THEN "warmup" ELSE "measured"

(***************************************************************************)
(* What one iteration proves: the cache posture when it could be applied,  *)
(* the concurrency when 1 is declared, max_procs when taskset can enforce  *)
(* it on this host.                                                        *)
(***************************************************************************)
CacheSupported(c) == c.posture \in {"cold", "warm"}
Proved(c, cached) ==
  {control \in RuntimeControls :
     CASE control = "cache_posture" -> CacheSupported(c) /\ cached
       [] control = "concurrency"   -> c.concurrency = 1
       [] control = "max_procs"     -> c.maxProcs <= Cores /\ taskset}

\* Mutated form of KeepsOutput: the phase not asked.
KeepsFirst(side, phase) == output[side] = None

\* Only the first measured output of a side is kept for the comparison.
KeepsOutput(side, phase) == phase = "measured" /\ output[side] = None

\* Mutated form of AfterTurn: the round not left after its second turn.
NoNextRound == [round |-> round, position |-> position + 1]

AfterTurn == IF position = 1 THEN [round |-> round, position |-> 2]
                             ELSE [round |-> round + 1, position |-> 1]

Current == OrderForRound(round)[position]

Record(side, status, cached) ==
  metrics' = [metrics EXCEPT ![side] = Append(@,
    [phase |-> PhaseOf(round), round |-> round, position |-> position,
     status |-> status, verified |-> Proved(controls[side], cached)])]

NoteRound ==
  schedule' = IF position = 1
                THEN Append(schedule, [phase |-> PhaseOf(round),
                                       order |-> OrderForRound(round)])
                ELSE schedule

Iterate ==
  /\ Goto("round", "round")
  /\ round <= TotalRounds
  /\ NoteRound
  /\ \E cached \in BOOLEAN, o \in Output :
       /\ Record(Current, "succeeded", cached)
       /\ output' = [output EXCEPT ![Current] =
                       IF KeepsOutput(Current, PhaseOf(round)) THEN o ELSE @]
       /\ produced' = [produced EXCEPT ![Current] =
                         IF PhaseOf(round) = "measured" THEN Append(@, o) ELSE @]
  /\ round' = AfterTurn.round
  /\ position' = AfterTurn.position
  /\ UNCHANGED <<controls, taskset, run, reports, written, disk>>

OnFailure == "failed"

\* A child that exits with an error or leaves no readable output, or a workspace
\* that cannot be made, ends the run.
IterationFails ==
  /\ Goto("round", OnFailure)
  /\ round <= TotalRounds
  /\ NoteRound
  /\ \E cached \in BOOLEAN : Record(Current, "failed", cached)
  /\ round' = AfterTurn.round
  /\ position' = AfterTurn.position
  /\ UNCHANGED <<controls, taskset, run, output, produced, reports, written, disk>>

(***************************************************************************)
(* fairnessFromExecution: every required control has to be proved by the   *)
(* metrics of both sides.                                                  *)
(***************************************************************************)
Count(side, phase) ==
  Cardinality({i \in DOMAIN metrics[side] : metrics[side][i].phase = phase})

\* Mutated form of AlwaysProved: one iteration's evidence taken for all.
OnceProved(side, control) ==
  \E i \in DOMAIN metrics[side] : control \in metrics[side][i].verified

AlwaysProved(side, control) ==
  /\ metrics[side] # <<>>
  /\ \A i \in DOMAIN metrics[side] : control \in metrics[side][i].verified

Claimable ==
  \A s \in Sides :
    /\ Count(s, "warmup") = controls[s].warmup
    /\ Count(s, "measured") = controls[s].measured
    /\ \A control \in RuntimeControls : AlwaysProved(s, control)

\* The rounds are over: both sides must have an output, and the manifest needs
\* the hashes of files that may be gone.
FinishRounds ==
  /\ round > TotalRounds
  /\ \/ /\ \A s \in Sides : output[s] # None
        /\ Goto("round", "evidence")
        /\ claimable' = Claimable
     \/ Goto("round", "failed") /\ UNCHANGED claimable
  /\ UNCHANGED <<controls, taskset, run, execution, parity, written, disk>>

BuildManifest ==
  /\ Goto("evidence", "write") \/ Goto("evidence", "failed")
  /\ UNCHANGED <<controls, taskset, run, execution, reports, written, disk>>

-----------------------------------------------------------------------------
(***************************************************************************)
(* CompareOutputs compares the two kept outputs on the tracked fields, and *)
(* the files are written in a fixed order; parity is compared when its own *)
(* file is due.                                                            *)
(***************************************************************************)
Agree(a, b) == \A f \in Tracked : a[f] = b[f]

Compared ==
  LET passed == Agree(output["baseline"], output["rewrite"])
  IN  [passed |-> passed, claims |-> passed /\ claimable]

NextFile == ResultFiles[written + 1]

WriteFile ==
  /\ pc = "write"
  /\ parity' = IF NextFile = "parity" THEN Compared ELSE parity
  /\ \/ /\ files' = [files EXCEPT ![NextFile] = run]
        /\ written' = written + 1
        /\ pc' = IF written' = Len(ResultFiles) THEN "verdict" ELSE "write"
     \/ pc' = "failed" /\ UNCHANGED <<files, written>>
  /\ UNCHANGED <<controls, taskset, run, execution, claimable, directory>>

\* Mutated form of ParityHolds: the verdict not looked at.
NoVerdict == TRUE

ParityHolds == parity.passed

Verdict ==
  /\ Goto("verdict", IF ParityHolds THEN "publish" ELSE "failed")
  /\ UNCHANGED <<controls, taskset, run, execution, reports, written, disk>>

\* publishEvidenceSet, the subject of EvidencePublication.
Publish ==
  /\ Goto("publish", "done") \/ Goto("publish", "failed")
  /\ UNCHANGED <<controls, taskset, run, execution, reports, written, disk>>

\* Run is called again: all that is left of the earlier ones is the directory.
RunAgain ==
  /\ pc \in {"done", "failed"}
  /\ run < MaxRuns
  /\ run' = run + 1
  /\ pc' = "prepare"
  /\ round' = 1
  /\ position' = 1
  /\ metrics' = [s \in Sides |-> <<>>]
  /\ output' = [s \in Sides |-> None]
  /\ schedule' = <<>>
  /\ produced' = [s \in Sides |-> <<>>]
  /\ claimable' = FALSE
  /\ parity' = None
  /\ written' = 0
  /\ UNCHANGED <<controls, taskset, disk>>

Next ==
  \/ Prepare \/ Stat \/ CreateLayout
  \/ Iterate \/ IterationFails \/ FinishRounds
  \/ BuildManifest \/ WriteFile \/ Verdict \/ Publish
  \/ RunAgain

Spec == Init /\ [][Next]_vars

-----------------------------------------------------------------------------
OnDisk(name) == files[name] = run
MeasuredOf(s) == {i \in DOMAIN metrics[s] : metrics[s][i].phase = "measured"}

\* A parity.json that allows performance claims was earned by the whole run: both
\* sides ran every declared iteration to success under the same declared controls,
\* each with the cache, concurrency and max_procs posture proved, and the outputs
\* compared agree on every tracked field.
ClaimsEarned ==
  OnDisk("parity") /\ parity.claims =>
    /\ controls["baseline"] = controls["rewrite"]
    /\ \A s \in Sides :
         /\ Len(metrics[s]) = controls[s].warmup + controls[s].measured
         /\ \A i \in DOMAIN metrics[s] :
              /\ metrics[s][i].status = "succeeded"
              /\ metrics[s][i].verified = RuntimeControls
    /\ \A f \in Tracked : output["baseline"][f] = output["rewrite"][f]

\* The pairing is fair at every moment: neither side is ever more than one
\* iteration ahead of the other, and within the warm-up as within the measured
\* rounds no side has started more than one round more than the other.
BalancedRounds ==
  LET starts(s, p) == Cardinality({i \in DOMAIN schedule :
                                     schedule[i].phase = p /\ schedule[i].order[1] = s})
  IN  /\ Len(metrics["baseline"]) <= Len(metrics["rewrite"]) + 1
      /\ Len(metrics["rewrite"]) <= Len(metrics["baseline"]) + 1
      /\ \A p \in Phases :
           /\ starts("baseline", p) <= starts("rewrite", p) + 1
           /\ starts("rewrite", p) <= starts("baseline", p) + 1

\* Results are only written for a complete execution: once a file of this run is
\* in the directory, both sides have exactly the declared warm-up and measured
\* iterations, none of them failed, every measured one left its output, and the
\* output that is compared is the first of these, never a warm-up's.
ResultsAreComplete ==
  (\E name \in FileNames : OnDisk(name)) =>
    \A s \in Sides :
      /\ Cardinality(MeasuredOf(s)) = controls[s].measured
      /\ Len(metrics[s]) = controls[s].warmup + controls[s].measured
      /\ \A i \in DOMAIN metrics[s] : metrics[s][i].status = "succeeded"
      /\ Len(produced[s]) = controls[s].measured
      /\ output[s] = produced[s][1]

\* The files of a results directory are all of one run, whatever runs failed half
\* way or were started again with that directory.
ResultsOfOneRun ==
  \A f, g \in FileNames : files[f] # None /\ files[g] # None => files[f] = files[g]

\* Nothing is published without parity: the publication starts only with the whole
\* results directory written by this run and the outputs equal on tracked fields.
PublishedWithParity ==
  pc \in {"publish", "done"} =>
    /\ \A name \in FileNames : OnDisk(name)
    /\ Agree(output["baseline"], output["rewrite"])

\* Benchmark-Methodology.md: "If any tracked field drifts, the run is not
\* claimable."
DriftBlocksClaims ==
  OnDisk("parity") /\ parity.claims =>
    \A s, t \in Sides : \A i \in DOMAIN produced[s], j \in DOMAIN produced[t] :
      Agree(produced[s][i], produced[t][j])
=============================================================================
