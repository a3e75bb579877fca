------------------------- MODULE EvidencePublication -------------------------
(***************************************************************************)
(* The publication of evidence bundles, internal/bench publishEvidenceSet: *)
(* successive benchmark runs write their bundle member by member into a    *)
(* directory that is never cleared, have it validated as a whole, and      *)
(* enter it in the index of the evidence set.  Directories and index       *)
(* survive from run to run; any operation on them may fail, and a write    *)
(* that fails may leave a torn file behind (os.WriteFile truncates first). *)
(*                                                                         *)
(* A member is reduced to the run that wrote it, whether it was written to *)
(* its end, and whether scanForbiddenMarkers finds something in it.        *)
(* Publications follow one another: two overlapping ones are not modelled. *)
(***************************************************************************)
EXTENDS Naturals, Sequences

CONSTANTS
  Scenarios,    \* scenario identifiers, one bundle directory each
  CoreMembers,  \* the members every bundle has, in the order of writing
  None,         \* "no file"
  Torn,         \* an index.json that does not parse
  Features,     \* the optional parts that runs ask for, a subset of Optional
  MaxRuns       \* bound of the model: publications started

Redaction   == <<"redaction/report.json", "redaction/scan.json">>
Integration == <<"service-integration/cross-check.json">>
Validation  == "bundle-validation.json"
Optional    == {"redaction", "service-integration"}

InSeq(seq) == {seq[i] : i \in DOMAIN seq}
Members == InSeq(CoreMembers) \cup InSeq(Redaction) \cup InSeq(Integration) \cup {Validation}
Content == [run : 1..MaxRuns, whole : BOOLEAN, marked : BOOLEAN]
Entry   == [scenario : Scenarios, run : 1..MaxRuns]

ASSUME MemberAssumption ==
  /\ CoreMembers \in Seq(STRING) /\ CoreMembers # <<>>
  /\ InSeq(CoreMembers) \cap (InSeq(Redaction) \cup InSeq(Integration) \cup {Validation}) = {}
ASSUME NoneAssumption == None \notin Content /\ \A i \in SUBSET Entry : i # Torn
ASSUME FeatureAssumption == Features \subseteq Optional
ASSUME BoundAssumption == MaxRuns \in Nat

VARIABLES
  bundle,     \* the files of each bundle directory
  dirs,       \* the optional subdirectories it has
  index,      \* index.json: a set of entries, or torn
  run,        \* number of the publication under way, or of the last one
  scenario,   \* what it publishes
  wanted,     \* its scenario names a redaction report, a service URL was given
  pc,         \* where it is
  next,       \* the next member of its plan
  passed,     \* the verdict of validateBundleForPublication
  published,  \* history: the last run published with success, per scenario
  flawed      \* history: scenarios of which a publication failed since the last success

disk    == <<bundle, dirs, index>>
options == <<run, scenario, wanted>>
history == <<published, flawed>>
vars == <<disk, options, pc, next, passed, history>>

PCs == {"idle", "member", "validate", "save", "decide", "index",
        "published", "failed"}

\* The members this publication writes, in order.
Plan == CoreMembers \o (IF "redaction" \in wanted THEN Redaction ELSE <<>>)
                    \o (IF "service-integration" \in wanted THEN Integration ELSE <<>>)

TypeOK ==
  /\ bundle \in [Scenarios -> [Members -> Content \cup {None}]]
  /\ dirs \in [Scenarios -> SUBSET Optional]
  /\ index = Torn \/ index \subseteq Entry
  /\ run \in 0..MaxRuns
  /\ scenario \in Scenarios
  /\ wanted \subseteq Features
  /\ pc \in PCs
  /\ next \in 1..Len(Plan) + 1
  /\ passed \in BOOLEAN
  /\ published \in [Scenarios -> 0..MaxRuns]
  /\ flawed \in SUBSET Scenarios

Init ==
  /\ bundle = [s \in Scenarios |-> [m \in Members |-> None]]
  /\ dirs = [s \in Scenarios |-> {}]
  /\ index = {}
  /\ run = 0
  /\ scenario \in Scenarios
  /\ wanted = {}
  /\ pc = "idle"
  /\ next = 1
  /\ passed = FALSE
  /\ published = [s \in Scenarios |-> 0]
  /\ flawed = {}

-----------------------------------------------------------------------------
Member == Plan[next]
Files == bundle[scenario]

Goto(from, to) == pc = from /\ pc' = to

\* publishEvidenceSet returns an error: everything written so far stays.
Fails(from) ==
  /\ Goto(from, "failed")
  /\ flawed' = flawed \cup {scenario}
  /\ UNCHANGED published

\* Run reached the publication of a scenario.
Begin ==
  /\ pc \in {"idle", "published", "failed"}
  /\ run < MaxRuns
  /\ run' = run + 1
  /\ scenario' \in Scenarios
  /\ wanted' \in SUBSET Features
  /\ pc' = "member"
  /\ next' = 1
  /\ passed' = FALSE
  /\ UNCHANGED <<disk, history>>

DirOf(member) == IF member \in InSeq(Redaction) THEN {"redaction"}
                 ELSE IF member \in InSeq(Integration) THEN {"service-integration"}
                 ELSE {}

\* The marker, when there is one, comes from what the run is given: paths that
\* sanitizePublishablePath does not know, the redaction report, the corpus.
Put(member, whole, marked) ==
  bundle' = [bundle EXCEPT ![scenario][member] =
               [run |-> run, whole |-> whole, marked |-> marked]]

\* Mutated form of NextMember: one member of the plan skipped.
SkipMember == next + 2

NextMember == next + 1

(***************************************************************************)
(* Before an optional member is written its directory is made; the report  *)
(* is then read, the corpus scanned, or the service asked (crosscheck.go), *)
(* each of which may fail, as the write may.  A cross-check that found     *)
(* mismatches is written like any other.                                   *)
(***************************************************************************)
WriteMember ==
  /\ next <= Len(Plan)
  /\ dirs' = [dirs EXCEPT ![scenario] = @ \cup DirOf(Member)]
  /\ \/ /\ Goto("member", "member")
        /\ \E marked \in BOOLEAN : Put(Member, TRUE, marked)
        /\ next' = NextMember
        /\ UNCHANGED history
     \/ /\ Fails("member")
        /\ \E marked \in BOOLEAN : Put(Member, FALSE, marked)
        /\ UNCHANGED next
     \/ Fails("member") /\ UNCHANGED <<bundle, next>>
  /\ UNCHANGED <<index, options, passed>>

\* The directory of a member could not be made, or the run was stopped.
Abandon ==
  /\ pc \notin {"idle", "published", "failed"}
  /\ Fails(pc)
  /\ UNCHANGED <<disk, options, next, passed>>

WroteAll ==
  /\ Goto("member", "validate")
  /\ next > Len(Plan)
  /\ UNCHANGED <<disk, options, next, passed, history>>

(***************************************************************************)
(* validateBundleForPublication looks at the whole directory: a member is  *)
(* required when its subdirectory exists, whoever made it, and every file  *)
(* is scanned, whoever wrote it, the previous validation included.         *)
(***************************************************************************)
\* Mutated form of Required: the redaction files always required.
RequiredWithRedaction(s) == InSeq(CoreMembers) \cup InSeq(Redaction)

Parts(f) == IF f = "redaction" THEN InSeq(Redaction) ELSE InSeq(Integration)

Required(s) == InSeq(CoreMembers) \cup UNION {Parts(f) : f \in dirs[s]}

Missing(s) == {m \in Required(s) : bundle[s][m] = None}

\* Mutated form of Matches: only what this run wrote is scanned.
MatchesOfRun(s) ==
  {m \in Members : bundle[s][m] # None /\ bundle[s][m].run = run /\ bundle[s][m].marked}

Matches(s) == {m \in Members : bundle[s][m] # None /\ bundle[s][m].marked}

Validate ==
  /\ Goto("validate", "save")
  /\ passed' = (Missing(scenario) = {} /\ Matches(scenario) = {})
  /\ UNCHANGED <<disk, options, next, history>>

\* The report quotes the snippets it found, so a later scan finds them again
\* unless the JSON encoder escaped them.
SaveValidation ==
  /\ \E marked \in IF Matches(scenario) = {} THEN {FALSE} ELSE BOOLEAN :
       \/ Goto("save", "decide") /\ Put(Validation, TRUE, marked) /\ UNCHANGED history
       \/ Fails("save") /\ Put(Validation, FALSE, marked)
  /\ UNCHANGED <<dirs, index, options, next, passed>>

MayIndex == passed

Decide ==
  /\ \/ MayIndex /\ Goto("decide", "index") /\ UNCHANGED history
     \/ ~MayIndex /\ Fails("decide")
  /\ UNCHANGED <<disk, options, next, passed>>

(***************************************************************************)
(* updateEvidenceIndex: read the index, replace or append the entry, write *)
(* the whole file again.  The order of the entries is layout.              *)
(***************************************************************************)
\* Mutated form of Entered: the entry appended without looking for an old one.
Appended(entries, entry) == entries \cup {entry}

Entered(entries, entry) == {e \in entries : e.scenario # entry.scenario} \cup {entry}

UpdateIndex ==
  /\ \/ /\ index # Torn
        /\ Goto("index", "published")
        /\ index' = Entered(index, [scenario |-> scenario, run |-> run])
        /\ published' = [published EXCEPT ![scenario] = run]
        /\ flawed' = flawed \ {scenario}
     \/ /\ Fails("index")
        /\ index' = Torn
  /\ UNCHANGED <<bundle, dirs, options, next, passed>>

Next ==
  \/ Begin \/ WriteMember \/ WroteAll \/ Abandon
  \/ Validate \/ SaveValidation \/ Decide \/ UpdateIndex

Spec == Init /\ [][Next]_vars

-----------------------------------------------------------------------------
\* A publication that reports success left a bundle that is complete and its own:
\* every member it should write is there, whole and from this very run, whatever
\* earlier runs left in the directory, the validation is this run's, and no file of
\* the directory, new or old, has a forbidden marker.
PublishedIsCurrent ==
  pc = "published" =>
    /\ \A m \in InSeq(Plan) \cup {Validation} :
         Files[m] # None /\ Files[m].run = run /\ Files[m].whole
    /\ \A m \in Members : Files[m] # None => ~Files[m].marked

EntriesArePublished ==
  index # Torn =>
    index = {[scenario |-> s, run |-> published[s]] :
               s \in {t \in Scenarios : published[t] # 0}}

\* A run after this one has written into the directory of a scenario.
Overwritten(s, since) == \E m \in Members : bundle[s][m] # None /\ bundle[s][m].run > since

EntriesVouch ==
  index # Torn =>
    \A entry \in index :
      LET s == entry.scenario IN
      Overwritten(s, entry.run) \/
        /\ \A m \in InSeq(CoreMembers) \cup {Validation} :
             bundle[s][m] # None /\ bundle[s][m].run = entry.run /\ bundle[s][m].whole
        /\ Matches(s) = {}

\* The index names, for every scenario, the last run that was published with
\* success, once, and nothing else: a publication that fails leaves it as it was or
\* unreadable, and an unreadable index is never replaced by one that lost entries.
\* What it names is there: however many publications of this and other scenarios have
\* failed or succeeded since, the bundle of an entry is whole, of that run and free of
\* markers, unless a later run has written into this very directory.
IndexTracksPublished == EntriesArePublished /\ EntriesVouch

\* A bundle is only rejected for a marker in what this run wrote, or for what a run
\* that failed since the scenario's last success has left (evidence.go:119, 138): a file
\* with a marker that this run does not write, its saved validation among them, or an
\* optional directory that this run does not want and that lacks its members.  A
\* success leaves nothing of the kind, whatever failed before it.
RejectionExplained ==
  pc = "save" /\ ~passed =>
    \/ \E m \in InSeq(Plan) : Files[m].marked
    \/ /\ scenario \in flawed
       /\ \/ \E m \in Matches(scenario) \ InSeq(Plan) : Files[m].run > published[scenario]
          \/ \E f \in dirs[scenario] \ wanted : \E m \in Parts(f) : Files[m] = None

-----------------------------------------------------------------------------
\* types.go: "CrossCheckReport records same-run service/report/benchmark parity for
\* one scenario": the cross-check of a published bundle is of the published run.
CrossCheckIsSameRun ==
  pc = "published" =>
    \A m \in InSeq(Integration) : Files[m] # None => Files[m].run = run
=============================================================================
