----------------------------- MODULE CrossCheck -----------------------------
(***************************************************************************)
(* The benchmark's cross-check against a live service: submit the corpus,  *)
(* poll for its summary, fetch the report page, compare all three.  It is  *)
(* composed with the serving process, which may be stopped, crash and      *)
(* start again under it, with the validation of submissions, and with the  *)
(* ledger AnalysisService implements in place of its tables and workers.   *)
(* A process that ends loses its ledger.                                   *)
(***************************************************************************)
EXTENDS SubmissionForm, ServerProcess, FiniteSets

CONSTANTS
  JobIDs,      \* identifiers, each given out once
  None,        \* no key, no job, no output
  QueueLimit,  \* PARSERGO_QUEUE_LIMIT
  Workers,     \* number of workers
  Analysis,    \* what the engine makes of an input, or Broken
  Broken,      \* an input the engine fails on
  Trimmed,     \* a path after TrimSpace
  RowLimit,    \* visibleTopRequestRowLimit
  Overhead,    \* bytes of a form beside its file
  Situations,  \* pairs of the benchmarked and the submitted input
  Forms,       \* submissions whose verdict is checked
  OtherForms   \* those that other clients send

ASSUME CrossCheckAssumption ==
  /\ None \notin JobIDs
  /\ QueueLimit \in Nat \ {0} /\ Workers \in Nat \ {0} /\ RowLimit \in Nat \ {0}
  /\ Overhead \in Nat
  /\ Situations \subseteq Inputs \X Inputs
  /\ Forms \subseteq Requests /\ OtherForms \subseteq Requests
  /\ \A pair \in Situations : Analysis[pair[1]] # Broken
ASSUME AnalysisAssumption ==
  \A input \in Inputs :
    \/ Analysis[input] = Broken
    \/ Analysis[input] \in
         [total : Nat, rate : Nat, lines : Nat, matched : Nat, filtered : Nat,
          rows : Seq([method : STRING, path : STRING, count : Nat])]

VARIABLES
  phase, owner,  \* the ledger of the process
  pc,            \* where the check is
  benchmarked,   \* the input the benchmark ran on
  submitted,     \* the input read from scenario.Corpus.Path
  jobID,         \* id of the accepted job
  late,          \* pollServiceSummary's deadline has passed
  reply,         \* answer on its way to the check
  summary,       \* the decoded summary
  report,        \* the cross-check report
  cause          \* why there is none

ledgerVars == <<phase, owner>>
checkVars  == <<pc, benchmarked, submitted, jobID, late, reply, summary, report, cause>>
vars       == <<serverVars, call, ledgerVars, checkVars>>

Outcome  == [input \in Inputs |-> IF Analysis[input] = Broken THEN "broken" ELSE "ok"]
Capacity == QueueLimit + Workers

Ledger == INSTANCE AnalysisLedger WITH Keys <- {}, Payloads <- Inputs

In(state) == {id \in JobIDs : phase[id] = state}
Known(id) == phase[id] \notin {"none", "lost"}

-----------------------------------------------------------------------------
(* The service's answers.                                                  *)

NoReply == [status |-> 0, job |-> None, state |-> "", output |-> None]

\* Mutated form of Shown: a job reads succeeded once its engine has been started.
ShownEarly(id) == IF phase[id] = "running" THEN "succeeded" ELSE phase[id]

\* The state writeJobStatus encodes.
Shown(id) == phase[id]

Status(code)       == [NoReply EXCEPT !.status = code]
Accepted(id)       == [NoReply EXCEPT !.status = 202, !.job = id]
StateReply(id)     == [NoReply EXCEPT !.status = 200, !.job = id, !.state = Shown(id)]
Output(id, output) == [NoReply EXCEPT !.status = 200, !.job = id, !.output = output]

\* Mutated form of SummaryOf: the workspace of the job started last.
LatestSummary(id) ==
  Analysis[owner[CHOOSE i \in JobIDs : phase[i] = "succeeded" /\ (In("succeeded") = {id} \/ i # id)].payload]

SummaryOf(id) == Analysis[owner[id].payload]

\* The form submitScenarioToService writes.
CorpusForm(input) ==
  [contentType |-> "multipart", boundary |-> TRUE, closed |-> TRUE, wellFormed |-> FALSE,
   length |-> Size[input] + Overhead,
   parts |-> <<[name |-> "file", filename |-> "safe", input |-> input, torn |-> FALSE],
               [name |-> "format", text |-> "supported", torn |-> FALSE],
               [name |-> "profile", text |-> "supported", torn |-> FALSE]>>]

\* What the service makes of them.
CorpusRead == [input \in Inputs |-> Submit(CorpusForm(input))]
OthersRead == {Submit(form).input : form \in {f \in OtherForms : Submit(f).verdict = "ok"}}

\* The channel is full only if as many jobs wait.
QueueMayBeFull == Cardinality(In("queued")) >= QueueLimit

HandleSubmit ==
  LET read == CorpusRead[submitted] IN
  \/ /\ ~ready
     /\ reply' = Status(503)
     /\ UNCHANGED ledgerVars
  \/ /\ ready /\ read.verdict # "ok"
     /\ reply' = Status(422)
     /\ UNCHANGED ledgerVars
  \/ /\ ready /\ read.verdict = "ok" /\ QueueMayBeFull
     /\ reply' = Status(429)
     /\ UNCHANGED ledgerVars
  \/ /\ ready /\ read.verdict = "ok"
     /\ \E id \in JobIDs : Ledger!Accept(id, None, read.input) /\ reply' = Accepted(id)

HandleStatus(id) ==
  /\ reply' = CASE ~ready                              -> Status(503)
                [] ready /\ ~Known(id)                 -> Status(404)
                [] ready /\ phase[id] = "expired"      -> Status(410)
                [] OTHER                               -> StateReply(id)
  /\ UNCHANGED ledgerVars

\* A job that expires between the two reads of the handler is not found.
Gone == {Status(404), Status(410)}

HandleSummary(id) ==
  /\ reply' \in CASE ~ready                                       -> {Status(503)}
                  [] ready /\ ~Known(id)                          -> {Status(404)}
                  [] ready /\ phase[id] = "expired"               -> Gone
                  [] ready /\ phase[id] = "succeeded"             -> {Output(id, SummaryOf(id))}
                  [] OTHER                                        -> {Status(409)}
  /\ UNCHANGED ledgerVars

\* What parseVisibleReport reads back from the page: the rate as printed, the
\* rows up to the limit, their paths trimmed.
RoundTo2(thousandths) == (thousandths + 5) \div 10

ReadBack(rows) == [i \in DOMAIN rows |-> [rows[i] EXCEPT !.path = Trimmed[@]]]

\* limitRankedRequests.
Limited(rows) == IF Len(rows) <= RowLimit THEN rows ELSE SubSeq(rows, 1, RowLimit)

Visible(output) ==
  [output EXCEPT !.rate = 10 * RoundTo2(@), !.rows = ReadBack(Limited(@))]

\* The pages do not ask for readiness.
HandlePage(id) ==
  /\ reply' \in CASE ~Known(id)                                   -> {Status(404)}
                  [] Known(id) /\ phase[id] = "expired"           -> Gone
                  [] Known(id) /\ phase[id] = "succeeded"         -> {Output(id, Visible(SummaryOf(id)))}
                  [] OTHER                                        -> {Status(409)}
  /\ UNCHANGED ledgerVars

\* The handler of the open request, up to its answer.
Handle ==
  /\ call = "open" /\ call' = "answered"
  /\ \/ pc = "submit" /\ HandleSubmit
     \/ pc = "status" /\ HandleStatus(jobID)
     \/ pc = "summary" /\ HandleSummary(jobID)
     \/ pc = "page" /\ HandlePage(jobID)
  /\ UNCHANGED <<serverVars, pc, benchmarked, submitted, jobID, late, summary, report, cause>>

-----------------------------------------------------------------------------
(* The rest of the service.                                                *)

\* One identifier is kept for the check.
OtherSubmits ==
  /\ stage = "serving" /\ ready
  /\ Cardinality(In("none")) > 1
  /\ \E input \in OthersRead :
       Ledger!Accept(CHOOSE id \in JobIDs : phase[id] = "none", None, input)
  /\ UNCHANGED <<serverVars, call, checkVars>>

Begin(id) ==
  /\ Up /\ Cardinality(In("running")) < Workers
  /\ Ledger!Begin(id)
  /\ UNCHANGED <<serverVars, call, checkVars>>

Finish(id) ==
  /\ Up
  /\ Ledger!Finish(id)
  /\ UNCHANGED <<serverVars, call, checkVars>>

\* A sweep after the retention, which may be shorter than the poll.
Expire(id) ==
  /\ Up
  /\ Ledger!Expire(id)
  /\ UNCHANGED <<serverVars, call, checkVars>>

ProcessRuns == Running /\ UNCHANGED <<ledgerVars, checkVars>>

LoseLedger == phase' = [id \in JobIDs |-> IF phase[id] = "none" THEN "none" ELSE "lost"]

ProcessEnds ==
  /\ Ending
  /\ LoseLedger
  /\ UNCHANGED <<owner, checkVars>>

-----------------------------------------------------------------------------
(* The check.                                                              *)

Stopped == {"report", "error"}

\* Mutated form of FailWith: the error is dropped on the way up.
FailSilently(why) ==
  /\ pc' = "error" /\ UNCHANGED cause
  /\ UNCHANGED <<benchmarked, submitted, jobID, late, summary, report>>

\* The error return of runServiceCrossCheck.
FailWith(why) ==
  /\ pc' = "error" /\ cause' = why
  /\ UNCHANGED <<benchmarked, submitted, jobID, late, summary, report>>

\* os.ReadFile in the working directory; the benchmark read the prepared path.
ReadCorpus ==
  /\ pc = "idle"
  /\ \/ \E pair \in Situations :
          /\ benchmarked' = pair[1] /\ submitted' = pair[2]
          /\ pc' = "submit" /\ UNCHANGED cause
     \/ /\ pc' = "error" /\ cause' = "corpus"
        /\ UNCHANGED <<benchmarked, submitted>>
  /\ UNCHANGED <<serverVars, call, ledgerVars, jobID, late, reply, summary, report>>

\* Mutated form of OutOfTime: the loop has no deadline.
Unlimited == FALSE

\* for time.Now().Before(deadline)
OutOfTime == late

Send ==
  /\ pc \in {"submit", "status", "summary", "page"} /\ call = "none"
  /\ pc = "status" => ~OutOfTime
  /\ call' = IF Listening THEN "sent" ELSE "failed"
  /\ UNCHANGED <<serverVars, ledgerVars, checkVars>>

\* The client's error: refused, reset, or cut off.
CallFails ==
  /\ call = "failed" /\ call' = "none"
  /\ FailWith("transport")
  /\ UNCHANGED <<serverVars, ledgerVars, reply>>

DeadlinePasses ==
  /\ pc = "status" /\ ~late
  /\ late' = TRUE
  /\ UNCHANGED <<serverVars, call, ledgerVars, pc, benchmarked, submitted, jobID, reply, summary, report, cause>>

TimeOut ==
  /\ pc = "status" /\ call = "none" /\ OutOfTime
  /\ FailWith("timeout")
  /\ UNCHANGED <<serverVars, call, ledgerVars, reply>>

\* Mutated form of Mismatches: rows compared as far as the page goes.
MismatchesOfPrefix(want, got) ==
  {f \in {"total", "lines", "matched", "filtered"} : want[f] # got[f]}
    \cup {f \in {"rate"} : RoundTo2(want[f]) # RoundTo2(got[f])}
    \cup {f \in {"rows"} : Len(got[f]) > Len(want[f]) \/ SubSeq(want[f], 1, Len(got[f])) # got[f]}

\* compareImplementationOutput and compareVisibleReport.
Mismatches(want, got) ==
  {f \in {"total", "lines", "matched", "filtered"} : want[f] # got[f]}
    \cup {f \in {"rate"} : RoundTo2(want[f]) # RoundTo2(got[f])}
    \cup {f \in {"rows"} : want[f] # got[f]}

Report(visible) ==
  LET want == Analysis[benchmarked] IN
  [job |-> jobID, service |-> summary, visible |-> visible,
   matches |-> Mismatches(want, summary) \cup Mismatches(want, visible) = {}]

SubmitReply ==
  \/ /\ reply.status = 202
     /\ jobID' = reply.job /\ late' = FALSE /\ pc' = "status"
     /\ UNCHANGED <<benchmarked, submitted, summary, report, cause>>
  \/ reply.status # 202 /\ FailWith("refused")

\* The body of an error decodes to no state, and is polled on.
StatusReply ==
  \/ /\ reply.state \notin {"succeeded", "failed"}
     /\ UNCHANGED <<pc, benchmarked, submitted, jobID, late, summary, report, cause>>
  \/ /\ reply.state = "succeeded"
     /\ pc' = "summary"
     /\ UNCHANGED <<benchmarked, submitted, jobID, late, summary, report, cause>>
  \/ reply.state = "failed" /\ FailWith("analysis")

SummaryReply ==
  \/ /\ reply.status = 200
     /\ summary' = reply.output /\ pc' = "page"
     /\ UNCHANGED <<benchmarked, submitted, jobID, late, report, cause>>
  \/ reply.status # 200 /\ FailWith("summary")

PageReply ==
  \/ /\ reply.status = 200
     /\ report' = Report(reply.output) /\ pc' = "report"
     /\ UNCHANGED <<benchmarked, submitted, jobID, late, summary, cause>>
  \/ reply.status # 200 /\ FailWith("page")

Receive ==
  /\ call = "answered" /\ call' = "none" /\ reply' = NoReply
  /\ \/ pc = "submit" /\ SubmitReply
     \/ pc = "status" /\ StatusReply
     \/ pc = "summary" /\ SummaryReply
     \/ pc = "page" /\ PageReply
  /\ UNCHANGED <<serverVars, ledgerVars>>

-----------------------------------------------------------------------------
Init ==
  /\ ServerInit
  /\ phase = [id \in JobIDs |-> "none"]
  /\ owner = [id \in JobIDs |-> Ledger!Nobody]
  /\ pc = "idle" /\ benchmarked = NoInput /\ submitted = NoInput
  /\ jobID = None /\ late = FALSE /\ reply = NoReply
  /\ summary = None /\ report = None /\ cause = ""

Next ==
  \/ ProcessRuns \/ ProcessEnds
  \/ Handle \/ OtherSubmits
  \/ \E id \in JobIDs : Begin(id) \/ Finish(id) \/ Expire(id)
  \/ ReadCorpus \/ DeadlinePasses
  \/ Send \/ CallFails \/ TimeOut \/ Receive

\* main, the shutdown goroutine, the server's side of a call, the check and its
\* timer each keep running; nothing is asked of the operator, of other clients, of
\* the workers, of retention or of crashes.
MainStep  == ((Serve \/ ServeReturns) /\ ProcessRuns) \/ (Exit /\ ProcessEnds)
CallStep  == (AcceptCall /\ ProcessRuns) \/ Handle
CheckStep == Send \/ CallFails \/ TimeOut \/ Receive

Fairness ==
  /\ WF_vars(MainStep) /\ WF_vars(BeginShutdown /\ ProcessRuns)
  /\ WF_vars(CallStep)
  /\ WF_vars(CheckStep) /\ WF_vars(DeadlinePasses)

Spec == Init /\ [][Next]_vars /\ Fairness

-----------------------------------------------------------------------------
TypeOK ==
  /\ stage \in Stages /\ boots \in 0 .. MaxBoots /\ call \in Calls
  /\ signalled \in BOOLEAN /\ closing \in BOOLEAN
  /\ prober \in {"probing", "delay", "gone"} /\ healthy \in BOOLEAN /\ ready \in BOOLEAN
  /\ phase \in [JobIDs -> {"none", "queued", "running", "succeeded", "failed", "expired", "lost"}]
  /\ \A id \in JobIDs : owner[id].key = None /\ owner[id].payload \in Inputs \cup {None}
  /\ pc \in {"idle", "submit", "status", "summary", "page"} \cup Stopped
  /\ benchmarked \in Inputs \cup {NoInput} /\ submitted \in Inputs \cup {NoInput}
  /\ jobID \in JobIDs \cup {None} /\ late \in BOOLEAN
  /\ reply.status \in {0, 200, 202, 404, 409, 410, 422, 429, 503}
  /\ reply.job \in JobIDs \cup {None}
  /\ IF pc = "report" THEN report.job = jobID /\ report.matches \in BOOLEAN ELSE report = None
  /\ pc = "error" <=> cause # ""

\* The readiness window (main.go:99, 121): a process has jobs only if its own
\* /healthz has answered before, however the probe, its timeout, the delay and
\* the signal interleave and however often the process was started.
JobsOnlyAfterHealthz ==
  (\E id \in JobIDs : Known(id)) => healthy

\* A verdict is "ok" exactly for the forms that have what the loop over the parts
\* (analysis_handler.go:307) asks for, and the job gets the last file of the form.  Verdicts depend on no state,
\* so one state is enough to compare them.
FormVerdict ==
  pc = "idle" /\ boots = 0 =>
    \A form \in Forms :
      /\ Submit(form).verdict = "ok" <=> WellFormed(form)
      /\ WellFormed(form) =>
           {Submit(form).input} = {file.input : file \in LastOf(form.parts, "file")}

\* A report (crosscheck.go:50) puts together three answers given at different
\* times, perhaps across a restart: they are all of the one job that was accepted
\* for the submitted input.
ReportIsOfOneJob ==
  pc = "report" =>
    /\ report.job \in JobIDs /\ owner[report.job].payload = submitted
    /\ report.service = Analysis[submitted]
    /\ report.visible = Visible(Analysis[submitted])

SameFigures(a, b) ==
  /\ a.total = b.total /\ a.lines = b.lines /\ a.matched = b.matched
  /\ a.filtered = b.filtered /\ a.rows = b.rows
  /\ RoundTo2(a.rate) = RoundTo2(b.rate)

\* Matches (crosscheck.go:64) tells apart the benchmarked and the submitted corpus
\* as far as their figures differ, also when the files changed in between; it
\* cannot be had for a corpus with more rows than a page shows (report_handler.go:30)
\* or with a path that a page does not give back.
MatchExact ==
  pc = "report" =>
    LET want == Analysis[benchmarked] IN
    report.matches <=> /\ SameFigures(want, Analysis[submitted])
                       /\ Len(want.rows) <= RowLimit
                       /\ ReadBack(want.rows) = want.rows

\* Once a status answer (crosscheck.go:134) has said "succeeded", the summary and
\* the page are refused only if the job has expired since or its process is gone.
LostOnlyIfGone ==
  cause \in {"summary", "page"} => phase[jobID] \in {"expired", "lost"}

\* Whatever the probe and the requests are doing, a signalled process stops
\* (main.go:82).
SignalStops == signalled ~> ~Up

\* A check that began comes to a report or an error: the poll (crosscheck.go:116)
\* gives up on a job that does not finish, that has expired or whose process was
\* started again.
CheckEnds == pc = "submit" ~> pc \in Stopped
=============================================================================
