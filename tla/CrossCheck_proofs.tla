-------------------------- MODULE CrossCheck_proofs --------------------------
(***************************************************************************)
(* What a cross-check report says, for any inputs, any figures, any number *)
(* of jobs and of starts of the process.                                   *)
(***************************************************************************)
EXTENDS CrossCheck, SubmissionForm_proofs

-----------------------------------------------------------------------------
(* The corpus form and the verdict on it.                                  *)

\* The corpus form is accepted, if at all, with its own input.
LEMMA CorpusIsRead ==
  ASSUME NEW input \in Inputs, CorpusRead[input].verdict = "ok"
  PROVE  CorpusRead[input].input = input
<1> DEFINE file == [name |-> "file", filename |-> "safe", input |-> input, torn |-> FALSE]
           format == [name |-> "format", text |-> "supported", torn |-> FALSE]
           profile == [name |-> "profile", text |-> "supported", torn |-> FALSE]
           parts == <<file, format, profile>>
           form == CorpusForm(input)
<1>1. form \in Requests /\ form.parts = parts
  <2>1. file \in Part /\ format \in Part /\ profile \in Part
    BY DEF Part, FilePart, TextPart, Texts
  <2>2. parts \in Seq(Part)
    <3> HIDE DEF file, format, profile
    <3> QED BY <2>1
  <2>3. Size[input] + Overhead \in Int
    BY SizeAssumption, CrossCheckAssumption
  <2>4. \A i \in DOMAIN parts : ~parts[i].torn
    OBVIOUS
  <2>5. form = [contentType |-> "multipart", boundary |-> TRUE, closed |-> TRUE, wellFormed |-> FALSE,
                length |-> Size[input] + Overhead, parts |-> parts]
    BY DEF CorpusForm
  <2> HIDE DEF form, parts
  <2> QED BY <2>2, <2>3, <2>4, <2>5 DEF Requests
<1>2. CorpusRead[input] = Submit(form)
  BY DEF CorpusRead
<1>3. {Submit(form).input} = {f.input : f \in LastOf(parts, "file")}
  <2> HIDE DEF form, parts
  <2> QED BY <1>1, <1>2, VerdictIsExact
<1>4. LastOf(parts, "file") \subseteq {file}
  BY DEF LastOf
<1>5. Submit(form).input = input
  <2> HIDE DEF form, parts
  <2> QED BY <1>3, <1>4
<1> QED BY <1>2, <1>5

-----------------------------------------------------------------------------
(* The service.                                                            *)

States == {"none", "queued", "running", "succeeded", "failed", "expired", "lost"}

\* Jobs exist only in a process that is ready, and a job that succeeded was one the
\* engine could make something of.
Service ==
  /\ phase \in [JobIDs -> States] /\ owner = [id \in JobIDs |-> owner[id]]
  /\ prober = "delay" => healthy
  /\ ready => healthy
  /\ \A id \in JobIDs : Known(id) => ready
  /\ \A id \in JobIDs : phase[id] = "succeeded" => Outcome[owner[id].payload] = "ok"

Ended == {"succeeded", "expired", "lost"}
Past  == {"expired", "lost"}

\* A job keeps its submission and never goes back.
Onward ==
  \A id \in JobIDs : phase[id] # "none" =>
    /\ phase'[id] # "none" /\ owner'[id] = owner[id]
    /\ phase[id] \in Ended => phase'[id] \in Ended
    /\ phase[id] \in Past => phase'[id] \in Past

LEMMA AcceptEffect ==
  ASSUME Service, ready, NEW id, NEW input, Ledger!Accept(id, None, input)
  PROVE  /\ phase' \in [JobIDs -> States] /\ owner' = [j \in JobIDs |-> owner'[j]]
         /\ \A j \in JobIDs : phase[j] # "none" => phase'[j] = phase[j] /\ owner'[j] = owner[j]
         /\ \A j \in JobIDs : phase'[j] = "succeeded" => phase[j] = "succeeded"
         /\ id \in JobIDs => phase'[id] = "queued" /\ owner'[id].payload = input
BY DEF Service, Ledger!Accept, States

LEMMA StoppedLedger ==
  ASSUME Service, UNCHANGED ledgerVars
  PROVE  /\ phase' \in [JobIDs -> States] /\ owner' = [id \in JobIDs |-> owner'[id]]
         /\ \A id \in JobIDs : Known(id)' = Known(id)
         /\ \A id \in JobIDs : phase'[id] = "succeeded" => Outcome[owner'[id].payload] = "ok"
         /\ Onward
BY DEF Service, ledgerVars, Known, Onward

\* Every step keeps what is said of the service, and moves jobs onward only.
LEMMA ServiceStep ==
  ASSUME Service, [Next]_vars
  PROVE  Service' /\ Onward
<1>1. CASE ProcessRuns
  <2>1. /\ UNCHANGED ledgerVars /\ (ready => ready')
        /\ (prober' = "delay" => healthy') /\ (ready' => healthy')
    BY <1>1 DEF ProcessRuns, Running, Boot, Serve, Signal, BeginShutdown, ServeReturns, AcceptCall,
                ProbeAnswered, GiveUp, SetReady, DelayCancelled, AfterProbe, Service
  <2>2. /\ \A id \in JobIDs : phase'[id] = "succeeded" => Outcome[owner'[id].payload] = "ok"
        /\ phase' \in [JobIDs -> States] /\ owner' = [id \in JobIDs |-> owner'[id]]
        /\ Onward
    BY <2>1, StoppedLedger
  <2>3. phase' = phase
    BY <2>1 DEF ledgerVars
  <2>4. \A id \in JobIDs : phase'[id] \notin {"none", "lost"} => ready'
    BY <2>1, <2>3 DEF Service, Known
  <2> QED BY <2>1, <2>2, <2>4 DEF Service, Known
<1>2. CASE ProcessEnds
  <2>1. /\ phase' = [id \in JobIDs |-> IF phase[id] = "none" THEN "none" ELSE "lost"]
        /\ owner' = owner /\ prober' = "gone" /\ ~ready'
    BY <1>2 DEF ProcessEnds, LoseLedger, Ending, Exit, Crash, Die
  <2>2. \A id \in JobIDs : phase'[id] \in {"none", "lost"}
    BY <2>1
  <2>3. phase' \in [JobIDs -> States]
    BY <2>1 DEF States
  <2>4. Onward
    BY <2>1 DEF Onward, Ended, Past
  <2> QED BY <2>1, <2>2, <2>3, <2>4 DEF Service, Known
<1>3. CASE OtherSubmits
  <2>1. /\ UNCHANGED <<prober, healthy, ready>> /\ ready
        /\ \E id, input : Ledger!Accept(id, None, input)
    BY <1>3 DEF OtherSubmits, serverVars
  <2> QED BY <2>1, AcceptEffect DEF Service, Onward, Known, States
<1>4. CASE Handle
  <2>1. UNCHANGED <<prober, healthy, ready>>
    BY <1>4 DEF Handle, serverVars
  <2>2. CASE UNCHANGED ledgerVars
    BY <2>1, <2>2, StoppedLedger DEF Service
  <2>3. CASE ~UNCHANGED ledgerVars
    <3>1. ready /\ \E id, input : Ledger!Accept(id, None, input)
      BY <1>4, <2>3 DEF Handle, HandleSubmit, HandleStatus, HandleSummary, HandlePage
    <3> QED BY <2>1, <3>1, AcceptEffect DEF Service, Onward, Known, States
  <2> QED BY <2>2, <2>3
<1>5. ASSUME NEW id \in JobIDs, Begin(id) \/ Finish(id) \/ Expire(id)
      PROVE  Service' /\ Onward
  <2>1. UNCHANGED <<prober, healthy, ready, owner>>
    BY <1>5 DEF Begin, Finish, Expire, serverVars, Ledger!Begin, Ledger!Finish, Ledger!Expire
  <2>2. /\ phase' \in [JobIDs -> States]
        /\ \A j \in JobIDs : phase[j] = "none" <=> phase'[j] = "none"
        /\ \A j \in JobIDs : phase[j] = "lost" <=> phase'[j] = "lost"
        /\ \A j \in JobIDs : phase[j] \in Ended => phase'[j] \in Ended
        /\ \A j \in JobIDs : phase[j] \in Past => phase'[j] \in Past
        /\ \A j \in JobIDs : phase'[j] = "succeeded" => Outcome[owner[j].payload] = "ok"
    BY <1>5 DEF Begin, Finish, Expire, Ledger!Begin, Ledger!Finish, Ledger!Expire, Service,
                States, Ended, Past
  <2> QED BY <2>1, <2>2 DEF Service, Onward, Known
<1>6. CASE ReadCorpus \/ DeadlinePasses \/ Send \/ CallFails \/ TimeOut \/ Receive \/ UNCHANGED vars
  <2>1. UNCHANGED ledgerVars /\ UNCHANGED <<prober, healthy, ready>>
    BY <1>6 DEF ReadCorpus, DeadlinePasses, Send, CallFails, TimeOut, Receive, vars, serverVars
  <2> QED BY <2>1, StoppedLedger DEF Service
<1> QED BY <1>1, <1>2, <1>3, <1>4, <1>5, <1>6 DEF Next

LEMMA ServiceInit == Init => Service
BY DEF Init, ServerInit, Service, Known, States

-----------------------------------------------------------------------------
(* The check.                                                              *)

\* The report, from what it is made of.
Compared(id, input, service, page) ==
  [job |-> id, service |-> service, visible |-> page,
   matches |-> Mismatches(Analysis[input], service) \cup Mismatches(Analysis[input], page) = {}]

\* What the check knows of its job wherever it is.
Follows ==
  /\ pc \in {"idle", "report", "error"} => call = "none"
  /\ pc \in {"submit", "status", "summary", "page", "report"} =>
       benchmarked \in Inputs /\ submitted \in Inputs /\ Analysis[benchmarked] # Broken
  /\ pc \in {"status", "summary", "page", "report"} =>
       jobID \in JobIDs /\ phase[jobID] # "none" /\ owner[jobID].payload = submitted
  /\ pc \in {"summary", "page", "report"} => phase[jobID] \in Ended /\ Analysis[submitted] # Broken
  /\ pc \in {"page", "report"} => summary = Analysis[submitted]
  /\ pc = "report" => report = Compared(jobID, benchmarked, summary, Visible(Analysis[submitted]))

\* An error is final, and a refused summary or page means that the job is past.
Fails ==
  /\ cause # "" => pc = "error"
  /\ cause \in {"summary", "page"} => jobID \in JobIDs /\ phase[jobID] \in Past

\* What an answer that is not yet read says.
Answers ==
  call = "answered" =>
    /\ pc = "submit" /\ reply.status = 202 =>
         reply.job \in JobIDs /\ phase[reply.job] # "none" /\ owner[reply.job].payload = submitted
    /\ pc = "status" /\ reply.state = "succeeded" =>
         phase[jobID] \in Ended /\ Analysis[submitted] # Broken
    /\ pc = "summary" /\ reply.status = 200 => reply.output = Analysis[submitted]
    /\ pc = "page" /\ reply.status = 200 => reply.output = Visible(Analysis[submitted])
    /\ pc \in {"summary", "page"} /\ reply.status # 200 => phase[jobID] \in Past

IInv == Service /\ Follows /\ Fails /\ Answers

\* The rest of the system moves jobs onward, which takes nothing from the check.
LEMMA OthersStep ==
  ASSUME IInv, Onward,
         UNCHANGED <<pc, benchmarked, submitted, jobID, reply, summary, report, cause>>,
         call' = "answered" => call = "answered",
         pc \in {"idle", "report", "error"} => call' = "none"
  PROVE  Follows' /\ Fails' /\ Answers'
<1>1. Follows'
  BY DEF IInv, Follows, Onward, Ended
<1>2. Fails'
  BY DEF IInv, Fails, Onward, Past
<1>3. Answers'
  BY DEF IInv, Answers, Follows, Onward, Past, Ended
<1> QED BY <1>1, <1>2, <1>3

LEMMA StatusCode == \A code : Status(code).status = code
BY DEF Status, NoReply

LEMMA StatusSilent == \A code : Status(code).state = ""
BY DEF Status, NoReply

LEMMA OutputFields ==
  \A id, output : Output(id, output).status = 200 /\ Output(id, output).output = output
BY DEF Output, NoReply

\* The answers of the handlers, in the state they leave.
LEMMA HandlersAnswer ==
  ASSUME IInv, Onward, Handle
  PROVE  Answers'
<1>1. /\ UNCHANGED <<pc, benchmarked, submitted, jobID>>
      /\ pc \in {"submit", "status", "summary", "page"}
      /\ submitted \in Inputs
  BY DEF Handle, IInv, Follows
<1>2. ASSUME pc = "submit"
      PROVE  reply'.status = 202 =>
               reply'.job \in JobIDs /\ phase'[reply'.job] # "none" /\ owner'[reply'.job].payload = submitted
  <2>1. HandleSubmit
    BY <1>2 DEF Handle
  <2>2. CASE reply' \in {Status(503), Status(422), Status(429)}
    BY <2>2, StatusCode
  <2>3. CASE /\ ready /\ CorpusRead[submitted].verdict = "ok"
             /\ \E id \in JobIDs : Ledger!Accept(id, None, CorpusRead[submitted].input) /\ reply' = Accepted(id)
    <3>1. PICK id \in JobIDs : Ledger!Accept(id, None, CorpusRead[submitted].input) /\ reply' = Accepted(id)
      BY <2>3
    <3>2. CorpusRead[submitted].input = submitted
      BY <1>1, <2>3, CorpusIsRead
    <3>3. phase'[id] = "queued" /\ owner'[id].payload = submitted
      BY <2>3, <3>1, <3>2, AcceptEffect DEF IInv
    <3>4. reply'.job = id
      BY <3>1 DEF Accepted, NoReply
    <3> QED BY <3>3, <3>4
  <2> QED BY <2>1, <2>2, <2>3 DEF HandleSubmit
<1>3. ASSUME pc = "status"
      PROVE  reply'.state = "succeeded" => phase'[jobID] \in Ended /\ Analysis[submitted] # Broken
  <2>1. HandleStatus(jobID) /\ jobID \in JobIDs /\ owner[jobID].payload = submitted /\ phase' = phase
    BY <1>3 DEF Handle, HandleStatus, ledgerVars, IInv, Follows
  <2>2. reply' \in {Status(503), Status(404), Status(410), StateReply(jobID)}
    BY <2>1 DEF HandleStatus
  <2>3. reply'.state = "succeeded" => phase[jobID] = "succeeded"
    <3>1. StateReply(jobID).state = phase[jobID]
      BY DEF StateReply, Shown, NoReply
    <3>2. ASSUME NEW code, reply' = Status(code)
          PROVE  reply'.state = ""
      BY <3>2, StatusSilent
    <3> QED BY <2>2, <3>1, <3>2
  <2>4. phase[jobID] = "succeeded" => Analysis[submitted] # Broken
    BY <1>1, <2>1 DEF IInv, Service, Outcome
  <2> QED BY <2>1, <2>3, <2>4 DEF Ended
<1>4. ASSUME NEW output,
             reply' \in {Status(503), Status(404), Status(410), Status(409), Output(jobID, output)},
             phase' = phase, phase[jobID] \in Past \/ reply' = Output(jobID, output)
      PROVE  /\ reply'.status = 200 => reply'.output = output
             /\ reply'.status # 200 => phase'[jobID] \in Past
  BY <1>4, StatusCode, OutputFields
<1>5. ASSUME pc \in {"summary", "page"}
      PROVE  /\ jobID \in JobIDs /\ owner[jobID].payload = submitted
             /\ phase[jobID] \in Ended
             /\ ~ready \/ ~Known(jobID) => phase[jobID] = "lost"
  BY <1>5 DEF IInv, Follows, Service, Known, Ended
<1>6. ASSUME pc = "summary"
      PROVE  /\ reply'.status = 200 => reply'.output = Analysis[submitted]
             /\ reply'.status # 200 => phase'[jobID] \in Past
  <2>1. HandleSummary(jobID) /\ phase' = phase
    BY <1>6 DEF Handle, HandleSummary, ledgerVars
  <2>2. /\ reply' \in {Status(503), Status(404), Status(410), Status(409), Output(jobID, Analysis[submitted])}
        /\ phase[jobID] \in Past \/ reply' = Output(jobID, Analysis[submitted])
    BY <1>5, <1>6, <2>1 DEF HandleSummary, Gone, SummaryOf, Ended, Past
  <2> QED BY <1>4, <2>1, <2>2
<1>7. ASSUME pc = "page"
      PROVE  /\ reply'.status = 200 => reply'.output = Visible(Analysis[submitted])
             /\ reply'.status # 200 => phase'[jobID] \in Past
  <2>1. HandlePage(jobID) /\ phase' = phase
    BY <1>7 DEF Handle, HandlePage, ledgerVars
  <2> DEFINE shown == Visible(Analysis[submitted])
  <2>2. Visible(SummaryOf(jobID)) = shown
    BY <1>5, <1>7 DEF SummaryOf
  <2>3. HandlePage(jobID) => reply' \in CASE ~Known(jobID) -> {Status(404)}
                  [] Known(jobID) /\ phase[jobID] = "expired"           -> Gone
                  [] Known(jobID) /\ phase[jobID] = "succeeded"         -> {Output(jobID, shown)}
                  [] OTHER                                        -> {Status(409)}
    BY <2>2 DEF HandlePage
  <2> HIDE DEF shown
  <2>4. /\ reply' \in {Status(503), Status(404), Status(410), Status(409), Output(jobID, shown)}
        /\ phase[jobID] \in Past \/ reply' = Output(jobID, shown)
    BY <1>5, <1>7, <2>1, <2>3 DEF Gone, Ended, Past
  <2>5. /\ reply'.status = 200 => reply'.output = shown
        /\ reply'.status # 200 => phase'[jobID] \in Past
    BY <1>4, <2>1, <2>4
  <2> QED BY <2>5 DEF shown
<1> HIDE DEF Visible
<1> QED BY <1>1, <1>2, <1>3, <1>6, <1>7 DEF Answers

LEMMA HandleKeeps ==
  ASSUME IInv, Onward, Handle
  PROVE  Follows' /\ Fails' /\ Answers'
<1>1. UNCHANGED <<pc, benchmarked, submitted, jobID, summary, report, cause>>
  BY DEF Handle
<1>2. pc \notin {"idle", "report", "error"}
  BY DEF Handle
<1>3. Follows'
  BY <1>1, <1>2 DEF IInv, Follows, Onward, Ended
<1>4. Fails'
  BY <1>1 DEF IInv, Fails, Onward, Past
<1> QED BY <1>3, <1>4, HandlersAnswer

\* The check draws from an answer what it says.
LEMMA ReceiveKeeps ==
  ASSUME IInv, Receive
  PROVE  Follows' /\ Fails' /\ Answers'
<1>1. call = "answered" /\ call' = "none" /\ UNCHANGED ledgerVars /\ UNCHANGED <<benchmarked, submitted>>
  BY DEF Receive, SubmitReply, StatusReply, SummaryReply, PageReply, FailWith
<1>2. Answers'
  BY <1>1 DEF Answers
<1>3. CASE pc' = "error" /\ UNCHANGED jobID /\ (cause' \in {"summary", "page"} => phase[jobID] \in Past /\ jobID \in JobIDs)
  BY <1>1, <1>2, <1>3 DEF Follows, Fails, ledgerVars
<1>4. CASE pc = "submit"
  <2>1. SubmitReply
    BY <1>4 DEF Receive
  <2>2. CASE reply.status = 202
    <3>1. /\ pc' = "status" /\ jobID' = reply.job
          /\ UNCHANGED <<summary, report, cause>>
      BY <2>1, <2>2 DEF SubmitReply
    <3>2. /\ reply.job \in JobIDs /\ phase[reply.job] # "none" /\ owner[reply.job].payload = submitted
      BY <1>1, <1>4, <2>2 DEF IInv, Answers
    <3>3. Follows'
      BY <1>1, <1>4, <3>1, <3>2 DEF IInv, Follows, ledgerVars
    <3>4. Fails'
      BY <1>4, <3>1 DEF IInv, Fails
    <3> QED BY <1>2, <3>3, <3>4
  <2>3. CASE reply.status # 202
    BY <1>3, <2>1, <2>3 DEF SubmitReply, FailWith
  <2> QED BY <2>2, <2>3
<1>5. CASE pc = "status"
  <2>1. StatusReply
    BY <1>5 DEF Receive
  <2>2. CASE reply.state = "succeeded"
    <3>1. pc' = "summary" /\ UNCHANGED <<jobID, summary, report, cause>>
      BY <2>1, <2>2 DEF StatusReply
    <3>2. phase[jobID] \in Ended /\ Analysis[submitted] # Broken
      BY <1>1, <1>5, <2>2 DEF IInv, Answers
    <3>3. Follows'
      BY <1>1, <1>5, <3>1, <3>2 DEF IInv, Follows, ledgerVars
    <3>4. Fails'
      BY <1>5, <3>1 DEF IInv, Fails
    <3> QED BY <1>2, <3>3, <3>4
  <2>3. CASE reply.state = "failed"
    BY <1>3, <2>1, <2>3 DEF StatusReply, FailWith
  <2>4. CASE reply.state \notin {"succeeded", "failed"}
    <3>1. UNCHANGED <<pc, jobID, summary, report, cause>>
      BY <2>1, <2>4 DEF StatusReply
    <3>2. Follows'
      BY <1>1, <1>5, <3>1 DEF IInv, Follows, ledgerVars
    <3>3. Fails'
      BY <1>1, <3>1 DEF IInv, Fails, ledgerVars
    <3> QED BY <1>2, <3>2, <3>3
  <2> QED BY <2>2, <2>3, <2>4
<1>6. CASE pc = "summary"
  <2>1. SummaryReply
    BY <1>6 DEF Receive
  <2>2. CASE reply.status = 200
    <3>1. pc' = "page" /\ summary' = reply.output /\ UNCHANGED <<jobID, report, cause>>
      BY <2>1, <2>2 DEF SummaryReply
    <3>2. reply.output = Analysis[submitted]
      BY <1>1, <1>6, <2>2 DEF IInv, Answers
    <3>3. Follows'
      BY <1>1, <1>6, <3>1, <3>2 DEF IInv, Follows, ledgerVars
    <3>4. Fails'
      BY <1>6, <3>1 DEF IInv, Fails
    <3> QED BY <1>2, <3>3, <3>4
  <2>3. CASE reply.status # 200
    <3>1. phase[jobID] \in Past /\ jobID \in JobIDs
      BY <1>1, <1>6, <2>3 DEF IInv, Answers, Follows
    <3> QED BY <1>3, <2>1, <2>3, <3>1 DEF SummaryReply, FailWith
  <2> QED BY <2>2, <2>3
<1>7. CASE pc = "page"
  <2>1. PageReply
    BY <1>7 DEF Receive
  <2>2. CASE reply.status = 200
    <3>1. /\ pc' = "report" /\ report' = Compared(jobID, benchmarked, summary, reply.output)
          /\ UNCHANGED <<jobID, summary, cause>>
      BY <2>1, <2>2 DEF PageReply, Report, Compared
    <3>2. reply.output = Visible(Analysis[submitted])
      BY <1>1, <1>7, <2>2 DEF IInv, Answers
    <3> HIDE DEF Visible, Compared
    <3>3. Follows'
      BY <1>1, <1>7, <3>1, <3>2 DEF IInv, Follows, ledgerVars
    <3>4. Fails'
      BY <1>7, <3>1 DEF IInv, Fails
    <3> QED BY <1>2, <3>3, <3>4
  <2>3. CASE reply.status # 200
    <3>1. phase[jobID] \in Past /\ jobID \in JobIDs
      BY <1>1, <1>7, <2>3 DEF IInv, Answers, Follows
    <3> QED BY <1>3, <2>1, <2>3, <3>1 DEF PageReply, FailWith
  <2> QED BY <2>2, <2>3
<1> QED BY <1>4, <1>5, <1>6, <1>7 DEF Receive

LEMMA Initially == Init => IInv
<1> SUFFICES ASSUME Init PROVE IInv
  OBVIOUS
<1>1. pc = "idle" /\ call = "none" /\ cause = ""
  BY DEF Init, ServerInit
<1>2. Follows /\ Fails /\ Answers
  BY <1>1 DEF Follows, Fails, Answers
<1> QED BY <1>2, ServiceInit DEF IInv

LEMMA Invariance == IInv /\ [Next]_vars => IInv'
<1> SUFFICES ASSUME IInv, [Next]_vars PROVE IInv'
  OBVIOUS
<1>1. Service' /\ Onward
  BY ServiceStep DEF IInv
<1>2. CASE ProcessRuns \/ ProcessEnds
  <2>1. /\ UNCHANGED <<pc, benchmarked, submitted, jobID, reply, summary, report, cause>>
        /\ call' = "answered" => call = "answered"
    BY <1>2 DEF ProcessRuns, ProcessEnds, checkVars, Running, Ending, Boot, Serve, Signal, BeginShutdown,
                ServeReturns, AcceptCall, ProbeAnswered, GiveUp, SetReady, DelayCancelled, Exit, Crash,
                Die, Cut
  <2>2. call = "none" => call' = "none"
    BY <1>2 DEF ProcessRuns, ProcessEnds, Running, Ending, Boot, Serve, Signal, BeginShutdown,
                ServeReturns, AcceptCall, ProbeAnswered, GiveUp, SetReady, DelayCancelled, Exit, Crash,
                Die, Cut
  <2> QED BY <1>1, <2>1, <2>2, OthersStep DEF IInv, Follows
<1>3. CASE OtherSubmits \/ (\E id \in JobIDs : Begin(id) \/ Finish(id) \/ Expire(id))
             \/ DeadlinePasses \/ Send \/ UNCHANGED vars
  <2>1. /\ UNCHANGED <<pc, benchmarked, submitted, jobID, reply, summary, report, cause>>
        /\ call' = "answered" => call = "answered"
        /\ pc \in {"idle", "report", "error"} => call' = call
    BY <1>3 DEF OtherSubmits, Begin, Finish, Expire, DeadlinePasses, Send, checkVars, vars
  <2> QED BY <1>1, <2>1, OthersStep DEF IInv, Follows
<1>4. CASE Handle
  BY <1>1, <1>4, HandleKeeps DEF IInv
<1>5. CASE Receive
  BY <1>1, <1>5, ReceiveKeeps DEF IInv
<1>6. CASE CallFails \/ TimeOut
  <2>1. pc' = "error" /\ cause' \notin {"summary", "page"} /\ call' = "none"
    BY <1>6 DEF CallFails, TimeOut, FailWith
  <2>2. Follows' /\ Fails' /\ Answers'
    BY <2>1 DEF Follows, Fails, Answers
  <2> QED BY <1>1, <2>2 DEF IInv
<1>7. CASE ReadCorpus
  <2>1. call = "none" /\ call' = "none" /\ cause = ""
    BY <1>7 DEF ReadCorpus, IInv, Follows, Fails
  <2>2. CASE pc' = "error" /\ cause' = "corpus"
    <3>1. Follows' /\ Fails' /\ Answers'
      BY <2>1, <2>2 DEF Follows, Fails, Answers
    <3> QED BY <1>1, <3>1 DEF IInv
  <2>3. CASE \E pair \in Situations :
               benchmarked' = pair[1] /\ submitted' = pair[2] /\ pc' = "submit" /\ UNCHANGED cause
    <3>1. benchmarked' \in Inputs /\ submitted' \in Inputs /\ Analysis[benchmarked'] # Broken
      BY <2>3, CrossCheckAssumption
    <3>2. Follows' /\ Fails' /\ Answers'
      BY <2>1, <2>3, <3>1 DEF Follows, Fails, Answers
    <3> QED BY <1>1, <3>2 DEF IInv
  <2> QED BY <1>7, <2>2, <2>3 DEF ReadCorpus
<1> QED BY <1>2, <1>3, <1>4, <1>5, <1>6, <1>7 DEF Next

-----------------------------------------------------------------------------
(* The comparison.                                                         *)

LEMMA NoMismatch ==
  ASSUME NEW want, NEW got
  PROVE  Mismatches(want, got) = {} <=> SameFigures(want, got)
BY DEF Mismatches, SameFigures

\* A page rounds once: what it shows rounds to itself.
LEMMA RoundedOnce ==
  ASSUME NEW r \in Nat
  PROVE  RoundTo2(10 * RoundTo2(r)) = RoundTo2(r)
<1>1. RoundTo2(r) \in Nat
  BY DEF RoundTo2
<1>2. \A n \in Nat : (10 * n + 5) \div 10 = n
  OBVIOUS
<1> QED BY <1>1, <1>2 DEF RoundTo2

FigureSet ==
  [total : Nat, rate : Nat, lines : Nat, matched : Nat, filtered : Nat,
   rows : Seq([method : STRING, path : STRING, count : Nat])]

\* A page agrees with an output exactly if it shows all rows and gives their paths back.
LEMMA PageAgrees ==
  ASSUME NEW want \in FigureSet, NEW got \in FigureSet, SameFigures(want, got)
  PROVE  SameFigures(want, Visible(got)) <=> Len(want.rows) <= RowLimit /\ ReadBack(want.rows) = want.rows
<1> DEFINE rows == want.rows
           shown == ReadBack(Limited(rows))
<1>1. rows \in Seq([method : STRING, path : STRING, count : Nat]) /\ RowLimit \in Nat
  BY CrossCheckAssumption DEF FigureSet
<1>2. got.rows = rows /\ got.rate \in Nat /\ RoundTo2(want.rate) = RoundTo2(got.rate)
  BY DEF SameFigures, FigureSet
<1>3. /\ Visible(got).total = got.total /\ Visible(got).lines = got.lines
      /\ Visible(got).matched = got.matched /\ Visible(got).filtered = got.filtered
      /\ Visible(got).rate = 10 * RoundTo2(got.rate) /\ Visible(got).rows = ReadBack(Limited(got.rows))
  BY DEF Visible, FigureSet
<1>4. SameFigures(want, Visible(got)) <=> rows = shown
  <2> HIDE DEF FigureSet, ReadBack, Limited, Visible, RoundTo2
  <2>1. RoundTo2(want.rate) = RoundTo2(Visible(got).rate)
    BY <1>2, <1>3, RoundedOnce
  <2> QED BY <1>2, <1>3, <2>1 DEF SameFigures
<1>5. CASE Len(rows) <= RowLimit
  BY <1>4, <1>5 DEF Limited
<1>6. CASE ~(Len(rows) <= RowLimit)
  <2>1. Limited(rows) = SubSeq(rows, 1, RowLimit)
    BY <1>6 DEF Limited
  <2>2. Len(rows) \in Nat /\ DOMAIN rows = 1..Len(rows)
    BY <1>1
  <2>3. DOMAIN SubSeq(rows, 1, RowLimit) = 1..RowLimit
    BY <1>1, <1>6, <2>2
  <2>4. DOMAIN shown = 1..RowLimit
    BY <2>1, <2>3 DEF ReadBack
  <2>5. Len(rows) \in DOMAIN rows /\ Len(rows) \notin DOMAIN shown
    BY <1>1, <1>6, <2>2, <2>4
  <2> HIDE DEF shown, rows
  <2>6. rows # shown
    BY <2>5
  <2> QED BY <1>4, <1>6, <2>6 DEF rows
<1> QED BY <1>5, <1>6

LEMMA Exactly == IInv => MatchExact
<1> SUFFICES ASSUME IInv, pc = "report"
             PROVE  LET want == Analysis[benchmarked] IN
                    report.matches <=> /\ SameFigures(want, Analysis[submitted])
                                       /\ Len(want.rows) <= RowLimit
                                       /\ ReadBack(want.rows) = want.rows
  BY DEF MatchExact
<1> DEFINE want == Analysis[benchmarked]
           got == Analysis[submitted]
<1>1. want \in FigureSet /\ got \in FigureSet
  BY AnalysisAssumption DEF IInv, Follows, FigureSet
<1>2. report = Compared(jobID, benchmarked, got, Visible(got))
  BY DEF IInv, Follows
<1>3. report.matches <=> Mismatches(want, got) = {} /\ Mismatches(want, Visible(got)) = {}
  BY <1>2 DEF Compared
<1>4. report.matches <=> SameFigures(want, got) /\ SameFigures(want, Visible(got))
  BY <1>3, NoMismatch
<1> HIDE DEF want, got
<1>5. report.matches <=> SameFigures(want, got) /\ Len(want.rows) <= RowLimit /\ ReadBack(want.rows) = want.rows
  BY <1>1, <1>4, PageAgrees
<1> QED BY <1>5 DEF want, got

-----------------------------------------------------------------------------
(* Types.                                                                  *)

\* What other clients send is accepted, if at all, with an input.
LEMMA OthersInput == OthersRead \subseteq Inputs
<1> SUFFICES ASSUME NEW form \in OtherForms, Submit(form).verdict = "ok"
             PROVE  Submit(form).input \in Inputs
  BY DEF OthersRead
<1> DEFINE parts == form.parts
<1>1. form \in Requests
  BY CrossCheckAssumption
<1>2. PICK file \in LastOf(parts, "file") : Submit(form).input = file.input
  BY <1>1, VerdictIsExact
<1>3. parts \in Seq(Part)
  BY <1>1, RequestShape
<1> HIDE DEF parts
<1>4. file \in Part /\ file.name = "file"
  BY <1>2, <1>3 DEF LastOf
<1>5. file \in FilePart
  BY <1>4 DEF Part, TextPart, OtherPart
<1> QED BY <1>2, <1>5 DEF FilePart

ServerTypes ==
  /\ stage \in Stages /\ boots \in 0 .. MaxBoots /\ call \in Calls
  /\ signalled \in BOOLEAN /\ closing \in BOOLEAN
  /\ prober \in {"probing", "delay", "gone"} /\ healthy \in BOOLEAN /\ ready \in BOOLEAN

LedgerTypes ==
  /\ phase \in [JobIDs -> States]
  /\ \A id \in JobIDs : owner[id].key = None /\ owner[id].payload \in Inputs \cup {None}

ReplyTypes ==
  /\ reply.status \in {0, 200, 202, 404, 409, 410, 422, 429, 503}
  /\ reply.job \in JobIDs \cup {None}

CheckTypes ==
  /\ pc \in {"idle", "submit", "status", "summary", "page"} \cup Stopped
  /\ benchmarked \in Inputs \cup {NoInput} /\ submitted \in Inputs \cup {NoInput}
  /\ jobID \in JobIDs \cup {None} /\ late \in BOOLEAN
  /\ IF pc = "report" THEN report.job = jobID /\ report.matches \in BOOLEAN ELSE report = None
  /\ pc = "error" <=> cause # ""

Types == ServerTypes /\ LedgerTypes /\ ReplyTypes /\ CheckTypes

LEMMA TypesOK == Types => TypeOK
<1>1. ASSUME Types PROVE TypeOK
  <2>1. ServerTypes /\ LedgerTypes /\ ReplyTypes /\ CheckTypes
    BY <1>1 DEF Types
  <2>2. phase \in [JobIDs -> {"none", "queued", "running", "succeeded", "failed", "expired", "lost"}]
    BY <2>1 DEF LedgerTypes, States
  <2>3. \A id \in JobIDs : owner[id].key = None /\ owner[id].payload \in Inputs \cup {None}
    BY <2>1 DEF LedgerTypes
  <2>4. /\ stage \in Stages /\ boots \in 0 .. MaxBoots /\ call \in Calls
        /\ signalled \in BOOLEAN /\ closing \in BOOLEAN
        /\ prober \in {"probing", "delay", "gone"} /\ healthy \in BOOLEAN /\ ready \in BOOLEAN
    BY <2>1 DEF ServerTypes
  <2>5. /\ reply.status \in {0, 200, 202, 404, 409, 410, 422, 429, 503}
        /\ reply.job \in JobIDs \cup {None}
    BY <2>1 DEF ReplyTypes
  <2>6. /\ pc \in {"idle", "submit", "status", "summary", "page"} \cup Stopped
        /\ benchmarked \in Inputs \cup {NoInput} /\ submitted \in Inputs \cup {NoInput}
        /\ jobID \in JobIDs \cup {None} /\ late \in BOOLEAN
        /\ IF pc = "report" THEN report.job = jobID /\ report.matches \in BOOLEAN
                             ELSE report = None
        /\ pc = "error" <=> cause # ""
    BY <2>1 DEF CheckTypes
  <2> QED BY <2>2, <2>3, <2>4, <2>5, <2>6 DEF TypeOK
<1> QED BY <1>1

LEMMA ServerTypesStep ==
  ASSUME ServerTypes, [Next]_vars
  PROVE  ServerTypes'
<1> USE DEF ServerTypes, Stages, Calls
<1>1. CASE Running
  <2>1. CASE Boot
    BY <2>1, BootAssumption DEF Boot
  <2>2. CASE Serve \/ BeginShutdown \/ ServeReturns \/ AcceptCall
    BY <2>2 DEF Serve, BeginShutdown, ServeReturns, AcceptCall, Cut
  <2>3. CASE Signal \/ ProbeAnswered \/ GiveUp \/ SetReady \/ DelayCancelled
    BY <2>3 DEF Signal, ProbeAnswered, GiveUp, SetReady, DelayCancelled, AfterProbe
  <2> QED BY <1>1, <2>1, <2>2, <2>3 DEF Running
<1>2. CASE Ending
  BY <1>2 DEF Ending, Exit, Crash, Die, Cut
<1>3. CASE UNCHANGED serverVars /\ call' \in Calls
  BY <1>3 DEF serverVars
<1>4. CASE Handle \/ OtherSubmits \/ (\E id \in JobIDs : Begin(id) \/ Finish(id) \/ Expire(id))
  BY <1>3, <1>4 DEF Handle, OtherSubmits, Begin, Finish, Expire
<1>5. CASE ReadCorpus \/ DeadlinePasses \/ Send \/ CallFails \/ TimeOut \/ Receive \/ UNCHANGED vars
  BY <1>3, <1>5 DEF ReadCorpus, DeadlinePasses, Send, CallFails, TimeOut, Receive, vars
<1> QED BY <1>1, <1>2, <1>4, <1>5 DEF Next, ProcessRuns, ProcessEnds

LEMMA AcceptTypes ==
  ASSUME LedgerTypes, Service, NEW id \in JobIDs, NEW input \in Inputs, Ledger!Accept(id, None, input)
  PROVE  LedgerTypes'
<1>1. /\ phase' = [phase EXCEPT ![id] = "queued"]
      /\ owner' = [owner EXCEPT ![id] = [key |-> None, payload |-> input]]
  BY DEF Ledger!Accept
<1> QED BY <1>1 DEF LedgerTypes, Service, States

LEMMA LedgerTypesStep ==
  ASSUME LedgerTypes, IInv, [Next]_vars
  PROVE  LedgerTypes'
<1>1. CASE UNCHANGED ledgerVars
  BY <1>1 DEF LedgerTypes, ledgerVars
<1>2. CASE \E id \in JobIDs, input \in Inputs : Ledger!Accept(id, None, input)
  BY <1>2, AcceptTypes DEF IInv
<1>3. CASE Handle
  <2>1. CASE pc = "submit" /\ ~UNCHANGED ledgerVars
    <3>1. HandleSubmit /\ submitted \in Inputs
      BY <1>3, <2>1 DEF Handle, IInv, Follows
    <3>2. /\ CorpusRead[submitted].verdict = "ok"
          /\ \E id \in JobIDs : Ledger!Accept(id, None, CorpusRead[submitted].input)
      BY <2>1, <3>1 DEF HandleSubmit
    <3>3. CorpusRead[submitted].input = submitted
      BY <3>1, <3>2, CorpusIsRead
    <3> QED BY <1>2, <3>1, <3>2, <3>3
  <2>2. CASE pc # "submit"
    BY <1>1, <1>3, <2>2 DEF Handle, HandleStatus, HandleSummary, HandlePage
  <2> QED BY <1>1, <2>1, <2>2
<1>4. CASE OtherSubmits
  <2> DEFINE free == CHOOSE id \in JobIDs : phase[id] = "none"
  <2>1. \E input \in OthersRead : Ledger!Accept(free, None, input)
    BY <1>4 DEF OtherSubmits
  <2>2. free \in JobIDs
    <3>1. In("none") # {}
      <4>1. Cardinality(In("none")) > 1
        BY <1>4 DEF OtherSubmits
      <4>2. Cardinality({}) = 0
        BY FS_EmptySet
      <4> QED BY <4>1, <4>2
    <3> QED BY <3>1 DEF In
  <2> HIDE DEF free
  <2> QED BY <1>2, <2>1, <2>2, OthersInput
<1>5. CASE \E id \in JobIDs : Begin(id) \/ Finish(id) \/ Expire(id)
  BY <1>5 DEF Begin, Finish, Expire, Ledger!Begin, Ledger!Finish, Ledger!Expire, LedgerTypes, States
<1>6. CASE ProcessEnds
  BY <1>6 DEF ProcessEnds, LoseLedger, LedgerTypes, States
<1>7. CASE ProcessRuns \/ ReadCorpus \/ DeadlinePasses \/ Send \/ CallFails \/ TimeOut \/ Receive \/ UNCHANGED vars
  BY <1>1, <1>7 DEF ProcessRuns, ReadCorpus, DeadlinePasses, Send, CallFails, TimeOut, Receive, vars
<1> QED BY <1>3, <1>4, <1>5, <1>6, <1>7 DEF Next

LEMMA AnswerTypes ==
  /\ \A code : Status(code).status = code /\ Status(code).job = None
  /\ \A id : Accepted(id).status = 202 /\ Accepted(id).job = id
  /\ \A id : StateReply(id).status = 200 /\ StateReply(id).job = id
  /\ \A id, output : Output(id, output).status = 200 /\ Output(id, output).job = id
  /\ NoReply.status = 0 /\ NoReply.job = None
BY DEF Status, Accepted, StateReply, Output, NoReply

LEMMA ReplyTypesStep ==
  ASSUME ReplyTypes, IInv, [Next]_vars
  PROVE  ReplyTypes'
<1>1. CASE UNCHANGED reply \/ reply' = NoReply
  BY <1>1, AnswerTypes DEF ReplyTypes
<1>2. CASE Handle
  <2>1. CASE \E code \in {404, 409, 410, 422, 429, 503} : reply' = Status(code)
    BY <2>1, AnswerTypes DEF ReplyTypes
  <2>2. CASE \E id \in JobIDs : reply' \in {Accepted(id), StateReply(id)}
    BY <2>2, AnswerTypes DEF ReplyTypes
  <2>3. CASE \E id \in JobIDs : \E output : reply' = Output(id, output)
    BY <2>3, AnswerTypes DEF ReplyTypes
  <2>4. CASE pc = "submit"
    BY <1>2, <2>1, <2>2, <2>4 DEF Handle, HandleSubmit
  <2>5. pc # "submit" => jobID \in JobIDs
    BY <1>2 DEF Handle, IInv, Follows
  <2>6. CASE pc = "status"
    <3>1. HandleStatus(jobID)
      BY <1>2, <2>6 DEF Handle
    <3>2. reply' \in {Status(503), Status(404), Status(410), StateReply(jobID)}
      BY <3>1 DEF HandleStatus
    <3> QED BY <2>1, <2>2, <2>5, <2>6, <3>2
  <2>7. CASE pc = "summary"
    <3>1. HandleSummary(jobID)
      BY <1>2, <2>7 DEF Handle
    <3>2. reply' \in {Status(503), Status(404), Status(410), Status(409), Output(jobID, SummaryOf(jobID))}
      BY <3>1 DEF HandleSummary, Gone
    <3> QED BY <2>1, <2>3, <2>5, <2>7, <3>2
  <2>8. CASE pc = "page"
    <3> DEFINE shown == Visible(SummaryOf(jobID))
    <3>1. HandlePage(jobID)
      BY <1>2, <2>8 DEF Handle
    <3>2. reply' \in {Status(404), Status(410), Status(409), Output(jobID, shown)}
      <4> HIDE DEF Visible
      <4> QED BY <3>1 DEF HandlePage, Gone
    <3> HIDE DEF shown
    <3> QED BY <2>1, <2>3, <2>5, <2>8, <3>2
  <2> QED BY <1>2, <2>4, <2>6, <2>7, <2>8 DEF Handle
<1>3. CASE ProcessRuns \/ ProcessEnds \/ OtherSubmits \/ (\E id \in JobIDs : Begin(id) \/ Finish(id) \/ Expire(id))
  BY <1>1, <1>3 DEF ProcessRuns, ProcessEnds, OtherSubmits, Begin, Finish, Expire, checkVars
<1>4. CASE ReadCorpus \/ DeadlinePasses \/ Send \/ CallFails \/ TimeOut \/ Receive \/ UNCHANGED vars
  BY <1>1, <1>4 DEF ReadCorpus, DeadlinePasses, Send, CallFails, TimeOut, Receive, vars, checkVars
<1> QED BY <1>2, <1>3, <1>4 DEF Next

LEMMA CheckTypesStep ==
  ASSUME CheckTypes, ReplyTypes, IInv, [Next]_vars
  PROVE  CheckTypes'
<1>1. CASE UNCHANGED <<pc, benchmarked, submitted, jobID, late, report, cause>>
  BY <1>1 DEF CheckTypes
<1>2. CASE pc # "report" /\ \E why : why # "" /\ FailWith(why)
  <2>1. pc' = "error" /\ cause' # "" /\ UNCHANGED <<benchmarked, submitted, jobID, late, report>>
    BY <1>2 DEF FailWith
  <2> QED BY <1>2, <2>1 DEF CheckTypes, Stopped
<1>3. CASE ProcessRuns \/ ProcessEnds \/ Handle \/ OtherSubmits
           \/ (\E id \in JobIDs : Begin(id) \/ Finish(id) \/ Expire(id)) \/ Send \/ UNCHANGED vars
  BY <1>1, <1>3 DEF ProcessRuns, ProcessEnds, Handle, OtherSubmits, Begin, Finish, Expire, Send,
                    vars, checkVars
<1>4. CASE ReadCorpus
  <2>1. Situations \subseteq Inputs \X Inputs
    BY CrossCheckAssumption
  <2> QED BY <1>4, <2>1 DEF ReadCorpus, CheckTypes, Stopped
<1>5. CASE DeadlinePasses
  BY <1>5 DEF DeadlinePasses, CheckTypes
<1>6. CASE CallFails \/ TimeOut
  <2>1. pc # "report"
    BY <1>6 DEF CallFails, TimeOut, IInv, Follows
  <2> QED BY <1>2, <1>6, <2>1 DEF CallFails, TimeOut
<1>7. CASE Receive
  <2>1. pc # "report" /\ pc # "error" /\ pc # "idle"
    BY <1>7 DEF Receive
  <2>2. CASE \E why : why # "" /\ FailWith(why)
    BY <1>2, <2>1, <2>2
  <2>3. CASE pc = "submit" /\ SubmitReply /\ reply.status = 202
    <3>1. /\ pc' = "status" /\ jobID' = reply.job /\ late' = FALSE
          /\ UNCHANGED <<benchmarked, submitted, report, cause>>
      BY <2>3 DEF SubmitReply
    <3>2. report = None /\ cause = "" /\ reply.job \in JobIDs \cup {None}
      BY <2>1 DEF CheckTypes, ReplyTypes
    <3>3. benchmarked \in Inputs \cup {NoInput} /\ submitted \in Inputs \cup {NoInput}
      BY DEF CheckTypes
    <3> QED BY <3>1, <3>2, <3>3 DEF CheckTypes
  <2>4. CASE pc = "status" /\ StatusReply /\ reply.state # "failed"
    <3>1. \/ pc' = pc
          \/ pc' = "summary"
      BY <2>4 DEF StatusReply
    <3>2. UNCHANGED <<benchmarked, submitted, jobID, late, report, cause>>
      BY <2>4 DEF StatusReply
    <3>3. pc' \in {"idle", "submit", "status", "summary", "page"} /\ pc' # "error" /\ pc' # "report"
      BY <2>4, <3>1
    <3>4. report = None /\ cause = ""
      BY <2>1 DEF CheckTypes
    <3> QED BY <3>2, <3>3, <3>4 DEF CheckTypes
  <2>5. CASE pc = "summary" /\ SummaryReply /\ reply.status = 200
    BY <2>1, <2>5 DEF SummaryReply, FailWith, CheckTypes, Stopped
  <2>6. CASE pc = "page" /\ PageReply /\ reply.status = 200
    <3>1. report' = Report(reply.output) /\ pc' = "report" /\ UNCHANGED <<benchmarked, submitted, jobID, late, cause>>
      BY <2>6 DEF PageReply, FailWith
    <3>2. report'.job = jobID /\ report'.matches \in BOOLEAN
      BY <3>1 DEF Report
    <3> QED BY <2>1, <3>1, <3>2 DEF CheckTypes, Stopped
  <2> QED BY <1>7, <2>2, <2>3, <2>4, <2>5, <2>6 DEF Receive, SubmitReply, StatusReply, SummaryReply, PageReply
<1> QED BY <1>3, <1>4, <1>5, <1>6, <1>7 DEF Next

-----------------------------------------------------------------------------
LEMMA Inductive == Spec => []IInv
BY Initially, Invariance, PTL DEF Spec

\* JobsOnlyAfterHealthz (main.go:99): a process knows jobs only after its own /healthz
\* has answered, however often it is started, signalled and killed.
THEOREM ReadinessFollowsHealthz == Spec => []JobsOnlyAfterHealthz
<1>1. IInv => JobsOnlyAfterHealthz
  BY DEF IInv, Service, JobsOnlyAfterHealthz
<1> QED BY <1>1, Inductive, PTL

\* ReportIsOfOneJob (crosscheck.go:50): the summary and the page in a report are those
\* of the one job accepted for the submitted corpus, through restarts.
THEOREM ReportsAreOfOneJob == Spec => []ReportIsOfOneJob
<1>1. IInv => ReportIsOfOneJob
  BY DEF IInv, Follows, Compared, ReportIsOfOneJob
<1> QED BY <1>1, Inductive, PTL

\* MatchExact (crosscheck.go:64): a cross-check matches exactly if the figures agree, the
\* rows fit on the page and their paths survive it.
THEOREM MatchesAreExact == Spec => []MatchExact
BY Exactly, Inductive, PTL

\* LostOnlyIfGone (crosscheck.go:134): after a status "succeeded", a refused summary or page
\* means that the job has expired or its process has ended.
THEOREM LostMeansGone == Spec => []LostOnlyIfGone
<1>1. IInv => LostOnlyIfGone
  BY DEF IInv, Fails, Past, LostOnlyIfGone
<1> QED BY <1>1, Inductive, PTL

\* TypeOK: for any jobs, inputs, starts and interleavings a state is type correct, a
\* report is there only at the end, and every error has its cause (crosscheck.go:27).
THEOREM CheckIsTyped == Spec => []TypeOK
<1>1. Init => Types
  <2> SUFFICES ASSUME Init PROVE Types
    OBVIOUS
  <2>1. ServerTypes
    <3>1. 0 \in 0 .. MaxBoots
      BY BootAssumption
    <3> QED BY <3>1 DEF Init, ServerInit, ServerTypes, Stages, Calls
  <2>2. LedgerTypes
    BY DEF Init, LedgerTypes, States, Ledger!Nobody
  <2>3. ReplyTypes /\ CheckTypes
    BY DEF Init, ReplyTypes, CheckTypes, Stopped, NoReply
  <2> QED BY <2>1, <2>2, <2>3 DEF Types
<1>2. Types /\ IInv /\ [Next]_vars => Types'
  BY ServerTypesStep, LedgerTypesStep, ReplyTypesStep, CheckTypesStep DEF Types
<1> QED BY <1>1, <1>2, TypesOK, Inductive, PTL DEF Spec

\* FormVerdict (analysis_handler.go:307): every form the checks compare, of whatever parts,
\* is accepted exactly if it is well formed, and read as its last file.
THEOREM VerdictsAreExact == Spec => []FormVerdict
<1>1. FormVerdict
  BY CrossCheckAssumption, VerdictIsExact DEF FormVerdict
<1> QED BY <1>1, PTL
=============================================================================
