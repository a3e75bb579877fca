---------------------- MODULE AnalysisRefinement_proofs ----------------------
(***************************************************************************)
(* No job is lost, no answer is wrong, and AnalysisService implements      *)
(* AnalysisLedger, for every set of handlers, jobs, keys and payloads and  *)
(* every finite set of workers.                                            *)
(***************************************************************************)
EXTENDS AnalysisRefinement, AnalysisService_proofs, FiniteSetTheorems, FunctionTheorems

(***************************************************************************)
(* No job is lost.                                                         *)
(***************************************************************************)
\* An accepted job keeps its submission, and stays expired.
LEMMA Persists ==
  ASSUME Consistent, [Next]_vars, NEW id \in accepted
  PROVE  /\ id \in JobIDs /\ id \in accepted' /\ origin'[id] = origin[id]
         /\ jobs[id].state = "expired" => jobs'[id].state = "expired"
<1>1. id \in JobIDs /\ origin[id] # NoOrigin
  BY DEF Consistent, TypeOK, StoredState
<1>2. jobs[id].state = "expired" => jobs'[id].state = "expired"
  BY AcceptedJob DEF Terminal
<1>3. QED
  BY <1>1, <1>2, HistoryStep

\* The work of a worker that has started a job.
LEMMA WorkerSteps ==
  ASSUME Consistent, [Next]_vars, NEW w \in Workers
  PROVE  /\ wpc[w] = "start" => \/ wpc'[w] = "start" /\ work'[w] = work[w]
                                \/ Start(w) /\ wpc'[w] = "analyze" /\ work'[w] = work[w]
         /\ wpc[w] = "analyze" => \/ wpc'[w] = "analyze" /\ work'[w] = work[w]
                                  \/ StoreSummary(w) /\ wpc'[w] = "publish" /\ work'[w] = work[w]
                                  \/ Fail(w)
         /\ wpc[w] = "publish" => \/ wpc'[w] = "publish" /\ work'[w] = work[w]
                                  \/ Succeed(w)
<1>1. CASE wpc'[w] = wpc[w]
  BY <1>1, WorkerFrame DEF Consistent
<1>2. CASE wpc'[w] # wpc[w]
  <2>1. WorkerStep(w)
    BY <1>2, WorkerFrame DEF Consistent
  <2>2. QED
    BY <2>1 DEF WorkerStep, Take, Start, StoreSummary, Fail, Succeed, WGoto, Consistent, TypeOK
<1>3. QED
  BY <1>1, <1>2

\* The job of a worker that starts, fails or succeeds says so afterwards.
LEMMA WorkerWrites ==
  ASSUME Consistent, [Next]_vars, NEW w \in Workers
  PROVE  /\ Start(w) => jobs'[work[w].job].state = "running"
         /\ Fail(w) => jobs'[work[w].job].state = "failed"
         /\ Succeed(w) => jobs'[work[w].job].state = "succeeded"
<1>1. Start(w) \/ Fail(w) \/ Succeed(w) => /\ wpc[w] # "waiting" /\ work[w].job \in accepted
  BY DEF Start, Fail, Succeed, WGoto, Consistent, QueueState
<1>2. work[w].job \in accepted =>
        /\ work[w].job \in JobIDs /\ Stored(jobs, work[w].job)
        /\ jobs \in [JobIDs -> Job \cup {NoJob}]
  BY DEF Consistent, StoredState, TypeOK
<1>3. QED
  BY <1>1, <1>2 DEF Start, Fail, Succeed, Update

\* Every unfinished job stays somewhere.
LEMMA HeldStep ==
  ASSUME Consistent, Held, [Next]_vars
  PROVE  Held'
<1>0. jobQueue \in Seq(Item) /\ wpc \in [Workers -> WorkerStates]
      /\ work \in [Workers -> Item \cup {NoWork}]
  BY DEF Consistent, TypeOK
<1> SUFFICES ASSUME NEW id \in accepted'
             PROVE  /\ jobs'[id].state = "queued" =>
                         \/ \E i \in 1..Len(jobQueue') : jobQueue'[i].job = id
                         \/ \E w \in Workers : wpc'[w] = "start" /\ work'[w].job = id
                    /\ jobs'[id].state = "running" =>
                         \E w \in Workers : wpc'[w] \in {"analyze", "publish"} /\ work'[w].job = id
  BY DEF Held
<1>1. CASE id \notin accepted
  <2>1. id \in JobIDs
    <3>1. PICK h \in Handlers : Enqueue(h) /\ accepted' = accepted \cup {subject[h]}
      BY <1>1, Writers DEF Enqueue
    <3>2. pc[h] \in Building /\ subject[h] = id
      BY <1>1, <3>1 DEF Enqueue, Goto, Building
    <3>3. QED
      BY <3>2, BuilderKnows
  <2>2. PICK h \in Handlers : Enqueue(h) /\ subject[h] = id
    BY <1>1, <2>1, HistoryStep
  <2>3. jobQueue' = Append(jobQueue, [job |-> id, payload |-> request[h].payload])
        /\ jobs' = jobs
    BY <2>2 DEF Enqueue
  <2>4. jobs[id].state = "queued"
    BY <2>2 DEF Enqueue, Goto, Building, Consistent, JobOwnership
  <2> DEFINE n == Len(jobQueue) + 1
             new == [job |-> id, payload |-> request[h].payload]
  <2>5. new.job = id
    OBVIOUS
  <2>6. pc[h] \in Building
    BY <2>2 DEF Enqueue, Goto, Building
  <2> HIDE DEF new
  <2>7. n \in 1..Len(jobQueue') /\ jobQueue'[n] = new
    BY <1>0, <2>3 DEF new
  <2>8. QED
    BY <2>3, <2>4, <2>5, <2>7
<1>2. CASE id \in accepted /\ jobs'[id] = jobs[id]
  <2>1. CASE jobs[id].state = "queued"
    <3>1. CASE \E i \in 1..Len(jobQueue) : jobQueue[i].job = id
      <4>1. PICK i \in 1..Len(jobQueue) : jobQueue[i].job = id
        BY <3>1
      <4>2. CASE UNCHANGED jobQueue
        BY <1>2, <2>1, <4>1, <4>2
      <4>3. CASE \E h \in Handlers : Enqueue(h)
        <5>1. PICK item : jobQueue' = Append(jobQueue, item)
          BY <4>3 DEF Enqueue
        <5>2. i \in 1..Len(jobQueue') /\ jobQueue'[i] = jobQueue[i]
          BY <1>0, <5>1
        <5>3. QED
          BY <1>2, <2>1, <4>1, <5>2
      <4>4. CASE \E w \in Workers : Take(w)
        <5>1. PICK w \in Workers : Take(w)
          BY <4>4
        <5>2. jobQueue # <<>> /\ jobQueue' = Tail(jobQueue) /\ wpc'[w] = "start" /\ work'[w] = Head(jobQueue)
          BY <1>0, <5>1 DEF Take, WGoto, Received
        <5>3. CASE i = 1
          <6>1. Head(jobQueue) = jobQueue[1]
            BY <1>0, <5>2
          <6>2. QED
            BY <1>2, <2>1, <4>1, <5>2, <5>3, <6>1
        <5>4. CASE i # 1
          <6>1. i - 1 \in 1..Len(jobQueue') /\ jobQueue'[i - 1] = jobQueue[i]
            BY <1>0, <5>2, <5>4
          <6>2. QED
            BY <1>2, <2>1, <4>1, <6>1
        <5>5. QED
          BY <5>3, <5>4
      <4>5. QED
        BY <4>2, <4>3, <4>4, Writers
    <3>2. CASE \E w \in Workers : wpc[w] = "start" /\ work[w].job = id
      <4>1. PICK w \in Workers : wpc[w] = "start" /\ work[w].job = id
        BY <3>2
      <4>2. ~Start(w)
        BY <1>2, <2>1, <4>1, WorkerWrites
      <4>3. wpc'[w] = "start" /\ work'[w] = work[w]
        BY <4>1, <4>2, WorkerSteps
      <4>4. QED
        BY <1>2, <2>1, <4>1, <4>3
    <3>3. QED
      BY <1>2, <2>1, <3>1, <3>2 DEF Held
  <2>2. CASE jobs[id].state = "running"
    <3>1. PICK w \in Workers : wpc[w] \in {"analyze", "publish"} /\ work[w].job = id
      BY <1>2, <2>2 DEF Held
    <3>2. ~Fail(w) /\ ~Succeed(w)
      BY <1>2, <2>2, <3>1, WorkerWrites
    <3>3. wpc'[w] \in {"analyze", "publish"} /\ work'[w] = work[w]
      BY <3>1, <3>2, WorkerSteps
    <3>4. QED
      BY <1>2, <2>2, <3>1, <3>3
  <2>3. QED
    BY <1>2, <2>1, <2>2
<1>3. CASE id \in accepted /\ jobs'[id] # jobs[id]
  <2>1. CASE jobs'[id].state = "running"
    <3>1. PICK w \in Workers : Start(w) /\ work[w].job = id
      BY <1>3, <2>1, AcceptedJob
    <3>2. wpc'[w] = "analyze" /\ work'[w] = work[w]
      BY <1>0, <3>1 DEF Start, WGoto
    <3>3. QED
      BY <2>1, <3>1, <3>2
  <2>2. CASE jobs'[id].state # "running"
    <3>1. jobs'[id].state # "queued"
      BY <1>3, AcceptedJob
    <3>2. QED
      BY <2>2, <3>1
  <2>3. QED
    BY <2>1, <2>2
<1>4. QED
  BY <1>1, <1>2, <1>3

\* NoJobLostOrDuplicated counts places; QueueState and Held make them one or none.
LEMMA Counted ==
  ASSUME Consistent, Held
  PROVE  NoJobLostOrDuplicated
<1>0. jobQueue \in Seq(Item) /\ Len(jobQueue) \in Nat
  BY DEF Consistent, TypeOK
<1> SUFFICES ASSUME NEW id \in accepted
             PROVE  /\ Stored(jobs, id)
                    /\ Cardinality(InQueue(id)) + Cardinality(WorkersOn(id, {"start"}))
                         = (IF jobs[id].state = "queued" THEN 1 ELSE 0)
                    /\ Cardinality(WorkersOn(id, {"analyze", "publish"}))
                         = (IF jobs[id].state = "running" THEN 1 ELSE 0)
  BY DEF NoJobLostOrDuplicated
<1> DEFINE queued == InQueue(id)
           starting == WorkersOn(id, {"start"})
           running == WorkersOn(id, {"analyze", "publish"})
<1>1. Stored(jobs, id)
  BY DEF Consistent, TypeOK, StoredState
<1>2. ASSUME NEW S, \A x, y \in S : x = y
      PROVE  Cardinality(S) = IF S = {} THEN 0 ELSE 1
  <2>1. CASE S = {}
    BY <2>1, FS_EmptySet
  <2>2. CASE S # {}
    <3>1. PICK x \in S : TRUE
      BY <2>2
    <3>2. S = {x}
      BY <1>2, <3>1
    <3>3. QED
      BY <2>2, <3>2, FS_Singleton
  <2>3. QED
    BY <2>1, <2>2
<1>3. \A i, j \in queued : i = j
  BY DEF InQueue, Consistent, QueueState
<1>4. /\ \A v, w \in starting : v = w
      /\ \A v, w \in running : v = w
  BY DEF WorkersOn, Consistent, QueueState
<1>5. /\ queued # {} => jobs[id].state = "queued" /\ starting = {}
      /\ starting # {} => jobs[id].state = "queued"
      /\ running # {} => jobs[id].state = "running"
  BY DEF InQueue, WorkersOn, Consistent, QueueState
<1>6. /\ jobs[id].state = "queued" => queued # {} \/ starting # {}
      /\ jobs[id].state = "running" => running # {}
  BY DEF InQueue, WorkersOn, Held
<1>7. /\ Cardinality(queued) = IF queued = {} THEN 0 ELSE 1
      /\ Cardinality(starting) = IF starting = {} THEN 0 ELSE 1
      /\ Cardinality(running) = IF running = {} THEN 0 ELSE 1
  <2> HIDE DEF queued, starting, running
  <2>1. QED
    BY <1>2, <1>3, <1>4
<1> HIDE DEF queued, starting, running
<1>8. /\ Cardinality(queued) + Cardinality(starting) = (IF jobs[id].state = "queued" THEN 1 ELSE 0)
      /\ Cardinality(running) = (IF jobs[id].state = "running" THEN 1 ELSE 0)
  BY <1>5, <1>6, <1>7
<1>9. QED
  BY <1>1, <1>8 DEF queued, starting, running

(***************************************************************************)
(* Results are those of the submission.                                    *)
(***************************************************************************)
LEMMA ProducedStep ==
  ASSUME Consistent, Produced, [Next]_vars
  PROVE  Produced'
<1>1. ASSUME NEW w \in Workers, wpc'[w] = "publish"
      PROVE  ~Fails(work'[w].payload)
  <2>1. CASE wpc'[w] = wpc[w]
    BY <1>1, <2>1, WorkerFrame DEF Produced, Consistent
  <2>2. CASE wpc'[w] # wpc[w]
    <3>1. WorkerStep(w) /\ wpc \in [Workers -> WorkerStates]
      BY <2>2, WorkerFrame DEF Consistent, TypeOK
    <3>2. StoreSummary(w)
      BY <1>1, <3>1 DEF WorkerStep, Take, Start, Fail, Succeed, WGoto, NextItem
    <3>3. QED
      BY <3>2 DEF StoreSummary
  <2>3. QED
    BY <2>1, <2>2
<1>2. ASSUME NEW id \in JobIDs
      PROVE  workspaces'[id] \in {NoWorkspace, EmptyWorkspace, origin'[id].payload}
  <2>0. /\ workspaces[id] \in {NoWorkspace, EmptyWorkspace, origin[id].payload}
        /\ workspaces \in [JobIDs -> Payloads \cup {NoWorkspace, EmptyWorkspace}]
    BY DEF Produced, Consistent, TypeOK
  <2>1. CASE id \in accepted
    <3>1. origin'[id] = origin[id]
      BY <2>1, Persists
    <3>2. workspaces'[id] \in {workspaces[id], NoWorkspace, origin[id].payload}
      BY <2>1, AcceptedWorkspace
    <3>3. QED
      BY <2>0, <3>1, <3>2
  <2>2. CASE id \notin accepted
    <3>1. CASE workspaces'[id] = workspaces[id]
      <4>1. origin'[id] = origin[id] \/ origin[id] = NoOrigin
        BY HistoryStep
      <4>2. origin[id] = NoOrigin => workspaces[id] = NoWorkspace
        BY DEF Consistent, StoredState
      <4>3. QED
        BY <2>0, <3>1, <4>1, <4>2
    <3>2. CASE \E h \in Handlers : MakeWorkspace(h) /\ subject[h] = id
      BY <2>0, <3>2 DEF MakeWorkspace
    <3>3. CASE \E h \in Handlers : RollbackWorkspace(h) /\ subject[h] = id
      BY <2>0, <3>3 DEF RollbackWorkspace
    <3>4. QED
      BY <2>2, <3>1, <3>2, <3>3, UnacceptedJob
  <2>3. QED
    BY <2>1, <2>2
<1>3. ASSUME NEW id \in JobIDs, jobs'[id].state = "failed"
      PROVE  jobs'[id].error = Outcome[origin'[id].payload]
  <2>1. CASE id \notin accepted
    <3>1. jobs[id].state \in {"absent", "queued"}
      BY <2>1 DEF Consistent, StoredState
    <3>2. QED
      BY <1>3, <2>1, <3>1, UnacceptedJob
  <2>2. CASE id \in accepted
    <3>1. origin'[id] = origin[id]
      BY <2>2, Persists
    <3>2. CASE jobs'[id] = jobs[id]
      BY <1>3, <3>1, <3>2 DEF Produced
    <3>3. CASE jobs'[id] # jobs[id]
      <4>1. PICK w \in Workers : Fail(w) /\ work[w].job = id
        BY <1>3, <2>2, <3>3, AcceptedJob
      <4>2. /\ jobs' = Update(jobs, id, "failed", clock, Outcome[work[w].payload])
            /\ work[w].payload = origin[id].payload
            /\ Stored(jobs, id) /\ jobs \in [JobIDs -> Job \cup {NoJob}]
        BY <2>2, <4>1 DEF Fail, WGoto, Consistent, QueueState, StoredState, TypeOK
      <4>3. jobs'[id].error = Outcome[work[w].payload]
        BY <4>2 DEF Update
      <4>4. QED
        BY <3>1, <4>2, <4>3
    <3>4. QED
      BY <3>2, <3>3
  <2>3. QED
    BY <2>1, <2>2
<1>4. QED
  BY <1>1, <1>2, <1>3 DEF Produced, Fails

(***************************************************************************)
(* Answers.                                                                *)
(***************************************************************************)
\* Which steps write a response.
LEMMA Answering ==
  ASSUME TypeOK, [Next]_vars, NEW h \in Handlers, reply'[h] # reply[h]
  PROVE  \/ Refuse(h) \/ LookupConflict(h) \/ LookupHit(h)
         \/ Enqueue(h) \/ RecordKey(h) \/ RollbackWorkspace(h)
         \/ GetJob(h) \/ ReadWorkspace(h) \/ WriteIndex(h) \/ Respond(h)
<1>1. Arrive(h) \/ HandlerStep(h) \/ Acquire(h)
  BY Frame, OthersFrame DEF Next, handlerVars
<1>2. ~Arrive(h) /\ ~Acquire(h) /\ ~Sweep(h) /\ ~ExpireJob(h) /\ ~DropWorkspace(h)
      /\ ~Route(h) /\ ~LookupMiss(h) /\ ~CreateJob(h) /\ ~MakeWorkspace(h)
      /\ ~QueueFull(h) /\ ~RollbackStore(h) /\ ~ListReports(h) /\ ~CollectReport(h)
  BY DEF Arrive, Acquire, Lock, DropKeys, Sweep, ExpireJob, DropWorkspace, Route,
     LookupMiss, CreateJob, MakeWorkspace, QueueFull, RollbackStore, ListReports,
     CollectReport
<1>3. QED
  BY <1>1, <1>2 DEF HandlerStep

\* A response is there until it is written out.
LEMMA ReplyStays ==
  ASSUME TypeOK, [Next]_vars, NEW h \in Handlers, pc[h] = "reply"
  PROVE  \/ pc'[h] = "reply" /\ reply'[h] = reply[h] /\ request'[h] = request[h]
         \/ reply'[h] = NoReply
<1>1. CASE pc'[h] = pc[h]
  BY <1>1, Stays
<1>2. CASE pc'[h] # pc[h]
  <2>1. Arrive(h) \/ HandlerStep(h) \/ Acquire(h)
    BY <1>2, Frame, OthersFrame DEF Next, handlerVars
  <2>2. Respond(h)
    BY <2>1 DEF Arrive, HandlerStep, Acquire, Sweep, ExpireJob, DropWorkspace, Refuse, Route,
       LookupConflict, LookupHit, LookupMiss, CreateJob, MakeWorkspace, Enqueue, QueueFull,
       RecordKey, RollbackStore, RollbackWorkspace, GetJob, ReadWorkspace, ListReports,
       CollectReport, WriteIndex, Lock, DropKeys, Goto
  <2>3. QED
    BY <2>2 DEF Respond, TypeOK
<1>3. QED
  BY <1>1, <1>2

\* What is told of handler h, in one formula.
Truth(h) ==
  LET r == reply[h] IN
  /\ r.status = "accepted" =>
       /\ r.job \in accepted
       /\ origin[r.job] = [key |-> request[h].key, payload |-> request[h].payload]
  /\ r.status = "conflict" =>
       \E id \in accepted : /\ origin[id].key = request[h].key
                            /\ origin[id].payload # request[h].payload
  /\ r.status = "summary" =>
       r.job \in accepted /\ r.detail = origin[r.job].payload
  /\ r.status = "failed" => r.job \in accepted /\ r.detail = Outcome[origin[r.job].payload]
  /\ r.status = "expired" => r.job \in accepted /\ jobs[r.job].state = "expired"
  /\ r.status # "none" => pc[h] = "reply"

LEMMA TruthTold == Told <=> \A h \in Handlers : Truth(h)
BY DEF Told, ReplySound, Truth

\* The response that a step writes, spelled out.
Says(h, status, job, detail) ==
  /\ reply'[h].status = status /\ reply'[h].job = job /\ reply'[h].detail = detail
  /\ pc'[h] = "reply" /\ request'[h] = request[h]
  /\ UNCHANGED <<jobs, origin>> /\ accepted \subseteq accepted'

LEMMA Written ==
  ASSUME TypeOK, NEW h \in Handlers
  PROVE  /\ Refuse(h) => Says(h, "unready", None, None) \/ Says(h, "invalid", None, None)
         /\ LookupConflict(h) => Says(h, "conflict", None, None)
         /\ LookupHit(h) => Says(h, "accepted", idempotency[request[h].key].job, None)
         /\ Enqueue(h) /\ ~Keyed(h) => Says(h, "accepted", subject[h], None)
         /\ RecordKey(h) => Says(h, "accepted", subject[h], None)
         /\ RollbackWorkspace(h) => Says(h, "saturated", None, None)
         /\ WriteIndex(h) => Says(h, "index", None, None)
         /\ Respond(h) => reply'[h].status = "none"
<1> USE DEF TypeOK, Goto, Answer, Says, storeVars, history
<1>1. /\ Refuse(h) => Says(h, "unready", None, None) \/ Says(h, "invalid", None, None)
      /\ LookupConflict(h) => Says(h, "conflict", None, None)
      /\ LookupHit(h) => Says(h, "accepted", idempotency[request[h].key].job, None)
  BY DEF Refuse, LookupConflict, LookupHit
<1>2. /\ Enqueue(h) /\ ~Keyed(h) => Says(h, "accepted", subject[h], None)
      /\ RecordKey(h) => Says(h, "accepted", subject[h], None)
  BY DEF Enqueue, RecordKey
<1>3. /\ RollbackWorkspace(h) => Says(h, "saturated", None, None)
      /\ WriteIndex(h) => Says(h, "index", None, None)
      /\ Respond(h) => reply'[h].status = "none"
  BY DEF RollbackWorkspace, WriteIndex, Respond, NoReply
<1>4. QED
  BY <1>1, <1>2, <1>3

\* The response of a query, from the state of its job.
LEMMA WrittenByQuery ==
  ASSUME TypeOK, NEW h \in Handlers
  PROVE  /\ GetJob(h) /\ reply'[h] # reply[h] =>
              \/ Says(h, "missing", subject[h], None)
              \/ Says(h, "expired", subject[h], None) /\ jobs[subject[h]].state = "expired"
              \/ Says(h, "status", subject[h], jobs[subject[h]].state)
              \/ Says(h, "notReady", subject[h], None)
              \/ Says(h, "failed", subject[h], jobs[subject[h]].error) /\ jobs[subject[h]].state = "failed"
         /\ ReadWorkspace(h) =>
              \/ Says(h, "missing", subject[h], None)
              \/ Says(h, "summary", subject[h], workspaces[subject[h]]) /\ HasSummary(subject[h])
<1> USE DEF TypeOK, Goto, Answer, Says, storeVars, history
<1>1. ASSUME GetJob(h), reply'[h] # reply[h]
      PROVE  \/ Says(h, "missing", subject[h], None)
             \/ Says(h, "expired", subject[h], None) /\ jobs[subject[h]].state = "expired"
             \/ Says(h, "status", subject[h], jobs[subject[h]].state)
             \/ Says(h, "notReady", subject[h], None)
             \/ Says(h, "failed", subject[h], jobs[subject[h]].error) /\ jobs[subject[h]].state = "failed"
  BY <1>1 DEF GetJob, NeedsWorkspace
<1>2. QED
  BY <1>1 DEF ReadWorkspace

LEMMA ToldStep ==
  ASSUME Consistent, Produced, Told, [Next]_vars
  PROVE  Told'
<1>0. TypeOK /\ Records
  BY DEF Consistent
<1> SUFFICES ASSUME NEW h \in Handlers PROVE Truth(h)'
  BY DEF Told, ReplySound, Truth
<1>1. Truth(h)
  BY TruthTold
<1>2. CASE reply'[h].status = "none"
  BY <1>2 DEF Truth
<1>3. CASE reply'[h] = reply[h] /\ reply[h].status # "none"
  <2>1. pc'[h] = "reply" /\ request'[h] = request[h]
    <3>1. pc[h] = "reply" /\ reply[h] # NoReply
      BY <1>1, <1>3 DEF Truth, NoReply
    <3>2. QED
      BY <1>0, <1>3, <3>1, ReplyStays
  <2>2. \A id \in accepted : id \in accepted' /\ origin'[id] = origin[id]
                             /\ (jobs[id].state = "expired" => jobs'[id].state = "expired")
    BY Persists
  <2>3. QED
    BY <1>1, <1>3, <2>1, <2>2 DEF Truth
<1>4. CASE reply'[h] # reply[h]
  <2>1. ASSUME NEW s \in {"unready", "invalid", "saturated", "missing", "status", "notReady", "index"},
               NEW j, NEW d, Says(h, s, j, d)
        PROVE  Truth(h)'
    BY <2>1 DEF Says, Truth
  <2>2. ASSUME NEW id \in accepted', Says(h, "accepted", id, None),
               origin[id] = [key |-> request[h].key, payload |-> request[h].payload]
        PROVE  Truth(h)'
    BY <2>2 DEF Says, Truth
  <2>3. ASSUME LookupConflict(h) \/ LookupHit(h)
        PROVE  /\ request[h].key \in Keys /\ request[h].payload \in Payloads
               /\ idempotency[request[h].key].job \in accepted
               /\ origin[idempotency[request[h].key].job] =
                    [key |-> request[h].key, payload |-> idempotency[request[h].key].payload]
    <3>1. pc[h] = "lookup" /\ Recorded(h)
      BY <2>3 DEF LookupConflict, LookupHit, Goto
    <3>2. request[h].key \in Keys /\ request[h].payload \in Payloads
      BY <3>1 DEF Consistent, HandlerLocals, Submitting, Submission, Keyed
    <3>3. QED
      BY <1>0, <3>1, <3>2 DEF Records, Recorded
  <2>4. CASE LookupConflict(h)
    <3> DEFINE id == idempotency[request[h].key].job
    <3>1. Says(h, "conflict", None, None) /\ idempotency[request[h].key].payload # request[h].payload
      BY <1>0, <2>4, Written DEF LookupConflict, SameSubmission
    <3>2. id \in accepted /\ origin[id].key = request[h].key /\ origin[id].payload # request[h].payload
      BY <2>3, <2>4, <3>1
    <3> HIDE DEF id
    <3>3. QED
      BY <3>1, <3>2 DEF Says, Truth
  <2>5. CASE LookupHit(h)
    <3>1. /\ Says(h, "accepted", idempotency[request[h].key].job, None)
          /\ idempotency[request[h].key].payload = request[h].payload /\ accepted' = accepted
      BY <1>0, <2>5, Written DEF LookupHit, SameSubmission, history
    <3>2. QED
      BY <2>2, <2>3, <2>5, <3>1
  <2>6. CASE Enqueue(h)
    <3>1. ~Keyed(h)
      BY <1>4, <2>6 DEF Enqueue
    <3>2. Says(h, "accepted", subject[h], None)
      BY <1>0, <2>6, <3>1, Written
    <3>3. pc[h] \in Building /\ subject[h] \in accepted'
      BY <2>6 DEF Enqueue, Goto, Building
    <3>4. QED
      BY <2>2, <3>2, <3>3, BuilderKnows
  <2>7. CASE RecordKey(h)
    <3>1. pc[h] = "record" /\ accepted' = accepted
      BY <2>7 DEF RecordKey, Goto, history
    <3>2. subject[h] \in accepted
      BY <3>1 DEF Consistent, JobOwnership
    <3>3. Says(h, "accepted", subject[h], None)
      BY <1>0, <2>7, Written
    <3>4. QED
      BY <2>2, <3>1, <3>2, <3>3, BuilderKnows
  <2>8. CASE GetJob(h)
    <3>1. /\ pc[h] = "get" /\ subject[h] \in JobIDs
      BY <2>8 DEF GetJob, Goto, Consistent, HandlerLocals, Reading
    <3>2. jobs[subject[h]].state \in {"failed", "expired"} => subject[h] \in accepted
      BY <3>1 DEF Consistent, StoredState
    <3>3. jobs[subject[h]].state = "failed" =>
            jobs[subject[h]].error = Outcome[origin[subject[h]].payload]
      BY <3>1 DEF Produced
    <3>4. CASE Says(h, "expired", subject[h], None) /\ jobs[subject[h]].state = "expired"
      BY <3>2, <3>4 DEF Says, Truth
    <3>5. CASE Says(h, "failed", subject[h], jobs[subject[h]].error) /\ jobs[subject[h]].state = "failed"
      BY <3>2, <3>3, <3>5 DEF Says, Truth
    <3>6. QED
      BY <1>0, <1>4, <2>1, <2>8, <3>4, <3>5, WrittenByQuery
  <2>9. CASE ReadWorkspace(h)
    <3>1. /\ pc[h] = "readWorkspace" /\ subject[h] \in accepted /\ subject[h] \in JobIDs
      BY <2>9 DEF ReadWorkspace, Goto, Consistent, Snapshots, HandlerLocals, Reading
    <3>2. HasSummary(subject[h]) => workspaces[subject[h]] = origin[subject[h]].payload
      BY <3>1 DEF Produced, HasSummary
    <3>3. CASE Says(h, "summary", subject[h], workspaces[subject[h]]) /\ HasSummary(subject[h])
      BY <3>1, <3>2, <3>3 DEF Says, Truth
    <3>4. QED
      BY <1>0, <2>1, <2>9, <3>3, WrittenByQuery
  <2>10. CASE Refuse(h) \/ RollbackWorkspace(h) \/ WriteIndex(h) \/ Respond(h)
    BY <1>0, <1>2, <2>1, <2>10, Written
  <2>11. QED
    BY <1>0, <1>4, <2>4, <2>5, <2>6, <2>7, <2>8, <2>9, <2>10, Answering
<1>5. QED
  BY <1>2, <1>3, <1>4

(***************************************************************************)
(* The ledger.                                                             *)
(***************************************************************************)
\* Each submission in progress has a queue slot or a worker of its own.
LEMMA PlacesInFlight ==
  ASSUME Consistent, Held
  PROVE  /\ Cardinality(InFlight) \in Nat /\ Cardinality(Workers) \in Nat
         /\ Cardinality(InFlight) <= Len(jobQueue) + Cardinality(Workers)
<1>0. Len(jobQueue) \in Nat
  BY DEF Consistent, TypeOK
<1> DEFINE slots == 1..Len(jobQueue)
           A == {id \in accepted : \E i \in slots : jobQueue[i].job = id}
           B == {id \in accepted : \E w \in Workers : wpc[w] # "waiting" /\ work[w].job = id}
           f == [id \in A |-> CHOOSE i \in slots : jobQueue[i].job = id]
           g == [id \in B |-> CHOOSE w \in Workers : wpc[w] # "waiting" /\ work[w].job = id]
<1>1. IsFiniteSet(slots) /\ Cardinality(slots) = Len(jobQueue)
  <2>1. /\ IsFiniteSet(slots)
        /\ Cardinality(slots) = IF 1 > Len(jobQueue) THEN 0 ELSE Len(jobQueue) - 1 + 1
    <3>1. 1 \in Int /\ Len(jobQueue) \in Int
      BY <1>0
    <3> HIDE <1>0
    <3>2. QED
      BY <3>1, FS_Interval
  <2> HIDE DEF slots
  <2>2. QED
    BY <1>0, <2>1
<1>2. IsFiniteSet(A) /\ Cardinality(A) <= Len(jobQueue)
  <2>1. \A id \in A : f[id] \in slots /\ jobQueue[f[id]].job = id
    OBVIOUS
  <2>2. f \in [A -> slots]
    BY <2>1
  <2> HIDE DEF A, f, slots
  <2>3. f \in Injection(A, slots)
    BY <2>1, <2>2, Fun_IsInj
  <2>4. QED
    BY <1>1, <2>3, FS_Injection
<1>3. IsFiniteSet(B) /\ Cardinality(B) <= Cardinality(Workers)
  <2>1. \A id \in B : g[id] \in Workers /\ work[g[id]].job = id
    OBVIOUS
  <2>2. g \in [B -> Workers]
    BY <2>1
  <2> HIDE DEF B, g
  <2>3. g \in Injection(B, Workers)
    BY <2>1, <2>2, Fun_IsInj
  <2>4. QED
    BY <2>3, FS_Injection, WorkersAssumption
<1>4. InFlight \subseteq A \cup B
  BY DEF InFlight, Held
<1> HIDE DEF A, B, slots
<1>5. /\ IsFiniteSet(A \cup B) /\ IsFiniteSet(A \cap B)
      /\ Cardinality(A \cup B) = Cardinality(A) + Cardinality(B) - Cardinality(A \cap B)
  <2>1. A \cap B \in SUBSET A
    OBVIOUS
  <2>2. QED
    BY <1>2, <1>3, <2>1, FS_Union, FS_Subset
<1>6. /\ Cardinality(A) \in Nat /\ Cardinality(B) \in Nat /\ Cardinality(A \cap B) \in Nat
      /\ Cardinality(Workers) \in Nat
  BY <1>2, <1>3, <1>5, FS_CardinalityType, WorkersAssumption
<1>7. /\ Cardinality(InFlight) <= Cardinality(A \cup B)
      /\ Cardinality(InFlight) \in Nat
  BY <1>4, <1>5, FS_Subset, FS_CardinalityType
<1>8. QED
  BY <1>0, <1>2, <1>3, <1>5, <1>6, <1>7

\* A queue with room leaves the ledger room.
LEMMA LedgerHasRoom ==
  ASSUME Consistent, Held, Len(jobQueue) < QueueLimit
  PROVE  Cardinality(Ledger!InProgress) < QueueLimit + Cardinality(Workers)
<1>1. Ledger!InProgress = InFlight
  BY DEF Ledger!InProgress, ledgerPhase, InFlight, Consistent, TypeOK
<1>2. Len(jobQueue) \in Nat /\ QueueLimit \in Nat
  BY LimitAssumption DEF Consistent, TypeOK
<1>3. QED
  BY <1>1, <1>2, PlacesInFlight

\* enqueueJob sends only into a slot that is free.
QueueWithinLimit == Len(jobQueue) <= QueueLimit

LEMMA QueueFits == Spec => []QueueWithinLimit
<1> USE DEF QueueWithinLimit
<1>1. Init => QueueWithinLimit
  BY LimitAssumption DEF Init
<1>2. ASSUME Consistent, QueueWithinLimit, [Next]_vars
      PROVE  QueueWithinLimit'
  <2>1. jobQueue \in Seq(Item) /\ Len(jobQueue) \in Nat /\ QueueLimit \in Nat
    BY <1>2, LimitAssumption DEF Consistent, TypeOK
  <2>2. CASE UNCHANGED jobQueue
    BY <1>2, <2>2
  <2>3. CASE \E h \in Handlers : Enqueue(h)
    <3>1. PICK item : Len(jobQueue) < QueueLimit /\ jobQueue' = Append(jobQueue, item)
      BY <2>3 DEF Enqueue
    <3>2. Len(jobQueue') = Len(jobQueue) + 1
      BY <2>1, <3>1
    <3>3. QED
      BY <2>1, <3>1, <3>2
  <2>4. CASE \E w \in Workers : Take(w)
    <3>1. jobQueue # <<>> /\ jobQueue' = Tail(jobQueue)
      BY <2>4 DEF Take, Received
    <3>2. Len(jobQueue') = Len(jobQueue) - 1
      BY <2>1, <3>1
    <3>3. QED
      BY <1>2, <2>1, <3>2
  <2>5. QED
    BY <1>2, <2>2, <2>3, <2>4, Writers DEF Consistent
<1>3. QED
  BY <1>1, <1>2, StaysConsistent, PTL DEF Spec

\* Enqueue is the ledger's Accept.
LEMMA EnqueueAccepts ==
  ASSUME Consistent, Held, [Next]_vars, NEW h \in Handlers, Enqueue(h)
  PROVE  Ledger!Accept(subject[h], request[h].key, request[h].payload)
<1> DEFINE id == subject[h]
           k == request[h].key
           p == request[h].payload
<1>1. pc[h] = "enqueue" /\ pc[h] \in Building
  BY DEF Enqueue, Goto, Building
<1>2. /\ id \in JobIDs /\ id \notin accepted /\ jobs[id].state = "queued"
      /\ origin[id] = [key |-> k, payload |-> p]
  BY <1>1, BuilderKnows DEF Consistent, JobOwnership, Building
<1>3. p \in Admissible /\ k \in Keys \cup {None}
  BY <1>1, BuilderKnows DEF Consistent, HandlerLocals, Submitting
<1>4. ledgerPhase[id] = "none"
  BY <1>2 DEF ledgerPhase
<1>5. Cardinality(Ledger!InProgress) < QueueLimit + Cardinality(Workers)
  BY LedgerHasRoom DEF Enqueue
<1>6. k = None \/ ~Ledger!KeyInUse(k)
  <2> SUFFICES ASSUME k # None, NEW i \in JobIDs, ledgerOwner[i].key = k,
                      ledgerPhase[i] \notin {"none", "expired"}
               PROVE  FALSE
    BY DEF Ledger!KeyInUse
  <2>1. Live(i) /\ origin[i].key = k
    BY DEF Live, ledgerPhase, ledgerOwner
  <2>2. idempotency[k] = NoRecord /\ idempotencyMu = h
    BY <1>1 DEF Consistent, Records, MutexHeld, Submitting, Keyed
  <2>3. CASE idempotency[k].job = i
    BY <2>2, <2>3, NoneAssumption DEF NoRecord
  <2>4. CASE \E g \in Handlers : pc[g] = "record" /\ subject[g] = i
    <3>1. PICK g \in Handlers : pc[g] = "record" /\ subject[g] = i
      BY <2>4
    <3>2. idempotencyMu = g
      BY <3>1 DEF Consistent, MutexHeld, HandlerLocals, Submitting
    <3>3. QED
      BY <1>1, <2>2, <3>1, <3>2
  <2>5. QED
    BY <2>1, <2>3, <2>4 DEF Consistent, Records
<1>7. ledgerPhase' = [ledgerPhase EXCEPT ![id] = "queued"]
  BY <1>2 DEF Enqueue, ledgerPhase
<1>8. ledgerOwner' = [ledgerOwner EXCEPT ![id] = [key |-> k, payload |-> p]]
  BY <1>2 DEF Enqueue, ledgerOwner
<1>9. Outcome[p] # "rejected"
  BY <1>3 DEF Admissible
<1>10. Ledger!Cardinality(Ledger!InProgress) = Cardinality(Ledger!InProgress)
  BY DEF Ledger!Cardinality, Cardinality
<1>11. QED
  BY <1>4, <1>5, <1>6, <1>7, <1>8, <1>9, <1>10 DEF Ledger!Accept

\* A step that changes one accepted job changes its phase alone.
LEMMA PhaseMoves ==
  ASSUME Consistent, [Next]_vars, accepted' = accepted,
         NEW id \in accepted, NEW state, jobs'[id].state = state,
         \A i \in JobIDs : i # id => jobs'[i] = jobs[i]
  PROVE  /\ ledgerPhase' = [ledgerPhase EXCEPT ![id] = state]
         /\ ledgerOwner' = ledgerOwner
         /\ id \in JobIDs /\ ledgerPhase[id] = jobs[id].state /\ ledgerOwner[id] = origin[id]
<1>1. \A i \in accepted : i \in JobIDs /\ origin'[i] = origin[i]
  BY Persists
<1>2. ledgerOwner' = ledgerOwner
  BY <1>1 DEF ledgerOwner
<1>3. id \in JobIDs /\ ledgerPhase[id] = jobs[id].state /\ ledgerOwner[id] = origin[id]
  BY <1>1 DEF ledgerPhase, ledgerOwner
<1>4. ledgerPhase' = [ledgerPhase EXCEPT ![id] = state]
  <2>1. \A i \in JobIDs : (IF i \in accepted' THEN jobs'[i].state ELSE "none")
                            = IF i = id THEN state ELSE IF i \in accepted THEN jobs[i].state ELSE "none"
    OBVIOUS
  <2>2. QED
    BY <1>3, <2>1 DEF ledgerPhase
<1>5. QED
  BY <1>2, <1>3, <1>4

\* A step that writes no accepted job is a stutter of the ledger.
LEMMA PhaseStays ==
  ASSUME Consistent, [Next]_vars, accepted' = accepted,
         \A i \in accepted : jobs'[i].state = jobs[i].state
  PROVE  UNCHANGED <<ledgerPhase, ledgerOwner>>
<1>1. \A i \in accepted : origin'[i] = origin[i]
  BY Persists
<1>2. QED
  BY <1>1 DEF ledgerPhase, ledgerOwner

\* Every step of the service is one of the ledger or a stutter.
LEMMA LedgerStep ==
  ASSUME Consistent, Held, Produced, [Next]_vars
  PROVE  Ledger!Next \/ UNCHANGED <<ledgerPhase, ledgerOwner>>
<1>0. jobs \in [JobIDs -> Job \cup {NoJob}] /\ accepted \subseteq JobIDs
  BY DEF Consistent, TypeOK
<1>1. CASE \E h \in Handlers : Enqueue(h)
  <2>1. PICK h \in Handlers : Enqueue(h)
    BY <1>1
  <2>2. pc[h] \in Building
    BY <2>1 DEF Enqueue, Goto, Building
  <2>3. QED
    BY <2>1, <2>2, BuilderKnows, EnqueueAccepts DEF Ledger!Next
<1>2. CASE accepted' = accepted /\ \E i \in accepted : jobs'[i].state # jobs[i].state
  <2>1. PICK id \in accepted : jobs'[id].state # jobs[id].state
    BY <1>2
  <2>2. id \in JobIDs
    BY <1>0
  <2>3. ASSUME NEW now, NEW state, NEW error, jobs' = Update(jobs, id, state, now, error)
        PROVE  /\ \A i \in JobIDs : i # id => jobs'[i] = jobs[i]
               /\ jobs'[id].state = state
    BY <1>0, <2>1, <2>2, <2>3 DEF Update
  <2>4. CASE \E w \in Workers : Start(w) /\ work[w].job = id
    <3>1. PICK w \in Workers : jobs' = Update(jobs, id, "running", clock, None)
      BY <2>4 DEF Start
    <3>2. jobs[id].state = "queued" /\ jobs'[id].state = "running"
      BY <2>1, <2>3, <3>1, AcceptedJob
    <3>3. Ledger!Begin(id)
      BY <1>2, <2>3, <3>1, <3>2, PhaseMoves DEF Ledger!Begin
    <3>4. QED
      BY <2>2, <3>3 DEF Ledger!Next
  <2>5. CASE \E w \in Workers : (Succeed(w) \/ Fail(w)) /\ work[w].job = id
    <3>1. PICK w \in Workers : (Succeed(w) \/ Fail(w)) /\ work[w].job = id
      BY <2>5
    <3>2. wpc[w] # "waiting" /\ work[w].payload = origin[id].payload
      BY <3>1 DEF Succeed, Fail, WGoto, Consistent, QueueState
    <3>3. \/ jobs' = Update(jobs, id, "succeeded", clock, None) /\ Outcome[origin[id].payload] = "ok"
          \/ /\ jobs' = Update(jobs, id, "failed", clock, Outcome[work[w].payload])
             /\ Outcome[origin[id].payload] # "ok"
      BY <3>1, <3>2 DEF Succeed, Fail, Fails, WGoto, Produced
    <3>4. jobs[id].state = "running"
      BY <2>1, <2>3, <3>3, AcceptedJob
    <3>5. Ledger!Finish(id)
      <4>1. CASE jobs' = Update(jobs, id, "succeeded", clock, None) /\ Outcome[origin[id].payload] = "ok"
        BY <1>2, <2>3, <3>4, <4>1, PhaseMoves DEF Ledger!Finish
      <4>2. CASE /\ jobs' = Update(jobs, id, "failed", clock, Outcome[work[w].payload])
                 /\ Outcome[origin[id].payload] # "ok"
        BY <1>2, <2>3, <3>4, <4>2, PhaseMoves DEF Ledger!Finish
      <4>3. QED
        BY <3>3, <4>1, <4>2
    <3>6. QED
      BY <2>2, <3>5 DEF Ledger!Next
  <2>6. CASE \E h \in Handlers : ExpireJob(h) /\ subject'[h] = id
    <3>1. PICK h \in Handlers : ExpireJob(h) /\ subject'[h] = id
      BY <2>6
    <3>2. \E error : jobs' = Update(jobs, id, "expired", sweepNow[h], error)
      BY <3>1 DEF ExpireJob, Consistent, TypeOK
    <3>3. jobs[id].state \in {"succeeded", "failed"} /\ jobs'[id].state = "expired"
      BY <2>1, <2>3, <3>2, AcceptedJob DEF Terminal
    <3>4. Ledger!Expire(id)
      BY <1>2, <2>3, <3>2, <3>3, PhaseMoves DEF Ledger!Expire
    <3>5. QED
      BY <2>2, <3>4 DEF Ledger!Next
  <2>7. QED
    BY <2>1, <2>4, <2>5, <2>6, AcceptedJob
<1>3. CASE accepted' = accepted /\ \A i \in accepted : jobs'[i].state = jobs[i].state
  BY <1>3, PhaseStays
<1>4. QED
  BY <1>1, <1>2, <1>3, Writers

(***************************************************************************)
(* The theorems.                                                           *)
(***************************************************************************)
LEMMA AccountableInit == Init => Accountable
<1> SUFFICES ASSUME Init PROVE Accountable
  OBVIOUS
<1>1. Held /\ Produced
  BY DEF Init, Held, Produced, NewStore, NoJob
<1>2. Told
  BY DEF Init, Told, ReplySound, NoReply
<1>3. QED
  BY <1>1, <1>2, ConsistentInit DEF Accountable

LEMMA AccountableStep == Accountable /\ [Next]_vars => Accountable'
BY ConsistentStep, HeldStep, ProducedStep, ToldStep DEF Accountable

LEMMA AlwaysAccountable == Spec => []Accountable
BY AccountableInit, AccountableStep, PTL DEF Spec

\* NoJobLostOrDuplicated (analysis_handler.go, enqueueJob and worker): an enqueued job is
\* in exactly the place its state says, one queue slot or one worker, or finished.
THEOREM NothingLost == Spec => []NoJobLostOrDuplicated
<1>1. Accountable => NoJobLostOrDuplicated
  BY Counted DEF Accountable
<1>2. QED
  BY <1>1, AlwaysAccountable, PTL

\* ReplySound (analysis_handler.go, report_handler.go): what a client is told of its
\* submission or its job is true, and still true when it is written out.
THEOREM RepliesAreTrue == Spec => []ReplySound
<1>1. Accountable => ReplySound
  BY DEF Accountable, Told
<1>2. QED
  BY <1>1, AlwaysAccountable, PTL

\* analysis_handler.go, enqueueJob and startWorkers: whatever clients send, no more than
\* QueueLimit jobs wait and no more than QueueLimit and one per worker are in progress.
THEOREM BoundedJobs == Spec => []JobsBounded
<1>1. Accountable /\ QueueWithinLimit => JobsBounded
  <2>1. SUFFICES ASSUME Accountable, QueueWithinLimit PROVE JobsBounded
    OBVIOUS
  <2>2. Len(jobQueue) \in Nat /\ QueueLimit \in Nat
    BY <2>1, LimitAssumption DEF Accountable, Consistent, TypeOK
  <2>3. QED
    BY <2>1, <2>2, PlacesInFlight DEF JobsBounded, Accountable, QueueWithinLimit
<1>2. QED
  BY <1>1, AlwaysAccountable, QueueFits, PTL

\* ImplementsLedger: handlers, sweeps, workers, queue and idempotency table together do
\* what the ledger promises, step by step.
THEOREM ServiceImplementsLedger == Spec => ImplementsLedger
<1>1. Init => Ledger!Init
  BY DEF Init, Ledger!Init, Ledger!Nobody, ledgerPhase, ledgerOwner, NoOrigin
<1>2. Accountable /\ [Next]_vars => [Ledger!Next]_<<ledgerPhase, ledgerOwner>>
  BY LedgerStep DEF Accountable
<1>3. QED
  BY <1>1, <1>2, AlwaysAccountable, PTL DEF Spec, ImplementsLedger, Ledger!Spec
=============================================================================
