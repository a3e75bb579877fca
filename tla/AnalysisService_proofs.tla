----------------------- MODULE AnalysisService_proofs -----------------------
(***************************************************************************)
(* Proofs about AnalysisService, for every set of handlers, workers, jobs, *)
(* keys and payloads, every queue limit and every retention.               *)
(***************************************************************************)
EXTENDS AnalysisServiceInv, TLAPS

(***************************************************************************)
(* Types.                                                                  *)
(***************************************************************************)
\* Writing a response keeps the responses typed.
LEMMA AnswerType ==
  ASSUME NEW h \in Handlers, NEW status \in Statuses,
         NEW job \in JobIDs \cup {None},
         NEW detail \in Payloads \cup FailureCodes \cup Lifecycle \cup {None},
         reply \in [Handlers -> Reply], Answer(h, status, job, detail)
  PROVE  reply' \in [Handlers -> Reply]
BY DEF Answer, Reply

\* The statuses of the responses that name no payload, code or state.
LEMMA PlainStatuses ==
  /\ {"unready", "invalid", "accepted", "conflict", "saturated", "missing",
      "expired", "status", "notReady", "failed", "summary", "index"} \subseteq Statuses
  /\ None \in Payloads \cup FailureCodes \cup Lifecycle \cup {None}
BY DEF Statuses

\* Every variable keeps its type across a step of a handler, given what the
\* handler's locals are where it is.
LEMMA HandlerTypes ==
  ASSUME NEW h \in Handlers, TypeOK, HandlerLocals, HandlerStep(h) \/ Acquire(h)
  PROVE  TypeOK'
<1> USE OutcomeAssumption DEF TypeOK, HandlerLocals, Goto, Submitting,
      Dropping, Building, Reading, HandlerStates, storeVars, sweepVars,
      indexVars, workerVars, history, handlerVars
<1>1. CASE Sweep(h)
  BY <1>1 DEF Sweep, List, Expirable, Job, NoJob, Terminal, Stored
<1>2. CASE ExpireJob(h)
  BY <1>2 DEF ExpireJob, Update, Job, Lifecycle, Stored
<1>3. CASE DropWorkspace(h)
  BY <1>3 DEF DropWorkspace
<1>4. CASE Refuse(h)
  <2>1. reply' \in [Handlers -> Reply]
    BY <1>4, AnswerType, PlainStatuses DEF Refuse
  <2>2. QED
    BY <2>1, <1>4 DEF Refuse
<1>5. CASE Route(h)
  BY <1>5 DEF Route, FirstStep, Request, Submission, Query, Index, NoRequest
<1>6. CASE LookupConflict(h)
  <2>1. reply' \in [Handlers -> Reply]
    BY <1>6, AnswerType, PlainStatuses DEF LookupConflict
  <2>2. QED
    BY <2>1, <1>6 DEF LookupConflict, Unlock
<1>7. CASE LookupHit(h)
  <2>1. request[h].key \in Keys
    BY <1>7 DEF LookupHit, Keyed, Submission
  <2>2. idempotency[request[h].key].job \in JobIDs
    BY <2>1, <1>7 DEF LookupHit, Recorded
  <2>3. reply' \in [Handlers -> Reply]
    BY <2>2, <1>7, AnswerType, PlainStatuses DEF LookupHit
  <2>4. QED
    BY <2>3, <1>7 DEF LookupHit, Unlock
<1>8. CASE LookupMiss(h)
  BY <1>8 DEF LookupMiss
<1>9. CASE CreateJob(h)
  <2>1. request[h].key \in Keys \cup {None} /\ request[h].payload \in Payloads
    BY <1>9 DEF CreateJob, Submission
  <2>2. QED
    BY <2>1, <1>9 DEF CreateJob, Create, Job, Lifecycle, Unused
<1>10. CASE MakeWorkspace(h)
  BY <1>10 DEF MakeWorkspace
<1>11. CASE Enqueue(h)
  <2>1. [job |-> subject[h], payload |-> request[h].payload] \in Item
    BY <1>11 DEF Enqueue, Item
  <2>2. jobQueue' \in Seq(Item)
    BY <2>1, <1>11 DEF Enqueue
  <2>3. reply' \in [Handlers -> Reply]
    BY <1>11, AnswerType, PlainStatuses DEF Enqueue
  <2>4. QED
    BY <2>2, <2>3, <1>11 DEF Enqueue
<1>12. CASE QueueFull(h)
  BY <1>12 DEF QueueFull
<1>13. CASE RecordKey(h)
  <2>1. request[h].payload \in Payloads /\ subject[h] \in JobIDs
    BY <1>13 DEF RecordKey, Submission
  <2>2. reply' \in [Handlers -> Reply]
    BY <2>1, <1>13, AnswerType, PlainStatuses DEF RecordKey
  <2>3. QED
    BY <2>1, <2>2, <1>13 DEF RecordKey, Unlock
<1>14. CASE RollbackStore(h)
  BY <1>14 DEF RollbackStore, Delete
<1>15. CASE RollbackWorkspace(h)
  <2>1. reply' \in [Handlers -> Reply]
    BY <1>15, AnswerType, PlainStatuses DEF RollbackWorkspace
  <2>2. QED
    BY <2>1, <1>15 DEF RollbackWorkspace, Unlock
<1>16. CASE GetJob(h)
  <2>1. subject[h] \in JobIDs /\ jobs[subject[h]] \in Job \cup {NoJob}
    BY <1>16 DEF GetJob
  <2>2. /\ jobs[subject[h]].error \in FailureCodes \cup {None}
        /\ jobs[subject[h]].state \in Lifecycle \cup {"absent"}
    BY <2>1 DEF Job, NoJob
  <2>3. reply' \in [Handlers -> Reply]
    BY <2>1, <2>2, <1>16, AnswerType, PlainStatuses DEF GetJob
  <2>4. pc' \in [Handlers -> HandlerStates]
    BY <1>16 DEF GetJob
  <2>5. QED
    BY <2>3, <2>4, <1>16 DEF GetJob
<1>17. CASE ReadWorkspace(h)
  <2>1. HasSummary(subject[h]) => workspaces[subject[h]] \in Payloads
    BY <1>17 DEF ReadWorkspace, HasSummary
  <2>2. reply' \in [Handlers -> Reply]
    BY <2>1, <1>17, AnswerType, PlainStatuses DEF ReadWorkspace
  <2>3. QED
    BY <2>2, <1>17 DEF ReadWorkspace
<1>18. CASE ListReports(h)
  BY <1>18 DEF ListReports, List
<1>19. CASE CollectReport(h)
  BY <1>19 DEF CollectReport
<1>20. CASE WriteIndex(h)
  <2>1. reply' \in [Handlers -> Reply]
    BY <1>20, AnswerType, PlainStatuses DEF WriteIndex
  <2>2. QED
    BY <2>1, <1>20 DEF WriteIndex
<1>21. CASE Respond(h)
  <2>1. NoReply \in Reply
    BY DEF NoReply, Reply, Statuses
  <2>2. QED
    BY <2>1, <1>21 DEF Respond
<1>22. CASE Lock(h)
  BY <1>22 DEF Lock
<1>23. CASE DropKeys(h)
  BY <1>23 DEF DropKeys
<1>24. QED
  BY <1>1, <1>2, <1>3, <1>4, <1>5, <1>6, <1>7, <1>8, <1>9, <1>10, <1>11, <1>12,
     <1>13, <1>14, <1>15, <1>16, <1>17, <1>18, <1>19, <1>20, <1>21, <1>22, <1>23
     DEF HandlerStep, Acquire

\* What a receive takes from a queue and leaves in it.
LEMMA QueueEnds ==
  ASSUME NEW S, NEW q \in Seq(S), q # <<>>
  PROVE  Head(q) \in S /\ Tail(q) \in Seq(S)
OBVIOUS

\* A worker's step keeps the types: a payload that fails has a failure code.
LEMMA WorkerTypes ==
  ASSUME NEW w \in Workers, TypeOK, WorkerLocals, WorkerStep(w)
  PROVE  TypeOK'
<1> USE OutcomeAssumption DEF TypeOK, WorkerLocals, WGoto, WorkerStates, Item,
      storeVars, handlerVars, sweepVars, indexVars, history
<1>1. CASE Take(w)
  <2>1. Head(jobQueue) \in Item /\ Tail(jobQueue) \in Seq(Item)
    BY <1>1, QueueEnds DEF Take
  <2>2. QED
    BY <2>1, <1>1 DEF Take, Received
<1>2. CASE Start(w)
  BY <1>2 DEF Start, Update, Job, Lifecycle, Stored
<1>3. CASE Fail(w)
  <2>1. work[w] \in Item
    BY <1>3 DEF Fail
  <2>2. Outcome[work[w].payload] \in FailureCodes
    BY <2>1, <1>3 DEF Fail, Fails, Admissible, Outcomes
  <2>3. jobs' \in [JobIDs -> Job \cup {NoJob}]
    BY <2>1, <2>2, <1>3 DEF Fail, Update, Job, Lifecycle, Stored
  <2>4. QED
    BY <2>3, <1>3 DEF Fail, NextItem
<1>4. CASE StoreSummary(w)
  <2>1. work[w].job \in JobIDs /\ work[w].payload \in Payloads
    BY <1>4 DEF StoreSummary, Admissible
  <2>2. QED
    BY <2>1, <1>4 DEF StoreSummary, Summarized
<1>5. CASE Succeed(w)
  BY <1>5 DEF Succeed, Update, Job, Lifecycle, Stored
<1>6. QED
  BY <1>1, <1>2, <1>3, <1>4, <1>5 DEF WorkerStep

LEMMA TypeStep ==
  ASSUME TypeOK, HandlerLocals, WorkerLocals, [Next]_vars
  PROVE  TypeOK'
<1>1. ASSUME NEW h \in Handlers, Arrive(h) PROVE TypeOK'
  BY <1>1 DEF Arrive, TypeOK, Goto, HandlerStates, storeVars, indexVars,
              workerVars, history
<1>2. CASE BecomeReady
  BY <1>2 DEF BecomeReady, TypeOK, storeVars, handlerVars, sweepVars, indexVars,
              workerVars, history
<1>3. CASE Tick
  BY <1>3 DEF Tick, TypeOK, storeVars, handlerVars, sweepVars, indexVars,
              workerVars, history
<1>4. CASE UNCHANGED vars
  BY <1>4 DEF vars, TypeOK, storeVars, handlerVars, sweepVars, indexVars,
              workerVars, history
<1>5. QED
  BY <1>1, <1>2, <1>3, <1>4, HandlerTypes, WorkerTypes DEF Next

(***************************************************************************)
(* The locals of handlers and workers.                                     *)
(***************************************************************************)
\* A handler's step leaves it with the locals the next step needs, and does not
\* touch another handler's.
LEMMA LocalsStep ==
  ASSUME TypeOK, HandlerLocals, [Next]_vars
  PROVE  HandlerLocals'
<1> USE DEF TypeOK, HandlerLocals, Goto, Submitting, Dropping, Building, Reading,
      Keyed, storeVars, sweepVars, indexVars, workerVars, history, handlerVars
<1>1. ASSUME NEW h \in Handlers, Arrive(h) PROVE HandlerLocals'
  BY <1>1 DEF Arrive
<1>2. ASSUME NEW h \in Handlers, HandlerStep(h) \/ Acquire(h) PROVE HandlerLocals'
  <2>1. CASE Sweep(h) \/ DropWorkspace(h) \/ Refuse(h) \/ LookupConflict(h)
             \/ LookupHit(h)
    BY <2>1 DEF Sweep, DropWorkspace, Refuse, LookupConflict, LookupHit
  <2>2. CASE ExpireJob(h)
    BY <2>2 DEF ExpireJob
  <2>3. CASE Route(h)
    BY <2>3 DEF Route, FirstStep, Invalid, Admissible, Request, Submission, Query,
                Index, QueryKinds
  <2>4. CASE LookupMiss(h) \/ CreateJob(h) \/ MakeWorkspace(h)
    BY <2>4 DEF LookupMiss, CreateJob, Unused, MakeWorkspace
  <2>5. CASE Enqueue(h) \/ QueueFull(h) \/ RecordKey(h) \/ RollbackStore(h)
             \/ RollbackWorkspace(h)
    BY <2>5 DEF Enqueue, QueueFull, RecordKey, RollbackStore, RollbackWorkspace
  <2>6. CASE GetJob(h) \/ ReadWorkspace(h)
    BY <2>6 DEF GetJob, ReadWorkspace
  <2>7. CASE ListReports(h) \/ CollectReport(h) \/ WriteIndex(h) \/ Respond(h)
    BY <2>7 DEF ListReports, CollectReport, WriteIndex, Respond
  <2>8. CASE Lock(h) \/ DropKeys(h)
    BY <2>8 DEF Lock, DropKeys
  <2>9. QED
    BY <1>2, <2>1, <2>2, <2>3, <2>4, <2>5, <2>6, <2>7, <2>8 DEF HandlerStep, Acquire
<1>3. ASSUME NEW w \in Workers, WorkerStep(w) PROVE HandlerLocals'
  BY <1>3 DEF WorkerStep, Take, Start, Fail, StoreSummary, Succeed
<1>4. CASE BecomeReady \/ Tick \/ UNCHANGED vars
  BY <1>4 DEF BecomeReady, Tick, vars
<1>5. QED
  BY <1>1, <1>2, <1>3, <1>4 DEF Next

\* A worker has an item exactly while it processes one.
LEMMA WorkerLocalsStep ==
  ASSUME TypeOK, WorkerLocals, [Next]_vars
  PROVE  WorkerLocals'
<1> USE DEF TypeOK, WorkerLocals
<1>1. NoWork \notin Item
  BY NoneAssumption DEF NoWork, Item
<1>2. ASSUME NEW w \in Workers, WorkerStep(w) PROVE WorkerLocals'
  <2>1. CASE Take(w)
    <3>1. Head(jobQueue) \in Item
      BY <2>1, QueueEnds DEF Take
    <3>2. QED
      BY <3>1, <2>1 DEF Take, WGoto
  <2>2. CASE Start(w) \/ Fail(w) \/ StoreSummary(w) \/ Succeed(w)
    BY <1>1, <2>2 DEF Start, Fail, StoreSummary, Succeed, WGoto, NextItem
  <2>3. QED
    BY <1>2, <2>1, <2>2 DEF WorkerStep
<1>3. CASE UNCHANGED workerVars
  BY <1>3 DEF workerVars
<1>4. ASSUME NEW h \in Handlers, Arrive(h) \/ HandlerStep(h) \/ Acquire(h)
      PROVE  UNCHANGED workerVars
  BY <1>4 DEF Arrive, HandlerStep, Acquire, Sweep, ExpireJob, DropWorkspace, Refuse,
       Route, LookupConflict, LookupHit, LookupMiss, CreateJob, MakeWorkspace, Enqueue,
       QueueFull, RecordKey, RollbackStore, RollbackWorkspace, GetJob, ReadWorkspace,
       ListReports, CollectReport, WriteIndex, Respond, Lock, DropKeys
<1>5. CASE BecomeReady \/ Tick \/ UNCHANGED vars
  BY <1>3, <1>5 DEF BecomeReady, Tick, vars
<1>6. QED
  BY <1>2, <1>3, <1>4, <1>5 DEF Next

(***************************************************************************)
(* Type correctness: what every later theorem rests on.  It says more than *)
(* that variables have types: nothing that failed validation is ever in    *)
(* the queue or with a worker, and a failed job has a code of the pipeline *)
(* (submitAnalysis, createAndRunJob, processJob).                          *)
(***************************************************************************)
LEMMA TypeInit == Init => TypeOK /\ HandlerLocals /\ WorkerLocals
<1> SUFFICES ASSUME Init PROVE TypeOK /\ HandlerLocals /\ WorkerLocals
  OBVIOUS
<1>1. NoReply \in Reply
  BY DEF NoReply, Reply, Statuses
<1>2. TypeOK
  <2>1. jobQueue \in Seq(Item)
    BY DEF Init
  <2>2. pc \in [Handlers -> HandlerStates] /\ wpc \in [Workers -> WorkerStates]
    BY DEF Init, HandlerStates, WorkerStates
  <2>3. jobs \in [JobIDs -> Job \cup {NoJob}]
    BY DEF Init, NewStore
  <2>4. QED
    BY <1>1, <2>1, <2>2, <2>3 DEF Init, TypeOK
<1>3. HandlerLocals
  BY DEF Init, HandlerLocals, Submitting, Dropping, Building, Reading
<1>4. WorkerLocals
  BY NoneAssumption DEF Init, WorkerLocals, NoWork, Item
<1>5. QED
  BY <1>2, <1>3, <1>4

THEOREM TypeCorrect == Spec => []TypeOK
<1> DEFINE Inv == TypeOK /\ HandlerLocals /\ WorkerLocals
<1>1. Init => Inv
  BY TypeInit
<1>2. Inv /\ [Next]_vars => Inv'
  BY TypeStep, LocalsStep, WorkerLocalsStep
<1>3. QED
  BY <1>1, <1>2, PTL DEF Spec

(***************************************************************************)
(* Who writes what.  These lemmas are about the shape of the next-state    *)
(* relation only; the later ones use them instead of opening every action. *)
(***************************************************************************)
\* The locals of a handler are written by its own steps.
LEMMA Frame ==
  ASSUME NEW h \in Handlers, NEW g \in Handlers, TypeOK,
         Arrive(h) \/ HandlerStep(h) \/ Acquire(h), g # h
  PROVE  /\ pc'[g] = pc[g] /\ request'[g] = request[g] /\ subject'[g] = subject[g]
         /\ sweepNow'[g] = sweepNow[g] /\ todo'[g] = todo[g] /\ listed'[g] = listed[g]
         /\ found'[g] = found[g] /\ reply'[g] = reply[g]
<1> USE DEF TypeOK, Goto, Answer, sweepVars, indexVars
<1>1. CASE Arrive(h)
  BY <1>1 DEF Arrive
<1>2. CASE Sweep(h) \/ ExpireJob(h) \/ DropWorkspace(h) \/ DropKeys(h) \/ Lock(h)
  BY <1>2 DEF Sweep, ExpireJob, DropWorkspace, DropKeys, Lock
<1>3. CASE Refuse(h) \/ Route(h) \/ LookupConflict(h) \/ LookupHit(h) \/ LookupMiss(h)
  BY <1>3 DEF Refuse, Route, LookupConflict, LookupHit, LookupMiss
<1>4. CASE CreateJob(h) \/ MakeWorkspace(h) \/ Enqueue(h) \/ QueueFull(h)
           \/ RecordKey(h) \/ RollbackStore(h) \/ RollbackWorkspace(h)
  BY <1>4 DEF CreateJob, MakeWorkspace, Enqueue, QueueFull, RecordKey, RollbackStore,
              RollbackWorkspace
<1>5. CASE GetJob(h) \/ ReadWorkspace(h)
  BY <1>5 DEF GetJob, ReadWorkspace
<1>6. CASE ListReports(h) \/ CollectReport(h) \/ WriteIndex(h) \/ Respond(h)
  BY <1>6 DEF ListReports, CollectReport, WriteIndex, Respond
<1>7. QED
  BY <1>1, <1>2, <1>3, <1>4, <1>5, <1>6 DEF HandlerStep, Acquire

\* Workers, the readiness probe and the clock write no handler's locals.
LEMMA OthersFrame ==
  ASSUME \/ \E w \in Workers : WorkerStep(w)
         \/ BecomeReady \/ Tick \/ UNCHANGED vars
  PROVE  UNCHANGED handlerVars
BY DEF WorkerStep, Take, Start, Fail, StoreSummary, Succeed, BecomeReady, Tick, vars

\* Which step brings a handler to each place an invariant is about.
LEMMA Entering ==
  ASSUME TypeOK, [Next]_vars, NEW h \in Handlers, pc'[h] # pc[h]
  PROVE  /\ pc'[h] = "expire" => Sweep(h) \/ DropKeys(h)
         /\ pc'[h] = "dropWorkspace" => ExpireJob(h)
         /\ pc'[h] = "dropKeys" => DropWorkspace(h)
         /\ pc'[h] = "lookup" => Lock(h)
         /\ pc'[h] = "create" => LookupMiss(h) \/ (Route(h) /\ ~Keyed(h))
         /\ pc'[h] = "makeWorkspace" => CreateJob(h)
         /\ pc'[h] = "enqueue" => MakeWorkspace(h)
         /\ pc'[h] = "record" => Enqueue(h)
         /\ pc'[h] = "rollbackStore" => QueueFull(h)
         /\ pc'[h] = "rollbackWorkspace" => RollbackStore(h)
         /\ pc'[h] = "readWorkspace" => GetJob(h)
         /\ pc'[h] = "collect" => ListReports(h)
<1> USE DEF TypeOK, Goto
<1>1. Arrive(h) \/ HandlerStep(h) \/ Acquire(h)
  BY Frame, OthersFrame DEF Next, handlerVars
<1>2. CASE Arrive(h) \/ Sweep(h) \/ ExpireJob(h) \/ DropWorkspace(h) \/ DropKeys(h) \/ Lock(h)
  <2>1. CASE Arrive(h) \/ Sweep(h) \/ Lock(h)
    BY <2>1 DEF Arrive, Sweep, Lock
  <2>2. CASE ExpireJob(h) \/ DropWorkspace(h)
    BY <2>2 DEF ExpireJob, DropWorkspace
  <2>3. CASE DropKeys(h)
    <3>1. pc'[h] \in {"dispatch", "expire"}
      BY <2>3 DEF DropKeys
    <3>2. QED
      BY <2>3, <3>1
  <2>4. QED
    BY <1>2, <2>1, <2>2, <2>3
<1>3. CASE Refuse(h) \/ LookupConflict(h) \/ LookupHit(h) \/ LookupMiss(h)
  BY <1>3 DEF Refuse, LookupConflict, LookupHit, LookupMiss
<1>4. CASE Route(h)
  BY <1>4 DEF Route, FirstStep, Keyed
<1>5. CASE CreateJob(h) \/ MakeWorkspace(h) \/ Enqueue(h) \/ QueueFull(h)
           \/ RecordKey(h) \/ RollbackStore(h) \/ RollbackWorkspace(h)
  BY <1>5 DEF CreateJob, MakeWorkspace, Enqueue, QueueFull, RecordKey, RollbackStore,
              RollbackWorkspace
<1>6. CASE GetJob(h) \/ ReadWorkspace(h) \/ ListReports(h) \/ CollectReport(h)
           \/ WriteIndex(h) \/ Respond(h)
  BY <1>6 DEF GetJob, ReadWorkspace, ListReports, CollectReport, WriteIndex, Respond
<1>7. QED
  BY <1>1, <1>2, <1>3, <1>4, <1>5, <1>6 DEF HandlerStep, Acquire

\* A handler that has not moved has the same locals: collecting the report index
\* is the only loop that stays in one place.
LEMMA Stays ==
  ASSUME TypeOK, [Next]_vars, NEW h \in Handlers, pc'[h] = pc[h]
  PROVE  /\ request'[h] = request[h] /\ subject'[h] = subject[h]
         /\ sweepNow'[h] = sweepNow[h] /\ todo'[h] = todo[h] /\ reply'[h] = reply[h]
         /\ listed'[h] \subseteq listed[h]
<1>1. CASE \E g \in Handlers : Arrive(g) \/ HandlerStep(g) \/ Acquire(g)
  <2>1. PICK g \in Handlers : Arrive(g) \/ HandlerStep(g) \/ Acquire(g)
    BY <1>1
  <2>2. CASE g # h
    BY <2>1, <2>2, Frame
  <2>3. CASE g = h
    <3>1. CollectReport(h)
      <4> USE DEF TypeOK, Goto
      <4>1. ~Arrive(h) /\ ~Sweep(h) /\ ~ExpireJob(h) /\ ~DropWorkspace(h)
            /\ ~Refuse(h) /\ ~Route(h) /\ ~Acquire(h)
        BY <2>3 DEF Arrive, Sweep, ExpireJob, DropWorkspace, Refuse, Route, FirstStep,
                    Acquire, Lock, DropKeys
      <4>2. ~LookupConflict(h) /\ ~LookupHit(h) /\ ~LookupMiss(h) /\ ~CreateJob(h)
            /\ ~MakeWorkspace(h) /\ ~Enqueue(h) /\ ~QueueFull(h) /\ ~RecordKey(h)
            /\ ~RollbackStore(h) /\ ~RollbackWorkspace(h)
        BY <2>3 DEF LookupConflict, LookupHit, LookupMiss, CreateJob, MakeWorkspace,
                    Enqueue, QueueFull, RecordKey, RollbackStore, RollbackWorkspace
      <4>3. ~GetJob(h) /\ ~ReadWorkspace(h) /\ ~ListReports(h) /\ ~WriteIndex(h)
            /\ ~Respond(h)
        BY <2>3 DEF GetJob, ReadWorkspace, ListReports, WriteIndex, Respond
      <4>4. QED
        BY <2>1, <2>3, <4>1, <4>2, <4>3 DEF HandlerStep
    <3>2. QED
      BY <3>1 DEF CollectReport, sweepVars, TypeOK
  <2>4. QED
    BY <2>2, <2>3
<1>2. CASE ~ \E g \in Handlers : Arrive(g) \/ HandlerStep(g) \/ Acquire(g)
  BY <1>2, OthersFrame DEF Next, handlerVars, sweepVars, indexVars
<1>3. QED
  BY <1>1, <1>2

\* Which steps write each shared structure.
LEMMA Writers ==
  ASSUME [Next]_vars
  PROVE  /\ \/ jobs' = jobs
            \/ \E h \in Handlers : ExpireJob(h) \/ CreateJob(h) \/ RollbackStore(h)
            \/ \E w \in Workers : Start(w) \/ Fail(w) \/ Succeed(w)
         /\ \/ workspaces' = workspaces
            \/ \E h \in Handlers : DropWorkspace(h) \/ MakeWorkspace(h) \/ RollbackWorkspace(h)
            \/ \E w \in Workers : StoreSummary(w)
         /\ \/ UNCHANGED <<jobQueue, accepted>>
            \/ \E h \in Handlers : Enqueue(h)
            \/ \E w \in Workers : Take(w)
         /\ \/ accepted' = accepted
            \/ \E h \in Handlers : Enqueue(h)
         /\ \/ idempotency' = idempotency
            \/ \E h \in Handlers : DropKeys(h) \/ LookupMiss(h) \/ RecordKey(h)
         /\ \/ origin' = origin
            \/ \E h \in Handlers : CreateJob(h)
         /\ \/ clock' = clock
            \/ Tick
         /\ \/ UNCHANGED workerVars
            \/ \E w \in Workers : WorkerStep(w)
<1> USE DEF storeVars, history, workerVars
<1>1. ASSUME NEW h \in Handlers, Arrive(h) \/ HandlerStep(h) \/ Acquire(h)
      PROVE  /\ jobs' = jobs \/ ExpireJob(h) \/ CreateJob(h) \/ RollbackStore(h)
             /\ workspaces' = workspaces \/ DropWorkspace(h) \/ MakeWorkspace(h)
                  \/ RollbackWorkspace(h)
             /\ UNCHANGED <<jobQueue, accepted>> \/ Enqueue(h)
             /\ idempotency' = idempotency \/ DropKeys(h) \/ LookupMiss(h) \/ RecordKey(h)
             /\ origin' = origin \/ CreateJob(h)
             /\ UNCHANGED <<clock, workerVars>>
  BY <1>1 DEF Arrive, HandlerStep, Acquire, Sweep, ExpireJob, DropWorkspace, Refuse,
       Route, LookupConflict, LookupHit, LookupMiss, CreateJob, MakeWorkspace, Enqueue,
       QueueFull, RecordKey, RollbackStore, RollbackWorkspace, GetJob, ReadWorkspace,
       ListReports, CollectReport, WriteIndex, Respond, Lock, DropKeys
<1>2. ASSUME NEW w \in Workers, WorkerStep(w)
      PROVE  /\ jobs' = jobs \/ Start(w) \/ Fail(w) \/ Succeed(w)
             /\ workspaces' = workspaces \/ StoreSummary(w)
             /\ jobQueue' = jobQueue \/ Take(w)
             /\ UNCHANGED <<idempotency, origin, accepted, clock>>
  BY <1>2 DEF WorkerStep, Take, Start, Fail, StoreSummary, Succeed
<1>3. CASE BecomeReady \/ Tick \/ UNCHANGED vars
  BY <1>3 DEF BecomeReady, Tick, vars
<1>4. QED
  BY <1>1, <1>2, <1>3 DEF Next

(***************************************************************************)
(* The mutex.                                                              *)
(***************************************************************************)
\* Only the steps of the critical section move a handler in or out of it, and
\* only while no one else is in it.
LEMMA MutexStep ==
  ASSUME TypeOK, HandlerLocals, MutexHeld, [Next]_vars
  PROVE  MutexHeld'
<1> DEFINE Holds(h) == pc[h] \in Submitting \ {"lock"} /\ Keyed(h)
<1>1. ASSUME NEW h \in Handlers, Arrive(h) \/ HandlerStep(h) \/ Acquire(h)
      PROVE  \/ Holds(h)' = Holds(h) /\ idempotencyMu' = idempotencyMu
             \/ ~Holds(h) /\ Holds(h)' /\ idempotencyMu = None /\ idempotencyMu' = h
             \/ Holds(h) /\ ~Holds(h)' /\ idempotencyMu' =
                   IF idempotencyMu = h THEN None ELSE idempotencyMu
  <2> USE DEF TypeOK, HandlerLocals, Goto, Submitting, Keyed
  <2>1. CASE Arrive(h) \/ Sweep(h) \/ ExpireJob(h) \/ DropWorkspace(h) \/ Refuse(h)
    BY <2>1 DEF Arrive, Sweep, ExpireJob, DropWorkspace, Refuse
  <2>2. CASE Route(h)
    BY <2>2 DEF Route, FirstStep
  <2>3. CASE LookupConflict(h) \/ LookupHit(h)
    BY <2>3 DEF LookupConflict, LookupHit, Unlock
  <2>4. CASE LookupMiss(h)
    BY <2>4 DEF LookupMiss
  <2>5. CASE CreateJob(h)
    BY <2>5 DEF CreateJob
  <2>6. CASE MakeWorkspace(h) \/ QueueFull(h)
    BY <2>6 DEF MakeWorkspace, QueueFull
  <2>7. CASE Enqueue(h)
    BY <2>7 DEF Enqueue
  <2>8. CASE RecordKey(h)
    BY <2>8 DEF RecordKey, Unlock
  <2>9. CASE RollbackStore(h)
    BY <2>9 DEF RollbackStore
  <2>10. CASE RollbackWorkspace(h)
    BY <2>10, NoneAssumption DEF RollbackWorkspace, Unlock, MutexHeld
  <2>11. CASE GetJob(h) \/ ReadWorkspace(h) \/ ListReports(h) \/ CollectReport(h)
              \/ WriteIndex(h) \/ Respond(h)
    BY <2>11 DEF GetJob, ReadWorkspace, ListReports, CollectReport, WriteIndex, Respond
  <2>12. CASE Lock(h)
    BY <2>12 DEF Lock, MutexFree
  <2>13. CASE DropKeys(h)
    BY <2>13 DEF DropKeys
  <2>14. QED
    BY <1>1, <2>1, <2>2, <2>3, <2>4, <2>5, <2>6, <2>7, <2>8, <2>9, <2>10, <2>11,
       <2>12, <2>13 DEF HandlerStep, Acquire
<1>2. ASSUME NEW h \in Handlers, Arrive(h) \/ HandlerStep(h) \/ Acquire(h)
      PROVE  MutexHeld'
  <2>1. \A g \in Handlers : g # h => Holds(g)' = Holds(g)
    BY <1>2, Frame DEF Keyed
  <2>2. h # None
    BY NoneAssumption
  <2>3. QED
    BY <1>1, <1>2, <2>1, <2>2, NoneAssumption DEF MutexHeld
<1>3. CASE \E w \in Workers : WorkerStep(w)
  BY <1>3, OthersFrame DEF MutexHeld, handlerVars, Keyed, WorkerStep, Take, Start, Fail,
     StoreSummary, Succeed
<1>4. CASE BecomeReady \/ Tick \/ UNCHANGED vars
  BY <1>4, OthersFrame DEF MutexHeld, handlerVars, Keyed, BecomeReady, Tick, vars
<1>5. QED
  BY <1>2, <1>3, <1>4 DEF Next

(***************************************************************************)
(* What a step does to a job, by who owns it.                              *)
(***************************************************************************)
\* A job that was made for a payload is not unused.
LEMMA MadeJob ==
  ASSUME NEW o, o.payload # None
  PROVE  o # NoOrigin
<1>1. NoOrigin.payload = None
  BY DEF NoOrigin
<1>2. QED
  BY <1>1

\* What a builder or recorder knows about its subject.
LEMMA BuilderKnows ==
  ASSUME Consistent, NEW h \in Handlers, pc[h] \in Building \cup {"record"}
  PROVE  /\ subject[h] \in JobIDs
         /\ request[h].payload \in Payloads
         /\ request[h].key \in Keys \cup {None}
         /\ origin[subject[h]] =
              [key |-> request[h].key, payload |-> request[h].payload]
         /\ origin[subject[h]] # NoOrigin
<1>1. /\ subject[h] \in JobIDs
      /\ request[h].payload \in Payloads
      /\ request[h].key \in Keys \cup {None}
  BY DEF Consistent, HandlerLocals, Building, Submitting, Submission
<1>2. origin[subject[h]] = [key |-> request[h].key, payload |-> request[h].payload]
  BY DEF Consistent, JobOwnership
<1>3. origin[subject[h]].payload # None
  BY <1>1, <1>2, NoneAssumption
<1>4. QED
  BY <1>1, <1>2, <1>3, MadeJob

\* A handler that builds a job keeps its request and its subject until it answers.
LEMMA BuildingStep ==
  ASSUME TypeOK, [Next]_vars, NEW h \in Handlers, pc'[h] \in Building \cup {"record"}
  PROVE  \/ CreateJob(h) /\ pc'[h] = "makeWorkspace"
         \/ /\ pc[h] \in Building
            /\ request'[h] = request[h] /\ subject'[h] = subject[h]
            /\ \/ pc'[h] = pc[h]
               \/ pc[h] = "makeWorkspace" /\ pc'[h] = "enqueue" /\ MakeWorkspace(h)
               \/ pc[h] = "enqueue" /\ pc'[h] = "rollbackStore"
               \/ pc[h] = "enqueue" /\ pc'[h] = "record" /\ Enqueue(h)
               \/ pc[h] = "rollbackStore" /\ pc'[h] = "rollbackWorkspace" /\ RollbackStore(h)
         \/ /\ pc[h] = "record" /\ pc'[h] = "record"
            /\ request'[h] = request[h] /\ subject'[h] = subject[h]
<1>1. CASE pc'[h] # pc[h]
  BY <1>1, Entering DEF Building, CreateJob, MakeWorkspace, Enqueue, QueueFull,
     RollbackStore, Goto
<1>2. CASE pc'[h] = pc[h]
  BY <1>2, Stays DEF Building
<1>3. QED
  BY <1>1, <1>2

\* The history only grows, and only by the two steps that mean it.
LEMMA HistoryStep ==
  ASSUME Consistent, [Next]_vars, NEW id \in JobIDs
  PROVE  /\ id \in accepted => id \in accepted'
         /\ id \in accepted' /\ id \notin accepted =>
              \E h \in Handlers : Enqueue(h) /\ subject[h] = id
         /\ origin[id] # NoOrigin => origin'[id] = origin[id]
         /\ origin'[id] # origin[id] =>
              \E h \in Handlers : CreateJob(h) /\ subject'[h] = id
<1>1. CASE \E h \in Handlers : Enqueue(h)
  BY <1>1 DEF Enqueue
<1>2. CASE \E h \in Handlers : CreateJob(h)
  <2>1. PICK h \in Handlers : CreateJob(h)
    BY <1>2
  <2>2. PICK job \in Unused : subject'[h] = job /\ \E o : origin' = [origin EXCEPT ![job] = o]
    BY <2>1 DEF CreateJob, Consistent, TypeOK
  <2>3. accepted' = accepted
    BY <2>1 DEF CreateJob
  <2>4. \A i \in JobIDs : i # subject'[h] => origin'[i] = origin[i]
    BY <2>2 DEF Consistent, TypeOK
  <2>5. origin[subject'[h]] = NoOrigin
    BY <2>2 DEF Unused
  <2>6. QED
    BY <2>1, <2>3, <2>4, <2>5
<1>3. QED
  BY <1>1, <1>2, Writers

\* An accepted job is written by the worker that has it, or by sweeps once it has
\* finished; nobody removes it.
LEMMA AcceptedJob ==
  ASSUME Consistent, [Next]_vars, NEW id \in accepted
  PROVE  \/ jobs'[id] = jobs[id]
         \/ /\ jobs[id].state = "queued" /\ jobs'[id].state = "running"
            /\ \E w \in Workers : Start(w) /\ work[w].job = id
         \/ /\ jobs[id].state = "running" /\ jobs'[id].state = "succeeded"
            /\ \E w \in Workers : Succeed(w) /\ work[w].job = id
         \/ /\ jobs[id].state = "running" /\ jobs'[id].state = "failed"
            /\ \E w \in Workers : Fail(w) /\ work[w].job = id
         \/ /\ jobs[id].state \in Terminal \cup {"expired"} /\ jobs'[id].state = "expired"
            /\ jobs'[id].error = jobs[id].error
            /\ jobs[id].state # "expired" => clock - jobs[id].updatedAt >= Retention
            /\ \E h \in Handlers : ExpireJob(h) /\ subject'[h] = id
<1> USE DEF Consistent
<1>0. id \in JobIDs /\ jobs \in [JobIDs -> Job \cup {NoJob}]
  BY DEF TypeOK
<1>1. ASSUME NEW h \in Handlers, ExpireJob(h), jobs'[id] # jobs[id]
      PROVE  /\ jobs[id].state \in Terminal \cup {"expired"} /\ jobs'[id].state = "expired"
             /\ jobs'[id].error = jobs[id].error
             /\ jobs[id].state # "expired" => clock - jobs[id].updatedAt >= Retention
             /\ subject'[h] = id
  <2>1. PICK e \in todo[h] :
          /\ jobs' = Update(jobs, e.id, "expired", sweepNow[h], e.error)
          /\ subject' = [subject EXCEPT ![h] = e.id]
    BY <1>1 DEF ExpireJob
  <2>2. e.id = id
    BY <1>0, <1>1, <2>1 DEF Update
  <2>3. /\ jobs[id].state \in Terminal \cup {"expired"}
        /\ jobs[id].error = e.error
        /\ jobs[id].state # "expired" => sweepNow[h] - jobs[id].updatedAt >= Retention
        /\ sweepNow[h] <= clock
    BY <2>2 DEF Snapshots
  <2>4. /\ jobs[id].state # "expired" => clock - jobs[id].updatedAt >= Retention
    <3>1. jobs[id].updatedAt \in Nat /\ sweepNow[h] \in Nat /\ clock \in Nat
      BY <1>0 DEF TypeOK, Job, NoJob
    <3>2. QED
      BY <2>3, <3>1, LimitAssumption
  <2>5. subject'[h] = id
    BY <2>1, <2>2 DEF TypeOK
  <2>6. jobs'[id].state = "expired" /\ jobs'[id].error = e.error
    BY <1>0, <1>1, <2>1, <2>2 DEF Update
  <2>7. QED
    BY <2>3, <2>4, <2>5, <2>6
<1>2. ASSUME NEW h \in Handlers, CreateJob(h) PROVE jobs'[id] = jobs[id]
  BY <1>0, <1>2 DEF CreateJob, Create, Unused, StoredState
<1>3. ASSUME NEW h \in Handlers, RollbackStore(h) PROVE jobs'[id] = jobs[id]
  BY <1>0, <1>3 DEF RollbackStore, Delete, Goto, JobOwnership, Building
<1>4. ASSUME NEW w \in Workers, Start(w), jobs'[id] # jobs[id]
      PROVE  jobs[id].state = "queued" /\ jobs'[id].state = "running" /\ work[w].job = id
  <2>1. work[w].job = id
    BY <1>0, <1>4 DEF Start, Update
  <2>2. QED
    BY <1>0, <1>4, <2>1 DEF Start, WGoto, Update, QueueState, Stored
<1>5. ASSUME NEW w \in Workers, Succeed(w), jobs'[id] # jobs[id]
      PROVE  jobs[id].state = "running" /\ jobs'[id].state = "succeeded" /\ work[w].job = id
  <2>1. work[w].job = id
    BY <1>0, <1>5 DEF Succeed, Update
  <2>2. QED
    BY <1>0, <1>5, <2>1 DEF Succeed, WGoto, Update, QueueState, Stored
<1>6. ASSUME NEW w \in Workers, Fail(w), jobs'[id] # jobs[id]
      PROVE  jobs[id].state = "running" /\ jobs'[id].state = "failed" /\ work[w].job = id
  <2>1. work[w].job = id
    BY <1>0, <1>6 DEF Fail, Update
  <2>2. QED
    BY <1>0, <1>6, <2>1 DEF Fail, WGoto, Update, QueueState, Stored
<1>7. QED
  BY <1>1, <1>2, <1>3, <1>4, <1>5, <1>6, Writers

\* A job being built is written by its builder alone.
LEMMA OwnedJob ==
  ASSUME Consistent, [Next]_vars, NEW h \in Handlers, pc[h] \in Building
  PROVE  /\ jobs'[subject[h]] = jobs[subject[h]] \/ RollbackStore(h)
         /\ \/ workspaces'[subject[h]] = workspaces[subject[h]]
            \/ MakeWorkspace(h) \/ RollbackWorkspace(h)
         /\ subject[h] \in accepted' => Enqueue(h)
<1> DEFINE id == subject[h]
<1> USE DEF Consistent
<1>1. /\ id \in JobIDs /\ id \notin accepted /\ origin[id] # NoOrigin
      /\ jobs \in [JobIDs -> Job \cup {NoJob}]
      /\ workspaces \in [JobIDs -> Payloads \cup {NoWorkspace, EmptyWorkspace}]
  <2>1. id \in JobIDs /\ origin[id] # NoOrigin
    BY BuilderKnows
  <2>2. QED
    BY <2>1 DEF JobOwnership, TypeOK
<1>2. ASSUME NEW g \in Handlers, ExpireJob(g) PROVE jobs'[id] = jobs[id]
  BY <1>1, <1>2 DEF ExpireJob, Snapshots, Update
<1>3. ASSUME NEW g \in Handlers, CreateJob(g) PROVE jobs'[id] = jobs[id]
  BY <1>1, <1>3 DEF CreateJob, Create, Unused
<1>4. ASSUME NEW g \in Handlers, RollbackStore(g), jobs'[id] # jobs[id] PROVE g = h
  BY <1>1, <1>4 DEF RollbackStore, Delete, Goto, JobOwnership, Building
<1>5. ASSUME NEW w \in Workers, Start(w) \/ Fail(w) \/ Succeed(w) PROVE jobs'[id] = jobs[id]
  BY <1>1, <1>5 DEF Start, Fail, Succeed, WGoto, Update, QueueState
<1>6. ASSUME NEW g \in Handlers, DropWorkspace(g) PROVE workspaces'[id] = workspaces[id]
  BY <1>1, <1>6 DEF DropWorkspace, Goto, Snapshots, Dropping
<1>7. ASSUME NEW g \in Handlers, MakeWorkspace(g) \/ RollbackWorkspace(g),
             workspaces'[id] # workspaces[id]
      PROVE  g = h
  BY <1>1, <1>7 DEF MakeWorkspace, RollbackWorkspace, Goto, JobOwnership, Building
<1>8. ASSUME NEW w \in Workers, StoreSummary(w) PROVE workspaces'[id] = workspaces[id]
  BY <1>1, <1>8 DEF StoreSummary, WGoto, QueueState
<1>9. ASSUME id \in accepted' PROVE Enqueue(h)
  <2>1. PICK g \in Handlers : Enqueue(g) /\ subject[g] = id
    BY <1>1, <1>9, HistoryStep
  <2>2. g = h
    BY <2>1 DEF Enqueue, Goto, JobOwnership, Building
  <2>3. QED
    BY <2>1, <2>2
<1>10. QED
  BY <1>2, <1>3, <1>4, <1>5, <1>6, <1>7, <1>8, <1>9, Writers

(***************************************************************************)
(* Ownership, stored state and snapshots.                                  *)
(***************************************************************************)
\* A new job's identifier is no other submission's, and no one else writes the
\* job until it is enqueued.
LEMMA OwnershipStep ==
  ASSUME Consistent, [Next]_vars
  PROVE  JobOwnership'
<1> USE DEF Consistent
<1>1. ASSUME NEW h \in Handlers, CreateJob(h)
      PROVE  /\ subject'[h] \in JobIDs /\ origin[subject'[h]] = NoOrigin
             /\ origin'[subject'[h]] =
                  [key |-> request[h].key, payload |-> request[h].payload]
             /\ jobs'[subject'[h]].state = "queued"
             /\ request' = request /\ accepted' = accepted
  BY <1>1 DEF CreateJob, Create, Unused, TypeOK
<1>2. ASSUME NEW h \in Handlers, pc[h] \in Building \cup {"record"}
      PROVE  /\ subject[h] \in JobIDs
             /\ origin[subject[h]] # NoOrigin
             /\ origin'[subject[h]] = origin[subject[h]]
  <2>1. subject[h] \in JobIDs /\ origin[subject[h]] # NoOrigin
    BY <1>2, BuilderKnows
  <2>2. QED
    BY <2>1, HistoryStep
<1>3. ASSUME NEW h \in Handlers, pc'[h] \in Building \cup {"record"}
      PROVE  origin'[subject'[h]] =
               [key |-> request'[h].key, payload |-> request'[h].payload]
  <2>1. CASE CreateJob(h)
    BY <1>1, <2>1
  <2>2. CASE /\ pc[h] \in Building \cup {"record"}
             /\ request'[h] = request[h] /\ subject'[h] = subject[h]
    BY <1>2, <2>2 DEF JobOwnership
  <2>3. QED
    BY <1>3, <2>1, <2>2, BuildingStep
<1>4. ASSUME NEW h \in Handlers, pc'[h] \in Building
      PROVE  /\ subject'[h] \notin accepted'
             /\ jobs'[subject'[h]].state =
                  IF pc'[h] = "rollbackWorkspace" THEN "absent" ELSE "queued"
  <2>1. CASE CreateJob(h) /\ pc'[h] = "makeWorkspace"
    BY <1>1, <2>1 DEF StoredState
  <2>2. CASE /\ pc[h] \in Building /\ subject'[h] = subject[h]
             /\ \/ pc'[h] = pc[h]
                \/ pc[h] = "makeWorkspace" /\ pc'[h] = "enqueue"
                \/ pc[h] = "enqueue" /\ pc'[h] = "rollbackStore"
    <3>1. ~Enqueue(h) /\ ~RollbackStore(h)
      BY <2>2 DEF Enqueue, RollbackStore, Goto, TypeOK, Building
    <3>2. QED
      BY <2>2, <3>1, OwnedJob DEF JobOwnership
  <2>3. CASE /\ pc[h] \in Building /\ subject'[h] = subject[h]
             /\ pc'[h] = "rollbackWorkspace" /\ RollbackStore(h)
    <3>1. jobs'[subject[h]].state = "absent" /\ accepted' = accepted
      BY <1>2, <2>3 DEF RollbackStore, Delete, NoJob, TypeOK, history
    <3>2. QED
      BY <2>3, <3>1 DEF JobOwnership
  <2>4. QED
    BY <1>4, <2>1, <2>2, <2>3, BuildingStep DEF Building
<1>5. ASSUME NEW h \in Handlers, NEW g \in Handlers, pc'[h] \in Building,
             pc'[g] \in Building, subject'[h] = subject'[g]
      PROVE  h = g
  <2>1. CASE CreateJob(h) /\ g # h
    <3>1. pc[g] \in Building /\ subject'[g] = subject[g]
      <4>1. pc'[g] = pc[g] /\ subject'[g] = subject[g]
        BY <2>1, Frame DEF HandlerStep
      <4>2. QED
        BY <1>5, <4>1
    <3>2. origin[subject'[h]] = NoOrigin
      BY <1>1, <2>1
    <3>3. origin[subject'[g]] # NoOrigin
      BY <1>2, <3>1
    <3>4. QED
      BY <1>5, <3>2, <3>3
  <2>2. CASE CreateJob(g) /\ g # h
    <3>1. pc[h] \in Building /\ subject'[h] = subject[h]
      <4>1. pc'[h] = pc[h] /\ subject'[h] = subject[h]
        BY <2>2, Frame DEF HandlerStep
      <4>2. QED
        BY <1>5, <4>1
    <3>2. origin[subject'[g]] = NoOrigin
      BY <1>1, <2>2
    <3>3. origin[subject'[h]] # NoOrigin
      BY <1>2, <3>1
    <3>4. QED
      BY <1>5, <3>2, <3>3
  <2>3. CASE ~CreateJob(h) /\ ~CreateJob(g)
    <3>1. /\ pc[h] \in Building /\ subject'[h] = subject[h]
          /\ pc[g] \in Building /\ subject'[g] = subject[g]
      BY <1>5, <2>3, BuildingStep DEF Building
    <3>2. QED
      BY <1>5, <3>1 DEF JobOwnership
  <2>4. QED
    BY <2>1, <2>2, <2>3
<1>6. ASSUME NEW h \in Handlers, pc'[h] = "record" PROVE subject'[h] \in accepted'
  <2>1. CASE Enqueue(h)
    BY <2>1, <1>6 DEF Enqueue
  <2>2. CASE pc[h] = "record" /\ subject'[h] = subject[h]
    BY <1>2, <2>2, HistoryStep DEF JobOwnership
  <2>3. QED
    BY <1>6, <2>1, <2>2, BuildingStep DEF Building
<1>7. ASSUME NEW h \in Handlers, pc'[h] = "enqueue"
      PROVE  workspaces'[subject'[h]] # NoWorkspace
  <2>1. CASE MakeWorkspace(h)
    BY <2>1, <1>2 DEF MakeWorkspace, Goto, Building, TypeOK, EmptyWorkspace, NoWorkspace
  <2>2. CASE pc[h] = "enqueue" /\ subject'[h] = subject[h]
    <3>1. ~MakeWorkspace(h) /\ ~RollbackWorkspace(h)
      BY <2>2 DEF MakeWorkspace, RollbackWorkspace, Goto
    <3>2. QED
      BY <2>2, <3>1, OwnedJob DEF JobOwnership, Building
  <2>3. QED
    BY <1>7, <2>1, <2>2, BuildingStep DEF Building
<1>8. QED
  BY <1>3, <1>4, <1>5, <1>6, <1>7 DEF JobOwnership

\* A job that is not accepted is written by the handler that makes it.
LEMMA UnacceptedJob ==
  ASSUME Consistent, [Next]_vars, NEW id \in JobIDs, id \notin accepted
  PROVE  /\ \/ jobs'[id] = jobs[id]
            \/ /\ jobs'[id].state = "queued"
               /\ \E h \in Handlers : CreateJob(h) /\ subject'[h] = id
            \/ /\ jobs'[id].state = "absent"
               /\ \E h \in Handlers : RollbackStore(h) /\ subject[h] = id
         /\ \/ workspaces'[id] = workspaces[id]
            \/ \E h \in Handlers : MakeWorkspace(h) /\ subject[h] = id
            \/ \E h \in Handlers : RollbackWorkspace(h) /\ subject[h] = id
<1> USE DEF Consistent
<1>1. /\ jobs \in [JobIDs -> Job \cup {NoJob}]
      /\ workspaces \in [JobIDs -> Payloads \cup {NoWorkspace, EmptyWorkspace}]
      /\ subject \in [Handlers -> JobIDs \cup {None}]
  BY DEF TypeOK
<1>2. ASSUME NEW h \in Handlers, ExpireJob(h) PROVE jobs'[id] = jobs[id]
  BY <1>1, <1>2 DEF ExpireJob, Snapshots, Update
<1>3. ASSUME NEW h \in Handlers, CreateJob(h), jobs'[id] # jobs[id]
      PROVE  jobs'[id].state = "queued" /\ subject'[h] = id
  BY <1>1, <1>3 DEF CreateJob, Create, Unused
<1>4. ASSUME NEW h \in Handlers, RollbackStore(h), jobs'[id] # jobs[id]
      PROVE  jobs'[id].state = "absent" /\ subject[h] = id
  BY <1>1, <1>4 DEF RollbackStore, Delete, NoJob
<1>5. ASSUME NEW w \in Workers, Start(w) \/ Fail(w) \/ Succeed(w) PROVE jobs'[id] = jobs[id]
  BY <1>1, <1>5 DEF Start, Fail, Succeed, WGoto, Update, QueueState
<1>6. ASSUME NEW h \in Handlers, DropWorkspace(h) PROVE workspaces'[id] = workspaces[id]
  BY <1>1, <1>6 DEF DropWorkspace, Goto, Snapshots, Dropping
<1>7. ASSUME NEW h \in Handlers, MakeWorkspace(h) \/ RollbackWorkspace(h),
             workspaces'[id] # workspaces[id]
      PROVE  subject[h] = id
  BY <1>1, <1>7 DEF MakeWorkspace, RollbackWorkspace
<1>8. ASSUME NEW w \in Workers, StoreSummary(w) PROVE workspaces'[id] = workspaces[id]
  BY <1>1, <1>8 DEF StoreSummary, WGoto, QueueState
<1>9. QED
  BY <1>2, <1>3, <1>4, <1>5, <1>6, <1>7, <1>8, Writers

\* The workspace of an accepted job: its worker puts the summary in, a sweep that
\* has expired the job removes it.
LEMMA AcceptedWorkspace ==
  ASSUME Consistent, [Next]_vars, NEW id \in accepted
  PROVE  \/ workspaces'[id] = workspaces[id]
         \/ /\ workspaces'[id] = NoWorkspace /\ jobs[id].state = "expired"
            /\ \E h \in Handlers : DropWorkspace(h) /\ subject[h] = id
         \/ /\ workspaces'[id] = origin[id].payload /\ jobs[id].state = "running"
            /\ origin[id].payload \in Payloads
            /\ \E w \in Workers : StoreSummary(w) /\ work[w].job = id
<1> USE DEF Consistent
<1>1. /\ id \in JobIDs
      /\ workspaces \in [JobIDs -> Payloads \cup {NoWorkspace, EmptyWorkspace}]
  BY DEF TypeOK
<1>2. ASSUME NEW h \in Handlers, DropWorkspace(h), workspaces'[id] # workspaces[id]
      PROVE  /\ workspaces'[id] = NoWorkspace /\ jobs[id].state = "expired"
             /\ subject[h] = id
  BY <1>1, <1>2 DEF DropWorkspace, Goto, Snapshots, Dropping
<1>3. ASSUME NEW h \in Handlers, MakeWorkspace(h) \/ RollbackWorkspace(h)
      PROVE  workspaces'[id] = workspaces[id]
  BY <1>1, <1>3 DEF MakeWorkspace, RollbackWorkspace, Goto, JobOwnership, Building
<1>4. ASSUME NEW w \in Workers, StoreSummary(w), workspaces'[id] # workspaces[id]
      PROVE  /\ workspaces'[id] = origin[id].payload /\ jobs[id].state = "running"
             /\ origin[id].payload \in Payloads /\ work[w].job = id
  <2>1. work[w].job = id
    BY <1>1, <1>4 DEF StoreSummary
  <2>2. /\ wpc[w] = "analyze" /\ jobs[id].state = "running"
        /\ work[w].payload = origin[id].payload
        /\ work[w].payload \in Payloads
    BY <1>4, <2>1 DEF StoreSummary, WGoto, QueueState, WorkerLocals, Item, Admissible
  <2>3. workspaces'[id] = work[w].payload
    BY <1>1, <1>4, <2>1, <2>2 DEF StoreSummary, Summarized
  <2>4. QED
    BY <2>1, <2>2, <2>3
<1>5. QED
  BY <1>2, <1>3, <1>4, Writers

\* What is stored for a job follows the stage it has reached.
LEMMA StoredStateStep ==
  ASSUME Consistent, [Next]_vars
  PROVE  StoredState'
<1> SUFFICES ASSUME NEW id \in JobIDs
             PROVE  /\ id \in accepted' => Stored(jobs', id) /\ origin'[id] # NoOrigin
                    /\ id \notin accepted' => jobs'[id].state \in {"absent", "queued"}
                    /\ origin'[id] = NoOrigin =>
                         ~Stored(jobs', id) /\ workspaces'[id] = NoWorkspace
                    /\ id \in accepted' /\ jobs'[id].state \in {"queued", "running"} =>
                         workspaces'[id] # NoWorkspace
  BY DEF StoredState, Stored
<1>1. CASE id \in accepted
  <2>1. id \in accepted' /\ origin'[id] = origin[id] /\ origin[id] # NoOrigin
        /\ jobs[id].state # "absent"
    BY <1>1, HistoryStep DEF Consistent, StoredState, Stored
  <2>2. jobs'[id].state # "absent"
    BY <1>1, <2>1, AcceptedJob
  <2>3. jobs'[id].state \in {"queued", "running"} => workspaces'[id] # NoWorkspace
    <3>1. jobs'[id].state \in {"queued", "running"} =>
            jobs[id].state \in {"queued", "running"} /\ workspaces[id] # NoWorkspace
      BY <1>1, AcceptedJob DEF Consistent, StoredState
    <3>2. QED
      BY <1>1, <3>1, AcceptedWorkspace, PayloadAssumption
  <2>4. QED
    BY <2>1, <2>2, <2>3 DEF Stored
<1>2. CASE id \notin accepted /\ id \in accepted'
  <2>1. PICK h \in Handlers : Enqueue(h) /\ subject[h] = id
    BY <1>2, HistoryStep
  <2>2. pc[h] = "enqueue" /\ jobs' = jobs /\ workspaces' = workspaces /\ origin' = origin
    BY <2>1 DEF Enqueue, Goto
  <2>3. jobs[id].state = "queued" /\ workspaces[id] # NoWorkspace
    BY <2>1, <2>2 DEF Consistent, JobOwnership, Building
  <2>4. origin[id] # NoOrigin
    BY <2>1, <2>2, BuilderKnows DEF Building
  <2>5. QED
    BY <1>2, <2>2, <2>3, <2>4 DEF Stored
<1>3. CASE id \notin accepted /\ id \notin accepted'
  <2>1. jobs'[id].state \in {"absent", "queued"}
    BY <1>3, UnacceptedJob DEF Consistent, StoredState
  <2>2. ASSUME origin'[id] = NoOrigin
        PROVE  jobs'[id].state = "absent" /\ workspaces'[id] = NoWorkspace
    <3>1. /\ origin[id] = NoOrigin /\ jobs[id].state = "absent"
          /\ workspaces[id] = NoWorkspace
      BY <2>2, HistoryStep DEF Consistent, StoredState, Stored
    <3>2. ASSUME NEW h \in Handlers, CreateJob(h), subject'[h] = id PROVE FALSE
      <4>1. request[h].payload # None
        BY <3>2, NoneAssumption DEF Consistent, HandlerLocals, CreateJob, Goto, Submitting,
           Submission
      <4>2. origin'[id].payload = request[h].payload
        BY <3>2 DEF CreateJob, Consistent, TypeOK, Unused
      <4>3. QED
        BY <2>2, <4>1, <4>2, MadeJob
    <3>3. ASSUME NEW h \in Handlers, pc[h] \in Building, subject[h] = id PROVE FALSE
      BY <3>1, <3>3, BuilderKnows
    <3>4. \A h \in Handlers : RollbackStore(h) \/ MakeWorkspace(h) \/ RollbackWorkspace(h)
            => pc[h] \in Building
      BY DEF RollbackStore, MakeWorkspace, RollbackWorkspace, Goto, Building
    <3>5. QED
      BY <1>3, <3>1, <3>2, <3>3, <3>4, UnacceptedJob
  <2>3. QED
    BY <1>3, <2>1, <2>2 DEF Stored
<1>4. QED
  BY <1>1, <1>2, <1>3

\* The snapshots of sweeps and of the report index only get stale in the direction
\* the code allows for.
LEMMA SnapshotsStep ==
  ASSUME Consistent, [Next]_vars
  PROVE  Snapshots'
<1> DEFINE Moving(h) == Arrive(h) \/ HandlerStep(h) \/ Acquire(h)
<1>1. TypeOK /\ Snapshots /\ StoredState
  BY DEF Consistent
<1>2. clock <= clock' /\ clock' \in Nat
  BY <1>1, Writers DEF TypeOK, Tick
<1>3. ASSUME NEW h \in Handlers
      PROVE  \/ sweepNow'[h] = sweepNow[h] /\ todo'[h] \subseteq todo[h]
             \/ sweepNow'[h] = sweepNow[h] /\ Sweep(h)
             \/ sweepNow'[h] = clock /\ todo'[h] = todo[h] /\ pc[h] = "idle"
             \/ sweepNow'[h] = 0 /\ todo'[h] = todo[h] /\ pc[h] = "dispatch"
  <2>1. CASE Moving(h)
    <3> USE DEF TypeOK, Goto, sweepVars
    <3>1. CASE Arrive(h)
      BY <1>1, <3>1 DEF Arrive
    <3>2. CASE Sweep(h) \/ ExpireJob(h) \/ DropWorkspace(h) \/ DropKeys(h)
      BY <1>1, <3>2 DEF Sweep, ExpireJob, DropWorkspace, DropKeys
    <3>3. CASE Refuse(h) \/ Route(h)
      BY <1>1, <3>3 DEF Refuse, Route
    <3>4. CASE ~(Arrive(h) \/ Sweep(h) \/ ExpireJob(h) \/ DropWorkspace(h) \/ DropKeys(h)
                 \/ Refuse(h) \/ Route(h))
      BY <2>1, <3>4 DEF HandlerStep, Acquire, Lock, LookupConflict, LookupHit, LookupMiss,
         CreateJob, MakeWorkspace, Enqueue, QueueFull, RecordKey, RollbackStore,
         RollbackWorkspace, GetJob, ReadWorkspace, ListReports, CollectReport, WriteIndex,
         Respond
    <3>5. QED
      BY <3>1, <3>2, <3>3, <3>4
  <2>2. CASE ~Moving(h)
    <3>1. sweepNow'[h] = sweepNow[h] /\ todo'[h] = todo[h]
      BY <1>1, <2>2, Frame, OthersFrame DEF Next, handlerVars, sweepVars
    <3>2. QED
      BY <3>1
  <2>3. QED
    BY <2>1, <2>2
<1>4. ASSUME NEW h \in Handlers, Sweep(h), NEW e \in todo'[h]
      PROVE  /\ e.id \in JobIDs /\ jobs' = jobs /\ accepted' = accepted
             /\ jobs[e.id].state \in Terminal /\ jobs[e.id].error = e.error
             /\ sweepNow[h] - jobs[e.id].updatedAt >= Retention
  BY <1>1, <1>4 DEF Sweep, List, Expirable, TypeOK, storeVars, history
<1>5. ASSUME NEW h \in Handlers PROVE sweepNow'[h] <= clock'
  <2>1. sweepNow[h] \in Nat /\ clock \in Nat /\ sweepNow[h] <= clock
    BY <1>1 DEF Snapshots, TypeOK
  <2>2. sweepNow'[h] \in {sweepNow[h], clock, 0}
    BY <1>3
  <2>3. QED
    BY <1>2, <2>1, <2>2
<1>6. ASSUME NEW h \in Handlers, pc'[h] \notin Dropping \cup {"expire"}
      PROVE  todo'[h] = {}
  <2>1. CASE pc[h] \notin Dropping \cup {"expire"} /\ ~Sweep(h)
    BY <1>1, <1>3, <2>1 DEF Snapshots
  <2>2. CASE Sweep(h)
    BY <1>1, <1>6, <2>2 DEF Sweep, Goto, TypeOK
  <2>3. CASE pc[h] \in Dropping \cup {"expire"}
    <3>1. pc'[h] # pc[h]
      BY <1>6, <2>3
    <3>2. Moving(h)
      BY <1>1, <3>1, Frame, OthersFrame DEF Next, handlerVars
    <3>3. DropKeys(h)
      <4>1. ~ExpireJob(h) /\ ~DropWorkspace(h)
        BY <1>1, <1>6 DEF ExpireJob, DropWorkspace, Goto, Dropping, TypeOK
      <4>2. QED
        BY <2>3, <3>2, <4>1 DEF Dropping, Arrive, HandlerStep, Acquire, Sweep, Refuse, Route,
           LookupConflict, LookupHit, LookupMiss, CreateJob, MakeWorkspace, Enqueue,
           QueueFull, RecordKey, RollbackStore, RollbackWorkspace, GetJob, ReadWorkspace,
           ListReports, CollectReport, WriteIndex, Respond, Lock, Goto
    <3>4. QED
      BY <1>1, <1>6, <3>3 DEF DropKeys, Goto, TypeOK, sweepVars
  <2>4. QED
    BY <2>1, <2>2, <2>3
<1>7. ASSUME NEW h \in Handlers, NEW e \in todo'[h]
      PROVE  /\ e.id \in accepted'
             /\ jobs'[e.id].state \in Terminal \cup {"expired"}
             /\ jobs'[e.id].error = e.error
             /\ jobs'[e.id].state # "expired" =>
                  sweepNow'[h] - jobs'[e.id].updatedAt >= Retention
  <2>1. CASE Sweep(h)
    <3>1. e.id \in accepted
      BY <1>1, <1>4, <2>1 DEF StoredState, Terminal
    <3>2. sweepNow'[h] = sweepNow[h]
      BY <2>1 DEF Sweep
    <3>3. QED
      BY <1>4, <2>1, <3>1, <3>2
  <2>2. CASE ~Sweep(h)
    <3>1. e \in todo[h] /\ sweepNow'[h] = sweepNow[h]
      BY <1>1, <1>3, <1>7, <2>2 DEF Snapshots, Dropping
    <3>2. /\ e.id \in accepted /\ e.id \in JobIDs
          /\ jobs[e.id].state \in Terminal \cup {"expired"} /\ jobs[e.id].error = e.error
          /\ jobs[e.id].state # "expired" =>
               sweepNow[h] - jobs[e.id].updatedAt >= Retention
      BY <1>1, <3>1 DEF Snapshots, TypeOK
    <3>3. \/ jobs'[e.id] = jobs[e.id]
          \/ jobs'[e.id].state = "expired" /\ jobs'[e.id].error = jobs[e.id].error
      BY <3>2, AcceptedJob DEF Terminal
    <3>4. e.id \in accepted'
      BY <3>2, HistoryStep
    <3>5. QED
      BY <3>1, <3>2, <3>3, <3>4
  <2>3. QED
    BY <2>1, <2>2
<1>8. ASSUME NEW id \in accepted, jobs[id].state \in {"succeeded", "expired"}
      PROVE  /\ id \in accepted' /\ jobs'[id].state \in {"succeeded", "expired"}
             /\ jobs[id].state = "expired" => jobs'[id].state = "expired"
  BY <1>1, <1>8, AcceptedJob, HistoryStep DEF TypeOK
<1>9. ASSUME NEW h \in Handlers, pc'[h] \in Dropping
      PROVE  subject'[h] \in accepted' /\ jobs'[subject'[h]].state = "expired"
  <2>1. CASE ExpireJob(h)
    <3>1. PICK e \in todo[h] :
            /\ jobs' = Update(jobs, e.id, "expired", sweepNow[h], e.error)
            /\ subject' = [subject EXCEPT ![h] = e.id]
      BY <2>1 DEF ExpireJob
    <3>2. e.id \in accepted /\ e.id \in JobIDs /\ Stored(jobs, e.id)
      BY <1>1, <3>1 DEF Snapshots, StoredState, TypeOK
    <3>3. subject'[h] = e.id /\ jobs'[e.id].state = "expired" /\ e.id \in accepted'
      BY <1>1, <3>1, <3>2, HistoryStep DEF Update, TypeOK
    <3>4. QED
      BY <3>3
  <2>2. CASE pc[h] \in Dropping /\ subject'[h] = subject[h]
    BY <1>1, <1>8, <2>2 DEF Snapshots
  <2>3. (pc[h] \in Dropping /\ subject'[h] = subject[h]) \/ ExpireJob(h)
    <3>1. CASE pc'[h] = pc[h]
      BY <1>1, <1>9, <3>1, Stays
    <3>2. CASE pc'[h] # pc[h]
      BY <1>1, <1>9, <3>2, Entering DEF Dropping, DropWorkspace, Goto
    <3>3. QED
      BY <3>1, <3>2
  <2>4. QED
    BY <2>1, <2>2, <2>3
<1>10. ASSUME NEW h \in Handlers, pc'[h] = "readWorkspace"
       PROVE  subject'[h] \in accepted' /\ jobs'[subject'[h]].state \in {"succeeded", "expired"}
  <2>1. CASE pc'[h] = pc[h]
    BY <1>1, <1>8, <1>10, <2>1, Stays DEF Snapshots
  <2>2. CASE pc'[h] # pc[h]
    <3>1. GetJob(h)
      BY <1>1, <1>10, <2>2, Entering
    <3>2. /\ jobs[subject[h]].state = "succeeded" /\ subject[h] \in JobIDs
          /\ subject'[h] = subject[h]
      BY <1>10, <3>1 DEF GetJob, Goto, NeedsWorkspace, Consistent, HandlerLocals, Reading,
         TypeOK
    <3>3. subject[h] \in accepted
      BY <1>1, <3>2 DEF StoredState
    <3>4. QED
      BY <1>8, <3>2, <3>3
  <2>3. QED
    BY <2>1, <2>2
<1>11. ASSUME NEW h \in Handlers, NEW id \in listed'[h]
       PROVE  id \in accepted' /\ jobs'[id].state \in {"succeeded", "expired"}
  <2>1. CASE id \in listed[h]
    BY <1>1, <1>8, <2>1 DEF Snapshots
  <2>2. CASE ListReports(h)
    <3>1. id \in JobIDs /\ jobs[id].state = "succeeded"
      BY <1>1, <1>11, <2>2 DEF ListReports, List, Reportable, TypeOK
    <3>2. id \in accepted
      BY <1>1, <3>1 DEF StoredState
    <3>3. QED
      BY <1>8, <3>1, <3>2
  <2>3. ~ListReports(h) => listed'[h] \subseteq listed[h]
    <3>1. CASE Moving(h) /\ ~ListReports(h)
      BY <1>1, <3>1 DEF TypeOK, indexVars, Arrive, HandlerStep, Acquire, Sweep, ExpireJob,
         DropWorkspace, Refuse, Route, LookupConflict, LookupHit, LookupMiss, CreateJob,
         MakeWorkspace, Enqueue, QueueFull, RecordKey, RollbackStore, RollbackWorkspace,
         GetJob, ReadWorkspace, CollectReport, WriteIndex, Respond, Lock, DropKeys
    <3>2. CASE ~Moving(h)
      BY <1>1, <3>2, Frame, OthersFrame DEF Next, handlerVars, indexVars
    <3>3. QED
      BY <3>1, <3>2
  <2>4. QED
    BY <1>11, <2>1, <2>2, <2>3
<1>12. QED
  BY <1>5, <1>6, <1>7, <1>9, <1>10, <1>11 DEF Snapshots

(***************************************************************************)
(* Workspaces and idempotency records.                                     *)
(***************************************************************************)
\* A handler leaves each of these places by one step only.
LEMMA Leaving ==
  ASSUME TypeOK, [Next]_vars, NEW h \in Handlers, pc'[h] # pc[h]
  PROVE  /\ pc[h] = "dropWorkspace" => DropWorkspace(h)
         /\ pc[h] = "dropKeys" => DropKeys(h)
         /\ pc[h] = "record" => RecordKey(h)
         /\ pc[h] = "rollbackWorkspace" => RollbackWorkspace(h)
<1>1. Arrive(h) \/ HandlerStep(h) \/ Acquire(h)
  BY Frame, OthersFrame DEF Next, handlerVars
<1>2. QED
  BY <1>1 DEF Arrive, HandlerStep, Acquire, Sweep, ExpireJob, DropWorkspace, Refuse, Route,
     LookupConflict, LookupHit, LookupMiss, CreateJob, MakeWorkspace, Enqueue, QueueFull,
     RecordKey, RollbackStore, RollbackWorkspace, GetJob, ReadWorkspace, ListReports,
     CollectReport, WriteIndex, Respond, Lock, DropKeys, Goto

\* A handler that is removing what an expired job left goes on until the records.
LEMMA Droppers ==
  ASSUME TypeOK, [Next]_vars, NEW h \in Handlers, pc[h] \in Dropping
  PROVE  \/ pc'[h] \in Dropping /\ subject'[h] = subject[h]
         \/ DropKeys(h) /\ pc[h] = "dropKeys"
<1>1. CASE pc'[h] = pc[h]
  BY <1>1, Stays
<1>2. CASE pc'[h] # pc[h] /\ pc[h] = "dropWorkspace"
  BY <1>2, Leaving DEF DropWorkspace, Goto, TypeOK, Dropping
<1>3. CASE pc'[h] # pc[h] /\ pc[h] = "dropKeys"
  BY <1>3, Leaving
<1>4. QED
  BY <1>1, <1>2, <1>3 DEF Dropping

\* A job that expires in a step is being dropped by the handler that expired it.
LEMMA Expiring ==
  ASSUME Consistent, [Next]_vars, NEW id \in accepted, jobs[id].state # "expired",
         jobs'[id].state = "expired"
  PROVE  \E h \in Handlers : pc'[h] = "dropWorkspace" /\ subject'[h] = id
<1>1. PICK h \in Handlers : ExpireJob(h) /\ subject'[h] = id
  BY AcceptedJob
<1>2. QED
  BY <1>1 DEF ExpireJob, Goto, Consistent, TypeOK

\* A job reads "succeeded" only after its worker has stored its summary.
LEMMA SummaryStep ==
  ASSUME Consistent, [Next]_vars
  PROVE  SucceededHasSummary'
<1> SUFFICES ASSUME NEW id \in JobIDs, jobs'[id].state = "succeeded"
             PROVE  workspaces'[id] = origin'[id].payload
  BY DEF SucceededHasSummary
<1>1. id \in accepted
  <2>1. id \in accepted'
    BY StoredStateStep DEF StoredState
  <2>2. ASSUME id \notin accepted PROVE FALSE
    <3>1. PICK h \in Handlers : Enqueue(h) /\ subject[h] = id
      BY <2>1, <2>2, HistoryStep
    <3>2. QED
      BY <2>2, <3>1 DEF Enqueue, Consistent, StoredState
  <2>3. QED
    BY <2>2
<1>2. origin'[id] = origin[id]
  BY <1>1, HistoryStep DEF Consistent, StoredState
<1>3. CASE jobs'[id] = jobs[id]
  BY <1>1, <1>2, <1>3, AcceptedWorkspace DEF Consistent, SucceededHasSummary
<1>4. CASE \E w \in Workers : Succeed(w) /\ work[w].job = id
  BY <1>2, <1>4 DEF Succeed, WGoto, Consistent, QueueState
<1>5. QED
  BY <1>1, <1>3, <1>4, AcceptedJob

\* The idempotency table only changes for the handler that holds its mutex, or that
\* has it for the length of one deletion.
LEMMA RecordsStep ==
  ASSUME Consistent, [Next]_vars
  PROVE  Records'
<1>1. TypeOK /\ Records /\ StoredState /\ Snapshots /\ MutexHeld /\ HandlerLocals
  BY DEF Consistent
<1>2. ASSUME NEW h \in Handlers, RecordKey(h)
      PROVE  /\ pc[h] = "record" /\ request[h].key \in Keys /\ subject[h] \in accepted
             /\ idempotencyMu = h /\ idempotency[request[h].key] = NoRecord
             /\ origin[subject[h]] = [key |-> request[h].key, payload |-> request[h].payload]
             /\ idempotency' = [idempotency EXCEPT ![request[h].key] =
                                  [payload |-> request[h].payload, job |-> subject[h]]]
             /\ pc'[h] = "reply" /\ origin' = origin /\ accepted' = accepted
             /\ jobs' = jobs
  <2>1. pc[h] = "record" /\ Keyed(h) /\ subject[h] \in accepted
    BY <1>1, <1>2 DEF RecordKey, Goto, HandlerLocals, Consistent, JobOwnership
  <2>2. request[h].key \in Keys
    BY <2>1, BuilderKnows DEF Keyed
  <2>3. idempotencyMu = h /\ idempotency[request[h].key] = NoRecord
    BY <1>1, <2>1 DEF MutexHeld, Submitting, Records
  <2>4. origin[subject[h]] = [key |-> request[h].key, payload |-> request[h].payload]
    BY <2>1, BuilderKnows
  <2>5. QED
    BY <1>1, <1>2, <2>1, <2>2, <2>3, <2>4 DEF RecordKey, Goto, TypeOK, history
<1>3. ASSUME NEW k \in Keys, idempotency'[k] # NoRecord
      PROVE  /\ idempotency'[k].job \in accepted'
             /\ origin'[idempotency'[k].job] =
                  [key |-> k, payload |-> idempotency'[k].payload]
  <2>1. CASE idempotency'[k] = idempotency[k]
    <3>1. /\ idempotency[k].job \in accepted
          /\ origin[idempotency[k].job] = [key |-> k, payload |-> idempotency[k].payload]
      BY <1>1, <1>3, <2>1 DEF Records
    <3>2. idempotency[k].job \in JobIDs /\ origin[idempotency[k].job] # NoOrigin
      BY <1>1, <3>1 DEF TypeOK, StoredState
    <3>3. QED
      BY <2>1, <3>1, <3>2, HistoryStep
  <2>2. CASE idempotency'[k] # idempotency[k]
    <3>1. PICK h \in Handlers : RecordKey(h)
      BY <1>1, <1>3, <2>2, Writers DEF DropKeys, LookupMiss, TypeOK
    <3>2. idempotency'[k] = [payload |-> request[h].payload, job |-> subject[h]]
          /\ k = request[h].key
      BY <1>1, <1>2, <2>2, <3>1 DEF TypeOK
    <3>3. QED
      BY <1>2, <3>1, <3>2
  <2>3. QED
    BY <2>1, <2>2
<1>4. ASSUME NEW id \in JobIDs, Live(id)', origin'[id].key # None
      PROVE  \/ idempotency'[origin'[id].key].job = id
             \/ \E h \in Handlers : pc'[h] = "record" /\ subject'[h] = id
  <2>1. CASE id \notin accepted
    <3>1. PICK h \in Handlers : Enqueue(h) /\ subject[h] = id
      BY <1>4, <2>1, HistoryStep DEF Live
    <3>2. origin[id].key = request[h].key /\ origin' = origin
      <4>1. pc[h] = "enqueue" /\ origin' = origin
        BY <3>1 DEF Enqueue, Goto
      <4>2. origin[id] = [key |-> request[h].key, payload |-> request[h].payload]
        BY <3>1, <4>1, BuilderKnows DEF Building
      <4>3. QED
        BY <4>1, <4>2
    <3>3. pc'[h] = "record" /\ subject'[h] = id
      BY <1>1, <1>4, <3>1, <3>2 DEF Enqueue, Goto, Keyed, TypeOK
    <3>4. QED
      BY <3>3
  <2>2. CASE id \in accepted
    <3> DEFINE k == origin[id].key
    <3>1. origin'[id] = origin[id] /\ Live(id)
      <4>1. origin'[id] = origin[id]
        BY <1>1, <2>2, HistoryStep DEF StoredState
      <4>2. jobs[id].state # "expired"
        BY <1>4, <2>2, AcceptedJob DEF Live, Terminal
      <4>3. QED
        BY <2>2, <4>1, <4>2 DEF Live
    <3>2. k \in Keys /\ k # None
      BY <1>1, <1>4, <3>1 DEF TypeOK, NoOrigin
    <3>3. CASE idempotency[k].job = id
      <4>1. idempotency[k] # NoRecord
        BY <3>3, NoneAssumption DEF NoRecord
      <4>2. ASSUME NEW h \in Handlers, DropKeys(h) PROVE idempotency'[k] = idempotency[k]
        <5>1. subject[h] # id
          BY <1>1, <3>1, <4>2 DEF DropKeys, Goto, Dropping, Snapshots, Live
        <5>2. QED
          BY <3>2, <3>3, <4>2, <5>1 DEF DropKeys
      <4>3. ASSUME NEW h \in Handlers, LookupMiss(h) PROVE idempotency'[k] = idempotency[k]
        <5>1. Reusable(id)
          BY <1>1, <3>1 DEF Reusable, Live, StoredState, Stored
        <5>2. request[h].key # k
          BY <3>3, <4>1, <4>3, <5>1 DEF LookupMiss, Recorded
        <5>3. QED
          BY <1>1, <4>3, <5>2 DEF LookupMiss, TypeOK
      <4>4. ASSUME NEW h \in Handlers, RecordKey(h) PROVE idempotency'[k] = idempotency[k]
        <5>1. request[h].key # k
          BY <1>2, <4>1, <4>4
        <5>2. idempotency' = [idempotency EXCEPT ![request[h].key] =
                                [payload |-> request[h].payload, job |-> subject[h]]]
          BY <1>2, <4>4
        <5>3. QED
          BY <1>1, <3>2, <5>1, <5>2 DEF TypeOK
      <4>5. idempotency'[k] = idempotency[k]
        BY <4>2, <4>3, <4>4, Writers
      <4>6. QED
        BY <3>1, <3>3, <4>5
    <3>4. CASE \E h \in Handlers : pc[h] = "record" /\ subject[h] = id
      <4>1. PICK h \in Handlers : pc[h] = "record" /\ subject[h] = id
        BY <3>4
      <4>2. CASE pc'[h] = pc[h]
        BY <1>1, <4>1, <4>2, Stays
      <4>3. CASE pc'[h] # pc[h]
        <5>1. RecordKey(h)
          BY <1>1, <4>1, <4>3, Leaving
        <5>2. /\ origin[id] = [key |-> request[h].key, payload |-> request[h].payload]
              /\ idempotency' = [idempotency EXCEPT ![request[h].key] =
                                   [payload |-> request[h].payload, job |-> id]]
          BY <1>2, <4>1, <5>1
        <5>3. k = request[h].key
          BY <5>2
        <5>4. idempotency'[k] = [payload |-> request[h].payload, job |-> id]
          BY <1>1, <3>2, <5>2, <5>3 DEF TypeOK
        <5>5. QED
          BY <3>1, <5>4
      <4>4. QED
        BY <4>2, <4>3
    <3>5. QED
      BY <1>1, <3>1, <3>2, <3>3, <3>4 DEF Records
  <2>3. QED
    BY <2>1, <2>2
<1>5. ASSUME NEW h \in Handlers, pc'[h] \in Building \cup {"create", "record"}, Keyed(h)'
      PROVE  idempotency'[request'[h].key] = NoRecord
  <2>1. CASE LookupMiss(h)
    <3>1. request[h].key \in Keys /\ request' = request
      BY <1>1, <2>1 DEF LookupMiss, Goto, HandlerLocals, Submitting, Submission, Keyed
    <3>2. QED
      BY <1>1, <2>1, <3>1 DEF LookupMiss, TypeOK
  <2>2. CASE pc[h] \in Building \cup {"create", "record"} /\ request'[h] = request[h]
    <3>1. /\ Keyed(h) /\ request[h].key \in Keys /\ idempotencyMu = h
          /\ idempotency[request[h].key] = NoRecord
      <4>1. Keyed(h)
        BY <1>5, <2>2 DEF Keyed
      <4>2. QED
        BY <1>1, <2>2, <4>1 DEF Keyed, HandlerLocals, Submission, MutexHeld, Submitting,
           Building, Records
    <3>2. ASSUME NEW g \in Handlers, RecordKey(g) PROVE FALSE
      BY <1>2, <1>5, <3>1, <3>2 DEF Building
    <3>3. \A g \in Handlers : DropKeys(g) \/ LookupMiss(g) =>
            idempotency'[request[h].key] = NoRecord
      BY <1>1, <3>1 DEF DropKeys, LookupMiss, TypeOK
    <3>4. QED
      BY <2>2, <3>1, <3>2, <3>3, Writers
  <2>3. \/ LookupMiss(h)
        \/ pc[h] \in Building \cup {"create", "record"} /\ request'[h] = request[h]
    <3>1. CASE pc'[h] = "create"
      <4>1. CASE pc'[h] = pc[h]
        BY <1>1, <3>1, <4>1, Stays
      <4>2. CASE pc'[h] # pc[h]
        BY <1>1, <1>5, <3>1, <4>2, Entering DEF Route, Keyed
      <4>3. QED
        BY <4>1, <4>2
    <3>2. CASE pc'[h] \in Building \cup {"record"}
      BY <1>1, <3>2, BuildingStep DEF CreateJob, Goto
    <3>3. QED
      BY <1>5, <3>1, <3>2
  <2>4. QED
    BY <2>1, <2>2, <2>3
<1>6. QED
  BY <1>3, <1>4, <1>5 DEF Records

\* The sweep that expired a job cannot pass the mutex while the job's record is
\* being written.
LEMMA LateRecordStep ==
  ASSUME Consistent, [Next]_vars
  PROVE  LateRecord'
<1>1. TypeOK
  BY DEF Consistent
<1> SUFFICES ASSUME NEW h \in Handlers, pc'[h] = "record",
                    jobs'[subject'[h]].state = "expired"
             PROVE  \E g \in Handlers : pc'[g] \in Dropping /\ subject'[g] = subject'[h]
  BY DEF LateRecord
<1>2. pc[h] = "record" /\ subject'[h] = subject[h]
  <2>1. ASSUME Enqueue(h) PROVE FALSE
    <3>1. jobs[subject[h]].state = "queued" /\ jobs' = jobs /\ subject' = subject
      BY <2>1 DEF Enqueue, Goto, Consistent, JobOwnership, Building
    <3>2. QED
      BY <3>1
  <2>2. QED
    BY <1>1, <2>1, BuildingStep DEF Building
<1>3. subject[h] \in accepted /\ idempotencyMu = h
  BY <1>2 DEF Consistent, JobOwnership, MutexHeld, HandlerLocals, Submitting
<1>4. CASE jobs[subject[h]].state = "expired"
  <2>1. PICK g \in Handlers : pc[g] \in Dropping /\ subject[g] = subject[h]
    BY <1>2, <1>4 DEF Consistent, LateRecord
  <2>2. ~DropKeys(g)
    BY <1>3, NoneAssumption DEF DropKeys, MutexFree
  <2>3. QED
    BY <1>1, <1>2, <2>1, <2>2, Droppers
<1>5. CASE jobs[subject[h]].state # "expired"
  BY <1>2, <1>3, <1>5, Expiring DEF Dropping
<1>6. QED
  BY <1>4, <1>5

(***************************************************************************)
(* The queue and the workers.                                              *)
(***************************************************************************)
\* A worker that has not moved still has its item; one that has moved took a step.
LEMMA WorkerFrame ==
  ASSUME TypeOK, [Next]_vars, NEW w \in Workers
  PROVE  /\ wpc'[w] # wpc[w] => WorkerStep(w)
         /\ wpc'[w] = wpc[w] => work'[w] = work[w] /\ ~WorkerStep(w)
<1> USE DEF TypeOK
<1>1. WorkerStep(w) => wpc'[w] # wpc[w]
  BY DEF WorkerStep, Take, Start, Fail, StoreSummary, Succeed, WGoto, NextItem
<1>2. ASSUME NEW v \in Workers, v # w, WorkerStep(v)
      PROVE  wpc'[w] = wpc[w] /\ work'[w] = work[w]
  BY <1>2 DEF WorkerStep, Take, Start, Fail, StoreSummary, Succeed, WGoto
<1>3. QED
  BY <1>1, <1>2, Writers DEF workerVars

\* A job in the queue is written by no one.
LEMMA QueuedStays ==
  ASSUME Consistent, [Next]_vars, NEW i \in 1..Len(jobQueue)
  PROVE  LET id == jobQueue[i].job IN
         /\ id \in accepted' /\ jobs'[id] = jobs[id] /\ origin'[id] = origin[id]
<1> DEFINE id == jobQueue[i].job
<1>1. id \in accepted /\ jobs[id].state = "queued"
  BY DEF Consistent, QueueState
<1>2. id \in JobIDs /\ origin[id] # NoOrigin
  BY <1>1 DEF Consistent, TypeOK, StoredState
<1>3. id \in accepted' /\ origin'[id] = origin[id]
  BY <1>1, <1>2, HistoryStep
<1>4. ASSUME NEW w \in Workers, Start(w) PROVE work[w].job # id
  BY <1>4 DEF Start, WGoto, Consistent, QueueState
<1>5. jobs'[id] = jobs[id]
  BY <1>1, <1>4, AcceptedJob DEF Terminal
<1>6. QED
  BY <1>3, <1>5

\* The job of a worker that does not move is written by no one either, and its
\* summary stays.
LEMMA HeldStays ==
  ASSUME Consistent, [Next]_vars, NEW w \in Workers, wpc[w] # "waiting",
         wpc'[w] = wpc[w]
  PROVE  LET id == work[w].job IN
         /\ id \in accepted' /\ jobs'[id] = jobs[id] /\ origin'[id] = origin[id]
         /\ work'[w] = work[w]
         /\ wpc[w] = "publish" => workspaces'[id] = workspaces[id]
<1> DEFINE id == work[w].job
<1>1. id \in accepted /\ jobs[id].state \in {"queued", "running"}
  BY DEF Consistent, QueueState
<1>2. id \in JobIDs /\ origin[id] # NoOrigin
  BY <1>1 DEF Consistent, TypeOK, StoredState
<1>3. id \in accepted' /\ origin'[id] = origin[id]
  BY <1>1, <1>2, HistoryStep
<1>4. work'[w] = work[w] /\ ~WorkerStep(w)
  BY WorkerFrame DEF Consistent
<1>5. ASSUME NEW v \in Workers, Start(v) \/ Succeed(v) \/ Fail(v) \/ StoreSummary(v)
      PROVE  work[v].job # id
  <2>1. v # w /\ wpc[v] # "waiting"
    BY <1>4, <1>5 DEF WorkerStep, Start, Succeed, Fail, StoreSummary, WGoto
  <2>2. QED
    BY <2>1 DEF Consistent, QueueState
<1>6. jobs'[id] = jobs[id]
  BY <1>1, <1>5, AcceptedJob DEF Terminal
<1>7. workspaces'[id] = workspaces[id]
  BY <1>1, <1>5, AcceptedWorkspace
<1>8. QED
  BY <1>3, <1>4, <1>6, <1>7

\* An unfinished job stays in one place, and its place says its state.
LEMMA QueueStep ==
  ASSUME Consistent, [Next]_vars
  PROVE  QueueState'
<1>1. TypeOK /\ QueueState /\ StoredState /\ WorkerLocals
  BY DEF Consistent
<1>2. jobQueue \in Seq(Item)
  BY <1>1 DEF TypeOK
<1>3. CASE \E h \in Handlers : Enqueue(h)
  <2>1. PICK h \in Handlers : Enqueue(h)
    BY <1>3
  <2> DEFINE id == subject[h]
             new == [job |-> id, payload |-> request[h].payload]
  <2>2. /\ jobQueue' = Append(jobQueue, new) /\ accepted' = accepted \cup {id}
        /\ UNCHANGED <<jobs, workspaces, origin, wpc, work>>
    BY <2>1 DEF Enqueue, workerVars
  <2>3. pc[h] \in Building
    BY <2>1 DEF Enqueue, Goto, Building
  <2>4. id \notin accepted /\ jobs[id].state = "queued"
    BY <2>1 DEF Enqueue, Goto, Building, Consistent, JobOwnership
  <2>5. origin[id].payload = request[h].payload
    <3>1. origin[id] = [key |-> request[h].key, payload |-> request[h].payload]
      BY <2>3, BuilderKnows
    <3>2. QED
      BY <3>1
  <2>6. new \in [job : JobIDs, payload : Payloads] /\ new.job = id
        /\ new.payload = request[h].payload
    BY <2>3, BuilderKnows
  <2>7. Len(jobQueue') = Len(jobQueue) + 1 /\ Len(jobQueue) \in Nat
    BY <1>2, <2>2
  <2>8. \A i \in 1..Len(jobQueue') :
          \/ i \in 1..Len(jobQueue) /\ jobQueue'[i] = jobQueue[i]
          \/ i = Len(jobQueue) + 1 /\ jobQueue'[i] = new
    BY <1>2, <2>2, <2>7
  <2>9. \A i \in 1..Len(jobQueue) : jobQueue[i].job # id
    BY <1>1, <2>4 DEF QueueState
  <2>10. /\ \A i \in 1..Len(jobQueue') :
              /\ jobQueue'[i].job \in accepted'
              /\ jobs'[jobQueue'[i].job].state = "queued"
              /\ jobQueue'[i].payload = origin'[jobQueue'[i].job].payload
    BY <1>1, <2>2, <2>4, <2>5, <2>6, <2>8 DEF QueueState
  <2>11. \A i, j \in 1..Len(jobQueue') : jobQueue'[i].job = jobQueue'[j].job => i = j
    BY <1>1, <2>6, <2>8, <2>9 DEF QueueState
  <2>12. \A w \in Workers : wpc[w] # "waiting" => work[w].job # id
    BY <1>1, <2>4 DEF QueueState
  <2>13. \A w \in Workers : wpc[w] # "waiting" =>
           \A i \in 1..Len(jobQueue') : jobQueue'[i].job # work[w].job
    BY <1>1, <2>6, <2>8, <2>12 DEF QueueState
  <2>14. QED
    BY <1>1, <2>2, <2>10, <2>11, <2>13 DEF QueueState
<1>4. CASE \E w \in Workers : Take(w)
  <2>1. PICK w \in Workers : Take(w)
    BY <1>4
  <2>2. /\ wpc[w] = "waiting" /\ jobQueue # <<>>
        /\ wpc' = [wpc EXCEPT ![w] = "start"]
        /\ work' = [work EXCEPT ![w] = Head(jobQueue)]
        /\ jobQueue' = Tail(jobQueue)
        /\ UNCHANGED <<jobs, workspaces, origin, accepted>>
    BY <2>1 DEF Take, WGoto, Received, history
  <2>3. /\ Len(jobQueue) \in Nat \ {0} /\ Len(jobQueue') = Len(jobQueue) - 1
        /\ Head(jobQueue) = jobQueue[1]
    BY <1>2, <2>2
  <2>4. \A i \in 1..Len(jobQueue') :
          i + 1 \in 1..Len(jobQueue) /\ jobQueue'[i] = jobQueue[i + 1]
    BY <1>2, <2>2, <2>3
  <2>5. 1 \in 1..Len(jobQueue) /\ wpc'[w] = "start" /\ work'[w] = jobQueue[1]
    BY <1>1, <2>2, <2>3 DEF TypeOK
  <2>6. \A v \in Workers : v # w => wpc'[v] = wpc[v] /\ work'[v] = work[v]
    BY <1>1, <2>2 DEF TypeOK
  <2>7. \A i \in 1..Len(jobQueue') :
          /\ jobQueue'[i].job \in accepted'
          /\ jobs'[jobQueue'[i].job].state = "queued"
          /\ jobQueue'[i].payload = origin'[jobQueue'[i].job].payload
          /\ jobQueue'[i].job # jobQueue[1].job
    BY <1>1, <2>2, <2>4, <2>5 DEF QueueState
  <2>8. \A i, j \in 1..Len(jobQueue') : jobQueue'[i].job = jobQueue'[j].job => i = j
    <3> SUFFICES ASSUME NEW i \in 1..Len(jobQueue'), NEW j \in 1..Len(jobQueue'),
                        jobQueue'[i].job = jobQueue'[j].job
                 PROVE  i = j
      OBVIOUS
    <3>1. /\ i + 1 \in 1..Len(jobQueue) /\ j + 1 \in 1..Len(jobQueue)
          /\ jobQueue[i + 1].job = jobQueue[j + 1].job
      BY <2>4
    <3>2. \A m, n \in 1..Len(jobQueue) : jobQueue[m].job = jobQueue[n].job => m = n
      BY <1>1 DEF QueueState
    <3>3. i + 1 = j + 1
      BY ONLY <3>1, <3>2
    <3>4. QED
      BY <3>3, <2>3
  <2>9. ASSUME NEW v \in Workers, wpc'[v] # "waiting"
        PROVE  /\ work'[v].job \in accepted'
               /\ jobs'[work'[v].job].state = IF wpc'[v] = "start" THEN "queued" ELSE "running"
               /\ work'[v].payload = origin'[work'[v].job].payload
               /\ wpc'[v] = "publish" => workspaces'[work'[v].job] = work'[v].payload
               /\ \A i \in 1..Len(jobQueue') : jobQueue'[i].job # work'[v].job
    <3>1. CASE v = w
      BY <1>1, <2>2, <2>5, <2>7, <3>1 DEF QueueState
    <3>2. CASE v # w
      <4>1. \A i \in 1..Len(jobQueue') : jobQueue'[i].job # work'[v].job
        BY <1>1, <2>4, <2>6, <2>9, <3>2 DEF QueueState
      <4>2. QED
        BY <1>1, <2>2, <2>6, <2>9, <3>2, <4>1 DEF QueueState
    <3>3. QED
      BY <3>1, <3>2
  <2>10. ASSUME NEW u \in Workers, NEW v \in Workers, wpc'[u] # "waiting",
                wpc'[v] # "waiting", work'[u].job = work'[v].job
         PROVE  u = v
    BY <1>1, <2>5, <2>6, <2>10 DEF QueueState
  <2>11. QED
    BY <2>7, <2>8, <2>9, <2>10 DEF QueueState
<1>5. CASE ~(\E h \in Handlers : Enqueue(h)) /\ ~(\E w \in Workers : Take(w))
  <2>1. jobQueue' = jobQueue /\ accepted' = accepted
    BY <1>5, Writers
  <2>2. \A i \in 1..Len(jobQueue) :
          /\ jobs'[jobQueue[i].job] = jobs[jobQueue[i].job]
          /\ origin'[jobQueue[i].job] = origin[jobQueue[i].job]
    BY QueuedStays
  <2>3. ASSUME NEW w \in Workers, wpc'[w] # "waiting"
        PROVE  /\ wpc[w] # "waiting" /\ work'[w] = work[w]
               /\ jobs'[work[w].job].state = IF wpc'[w] = "start" THEN "queued" ELSE "running"
               /\ work[w].payload = origin'[work[w].job].payload
               /\ wpc'[w] = "publish" => workspaces'[work[w].job] = work[w].payload
    <3>1. CASE wpc'[w] = wpc[w]
      <4> DEFINE id == work[w].job
      <4>1. /\ jobs'[id] = jobs[id] /\ origin'[id] = origin[id] /\ work'[w] = work[w]
            /\ wpc[w] = "publish" => workspaces'[id] = workspaces[id]
        BY <2>3, <3>1, HeldStays
      <4>2. QED
        BY <1>1, <2>3, <3>1, <4>1 DEF QueueState
    <3>2. CASE wpc'[w] # wpc[w]
      <4>1. Start(w) \/ Fail(w) \/ StoreSummary(w) \/ Succeed(w)
        BY <1>1, <1>5, <3>2, WorkerFrame DEF WorkerStep
      <4>2. Start(w) \/ StoreSummary(w)
        BY <1>1, <2>3, <4>1 DEF Fail, Succeed, WGoto, NextItem, TypeOK
      <4>3. /\ wpc[w] # "waiting" /\ work' = work /\ origin' = origin
        BY <4>2 DEF Start, StoreSummary, WGoto, history
      <4>4. /\ work[w].job \in JobIDs /\ Stored(jobs, work[w].job)
            /\ jobs[work[w].job].state = "running" => workspaces[work[w].job] # NoWorkspace
            /\ work[w].payload = origin[work[w].job].payload
        BY <1>1, <4>3 DEF QueueState, StoredState, TypeOK
      <4>5. CASE Start(w)
        BY <1>1, <4>3, <4>4, <4>5 DEF Start, WGoto, Update, TypeOK
      <4>6. CASE StoreSummary(w)
        BY <1>1, <4>3, <4>4, <4>6 DEF StoreSummary, WGoto, Summarized, TypeOK, QueueState
      <4>7. QED
        BY <4>2, <4>5, <4>6
    <3>3. QED
      BY <3>1, <3>2
  <2>4. QED
    BY <1>1, <2>1, <2>2, <2>3 DEF QueueState
<1>6. QED
  BY <1>3, <1>4, <1>5

(***************************************************************************)
(* Nothing is left behind.                                                 *)
(***************************************************************************)
\* A job that is expired after a step was accepted before it.
LEMMA ExpiredBefore ==
  ASSUME Consistent, [Next]_vars, NEW id \in JobIDs, id \in accepted',
         jobs'[id].state = "expired"
  PROVE  id \in accepted
<1> SUFFICES ASSUME id \notin accepted PROVE FALSE
  OBVIOUS
<1>1. PICK h \in Handlers : Enqueue(h) /\ subject[h] = id
  BY HistoryStep
<1>2. jobs[id].state = "queued" /\ jobs' = jobs
  BY <1>1 DEF Enqueue, Goto, Consistent, JobOwnership, Building
<1>3. QED
  BY <1>2

\* A workspace of a job that is gone is about to be removed.
LEMMA WorkspaceLeaksStep ==
  ASSUME Consistent, [Next]_vars, NEW id \in JobIDs, workspaces'[id] # NoWorkspace,
         jobs'[id].state \in {"absent", "expired"}
  PROVE  \E h \in Handlers :
            subject'[h] = id /\ pc'[h] \in {"dropWorkspace", "rollbackWorkspace"}
<1>1. TypeOK /\ NothingLeaks /\ StoredState /\ Snapshots /\ JobOwnership
  BY DEF Consistent
<1>2. /\ id \in accepted' => Stored(jobs', id)
      /\ id \notin accepted' => jobs'[id].state \in {"absent", "queued"}
  BY StoredStateStep DEF StoredState
<1>3. CASE id \in accepted
  <2>1. jobs'[id].state = "expired"
    BY <1>2, <1>3, HistoryStep DEF Stored
  <2>2. CASE jobs[id].state # "expired"
    BY <1>3, <2>1, <2>2, Expiring
  <2>3. CASE jobs[id].state = "expired"
    <3>1. workspaces'[id] = workspaces[id]
      BY <1>3, <2>3, AcceptedWorkspace
    <3>2. PICK h \in Handlers :
            subject[h] = id /\ pc[h] \in {"dropWorkspace", "rollbackWorkspace"}
      BY <1>1, <2>3, <3>1 DEF NothingLeaks
    <3>3. pc[h] = "dropWorkspace"
      BY <1>1, <1>3, <3>2 DEF JobOwnership, Building
    <3>4. ~DropWorkspace(h)
      BY <1>1, <3>2 DEF DropWorkspace, TypeOK
    <3>5. QED
      BY <1>1, <3>2, <3>3, <3>4, Leaving, Stays
  <2>4. QED
    BY <2>2, <2>3
<1>4. CASE id \notin accepted
  <2>1. jobs'[id].state = "absent"
    BY <1>2, <1>4, ExpiredBefore
  <2>2. CASE jobs'[id] = jobs[id]
    <3>1. ASSUME NEW h \in Handlers, MakeWorkspace(h) PROVE subject[h] # id
      <4>1. jobs[subject[h]].state = "queued"
        BY <1>1, <3>1 DEF MakeWorkspace, Goto, JobOwnership, Building
      <4>2. QED
        BY <2>1, <2>2, <4>1
    <3>2. ASSUME NEW h \in Handlers, RollbackWorkspace(h) PROVE subject[h] # id
      BY <1>1, <3>2 DEF RollbackWorkspace, TypeOK
    <3>3. workspaces'[id] = workspaces[id]
      BY <1>4, <3>1, <3>2, UnacceptedJob
    <3>4. PICK h \in Handlers :
            subject[h] = id /\ pc[h] \in {"dropWorkspace", "rollbackWorkspace"}
      BY <1>1, <2>1, <2>2, <3>3 DEF NothingLeaks
    <3>5. pc[h] = "rollbackWorkspace"
      BY <1>1, <1>4, <3>4 DEF Snapshots, Dropping
    <3>6. QED
      BY <1>1, <3>2, <3>4, <3>5, Leaving, Stays
  <2>3. CASE \E h \in Handlers : RollbackStore(h) /\ subject[h] = id
    BY <1>1, <2>3 DEF RollbackStore, Goto, TypeOK
  <2>4. QED
    BY <1>4, <2>1, <2>2, <2>3, UnacceptedJob
<1>5. QED
  BY <1>3, <1>4

\* So is a record of a job that is gone.
LEMMA RecordLeaksStep ==
  ASSUME Consistent, [Next]_vars, NEW k \in Keys, idempotency'[k] # NoRecord,
         \/ idempotency'[k].job \notin accepted'
         \/ jobs'[idempotency'[k].job].state = "expired"
  PROVE  \E h \in Handlers : /\ subject'[h] = idempotency'[k].job
                             /\ pc'[h] \in {"dropWorkspace", "dropKeys"}
<1> DEFINE id == idempotency'[k].job
<1>1. TypeOK /\ NothingLeaks /\ MutexHeld /\ LateRecord /\ HandlerLocals
  BY DEF Consistent
<1>2. id \in accepted' /\ id \in JobIDs
  <2>1. id \in accepted'
    BY RecordsStep DEF Records
  <2>2. QED
    BY <1>1, <2>1, TypeStep DEF TypeOK, Consistent
<1>3. jobs'[id].state = "expired"
  BY <1>2
<1>4. id \in accepted
  BY <1>2, <1>3, ExpiredBefore
<1>5. CASE jobs[id].state # "expired"
  BY <1>3, <1>4, <1>5, Expiring
<1>6. CASE jobs[id].state = "expired" /\ idempotency'[k] = idempotency[k]
  <2>1. PICK h \in Handlers : subject[h] = id /\ pc[h] \in Dropping
    BY <1>1, <1>6 DEF NothingLeaks, Live, Dropping
  <2>2. ~DropKeys(h)
    BY <1>1, <1>6, <2>1 DEF DropKeys
  <2>3. QED
    BY <1>1, <2>1, <2>2, Droppers DEF Dropping
<1>7. CASE jobs[id].state = "expired" /\ idempotency'[k] # idempotency[k]
  <2>1. PICK h \in Handlers : RecordKey(h)
    BY <1>1, <1>7, Writers DEF DropKeys, LookupMiss, TypeOK
  <2>2. pc[h] = "record" /\ idempotencyMu = h
    BY <1>1, <2>1 DEF RecordKey, Goto, HandlerLocals, MutexHeld, Submitting
  <2>3. idempotency'[k] = [payload |-> request[h].payload, job |-> subject[h]]
    BY <1>1, <1>7, <2>1 DEF RecordKey, TypeOK
  <2>4. id = subject[h]
    BY <2>3
  <2>5. PICK g \in Handlers : pc[g] \in Dropping /\ subject[g] = id
    BY <1>1, <1>7, <2>2, <2>4 DEF LateRecord
  <2>6. ~DropKeys(g)
    BY <2>2, NoneAssumption DEF DropKeys, MutexFree
  <2>7. QED
    BY <1>1, <2>5, <2>6, Droppers DEF Dropping
<1>8. QED
  BY <1>5, <1>6, <1>7

\* Expiry and rejection undo everything they should.
LEMMA LeaksStep ==
  ASSUME Consistent, [Next]_vars
  PROVE  NothingLeaks'
BY WorkspaceLeaksStep, RecordLeaksStep DEF NothingLeaks, Live

(***************************************************************************)
(* The inductive invariant, and what follows from it.                      *)
(***************************************************************************)
LEMMA ConsistentInit == Init => Consistent
<1> SUFFICES ASSUME Init PROVE Consistent
  OBVIOUS
<1> USE DEF Init
<1>1. TypeOK /\ HandlerLocals /\ WorkerLocals
  BY TypeInit
<1>2. MutexHeld
  BY NoneAssumption DEF MutexHeld, Submitting
<1>3. JobOwnership
  BY DEF JobOwnership, Building
<1>4. StoredState /\ SucceededHasSummary
  BY DEF StoredState, SucceededHasSummary, NewStore, NoJob, Stored
<1>5. QueueState
  BY DEF QueueState
<1>6. Snapshots
  BY DEF Snapshots, Dropping
<1>7. Records
  BY DEF Records, Live, Building
<1>8. LateRecord
  BY DEF LateRecord
<1>9. NothingLeaks
  BY DEF NothingLeaks
<1>10. QED
  BY <1>1, <1>2, <1>3, <1>4, <1>5, <1>6, <1>7, <1>8, <1>9 DEF Consistent

LEMMA ConsistentStep == Consistent /\ [Next]_vars => Consistent'
<1> SUFFICES ASSUME Consistent, [Next]_vars PROVE Consistent'
  OBVIOUS
<1>1. TypeOK /\ HandlerLocals /\ WorkerLocals /\ MutexHeld
  BY DEF Consistent
<1>2. TypeOK' /\ HandlerLocals' /\ WorkerLocals'
  BY <1>1, TypeStep, LocalsStep, WorkerLocalsStep
<1>3. MutexHeld'
  BY <1>1, MutexStep
<1>4. JobOwnership' /\ StoredState' /\ Snapshots' /\ SucceededHasSummary'
  BY OwnershipStep, StoredStateStep, SnapshotsStep, SummaryStep
<1>5. QueueState' /\ Records' /\ LateRecord' /\ NothingLeaks'
  BY QueueStep, RecordsStep, LateRecordStep, LeaksStep
<1>6. QED
  BY <1>2, <1>3, <1>4, <1>5 DEF Consistent

\* The four separately locked structures of the service stay consistent with one
\* another and with what every handler and worker relies on.
THEOREM StaysConsistent == Spec => []Consistent
<1>1. QED
  BY ConsistentInit, ConsistentStep, PTL DEF Spec

\* A job that reads "succeeded" has its own summary in its workspace: processJob's
\* order of writes and expireEligibleJobs' order of removals suffice without a lock
\* over both structures.
THEOREM SummaryAvailable == Spec => []SucceededHasSummary
<1>1. Consistent => SucceededHasSummary
  BY DEF Consistent
<1>2. QED
  BY <1>1, StaysConsistent, PTL

\* Expired and rejected jobs leave neither a workspace nor an idempotency record
\* that no handler is about to remove.
THEOREM CleanedUp == Spec => []NothingLeaks
<1>1. Consistent => NothingLeaks
  BY DEF Consistent
<1>2. QED
  BY <1>1, StaysConsistent, PTL

\* Holding idempotencyMu from the lookup to the record leaves one unexpired job per
\* Idempotency-Key.
THEOREM Idempotent == Spec => []OneLiveJobPerKey
<1>1. ASSUME Consistent PROVE OneLiveJobPerKey
  <2> SUFFICES ASSUME NEW i \in JobIDs, NEW j \in JobIDs, Live(i), Live(j),
                      origin[i].key = origin[j].key, origin[i].key # None
               PROVE  i = j
    BY DEF OneLiveJobPerKey
  <2> DEFINE k == origin[i].key
  <2>1. k \in Keys
    BY <1>1 DEF Consistent, TypeOK, NoOrigin
  <2>2. ASSUME NEW h \in Handlers, pc[h] = "record"
        PROVE  /\ idempotencyMu = h
               /\ origin[subject[h]].key = request[h].key
               /\ idempotency[request[h].key] = NoRecord
    <3>1. idempotencyMu = h /\ idempotency[request[h].key] = NoRecord
      BY <1>1, <2>2 DEF Consistent, MutexHeld, HandlerLocals, Submitting, Records
    <3>2. origin[subject[h]] = [key |-> request[h].key, payload |-> request[h].payload]
      BY <1>1, <2>2, BuilderKnows
    <3>3. QED
      BY <3>1, <3>2
  <2>3. ASSUME NEW id \in {i, j}
        PROVE  \/ idempotency[k].job = id /\ idempotency[k] # NoRecord
               \/ \E h \in Handlers : pc[h] = "record" /\ subject[h] = id
    BY <1>1, <2>3, NoneAssumption DEF Consistent, Records, NoRecord
  <2>4. ASSUME NEW h \in Handlers, pc[h] = "record", subject[h] \in {i, j}
        PROVE  idempotency[k] = NoRecord
    BY <2>2, <2>4
  <2>5. QED
    BY <2>2, <2>3, <2>4
<1>2. QED
  BY <1>1, StaysConsistent, PTL

\* An accepted job's state only moves forward through its lifecycle: no worker and
\* no sweep with a stale snapshot takes a later state back.
THEOREM Forward == Spec => LifecycleOrder
<1>1. ASSUME Consistent, [Next]_vars, NEW id \in accepted,
             jobs'[id].state # jobs[id].state
      PROVE  jobs'[id].state \in Successors[jobs[id].state]
  BY <1>1, AcceptedJob DEF Successors, Terminal
<1>2. Consistent /\ [Next]_vars =>
        [\A id \in accepted : jobs'[id].state # jobs[id].state
           => jobs'[id].state \in Successors[jobs[id].state]]_vars
  BY <1>1
<1>3. QED
  BY <1>2, StaysConsistent, PTL DEF Spec, LifecycleOrder

\* No sweep expires a job before its retention has passed, however old the snapshot
\* and the clock reading it works from, and any number of sweeps of one job leave it
\* expired with its failure code.
THEOREM RetentionKept == Spec => NoEarlyExpiry
<1>1. ASSUME Consistent, [Next]_vars, NEW id \in JobIDs
      PROVE  /\ jobs[id].state # "expired" /\ jobs'[id].state = "expired"
                  => clock - jobs[id].updatedAt >= Retention
             /\ jobs[id].state \in Terminal \cup {"expired"} /\ jobs'[id] # jobs[id]
                  => jobs'[id].state = "expired" /\ jobs'[id].error = jobs[id].error
  <2>1. CASE id \in accepted
    BY <1>1, <2>1, AcceptedJob DEF Terminal
  <2>2. CASE id \notin accepted
    <3>1. jobs[id].state \in {"absent", "queued"}
      BY <1>1, <2>2 DEF Consistent, StoredState
    <3>2. QED
      BY <1>1, <2>2, <3>1, UnacceptedJob DEF Terminal
  <2>3. QED
    BY <2>1, <2>2
<1>2. Consistent /\ [Next]_vars =>
        [\A id \in JobIDs :
           /\ jobs[id].state # "expired" /\ jobs'[id].state = "expired"
                => clock - jobs[id].updatedAt >= Retention
           /\ jobs[id].state \in Terminal \cup {"expired"} /\ jobs'[id] # jobs[id]
                => jobs'[id].state = "expired" /\ jobs'[id].error = jobs[id].error]_vars
  BY <1>1
<1>3. QED
  BY <1>2, StaysConsistent, PTL DEF Spec, NoEarlyExpiry

\* Only the two steps that found nothing answer "missing".
LEMMA MissingAnswer ==
  ASSUME TypeOK, [Next]_vars, NEW h \in Handlers, Answers(h, "missing")
  PROVE  \/ GetJob(h) /\ jobs[subject[h]].state = "absent"
         \/ ReadWorkspace(h) /\ ~HasSummary(subject[h])
<1> USE DEF TypeOK, Answers, Answer
<1>1. Arrive(h) \/ HandlerStep(h) \/ Acquire(h)
  BY Frame, OthersFrame DEF Next, handlerVars
<1>2. ~Arrive(h) /\ ~Acquire(h) /\ ~Sweep(h) /\ ~ExpireJob(h) /\ ~DropWorkspace(h)
      /\ ~Route(h) /\ ~LookupMiss(h) /\ ~CreateJob(h) /\ ~MakeWorkspace(h)
      /\ ~QueueFull(h) /\ ~RollbackStore(h) /\ ~ListReports(h) /\ ~CollectReport(h)
  BY DEF Arrive, Acquire, Lock, DropKeys, Sweep, ExpireJob, DropWorkspace, Route,
     LookupMiss, CreateJob, MakeWorkspace, QueueFull, RollbackStore, ListReports,
     CollectReport
<1>3. ~Refuse(h) /\ ~LookupConflict(h) /\ ~LookupHit(h) /\ ~Enqueue(h) /\ ~RecordKey(h)
      /\ ~RollbackWorkspace(h) /\ ~WriteIndex(h) /\ ~Respond(h)
  BY DEF Refuse, LookupConflict, LookupHit, Enqueue, RecordKey, RollbackWorkspace,
     WriteIndex, Respond, NoReply
<1>4. CASE GetJob(h)
  BY <1>4 DEF GetJob
<1>5. CASE ReadWorkspace(h)
  BY <1>5 DEF ReadWorkspace
<1>6. QED
  BY <1>1, <1>2, <1>3, <1>4, <1>5 DEF HandlerStep

\* A status, summary, report or page of an accepted job is "not found" only once the
\* job has expired.
THEOREM FoundUntilExpired == Spec => MissingOnlyIfExpired
<1>1. ASSUME Consistent, [Next]_vars, NEW h \in Handlers, Answers(h, "missing"),
             subject[h] \in accepted
      PROVE  jobs[subject[h]].state = "expired"
  <2> DEFINE id == subject[h]
  <2>1. id \in JobIDs /\ Stored(jobs, id) /\ origin[id] # NoOrigin
        /\ origin \in [JobIDs -> [key : Keys \cup {None}, payload : Payloads] \cup {NoOrigin}]
    BY <1>1 DEF Consistent, TypeOK, StoredState
  <2>2. CASE GetJob(h) /\ jobs[id].state = "absent"
    BY <2>1, <2>2 DEF Stored
  <2>3. CASE ReadWorkspace(h) /\ ~HasSummary(id)
    <3>1. jobs[id].state \in {"succeeded", "expired"}
      BY <1>1, <2>3 DEF ReadWorkspace, Goto, Consistent, Snapshots
    <3>2. jobs[id].state = "succeeded" => workspaces[id] = origin[id].payload
      BY <1>1, <2>1 DEF Consistent, SucceededHasSummary
    <3>3. origin[id].payload \in Payloads
      BY <2>1
    <3>4. QED
      BY <2>3, <3>1, <3>2, <3>3, PayloadAssumption DEF HasSummary
  <2>4. QED
    BY <1>1, <2>2, <2>3, MissingAnswer DEF Consistent
<1>2. Consistent /\ [Next]_vars =>
        [\A h \in Handlers : Answers(h, "missing") /\ subject[h] \in accepted
           => jobs[subject[h]].state = "expired"]_vars
  BY <1>1
<1>3. QED
  BY <1>2, StaysConsistent, PTL DEF Spec, MissingOnlyIfExpired

(***************************************************************************)
(* The report index.                                                       *)
(***************************************************************************)
\* Only a handler that is collecting has something left to collect.
Collecting == \A h \in Handlers : pc[h] # "collect" => listed[h] = {}

\* Who touches a handler's list.
LEMMA IndexWriters ==
  ASSUME TypeOK, [Next]_vars, NEW h \in Handlers
  PROVE  \/ ListReports(h) \/ CollectReport(h)
         \/ listed'[h] = listed[h] /\ (pc'[h] = pc[h] \/ pc[h] # "collect" \/ listed[h] = {})
<1> DEFINE Moving == Arrive(h) \/ HandlerStep(h) \/ Acquire(h)
<1>1. CASE Moving
  <2> USE DEF TypeOK, Goto, indexVars
  <2>1. CASE Arrive(h) \/ Sweep(h) \/ ExpireJob(h) \/ DropWorkspace(h) \/ Refuse(h) \/ Route(h)
    BY <2>1 DEF Arrive, Sweep, ExpireJob, DropWorkspace, Refuse, Route
  <2>2. CASE LookupConflict(h) \/ LookupHit(h) \/ LookupMiss(h) \/ CreateJob(h) \/ MakeWorkspace(h)
             \/ Enqueue(h) \/ QueueFull(h)
    BY <2>2 DEF LookupConflict, LookupHit, LookupMiss, CreateJob, MakeWorkspace, Enqueue, QueueFull
  <2>3. CASE RecordKey(h) \/ RollbackStore(h) \/ RollbackWorkspace(h) \/ GetJob(h) \/ ReadWorkspace(h)
    BY <2>3 DEF RecordKey, RollbackStore, RollbackWorkspace, GetJob, ReadWorkspace
  <2>4. CASE WriteIndex(h) \/ Respond(h)
    BY <2>4 DEF WriteIndex, Respond
  <2>5. CASE Lock(h) \/ DropKeys(h)
    BY <2>5 DEF Lock, DropKeys
  <2>6. QED
    BY <1>1, <2>1, <2>2, <2>3, <2>4, <2>5 DEF HandlerStep, Acquire
<1>2. CASE ~Moving
  BY <1>2, Frame, OthersFrame DEF Next, handlerVars, indexVars
<1>3. QED
  BY <1>1, <1>2

LEMMA CollectingStep ==
  ASSUME TypeOK, Collecting, [Next]_vars
  PROVE  Collecting'
<1> SUFFICES ASSUME NEW h \in Handlers, pc'[h] # "collect"
             PROVE  listed'[h] = {}
  BY DEF Collecting
<1>1. pc \in [Handlers -> HandlerStates]
  BY DEF TypeOK
<1>2. ~ListReports(h) /\ ~CollectReport(h)
  BY <1>1 DEF ListReports, CollectReport, Goto
<1>3. QED
  BY <1>2, IndexWriters DEF Collecting

\* IndexOmitsOnlyExpired (report_handler.go, handleReportsIndex): the index is put
\* together from one snapshot of the store and a later look into each workspace; a
\* job that is left out has expired in between.
THEOREM IndexIsFair == Spec => IndexOmitsOnlyExpired
<1>1. Init => Collecting
  BY DEF Init, Collecting
<1>2. Consistent /\ Collecting /\ [Next]_vars => Collecting'
  BY CollectingStep DEF Consistent
<1>3. ASSUME Consistent, Collecting, [Next]_vars, NEW h \in Handlers,
             NEW id \in listed[h], id \notin listed'[h]
      PROVE  id \in accepted /\ (id \notin found'[h] => jobs[id].state = "expired")
  <2>1. id \in accepted /\ jobs[id].state \in {"succeeded", "expired"} /\ TypeOK
    BY <1>3 DEF Consistent, Snapshots
  <2>2. CollectReport(h)
    <3>1. ~ListReports(h)
      BY <1>3 DEF ListReports, Goto, Collecting
    <3>2. QED
      BY <1>3, <2>1, <3>1, IndexWriters
  <2>3. ASSUME jobs[id].state = "succeeded"
        PROVE  id \in found'[h]
    <3>1. id \in JobIDs /\ origin[id] # NoOrigin
          /\ origin \in [JobIDs -> [key : Keys \cup {None}, payload : Payloads] \cup {NoOrigin}]
      BY <1>3, <2>1 DEF TypeOK, Consistent, StoredState
    <3>2. workspaces[id] = origin[id].payload /\ origin[id].payload \in Payloads
      BY <1>3, <2>1, <2>3, <3>1 DEF Consistent, SucceededHasSummary
    <3>3. HasSummary(id)
      BY <3>2, PayloadAssumption DEF HasSummary
    <3>4. PICK i \in listed[h] : /\ listed' = [listed EXCEPT ![h] = @ \ {i}]
                                 /\ found' = [found EXCEPT ![h] = IF HasSummary(i) THEN @ \cup {i} ELSE @]
      BY <2>2 DEF CollectReport
    <3>5. i = id
      BY <1>3, <2>1, <3>4 DEF TypeOK
    <3>6. QED
      BY <2>1, <3>3, <3>4, <3>5 DEF TypeOK
  <2>4. QED
    BY <2>1, <2>3
<1>4. Consistent /\ Collecting /\ [Next]_vars =>
        [\A h \in Handlers : \A id \in listed[h] \ listed'[h] :
           /\ id \in accepted
           /\ id \notin found'[h] => jobs[id].state = "expired"]_vars
  BY <1>3
<1>5. QED
  BY <1>1, <1>2, <1>4, StaysConsistent, PTL DEF Spec, IndexOmitsOnlyExpired
=============================================================================
