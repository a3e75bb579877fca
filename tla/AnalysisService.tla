--------------------------- MODULE AnalysisService ---------------------------
(***************************************************************************)
(* The analysis service of internal/api: concurrent HTTP handlers and the  *)
(* analysis workers, over the job store, the workspace map, the bounded    *)
(* job queue and the idempotency table.                                    *)
(*                                                                         *)
(* A step is the code between two acquisitions of a mutex (or one channel  *)
(* operation): anything another goroutine can observe in between is a      *)
(* state of its own.  The four structures have four different locks, so a  *)
(* handler that touches several of them is never atomic.                   *)
(***************************************************************************)
EXTENDS JobStore, Sequences, FiniteSets

CONSTANTS
  Handlers,    \* goroutines net/http runs the handlers on
  Workers,     \* goroutines started by startWorkers
  Keys,        \* values of the Idempotency-Key header
  Payloads,    \* submitted (format, profile, input) triples
  Outcome,     \* what the pipeline makes of each payload
  Kinds,       \* the request kinds clients send
  QueueLimit,  \* capacity of the job queue
  Retention,   \* age at which a finished job expires
  MaxClock     \* bound of the model: the clock stops there

APIKinds   == {"submit", "status", "summary", "report"}
PageKinds  == {"page", "index"}       \* the ReportHandler's two pages
QueryKinds == {"status", "summary", "report", "page"}

Outcomes == {"ok", "rejected"} \cup FailureCodes

\* A workspace is its summary, and a summary is named by the payload it is of.
NoWorkspace    == "absent"
EmptyWorkspace == "no summary"

ASSUME NoneAssumption ==
  None \notin JobIDs \cup Keys \cup Payloads \cup Handlers \cup FailureCodes
ASSUME OutcomeAssumption == Outcome \in [Payloads -> Outcomes]
ASSUME PayloadAssumption == Payloads \cap {NoWorkspace, EmptyWorkspace} = {}
ASSUME LimitAssumption ==
  /\ QueueLimit \in Nat \ {0}   \* NewHandler replaces a limit <= 0
  /\ Retention \in Nat \ {0}    \* NewHandler replaces a retention <= 0
  /\ MaxClock \in Nat
ASSUME KindAssumption == Kinds \subseteq APIKinds \cup PageKinds

VARIABLES
  jobs,           \* jobStore
  workspaces,     \* workspaces: absent, without summary, or the summary
  jobQueue,       \* the buffered channel
  idempotency,    \* idempotency: key -> fingerprint and job
  idempotencyMu,  \* holder of idempotencyMu, or None
  ready,          \* Handler.ready
  clock,          \* the wall clock
  pc,             \* where each handler is
  request,        \* the request each handler serves
  sweepNow,       \* expireEligibleJobs' argument
  todo,           \* the rest of the sweep's snapshot
  subject,        \* the job a handler is working on
  listed,         \* the rest of the report index's snapshot
  found,          \* the reports collected for the index
  reply,          \* the response being written
  wpc,            \* where each worker is
  work,           \* the item each worker took from the queue
  origin,         \* history: the submission each identifier was made for
  accepted        \* history: the jobs that were enqueued

storeVars   == <<jobs, workspaces, jobQueue, idempotency>>
sweepVars   == <<sweepNow, todo>>
indexVars   == <<listed, found>>
handlerVars == <<pc, request, sweepVars, subject, indexVars, reply>>
workerVars  == <<wpc, work>>
history     == <<origin, accepted>>
vars == <<storeVars, idempotencyMu, ready, clock, handlerVars, workerVars, history>>

NoRecord  == [payload |-> None, job |-> None]
NoRequest == [kind |-> "none", key |-> None, payload |-> None, target |-> None]
NoOrigin  == [key |-> None, payload |-> None]
NoWork    == [job |-> None, payload |-> None]
NoReply   == [status |-> "none", job |-> None, detail |-> None]

Submission == [kind : {"submit"}, key : Keys \cup {None},
               payload : Payloads, target : {None}]
Query == [kind : QueryKinds, key : {None}, payload : {None}, target : JobIDs]
Index == [kind : {"index"}, key : {None}, payload : {None}, target : {None}]
Request == Submission \cup Query \cup Index

\* What passes validation, and so may reach the queue.
Admissible == {p \in Payloads : Outcome[p] # "rejected"}
Item == [job : JobIDs, payload : Admissible]

HandlerStates ==
  {"idle", "sweep", "expire", "dropWorkspace", "dropKeys", "dispatch",
   "lock", "lookup", "create", "makeWorkspace", "enqueue", "record",
   "rollbackStore", "rollbackWorkspace", "get", "readWorkspace", "list",
   "collect", "reply"}
WorkerStates == {"waiting", "start", "analyze", "publish"}

Statuses == {"none", "invalid", "unready", "accepted", "conflict", "saturated",
             "missing", "expired", "status", "notReady", "failed", "summary",
             "index"}
Reply == [status : Statuses, job : JobIDs \cup {None},
          detail : Payloads \cup FailureCodes \cup Lifecycle \cup {None}]

TypeOK ==
  /\ jobs \in [JobIDs -> Job \cup {NoJob}]
  /\ workspaces \in [JobIDs -> Payloads \cup {NoWorkspace, EmptyWorkspace}]
  /\ jobQueue \in Seq(Item)
  /\ idempotency \in [Keys -> [payload : Payloads, job : JobIDs] \cup {NoRecord}]
  /\ idempotencyMu \in Handlers \cup {None}
  /\ ready \in BOOLEAN
  /\ clock \in Nat
  /\ pc \in [Handlers -> HandlerStates]
  /\ request \in [Handlers -> Request \cup {NoRequest}]
  /\ sweepNow \in [Handlers -> Nat]
  /\ todo \in [Handlers -> SUBSET [id : JobIDs, error : FailureCodes \cup {None}]]
  /\ subject \in [Handlers -> JobIDs \cup {None}]
  /\ listed \in [Handlers -> SUBSET JobIDs]
  /\ found \in [Handlers -> SUBSET JobIDs]
  /\ reply \in [Handlers -> Reply]
  /\ wpc \in [Workers -> WorkerStates]
  /\ work \in [Workers -> Item \cup {NoWork}]
  /\ origin \in [JobIDs -> [key : Keys \cup {None}, payload : Payloads] \cup {NoOrigin}]
  /\ accepted \in SUBSET JobIDs

Init ==
  /\ jobs = NewStore
  /\ workspaces = [id \in JobIDs |-> NoWorkspace]
  /\ jobQueue = <<>>
  /\ idempotency = [k \in Keys |-> NoRecord]
  /\ idempotencyMu = None
  /\ ready = FALSE
  /\ clock = 1                       \* a zero time means "unset" in the code
  /\ pc = [h \in Handlers |-> "idle"]
  /\ request = [h \in Handlers |-> NoRequest]
  /\ sweepNow = [h \in Handlers |-> 0]
  /\ todo = [h \in Handlers |-> {}]
  /\ subject = [h \in Handlers |-> None]
  /\ listed = [h \in Handlers |-> {}]
  /\ found = [h \in Handlers |-> {}]
  /\ reply = [h \in Handlers |-> NoReply]
  /\ wpc = [w \in Workers |-> "waiting"]
  /\ work = [w \in Workers |-> NoWork]
  /\ origin = [id \in JobIDs |-> NoOrigin]
  /\ accepted = {}

-----------------------------------------------------------------------------
(***************************************************************************)
(* Control-flow helpers.                                                   *)
(***************************************************************************)
\* Mutated form of MutexFree: the idempotency table used without its mutex.
NoWaiting == TRUE

MutexFree == idempotencyMu = None

Goto(h, from, to) ==
  /\ pc[h] = from
  /\ pc' = [pc EXCEPT ![h] = to]

Answer(h, status, job, detail) ==
  reply' = [reply EXCEPT ![h] = [status |-> status, job |-> job, detail |-> detail]]

\* createAndRunJob goes through the idempotency table only for a keyed request,
\* and then holds its mutex until it returns.
Keyed(h) == request[h].key # None

\* Mutated form of Unlock: an early return that does not release the mutex.
KeepLocked(h) == idempotencyMu' = idempotencyMu

Unlock(h) == idempotencyMu' = IF idempotencyMu = h THEN None ELSE idempotencyMu

(***************************************************************************)
(* A request arrives.  Every handler first reads the clock and calls       *)
(* expireEligibleJobs.  An identifier is used once, so a submission only   *)
(* arrives while the model has an unused identifier for it.                *)
(***************************************************************************)
Unused == {id \in JobIDs : origin[id] = NoOrigin}
Creating == {h \in Handlers :
               /\ request[h].kind = "submit"
               /\ pc[h] \in {"sweep", "expire", "dropWorkspace", "dropKeys",
                             "dispatch", "lock", "lookup", "create"}}

Arrive(h) ==
  /\ Goto(h, "idle", "sweep")
  /\ \E r \in Request :
       /\ r.kind \in Kinds
       /\ r.kind = "submit" => Cardinality(Creating) < Cardinality(Unused)
       /\ request' = [request EXCEPT ![h] = r]
  /\ sweepNow' = [sweepNow EXCEPT ![h] = clock]
  /\ UNCHANGED <<storeVars, idempotencyMu, ready, clock, todo, subject,
                 indexVars, reply, workerVars, history>>

(***************************************************************************)
(* expireEligibleJobs: a snapshot of the store, then for each expirable    *)
(* job in it the state, the workspace and the idempotency records, under   *)
(* three locks taken one after the other.  List's order is a map's, so     *)
(* any job of the snapshot may be next.                                    *)
(***************************************************************************)
\* Mutated form of Expirable: a running job expired too.
ExpirableRunning(id, now) ==
  /\ jobs[id].state \in Terminal \cup {"running"}
  /\ now - jobs[id].updatedAt >= Retention

Expirable(id, now) ==
  /\ jobs[id].state \in Terminal
  /\ now - jobs[id].updatedAt >= Retention

Sweep(h) ==
  LET eligible == {id \in List(jobs) : Expirable(id, sweepNow[h])}
  IN  /\ Goto(h, "sweep", IF eligible = {} THEN "dispatch" ELSE "expire")
      /\ todo' = [todo EXCEPT ![h] = {[id |-> id, error |-> jobs[id].error] : id \in eligible}]
      /\ UNCHANGED <<storeVars, idempotencyMu, ready, clock, request, sweepNow,
                     subject, indexVars, reply, workerVars, history>>

ExpireJob(h) ==
  /\ Goto(h, "expire", "dropWorkspace")
  /\ \E existing \in todo[h] :
       /\ jobs' = Update(jobs, existing.id, "expired", sweepNow[h], existing.error)
       /\ subject' = [subject EXCEPT ![h] = existing.id]
       /\ todo' = [todo EXCEPT ![h] = @ \ {existing}]
  /\ UNCHANGED <<workspaces, jobQueue, idempotency, idempotencyMu, ready, clock,
                 request, sweepNow, indexVars, reply, workerVars, history>>

DropWorkspace(h) ==
  /\ Goto(h, "dropWorkspace", "dropKeys")
  /\ workspaces' = [workspaces EXCEPT ![subject[h]] = NoWorkspace]
  /\ UNCHANGED <<jobs, jobQueue, idempotency, idempotencyMu, ready, clock,
                 request, sweepVars, subject, indexVars, reply, workerVars, history>>

\* deleteIdempotencyForJob waits for the mutex; its loop runs under it.
DropKeys(h) ==
  /\ Goto(h, "dropKeys", IF todo[h] = {} THEN "dispatch" ELSE "expire")
  /\ MutexFree
  /\ idempotency' = [k \in Keys |-> IF idempotency[k].job = subject[h]
                                      THEN NoRecord ELSE idempotency[k]]
  /\ subject' = [subject EXCEPT ![h] = None]
  /\ UNCHANGED <<jobs, workspaces, jobQueue, idempotencyMu, ready, clock,
                 request, sweepVars, indexVars, reply, workerVars, history>>

-----------------------------------------------------------------------------
(***************************************************************************)
(* After the sweep: the readiness check of the API handlers (the pages     *)
(* have none), the request's validation, and the routing.                  *)
(***************************************************************************)
Unready(h) == request[h].kind \in APIKinds /\ ~ready

Invalid(h) == request[h].kind = "submit" /\ Outcome[request[h].payload] = "rejected"

FirstStep(h) ==
  CASE request[h].kind = "submit" -> IF Keyed(h) THEN "lock" ELSE "create"
    [] request[h].kind = "index"  -> "list"
    [] OTHER                      -> "get"

Refuse(h) ==
  /\ Goto(h, "dispatch", "reply")
  /\ \/ Unready(h) /\ Answer(h, "unready", None, None)
     \/ ~Unready(h) /\ Invalid(h) /\ Answer(h, "invalid", None, None)
  /\ sweepNow' = [sweepNow EXCEPT ![h] = 0]
  /\ UNCHANGED <<storeVars, idempotencyMu, ready, clock, request, todo, subject,
                 indexVars, workerVars, history>>

Route(h) ==
  /\ ~Unready(h)
  /\ ~Invalid(h)
  /\ Goto(h, "dispatch", FirstStep(h))
  /\ sweepNow' = [sweepNow EXCEPT ![h] = 0]
  /\ subject' = [subject EXCEPT ![h] = request[h].target]
  /\ UNCHANGED <<storeVars, idempotencyMu, ready, clock, request, todo,
                 indexVars, reply, workerVars, history>>

-----------------------------------------------------------------------------
(***************************************************************************)
(* Submission.  A keyed one holds idempotencyMu from the lookup until its  *)
(* record is written or its job rolled back.                               *)
(***************************************************************************)
Lock(h) ==
  /\ Goto(h, "lock", "lookup")
  /\ MutexFree
  /\ idempotencyMu' = h
  /\ UNCHANGED <<storeVars, ready, clock, request, sweepVars, subject,
                 indexVars, reply, workerVars, history>>

\* lookupDuplicateJobLocked's hit: a record with this fingerprint whose job is
\* still stored and not expired.
\* Mutated forms: the fingerprint not compared; a finished job taken for gone.
AnySubmission(h) == TRUE
InProgress(id) == jobs[id].state \in {"queued", "running"}

Recorded(h) == idempotency[request[h].key] # NoRecord
SameSubmission(h) == idempotency[request[h].key].payload = request[h].payload
Reusable(id) == jobs[id].state \notin {"absent", "expired"}

LookupConflict(h) ==
  /\ Goto(h, "lookup", "reply")
  /\ Recorded(h) /\ ~SameSubmission(h)
  /\ Answer(h, "conflict", None, None)
  /\ Unlock(h)
  /\ UNCHANGED <<storeVars, ready, clock, request, sweepVars, subject,
                 indexVars, workerVars, history>>

LookupHit(h) ==
  /\ Goto(h, "lookup", "reply")
  /\ Recorded(h) /\ SameSubmission(h)
  /\ Reusable(idempotency[request[h].key].job)
  /\ Answer(h, "accepted", idempotency[request[h].key].job, None)
  /\ Unlock(h)
  /\ UNCHANGED <<storeVars, ready, clock, request, sweepVars, subject,
                 indexVars, workerVars, history>>

\* A record of an expired job is dropped on the way; the mutex stays held.
LookupMiss(h) ==
  /\ Goto(h, "lookup", "create")
  /\ Recorded(h) => SameSubmission(h) /\ ~Reusable(idempotency[request[h].key].job)
  /\ idempotency' = [idempotency EXCEPT ![request[h].key] = NoRecord]
  /\ UNCHANGED <<jobs, workspaces, jobQueue, idempotencyMu, ready, clock, request,
                 sweepVars, subject, indexVars, reply, workerVars, history>>

\* createQueuedJob, one step per lock it takes.
CreateJob(h) ==
  /\ Goto(h, "create", "makeWorkspace")
  /\ \E id \in Unused :
       /\ jobs' = Create(jobs, id, clock)
       /\ subject' = [subject EXCEPT ![h] = id]
       /\ origin' = [origin EXCEPT ![id] = [key |-> request[h].key,
                                            payload |-> request[h].payload]]
  /\ UNCHANGED <<workspaces, jobQueue, idempotency, idempotencyMu, ready, clock,
                 request, sweepVars, indexVars, reply, workerVars, accepted>>

MakeWorkspace(h) ==
  /\ Goto(h, "makeWorkspace", "enqueue")
  /\ workspaces' = [workspaces EXCEPT ![subject[h]] = EmptyWorkspace]
  /\ UNCHANGED <<jobs, jobQueue, idempotency, idempotencyMu, ready, clock, request,
                 sweepVars, subject, indexVars, reply, workerVars, history>>

\* enqueueJob's non-blocking send.  From here the worker may run the job while
\* the handler has not answered yet.
Enqueue(h) ==
  /\ Len(jobQueue) < QueueLimit
  /\ Goto(h, "enqueue", IF Keyed(h) THEN "record" ELSE "reply")
  /\ jobQueue' = Append(jobQueue, [job |-> subject[h], payload |-> request[h].payload])
  /\ accepted' = accepted \cup {subject[h]}
  /\ IF Keyed(h) THEN UNCHANGED reply ELSE Answer(h, "accepted", subject[h], None)
  /\ UNCHANGED <<jobs, workspaces, idempotency, idempotencyMu, ready, clock, request,
                 sweepVars, subject, indexVars, workerVars, origin>>

QueueFull(h) ==
  /\ Len(jobQueue) >= QueueLimit
  /\ Goto(h, "enqueue", "rollbackStore")
  /\ UNCHANGED <<storeVars, idempotencyMu, ready, clock, request, sweepVars,
                 subject, indexVars, reply, workerVars, history>>

RecordKey(h) ==
  /\ Goto(h, "record", "reply")
  /\ idempotency' = [idempotency EXCEPT ![request[h].key] =
                       [payload |-> request[h].payload, job |-> subject[h]]]
  /\ Answer(h, "accepted", subject[h], None)
  /\ Unlock(h)
  /\ UNCHANGED <<jobs, workspaces, jobQueue, ready, clock, request, sweepVars,
                 subject, indexVars, workerVars, history>>

\* cleanupRejectedJob; the mutex, when held, is released on return.
RollbackStore(h) ==
  /\ Goto(h, "rollbackStore", "rollbackWorkspace")
  /\ jobs' = Delete(jobs, subject[h])
  /\ UNCHANGED <<workspaces, jobQueue, idempotency, idempotencyMu, ready, clock,
                 request, sweepVars, subject, indexVars, reply, workerVars, history>>

RollbackWorkspace(h) ==
  /\ Goto(h, "rollbackWorkspace", "reply")
  /\ workspaces' = [workspaces EXCEPT ![subject[h]] = NoWorkspace]
  /\ Answer(h, "saturated", None, None)
  /\ Unlock(h)
  /\ UNCHANGED <<jobs, jobQueue, idempotency, ready, clock, request, sweepVars,
                 subject, indexVars, workerVars, history>>

-----------------------------------------------------------------------------
(***************************************************************************)
(* Reading one job: status, JSON summary, API report and HTML report page. *)
(* They share the order "get the job, decide on its state, then read the   *)
(* workspace under another lock"; only a succeeded job gets to the last.   *)
(***************************************************************************)
\* Mutated form of NeedsWorkspace: a job still running read like a finished one.
NeedsWorkspaceWhenStarted(kind, state) ==
  kind # "status" /\ state \in {"running", "succeeded"}

NeedsWorkspace(kind, state) == kind # "status" /\ state = "succeeded"

GetJob(h) ==
  LET job  == jobs[subject[h]]
      kind == request[h].kind
      past == NeedsWorkspace(kind, job.state)
  IN  /\ Goto(h, "get", IF past THEN "readWorkspace" ELSE "reply")
      /\ \/ past /\ UNCHANGED reply
         \/ job.state = "absent"  /\ Answer(h, "missing", subject[h], None)
         \/ job.state = "expired" /\ Answer(h, "expired", subject[h], None)
         \/ /\ job.state \notin {"absent", "expired"}
            /\ kind = "status"
            /\ Answer(h, "status", subject[h], job.state)
         \/ /\ job.state \in {"queued", "running"}
            /\ kind # "status"
            /\ Answer(h, "notReady", subject[h], None)
         \/ /\ job.state = "failed"
            /\ kind # "status"
            /\ Answer(h, "failed", subject[h], job.error)
      /\ UNCHANGED <<storeVars, idempotencyMu, ready, clock, request, sweepVars,
                     subject, indexVars, workerVars, history>>

HasSummary(id) == workspaces[id] \notin {NoWorkspace, EmptyWorkspace}

ReadWorkspace(h) ==
  /\ Goto(h, "readWorkspace", "reply")
  /\ IF HasSummary(subject[h])
       THEN Answer(h, "summary", subject[h], workspaces[subject[h]])
       ELSE Answer(h, "missing", subject[h], None)
  /\ UNCHANGED <<storeVars, idempotencyMu, ready, clock, request, sweepVars,
                 subject, indexVars, workerVars, history>>

(***************************************************************************)
(* The report index: a snapshot of the store, then one workspace read per  *)
(* succeeded job.  The page is sorted, so the order of the reads is free.  *)
(***************************************************************************)
\* Mutated form of Reportable: jobs listed before they have finished.
ReportableWhenStarted(id) == jobs[id].state \in {"running", "succeeded"}

Reportable(id) == jobs[id].state = "succeeded"

ListReports(h) ==
  /\ Goto(h, "list", "collect")
  /\ listed' = [listed EXCEPT ![h] = {id \in List(jobs) : Reportable(id)}]
  /\ UNCHANGED <<storeVars, idempotencyMu, ready, clock, request, sweepVars,
                 subject, found, reply, workerVars, history>>

CollectReport(h) ==
  /\ pc[h] = "collect"
  /\ \E id \in listed[h] :
       /\ listed' = [listed EXCEPT ![h] = @ \ {id}]
       /\ found' = [found EXCEPT ![h] = IF HasSummary(id) THEN @ \cup {id} ELSE @]
  /\ UNCHANGED <<storeVars, idempotencyMu, ready, clock, pc, request, sweepVars,
                 subject, reply, workerVars, history>>

WriteIndex(h) ==
  /\ Goto(h, "collect", "reply")
  /\ listed[h] = {}
  /\ Answer(h, "index", None, None)
  /\ UNCHANGED <<storeVars, idempotencyMu, ready, clock, request, sweepVars,
                 subject, indexVars, workerVars, history>>

\* The response reaches the client and the handler's locals are gone.
Respond(h) ==
  /\ Goto(h, "reply", "idle")
  /\ request' = [request EXCEPT ![h] = NoRequest]
  /\ subject' = [subject EXCEPT ![h] = None]
  /\ found' = [found EXCEPT ![h] = {}]
  /\ reply' = [reply EXCEPT ![h] = NoReply]
  /\ UNCHANGED <<storeVars, idempotencyMu, ready, clock, sweepVars, listed,
                 workerVars, history>>

-----------------------------------------------------------------------------
(***************************************************************************)
(* The workers: processJob for each item of the queue.                     *)
(***************************************************************************)
WGoto(w, from, to) ==
  /\ wpc[w] = from
  /\ wpc' = [wpc EXCEPT ![w] = to]

\* Mutated form of Received: the item stays in the queue.
Peeked == jobQueue

Received == Tail(jobQueue)

Take(w) ==
  /\ WGoto(w, "waiting", "start")
  /\ jobQueue # <<>>
  /\ work' = [work EXCEPT ![w] = Head(jobQueue)]
  /\ jobQueue' = Received
  /\ UNCHANGED <<jobs, workspaces, idempotency, idempotencyMu, ready, clock,
                 handlerVars, history>>

Start(w) ==
  /\ WGoto(w, "start", "analyze")
  /\ jobs' = Update(jobs, work[w].job, "running", clock, None)
  /\ UNCHANGED <<workspaces, jobQueue, idempotency, idempotencyMu, ready, clock,
                 handlerVars, work, history>>

\* Mutated forms: the error checks of processJob dropped; the worker's loop left
\* after a failed job.
AlwaysFails(payload) == TRUE
Stopped == "stopped"

Fails(payload) == Outcome[payload] # "ok"
NextItem == "waiting"

\* failJob, for whichever stage of the pipeline fails on this payload.
Fail(w) ==
  /\ WGoto(w, "analyze", NextItem)
  /\ Fails(work[w].payload)
  /\ jobs' = Update(jobs, work[w].job, "failed", clock, Outcome[work[w].payload])
  /\ work' = [work EXCEPT ![w] = NoWork]
  /\ UNCHANGED <<workspaces, jobQueue, idempotency, idempotencyMu, ready, clock,
                 handlerVars, history>>

\* Mutated form of Summarized: the summary computed but not stored.
NotSummarized(workspace, payload) == workspace

Summarized(workspace, payload) ==
  IF workspace = NoWorkspace THEN NoWorkspace ELSE payload

\* The summary goes into the workspace if the workspace is still there.
StoreSummary(w) ==
  /\ WGoto(w, "analyze", "publish")
  /\ ~Fails(work[w].payload)
  /\ workspaces' = [workspaces EXCEPT ![work[w].job] =
                                           Summarized(@, work[w].payload)]
  /\ UNCHANGED <<jobs, jobQueue, idempotency, idempotencyMu, ready, clock,
                 handlerVars, work, history>>

Succeed(w) ==
  /\ WGoto(w, "publish", "waiting")
  /\ jobs' = Update(jobs, work[w].job, "succeeded", clock, None)
  /\ work' = [work EXCEPT ![w] = NoWork]
  /\ UNCHANGED <<workspaces, jobQueue, idempotency, idempotencyMu, ready, clock,
                 handlerVars, history>>

-----------------------------------------------------------------------------
\* markReadyOnceLive, the only caller of SetReady.
BecomeReady ==
  /\ ~ready
  /\ ready' = TRUE
  /\ UNCHANGED <<storeVars, idempotencyMu, clock, handlerVars, workerVars, history>>

Tick ==
  /\ clock < MaxClock
  /\ clock' = clock + 1
  /\ UNCHANGED <<storeVars, idempotencyMu, ready, handlerVars, workerVars, history>>

\* Everything a handler does on its own once a request has arrived, except
\* acquiring the mutex.
HandlerStep(h) ==
  \/ Sweep(h) \/ ExpireJob(h) \/ DropWorkspace(h)
  \/ Refuse(h) \/ Route(h)
  \/ LookupConflict(h) \/ LookupHit(h) \/ LookupMiss(h)
  \/ CreateJob(h) \/ MakeWorkspace(h) \/ Enqueue(h) \/ QueueFull(h)
  \/ RecordKey(h) \/ RollbackStore(h) \/ RollbackWorkspace(h)
  \/ GetJob(h) \/ ReadWorkspace(h)
  \/ ListReports(h) \/ CollectReport(h) \/ WriteIndex(h)
  \/ Respond(h)

Acquire(h) == Lock(h) \/ DropKeys(h)

WorkerStep(w) == Take(w) \/ Start(w) \/ Fail(w) \/ StoreSummary(w) \/ Succeed(w)

Next ==
  \/ \E h \in Handlers : Arrive(h) \/ HandlerStep(h) \/ Acquire(h)
  \/ \E w \in Workers : WorkerStep(w)
  \/ BecomeReady
  \/ Tick

Spec == Init /\ [][Next]_vars

(***************************************************************************)
(* The Go scheduler runs every runnable goroutine eventually, and          *)
(* sync.Mutex hands over to its oldest waiter once that has waited 1 ms    *)
(* (starvation mode), hence strong fairness for the acquisitions.  Nothing *)
(* obliges clients to send requests, the clock to move, or the readiness   *)
(* probe to succeed.                                                       *)
(***************************************************************************)
Fairness ==
  /\ \A h \in Handlers : WF_vars(HandlerStep(h)) /\ SF_vars(Acquire(h))
  /\ \A w \in Workers : WF_vars(WorkerStep(w))

FairSpec == Spec /\ Fairness

-----------------------------------------------------------------------------
(***************************************************************************)
(* Safety.                                                                 *)
(***************************************************************************)
Live(id) == id \in accepted /\ jobs[id].state # "expired"

InQueue(id) == {i \in 1..Len(jobQueue) : jobQueue[i].job = id}
WorkersOn(id, states) == {w \in Workers : work[w].job = id /\ wpc[w] \in states}
InFlight == {id \in accepted : jobs[id].state \in {"queued", "running"}}

\* Submissions that carry the same Idempotency-Key, however they interleave with
\* each other, with sweeps and with the worker, never leave two unexpired jobs
\* (createOrReuseIdempotentJob).
OneLiveJobPerKey ==
  \A i, j \in JobIDs :
    /\ Live(i) /\ Live(j)
    /\ origin[i].key = origin[j].key /\ origin[i].key # None
    => i = j

\* A job that reads "succeeded" has the summary of its own input in its workspace:
\* processJob stores the summary first, and a sweep removes it only after the
\* state is "expired".
SucceededHasSummary ==
  \A id \in JobIDs :
    jobs[id].state = "succeeded" => workspaces[id] = origin[id].payload

\* An enqueued job is in exactly the place its state says: "queued" is one queue
\* slot or the worker about to start it, "running" is one worker; a finished job
\* is nowhere; and rejecting other submissions never removes it from the store.
NoJobLostOrDuplicated ==
  \A id \in accepted :
    LET waiting == Cardinality(InQueue(id)) + Cardinality(WorkersOn(id, {"start"}))
        running == Cardinality(WorkersOn(id, {"analyze", "publish"}))
    IN  /\ Stored(jobs, id)
        /\ waiting = (IF jobs[id].state = "queued" THEN 1 ELSE 0)
        /\ running = (IF jobs[id].state = "running" THEN 1 ELSE 0)

\* Expiry and the rejection of a submission undo everything they should: a
\* workspace or an idempotency record of a job that is gone is about to be removed
\* by the very handler that expired or rejected the job (expireEligibleJobs,
\* cleanupRejectedJob), also when that handler has to wait for idempotencyMu while
\* the record is still being written.
NothingLeaks ==
  /\ \A id \in JobIDs :
       workspaces[id] # NoWorkspace /\ jobs[id].state \in {"absent", "expired"}
         => \E h \in Handlers :
              subject[h] = id /\ pc[h] \in {"dropWorkspace", "rollbackWorkspace"}
  /\ \A k \in Keys :
       idempotency[k] # NoRecord /\ ~Live(idempotency[k].job)
         => \E h \in Handlers :
              /\ subject[h] = idempotency[k].job
              /\ pc[h] \in {"dropWorkspace", "dropKeys"}

\* A response tells the client the truth about its own request: a 202 names an
\* enqueued job made for the same key and payload, a 409 conflict is only given
\* when the key was accepted before for another payload, a summary is the one of
\* the job asked for, a failure code is the one the pipeline produced, and a 410
\* is never taken back.
ReplySound ==
  \A h \in Handlers :
    LET r == reply[h] IN
    /\ r.status = "accepted" =>
         /\ r.job \in accepted
         /\ origin[r.job] = [key |-> request[h].key, payload |-> request[h].payload]
    /\ r.status = "conflict" =>
         \E id \in accepted : /\ origin[id].key = request[h].key
                              /\ origin[id].payload # request[h].payload
    /\ r.status = "summary" =>
         r.job \in accepted /\ r.detail = origin[r.job].payload
    /\ r.status = "failed" => r.detail = Outcome[origin[r.job].payload]
    /\ r.status = "expired" => jobs[r.job].state = "expired"

(***************************************************************************)
(* Action properties.                                                      *)
(***************************************************************************)
Successors ==
  [queued |-> {"running"}, running |-> {"succeeded", "failed"},
   succeeded |-> {"expired"}, failed |-> {"expired"}, expired |-> {}]

\* An enqueued job only moves forward through its lifecycle, whichever of the
\* worker and the concurrent sweeps writes it, and a stale Update never takes a
\* later state back.
LifecycleOrder ==
  [][\A id \in accepted :
       jobs'[id].state # jobs[id].state
         => jobs'[id].state \in Successors[jobs[id].state]]_vars

\* However many sweeps come upon one job, each with a snapshot and a clock reading
\* of its own, none expires it before its retention has passed, and none takes back
\* what a sweep or a worker wrote since: a finished job can only expire, an expired
\* one stays expired, and the failure code stays with it.
NoEarlyExpiry ==
  [][\A id \in JobIDs :
       /\ jobs[id].state # "expired" /\ jobs'[id].state = "expired"
            => clock - jobs[id].updatedAt >= Retention
       /\ jobs[id].state \in Terminal \cup {"expired"} /\ jobs'[id] # jobs[id]
            => jobs'[id].state = "expired" /\ jobs'[id].error = jobs[id].error]_vars

Answers(h, status) == reply[h].status # status /\ reply'[h].status = status

\* A 404 for an accepted job is only ever given once the job is expired: the
\* status and the reports of a job that is anything else are found, whatever
\* sweeps run between the read of its state and the read of its workspace.
MissingOnlyIfExpired ==
  [][\A h \in Handlers :
       Answers(h, "missing") /\ subject[h] \in accepted
         => jobs[subject[h]].state = "expired"]_vars

\* The report index leaves out a job of its snapshot only when the job expired in
\* the meantime, and never lists one that was not accepted.
IndexOmitsOnlyExpired ==
  [][\A h \in Handlers : \A id \in listed[h] \ listed'[h] :
       /\ id \in accepted
       /\ id \notin found'[h] => jobs[id].state = "expired"]_vars

(***************************************************************************)
(* Liveness, under FairSpec.                                               *)
(***************************************************************************)
\* Every accepted job ends: with at least one worker an enqueued job is taken and
\* finished whatever else is submitted or read.
AcceptedJobsFinish ==
  \A id \in JobIDs :
    id \in accepted ~> jobs[id].state \in {"succeeded", "failed", "expired"}

\* Every request is answered: sweeps, the idempotency mutex and a full queue never
\* block a handler for good.
RequestsAnswered == \A h \in Handlers : pc[h] # "idle" ~> pc[h] = "idle"

(***************************************************************************)
(* What documentation and tests say, checked against the code.             *)
(***************************************************************************)
\* README: PARSERGO_QUEUE_LIMIT is the "Maximum concurrent analysis jobs".
QueueLimitBoundsJobs == Cardinality(InFlight) <= QueueLimit
=============================================================================
