------------------------- MODULE AnalysisServiceInv -------------------------
(***************************************************************************)
(* The inductive invariant of AnalysisService: what each handler and each  *)
(* worker relies on where it is, which is what keeps the four separately   *)
(* locked structures consistent with one another.                          *)
(***************************************************************************)
EXTENDS AnalysisService

Submitting == {"lock", "lookup", "create", "makeWorkspace", "enqueue", "record",
               "rollbackStore", "rollbackWorkspace"}
Dropping   == {"dropWorkspace", "dropKeys"}
Building   == {"makeWorkspace", "enqueue", "rollbackStore", "rollbackWorkspace"}
Reading    == {"get", "readWorkspace"}

\* The handler h is the one that created the job and has not enqueued it.
Builds(h, id) == pc[h] \in Building /\ subject[h] = id

\* A handler's locals are there when its code uses them.
HandlerLocals ==
  \A h \in Handlers :
    /\ pc[h] # "idle" => request[h] \in Request
    /\ pc[h] \in Submitting =>
         request[h] \in Submission /\ request[h].payload \in Admissible
    /\ pc[h] \in {"lock", "lookup", "record"} => Keyed(h)
    /\ pc[h] \in Dropping \cup Building \cup Reading \cup {"record"} =>
         subject[h] \in JobIDs

WorkerLocals == \A w \in Workers : wpc[w] # "waiting" <=> work[w] \in Item

\* idempotencyMu is held by the keyed submission between lookup and record.
MutexHeld ==
  \A h \in Handlers :
    idempotencyMu = h <=> pc[h] \in Submitting \ {"lock"} /\ Keyed(h)

\* A job belongs to the handler that makes it until it is enqueued: no one else
\* works on it, and no sweep, index or worker knows it.
JobOwnership ==
  /\ \A h \in Handlers : pc[h] \in Building \cup {"record"} =>
       origin[subject[h]] = [key |-> request[h].key, payload |-> request[h].payload]
  /\ \A h \in Handlers : pc[h] \in Building =>
       /\ subject[h] \notin accepted
       /\ jobs[subject[h]].state =
            IF pc[h] = "rollbackWorkspace" THEN "absent" ELSE "queued"
  /\ \A h, g \in Handlers :
       pc[h] \in Building /\ pc[g] \in Building /\ subject[h] = subject[g] => h = g
  /\ \A h \in Handlers : pc[h] = "record" => subject[h] \in accepted
  /\ \A h \in Handlers : pc[h] = "enqueue" => workspaces[subject[h]] # NoWorkspace

\* What is stored for a job, by the stage it has reached.
StoredState ==
  \A id \in JobIDs :
    /\ id \in accepted => Stored(jobs, id) /\ origin[id] # NoOrigin
    /\ id \notin accepted => jobs[id].state \in {"absent", "queued"}
    /\ origin[id] = NoOrigin =>
         ~Stored(jobs, id) /\ workspaces[id] = NoWorkspace
    /\ id \in accepted /\ jobs[id].state \in {"queued", "running"} =>
         workspaces[id] # NoWorkspace

\* The queue and the workers hold each unfinished job once.
QueueState ==
  /\ \A i \in 1..Len(jobQueue) :
       /\ jobQueue[i].job \in accepted
       /\ jobs[jobQueue[i].job].state = "queued"
       /\ jobQueue[i].payload = origin[jobQueue[i].job].payload
  /\ \A i, j \in 1..Len(jobQueue) : jobQueue[i].job = jobQueue[j].job => i = j
  /\ \A w \in Workers : wpc[w] # "waiting" =>
       /\ work[w].job \in accepted
       /\ jobs[work[w].job].state = IF wpc[w] = "start" THEN "queued" ELSE "running"
       /\ work[w].payload = origin[work[w].job].payload
       /\ wpc[w] = "publish" => workspaces[work[w].job] = work[w].payload
       /\ \A i \in 1..Len(jobQueue) : jobQueue[i].job # work[w].job
  /\ \A v, w \in Workers :
       wpc[v] # "waiting" /\ wpc[w] # "waiting" /\ work[v].job = work[w].job => v = w

\* A sweep's snapshot, and the index's, only get staler in one direction.
Snapshots ==
  \A h \in Handlers :
    /\ sweepNow[h] <= clock
    /\ pc[h] \notin Dropping \cup {"expire"} => todo[h] = {}
    /\ \A e \in todo[h] : /\ e.id \in accepted
                          /\ jobs[e.id].state \in Terminal \cup {"expired"}
                          /\ jobs[e.id].error = e.error
    /\ \A e \in todo[h] : jobs[e.id].state # "expired" =>
                            sweepNow[h] - jobs[e.id].updatedAt >= Retention
    /\ pc[h] \in Dropping =>
         subject[h] \in accepted /\ jobs[subject[h]].state = "expired"
    /\ pc[h] = "readWorkspace" => 
         subject[h] \in accepted /\ jobs[subject[h]].state \in {"succeeded", "expired"}
    /\ \A id \in listed[h] :
         id \in accepted /\ jobs[id].state \in {"succeeded", "expired"}

\* The idempotency table names accepted jobs; a live job with a key is in it, or
\* about to be put in it by the holder of the mutex; and while a submission of a
\* key is under way the table has no record for the key.
Records ==
  /\ \A k \in Keys : idempotency[k] # NoRecord =>
       /\ idempotency[k].job \in accepted
       /\ origin[idempotency[k].job] = [key |-> k, payload |-> idempotency[k].payload]
  /\ \A id \in JobIDs : Live(id) /\ origin[id].key # None =>
       \/ idempotency[origin[id].key].job = id
       \/ \E h \in Handlers : pc[h] = "record" /\ subject[h] = id
  /\ \A h \in Handlers : pc[h] \in Building \cup {"create", "record"} /\ Keyed(h) =>
       idempotency[request[h].key] = NoRecord

\* A record about to be written for a job that has expired meanwhile is removed
\* afterwards: the sweep that expired the job is waiting for the mutex.
LateRecord ==
  \A h \in Handlers : pc[h] = "record" /\ jobs[subject[h]].state = "expired" =>
    \E g \in Handlers : pc[g] \in Dropping /\ subject[g] = subject[h]

\* The inductive invariant: all of the above with the properties themselves.
Consistent ==
  /\ TypeOK
  /\ HandlerLocals
  /\ WorkerLocals
  /\ MutexHeld
  /\ JobOwnership
  /\ StoredState
  /\ QueueState
  /\ Snapshots
  /\ Records
  /\ LateRecord
  /\ SucceededHasSummary
  /\ NothingLeaks
=============================================================================
