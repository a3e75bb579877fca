------------------------- MODULE AnalysisRefinement -------------------------
(***************************************************************************)
(* The mapping under which AnalysisService implements AnalysisLedger, and  *)
(* what has to hold beside Consistent for it: no unfinished job is lost,   *)
(* results are those of the submission, and answers once given stay true.  *)
(***************************************************************************)
EXTENDS AnalysisServiceInv

ASSUME WorkersAssumption == IsFiniteSet(Workers)

(***************************************************************************)
(* A submission enters the ledger when it is enqueued, not when its job is *)
(* created: until then it may still be rolled back.                        *)
(***************************************************************************)
ledgerPhase == [id \in JobIDs |-> IF id \in accepted THEN jobs[id].state ELSE "none"]
ledgerOwner == [id \in JobIDs |-> IF id \in accepted THEN origin[id] ELSE NoOrigin]

Ledger == INSTANCE AnalysisLedger WITH
  phase <- ledgerPhase, owner <- ledgerOwner,
  Capacity <- QueueLimit + Cardinality(Workers)

\* The service implements the ledger.
ImplementsLedger == Ledger!Spec

\* A queued or running job is somewhere; QueueState says that it is nowhere else.
Held ==
  \A id \in accepted :
    /\ jobs[id].state = "queued" =>
         \/ \E i \in 1..Len(jobQueue) : jobQueue[i].job = id
         \/ \E w \in Workers : wpc[w] = "start" /\ work[w].job = id
    /\ jobs[id].state = "running" =>
         \E w \in Workers : wpc[w] \in {"analyze", "publish"} /\ work[w].job = id

\* Summaries and failure codes are those of the submission a job was made for.
Produced ==
  /\ \A w \in Workers : wpc[w] = "publish" => ~Fails(work[w].payload)
  /\ \A id \in JobIDs :
       /\ workspaces[id] \in {NoWorkspace, EmptyWorkspace, origin[id].payload}
       /\ jobs[id].state = "failed" => jobs[id].error = Outcome[origin[id].payload]

\* An answer is about an accepted job, and is true until it is written.
Told ==
  /\ ReplySound
  /\ \A h \in Handlers :
       /\ reply[h].status # "none" => pc[h] = "reply"
       /\ reply[h].status \in {"failed", "expired"} => reply[h].job \in accepted

Accountable == Consistent /\ Held /\ Produced /\ Told

\* What the queue limit does bound: a submission in progress has a slot of the queue or
\* a worker of its own, so more than both together are refused.
JobsBounded ==
  /\ Len(jobQueue) <= QueueLimit
  /\ Cardinality(InFlight) <= QueueLimit + Cardinality(Workers)
=============================================================================
