--------------------------- MODULE AnalysisLedger ---------------------------
(***************************************************************************)
(* What the analysis service promises its clients, without handlers,       *)
(* workers, locks, workspaces or an idempotency table: a ledger of         *)
(* accepted submissions, each of which is begun, finished with the outcome *)
(* its payload has, and eventually forgotten.  At most Capacity            *)
(* submissions are in progress, and a key stands for one submission that   *)
(* is not yet expired.                                                     *)
(***************************************************************************)
EXTENDS Naturals, FiniteSets

CONSTANTS JobIDs, Keys, Payloads, None, Outcome, Capacity

VARIABLES
  phase,  \* where each submission is
  owner   \* its key and payload

Nobody == [key |-> None, payload |-> None]

InProgress == {id \in JobIDs : phase[id] \in {"queued", "running"}}
KeyInUse(k) == \E id \in JobIDs : /\ owner[id].key = k
                                  /\ phase[id] \notin {"none", "expired"}

Init ==
  /\ phase = [id \in JobIDs |-> "none"]
  /\ owner = [id \in JobIDs |-> Nobody]

Accept(id, k, p) ==
  /\ phase[id] = "none"
  /\ Outcome[p] # "rejected"
  /\ Cardinality(InProgress) < Capacity
  /\ k = None \/ ~KeyInUse(k)
  /\ phase' = [phase EXCEPT ![id] = "queued"]
  /\ owner' = [owner EXCEPT ![id] = [key |-> k, payload |-> p]]

Begin(id) ==
  /\ phase[id] = "queued"
  /\ phase' = [phase EXCEPT ![id] = "running"]
  /\ UNCHANGED owner

Finish(id) ==
  /\ phase[id] = "running"
  /\ phase' = [phase EXCEPT ![id] = IF Outcome[owner[id].payload] = "ok"
                                      THEN "succeeded" ELSE "failed"]
  /\ UNCHANGED owner

Expire(id) ==
  /\ phase[id] \in {"succeeded", "failed"}
  /\ phase' = [phase EXCEPT ![id] = "expired"]
  /\ UNCHANGED owner

Next == \E id \in JobIDs :
          \/ \E k \in Keys \cup {None}, p \in Payloads : Accept(id, k, p)
          \/ Begin(id) \/ Finish(id) \/ Expire(id)

Spec == Init /\ [][Next]_<<phase, owner>>
=============================================================================
