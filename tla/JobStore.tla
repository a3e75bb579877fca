------------------------------ MODULE JobStore ------------------------------
(***************************************************************************)
(* The in-memory job store of internal/job.  Every method of Store takes   *)
(* the store's mutex for its whole body, so each one is a single atomic    *)
(* operator on the map; a module that composes the store applies at most   *)
(* one of them per step.                                                   *)
(*                                                                         *)
(* A stored *Job is never modified in place: Update replaces the map's     *)
(* entry by a modified copy.  A value read with Get or List is therefore a *)
(* snapshot, which is how the callers' local copies are modelled.          *)
(*                                                                         *)
(* Abstracted: CreatedAt, which no decision of the service reads, and the  *)
(* error's message, which is a function of its code.                       *)
(***************************************************************************)
EXTENDS Naturals

CONSTANTS
  JobIDs,   \* the identifiers generateJobID may return
  None      \* "no job", "no key", "no payload", "no error", "no holder"

(***************************************************************************)
(* The lifecycle states, and the codes processJob stores in Job.Error.     *)
(***************************************************************************)
Lifecycle == {"queued", "running", "succeeded", "failed", "expired"}
Terminal  == {"succeeded", "failed"}

FailureCodes == {"engine_creation_failed", "analysis_failed",
                 "malformed_dataset", "summary_failed"}

Job == [state : Lifecycle, updatedAt : Nat, error : FailureCodes \cup {None}]

\* The map lookup's "not ok".
NoJob == [state |-> "absent", updatedAt |-> 0, error |-> None]

Stored(jobs, id) == jobs[id].state # "absent"

NewStore == [id \in JobIDs |-> NoJob]

\* Create writes unconditionally: it replaces a job that has the same id.
Create(jobs, id, now) ==
  [jobs EXCEPT ![id] = [state |-> "queued", updatedAt |-> now, error |-> None]]

Delete(jobs, id) == [jobs EXCEPT ![id] = NoJob]

\* Update ignores an id that is not stored.  Every caller passes a state and a
\* time, and Error is overwritten whether or not the caller passes one.
Update(jobs, id, state, now, error) ==
  IF Stored(jobs, id)
    THEN [jobs EXCEPT ![id] = [state |-> state, updatedAt |-> now, error |-> error]]
    ELSE jobs

List(jobs) == {id \in JobIDs : Stored(jobs, id)}
=============================================================================
