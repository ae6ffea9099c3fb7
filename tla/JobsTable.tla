------------------------------ MODULE JobsTable ------------------------------
(***************************************************************************)
(* The jobs table and the statements of internal/jobs on it.  A table is a *)
(* sequence of rows in creation order, so a row's index is its id.         *)
(* result_ref holds the version of the result a finished tally stored, and *)
(* NullRef (0) while the column is NULL.                                   *)
(***************************************************************************)
EXTENDS Naturals, Sequences

JobStatus == {"queued", "running", "done", "error"}

NullRef == 0
NoJob == 0

Job(Election) == [election : Election, status : JobStatus,
                  progress : 0..100, result_ref : Nat]

\* INSERT INTO jobs (kind, status, progress, ...) VALUES ('tally', 'queued', 0, ...)
NewJob(e) ==
  [election |-> e, status |-> "queued", progress |-> 0, result_ref |-> NullRef]

\* Mutant: failed jobs are picked up again.
OldestUnfinished(js, j) ==
  /\ j \in DOMAIN js
  /\ js[j].status \in {"queued", "error"}
  /\ \A i \in DOMAIN js : js[i].status = "queued" => j <= i

\* The queued row ClaimNext picks: ORDER BY created_at ASC LIMIT 1.
OldestQueued(js, j) ==
  /\ j \in DOMAIN js
  /\ js[j].status = "queued"
  /\ \A i \in DOMAIN js : js[i].status = "queued" => j <= i

\* ClaimNext: the claimed row starts to run at progress 0.
Claim(js, j) == [js EXCEPT ![j] = [@ EXCEPT !.status = "running", !.progress = 0]]

\* Mutant: the status guard is dropped.
UpdateAnyProgress(js, j, p) == [js EXCEPT ![j] = [@ EXCEPT !.progress = p]]

\* UpdateProgress touches a running row only.
UpdateProgress(js, j, p) ==
  IF js[j].status = "running" THEN [js EXCEPT ![j] = [@ EXCEPT !.progress = p]] ELSE js

\* Mutant: a status the CHECK of the table does not know.
MarkFailed(js, j) == [js EXCEPT ![j] = [@ EXCEPT !.status = "failed"]]

\* MarkError names the row by id alone, whatever status it has.
MarkError(js, j) == [js EXCEPT ![j] = [@ EXCEPT !.status = "error"]]

\* The job half of a successful apply: by id alone, whatever its status.
MarkDone(js, j, ref) ==
  [js EXCEPT ![j] = [@ EXCEPT !.status = "done", !.progress = 100, !.result_ref = ref]]
=============================================================================
