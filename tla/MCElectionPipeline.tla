------------------------- MODULE MCElectionPipeline -------------------------
(***************************************************************************)
(* Values for the constants of ElectionPipeline.                           *)
(***************************************************************************)
EXTENDS ElectionPipeline, TLC

CONSTANTS e1, e2, v1, v2

VoterSymmetry == Permutations(Voters)
ElectionSymmetry == Permutations(Elections)

AllFaults == {"kafka_write", "load", "compute", "task_commit", "apply",
              "worker_crash", "answer_commit", "runner_crash"}

\* The failures at-least-once delivery is meant to mask.
MaskedFaults == {"runner_crash", "task_commit"}

\* The failures that make the worker fetch an answer again or skip it.
WorkerFaults == {"apply", "worker_crash"}

\* Two ballots that rank the candidates in opposite orders tie under every
\* scoring rule; Nanson's elimination then names no winner.
OppositeBallots == {{v1, v2}}
NoTies == {}
=============================================================================
