--------------------------- MODULE LifecycleRules ---------------------------
(***************************************************************************)
(* The statuses of an election and the moves between them: the CHECK on    *)
(* elections.status, nextStatus and canOpenElection.                       *)
(***************************************************************************)

ElectionStatus == {"draft", "scheduled", "active", "paused", "closed",
                   "results_ready", "published"}

\* The statuses from which voting can no longer resume.
PostClose == {"closed", "results_ready", "published"}

\* Mutant: a closed election may be resumed.
ReopeningActionFrom == [schedule |-> {"draft"},
                        open     |-> {"draft", "scheduled"},
                        pause    |-> {"active"},
                        resume   |-> {"paused", "closed"},
                        close    |-> {"active", "paused"},
                        publish  |-> {"closed", "results_ready"}]

\* The statuses an action may start from, and the one it leads to.
ActionFrom == [schedule |-> {"draft"},
               open     |-> {"draft", "scheduled"},
               pause    |-> {"active"},
               resume   |-> {"paused"},
               close    |-> {"active", "paused"},
               publish  |-> {"closed", "results_ready"}]

ActionTo == [schedule |-> "scheduled", open |-> "active", pause |-> "paused",
             resume |-> "active", close |-> "closed", publish |-> "published"]

\* The actions that change nothing but the status.
PlainActions == {"schedule", "open", "pause", "resume"}
=============================================================================
