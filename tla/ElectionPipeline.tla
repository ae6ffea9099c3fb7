-------------------------- MODULE ElectionPipeline --------------------------
(***************************************************************************)
(* An election from its draft to its published results, across every       *)
(* process that touches it:                                                *)
(*                                                                         *)
(*   - the API: lifecycle actions of an administrator (elections.Action)   *)
(*     and ballot submission (ballots.Submit);                             *)
(*   - the worker's tick goroutine: the two schedulers, the claim of a     *)
(*     tally job and the publication of its task to Kafka;                 *)
(*   - the compute runner: it reads the accepted ballots, runs the tally   *)
(*     and writes a result message;                                        *)
(*   - the worker's consumer goroutine: it applies result messages to      *)
(*     Postgres.                                                           *)
(*                                                                         *)
(* A step is one database transaction or statement, one message written,   *)
(* fetched or committed.  What a process keeps in memory between two steps *)
(* is lost when it crashes.                                                *)
(***************************************************************************)
EXTENDS Naturals, Sequences, FiniteSets, LifecycleRules, JobsTable, KafkaTopic

CONSTANTS
  Elections,   \* the elections, identified by elections.id
  Voters,      \* the users who may vote (one voter_hash each per election)
  Undecided,   \* the sets of ballots on which the tally rule names no winner
  FaultKinds,  \* the kinds of failure this instance allows
  MaxFaults    \* the bound on the number of failures

ASSUME ElectionsFinite == IsFiniteSet(Elections)
ASSUME UndecidedAssumption == Undecided \subseteq SUBSET Voters
ASSUME MaxFaultsAssumption == MaxFaults \in Nat

VARIABLES
  status,     \* elections.status
  due,        \* which of end_at and publish_at have been reached, per election
  submitting, \* submissions that passed the status check and have not ended
  ballots,    \* the voters with an accepted ballots row, per election
  inTime,     \* history: the ballots accepted when the election closed
  results,    \* the results rows of each election; the index is the version
  jobs,       \* the tally rows of the jobs table
  tasks,      \* the Kafka topic of compute tasks
  answers,    \* the Kafka topic of compute results
  worker,     \* the worker's tick goroutine
  consumer,   \* the worker's consumeResults goroutine
  runner,     \* the compute runner
  faults      \* history: how many failures have happened

vars == <<status, due, submitting, ballots, inTime, results, jobs, tasks,
          answers, worker, consumer, runner, faults>>

apiVars == <<due, submitting, ballots>>
processVars == <<worker, consumer, runner>>

-----------------------------------------------------------------------------
(* Types.                                                                  *)

Result == [counted : SUBSET Voters, published : BOOLEAN]

\* A task carries the job and the election; the rule it also carries is fixed.
Task == [job : Nat \ {0}, election : Elections]

\* The result message.  An undecided tally is "done" with an empty list of
\* winners, which the runner turns into a nil slice and JSON null.
Answer == [job : Nat \ {0}, election : Elections,
           status : {"done", "error"}, winners : BOOLEAN, counted : SUBSET Voters]

NoAnswer == [job |-> NoJob]

TypeOK ==
  /\ status \in [Elections -> ElectionStatus]
  /\ due \in [Elections -> SUBSET {"end", "publish"}]
  /\ submitting \in SUBSET (Elections \X Voters)
  /\ ballots \in [Elections -> SUBSET Voters]
  /\ inTime \in [Elections -> SUBSET Voters]
  /\ results \in [Elections -> Seq(Result)]
  /\ jobs \in Seq(Job(Elections))
  /\ tasks \in Topic(Task)
  /\ answers \in Topic(Answer)
  /\ worker \in [pc : {"idle", "publish", "claim", "dispatch", "progress"}, job : Nat]
  /\ consumer \in [pc : {"fetch", "commit"}, skipped : SUBSET Nat]
  /\ runner \in [pc : {"fetch", "write", "commit"}, answer : Answer \cup {NoAnswer}]
  /\ faults \in 0..MaxFaults

-----------------------------------------------------------------------------
(* Helpers.                                                                *)

\* One failure of a kind the instance allows.
Fault(kind) ==
  /\ kind \in FaultKinds
  /\ faults < MaxFaults
  /\ faults' = faults + 1

NoFault == UNCHANGED faults

\* How a call of kafka-go's WriteMessages ends: copies of the message in the
\* log, and whether the caller sees success.  Anything but exactly one copy and
\* success is a failure of the network or the broker.
WriteOutcome(copies, ok) ==
  /\ ok => copies >= 1
  /\ IF copies = 1 /\ ok THEN NoFault ELSE Fault("kafka_write")

\* Mutant: LIMIT 1 is dropped, every version is stamped.
StampAll(rows) == [i \in DOMAIN rows |-> [rows[i] EXCEPT !.published = TRUE]]

\* published_at = COALESCE(published_at, now) on the newest version.
StampLatest(rows) == [rows EXCEPT ![Len(rows)].published = TRUE]

NewResult(counted) == [counted |-> counted, published |-> FALSE]

\* The ways to list a finite set: rows of one transaction share created_at, so
\* their order in the queue is arbitrary.
Orders(es) ==
  {order \in [1..Cardinality(es) -> es] : \A e \in es : \E i \in DOMAIN order : order[i] = e}

IdleWorker == [pc |-> "idle", job |-> NoJob]
FetchingRunner == [pc |-> "fetch", answer |-> NoAnswer]

Init ==
  /\ status = [e \in Elections |-> "draft"]
  /\ due = [e \in Elections |-> {}]
  /\ submitting = {}
  /\ ballots = [e \in Elections |-> {}]
  /\ inTime = [e \in Elections |-> {}]
  /\ results = [e \in Elections |-> <<>>]
  /\ jobs = <<>>
  /\ tasks = EmptyTopic
  /\ answers = EmptyTopic
  /\ worker = IdleWorker
  /\ consumer = [pc |-> "fetch", skipped |-> {}]
  /\ runner = FetchingRunner
  /\ faults = 0

-----------------------------------------------------------------------------
(* Time, and the API.                                                      *)

\* end_at or publish_at passes; publish_at may be NULL and never come.
TimePasses(e, what) ==
  /\ what \notin due[e]
  /\ due' = [due EXCEPT ![e] = @ \cup {what}]
  /\ UNCHANGED <<status, submitting, ballots, inTime, results, jobs, tasks,
                 answers, processVars, faults>>

\* Action: schedule, open, pause, resume.  The row is locked FOR UPDATE, so the
\* transaction is one step.  Whether the rules and the candidates of a draft are
\* complete is not part of the state: an "open" they refuse is no step.
ChangeStatus(e, action) ==
  /\ action \in PlainActions
  /\ status[e] \in ActionFrom[action]
  /\ status' = [status EXCEPT ![e] = ActionTo[action]]
  /\ UNCHANGED <<apiVars, inTime, results, jobs, tasks, answers, processVars, faults>>

\* Action "close": the status and the tally job in one transaction.
Close(e) ==
  /\ status[e] \in ActionFrom["close"]
  /\ status' = [status EXCEPT ![e] = ActionTo["close"]]
  /\ jobs' = Append(jobs, NewJob(e))
  /\ inTime' = [inTime EXCEPT ![e] = ballots[e]]
  /\ UNCHANGED <<apiVars, results, tasks, answers, processVars, faults>>

\* Mutant: publication does not look at how many rows it stamped.
CanPublishUnseen(e) == status[e] \in ActionFrom["publish"]

\* Action "publish": with no results row to stamp, "no_results" rolls back.
CanPublish(e) == status[e] \in ActionFrom["publish"] /\ results[e] # <<>>

Publish(e) ==
  /\ CanPublish(e)
  /\ status' = [status EXCEPT ![e] = ActionTo["publish"]]
  /\ results' = [results EXCEPT ![e] = StampLatest(@)]
  /\ UNCHANGED <<apiVars, inTime, jobs, tasks, answers, processVars, faults>>

\* Submit, first half: the status is read once, outside any transaction.
BeginSubmit(e, v) ==
  /\ status[e] = "active"
  /\ submitting' = submitting \cup {<<e, v>>}
  /\ UNCHANGED <<status, due, ballots, inTime, results, jobs, tasks, answers,
                 processVars, faults>>

\* Submit, second half: the insert, which does not look at the election again.
\* A voter who already has an accepted row gets "already_submitted".
InsertBallot(e, v) ==
  /\ <<e, v>> \in submitting
  /\ submitting' = submitting \ {<<e, v>>}
  /\ ballots' = [ballots EXCEPT ![e] = @ \cup {v}]
  /\ UNCHANGED <<status, due, inTime, results, jobs, tasks, answers,
                 processVars, faults>>

\* Submit that ends without a row: rejected payload, cancelled request, failed
\* transaction, or the crash of the API process.
AbandonSubmit(e, v) ==
  /\ <<e, v>> \in submitting
  /\ submitting' = submitting \ {<<e, v>>}
  /\ UNCHANGED <<status, due, ballots, inTime, results, jobs, tasks, answers,
                 processVars, faults>>

-----------------------------------------------------------------------------
(* The worker's tick: schedulers (when their interval is over), then one   *)
(* job.                                                                    *)

\* Mutant: a paused election is forgotten.
DueActive(e) == status[e] = "active" /\ "end" \in due[e]

\* Mutant: an election that is closed already is closed again.
DueNotPublished(e) == status[e] \in {"active", "paused", "closed"} /\ "end" \in due[e]

\* The rows autoCloseDueElections selects.
DueToClose(e) == status[e] \in {"active", "paused"} /\ "end" \in due[e]

\* autoCloseDueElections: in one transaction, every due election whose row no
\* other transaction has locked (FOR UPDATE SKIP LOCKED).
AutoClose ==
  /\ worker.pc = "idle"
  /\ \E es \in SUBSET {e \in Elections : DueToClose(e)} :
       /\ status' = [e \in Elections |-> IF e \in es THEN "closed" ELSE status[e]]
       /\ inTime' = [e \in Elections |-> IF e \in es THEN ballots[e] ELSE inTime[e]]
       /\ \E order \in Orders(es) :
            jobs' = jobs \o [i \in DOMAIN order |-> NewJob(order[i])]
  /\ worker' = [worker EXCEPT !.pc = "publish"]
  /\ UNCHANGED <<apiVars, results, tasks, answers, consumer, runner, faults>>

\* Mutant: the scheduler looks for closed elections.
DueAndClosed(e) == status[e] = "closed" /\ "publish" \in due[e] /\ results[e] # <<>>

\* The rows autoPublishDueElections selects and can stamp.
DueToPublish(e) ==
  status[e] = "results_ready" /\ "publish" \in due[e] /\ results[e] # <<>>

\* autoPublishDueElections: likewise; a due election without results is left
\* for later.
AutoPublish ==
  /\ worker.pc = "publish"
  /\ \E es \in SUBSET {e \in Elections : DueToPublish(e)} :
       /\ status' = [e \in Elections |-> IF e \in es THEN "published" ELSE status[e]]
       /\ results' = [e \in Elections |->
                        IF e \in es THEN StampLatest(results[e]) ELSE results[e]]
  /\ worker' = [worker EXCEPT !.pc = "claim"]
  /\ UNCHANGED <<apiVars, inTime, jobs, tasks, answers, consumer, runner, faults>>

\* ClaimNext, and the first UpdateProgress of the tick.
ClaimNext ==
  /\ worker.pc \in {"idle", "claim"}
  /\ \E j \in DOMAIN jobs :
       /\ OldestQueued(jobs, j)
       /\ jobs' = UpdateProgress(Claim(jobs, j), j, 5)
       /\ worker' = [pc |-> "dispatch", job |-> j]
  /\ UNCHANGED <<status, apiVars, inTime, results, tasks, answers, consumer,
                 runner, faults>>

\* ClaimNext finds nothing: the tick ends.
ClaimNothing ==
  /\ worker.pc = "claim"
  /\ \A j \in DOMAIN jobs : jobs[j].status # "queued"
  /\ worker' = IdleWorker
  /\ UNCHANGED <<status, apiVars, inTime, results, jobs, tasks, answers,
                 consumer, runner, faults>>

\* handleElectionTallyExternal after the task is loaded: progress 20 and the
\* message; a write that reports an error marks the job failed, whether or not
\* the message reached the log.
PublishTask ==
  /\ worker.pc = "dispatch"
  /\ \E copies \in 0..2, ok \in BOOLEAN :
       /\ WriteOutcome(copies, ok)
       /\ tasks' = Write(tasks, [job |-> worker.job, election |-> jobs[worker.job].election],
                         copies)
       /\ jobs' = LET started == UpdateProgress(jobs, worker.job, 20)
                  IN IF ok THEN started ELSE MarkError(started, worker.job)
       /\ worker' = IF ok THEN [worker EXCEPT !.pc = "progress"] ELSE IdleWorker
  /\ UNCHANGED <<status, apiVars, inTime, results, answers, consumer, runner>>

\* The task cannot be loaded: the tick returns the error, which is only logged.
LoadTaskFails ==
  /\ worker.pc = "dispatch"
  /\ Fault("load")
  /\ worker' = IdleWorker
  /\ UNCHANGED <<status, apiVars, inTime, results, jobs, tasks, answers,
                 consumer, runner>>

\* The last UpdateProgress of the tick, which may come after the result.
EndTick ==
  /\ worker.pc = "progress"
  /\ jobs' = UpdateProgress(jobs, worker.job, 45)
  /\ worker' = IdleWorker
  /\ UNCHANGED <<status, apiVars, inTime, results, tasks, answers, consumer,
                 runner, faults>>

-----------------------------------------------------------------------------
(* The compute runner.                                                     *)

DoneAnswer(task, counted) ==
  [job |-> task.job, election |-> task.election, status |-> "done",
   winners |-> counted \notin Undecided, counted |-> counted]

ErrorAnswer(task) ==
  [job |-> task.job, election |-> task.election, status |-> "error",
   winners |-> FALSE, counted |-> {}]

\* fetchTaskMessage and processElectionTallyTask: one SELECT reads the accepted
\* ballots of the election as they are now.  No ballots, a timeout or a failure
\* of the compute service end in an error answer.
ProcessTask ==
  /\ runner.pc = "fetch"
  /\ HasNext(tasks)
  /\ tasks' = Fetch(tasks)
  /\ LET task == NextMessage(tasks)
         counted == ballots[task.election]
         Answers(a) == runner' = [pc |-> "write", answer |-> a]
     IN \/ counted = {} /\ NoFault /\ Answers(ErrorAnswer(task))
        \/ counted # {} /\ NoFault /\ Answers(DoneAnswer(task, counted))
        \/ Fault("compute") /\ Answers(ErrorAnswer(task))
  /\ UNCHANGED <<status, apiVars, inTime, results, jobs, answers, worker, consumer>>

\* writeResult: when it reports an error the loop goes on to the next task
\* without committing this one.
WriteAnswer ==
  /\ runner.pc = "write"
  /\ \E copies \in 0..2, ok \in BOOLEAN :
       /\ WriteOutcome(copies, ok)
       /\ answers' = Write(answers, runner.answer, copies)
       /\ runner' = IF ok THEN [pc |-> "commit", answer |-> NoAnswer] ELSE FetchingRunner
  /\ UNCHANGED <<status, apiVars, inTime, results, jobs, tasks, worker, consumer>>

\* commitTask ignores the error of the commit.
CommitTask ==
  /\ runner.pc = "commit"
  /\ \/ NoFault /\ tasks' = Commit(tasks)
     \/ Fault("task_commit") /\ UNCHANGED tasks
  /\ runner' = FetchingRunner
  /\ UNCHANGED <<status, apiVars, inTime, results, jobs, answers, worker, consumer>>

-----------------------------------------------------------------------------
(* The worker's consumer: consumeResults and applyElectionTallyResult.     *)

\* An error answer marks the job, whatever became of the job before.
ApplyError ==
  /\ consumer.pc = "fetch"
  /\ HasNext(answers)
  /\ NextMessage(answers).status = "error"
  /\ jobs' = MarkError(jobs, NextMessage(answers).job)
  /\ answers' = Fetch(answers)
  /\ consumer' = [pc |-> "commit", skipped |-> consumer.skipped \ {answers.pos}]
  /\ UNCHANGED <<status, apiVars, inTime, results, tasks, worker, runner, faults>>

\* Mutant: WHERE status='closed' is dropped.
AlwaysReady(s) == "results_ready"

\* UPDATE elections SET status='results_ready' WHERE status='closed'.
AfterApply(s) == IF s = "closed" THEN "results_ready" ELSE s

\* A tally with winners: the new version, the election and the job in one
\* transaction.
ApplyDone ==
  /\ consumer.pc = "fetch"
  /\ HasNext(answers)
  /\ LET m == NextMessage(answers)
     IN /\ m.status = "done" /\ m.winners
        /\ results' = [results EXCEPT ![m.election] = Append(@, NewResult(m.counted))]
        /\ status' = [status EXCEPT ![m.election] = AfterApply(@)]
        /\ jobs' = MarkDone(jobs, m.job, Len(results[m.election]) + 1)
  /\ answers' = Fetch(answers)
  /\ consumer' = [pc |-> "commit", skipped |-> consumer.skipped \ {answers.pos}]
  /\ UNCHANGED <<apiVars, inTime, tasks, worker, runner, faults>>

\* An answer that cannot be applied: winners are JSON null, which the CHECK on
\* results.winners refuses, or the database fails.  The loop goes on to the next
\* message without committing this one.
ApplyFails ==
  /\ consumer.pc = "fetch"
  /\ HasNext(answers)
  /\ LET m == NextMessage(answers)
     IN /\ \/ m.status = "done" /\ ~m.winners /\ NoFault
           \/ Fault("apply")
        /\ jobs' = IF m.status = "done" THEN UpdateProgress(jobs, m.job, 70) ELSE jobs
  /\ answers' = Fetch(answers)
  /\ consumer' = [consumer EXCEPT !.skipped = @ \cup {answers.pos}]
  /\ UNCHANGED <<status, apiVars, inTime, results, tasks, worker, runner>>

CommitAnswer ==
  /\ consumer.pc = "commit"
  /\ answers' = Commit(answers)
  /\ consumer' = [consumer EXCEPT !.pc = "fetch"]
  /\ UNCHANGED <<status, apiVars, inTime, results, jobs, tasks, worker, runner, faults>>

-----------------------------------------------------------------------------
(* Crashes and restarts.  A failed commit or fetch of the consumer ends    *)
(* Run and with it the worker process, which is restarted.                 *)

RestartWorker(kind) ==
  /\ Fault(kind)
  /\ worker' = IdleWorker
  /\ consumer' = [consumer EXCEPT !.pc = "fetch"]
  /\ answers' = Rejoin(answers)
  /\ UNCHANGED <<status, apiVars, inTime, results, jobs, tasks, runner>>

WorkerCrash == RestartWorker("worker_crash")

CommitAnswerFails == consumer.pc = "commit" /\ RestartWorker("answer_commit")

RunnerCrash ==
  /\ Fault("runner_crash")
  /\ runner' = FetchingRunner
  /\ tasks' = Rejoin(tasks)
  /\ UNCHANGED <<status, apiVars, inTime, results, jobs, answers, worker, consumer>>

-----------------------------------------------------------------------------
AdminStep ==
  \E e \in Elections : \/ \E a \in PlainActions : ChangeStatus(e, a)
                       \/ Close(e)
                       \/ Publish(e)

VoterStep ==
  \E e \in Elections, v \in Voters :
    BeginSubmit(e, v) \/ InsertBallot(e, v) \/ AbandonSubmit(e, v)

TickStep == \/ AutoClose \/ AutoPublish \/ ClaimNext \/ ClaimNothing
            \/ PublishTask \/ LoadTaskFails \/ EndTick

RunnerStep == ProcessTask \/ WriteAnswer \/ CommitTask

ConsumerStep == ApplyError \/ ApplyDone \/ ApplyFails \/ CommitAnswer

Crash == WorkerCrash \/ CommitAnswerFails \/ RunnerCrash

Next ==
  \/ \E e \in Elections, what \in {"end", "publish"} : TimePasses(e, what)
  \/ AdminStep \/ VoterStep
  \/ TickStep \/ RunnerStep \/ ConsumerStep
  \/ Crash

Spec == Init /\ [][Next]_vars

\* The ticker of Run fires for as long as the process runs, and the runner's
\* and the consumer's loops never stop; nothing makes an administrator, a voter
\* or the clock act.  A transaction holds a row for milliseconds and the
\* scheduler runs every few seconds, so it does not find the same row locked
\* forever: an election that keeps being due is closed, or published, some time.
Fairness ==
  /\ WF_vars(TickStep) /\ WF_vars(RunnerStep) /\ WF_vars(ConsumerStep)
  /\ \A e \in Elections :
       /\ SF_vars(AutoClose /\ DueToClose(e) /\ status'[e] = "closed")
       /\ SF_vars(AutoPublish /\ DueToPublish(e) /\ status'[e] = "published")

FairSpec == Spec /\ Fairness

-----------------------------------------------------------------------------
(* Safety.  None of these depends on which failures happen.                *)

\* An election has a result exactly while its status says so: no tally result
\* reaches an election that is still open, and no status claims a result that
\* was never stored.  In particular "publish" of a closed election can only
\* answer "no_results".
ResultsIffReady ==
  \A e \in Elections : results[e] # <<>> <=> status[e] \in {"results_ready", "published"}

\* The administrator's close and the scheduler's close of the same election
\* never both queue a tally: there is one tally job from the close on, none
\* before it.
OneTallyJobPerElection ==
  \A e \in Elections :
    Cardinality({j \in DOMAIN jobs : jobs[j].election = e})
      = IF status[e] \in PostClose THEN 1 ELSE 0

\* Every version of the result counts each ballot that was accepted before the
\* election closed, and counts no ballot that was never accepted.
CountsEveryBallotInTime ==
  \A e \in Elections : \A i \in DOMAIN results[e] :
    inTime[e] \subseteq results[e][i].counted /\ results[e][i].counted \subseteq ballots[e]

\* A result version carries published_at exactly when its election is
\* published: publication never forgets to stamp, and nothing is stamped early.
PublishedIffStamped ==
  \A e \in Elections :
    status[e] = "published" <=> \E i \in DOMAIN results[e] : results[e][i].published

\* The tally job points at the newest version of its election's result, also
\* after redelivered, late or failed answers; a job that is done points at one.
JobRefersToNewestResult ==
  \A j \in DOMAIN jobs :
    /\ jobs[j].result_ref = Len(results[jobs[j].election])
    /\ jobs[j].status = "done" => jobs[j].result_ref # NullRef /\ jobs[j].progress = 100

\* A finished job is never queued or running again: no redelivery, late progress
\* update or restart reopens it.
JobNeverReopens ==
  [][\A j \in DOMAIN jobs : jobs[j].status \in {"done", "error"}
                              => jobs'[j].status \in {"done", "error"}]_vars

\* The refinement mapping: the lifecycle sees how many results an election has
\* and which of them are stamped.
Versions == [e \in Elections |-> Len(results[e])]
Stamped == [e \in Elections |-> {i \in DOMAIN results[e] : results[e][i].published}]

Lifecycle == INSTANCE ElectionLifecycle WITH versions <- Versions, stamped <- Stamped

\* The pipeline, with its jobs, topics and processes hidden, is an
\* ElectionLifecycle: versions are only ever appended, a version's stamp is
\* never taken back, and every status change is one the lifecycle allows.
ImplementsLifecycle == Lifecycle!LifecycleSpec

-----------------------------------------------------------------------------
(* Liveness, under FairSpec.                                               *)

\* An election that closes with at least one ballot on which its rule decides
\* gets its result, whatever the compute runner's restarts and lost commits.
ClosedGetsResult ==
  \A e \in Elections :
    status[e] = "closed" /\ inTime[e] # {} ~> status[e] \in {"results_ready", "published"}

\* A tally job that was queued is processed: it ends done or in error and is
\* not left running, also for an election that closed without a ballot.
TallyJobFinishes ==
  \A j \in 1..Cardinality(Elections) :
    j \in DOMAIN jobs ~> j \in DOMAIN jobs /\ jobs[j].status \in {"done", "error"}

\* Once end_at has passed, voting does end, even if the administrator keeps
\* pausing and resuming the election.
DueElectionCloses ==
  \A e \in Elections :
    status[e] \in {"active", "paused"} /\ "end" \in due[e] ~> status[e] \in PostClose

\* Once publish_at has passed, results that are ready do get published.
DueElectionIsPublished ==
  \A e \in Elections :
    status[e] = "results_ready" /\ "publish" \in due[e] ~> status[e] = "published"

-----------------------------------------------------------------------------
(* What the repository says of the program, and the program does not do.   *)

\* A ballot is accepted only while the election is active
\* (openapi.yaml: 409 "Election not active").
AcceptsOnlyWhileActive ==
  [][\A e \in Elections : ballots'[e] # ballots[e] => status[e] = "active"]_vars

\* What voters are shown of a published election, its newest version, carries
\* published_at (election-lifecycle.spec.ts).
ShownResultIsPublished ==
  \A e \in Elections :
    status[e] = "published" => results[e][Len(results[e])].published

\* A result message whose application failed is not committed
\* (TestConsumeResults_ApplyError_DoesNotCommit).
FailedAnswerNotCommitted ==
  \A offset \in consumer.skipped : offset >= answers.committed
=============================================================================
