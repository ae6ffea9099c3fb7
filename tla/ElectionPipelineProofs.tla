----------------------- MODULE ElectionPipelineProofs -----------------------
(***************************************************************************)
(* Theorems about ElectionPipeline, for every set of elections and voters, *)
(* every tally rule and every number of failures.                          *)
(***************************************************************************)
EXTENDS ElectionPipeline, FiniteSetTheorems, TLAPS

-----------------------------------------------------------------------------
(* The operators of KafkaTopic.                                            *)

\* An empty topic is a topic.
LEMMA EmptyTopicTyped ==
  ASSUME NEW M PROVE EmptyTopic \in Topic(M)
BY DEF EmptyTopic, Topic

\* A write leaves a topic a topic, whose log holds old messages and the new one.
LEMMA WriteTyped ==
  ASSUME NEW M, NEW t \in Topic(M), NEW m \in M, NEW copies \in Nat
  PROVE  /\ Write(t, m, copies) \in Topic(M)
         /\ \A i \in DOMAIN Write(t, m, copies).log :
              \/ i \in DOMAIN t.log /\ Write(t, m, copies).log[i] = t.log[i]
              \/ Write(t, m, copies).log[i] = m
<1> DEFINE new == [i \in 1..copies |-> m]
<1>1. t.log \in Seq(M) BY DEF Topic
<1>2. new \in Seq(M) /\ Len(new) = copies OBVIOUS
<1>3. t.log \o new \in Seq(M) BY <1>1, <1>2
<1>4. Write(t, m, copies) = [t EXCEPT !.log = t.log \o new] BY DEF Write
<1>5. Write(t, m, copies) \in Topic(M) BY <1>3, <1>4 DEF Topic
<1>6. Write(t, m, copies).log = t.log \o new BY <1>4 DEF Topic
<1>7. ASSUME NEW i \in DOMAIN (t.log \o new)
      PROVE  \/ i \in DOMAIN t.log /\ (t.log \o new)[i] = t.log[i]
             \/ (t.log \o new)[i] = m
  BY <1>1, <1>2
<1>8. QED BY <1>5, <1>6, <1>7

\* Fetching, committing and rejoining move positions and leave the log alone.
LEMMA PositionsTyped ==
  ASSUME NEW M, NEW t \in Topic(M)
  PROVE  /\ Fetch(t) \in Topic(M) /\ Fetch(t).log = t.log
         /\ Commit(t) \in Topic(M) /\ Commit(t).log = t.log
         /\ Rejoin(t) \in Topic(M) /\ Rejoin(t).log = t.log
BY DEF Topic, Fetch, Commit, Rejoin

\* The next message of a topic is one of its log.
LEMMA NextMessageTyped ==
  ASSUME NEW M, NEW t \in Topic(M), HasNext(t)
  PROVE  NextMessage(t) \in M /\ \E i \in DOMAIN t.log : NextMessage(t) = t.log[i]
BY DEF Topic, HasNext, NextMessage

-----------------------------------------------------------------------------
(* The operators of JobsTable.                                             *)

\* The values the statements write keep a row a row of the same election.
LEMMA StatusTyped ==
  ASSUME NEW E, NEW r \in Job(E), NEW s \in JobStatus
  PROVE  /\ [r EXCEPT !.status = s] \in Job(E)
         /\ [r EXCEPT !.status = s].election = r.election
BY DEF Job

\* So does a new status with a new progress.
LEMMA StatusProgressTyped ==
  ASSUME NEW E, NEW r \in Job(E), NEW s \in JobStatus, NEW p \in 0..100
  PROVE  /\ [r EXCEPT !.status = s, !.progress = p] \in Job(E)
         /\ [r EXCEPT !.status = s, !.progress = p].election = r.election
BY DEF Job

\* Replacing a row by one of the same election keeps the table a table, and
\* keeps the election of every row.
LEMMA ReplaceRow ==
  ASSUME NEW E, NEW js \in Seq(Job(E)), NEW j \in DOMAIN js, NEW row \in Job(E),
         row.election = js[j].election
  PROVE  LET ks == [js EXCEPT ![j] = row]
         IN /\ ks \in Seq(Job(E))
            /\ Len(ks) = Len(js)
            /\ \A i \in DOMAIN js : ks[i].election = js[i].election
OBVIOUS

\* What holds of a jobs table after any statement on an existing row.
SameRows(E, js, ks) ==
  /\ ks \in Seq(Job(E))
  /\ Len(ks) = Len(js)
  /\ \A i \in DOMAIN js : ks[i].election = js[i].election

\* Every statement on one existing row keeps the table a table and keeps the
\* election of every row.
LEMMA JobUpdatesTyped ==
  ASSUME NEW E, NEW js \in Seq(Job(E)), NEW j \in DOMAIN js, NEW p \in 0..100, NEW ref \in Nat
  PROVE  /\ SameRows(E, js, Claim(js, j))
         /\ SameRows(E, js, UpdateProgress(js, j, p))
         /\ SameRows(E, js, MarkError(js, j))
         /\ SameRows(E, js, MarkDone(js, j, ref))
<1>1. /\ js[j] \in Job(E)
      /\ "running" \in JobStatus /\ "done" \in JobStatus /\ "error" \in JobStatus
      /\ 0 \in 0..100 /\ 100 \in 0..100
  BY DEF JobStatus
<1>2. SameRows(E, js, Claim(js, j))
  <2> DEFINE row == [js[j] EXCEPT !.status = "running", !.progress = 0]
  <2>1. row \in Job(E) /\ row.election = js[j].election
    <3>1. row \in Job(E) BY <1>1, StatusProgressTyped
    <3>2. row.election = js[j].election BY <1>1 DEF Job
    <3>3. QED BY <3>1, <3>2
  <2>2. Claim(js, j) = [js EXCEPT ![j] = row] BY DEF Claim
  <2>3. QED BY <2>1, <2>2, ReplaceRow DEF SameRows
<1>3. SameRows(E, js, UpdateProgress(js, j, p))
  <2> DEFINE row == [js[j] EXCEPT !.progress = p]
  <2>1. row \in Job(E) /\ row.election = js[j].election BY <1>1 DEF Job
  <2>2. CASE js[j].status = "running"
    <3>1. UpdateProgress(js, j, p) = [js EXCEPT ![j] = row] BY <2>2 DEF UpdateProgress
    <3>2. QED BY <2>1, <3>1, ReplaceRow DEF SameRows
  <2>3. CASE js[j].status # "running"
    BY <2>3 DEF UpdateProgress, SameRows
  <2>4. QED BY <2>2, <2>3
<1>4. SameRows(E, js, MarkError(js, j))
  <2> DEFINE row == [js[j] EXCEPT !.status = "error"]
  <2>1. row \in Job(E) /\ row.election = js[j].election BY <1>1, StatusTyped
  <2>2. MarkError(js, j) = [js EXCEPT ![j] = row] BY DEF MarkError
  <2>3. QED BY <2>1, <2>2, ReplaceRow DEF SameRows
<1>5. SameRows(E, js, MarkDone(js, j, ref))
  <2> DEFINE row == [js[j] EXCEPT !.status = "done", !.progress = 100, !.result_ref = ref]
  <2>1. row \in Job(E) /\ row.election = js[j].election
    <3>1. row \in Job(E) BY <1>1 DEF Job
    <3>2. row.election = js[j].election BY <1>1 DEF Job
    <3>3. QED BY <3>1, <3>2
  <2>2. MarkDone(js, j, ref) = [js EXCEPT ![j] = row] BY DEF MarkDone
  <2>3. QED BY <2>1, <2>2, ReplaceRow DEF SameRows
<1>6. QED BY <1>2, <1>3, <1>4, <1>5

\* A new row is a row.
LEMMA NewJobTyped ==
  ASSUME NEW E, NEW e \in E
  PROVE  NewJob(e) \in Job(E) /\ NewJob(e).election = e
BY DEF NewJob, Job, JobStatus, NullRef

-----------------------------------------------------------------------------
(* The inductive type invariant.  TypeOK alone is not inductive: a step    *)
(* that publishes a task or applies an answer looks up the job it names,   *)
(* so the job held by the worker, by the runner and by every message must  *)
(* be a row of the table, of the same election.                            *)

Refers(m, js) == m.job \in DOMAIN js /\ m.election = js[m.job].election

WorkerHoldsJob == worker.pc \in {"dispatch", "progress"} => worker.job \in DOMAIN jobs

RunnerHoldsAnswer ==
  runner.pc = "write" => runner.answer \in Answer /\ Refers(runner.answer, jobs)

TasksRefer == \A i \in DOMAIN tasks.log : Refers(tasks.log[i], jobs)

AnswersRefer == \A i \in DOMAIN answers.log : Refers(answers.log[i], jobs)

TypeInv == TypeOK /\ WorkerHoldsJob /\ RunnerHoldsAnswer /\ TasksRefer /\ AnswersRefer

\* The jobs table keeps its rows and may gain some.
JobsGrow(js, ks) ==
  /\ ks \in Seq(Job(Elections))
  /\ Len(js) <= Len(ks)
  /\ \A i \in DOMAIN js : ks[i].election = js[i].election

\* What refers to a job keeps doing so when the table grows.
LEMMA RefersStable ==
  ASSUME NEW js \in Seq(Job(Elections)), NEW ks, JobsGrow(js, ks), NEW m, Refers(m, js)
  PROVE  Refers(m, ks)
BY DEF Refers, JobsGrow

\* A table that does not change counts as one that grows.
LEMMA JobsGrowSame ==
  ASSUME NEW js \in Seq(Job(Elections)) PROVE JobsGrow(js, js)
BY DEF JobsGrow

\* So does a table of which existing rows are updated.
LEMMA JobsGrowUpdate ==
  ASSUME NEW js \in Seq(Job(Elections)), NEW ks, SameRows(Elections, js, ks)
  PROVE  JobsGrow(js, ks)
BY DEF JobsGrow, SameRows

\* A close appends rows for the elections it closes.
LEMMA JobsGrowConcat ==
  ASSUME NEW js \in Seq(Job(Elections)), NEW new \in Seq(Job(Elections))
  PROVE  JobsGrow(js, js \o new)
BY DEF JobsGrow

\* Stamping the newest version of a non-empty list of results keeps it a list
\* of results of the same length.
LEMMA StampLatestTyped ==
  ASSUME NEW rows \in Seq(Result), rows # <<>>
  PROVE  /\ StampLatest(rows) \in Seq(Result)
         /\ Len(StampLatest(rows)) = Len(rows)
         /\ StampLatest(rows) # <<>>
<1>1. Len(rows) \in DOMAIN rows /\ rows[Len(rows)] \in Result OBVIOUS
<1> DEFINE row == [rows[Len(rows)] EXCEPT !.published = TRUE]
<1>2. row \in Result BY <1>1 DEF Result
<1>3. StampLatest(rows) = [rows EXCEPT ![Len(rows)] = row] BY DEF StampLatest
<1>4. QED BY <1>1, <1>2, <1>3

\* The elections closed by one run of the scheduler: how many there are is a
\* number, so their jobs can be listed.
LEMMA NewJobsTyped ==
  ASSUME NEW es \in SUBSET Elections, NEW order \in Orders(es)
  PROVE  /\ [i \in DOMAIN order |-> NewJob(order[i])] \in Seq(Job(Elections))
         /\ \A i \in DOMAIN order : order[i] \in es
<1>1. IsFiniteSet(es) BY ElectionsFinite, FS_Subset
<1>2. Cardinality(es) \in Nat BY <1>1, FS_CardinalityType
<1>3. order \in [1..Cardinality(es) -> es] BY DEF Orders
<1>4. \A i \in DOMAIN order : NewJob(order[i]) \in Job(Elections)
  BY <1>3, NewJobTyped
<1>5. QED BY <1>2, <1>3, <1>4

-----------------------------------------------------------------------------
\* The invariant holds before anything happened.
LEMMA InitTypeInv == Init => TypeInv
<1> SUFFICES ASSUME Init PROVE TypeInv OBVIOUS
<1>1. tasks \in Topic(Task) /\ answers \in Topic(Answer)
  BY EmptyTopicTyped DEF Init
<1>2. TypeOK
  BY <1>1, MaxFaultsAssumption
  DEF Init, TypeOK, ElectionStatus, IdleWorker, FetchingRunner, NoAnswer, NoJob
<1>3. WorkerHoldsJob /\ RunnerHoldsAnswer
  BY DEF Init, WorkerHoldsJob, RunnerHoldsAnswer, IdleWorker, FetchingRunner
<1>4. TasksRefer /\ AnswersRefer
  BY DEF Init, TasksRefer, AnswersRefer, EmptyTopic
<1>5. QED BY <1>2, <1>3, <1>4 DEF TypeInv

\* The actions that neither touch the topics nor the processes keep every
\* reference as long as the jobs table only grows.
LEMMA ReferencesKept ==
  ASSUME TypeInv, JobsGrow(jobs, jobs'), UNCHANGED <<tasks, answers, worker, runner>>
  PROVE  WorkerHoldsJob' /\ RunnerHoldsAnswer' /\ TasksRefer' /\ AnswersRefer'
<1>1. jobs \in Seq(Job(Elections)) BY DEF TypeInv, TypeOK
<1>2. WorkerHoldsJob' BY <1>1 DEF TypeInv, WorkerHoldsJob, JobsGrow
<1>3. RunnerHoldsAnswer' BY <1>1, RefersStable DEF TypeInv, RunnerHoldsAnswer
<1>4. TasksRefer' BY <1>1, RefersStable DEF TypeInv, TasksRefer
<1>5. AnswersRefer' BY <1>1, RefersStable DEF TypeInv, AnswersRefer
<1>6. QED BY <1>2, <1>3, <1>4, <1>5

\* Time and the requests of administrators and voters keep the invariant.
LEMMA ApiTypeInv ==
  ASSUME TypeInv,
         \/ \E e \in Elections, what \in {"end", "publish"} : TimePasses(e, what)
         \/ AdminStep
         \/ VoterStep
  PROVE  TypeInv'
<1> USE DEF apiVars, processVars
<1>1. jobs \in Seq(Job(Elections)) BY DEF TypeInv, TypeOK
<1>2. ASSUME NEW e \in Elections, NEW what \in {"end", "publish"}, TimePasses(e, what)
      PROVE  TypeInv'
  <2>1. TypeOK' BY <1>2 DEF TypeInv, TypeOK, TimePasses
  <2>2. QED BY <1>1, <1>2, <2>1, JobsGrowSame, ReferencesKept DEF TypeInv, TimePasses
<1>3. ASSUME NEW e \in Elections, NEW a \in PlainActions, ChangeStatus(e, a)
      PROVE  TypeInv'
  <2>1. ActionTo[a] \in ElectionStatus BY DEF PlainActions, ActionTo, ElectionStatus
  <2>2. TypeOK' BY <1>3, <2>1 DEF TypeInv, TypeOK, ChangeStatus
  <2>3. QED BY <1>1, <1>3, <2>2, JobsGrowSame, ReferencesKept DEF TypeInv, ChangeStatus
<1>4. ASSUME NEW e \in Elections, Close(e)
      PROVE  TypeInv'
  <2>1. ActionTo["close"] \in ElectionStatus BY DEF ActionTo, ElectionStatus
  <2>2. <<NewJob(e)>> \in Seq(Job(Elections)) BY NewJobTyped
  <2>3. jobs' = jobs \o <<NewJob(e)>> BY <1>1, <1>4, NewJobTyped DEF Close
  <2>4. JobsGrow(jobs, jobs') BY <1>1, <2>2, <2>3, JobsGrowConcat
  <2>5. TypeOK' BY <1>4, <2>1, <2>4 DEF TypeInv, TypeOK, Close, JobsGrow
  <2>6. QED BY <1>4, <2>4, <2>5, ReferencesKept DEF TypeInv, Close
<1>5. ASSUME NEW e \in Elections, Publish(e)
      PROVE  TypeInv'
  <2>1. ActionTo["publish"] \in ElectionStatus BY DEF ActionTo, ElectionStatus
  <2>2. StampLatest(results[e]) \in Seq(Result)
    BY <1>5, StampLatestTyped DEF TypeInv, TypeOK, Publish, CanPublish
  <2>3. TypeOK' BY <1>5, <2>1, <2>2 DEF TypeInv, TypeOK, Publish
  <2>4. QED BY <1>1, <1>5, <2>3, JobsGrowSame, ReferencesKept DEF TypeInv, Publish
<1>6. ASSUME NEW e \in Elections, NEW v \in Voters,
             BeginSubmit(e, v) \/ InsertBallot(e, v) \/ AbandonSubmit(e, v)
      PROVE  TypeInv'
  <2>1. TypeOK'
    BY <1>6 DEF TypeInv, TypeOK, BeginSubmit, InsertBallot, AbandonSubmit
  <2>2. UNCHANGED <<jobs, tasks, answers, worker, runner>>
    BY <1>6 DEF BeginSubmit, InsertBallot, AbandonSubmit
  <2>3. QED BY <1>1, <2>1, <2>2, JobsGrowSame, ReferencesKept DEF TypeInv
<1>7. QED BY <1>2, <1>3, <1>4, <1>5, <1>6 DEF AdminStep, VoterStep

\* The worker's tick keeps the invariant: the task it publishes names a row of
\* the jobs table.
LEMMA TickTypeInv ==
  ASSUME TypeInv, TickStep
  PROVE  TypeInv'
<1> USE DEF apiVars
<1>1. jobs \in Seq(Job(Elections)) BY DEF TypeInv, TypeOK
<1>2. CASE AutoClose
  <2>1. PICK es \in SUBSET {e \in Elections : DueToClose(e)} :
          /\ status' = [e \in Elections |-> IF e \in es THEN "closed" ELSE status[e]]
          /\ inTime' = [e \in Elections |-> IF e \in es THEN ballots[e] ELSE inTime[e]]
          /\ \E order \in Orders(es) :
               jobs' = jobs \o [i \in DOMAIN order |-> NewJob(order[i])]
    BY <1>2 DEF AutoClose
  <2>2. JobsGrow(jobs, jobs')
    <3>1. PICK order \in Orders(es) : jobs' = jobs \o [i \in DOMAIN order |-> NewJob(order[i])]
      BY <2>1
    <3>2. QED BY <1>1, <3>1, NewJobsTyped, JobsGrowConcat
  <2>3. TypeOK'
    BY <1>2, <2>1, <2>2 DEF TypeInv, TypeOK, AutoClose, JobsGrow, ElectionStatus
  <2>4. WorkerHoldsJob' BY <1>2 DEF AutoClose, WorkerHoldsJob, TypeInv, TypeOK
  <2>5. RunnerHoldsAnswer' /\ TasksRefer' /\ AnswersRefer'
    BY <1>1, <1>2, <2>2, RefersStable
    DEF AutoClose, TypeInv, RunnerHoldsAnswer, TasksRefer, AnswersRefer
  <2>6. QED BY <2>3, <2>4, <2>5 DEF TypeInv
<1>3. CASE AutoPublish
  <2>1. PICK es \in SUBSET {e \in Elections : DueToPublish(e)} :
          /\ status' = [e \in Elections |-> IF e \in es THEN "published" ELSE status[e]]
          /\ results' = [e \in Elections |->
                           IF e \in es THEN StampLatest(results[e]) ELSE results[e]]
    BY <1>3 DEF AutoPublish
  <2>2. \A e \in es : StampLatest(results[e]) \in Seq(Result)
    BY StampLatestTyped DEF TypeInv, TypeOK, DueToPublish
  <2>3. TypeOK' BY <1>3, <2>1, <2>2 DEF TypeInv, TypeOK, AutoPublish, ElectionStatus
  <2>4. WorkerHoldsJob' /\ RunnerHoldsAnswer' /\ TasksRefer' /\ AnswersRefer'
    BY <1>3 DEF AutoPublish, TypeInv, TypeOK, WorkerHoldsJob, RunnerHoldsAnswer,
                TasksRefer, AnswersRefer
  <2>5. QED BY <2>3, <2>4 DEF TypeInv
<1>4. CASE ClaimNext
  <2>1. PICK j \in DOMAIN jobs : /\ jobs' = UpdateProgress(Claim(jobs, j), j, 5)
                                 /\ worker' = [pc |-> "dispatch", job |-> j]
    BY <1>4 DEF ClaimNext
  <2>2. SameRows(Elections, jobs, Claim(jobs, j)) BY <1>1, JobUpdatesTyped
  <2>3. Claim(jobs, j) \in Seq(Job(Elections)) /\ j \in DOMAIN Claim(jobs, j)
    BY <1>1, <2>2 DEF SameRows
  <2>4. SameRows(Elections, Claim(jobs, j), jobs')
    BY <2>1, <2>3, JobUpdatesTyped, 5 \in 0..100
  <2>5. SameRows(Elections, jobs, jobs') BY <1>1, <2>2, <2>4 DEF SameRows
  <2>6. JobsGrow(jobs, jobs') BY <1>1, <2>5, JobsGrowUpdate
  <2>7. TypeOK' BY <1>1, <1>4, <2>1, <2>6 DEF TypeInv, TypeOK, ClaimNext, JobsGrow
  <2>8. WorkerHoldsJob' BY <1>1, <2>1, <2>5 DEF WorkerHoldsJob, SameRows
  <2>9. RunnerHoldsAnswer' /\ TasksRefer' /\ AnswersRefer'
    BY <1>1, <1>4, <2>6, RefersStable
    DEF ClaimNext, TypeInv, RunnerHoldsAnswer, TasksRefer, AnswersRefer
  <2>10. QED BY <2>7, <2>8, <2>9 DEF TypeInv
<1>5. CASE ClaimNothing \/ LoadTaskFails
  <2>1. TypeOK'
    BY <1>5, MaxFaultsAssumption
    DEF TypeInv, TypeOK, ClaimNothing, LoadTaskFails, Fault, IdleWorker, NoJob
  <2>2. WorkerHoldsJob' /\ RunnerHoldsAnswer' /\ TasksRefer' /\ AnswersRefer'
    BY <1>5 DEF ClaimNothing, LoadTaskFails, TypeInv, WorkerHoldsJob, RunnerHoldsAnswer,
                TasksRefer, AnswersRefer, IdleWorker
  <2>3. QED BY <2>1, <2>2 DEF TypeInv
<1>6. CASE PublishTask
  <2> DEFINE j == worker.job
             task == [job |-> j, election |-> jobs[j].election]
             started == UpdateProgress(jobs, j, 20)
  <2>1. PICK copies \in 0..2, ok \in BOOLEAN :
          /\ WriteOutcome(copies, ok)
          /\ tasks' = Write(tasks, task, copies)
          /\ jobs' = IF ok THEN started ELSE MarkError(started, j)
          /\ worker' = IF ok THEN [worker EXCEPT !.pc = "progress"] ELSE IdleWorker
    BY <1>6 DEF PublishTask
  <2>2. j \in DOMAIN jobs BY <1>6 DEF PublishTask, TypeInv, WorkerHoldsJob
  <2>3. SameRows(Elections, jobs, started) BY <1>1, <2>2, JobUpdatesTyped, 20 \in 0..100
  <2>4. started \in Seq(Job(Elections)) /\ j \in DOMAIN started
    BY <1>1, <2>2, <2>3 DEF SameRows
  <2>5. SameRows(Elections, started, MarkError(started, j)) BY <2>4, JobUpdatesTyped
  <2>6. SameRows(Elections, jobs, jobs') BY <1>1, <2>1, <2>3, <2>5 DEF SameRows
  <2>7. JobsGrow(jobs, jobs') BY <1>1, <2>6, JobsGrowUpdate
  <2>8. task \in Task /\ Refers(task, jobs)
    <3>1. j \in Nat \ {0} /\ jobs[j] \in Job(Elections) BY <1>1, <2>2
    <3>2. jobs[j].election \in Elections BY <3>1 DEF Job
    <3>3. QED BY <2>2, <3>1, <3>2 DEF Task, Refers
  <2>9. /\ tasks' \in Topic(Task)
        /\ \A i \in DOMAIN tasks'.log : \/ i \in DOMAIN tasks.log /\ tasks'.log[i] = tasks.log[i]
                                        \/ tasks'.log[i] = task
    <3>1. tasks \in Topic(Task) /\ copies \in Nat BY DEF TypeInv, TypeOK
    <3>2. QED BY <2>1, <2>8, <3>1, WriteTyped
  <2>10. faults' \in 0..MaxFaults
    BY <2>1, MaxFaultsAssumption DEF WriteOutcome, NoFault, Fault, TypeInv, TypeOK
  <2>11. TypeOK'
    BY <1>1, <1>6, <2>1, <2>7, <2>9, <2>10
    DEF TypeInv, TypeOK, PublishTask, JobsGrow, IdleWorker, NoJob
  <2>12. WorkerHoldsJob'
    BY <1>1, <2>1, <2>2, <2>6 DEF WorkerHoldsJob, SameRows, IdleWorker, TypeInv, TypeOK
  <2>13. TasksRefer'
    BY <1>1, <2>7, <2>8, <2>9, RefersStable DEF TypeInv, TasksRefer
  <2>14. RunnerHoldsAnswer' /\ AnswersRefer'
    BY <1>1, <1>6, <2>7, RefersStable
    DEF PublishTask, TypeInv, RunnerHoldsAnswer, AnswersRefer
  <2>15. QED BY <2>11, <2>12, <2>13, <2>14 DEF TypeInv
<1>7. CASE EndTick
  <2>1. worker.job \in DOMAIN jobs BY <1>7 DEF EndTick, TypeInv, WorkerHoldsJob
  <2>2. SameRows(Elections, jobs, jobs')
    BY <1>1, <1>7, <2>1, JobUpdatesTyped, 45 \in 0..100 DEF EndTick
  <2>3. JobsGrow(jobs, jobs') BY <1>1, <2>2, JobsGrowUpdate
  <2>4. TypeOK' BY <1>7, <2>3 DEF TypeInv, TypeOK, EndTick, JobsGrow, IdleWorker, NoJob
  <2>5. WorkerHoldsJob' BY <1>7 DEF EndTick, WorkerHoldsJob, IdleWorker
  <2>6. RunnerHoldsAnswer' /\ TasksRefer' /\ AnswersRefer'
    BY <1>1, <1>7, <2>3, RefersStable
    DEF EndTick, TypeInv, RunnerHoldsAnswer, TasksRefer, AnswersRefer
  <2>7. QED BY <2>4, <2>5, <2>6 DEF TypeInv
<1>8. QED BY <1>2, <1>3, <1>4, <1>5, <1>6, <1>7, TickStep DEF TickStep

\* The compute runner keeps the invariant: its answer names the job and the
\* election of the task it fetched.
LEMMA RunnerTypeInv ==
  ASSUME TypeInv, RunnerStep
  PROVE  TypeInv'
<1> USE DEF apiVars
<1>1. CASE ProcessTask
  <2> DEFINE task == NextMessage(tasks)
             counted == ballots[task.election]
  <2>1. tasks \in Topic(Task) /\ HasNext(tasks) BY <1>1 DEF ProcessTask, TypeInv, TypeOK
  <2>2. task \in Task /\ \E i \in DOMAIN tasks.log : task = tasks.log[i]
    BY <2>1, NextMessageTyped
  <2>3. Refers(task, jobs) BY <2>2 DEF TypeInv, TasksRefer
  <2>4. counted \in SUBSET Voters BY <2>2 DEF TypeInv, TypeOK, Task
  <2>5. ErrorAnswer(task) \in Answer /\ DoneAnswer(task, counted) \in Answer
    BY <2>2, <2>4 DEF ErrorAnswer, DoneAnswer, Answer, Task
  <2>6. Refers(ErrorAnswer(task), jobs) /\ Refers(DoneAnswer(task, counted), jobs)
    BY <2>3 DEF Refers, ErrorAnswer, DoneAnswer
  <2>7. \/ runner' = [pc |-> "write", answer |-> ErrorAnswer(task)]
        \/ runner' = [pc |-> "write", answer |-> DoneAnswer(task, counted)]
    BY <1>1 DEF ProcessTask
  <2>8. faults' \in 0..MaxFaults
    BY <1>1, MaxFaultsAssumption DEF ProcessTask, NoFault, Fault, TypeInv, TypeOK
  <2>9. tasks' \in Topic(Task) /\ tasks'.log = tasks.log
    BY <1>1, <2>1, PositionsTyped DEF ProcessTask
  <2>10. TypeOK' BY <1>1, <2>5, <2>7, <2>8, <2>9 DEF TypeInv, TypeOK, ProcessTask
  <2>11. RunnerHoldsAnswer'
    BY <1>1, <2>5, <2>6, <2>7 DEF ProcessTask, RunnerHoldsAnswer, Refers
  <2>12. WorkerHoldsJob' /\ TasksRefer' /\ AnswersRefer'
    BY <1>1, <2>9
    DEF ProcessTask, TypeInv, WorkerHoldsJob, TasksRefer, AnswersRefer, Refers
  <2>13. QED BY <2>10, <2>11, <2>12 DEF TypeInv
<1>2. CASE WriteAnswer
  <2>1. PICK copies \in 0..2, ok \in BOOLEAN :
          /\ WriteOutcome(copies, ok)
          /\ answers' = Write(answers, runner.answer, copies)
          /\ runner' = IF ok THEN [pc |-> "commit", answer |-> NoAnswer] ELSE FetchingRunner
    BY <1>2 DEF WriteAnswer
  <2>2. runner.answer \in Answer /\ Refers(runner.answer, jobs)
    BY <1>2 DEF WriteAnswer, TypeInv, RunnerHoldsAnswer
  <2>3. /\ answers' \in Topic(Answer)
        /\ \A i \in DOMAIN answers'.log :
             \/ i \in DOMAIN answers.log /\ answers'.log[i] = answers.log[i]
             \/ answers'.log[i] = runner.answer
    <3>1. answers \in Topic(Answer) /\ copies \in Nat BY DEF TypeInv, TypeOK
    <3>2. QED BY <2>1, <2>2, <3>1, WriteTyped
  <2>4. faults' \in 0..MaxFaults
    BY <2>1, MaxFaultsAssumption DEF WriteOutcome, NoFault, Fault, TypeInv, TypeOK
  <2>5. TypeOK'
    BY <1>2, <2>1, <2>3, <2>4 DEF TypeInv, TypeOK, WriteAnswer, FetchingRunner
  <2>6. AnswersRefer'
    BY <1>2, <2>2, <2>3 DEF WriteAnswer, TypeInv, AnswersRefer, Refers
  <2>7. RunnerHoldsAnswer' BY <2>1 DEF RunnerHoldsAnswer, FetchingRunner
  <2>8. WorkerHoldsJob' /\ TasksRefer'
    BY <1>2 DEF WriteAnswer, TypeInv, WorkerHoldsJob, TasksRefer, Refers
  <2>9. QED BY <2>5, <2>6, <2>7, <2>8 DEF TypeInv
<1>3. CASE CommitTask
  <2>1. tasks \in Topic(Task) BY DEF TypeInv, TypeOK
  <2>2. tasks' \in Topic(Task) /\ tasks'.log = tasks.log
    BY <1>3, <2>1, PositionsTyped DEF CommitTask
  <2>3. faults' \in 0..MaxFaults
    BY <1>3, MaxFaultsAssumption DEF CommitTask, NoFault, Fault, TypeInv, TypeOK
  <2>4. TypeOK' BY <1>3, <2>2, <2>3 DEF TypeInv, TypeOK, CommitTask, FetchingRunner
  <2>5. RunnerHoldsAnswer' BY <1>3 DEF CommitTask, RunnerHoldsAnswer, FetchingRunner
  <2>6. WorkerHoldsJob' /\ TasksRefer' /\ AnswersRefer'
    BY <1>3, <2>2
    DEF CommitTask, TypeInv, WorkerHoldsJob, TasksRefer, AnswersRefer, Refers
  <2>7. QED BY <2>4, <2>5, <2>6 DEF TypeInv
<1>4. QED BY <1>1, <1>2, <1>3 DEF RunnerStep

\* A message the consumer fetches names a row of the jobs table.
LEMMA FetchedAnswer ==
  ASSUME TypeInv, HasNext(answers)
  PROVE  LET m == NextMessage(answers)
         IN /\ m \in Answer /\ Refers(m, jobs)
            /\ \E i \in DOMAIN answers.log : m = answers.log[i]
<1>1. answers \in Topic(Answer) BY DEF TypeInv, TypeOK
<1>2. QED BY <1>1, NextMessageTyped DEF TypeInv, AnswersRefer

\* What the consumer skips and what it fetches are offsets of its topic.
LEMMA SkippedTyped ==
  ASSUME TypeInv
  PROVE  /\ answers.pos \in Nat
         /\ consumer.skipped \in SUBSET Nat
         /\ [pc |-> "commit", skipped |-> consumer.skipped \ {answers.pos}]
              \in [pc : {"fetch", "commit"}, skipped : SUBSET Nat]
         /\ [consumer EXCEPT !.skipped = @ \cup {answers.pos}]
              \in [pc : {"fetch", "commit"}, skipped : SUBSET Nat]
BY DEF TypeInv, TypeOK, Topic

\* Applying answers keeps the invariant: an answer updates an existing job.
LEMMA ConsumerTypeInv ==
  ASSUME TypeInv, ConsumerStep
  PROVE  TypeInv'
<1> USE DEF apiVars
<1> DEFINE m == NextMessage(answers)
<1>1. jobs \in Seq(Job(Elections)) /\ answers \in Topic(Answer) BY DEF TypeInv, TypeOK
<1>2. ASSUME SameRows(Elections, jobs, jobs'), UNCHANGED <<tasks, worker, runner>>,
             answers'.log = answers.log
      PROVE  WorkerHoldsJob' /\ RunnerHoldsAnswer' /\ TasksRefer' /\ AnswersRefer'
  <2>1. JobsGrow(jobs, jobs') BY <1>1, <1>2, JobsGrowUpdate
  <2>2. WorkerHoldsJob' BY <1>1, <1>2 DEF TypeInv, WorkerHoldsJob, SameRows
  <2>3. RunnerHoldsAnswer' BY <1>1, <1>2, <2>1, RefersStable DEF TypeInv, RunnerHoldsAnswer
  <2>4. TasksRefer' BY <1>1, <1>2, <2>1, RefersStable DEF TypeInv, TasksRefer
  <2>5. AnswersRefer' BY <1>1, <1>2, <2>1, RefersStable DEF TypeInv, AnswersRefer
  <2>6. QED BY <2>2, <2>3, <2>4, <2>5
<1>3. CASE ApplyError
  <2>1. m \in Answer /\ Refers(m, jobs) BY <1>3, FetchedAnswer DEF ApplyError
  <2>2. SameRows(Elections, jobs, jobs')
    BY <1>1, <1>3, <2>1, JobUpdatesTyped, 0 \in 0..100 DEF ApplyError, Refers
  <2>3. answers' \in Topic(Answer) /\ answers'.log = answers.log
    BY <1>1, <1>3, PositionsTyped DEF ApplyError
  <2>4. TypeOK'
    BY <1>3, <2>2, <2>3, SkippedTyped DEF TypeInv, TypeOK, ApplyError, SameRows
  <2>5. UNCHANGED <<tasks, worker, runner>> BY <1>3 DEF ApplyError
  <2>6. QED BY <1>2, <2>2, <2>3, <2>4, <2>5 DEF TypeInv
<1>4. CASE ApplyDone
  <2>1. m \in Answer /\ Refers(m, jobs) BY <1>4, FetchedAnswer DEF ApplyDone
  <2>2. m.election \in Elections /\ results[m.election] \in Seq(Result)
    BY <2>1 DEF Answer, TypeInv, TypeOK
  <2>3. SameRows(Elections, jobs, jobs')
    <3>1. m.job \in DOMAIN jobs /\ Len(results[m.election]) + 1 \in Nat
      BY <2>1, <2>2 DEF Refers
    <3>2. jobs' = MarkDone(jobs, m.job, Len(results[m.election]) + 1)
      BY <1>4 DEF ApplyDone
    <3>3. QED BY <1>1, <3>1, <3>2, JobUpdatesTyped, 0 \in 0..100
  <2>4. answers' \in Topic(Answer) /\ answers'.log = answers.log
    BY <1>1, <1>4, PositionsTyped DEF ApplyDone
  <2>5. NewResult(m.counted) \in Result BY <2>1 DEF NewResult, Result, Answer
  <2>6. results' \in [Elections -> Seq(Result)]
    <3>1. Append(results[m.election], NewResult(m.counted)) \in Seq(Result) BY <2>2, <2>5
    <3>2. QED BY <1>4, <3>1 DEF ApplyDone, TypeInv, TypeOK
  <2>7. status' \in [Elections -> ElectionStatus]
    BY <1>4 DEF ApplyDone, TypeInv, TypeOK, AfterApply, ElectionStatus
  <2>8. TypeOK'
    BY <1>4, <2>3, <2>4, <2>6, <2>7, SkippedTyped DEF TypeInv, TypeOK, ApplyDone, SameRows
  <2>9. UNCHANGED <<tasks, worker, runner>> BY <1>4 DEF ApplyDone
  <2>10. QED BY <1>2, <2>3, <2>4, <2>8, <2>9 DEF TypeInv
<1>5. CASE ApplyFails
  <2>1. m \in Answer /\ Refers(m, jobs) BY <1>5, FetchedAnswer DEF ApplyFails
  <2>2. SameRows(Elections, jobs, UpdateProgress(jobs, m.job, 70))
    BY <1>1, <2>1, JobUpdatesTyped, 0 \in Nat, 70 \in 0..100 DEF Refers
  <2>3. SameRows(Elections, jobs, jobs')
    BY <1>1, <1>5, <2>2 DEF ApplyFails, SameRows
  <2>4. answers' \in Topic(Answer) /\ answers'.log = answers.log
    BY <1>1, <1>5, PositionsTyped DEF ApplyFails
  <2>5. faults' \in 0..MaxFaults
    BY <1>5, MaxFaultsAssumption DEF ApplyFails, NoFault, Fault, TypeInv, TypeOK
  <2>6. TypeOK'
    BY <1>5, <2>3, <2>4, <2>5, SkippedTyped DEF TypeInv, TypeOK, ApplyFails, SameRows
  <2>7. UNCHANGED <<tasks, worker, runner>> BY <1>5 DEF ApplyFails
  <2>8. QED BY <1>2, <2>3, <2>4, <2>6, <2>7 DEF TypeInv
<1>6. CASE CommitAnswer
  <2>1. answers' \in Topic(Answer) /\ answers'.log = answers.log
    BY <1>1, <1>6, PositionsTyped DEF CommitAnswer
  <2>2. SameRows(Elections, jobs, jobs') BY <1>1, <1>6 DEF CommitAnswer, SameRows
  <2>3. TypeOK' BY <1>6, <2>1 DEF TypeInv, TypeOK, CommitAnswer
  <2>4. UNCHANGED <<tasks, worker, runner>> BY <1>6 DEF CommitAnswer
  <2>5. QED BY <1>2, <2>1, <2>2, <2>3, <2>4 DEF TypeInv
<1>7. QED BY <1>3, <1>4, <1>5, <1>6 DEF ConsumerStep

\* Crashes keep the invariant: the logs survive them, and what a process held
\* is dropped.
LEMMA CrashTypeInv ==
  ASSUME TypeInv, Crash
  PROVE  TypeInv'
<1> USE DEF apiVars
<1>1. ASSUME NEW kind, RestartWorker(kind) PROVE TypeInv'
  <2>1. answers \in Topic(Answer) BY DEF TypeInv, TypeOK
  <2>2. answers' \in Topic(Answer) /\ answers'.log = answers.log
    BY <1>1, <2>1, PositionsTyped DEF RestartWorker
  <2>3. faults' \in 0..MaxFaults
    BY <1>1, MaxFaultsAssumption DEF RestartWorker, Fault, TypeInv, TypeOK
  <2>4. TypeOK'
    BY <1>1, <2>2, <2>3 DEF TypeInv, TypeOK, RestartWorker, IdleWorker, NoJob
  <2>5. WorkerHoldsJob' BY <1>1 DEF RestartWorker, WorkerHoldsJob, IdleWorker
  <2>6. RunnerHoldsAnswer' /\ TasksRefer' /\ AnswersRefer'
    BY <1>1, <2>2
    DEF RestartWorker, TypeInv, RunnerHoldsAnswer, TasksRefer, AnswersRefer, Refers
  <2>7. QED BY <2>4, <2>5, <2>6 DEF TypeInv
<1>2. CASE RunnerCrash
  <2>1. tasks \in Topic(Task) BY DEF TypeInv, TypeOK
  <2>2. tasks' \in Topic(Task) /\ tasks'.log = tasks.log
    BY <1>2, <2>1, PositionsTyped DEF RunnerCrash
  <2>3. faults' \in 0..MaxFaults
    BY <1>2, MaxFaultsAssumption DEF RunnerCrash, Fault, TypeInv, TypeOK
  <2>4. TypeOK' BY <1>2, <2>2, <2>3 DEF TypeInv, TypeOK, RunnerCrash, FetchingRunner
  <2>5. RunnerHoldsAnswer' BY <1>2 DEF RunnerCrash, RunnerHoldsAnswer, FetchingRunner
  <2>6. WorkerHoldsJob' /\ TasksRefer' /\ AnswersRefer'
    BY <1>2, <2>2
    DEF RunnerCrash, TypeInv, WorkerHoldsJob, TasksRefer, AnswersRefer, Refers
  <2>7. QED BY <2>4, <2>5, <2>6 DEF TypeInv
<1>3. QED BY <1>1, <1>2 DEF Crash, WorkerCrash, CommitAnswerFails

\* Every step keeps the invariant.
LEMMA NextTypeInv == TypeInv /\ [Next]_vars => TypeInv'
<1> SUFFICES ASSUME TypeInv, [Next]_vars PROVE TypeInv' OBVIOUS
<1>1. CASE Next
  BY <1>1, ApiTypeInv, TickTypeInv, RunnerTypeInv, ConsumerTypeInv, CrashTypeInv DEF Next
<1>2. CASE UNCHANGED vars
  BY <1>2
  DEF vars, TypeInv, TypeOK, WorkerHoldsJob, RunnerHoldsAnswer, TasksRefer, AnswersRefer,
      Refers
<1>3. QED BY <1>1, <1>2

\* The inductive invariant holds in every behaviour: besides the types, every
\* job a process or a message names is a row of the jobs table and belongs to
\* the election named next to it.
THEOREM TypeInvariant == Spec => []TypeInv
<1>1. QED BY InitTypeInv, NextTypeInv, PTL DEF Spec

\* Every variable keeps its type, for every instance.
THEOREM TypeCorrect == Spec => []TypeOK
<1>1. TypeInv => TypeOK BY DEF TypeInv
<1>2. QED BY <1>1, TypeInvariant, PTL

-----------------------------------------------------------------------------
(* Results and publication.  ResultsIffReady is not inductive either: an   *)
(* answer must not reach an election that is still open, which holds       *)
(* because a job, and so a message, exists only for elections that closed. *)

JobsOfClosed == \A j \in DOMAIN jobs : status[jobs[j].election] \in PostClose

ResultsInv == TypeInv /\ JobsOfClosed /\ ResultsIffReady /\ PublishedIffStamped

\* The steps that touch neither a status nor a result, and add no job.
QuietStep ==
  \/ \E e \in Elections, what \in {"end", "publish"} : TimePasses(e, what)
  \/ VoterStep
  \/ ClaimNext \/ ClaimNothing \/ PublishTask \/ LoadTaskFails \/ EndTick
  \/ RunnerStep
  \/ ApplyError \/ ApplyFails \/ CommitAnswer
  \/ Crash

\* A quiet step leaves statuses, results and the elections of the jobs alone.
LEMMA QuietStepKeeps ==
  ASSUME TypeInv, QuietStep
  PROVE  UNCHANGED <<status, results>> /\ SameRows(Elections, jobs, jobs')
<1>1. jobs \in Seq(Job(Elections)) BY DEF TypeInv, TypeOK
<1>2. ASSUME UNCHANGED jobs PROVE SameRows(Elections, jobs, jobs')
  BY <1>1, <1>2 DEF SameRows
<1>3. ASSUME NEW e \in Elections, NEW what, TimePasses(e, what)
      PROVE  UNCHANGED <<status, results, jobs>>
  BY <1>3 DEF TimePasses
<1>4. CASE VoterStep
  BY <1>2, <1>4 DEF VoterStep, BeginSubmit, InsertBallot, AbandonSubmit
<1>5. CASE ClaimNext
  <2>1. PICK j \in DOMAIN jobs : jobs' = UpdateProgress(Claim(jobs, j), j, 5)
    BY <1>5 DEF ClaimNext
  <2>2. SameRows(Elections, jobs, Claim(jobs, j))
    BY <1>1, JobUpdatesTyped, 0 \in 0..100, 0 \in Nat
  <2>3. Claim(jobs, j) \in Seq(Job(Elections)) /\ j \in DOMAIN Claim(jobs, j)
    BY <1>1, <2>2 DEF SameRows
  <2>4. SameRows(Elections, Claim(jobs, j), jobs')
    BY <2>1, <2>3, JobUpdatesTyped, 5 \in 0..100, 0 \in Nat
  <2>5. SameRows(Elections, jobs, jobs') BY <1>1, <2>2, <2>4 DEF SameRows
  <2>6. QED BY <1>5, <2>5 DEF ClaimNext
<1>6. CASE ClaimNothing \/ LoadTaskFails
  BY <1>2, <1>6 DEF ClaimNothing, LoadTaskFails
<1>7. CASE PublishTask
  <2> DEFINE j == worker.job
             started == UpdateProgress(jobs, j, 20)
  <2>1. jobs' = started \/ jobs' = MarkError(started, j) BY <1>7 DEF PublishTask
  <2>2. j \in DOMAIN jobs BY <1>7 DEF PublishTask, TypeInv, WorkerHoldsJob
  <2>3. SameRows(Elections, jobs, started)
    BY <1>1, <2>2, JobUpdatesTyped, 20 \in 0..100, 0 \in Nat
  <2>4. started \in Seq(Job(Elections)) /\ j \in DOMAIN started
    BY <1>1, <2>2, <2>3 DEF SameRows
  <2>5. SameRows(Elections, started, MarkError(started, j))
    BY <2>4, JobUpdatesTyped, 0 \in 0..100, 0 \in Nat
  <2>6. SameRows(Elections, jobs, jobs') BY <1>1, <2>1, <2>3, <2>5 DEF SameRows
  <2>7. QED BY <1>7, <2>6 DEF PublishTask
<1>8. CASE EndTick
  <2>1. worker.job \in DOMAIN jobs BY <1>8 DEF EndTick, TypeInv, WorkerHoldsJob
  <2>2. SameRows(Elections, jobs, jobs')
    BY <1>1, <1>8, <2>1, JobUpdatesTyped, 45 \in 0..100, 0 \in Nat DEF EndTick
  <2>3. QED BY <1>8, <2>2 DEF EndTick
<1>9. CASE RunnerStep \/ CommitAnswer \/ Crash
  BY <1>2, <1>9
  DEF RunnerStep, ProcessTask, WriteAnswer, CommitTask, CommitAnswer, Crash, WorkerCrash,
      CommitAnswerFails, RestartWorker, RunnerCrash
<1>10. CASE ApplyError \/ ApplyFails
  <2> DEFINE j == NextMessage(answers).job
  <2>1. j \in DOMAIN jobs BY <1>10, FetchedAnswer DEF ApplyError, ApplyFails, Refers
  <2>2. /\ SameRows(Elections, jobs, MarkError(jobs, j))
        /\ SameRows(Elections, jobs, UpdateProgress(jobs, j, 70))
    BY <1>1, <2>1, JobUpdatesTyped, 70 \in 0..100, 0 \in Nat
  <2>3. SameRows(Elections, jobs, jobs') /\ UNCHANGED <<status, results>>
    BY <1>2, <1>10, <2>2 DEF ApplyError, ApplyFails
  <2>4. QED BY <2>3
<1>11. QED
  BY <1>2, <1>3, <1>4, <1>5, <1>6, <1>7, <1>8, <1>9, <1>10 DEF QuietStep

\* Every step is quiet or one of those that move an election on.
LEMMA StepKinds ==
  ASSUME Next
  PROVE  \/ QuietStep
         \/ \E e \in Elections, a \in PlainActions : ChangeStatus(e, a)
         \/ \E e \in Elections : Close(e) \/ Publish(e)
         \/ AutoClose \/ AutoPublish \/ ApplyDone
BY DEF Next, AdminStep, TickStep, ConsumerStep, QuietStep

\* Stamping a list of results publishes its last one and leaves the others.
LEMMA StampLatestFlags ==
  ASSUME NEW rows \in Seq(Result), rows # <<>>
  PROVE  LET stamped == StampLatest(rows)
         IN /\ stamped # <<>> /\ DOMAIN stamped = DOMAIN rows
            /\ Len(rows) \in DOMAIN rows
            /\ \A i \in DOMAIN rows :
                 stamped[i].published <=> i = Len(rows) \/ rows[i].published
<1>1. Len(rows) \in DOMAIN rows /\ rows[Len(rows)] \in Result OBVIOUS
<1> DEFINE row == [rows[Len(rows)] EXCEPT !.published = TRUE]
<1>2. row \in Result /\ row.published = TRUE BY <1>1 DEF Result
<1>3. StampLatest(rows) = [rows EXCEPT ![Len(rows)] = row] BY DEF StampLatest
<1>4. QED BY <1>1, <1>2, <1>3

\* An answer reaches only elections that have closed.
LEMMA AnswerOfClosed ==
  ASSUME TypeInv, JobsOfClosed, HasNext(answers)
  PROVE  LET m == NextMessage(answers)
         IN m.election \in Elections /\ status[m.election] \in PostClose
<1> DEFINE m == NextMessage(answers)
<1>1. m \in Answer /\ Refers(m, jobs) BY FetchedAnswer
<1>2. QED BY <1>1 DEF Answer, Refers, JobsOfClosed

\* The invariant on results holds before anything happened.
LEMMA InitResultsInv == Init => ResultsInv
<1> SUFFICES ASSUME Init PROVE ResultsInv OBVIOUS
<1>1. JobsOfClosed BY DEF Init, JobsOfClosed
<1>2. ResultsIffReady /\ PublishedIffStamped BY DEF Init, ResultsIffReady, PublishedIffStamped
<1>3. QED BY <1>1, <1>2, InitTypeInv DEF ResultsInv

\* Every step keeps it.
LEMMA NextResultsInv == ResultsInv /\ [Next]_vars => ResultsInv'
<1> SUFFICES ASSUME ResultsInv, [Next]_vars PROVE ResultsInv' OBVIOUS
<1> USE DEF PostClose
<1>1. TypeInv' BY NextTypeInv DEF ResultsInv
<1>2. /\ jobs \in Seq(Job(Elections))
      /\ status \in [Elections -> ElectionStatus]
      /\ results \in [Elections -> Seq(Result)]
      /\ \A j \in DOMAIN jobs : jobs[j].election \in Elections
  <2>1. /\ jobs \in Seq(Job(Elections))
        /\ status \in [Elections -> ElectionStatus]
        /\ results \in [Elections -> Seq(Result)]
    BY DEF ResultsInv, TypeInv, TypeOK
  <2>2. ASSUME NEW j \in DOMAIN jobs PROVE jobs[j].election \in Elections
    <3>1. jobs[j] \in Job(Elections) BY <2>1
    <3>2. QED BY <3>1 DEF Job
  <2>3. QED BY <2>1, <2>2
<1>3. CASE QuietStep \/ UNCHANGED vars
  <2>1. UNCHANGED <<status, results>> /\ SameRows(Elections, jobs, jobs')
    <3>1. CASE QuietStep BY <3>1, QuietStepKeeps DEF ResultsInv
    <3>2. CASE UNCHANGED vars BY <1>2, <3>2 DEF vars, SameRows
    <3>3. QED BY <1>3, <3>1, <3>2
  <2>2. JobsOfClosed'
    <3>1. DOMAIN jobs' = DOMAIN jobs BY <1>2, <2>1 DEF SameRows
    <3>2. ASSUME NEW j \in DOMAIN jobs PROVE status'[jobs'[j].election] \in PostClose
      <4>1. status[jobs[j].election] \in PostClose BY DEF ResultsInv, JobsOfClosed
      <4>2. jobs'[j].election = jobs[j].election BY <2>1 DEF SameRows
      <4>3. QED BY <2>1, <4>1, <4>2
    <3>3. QED BY <3>1, <3>2 DEF JobsOfClosed
  <2>3. ResultsIffReady' /\ PublishedIffStamped'
    BY <2>1 DEF ResultsInv, ResultsIffReady, PublishedIffStamped
  <2>4. QED BY <1>1, <2>2, <2>3 DEF ResultsInv
<1>4. ASSUME NEW e \in Elections, NEW a \in PlainActions, ChangeStatus(e, a)
      PROVE  ResultsInv'
  <2>1. /\ status[e] \in {"draft", "scheduled", "active", "paused"}
        /\ status' = [status EXCEPT ![e] = ActionTo[a]]
        /\ ActionTo[a] \in {"draft", "scheduled", "active", "paused"}
        /\ UNCHANGED <<results, jobs>>
    BY <1>4 DEF ChangeStatus, PlainActions, ActionFrom, ActionTo
  <2>2. JobsOfClosed' BY <1>2, <2>1 DEF ResultsInv, JobsOfClosed
  <2>3. ResultsIffReady' BY <1>2, <2>1 DEF ResultsInv, ResultsIffReady
  <2>4. PublishedIffStamped' BY <1>2, <2>1 DEF ResultsInv, PublishedIffStamped
  <2>5. QED BY <1>1, <2>2, <2>3, <2>4 DEF ResultsInv
<1>5. ASSUME NEW e \in Elections, Close(e)
      PROVE  ResultsInv'
  <2>1. /\ status[e] \in {"active", "paused"}
        /\ status' = [status EXCEPT ![e] = "closed"]
        /\ jobs' = Append(jobs, NewJob(e))
        /\ UNCHANGED results
    BY <1>5 DEF Close, ActionFrom, ActionTo
  <2>2. NewJob(e).election = e BY NewJobTyped
  <2>3. JobsOfClosed' BY <1>2, <2>1, <2>2 DEF ResultsInv, JobsOfClosed
  <2>4. ResultsIffReady' BY <1>2, <2>1 DEF ResultsInv, ResultsIffReady
  <2>5. PublishedIffStamped' BY <1>2, <2>1 DEF ResultsInv, PublishedIffStamped
  <2>6. QED BY <1>1, <2>3, <2>4, <2>5 DEF ResultsInv
<1>6. ASSUME NEW e \in Elections, Publish(e)
      PROVE  ResultsInv'
  <2>1. /\ status[e] \in {"closed", "results_ready"} /\ results[e] # <<>>
        /\ status' = [status EXCEPT ![e] = "published"]
        /\ results' = [results EXCEPT ![e] = StampLatest(results[e])]
        /\ UNCHANGED jobs
    BY <1>6 DEF Publish, CanPublish, ActionFrom, ActionTo
  <2>2. /\ results'[e] # <<>>
        /\ \E i \in DOMAIN results'[e] : results'[e][i].published
    BY <1>2, <2>1, StampLatestFlags
  <2>3. JobsOfClosed' BY <1>2, <2>1 DEF ResultsInv, JobsOfClosed
  <2>4. ResultsIffReady' BY <1>2, <2>1, <2>2 DEF ResultsInv, ResultsIffReady
  <2>5. PublishedIffStamped' BY <1>2, <2>1, <2>2 DEF ResultsInv, PublishedIffStamped
  <2>6. QED BY <1>1, <2>3, <2>4, <2>5 DEF ResultsInv
<1>7. CASE AutoClose
  <2>0. PICK es \in SUBSET {e \in Elections : DueToClose(e)} :
          /\ status' = [e \in Elections |-> IF e \in es THEN "closed" ELSE status[e]]
          /\ \E order \in Orders(es) :
               jobs' = jobs \o [i \in DOMAIN order |-> NewJob(order[i])]
    BY <1>7 DEF AutoClose
  <2>1. PICK order \in Orders(es) : jobs' = jobs \o [i \in DOMAIN order |-> NewJob(order[i])]
    BY <2>0
  <2>2. /\ status' = [e \in Elections |-> IF e \in es THEN "closed" ELSE status[e]]
        /\ UNCHANGED results
        /\ \A e \in es : status[e] \in {"active", "paused"}
        /\ es \in SUBSET Elections
    BY <1>7, <2>0 DEF AutoClose, DueToClose
  <2> DEFINE new == [i \in DOMAIN order |-> NewJob(order[i])]
  <2>3. new \in Seq(Job(Elections)) /\ \A i \in DOMAIN new : new[i].election \in es
    <3>1. new \in Seq(Job(Elections)) /\ \A i \in DOMAIN order : order[i] \in es
      BY NewJobsTyped
    <3>2. \A i \in DOMAIN new : new[i].election = order[i] BY <3>1, NewJobTyped
    <3>3. QED BY <3>1, <3>2
  <2>4. \A j \in DOMAIN jobs' : \/ j \in DOMAIN jobs /\ jobs'[j] = jobs[j]
                                \/ jobs'[j].election \in es
    BY <1>2, <2>1, <2>3
  <2>5. JobsOfClosed' BY <1>2, <2>2, <2>4 DEF ResultsInv, JobsOfClosed
  <2>6. ResultsIffReady' BY <1>2, <2>2 DEF ResultsInv, ResultsIffReady
  <2>7. PublishedIffStamped' BY <1>2, <2>2 DEF ResultsInv, PublishedIffStamped
  <2>8. QED BY <1>1, <2>5, <2>6, <2>7 DEF ResultsInv
<1>8. CASE AutoPublish
  <2>0. PICK es \in SUBSET {e \in Elections : DueToPublish(e)} :
          /\ status' = [e \in Elections |-> IF e \in es THEN "published" ELSE status[e]]
          /\ results' = [e \in Elections |->
                           IF e \in es THEN StampLatest(results[e]) ELSE results[e]]
    BY <1>8 DEF AutoPublish
  <2>1. /\ status' = [e \in Elections |-> IF e \in es THEN "published" ELSE status[e]]
        /\ results' = [e \in Elections |->
                         IF e \in es THEN StampLatest(results[e]) ELSE results[e]]
        /\ UNCHANGED jobs
        /\ \A e \in es : e \in Elections /\ status[e] = "results_ready" /\ results[e] # <<>>
    BY <1>8, <2>0 DEF AutoPublish, DueToPublish
  <2>2. \A e \in es : /\ results'[e] # <<>>
                      /\ \E i \in DOMAIN results'[e] : results'[e][i].published
    <3>1. TAKE e \in es
    <3>2. results'[e] = StampLatest(results[e]) BY <2>1
    <3>3. results[e] \in Seq(Result) /\ results[e] # <<>> BY <1>2, <2>1
    <3>4. QED BY <3>2, <3>3, StampLatestFlags
  <2>3. JobsOfClosed' BY <1>2, <2>1 DEF ResultsInv, JobsOfClosed
  <2>4. ResultsIffReady' BY <1>2, <2>1, <2>2 DEF ResultsInv, ResultsIffReady
  <2>5. PublishedIffStamped' BY <1>2, <2>1, <2>2 DEF ResultsInv, PublishedIffStamped
  <2>6. QED BY <1>1, <2>3, <2>4, <2>5 DEF ResultsInv
<1>9. CASE ApplyDone
  <2> DEFINE m == NextMessage(answers)
             e == m.election
             row == NewResult(m.counted)
  <2>1. m \in Answer /\ Refers(m, jobs) BY <1>9, FetchedAnswer DEF ResultsInv, ApplyDone
  <2>2. e \in Elections /\ status[e] \in PostClose
    BY <1>9, AnswerOfClosed DEF ResultsInv, ApplyDone
  <2>3. /\ results' = [results EXCEPT ![e] = Append(results[e], row)]
        /\ status' = [status EXCEPT ![e] = AfterApply(status[e])]
        /\ jobs' = MarkDone(jobs, m.job, Len(results[e]) + 1)
    BY <1>9, <2>2 DEF ApplyDone
  <2>4. SameRows(Elections, jobs, jobs')
    <3>1. m.job \in DOMAIN jobs /\ Len(results[e]) + 1 \in Nat BY <1>2, <2>1, <2>2 DEF Refers
    <3>2. QED BY <1>2, <2>3, <3>1, JobUpdatesTyped, 0 \in 0..100
  <2>5. row \in Result /\ row.published = FALSE BY <2>1 DEF NewResult, Result, Answer
  <2>6. /\ AfterApply(status[e]) \in {"results_ready", "published"}
        /\ AfterApply(status[e]) = "published" <=> status[e] = "published"
    BY <2>2 DEF AfterApply
  <2>7. /\ results'[e] # <<>>
        /\ (\E i \in DOMAIN results'[e] : results'[e][i].published)
             <=> \E i \in DOMAIN results[e] : results[e][i].published
    <3>1. results[e] \in Seq(Result) /\ results'[e] = Append(results[e], row)
      BY <1>2, <2>2, <2>3
    <3>2. /\ DOMAIN results'[e] = DOMAIN results[e] \cup {Len(results[e]) + 1}
          /\ Len(results[e]) + 1 \notin DOMAIN results[e]
          /\ results'[e][Len(results[e]) + 1] = row
          /\ \A i \in DOMAIN results[e] : results'[e][i] = results[e][i]
      BY <2>5, <3>1
    <3>3. QED BY <2>5, <3>2
  <2>8. JobsOfClosed'
    <3>1. \A f \in Elections : status[f] \in PostClose => status'[f] \in PostClose
      BY <1>2, <2>2, <2>3, <2>6
    <3>2. /\ DOMAIN jobs' = DOMAIN jobs
          /\ \A j \in DOMAIN jobs : jobs'[j].election = jobs[j].election
      BY <1>2, <2>4 DEF SameRows
    <3>3. \A j \in DOMAIN jobs : status[jobs[j].election] \in PostClose
      BY DEF ResultsInv, JobsOfClosed
    <3>4. \A j \in DOMAIN jobs' : status'[jobs'[j].election] \in PostClose
      BY <1>2, <3>1, <3>2, <3>3
    <3>5. QED BY <3>4 DEF JobsOfClosed
  <2>9. ResultsIffReady' BY <1>2, <2>2, <2>3, <2>6, <2>7 DEF ResultsInv, ResultsIffReady
  <2>10. PublishedIffStamped'
    BY <1>2, <2>2, <2>3, <2>6, <2>7 DEF ResultsInv, PublishedIffStamped
  <2>11. QED BY <1>1, <2>8, <2>9, <2>10 DEF ResultsInv
<1>10. QED BY <1>3, <1>4, <1>5, <1>6, <1>7, <1>8, <1>9, StepKinds

\* The strengthened invariant holds in every behaviour: results, their
\* publication and tally jobs agree with the statuses of their elections.
THEOREM ResultsInvariant == Spec => []ResultsInv
<1>1. QED BY InitResultsInv, NextResultsInv, PTL DEF Spec

\* An election has a result exactly while its status says so, for every number
\* of elections, voters and failures: no tally result reaches an open election
\* and no publication goes without one.
THEOREM ResultsIffReadyHolds == Spec => []ResultsIffReady
<1>1. ResultsInv => ResultsIffReady BY DEF ResultsInv
<1>2. QED BY <1>1, ResultsInvariant, PTL

\* A result is stamped exactly when its election is published, whoever
\* publishes it and however often its tally is answered.
THEOREM PublishedIffStampedHolds == Spec => []PublishedIffStamped
<1>1. ResultsInv => PublishedIffStamped BY DEF ResultsInv
<1>2. QED BY <1>1, ResultsInvariant, PTL

-----------------------------------------------------------------------------
(* The pipeline implements the abstract lifecycle.                         *)

\* Stamping the newest result adds its version to the stamped ones.
LEMMA StampedByPublication ==
  ASSUME TypeInv, NEW e \in Elections, results[e] # <<>>,
         results'[e] = StampLatest(results[e])
  PROVE  /\ Versions[e] > 0 /\ Versions'[e] = Versions[e]
         /\ Stamped'[e] = Stamped[e] \cup {Versions[e]}
<1>1. results[e] \in Seq(Result) BY DEF TypeInv, TypeOK
<1>2. /\ Versions[e] = Len(results[e]) /\ Versions'[e] = Len(results'[e])
      /\ Stamped[e] = {i \in DOMAIN results[e] : results[e][i].published}
      /\ Stamped'[e] = {i \in DOMAIN results'[e] : results'[e][i].published}
  BY DEF Versions, Stamped
<1>3. /\ Len(results[e]) \in DOMAIN results[e]
      /\ DOMAIN results'[e] = DOMAIN results[e]
      /\ \A i \in DOMAIN results[e] :
           results'[e][i].published <=> i = Len(results[e]) \/ results[e][i].published
  BY <1>1, StampLatestFlags
<1>4. Len(results[e]) > 0 /\ Len(results'[e]) = Len(results[e])
  BY <1>1, StampLatestTyped
<1>5. Stamped'[e] = Stamped[e] \cup {Versions[e]} BY <1>2, <1>3
<1>6. QED BY <1>2, <1>4, <1>5

\* Storing a result adds a version that is not stamped.
LEMMA StoredUnstamped ==
  ASSUME TypeInv, NEW e \in Elections, NEW counted \in SUBSET Voters,
         results'[e] = Append(results[e], NewResult(counted))
  PROVE  Versions'[e] = Versions[e] + 1 /\ Stamped'[e] = Stamped[e]
<1> DEFINE row == NewResult(counted)
           n == Len(results[e])
<1>1. results[e] \in Seq(Result) BY DEF TypeInv, TypeOK
<1>2. /\ Versions[e] = n /\ Versions'[e] = Len(results'[e])
      /\ Stamped[e] = {i \in DOMAIN results[e] : results[e][i].published}
      /\ Stamped'[e] = {i \in DOMAIN results'[e] : results'[e][i].published}
  BY DEF Versions, Stamped
<1>3. row \in Result /\ row.published = FALSE BY DEF NewResult, Result
<1>4. /\ Len(results'[e]) = n + 1
      /\ DOMAIN results'[e] = DOMAIN results[e] \cup {n + 1}
      /\ results'[e][n + 1] = row
      /\ \A i \in DOMAIN results[e] : results'[e][i] = results[e][i]
  BY <1>1, <1>3
<1>5. Stamped'[e] = Stamped[e] BY <1>2, <1>3, <1>4
<1>6. QED BY <1>2, <1>4, <1>5

\* An election whose results do not change looks the same to the lifecycle.
LEMMA LifecycleViewSame ==
  /\ UNCHANGED results => UNCHANGED <<Versions, Stamped>>
  /\ \A e \in Elections :
       results'[e] = results[e] => Versions'[e] = Versions[e] /\ Stamped'[e] = Stamped[e]
  /\ Versions = [e \in Elections |-> Versions[e]] /\ Stamped = [e \in Elections |-> Stamped[e]]
  /\ Versions' = [e \in Elections |-> Versions'[e]]
  /\ Stamped' = [e \in Elections |-> Stamped'[e]]
BY DEF Versions, Stamped

\* Publication of some elections, as the lifecycle sees it.
LEMMA PublishesSome ==
  ASSUME TypeInv, NEW es \in SUBSET Elections,
         \A e \in es : status[e] = "results_ready" /\ results[e] # <<>>,
         status' = [e \in Elections |-> IF e \in es THEN "published" ELSE status[e]],
         results' = [e \in Elections |->
                       IF e \in es THEN StampLatest(results[e]) ELSE results[e]]
  PROVE  Lifecycle!PublishSome(es)
<1>1. \A e \in es : /\ Versions[e] > 0 /\ Versions'[e] = Versions[e]
                    /\ Stamped'[e] = Stamped[e] \cup {Versions[e]}
  <2>1. TAKE e \in es
  <2>2. results'[e] = StampLatest(results[e]) OBVIOUS
  <2>3. QED BY <2>2, StampedByPublication
<1>2. \A e \in Elections :
        e \notin es => Versions'[e] = Versions[e] /\ Stamped'[e] = Stamped[e]
  BY LifecycleViewSame
<1>3. Versions' = Versions BY <1>1, <1>2, LifecycleViewSame
<1>4. Stamped' = [e \in Elections |->
                    IF e \in es THEN Stamped[e] \cup {Versions[e]} ELSE Stamped[e]]
  BY <1>1, <1>2, LifecycleViewSame
<1>5. QED BY <1>1, <1>3, <1>4 DEF Lifecycle!PublishSome

\* The lifecycle starts where the pipeline starts.
LEMMA InitLifecycle == Init => Lifecycle!LifecycleInit
BY DEF Init, Lifecycle!LifecycleInit, Versions, Stamped

\* Every step of the pipeline is a step of the lifecycle or changes nothing the
\* lifecycle sees.
LEMMA NextLifecycle ==
  ResultsInv /\ [Next]_vars => [Lifecycle!LifecycleNext]_(Lifecycle!lifecycleVars)
<1> SUFFICES ASSUME ResultsInv, [Next]_vars
             PROVE  Lifecycle!LifecycleNext \/ UNCHANGED Lifecycle!lifecycleVars
  OBVIOUS
<1> USE DEF ActionFrom, ActionTo, PlainActions, PostClose, Lifecycle!ActionFrom,
            Lifecycle!ActionTo, Lifecycle!PlainActions, Lifecycle!PostClose
<1>1. /\ TypeInv
      /\ status \in [Elections -> ElectionStatus]
      /\ results \in [Elections -> Seq(Result)]
  BY DEF ResultsInv, TypeInv, TypeOK
<1>2. CASE QuietStep \/ UNCHANGED vars
  <2>1. UNCHANGED <<status, results>> BY <1>1, <1>2, QuietStepKeeps DEF vars
  <2>2. QED BY <2>1, LifecycleViewSame DEF Lifecycle!lifecycleVars
<1>3. ASSUME NEW e \in Elections, NEW a \in PlainActions, ChangeStatus(e, a)
      PROVE  Lifecycle!LifecycleNext
  <2>1. Lifecycle!Move(e, a)
    BY <1>3, LifecycleViewSame DEF ChangeStatus, Lifecycle!Move
  <2>2. QED BY <2>1 DEF Lifecycle!LifecycleNext
<1>4. ASSUME NEW e \in Elections, Close(e)
      PROVE  Lifecycle!LifecycleNext
  <2>1. /\ status' = [f \in Elections |-> IF f \in {e} THEN "closed" ELSE status[f]]
        /\ status[e] \in ActionFrom["close"]
        /\ UNCHANGED results
    BY <1>1, <1>4 DEF Close, ActionTo
  <2>2. Lifecycle!CloseSome({e}) BY <2>1, LifecycleViewSame DEF Lifecycle!CloseSome
  <2>3. QED BY <2>2 DEF Lifecycle!LifecycleNext
<1>5. ASSUME NEW e \in Elections, Publish(e)
      PROVE  Lifecycle!LifecycleNext
  <2>1. /\ status' = [f \in Elections |-> IF f \in {e} THEN "published" ELSE status[f]]
        /\ results[e] # <<>>
        /\ results' = [f \in Elections |->
                         IF f \in {e} THEN StampLatest(results[f]) ELSE results[f]]
    BY <1>1, <1>5 DEF Publish, CanPublish, ActionTo
  <2>2. status[e] = "results_ready"
    BY <1>5, <2>1 DEF Publish, CanPublish, ActionFrom, ResultsInv, ResultsIffReady
  <2>3. Lifecycle!PublishSome({e}) BY <1>1, <2>1, <2>2, PublishesSome
  <2>4. QED BY <2>3 DEF Lifecycle!LifecycleNext
<1>6. CASE AutoClose
  <2>1. PICK es \in SUBSET {e \in Elections : DueToClose(e)} :
          /\ status' = [e \in Elections |-> IF e \in es THEN "closed" ELSE status[e]]
          /\ UNCHANGED results
    BY <1>6 DEF AutoClose
  <2>2. \A e \in es : status[e] \in ActionFrom["close"] BY DEF DueToClose
  <2>3. es \in SUBSET Elections /\ Lifecycle!CloseSome(es)
    BY <2>1, <2>2, LifecycleViewSame DEF Lifecycle!CloseSome
  <2>4. QED BY <2>3 DEF Lifecycle!LifecycleNext
<1>7. CASE AutoPublish
  <2>1. PICK es \in SUBSET {e \in Elections : DueToPublish(e)} :
          /\ status' = [e \in Elections |-> IF e \in es THEN "published" ELSE status[e]]
          /\ results' = [e \in Elections |->
                           IF e \in es THEN StampLatest(results[e]) ELSE results[e]]
    BY <1>7 DEF AutoPublish
  <2>2. \A e \in es : status[e] = "results_ready" /\ results[e] # <<>>
    BY DEF DueToPublish
  <2>3. es \in SUBSET Elections OBVIOUS
  <2>4. Lifecycle!PublishSome(es) BY <1>1, <2>1, <2>2, <2>3, PublishesSome
  <2>5. QED BY <2>3, <2>4 DEF Lifecycle!LifecycleNext
<1>8. CASE ApplyDone
  <2> DEFINE m == NextMessage(answers)
             e == m.election
  <2>1. m.counted \in SUBSET Voters BY <1>1, <1>8, FetchedAnswer DEF ApplyDone, Answer
  <2>2. e \in Elections /\ status[e] \in PostClose
    BY <1>8, AnswerOfClosed DEF ResultsInv, ApplyDone
  <2>3. /\ results' = [results EXCEPT ![e] = Append(results[e], NewResult(m.counted))]
        /\ status' = [status EXCEPT ![e] = IF status[e] = "closed" THEN "results_ready"
                                           ELSE status[e]]
    BY <1>8, <2>2 DEF ApplyDone, AfterApply
  <2>4. Versions'[e] = Versions[e] + 1 /\ Stamped'[e] = Stamped[e]
    BY <1>1, <2>1, <2>2, <2>3, StoredUnstamped
  <2>5. \A f \in Elections :
          f # e => Versions'[f] = Versions[f] /\ Stamped'[f] = Stamped[f]
    BY <1>1, <2>3, LifecycleViewSame
  <2>6. Versions' = [Versions EXCEPT ![e] = @ + 1] BY <2>4, <2>5, LifecycleViewSame
  <2>7. Stamped' = Stamped BY <2>4, <2>5, LifecycleViewSame
  <2>8. Lifecycle!StoreResult(e) BY <2>2, <2>3, <2>6, <2>7 DEF Lifecycle!StoreResult
  <2>9. QED BY <2>2, <2>8 DEF Lifecycle!LifecycleNext
<1>9. QED BY <1>2, <1>3, <1>4, <1>5, <1>6, <1>7, <1>8, StepKinds

\* The pipeline implements the lifecycle: whatever is delivered twice, late or
\* not at all, versions are only added, stamps are never taken back, and a
\* status only moves the way the lifecycle allows.
THEOREM PipelineImplementsLifecycle == Spec => ImplementsLifecycle
<1>1. QED
  BY InitLifecycle, NextLifecycle, ResultsInvariant, PTL
  DEF Spec, ImplementsLifecycle, Lifecycle!LifecycleSpec

-----------------------------------------------------------------------------
(***************************************************************************)
(* The tally of an election: how many jobs it has, what they point at, and *)
(* which ballots its results count.                                        *)
(***************************************************************************)

(* What a statement that stores no result does to the jobs table: it keeps *)
(* the references, finishes no row as done and reopens none.               *)

Ended(row) == row.status \in {"done", "error"}

QuietRow(old, new) ==
  /\ new.election = old.election
  /\ new.result_ref = old.result_ref
  /\ new.status = "done" => old.status = "done" /\ new.progress = old.progress
  /\ Ended(old) => Ended(new)

QuietRows(js, ks) ==
  /\ ks \in Seq(Job(Elections))
  /\ Len(ks) = Len(js)
  /\ \A i \in DOMAIN js : QuietRow(js[i], ks[i])

\* A table that stays the same is a quiet one.
LEMMA QuietRowsSame ==
  ASSUME NEW js \in Seq(Job(Elections)) PROVE QuietRows(js, js)
BY DEF QuietRows, QuietRow

\* Two quiet statements make a quiet one.
LEMMA QuietRowsCompose ==
  ASSUME NEW js \in Seq(Job(Elections)), NEW ks, NEW ls,
         QuietRows(js, ks), QuietRows(ks, ls)
  PROVE  QuietRows(js, ls)
<1>1. ls \in Seq(Job(Elections)) /\ Len(ls) = Len(js) /\ DOMAIN ks = DOMAIN js
  BY DEF QuietRows
<1>2. ASSUME NEW i \in DOMAIN js PROVE QuietRow(js[i], ls[i])
  <2>1. QuietRow(js[i], ks[i]) /\ QuietRow(ks[i], ls[i]) BY <1>1 DEF QuietRows
  <2>2. QED BY <2>1 DEF QuietRow
<1>3. QED BY <1>1, <1>2 DEF QuietRows

\* Replacing one row quietly is quiet.
LEMMA QuietReplace ==
  ASSUME NEW js \in Seq(Job(Elections)), NEW j \in DOMAIN js, NEW row \in Job(Elections),
         QuietRow(js[j], row)
  PROVE  QuietRows(js, [js EXCEPT ![j] = row])
BY DEF QuietRows, QuietRow

\* Claiming a queued row, updating progress and marking an error are quiet.
LEMMA QuietStatements ==
  ASSUME NEW js \in Seq(Job(Elections)), NEW j \in DOMAIN js, NEW p \in 0..100
  PROVE  /\ js[j].status = "queued" => QuietRows(js, Claim(js, j))
         /\ QuietRows(js, UpdateProgress(js, j, p))
         /\ QuietRows(js, MarkError(js, j))
<1>0. "running" \in JobStatus /\ "error" \in JobStatus /\ 0 \in 0..100 BY DEF JobStatus
<1>1. js[j] \in Job(Elections) OBVIOUS
<1>2. ASSUME js[j].status = "queued" PROVE QuietRows(js, Claim(js, j))
  <2> DEFINE row == [js[j] EXCEPT !.status = "running", !.progress = 0]
  <2>1. row \in Job(Elections) BY <1>0, <1>1, StatusProgressTyped
  <2>2. QuietRow(js[j], row) BY <1>1, <1>2 DEF QuietRow, Ended, Job
  <2>3. Claim(js, j) = [js EXCEPT ![j] = row] BY DEF Claim
  <2> HIDE DEF row
  <2>4. QED BY <2>1, <2>2, <2>3, QuietReplace
<1>3. QuietRows(js, UpdateProgress(js, j, p))
  <2> DEFINE row == [js[j] EXCEPT !.progress = p]
  <2>1. CASE js[j].status = "running"
    <3>1. row \in Job(Elections) /\ QuietRow(js[j], row)
      BY <1>1, <2>1 DEF QuietRow, Ended, Job
    <3>2. UpdateProgress(js, j, p) = [js EXCEPT ![j] = row] BY <2>1 DEF UpdateProgress
    <3>3. QED BY <3>1, <3>2, QuietReplace
  <2>2. CASE js[j].status # "running"
    BY <2>2, QuietRowsSame DEF UpdateProgress
  <2>3. QED BY <2>1, <2>2
<1>4. QuietRows(js, MarkError(js, j))
  <2> DEFINE row == [js[j] EXCEPT !.status = "error"]
  <2>1. row \in Job(Elections) BY <1>0, <1>1, StatusTyped
  <2>2. QuietRow(js[j], row) BY <1>1 DEF QuietRow, Ended, Job
  <2>3. MarkError(js, j) = [js EXCEPT ![j] = row] BY DEF MarkError
  <2> HIDE DEF row
  <2>4. QED BY <2>1, <2>2, <2>3, QuietReplace
<1>5. QED BY <1>2, <1>3, <1>4

\* What a result does to the jobs table: its own row ends done with a reference
\* to it, and every other row stays as it is.
LEMMA MarkDoneRows ==
  ASSUME NEW js \in Seq(Job(Elections)), NEW j \in DOMAIN js, NEW ref \in Nat
  PROVE  LET ks == MarkDone(js, j, ref)
         IN /\ ks \in Seq(Job(Elections))
            /\ Len(ks) = Len(js)
            /\ \A i \in DOMAIN js \ {j} : ks[i] = js[i]
            /\ /\ ks[j].election = js[j].election /\ ks[j].status = "done"
               /\ ks[j].progress = 100 /\ ks[j].result_ref = ref
<1> DEFINE row == [js[j] EXCEPT !.status = "done", !.progress = 100, !.result_ref = ref]
<1>1. js[j] \in Job(Elections) /\ "done" \in JobStatus /\ 100 \in 0..100 BY DEF JobStatus
<1>2. row \in Job(Elections) BY <1>1 DEF Job
<1>3. /\ row.election = js[j].election /\ row.status = "done"
      /\ row.progress = 100 /\ row.result_ref = ref
  BY <1>1 DEF Job
<1>4. MarkDone(js, j, ref) = [js EXCEPT ![j] = row] BY DEF MarkDone
<1> DEFINE ks == [js EXCEPT ![j] = row]
<1>5. /\ ks \in Seq(Job(Elections)) /\ Len(ks) = Len(js) /\ ks[j] = row
      /\ \A i \in DOMAIN js \ {j} : ks[i] = js[i]
  BY <1>2
<1>6. QED BY <1>3, <1>4, <1>5

\* Every quiet step treats the jobs table quietly.
LEMMA QuietStepRows ==
  ASSUME TypeInv, QuietStep
  PROVE  QuietRows(jobs, jobs')
<1>1. jobs \in Seq(Job(Elections)) BY DEF TypeInv, TypeOK
<1>2. ASSUME UNCHANGED jobs PROVE QuietRows(jobs, jobs')
  BY <1>1, <1>2, QuietRowsSame
<1>3. CASE \E e \in Elections, what \in {"end", "publish"} : TimePasses(e, what)
  BY <1>2, <1>3 DEF TimePasses
<1>4. CASE VoterStep
  BY <1>2, <1>4 DEF VoterStep, BeginSubmit, InsertBallot, AbandonSubmit
<1>5. CASE ClaimNext
  <2>1. PICK j \in DOMAIN jobs : /\ jobs[j].status = "queued"
                                 /\ jobs' = UpdateProgress(Claim(jobs, j), j, 5)
    BY <1>5 DEF ClaimNext, OldestQueued
  <2>2. QuietRows(jobs, Claim(jobs, j)) BY <1>1, <2>1, QuietStatements, 0 \in 0..100
  <2>3. Claim(jobs, j) \in Seq(Job(Elections)) /\ j \in DOMAIN Claim(jobs, j)
    BY <1>1, <2>2 DEF QuietRows
  <2>4. QuietRows(Claim(jobs, j), jobs') BY <2>1, <2>3, QuietStatements, 5 \in 0..100
  <2>5. QED BY <1>1, <2>2, <2>4, QuietRowsCompose
<1>6. CASE ClaimNothing \/ LoadTaskFails
  BY <1>2, <1>6 DEF ClaimNothing, LoadTaskFails
<1>7. CASE PublishTask
  <2> DEFINE j == worker.job
             started == UpdateProgress(jobs, j, 20)
  <2>1. jobs' = started \/ jobs' = MarkError(started, j) BY <1>7 DEF PublishTask
  <2>2. j \in DOMAIN jobs BY <1>7 DEF PublishTask, TypeInv, WorkerHoldsJob
  <2>3. QuietRows(jobs, started) BY <1>1, <2>2, QuietStatements, 20 \in 0..100
  <2>4. started \in Seq(Job(Elections)) /\ j \in DOMAIN started
    BY <1>1, <2>2, <2>3 DEF QuietRows
  <2>5. QuietRows(started, MarkError(started, j)) BY <2>4, QuietStatements, 0 \in 0..100
  <2>6. QuietRows(jobs, MarkError(started, j))
    BY <1>1, <2>3, <2>5, QuietRowsCompose
  <2>7. QED BY <2>1, <2>3, <2>6
<1>8. CASE EndTick
  <2>1. worker.job \in DOMAIN jobs BY <1>8 DEF EndTick, TypeInv, WorkerHoldsJob
  <2>2. QED BY <1>1, <1>8, <2>1, QuietStatements, 45 \in 0..100 DEF EndTick
<1>9. CASE RunnerStep \/ CommitAnswer \/ Crash
  BY <1>2, <1>9
  DEF RunnerStep, ProcessTask, WriteAnswer, CommitTask, CommitAnswer, Crash, WorkerCrash,
      CommitAnswerFails, RestartWorker, RunnerCrash
<1>10. CASE ApplyError \/ ApplyFails
  <2> DEFINE j == NextMessage(answers).job
  <2>1. j \in DOMAIN jobs BY <1>10, FetchedAnswer DEF ApplyError, ApplyFails, Refers
  <2>2. QuietRows(jobs, MarkError(jobs, j)) /\ QuietRows(jobs, UpdateProgress(jobs, j, 70))
    BY <1>1, <2>1, QuietStatements, 70 \in 0..100
  <2>3. QED BY <1>2, <1>10, <2>2 DEF ApplyError, ApplyFails
<1>11. QED
  BY <1>3, <1>4, <1>5, <1>6, <1>7, <1>8, <1>9, <1>10 DEF QuietStep

-----------------------------------------------------------------------------
(* One tally job per election.  Counting rows is not inductive; that no    *)
(* two rows are of the same election, and that each election closed so far *)
(* has a row, is.                                                          *)

OneJob == \A i, j \in DOMAIN jobs : jobs[i].election = jobs[j].election => i = j

ClosedHasJob ==
  \A e \in Elections :
    status[e] \in PostClose => \E j \in DOMAIN jobs : jobs[j].election = e

TallyInv == ResultsInv /\ OneJob /\ ClosedHasJob /\ JobRefersToNewestResult

\* The scheduler lists each election it closes exactly once.
LEMMA OrdersListOnce ==
  ASSUME NEW es \in SUBSET Elections, NEW order \in Orders(es)
  PROVE  /\ \A e \in es : \E i \in DOMAIN order : order[i] = e
         /\ \A i, k \in DOMAIN order : order[i] = order[k] => i = k
         /\ \E n \in Nat : DOMAIN order = 1..n
         /\ \A i \in DOMAIN order : order[i] \in es
<1> DEFINE n == Cardinality(es)
<1>1. IsFiniteSet(es) BY ElectionsFinite, FS_Subset
<1>2. n \in Nat BY <1>1, FS_CardinalityType
<1>3. /\ order \in [1..n -> es]
      /\ \A e \in es : \E i \in DOMAIN order : order[i] = e
  BY DEF Orders
<1>4. order \in Surjection(1..n, es) BY <1>3 DEF Surjection
<1>5. IsFiniteSet(1..n) /\ Cardinality(1..n) = n
  <2>1. IsFiniteSet(1..n) /\ Cardinality(1..n) = IF 1 > n THEN 0 ELSE n - 1 + 1
    BY <1>2, FS_Interval
  <2>2. QED BY <1>2, <2>1
<1>6. order \in Injection(1..n, es) BY <1>4, <1>5, FS_Surjection
<1>7. \A i, k \in DOMAIN order : order[i] = order[k] => i = k
  BY <1>6 DEF Injection, IsInjective
<1>8. QED BY <1>2, <1>3, <1>7

\* The rows a close of some elections adds: one for each of them, none of any
\* other, and none that refers to a result.
OneRowEach(es, new) ==
  /\ new \in Seq(Job(Elections))
  /\ \A i \in DOMAIN new : /\ new[i].election \in es
                           /\ new[i].status = "queued" /\ new[i].result_ref = NullRef
  /\ \A e \in es : \E i \in DOMAIN new : new[i].election = e
  /\ \A i, k \in DOMAIN new : new[i].election = new[k].election => i = k

\* The rows of one run of the scheduler are one for each election it closes.
LEMMA ClosedJobsOnce ==
  ASSUME NEW es \in SUBSET Elections, NEW order \in Orders(es)
  PROVE  OneRowEach(es, [i \in DOMAIN order |-> NewJob(order[i])])
<1> DEFINE new == [i \in DOMAIN order |-> NewJob(order[i])]
<1>1. new \in Seq(Job(Elections)) BY NewJobsTyped
<1>2. \A i \in DOMAIN order : /\ new[i].election = order[i]
                              /\ new[i].status = "queued" /\ new[i].result_ref = NullRef
  BY DEF NewJob
<1>3. QED BY <1>1, <1>2, OrdersListOnce DEF OneRowEach

\* Before anything happened there is neither a job nor a closed election.
LEMMA InitTallyInv == Init => TallyInv
<1> SUFFICES ASSUME Init PROVE TallyInv OBVIOUS
<1>1. OneJob /\ ClosedHasJob /\ JobRefersToNewestResult
  BY DEF Init, OneJob, ClosedHasJob, JobRefersToNewestResult, PostClose
<1>2. QED BY <1>1, InitResultsInv DEF TallyInv

\* Closing some open elections, each with one new job, keeps the invariant.
LEMMA CloseTallyInv ==
  ASSUME TallyInv, ResultsInv', NEW es \in SUBSET Elections, NEW new,
         \A e \in es : status[e] \in {"active", "paused"},
         status' = [e \in Elections |-> IF e \in es THEN "closed" ELSE status[e]],
         UNCHANGED results,
         OneRowEach(es, new), jobs' = jobs \o new
  PROVE  TallyInv'
<1> USE DEF OneRowEach
<1>1. /\ jobs \in Seq(Job(Elections)) /\ results \in [Elections -> Seq(Result)]
      /\ status \in [Elections -> ElectionStatus]
  BY DEF TallyInv, ResultsInv, TypeInv, TypeOK
<1>2. /\ \A j \in DOMAIN jobs : jobs[j].election \in Elections \ es
      /\ \A e \in es : results[e] = <<>>
  <2>1. \A j \in DOMAIN jobs : jobs[j] \in Job(Elections) BY <1>1
  <2>2. \A j \in DOMAIN jobs : jobs[j].election \in Elections BY <2>1 DEF Job
  <2>3. QED BY <2>2 DEF TallyInv, ResultsInv, JobsOfClosed, ResultsIffReady, PostClose
<1> DEFINE n == Len(jobs)
<1>3. /\ n \in Nat /\ DOMAIN jobs = 1..n /\ DOMAIN new = 1..Len(new) /\ Len(new) \in Nat
      /\ DOMAIN jobs' = 1..(n + Len(new))
      /\ \A j \in 1..n : jobs'[j] = jobs[j]
      /\ \A j \in DOMAIN jobs' : j \notin 1..n => j - n \in DOMAIN new /\ jobs'[j] = new[j - n]
      /\ \A i \in DOMAIN new : i + n \in DOMAIN jobs' /\ jobs'[i + n] = new[i]
  BY <1>1
<1>4. OneJob'
  <2>1. ASSUME NEW i \in DOMAIN jobs', NEW k \in DOMAIN jobs',
               jobs'[i].election = jobs'[k].election
        PROVE  i = k
    <3>1. CASE i \in 1..n /\ k \in 1..n BY <1>3, <2>1, <3>1 DEF TallyInv, OneJob
    <3>2. CASE i \notin 1..n /\ k \notin 1..n
      <4>1. i - n = k - n BY <1>3, <2>1, <3>2
      <4>2. QED BY <1>3, <4>1
    <3>3. CASE i \in 1..n /\ k \notin 1..n BY <1>2, <1>3, <2>1, <3>3
    <3>4. CASE i \notin 1..n /\ k \in 1..n BY <1>2, <1>3, <2>1, <3>4
    <3>5. QED BY <3>1, <3>2, <3>3, <3>4
  <2>2. QED BY <2>1 DEF OneJob
<1>5. ClosedHasJob'
  <2>1. ASSUME NEW e \in Elections, status'[e] \in PostClose
        PROVE  \E j \in DOMAIN jobs' : jobs'[j].election = e
    <3>1. CASE e \in es
      <4>1. PICK i \in DOMAIN new : new[i].election = e BY <3>1
      <4>2. QED BY <1>3, <4>1
    <3>2. CASE e \notin es
      <4>1. status[e] \in PostClose BY <2>1, <3>2
      <4>2. PICK j \in DOMAIN jobs : jobs[j].election = e
        BY <4>1 DEF TallyInv, ClosedHasJob
      <4>3. QED BY <1>3, <4>2
    <3>3. QED BY <3>1, <3>2
  <2>2. QED BY <2>1 DEF ClosedHasJob
<1>6. JobRefersToNewestResult'
  <2>1. ASSUME NEW j \in DOMAIN jobs'
        PROVE  /\ jobs'[j].result_ref = Len(results'[jobs'[j].election])
               /\ jobs'[j].status = "done" =>
                    jobs'[j].result_ref # NullRef /\ jobs'[j].progress = 100
    <3>1. CASE j \in 1..n BY <1>3, <3>1 DEF TallyInv, JobRefersToNewestResult
    <3>2. CASE j \notin 1..n
      <4>1. /\ jobs'[j].election \in es
            /\ jobs'[j].status = "queued" /\ jobs'[j].result_ref = NullRef
        BY <1>3, <3>2
      <4>2. Len(results'[jobs'[j].election]) = 0 BY <1>2, <4>1
      <4>3. QED BY <4>1, <4>2 DEF NullRef
    <3>3. QED BY <3>1, <3>2
  <2>2. QED BY <2>1 DEF JobRefersToNewestResult
<1>7. QED BY <1>4, <1>5, <1>6 DEF TallyInv

\* Steps that leave every election closed or open and its number of results
\* alone, and treat the jobs quietly, keep the invariant.
LEMMA QuietTallyInv ==
  ASSUME TallyInv, ResultsInv', QuietRows(jobs, jobs'),
         \A e \in Elections : /\ status'[e] \in PostClose <=> status[e] \in PostClose
                              /\ Len(results'[e]) = Len(results[e])
  PROVE  TallyInv'
<1>1. jobs \in Seq(Job(Elections)) BY DEF TallyInv, ResultsInv, TypeInv, TypeOK
<1>2. DOMAIN jobs' = DOMAIN jobs /\ \A j \in DOMAIN jobs : QuietRow(jobs[j], jobs'[j])
  BY <1>1 DEF QuietRows
<1>3. OneJob' BY <1>2 DEF TallyInv, OneJob, QuietRow
<1>4. ClosedHasJob' BY <1>2 DEF TallyInv, ClosedHasJob, QuietRow
<1>5. JobRefersToNewestResult'
  <2>1. ASSUME NEW j \in DOMAIN jobs
        PROVE  /\ jobs'[j].result_ref = Len(results'[jobs'[j].election])
               /\ jobs'[j].status = "done" =>
                    jobs'[j].result_ref # NullRef /\ jobs'[j].progress = 100
    <3>1. jobs[j] \in Job(Elections) BY <1>1
    <3>2. jobs[j].election \in Elections BY <3>1 DEF Job
    <3>3. QuietRow(jobs[j], jobs'[j]) BY <1>2
    <3>4. /\ jobs[j].result_ref = Len(results[jobs[j].election])
          /\ jobs[j].status = "done" =>
               jobs[j].result_ref # NullRef /\ jobs[j].progress = 100
      BY DEF TallyInv, JobRefersToNewestResult
    <3>5. QED BY <3>2, <3>3, <3>4 DEF QuietRow
  <2>2. QED BY <1>2, <2>1 DEF JobRefersToNewestResult
<1>6. QED BY <1>3, <1>4, <1>5 DEF TallyInv

\* Applying a tally keeps the invariant: the job of the answer is the only one
\* of its election, so no other job is left behind by the new version.
LEMMA ApplyTallyInv ==
  ASSUME TallyInv, ResultsInv', ApplyDone
  PROVE  TallyInv'
<1> DEFINE m == NextMessage(answers)
           e == m.election
           ref == Len(results[e]) + 1
<1>1. /\ TypeInv /\ JobsOfClosed
      /\ jobs \in Seq(Job(Elections)) /\ results \in [Elections -> Seq(Result)]
      /\ status \in [Elections -> ElectionStatus]
  BY DEF TallyInv, ResultsInv, TypeInv, TypeOK
<1>2. m \in Answer /\ Refers(m, jobs) BY <1>1, FetchedAnswer DEF ApplyDone
<1>3. e \in Elections /\ status[e] \in PostClose BY <1>1, AnswerOfClosed DEF ApplyDone
<1>4. m.job \in DOMAIN jobs /\ jobs[m.job].election = e /\ ref \in Nat \ {0}
  BY <1>1, <1>2, <1>3 DEF Refers
<1>5. /\ results' = [results EXCEPT ![e] = Append(results[e], NewResult(m.counted))]
      /\ status' = [status EXCEPT ![e] = AfterApply(status[e])]
      /\ jobs' = MarkDone(jobs, m.job, ref)
  BY <1>3 DEF ApplyDone
<1>6. /\ DOMAIN jobs' = DOMAIN jobs
      /\ \A i \in DOMAIN jobs \ {m.job} : jobs'[i] = jobs[i]
      /\ jobs'[m.job].election = e /\ jobs'[m.job].status = "done"
      /\ jobs'[m.job].progress = 100 /\ jobs'[m.job].result_ref = ref
  <2>1. ref \in Nat BY <1>4
  <2>2. /\ jobs' \in Seq(Job(Elections)) /\ Len(jobs') = Len(jobs)
        /\ \A i \in DOMAIN jobs \ {m.job} : jobs'[i] = jobs[i]
        /\ jobs'[m.job].election = jobs[m.job].election /\ jobs'[m.job].status = "done"
        /\ jobs'[m.job].progress = 100 /\ jobs'[m.job].result_ref = ref
    BY <1>1, <1>4, <1>5, <2>1, MarkDoneRows
  <2>3. QED BY <1>1, <1>4, <2>2
<1>7. /\ Len(results'[e]) = ref
      /\ \A f \in Elections \ {e} : results'[f] = results[f]
  <2>1. results[e] \in Seq(Result) BY <1>1, <1>3
  <2>2. Len(Append(results[e], NewResult(m.counted))) = ref BY <2>1
  <2>3. QED BY <1>1, <1>3, <1>5, <2>2
<1>8. \A f \in Elections : status'[f] \in PostClose <=> status[f] \in PostClose
  BY <1>1, <1>3, <1>5 DEF AfterApply, PostClose
<1>9. \A j \in DOMAIN jobs : jobs'[j].election = jobs[j].election
  BY <1>4, <1>6
<1>10. OneJob' BY <1>6, <1>9 DEF TallyInv, OneJob
<1>11. ClosedHasJob' BY <1>6, <1>8, <1>9 DEF TallyInv, ClosedHasJob
<1>12. JobRefersToNewestResult'
  <2>1. ASSUME NEW j \in DOMAIN jobs
        PROVE  /\ jobs'[j].result_ref = Len(results'[jobs'[j].election])
               /\ jobs'[j].status = "done" =>
                    jobs'[j].result_ref # NullRef /\ jobs'[j].progress = 100
    <3>1. CASE j = m.job BY <1>4, <1>6, <1>7, <3>1 DEF NullRef
    <3>2. CASE j # m.job
      <4>1. jobs[j].election # e BY <1>4, <3>2 DEF TallyInv, OneJob
      <4>2. jobs[j] \in Job(Elections) BY <1>1
      <4>3. jobs[j].election \in Elections \ {e} BY <4>1, <4>2 DEF Job
      <4>4. QED BY <1>6, <1>7, <3>2, <4>3 DEF TallyInv, JobRefersToNewestResult
    <3>3. QED BY <3>1, <3>2
  <2>2. QED BY <1>6, <2>1 DEF JobRefersToNewestResult
<1>13. QED BY <1>10, <1>11, <1>12 DEF TallyInv

\* Every step keeps it.
LEMMA NextTallyInv == TallyInv /\ [Next]_vars => TallyInv'
<1> SUFFICES ASSUME TallyInv, [Next]_vars PROVE TallyInv' OBVIOUS
<1>1. ResultsInv' BY NextResultsInv DEF TallyInv
<1>2. /\ TypeInv
      /\ jobs \in Seq(Job(Elections)) /\ results \in [Elections -> Seq(Result)]
      /\ status \in [Elections -> ElectionStatus]
  BY DEF TallyInv, ResultsInv, TypeInv, TypeOK
<1>3. CASE QuietStep \/ UNCHANGED vars
  <2>1. UNCHANGED <<status, results>> BY <1>2, <1>3, QuietStepKeeps DEF vars
  <2>2. QuietRows(jobs, jobs') BY <1>2, <1>3, QuietStepRows, QuietRowsSame DEF vars
  <2>3. QED BY <1>1, <2>1, <2>2, QuietTallyInv
<1>4. ASSUME NEW e \in Elections, NEW a \in PlainActions, ChangeStatus(e, a)
      PROVE  TallyInv'
  <2>1. /\ status[e] \in {"draft", "scheduled", "active", "paused"}
        /\ status' = [status EXCEPT ![e] = ActionTo[a]]
        /\ ActionTo[a] \in {"draft", "scheduled", "active", "paused"}
        /\ UNCHANGED <<results, jobs>>
    BY <1>4 DEF ChangeStatus, PlainActions, ActionFrom, ActionTo
  <2>2. \A f \in Elections : status'[f] \in PostClose <=> status[f] \in PostClose
    BY <1>2, <2>1 DEF PostClose
  <2>3. QED BY <1>1, <1>2, <2>1, <2>2, QuietRowsSame, QuietTallyInv
<1>5. ASSUME NEW e \in Elections, Close(e)
      PROVE  TallyInv'
  <2>1. /\ status[e] \in {"active", "paused"}
        /\ status' = [f \in Elections |-> IF f \in {e} THEN "closed" ELSE status[f]]
        /\ UNCHANGED results
    BY <1>2, <1>5 DEF Close, ActionFrom, ActionTo
  <2>2. NewJob(e) \in Job(Elections) /\ NewJob(e).election = e BY NewJobTyped
  <2>3. jobs' = jobs \o <<NewJob(e)>> BY <1>2, <1>5, <2>2 DEF Close
  <2>4. OneRowEach({e}, <<NewJob(e)>>) BY <2>2 DEF OneRowEach, NewJob
  <2>5. {e} \in SUBSET Elections OBVIOUS
  <2>6. QED BY <1>1, <2>1, <2>3, <2>4, <2>5, CloseTallyInv
<1>6. ASSUME NEW e \in Elections, Publish(e)
      PROVE  TallyInv'
  <2>1. /\ status[e] \in {"closed", "results_ready"} /\ results[e] # <<>>
        /\ status' = [status EXCEPT ![e] = "published"]
        /\ results' = [results EXCEPT ![e] = StampLatest(results[e])]
        /\ UNCHANGED jobs
    BY <1>6 DEF Publish, CanPublish, ActionFrom, ActionTo
  <2>2. Len(StampLatest(results[e])) = Len(results[e]) BY <1>2, <2>1, StampLatestTyped
  <2>3. \A f \in Elections : /\ status'[f] \in PostClose <=> status[f] \in PostClose
                             /\ Len(results'[f]) = Len(results[f])
    BY <1>2, <2>1, <2>2 DEF PostClose
  <2>4. QED BY <1>1, <1>2, <2>1, <2>3, QuietRowsSame, QuietTallyInv
<1>7. CASE AutoClose
  <2>1. PICK es \in SUBSET {e \in Elections : DueToClose(e)} :
          /\ status' = [e \in Elections |-> IF e \in es THEN "closed" ELSE status[e]]
          /\ \E order \in Orders(es) :
               jobs' = jobs \o [i \in DOMAIN order |-> NewJob(order[i])]
    BY <1>7 DEF AutoClose
  <2>2. PICK order \in Orders(es) : jobs' = jobs \o [i \in DOMAIN order |-> NewJob(order[i])]
    BY <2>1
  <2>3. /\ es \in SUBSET Elections /\ \A e \in es : status[e] \in {"active", "paused"}
        /\ status' = [e \in Elections |-> IF e \in es THEN "closed" ELSE status[e]]
        /\ UNCHANGED results
    BY <1>7, <2>1 DEF AutoClose, DueToClose
  <2>4. OneRowEach(es, [i \in DOMAIN order |-> NewJob(order[i])]) BY <2>3, ClosedJobsOnce
  <2>5. QED BY <1>1, <2>2, <2>3, <2>4, CloseTallyInv
<1>8. CASE AutoPublish
  <2>1. PICK es \in SUBSET {e \in Elections : DueToPublish(e)} :
          /\ status' = [e \in Elections |-> IF e \in es THEN "published" ELSE status[e]]
          /\ results' = [e \in Elections |->
                           IF e \in es THEN StampLatest(results[e]) ELSE results[e]]
          /\ UNCHANGED jobs
    BY <1>8 DEF AutoPublish
  <2>2. \A e \in es : /\ status[e] = "results_ready"
                      /\ Len(StampLatest(results[e])) = Len(results[e])
    BY <1>2, StampLatestTyped DEF DueToPublish
  <2>3. \A f \in Elections : /\ status'[f] \in PostClose <=> status[f] \in PostClose
                             /\ Len(results'[f]) = Len(results[f])
    BY <1>2, <2>1, <2>2 DEF PostClose
  <2>4. QED BY <1>1, <1>2, <2>1, <2>3, QuietRowsSame, QuietTallyInv
<1>9. CASE ApplyDone BY <1>1, <1>9, ApplyTallyInv
<1>10. QED BY <1>3, <1>4, <1>5, <1>6, <1>7, <1>8, <1>9, StepKinds

\* The strengthened invariant holds in every behaviour.
THEOREM TallyInvariant == Spec => []TallyInv
<1>1. QED BY InitTallyInv, NextTallyInv, PTL DEF Spec

\* Every election that closed has exactly one tally job and no other election
\* has any, whoever closes it and however many the scheduler closes at once.
THEOREM OneTallyJobHolds == Spec => []OneTallyJobPerElection
<1>1. TallyInv => OneTallyJobPerElection
  <2> SUFFICES ASSUME TallyInv, NEW e \in Elections
               PROVE  Cardinality({j \in DOMAIN jobs : jobs[j].election = e})
                        = IF status[e] \in PostClose THEN 1 ELSE 0
    BY DEF OneTallyJobPerElection
  <2> DEFINE js == {j \in DOMAIN jobs : jobs[j].election = e}
  <2>1. CASE status[e] \in PostClose
    <3>1. PICK j \in DOMAIN jobs : jobs[j].election = e BY <2>1 DEF TallyInv, ClosedHasJob
    <3>2. js = {j} BY <3>1 DEF TallyInv, OneJob
    <3>3. QED BY <2>1, <3>2, FS_Singleton
  <2>2. CASE status[e] \notin PostClose
    <3>1. js = {} BY <2>2 DEF TallyInv, ResultsInv, JobsOfClosed
    <3>2. QED BY <2>2, <3>1, FS_EmptySet
  <2>3. QED BY <2>1, <2>2
<1>2. QED BY <1>1, TallyInvariant, PTL

\* The job of an election points at the newest version of its result after any
\* number of repeated, late or failed answers.
THEOREM JobRefersHolds == Spec => []JobRefersToNewestResult
<1>1. TallyInv => JobRefersToNewestResult BY DEF TallyInv
<1>2. QED BY <1>1, TallyInvariant, PTL

\* No step reopens a job that ended, whatever is delivered again, arrives late
\* or is restarted.
THEOREM JobNeverReopensHolds == Spec => JobNeverReopens
<1> DEFINE Kept == \A j \in DOMAIN jobs : jobs[j].status \in {"done", "error"}
                                           => jobs'[j].status \in {"done", "error"}
<1>1. TypeInv /\ [Next]_vars => [Kept]_vars
  <2> SUFFICES ASSUME TypeInv, Next PROVE Kept OBVIOUS
  <2>1. jobs \in Seq(Job(Elections)) BY DEF TypeInv, TypeOK
  <2>2. CASE QuietStep BY <2>1, <2>2, QuietStepRows DEF QuietRows, QuietRow, Ended
  <2>3. CASE \/ \E e \in Elections, a \in PlainActions : ChangeStatus(e, a)
             \/ \E e \in Elections : Publish(e)
             \/ AutoPublish
    BY <2>3 DEF ChangeStatus, Publish, AutoPublish
  <2>4. ASSUME NEW e \in Elections, Close(e) PROVE Kept
    <3>1. jobs' = Append(jobs, NewJob(e)) BY <2>4 DEF Close
    <3>2. QED BY <2>1, <3>1
  <2>5. CASE AutoClose
    <3>1. PICK es \in SUBSET {e \in Elections : DueToClose(e)} :
            \E order \in Orders(es) : jobs' = jobs \o [i \in DOMAIN order |-> NewJob(order[i])]
      BY <2>5 DEF AutoClose
    <3>2. PICK order \in Orders(es) :
            jobs' = jobs \o [i \in DOMAIN order |-> NewJob(order[i])]
      BY <3>1
    <3>3. es \in SUBSET Elections OBVIOUS
    <3>4. [i \in DOMAIN order |-> NewJob(order[i])] \in Seq(Job(Elections))
      BY <3>3, NewJobsTyped
    <3>5. QED BY <2>1, <3>2, <3>4
  <2>6. CASE ApplyDone
    <3> DEFINE m == NextMessage(answers)
               ref == Len(results[m.election]) + 1
    <3>1. m \in Answer /\ Refers(m, jobs) BY <2>6, FetchedAnswer DEF ApplyDone
    <3>2. m.job \in DOMAIN jobs /\ ref \in Nat BY <3>1 DEF Refers, Answer, TypeInv, TypeOK
    <3>3. jobs' = MarkDone(jobs, m.job, ref) BY <2>6 DEF ApplyDone
    <3>4. /\ \A i \in DOMAIN jobs \ {m.job} : jobs'[i] = jobs[i]
          /\ jobs'[m.job].status = "done"
      BY <2>1, <3>2, <3>3, MarkDoneRows
    <3>5. QED BY <3>4
  <2>7. QED BY <2>2, <2>3, <2>4, <2>5, <2>6, StepKinds
<1>2. QED BY <1>1, TypeInvariant, PTL DEF Spec, JobNeverReopens

-----------------------------------------------------------------------------
(* The ballots a result counts.  What holds of every stored version holds  *)
(* because it holds of every answer on its way: the runner reads the       *)
(* ballots after the close, and the ballots in time never change again.    *)

\* A finished answer counts the ballots in time and only accepted ones.
CountsRight(m, before, accepted) ==
  m.status = "done" => /\ before[m.election] \subseteq m.counted
                       /\ m.counted \subseteq accepted[m.election]

AnswersCountRight == \A i \in DOMAIN answers.log : CountsRight(answers.log[i], inTime, ballots)

RunnerCountsRight == runner.pc = "write" => CountsRight(runner.answer, inTime, ballots)

InTimeAccepted == \A e \in Elections : inTime[e] \subseteq ballots[e]

CountedInv ==
  /\ ResultsInv
  /\ InTimeAccepted /\ AnswersCountRight /\ RunnerCountsRight
  /\ CountsEveryBallotInTime

\* A step takes no ballot away, and fixes the ballots in time of an election
\* only when it closes it.
LEMMA BallotsGrow ==
  ASSUME TypeInv, [Next]_vars
  PROVE  \A e \in Elections :
           /\ ballots[e] \subseteq ballots'[e]
           /\ \/ inTime'[e] = inTime[e]
              \/ status[e] \notin PostClose /\ inTime'[e] = ballots[e]
<1>1. /\ ballots \in [Elections -> SUBSET Voters] /\ inTime \in [Elections -> SUBSET Voters]
  BY DEF TypeInv, TypeOK
<1>2. ASSUME NEW e \in Elections, Close(e)
      PROVE  /\ status[e] \notin PostClose
             /\ inTime' = [inTime EXCEPT ![e] = ballots[e]] /\ UNCHANGED ballots
  BY <1>2 DEF Close, ActionFrom, PostClose, apiVars
<1>3. CASE AutoClose
  <2>1. PICK es \in SUBSET {e \in Elections : DueToClose(e)} :
          inTime' = [e \in Elections |-> IF e \in es THEN ballots[e] ELSE inTime[e]]
    BY <1>3 DEF AutoClose
  <2>2. \A e \in es : status[e] \notin PostClose BY DEF DueToClose, PostClose
  <2>3. UNCHANGED ballots BY <1>3 DEF AutoClose, apiVars
  <2>4. QED BY <1>1, <2>1, <2>2, <2>3
<1>4. ASSUME NEW e \in Elections, NEW v \in Voters, InsertBallot(e, v)
      PROVE  ballots' = [ballots EXCEPT ![e] = ballots[e] \cup {v}] /\ UNCHANGED inTime
  BY <1>4 DEF InsertBallot
<1>5. CASE VoterStep
  <2>1. \/ UNCHANGED <<ballots, inTime>>
        \/ \E e \in Elections, v \in Voters : InsertBallot(e, v)
    BY <1>5 DEF VoterStep, BeginSubmit, AbandonSubmit
  <2>2. QED BY <1>1, <1>4, <2>1
<1>6. CASE AdminStep
  <2>1. \/ UNCHANGED <<ballots, inTime>>
        \/ \E e \in Elections : Close(e)
    BY <1>6 DEF AdminStep, ChangeStatus, Publish, apiVars
  <2>2. QED BY <1>1, <1>2, <2>1
<1>7. CASE \/ \E e \in Elections, what \in {"end", "publish"} : TimePasses(e, what)
           \/ AutoPublish \/ ClaimNext \/ ClaimNothing \/ PublishTask \/ LoadTaskFails \/ EndTick
           \/ RunnerStep \/ ConsumerStep \/ Crash
           \/ UNCHANGED vars
  <2>1. UNCHANGED <<ballots, inTime>>
    BY <1>7
    DEF TimePasses, AutoPublish, ClaimNext, ClaimNothing, PublishTask, LoadTaskFails, EndTick,
        RunnerStep, ProcessTask, WriteAnswer, CommitTask, ConsumerStep, ApplyError, ApplyDone,
        ApplyFails, CommitAnswer, Crash, WorkerCrash, CommitAnswerFails, RestartWorker,
        RunnerCrash, vars, apiVars
  <2>2. QED BY <2>1
<1>8. QED BY <1>3, <1>5, <1>6, <1>7 DEF Next, TickStep

\* A message in the topic of answers was there before, or the runner wrote it.
LEMMA AnswersAreWritten ==
  ASSUME TypeInv, [Next]_vars
  PROVE  \A i \in DOMAIN answers'.log :
           \/ i \in DOMAIN answers.log /\ answers'.log[i] = answers.log[i]
           \/ runner.pc = "write" /\ answers'.log[i] = runner.answer
<1>1. answers \in Topic(Answer) BY DEF TypeInv, TypeOK
<1>2. CASE WriteAnswer
  <2>1. PICK copies \in 0..2 : answers' = Write(answers, runner.answer, copies)
    BY <1>2 DEF WriteAnswer
  <2>2. runner.pc = "write" /\ runner.answer \in Answer /\ copies \in Nat
    BY <1>2 DEF WriteAnswer, TypeInv, RunnerHoldsAnswer
  <2>3. QED BY <1>1, <2>1, <2>2, WriteTyped
<1>3. CASE ConsumerStep \/ WorkerCrash \/ CommitAnswerFails
  <2>1. answers' \in {Fetch(answers), Commit(answers), Rejoin(answers)}
    BY <1>3 DEF ConsumerStep, ApplyError, ApplyDone, ApplyFails, CommitAnswer, WorkerCrash,
                CommitAnswerFails, RestartWorker
  <2>2. answers'.log = answers.log BY <1>1, <2>1, PositionsTyped
  <2>3. QED BY <2>2
<1>4. CASE \/ \E e \in Elections, what \in {"end", "publish"} : TimePasses(e, what)
           \/ AdminStep \/ VoterStep \/ TickStep
           \/ ProcessTask \/ CommitTask \/ RunnerCrash
           \/ UNCHANGED vars
  <2>1. UNCHANGED answers
    BY <1>4
    DEF TimePasses, AdminStep, ChangeStatus, Close, Publish, VoterStep, BeginSubmit,
        InsertBallot, AbandonSubmit, TickStep, AutoClose, AutoPublish, ClaimNext,
        ClaimNothing, PublishTask, LoadTaskFails, EndTick, ProcessTask, CommitTask,
        RunnerCrash, vars
  <2>2. QED BY <2>1
<1>5. QED BY <1>2, <1>3, <1>4 DEF Next, RunnerStep, Crash

\* The answer the runner holds was in its hands before, or it has just counted
\* the ballots as they are now, of an election that has closed.
LEMMA RunnerReadsBallots ==
  ASSUME TypeInv, JobsOfClosed, [Next]_vars, runner'.pc = "write"
  PROVE  \/ UNCHANGED runner
         \/ /\ UNCHANGED <<ballots, inTime>>
            /\ runner'.answer.status = "done" =>
                 /\ runner'.answer.election \in Elections
                 /\ status[runner'.answer.election] \in PostClose
                 /\ runner'.answer.counted = ballots[runner'.answer.election]
<1>1. CASE ProcessTask
  <2> DEFINE task == NextMessage(tasks)
             counted == ballots[task.election]
  <2>1. tasks \in Topic(Task) /\ HasNext(tasks) BY <1>1 DEF ProcessTask, TypeInv, TypeOK
  <2>2. task \in Task /\ \E i \in DOMAIN tasks.log : task = tasks.log[i]
    BY <2>1, NextMessageTyped
  <2>3. task.election \in Elections /\ status[task.election] \in PostClose
    BY <2>2 DEF TypeInv, TasksRefer, Refers, JobsOfClosed, Task
  <2>4. \/ runner'.answer = ErrorAnswer(task)
        \/ runner'.answer = DoneAnswer(task, counted)
    BY <1>1 DEF ProcessTask
  <2>5. UNCHANGED <<ballots, inTime>> BY <1>1 DEF ProcessTask, apiVars
  <2>6. QED BY <2>3, <2>4, <2>5 DEF ErrorAnswer, DoneAnswer
<1>2. CASE WriteAnswer \/ CommitTask \/ RunnerCrash
  BY <1>2 DEF WriteAnswer, CommitTask, RunnerCrash, FetchingRunner
<1>3. CASE \/ \E e \in Elections, what \in {"end", "publish"} : TimePasses(e, what)
           \/ AdminStep \/ VoterStep \/ TickStep \/ ConsumerStep
           \/ WorkerCrash \/ CommitAnswerFails
           \/ UNCHANGED vars
  BY <1>3
  DEF TimePasses, AdminStep, ChangeStatus, Close, Publish, processVars, VoterStep,
      BeginSubmit, InsertBallot, AbandonSubmit, TickStep, AutoClose, AutoPublish, ClaimNext,
      ClaimNothing, PublishTask, LoadTaskFails, EndTick, ConsumerStep, ApplyError, ApplyDone,
      ApplyFails, CommitAnswer, WorkerCrash, CommitAnswerFails, RestartWorker, vars
<1>4. QED BY <1>1, <1>2, <1>3 DEF Next, RunnerStep, Crash

\* A stored version was stored before, or comes from a finished answer.
LEMMA ResultsAreAnswers ==
  ASSUME TypeInv, JobsOfClosed, [Next]_vars, NEW e \in Elections, NEW i \in DOMAIN results'[e]
  PROVE  \/ i \in DOMAIN results[e] /\ results'[e][i].counted = results[e][i].counted
         \/ \E k \in DOMAIN answers.log :
              /\ answers.log[k].status = "done" /\ answers.log[k].election = e
              /\ results'[e][i].counted = answers.log[k].counted
<1>1. results \in [Elections -> Seq(Result)] BY DEF TypeInv, TypeOK
<1>2. ASSUME NEW rows \in Seq(Result), rows # <<>>
      PROVE  /\ DOMAIN StampLatest(rows) = DOMAIN rows
             /\ \A k \in DOMAIN rows : StampLatest(rows)[k].counted = rows[k].counted
  <2>1. Len(rows) \in DOMAIN rows /\ rows[Len(rows)] \in Result BY <1>2
  <2> DEFINE row == [rows[Len(rows)] EXCEPT !.published = TRUE]
  <2>2. row.counted = rows[Len(rows)].counted BY <2>1 DEF Result
  <2>3. StampLatest(rows) = [rows EXCEPT ![Len(rows)] = row] BY DEF StampLatest
  <2>4. QED BY <1>2, <2>1, <2>2, <2>3
<1>3. CASE QuietStep \/ UNCHANGED vars
  BY <1>3, QuietStepKeeps DEF vars
<1>4. CASE \/ \E f \in Elections, a \in PlainActions : ChangeStatus(f, a)
           \/ \E f \in Elections : Close(f)
           \/ AutoClose
  BY <1>4 DEF ChangeStatus, Close, AutoClose
<1>5. CASE AutoPublish \/ \E f \in Elections : Publish(f)
  <2>1. \/ results'[e] = results[e]
        \/ results[e] # <<>> /\ results'[e] = StampLatest(results[e])
    BY <1>1, <1>5 DEF AutoPublish, DueToPublish, Publish, CanPublish
  <2>2. QED BY <1>1, <1>2, <2>1
<1>6. CASE ApplyDone
  <2> DEFINE m == NextMessage(answers)
             row == NewResult(m.counted)
  <2>1. m.status = "done" /\ \E k \in DOMAIN answers.log : m = answers.log[k]
    BY <1>6, FetchedAnswer DEF ApplyDone
  <2>2. m.election \in Elections BY <1>6, AnswerOfClosed DEF ApplyDone
  <2>3. results' = [results EXCEPT ![m.election] = Append(results[m.election], row)]
    BY <1>6 DEF ApplyDone
  <2>4. CASE e # m.election BY <1>1, <2>3, <2>4
  <2>5. CASE e = m.election
    <3>1. results[e] \in Seq(Result) /\ results'[e] = Append(results[e], row)
      BY <1>1, <2>3, <2>5
    <3>2. row.counted = m.counted BY DEF NewResult
    <3>3. /\ i \in DOMAIN results[e] \/ i = Len(results[e]) + 1
          /\ i \in DOMAIN results[e] => results'[e][i] = results[e][i]
          /\ i = Len(results[e]) + 1 => results'[e][i] = row
      BY <3>1
    <3>4. QED BY <2>1, <2>5, <3>2, <3>3
  <2>6. QED BY <2>4, <2>5
<1>7. QED BY <1>3, <1>4, <1>5, <1>6, StepKinds

\* Nothing is counted before anything happened.
LEMMA InitCountedInv == Init => CountedInv
<1> SUFFICES ASSUME Init PROVE CountedInv OBVIOUS
<1>1. InTimeAccepted /\ CountsEveryBallotInTime
  BY DEF Init, InTimeAccepted, CountsEveryBallotInTime
<1>2. AnswersCountRight /\ RunnerCountsRight
  BY DEF Init, AnswersCountRight, RunnerCountsRight, EmptyTopic, FetchingRunner
<1>3. QED BY <1>1, <1>2, InitResultsInv DEF CountedInv

\* Every step keeps the invariant on what is counted.
LEMMA NextCountedInv == CountedInv /\ [Next]_vars => CountedInv'
<1> SUFFICES ASSUME CountedInv, [Next]_vars PROVE CountedInv' OBVIOUS
<1>1. TypeInv /\ JobsOfClosed /\ ResultsInv' BY NextResultsInv DEF CountedInv, ResultsInv
<1>2. \A e \in Elections :
        /\ ballots[e] \subseteq ballots'[e]
        /\ status[e] \in PostClose => inTime'[e] = inTime[e]
        /\ inTime'[e] = inTime[e] \/ inTime'[e] = ballots[e]
  BY <1>1, BallotsGrow
<1>3. InTimeAccepted' BY <1>2 DEF CountedInv, InTimeAccepted
<1>4. ASSUME NEW m \in Answer, Refers(m, jobs), CountsRight(m, inTime, ballots)
      PROVE  CountsRight(m, inTime', ballots')
  <2>1. m.election \in Elections /\ status[m.election] \in PostClose
    BY <1>1, <1>4 DEF Answer, Refers, JobsOfClosed
  <2>2. QED BY <1>2, <1>4, <2>1 DEF CountsRight
<1>5. \A i \in DOMAIN answers.log : CountsRight(answers.log[i], inTime', ballots')
  <2>1. TAKE i \in DOMAIN answers.log
  <2>2. answers.log[i] \in Answer BY <1>1 DEF TypeInv, TypeOK, Topic
  <2>3. QED BY <1>1, <1>4, <2>2 DEF TypeInv, AnswersRefer, CountedInv, AnswersCountRight
<1>6. runner.pc = "write" => CountsRight(runner.answer, inTime', ballots')
  BY <1>1, <1>4 DEF TypeInv, RunnerHoldsAnswer, CountedInv, RunnerCountsRight
<1>7. AnswersCountRight'
  BY <1>1, <1>5, <1>6, AnswersAreWritten DEF AnswersCountRight
<1>8. RunnerCountsRight'
  <2>1. SUFFICES ASSUME runner'.pc = "write"
                 PROVE  CountsRight(runner'.answer, inTime', ballots')
    BY DEF RunnerCountsRight
  <2>2. CASE UNCHANGED runner BY <1>6, <2>1, <2>2
  <2>3. CASE ~ UNCHANGED runner
    <3>1. /\ UNCHANGED <<ballots, inTime>>
          /\ runner'.answer.status = "done" =>
               /\ runner'.answer.election \in Elections
               /\ runner'.answer.counted = ballots[runner'.answer.election]
      BY <1>1, <2>1, <2>3, RunnerReadsBallots
    <3>2. QED BY <3>1 DEF CountsRight, CountedInv, InTimeAccepted
  <2>4. QED BY <2>2, <2>3
<1>9. CountsEveryBallotInTime'
  <2>1. SUFFICES ASSUME NEW e \in Elections, NEW i \in DOMAIN results'[e]
                 PROVE  /\ inTime'[e] \subseteq results'[e][i].counted
                        /\ results'[e][i].counted \subseteq ballots'[e]
    BY DEF CountsEveryBallotInTime
  <2>2. CASE i \in DOMAIN results[e] /\ results'[e][i].counted = results[e][i].counted
    <3>1. results[e] # <<>> BY <2>2
    <3>2. status[e] \in PostClose
      BY <3>1 DEF CountedInv, ResultsInv, ResultsIffReady, PostClose
    <3>3. inTime[e] \subseteq results[e][i].counted /\ results[e][i].counted \subseteq ballots[e]
      BY <2>2 DEF CountedInv, CountsEveryBallotInTime
    <3>4. QED BY <1>2, <2>2, <3>2, <3>3
  <2>3. CASE \E k \in DOMAIN answers.log :
               /\ answers.log[k].status = "done" /\ answers.log[k].election = e
               /\ results'[e][i].counted = answers.log[k].counted
    BY <1>5, <2>3 DEF CountsRight
  <2>4. QED BY <1>1, <2>2, <2>3, ResultsAreAnswers
<1>10. QED BY <1>1, <1>3, <1>7, <1>8, <1>9 DEF CountedInv

\* Every version of a result counts each ballot accepted before the close and
\* none that was not accepted, for every number of voters, elections and
\* failures, and whenever a late ballot meets a redelivered task.
THEOREM CountsEveryBallotHolds == Spec => []CountsEveryBallotInTime
<1>1. CountedInv => CountsEveryBallotInTime BY DEF CountedInv
<1>2. Spec => []CountedInv BY InitCountedInv, NextCountedInv, PTL DEF Spec
<1>3. QED BY <1>1, <1>2, PTL
=============================================================================
