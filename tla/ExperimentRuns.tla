----------------------------- MODULE ExperimentRuns -----------------------------
(***************************************************************************)
(* ExperimentRunsPage beside the worker that carries the runs out.         *)
(*                                                                         *)
(* A run and its job are created together.  The worker claims the job,     *)
(* marks the run as running and publishes its task; the answers of the     *)
(* compute service are stored first and then applied, to the run whatever  *)
(* its status and to the job while it is open.                             *)
(*                                                                         *)
(* The page loads the lists again and again: on a timer, for a new filter, *)
(* at the press of a button.  A load aborts the one before it; that one    *)
(* does not always stop, for some of its requests are allowed to fail.  A  *)
(* request that takes too long is aborted in the same way.                 *)
(***************************************************************************)
EXTENDS Naturals, FiniteSets, Sequences, SequencesExt, Functions

CONSTANTS
  Runs, Experiments,
  ExperimentOf,     \* the experiment of each run
  First,            \* the status of each run when the page opens: absent, queued or done
  Autos,            \* what that page asks to open at once: runs, or "none"
  MaxAnswers,       \* answers to one task
  MaxLoads, MaxOpens  \* bounds on loads of the lists and on runs opened

VARIABLES
  api,   \* runs, jobs, results, and the worker
  page,  \* the state of the page
  past   \* history: loads, opens, told and ended, per run,
         \*          card and result, the runs asked for last,
         \*          detour, the last load begun was for another filter than the one chosen

vars == <<api, page, past>>

Ended == {"done", "error"}
Nothing == <<>>  \* the empty function

\* at     how far the load is: lists, then datasets, then results
\* exp    the filter it was asked for;  got: the statuses of the runs it has read
\* loud   it shows that it is loading
NoLoad == [at |-> "none", exp |-> "all", got |-> Nothing, loud |-> FALSE]

\* items, results  the runs listed, with their statuses, and those with a result
\* prev       prevStatusRef;  answered: the filter items were read for
\* failed     the last load was lost or refused
\* details, answers  the cards and results asked for
\* card, result      the run of the card shown and of the result shown, "none" without
\* lost              which of the two, asked for last, was lost or aborted
\* batch      the filters chosen when the batches under way were ordered
Opened(auto) ==
  [exp |-> "all", status |-> "all", load |-> [NoLoad EXCEPT !.at = "lists", !.loud = TRUE],
   loading |-> TRUE, items |-> Nothing, prev |-> Nothing, results |-> {},
   answered |-> "all", failed |-> FALSE, auto |-> auto, batch |-> <<>>,
   details |-> <<>>, answers |-> <<>>, card |-> "none", result |-> "none", lost |-> {}]

Init ==
  /\ LET done == {r \in Runs : First[r] = "done"}
     IN api = [run |-> First, job |-> First,
               result |-> [r \in Runs |-> IF r \in done THEN "done" ELSE "none"],
               sent |-> done, applying |-> "none",
               answers |-> [r \in Runs |-> IF r \in done THEN MaxAnswers ELSE 0]]
  /\ \E auto \in Autos : page = Opened(auto)
  /\ past = [loads |-> 0, opens |-> 0, told |-> [r \in Runs |-> 0],
             ended |-> [r \in Runs |-> 0], card |-> "none", result |-> "none",
             detour |-> FALSE]

-----------------------------------------------------------------------------
(* The worker.                                                             *)

Ending(r, status) ==
  IF api.run[r] = status THEN past ELSE [past EXCEPT !.ended[r] = @ + 1]

Claim(r) ==
  /\ api.job[r] = "queued"
  /\ api' = [api EXCEPT !.job[r] = "running"]
  /\ UNCHANGED <<page, past>>

\* markRunRunning
MarkRunning(r) ==
  /\ api.job[r] = "running" /\ api.run[r] = "queued"
  /\ api' = [api EXCEPT !.run[r] = "running"]
  /\ UNCHANGED <<page, past>>

Publish(r) ==
  /\ api.job[r] = "running" /\ api.run[r] = "running" /\ r \notin api.sent
  /\ api' = [api EXCEPT !.sent = @ \cup {r}]
  /\ UNCHANGED <<page, past>>

\* failRunAndJob; the message may be on the topic all the same.
PublishFails(r) ==
  /\ api.job[r] = "running" /\ api.run[r] = "running" /\ r \notin api.sent
  /\ \E sent \in {api.sent, api.sent \cup {r}} :
       api' = [api EXCEPT !.sent = sent, !.run[r] = "error", !.job[r] = "error"]
  /\ past' = Ending(r, "error")
  /\ UNCHANGED page

\* upsertExperimentResult, for an answer from the topic.
StoreAnswer(r) ==
  /\ r \in api.sent /\ api.applying = "none"
  /\ api.answers[r] < MaxAnswers
  /\ \E s \in Ended :
       api' = [api EXCEPT !.result[r] = s, !.applying = r, !.answers[r] = @ + 1]
  /\ UNCHANGED <<page, past>>

\* Mutant: the job is closed and the run, which has ended already or not, is left.
AppliedToJob(r) ==
  [api EXCEPT !.applying = "none", !.job[r] = IF @ \in Ended THEN @ ELSE api.result[r]]

\* The transaction of applyExperimentRunResult.
Applied(r) ==
  [api EXCEPT !.applying = "none", !.run[r] = api.result[r],
              !.job[r] = IF @ \in Ended THEN @ ELSE api.result[r]]

ApplyAnswer(r) ==
  /\ api.applying = r
  /\ api' = Applied(r) /\ past' = Ending(r, api.result[r])
  /\ UNCHANGED page

\* The worker stops in between; the answer is fetched once more.
ApplyLost(r) ==
  /\ api.applying = r
  /\ api' = [api EXCEPT !.applying = "none"]
  /\ UNCHANGED <<page, past>>

-----------------------------------------------------------------------------
(* Loading the lists.                                                      *)

\* What GET /experiment-runs answers.
Statuses(exp) ==
  Restrict(api.run, {r \in Runs : api.run[r] # "absent" /\ exp \in {"all", ExperimentOf[r]}})

\* Mutant: the statuses seen are not remembered.
ListedKeepingPrev(p) ==
  [p EXCEPT !.items = p.load.got, !.answered = p.load.exp, !.failed = FALSE,
            !.prev = IF @ = Nothing THEN p.load.got ELSE @]

\* The first half of loadList: the lists have come.
Listed(p) ==
  [p EXCEPT !.items = p.load.got, !.answered = p.load.exp, !.failed = FALSE,
            !.prev = p.load.got]

\* The runs that have ended, as far as this page knows, since its last load.
News(p) ==
  {r \in DOMAIN p.load.got : /\ r \in DOMAIN p.prev /\ p.prev[r] # p.load.got[r]
                             /\ p.load.got[r] \in Ended}

Telling(p) == [r \in Runs |-> past.told[r] + (IF r \in News(p) THEN 1 ELSE 0)]

DoneOf(items) == {r \in DOMAIN items : items[r] = "done"}

\* The load that is overtaken: waiting for the datasets only, which may fail, it goes on;
\* with results still to come, it shows those it has.
Overtaken(p, have) ==
  CASE p.load.at \in {"none", "lists"} -> p
    [] p.load.at = "datasets" -> [Listed(p) EXCEPT !.results = {}]
    [] p.load.at = "results" -> [p EXCEPT !.results = have]

\* loadList: the flag of an overtaken load is cleared after that of this one is set.
Loading(p, exp, loud, have) ==
  [Overtaken(p, have) EXCEPT
     !.load = [NoLoad EXCEPT !.at = "lists", !.exp = exp, !.loud = loud],
     !.loading = IF p.load.loud THEN FALSE ELSE loud \/ @]

StartLoad(p, exp, loud) ==
  /\ past.loads < MaxLoads
  /\ \E have \in SUBSET DoneOf(p.items) :
       /\ have = {} \/ p.load.at = "results"
       /\ page' = Loading(p, exp, loud, have)
  /\ past' = [past EXCEPT !.loads = @ + 1, !.detour = exp # p.exp,
                          !.told = IF p.load.at = "datasets" THEN Telling(p) ELSE @]
  /\ UNCHANGED api

Refresh == ~page.loading /\ StartLoad(page, page.exp, TRUE)
Poll == StartLoad(page, page.exp, FALSE)

\* Mutant: loadList is not made anew for the filter.
ChooseQuietly(e) ==
  /\ e # page.exp /\ page' = [page EXCEPT !.exp = e]
  /\ UNCHANGED <<api, past>>

\* The effect on loadList is undone: a card and a result still to come are aborted, at
\* which nothing is said.
Undone(p) ==
  [p EXCEPT !.details = <<>>, !.answers = <<>>,
            !.lost = @ \cup (IF p.details # <<>> THEN {"card"} ELSE {})
                       \cup (IF p.answers # <<>> THEN {"result"} ELSE {})]

\* The filter by experiment is the API's, and the list is loaded again.
ChooseExperiment(e) == e # page.exp /\ StartLoad([Undone(page) EXCEPT !.exp = e], e, TRUE)

\* The other filters are the page's own.
ChooseStatus(s) ==
  /\ s # page.status
  /\ page' = [page EXCEPT !.status = s]
  /\ UNCHANGED <<api, past>>

ListsRead ==
  /\ page.load.at = "lists"
  /\ page' = [page EXCEPT !.load.at = "datasets", !.load.got = Statuses(page.load.exp)]
  /\ UNCHANGED <<api, past>>

\* The datasets have come, or have not.
ListsArrive ==
  /\ page.load.at = "datasets"
  /\ page' = [Listed(page) EXCEPT !.load.at = "results"]
  /\ past' = [past EXCEPT !.told = Telling(page)]
  /\ UNCHANGED api

Loaded(p) ==
  [p EXCEPT !.load = NoLoad, !.loading = IF p.load.loud THEN FALSE ELSE @]

\* A result that does not come is left out.
ResultsArrive ==
  /\ page.load.at = "results"
  /\ \E have \in SUBSET {r \in DoneOf(page.items) : api.result[r] # "none"} :
       page' = [Loaded(page) EXCEPT !.results = have]
  /\ UNCHANGED <<api, past>>

\* Out of time: nothing is said and what is shown stays.
LoadTimesOut ==
  /\ page.load.at = "lists"
  /\ page' = [Loaded(page) EXCEPT !.failed = TRUE]
  /\ UNCHANGED <<api, past>>

LoadFails ==
  /\ page.load.at = "lists"
  /\ page' = [Loaded(page) EXCEPT !.failed = TRUE, !.items = Nothing]
  /\ UNCHANGED <<api, past>>

Shown(p) ==
  {r \in DOMAIN p.items : /\ p.exp \in {"all", ExperimentOf[r]}
                          /\ p.status \in {"all", p.items[r]}}

-----------------------------------------------------------------------------
(* One run: its card and its result.                                       *)

\* Mutant: what was asked for before is not aborted.
AskingBeside(asked, r) == Append(asked, r)

\* loadDetail and loadResult abort what they asked for before.
Asking(asked, r) == <<r>>

\* openRunCard
Open(p, r) ==
  /\ page' = [p EXCEPT !.details = Asking(@, r), !.answers = Asking(@, r), !.lost = {}]
  /\ past' = [past EXCEPT !.opens = @ + 1, !.card = r, !.result = r]
  /\ UNCHANGED api

OpenCard(r) ==
  /\ r \in Shown(page) /\ page.details = <<>> /\ past.opens < MaxOpens
  /\ Open(page, r)

\* The page before this one asks for a run, which is opened as soon as it is listed.
AutoOpen ==
  /\ page.auto \in DOMAIN page.items
  /\ Open([page EXCEPT !.auto = "none"], page.auto)

\* openRunResult: only the result, beside the card of another run.
OpenResult(r) ==
  /\ r \in Shown(page) /\ page.answers = <<>> /\ past.opens < MaxOpens
  /\ page' = [page EXCEPT !.answers = Asking(@, r), !.lost = @ \ {"result"}]
  /\ past' = [past EXCEPT !.opens = @ + 1, !.result = r]
  /\ UNCHANGED api

CardArrives(i) ==
  /\ page' = [page EXCEPT !.card = page.details[i], !.details = RemoveAt(@, i)]
  /\ UNCHANGED <<api, past>>

\* A run without a result is an error, and no result is shown.
ResultArrives(i) ==
  /\ LET r == page.answers[i]
     IN page' = [page EXCEPT !.result = IF api.result[r] = "none" THEN "none" ELSE r,
                             !.answers = RemoveAt(@, i)]
  /\ UNCHANGED <<api, past>>

\* Out of time: what was shown before stays, be it of another run.
CardTimesOut(i) ==
  /\ page' = [page EXCEPT !.details = RemoveAt(@, i), !.lost = @ \cup {"card"}]
  /\ UNCHANGED <<api, past>>

ResultTimesOut(i) ==
  /\ page' = [page EXCEPT !.answers = RemoveAt(@, i), !.lost = @ \cup {"result"}]
  /\ UNCHANGED <<api, past>>

\* buildRunReportText puts the run of the card over the result shown.
Report(p) == [run |-> p.card, result |-> p.result]

-----------------------------------------------------------------------------
(* Creating runs.                                                          *)

\* handleBatchCreate: the runs of one experiment, which BatchCreate creates together.  The
\* button stays usable meanwhile.
BatchCreate ==
  /\ \E e \in Experiments :
       LET new == {r \in Runs : ExperimentOf[r] = e /\ api.run[r] = "absent"}
       IN /\ new # {}
          /\ page' = [page EXCEPT !.batch = Append(@, page.exp)]
          /\ api' = [api EXCEPT !.run = [r \in Runs |-> IF r \in new THEN "queued" ELSE @[r]],
                                !.job = [r \in Runs |-> IF r \in new THEN "queued" ELSE @[r]]]
  /\ UNCHANGED past

\* The answer comes; what is loaded is the list of the filter chosen at the press.
BatchEnds(i) ==
  StartLoad([page EXCEPT !.batch = RemoveAt(@, i)], page.batch[i], TRUE)

\* The answer is lost: an error is shown and nothing loaded.
BatchLost(i) ==
  /\ page' = [page EXCEPT !.batch = RemoveAt(@, i)]
  /\ UNCHANGED <<api, past>>

WorkerNext ==
  \E r \in Runs :
    \/ Claim(r) \/ MarkRunning(r) \/ Publish(r) \/ PublishFails(r)
    \/ StoreAnswer(r) \/ ApplyAnswer(r) \/ ApplyLost(r)

ListNext ==
  \/ Refresh \/ Poll
  \/ \E e \in Experiments \cup {"all"} : ChooseExperiment(e)
  \/ \E s \in {"all", "done"} : ChooseStatus(s)
  \/ ListsRead \/ ListsArrive \/ ResultsArrive \/ LoadTimesOut \/ LoadFails
  \/ BatchCreate \/ \E i \in DOMAIN page.batch : BatchEnds(i) \/ BatchLost(i)

CardNext ==
  \/ AutoOpen
  \/ \E r \in Runs : OpenCard(r) \/ OpenResult(r)
  \/ \E i \in DOMAIN page.details : CardArrives(i) \/ CardTimesOut(i)
  \/ \E i \in DOMAIN page.answers : ResultArrives(i) \/ ResultTimesOut(i)

Next == WorkerNext \/ ListNext \/ CardNext

-----------------------------------------------------------------------------
(* Properties.                                                             *)

TypeOK ==
  /\ DOMAIN api.run = Runs /\ api.sent \subseteq Runs
  /\ page.results \subseteq Runs /\ DOMAIN page.items \subseteq Runs
  /\ Len(page.details) <= 1 /\ Len(page.answers) <= 1

\* The end of a run is announced no more often than the run has ended: an overtaken load
\* that goes on, and lists of other filters in between, announce nothing a second time.
AnnouncedOnce == \A r \in Runs : past.told[r] <= past.ended[r]

\* With no load under way the list is the answer to the filter chosen, unless the last
\* load was lost, or was that of a batch ordered under another filter.
ListAnswersFilter ==
  page.load.at = "none" /\ ~page.failed /\ ~past.detour => page.answered = page.exp

\* When everything has come, the card and the result shown are those asked for last, so
\* that a report names the run whose result it holds, unless only a result was asked for.
\* What the page still shows after a loss, or after a filter was chosen with the card
\* still to come, may be of a run opened before.
CardIsOfLastRun ==
  page.details = <<>> /\ page.answers = <<>> /\ page.lost = {} =>
    /\ page.card = past.card /\ page.result \in {past.result, "none"}
    /\ past.card = past.result => Report(page).result \in {Report(page).run, "none"}

\* The job of a run is closed only when the run has ended, and a run that is done has a
\* result, however often and late its answers come.
JobEndsWithRun ==
  \A r \in Runs : /\ api.job[r] \in Ended => api.run[r] \in Ended
                  /\ api.run[r] = "done" => api.result[r] # "none"
=============================================================================
