# Verification of secure-voting

TLA+ specifications of the voting platform in `src/`, the TLC runs that check
them on small instances, and TLAPS proofs for every instance. `PROJECT.json`
lists components, runs, mutants, findings, hazards and theorems, and maps every
definition to the lines it was translated from.

## 1. The system

A **frontend** (TypeScript, React, `apps/frontend`) talks to the **API** (Go,
`apps/backend/cmd/api`), which keeps elections, ballots, jobs, results, users and
sessions in **Postgres**, idempotency keys and rate-limit counters in **Redis**,
and datasets and experiment results in **MongoDB**. A **worker** (`cmd/worker`)
runs two goroutines: a ticker that closes and publishes due elections and turns
queued rows of `jobs` into tasks on a Kafka topic, and a consumer that applies
result messages. A **compute runner** (`cmd/compute-runner`) reads tasks, streams
the ballots to the **compute service** (Rust, gRPC) and writes result messages.
Both topics have one partition, and one worker and one runner are deployed, each
restarted when it exits.

    voters, administrators, researchers
              │
          frontend (tabs, localStorage)
              │
             API ──> Postgres <── worker (tick) ──> tasks
                         ^                            │
                  worker (consumer) <── answers <── runner ──> compute service

| Component | State it keeps | Operations | What is hard |
|---|---|---|---|
| Election lifecycle (`elections/actions.go`) | `elections.status`, `published_at` | schedule, open, pause, resume, close, publish | races with the schedulers and with voters; publish before a result exists |
| Election configuration (`elections/create.go`, `rules.go`) | rules, dates, candidates | create, update rules, import candidates | rules are read and written without a lock while "open" locks the row; two saves overlap |
| Invites (`auth/accept_invite.go`) | `election_invites` | create, import, accept | double acceptance, a list of which a part is stored |
| Ballots (`ballots/`) | `ballots`, Redis lock and cached answer | submit, my ballot | status check and insert are apart; lock expiry; retry after a lost answer |
| Jobs (`jobs/`) | `jobs` | claim, progress, done, error | updates by id alone, nobody reclaims a running job |
| Worker tick (`worker/run.go`, `scheduler.go`, `election_tally.go`) | claimed job in memory | auto-close, auto-publish, claim, publish task | crash between claim and publication; write that fails after it succeeded |
| Worker consumer (`worker/experiment_run.go`, `*_result*.go`) | topic position | fetch, apply, commit | redelivery, failed apply, late answers |
| Compute runner (`cmd/compute-runner`) | topic position, answer in memory | fetch, process, write, commit | ignored commit errors, failed writes, undecided tallies |
| Experiment runs | `experiment_runs`, MongoDB results, `jobs` | create, run, apply | two databases, late and repeated answers |
| Authentication (`auth/`) | `users`, `auth_sessions`, `api_tokens` | register, login, refresh, logout, verify | one active session, rotation, lost answers |
| Email verification | `email_verification_tokens` | request, confirm, change of contact data | attempts, expiry, several codes, requests that run late |
| Rate limiter | Redis counters | count, expire | two calls that are not atomic |
| Voting core (Rust) | none | elimination, scoring, matrices | ties, empty rounds, termination |
| Frontend sessions (`auth.tsx`, `LoginPage.tsx`) | stored tokens, timer, requests | boot, login, refresh, logout | several tabs, answers about an earlier user |
| Frontend: voting (`VotePage.tsx`) | form, reloads, submission | load, edit, submit | overtaken loads, rotation of the token, checks that must agree with the API's |
| Frontend: elections (`AdminElectionPage`, `ElectionPage`, `ElectionsPage`, `AdminCreateElectionPage`, `ElectionRulesPage`) | what was loaded, drafts, requests | act, invite, draft, create, save rules | stale views, effects that correct the form, partial failures |
| Frontend: research (`ExperimentRunsPage`, `DatasetsPage`, `ExperimentCreatePage`) | lists, cards, drafts, series of requests | poll, open, import, run a series | overtaken loads, series that fail half-way, forms that fit another dataset |
| Frontend: profile (`ProfilePage.tsx`) | user, notices | save, request, confirm | answers in another order |

What makes them correct is, in short: an election only moves forward and voting
ends once; each accepted ballot in time is counted in every version of the
result; one close, one tally; results are published once and stay published; a
job that ended stays ended and points at what it produced; every closed election
eventually gets its result; one active session per user, and a browser that
keeps up with its rotation; one vote per voter whatever is retried. A page never
reports what was not done. What its own checks let through, the API's checks of the
same things let through as well. It shows the answer to the question asked last,
except where the code drops an answer without a word (section 5).

## 2. Modules

The processes behind the API:

| Module | Models |
|---|---|
| `LifecycleRules` | the statuses and `nextStatus` |
| `ElectionLifecycle` | abstract specification: what the platform promises of an election, without jobs, topics and processes |
| `KafkaTopic` | external: a topic with one partition and one consumer, positions, commits, redelivery |
| `JobsTable` | the statements of `internal/jobs` |
| `ElectionPipeline` | API, worker and runner together, from draft to publication |
| `MCElectionPipeline` | values for the constants |
| `ElectionPipelineProofs` | theorems about `ElectionPipeline` |

Sessions:

| Module | Models |
|---|---|
| `AuthTables` | `auth_sessions`, `api_tokens` and the transactions on them: login, refresh, logout, verification |
| `BrowserSessions` | `AuthProvider` and `LoginPage` in every tab, the storage tabs share, requests on the way, on `AuthTables` |
| `MCBrowserSessions` | values for the constants |
| `BrowserSessionsProofs` | theorems |

Voters (`MCVoterApp`):

| Module | Route | Models |
|---|---|---|
| `BallotForm` | `lists`, `scores` | the form for the three ballot formats and the API's validation of what it sends |
| `BallotSubmission` | `submission` | `POST .../ballots/submit`, one call of Redis or Postgres a step |
| `BallotBox` | | abstract specification of it: one ballot for good, "ok" only to its own request |
| `VotePage` | `vote` | loading, sending and signing out in several tabs |
| `EmailVerification`, `ProfilePage` | `profile` | the transactions on codes; the three buttons of the profile |
| `VoterPagesProofs` | | theorems about `BallotForm`, `BallotSubmission`, `VotePage`, `ProfilePage` |
| `VoterAppProofs` | | what they say of the suite |

Organizers, administrators and researchers (`MCConsoleApp`):

| Module | Route | Models |
|---|---|---|
| `InviteDesk` | `invites` | creating, importing and accepting invitations |
| `ElectionScreens` | `screens` | pages that show one election and move it, while the worker moves it too |
| `TallyRules` | | the rules of the compute service and `validateRuleCompatibility`, `validateBallotParams` |
| `ElectionDraft` | `draft` | the draft of an election, its effects, checks and creation |
| `ElectionRulesForm` | `rules` | changing the rules from several tabs, and `UpdateRules` statement by statement (with `MCElectionRules` for its race with "open") |
| `ExperimentRuns` | `runs`, `cards`, `batch` | the page of runs beside worker, jobs and answers |
| `Datasets` | `data` | datasets made by three kinds of requests, and series of experiments on them |
| `ExperimentDraft` | `plan` | an experiment drawn up on a dataset or an election, and the requests it sends |
| `PickedLists` | | lists cut down by the pages' filters |
| `RunsPageProofs` | | theorems about `ExperimentRuns`, and the lemmas on lists |
| `ResearchPagesProofs` | | theorems about `Datasets`, `ExperimentDraft` |
| `ConsolePagesProofs` | | theorems about `ElectionScreens`, `InviteDesk`, `ElectionRulesForm`, `ElectionDraft` |
| `ConsoleAppProofs` | | what they say of the suite |

### How the two suites are built

The pages exclude each other: the router shows one at a time. `MCVoterApp` and
`MCConsoleApp` therefore choose a `route` in their initial state and keep it; each
route is an `INSTANCE` of a component with its own constants. The components name
their variables alike - `page` (what the component's React state and refs hold),
`api` (rows the backend keeps), `calls` (requests under way, where they are not
part of `page`) and `past` (history, which restricts nothing but the number of
events). So one run checks a question ("what a page reports is true") of all
components that answer it, and a state of the suite is a state of one component.
`ExperimentRuns` is instantiated three times with different bounds, since one
instance with all of them is too large for TLC: `runs` has three loads and
answers to tasks, `cards` has runs opened while the filter changes, which starts a
load and aborts the card and the result under way, `batch` has runs that are created
while the filter changes and lists are loaded. The proofs are for all bounds at once.

A handler of a page up to its first `await`, the transaction of the API, and the
rest of the handler from one `await` to the next are steps of their own, between
which everything else may happen. Effects run after the render that causes them;
where an effect changes what another reads, a render is a step. A request may be
refused, lost before or after the API acted, or run out of time (15 s), as far as
the page can tell these apart. Typed numbers, names and dates are members of small
sets that hold a value on each side of every check. `ExperimentDraft` counts its
numbers in halves (2 stands for one), because that page lets fractions through and
the API does not; `BallotForm` has halves among its scores. In `ElectionDraft` and
`ElectionRulesForm` typed numbers are whole: a fraction passes those pages too and
fails to be decoded, which says nothing about the checks they share with the API.

### ElectionPipeline

One step is one database transaction or statement, one message written, fetched
or committed. Correspondence of the state:

- `status`, `ballots`, `results`, `jobs`: the tables. A result keeps the ballots
  it counted and whether `published_at` is set; its index is its version. A job
  keeps election, status, progress and the version in `result_ref`.
- `due`: whether `end_at` and `publish_at` have passed. Time only passes.
- `submitting`: submissions between the status check (`submit.go:34`) and the
  insert (`submit.go:125`).
- `tasks`, `answers`: the two topics; `worker`, `consumer`, `runner`: what each
  loop does next and holds in memory, lost by `WorkerCrash` and `RunnerCrash`.
- `inTime`, `faults`, `consumer.skipped`: history. They restrict nothing, except
  that `faults` bounds the number of failures.

The rows of an election are locked by the lifecycle actions and by the
schedulers, so each is one atomic step. The schedulers skip rows that another
transaction holds: they close, or publish, any subset of what is due. A tick
may come before the scheduler's interval is over, so `ClaimNext` is possible
from `idle` too. `ProcessTask` joins fetching and processing: nothing outside
sees the runner between the two, and the ballots are read by one SELECT.

Failures (`FaultKinds`): a write of a message that reports an error, is retried
by the client and stored twice, or is stored and still reported as failed; a task
that cannot be loaded; a compute error or timeout; a lost task commit; a failed
apply; a failed answer commit, which ends the worker; crashes of the worker and
of the runner at any moment. `MaxFaults` bounds how many happen.

A tally of a non-empty set of ballots in `Undecided` names no winner. Nanson's
rule does that when all remaining candidates have the same score: none is below
the average, none is eliminated, and the rule stops. The empty list reaches
Postgres as JSON `null` and is refused.

Abstracted: the content of ballots and rules (an election's rules are fixed here,
and an "open" refused by them is no step), audit rows, messages that cannot be
decoded (never produced by these programs, committed without effect), audit
failures, and the readiness checks of "open".

### BrowserSessions

`db` is the tables of `AuthTables`: sessions, the pairs of tokens issued for them
and the access tokens that still exist. `stored` is localStorage per browser,
`tab` the state of `AuthProvider` per tab: its tokens, the user it shows, and the
check of the session (`boot`), refresh, login and logout under way, each sent,
run by the server and answered in three steps. `late` holds requests whose tab no
longer waits (a reload, a timeout, an abort): the server may still run them.
`aged` holds pairs near their expiry; the timer fires for those only. A refresh
remembers who waits for it, the timer, a run of the boot effect or both (`Waits`):
a run that was aborted meanwhile drops new tokens, but still signs the tab out when
the refresh is refused. `calls` are requests of pages with the token of their press,
at most `MaxCalls`: the answer to one of `ProfilePage` sets the user shown
(`UpdateMe`), a 401 for one of another page signs the tab out, whoever is signed in
by then. `mixed` records that the user shown was set by such an answer for another
account; it restricts nothing.

## 3. Runs

| Run | Instance | Shows |
|---|---|---|
| `pipeline_safety` | 1 election, 2 voters, all kinds of failure, at most 2, opposite ballots undecided | all safety properties and the refinement `ImplementsLifecycle` |
| `pipeline_two_elections` | 2 elections (symmetric), 1 voter, apply failures and worker crashes, at most 1 | the properties that relate elections, jobs and answers when both elections share table, tick and topics |
| `pipeline_liveness` | 1 election, 2 voters, runner crashes and lost task commits, at most 2, no undecided tally | everything that must eventually happen |
| `pipeline_late_ballot` | as safety | violated: `AcceptsOnlyWhileActive` |
| `pipeline_shown_result` | as safety | violated: `ShownResultIsPublished` |
| `pipeline_skipped_answer` | as safety | violated: `FailedAnswerNotCommitted` |
| `pipeline_undecided` | as liveness, no failures, opposite ballots undecided | violated: `TallyJobFinishes` |
| `sessions_two_browsers` | 2 accounts, 2 browsers with a tab each, 2 sessions, 1 lost answer or reload, 1 pair near its expiry, 1 request of the profile page | one active session, one pair that verifies, no refresh token exchanged twice, a sole tab keeps up with the rotation, a settled tab shows its user unless a late answer of the profile put an earlier one back |
| `sessions_liveness` | 1 account, 2 tabs of one browser, 1 session, 1 request of a page, answers that fail or time out | no tab keeps an expiring pair for ever |
| `voter_app` | see the constants of the five routes in `MCVoterApp` | ballots, submission, pages and verification of a voter |
| `console_app` | see `MCConsoleApp`, nine routes | what organizers, administrators and researchers see and send |
| `rules_race` | `MCElectionRules`: one tab, one save | violated: `RulesChangeWhileEditable` |

### Bounds and why they are enough

*Pipeline.* Two voters suffice to have one ballot before and one after the close
or the tally. Two failures allow a redelivery followed by another failure (a lost
commit and a crash, a duplicate answer and a failed apply), which is what the
violations need; no property mentions more than two versions. There is one job per
election, so two elections are what it takes for answers to meet in a topic.
Symmetry is used for safety only; elections are interchangeable because no
property or action names one. The pipeline never deadlocks: the scheduler always
has a step.

*Sessions.* A replaced session and the one that replaces it are two; a refresh
whose answer is lost, and the refresh by another tab, need one lost answer and one
expiring pair. Two browsers with a tab each are the case in which the storage
differs; two tabs of one browser the case in which it is shared, which is where
the refused refresh of one tab clears the other's tokens, and the run on liveness
has it. One request of the profile page is what it takes to be answered after a
logout and the login of another account; other pages' requests, which only sign out,
are in the run on liveness.

*Voters.* Three candidates give a limit of two something to cut off and a ranking
a place in the middle; three requests are a request, its repetition and another
ballot; two tabs and two presses are the case of a second ballot while the first
is under way; two codes of two attempts let an earlier code be used up, or typed
late, after the next was sent.

*Console.* Every page has the two tabs, loads or requests that can overtake each
other and one event more (a lost answer, another page's move, an edit) that can
come between them. Edits, presses and loads are bounded by the constants
`Max...` of each component. One of the pages that show an election is of another
organizer, whose actions are not found; one entry of the list imported is blank; two
runs opened and one load are a card aborted by a change of the filter and one opened
after it; two loads and a batch are a list of the filter of the press that overtakes
that of the filter chosen since.

The suites and the sessions say `CHECK_DEADLOCK FALSE`: when the bounds are used
up, a user may stop, and nothing is left to happen.

### Fairness

`ElectionPipeline!FairSpec` assumes weak fairness of the tick, of the runner's
loop and of the consumer's loop: each is a `for` loop that never waits for an
administrator, and the ticker fires for as long as the process runs. Strong
fairness of closing and publishing a due election stands for a row not being
locked at every single visit of the scheduler; locks last for one transaction.
Nothing is assumed of administrators, voters, the clock or failures. The liveness
run leaves out the failures from which the code does not recover: a worker crash
between claim and publication, a failed load, a reported write error, a failed
apply. Under each of them a job may stay running, or an election closed, for ever;
section 5 lists the places.

`BrowserSessions!FairSpec`: a call that was sent is run and answered, or ends by
the timeout of 15 s, and the timer of a tab fires. `MCVoterApp!FairSpec`: a
request that is not dead goes on, Redis expires a lock, and a handler whose answer
has come runs. Nothing is assumed of users.

### Properties

Each property is stated in words above its definition. Where it is not obvious why
it takes the form it has: a job that is done may still become `error` (`MarkError`
looks at no status), hence `JobNeverReopens` groups the two and
`JobRefersToNewestResult` says what stays true. `SoleTabStaysCurrent` is about a
browser with one tab, since two tabs refuse each other's refresh.
`ReadyIsAccepted`, `OfferedIsAccepted` compare a page's own checks with those of
the API on the same rules, the numbers being whole. `CardRefusedOnlyIfStale`, the part
of `OfferedIsAccepted` about actions, is about the status, the only thing a card reads:
"open" is also refused when the rules no longer suit the election, and every action when
the election is another organizer's. The following excuse exactly the cases in section
5 in which the code does otherwise, by conditions in their definitions:
`SettledTabShowsItsUser` (a late answer of the profile), `SuccessIsShown` (a reload
out of time), `SummaryIsComplete` (blank entries), `ShownAnswersQuestion` (an answer
lost, a request aborted by the filter, the list of a batch), `RunsFitTheirDataset` (a
form sent early). Each of these cases is in the instance checked.

### Mutants

Every property has a mutant of a mapped definition (`\* Mutant:` in the modules)
that TLC finds in the same run: a dropped status guard, a lock without a time to
live, a cached answer looked for too late, a refresh that leaves the old access
token, a code that replaces none of those before it, an effect that corrects half
of what it should, an overtaken load that is not told apart, and the like.

## 4. Proofs

Each theorem holds for every value of the constants that satisfies the named
assumptions, and every proof is checked to its last leaf.

**`ElectionPipelineProofs`**, for all `Elections` (finite), `Voters`, `Undecided`,
`FaultKinds` and `MaxFaults`:

- `TypeCorrect`: `Spec => []TypeOK`. `TypeOK` is not inductive: publishing a task
  and applying an answer look up the job they name. `TypeInv` adds that the job held
  by the worker, by the runner and by every message in either log is a row of the
  table whose election is the one named next to it. Rows are never removed and
  keep their election (`SameRows`, `JobsGrow`), so references stay valid.
- `ResultsIffReadyHolds`, `PublishedIffStampedHolds`: `ResultsInv` adds that jobs
  exist only for elections that closed (`JobsOfClosed`). With `TypeInv` it follows
  that an answer only reaches a closed election, which is what the apply relies on.
- `PipelineImplementsLifecycle`: `Spec => ImplementsLifecycle`. Every step is a
  stutter (`QuietStepKeeps`) or maps to `Move`, `CloseSome`, `StoreResult` or
  `PublishSome`. `ResultsInv` is needed where the code is laxer than the
  abstraction: "publish" is allowed from `closed`, but no result exists there.

Its second part is about the tally: `OneTallyJobHolds`, `JobRefersHolds`,
`JobNeverReopensHolds`, `CountsEveryBallotHolds`. The inductive invariant
(`TallyInvariant`) says that a closed election has exactly one job (`OneJob`,
`ClosedHasJob`), which is what lets a reference name the newest version, and that
every answer still to come, in the runner's memory or in the topic, counts all
ballots recorded in time (`CountsRight`), which holds because it was computed after
the close. The statements of the tick change a row without ending, reopening or
redirecting it (`QuietRows`), so only closing and applying need an argument of
their own.

**`BrowserSessionsProofs`**, for all accounts, tabs, browsers and numbers of lost
answers: `TypeCorrect`, `OneActiveSessionHolds`, `OnlyNewestPairVerifiesHolds`,
`ExchangedOnceHolds`, `SettledTabShowsItsUserHolds`. `TablesInv` is about the
tables alone: a session knows a pair that was issued for it, a user has one active
row, an access token stays only while its pair is the newest of its session, and a
pair that was exchanged is no longer the newest and never becomes it again. Each
transaction of `AuthTables` keeps it (`IssueKeeps`, `RefreshKeeps`, `EndingKeeps`).
`SessionsInv` adds that every pair named by a tab, a storage or a request is in the
tables (`TabRefers`) and that what a tab has been told of a user is the owner of
the pair it asked with (`TabKnows`), or else that the tab is `mixed`; pairs are never
dropped and keep their owner (`TablesGrow`), so both survive the steps of others.
`SettledTabShowsItsUser` follows for every tab that is not `mixed`.

Its second part is about rotation: `SoleTabStaysCurrentHolds`. What a sole tab knows
of its pairs (`Current`: a pair it holds or asks with is the newest of its session, or
the answer about it was lost) is disturbed only when somebody else exchanges one of
them. `RotationInv` therefore adds that browsers never keep a pair in common (`Apart`)
and that a refresh nobody waits for is of a pair whose answer was lost (`LateLost`).
`Apart` needs that a pair just issued is in nobody's hands, which is `TabRefers` of
the first part. A step of a tab names only what it named, its storage or a pair just
issued (`MoveKeeps`); most name nothing new (`Settles`).

**`VoterPagesProofs`**, for all tabs, candidates, rules, requests, keys and bounds:

- `SubmissionImplementsBox` (`BallotSubmission`): `Spec => Box!BoxSpec`, the promise that
  `RecordsOneBallotForGood` checks in the suite; and `RepeatIsOkAgainHolds`. A request
  is told "ok" after its own insert or from a cached answer; `SubmissionInv` says that
  the ballot on record is that of its key in both cases (`OkIsRecorded`,
  `CachedIsRecorded`), and that as long as no fault came an "ok" leaves an answer in
  the cache (`OkIsCached`), at which a repeated request stops (`RepeatsStopAtCache`).
- `NoticeIsForTheRecordedBallotHolds` (`VotePage`): the ballot on record is given
  once, so a press told "ok" is the press recorded; `VoteInv` needs no more than the
  types beside it.
- `ProfileNoticesAreTrue`, `VerifiedByNewestCode` (`ProfilePage` on
  `EmailVerification`): `ProfileInv` says that only the newest code can be unused and
  that, while it is, its attempts are the codes that did not match since it was made
  (`AccountOK`); that an answer on its way is true of the account (`AnswersAreTrue`);
  and that a save nobody waits for is of names from a form (`LateSavesAreNamed`).
  An account only gains what answers report of it, so a late answer stays true.
- `ReadyIsAcceptedHolds`, `ShownPlaceIsSentHolds` (`BallotForm`): approvals name a
  candidate once each (`FormInv`), rankings are checked for it; what a filter leaves
  of a list with distinct entries is shown place by place (`KeptIs`), and then the
  page's checks imply the API's, format by format.

**`VoterAppProofs`** concludes for the suite: `TypesHold`, `ReadyBallotsAreAccepted`,
`ShownPlacesAreSent`, `RepetitionsAreAnswered`, `NoticesStayTrue`, `OneBallotForGood`,
`VerifiedByNewestCode`: everything `voter_app` checks but liveness.

**`RunsPageProofs`**, for all runs, experiments and bounds: `RunsAreShownRightly`
(`ExperimentRuns`), which is `AnnouncedOnce`, `JobEndsWithRun`, and what list, card and
result show. `RunsInv` counts the ends of a run which the page has announced or still may
from the statuses it read, on its screen and in the load under way, and keeps them below
the ends the run has had (`Backed`); a run and its job agree (`Agreed`); each answer kept
belongs to the question it is kept for (`ListOK`, `AnswersOK`), or the last load was a
batch's under an earlier filter (`detour`), or what was asked for is recorded as `lost`,
by a timeout or by the effect that is undone when the filter changes (`Undone`).

**`ResearchPagesProofs`**, for all datasets, elections, rules, numbers and bounds:

- `RunsSuitTheirDatasets` (`Datasets`): every run fits the format and size of its
  dataset and has its experiment; a reported series is the one asked for; a card is
  that of the dataset asked for last. `SetsInv` says that what a series has made,
  followed by what it has still to make, is what was picked when it was started
  (`SeriesOK`), and what has become of the dataset asked for last (`AskedOK`).
- `RunsSuitTheirPlans` (`ExperimentDraft`): the effects are at rest after every
  render, what is sent is accepted under every rule picked if its numbers are whole
  (`Whole`), runs take the parameters of their rule, a reported series is on record,
  and runs sent when everything asked about the source had come, and nothing was
  changed by hand, suit it. Three effects correct one form, and each sees the form of
  the render before the others' corrections (`Corrected`); `PlanSettledIs` follows
  four renders: the first brings a format that some rule has, the second the rules of
  the format, the third the limits of those rules, and the fourth changes nothing.
  `PlanInv` says that the page rests (`PlanRests`), that its form is that of its
  source unless edited or still to come (`PlanOfSource`), and that the form a series
  sends suits every rule it has still to create (`PlanSeriesOK`), since the checks
  made at the press are not made again.

**`ConsolePagesProofs`**, for all pages, lists of invitations, catalogues, drafts and forms:

- `ScreensAreTrue` (`ElectionScreens`): notices are true, an action a card offers is
  refused for its status only if the card was stale, and no page goes back.
  `ScreensInv` says that what is shown, what a load has read and what the API has are
  in the order of the lifecycle.
- `InvitationsAreReportedRightly` (`InviteDesk`): `DeskInv` says that the entries
  sorted, the blank ones and those still to do make up the list (`Accounted`), and
  that no two desks claim an email (`Claims`), for what a desk claims is on record. An
  invitation is accepted once.
- `SavedRulesAreSound` (`ElectionRulesForm`): rules on record go together, saving an
  untouched form leaves them, and the API accepts what a page lets through, with the
  exception of section 5. `FormInv` says that a form loaded since the last write and
  not touched says what is on record; `UntouchedKeeps` follows the two conversions,
  from record to form and from form to request, through "keep" for every `null`.
  `ReadyAccepted` compares the checks of the page with `validateRuleCompatibility`
  and `validateBallotParams`.
- `ElectionsAreCreatedAsReported` (`ElectionDraft`): the types, `ReadyIsAccepted`,
  `CreatedIsThere`, `EffectsSettle`. The last bounds a counter of renders by four, which
  holds because each render since the last event brings the draft closer to its rule
  (`DraftRendersOK`): after one its format is one the catalogue has (`DraftOffered`),
  after two its rule takes the format (`DraftFits`), after three committee, quota and
  limits are those of the rule (`DraftTrim`), and after four every effect has seen what
  it depends on. A settled draft that passes the page's checks then passes the API's
  (`DraftIsAccepted`). `DraftCallOK` and `DraftToldOK` tie the creation under way and
  the one reported to the election on record.

**`ConsoleAppProofs`** concludes for the suite: `TypesHold`, `ReportsHold`,
`OffersAreAccepted`, `RunsFit`, `FormsComeToRest`, `EndsAreAnnouncedOnce`,
`SummariesAreComplete`, `PagesMoveForward`, `PagesAnswerTheQuestion`,
`RulesAreKeptSound`: everything `console_app` checks.

In both suites the invariant (`SuiteInv`) is that of the page which the route shows.
The suite and the modules of proofs instantiate a component separately; lemmas named
`Same...` say of each definition that is needed that the two instances of it are equal.

What a filter leaves of a list of any length is defined in `PickedLists` by a function
on prefixes. The lemmas on it (in `RunsPageProofs`) go by induction
on the length of the prefix, in the form of the well-foundedness of the naturals, which
is stated with sets and thus within the provers' reach.

Assumptions: `ElectionsFinite`, `UndecidedAssumption`, `MaxFaultsAssumption`;
`NoUserAssumption`, `LossAssumption`, `BrowserOfAssumption`; `EmptyIsNobody` (an
unfilled place of a ranking is not a candidate). Components that only a suite
instantiates have no assumptions of their own. Their theorems have hypotheses instead,
on their constants: `SubmissionParameters`, `VoteParameters`, `ProfileParameters`,
`FormParameters` of the voters, `RunParameters`, `SetParameters`, `DeskParameters`,
`FormParameters` of the rules' form, `DraftParameters`, `PlanParameters`. Most of them
say no more than the types. Where a page and the API are compared they also say what
the rules in the compute service's catalogue (`registry/voting_rules.rs`) have in
common: a catalogue is not empty and its identifiers are distinct; each rule has a
format; rules on scores, and no others, take a range, and no other format; those on
approvals take no scores; and a ranking rule that is not of approvals allows a limit
of positions. Of the plan's sources `PlanParameters` says that some rule has their
format, and that an election that was held has two candidates at least (four halves);
for datasets, which may be imported with one, that is a hypothesis of its own
(`PlanOfTwo`), and of `RunsFitTheirSource` only: the form shows two candidates where
the dataset has one (`ExperimentCreatePage.tsx:405`). The modules of the suites prove
them for the values given there (`SendingParameters`, `VoteAndProfileParameters`,
`ListParameters`, `ScoreParameters`, `RunValues`, `SetValues`, `DeskValues`,
`FormValues`, `DraftValues`, `PlanValues`).

Only model-checked: liveness (`ClosedGetsResult`, `TallyJobFinishes`,
`DueElectionCloses`, `DueElectionIsPublished`, `AgedPairIsReplaced`,
`LockIsFreedAgain`, `SuccessIsShown`), which is out of the prover's reach. Every
invariant and every action property of the passing runs, and both refinements, are
stated by a theorem.

## 5. Findings

Against a document, a comment or a test of the repository, with a run each:

1. A ballot is stored after the close (`submit.go:34` and `:125`). If it comes
   after the tally read the ballots it is accepted and never counted.
2. A redelivered answer adds a version without `published_at` to a published
   election, and that version is what readers get.
3. A failed apply is skipped, and the commit of the next answer commits it.
   The unit test looks at one message only.
4. An undecided tally is never stored: job running, election closed, for ever.
5. Rules are written after the election was opened (`rules.go:56`): the status is
   read before, without a transaction.

Met while modelling; nothing in the repository says otherwise, hence no run:

- *Pipeline.* A job claimed by a worker that dies stays `running`
  (`runner_claim.go:29`); so does one whose task cannot be loaded
  (`tally_dispatch.go:38`); an election that closes without a ballot gets a job in
  `error` and stays `closed`.
- *Sessions.* An answer to the profile page that comes after a logout and another login
  puts the earlier user back on the screen (`auth.tsx:93`, `ProfilePage.tsx:107`). A
  refresh answered after logout signs the tab in again (`auth.tsx:189`). The refused
  refresh of an aborted run of the boot effect signs out a session begun since
  (`auth.tsx:157`), and so does a 401 that a page gets for an earlier token
  (`ElectionsPage.tsx:250`): a voter whose token is rotated while a ballot is sent is
  signed out when the page is loaded again with the token of the press
  (`VotePage.tsx:98`, `:318`).
- *Rules.* `null` fields of a request mean "keep", so switching off the quota, the
  limit of positions or the delayed publication is reported as saved and is not
  stored. Fractions pass the pages and are refused (`experiments/util.go:92`), or
  cannot be decoded. Rules for approvals are offered for rankings; the page then sends no
  limit and is refused. A name is counted in UTF-16 units by the page and in bytes
  by the API.
- *Creation.* When opening a created election fails, the page reports an error and
  keeps the draft: pressing again creates a second election.
- *Actions.* A card offers "open" by the status alone: the API also refuses it for a
  rule, a committee or parameters of the ballot that do not go together
  (`actions.go:66`), and any action on another organizer's election (`:58`).
- *Invitations.* Blank entries of a JSON list are counted in the total and listed
  nowhere (`import_invites.go:54`). A list created by the page does not show its codes;
  `importInvites` and `importFile` have no timeout.
- *Timeouts.* A request that runs out of time ends in an `AbortError`, which the
  pages take for an abort of their own and ignore: a card or a result of the run or
  dataset opened before stays (`ExperimentRunsPage`, `DatasetsPage`,
  `ExperimentCreatePage`), an election stays in the status it had (`ElectionPage.tsx:102`,
  `AdminElectionPage.tsx:290`), and a ballot that was just recorded stays on offer
  (`VotePage.tsx:121`).
- *Filters.* Choosing another experiment aborts the card and the result under way, and
  what was shown before stays (`ExperimentRunsPage.tsx:1146`). A batch that was created
  loads the list with the filter of its press and aborts the load of the filter chosen
  since (`:1246`): the list shown is not that of the filter.
- *Polling.* A load of the lists that was overtaken goes on when its first requests
  have come, and empties the results. The jobs page polls on a timer that aborts
  the load before it: with a server slower than the timer no load ends.
- *Series.* A series of experiments that fails half-way leaves what was created
  unreported, and pressing again creates it a second time (`DatasetsPage.tsx:1083`,
  `ExperimentCreatePage.tsx:836`). A dataset can be seen and run before its ballots
  are stored. The API checks neither format nor limits of a run against its
  dataset; the page may send a form before what is known of a newly chosen dataset
  has come (`ExperimentCreatePage.tsx:384`), and an effect resets the limit a
  dataset brings (`:479`: one approval, no limit of positions). The filter by seed
  in `DatasetsPage` matches nothing: list items have none.
- *Profile.* An older answer, handled after a newer one, puts the earlier user
  back: the address is shown as unverified, or old names return, until the page is
  loaded again. `ConfirmEmailVerification` locks the code before the user and
  `RequestEmailVerification` the user before the code: Postgres may have to end one
  of two simultaneous calls.

## 6. Plan

1. *(done)* `ElectionPipeline` with `ElectionLifecycle`; type correctness, results
   invariants, refinement; then one job per closing, references of jobs, counted
   ballots, jobs that stay ended.
2. *(done)* `BallotSubmission` with `BallotBox`; `BallotForm`, `VotePage`.
3. *(done)* `AuthTables`, `BrowserSessions` and its invariants.
4. *(done)* `ExperimentRuns`, `Datasets`, `ExperimentDraft`.
5. *(done)* `ElectionRulesForm`, `ElectionDraft`, `ElectionScreens`, `InviteDesk`.
6. *(done)* `EmailVerification`, `ProfilePage`.
7. *(done)* Proofs: `SoleTabStaysCurrent`; `BallotBox`; the voters' suite; the
   console's pages, the two drafts and their effects included, and its suite.
8. The elimination and scoring rules of voting-core as operators against reference
   definitions over all small profiles; the rate limiter.

## 7. Not modelled

- *Other pages* (`JobsPage`, `AuditLogPage`, `ExperimentsPage`, `ResultsPage`,
  `NotificationsPage`, administration of users and settings, dashboards): each
  loads a list by one request and renders it. A load that may be overtaken is
  modelled for the pages that act on what they load.
- *Change of password*: one statement; it touches no session.
- *Rate limiter*: a counter and its expiry, two calls; its hazard is listed.
- *Voting core, generators, exports, file formats, gRPC encoding*: pure data or pure
  computation on real numbers, with unit tests of their own.
- *Notifications, admin settings, audit, heartbeat, configuration*: single statements
  beside the core logic.
- TLS, SMTP, nginx and the databases' own durability are trusted.
