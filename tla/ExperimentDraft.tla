---------------------------- MODULE ExperimentDraft ----------------------------
(***************************************************************************)
(* ExperimentCreatePage: an experiment drawn up in three steps, on a        *)
(* dataset or on a published election, and run with several rules.         *)
(*                                                                         *)
(* The form is filled in from the source chosen, when what is known of it  *)
(* has come, and by hand; three effects correct it.  They see the form of  *)
(* the render they belong to, so that the limits a dataset brings may be   *)
(* put back because of the rules picked before it came.  Sending the form  *)
(* makes a dataset of the election, then an experiment and a run per rule. *)
(*                                                                         *)
(* Numbers are counted in halves: a field takes any finite number, the API *)
(* of experiments only integers.                                           *)
(***************************************************************************)
EXTENDS FiniteSets, TallyRules

CONSTANTS
  Data,       \* datasets: format, count of candidates, limit (0 without), in halves
  Elections,  \* published elections: the same, of two candidates at least;
              \* a dataset made of one has its id
  Catalogue,  \* the rules for experiments
  Numbers,    \* what is typed into a field, in halves
  Scales,     \* minimum, maximum and step of scores, in halves
  MaxEvents   \* bound on edits, choices, series and faults

VARIABLES
  api,   \* runs, a sequence, and the number of datasets taken from elections
  page,  \* the state of the page
  past   \* events;  touched: what a source fills in was changed by hand since one was chosen

vars == <<api, page, past>>

LastStep == 2
Sources == {"dataset", "published_election"}
NoSeries == [at |-> "none", sure |-> FALSE]
Unseen == [n |-> 0]
DefaultScale == [min |-> 0, max |-> 20, step |-> 2]

\* What may stand in the field of the seed: nothing, a number, or no number.
Seeds == {"none", "whole", "fraction", "word"}

\* ds, el     the dataset and the election chosen, "none" before their lists have come
\* detail     the datasets asked for;  lost: the last of them in vain
\* fitted     what format the rules picked were last fitted to
\* ran        what the effect on the limits has last seen
\* created    the runs reported
Fresh ==
  [step |-> 0, source |-> "dataset", ds |-> "none", el |-> "none", detail |-> <<>>,
   lost |-> FALSE, rules |-> <<>>, picked |-> <<>>, fitted |-> "none", ran |-> Unseen,
   format |-> "ranking", count |-> 10, committee |-> 2, quota |-> FALSE, amax |-> 4,
   top |-> FALSE, topK |-> 6, scale |-> DefaultScale, seed |-> "none",
   series |-> NoSeries, created |-> <<>>]

-----------------------------------------------------------------------------
(* What follows from the form and the catalogue.                           *)

PickedRules(p) == {Find(p.rules, id) : id \in ToSet(p.picked)}

\* selectedRulesSupport..., selectedRulesNeed...
Some(p) ==
  [topK |-> \E r \in PickedRules(p) : r.topK, approval |-> \E r \in PickedRules(p) : r.approval,
   range |-> \E r \in PickedRules(p) : r.range, quota |-> \E r \in PickedRules(p) : r.quota]

MaxCommittee(p) == IF p.count < 2 THEN 2 ELSE p.count

\* What the effect on the limits depends on.
Seen(p) ==
  [n |-> Len(p.picked), some |-> Some(p), format |-> p.format, committee |-> p.committee,
   max |-> MaxCommittee(p), quota |-> p.quota]

\* The first effect: the rules picked are those of the format, or the first of them.
FittedRules(p) ==
  LET fitting == ForFormat(p.rules, p.format)
      kept == Picked(p.picked, {i \in DOMAIN p.picked : Find(fitting, p.picked[i]) # NoRule})
  IN CASE p.fitted = p.format \/ p.rules = <<>> -> p.picked
       [] p.fitted # p.format /\ p.rules # <<>> /\ kept # <<>> -> kept
       [] OTHER -> [i \in 1..(IF fitting = <<>> THEN 0 ELSE 1) |-> fitting[i].id]

\* The effect on the limits has something to do.
New(p) == p.picked # <<>> /\ p.ran # Seen(p)

\* What each effect makes of the form of its render.
NoTop(p) == p.format = "ranking" /\ New(p) /\ ~Some(p).topK

FormatFor(p) ==
  IF p.rules = <<>> \/ p.format \in UNION {r.formats : r \in ToSet(p.rules)} THEN p.format
  ELSE CHOOSE f \in Head(p.rules).formats : TRUE

MaxFor(p) == IF p.format = "approval" /\ New(p) /\ ~Some(p).approval THEN 2 ELSE p.amax

ScaleFor(p) == IF p.format = "score" /\ New(p) /\ ~Some(p).range THEN DefaultScale ELSE p.scale

CommitteeFor(p) ==
  IF p.committee > MaxCommittee(p) /\ New(p) THEN MaxCommittee(p) ELSE p.committee

\* The effects of one render: each sees the form of that render.
Corrected(p) ==
  [p EXCEPT
    !.picked = FittedRules(p),
    !.fitted = IF p.rules = <<>> THEN @ ELSE p.format,
    !.ran = Seen(p),
    !.format = FormatFor(p),
    !.topK = IF NoTop(p) THEN 2 ELSE @,
    !.top = @ /\ ~NoTop(p),
    !.amax = MaxFor(p),
    !.scale = ScaleFor(p),
    !.quota = @ /\ (New(p) => Some(p).quota),
    !.committee = CommitteeFor(p)]

\* The effects run until nothing changes; four renders are enough.
Settled(p) == Corrected(Corrected(Corrected(Corrected(p))))

Init ==
  /\ api = [runs |-> <<>>, taken |-> 0]
  /\ page = Settled(Fresh)
  /\ past = [events |-> 0, touched |-> FALSE]

-----------------------------------------------------------------------------
(* The lists and the sources.                                              *)

Becomes(p, n) ==
  /\ past.events + n <= MaxEvents
  /\ page' = Settled(p) /\ past' = [past EXCEPT !.events = @ + n]

\* Mutant: the effect does not abort the request of the dataset chosen before.
AskedBeside(p) == IF p.source # "dataset" THEN <<>> ELSE Append(p.detail, p.ds)

\* The effect that asks for the dataset; what it asked for before is aborted.
Asked(p) == IF p.source # "dataset" \/ p.ds = "none" THEN <<>> ELSE <<p.ds>>

\* What an election brings when it is chosen.
FromElection(p) ==
  IF p.source # "published_election" \/ p.el = "none" THEN p
  ELSE LET e == Elections[p.el]
       IN [p EXCEPT !.format = e.format, !.count = e.count,
                    !.committee = Clamp(@, 2, e.count)]

\* The effects of another source, another dataset or another election.
Chosen(p) == FromElection([p EXCEPT !.detail = Asked(p), !.lost = FALSE])

Untouched(n) ==
  past.events + n <= MaxEvents /\ past' = [events |-> past.events + n, touched |-> FALSE]

RulesArrive ==
  /\ page.rules = <<>>
  /\ Becomes([page EXCEPT !.rules = Catalogue], 0)
  /\ UNCHANGED api

DatasetsArrive ==
  /\ page.ds = "none"
  /\ page' = Settled(IF page.source # "dataset"
                     THEN [page EXCEPT !.ds = CHOOSE id \in DOMAIN Data : TRUE]
                     ELSE Chosen([page EXCEPT !.ds = CHOOSE id \in DOMAIN Data : TRUE]))
  /\ IF page.source = "dataset" THEN Untouched(0) ELSE UNCHANGED past
  /\ UNCHANGED api

ElectionsArrive ==
  /\ page.el = "none"
  /\ page' = Settled(FromElection([page EXCEPT !.el = CHOOSE id \in DOMAIN Elections : TRUE]))
  /\ IF page.source # "dataset" THEN Untouched(0) ELSE UNCHANGED past
  /\ UNCHANGED api

ChooseSource ==
  /\ page.step = 0
  /\ LET other == CHOOSE s \in Sources : s # page.source
     IN page' = Settled(Chosen([page EXCEPT !.source = other]))
  /\ Untouched(1) /\ UNCHANGED api

ChooseDataset(id) ==
  /\ page.step = 0 /\ page.source = "dataset" /\ page.ds \notin {"none", id}
  /\ page' = Settled(Chosen([page EXCEPT !.ds = id]))
  /\ Untouched(1) /\ UNCHANGED api

ChooseElection(id) ==
  /\ page.step = 0 /\ page.source = "published_election" /\ page.el \notin {"none", id}
  /\ page' = Settled(Chosen([page EXCEPT !.el = id]))
  /\ Untouched(1) /\ UNCHANGED api

\* The number of candidates the form shows for a source.
Shown(d) == IF d.count < 4 THEN 4 ELSE d.count

\* A dataset brings its format, its candidates, and the limit of its format.
FromDataset(p, d) ==
  [p EXCEPT !.format = d.format, !.count = Shown(d), !.committee = Clamp(@, 2, Shown(d)),
            !.amax = IF d.format = "approval" /\ d.limit > 0 THEN Clamp(d.limit, 2, Shown(d)) ELSE @,
            !.top = d.format = "ranking" /\ d.limit > 0,
            !.topK = IF d.format = "ranking" /\ d.limit > 0 THEN Clamp(d.limit, 2, Shown(d)) ELSE @]

DetailArrives(i) ==
  /\ Becomes(FromDataset([page EXCEPT !.detail = RemoveAt(@, i)], Data[page.detail[i]]), 0)
  /\ UNCHANGED api

\* Refused or out of time; the form stays that of an earlier source.
DetailLost(i) ==
  /\ Becomes([page EXCEPT !.detail = RemoveAt(@, i), !.lost = TRUE], 1)
  /\ UNCHANGED api

-----------------------------------------------------------------------------
(* The fields and the steps.                                               *)

\* toggleRuleSelection
Toggle(id) ==
  /\ page.step = 0 /\ Find(ForFormat(page.rules, page.format), id) # NoRule
  /\ Becomes([page EXCEPT !.picked = IF id \in ToSet(@) THEN Without(@, id) ELSE Append(@, id)], 1)
  /\ UNCHANGED api

EditFirst ==
  /\ page.step = 0
  /\ \/ \E n \in Numbers : Becomes([page EXCEPT !.committee = n], 1)
     \/ \E x \in Seeds \ {page.seed} : Becomes([page EXCEPT !.seed = x], 1)
     \/ Some(page).quota /\ Becomes([page EXCEPT !.quota = ~@], 1)
  /\ UNCHANGED api

\* The format and the number of candidates can be changed by hand, whatever the source.
EditSource ==
  /\ page.step = 0 /\ past.events < MaxEvents
  /\ \/ \E f \in UNION {r.formats : r \in ToSet(page.rules)} :
          f # page.format /\ page' = Settled([page EXCEPT !.format = f])
     \/ \E n \in Numbers : page' = Settled([page EXCEPT !.count = n])
  /\ past' = [events |-> past.events + 1, touched |-> TRUE]
  /\ UNCHANGED api

\* The fields of scores are shown whatever the rules.
EditSecond ==
  /\ page.step = 1
  /\ LET some == Some(page)
     IN \/ /\ page.format = "approval" /\ some.approval
           /\ \E n \in Numbers : Becomes([page EXCEPT !.amax = n], 1)
        \/ page.format = "ranking" /\ some.topK /\ Becomes([page EXCEPT !.top = ~@], 1)
        \/ /\ page.format = "ranking" /\ some.topK /\ page.top
           /\ \E n \in Numbers : Becomes([page EXCEPT !.topK = n], 1)
        \/ page.format = "score" /\ \E s \in Scales : Becomes([page EXCEPT !.scale = s], 1)
  /\ UNCHANGED api

\* validateStep
Valid(p, target) ==
  LET some == Some(p)
  IN /\ IF p.source = "dataset" THEN p.ds # "none" ELSE p.el # "none"
     /\ p.rules # <<>> /\ p.picked # <<>> /\ NoRule \notin PickedRules(p)
     /\ \A r \in PickedRules(p) : p.format \in r.formats
     /\ p.count >= 4 /\ p.seed # "word"
     /\ (\E r \in PickedRules(p) : r.committee) => p.committee >= 2
     /\ target >= 1 =>
          /\ p.format = "approval" /\ some.approval => p.amax \in 2..p.count
          /\ p.format = "ranking" /\ some.topK /\ p.top => p.topK \in 2..p.count
          /\ p.format = "score" /\ some.range =>
               /\ p.scale.step > 0 /\ p.scale.min <= p.scale.max
               /\ (p.scale.max - p.scale.min) % p.scale.step = 0

\* goNext, goBack
GoNext ==
  /\ page.series.at = "none" /\ page.step < LastStep /\ Valid(page, page.step)
  /\ page' = [page EXCEPT !.step = @ + 1]
  /\ UNCHANGED <<api, past>>

\* goBack, and goToStep from the header, which stays enabled.
GoTo(s) ==
  /\ s # page.step /\ (s < page.step \/ Valid(page, s - 1))
  /\ page' = [page EXCEPT !.step = s]
  /\ UNCHANGED <<api, past>>

-----------------------------------------------------------------------------
(* Sending the form.                                                       *)

SourceId(p) == IF p.source = "dataset" THEN p.ds ELSE p.el

\* What the form knows of its source is what it shows.
Sure(p) == p.detail = <<>> /\ ~p.lost /\ ~past.touched

\* submit, with the form of the render it was pressed in
Press ==
  /\ page.step = LastStep /\ page.series.at = "none" /\ page.created = <<>>
  /\ Valid(page, LastStep)
  /\ Becomes([page EXCEPT !.series =
       [at |-> IF page.source = "dataset" THEN "create" ELSE "dataset", sure |-> Sure(page),
        id |-> SourceId(page), rules |-> page.picked, made |-> <<>>,
        form |-> [format |-> page.format, count |-> page.count, committee |-> page.committee,
                  quota |-> page.quota, amax |-> page.amax,
                  topK |-> IF page.top THEN page.topK ELSE -1, scale |-> page.scale,
                  seed |-> page.seed]]], 1)
  /\ UNCHANGED api

\* Mutant: the parameters are those of all rules picked.
SharedBody(form, rule) == [form EXCEPT !.amax = IF form.format = "approval" THEN @ ELSE -1]

\* The parameters for one rule: those it does not take are deleted.
Body(form, rule) ==
  [form EXCEPT !.quota = @ /\ rule.quota,
               !.amax = IF form.format = "approval" /\ rule.approval THEN @ ELSE -1,
               !.topK = IF form.format = "ranking" /\ rule.topK THEN @ ELSE -1,
               !.scale = IF form.format = "score" /\ rule.range THEN @ ELSE NoScale]

BodyOf(s) == Body(s.form, Find(page.rules, Head(s.rules)))

\* asInt64 of each number sent, and the type of the seed.
Whole(b) ==
  /\ \A n \in {b.committee, b.amax, b.topK} : n = -1 \/ n % 2 = 0
  /\ b.scale = NoScale \/ \A k \in DOMAIN b.scale : b.scale[k] % 2 = 0
  /\ b.seed # "fraction"

\* The decoding of the body, and validateParams of the API.
Accepts(b) ==
  /\ Whole(b)
  /\ b.committee > 0 /\ b.amax # 0 /\ b.topK # 0
  /\ b.scale = NoScale \/ (b.scale.step > 0 /\ b.scale.min <= b.scale.max)

\* api.datasets.fromElection
TakeDataset ==
  /\ page.series.at = "dataset"
  /\ api' = [api EXCEPT !.taken = @ + 1]
  /\ page' = [page EXCEPT !.series.at = "create"]
  /\ UNCHANGED past

CreateExperiment ==
  /\ page.series.at = "create" /\ Accepts(BodyOf(page.series))
  /\ page' = [page EXCEPT !.series.at = "batch"]
  /\ UNCHANGED <<api, past>>

\* What the page lets through is refused all the same: the series ends with an error, and
\* what has been made stays.
CreateRefused ==
  /\ page.series.at = "create" /\ ~Accepts(BodyOf(page.series))
  /\ page' = [page EXCEPT !.series = NoSeries]
  /\ UNCHANGED <<api, past>>

RunOf(s) == [id |-> s.id, rule |-> Head(s.rules), sure |-> s.sure, body |-> BodyOf(s)]

BatchRun ==
  /\ page.series.at = "batch"
  /\ api' = [api EXCEPT !.runs = Append(@, RunOf(page.series))]
  /\ LET s == [page.series EXCEPT !.rules = Tail(@), !.at = "create",
                                  !.made = Append(@, Len(api.runs) + 1)]
     IN page' = IF s.rules # <<>> THEN [page EXCEPT !.series = s]
                ELSE [page EXCEPT !.series = NoSeries, !.created = s.made, !.step = LastStep]
  /\ UNCHANGED past

\* One request is refused, or its answer lost: the page reports an error, and what has been
\* made stays without a word and is made again by the next press.
SeriesFails ==
  /\ page.series.at # "none"
  /\ Becomes([page EXCEPT !.series = NoSeries], 1)
  /\ \/ api' = api
     \/ page.series.at = "dataset" /\ api' = [api EXCEPT !.taken = @ + 1]
     \/ page.series.at = "batch" /\ api' = [api EXCEPT !.runs = Append(@, RunOf(page.series))]

Next ==
  \/ RulesArrive \/ DatasetsArrive \/ ElectionsArrive
  \/ ChooseSource
  \/ \E id \in DOMAIN Data : ChooseDataset(id)
  \/ \E id \in DOMAIN Elections : ChooseElection(id)
  \/ \E i \in DOMAIN page.detail : DetailArrives(i) \/ DetailLost(i)
  \/ \E r \in ToSet(Catalogue) : Toggle(r.id)
  \/ EditFirst \/ EditSource \/ EditSecond
  \/ GoNext \/ \E s \in 0..LastStep : GoTo(s)
  \/ Press \/ TakeDataset \/ CreateExperiment \/ CreateRefused \/ BatchRun \/ SeriesFails

-----------------------------------------------------------------------------
(* Properties.                                                             *)

TypeOK ==
  /\ page.step \in 0..LastStep /\ page.source \in Sources /\ Len(page.detail) <= 1
  /\ page.ds \in DOMAIN Data \cup {"none"} /\ page.el \in DOMAIN Elections \cup {"none"}
  /\ page.format \in Formats

\* The effects come to rest within the renders Settled allows them, and leave the committee
\* no larger than the number of candidates once rules are picked.
EffectsSettle ==
  /\ Corrected(page) = page
  /\ page.picked # <<>> => page.committee <= MaxCommittee(page)

\* A form of whole numbers the page lets through is accepted by the API for each of its
\* rules; the page does not look whether the numbers are whole.
ReadyIsAccepted ==
  page.series.at \in {"create", "batch"} /\ Whole(BodyOf(page.series))
    => Accepts(BodyOf(page.series))

\* A run has a rule that supports its format, and the parameters its rule takes and no
\* others, within the number of candidates, although one form serves several rules.
RunsSuitTheirRule ==
  \A i \in DOMAIN api.runs :
    LET b == api.runs[i].body  rule == Find(Catalogue, api.runs[i].rule)
    IN /\ b.format \in rule.formats /\ (b.quota => rule.quota) /\ (b.topK # -1 => rule.topK)
       /\ b.amax # -1 => rule.approval /\ b.amax \in 2..b.count
       /\ b.topK # -1 => b.topK \in 2..b.count

\* When everything asked about the source had come and nothing of it was changed by hand,
\* the runs are in the format of their dataset and within its candidates, however often
\* the source was chosen anew.
RunsFitTheirSource ==
  \A i \in DOMAIN api.runs :
    LET run == api.runs[i]
        d == IF run.id \in DOMAIN Data THEN Data[run.id] ELSE Elections[run.id]
    IN run.sure => /\ run.body.format = d.format /\ run.body.committee <= d.count
                   /\ run.body.amax <= d.count /\ run.body.topK <= d.count

\* What is reported is on record: a run for each rule, all of one dataset.
ReportedIsThere ==
  /\ Cardinality({api.runs[i].id : i \in ToSet(page.created)}) <= 1
  /\ ToSet(page.created) \subseteq DOMAIN api.runs
=============================================================================
