-------------------------------- MODULE Datasets --------------------------------
(***************************************************************************)
(* DatasetsPage: datasets are imported, generated or taken over from an     *)
(* election, one is opened, and experiments are made and run on it, rule by *)
(* rule.                                                                   *)
(*                                                                         *)
(* Each of these goes on across several requests while the others do; the   *)
(* buttons of one are not disabled by another, and a load of the list that  *)
(* is overtaken enables those that wait for it.  The API stores a dataset   *)
(* before its ballots, and asks of a run only that its dataset exists.      *)
(***************************************************************************)
EXTENDS Naturals, FiniteSets, Sequences, SequencesExt, Functions, PickedLists

CONSTANTS
  Data,             \* what each dataset is: its format, candidates, and limit (0 without)
  There,            \* those on record when the page opens
  KindOf,           \* how each of the others is made: import, generate or election
  Catalogue,        \* the rules, as a sequence: id, formats, runs
  Numbers,          \* what may be typed into a field
  MaxEvents         \* bound on edits, loads, datasets asked for, and starts of a series

VARIABLES
  api,   \* docs and full: datasets on record, and those with all their ballots
         \* runs: a sequence;  experiments: their number
  page,  \* the state of the page
  past   \* history: events, the dataset asked for last, the rules of the last series

vars == <<api, page, past>>

Ids == DOMAIN Data
Kinds == {"import", "generate", "election"}
Idle == [at |-> "idle", id |-> "none"]
NoSeries == [id |-> "none", format |-> "none", rules |-> <<>>, limit |-> 0, made |-> <<>>,
             at |-> "none"]

\* at         "runs" once the page of runs has been gone to
\* rules      the catalogue, as far as it has come
\* selected   the dataset whose card is shown;  detail: those asked for, waited: by
\*            handleGenerate, lost: in vain
\* load       whose load of the list is under way: the page's own, or after a dataset was made
\* make       the requests that make datasets
\* picked, limit, limited, scale  the form of a series of experiments
\* series     what is being run;  told: datasets and runs reported
Init ==
  /\ api = [docs |-> There, full |-> There, runs |-> <<>>, experiments |-> 0]
  /\ page = [at |-> "here", rules |-> <<>>, items |-> {}, load |-> "page", loading |-> TRUE,
             selected |-> "none", detail |-> <<>>, waited |-> FALSE, lost |-> FALSE,
             make |-> [k \in Kinds |-> Idle],
             picked |-> <<>>, limit |-> [approval |-> 2, ranking |-> 3], limited |-> FALSE,
             scale |-> TRUE, series |-> NoSeries,
             toldData |-> {}, toldRuns |-> <<>>]
  /\ past = [events |-> 0, asked |-> "none", pressed |-> <<>>]

\* The dataset asked for last, in a step from page to p.
AskedBy(p) == IF p.detail \notin {page.detail, <<>>} THEN Last(p.detail) ELSE past.asked

\* A step to p, with n of the events that are counted.
Becomes(p, n) ==
  /\ past.events + n <= MaxEvents
  /\ page' = p
  /\ past' = [past EXCEPT !.events = @ + n, !.asked = AskedBy(p)]

-----------------------------------------------------------------------------
(* The list, and one dataset.                                              *)

\* What was asked for has come, or will not; handleGenerate waits for it to enable the buttons.
DetailOver(p) ==
  [p EXCEPT !.detail = <<>>, !.waited = FALSE, !.loading = @ /\ ~p.waited]

\* loadDetail aborts what was asked for before.
Asking(p, id) == [DetailOver(p) EXCEPT !.detail = <<id>>, !.lost = FALSE]

\* A load of the list is over, whatever came of it: who waited for it opens the dataset made.
LoadOver(p) ==
  LET own == {k \in Kinds : k = p.load /\ p.make[k].at = "listing"}
      q == [p EXCEPT !.load = "none", !.loading = FALSE,
                     !.make = [k \in Kinds |-> IF k \in own THEN Idle ELSE @[k]]]
      opened == {p.make[k].id : k \in own \ {"import"}}
  IN IF opened = {} THEN q
     ELSE [Asking(q, CHOOSE id \in opened : TRUE) EXCEPT !.waited = "generate" \in own]

\* loadList: overtaking another load, this one's flag is cleared by the end of that.
StartLoad(p, owner) ==
  [LoadOver(p) EXCEPT !.load = owner, !.loading = p.load = "none"]

Refresh ==
  /\ ~page.loading
  /\ Becomes(StartLoad(page, "page"), 1)
  /\ UNCHANGED api

\* The token is renewed: the list is loaded again, and what was asked for is dropped.
Renew ==
  /\ page.detail # <<>> \/ page.load # "none"
  /\ LET dropped == [DetailOver(page) EXCEPT !.lost = @ \/ page.detail # <<>>]
     IN Becomes([StartLoad(dropped, "page") EXCEPT !.loading = @ /\ ~page.waited], 1)
  /\ UNCHANGED api

ListEnds ==
  /\ page.load # "none"
  /\ \E items \in {api.docs, page.items, {}} :
       Becomes(LoadOver([page EXCEPT !.items = items]), 0)
  /\ UNCHANGED api

\* What can be run on ballots of a format.
RulesFor(p, format) ==
  Picked(p.rules, {i \in DOMAIN p.rules : p.rules[i].runs /\ format \in p.rules[i].formats})
IdsOf(rules) == [i \in DOMAIN rules |-> rules[i].id]

Least(a, b) == IF a < b THEN a ELSE b

\* The effect of a dataset opened, or of rules that have come: what was picked stays if
\* the format allows it, and the limits are those of the dataset.
Fitted(p) ==
  IF p.selected = "none" THEN [p EXCEPT !.picked = <<>>]
  ELSE LET d == Data[p.selected]
           allowed == RulesFor(p, d.format)
           kept == Picked(p.picked, {i \in DOMAIN p.picked :
                                       p.picked[i] \in ToSet(IdsOf(allowed))})
           default == IF d.format = "approval" THEN 2 ELSE 3
           limit == Least(d.count, IF d.limit = 0 THEN default ELSE d.limit)
       IN [p EXCEPT
             !.picked = IF kept # <<>> THEN kept
                        ELSE IdsOf(SubSeq(allowed, 1, Least(3, Len(allowed)))),
             !.limit = IF d.format = "score" THEN @ ELSE [@ EXCEPT ![d.format] = limit],
             !.limited = IF d.format = "ranking" THEN d.limit # 0 ELSE @,
             !.scale = IF d.format = "score" THEN TRUE ELSE @]

RulesArrive ==
  /\ page.rules = <<>>
  /\ page' = Fitted([page EXCEPT !.rules = Catalogue])
  /\ UNCHANGED <<api, past>>

\* What the list offers: its filters are the page's own, and without them it is all of it.
Offered(p) == p.items

OpenDataset(id) ==
  /\ id \in Offered(page) /\ page.detail = <<>>
  /\ Becomes(Asking(page, id), 1)
  /\ UNCHANGED api

DetailArrives ==
  /\ page.detail # <<>>
  /\ page' = Fitted([DetailOver(page) EXCEPT !.selected = Head(page.detail)])
  /\ UNCHANGED <<api, past>>

\* Refused, nothing is shown; out of time, what was shown stays.
DetailLost ==
  /\ page.detail # <<>>
  /\ \E shown \in {page.selected, "none"} :
       page' = Fitted([DetailOver(page) EXCEPT !.selected = shown, !.lost = TRUE])
  /\ UNCHANGED <<api, past>>

-----------------------------------------------------------------------------
(* Making datasets.                                                        *)

\* handleImport, handleGenerate, handleCreateDatasetFromElection.  Bound: one request of
\* each kind at a time, although the button may be enabled before the first is answered.
Make(k, id) ==
  /\ id \in Ids \ api.docs /\ KindOf[id] = k
  /\ page.make[k].at = "idle"
  /\ k = "election" \/ ~page.loading
  /\ Becomes([page EXCEPT !.make[k] = [at |-> "sent", id |-> id],
                          !.loading = k # "election" \/ @], 1)
  /\ UNCHANGED api

\* The dataset comes first, its ballots after it.
StoreDataset(k) ==
  /\ page.make[k].at = "sent"
  /\ api' = [api EXCEPT !.docs = @ \cup {page.make[k].id}]
  /\ page' = [page EXCEPT !.make[k].at = "stored"]
  /\ UNCHANGED past

\* handleGenerate takes the limits over for the series to come, before the dataset is opened.
GeneratedLimits(p, d) ==
  CASE d.format = "approval" -> [p EXCEPT !.limit.approval = d.limit]
    [] d.format = "ranking" -> [p EXCEPT !.limited = d.limit # 0,
                                         !.limit.ranking = IF d.limit = 0 THEN @ ELSE d.limit]
    [] OTHER -> p

StoreBallots(k) ==
  /\ page.make[k].at = "stored"
  /\ LET id == page.make[k].id
         told == [page EXCEPT !.make[k].at = "listing", !.toldData = @ \cup {id}]
         p == IF k = "generate" THEN GeneratedLimits(told, Data[id]) ELSE told
     IN Becomes(StartLoad(p, k), 0) /\ api' = [api EXCEPT !.full = @ \cup {id}]

\* Refused, or given up: what has been stored stays as it is.
MakeFails(k) ==
  /\ page.make[k].at \in {"sent", "stored"}
  /\ page' = [page EXCEPT !.make[k] = Idle, !.loading = k = "election" /\ @]
  /\ UNCHANGED <<api, past>>

-----------------------------------------------------------------------------
(* A series of experiments, one for each rule picked.                      *)

Toggle(r) ==
  /\ page.selected # "none" /\ r \in ToSet(RulesFor(page, Data[page.selected].format))
  /\ Becomes([page EXCEPT !.picked = IF r.id \in ToSet(@) THEN Without(@, r.id)
                                     ELSE Append(@, r.id)], 1)
  /\ UNCHANGED api

Edit ==
  /\ page.selected # "none"
  /\ LET format == Data[page.selected].format
     IN \/ /\ format # "score"
           /\ \E n \in Numbers : Becomes([page EXCEPT !.limit[format] = n], 1)
        \/ format = "ranking" /\ Becomes([page EXCEPT !.limited = ~@], 1)
        \/ format = "score" /\ Becomes([page EXCEPT !.scale = ~@], 1)
  /\ UNCHANGED api

\* The limit that goes into the parameters, 0 without.
LimitOf(p, format) ==
  CASE format = "approval" -> p.limit.approval
    [] format = "ranking" /\ p.limited -> p.limit.ranking
    [] OTHER -> 0

\* The checks of handleCreateAndRunExperiments.
Ready(p) ==
  /\ p.selected # "none" /\ p.rules # <<>> /\ p.picked # <<>>
  /\ LET d == Data[p.selected]
         bound == \/ d.format = "approval"
                  \/ d.format = "ranking" /\ p.limited
     IN /\ ToSet(p.picked) \subseteq ToSet(IdsOf(RulesFor(p, d.format)))
        /\ bound => LimitOf(p, d.format) \in 1..d.count
        /\ d.format = "score" => p.scale

\* Mutant: the dataset is looked up again for each rule.
CurrentDataset(p) == p.selected

\* selected, as it was when the button was pressed.
SeriesDataset(p) == p.series.id

Press ==
  /\ page.series = NoSeries /\ Ready(page)
  /\ past.events < MaxEvents
  /\ LET format == Data[page.selected].format
     IN page' = [page EXCEPT
          !.series = [id |-> page.selected, format |-> format, rules |-> page.picked,
                      limit |-> LimitOf(page, format), made |-> <<>>, at |-> "create"]]
  /\ past' = [past EXCEPT !.events = @ + 1, !.pressed = page.picked]
  /\ UNCHANGED api

CreateExperiment ==
  /\ page.series.at = "create"
  /\ api' = [api EXCEPT !.experiments = @ + 1]
  /\ page' = [page EXCEPT !.series.at = "batch"]
  /\ UNCHANGED past

RunFor(p) == [id |-> SeriesDataset(p), rule |-> Head(p.series.rules), format |-> p.series.format,
              limit |-> p.series.limit]

\* The last answer reports the series and goes to the page of runs.
AfterRun(p, n) ==
  LET s == [p.series EXCEPT !.rules = Tail(@), !.made = Append(@, n), !.at = "create"]
  IN IF s.rules # <<>> THEN [p EXCEPT !.series = s]
     ELSE [p EXCEPT !.series = NoSeries, !.toldRuns = s.made, !.at = "runs"]

BatchRun ==
  /\ page.series.at = "batch" /\ SeriesDataset(page) \in api.docs
  /\ api' = [api EXCEPT !.runs = Append(@, RunFor(page))]
  /\ page' = AfterRun(page, Len(api.runs) + 1)
  /\ UNCHANGED past

\* One request of the series is refused, or done and its answer lost: the page reports the
\* error, and what has been created before it stays without a word.
SeriesFails ==
  /\ page.series.at \in {"create", "batch"}
  /\ page' = [page EXCEPT !.series = NoSeries]
  /\ \/ api' = api
     \/ /\ page.series.at = "create"
        /\ api' = [api EXCEPT !.experiments = @ + 1]
     \/ /\ page.series.at = "batch" /\ SeriesDataset(page) \in api.docs
        /\ api' = [api EXCEPT !.runs = Append(@, RunFor(page))]
  /\ UNCHANGED past

Next ==
  /\ page.at = "here"
  /\ \/ Refresh \/ Renew \/ ListEnds \/ RulesArrive \/ DetailArrives \/ DetailLost
     \/ \E id \in Ids : OpenDataset(id)
     \/ \E k \in Kinds : StoreDataset(k) \/ StoreBallots(k) \/ MakeFails(k)
     \/ \E k \in Kinds, id \in Ids : Make(k, id)
     \/ \E r \in ToSet(Catalogue) : Toggle(r)
     \/ Edit \/ Press \/ CreateExperiment \/ BatchRun \/ SeriesFails

-----------------------------------------------------------------------------
(* Properties.                                                             *)

TypeOK ==
  /\ There \subseteq api.full /\ api.full \subseteq api.docs /\ api.docs \subseteq Ids
  /\ page.items \subseteq Ids /\ page.selected \in Ids \cup {"none"}
  /\ Len(page.detail) <= 1
  /\ ToSet(page.picked) \subseteq {r.id : r \in ToSet(Catalogue)}

\* Every run on record suits its dataset: a rule for its format, and a limit no larger than
\* the number of its candidates.  The API does not look, and datasets are opened, made and
\* loaded while the series goes on.
RunsFitTheirDataset ==
  \A i \in DOMAIN api.runs :
    LET run == api.runs[i]  d == Data[run.id]
    IN /\ run.format = d.format /\ run.limit <= d.count
       /\ \E r \in ToSet(Catalogue) : r.id = run.rule /\ r.runs /\ d.format \in r.formats

\* A series that is reported has one run on record for each rule picked when it was started,
\* of one dataset; a dataset that is reported has all its ballots.
ReportedIsThere ==
  /\ page.toldData \subseteq api.full
  /\ page.toldRuns # <<>> =>
       /\ Len(page.toldRuns) = Len(past.pressed)
       /\ \A i \in DOMAIN page.toldRuns : api.runs[page.toldRuns[i]].rule = past.pressed[i]
       /\ Cardinality({api.runs[n].id : n \in ToSet(page.toldRuns)}) = 1

\* When nothing is under way and nothing was lost, the card shown is that of the dataset
\* asked for last, be it by a click or by the end of its making.
CardIsOfLastAsked == page.detail = <<>> /\ ~page.lost => page.selected = past.asked

\* There is an experiment for each run, and the list never shows a dataset that is not there.
EachRunHasItsExperiment ==
  Len(api.runs) <= api.experiments /\ page.items \subseteq api.docs
=============================================================================
