-------------------------- MODULE ResearchPagesProofs --------------------------
(***************************************************************************)
(* Theorems about the pages of researchers, for any datasets, elections,   *)
(* rules and bounds.                                                       *)
(*                                                                         *)
(* Datasets: what a series has made and what it has still to make are what *)
(* was picked when it was started, on a dataset it suits; what was asked   *)
(* for last is what is waited for or shown.                                *)
(*                                                                         *)
(* ExperimentDraft: the effects are at rest whenever the page is shown,    *)
(* its rules, format and numbers are of the source until one is edited,    *)
(* and a series sends rules and numbers the page has found to go together. *)
(***************************************************************************)
EXTENDS RunsPageProofs

CONSTANTS
  Data, There, KindOf, RunRules, SetNumbers, SetEvents,
                              \* see Datasets
  PlanData, Polls, PlanRules, PlanNumbers, PlanScales, PlanEvents
                              \* see ExperimentDraft

Sets == INSTANCE Datasets WITH Catalogue <- RunRules, Numbers <- SetNumbers,
                               MaxEvents <- SetEvents
Plan == INSTANCE ExperimentDraft WITH Data <- PlanData, Elections <- Polls,
                                      Catalogue <- PlanRules, Numbers <- PlanNumbers,
                                      Scales <- PlanScales, MaxEvents <- PlanEvents

-----------------------------------------------------------------------------
(* Datasets.                                                               *)

DataIds == DOMAIN Data
DataNames == DataIds \cup {"none"}
DataKinds == {"import", "generate", "election"}
DataFormats == {"approval", "ranking", "score"}
RuleSet == {RunRules[i] : i \in DOMAIN RunRules}
RuleNames == {r.id : r \in RuleSet}

\* At most one dataset is being asked for.
Openings == {<<>>} \cup {<<id>> : id \in DataIds}

DataRun == [id : DataIds, rule : RuleNames, format : DataFormats, limit : Nat]
DataTables == [docs : SUBSET DataIds, full : SUBSET DataIds, runs : Seq(DataRun),
               experiments : Nat]
Making == [at : {"idle", "sent", "stored", "listing"}, id : DataNames]
Series == [id : DataNames, format : DataFormats \cup {"none"}, rules : Seq(RuleNames),
           limit : Nat, made : Seq(Nat), at : {"none", "create", "batch"}]
DataPage == [at : {"here", "runs"}, rules : {<<>>, RunRules}, items : SUBSET DataIds,
             load : DataKinds \cup {"page", "none"}, loading : Flag, selected : DataNames,
             detail : Openings, waited : Flag, lost : Flag, make : [DataKinds -> Making],
             picked : Seq(RuleNames), limit : [approval : Nat, ranking : Nat],
             limited : Flag, scale : Flag, series : Series, toldData : SUBSET DataIds,
             toldRuns : Seq(Nat)]
DataPast == [events : Nat, asked : DataNames, pressed : Seq(RuleNames)]

\* What is being asked for, or else what is shown, is what was asked for last.
AskedOK(p, asked) ==
  /\ p.detail # <<>> => p.detail = <<asked>>
  /\ p.detail = <<>> /\ ~p.lost => p.selected = asked

\* What is being made is there as far as it has come.
MadeOK(p, docs) ==
  \A k \in DataKinds : /\ p.make[k].at # "idle" => p.make[k].id \in DataIds
                       /\ p.make[k].at \in {"stored", "listing"} => p.make[k].id \in docs

\* A rule for the format.
Takes(rule, format) == \E r \in RuleSet : r.id = rule /\ r.runs /\ format \in r.formats

Suits(run) ==
  run.format = Data[run.id].format /\ run.limit <= Data[run.id].count
    /\ Takes(run.rule, run.format)

\* A series suits its dataset, which cannot change under way; what it has made and what it
\* has still to make are what was pressed.
SeriesOK(s, runs, pressed) ==
  /\ s.id \in DataIds /\ s.format = Data[s.id].format /\ s.limit <= Data[s.id].count
  /\ \A j \in DOMAIN s.rules : Takes(s.rules[j], s.format)
  /\ s.rules # <<>> /\ Len(s.made) + Len(s.rules) = Len(pressed)
  /\ \A i \in DOMAIN s.made : /\ s.made[i] \in DOMAIN runs
                              /\ runs[s.made[i]].rule = pressed[i] /\ runs[s.made[i]].id = s.id
  /\ \A j \in DOMAIN s.rules : s.rules[j] = pressed[Len(s.made) + j]

\* A series that is reported is there.
ReportOK(told, runs, pressed) ==
  told # <<>> =>
    /\ Len(told) = Len(pressed)
    /\ \E id \in DataIds : \A i \in DOMAIN told :
         told[i] \in DOMAIN runs /\ runs[told[i]].rule = pressed[i] /\ runs[told[i]].id = id

\* An experiment without its run is that of the series under way.
Unrun(p) == IF p.series.at = "batch" THEN 1 ELSE 0

SetsInv ==
  /\ api \in DataTables /\ page \in DataPage /\ past \in DataPast
  /\ There \subseteq api.full /\ api.full \subseteq api.docs /\ page.items \subseteq api.docs
  /\ page.toldData \subseteq api.full
  /\ AskedOK(page, past.asked) /\ MadeOK(page, api.docs)
  /\ \A i \in DOMAIN api.runs : Suits(api.runs[i])
  /\ page.series.at # "none" => SeriesOK(page.series, api.runs, past.pressed)
  /\ Len(api.runs) + Unrun(page) <= api.experiments
  /\ page.at = "here" => page.toldRuns = <<>>
  /\ ReportOK(page.toldRuns, api.runs, past.pressed)

SetParameters ==
  /\ Data \in [DOMAIN Data -> [format : DataFormats, count : Nat, limit : Nat]]
  /\ "none" \notin DataIds /\ There \subseteq DataIds /\ SetNumbers \subseteq Nat
  /\ \E S : RunRules \in Seq(S)

\* The parts of a page that loads leave alone.
Beside(p, q) ==
  /\ q.at = p.at /\ q.rules = p.rules /\ q.items = p.items /\ q.selected = p.selected
  /\ q.picked = p.picked /\ q.limit = p.limit /\ q.limited = p.limited
  /\ q.scale = p.scale /\ q.series = p.series
  /\ q.toldData = p.toldData /\ q.toldRuns = p.toldRuns

\* What may happen to the dataset being asked for when none comes: another is asked for,
\* nothing, or it is dropped.
Moved(p, q) ==
  \/ q.detail # <<>> /\ ~q.lost
  \/ q.detail = p.detail /\ q.lost = p.lost
  \/ q.detail = <<>> /\ q.lost

\* What is being made goes on or ends.
Lesser(p, q) == \A k \in DataKinds : q.make[k] = p.make[k] \/ q.make[k].at = "idle"

LEMMA DataFields ==
  ASSUME NEW p \in DataPage
  PROVE  /\ p.at \in {"here", "runs"} /\ p.rules \in {<<>>, RunRules}
         /\ p.items \in SUBSET DataIds /\ p.load \in DataKinds \cup {"page", "none"}
         /\ p.loading \in Flag /\ p.selected \in DataNames /\ p.detail \in Openings
         /\ p.waited \in Flag /\ p.lost \in Flag /\ p.make \in [DataKinds -> Making]
         /\ p.picked \in Seq(RuleNames) /\ p.limit \in [approval : Nat, ranking : Nat]
         /\ p.limited \in Flag /\ p.scale \in Flag /\ p.series \in Series
         /\ p.toldData \in SUBSET DataIds /\ p.toldRuns \in Seq(Nat)
BY DEF DataPage

LEMMA DetailOverIs ==
  ASSUME NEW p \in DataPage
  PROVE  LET q == Sets!DetailOver(p)
         IN  /\ q \in DataPage /\ Beside(p, q) /\ q.detail = <<>> /\ q.lost = p.lost
             /\ q.make = p.make /\ q.load = p.load
<1> DEFINE d == <<>>
           w == FALSE
           l == p.loading /\ ~p.waited
           o == p.lost
           h == p.load
           m == p.make
           q == [p EXCEPT !.detail = d, !.waited = w, !.loading = l]
<1>1. Sets!DetailOver(p) = q BY DEF Sets!DetailOver
<1>2. d \in Openings /\ w \in Flag /\ l \in Flag BY Flags, Truths, Zenon DEF Openings
<1>3. o \in Flag /\ h \in DataKinds \cup {"page", "none"} /\ m \in [DataKinds -> Making]
  BY DataFields
<1> HIDE DEF w, l
<1>4. q = [p EXCEPT !.detail = d, !.waited = w, !.loading = l, !.lost = o, !.load = h,
                    !.make = m]
  BY DEF DataPage
<1> HIDE DEF d, o, h, m, q
<1>5. /\ q \in DataPage /\ Beside(p, q) /\ q.detail = d /\ q.lost = o /\ q.load = h /\ q.make = m
  BY <1>2, <1>3, <1>4 DEF DataPage, Beside
<1> QED BY <1>1, <1>5 DEF d, o, h, m

LEMMA BesideThrough ==
  ASSUME NEW p, NEW q, NEW r, Beside(p, q), Beside(q, r) PROVE Beside(p, r)
BY DEF Beside

LEMMA MovedThrough ==
  ASSUME NEW p, NEW q, NEW r, Moved(p, q), Moved(q, r) PROVE Moved(p, r)
BY DEF Moved

LEMMA OpeningOf == \A id \in DataIds : <<id>> \in Openings /\ <<id>> # <<>>
BY DEF Openings

LEMMA AskingIs ==
  ASSUME NEW p \in DataPage, NEW id \in DataIds
  PROVE  LET q == Sets!Asking(p, id)
         IN  /\ q \in DataPage /\ Beside(p, q) /\ q.detail = <<id>> /\ ~q.lost
             /\ q.make = p.make /\ q.load = p.load /\ Moved(p, q)
<1> DEFINE r == Sets!DetailOver(p)
           d == <<id>>
           o == FALSE
           q == [r EXCEPT !.detail = d, !.lost = o]
           w == r.waited
           l == r.loading
           h == r.load
           m == r.make
<1>1. /\ r \in DataPage /\ Beside(p, r) /\ r.make = p.make /\ r.load = p.load
  BY DetailOverIs
<1>2. Sets!Asking(p, id) = q BY DEF Sets!Asking
<1>3. d \in Openings /\ o \in Flag /\ d # <<>> /\ ~o BY Flags, OpeningOf
<1> HIDE DEF r
<1>4. w \in Flag /\ l \in Flag /\ h \in DataKinds \cup {"page", "none"}
      /\ m \in [DataKinds -> Making]
  BY <1>1, DataFields
<1> HIDE DEF o
<1>5. q = [r EXCEPT !.detail = d, !.waited = w, !.loading = l, !.lost = o, !.load = h,
                    !.make = m]
  BY <1>1 DEF DataPage
<1> HIDE DEF d, w, l, h, m, q
<1>6. /\ q \in DataPage /\ Beside(r, q) /\ q.detail = d /\ q.lost = o /\ q.load = h /\ q.make = m
  BY <1>1, <1>3, <1>4, <1>5 DEF DataPage, Beside
<1>7. Beside(p, q) BY <1>1, <1>6, BesideThrough
<1>8. ~q.lost BY <1>3, <1>6
<1>9. Moved(p, q) BY <1>3, <1>6, <1>8 DEF Moved
<1> QED BY <1>1, <1>2, <1>6, <1>7, <1>8, <1>9 DEF d, h, m

LEMMA LoadOverIs ==
  ASSUME NEW p \in DataPage, \A k \in DataKinds : p.make[k].at # "idle" => p.make[k].id \in DataIds
  PROVE  LET q == Sets!LoadOver(p)
         IN  /\ q \in DataPage /\ Beside(p, q) /\ Moved(p, q) /\ Lesser(p, q)
<1> DEFINE own == {k \in DataKinds : k = p.load /\ p.make[k].at = "listing"}
           i == Sets!Idle
           d == p.detail
           w == p.waited
           l == FALSE
           o == p.lost
           h == "none"
           f == p.make
           m == [k \in DataKinds |-> IF k \in own THEN i ELSE f[k]]
           q == [p EXCEPT !.load = h, !.loading = l, !.make = m]
           opened == {p.make[k].id : k \in own \ {"import"}}
           id == CHOOSE x \in opened : TRUE
           g == "generate" \in own
           a == Sets!Asking(q, id)
           b == [a EXCEPT !.waited = g]
<1>1. Sets!LoadOver(p) = IF opened = {} THEN q ELSE b
  BY DEF Sets!LoadOver, Sets!Kinds, DataKinds
<1>2. opened # {} => id \in opened OBVIOUS
<1>3. opened \subseteq DataIds OBVIOUS
<1>4. g \in Flag
  <2>1. g = (g /\ TRUE) OBVIOUS
  <2> HIDE DEF g
  <2> QED BY <2>1, Truths, Zenon
<1> HIDE DEF opened, id, g
<1>5. i \in Making /\ i.at = "idle" BY DEF Sets!Idle, Making, DataNames
<1>6. f \in [DataKinds -> Making] BY DataFields
<1> HIDE DEF i, f, own
<1>7. m \in [DataKinds -> Making] /\ \A k \in DataKinds : m[k] = f[k] \/ m[k].at = "idle"
  BY <1>5, <1>6
<1>8. /\ d \in Openings /\ w \in Flag /\ l \in Flag /\ o \in Flag
      /\ h \in DataKinds \cup {"page", "none"}
  BY DataFields, Flags
<1> HIDE DEF l, h, m
<1>9. q = [p EXCEPT !.detail = d, !.waited = w, !.loading = l, !.lost = o, !.load = h,
                    !.make = m]
  BY DEF DataPage
<1> HIDE DEF d, w, o, q
<1>10. /\ q \in DataPage /\ Beside(p, q) /\ q.detail = d /\ q.lost = o /\ q.load = h /\ q.make = m
  BY <1>7, <1>8, <1>9 DEF DataPage, Beside
<1>11. Moved(p, q) /\ Lesser(p, q) BY <1>7, <1>10 DEF Moved, Lesser, d, o, f
<1>12. CASE opened = {} BY <1>1, <1>10, <1>11, <1>12
<1>13. CASE opened # {}
  <2>1. id \in DataIds BY <1>2, <1>3, <1>13
  <2>2. /\ a \in DataPage /\ Beside(q, a) /\ a.detail = <<id>> /\ ~a.lost
        /\ a.make = q.make /\ Moved(q, a)
    BY <1>10, <2>1, AskingIs
  <2> HIDE DEF a
  <2>3. /\ b \in DataPage /\ Beside(a, b) /\ b.detail = a.detail /\ b.lost = a.lost
        /\ b.make = a.make
    BY <1>4, <2>2 DEF DataPage, Beside
  <2> HIDE DEF b
  <2>4. Beside(p, b) BY <1>10, <2>2, <2>3, BesideThrough
  <2>5. Moved(q, b) BY <2>2, <2>3 DEF Moved
  <2>6. Moved(p, b) BY <1>11, <2>5, MovedThrough
  <2>7. Lesser(p, b) BY <1>11, <2>2, <2>3 DEF Lesser
  <2> QED BY <1>1, <1>13, <2>3, <2>4, <2>6, <2>7
<1> QED BY <1>12, <1>13

LEMMA StartLoadIs ==
  ASSUME NEW p \in DataPage, \A k \in DataKinds : p.make[k].at # "idle" => p.make[k].id \in DataIds,
         NEW owner \in DataKinds \cup {"page"}
  PROVE  LET q == Sets!StartLoad(p, owner)
         IN  /\ q \in DataPage /\ Beside(p, q) /\ Moved(p, q) /\ Lesser(p, q)
<1> DEFINE r == Sets!LoadOver(p)
           l == p.load = "none"
           q == [r EXCEPT !.load = owner, !.loading = l]
<1>1. r \in DataPage /\ Beside(p, r) /\ Moved(p, r) /\ Lesser(p, r) BY LoadOverIs
<1>2. Sets!StartLoad(p, owner) = q BY DEF Sets!StartLoad
<1>3. l \in Flag BY Flags
<1> HIDE DEF r, l
<1>4. /\ q \in DataPage /\ Beside(r, q) /\ q.detail = r.detail /\ q.lost = r.lost
      /\ q.make = r.make
  BY <1>1, <1>3 DEF DataPage, Beside
<1> HIDE DEF q
<1>5. Beside(p, q) BY <1>1, <1>4, BesideThrough
<1>6. Moved(p, q) /\ Lesser(p, q) BY <1>1, <1>4 DEF Moved, Lesser
<1> QED BY <1>2, <1>4, <1>5, <1>6

LEMMA SetFields ==
  ASSUME SetsInv
  PROVE  /\ api \in DataTables /\ page \in DataPage /\ past \in DataPast
         /\ api.docs \in SUBSET DataIds /\ api.full \in SUBSET DataIds
         /\ api.runs \in Seq(DataRun) /\ api.experiments \in Nat
         /\ past.events \in Nat /\ past.asked \in DataNames /\ past.pressed \in Seq(RuleNames)
         /\ \A k \in DataKinds : page.make[k].at # "idle" => page.make[k].id \in DataIds
BY DEF SetsInv, DataTables, DataPast, MadeOK

\* A step that leaves the runs and the series alone.
LEMMA DataStep ==
  ASSUME SetsInv, NEW q \in DataPage, page' = q,
         api' \in DataTables, api'.runs = api.runs, api'.experiments = api.experiments,
         api.full \subseteq api'.full, api'.full \subseteq api'.docs,
         past' \in DataPast, past'.pressed = past.pressed,
         q.series = page.series, q.at = page.at, q.toldRuns = page.toldRuns,
         q.toldData \subseteq api'.full, q.items \subseteq api'.docs,
         AskedOK(q, past'.asked), MadeOK(q, api'.docs)
  PROVE  SetsInv'
<1>1. There \subseteq api'.full BY DEF SetsInv
<1>2. Unrun(page') = Unrun(page) BY DEF Unrun
<1>3. \A i \in DOMAIN api'.runs : Suits(api'.runs[i]) BY DEF SetsInv
<1>4. page'.series.at # "none" => SeriesOK(page'.series, api'.runs, past'.pressed)
  BY DEF SetsInv
<1>5. Len(api'.runs) + Unrun(page') <= api'.experiments BY <1>2 DEF SetsInv
<1>6. page'.at = "here" => page'.toldRuns = <<>> BY DEF SetsInv
<1>7. ReportOK(page'.toldRuns, api'.runs, past'.pressed) BY DEF SetsInv
<1> QED BY <1>1, <1>3, <1>4, <1>5, <1>6, <1>7 DEF SetsInv

\* What is counted, and what is remembered as asked for last.
LEMMA BecomesIs ==
  ASSUME SetsInv, NEW q \in DataPage, NEW n \in Nat, Sets!Becomes(q, n),
         Moved(page, q), q.selected = page.selected
  PROVE  /\ page' = q /\ past' \in DataPast /\ past'.pressed = past.pressed
         /\ AskedOK(q, past'.asked)
<1> DEFINE a == Sets!AskedBy(q)
           e == past.events + n
<1>1. page' = q /\ past' = [past EXCEPT !.events = e, !.asked = a] BY DEF Sets!Becomes
<1>2. past \in DataPast /\ e \in Nat /\ past.asked \in DataNames /\ AskedOK(page, past.asked)
  BY SetFields DEF SetsInv
<1>3. q.detail \in Openings /\ page.detail \in Openings BY SetFields, DataFields
<1>4. \A id \in DataIds : Sets!Last(<<id>>) = id BY DEF Sets!Last
<1>5. a = IF q.detail \notin {page.detail, <<>>} THEN Sets!Last(q.detail) ELSE past.asked
  BY DEF Sets!AskedBy
<1>6. a \in DataNames /\ AskedOK(q, a)
  <2>1. CASE q.detail = <<>>
    <3>1. a = past.asked BY <1>5, <2>1
    <3>2. ~q.lost => page.detail = <<>> /\ ~page.lost BY <2>1 DEF Moved
    <3> QED BY <1>2, <2>1, <3>1, <3>2 DEF AskedOK
  <2>2. CASE q.detail # <<>> /\ q.detail = page.detail
    <3>1. a = past.asked BY <1>5, <2>2
    <3> QED BY <1>2, <2>2, <3>1 DEF AskedOK
  <2>3. CASE q.detail # <<>> /\ q.detail # page.detail
    <3>1. PICK id \in DataIds : q.detail = <<id>> BY <1>3, <2>3 DEF Openings
    <3>2. a = id BY <1>4, <1>5, <2>3, <3>1
    <3> QED BY <2>3, <3>1, <3>2 DEF AskedOK, DataNames
  <2> QED BY <2>1, <2>2, <2>3
<1> HIDE DEF a, e
<1>7. past' \in DataPast /\ past'.pressed = past.pressed /\ past'.asked = a
  BY <1>1, <1>2, <1>6 DEF DataPast
<1> QED BY <1>1, <1>6, <1>7

\* A load started, over, or what was asked for dropped.
LEMMA LoadStep ==
  ASSUME SetsInv, NEW q \in DataPage, NEW n \in Nat, Sets!Becomes(q, n),
         NEW p, Beside(p, q), Lesser(page, q), Moved(page, q),
         p.items \subseteq api.docs, p.series = page.series, p.at = page.at,
         p.toldRuns = page.toldRuns, p.toldData = page.toldData, p.selected = page.selected,
         api' = api
  PROVE  SetsInv'
<1>1. /\ q.series = page.series /\ q.at = page.at /\ q.toldRuns = page.toldRuns
      /\ q.toldData = page.toldData /\ q.selected = page.selected /\ q.items = p.items
  BY DEF Beside
<1>2. /\ page' = q /\ past' \in DataPast /\ past'.pressed = past.pressed
      /\ AskedOK(q, past'.asked)
  BY <1>1, BecomesIs
<1>3. MadeOK(q, api.docs) BY DEF SetsInv, MadeOK, Lesser
<1>4. api \in DataTables /\ api.full \subseteq api.docs /\ page.toldData \subseteq api.full
  BY DEF SetsInv
<1> QED BY <1>1, <1>2, <1>3, <1>4, DataStep

LEMMA RefreshKeepsSets == ASSUME SetsInv, Sets!Refresh PROVE SetsInv'
<1> DEFINE q == Sets!StartLoad(page, "page")
<1>1. page \in DataPage /\ page.items \subseteq api.docs BY DEF SetsInv
<1>2. "page" \in DataKinds \cup {"page"} OBVIOUS
<1>3. q \in DataPage /\ Beside(page, q) /\ Moved(page, q) /\ Lesser(page, q)
  BY <1>1, <1>2, SetFields, StartLoadIs
<1>4. Sets!Becomes(q, 1) /\ api' = api BY DEF Sets!Refresh
<1> HIDE DEF q
<1> QED BY <1>1, <1>3, <1>4, LoadStep

LEMMA RenewKeepsSets == ASSUME SetsInv, Sets!Renew PROVE SetsInv'
<1> DEFINE r == Sets!DetailOver(page)
           o == r.lost \/ page.detail # <<>>
           d == [r EXCEPT !.lost = o]
           s == Sets!StartLoad(d, "page")
           l == s.loading /\ ~page.waited
           q == [s EXCEPT !.loading = l]
<1>1. page \in DataPage /\ page.items \subseteq api.docs BY DEF SetsInv
<1>2. "page" \in DataKinds \cup {"page"} OBVIOUS
<1>3. Sets!Becomes(q, 1) /\ api' = api BY DEF Sets!Renew
<1>4. o \in Flag /\ l \in Flag BY Truths, Zenon
<1>5. r \in DataPage /\ Beside(page, r) /\ r.make = page.make /\ r.detail = <<>> /\ r.lost = page.lost
  BY <1>1, DetailOverIs
<1>6. (page.detail # <<>> => o) /\ (page.detail = <<>> => o = r.lost)
  <2>1. r.lost \in Flag BY <1>5, DataFields
  <2>2. page.detail # <<>> => o OBVIOUS
  <2>3. page.detail = <<>> => o = (r.lost \/ FALSE) BY Zenon
  <2>4. (r.lost \/ FALSE) = r.lost BY <2>1, Zenon DEF Flag
  <2> QED BY <2>2, <2>3, <2>4, Zenon
<1> HIDE DEF r, o, l
<1>7. /\ d \in DataPage /\ Beside(r, d) /\ d.make = r.make /\ d.detail = r.detail /\ d.lost = o
  BY <1>4, <1>5 DEF DataPage, Beside
<1> HIDE DEF d
<1>8. Moved(page, d) /\ Lesser(page, d) BY <1>5, <1>6, <1>7 DEF Moved, Lesser
<1>9. s \in DataPage /\ Beside(d, s) /\ Moved(d, s) /\ Lesser(d, s)
  BY <1>2, <1>5, <1>7, SetFields, StartLoadIs
<1> HIDE DEF s
<1>10. q \in DataPage /\ Beside(s, q) /\ q.make = s.make /\ q.detail = s.detail /\ q.lost = s.lost
  BY <1>4, <1>9 DEF DataPage, Beside
<1> HIDE DEF q
<1>11. Moved(page, q)
  <2>1. Moved(s, q) BY <1>10 DEF Moved
  <2> QED BY <1>8, <1>9, <2>1, MovedThrough
<1>12. Lesser(page, q) BY <1>5, <1>7, <1>9, <1>10 DEF Lesser
<1>13. Beside(page, q) BY <1>5, <1>7, <1>9, <1>10, BesideThrough
<1> QED BY <1>1, <1>3, <1>10, <1>11, <1>12, <1>13, LoadStep

LEMMA ListEndsKeeps == ASSUME SetsInv, Sets!ListEnds PROVE SetsInv'
<1>1. PICK items \in {api.docs, page.items, {}} :
        Sets!Becomes(Sets!LoadOver([page EXCEPT !.items = items]), 0)
  BY DEF Sets!ListEnds
<1> DEFINE p == [page EXCEPT !.items = items]
           q == Sets!LoadOver(p)
<1>2. page \in DataPage /\ items \subseteq api.docs /\ items \subseteq DataIds
  BY SetFields DEF SetsInv
<1>3. /\ p \in DataPage /\ p.items = items /\ p.series = page.series /\ p.at = page.at
      /\ p.toldRuns = page.toldRuns /\ p.toldData = page.toldData
      /\ p.selected = page.selected /\ p.make = page.make /\ p.detail = page.detail
      /\ p.lost = page.lost
  BY <1>2 DEF DataPage
<1>4. Sets!Becomes(q, 0) /\ api' = api BY <1>1 DEF Sets!ListEnds
<1> HIDE DEF p
<1>5. q \in DataPage /\ Beside(p, q) /\ Moved(p, q) /\ Lesser(p, q)
  BY <1>3, SetFields, LoadOverIs
<1>6. Moved(page, q) /\ Lesser(page, q) BY <1>3, <1>5 DEF Moved, Lesser
<1> HIDE DEF q
<1> QED BY <1>2, <1>3, <1>4, <1>5, <1>6, LoadStep

LEMMA OpenDatasetKeeps == ASSUME SetsInv, NEW id \in DataIds, Sets!OpenDataset(id) PROVE SetsInv'
<1> DEFINE q == Sets!Asking(page, id)
<1>1. page \in DataPage /\ page.items \subseteq api.docs BY DEF SetsInv
<1>2. q \in DataPage /\ Beside(page, q) /\ Moved(page, q) /\ q.make = page.make
  BY <1>1, AskingIs
<1>3. Sets!Becomes(q, 1) /\ api' = api BY DEF Sets!OpenDataset
<1>4. Lesser(page, q) BY <1>2 DEF Lesser
<1> HIDE DEF q
<1> QED BY <1>1, <1>2, <1>3, <1>4, LoadStep

LEMMA SamePickedData ==
  /\ \A l, P : Sets!Picked(l, P) = Picked(l, P)
  /\ \A l, x : Sets!Without(l, x) = Without(l, x)
BY Zenon DEF Sets!Picked, Picked, Sets!Without, Without

\* The rules for a format are rules for it.
LEMMA RulesForIs ==
  ASSUME SetParameters, NEW p, p.rules \in {<<>>, RunRules}, NEW f
  PROVE  Sets!RulesFor(p, f) \in Seq({r \in RuleSet : r.runs /\ f \in r.formats})
<1> DEFINE l == p.rules
           P == {i \in DOMAIN l : l[i].runs /\ f \in l[i].formats}
           T == {l[i] : i \in P \cap DOMAIN l}
           R == {r \in RuleSet : r.runs /\ f \in r.formats}
<1>1. Sets!RulesFor(p, f) = Picked(l, P) BY SamePickedData DEF Sets!RulesFor
<1>2. PICK S : RunRules \in Seq(S) BY DEF SetParameters
<1>3. l \in Seq(S)
  <2>1. <<>> \in Seq(S) OBVIOUS
  <2>2. l = <<>> \/ l = RunRules OBVIOUS
  <2> HIDE DEF l
  <2> QED BY <1>2, <2>1, <2>2
<1>4. T \subseteq R
  <2> SUFFICES ASSUME NEW i \in DOMAIN l, l[i].runs, f \in l[i].formats PROVE l[i] \in R
    OBVIOUS
  <2>1. l # <<>> OBVIOUS
  <2>2. l[i] \in RuleSet BY <2>1 DEF RuleSet
  <2> QED BY <2>2
<1>5. Picked(l, P) \in Seq(T)
  <2> HIDE DEF l, P
  <2> QED BY <1>3, PickedOf
<1> HIDE DEF T, R, l, P
<1>6. Picked(l, P) \in Seq(R) BY <1>4, <1>5, SeqOfSubset
<1> QED BY <1>1, <1>6 DEF R

\* Their names.
LEMMA NamesOf ==
  ASSUME NEW f, NEW s \in Seq({r \in RuleSet : r.runs /\ f \in r.formats})
  PROVE  /\ Sets!IdsOf(s) \in Seq(RuleNames)
         /\ \A x \in Sets!ToSet(Sets!IdsOf(s)) : Takes(x, f)
<1> DEFINE t == Sets!IdsOf(s)
<1>1. t = [i \in 1..Len(s) |-> s[i].id] /\ Len(s) \in Nat BY DEF Sets!IdsOf
<1>2. \A i \in 1..Len(s) : s[i] \in RuleSet /\ s[i].runs /\ f \in s[i].formats OBVIOUS
<1>3. \A i \in 1..Len(s) : s[i].id \in RuleNames BY <1>2 DEF RuleNames
<1> HIDE DEF t
<1>4. t \in Seq(RuleNames) BY <1>1, <1>3
<1>5. DOMAIN t = 1..Len(s) /\ \A i \in 1..Len(s) : t[i] = s[i].id BY <1>1
<1>6. ASSUME NEW x \in Sets!ToSet(t) PROVE Takes(x, f)
  <2>1. PICK i \in DOMAIN t : x = t[i] BY DEF Sets!ToSet
  <2> QED BY <1>2, <1>5, <2>1 DEF Takes
<1> QED BY <1>4, <1>6 DEF t

\* What a change of the form leaves alone.
FormOnly(p, q) ==
  /\ q.at = p.at /\ q.rules = p.rules /\ q.items = p.items /\ q.selected = p.selected
  /\ q.detail = p.detail /\ q.lost = p.lost /\ q.make = p.make
  /\ q.series = p.series /\ q.toldData = p.toldData /\ q.toldRuns = p.toldRuns

LEMMA FittedIs ==
  ASSUME SetParameters, NEW p \in DataPage
  PROVE  LET q == Sets!Fitted(p) IN q \in DataPage /\ FormOnly(p, q)
<1> DEFINE q == Sets!Fitted(p)
<1>1. CASE p.selected = "none"
  <2>1. q = [p EXCEPT !.picked = <<>>] BY <1>1 DEF Sets!Fitted
  <2>2. <<>> \in Seq(RuleNames) OBVIOUS
  <2> HIDE DEF q
  <2>3. q \in DataPage /\ FormOnly(p, q) BY <2>1, <2>2 DEF DataPage, FormOnly
  <2> QED BY <2>3 DEF q
<1>2. CASE p.selected # "none"
  <2> DEFINE d == Data[p.selected]
             allowed == Sets!RulesFor(p, d.format)
             kept == Sets!Picked(p.picked, {i \in DOMAIN p.picked :
                                  p.picked[i] \in Sets!ToSet(Sets!IdsOf(allowed))})
             default == IF d.format = "approval" THEN 2 ELSE 3
             limit == Sets!Least(d.count, IF d.limit = 0 THEN default ELSE d.limit)
             first == Sets!IdsOf(SubSeq(allowed, 1, Sets!Least(3, Len(allowed))))
             a == IF kept # <<>> THEN kept ELSE first
             b == IF d.format = "score" THEN p.limit ELSE [p.limit EXCEPT ![d.format] = limit]
             c == IF d.format = "ranking" THEN d.limit # 0 ELSE p.limited
             e == IF d.format = "score" THEN TRUE ELSE p.scale
  <2>1. q = [p EXCEPT !.picked = a, !.limit = b, !.limited = c, !.scale = e]
    BY <1>2, Zenon DEF Sets!Fitted
  <2>2. p.selected \in DataIds /\ p.rules \in {<<>>, RunRules} BY <1>2, DataFields DEF DataNames
  <2>3. d.format \in DataFormats /\ d.count \in Nat /\ d.limit \in Nat
    BY <2>2 DEF SetParameters, DataIds
  <2>4. allowed \in Seq({r \in RuleSet : r.runs /\ d.format \in r.formats})
    BY <2>2, RulesForIs
  <2>5. kept \in Seq(RuleNames)
    <3> DEFINE P == {i \in DOMAIN p.picked : p.picked[i] \in Sets!ToSet(Sets!IdsOf(allowed))}
    <3>1. kept = Picked(p.picked, P) BY SamePickedData
    <3>2. p.picked \in Seq(RuleNames) BY DataFields
    <3> HIDE DEF P, kept
    <3> QED BY <3>1, <3>2, PickedAddUp
  <2>6. first \in Seq(RuleNames)
    <3> DEFINE R == {r \in RuleSet : r.runs /\ d.format \in r.formats}
               n == Sets!Least(3, Len(allowed))
               s == SubSeq(allowed, 1, n)
    <3>1. Len(allowed) \in Nat BY <2>4
    <3>2. n \in 0..Len(allowed) BY <3>1 DEF Sets!Least
    <3> HIDE DEF allowed, n
    <3>3. s \in Seq(R)
      <4>1. allowed \in Seq(R) BY <2>4
      <4> HIDE DEF R
      <4> QED BY <3>2, <4>1, SubSeqProperties
    <3> HIDE DEF s
    <3> QED BY <3>3, NamesOf DEF n, s
  <2>7. a \in Seq(RuleNames) BY <2>5, <2>6
  <2>8. limit \in Nat BY <2>3 DEF Sets!Least
  <2>9. b \in [approval : Nat, ranking : Nat]
    <3>1. p.limit \in [approval : Nat, ranking : Nat] BY DataFields
    <3> HIDE DEF limit
    <3>2. CASE d.format = "score" BY <3>1, <3>2
    <3>3. CASE d.format = "approval" BY <3>1, <3>3, <2>8
    <3>4. CASE d.format = "ranking" BY <3>1, <3>4, <2>8
    <3> HIDE DEF b
    <3> QED BY <2>3, <3>2, <3>3, <3>4 DEF DataFormats
  <2>10. c \in Flag /\ e \in Flag
    <3>1. p.limited \in Flag /\ p.scale \in Flag /\ TRUE \in Flag BY DataFields, Flags
    <3>2. (d.limit # 0) \in Flag BY Flags, Zenon
    <3> QED BY <3>1, <3>2, Zenon
  <2> HIDE DEF q, a, b, c, e
  <2>11. q \in DataPage /\ FormOnly(p, q)
    BY <2>1, <2>7, <2>9, <2>10 DEF DataPage, FormOnly
  <2> QED BY <2>11 DEF q
<1> QED BY <1>1, <1>2

\* A step that changes the form.
LEMMA FormStep ==
  ASSUME SetsInv, NEW q \in DataPage, page' = q, api' = api, past' \in DataPast,
         past'.pressed = past.pressed, NEW p, FormOnly(p, q),
         p.items = page.items, p.series = page.series, p.at = page.at, p.make = page.make,
         p.toldRuns = page.toldRuns, p.toldData = page.toldData,
         AskedOK(p, past'.asked)
  PROVE  SetsInv'
<1>1. /\ q.series = page.series /\ q.at = page.at /\ q.toldRuns = page.toldRuns
      /\ q.toldData = page.toldData /\ q.items = page.items /\ q.make = page.make
  BY DEF FormOnly
<1>2. AskedOK(q, past'.asked) BY DEF FormOnly, AskedOK
<1>3. MadeOK(q, api.docs) BY <1>1 DEF SetsInv, MadeOK
<1>4. /\ api \in DataTables /\ api.full \subseteq api.docs /\ page.toldData \subseteq api.full
      /\ page.items \subseteq api.docs
  BY DEF SetsInv
<1> QED BY <1>1, <1>2, <1>3, <1>4, DataStep

LEMMA RulesArriveKeeps == ASSUME SetsInv, SetParameters, Sets!RulesArrive PROVE SetsInv'
<1> DEFINE p == [page EXCEPT !.rules = RunRules]
           q == Sets!Fitted(p)
<1>1. page' = q /\ api' = api /\ past' = past BY DEF Sets!RulesArrive
<1>2. page \in DataPage /\ past \in DataPast /\ AskedOK(page, past.asked) BY DEF SetsInv
<1>3. /\ p \in DataPage /\ p.items = page.items /\ p.series = page.series /\ p.at = page.at
      /\ p.make = page.make /\ p.toldRuns = page.toldRuns /\ p.toldData = page.toldData
      /\ p.detail = page.detail /\ p.lost = page.lost /\ p.selected = page.selected
  BY <1>2 DEF DataPage
<1> HIDE DEF p
<1>4. q \in DataPage /\ FormOnly(p, q) BY <1>3, FittedIs
<1>5. AskedOK(p, past.asked) BY <1>2, <1>3 DEF AskedOK
<1> HIDE DEF q
<1> QED BY <1>1, <1>2, <1>3, <1>4, <1>5, FormStep

LEMMA DetailArrivesKeeps == ASSUME SetsInv, SetParameters, Sets!DetailArrives PROVE SetsInv'
<1> DEFINE r == Sets!DetailOver(page)
           id == Head(page.detail)
           p == [r EXCEPT !.selected = id]
           q == Sets!Fitted(p)
<1>1. page' = q /\ api' = api /\ past' = past /\ page.detail # <<>>
  BY DEF Sets!DetailArrives
<1>2. page \in DataPage /\ past \in DataPast /\ AskedOK(page, past.asked)
      /\ page.detail \in Openings
  BY DataFields DEF SetsInv
<1>3. PICK x \in DataIds : page.detail = <<x>> BY <1>1, <1>2 DEF Openings
<1>4. id = x /\ <<past.asked>> = <<x>> BY <1>1, <1>2, <1>3 DEF AskedOK
<1>5. id \in DataNames /\ id = past.asked BY <1>4 DEF DataNames
<1>6. r \in DataPage /\ Beside(page, r) /\ r.make = page.make /\ r.detail = <<>>
  BY <1>2, DetailOverIs
<1> HIDE DEF r, id
<1>7. /\ p \in DataPage /\ p.items = r.items /\ p.series = r.series /\ p.at = r.at
      /\ p.make = r.make /\ p.toldRuns = r.toldRuns /\ p.toldData = r.toldData
      /\ p.detail = r.detail /\ p.selected = id
  BY <1>5, <1>6 DEF DataPage
<1> HIDE DEF p
<1>8. q \in DataPage /\ FormOnly(p, q) BY <1>7, FittedIs
<1>9. AskedOK(p, past.asked) BY <1>5, <1>6, <1>7 DEF AskedOK
<1>10. /\ p.items = page.items /\ p.series = page.series /\ p.at = page.at /\ p.make = page.make
       /\ p.toldRuns = page.toldRuns /\ p.toldData = page.toldData
  BY <1>6, <1>7 DEF Beside
<1> HIDE DEF q
<1> QED BY <1>1, <1>2, <1>8, <1>9, <1>10, FormStep

LEMMA DetailLostKeeps == ASSUME SetsInv, SetParameters, Sets!DetailLost PROVE SetsInv'
<1>1. PICK shown \in {page.selected, "none"} :
        page' = Sets!Fitted([Sets!DetailOver(page) EXCEPT !.selected = shown, !.lost = TRUE])
  BY DEF Sets!DetailLost
<1> DEFINE r == Sets!DetailOver(page)
           b == TRUE
           p == [r EXCEPT !.selected = shown, !.lost = b]
           q == Sets!Fitted(p)
<1>2. page' = q /\ api' = api /\ past' = past BY <1>1 DEF Sets!DetailLost
<1>3. page \in DataPage /\ past \in DataPast BY DEF SetsInv
<1>4. shown \in DataNames BY <1>3, DataFields DEF DataNames
<1>5. r \in DataPage /\ Beside(page, r) /\ r.make = page.make /\ r.detail = <<>>
  BY <1>3, DetailOverIs
<1>6. b \in Flag /\ b BY Flags
<1> HIDE DEF r, b
<1>7. /\ p \in DataPage /\ p.items = r.items /\ p.series = r.series /\ p.at = r.at
      /\ p.make = r.make /\ p.toldRuns = r.toldRuns /\ p.toldData = r.toldData
      /\ p.detail = r.detail /\ p.lost = b
  BY <1>4, <1>5, <1>6 DEF DataPage
<1> HIDE DEF p
<1>8. q \in DataPage /\ FormOnly(p, q) BY <1>7, FittedIs
<1>9. AskedOK(p, past.asked) BY <1>5, <1>6, <1>7 DEF AskedOK
<1>10. /\ p.items = page.items /\ p.series = page.series /\ p.at = page.at /\ p.make = page.make
       /\ p.toldRuns = page.toldRuns /\ p.toldData = page.toldData
  BY <1>5, <1>7 DEF Beside
<1> HIDE DEF q
<1> QED BY <1>2, <1>3, <1>8, <1>9, <1>10, FormStep

\* A page with another request under way.
Requesting(p, k, r, l, told) ==
  [p EXCEPT !.make = [p.make EXCEPT ![k] = r], !.loading = l, !.toldData = told]

LEMMA MakingIs ==
  ASSUME NEW p \in DataPage, NEW k \in DataKinds, NEW r \in Making, NEW l \in Flag,
         NEW told \in SUBSET DataIds
  PROVE  LET q == Requesting(p, k, r, l, told)
         IN  /\ q \in DataPage /\ q.items = p.items /\ q.series = p.series /\ q.at = p.at
             /\ q.toldRuns = p.toldRuns /\ q.toldData = told /\ q.detail = p.detail
             /\ q.lost = p.lost /\ q.selected = p.selected /\ q.limit = p.limit
             /\ q.make[k] = r /\ \A j \in DataKinds : j # k => q.make[j] = p.make[j]
<1> DEFINE m == [p.make EXCEPT ![k] = r]
           q == [p EXCEPT !.make = m, !.loading = l, !.toldData = told]
<1>1. m \in [DataKinds -> Making] /\ m[k] = r /\ \A j \in DataKinds : j # k => m[j] = p.make[j]
  BY DataFields
<1> HIDE DEF m
<1>2. /\ q \in DataPage /\ q.items = p.items /\ q.series = p.series /\ q.at = p.at
      /\ q.toldRuns = p.toldRuns /\ q.toldData = told /\ q.detail = p.detail
      /\ q.lost = p.lost /\ q.selected = p.selected /\ q.make = m /\ q.limit = p.limit
  BY <1>1 DEF DataPage, Requesting
<1> HIDE DEF q
<1>3. q.make[k] = r /\ \A j \in DataKinds : j # k => q.make[j] = p.make[j] BY <1>1, <1>2
<1> QED BY <1>2, <1>3 DEF q, m, Requesting

LEMMA MakeKeeps ==
  ASSUME SetsInv, NEW k \in DataKinds, NEW id \in DataIds, Sets!Make(k, id) PROVE SetsInv'
<1> DEFINE r == [at |-> "sent", id |-> id]
           l == k # "election" \/ page.loading
           t == page.toldData
           q == Requesting(page, k, r, l, t)
<1>1. page \in DataPage /\ t \in SUBSET DataIds BY DataFields DEF SetsInv
<1>2. q = [page EXCEPT !.make[k] = r, !.loading = l] BY <1>1 DEF DataPage, Requesting
<1>3. Sets!Becomes(q, 1) /\ api' = api BY <1>2 DEF Sets!Make
<1>4. r \in Making /\ l \in Flag /\ r.at = "sent" /\ r.id = id
  BY Truths, Zenon DEF Making, DataNames
<1> HIDE DEF r, l
<1>5. /\ q \in DataPage /\ q.items = page.items /\ q.series = page.series /\ q.at = page.at
      /\ q.toldRuns = page.toldRuns /\ q.toldData = t /\ q.detail = page.detail
      /\ q.lost = page.lost /\ q.selected = page.selected
      /\ q.make[k] = r /\ \A j \in DataKinds : j # k => q.make[j] = page.make[j]
  BY <1>1, <1>4, MakingIs
<1> HIDE DEF q
<1>6. Moved(page, q) BY <1>5 DEF Moved
<1>7. /\ page' = q /\ past' \in DataPast /\ past'.pressed = past.pressed
      /\ AskedOK(q, past'.asked)
  BY <1>3, <1>5, <1>6, BecomesIs
<1>8. MadeOK(q, api.docs)
  <2>1. \A j \in DataKinds : j = k \/ q.make[j] = page.make[j] BY <1>5
  <2> QED BY <1>4, <1>5, <2>1 DEF MadeOK, SetsInv
<1>9. /\ api \in DataTables /\ api.full \subseteq api.docs /\ page.toldData \subseteq api.full
      /\ page.items \subseteq api.docs
  BY DEF SetsInv
<1> QED BY <1>3, <1>5, <1>7, <1>8, <1>9, DataStep

LEMMA StoreDatasetKeeps ==
  ASSUME SetsInv, NEW k \in DataKinds, Sets!StoreDataset(k) PROVE SetsInv'
<1> DEFINE o == page.make[k]
           r == [o EXCEPT !.at = "stored"]
           l == page.loading
           t == page.toldData
           q == Requesting(page, k, r, l, t)
           D == api.docs \cup {o.id}
<1>1. page \in DataPage /\ t \in SUBSET DataIds /\ l \in Flag /\ page.make \in [DataKinds -> Making]
  BY DataFields DEF SetsInv
<1>2. q = [page EXCEPT !.make[k].at = "stored"] BY <1>1 DEF DataPage, Making, Requesting
<1>3. page' = q /\ past' = past /\ api' = [api EXCEPT !.docs = D] /\ o.at = "sent"
  BY <1>2 DEF Sets!StoreDataset
<1>4. o \in Making /\ o.id \in DataIds BY <1>1, <1>3, SetFields
<1>5. r \in Making /\ r.at = "stored" /\ r.id = o.id BY <1>4 DEF Making
<1> HIDE DEF r, o, l
<1>6. /\ q \in DataPage /\ q.items = page.items /\ q.series = page.series /\ q.at = page.at
      /\ q.toldRuns = page.toldRuns /\ q.toldData = t /\ q.detail = page.detail
      /\ q.lost = page.lost /\ q.selected = page.selected
      /\ q.make[k] = r /\ \A j \in DataKinds : j # k => q.make[j] = page.make[j]
  BY <1>1, <1>5, MakingIs
<1> HIDE DEF q
<1>7. /\ api.docs \subseteq D /\ o.id \in D /\ D \in SUBSET DataIds BY <1>4, SetFields
<1> HIDE DEF D
<1>8. /\ api' \in DataTables /\ api'.docs = D /\ api'.full = api.full /\ api'.runs = api.runs
      /\ api'.experiments = api.experiments
  BY <1>3, <1>7, SetFields DEF DataTables
<1>9. MadeOK(q, D)
  <2>1. \A j \in DataKinds : j = k \/ q.make[j] = page.make[j] BY <1>6
  <2>2. \A j \in DataKinds : q.make[j].at # "idle" => q.make[j].id \in DataIds
    BY <1>4, <1>5, <1>6, <2>1, SetFields
  <2>3. \A j \in DataKinds : q.make[j].at \in {"stored", "listing"} => q.make[j].id \in D
    BY <1>5, <1>6, <1>7, <2>1 DEF SetsInv, MadeOK
  <2> QED BY <2>2, <2>3 DEF MadeOK
<1>10. /\ api.full \subseteq D /\ page.toldData \subseteq api.full /\ page.items \subseteq D
       /\ AskedOK(q, past.asked) /\ past \in DataPast
  BY <1>6, <1>7 DEF SetsInv, AskedOK
<1> QED BY <1>3, <1>6, <1>8, <1>9, <1>10, DataStep

LEMMA MakeFailsKeeps ==
  ASSUME SetsInv, NEW k \in DataKinds, Sets!MakeFails(k) PROVE SetsInv'
<1> DEFINE r == Sets!Idle
           l == k = "election" /\ page.loading
           t == page.toldData
           q == Requesting(page, k, r, l, t)
<1>1. page \in DataPage /\ t \in SUBSET DataIds BY DataFields DEF SetsInv
<1>2. q = [page EXCEPT !.make[k] = r, !.loading = l] BY <1>1 DEF DataPage, Requesting
<1>3. page' = q /\ past' = past /\ api' = api BY <1>2 DEF Sets!MakeFails
<1>4. r \in Making /\ l \in Flag /\ r.at = "idle"
  <2>1. l \in Flag BY Truths, Zenon
  <2> QED BY <2>1 DEF Making, DataNames, Sets!Idle
<1> HIDE DEF r, l
<1>5. /\ q \in DataPage /\ q.items = page.items /\ q.series = page.series /\ q.at = page.at
      /\ q.toldRuns = page.toldRuns /\ q.toldData = t /\ q.detail = page.detail
      /\ q.lost = page.lost /\ q.selected = page.selected
      /\ q.make[k] = r /\ \A j \in DataKinds : j # k => q.make[j] = page.make[j]
  BY <1>1, <1>4, MakingIs
<1> HIDE DEF q
<1>6. MadeOK(q, api.docs)
  <2>1. \A j \in DataKinds : j = k \/ q.make[j] = page.make[j] BY <1>5
  <2> QED BY <1>4, <1>5, <2>1 DEF MadeOK, SetsInv
<1>7. /\ api \in DataTables /\ api.full \subseteq api.docs /\ page.toldData \subseteq api.full
      /\ page.items \subseteq api.docs /\ AskedOK(q, past.asked) /\ past \in DataPast
  BY <1>5 DEF SetsInv, AskedOK
<1> QED BY <1>3, <1>5, <1>6, <1>7, DataStep

LEMMA GeneratedLimitsIs ==
  ASSUME NEW p \in DataPage, NEW d \in [format : DataFormats, count : Nat, limit : Nat]
  PROVE  LET q == Sets!GeneratedLimits(p, d) IN q \in DataPage /\ FormOnly(p, q)
<1> DEFINE q == Sets!GeneratedLimits(p, d)
<1>1. p.limit \in [approval : Nat, ranking : Nat] /\ d.format \in DataFormats /\ d.limit \in Nat
  BY DataFields
<1>2. CASE d.format = "approval"
  <2> DEFINE b == [p.limit EXCEPT !.approval = d.limit]
  <2>1. q = [p EXCEPT !.limit = b] BY <1>2 DEF Sets!GeneratedLimits
  <2>2. b \in [approval : Nat, ranking : Nat] BY <1>1
  <2> HIDE DEF q, b
  <2>3. q \in DataPage /\ FormOnly(p, q) BY <2>1, <2>2 DEF DataPage, FormOnly
  <2> QED BY <2>3 DEF q
<1>3. CASE d.format = "ranking"
  <2> DEFINE b == [p.limit EXCEPT !.ranking = IF d.limit = 0 THEN p.limit.ranking ELSE d.limit]
             c == d.limit # 0
  <2>1. q = [p EXCEPT !.limited = c, !.limit = b] BY <1>3 DEF Sets!GeneratedLimits, DataPage
  <2>2. b \in [approval : Nat, ranking : Nat] BY <1>1
  <2>3. c \in Flag BY Flags, Zenon
  <2> HIDE DEF q, b, c
  <2>4. q \in DataPage /\ FormOnly(p, q) BY <2>1, <2>2, <2>3 DEF DataPage, FormOnly
  <2> QED BY <2>4 DEF q
<1>4. CASE d.format = "score"
  <2>1. q = p BY <1>4 DEF Sets!GeneratedLimits
  <2> QED BY <2>1 DEF FormOnly
<1> QED BY <1>1, <1>2, <1>3, <1>4 DEF DataFormats

LEMMA StoreBallotsKeeps ==
  ASSUME SetsInv, SetParameters, NEW k \in DataKinds, Sets!StoreBallots(k) PROVE SetsInv'
<1> DEFINE o == page.make[k]
           id == o.id
           r == [o EXCEPT !.at = "listing"]
           l == page.loading
           t == page.toldData \cup {id}
           c == Requesting(page, k, r, l, t)
           p == IF k = "generate" THEN Sets!GeneratedLimits(c, Data[id]) ELSE c
           q == Sets!StartLoad(p, k)
           F == api.full \cup {id}
<1>1. page \in DataPage /\ l \in Flag /\ page.make \in [DataKinds -> Making]
  BY DataFields DEF SetsInv
<1>2. c = [page EXCEPT !.make[k].at = "listing", !.toldData = page.toldData \cup {id}]
  BY <1>1 DEF DataPage, Making, Requesting
<1>3. Sets!Becomes(q, 0) /\ api' = [api EXCEPT !.full = F] /\ o.at = "stored"
  BY <1>2 DEF Sets!StoreBallots
<1>4. o \in Making /\ id \in DataIds /\ id \in api.docs
  BY <1>1, <1>3, SetFields DEF SetsInv, MadeOK
<1>5. r \in Making /\ r.at = "listing" /\ r.id = id BY <1>4 DEF Making
<1>6. t \in SUBSET DataIds /\ t \subseteq F BY <1>1, <1>4, DataFields DEF SetsInv
<1>7. Data[id] \in [format : DataFormats, count : Nat, limit : Nat]
  BY <1>4 DEF SetParameters, DataIds
<1>8. F \in SUBSET DataIds /\ api.full \subseteq F /\ F \subseteq api.docs
  BY <1>4, SetFields DEF SetsInv
<1> HIDE DEF o, id, r, l, t, c, F
<1>9. /\ c \in DataPage /\ c.items = page.items /\ c.series = page.series /\ c.at = page.at
      /\ c.toldRuns = page.toldRuns /\ c.toldData = t /\ c.detail = page.detail
      /\ c.lost = page.lost /\ c.selected = page.selected
      /\ c.make[k] = r /\ \A j \in DataKinds : j # k => c.make[j] = page.make[j]
  BY <1>1, <1>5, <1>6, MakingIs DEF c
<1>10. p \in DataPage /\ FormOnly(c, p)
  <2>1. CASE k = "generate" BY <1>7, <1>9, <2>1, GeneratedLimitsIs
  <2>2. CASE k # "generate" BY <1>9, <2>2 DEF FormOnly
  <2> QED BY <2>1, <2>2
<1> HIDE DEF p
<1>11. /\ p.items = page.items /\ p.series = page.series /\ p.at = page.at
       /\ p.toldRuns = page.toldRuns /\ p.toldData = t /\ p.detail = page.detail
       /\ p.lost = page.lost /\ p.selected = page.selected
       /\ p.make[k] = r /\ \A j \in DataKinds : j = k \/ p.make[j] = page.make[j]
  BY <1>9, <1>10 DEF FormOnly
<1>12. MadeOK(p, api.docs) BY <1>4, <1>5, <1>11 DEF MadeOK, SetsInv
<1>13. k \in DataKinds \cup {"page"} OBVIOUS
<1>14. q \in DataPage /\ Beside(p, q) /\ Moved(p, q) /\ Lesser(p, q)
  BY <1>10, <1>12, <1>13, StartLoadIs DEF MadeOK
<1> HIDE DEF q
<1>15. Moved(page, q) BY <1>11, <1>14 DEF Moved
<1>16. /\ q.items = page.items /\ q.series = page.series /\ q.at = page.at
       /\ q.toldRuns = page.toldRuns /\ q.toldData = t /\ q.selected = page.selected
  BY <1>11, <1>14 DEF Beside
<1>17. /\ page' = q /\ past' \in DataPast /\ past'.pressed = past.pressed
       /\ AskedOK(q, past'.asked)
  BY <1>3, <1>14, <1>15, <1>16, BecomesIs
<1>18. MadeOK(q, api.docs) BY <1>12, <1>14 DEF MadeOK, Lesser
<1>19. /\ api' \in DataTables /\ api'.docs = api.docs /\ api'.full = F /\ api'.runs = api.runs
       /\ api'.experiments = api.experiments
  BY <1>3, <1>8, SetFields DEF DataTables
<1>20. page.items \subseteq api.docs BY DEF SetsInv
<1> QED BY <1>6, <1>8, <1>14, <1>16, <1>17, <1>18, <1>19, <1>20, DataStep

\* A change of the form that is counted.
LEMMA FormBecomes ==
  ASSUME SetsInv, NEW q \in DataPage, Sets!Becomes(q, 1), api' = api, FormOnly(page, q)
  PROVE  SetsInv'
<1>1. Moved(page, q) /\ q.selected = page.selected BY DEF Moved, FormOnly
<1>2. /\ page' = q /\ past' \in DataPast /\ past'.pressed = past.pressed
      /\ AskedOK(q, past'.asked)
  BY <1>1, BecomesIs
<1>3. AskedOK(page, past'.asked) BY <1>2 DEF AskedOK, FormOnly
<1> QED BY <1>2, <1>3, FormStep

LEMMA ToggleKeeps ==
  ASSUME SetsInv, SetParameters, NEW r \in RuleSet, Sets!Toggle(r) PROVE SetsInv'
<1> DEFINE s == page.picked
           a == Sets!Without(s, r.id)
           b == Append(s, r.id)
           c == IF r.id \in Sets!ToSet(s) THEN a ELSE b
           q == [page EXCEPT !.picked = c]
<1>1. Sets!Becomes(q, 1) /\ api' = api BY DEF Sets!Toggle
<1>2. page \in DataPage /\ s \in Seq(RuleNames) BY DataFields DEF SetsInv
<1>3. r.id \in RuleNames BY DEF RuleNames
<1>4. a \in Seq(RuleNames)
  <2> DEFINE P == {i \in DOMAIN s : s[i] # r.id}
  <2>1. a = Picked(s, P) BY SamePickedData DEF Without
  <2> HIDE DEF P, a, s
  <2> QED BY <1>2, <2>1, PickedAddUp
<1>5. b \in Seq(RuleNames) BY <1>2, <1>3
<1> HIDE DEF s, a, b
<1>6. c \in Seq(RuleNames) BY <1>4, <1>5
<1> HIDE DEF c
<1>7. q \in DataPage /\ FormOnly(page, q) BY <1>2, <1>6 DEF DataPage, FormOnly
<1> HIDE DEF q
<1> QED BY <1>1, <1>7, FormBecomes

LEMMA EditKeeps == ASSUME SetsInv, SetParameters, Sets!Edit PROVE SetsInv'
<1> DEFINE f == Data[page.selected].format
<1>1. page \in DataPage /\ page.limit \in [approval : Nat, ranking : Nat] BY DataFields DEF SetsInv
<1>2. f \in DataFormats
  <2>1. page.selected \in DataIds BY <1>1, DataFields DEF Sets!Edit, DataNames
  <2> QED BY <2>1 DEF SetParameters, DataIds
<1>3. \/ f # "score" /\ \E n \in SetNumbers : Sets!Becomes([page EXCEPT !.limit[f] = n], 1)
      \/ Sets!Becomes([page EXCEPT !.limited = ~page.limited], 1)
      \/ Sets!Becomes([page EXCEPT !.scale = ~page.scale], 1)
  BY DEF Sets!Edit
<1>4. api' = api BY DEF Sets!Edit
<1> HIDE DEF f
<1>5. CASE f # "score" /\ \E n \in SetNumbers : Sets!Becomes([page EXCEPT !.limit[f] = n], 1)
  <2>1. PICK n \in SetNumbers : Sets!Becomes([page EXCEPT !.limit[f] = n], 1) BY <1>5
  <2> DEFINE b == [page.limit EXCEPT ![f] = n]
             q == [page EXCEPT !.limit = b]
  <2>2. q = [page EXCEPT !.limit[f] = n] BY <1>1 DEF DataPage
  <2>3. n \in Nat BY DEF SetParameters
  <2>4. b \in [approval : Nat, ranking : Nat]
    <3>1. CASE f = "approval" BY <1>1, <2>3, <3>1
    <3>2. CASE f = "ranking" BY <1>1, <2>3, <3>2
    <3> HIDE DEF b
    <3> QED BY <1>2, <1>5, <3>1, <3>2 DEF DataFormats
  <2>5. Sets!Becomes(q, 1) BY <2>1, <2>2
  <2> HIDE DEF b
  <2>6. q \in DataPage /\ FormOnly(page, q) BY <1>1, <2>4 DEF DataPage, FormOnly
  <2> HIDE DEF q
  <2> QED BY <1>4, <2>5, <2>6, FormBecomes
<1>6. CASE Sets!Becomes([page EXCEPT !.limited = ~page.limited], 1)
  <2> DEFINE b == ~page.limited
             q == [page EXCEPT !.limited = b]
  <2>1. b \in Flag BY Truths, Zenon
  <2> HIDE DEF b
  <2>2. q \in DataPage /\ FormOnly(page, q) BY <1>1, <2>1 DEF DataPage, FormOnly
  <2>3. Sets!Becomes(q, 1) BY <1>6 DEF b
  <2> HIDE DEF q
  <2> QED BY <1>4, <2>2, <2>3, FormBecomes
<1>7. CASE Sets!Becomes([page EXCEPT !.scale = ~page.scale], 1)
  <2> DEFINE b == ~page.scale
             q == [page EXCEPT !.scale = b]
  <2>1. b \in Flag BY Truths, Zenon
  <2> HIDE DEF b
  <2>2. q \in DataPage /\ FormOnly(page, q) BY <1>1, <2>1 DEF DataPage, FormOnly
  <2>3. Sets!Becomes(q, 1) BY <1>7 DEF b
  <2> HIDE DEF q
  <2> QED BY <1>4, <2>2, <2>3, FormBecomes
<1> QED BY <1>3, <1>5, <1>6, <1>7

\* A step of the series.
LEMMA SeriesStep ==
  ASSUME SetsInv, NEW s \in Series, NEW a \in {"here", "runs"}, NEW told \in Seq(Nat),
         page' = [page EXCEPT !.series = s, !.at = a, !.toldRuns = told],
         NEW R \in Seq(DataRun), NEW n \in Nat,
         api' = [api EXCEPT !.runs = R, !.experiments = n],
         past' \in DataPast, past'.asked = past.asked,
         \A i \in DOMAIN R : Suits(R[i]),
         s.at # "none" => SeriesOK(s, R, past'.pressed),
         Len(R) + (IF s.at = "batch" THEN 1 ELSE 0) <= n,
         a = "here" => told = <<>>, ReportOK(told, R, past'.pressed)
  PROVE  SetsInv'
<1>1. page \in DataPage /\ api \in DataTables BY DEF SetsInv
<1>2. /\ page' \in DataPage /\ page'.items = page.items /\ page'.series = s /\ page'.at = a
      /\ page'.toldRuns = told /\ page'.toldData = page.toldData /\ page'.detail = page.detail
      /\ page'.lost = page.lost /\ page'.selected = page.selected /\ page'.make = page.make
  BY <1>1 DEF DataPage
<1>3. /\ api' \in DataTables /\ api'.docs = api.docs /\ api'.full = api.full
      /\ api'.runs = R /\ api'.experiments = n
  BY <1>1 DEF DataTables
<1>4. AskedOK(page', past'.asked) BY <1>2 DEF SetsInv, AskedOK
<1>5. MadeOK(page', api'.docs) BY <1>2, <1>3 DEF SetsInv, MadeOK
<1>6. Unrun(page') = IF s.at = "batch" THEN 1 ELSE 0 BY <1>2 DEF Unrun
<1>7. /\ There \subseteq api'.full /\ api'.full \subseteq api'.docs
      /\ page'.items \subseteq api'.docs /\ page'.toldData \subseteq api'.full
  BY <1>2, <1>3 DEF SetsInv
<1> QED BY <1>2, <1>3, <1>4, <1>5, <1>6, <1>7 DEF SetsInv

LEMMA SeriesFields ==
  ASSUME NEW s \in Series
  PROVE  /\ s.id \in DataNames /\ s.format \in DataFormats \cup {"none"}
         /\ s.rules \in Seq(RuleNames) /\ s.limit \in Nat /\ s.made \in Seq(Nat)
         /\ s.at \in {"none", "create", "batch"}
BY DEF Series

LEMMA PressKeeps ==
  ASSUME SetsInv, SetParameters, page.at = "here", Sets!Press PROVE SetsInv'
<1> DEFINE id == page.selected
           f == Data[id].format
           l == Sets!LimitOf(page, f)
           g == page.picked
           s == [id |-> id, format |-> f, rules |-> g, limit |-> l, made |-> <<>>,
                 at |-> "create"]
           e == past.events + 1
           h == page.at
           t == page.toldRuns
           R == api.runs
           n == api.experiments
<1>1. page \in DataPage /\ past \in DataPast /\ api \in DataTables BY DEF SetsInv
<1>2. /\ page' = [page EXCEPT !.series = s] /\ past' = [past EXCEPT !.events = e, !.pressed = g]
      /\ api' = api
  BY DEF Sets!Press
<1>3. Sets!Ready(page) /\ page.series = Sets!NoSeries BY DEF Sets!Press
<1>4. id \in DataIds BY <1>1, <1>3, DataFields DEF Sets!Ready, DataNames
<1>5. f \in DataFormats /\ Data[id].count \in Nat BY <1>4 DEF SetParameters, DataIds
<1>6. g \in Seq(RuleNames) /\ g # <<>> BY <1>1, <1>3, DataFields DEF Sets!Ready
<1>7. l \in Nat /\ l <= Data[id].count
  <2>1. CASE f = "approval" \/ (f = "ranking" /\ page.limited)
    <3>1. l \in 1..Data[id].count BY <1>3, <2>1 DEF Sets!Ready
    <3> HIDE DEF l
    <3> QED BY <1>5, <3>1
  <2>2. CASE ~(f = "approval" \/ (f = "ranking" /\ page.limited))
    <3>1. l = 0 BY <2>2 DEF Sets!LimitOf
    <3> HIDE DEF l
    <3> QED BY <1>5, <3>1
  <2> QED BY <2>1, <2>2
<1>8. \A j \in DOMAIN g : Takes(g[j], f)
  <2> DEFINE A == Sets!RulesFor(page, f)
  <2>1. page.rules \in {<<>>, RunRules} BY <1>1, DataFields
  <2>2. A \in Seq({r \in RuleSet : r.runs /\ f \in r.formats}) BY <2>1, RulesForIs
  <2>3. Sets!ToSet(g) \subseteq Sets!ToSet(Sets!IdsOf(A)) BY <1>3 DEF Sets!Ready
  <2> HIDE DEF A, f, g
  <2>4. \A x \in Sets!ToSet(Sets!IdsOf(A)) : Takes(x, f) BY <2>2, NamesOf
  <2>5. \A j \in DOMAIN g : g[j] \in Sets!ToSet(g) BY DEF Sets!ToSet
  <2> QED BY <2>3, <2>4, <2>5
<1>9. h = "here" /\ t = <<>> /\ t \in Seq(Nat)
  <2>1. h = "here" /\ t = <<>> BY DEF SetsInv
  <2>2. <<>> \in Seq(Nat) OBVIOUS
  <2> HIDE DEF t
  <2> QED BY <2>1, <2>2
<1>10. R \in Seq(DataRun) /\ n \in Nat /\ Len(R) <= n
  <2>1. page.series.at = "none" BY <1>3 DEF Sets!NoSeries
  <2> QED BY <1>1, <2>1 DEF SetsInv, DataTables, Unrun
<1>11. \A i \in DOMAIN R : Suits(R[i]) BY DEF SetsInv
<1> HIDE DEF id, f, l, g, e
<1>12. s \in Series BY <1>4, <1>5, <1>6, <1>7 DEF Series, DataNames
<1>13. SeriesOK(s, R, g)
  <2>1. Len(<<>>) + Len(g) = Len(g) /\ \A j \in DOMAIN g : g[j] = g[Len(<<>>) + j] BY <1>6
  <2>2. s.format = Data[s.id].format BY DEF f
  <2> QED BY <1>4, <1>6, <1>7, <1>8, <2>1, <2>2 DEF SeriesOK
<1>14. s.at = "create" OBVIOUS
<1> HIDE DEF s, h, t, R, n
<1>15. page' = [page EXCEPT !.series = s, !.at = h, !.toldRuns = t]
  BY <1>1, <1>2 DEF DataPage, h, t
<1>16. api' = [api EXCEPT !.runs = R, !.experiments = n] BY <1>1, <1>2 DEF DataTables, R, n
<1>17. past' \in DataPast /\ past'.asked = past.asked /\ past'.pressed = g
  <2>1. e \in Nat BY <1>1 DEF DataPast, e
  <2> QED BY <1>1, <1>2, <1>6, <2>1 DEF DataPast
<1>18. h \in {"here", "runs"} /\ (h = "here" => t = <<>>) BY <1>9
<1>19. s.at # "none" => SeriesOK(s, R, past'.pressed) BY <1>13, <1>17
<1>20. Len(R) + (IF s.at = "batch" THEN 1 ELSE 0) <= n BY <1>10, <1>14
<1>21. ReportOK(t, R, past'.pressed) BY <1>9 DEF ReportOK
<1> QED BY <1>9, <1>10, <1>11, <1>12, <1>15, <1>16, <1>17, <1>18, <1>19, <1>20, <1>21, SeriesStep

LEMMA CreateExperimentKeeps ==
  ASSUME SetsInv, page.at = "here", Sets!CreateExperiment PROVE SetsInv'
<1> DEFINE o == page.series
           s == [o EXCEPT !.at = "batch"]
           h == page.at
           t == page.toldRuns
           R == api.runs
           n == api.experiments + 1
<1>1. page \in DataPage /\ past \in DataPast /\ api \in DataTables /\ o \in Series
  BY DataFields DEF SetsInv
<1>2. /\ page' = [page EXCEPT !.series = s] /\ past' = past
      /\ api' = [api EXCEPT !.experiments = n] /\ o.at = "create"
  BY <1>1 DEF Sets!CreateExperiment, DataPage
<1>3. h = "here" /\ t = <<>> /\ t \in Seq(Nat)
  <2>1. h = "here" /\ t = <<>> BY DEF SetsInv
  <2>2. <<>> \in Seq(Nat) OBVIOUS
  <2> HIDE DEF t
  <2> QED BY <2>1, <2>2
<1>4. R \in Seq(DataRun) /\ n \in Nat /\ Len(R) + 1 <= n
  BY <1>1, <1>2 DEF SetsInv, DataTables, Unrun
<1>5. \A i \in DOMAIN R : Suits(R[i]) BY DEF SetsInv
<1>6. SeriesOK(o, R, past.pressed) BY <1>2 DEF SetsInv
<1> HIDE DEF o
<1>7. /\ s \in Series /\ s.at = "batch" /\ s.id = o.id /\ s.format = o.format /\ s.limit = o.limit
      /\ s.rules = o.rules /\ s.made = o.made
  BY <1>1 DEF Series
<1> HIDE DEF s, h, t, R, n
<1>8. SeriesOK(s, R, past.pressed) BY <1>6, <1>7 DEF SeriesOK
<1>9. page' = [page EXCEPT !.series = s, !.at = h, !.toldRuns = t]
  BY <1>1, <1>2 DEF DataPage, h, t
<1>10. api' = [api EXCEPT !.runs = R, !.experiments = n] BY <1>1, <1>2 DEF DataTables, R
<1>11. h \in {"here", "runs"} /\ (h = "here" => t = <<>>) BY <1>3
<1>12. Len(R) + (IF s.at = "batch" THEN 1 ELSE 0) <= n BY <1>4, <1>7
<1>13. ReportOK(t, R, past.pressed) BY <1>3 DEF ReportOK
<1>14. past' \in DataPast /\ past'.asked = past.asked /\ past'.pressed = past.pressed BY <1>1, <1>2
<1> QED BY <1>3, <1>4, <1>5, <1>7, <1>8, <1>9, <1>10, <1>11, <1>12, <1>13, <1>14, SeriesStep

\* The run a series asks for next.
NextRun(s) == [id |-> s.id, rule |-> Head(s.rules), format |-> s.format, limit |-> s.limit]

LEMMA NextRunSuits ==
  ASSUME SetParameters, NEW s \in Series, NEW R, NEW b, SeriesOK(s, R, b)
  PROVE  /\ NextRun(s) \in DataRun /\ Suits(NextRun(s))
         /\ NextRun(s).id = s.id /\ NextRun(s).rule = b[Len(s.made) + 1]
<1> DEFINE x == Head(s.rules)
           r == [id |-> s.id, rule |-> x, format |-> s.format, limit |-> s.limit]
           k == Len(s.made) + 1
<1>1. /\ s.id \in DataIds /\ s.format = Data[s.id].format /\ s.limit <= Data[s.id].count
      /\ \A j \in DOMAIN s.rules : Takes(s.rules[j], s.format)
      /\ s.rules # <<>> /\ \A j \in DOMAIN s.rules : s.rules[j] = b[Len(s.made) + j]
  BY DEF SeriesOK
<1>2. 1 \in DOMAIN s.rules /\ x = s.rules[1] /\ x \in RuleNames BY <1>1, SeriesFields
<1>3. Takes(x, s.format) /\ x = b[k] BY <1>1, <1>2
<1>4. s.format \in DataFormats BY <1>1 DEF SetParameters, DataIds
<1> HIDE DEF x, k
<1>5. r \in DataRun BY <1>1, <1>2, <1>4, SeriesFields DEF DataRun
<1>6. r.id = s.id /\ r.rule = x /\ r.format = s.format /\ r.limit = s.limit OBVIOUS
<1> HIDE DEF r
<1>7. Suits(r) BY <1>1, <1>3, <1>6 DEF Suits
<1> QED BY <1>3, <1>5, <1>6, <1>7 DEF NextRun, r, x, k

\* A run appended to those on record.
LEMMA RunAppended ==
  ASSUME NEW R \in Seq(DataRun), NEW r \in DataRun
  PROVE  /\ Append(R, r) \in Seq(DataRun) /\ Len(Append(R, r)) = Len(R) + 1
         /\ Len(R) \in Nat /\ Append(R, r)[Len(R) + 1] = r
         /\ Len(R) + 1 \in DOMAIN Append(R, r)
         /\ \A i \in DOMAIN R : i \in DOMAIN Append(R, r) /\ Append(R, r)[i] = R[i]
         /\ \A i \in DOMAIN Append(R, r) : i \in DOMAIN R \/ i = Len(R) + 1
OBVIOUS

LEMMA SuitedRuns ==
  ASSUME NEW R \in Seq(DataRun), NEW r \in DataRun, Suits(r), \A i \in DOMAIN R : Suits(R[i])
  PROVE  \A i \in DOMAIN Append(R, r) : Suits(Append(R, r)[i])
<1> DEFINE A == Append(R, r)
<1>1. /\ A[Len(R) + 1] = r /\ \A i \in DOMAIN R : A[i] = R[i]
      /\ \A i \in DOMAIN A : i \in DOMAIN R \/ i = Len(R) + 1
  BY RunAppended
<1> HIDE DEF A
<1>2. \A i \in DOMAIN A : Suits(A[i]) BY <1>1
<1> QED BY <1>2 DEF A

\* The runs of a series with one more.
MoreMade(s, R, b, r) ==
  LET m == Append(s.made, Len(R) + 1)
      t == Tail(s.rules)
      A == Append(R, r)
  IN  /\ m \in Seq(Nat) /\ t \in Seq(RuleNames) /\ Len(m) + Len(t) = Len(b)
      /\ \A i \in DOMAIN m : m[i] \in DOMAIN A /\ A[m[i]].rule = b[i] /\ A[m[i]].id = s.id
      /\ \A j \in DOMAIN t : t[j] = b[Len(m) + j]
      /\ \A j \in DOMAIN t : Takes(t[j], s.format)

LEMMA OneMoreMade ==
  ASSUME NEW s \in Series, NEW R \in Seq(DataRun), NEW b \in Seq(RuleNames), SeriesOK(s, R, b),
         NEW r \in DataRun, r.id = s.id, r.rule = b[Len(s.made) + 1]
  PROVE  MoreMade(s, R, b, r)
<1> DEFINE o == s.made
           u == s.rules
           k == Len(R) + 1
           m == Append(o, k)
           t == Tail(u)
           A == Append(R, r)
           M == Len(o)
<1>1. o \in Seq(Nat) /\ u \in Seq(RuleNames) BY SeriesFields
<1>2. /\ u # <<>> /\ M + Len(u) = Len(b)
      /\ \A i \in DOMAIN o : o[i] \in DOMAIN R /\ R[o[i]].rule = b[i] /\ R[o[i]].id = s.id
      /\ \A j \in DOMAIN u : u[j] = b[M + j] /\ Takes(u[j], s.format)
  BY DEF SeriesOK
<1>3. /\ k \in Nat /\ A[k] = r /\ k \in DOMAIN A
      /\ \A i \in DOMAIN R : i \in DOMAIN A /\ A[i] = R[i]
  BY RunAppended
<1>4. r.rule = b[M + 1] OBVIOUS
<1> HIDE DEF o, u, k, A
<1>5. /\ m \in Seq(Nat) /\ M \in Nat /\ Len(m) = M + 1 /\ DOMAIN o = 1..M
      /\ DOMAIN m = 1..(M + 1) /\ m[M + 1] = k /\ \A i \in 1..M : m[i] = o[i]
  BY <1>1, <1>3
<1>6. /\ t \in Seq(RuleNames) /\ Len(t) = Len(u) - 1 /\ Len(u) \in Nat
      /\ DOMAIN t = 1..(Len(u) - 1) /\ DOMAIN u = 1..Len(u)
      /\ \A j \in 1..(Len(u) - 1) : t[j] = u[j + 1]
  BY <1>1, <1>2
<1> HIDE DEF m, t, M
<1>7. Len(b) \in Nat OBVIOUS
<1>8. Len(m) + Len(t) = Len(b)
  <2> DEFINE v == Len(u)
             w == Len(t)
             x == Len(m)
             y == Len(b)
  <2>1. M + v = y /\ x = M + 1 /\ w = v - 1 /\ M \in Nat /\ v \in Nat /\ y \in Nat
    BY <1>2, <1>5, <1>6, <1>7
  <2> HIDE DEF v, w, x, y
  <2>2. x + w = y BY <2>1
  <2> QED BY <2>2 DEF w, x, y
<1>9. ASSUME NEW i \in DOMAIN m
      PROVE  m[i] \in DOMAIN A /\ A[m[i]].rule = b[i] /\ A[m[i]].id = s.id
  <2>1. CASE i = M + 1 BY <1>3, <1>4, <1>5, <2>1
  <2>2. CASE i # M + 1
    <3>1. i \in 1..M BY <1>5, <2>2
    <3> QED BY <1>2, <1>3, <1>5, <3>1
  <2> QED BY <2>1, <2>2
<1>10. ASSUME NEW j \in DOMAIN t PROVE t[j] = b[Len(m) + j] /\ Takes(t[j], s.format)
  <2>1. j \in 1..(Len(u) - 1) /\ j + 1 \in DOMAIN u BY <1>6
  <2>2. M + (j + 1) = Len(m) + j BY <1>5, <2>1
  <2> QED BY <1>2, <1>6, <2>1, <2>2
<1> QED BY <1>5, <1>6, <1>8, <1>9, <1>10 DEF m, t, A, o, u, k, MoreMade

LEMMA BatchRunKeeps ==
  ASSUME SetsInv, SetParameters, page.at = "here", Sets!BatchRun PROVE SetsInv'
<1> DEFINE o == page.series
           r == NextRun(o)
           R == Append(api.runs, r)
           n == api.experiments
           m == Append(o.made, Len(api.runs) + 1)
           u == Tail(o.rules)
           s == [o EXCEPT !.rules = u, !.made = m, !.at = "create"]
<1>1. /\ page \in DataPage /\ past \in DataPast /\ api \in DataTables /\ o \in Series
      /\ api.runs \in Seq(DataRun) /\ n \in Nat /\ past.pressed \in Seq(RuleNames)
  BY SetFields, DataFields
<1>2. o.at = "batch" /\ SeriesOK(o, api.runs, past.pressed) BY DEF Sets!BatchRun, SetsInv
<1>3. api' = [api EXCEPT !.runs = R] /\ past' = past
  BY DEF Sets!BatchRun, Sets!RunFor, Sets!SeriesDataset, NextRun
<1>4. page' = IF s.rules # <<>> THEN [page EXCEPT !.series = s]
              ELSE [page EXCEPT !.series = Sets!NoSeries, !.toldRuns = s.made, !.at = "runs"]
  BY DEF Sets!BatchRun, Sets!AfterRun
<1>5. /\ r \in DataRun /\ Suits(r) /\ r.id = o.id /\ r.rule = past.pressed[Len(o.made) + 1]
  BY <1>1, <1>2, NextRunSuits
<1> HIDE DEF r
<1>6. /\ R \in Seq(DataRun) /\ Len(R) = Len(api.runs) + 1 /\ Len(api.runs) \in Nat
      /\ \A i \in DOMAIN R : Suits(R[i])
  <2>1. \A i \in DOMAIN api.runs : Suits(api.runs[i]) BY DEF SetsInv
  <2> QED BY <1>1, <1>5, <2>1, RunAppended, SuitedRuns
<1>7. Len(R) <= n BY <1>1, <1>2, <1>6 DEF SetsInv, Unrun
<1>8. /\ m \in Seq(Nat) /\ u \in Seq(RuleNames) /\ Len(m) + Len(u) = Len(past.pressed)
      /\ \A i \in DOMAIN m : /\ m[i] \in DOMAIN R
                             /\ R[m[i]].rule = past.pressed[i] /\ R[m[i]].id = o.id
      /\ \A j \in DOMAIN u : u[j] = past.pressed[Len(m) + j]
      /\ \A j \in DOMAIN u : Takes(u[j], o.format)
  <2>1. MoreMade(o, api.runs, past.pressed, r)
    <3> HIDE DEF o
    <3> QED BY <1>1, <1>2, <1>5, OneMoreMade
  <2> QED BY <2>1, Zenon DEF MoreMade
<1> HIDE DEF R, m, u
<1>9. /\ s \in Series /\ s.at = "create" /\ s.id = o.id /\ s.format = o.format
      /\ s.limit = o.limit /\ s.rules = u /\ s.made = m
  BY <1>1, <1>8 DEF Series
<1> HIDE DEF s, o, n
<1>10. api' = [api EXCEPT !.runs = R, !.experiments = n] BY <1>1, <1>3 DEF DataTables, n
<1>11. past' \in DataPast /\ past'.asked = past.asked /\ past'.pressed = past.pressed BY <1>1, <1>3
<1>12. CASE u # <<>>
  <2> DEFINE h == page.at
             t == page.toldRuns
  <2>1. h = "here" /\ t = <<>> /\ t \in Seq(Nat)
    <3>1. h = "here" /\ t = <<>> BY DEF SetsInv
    <3>2. <<>> \in Seq(Nat) OBVIOUS
    <3> HIDE DEF t
    <3> QED BY <3>1, <3>2
  <2>2. page' = [page EXCEPT !.series = s, !.at = h, !.toldRuns = t]
    BY <1>1, <1>4, <1>9, <1>12 DEF DataPage
  <2>3. SeriesOK(s, R, past.pressed) BY <1>2, <1>8, <1>9, <1>12 DEF SeriesOK
  <2> HIDE DEF h, t
  <2>4. h \in {"here", "runs"} /\ (h = "here" => t = <<>>) BY <2>1
  <2>5. ReportOK(t, R, past'.pressed) BY <2>1 DEF ReportOK
  <2>6. Len(R) + (IF s.at = "batch" THEN 1 ELSE 0) <= n BY <1>1, <1>6, <1>7, <1>9
  <2>7. s.at # "none" => SeriesOK(s, R, past'.pressed) BY <1>11, <2>3
  <2>8. \A i \in DOMAIN R : Suits(R[i]) BY <1>6
  <2>9. n \in Nat BY <1>1 DEF n
  <2> QED BY <1>6, <1>9, <1>10, <1>11, <2>1, <2>2, <2>4, <2>5, <2>6, <2>7, <2>8, <2>9, SeriesStep
<1>13. CASE u = <<>>
  <2> DEFINE z == Sets!NoSeries
             h == "runs"
  <2>1. page' = [page EXCEPT !.series = z, !.at = h, !.toldRuns = m]
    BY <1>1, <1>4, <1>9, <1>13 DEF DataPage
  <2>2. z \in Series /\ z.at = "none" BY DEF Sets!NoSeries, Series, DataNames
  <2>3. h \in {"here", "runs"} /\ h # "here" OBVIOUS
  <2>4. Len(m) = Len(past.pressed)
    <3>1. Len(u) = 0 BY <1>13
    <3>2. Len(m) \in Nat BY <1>8
    <3> QED BY <1>8, <3>1, <3>2
  <2>5. ReportOK(m, R, past'.pressed)
    <3>1. o.id \in DataIds BY <1>2 DEF SeriesOK, o
    <3>2. \A i \in DOMAIN m : /\ m[i] \in DOMAIN R
                              /\ R[m[i]].rule = past'.pressed[i] /\ R[m[i]].id = o.id
      BY <1>8, <1>11
    <3>3. \E id \in DataIds : \A i \in DOMAIN m :
            m[i] \in DOMAIN R /\ R[m[i]].rule = past'.pressed[i] /\ R[m[i]].id = id
      BY <3>1, <3>2, Zenon
    <3>4. Len(m) = Len(past'.pressed) BY <1>11, <2>4
    <3> QED BY <3>3, <3>4, Zenon DEF ReportOK
  <2> HIDE DEF z, h
  <2>6. Len(R) + (IF z.at = "batch" THEN 1 ELSE 0) <= n BY <1>1, <1>6, <1>7, <2>2
  <2>7. h = "here" => m = <<>> BY <2>3
  <2>8. z.at # "none" => SeriesOK(z, R, past'.pressed) BY <2>2
  <2>9. \A i \in DOMAIN R : Suits(R[i]) BY <1>6
  <2>10. n \in Nat BY <1>1 DEF n
  <2> QED BY <1>6, <1>8, <1>10, <1>11, <2>1, <2>2, <2>3, <2>5, <2>6, <2>7, <2>8, <2>9, <2>10, SeriesStep
<1> QED BY <1>12, <1>13

LEMMA SeriesFailsKeeps ==
  ASSUME SetsInv, SetParameters, page.at = "here", Sets!SeriesFails PROVE SetsInv'
<1> DEFINE o == page.series
           z == Sets!NoSeries
           h == page.at
           t == page.toldRuns
<1>1. /\ page \in DataPage /\ past \in DataPast /\ api \in DataTables /\ o \in Series
      /\ api.runs \in Seq(DataRun) /\ api.experiments \in Nat /\ past.pressed \in Seq(RuleNames)
  BY SetFields, DataFields
<1>2. page' = [page EXCEPT !.series = z] /\ past' = past /\ o.at # "none"
  BY DEF Sets!SeriesFails
<1>3. h = "here" /\ t = <<>> /\ t \in Seq(Nat)
  <2>1. h = "here" /\ t = <<>> BY DEF SetsInv
  <2>2. <<>> \in Seq(Nat) OBVIOUS
  <2> HIDE DEF t
  <2> QED BY <2>1, <2>2
<1>4. z \in Series /\ z.at = "none" BY DEF Sets!NoSeries, Series, DataNames
<1>5. \A i \in DOMAIN api.runs : Suits(api.runs[i]) BY DEF SetsInv
<1>6. SeriesOK(o, api.runs, past.pressed) BY <1>2 DEF SetsInv
<1>7. /\ NextRun(o) \in DataRun /\ Suits(NextRun(o)) BY <1>1, <1>6, NextRunSuits
<1>8. /\ Len(api.runs) \in Nat /\ Len(api.runs) + Unrun(page) <= api.experiments
      /\ Unrun(page) \in Nat /\ Len(api.runs) <= api.experiments
  <2>1. Len(api.runs) + Unrun(page) <= api.experiments BY DEF SetsInv
  <2>2. Len(api.runs) \in Nat BY <1>1
  <2>3. Unrun(page) \in Nat BY DEF Unrun
  <2> QED BY <1>1, <2>1, <2>2, <2>3
<1>9. PICK R \in Seq(DataRun), n \in Nat :
        /\ api' = [api EXCEPT !.runs = R, !.experiments = n]
        /\ \A i \in DOMAIN R : Suits(R[i])
        /\ Len(R) <= n
  <2>1. CASE api' = api
    <3>1. api' = [api EXCEPT !.runs = api.runs, !.experiments = api.experiments]
      BY <1>1, <2>1 DEF DataTables
    <3> QED BY <1>1, <1>5, <1>8, <3>1
  <2>2. CASE api' = [api EXCEPT !.experiments = api.experiments + 1]
    <3> DEFINE n == api.experiments + 1
    <3>1. n \in Nat /\ Len(api.runs) <= n BY <1>1, <1>8
    <3>2. api' = [api EXCEPT !.runs = api.runs, !.experiments = n] BY <1>1, <2>2 DEF DataTables
    <3> HIDE DEF n
    <3> QED BY <1>1, <1>5, <3>1, <3>2
  <2>3. CASE o.at = "batch" /\ api' = [api EXCEPT !.runs = Append(api.runs, NextRun(o))]
    <3> DEFINE r == NextRun(o)
               R == Append(api.runs, r)
    <3> HIDE DEF r
    <3>1. r \in DataRun /\ Suits(r) BY <1>7 DEF r
    <3>2. R \in Seq(DataRun) /\ Len(R) = Len(api.runs) + 1 /\ \A i \in DOMAIN R : Suits(R[i])
      BY <1>1, <1>5, <3>1, RunAppended, SuitedRuns
    <3>3. api' = [api EXCEPT !.runs = R] BY <2>3 DEF r
    <3> HIDE DEF R
    <3>4. api' = [api EXCEPT !.runs = R, !.experiments = api.experiments]
      BY <1>1, <3>3 DEF DataTables
    <3>5. Len(R) <= api.experiments BY <1>8, <2>3, <3>2 DEF Unrun
    <3> QED BY <1>1, <3>2, <3>4, <3>5
  <2>4. \/ api' = api \/ api' = [api EXCEPT !.experiments = api.experiments + 1]
        \/ o.at = "batch" /\ api' = [api EXCEPT !.runs = Append(api.runs, NextRun(o))]
    BY DEF Sets!SeriesFails, Sets!RunFor, Sets!SeriesDataset, NextRun
  <2> QED BY <2>1, <2>2, <2>3, <2>4
<1> HIDE DEF z, h, t
<1>10. page' = [page EXCEPT !.series = z, !.at = h, !.toldRuns = t]
  BY <1>1, <1>2 DEF DataPage, h, t
<1>11. past' \in DataPast /\ past'.asked = past.asked BY <1>1, <1>2
<1>12. h \in {"here", "runs"} /\ (h = "here" => t = <<>>) BY <1>3
<1>13. ReportOK(t, R, past'.pressed) BY <1>3 DEF ReportOK
<1>14. Len(R) + (IF z.at = "batch" THEN 1 ELSE 0) <= n
  <2>1. Len(R) \in Nat OBVIOUS
  <2> QED BY <1>4, <1>9, <2>1
<1>15. z.at # "none" => SeriesOK(z, R, past'.pressed) BY <1>4
<1>16. \A i \in DOMAIN R : Suits(R[i]) BY <1>9
<1> QED BY <1>3, <1>4, <1>9, <1>10, <1>11, <1>12, <1>13, <1>14, <1>15, <1>16, SeriesStep

LEMMA SetsStart == ASSUME SetParameters, Sets!Init PROVE SetsInv
<1> DEFINE z == Sets!NoSeries
           w == FALSE
           t == TRUE
           m == [k \in Sets!Kinds |-> Sets!Idle]
           l == [approval |-> 2, ranking |-> 3]
<1>1. /\ api = [docs |-> There, full |-> There, runs |-> <<>>, experiments |-> 0]
      /\ page = [at |-> "here", rules |-> <<>>, items |-> {}, load |-> "page", loading |-> t,
                 selected |-> "none", detail |-> <<>>, waited |-> w, lost |-> w,
                 make |-> m, picked |-> <<>>, limit |-> l, limited |-> w,
                 scale |-> t, series |-> z, toldData |-> {}, toldRuns |-> <<>>]
      /\ past = [events |-> 0, asked |-> "none", pressed |-> <<>>]
  BY DEF Sets!Init
<1>2. z \in Series /\ z.at = "none" BY DEF Sets!NoSeries, Series, DataNames
<1>3. w \in Flag /\ t \in Flag BY Flags
<1>4. m \in [DataKinds -> Making] /\ \A k \in DataKinds : m[k].at = "idle"
  <2>1. Sets!Idle \in Making /\ Sets!Idle.at = "idle" BY DEF Sets!Idle, Making, DataNames
  <2> HIDE DEF m
  <2>2. m = [k \in DataKinds |-> Sets!Idle] BY DEF m, Sets!Kinds, DataKinds
  <2> QED BY <2>1, <2>2
<1>5. l \in [approval : Nat, ranking : Nat] OBVIOUS
<1>6. <<>> \in Seq(Nat) /\ <<>> \in Seq(RuleNames) /\ <<>> \in Seq(DataRun) OBVIOUS
<1>7. There \in SUBSET DataIds BY DEF SetParameters
<1>8. <<>> \in Openings BY DEF Openings
<1> HIDE DEF z, w, t, m, l
<1>9. page \in DataPage BY <1>1, <1>2, <1>3, <1>4, <1>5, <1>6, <1>8 DEF DataPage, DataNames
<1>10. api \in DataTables BY <1>1, <1>6, <1>7 DEF DataTables
<1>11. past \in DataPast BY <1>1, <1>6 DEF DataPast, DataNames
<1>12. /\ page.selected = "none" /\ page.detail = <<>> /\ page.items = {} /\ page.toldData = {}
       /\ page.toldRuns = <<>> /\ page.series = z /\ page.make = m /\ past.asked = "none"
       /\ api.full = There /\ api.docs = There /\ api.runs = <<>> /\ api.experiments = 0
  BY <1>1
<1>13. AskedOK(page, past.asked) BY <1>12 DEF AskedOK
<1>14. MadeOK(page, api.docs) BY <1>4, <1>12 DEF MadeOK
<1>15. Len(api.runs) + Unrun(page) <= api.experiments BY <1>2, <1>12 DEF Unrun
<1>16. ReportOK(page.toldRuns, api.runs, past.pressed) BY <1>12 DEF ReportOK
<1>17. \A i \in DOMAIN api.runs : Suits(api.runs[i]) BY <1>12
<1> QED BY <1>2, <1>9, <1>10, <1>11, <1>12, <1>13, <1>14, <1>15, <1>16, <1>17 DEF SetsInv

LEMMA SetsGoOn == ASSUME SetsInv, SetParameters, Sets!Next PROVE SetsInv'
<1>1. page.at = "here" BY DEF Sets!Next
<1>2. Sets!ToSet(RunRules) = RuleSet BY DEF Sets!ToSet, RuleSet
<1>3. Sets!Ids = DataIds /\ Sets!Kinds = DataKinds BY DEF Sets!Ids, DataIds, Sets!Kinds, DataKinds
<1>4. CASE \E r \in RuleSet : Sets!Toggle(r) BY <1>4, ToggleKeeps
<1>5. CASE \E id \in DataIds : Sets!OpenDataset(id) BY <1>5, OpenDatasetKeeps
<1>6. CASE \E k \in DataKinds, id \in DataIds : Sets!Make(k, id) BY <1>6, MakeKeeps
<1>7. CASE \E k \in DataKinds : Sets!StoreDataset(k) \/ Sets!StoreBallots(k) \/ Sets!MakeFails(k)
  BY <1>7, StoreDatasetKeeps, StoreBallotsKeeps, MakeFailsKeeps
<1>8. CASE Sets!Refresh \/ Sets!Renew \/ Sets!ListEnds
  BY <1>8, RefreshKeepsSets, RenewKeepsSets, ListEndsKeeps
<1>9. CASE Sets!RulesArrive \/ Sets!DetailArrives \/ Sets!DetailLost \/ Sets!Edit
  BY <1>9, RulesArriveKeeps, DetailArrivesKeeps, DetailLostKeeps, EditKeeps
<1>10. CASE Sets!Press \/ Sets!CreateExperiment \/ Sets!BatchRun \/ Sets!SeriesFails
  BY <1>1, <1>10, PressKeeps, CreateExperimentKeeps, BatchRunKeeps, SeriesFailsKeeps
<1> QED BY <1>2, <1>3, <1>4, <1>5, <1>6, <1>7, <1>8, <1>9, <1>10 DEF Sets!Next

LEMMA SetsRest == ASSUME SetsInv, UNCHANGED <<api, page, past>> PROVE SetsInv'
BY DEF SetsInv, Unrun

LEMMA SameCardinality == \A S : Sets!Cardinality(S) = Cardinality(S)
BY Zenon DEF Sets!Cardinality, Cardinality

LEMMA SetsAreRight ==
  ASSUME SetsInv
  PROVE  /\ Sets!TypeOK /\ Sets!RunsFitTheirDataset /\ Sets!ReportedIsThere
         /\ Sets!CardIsOfLastAsked /\ Sets!EachRunHasItsExperiment
<1>1. Sets!TypeOK
  <2>1. Len(page.detail) <= 1
    <3>1. page.detail \in Openings BY SetFields, DataFields
    <3>2. page.detail = <<>> \/ \E id \in DataIds : page.detail = <<id>> BY <3>1 DEF Openings
    <3>3. CASE page.detail = <<>>
      <4>1. Len(page.detail) = 0 BY <3>3
      <4> QED BY <4>1
    <3>4. CASE \E id \in DataIds : page.detail = <<id>>
      <4>1. Len(page.detail) = 1 BY <3>4
      <4> QED BY <4>1
    <3> QED BY <3>2, <3>3, <3>4
  <2>2. Sets!ToSet(page.picked) \subseteq {r.id : r \in Sets!ToSet(RunRules)}
    <3>1. page.picked \in Seq(RuleNames) BY SetFields, DataFields
    <3>2. Sets!ToSet(RunRules) = RuleSet BY DEF Sets!ToSet, RuleSet
    <3>3. Sets!ToSet(page.picked) \subseteq RuleNames BY <3>1 DEF Sets!ToSet
    <3> QED BY <3>2, <3>3 DEF RuleNames
  <2>3. page.selected \in DataIds \cup {"none"} BY SetFields, DataFields DEF DataNames
  <2>4. /\ There \subseteq api.full /\ api.full \subseteq api.docs /\ page.items \subseteq api.docs
        /\ api.docs \subseteq DataIds
    BY SetFields DEF SetsInv
  <2> QED BY <2>1, <2>2, <2>3, <2>4 DEF Sets!TypeOK, Sets!Ids, DataIds
<1>2. Sets!RunsFitTheirDataset
  <2>1. Sets!ToSet(RunRules) = RuleSet BY DEF Sets!ToSet, RuleSet
  <2>2. \A i \in DOMAIN api.runs : Suits(api.runs[i]) BY DEF SetsInv
  <2> QED BY <2>1, <2>2 DEF Sets!RunsFitTheirDataset, Suits, Takes
<1>3. Sets!ReportedIsThere
  <2>1. page.toldData \subseteq api.full BY DEF SetsInv
  <2> SUFFICES ASSUME page.toldRuns # <<>>
               PROVE  /\ Len(page.toldRuns) = Len(past.pressed)
                      /\ \A i \in DOMAIN page.toldRuns :
                           api.runs[page.toldRuns[i]].rule = past.pressed[i]
                      /\ Sets!Cardinality({api.runs[n].id : n \in Sets!ToSet(page.toldRuns)}) = 1
    BY <2>1 DEF Sets!ReportedIsThere
  <2> DEFINE t == page.toldRuns
             S == {api.runs[n].id : n \in Sets!ToSet(t)}
  <2>2. PICK id \in DataIds : \A i \in DOMAIN t : api.runs[t[i]].rule = past.pressed[i]
                                                  /\ api.runs[t[i]].id = id
    BY DEF SetsInv, ReportOK
  <2>3. t \in Seq(Nat) BY SetFields, DataFields
  <2> HIDE DEF t
  <2>4. t # <<>> BY DEF t
  <2>5. 1 \in DOMAIN t BY <2>3, <2>4
  <2>6. Sets!ToSet(t) = {t[i] : i \in DOMAIN t} BY DEF Sets!ToSet
  <2>7. S = {id} BY <2>2, <2>5, <2>6
  <2> HIDE DEF S
  <2>8. Sets!Cardinality(S) = 1 BY <2>7, SameCardinality, FS_Singleton
  <2>9. Len(t) = Len(past.pressed) BY <2>4 DEF SetsInv, ReportOK, t
  <2> QED BY <2>2, <2>8, <2>9 DEF S, t
<1>4. Sets!CardIsOfLastAsked BY DEF SetsInv, AskedOK, Sets!CardIsOfLastAsked
<1>5. Sets!EachRunHasItsExperiment
  <2>1. Len(api.runs) + Unrun(page) <= api.experiments /\ page.items \subseteq api.docs
    BY DEF SetsInv
  <2>2. Len(api.runs) \in Nat /\ api.experiments \in Nat BY SetFields
  <2>3. Unrun(page) \in Nat BY DEF Unrun
  <2> QED BY <2>1, <2>2, <2>3 DEF Sets!EachRunHasItsExperiment
<1> QED BY <1>1, <1>2, <1>3, <1>4, <1>5

\* Datasets are made, opened and loaded while a series of runs goes on and requests get
\* lost: every run suits its dataset and has its experiment, a series that is reported is
\* the one that was asked for, and with nothing under way the card is that of the dataset
\* asked for last.
THEOREM RunsSuitTheirDatasets ==
  ASSUME SetParameters
  PROVE  Sets!Init /\ [][Sets!Next]_<<api, page, past>>
           => [](/\ Sets!RunsFitTheirDataset /\ Sets!ReportedIsThere
                 /\ Sets!CardIsOfLastAsked /\ Sets!EachRunHasItsExperiment)
<1>1. Sets!Init => SetsInv BY SetsStart
<1>2. SetsInv /\ [Sets!Next]_<<api, page, past>> => SetsInv' BY SetsGoOn, SetsRest
<1>3. SetsInv => /\ Sets!RunsFitTheirDataset /\ Sets!ReportedIsThere
                 /\ Sets!CardIsOfLastAsked /\ Sets!EachRunHasItsExperiment
  BY SetsAreRight
<1> QED BY <1>1, <1>2, <1>3, PTL

-----------------------------------------------------------------------------
(* ExperimentDraft.                                                        *)

PlanFormats == {"approval", "ranking", "score"}
PlanRuleSet == {PlanRules[i] : i \in DOMAIN PlanRules}
PlanIds == {r.id : r \in PlanRuleSet}
PlanOffers == UNION {r.formats : r \in PlanRuleSet}
PlanSources == DOMAIN PlanData \cup DOMAIN Polls
PlanSeeds == {"none", "whole", "fraction", "word"}
PlanScale == [min : Int, max : Int, step : Int]

\* What the effect on the limits may have seen.
PlanSome == [topK : Flag, approval : Flag, range : Flag, quota : Flag]
PlanViews == {Plan!Unseen} \cup [n : Nat, some : PlanSome, format : PlanFormats,
                                 committee : Int, max : Int, quota : Flag]

PlanForm == [format : PlanFormats, count : Int, committee : Int, quota : Flag, amax : Int,
             topK : Int, scale : PlanScale, seed : PlanSeeds]
PlanSeries == [at : {"dataset", "create", "batch"}, sure : Flag, id : PlanSources,
               rules : Seq(PlanIds), made : Seq(Nat), form : PlanForm]
PlanRun == [id : PlanSources, rule : PlanIds, sure : Flag, body : PlanForm]

\* The datasets asked for; one at most.
PlanDetails == {<<>>} \cup {<<id>> : id \in DOMAIN PlanData}
PlanPage == [step : 0..2, source : {"dataset", "published_election"},
             ds : DOMAIN PlanData \cup {"none"}, el : DOMAIN Polls \cup {"none"},
             detail : PlanDetails, lost : Flag, rules : {<<>>, PlanRules},
             picked : Seq(PlanIds), fitted : PlanFormats \cup {"none"}, ran : PlanViews,
             format : PlanFormats, count : Int, committee : Int, quota : Flag, amax : Int,
             top : Flag, topK : Int, scale : PlanScale, seed : PlanSeeds,
             series : PlanSeries \cup {Plan!NoSeries}, created : Seq(Nat)]

PlanParameters ==
  /\ \E S : PlanRules \in Seq(S)
  /\ PlanRules # <<>>
  /\ \A r \in PlanRuleSet :
       /\ r.formats \subseteq PlanFormats /\ r.formats # {} /\ r.committee
       /\ r.id # "none"
  /\ \A d \in {PlanData[id] : id \in DOMAIN PlanData} \cup {Polls[id] : id \in DOMAIN Polls} :
       d.format \in PlanOffers /\ d.count \in Nat /\ d.limit \in Nat
  /\ \A id \in DOMAIN Polls : Polls[id].count >= 4
  /\ DOMAIN PlanData # {} /\ DOMAIN Polls # {} /\ "none" \notin PlanSources
  /\ DOMAIN PlanData \cap DOMAIN Polls = {}
  /\ PlanNumbers \subseteq Int /\ PlanScales \subseteq PlanScale

LEMMA PlanFields ==
  ASSUME NEW p \in PlanPage
  PROVE  /\ p.step \in 0..2 /\ p.source \in {"dataset", "published_election"}
         /\ p.ds \in DOMAIN PlanData \cup {"none"} /\ p.el \in DOMAIN Polls \cup {"none"}
         /\ p.detail \in PlanDetails /\ p.lost \in Flag /\ p.rules \in {<<>>, PlanRules}
         /\ p.picked \in Seq(PlanIds) /\ p.fitted \in PlanFormats \cup {"none"}
         /\ p.ran \in PlanViews /\ p.format \in PlanFormats /\ p.count \in Int
         /\ p.committee \in Int /\ p.quota \in Flag /\ p.amax \in Int /\ p.top \in Flag
         /\ p.topK \in Int /\ p.scale \in PlanScale /\ p.seed \in PlanSeeds
         /\ p.series \in PlanSeries \cup {Plan!NoSeries} /\ p.created \in Seq(Nat)
BY DEF PlanPage

LEMMA SamePickedPlan ==
  /\ \A l, P : Plan!Picked(l, P) = Picked(l, P)
  /\ \A l, x : Plan!Without(l, x) = Without(l, x)
BY Zenon DEF Plan!Picked, Picked, Plan!Without, Without

LEMMA PlanFindIs ==
  ASSUME PlanParameters, NEW id
  PROVE  /\ Plan!Find(PlanRules, id) # Plan!NoRule =>
              id \in PlanIds /\ Plan!Find(PlanRules, id) \in PlanRuleSet
         /\ Plan!Find(<<>>, id) = Plan!NoRule
<1> DEFINE x == Plan!Find(PlanRules, id)
<1>1. CASE \E i \in DOMAIN PlanRules : PlanRules[i].id = id
  <2>1. x = PlanRules[CHOOSE i \in DOMAIN PlanRules : PlanRules[i].id = id]
    BY <1>1 DEF Plan!Find
  <2>2. PICK i \in DOMAIN PlanRules : x = PlanRules[i] /\ PlanRules[i].id = id BY <1>1, <2>1
  <2> HIDE DEF x
  <2>3. x \in PlanRuleSet /\ id \in PlanIds BY <2>2 DEF PlanRuleSet, PlanIds
  <2>4. Plan!Find(<<>>, id) = Plan!NoRule BY DEF Plan!Find
  <2> QED BY <2>3, <2>4 DEF x
<1>2. CASE ~ \E i \in DOMAIN PlanRules : PlanRules[i].id = id
  <2>1. x = Plan!NoRule BY <1>2 DEF Plan!Find
  <2> QED BY <2>1 DEF Plan!Find
<1> QED BY <1>1, <1>2

\* What the rules picked ask for.
LEMMA SomeIs ==
  ASSUME NEW p PROVE Plan!Some(p) \in PlanSome
<1> DEFINE a == \E r \in Plan!PickedRules(p) : r.topK
           b == \E r \in Plan!PickedRules(p) : r.approval
           c == \E r \in Plan!PickedRules(p) : r.range
           d == \E r \in Plan!PickedRules(p) : r.quota
<1>1. Plan!Some(p) = [topK |-> a, approval |-> b, range |-> c, quota |-> d]
  BY Zenon DEF Plan!Some
<1>2. a \in Flag /\ b \in Flag /\ c \in Flag /\ d \in Flag BY Zenon DEF Flag
<1> HIDE DEF a, b, c, d
<1> QED BY <1>1, <1>2 DEF PlanSome

LEMMA MaxCommitteeIs ==
  ASSUME NEW p, p.count \in Int
  PROVE  Plan!MaxCommittee(p) \in Nat \ {0} /\ (p.count >= 2 => Plan!MaxCommittee(p) = p.count)
BY DEF Plan!MaxCommittee

LEMMA SeenIs ==
  ASSUME NEW p \in PlanPage
  PROVE  /\ Plan!Seen(p) \in PlanViews
         /\ Plan!Seen(p).n = Len(p.picked) /\ Plan!Seen(p).some = Plan!Some(p)
         /\ Plan!Seen(p).format = p.format /\ Plan!Seen(p).committee = p.committee
         /\ Plan!Seen(p).max = Plan!MaxCommittee(p) /\ Plan!Seen(p).quota = p.quota
<1>1. Plan!Some(p) \in PlanSome BY SomeIs
<1>2. Plan!MaxCommittee(p) \in Int BY PlanFields, MaxCommitteeIs
<1>3. Len(p.picked) \in Nat BY PlanFields
<1> DEFINE n == Len(p.picked)
           m == Plan!MaxCommittee(p)
           s == Plan!Some(p)
<1>4. Plan!Seen(p) = [n |-> n, some |-> s, format |-> p.format, committee |-> p.committee,
                      max |-> m, quota |-> p.quota]
  BY DEF Plan!Seen
<1> HIDE DEF n, m, s
<1>5. Plan!Seen(p) \in PlanViews BY <1>1, <1>2, <1>3, <1>4, PlanFields DEF PlanViews, n, m, s
<1> QED BY <1>4, <1>5 DEF n, m, s

\* The rules for a format, and their names.
LEMMA PlanForFormatIs ==
  ASSUME PlanParameters, NEW p \in PlanPage, NEW f
  PROVE  /\ Plan!ForFormat(p.rules, f) \in Seq(PlanRuleSet)
         /\ \A i \in DOMAIN Plan!ForFormat(p.rules, f) : Plan!ForFormat(p.rules, f)[i].id \in PlanIds
<1> DEFINE l == p.rules
           P == {i \in DOMAIN l : f \in l[i].formats}
           k == Plan!ForFormat(p.rules, f)
<1>1. k = Picked(l, P) BY SamePickedPlan DEF Plan!ForFormat
<1>2. PlanRules \in Seq(PlanRuleSet)
  <2>1. PICK S : PlanRules \in Seq(S) BY DEF PlanParameters
  <2>2. Len(PlanRules) \in Nat /\ DOMAIN PlanRules = 1..Len(PlanRules)
        /\ PlanRules = [i \in 1..Len(PlanRules) |-> PlanRules[i]]
    BY <2>1
  <2>3. \A i \in 1..Len(PlanRules) : PlanRules[i] \in PlanRuleSet BY <2>2 DEF PlanRuleSet
  <2> QED BY <2>2, <2>3
<1>3. l \in Seq(PlanRuleSet)
  <2>1. l \in {<<>>, PlanRules} BY PlanFields
  <2>2. <<>> \in Seq(PlanRuleSet) OBVIOUS
  <2> HIDE DEF l
  <2> QED BY <1>2, <2>1, <2>2
<1> HIDE DEF l, P
<1>4. k \in Seq(PlanRuleSet) BY <1>1, <1>3, PickedAddUp
<1> HIDE DEF k
<1>5. \A i \in DOMAIN k : k[i] \in PlanRuleSet BY <1>4
<1>6. \A i \in DOMAIN k : k[i].id \in PlanIds BY <1>5 DEF PlanIds
<1> QED BY <1>4, <1>6 DEF k

LEMMA FittedRulesIs ==
  ASSUME PlanParameters, NEW p \in PlanPage
  PROVE  /\ Plan!FittedRules(p) \in Seq(PlanIds)
         /\ p.fitted = p.format \/ p.rules = <<>> => Plan!FittedRules(p) = p.picked
<1> DEFINE fitting == Plan!ForFormat(p.rules, p.format)
           P == {i \in DOMAIN p.picked : Plan!Find(fitting, p.picked[i]) # Plan!NoRule}
           kept == Plan!Picked(p.picked, P)
           n == IF fitting = <<>> THEN 0 ELSE 1
           first == [i \in 1..n |-> fitting[i].id]
<1>1. p.picked \in Seq(PlanIds) BY PlanFields
<1>2. kept \in Seq(PlanIds)
  <2>1. kept = Picked(p.picked, P) BY SamePickedPlan
  <2> HIDE DEF P, kept
  <2> QED BY <1>1, <2>1, PickedAddUp
<1>3. first \in Seq(PlanIds)
  <2>1. fitting \in Seq(PlanRuleSet) /\ \A i \in DOMAIN fitting : fitting[i].id \in PlanIds
    BY PlanForFormatIs
  <2> HIDE DEF fitting
  <2>2. n \in Nat /\ \A i \in 1..n : i \in DOMAIN fitting
    <3>1. CASE fitting = <<>> BY <3>1
    <3>2. CASE fitting # <<>>
      <4>1. Len(fitting) \in Nat /\ Len(fitting) >= 1 /\ DOMAIN fitting = 1..Len(fitting)
        BY <2>1, <3>2
      <4> QED BY <3>2, <4>1
    <3> QED BY <3>1, <3>2
  <2>3. \A i \in 1..n : fitting[i].id \in PlanIds BY <2>1, <2>2
  <2> HIDE DEF n
  <2> QED BY <2>2, <2>3
<1>4. Plan!FittedRules(p) = CASE p.fitted = p.format \/ p.rules = <<>> -> p.picked
                              [] p.fitted # p.format /\ p.rules # <<>> /\ kept # <<>> -> kept
                              [] OTHER -> first
  BY Zenon DEF Plan!FittedRules
<1> HIDE DEF kept, first
<1>5. CASE p.fitted = p.format \/ p.rules = <<>>
  <2>1. ~(p.fitted # p.format /\ p.rules # <<>> /\ kept # <<>>) BY <1>5
  <2>2. Plan!FittedRules(p) = p.picked BY <1>4, <1>5, <2>1
  <2> QED BY <1>1, <2>2
<1>6. CASE ~(p.fitted = p.format \/ p.rules = <<>>)
  <2>1. Plan!FittedRules(p) = kept \/ Plan!FittedRules(p) = first BY <1>4, <1>6
  <2> QED BY <1>2, <1>3, <1>6, <2>1
<1> QED BY <1>5, <1>6

\* The formats offered to a page.
LEMMA PlanOffered ==
  ASSUME PlanParameters, NEW p \in PlanPage
  PROVE  LET offered == UNION {r.formats : r \in Plan!ToSet(p.rules)}
         IN  /\ p.rules = PlanRules => offered = PlanOffers
             /\ p.rules # <<>> => p.rules = PlanRules
                                  /\ (CHOOSE f \in Head(p.rules).formats : TRUE) \in PlanOffers
             /\ PlanOffers \subseteq PlanFormats
<1>1. p.rules \in {<<>>, PlanRules} BY PlanFields
<1>2. Plan!ToSet(PlanRules) = PlanRuleSet BY Zenon DEF Plan!ToSet, PlanRuleSet
<1>3. PlanOffers \subseteq PlanFormats BY DEF PlanOffers, PlanParameters
<1>4. Head(PlanRules) \in PlanRuleSet
  <2>1. PICK S : PlanRules \in Seq(S) BY DEF PlanParameters
  <2>2. PlanRules # <<>> BY DEF PlanParameters
  <2>3. 1 \in DOMAIN PlanRules /\ Head(PlanRules) = PlanRules[1] BY <2>1, <2>2
  <2> QED BY <2>3 DEF PlanRuleSet
<1>5. (CHOOSE f \in Head(PlanRules).formats : TRUE) \in Head(PlanRules).formats
  BY <1>4 DEF PlanParameters
<1>6. (CHOOSE f \in Head(PlanRules).formats : TRUE) \in PlanOffers BY <1>4, <1>5 DEF PlanOffers
<1>7. p.rules = PlanRules => UNION {r.formats : r \in Plan!ToSet(p.rules)} = PlanOffers
  <2> SUFFICES ASSUME p.rules = PlanRules
               PROVE  UNION {r.formats : r \in Plan!ToSet(p.rules)} = PlanOffers
    OBVIOUS
  <2>1. Plan!ToSet(p.rules) = PlanRuleSet BY <1>2
  <2> QED BY <2>1, Zenon DEF PlanOffers
<1>8. p.rules # <<>> => p.rules = PlanRules BY <1>1
<1> QED BY <1>3, <1>6, <1>7, <1>8

\* The catalogue, and in it the form's format.
FormatOffered(p) == p.rules = <<>> \/ p.format \in PlanOffers

LEMMA FormatForIs ==
  ASSUME PlanParameters, NEW p \in PlanPage
  PROVE  /\ Plan!FormatFor(p) \in PlanFormats
         /\ p.rules = <<>> \/ Plan!FormatFor(p) \in PlanOffers
         /\ FormatOffered(p) => Plan!FormatFor(p) = p.format
<1> DEFINE offered == UNION {r.formats : r \in Plan!ToSet(p.rules)}
           h == CHOOSE f \in Head(p.rules).formats : TRUE
<1>1. Plan!FormatFor(p) = IF p.rules = <<>> \/ p.format \in offered THEN p.format ELSE h
  BY Zenon DEF Plan!FormatFor
<1>2. p.format \in PlanFormats BY PlanFields
<1>3. p.rules # <<>> => offered = PlanOffers /\ h \in PlanOffers /\ PlanOffers \subseteq PlanFormats
  BY PlanOffered
<1> HIDE DEF offered, h
<1> QED BY <1>1, <1>2, <1>3 DEF FormatOffered

\* What corrections leave alone.
Uncorrected(p, q) ==
  /\ q.step = p.step /\ q.source = p.source /\ q.ds = p.ds /\ q.el = p.el
  /\ q.detail = p.detail /\ q.lost = p.lost /\ q.rules = p.rules /\ q.count = p.count
  /\ q.seed = p.seed /\ q.series = p.series /\ q.created = p.created

LEMMA PlanCorrectedIs ==
  ASSUME PlanParameters, NEW p \in PlanPage
  PROVE  LET q == Plan!Corrected(p)
         IN  /\ q \in PlanPage /\ Uncorrected(p, q)
             /\ q.picked = Plan!FittedRules(p)
             /\ q.fitted = (IF p.rules = <<>> THEN p.fitted ELSE p.format)
             /\ q.ran = Plan!Seen(p) /\ q.format = Plan!FormatFor(p)
             /\ q.topK = (IF Plan!NoTop(p) THEN 2 ELSE p.topK)
             /\ q.top = (p.top /\ ~Plan!NoTop(p))
             /\ q.amax = Plan!MaxFor(p) /\ q.scale = Plan!ScaleFor(p)
             /\ q.quota = (p.quota /\ (Plan!New(p) => Plan!Some(p).quota))
             /\ q.committee = Plan!CommitteeFor(p)
<1> DEFINE q == Plan!Corrected(p)
           a == Plan!FittedRules(p)
           b == IF p.rules = <<>> THEN p.fitted ELSE p.format
           c == Plan!Seen(p)
           d == Plan!FormatFor(p)
           e == IF Plan!NoTop(p) THEN 2 ELSE p.topK
           t == p.top /\ ~Plan!NoTop(p)
           x == Plan!MaxFor(p)
           s == Plan!ScaleFor(p)
           u == p.quota /\ (Plan!New(p) => Plan!Some(p).quota)
           m == Plan!CommitteeFor(p)
<1>1. q = [p EXCEPT !.picked = a, !.fitted = b, !.ran = c, !.format = d, !.topK = e, !.top = t,
                    !.amax = x, !.scale = s, !.quota = u, !.committee = m]
  BY Zenon DEF Plan!Corrected
<1>2. a \in Seq(PlanIds) BY FittedRulesIs
<1>3. b \in PlanFormats \cup {"none"} BY PlanFields
<1>4. c \in PlanViews BY SeenIs
<1>5. d \in PlanFormats BY FormatForIs
<1>6. e \in Int BY PlanFields
<1>7. t \in Flag /\ u \in Flag BY Truths, Zenon DEF Flag
<1>8. x \in Int BY PlanFields DEF Plan!MaxFor
<1>9. s \in PlanScale
  <2>1. Plan!DefaultScale \in PlanScale BY DEF Plan!DefaultScale, PlanScale
  <2>2. p.scale \in PlanScale BY PlanFields
  <2> QED BY <2>1, <2>2 DEF Plan!ScaleFor
<1>10. m \in Int BY PlanFields, MaxCommitteeIs DEF Plan!CommitteeFor
<1> HIDE DEF q, a, b, c, d, e, t, x, s, u, m
<1>11. /\ q \in PlanPage /\ Uncorrected(p, q) /\ q.picked = a /\ q.fitted = b /\ q.ran = c
       /\ q.format = d /\ q.topK = e /\ q.top = t /\ q.amax = x /\ q.scale = s /\ q.quota = u
       /\ q.committee = m
  BY <1>1, <1>2, <1>3, <1>4, <1>5, <1>6, <1>7, <1>8, <1>9, <1>10 DEF PlanPage, Uncorrected
<1> QED BY <1>11, Zenon DEF q, a, b, c, d, e, t, x, s, u, m

\* The rules picked are those of the format, which is offered.
PlanSynced(p) == FormatOffered(p) /\ (p.rules = <<>> \/ p.fitted = p.format)

\* The effect on the limits has no number left to change.
PlanTamed(p) ==
  /\ PlanSynced(p)
  /\ Plan!New(p) => (p.quota => Plan!Some(p).quota) /\ p.committee <= Plan!MaxCommittee(p)

\* No effect has anything to do.
PlanCalm(p) == p.ran = Plan!Seen(p) /\ PlanSynced(p)

\* What the effect on the limits has seen had a committee of the right size.
PlanCounted(p) ==
  p.picked # <<>> /\ p.ran = Plan!Seen(p) => p.committee <= Plan!MaxCommittee(p)

PlanRests(p) == PlanCalm(p) /\ PlanCounted(p)

LEMMA PlanSameRules ==
  ASSUME NEW p, NEW q, q.picked = p.picked, q.rules = p.rules PROVE Plan!Some(q) = Plan!Some(p)
<1>1. Plan!PickedRules(q) = Plan!PickedRules(p) BY Zenon DEF Plan!PickedRules
<1> QED BY <1>1, Zenon DEF Plan!Some

LEMMA PlanSameCount ==
  ASSUME NEW p, NEW q, q.count = p.count PROVE Plan!MaxCommittee(q) = Plan!MaxCommittee(p)
BY DEF Plan!MaxCommittee

LEMMA PlanSameView ==
  ASSUME NEW p, NEW q, q.picked = p.picked, q.rules = p.rules, q.count = p.count,
         q.format = p.format, q.committee = p.committee, q.quota = p.quota
  PROVE  Plan!Seen(q) = Plan!Seen(p)
BY PlanSameRules, PlanSameCount, Zenon DEF Plan!Seen

\* The second render: the rules are fitted to the format.
LEMMA PlanSyncs ==
  ASSUME PlanParameters, NEW p \in PlanPage, FormatOffered(p)
  PROVE  PlanSynced(Plan!Corrected(p)) /\ Plan!Corrected(p).format = p.format
<1> DEFINE q == Plan!Corrected(p)
<1>1. /\ q.rules = p.rules /\ q.format = Plan!FormatFor(p)
      /\ q.fitted = (IF p.rules = <<>> THEN p.fitted ELSE p.format)
  BY PlanCorrectedIs DEF Uncorrected
<1>2. Plan!FormatFor(p) = p.format BY FormatForIs
<1> HIDE DEF q
<1>3. FormatOffered(q) BY <1>1, <1>2 DEF FormatOffered
<1>4. q.rules = <<>> \/ q.fitted = q.format BY <1>1, <1>2
<1>5. PlanSynced(q) /\ q.format = p.format BY <1>1, <1>2, <1>3, <1>4 DEF PlanSynced
<1> QED BY <1>5 DEF q

\* What a render does to a form whose rules are fitted.
LEMMA PlanSyncedIs ==
  ASSUME PlanParameters, NEW p \in PlanPage, PlanSynced(p)
  PROVE  LET q == Plan!Corrected(p)
         IN  /\ q.picked = p.picked /\ q.rules = p.rules /\ q.count = p.count
             /\ q.format = p.format /\ q.ran = Plan!Seen(p)
             /\ Plan!Some(q) = Plan!Some(p) /\ Plan!MaxCommittee(q) = Plan!MaxCommittee(p)
             /\ PlanSynced(q)
<1> DEFINE q == Plan!Corrected(p)
<1>1. FormatOffered(p) /\ (p.fitted = p.format \/ p.rules = <<>>) BY DEF PlanSynced
<1>2. Plan!FittedRules(p) = p.picked BY <1>1, FittedRulesIs
<1>3. /\ q.picked = p.picked /\ q.rules = p.rules /\ q.count = p.count /\ q.ran = Plan!Seen(p)
  BY <1>2, PlanCorrectedIs DEF Uncorrected
<1>4. PlanSynced(q) /\ q.format = p.format BY <1>1, PlanSyncs
<1> HIDE DEF q
<1>5. Plan!Some(q) = Plan!Some(p) BY <1>3, PlanSameRules
<1>6. Plan!MaxCommittee(q) = Plan!MaxCommittee(p) BY <1>3, PlanSameCount
<1> QED BY <1>3, <1>4, <1>5, <1>6 DEF q

\* The third render: the limits suit the rules.
LEMMA PlanTames ==
  ASSUME PlanParameters, NEW p \in PlanPage, PlanSynced(p)
  PROVE  PlanTamed(Plan!Corrected(p))
<1> DEFINE q == Plan!Corrected(p)
<1>1. /\ q.picked = p.picked /\ q.rules = p.rules /\ q.count = p.count /\ q.format = p.format
      /\ q.ran = Plan!Seen(p) /\ Plan!Some(q) = Plan!Some(p)
      /\ Plan!MaxCommittee(q) = Plan!MaxCommittee(p) /\ PlanSynced(q)
  BY PlanSyncedIs
<1>2. /\ q.quota = (p.quota /\ (Plan!New(p) => Plan!Some(p).quota))
      /\ q.committee = Plan!CommitteeFor(p)
  BY PlanCorrectedIs
<1>3. p.committee \in Int /\ Plan!MaxCommittee(p) \in Int BY PlanFields, MaxCommitteeIs
<1> HIDE DEF q
<1>4. Plan!New(p) => (q.quota => Plan!Some(q).quota) /\ q.committee <= Plan!MaxCommittee(q)
  <2>1. q.committee <= Plan!MaxCommittee(q) \/ ~Plan!New(p)
    BY <1>1, <1>2, <1>3 DEF Plan!CommitteeFor
  <2>2. Plan!New(p) => (q.quota => Plan!Some(q).quota) BY <1>1, <1>2, Zenon
  <2> QED BY <2>1, <2>2, Zenon
<1>5. ~Plan!New(p) => ~Plan!New(q)
  <2> SUFFICES ASSUME ~Plan!New(p), Plan!New(q) PROVE FALSE OBVIOUS
  <2>1. q.committee = p.committee /\ q.quota = p.quota
    <3>1. p.quota \in Flag BY PlanFields
    <3>2. q.quota = p.quota BY <1>2, <3>1, Zenon DEF Flag
    <3>3. q.committee = p.committee BY <1>2 DEF Plan!CommitteeFor
    <3> QED BY <3>2, <3>3
  <2>2. Plan!Seen(q) = Plan!Seen(p) BY <1>1, <2>1, PlanSameView
  <2> QED BY <1>1, <2>2 DEF Plan!New
<1>6. PlanTamed(q) BY <1>1, <1>4, <1>5 DEF PlanTamed
<1> QED BY <1>6 DEF q

\* The fourth render: nothing is left to do.
LEMMA PlanCalms ==
  ASSUME PlanParameters, NEW p \in PlanPage, PlanTamed(p)
  PROVE  PlanCalm(Plan!Corrected(p))
<1> DEFINE q == Plan!Corrected(p)
<1>0. PlanSynced(p) BY DEF PlanTamed
<1>1. /\ q.picked = p.picked /\ q.rules = p.rules /\ q.count = p.count /\ q.format = p.format
      /\ q.ran = Plan!Seen(p) /\ PlanSynced(q)
  BY <1>0, PlanSyncedIs
<1>2. /\ q.quota = (p.quota /\ (Plan!New(p) => Plan!Some(p).quota))
      /\ q.committee = Plan!CommitteeFor(p)
  BY PlanCorrectedIs
<1>3. p.committee \in Int /\ Plan!MaxCommittee(p) \in Int BY PlanFields, MaxCommitteeIs
<1> HIDE DEF q
<1>4. q.committee = p.committee BY <1>2, <1>3 DEF Plan!CommitteeFor, PlanTamed
<1>5. q.quota = p.quota
  <2>1. p.quota \in Flag BY PlanFields
  <2>2. Plan!New(p) => (p.quota => Plan!Some(p).quota) BY DEF PlanTamed
  <2> QED BY <1>2, <2>1, <2>2, Zenon DEF Flag
<1>6. Plan!Seen(q) = Plan!Seen(p) BY <1>1, <1>4, <1>5, PlanSameView
<1>7. PlanCalm(q) BY <1>1, <1>6 DEF PlanCalm
<1> QED BY <1>7 DEF q

LEMMA PlanCounts ==
  ASSUME PlanParameters, NEW p \in PlanPage, PlanCounted(p)
  PROVE  PlanCounted(Plan!Corrected(p))
<1> DEFINE q == Plan!Corrected(p)
<1>1. q \in PlanPage /\ q.ran = Plan!Seen(p) /\ q.count = p.count
      /\ q.committee = Plan!CommitteeFor(p)
  BY PlanCorrectedIs DEF Uncorrected
<1> HIDE DEF q
<1>2. Plan!MaxCommittee(q) = Plan!MaxCommittee(p) BY <1>1, PlanSameCount
<1>3. p.committee \in Int /\ Plan!MaxCommittee(p) \in Int BY PlanFields, MaxCommitteeIs
<1>4. ASSUME q.picked # <<>>, q.ran = Plan!Seen(q)
      PROVE  q.committee <= Plan!MaxCommittee(q)
  <2>1. Len(q.picked) = Len(p.picked) BY <1>1, <1>4, SeenIs
  <2>2. p.picked # <<>>
    <3>1. q.picked \in Seq(PlanIds) /\ p.picked \in Seq(PlanIds) BY <1>1, PlanFields
    <3> QED BY <1>4, <2>1, <3>1
  <2>3. Plan!New(p) => q.committee <= Plan!MaxCommittee(q)
    BY <1>1, <1>2, <1>3 DEF Plan!CommitteeFor
  <2>4. ~Plan!New(p) => q.committee <= Plan!MaxCommittee(q)
    BY <1>1, <1>2, <2>2 DEF Plan!CommitteeFor, Plan!New, PlanCounted
  <2> QED BY <2>3, <2>4
<1>5. PlanCounted(q) BY <1>4 DEF PlanCounted
<1> QED BY <1>5 DEF q

\* Four renders are enough, whatever the form.
LEMMA PlanSettledIs ==
  ASSUME PlanParameters, NEW p \in PlanPage, PlanCounted(p)
  PROVE  LET q == Plan!Settled(p)
         IN  /\ q \in PlanPage /\ Uncorrected(p, q) /\ PlanRests(q)
             /\ FormatOffered(p) => q.format = p.format
<1> DEFINE a == Plan!Corrected(p)
           b == Plan!Corrected(a)
           c == Plan!Corrected(b)
           d == Plan!Corrected(c)
<1>1. /\ a \in PlanPage /\ Uncorrected(p, a) /\ PlanCounted(a) /\ FormatOffered(a)
      /\ FormatOffered(p) => a.format = p.format
  <2>1. a \in PlanPage /\ Uncorrected(p, a) /\ PlanCounted(a) /\ a.format = Plan!FormatFor(p)
    BY PlanCorrectedIs, PlanCounts
  <2> HIDE DEF a
  <2> QED BY <2>1, FormatForIs DEF FormatOffered, Uncorrected
<1> HIDE DEF a
<1>2. /\ b \in PlanPage /\ Uncorrected(a, b) /\ PlanCounted(b) /\ PlanSynced(b)
      /\ b.format = a.format
  BY <1>1, PlanCorrectedIs, PlanCounts, PlanSyncs
<1> HIDE DEF b
<1>3. /\ c \in PlanPage /\ Uncorrected(b, c) /\ PlanCounted(c) /\ PlanTamed(c)
      /\ c.format = b.format
  BY <1>2, PlanCorrectedIs, PlanCounts, PlanTames, PlanSyncedIs
<1> HIDE DEF c
<1>4. PlanSynced(c) BY <1>3 DEF PlanTamed
<1>5. /\ d \in PlanPage /\ Uncorrected(c, d) /\ PlanCounted(d) /\ PlanCalm(d)
      /\ d.format = c.format
  BY <1>3, <1>4, PlanCorrectedIs, PlanCounts, PlanCalms, PlanSyncedIs
<1> HIDE DEF d
<1>6. Uncorrected(p, d) BY <1>1, <1>2, <1>3, <1>5 DEF Uncorrected
<1>7. PlanRests(d) BY <1>5 DEF PlanRests
<1>8. Plan!Settled(p) = d BY Zenon DEF Plan!Settled, a, b, c, d
<1> QED BY <1>1, <1>2, <1>3, <1>5, <1>6, <1>7, <1>8

LEMMA PlanSamePage ==
  ASSUME NEW p \in PlanPage, NEW q \in PlanPage,
         q.step = p.step, q.source = p.source, q.ds = p.ds, q.el = p.el, q.detail = p.detail,
         q.lost = p.lost, q.rules = p.rules, q.picked = p.picked, q.fitted = p.fitted,
         q.ran = p.ran, q.format = p.format, q.count = p.count, q.committee = p.committee,
         q.quota = p.quota, q.amax = p.amax, q.top = p.top, q.topK = p.topK,
         q.scale = p.scale, q.seed = p.seed, q.series = p.series, q.created = p.created
  PROVE  q = p
BY DEF PlanPage

\* The effects have come to rest: one more render changes nothing.
LEMMA PlanStaysCalm ==
  ASSUME PlanParameters, NEW p \in PlanPage, PlanCalm(p)
  PROVE  Plan!Corrected(p) = p
<1> DEFINE q == Plan!Corrected(p)
<1>1. PlanSynced(p) /\ p.ran = Plan!Seen(p) BY DEF PlanCalm
<1>2. ~Plan!New(p) /\ ~Plan!NoTop(p) BY <1>1 DEF Plan!New, Plan!NoTop
<1>3. q.picked = p.picked /\ q.format = p.format BY <1>1, PlanSyncedIs
<1>4. q \in PlanPage /\ Uncorrected(p, q)
      /\ q.fitted = (IF p.rules = <<>> THEN p.fitted ELSE p.format)
      /\ q.ran = Plan!Seen(p)
      /\ q.topK = (IF Plan!NoTop(p) THEN 2 ELSE p.topK)
      /\ q.top = (p.top /\ ~Plan!NoTop(p))
      /\ q.amax = Plan!MaxFor(p) /\ q.scale = Plan!ScaleFor(p)
      /\ q.quota = (p.quota /\ (Plan!New(p) => Plan!Some(p).quota))
      /\ q.committee = Plan!CommitteeFor(p)
  BY PlanCorrectedIs
<1> HIDE DEF q
<1>5. q.top = p.top /\ q.quota = p.quota
  <2>1. p.top \in Flag /\ p.quota \in Flag BY PlanFields
  <2> QED BY <1>2, <1>4, <2>1, Zenon DEF Flag
<1>6. q.topK = p.topK /\ q.amax = p.amax /\ q.scale = p.scale /\ q.committee = p.committee
  BY <1>2, <1>4 DEF Plan!MaxFor, Plan!ScaleFor, Plan!CommitteeFor
<1>7. q.fitted = p.fitted BY <1>1, <1>4 DEF PlanSynced
<1>8. q = p
  <2>1. /\ q.step = p.step /\ q.source = p.source /\ q.ds = p.ds /\ q.el = p.el
        /\ q.detail = p.detail /\ q.lost = p.lost /\ q.rules = p.rules /\ q.count = p.count
        /\ q.seed = p.seed /\ q.series = p.series /\ q.created = p.created
        /\ q.ran = p.ran
    BY <1>1, <1>4 DEF Uncorrected
  <2> QED BY <1>3, <1>4, <1>5, <1>6, <1>7, <2>1, PlanSamePage
<1> QED BY <1>8 DEF q

\* A change to a form at rest keeps the bound on the committee for what the effect has seen.
LEMMA PlanEditCounted ==
  ASSUME PlanParameters, NEW p \in PlanPage, NEW q \in PlanPage, PlanRests(p), q.ran = p.ran
  PROVE  PlanCounted(q)
<1> SUFFICES ASSUME q.picked # <<>>, q.ran = Plan!Seen(q) PROVE q.committee <= Plan!MaxCommittee(q)
  BY DEF PlanCounted
<1>1. Plan!Seen(q) = Plan!Seen(p) BY DEF PlanRests, PlanCalm
<1>2. Len(q.picked) = Len(p.picked) /\ q.committee = p.committee
      /\ Plan!MaxCommittee(q) = Plan!MaxCommittee(p)
  BY <1>1, SeenIs
<1>3. q.picked \in Seq(PlanIds) /\ p.picked \in Seq(PlanIds) BY PlanFields
<1>4. p.picked # <<>> BY <1>2, <1>3
<1> QED BY <1>2, <1>4 DEF PlanRests, PlanCounted, PlanCalm

-----------------------------------------------------------------------------
PlanSource(id) == IF id \in DOMAIN PlanData THEN PlanData[id] ELSE Polls[id]

\* With everything asked of the source answered and nothing of it changed by hand, the
\* format and the number of candidates are those of the source.
PlanOfSource(p, touched) ==
  /\ p.detail # <<>> => p.source = "dataset" /\ p.detail = <<p.ds>>
  /\ p.source = "dataset" /\ p.ds # "none" /\ p.detail = <<>> /\ ~p.lost /\ ~touched =>
       p.format = PlanData[p.ds].format /\ p.count = Plan!Shown(PlanData[p.ds])
  /\ p.source # "dataset" /\ p.el # "none" /\ ~touched =>
       p.format = Polls[p.el].format /\ p.count = Polls[p.el].count

\* A form whose parameters this rule can take, the others left out.
PlanSuits(rule, f) ==
  /\ rule # Plan!NoRule /\ f.format \in rule.formats
  /\ f.format = "approval" /\ rule.approval => f.amax \in 2..f.count
  /\ f.format = "ranking" /\ rule.topK /\ f.topK # -1 => f.topK \in 2..f.count
  /\ f.format = "score" /\ rule.range => f.scale.step > 0 /\ f.scale.min <= f.scale.max

PlanFitsSource(f, id) ==
  /\ f.format = PlanSource(id).format
  /\ f.count <= Plan!Shown(PlanSource(id)) /\ f.committee <= f.count

\* A series under way has rules left, all suited by its form, and has made runs of its source.
PlanSeriesOK(s, rules, runs) ==
  s.at # "none" =>
    /\ s \in PlanSeries /\ rules = PlanRules /\ s.rules # <<>>
    /\ s.form.committee > 0
    /\ \A i \in DOMAIN s.rules : PlanSuits(Plan!Find(PlanRules, s.rules[i]), s.form)
    /\ s.sure => PlanFitsSource(s.form, s.id)
    /\ \A i \in DOMAIN s.made : s.made[i] \in DOMAIN runs /\ runs[s.made[i]].id = s.id

PlanRunOK(run) ==
  LET b == run.body  rule == Plan!Find(PlanRules, run.rule)
  IN /\ b.format \in rule.formats /\ (b.quota => rule.quota) /\ (b.topK # -1 => rule.topK)
     /\ (b.amax # -1 => rule.approval /\ b.amax \in 2..b.count)
     /\ (b.topK # -1 => b.topK \in 2..b.count)
     /\ (run.sure => PlanFitsSource(b, run.id))

PlanCreatedOK(created, runs) ==
  \A i, j \in DOMAIN created :
    created[i] \in DOMAIN runs /\ runs[created[i]].id = runs[created[j]].id

PlanRunsOK(runs) == \A i \in DOMAIN runs : PlanRunOK(runs[i])

PlanInv ==
  /\ api \in [runs : Seq(PlanRun), taken : Nat] /\ page \in PlanPage
  /\ past \in [events : Nat, touched : Flag]
  /\ PlanRests(page) /\ PlanOfSource(page, past.touched)
  /\ PlanSeriesOK(page.series, page.rules, api.runs)
  /\ PlanRunsOK(api.runs) /\ PlanCreatedOK(page.created, api.runs)

\* Of a page, the invariant reads no more than this.
PlanSame(p, q) ==
  /\ q.source = p.source /\ q.ds = p.ds /\ q.el = p.el /\ q.detail = p.detail /\ q.lost = p.lost
  /\ q.format = p.format /\ q.count = p.count

LEMMA PlanSourceKept ==
  ASSUME NEW p, NEW q, NEW t, PlanSame(p, q), PlanOfSource(p, t) PROVE PlanOfSource(q, t)
BY DEF PlanSame, PlanOfSource

LEMMA PlanSourceSettles ==
  ASSUME PlanParameters, NEW p \in PlanPage, NEW q \in PlanPage, NEW t, Uncorrected(p, q),
         FormatOffered(p) => q.format = p.format, PlanOfSource(p, t)
  PROVE  PlanOfSource(q, t)
<1>1. /\ q.source = p.source /\ q.ds = p.ds /\ q.el = p.el /\ q.detail = p.detail
      /\ q.lost = p.lost /\ q.count = p.count
  BY DEF Uncorrected
<1>2. p.ds \in DOMAIN PlanData \cup {"none"} /\ p.el \in DOMAIN Polls \cup {"none"}
  BY PlanFields
<1>3. p.ds # "none" => PlanData[p.ds].format \in PlanOffers BY <1>2 DEF PlanParameters
<1>4. p.el # "none" => Polls[p.el].format \in PlanOffers BY <1>2 DEF PlanParameters
<1>5. p.format \in PlanOffers => q.format = p.format BY DEF FormatOffered
<1>6. p.detail # <<>> => p.source = "dataset" /\ p.detail = <<p.ds>> BY DEF PlanOfSource
<1>7. p.source = "dataset" /\ p.ds # "none" /\ p.detail = <<>> /\ ~p.lost /\ ~t =>
        q.format = PlanData[p.ds].format /\ p.count = Plan!Shown(PlanData[p.ds])
  BY <1>3, <1>5 DEF PlanOfSource
<1>8. p.source # "dataset" /\ p.el # "none" /\ ~t =>
        q.format = Polls[p.el].format /\ p.count = Polls[p.el].count
  BY <1>4, <1>5 DEF PlanOfSource
<1> QED BY <1>1, <1>6, <1>7, <1>8 DEF PlanOfSource

\* What a settled form keeps of a form changed in a page at rest.
LEMMA PlanSettles ==
  ASSUME PlanParameters, NEW p \in PlanPage, PlanRests(p), NEW q \in PlanPage, q.ran = p.ran,
         NEW t, PlanOfSource(q, t)
  PROVE  LET r == Plan!Settled(q)
         IN  r \in PlanPage /\ Uncorrected(q, r) /\ PlanRests(r) /\ PlanOfSource(r, t)
<1> DEFINE r == Plan!Settled(q)
<1>1. PlanCounted(q) BY PlanEditCounted
<1>2. /\ r \in PlanPage /\ Uncorrected(q, r) /\ PlanRests(r)
      /\ FormatOffered(q) => r.format = q.format
  BY <1>1, PlanSettledIs
<1> HIDE DEF r
<1>3. PlanOfSource(r, t) BY <1>2, PlanSourceSettles
<1> QED BY <1>2, <1>3 DEF r

\* A form changed and settled, with nothing sent.
LEMMA PlanEdit ==
  ASSUME PlanParameters, PlanInv, NEW q \in PlanPage, q.ran = page.ran,
         q.series = page.series, q.created = page.created,
         q.rules = page.rules \/ page.rules = <<>>,
         PlanOfSource(q, past'.touched), page' = Plan!Settled(q),
         past' \in [events : Nat, touched : Flag], UNCHANGED api
  PROVE  PlanInv'
<1> DEFINE r == Plan!Settled(q)
<1>1. r \in PlanPage /\ Uncorrected(q, r) /\ PlanRests(r) /\ PlanOfSource(r, past'.touched)
  BY PlanSettles DEF PlanInv
<1>2. page' = r OBVIOUS
<1> HIDE DEF r
<1>3. r.rules = q.rules /\ r.series = page.series /\ r.created = page.created
  BY <1>1 DEF Uncorrected
<1>4. PlanSeriesOK(page.series, q.rules, api.runs)
  <2>1. PlanSeriesOK(page.series, page.rules, api.runs) BY DEF PlanInv
  <2>2. CASE q.rules = page.rules BY <2>1, <2>2
  <2>3. CASE page.rules = <<>>
    <3>1. page.series.at = "none" BY <2>1, <2>3 DEF PlanSeriesOK, PlanParameters
    <3> QED BY <3>1 DEF PlanSeriesOK
  <2> QED BY <2>2, <2>3
<1>5. /\ api' \in [runs : Seq(PlanRun), taken : Nat] /\ page' \in PlanPage
      /\ PlanRests(page') /\ PlanOfSource(page', past'.touched)
      /\ PlanSeriesOK(page'.series, page'.rules, api'.runs)
      /\ PlanRunsOK(api'.runs) /\ PlanCreatedOK(page'.created, api'.runs)
  BY <1>1, <1>2, <1>3, <1>4 DEF PlanInv
<1> QED BY <1>5, Zenon DEF PlanInv

\* A page whose step or series alone changes.
LEMMA PlanStill ==
  ASSUME NEW p, NEW q, PlanRests(p), PlanSame(p, q), NEW t, PlanOfSource(p, t),
         q.rules = p.rules, q.picked = p.picked, q.fitted = p.fitted, q.ran = p.ran,
         q.committee = p.committee, q.quota = p.quota
  PROVE  PlanRests(q) /\ PlanOfSource(q, t)
<1>1. PlanOfSource(q, t) BY PlanSourceKept
<1>2. Plan!Seen(q) = Plan!Seen(p) BY PlanSameView DEF PlanSame
<1>3. Plan!MaxCommittee(q) = Plan!MaxCommittee(p) BY PlanSameCount DEF PlanSame
<1>4. PlanCalm(q) BY <1>2 DEF PlanRests, PlanCalm, PlanSynced, FormatOffered, PlanSame
<1>5. PlanCounted(q) BY <1>2, <1>3 DEF PlanRests, PlanCalm, PlanCounted
<1> QED BY <1>1, <1>4, <1>5 DEF PlanRests

\* Becomes: the events are counted, the hand that touched the source is remembered.
LEMMA PlanBecomesIs ==
  ASSUME PlanInv, NEW q, NEW n \in Nat, Plan!Becomes(q, n)
  PROVE  /\ page' = Plan!Settled(q) /\ past' \in [events : Nat, touched : Flag]
         /\ past'.touched = past.touched
<1>1. past \in [events : Nat, touched : Flag] BY DEF PlanInv
<1> QED BY <1>1 DEF Plan!Becomes

LEMMA PlanUntouchedIs ==
  ASSUME PlanInv, NEW n \in Nat, Plan!Untouched(n)
  PROVE  past' \in [events : Nat, touched : Flag] /\ past'.touched = FALSE
<1>1. past.events \in Nat BY DEF PlanInv
<1>2. past.events + n \in Nat BY <1>1
<1> DEFINE e == past.events + n
<1>3. past' = [events |-> e, touched |-> FALSE] BY DEF Plan!Untouched
<1> HIDE DEF e
<1> QED BY <1>2, <1>3 DEF Flag, e

-----------------------------------------------------------------------------
\* Sizes and limits are clamped to numbers.
LEMMA PlanClampIs ==
  ASSUME NEW n \in Int, NEW a \in Int, NEW b \in Int PROVE Plan!Clamp(n, a, b) \in Int
<1>1. CASE n < a BY <1>1 DEF Plan!Clamp
<1>2. CASE ~(n < a) /\ n > b
  <2>1. Plan!Clamp(n, a, b) = b BY <1>2 DEF Plan!Clamp
  <2> QED BY <2>1
<1>3. CASE ~(n < a) /\ ~(n > b) BY <1>3 DEF Plan!Clamp
<1> QED BY <1>1, <1>2, <1>3

LEMMA PlanSourcesAre ==
  ASSUME PlanParameters
  PROVE  /\ \A id \in DOMAIN PlanData :
              /\ PlanData[id].format \in PlanFormats /\ PlanData[id].count \in Nat
              /\ PlanData[id].limit \in Nat /\ Plan!Shown(PlanData[id]) \in Nat
         /\ \A id \in DOMAIN Polls :
              Polls[id].format \in PlanFormats /\ Polls[id].count \in Nat /\ Polls[id].count >= 4
<1>1. PlanOffers \subseteq PlanFormats BY DEF PlanOffers, PlanParameters
<1>2. \A id \in DOMAIN PlanData : PlanData[id].format \in PlanOffers
        /\ PlanData[id].count \in Nat /\ PlanData[id].limit \in Nat
  BY DEF PlanParameters
<1>3. \A id \in DOMAIN PlanData : Plan!Shown(PlanData[id]) \in Nat
  BY <1>2 DEF Plan!Shown
<1>4. \A id \in DOMAIN Polls : Polls[id].format \in PlanOffers
        /\ Polls[id].count \in Nat /\ Polls[id].count >= 4
  BY DEF PlanParameters
<1> QED BY <1>1, <1>2, <1>3, <1>4

LEMMA PlanElectionIs ==
  ASSUME PlanParameters, NEW p \in PlanPage
  PROVE  LET q == Plan!FromElection(p)
         IN  /\ q \in PlanPage /\ q.ran = p.ran /\ q.rules = p.rules /\ q.series = p.series
             /\ q.created = p.created /\ q.detail = p.detail /\ q.lost = p.lost
             /\ q.source = p.source /\ q.ds = p.ds /\ q.el = p.el
             /\ p.source = "dataset" => q = p
             /\ p.source # "dataset" /\ p.el # "none" =>
                  q.format = Polls[p.el].format /\ q.count = Polls[p.el].count
<1>1. p.source \in {"dataset", "published_election"} /\ p.el \in DOMAIN Polls \cup {"none"}
  BY PlanFields
<1>2. CASE p.source # "published_election" \/ p.el = "none"
  <2>1. Plan!FromElection(p) = p BY <1>2 DEF Plan!FromElection
  <2> QED BY <1>1, <1>2, <2>1
<1>3. CASE ~(p.source # "published_election" \/ p.el = "none")
  <2> DEFINE f == Polls[p.el].format
             c == Polls[p.el].count
             m == Plan!Clamp(p.committee, 2, c)
             q == Plan!FromElection(p)
  <2>1. q = [p EXCEPT !.format = f, !.count = c, !.committee = m]
    BY <1>3, Zenon DEF Plan!FromElection
  <2>2. f \in PlanFormats /\ c \in Int BY <1>1, <1>3, PlanSourcesAre
  <2> HIDE DEF c
  <2>3. m \in Int
    <3>1. p.committee \in Int /\ 2 \in Int BY PlanFields
    <3> QED BY <2>2, <3>1, PlanClampIs, Zenon
  <2> HIDE DEF f, m, q
  <2>4. /\ q \in PlanPage /\ q.ran = p.ran /\ q.rules = p.rules /\ q.series = p.series
        /\ q.created = p.created /\ q.detail = p.detail /\ q.lost = p.lost
        /\ q.source = p.source /\ q.ds = p.ds /\ q.el = p.el /\ q.format = f /\ q.count = c
    BY <2>1, <2>2, <2>3 DEF PlanPage
  <2> QED BY <1>3, <2>4 DEF f, c, q
<1> QED BY <1>2, <1>3

\* Another source: it is asked for anew, and an election fills in the form at once.
LEMMA PlanChosenIs ==
  ASSUME PlanParameters, NEW p \in PlanPage
  PROVE  LET q == Plan!Chosen(p)
         IN  /\ q \in PlanPage /\ q.ran = p.ran /\ q.rules = p.rules /\ q.series = p.series
             /\ q.created = p.created /\ PlanOfSource(q, FALSE)
<1> DEFINE a == Plan!Asked(p)
           b == [p EXCEPT !.detail = a, !.lost = FALSE]
           q == Plan!FromElection(b)
<1>1. p.ds \in DOMAIN PlanData \cup {"none"} BY PlanFields
<1>2. /\ a \in PlanDetails
      /\ a # <<>> => p.source = "dataset" /\ p.ds # "none" /\ a = <<p.ds>>
      /\ p.source = "dataset" /\ p.ds # "none" => a # <<>>
  BY <1>1 DEF Plan!Asked, PlanDetails
<1> HIDE DEF a
<1>3. /\ b \in PlanPage /\ b.ran = p.ran /\ b.rules = p.rules /\ b.series = p.series
      /\ b.created = p.created /\ b.detail = a /\ b.source = p.source /\ b.ds = p.ds
      /\ b.el = p.el
  BY <1>2, Flags DEF PlanPage
<1> HIDE DEF b
<1>4. /\ q \in PlanPage /\ q.ran = b.ran /\ q.rules = b.rules /\ q.series = b.series
      /\ q.created = b.created /\ q.detail = b.detail
      /\ q.source = b.source /\ q.ds = b.ds /\ q.el = b.el
      /\ b.source # "dataset" /\ b.el # "none" =>
           q.format = Polls[b.el].format /\ q.count = Polls[b.el].count
  BY <1>3, PlanElectionIs
<1> HIDE DEF q
<1>5. PlanOfSource(q, FALSE) BY <1>2, <1>3, <1>4 DEF PlanOfSource
<1>6. Plan!Chosen(p) = q BY Zenon DEF Plan!Chosen, q, b, a
<1> QED BY <1>3, <1>4, <1>5, <1>6

LEMMA PlanDatasetIs ==
  ASSUME PlanParameters, NEW p \in PlanPage, NEW id \in DOMAIN PlanData
  PROVE  LET q == Plan!FromDataset(p, PlanData[id])
         IN  /\ q \in PlanPage /\ q.ran = p.ran /\ q.rules = p.rules /\ q.series = p.series
             /\ q.created = p.created /\ q.detail = p.detail /\ q.lost = p.lost
             /\ q.source = p.source /\ q.ds = p.ds /\ q.el = p.el
             /\ q.format = PlanData[id].format /\ q.count = Plan!Shown(PlanData[id])
<1> DEFINE d == PlanData[id]
           q == Plan!FromDataset(p, d)
           f == d.format
           c == Plan!Shown(d)
           m == Plan!Clamp(p.committee, 2, c)
           x == IF d.format = "approval" /\ d.limit > 0 THEN Plan!Clamp(d.limit, 2, c) ELSE p.amax
           t == d.format = "ranking" /\ d.limit > 0
           k == IF d.format = "ranking" /\ d.limit > 0 THEN Plan!Clamp(d.limit, 2, c) ELSE p.topK
<1>1. q = [p EXCEPT !.format = f, !.count = c, !.committee = m, !.amax = x, !.top = t, !.topK = k]
  BY Zenon DEF Plan!FromDataset
<1>2. f \in PlanFormats /\ c \in Int /\ d.limit \in Int BY PlanSourcesAre
<1>3. p.committee \in Int /\ p.amax \in Int /\ p.topK \in Int BY PlanFields
<1>4. m \in Int /\ Plan!Clamp(d.limit, 2, c) \in Int
  <2>1. 2 \in Int OBVIOUS
  <2> HIDE DEF c, d
  <2> QED BY <1>2, <1>3, <2>1, PlanClampIs, Zenon
<1>5. x \in Int /\ k \in Int BY <1>3, <1>4
<1>6. t \in Flag BY Truths
<1> HIDE DEF q, f, c, m, x, t, k
<1>7. /\ q \in PlanPage /\ q.ran = p.ran /\ q.rules = p.rules /\ q.series = p.series
      /\ q.created = p.created /\ q.detail = p.detail /\ q.lost = p.lost
      /\ q.source = p.source /\ q.ds = p.ds /\ q.el = p.el /\ q.format = f /\ q.count = c
  BY <1>1, <1>2, <1>4, <1>5, <1>6 DEF PlanPage
<1> QED BY <1>7 DEF q, f, c

-----------------------------------------------------------------------------
(* The actions of ExperimentDraft.                                         *)

LEMMA PlanStarts ==
  ASSUME PlanParameters, Plan!Init PROVE PlanInv
<1> DEFINE f == Plan!Fresh
<1>1. f = [step |-> 0, source |-> "dataset", ds |-> "none", el |-> "none", detail |-> <<>>,
           lost |-> FALSE, rules |-> <<>>, picked |-> <<>>, fitted |-> "none",
           ran |-> Plan!Unseen, format |-> "ranking", count |-> 10, committee |-> 2,
           quota |-> FALSE, amax |-> 4, top |-> FALSE, topK |-> 6,
           scale |-> Plan!DefaultScale, seed |-> "none", series |-> Plan!NoSeries, created |-> <<>>]
  BY Zenon DEF Plan!Fresh
<1>2. Plan!DefaultScale \in PlanScale /\ Plan!Unseen \in PlanViews
  BY DEF Plan!DefaultScale, PlanScale, PlanViews
<1>3. FALSE \in Flag BY Flags
<1> HIDE DEF f
<1> DEFINE x == Plan!DefaultScale
           u == Plan!Unseen
           n == Plan!NoSeries
<1>4. f \in PlanPage
  <2>1. /\ <<>> \in Seq(PlanIds) /\ <<>> \in Seq(Nat) /\ <<>> \in PlanDetails
        /\ "ranking" \in PlanFormats
    BY DEF PlanDetails, PlanFormats
  <2> HIDE DEF x, u, n
  <2>2. f = [step |-> 0, source |-> "dataset", ds |-> "none", el |-> "none", detail |-> <<>>,
             lost |-> FALSE, rules |-> <<>>, picked |-> <<>>, fitted |-> "none",
             ran |-> u, format |-> "ranking", count |-> 10, committee |-> 2,
             quota |-> FALSE, amax |-> 4, top |-> FALSE, topK |-> 6,
             scale |-> x, seed |-> "none", series |-> n, created |-> <<>>]
    BY <1>1 DEF x, u, n
  <2>3. x \in PlanScale /\ u \in PlanViews BY <1>2 DEF x, u
  <2>4. n \in PlanSeries \cup {Plan!NoSeries} BY DEF n
  <2> QED BY <2>1, <2>2, <2>3, <2>4 DEF PlanPage, PlanSeeds, Flag
<1>5. PlanCounted(f) BY <1>1 DEF PlanCounted
<1>6. PlanOfSource(f, FALSE) BY <1>1 DEF PlanOfSource
<1> DEFINE r == Plan!Settled(f)
<1>7. /\ r \in PlanPage /\ Uncorrected(f, r) /\ PlanRests(r)
      /\ FormatOffered(f) => r.format = f.format
  BY <1>4, <1>5, PlanSettledIs
<1>8. /\ api = [runs |-> <<>>, taken |-> 0] /\ page = r
      /\ past = [events |-> 0, touched |-> FALSE]
  BY DEF Plan!Init, f
<1> HIDE DEF r
<1>9. PlanOfSource(r, FALSE) BY <1>4, <1>6, <1>7, PlanSourceSettles
<1>10. r.series = Plan!NoSeries /\ r.created = <<>> BY <1>1, <1>7 DEF Uncorrected
<1>11. PlanSeriesOK(r.series, r.rules, api.runs) BY <1>10 DEF PlanSeriesOK, Plan!NoSeries
<1>12. PlanCreatedOK(r.created, api.runs) BY <1>10 DEF PlanCreatedOK
<1>13. PlanRunsOK(api.runs) BY <1>8 DEF PlanRunsOK
<1>14. /\ api \in [runs : Seq(PlanRun), taken : Nat]
       /\ past \in [events : Nat, touched : Flag]
  <2>1. <<>> \in Seq(PlanRun) /\ 0 \in Nat OBVIOUS
  <2> QED BY <1>3, <1>8, <2>1
<1> QED BY <1>7, <1>8, <1>9, <1>11, <1>12, <1>13, <1>14 DEF PlanInv

LEMMA PlanRulesArrive ==
  ASSUME PlanParameters, PlanInv, Plan!RulesArrive PROVE PlanInv'
<1> DEFINE q == [page EXCEPT !.rules = PlanRules]
<1>1. page.rules = <<>> /\ Plan!Becomes(q, 0) /\ UNCHANGED api BY DEF Plan!RulesArrive
<1>2. page \in PlanPage /\ PlanOfSource(page, past.touched) BY DEF PlanInv
<1>3. /\ page' = Plan!Settled(q) /\ past' \in [events : Nat, touched : Flag]
      /\ past'.touched = past.touched
  BY <1>1, PlanBecomesIs
<1>4. /\ q \in PlanPage /\ q.ran = page.ran /\ q.series = page.series
      /\ q.created = page.created /\ PlanSame(page, q)
  BY <1>2 DEF PlanPage, PlanSame
<1> HIDE DEF q
<1>5. PlanOfSource(q, past'.touched) BY <1>2, <1>3, <1>4, PlanSourceKept
<1> QED BY <1>1, <1>3, <1>4, <1>5, PlanEdit

LEMMA PlanDatasetsArrive ==
  ASSUME PlanParameters, PlanInv, Plan!DatasetsArrive PROVE PlanInv'
<1> DEFINE id == CHOOSE x \in DOMAIN PlanData : TRUE
           b == [page EXCEPT !.ds = id]
           q == Plan!Chosen(b)
<1>1. id \in DOMAIN PlanData BY DEF PlanParameters
<1>2. /\ page.ds = "none" /\ UNCHANGED api
      /\ page.source # "dataset" => page' = Plan!Settled(b) /\ UNCHANGED past
      /\ page.source = "dataset" => page' = Plan!Settled(q) /\ Plan!Untouched(0)
  BY Zenon DEF Plan!DatasetsArrive
<1>3. page \in PlanPage /\ PlanOfSource(page, past.touched)
      /\ past \in [events : Nat, touched : Flag]
  BY DEF PlanInv
<1> HIDE DEF id
<1>4. /\ b \in PlanPage /\ b.ran = page.ran /\ b.rules = page.rules
      /\ b.series = page.series /\ b.created = page.created
      /\ b.source = page.source /\ b.el = page.el /\ b.detail = page.detail
      /\ b.lost = page.lost /\ b.format = page.format /\ b.count = page.count
  BY <1>1, <1>3 DEF PlanPage
<1> HIDE DEF b
<1>5. CASE page.source # "dataset"
  <2>1. page' = Plan!Settled(b) /\ past' = past BY <1>2, <1>5
  <2>2. PlanOfSource(b, past'.touched) BY <1>3, <1>4, <1>5, <2>1 DEF PlanOfSource
  <2> QED BY <1>2, <1>3, <1>4, <2>1, <2>2, PlanEdit
<1>6. CASE page.source = "dataset"
  <2>1. page' = Plan!Settled(q) /\ past' \in [events : Nat, touched : Flag]
        /\ past'.touched = FALSE
    BY <1>2, <1>6, PlanUntouchedIs
  <2>2. /\ q \in PlanPage /\ q.ran = b.ran /\ q.rules = b.rules /\ q.series = b.series
        /\ q.created = b.created /\ PlanOfSource(q, FALSE)
    BY <1>4, PlanChosenIs
  <2> HIDE DEF q
  <2> QED BY <1>2, <1>4, <2>1, <2>2, PlanEdit
<1> QED BY <1>5, <1>6

LEMMA PlanElectionsArrive ==
  ASSUME PlanParameters, PlanInv, Plan!ElectionsArrive PROVE PlanInv'
<1> DEFINE id == CHOOSE x \in DOMAIN Polls : TRUE
           b == [page EXCEPT !.el = id]
           q == Plan!FromElection(b)
<1>1. id \in DOMAIN Polls BY DEF PlanParameters
<1>2. /\ page.el = "none" /\ UNCHANGED api /\ page' = Plan!Settled(q)
      /\ page.source = "dataset" => UNCHANGED past
      /\ page.source # "dataset" => Plan!Untouched(0)
  BY Zenon DEF Plan!ElectionsArrive
<1>3. page \in PlanPage /\ PlanOfSource(page, past.touched)
      /\ past \in [events : Nat, touched : Flag]
  BY DEF PlanInv
<1>0. id # "none" BY <1>1 DEF PlanParameters, PlanSources
<1> HIDE DEF id
<1>4. /\ b \in PlanPage /\ b.ran = page.ran /\ b.rules = page.rules
      /\ b.series = page.series /\ b.created = page.created
      /\ b.source = page.source /\ b.el = id /\ b.detail = page.detail
      /\ b.lost = page.lost /\ b.format = page.format /\ b.count = page.count
      /\ b.ds = page.ds
  BY <1>1, <1>3 DEF PlanPage
<1> HIDE DEF b
<1>5. /\ q \in PlanPage /\ q.ran = b.ran /\ q.rules = b.rules /\ q.series = b.series
      /\ q.created = b.created /\ q.detail = b.detail /\ q.lost = b.lost
      /\ q.source = b.source /\ q.ds = b.ds /\ q.el = b.el
      /\ b.source = "dataset" => q = b
      /\ b.source # "dataset" /\ b.el # "none" =>
           q.format = Polls[b.el].format /\ q.count = Polls[b.el].count
  BY <1>4, PlanElectionIs
<1> HIDE DEF q
<1>6. past' \in [events : Nat, touched : Flag] BY <1>2, <1>3, PlanUntouchedIs
<1>7. PlanOfSource(q, past'.touched)
  <2>1. CASE page.source = "dataset"
    <3>1. past' = past BY <1>2, <2>1
    <3> QED BY <1>3, <1>4, <1>5, <2>1, <3>1 DEF PlanOfSource
  <2>2. CASE page.source # "dataset"
    <3>1. q.format = Polls[q.el].format /\ q.count = Polls[q.el].count
      BY <1>0, <1>4, <1>5, <2>2
    <3>2. q.detail = <<>> BY <1>3, <1>4, <1>5, <2>2 DEF PlanOfSource
    <3> QED BY <1>4, <1>5, <2>2, <3>1, <3>2 DEF PlanOfSource
  <2> QED BY <2>1, <2>2
<1> QED BY <1>2, <1>4, <1>5, <1>6, <1>7, PlanEdit

\* Another source, dataset or election is chosen.
LEMMA PlanChoice ==
  ASSUME PlanParameters, PlanInv, NEW b \in PlanPage, b.ran = page.ran, b.rules = page.rules,
         b.series = page.series, b.created = page.created,
         page' = Plan!Settled(Plan!Chosen(b)), Plan!Untouched(1), UNCHANGED api
  PROVE  PlanInv'
<1> DEFINE q == Plan!Chosen(b)
<1>1. past' \in [events : Nat, touched : Flag] /\ past'.touched = FALSE BY PlanUntouchedIs
<1>2. /\ q \in PlanPage /\ q.ran = b.ran /\ q.rules = b.rules /\ q.series = b.series
      /\ q.created = b.created /\ PlanOfSource(q, FALSE)
  BY PlanChosenIs
<1>3. page' = Plan!Settled(q) OBVIOUS
<1> HIDE DEF q
<1> QED BY <1>1, <1>2, <1>3, PlanEdit

LEMMA PlanChooses ==
  ASSUME PlanParameters, PlanInv,
         \/ Plan!ChooseSource
         \/ \E id \in DOMAIN PlanData : Plan!ChooseDataset(id)
         \/ \E id \in DOMAIN Polls : Plan!ChooseElection(id)
  PROVE  PlanInv'
<1>1. page \in PlanPage BY DEF PlanInv
<1>2. CASE Plan!ChooseSource
  <2> DEFINE other == CHOOSE s \in Plan!Sources : s # page.source
             b == [page EXCEPT !.source = other]
  <2>1. page' = Plan!Settled(Plan!Chosen(b)) /\ Plan!Untouched(1) /\ UNCHANGED api
    BY <1>2, Zenon DEF Plan!ChooseSource
  <2>2. other \in {"dataset", "published_election"}
    <3>1. \E s \in {"dataset", "published_election"} : s # page.source
      <4>1. CASE page.source = "dataset" BY <4>1
      <4>2. CASE page.source # "dataset" BY <4>2
      <4> QED BY <4>1, <4>2
    <3>2. Plan!Sources = {"dataset", "published_election"} BY DEF Plan!Sources
    <3> QED BY <3>1, <3>2
  <2> HIDE DEF other
  <2>3. /\ b \in PlanPage /\ b.ran = page.ran /\ b.rules = page.rules
        /\ b.series = page.series /\ b.created = page.created
    BY <1>1, <2>2 DEF PlanPage
  <2> HIDE DEF b
  <2> QED BY <2>1, <2>3, PlanChoice
<1>3. CASE \E id \in DOMAIN PlanData : Plan!ChooseDataset(id)
  <2>1. PICK id \in DOMAIN PlanData : Plan!ChooseDataset(id) BY <1>3
  <2> DEFINE b == [page EXCEPT !.ds = id]
  <2>2. page' = Plan!Settled(Plan!Chosen(b)) /\ Plan!Untouched(1) /\ UNCHANGED api
    BY <2>1, Zenon DEF Plan!ChooseDataset
  <2>3. /\ b \in PlanPage /\ b.ran = page.ran /\ b.rules = page.rules
        /\ b.series = page.series /\ b.created = page.created
    BY <1>1, <2>1 DEF PlanPage
  <2> HIDE DEF b
  <2> QED BY <2>2, <2>3, PlanChoice
<1>4. CASE \E id \in DOMAIN Polls : Plan!ChooseElection(id)
  <2>1. PICK id \in DOMAIN Polls : Plan!ChooseElection(id) BY <1>4
  <2> DEFINE b == [page EXCEPT !.el = id]
  <2>2. page' = Plan!Settled(Plan!Chosen(b)) /\ Plan!Untouched(1) /\ UNCHANGED api
    BY <2>1, Zenon DEF Plan!ChooseElection
  <2>3. /\ b \in PlanPage /\ b.ran = page.ran /\ b.rules = page.rules
        /\ b.series = page.series /\ b.created = page.created
    BY <1>1, <2>1 DEF PlanPage
  <2> HIDE DEF b
  <2> QED BY <2>2, <2>3, PlanChoice
<1> QED BY <1>2, <1>3, <1>4

\* The one request for a dataset, answered or lost.
LEMMA PlanDetailIs ==
  ASSUME PlanParameters, PlanInv, NEW i \in DOMAIN page.detail
  PROVE  /\ page.source = "dataset" /\ page.detail[i] = page.ds /\ page.ds \in DOMAIN PlanData
         /\ Plan!RemoveAt(page.detail, i) = <<>>
<1> DEFINE r == page.detail
<1>1. r \in PlanDetails BY PlanFields DEF PlanInv
<1>2. r # <<>> OBVIOUS
<1>3. PICK id \in DOMAIN PlanData : r = <<id>> BY <1>1, <1>2 DEF PlanDetails
<1>4. i = 1 /\ r[i] = id BY <1>3
<1>5. page.source = "dataset" /\ r = <<page.ds>> BY <1>2 DEF PlanInv, PlanOfSource
<1>6. page.ds = id
  <2>1. r[1] = id BY <1>3
  <2>2. r[1] = page.ds BY <1>5
  <2> QED BY <2>1, <2>2
<1> HIDE DEF r
<1>7. Plan!RemoveAt(r, i) = <<>> BY <1>3, <1>4 DEF Plan!RemoveAt
<1> QED BY <1>3, <1>4, <1>5, <1>6, <1>7 DEF r

LEMMA PlanDetail ==
  ASSUME PlanParameters, PlanInv, NEW i \in DOMAIN page.detail,
         Plan!DetailArrives(i) \/ Plan!DetailLost(i)
  PROVE  PlanInv'
<1>1. page \in PlanPage BY DEF PlanInv
<1>2. /\ page.source = "dataset" /\ page.detail[i] = page.ds /\ page.ds \in DOMAIN PlanData
      /\ Plan!RemoveAt(page.detail, i) = <<>>
  BY PlanDetailIs
<1>3. CASE Plan!DetailArrives(i)
  <2> DEFINE a == Plan!RemoveAt(page.detail, i)
             b == [page EXCEPT !.detail = a]
             q == Plan!FromDataset(b, PlanData[page.ds])
  <2>1. Plan!Becomes(q, 0) /\ UNCHANGED api BY <1>2, <1>3 DEF Plan!DetailArrives
  <2>2. a = <<>> BY <1>2
  <2> HIDE DEF a
  <2>3. /\ b \in PlanPage /\ b.ran = page.ran /\ b.rules = page.rules
        /\ b.series = page.series /\ b.created = page.created /\ b.detail = <<>>
        /\ b.source = page.source /\ b.ds = page.ds
    BY <1>1, <2>2 DEF PlanPage, PlanDetails
  <2> HIDE DEF b
  <2>4. /\ q \in PlanPage /\ q.ran = b.ran /\ q.rules = b.rules /\ q.series = b.series
        /\ q.created = b.created /\ q.detail = b.detail
        /\ q.source = b.source /\ q.ds = b.ds
        /\ q.format = PlanData[page.ds].format /\ q.count = Plan!Shown(PlanData[page.ds])
    BY <1>2, <2>3, PlanDatasetIs
  <2> HIDE DEF q
  <2>5. page' = Plan!Settled(q) /\ past' \in [events : Nat, touched : Flag]
    BY <2>1, PlanBecomesIs
  <2>6. PlanOfSource(q, past'.touched) BY <1>2, <2>3, <2>4 DEF PlanOfSource
  <2> QED BY <2>1, <2>3, <2>4, <2>5, <2>6, PlanEdit
<1>4. CASE Plan!DetailLost(i)
  <2> DEFINE a == Plan!RemoveAt(page.detail, i)
             q == [page EXCEPT !.detail = a, !.lost = TRUE]
  <2>1. Plan!Becomes(q, 1) /\ UNCHANGED api BY <1>4 DEF Plan!DetailLost
  <2>2. a = <<>> BY <1>2
  <2> HIDE DEF a
  <2>3. TRUE \in Flag BY Flags
  <2>4. /\ q \in PlanPage /\ q.ran = page.ran /\ q.rules = page.rules
        /\ q.series = page.series /\ q.created = page.created /\ q.detail = <<>>
        /\ q.source = page.source /\ q.ds = page.ds /\ q.lost
    BY <1>1, <2>2, <2>3 DEF PlanPage, PlanDetails
  <2> HIDE DEF q
  <2>5. page' = Plan!Settled(q) /\ past' \in [events : Nat, touched : Flag]
    BY <2>1, PlanBecomesIs
  <2>6. PlanOfSource(q, past'.touched) BY <1>2, <2>4 DEF PlanOfSource
  <2> QED BY <2>1, <2>4, <2>5, <2>6, PlanEdit
<1> QED BY <1>3, <1>4

\* A field the source has no part in.
LEMMA PlanField ==
  ASSUME PlanParameters, PlanInv, NEW q \in PlanPage, q.ran = page.ran, q.rules = page.rules,
         q.series = page.series, q.created = page.created, PlanSame(page, q),
         Plan!Becomes(q, 1), UNCHANGED api
  PROVE  PlanInv'
<1>1. /\ page' = Plan!Settled(q) /\ past' \in [events : Nat, touched : Flag]
      /\ past'.touched = past.touched
  BY PlanBecomesIs
<1>2. PlanOfSource(page, past.touched) BY DEF PlanInv
<1>3. PlanOfSource(q, past'.touched) BY <1>1, <1>2, PlanSourceKept
<1> QED BY <1>1, <1>3, PlanEdit

LEMMA PlanToggle ==
  ASSUME PlanParameters, PlanInv, NEW id \in PlanIds, Plan!Toggle(id) PROVE PlanInv'
<1> DEFINE l == IF id \in Plan!ToSet(page.picked) THEN Plan!Without(page.picked, id)
                ELSE Append(page.picked, id)
           q == [page EXCEPT !.picked = l]
<1>1. Plan!Becomes(q, 1) /\ UNCHANGED api BY Zenon DEF Plan!Toggle
<1>2. page \in PlanPage BY DEF PlanInv
<1>3. l \in Seq(PlanIds)
  <2>1. page.picked \in Seq(PlanIds) BY <1>2, PlanFields
  <2>2. Plan!Without(page.picked, id) \in Seq(PlanIds)
    <3> DEFINE P == {i \in DOMAIN page.picked : page.picked[i] # id}
    <3>1. Plan!Without(page.picked, id) = Picked(page.picked, P)
      BY SamePickedPlan DEF Without
    <3> HIDE DEF P
    <3> QED BY <2>1, <3>1, PickedAddUp
  <2>3. Append(page.picked, id) \in Seq(PlanIds) BY <2>1
  <2> QED BY <2>2, <2>3
<1> HIDE DEF l
<1>4. /\ q \in PlanPage /\ q.ran = page.ran /\ q.rules = page.rules
      /\ q.series = page.series /\ q.created = page.created /\ PlanSame(page, q)
  BY <1>2, <1>3 DEF PlanPage, PlanSame
<1> HIDE DEF q
<1> QED BY <1>1, <1>4, PlanField

LEMMA PlanEditFirst ==
  ASSUME PlanParameters, PlanInv, Plan!EditFirst PROVE PlanInv'
<1>1. page \in PlanPage BY DEF PlanInv
<1>2. CASE \E n \in PlanNumbers : Plan!Becomes([page EXCEPT !.committee = n], 1) /\ UNCHANGED api
  <2>1. PICK n \in PlanNumbers :
          Plan!Becomes([page EXCEPT !.committee = n], 1) /\ UNCHANGED api
    BY <1>2
  <2> DEFINE q == [page EXCEPT !.committee = n]
  <2>2. n \in Int BY DEF PlanParameters
  <2>3. /\ q \in PlanPage /\ q.ran = page.ran /\ q.rules = page.rules
        /\ q.series = page.series /\ q.created = page.created /\ PlanSame(page, q)
    BY <1>1, <2>2 DEF PlanPage, PlanSame
  <2>4. Plan!Becomes(q, 1) /\ UNCHANGED api BY <2>1
  <2> HIDE DEF q
  <2> QED BY <2>3, <2>4, PlanField
<1>3. CASE Plan!Becomes([page EXCEPT !.quota = ~@], 1) /\ UNCHANGED api
  <2> DEFINE x == ~page.quota
             q == [page EXCEPT !.quota = x]
  <2>1. Plan!Becomes(q, 1) /\ UNCHANGED api BY <1>3
  <2>2. x \in Flag BY Truths
  <2> HIDE DEF x
  <2>3. /\ q \in PlanPage /\ q.ran = page.ran /\ q.rules = page.rules
        /\ q.series = page.series /\ q.created = page.created /\ PlanSame(page, q)
    BY <1>1, <2>2 DEF PlanPage, PlanSame
  <2> HIDE DEF q
  <2> QED BY <2>1, <2>3, PlanField
<1>4. CASE \E x \in Plan!Seeds \ {page.seed} :
             Plan!Becomes([page EXCEPT !.seed = x], 1) /\ UNCHANGED api
  <2>1. PICK x \in Plan!Seeds : Plan!Becomes([page EXCEPT !.seed = x], 1) /\ UNCHANGED api
    BY <1>4
  <2> DEFINE q == [page EXCEPT !.seed = x]
  <2>2. x \in PlanSeeds BY DEF Plan!Seeds, PlanSeeds
  <2>3. /\ q \in PlanPage /\ q.ran = page.ran /\ q.rules = page.rules
        /\ q.series = page.series /\ q.created = page.created /\ PlanSame(page, q)
    BY <1>1, <2>2 DEF PlanPage, PlanSame
  <2>4. Plan!Becomes(q, 1) /\ UNCHANGED api BY <2>1
  <2> HIDE DEF q
  <2> QED BY <2>3, <2>4, PlanField
<1> QED BY <1>2, <1>3, <1>4, Zenon DEF Plan!EditFirst

LEMMA PlanEditSource ==
  ASSUME PlanParameters, PlanInv, Plan!EditSource PROVE PlanInv'
<1>1. page \in PlanPage /\ past \in [events : Nat, touched : Flag]
      /\ PlanOfSource(page, past.touched)
  BY DEF PlanInv
<1>2. past' \in [events : Nat, touched : Flag] /\ past'.touched = TRUE
  <2>1. past.events + 1 \in Nat BY <1>1
  <2> DEFINE e == past.events + 1
  <2>2. past' = [events |-> e, touched |-> TRUE] BY DEF Plan!EditSource
  <2> HIDE DEF e
  <2> QED BY <2>1, <2>2 DEF Flag, e
<1>3. \A q : page' = Plan!Settled(q) /\ q \in PlanPage /\ q.ran = page.ran
             /\ q.rules = page.rules /\ q.series = page.series /\ q.created = page.created
             /\ q.source = page.source /\ q.ds = page.ds /\ q.detail = page.detail
             => PlanInv'
  <2> TAKE q
  <2> HAVE page' = Plan!Settled(q) /\ q \in PlanPage /\ q.ran = page.ran
           /\ q.rules = page.rules /\ q.series = page.series /\ q.created = page.created
           /\ q.source = page.source /\ q.ds = page.ds /\ q.detail = page.detail
  <2>1. PlanOfSource(q, past'.touched) BY <1>1, <1>2 DEF PlanOfSource
  <2>2. UNCHANGED api BY DEF Plan!EditSource
  <2> QED BY <1>2, <2>1, <2>2, PlanEdit
<1>4. CASE \E f \in UNION {r.formats : r \in Plan!ToSet(page.rules)} :
             page' = Plan!Settled([page EXCEPT !.format = f])
  <2>1. PICK f \in UNION {r.formats : r \in Plan!ToSet(page.rules)} :
          page' = Plan!Settled([page EXCEPT !.format = f])
    BY <1>4
  <2>2. f \in PlanFormats
    <3>1. page.rules \in {<<>>, PlanRules} BY <1>1, PlanFields
    <3>2. page.rules # <<>>
      <4> SUFFICES ASSUME page.rules = <<>> PROVE FALSE OBVIOUS
      <4>1. Plan!ToSet(<<>>) = {} BY DEF Plan!ToSet
      <4> QED BY <2>1, <4>1
    <3>3. UNION {r.formats : r \in Plan!ToSet(page.rules)} = PlanOffers
          /\ PlanOffers \subseteq PlanFormats
      BY <1>1, <3>1, <3>2, PlanOffered
    <3> QED BY <2>1, <3>3
  <2> DEFINE q == [page EXCEPT !.format = f]
  <2>3. /\ q \in PlanPage /\ q.ran = page.ran /\ q.rules = page.rules
        /\ q.series = page.series /\ q.created = page.created
        /\ q.source = page.source /\ q.ds = page.ds /\ q.detail = page.detail
    BY <1>1, <2>2 DEF PlanPage
  <2>4. page' = Plan!Settled(q) BY <2>1
  <2> HIDE DEF q
  <2> QED BY <1>3, <2>3, <2>4
<1>5. CASE \E n \in PlanNumbers : page' = Plan!Settled([page EXCEPT !.count = n])
  <2>1. PICK n \in PlanNumbers : page' = Plan!Settled([page EXCEPT !.count = n]) BY <1>5
  <2>2. n \in Int BY DEF PlanParameters
  <2> DEFINE q == [page EXCEPT !.count = n]
  <2>3. /\ q \in PlanPage /\ q.ran = page.ran /\ q.rules = page.rules
        /\ q.series = page.series /\ q.created = page.created
        /\ q.source = page.source /\ q.ds = page.ds /\ q.detail = page.detail
    BY <1>1, <2>2 DEF PlanPage
  <2>4. page' = Plan!Settled(q) BY <2>1
  <2> HIDE DEF q
  <2> QED BY <1>3, <2>3, <2>4
<1> QED BY <1>4, <1>5, Zenon DEF Plan!EditSource

LEMMA PlanEditSecond ==
  ASSUME PlanParameters, PlanInv, Plan!EditSecond PROVE PlanInv'
<1>1. page \in PlanPage /\ UNCHANGED api BY DEF PlanInv, Plan!EditSecond
<1>2. \A q : Plan!Becomes(q, 1) /\ q \in PlanPage /\ q.ran = page.ran
             /\ q.rules = page.rules /\ q.series = page.series /\ q.created = page.created
             /\ PlanSame(page, q) => PlanInv'
  BY <1>1, PlanField
<1>3. CASE \E n \in PlanNumbers : Plan!Becomes([page EXCEPT !.amax = n], 1)
  <2>1. PICK n \in PlanNumbers : Plan!Becomes([page EXCEPT !.amax = n], 1) BY <1>3
  <2> DEFINE q == [page EXCEPT !.amax = n]
  <2>2. n \in Int BY DEF PlanParameters
  <2>3. /\ q \in PlanPage /\ q.ran = page.ran /\ q.rules = page.rules
        /\ q.series = page.series /\ q.created = page.created /\ PlanSame(page, q)
    BY <1>1, <2>2 DEF PlanPage, PlanSame
  <2>4. Plan!Becomes(q, 1) BY <2>1
  <2> HIDE DEF q
  <2> QED BY <1>2, <2>3, <2>4
<1>4. CASE Plan!Becomes([page EXCEPT !.top = ~@], 1)
  <2> DEFINE x == ~page.top
             q == [page EXCEPT !.top = x]
  <2>1. Plan!Becomes(q, 1) BY <1>4
  <2>2. x \in Flag BY Truths
  <2> HIDE DEF x
  <2>3. /\ q \in PlanPage /\ q.ran = page.ran /\ q.rules = page.rules
        /\ q.series = page.series /\ q.created = page.created /\ PlanSame(page, q)
    BY <1>1, <2>2 DEF PlanPage, PlanSame
  <2> HIDE DEF q
  <2> QED BY <1>2, <2>1, <2>3
<1>5. CASE \E n \in PlanNumbers : Plan!Becomes([page EXCEPT !.topK = n], 1)
  <2>1. PICK n \in PlanNumbers : Plan!Becomes([page EXCEPT !.topK = n], 1) BY <1>5
  <2> DEFINE q == [page EXCEPT !.topK = n]
  <2>2. n \in Int BY DEF PlanParameters
  <2>3. /\ q \in PlanPage /\ q.ran = page.ran /\ q.rules = page.rules
        /\ q.series = page.series /\ q.created = page.created /\ PlanSame(page, q)
    BY <1>1, <2>2 DEF PlanPage, PlanSame
  <2>4. Plan!Becomes(q, 1) BY <2>1
  <2> HIDE DEF q
  <2> QED BY <1>2, <2>3, <2>4
<1>6. CASE \E s \in PlanScales : Plan!Becomes([page EXCEPT !.scale = s], 1)
  <2>1. PICK s \in PlanScales : Plan!Becomes([page EXCEPT !.scale = s], 1) BY <1>6
  <2> DEFINE q == [page EXCEPT !.scale = s]
  <2>2. s \in PlanScale BY DEF PlanParameters
  <2>3. /\ q \in PlanPage /\ q.ran = page.ran /\ q.rules = page.rules
        /\ q.series = page.series /\ q.created = page.created /\ PlanSame(page, q)
    BY <1>1, <2>2 DEF PlanPage, PlanSame
  <2>4. Plan!Becomes(q, 1) BY <2>1
  <2> HIDE DEF q
  <2> QED BY <1>2, <2>3, <2>4
<1> QED BY <1>3, <1>4, <1>5, <1>6, Zenon DEF Plan!EditSecond

\* A page whose fields stay.
LEMMA PlanSteps ==
  ASSUME PlanParameters, PlanInv, Plan!GoNext \/ \E s \in 0..Plan!LastStep : Plan!GoTo(s)
  PROVE  PlanInv'
<1>1. PICK s : page' = [page EXCEPT !.step = s] /\ s \in 0..2 /\ UNCHANGED <<api, past>>
  <2>1. page.step \in 0..2 BY PlanFields DEF PlanInv
  <2>2. CASE Plan!GoNext
    <3>1. page' = [page EXCEPT !.step = page.step + 1] /\ page.step < 2 /\ UNCHANGED <<api, past>>
      BY <2>2 DEF Plan!GoNext, Plan!LastStep
    <3>2. page.step + 1 \in 0..2 BY <2>1, <3>1
    <3> QED BY <3>1, <3>2
  <2>3. CASE \E s \in 0..Plan!LastStep : Plan!GoTo(s)
    BY <2>3 DEF Plan!GoTo, Plan!LastStep
  <2> QED BY <2>2, <2>3
<1>2. /\ page' \in PlanPage /\ PlanSame(page, page') /\ page'.rules = page.rules
      /\ page'.picked = page.picked /\ page'.fitted = page.fitted /\ page'.ran = page.ran
      /\ page'.committee = page.committee /\ page'.quota = page.quota
      /\ page'.series = page.series /\ page'.created = page.created
  BY <1>1 DEF PlanInv, PlanPage, PlanSame
<1>3. PlanRests(page') /\ PlanOfSource(page', past.touched) BY <1>2, PlanStill DEF PlanInv
<1> QED BY <1>1, <1>2, <1>3 DEF PlanInv

-----------------------------------------------------------------------------
(* Sending the form.                                                       *)

\* The form that is sent.
PlanFormOf(p) ==
  [format |-> p.format, count |-> p.count, committee |-> p.committee,
   quota |-> p.quota, amax |-> p.amax, topK |-> IF p.top THEN p.topK ELSE -1,
   scale |-> p.scale, seed |-> p.seed]

LEMMA PlanFormIs ==
  ASSUME NEW p \in PlanPage
  PROVE  LET f == PlanFormOf(p)
         IN  /\ f \in PlanForm /\ f.format = p.format /\ f.count = p.count
             /\ f.committee = p.committee /\ f.quota = p.quota /\ f.amax = p.amax
             /\ f.scale = p.scale /\ ((p.top /\ f.topK = p.topK) \/ f.topK = -1)
<1> DEFINE k == IF p.top THEN p.topK ELSE -1
           f == PlanFormOf(p)
<1>1. p.format \in PlanFormats /\ p.count \in Int /\ p.committee \in Int /\ p.quota \in Flag
      /\ p.amax \in Int /\ p.scale \in PlanScale /\ p.topK \in Int /\ p.seed \in PlanSeeds
  BY PlanFields
<1>2. k \in Int /\ ((p.top /\ k = p.topK) \/ k = -1) BY <1>1
<1>3. f = [format |-> p.format, count |-> p.count, committee |-> p.committee,
           quota |-> p.quota, amax |-> p.amax, topK |-> k, scale |-> p.scale, seed |-> p.seed]
  BY Zenon DEF PlanFormOf
<1> HIDE DEF k, f
<1>4. f \in PlanForm /\ f.topK = k BY <1>1, <1>2, <1>3 DEF PlanForm
<1> QED BY <1>2, <1>3, <1>4 DEF f

\* validateStep, passed for the last step.
LEMMA PlanValidIs ==
  ASSUME PlanParameters, NEW p \in PlanPage, Plan!Valid(p, Plan!LastStep)
  PROVE  /\ p.rules = PlanRules /\ p.picked # <<>> /\ p.count >= 4 /\ p.committee > 0
         /\ IF p.source = "dataset" THEN p.ds # "none" ELSE p.el # "none"
         /\ \A i \in DOMAIN p.picked :
              PlanSuits(Plan!Find(PlanRules, p.picked[i]), PlanFormOf(p))
<1> DEFINE some == Plan!Some(p)
<1>1. /\ IF p.source = "dataset" THEN p.ds # "none" ELSE p.el # "none"
      /\ p.rules # <<>> /\ p.picked # <<>> /\ Plan!NoRule \notin Plan!PickedRules(p)
      /\ \A r \in Plan!PickedRules(p) : p.format \in r.formats
      /\ p.count >= 4
      /\ (\E r \in Plan!PickedRules(p) : r.committee) => p.committee >= 2
  BY Zenon DEF Plan!Valid
<1>2. /\ p.format = "approval" /\ some.approval => p.amax \in 2..p.count
      /\ p.format = "ranking" /\ some.topK /\ p.top => p.topK \in 2..p.count
      /\ p.format = "score" /\ some.range =>
           p.scale.step > 0 /\ p.scale.min <= p.scale.max
  <2>1. Plan!LastStep >= 1 BY DEF Plan!LastStep
  <2> QED BY <2>1, Zenon DEF Plan!Valid
<1>3. p.rules = PlanRules BY <1>1, PlanFields
<1>4. p.picked \in Seq(PlanIds) /\ p.committee \in Int BY PlanFields
<1>5. ASSUME NEW i \in DOMAIN p.picked
      PROVE  LET r == Plan!Find(PlanRules, p.picked[i])
             IN  r \in Plan!PickedRules(p) /\ r \in PlanRuleSet /\ r # Plan!NoRule
  <2> DEFINE r == Plan!Find(PlanRules, p.picked[i])
  <2>1. r \in Plan!PickedRules(p) BY <1>3, Zenon DEF Plan!PickedRules, Plan!ToSet
  <2>2. r # Plan!NoRule BY <1>1, <2>1
  <2>3. r \in PlanRuleSet BY <2>2, PlanFindIs
  <2> QED BY <2>1, <2>2, <2>3
<1>6. ASSUME NEW r \in Plan!PickedRules(p)
      PROVE  (r.approval => some.approval) /\ (r.topK => some.topK) /\ (r.range => some.range)
  <2> DEFINE a == \E x \in Plan!PickedRules(p) : x.topK
             b == \E x \in Plan!PickedRules(p) : x.approval
             c == \E x \in Plan!PickedRules(p) : x.range
             d == \E x \in Plan!PickedRules(p) : x.quota
  <2>1. some = [topK |-> a, approval |-> b, range |-> c, quota |-> d] BY Zenon DEF Plan!Some
  <2>2. (r.approval => b) /\ (r.topK => a) /\ (r.range => c) BY Zenon
  <2> HIDE DEF a, b, c, d, some
  <2>3. some.topK = a /\ some.approval = b /\ some.range = c BY <2>1
  <2> QED BY <2>2, <2>3
<1>7. p.committee > 0
  <2>1. 1 \in DOMAIN p.picked BY <1>1, <1>4
  <2>2. PICK r \in Plan!PickedRules(p) : r \in PlanRuleSet BY <1>5, <2>1
  <2>3. r.committee BY <2>2 DEF PlanParameters
  <2> QED BY <1>1, <1>4, <2>2, <2>3
<1>8. ASSUME NEW i \in DOMAIN p.picked
      PROVE  PlanSuits(Plan!Find(PlanRules, p.picked[i]), PlanFormOf(p))
  <2> DEFINE r == Plan!Find(PlanRules, p.picked[i])
             f == PlanFormOf(p)
  <2>1. r \in Plan!PickedRules(p) /\ r # Plan!NoRule BY <1>5
  <2>2. (r.approval => some.approval) /\ (r.topK => some.topK) /\ (r.range => some.range)
        /\ p.format \in r.formats
    BY <1>1, <1>6, <2>1
  <2>3. /\ f.format = p.format /\ f.count = p.count /\ f.amax = p.amax /\ f.scale = p.scale
        /\ ((p.top /\ f.topK = p.topK) \/ f.topK = -1)
    BY PlanFormIs
  <2> HIDE DEF r, f, some
  <2>4. PlanSuits(r, f) BY <1>2, <2>1, <2>2, <2>3 DEF PlanSuits
  <2> QED BY <2>4 DEF r, f
<1> QED BY <1>1, <1>3, <1>7, <1>8

\* The form fits its source when the page is sure of it.
LEMMA PlanSureFits ==
  ASSUME PlanParameters, PlanInv, Plan!Valid(page, Plan!LastStep)
  PROVE  /\ Plan!SourceId(page) \in PlanSources
         /\ Plan!Sure(page) => PlanFitsSource(PlanFormOf(page), Plan!SourceId(page))
<1> DEFINE id == Plan!SourceId(page)
           f == PlanFormOf(page)
<1>1. page \in PlanPage BY DEF PlanInv
<1>2. page.picked # <<>> /\ page.count >= 4
      /\ IF page.source = "dataset" THEN page.ds # "none" ELSE page.el # "none"
  BY <1>1, PlanValidIs
<1>3. page.ds \in DOMAIN PlanData \cup {"none"} /\ page.el \in DOMAIN Polls \cup {"none"}
      /\ page.count \in Int
  BY <1>1, PlanFields
<1>4. /\ page.source = "dataset" => id = page.ds /\ id \in DOMAIN PlanData
      /\ page.source # "dataset" => id = page.el /\ id \in DOMAIN Polls
  BY <1>2, <1>3 DEF Plan!SourceId
<1>5. f.format = page.format /\ f.count = page.count /\ f.committee = page.committee
  BY <1>1, PlanFormIs
<1>6. page.committee <= page.count
  <2>1. page.committee <= Plan!MaxCommittee(page)
    BY <1>2 DEF PlanInv, PlanRests, PlanCalm, PlanCounted
  <2>2. Plan!MaxCommittee(page) = page.count BY <1>2, <1>3, MaxCommitteeIs
  <2> QED BY <2>1, <2>2
<1> HIDE DEF id, f
<1>7. Plan!Sure(page) => page.detail = <<>> /\ ~page.lost /\ ~past.touched BY DEF Plan!Sure
<1>8. ASSUME Plan!Sure(page), page.source = "dataset" PROVE PlanFitsSource(f, id)
  <2>1. PlanSource(id) = PlanData[page.ds] BY <1>4, <1>8 DEF PlanSource
  <2>2. page.format = PlanData[page.ds].format /\ page.count = Plan!Shown(PlanData[page.ds])
    BY <1>2, <1>7, <1>8 DEF PlanInv, PlanOfSource
  <2> QED BY <1>3, <1>5, <1>6, <2>1, <2>2 DEF PlanFitsSource
<1>9. ASSUME Plan!Sure(page), page.source # "dataset" PROVE PlanFitsSource(f, id)
  <2>1. id \notin DOMAIN PlanData BY <1>4, <1>9 DEF PlanParameters
  <2>2. PlanSource(id) = Polls[page.el] BY <1>4, <1>9, <2>1 DEF PlanSource
  <2>3. page.format = Polls[page.el].format /\ page.count = Polls[page.el].count
    BY <1>2, <1>7, <1>9 DEF PlanInv, PlanOfSource
  <2>4. Plan!Shown(Polls[page.el]) = Polls[page.el].count
    BY <1>2, <1>3, <2>3 DEF Plan!Shown
  <2> QED BY <1>3, <1>5, <1>6, <2>2, <2>3, <2>4 DEF PlanFitsSource
<1>10. id \in PlanSources BY <1>4 DEF PlanSources
<1> QED BY <1>8, <1>9, <1>10 DEF id, f

LEMMA PlanPress ==
  ASSUME PlanParameters, PlanInv, Plan!Press PROVE PlanInv'
<1> DEFINE at == IF page.source = "dataset" THEN "create" ELSE "dataset"
           sure == Plan!Sure(page)
           f == PlanFormOf(page)
           id == Plan!SourceId(page)
           s == [at |-> at, sure |-> sure, id |-> id, rules |-> page.picked, made |-> <<>>,
                 form |-> f]
           q == [page EXCEPT !.series = s]
<1>1. /\ page.created = <<>> /\ Plan!Valid(page, Plan!LastStep) /\ UNCHANGED api
      /\ Plan!Becomes(q, 1)
  BY Zenon DEF Plan!Press, PlanFormOf
<1>2. page \in PlanPage BY DEF PlanInv
<1>3. /\ page.rules = PlanRules /\ page.picked # <<>> /\ page.committee > 0
      /\ \A i \in DOMAIN page.picked : PlanSuits(Plan!Find(PlanRules, page.picked[i]), f)
  BY <1>1, <1>2, PlanValidIs
<1>4. id \in PlanSources /\ (sure => PlanFitsSource(f, id)) BY <1>1, PlanSureFits
<1>5. f \in PlanForm /\ f.committee = page.committee BY <1>2, PlanFormIs
<1>6. page.picked \in Seq(PlanIds) /\ <<>> \in Seq(Nat) BY <1>2, PlanFields
<1>7. at \in {"dataset", "create", "batch"} OBVIOUS
<1>8. sure \in Flag BY Truths DEF Plan!Sure
<1> HIDE DEF at, sure, f, id
<1>9. s \in PlanSeries BY <1>4, <1>5, <1>6, <1>7, <1>8 DEF PlanSeries
<1>10. /\ s.rules = page.picked /\ s.form = f /\ s.sure = sure /\ s.id = id /\ s.made = <<>>
  OBVIOUS
<1> HIDE DEF s
<1>11. PlanSeriesOK(s, PlanRules, api.runs)
  BY <1>3, <1>4, <1>5, <1>9, <1>10 DEF PlanSeriesOK
<1>12. /\ q \in PlanPage /\ q.ran = page.ran /\ q.rules = page.rules /\ q.series = s
       /\ q.created = page.created /\ PlanSame(page, q)
  BY <1>2, <1>9 DEF PlanPage, PlanSame
<1> HIDE DEF q
<1>13. /\ page' = Plan!Settled(q) /\ past' \in [events : Nat, touched : Flag]
       /\ past'.touched = past.touched
  BY <1>1, PlanBecomesIs
<1>14. PlanOfSource(q, past'.touched) BY <1>12, <1>13, PlanSourceKept DEF PlanInv
<1>15. page' \in PlanPage /\ Uncorrected(q, page') /\ PlanRests(page')
       /\ PlanOfSource(page', past'.touched)
  BY <1>2, <1>12, <1>13, <1>14, PlanSettles DEF PlanInv
<1>16. page'.series = s /\ page'.rules = PlanRules /\ page'.created = <<>>
  BY <1>1, <1>3, <1>12, <1>15 DEF Uncorrected
<1>17. PlanCreatedOK(page'.created, api.runs) BY <1>16 DEF PlanCreatedOK
<1> QED BY <1>1, <1>11, <1>13, <1>15, <1>16, <1>17 DEF PlanInv

\* The parameters sent for one rule, of a form that suits it.
LEMMA PlanBodyIs ==
  ASSUME PlanParameters, NEW f \in PlanForm, NEW rule \in PlanRuleSet, PlanSuits(rule, f),
         f.committee > 0
  PROVE  LET b == Plan!Body(f, rule)
         IN  /\ b \in PlanForm /\ (Plan!Whole(b) => Plan!Accepts(b))
             /\ b.format = f.format /\ b.count = f.count /\ b.committee = f.committee
             /\ b.format \in rule.formats /\ (b.quota => rule.quota)
             /\ b.topK # -1 => rule.topK /\ b.topK \in 2..b.count
             /\ b.amax # -1 => rule.approval /\ b.amax \in 2..b.count
<1> DEFINE b == Plan!Body(f, rule)
           u == f.quota /\ rule.quota
           x == IF f.format = "approval" /\ rule.approval THEN f.amax ELSE -1
           k == IF f.format = "ranking" /\ rule.topK THEN f.topK ELSE -1
           s == IF f.format = "score" /\ rule.range THEN f.scale ELSE Plan!NoScale
<1>1. b = [f EXCEPT !.quota = u, !.amax = x, !.topK = k, !.scale = s]
  BY Zenon DEF Plan!Body
<1>2. f.format \in PlanFormats /\ f.count \in Int /\ f.committee \in Int /\ f.amax \in Int
      /\ f.topK \in Int /\ f.scale \in PlanScale
  BY DEF PlanForm
<1>3. u \in Flag /\ (u => rule.quota) BY Truths, Zenon
<1>4. x \in Int /\ (x # -1 => rule.approval /\ x \in 2..f.count) /\ x # 0
  BY <1>2 DEF PlanSuits
<1>5. k \in Int /\ (k # -1 => rule.topK /\ k \in 2..f.count) /\ k # 0
  BY <1>2 DEF PlanSuits
<1>6. s \in PlanScale /\ (s = Plan!NoScale \/ (s.step > 0 /\ s.min <= s.max))
  <2>1. Plan!NoScale \in PlanScale BY DEF Plan!NoScale, PlanScale
  <2> QED BY <1>2, <2>1 DEF PlanSuits
<1> HIDE DEF b, u, x, k, s
<1>7. /\ b \in PlanForm /\ b.format = f.format /\ b.count = f.count
      /\ b.committee = f.committee /\ b.quota = u /\ b.amax = x /\ b.topK = k /\ b.scale = s
  BY <1>1, <1>3, <1>4, <1>5, <1>6 DEF PlanForm
<1>8. Plan!Whole(b) => Plan!Accepts(b) BY <1>4, <1>5, <1>6, <1>7 DEF Plan!Accepts
<1>9. b.quota => rule.quota BY <1>3, <1>7, Zenon
<1>10. b.format \in rule.formats BY <1>7 DEF PlanSuits
<1> QED BY <1>4, <1>5, <1>7, <1>8, <1>9, <1>10 DEF b

\* A run made for the first of the rules left.
LEMMA PlanRunIs ==
  ASSUME PlanParameters, PlanInv, page.series.at # "none"
  PROVE  LET s == page.series  r == Plan!RunOf(page.series)
         IN  /\ s \in PlanSeries /\ s.rules \in Seq(PlanIds) /\ s.rules # <<>>
             /\ Plan!Whole(Plan!BodyOf(s)) => Plan!Accepts(Plan!BodyOf(s))
             /\ r \in PlanRun /\ r.id = s.id /\ PlanRunOK(r)
<1> DEFINE s == page.series
           id == Head(s.rules)
           rule == Plan!Find(PlanRules, id)
           b == Plan!Body(s.form, rule)
           r == Plan!RunOf(s)
<1>1. /\ s \in PlanSeries /\ page.rules = PlanRules /\ s.rules # <<>> /\ s.form.committee > 0
      /\ \A i \in DOMAIN s.rules : PlanSuits(Plan!Find(PlanRules, s.rules[i]), s.form)
      /\ s.sure => PlanFitsSource(s.form, s.id)
  BY DEF PlanInv, PlanSeriesOK
<1>2. /\ s.rules \in Seq(PlanIds) /\ s.form \in PlanForm /\ s.id \in PlanSources
      /\ s.sure \in Flag
  BY <1>1 DEF PlanSeries
<1>3. 1 \in DOMAIN s.rules /\ id = s.rules[1] BY <1>1, <1>2
<1>4. id \in PlanIds BY <1>2, <1>3
<1>5. PlanSuits(rule, s.form) BY <1>1, <1>3
<1>6. rule \in PlanRuleSet BY <1>5, PlanFindIs DEF PlanSuits
<1> HIDE DEF s
<1>7. /\ b \in PlanForm /\ (Plan!Whole(b) => Plan!Accepts(b))
      /\ b.format = s.form.format /\ b.count = s.form.count /\ b.committee = s.form.committee
      /\ b.format \in rule.formats /\ (b.quota => rule.quota)
      /\ b.topK # -1 => rule.topK /\ b.topK \in 2..b.count
      /\ b.amax # -1 => rule.approval /\ b.amax \in 2..b.count
  <2> HIDE DEF rule
  <2> QED BY <1>1, <1>2, <1>5, <1>6, PlanBodyIs
<1>8. Plan!BodyOf(s) = b BY <1>1 DEF Plan!BodyOf
<1>9. r = [id |-> s.id, rule |-> id, sure |-> s.sure, body |-> b]
  BY <1>8 DEF Plan!RunOf
<1> HIDE DEF id, b, r
<1>10. r \in PlanRun /\ r.id = s.id /\ r.rule = id /\ r.sure = s.sure /\ r.body = b
  BY <1>2, <1>4, <1>7, <1>9 DEF PlanRun
<1>11. Plan!Find(PlanRules, r.rule) = rule BY <1>10
<1>12. r.sure => PlanFitsSource(b, r.id)
  BY <1>1, <1>7, <1>10 DEF PlanFitsSource
<1> HIDE DEF rule
<1>13. PlanRunOK(r) BY <1>7, <1>10, <1>11, <1>12, Zenon DEF PlanRunOK
<1>14. Plan!Whole(Plan!BodyOf(s)) => Plan!Accepts(Plan!BodyOf(s)) BY <1>7, <1>8
<1> QED BY <1>1, <1>2, <1>10, <1>13, <1>14 DEF r, s

\* One run more.
LEMMA PlanRunsGrow ==
  ASSUME NEW runs \in Seq(PlanRun), NEW r \in PlanRun, PlanRunsOK(runs), PlanRunOK(r)
  PROVE  LET l == Append(runs, r)
         IN  /\ l \in Seq(PlanRun) /\ PlanRunsOK(l)
             /\ Len(runs) + 1 \in DOMAIN l /\ l[Len(runs) + 1] = r
             /\ \A i \in DOMAIN runs : i \in DOMAIN l /\ l[i] = runs[i]
<1> DEFINE l == Append(runs, r)
<1>1. /\ l \in Seq(PlanRun) /\ Len(runs) \in Nat /\ DOMAIN runs = 1..Len(runs)
      /\ DOMAIN l = 1..(Len(runs) + 1) /\ l[Len(runs) + 1] = r
      /\ \A i \in DOMAIN runs : l[i] = runs[i]
  OBVIOUS
<1> HIDE DEF l
<1>2. PlanRunsOK(l)
  <2> SUFFICES ASSUME NEW i \in DOMAIN l PROVE PlanRunOK(l[i]) BY DEF PlanRunsOK
  <2>1. i \in DOMAIN runs \/ i = Len(runs) + 1 BY <1>1
  <2> QED BY <1>1, <2>1 DEF PlanRunsOK
<1>3. \A i \in DOMAIN runs : i \in DOMAIN l BY <1>1
<1> QED BY <1>1, <1>2, <1>3 DEF l

\* The page goes on with the series, or reports it.
LEMMA PlanSendingIs ==
  ASSUME PlanInv, NEW s, NEW c, NEW n \in 0..2, NEW runs \in Seq(PlanRun),
         s \in PlanSeries \cup {Plan!NoSeries}, c \in Seq(Nat),
         page' = [page EXCEPT !.series = s, !.created = c, !.step = n],
         api' = [api EXCEPT !.runs = runs], UNCHANGED past,
         PlanRunsOK(runs), PlanSeriesOK(s, page.rules, runs), PlanCreatedOK(c, runs)
  PROVE  PlanInv'
<1>1. page \in PlanPage /\ api \in [runs : Seq(PlanRun), taken : Nat] BY DEF PlanInv
<1>2. /\ page' \in PlanPage /\ PlanSame(page, page') /\ page'.rules = page.rules
      /\ page'.picked = page.picked /\ page'.fitted = page.fitted /\ page'.ran = page.ran
      /\ page'.committee = page.committee /\ page'.quota = page.quota
      /\ page'.series = s /\ page'.created = c
  BY <1>1 DEF PlanPage, PlanSame
<1>3. PlanRests(page') /\ PlanOfSource(page', past.touched) BY <1>2, PlanStill DEF PlanInv
<1>4. api' \in [runs : Seq(PlanRun), taken : Nat] /\ api'.runs = runs BY <1>1
<1> QED BY <1>2, <1>3, <1>4 DEF PlanInv

LEMMA PlanTakeDataset ==
  ASSUME PlanParameters, PlanInv, Plan!TakeDataset \/ Plan!CreateExperiment PROVE PlanInv'
<1>1. PICK x \in {"create", "batch"}, n \in Nat :
        /\ page.series.at # "none" /\ page' = [page EXCEPT !.series.at = x]
        /\ api' = [api EXCEPT !.taken = n] /\ UNCHANGED past
  <2>1. api.taken \in Nat /\ api = [api EXCEPT !.taken = api.taken] BY DEF PlanInv
  <2>2. CASE Plan!TakeDataset
    <3>1. api.taken + 1 \in Nat BY <2>1
    <3> QED BY <2>2, <3>1 DEF Plan!TakeDataset
  <2>3. CASE Plan!CreateExperiment BY <2>1, <2>3 DEF Plan!CreateExperiment
  <2> QED BY <2>2, <2>3
<1> DEFINE s == [page.series EXCEPT !.at = x]
<1>2. /\ page.series \in PlanSeries /\ page \in PlanPage
      /\ api \in [runs : Seq(PlanRun), taken : Nat]
  BY <1>1 DEF PlanInv, PlanSeriesOK
<1>3. /\ s \in PlanSeries /\ s.at = x /\ s.rules = page.series.rules /\ s.form = page.series.form
      /\ s.sure = page.series.sure /\ s.id = page.series.id /\ s.made = page.series.made
  BY <1>2 DEF PlanSeries
<1>4. page' = [page EXCEPT !.series = s] BY <1>1
<1> HIDE DEF s
<1>5. PlanSeriesOK(s, page.rules, api.runs) BY <1>1, <1>3 DEF PlanInv, PlanSeriesOK
<1>6. /\ page' \in PlanPage /\ PlanSame(page, page') /\ page'.rules = page.rules
      /\ page'.picked = page.picked /\ page'.fitted = page.fitted /\ page'.ran = page.ran
      /\ page'.committee = page.committee /\ page'.quota = page.quota
      /\ page'.series = s /\ page'.created = page.created
  BY <1>2, <1>3, <1>4 DEF PlanPage, PlanSame
<1>7. PlanRests(page') /\ PlanOfSource(page', past.touched) BY <1>6, PlanStill DEF PlanInv
<1>8. api' \in [runs : Seq(PlanRun), taken : Nat] /\ api'.runs = api.runs BY <1>1, <1>2
<1> QED BY <1>1, <1>5, <1>6, <1>7, <1>8 DEF PlanInv

LEMMA PlanCreateRefused ==
  ASSUME PlanParameters, PlanInv, Plan!CreateRefused PROVE PlanInv'
<1>1. /\ page \in PlanPage /\ api \in [runs : Seq(PlanRun), taken : Nat]
      /\ page.step \in 0..2 /\ page.created \in Seq(Nat)
  BY PlanFields DEF PlanInv
<1> DEFINE runs == api.runs
           s == Plan!NoSeries
<1>2. page' = [page EXCEPT !.series = s] /\ UNCHANGED <<api, past>> BY DEF Plan!CreateRefused
<1>3. PlanSeriesOK(s, page.rules, runs) BY DEF PlanSeriesOK, Plan!NoSeries
<1>4. PlanRunsOK(runs) /\ PlanCreatedOK(page.created, runs) BY DEF PlanInv
<1>5. s \in PlanSeries \cup {Plan!NoSeries} OBVIOUS
<1> HIDE DEF s
<1>6. page' = [page EXCEPT !.series = s, !.created = page.created, !.step = page.step]
  BY <1>1, <1>2 DEF PlanPage
<1>7. api' = [api EXCEPT !.runs = runs] BY <1>1, <1>2
<1>8. runs \in Seq(PlanRun) BY <1>1
<1> HIDE DEF runs
<1> QED BY <1>1, <1>2, <1>3, <1>4, <1>5, <1>6, <1>7, <1>8, PlanSendingIs

LEMMA PlanBatchRun ==
  ASSUME PlanParameters, PlanInv, Plan!BatchRun PROVE PlanInv'
<1> DEFINE r == Plan!RunOf(page.series)
           old == page.series
           runs == Append(api.runs, r)
           n == Len(api.runs) + 1
           made == Append(old.made, n)
           rest == Tail(old.rules)
           s == [old EXCEPT !.rules = rest, !.at = "create", !.made = made]
<1>1. /\ page.series.at = "batch" /\ api' = [api EXCEPT !.runs = runs] /\ UNCHANGED past
      /\ page' = IF s.rules # <<>> THEN [page EXCEPT !.series = s]
                 ELSE [page EXCEPT !.series = Plan!NoSeries, !.created = s.made,
                                   !.step = Plan!LastStep]
  BY Zenon DEF Plan!BatchRun
<1>2. /\ old \in PlanSeries /\ old.rules \in Seq(PlanIds) /\ old.rules # <<>>
      /\ r \in PlanRun /\ r.id = old.id /\ PlanRunOK(r)
  BY <1>1, PlanRunIs
<1>3. /\ page \in PlanPage /\ api.runs \in Seq(PlanRun) /\ PlanRunsOK(api.runs)
      /\ page.step \in 0..2 /\ page.created \in Seq(Nat)
  BY PlanFields DEF PlanInv
<1>4. /\ page.rules = PlanRules /\ old.form.committee > 0
      /\ \A i \in DOMAIN old.rules : PlanSuits(Plan!Find(PlanRules, old.rules[i]), old.form)
      /\ old.sure => PlanFitsSource(old.form, old.id)
      /\ \A i \in DOMAIN old.made : old.made[i] \in DOMAIN api.runs
                                    /\ api.runs[old.made[i]].id = old.id
  BY <1>1 DEF PlanInv, PlanSeriesOK
<1> HIDE DEF r
<1>5. /\ runs \in Seq(PlanRun) /\ PlanRunsOK(runs) /\ n \in DOMAIN runs /\ runs[n] = r
      /\ \A i \in DOMAIN api.runs : i \in DOMAIN runs /\ runs[i] = api.runs[i]
  BY <1>2, <1>3, PlanRunsGrow
<1>6. /\ rest \in Seq(PlanIds)
      /\ \A i \in DOMAIN rest : i + 1 \in DOMAIN old.rules /\ rest[i] = old.rules[i + 1]
  <2> DEFINE l == old.rules
  <2> HIDE DEF old
  <2>1. l \in Seq(PlanIds) /\ l # <<>> BY <1>2
  <2> HIDE DEF l
  <2>2. Tail(l) \in Seq(PlanIds) /\ Len(l) \in Nat /\ DOMAIN l = 1..Len(l)
        /\ DOMAIN Tail(l) = 1..(Len(l) - 1)
        /\ \A i \in 1..(Len(l) - 1) : Tail(l)[i] = l[i + 1]
    BY <2>1
  <2>3. \A i \in 1..(Len(l) - 1) : i + 1 \in 1..Len(l) BY <2>2
  <2> QED BY <2>2, <2>3 DEF l
<1>7. n \in Nat BY <1>3
<1>8. /\ made \in Seq(Nat)
      /\ \A i \in DOMAIN made : made[i] \in DOMAIN runs /\ runs[made[i]].id = old.id
  <2> DEFINE l == old.made
  <2>1. l \in Seq(Nat) BY <1>2 DEF PlanSeries
  <2>2. \A i \in DOMAIN l : l[i] \in DOMAIN runs /\ runs[l[i]].id = old.id BY <1>4, <1>5
  <2>3. runs[n].id = old.id BY <1>2, <1>5
  <2>4. made = Append(l, n) OBVIOUS
  <2> HIDE DEF l, n, runs, old, made
  <2>5. made \in Seq(Nat) /\ DOMAIN made = 1..(Len(l) + 1) /\ made[Len(l) + 1] = n
        /\ DOMAIN l = 1..Len(l) /\ Len(l) \in Nat /\ \A i \in 1..Len(l) : made[i] = l[i]
    BY <1>7, <2>1, <2>4
  <2>6. ASSUME NEW i \in DOMAIN made
        PROVE  made[i] \in DOMAIN runs /\ runs[made[i]].id = old.id
    <3>1. i \in 1..Len(l) \/ i = Len(l) + 1 BY <2>5
    <3> QED BY <1>5, <2>2, <2>3, <2>5, <3>1
  <2> QED BY <2>5, <2>6
<1> HIDE DEF runs, n, made, rest, old
<1>9. /\ s \in PlanSeries /\ s.rules = rest /\ s.made = made /\ s.form = old.form
      /\ s.sure = old.sure /\ s.id = old.id
  BY <1>2, <1>6, <1>8 DEF PlanSeries
<1> HIDE DEF s
<1>10. CASE rest # <<>>
  <2>1. page' = [page EXCEPT !.series = s, !.created = page.created, !.step = page.step]
    BY <1>1, <1>3, <1>9, <1>10 DEF PlanPage
  <2>2. PlanSeriesOK(s, page.rules, runs)
    BY <1>4, <1>6, <1>8, <1>9, <1>10 DEF PlanSeriesOK
  <2>3. PlanCreatedOK(page.created, runs)
    BY <1>5 DEF PlanInv, PlanCreatedOK
  <2> QED BY <1>1, <1>3, <1>5, <1>9, <2>1, <2>2, <2>3, PlanSendingIs
<1>11. CASE rest = <<>>
  <2>1. page' = [page EXCEPT !.series = Plan!NoSeries, !.created = made, !.step = 2]
    BY <1>1, <1>9, <1>11 DEF Plan!LastStep
  <2>2. PlanSeriesOK(Plan!NoSeries, page.rules, runs) BY DEF PlanSeriesOK, Plan!NoSeries
  <2>3. PlanCreatedOK(made, runs) BY <1>8 DEF PlanCreatedOK
  <2>4. 2 \in 0..2 /\ Plan!NoSeries \in PlanSeries \cup {Plan!NoSeries} OBVIOUS
  <2> QED BY <1>1, <1>5, <1>8, <2>1, <2>2, <2>3, <2>4, PlanSendingIs
<1> QED BY <1>10, <1>11

LEMMA PlanSeriesFails ==
  ASSUME PlanParameters, PlanInv, Plan!SeriesFails PROVE PlanInv'
<1> DEFINE r == Plan!RunOf(page.series)
           q == [page EXCEPT !.series = Plan!NoSeries]
<1>1. page.series.at # "none" /\ Plan!Becomes(q, 1) BY DEF Plan!SeriesFails
<1>2. /\ page \in PlanPage /\ api \in [runs : Seq(PlanRun), taken : Nat]
      /\ PlanRunsOK(api.runs) /\ PlanCreatedOK(page.created, api.runs)
  BY DEF PlanInv
<1>3. r \in PlanRun /\ PlanRunOK(r) BY <1>1, PlanRunIs
<1>4. /\ api' \in [runs : Seq(PlanRun), taken : Nat] /\ PlanRunsOK(api'.runs)
      /\ PlanCreatedOK(page.created, api'.runs)
  <2>1. CASE api' = api BY <1>2, <2>1
  <2>2. CASE api' = [api EXCEPT !.taken = @ + 1]
    <3>1. api.taken + 1 \in Nat BY <1>2
    <3>2. api' \in [runs : Seq(PlanRun), taken : Nat] /\ api'.runs = api.runs
      BY <1>2, <2>2, <3>1
    <3> QED BY <1>2, <3>2
  <2>3. CASE api' = [api EXCEPT !.runs = Append(@, r)]
    <3> DEFINE l == Append(api.runs, r)
    <3> HIDE DEF r
    <3>1. /\ l \in Seq(PlanRun) /\ PlanRunsOK(l)
          /\ \A i \in DOMAIN api.runs : i \in DOMAIN l /\ l[i] = api.runs[i]
      BY <1>2, <1>3, PlanRunsGrow
    <3>2. api' = [api EXCEPT !.runs = l] BY <2>3
    <3> HIDE DEF l
    <3>3. api' \in [runs : Seq(PlanRun), taken : Nat] /\ api'.runs = l BY <1>2, <3>1, <3>2
    <3>4. PlanCreatedOK(page.created, l) BY <1>2, <3>1 DEF PlanCreatedOK
    <3> QED BY <3>1, <3>3, <3>4
  <2> QED BY <2>1, <2>2, <2>3 DEF Plan!SeriesFails
<1>5. /\ q \in PlanPage /\ q.ran = page.ran /\ q.rules = page.rules
      /\ q.series = Plan!NoSeries /\ q.created = page.created /\ PlanSame(page, q)
  BY <1>2 DEF PlanPage, PlanSame
<1> HIDE DEF q
<1>6. /\ page' = Plan!Settled(q) /\ past' \in [events : Nat, touched : Flag]
      /\ past'.touched = past.touched
  BY <1>1, PlanBecomesIs
<1>7. PlanOfSource(q, past'.touched) BY <1>5, <1>6, PlanSourceKept DEF PlanInv
<1>8. page' \in PlanPage /\ Uncorrected(q, page') /\ PlanRests(page')
      /\ PlanOfSource(page', past'.touched)
  BY <1>2, <1>5, <1>6, <1>7, PlanSettles DEF PlanInv
<1>9. page'.series = Plan!NoSeries /\ page'.created = page.created
  BY <1>5, <1>8 DEF Uncorrected
<1>10. PlanSeriesOK(page'.series, page'.rules, api'.runs)
  BY <1>9 DEF PlanSeriesOK, Plan!NoSeries
<1> QED BY <1>4, <1>6, <1>8, <1>9, <1>10 DEF PlanInv

-----------------------------------------------------------------------------
LEMMA PlanGoesOn == ASSUME PlanInv, PlanParameters, Plan!Next PROVE PlanInv'
<1>1. CASE Plan!RulesArrive \/ Plan!DatasetsArrive \/ Plan!ElectionsArrive
  BY <1>1, PlanRulesArrive, PlanDatasetsArrive, PlanElectionsArrive
<1>2. CASE \/ Plan!ChooseSource
           \/ \E id \in DOMAIN PlanData : Plan!ChooseDataset(id)
           \/ \E id \in DOMAIN Polls : Plan!ChooseElection(id)
  BY <1>2, PlanChooses
<1>3. CASE \E i \in DOMAIN page.detail : Plan!DetailArrives(i) \/ Plan!DetailLost(i)
  BY <1>3, PlanDetail
<1>4. CASE \E r \in Plan!ToSet(PlanRules) : Plan!Toggle(r.id)
  <2>1. PICK r \in Plan!ToSet(PlanRules) : Plan!Toggle(r.id) BY <1>4
  <2>2. r.id \in PlanIds BY <2>1 DEF Plan!ToSet, PlanIds, PlanRuleSet
  <2> QED BY <2>1, <2>2, PlanToggle
<1>5. CASE Plan!EditFirst \/ Plan!EditSource \/ Plan!EditSecond
  BY <1>5, PlanEditFirst, PlanEditSource, PlanEditSecond
<1>6. CASE Plan!GoNext \/ \E s \in 0..Plan!LastStep : Plan!GoTo(s) BY <1>6, PlanSteps
<1>7. CASE Plan!Press \/ Plan!TakeDataset \/ Plan!CreateExperiment \/ Plan!CreateRefused
           \/ Plan!BatchRun \/ Plan!SeriesFails
  BY <1>7, PlanPress, PlanTakeDataset, PlanCreateRefused, PlanBatchRun, PlanSeriesFails
<1> QED BY <1>1, <1>2, <1>3, <1>4, <1>5, <1>6, <1>7, Zenon DEF Plan!Next

LEMMA PlanIdles == ASSUME PlanInv, UNCHANGED <<api, page, past>> PROVE PlanInv'
BY DEF PlanInv

LEMMA PlanSameCardinality == \A S : Plan!Cardinality(S) = Cardinality(S)
BY Zenon DEF Plan!Cardinality, Cardinality

LEMMA PlansAreRight ==
  ASSUME PlanParameters, PlanInv
  PROVE  /\ Plan!TypeOK /\ Plan!EffectsSettle /\ Plan!ReadyIsAccepted
         /\ Plan!RunsSuitTheirRule /\ Plan!ReportedIsThere
<1>1. page \in PlanPage BY DEF PlanInv
<1>2. Plan!TypeOK
  <2>1. Len(page.detail) <= 1
    <3>1. page.detail = <<>> \/ \E id \in DOMAIN PlanData : page.detail = <<id>>
      BY <1>1, PlanFields DEF PlanDetails
    <3>2. CASE page.detail = <<>>
      <4>1. Len(page.detail) = 0 BY <3>2
      <4> QED BY <4>1
    <3>3. CASE \E id \in DOMAIN PlanData : page.detail = <<id>>
      <4>1. Len(page.detail) = 1 BY <3>3
      <4> QED BY <4>1
    <3> QED BY <3>1, <3>2, <3>3
  <2> QED BY <1>1, <2>1, PlanFields
      DEF Plan!TypeOK, Plan!LastStep, Plan!Sources, Plan!Formats, PlanFormats
<1>3. Plan!EffectsSettle
  <2>1. Plan!Corrected(page) = page BY <1>1, PlanStaysCalm DEF PlanInv, PlanRests
  <2>2. page.picked # <<>> => page.committee <= Plan!MaxCommittee(page)
    BY DEF PlanInv, PlanRests, PlanCalm, PlanCounted
  <2> QED BY <2>1, <2>2 DEF Plan!EffectsSettle
<1>4. Plan!ReadyIsAccepted
  <2> SUFFICES ASSUME page.series.at \in {"create", "batch"},
                      Plan!Whole(Plan!BodyOf(page.series))
               PROVE  Plan!Accepts(Plan!BodyOf(page.series))
    BY DEF Plan!ReadyIsAccepted
  <2>1. page.series.at # "none" OBVIOUS
  <2> QED BY <2>1, PlanRunIs
<1>5. Plan!RunsSuitTheirRule
  <2>1. \A i \in DOMAIN api.runs : PlanRunOK(api.runs[i]) BY DEF PlanInv, PlanRunsOK
  <2> QED BY <2>1, Zenon DEF Plan!RunsSuitTheirRule, PlanRunOK
<1>6. Plan!ReportedIsThere
  <2> DEFINE c == page.created
             S == {api.runs[i].id : i \in Plan!ToSet(c)}
  <2>1. PlanCreatedOK(c, api.runs) BY DEF PlanInv
  <2>2. Plan!ToSet(c) = {c[i] : i \in DOMAIN c} BY DEF Plan!ToSet
  <2>3. Plan!ToSet(c) \subseteq DOMAIN api.runs BY <2>1, <2>2 DEF PlanCreatedOK
  <2>4. Plan!Cardinality(S) <= 1
    <3>1. CASE S = {}
      <4>1. Plan!Cardinality(S) = 0 BY <3>1, PlanSameCardinality, FS_EmptySet
      <4> QED BY <4>1
    <3>2. CASE S # {}
      <4>1. PICK n \in DOMAIN c : TRUE BY <2>2, <3>2
      <4>2. \A i \in DOMAIN c : api.runs[c[i]].id = api.runs[c[n]].id
        BY <2>1, <4>1 DEF PlanCreatedOK
      <4>3. S = {api.runs[c[n]].id} BY <2>2, <4>1, <4>2
      <4> HIDE DEF S
      <4>4. Plan!Cardinality(S) = 1 BY <4>3, PlanSameCardinality, FS_Singleton
      <4> QED BY <4>4
    <3> QED BY <3>1, <3>2
  <2> QED BY <2>3, <2>4 DEF Plan!ReportedIsThere
<1> QED BY <1>2, <1>3, <1>4, <1>5, <1>6

\* Datasets of two candidates at least.
PlanOfTwo == \A id \in DOMAIN PlanData : PlanData[id].count >= 4

LEMMA PlansFit ==
  ASSUME PlanParameters, PlanOfTwo, PlanInv PROVE Plan!RunsFitTheirSource
<1> SUFFICES ASSUME NEW i \in DOMAIN api.runs, api.runs[i].sure
             PROVE  LET run == api.runs[i]  d == PlanSource(api.runs[i].id)
                    IN  /\ run.body.format = d.format /\ run.body.committee <= d.count
                        /\ run.body.amax <= d.count /\ run.body.topK <= d.count
  BY Zenon DEF Plan!RunsFitTheirSource, PlanSource
<1> DEFINE run == api.runs[i]
           b == run.body
           d == PlanSource(run.id)
<1>1. run \in PlanRun /\ PlanRunOK(run) BY DEF PlanInv, PlanRunsOK
<1> HIDE DEF run
<1>2. b \in PlanForm /\ run.id \in PlanSources BY <1>1 DEF PlanRun
<1>3. d.count \in Nat /\ d.count >= 4
  <2>1. CASE run.id \in DOMAIN PlanData
    BY <2>1, PlanSourcesAre DEF PlanSource, PlanOfTwo
  <2>2. CASE run.id \notin DOMAIN PlanData
    BY <1>2, <2>2, PlanSourcesAre DEF PlanSource, PlanSources
  <2> QED BY <2>1, <2>2
<1>4. Plan!Shown(d) = d.count BY <1>3 DEF Plan!Shown
<1>5. /\ b.topK # -1 => b.topK \in 2..b.count
      /\ b.amax # -1 => b.amax \in 2..b.count
      /\ b.format = d.format /\ b.count <= Plan!Shown(d) /\ b.committee <= b.count
  <2>1. run.sure BY DEF run
  <2>2. PlanFitsSource(b, run.id) BY <1>1, <2>1 DEF PlanRunOK
  <2> QED BY <1>1, <2>2 DEF PlanRunOK, PlanFitsSource
<1>6. b.count \in Int /\ b.committee \in Int /\ b.amax \in Int /\ b.topK \in Int
  BY <1>2 DEF PlanForm
<1> HIDE DEF b, d
<1>7. b.format = d.format /\ b.committee <= d.count /\ b.amax <= d.count /\ b.topK <= d.count
  BY <1>3, <1>4, <1>5, <1>6
<1> QED BY <1>7 DEF b, d, run

\* However the lists, the answers about a source and the edits come in between, the three
\* effects are at rest after every render with the committee in bounds, what is sent is
\* accepted for each of the rules picked when its numbers are whole, a run takes the parameters of its rule and no
\* others, a series that is reported is on record and of one dataset; and when datasets
\* have the two candidates the form shows at least, the runs of a form that was sure of
\* its source are in its format and within its candidates.
THEOREM RunsSuitTheirPlans ==
  ASSUME PlanParameters
  PROVE  Plan!Init /\ [][Plan!Next]_<<api, page, past>>
           => [](/\ Plan!EffectsSettle /\ Plan!ReadyIsAccepted /\ Plan!RunsSuitTheirRule
                 /\ (PlanOfTwo => Plan!RunsFitTheirSource) /\ Plan!ReportedIsThere)
<1>1. Plan!Init => PlanInv BY PlanStarts
<1>2. PlanInv /\ [Plan!Next]_<<api, page, past>> => PlanInv' BY PlanGoesOn, PlanIdles
<1>3. PlanInv => /\ Plan!EffectsSettle /\ Plan!ReadyIsAccepted /\ Plan!RunsSuitTheirRule
                 /\ (PlanOfTwo => Plan!RunsFitTheirSource) /\ Plan!ReportedIsThere
  BY PlansAreRight, PlansFit
<1> QED BY <1>1, <1>2, <1>3, PTL
=============================================================================
