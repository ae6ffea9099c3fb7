----------------------------- MODULE ElectionDraft -----------------------------
(***************************************************************************)
(* AdminCreateElectionPage: the draft of an election over five steps.      *)
(*                                                                         *)
(* The draft is corrected by effects after every render, until it fits the *)
(* catalogue of tally rules; an event is handled by a render that needs no *)
(* more correction.  It is saved in the browser and restored.  Creating    *)
(* sends the draft and then, on request, opens or schedules the election.  *)
(*                                                                         *)
(* Names stand for names the page finds long enough.  Numbers typed are    *)
(* whole: the page lets others through, which the API cannot read.         *)
(***************************************************************************)
EXTENDS Integers, FiniteSets, TallyRules

CONSTANTS
  Catalogues,  \* sequences of rules the compute service may offer
  Restored,    \* drafts left by an earlier visit
  Names,       \* names of candidates, "" for an empty field
  Imports,     \* what the API reads from a file: sequences of names
  Numbers,     \* what is typed into a field
  Scales,      \* minimum, maximum and step of scores
  Periods,     \* start, end and publication
  MaxEvents    \* the bound on edits, presses of the button, faults and ticks

VARIABLES
  api,   \* the elections created, by status
  page,  \* the state of the page
  past   \* the time, and history: events, the renders since the last of them,
         \* told, the elections reported, and excused, the requests whose outcome
         \* the page could not learn or tell

vars == <<api, page, past>>

LastStep == 4

Fresh == [step |-> 0, title |-> TRUE, period |-> [start |-> 1, end |-> 3, publish |-> 4],
          cands |-> <<"", "">>, format |-> "ranking", rule |-> "", committee |-> 1,
          quota |-> FALSE, amax |-> 2, top |-> FALSE, topK |-> 1,
          scale |-> [min |-> 0, max |-> 10, step |-> 1], delay |-> FALSE, mode |-> "draft"]

NoCall == [at |-> "none", body |-> Fresh, id |-> 0]

\* draft    the fields of the form;  cleared: the saved copy is gone
\* rules    availableRules;  load: the catalogue asked for
\* ran      what the effect on the rule has last seen
\* call     the creation under way;  import: a file being read
\* created  the election reported, and what it was reported as, id 0 for none
Opened(d) ==
  [draft |-> d, cleared |-> FALSE, rules |-> <<>>, load |-> TRUE,
   ran |-> <<>>, call |-> NoCall, import |-> FALSE,
   created |-> [id |-> 0, mode |-> "draft"]]

\* The effect that restores a draft ignores fewer than two candidates.
RestoredFrom(d) == [d EXCEPT !.cands = IF Len(@) >= 2 THEN @ ELSE Fresh.cands]

Init ==
  /\ api = <<>>
  /\ \E d \in Restored \cup {Fresh} : page = Opened(RestoredFrom(d))
  /\ past = [now |-> 0, events |-> 0, renders |-> 0, told |-> 0, excused |-> 0]

-----------------------------------------------------------------------------
(* What follows from the draft and the catalogue.                          *)

Count(d) == Len(d.cands)

\* effectiveApprovalMax
EffectiveMax(d, rule) ==
  Clamp(IF rule.limit > 0 THEN rule.limit ELSE d.amax, 1, Count(d))

NormalizedTopK(d) == Clamp(d.topK, 1, Count(d))

\* candidateErrors, candidatesValid
CandidatesValid(names) ==
  /\ Len(names) >= 2
  /\ \A i, j \in DOMAIN names : names[i] # "" /\ (i # j => names[i] # names[j])

\* What the effect on the rule depends on.
Seen(d, rule) == <<rule.id, d.format, d.committee, Count(d), d.quota>>

\* Mutant: the size of the committee is kept when candidates are removed.
KeepingCommittee(d, rule) == IF rule.committee THEN d.committee ELSE 1

CommitteeFor(d, rule) ==
  CASE ~rule.committee -> 1
    [] rule.committee /\ (d.committee < 1 \/ d.committee > Count(d)) -> Count(d)
    [] OTHER -> d.committee

\* Mutant: a limit of the rule is set, and reset to 1 whenever it is.
FightingMax(d, rule, new) == IF d.format = "approval" THEN (IF d.amax = 1 THEN 2 ELSE 1) ELSE d.amax

MaxFor(d, rule, new) ==
  CASE d.format = "approval" /\ rule.limit > 0 -> EffectiveMax(d, rule)
    [] d.format = "approval" /\ rule.limit = 0 /\ new /\ ~rule.approval -> 1
    [] OTHER -> d.amax

CurrentRule(p) == Find(p.rules, p.draft.rule)

\* The effect on the limits has something new to look at.
New(p) == p.ran # Seen(p.draft, CurrentRule(p))

\* What the effects make of the fields of the draft.
FormatFor(p) ==
  IF p.draft.format \in UNION {p.rules[i].formats : i \in DOMAIN p.rules} THEN p.draft.format
  ELSE CHOOSE f \in Head(p.rules).formats : TRUE

RuleFor(p) ==
  LET fitting == ForFormat(p.rules, p.draft.format)
  IN IF fitting # <<>> /\ CurrentRule(p) \notin ToSet(fitting) THEN Head(fitting).id
     ELSE p.draft.rule

NoTop(p) == p.draft.format = "ranking" /\ New(p) /\ ~CurrentRule(p).topK

ScaleFor(p) ==
  IF p.draft.format = "score" /\ New(p) /\ ~CurrentRule(p).range THEN Fresh.scale
  ELSE p.draft.scale

Refitted(p) == [p.draft EXCEPT !.format = FormatFor(p), !.rule = RuleFor(p)]

\* The effects of one render: each sees the draft of that render.
Corrected(p) ==
  CASE p.rules = <<>> -> p.draft
    [] p.rules # <<>> /\ CurrentRule(p) = NoRule -> Refitted(p)
    [] OTHER -> [Refitted(p) EXCEPT
         !.committee = CommitteeFor(p.draft, CurrentRule(p)),
         !.quota = @ /\ CurrentRule(p).quota /\ CurrentRule(p).committee,
         !.amax = MaxFor(p.draft, CurrentRule(p), New(p)),
         !.top = @ /\ ~NoTop(p),
         !.topK = IF NoTop(p) THEN 1 ELSE @,
         !.scale = ScaleFor(p)]

\* The catalogue offers approval rules for rankings too; the API then misses a
\* limit of approvals that the page does not send.
Unsendable(p) ==
  p.draft.format = "ranking" /\ CurrentRule(p).approval

Settled(p) ==
  (p.rules # <<>> => ~New(p)) /\ Corrected(p) = p.draft

-----------------------------------------------------------------------------
(* The checks of the page, and those of the API.                           *)

GeneralReady(d) ==
  d.title /\ d.period.start < d.period.end /\ d.period.end > past.now

RuleReady(p, d) ==
  LET rule == Find(p.rules, d.rule)
  IN /\ rule # NoRule /\ rule.tally /\ d.format \in rule.formats
     /\ rule.committee => d.committee >= 1
     /\ d.format = "approval" /\ rule.approval /\ rule.limit > 0 =>
          d.amax = EffectiveMax(d, rule)
     /\ d.format = "score" /\ rule.range =>
          /\ d.scale.step > 0 /\ d.scale.min <= d.scale.max
          /\ (d.scale.max - d.scale.min) % d.scale.step = 0

AccessReady(d) ==
  /\ d.mode # "open" => d.period.start > past.now
  /\ d.delay => d.period.publish > d.period.end

\* validateStep
Valid(p, target) ==
  LET d == p.draft
  IN /\ GeneralReady(d)
     /\ target >= 1 => CandidatesValid(d.cands)
     /\ target >= 2 => RuleReady(p, d)
     /\ target >= 3 => AccessReady(d)

\* The body of submit, for the parts the API looks at.  -1 stands for null.
Body(p) ==
  LET d == p.draft
      rule == CurrentRule(p)
  IN [title |-> d.title, names |-> d.cands, count |-> Count(d), rule |-> d.rule, format |-> d.format,
      start |-> IF d.mode = "open" THEN past.now ELSE d.period.start, end |-> d.period.end,
      committee |-> IF rule.committee THEN d.committee ELSE -1,
      quota |-> d.quota /\ rule.quota,
      amax |-> IF d.format = "approval" THEN EffectiveMax(d, rule) ELSE -1,
      topK |-> IF d.format = "ranking" /\ d.top THEN NormalizedTopK(d) ELSE -1,
      scale |-> IF d.format = "score" THEN d.scale ELSE NoScale,
      mode |-> d.mode]

\* Create
Accepts(rules, b) ==
  /\ b.title /\ b.start < b.end /\ CandidatesValid(b.names)
  /\ Find(rules, b.rule) # NoRule
  /\ BallotParamsValid(b) /\ Compatible(b, Find(rules, b.rule))

-----------------------------------------------------------------------------
(* Filling in the form.                                                    *)

\* Everything but the pages' answers waits for the effects.
Acting == page.draft.step <= LastStep /\ Settled(page)

Counted == [past EXCEPT !.events = @ + 1, !.renders = 0]
Event == past.events < MaxEvents /\ past' = Counted
Edit == Event /\ Acting

\* A changed draft is saved.
Typed(p, d) == [p EXCEPT !.draft = d, !.cleared = @ /\ d = p.draft]

EditGeneral ==
  /\ page.draft.step = 0 /\ Edit
  /\ \/ page' = Typed(page, [page.draft EXCEPT !.title = ~@])
     \/ \E w \in Periods : page' = Typed(page, [page.draft EXCEPT !.period = w])
  /\ UNCHANGED api

\* updateCandidate, addCandidate, removeCandidate
EditCandidates ==
  /\ page.draft.step = 1 /\ Edit
  /\ LET names == page.draft.cands
     IN \/ \E i \in DOMAIN names, n \in Names :
             page' = Typed(page, [page.draft EXCEPT !.cands[i] = n])
        \/ Len(names) < 3 /\ page' = Typed(page, [page.draft EXCEPT !.cands = Append(@, "")])
        \/ \E i \in DOMAIN names :
             /\ Len(names) > 2
             /\ page' = Typed(page, [page.draft EXCEPT !.cands = RemoveAt(@, i)])
  /\ UNCHANGED api

\* handleCandidatesFileChange; the form can be left and edited meanwhile.
ImportCandidates ==
  /\ page.draft.step = 1 /\ ~page.import /\ page.call = NoCall /\ Edit
  /\ page' = [page EXCEPT !.import = TRUE]
  /\ UNCHANGED api

ImportEnds ==
  /\ page.import
  /\ \/ \E list \in Imports :
          page' = [IF Len(list) < 2 THEN page
                   ELSE Typed(page, [page.draft EXCEPT !.cands = list]) EXCEPT !.import = FALSE]
     \/ page' = [page EXCEPT !.import = FALSE]
  /\ past' = [past EXCEPT !.renders = 0]
  /\ UNCHANGED api

\* handleTallyRuleChange
WithRule(p, id) ==
  LET rule == Find(p.rules, id)
  IN [p.draft EXCEPT !.rule = id,
        !.committee = IF rule.committee THEN Count(p.draft) ELSE 1,
        !.quota = @ /\ rule.quota]

EditRule ==
  /\ page.draft.step = 2 /\ Edit
  /\ LET rule == CurrentRule(page)
         d == page.draft
     IN \/ \E f \in UNION {page.rules[i].formats : i \in DOMAIN page.rules} :
             page' = Typed(page, [d EXCEPT !.format = f])
        \/ \E i \in DOMAIN ForFormat(page.rules, d.format) :
             page' = Typed(page, WithRule(page, ForFormat(page.rules, d.format)[i].id))
        \/ rule.committee /\ \E n \in Numbers : page' = Typed(page, [d EXCEPT !.committee = n])
        \/ rule.quota /\ page' = Typed(page, [d EXCEPT !.quota = ~@])
  /\ UNCHANGED api

\* The fields of the format; those of scores are shown whatever the rule.
EditBallot ==
  /\ page.draft.step = 2 /\ Edit
  /\ LET rule == CurrentRule(page)
         d == page.draft
     IN \/ /\ d.format = "approval" /\ rule.approval /\ rule.limit = 0
           /\ \E n \in Numbers : page' = Typed(page, [d EXCEPT !.amax = n])
        \/ d.format = "ranking" /\ rule.topK /\ page' = Typed(page, [d EXCEPT !.top = ~@])
        \/ /\ d.format = "ranking" /\ rule.topK /\ d.top
           /\ \E n \in Numbers : page' = Typed(page, [d EXCEPT !.topK = n])
        \/ d.format = "score" /\ \E s \in Scales : page' = Typed(page, [d EXCEPT !.scale = s])
  /\ UNCHANGED api

EditAccess ==
  /\ page.draft.step = 3 /\ Edit
  /\ \/ page' = Typed(page, [page.draft EXCEPT !.delay = ~@])
     \/ \E m \in {"draft", "open", "schedule"} :
          page' = Typed(page, [page.draft EXCEPT !.mode = m])
     \/ /\ page.draft.delay
        /\ \E w \in Periods :
             page' = Typed(page, [page.draft EXCEPT !.period.publish = w.publish])
  /\ UNCHANGED api

Render == past' = [past EXCEPT !.renders = 0]

\* goNext
GoNext ==
  /\ page.call = NoCall /\ page.draft.step < LastStep /\ Acting /\ Render
  /\ Valid(page, page.draft.step)
  /\ page' = Typed(page, [page.draft EXCEPT !.step = @ + 1])
  /\ UNCHANGED api

\* goBack, and goToStep from the header, which stays enabled.
GoTo ==
  /\ Acting /\ Render
  /\ \E s \in 0..LastStep :
       /\ s <= page.draft.step \/ Valid(page, s - 1)
       /\ page' = Typed(page, [page.draft EXCEPT !.step = s])
  /\ UNCHANGED api

\* resetDraft
ResetDraft ==
  /\ Edit
  /\ LET fitting == ForFormat(page.rules, "ranking")
         rule == CASE fitting # <<>> -> Head(fitting).id
                   [] fitting = <<>> /\ page.rules # <<>> -> Head(page.rules).id
                   [] OTHER -> ""
     IN page' = [Typed(page, [Fresh EXCEPT !.rule = rule, !.committee = Count(page.draft)])
                   EXCEPT !.created.id = 0]
  /\ UNCHANGED api

\* The page is left or reloaded, whatever it waits for.
Reopen ==
  /\ past.events < MaxEvents /\ Acting
  /\ page' = Opened(RestoredFrom(IF page.cleared THEN Fresh ELSE page.draft))
  /\ past' = [Counted EXCEPT
       !.excused = IF page.call.at \in {"none", "refused"} THEN @ ELSE @ + 1]
  /\ UNCHANGED api

-----------------------------------------------------------------------------
(* The catalogue and the effects.                                          *)

RulesArrive ==
  /\ page.load
  /\ \E rules \in Catalogues :
       LET id == IF Find(rules, page.draft.rule) # NoRule THEN page.draft.rule
                 ELSE Head(rules).id
       IN page' = [Typed(page, [page.draft EXCEPT !.rule = id]) EXCEPT
                     !.rules = rules, !.load = FALSE]
  /\ Render /\ UNCHANGED api

RulesFail ==
  /\ page.load /\ Event
  /\ page' = [page EXCEPT !.load = FALSE]
  /\ UNCHANGED api

\* A new token: the catalogue is asked for again, and an earlier request aborted.
Rotate ==
  /\ Event
  /\ page' = [page EXCEPT !.load = TRUE]
  /\ UNCHANGED api

Correct ==
  /\ ~Settled(page)
  /\ page' = [Typed(page, Corrected(page)) EXCEPT
                !.ran = Seen(page.draft, CurrentRule(page))]
  /\ past' = [past EXCEPT !.renders = @ + 1] /\ UNCHANGED api

-----------------------------------------------------------------------------
(* Creating the election.                                                  *)

\* Mutant: the button stays enabled while the election is created.
AlwaysPressable(p) == p.created.id = 0

Pressable(p) == p.call = NoCall /\ p.created.id = 0

\* submit
Submit ==
  /\ page.draft.step = LastStep /\ Pressable(page)
  /\ Event /\ Valid(page, 3) /\ Acting
  /\ page' = [page EXCEPT !.call = [at |-> "create", body |-> Body(page), id |-> 0],
                          !.created.id = 0]
  /\ UNCHANGED api

\* Create; the catalogue the API asks for is the one the page was given last.
ServerCreates ==
  /\ page.call.at = "create"
  /\ IF Accepts(page.rules, page.call.body)
     THEN /\ api' = Append(api, "draft")
          /\ page' = [page EXCEPT !.call.id = Len(api) + 1,
               !.call.at = IF page.call.body.mode = "draft" THEN "done" ELSE "action"]
     ELSE page' = [page EXCEPT !.call.at = "refused"] /\ UNCHANGED api
  /\ UNCHANGED past

StatusOf(mode) == CASE mode = "draft" -> "draft" [] mode = "open" -> "active"
                    [] mode = "schedule" -> "scheduled"

\* Mutant: the election created is reported before it is opened.
ToldEarly(c) == c.id # 0

Tellable(c) == c.at = "done"

\* Action, for an election this page has just created.
ServerActs ==
  /\ page.call.at = "action"
  /\ api' = [api EXCEPT ![page.call.id] = StatusOf(page.call.body.mode)]
  /\ page' = [page EXCEPT !.call.at = "done"]
  /\ UNCHANGED past

\* The draft is forgotten, and saved once more if the step was left meanwhile.
Created ==
  /\ Tellable(page.call)
  /\ page' = [page EXCEPT !.call = NoCall, !.draft.step = LastStep,
                          !.cleared = page.draft.step = LastStep,
                          !.created = [id |-> page.call.id, mode |-> page.call.body.mode]]
  /\ past' = [past EXCEPT !.told = @ + 1, !.renders = 0] /\ UNCHANGED api

\* The catch block: what has been created stays.
NotCreated ==
  /\ page.call.at \in {"refused", "lost"}
  /\ page' = [page EXCEPT !.call = NoCall]
  /\ UNCHANGED <<api, past>>

\* An answer is lost or an action refused.
Lose ==
  /\ page.call.at \in {"create", "action", "done"} /\ past.events < MaxEvents
  /\ page' = [page EXCEPT !.call = [NoCall EXCEPT !.at = "lost"]]
  /\ past' = [Counted EXCEPT !.excused = @ + 1] /\ UNCHANGED api

Tick ==
  /\ past.events < MaxEvents
  /\ past' = [Counted EXCEPT !.now = @ + 1] /\ UNCHANGED <<api, page>>

Next ==
  \/ EditGeneral \/ EditCandidates \/ ImportCandidates \/ ImportEnds \/ EditRule \/ EditBallot
  \/ EditAccess \/ GoNext \/ GoTo \/ ResetDraft \/ Reopen
  \/ RulesArrive \/ RulesFail \/ Rotate \/ Correct
  \/ Submit \/ ServerCreates \/ ServerActs \/ Created \/ NotCreated \/ Lose \/ Tick

-----------------------------------------------------------------------------
(* Properties.                                                             *)

TypeOK ==
  /\ \A i \in DOMAIN api : api[i] \in {"draft", "active", "scheduled"}
  /\ page.draft.format \in Formats /\ page.draft.committee \in Int
  /\ page.draft.step \in 0..LastStep /\ page.created.id \in 0..Len(api)
  /\ \A i \in DOMAIN page.draft.cands : page.draft.cands[i] \in Names

\* What the page lets through, its numbers being whole, the API accepts, whatever was
\* typed, restored, imported or removed before; but for rankings under an approval rule.
ReadyIsAccepted ==
  Valid(page, 3) /\ ~Unsendable(page) /\ Settled(page) => Accepts(page.rules, Body(page))

\* The election the page reports is there, in the status it is reported in, and
\* no election is there that was not reported, unless an answer got lost or the
\* page was left.
CreatedIsThere ==
  /\ page.created.id # 0 => api[page.created.id] = StatusOf(page.created.mode)
  /\ Len(api) <= past.told + past.excused + (IF page.call.id # 0 THEN 1 ELSE 0)

\* The effects agree on a draft: a change is followed by few corrections.
EffectsSettle == past.renders <= 4
=============================================================================
