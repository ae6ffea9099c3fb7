--------------------------- MODULE ElectionRulesForm ---------------------------
(***************************************************************************)
(* ElectionRulesPage in several tabs: the rules of an election that has    *)
(* not begun are loaded into a form, corrected by effects, changed and     *)
(* saved, while the election may be opened.                                *)
(*                                                                         *)
(* UpdateRules reads the election, takes over what the request leaves out, *)
(* checks the result and writes all of it, without a transaction.  Numbers *)
(* typed are whole: the page lets others through, which the API cannot     *)
(* read.                                                                   *)
(***************************************************************************)
EXTENDS Integers, FiniteSets, TallyRules

CONSTANTS
  Tabs,
  Catalogue,   \* the rules offered
  FirstRules,  \* what the election may have been created with
  Count,       \* the number of candidates
  Numbers, Scales,
  EndsAt, Times,  \* the election's end, and times of publication, -1 for none
  MaxEdits, MaxSaves, MaxEvents  \* bounds on edits, saves, reloads with lost answers

VARIABLES
  api,   \* the election: status and rules
  page,  \* the state of the tabs
  past   \* history: edits, saves, events, and writes, the saves that went through

vars == <<api, page, past>>

\* What the form holds before anything is loaded.
Blank == [rule |-> "plurality", format |-> "ranking", committee |-> 1, quota |-> FALSE,
          publish |-> -1, delay |-> FALSE, amax |-> 1, top |-> TRUE, topK |-> 1,
          scale |-> [min |-> 0, max |-> 10, step |-> 1]]

NoCall == [at |-> "none", body |-> Blank, read |-> Blank, status |-> "draft"]

\* form     the fields;  item: the election is loaded;  loading: it is being loaded
\* offered  the catalogue is loaded
\* call     the save under way
\* touched  history: the form was edited;  seen: the writes there were at the last load
Tab == [form |-> Blank, item |-> FALSE, loading |-> TRUE, offered |-> FALSE,
        call |-> NoCall, touched |-> FALSE, seen |-> 0]

Init ==
  /\ \E r \in FirstRules : api = [status |-> "draft", rules |-> r]
  /\ page = [t \in Tabs |-> Tab]
  /\ past = [edits |-> 0, saves |-> 0, events |-> 0, writes |-> 0]

Event == past.events < MaxEvents /\ past' = [past EXCEPT !.events = @ + 1]

-----------------------------------------------------------------------------
(* The form.                                                               *)

\* hydrate
Hydrated(r) ==
  [rule |-> r.rule, format |-> r.format,
   committee |-> IF r.committee = -1 THEN Count ELSE r.committee, quota |-> r.quota,
   publish |-> r.publish, delay |-> r.publish # -1,
   amax |-> IF r.amax = -1 THEN 1 ELSE r.amax,
   top |-> r.topK # -1, topK |-> IF r.topK = -1 THEN 1 ELSE r.topK,
   scale |-> IF r.scale = NoScale THEN Blank.scale ELSE r.scale]

Offered(p) == IF p.offered THEN Catalogue ELSE <<>>
RuleOf(p) == Find(Offered(p), p.form.rule)
CountOf(p) == IF p.item THEN Count ELSE 1

EffectiveMax(p) ==
  Clamp(IF RuleOf(p).limit > 0 THEN RuleOf(p).limit ELSE p.form.amax, 1, CountOf(p))

\* The effects of one render.
Corrected(p) ==
  LET f == p.form
      rule == RuleOf(p)
  IN IF rule = NoRule THEN f
     ELSE [f EXCEPT
       !.format = IF @ \in rule.formats THEN @ ELSE CHOOSE g \in rule.formats : TRUE,
       !.committee = CASE ~rule.committee -> 1
                       [] rule.committee /\ @ > CountOf(p) -> CountOf(p)
                       [] OTHER -> @,
       !.quota = @ /\ rule.quota,
       !.amax = IF f.format = "approval" /\ rule.limit > 0 THEN EffectiveMax(p) ELSE @,
       !.top = @ /\ ~(~rule.topK /\ f.format = "ranking"),
       !.topK = IF ~rule.topK /\ f.format = "ranking" THEN 1 ELSE @]

Settled(p) == Corrected(p) = p.form

\* validate
Valid(p) ==
  LET f == p.form
      rule == RuleOf(p)
  IN /\ p.item /\ rule # NoRule /\ rule.tally /\ f.format \in rule.formats
     /\ rule.committee => f.committee >= 1
     /\ f.format = "approval" /\ rule.approval /\ rule.limit > 0 => f.amax = EffectiveMax(p)
     /\ f.format = "score" /\ rule.range =>
          /\ f.scale.step > 0 /\ f.scale.min <= f.scale.max
          /\ (f.scale.max - f.scale.min) % f.scale.step = 0
     /\ f.delay => f.publish > EndsAt

\* The body of submit, -1 for what is null or left out.
Body(p) ==
  LET f == p.form
      rule == RuleOf(p)
  IN [rule |-> f.rule, format |-> f.format,
      committee |-> IF rule.committee THEN f.committee ELSE -1,
      quota |-> f.quota /\ rule.quota,
      publish |-> IF f.delay THEN f.publish ELSE -1,
      amax |-> IF f.format = "approval" THEN EffectiveMax(p) ELSE -1,
      topK |-> IF f.format = "ranking" /\ f.top THEN Clamp(f.topK, 1, CountOf(p)) ELSE -1,
      scale |-> IF f.format = "score" THEN f.scale ELSE NoScale]

Unsendable(p) == p.form.format = "ranking" /\ RuleOf(p).approval

-----------------------------------------------------------------------------
(* The API.                                                                *)

Kept(new, old) == IF new = -1 THEN old ELSE new

\* What UpdateRules makes of a request and the rules it has read: null keeps.
Merged(b, r) ==
  LET rule == Find(Catalogue, b.rule)
  IN [rule |-> b.rule, format |-> b.format, count |-> Count,
      committee |-> IF rule.committee THEN Kept(b.committee, r.committee) ELSE -1,
      quota |-> rule.quota /\ (b.quota \/ r.quota),
      publish |-> Kept(b.publish, r.publish),
      amax |-> Kept(b.amax, r.amax),
      topK |-> CASE b.format # "ranking" -> -1
                 [] b.format = "ranking" /\ Kept(b.topK, r.topK) = -1 -> -1
                 [] OTHER -> Clamp(Kept(b.topK, r.topK), 1, Count),
      scale |-> IF b.scale = NoScale THEN r.scale ELSE b.scale]

AcceptsRules(m) ==
  /\ Find(Catalogue, m.rule) # NoRule
  /\ BallotParamsValid(m) /\ Compatible(m, Find(Catalogue, m.rule))

\* Mutant: what the new format does not use stays.
WrittenAll(m) ==
  [rule |-> m.rule, format |-> m.format, committee |-> m.committee, quota |-> m.quota,
   publish |-> m.publish, amax |-> m.amax, topK |-> m.topK, scale |-> m.scale]

\* The update: what the format does not use is null.
Written(m) ==
  [rule |-> m.rule, format |-> m.format, committee |-> m.committee, quota |-> m.quota,
   publish |-> m.publish, amax |-> IF m.format = "approval" THEN m.amax ELSE -1,
   topK |-> IF m.format = "ranking" THEN m.topK ELSE -1,
   scale |-> IF m.format = "score" THEN m.scale ELSE NoScale]

-----------------------------------------------------------------------------
(* The tabs.                                                               *)

\* load
LoadEnds(t) ==
  /\ page[t].loading
  /\ page' = [page EXCEPT ![t].form = Hydrated(api.rules), ![t].item = TRUE,
       ![t].loading = FALSE, ![t].touched = FALSE, ![t].seen = past.writes]
  /\ UNCHANGED <<api, past>>

\* loadRules: asked for when the form was blank, the answer looks for that form's rule.
\* The catalogue is asked for again with each rule chosen, which brings nothing new.
RulesArrive(t) ==
  /\ ~page[t].offered
  /\ page' = [page EXCEPT ![t].offered = TRUE,
       ![t].form.rule = IF Find(Catalogue, Blank.rule) = NoRule THEN Head(Catalogue).id ELSE @]
  /\ UNCHANGED <<api, past>>

Correct(t) ==
  /\ ~Settled(page[t])
  /\ page' = [page EXCEPT ![t].form = Corrected(page[t])]
  /\ UNCHANGED <<api, past>>

\* handleTallyRuleChange
WithRule(p, rule) ==
  [p.form EXCEPT !.rule = rule.id, !.committee = IF rule.committee THEN CountOf(p) ELSE 1,
                 !.quota = @ /\ rule.quota]

\* What a person can make of the form.
Edits(p) ==
  LET f == p.form
      rule == RuleOf(p)
      ranks == f.format = "ranking" /\ rule.topK
  IN {WithRule(p, Offered(p)[i]) : i \in DOMAIN Offered(p)}
     \cup {[f EXCEPT !.format = g] : g \in rule.formats}
     \cup {[f EXCEPT !.committee = n] : n \in IF rule.committee THEN Numbers ELSE {}}
     \cup {[f EXCEPT !.quota = ~f.quota] : x \in IF rule.quota THEN {1} ELSE {}}
     \cup {[f EXCEPT !.delay = ~f.delay]}
     \cup {[f EXCEPT !.publish = n] : n \in IF f.delay THEN Times \ {-1} ELSE {}}
     \cup {[f EXCEPT !.top = ~f.top] : x \in IF ranks THEN {1} ELSE {}}
     \cup {[f EXCEPT !.topK = n] : n \in IF ranks /\ f.top THEN Numbers ELSE {}}
     \cup {[f EXCEPT !.scale = s] : s \in IF f.format = "score" THEN Scales ELSE {}}

Edit(t) ==
  /\ page[t].item /\ Settled(page[t])
  /\ past.edits < MaxEdits /\ past' = [past EXCEPT !.edits = @ + 1]
  /\ \E new \in Edits(page[t]) : page' = [page EXCEPT ![t].form = new, ![t].touched = TRUE]
  /\ UNCHANGED api

Refresh(t) ==
  /\ ~page[t].loading /\ page[t].call = NoCall /\ Event
  /\ page' = [page EXCEPT ![t].loading = TRUE]
  /\ UNCHANGED api

\* submit
Save(t) ==
  /\ Settled(page[t]) /\ Valid(page[t]) /\ page[t].call = NoCall /\ ~page[t].loading
  /\ past.saves < MaxSaves /\ past' = [past EXCEPT !.saves = @ + 1]
  /\ page' = [page EXCEPT ![t].call = [NoCall EXCEPT !.at = "sent", !.body = Body(page[t])]]
  /\ UNCHANGED api

ServerReads(t) ==
  /\ page[t].call.at = "sent"
  /\ page' = [page EXCEPT ![t].call.read = api.rules, ![t].call.status = api.status,
                          ![t].call.at = "read"]
  /\ UNCHANGED <<api, past>>

Editable == {"draft", "scheduled"}

ServerWrites(t) ==
  LET m == Merged(page[t].call.body, page[t].call.read)
  IN /\ page[t].call.at = "read"
     /\ IF page[t].call.status \in Editable /\ AcceptsRules(m)
        THEN /\ api' = [api EXCEPT !.rules = Written(m)]
             /\ page' = [page EXCEPT ![t].call.at = "saved"]
             /\ past' = [past EXCEPT !.writes = @ + 1]
        ELSE page' = [page EXCEPT ![t].call.at = "refused"] /\ UNCHANGED <<api, past>>

\* Saved: the page loads again and then enables its button.
SaveEnds(t) ==
  /\ page[t].call.at \in {"saved", "refused", "lost"}
  /\ page' = [page EXCEPT ![t].call = NoCall,
                          ![t].loading = @ \/ page[t].call.at = "saved"]
  /\ UNCHANGED <<api, past>>

SaveLost(t) ==
  /\ page[t].call.at \in {"sent", "saved"} /\ Event
  /\ page' = [page EXCEPT ![t].call = [NoCall EXCEPT !.at = "lost"]]
  /\ UNCHANGED api

\* Another page opens the election.
Open ==
  /\ api.status \in Editable
  /\ api' = [api EXCEPT !.status = "active"]
  /\ UNCHANGED <<page, past>>

Next ==
  \/ \E t \in Tabs :
       \/ LoadEnds(t) \/ RulesArrive(t) \/ Correct(t) \/ Edit(t) \/ Refresh(t)
       \/ Save(t) \/ ServerReads(t) \/ ServerWrites(t) \/ SaveEnds(t) \/ SaveLost(t)
  \/ Open

-----------------------------------------------------------------------------
(* Properties.                                                             *)

TypeOK ==
  /\ api.status \in {"draft", "active"} /\ api.rules.format \in Formats
  /\ \A t \in Tabs : page[t].form.format \in Formats /\ page[t].form.publish \in Times
                     /\ (page[t].call.at = "saved" => page[t].item)

Openable(r) ==
  AcceptsRules([rule |-> r.rule, format |-> r.format, count |-> Count,
                committee |-> r.committee, quota |-> r.quota, amax |-> r.amax,
                topK |-> r.topK, scale |-> r.scale])

\* What UpdateRules has accepted, Action accepts when the election is opened.
SavedIsOpenable == Openable(api.rules)

\* However saves overlap, the rules on record go together: Action and the tally find
\* what they ask for, and nothing of another format; but for rankings under an
\* approval rule, whose limit is checked and then not written.
StoredIsSound ==
  LET r == api.rules
  IN /\ Openable(r) \/ (r.format = "ranking" /\ Find(Catalogue, r.rule).approval)
     /\ (r.format = "approval") = (r.amax # -1)
     /\ (r.format = "score") = (r.scale # NoScale)

\* Saving a form that was loaded and not touched changes nothing.
UntouchedKeepsRules ==
  \A t \in Tabs :
    LET p == page[t]
    IN Settled(p) /\ Valid(p) /\ ~p.touched /\ ~p.loading /\ p.seen = past.writes =>
         Written(Merged(Body(p), api.rules)) = api.rules

\* What the page lets through, its numbers being whole, is refused only if the election
\* has begun, or for rankings under an approval rule.
ReadyIsAccepted ==
  \A t \in Tabs : Settled(page[t]) /\ Valid(page[t]) /\ ~Unsendable(page[t]) =>
    AcceptsRules(Merged(Body(page[t]), api.rules))

\* PUT /elections/{id}/rules: "Rules can be updated only in allowed statuses".
RulesChangeOnlyWhileEditable == api'.rules # api.rules => api.status \in Editable
=============================================================================
