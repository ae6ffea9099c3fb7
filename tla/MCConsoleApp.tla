------------------------------ MODULE MCConsoleApp -----------------------------
(***************************************************************************)
(* What organizers, administrators and researchers use, one component per  *)
(* behaviour, as in MCVoterApp.                                            *)
(***************************************************************************)
EXTENDS Integers, FiniteSets, Sequences

VARIABLES route, page, api, calls, past
vars == <<route, page, api, calls, past>>

-----------------------------------------------------------------------------
EmailOfText == [a |-> "a", A |-> "a", b |-> "b", new |-> "new", x |-> "x", blank |-> "x"]
InviteLists == {<<"a", "x", "A">>, <<"blank", "b", "a", "new">>}

Desk == INSTANCE InviteDesk WITH
          Desks <- {"left", "right"}, Tabs <- {"v", "w"},
          Texts <- {"a", "A", "b", "new", "x", "blank"}, Emails <- {"a", "b", "new", "x"},
          EmailOf <- EmailOfText, Valid <- {"a", "A", "b", "new"}, Blank <- {"blank"},
          Registered <- {"a", "b"}, Lists <- InviteLists, MaxOrders <- 3, MaxEvents <- 1
Screens == INSTANCE ElectionScreens WITH
             Cards <- {"card", "guest"}, Panels <- {"panel"}, Others <- {"guest"},
             MaxPresses <- 2

Rule(id, formats, quota, approval, limit) ==
  [id |-> id, formats |-> formats, tally |-> TRUE, committee |-> TRUE, quota |-> quota,
   approval |-> approval, topK |-> ~approval /\ formats = {"ranking"},
   range |-> formats = {"score"}, limit |-> limit]
Borda == Rule("borda", {"ranking"}, FALSE, FALSE, 0)
Plurality == Rule("plurality", {"ranking"}, FALSE, FALSE, 0)
Hare == Rule("hare", {"ranking"}, TRUE, FALSE, 0)
Approval(n) == Rule(IF n = 2 THEN "approval-2" ELSE "approval-3",
                    {"ranking", "approval"}, FALSE, TRUE, n)
Score == Rule("score", {"score"}, FALSE, FALSE, 0)

Period(s, e, p) == [start |-> s, end |-> e, publish |-> p]
Scale(a, b, c) == [min |-> a, max |-> b, step |-> c]

\* What an earlier visit may have left: a draft filled in to one of its last steps.
LeftAt(step, format, rule, committee, quota, amax, mode) ==
  [step |-> step, title |-> TRUE, period |-> Period(1, 3, 4), cands |-> <<"a", "b", "c">>,
   format |-> format, rule |-> rule, committee |-> committee, quota |-> quota, amax |-> amax,
   top |-> TRUE, topK |-> 3, scale |-> Scale(0, 10, 1), delay |-> TRUE, mode |-> mode]
DraftsLeft == {LeftAt(4, "ranking", "hare", 3, TRUE, 2, "draft"),
               LeftAt(4, "approval", "approval-3", 1, FALSE, 3, "open"),
               LeftAt(3, "ranking", "hare", 3, TRUE, 2, "draft")}

DraftCatalogues == {<<Borda, Hare, Approval(2), Approval(3), Score>>, <<Approval(3), Score>>}
NamesRead == {<<"a">>, <<"a", "c">>}
DraftScales == {Scale(0, 10, 1), Scale(0, 10, 3), Scale(5, 0, 1), Scale(0, 4, 0)}
DraftPeriods == {Period(1, 3, 4), Period(3, 1, 4), Period(0, 2, 2)}

Draft == INSTANCE ElectionDraft WITH
           Catalogues <- DraftCatalogues, Restored <- DraftsLeft,
           Names <- {"", "a", "b", "c"}, Imports <- NamesRead, Numbers <- {0, 2, 5},
           Scales <- DraftScales, Periods <- DraftPeriods, MaxEvents <- 3

NoRange == Scale(-1, -1, -1)
Stored(rule, format, quota, amax, topK, scale) ==
  [rule |-> rule, format |-> format, committee |-> 2, quota |-> quota, publish |-> -1,
   amax |-> amax, topK |-> topK, scale |-> scale]

RulesOffered == <<Plurality, Hare, Approval(2), Score>>
RulesAtFirst == {Stored("hare", "ranking", TRUE, -1, 2, NoRange),
                 Stored("approval-2", "approval", FALSE, 2, -1, NoRange)}

Rules == INSTANCE ElectionRulesForm WITH
           Tabs <- {"left", "right"}, Catalogue <- RulesOffered, FirstRules <- RulesAtFirst,
           Count <- 2, Numbers <- {5},
           Scales <- {Scale(5, 0, 1)}, EndsAt <- 1, Times <- {-1, 2},
           MaxEdits <- 1, MaxSaves <- 2, MaxEvents <- 1

RunOf == [r |-> "x", t |-> "y"]
OneQueued == [r |-> "queued", t |-> "done"]
OneToCreate == [r |-> "done", t |-> "absent"]
BothDone == [r |-> "done", t |-> "done"]

\* Once for the lists and the announcements, once for cards and results.
RunList == INSTANCE ExperimentRuns WITH
             Runs <- {"r", "t"}, Experiments <- {"x", "y"}, ExperimentOf <- RunOf,
             First <- OneQueued, Autos <- {"none"},
             MaxAnswers <- 2, MaxLoads <- 3, MaxOpens <- 0
RunCards == INSTANCE ExperimentRuns WITH
              Runs <- {"r", "t"}, Experiments <- {"x", "y"}, ExperimentOf <- RunOf,
              First <- BothDone, Autos <- {"r"},
              MaxAnswers <- 0, MaxLoads <- 1, MaxOpens <- 2
RunBatch == INSTANCE ExperimentRuns WITH
              Runs <- {"r", "t"}, Experiments <- {"x", "y"}, ExperimentOf <- RunOf,
              First <- OneToCreate, Autos <- {"none"},
              MaxAnswers <- 1, MaxLoads <- 2, MaxOpens <- 0

Dataset(format, count, limit) == [format |-> format, count |-> count, limit |-> limit]
Given == [r |-> Dataset("ranking", 3, 0), a |-> Dataset("approval", 2, 0),
          g |-> Dataset("ranking", 2, 2), i |-> Dataset("score", 3, 0),
          e |-> Dataset("approval", 3, 3)]
RunRule(id, formats) == [id |-> id, formats |-> formats, runs |-> id # "manual"]

MadeAs == [r |-> "import", a |-> "import", i |-> "import", g |-> "generate",
           e |-> "election"]
RunRules == <<RunRule("borda", {"ranking"}), RunRule("manual", {"ranking"}),
              RunRule("approval", {"ranking", "approval"}), RunRule("score", {"score"})>>

Sets == INSTANCE Datasets WITH
          Data <- Given, There <- {"r", "a"}, KindOf <- MadeAs, Catalogue <- RunRules,
          Numbers <- {1, 3}, MaxEvents <- 4

\* In halves.
PlanData == [r |-> Dataset("ranking", 6, 4), a |-> Dataset("approval", 4, 4)]
Polls == [e |-> Dataset("score", 4, 0), f |-> Dataset("ranking", 6, 0)]
PlanNumbers == {0, 3, 8}
PlanScales == {Scale(10, 0, 2), Scale(0, 3, 3)}
PlanRules == <<Borda, Hare, Approval(2), Score>>

Plan == INSTANCE ExperimentDraft WITH
          Data <- PlanData, Elections <- Polls, Catalogue <- PlanRules,
          Numbers <- PlanNumbers, Scales <- PlanScales, MaxEvents <- 3

Init ==
  \/ route = "plan" /\ Plan!Init /\ calls = <<>>
  \/ route = "data" /\ Sets!Init /\ calls = <<>>
  \/ route = "batch" /\ RunBatch!Init /\ calls = <<>>
  \/ route = "runs" /\ RunList!Init /\ calls = <<>>
  \/ route = "cards" /\ RunCards!Init /\ calls = <<>>
  \/ route = "rules" /\ Rules!Init /\ calls = <<>>
  \/ route = "draft" /\ Draft!Init /\ calls = <<>>
  \/ route = "invites" /\ Desk!Init /\ calls = <<>>
  \/ route = "screens" /\ Screens!Init /\ calls = <<>>

Next ==
  /\ UNCHANGED route
  /\ \/ route = "invites" /\ Desk!Next /\ UNCHANGED calls
     \/ route = "draft" /\ Draft!Next /\ UNCHANGED calls
     \/ route = "rules" /\ Rules!Next /\ UNCHANGED calls
     \/ route = "runs" /\ RunList!Next /\ UNCHANGED calls
     \/ route = "batch" /\ RunBatch!Next /\ UNCHANGED calls
     \/ route = "cards" /\ RunCards!Next /\ UNCHANGED calls
     \/ route = "data" /\ Sets!Next /\ UNCHANGED calls
     \/ route = "plan" /\ Plan!Next /\ UNCHANGED calls
     \/ route = "screens" /\ Screens!Next /\ UNCHANGED calls

Spec == Init /\ [][Next]_vars
-----------------------------------------------------------------------------
(* Properties.                                                             *)

\* The types of every component.
TypeOK ==
  /\ route = "invites" => Desk!TypeOK
  /\ route = "screens" => Screens!TypeOK
  /\ route = "draft" => Draft!TypeOK
  /\ route = "rules" => Rules!TypeOK
  /\ route = "runs" => RunList!TypeOK
  /\ route = "cards" => RunCards!TypeOK
  /\ route = "batch" => RunBatch!TypeOK
  /\ route = "data" => Sets!TypeOK
  /\ route = "plan" => Plan!TypeOK

\* What a page reports as done, the API has done: invitations that are on record,
\* actions that were carried out for this page.
ReportsAreTrue ==
  /\ route = "invites" => Desk!CreatedIsOnRecord /\ Desk!AcceptedOnce
  /\ route = "screens" => Screens!ToldWasDone
  /\ route = "draft" => Draft!CreatedIsThere
  /\ route = "data" => Sets!ReportedIsThere
  /\ route = "plan" => Plan!ReportedIsThere

\* What a page offers the API accepts: an action of a card is out of place only when the
\* election has moved on since, and a form of whole numbers that passes the page's checks
\* passes the API's.
OfferedIsAccepted ==
  /\ route = "screens" => Screens!CardRefusedOnlyIfStale
  /\ route = "draft" => Draft!ReadyIsAccepted
  /\ route = "rules" => Rules!ReadyIsAccepted
  /\ route = "plan" => Plan!ReadyIsAccepted

\* With nothing under way, and nothing lost or aborted by a filter, a page shows what was
\* asked for last: the list of the filter chosen, unless it is that of a batch ordered
\* under another one, the card and the result of the run opened.
ShownAnswersQuestion ==
  /\ route = "runs" => RunList!ListAnswersFilter
  /\ route = "batch" => RunBatch!ListAnswersFilter
  /\ route = "cards" => RunCards!CardIsOfLastRun
  /\ route = "data" => Sets!CardIsOfLastAsked

\* What ends is announced once, and the tables the announcements go by agree.
AnnouncedOnce ==
  /\ route = "runs" => RunList!AnnouncedOnce /\ RunList!JobEndsWithRun
  /\ route = "batch" => RunBatch!AnnouncedOnce /\ RunBatch!JobEndsWithRun

\* What a run is created for suits its dataset, which the API does not check, and has its
\* experiment.
RunsFitTheirDataset ==
  /\ route = "data" => Sets!RunsFitTheirDataset /\ Sets!EachRunHasItsExperiment
  /\ route = "plan" => Plan!RunsSuitTheirRule /\ Plan!RunsFitTheirSource

\* A list of invitations is summed up without a gap but its blank entries, lost answers
\* included.
SummaryIsComplete == route = "invites" => Desk!SummaryIsComplete

\* The rules on record go together however saves overlap, and a save of a form that
\* was not touched leaves them as they are.
RulesStaySound ==
  route = "rules" => Rules!StoredIsSound /\ Rules!UntouchedKeepsRules

\* The corrections a form makes to itself come to an end.
FormsSettle ==
  /\ route = "draft" => Draft!EffectsSettle
  /\ route = "plan" => Plan!EffectsSettle

\* A page of an election never goes back to a status it has left behind.
ShownMovesForward == [][route = "screens" => Screens!ShownMovesForward]_vars
=============================================================================
