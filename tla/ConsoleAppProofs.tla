---------------------------- MODULE ConsoleAppProofs ----------------------------
(***************************************************************************)
(* What the run of MCConsoleApp checks, proved of the suite: the lemmas of *)
(* ConsolePagesProofs, ResearchPagesProofs and RunsPageProofs, which hold  *)
(* for any pages, lists and bounds, at the values MCConsoleApp gives them. *)
(* The suite's invariant is that of the page the route shows.              *)
(***************************************************************************)
EXTENDS MCConsoleApp, TLAPS

Pages == INSTANCE ConsolePagesProofs WITH
           Cards <- {"card", "guest"}, Panels <- {"panel"}, Others <- {"guest"},
           MaxPresses <- 2,
           Runs <- {"r", "t"}, Experiments <- {"x", "y"}, ExperimentOf <- RunOf,
           First <- OneQueued, Autos <- {"none"},
           MaxAnswers <- 2, MaxLoads <- 3, MaxOpens <- 0,
           Desks <- {"left", "right"}, Tabs <- {"v", "w"},
           Texts <- {"a", "A", "b", "new", "x", "blank"}, Emails <- {"a", "b", "new", "x"},
           EmailOf <- EmailOfText, Valid <- {"a", "A", "b", "new"}, Blank <- {"blank"},
           Registered <- {"a", "b"}, Lists <- InviteLists, MaxOrders <- 3, DeskEvents <- 1,
           FormTabs <- {"left", "right"}, Offers <- RulesOffered, FirstRules <- RulesAtFirst,
           Count <- 2, FormNumbers <- {5}, FormScales <- {Scale(5, 0, 1)}, EndsAt <- 1,
           Times <- {-1, 2}, MaxEdits <- 1, MaxSaves <- 2, FormEvents <- 1,
           DraftCatalogues <- DraftCatalogues, DraftsLeft <- DraftsLeft,
           DraftNames <- {"", "a", "b", "c"}, DraftImports <- NamesRead,
           DraftNumbers <- {0, 2, 5}, DraftScales <- DraftScales,
           DraftPeriods <- DraftPeriods, DraftEvents <- 3
Study == INSTANCE ResearchPagesProofs WITH
                Runs <- {"r", "t"}, Experiments <- {"x", "y"}, ExperimentOf <- RunOf,
                First <- OneQueued, Autos <- {"none"},
                MaxAnswers <- 2, MaxLoads <- 3, MaxOpens <- 0,
                Data <- Given, There <- {"r", "a"}, KindOf <- MadeAs,
                RunRules <- RunRules, SetNumbers <- {1, 3}, SetEvents <- 4,
                PlanData <- PlanData, Polls <- Polls, PlanRules <- PlanRules,
                PlanNumbers <- PlanNumbers, PlanScales <- PlanScales, PlanEvents <- 3
BatchPages == INSTANCE RunsPageProofs WITH
                Runs <- {"r", "t"}, Experiments <- {"x", "y"}, ExperimentOf <- RunOf,
                First <- OneToCreate, Autos <- {"none"},
                MaxAnswers <- 1, MaxLoads <- 2, MaxOpens <- 0
CardPages == INSTANCE RunsPageProofs WITH
               Runs <- {"r", "t"}, Experiments <- {"x", "y"}, ExperimentOf <- RunOf,
               First <- BothDone, Autos <- {"r"},
               MaxAnswers <- 0, MaxLoads <- 1, MaxOpens <- 2

-----------------------------------------------------------------------------
(* The values of the suite are such as the pages' lemmas ask for.          *)

LEMMA RunValues ==
  Pages!RunParameters /\ BatchPages!RunParameters /\ CardPages!RunParameters
<1>1. Pages!RunParameters BY SMTT(60), ZenonT(60) DEF Pages!RunParameters, OneQueued
<1>2. BatchPages!RunParameters BY SMTT(60), ZenonT(60) DEF BatchPages!RunParameters,
   OneToCreate
<1>3. CardPages!RunParameters BY SMTT(60), ZenonT(60) DEF CardPages!RunParameters, BothDone
<1> QED BY <1>1, <1>2, <1>3

LEMMA DeskValues == Pages!DeskParameters
<1> DEFINE T == {"a", "A", "b", "new", "x", "blank"}
<1>1. EmailOfText \in [T -> {"a", "b", "new", "x"}] BY SMTT(60), ZenonT(60) DEF EmailOfText
<1>2. InviteLists \subseteq Seq(T)
  <2>1. /\ "a" \in T /\ "A" \in T /\ "b" \in T /\ "new" \in T /\ "x" \in T
        /\ "blank" \in T
    OBVIOUS
  <2> HIDE DEF T
  <2>2. <<"a", "x", "A">> \in Seq(T) /\ <<"blank", "b", "a", "new">> \in Seq(T) BY <2>1
  <2> QED BY <2>2 DEF InviteLists
<1> QED BY <1>1, <1>2 DEF Pages!DeskParameters

LEMMA SetValues == Study!SetParameters
<1> DEFINE D == [format : {"approval", "ranking", "score"}, count : Nat, limit : Nat]
<1>1. /\ Given.r \in D /\ Given.a \in D /\ Given.g \in D /\ Given.i \in D /\ Given.e \in D
      /\ DOMAIN Given = {"r", "a", "g", "i", "e"} /\ Given = [x \in DOMAIN Given |-> Given[x]]
  BY DEF Given, Dataset
<1>2. Given \in [DOMAIN Given -> D] BY <1>1
<1>3. \E S : RunRules \in Seq(S)
  <2> DEFINE a == RunRule("borda", {"ranking"})
             b == RunRule("manual", {"ranking"})
             c == RunRule("approval", {"ranking", "approval"})
             d == RunRule("score", {"score"})
  <2>1. RunRules = <<a, b, c, d>> BY DEF RunRules
  <2> HIDE DEF a, b, c, d
  <2>2. <<a, b, c, d>> \in Seq({a, b, c, d}) BY SMTT(60), ZenonT(60)
  <2> QED BY <2>1, <2>2
<1>4. "none" \notin DOMAIN Given /\ {"r", "a"} \subseteq DOMAIN Given BY <1>1
<1> HIDE DEF D
<1> QED BY <1>2, <1>3, <1>4, SMTT(60), ZenonT(60)
    DEF Study!SetParameters, Study!DataIds, Study!DataFormats, D

\* The rules of the suite.
SuiteRules == {Borda, Plurality, Hare, Approval(2), Approval(3), Score}

LEMMA SuiteRulesAre ==
  /\ Borda = [id |-> "borda", formats |-> {"ranking"}, tally |-> TRUE, committee |-> TRUE,
              quota |-> FALSE, approval |-> FALSE, topK |-> TRUE, range |-> FALSE, limit |-> 0]
  /\ Plurality = [id |-> "plurality", formats |-> {"ranking"}, tally |-> TRUE,
                  committee |-> TRUE, quota |-> FALSE, approval |-> FALSE, topK |-> TRUE,
                  range |-> FALSE, limit |-> 0]
  /\ Hare = [id |-> "hare", formats |-> {"ranking"}, tally |-> TRUE, committee |-> TRUE,
             quota |-> TRUE, approval |-> FALSE, topK |-> TRUE, range |-> FALSE, limit |-> 0]
  /\ Approval(2) = [id |-> "approval-2", formats |-> {"ranking", "approval"}, tally |-> TRUE,
                    committee |-> TRUE, quota |-> FALSE, approval |-> TRUE, topK |-> FALSE,
                    range |-> FALSE, limit |-> 2]
  /\ Approval(3) = [id |-> "approval-3", formats |-> {"ranking", "approval"}, tally |-> TRUE,
                    committee |-> TRUE, quota |-> FALSE, approval |-> TRUE, topK |-> FALSE,
                    range |-> FALSE, limit |-> 3]
  /\ Score = [id |-> "score", formats |-> {"score"}, tally |-> TRUE, committee |-> TRUE,
              quota |-> FALSE, approval |-> FALSE, topK |-> FALSE, range |-> TRUE, limit |-> 0]
<1>1. /\ ({"ranking"} = {"ranking"}) = TRUE /\ ({"ranking"} = {"score"}) = FALSE
      /\ ({"ranking", "approval"} = {"score"}) = FALSE /\ ({"score"} = {"score"}) = TRUE
      /\ ({"score"} = {"ranking"}) = FALSE /\ 3 # 2
  OBVIOUS
<1> QED BY <1>1, Zenon DEF Borda, Plurality, Hare, Approval, Score, Rule

LEMMA SuiteRulesFit ==
  /\ /\ Borda.id = "borda" /\ Plurality.id = "plurality" /\ Hare.id = "hare"
     /\ Approval(2).id = "approval-2" /\ Approval(3).id = "approval-3" /\ Score.id = "score"
  /\ \A x \in SuiteRules :
       /\ x.formats \subseteq {"approval", "ranking", "score"} /\ x.formats # {}
       /\ x.limit \in Nat /\ x.committee /\ x.id # "none"
       /\ x.approval => "score" \notin x.formats
       /\ x.range => x.formats = {"score"}
       /\ "score" \in x.formats => x.range
       /\ "ranking" \in x.formats /\ ~x.approval => x.topK
BY SuiteRulesAre, SMTT(60) DEF SuiteRules

\* Places in the lists of rules.
LEMMA SuiteLists ==
  ASSUME NEW a, NEW b, NEW c, NEW d, NEW e
  PROVE  /\ DOMAIN <<a, b, c, d, e>> = 1..5 /\ DOMAIN <<a, b, c, d>> = 1..4
         /\ DOMAIN <<d, e>> = 1..2
         /\ {<<a, b, c, d, e>>[i] : i \in 1..5} = {a, b, c, d, e}
         /\ {<<a, b, c, d>>[i] : i \in 1..4} = {a, b, c, d}
         /\ {<<d, e>>[i] : i \in 1..2} = {d, e}
BY SMTT(60)

LEMMA FormValues == Pages!FormParameters
<1> DEFINE a == Plurality
           b == Hare
           c == Approval(2)
           d == Score
           yes == TRUE
           no == FALSE
           r == [rule |-> "hare", format |-> "ranking", committee |-> 2, quota |-> yes,
                 publish |-> -1, amax |-> -1, topK |-> 2, scale |-> NoRange]
           w == [rule |-> "approval-2", format |-> "approval", committee |-> 2, quota |-> no,
                 publish |-> -1, amax |-> 2, topK |-> -1, scale |-> NoRange]
<1>1. /\ RulesOffered = <<a, b, c, d>> /\ {a, b, c, d} \subseteq SuiteRules
      /\ a.id = "plurality" /\ b.id = "hare" /\ c.id = "approval-2" /\ d.id = "score"
  BY SuiteRulesFit DEF RulesOffered, SuiteRules
<1>2. /\ b.tally /\ "ranking" \in b.formats /\ b.committee /\ b.quota /\ b.topK
      /\ c.tally /\ "approval" \in c.formats /\ c.committee /\ c.limit = 2
  BY SuiteRulesAre
<1>3. RulesAtFirst = {r, w} BY Zenon DEF RulesAtFirst, Stored
<1>4. yes \in Pages!Flag /\ no \in Pages!Flag BY Zenon DEF Pages!Flag
<1> HIDE DEF a, b, c, d, yes, no
<1>5. Pages!OfferSet = {a, b, c, d} BY <1>1, SuiteLists DEF Pages!OfferSet
<1>6. /\ NoRange \in Pages!ScaleSet /\ NoRange = Pages!Form!NoScale
      /\ Scale(5, 0, 1) \in Pages!ScaleSet
      /\ "plurality" \in Pages!OfferNames /\ "hare" \in Pages!OfferNames
      /\ "approval-2" \in Pages!OfferNames
  BY <1>1, <1>5 DEF NoRange, Scale, Pages!ScaleSet, Pages!Form!NoScale, Pages!OfferNames
<1>7. r \in Pages!StoredRules /\ w \in Pages!StoredRules
  BY <1>4, <1>6, SMTT(60) DEF Pages!StoredRules, Pages!TallyFormats
<1>8. /\ r.rule = "hare" /\ r.format = "ranking" /\ r.committee = 2 /\ r.amax = -1
      /\ r.topK = 2 /\ r.scale = NoRange
      /\ w.rule = "approval-2" /\ w.format = "approval" /\ w.committee = 2 /\ w.quota = no
      /\ w.amax = 2 /\ w.topK = -1 /\ w.scale = NoRange
  OBVIOUS
<1> HIDE DEF r, w
<1>9. Pages!Named(r) = b /\ Pages!Named(w) = c
  <2>1. /\ DOMAIN RulesOffered = 1..4 /\ RulesOffered[1] = a /\ RulesOffered[2] = b
        /\ RulesOffered[3] = c /\ RulesOffered[4] = d
    BY <1>1
  <2> QED BY <1>1, <1>8, <2>1, SMTT(60) DEF Pages!Named, Pages!Form!Find
<1>10. Pages!LimitOK(r) /\ Pages!LimitOK(w)
  BY <1>2, <1>8, <1>9 DEF Pages!LimitOK, Pages!Form!Clamp
<1>11. Pages!StoredOK(r) /\ Pages!StoredOK(w)
  <2>1. ~no BY Zenon DEF no
  <2> QED BY <1>2, <1>6, <1>8, <1>9, <1>10, <2>1, SMTT(60) DEF Pages!StoredOK
<1>12. \A x \in Pages!OfferSet :
         /\ x.formats \subseteq Pages!TallyFormats /\ x.formats # {} /\ x.limit \in Nat
         /\ x.approval => "score" \notin x.formats
         /\ x.range => x.formats = {"score"}
         /\ "score" \in x.formats => x.range
         /\ "ranking" \in x.formats /\ ~x.approval => x.topK
  BY <1>1, <1>5, SuiteRulesFit DEF Pages!TallyFormats
<1>13. /\ 2 \in Nat \ {0} /\ -1 \in {-1, 2} /\ {-1, 2} \subseteq Int /\ {5} \subseteq Int
       /\ {Scale(5, 0, 1)} \subseteq Pages!ScaleSet
       /\ RulesAtFirst \subseteq Pages!StoredRules
       /\ \A x \in RulesAtFirst : Pages!StoredOK(x)
  BY <1>3, <1>6, <1>7, <1>11
<1> QED BY <1>6, <1>12, <1>13, Zenon DEF Pages!FormParameters

LEMMA DraftValues == Pages!DraftParameters
<1> DEFINE a == Borda
           b == Hare
           c == Approval(2)
           d == Approval(3)
           e == Score
           R == {a, b, c, d, e}
<1>1. /\ DraftCatalogues = {<<a, b, c, d, e>>, <<d, e>>}
      /\ R \subseteq SuiteRules
      /\ a.id = "borda" /\ b.id = "hare" /\ c.id = "approval-2" /\ d.id = "approval-3"
      /\ e.id = "score"
  BY SuiteRulesFit DEF DraftCatalogues, SuiteRules
<1> HIDE DEF a, b, c, d, e
<1>2. Pages!DraftRuleSet = R BY <1>1, SuiteLists DEF Pages!DraftRuleSet
<1>3. \A w \in DraftCatalogues :
        /\ w \in Seq(R) /\ w # <<>>
        /\ \A i, j \in DOMAIN w : w[i].id = w[j].id => i = j
  <2>1. <<a, b, c, d, e>> \in Seq(R) /\ <<d, e>> \in Seq(R) OBVIOUS
  <2>2. ASSUME NEW w, w = <<a, b, c, d, e>>
        PROVE  w # <<>> /\ \A i, j \in DOMAIN w : w[i].id = w[j].id => i = j
    <3>1. DOMAIN w = 1..5 /\ w[1] = a /\ w[2] = b /\ w[3] = c /\ w[4] = d /\ w[5] = e BY <2>2
    <3> QED BY <1>1, <3>1
  <2>3. ASSUME NEW w, w = <<d, e>>
        PROVE  w # <<>> /\ \A i, j \in DOMAIN w : w[i].id = w[j].id => i = j
    <3>1. DOMAIN w = 1..2 /\ w[1] = d /\ w[2] = e BY <2>3
    <3> QED BY <1>1, <3>1
  <2> QED BY <1>1, <2>1, <2>2, <2>3
<1>4. DraftsLeft \subseteq Pages!DraftFields
  <2> DEFINE yes == TRUE
             no == FALSE
             N == {"", "a", "b", "c"}
             p == Period(1, 3, 4)
             z == Scale(0, 10, 1)
             left(t, f, r, k, q, m, o) ==
               [step |-> t, title |-> yes, period |-> p, cands |-> <<"a", "b", "c">>,
                format |-> f, rule |-> r, committee |-> k, quota |-> q, amax |-> m,
                top |-> yes, topK |-> 3, scale |-> z, delay |-> yes, mode |-> o]
  <2>1. DraftsLeft = {left(4, "ranking", "hare", 3, yes, 2, "draft"),
                      left(4, "approval", "approval-3", 1, no, 3, "open"),
                      left(3, "ranking", "hare", 3, yes, 2, "draft")}
    BY Zenon DEF DraftsLeft, LeftAt
  <2>2. yes \in Pages!Flag /\ no \in Pages!Flag BY Zenon DEF Pages!Flag
  <2>3. /\ "a" \in N /\ "b" \in N /\ "c" \in N
        /\ p \in Pages!DraftPeriodSet /\ z \in Pages!DraftScaleSet
        /\ "hare" \in Pages!DraftIds /\ "approval-3" \in Pages!DraftIds
        /\ "ranking" \in Pages!DraftFormats /\ "approval" \in Pages!DraftFormats
        /\ "draft" \in Pages!DraftModes /\ "open" \in Pages!DraftModes
    BY <1>1, <1>2 DEF Period, Scale, Pages!DraftPeriodSet, Pages!DraftScaleSet,
                      Pages!DraftIds, Pages!DraftFormats, Pages!DraftModes
  <2>4. Pages!DraftFields =
          [step : 0..4, title : Pages!Flag, period : Pages!DraftPeriodSet, cands : Seq(N),
           format : Pages!DraftFormats, rule : Pages!DraftIds, committee : Int,
           quota : Pages!Flag, amax : Int, top : Pages!Flag, topK : Int,
           scale : Pages!DraftScaleSet, delay : Pages!Flag, mode : Pages!DraftModes]
    BY Zenon DEF Pages!DraftFields
  <2> HIDE DEF yes, no, p, z, N
  <2> QED BY <2>1, <2>2, <2>3, <2>4, SMTT(60)
<1>5. NamesRead \subseteq Seq({"", "a", "b", "c"})
  <2> DEFINE N == {"", "a", "b", "c"}
  <2>1. "a" \in N /\ "c" \in N OBVIOUS
  <2> HIDE DEF N
  <2>2. NamesRead \subseteq Seq(N) BY <2>1 DEF NamesRead
  <2> QED BY <2>2 DEF N
<1>6. /\ DraftScales \subseteq Pages!DraftScaleSet /\ DraftPeriods \subseteq Pages!DraftPeriodSet
      /\ {0, 2, 5} \subseteq Int /\ "" \in {"", "a", "b", "c"}
  BY DEF DraftScales, DraftPeriods, Scale, Period, Pages!DraftScaleSet, Pages!DraftPeriodSet
<1>7. \A r \in R :
        /\ r.formats \subseteq Pages!DraftFormats /\ r.formats # {} /\ r.limit \in Nat
        /\ r.approval => "score" \notin r.formats
        /\ r.range => r.formats = {"score"}
        /\ "score" \in r.formats => r.range
        /\ "ranking" \in r.formats /\ ~r.approval => r.topK
  BY <1>1, SuiteRulesFit DEF Pages!DraftFormats
<1> HIDE DEF R
<1> QED BY <1>2, <1>3, <1>4, <1>5, <1>6, <1>7, Zenon DEF Pages!DraftParameters

LEMMA PlanValues == Study!PlanParameters /\ Study!PlanOfTwo
<1> DEFINE a == Borda
           b == Hare
           c == Approval(2)
           d == Score
           R == {a, b, c, d}
<1>1. /\ PlanRules = <<a, b, c, d>> /\ R \subseteq SuiteRules
      /\ "ranking" \in a.formats /\ "approval" \in c.formats /\ "score" \in d.formats
  BY SuiteRulesAre DEF PlanRules, SuiteRules
<1> HIDE DEF a, b, c, d
<1>2. Study!PlanRuleSet = R /\ (\E S : PlanRules \in Seq(S)) /\ PlanRules # <<>>
  <2>1. <<a, b, c, d>> \in Seq(R) OBVIOUS
  <2> QED BY <1>1, <2>1, SuiteLists DEF Study!PlanRuleSet
<1>3. /\ \A r \in R :
           /\ r.formats \subseteq Study!PlanFormats /\ r.formats # {} /\ r.committee
           /\ r.id # "none"
      /\ {"approval", "ranking", "score"} \subseteq Study!PlanOffers
  BY <1>1, <1>2, SuiteRulesFit DEF Study!PlanFormats, Study!PlanOffers
<1> HIDE DEF R
<1>4. /\ DOMAIN PlanData = {"r", "a"} /\ DOMAIN Polls = {"e", "f"}
      /\ PlanData["r"] = Dataset("ranking", 6, 4) /\ PlanData["a"] = Dataset("approval", 4, 4)
      /\ Polls["e"] = Dataset("score", 4, 0) /\ Polls["f"] = Dataset("ranking", 6, 0)
  BY DEF PlanData, Polls
<1>5. \A x \in {Dataset("ranking", 6, 4), Dataset("approval", 4, 4), Dataset("score", 4, 0),
                Dataset("ranking", 6, 0)} :
        /\ x.format \in {"approval", "ranking", "score"} /\ x.count \in Nat /\ x.limit \in Nat
        /\ x.count >= 4
  BY DEF Dataset
<1>6. /\ \A x \in {PlanData[id] : id \in DOMAIN PlanData} \cup {Polls[id] : id \in DOMAIN Polls} :
           x.format \in Study!PlanOffers /\ x.count \in Nat /\ x.limit \in Nat
      /\ \A id \in DOMAIN Polls : Polls[id].count >= 4
      /\ \A id \in DOMAIN PlanData : PlanData[id].count >= 4
  <2>1. \A id \in DOMAIN PlanData :
          /\ PlanData[id].format \in Study!PlanOffers /\ PlanData[id].count \in Nat
          /\ PlanData[id].limit \in Nat /\ PlanData[id].count >= 4
    BY <1>3, <1>4, <1>5
  <2>2. \A id \in DOMAIN Polls :
          /\ Polls[id].format \in Study!PlanOffers /\ Polls[id].count \in Nat
          /\ Polls[id].limit \in Nat /\ Polls[id].count >= 4
    BY <1>3, <1>4, <1>5
  <2> QED BY <2>1, <2>2
<1>8. /\ DOMAIN PlanData # {} /\ DOMAIN Polls # {} /\ "none" \notin Study!PlanSources
      /\ DOMAIN PlanData \cap DOMAIN Polls = {}
  BY <1>4 DEF Study!PlanSources
<1>7. PlanNumbers \subseteq Int /\ PlanScales \subseteq Study!PlanScale
  BY DEF PlanNumbers, PlanScales, Scale, Study!PlanScale
<1> QED BY <1>2, <1>3, <1>6, <1>7, <1>8, Zenon DEF Study!PlanParameters, Study!PlanOfTwo

-----------------------------------------------------------------------------
(* The suite's instances and the lemmas' instances are the same pages.     *)

LEMMA SameScreens ==
  /\ Screens!Init <=> Pages!Screens!Init
  /\ Screens!Next <=> Pages!Screens!Next
  /\ Screens!TypeOK <=> Pages!Screens!TypeOK
  /\ Screens!ToldWasDone <=> Pages!Screens!ToldWasDone
  /\ Screens!CardRefusedOnlyIfStale <=> Pages!Screens!CardRefusedOnlyIfStale
  /\ Screens!ShownMovesForward <=> Pages!Screens!ShownMovesForward
BY Zenon DEF Screens!ElectionStatus, Screens!ActionFrom, Screens!ActionTo,
   Screens!Screens, Screens!NoCall, Screens!Opened, Screens!Init, Screens!Actions,
   Screens!Reloading, Screens!CardOffers, Screens!Offers, Screens!CountPress,
   Screens!Press, Screens!Refresh, Screens!ServerActs, Screens!Succeeded,
   Screens!ActTaken, Screens!ActRefused, Screens!ActEnds, Screens!ServerReads,
   Screens!LoadEnds, Screens!ActLost, Screens!LoadLost, Screens!LoadFailed,
   Screens!LoadTimedOut, Screens!OthersEdit, Screens!Refusals,
   Screens!Answer, Screens!WorkerMoves,
   Screens!ScreenRuns, Screens!Next, Screens!TypeOK, Screens!ToldWasDone,
   Screens!CardRefusedOnlyIfStale, Screens!Rank, Screens!ShownMovesForward,
   Screens!RemoveAt, Pages!Screens!ElectionStatus, Pages!Screens!ActionFrom,
   Pages!Screens!ActionTo, Pages!Screens!Screens, Pages!Screens!NoCall,
   Pages!Screens!Opened, Pages!Screens!Init, Pages!Screens!Actions,
   Pages!Screens!Reloading, Pages!Screens!CardOffers, Pages!Screens!Offers,
   Pages!Screens!CountPress, Pages!Screens!Press, Pages!Screens!Refresh,
   Pages!Screens!ServerActs, Pages!Screens!Succeeded, Pages!Screens!ActTaken,
   Pages!Screens!ActRefused, Pages!Screens!ActEnds, Pages!Screens!ServerReads,
   Pages!Screens!LoadEnds, Pages!Screens!ActLost, Pages!Screens!LoadLost,
   Pages!Screens!LoadFailed, Pages!Screens!LoadTimedOut, Pages!Screens!OthersEdit,
   Pages!Screens!Refusals,
   Pages!Screens!Answer,
   Pages!Screens!WorkerMoves, Pages!Screens!ScreenRuns, Pages!Screens!Next,
   Pages!Screens!TypeOK, Pages!Screens!ToldWasDone,
   Pages!Screens!CardRefusedOnlyIfStale, Pages!Screens!Rank,
   Pages!Screens!ShownMovesForward, Pages!Screens!RemoveAt

LEMMA SameRunList ==
  /\ RunList!Init <=> Pages!RunsPage!Init
  /\ RunList!Next <=> Pages!RunsPage!Next
  /\ RunList!TypeOK <=> Pages!RunsPage!TypeOK
  /\ RunList!AnnouncedOnce <=> Pages!RunsPage!AnnouncedOnce
  /\ RunList!JobEndsWithRun <=> Pages!RunsPage!JobEndsWithRun
  /\ RunList!ListAnswersFilter <=> Pages!RunsPage!ListAnswersFilter
BY Zenon DEF RunList!Ended, RunList!Nothing, RunList!NoLoad, RunList!Opened,
   RunList!Init, RunList!Ending, RunList!Claim, RunList!MarkRunning, RunList!Publish,
   RunList!PublishFails, RunList!StoreAnswer, RunList!Applied, RunList!ApplyAnswer,
   RunList!ApplyLost, RunList!Statuses, RunList!Listed, RunList!News, RunList!Telling,
   RunList!DoneOf, RunList!Overtaken, RunList!Loading, RunList!StartLoad,
   RunList!Refresh, RunList!Poll, RunList!ChooseExperiment, RunList!ChooseStatus,
   RunList!ListsRead, RunList!ListsArrive, RunList!Loaded, RunList!ResultsArrive,
   RunList!LoadTimesOut, RunList!LoadFails, RunList!Shown, RunList!Asking, RunList!Open,
   RunList!OpenCard, RunList!AutoOpen, RunList!OpenResult, RunList!CardArrives,
   RunList!ResultArrives, RunList!CardTimesOut, RunList!ResultTimesOut,
   RunList!BatchCreate, RunList!BatchEnds, RunList!BatchLost,
   RunList!Undone, RunList!WorkerNext, RunList!ListNext,
   RunList!CardNext, RunList!Next, RunList!TypeOK, RunList!AnnouncedOnce,
   RunList!ListAnswersFilter, RunList!JobEndsWithRun, RunList!RemoveAt,
   RunList!Restrict, Pages!RunsPage!Ended, Pages!RunsPage!Nothing,
   Pages!RunsPage!NoLoad, Pages!RunsPage!Opened, Pages!RunsPage!Init,
   Pages!RunsPage!Ending, Pages!RunsPage!Claim, Pages!RunsPage!MarkRunning,
   Pages!RunsPage!Publish, Pages!RunsPage!PublishFails, Pages!RunsPage!StoreAnswer,
   Pages!RunsPage!Applied, Pages!RunsPage!ApplyAnswer, Pages!RunsPage!ApplyLost,
   Pages!RunsPage!Statuses, Pages!RunsPage!Listed, Pages!RunsPage!News,
   Pages!RunsPage!Telling, Pages!RunsPage!DoneOf, Pages!RunsPage!Overtaken,
   Pages!RunsPage!Loading, Pages!RunsPage!StartLoad, Pages!RunsPage!Refresh,
   Pages!RunsPage!Poll, Pages!RunsPage!ChooseExperiment, Pages!RunsPage!ChooseStatus,
   Pages!RunsPage!ListsRead, Pages!RunsPage!ListsArrive, Pages!RunsPage!Loaded,
   Pages!RunsPage!ResultsArrive, Pages!RunsPage!LoadTimesOut, Pages!RunsPage!LoadFails,
   Pages!RunsPage!Shown, Pages!RunsPage!Asking, Pages!RunsPage!Open,
   Pages!RunsPage!OpenCard, Pages!RunsPage!AutoOpen, Pages!RunsPage!OpenResult,
   Pages!RunsPage!CardArrives, Pages!RunsPage!ResultArrives,
   Pages!RunsPage!CardTimesOut, Pages!RunsPage!ResultTimesOut,
   Pages!RunsPage!BatchCreate, Pages!RunsPage!BatchEnds, Pages!RunsPage!BatchLost,
   Pages!RunsPage!Undone, Pages!RunsPage!WorkerNext,
   Pages!RunsPage!ListNext, Pages!RunsPage!CardNext, Pages!RunsPage!Next,
   Pages!RunsPage!TypeOK, Pages!RunsPage!AnnouncedOnce,
   Pages!RunsPage!ListAnswersFilter, Pages!RunsPage!JobEndsWithRun,
   Pages!RunsPage!RemoveAt, Pages!RunsPage!Restrict

LEMMA SameRunBatch ==
  /\ RunBatch!Init <=> BatchPages!RunsPage!Init
  /\ RunBatch!Next <=> BatchPages!RunsPage!Next
  /\ RunBatch!TypeOK <=> BatchPages!RunsPage!TypeOK
  /\ RunBatch!AnnouncedOnce <=> BatchPages!RunsPage!AnnouncedOnce
  /\ RunBatch!JobEndsWithRun <=> BatchPages!RunsPage!JobEndsWithRun
  /\ RunBatch!ListAnswersFilter <=> BatchPages!RunsPage!ListAnswersFilter
BY Zenon DEF RunBatch!Ended, RunBatch!Nothing, RunBatch!NoLoad, RunBatch!Opened,
   RunBatch!Init, RunBatch!Ending, RunBatch!Claim, RunBatch!MarkRunning,
   RunBatch!Publish, RunBatch!PublishFails, RunBatch!StoreAnswer, RunBatch!Applied,
   RunBatch!ApplyAnswer, RunBatch!ApplyLost, RunBatch!Statuses, RunBatch!Listed,
   RunBatch!News, RunBatch!Telling, RunBatch!DoneOf, RunBatch!Overtaken,
   RunBatch!Loading, RunBatch!StartLoad, RunBatch!Refresh, RunBatch!Poll,
   RunBatch!ChooseExperiment, RunBatch!ChooseStatus, RunBatch!ListsRead,
   RunBatch!ListsArrive, RunBatch!Loaded, RunBatch!ResultsArrive, RunBatch!LoadTimesOut,
   RunBatch!LoadFails, RunBatch!Shown, RunBatch!Asking, RunBatch!Open,
   RunBatch!OpenCard, RunBatch!AutoOpen, RunBatch!OpenResult, RunBatch!CardArrives,
   RunBatch!ResultArrives, RunBatch!CardTimesOut, RunBatch!ResultTimesOut,
   RunBatch!BatchCreate, RunBatch!BatchEnds, RunBatch!BatchLost,
   RunBatch!Undone, RunBatch!WorkerNext, RunBatch!ListNext,
   RunBatch!CardNext, RunBatch!Next, RunBatch!TypeOK, RunBatch!AnnouncedOnce,
   RunBatch!ListAnswersFilter, RunBatch!JobEndsWithRun, RunBatch!RemoveAt,
   RunBatch!Restrict, BatchPages!RunsPage!Ended, BatchPages!RunsPage!Nothing,
   BatchPages!RunsPage!NoLoad, BatchPages!RunsPage!Opened, BatchPages!RunsPage!Init,
   BatchPages!RunsPage!Ending, BatchPages!RunsPage!Claim,
   BatchPages!RunsPage!MarkRunning, BatchPages!RunsPage!Publish,
   BatchPages!RunsPage!PublishFails, BatchPages!RunsPage!StoreAnswer,
   BatchPages!RunsPage!Applied, BatchPages!RunsPage!ApplyAnswer,
   BatchPages!RunsPage!ApplyLost, BatchPages!RunsPage!Statuses,
   BatchPages!RunsPage!Listed, BatchPages!RunsPage!News, BatchPages!RunsPage!Telling,
   BatchPages!RunsPage!DoneOf, BatchPages!RunsPage!Overtaken,
   BatchPages!RunsPage!Loading, BatchPages!RunsPage!StartLoad,
   BatchPages!RunsPage!Refresh, BatchPages!RunsPage!Poll,
   BatchPages!RunsPage!ChooseExperiment, BatchPages!RunsPage!ChooseStatus,
   BatchPages!RunsPage!ListsRead, BatchPages!RunsPage!ListsArrive,
   BatchPages!RunsPage!Loaded, BatchPages!RunsPage!ResultsArrive,
   BatchPages!RunsPage!LoadTimesOut, BatchPages!RunsPage!LoadFails,
   BatchPages!RunsPage!Shown, BatchPages!RunsPage!Asking, BatchPages!RunsPage!Open,
   BatchPages!RunsPage!OpenCard, BatchPages!RunsPage!AutoOpen,
   BatchPages!RunsPage!OpenResult, BatchPages!RunsPage!CardArrives,
   BatchPages!RunsPage!ResultArrives, BatchPages!RunsPage!CardTimesOut,
   BatchPages!RunsPage!ResultTimesOut, BatchPages!RunsPage!BatchCreate,
   BatchPages!RunsPage!BatchEnds, BatchPages!RunsPage!BatchLost,
   BatchPages!RunsPage!Undone, BatchPages!RunsPage!WorkerNext,
   BatchPages!RunsPage!ListNext, BatchPages!RunsPage!CardNext, BatchPages!RunsPage!Next,
   BatchPages!RunsPage!TypeOK, BatchPages!RunsPage!AnnouncedOnce,
   BatchPages!RunsPage!ListAnswersFilter, BatchPages!RunsPage!JobEndsWithRun,
   BatchPages!RunsPage!RemoveAt, BatchPages!RunsPage!Restrict

LEMMA SameRunCards ==
  /\ RunCards!Init <=> CardPages!RunsPage!Init
  /\ RunCards!Next <=> CardPages!RunsPage!Next
  /\ RunCards!TypeOK <=> CardPages!RunsPage!TypeOK
  /\ RunCards!CardIsOfLastRun <=> CardPages!RunsPage!CardIsOfLastRun
BY ZenonT(40) DEF RunCards!Ended, RunCards!Nothing, RunCards!NoLoad, RunCards!Opened,
   RunCards!Init, RunCards!Ending, RunCards!Claim, RunCards!MarkRunning,
   RunCards!Publish, RunCards!PublishFails, RunCards!StoreAnswer, RunCards!Applied,
   RunCards!ApplyAnswer, RunCards!ApplyLost, RunCards!Statuses, RunCards!Listed,
   RunCards!News, RunCards!Telling, RunCards!DoneOf, RunCards!Overtaken,
   RunCards!Loading, RunCards!StartLoad, RunCards!Refresh, RunCards!Poll,
   RunCards!ChooseExperiment, RunCards!ChooseStatus, RunCards!ListsRead,
   RunCards!ListsArrive, RunCards!Loaded, RunCards!ResultsArrive, RunCards!LoadTimesOut,
   RunCards!LoadFails, RunCards!Shown, RunCards!Asking, RunCards!Open,
   RunCards!OpenCard, RunCards!AutoOpen, RunCards!OpenResult, RunCards!CardArrives,
   RunCards!ResultArrives, RunCards!CardTimesOut, RunCards!ResultTimesOut,
   RunCards!Report, RunCards!BatchCreate, RunCards!BatchEnds, RunCards!BatchLost,
   RunCards!Undone, RunCards!WorkerNext,
   RunCards!ListNext, RunCards!CardNext, RunCards!Next, RunCards!TypeOK,
   RunCards!CardIsOfLastRun, RunCards!RemoveAt, RunCards!Restrict,
   CardPages!RunsPage!Ended, CardPages!RunsPage!Nothing, CardPages!RunsPage!NoLoad,
   CardPages!RunsPage!Opened, CardPages!RunsPage!Init, CardPages!RunsPage!Ending,
   CardPages!RunsPage!Claim, CardPages!RunsPage!MarkRunning, CardPages!RunsPage!Publish,
   CardPages!RunsPage!PublishFails, CardPages!RunsPage!StoreAnswer,
   CardPages!RunsPage!Applied, CardPages!RunsPage!ApplyAnswer,
   CardPages!RunsPage!ApplyLost, CardPages!RunsPage!Statuses, CardPages!RunsPage!Listed,
   CardPages!RunsPage!News, CardPages!RunsPage!Telling, CardPages!RunsPage!DoneOf,
   CardPages!RunsPage!Overtaken, CardPages!RunsPage!Loading,
   CardPages!RunsPage!StartLoad, CardPages!RunsPage!Refresh, CardPages!RunsPage!Poll,
   CardPages!RunsPage!ChooseExperiment, CardPages!RunsPage!ChooseStatus,
   CardPages!RunsPage!ListsRead, CardPages!RunsPage!ListsArrive,
   CardPages!RunsPage!Loaded, CardPages!RunsPage!ResultsArrive,
   CardPages!RunsPage!LoadTimesOut, CardPages!RunsPage!LoadFails,
   CardPages!RunsPage!Shown, CardPages!RunsPage!Asking, CardPages!RunsPage!Open,
   CardPages!RunsPage!OpenCard, CardPages!RunsPage!AutoOpen,
   CardPages!RunsPage!OpenResult, CardPages!RunsPage!CardArrives,
   CardPages!RunsPage!ResultArrives, CardPages!RunsPage!CardTimesOut,
   CardPages!RunsPage!ResultTimesOut, CardPages!RunsPage!Report,
   CardPages!RunsPage!BatchCreate, CardPages!RunsPage!BatchEnds, CardPages!RunsPage!BatchLost,
   CardPages!RunsPage!Undone,
   CardPages!RunsPage!WorkerNext, CardPages!RunsPage!ListNext,
   CardPages!RunsPage!CardNext, CardPages!RunsPage!Next, CardPages!RunsPage!TypeOK,
   CardPages!RunsPage!CardIsOfLastRun, CardPages!RunsPage!RemoveAt,
   CardPages!RunsPage!Restrict

LEMMA SameDesk ==
  /\ Desk!Init <=> Pages!Desk!Init
  /\ Desk!Next <=> Pages!Desk!Next
  /\ Desk!TypeOK <=> Pages!Desk!TypeOK
  /\ Desk!SummaryIsComplete <=> Pages!Desk!SummaryIsComplete
  /\ Desk!CreatedIsOnRecord <=> Pages!Desk!CreatedIsOnRecord
  /\ Desk!AcceptedOnce <=> Pages!Desk!AcceptedOnce
BY ZenonT(40) DEF Desk!Picked, Desk!NoCall, Desk!NoLists, Desk!Desk, Desk!Voter, Desk!Init,
   Desk!Order, Desk!Event, Desk!CreateCode, Desk!Created, Desk!AcceptCode, Desk!ListOf,
   Desk!Filed, Desk!ImportCode, Desk!Usable, Desk!Sent, Desk!Invite, Desk!UniqueEmails,
   Desk!InviteMany, Desk!SendNext, Desk!Import, Desk!ServerCreates, Desk!ServerImports,
   Desk!ServerPassesOver,
   Desk!SingleEnds, Desk!BulkGoesOn, Desk!Summarise, Desk!Accept, Desk!ServerAccepts,
   Desk!AcceptEnds, Desk!DeskLoses, Desk!DeskDenied, Desk!VoterLoses, Desk!DeskRuns,
   Desk!Next, Desk!Codes, Desk!TypeOK, Desk!SummaryIsComplete, Desk!CreatedIsOnRecord,
   Desk!AcceptedOnce, Pages!Desk!Picked, Pages!Desk!NoCall, Pages!Desk!NoLists,
   Pages!Desk!Desk, Pages!Desk!Voter, Pages!Desk!Init, Pages!Desk!Order,
   Pages!Desk!Event, Pages!Desk!CreateCode, Pages!Desk!Created, Pages!Desk!AcceptCode,
   Pages!Desk!ListOf, Pages!Desk!Filed, Pages!Desk!ImportCode, Pages!Desk!Usable,
   Pages!Desk!Sent, Pages!Desk!Invite, Pages!Desk!UniqueEmails, Pages!Desk!InviteMany,
   Pages!Desk!SendNext, Pages!Desk!Import, Pages!Desk!ServerCreates,
   Pages!Desk!ServerImports,
   Pages!Desk!ServerPassesOver, Pages!Desk!SingleEnds, Pages!Desk!BulkGoesOn,
   Pages!Desk!Summarise, Pages!Desk!Accept, Pages!Desk!ServerAccepts,
   Pages!Desk!AcceptEnds, Pages!Desk!DeskLoses, Pages!Desk!DeskDenied,
   Pages!Desk!VoterLoses, Pages!Desk!DeskRuns, Pages!Desk!Next, Pages!Desk!Codes,
   Pages!Desk!TypeOK, Pages!Desk!SummaryIsComplete, Pages!Desk!CreatedIsOnRecord,
   Pages!Desk!AcceptedOnce

LEMMA SameGeneratedLimits ==
  \A p, d : Sets!GeneratedLimits(p, d) = Study!Sets!GeneratedLimits(p, d)
BY Zenon DEF Sets!GeneratedLimits, Study!Sets!GeneratedLimits

LEMMA SameStartLoad ==
  \A p, k : Sets!StartLoad(p, k) = Study!Sets!StartLoad(p, k)
BY Zenon DEF Sets!Kinds, Sets!Idle, Sets!DetailOver, Sets!Asking, Sets!LoadOver,
   Sets!StartLoad, Study!Sets!Kinds, Study!Sets!Idle, Study!Sets!DetailOver,
   Study!Sets!Asking, Study!Sets!LoadOver, Study!Sets!StartLoad

LEMMA SameBecomes ==
  \A p, n : Sets!Becomes(p, n) <=> Study!Sets!Becomes(p, n)
BY Zenon DEF Sets!AskedBy, Sets!Becomes, Sets!Last, Study!Sets!AskedBy,
   Study!Sets!Becomes, Study!Sets!Last

LEMMA SameStoreBallots ==
  \A k : Sets!StoreBallots(k) <=> Study!Sets!StoreBallots(k)
BY SameGeneratedLimits, SameStartLoad, SameBecomes, Zenon DEF Sets!StoreBallots,
   Study!Sets!StoreBallots

LEMMA SameLists ==
  /\ Sets!Refresh <=> Study!Sets!Refresh
  /\ Sets!Renew <=> Study!Sets!Renew
  /\ Sets!ListEnds <=> Study!Sets!ListEnds
  /\ \A id : Sets!OpenDataset(id) <=> Study!Sets!OpenDataset(id)
BY ZenonT(40) DEF Sets!Kinds, Sets!Idle, Sets!AskedBy, Sets!Becomes, Sets!DetailOver,
   Sets!Asking, Sets!LoadOver, Sets!StartLoad, Sets!Refresh, Sets!Renew, Sets!ListEnds,
   Sets!Offered, Sets!OpenDataset, Sets!Last, Study!Sets!Kinds, Study!Sets!Idle,
   Study!Sets!AskedBy, Study!Sets!Becomes, Study!Sets!DetailOver, Study!Sets!Asking,
   Study!Sets!LoadOver, Study!Sets!StartLoad, Study!Sets!Refresh, Study!Sets!Renew,
   Study!Sets!ListEnds, Study!Sets!Offered, Study!Sets!OpenDataset, Study!Sets!Last

LEMMA SameDetails ==
  /\ Sets!RulesArrive <=> Study!Sets!RulesArrive
  /\ Sets!DetailArrives <=> Study!Sets!DetailArrives
  /\ Sets!DetailLost <=> Study!Sets!DetailLost
BY Zenon DEF Sets!Picked, Sets!DetailOver, Sets!RulesFor, Sets!IdsOf, Sets!Least,
   Sets!Fitted, Sets!RulesArrive, Sets!DetailArrives, Sets!DetailLost, Sets!ToSet,
   Study!Sets!Picked, Study!Sets!DetailOver, Study!Sets!RulesFor, Study!Sets!IdsOf,
   Study!Sets!Least, Study!Sets!Fitted, Study!Sets!RulesArrive,
   Study!Sets!DetailArrives, Study!Sets!DetailLost, Study!Sets!ToSet

LEMMA SameMaking ==
  /\ \A k, id : Sets!Make(k, id) <=> Study!Sets!Make(k, id)
  /\ \A k : Sets!StoreDataset(k) <=> Study!Sets!StoreDataset(k)
  /\ \A k : Sets!MakeFails(k) <=> Study!Sets!MakeFails(k)
BY Zenon DEF Sets!Ids, Sets!Idle, Sets!AskedBy, Sets!Becomes, Sets!Make,
   Sets!StoreDataset, Sets!MakeFails, Sets!Last, Study!Sets!Ids, Study!Sets!Idle,
   Study!Sets!AskedBy, Study!Sets!Becomes, Study!Sets!Make, Study!Sets!StoreDataset,
   Study!Sets!MakeFails, Study!Sets!Last

LEMMA SameChoices ==
  /\ \A r : Sets!Toggle(r) <=> Study!Sets!Toggle(r)
  /\ Sets!Edit <=> Study!Sets!Edit
BY Zenon DEF Sets!Picked, Sets!Without, Sets!AskedBy, Sets!Becomes, Sets!RulesFor,
   Sets!Toggle, Sets!Edit, Sets!ToSet, Sets!Last, Study!Sets!Picked, Study!Sets!Without,
   Study!Sets!AskedBy, Study!Sets!Becomes, Study!Sets!RulesFor, Study!Sets!Toggle,
   Study!Sets!Edit, Study!Sets!ToSet, Study!Sets!Last

LEMMA SameSeries ==
  /\ Sets!Press <=> Study!Sets!Press
  /\ Sets!CreateExperiment <=> Study!Sets!CreateExperiment
  /\ Sets!BatchRun <=> Study!Sets!BatchRun
  /\ Sets!SeriesFails <=> Study!Sets!SeriesFails
BY Zenon DEF Sets!Picked, Sets!NoSeries, Sets!RulesFor, Sets!IdsOf, Sets!LimitOf,
   Sets!Ready, Sets!SeriesDataset, Sets!Press, Sets!CreateExperiment, Sets!RunFor,
   Sets!AfterRun, Sets!BatchRun, Sets!SeriesFails, Sets!ToSet, Study!Sets!Picked,
   Study!Sets!NoSeries, Study!Sets!RulesFor, Study!Sets!IdsOf, Study!Sets!LimitOf,
   Study!Sets!Ready, Study!Sets!SeriesDataset, Study!Sets!Press,
   Study!Sets!CreateExperiment, Study!Sets!RunFor, Study!Sets!AfterRun,
   Study!Sets!BatchRun, Study!Sets!SeriesFails, Study!Sets!ToSet

LEMMA SameSets ==
  /\ Sets!Init <=> Study!Sets!Init
  /\ Sets!Next <=> Study!Sets!Next
  /\ Sets!TypeOK <=> Study!Sets!TypeOK
  /\ Sets!RunsFitTheirDataset <=> Study!Sets!RunsFitTheirDataset
  /\ Sets!ReportedIsThere <=> Study!Sets!ReportedIsThere
  /\ Sets!CardIsOfLastAsked <=> Study!Sets!CardIsOfLastAsked
  /\ Sets!EachRunHasItsExperiment <=> Study!Sets!EachRunHasItsExperiment
<1>1. Sets!Init <=> Study!Sets!Init
  BY Zenon DEF Sets!Kinds, Sets!Idle, Sets!NoSeries, Sets!Init, Study!Sets!Kinds,
     Study!Sets!Idle, Study!Sets!NoSeries, Study!Sets!Init
<1>2. Sets!Next <=> Study!Sets!Next
  BY SameStoreBallots, SameLists, SameDetails, SameMaking, SameChoices, SameSeries,
     Zenon DEF Sets!Next, Sets!Ids, Sets!Kinds, Sets!ToSet, Study!Sets!Next,
     Study!Sets!Ids, Study!Sets!Kinds, Study!Sets!ToSet
<1>3. /\ Sets!TypeOK <=> Study!Sets!TypeOK
      /\ Sets!RunsFitTheirDataset <=> Study!Sets!RunsFitTheirDataset
      /\ Sets!ReportedIsThere <=> Study!Sets!ReportedIsThere
      /\ Sets!CardIsOfLastAsked <=> Study!Sets!CardIsOfLastAsked
      /\ Sets!EachRunHasItsExperiment <=> Study!Sets!EachRunHasItsExperiment
  BY Zenon DEF Sets!Ids, Sets!TypeOK, Sets!RunsFitTheirDataset, Sets!ReportedIsThere,
     Sets!CardIsOfLastAsked, Sets!EachRunHasItsExperiment, Sets!Cardinality,
     Sets!ToSet, Study!Sets!Ids, Study!Sets!TypeOK, Study!Sets!RunsFitTheirDataset,
     Study!Sets!ReportedIsThere, Study!Sets!CardIsOfLastAsked,
     Study!Sets!EachRunHasItsExperiment, Study!Sets!Cardinality, Study!Sets!ToSet
<1> QED BY <1>1, <1>2, <1>3

LEMMA SameFind ==
  \A r, n : Rules!Find(r, n) = Pages!Form!Find(r, n)
BY Zenon DEF Rules!NoRule, Rules!Find, Pages!Form!NoRule, Pages!Form!Find

LEMMA SameRuleOf ==
  \A p : Rules!RuleOf(p) = Pages!Form!RuleOf(p)
BY SameFind, Zenon DEF Rules!RuleOf, Rules!Offered, Pages!Form!RuleOf,
   Pages!Form!Offered

LEMMA SameCountOf ==
  \A p : Rules!CountOf(p) = Pages!Form!CountOf(p)
BY Zenon DEF Rules!CountOf, Pages!Form!CountOf

LEMMA SameEffectiveMax ==
  \A p : Rules!EffectiveMax(p) = Pages!Form!EffectiveMax(p)
BY SameRuleOf, SameCountOf, Zenon DEF Rules!EffectiveMax, Rules!Clamp,
   Pages!Form!EffectiveMax, Pages!Form!Clamp

LEMMA SameCorrected ==
  \A p : Rules!Corrected(p) = Pages!Form!Corrected(p)
BY Zenon DEF Rules!NoRule, Rules!Find, Rules!Clamp, Rules!Offered, Rules!RuleOf,
   Rules!CountOf, Rules!EffectiveMax, Rules!Corrected, Pages!Form!NoRule,
   Pages!Form!Find, Pages!Form!Clamp, Pages!Form!Offered, Pages!Form!RuleOf,
   Pages!Form!CountOf, Pages!Form!EffectiveMax, Pages!Form!Corrected

LEMMA SameValid ==
  \A p : Rules!Valid(p) <=> Pages!Form!Valid(p)
BY SameRuleOf, SameEffectiveMax, Zenon DEF Rules!Valid, Rules!NoRule, Pages!Form!Valid,
   Pages!Form!NoRule

LEMMA SameBody ==
  \A p : Rules!Body(p) = Pages!Form!Body(p)
BY Zenon DEF Rules!NoRule, Rules!NoScale, Rules!Find, Rules!Clamp, Rules!Offered,
   Rules!RuleOf, Rules!CountOf, Rules!EffectiveMax, Rules!Body, Pages!Form!NoRule,
   Pages!Form!NoScale, Pages!Form!Find, Pages!Form!Clamp, Pages!Form!Offered,
   Pages!Form!RuleOf, Pages!Form!CountOf, Pages!Form!EffectiveMax, Pages!Form!Body

LEMMA SameMerged ==
  \A b, r : Rules!Merged(b, r) = Pages!Form!Merged(b, r)
BY SameFind, Zenon DEF Rules!Merged, Rules!Kept, Rules!NoScale, Rules!Clamp,
   Pages!Form!Merged, Pages!Form!Kept, Pages!Form!NoScale, Pages!Form!Clamp

LEMMA SameAccepts ==
  \A m : Rules!AcceptsRules(m) <=> Pages!Form!AcceptsRules(m)
BY SameFind, ZenonT(40) DEF Rules!AcceptsRules, Rules!BallotParamsValid, Rules!Compatible,
   Rules!NoScale, Rules!NoRule, Pages!Form!AcceptsRules, Pages!Form!BallotParamsValid,
   Pages!Form!Compatible, Pages!Form!NoScale, Pages!Form!NoRule

LEMMA SameHydrated ==
  \A r : Rules!Hydrated(r) = Pages!Form!Hydrated(r)
BY Zenon DEF Rules!Hydrated, Rules!NoScale, Rules!Blank, Pages!Form!Hydrated,
   Pages!Form!NoScale, Pages!Form!Blank

LEMMA SameWritten ==
  \A m : Rules!Written(m) = Pages!Form!Written(m)
BY Zenon DEF Rules!Written, Rules!NoScale, Pages!Form!Written, Pages!Form!NoScale

LEMMA SameLoading ==
  /\ \A t : Rules!LoadEnds(t) <=> Pages!Form!LoadEnds(t)
  /\ \A t : Rules!RulesArrive(t) <=> Pages!Form!RulesArrive(t)
  /\ \A t : Rules!Correct(t) <=> Pages!Form!Correct(t)
  /\ \A t : Rules!Refresh(t) <=> Pages!Form!Refresh(t)
BY SameHydrated, SameFind, SameCorrected, Zenon DEF Rules!LoadEnds, Rules!RulesArrive,
   Rules!Correct, Rules!Refresh, Rules!Settled, Rules!Blank, Rules!NoCall, Rules!Event,
   Rules!NoRule, Pages!Form!LoadEnds, Pages!Form!RulesArrive, Pages!Form!Correct,
   Pages!Form!Refresh, Pages!Form!Settled, Pages!Form!Blank, Pages!Form!NoCall,
   Pages!Form!Event, Pages!Form!NoRule

LEMMA SameEdits ==
  \A p : Rules!Edits(p) = Pages!Form!Edits(p)
BY Zenon DEF Rules!NoRule, Rules!Find, Rules!Offered, Rules!RuleOf, Rules!CountOf,
   Rules!WithRule, Rules!Edits, Pages!Form!NoRule, Pages!Form!Find, Pages!Form!Offered,
   Pages!Form!RuleOf, Pages!Form!CountOf, Pages!Form!WithRule, Pages!Form!Edits

LEMMA SameEdit ==
  /\ \A t : Rules!Edit(t) <=> Pages!Form!Edit(t)
BY SameEdits, SameCorrected, Zenon DEF Rules!Edit, Rules!Settled, Pages!Form!Edit,
   Pages!Form!Settled

LEMMA SameSaving ==
  /\ \A t : Rules!Save(t) <=> Pages!Form!Save(t)
  /\ \A t : Rules!ServerReads(t) <=> Pages!Form!ServerReads(t)
  /\ \A t : Rules!ServerWrites(t) <=> Pages!Form!ServerWrites(t)
  /\ \A t : Rules!SaveEnds(t) <=> Pages!Form!SaveEnds(t)
  /\ \A t : Rules!SaveLost(t) <=> Pages!Form!SaveLost(t)
  /\ Rules!Open <=> Pages!Form!Open
BY SameValid, SameBody, SameMerged, SameAccepts, SameWritten, SameCorrected, Zenon DEF
   Rules!Save, Rules!ServerReads, Rules!ServerWrites, Rules!SaveEnds, Rules!SaveLost,
   Rules!Open, Rules!Settled, Rules!Blank, Rules!NoCall, Rules!Event, Rules!Editable,
   Pages!Form!Save, Pages!Form!ServerReads, Pages!Form!ServerWrites,
   Pages!Form!SaveEnds, Pages!Form!SaveLost, Pages!Form!Open, Pages!Form!Settled,
   Pages!Form!Blank, Pages!Form!NoCall, Pages!Form!Event, Pages!Form!Editable

LEMMA SameForm ==
  /\ Rules!Init <=> Pages!Form!Init
  /\ Rules!Next <=> Pages!Form!Next
  /\ Rules!TypeOK <=> Pages!Form!TypeOK
  /\ Rules!StoredIsSound <=> Pages!Form!StoredIsSound
  /\ Rules!UntouchedKeepsRules <=> Pages!Form!UntouchedKeepsRules
  /\ Rules!ReadyIsAccepted <=> Pages!Form!ReadyIsAccepted
<1>1. Rules!Init <=> Pages!Form!Init
  BY Zenon DEF Rules!Blank, Rules!NoCall, Rules!Tab, Rules!Init, Pages!Form!Blank,
     Pages!Form!NoCall, Pages!Form!Tab, Pages!Form!Init
<1>2. Rules!Next <=> Pages!Form!Next
  BY SameLoading, SameEdit, SameSaving, Zenon DEF Rules!Next, Pages!Form!Next
<1>3. /\ Rules!TypeOK <=> Pages!Form!TypeOK
      /\ Rules!StoredIsSound <=> Pages!Form!StoredIsSound
      /\ Rules!UntouchedKeepsRules <=> Pages!Form!UntouchedKeepsRules
      /\ Rules!ReadyIsAccepted <=> Pages!Form!ReadyIsAccepted
  BY SameFind, SameRuleOf, SameCorrected, SameValid, SameBody, SameMerged,
     SameAccepts, SameWritten, Zenon DEF Rules!TypeOK, Rules!StoredIsSound,
     Rules!UntouchedKeepsRules, Rules!ReadyIsAccepted, Rules!Openable, Rules!Settled,
     Rules!Unsendable, Rules!Formats, Rules!NoScale, Pages!Form!TypeOK,
     Pages!Form!StoredIsSound, Pages!Form!UntouchedKeepsRules,
     Pages!Form!ReadyIsAccepted, Pages!Form!Openable, Pages!Form!Settled,
     Pages!Form!Unsendable, Pages!Form!Formats, Pages!Form!NoScale
<1> QED BY <1>1, <1>2, <1>3

LEMMA SameDraftLists ==
  /\ \A r, n : Draft!Find(r, n) = Pages!Draft!Find(r, n)
  /\ \A r, f : Draft!ForFormat(r, f) = Pages!Draft!ForFormat(r, f)
BY Zenon DEF Draft!NoRule, Draft!Find, Draft!Picked, Draft!ForFormat,
   Pages!Draft!NoRule, Pages!Draft!Find, Pages!Draft!Picked, Pages!Draft!ForFormat

LEMMA SameDraftViews ==
  /\ \A p : Draft!CurrentRule(p) = Pages!Draft!CurrentRule(p)
  /\ \A d, r : Draft!EffectiveMax(d, r) = Pages!Draft!EffectiveMax(d, r)
  /\ \A d, r : Draft!Seen(d, r) = Pages!Draft!Seen(d, r)
  /\ \A p : Draft!New(p) <=> Pages!Draft!New(p)
BY SameDraftLists, Zenon DEF Draft!CurrentRule, Draft!Count, Draft!Clamp,
   Draft!EffectiveMax, Draft!Seen, Draft!New, Pages!Draft!CurrentRule,
   Pages!Draft!Count, Pages!Draft!Clamp, Pages!Draft!EffectiveMax, Pages!Draft!Seen,
   Pages!Draft!New

LEMMA SameDraftEffects ==
  /\ \A d, r : Draft!CommitteeFor(d, r) = Pages!Draft!CommitteeFor(d, r)
  /\ \A d, r, n : Draft!MaxFor(d, r, n) = Pages!Draft!MaxFor(d, r, n)
  /\ \A p : Draft!Refitted(p) = Pages!Draft!Refitted(p)
  /\ \A p : Draft!NoTop(p) <=> Pages!Draft!NoTop(p)
  /\ \A p : Draft!ScaleFor(p) = Pages!Draft!ScaleFor(p)
BY Zenon DEF Draft!NoRule, Draft!Find, Draft!Picked, Draft!ForFormat, Draft!CurrentRule,
   Draft!Clamp, Draft!EffectiveMax, Draft!Seen, Draft!New, Draft!Count,
   Draft!CommitteeFor, Draft!MaxFor, Draft!FormatFor, Draft!RuleFor, Draft!ToSet,
   Draft!Refitted, Draft!NoTop, Draft!ScaleFor, Draft!Fresh, Pages!Draft!NoRule,
   Pages!Draft!Find, Pages!Draft!Picked, Pages!Draft!ForFormat, Pages!Draft!CurrentRule,
   Pages!Draft!Clamp, Pages!Draft!EffectiveMax, Pages!Draft!Seen, Pages!Draft!New,
   Pages!Draft!Count, Pages!Draft!CommitteeFor, Pages!Draft!MaxFor,
   Pages!Draft!FormatFor, Pages!Draft!RuleFor, Pages!Draft!ToSet, Pages!Draft!Refitted,
   Pages!Draft!NoTop, Pages!Draft!ScaleFor, Pages!Draft!Fresh

LEMMA SameDraftCorrected ==
  /\ \A p : Draft!Corrected(p) = Pages!Draft!Corrected(p)
  /\ \A p : Draft!Settled(p) <=> Pages!Draft!Settled(p)
BY SameDraftViews, SameDraftEffects, Zenon DEF Draft!NoRule, Draft!Corrected,
   Draft!Settled, Pages!Draft!NoRule, Pages!Draft!Corrected, Pages!Draft!Settled

LEMMA SameDraftValid ==
  /\ \A p, t : Draft!Valid(p, t) <=> Pages!Draft!Valid(p, t)
BY ZenonT(40) DEF Draft!NoRule, Draft!Find, Draft!EffectiveMax, Draft!Clamp,
   Draft!Count, Draft!GeneralReady, Draft!CandidatesValid, Draft!RuleReady,
   Draft!AccessReady, Draft!Valid, Pages!Draft!NoRule, Pages!Draft!Find,
   Pages!Draft!EffectiveMax, Pages!Draft!Clamp, Pages!Draft!Count,
   Pages!Draft!GeneralReady, Pages!Draft!CandidatesValid, Pages!Draft!RuleReady,
   Pages!Draft!AccessReady, Pages!Draft!Valid

LEMMA SameDraftBody ==
  /\ \A p : Draft!Body(p) = Pages!Draft!Body(p)
BY ZenonT(40) DEF Draft!NoRule, Draft!NoScale, Draft!Find, Draft!CurrentRule,
   Draft!EffectiveMax, Draft!Clamp, Draft!Count, Draft!NormalizedTopK, Draft!Body,
   Pages!Draft!NoRule, Pages!Draft!NoScale, Pages!Draft!Find, Pages!Draft!CurrentRule,
   Pages!Draft!EffectiveMax, Pages!Draft!Clamp, Pages!Draft!Count,
   Pages!Draft!NormalizedTopK, Pages!Draft!Body

LEMMA SameDraftAccepts ==
  /\ \A r, w : Draft!Accepts(r, w) <=> Pages!Draft!Accepts(r, w)
BY ZenonT(40) DEF Draft!NoRule, Draft!NoScale, Draft!Find, Draft!CandidatesValid,
   Draft!Compatible, Draft!BallotParamsValid, Draft!Accepts, Pages!Draft!NoRule,
   Pages!Draft!NoScale, Pages!Draft!Find, Pages!Draft!CandidatesValid,
   Pages!Draft!Compatible, Pages!Draft!BallotParamsValid, Pages!Draft!Accepts

LEMMA SameDraftEdits ==
  /\ Draft!EditGeneral <=> Pages!Draft!EditGeneral
  /\ Draft!EditCandidates <=> Pages!Draft!EditCandidates
  /\ Draft!ImportCandidates <=> Pages!Draft!ImportCandidates
  /\ Draft!ImportEnds <=> Pages!Draft!ImportEnds
  /\ Draft!EditAccess <=> Pages!Draft!EditAccess
BY SameDraftCorrected, Zenon DEF Draft!LastStep, Draft!Fresh, Draft!NoCall,
   Draft!Acting, Draft!Counted, Draft!Event, Draft!Edit, Draft!Typed, Draft!RemoveAt,
   Draft!EditGeneral, Draft!EditCandidates, Draft!ImportCandidates, Draft!ImportEnds,
   Draft!EditAccess, Pages!Draft!LastStep, Pages!Draft!Fresh, Pages!Draft!NoCall,
   Pages!Draft!Acting, Pages!Draft!Counted, Pages!Draft!Event, Pages!Draft!Edit,
   Pages!Draft!Typed, Pages!Draft!RemoveAt, Pages!Draft!EditGeneral,
   Pages!Draft!EditCandidates, Pages!Draft!ImportCandidates, Pages!Draft!ImportEnds,
   Pages!Draft!EditAccess

LEMMA SameDraftRules ==
  /\ Draft!EditRule <=> Pages!Draft!EditRule
  /\ Draft!EditBallot <=> Pages!Draft!EditBallot
BY SameDraftCorrected, Zenon DEF Draft!NoRule, Draft!Find, Draft!Picked,
   Draft!ForFormat, Draft!CurrentRule, Draft!LastStep, Draft!Count, Draft!Acting,
   Draft!Counted, Draft!Event, Draft!Edit, Draft!Typed, Draft!WithRule, Draft!EditRule,
   Draft!EditBallot, Pages!Draft!NoRule, Pages!Draft!Find, Pages!Draft!Picked,
   Pages!Draft!ForFormat, Pages!Draft!CurrentRule, Pages!Draft!LastStep,
   Pages!Draft!Count, Pages!Draft!Acting, Pages!Draft!Counted, Pages!Draft!Event,
   Pages!Draft!Edit, Pages!Draft!Typed, Pages!Draft!WithRule, Pages!Draft!EditRule,
   Pages!Draft!EditBallot

LEMMA SameDraftMoves ==
  /\ Draft!GoNext <=> Pages!Draft!GoNext
  /\ Draft!GoTo <=> Pages!Draft!GoTo
  /\ Draft!ResetDraft <=> Pages!Draft!ResetDraft
  /\ Draft!Reopen <=> Pages!Draft!Reopen
BY SameDraftLists, SameDraftCorrected, SameDraftValid, SameDraftBody, SameDraftAccepts,
   Zenon DEF Draft!LastStep, Draft!Fresh, Draft!NoCall, Draft!Opened,
   Draft!RestoredFrom, Draft!Count, Draft!Acting, Draft!Counted, Draft!Event,
   Draft!Edit, Draft!Typed, Draft!Render, Draft!GoNext, Draft!GoTo, Draft!ResetDraft,
   Draft!Reopen, Pages!Draft!LastStep, Pages!Draft!Fresh, Pages!Draft!NoCall,
   Pages!Draft!Opened, Pages!Draft!RestoredFrom, Pages!Draft!Count, Pages!Draft!Acting,
   Pages!Draft!Counted, Pages!Draft!Event, Pages!Draft!Edit, Pages!Draft!Typed,
   Pages!Draft!Render, Pages!Draft!GoNext, Pages!Draft!GoTo, Pages!Draft!ResetDraft,
   Pages!Draft!Reopen

LEMMA SameDraftAnswers ==
  /\ Draft!RulesArrive <=> Pages!Draft!RulesArrive
  /\ Draft!RulesFail <=> Pages!Draft!RulesFail
  /\ Draft!Rotate <=> Pages!Draft!Rotate
  /\ Draft!Correct <=> Pages!Draft!Correct
BY SameDraftLists, SameDraftViews, SameDraftCorrected, Zenon DEF Draft!NoRule,
   Draft!Counted, Draft!Event, Draft!Typed, Draft!Render, Draft!RulesArrive,
   Draft!RulesFail, Draft!Rotate, Draft!Correct, Pages!Draft!NoRule,
   Pages!Draft!Counted, Pages!Draft!Event, Pages!Draft!Typed, Pages!Draft!Render,
   Pages!Draft!RulesArrive, Pages!Draft!RulesFail, Pages!Draft!Rotate,
   Pages!Draft!Correct

LEMMA SameDraftCreation ==
  /\ Draft!Submit <=> Pages!Draft!Submit
  /\ Draft!ServerCreates <=> Pages!Draft!ServerCreates
  /\ Draft!ServerActs <=> Pages!Draft!ServerActs
  /\ Draft!Created <=> Pages!Draft!Created
  /\ Draft!NotCreated <=> Pages!Draft!NotCreated
  /\ Draft!Lose <=> Pages!Draft!Lose
  /\ Draft!Tick <=> Pages!Draft!Tick
BY SameDraftCorrected, SameDraftValid, SameDraftBody, SameDraftAccepts, Zenon DEF
   Draft!LastStep, Draft!Fresh, Draft!NoCall, Draft!Acting, Draft!Counted, Draft!Event,
   Draft!Pressable, Draft!StatusOf, Draft!Tellable, Draft!Submit, Draft!ServerCreates,
   Draft!ServerActs, Draft!Created, Draft!NotCreated, Draft!Lose, Draft!Tick,
   Pages!Draft!LastStep, Pages!Draft!Fresh, Pages!Draft!NoCall, Pages!Draft!Acting,
   Pages!Draft!Counted, Pages!Draft!Event, Pages!Draft!Pressable, Pages!Draft!StatusOf,
   Pages!Draft!Tellable, Pages!Draft!Submit, Pages!Draft!ServerCreates,
   Pages!Draft!ServerActs, Pages!Draft!Created, Pages!Draft!NotCreated,
   Pages!Draft!Lose, Pages!Draft!Tick

LEMMA SameDraft ==
  /\ Draft!Init <=> Pages!Draft!Init
  /\ Draft!Next <=> Pages!Draft!Next
  /\ Draft!TypeOK <=> Pages!Draft!TypeOK
  /\ Draft!ReadyIsAccepted <=> Pages!Draft!ReadyIsAccepted
  /\ Draft!CreatedIsThere <=> Pages!Draft!CreatedIsThere
  /\ Draft!EffectsSettle <=> Pages!Draft!EffectsSettle
<1>1. Draft!Init <=> Pages!Draft!Init
  BY Zenon DEF Draft!Fresh, Draft!NoCall, Draft!Opened, Draft!RestoredFrom, Draft!Init,
     Pages!Draft!Fresh, Pages!Draft!NoCall, Pages!Draft!Opened,
     Pages!Draft!RestoredFrom, Pages!Draft!Init
<1>2. Draft!Next <=> Pages!Draft!Next
  BY SameDraftEdits, SameDraftRules, SameDraftMoves, SameDraftAnswers,
     SameDraftCreation, Zenon DEF Draft!Next, Pages!Draft!Next
<1>3. /\ Draft!TypeOK <=> Pages!Draft!TypeOK
      /\ Draft!ReadyIsAccepted <=> Pages!Draft!ReadyIsAccepted
      /\ Draft!CreatedIsThere <=> Pages!Draft!CreatedIsThere
      /\ Draft!EffectsSettle <=> Pages!Draft!EffectsSettle
  BY SameDraftViews, SameDraftCorrected, SameDraftValid, SameDraftBody,
     SameDraftAccepts, Zenon DEF Draft!LastStep, Draft!Formats, Draft!TypeOK,
     Draft!Unsendable, Draft!ReadyIsAccepted, Draft!StatusOf, Draft!CreatedIsThere,
     Draft!EffectsSettle, Pages!Draft!LastStep, Pages!Draft!Formats, Pages!Draft!TypeOK,
     Pages!Draft!Unsendable, Pages!Draft!ReadyIsAccepted, Pages!Draft!StatusOf,
     Pages!Draft!CreatedIsThere, Pages!Draft!EffectsSettle
<1> QED BY <1>1, <1>2, <1>3

LEMMA SamePlanLists ==
  /\ \A r, n : Plan!Find(r, n) = Study!Plan!Find(r, n)
  /\ \A r, f : Plan!ForFormat(r, f) = Study!Plan!ForFormat(r, f)
  /\ \A l, P : Plan!Picked(l, P) = Study!Plan!Picked(l, P)
  /\ \A l, x : Plan!Without(l, x) = Study!Plan!Without(l, x)
BY Zenon DEF Plan!NoRule, Plan!Find, Plan!Picked, Plan!ForFormat, Plan!Without,
   Study!Plan!NoRule, Study!Plan!Find, Study!Plan!Picked, Study!Plan!ForFormat,
   Study!Plan!Without

LEMMA SamePlanViews ==
  /\ \A p : Plan!PickedRules(p) = Study!Plan!PickedRules(p)
  /\ \A p : Plan!Some(p) = Study!Plan!Some(p)
  /\ \A p : Plan!Seen(p) = Study!Plan!Seen(p)
  /\ \A p : Plan!New(p) <=> Study!Plan!New(p)
BY Zenon DEF Plan!NoRule, Plan!Find, Plan!PickedRules, Plan!ToSet, Plan!Some,
   Plan!MaxCommittee, Plan!Seen, Plan!New, Study!Plan!NoRule, Study!Plan!Find,
   Study!Plan!PickedRules, Study!Plan!ToSet, Study!Plan!Some, Study!Plan!MaxCommittee,
   Study!Plan!Seen, Study!Plan!New

LEMMA SamePlanEffects ==
  /\ \A p : Plan!FittedRules(p) = Study!Plan!FittedRules(p)
  /\ \A p : Plan!NoTop(p) <=> Study!Plan!NoTop(p)
  /\ \A p : Plan!FormatFor(p) = Study!Plan!FormatFor(p)
  /\ \A p : Plan!MaxFor(p) = Study!Plan!MaxFor(p)
  /\ \A p : Plan!ScaleFor(p) = Study!Plan!ScaleFor(p)
  /\ \A p : Plan!CommitteeFor(p) = Study!Plan!CommitteeFor(p)
BY SamePlanLists, SamePlanViews, Zenon DEF Plan!NoRule, Plan!ToSet, Plan!DefaultScale,
   Plan!MaxCommittee, Plan!FittedRules, Plan!NoTop, Plan!FormatFor, Plan!MaxFor,
   Plan!ScaleFor, Plan!CommitteeFor, Study!Plan!NoRule, Study!Plan!ToSet,
   Study!Plan!DefaultScale, Study!Plan!MaxCommittee, Study!Plan!FittedRules,
   Study!Plan!NoTop, Study!Plan!FormatFor, Study!Plan!MaxFor, Study!Plan!ScaleFor,
   Study!Plan!CommitteeFor

LEMMA SamePlanCorrected ==
  /\ \A p : Plan!Corrected(p) = Study!Plan!Corrected(p)
BY SamePlanViews, SamePlanEffects, Zenon DEF Plan!Corrected, Study!Plan!Corrected

LEMMA SamePlanSettled ==
  /\ \A p : Plan!Settled(p) = Study!Plan!Settled(p)
  /\ \A p, n : Plan!Becomes(p, n) <=> Study!Plan!Becomes(p, n)
BY SamePlanCorrected, Zenon DEF Plan!Settled, Plan!Becomes, Study!Plan!Settled,
   Study!Plan!Becomes

LEMMA SamePlanChosen ==
  /\ \A p : Plan!FromElection(p) = Study!Plan!FromElection(p)
  /\ \A p : Plan!Chosen(p) = Study!Plan!Chosen(p)
BY Zenon DEF Plan!Clamp, Plan!Asked, Plan!FromElection, Plan!Chosen, Study!Plan!Clamp,
   Study!Plan!Asked, Study!Plan!FromElection, Study!Plan!Chosen

LEMMA SamePlanSources ==
  /\ Plan!RulesArrive <=> Study!Plan!RulesArrive
  /\ Plan!DatasetsArrive <=> Study!Plan!DatasetsArrive
  /\ Plan!ElectionsArrive <=> Study!Plan!ElectionsArrive
  /\ Plan!ChooseSource <=> Study!Plan!ChooseSource
  /\ \A x : Plan!ChooseDataset(x) <=> Study!Plan!ChooseDataset(x)
  /\ \A x : Plan!ChooseElection(x) <=> Study!Plan!ChooseElection(x)
BY SamePlanSettled, SamePlanChosen, Zenon DEF Plan!Sources, Plan!Untouched,
   Plan!RulesArrive, Plan!DatasetsArrive, Plan!ElectionsArrive, Plan!ChooseSource,
   Plan!ChooseDataset, Plan!ChooseElection, Study!Plan!Sources, Study!Plan!Untouched,
   Study!Plan!RulesArrive, Study!Plan!DatasetsArrive, Study!Plan!ElectionsArrive,
   Study!Plan!ChooseSource, Study!Plan!ChooseDataset, Study!Plan!ChooseElection

LEMMA SamePlanDetail ==
  /\ \A i : Plan!DetailArrives(i) <=> Study!Plan!DetailArrives(i)
  /\ \A i : Plan!DetailLost(i) <=> Study!Plan!DetailLost(i)
BY SamePlanSettled, Zenon DEF Plan!Clamp, Plan!RemoveAt, Plan!Shown, Plan!FromDataset,
   Plan!DetailArrives, Plan!DetailLost, Study!Plan!Clamp, Study!Plan!RemoveAt,
   Study!Plan!Shown, Study!Plan!FromDataset, Study!Plan!DetailArrives,
   Study!Plan!DetailLost

LEMMA SamePlanEdits ==
  /\ \A x : Plan!Toggle(x) <=> Study!Plan!Toggle(x)
  /\ Plan!EditFirst <=> Study!Plan!EditFirst
  /\ Plan!EditSource <=> Study!Plan!EditSource
  /\ Plan!EditSecond <=> Study!Plan!EditSecond
BY SamePlanLists, SamePlanViews, SamePlanSettled, Zenon DEF Plan!NoRule, Plan!ToSet,
   Plan!Toggle, Plan!EditFirst, Plan!EditSource, Plan!EditSecond, Plan!Seeds, Study!Plan!Seeds,
   Study!Plan!NoRule,
   Study!Plan!ToSet, Study!Plan!Toggle, Study!Plan!EditFirst, Study!Plan!EditSource,
   Study!Plan!EditSecond

LEMMA SamePlanValid ==
  /\ \A p, t : Plan!Valid(p, t) <=> Study!Plan!Valid(p, t)
BY Zenon DEF Plan!NoRule, Plan!Find, Plan!PickedRules, Plan!ToSet, Plan!Some,
   Plan!Valid, Study!Plan!NoRule, Study!Plan!Find, Study!Plan!PickedRules,
   Study!Plan!ToSet, Study!Plan!Some, Study!Plan!Valid

LEMMA SamePlanMoves ==
  /\ Plan!GoNext <=> Study!Plan!GoNext
  /\ \A s : Plan!GoTo(s) <=> Study!Plan!GoTo(s)
  /\ Plan!Press <=> Study!Plan!Press
BY SamePlanValid, SamePlanSettled, Zenon DEF Plan!LastStep, Plan!GoNext, Plan!GoTo,
   Plan!SourceId, Plan!Sure, Plan!Press, Study!Plan!LastStep, Study!Plan!GoNext,
   Study!Plan!GoTo, Study!Plan!SourceId, Study!Plan!Sure, Study!Plan!Press

LEMMA SamePlanSeries ==
  /\ \A s : Plan!BodyOf(s) = Study!Plan!BodyOf(s)
  /\ \A w : Plan!Whole(w) <=> Study!Plan!Whole(w)
  /\ \A w : Plan!Accepts(w) <=> Study!Plan!Accepts(w)
  /\ Plan!TakeDataset <=> Study!Plan!TakeDataset
  /\ Plan!CreateExperiment <=> Study!Plan!CreateExperiment
  /\ Plan!CreateRefused <=> Study!Plan!CreateRefused
  /\ Plan!BatchRun <=> Study!Plan!BatchRun
  /\ Plan!SeriesFails <=> Study!Plan!SeriesFails
BY SamePlanLists, SamePlanSettled, Zenon DEF Plan!NoScale, Plan!LastStep, Plan!NoSeries,
   Plan!Body, Plan!BodyOf, Plan!Whole, Plan!Accepts, Plan!TakeDataset,
   Plan!CreateExperiment, Plan!CreateRefused, Plan!RunOf, Plan!BatchRun,
   Plan!SeriesFails, Study!Plan!NoScale, Study!Plan!LastStep,
   Study!Plan!NoSeries, Study!Plan!Body, Study!Plan!BodyOf, Study!Plan!Accepts,
   Study!Plan!TakeDataset, Study!Plan!CreateExperiment, Study!Plan!RunOf,
   Study!Plan!Whole, Study!Plan!CreateRefused,
   Study!Plan!BatchRun, Study!Plan!SeriesFails

LEMMA SamePlan ==
  /\ Plan!Init <=> Study!Plan!Init
  /\ Plan!Next <=> Study!Plan!Next
  /\ Plan!TypeOK <=> Study!Plan!TypeOK
  /\ Plan!EffectsSettle <=> Study!Plan!EffectsSettle
  /\ Plan!ReadyIsAccepted <=> Study!Plan!ReadyIsAccepted
  /\ Plan!RunsSuitTheirRule <=> Study!Plan!RunsSuitTheirRule
  /\ Plan!RunsFitTheirSource <=> Study!Plan!RunsFitTheirSource
  /\ Plan!ReportedIsThere <=> Study!Plan!ReportedIsThere
<1>1. Plan!Init <=> Study!Plan!Init
  BY SamePlanSettled, Zenon DEF Plan!NoSeries, Plan!Unseen, Plan!DefaultScale,
     Plan!Fresh, Plan!Init, Study!Plan!NoSeries, Study!Plan!Unseen,
     Study!Plan!DefaultScale, Study!Plan!Fresh, Study!Plan!Init
<1>2. Plan!Next <=> Study!Plan!Next
  BY SamePlanSources, SamePlanDetail, SamePlanEdits, SamePlanMoves, SamePlanSeries,
     Zenon DEF Plan!LastStep, Plan!ToSet, Plan!Next, Study!Plan!LastStep,
     Study!Plan!ToSet, Study!Plan!Next
<1>3. /\ Plan!TypeOK <=> Study!Plan!TypeOK
      /\ Plan!EffectsSettle <=> Study!Plan!EffectsSettle
      /\ Plan!ReadyIsAccepted <=> Study!Plan!ReadyIsAccepted
      /\ Plan!RunsSuitTheirRule <=> Study!Plan!RunsSuitTheirRule
      /\ Plan!RunsFitTheirSource <=> Study!Plan!RunsFitTheirSource
      /\ Plan!ReportedIsThere <=> Study!Plan!ReportedIsThere
  BY SamePlanLists, SamePlanCorrected, SamePlanSeries, Zenon DEF Plan!LastStep,
     Plan!Sources, Plan!Formats, Plan!MaxCommittee, Plan!ToSet, Plan!Cardinality,
     Plan!TypeOK, Plan!EffectsSettle, Plan!ReadyIsAccepted, Plan!RunsSuitTheirRule,
     Plan!RunsFitTheirSource, Plan!ReportedIsThere, Study!Plan!LastStep,
     Study!Plan!Sources, Study!Plan!Formats, Study!Plan!MaxCommittee, Study!Plan!ToSet,
     Study!Plan!Cardinality, Study!Plan!TypeOK, Study!Plan!EffectsSettle,
     Study!Plan!ReadyIsAccepted, Study!Plan!RunsSuitTheirRule,
     Study!Plan!RunsFitTheirSource, Study!Plan!ReportedIsThere
<1> QED BY <1>1, <1>2, <1>3

-----------------------------------------------------------------------------
(* The invariant of the suite.                                             *)

SuiteInv ==
  /\ route = "screens" => Pages!ScreensInv
  /\ route = "invites" => Pages!DeskInv
  /\ route = "rules" => Pages!FormInv
  /\ route = "draft" => Pages!DraftInv
  /\ route = "runs" => Pages!RunsInv
  /\ route = "batch" => BatchPages!RunsInv
  /\ route = "cards" => CardPages!RunsInv
  /\ route = "data" => Study!SetsInv
  /\ route = "plan" => Study!PlanInv

LEMMA InitSuiteInv == ASSUME Init PROVE SuiteInv
<1>1. /\ route = "screens" /\ Screens!Init => Pages!ScreensInv
      /\ route = "invites" /\ Desk!Init => Pages!DeskInv
      /\ route = "rules" /\ Rules!Init => Pages!FormInv
      /\ route = "draft" /\ Draft!Init => Pages!DraftInv
  BY SameScreens, SameDesk, SameForm, SameDraft, DeskValues, FormValues, DraftValues,
     Pages!ScreensStart, Pages!DeskStart, Pages!FormStarts, Pages!DraftStarts
<1>2. /\ route = "runs" /\ RunList!Init => Pages!RunsInv
      /\ route = "batch" /\ RunBatch!Init => BatchPages!RunsInv
      /\ route = "cards" /\ RunCards!Init => CardPages!RunsInv
      /\ route = "data" /\ Sets!Init => Study!SetsInv
      /\ route = "plan" /\ Plan!Init => Study!PlanInv
  BY SameRunList, SameRunBatch, SameRunCards, SameSets, SamePlan, RunValues, SetValues,
     PlanValues, Pages!RunsStart, BatchPages!RunsStart, CardPages!RunsStart,
     Study!SetsStart, Study!PlanStarts
<1> QED BY <1>1, <1>2 DEF Init, SuiteInv

\* A step of the suite is one of the page shown, or none.
LEMMA PageStep ==
  ASSUME [Next]_vars
  PROVE  /\ route' = route
         /\ \/ UNCHANGED <<page, api, past>>
            \/ /\ route = "screens" => Pages!Screens!Next
               /\ route = "invites" => Pages!Desk!Next
               /\ route = "rules" => Pages!Form!Next
               /\ route = "draft" => Pages!Draft!Next
               /\ route = "runs" => Pages!RunsPage!Next
               /\ route = "batch" => BatchPages!RunsPage!Next
               /\ route = "cards" => CardPages!RunsPage!Next
               /\ route = "data" => Study!Sets!Next
               /\ route = "plan" => Study!Plan!Next
BY SameScreens, SameDesk, SameForm, SameDraft, SameRunList, SameRunBatch, SameRunCards,
   SameSets, SamePlan DEF Next, vars

LEMMA NextSuiteInv == ASSUME SuiteInv, [Next]_vars PROVE SuiteInv'
<1>1. CASE UNCHANGED <<page, api, past>>
  <2>1. /\ route = "screens" => Pages!ScreensInv'
        /\ route = "invites" => Pages!DeskInv'
        /\ route = "rules" => Pages!FormInv'
        /\ route = "draft" => Pages!DraftInv'
        /\ route = "runs" => Pages!RunsInv'
        /\ route = "batch" => BatchPages!RunsInv'
        /\ route = "cards" => CardPages!RunsInv'
        /\ route = "data" => Study!SetsInv'
        /\ route = "plan" => Study!PlanInv'
    BY <1>1, Pages!ScreensRest, Pages!DeskRest, Pages!FormRests, Pages!DraftIdles,
       Pages!RunsRest, BatchPages!RunsRest, CardPages!RunsRest, Study!SetsRest,
       Study!PlanIdles DEF SuiteInv
  <2> QED BY <2>1, PageStep DEF SuiteInv
<1>2. CASE ~UNCHANGED <<page, api, past>>
  <2>1. /\ route = "screens" => Pages!ScreensInv'
        /\ route = "invites" => Pages!DeskInv'
        /\ route = "rules" => Pages!FormInv'
        /\ route = "draft" => Pages!DraftInv'
    BY <1>2, PageStep, DeskValues, FormValues, DraftValues, Pages!ScreensGoOn,
       Pages!DeskGoesOn, Pages!FormGoesOn, Pages!DraftGoesOn DEF SuiteInv
  <2>2. /\ route = "runs" => Pages!RunsInv'
        /\ route = "batch" => BatchPages!RunsInv'
        /\ route = "cards" => CardPages!RunsInv'
        /\ route = "data" => Study!SetsInv'
        /\ route = "plan" => Study!PlanInv'
    BY <1>2, PageStep, RunValues, SetValues, PlanValues, Pages!RunsGoOn,
       BatchPages!RunsGoOn, CardPages!RunsGoOn, Study!SetsGoOn, Study!PlanGoesOn
       DEF SuiteInv
  <2> QED BY <2>1, <2>2, PageStep DEF SuiteInv
<1> QED BY <1>1, <1>2

\* The suite keeps its invariant.
THEOREM SuiteInvariant == Spec => []SuiteInv
BY InitSuiteInv, NextSuiteInv, PTL DEF Spec

\* What the invariant says of the page shown.
LEMMA ShownIsRight ==
  ASSUME SuiteInv
  PROVE  /\ route = "screens" => /\ Screens!TypeOK /\ Screens!ToldWasDone
                                 /\ Screens!CardRefusedOnlyIfStale
         /\ route = "invites" => /\ Desk!TypeOK /\ Desk!SummaryIsComplete
                                 /\ Desk!CreatedIsOnRecord /\ Desk!AcceptedOnce
         /\ route = "rules" => /\ Rules!TypeOK /\ Rules!StoredIsSound
                               /\ Rules!UntouchedKeepsRules /\ Rules!ReadyIsAccepted
         /\ route = "draft" => /\ Draft!TypeOK /\ Draft!ReadyIsAccepted
                               /\ Draft!CreatedIsThere /\ Draft!EffectsSettle
         /\ route = "runs" => /\ RunList!TypeOK /\ RunList!AnnouncedOnce
                              /\ RunList!JobEndsWithRun /\ RunList!ListAnswersFilter
         /\ route = "batch" => /\ RunBatch!TypeOK /\ RunBatch!AnnouncedOnce
                               /\ RunBatch!JobEndsWithRun /\ RunBatch!ListAnswersFilter
         /\ route = "cards" => RunCards!TypeOK /\ RunCards!CardIsOfLastRun
         /\ route = "data" => /\ Sets!TypeOK /\ Sets!RunsFitTheirDataset
                              /\ Sets!ReportedIsThere /\ Sets!CardIsOfLastAsked
                              /\ Sets!EachRunHasItsExperiment
         /\ route = "plan" => /\ Plan!TypeOK /\ Plan!EffectsSettle /\ Plan!ReadyIsAccepted
                              /\ Plan!RunsSuitTheirRule /\ Plan!RunsFitTheirSource
                              /\ Plan!ReportedIsThere
<1>1. /\ route = "screens" => /\ Screens!TypeOK /\ Screens!ToldWasDone
                              /\ Screens!CardRefusedOnlyIfStale
      /\ route = "invites" => /\ Desk!TypeOK /\ Desk!SummaryIsComplete
                              /\ Desk!CreatedIsOnRecord /\ Desk!AcceptedOnce
      /\ route = "rules" => /\ Rules!TypeOK /\ Rules!StoredIsSound
                            /\ Rules!UntouchedKeepsRules /\ Rules!ReadyIsAccepted
      /\ route = "draft" => /\ Draft!TypeOK /\ Draft!ReadyIsAccepted
                            /\ Draft!CreatedIsThere /\ Draft!EffectsSettle
  BY SameScreens, SameDesk, SameForm, SameDraft, DeskValues, FormValues, DraftValues,
     Pages!ScreensAreRight, Pages!DesksAreRight, Pages!RulesAreSound, Pages!DraftsAreRight
     DEF SuiteInv
<1>2. /\ route = "runs" => /\ RunList!TypeOK /\ RunList!AnnouncedOnce
                           /\ RunList!JobEndsWithRun /\ RunList!ListAnswersFilter
      /\ route = "batch" => /\ RunBatch!TypeOK /\ RunBatch!AnnouncedOnce
                            /\ RunBatch!JobEndsWithRun /\ RunBatch!ListAnswersFilter
      /\ route = "cards" => RunCards!TypeOK /\ RunCards!CardIsOfLastRun
  BY SameRunList, SameRunBatch, SameRunCards, RunValues, Pages!RunsAreRight,
     BatchPages!RunsAreRight, CardPages!RunsAreRight DEF SuiteInv
<1>3. /\ route = "data" => /\ Sets!TypeOK /\ Sets!RunsFitTheirDataset
                           /\ Sets!ReportedIsThere /\ Sets!CardIsOfLastAsked
                           /\ Sets!EachRunHasItsExperiment
      /\ route = "plan" => /\ Plan!TypeOK /\ Plan!EffectsSettle /\ Plan!ReadyIsAccepted
                           /\ Plan!RunsSuitTheirRule /\ Plan!RunsFitTheirSource
                           /\ Plan!ReportedIsThere
  BY SameSets, SamePlan, PlanValues, Study!SetsAreRight, Study!PlansAreRight, Study!PlansFit
     DEF SuiteInv
<1> QED BY <1>1, <1>2, <1>3

-----------------------------------------------------------------------------
(* What follows from it.                                                   *)

\* Every page keeps to its types: what is typed, read from a file, left by an earlier
\* visit or answered by the API stays within what the pages and the API know.
THEOREM TypesHold == Spec => []TypeOK
<1>1. SuiteInv => TypeOK BY ShownIsRight DEF TypeOK
<1> QED BY <1>1, SuiteInvariant, PTL

\* What a page reports as done, the API has done: invitations are on record and accepted
\* once, actions were carried out for the page that tells of them, the election reported
\* is there in the status reported, and the runs reported are there, all of one dataset
\* (AdminElectionPage.tsx, AdminCreateElectionPage.tsx, DatasetsPage.tsx,
\* ExperimentCreatePage.tsx).
THEOREM ReportsHold == Spec => []ReportsAreTrue
<1>1. SuiteInv => ReportsAreTrue BY ShownIsRight DEF ReportsAreTrue
<1> QED BY <1>1, SuiteInvariant, PTL

\* What a page offers the API accepts: an action of a card is out of place only if the
\* election moved on, and a draft, a form of rules and a plan whose numbers are whole and
\* pass their page's checks pass the API's, whatever was typed, restored or read before
\* (AdminElectionsPage.tsx, AdminCreateElectionPage.tsx, ElectionRulesPage.tsx,
\* ExperimentCreatePage.tsx).
THEOREM OffersAreAccepted == Spec => []OfferedIsAccepted
<1>1. SuiteInv => OfferedIsAccepted BY ShownIsRight DEF OfferedIsAccepted
<1> QED BY <1>1, SuiteInvariant, PTL

\* A run suits its dataset and its rule, although the API compares neither, and has its
\* experiment (DatasetsPage.tsx, ExperimentCreatePage.tsx).
THEOREM RunsFit == Spec => []RunsFitTheirDataset
<1>1. SuiteInv => RunsFitTheirDataset BY ShownIsRight DEF RunsFitTheirDataset
<1> QED BY <1>1, SuiteInvariant, PTL

\* The corrections a form makes to itself come to an end: four renders after an event at
\* the latest, and before a plan is shown (AdminCreateElectionPage.tsx,
\* ExperimentCreatePage.tsx).
THEOREM FormsComeToRest == Spec => []FormsSettle
<1>1. SuiteInv => FormsSettle BY ShownIsRight DEF FormsSettle
<1> QED BY <1>1, SuiteInvariant, PTL

\* No end of a run is announced more often than it has come, and a job that has ended has
\* a run that has (ExperimentRunsPage.tsx, results_consumer.go).
THEOREM EndsAreAnnouncedOnce == Spec => []AnnouncedOnce
<1>1. SuiteInv => AnnouncedOnce BY ShownIsRight DEF AnnouncedOnce
<1> QED BY <1>1, SuiteInvariant, PTL

\* A list of invitations is summed up without a gap but its blank entries, answers lost
\* and texts repeated included (AdminElectionPage.tsx, import_invites.go).
THEOREM SummariesAreComplete == Spec => []SummaryIsComplete
<1>1. SuiteInv => SummaryIsComplete BY ShownIsRight DEF SummaryIsComplete
<1> QED BY <1>1, SuiteInvariant, PTL

\* With nothing under way, and nothing lost or aborted by a filter, a page shows what was
\* asked for last: the list of the filter chosen, unless it is that of a batch ordered
\* under another one, the card and the result of the run opened, the card of the dataset
\* opened or made (ExperimentRunsPage.tsx, DatasetsPage.tsx).
THEOREM PagesAnswerTheQuestion == Spec => []ShownAnswersQuestion
<1>1. SuiteInv => ShownAnswersQuestion BY ShownIsRight DEF ShownAnswersQuestion
<1> QED BY <1>1, SuiteInvariant, PTL

\* The rules on record go together however saves overlap, and a save of a form that was
\* not touched leaves them as they are (ElectionRulesPage.tsx, rules.go).
THEOREM RulesAreKeptSound == Spec => []RulesStaySound
<1>1. SuiteInv => RulesStaySound BY ShownIsRight DEF RulesStaySound
<1> QED BY <1>1, SuiteInvariant, PTL

\* A page of an election never goes back to a status it has left behind, however its
\* loads are overtaken (AdminElectionPage.tsx, ElectionPage.tsx).
THEOREM PagesMoveForward == Spec => ShownMovesForward
<1>1. SuiteInv /\ [Next]_vars => [route = "screens" => Screens!ShownMovesForward]_vars
  <2> SUFFICES ASSUME SuiteInv, Next, route = "screens"
               PROVE  Screens!ShownMovesForward \/ UNCHANGED vars
    OBVIOUS
  <2>1. CASE Pages!Screens!Next
    <3>1. Pages!Screens!ShownMovesForward BY <2>1, Pages!ScreensGoOn DEF SuiteInv
    <3> QED BY <3>1, SameScreens, SMTT(60), ZenonT(60)
  <2>2. CASE UNCHANGED <<page, api, past>> BY <2>2 DEF Next, vars
  <2> QED BY <2>1, <2>2, PageStep
<1> QED BY <1>1, SuiteInvariant, PTL DEF Spec, ShownMovesForward
=============================================================================
