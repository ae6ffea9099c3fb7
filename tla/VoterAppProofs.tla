----------------------------- MODULE VoterAppProofs -----------------------------
(***************************************************************************)
(* What the runs of MCVoterApp check, proved of the suite: the lemmas of   *)
(* the pages, which hold for any tabs, candidates, keys and bounds, at the *)
(* values MCVoterApp gives them.  The suite's invariant is that of the     *)
(* page the route shows.                                                   *)
(***************************************************************************)
EXTENDS MCVoterApp, TLAPS

Pages == INSTANCE VoterPagesProofs WITH
           VoteTabs <- {"left", "right"}, MaxPresses <- 2, MaxRotations <- 1,
           MaxEvents <- 1, ProfileTabs <- {"left"}, Names <- 0..1, MaxAttempts <- 2,
           MaxCodes <- 2, MaxLosses <- 1,
           Candidates <- {c1, c2, c3}, Metas <- ListRules, Typed <- {},
           Requests <- 1..3, Keys <- {"same", "other"}, NoKey <- "nokey",
           KeyOf <- KeysOfThree, MaxFaults <- 1
ScorePages == INSTANCE VoterPagesProofs WITH
                VoteTabs <- {"left", "right"}, MaxPresses <- 2, MaxRotations <- 1,
                MaxEvents <- 1, ProfileTabs <- {"left"}, Names <- 0..1, MaxAttempts <- 2,
                MaxCodes <- 2, MaxLosses <- 1,
                Candidates <- {c1, c2}, Metas <- ScoreRules, Typed <- Halves,
                Requests <- 1..3, Keys <- {"same", "other"}, NoKey <- "nokey",
                KeyOf <- KeysOfThree, MaxFaults <- 1

-----------------------------------------------------------------------------
(* The values of the suite are such as the pages' lemmas ask for.          *)

LEMMA SendingParameters == Pages!SubmissionParameters
BY DEF Pages!SubmissionParameters, KeysOfThree

LEMMA VoteAndProfileParameters == Pages!VoteParameters /\ Pages!ProfileParameters
BY DEF Pages!VoteParameters, Pages!ProfileParameters

LEMMA RulesTyped ==
  ASSUME NEW f \in {"approval", "ranking", "score"}, NEW max \in Nat, NEW topK \in Nat,
         NEW lo \in Int, NEW hi \in Int, NEW step \in Nat, NEW skip \in BOOLEAN
  PROVE  Rules(f, max, topK, lo, hi, step, skip)
           \in [format : {"approval", "ranking", "score"}, max : Nat, topK : Nat,
               lo : Int, hi : Int, step : Nat, skip : BOOLEAN]
<1> DEFINE B == BOOLEAN
<1>1. skip \in B OBVIOUS
<1> HIDE DEF B
<1>2. Rules(f, max, topK, lo, hi, step, skip)
        \in [format : {"approval", "ranking", "score"}, max : Nat, topK : Nat,
            lo : Int, hi : Int, step : Nat, skip : B]
  BY <1>1 DEF Rules
<1> QED BY <1>2 DEF B

LEMMA ListParameters == Pages!FormParameters
<1>1. Pages!IsFiniteSet({c1, c2, c3})
  <2>1. <<c1, c2, c3>> \in Seq({c1, c2, c3}) OBVIOUS
  <2>2. \A c \in {c1, c2, c3} : \E n \in 1..Len(<<c1, c2, c3>>) : <<c1, c2, c3>>[n] = c
    OBVIOUS
  <2> QED BY <2>1, <2>2 DEF Pages!IsFiniteSet
<1>2. ListRules \subseteq Pages!Form!Meta
  <2>1. ASSUME NEW n \in Nat, NEW skip \in BOOLEAN
        PROVE  /\ Rules("approval", n, 0, 0, 0, 0, skip) \in Pages!Form!Meta
               /\ Rules("ranking", 0, n, 0, 0, 0, skip) \in Pages!Form!Meta
    BY RulesTyped DEF Pages!Form!Meta
  <2>2. ASSUME NEW n \in Nat
        PROVE  /\ Rules("approval", n, 0, 0, 0, 0, FALSE) \in Pages!Form!Meta
               /\ Rules("ranking", 0, n, 0, 0, 0, FALSE) \in Pages!Form!Meta
    BY <2>1, Zenon
  <2>3. 0..2 \subseteq Nat /\ {0, 2} \subseteq Nat OBVIOUS
  <2> QED BY <2>2, <2>3, Zenon DEF ListRules
<1> QED BY <1>1, <1>2, EmptyIsNobody DEF Pages!FormParameters

LEMMA ScoreParameters == ScorePages!FormParameters
<1>1. ScorePages!IsFiniteSet({c1, c2})
  <2>1. <<c1, c2>> \in Seq({c1, c2}) OBVIOUS
  <2>2. \A c \in {c1, c2} : \E n \in 1..Len(<<c1, c2>>) : <<c1, c2>>[n] = c OBVIOUS
  <2> QED BY <2>1, <2>2 DEF ScorePages!IsFiniteSet
<1>2. ScoreRules \subseteq ScorePages!Form!Meta
  <2>1. ASSUME NEW skip \in BOOLEAN
        PROVE  Rules("score", 0, 0, 0, 4, 2, skip) \in ScorePages!Form!Meta
    BY RulesTyped DEF ScorePages!Form!Meta
  <2>2. ASSUME NEW skip \in BOOLEAN
        PROVE  Rules("score", 0, 0, 1, 3, 1, skip) \in ScorePages!Form!Meta
    BY RulesTyped DEF ScorePages!Form!Meta
  <2> QED BY <2>1, <2>2, Zenon DEF ScoreRules
<1>3. Halves \subseteq Int BY DEF Halves
<1> QED BY <1>1, <1>2, <1>3, EmptyIsNobody DEF ScorePages!FormParameters

-----------------------------------------------------------------------------
(* The suite's instances and the lemmas' instances are the same pages.     *)

LEMMA SameLists ==
  /\ Lists!Init <=> Pages!Form!Init
  /\ Lists!Next <=> Pages!Form!Next
  /\ Lists!TypeOK <=> Pages!Form!TypeOK
  /\ Lists!ReadyIsAccepted <=> Pages!Form!ReadyIsAccepted
  /\ Lists!ShownPlaceIsSent <=> Pages!Form!ShownPlaceIsSent
BY Zenon DEF Lists!TypeOK, Lists!Kept, Lists!SlotCount, Lists!BlankSlots,
   Lists!InitialScores, Lists!Init, Lists!Reload, Lists!UpdateRules, Lists!Approved,
   Lists!Toggled, Lists!ToggleApproval, Lists!Assigned, Lists!Selectable,
   Lists!SetRankingSlot, Lists!ClearRankingAll, Lists!SetScore, Lists!Next,
   Lists!Ranking, Lists!PlaceOf, Lists!Distinct, Lists!WithinLimit, Lists!NoGap,
   Lists!ApprovalReady, Lists!RankingReady, Lists!ScoreReady, Lists!Ready,
   Lists!ListAccepted, Lists!ScoresAccepted, Lists!Accepted, Lists!ReadyIsAccepted,
   Lists!ShownPlaceIsSent, Lists!Cardinality, Pages!Form!TypeOK, Pages!Form!Kept,
   Pages!Form!SlotCount, Pages!Form!BlankSlots, Pages!Form!InitialScores,
   Pages!Form!Init, Pages!Form!Reload, Pages!Form!UpdateRules, Pages!Form!Approved,
   Pages!Form!Toggled, Pages!Form!ToggleApproval, Pages!Form!Assigned,
   Pages!Form!Selectable, Pages!Form!SetRankingSlot, Pages!Form!ClearRankingAll,
   Pages!Form!SetScore, Pages!Form!Next, Pages!Form!Ranking, Pages!Form!PlaceOf,
   Pages!Form!Distinct, Pages!Form!WithinLimit, Pages!Form!NoGap,
   Pages!Form!ApprovalReady, Pages!Form!RankingReady, Pages!Form!ScoreReady,
   Pages!Form!Ready, Pages!Form!ListAccepted, Pages!Form!ScoresAccepted,
   Pages!Form!Accepted, Pages!Form!ReadyIsAccepted, Pages!Form!ShownPlaceIsSent,
   Pages!Form!Cardinality

LEMMA SameScores ==
  /\ Scores!Init <=> ScorePages!Form!Init
  /\ Scores!Next <=> ScorePages!Form!Next
  /\ Scores!TypeOK <=> ScorePages!Form!TypeOK
  /\ Scores!ReadyIsAccepted <=> ScorePages!Form!ReadyIsAccepted
BY Zenon DEF Scores!TypeOK, Scores!Kept, Scores!SlotCount, Scores!BlankSlots,
   Scores!InitialScores, Scores!Init, Scores!Reload, Scores!UpdateRules,
   Scores!Approved, Scores!Toggled, Scores!ToggleApproval, Scores!Assigned,
   Scores!Selectable, Scores!SetRankingSlot, Scores!ClearRankingAll, Scores!SetScore,
   Scores!Next, Scores!Ranking, Scores!Distinct, Scores!WithinLimit, Scores!NoGap,
   Scores!ApprovalReady, Scores!RankingReady, Scores!ScoreReady, Scores!Ready,
   Scores!ListAccepted, Scores!ScoresAccepted, Scores!Accepted, Scores!ReadyIsAccepted,
   Scores!Cardinality, ScorePages!Form!TypeOK, ScorePages!Form!Kept,
   ScorePages!Form!SlotCount, ScorePages!Form!BlankSlots, ScorePages!Form!InitialScores,
   ScorePages!Form!Init, ScorePages!Form!Reload, ScorePages!Form!UpdateRules,
   ScorePages!Form!Approved, ScorePages!Form!Toggled, ScorePages!Form!ToggleApproval,
   ScorePages!Form!Assigned, ScorePages!Form!Selectable, ScorePages!Form!SetRankingSlot,
   ScorePages!Form!ClearRankingAll, ScorePages!Form!SetScore, ScorePages!Form!Next,
   ScorePages!Form!Ranking, ScorePages!Form!Distinct, ScorePages!Form!WithinLimit,
   ScorePages!Form!NoGap, ScorePages!Form!ApprovalReady, ScorePages!Form!RankingReady,
   ScorePages!Form!ScoreReady, ScorePages!Form!Ready, ScorePages!Form!ListAccepted,
   ScorePages!Form!ScoresAccepted, ScorePages!Form!Accepted,
   ScorePages!Form!ReadyIsAccepted, ScorePages!Form!Cardinality

LEMMA SameSubmission ==
  /\ Submission!Init <=> Pages!Ballot!Init
  /\ Submission!Next <=> Pages!Ballot!Next
  /\ Submission!TypeOK <=> Pages!Ballot!TypeOK
  /\ Submission!RepeatIsOkAgain <=> Pages!Ballot!RepeatIsOkAgain
BY Zenon DEF Submission!Stages, Submission!Codes, Submission!TypeOK, Submission!Init,
   Submission!At, Submission!Go, Submission!Answer, Submission!GoTelling,
   Submission!Told, Submission!Send, Submission!CheckStatus, Submission!Look,
   Submission!ReadCache, Submission!LockedOut, Submission!TakeLock,
   Submission!FindAnswer, Submission!GiveUp, Submission!Inserted, Submission!Insert,
   Submission!Cached, Submission!Store, Submission!Unlock, Submission!Fault,
   Submission!RedisFails, Submission!Dies, Submission!AnswerExpires,
   Submission!Expirable, Submission!LockExpires, Submission!Close,
   Submission!RequestStep, Submission!Next, Submission!RepeatIsOkAgain,
   Pages!Ballot!Stages, Pages!Ballot!Codes, Pages!Ballot!TypeOK, Pages!Ballot!Init,
   Pages!Ballot!At, Pages!Ballot!Go, Pages!Ballot!Answer, Pages!Ballot!GoTelling,
   Pages!Ballot!Told, Pages!Ballot!Send, Pages!Ballot!CheckStatus, Pages!Ballot!Look,
   Pages!Ballot!ReadCache, Pages!Ballot!LockedOut, Pages!Ballot!TakeLock,
   Pages!Ballot!FindAnswer, Pages!Ballot!GiveUp, Pages!Ballot!Inserted,
   Pages!Ballot!Insert, Pages!Ballot!Cached, Pages!Ballot!Store, Pages!Ballot!Unlock,
   Pages!Ballot!Fault, Pages!Ballot!RedisFails, Pages!Ballot!Dies,
   Pages!Ballot!AnswerExpires, Pages!Ballot!Expirable, Pages!Ballot!LockExpires,
   Pages!Ballot!Close, Pages!Ballot!RequestStep, Pages!Ballot!Next,
   Pages!Ballot!RepeatIsOkAgain

LEMMA SameVote ==
  /\ Vote!Init <=> Pages!Vote!Init
  /\ Vote!Next <=> Pages!Vote!Next
  /\ Vote!TypeOK <=> Pages!Vote!TypeOK
  /\ Vote!NoticeIsForTheRecordedBallot <=> Pages!Vote!NoticeIsForTheRecordedBallot
BY Zenon DEF Vote!NoRun, Vote!Asked, Vote!Page, Vote!Press, Vote!TypeOK, Vote!Opened,
   Vote!Init, Vote!SignedOut, Vote!Loaded, Vote!LoadFailed, Vote!LoadTimedOut, Vote!Reloading,
   Vote!Present, Vote!Event, Vote!PressRefresh, Vote!ServerLoads, Vote!ReloadEnds,
   Vote!AbortedRunEnds, Vote!Sending, Vote!PressSubmit, Vote!Verdict,
   Vote!ServerSubmits, Vote!Recorded, Vote!ErrorOf, Vote!SubmitEnds, Vote!Rotate,
   Vote!Close, Vote!LoadLost, Vote!SubmitLost, Vote!Next,
   Vote!NoticeIsForTheRecordedBallot, Pages!Vote!NoRun, Pages!Vote!Asked,
   Pages!Vote!Page, Pages!Vote!Press, Pages!Vote!TypeOK, Pages!Vote!Opened,
   Pages!Vote!Init, Pages!Vote!SignedOut, Pages!Vote!Loaded, Pages!Vote!LoadFailed,
   Pages!Vote!LoadTimedOut, Pages!Vote!Reloading, Pages!Vote!Present,
   Pages!Vote!Event, Pages!Vote!PressRefresh,
   Pages!Vote!ServerLoads, Pages!Vote!ReloadEnds, Pages!Vote!AbortedRunEnds,
   Pages!Vote!Sending, Pages!Vote!PressSubmit, Pages!Vote!Verdict,
   Pages!Vote!ServerSubmits, Pages!Vote!Recorded, Pages!Vote!ErrorOf,
   Pages!Vote!SubmitEnds, Pages!Vote!Rotate, Pages!Vote!Close, Pages!Vote!LoadLost,
   Pages!Vote!SubmitLost, Pages!Vote!Next, Pages!Vote!NoticeIsForTheRecordedBallot

LEMMA SameProfile ==
  /\ Profile!Init <=> Pages!Profile!Init
  /\ Profile!Next <=> Pages!Profile!Next
  /\ Profile!TypeOK <=> Pages!Profile!TypeOK
  /\ Profile!NoticesAreTrue <=> Pages!Profile!NoticesAreTrue
  /\ Profile!VerifyStep <=> Pages!Profile!VerifyStep
BY Zenon DEF Profile!Code, Profile!Me, Profile!Account, Profile!Fresh, Profile!Unused,
   Profile!Latest, Profile!Use, Profile!Requested, Profile!Verdict, Profile!Confirmed,
   Profile!Renamed, Profile!Buttons, Profile!Idle, Profile!Call, Profile!NoOne,
   Profile!Late, Profile!TypeOK, Profile!Init, Profile!At, Profile!Send, Profile!Answer,
   Profile!AnswerUser, Profile!PressRequest, Profile!PressConfirm, Profile!PressSave,
   Profile!Runs, Profile!ServerRequest, Profile!ServerConfirm, Profile!ServerSave,
   Profile!ServerMe, Profile!End, Profile!RequestAnswered, Profile!ConfirmAnswered,
   Profile!SaveAnswered, Profile!AnswerLost, Profile!ServeLate, Profile!CodeExpires,
   Profile!Next, Profile!Confirming, Profile!VerifyStep, Profile!NoticesAreTrue,
   Profile!Cardinality, Pages!Profile!Code, Pages!Profile!Me, Pages!Profile!Account,
   Pages!Profile!Fresh, Pages!Profile!Unused, Pages!Profile!Latest, Pages!Profile!Use,
   Pages!Profile!Requested, Pages!Profile!Verdict, Pages!Profile!Confirmed,
   Pages!Profile!Renamed, Pages!Profile!Buttons, Pages!Profile!Idle, Pages!Profile!Call,
   Pages!Profile!NoOne, Pages!Profile!Late, Pages!Profile!TypeOK, Pages!Profile!Init,
   Pages!Profile!At, Pages!Profile!Send, Pages!Profile!Answer, Pages!Profile!AnswerUser,
   Pages!Profile!PressRequest, Pages!Profile!PressConfirm, Pages!Profile!PressSave,
   Pages!Profile!Runs, Pages!Profile!ServerRequest, Pages!Profile!ServerConfirm,
   Pages!Profile!ServerSave, Pages!Profile!ServerMe, Pages!Profile!End,
   Pages!Profile!RequestAnswered, Pages!Profile!ConfirmAnswered,
   Pages!Profile!SaveAnswered, Pages!Profile!AnswerLost, Pages!Profile!ServeLate,
   Pages!Profile!CodeExpires, Pages!Profile!Next, Pages!Profile!Confirming,
   Pages!Profile!VerifyStep, Pages!Profile!NoticesAreTrue, Pages!Profile!Cardinality

LEMMA SameBox == Submission!BoxStep <=> Pages!Ballot!BoxStep
BY Zenon DEF Submission!BoxStep, Submission!BoxAnswer, Submission!At,
   Submission!Box!boxVars, Submission!Box!Record, Submission!Box!TellAccepted,
   Submission!Box!TellOther, Submission!Box!BoxNext, Pages!Ballot!BoxStep,
   Pages!Ballot!BoxAnswer, Pages!Ballot!At, Pages!Ballot!Box!boxVars,
   Pages!Ballot!Box!Record, Pages!Ballot!Box!TellAccepted, Pages!Ballot!Box!TellOther,
   Pages!Ballot!Box!BoxNext

-----------------------------------------------------------------------------
(* The invariant of the suite.                                             *)

SuiteInv ==
  /\ route = "lists" => Pages!FormInv
  /\ route = "scores" => ScorePages!FormInv
  /\ route = "submission" => Pages!SubmissionInv
  /\ route = "vote" => Pages!VoteInv
  /\ route = "profile" => Pages!ProfileInv

LEMMA InitSuiteInv == Init => SuiteInv
<1> SUFFICES ASSUME Init PROVE SuiteInv OBVIOUS
<1>1. CASE route = "lists" /\ Lists!Init
  BY <1>1, SameLists, ListParameters, Pages!InitFormInv DEF SuiteInv
<1>2. CASE route = "scores" /\ Scores!Init
  BY <1>2, SameScores, ScoreParameters, ScorePages!InitFormInv DEF SuiteInv
<1>3. CASE route = "submission" /\ Submission!Init
  BY <1>3, SameSubmission, SendingParameters, Pages!InitSubmissionInv DEF SuiteInv
<1>4. CASE route = "vote" /\ Vote!Init
  BY <1>4, SameVote, VoteAndProfileParameters, Pages!InitVoteInv DEF SuiteInv
<1>5. CASE route = "profile" /\ Profile!Init
  BY <1>5, SameProfile, VoteAndProfileParameters, Pages!InitProfileInv DEF SuiteInv
<1> QED BY <1>1, <1>2, <1>3, <1>4, <1>5 DEF Init

\* A step of the suite is one of the page shown, or none.
LEMMA PageStep ==
  ASSUME [Next]_vars
  PROVE  /\ route' = route
         /\ route = "lists" => [Pages!Form!Next]_(Pages!Form!vars)
         /\ route = "scores" => [ScorePages!Form!Next]_(ScorePages!Form!vars)
         /\ route = "submission" => [Pages!Ballot!Next]_(Pages!Ballot!vars)
         /\ route = "vote" => [Pages!Vote!Next]_(Pages!Vote!vars)
         /\ route = "profile" => [Pages!Profile!Next]_(Pages!Profile!vars)
<1>1. CASE UNCHANGED vars
  BY <1>1 DEF vars, Pages!Form!vars, ScorePages!Form!vars, Pages!Ballot!vars,
              Pages!Vote!vars, Pages!Profile!vars
<1>2. CASE Next
  BY <1>2, SameLists, SameScores, SameSubmission, SameVote, SameProfile DEF Next
<1> QED BY <1>1, <1>2

LEMMA NextSuiteInv == SuiteInv /\ [Next]_vars => SuiteInv'
<1> SUFFICES ASSUME SuiteInv, [Next]_vars PROVE SuiteInv' OBVIOUS
<1>1. route' = route BY PageStep
<1>2. CASE route = "lists"
  <2>1. Pages!FormInv /\ [Pages!Form!Next]_(Pages!Form!vars)
    BY <1>2, PageStep DEF SuiteInv
  <2>2. Pages!FormInv' BY <2>1, ListParameters, Pages!NextFormInv
  <2> QED BY <1>1, <1>2, <2>2 DEF SuiteInv
<1>3. CASE route = "scores"
  <2>1. ScorePages!FormInv /\ [ScorePages!Form!Next]_(ScorePages!Form!vars)
    BY <1>3, PageStep DEF SuiteInv
  <2>2. ScorePages!FormInv' BY <2>1, ScoreParameters, ScorePages!NextFormInv
  <2> QED BY <1>1, <1>3, <2>2 DEF SuiteInv
<1>4. CASE route = "submission"
  <2>1. Pages!SubmissionInv /\ [Pages!Ballot!Next]_(Pages!Ballot!vars)
    BY <1>4, PageStep DEF SuiteInv
  <2>2. Pages!SubmissionInv' BY <2>1, SendingParameters, Pages!NextSubmissionInv
  <2> QED BY <1>1, <1>4, <2>2 DEF SuiteInv
<1>5. CASE route = "vote"
  <2>1. Pages!VoteInv /\ [Pages!Vote!Next]_(Pages!Vote!vars)
    BY <1>5, PageStep DEF SuiteInv
  <2>2. Pages!VoteInv' BY <2>1, VoteAndProfileParameters, Pages!NextVoteInv
  <2> QED BY <1>1, <1>5, <2>2 DEF SuiteInv
<1>6. CASE route = "profile"
  <2>1. Pages!ProfileInv /\ [Pages!Profile!Next]_(Pages!Profile!vars)
    BY <1>6, PageStep DEF SuiteInv
  <2>2. Pages!ProfileInv' BY <2>1, VoteAndProfileParameters, Pages!NextProfileInv
  <2> QED BY <1>1, <1>6, <2>2 DEF SuiteInv
<1>7. CASE route \notin {"lists", "scores", "submission", "vote", "profile"}
  BY <1>1, <1>7 DEF SuiteInv
<1> QED BY <1>2, <1>3, <1>4, <1>5, <1>6, <1>7

\* The suite keeps its invariant.
THEOREM SuiteInvariant == FairSpec => []SuiteInv
BY InitSuiteInv, NextSuiteInv, PTL DEF FairSpec

-----------------------------------------------------------------------------
(* What follows from it.                                                   *)

\* Every page, request and answer is of its type.
THEOREM TypesHold == FairSpec => []TypeOK
<1>1. SuiteInv => TypeOK
  <2> SUFFICES ASSUME SuiteInv PROVE TypeOK OBVIOUS
  <2>1. route = "lists" => Lists!TypeOK BY SameLists, Pages!FormTypes DEF SuiteInv
  <2>2. route = "scores" => Scores!TypeOK
    BY SameScores, ScorePages!FormTypes DEF SuiteInv
  <2>3. route = "submission" => Submission!TypeOK
    BY SameSubmission DEF SuiteInv, Pages!SubmissionInv
  <2>4. route = "vote" => Vote!TypeOK BY SameVote DEF SuiteInv, Pages!VoteInv
  <2>5. route = "profile" => Profile!TypeOK
    BY SameProfile, Pages!ProfileInvIsTrue DEF SuiteInv
  <2> QED BY <2>1, <2>2, <2>3, <2>4, <2>5 DEF TypeOK
<1> QED BY <1>1, SuiteInvariant, PTL

\* A ballot that passes the page's checks is accepted by the API under the same rules
\* (validateBeforeSubmit in VotePage.tsx, internal/ballots/validation.go).
THEOREM ReadyBallotsAreAccepted == FairSpec => []ReadyIsAccepted
<1>1. SuiteInv => ReadyIsAccepted
  <2> SUFFICES ASSUME SuiteInv PROVE ReadyIsAccepted OBVIOUS
  <2>1. route = "lists" => Lists!ReadyIsAccepted
    BY SameLists, ListParameters, Pages!FormReadyIsAccepted
    DEF SuiteInv, Pages!Form!ReadyIsAccepted
  <2>2. route = "scores" => Scores!ReadyIsAccepted
    BY SameScores, ScoreParameters, ScorePages!FormReadyIsAccepted
    DEF SuiteInv, ScorePages!Form!ReadyIsAccepted
  <2> QED BY <2>1, <2>2 DEF ReadyIsAccepted
<1> QED BY <1>1, SuiteInvariant, PTL

\* The place shown beside a candidate is its place in the ballot sent
\* (assignedRankingMap in VotePage.tsx).
THEOREM ShownPlacesAreSent == FairSpec => []ShownPlaceIsSent
<1>1. SuiteInv => ShownPlaceIsSent
  BY SameLists, ListParameters, Pages!FormShownPlaceIsSent DEF SuiteInv, ShownPlaceIsSent
<1> QED BY <1>1, SuiteInvariant, PTL

\* A repetition of an answered request is answered alike (submit.go).
THEOREM RepetitionsAreAnswered == FairSpec => []RepeatIsOkAgain
<1>1. SuiteInv => RepeatIsOkAgain
  BY SameSubmission
  DEF SuiteInv, RepeatIsOkAgain, Pages!SubmissionInv, Pages!RepeatsStopAtCache,
      Pages!Ballot!RepeatIsOkAgain, Pages!Ballot!At
<1> QED BY <1>1, SuiteInvariant, PTL

\* Success is told of the recorded ballot alone, and an address is called verified, or
\* data saved, only when they are (VotePage.tsx, ProfilePage.tsx).
THEOREM NoticesStayTrue == FairSpec => []NoticesAreTrue
<1>1. SuiteInv => NoticesAreTrue
  BY SameVote, SameProfile, Pages!ProfileInvIsTrue
  DEF SuiteInv, NoticesAreTrue, Pages!VoteInv
<1> QED BY <1>1, SuiteInvariant, PTL

\* Every step of submitting is a step of the box of one ballot, or none (submit.go).
THEOREM OneBallotForGood == FairSpec => RecordsOneBallotForGood
<1>1. SuiteInv /\ [Next]_vars => (route = "submission" => Submission!BoxStep)
  <2> SUFFICES ASSUME SuiteInv, [Next]_vars, route = "submission"
               PROVE  Submission!BoxStep
    OBVIOUS
  <2>1. Pages!SubmissionInv /\ [Pages!Ballot!Next]_(Pages!Ballot!vars) BY PageStep DEF SuiteInv
  <2>2. Pages!Ballot!BoxStep BY <2>1, SendingParameters, Pages!NextShows
  <2> QED BY <2>2, SameBox
<1> QED BY <1>1, SuiteInvariant, PTL DEF FairSpec, RecordsOneBallotForGood

\* An address becomes verified by its newest code alone, unexpired, and before
\* MaxAttempts codes that do not match (email_verification.go).
THEOREM VerifiedByNewestCode == FairSpec => VerifiedByLiveCode
<1>1. SuiteInv /\ [Next]_vars => (route = "profile" => Profile!VerifyStep)
  <2> SUFFICES ASSUME SuiteInv, [Next]_vars, route = "profile" PROVE Profile!VerifyStep
    OBVIOUS
  <2>1. Pages!ProfileInv /\ [Pages!Profile!Next]_(Pages!Profile!vars)
    BY PageStep DEF SuiteInv
  <2> QED BY <2>1, VoteAndProfileParameters, Pages!VerifyStepIsKept, SameProfile
<1> QED BY <1>1, SuiteInvariant, PTL DEF FairSpec, VerifiedByLiveCode
=============================================================================
