------------------------------ MODULE MCVoterApp ------------------------------
(***************************************************************************)
(* What a voter uses, one component per behaviour: "route" says which, the *)
(* router showing one page at a time.  The components share the names of   *)
(* their variables: page (the state of the page), api (what the backend    *)
(* holds), calls (requests under way) and past (history).                  *)
(*                                                                         *)
(* lists: approvals and rankings of three candidates.  scores: all formats *)
(* with two candidates.  submission: a request, its repetition and another *)
(* ballot.  vote: two tabs, two presses of the submit button.  profile:    *)
(* two codes of two attempts, and an answer lost.                          *)
(***************************************************************************)
EXTENDS Integers, FiniteSets, Sequences

CONSTANTS c1, c2, c3, Empty

ASSUME EmptyIsNobody == Empty \notin {c1, c2, c3}

VARIABLES route, page, api, calls, past
vars == <<route, page, api, calls, past>>

-----------------------------------------------------------------------------
\* A limit of one and of two approvals, fewer positions than candidates and as
\* many, scales with a step, with skipping and with a minimum other than zero.
Rules(format, max, topK, lo, hi, step, skip) ==
  [format |-> format, max |-> max, topK |-> topK, lo |-> lo, hi |-> hi, step |-> step,
   skip |-> skip]
ListRules ==
  {Rules("approval", n, 0, 0, 0, 0, FALSE) : n \in 0..2}
    \cup {Rules("ranking", 0, n, 0, 0, 0, FALSE) : n \in {0, 2}}
ScoreRules ==
  {Rules("score", 0, 0, 0, 4, 2, skip) : skip \in BOOLEAN}
    \cup {Rules("score", 0, 0, 1, 3, 1, FALSE)}
Halves == {-1, 0, 1, 4, 6, 8}

KeysOfThree == [r \in 1..3 |-> IF r = 3 THEN "other" ELSE "same"]

Lists == INSTANCE BallotForm WITH
           Candidates <- {c1, c2, c3}, Metas <- ListRules, Typed <- {}
Scores == INSTANCE BallotForm WITH
            Candidates <- {c1, c2}, Metas <- ScoreRules, Typed <- Halves
Submission == INSTANCE BallotSubmission WITH
                Requests <- 1..3, Keys <- {"same", "other"}, NoKey <- "nokey",
                KeyOf <- KeysOfThree, MaxFaults <- 1
Vote == INSTANCE VotePage WITH
          Tabs <- {"left", "right"}, MaxPresses <- 2, MaxRotations <- 1,
          MaxEvents <- 1
Profile == INSTANCE ProfilePage WITH
             Tabs <- {"left"}, Names <- 0..1, MaxAttempts <- 2, MaxCodes <- 2,
             MaxLosses <- 1

Init ==
  \/ route = "lists" /\ Lists!Init /\ calls = <<>> /\ past = <<>>
  \/ route = "scores" /\ Scores!Init /\ calls = <<>> /\ past = <<>>
  \/ route = "submission" /\ Submission!Init /\ page = <<>>
  \/ route = "vote" /\ Vote!Init
  \/ route = "profile" /\ Profile!Init

Next ==
  /\ UNCHANGED route
  /\ \/ route = "lists" /\ Lists!Next /\ UNCHANGED <<calls, past>>
     \/ route = "scores" /\ Scores!Next /\ UNCHANGED <<calls, past>>
     \/ route = "submission" /\ Submission!Next /\ UNCHANGED page
     \/ route = "vote" /\ Vote!Next
     \/ route = "profile" /\ Profile!Next

\* Requests run until they are answered, Redis expires keys, handlers run.
Fairness ==
  /\ \A r \in 1..3 : WF_vars(route = "submission" /\ Submission!RequestStep(r)
                               /\ UNCHANGED <<route, page>>)
  /\ \A k \in {"same", "other"} :
       WF_vars(route = "submission" /\ Submission!LockExpires(k)
                 /\ UNCHANGED <<route, page>>)
  /\ \A t \in {"left", "right"} :
       /\ WF_vars(route = "vote" /\ Vote!LoadProgress(t) /\ UNCHANGED route)
       /\ WF_vars(route = "vote" /\ Vote!AbortedRunEnds(t) /\ UNCHANGED route)
  /\ \A i \in 1..2 :
       WF_vars(route = "vote" /\ Vote!PressProgress(i) /\ UNCHANGED route)

FairSpec == Init /\ [][Next]_vars /\ Fairness

-----------------------------------------------------------------------------
TypeOK ==
  /\ route = "lists" => Lists!TypeOK
  /\ route = "scores" => Scores!TypeOK
  /\ route = "submission" => Submission!TypeOK
  /\ route = "vote" => Vote!TypeOK
  /\ route = "profile" => Profile!TypeOK

\* A ballot that passes the page's own checks is accepted by the API under the
\* same rules, for every format, limit, scale and typed number.
ReadyIsAccepted ==
  /\ route = "lists" => Lists!ReadyIsAccepted
  /\ route = "scores" => Scores!ReadyIsAccepted

\* The place shown beside a candidate is its place in the ballot sent.
ShownPlaceIsSent == route = "lists" => Lists!ShownPlaceIsSent

\* Whatever keys, locks, faults and concurrent requests do, one ballot is
\* recorded for good and "ok" is told only to requests that carry it: Submit
\* implements BallotBox.
RecordsOneBallotForGood == [][route = "submission" => Submission!BoxStep]_vars

\* A request repeated after the same one was answered "ok" is answered "ok".
RepeatIsOkAgain == route = "submission" => Submission!RepeatIsOkAgain

\* A request dying with its lock held blocks its key for a while only.
LockIsFreedAgain ==
  \A k \in {"same", "other"} :
    (route = "submission" /\ k \in api.locked)
      ~> (route = "submission" /\ k \notin api.locked)

\* The voter is told of success for the recorded ballot and for no other, and that
\* the address is verified or contact data are saved only when they are.
NoticesAreTrue ==
  /\ route = "vote" => Vote!NoticeIsForTheRecordedBallot
  /\ route = "profile" => Profile!NoticesAreTrue

\* An address becomes verified only by the newest code, unexpired, and before
\* MaxAttempts codes that do not match, whatever requests are lost, late or under
\* way at once.
VerifiedByLiveCode == [][route = "profile" => Profile!VerifyStep]_vars

\* A page whose ballot was recorded stops offering it, or its reload ran out of time.
SuccessIsShown ==
  \A i \in 1..2 : \A t \in {"left", "right"} :
    (route = "vote" /\ Vote!Noticed(i, t))
      ~> (route = "vote" /\ (Vote!NoLongerOffered(t) \/ Vote!RanOutOfTime(t)))
=============================================================================
