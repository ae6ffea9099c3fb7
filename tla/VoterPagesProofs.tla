---------------------------- MODULE VoterPagesProofs ----------------------------
(***************************************************************************)
(* Theorems about VotePage, ProfilePage, BallotForm and BallotSubmission,  *)
(* for any tabs, candidates, rules, requests, keys and bounds.             *)
(*                                                                         *)
(* VotePage: a press told "ok" is the one whose ballot the API recorded,   *)
(* for it records no second one.  ProfilePage: only the newest code can be *)
(* unused, and while it is, its attempts are the codes that did not match  *)
(* since it was made.  BallotForm: approvals name candidates once each;    *)
(* what the filter of a list keeps is shown by induction over its prefixes.*)
(* BallotSubmission: a request is told "ok" by the insert or by a cached   *)
(* answer.  The ballot on record is that of the key in both cases, since   *)
(* nothing is cached before its ballot is recorded and a recorded ballot   *)
(* stays.                                                                  *)
(***************************************************************************)
EXTENDS Integers, Sequences, FiniteSets, SequenceTheorems, FiniteSetTheorems,
        WellFoundedInduction, TLAPS

CONSTANTS VoteTabs, MaxPresses, MaxRotations, MaxEvents,
          ProfileTabs, Names, MaxAttempts, MaxCodes, MaxLosses,
          Candidates, Metas, Typed, Empty,
          Requests, Keys, NoKey, KeyOf, MaxFaults

VARIABLES page, api, calls, past

Vote == INSTANCE VotePage WITH Tabs <- VoteTabs
Profile == INSTANCE ProfilePage WITH Tabs <- ProfileTabs
Form == INSTANCE BallotForm
Ballot == INSTANCE BallotSubmission

-----------------------------------------------------------------------------
(* VotePage.                                                               *)

VoteParameters == MaxRotations \in Nat /\ MaxEvents \in Nat

\* Every press told "ok" is the one recorded, and a press has its record or none.
VoteInv == Vote!TypeOK /\ Vote!NoticeIsForTheRecordedBallot

LEMMA InitVoteInv == ASSUME VoteParameters PROVE Vote!Init => VoteInv
<1> SUFFICES ASSUME Vote!Init PROVE VoteInv OBVIOUS
<1>1. calls = <<>> /\ api = [open |-> TRUE, ballot |-> 0, session |-> 1]
      /\ past = [events |-> 0] /\ page = [t \in VoteTabs |-> Vote!Opened]
  BY DEF Vote!Init
<1>2. Vote!Opened \in Vote!Page BY DEF Vote!Opened, Vote!Page, Vote!Asked
<1>3. api \in [open : BOOLEAN, ballot : 0..Len(calls), session : 1..(MaxRotations + 1)]
  BY <1>1 DEF VoteParameters
<1>4. past \in [events : 0..MaxEvents] BY <1>1 DEF VoteParameters
<1>5. Vote!TypeOK BY <1>1, <1>2, <1>3, <1>4 DEF Vote!TypeOK
<1>6. QED BY <1>1, <1>5 DEF VoteInv, Vote!NoticeIsForTheRecordedBallot

\* A step of one tab's page alone.
LEMMA PageStepKeeps ==
  ASSUME VoteInv, NEW t \in VoteTabs, NEW p \in Vote!Page,
         page' = [page EXCEPT ![t] = p], calls' = calls, api'.ballot = api.ballot,
         api' \in [open : BOOLEAN, ballot : 0..Len(calls), session : 1..(MaxRotations + 1)],
         past' \in [events : 0..MaxEvents]
  PROVE  VoteInv'
<1>1. page' \in [VoteTabs -> Vote!Page] BY DEF VoteInv, Vote!TypeOK
<1>2. Vote!TypeOK' BY <1>1 DEF VoteInv, Vote!TypeOK
<1>3. QED BY <1>2 DEF VoteInv, Vote!NoticeIsForTheRecordedBallot

\* The types of what VotePage's actions are made of.
LEMMA VoteFields ==
  ASSUME VoteInv, VoteParameters
  PROVE  /\ page \in [VoteTabs -> Vote!Page] /\ calls \in Seq(Vote!Press)
         /\ api \in [open : BOOLEAN, ballot : 0..Len(calls), session : 1..(MaxRotations + 1)]
         /\ past \in [events : 0..MaxEvents]
         /\ Vote!Event => past' \in [events : 0..MaxEvents]
         /\ api.session \in Nat
BY DEF VoteInv, Vote!TypeOK, Vote!Event, VoteParameters

VoteRun == [at : {"none", "asked", "ok", "denied", "failed", "aborted"},
            token : Nat, my : {"none", "accepted"}]

\* The pages loading, sending and signed out are pages.
LEMMA PagesMade ==
  ASSUME NEW p \in Vote!Page
  PROVE  /\ \A token \in Nat : Vote!Reloading(p, token) \in Vote!Page
         /\ Vote!Sending(p) \in Vote!Page
         /\ Vote!SignedOut(p) \in Vote!Page /\ Vote!LoadFailed(p) \in Vote!Page
         /\ Vote!Loaded(p) \in Vote!Page /\ Vote!LoadTimedOut(p) \in Vote!Page
         /\ p.token \in Nat /\ p.run.my \in {"none", "accepted"}
<1>1. (\A token \in Nat : Vote!Asked(token) \in VoteRun) /\ Vote!NoRun \in VoteRun
  BY DEF Vote!Asked, Vote!NoRun, VoteRun
<1>2. ASSUME NEW token \in Nat PROVE Vote!Reloading(p, token) \in Vote!Page
  BY <1>1 DEF Vote!Reloading, Vote!Page, VoteRun
<1>3. Vote!Sending(p) \in Vote!Page /\ Vote!SignedOut(p) \in Vote!Page
  BY DEF Vote!Sending, Vote!SignedOut, Vote!Page
<1>4. /\ Vote!LoadFailed(p) \in Vote!Page /\ Vote!Loaded(p) \in Vote!Page
      /\ Vote!LoadTimedOut(p) \in Vote!Page
  BY <1>1 DEF Vote!LoadFailed, Vote!Loaded, Vote!LoadTimedOut, Vote!Page, VoteRun
<1>5. QED BY <1>2, <1>3, <1>4 DEF Vote!Page

\* Loading the page leaves the presses and the record alone.
LEMMA LoadingKeepsVote ==
  ASSUME VoteParameters, VoteInv, NEW t \in VoteTabs,
         Vote!PressRefresh(t) \/ Vote!ServerLoads(t) \/ Vote!ReloadEnds(t)
           \/ Vote!AbortedRunEnds(t) \/ Vote!LoadLost(t)
  PROVE  VoteInv'
<1>1. page[t] \in Vote!Page /\ page \in [VoteTabs -> Vote!Page] BY VoteFields
<1>2. CASE Vote!PressRefresh(t)
  BY <1>1, <1>2, PagesMade, VoteFields, PageStepKeeps DEF Vote!PressRefresh
<1>3. CASE Vote!ServerLoads(t)
  <2> DEFINE p == [page[t] EXCEPT
                     !.run.at = IF page[t].run.token = api.session THEN "ok" ELSE "denied",
                     !.run.my = IF api.ballot = 0 THEN "none" ELSE "accepted"]
  <2>1. p \in Vote!Page BY <1>1 DEF Vote!Page
  <2>2. page' = [page EXCEPT ![t] = p] BY <1>3 DEF Vote!ServerLoads
  <2>3. api' = api /\ calls' = calls /\ past' = past BY <1>3 DEF Vote!ServerLoads
  <2> HIDE DEF p
  <2>4. QED BY <2>1, <2>2, <2>3, VoteFields, PageStepKeeps
<1>4. CASE Vote!ReloadEnds(t)
  BY <1>1, <1>4, PagesMade, VoteFields, PageStepKeeps DEF Vote!ReloadEnds
<1>5. CASE Vote!AbortedRunEnds(t)
  <2> DEFINE p == [page[t] EXCEPT !.stale = FALSE, !.loading = FALSE]
  <2>1. p \in Vote!Page BY <1>1 DEF Vote!Page
  <2>2. page' = [page EXCEPT ![t] = p] BY <1>5 DEF Vote!AbortedRunEnds
  <2> HIDE DEF p
  <2>3. QED BY <1>5, <2>1, <2>2, VoteFields, PageStepKeeps DEF Vote!AbortedRunEnds
<1>6. CASE Vote!LoadLost(t)
  <2> DEFINE p(how) == [page[t] EXCEPT !.run.at = how]
  <2>1. PICK how \in {"failed", "aborted"} : page' = [page EXCEPT ![t] = p(how)]
    BY <1>6 DEF Vote!LoadLost
  <2>2. p(how) \in Vote!Page BY <1>1 DEF Vote!Page
  <2> HIDE DEF p
  <2>3. QED BY <1>6, <2>1, <2>2, VoteFields, PageStepKeeps DEF Vote!LoadLost
<1>7. QED BY <1>2, <1>3, <1>4, <1>5, <1>6

\* A rotation makes a new token and reloads the page.
LEMMA RotateKeepsVote ==
  ASSUME VoteParameters, VoteInv, NEW t \in VoteTabs, Vote!Rotate(t)
  PROVE  VoteInv'
<1> DEFINE p == [Vote!Reloading(page[t], api.session + 1) EXCEPT !.token = api.session + 1]
<1>1. page[t] \in Vote!Page BY VoteFields
<1>2. Vote!Reloading(page[t], api.session + 1) \in Vote!Page
  <2>1. api.session + 1 \in Nat BY VoteFields
  <2>2. QED BY <1>1, <2>1, PagesMade
<1>3. p \in Vote!Page
  <2>1. api.session + 1 \in Nat BY VoteFields
  <2>2. QED BY <1>2, <2>1 DEF Vote!Page
<1>4. page' = [page EXCEPT ![t] = p] BY VoteFields DEF Vote!Rotate
<1>5. api' \in [open : BOOLEAN, ballot : 0..Len(calls), session : 1..(MaxRotations + 1)]
  BY VoteFields DEF Vote!Rotate, VoteParameters
<1>6. api'.ballot = api.ballot BY VoteFields DEF Vote!Rotate
<1> HIDE DEF p
<1>7. QED BY <1>3, <1>4, <1>5, <1>6, VoteFields, PageStepKeeps DEF Vote!Rotate

\* A press is added to the presses.
LEMMA PressSubmitKeepsVote ==
  ASSUME VoteParameters, VoteInv, NEW t \in VoteTabs, Vote!PressSubmit(t)
  PROVE  VoteInv'
<1> DEFINE c == [tab |-> t, token |-> page[t].token, at |-> "sent"]
<1>1. page[t] \in Vote!Page BY VoteFields
<1>2. c \in Vote!Press BY <1>1, PagesMade DEF Vote!Press
<1>3. calls' = Append(calls, c) BY DEF Vote!PressSubmit
<1>4. /\ calls' \in Seq(Vote!Press) /\ Len(calls') = Len(calls) + 1 /\ Len(calls) \in Nat
      /\ \A i \in 1..Len(calls) : calls'[i] = calls[i]
      /\ calls'[Len(calls) + 1] = c
  BY <1>2, <1>3, VoteFields, AppendProperties, LenProperties
<1>5. page' \in [VoteTabs -> Vote!Page]
  BY <1>1, PagesMade, VoteFields DEF Vote!PressSubmit
<1>6. api' = api /\ past' = past BY DEF Vote!PressSubmit
<1>7. api' \in [open : BOOLEAN, ballot : 0..Len(calls'), session : 1..(MaxRotations + 1)]
  BY <1>4, <1>6, VoteFields
<1>8. Vote!TypeOK' BY <1>4, <1>5, <1>6, <1>7, VoteFields DEF Vote!TypeOK
<1>9. Vote!NoticeIsForTheRecordedBallot'
  <2>1. ASSUME NEW i \in DOMAIN calls', calls'[i].at \in {"ok", "noticed"}
        PROVE  api'.ballot = i
    <3>1. i \in 1..(Len(calls) + 1) BY <1>4
    <3>2. i # Len(calls) + 1 BY <1>4, <2>1
    <3>3. i \in 1..Len(calls) BY <1>4, <3>1, <3>2
    <3>4. calls'[i] = calls[i] BY <1>4, <3>3
    <3>5. i \in DOMAIN calls BY <3>3, VoteFields
    <3>6. api.ballot = i BY <2>1, <3>4, <3>5 DEF VoteInv, Vote!NoticeIsForTheRecordedBallot
    <3>7. QED BY <1>6, <3>6
  <2>2. QED BY <2>1 DEF Vote!NoticeIsForTheRecordedBallot
<1>10. QED BY <1>8, <1>9 DEF VoteInv

\* A step of one press that tells "ok" only of the ballot then on record, and
\* leaves the record of an earlier press alone.
LEMMA CallStepKeepsVote ==
  ASSUME VoteParameters, VoteInv, NEW i \in DOMAIN calls,
         NEW k \in {"sent", "ok", "already", "closed", "denied", "failed", "ended", "noticed"},
         calls' = [calls EXCEPT ![i].at = k],
         api' \in [open : BOOLEAN, ballot : 0..Len(calls), session : 1..(MaxRotations + 1)],
         page' \in [VoteTabs -> Vote!Page], past' \in [events : 0..MaxEvents],
         k \in {"ok", "noticed"} => api'.ballot = i,
         api.ballot # 0 => api'.ballot = api.ballot
  PROVE  VoteInv'
<1>1. calls \in Seq(Vote!Press) /\ DOMAIN calls = 1..Len(calls) BY VoteFields
<1>2. calls[i] \in Vote!Press BY <1>1, ElementOfSeq
<1> DEFINE c == [calls[i] EXCEPT !.at = k]
<1>3. c \in Vote!Press /\ c.at = k BY <1>2 DEF Vote!Press
<1>4. calls' = [calls EXCEPT ![i] = c] BY <1>1
<1> HIDE DEF c
<1>5. calls' \in Seq(Vote!Press) /\ Len(calls') = Len(calls) /\ DOMAIN calls' = DOMAIN calls
  BY <1>1, <1>3, <1>4, ExceptSeq, SMTT(30)
<1>6. Vote!TypeOK' BY <1>5 DEF Vote!TypeOK
<1>7. Vote!NoticeIsForTheRecordedBallot'
  <2>1. ASSUME NEW j \in DOMAIN calls', calls'[j].at \in {"ok", "noticed"}
        PROVE  api'.ballot = j
    <3>1. CASE j = i BY <1>3, <1>4, <1>5, <2>1, <3>1
    <3>2. CASE j # i
      <4>1. calls'[j] = calls[j] /\ j \in DOMAIN calls BY <1>4, <1>5, <3>2
      <4>2. api.ballot = j
        BY <2>1, <4>1 DEF VoteInv, Vote!NoticeIsForTheRecordedBallot
      <4>3. j # 0 BY <1>1, <4>1
      <4>4. QED BY <4>2, <4>3
    <3>3. QED BY <3>1, <3>2
  <2>2. QED BY <2>1 DEF Vote!NoticeIsForTheRecordedBallot
<1>8. QED BY <1>6, <1>7 DEF VoteInv

\* The API records a ballot only when there is none, and says so.
LEMMA ServerSubmitsKeepsVote ==
  ASSUME VoteParameters, VoteInv, NEW i \in DOMAIN calls, Vote!ServerSubmits(i)
  PROVE  VoteInv'
<1>1. Vote!Verdict(i) \in {"denied", "closed", "already", "ok"} BY DEF Vote!Verdict
<1>2. i \in 1..Len(calls) /\ Len(calls) \in Nat BY VoteFields, LenProperties
<1>3. /\ api' \in [open : BOOLEAN, ballot : 0..Len(calls), session : 1..(MaxRotations + 1)]
      /\ Vote!Verdict(i) = "ok" => api'.ballot = i
  <2>1. api \in [open : BOOLEAN, ballot : 0..Len(calls), session : 1..(MaxRotations + 1)]
    BY VoteFields
  <2>2. i \in 0..Len(calls) BY <1>2
  <2>3. /\ [api EXCEPT !.ballot = i]
             \in [open : BOOLEAN, ballot : 0..Len(calls), session : 1..(MaxRotations + 1)]
        /\ [api EXCEPT !.ballot = i].ballot = i
    BY <2>1, <2>2
  <2>4. api' = IF Vote!Verdict(i) = "ok" THEN [api EXCEPT !.ballot = i] ELSE api
    BY DEF Vote!ServerSubmits
  <2> HIDE DEF Vote!Verdict
  <2> QED BY <2>1, <2>3, <2>4
<1>4. api.ballot # 0 => Vote!Verdict(i) # "ok" BY DEF Vote!Verdict
<1>5. /\ calls' = [calls EXCEPT ![i].at = Vote!Verdict(i)] /\ page' = page /\ past' = past
      /\ api.ballot # 0 => api' = api
  BY <1>4 DEF Vote!ServerSubmits
<1>6. Vote!Verdict(i) \in {"sent", "ok", "already", "closed", "denied", "failed", "ended",
                           "noticed"}
  BY <1>1
<1>7. Vote!Verdict(i) # "noticed" BY <1>1
<1>8. QED BY <1>3, <1>5, <1>6, <1>7, CallStepKeepsVote, VoteFields

\* The page takes the answer in; a lost one is lost.
LEMMA EndsKeepVote ==
  ASSUME VoteParameters, VoteInv, NEW i \in DOMAIN calls,
         Vote!SubmitEnds(i) \/ Vote!SubmitLost(i)
  PROVE  VoteInv'
<1>1. calls[i] \in Vote!Press BY VoteFields, ElementOfSeq
<1>2. calls[i].tab \in VoteTabs BY <1>1 DEF Vote!Press
<1>3. CASE Vote!SubmitLost(i)
  BY <1>3, VoteFields, CallStepKeepsVote DEF Vote!SubmitLost
<1>4. CASE Vote!SubmitEnds(i)
  <2> DEFINE k == IF calls[i].at = "ok" THEN "noticed" ELSE "ended"
             t == calls[i].tab
             p == IF ~Vote!Present(t) THEN page[t]
                  ELSE IF calls[i].at = "ok" THEN Vote!Recorded(page[t], calls[i].token)
                  ELSE IF calls[i].at = "denied" THEN Vote!SignedOut(page[t])
                  ELSE [page[t] EXCEPT !.err = Vote!ErrorOf[calls[i].at], !.loading = FALSE]
  <2>1. page[t] \in Vote!Page BY <1>2, VoteFields
  <2>2. calls[i].at \in {"ok", "already", "closed", "denied", "failed"}
    BY <1>4 DEF Vote!SubmitEnds
  <2>3. calls[i].at \in {"already", "closed", "failed"}
          => [page[t] EXCEPT !.err = Vote!ErrorOf[calls[i].at], !.loading = FALSE] \in Vote!Page
    <3>1. calls[i].at \in {"already", "closed", "failed"}
            => Vote!ErrorOf[calls[i].at] \in {"already", "unavailable", "failed"}
      BY DEF Vote!ErrorOf
    <3>2. QED BY <2>1, <3>1 DEF Vote!Page
  <2>4. p \in Vote!Page
    <3>1. calls[i].token \in Nat BY <1>1 DEF Vote!Press
    <3>2. QED BY <2>1, <2>2, <2>3, <3>1, PagesMade DEF Vote!Recorded
  <2>5. page' = [page EXCEPT ![t] = p] BY <1>4 DEF Vote!SubmitEnds
  <2>6. calls' = [calls EXCEPT ![i].at = k] /\ api' = api /\ past' = past
    BY <1>4 DEF Vote!SubmitEnds
  <2>7. k = "noticed" => api.ballot = i
    BY DEF VoteInv, Vote!NoticeIsForTheRecordedBallot
  <2>8. k \in {"sent", "ok", "already", "closed", "denied", "failed", "ended", "noticed"}
        /\ k # "ok"
    OBVIOUS
  <2> HIDE DEF p, k
  <2>9. page' \in [VoteTabs -> Vote!Page] BY <1>2, <2>4, <2>5, VoteFields
  <2>10. QED BY <2>6, <2>7, <2>8, <2>9, VoteFields, CallStepKeepsVote
<1>5. QED BY <1>3, <1>4

LEMMA CloseKeepsVote ==
  ASSUME VoteParameters, VoteInv, Vote!Close PROVE VoteInv'
<1>1. api' \in [open : BOOLEAN, ballot : 0..Len(calls), session : 1..(MaxRotations + 1)]
      /\ api'.ballot = api.ballot
  BY VoteFields DEF Vote!Close
<1>2. page' = page /\ calls' = calls /\ past' = past BY DEF Vote!Close
<1>3. QED BY <1>1, <1>2 DEF VoteInv, Vote!TypeOK, Vote!NoticeIsForTheRecordedBallot

\* Every step keeps the invariant.
LEMMA NextVoteInv ==
  ASSUME VoteParameters PROVE VoteInv /\ [Vote!Next]_(Vote!vars) => VoteInv'
<1> SUFFICES ASSUME VoteInv, [Vote!Next]_(Vote!vars) PROVE VoteInv' OBVIOUS
<1>1. CASE UNCHANGED Vote!vars
  BY <1>1 DEF Vote!vars, VoteInv, Vote!TypeOK, Vote!NoticeIsForTheRecordedBallot
<1>2. CASE Vote!Next
  BY <1>2, LoadingKeepsVote, RotateKeepsVote, PressSubmitKeepsVote, ServerSubmitsKeepsVote,
     EndsKeepVote, CloseKeepsVote DEF Vote!Next
<1>3. QED BY <1>1, <1>2

\* Whatever tabs, presses, rotations and lost answers there are, the voter is told
\* of success for the ballot on record and for no other (VotePage.tsx, submit).
THEOREM NoticeIsForTheRecordedBallotHolds ==
  ASSUME VoteParameters
  PROVE  Vote!Init /\ [][Vote!Next]_(Vote!vars) => []Vote!NoticeIsForTheRecordedBallot
<1>1. VoteInv => Vote!NoticeIsForTheRecordedBallot BY DEF VoteInv
<1>2. QED BY <1>1, InitVoteInv, NextVoteInv, PTL

-----------------------------------------------------------------------------
(* ProfilePage: the account.                                               *)

ProfileParameters ==
  MaxAttempts \in Nat \ {0} /\ MaxLosses \in Nat /\ 0 \in Names /\ Names \subseteq Nat

\* Of the codes only the newest can be unused, and w wrong ones were tried against it.
AccountOK(a, w) ==
  /\ a \in Profile!Account /\ w \in 0..MaxAttempts
  /\ \A i \in Profile!Unused(a) :
       i = Len(a.codes) /\ a.codes[i].attempts = w /\ w < MaxAttempts

\* The codes tried without a match, after one more confirmation.
WrongAfter(a, c, w) ==
  IF Profile!Unused(a) # {} /\ c # Len(a.codes) /\ w < MaxAttempts THEN w + 1 ELSE w

LEMMA AccountFields ==
  ASSUME NEW a \in Profile!Account
  PROVE  /\ a.me \in Profile!Me /\ a.codes \in Seq(Profile!Code)
         /\ a = [me |-> a.me, codes |-> a.codes]
         /\ a.me.verified \in BOOLEAN /\ a.me.name \in Names
         /\ DOMAIN a.codes = 1..Len(a.codes) /\ Len(a.codes) \in Nat
         /\ \A i \in 1..Len(a.codes) :
              /\ a.codes[i] \in Profile!Code
              /\ a.codes[i].attempts \in 0..MaxAttempts
              /\ a.codes[i].used \in BOOLEAN /\ a.codes[i].expired \in BOOLEAN
<1>1. /\ a.me \in Profile!Me /\ a.codes \in Seq(Profile!Code)
      /\ a = [me |-> a.me, codes |-> a.codes]
  BY DEF Profile!Account
<1>2. a.me.verified \in BOOLEAN /\ a.me.name \in Names BY <1>1 DEF Profile!Me
<1>3. /\ DOMAIN a.codes = 1..Len(a.codes) /\ Len(a.codes) \in Nat
      /\ \A i \in 1..Len(a.codes) : a.codes[i] \in Profile!Code
  BY <1>1, LenProperties, ElementOfSeq
<1>4. QED BY <1>1, <1>2, <1>3 DEF Profile!Code

LEMMA PutCodes ==
  ASSUME NEW a \in Profile!Account, NEW t
  PROVE  [a EXCEPT !.codes = t] = [me |-> a.me, codes |-> t]
BY DEF Profile!Account

LEMMA PutMe ==
  ASSUME NEW a \in Profile!Account, NEW t
  PROVE  [a EXCEPT !.me = t] = [me |-> t, codes |-> a.codes]
BY DEF Profile!Account

\* A code that is used up.
LEMMA UseIs ==
  ASSUME NEW a \in Profile!Account, NEW i \in DOMAIN a.codes
  PROVE  Profile!Use(a, i)
           = [me |-> a.me, codes |-> [a.codes EXCEPT ![i] = [a.codes[i] EXCEPT !.used = TRUE]]]
<1> DEFINE t == [a.codes EXCEPT ![i] = [a.codes[i] EXCEPT !.used = TRUE]]
<1>1. Profile!Use(a, i) = [a EXCEPT !.codes = t] BY DEF Profile!Use
<1> HIDE DEF t
<1>2. [a EXCEPT !.codes = t] = [me |-> a.me, codes |-> t] BY PutCodes
<1>3. QED BY <1>1, <1>2 DEF t

\* A new code is the only unused one, and nobody has tried it.
LEMMA RequestedKeeps ==
  ASSUME ProfileParameters, NEW a, NEW w, AccountOK(a, w)
  PROVE  AccountOK(Profile!Requested(a), 0) /\ Profile!Requested(a).me = a.me
<1>1. a \in Profile!Account BY DEF AccountOK
<1> DEFINE n == Len(a.codes)
           old == [i \in DOMAIN a.codes |-> [a.codes[i] EXCEPT !.used = TRUE]]
           new == Append(old, Profile!Fresh)
<1>2. /\ n \in Nat /\ DOMAIN a.codes = 1..n
      /\ \A i \in 1..n : a.codes[i] \in Profile!Code
  BY <1>1, AccountFields
<1>3. Profile!Fresh \in Profile!Code /\ ~Profile!Fresh.used /\ Profile!Fresh.attempts = 0
  BY DEF Profile!Fresh, Profile!Code, ProfileParameters
<1>4. \A i \in 1..n : old[i] \in Profile!Code /\ old[i].used
  BY <1>2 DEF Profile!Code
<1>5. old \in [1..n -> Profile!Code] BY <1>2, <1>4
<1>6. old \in Seq(Profile!Code) /\ Len(old) = n BY <1>2, <1>5, IsASeq, LenProperties
<1> HIDE DEF old
<1>7. /\ new \in Seq(Profile!Code) /\ Len(new) = n + 1 /\ DOMAIN new = 1..(n + 1)
      /\ new[n + 1] = Profile!Fresh /\ \A i \in 1..n : new[i] = old[i]
  BY <1>3, <1>6, AppendProperties, LenProperties
<1>8. Profile!Requested(a) = [a EXCEPT !.codes = new] BY DEF Profile!Requested, old
<1> HIDE DEF new
<1>9. Profile!Requested(a) = [me |-> a.me, codes |-> new] BY <1>1, <1>8, AccountFields
<1>10. Profile!Requested(a) \in Profile!Account
  BY <1>1, <1>7, <1>9, AccountFields DEF Profile!Account
<1>11. \A i \in Profile!Unused(Profile!Requested(a)) : i = n + 1
  BY <1>2, <1>4, <1>7, <1>9 DEF Profile!Unused
<1>12. QED BY <1>3, <1>7, <1>9, <1>10, <1>11 DEF AccountOK, ProfileParameters

\* An unused code is the newest one, which a confirmation is judged by.
LEMMA LatestIsNewest ==
  ASSUME NEW a, NEW w, AccountOK(a, w), Profile!Unused(a) # {}
  PROVE  /\ Profile!Latest(a) = Len(a.codes) /\ Len(a.codes) \in 1..Len(a.codes)
         /\ Profile!Unused(a) = {Len(a.codes)} /\ ~a.codes[Len(a.codes)].used
         /\ a.codes[Len(a.codes)].attempts = w /\ w < MaxAttempts
<1>1. Profile!Unused(a) = {Len(a.codes)} BY DEF AccountOK
<1>2. Len(a.codes) \in Nat /\ DOMAIN a.codes = 1..Len(a.codes)
  BY AccountFields DEF AccountOK
<1>3. Profile!Latest(a) = Len(a.codes) BY <1>1, <1>2 DEF Profile!Latest
<1>4. QED BY <1>1, <1>2, <1>3 DEF AccountOK, Profile!Unused

\* An account whose newest code is replaced by a used one, or by one tried once more.
LEMMA CodeReplaced ==
  ASSUME ProfileParameters, NEW a, NEW w, AccountOK(a, w), Profile!Unused(a) # {},
         NEW row \in Profile!Code, NEW me \in Profile!Me, NEW v \in 0..MaxAttempts,
         row.used \/ (row.attempts = v /\ v < MaxAttempts)
  PROVE  AccountOK([me |-> me, codes |-> [a.codes EXCEPT ![Len(a.codes)] = row]], v)
<1> DEFINE n == Len(a.codes)
           codes == [a.codes EXCEPT ![n] = row]
           b == [me |-> me, codes |-> codes]
<1>1. a \in Profile!Account BY DEF AccountOK
<1>2. n \in 1..n /\ Profile!Unused(a) = {n} BY LatestIsNewest
<1>3. a.codes \in Seq(Profile!Code) /\ DOMAIN a.codes = 1..n BY <1>1, AccountFields
<1>4. /\ codes \in Seq(Profile!Code) /\ Len(codes) = n /\ DOMAIN codes = 1..n
      /\ codes[n] = row /\ \A i \in 1..n \ {n} : codes[i] = a.codes[i]
  BY <1>2, <1>3, ExceptSeq
<1> HIDE DEF codes
<1>5. b \in Profile!Account BY <1>4 DEF Profile!Account
<1>6. \A i \in Profile!Unused(b) : i = n /\ row.attempts = v /\ v < MaxAttempts
  BY <1>2, <1>3, <1>4 DEF Profile!Unused
<1>7. AccountOK(b, v) BY <1>4, <1>5, <1>6 DEF AccountOK
<1>8. QED BY <1>7 DEF codes

\* A confirmation: it verifies the address only by the newest code, unexpired and not
\* tried too often.
LEMMA ConfirmedKeeps ==
  ASSUME ProfileParameters, NEW a, NEW w, AccountOK(a, w), NEW c \in Nat
  PROVE  LET b == Profile!Confirmed(a, c)
         IN /\ AccountOK(b, WrongAfter(a, c, w))
            /\ b.me.name = a.me.name
            /\ a.me.verified => b.me.verified
            /\ Profile!Verdict(a, c) = "ok" => b.me.verified
            /\ ~a.me.verified /\ b.me.verified =>
                 /\ c = Len(a.codes) /\ ~a.codes[c].expired /\ w < MaxAttempts
<1> DEFINE n == Len(a.codes)
           row == a.codes[n]
           b == Profile!Confirmed(a, c)
<1>1. a \in Profile!Account /\ w \in 0..MaxAttempts BY DEF AccountOK
<1>2. /\ a = [me |-> a.me, codes |-> a.codes] /\ a.me \in Profile!Me
      /\ a.me.verified \in BOOLEAN /\ a.codes \in Seq(Profile!Code) /\ DOMAIN a.codes = 1..n
  BY <1>1, AccountFields
<1>3. CASE Profile!Unused(a) = {}
  <2>1. b = a /\ Profile!Verdict(a, c) = "invalid" /\ WrongAfter(a, c, w) = w
    BY <1>3 DEF Profile!Confirmed, Profile!Verdict, WrongAfter
  <2>2. QED BY <2>1
<1>4. CASE Profile!Unused(a) # {}
  <2>1. /\ Profile!Latest(a) = n /\ n \in 1..n /\ row.attempts = w /\ w < MaxAttempts
        /\ ~row.used /\ row \in Profile!Code
    BY <1>1, <1>4, LatestIsNewest, AccountFields
  <2>2. /\ row.attempts \in 0..MaxAttempts /\ row.used \in BOOLEAN /\ row.expired \in BOOLEAN
        /\ row = [attempts |-> row.attempts, used |-> row.used, expired |-> row.expired]
    BY <2>1 DEF Profile!Code
  <2>3. /\ row.expired => Profile!Verdict(a, c) = "expired"
        /\ ~row.expired /\ c = n => Profile!Verdict(a, c) = "ok"
        /\ ~row.expired /\ c # n =>
             Profile!Verdict(a, c) = IF w + 1 >= MaxAttempts THEN "exceeded" ELSE "invalid"
    BY <1>1, <1>4, <2>1 DEF Profile!Verdict, ProfileParameters
  <2> DEFINE Put(r, me) == [me |-> me, codes |-> [a.codes EXCEPT ![n] = r]]
             tried == [row EXCEPT !.attempts = w + 1]
             counted == [a EXCEPT !.codes[n].attempts = IF @ < MaxAttempts THEN @ + 1 ELSE @]
  <2>7. tried \in Profile!Code /\ tried.attempts = w + 1
    BY <1>1, <2>1, <2>2 DEF Profile!Code, ProfileParameters
  <2>4. counted = Put(tried, a.me)
    <3> DEFINE s == [a.codes EXCEPT ![n] = tried]
    <3>1. counted = [a EXCEPT !.codes = s] BY <2>1
    <3> HIDE DEF s
    <3>2. [a EXCEPT !.codes = s] = [me |-> a.me, codes |-> s] BY <1>1, PutCodes
    <3>3. QED BY <3>1, <3>2 DEF s
  <2> HIDE DEF counted
  <2>5. Profile!Use(a, n) = Put([row EXCEPT !.used = TRUE], a.me) BY <1>1, <1>2, <2>1, UseIs
  <2>6. Profile!Use(counted, n) = Put([tried EXCEPT !.used = TRUE], a.me)
    <3> HIDE DEF tried
    <3>1. /\ counted.me = a.me /\ counted.codes = [a.codes EXCEPT ![n] = tried]
          /\ counted.codes[n] = tried
      BY <1>2, <2>1, <2>4
    <3>2. counted.codes \in Seq(Profile!Code) /\ n \in DOMAIN counted.codes
      BY <1>2, <2>1, <2>7, <3>1, ExceptSeq
    <3>3. counted \in Profile!Account BY <1>2, <2>4, <3>1, <3>2 DEF Profile!Account
    <3>4. [counted.codes EXCEPT ![n] = [tried EXCEPT !.used = TRUE]]
            = [a.codes EXCEPT ![n] = [tried EXCEPT !.used = TRUE]]
      BY <1>2, <2>1, <3>1
    <3>6. Profile!Use(counted, n)
            = [me |-> counted.me,
               codes |-> [counted.codes EXCEPT ![n] = [counted.codes[n] EXCEPT !.used = TRUE]]]
      BY <3>2, <3>3, UseIs
    <3>5. QED BY <3>1, <3>4, <3>6
  <2>8. /\ [row EXCEPT !.used = TRUE] \in Profile!Code /\ [row EXCEPT !.used = TRUE].used
        /\ [tried EXCEPT !.used = TRUE] \in Profile!Code /\ [tried EXCEPT !.used = TRUE].used
    BY <2>2, <2>7 DEF Profile!Code
  <2>9. /\ w + 1 \in 0..MaxAttempts
        /\ WrongAfter(a, c, w) = IF c # n THEN w + 1 ELSE w
    BY <1>1, <1>4, <2>1 DEF WrongAfter, ProfileParameters
  <2>10. CASE row.expired
    <3>1. b = Profile!Use(a, n)
      BY <1>4, <2>1, <2>3, <2>10 DEF Profile!Confirmed
    <3>2. WrongAfter(a, c, w) \in 0..MaxAttempts BY <1>1, <2>9
    <3> DEFINE v == WrongAfter(a, c, w)  r == [row EXCEPT !.used = TRUE]
    <3> HIDE DEF v, r
    <3>3. AccountOK(b, v)
      <4>1. b = Put(r, a.me) BY <2>5, <3>1 DEF r
      <4>2. r \in Profile!Code /\ r.used BY <2>8 DEF r
      <4>3. v \in 0..MaxAttempts BY <3>2 DEF v
      <4> HIDE DEF b
      <4>4. AccountOK(Put(r, a.me), v) BY <1>2, <1>4, <4>2, <4>3, CodeReplaced
      <4>5. QED BY <4>1, <4>4
    <3>4. b.me = a.me BY <2>5, <3>1
    <3>5. Profile!Verdict(a, c) # "ok" BY <2>3, <2>10
    <3>6. QED BY <3>3, <3>4, <3>5 DEF v
  <2>11. CASE ~row.expired /\ c = n
    <3> DEFINE me == [a.me EXCEPT !.verified = TRUE]
    <3>1. me \in Profile!Me /\ me.verified /\ me.name = a.me.name BY <1>2 DEF Profile!Me
    <3>2. b = [Profile!Use(a, n) EXCEPT !.me.verified = TRUE]
      BY <1>4, <2>1, <2>3, <2>11 DEF Profile!Confirmed
    <3>3. b = Put([row EXCEPT !.used = TRUE], me)
      <4> DEFINE s == [a.codes EXCEPT ![n] = [row EXCEPT !.used = TRUE]]
                 u == [me |-> a.me, codes |-> s]
      <4>1. s \in Seq(Profile!Code) BY <1>2, <2>1, <2>8, ExceptSeq
      <4>2. b = [u EXCEPT !.me = me] BY <2>5, <3>2
      <4> HIDE DEF s
      <4>3. u \in Profile!Account BY <1>2, <4>1 DEF Profile!Account
      <4>4. u.codes = s OBVIOUS
      <4> HIDE DEF u, me
      <4>5. [u EXCEPT !.me = me] = [me |-> me, codes |-> s] BY <4>3, <4>4, PutMe
      <4>6. QED BY <4>2, <4>5 DEF s
    <3>4. WrongAfter(a, c, w) = w BY <2>9, <2>11
    <3> HIDE DEF me
    <3>5. AccountOK(b, w) BY <1>1, <1>4, <2>8, <3>1, <3>3, CodeReplaced
    <3>6. b.me = me BY <3>3
    <3>7. QED BY <2>1, <2>11, <3>1, <3>4, <3>5, <3>6
  <2>12. CASE ~row.expired /\ c # n
    <3>1. b = IF w + 1 >= MaxAttempts THEN Profile!Use(counted, n) ELSE counted
      BY <1>4, <2>1, <2>3, <2>12 DEF Profile!Confirmed, counted
    <3>2. WrongAfter(a, c, w) = w + 1 BY <2>9, <2>12
    <3>3. AccountOK(Put([tried EXCEPT !.used = TRUE], a.me), w + 1)
      BY <1>2, <1>4, <2>8, <2>9, CodeReplaced
    <3>4. w + 1 < MaxAttempts => AccountOK(Put(tried, a.me), w + 1)
      BY <1>2, <1>4, <2>7, <2>9, CodeReplaced
    <3>5. w + 1 < MaxAttempts \/ w + 1 >= MaxAttempts BY <2>9 DEF ProfileParameters
    <3>6. AccountOK(b, w + 1) BY <2>4, <2>6, <3>1, <3>3, <3>4, <3>5
    <3>7. b.me = a.me BY <2>4, <2>6, <3>1
    <3>8. Profile!Verdict(a, c) # "ok" BY <2>3, <2>12
    <3>9. QED BY <3>2, <3>6, <3>7, <3>8
  <2>13. QED BY <2>2, <2>10, <2>11, <2>12
<1>5. QED BY <1>3, <1>4

-----------------------------------------------------------------------------
(* ProfilePage: the requests and the tabs.                                 *)

\* An answer that tells of a verified address or of saved data tells the truth, and a
\* request to save carries contact data.
TrueCall(op, c, verified, saved) ==
  /\ op = "confirm" /\ c.at = "ok" => verified
  /\ op = "request" /\ c.at \in {"already", "known"} => verified
  /\ op = "save" /\ c.at = "ok" => c.me.name \in saved
  /\ op = "save" /\ c.at = "pending" => c.arg \in Names

AnswersAreTrue ==
  \A t \in ProfileTabs, op \in Profile!Buttons :
    TrueCall(op, calls.tab[<<t, op>>], api.me.verified, past.saved)

LateSavesAreNamed == \A r \in calls.late : r.op = "save" => r.arg \in Names

ProfileInv ==
  /\ Profile!TypeOK /\ AccountOK(api, past.wrong)
  /\ AnswersAreTrue /\ LateSavesAreNamed /\ Profile!NoticesAreTrue

ShownPage == [me : Profile!Me, notice : {"none", "sent", "verified", "error"},
              stored : SUBSET Names]
History == [losses : 0..MaxLosses, wrong : 0..MaxAttempts, saved : SUBSET Names]

LEMMA InitProfileInv == ASSUME ProfileParameters PROVE Profile!Init => ProfileInv
<1> SUFFICES ASSUME Profile!Init PROVE ProfileInv OBVIOUS
<1>1. /\ api = [me |-> Profile!NoOne, codes |-> <<>>]
      /\ page = [t \in ProfileTabs |-> [me |-> api.me, notice |-> "none", stored |-> {}]]
      /\ calls = [tab |-> [b \in ProfileTabs \X Profile!Buttons |-> Profile!Idle], late |-> {}]
      /\ past = [losses |-> 0, wrong |-> 0, saved |-> {}]
  BY DEF Profile!Init
<1>2. Profile!NoOne \in Profile!Me BY DEF Profile!NoOne, Profile!Me, ProfileParameters
<1>3. <<>> \in Seq(Profile!Code) BY EmptySeq
<1>4. api \in Profile!Account BY <1>1, <1>2, <1>3 DEF Profile!Account
<1>5. past \in History BY <1>1 DEF History, ProfileParameters
<1>6. page \in [ProfileTabs -> ShownPage] BY <1>1, <1>2 DEF ShownPage
<1>7. Profile!Idle \in Profile!Call BY DEF Profile!Call
<1>8. calls \in [tab : [ProfileTabs \X Profile!Buttons -> Profile!Call],
                 late : SUBSET Profile!Late]
  BY <1>1, <1>7
<1>9. Profile!TypeOK BY <1>4, <1>5, <1>6, <1>8 DEF Profile!TypeOK, ShownPage, History
<1>10. AccountOK(api, past.wrong)
  BY <1>1, <1>4 DEF AccountOK, Profile!Unused, ProfileParameters
<1>11. AnswersAreTrue
  <2>1. ASSUME NEW t \in ProfileTabs, NEW op \in Profile!Buttons
        PROVE  calls.tab[<<t, op>>].at = "none"
    BY <1>1 DEF Profile!Idle
  <2>2. QED BY <2>1 DEF AnswersAreTrue, TrueCall
<1>12. LateSavesAreNamed /\ Profile!NoticesAreTrue
  BY <1>1 DEF LateSavesAreNamed, Profile!NoticesAreTrue
<1>13. QED BY <1>9, <1>10, <1>11, <1>12 DEF ProfileInv

LEMMA ProfileFields ==
  ASSUME ProfileInv, ProfileParameters
  PROVE  /\ page \in [ProfileTabs -> ShownPage] /\ past \in History
         /\ api \in Profile!Account /\ AccountOK(api, past.wrong)
         /\ calls = [tab |-> calls.tab, late |-> calls.late]
         /\ calls.tab \in [ProfileTabs \X Profile!Buttons -> Profile!Call]
         /\ calls.late \subseteq Profile!Late
         /\ api.me.verified \in BOOLEAN /\ api.me \in Profile!Me
         /\ Profile!NoOne \in Profile!Me
         /\ past.losses \in Nat /\ past.wrong \in 0..MaxAttempts /\ past.saved \subseteq Names
         /\ past = [losses |-> past.losses, wrong |-> past.wrong, saved |-> past.saved]
<1>1. /\ page \in [ProfileTabs -> ShownPage] /\ past \in History
      /\ api \in Profile!Account /\ AccountOK(api, past.wrong)
  BY DEF ProfileInv, Profile!TypeOK, ShownPage, History
<1>2. /\ calls = [tab |-> calls.tab, late |-> calls.late]
      /\ calls.tab \in [ProfileTabs \X Profile!Buttons -> Profile!Call]
      /\ calls.late \subseteq Profile!Late
  BY DEF ProfileInv, Profile!TypeOK
<1>3. /\ api.me \in Profile!Me /\ api.me.verified \in BOOLEAN
  BY <1>1 DEF Profile!Account, Profile!Me
<1>4. /\ past.losses \in Nat /\ past.wrong \in 0..MaxAttempts /\ past.saved \subseteq Names
      /\ past = [losses |-> past.losses, wrong |-> past.wrong, saved |-> past.saved]
  BY <1>1 DEF History
<1>5. Profile!NoOne \in Profile!Me BY DEF Profile!NoOne, Profile!Me, ProfileParameters
<1>6. QED BY <1>1, <1>2, <1>3, <1>4, <1>5

\* What is true of an answer stays true.
LEMMA StaysTrue ==
  ASSUME NEW op, NEW c, NEW v \in BOOLEAN, NEW w \in BOOLEAN, NEW S, NEW T,
         TrueCall(op, c, v, S), v => w, S \subseteq T
  PROVE  TrueCall(op, c, w, T)
BY DEF TrueCall

\* A step of one tab: it replaces one request and its page, and the account goes on.
LEMMA TabStepKeeps ==
  ASSUME ProfileParameters, ProfileInv,
         NEW t \in ProfileTabs, NEW op \in Profile!Buttons, NEW c \in Profile!Call,
         NEW p \in ShownPage, NEW L \in SUBSET Profile!Late,
         page' = [page EXCEPT ![t] = p],
         calls' = [tab |-> [calls.tab EXCEPT ![<<t, op>>] = c], late |-> L],
         past' \in History, AccountOK(api', past'.wrong),
         api.me.verified => api'.me.verified, past.saved \subseteq past'.saved,
         TrueCall(op, c, api'.me.verified, past'.saved),
         p.notice = "verified" => api'.me.verified, p.stored \subseteq past'.saved,
         \A r \in L : r.op = "save" => r.arg \in Names
  PROVE  ProfileInv'
<1> DEFINE tab == [calls.tab EXCEPT ![<<t, op>>] = c]
<1>1. /\ page \in [ProfileTabs -> ShownPage]
      /\ calls.tab \in [ProfileTabs \X Profile!Buttons -> Profile!Call]
  BY ProfileFields
<1>2. page' \in [ProfileTabs -> ShownPage] /\ page'[t] = p
      /\ \A o \in ProfileTabs \ {t} : page'[o] = page[o]
  BY <1>1
<1>3. <<t, op>> \in ProfileTabs \X Profile!Buttons OBVIOUS
<1>4. /\ tab \in [ProfileTabs \X Profile!Buttons -> Profile!Call] /\ tab[<<t, op>>] = c
      /\ \A b \in ProfileTabs \X Profile!Buttons : b # <<t, op>> => tab[b] = calls.tab[b]
  BY <1>1, <1>3
<1> HIDE DEF tab
<1>5. calls' = [tab |-> tab, late |-> L] BY DEF tab
<1>6. /\ api' \in Profile!Account /\ api'.me.verified \in BOOLEAN
      /\ api.me.verified \in BOOLEAN
  BY ProfileFields, AccountFields DEF AccountOK
<1>7. Profile!TypeOK'
  <2>1. calls' \in [tab : [ProfileTabs \X Profile!Buttons -> Profile!Call],
                    late : SUBSET Profile!Late]
    <3> DEFINE X == [ProfileTabs \X Profile!Buttons -> Profile!Call]
    <3>1. tab \in X BY <1>4
    <3> HIDE DEF X
    <3>2. [tab |-> tab, late |-> L] \in [tab : X, late : SUBSET Profile!Late] BY <3>1
    <3>3. QED BY <1>5, <3>2 DEF X
  <2>2. QED BY <1>2, <1>6, <2>1 DEF Profile!TypeOK, ShownPage, History
<1>8. AnswersAreTrue'
  <2>1. ASSUME NEW o \in ProfileTabs, NEW k \in Profile!Buttons
        PROVE  TrueCall(k, tab[<<o, k>>], api'.me.verified, past'.saved)
    <3>1. CASE <<o, k>> = <<t, op>>
      <4>1. k = op BY <3>1
      <4>2. tab[<<o, k>>] = c BY <1>4, <3>1
      <4>3. QED BY <4>1, <4>2
    <3>2. CASE <<o, k>> # <<t, op>>
      <4>1. tab[<<o, k>>] = calls.tab[<<o, k>>] BY <1>4, <3>2
      <4>2. TrueCall(k, calls.tab[<<o, k>>], api.me.verified, past.saved)
        BY DEF ProfileInv, AnswersAreTrue
      <4>3. QED BY <1>6, <4>1, <4>2, StaysTrue
    <3>3. QED BY <3>1, <3>2
  <2>2. calls'.tab = tab BY <1>5
  <2>3. QED BY <2>1, <2>2 DEF AnswersAreTrue
<1>9. LateSavesAreNamed' BY <1>5 DEF LateSavesAreNamed
<1>10. Profile!NoticesAreTrue'
  BY <1>2 DEF ProfileInv, Profile!NoticesAreTrue
<1>11. QED BY <1>7, <1>8, <1>9, <1>10 DEF ProfileInv

\* What a request does to the account.
LEMMA RunsKeeps ==
  ASSUME ProfileParameters, ProfileInv, NEW op, NEW arg \in Nat,
         op = "save" => arg \in Names, Profile!Runs(op, arg)
  PROVE  /\ AccountOK(api', past'.wrong)
         /\ past' \in History /\ past'.losses = past.losses
         /\ api.me.verified => api'.me.verified
         /\ past.saved \subseteq past'.saved
         /\ op = "confirm" /\ Profile!Verdict(api, arg) = "ok" => api'.me.verified
         /\ op = "save" => api'.me.name \in past'.saved
         /\ ~api.me.verified /\ api'.me.verified =>
              /\ op = "confirm" /\ arg = Len(api.codes)
              /\ ~api.codes[Len(api.codes)].expired /\ past.wrong < MaxAttempts
<1>1. /\ past \in History /\ AccountOK(api, past.wrong) /\ past.saved \subseteq Names
      /\ past.wrong \in 0..MaxAttempts
      /\ past = [losses |-> past.losses, wrong |-> past.wrong, saved |-> past.saved]
  BY ProfileFields
<1>2. CASE op = "request" /\ ~api.me.verified
  <2>1. /\ api' = Profile!Requested(api) /\ past' = [past EXCEPT !.wrong = 0]
    BY <1>2 DEF Profile!Runs
  <2>2. AccountOK(api', 0) /\ api'.me = api.me BY <1>1, <2>1, RequestedKeeps
  <2>3. /\ past' \in History /\ past'.wrong = 0 /\ past'.losses = past.losses
        /\ past'.saved = past.saved
    BY <1>1, <2>1 DEF History, ProfileParameters
  <2>4. QED BY <1>2, <2>2, <2>3
<1>3. CASE op = "request" /\ api.me.verified
  <2>1. api' = api /\ past' = past BY <1>3 DEF Profile!Runs
  <2>2. QED BY <1>1, <1>3, <2>1
<1>4. CASE op = "confirm"
  <2> DEFINE w == WrongAfter(api, arg, past.wrong)
  <2>1. /\ api' = Profile!Confirmed(api, arg)
        /\ past' = [past EXCEPT !.wrong = w]
    BY <1>4 DEF Profile!Runs, WrongAfter
  <2> HIDE DEF w
  <2>2. /\ AccountOK(api', w)
        /\ api.me.verified => api'.me.verified
        /\ Profile!Verdict(api, arg) = "ok" => api'.me.verified
        /\ ~api.me.verified /\ api'.me.verified =>
             /\ arg = Len(api.codes) /\ ~api.codes[arg].expired /\ past.wrong < MaxAttempts
    BY <1>1, <2>1, ConfirmedKeeps DEF w
  <2>3. w \in 0..MaxAttempts BY <2>2 DEF AccountOK
  <2>4. /\ past' \in History /\ past'.wrong = w /\ past'.losses = past.losses
        /\ past'.saved = past.saved
    BY <1>1, <2>1, <2>3 DEF History
  <2>5. QED BY <1>4, <2>2, <2>4
<1>5. CASE op = "save"
  <2>1. api' = Profile!Renamed(api, arg) /\ past' = [past EXCEPT !.saved = @ \cup {arg}]
    BY <1>5 DEF Profile!Runs
  <2>2. /\ past' \in History /\ past'.wrong = past.wrong /\ past'.losses = past.losses
        /\ past'.saved = past.saved \cup {arg}
    BY <1>1, <1>5, <2>1 DEF History
  <2>3. api \in Profile!Account BY <1>1 DEF AccountOK
  <2> DEFINE me == [api.me EXCEPT !.name = arg]
  <2>4. me \in Profile!Me /\ me.name = arg /\ me.verified = api.me.verified
    BY <1>5, <2>3, AccountFields DEF Profile!Me
  <2>5. api' = [api EXCEPT !.me = me] BY <2>1 DEF Profile!Renamed
  <2> HIDE DEF me
  <2>6. api' = [me |-> me, codes |-> api.codes] BY <2>3, <2>5, PutMe
  <2>7. AccountOK(api', past.wrong)
    <3>1. api' \in Profile!Account BY <2>3, <2>4, <2>6, AccountFields DEF Profile!Account
    <3>2. api'.codes = api.codes BY <2>6
    <3>3. QED BY <1>1, <3>1, <3>2 DEF AccountOK, Profile!Unused
  <2>8. QED BY <1>5, <2>2, <2>4, <2>6, <2>7
<1>6. QED BY <1>2, <1>3, <1>4, <1>5 DEF Profile!Runs

\* The requests, with one replaced.
LEMMA OnePut ==
  ASSUME ProfileParameters, ProfileInv, NEW b, NEW c
  PROVE  [calls EXCEPT !.tab[b] = c]
           = [tab |-> [calls.tab EXCEPT ![b] = c], late |-> calls.late]
<1> DEFINE s == [calls.tab EXCEPT ![b] = c]
<1>1. [calls EXCEPT !.tab[b] = c] = [calls EXCEPT !.tab = s] OBVIOUS
<1>2. calls = [tab |-> calls.tab, late |-> calls.late] BY ProfileFields
<1> HIDE DEF s
<1>3. [calls EXCEPT !.tab = s] = [tab |-> s, late |-> calls.late] BY <1>2
<1>4. QED BY <1>1, <1>3 DEF s

\* A tab whose page stays, or one of whose fields changes.
LEMMA PageOf ==
  ASSUME ProfileParameters, ProfileInv, NEW t \in ProfileTabs
  PROVE  /\ page[t] \in ShownPage /\ page = [page EXCEPT ![t] = page[t]]
         /\ page[t].notice = "verified" => api.me.verified
         /\ page[t].stored \subseteq past.saved
BY ProfileFields DEF ProfileInv, Profile!NoticesAreTrue

\* The buttons send requests that carry what they are for.
LEMMA PressKeepsProfile ==
  ASSUME ProfileParameters, ProfileInv, NEW t \in ProfileTabs,
         \/ Profile!PressRequest(t) \/ (\E c \in 0..Len(api.codes) : Profile!PressConfirm(t, c))
         \/ (\E n \in Names : Profile!PressSave(t, n))
  PROVE  ProfileInv'
<1>1. Len(api.codes) \in Nat BY ProfileFields, AccountFields
<1>2. ASSUME NEW op \in Profile!Buttons, NEW arg \in Nat, NEW seen \in Nat,
             NEW p \in ShownPage, op = "save" => arg \in Names,
             Profile!Send(t, op, arg, seen), page' = [page EXCEPT ![t] = p],
             api' = api, past' = past, p.notice # "verified" \/ p.notice = page[t].notice,
             p.stored = {} \/ p.stored = page[t].stored
      PROVE  ProfileInv'
  <2> DEFINE c == [at |-> "pending", arg |-> arg, seen |-> seen]
  <2>1. c \in Profile!Call BY DEF Profile!Call
  <2>2. TrueCall(op, c, api'.me.verified, past'.saved) BY <1>2 DEF TrueCall
  <2>3. calls' = [calls EXCEPT !.tab[<<t, op>>] = c] BY <1>2 DEF Profile!Send
  <2> HIDE DEF c
  <2>4. calls' = [tab |-> [calls.tab EXCEPT ![<<t, op>>] = c], late |-> calls.late]
    BY <2>3, OnePut
  <2>5. \A r \in calls.late : r.op = "save" => r.arg \in Names
    BY DEF ProfileInv, LateSavesAreNamed
  <2>6. /\ p.notice = "verified" => api'.me.verified
        /\ p.stored \subseteq past'.saved
    BY <1>2, PageOf
  <2>7. calls.late \in SUBSET Profile!Late /\ past \in History /\ AccountOK(api, past.wrong)
    BY ProfileFields
  <2>8. QED BY <1>2, <2>1, <2>2, <2>4, <2>5, <2>6, <2>7, TabStepKeeps
<1>3. page[t] \in ShownPage BY PageOf
<1>4. /\ [page[t] EXCEPT !.notice = "none"] \in ShownPage
      /\ [page[t] EXCEPT !.notice = "none"].notice = "none"
      /\ [page[t] EXCEPT !.notice = "none"].stored = page[t].stored
      /\ [page[t] EXCEPT !.stored = {}] \in ShownPage
      /\ [page[t] EXCEPT !.stored = {}].stored = {}
      /\ [page[t] EXCEPT !.stored = {}].notice = page[t].notice
  BY <1>3 DEF ShownPage
<1>5. CASE Profile!PressRequest(t)
  <2>1. /\ Profile!Send(t, "request", 0, 0) /\ api' = api /\ past' = past
        /\ page' = [page EXCEPT ![t] = [page[t] EXCEPT !.notice = "none"]]
    BY <1>5 DEF Profile!PressRequest
  <2>2. QED BY <1>2, <1>4, <2>1 DEF Profile!Buttons
<1>6. ASSUME NEW c \in 0..Len(api.codes), Profile!PressConfirm(t, c) PROVE ProfileInv'
  <2>1. /\ Profile!Send(t, "confirm", c, Len(api.codes)) /\ api' = api /\ past' = past
        /\ page' = [page EXCEPT ![t] = [page[t] EXCEPT !.notice = "none"]]
    BY <1>6 DEF Profile!PressConfirm
  <2>2. c \in Nat BY <1>1, <1>6
  <2>3. QED BY <1>1, <1>2, <1>4, <2>1, <2>2 DEF Profile!Buttons
<1>7. ASSUME NEW n \in Names, Profile!PressSave(t, n) PROVE ProfileInv'
  <2>1. /\ Profile!Send(t, "save", n, 0) /\ api' = api /\ past' = past
        /\ page' = [page EXCEPT ![t] = [page[t] EXCEPT !.stored = {}]]
    BY <1>7 DEF Profile!PressSave
  <2>2. n \in Nat BY DEF ProfileParameters
  <2>3. QED BY <1>2, <1>4, <2>1, <2>2 DEF Profile!Buttons
<1>8. QED BY <1>5, <1>6, <1>7

\* An answer puts a true one in place of the request.
LEMMA ServedKeeps ==
  ASSUME ProfileParameters, ProfileInv, NEW t \in ProfileTabs, NEW op \in Profile!Buttons,
         NEW c \in Profile!Call, calls' = [calls EXCEPT !.tab[<<t, op>>] = c], page' = page,
         past' \in History, AccountOK(api', past'.wrong),
         api.me.verified => api'.me.verified, past.saved \subseteq past'.saved,
         TrueCall(op, c, api'.me.verified, past'.saved)
  PROVE  ProfileInv'
<1>1. calls' = [tab |-> [calls.tab EXCEPT ![<<t, op>>] = c], late |-> calls.late]
  BY OnePut
<1>2. /\ page[t] \in ShownPage /\ page' = [page EXCEPT ![t] = page[t]]
      /\ page[t].notice = "verified" => api'.me.verified
      /\ page[t].stored \subseteq past'.saved
  BY PageOf
<1>3. calls.late \in SUBSET Profile!Late /\ \A r \in calls.late : r.op = "save" => r.arg \in Names
  BY ProfileFields DEF ProfileInv, LateSavesAreNamed
<1>4. QED BY <1>1, <1>2, <1>3, TabStepKeeps

\* The states a request ends in, with the user an answer carries.
Answered == [at : {"ok", "already", "known", "invalid", "expired", "exceeded", "failed"},
             me : Profile!Me]

LEMMA AnsweredIsCall == \A c \in Answered : c \in Profile!Call
BY DEF Answered, Profile!Call

\* What can be read off a call whose state is known.
LEMMA CallFields ==
  ASSUME ProfileParameters, ProfileInv, NEW t \in ProfileTabs, NEW op \in Profile!Buttons
  PROVE  LET c == calls.tab[<<t, op>>]
         IN /\ c \in Profile!Call
            /\ c.at = "pending" => c.arg \in Nat
            /\ c.at \notin {"none", "pending"} => c \in Answered /\ c.me \in Profile!Me
            /\ TrueCall(op, c, api.me.verified, past.saved)
<1> DEFINE c == calls.tab[<<t, op>>]
<1>1. <<t, op>> \in ProfileTabs \X Profile!Buttons OBVIOUS
<1>2. c \in Profile!Call BY <1>1, ProfileFields
<1>3. TrueCall(op, c, api.me.verified, past.saved) BY DEF ProfileInv, AnswersAreTrue
<1> HIDE DEF c
<1>4. c.at = "pending" => c.arg \in Nat BY <1>2 DEF Profile!Call, Profile!Idle
<1>5. c.at \notin {"none", "pending"} => c \in Answered
  BY <1>2 DEF Profile!Call, Profile!Idle, Answered
<1>6. c \in Answered => c.me \in Profile!Me BY DEF Answered
<1>7. QED BY <1>2, <1>3, <1>4, <1>5, <1>6 DEF c

LEMMA ServerKeepsProfile ==
  ASSUME ProfileParameters, ProfileInv, NEW t \in ProfileTabs,
         Profile!ServerRequest(t) \/ Profile!ServerConfirm(t) \/ Profile!ServerSave(t)
           \/ Profile!ServerMe(t)
  PROVE  ProfileInv'
<1>1. ASSUME NEW op \in Profile!Buttons, NEW s, page' = page,
             s \in {"ok", "already", "known", "invalid", "expired", "exceeded"},
             past' \in History, AccountOK(api', past'.wrong),
             api.me.verified => api'.me.verified, past.saved \subseteq past'.saved,
             op = "confirm" /\ s = "ok" => api'.me.verified,
             op = "request" /\ s \in {"already", "known"} => api'.me.verified,
             \/ Profile!Answer(t, op, s) /\ op # "save"
             \/ Profile!AnswerUser(t, op, s) /\ (op = "save" => api'.me.name \in past'.saved)
      PROVE  ProfileInv'
  <2>1. api'.me \in Profile!Me BY <1>1, AccountFields DEF AccountOK
  <2>2. PICK me \in Profile!Me :
          /\ calls' = [calls EXCEPT !.tab[<<t, op>>] = [at |-> s, me |-> me]]
          /\ op = "save" => me.name \in past'.saved
    BY <1>1, <2>1, ProfileFields DEF Profile!Answer, Profile!AnswerUser
  <2> DEFINE c == [at |-> s, me |-> me]
  <2>3. c \in Answered BY <1>1 DEF Answered
  <2>4. TrueCall(op, c, api'.me.verified, past'.saved) BY <1>1, <2>2 DEF TrueCall
  <2>5. calls' = [calls EXCEPT !.tab[<<t, op>>] = c] BY <2>2
  <2> HIDE DEF c
  <2>6. c \in Profile!Call BY <2>3, AnsweredIsCall
  <2>7. QED BY <1>1, <2>4, <2>5, <2>6, ServedKeeps
<1>2. "request" \in Profile!Buttons /\ "confirm" \in Profile!Buttons /\ "save" \in Profile!Buttons
  BY DEF Profile!Buttons
<1>3. CASE Profile!ServerRequest(t)
  <2>1. /\ Profile!Runs("request", 0) /\ page' = page
        /\ Profile!Answer(t, "request", IF api.me.verified THEN "already" ELSE "ok")
    BY <1>3 DEF Profile!ServerRequest
  <2>2. /\ past' \in History /\ AccountOK(api', past'.wrong)
        /\ api.me.verified => api'.me.verified
        /\ past.saved \subseteq past'.saved
    BY <2>1, RunsKeeps
  <2>3. QED BY <1>1, <1>2, <2>1, <2>2
<1>4. CASE Profile!ServerConfirm(t)
  <2> DEFINE arg == calls.tab[<<t, "confirm">>].arg
             s == Profile!Verdict(api, arg)
  <2>1. arg \in Nat BY <1>2, <1>4, CallFields DEF Profile!ServerConfirm
  <2>2. page' = page BY <1>4 DEF Profile!ServerConfirm
  <2>3. s \in {"ok", "invalid", "expired", "exceeded"} BY DEF Profile!Verdict
  <2> HIDE DEF arg
  <2>4. CASE /\ Profile!Runs("confirm", arg)
             /\ IF s = "ok" THEN Profile!AnswerUser(t, "confirm", "ok")
                ELSE Profile!Answer(t, "confirm", s)
    <3>1. /\ past' \in History /\ AccountOK(api', past'.wrong)
          /\ api.me.verified => api'.me.verified
          /\ past.saved \subseteq past'.saved
          /\ s = "ok" => api'.me.verified
      BY <2>1, <2>4, RunsKeeps
    <3> HIDE DEF s
    <3>2. QED BY <1>1, <1>2, <2>2, <2>3, <2>4, <3>1
  <2>5. CASE UNCHANGED <<api, past>> /\ Profile!Answer(t, "confirm", "invalid")
    BY <1>1, <1>2, <2>2, <2>5, ProfileFields
  <2>6. QED BY <1>4, <2>4, <2>5 DEF Profile!ServerConfirm, arg
<1>5. CASE Profile!ServerSave(t)
  <2> DEFINE arg == calls.tab[<<t, "save">>].arg
  <2>1. calls.tab[<<t, "save">>].at = "pending" BY <1>5 DEF Profile!ServerSave, Profile!At
  <2>2. arg \in Nat /\ arg \in Names BY <1>2, <2>1, CallFields DEF TrueCall
  <2>3. page' = page /\ Profile!Runs("save", arg) /\ Profile!AnswerUser(t, "save", "ok")
    BY <1>5 DEF Profile!ServerSave
  <2> HIDE DEF arg
  <2>4. /\ past' \in History /\ AccountOK(api', past'.wrong)
        /\ api.me.verified => api'.me.verified
        /\ past.saved \subseteq past'.saved /\ api'.me.name \in past'.saved
    BY <2>2, <2>3, RunsKeeps
  <2>5. QED BY <1>1, <1>2, <2>3, <2>4
<1>6. CASE Profile!ServerMe(t)
  <2>1. api.me.verified BY <1>2, <1>6, CallFields DEF Profile!ServerMe, Profile!At, TrueCall
  <2>2. page' = page /\ api' = api /\ past' = past /\ Profile!AnswerUser(t, "request", "known")
    BY <1>6 DEF Profile!ServerMe
  <2>3. QED BY <1>1, <1>2, <2>1, <2>2, ProfileFields
<1>7. QED BY <1>3, <1>4, <1>5, <1>6

\* A tab takes its answer in.
LEMMA AnsweredKeepsProfile ==
  ASSUME ProfileParameters, ProfileInv, NEW t \in ProfileTabs,
         Profile!RequestAnswered(t) \/ Profile!ConfirmAnswered(t) \/ Profile!SaveAnswered(t)
  PROVE  ProfileInv'
<1>1. ASSUME NEW op \in Profile!Buttons, NEW p \in ShownPage, Profile!End(t, op),
             page' = [page EXCEPT ![t] = p], api' = api, past' = past,
             p.notice = "verified" => api.me.verified, p.stored \subseteq past.saved
      PROVE  ProfileInv'
  <2>1. Profile!Idle \in Profile!Call BY DEF Profile!Call
  <2>2. calls' = [tab |-> [calls.tab EXCEPT ![<<t, op>>] = Profile!Idle], late |-> calls.late]
    BY <1>1, OnePut DEF Profile!End
  <2>3. TrueCall(op, Profile!Idle, api'.me.verified, past'.saved)
    BY DEF TrueCall, Profile!Idle
  <2>4. /\ calls.late \in SUBSET Profile!Late /\ past \in History /\ AccountOK(api, past.wrong)
        /\ \A r \in calls.late : r.op = "save" => r.arg \in Names
    BY ProfileFields DEF ProfileInv, LateSavesAreNamed
  <2>5. QED BY <1>1, <2>1, <2>2, <2>3, <2>4, TabStepKeeps
<1>2. "request" \in Profile!Buttons /\ "confirm" \in Profile!Buttons /\ "save" \in Profile!Buttons
  BY DEF Profile!Buttons
<1>3. /\ page[t] \in ShownPage /\ page[t].me \in Profile!Me
      /\ page[t].notice = "verified" => api.me.verified
      /\ page[t].stored \subseteq past.saved
  BY PageOf DEF ShownPage
<1>4. ASSUME NEW n \in {"none", "sent", "verified", "error"}, NEW me \in Profile!Me,
             NEW p, p = [page[t] EXCEPT !.notice = n, !.me = me]
      PROVE  p \in ShownPage /\ p.notice = n /\ p.stored = page[t].stored
  BY <1>3, <1>4 DEF ShownPage
<1>5. CASE Profile!RequestAnswered(t)
  <2> DEFINE call == calls.tab[<<t, "request">>]
             n == CASE call.at = "ok" -> "sent" [] call.at = "known" -> "verified"
                    [] OTHER -> "error"
             me == IF call.at = "known" THEN call.me ELSE page[t].me
             p == [page[t] EXCEPT !.notice = n, !.me = me]
  <2>1. call.at \in {"ok", "known", "failed"} BY <1>5 DEF Profile!RequestAnswered
  <2>2. call.me \in Profile!Me /\ (call.at = "known" => api.me.verified)
    BY <1>2, <2>1, CallFields DEF TrueCall
  <2>3. me \in Profile!Me BY <1>3, <2>2
  <2>4. n \in {"none", "sent", "verified", "error"} /\ (n = "verified" => api.me.verified)
    BY <2>1, <2>2
  <2>5. /\ page' = [page EXCEPT ![t] = p] /\ Profile!End(t, "request")
        /\ api' = api /\ past' = past
    BY <1>5 DEF Profile!RequestAnswered
  <2> HIDE DEF n, me
  <2>6. p \in ShownPage /\ p.notice = n /\ p.stored = page[t].stored BY <1>4, <2>3, <2>4
  <2> HIDE DEF p
  <2>7. QED BY <1>1, <1>2, <1>3, <2>4, <2>5, <2>6
<1>6. CASE Profile!ConfirmAnswered(t)
  <2> DEFINE call == calls.tab[<<t, "confirm">>]
             n == IF call.at = "ok" THEN "verified" ELSE "error"
             me == IF call.at = "ok" THEN call.me ELSE page[t].me
             p == [page[t] EXCEPT !.notice = n, !.me = me]
  <2>1. call.at \in {"ok", "invalid", "expired", "exceeded", "failed"}
    BY <1>6 DEF Profile!ConfirmAnswered
  <2>2. call.me \in Profile!Me /\ (call.at = "ok" => api.me.verified)
    BY <1>2, <2>1, CallFields DEF TrueCall
  <2>3. me \in Profile!Me BY <1>3, <2>2
  <2>4. n \in {"none", "sent", "verified", "error"} /\ (n = "verified" => api.me.verified)
    BY <2>2
  <2>5. /\ page' = [page EXCEPT ![t] = p] /\ Profile!End(t, "confirm")
        /\ api' = api /\ past' = past
    BY <1>6 DEF Profile!ConfirmAnswered
  <2> HIDE DEF n, me
  <2>6. p \in ShownPage /\ p.notice = n /\ p.stored = page[t].stored BY <1>4, <2>3, <2>4
  <2> HIDE DEF p
  <2>7. QED BY <1>1, <1>2, <1>3, <2>4, <2>5, <2>6
<1>7. CASE Profile!SaveAnswered(t)
  <2> DEFINE call == calls.tab[<<t, "save">>]
             stored == IF call.at = "ok" THEN {call.me.name} ELSE {}
             me == IF call.at = "ok" THEN call.me ELSE page[t].me
             p == [page[t] EXCEPT !.stored = stored, !.me = me]
  <2>1. call.at \in {"ok", "failed"} BY <1>7 DEF Profile!SaveAnswered
  <2>2. call.me \in Profile!Me /\ (call.at = "ok" => call.me.name \in past.saved)
    BY <1>2, <2>1, CallFields DEF TrueCall
  <2>3. me \in Profile!Me /\ call.me.name \in Names BY <1>3, <2>2 DEF Profile!Me
  <2>4. stored \subseteq Names /\ stored \subseteq past.saved BY <2>2, <2>3
  <2>5. /\ page' = [page EXCEPT ![t] = p] /\ Profile!End(t, "save")
        /\ api' = api /\ past' = past
    BY <1>7 DEF Profile!SaveAnswered
  <2> HIDE DEF stored, me
  <2>6. p \in ShownPage /\ p.notice = page[t].notice /\ p.stored = stored
    BY <1>3, <2>3, <2>4 DEF ShownPage
  <2> HIDE DEF p
  <2>7. QED BY <1>1, <1>2, <1>3, <2>4, <2>5, <2>6
<1>8. QED BY <1>5, <1>6, <1>7

\* An answer is lost, and its request may be run later.
LEMMA LostKeepsProfile ==
  ASSUME ProfileParameters, ProfileInv, NEW t \in ProfileTabs, NEW op \in Profile!Buttons,
         Profile!AnswerLost(t, op)
  PROVE  ProfileInv'
<1> DEFINE c == [at |-> "failed", me |-> Profile!NoOne]
           call == calls.tab[<<t, op>>]
           tab == [calls.tab EXCEPT ![<<t, op>>] = c]
           L == IF Profile!At(t, op, "pending")
                THEN calls.late \cup {[op |-> op, arg |-> call.arg]} ELSE calls.late
<1>1. c \in Answered BY ProfileFields DEF Answered
<1>2. c \in Profile!Call BY <1>1, AnsweredIsCall
<1>3. TrueCall(op, c, api'.me.verified, past'.saved) BY DEF TrueCall
<1>4. call.at = "pending" => call.arg \in Nat /\ (op = "save" => call.arg \in Names)
  BY CallFields DEF TrueCall
<1>5. calls.late \subseteq Profile!Late /\ \A r \in calls.late : r.op = "save" => r.arg \in Names
  BY ProfileFields DEF ProfileInv, LateSavesAreNamed
<1> HIDE DEF call
<1>6. L \in SUBSET Profile!Late /\ \A r \in L : r.op = "save" => r.arg \in Names
  BY <1>4, <1>5 DEF Profile!Late, Profile!At, call
<1>7. calls' = [calls EXCEPT !.tab = tab, !.late = L] BY DEF Profile!AnswerLost, call
<1> HIDE DEF c, tab, L
<1>8. calls' = [tab |-> tab, late |-> L] BY <1>7, ProfileFields
<1>9. /\ past' = [past EXCEPT !.losses = @ + 1] /\ past.losses < MaxLosses
      /\ page' = page /\ api' = api
  BY DEF Profile!AnswerLost
<1>10. past' \in History /\ past'.wrong = past.wrong /\ past'.saved = past.saved
  BY <1>9, ProfileFields DEF History, ProfileParameters
<1>11. AccountOK(api', past'.wrong) BY <1>9, <1>10, ProfileFields
<1>12. /\ page[t] \in ShownPage /\ page' = [page EXCEPT ![t] = page[t]]
       /\ page[t].notice = "verified" => api'.me.verified
       /\ page[t].stored \subseteq past'.saved
  BY <1>9, <1>10, PageOf
<1>13. QED BY <1>2, <1>3, <1>6, <1>8, <1>9, <1>10, <1>11, <1>12, TabStepKeeps DEF tab

\* Steps of no tab: the requests of tabs stay, and late ones become fewer.
LEMMA OtherStepKeeps ==
  ASSUME ProfileParameters, ProfileInv, page' = page,
         NEW L \in SUBSET calls.late, calls' = [tab |-> calls.tab, late |-> L],
         past' \in History, AccountOK(api', past'.wrong),
         api.me.verified => api'.me.verified, past.saved \subseteq past'.saved
  PROVE  ProfileInv'
<1>1. /\ page \in [ProfileTabs -> ShownPage]
      /\ calls.tab \in [ProfileTabs \X Profile!Buttons -> Profile!Call]
      /\ calls.late \subseteq Profile!Late /\ api.me.verified \in BOOLEAN
  BY ProfileFields
<1>2. api' \in Profile!Account /\ api'.me.verified \in BOOLEAN
  BY AccountFields DEF AccountOK
<1>3. calls'.tab = calls.tab /\ calls'.late = L OBVIOUS
<1>4. Profile!TypeOK'
  <2>1. calls' \in [tab : [ProfileTabs \X Profile!Buttons -> Profile!Call],
                    late : SUBSET Profile!Late]
    BY <1>1
  <2>2. QED BY <1>1, <1>2, <2>1 DEF Profile!TypeOK, ShownPage, History
<1>5. AnswersAreTrue'
  <2>1. ASSUME NEW t \in ProfileTabs, NEW op \in Profile!Buttons
        PROVE  TrueCall(op, calls.tab[<<t, op>>], api'.me.verified, past'.saved)
    <3>1. TrueCall(op, calls.tab[<<t, op>>], api.me.verified, past.saved)
      BY DEF ProfileInv, AnswersAreTrue
    <3>2. QED BY <1>1, <1>2, <3>1, StaysTrue
  <2>2. QED BY <1>3, <2>1 DEF AnswersAreTrue
<1>6. LateSavesAreNamed' BY <1>3 DEF ProfileInv, LateSavesAreNamed
<1>7. Profile!NoticesAreTrue' BY DEF ProfileInv, Profile!NoticesAreTrue
<1>8. QED BY <1>4, <1>5, <1>6, <1>7 DEF ProfileInv

LEMMA LateKeepsProfile ==
  ASSUME ProfileParameters, ProfileInv, NEW r \in calls.late, Profile!ServeLate(r)
  PROVE  ProfileInv'
<1>1. r \in Profile!Late /\ (r.op = "save" => r.arg \in Names)
  BY ProfileFields DEF ProfileInv, LateSavesAreNamed
<1>2. r.arg \in Nat BY <1>1 DEF Profile!Late
<1>3. /\ past' \in History /\ AccountOK(api', past'.wrong)
      /\ api.me.verified => api'.me.verified /\ past.saved \subseteq past'.saved
  BY <1>1, <1>2, RunsKeeps DEF Profile!ServeLate
<1>4. calls' = [calls EXCEPT !.late = calls.late \ {r}] /\ page' = page
  BY DEF Profile!ServeLate
<1>5. calls' = [tab |-> calls.tab, late |-> calls.late \ {r}] BY <1>4, ProfileFields
<1>6. past.saved \subseteq past'.saved BY <1>1, <1>2, RunsKeeps DEF Profile!ServeLate
<1>7. calls.late \ {r} \in SUBSET calls.late OBVIOUS
<1>8. QED BY <1>3, <1>4, <1>5, <1>6, <1>7, OtherStepKeeps

\* A code that expires stays what it was otherwise.
LEMMA CodeExpiresKeeps ==
  ASSUME ProfileParameters, ProfileInv, NEW i \in DOMAIN api.codes, Profile!CodeExpires(i)
  PROVE  ProfileInv' /\ api'.me = api.me
<1> DEFINE n == Len(api.codes)
           row == [api.codes[n] EXCEPT !.expired = TRUE]
           s == [api.codes EXCEPT ![n] = row]
<1>1. /\ AccountOK(api, past.wrong) /\ api \in Profile!Account /\ past.wrong \in 0..MaxAttempts
      /\ api.me \in Profile!Me
  BY ProfileFields
<1>2. Profile!Unused(api) # {} /\ i = n
  BY <1>1 DEF Profile!CodeExpires, AccountOK
<1>3. n \in 1..n /\ api.codes[n].attempts = past.wrong /\ past.wrong < MaxAttempts
  BY <1>1, <1>2, LatestIsNewest
<1>4. api.codes[n] \in Profile!Code BY <1>1, <1>3, AccountFields
<1>5. row \in Profile!Code /\ row.attempts = past.wrong BY <1>3, <1>4 DEF Profile!Code
<1>6. api' = [api EXCEPT !.codes = s] BY <1>2 DEF Profile!CodeExpires
<1> HIDE DEF row
<1>7. AccountOK([me |-> api.me, codes |-> s], past.wrong)
  BY <1>1, <1>2, <1>3, <1>5, CodeReplaced
<1> HIDE DEF s
<1>8. api' = [me |-> api.me, codes |-> s] BY <1>1, <1>6, PutCodes
<1>9. /\ page' = page /\ calls' = calls /\ past' = past
      /\ calls = [tab |-> calls.tab, late |-> calls.late] /\ past \in History
  BY ProfileFields DEF Profile!CodeExpires
<1>10. calls.late \in SUBSET calls.late OBVIOUS
<1>11. AccountOK(api', past'.wrong) /\ api'.me = api.me BY <1>7, <1>8, <1>9
<1>12. QED BY <1>9, <1>10, <1>11, OtherStepKeeps

\* Every step keeps the invariant.
LEMMA NextProfileInv ==
  ASSUME ProfileParameters PROVE ProfileInv /\ [Profile!Next]_(Profile!vars) => ProfileInv'
<1> SUFFICES ASSUME ProfileInv, [Profile!Next]_(Profile!vars) PROVE ProfileInv' OBVIOUS
<1>1. CASE UNCHANGED Profile!vars
  <2>1. page' = page /\ api' = api /\ calls' = calls /\ past' = past
    BY <1>1 DEF Profile!vars
  <2>2. /\ calls = [tab |-> calls.tab, late |-> calls.late] /\ past \in History
        /\ AccountOK(api, past.wrong) /\ calls.late \in SUBSET calls.late
    BY ProfileFields
  <2>3. QED BY <2>1, <2>2, OtherStepKeeps
<1>2. CASE Profile!Next
  BY <1>2, PressKeepsProfile, ServerKeepsProfile, AnsweredKeepsProfile, LostKeepsProfile,
     LateKeepsProfile, CodeExpiresKeeps DEF Profile!Next
<1>3. QED BY <1>1, <1>2

-----------------------------------------------------------------------------
(* ProfilePage: what every step does.                                      *)

\* A step that verifies the address runs a confirmation with the newest code.
LEMMA VerifyStepIsKept ==
  ASSUME ProfileParameters PROVE ProfileInv /\ [Profile!Next]_(Profile!vars) => Profile!VerifyStep
<1> SUFFICES ASSUME ProfileInv, [Profile!Next]_(Profile!vars),
                    ~api.me.verified, api'.me.verified
             PROVE  /\ Len(api.codes) \in Profile!Confirming
                    /\ ~api.codes[Len(api.codes)].expired
                    /\ past.wrong < MaxAttempts
  BY DEF Profile!VerifyStep
<1> DEFINE Goal == /\ Len(api.codes) \in Profile!Confirming
                   /\ ~api.codes[Len(api.codes)].expired
                   /\ past.wrong < MaxAttempts
<1>1. api'.me # api.me OBVIOUS
<1>2. "request" \in Profile!Buttons /\ "confirm" \in Profile!Buttons /\ "save" \in Profile!Buttons
  BY DEF Profile!Buttons
<1>3. ASSUME NEW t \in ProfileTabs, Profile!ServerRequest(t) PROVE Goal
  <2>1. Profile!Runs("request", 0) BY <1>3 DEF Profile!ServerRequest
  <2>2. QED BY <2>1, RunsKeeps
<1>4. ASSUME NEW t \in ProfileTabs, Profile!ServerConfirm(t) PROVE Goal
  <2> DEFINE arg == calls.tab[<<t, "confirm">>].arg
  <2>1. calls.tab[<<t, "confirm">>].at = "pending" BY <1>4 DEF Profile!ServerConfirm
  <2>2. arg \in Nat BY <1>2, <2>1, CallFields
  <2>3. Profile!Runs("confirm", arg) BY <1>1, <1>4 DEF Profile!ServerConfirm
  <2>4. arg \in Profile!Confirming BY <2>1 DEF Profile!Confirming, Profile!At
  <2> HIDE DEF arg
  <2>5. QED BY <2>2, <2>3, <2>4, RunsKeeps
<1>5. ASSUME NEW t \in ProfileTabs, Profile!ServerSave(t) PROVE Goal
  <2> DEFINE arg == calls.tab[<<t, "save">>].arg
  <2>1. calls.tab[<<t, "save">>].at = "pending" BY <1>5 DEF Profile!ServerSave, Profile!At
  <2>2. arg \in Nat /\ arg \in Names BY <1>2, <2>1, CallFields DEF TrueCall
  <2>3. Profile!Runs("save", arg) BY <1>5 DEF Profile!ServerSave
  <2> HIDE DEF arg
  <2>4. QED BY <2>2, <2>3, RunsKeeps
<1>6. ASSUME NEW r \in calls.late, Profile!ServeLate(r) PROVE Goal
  <2>1. r \in Profile!Late /\ (r.op = "save" => r.arg \in Names)
    BY ProfileFields DEF ProfileInv, LateSavesAreNamed
  <2>2. r.arg \in Nat BY <2>1 DEF Profile!Late
  <2>3. r.op = "confirm" => r.arg \in Profile!Confirming BY DEF Profile!Confirming
  <2>4. Profile!Runs(r.op, r.arg) BY <1>6 DEF Profile!ServeLate
  <2>5. QED BY <2>1, <2>2, <2>3, <2>4, RunsKeeps
<1>7. ASSUME NEW i \in DOMAIN api.codes, Profile!CodeExpires(i) PROVE FALSE
  BY <1>1, <1>7, CodeExpiresKeeps
<1>8. ASSUME NEW t \in ProfileTabs,
             \/ Profile!PressRequest(t) \/ Profile!RequestAnswered(t)
             \/ \E c \in 0..Len(api.codes) : Profile!PressConfirm(t, c)
             \/ Profile!ConfirmAnswered(t) \/ Profile!SaveAnswered(t) \/ Profile!ServerMe(t)
             \/ \E n \in Names : Profile!PressSave(t, n)
             \/ \E op \in Profile!Buttons : Profile!AnswerLost(t, op)
      PROVE  api' = api
  BY <1>8 DEF Profile!PressRequest, Profile!RequestAnswered, Profile!PressConfirm,
              Profile!ConfirmAnswered, Profile!SaveAnswered, Profile!ServerMe,
              Profile!PressSave, Profile!AnswerLost
<1>9. Profile!Next BY <1>1 DEF Profile!vars
<1> HIDE DEF Goal
<1>10. Goal BY <1>1, <1>3, <1>4, <1>5, <1>6, <1>7, <1>8, <1>9 DEF Profile!Next
<1>11. QED BY <1>10 DEF Goal

LEMMA ProfileInvIsTrue == ProfileInv => Profile!NoticesAreTrue /\ Profile!TypeOK
BY DEF ProfileInv

\* What a tab reports as verified or saved is verified or saved, whatever answers are
\* lost, late or overtaken by those of other tabs (ProfilePage.tsx).
THEOREM ProfileNoticesAreTrue ==
  ASSUME ProfileParameters
  PROVE  Profile!Init /\ [][Profile!Next]_(Profile!vars) => []Profile!NoticesAreTrue
BY InitProfileInv, NextProfileInv, ProfileInvIsTrue, PTL

\* An address becomes verified only by its newest code, unexpired, before MaxAttempts
\* codes that do not match (email_verification.go, ConfirmEmailVerification).
THEOREM VerifiedByNewestCode ==
  ASSUME ProfileParameters
  PROVE  Profile!Init /\ [][Profile!Next]_(Profile!vars)
           => [][Profile!VerifyStep]_(Profile!vars)
BY InitProfileInv, NextProfileInv, VerifyStepIsKept, PTL
-----------------------------------------------------------------------------
(* BallotForm: induction, lists and division.                              *)

Less == {p \in Nat \X Nat : p[1] < p[2]}

\* Induction over the numbers, for a set of them.
LEMMA NatSetInduction ==
  ASSUME NEW S, 0 \in S, \A n \in Nat : n \in S => n + 1 \in S
  PROVE  Nat \subseteq S
<1> DEFINE Missing == Nat \ S
<1>1. IsWellFoundedOn(Less, Nat)
  BY NatLessThanWellFounded DEF OpToRel, Less
<1> SUFFICES ASSUME Missing # {} PROVE FALSE OBVIOUS
<1>2. PICK m \in Missing : ~ \E y \in Missing : <<y, m>> \in Less
  <2>1. Missing \subseteq Nat OBVIOUS
  <2> HIDE DEF Missing
  <2> QED BY <1>1, <2>1, WFMin
<1>3. m # 0 /\ m \in Nat OBVIOUS
<1>4. m - 1 \in Nat /\ m - 1 < m /\ (m - 1) + 1 = m BY <1>3
<1>5. <<m - 1, m>> \in Less BY <1>3, <1>4 DEF Less
<1>6. m - 1 \in S BY <1>2, <1>4, <1>5
<1> QED BY <1>4, <1>6

\* The lists kept of the prefixes of s.
UpTo(s, S, n) ==
  {g \in [0..n -> Seq(S)] :
     \A i \in 0..n : g[i] = IF i = 0 THEN <<>>
                            ELSE IF s[i] \in S THEN Append(g[i - 1], s[i]) ELSE g[i - 1]}

LEMMA UpToExists ==
  ASSUME NEW s, NEW S, NEW N \in Nat PROVE UpTo(s, S, N) # {}
<1> DEFINE G == {n \in Nat : UpTo(s, S, n) # {}}
<1>1. 0 \in G
  <2>1. [i \in 0..0 |-> <<>>] \in UpTo(s, S, 0) BY DEF UpTo
  <2> QED BY <2>1
<1>2. ASSUME NEW n \in Nat, n \in G PROVE n + 1 \in G
  <2>1. PICK g : g \in UpTo(s, S, n) BY <1>2
  <2> DEFINE last == IF s[n + 1] \in S THEN Append(g[n], s[n + 1]) ELSE g[n]
             h == [i \in 0..(n + 1) |-> IF i = n + 1 THEN last ELSE g[i]]
  <2>2. g \in [0..n -> Seq(S)] /\ g[n] \in Seq(S) BY <2>1 DEF UpTo
  <2>3. last \in Seq(S) BY <2>2
  <2>4. h \in [0..(n + 1) -> Seq(S)] BY <2>2, <2>3
  <2>5. h[n + 1] = last /\ \A i \in 0..n : h[i] = g[i] OBVIOUS
  <2>6. h[n] = g[n] BY <2>5
  <2> HIDE DEF h
  <2>7. ASSUME NEW i \in 0..(n + 1)
        PROVE  h[i] = IF i = 0 THEN <<>>
                      ELSE IF s[i] \in S THEN Append(h[i - 1], s[i]) ELSE h[i - 1]
    <3>1. CASE i = n + 1 BY <3>1, <2>5, <2>6
    <3>2. CASE i \in 0..n /\ i # 0
      <4>1. g[i] = IF s[i] \in S THEN Append(g[i - 1], s[i]) ELSE g[i - 1]
        BY <2>1, <3>2 DEF UpTo
      <4>2. h[i] = g[i] /\ i - 1 \in 0..n /\ h[i - 1] = g[i - 1] BY <2>5, <3>2
      <4> QED BY <4>1, <4>2, <3>2
    <3>3. CASE i = 0
      <4>1. g[0] = <<>> /\ h[0] = g[0] BY <2>1, <2>5 DEF UpTo
      <4> QED BY <4>1, <3>3
    <3> QED BY <3>1, <3>2, <3>3
  <2>8. h \in UpTo(s, S, n + 1) BY <2>4, <2>7 DEF UpTo
  <2> QED BY <2>8
<1>3. Nat \subseteq G
  <2> HIDE DEF G
  <2> QED BY <1>1, <1>2, NatSetInduction
<1> QED BY <1>3

\* Kept is the last of a chain of lists, one for each prefix.
LEMMA KeptChain ==
  ASSUME NEW s, NEW S, Len(s) \in Nat
  PROVE  \E g \in UpTo(s, S, Len(s)) : Form!Kept(s, S) = g[Len(s)]
<1> DEFINE N == Len(s)
           Is(g) == g = [i \in 0..N |-> IF i = 0 THEN <<>> ELSE
                           IF s[i] \in S THEN Append(g[i - 1], s[i]) ELSE g[i - 1]]
           f == CHOOSE g : Is(g)
<1>1. PICK g : g \in UpTo(s, S, N) BY UpToExists
<1>2. Is(g) BY <1>1 DEF UpTo
<1>3. Is(f) BY <1>2
<1>4. Form!Kept(s, S) = f[N] BY DEF Form!Kept
<1> HIDE DEF f
<1>5. DOMAIN f = 0..N /\ f = [i \in 0..N |-> f[i]] BY <1>3
<1>6. \A i \in 0..N : f[i] = IF i = 0 THEN <<>>
                            ELSE IF s[i] \in S THEN Append(f[i - 1], s[i]) ELSE f[i - 1]
  BY <1>3
<1>7. \A i \in 0..N : f[i] = g[i]
  <2> DEFINE G == {i \in Nat : i \in 0..N => f[i] = g[i]}
  <2>1. \A i \in 0..N : g[i] = IF i = 0 THEN <<>>
                            ELSE IF s[i] \in S THEN Append(g[i - 1], s[i]) ELSE g[i - 1]
    BY <1>1 DEF UpTo
  <2>2. 0 \in G BY <1>6, <2>1
  <2>3. \A i \in Nat : i \in G => i + 1 \in G
    <3> SUFFICES ASSUME NEW i \in Nat, i \in G, i + 1 \in 0..N PROVE f[i + 1] = g[i + 1]
      OBVIOUS
    <3>1. i \in 0..N /\ (i + 1) - 1 = i /\ i + 1 # 0 OBVIOUS
    <3>2. f[i] = g[i] BY <3>1
    <3>3. f[i + 1] = IF s[i + 1] \in S THEN Append(f[i], s[i + 1]) ELSE f[i] BY <3>1, <1>6
    <3>4. g[i + 1] = IF s[i + 1] \in S THEN Append(g[i], s[i + 1]) ELSE g[i] BY <3>1, <2>1
    <3> QED BY <3>2, <3>3, <3>4
  <2>4. Nat \subseteq G
    <3> HIDE DEF G
    <3> QED BY <2>2, <2>3, NatSetInduction
  <2> QED BY <2>4
<1>8. f = g BY <1>5, <1>7, <1>1 DEF UpTo
<1> QED BY <1>1, <1>4, <1>8

\* What Kept returns: members of S once each if they were, and all of a prefix that is
\* in S.
LEMMA KeptIs ==
  ASSUME NEW S, NEW U, NEW s \in Seq(U), NEW p \in 0..Len(s),
         \A k \in 1..p : s[k] \in S
  PROVE  /\ Form!Kept(s, S) \in Seq(S)
         /\ \A k \in DOMAIN Form!Kept(s, S) : \E j \in DOMAIN s : Form!Kept(s, S)[k] = s[j]
         /\ (\A i, j \in DOMAIN s : s[i] = s[j] => i = j)
            => \A i, j \in DOMAIN Form!Kept(s, S) : Form!Kept(s, S)[i] = Form!Kept(s, S)[j] => i = j
         /\ \A k \in 1..p : k \in DOMAIN Form!Kept(s, S) /\ Form!Kept(s, S)[k] = s[k]
<1> DEFINE N == Len(s)
           Once == \A i, j \in DOMAIN s : s[i] = s[j] => i = j
<1>0. N \in Nat /\ DOMAIN s = 1..N /\ p \in Nat /\ p <= N OBVIOUS
<1>1. PICK g \in UpTo(s, S, N) : Form!Kept(s, S) = g[N] BY <1>0, KeptChain
<1>2. g \in [0..N -> Seq(S)] BY <1>1 DEF UpTo
<1>3. \A i \in 0..N : g[i] = IF i = 0 THEN <<>>
                            ELSE IF s[i] \in S THEN Append(g[i - 1], s[i]) ELSE g[i - 1]
  BY <1>1 DEF UpTo
<1> DEFINE From(i) == \A k \in DOMAIN g[i] : \E j \in 1..i : g[i][k] = s[j]
           Unique(i) == \A k, j \in DOMAIN g[i] : g[i][k] = g[i][j] => k = j
           Full(i) == /\ Len(g[i]) <= i /\ (i <= p => Len(g[i]) = i)
                      /\ \A k \in 1..i : k <= p => k \in DOMAIN g[i] /\ g[i][k] = s[k]
           Good(i) == From(i) /\ (Once => Unique(i)) /\ Full(i)
           G == {i \in Nat : i \in 0..N => Good(i)}
<1>4. 0 \in G
  <2>1. g[0] = <<>> /\ 0 \in 0..N BY <1>3, <1>0
  <2>2. DOMAIN g[0] = {} /\ Len(g[0]) = 0 BY <2>1
  <2>3. From(0) /\ Unique(0) BY <2>2
  <2>4. Full(0) BY <2>2
  <2> HIDE DEF From, Unique, Full, Once
  <2> QED BY <2>3, <2>4
<1>5. \A i \in Nat : i \in G => i + 1 \in G
  <2> HIDE DEF Good
  <2> SUFFICES ASSUME NEW i \in Nat, i \in G, i + 1 \in 0..N PROVE Good(i + 1)
    OBVIOUS
  <2>0. Good(i) BY <1>0
  <2> USE DEF Good
  <2>1. i \in 0..N /\ i + 1 \in 1..N /\ (i + 1) - 1 = i /\ i + 1 # 0
    <3> HIDE DEF Good, G, N
    <3> QED BY <1>0
  <2>2. g[i + 1] = IF s[i + 1] \in S THEN Append(g[i], s[i + 1]) ELSE g[i]
    BY <2>1, <1>3
  <2>3. From(i) /\ (Once => Unique(i)) /\ Full(i) BY <2>0
  <2>4. g[i] \in Seq(S) BY <1>2, <2>1
  <2> DEFINE a == g[i]
             b == g[i + 1]
  <2>5. a \in Seq(S) /\ b = IF s[i + 1] \in S THEN Append(a, s[i + 1]) ELSE a
    BY <2>2, <2>4
  <2>6. \A k \in DOMAIN a : \E j \in 1..i : a[k] = s[j] BY <2>3
  <2>10. Once => \A k, j \in DOMAIN a : a[k] = a[j] => k = j BY <2>3
  <2>11. Len(a) <= i /\ (i <= p => Len(a) = i) BY <2>3
  <2>12. \A k \in 1..i : k <= p => k \in DOMAIN a /\ a[k] = s[k] BY <2>3
  <2>7. i + 1 <= p => s[i + 1] \in S BY <2>1
  <2> SUFFICES /\ \A k \in DOMAIN b : \E j \in 1..(i + 1) : b[k] = s[j]
               /\ Once => \A k, j \in DOMAIN b : b[k] = b[j] => k = j
               /\ Len(b) <= i + 1 /\ (i + 1 <= p => Len(b) = i + 1)
               /\ \A k \in 1..(i + 1) : k <= p => k \in DOMAIN b /\ b[k] = s[k]
    OBVIOUS
  <2> HIDE DEF a, b, G, Once, N, Good
  <2>8. CASE s[i + 1] \in S
    <3>1. /\ b = Append(a, s[i + 1]) /\ Len(b) = Len(a) + 1 /\ DOMAIN b = 1..(Len(a) + 1)
          /\ b[Len(a) + 1] = s[i + 1] /\ \A k \in 1..Len(a) : b[k] = a[k]
          /\ Len(a) \in Nat /\ DOMAIN a = 1..Len(a)
      BY <2>5, <2>8
    <3>2. \A k \in DOMAIN b : \E j \in 1..(i + 1) : b[k] = s[j]
      <4> SUFFICES ASSUME NEW k \in DOMAIN b PROVE \E j \in 1..(i + 1) : b[k] = s[j]
        OBVIOUS
      <4>1. CASE k = Len(a) + 1 BY <4>1, <3>1
      <4>2. CASE k \in 1..Len(a)
        <5>1. PICK j \in 1..i : a[k] = s[j] BY <4>2, <2>6, <3>1
        <5> QED BY <5>1, <4>2, <3>1
      <4> QED BY <4>1, <4>2, <3>1
    <3>3. ASSUME Once, NEW k \in DOMAIN b, NEW j \in DOMAIN b, b[k] = b[j], k < j
          PROVE  FALSE
      <4>1. k \in 1..Len(a) /\ (j \in 1..Len(a) \/ j = Len(a) + 1) BY <3>1, <3>3
      <4>2. CASE j \in 1..Len(a) 
        <5>1. a[k] = a[j] BY <4>1, <4>2, <3>1, <3>3
        <5>2. k = j BY <5>1, <4>1, <4>2, <3>1, <3>3, <2>10
        <5> QED BY <5>2, <3>3, <3>1
      <4>3. CASE j = Len(a) + 1
        <5>1. PICK n \in 1..i : a[k] = s[n] BY <4>1, <2>6, <3>1
        <5>2. s[n] = s[i + 1] BY <5>1, <4>1, <4>3, <3>1, <3>3
        <5> QED BY <5>1, <5>2, <3>3, <2>1, <1>0 DEF Once
      <4> QED BY <4>1, <4>2, <4>3
    <3>4. Once => \A k, j \in DOMAIN b : b[k] = b[j] => k = j
      <4> SUFFICES ASSUME Once, NEW k \in DOMAIN b, NEW j \in DOMAIN b, b[k] = b[j], k # j
                   PROVE  FALSE
        OBVIOUS
      <4>1. k < j \/ j < k BY <3>1
      <4> QED BY <4>1, <3>3
    <3>5. Len(b) <= i + 1 /\ (i + 1 <= p => Len(b) = i + 1)
      <4>1. Len(b) = Len(a) + 1 /\ Len(a) \in Nat BY <3>1
      <4>2. p \in Nat BY <1>0
      <4> HIDE DEF Full, From, Unique
      <4> QED BY <4>1, <4>2, <2>11
    <3>6. ASSUME NEW k \in 1..(i + 1), k <= p PROVE k \in DOMAIN b /\ b[k] = s[k]
      <4>1. CASE k \in 1..i 
        <5>1. k \in DOMAIN a /\ a[k] = s[k] BY <4>1, <3>6, <2>12
        <5> QED BY <5>1, <3>1
      <4>2. CASE k = i + 1
        <5>1. Len(a) = i BY <4>2, <3>6, <2>11, <1>0
        <5> QED BY <5>1, <4>2, <3>1
      <4> QED BY <4>1, <4>2
    <3> QED BY <3>2, <3>4, <3>5, <3>6
  <2>9. CASE s[i + 1] \notin S
    <3>1. b = a BY <2>5, <2>9
    <3>2. ~(i + 1 <= p) BY <2>7, <2>9
    <3>3. \A k \in DOMAIN b : \E j \in 1..(i + 1) : b[k] = s[j]
      <4> SUFFICES ASSUME NEW k \in DOMAIN a PROVE \E j \in 1..(i + 1) : a[k] = s[j]
        BY <3>1
      <4>1. PICK j \in 1..i : a[k] = s[j] BY <2>6
      <4> QED BY <4>1
    <3>4. Len(b) <= i + 1
      <4>1. Len(a) \in Nat BY <2>5
      <4> QED BY <4>1, <3>1, <2>11
    <3>5. ASSUME NEW k \in 1..(i + 1), k <= p PROVE k \in DOMAIN b /\ b[k] = s[k]
      <4>1. k \in 1..i BY <3>2, <3>5, <1>0
      <4> QED BY <4>1, <3>5, <3>1, <2>12
    <3> QED BY <3>1, <3>2, <3>3, <3>4, <3>5, <2>10
  <2> QED BY <2>8, <2>9
<1>6. Nat \subseteq G
  <2> HIDE DEF G
  <2> QED BY <1>4, <1>5, NatSetInduction
<1>7. From(N) /\ (Once => Unique(N)) /\ Full(N)
  <2>1. N \in G /\ N \in 0..N BY <1>6, <1>0
  <2>2. Good(N)
    <3> HIDE DEF Good
    <3> QED BY <2>1
  <2> QED BY <2>2
<1> DEFINE r == Form!Kept(s, S)
<1>8. r \in Seq(S) BY <1>1, <1>2, <1>0
<1>9. \A k \in DOMAIN r : \E j \in DOMAIN s : r[k] = s[j] BY <1>7, <1>1, <1>0
<1>10. Once => \A i, j \in DOMAIN r : r[i] = r[j] => i = j BY <1>7, <1>1
<1>11. \A k \in 1..p : k \in DOMAIN r /\ r[k] = s[k] BY <1>7, <1>1, <1>0
<1> QED BY <1>8, <1>9, <1>10, <1>11
\* Division by a positive number.
LEMMA Division ==
  ASSUME NEW a \in Int, NEW d \in Nat, d > 0
  PROVE  a = d * (a \div d) + (a % d) /\ a \div d \in Int /\ a % d \in 0..(d - 1)
OBVIOUS

LEMMA TimesMonotone ==
  ASSUME NEW d \in Nat, NEW k \in Int, d > 0
  PROVE  (k >= 1 => d * k >= d) /\ (k <= -1 => d * k <= -d)
OBVIOUS

\* A multiple leaves no remainder.
LEMMA MultipleOf ==
  ASSUME NEW q \in Int, NEW d \in Nat, d > 0 PROVE (d * q) % d = 0
<1> DEFINE m == d * q
           r == m \div d
<1>1. m \in Int OBVIOUS
<1>2. m = d * r + (m % d) /\ r \in Int /\ m % d \in 0..(d - 1) BY <1>1, Division
<1> HIDE DEF r
<1>3. d * q - d * r = d * (q - r) BY <1>2
<1>4. d * (q - r) = m % d BY <1>2, <1>3
<1>5. q - r \in Int /\ (q - r >= 1 \/ q - r <= -1 \/ q - r = 0) BY <1>2
<1>6. q - r = 0
  <2> DEFINE k == q - r
  <2> HIDE DEF k
  <2>1. (k >= 1 => d * k >= d) /\ (k <= -1 => d * k <= -d) BY <1>5, TimesMonotone DEF k
  <2>2. d * k \in 0..(d - 1) BY <1>2, <1>4 DEF k
  <2>3. d * k \in Int BY <2>2
  <2> QED BY <1>5, <2>1, <2>2, <2>3 DEF k
<1> QED BY <1>4, <1>6

\* Halves on a scale of whole steps are whole numbers on it.
LEMMA OnScale ==
  ASSUME NEW v \in Int, NEW lo \in Int, NEW hi \in Int, NEW step \in Nat, step > 0,
         v >= 2 * lo, v <= 2 * hi, (v - 2 * lo) % (2 * step) = 0
  PROVE  /\ v % 2 = 0 /\ v \div 2 >= lo /\ v \div 2 <= hi
         /\ (v \div 2 - lo) % step = 0
<1> DEFINE q == (v - 2 * lo) \div (2 * step)
           m == step * q
<1>1. v - 2 * lo = (2 * step) * q /\ q \in Int
  <2>1. 2 * step \in Nat /\ 2 * step > 0 /\ v - 2 * lo \in Int OBVIOUS
  <2> QED BY <2>1, Division
<1> HIDE DEF q
<1>2. m \in Int /\ (2 * step) * q = 2 * m BY <1>1
<1>3. m % step = 0 BY <1>1, MultipleOf
<1> HIDE DEF m
<1>4. v = 2 * (lo + m) BY <1>1, <1>2
<1>5. v % 2 = 0 /\ v \div 2 = lo + m BY <1>2, <1>4
<1> QED BY <1>2, <1>3, <1>5
-----------------------------------------------------------------------------
(* BallotForm.                                                             *)

\* There are candidates, rules have their types, and an empty position is nobody's.
FormParameters ==
  /\ IsFiniteSet(Candidates) /\ Candidates # {} /\ Empty \notin Candidates
  /\ Metas \subseteq Form!Meta /\ Typed \subseteq Int

ScoreSets == UNION {[C -> Int] : C \in SUBSET Candidates}
FormPage == [meta : Metas, approval : Seq(Candidates),
             slots : Seq(Candidates \cup {Empty}), scores : ScoreSets]

\* Approved candidates are listed once each, and there are scores where scores are
\* asked for.
FormInv ==
  /\ api \in Metas /\ page \in FormPage
  /\ Form!Distinct(page.approval)
  /\ page.meta.format = "score" => DOMAIN page.scores # {}

\* Cardinality is that of FiniteSets.
LEMMA SameCardinality == ASSUME NEW X PROVE Form!Cardinality(X) = Cardinality(X)
BY DEF Form!Cardinality, Cardinality

\* A page but for one field.
LEMMA OnePageField ==
  ASSUME NEW M, NEW A, NEW L, NEW F,
         NEW p \in [meta : M, approval : A, slots : L, scores : F], NEW x
  PROVE  /\ [p EXCEPT !.approval = x] =
              [meta |-> p.meta, approval |-> x, slots |-> p.slots, scores |-> p.scores]
         /\ [p EXCEPT !.slots = x] =
              [meta |-> p.meta, approval |-> p.approval, slots |-> x, scores |-> p.scores]
         /\ [p EXCEPT !.scores = x] =
              [meta |-> p.meta, approval |-> p.approval, slots |-> p.slots, scores |-> x]
OBVIOUS

\* The new page of an action, field by field.
LEMMA FormStep ==
  ASSUME FormInv, NEW m \in Metas, NEW a \in Seq(Candidates),
         NEW l \in Seq(Candidates \cup {Empty}), NEW f \in ScoreSets,
         page' = [meta |-> m, approval |-> a, slots |-> l, scores |-> f],
         api' \in Metas, Form!Distinct(a), m.format = "score" => DOMAIN f # {}
  PROVE  FormInv'
<1>1. page' \in FormPage BY DEF FormPage
<1>2. page'.meta = m /\ page'.approval = a /\ page'.scores = f OBVIOUS
<1>3. Form!Distinct(page.approval)' BY <1>2 DEF Form!Distinct
<1> QED BY <1>1, <1>2, <1>3 DEF FormInv

\* The types of the page's fields.
LEMMA FormFields ==
  ASSUME FormInv
  PROVE  /\ page.meta \in Metas /\ page.approval \in Seq(Candidates)
         /\ page.slots \in Seq(Candidates \cup {Empty}) /\ page.scores \in ScoreSets
         /\ DOMAIN page.scores \subseteq Candidates
         /\ \A c \in DOMAIN page.scores : page.scores[c] \in Int
         /\ page = [meta |-> page.meta, approval |-> page.approval,
                    slots |-> page.slots, scores |-> page.scores]
<1>1. /\ page.meta \in Metas /\ page.approval \in Seq(Candidates)
      /\ page.slots \in Seq(Candidates \cup {Empty}) /\ page.scores \in ScoreSets
      /\ page = [meta |-> page.meta, approval |-> page.approval,
                 slots |-> page.slots, scores |-> page.scores]
  BY DEF FormInv, FormPage
<1>2. PICK C \in SUBSET Candidates : page.scores \in [C -> Int] BY <1>1 DEF ScoreSets
<1> QED BY <1>1, <1>2

\* What a page starts from: empty positions, as many as there are candidates or as the
\* rules allow, and a score for each candidate where scores are asked for.
LEMMA Starts ==
  ASSUME FormParameters, NEW m \in Metas, NEW old \in ScoreSets
  PROVE  /\ Form!BlankSlots(m) \in Seq(Candidates \cup {Empty})
         /\ Form!InitialScores(m, old) \in ScoreSets
         /\ m.format = "score" => DOMAIN Form!InitialScores(m, old) # {}
<1>1. m.topK \in Nat /\ m.lo \in Int BY DEF FormParameters, Form!Meta
<1>2. Form!SlotCount(m) \in Nat
  <2>1. Form!Cardinality(Candidates) \in Nat
    BY FS_CardinalityType, SameCardinality DEF FormParameters
  <2> QED BY <1>1, <2>1 DEF Form!SlotCount
<1>3. Form!BlankSlots(m) \in Seq(Candidates \cup {Empty})
  <2> DEFINE n == Form!SlotCount(m)
  <2>1. n \in Nat BY <1>2
  <2>2. <<>> \in Seq(Candidates \cup {Empty}) OBVIOUS
  <2>3. [i \in 1..n |-> Empty] \in Seq(Candidates \cup {Empty})
    <3> HIDE DEF n
    <3> QED BY <2>1
  <2> QED BY <2>2, <2>3 DEF Form!BlankSlots
<1>4. Form!InitialScores(m, old) \in ScoreSets
  <2>1. [c \in Candidates |-> 2 * m.lo] \in [Candidates -> Int] BY <1>1
  <2> QED BY <2>1 DEF ScoreSets, Form!InitialScores
<1>5. m.format = "score" => DOMAIN Form!InitialScores(m, old) # {}
  BY DEF Form!InitialScores, FormParameters
<1> QED BY <1>3, <1>4, <1>5

LEMMA InitFormInv == ASSUME FormParameters PROVE Form!Init => FormInv
<1> SUFFICES ASSUME Form!Init PROVE FormInv OBVIOUS
<1>1. api \in Metas
      /\ page = [meta |-> api, approval |-> <<>>, slots |-> Form!BlankSlots(api),
                 scores |-> Form!InitialScores(api, <<>>)]
  BY DEF Form!Init
<1>2. <<>> \in ScoreSets
  <2>1. <<>> \in [{} -> Int] OBVIOUS
  <2> QED BY <2>1 DEF ScoreSets
<1>3. /\ Form!BlankSlots(api) \in Seq(Candidates \cup {Empty})
      /\ Form!InitialScores(api, <<>>) \in ScoreSets
      /\ api.format = "score" => DOMAIN Form!InitialScores(api, <<>>) # {}
  BY <1>1, <1>2, Starts
<1>4. page \in FormPage BY <1>1, <1>3 DEF FormPage
<1>5. Form!Distinct(<<>>) BY DEF Form!Distinct
<1> QED BY <1>1, <1>3, <1>4, <1>5 DEF FormInv

LEMMA ReloadKeeps ==
  ASSUME FormParameters, FormInv, Form!Reload PROVE FormInv'
<1> DEFINE l == Form!BlankSlots(api)
           f == Form!InitialScores(api, page.scores)
<1>1. page.scores \in ScoreSets /\ page.approval \in Seq(Candidates) /\ page \in FormPage
  BY FormFields DEF FormInv
<1>2. api \in Metas BY DEF FormInv
<1>3. l \in Seq(Candidates \cup {Empty}) /\ f \in ScoreSets
      /\ (api.format = "score" => DOMAIN f # {})
  BY <1>1, <1>2, Starts
<1>4. page' = [page EXCEPT !.meta = api, !.slots = l, !.scores = f] /\ api' = api
  BY DEF Form!Reload
<1> HIDE DEF l, f
<1>5. page' = [meta |-> api, approval |-> page.approval, slots |-> l, scores |-> f]
  BY <1>1, <1>4 DEF FormPage
<1>6. Form!Distinct(page.approval) BY DEF FormInv
<1> QED BY <1>1, <1>2, <1>3, <1>4, <1>5, <1>6, FormStep

\* Taking a candidate out, or adding one that is not in, leaves each at most once.
LEMMA ToggledIsDistinct ==
  ASSUME FormInv, NEW c \in Candidates
  PROVE  Form!Toggled(c) \in Seq(Candidates) /\ Form!Distinct(Form!Toggled(c))
<1> DEFINE a == page.approval
           S == Candidates \ {c}
<1>1. a \in Seq(Candidates) /\ Form!Distinct(a) BY FormFields DEF FormInv
<1>2. CASE c \in Form!Approved
  <2>1. Form!Toggled(c) = Form!Kept(a, S) BY <1>2 DEF Form!Toggled
  <2> HIDE DEF a
  <2>2. Form!Kept(a, S) \in Seq(S)
        /\ \A i, j \in DOMAIN Form!Kept(a, S) :
             Form!Kept(a, S)[i] = Form!Kept(a, S)[j] => i = j
    <3>1. 0 \in 0..Len(a) /\ \A k \in 1..0 : a[k] \in S BY <1>1
    <3> HIDE DEF S
    <3> QED BY <1>1, <3>1, KeptIs DEF Form!Distinct
  <2> DEFINE k == Form!Kept(a, S)
  <2>3. k \in Seq(S) /\ Form!Distinct(k) BY <2>2 DEF Form!Distinct
  <2> HIDE DEF k
  <2>4. k \in Seq(Candidates) BY <2>3
  <2> QED BY <2>1, <2>3, <2>4 DEF k
<1>3. CASE c \notin Form!Approved /\ Form!Toggled(c) = a BY <1>1, <1>3
<1>4. CASE c \notin Form!Approved /\ Form!Toggled(c) = Append(a, c)
  <2>1. \A i \in DOMAIN a : a[i] # c BY <1>4 DEF Form!Approved
  <2> HIDE DEF a
  <2>2. Form!Distinct(Append(a, c)) BY <1>1, <2>1 DEF Form!Distinct
  <2> QED BY <1>1, <1>4, <2>2
<1> QED BY <1>2, <1>3, <1>4 DEF Form!Toggled

\* Assigned makes a list of a list.
LEMMA AssignedIsList ==
  ASSUME NEW U, NEW c \in U, NEW e \in U, NEW n \in Nat, NEW i, NEW s, NEW l,
         l = [j \in 1..n |-> IF j = i THEN c ELSE IF c # e /\ s[j] = c THEN e ELSE s[j]],
         \A j \in 1..n : s[j] \in U
  PROVE  l \in Seq(U)
OBVIOUS

LEMMA ListEditKeeps ==
  ASSUME FormInv,
         \/ \E c \in Candidates : Form!ToggleApproval(c)
         \/ Form!ClearRankingAll
         \/ \E i \in DOMAIN page.slots, c \in Candidates \cup {Empty} :
              Form!SetRankingSlot(i, c)
  PROVE  FormInv'
<1>1. page \in FormPage /\ page.meta \in Metas /\ page.scores \in ScoreSets
      /\ page.approval \in Seq(Candidates) /\ page.slots \in Seq(Candidates \cup {Empty})
      /\ Form!Distinct(page.approval) /\ api \in Metas
      /\ (page.meta.format = "score" => DOMAIN page.scores # {})
  BY FormFields DEF FormInv
<1>2. ASSUME NEW c \in Candidates, Form!ToggleApproval(c) PROVE FormInv'
  <2> DEFINE a == Form!Toggled(c)
  <2>1. a \in Seq(Candidates) /\ Form!Distinct(a) BY ToggledIsDistinct
  <2>2. page' = [page EXCEPT !.approval = a] /\ api' = api
    BY <1>2 DEF Form!ToggleApproval
  <2> HIDE DEF a
  <2>3. page' = [meta |-> page.meta, approval |-> a, slots |-> page.slots,
                 scores |-> page.scores]
    BY <1>1, <2>2, OnePageField DEF FormPage
  <2> QED BY <1>1, <2>1, <2>2, <2>3, FormStep
<1>3. ASSUME NEW l \in Seq(Candidates \cup {Empty}), page' = [page EXCEPT !.slots = l],
             api' = api
      PROVE  FormInv'
  <2>1. page' = [meta |-> page.meta, approval |-> page.approval, slots |-> l,
                 scores |-> page.scores]
    BY <1>1, <1>3, OnePageField DEF FormPage
  <2> QED BY <1>1, <1>3, <2>1, FormStep
<1>4. CASE Form!ClearRankingAll
  <2> DEFINE l == [i \in DOMAIN page.slots |-> Empty]
  <2>1. l \in Seq(Candidates \cup {Empty}) BY <1>1
  <2>2. page' = [page EXCEPT !.slots = l] /\ api' = api BY <1>4 DEF Form!ClearRankingAll
  <2> HIDE DEF l
  <2> QED BY <1>3, <2>1, <2>2
<1>5. ASSUME NEW i \in DOMAIN page.slots, NEW c \in Candidates \cup {Empty},
             Form!SetRankingSlot(i, c)
      PROVE  FormInv'
  <2> DEFINE l == Form!Assigned(i, c)
  <2>1. l \in Seq(Candidates \cup {Empty})
    <3> DEFINE n == Len(page.slots)
    <3>1. n \in Nat /\ DOMAIN page.slots = 1..n BY <1>1
    <3>2. l = [j \in 1..n |-> IF j = i THEN c
                 ELSE IF c # Empty /\ page.slots[j] = c THEN Empty ELSE page.slots[j]]
      BY <3>1 DEF Form!Assigned
    <3> DEFINE s == page.slots
    <3>3. \A j \in 1..n : s[j] \in Candidates \cup {Empty} BY <1>1
    <3>4. l = [j \in 1..n |-> IF j = i THEN c
                 ELSE IF c # Empty /\ s[j] = c THEN Empty ELSE s[j]]
      BY <3>2
    <3> DEFINE U == Candidates \cup {Empty}
    <3>5. c \in U /\ Empty \in U OBVIOUS
    <3> HIDE DEF n, l, s, U
    <3>6. l \in Seq(U) BY <3>1, <3>4, <3>3, <3>5, AssignedIsList DEF U
    <3> QED BY <3>6 DEF U
  <2>2. page' = [page EXCEPT !.slots = l] /\ api' = api BY <1>5 DEF Form!SetRankingSlot
  <2> HIDE DEF l
  <2> QED BY <1>3, <2>1, <2>2
<1> QED BY <1>2, <1>4, <1>5

LEMMA SetScoreKeeps ==
  ASSUME FormParameters, FormInv, NEW c \in Candidates, NEW v \in Typed,
         Form!SetScore(c, v)
  PROVE  FormInv'
<1> DEFINE f == page.scores
           g == [d \in DOMAIN f \cup {c} |-> IF d = c THEN v ELSE f[d]]
<1>1. page \in FormPage /\ page.meta \in Metas /\ page.approval \in Seq(Candidates)
      /\ page.slots \in Seq(Candidates \cup {Empty}) /\ Form!Distinct(page.approval)
      /\ api \in Metas
  BY FormFields DEF FormInv
<1>2. page' = [page EXCEPT !.scores = g] /\ api' = api BY DEF Form!SetScore
<1>3. g \in ScoreSets
  <2>1. DOMAIN f \subseteq Candidates /\ \A d \in DOMAIN f : f[d] \in Int BY FormFields
  <2>2. v \in Int BY DEF FormParameters
  <2> DEFINE C == DOMAIN f \cup {c}
  <2> HIDE DEF f
  <2>3. C \in SUBSET Candidates /\ g \in [C -> Int] BY <2>1, <2>2
  <2> HIDE DEF g, C
  <2> QED BY <2>3 DEF ScoreSets
<1>4. c \in DOMAIN g OBVIOUS
<1> HIDE DEF g
<1>5. page' = [meta |-> page.meta, approval |-> page.approval, slots |-> page.slots,
               scores |-> g]
  BY <1>1, <1>2, OnePageField DEF FormPage
<1> QED BY <1>1, <1>2, <1>3, <1>4, <1>5, FormStep

LEMMA NextFormInv ==
  ASSUME FormParameters, FormInv, [Form!Next]_(Form!vars) PROVE FormInv'
<1>1. CASE Form!Reload BY <1>1, ReloadKeeps
<1>2. CASE Form!UpdateRules
  <2>1. page' = page /\ api' \in Metas BY <1>2 DEF Form!UpdateRules
  <2> QED BY <2>1 DEF FormInv, Form!Distinct
<1>3. CASE \E c \in Candidates, v \in Typed : Form!SetScore(c, v) BY <1>3, SetScoreKeeps
<1>4. CASE UNCHANGED Form!vars
  <2>1. page' = page /\ api' = api BY <1>4 DEF Form!vars
  <2> QED BY <2>1 DEF FormInv, Form!Distinct
<1> QED BY <1>1, <1>2, <1>3, <1>4, ListEditKeeps DEF Form!Next

\* The types that BallotForm promises.
LEMMA FormTypes == ASSUME FormInv PROVE Form!TypeOK
<1>1. DOMAIN page.slots = 1..Len(page.slots) /\ Len(page.slots) \in Nat
      /\ \A i \in DOMAIN page.slots : page.slots[i] \in Candidates \cup {Empty}
  BY FormFields
<1>2. Form!Cardinality(1..Len(page.slots)) = Len(page.slots)
  BY <1>1, FS_Interval, SameCardinality
<1>3. DOMAIN page = {"meta", "approval", "slots", "scores"} BY DEF FormInv, FormPage
<1> QED BY <1>1, <1>2, <1>3, FormFields DEF FormInv, Form!TypeOK

LEMMA FormReadyIsAccepted ==
  ASSUME FormParameters, FormInv, Form!Ready PROVE Form!Accepted(page.meta)
<1> DEFINE m == page.meta
<1>1. m \in Metas /\ m \in Form!Meta BY FormFields DEF FormParameters
<1>2. m.format \in {"approval", "ranking", "score"} BY <1>1 DEF Form!Meta
<1>3. CASE m.format = "approval"
  <2>1. Form!WithinLimit(page.approval, m.max)
    BY <1>3 DEF Form!Ready, Form!ApprovalReady
  <2>2. \A i \in DOMAIN page.approval : page.approval[i] \in Candidates BY FormFields
  <2>3. Form!Distinct(page.approval) BY DEF FormInv
  <2>4. Form!ListAccepted(page.approval, m.max)
    BY <2>1, <2>2, <2>3 DEF Form!ListAccepted
  <2> QED BY <2>4, <1>3 DEF Form!Accepted
<1>4. CASE m.format = "ranking"
  <2>1. Form!WithinLimit(Form!Ranking, m.topK) /\ Form!Distinct(Form!Ranking)
    BY <1>4 DEF Form!Ready, Form!RankingReady
  <2>2. Form!Ranking \in Seq(Candidates)
    <3> DEFINE s == page.slots
    <3>1. s \in Seq(Candidates \cup {Empty}) BY FormFields
    <3>2. 0 \in 0..Len(s) /\ \A k \in 1..0 : s[k] \in Candidates BY <3>1
    <3> HIDE DEF s
    <3>3. Form!Kept(s, Candidates) \in Seq(Candidates) BY <3>1, <3>2, KeptIs
    <3> QED BY <3>3 DEF Form!Ranking, s
  <2>3. \A i \in DOMAIN Form!Ranking : Form!Ranking[i] \in Candidates BY <2>2
  <2>4. Form!ListAccepted(Form!Ranking, m.topK)
    BY <2>1, <2>3 DEF Form!ListAccepted
  <2> QED BY <2>4, <1>4 DEF Form!Accepted
<1>5. CASE m.format = "score"
  <2> DEFINE f == page.scores
  <2>1. m.step \in Nat /\ m.lo \in Int /\ m.hi \in Int BY <1>1 DEF Form!Meta
  <2>2. m.step > 0
        /\ \A c \in Candidates :
             IF c \in DOMAIN f
             THEN /\ f[c] >= 2 * m.lo /\ f[c] <= 2 * m.hi
                  /\ (f[c] - 2 * m.lo) % (2 * m.step) = 0
             ELSE m.skip
    BY <1>5 DEF Form!Ready, Form!ScoreReady
  <2>3. DOMAIN f # {} BY <1>5 DEF FormInv
  <2>4. DOMAIN f \subseteq Candidates /\ \A c \in DOMAIN f : f[c] \in Int BY FormFields
  <2> HIDE DEF f
  <2>5. ASSUME NEW c \in DOMAIN f
        PROVE  /\ f[c] % 2 = 0 /\ f[c] \div 2 >= m.lo /\ f[c] \div 2 <= m.hi
               /\ (f[c] \div 2 - m.lo) % m.step = 0
    <3>1. f[c] \in Int /\ f[c] >= 2 * m.lo /\ f[c] <= 2 * m.hi
          /\ (f[c] - 2 * m.lo) % (2 * m.step) = 0
      BY <2>2, <2>4
    <3> QED BY <2>1, <2>2, <3>1, OnScale
  <2>6. ~m.skip => DOMAIN f = Candidates BY <2>2, <2>4
  <2>7. Form!ScoresAccepted(f, m) BY <2>2, <2>3, <2>5, <2>6 DEF Form!ScoresAccepted
  <2> QED BY <2>7, <1>5 DEF Form!Accepted, f
<1> QED BY <1>2, <1>3, <1>4, <1>5

LEMMA FormShownPlaceIsSent ==
  ASSUME FormParameters, FormInv PROVE Form!ShownPlaceIsSent
<1> DEFINE s == page.slots
<1> SUFFICES ASSUME page.meta.format = "ranking", Form!Ready, NEW c \in Candidates,
                    \E i \in DOMAIN s : s[i] = c
             PROVE  Form!PlaceOf(c) \in DOMAIN Form!Ranking
                    /\ Form!Ranking[Form!PlaceOf(c)] = c
  BY DEF Form!ShownPlaceIsSent
<1> DEFINE p == Form!PlaceOf(c)
<1>1. p \in DOMAIN s /\ s[p] = c BY DEF Form!PlaceOf
<1>2. s \in Seq(Candidates \cup {Empty}) BY FormFields
<1>3. \A i, j \in DOMAIN s : i < j /\ s[i] = Empty => s[j] = Empty
  BY DEF Form!Ready, Form!RankingReady, Form!NoGap
<1>4. c # Empty BY DEF FormParameters
<1>5. Form!Ranking = Form!Kept(s, Candidates) BY DEF Form!Ranking
<1> HIDE DEF s, p
<1>6. p \in 0..Len(s) /\ p \in 1..p BY <1>1, <1>2
<1>7. \A k \in 1..p : s[k] \in Candidates
  <2> SUFFICES ASSUME NEW k \in 1..p PROVE s[k] \in Candidates OBVIOUS
  <2>1. k \in DOMAIN s /\ (k < p \/ k = p) BY <1>2, <1>6
  <2>2. s[k] # Empty BY <2>1, <1>1, <1>3, <1>4
  <2> QED BY <2>1, <2>2, <1>2
<1>8. p \in DOMAIN Form!Kept(s, Candidates) /\ Form!Kept(s, Candidates)[p] = s[p]
  BY <1>2, <1>6, <1>7, KeptIs
<1> QED BY <1>1, <1>5, <1>8 DEF p

\* A ballot that passes the page's checks is accepted by the API under the same rules
\* (validateBeforeSubmit of VotePage.tsx, validation.go).
THEOREM ReadyIsAcceptedHolds ==
  ASSUME FormParameters
  PROVE  Form!Init /\ [][Form!Next]_(Form!vars) => []Form!ReadyIsAccepted
<1>1. Form!Init => FormInv BY InitFormInv
<1>2. FormInv /\ [Form!Next]_(Form!vars) => FormInv' BY NextFormInv
<1>3. FormInv => Form!ReadyIsAccepted BY FormReadyIsAccepted DEF Form!ReadyIsAccepted
<1> QED BY <1>1, <1>2, <1>3, PTL

\* The place shown beside a candidate is its place in the ballot sent
\* (assignedRankingMap of VotePage.tsx).
THEOREM ShownPlaceIsSentHolds ==
  ASSUME FormParameters
  PROVE  Form!Init /\ [][Form!Next]_(Form!vars) => []Form!ShownPlaceIsSent
<1>1. Form!Init => FormInv BY InitFormInv
<1>2. FormInv /\ [Form!Next]_(Form!vars) => FormInv' BY NextFormInv
<1>3. FormInv => Form!ShownPlaceIsSent BY FormShownPlaceIsSent
<1> QED BY <1>1, <1>2, <1>3, PTL

-----------------------------------------------------------------------------
(* BallotSubmission.                                                       *)

SubmissionParameters == /\ KeyOf \in [Requests -> Keys] /\ NoKey \notin Keys
              /\ MaxFaults \in Nat

SubmissionCall == [pc : Ballot!Stages, code : Ballot!Codes, after : SUBSET Requests]

\* Who is told "ok", or has inserted, owns the ballot on record.
OkIsRecorded ==
  \A r \in Requests : Ballot!At(r, "store") \/ calls[r].code = "ok" => api.ballot = KeyOf[r]

CachedIsRecorded == \A k \in api.cached : api.ballot = k

\* Without a fault, who is told "ok" leaves an answer in the cache.
OkIsCached ==
  past.faults = 0 => \A r \in Requests : calls[r].code = "ok" => KeyOf[r] \in api.cached

RepeatsFollowOk == \A r \in Requests : calls[r].after \subseteq Ballot!Told("ok")

\* Without a fault, a repeated request never gets past the cache.
RepeatsStopAtCache ==
  \A r \in Requests :
    past.faults = 0 /\ api.active /\ (\E q \in calls[r].after : KeyOf[q] = KeyOf[r])
      => Ballot!At(r, "status") \/ Ballot!At(r, "cache")
           \/ (Ballot!At(r, "answered") /\ calls[r].code = "ok")

SubmissionInv ==
  /\ Ballot!TypeOK
  /\ OkIsRecorded /\ CachedIsRecorded /\ OkIsCached
  /\ RepeatsFollowOk /\ RepeatsStopAtCache

\* The invariant holds before the first request.
LEMMA InitSubmissionInv == ASSUME SubmissionParameters PROVE Ballot!Init => SubmissionInv
<1> SUFFICES ASSUME Ballot!Init PROVE SubmissionInv OBVIOUS
<1>1. \A r \in Requests : calls[r] = [pc |-> "unsent", code |-> "none", after |-> {}]
  BY DEF Ballot!Init
<1>2. Ballot!TypeOK
  <2>1. calls \in [Requests -> [pc : Ballot!Stages, code : Ballot!Codes, after : SUBSET Requests]]
    BY DEF Ballot!Init, Ballot!Stages, Ballot!Codes
  <2>2. api \in [active : BOOLEAN, ballot : Keys \cup {NoKey}, cached : SUBSET Keys,
                 locked : SUBSET Keys]
    BY DEF Ballot!Init
  <2>3. past \in [faults : 0..MaxFaults] BY DEF Ballot!Init, SubmissionParameters
  <2>4. QED BY <2>1, <2>2, <2>3 DEF Ballot!TypeOK
<1>3. /\ OkIsRecorded /\ CachedIsRecorded /\ OkIsCached
      /\ RepeatsFollowOk /\ RepeatsStopAtCache
  BY <1>1 DEF Ballot!Init, OkIsRecorded, CachedIsRecorded, OkIsCached, RepeatsFollowOk,
              RepeatsStopAtCache, Ballot!At
<1>4. QED BY <1>2, <1>3 DEF SubmissionInv

\* The fields of the state.
LEMMA SubmissionFields ==
  ASSUME Ballot!TypeOK, SubmissionParameters
  PROVE  /\ api.active \in BOOLEAN /\ api.ballot \in Keys \cup {NoKey}
         /\ api.cached \subseteq Keys /\ api.locked \subseteq Keys
         /\ past.faults \in Nat
         /\ calls \in [Requests -> SubmissionCall]
         /\ \A r \in Requests : calls[r] \in SubmissionCall
BY DEF Ballot!TypeOK, SubmissionCall, SubmissionParameters

\* A step of one request keeps the invariant when the call it leaves behind
\* satisfies the invariant's parts, the ballot on record stays or is the first,
\* and answers leave the cache only by a fault.
LEMMA CallStepKeeps ==
  ASSUME SubmissionParameters, SubmissionInv, NEW r \in Requests, NEW c \in SubmissionCall,
         calls' = [calls EXCEPT ![r] = c], ~ Ballot!At(r, "answered"),
         api' \in [active : {api.active}, ballot : Keys \cup {NoKey}, cached : SUBSET Keys,
                   locked : SUBSET Keys],
         past' \in [faults : 0..MaxFaults], past'.faults = 0 => past.faults = 0,
         api'.ballot # api.ballot => api.ballot = NoKey,
         api.cached \subseteq api'.cached,
         \A k \in api'.cached : api'.ballot = k,
         c.pc = "store" \/ c.code = "ok" => api'.ballot = KeyOf[r],
         past'.faults = 0 /\ c.code = "ok" => KeyOf[r] \in api'.cached,
         c.after \subseteq Ballot!Told("ok"),
         past'.faults = 0 /\ api.active /\ (\E q \in c.after : KeyOf[q] = KeyOf[r])
           => c.pc \in {"status", "cache"} \/ (c.pc = "answered" /\ c.code = "ok")
  PROVE  SubmissionInv'
<1>1. /\ calls \in [Requests -> SubmissionCall] /\ api.ballot \in Keys \cup {NoKey}
      /\ api.active \in BOOLEAN /\ past.faults \in Nat
  BY SubmissionFields DEF SubmissionInv
<1>2. calls'[r] = c /\ \A o \in Requests \ {r} : calls'[o] = calls[o] BY <1>1
<1>3. api'.active = api.active OBVIOUS
<1>4. Ballot!TypeOK'
  <2>1. calls' \in [Requests -> [pc : Ballot!Stages, code : Ballot!Codes, after : SUBSET Requests]]
    BY <1>1 DEF SubmissionCall
  <2>2. api' \in [active : BOOLEAN, ballot : Keys \cup {NoKey}, cached : SUBSET Keys,
                  locked : SUBSET Keys]
    BY <1>1
  <2>3. QED BY <2>1, <2>2 DEF Ballot!TypeOK
<1>5. OkIsRecorded'
  <2>1. ASSUME NEW o \in Requests \ {r}, Ballot!At(o, "store") \/ calls[o].code = "ok"
        PROVE  api'.ballot = KeyOf[o]
    <3>1. api.ballot = KeyOf[o] BY <2>1 DEF SubmissionInv, OkIsRecorded
    <3>2. api.ballot # NoKey BY <3>1 DEF SubmissionParameters
    <3>3. QED BY <3>1, <3>2
  <2>2. QED BY <1>2, <2>1 DEF OkIsRecorded, Ballot!At
<1>6. CachedIsRecorded' BY DEF CachedIsRecorded
<1>7. OkIsCached' BY <1>2 DEF SubmissionInv, OkIsCached
<1>8. RepeatsFollowOk'
  <2>1. Ballot!Told("ok") \subseteq Ballot!Told("ok")' BY <1>2 DEF Ballot!Told, Ballot!At
  <2>2. QED BY <1>2, <2>1 DEF SubmissionInv, RepeatsFollowOk
<1>9. RepeatsStopAtCache'
  <2>1. ASSUME NEW o \in Requests, past'.faults = 0, api'.active,
               NEW q \in calls'[o].after, KeyOf[q] = KeyOf[o]
        PROVE  \/ calls'[o].pc \in {"status", "cache"}
               \/ calls'[o].pc = "answered" /\ calls'[o].code = "ok"
    <3>1. CASE o = r BY <1>2, <1>3, <2>1, <3>1
    <3>2. CASE o # r
      <4>1. calls'[o] = calls[o] BY <1>2, <3>2
      <4>2. QED BY <1>3, <2>1, <4>1 DEF SubmissionInv, RepeatsStopAtCache, Ballot!At
    <3>3. QED BY <3>1, <3>2
  <2>2. QED BY <2>1 DEF RepeatsStopAtCache, Ballot!At
<1>10. QED BY <1>4, <1>5, <1>6, <1>7, <1>8, <1>9 DEF SubmissionInv

\* A fault is counted; every other step leaves the count.
LEMMA FaultsCounted ==
  ASSUME SubmissionParameters, SubmissionInv
  PROVE  /\ Ballot!Fault => past' \in [faults : 0..MaxFaults] /\ past'.faults # 0
         /\ UNCHANGED past => past' \in [faults : 0..MaxFaults] /\ past'.faults = past.faults
BY DEF SubmissionParameters, SubmissionInv, Ballot!TypeOK, Ballot!Fault

\* A request that repeats one told "ok" finds its answer in the cache.
LEMMA RepeatFindsAnswer ==
  ASSUME SubmissionParameters, SubmissionInv, NEW r \in Requests, past.faults = 0,
         \E q \in calls[r].after : KeyOf[q] = KeyOf[r]
  PROVE  KeyOf[r] \in api.cached
BY DEF SubmissionInv, RepeatsFollowOk, OkIsCached, Ballot!Told

\* The moves that keep a repeated request on its way, or are not its own.
GoesOn(r, s, k) ==
  \/ s = "cache" \/ (s = "answered" /\ k = "ok")
  \/ calls[r].pc \notin {"status", "cache"}
  \/ Ballot!At(r, "cache") /\ KeyOf[r] \notin api.cached

\* A step of one request that leaves Redis and Postgres alone.
LEMMA GoKeeps ==
  ASSUME SubmissionParameters, SubmissionInv, NEW r \in Requests, ~ Ballot!At(r, "answered"),
         NEW s \in Ballot!Stages \ {"store"}, NEW k \in Ballot!Codes,
         calls' = [calls EXCEPT ![r].pc = s, ![r].code = k],
         UNCHANGED api, UNCHANGED past \/ Ballot!Fault,
         k = "ok" => calls[r].code = "ok" \/ KeyOf[r] \in api.cached
                        \/ (Ballot!At(r, "store") /\ Ballot!Fault),
         UNCHANGED past /\ api.active => GoesOn(r, s, k)
  PROVE  SubmissionInv'
<1> DEFINE x == calls[r]
           c == [x EXCEPT !.pc = s, !.code = k]
<1>1. /\ calls \in [Requests -> SubmissionCall] /\ x \in SubmissionCall /\ api.ballot \in Keys \cup {NoKey}
      /\ api.cached \subseteq Keys /\ past.faults \in Nat
  BY SubmissionFields DEF SubmissionInv
<1>2. c \in SubmissionCall /\ c.pc = s /\ c.code = k /\ c.after = x.after
  BY <1>1 DEF SubmissionCall
<1>3. calls' = [calls EXCEPT ![r] = c] BY <1>1
<1>4. /\ past' \in [faults : 0..MaxFaults]
      /\ past'.faults = 0 => past.faults = 0 /\ UNCHANGED past
  BY FaultsCounted
<1>5. c.pc = "store" \/ c.code = "ok" => api.ballot = KeyOf[r]
  BY <1>2 DEF SubmissionInv, OkIsRecorded, CachedIsRecorded
<1>6. past'.faults = 0 /\ c.code = "ok" => KeyOf[r] \in api.cached
  BY <1>2, <1>4, FaultsCounted DEF SubmissionInv, OkIsCached
<1>7. ASSUME past'.faults = 0, api.active, \E q \in c.after : KeyOf[q] = KeyOf[r]
      PROVE  c.pc \in {"status", "cache"} \/ (c.pc = "answered" /\ c.code = "ok")
  <2>1. KeyOf[r] \in api.cached BY <1>2, <1>4, <1>7, RepeatFindsAnswer
  <2>2. Ballot!At(r, "status") \/ Ballot!At(r, "cache")
    BY <1>2, <1>4, <1>7 DEF SubmissionInv, RepeatsStopAtCache
  <2>3. QED BY <1>2, <1>4, <1>7, <2>1, <2>2 DEF GoesOn, Ballot!At
<1>8. c.after \subseteq Ballot!Told("ok") BY <1>2 DEF SubmissionInv, RepeatsFollowOk
<1>9. /\ api' \in [active : {api.active}, ballot : Keys \cup {NoKey}, cached : SUBSET Keys,
                   locked : SUBSET Keys]
      /\ \A key \in api'.cached : api'.ballot = key
  BY DEF SubmissionInv, Ballot!TypeOK, CachedIsRecorded
<1> HIDE DEF c
<1>10. QED BY <1>2, <1>3, <1>4, <1>5, <1>6, <1>7, <1>8, <1>9, CallStepKeeps

\* The steps of a request that leave Redis and Postgres alone.
LEMMA LookingKeeps ==
  ASSUME SubmissionParameters, SubmissionInv, NEW r \in Requests,
         Ballot!CheckStatus(r) \/ Ballot!ReadCache(r) \/ Ballot!FindAnswer(r) \/ Ballot!GiveUp(r)
           \/ Ballot!RedisFails(r) \/ Ballot!Dies(r)
  PROVE  SubmissionInv'
<1> DEFINE x == calls[r]
<1>1. x \in SubmissionCall /\ calls \in [Requests -> SubmissionCall]
  BY SubmissionFields DEF SubmissionInv
<1>2. x.code \in Ballot!Codes BY <1>1 DEF SubmissionCall
<1>3. ASSUME NEW s, Ballot!Go(r, s)
      PROVE calls' = [calls EXCEPT ![r].pc = s, ![r].code = x.code]
  BY <1>1, <1>3 DEF Ballot!Go, SubmissionCall
<1>4. ASSUME Ballot!CheckStatus(r) PROVE SubmissionInv'
  <2>1. Ballot!At(r, "status") /\ ~ Ballot!At(r, "answered") /\ UNCHANGED <<api, past>>
    BY <1>4 DEF Ballot!CheckStatus, Ballot!At
  <2>2. CASE api.active
    <3> DEFINE k == x.code
    <3>1. calls' = [calls EXCEPT ![r].pc = "cache", ![r].code = k]
      BY <1>3, <1>4, <2>2 DEF Ballot!CheckStatus
    <3>2. k \in Ballot!Codes /\ (k = "ok" => calls[r].code = "ok") BY <1>2
    <3>3. "cache" \in Ballot!Stages \ {"store"} BY DEF Ballot!Stages
    <3>4. ~ Ballot!At(r, "answered") /\ UNCHANGED api /\ UNCHANGED past BY <2>1
    <3>5. GoesOn(r, "cache", k) BY DEF GoesOn
    <3> HIDE DEF k
    <3>6. QED BY <3>1, <3>2, <3>3, <3>4, <3>5, GoKeeps
  <2>3. CASE ~ api.active
    <3>1. calls' = [calls EXCEPT ![r].pc = "answered", ![r].code = "election_not_active"]
      BY <1>4, <2>3 DEF Ballot!CheckStatus, Ballot!Answer
    <3>2. QED BY <2>1, <2>3, <3>1, GoKeeps DEF GoesOn, Ballot!Stages, Ballot!Codes
  <2>4. QED BY <2>2, <2>3
<1>5. ASSUME Ballot!ReadCache(r) PROVE SubmissionInv'
  <2>1. Ballot!At(r, "cache") /\ ~ Ballot!At(r, "answered") /\ UNCHANGED <<api, past>>
    BY <1>5 DEF Ballot!ReadCache, Ballot!At
  <2>2. CASE KeyOf[r] \in api.cached
    <3>1. calls' = [calls EXCEPT ![r].pc = "answered", ![r].code = "ok"]
      BY <1>5, <2>2 DEF Ballot!ReadCache, Ballot!Look, Ballot!Answer
    <3>2. QED BY <2>1, <2>2, <3>1, GoKeeps DEF GoesOn, Ballot!Stages, Ballot!Codes
  <2>3. CASE KeyOf[r] \notin api.cached
    <3> DEFINE k == x.code
    <3>1. calls' = [calls EXCEPT ![r].pc = "lock", ![r].code = k]
      BY <1>3, <1>5, <2>3 DEF Ballot!ReadCache, Ballot!Look
    <3>2. k \in Ballot!Codes /\ (k = "ok" => calls[r].code = "ok") BY <1>2
    <3>3. "lock" \in Ballot!Stages \ {"store"} BY DEF Ballot!Stages
    <3>4. ~ Ballot!At(r, "answered") /\ UNCHANGED api /\ UNCHANGED past BY <2>1
    <3>5. GoesOn(r, "lock", k) BY <2>1, <2>3 DEF GoesOn
    <3> HIDE DEF k
    <3>6. QED BY <3>1, <3>2, <3>3, <3>4, <3>5, GoKeeps
  <2>4. QED BY <2>2, <2>3
<1>6. ASSUME Ballot!FindAnswer(r) PROVE SubmissionInv'
  <2>1. /\ Ballot!At(r, "wait") /\ ~ Ballot!At(r, "answered") /\ UNCHANGED <<api, past>>
        /\ KeyOf[r] \in api.cached
        /\ calls' = [calls EXCEPT ![r].pc = "answered", ![r].code = "ok"]
    BY <1>6 DEF Ballot!FindAnswer, Ballot!Answer, Ballot!At
  <2>2. QED BY <2>1, GoKeeps DEF GoesOn, Ballot!Stages, Ballot!Codes
<1>7. ASSUME Ballot!GiveUp(r) PROVE SubmissionInv'
  <2>1. /\ Ballot!At(r, "wait") /\ ~ Ballot!At(r, "answered") /\ UNCHANGED <<api, past>>
        /\ calls' = [calls EXCEPT ![r].pc = "answered", ![r].code = "idempotency_in_progress"]
    BY <1>7 DEF Ballot!GiveUp, Ballot!Answer, Ballot!At
  <2>2. calls[r].pc \notin {"status", "cache"} BY <2>1 DEF Ballot!At
  <2>3. QED BY <2>1, <2>2, GoKeeps DEF GoesOn, Ballot!Stages, Ballot!Codes
<1>8. ASSUME Ballot!Fault, UNCHANGED api, ~ Ballot!At(r, "answered"),
             NEW s \in Ballot!Stages \ {"store"}, NEW k \in Ballot!Codes,
             k = "ok" => x.code = "ok" \/ Ballot!At(r, "store"),
             calls' = [calls EXCEPT ![r].pc = s, ![r].code = k]
      PROVE  SubmissionInv'
  <2>1. ~ UNCHANGED past
    <3>1. past.faults \in Nat /\ past \in [faults : 0..MaxFaults]
      BY SubmissionFields DEF SubmissionInv, Ballot!TypeOK
    <3>2. QED BY <3>1, <1>8 DEF Ballot!Fault
  <2>2. QED BY <1>8, <2>1, GoKeeps
<1>9. ASSUME Ballot!Fault, UNCHANGED api, ~ Ballot!At(r, "answered"),
             NEW s \in Ballot!Stages \ {"store"}, Ballot!Go(r, s)
      PROVE  SubmissionInv'
  <2>1. calls' = [calls EXCEPT ![r].pc = s, ![r].code = x.code] BY <1>3, <1>9
  <2> HIDE DEF x
  <2>2. QED BY <1>2, <1>8, <1>9, <2>1
<1>10. {"lock", "wait", "answered", "dead", "unlock"} \subseteq Ballot!Stages \ {"store"}
  BY DEF Ballot!Stages
<1>11. ASSUME Ballot!RedisFails(r) PROVE SubmissionInv'
  <2>1. Ballot!Fault /\ UNCHANGED api BY <1>11 DEF Ballot!RedisFails
  <2>2. CASE Ballot!At(r, "cache") /\ Ballot!Go(r, "lock")
    <3>1. ~ Ballot!At(r, "answered") BY <2>2 DEF Ballot!At
    <3>2. QED BY <1>9, <1>10, <2>1, <2>2, <3>1
  <2>3. CASE Ballot!At(r, "lock") /\ Ballot!Go(r, "wait")
    <3>1. ~ Ballot!At(r, "answered") BY <2>3 DEF Ballot!At
    <3>2. QED BY <1>9, <1>10, <2>1, <2>3, <3>1
  <2>4. CASE Ballot!At(r, "store") /\ Ballot!GoTelling(r, "unlock", "ok")
    <3>1. ~ Ballot!At(r, "answered") /\ "ok" \in Ballot!Codes
      BY <2>4 DEF Ballot!At, Ballot!Codes
    <3>2. calls' = [calls EXCEPT ![r].pc = "unlock", ![r].code = "ok"]
      BY <2>4 DEF Ballot!GoTelling
    <3>3. QED BY <1>8, <1>10, <2>1, <2>4, <3>1, <3>2
  <2>5. CASE Ballot!At(r, "unlock") /\ Ballot!Go(r, "answered")
    <3>1. ~ Ballot!At(r, "answered") BY <2>5 DEF Ballot!At
    <3>2. QED BY <1>9, <1>10, <2>1, <2>5, <3>1
  <2>6. QED BY <1>11, <2>2, <2>3, <2>4, <2>5 DEF Ballot!RedisFails
<1>12. ASSUME Ballot!Dies(r) PROVE SubmissionInv'
  <2>1. Ballot!Fault /\ UNCHANGED api /\ Ballot!Go(r, "dead") /\ ~ Ballot!At(r, "answered")
    BY <1>12 DEF Ballot!Dies, Ballot!At
  <2>2. QED BY <1>9, <1>10, <2>1
<1>13. QED BY <1>4, <1>5, <1>6, <1>7, <1>11, <1>12

\* The lock is taken, or waited for: neither ballot nor cached answers change.
LEMMA TakeLockKeeps ==
  ASSUME SubmissionParameters, SubmissionInv, NEW r \in Requests, Ballot!TakeLock(r)
  PROVE  SubmissionInv'
<1> DEFINE x == calls[r]
           s == IF Ballot!LockedOut(r) THEN "wait" ELSE "insert"
           c == [x EXCEPT !.pc = s]
<1>1. /\ calls \in [Requests -> SubmissionCall] /\ x \in SubmissionCall /\ api.active \in BOOLEAN
      /\ api.ballot \in Keys \cup {NoKey}
      /\ api.cached \subseteq Keys /\ api.locked \subseteq Keys
      /\ KeyOf[r] \in Keys
  BY SubmissionFields DEF SubmissionInv, SubmissionParameters
<1>2. Ballot!At(r, "lock") /\ ~ Ballot!At(r, "answered") /\ UNCHANGED past
  BY DEF Ballot!TakeLock, Ballot!At
<1>3. calls' = [calls EXCEPT ![r] = c] BY DEF Ballot!TakeLock, Ballot!Go
<1>4. c \in SubmissionCall /\ c.pc = s /\ c.code = x.code /\ c.after = x.after
  BY <1>1 DEF SubmissionCall, Ballot!Stages
<1>5. s \notin {"store"} OBVIOUS
<1>6. /\ api' \in [active : {api.active}, ballot : Keys \cup {NoKey}, cached : SUBSET Keys,
                   locked : SUBSET Keys]
      /\ api'.ballot = api.ballot /\ api'.cached = api.cached
  BY <1>1 DEF Ballot!TakeLock, SubmissionInv, Ballot!TypeOK
<1> HIDE DEF c, s
<1>7. /\ c.pc = "store" \/ c.code = "ok" => api'.ballot = KeyOf[r]
      /\ past.faults = 0 /\ c.code = "ok" => KeyOf[r] \in api'.cached
      /\ c.after \subseteq Ballot!Told("ok")
      /\ \A k \in api'.cached : api'.ballot = k
  BY <1>4, <1>5, <1>6
    DEF SubmissionInv, OkIsRecorded, OkIsCached, RepeatsFollowOk, CachedIsRecorded
<1>8. ~ (past.faults = 0 /\ api.active /\ (\E q \in c.after : KeyOf[q] = KeyOf[r]))
  BY <1>2, <1>4 DEF SubmissionInv, RepeatsStopAtCache, Ballot!At
<1>9. past' \in [faults : 0..MaxFaults] /\ past'.faults = past.faults BY <1>2, FaultsCounted
<1>10. QED BY <1>2, <1>3, <1>4, <1>6, <1>7, <1>8, <1>9, CallStepKeeps

\* The insert: the first ballot is recorded, when nothing is cached yet.
LEMMA InsertKeeps ==
  ASSUME SubmissionParameters, SubmissionInv, NEW r \in Requests, Ballot!Insert(r)
  PROVE  SubmissionInv'
<1> DEFINE x == calls[r]
<1>1. /\ calls \in [Requests -> SubmissionCall] /\ x \in SubmissionCall /\ api.active \in BOOLEAN
      /\ api.ballot \in Keys \cup {NoKey}
      /\ api.cached \subseteq Keys /\ api.locked \subseteq Keys
      /\ KeyOf[r] \in Keys
  BY SubmissionFields DEF SubmissionInv, SubmissionParameters
<1>2. Ballot!At(r, "insert") /\ ~ Ballot!At(r, "answered") /\ UNCHANGED past
  BY DEF Ballot!Insert, Ballot!At
<1>3. past' \in [faults : 0..MaxFaults] /\ past'.faults = past.faults BY <1>2, FaultsCounted
<1>4. ~ (past.faults = 0 /\ api.active /\ (\E q \in x.after : KeyOf[q] = KeyOf[r]))
  BY <1>2 DEF SubmissionInv, RepeatsStopAtCache, Ballot!At
<1>5. CASE api.ballot # NoKey
  <2>1. UNCHANGED api /\ calls' = [calls EXCEPT ![r].pc = "unlock", ![r].code = "already_submitted"]
    BY <1>5 DEF Ballot!Insert, Ballot!Inserted, Ballot!GoTelling
  <2>2. GoesOn(r, "unlock", "already_submitted") BY <1>2 DEF GoesOn, Ballot!At
  <2>3. "unlock" \in Ballot!Stages \ {"store"} /\ "already_submitted" \in Ballot!Codes
    BY DEF Ballot!Stages, Ballot!Codes
  <2>4. QED BY <1>2, <2>1, <2>2, <2>3, GoKeeps
<1>6. CASE api.ballot = NoKey
  <2> DEFINE c == [x EXCEPT !.pc = "store"]
  <2>1. calls' = [calls EXCEPT ![r] = c] /\ api' = [api EXCEPT !.ballot = KeyOf[r]]
    BY <1>6 DEF Ballot!Insert, Ballot!Inserted, Ballot!Go
  <2>2. c \in SubmissionCall /\ c.code = x.code /\ c.after = x.after
    BY <1>1 DEF SubmissionCall, Ballot!Stages
  <2>3. x.code # "ok" BY <1>6 DEF SubmissionInv, OkIsRecorded, SubmissionParameters
  <2>4. api.cached = {} BY <1>1, <1>6 DEF SubmissionInv, CachedIsRecorded, SubmissionParameters
  <2>5. /\ api' \in [active : {api.active}, ballot : Keys \cup {NoKey}, cached : SUBSET Keys,
                     locked : SUBSET Keys]
        /\ api'.ballot = KeyOf[r] /\ api'.cached = api.cached
    BY <1>1, <2>1 DEF SubmissionInv, Ballot!TypeOK
  <2> HIDE DEF c
  <2>6. c.after \subseteq Ballot!Told("ok") BY <2>2 DEF SubmissionInv, RepeatsFollowOk
  <2>7. QED BY <1>2, <1>3, <1>4, <1>6, <2>1, <2>2, <2>3, <2>4, <2>5, <2>6, CallStepKeeps
<1>7. QED BY <1>5, <1>6

\* The answer is cached after its ballot was recorded.
LEMMA StoreKeeps ==
  ASSUME SubmissionParameters, SubmissionInv, NEW r \in Requests, Ballot!Store(r)
  PROVE  SubmissionInv'
<1> DEFINE x == calls[r]
           c == [x EXCEPT !.pc = "unlock", !.code = "ok"]
<1>1. /\ calls \in [Requests -> SubmissionCall] /\ x \in SubmissionCall /\ api.active \in BOOLEAN
      /\ api.ballot \in Keys \cup {NoKey}
      /\ api.cached \subseteq Keys /\ api.locked \subseteq Keys
      /\ KeyOf[r] \in Keys
  BY SubmissionFields DEF SubmissionInv, SubmissionParameters
<1>2. Ballot!At(r, "store") /\ ~ Ballot!At(r, "answered") /\ UNCHANGED past
  BY DEF Ballot!Store, Ballot!At
<1>3. past' \in [faults : 0..MaxFaults] /\ past'.faults = past.faults BY <1>2, FaultsCounted
<1>4. /\ calls' = [calls EXCEPT ![r] = c]
      /\ api' = [api EXCEPT !.cached = api.cached \cup {KeyOf[r]}]
  BY <1>1 DEF Ballot!Store, Ballot!GoTelling, Ballot!Cached
<1>5. c \in SubmissionCall /\ c.pc = "unlock" /\ c.after = x.after
  BY <1>1 DEF SubmissionCall, Ballot!Stages, Ballot!Codes
<1>6. /\ api' \in [active : {api.active}, ballot : Keys \cup {NoKey}, cached : SUBSET Keys,
                   locked : SUBSET Keys]
      /\ api'.ballot = api.ballot /\ api'.cached = api.cached \cup {KeyOf[r]}
  BY <1>1, <1>4 DEF SubmissionInv, Ballot!TypeOK
<1>7. api.ballot = KeyOf[r] BY <1>2 DEF SubmissionInv, OkIsRecorded
<1>8. ~ (past.faults = 0 /\ api.active /\ (\E q \in c.after : KeyOf[q] = KeyOf[r]))
  BY <1>2, <1>5 DEF SubmissionInv, RepeatsStopAtCache, Ballot!At
<1>9. c.after \subseteq Ballot!Told("ok") /\ \A k \in api'.cached : api'.ballot = k
  BY <1>5, <1>6, <1>7 DEF SubmissionInv, RepeatsFollowOk, CachedIsRecorded
<1> HIDE DEF c
<1>10. QED BY <1>2, <1>3, <1>4, <1>5, <1>6, <1>7, <1>8, <1>9, CallStepKeeps

\* The lock is deleted and the request answered.
LEMMA UnlockKeeps ==
  ASSUME SubmissionParameters, SubmissionInv, NEW r \in Requests, Ballot!Unlock(r)
  PROVE  SubmissionInv'
<1> DEFINE x == calls[r]
           c == [x EXCEPT !.pc = "answered"]
<1>1. /\ calls \in [Requests -> SubmissionCall] /\ x \in SubmissionCall /\ api.active \in BOOLEAN
      /\ api.ballot \in Keys \cup {NoKey}
      /\ api.cached \subseteq Keys /\ api.locked \subseteq Keys
  BY SubmissionFields DEF SubmissionInv
<1>2. Ballot!At(r, "unlock") /\ ~ Ballot!At(r, "answered") /\ UNCHANGED past
  BY DEF Ballot!Unlock, Ballot!At
<1>3. past' \in [faults : 0..MaxFaults] /\ past'.faults = past.faults BY <1>2, FaultsCounted
<1>4. calls' = [calls EXCEPT ![r] = c] BY DEF Ballot!Unlock, Ballot!Go
<1>5. c \in SubmissionCall /\ c.pc = "answered" /\ c.code = x.code /\ c.after = x.after
  BY <1>1 DEF SubmissionCall, Ballot!Stages
<1>6. /\ api' \in [active : {api.active}, ballot : Keys \cup {NoKey}, cached : SUBSET Keys,
                   locked : SUBSET Keys]
      /\ api'.ballot = api.ballot /\ api'.cached = api.cached
  BY <1>1 DEF Ballot!Unlock, SubmissionInv, Ballot!TypeOK
<1> HIDE DEF c
<1>7. /\ c.pc = "store" \/ c.code = "ok" => api'.ballot = KeyOf[r]
      /\ past.faults = 0 /\ c.code = "ok" => KeyOf[r] \in api'.cached
      /\ c.after \subseteq Ballot!Told("ok")
      /\ \A k \in api'.cached : api'.ballot = k
  BY <1>5, <1>6 DEF SubmissionInv, OkIsRecorded, OkIsCached, RepeatsFollowOk, CachedIsRecorded
<1>8. ~ (past.faults = 0 /\ api.active /\ (\E q \in c.after : KeyOf[q] = KeyOf[r]))
  BY <1>2, <1>5 DEF SubmissionInv, RepeatsStopAtCache, Ballot!At
<1>9. QED BY <1>2, <1>3, <1>4, <1>5, <1>6, <1>7, <1>8, CallStepKeeps

\* A request is sent after those told "ok" by then.
LEMMA SendKeeps ==
  ASSUME SubmissionParameters, SubmissionInv, NEW r \in Requests, Ballot!Send(r)
  PROVE  SubmissionInv'
<1> DEFINE x == calls[r]
           c == [x EXCEPT !.pc = "status", !.after = Ballot!Told("ok")]
<1>1. /\ calls \in [Requests -> SubmissionCall] /\ x \in SubmissionCall /\ api.active \in BOOLEAN
      /\ api.ballot \in Keys \cup {NoKey}
      /\ api.cached \subseteq Keys /\ api.locked \subseteq Keys
  BY SubmissionFields DEF SubmissionInv
<1>2. ~ Ballot!At(r, "answered") /\ UNCHANGED past /\ UNCHANGED api
  BY DEF Ballot!Send, Ballot!At
<1>3. past' \in [faults : 0..MaxFaults] /\ past'.faults = past.faults BY <1>2, FaultsCounted
<1>4. calls' = [calls EXCEPT ![r] = c] BY <1>1 DEF Ballot!Send
<1>5. Ballot!Told("ok") \subseteq Requests BY DEF Ballot!Told
<1>6. c \in SubmissionCall /\ c.pc = "status" /\ c.code = x.code /\ c.after = Ballot!Told("ok")
  BY <1>1, <1>5 DEF SubmissionCall, Ballot!Stages
<1>7. api' \in [active : {api.active}, ballot : Keys \cup {NoKey}, cached : SUBSET Keys,
                locked : SUBSET Keys]
  BY <1>2 DEF SubmissionInv, Ballot!TypeOK
<1> HIDE DEF c
<1>8. /\ c.pc = "store" \/ c.code = "ok" => api'.ballot = KeyOf[r]
      /\ past.faults = 0 /\ c.code = "ok" => KeyOf[r] \in api'.cached
      /\ \A k \in api'.cached : api'.ballot = k
  BY <1>2, <1>6 DEF SubmissionInv, OkIsRecorded, OkIsCached, CachedIsRecorded
<1>9. QED BY <1>2, <1>3, <1>4, <1>6, <1>7, <1>8, CallStepKeeps

\* What expires, and the close of the election, touch neither ballot nor calls.
LEMMA OthersKeep ==
  ASSUME SubmissionParameters, SubmissionInv,
         (\E k \in Keys : Ballot!AnswerExpires(k) \/ Ballot!LockExpires(k))
            \/ Ballot!Close \/ UNCHANGED Ballot!vars
  PROVE  SubmissionInv'
<1>1. /\ calls \in [Requests -> SubmissionCall] /\ api.active \in BOOLEAN
      /\ api.ballot \in Keys \cup {NoKey}
      /\ api.cached \subseteq Keys /\ api.locked \subseteq Keys
  BY SubmissionFields DEF SubmissionInv
<1>2. ASSUME UNCHANGED calls,
             api' \in [active : BOOLEAN, ballot : Keys \cup {NoKey}, cached : SUBSET Keys,
                       locked : SUBSET Keys],
             api'.active => api.active, api'.ballot = api.ballot, api'.cached \subseteq api.cached,
             past' \in [faults : 0..MaxFaults],
             past'.faults = 0 => past.faults = 0 /\ api'.cached = api.cached
      PROVE  SubmissionInv'
  <2>1. Ballot!TypeOK' BY <1>2 DEF SubmissionInv, Ballot!TypeOK
  <2>2. OkIsRecorded' /\ CachedIsRecorded'
    BY <1>2 DEF SubmissionInv, OkIsRecorded, CachedIsRecorded, Ballot!At
  <2>3. OkIsCached' BY <1>2 DEF SubmissionInv, OkIsCached
  <2>4. RepeatsFollowOk' BY <1>2 DEF SubmissionInv, RepeatsFollowOk, Ballot!Told, Ballot!At
  <2>5. RepeatsStopAtCache' BY <1>2 DEF SubmissionInv, RepeatsStopAtCache, Ballot!At
  <2>6. QED BY <2>1, <2>2, <2>3, <2>4, <2>5 DEF SubmissionInv
<1>3. /\ Ballot!Fault => past' \in [faults : 0..MaxFaults] /\ past'.faults # 0
      /\ UNCHANGED past => past' \in [faults : 0..MaxFaults] /\ past'.faults = past.faults
  BY FaultsCounted
<1>4. ASSUME NEW k \in Keys, Ballot!AnswerExpires(k) PROVE SubmissionInv'
  <2>1. /\ api' \in [active : BOOLEAN, ballot : Keys \cup {NoKey}, cached : SUBSET Keys,
                     locked : SUBSET Keys]
        /\ api'.active = api.active /\ api'.ballot = api.ballot /\ api'.cached \subseteq api.cached
    BY <1>1, <1>4 DEF Ballot!AnswerExpires, SubmissionInv, Ballot!TypeOK
  <2>2. UNCHANGED calls /\ Ballot!Fault BY <1>4 DEF Ballot!AnswerExpires
  <2>3. QED BY <1>2, <1>3, <2>1, <2>2
<1>5. ASSUME NEW k \in Keys, Ballot!LockExpires(k) PROVE SubmissionInv'
  <2>1. /\ api' \in [active : BOOLEAN, ballot : Keys \cup {NoKey}, cached : SUBSET Keys,
                     locked : SUBSET Keys]
        /\ api'.active = api.active /\ api'.ballot = api.ballot /\ api'.cached = api.cached
    BY <1>1, <1>5 DEF Ballot!LockExpires, SubmissionInv, Ballot!TypeOK
  <2>2. UNCHANGED calls /\ (Ballot!Fault \/ UNCHANGED past) BY <1>5 DEF Ballot!LockExpires
  <2>3. QED BY <1>2, <1>3, <2>1, <2>2
<1>6. ASSUME Ballot!Close PROVE SubmissionInv'
  <2>1. /\ api' \in [active : BOOLEAN, ballot : Keys \cup {NoKey}, cached : SUBSET Keys,
                     locked : SUBSET Keys]
        /\ ~ api'.active /\ api'.ballot = api.ballot /\ api'.cached = api.cached
    BY <1>1, <1>6 DEF Ballot!Close, SubmissionInv, Ballot!TypeOK
  <2>2. UNCHANGED calls /\ UNCHANGED past BY <1>6 DEF Ballot!Close
  <2>3. QED BY <1>2, <1>3, <2>1, <2>2
<1>7. ASSUME UNCHANGED Ballot!vars PROVE SubmissionInv'
  <2>1. UNCHANGED api /\ UNCHANGED calls /\ UNCHANGED past BY <1>7 DEF Ballot!vars
  <2>2. api' \in [active : BOOLEAN, ballot : Keys \cup {NoKey}, cached : SUBSET Keys,
                  locked : SUBSET Keys]
    BY <2>1 DEF SubmissionInv, Ballot!TypeOK
  <2>3. QED BY <1>2, <1>3, <2>1, <2>2
<1>8. QED BY <1>4, <1>5, <1>6, <1>7

\* Every step keeps the invariant.
LEMMA NextSubmissionInv ==
  ASSUME SubmissionParameters
        PROVE SubmissionInv /\ [Ballot!Next]_(Ballot!vars) => SubmissionInv'
<1> SUFFICES ASSUME SubmissionInv, [Ballot!Next]_(Ballot!vars) PROVE SubmissionInv' OBVIOUS
<1>1. ASSUME NEW r \in Requests,
             Ballot!Send(r) \/ Ballot!RequestStep(r) \/ Ballot!RedisFails(r) \/ Ballot!Dies(r)
      PROVE  SubmissionInv'
  BY <1>1, SendKeeps, LookingKeeps, TakeLockKeeps, InsertKeeps, StoreKeeps, UnlockKeeps
     DEF Ballot!RequestStep
<1>2. QED BY <1>1, OthersKeep DEF Ballot!Next

-----------------------------------------------------------------------------
(* The refinement: submitting is the box of one ballot.                    *)

\* What the box shows of a call.
ShownAnswer(c) == IF c.pc = "answered" /\ c.code = "ok" THEN "ok"
            ELSE IF c.pc \in {"answered", "dead"} THEN "other" ELSE "none"

LEMMA BoxAnswerShown == Ballot!BoxAnswer = [r \in Requests |-> ShownAnswer(calls[r])]
BY DEF Ballot!BoxAnswer, ShownAnswer, Ballot!At

\* A step of a call that no answer has ended shows nothing, an error or, when its
\* own ballot is on record, "ok".
LEMMA ShowsAnswer ==
  ASSUME SubmissionParameters, SubmissionInv, NEW r \in Requests, NEW c,
         calls' = [calls EXCEPT ![r] = c], api'.ballot = api.ballot,
         ShownAnswer(calls[r]) = "none",
         ShownAnswer(c) = "ok" => api.ballot = KeyOf[r]
  PROVE  Ballot!BoxStep
<1>1. calls \in [Requests -> SubmissionCall] BY SubmissionFields DEF SubmissionInv
<1>2. Ballot!BoxAnswer' = [Ballot!BoxAnswer EXCEPT ![r] = ShownAnswer(c)]
  <2>1. Ballot!BoxAnswer' = [o \in Requests |-> ShownAnswer(calls'[o])]
    BY DEF Ballot!BoxAnswer, ShownAnswer, Ballot!At
  <2>2. \A o \in Requests : calls'[o] = IF o = r THEN c ELSE calls[o] BY <1>1
  <2>3. QED BY <2>1, <2>2, BoxAnswerShown
<1>3. Ballot!BoxAnswer[r] = "none" BY BoxAnswerShown
<1>4. ShownAnswer(c) \in {"none", "ok", "other"} BY DEF ShownAnswer
<1>5. CASE ShownAnswer(c) = "none"
  <2>1. Ballot!BoxAnswer' = Ballot!BoxAnswer BY <1>2, <1>3, <1>5, BoxAnswerShown
  <2>2. QED BY <2>1 DEF Ballot!BoxStep, Ballot!Box!boxVars
<1>6. CASE ShownAnswer(c) = "ok"
  <2>1. Ballot!Box!TellAccepted(r) BY <1>2, <1>3, <1>6 DEF Ballot!Box!TellAccepted
  <2>2. QED BY <2>1 DEF Ballot!BoxStep, Ballot!Box!BoxNext
<1>7. CASE ShownAnswer(c) = "other"
  <2>1. Ballot!Box!TellOther(r) BY <1>2, <1>3, <1>7 DEF Ballot!Box!TellOther
  <2>2. QED BY <2>1 DEF Ballot!BoxStep, Ballot!Box!BoxNext
<1>8. QED BY <1>4, <1>5, <1>6, <1>7

\* A step of one request maps to a step of the box or to none.
LEMMA RequestShows ==
  ASSUME SubmissionParameters, SubmissionInv, NEW r \in Requests,
         Ballot!Send(r) \/ Ballot!RequestStep(r) \/ Ballot!RedisFails(r) \/ Ballot!Dies(r)
  PROVE  Ballot!BoxStep
<1> DEFINE x == calls[r]
<1>1. calls \in [Requests -> SubmissionCall] /\ x \in SubmissionCall
  BY SubmissionFields DEF SubmissionInv
<1>2. ASSUME NEW s, NEW c, calls' = [calls EXCEPT ![r] = c], UNCHANGED <<api.ballot>>,
             x.pc \notin {"answered", "dead"}, c.pc = s, s \notin {"answered", "dead"}
      PROVE  Ballot!BoxStep
  <2>1. \A o \in Requests : calls'[o] = IF o = r THEN c ELSE calls[o] BY <1>1, <1>2
  <2>2. ShownAnswer(c) = ShownAnswer(x) BY <1>2 DEF ShownAnswer
  <2>3. Ballot!BoxAnswer' = [o \in Requests |-> ShownAnswer(calls'[o])]
    BY DEF Ballot!BoxAnswer, ShownAnswer, Ballot!At
  <2>4. Ballot!BoxAnswer' = Ballot!BoxAnswer BY <2>1, <2>2, <2>3, BoxAnswerShown
  <2>5. QED BY <1>2, <2>4 DEF Ballot!BoxStep, Ballot!Box!boxVars
<1>3. ASSUME NEW s \in Ballot!Stages \ {"answered", "dead"}, Ballot!Go(r, s), api'.ballot = api.ballot,
             x.pc \notin {"answered", "dead"}
      PROVE  Ballot!BoxStep
  <2> DEFINE c == [x EXCEPT !.pc = s]
  <2>1. calls' = [calls EXCEPT ![r] = c] /\ c.pc = s BY <1>1, <1>3 DEF Ballot!Go, SubmissionCall
  <2> HIDE DEF c, x
  <2>2. QED BY <1>2, <1>3, <2>1
<1>4. ASSUME NEW s \in Ballot!Stages \ {"answered", "dead"}, NEW k, Ballot!GoTelling(r, s, k),
             api'.ballot = api.ballot, x.pc \notin {"answered", "dead"}
      PROVE  Ballot!BoxStep
  <2> DEFINE c == [x EXCEPT !.pc = s, !.code = k]
  <2>1. calls' = [calls EXCEPT ![r] = c] /\ c.pc = s
    BY <1>1, <1>4 DEF Ballot!GoTelling, SubmissionCall
  <2> HIDE DEF c, x
  <2>2. QED BY <1>2, <1>4, <2>1
<1>5. ASSUME NEW k, Ballot!Answer(r, k), UNCHANGED api, x.pc \notin {"answered", "dead"},
             k = "ok" => KeyOf[r] \in api.cached
      PROVE  Ballot!BoxStep
  <2> DEFINE c == [x EXCEPT !.pc = "answered", !.code = k]
  <2>1. calls' = [calls EXCEPT ![r] = c] /\ c.code = k
    BY <1>1, <1>5 DEF Ballot!Answer, SubmissionCall
  <2>2. ShownAnswer(x) = "none" BY <1>5 DEF ShownAnswer
  <2>3. ShownAnswer(c) = "ok" => api.ballot = KeyOf[r]
    BY <1>5, <2>1 DEF ShownAnswer, SubmissionInv, CachedIsRecorded
  <2> HIDE DEF c
  <2>4. QED BY <1>5, <2>1, <2>2, <2>3, ShowsAnswer
<1>6. {"status", "cache", "lock", "wait", "insert", "store", "unlock"}
        \subseteq Ballot!Stages \ {"answered", "dead"}
  BY DEF Ballot!Stages
<1>7. ASSUME Ballot!Send(r) PROVE Ballot!BoxStep
  <2> DEFINE c == [x EXCEPT !.pc = "status", !.after = Ballot!Told("ok")]
  <2>1. calls' = [calls EXCEPT ![r] = c] /\ c.pc = "status"
    BY <1>1, <1>7 DEF Ballot!Send, SubmissionCall
  <2>2. x.pc \notin {"answered", "dead"} /\ UNCHANGED api BY <1>7 DEF Ballot!Send, Ballot!At
  <2> HIDE DEF c, x
  <2>3. QED BY <1>2, <2>1, <2>2
<1>8. ASSUME Ballot!CheckStatus(r) \/ Ballot!ReadCache(r) \/ Ballot!FindAnswer(r)
               \/ Ballot!GiveUp(r)
      PROVE Ballot!BoxStep
  <2>1. UNCHANGED api /\ x.pc \notin {"answered", "dead"}
    BY <1>8
      DEF Ballot!CheckStatus, Ballot!ReadCache, Ballot!FindAnswer, Ballot!GiveUp, Ballot!At
  <2>2. \/ Ballot!Go(r, "cache") \/ Ballot!Go(r, "lock")
        \/ Ballot!Answer(r, "election_not_active") \/ Ballot!Answer(r, "idempotency_in_progress")
        \/ Ballot!Answer(r, "ok") /\ KeyOf[r] \in api.cached
    BY <1>8
      DEF Ballot!CheckStatus, Ballot!ReadCache, Ballot!Look, Ballot!FindAnswer, Ballot!GiveUp
  <2> HIDE DEF x
  <2>3. QED BY <1>3, <1>5, <1>6, <2>1, <2>2
<1>9. ASSUME Ballot!TakeLock(r) PROVE Ballot!BoxStep
  <2>1. x.pc \notin {"answered", "dead"} BY <1>9 DEF Ballot!TakeLock, Ballot!At
  <2>2. api'.ballot = api.ballot BY <1>9 DEF Ballot!TakeLock, SubmissionInv, Ballot!TypeOK
  <2>3. Ballot!Go(r, "wait") \/ Ballot!Go(r, "insert") BY <1>9 DEF Ballot!TakeLock
  <2> HIDE DEF x
  <2>4. QED BY <1>3, <1>6, <2>1, <2>2, <2>3
<1>10. ASSUME Ballot!Insert(r) PROVE Ballot!BoxStep
  <2>1. x.pc = "insert" BY <1>10 DEF Ballot!Insert, Ballot!At
  <2>2. CASE api.ballot # NoKey
    <3>1. UNCHANGED api /\ Ballot!GoTelling(r, "unlock", "already_submitted")
      BY <1>10, <2>2 DEF Ballot!Insert, Ballot!Inserted
    <3> HIDE DEF x
    <3>2. QED BY <1>4, <1>6, <2>1, <3>1
  <2>3. CASE api.ballot = NoKey
    <3> DEFINE c == [x EXCEPT !.pc = "store"]
    <3>1. calls' = [calls EXCEPT ![r] = c] /\ api' = [api EXCEPT !.ballot = KeyOf[r]]
      BY <1>10, <2>3 DEF Ballot!Insert, Ballot!Inserted, Ballot!Go
    <3>2. ShownAnswer(c) = "none" /\ ShownAnswer(x) = "none"
      BY <1>1, <2>1 DEF ShownAnswer, SubmissionCall
    <3> HIDE DEF c
    <3>3. \A o \in Requests : calls'[o] = IF o = r THEN c ELSE calls[o] BY <1>1, <3>1
    <3>4. Ballot!BoxAnswer' = [o \in Requests |-> ShownAnswer(calls'[o])]
      BY DEF Ballot!BoxAnswer, ShownAnswer, Ballot!At
    <3>5. Ballot!BoxAnswer' = Ballot!BoxAnswer BY <3>2, <3>3, <3>4, BoxAnswerShown
    <3>6. Ballot!BoxAnswer[r] = "none" BY <3>2, BoxAnswerShown
    <3>7. api'.ballot = KeyOf[r] BY <3>1 DEF SubmissionInv, Ballot!TypeOK
    <3>8. Ballot!Box!Record(r) BY <2>3, <3>5, <3>6, <3>7 DEF Ballot!Box!Record
    <3>9. QED BY <3>8 DEF Ballot!BoxStep, Ballot!Box!BoxNext
  <2>4. QED BY <2>2, <2>3
<1>11. ASSUME Ballot!Store(r) PROVE Ballot!BoxStep
  <2>1. x.pc \notin {"answered", "dead"} BY <1>11 DEF Ballot!Store, Ballot!At
  <2>2. api'.ballot = api.ballot BY <1>11 DEF Ballot!Store, SubmissionInv, Ballot!TypeOK
  <2>3. Ballot!GoTelling(r, "unlock", "ok") BY <1>11 DEF Ballot!Store
  <2> HIDE DEF x
  <2>4. QED BY <1>4, <1>6, <2>1, <2>2, <2>3
<1>12. ASSUME Ballot!At(r, "unlock"), Ballot!Go(r, "answered"), api'.ballot = api.ballot
      PROVE Ballot!BoxStep
  <2> DEFINE c == [x EXCEPT !.pc = "answered"]
  <2>1. calls' = [calls EXCEPT ![r] = c] /\ c.code = x.code
    BY <1>1, <1>12 DEF Ballot!Go, SubmissionCall
  <2>2. ShownAnswer(x) = "none" BY <1>12 DEF ShownAnswer, Ballot!At
  <2>3. ShownAnswer(c) = "ok" => api.ballot = KeyOf[r]
    BY <2>1 DEF ShownAnswer, SubmissionInv, OkIsRecorded
  <2> HIDE DEF c
  <2>4. QED BY <1>12, <2>1, <2>2, <2>3, ShowsAnswer
<1>13. ASSUME Ballot!Unlock(r) PROVE Ballot!BoxStep
  <2>1. api'.ballot = api.ballot BY <1>13 DEF Ballot!Unlock, SubmissionInv, Ballot!TypeOK
  <2>2. QED BY <1>12, <1>13, <2>1 DEF Ballot!Unlock
<1>14. ASSUME Ballot!RedisFails(r) PROVE Ballot!BoxStep
  <2>1. UNCHANGED api /\ (Ballot!At(r, "unlock") \/ x.pc \in {"cache", "lock", "store"})
    BY <1>14 DEF Ballot!RedisFails, Ballot!At
  <2>2. \/ Ballot!At(r, "unlock") /\ Ballot!Go(r, "answered")
        \/ /\ x.pc \in {"cache", "lock", "store"}
           /\ Ballot!Go(r, "lock") \/ Ballot!Go(r, "wait") \/ Ballot!GoTelling(r, "unlock", "ok")
    BY <1>14 DEF Ballot!RedisFails, Ballot!At
  <2> HIDE DEF x
  <2>3. QED BY <1>3, <1>4, <1>6, <1>12, <2>1, <2>2
<1>15. ASSUME Ballot!Dies(r) PROVE Ballot!BoxStep
  <2> DEFINE c == [x EXCEPT !.pc = "dead"]
  <2>1. calls' = [calls EXCEPT ![r] = c] /\ UNCHANGED api BY <1>15 DEF Ballot!Dies, Ballot!Go
  <2>2. ShownAnswer(x) = "none" BY <1>15 DEF Ballot!Dies, ShownAnswer
  <2>3. ShownAnswer(c) # "ok" BY <1>1 DEF ShownAnswer, SubmissionCall
  <2> HIDE DEF c
  <2>4. QED BY <2>1, <2>2, <2>3, ShowsAnswer
<1>16. QED
  BY <1>7, <1>8, <1>9, <1>10, <1>11, <1>13, <1>14, <1>15 DEF Ballot!RequestStep

\* Every step maps to a step of the box or to none.
LEMMA NextShows ==
  ASSUME SubmissionParameters
        PROVE SubmissionInv /\ [Ballot!Next]_(Ballot!vars) => Ballot!BoxStep
<1> SUFFICES ASSUME SubmissionInv, [Ballot!Next]_(Ballot!vars) PROVE Ballot!BoxStep OBVIOUS
<1>1. ASSUME NEW r \in Requests,
             Ballot!Send(r) \/ Ballot!RequestStep(r) \/ Ballot!RedisFails(r) \/ Ballot!Dies(r)
      PROVE  Ballot!BoxStep
  BY <1>1, RequestShows
<1>2. ASSUME UNCHANGED calls, api'.ballot = api.ballot PROVE Ballot!BoxStep
  <2>1. Ballot!BoxAnswer' = Ballot!BoxAnswer BY <1>2 DEF Ballot!BoxAnswer, Ballot!At
  <2>2. QED BY <1>2, <2>1 DEF Ballot!BoxStep, Ballot!Box!boxVars
<1>3. ASSUME NEW k \in Keys, Ballot!AnswerExpires(k) \/ Ballot!LockExpires(k)
      PROVE Ballot!BoxStep
  BY <1>2, <1>3 DEF Ballot!AnswerExpires, Ballot!LockExpires, SubmissionInv, Ballot!TypeOK
<1>4. CASE Ballot!Close BY <1>2, <1>4 DEF Ballot!Close, SubmissionInv, Ballot!TypeOK
<1>5. CASE UNCHANGED Ballot!vars BY <1>2, <1>5 DEF Ballot!vars
<1>6. QED BY <1>1, <1>3, <1>4, <1>5 DEF Ballot!Next

-----------------------------------------------------------------------------
(* What follows from it.                                                   *)

\* The inductive invariant: the ballot on record, the cached answers and what
\* requests are told name the same key.
THEOREM SubmissionInvariant == ASSUME SubmissionParameters PROVE Ballot!Spec => []SubmissionInv
BY InitSubmissionInv, NextSubmissionInv, PTL DEF Ballot!Spec

\* Submitting implements the box of one ballot: whatever fails, expires or dies,
\* the first ballot recorded stays, and "ok" goes only to requests that brought it
\* (submit.go, idempotency.go).
THEOREM SubmissionImplementsBox == ASSUME SubmissionParameters
      PROVE Ballot!Spec => Ballot!Box!BoxSpec
<1>1. Ballot!Init => Ballot!Box!BoxInit
  BY DEF Ballot!Init, Ballot!Box!BoxInit, Ballot!BoxAnswer, Ballot!At
<1>2. SubmissionInv /\ [Ballot!Next]_(Ballot!vars) => [Ballot!Box!BoxNext]_(Ballot!Box!boxVars)
  BY NextShows DEF Ballot!BoxStep
<1>3. QED BY <1>1, <1>2, SubmissionInvariant, PTL DEF Ballot!Spec, Ballot!Box!BoxSpec

\* Without a fault, the retry of a request that was told "ok" is told "ok" again
\* while the election is open, however many requests run at once (submit.go).
THEOREM RepeatIsOkAgainHolds == ASSUME SubmissionParameters
      PROVE Ballot!Spec => []Ballot!RepeatIsOkAgain
<1>1. SubmissionInv => Ballot!RepeatIsOkAgain
  BY DEF SubmissionInv, RepeatsStopAtCache, Ballot!RepeatIsOkAgain, Ballot!At
<1>2. QED BY <1>1, SubmissionInvariant, PTL
=============================================================================
