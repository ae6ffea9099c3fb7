------------------------------ MODULE BallotForm ------------------------------
(***************************************************************************)
(* The ballot a voter fills in on VotePage, for the three ballot formats,  *)
(* and what the API accepts (internal/ballots/validation.go).              *)
(*                                                                         *)
(* The rules of an election may be edited while the page is open; the page *)
(* learns them when it reloads.  Typed numbers are counted in halves: the  *)
(* field takes any finite number, the API only integers.                   *)
(***************************************************************************)
EXTENDS Integers, Sequences, FiniteSets

CONSTANTS
  Candidates,  \* at least one
  Metas,       \* the rules an election may have, see Meta
  Typed,       \* the numbers typed into a score field, in halves
  Empty        \* a ranking position nobody is assigned to

\* 0 stands for a limit that is absent or not positive.
Meta == [format : {"approval", "ranking", "score"}, max : Nat, topK : Nat,
         lo : Int, hi : Int, step : Nat, skip : BOOLEAN]

VARIABLES
  page,  \* what VotePage holds: meta, approval (approvalSet), slots
         \* (rankingSlots) and scores, in halves, of the candidates scored
  api    \* the rules in the elections row

vars == <<page, api>>

TypeOK ==
  /\ api \in Metas
  /\ DOMAIN page = {"meta", "approval", "slots", "scores"}
  /\ page.meta \in Metas
  /\ page.approval \in Seq(Candidates)
  /\ DOMAIN page.slots = 1..Cardinality(DOMAIN page.slots)
  /\ \A i \in DOMAIN page.slots : page.slots[i] \in Candidates \cup {Empty}
  /\ DOMAIN page.scores \subseteq Candidates
  /\ \A c \in DOMAIN page.scores : page.scores[c] \in Int

\* The members of a list that are in a set, in the order of the list.
Kept(s, S) ==
  LET upTo[i \in 0..Len(s)] ==
        IF i = 0 THEN <<>>
        ELSE IF s[i] \in S THEN Append(upTo[i - 1], s[i]) ELSE upTo[i - 1]
  IN  upTo[Len(s)]

-----------------------------------------------------------------------------
(* Loading and editing.                                                    *)

SlotCount(m) == IF m.topK > 0 THEN m.topK ELSE Cardinality(Candidates)

\* buildInitialRankingSlots
BlankSlots(m) ==
  IF m.format = "ranking" THEN [i \in 1..SlotCount(m) |-> Empty] ELSE <<>>

\* Scores start at the minimum, and are kept once there are any.
InitialScores(m, old) ==
  IF m.format = "score" /\ DOMAIN old = {}
  THEN [c \in Candidates |-> 2 * m.lo] ELSE old

Init ==
  /\ api \in Metas
  /\ page = [meta |-> api, approval |-> <<>>, slots |-> BlankSlots(api),
             scores |-> InitialScores(api, <<>>)]

\* reload: positions are emptied, approvals and scores stay.
Reload ==
  /\ page' = [page EXCEPT !.meta = api, !.slots = BlankSlots(api),
                          !.scores = InitialScores(api, @)]
  /\ UNCHANGED api

\* PUT /elections/{id}/rules, before the election starts.
UpdateRules ==
  /\ \E m \in Metas : api' = m
  /\ UNCHANGED page

Approved == {page.approval[i] : i \in DOMAIN page.approval}

\* toggleApproval
Toggled(c) ==
  IF c \in Approved THEN Kept(page.approval, Candidates \ {c})
  ELSE IF page.meta.max > 0 /\ Len(page.approval) >= page.meta.max
  THEN page.approval
  ELSE Append(page.approval, c)

ToggleApproval(c) ==
  /\ page.meta.format = "approval"
  /\ page' = [page EXCEPT !.approval = Toggled(c)]
  /\ UNCHANGED api

\* Mutant: positions counted from zero.
AssignedFromZero(i, c) ==
  [j \in 0..Len(page.slots) |-> IF j = i THEN c ELSE Empty]

\* setRankingSlotValue and clearRankingSlot: assigning a candidate takes it from
\* any other position.
Assigned(i, c) ==
  [j \in DOMAIN page.slots |->
     IF j = i THEN c
     ELSE IF c # Empty /\ page.slots[j] = c THEN Empty ELSE page.slots[j]]

\* The options of a position that are not disabled.
Selectable(i) ==
  {Empty} \cup {c \in Candidates :
                   \A j \in DOMAIN page.slots : page.slots[j] = c => j = i}

SetRankingSlot(i, c) ==
  /\ page.meta.format = "ranking"
  /\ c \in Selectable(i)
  /\ page' = [page EXCEPT !.slots = Assigned(i, c)]
  /\ UNCHANGED api

ClearRankingAll ==
  /\ page.meta.format = "ranking"
  /\ page' = [page EXCEPT !.slots = [i \in DOMAIN @ |-> Empty]]
  /\ UNCHANGED api

\* setScore: an emptied field changes nothing.
SetScore(c, v) ==
  /\ page.meta.format = "score"
  /\ page' = [page EXCEPT !.scores =
                [d \in DOMAIN @ \cup {c} |-> IF d = c THEN v ELSE @[d]]]
  /\ UNCHANGED api

Next ==
  \/ Reload \/ UpdateRules \/ ClearRankingAll
  \/ \E c \in Candidates : ToggleApproval(c)
  \/ \E i \in DOMAIN page.slots, c \in Candidates \cup {Empty} : SetRankingSlot(i, c)
  \/ \E c \in Candidates, v \in Typed : SetScore(c, v)

-----------------------------------------------------------------------------
(* Checks before and after sending.                                        *)

\* ranking: the positions that are filled.
Ranking == Kept(page.slots, Candidates)

\* assignedRankingMap
PlaceOf(c) == CHOOSE i \in DOMAIN page.slots : page.slots[i] = c

Distinct(s) == \A i, j \in DOMAIN s : s[i] = s[j] => i = j

WithinLimit(s, limit) == Len(s) > 0 /\ (limit > 0 => Len(s) <= limit)

NoGap ==
  \A i, j \in DOMAIN page.slots :
    i < j /\ page.slots[i] = Empty => page.slots[j] = Empty

\* Mutants: two checks forgotten.
GapsAllowed == WithinLimit(Ranking, page.meta.topK) /\ Distinct(Ranking)
NoLimitCheck == Len(page.approval) > 0

ApprovalReady == WithinLimit(page.approval, page.meta.max)
RankingReady == WithinLimit(Ranking, page.meta.topK) /\ Distinct(Ranking) /\ NoGap
ScoreReady ==
  /\ page.meta.step > 0
  /\ \A c \in Candidates :
       IF c \in DOMAIN page.scores
       THEN /\ page.scores[c] >= 2 * page.meta.lo
            /\ page.scores[c] <= 2 * page.meta.hi
            /\ (page.scores[c] - 2 * page.meta.lo) % (2 * page.meta.step) = 0
       ELSE page.meta.skip

\* validateBeforeSubmit
Ready == CASE page.meta.format = "approval" -> ApprovalReady
           [] page.meta.format = "ranking" -> RankingReady
           [] page.meta.format = "score" -> ScoreReady

\* validateApprovalBallot, validateRankingBallot
ListAccepted(s, limit) ==
  WithinLimit(s, limit) /\ (\A i \in DOMAIN s : s[i] \in Candidates) /\ Distinct(s)

\* validateScoreBallot, of a body that decodes to integers.
ScoresAccepted(f, m) ==
  /\ DOMAIN f # {} /\ m.step > 0
  /\ \A c \in DOMAIN f : f[c] % 2 = 0
  /\ \A c \in DOMAIN f : /\ f[c] \div 2 >= m.lo /\ f[c] \div 2 <= m.hi
                         /\ (f[c] \div 2 - m.lo) % m.step = 0
  /\ ~m.skip => DOMAIN f = Candidates

\* The body carries the list or the scores of the format the page knows.
Accepted(m) ==
  /\ m.format = page.meta.format
  /\ CASE m.format = "approval" -> ListAccepted(page.approval, m.max)
       [] m.format = "ranking" -> ListAccepted(Ranking, m.topK)
       [] m.format = "score" -> ScoresAccepted(page.scores, m)

-----------------------------------------------------------------------------
(* Properties.                                                             *)

\* A ballot that passes the page's own checks is accepted by the API under the
\* same rules, whatever edits, reloads and changes of the rules came before: no
\* candidate twice, no limit exceeded, no score off the scale.
ReadyIsAccepted == Ready => Accepted(page.meta)

\* The place shown beside a candidate is the place it has in the ballot sent,
\* although the empty positions are left out of it.
ShownPlaceIsSent ==
  page.meta.format = "ranking" /\ Ready =>
    \A c \in Candidates :
      (\E i \in DOMAIN page.slots : page.slots[i] = c) =>
        PlaceOf(c) \in DOMAIN Ranking /\ Ranking[PlaceOf(c)] = c

=============================================================================
