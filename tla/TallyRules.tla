------------------------------ MODULE TallyRules ------------------------------
(***************************************************************************)
(* The rules the compute service offers for counting ballots, and what the *)
(* API asks of an election's parameters.  A rule needs a committee's size, *)
(* takes a quota, needs a limit of approvals, takes a limit of ranks or    *)
(* needs a range of scores; the name of an approval rule may give its      *)
(* limit, which the pages go by.  -1 stands for null.                      *)
(***************************************************************************)
EXTENDS Integers, Sequences, SequencesExt, PickedLists

Formats == {"approval", "ranking", "score"}

NoRule == [id |-> "none", formats |-> {}, tally |-> FALSE, committee |-> FALSE,
           quota |-> FALSE, approval |-> FALSE, topK |-> FALSE, range |-> FALSE, limit |-> 0]

NoScale == [min |-> -1, max |-> -1, step |-> -1]

\* The rule with this id; the catalogue is a sequence of distinct rules.
Find(rules, id) ==
  IF \E i \in DOMAIN rules : rules[i].id = id
  THEN rules[CHOOSE i \in DOMAIN rules : rules[i].id = id] ELSE NoRule

ForFormat(rules, f) == Picked(rules, {i \in DOMAIN rules : f \in rules[i].formats})

Clamp(n, low, high) == CASE n < low -> low [] n > high -> high [] OTHER -> n

-----------------------------------------------------------------------------
\* b: format, count of candidates, committee, quota, amax, topK, scale.

\* validateRuleCompatibility, with normalizeCommitteeSize.
Compatible(b, rule) ==
  /\ rule.tally /\ b.format \in rule.formats
  /\ rule.committee => b.committee \in 1..b.count
  /\ b.quota => rule.quota
  /\ rule.approval => b.amax # -1
  /\ b.topK # -1 => rule.topK
  /\ rule.range => b.scale # NoScale

\* validateBallotParams
BallotParamsValid(b) ==
  CASE b.format = "approval" -> b.amax \in 1..b.count
    [] b.format = "ranking" -> b.topK # -1 => b.topK \in 1..b.count
    [] b.format = "score" -> /\ b.scale.step > 0 /\ b.scale.min <= b.scale.max
                             /\ (b.scale.max - b.scale.min) % b.scale.step = 0
=============================================================================
