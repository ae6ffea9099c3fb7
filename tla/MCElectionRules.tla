---------------------------- MODULE MCElectionRules ----------------------------
(* One tab of ElectionRulesForm beside a page that opens the election. *)
EXTENDS ElectionRulesForm

Ranking(id, quota) ==
  [id |-> id, formats |-> {"ranking"}, tally |-> TRUE, committee |-> TRUE, quota |-> quota,
   approval |-> FALSE, topK |-> TRUE, range |-> FALSE, limit |-> 0]
Offer == <<Ranking("plurality", FALSE), Ranking("hare", TRUE)>>
CreatedWith ==
  {[rule |-> "hare", format |-> "ranking", committee |-> 2, quota |-> TRUE, publish |-> -1,
    amax |-> -1, topK |-> 2, scale |-> NoScale]}
PublishTimes == {-1, 2}

Spec == Init /\ [][Next]_vars

\* PUT /elections/{id}/rules answers 409 when the election has left draft and scheduled,
\* so the rules change in those statuses only.
RulesChangeWhileEditable == [][RulesChangeOnlyWhileEditable]_vars
=============================================================================
