---------------------------- MODULE ElectionScreens ----------------------------
(***************************************************************************)
(* Moving one election along its lifecycle from several open pages: the    *)
(* card (ElectionPage, seen by an administrator), which offers the actions *)
(* of the status it shows, and the panel (AdminElectionPage), which offers *)
(* all of them.  The worker moves the same election by itself, and others  *)
(* edit what it needs to be opened: its rule, committee and ballot.        *)
(***************************************************************************)
EXTENDS Naturals, Sequences, SequencesExt, LifecycleRules

CONSTANTS
  Cards, Panels,  \* the pages open on the election
  Others,         \* of these, those of administrators who did not create it
  MaxPresses      \* the bound on presses of a button, of any page

VARIABLES
  api,   \* the election: its status, and fit: what else open checks would pass
  page,  \* the state of the pages
  past   \* history: presses, and done, the actions the API carried out, per page

vars == <<api, page, past>>

Screens == Cards \cup Panels

NoCall == [at |-> "none", action |-> "none", shown |-> "none", stale |-> FALSE]

\* shown  the status of the item, "none" without one
\* runs   what the loads under way have read, "asked" before the API answers
\* busy   actionState.busy or actionLoading
\* call   the action under way; stale: the status differed from the one shown
\* told   the actions reported as carried out;  err: an error is shown
Opened == [shown |-> "none", runs |-> <<"asked">>, loading |-> TRUE, busy |-> FALSE,
           call |-> NoCall, told |-> {}, err |-> FALSE]

Init ==
  /\ \E fit \in BOOLEAN : api = [status |-> "draft", fit |-> fit]
  /\ page = [s \in Screens |-> Opened]
  /\ past = [presses |-> 0, done |-> [s \in Screens |-> {}]]

Actions == DOMAIN ActionFrom

-----------------------------------------------------------------------------
(* The pages.                                                              *)

\* Mutant: a load does not abort the one before it.
ReloadingBeside(p) ==
  [p EXCEPT !.runs = Append(@, "asked"), !.loading = TRUE, !.err = FALSE]

\* load aborts the load before it, whose finally block clears the flag at once.
Reloading(p) ==
  [p EXCEPT !.runs = <<"asked">>, !.loading = p.runs = <<>>, !.err = FALSE]

\* Mutant: the card offers to pause a paused election.
CardOffersPause(status) ==
  CASE status = "draft" -> {"schedule", "open"}
    [] status = "scheduled" -> {"open"}
    [] status \in {"active", "paused"} -> {"pause", "resume", "close"}
    [] status = "results_ready" -> {"publish"}
    [] status \in {"none", "closed", "published"} -> {}

\* adminButtons
CardOffers(status) ==
  CASE status = "draft" -> {"schedule", "open"}
    [] status = "scheduled" -> {"open"}
    [] status = "active" -> {"pause", "close"}
    [] status = "paused" -> {"resume", "close"}
    [] status = "results_ready" -> {"publish"}
    [] status \in {"none", "closed", "published"} -> {}

Offers(s) ==
  IF page[s].shown = "none" THEN {}
  ELSE IF s \in Cards THEN CardOffers(page[s].shown) ELSE Actions

CountPress == past.presses < MaxPresses /\ past' = [past EXCEPT !.presses = @ + 1]

\* runAdminAction, doAction
Press(s, a) ==
  /\ a \in Offers(s) /\ ~page[s].busy
  /\ CountPress
  /\ page' = [page EXCEPT
       ![s].busy = TRUE, ![s].err = IF s \in Panels THEN FALSE ELSE @,
       ![s].told = IF s \in Cards THEN {} ELSE @,
       ![s].call = [NoCall EXCEPT !.at = "sent", !.action = a, !.shown = page[s].shown]]
  /\ UNCHANGED api

\* The refresh button; the panel's stays enabled during an action.
Refresh(s) ==
  /\ ~page[s].loading /\ (s \in Cards => ~page[s].busy)
  /\ CountPress
  /\ page' = [page EXCEPT ![s] = Reloading(@)]
  /\ UNCHANGED api

Refusals == {"not_found", "invalid_transition", "no_results", "unfit"}

\* The election of another organizer is not found; open also checks that the rule is
\* known, the committee, the parameters of the ballot and that they go together.
Answer(s, a) ==
  IF s \in Others THEN "not_found"
  ELSE IF api.status \notin ActionFrom[a] THEN "invalid_transition"
  ELSE IF a = "publish" /\ api.status = "closed" THEN "no_results"
  ELSE IF a = "open" /\ ~api.fit THEN "unfit" ELSE "taken"

\* Action
ServerActs(s) ==
  /\ page[s].call.at = "sent"
  /\ LET a == page[s].call.action
         taken == Answer(s, a) = "taken"
     IN /\ api' = IF taken THEN [api EXCEPT !.status = ActionTo[a]] ELSE api
        /\ past' = IF taken THEN [past EXCEPT !.done[s] = @ \cup {a}] ELSE past
        /\ page' = [page EXCEPT ![s].call.at = Answer(s, a),
                                ![s].call.stale = page[s].call.shown # api.status]

\* Mutant: a refusal is taken for success.
SucceededAnyhow(c) == c.at \in {"taken"} \cup Refusals

Succeeded(c) == c.at = "taken"

\* After success the page loads again, the panel having told of it already.
ActTaken(s) ==
  /\ Succeeded(page[s].call)
  /\ page' = [page EXCEPT ![s] =
       [Reloading(page[s]) EXCEPT !.call.at = "loading",
          !.told = IF s \in Panels THEN @ \cup {page[s].call.action} ELSE @]]
  /\ UNCHANGED <<api, past>>

ActRefused(s) ==
  /\ page[s].call.at \in Refusals \cup {"failed"}
  /\ page' = [page EXCEPT ![s].call = NoCall, ![s].busy = FALSE, ![s].err = TRUE]
  /\ UNCHANGED <<api, past>>

\* The load after an action is over, be it by another load.
ActEnds(s) ==
  /\ page[s].call.at = "loading" /\ page[s].runs = <<>>
  /\ page' = [page EXCEPT ![s].call = NoCall, ![s].busy = FALSE,
                          ![s].told = @ \cup {page[s].call.action}]
  /\ UNCHANGED <<api, past>>

\* GET /elections/{id}
ServerReads(s) ==
  /\ \E i \in DOMAIN page[s].runs :
       /\ page[s].runs[i] = "asked"
       /\ page' = [page EXCEPT ![s].runs[i] = api.status]
  /\ UNCHANGED <<api, past>>

LoadEnds(s) ==
  /\ \E i \in DOMAIN page[s].runs :
       /\ page[s].runs[i] # "asked"
       /\ page' = [page EXCEPT ![s].runs = RemoveAt(@, i), ![s].loading = FALSE,
                               ![s].shown = page[s].runs[i]]
  /\ UNCHANGED <<api, past>>

-----------------------------------------------------------------------------
\* No answer within the timeout: the action may have been carried out.
ActLost(s) ==
  /\ page[s].call.at \in {"sent", "taken"}
  /\ CountPress
  /\ page' = [page EXCEPT ![s].call.at = "failed"]
  /\ UNCHANGED api

LoadFailed(p) ==
  [p EXCEPT !.runs = <<>>, !.loading = FALSE, !.shown = "none", !.err = TRUE]

\* An AbortError is passed over, and the item stays.
LoadTimedOut(p) == [p EXCEPT !.runs = <<>>, !.loading = FALSE]

\* A load fails, or runs out of time.
LoadLost(s) ==
  /\ page[s].runs # <<>>
  /\ CountPress
  /\ \E after \in {LoadFailed(page[s]), LoadTimedOut(page[s])} :
       page' = [page EXCEPT ![s] = after]
  /\ UNCHANGED api

\* The worker's moves, see ElectionPipeline.
WorkerMoves ==
  /\ \E next \in {"closed", "results_ready", "published"} :
       /\ \/ api.status \in ActionFrom["close"] /\ next = "closed"
          \/ api.status = "closed" /\ next = "results_ready"
          \/ api.status = "results_ready" /\ next = "published"
       /\ api' = [api EXCEPT !.status = next]
  /\ UNCHANGED <<page, past>>

\* Rules and candidates are edited, and the compute service changes its rules.
OthersEdit ==
  /\ api.status \in {"draft", "scheduled"}
  /\ api' = [api EXCEPT !.fit = ~@]
  /\ UNCHANGED <<page, past>>

ScreenRuns(s) ==
  ServerActs(s) \/ ActTaken(s) \/ ActRefused(s) \/ ActEnds(s)
    \/ ServerReads(s) \/ LoadEnds(s)

Next ==
  \/ \E s \in Screens : \/ \E a \in Actions : Press(s, a)
                        \/ Refresh(s) \/ ScreenRuns(s) \/ ActLost(s) \/ LoadLost(s)
  \/ WorkerMoves \/ OthersEdit

-----------------------------------------------------------------------------
(* Properties.                                                             *)

TypeOK ==
  /\ api \in [status : ElectionStatus, fit : BOOLEAN]
  /\ \A s \in Screens : /\ page[s].shown \in ElectionStatus \cup {"none"}
                        /\ page[s].told \subseteq Actions /\ Len(page[s].runs) <= 1
                        /\ \A i \in DOMAIN page[s].runs :
                             page[s].runs[i] \in ElectionStatus \cup {"asked"}

\* What a page reports as carried out, the API has carried out for that page.
ToldWasDone == \A s \in Screens : page[s].told \subseteq past.done[s]

\* An action offered by the card is out of place only when the election has moved on
\* since the card was loaded: its buttons and the API's rules of transition agree.  It
\* can be refused otherwise: the card reads neither who made the election nor what open
\* checks besides the status.
CardRefusedOnlyIfStale ==
  \A s \in Cards : page[s].call.at \in {"invalid_transition", "no_results"} => page[s].call.stale

\* Pausing and resuming aside, the status only moves forward.
Rank == [draft |-> 0, scheduled |-> 1, active |-> 2, paused |-> 2, closed |-> 3,
         results_ready |-> 4, published |-> 5, none |-> 0]

\* No page ever goes back to an earlier status: the answer of a load that was
\* overtaken by another one is not shown.
ShownMovesForward ==
  \A s \in Screens :
    page[s].shown # "none" /\ page'[s].shown # "none" =>
      Rank[page[s].shown] <= Rank[page'[s].shown]
=============================================================================
