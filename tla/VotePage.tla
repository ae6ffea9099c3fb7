------------------------------- MODULE VotePage -------------------------------
(***************************************************************************)
(* VotePage.tsx in several tabs of one voter: loading the page, sending    *)
(* the ballot, and what happens when the access token is rotated meanwhile.*)
(* What the ballot says is BallotForm's matter; the API records it as      *)
(* BallotSubmission does for a fresh key, in one step here because every   *)
(* press has a key of its own.                                             *)
(*                                                                         *)
(* The tabs share one session, so a rotation by one of them ends the token *)
(* of the others, and of requests already sent.                            *)
(***************************************************************************)
EXTENDS Naturals, Sequences, FiniteSets

CONSTANTS
  Tabs,
  MaxPresses,    \* the bound on presses of the submit button
  MaxRotations,  \* the bound on rotations of the token
  MaxEvents      \* the bound on presses of the refresh button and lost answers

VARIABLES
  api,    \* open: the election is active;  ballot: the press whose ballot is
          \* recorded, 0 for none;  session: the access token the API accepts
  page,   \* the state of the page, per tab
  calls,  \* the presses of the submit button, oldest first
  past    \* history: events, the number of refreshes and lost answers

vars == <<api, page, calls, past>>

NoRun == [at |-> "none", token |-> 0, my |-> "none"]
Asked(token) == [at |-> "asked", token |-> token, my |-> "none"]

\* token   0 once the voter is signed out and the page gone
\* form    meta is loaded and the ballot shown
\* run     the reload under way, with the token it was called with
\* stale   an aborted reload has yet to end
\* silent  history: the last reload ran out of time and changed nothing
Page == [token : Nat, loading : BOOLEAN, form : BOOLEAN,
         my : {"unknown", "none", "accepted"},
         err : {"none", "load", "already", "unavailable", "failed"},
         run : [at : {"none", "asked", "ok", "denied", "failed", "aborted"},
                token : Nat, my : {"none", "accepted"}],
         stale : BOOLEAN, silent : BOOLEAN]

Press == [tab : Tabs, token : Nat,
          at : {"sent", "ok", "already", "closed", "denied", "failed", "ended",
                "noticed"}]

TypeOK ==
  /\ api \in [open : BOOLEAN, ballot : 0..Len(calls), session : 1..(MaxRotations + 1)]
  /\ page \in [Tabs -> Page]
  /\ calls \in Seq(Press)
  /\ past \in [events : 0..MaxEvents]

Opened == [token |-> 1, loading |-> TRUE, form |-> FALSE, my |-> "unknown",
           err |-> "none", run |-> Asked(1), stale |-> FALSE,
           silent |-> FALSE]

Init ==
  /\ api = [open |-> TRUE, ballot |-> 0, session |-> 1]
  /\ page = [t \in Tabs |-> Opened]
  /\ calls = <<>>
  /\ past = [events |-> 0]

-----------------------------------------------------------------------------
\* setToken(null): RequireAuth takes the page away.
SignedOut(p) == [p EXCEPT !.token = 0]

Loaded(p) ==
  [p EXCEPT !.form = TRUE, !.my = p.run.my, !.run = NoRun, !.loading = FALSE]

LoadFailed(p) ==
  [p EXCEPT !.form = FALSE, !.my = "unknown", !.err = "load", !.run = NoRun,
            !.loading = FALSE]

\* An AbortError, which is what a request out of time ends with, is passed over:
\* what was shown stays.
LoadTimedOut(p) == [p EXCEPT !.silent = TRUE, !.run = NoRun, !.loading = FALSE]

\* reload aborts the run before it, which ends on its own.
Reloading(p, token) ==
  [p EXCEPT !.stale = @ \/ p.run.at # "none", !.run = Asked(token),
            !.loading = TRUE, !.err = "none", !.silent = FALSE]

Present(t) == page[t].token # 0

Event == past.events < MaxEvents /\ past' = [past EXCEPT !.events = @ + 1]

PressRefresh(t) ==
  /\ Present(t) /\ ~page[t].loading
  /\ Event
  /\ page' = [page EXCEPT ![t] = Reloading(@, page[t].token)]
  /\ UNCHANGED <<api, calls>>

\* GET .../ballot and GET .../ballots/me.
ServerLoads(t) ==
  /\ Present(t) /\ page[t].run.at = "asked"
  /\ page' = [page EXCEPT
       ![t].run.at = IF page[t].run.token = api.session THEN "ok" ELSE "denied",
       ![t].run.my = IF api.ballot = 0 THEN "none" ELSE "accepted"]
  /\ UNCHANGED <<api, calls, past>>

ReloadEnds(t) ==
  /\ Present(t)
  /\ \/ page[t].run.at = "ok" /\ page' = [page EXCEPT ![t] = Loaded(@)]
     \/ page[t].run.at = "failed" /\ page' = [page EXCEPT ![t] = LoadFailed(@)]
     \/ page[t].run.at = "aborted" /\ page' = [page EXCEPT ![t] = LoadTimedOut(@)]
     \/ page[t].run.at = "denied" /\ page' = [page EXCEPT ![t] = SignedOut(@)]
  /\ UNCHANGED <<api, calls, past>>

\* The finally block of an aborted run, whatever runs by then.
AbortedRunEnds(t) ==
  /\ Present(t) /\ page[t].stale
  /\ page' = [page EXCEPT ![t].stale = FALSE, ![t].loading = FALSE]
  /\ UNCHANGED <<api, calls, past>>

-----------------------------------------------------------------------------
Sending(p) == [p EXCEPT !.loading = TRUE, !.err = "none"]

\* submit: the button is enabled and the ballot passes validateBeforeSubmit.
PressSubmit(t) ==
  /\ Present(t) /\ page[t].form /\ ~page[t].loading /\ page[t].my # "accepted"
  /\ Len(calls) < MaxPresses
  /\ page' = [page EXCEPT ![t] = Sending(@)]
  /\ calls' = Append(calls, [tab |-> t, token |-> page[t].token, at |-> "sent"])
  /\ UNCHANGED <<api, past>>

\* Mutant: a ballot on record is replaced.
VerdictReplacing(i) ==
  IF calls[i].token # api.session THEN "denied"
  ELSE IF ~api.open THEN "closed" ELSE "ok"

Verdict(i) ==
  IF calls[i].token # api.session THEN "denied"
  ELSE IF ~api.open THEN "closed"
  ELSE IF api.ballot # 0 THEN "already" ELSE "ok"

ServerSubmits(i) ==
  /\ calls[i].at = "sent"
  /\ calls' = [calls EXCEPT ![i].at = Verdict(i)]
  /\ api' = IF Verdict(i) = "ok" THEN [api EXCEPT !.ballot = i] ELSE api
  /\ UNCHANGED <<page, past>>

\* Mutant: after success the page is left as it is.
AfterSuccess(p, token) == [p EXCEPT !.loading = FALSE]

\* submit awaits the reload of the render it was pressed in, whose token may have
\* been replaced since.
Recorded(p, token) == Reloading(p, token)

ErrorOf == [already |-> "already", closed |-> "unavailable", failed |-> "failed"]

\* The end of submit; a page that is gone takes no notice, the list of
\* notifications does.
SubmitEnds(i) ==
  LET t == calls[i].tab
      how == calls[i].at
  IN /\ how \in {"ok", "already", "closed", "denied", "failed"}
     /\ calls' = [calls EXCEPT ![i].at = IF how = "ok" THEN "noticed" ELSE "ended"]
     /\ page' = [page EXCEPT ![t] =
          IF ~Present(t) THEN @
          ELSE IF how = "ok" THEN Recorded(@, calls[i].token)
          ELSE IF how = "denied" THEN SignedOut(@)
          ELSE [@ EXCEPT !.err = ErrorOf[how], !.loading = FALSE]]
     /\ UNCHANGED <<api, past>>

-----------------------------------------------------------------------------
\* AuthProvider's refresh: reload and its effect depend on the token.
Rotate(t) ==
  /\ page[t].token = api.session /\ api.session <= MaxRotations
  /\ api' = [api EXCEPT !.session = @ + 1]
  /\ page' = [page EXCEPT ![t] = [Reloading(@, api.session + 1) EXCEPT
                                       !.token = api.session + 1]]
  /\ UNCHANGED <<calls, past>>

Close ==
  /\ api.open
  /\ api' = [api EXCEPT !.open = FALSE]
  /\ UNCHANGED <<page, calls, past>>

\* A load fails, or runs out of time.
LoadLost(t) ==
  /\ Event
  /\ page[t].run.at \in {"asked", "ok", "denied"}
  /\ \E how \in {"failed", "aborted"} : page' = [page EXCEPT ![t].run.at = how]
  /\ UNCHANGED <<api, calls>>

\* Lost before or after the API ran it.
SubmitLost(i) ==
  /\ Event
  /\ calls[i].at \in {"sent", "ok", "already"}
  /\ calls' = [calls EXCEPT ![i].at = "failed"]
  /\ UNCHANGED <<api, page>>

Next ==
  \/ \E t \in Tabs : PressRefresh(t) \/ ServerLoads(t) \/ ReloadEnds(t)
       \/ AbortedRunEnds(t) \/ PressSubmit(t) \/ Rotate(t) \/ LoadLost(t)
  \/ \E i \in DOMAIN calls : ServerSubmits(i) \/ SubmitEnds(i) \/ SubmitLost(i)
  \/ Close

\* Requests are answered or time out, and handlers run.
LoadProgress(t) == ServerLoads(t) \/ ReloadEnds(t)
PressProgress(i) == i \in DOMAIN calls /\ (ServerSubmits(i) \/ SubmitEnds(i))

-----------------------------------------------------------------------------
(* Properties.                                                             *)

\* The voter is told of success for the ballot that is on record and for no
\* other, however many tabs, presses and rotations there were.
NoticeIsForTheRecordedBallot ==
  \A i \in DOMAIN calls : calls[i].at \in {"ok", "noticed"} => api.ballot = i

\* A page whose ballot was recorded stops offering it: it shows it as counted,
\* or cannot be loaded, or the voter is signed out.  A reload that ran out of time
\* leaves the ballot on offer, without a word.
Noticed(i, t) == i \in DOMAIN calls /\ calls[i].tab = t /\ calls[i].at = "noticed"
NoLongerOffered(t) == page[t].my = "accepted" \/ ~page[t].form \/ ~Present(t)
RanOutOfTime(t) == page[t].silent
=============================================================================
