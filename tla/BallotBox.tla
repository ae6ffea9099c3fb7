------------------------------- MODULE BallotBox -------------------------------
(***************************************************************************)
(* What submitting a ballot promises, one voter in one election: the first *)
(* ballot recorded is never replaced or removed, and a request is told     *)
(* "ok" only if the recorded ballot is its own.                            *)
(***************************************************************************)
CONSTANTS Requests, Keys, NoKey,
          KeyOf   \* the Idempotency-Key of a request, which names its ballot

VARIABLES ballot, answer

boxVars == <<ballot, answer>>

BoxInit == ballot = NoKey /\ answer = [r \in Requests |-> "none"]

Record(r) ==
  /\ ballot = NoKey /\ answer[r] = "none"
  /\ ballot' = KeyOf[r]
  /\ UNCHANGED answer

TellAccepted(r) ==
  /\ ballot = KeyOf[r] /\ answer[r] = "none"
  /\ answer' = [answer EXCEPT ![r] = "ok"]
  /\ UNCHANGED ballot

\* An error, or no answer at all, promises nothing.
TellOther(r) ==
  /\ answer[r] = "none"
  /\ answer' = [answer EXCEPT ![r] = "other"]
  /\ UNCHANGED ballot

BoxNext == \E r \in Requests : Record(r) \/ TellAccepted(r) \/ TellOther(r)

BoxSpec == BoxInit /\ [][BoxNext]_boxVars
=============================================================================
