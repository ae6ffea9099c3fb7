--------------------------- MODULE BallotSubmission ---------------------------
(***************************************************************************)
(* POST /elections/{id}/ballots/submit for one voter of one election       *)
(* (internal/ballots/submit.go, idempotency.go): the look at the election, *)
(* the cached answer and the lock of the key in Redis, the insert in       *)
(* Postgres, each a call between which other requests run.                 *)
(*                                                                         *)
(* Requests with the same key carry the same ballot.  A fault is a failed  *)
(* call of Redis, a lock or cached answer that expires, or the death of a  *)
(* request together with its API process or connection.                    *)
(***************************************************************************)
EXTENDS Naturals, FiniteSets

CONSTANTS Requests, Keys, NoKey, KeyOf,
          MaxFaults  \* the bound on faults

VARIABLES
  api,    \* active: the election's status is "active";  ballot: the key whose
          \* ballot is recorded;  cached, locked: the keys whose answer and whose
          \* lock Redis keeps
  calls,  \* per request: pc, how far it has come;  code, what it will answer;
          \* after (history), the requests answered "ok" before it was sent
  past    \* history: faults, the number of faults

vars == <<api, calls, past>>

Stages == {"unsent", "status", "cache", "lock", "wait", "insert", "store", "unlock",
           "answered", "dead"}
Codes == {"none", "ok", "election_not_active", "idempotency_in_progress",
          "already_submitted"}

TypeOK ==
  /\ api \in [active : BOOLEAN, ballot : Keys \cup {NoKey}, cached : SUBSET Keys,
             locked : SUBSET Keys]
  /\ calls \in [Requests -> [pc : Stages, code : Codes, after : SUBSET Requests]]
  /\ past \in [faults : 0..MaxFaults]

Init ==
  /\ api = [active |-> TRUE, ballot |-> NoKey, cached |-> {}, locked |-> {}]
  /\ calls = [r \in Requests |-> [pc |-> "unsent", code |-> "none", after |-> {}]]
  /\ past = [faults |-> 0]

-----------------------------------------------------------------------------
At(r, stage) == calls[r].pc = stage
Go(r, stage) == calls' = [calls EXCEPT ![r].pc = stage]
Answer(r, c) == calls' = [calls EXCEPT ![r].pc = "answered", ![r].code = c]
GoTelling(r, stage, c) == calls' = [calls EXCEPT ![r].pc = stage, ![r].code = c]
Told(c) == {r \in Requests : At(r, "answered") /\ calls[r].code = c}

Send(r) ==
  /\ At(r, "unsent")
  /\ calls' = [calls EXCEPT ![r].pc = "status", ![r].after = Told("ok")]
  /\ UNCHANGED <<api, past>>

\* loadElectionVoteCfg; nothing looks at the status again.
CheckStatus(r) ==
  /\ At(r, "status")
  /\ IF api.active THEN Go(r, "cache") ELSE Answer(r, "election_not_active")
  /\ UNCHANGED <<api, past>>

\* Mutant: a cached answer is looked for only while waiting.
LookLater(r) == Go(r, "lock")

Look(r) == IF KeyOf[r] \in api.cached THEN Answer(r, "ok") ELSE Go(r, "lock")

ReadCache(r) == At(r, "cache") /\ Look(r) /\ UNCHANGED <<api, past>>

LockedOut(r) == KeyOf[r] \in api.locked

\* SETNX
TakeLock(r) ==
  /\ At(r, "lock")
  /\ IF LockedOut(r)
     THEN Go(r, "wait") /\ UNCHANGED api
     ELSE Go(r, "insert") /\ api' = [api EXCEPT !.locked = @ \cup {KeyOf[r]}]
  /\ UNCHANGED past

\* The loop over tryGetCached, and its end after two seconds.
FindAnswer(r) ==
  /\ At(r, "wait") /\ KeyOf[r] \in api.cached
  /\ Answer(r, "ok")
  /\ UNCHANGED <<api, past>>

GiveUp(r) ==
  /\ At(r, "wait")
  /\ Answer(r, "idempotency_in_progress")
  /\ UNCHANGED <<api, past>>

\* Mutant: the ballot on record is replaced whatever its status.
Replaced(r) == Go(r, "store") /\ api' = [api EXCEPT !.ballot = KeyOf[r]]

\* INSERT ... ON CONFLICT DO UPDATE ... WHERE status = 'draft': no code writes a
\* draft, so a ballot on record stays.
Inserted(r) ==
  IF api.ballot = NoKey
  THEN Go(r, "store") /\ api' = [api EXCEPT !.ballot = KeyOf[r]]
  ELSE GoTelling(r, "unlock", "already_submitted") /\ UNCHANGED api

Insert(r) == At(r, "insert") /\ Inserted(r) /\ UNCHANGED past

Cached(r) == api.cached \cup {KeyOf[r]}

\* cacheResp, after the commit.
Store(r) ==
  /\ At(r, "store")
  /\ api' = [api EXCEPT !.cached = Cached(r)]
  /\ GoTelling(r, "unlock", "ok")
  /\ UNCHANGED past

\* The deferred DEL, whoever holds the lock by now.
Unlock(r) ==
  /\ At(r, "unlock")
  /\ api' = [api EXCEPT !.locked = @ \ {KeyOf[r]}]
  /\ Go(r, "answered")
  /\ UNCHANGED past

-----------------------------------------------------------------------------
Fault == past.faults < MaxFaults /\ past' = [past EXCEPT !.faults = @ + 1]

\* A GET that fails is a miss, a SETNX that fails leads to waiting, an answer
\* that is not stored or a lock that is not deleted is not noticed.
RedisFails(r) ==
  /\ Fault
  /\ \/ At(r, "cache") /\ Go(r, "lock")
     \/ At(r, "lock") /\ Go(r, "wait")
     \/ At(r, "store") /\ GoTelling(r, "unlock", "ok")
     \/ At(r, "unlock") /\ Go(r, "answered")
  /\ UNCHANGED api

Dies(r) ==
  /\ Fault
  /\ calls[r].pc \notin {"unsent", "answered", "dead"}
  /\ Go(r, "dead")
  /\ UNCHANGED api

\* IDEMPOTENCY_TTL
AnswerExpires(k) ==
  /\ Fault
  /\ k \in api.cached
  /\ api' = [api EXCEPT !.cached = @ \ {k}]
  /\ UNCHANGED calls

\* Mutant: a lock without a time to live.
ForEver(k) == FALSE

Expirable(k) == k \in api.locked

\* After 15 s; a fault when the request that took it still runs.
LockExpires(k) ==
  /\ Expirable(k)
  /\ api' = [api EXCEPT !.locked = @ \ {k}]
  /\ IF \E r \in Requests :
          KeyOf[r] = k /\ calls[r].pc \in {"insert", "store", "unlock"}
     THEN Fault ELSE UNCHANGED past
  /\ UNCHANGED calls

Close ==
  /\ api.active
  /\ api' = [api EXCEPT !.active = FALSE]
  /\ UNCHANGED <<calls, past>>

RequestStep(r) ==
  \/ CheckStatus(r) \/ ReadCache(r) \/ TakeLock(r) \/ FindAnswer(r) \/ GiveUp(r)
  \/ Insert(r) \/ Store(r) \/ Unlock(r)

Next ==
  \/ \E r \in Requests : Send(r) \/ RequestStep(r) \/ RedisFails(r) \/ Dies(r)
  \/ \E k \in Keys : AnswerExpires(k) \/ LockExpires(k)
  \/ Close

Spec == Init /\ [][Next]_vars

-----------------------------------------------------------------------------
(* Properties.                                                             *)

BoxAnswer == [r \in Requests |->
  CASE At(r, "dead") -> "other"
    [] ~At(r, "dead") /\ ~At(r, "answered") -> "none"
    [] At(r, "answered") -> IF calls[r].code = "ok" THEN "ok" ELSE "other"]

Box == INSTANCE BallotBox WITH ballot <- api.ballot, answer <- BoxAnswer

\* A step of the box, or none.
BoxStep == [Box!BoxNext]_(Box!boxVars)

\* A request repeated after the same one was answered "ok" is answered "ok"
\* again while the election is open, unless a fault came between.
RepeatIsOkAgain ==
  \A r \in Requests :
    (\E q \in calls[r].after : KeyOf[q] = KeyOf[r])
      /\ At(r, "answered") /\ api.active /\ past.faults = 0 => calls[r].code = "ok"
=============================================================================
