-------------------------- MODULE ElectionLifecycle --------------------------
(***************************************************************************)
(* What the platform promises about an election, with no jobs, no queues   *)
(* and no processes: a status that walks along the lifecycle, and          *)
(* numbered result versions that exist only after the close.               *)
(* ElectionPipeline is shown to implement this specification.              *)
(***************************************************************************)
EXTENDS Naturals, LifecycleRules

CONSTANT Elections

VARIABLES
  status,    \* elections.status
  versions,  \* how many results rows the election has; they are never removed
  stamped    \* the versions whose published_at is set

lifecycleVars == <<status, versions, stamped>>

LifecycleInit ==
  /\ status = [e \in Elections |-> "draft"]
  /\ versions = [e \in Elections |-> 0]
  /\ stamped = [e \in Elections |-> {}]

\* An administrator moves an election on.
Move(e, action) ==
  /\ status[e] \in ActionFrom[action]
  /\ status' = [status EXCEPT ![e] = ActionTo[action]]
  /\ UNCHANGED <<versions, stamped>>

\* Voting ends for some elections, once and for all.
CloseSome(es) ==
  /\ \A e \in es : status[e] \in ActionFrom["close"]
  /\ status' = [e \in Elections |-> IF e \in es THEN "closed" ELSE status[e]]
  /\ UNCHANGED <<versions, stamped>>

\* A tally stores one more result version, only of an election that has closed;
\* the first version makes its results ready.
StoreResult(e) ==
  /\ status[e] \in PostClose
  /\ versions' = [versions EXCEPT ![e] = @ + 1]
  /\ status' = [status EXCEPT ![e] = IF @ = "closed" THEN "results_ready" ELSE @]
  /\ UNCHANGED stamped

\* Publication stamps the newest version of each election it publishes and
\* leaves every earlier stamp alone.
PublishSome(es) ==
  /\ \A e \in es : status[e] = "results_ready" /\ versions[e] > 0
  /\ status' = [e \in Elections |-> IF e \in es THEN "published" ELSE status[e]]
  /\ stamped' = [e \in Elections |->
                   IF e \in es THEN stamped[e] \cup {versions[e]} ELSE stamped[e]]
  /\ UNCHANGED versions

LifecycleNext ==
  \/ \E e \in Elections, a \in PlainActions : Move(e, a)
  \/ \E es \in SUBSET Elections : CloseSome(es) \/ PublishSome(es)
  \/ \E e \in Elections : StoreResult(e)

LifecycleSpec == LifecycleInit /\ [][LifecycleNext]_lifecycleVars
=============================================================================
