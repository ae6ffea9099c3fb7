----------------------------- MODULE KafkaTopic -----------------------------
(***************************************************************************)
(* A Kafka topic as the worker and the compute runner use it (external:    *)
(* the broker and the kafka-go client are not part of the repository).     *)
(*                                                                         *)
(* Both topics are created with one partition and are read by one consumer *)
(* of one group, with explicit commits.  A topic is therefore an append-   *)
(* only log together with two positions of its consumer: pos, how many     *)
(* messages this process has fetched since it joined the group, and        *)
(* committed, where a process that joins the group resumes.                *)
(***************************************************************************)
EXTENDS Naturals, Sequences

EmptyTopic == [log |-> <<>>, pos |-> 0, committed |-> 0]

Topic(Message) == [log : Seq(Message), pos : Nat, committed : Nat]

\* The positions of a topic's consumer stay inside the log, and the commit
\* never runs ahead of what this process fetched.
TopicPositions(t) == t.committed <= t.pos /\ t.pos <= Len(t.log)

\* WriteMessages of the producer.  kafka-go retries a batch whose
\* acknowledgement is lost, so one call may append its message twice, or
\* append it and still report an error.
Write(t, m, copies) ==
  [t EXCEPT !.log = @ \o [i \in 1..copies |-> m]]

\* FetchMessage of the consumer: it hands out the next message of the log
\* whether or not the previous one was committed.
HasNext(t) == t.pos < Len(t.log)
NextMessage(t) == t.log[t.pos + 1]
\* Mutant: ReadMessage in place of FetchMessage, which commits at once.
FetchAndCommit(t) == [t EXCEPT !.pos = @ + 1, !.committed = t.pos + 1]
Fetch(t) == [t EXCEPT !.pos = @ + 1]

\* CommitMessages of the message fetched last: it commits that offset and,
\* with it, every earlier one.
Commit(t) == [t EXCEPT !.committed = t.pos]

\* The consumer restarts (or is rebalanced) and resumes where it committed.
Rejoin(t) == [t EXCEPT !.pos = t.committed]
=============================================================================
