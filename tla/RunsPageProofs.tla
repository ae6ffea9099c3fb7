---------------------------- MODULE RunsPageProofs ----------------------------
(***************************************************************************)
(* Theorems about the page of runs, for any runs and bounds, and the       *)
(* lemmas on lists that pages share.                                       *)
(*                                                                         *)
(* ExperimentRuns: every end of a run that the statuses read so far let    *)
(* the page announce is one the run has had.                               *)
(***************************************************************************)
EXTENDS Integers, Sequences, FiniteSets, SequenceTheorems, FiniteSetTheorems,
        WellFoundedInduction, PickedLists, TLAPS

CONSTANTS
  Runs, Experiments, ExperimentOf, First, Autos, MaxAnswers, MaxLoads, MaxOpens
                              \* see ExperimentRuns

VARIABLES page, api, past

RunsPage == INSTANCE ExperimentRuns

-----------------------------------------------------------------------------
Flag == BOOLEAN

LEMMA Flags == TRUE \in Flag /\ FALSE \in Flag /\ \A x, y : (x = y) \in Flag /\ (x # y) \in Flag
BY DEF Flag

\* What is true or false is a flag.
LEMMA Truths ==
  ASSUME NEW x, NEW y PROVE (x /\ y) \in Flag /\ (x \/ y) \in Flag /\ (~x) \in Flag
BY Zenon DEF Flag

-----------------------------------------------------------------------------
(* PickedLists.                                                            *)

\* Induction over the natural numbers, for sets.
Less == {p \in Nat \X Nat : p[1] < p[2]}

LEMMA NatSetInduction ==
  ASSUME NEW S, 0 \in S, \A n \in Nat : n \in S => n + 1 \in S
  PROVE  Nat \subseteq S
<1> DEFINE Missing == Nat \ S
<1>1. IsWellFoundedOn(Less, Nat)
  BY NatLessThanWellFounded DEF OpToRel, Less
<1> SUFFICES ASSUME Missing # {} PROVE FALSE OBVIOUS
<1>2. PICK m \in Missing : ~ \E y \in Missing : <<y, m>> \in Less
  <2>1. Missing \subseteq Nat OBVIOUS
  <2> HIDE DEF Missing
  <2> QED BY <1>1, <2>1, WFMin
<1>3. m # 0 /\ m \in Nat OBVIOUS
<1>4. m - 1 \in Nat /\ m - 1 < m /\ (m - 1) + 1 = m BY <1>3
<1>5. <<m - 1, m>> \in Less BY <1>3, <1>4 DEF Less
<1>6. m - 1 \in S BY <1>2, <1>4, <1>5
<1> QED BY <1>4, <1>6

\* g lists, for each prefix of s, the texts at the places in P.
PicksUpTo(g, s, P) ==
  g = [i \in 0..Len(s) |-> IF i = 0 THEN <<>>
                           ELSE IF i \in P THEN Append(g[i - 1], s[i]) ELSE g[i - 1]]

\* There is such a g: it is built from the lists of places, longer and longer.
LEMMA PicksExist == ASSUME NEW S, NEW s \in Seq(S), NEW P PROVE \E g : PicksUpTo(g, s, P)
<1> DEFINE Part(g, n) == /\ DOMAIN g = 0..n /\ g = [i \in 0..n |-> g[i]]
                         /\ \A i \in 0..n : g[i] = IF i = 0 THEN <<>> ELSE
                              IF i \in P THEN Append(g[i - 1], s[i]) ELSE g[i - 1]
           G == {n \in Nat : \E g : Part(g, n)}
<1>1. 0 \in G
  <2>1. Part([i \in 0..0 |-> <<>>], 0) OBVIOUS
  <2> QED BY <2>1
<1>2. ASSUME NEW n \in Nat, n \in G PROVE n + 1 \in G
  <2>1. PICK g : Part(g, n) BY <1>2
  <2> DEFINE x == IF n + 1 \in P THEN Append(g[n], s[n + 1]) ELSE g[n]
             h == [i \in 0..(n + 1) |-> IF i = n + 1 THEN x ELSE g[i]]
  <2>2. \A i \in 0..(n + 1) : h[i] = IF i = 0 THEN <<>> ELSE
                                IF i \in P THEN Append(h[i - 1], s[i]) ELSE h[i - 1]
    <3> SUFFICES ASSUME NEW i \in 0..(n + 1)
                 PROVE  h[i] = IF i = 0 THEN <<>> ELSE
                                 IF i \in P THEN Append(h[i - 1], s[i]) ELSE h[i - 1]
      OBVIOUS
    <3>1. CASE i = n + 1
      <4>1. i # 0 /\ i - 1 = n /\ n \in 0..(n + 1) /\ n # n + 1 BY <3>1
      <4>2. h[i] = x /\ h[n] = g[n] BY <3>1, <4>1
      <4> QED BY <3>1, <4>1, <4>2
    <3>2. CASE i = 0
      <4>1. h[i] = g[i] /\ i \in 0..n BY <3>2
      <4> QED BY <3>2, <4>1, <2>1
    <3>3. CASE i \in 1..n
      <4>1. i \in 0..n /\ i - 1 \in 0..n /\ i # n + 1 /\ i - 1 # n + 1 /\ i # 0
            /\ i - 1 \in 0..(n + 1)
        BY <3>3
      <4>2. h[i] = g[i] /\ h[i - 1] = g[i - 1] BY <4>1
      <4>3. g[i] = IF i \in P THEN Append(g[i - 1], s[i]) ELSE g[i - 1] BY <2>1, <4>1
      <4> QED BY <4>1, <4>2, <4>3
    <3> QED BY <3>1, <3>2, <3>3
  <2>3. DOMAIN h = 0..(n + 1) /\ h = [i \in 0..(n + 1) |-> h[i]] OBVIOUS
  <2>4. Part(h, n + 1)
    <3> HIDE DEF h
    <3> QED BY <2>2, <2>3
  <2> HIDE DEF Part
  <2> QED BY <2>4
<1>3. Nat \subseteq G
  <2> HIDE DEF G
  <2> QED BY <1>1, <1>2, NatSetInduction
<1>4. Len(s) \in Nat OBVIOUS
<1>5. PICK g : Part(g, Len(s)) BY <1>3, <1>4
<1>6. g = [i \in 0..Len(s) |-> g[i]] BY <1>5
<1>7. PicksUpTo(g, s, P) BY <1>5, <1>6 DEF PicksUpTo
<1> QED BY <1>7

LEMMA PickedIs ==
  ASSUME NEW S, NEW s \in Seq(S), NEW P
  PROVE  \E g : /\ Picked(s, P) = g[Len(s)] /\ g[0] = <<>>
                /\ \A i \in 1..Len(s) :
                     g[i] = IF i \in P THEN Append(g[i - 1], s[i]) ELSE g[i - 1]
<1> DEFINE f == CHOOSE g : PicksUpTo(g, s, P)
<1>1. PicksUpTo(f, s, P) BY PicksExist
<1>2. Picked(s, P) = f[Len(s)] BY DEF Picked, PicksUpTo
<1> HIDE DEF f
<1>3. Len(s) \in Nat OBVIOUS
<1>4. \A i \in 0..Len(s) : f[i] = IF i = 0 THEN <<>> ELSE
                             IF i \in P THEN Append(f[i - 1], s[i]) ELSE f[i - 1]
  BY <1>1 DEF PicksUpTo
<1>5. f[0] = <<>> BY <1>3, <1>4
<1>6. \A i \in 1..Len(s) : f[i] = IF i \in P THEN Append(f[i - 1], s[i]) ELSE f[i - 1]
  BY <1>3, <1>4
<1> QED BY <1>2, <1>5, <1>6

\* The texts at the places in P and those at the other places make up the list.
LEMMA PickedAddUp ==
  ASSUME NEW S, NEW s \in Seq(S), NEW P
  PROVE  /\ Picked(s, P) \in Seq(S)
         /\ Len(Picked(s, P)) + Len(Picked(s, DOMAIN s \ P)) = Len(s)
<1> DEFINE N == Len(s)
           Q == DOMAIN s \ P
<1>1. N \in Nat /\ DOMAIN s = 1..N /\ \A i \in 1..N : s[i] \in S OBVIOUS
<1>2. PICK g : /\ Picked(s, P) = g[N] /\ g[0] = <<>>
               /\ \A i \in 1..N : g[i] = IF i \in P THEN Append(g[i - 1], s[i]) ELSE g[i - 1]
  BY PickedIs
<1>3. PICK h : /\ Picked(s, Q) = h[N] /\ h[0] = <<>>
               /\ \A i \in 1..N : h[i] = IF i \in Q THEN Append(h[i - 1], s[i]) ELSE h[i - 1]
  BY PickedIs
<1> DEFINE Good(i) == /\ g[i] \in Seq(S) /\ h[i] \in Seq(S)
                      /\ Len(g[i]) + Len(h[i]) = i
           G == {i \in Nat : i \in 0..N => Good(i)}
<1>4. 0 \in G
  <2>1. g[0] \in Seq(S) /\ h[0] \in Seq(S) /\ Len(g[0]) + Len(h[0]) = 0
    BY <1>2, <1>3
  <2> QED BY <2>1
<1>5. ASSUME NEW i \in Nat, i \in G PROVE i + 1 \in G
  <2> SUFFICES ASSUME i + 1 \in 0..N PROVE Good(i + 1)
    <3> HIDE DEF Good
    <3> QED OBVIOUS
  <2>1. i \in 0..N /\ i + 1 \in 1..N /\ (i + 1) - 1 = i BY <1>1
  <2>2. Good(i) BY <1>5, <2>1
  <2>3. /\ g[i + 1] = IF i + 1 \in P THEN Append(g[i], s[i + 1]) ELSE g[i]
        /\ h[i + 1] = IF i + 1 \in Q THEN Append(h[i], s[i + 1]) ELSE h[i]
    BY <1>2, <1>3, <2>1
  <2>4. (i + 1 \in Q) = (i + 1 \notin P) /\ s[i + 1] \in S BY <1>1, <2>1
  <2> HIDE DEF Q
  <2> DEFINE a == g[i]
             b == h[i]
             x == s[i + 1]
  <2>5. a \in Seq(S) /\ b \in Seq(S) /\ x \in S /\ Len(a) + Len(b) = i
    BY <2>2, <2>4
  <2> HIDE DEF a, b, x
  <2>6. /\ Append(a, x) \in Seq(S) /\ Len(Append(a, x)) = Len(a) + 1
        /\ Append(b, x) \in Seq(S) /\ Len(Append(b, x)) = Len(b) + 1
        /\ Len(a) \in Nat /\ Len(b) \in Nat
    BY <2>5
  <2> DEFINE m == Len(a)
             n == Len(b)
  <2>9. m \in Nat /\ n \in Nat /\ m + n = i BY <2>5, <2>6
  <2>7. CASE i + 1 \in P
    <3>1. g[i + 1] = Append(a, x) /\ h[i + 1] = b BY <2>3, <2>4, <2>7 DEF a, b, x
    <3>2. /\ g[i + 1] \in Seq(S) /\ h[i + 1] \in Seq(S)
          /\ Len(g[i + 1]) = m + 1 /\ Len(h[i + 1]) = n
      BY <3>1, <2>5, <2>6
    <3> HIDE DEF m, n
    <3>3. (m + 1) + n = i + 1 BY <2>9
    <3> QED BY <3>2, <3>3
  <2>8. CASE i + 1 \notin P
    <3>1. g[i + 1] = a /\ h[i + 1] = Append(b, x) BY <2>3, <2>4, <2>8 DEF a, b, x
    <3>2. /\ g[i + 1] \in Seq(S) /\ h[i + 1] \in Seq(S)
          /\ Len(g[i + 1]) = m /\ Len(h[i + 1]) = n + 1
      BY <3>1, <2>5, <2>6
    <3> HIDE DEF m, n
    <3>3. m + (n + 1) = i + 1 BY <2>9
    <3> QED BY <3>2, <3>3
  <2> QED BY <2>7, <2>8
<1>6. Nat \subseteq G
  <2> HIDE DEF G
  <2> QED BY <1>4, <1>5, NatSetInduction
<1>7. Good(N)
  <2>1. N \in 0..N /\ N \in Nat BY <1>1
  <2> HIDE DEF Good, N
  <2>2. N \in G BY <1>6, <2>1
  <2> QED BY <2>1, <2>2
<1> HIDE DEF N, Q
<1>8. Picked(s, P) \in Seq(S) /\ Len(Picked(s, P)) + Len(Picked(s, Q)) = N
  BY <1>2, <1>3, <1>7
<1> QED BY <1>8 DEF N, Q


\* What is picked are entries at the places in P.
LEMMA PickedOf ==
  ASSUME NEW S, NEW s \in Seq(S), NEW P
  PROVE  Picked(s, P) \in Seq({s[i] : i \in P \cap DOMAIN s})
<1> DEFINE N == Len(s)
           T == {s[i] : i \in P \cap DOMAIN s}
<1>1. N \in Nat /\ DOMAIN s = 1..N OBVIOUS
<1>2. PICK g : /\ Picked(s, P) = g[N] /\ g[0] = <<>>
               /\ \A i \in 1..N : g[i] = IF i \in P THEN Append(g[i - 1], s[i]) ELSE g[i - 1]
  BY PickedIs
<1>3. \A i \in 1..N : i \in P => s[i] \in T BY <1>1
<1> HIDE DEF T
<1> DEFINE G == {i \in Nat : i \in 0..N => g[i] \in Seq(T)}
<1>4. 0 \in G
  <2>1. <<>> \in Seq(T) OBVIOUS
  <2> QED BY <2>1, <1>2
<1>5. ASSUME NEW i \in Nat, i \in G PROVE i + 1 \in G
  <2> SUFFICES ASSUME i + 1 \in 0..N PROVE g[i + 1] \in Seq(T) OBVIOUS
  <2>1. i \in 0..N /\ i + 1 \in 1..N /\ (i + 1) - 1 = i BY <1>1
  <2>2. g[i] \in Seq(T) BY <1>5, <2>1
  <2>3. g[i + 1] = IF i + 1 \in P THEN Append(g[i], s[i + 1]) ELSE g[i] BY <1>2, <2>1
  <2> DEFINE a == g[i]
             x == s[i + 1]
  <2>4. CASE i + 1 \in P
    <3>1. x \in T BY <1>3, <2>1, <2>4
    <3>2. g[i + 1] = Append(a, x) /\ a \in Seq(T) BY <2>2, <2>3, <2>4
    <3> HIDE DEF a, x
    <3>3. Append(a, x) \in Seq(T) BY <3>1, <3>2
    <3> QED BY <3>2, <3>3
  <2>5. CASE i + 1 \notin P BY <2>2, <2>3, <2>5
  <2> QED BY <2>4, <2>5
<1>6. Nat \subseteq G
  <2> HIDE DEF G
  <2> QED BY <1>4, <1>5, NatSetInduction
<1>7. N \in 0..N /\ N \in G BY <1>1, <1>6
<1> QED BY <1>2, <1>7 DEF T

\* Where a place is picked, something is left.
LEMMA PickedSome ==
  ASSUME NEW S, NEW s \in Seq(S), NEW P, NEW k \in P \cap DOMAIN s
  PROVE  Picked(s, P) # <<>>
<1> DEFINE N == Len(s)
<1>1. N \in Nat /\ DOMAIN s = 1..N /\ \A i \in 1..N : s[i] \in S OBVIOUS
<1>2. PICK g : /\ Picked(s, P) = g[N] /\ g[0] = <<>>
               /\ \A i \in 1..N : g[i] = IF i \in P THEN Append(g[i - 1], s[i]) ELSE g[i - 1]
  BY PickedIs
<1> DEFINE Good(i) == g[i] \in Seq(S) /\ (k <= i => g[i] # <<>>)
           G == {i \in Nat : i \in 0..N => Good(i)}
<1>3. k \in 1..N /\ k \in P BY <1>1
<1>4. 0 \in G
  <2>1. g[0] \in Seq(S) /\ ~(k <= 0) BY <1>2, <1>3
  <2> QED BY <2>1
<1>5. ASSUME NEW i \in Nat, i \in G PROVE i + 1 \in G
  <2> SUFFICES ASSUME i + 1 \in 0..N PROVE Good(i + 1)
    <3> HIDE DEF Good
    <3> QED OBVIOUS
  <2>1. i \in 0..N /\ i + 1 \in 1..N /\ (i + 1) - 1 = i BY <1>1
  <2>2. Good(i) BY <1>5, <2>1
  <2>3. g[i + 1] = IF i + 1 \in P THEN Append(g[i], s[i + 1]) ELSE g[i] BY <1>2, <2>1
  <2> DEFINE a == g[i]
             x == s[i + 1]
  <2>4. x \in S /\ a \in Seq(S) /\ (k <= i => a # <<>>) BY <1>1, <2>1, <2>2
  <2>5. g[i + 1] = a \/ g[i + 1] = Append(a, x) BY <2>3
  <2>6. k = i + 1 => g[i + 1] = Append(a, x) BY <1>3, <2>3
  <2>7. k <= i + 1 => k <= i \/ k = i + 1 BY <1>3
  <2> HIDE DEF a, x
  <2>8. Append(a, x) \in Seq(S) /\ Append(a, x) # <<>> BY <2>4
  <2>9. g[i + 1] \in Seq(S) BY <2>4, <2>5, <2>8
  <2>10. k <= i + 1 => g[i + 1] # <<>>
    <3>1. k <= i => g[i + 1] # <<>> BY <2>4, <2>5, <2>8
    <3>2. k = i + 1 => g[i + 1] # <<>> BY <2>6, <2>8
    <3> QED BY <2>7, <3>1, <3>2
  <2> QED BY <2>9, <2>10
<1> HIDE DEF G, Good
<1>6. Nat \subseteq G BY <1>4, <1>5, NatSetInduction
<1>7. Good(N) BY <1>1, <1>6 DEF G
<1> QED BY <1>1, <1>2, <1>3, <1>7 DEF Good

LEMMA SeqOfSubset ==
  ASSUME NEW S, NEW T, T \subseteq S, NEW s \in Seq(T) PROVE s \in Seq(S)
OBVIOUS

-----------------------------------------------------------------------------
(* ExperimentRuns.                                                         *)

RunStatus == {"absent", "queued", "running", "done", "error"}
Filters == Experiments \cup {"all"}
RunNames == Runs \cup {"none"}
SomeRuns == SUBSET Runs

\* What a list of runs shows: a status for some of them.
Snapshots == UNION {[R -> RunStatus] : R \in SUBSET Runs}

\* At most one answer is awaited for the card, and one for the result.
AskedFor == {<<>>} \cup {<<r>> : r \in Runs}

Kinds == {"none", "lists", "datasets", "results"}
ListLoad == [at : Kinds, exp : Filters, got : Snapshots, loud : Flag]
Choices == {"all", "done"}
Halves == SUBSET {"card", "result"}

RunTables == [run : [Runs -> RunStatus], job : [Runs -> RunStatus],
              result : [Runs -> {"none", "done", "error"}], sent : SomeRuns,
              applying : RunNames, answers : [Runs -> Nat]]
RunPage == [exp : Filters, status : Choices, load : ListLoad, loading : Flag,
            items : Snapshots, prev : Snapshots, results : SomeRuns, answered : Filters,
            failed : Flag, auto : RunNames, batch : Seq(Filters), details : AskedFor,
            answers : AskedFor, card : RunNames, result : RunNames, lost : Halves]
RunPast == [loads : Nat, opens : Nat, told : [Runs -> Nat], ended : [Runs -> Nat],
            card : RunNames, result : RunNames, detour : Flag]

\* The tables agree about a run, between the two steps of an answer as well.
Agreed(r, tables) ==
  /\ tables.job[r] \in RunsPage!Ended => tables.run[r] \in RunsPage!Ended
  /\ tables.run[r] = "done" => tables.result[r] # "none"
  /\ tables.applying = r => tables.result[r] \in RunsPage!Ended

\* One announcement is due from the one status to the other, or none.
Due(x, y) == IF x # y /\ y \in RunsPage!Ended THEN 1 ELSE 0

\* Every end announced, and every one that the statuses read so far still let the page
\* announce, is an end the run has had.
Backed(r, told, ended, now, prev, load) ==
  /\ told <= ended
  /\ r \in DOMAIN prev => told + Due(prev[r], now) <= ended
  /\ load.at = "datasets" /\ r \in DOMAIN load.got =>
       /\ told + Due(load.got[r], now) <= ended
       /\ r \in DOMAIN prev =>
            told + Due(prev[r], load.got[r]) + Due(load.got[r], now) <= ended

\* The list under way was asked for with the filter that is chosen, unless it is that of a
\* batch ordered under another one.
ListOK(p, h) ==
  /\ p.load.at \in {"lists", "datasets"} => p.load.exp = p.exp \/ h.detour
  /\ p.load.at = "results" \/ (p.load.at = "none" /\ ~p.failed) =>
       p.answered = p.exp \/ h.detour

\* What is awaited is what was asked for last.
AnswersOK(p, h) ==
  /\ p.details \in {<<>>, <<h.card>>} /\ p.answers \in {<<>>, <<h.result>>}
  /\ p.details = <<>> /\ "card" \notin p.lost => p.card = h.card
  /\ p.answers = <<>> /\ "result" \notin p.lost => p.result \in {h.result, "none"}

RunsInv ==
  /\ api \in RunTables /\ page \in RunPage /\ past \in RunPast
  /\ \A r \in Runs : Agreed(r, api)
  /\ \A r \in Runs :
       Backed(r, past.told[r], past.ended[r], api.run[r], page.prev, page.load)
  /\ ListOK(page, past) /\ AnswersOK(page, past)

RunParameters ==
  /\ First \in [Runs -> {"absent", "queued", "done"}] /\ MaxAnswers \in Nat
  /\ Autos \subseteq Runs \cup {"none"} /\ "none" \notin Runs

\* The empty list of runs is one.
LEMMA NothingRead == RunsPage!Nothing \in Snapshots /\ {} \in SomeRuns /\ <<>> \in AskedFor
<1>1. <<>> \in [{} -> RunStatus] OBVIOUS
<1>2. {} \in SUBSET Runs OBVIOUS
<1> QED BY <1>1, <1>2 DEF Snapshots, SomeRuns, AskedFor, RunsPage!Nothing

LEMMA SnapshotOf ==
  ASSUME NEW f \in Snapshots
  PROVE  DOMAIN f \subseteq Runs /\ \A r \in DOMAIN f : f[r] \in RunStatus
BY DEF Snapshots

LEMMA DueIs ==
  /\ \A x, y : Due(x, y) \in {0, 1} /\ Due(x, x) = 0
  /\ \A x, y : y \notin RunsPage!Ended => Due(x, y) = 0
BY DEF Due

\* A run that changes has ended once more, or has begun, and nothing more is due.
LEMMA BackedByChange ==
  ASSUME NEW r, NEW told \in Nat, NEW ended \in Nat, NEW now, NEW new, NEW prev, NEW load,
         Backed(r, told, ended, now, prev, load),
         NEW more \in Nat,
         \/ new = now /\ more = ended
         \/ new \notin RunsPage!Ended /\ more = ended
         \/ more = ended + 1
  PROVE  Backed(r, told, more, new, prev, load)
<1> DEFINE a == prev[r]
           b == load.got[r]
           ab == Due(a, b)
           an == Due(a, now)
           bn == Due(b, now)
           am == Due(a, new)
           bm == Due(b, new)
<1>1. ab \in {0, 1} /\ an \in {0, 1} /\ bn \in {0, 1} /\ am \in {0, 1} /\ bm \in {0, 1}
  BY DueIs
<1>2. new = now => am = an /\ bm = bn OBVIOUS
<1>3. new \notin RunsPage!Ended => am = 0 /\ bm = 0 BY DueIs
<1>4. /\ told <= ended
      /\ r \in DOMAIN prev => told + an <= ended
      /\ load.at = "datasets" /\ r \in DOMAIN load.got =>
           told + bn <= ended /\ (r \in DOMAIN prev => told + ab + bn <= ended)
  BY DEF Backed
<1> HIDE DEF ab, an, bn, am, bm
<1>5. /\ told <= more
      /\ r \in DOMAIN prev => told + am <= more
      /\ load.at = "datasets" /\ r \in DOMAIN load.got =>
           told + bm <= more /\ (r \in DOMAIN prev => told + ab + bm <= more)
  <2>1. CASE new = now /\ more = ended BY <2>1, <1>2, <1>4
  <2>2. CASE new \notin RunsPage!Ended /\ more = ended BY <2>2, <1>1, <1>3, <1>4
  <2>3. CASE more = ended + 1 BY <2>3, <1>1, <1>4
  <2> QED BY <2>1, <2>2, <2>3
<1> QED BY <1>5 DEF Backed, ab, am, bm

\* What is due when the lists have been read just now, and when nothing is read.
LEMMA BackedByRead ==
  ASSUME NEW r, NEW told \in Nat, NEW ended \in Nat, NEW now, NEW prev, NEW load, NEW next,
         Backed(r, told, ended, now, prev, load),
         next.at = "datasets" => (r \in DOMAIN next.got => next.got[r] = now)
  PROVE  Backed(r, told, ended, now, prev, next)
<1>1. /\ told <= ended /\ (r \in DOMAIN prev => told + Due(prev[r], now) <= ended)
  BY DEF Backed
<1>2. Due(now, now) = 0 /\ (r \in DOMAIN prev => Due(prev[r], now) \in {0, 1}) BY DueIs
<1>3. ASSUME next.at = "datasets", r \in DOMAIN next.got
      PROVE  /\ told + Due(next.got[r], now) <= ended
             /\ r \in DOMAIN prev =>
                  told + Due(prev[r], next.got[r]) + Due(next.got[r], now) <= ended
  <2>1. next.got[r] = now BY <1>3
  <2>2. told + Due(now, now) <= ended BY <1>1, <1>2
  <2>3. r \in DOMAIN prev => told + Due(prev[r], now) + Due(now, now) <= ended
    BY <1>1, <1>2
  <2> QED BY <2>1, <2>2, <2>3
<1> QED BY <1>1, <1>3 DEF Backed

\* The announcements of a list are paid for by what was due.
LEMMA BackedByTelling ==
  ASSUME NEW r, NEW told \in Nat, NEW ended \in Nat, NEW now, NEW prev, NEW load, NEW next,
         Backed(r, told, ended, now, prev, load), load.at = "datasets",
         next.at # "datasets", NEW add,
         add = IF /\ r \in DOMAIN load.got /\ r \in DOMAIN prev
                  /\ prev[r] # load.got[r] /\ load.got[r] \in RunsPage!Ended THEN 1 ELSE 0
  PROVE  told + add \in Nat /\ Backed(r, told + add, ended, now, load.got, next)
<1> DEFINE bn == Due(load.got[r], now)
           ab == Due(prev[r], load.got[r])
<1>1. bn \in {0, 1} /\ ab \in {0, 1} /\ add \in {0, 1} BY DueIs
<1>2. add = IF r \in DOMAIN load.got /\ r \in DOMAIN prev THEN ab ELSE 0 BY DEF Due
<1>3. /\ told <= ended
      /\ r \in DOMAIN load.got =>
           told + bn <= ended /\ (r \in DOMAIN prev => told + ab + bn <= ended)
  BY DEF Backed
<1> HIDE DEF ab
<1>4. told + add <= ended /\ (r \in DOMAIN load.got => told + add + bn <= ended)
  <2> HIDE DEF bn
  <2> QED BY <1>1, <1>2, <1>3
<1> QED BY <1>1, <1>4 DEF Backed

-----------------------------------------------------------------------------
(* The worker.                                                             *)

\* A step of the worker: one run may change, and with it its end is counted.
LEMMA RunStep ==
  ASSUME RunsInv, NEW r \in Runs, NEW x \in RunStatus,
         page' = page, api' \in RunTables, api'.run = [api.run EXCEPT ![r] = x],
         x \notin RunsPage!Ended \/ x = api.run[r] => past' = past,
         x \in RunsPage!Ended /\ x # api.run[r] => past' = [past EXCEPT !.ended[r] = @ + 1],
         \A o \in Runs : Agreed(o, api')
  PROVE  RunsInv'
<1>1. /\ api \in RunTables /\ past \in RunPast /\ page \in RunPage
      /\ ListOK(page, past) /\ AnswersOK(page, past)
  BY DEF RunsInv
<1>2. /\ api.run \in [Runs -> RunStatus] /\ past.ended \in [Runs -> Nat]
      /\ past.told \in [Runs -> Nat]
  BY <1>1 DEF RunTables, RunPast
<1>3. /\ past' \in RunPast /\ past'.told = past.told /\ past'.card = past.card
      /\ past'.result = past.result /\ past'.detour = past.detour
      /\ past'.ended \in [Runs -> Nat]
      /\ \A o \in Runs : past'.ended[o] =
           IF o = r /\ x \in RunsPage!Ended /\ x # api.run[r] THEN past.ended[o] + 1
           ELSE past.ended[o]
  <2>1. CASE x \notin RunsPage!Ended \/ x = api.run[r] BY <2>1, <1>1, <1>2
  <2>2. CASE x \in RunsPage!Ended /\ x # api.run[r]
    <3> DEFINE n == past.ended[r] + 1
               e == [past.ended EXCEPT ![r] = n]
    <3>1. n \in Nat BY <1>2
    <3>2. past' = [past EXCEPT !.ended = e] BY <2>2
    <3> HIDE DEF n
    <3>3. e \in [Runs -> Nat] /\ \A o \in Runs : e[o] = IF o = r THEN n ELSE past.ended[o]
      BY <1>2, <3>1
    <3> HIDE DEF e
    <3>4. past' \in RunPast /\ past'.told = past.told /\ past'.card = past.card
          /\ past'.result = past.result /\ past'.detour = past.detour /\ past'.ended = e
      BY <1>1, <3>2, <3>3 DEF RunPast
    <3> QED BY <2>2, <3>3, <3>4 DEF n
  <2> QED BY <2>1, <2>2
<1>4. ASSUME NEW o \in Runs
      PROVE  Backed(o, past'.told[o], past'.ended[o], api'.run[o], page.prev, page.load)
  <2>1. Backed(o, past.told[o], past.ended[o], api.run[o], page.prev, page.load)
    BY DEF RunsInv
  <2>2. past'.ended[o] \in Nat /\ past.ended[o] \in Nat /\ past.told[o] \in Nat
    BY <1>2, <1>3
  <2>3. \/ api'.run[o] = api.run[o] /\ past'.ended[o] = past.ended[o]
        \/ api'.run[o] \notin RunsPage!Ended /\ past'.ended[o] = past.ended[o]
        \/ past'.ended[o] = past.ended[o] + 1
    BY <1>2, <1>3
  <2> QED BY <2>1, <2>2, <2>3, <1>3, BackedByChange
<1>5. AnswersOK(page, past') /\ ListOK(page, past') BY <1>1, <1>3 DEF AnswersOK, ListOK
<1> QED BY <1>1, <1>3, <1>4, <1>5 DEF RunsInv

LEMMA TableFields ==
  ASSUME RunsInv, NEW r \in Runs
  PROVE  /\ api \in RunTables /\ api.run \in [Runs -> RunStatus]
         /\ api.job \in [Runs -> RunStatus]
         /\ api.result \in [Runs -> {"none", "done", "error"}]
         /\ api.sent \in SomeRuns /\ api.applying \in RunNames
         /\ api.answers \in [Runs -> Nat]
         /\ api.run[r] \in RunStatus /\ api.run = [api.run EXCEPT ![r] = api.run[r]]
         /\ \A o \in Runs : Agreed(o, api)
         /\ {"queued", "running", "done", "error"} \subseteq RunStatus
         /\ RunsPage!Ended = {"done", "error"}
BY DEF RunsInv, RunTables, RunStatus, RunsPage!Ended

\* Tables that agree about one run more or less.
LEMMA StillAgreed ==
  ASSUME NEW t \in RunTables, NEW u, NEW r \in Runs, \A o \in Runs : Agreed(o, t),
         \A o \in Runs : o # r =>
           /\ u.run[o] = t.run[o] /\ u.job[o] = t.job[o] /\ u.result[o] = t.result[o]
           /\ u.applying = o => t.applying = o,
         Agreed(r, u)
  PROVE  \A o \in Runs : Agreed(o, u)
<1> SUFFICES ASSUME NEW o \in Runs, o # r PROVE Agreed(o, u) OBVIOUS
<1> QED BY DEF Agreed

LEMMA WorkerKeepsRuns ==
  ASSUME RunsInv, RunParameters, RunsPage!WorkerNext PROVE RunsInv'
<1>1. PICK r \in Runs :
        \/ RunsPage!Claim(r) \/ RunsPage!MarkRunning(r) \/ RunsPage!Publish(r)
        \/ RunsPage!PublishFails(r) \/ RunsPage!StoreAnswer(r) \/ RunsPage!ApplyAnswer(r)
        \/ RunsPage!ApplyLost(r)
  BY DEF RunsPage!WorkerNext
<1>2. /\ api \in RunTables /\ api.run \in [Runs -> RunStatus]
      /\ api.job \in [Runs -> RunStatus]
      /\ api.result \in [Runs -> {"none", "done", "error"}]
      /\ api.sent \in SomeRuns /\ api.applying \in RunNames
      /\ api.answers \in [Runs -> Nat]
      /\ api.run[r] \in RunStatus /\ api.run = [api.run EXCEPT ![r] = api.run[r]]
      /\ \A o \in Runs : Agreed(o, api)
      /\ {"queued", "running", "done", "error"} \subseteq RunStatus
      /\ RunsPage!Ended = {"done", "error"}
  BY TableFields
<1>3. CASE RunsPage!Claim(r)
  <2> DEFINE x == "running"
             j == [api.job EXCEPT ![r] = x]
  <2>1. api.job[r] = "queued" /\ api' = [api EXCEPT !.job = j] /\ page' = page
        /\ past' = past
    BY <1>3 DEF RunsPage!Claim
  <2>2. j \in [Runs -> RunStatus] /\ j[r] = "running"
        /\ \A o \in Runs : o # r => j[o] = api.job[o]
    BY <1>2
  <2> HIDE DEF j
  <2>3. api' \in RunTables /\ api'.run = api.run /\ api'.job = j
        /\ api'.result = api.result /\ api'.applying = api.applying
    BY <1>2, <2>1, <2>2 DEF RunTables
  <2>4. \A o \in Runs : Agreed(o, api') BY <1>2, <2>2, <2>3 DEF Agreed
  <2> QED BY <1>2, <2>1, <2>3, <2>4, RunStep
<1>4. CASE RunsPage!MarkRunning(r)
  <2> DEFINE x == "running"
             j == [api.run EXCEPT ![r] = x]
  <2>1. api.job[r] = "running" /\ api.run[r] = "queued" /\ api' = [api EXCEPT !.run = j]
        /\ page' = page /\ past' = past
    BY <1>4 DEF RunsPage!MarkRunning
  <2>2. j \in [Runs -> RunStatus] /\ j[r] = "running"
        /\ \A o \in Runs : o # r => j[o] = api.run[o]
    BY <1>2
  <2>5. x \in RunStatus /\ x \notin RunsPage!Ended /\ j = [api.run EXCEPT ![r] = x]
    BY <1>2
  <2> HIDE DEF j, x
  <2>3. api' \in RunTables /\ api'.run = j /\ api'.job = api.job
        /\ api'.result = api.result /\ api'.applying = api.applying
    BY <1>2, <2>1, <2>2 DEF RunTables
  <2>4. \A o \in Runs : Agreed(o, api') BY <1>2, <2>1, <2>2, <2>3 DEF Agreed
  <2> QED BY <1>2, <2>1, <2>3, <2>4, <2>5, RunStep
<1>5. CASE RunsPage!Publish(r)
  <2> DEFINE n == api.sent \cup {r}
  <2>1. api' = [api EXCEPT !.sent = n] /\ page' = page /\ past' = past
    BY <1>5 DEF RunsPage!Publish
  <2>2. n \in SomeRuns BY <1>2 DEF SomeRuns
  <2> HIDE DEF n
  <2>3. api' \in RunTables /\ api'.run = api.run /\ api'.job = api.job
        /\ api'.result = api.result /\ api'.applying = api.applying
    BY <1>2, <2>1, <2>2 DEF RunTables
  <2>4. \A o \in Runs : Agreed(o, api')
    <3> TAKE o \in Runs
    <3>1. Agreed(o, api) BY <1>2
    <3> QED BY <2>3, <3>1 DEF Agreed
  <2> QED BY <1>2, <2>1, <2>3, <2>4, RunStep
<1>6. CASE RunsPage!PublishFails(r)
  <2> DEFINE x == "error"
             k == [api.run EXCEPT ![r] = x]
             j == [api.job EXCEPT ![r] = x]
  <2>1. PICK n \in {api.sent, api.sent \cup {r}} :
          api' = [api EXCEPT !.sent = n, !.run = k, !.job = j]
    BY <1>6 DEF RunsPage!PublishFails
  <2>2. /\ page' = page /\ past' = RunsPage!Ending(r, x) /\ api.run[r] = "running"
    BY <1>6 DEF RunsPage!PublishFails
  <2>3. n \in SomeRuns BY <1>2, <2>1 DEF SomeRuns
  <2>4. /\ k \in [Runs -> RunStatus] /\ k[r] = "error" /\ j \in [Runs -> RunStatus]
        /\ \A o \in Runs : o # r => k[o] = api.run[o] /\ j[o] = api.job[o]
    BY <1>2
  <2>5. x \in RunStatus /\ x \in RunsPage!Ended /\ k = [api.run EXCEPT ![r] = x]
        /\ x # "done" /\ x # "running"
    BY <1>2
  <2> HIDE DEF x, k, j
  <2>6. api' \in RunTables /\ api'.run = k /\ api'.job = j
        /\ api'.result = api.result /\ api'.applying = api.applying
    BY <1>2, <2>1, <2>3, <2>4 DEF RunTables
  <2>7. \A o \in Runs : Agreed(o, api')
    <3>1. Agreed(r, api') BY <1>2, <2>4, <2>6 DEF Agreed
    <3> QED BY <3>1, <1>2, <2>4, <2>6 DEF Agreed
  <2>8. x # api.run[r] /\ past' = [past EXCEPT !.ended[r] = @ + 1]
    BY <2>2, <2>5 DEF RunsPage!Ending
  <2> QED BY <1>2, <2>2, <2>5, <2>6, <2>7, <2>8, RunStep
<1>7. CASE RunsPage!StoreAnswer(r)
  <2>1. PICK x \in RunsPage!Ended :
          api' = [api EXCEPT !.result[r] = x, !.applying = r, !.answers[r] = @ + 1]
    BY <1>7 DEF RunsPage!StoreAnswer
  <2>2. page' = page /\ past' = past /\ api.applying = "none"
    BY <1>7 DEF RunsPage!StoreAnswer
  <2> DEFINE j == [api.result EXCEPT ![r] = x]
             n == [api.answers EXCEPT ![r] = @ + 1]
  <2>3. api' = [api EXCEPT !.result = j, !.applying = r, !.answers = n] BY <2>1
  <2>4. /\ j \in [Runs -> {"none", "done", "error"}] /\ j[r] = x
        /\ \A o \in Runs : o # r => j[o] = api.result[o]
    BY <1>2, <2>1
  <2>5. n \in [Runs -> Nat] /\ r \in RunNames BY <1>2 DEF RunNames
  <2> HIDE DEF j, n
  <2>6. api' \in RunTables /\ api'.run = api.run /\ api'.job = api.job
        /\ api'.result = j /\ api'.applying = r
    BY <1>2, <2>3, <2>4, <2>5 DEF RunTables
  <2>7. \A o \in Runs : Agreed(o, api')
    <3>1. Agreed(r, api') BY <1>2, <2>1, <2>4, <2>6 DEF Agreed
    <3> QED BY <3>1, <1>2, <2>4, <2>6 DEF Agreed
  <2> QED BY <1>2, <2>2, <2>6, <2>7, RunStep
<1>8. CASE RunsPage!ApplyAnswer(r)
  <2> DEFINE x == api.result[r]
             n == "none"
             k == [api.run EXCEPT ![r] = x]
             y == IF api.job[r] \in RunsPage!Ended THEN api.job[r] ELSE x
             j == [api.job EXCEPT ![r] = y]
  <2>1. /\ api.applying = r /\ page' = page /\ past' = RunsPage!Ending(r, x)
        /\ api' = [api EXCEPT !.applying = n, !.run = k, !.job = j]
    BY <1>8 DEF RunsPage!ApplyAnswer, RunsPage!Applied
  <2>2. x \in RunsPage!Ended /\ x \in RunStatus BY <1>2, <2>1 DEF Agreed
  <2>3. y \in RunStatus /\ y \in RunsPage!Ended BY <1>2, <2>2
  <2>4. n \in RunNames /\ n \notin Runs BY DEF RunNames, RunParameters
  <2>9. x # "none" BY <1>2, <2>2
  <2> HIDE DEF x, y, n
  <2>5. /\ k \in [Runs -> RunStatus] /\ k[r] = x /\ j \in [Runs -> RunStatus] /\ j[r] = y
        /\ \A o \in Runs : o # r => k[o] = api.run[o] /\ j[o] = api.job[o]
    BY <1>2, <2>2, <2>3
  <2>8. k = [api.run EXCEPT ![r] = x] OBVIOUS
  <2> HIDE DEF k, j
  <2>6. api' \in RunTables /\ api'.run = k /\ api'.job = j
        /\ api'.result = api.result /\ api'.applying = n
    BY <1>2, <2>1, <2>4, <2>5 DEF RunTables
  <2>7. \A o \in Runs : Agreed(o, api')
    <3>1. Agreed(r, api') BY <1>2, <2>2, <2>4, <2>5, <2>6, <2>9 DEF Agreed, x
    <3>2. ASSUME NEW o \in Runs, o # r PROVE Agreed(o, api')
      BY <1>2, <2>4, <2>5, <2>6, <3>2 DEF Agreed
    <3> QED BY <3>1, <3>2
  <2>10. past' = IF api.run[r] = x THEN past ELSE [past EXCEPT !.ended[r] = @ + 1]
    BY <2>1 DEF RunsPage!Ending
  <2> QED BY <1>2, <2>1, <2>2, <2>6, <2>7, <2>8, <2>10, RunStep
<1>9. CASE RunsPage!ApplyLost(r)
  <2> DEFINE n == "none"
  <2>1. api' = [api EXCEPT !.applying = n] /\ page' = page /\ past' = past
    BY <1>9 DEF RunsPage!ApplyLost
  <2>2. n \in RunNames /\ n \notin Runs BY DEF RunNames, RunParameters
  <2> HIDE DEF n
  <2>3. api' \in RunTables /\ api'.run = api.run /\ api'.job = api.job
        /\ api'.result = api.result /\ api'.applying = n
    BY <1>2, <2>1, <2>2 DEF RunTables
  <2>4. \A o \in Runs : Agreed(o, api') BY <1>2, <2>2, <2>3 DEF Agreed
  <2> QED BY <1>2, <2>1, <2>3, <2>4, RunStep
<1> QED BY <1>1, <1>3, <1>4, <1>5, <1>6, <1>7, <1>8, <1>9

-----------------------------------------------------------------------------
(* The lists and the cards of the page.                                    *)

LEMMA RunFields ==
  ASSUME RunsInv
  PROVE  /\ page \in RunPage /\ page.load \in ListLoad /\ page.exp \in Filters
         /\ page.items \in Snapshots /\ page.prev \in Snapshots /\ page.load.got \in Snapshots
         /\ page.load.exp \in Filters /\ page.results \in SomeRuns /\ page.loading \in Flag
         /\ page.load.loud \in Flag /\ page.details \in AskedFor /\ page.answers \in AskedFor
         /\ page.card \in RunNames /\ page.result \in RunNames /\ page.lost \in Halves
         /\ past \in RunPast /\ past.told \in [Runs -> Nat] /\ past.ended \in [Runs -> Nat]
         /\ past.loads \in Nat /\ past.opens \in Nat
         /\ past.card \in RunNames /\ past.result \in RunNames
         /\ ListOK(page, past) /\ AnswersOK(page, past) /\ api \in RunTables
         /\ api.run \in [Runs -> RunStatus]
         /\ \A r \in Runs : /\ Agreed(r, api)
                            /\ Backed(r, past.told[r], past.ended[r], api.run[r],
                                      page.prev, page.load)
BY DEF RunsInv, RunPage, ListLoad, RunPast, RunTables

\* A step of the page that leaves the tables alone, with what it has told.
LEMMA PageStep ==
  ASSUME RunsInv, page' \in RunPage, past' \in RunPast, api' = api,
         past'.ended = past.ended,
         \A r \in Runs : Backed(r, past'.told[r], past.ended[r], api.run[r],
                                page'.prev, page'.load),
         ListOK(page', past'), AnswersOK(page', past')
  PROVE  RunsInv'
BY RunFields DEF RunsInv

\* What a card or a result, asked for, lost or come, leaves alone.
LEMMA AskingStep ==
  ASSUME RunsInv, page' \in RunPage, past' \in RunPast, api' = api,
         past'.ended = past.ended, past'.told = past.told,
         past'.detour = past.detour,
         page'.prev = page.prev, page'.load = page.load, page'.exp = page.exp,
         page'.failed = page.failed, page'.answered = page.answered,
         AnswersOK(page', past')
  PROVE  RunsInv'
<1>1. ListOK(page', past') BY RunFields DEF ListOK
<1>2. \A r \in Runs : Backed(r, past'.told[r], past.ended[r], api.run[r],
                             page'.prev, page'.load)
  BY RunFields
<1> QED BY <1>1, <1>2, PageStep

LEMMA ListedFields ==
  ASSUME NEW p \in RunPage
  PROVE  /\ RunsPage!Listed(p) \in RunPage
         /\ RunsPage!Listed(p).prev = p.load.got
         /\ RunsPage!Listed(p).load = p.load /\ RunsPage!Listed(p).exp = p.exp
         /\ RunsPage!Listed(p).answered = p.load.exp
         /\ RunsPage!Listed(p).details = p.details /\ RunsPage!Listed(p).answers = p.answers
         /\ RunsPage!Listed(p).card = p.card /\ RunsPage!Listed(p).result = p.result
         /\ RunsPage!Listed(p).lost = p.lost
<1> DEFINE g == p.load.got
           e == p.load.exp
           f == FALSE
           q == [p EXCEPT !.items = g, !.answered = e, !.failed = f, !.prev = g]
<1>1. g \in Snapshots /\ e \in Filters /\ f \in Flag BY Flags DEF RunPage, ListLoad
<1>2. q = [p EXCEPT !.items = g, !.answered = e, !.failed = f, !.prev = g]
      /\ RunsPage!Listed(p) = q
  BY DEF RunsPage!Listed
<1> HIDE DEF g, e, f, q
<1>3. /\ q \in RunPage /\ q.prev = g /\ q.load = p.load /\ q.exp = p.exp
      /\ q.answered = e /\ q.details = p.details /\ q.answers = p.answers
      /\ q.card = p.card /\ q.result = p.result /\ q.lost = p.lost
  <2> USE DEF RunPage
  <2>1. q \in RunPage BY <1>1, <1>2, ZenonT(40)
  <2>2. q.prev = g /\ q.load = p.load /\ q.exp = p.exp /\ q.answered = e BY <1>2
  <2>3. q.details = p.details /\ q.answers = p.answers /\ q.card = p.card BY <1>2
  <2>4. q.result = p.result /\ q.lost = p.lost BY <1>2
  <2> QED BY <2>1, <2>2, <2>3, <2>4
<1> QED BY <1>2, <1>3 DEF g, e

\* The load that is overtaken has told what it had read, or has read nothing to tell.
LEMMA OvertakenFields ==
  ASSUME NEW p \in RunPage, NEW h \in SomeRuns, NEW q, q = RunsPage!Overtaken(p, h)
  PROVE  /\ q \in RunPage /\ q.exp = p.exp
         /\ q.prev = IF p.load.at = "datasets" THEN p.load.got ELSE p.prev
         /\ q.details = p.details /\ q.answers = p.answers
         /\ q.card = p.card /\ q.result = p.result /\ q.lost = p.lost
<1>1. p.load.at \in Kinds BY DEF RunPage, ListLoad
<1>2. CASE p.load.at \in {"none", "lists"}
  <2>1. q = p BY <1>2 DEF RunsPage!Overtaken
  <2> QED BY <1>2, <2>1
<1>3. CASE p.load.at = "datasets"
  <2> DEFINE m == RunsPage!Listed(p)
             n == {}
  <2>1. q = [m EXCEPT !.results = n] BY <1>3 DEF RunsPage!Overtaken
  <2>2. /\ m \in RunPage /\ m.prev = p.load.got /\ m.exp = p.exp
        /\ m.details = p.details /\ m.answers = p.answers
        /\ m.card = p.card /\ m.result = p.result /\ m.lost = p.lost
    BY ListedFields
  <2>3. n \in SomeRuns BY NothingRead
  <2> HIDE DEF m, n
  <2>4. /\ q \in RunPage /\ q.prev = m.prev /\ q.exp = m.exp
        /\ q.details = m.details /\ q.answers = m.answers
        /\ q.card = m.card /\ q.result = m.result /\ q.lost = m.lost
    BY <2>1, <2>2, <2>3 DEF RunPage
  <2> QED BY <1>3, <2>2, <2>4
<1>4. CASE p.load.at = "results"
  <2>1. q = [p EXCEPT !.results = h] BY <1>4 DEF RunsPage!Overtaken
  <2>2. /\ q \in RunPage /\ q.prev = p.prev /\ q.exp = p.exp
        /\ q.details = p.details /\ q.answers = p.answers
        /\ q.card = p.card /\ q.result = p.result /\ q.lost = p.lost
    BY <2>1 DEF RunPage
  <2> QED BY <1>4, <2>2
<1> QED BY <1>1, <1>2, <1>3, <1>4 DEF Kinds

LEMMA NoLoadIs ==
  /\ RunsPage!NoLoad \in ListLoad /\ RunsPage!NoLoad.at = "none"
  /\ Kinds = {"none", "lists", "datasets", "results"}
BY NothingRead, Flags DEF RunsPage!NoLoad, ListLoad, Kinds, Filters

LEMMA LoadingFields ==
  ASSUME NEW p \in RunPage, NEW x \in Filters, NEW l \in Flag, NEW h \in SomeRuns
  PROVE  LET q == RunsPage!Loading(p, x, l, h)
         IN  /\ q \in RunPage /\ q.exp = p.exp
             /\ q.load.at = "lists" /\ q.load.exp = x
             /\ q.prev = IF p.load.at = "datasets" THEN p.load.got ELSE p.prev
             /\ q.details = p.details /\ q.answers = p.answers
             /\ q.card = p.card /\ q.result = p.result /\ q.lost = p.lost
<1> DEFINE m == RunsPage!Overtaken(p, h)
           n == [RunsPage!NoLoad EXCEPT !.at = "lists", !.exp = x, !.loud = l]
           b == IF p.load.loud THEN FALSE ELSE l \/ m.loading
           q == [m EXCEPT !.load = n, !.loading = b]
<1>2. n \in ListLoad /\ n.at = "lists" /\ n.exp = x
  <2> DEFINE k == RunsPage!NoLoad
             a == "lists"
  <2>1. k \in ListLoad /\ a \in Kinds
        /\ n = [k EXCEPT !.at = a, !.exp = x, !.loud = l]
    BY NoLoadIs
  <2> HIDE DEF k, a, n
  <2>2. n \in ListLoad /\ n.at = a /\ n.exp = x BY <2>1 DEF ListLoad
  <2> QED BY <2>2 DEF a
<1>3. /\ m \in RunPage /\ m.exp = p.exp
      /\ m.prev = IF p.load.at = "datasets" THEN p.load.got ELSE p.prev
      /\ m.details = p.details /\ m.answers = p.answers
      /\ m.card = p.card /\ m.result = p.result /\ m.lost = p.lost
  <2> HIDE DEF m
  <2>1. m = RunsPage!Overtaken(p, h) BY DEF m
  <2> QED BY <2>1, OvertakenFields
<1>4. b \in Flag
  <2>1. m.loading \in Flag BY <1>3 DEF RunPage
  <2> QED BY <2>1 DEF Flag
<1>5. RunsPage!Loading(p, x, l, h) = q BY DEF RunsPage!Loading
<1>6. q = [m EXCEPT !.load = n, !.loading = b] OBVIOUS
<1> HIDE DEF m, n, b, q
<1>7. /\ q \in RunPage /\ q.exp = m.exp /\ q.load = n /\ q.prev = m.prev
      /\ q.details = m.details /\ q.answers = m.answers
      /\ q.card = m.card /\ q.result = m.result /\ q.lost = m.lost
  BY <1>2, <1>3, <1>4, <1>6 DEF RunPage
<1> QED BY <1>2, <1>3, <1>5, <1>7

\* What a list that is over has told.
LEMMA ToldByList ==
  ASSUME RunsInv, NEW p, p.load = page.load, p.prev = page.prev,
         page.load.at = "datasets"
  PROVE  /\ RunsPage!Telling(p) \in [Runs -> Nat]
         /\ \A next : next.at # "datasets" =>
              \A r \in Runs : Backed(r, RunsPage!Telling(p)[r], past.ended[r], api.run[r],
                                     page.load.got, next)
<1> DEFINE add(r) == IF r \in RunsPage!News(p) THEN 1 ELSE 0
<1>1. past.told \in [Runs -> Nat] /\ past.ended \in [Runs -> Nat]
      /\ \A r \in Runs : Backed(r, past.told[r], past.ended[r], api.run[r],
                                page.prev, page.load)
  BY RunFields
<1>2. \A r \in Runs : add(r) =
        IF /\ r \in DOMAIN page.load.got /\ r \in DOMAIN page.prev
           /\ page.prev[r] # page.load.got[r] /\ page.load.got[r] \in RunsPage!Ended
        THEN 1 ELSE 0
  BY DEF RunsPage!News
<1>3. RunsPage!Telling(p) = [r \in Runs |-> past.told[r] + add(r)] BY DEF RunsPage!Telling
<1> HIDE DEF add
<1>4. ASSUME NEW next, next.at # "datasets", NEW r \in Runs
      PROVE  /\ past.told[r] + add(r) \in Nat
             /\ Backed(r, past.told[r] + add(r), past.ended[r], api.run[r],
                       page.load.got, next)
  <2> DEFINE t == past.told[r]
             e == past.ended[r]
             n == api.run[r]
             v == page.prev
             l == page.load
             a == add(r)
  <2>1. /\ t \in Nat /\ e \in Nat /\ Backed(r, t, e, n, v, l) /\ l.at = "datasets"
        /\ a = IF /\ r \in DOMAIN l.got /\ r \in DOMAIN v
                  /\ v[r] # l.got[r] /\ l.got[r] \in RunsPage!Ended THEN 1 ELSE 0
    BY <1>1, <1>2
  <2> HIDE DEF t, e, n, v, l, a
  <2>2. t + a \in Nat /\ Backed(r, t + a, e, n, l.got, next)
    BY <2>1, <1>4, BackedByTelling
  <2> QED BY <2>2 DEF t, e, n, l, a
<1>5. RunsPage!Telling(p) \in [Runs -> Nat]
  <2>1. RunsPage!NoLoad.at # "datasets" BY NoLoadIs
  <2>2. \A r \in Runs : past.told[r] + add(r) \in Nat BY <2>1, <1>4
  <2> QED BY <2>2, <1>3
<1> QED BY <1>3, <1>4, <1>5

\* A load begins, whatever it overtakes, for the filter that is chosen or for another.
LEMMA StartLoadKeeps ==
  ASSUME RunsInv, NEW p \in RunPage, p.load = page.load, p.prev = page.prev,
         AnswersOK(p, past), NEW x \in Filters, NEW l \in Flag, RunsPage!StartLoad(p, x, l)
  PROVE  RunsInv'
<1>1. PICK h \in SUBSET RunsPage!DoneOf(p.items) : page' = RunsPage!Loading(p, x, l, h)
  BY DEF RunsPage!StartLoad
<1>2. h \in SomeRuns
  <2>1. p.items \in Snapshots BY DEF RunPage
  <2>2. DOMAIN p.items \subseteq Runs BY <2>1, SnapshotOf
  <2> QED BY <1>1, <2>2 DEF SomeRuns, RunsPage!DoneOf
<1>3. /\ page' \in RunPage /\ page'.exp = p.exp
      /\ page'.load.at = "lists" /\ page'.load.exp = x
      /\ page'.prev = IF p.load.at = "datasets" THEN p.load.got ELSE p.prev
      /\ page'.details = p.details /\ page'.answers = p.answers
      /\ page'.card = p.card /\ page'.result = p.result /\ page'.lost = p.lost
  BY <1>1, <1>2, LoadingFields
<1> DEFINE n == past.loads + 1
           t == IF p.load.at = "datasets" THEN RunsPage!Telling(p) ELSE past.told
           d == x # p.exp
<1>4. past' = [past EXCEPT !.loads = n, !.detour = d, !.told = t] /\ api' = api
  BY DEF RunsPage!StartLoad
<1>5. past \in RunPast /\ n \in Nat /\ past.told \in [Runs -> Nat] /\ d \in Flag
  BY RunFields DEF Flag
<1>6. t \in [Runs -> Nat] BY <1>5, ToldByList
<1>7. \A r \in Runs : Backed(r, t[r], past.ended[r], api.run[r], page'.prev, page'.load)
  <2>1. CASE page.load.at = "datasets"
    <3>1. t = RunsPage!Telling(p) /\ page'.prev = page.load.got BY <2>1, <1>3
    <3>2. page'.load.at # "datasets" BY <1>3
    <3> HIDE DEF t
    <3> QED BY <2>1, <3>1, <3>2, ToldByList
  <2>2. CASE page.load.at # "datasets"
    <3>1. t = past.told /\ page'.prev = page.prev BY <2>2, <1>3
    <3>2. page'.load.at # "datasets" BY <1>3
    <3>3. \A r \in Runs : /\ Backed(r, past.told[r], past.ended[r], api.run[r],
                                    page.prev, page.load)
                          /\ past.told[r] \in Nat /\ past.ended[r] \in Nat
      BY RunFields
    <3> HIDE DEF t
    <3> QED BY <3>1, <3>2, <3>3, BackedByRead
  <2> QED BY <2>1, <2>2
<1> HIDE DEF n, t, d
<1>8. past' \in RunPast /\ past'.told = t /\ past'.ended = past.ended
      /\ past'.card = past.card /\ past'.result = past.result /\ past'.detour = d
  BY <1>4, <1>5, <1>6 DEF RunPast
<1>9. ListOK(page', past')
  <2>1. page'.load.exp = page'.exp \/ past'.detour BY <1>3, <1>8, Zenon DEF d
  <2> QED BY <2>1, <1>3 DEF ListOK
<1>10. AnswersOK(page', past') BY <1>3, <1>8 DEF AnswersOK
<1> QED BY <1>3, <1>4, <1>7, <1>8, <1>9, <1>10, PageStep

LEMMA HalvesAre ==
  /\ {} \in Halves
  /\ \A l \in Halves : /\ l \ {"result"} \in Halves
                       /\ l \cup {"card"} \in Halves /\ l \cup {"result"} \in Halves
BY DEF Halves

\* The card and the result still to come are aborted with the filter they were asked under.
LEMMA UndoneFields ==
  ASSUME RunsInv, NEW e \in Filters
  PROVE  LET q == [RunsPage!Undone(page) EXCEPT !.exp = e]
         IN  /\ q \in RunPage /\ q.load = page.load /\ q.prev = page.prev /\ q.exp = e
             /\ AnswersOK(q, past)
<1> DEFINE n == <<>>
           c == IF page.details # <<>> THEN {"card"} ELSE {}
           a == IF page.answers # <<>> THEN {"result"} ELSE {}
           l == page.lost \cup c \cup a
           m == [page EXCEPT !.details = n, !.answers = n, !.lost = l]
           q == [m EXCEPT !.exp = e]
<1>1. page \in RunPage /\ page.lost \in Halves /\ AnswersOK(page, past) BY RunFields
<1>2. n \in AskedFor BY NothingRead
<1>3. l \in Halves BY <1>1 DEF Halves
<1>4. /\ "card" \notin l => "card" \notin page.lost /\ page.details = <<>>
      /\ "result" \notin l => "result" \notin page.lost /\ page.answers = <<>>
  OBVIOUS
<1>5. [RunsPage!Undone(page) EXCEPT !.exp = e] = q BY DEF RunsPage!Undone
<1> HIDE DEF n, c, a, l
<1>6. /\ q \in RunPage /\ q.load = page.load /\ q.prev = page.prev /\ q.exp = e
      /\ q.details = n /\ q.answers = n /\ q.lost = l
      /\ q.card = page.card /\ q.result = page.result
  BY <1>1, <1>2, <1>3 DEF RunPage
<1> HIDE DEF m, q
<1>7. AnswersOK(q, past)
  <2>1. n = <<>> BY DEF n
  <2> QED BY <1>1, <1>4, <1>6, <2>1 DEF AnswersOK
<1> QED BY <1>5, <1>6, <1>7

\* One answer to a batch is awaited less.
LEMMA OneLess ==
  ASSUME NEW p \in RunPage, NEW i \in DOMAIN p.batch
  PROVE  LET q == [p EXCEPT !.batch = RunsPage!RemoveAt(@, i)]
         IN  /\ q \in RunPage /\ q.load = p.load /\ q.exp = p.exp /\ q.prev = p.prev
             /\ q.answered = p.answered /\ q.failed = p.failed
             /\ q.details = p.details /\ q.answers = p.answers
             /\ q.card = p.card /\ q.result = p.result /\ q.lost = p.lost
             /\ p.batch[i] \in Filters
<1> DEFINE b == p.batch
           n == RunsPage!RemoveAt(b, i)
           q == [p EXCEPT !.batch = n]
<1>1. b \in Seq(Filters) BY DEF RunPage
<1>2. n \in Seq(Filters) /\ b[i] \in Filters
  <2> HIDE DEF b
  <2>1. i \in 1..Len(b) /\ Len(b) \in Nat /\ b[i] \in Filters
    <3>1. i \in DOMAIN b BY DEF b
    <3> QED BY <1>1, <3>1
  <2>2. SubSeq(b, 1, i - 1) \in Seq(Filters) BY <1>1, <2>1
  <2>3. SubSeq(b, i + 1, Len(b)) \in Seq(Filters) BY <1>1, <2>1
  <2>4. n = SubSeq(b, 1, i - 1) \o SubSeq(b, i + 1, Len(b)) BY DEF RunsPage!RemoveAt
  <2> DEFINE x == SubSeq(b, 1, i - 1)
             y == SubSeq(b, i + 1, Len(b))
  <2> HIDE DEF x, y, n
  <2>5. x \in Seq(Filters) /\ y \in Seq(Filters) /\ n = x \o y BY <2>2, <2>3, <2>4 DEF x, y
  <2> QED BY <2>1, <2>5
<1>3. [p EXCEPT !.batch = RunsPage!RemoveAt(@, i)] = q OBVIOUS
<1>4. q = [p EXCEPT !.batch = n] /\ (b[i] \in Filters <=> p.batch[i] \in Filters) OBVIOUS
<1> HIDE DEF b, n, q
<1>5. /\ q \in RunPage /\ q.load = p.load /\ q.exp = p.exp /\ q.prev = p.prev
      /\ q.answered = p.answered /\ q.failed = p.failed
      /\ q.details = p.details /\ q.answers = p.answers
      /\ q.card = p.card /\ q.result = p.result /\ q.lost = p.lost
  BY <1>2, <1>4 DEF RunPage
<1> QED BY <1>2, <1>3, <1>4, <1>5

LEMMA RefreshesKeepRuns ==
  ASSUME RunsInv,
         \/ RunsPage!Refresh \/ RunsPage!Poll
         \/ \E e \in Filters : RunsPage!ChooseExperiment(e)
         \/ \E i \in DOMAIN page.batch : RunsPage!BatchEnds(i)
  PROVE  RunsInv'
<1>1. page \in RunPage /\ page.exp \in Filters /\ AnswersOK(page, past)
  BY RunFields DEF RunPage
<1>2. CASE RunsPage!Refresh \/ RunsPage!Poll
  <2>1. TRUE \in Flag /\ FALSE \in Flag BY Flags
  <2>2. PICK l \in Flag : RunsPage!StartLoad(page, page.exp, l)
    BY <1>2, <2>1 DEF RunsPage!Refresh, RunsPage!Poll
  <2> QED BY <1>1, <2>2, StartLoadKeeps
<1>3. ASSUME NEW e \in Filters, RunsPage!ChooseExperiment(e) PROVE RunsInv'
  <2> DEFINE p == [RunsPage!Undone(page) EXCEPT !.exp = e]
             l == TRUE
  <2>1. p \in RunPage /\ p.load = page.load /\ p.prev = page.prev /\ AnswersOK(p, past)
    BY UndoneFields
  <2>2. l \in Flag /\ RunsPage!StartLoad(p, e, l)
    BY <1>3, Flags DEF RunsPage!ChooseExperiment
  <2> HIDE DEF p, l
  <2> QED BY <2>1, <2>2, StartLoadKeeps
<1>4. ASSUME NEW i \in DOMAIN page.batch, RunsPage!BatchEnds(i) PROVE RunsInv'
  <2> DEFINE p == [page EXCEPT !.batch = RunsPage!RemoveAt(@, i)]
             x == page.batch[i]
             l == TRUE
  <2>1. /\ p \in RunPage /\ p.load = page.load /\ p.prev = page.prev /\ x \in Filters
        /\ p.details = page.details /\ p.answers = page.answers /\ p.card = page.card
        /\ p.result = page.result /\ p.lost = page.lost
    BY <1>1, OneLess
  <2>2. l \in Flag /\ RunsPage!StartLoad(p, x, l)
    BY <1>4, Flags DEF RunsPage!BatchEnds
  <2> HIDE DEF p, x, l
  <2>3. AnswersOK(p, past) BY <1>1, <2>1 DEF AnswersOK
  <2> QED BY <2>1, <2>2, <2>3, StartLoadKeeps
<1> QED BY <1>2, <1>3, <1>4

LEMMA BatchLostKeeps ==
  ASSUME RunsInv, NEW i \in DOMAIN page.batch, RunsPage!BatchLost(i) PROVE RunsInv'
<1> DEFINE q == [page EXCEPT !.batch = RunsPage!RemoveAt(@, i)]
<1>1. page' = q /\ api' = api /\ past' = past BY DEF RunsPage!BatchLost
<1>2. /\ q \in RunPage /\ q.load = page.load /\ q.exp = page.exp /\ q.prev = page.prev
      /\ q.answered = page.answered /\ q.failed = page.failed
      /\ q.details = page.details /\ q.answers = page.answers
      /\ q.card = page.card /\ q.result = page.result /\ q.lost = page.lost
  BY RunFields, OneLess
<1> HIDE DEF q
<1>3. AnswersOK(q, past) BY <1>2, RunFields DEF AnswersOK
<1> QED BY <1>1, <1>2, <1>3, RunFields, AskingStep

\* The statuses the API answers with are those of its table.
LEMMA StatusesRead ==
  ASSUME RunsInv, NEW e
  PROVE  /\ RunsPage!Statuses(e) \in Snapshots
         /\ \A r \in DOMAIN RunsPage!Statuses(e) : RunsPage!Statuses(e)[r] = api.run[r]
<1> DEFINE S == {r \in Runs : api.run[r] # "absent" /\ e \in {"all", ExperimentOf[r]}}
<1>1. RunsPage!Statuses(e) = [r \in S |-> api.run[r]]
  BY DEF RunsPage!Statuses, RunsPage!Restrict
<1>2. S \in SUBSET Runs /\ api.run \in [Runs -> RunStatus] BY RunFields
<1> HIDE DEF S
<1>3. [r \in S |-> api.run[r]] \in [S -> RunStatus] BY <1>2
<1> QED BY <1>1, <1>2, <1>3 DEF Snapshots

LEMMA ListsReadKeeps == ASSUME RunsInv, RunsPage!ListsRead PROVE RunsInv'
<1> DEFINE g == RunsPage!Statuses(page.load.exp)
           a == "datasets"
           k == page.load
           n == [k EXCEPT !.at = a, !.got = g]
           q == [page EXCEPT !.load = n]
<1>1. /\ page \in RunPage /\ k \in ListLoad /\ g \in Snapshots /\ a \in Kinds
      /\ \A r \in DOMAIN g : g[r] = api.run[r]
  BY RunFields, StatusesRead, NoLoadIs
<1>2. page' = q /\ api' = api /\ past' = past /\ k.at = "lists"
  <2>1. page' = [page EXCEPT !.load.at = "datasets", !.load.got = g]
    BY DEF RunsPage!ListsRead
  <2> QED BY <2>1, <1>1 DEF RunsPage!ListsRead, RunPage
<1>3. n = [k EXCEPT !.at = a, !.got = g] /\ q = [page EXCEPT !.load = n] OBVIOUS
<1> HIDE DEF g, a, n, q
<1>4. n \in ListLoad /\ n.at = a /\ n.got = g /\ n.exp = k.exp
  <2> HIDE DEF k
  <2> QED BY <1>1, <1>3 DEF ListLoad
<1>5. /\ q \in RunPage /\ q.load = n /\ q.prev = page.prev /\ q.exp = page.exp
      /\ q.details = page.details /\ q.answers = page.answers
      /\ q.card = page.card /\ q.result = page.result /\ q.lost = page.lost
  BY <1>1, <1>3, <1>4 DEF RunPage
<1>6. \A r \in Runs : Backed(r, past.told[r], past.ended[r], api.run[r], page.prev, n)
  <2> SUFFICES ASSUME NEW r \in Runs
               PROVE  Backed(r, past.told[r], past.ended[r], api.run[r], page.prev, n)
    OBVIOUS
  <2>1. /\ Backed(r, past.told[r], past.ended[r], api.run[r], page.prev, k)
        /\ past.told[r] \in Nat /\ past.ended[r] \in Nat
    BY RunFields
  <2>2. n.at = "datasets" => (r \in DOMAIN n.got => n.got[r] = api.run[r]) BY <1>1, <1>4
  <2> QED BY <2>1, <2>2, BackedByRead
<1>7. ListOK(q, past) BY <1>2, <1>4, <1>5, RunFields DEF ListOK, a
<1>8. AnswersOK(q, past) BY <1>5, RunFields DEF AnswersOK
<1> QED BY <1>2, <1>5, <1>6, <1>7, <1>8, RunFields, PageStep

LEMMA ListsArriveKeeps == ASSUME RunsInv, RunsPage!ListsArrive PROVE RunsInv'
<1> DEFINE m == RunsPage!Listed(page)
           a == "results"
           k == m.load
           n == [k EXCEPT !.at = a]
           q == [m EXCEPT !.load = n]
           t == RunsPage!Telling(page)
           h == [past EXCEPT !.told = t]
<1>1. /\ page \in RunPage /\ page.load \in ListLoad /\ past \in RunPast /\ a \in Kinds
  BY RunFields, NoLoadIs
<1>2. /\ m \in RunPage /\ m.prev = page.load.got
      /\ m.load = page.load /\ m.exp = page.exp /\ m.answered = page.load.exp
      /\ m.details = page.details /\ m.answers = page.answers
      /\ m.card = page.card /\ m.result = page.result /\ m.lost = page.lost
  BY <1>1, ListedFields
<1>3. page.load.at = "datasets" /\ page' = q /\ past' = h /\ api' = api
  <2>1. page' = [m EXCEPT !.load.at = "results"] BY DEF RunsPage!ListsArrive
  <2>2. page' = q
    <3> HIDE DEF m
    <3> QED BY <2>1, <1>2 DEF RunPage
  <2> QED BY <2>2 DEF RunsPage!ListsArrive
<1>4. /\ t \in [Runs -> Nat]
      /\ \A next : next.at # "datasets" =>
           \A r \in Runs : Backed(r, t[r], past.ended[r], api.run[r], page.load.got, next)
  BY <1>3, ToldByList
<1>5. n = [k EXCEPT !.at = a] /\ q = [m EXCEPT !.load = n] /\ h = [past EXCEPT !.told = t]
      /\ k \in ListLoad
  BY <1>1, <1>2
<1> HIDE DEF m, n, q, t, h, a
<1>6. n \in ListLoad /\ n.at = a
  <2> HIDE DEF k
  <2> QED BY <1>1, <1>5 DEF ListLoad
<1>7. /\ q \in RunPage /\ q.load = n /\ q.prev = m.prev /\ q.exp = m.exp
      /\ q.answered = m.answered
      /\ q.details = m.details /\ q.answers = m.answers
      /\ q.card = m.card /\ q.result = m.result /\ q.lost = m.lost
  BY <1>2, <1>5, <1>6 DEF RunPage
<1>8. h \in RunPast /\ h.told = t /\ h.ended = past.ended /\ h.card = past.card
      /\ h.result = past.result /\ h.detour = past.detour
  BY <1>1, <1>4, <1>5 DEF RunPast
<1>9. n.at # "datasets" /\ n.at = "results" BY <1>6 DEF a
<1>10. \A r \in Runs : Backed(r, h.told[r], past.ended[r], api.run[r], q.prev, q.load)
  BY <1>2, <1>4, <1>7, <1>8, <1>9
<1>11. ListOK(q, h) BY <1>2, <1>3, <1>7, <1>8, <1>9, RunFields DEF ListOK
<1>12. AnswersOK(q, h) BY <1>2, <1>7, <1>8, RunFields DEF AnswersOK
<1> QED BY <1>3, <1>7, <1>8, <1>10, <1>11, <1>12, PageStep

\* A load that is over.
LEMMA LoadedFields ==
  ASSUME NEW p \in RunPage
  PROVE  LET q == RunsPage!Loaded(p)
         IN  /\ q \in RunPage /\ q.load.at = "none" /\ q.exp = p.exp /\ q.prev = p.prev
             /\ q.answered = p.answered /\ q.failed = p.failed
             /\ q.details = p.details /\ q.answers = p.answers
             /\ q.card = p.card /\ q.result = p.result /\ q.lost = p.lost
<1> DEFINE n == RunsPage!NoLoad
           l == IF p.load.loud THEN FALSE ELSE p.loading
           q == [p EXCEPT !.load = n, !.loading = l]
<1>1. n \in ListLoad /\ n.at = "none" /\ l \in Flag
  BY NoLoadIs, Flags DEF RunPage
<1>2. RunsPage!Loaded(p) = q /\ q = [p EXCEPT !.load = n, !.loading = l]
  BY DEF RunsPage!Loaded
<1> HIDE DEF n, l, q
<1>3. /\ q \in RunPage /\ q.load = n /\ q.exp = p.exp /\ q.prev = p.prev
      /\ q.answered = p.answered /\ q.failed = p.failed
      /\ q.details = p.details /\ q.answers = p.answers
      /\ q.card = p.card /\ q.result = p.result /\ q.lost = p.lost
  BY <1>1, <1>2 DEF RunPage
<1> QED BY <1>1, <1>2, <1>3

LEMMA LoadEndStep ==
  ASSUME RunsInv, page' \in RunPage, api' = api, past' = past, page'.load.at = "none",
         page'.prev = page.prev,
         page'.failed \/ page'.answered = page'.exp \/ past.detour,
         page'.details = page.details, page'.answers = page.answers,
         page'.card = page.card, page'.result = page.result, page'.lost = page.lost
  PROVE  RunsInv'
<1>1. ListOK(page', past') BY DEF ListOK
<1>2. AnswersOK(page', past') BY RunFields DEF AnswersOK
<1>3. \A r \in Runs : Backed(r, past.told[r], past.ended[r], api.run[r],
                             page'.prev, page'.load)
  <2> SUFFICES ASSUME NEW r \in Runs
               PROVE  Backed(r, past.told[r], past.ended[r], api.run[r], page.prev, page'.load)
    OBVIOUS
  <2>1. /\ Backed(r, past.told[r], past.ended[r], api.run[r], page.prev, page.load)
        /\ past.told[r] \in Nat /\ past.ended[r] \in Nat
    BY RunFields
  <2> DEFINE n == page'.load
  <2>2. n.at = "datasets" => (r \in DOMAIN n.got => n.got[r] = api.run[r]) OBVIOUS
  <2> HIDE DEF n
  <2>3. Backed(r, past.told[r], past.ended[r], api.run[r], page.prev, n)
    BY <2>1, <2>2, BackedByRead
  <2> QED BY <2>3 DEF n
<1> QED BY <1>1, <1>2, <1>3, RunFields, PageStep

LEMMA LoadsEndRightly ==
  ASSUME RunsInv,
         RunsPage!ResultsArrive \/ RunsPage!LoadTimesOut \/ RunsPage!LoadFails
  PROVE  RunsInv'
<1> DEFINE m == RunsPage!Loaded(page)
<1>1. /\ m \in RunPage /\ m.load.at = "none" /\ m.exp = page.exp /\ m.prev = page.prev
      /\ m.answered = page.answered /\ m.failed = page.failed
      /\ m.details = page.details /\ m.answers = page.answers
      /\ m.card = page.card /\ m.result = page.result /\ m.lost = page.lost
  BY RunFields, LoadedFields
<1>2. CASE RunsPage!ResultsArrive
  <2>1. PICK h \in SUBSET {r \in RunsPage!DoneOf(page.items) : api.result[r] # "none"} :
          page' = [m EXCEPT !.results = h]
    BY <1>2 DEF RunsPage!ResultsArrive
  <2>2. h \in SomeRuns
    <3>1. DOMAIN page.items \subseteq Runs BY RunFields, SnapshotOf
    <3> QED BY <2>1, <3>1 DEF SomeRuns, RunsPage!DoneOf
  <2> DEFINE q == [m EXCEPT !.results = h]
  <2> HIDE DEF m
  <2>3. /\ q \in RunPage /\ q.load = m.load /\ q.exp = m.exp /\ q.prev = m.prev
        /\ q.answered = m.answered
        /\ q.details = m.details /\ q.answers = m.answers
        /\ q.card = m.card /\ q.result = m.result /\ q.lost = m.lost
    BY <1>1, <2>2 DEF RunPage
  <2> HIDE DEF q
  <2>4. page' = q /\ page.load.at = "results" /\ api' = api /\ past' = past
    BY <1>2, <2>1 DEF RunsPage!ResultsArrive, q
  <2>5. page.answered = page.exp \/ past.detour BY <2>4, RunFields DEF ListOK
  <2> QED BY <1>1, <2>3, <2>4, <2>5, LoadEndStep
<1>3. CASE RunsPage!LoadTimesOut
  <2> DEFINE f == TRUE
             q == [m EXCEPT !.failed = f]
  <2>1. f \in Flag /\ q = [m EXCEPT !.failed = f] BY Flags
  <2>2. page' = q /\ api' = api /\ past' = past BY <1>3 DEF RunsPage!LoadTimesOut
  <2> HIDE DEF m, q, f
  <2>3. /\ q \in RunPage /\ q.load = m.load /\ q.failed = f /\ q.prev = m.prev
        /\ q.details = m.details /\ q.answers = m.answers
        /\ q.card = m.card /\ q.result = m.result /\ q.lost = m.lost
    BY <1>1, <2>1 DEF RunPage
  <2>4. f BY DEF f
  <2> QED BY <1>1, <2>2, <2>3, <2>4, LoadEndStep
<1>4. CASE RunsPage!LoadFails
  <2> DEFINE f == TRUE
             i == RunsPage!Nothing
             q == [m EXCEPT !.failed = f, !.items = i]
  <2>1. f \in Flag /\ i \in Snapshots /\ q = [m EXCEPT !.failed = f, !.items = i]
    BY Flags, NothingRead
  <2>2. page' = q /\ api' = api /\ past' = past BY <1>4 DEF RunsPage!LoadFails
  <2> HIDE DEF m, q, f, i
  <2>3. /\ q \in RunPage /\ q.load = m.load /\ q.failed = f /\ q.prev = m.prev
        /\ q.details = m.details /\ q.answers = m.answers
        /\ q.card = m.card /\ q.result = m.result /\ q.lost = m.lost
    BY <1>1, <2>1 DEF RunPage
  <2>4. f BY DEF f
  <2> QED BY <1>1, <2>2, <2>3, <2>4, LoadEndStep
<1> QED BY <1>2, <1>3, <1>4

LEMMA ChooseStatusKeeps ==
  ASSUME RunsInv, NEW s \in Choices, RunsPage!ChooseStatus(s) PROVE RunsInv'
<1>1. page \in RunPage BY RunFields
<1> DEFINE q == [page EXCEPT !.status = s]
<1>2. page' = q /\ api' = api /\ past' = past BY DEF RunsPage!ChooseStatus
<1>3. /\ q \in RunPage /\ q.load = page.load /\ q.exp = page.exp /\ q.prev = page.prev
      /\ q.answered = page.answered /\ q.failed = page.failed
      /\ q.details = page.details /\ q.answers = page.answers
      /\ q.card = page.card /\ q.result = page.result /\ q.lost = page.lost
  BY <1>1 DEF RunPage
<1> HIDE DEF q
<1>4. AnswersOK(q, past) BY <1>3, RunFields DEF AnswersOK
<1> QED BY <1>2, <1>3, <1>4, RunFields, AskingStep

\* The runs of an experiment are created together with their jobs.
LEMMA BatchCreateKeeps == ASSUME RunsInv, RunsPage!BatchCreate PROVE RunsInv'
<1>1. PICK e \in Experiments :
        LET new == {r \in Runs : ExperimentOf[r] = e /\ api.run[r] = "absent"}
        IN /\ page' = [page EXCEPT !.batch = Append(@, page.exp)]
           /\ api' = [api EXCEPT
                 !.run = [r \in Runs |-> IF r \in new THEN "queued" ELSE @[r]],
                 !.job = [r \in Runs |-> IF r \in new THEN "queued" ELSE @[r]]]
  BY DEF RunsPage!BatchCreate
<1> DEFINE new == {r \in Runs : ExperimentOf[r] = e /\ api.run[r] = "absent"}
           x == "queued"
           k == [r \in Runs |-> IF r \in new THEN x ELSE api.run[r]]
           j == [r \in Runs |-> IF r \in new THEN x ELSE api.job[r]]
           b == Append(page.batch, page.exp)
           q == [page EXCEPT !.batch = b]
<1>2. page' = q /\ api' = [api EXCEPT !.run = k, !.job = j] /\ past' = past
  BY <1>1 DEF RunsPage!BatchCreate
<1>3. /\ new \in SomeRuns /\ x \in RunStatus /\ x \notin RunsPage!Ended /\ x # "done"
      /\ page \in RunPage
      /\ api \in RunTables /\ api.run \in [Runs -> RunStatus]
      /\ api.job \in [Runs -> RunStatus]
  BY RunFields DEF SomeRuns, RunStatus, RunsPage!Ended, RunTables
<1>10. b \in Seq(Filters)
  <2>1. page.batch \in Seq(Filters) /\ page.exp \in Filters BY <1>3 DEF RunPage
  <2> QED BY <2>1
<1> HIDE DEF new, x, b
<1>4. k \in [Runs -> RunStatus] /\ j \in [Runs -> RunStatus]
      /\ \A r \in Runs : \/ k[r] = x /\ j[r] = x
                         \/ k[r] = api.run[r] /\ j[r] = api.job[r]
  BY <1>3
<1> HIDE DEF k, j
<1>5. /\ q \in RunPage /\ q.load = page.load /\ q.exp = page.exp /\ q.prev = page.prev
      /\ q.answered = page.answered /\ q.failed = page.failed
      /\ q.details = page.details /\ q.answers = page.answers
      /\ q.card = page.card /\ q.result = page.result /\ q.lost = page.lost
  BY <1>3, <1>10 DEF RunPage
<1> HIDE DEF q
<1>6. api' \in RunTables /\ api'.run = k /\ api'.job = j /\ api'.result = api.result
      /\ api'.applying = api.applying
  BY <1>2, <1>3, <1>4 DEF RunTables
<1>7. ASSUME NEW r \in Runs
      PROVE  /\ Agreed(r, api')
             /\ Backed(r, past.told[r], past.ended[r], k[r], page.prev, page.load)
  <2>1. /\ Agreed(r, api) /\ past.told[r] \in Nat /\ past.ended[r] \in Nat
        /\ Backed(r, past.told[r], past.ended[r], api.run[r], page.prev, page.load)
    BY RunFields
  <2>2. Agreed(r, api') BY <2>1, <1>3, <1>4, <1>6 DEF Agreed
  <2>3. k[r] = api.run[r] \/ k[r] \notin RunsPage!Ended BY <1>3, <1>4
  <2> QED BY <2>1, <2>2, <2>3, BackedByChange
<1>8. ListOK(page', past') BY <1>2, <1>5, RunFields DEF ListOK
<1>9. AnswersOK(page', past') BY <1>2, <1>5, RunFields DEF AnswersOK
<1> QED BY <1>2, <1>5, <1>6, <1>7, <1>8, <1>9, RunFields DEF RunsInv

\* The one answer awaited, if one is.
LEMMA OneAsked ==
  ASSUME NEW a \in AskedFor, NEW i \in DOMAIN a
  PROVE  /\ i = 1 /\ a # <<>> /\ a[i] \in Runs /\ a = <<a[i]>>
         /\ RunsPage!RemoveAt(a, i) = <<>>
<1>1. PICK x \in Runs : a = <<x>> BY DEF AskedFor
<1>2. i = 1 /\ a[1] = x /\ Len(a) = 1 BY <1>1
<1>3. RunsPage!RemoveAt(a, i) = <<>> BY <1>1, <1>2 DEF RunsPage!RemoveAt
<1> QED BY <1>1, <1>2, <1>3

LEMMA OpenKeeps ==
  ASSUME RunsInv, NEW r \in Runs, NEW p \in RunPage, RunsPage!Open(p, r),
         p.load = page.load, p.exp = page.exp, p.prev = page.prev,
         p.answered = page.answered, p.failed = page.failed
  PROVE  RunsInv'
<1> DEFINE a == <<r>>
           l == {}
           q == [p EXCEPT !.details = a, !.answers = a, !.lost = l]
           n == past.opens + 1
<1>1. page' = q /\ past' = [past EXCEPT !.opens = n, !.card = r, !.result = r] /\ api' = api
  BY DEF RunsPage!Open, RunsPage!Asking
<1>2. /\ past \in RunPast /\ n \in Nat /\ a \in AskedFor /\ l \in Halves /\ r \in RunNames
      /\ q = [p EXCEPT !.details = a, !.answers = a, !.lost = l]
  <2>1. past \in RunPast /\ n \in Nat BY RunFields
  <2>2. a \in AskedFor /\ r \in RunNames BY DEF AskedFor, RunNames
  <2>3. l \in Halves BY HalvesAre
  <2> QED BY <2>1, <2>2, <2>3
<1>3. a # <<>> OBVIOUS
<1> HIDE DEF a, l, q, n
<1>4. /\ q \in RunPage /\ q.load = p.load /\ q.exp = p.exp /\ q.prev = p.prev
      /\ q.answered = p.answered /\ q.failed = p.failed
      /\ q.details = a /\ q.answers = a
  BY <1>2 DEF RunPage
<1>5. past' \in RunPast /\ past'.told = past.told /\ past'.ended = past.ended
      /\ past'.detour = past.detour
      /\ past'.card = r /\ past'.result = r
  BY <1>1, <1>2 DEF RunPast
<1>6. AnswersOK(q, past') BY <1>3, <1>4, <1>5 DEF AnswersOK, a
<1> QED BY <1>1, <1>4, <1>5, <1>6, AskingStep

LEMMA OpeningsKeepRuns ==
  ASSUME RunsInv, RunParameters, NEW r \in Runs,
         RunsPage!AutoOpen \/ RunsPage!OpenCard(r)
  PROVE  RunsInv'
<1>1. page \in RunPage /\ page.items \in Snapshots BY RunFields
<1>2. CASE RunsPage!OpenCard(r) BY <1>1, <1>2, OpenKeeps DEF RunsPage!OpenCard
<1>3. CASE RunsPage!AutoOpen
  <2> DEFINE n == "none"
             p == [page EXCEPT !.auto = n]
             o == page.auto
  <2>1. o \in Runs BY <1>1, <1>3, SnapshotOf DEF RunsPage!AutoOpen
  <2>2. RunsPage!Open(p, o) BY <1>3 DEF RunsPage!AutoOpen
  <2>3. n \in RunNames BY DEF RunNames
  <2> HIDE DEF n, o
  <2>4. /\ p \in RunPage /\ p.load = page.load /\ p.exp = page.exp /\ p.prev = page.prev
        /\ p.answered = page.answered /\ p.failed = page.failed
    BY <1>1, <2>3 DEF RunPage
  <2> HIDE DEF p
  <2> QED BY <2>1, <2>2, <2>4, OpenKeeps
<1> QED BY <1>2, <1>3

LEMMA OpenResultKeeps ==
  ASSUME RunsInv, NEW r \in Runs, RunsPage!OpenResult(r) PROVE RunsInv'
<1> DEFINE a == <<r>>
           l == page.lost \ {"result"}
           q == [page EXCEPT !.answers = a, !.lost = l]
           n == past.opens + 1
<1>1. page' = q /\ past' = [past EXCEPT !.opens = n, !.result = r] /\ api' = api
  BY DEF RunsPage!OpenResult, RunsPage!Asking
<1>7. page \in RunPage /\ page.lost \in Halves /\ past.opens \in Nat BY RunFields
<1>8. l \in Halves BY <1>7, HalvesAre
<1>9. a \in AskedFor /\ r \in RunNames BY DEF AskedFor, RunNames
<1>2. /\ past \in RunPast /\ n \in Nat /\ AnswersOK(page, past)
      /\ q = [page EXCEPT !.answers = a, !.lost = l]
  BY <1>7, RunFields
<1>3. a # <<>> /\ ("card" \in l <=> "card" \in page.lost) OBVIOUS
<1> HIDE DEF a, l, q, n
<1>4. /\ q \in RunPage /\ q.load = page.load /\ q.exp = page.exp /\ q.prev = page.prev
      /\ q.answered = page.answered /\ q.failed = page.failed
      /\ q.details = page.details /\ q.answers = a /\ q.lost = l
      /\ q.card = page.card
  BY <1>2, <1>7, <1>8, <1>9 DEF RunPage
<1>5. past' \in RunPast /\ past'.told = past.told /\ past'.ended = past.ended
      /\ past'.detour = past.detour
      /\ past'.card = past.card /\ past'.result = r
  BY <1>1, <1>2, <1>9 DEF RunPast
<1>6. AnswersOK(q, past') BY <1>2, <1>3, <1>4, <1>5 DEF AnswersOK, a
<1> QED BY <1>1, <1>4, <1>5, <1>6, AskingStep

LEMMA CardsComeRightly ==
  ASSUME RunsInv, NEW i \in DOMAIN page.details,
         RunsPage!CardArrives(i) \/ RunsPage!CardTimesOut(i)
  PROVE  RunsInv'
<1> DEFINE d == RunsPage!RemoveAt(page.details, i)
           c == page.details[i]
           l == page.lost \cup {"card"}
<1>1. /\ past \in RunPast /\ page \in RunPage /\ AnswersOK(page, past)
      /\ c \in RunNames /\ d \in AskedFor /\ l \in Halves
  BY RunFields, OneAsked, NothingRead, HalvesAre DEF RunNames
<1>2. d = <<>> /\ page.details = <<c>> /\ c = past.card
  <2>1. d = <<>> /\ page.details = <<c>> /\ page.details # <<>> BY RunFields, OneAsked
  <2>2. page.details = <<past.card>> BY <2>1, <1>1 DEF AnswersOK
  <2> QED BY <2>1, <2>2
<1>3. "card" \in l /\ ("result" \in l <=> "result" \in page.lost) OBVIOUS
<1>4. CASE RunsPage!CardArrives(i)
  <2> DEFINE q == [page EXCEPT !.card = c, !.details = d]
  <2>1. page' = q /\ api' = api /\ past' = past BY <1>4 DEF RunsPage!CardArrives
  <2> HIDE DEF c, d, l
  <2>2. /\ q \in RunPage /\ q.load = page.load /\ q.exp = page.exp /\ q.prev = page.prev
        /\ q.answered = page.answered /\ q.failed = page.failed
        /\ q.details = d /\ q.answers = page.answers /\ q.lost = page.lost
        /\ q.card = c /\ q.result = page.result
    BY <1>1 DEF RunPage
  <2> HIDE DEF q
  <2>3. AnswersOK(q, past) BY <1>1, <1>2, <2>2 DEF AnswersOK
  <2> QED BY <1>1, <2>1, <2>2, <2>3, AskingStep
<1>5. CASE RunsPage!CardTimesOut(i)
  <2> DEFINE q == [page EXCEPT !.details = d, !.lost = l]
  <2>1. page' = q /\ api' = api /\ past' = past BY <1>5 DEF RunsPage!CardTimesOut
  <2> HIDE DEF c, d, l
  <2>2. /\ q \in RunPage /\ q.load = page.load /\ q.exp = page.exp /\ q.prev = page.prev
        /\ q.answered = page.answered /\ q.failed = page.failed
        /\ q.details = d /\ q.answers = page.answers /\ q.lost = l
        /\ q.card = page.card /\ q.result = page.result
    BY <1>1 DEF RunPage
  <2> HIDE DEF q
  <2>3. AnswersOK(q, past) BY <1>1, <1>2, <1>3, <2>2 DEF AnswersOK
  <2> QED BY <1>1, <2>1, <2>2, <2>3, AskingStep
<1> QED BY <1>4, <1>5

LEMMA ResultsComeRightly ==
  ASSUME RunsInv, NEW i \in DOMAIN page.answers,
         RunsPage!ResultArrives(i) \/ RunsPage!ResultTimesOut(i)
  PROVE  RunsInv'
<1> DEFINE d == RunsPage!RemoveAt(page.answers, i)
           r == page.answers[i]
           c == IF api.result[r] = "none" THEN "none" ELSE r
           l == page.lost \cup {"result"}
<1>1. /\ past \in RunPast /\ page \in RunPage /\ AnswersOK(page, past)
      /\ c \in RunNames /\ d \in AskedFor /\ l \in Halves
  <2>1. past \in RunPast /\ page \in RunPage /\ AnswersOK(page, past) /\ l \in Halves
    BY RunFields, HalvesAre
  <2>2. page.answers \in AskedFor BY RunFields
  <2>3. r \in Runs /\ d = <<>> BY <2>2, OneAsked
  <2>4. d \in AskedFor BY <2>3, NothingRead
  <2>5. c \in RunNames BY <2>3 DEF RunNames
  <2> QED BY <2>1, <2>4, <2>5
<1>2. d = <<>> /\ page.answers = <<r>> /\ r = past.result
  <2>1. d = <<>> /\ page.answers = <<r>> /\ page.answers # <<>> BY RunFields, OneAsked
  <2>2. page.answers = <<past.result>> BY <2>1, <1>1 DEF AnswersOK
  <2> QED BY <2>1, <2>2
<1>3. /\ "result" \in l /\ ("card" \in l <=> "card" \in page.lost) /\ c \in {r, "none"}
  OBVIOUS
<1>4. CASE RunsPage!ResultArrives(i)
  <2> DEFINE q == [page EXCEPT !.result = c, !.answers = d]
  <2>1. page' = q /\ api' = api /\ past' = past BY <1>4 DEF RunsPage!ResultArrives
  <2> HIDE DEF c, d, l, r
  <2>2. /\ q \in RunPage /\ q.load = page.load /\ q.exp = page.exp /\ q.prev = page.prev
        /\ q.answered = page.answered /\ q.failed = page.failed
        /\ q.details = page.details /\ q.answers = d /\ q.lost = page.lost
        /\ q.card = page.card /\ q.result = c
    BY <1>1 DEF RunPage
  <2> HIDE DEF q
  <2>3. AnswersOK(q, past) BY <1>1, <1>2, <1>3, <2>2 DEF AnswersOK
  <2> QED BY <1>1, <2>1, <2>2, <2>3, AskingStep
<1>5. CASE RunsPage!ResultTimesOut(i)
  <2> DEFINE q == [page EXCEPT !.answers = d, !.lost = l]
  <2>1. page' = q /\ api' = api /\ past' = past BY <1>5 DEF RunsPage!ResultTimesOut
  <2> HIDE DEF c, d, l, r
  <2>2. /\ q \in RunPage /\ q.load = page.load /\ q.exp = page.exp /\ q.prev = page.prev
        /\ q.answered = page.answered /\ q.failed = page.failed
        /\ q.details = page.details /\ q.answers = d /\ q.lost = l
        /\ q.card = page.card /\ q.result = page.result
    BY <1>1 DEF RunPage
  <2> HIDE DEF q
  <2>3. AnswersOK(q, past) BY <1>1, <1>2, <1>3, <2>2 DEF AnswersOK
  <2> QED BY <1>1, <2>1, <2>2, <2>3, AskingStep
<1> QED BY <1>4, <1>5

-----------------------------------------------------------------------------
LEMMA RunsStart == RunParameters /\ RunsPage!Init => RunsInv
<1> SUFFICES ASSUME RunParameters, RunsPage!Init PROVE RunsInv OBVIOUS
<1> DEFINE D == {r \in Runs : First[r] = "done"}
           rs == [r \in Runs |-> IF r \in D THEN "done" ELSE "none"]
           an == [r \in Runs |-> IF r \in D THEN MaxAnswers ELSE 0]
           z == [r \in Runs |-> 0]
<1>1. PICK auto \in Autos : page = RunsPage!Opened(auto) BY DEF RunsPage!Init
<1>2. /\ api = [run |-> First, job |-> First, result |-> rs, sent |-> D,
                applying |-> "none", answers |-> an]
      /\ past = [loads |-> 0, opens |-> 0, told |-> z, ended |-> z,
                 card |-> "none", result |-> "none", detour |-> FALSE]
  BY DEF RunsPage!Init
<1>3. /\ First \in [Runs -> RunStatus] /\ MaxAnswers \in Nat /\ auto \in RunNames
      /\ \A r \in Runs : First[r] \in RunsPage!Ended => First[r] = "done"
      /\ \A r \in Runs : "none" # r
  BY <1>1 DEF RunParameters, RunStatus, RunNames, RunsPage!Ended
<1>4. /\ rs \in [Runs -> {"none", "done", "error"}] /\ D \in SomeRuns
      /\ an \in [Runs -> Nat] /\ z \in [Runs -> Nat] /\ "none" \in RunNames
      /\ \A r \in Runs : First[r] = "done" => rs[r] = "done"
  BY <1>3 DEF SomeRuns, RunNames
<1>9. \A r \in Runs : z[r] = 0 OBVIOUS
<1> HIDE DEF D, rs, an, z
<1>5. api \in RunTables BY <1>2, <1>3, <1>4 DEF RunTables
<1>6. \A r \in Runs : Agreed(r, api)
  <2> SUFFICES ASSUME NEW r \in Runs PROVE Agreed(r, api) OBVIOUS
  <2>1. api.run[r] = First[r] /\ api.job[r] = First[r] /\ api.result[r] = rs[r]
        /\ api.applying # r
    BY <1>2, <1>3
  <2> QED BY <2>1, <1>3, <1>4 DEF Agreed
<1>7. past \in RunPast BY <1>2, <1>4, Flags DEF RunPast
<1> DEFINE n == [RunsPage!NoLoad EXCEPT !.at = "lists", !.loud = TRUE]
<1>8. n \in ListLoad /\ n.at = "lists" /\ n.exp = "all"
  <2> DEFINE k == RunsPage!NoLoad
             a == "lists"
             l == TRUE
  <2>1. k \in ListLoad /\ a \in Kinds /\ l \in Flag /\ k.exp = "all"
        /\ n = [k EXCEPT !.at = a, !.loud = l]
    BY NoLoadIs, Flags DEF RunsPage!NoLoad
  <2> HIDE DEF k, a, l, n
  <2>2. n \in ListLoad /\ n.at = a /\ n.exp = k.exp BY <2>1 DEF ListLoad
  <2> QED BY <2>1, <2>2 DEF a
<1>10. /\ page = [exp |-> "all", status |-> "all", load |-> n, loading |-> TRUE,
                  items |-> RunsPage!Nothing, prev |-> RunsPage!Nothing, results |-> {},
                  answered |-> "all", failed |-> FALSE, auto |-> auto, batch |-> <<>>,
                  details |-> <<>>, answers |-> <<>>, card |-> "none", result |-> "none",
                  lost |-> {}]
  BY <1>1 DEF RunsPage!Opened
<1>11. /\ "all" \in Filters /\ "all" \in Choices /\ TRUE \in Flag /\ FALSE \in Flag
       /\ {} \in Halves
  BY Flags, HalvesAre DEF Filters, Choices
<1> DEFINE S == RunsPage!Nothing
<1>12. DOMAIN S = {} BY DEF RunsPage!Nothing
<1> HIDE DEF n, S
<1>13. /\ page \in RunPage /\ page.load = n /\ page.exp = "all" /\ page.prev = S
       /\ page.details = <<>> /\ page.answers = <<>> /\ page.card = "none"
       /\ page.result = "none" /\ page.lost = {}
  <2>1. S \in Snapshots /\ {} \in SomeRuns /\ <<>> \in AskedFor BY NothingRead DEF S
  <2>2. page = [exp |-> "all", status |-> "all", load |-> n, loading |-> TRUE,
                items |-> S, prev |-> S, results |-> {},
                answered |-> "all", failed |-> FALSE, auto |-> auto, batch |-> <<>>,
                details |-> <<>>, answers |-> <<>>, card |-> "none", result |-> "none",
                lost |-> {}]
    BY <1>10 DEF S
  <2> DEFINE t == TRUE
             f == FALSE
             e == {}
             g == {}
             h == <<>>
             b == <<>>
             nn == "none"
             al == "all"
  <2>3. /\ t \in Flag /\ f \in Flag /\ e \in SomeRuns /\ g \in Halves /\ h \in AskedFor
        /\ b \in Seq(Filters)
        /\ nn \in RunNames /\ al \in Filters /\ al \in Choices
        /\ page = [exp |-> al, status |-> al, load |-> n, loading |-> t,
                   items |-> S, prev |-> S, results |-> e,
                   answered |-> al, failed |-> f, auto |-> auto, batch |-> b,
                   details |-> h, answers |-> h, card |-> nn, result |-> nn, lost |-> g]
    <3>1. b \in Seq(Filters) OBVIOUS
    <3>2. /\ t \in Flag /\ f \in Flag /\ e \in SomeRuns /\ g \in Halves /\ h \in AskedFor
          /\ nn \in RunNames /\ al \in Filters /\ al \in Choices
      BY <2>1, <1>4, <1>11
    <3> QED BY <2>2, <3>1, <3>2
  <2> HIDE DEF t, f, e, g, h, b, nn, al
  <2>4. page \in RunPage /\ page.load = n /\ page.exp = al /\ page.prev = S
        /\ page.details = h /\ page.answers = h /\ page.card = nn
        /\ page.result = nn /\ page.lost = g
    BY <2>1, <2>3, <1>3, <1>8 DEF RunPage
  <2> QED BY <2>4 DEF h, nn, al, g
<1>14. ASSUME NEW r \in Runs
       PROVE  Backed(r, past.told[r], past.ended[r], api.run[r], page.prev, page.load)
  <2>1. past.told[r] = 0 /\ past.ended[r] = 0 /\ r \notin DOMAIN page.prev
        /\ page.load.at # "datasets"
    BY <1>2, <1>8, <1>9, <1>12, <1>13
  <2> QED BY <2>1 DEF Backed
<1>15. ListOK(page, past) BY <1>8, <1>13 DEF ListOK
<1>16. AnswersOK(page, past) BY <1>2, <1>13 DEF AnswersOK
<1> QED BY <1>5, <1>6, <1>7, <1>13, <1>14, <1>15, <1>16 DEF RunsInv

LEMMA RunsGoOn == ASSUME RunsInv, RunParameters, RunsPage!Next PROVE RunsInv'
<1>1. CASE RunsPage!WorkerNext BY <1>1, WorkerKeepsRuns
<1>2. CASE RunsPage!ListNext
  <2>1. Filters = Experiments \cup {"all"} /\ Choices = {"all", "done"}
    BY DEF Filters, Choices
  <2> QED
    BY <1>2, <2>1, RefreshesKeepRuns, ListsReadKeeps, ListsArriveKeeps, LoadsEndRightly,
       ChooseStatusKeeps, BatchCreateKeeps, BatchLostKeeps
       DEF RunsPage!ListNext
<1>3. CASE RunsPage!CardNext
  <2>1. ASSUME RunsPage!AutoOpen PROVE RunsInv'
    <3>1. page.auto \in Runs BY <2>1, RunFields, SnapshotOf DEF RunsPage!AutoOpen
    <3> QED BY <2>1, <3>1, OpeningsKeepRuns
  <2> QED
    BY <1>3, <2>1, OpeningsKeepRuns, OpenResultKeeps, CardsComeRightly, ResultsComeRightly
       DEF RunsPage!CardNext
<1> QED BY <1>1, <1>2, <1>3 DEF RunsPage!Next

LEMMA RunsRest == ASSUME RunsInv, UNCHANGED <<api, page, past>> PROVE RunsInv'
BY DEF RunsInv, Agreed, Backed, ListOK, AnswersOK

LEMMA RunsAreRight ==
  ASSUME RunsInv, RunParameters
  PROVE  /\ RunsPage!AnnouncedOnce /\ RunsPage!JobEndsWithRun
         /\ RunsPage!ListAnswersFilter /\ RunsPage!CardIsOfLastRun /\ RunsPage!TypeOK
<1>1. RunsPage!AnnouncedOnce BY RunFields DEF Backed, RunsPage!AnnouncedOnce
<1>2. RunsPage!JobEndsWithRun BY RunFields DEF Agreed, RunsPage!JobEndsWithRun
<1>3. RunsPage!ListAnswersFilter BY RunFields DEF ListOK, RunsPage!ListAnswersFilter
<1>4. RunsPage!CardIsOfLastRun
  <2>1. AnswersOK(page, past) BY RunFields
  <2> QED BY <2>1 DEF AnswersOK, RunsPage!CardIsOfLastRun, RunsPage!Report
<1>5. RunsPage!TypeOK
  <2>1. /\ api.run \in [Runs -> RunStatus] /\ api.sent \in SomeRuns
        /\ page.results \in SomeRuns /\ page.items \in Snapshots
        /\ page.details \in AskedFor /\ page.answers \in AskedFor
    BY RunFields DEF RunTables
  <2>2. \A a \in AskedFor : Len(a) <= 1
    <3> SUFFICES ASSUME NEW a \in AskedFor PROVE Len(a) <= 1 OBVIOUS
    <3>1. CASE a = <<>> BY <3>1
    <3>2. CASE a # <<>>
      <4>1. PICK r \in Runs : a = <<r>> BY <3>2 DEF AskedFor
      <4> QED BY <4>1
    <3> QED BY <3>1, <3>2
  <2>3. DOMAIN page.items \subseteq Runs BY <2>1, SnapshotOf
  <2> QED BY <2>1, <2>2, <2>3 DEF RunsPage!TypeOK, SomeRuns
<1> QED BY <1>1, <1>2, <1>3, <1>4, <1>5

\* The page of runs beside the worker, whatever answers come late, twice or not at all: no
\* end of a run is announced twice, its tables agree, and what is shown is the answer to
\* what was asked for last: the list unless it was lost, or was that of a batch ordered
\* under another filter; the card and the result unless one was lost, or aborted by a
\* change of the filter.
THEOREM RunsAreShownRightly ==
  ASSUME RunParameters
  PROVE  RunsPage!Init /\ [][RunsPage!Next]_<<api, page, past>>
           => [](/\ RunsPage!AnnouncedOnce /\ RunsPage!JobEndsWithRun
                 /\ RunsPage!ListAnswersFilter /\ RunsPage!CardIsOfLastRun)
<1>1. RunsPage!Init => RunsInv BY RunsStart
<1>2. RunsInv /\ [RunsPage!Next]_<<api, page, past>> => RunsInv'
  BY RunsGoOn, RunsRest
<1>3. RunsInv => /\ RunsPage!AnnouncedOnce /\ RunsPage!JobEndsWithRun
                 /\ RunsPage!ListAnswersFilter /\ RunsPage!CardIsOfLastRun
  BY RunsAreRight
<1> QED BY <1>1, <1>2, <1>3, PTL
=============================================================================
