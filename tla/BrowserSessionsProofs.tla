------------------------ MODULE BrowserSessionsProofs ------------------------
(***************************************************************************)
(* Theorems about AuthTables and BrowserSessions, for every set of         *)
(* accounts, tabs and browsers and every number of lost answers.           *)
(***************************************************************************)
EXTENDS BrowserSessions, FiniteSetTheorems, TLAPS

-----------------------------------------------------------------------------
(* The tables.  That one session of a user is active and one pair of it    *)
(* verifies holds because the sessions of a user that are not revoked are  *)
(* at most one, and because an access token stays only while its pair is   *)
(* the newest of its session.  That a pair is exchanged once holds because *)
(* a pair that was exchanged is not the newest any more, and never becomes *)
(* it again.                                                               *)

SessionsKnowTheirPair(d) ==
  \A s \in DOMAIN d.sessions :
    /\ d.sessions[s].refresh \in DOMAIN d.pairs
    /\ d.pairs[d.sessions[s].refresh].session = s

PairsHaveSessions(d) ==
  \A p \in DOMAIN d.pairs :
    /\ d.pairs[p].session \in DOMAIN d.sessions
    /\ d.pairs[p].from # NoPair =>
         /\ d.pairs[p].from \in DOMAIN d.pairs
         /\ ~ Newest(d, d.pairs[p].from)

OneActiveRow(d) ==
  \A s, r \in DOMAIN d.sessions :
    d.sessions[s].user = d.sessions[r].user
      /\ Active(d.sessions[s]) /\ Active(d.sessions[r]) => s = r

AccessIsNewest(d) == \A p \in d.access : p \in DOMAIN d.pairs /\ Newest(d, p)

EachExchangedOnce(d) ==
  \A p, q \in DOMAIN d.pairs :
    d.pairs[p].from # NoPair /\ d.pairs[p].from = d.pairs[q].from => p = q

TablesInv(d) ==
  /\ d \in Tables(Users)
  /\ SessionsKnowTheirPair(d) /\ PairsHaveSessions(d)
  /\ OneActiveRow(d) /\ AccessIsNewest(d) /\ EachExchangedOnce(d)

\* What no operation on the tables does: drop a pair, or change its owner.
TablesGrow(d, e) ==
  /\ DOMAIN d.pairs \subseteq DOMAIN e.pairs
  /\ \A p \in DOMAIN d.pairs : OwnerOf(e, p) = OwnerOf(d, p)

\* Empty tables satisfy the invariant.
LEMMA EmptyTablesInv == TablesInv(EmptyTables)
BY DEF TablesInv, EmptyTables, Tables, SessionsKnowTheirPair, PairsHaveSessions,
       OneActiveRow, AccessIsNewest, EachExchangedOnce

\* What the invariant says of the fields.
LEMMA TablesFields ==
  ASSUME NEW d, d \in Tables(Users)
  PROVE  /\ d.sessions \in Seq(Session(Users))
         /\ d.pairs \in Seq([session : Nat, from : Nat])
         /\ d.access \subseteq Nat
         /\ \A s \in DOMAIN d.sessions :
              /\ d.sessions[s].user \in Users /\ d.sessions[s].refresh \in Nat
              /\ d.sessions[s].revoked \in BOOLEAN /\ d.sessions[s].expired \in BOOLEAN
<1>1. /\ d.sessions \in Seq(Session(Users))
      /\ d.pairs \in Seq([session : Nat, from : Nat])
      /\ d.access \subseteq Nat
  BY DEF Tables
<1>2. \A s \in DOMAIN d.sessions : d.sessions[s] \in Session(Users) BY <1>1
<1>3. QED BY <1>1, <1>2 DEF Session

\* A pair's owner is an account.
LEMMA OwnerTyped ==
  ASSUME NEW d, TablesInv(d), NEW p \in DOMAIN d.pairs
  PROVE  OwnerOf(d, p) \in Users
BY TablesFields DEF TablesInv, PairsHaveSessions, OwnerOf, SessionOf

\* What appending does to a sequence.
LEMMA AppendFacts ==
  ASSUME NEW S, NEW seq \in Seq(S), NEW x \in S
  PROVE  /\ Append(seq, x) \in Seq(S)
         /\ Len(seq) + 1 \in Nat \ {0} /\ Len(seq) + 1 \notin DOMAIN seq
         /\ Len(Append(seq, x)) = Len(seq) + 1
         /\ DOMAIN Append(seq, x) = DOMAIN seq \cup {Len(seq) + 1}
         /\ \A i \in DOMAIN seq : Append(seq, x)[i] = seq[i]
         /\ Append(seq, x)[Len(seq) + 1] = x
OBVIOUS

\* Issuing a pair to a user without an active session keeps the invariant.
LEMMA IssueKeeps ==
  ASSUME NEW d, TablesInv(d), NEW u \in Users,
         \A s \in DOMAIN d.sessions : d.sessions[s].user = u => ~ Active(d.sessions[s]),
         NEW e, e = Issue(d, u)
  PROVE  TablesInv(e) /\ TablesGrow(d, e) /\ Len(e.pairs) \in DOMAIN e.pairs
<1> DEFINE n == Len(d.pairs) + 1
           k == Len(d.sessions) + 1
           row == [user |-> u, refresh |-> n, revoked |-> FALSE, expired |-> FALSE]
           pair == [session |-> k, from |-> NoPair]
<1>1. /\ d.sessions \in Seq(Session(Users))
      /\ d.pairs \in Seq([session : Nat, from : Nat])
      /\ d.access \subseteq Nat
  BY TablesFields DEF TablesInv
<1>2. e = [sessions |-> Append(d.sessions, row), pairs |-> Append(d.pairs, pair),
           access |-> d.access \cup {n}]
  BY DEF Issue
<1>3. /\ e.sessions = Append(d.sessions, row) /\ e.pairs = Append(d.pairs, pair)
      /\ e.access = d.access \cup {n}
  BY <1>2
<1>4. n \in Nat /\ k \in Nat /\ row \in Session(Users) /\ pair \in [session : Nat, from : Nat]
  BY <1>1 DEF Session, NoPair
<1>5. /\ e.pairs \in Seq([session : Nat, from : Nat])
      /\ DOMAIN e.pairs = DOMAIN d.pairs \cup {n} /\ n \notin DOMAIN d.pairs
      /\ \A p \in DOMAIN d.pairs : e.pairs[p] = d.pairs[p]
      /\ e.pairs[n] = pair /\ Len(e.pairs) = n
  <2> DEFINE P == [session : Nat, from : Nat]
  <2>1. d.pairs \in Seq(P) /\ pair \in P BY <1>1, <1>4
  <2> HIDE DEF P, pair
  <2>2. /\ e.pairs \in Seq(P)
        /\ DOMAIN e.pairs = DOMAIN d.pairs \cup {n} /\ n \notin DOMAIN d.pairs
        /\ \A p \in DOMAIN d.pairs : e.pairs[p] = d.pairs[p]
        /\ e.pairs[n] = pair /\ Len(e.pairs) = n
    BY <1>3, <2>1, AppendFacts
  <2>3. QED BY <2>2 DEF P
<1>6. /\ e.sessions \in Seq(Session(Users))
      /\ DOMAIN e.sessions = DOMAIN d.sessions \cup {k} /\ k \notin DOMAIN d.sessions
      /\ \A s \in DOMAIN d.sessions : e.sessions[s] = d.sessions[s]
      /\ e.sessions[k] = row
  <2>1. d.sessions \in Seq(Session(Users)) /\ row \in Session(Users) BY <1>1, <1>4
  <2> HIDE DEF row
  <2>2. QED BY <1>3, <2>1, AppendFacts
<1>7. e \in Tables(Users)
  <2>1. e.access \subseteq Nat BY <1>1, <1>3, <1>4
  <2>2. e = [sessions |-> e.sessions, pairs |-> e.pairs, access |-> e.access] BY <1>2
  <2>3. QED BY <1>5, <1>6, <2>1, <2>2 DEF Tables
<1>8. /\ e.pairs[n].session = k /\ e.pairs[n].from = NoPair
      /\ e.sessions[k].user = u /\ e.sessions[k].refresh = n
  BY <1>5, <1>6
<1> HIDE DEF n, k, row, pair
<1>9. SessionsKnowTheirPair(e)
  <2>1. \A s \in DOMAIN d.sessions : /\ e.sessions[s].refresh \in DOMAIN e.pairs
                                     /\ e.pairs[e.sessions[s].refresh].session = s
    <3> SUFFICES ASSUME NEW s \in DOMAIN d.sessions
                 PROVE  /\ e.sessions[s].refresh \in DOMAIN e.pairs
                        /\ e.pairs[e.sessions[s].refresh].session = s
      OBVIOUS
    <3>1. d.sessions[s].refresh \in DOMAIN d.pairs /\ d.pairs[d.sessions[s].refresh].session = s
      BY DEF TablesInv, SessionsKnowTheirPair
    <3>2. e.sessions[s] = d.sessions[s] BY <1>6
    <3> QED BY <1>5, <3>1, <3>2
  <2>2. e.sessions[k].refresh \in DOMAIN e.pairs /\ e.pairs[e.sessions[k].refresh].session = k
    BY <1>5, <1>8
  <2>3. QED BY <1>6, <2>1, <2>2 DEF SessionsKnowTheirPair
<1>10. \A p \in DOMAIN d.pairs : /\ e.pairs[p].session \in DOMAIN e.sessions
                                 /\ Newest(e, p) <=> Newest(d, p)
  BY <1>5, <1>6 DEF TablesInv, PairsHaveSessions, Newest, SessionOf
<1>11. PairsHaveSessions(e)
  <2>1. ASSUME NEW p \in DOMAIN d.pairs
        PROVE  /\ e.pairs[p].session \in DOMAIN e.sessions
               /\ e.pairs[p].from # NoPair =>
                    e.pairs[p].from \in DOMAIN e.pairs /\ ~ Newest(e, e.pairs[p].from)
    <3> DEFINE f == d.pairs[p].from
    <3>1. e.pairs[p].from = f BY <1>5
    <3>2. f # NoPair => f \in DOMAIN d.pairs /\ ~ Newest(d, f)
      BY DEF TablesInv, PairsHaveSessions
    <3> HIDE DEF f
    <3>3. ASSUME f # NoPair PROVE f \in DOMAIN e.pairs /\ ~ Newest(e, f)
      <4>1. f \in DOMAIN d.pairs /\ ~ Newest(d, f) BY <3>2, <3>3
      <4>2. Newest(e, f) <=> Newest(d, f) BY <1>10, <4>1
      <4>3. QED BY <1>5, <4>1, <4>2
    <3>4. e.pairs[p].session \in DOMAIN e.sessions BY <1>10
    <3>5. QED BY <3>1, <3>3, <3>4
  <2>2. e.pairs[n].session \in DOMAIN e.sessions /\ e.pairs[n].from = NoPair BY <1>6, <1>8
  <2>3. QED BY <1>5, <2>1, <2>2 DEF PairsHaveSessions
<1>12. OneActiveRow(e) BY <1>6, <1>8 DEF TablesInv, OneActiveRow
<1>13. AccessIsNewest(e)
  <2>1. \A p \in d.access : p \in DOMAIN e.pairs /\ Newest(e, p)
    BY <1>5, <1>10 DEF TablesInv, AccessIsNewest
  <2>2. n \in DOMAIN e.pairs /\ Newest(e, n) BY <1>5, <1>8 DEF Newest, SessionOf
  <2>3. QED BY <1>3, <2>1, <2>2 DEF AccessIsNewest, n
<1>14. EachExchangedOnce(e) BY <1>5, <1>8 DEF TablesInv, EachExchangedOnce
<1>15. TablesGrow(d, e)
  BY <1>5, <1>6 DEF TablesInv, TablesGrow, OwnerOf, SessionOf, PairsHaveSessions
<1>16. QED
  BY <1>5, <1>7, <1>9, <1>11, <1>12, <1>13, <1>14, <1>15 DEF TablesInv

\* What changes only flags of sessions and drops access tokens keeps the
\* invariant, as long as it activates none.
LEMMA EndingKeeps ==
  ASSUME NEW d, TablesInv(d), NEW e, e \in Tables(Users),
         e.pairs = d.pairs, e.access \subseteq d.access,
         DOMAIN e.sessions = DOMAIN d.sessions,
         \A s \in DOMAIN d.sessions :
           /\ e.sessions[s].user = d.sessions[s].user
           /\ e.sessions[s].refresh = d.sessions[s].refresh
           /\ Active(e.sessions[s]) => Active(d.sessions[s])
  PROVE  TablesInv(e) /\ TablesGrow(d, e)
<1>1. SessionsKnowTheirPair(e) BY DEF TablesInv, SessionsKnowTheirPair
<1>0. PairsHaveSessions(d) BY DEF TablesInv
<1>2. PairsHaveSessions(e)
  <2>1. \A p \in DOMAIN d.pairs : d.pairs[p].session \in DOMAIN d.sessions
    BY <1>0 DEF PairsHaveSessions
  <2>2. \A p \in DOMAIN d.pairs : Newest(e, p) <=> Newest(d, p)
    BY <2>1 DEF Newest, SessionOf
  <2>3. QED BY <1>0, <2>2 DEF PairsHaveSessions
<1>3. OneActiveRow(e) BY DEF TablesInv, OneActiveRow
<1>4. AccessIsNewest(e) BY DEF TablesInv, AccessIsNewest, Newest, SessionOf, PairsHaveSessions
<1>5. EachExchangedOnce(e) BY DEF TablesInv, EachExchangedOnce
<1>6. TablesGrow(d, e) BY DEF TablesInv, TablesGrow, OwnerOf, SessionOf, PairsHaveSessions
<1>7. QED BY <1>1, <1>2, <1>3, <1>4, <1>5, <1>6 DEF TablesInv

\* A row with new flags is a row of the same user and the same pair.
LEMMA FlagsTyped ==
  ASSUME NEW row \in Session(Users)
  PROVE  LET revoked == [row EXCEPT !.revoked = TRUE]
             expired == [row EXCEPT !.expired = TRUE]
         IN /\ revoked \in Session(Users) /\ revoked.user = row.user
            /\ revoked.refresh = row.refresh /\ ~ Active(revoked)
            /\ expired \in Session(Users) /\ expired.user = row.user
            /\ expired.refresh = row.refresh /\ ~ Active(expired)
BY DEF Session, Active

\* Replacing the sessions of a user leaves none of them active.
LEMMA RevokeAllKeeps ==
  ASSUME NEW d, TablesInv(d), NEW u \in Users, NEW e, e = RevokeAll(d, u)
  PROVE  /\ TablesInv(e) /\ TablesGrow(d, e)
         /\ \A s \in DOMAIN e.sessions : e.sessions[s].user = u => ~ Active(e.sessions[s])
<1> DEFINE rows == [i \in DOMAIN d.sessions |->
                      IF d.sessions[i].user = u THEN [d.sessions[i] EXCEPT !.revoked = TRUE]
                      ELSE d.sessions[i]]
           kept == {p \in d.access : OwnerOf(d, p) # u}
<1>1. d \in Tables(Users) /\ d.sessions \in Seq(Session(Users)) BY TablesFields DEF TablesInv
<1>2. e = [d EXCEPT !.sessions = rows, !.access = kept] BY DEF RevokeAll
<1>3. \A s \in DOMAIN d.sessions : d.sessions[s] \in Session(Users) BY <1>1
<1>4. \A s \in DOMAIN d.sessions :
        /\ rows[s] \in Session(Users)
        /\ rows[s].user = d.sessions[s].user /\ rows[s].refresh = d.sessions[s].refresh
        /\ Active(rows[s]) => Active(d.sessions[s])
        /\ rows[s].user = u => ~ Active(rows[s])
  BY <1>3, FlagsTyped
<1>5. rows \in Seq(Session(Users)) /\ DOMAIN rows = DOMAIN d.sessions
  <2> DEFINE n == Len(d.sessions)
  <2>1. DOMAIN d.sessions = 1..n /\ n \in Nat BY <1>1
  <2>2. DOMAIN rows = 1..n /\ rows \in [1..n -> Session(Users)] BY <1>4, <2>1
  <2> HIDE DEF n, rows
  <2>3. rows \in Seq(Session(Users)) BY <2>1, <2>2
  <2>4. QED BY <2>1, <2>2, <2>3
<1> HIDE DEF rows, kept
<1>6. e \in Tables(Users) /\ e.sessions = rows /\ e.pairs = d.pairs /\ e.access \subseteq d.access
  <2>1. kept \subseteq d.access BY DEF kept
  <2>2. QED BY <1>1, <1>2, <1>5, <2>1 DEF Tables
<1>7. TablesInv(e) /\ TablesGrow(d, e)
  BY <1>4, <1>5, <1>6, EndingKeeps
<1>8. QED BY <1>4, <1>5, <1>6, <1>7

\* A login leaves the user with one active session, that of the new pair.
LEMMA LoginKeeps ==
  ASSUME NEW d, TablesInv(d), NEW u \in Users, NEW e, e = LoginTables(d, u)
  PROVE  TablesInv(e) /\ TablesGrow(d, e) /\ Len(e.pairs) \in DOMAIN e.pairs
<1>1. CASE ActiveSessions(d, u) = {}
  <2>1. \A s \in DOMAIN d.sessions : d.sessions[s].user = u => ~ Active(d.sessions[s])
    BY <1>1 DEF ActiveSessions
  <2>2. e = Issue(d, u) BY <1>1 DEF LoginTables
  <2>3. QED BY <2>1, <2>2, IssueKeeps
<1>2. CASE ActiveSessions(d, u) # {}
  <2> DEFINE r == RevokeAll(d, u)
  <2>1. /\ TablesInv(r) /\ TablesGrow(d, r)
        /\ \A s \in DOMAIN r.sessions : r.sessions[s].user = u => ~ Active(r.sessions[s])
    BY RevokeAllKeeps
  <2>2. e = Issue(r, u) BY <1>2 DEF LoginTables
  <2> HIDE DEF r
  <2>3. TablesInv(e) /\ TablesGrow(r, e) /\ Len(e.pairs) \in DOMAIN e.pairs
    BY <2>1, <2>2, IssueKeeps
  <2>4. TablesGrow(d, e) BY <2>1, <2>3 DEF TablesGrow
  <2>5. QED BY <2>3, <2>4
<1>3. QED BY <1>1, <1>2

\* Exchanging the newest pair of an active session keeps the invariant: the new
\* pair is the newest, and no pair was exchanged from the old one before.
LEMMA RefreshKeeps ==
  ASSUME NEW d, TablesInv(d), NEW p \in DOMAIN d.pairs, Refreshable(d, p),
         NEW e, e = RefreshTables(d, p)
  PROVE  TablesInv(e) /\ TablesGrow(d, e) /\ Len(e.pairs) \in DOMAIN e.pairs
<1> DEFINE s == d.pairs[p].session
           n == Len(d.pairs) + 1
           row == [d.sessions[s] EXCEPT !.refresh = n]
           pair == [session |-> s, from |-> p]
           kept == {r \in d.access : d.pairs[r].session # s} \cup {n}
<1>1. /\ d \in Tables(Users)
      /\ d.sessions \in Seq(Session(Users))
      /\ d.pairs \in Seq([session : Nat, from : Nat])
      /\ d.access \subseteq Nat
  BY TablesFields DEF TablesInv
<1>2. s \in DOMAIN d.sessions /\ d.sessions[s] \in Session(Users) /\ d.sessions[s].refresh = p
  <2>1. s \in DOMAIN d.sessions BY DEF TablesInv, PairsHaveSessions
  <2>2. d.sessions[s].refresh = p BY DEF Refreshable, Newest, SessionOf
  <2> HIDE DEF s
  <2>3. QED BY <1>1, <2>1, <2>2
<1>3. s \in Nat /\ p \in Nat \ {0} /\ n \in Nat BY <1>1, <1>2
<1>4. /\ row \in Session(Users) /\ row.user = d.sessions[s].user /\ row.refresh = n
      /\ Active(row) <=> Active(d.sessions[s])
  BY <1>2, <1>3 DEF Session, Active
<1>5. e = [sessions |-> [d.sessions EXCEPT ![s] = row], pairs |-> Append(d.pairs, pair),
           access |-> kept]
  BY <1>1 DEF RefreshTables, Tables
<1>6. /\ e.pairs \in Seq([session : Nat, from : Nat])
      /\ DOMAIN e.pairs = DOMAIN d.pairs \cup {n} /\ n \notin DOMAIN d.pairs
      /\ \A q \in DOMAIN d.pairs : e.pairs[q] = d.pairs[q]
      /\ e.pairs[n] = pair /\ Len(e.pairs) = n
  <2> DEFINE P == [session : Nat, from : Nat]
  <2>1. d.pairs \in Seq(P) /\ pair \in P BY <1>1, <1>3
  <2>2. e.pairs = Append(d.pairs, pair) BY <1>5
  <2> HIDE DEF P, pair
  <2>3. /\ e.pairs \in Seq(P)
        /\ DOMAIN e.pairs = DOMAIN d.pairs \cup {n} /\ n \notin DOMAIN d.pairs
        /\ \A q \in DOMAIN d.pairs : e.pairs[q] = d.pairs[q]
        /\ e.pairs[n] = pair /\ Len(e.pairs) = n
    BY <2>1, <2>2, AppendFacts
  <2>4. QED BY <2>3 DEF P
<1>7. /\ e.sessions \in Seq(Session(Users))
      /\ DOMAIN e.sessions = DOMAIN d.sessions
      /\ e.sessions[s] = row
      /\ \A r \in DOMAIN d.sessions \ {s} : e.sessions[r] = d.sessions[r]
  <2>1. row \in Session(Users) /\ s \in DOMAIN d.sessions BY <1>2, <1>4
  <2>2. e.sessions = [d.sessions EXCEPT ![s] = row] BY <1>5
  <2> HIDE DEF s, row
  <2>3. QED BY <1>1, <2>1, <2>2
<1>8. e.pairs[n].session = s /\ e.pairs[n].from = p BY <1>6
<1>9. e.access = kept /\ kept \subseteq Nat BY <1>1, <1>3, <1>5
<1>10. e \in Tables(Users)
  <2>1. e = [sessions |-> e.sessions, pairs |-> e.pairs, access |-> e.access] BY <1>5
  <2>2. QED BY <1>6, <1>7, <1>9, <2>1 DEF Tables
<1>11. /\ \A q \in DOMAIN d.pairs : d.pairs[q].session \in DOMAIN d.sessions
       /\ \A q \in DOMAIN d.pairs :
            d.pairs[q].from # NoPair =>
              d.pairs[q].from \in DOMAIN d.pairs /\ ~ Newest(d, d.pairs[q].from)
       /\ Newest(d, p)
  BY DEF TablesInv, PairsHaveSessions, Refreshable
<1> HIDE DEF s, n, row, pair, kept
<1>12. SessionsKnowTheirPair(e)
  <2>1. ASSUME NEW r \in DOMAIN d.sessions, r # s
        PROVE  /\ e.sessions[r].refresh \in DOMAIN e.pairs
               /\ e.pairs[e.sessions[r].refresh].session = r
    <3>1. /\ d.sessions[r].refresh \in DOMAIN d.pairs
          /\ d.pairs[d.sessions[r].refresh].session = r
      BY DEF TablesInv, SessionsKnowTheirPair
    <3>2. QED BY <1>6, <1>7, <2>1, <3>1
  <2>2. e.sessions[s].refresh \in DOMAIN e.pairs /\ e.pairs[e.sessions[s].refresh].session = s
    BY <1>4, <1>6, <1>7, <1>8
  <2>3. QED BY <1>7, <2>1, <2>2 DEF SessionsKnowTheirPair
<1>13. \A q \in DOMAIN d.pairs :
         /\ d.pairs[q].session = s => ~ Newest(e, q)
         /\ d.pairs[q].session # s => (Newest(e, q) <=> Newest(d, q))
  <2>1. ASSUME NEW q \in DOMAIN d.pairs, d.pairs[q].session = s PROVE ~ Newest(e, q)
    BY <1>4, <1>6, <1>7, <2>1 DEF Newest, SessionOf
  <2>2. ASSUME NEW q \in DOMAIN d.pairs, d.pairs[q].session # s
        PROVE  Newest(e, q) <=> Newest(d, q)
    BY <1>6, <1>7, <1>11, <2>2 DEF Newest, SessionOf
  <2>3. QED BY <2>1, <2>2
<1>14. PairsHaveSessions(e)
  <2>1. ASSUME NEW q \in DOMAIN d.pairs
        PROVE  /\ e.pairs[q].session \in DOMAIN e.sessions
               /\ e.pairs[q].from # NoPair =>
                    e.pairs[q].from \in DOMAIN e.pairs /\ ~ Newest(e, e.pairs[q].from)
    <3> DEFINE f == d.pairs[q].from
    <3>1. e.pairs[q].from = f /\ e.pairs[q].session \in DOMAIN e.sessions BY <1>6, <1>7, <1>11
    <3>2. f # NoPair => f \in DOMAIN d.pairs /\ ~ Newest(d, f) BY <1>11
    <3> HIDE DEF f
    <3>3. f # NoPair => f \in DOMAIN e.pairs /\ ~ Newest(e, f) BY <1>6, <1>13, <3>2
    <3>4. QED BY <3>1, <3>3
  <2>2. /\ e.pairs[n].session \in DOMAIN e.sessions
        /\ e.pairs[n].from \in DOMAIN e.pairs /\ ~ Newest(e, e.pairs[n].from)
    <3>1. d.pairs[p].session = s BY DEF s
    <3>2. ~ Newest(e, p) BY <1>13, <3>1
    <3>3. QED BY <1>2, <1>6, <1>7, <1>8, <3>2
  <2>3. QED BY <1>6, <2>1, <2>2 DEF PairsHaveSessions
<1>15. OneActiveRow(e)
  <2>1. \A r \in DOMAIN d.sessions : /\ e.sessions[r].user = d.sessions[r].user
                                     /\ Active(e.sessions[r]) <=> Active(d.sessions[r])
    BY <1>4, <1>7
  <2>2. ASSUME NEW r \in DOMAIN d.sessions, NEW q \in DOMAIN d.sessions,
               e.sessions[r].user = e.sessions[q].user,
               Active(e.sessions[r]), Active(e.sessions[q])
        PROVE  r = q
    <3>1. /\ d.sessions[r].user = d.sessions[q].user
          /\ Active(d.sessions[r]) /\ Active(d.sessions[q])
      BY <2>1, <2>2
    <3>2. QED BY <3>1 DEF TablesInv, OneActiveRow
  <2>3. QED BY <1>7, <2>2 DEF OneActiveRow
<1>16. AccessIsNewest(e)
  <2>1. ASSUME NEW q \in d.access, d.pairs[q].session # s
        PROVE  q \in DOMAIN e.pairs /\ Newest(e, q)
    <3>1. q \in DOMAIN d.pairs /\ Newest(d, q) BY DEF TablesInv, AccessIsNewest
    <3>2. QED BY <1>6, <1>13, <2>1, <3>1
  <2>2. n \in DOMAIN e.pairs /\ Newest(e, n) BY <1>4, <1>6, <1>7, <1>8 DEF Newest, SessionOf
  <2>3. QED BY <1>9, <2>1, <2>2 DEF AccessIsNewest, kept
<1>17. EachExchangedOnce(e)
  <2>1. \A q \in DOMAIN d.pairs : d.pairs[q].from # p
    <3>1. ASSUME NEW q \in DOMAIN d.pairs, d.pairs[q].from = p PROVE FALSE
      BY <1>3, <1>11, <3>1 DEF NoPair
    <3>2. QED BY <3>1
  <2>2. \A q \in DOMAIN d.pairs : e.pairs[q].from = d.pairs[q].from BY <1>6
  <2>3. QED BY <1>6, <1>8, <2>1, <2>2 DEF TablesInv, EachExchangedOnce
<1>18. TablesGrow(d, e)
  <2>1. \A q \in DOMAIN d.pairs : OwnerOf(e, q) = OwnerOf(d, q)
    BY <1>4, <1>6, <1>7, <1>11 DEF OwnerOf, SessionOf
  <2>2. QED BY <1>6, <2>1 DEF TablesGrow
<1>19. QED
  BY <1>6, <1>10, <1>12, <1>14, <1>15, <1>16, <1>17, <1>18 DEF TablesInv

\* Signing out, and the passing of time, keep the invariant.
LEMMA EndsKeep ==
  ASSUME NEW d, TablesInv(d)
  PROVE  /\ \A p \in DOMAIN d.pairs :
              TablesInv(LogoutTables(d, p)) /\ TablesGrow(d, LogoutTables(d, p))
         /\ \A p : TablesInv(ExpireAccess(d, p)) /\ TablesGrow(d, ExpireAccess(d, p))
         /\ \A s \in DOMAIN d.sessions :
              TablesInv(ExpireSession(d, s)) /\ TablesGrow(d, ExpireSession(d, s))
<1>1. /\ d \in Tables(Users)
      /\ d.sessions \in Seq(Session(Users)) /\ d.access \subseteq Nat
      /\ \A s \in DOMAIN d.sessions : d.sessions[s] \in Session(Users)
  <2>1. d \in Tables(Users) /\ d.sessions \in Seq(Session(Users)) /\ d.access \subseteq Nat
    BY TablesFields DEF TablesInv
  <2>2. QED BY <2>1
<1>2. ASSUME NEW s \in DOMAIN d.sessions, NEW row \in Session(Users), NEW kept \in SUBSET d.access,
             NEW e, e = [d EXCEPT !.sessions = [d.sessions EXCEPT ![s] = row], !.access = kept],
             row.user = d.sessions[s].user, row.refresh = d.sessions[s].refresh, ~ Active(row)
      PROVE  TablesInv(e) /\ TablesGrow(d, e)
  <2> DEFINE rows == [d.sessions EXCEPT ![s] = row]
  <2>1. /\ rows \in Seq(Session(Users)) /\ DOMAIN rows = DOMAIN d.sessions
        /\ rows[s] = row /\ \A r \in DOMAIN d.sessions \ {s} : rows[r] = d.sessions[r]
    BY <1>1
  <2> HIDE DEF rows
  <2>2. /\ e \in Tables(Users) /\ e.sessions = rows /\ e.pairs = d.pairs
        /\ e.access \subseteq d.access
    BY <1>1, <1>2, <2>1 DEF Tables, rows
  <2>3. QED BY <1>2, <2>1, <2>2, EndingKeeps
<1>3. ASSUME NEW p \in DOMAIN d.pairs
      PROVE  TablesInv(LogoutTables(d, p)) /\ TablesGrow(d, LogoutTables(d, p))
  <2> DEFINE s == d.pairs[p].session
             row == [d.sessions[s] EXCEPT !.revoked = TRUE]
  <2>1. s \in DOMAIN d.sessions BY DEF TablesInv, PairsHaveSessions
  <2>2. /\ row \in Session(Users) /\ row.user = d.sessions[s].user
        /\ row.refresh = d.sessions[s].refresh /\ ~ Active(row)
    BY <1>1, <2>1, FlagsTyped
  <2>3. LogoutTables(d, p) = [d EXCEPT !.sessions = [d.sessions EXCEPT ![s] = row],
                                       !.access = d.access \ {p}]
    BY <1>1 DEF LogoutTables, Tables
  <2> HIDE DEF row, s
  <2>4. QED BY <1>2, <2>1, <2>2, <2>3
<1>4. ASSUME NEW p
      PROVE  TablesInv(ExpireAccess(d, p)) /\ TablesGrow(d, ExpireAccess(d, p))
  <2> DEFINE e == ExpireAccess(d, p)
  <2>1. /\ e \in Tables(Users) /\ e.sessions = d.sessions /\ e.pairs = d.pairs
        /\ e.access \subseteq d.access
    BY <1>1 DEF ExpireAccess, Tables
  <2> HIDE DEF e
  <2>2. TablesInv(e) /\ TablesGrow(d, e) BY <2>1, EndingKeeps
  <2>3. QED BY <2>2 DEF e
<1>5. ASSUME NEW s \in DOMAIN d.sessions
      PROVE  TablesInv(ExpireSession(d, s)) /\ TablesGrow(d, ExpireSession(d, s))
  <2> DEFINE row == [d.sessions[s] EXCEPT !.expired = TRUE]
  <2>1. /\ row \in Session(Users) /\ row.user = d.sessions[s].user
        /\ row.refresh = d.sessions[s].refresh /\ ~ Active(row)
    BY <1>1, FlagsTyped
  <2>2. ExpireSession(d, s) = [d EXCEPT !.sessions = [d.sessions EXCEPT ![s] = row],
                                        !.access = d.access]
    BY <1>1 DEF ExpireSession, Tables
  <2> HIDE DEF row
  <2>3. QED BY <1>2, <2>1, <2>2
<1>6. QED BY <1>3, <1>4, <1>5
-----------------------------------------------------------------------------
(* The tabs.  Every pair a tab, a request or the storage names is one of   *)
(* the tables, and a tab that knows its user knows the owner of its pair,  *)
(* unless the answer to an older request was shown since.                  *)

TabRefers(x, d) ==
  /\ x.tokens = NoPair => x.boot.at = "none"
  /\ x.tokens # NoPair => x.tokens \in DOMAIN d.pairs
  /\ x.refresh.at = "pending" => x.refresh.pair \in DOMAIN d.pairs
  /\ x.refresh.at = "ok" => x.refresh.got \in DOMAIN d.pairs
  /\ x.login.at = "ok" => x.login.got \in DOMAIN d.pairs
  /\ x.logout.at = "pending" => x.logout.pair \in DOMAIN d.pairs
  /\ \A r \in x.calls : r.pair \in DOMAIN d.pairs

TabKnows(x, d) ==
  /\ x.boot.at = "ok" => x.boot.user = OwnerOf(d, x.tokens)
  /\ x.boot.at = "done" => x.me = OwnerOf(d, x.tokens) \/ x.mixed

TabInv(x, d) == x \in Tab /\ TabRefers(x, d) /\ TabKnows(x, d)

SessionsInv ==
  /\ TablesInv(db)
  /\ stored \in [Browsers -> Nat]
  /\ \A b \in Browsers : stored[b] # NoPair => stored[b] \in DOMAIN db.pairs
  /\ tab \in [Tabs -> Tab] /\ \A t \in Tabs : TabInv(tab[t], db)
  /\ late \subseteq Request
  /\ \A r \in late : r.op # "login" => r.pair \in DOMAIN db.pairs
  /\ aged \subseteq DOMAIN db.pairs
  /\ lost \subseteq Nat /\ losses \in 0..MaxLosses

\* Every field of a tab has its type.
LEMMA TabFields ==
  ASSUME NEW x \in Tab
  PROVE  /\ x.tokens \in Nat /\ x.me \in Users \cup {NoUser} /\ x.boot \in Boot
         /\ x.refresh \in Refresh /\ x.armed \in BOOLEAN /\ x.login \in Login
         /\ x.warned \in Users \cup {NoUser} /\ x.logout \in Logout
         /\ x.calls \subseteq Call /\ x.mixed \in BOOLEAN
BY DEF Tab

\* A tab stays a tab when one of its fields changes.
LEMMA TabUpdates ==
  ASSUME NEW x \in Tab
  PROVE  /\ \A v \in Nat : [x EXCEPT !.tokens = v] \in Tab
         /\ \A v \in Users \cup {NoUser} : [x EXCEPT !.me = v] \in Tab
         /\ \A v \in Boot : [x EXCEPT !.boot = v] \in Tab
         /\ \A v \in Refresh : [x EXCEPT !.refresh = v] \in Tab
         /\ \A v \in BOOLEAN : [x EXCEPT !.armed = v] \in Tab
         /\ \A v \in Login : [x EXCEPT !.login = v] \in Tab
         /\ \A v \in Users \cup {NoUser} : [x EXCEPT !.warned = v] \in Tab
         /\ \A v \in Logout : [x EXCEPT !.logout = v] \in Tab
         /\ \A v \in SUBSET Call : [x EXCEPT !.calls = v] \in Tab
BY DEF Tab

\* What a tab says of the tables stays true when they grow.
LEMMA TabStable ==
  ASSUME NEW d, NEW e, TablesGrow(d, e), NEW x, TabInv(x, d)
  PROVE  TabInv(x, e)
<1>1. TabRefers(x, e) BY DEF TabInv, TabRefers, TablesGrow
<1>2. TabKnows(x, e) BY DEF TabInv, TabRefers, TabKnows, TablesGrow
<1>3. QED BY <1>1, <1>2 DEF TabInv

\* Tables that do not change count as tables that grow.
LEMMA TablesGrowSame == \A d : TablesGrow(d, d)
BY DEF TablesGrow

\* A step that replaces the state of one tab, and at most grows the tables,
\* keeps the invariant.
LEMMA TabStepKeeps ==
  ASSUME SessionsInv, NEW t \in Tabs, NEW y, TabInv(y, db'),
         tab' = [tab EXCEPT ![t] = y],
         TablesInv(db'), TablesGrow(db, db'),
         \/ UNCHANGED stored
         \/ /\ stored' = [stored EXCEPT ![BrowserOf[t]] = y.tokens],
         late' \subseteq Request,
         \A r \in late' : r.op # "login" => r.pair \in DOMAIN db'.pairs,
         UNCHANGED aged, lost' \subseteq Nat, losses' \in 0..MaxLosses
  PROVE  SessionsInv'
<1>1. tab' \in [Tabs -> Tab] /\ \A o \in Tabs : TabInv(tab'[o], db')
  <2>1. y \in Tab /\ tab \in [Tabs -> Tab] BY DEF TabInv, SessionsInv
  <2>2. \A o \in Tabs : TabInv(tab[o], db') BY TabStable DEF SessionsInv
  <2>3. QED BY <2>1, <2>2
<1>2. /\ stored' \in [Browsers -> Nat]
      /\ \A b \in Browsers : stored'[b] # NoPair => stored'[b] \in DOMAIN db'.pairs
  <2>1. /\ stored \in [Browsers -> Nat]
        /\ \A b \in Browsers : stored[b] # NoPair => stored[b] \in DOMAIN db'.pairs
    BY DEF SessionsInv, TablesGrow
  <2>2. y.tokens \in Nat /\ (y.tokens # NoPair => y.tokens \in DOMAIN db'.pairs)
    BY TabFields DEF TabInv, TabRefers
  <2>3. BrowserOf[t] \in Browsers BY BrowserOfAssumption DEF Tabs
  <2>4. QED BY <2>1, <2>2, <2>3
<1>3. aged' \subseteq DOMAIN db'.pairs BY DEF SessionsInv, TablesGrow
<1>4. QED BY <1>1, <1>2, <1>3 DEF SessionsInv

\* Steps of a tab that leave the tables and the requests of others alone.
LEMMA OwnStepKeeps ==
  ASSUME SessionsInv, NEW t \in Tabs, NEW y, TabInv(y, db),
         tab' = [tab EXCEPT ![t] = y],
         \/ UNCHANGED stored
         \/ stored' = [stored EXCEPT ![BrowserOf[t]] = y.tokens],
         UNCHANGED <<db, late, aged, losses>>, lost' \subseteq Nat
  PROVE  SessionsInv'
BY TabStepKeeps, TablesGrowSame DEF SessionsInv

\* A tab as it mounts.
LEMMA MountedKeeps ==
  ASSUME NEW d, NEW p \in Nat, p # NoPair => p \in DOMAIN d.pairs
  PROVE  TabInv(Mounted(p), d)
<1>1. Mounted(p) \in Tab
  BY DEF Mounted, Tab, Boot, NoBoot, Refresh, NoRefresh, NoPair, Login, Logout, Idle
<1>2. TabRefers(Mounted(p), d) /\ TabKnows(Mounted(p), d)
  BY DEF Mounted, TabRefers, TabKnows, NoBoot, NoRefresh, Idle
<1>3. QED BY <1>1, <1>2 DEF TabInv

\* The invariant holds before anybody signed in.
LEMMA InitSessionsInv == Init => SessionsInv
<1> SUFFICES ASSUME Init PROVE SessionsInv OBVIOUS
<1>1. TablesInv(db) BY EmptyTablesInv DEF Init
<1>2. TabInv(Mounted(NoPair), db) BY MountedKeeps, NoPair \in Nat DEF NoPair
<1>3. tab \in [Tabs -> Tab] /\ \A t \in Tabs : TabInv(tab[t], db)
  BY <1>2 DEF Init, TabInv
<1>4. QED BY <1>1, <1>3, LossAssumption DEF Init, SessionsInv, NoPair
-----------------------------------------------------------------------------
(* What the handlers do to a tab.                                          *)

\* The boot effect moves on.
LEMMA BootMoves ==
  ASSUME NEW d, NEW x, TabInv(x, d), NEW v \in Boot,
         x.boot.at # "none",
         v.at = "ok" => v.user = OwnerOf(d, x.tokens),
         v.at = "done" => x.me = OwnerOf(d, x.tokens) \/ x.mixed
  PROVE  TabInv([x EXCEPT !.boot = v], d)
<1> DEFINE y == [x EXCEPT !.boot = v]
<1>1. y \in Tab BY TabUpdates DEF TabInv
<1>2. /\ y.tokens = x.tokens /\ y.me = x.me /\ y.boot = v /\ y.refresh = x.refresh
      /\ y.login = x.login /\ y.logout = x.logout /\ y.calls = x.calls /\ y.mixed = x.mixed
  BY DEF TabInv, Tab
<1> HIDE DEF y
<1>3. TabRefers(y, d) /\ TabKnows(y, d) BY <1>2 DEF TabInv, TabRefers, TabKnows
<1>4. QED BY <1>1, <1>3 DEF TabInv, y

\* The refresh in flight moves on.
LEMMA RefreshMoves ==
  ASSUME NEW d, NEW x, TabInv(x, d), NEW v \in Refresh,
         v.at = "pending" => v.pair \in DOMAIN d.pairs,
         v.at = "ok" => v.got \in DOMAIN d.pairs
  PROVE  TabInv([x EXCEPT !.refresh = v], d)
<1> DEFINE y == [x EXCEPT !.refresh = v]
<1>1. y \in Tab BY TabUpdates DEF TabInv
<1>2. /\ y.tokens = x.tokens /\ y.me = x.me /\ y.boot = x.boot /\ y.refresh = v
      /\ y.login = x.login /\ y.logout = x.logout /\ y.calls = x.calls /\ y.mixed = x.mixed
  BY DEF TabInv, Tab
<1> HIDE DEF y
<1>3. TabRefers(y, d) /\ TabKnows(y, d) BY <1>2 DEF TabInv, TabRefers, TabKnows
<1>4. QED BY <1>1, <1>3 DEF TabInv, y

\* The login moves on.
LEMMA LoginMoves ==
  ASSUME NEW d, NEW x, TabInv(x, d), NEW v \in Login,
         v.at = "ok" => v.got \in DOMAIN d.pairs
  PROVE  TabInv([x EXCEPT !.login = v], d)
<1> DEFINE y == [x EXCEPT !.login = v]
<1>1. y \in Tab BY TabUpdates DEF TabInv
<1>2. /\ y.tokens = x.tokens /\ y.me = x.me /\ y.boot = x.boot /\ y.refresh = x.refresh
      /\ y.login = v /\ y.logout = x.logout /\ y.calls = x.calls /\ y.mixed = x.mixed
  BY DEF TabInv, Tab
<1> HIDE DEF y
<1>3. TabRefers(y, d) /\ TabKnows(y, d) BY <1>2 DEF TabInv, TabRefers, TabKnows
<1>4. QED BY <1>1, <1>3 DEF TabInv, y

\* The logout moves on.
LEMMA LogoutMoves ==
  ASSUME NEW d, NEW x, TabInv(x, d), NEW v \in Logout,
         v.at = "pending" => v.pair \in DOMAIN d.pairs
  PROVE  TabInv([x EXCEPT !.logout = v], d)
<1> DEFINE y == [x EXCEPT !.logout = v]
<1>1. y \in Tab BY TabUpdates DEF TabInv
<1>2. /\ y.tokens = x.tokens /\ y.me = x.me /\ y.boot = x.boot /\ y.refresh = x.refresh
      /\ y.login = x.login /\ y.logout = v /\ y.calls = x.calls /\ y.mixed = x.mixed
  BY DEF TabInv, Tab
<1> HIDE DEF y
<1>3. TabRefers(y, d) /\ TabKnows(y, d) BY <1>2 DEF TabInv, TabRefers, TabKnows
<1>4. QED BY <1>1, <1>3 DEF TabInv, y

\* The warning and the timer are free.
LEMMA WarningAndTimerMove ==
  ASSUME NEW d, NEW x, TabInv(x, d)
  PROVE  /\ \A v \in Users \cup {NoUser} : TabInv([x EXCEPT !.warned = v], d)
         /\ \A v \in BOOLEAN : TabInv([x EXCEPT !.armed = v], d)
<1>1. ASSUME NEW v \in Users \cup {NoUser} PROVE TabInv([x EXCEPT !.warned = v], d)
  <2> DEFINE y == [x EXCEPT !.warned = v]
  <2>1. y \in Tab BY TabUpdates DEF TabInv
  <2>2. /\ y.tokens = x.tokens /\ y.me = x.me /\ y.boot = x.boot /\ y.refresh = x.refresh
        /\ y.login = x.login /\ y.logout = x.logout /\ y.calls = x.calls /\ y.mixed = x.mixed
    BY DEF TabInv, Tab
  <2> HIDE DEF y
  <2>3. TabRefers(y, d) /\ TabKnows(y, d) BY <2>2 DEF TabInv, TabRefers, TabKnows
  <2>4. QED BY <2>1, <2>3 DEF TabInv, y
<1>2. ASSUME NEW v \in BOOLEAN PROVE TabInv([x EXCEPT !.armed = v], d)
  <2> DEFINE y == [x EXCEPT !.armed = v]
  <2>1. y \in Tab BY TabUpdates DEF TabInv
  <2>2. /\ y.tokens = x.tokens /\ y.me = x.me /\ y.boot = x.boot /\ y.refresh = x.refresh
        /\ y.login = x.login /\ y.logout = x.logout /\ y.calls = x.calls /\ y.mixed = x.mixed
    BY DEF TabInv, Tab
  <2> HIDE DEF y
  <2>3. TabRefers(y, d) /\ TabKnows(y, d) BY <2>2 DEF TabInv, TabRefers, TabKnows
  <2>4. QED BY <2>1, <2>3 DEF TabInv, y
<1>3. QED BY <1>1, <1>2

\* New tokens, and no tokens.
LEMMA TokensMove ==
  ASSUME NEW d, NEW x, TabInv(x, d)
  PROVE  /\ \A p \in Nat \ {NoPair} :
              p \in DOMAIN d.pairs => /\ TabInv(WithTokens(x, p), d)
                                      /\ WithTokens(x, p).tokens = p
         /\ LET y == [x EXCEPT !.tokens = NoPair, !.me = NoUser, !.boot = NoBoot, !.armed = FALSE]
            IN TabInv(y, d) /\ y.tokens = NoPair
<1>1. ASSUME NEW p \in Nat \ {NoPair}, p \in DOMAIN d.pairs
      PROVE  TabInv(WithTokens(x, p), d) /\ WithTokens(x, p).tokens = p
  <2> DEFINE y == WithTokens(x, p)
             asked == [at |-> "asked", user |-> NoUser]
  <2>2. asked \in Boot BY DEF Boot
  <2>3. y \in Tab BY <1>1, <2>2 DEF TabInv, Tab, WithTokens
  <2>4. /\ y.tokens = p /\ y.boot = asked /\ y.refresh = x.refresh
        /\ y.login = x.login /\ y.logout = x.logout /\ y.calls = x.calls /\ y.mixed = x.mixed
    BY DEF TabInv, Tab, WithTokens
  <2> HIDE DEF y
  <2>5. TabRefers(y, d) /\ TabKnows(y, d) BY <1>1, <2>4 DEF TabInv, TabRefers, TabKnows
  <2>6. QED BY <2>3, <2>4, <2>5 DEF TabInv, y
<1>2. LET y == [x EXCEPT !.tokens = NoPair, !.me = NoUser, !.boot = NoBoot, !.armed = FALSE]
      IN TabInv(y, d) /\ y.tokens = NoPair
  <2> DEFINE y == [x EXCEPT !.tokens = NoPair, !.me = NoUser, !.boot = NoBoot, !.armed = FALSE]
  <2>2. NoBoot \in Boot /\ NoBoot.at = "none" /\ NoPair \in Nat BY DEF NoBoot, Boot, NoPair
  <2>3. y \in Tab BY <2>2 DEF TabInv, Tab
  <2>4. /\ y.tokens = NoPair /\ y.boot = NoBoot /\ y.refresh = x.refresh
        /\ y.login = x.login /\ y.logout = x.logout /\ y.calls = x.calls /\ y.mixed = x.mixed
    BY DEF TabInv, Tab
  <2> HIDE DEF y
  <2>5. TabRefers(y, d) /\ TabKnows(y, d) BY <2>2, <2>4 DEF TabInv, TabRefers, TabKnows
  <2>6. QED BY <2>3, <2>4, <2>5 DEF TabInv, y
<1>3. QED BY <1>1, <1>2

\* Joining a refresh with the tokens of the tab.
LEMMA JoinMoves ==
  ASSUME NEW d, NEW x, TabInv(x, d), x.tokens \in DOMAIN d.pairs, NEW who
  PROVE  TabInv(JoinRefresh(x, who), d)
<1> DEFINE fresh == [at |-> "pending", pair |-> x.tokens, got |-> NoPair,
                     timer |-> who = Timer, boot |-> who = BootRun]
           joined == Waits(x.refresh, who)
<1>1. x.tokens \in Nat /\ x.refresh \in Refresh BY TabFields DEF TabInv
<1>2. CASE x.refresh.at = "none"
  <2>1. fresh \in Refresh BY <1>1 DEF Refresh, NoPair
  <2>2. JoinRefresh(x, who) = [x EXCEPT !.refresh = fresh] BY <1>2 DEF JoinRefresh
  <2>3. QED BY <2>1, <2>2, RefreshMoves
<1>3. CASE x.refresh.at # "none"
  <2>1. /\ joined \in Refresh /\ joined.at = x.refresh.at
        /\ joined.pair = x.refresh.pair /\ joined.got = x.refresh.got
    BY <1>1 DEF Refresh, Waits
  <2>2. JoinRefresh(x, who) = [x EXCEPT !.refresh = joined] BY <1>3 DEF JoinRefresh
  <2>3. /\ joined.at = "pending" => joined.pair \in DOMAIN d.pairs
        /\ joined.at = "ok" => joined.got \in DOMAIN d.pairs
    BY <2>1 DEF TabInv, TabRefers
  <2> HIDE DEF joined
  <2>4. QED BY <2>1, <2>2, <2>3, RefreshMoves
<1>4. QED BY <1>2, <1>3
-----------------------------------------------------------------------------
(* The invariant is kept: one lemma per group of actions.                  *)

\* What the invariant says of one tab.
LEMMA TabFacts ==
  ASSUME SessionsInv, NEW t \in Tabs
  PROVE  /\ TablesInv(db) /\ TabInv(tab[t], db) /\ tab[t] \in Tab
         /\ lost \subseteq Nat /\ losses \in 0..MaxLosses
         /\ tab[t].tokens \in Nat /\ tab[t].boot \in Boot /\ tab[t].refresh \in Refresh
         /\ tab[t].login \in Login /\ tab[t].logout \in Logout
<1>1. TabInv(tab[t], db) /\ tab[t] \in Tab BY DEF SessionsInv, TabInv
<1>2. QED BY <1>1, TabFields DEF SessionsInv

\* A pair of the tables is a positive number.
LEMMA PairsArePositive ==
  ASSUME NEW d, TablesInv(d), NEW p \in DOMAIN d.pairs
  PROVE  p \in Nat \ {NoPair}
BY TablesFields DEF TablesInv, NoPair

\* setToken with a pair of the tables.
LEMMA KeepKeeps ==
  ASSUME SessionsInv, NEW t \in Tabs, NEW x, TabInv(x, db), NEW p \in DOMAIN db.pairs,
         Keep(t, x, p), UNCHANGED <<db, late, aged, losses>>, lost' \subseteq Nat
  PROVE  SessionsInv'
<1> DEFINE y == WithTokens(x, p)
<1>1. p \in Nat \ {NoPair} BY PairsArePositive DEF SessionsInv
<1>2. TabInv(y, db) /\ y.tokens = p BY <1>1, TokensMove
<1>3. tab' = [tab EXCEPT ![t] = y] /\ stored' = [stored EXCEPT ![BrowserOf[t]] = y.tokens]
  BY <1>2 DEF Keep
<1> HIDE DEF y
<1>4. QED BY <1>2, <1>3, OwnStepKeeps

\* clearAuth.
LEMMA ClearKeeps ==
  ASSUME SessionsInv, NEW t \in Tabs, NEW x, TabInv(x, db),
         ClearAuth(t, x), UNCHANGED <<db, late, aged, losses>>, lost' \subseteq Nat
  PROVE  SessionsInv'
<1> DEFINE y == [x EXCEPT !.tokens = NoPair, !.me = NoUser, !.boot = NoBoot, !.armed = FALSE]
<1>1. TabInv(y, db) /\ y.tokens = NoPair BY TokensMove
<1>2. tab' = [tab EXCEPT ![t] = y] /\ stored' = [stored EXCEPT ![BrowserOf[t]] = y.tokens]
  BY <1>1 DEF ClearAuth
<1> HIDE DEF y
<1>3. QED BY <1>1, <1>2, OwnStepKeeps

\* The boot effect.
LEMMA BootKeeps ==
  ASSUME SessionsInv, NEW t \in Tabs, BootStep(t)
  PROVE  SessionsInv'
<1> DEFINE x == tab[t]
<1>1. /\ TablesInv(db) /\ TabInv(x, db) /\ x \in Tab /\ lost \subseteq Nat
      /\ x.boot \in Boot /\ x.tokens \in Nat
  BY TabFacts
<1>2. x.boot.at # "none" => x.tokens # NoPair /\ x.tokens \in DOMAIN db.pairs
  BY <1>1 DEF TabInv, TabRefers
<1>3. tab \in [Tabs -> Tab] BY DEF SessionsInv
<1>4. ASSUME ServerMe(t) PROVE SessionsInv'
  <2> DEFINE v == IF Verified(db, x.tokens)
                  THEN [at |-> "ok", user |-> OwnerOf(db, x.tokens)]
                  ELSE [at |-> "denied", user |-> NoUser]
             y == [x EXCEPT !.boot = v]
  <2>1. tab' = [tab EXCEPT ![t] = y] /\ UNCHANGED <<db, stored, late, aged, lost, losses>>
    BY <1>4 DEF ServerMe
  <2>2. x.boot.at # "none" BY <1>4 DEF ServerMe
  <2>3. OwnerOf(db, x.tokens) \in Users BY <1>1, <1>2, <2>2, OwnerTyped
  <2>4. /\ v \in Boot /\ v.at # "done" /\ (v.at = "ok" => v.user = OwnerOf(db, x.tokens))
    BY <2>3 DEF Boot
  <2> HIDE DEF v, x
  <2>5. TabInv(y, db) BY <1>1, <2>2, <2>4, BootMoves
  <2> HIDE DEF y
  <2>6. QED BY <1>1, <2>1, <2>5, OwnStepKeeps
<1>5. ASSUME BootShowsUser(t) PROVE SessionsInv'
  <2> DEFINE y == [x EXCEPT !.me = x.boot.user, !.boot.at = "done", !.warned = NoUser,
                      !.mixed = FALSE]
  <2>1. tab' = [tab EXCEPT ![t] = y] /\ UNCHANGED <<db, stored, late, aged, lost, losses>>
    BY <1>5 DEF BootShowsUser
  <2>2. x.boot.at = "ok" /\ x.boot.user \in Users \cup {NoUser}
    BY <1>1, <1>5 DEF BootShowsUser, Boot
  <2> HIDE DEF x
  <2>3. y \in Tab BY <1>1, <2>2 DEF Tab, Boot
  <2>4. /\ y.tokens = x.tokens /\ y.me = x.boot.user /\ y.refresh = x.refresh
        /\ y.login = x.login /\ y.logout = x.logout /\ y.calls = x.calls /\ y.boot.at = "done"
    BY <1>1 DEF Tab, Boot
  <2> HIDE DEF y
  <2>5. TabInv(y, db) BY <1>1, <2>2, <2>3, <2>4 DEF TabInv, TabRefers, TabKnows
  <2>6. QED BY <1>1, <2>1, <2>5, OwnStepKeeps
<1>6. ASSUME BootRefreshes(t) PROVE SessionsInv'
  <2> DEFINE z == JoinRefresh(x, BootRun)
             v == [z.boot EXCEPT !.at = "refreshing"]
             y == [z EXCEPT !.boot = v]
  <2>1. tab' = [tab EXCEPT ![t] = y] /\ UNCHANGED <<db, stored, late, aged, lost, losses>>
    BY <1>3, <1>6 DEF BootRefreshes
  <2>2. x.boot.at = "denied" BY <1>6 DEF BootRefreshes
  <2> HIDE DEF x
  <2>3. TabInv(z, db) BY <1>1, <1>2, <2>2, JoinMoves
  <2>4. z.boot = x.boot BY <1>1 DEF JoinRefresh, Tab
  <2>5. v \in Boot /\ v.at = "refreshing" BY <1>1, <2>4 DEF Boot
  <2> HIDE DEF z, v
  <2>6. TabInv(y, db) BY <2>2, <2>3, <2>4, <2>5, BootMoves
  <2> HIDE DEF y
  <2>7. QED BY <1>1, <2>1, <2>6, OwnStepKeeps
<1>7. ASSUME BootFails(t) PROVE SessionsInv'
  BY <1>1, <1>7, ClearKeeps DEF BootFails
<1>8. ASSUME BootTimesOut(t) PROVE SessionsInv'
  <2> DEFINE v == [x.boot EXCEPT !.at = "silent"]
             y == [x EXCEPT !.boot = v]
  <2>1. tab' = [tab EXCEPT ![t] = y] /\ UNCHANGED <<db, stored, late, aged, lost, losses>>
    BY <1>8 DEF BootTimesOut
  <2>2. x.boot.at = "aborted" BY <1>8 DEF BootTimesOut
  <2>3. v \in Boot /\ v.at = "silent" BY <1>1 DEF Boot
  <2> HIDE DEF v, x
  <2>4. TabInv(y, db) BY <1>1, <2>2, <2>3, BootMoves
  <2> HIDE DEF y
  <2>5. QED BY <1>1, <2>1, <2>4, OwnStepKeeps
<1>9. QED BY <1>4, <1>5, <1>6, <1>7, <1>8 DEF BootStep
\* A refresh that ends, whoever waited for it.
LEMMA RefreshEndsMoves ==
  ASSUME NEW d, NEW x, TabInv(x, d)
  PROVE  LET y == [x EXCEPT !.refresh = NoRefresh]
         IN TabInv(y, d) /\ y.boot = x.boot /\ y.tokens = x.tokens
<1>1. NoRefresh \in Refresh /\ NoRefresh.at = "none" BY DEF NoRefresh, Refresh, NoPair
<1>2. TabInv([x EXCEPT !.refresh = NoRefresh], d) BY <1>1, RefreshMoves
<1>3. QED BY <1>2 DEF TabInv, Tab

\* The refresh timer.
LEMMA TimerKeeps ==
  ASSUME SessionsInv, NEW t \in Tabs, TimerFires(t)
  PROVE  SessionsInv'
<1> DEFINE x == tab[t]
           z == JoinRefresh(x, Timer)
           y == [z EXCEPT !.armed = FALSE]
<1>1. TabInv(x, db) /\ lost \subseteq Nat BY TabFacts
<1>2. tab' = [tab EXCEPT ![t] = y] /\ UNCHANGED <<db, stored, late, aged, lost, losses>>
  BY DEF TimerFires, SessionsInv
<1>3. x.tokens \in DOMAIN db.pairs BY DEF TimerFires, SessionsInv
<1> HIDE DEF x
<1>4. TabInv(z, db) BY <1>1, <1>3, JoinMoves
<1> HIDE DEF z
<1>5. TabInv(y, db) BY <1>4, WarningAndTimerMove
<1> HIDE DEF y
<1>6. QED BY <1>1, <1>2, <1>5, OwnStepKeeps

\* The refresh of a tab.
LEMMA RefreshStepKeeps ==
  ASSUME SessionsInv, NEW t \in Tabs, RefreshStep(t)
  PROVE  SessionsInv'
<1> DEFINE x == tab[t]
           r == x.refresh
           z == [x EXCEPT !.refresh = NoRefresh]
<1>1. /\ TablesInv(db) /\ TabInv(x, db) /\ x \in Tab /\ lost \subseteq Nat
      /\ r \in Refresh /\ x.boot \in Boot /\ tab \in [Tabs -> Tab]
  BY TabFacts DEF SessionsInv
<1>2. /\ r.at = "pending" => r.pair \in DOMAIN db.pairs
      /\ r.at = "ok" => r.got \in DOMAIN db.pairs
      /\ r.pair \in Nat /\ r.timer \in BOOLEAN
  BY <1>1 DEF TabInv, TabRefers, Refresh
<1>3. TabInv(z, db) /\ z.boot = x.boot BY <1>1, RefreshEndsMoves
<1>4. ASSUME ServerRefresh(t) PROVE SessionsInv'
  <2>1. r.at = "pending" /\ UNCHANGED <<stored, late, aged, lost, losses>>
    BY <1>4 DEF ServerRefresh
  <2>2. CASE Refreshable(db, r.pair)
    <3> DEFINE v == [r EXCEPT !.at = "ok", !.got = Len(db'.pairs)]
               y == [x EXCEPT !.refresh = v]
    <3>1. db' = RefreshTables(db, r.pair) /\ tab' = [tab EXCEPT ![t] = y]
      BY <1>4, <2>2 DEF ServerRefresh
    <3>2. /\ TablesInv(db') /\ TablesGrow(db, db') /\ Len(db'.pairs) \in DOMAIN db'.pairs
      BY <1>1, <1>2, <2>1, <2>2, <3>1, RefreshKeeps
    <3>3. TabInv(x, db') BY <1>1, <3>2, TabStable
    <3>4. Len(db'.pairs) \in Nat BY <3>2, PairsArePositive
    <3>5. v \in Refresh /\ v.at = "ok" /\ v.got = Len(db'.pairs) BY <1>1, <3>4 DEF Refresh
    <3> HIDE DEF v, r, x
    <3>6. TabInv(y, db') BY <3>2, <3>3, <3>5, RefreshMoves
    <3> HIDE DEF y
    <3>7. late' \subseteq Request /\ \A q \in late' : q.op # "login" => q.pair \in DOMAIN db'.pairs
      BY <2>1, <3>2 DEF SessionsInv, TablesGrow
    <3>8. lost' \subseteq Nat /\ losses' \in 0..MaxLosses BY <2>1 DEF SessionsInv
    <3>9. QED BY <2>1, <3>1, <3>2, <3>6, <3>7, <3>8, TabStepKeeps
  <2>3. CASE ~ Refreshable(db, r.pair)
    <3> DEFINE v == [r EXCEPT !.at = "denied"]
               y == [x EXCEPT !.refresh = v]
    <3>1. UNCHANGED db /\ tab' = [tab EXCEPT ![t] = y] BY <1>4, <2>3 DEF ServerRefresh
    <3>2. v \in Refresh /\ v.at = "denied" BY <1>1 DEF Refresh
    <3> HIDE DEF v, r, x
    <3>3. TabInv(y, db) BY <1>1, <3>2, RefreshMoves
    <3> HIDE DEF y
    <3>4. QED BY <1>1, <2>1, <3>1, <3>3, OwnStepKeeps
  <2>4. QED BY <2>2, <2>3
<1>5. ASSUME RefreshSucceeds(t) PROVE SessionsInv'
  <2>1. r.at = "ok" /\ UNCHANGED <<db, late, aged, losses>> BY <1>5 DEF RefreshSucceeds
  <2>2. \/ Keep(t, z, r.got) /\ UNCHANGED lost
        \/ tab' = [tab EXCEPT ![t] = z] /\ lost' = lost \cup {r.pair} /\ UNCHANGED stored
    BY <1>5 DEF RefreshSucceeds, KeepRefreshed
  <2> HIDE DEF x, r, z
  <2>3. CASE Keep(t, z, r.got) /\ UNCHANGED lost
    BY <1>1, <1>2, <1>3, <2>1, <2>3, KeepKeeps
  <2>4. CASE tab' = [tab EXCEPT ![t] = z] /\ lost' = lost \cup {r.pair} /\ UNCHANGED stored
    BY <1>1, <1>2, <1>3, <2>1, <2>4, OwnStepKeeps
  <2>5. QED BY <2>2, <2>3, <2>4
<1>6. ASSUME RefreshEndsSession(t) PROVE SessionsInv'
  <2> DEFINE v == [z.boot EXCEPT !.at = "silent"]
             y == [z EXCEPT !.boot = v]
  <2>1. UNCHANGED <<db, late, aged, lost, losses>> BY <1>6 DEF RefreshEndsSession
  <2>2. \/ ClearAuth(t, z)
        \/ tab' = [tab EXCEPT ![t] = z] /\ UNCHANGED stored
        \/ z.boot.at = "refreshing" /\ tab' = [tab EXCEPT ![t] = y] /\ UNCHANGED stored
    BY <1>6 DEF RefreshEndsSession
  <2> HIDE DEF x, r, z
  <2>3. CASE ClearAuth(t, z) BY <1>1, <1>3, <2>1, <2>3, ClearKeeps
  <2>4. CASE tab' = [tab EXCEPT ![t] = z] /\ UNCHANGED stored
    BY <1>1, <1>3, <2>1, <2>4, OwnStepKeeps
  <2>5. CASE z.boot.at = "refreshing" /\ tab' = [tab EXCEPT ![t] = y] /\ UNCHANGED stored
    <3>1. v \in Boot /\ v.at = "silent" BY <1>1, <1>3 DEF Boot
    <3> HIDE DEF v
    <3>2. TabInv(y, db) BY <1>3, <2>5, <3>1, BootMoves
    <3> HIDE DEF y
    <3>3. QED BY <1>1, <2>1, <2>5, <3>2, OwnStepKeeps
  <2>6. QED BY <2>2, <2>3, <2>4, <2>5
<1>7. QED BY <1>4, <1>5, <1>6 DEF RefreshStep

\* The login of a tab, from the request to its answer.
LEMMA LoginStepKeeps ==
  ASSUME SessionsInv, NEW t \in Tabs, LoginStep(t)
  PROVE  SessionsInv'
<1> DEFINE x == tab[t]
           l == x.login
<1>1. /\ TablesInv(db) /\ TabInv(x, db) /\ x \in Tab /\ lost \subseteq Nat
      /\ l \in Login /\ tab \in [Tabs -> Tab]
  BY TabFacts DEF SessionsInv
<1>2. Idle \in Login /\ Idle.at = "none" /\ NoUser \in Users \cup {NoUser} BY DEF Login, Idle
<1>3. l.at # "none" =>
        l \in [at : {"pending", "ok", "refused", "failed", "aborted"},
               user : Users, replace : BOOLEAN, got : Nat]
  BY <1>1, <1>2 DEF Login
<1>4. ASSUME ServerLogin(t) PROVE SessionsInv'
  <2>1. l.at = "pending" /\ UNCHANGED <<stored, late, aged, lost, losses>>
    BY <1>4 DEF ServerLogin
  <2>2. l \in [at : {"pending", "ok", "refused", "failed", "aborted"},
               user : Users, replace : BOOLEAN, got : Nat]
    BY <1>3, <2>1
  <2>3. CASE LoginRefused(db, l.user, l.replace)
    <3> DEFINE v == [l EXCEPT !.at = "refused"]
               y == [x EXCEPT !.login = v]
    <3>1. UNCHANGED db /\ tab' = [tab EXCEPT ![t] = y] BY <1>4, <2>3 DEF ServerLogin
    <3>2. v \in Login /\ v.at = "refused" BY <2>2 DEF Login
    <3> HIDE DEF v, l, x
    <3>3. TabInv(y, db) BY <1>1, <3>2, LoginMoves
    <3> HIDE DEF y
    <3>4. QED BY <1>1, <2>1, <3>1, <3>3, OwnStepKeeps
  <2>4. CASE ~ LoginRefused(db, l.user, l.replace)
    <3> DEFINE v == [l EXCEPT !.at = "ok", !.got = Len(db'.pairs)]
               y == [x EXCEPT !.login = v]
    <3>1. db' = LoginTables(db, l.user) /\ tab' = [tab EXCEPT ![t] = y]
      BY <1>4, <2>4 DEF ServerLogin
    <3>2. /\ TablesInv(db') /\ TablesGrow(db, db') /\ Len(db'.pairs) \in DOMAIN db'.pairs
      BY <1>1, <2>2, <3>1, LoginKeeps
    <3>3. TabInv(x, db') BY <1>1, <3>2, TabStable
    <3>4. Len(db'.pairs) \in Nat BY <3>2, PairsArePositive
    <3>5. v \in Login /\ v.at = "ok" /\ v.got = Len(db'.pairs) BY <2>2, <3>4 DEF Login
    <3> HIDE DEF v, l, x
    <3>6. TabInv(y, db') BY <3>2, <3>3, <3>5, LoginMoves
    <3> HIDE DEF y
    <3>7. late' \subseteq Request /\ \A q \in late' : q.op # "login" => q.pair \in DOMAIN db'.pairs
      BY <2>1, <3>2 DEF SessionsInv, TablesGrow
    <3>8. lost' \subseteq Nat /\ losses' \in 0..MaxLosses BY <2>1 DEF SessionsInv
    <3>9. QED BY <2>1, <3>1, <3>2, <3>6, <3>7, <3>8, TabStepKeeps
  <2>5. QED BY <2>3, <2>4
<1>5. ASSUME LoginSucceeds(t) PROVE SessionsInv'
  <2> DEFINE z == [x EXCEPT !.login = Idle]
             y == [z EXCEPT !.warned = NoUser]
  <2>1. l.at = "ok" /\ UNCHANGED <<db, late, aged, lost, losses>> BY <1>5 DEF LoginSucceeds
  <2>2. Keep(t, y, l.got) BY <1>5 DEF LoginSucceeds
  <2>3. l.got \in DOMAIN db.pairs BY <1>1, <2>1 DEF TabInv, TabRefers
  <2> HIDE DEF x, l
  <2>4. TabInv(z, db) BY <1>1, <1>2, LoginMoves
  <2> HIDE DEF z
  <2>5. TabInv(y, db) BY <1>2, <2>4, WarningAndTimerMove
  <2> HIDE DEF y
  <2>6. QED BY <1>1, <2>1, <2>2, <2>3, <2>5, KeepKeeps
<1>6. ASSUME LoginFails(t) PROVE SessionsInv'
  <2> DEFINE z == [x EXCEPT !.login = Idle]
             u == IF l.at = "refused" /\ ~Authed(x) THEN l.user ELSE x.warned
             y == [z EXCEPT !.warned = u]
  <2>1. /\ l.at # "none" /\ UNCHANGED <<db, stored, late, aged, lost, losses>>
    BY <1>6 DEF LoginFails
  <2>2. z \in Tab /\ z.warned = x.warned BY <1>1, <1>2 DEF Tab
  <2>3. tab' = [tab EXCEPT ![t] = y] BY <1>1, <1>6 DEF LoginFails
  <2>4. u \in Users \cup {NoUser} BY <1>1, <1>3, <2>1 DEF Tab
  <2> HIDE DEF x, l, u
  <2>5. TabInv(z, db) BY <1>1, <1>2, LoginMoves
  <2> HIDE DEF z
  <2>6. TabInv(y, db) BY <2>4, <2>5, WarningAndTimerMove
  <2> HIDE DEF y
  <2>7. QED BY <1>1, <2>1, <2>3, <2>6, OwnStepKeeps
<1>7. QED BY <1>4, <1>5, <1>6 DEF LoginStep
\* Logging out with a pair of the tables, whether its token still verifies or not.
LEMMA AfterLogoutKeeps ==
  ASSUME NEW d, TablesInv(d), NEW p \in DOMAIN d.pairs
  PROVE  LET e == IF Verified(d, p) THEN LogoutTables(d, p) ELSE d
         IN TablesInv(e) /\ TablesGrow(d, e)
BY EndsKeep, TablesGrowSame

\* The logout of a tab, from the request to its answer.
LEMMA LogoutStepKeeps ==
  ASSUME SessionsInv, NEW t \in Tabs, LogoutStep(t)
  PROVE  SessionsInv'
<1> DEFINE x == tab[t]
           o == x.logout
<1>1. /\ TablesInv(db) /\ TabInv(x, db) /\ x \in Tab /\ lost \subseteq Nat
      /\ o \in Logout /\ tab \in [Tabs -> Tab]
  BY TabFacts DEF SessionsInv
<1>2. Idle \in Logout /\ Idle.at = "none" BY DEF Logout, Idle
<1>3. ASSUME ServerLogout(t) PROVE SessionsInv'
  <2> DEFINE v == [o EXCEPT !.at = "answered"]
             y == [x EXCEPT !.logout = v]
  <2>1. /\ o.at = "pending" /\ UNCHANGED <<stored, late, aged, lost, losses>>
        /\ db' = AfterLogout(o.pair) /\ tab' = [tab EXCEPT ![t] = y]
    BY <1>3 DEF ServerLogout
  <2>2. o.pair \in DOMAIN db.pairs BY <1>1, <2>1 DEF TabInv, TabRefers
  <2>3. TablesInv(db') /\ TablesGrow(db, db')
    BY <1>1, <2>1, <2>2, AfterLogoutKeeps DEF AfterLogout
  <2>4. TabInv(x, db') BY <1>1, <2>3, TabStable
  <2>5. v \in Logout /\ v.at = "answered" BY <1>1, <1>2, <2>1 DEF Logout
  <2> HIDE DEF v, o, x
  <2>6. TabInv(y, db') BY <2>4, <2>5, LogoutMoves
  <2> HIDE DEF y
  <2>7. late' \subseteq Request /\ \A q \in late' : q.op # "login" => q.pair \in DOMAIN db'.pairs
    BY <2>1, <2>3 DEF SessionsInv, TablesGrow
  <2>8. lost' \subseteq Nat /\ losses' \in 0..MaxLosses BY <2>1 DEF SessionsInv
  <2>9. QED BY <2>1, <2>3, <2>6, <2>7, <2>8, TabStepKeeps
<1>4. ASSUME LogoutEnds(t) PROVE SessionsInv'
  <2> DEFINE z == [x EXCEPT !.logout = Idle]
  <2>1. ClearAuth(t, z) /\ UNCHANGED <<db, late, aged, lost, losses>> BY <1>4 DEF LogoutEnds
  <2> HIDE DEF x
  <2>2. TabInv(z, db) BY <1>1, <1>2, LogoutMoves
  <2> HIDE DEF z
  <2>3. QED BY <1>1, <2>1, <2>2, ClearKeeps
<1>5. QED BY <1>3, <1>4 DEF LogoutStep

\* The requests of pages a tab waits for are free, as long as they name pairs of
\* the tables.
LEMMA CallsMove ==
  ASSUME NEW d, NEW x, TabInv(x, d), NEW v, v \subseteq Call,
         \A r \in v : r.pair \in DOMAIN d.pairs
  PROVE  TabInv([x EXCEPT !.calls = v], d)
<1> DEFINE y == [x EXCEPT !.calls = v]
<1>1. y \in Tab BY TabUpdates DEF TabInv
<1>2. /\ y.tokens = x.tokens /\ y.me = x.me /\ y.boot = x.boot /\ y.refresh = x.refresh
      /\ y.login = x.login /\ y.logout = x.logout /\ y.calls = v /\ y.mixed = x.mixed
  BY DEF TabInv, Tab
<1> HIDE DEF y
<1>3. TabRefers(y, d) /\ TabKnows(y, d) BY <1>2 DEF TabInv, TabRefers, TabKnows
<1>4. QED BY <1>1, <1>3 DEF TabInv, y

\* The requests of pages: the answer to an old one may show another user, and is
\* recorded when it does.
LEMMA CallStepKeeps ==
  ASSUME SessionsInv, NEW t \in Tabs, CallStep(t)
  PROVE  SessionsInv'
<1> DEFINE x == tab[t]
<1>1. /\ TablesInv(db) /\ TabInv(x, db) /\ x \in Tab /\ lost \subseteq Nat
      /\ tab \in [Tabs -> Tab] /\ x.tokens \in Nat
  BY TabFacts DEF SessionsInv
<1>2. x.calls \subseteq Call /\ \A r \in x.calls : r.pair \in DOMAIN db.pairs
  BY <1>1, TabFields DEF TabInv, TabRefers
<1>3. PICK r \in x.calls : CallShowsUser(t, r) \/ CallSignsOut(t, r) \/ CallEnds(t, r)
  BY DEF CallStep
<1> DEFINE z == [x EXCEPT !.calls = x.calls \ {r}]
<1>4. TabInv(z, db)
  <2> HIDE DEF x
  <2>1. QED BY <1>1, <1>2, CallsMove
<1>5. CASE CallShowsUser(t, r)
  <2> DEFINE u == OwnerOf(db, r.pair)
             m == x.mixed \/ (x.tokens # NoPair /\ u # OwnerOf(db, x.tokens))
             y == UpdateMe(x, r)
  <2>1. tab' = [tab EXCEPT ![t] = y] /\ UNCHANGED <<db, stored, late, aged, lost, losses>>
    BY <1>5 DEF CallShowsUser
  <2>2. u \in Users BY <1>1, <1>2, OwnerTyped
  <2>3. m \in BOOLEAN BY <1>1, TabFields
  <2>4. m = (x.mixed \/ (x.tokens # NoPair /\ u # OwnerOf(db, x.tokens))) OBVIOUS
  <2>4a. y = [x EXCEPT !.calls = x.calls \ {r}, !.me = u, !.mixed = m] BY DEF UpdateMe
  <2> HIDE DEF u, m, x, y
  <2>5. y \in Tab BY <1>1, <1>2, <2>2, <2>3, <2>4a DEF Tab
  <2>6. /\ y.tokens = x.tokens /\ y.me = u /\ y.boot = x.boot /\ y.refresh = x.refresh
        /\ y.login = x.login /\ y.logout = x.logout /\ y.calls \subseteq x.calls
        /\ y.mixed = m
    BY <1>1, <2>4a DEF Tab
  <2>7. TabRefers(y, db) BY <1>1, <2>6 DEF TabInv, TabRefers
  <2>8. TabKnows(y, db)
    <3>1. y.boot.at = "ok" => y.boot.user = OwnerOf(db, y.tokens)
      BY <1>1, <2>6 DEF TabInv, TabKnows
    <3>2. y.boot.at = "done" => x.tokens # NoPair BY <1>1, <2>6 DEF TabInv, TabRefers
    <3>3. y.boot.at = "done" => y.me = OwnerOf(db, y.tokens) \/ y.mixed
      BY <2>4, <2>6, <3>2
    <3>4. QED BY <3>1, <3>3 DEF TabKnows
  <2>9. QED BY <1>1, <2>1, <2>5, <2>7, <2>8, OwnStepKeeps DEF TabInv
<1>6. CASE CallSignsOut(t, r)
  <2>1. ClearAuth(t, z) /\ UNCHANGED <<db, late, aged, lost, losses>>
    BY <1>6 DEF CallSignsOut
  <2> HIDE DEF z, x
  <2>2. QED BY <1>1, <1>4, <2>1, ClearKeeps
<1>7. CASE CallEnds(t, r)
  <2>1. tab' = [tab EXCEPT ![t] = z] /\ UNCHANGED <<db, stored, late, aged, lost, losses>>
    BY <1>7 DEF CallEnds
  <2> HIDE DEF z, x
  <2>2. QED BY <1>1, <1>4, <2>1, OwnStepKeeps
<1>8. QED BY <1>3, <1>5, <1>6, <1>7

\* What the user does.
LEMMA UserStepKeeps ==
  ASSUME SessionsInv, NEW t \in Tabs, UserStep(t)
  PROVE  SessionsInv'
<1> DEFINE x == tab[t]
<1>1. /\ TabInv(x, db) /\ x \in Tab /\ lost \subseteq Nat /\ tab \in [Tabs -> Tab]
      /\ x.tokens \in Nat
  BY TabFacts DEF SessionsInv
<1>2. ASSUME NEW u \in Users, NEW replace \in BOOLEAN, SendLogin(t, u, replace)
      PROVE  SessionsInv'
  <2> DEFINE v == [at |-> "pending", user |-> u, replace |-> replace, got |-> NoPair]
             y == [x EXCEPT !.login = v]
  <2>1. tab' = [tab EXCEPT ![t] = y] /\ UNCHANGED <<db, stored, late, aged, lost, losses>>
    BY <1>2 DEF SendLogin
  <2>2. v \in Login /\ v.at = "pending" BY DEF Login, NoPair
  <2> HIDE DEF v, x
  <2>3. TabInv(y, db) BY <1>1, <2>2, LoginMoves
  <2> HIDE DEF y
  <2>4. QED BY <1>1, <2>1, <2>3, OwnStepKeeps
<1>3. ASSUME NEW u \in Users, SubmitLogin(t, u) PROVE SessionsInv'
  BY <1>2, <1>3 DEF SubmitLogin
<1>4. ASSUME ConfirmReplace(t) PROVE SessionsInv'
  <2>1. x.warned \in Users BY <1>1, <1>4 DEF ConfirmReplace, Tab
  <2>2. QED BY <1>2, <1>4, <2>1 DEF ConfirmReplace
<1>5. ASSUME CancelReplace(t) PROVE SessionsInv'
  <2> DEFINE y == [x EXCEPT !.warned = NoUser]
  <2>1. tab' = [tab EXCEPT ![t] = y] /\ UNCHANGED <<db, stored, late, aged, lost, losses>>
    BY <1>5 DEF CancelReplace
  <2> HIDE DEF x
  <2>2. TabInv(y, db) BY <1>1, WarningAndTimerMove
  <2> HIDE DEF y
  <2>3. QED BY <1>1, <2>1, <2>2, OwnStepKeeps
<1>6. ASSUME SendLogout(t) PROVE SessionsInv'
  <2> DEFINE v == [at |-> "pending", pair |-> x.tokens]
             y == [x EXCEPT !.logout = v]
  <2>1. tab' = [tab EXCEPT ![t] = y] /\ UNCHANGED <<db, stored, late, aged, lost, losses>>
    BY <1>6 DEF SendLogout
  <2>2. x.tokens \in DOMAIN db.pairs
    BY <1>1, <1>6 DEF SendLogout, Authed, TabInv, TabRefers
  <2>3. v \in Logout /\ v.at = "pending" /\ v.pair \in DOMAIN db.pairs
    BY <1>1, <2>2 DEF Logout
  <2> HIDE DEF v, x
  <2>4. TabInv(y, db) BY <1>1, <2>3, LogoutMoves
  <2> HIDE DEF y
  <2>5. QED BY <1>1, <2>1, <2>4, OwnStepKeeps
<1>7. ASSUME NEW page \in Pages, SendCall(t, page) PROVE SessionsInv'
  <2> DEFINE v == x.calls \cup {[page |-> page, pair |-> x.tokens]}
             y == [x EXCEPT !.calls = v]
  <2>1. tab' = [tab EXCEPT ![t] = y] /\ UNCHANGED <<db, stored, late, aged, lost, losses>>
    BY <1>7 DEF SendCall
  <2>2. x.tokens \in DOMAIN db.pairs
    BY <1>1, <1>7 DEF SendCall, Authed, TabInv, TabRefers
  <2>3. v \subseteq Call BY <1>1, PagesAssumption, TabFields DEF Call
  <2>4. \A r \in v : r.pair \in DOMAIN db.pairs BY <1>1, <2>2 DEF TabInv, TabRefers
  <2> HIDE DEF v, x
  <2>5. TabInv(y, db) BY <1>1, <2>3, <2>4, CallsMove
  <2> HIDE DEF y
  <2>6. QED BY <1>1, <2>1, <2>5, OwnStepKeeps
<1>8. QED BY <1>3, <1>4, <1>5, <1>6, <1>7 DEF UserStep

\* A step of the tables alone.
LEMMA TablesStepKeeps ==
  ASSUME SessionsInv, TablesInv(db'), TablesGrow(db, db'),
         late' \subseteq late, UNCHANGED <<stored, tab, aged, lost, losses>>
  PROVE  SessionsInv'
<1>1. \A t \in Tabs : TabInv(tab'[t], db') BY TabStable DEF SessionsInv
<1>2. \A r \in late' : r.op # "login" => r.pair \in DOMAIN db'.pairs
  BY DEF SessionsInv, TablesGrow
<1>3. \A b \in Browsers : stored'[b] # NoPair => stored'[b] \in DOMAIN db'.pairs
  BY DEF SessionsInv, TablesGrow
<1>4. aged' \subseteq DOMAIN db'.pairs BY DEF SessionsInv, TablesGrow
<1>5. QED BY <1>1, <1>2, <1>3, <1>4 DEF SessionsInv

\* Pairs and sessions expire.
LEMMA TimeKeeps ==
  ASSUME SessionsInv, TimePasses
  PROVE  SessionsInv'
<1>1. TablesInv(db) BY DEF SessionsInv
<1>2. ASSUME NEW p \in DOMAIN db.pairs, Ages(p) PROVE SessionsInv'
  BY <1>2 DEF Ages, SessionsInv
<1>3. ASSUME NEW p \in DOMAIN db.pairs, AccessExpires(p) PROVE SessionsInv'
  <2>1. TablesInv(db') /\ TablesGrow(db, db') BY <1>1, <1>3, EndsKeep DEF AccessExpires
  <2>2. QED BY <1>3, <2>1, TablesStepKeeps DEF AccessExpires
<1>4. ASSUME NEW s \in DOMAIN db.sessions, SessionExpires(s) PROVE SessionsInv'
  <2>1. TablesInv(db') /\ TablesGrow(db, db') BY <1>1, <1>4, EndsKeep DEF SessionExpires
  <2>2. QED BY <1>4, <2>1, TablesStepKeeps DEF SessionExpires
<1>5. QED BY <1>2, <1>3, <1>4 DEF TimePasses

\* The requests a tab leaves behind name pairs of the tables.
LEMMA UnservedRefer ==
  ASSUME NEW d, NEW x, TabInv(x, d)
  PROVE  /\ Unserved(x) \subseteq Request
         /\ \A r \in Unserved(x) : r.op # "login" => r.pair \in DOMAIN d.pairs
         /\ \A op : UnservedOf(x, op) \subseteq Unserved(x)
<1>1. x.refresh \in Refresh /\ x.login \in Login /\ x.logout \in Logout
  BY TabFields DEF TabInv
<1>2. /\ x.refresh.at = "pending" => x.refresh.pair \in DOMAIN d.pairs
      /\ x.logout.at = "pending" => x.logout.pair \in DOMAIN d.pairs
  BY DEF TabInv, TabRefers
<1>3. ASSUME x.refresh.at = "pending"
      PROVE  [op |-> "refresh", pair |-> x.refresh.pair] \in Request
  BY <1>1 DEF Request, Refresh
<1>4. ASSUME x.logout.at = "pending"
      PROVE  [op |-> "logout", pair |-> x.logout.pair] \in Request
  <2>1. x.logout.pair \in Nat BY <1>1, <1>4 DEF Logout, Idle
  <2>2. QED BY <2>1 DEF Request
<1>5. ASSUME x.login.at = "pending"
      PROVE  [op |-> "login", user |-> x.login.user, replace |-> x.login.replace] \in Request
  <2>1. x.login.user \in Users /\ x.login.replace \in BOOLEAN BY <1>1, <1>5 DEF Login, Idle
  <2>2. QED BY <2>1 DEF Request
<1>6. \A r \in Unserved(x) :
        \/ x.refresh.at = "pending" /\ r = [op |-> "refresh", pair |-> x.refresh.pair]
        \/ x.logout.at = "pending" /\ r = [op |-> "logout", pair |-> x.logout.pair]
        \/ /\ x.login.at = "pending"
           /\ r = [op |-> "login", user |-> x.login.user, replace |-> x.login.replace]
  BY DEF Unserved
<1>7. QED BY <1>2, <1>3, <1>4, <1>5, <1>6 DEF UnservedOf
\* An answer is lost.
LEMMA LostKeeps ==
  ASSUME SessionsInv, NEW t \in Tabs, NEW how \in LossKinds, AnswerLost(t, how)
  PROVE  SessionsInv'
<1> DEFINE x == tab[t]
           left(op) == UnservedOf(x, op)
<1>1. /\ TablesInv(db) /\ TabInv(x, db) /\ x \in Tab /\ lost \subseteq Nat
      /\ x.boot \in Boot /\ x.refresh \in Refresh /\ x.login \in Login /\ x.logout \in Logout
      /\ tab \in [Tabs -> Tab]
  BY TabFacts DEF SessionsInv
<1>2. how \in {"failed", "aborted"} BY LossAssumption
<1>3. UNCHANGED <<db, stored, aged>> /\ losses' \in 0..MaxLosses
  BY LossAssumption DEF AnswerLost, Lose, SessionsInv
<1>4. \A op : /\ late \cup left(op) \subseteq Request
              /\ \A r \in late \cup left(op) : r.op # "login" => r.pair \in DOMAIN db.pairs
  BY <1>1, UnservedRefer DEF SessionsInv
<1>5. Idle.at = "none" BY DEF Idle
<1>6. ASSUME NEW y, TabInv(y, db), tab' = [tab EXCEPT ![t] = y],
             \/ UNCHANGED late
             \/ \E op : late' = late \cup left(op),
             lost' \subseteq Nat
      PROVE  SessionsInv'
  <2>1. late' \subseteq Request /\ \A r \in late' : r.op # "login" => r.pair \in DOMAIN db'.pairs
    BY <1>3, <1>4, <1>6 DEF SessionsInv
  <2> HIDE DEF left, x
  <2>2. TabInv(y, db') /\ TablesInv(db') /\ TablesGrow(db, db')
    BY <1>1, <1>3, <1>6, TablesGrowSame
  <2>3. QED BY <1>3, <1>6, <2>1, <2>2, TabStepKeeps
<1>7. CASE /\ x.boot.at \in {"asked", "ok", "denied"}
           /\ tab' = [tab EXCEPT ![t].boot = [at |-> how, user |-> NoUser]]
           /\ UNCHANGED <<late, lost>>
  <2> DEFINE v == [at |-> how, user |-> NoUser]
  <2>1. v \in Boot /\ v.at \notin {"ok", "done"} BY <1>2 DEF Boot
  <2>2. tab' = [tab EXCEPT ![t] = [x EXCEPT !.boot = v]] BY <1>7
  <2> HIDE DEF v
  <2>3. TabInv([x EXCEPT !.boot = v], db) BY <1>1, <1>7, <2>1, BootMoves
  <2>4. QED BY <1>1, <1>6, <1>7, <2>2, <2>3
<1>8. CASE /\ x.refresh.at \in {"pending", "ok", "denied"}
           /\ tab' = [tab EXCEPT ![t].refresh = [@ EXCEPT !.at = how, !.got = NoPair]]
           /\ late' = late \cup left("refresh")
           /\ lost' = lost \cup {x.refresh.pair}
  <2> DEFINE v == [x.refresh EXCEPT !.at = how, !.got = NoPair]
  <2>1. v \in Refresh /\ v.at \notin {"pending", "ok"} BY <1>1, <1>2 DEF Refresh, NoPair
  <2>2. tab' = [tab EXCEPT ![t] = [x EXCEPT !.refresh = v]] BY <1>8
  <2>3. lost' \subseteq Nat BY <1>1, <1>8 DEF Refresh
  <2> HIDE DEF v
  <2>4. TabInv([x EXCEPT !.refresh = v], db) BY <1>1, <2>1, RefreshMoves
  <2>5. QED BY <1>6, <1>8, <2>2, <2>3, <2>4
<1>9. CASE /\ x.login.at \in {"pending", "ok", "refused"}
           /\ tab' = [tab EXCEPT ![t].login = [@ EXCEPT !.at = how, !.got = NoPair]]
           /\ late' = late \cup left("login")
           /\ UNCHANGED lost
  <2> DEFINE v == [x.login EXCEPT !.at = how, !.got = NoPair]
  <2>1. x.login # Idle BY <1>5, <1>9
  <2>2. v \in Login /\ v.at # "ok" BY <1>1, <1>2, <2>1 DEF Login, NoPair
  <2>3. tab' = [tab EXCEPT ![t] = [x EXCEPT !.login = v]] BY <1>9
  <2> HIDE DEF v
  <2>4. TabInv([x EXCEPT !.login = v], db) BY <1>1, <2>2, LoginMoves
  <2>5. QED BY <1>1, <1>6, <1>9, <2>3, <2>4
<1>10. CASE /\ x.logout.at = "pending"
            /\ tab' = [tab EXCEPT ![t].logout.at = "answered"]
            /\ late' = late \cup left("logout")
            /\ UNCHANGED lost
  <2> DEFINE v == [x.logout EXCEPT !.at = "answered"]
  <2>1. x.logout # Idle BY <1>5, <1>10
  <2>2. v \in Logout /\ v.at = "answered" BY <1>1, <2>1 DEF Logout
  <2>3. tab' = [tab EXCEPT ![t] = [x EXCEPT !.logout = v]] BY <1>10
  <2> HIDE DEF v
  <2>4. TabInv([x EXCEPT !.logout = v], db) BY <1>1, <2>2, LogoutMoves
  <2>5. QED BY <1>1, <1>6, <1>10, <2>3, <2>4
<1>11. QED BY <1>7, <1>8, <1>9, <1>10 DEF AnswerLost

\* The page is reloaded.
LEMMA ReloadKeeps ==
  ASSUME SessionsInv, NEW t \in Tabs, Reload(t)
  PROVE  SessionsInv'
<1> DEFINE x == tab[t]
           p == stored[BrowserOf[t]]
           y == Mounted(p)
<1>1. TabInv(x, db) /\ lost \subseteq Nat /\ x.refresh \in Refresh BY TabFacts
<1>2. p \in Nat /\ (p # NoPair => p \in DOMAIN db.pairs)
  BY BrowserOfAssumption DEF SessionsInv, Tabs
<1>3. TabInv(y, db) BY <1>2, MountedKeeps
<1>4. /\ tab' = [tab EXCEPT ![t] = y] /\ late' = late \cup Unserved(x)
      /\ UNCHANGED <<db, stored, aged>> /\ losses' \in 0..MaxLosses
  BY LossAssumption DEF Reload, Lose, SessionsInv
<1>5. lost' \subseteq Nat
  <2>1. x.refresh.pair \in Nat BY <1>1 DEF Refresh
  <2>2. QED BY <1>1, <2>1 DEF Reload
<1> HIDE DEF x, y
<1>6. late' \subseteq Request /\ \A r \in late' : r.op # "login" => r.pair \in DOMAIN db'.pairs
  BY <1>1, <1>4, UnservedRefer DEF SessionsInv
<1>7. TablesInv(db') /\ TablesGrow(db, db') /\ TabInv(y, db')
  BY <1>3, <1>4, TablesGrowSame DEF SessionsInv
<1>8. QED BY <1>4, <1>5, <1>6, <1>7, TabStepKeeps

\* A request without a reader is run.
LEMMA LateKeeps ==
  ASSUME SessionsInv, NEW r \in late, ServeLate(r)
  PROVE  SessionsInv'
<1>1. /\ TablesInv(db) /\ r \in Request /\ (r.op # "login" => r.pair \in DOMAIN db.pairs)
  BY DEF SessionsInv
<1>2. late' \subseteq late /\ UNCHANGED <<stored, tab, aged, lost, losses>> BY DEF ServeLate
<1>3. CASE r.op = "refresh" /\ Refreshable(db, r.pair) /\ db' = RefreshTables(db, r.pair)
  <2>1. TablesInv(db') /\ TablesGrow(db, db') BY <1>1, <1>3, RefreshKeeps
  <2>2. QED BY <1>2, <2>1, TablesStepKeeps
<1>4. CASE r.op = "logout" /\ db' = AfterLogout(r.pair)
  <2>1. TablesInv(db') /\ TablesGrow(db, db') BY <1>1, <1>4, AfterLogoutKeeps DEF AfterLogout
  <2>2. QED BY <1>2, <2>1, TablesStepKeeps
<1>5. CASE r.op = "login" /\ db' = LoginTables(db, r.user)
  <2>1. r.user \in Users BY <1>1, <1>5 DEF Request
  <2>2. TablesInv(db') /\ TablesGrow(db, db') BY <1>1, <1>5, <2>1, LoginKeeps
  <2>3. QED BY <1>2, <2>2, TablesStepKeeps
<1>6. CASE UNCHANGED db
  <2>1. TablesInv(db') /\ TablesGrow(db, db') BY <1>1, <1>6, TablesGrowSame
  <2>2. QED BY <1>2, <2>1, TablesStepKeeps
<1>7. QED BY <1>3, <1>4, <1>5, <1>6 DEF ServeLate

\* Every step keeps the invariant.
LEMMA NextSessionsInv == SessionsInv /\ [Next]_vars => SessionsInv'
<1> SUFFICES ASSUME SessionsInv, [Next]_vars PROVE SessionsInv' OBVIOUS
<1>1. ASSUME NEW t \in Tabs,
             BootStep(t) \/ RefreshStep(t) \/ TimerFires(t) \/ LoginStep(t)
               \/ LogoutStep(t) \/ CallStep(t) \/ UserStep(t) \/ Reload(t)
      PROVE  SessionsInv'
  BY <1>1, BootKeeps, RefreshStepKeeps, TimerKeeps, LoginStepKeeps, LogoutStepKeeps,
     CallStepKeeps, UserStepKeeps, ReloadKeeps
<1>2. ASSUME NEW t \in Tabs, NEW how \in LossKinds, AnswerLost(t, how) PROVE SessionsInv'
  BY <1>2, LostKeeps
<1>3. ASSUME NEW r \in late, ServeLate(r) PROVE SessionsInv'
  BY <1>3, LateKeeps
<1>4. CASE TimePasses BY <1>4, TimeKeeps
<1>5. CASE UNCHANGED vars
  BY <1>5 DEF vars, SessionsInv
<1>6. QED BY <1>1, <1>2, <1>3, <1>4, <1>5 DEF Next

-----------------------------------------------------------------------------
(* The theorems.                                                           *)

\* The inductive invariant: the tables are in order and everything a tab, the
\* storage or a request names is in them.
THEOREM SessionsInvariant == Spec => []SessionsInv
BY InitSessionsInv, NextSessionsInv, PTL DEF Spec

\* The state of the tables, the storages and the tabs has its type, for any
\* accounts, tabs and browsers and any number of lost answers (BrowserSessions).
THEOREM TypeCorrect == Spec => []TypeOK
<1>1. SessionsInv => TypeOK
  BY DEF SessionsInv, TablesInv, TypeOK
<1>2. QED BY <1>1, SessionsInvariant, PTL

\* However many tabs sign in, refresh and sign out at once, an account has at most
\* one active session (login.go, refresh.go, logout.go).
THEOREM OneActiveSessionHolds == Spec => []OneActiveSession
<1>1. SessionsInv => OneActiveSession
  <2> SUFFICES ASSUME SessionsInv, NEW u \in Users
               PROVE  Cardinality(ActiveSessions(db, u)) <= 1
    BY DEF OneActiveSession
  <2> DEFINE A == ActiveSessions(db, u)
  <2>1. \A s, r \in A : s = r BY DEF SessionsInv, TablesInv, OneActiveRow, ActiveSessions
  <2> HIDE DEF A
  <2>2. ASSUME A = {} PROVE Cardinality(A) <= 1
    <3>1. Cardinality(A) = 0 BY <2>2, FS_EmptySet
    <3>2. QED BY <3>1
  <2>3. ASSUME A # {} PROVE Cardinality(A) <= 1
    <3>1. PICK s : A = {s} BY <2>1, <2>3
    <3>2. Cardinality(A) = 1 BY <3>1, FS_Singleton
    <3>3. QED BY <3>2
  <2>4. Cardinality(A) <= 1 BY <2>2, <2>3
  <2>5. QED BY <2>4 DEF A
<1>2. QED BY <1>1, SessionsInvariant, PTL

\* The API accepts the newest pair of an account's active session and no other
\* (VerifyAccessToken, Refresh).
THEOREM OnlyNewestPairVerifiesHolds == Spec => []OnlyNewestPairVerifies
<1>1. SessionsInv => OnlyNewestPairVerifies
  <2> SUFFICES ASSUME SessionsInv PROVE OnlyNewestPairVerifies OBVIOUS
  <2>1. TablesInv(db) BY DEF SessionsInv
  <2>2. \A p \in DOMAIN db.pairs : Verified(db, p) => Newest(db, p)
    BY <2>1 DEF TablesInv, AccessIsNewest, Verified
  <2>3. ASSUME NEW p \in DOMAIN db.pairs, NEW q \in DOMAIN db.pairs,
               Verified(db, p), Verified(db, q), OwnerOf(db, p) = OwnerOf(db, q)
        PROVE  p = q
    <3>1. db.pairs[p].session = db.pairs[q].session
      BY <2>1, <2>3 DEF TablesInv, PairsHaveSessions, OneActiveRow, Verified, OwnerOf, SessionOf
    <3>2. Newest(db, p) /\ Newest(db, q) BY <2>2, <2>3
    <3>3. QED BY <3>1, <3>2 DEF Newest, SessionOf
  <2>4. QED BY <2>2, <2>3 DEF OnlyNewestPairVerifies
<1>2. QED BY <1>1, SessionsInvariant, PTL

\* No refresh token is exchanged twice, by whichever tabs, retries or late requests
\* present it (refresh.go).
THEOREM ExchangedOnceHolds == Spec => []ExchangedOnce
<1>1. SessionsInv => ExchangedOnce
  BY DEF SessionsInv, TablesInv, EachExchangedOnce, ExchangedOnce
<1>2. QED BY <1>1, SessionsInvariant, PTL

\* A tab whose check of the session ended shows the owner of its tokens, unless it
\* was answered a request of another account's session since (auth.tsx,
\* ProfilePage.tsx).
THEOREM SettledTabShowsItsUserHolds == Spec => []SettledTabShowsItsUser
<1>1. SessionsInv => SettledTabShowsItsUser
  BY DEF SessionsInv, TabInv, TabKnows, SettledTabShowsItsUser
<1>2. QED BY <1>1, SessionsInvariant, PTL

-----------------------------------------------------------------------------
(* The only tab of a browser keeps up with the rotation of its tokens.  A  *)
(* pair is exchanged by the tab that names it, by another tab of its       *)
(* browser, or by a request nobody waits for.  Browsers never name a pair  *)
(* in common, and the pairs of requests nobody waits for are in "lost".    *)

-----------------------------------------------------------------------------
(* The newest pair of a session.                                           *)

\* No pair but q stops being the newest one.
NewestKept(d, e, q) ==
  \A p \in DOMAIN d.pairs : Newest(d, p) /\ p # q => Newest(e, p)

\* A pair that was just issued.
JustIssued(d, e) == Len(e.pairs) \notin DOMAIN d.pairs /\ Newest(e, Len(e.pairs))

\* What a session row says besides its refresh token does not matter.
LEMMA FlagsKeepNewest ==
  ASSUME NEW d, TablesInv(d), NEW e, e.pairs = d.pairs,
         \A s \in DOMAIN d.sessions : e.sessions[s].refresh = d.sessions[s].refresh
  PROVE  NewestKept(d, e, NoPair)
<1>1. \A p \in DOMAIN d.pairs : d.pairs[p].session \in DOMAIN d.sessions
  BY DEF TablesInv, PairsHaveSessions
<1>2. QED BY <1>1 DEF NewestKept, Newest, SessionOf

\* A new session leaves the others as they are.
LEMMA IssueNewest ==
  ASSUME NEW d, TablesInv(d), NEW u \in Users, NEW e, e = Issue(d, u)
  PROVE  NewestKept(d, e, NoPair) /\ JustIssued(d, e)
<1> DEFINE n == Len(d.pairs) + 1
           k == Len(d.sessions) + 1
           row == [user |-> u, refresh |-> n, revoked |-> FALSE, expired |-> FALSE]
           pair == [session |-> k, from |-> NoPair]
           P == [session : Nat, from : Nat]
<1>1. d.sessions \in Seq(Session(Users)) /\ d.pairs \in Seq(P)
  BY TablesFields DEF TablesInv
<1>2. e.sessions = Append(d.sessions, row) /\ e.pairs = Append(d.pairs, pair)
  BY DEF Issue
<1>3. n \in Nat /\ k \in Nat BY <1>1
<1>4. row \in Session(Users) /\ pair \in P BY <1>3 DEF Session, NoPair
<1>5. row.refresh = n /\ pair.session = k OBVIOUS
<1> HIDE DEF row, pair, P
<1>6. /\ n \notin DOMAIN d.pairs /\ Len(e.pairs) = n /\ e.pairs[n] = pair
      /\ \A p \in DOMAIN d.pairs : e.pairs[p] = d.pairs[p]
  BY <1>1, <1>2, <1>4, AppendFacts
<1>7. e.sessions[k] = row /\ \A s \in DOMAIN d.sessions : e.sessions[s] = d.sessions[s]
  BY <1>1, <1>2, <1>4, AppendFacts
<1> HIDE DEF n, k
<1>8. JustIssued(d, e) BY <1>5, <1>6, <1>7 DEF JustIssued, Newest, SessionOf
<1>9. \A p \in DOMAIN d.pairs : d.pairs[p].session \in DOMAIN d.sessions
  BY DEF TablesInv, PairsHaveSessions
<1>10. NewestKept(d, e, NoPair) BY <1>6, <1>7, <1>9 DEF NewestKept, Newest, SessionOf
<1>11. QED BY <1>8, <1>10

\* Replacing the sessions of a user revokes them and changes no refresh token.
LEMMA RevokeAllNewest ==
  ASSUME NEW d, TablesInv(d), NEW u, NEW e, e = RevokeAll(d, u)
  PROVE  e.pairs = d.pairs /\ NewestKept(d, e, NoPair)
<1>1. d \in Tables(Users) /\ d.sessions \in Seq(Session(Users)) BY TablesFields DEF TablesInv
<1>2. \A s \in DOMAIN d.sessions : d.sessions[s] \in Session(Users) BY <1>1
<1>3. /\ e.pairs = d.pairs
      /\ e.sessions = [i \in DOMAIN d.sessions |->
                         IF d.sessions[i].user = u
                         THEN [d.sessions[i] EXCEPT !.revoked = TRUE] ELSE d.sessions[i]]
  BY <1>1 DEF RevokeAll, Tables
<1>4. ASSUME NEW s \in DOMAIN d.sessions
      PROVE  e.sessions[s].refresh = d.sessions[s].refresh
  <2>1. d.sessions[s] \in Session(Users) BY <1>2
  <2>2. [d.sessions[s] EXCEPT !.revoked = TRUE].refresh = d.sessions[s].refresh
    BY <2>1 DEF Session
  <2>3. QED BY <1>3, <2>2
<1>5. QED BY <1>3, <1>4, FlagsKeepNewest

\* A login issues a pair and keeps every other pair as new as it was.
LEMMA LoginNewest ==
  ASSUME NEW d, TablesInv(d), NEW u \in Users, NEW e, e = LoginTables(d, u)
  PROVE  NewestKept(d, e, NoPair) /\ JustIssued(d, e)
<1>1. CASE ActiveSessions(d, u) = {} BY <1>1, IssueNewest DEF LoginTables
<1>2. CASE ActiveSessions(d, u) # {}
  <2> DEFINE r == RevokeAll(d, u)
  <2>1. TablesInv(r) /\ r.pairs = d.pairs /\ NewestKept(d, r, NoPair)
    BY RevokeAllKeeps, RevokeAllNewest
  <2>2. e = Issue(r, u) BY <1>2 DEF LoginTables
  <2> HIDE DEF r
  <2>3. NewestKept(r, e, NoPair) /\ JustIssued(r, e) BY <2>1, <2>2, IssueNewest
  <2>4. QED BY <2>1, <2>3 DEF NewestKept, JustIssued
<1>3. QED BY <1>1, <1>2

\* A refresh takes its place from the pair exchanged, and from no other.
LEMMA RefreshNewest ==
  ASSUME NEW d, TablesInv(d), NEW q \in DOMAIN d.pairs, Refreshable(d, q),
         NEW e, e = RefreshTables(d, q)
  PROVE  NewestKept(d, e, q) /\ JustIssued(d, e)
<1> DEFINE s == d.pairs[q].session
           n == Len(d.pairs) + 1
           row == [d.sessions[s] EXCEPT !.refresh = n]
           pair == [session |-> s, from |-> q]
           P == [session : Nat, from : Nat]
<1>1. d \in Tables(Users) /\ d.sessions \in Seq(Session(Users)) /\ d.pairs \in Seq(P)
  BY TablesFields DEF TablesInv
<1>2. s \in DOMAIN d.sessions BY DEF TablesInv, PairsHaveSessions
<1>3. q \in Nat /\ s \in Nat /\ n \in Nat
  <2> HIDE DEF s
  <2>1. q \in Nat BY <1>1
  <2>2. s \in Nat BY <1>1, <1>2
  <2>3. n \in Nat BY <1>1
  <2> QED BY <2>1, <2>2, <2>3
<1>4. d.sessions[s] \in Session(Users) BY <1>1, <1>2
<1>5. row \in Session(Users) /\ row.refresh = n BY <1>3, <1>4 DEF Session
<1>6. pair \in P /\ pair.session = s BY <1>3
<1>7. e.sessions = [d.sessions EXCEPT ![s] = row] /\ e.pairs = Append(d.pairs, pair)
  BY <1>1 DEF RefreshTables, Tables
<1>8. d.sessions[s].refresh = q BY DEF Refreshable, Newest, SessionOf
<1> HIDE DEF s, row, pair, P
<1>9. /\ n \notin DOMAIN d.pairs /\ Len(e.pairs) = n /\ e.pairs[n] = pair
      /\ \A p \in DOMAIN d.pairs : e.pairs[p] = d.pairs[p]
  BY <1>1, <1>6, <1>7, AppendFacts
<1>10. /\ e.sessions[s] = row
       /\ \A r \in DOMAIN d.sessions \ {s} : e.sessions[r] = d.sessions[r]
  BY <1>1, <1>2, <1>7
<1> HIDE DEF n
<1>11. JustIssued(d, e) BY <1>5, <1>6, <1>9, <1>10 DEF JustIssued, Newest, SessionOf
<1>12. ASSUME NEW p \in DOMAIN d.pairs, Newest(d, p), p # q PROVE Newest(e, p)
  <2>1. d.pairs[p].session \in DOMAIN d.sessions BY DEF TablesInv, PairsHaveSessions
  <2>2. d.pairs[p].session # s BY <1>8, <1>12 DEF Newest, SessionOf
  <2>3. QED BY <1>9, <1>10, <1>12, <2>1, <2>2 DEF Newest, SessionOf
<1>13. QED BY <1>11, <1>12 DEF NewestKept

\* Signing out, and the passing of time, change no refresh token.
LEMMA EndsNewest ==
  ASSUME NEW d, TablesInv(d)
  PROVE  /\ \A p \in DOMAIN d.pairs : NewestKept(d, LogoutTables(d, p), NoPair)
         /\ \A p : NewestKept(d, ExpireAccess(d, p), NoPair)
         /\ \A s \in DOMAIN d.sessions : NewestKept(d, ExpireSession(d, s), NoPair)
<1>1. d \in Tables(Users) /\ d.sessions \in Seq(Session(Users)) BY TablesFields DEF TablesInv
<1>2. \A s \in DOMAIN d.sessions : d.sessions[s] \in Session(Users) BY <1>1
<1>3. ASSUME NEW s \in DOMAIN d.sessions, NEW row, row.refresh = d.sessions[s].refresh,
             NEW e, e.pairs = d.pairs, e.sessions = [d.sessions EXCEPT ![s] = row]
      PROVE  NewestKept(d, e, NoPair)
  <2>1. \A r \in DOMAIN d.sessions : e.sessions[r].refresh = d.sessions[r].refresh
    BY <1>1, <1>3
  <2>2. QED BY <1>3, <2>1, FlagsKeepNewest
<1>4. ASSUME NEW p \in DOMAIN d.pairs PROVE NewestKept(d, LogoutTables(d, p), NoPair)
  <2> DEFINE s == d.pairs[p].session
             row == [d.sessions[s] EXCEPT !.revoked = TRUE]
             e == LogoutTables(d, p)
  <2>1. s \in DOMAIN d.sessions BY DEF TablesInv, PairsHaveSessions
  <2>2. row.refresh = d.sessions[s].refresh BY <1>2, <2>1, FlagsTyped
  <2>3. e.pairs = d.pairs /\ e.sessions = [d.sessions EXCEPT ![s] = row]
    BY <1>1 DEF LogoutTables, Tables
  <2> HIDE DEF s, row, e
  <2>4. NewestKept(d, e, NoPair) BY <1>3, <2>1, <2>2, <2>3
  <2>5. QED BY <2>4 DEF e
<1>5. ASSUME NEW p PROVE NewestKept(d, ExpireAccess(d, p), NoPair)
  <2>1. ExpireAccess(d, p).pairs = d.pairs /\ ExpireAccess(d, p).sessions = d.sessions
    BY <1>1 DEF ExpireAccess, Tables
  <2>2. QED BY <2>1, FlagsKeepNewest
<1>6. ASSUME NEW s \in DOMAIN d.sessions PROVE NewestKept(d, ExpireSession(d, s), NoPair)
  <2> DEFINE row == [d.sessions[s] EXCEPT !.expired = TRUE]
             e == ExpireSession(d, s)
  <2>1. row.refresh = d.sessions[s].refresh BY <1>2, FlagsTyped
  <2>2. e.pairs = d.pairs /\ e.sessions = [d.sessions EXCEPT ![s] = row]
    BY <1>1 DEF ExpireSession, Tables
  <2> HIDE DEF row, e
  <2>3. NewestKept(d, e, NoPair) BY <1>3, <2>1, <2>2
  <2>4. QED BY <2>3 DEF e
<1>7. QED BY <1>4, <1>5, <1>6

\* Tables that stay the same keep what is newest.
LEMMA SameNewest == \A d : NewestKept(d, d, NoPair)
BY DEF NewestKept
-----------------------------------------------------------------------------
(* The invariant.                                                          *)

\* The only tab of its browser.
Sole(t) == \A o \in Tabs \ {t} : BrowserOf[o] # BrowserOf[t]

\* The pair can still be refreshed, or the answer to its refresh was lost.
Fresh(p, d, l) == Newest(d, p) \/ p \in l

\* What a tab may yet present to the API, or store.
Names(x, p) ==
  /\ p # NoPair
  /\ \/ x.tokens = p
     \/ x.refresh.at = "pending" /\ x.refresh.pair = p
     \/ x.refresh.at = "ok" /\ x.refresh.got = p
     \/ x.login.at = "ok" /\ x.login.got = p

Keeps(b, p) ==
  \/ p # NoPair /\ stored[b] = p
  \/ \E t \in Tabs : BrowserOf[t] = b /\ Names(tab[t], p)

Apart == \A p \in DOMAIN db.pairs : \A b, c \in Browsers : Keeps(b, p) /\ Keeps(c, p) => b = c

LateLost == \A r \in late : r.op = "refresh" => r.pair \in lost

\* What a tab that nobody interferes with knows of its pairs.
Current(x, d, l) ==
  /\ x.tokens # NoPair =>
       Fresh(x.tokens, d, l) \/ (x.refresh.at = "ok" /\ x.refresh.pair = x.tokens)
  /\ x.refresh.at = "pending" => Fresh(x.refresh.pair, d, l)
  /\ x.refresh.at = "ok" => Fresh(x.refresh.got, d, l)
  /\ x.login.at = "ok" =>
       /\ Fresh(x.login.got, d, l)
       /\ x.login.got # x.tokens
       /\ x.refresh.at = "pending" => x.login.got # x.refresh.pair
       /\ x.refresh.at = "ok" => x.login.got # x.refresh.got

SoleCurrent ==
  \A t \in Tabs : Sole(t) => /\ stored[BrowserOf[t]] = tab[t].tokens
                             /\ Current(tab[t], db, lost)

RotationInv == Apart /\ LateLost /\ SoleCurrent

\* Everything a tab or a storage keeps is a pair of the tables.
LEMMA KeptPairs ==
  ASSUME SessionsInv
  PROVE  /\ \A t \in Tabs : \A p : Names(tab[t], p) => p \in DOMAIN db.pairs
         /\ \A b \in Browsers : \A p : Keeps(b, p) => p \in DOMAIN db.pairs
         /\ NoPair \notin DOMAIN db.pairs
<1>1. \A t \in Tabs : \A p : Names(tab[t], p) => p \in DOMAIN db.pairs
  BY DEF SessionsInv, TabInv, TabRefers, Names
<1>2. \A b \in Browsers : \A p : Keeps(b, p) => p \in DOMAIN db.pairs
  BY <1>1 DEF SessionsInv, Keeps
<1>3. NoPair \notin DOMAIN db.pairs BY PairsArePositive DEF SessionsInv
<1>4. QED BY <1>1, <1>2, <1>3

\* What a tab knows stays true when no pair it names is exchanged by others.
LEMMA CurrentStable ==
  ASSUME NEW d, TablesInv(d), NEW x, TabInv(x, d), NEW l, Current(x, d, l),
         NEW e, NEW q, NewestKept(d, e, q), NEW m, l \subseteq m,
         q \in m \/ ~ Names(x, q)
  PROVE  Current(x, e, m)
<1>1. \A p : p \in DOMAIN d.pairs => p # NoPair BY PairsArePositive
<1>2. ASSUME NEW p, p \in DOMAIN d.pairs, Names(x, p), Fresh(p, d, l) PROVE Fresh(p, e, m)
  BY <1>2 DEF NewestKept, Fresh
<1>3. ASSUME x.tokens # NoPair, Fresh(x.tokens, d, l) PROVE Fresh(x.tokens, e, m)
  BY <1>2, <1>3 DEF TabInv, TabRefers, Names
<1>4. ASSUME x.refresh.at = "pending" PROVE Fresh(x.refresh.pair, e, m)
  <2>1. x.refresh.pair \in DOMAIN d.pairs /\ Fresh(x.refresh.pair, d, l)
    BY <1>4 DEF TabInv, TabRefers, Current
  <2>2. QED BY <1>1, <1>2, <1>4, <2>1 DEF Names
<1>5. ASSUME x.refresh.at = "ok" PROVE Fresh(x.refresh.got, e, m)
  <2>1. x.refresh.got \in DOMAIN d.pairs /\ Fresh(x.refresh.got, d, l)
    BY <1>5 DEF TabInv, TabRefers, Current
  <2>2. QED BY <1>1, <1>2, <1>5, <2>1 DEF Names
<1>6. ASSUME x.login.at = "ok" PROVE Fresh(x.login.got, e, m)
  <2>1. x.login.got \in DOMAIN d.pairs /\ Fresh(x.login.got, d, l)
    BY <1>6 DEF TabInv, TabRefers, Current
  <2>2. QED BY <1>1, <1>2, <1>6, <2>1 DEF Names
<1>7. QED BY <1>3, <1>4, <1>5, <1>6 DEF Current

\* A step of one tab keeps the invariant when the tab names nothing but what it
\* named, its storage, or a pair just issued, and exchanges only what it named.
LEMMA MoveKeeps ==
  ASSUME SessionsInv, RotationInv, NEW t \in Tabs, NEW y,
         tab' = [tab EXCEPT ![t] = y],
         \/ stored' = [stored EXCEPT ![BrowserOf[t]] = y.tokens]
         \/ stored' = stored /\ y.tokens \in {tab[t].tokens, stored[BrowserOf[t]]},
         \A p \in DOMAIN db.pairs :
           Names(y, p) => Names(tab[t], p) \/ stored[BrowserOf[t]] = p,
         DOMAIN db.pairs \subseteq DOMAIN db'.pairs,
         \A p : Names(y, p) => p \in DOMAIN db'.pairs,
         NEW q, NewestKept(db, db', q), q = NoPair \/ Names(tab[t], q),
         lost \subseteq lost', LateLost',
         Sole(t) => Current(y, db', lost')
  PROVE  RotationInv'
<1> DEFINE b == BrowserOf[t]
<1>1. /\ b \in Browsers /\ \A o \in Tabs : BrowserOf[o] \in Browsers
      /\ stored \in [Browsers -> Nat] /\ tab \in [Tabs -> Tab]
  BY BrowserOfAssumption DEF Tabs, SessionsInv
<1>2. tab'[t] = y /\ \A o \in Tabs \ {t} : tab'[o] = tab[o] BY <1>1
<1>3. \A c \in Browsers \ {b} : stored'[c] = stored[c] BY <1>1
<1>4. stored'[b] = y.tokens \/ (stored'[b] = stored[b]) BY <1>1
<1>5. \A p : Names(tab[t], p) => Keeps(b, p) BY DEF Keeps
<1>6. ASSUME NEW c \in Browsers, NEW p, Keeps(c, p)', c # b PROVE Keeps(c, p)
  BY <1>2, <1>3, <1>6 DEF Keeps, Names
<1>7. ASSUME NEW p \in DOMAIN db.pairs, Keeps(b, p)' PROVE Keeps(b, p)
  <2>1. NoPair \notin DOMAIN db.pairs BY KeptPairs
  <2>2. Names(y, p) => Keeps(b, p) BY <1>5, <2>1 DEF Keeps
  <2>3. ASSUME p # NoPair, stored'[b] = p PROVE Keeps(b, p)
    <3>1. stored[b] = p \/ y.tokens = p BY <1>4, <2>3
    <3>2. y.tokens = p => Names(y, p) BY <2>3 DEF Names
    <3>3. QED BY <2>2, <2>3, <3>1, <3>2 DEF Keeps
  <2>4. ASSUME NEW o \in Tabs, BrowserOf[o] = b, Names(tab'[o], p) PROVE Keeps(b, p)
    BY <1>2, <2>2, <2>4 DEF Keeps
  <2>5. QED BY <1>7, <2>3, <2>4 DEF Keeps
<1>8. Apart'
  <2> SUFFICES ASSUME NEW p \in DOMAIN db'.pairs, NEW c \in Browsers, NEW a \in Browsers,
                      Keeps(c, p)', Keeps(a, p)', c # a
               PROVE  FALSE
    BY DEF Apart
  <2>1. CASE p \in DOMAIN db.pairs
    <3>1. Keeps(c, p) /\ Keeps(a, p) BY <1>6, <1>7, <2>1
    <3>2. QED BY <2>1, <3>1 DEF RotationInv, Apart
  <2>2. CASE p \notin DOMAIN db.pairs
    <3>1. c = b /\ a = b BY <1>6, <2>2, KeptPairs
    <3>2. QED BY <3>1
  <2>3. QED BY <2>1, <2>2
<1>9. ASSUME NEW o \in Tabs, Sole(o)
      PROVE  stored'[BrowserOf[o]] = tab'[o].tokens /\ Current(tab'[o], db', lost')
  <2>1. CASE o = t
    <3>1. stored[b] = tab[t].tokens BY <1>9, <2>1 DEF RotationInv, SoleCurrent
    <3>2. stored'[b] = y.tokens BY <1>1, <3>1
    <3>3. QED BY <1>2, <1>9, <2>1, <3>2
  <2>2. CASE o # t
    <3>1. BrowserOf[o] # b BY <1>9, <2>2 DEF Sole
    <3>2. /\ stored[BrowserOf[o]] = tab[o].tokens /\ Current(tab[o], db, lost)
          /\ TablesInv(db) /\ TabInv(tab[o], db)
      BY <1>9 DEF RotationInv, SoleCurrent, SessionsInv
    <3>3. ~ Names(tab[o], q)
      <4>1. SUFFICES ASSUME Names(tab[o], q) PROVE FALSE OBVIOUS
      <4>2. q # NoPair BY <4>1 DEF Names
      <4>3. Keeps(b, q) BY <1>5, <4>2
      <4>4. Keeps(BrowserOf[o], q) BY <4>1 DEF Keeps
      <4>5. q \in DOMAIN db.pairs BY <4>1, KeptPairs
      <4>6. QED BY <1>1, <3>1, <4>3, <4>4, <4>5 DEF RotationInv, Apart
    <3>4. Current(tab[o], db', lost') BY <3>2, <3>3, CurrentStable
    <3>5. QED BY <1>1, <1>2, <1>3, <2>2, <3>1, <3>2, <3>4
  <2>3. QED BY <2>1, <2>2
<1>10. SoleCurrent' BY <1>9 DEF SoleCurrent, Sole
<1>11. QED BY <1>8, <1>10 DEF RotationInv

-----------------------------------------------------------------------------
(* What the handlers do to what a tab names and knows.                     *)

SameTokens(x, y) == y.tokens = x.tokens

SameRefresh(x, y) ==
  /\ y.refresh.at = x.refresh.at /\ y.refresh.pair = x.refresh.pair
  /\ y.refresh.got = x.refresh.got

SameLogin(x, y) == y.login.at = x.login.at /\ (x.login.at = "ok" => y.login.got = x.login.got)

\* Nothing new is named.
Settles(x, y, m) ==
  /\ SameTokens(x, y) \/ y.tokens = NoPair
  /\ \/ SameRefresh(x, y)
     \/ /\ y.refresh.at \notin {"pending", "ok"}
        /\ x.refresh.at = "ok" => x.refresh.pair \in m \/ y.tokens = NoPair
  /\ SameLogin(x, y) \/ y.login.at # "ok"

LEMMA SettlesKeeps ==
  ASSUME NEW x, NEW y, NEW m, Settles(x, y, m)
  PROVE  /\ \A p : Names(y, p) => Names(x, p)
         /\ \A d : (x.login.at = "ok" => x.login.got # NoPair) /\ Current(x, d, m) => Current(y, d, m)
<1>1. \A p : Names(y, p) => Names(x, p)
  BY DEF Settles, SameTokens, SameRefresh, SameLogin, Names
<1>2. ASSUME NEW d, x.login.at = "ok" => x.login.got # NoPair, Current(x, d, m) PROVE Current(y, d, m)
  <2>1. y.tokens # NoPair =>
          Fresh(y.tokens, d, m) \/ (y.refresh.at = "ok" /\ y.refresh.pair = y.tokens)
    BY <1>2 DEF Settles, SameTokens, SameRefresh, Current, Fresh
  <2>2. /\ y.refresh.at = "pending" => Fresh(y.refresh.pair, d, m)
        /\ y.refresh.at = "ok" => Fresh(y.refresh.got, d, m)
    BY <1>2 DEF Settles, SameRefresh, Current
  <2>3. ASSUME y.login.at = "ok"
        PROVE  /\ Fresh(y.login.got, d, m) /\ y.login.got # y.tokens
               /\ y.refresh.at = "pending" => y.login.got # y.refresh.pair
               /\ y.refresh.at = "ok" => y.login.got # y.refresh.got
    BY <1>2, <2>3 DEF Settles, SameTokens, SameRefresh, SameLogin, Current
  <2>4. QED BY <2>1, <2>2, <2>3 DEF Current
<1>3. QED BY <1>1, <1>2

\* A step of one tab that names nothing new and exchanges no pair.
LEMMA SettleStep ==
  ASSUME SessionsInv, RotationInv, NEW t \in Tabs, NEW y, Settles(tab[t], y, lost'),
         tab' = [tab EXCEPT ![t] = y],
         \/ stored' = [stored EXCEPT ![BrowserOf[t]] = y.tokens]
         \/ UNCHANGED stored /\ SameTokens(tab[t], y),
         DOMAIN db.pairs \subseteq DOMAIN db'.pairs, NewestKept(db, db', NoPair),
         lost \subseteq lost', LateLost'
  PROVE  RotationInv'
<1> DEFINE x == tab[t]
<1>1. \A p : Names(y, p) => Names(x, p) BY SettlesKeeps
<1>2. \A p : Names(x, p) => p \in DOMAIN db'.pairs BY KeptPairs
<1>3. TablesInv(db) /\ TabInv(x, db) BY TabFacts
<1>4. x.login.at = "ok" => x.login.got # NoPair
  BY <1>3, PairsArePositive DEF TabInv, TabRefers
<1>5. ~ Names(x, NoPair) BY DEF Names
<1>6. Sole(t) => Current(y, db', lost')
  <2> SUFFICES ASSUME Sole(t) PROVE Current(y, db', lost') OBVIOUS
  <2>1. Current(x, db, lost) BY DEF RotationInv, SoleCurrent
  <2> HIDE DEF x
  <2>2. Current(x, db', lost') BY <1>3, <1>5, <2>1, CurrentStable
  <2>3. QED BY <1>4, <2>2, SettlesKeeps DEF x
<1>7. /\ \/ stored' = [stored EXCEPT ![BrowserOf[t]] = y.tokens]
         \/ stored' = stored /\ y.tokens \in {tab[t].tokens, stored[BrowserOf[t]]}
      /\ \A p \in DOMAIN db.pairs : Names(y, p) => Names(tab[t], p) \/ stored[BrowserOf[t]] = p
      /\ \A p : Names(y, p) => p \in DOMAIN db'.pairs
  BY <1>1, <1>2 DEF SameTokens
<1> HIDE DEF x
<1>8. QED BY <1>6, <1>7, MoveKeeps

\* The handlers that leave pairs alone, or forget them.
LEMMA QuietSettles ==
  ASSUME NEW x \in Tab, NEW m
  PROVE  /\ \A v : Settles(x, [x EXCEPT !.boot = v], m)
         /\ \A v : Settles(x, [x EXCEPT !.warned = v], m)
         /\ \A v : Settles(x, [x EXCEPT !.logout = v], m)
         /\ \A v : Settles(x, [x EXCEPT !.calls = v], m)
         /\ \A v, u, w : Settles(x, [x EXCEPT !.calls = v, !.me = u, !.mixed = w], m)
         /\ \A v : v.at # "ok" => Settles(x, [x EXCEPT !.login = v], m)
         /\ \A v : /\ v.at \notin {"pending", "ok"}
                   /\ x.refresh.at = "ok" => x.refresh.pair \in m
                   => Settles(x, [x EXCEPT !.refresh = v], m)
BY DEF Tab, Settles, SameTokens, SameRefresh, SameLogin

\* The requests nobody waits for stay those that were.
LEMMA LateStays ==
  ASSUME LateLost, late' \subseteq late, lost \subseteq lost'
  PROVE  LateLost'
BY DEF LateLost

\* A step of one tab that leaves the tables alone, too.
LEMMA OwnSettles ==
  ASSUME SessionsInv, RotationInv, NEW t \in Tabs, NEW y, Settles(tab[t], y, lost'),
         tab' = [tab EXCEPT ![t] = y],
         \/ stored' = [stored EXCEPT ![BrowserOf[t]] = y.tokens]
         \/ UNCHANGED stored /\ SameTokens(tab[t], y),
         UNCHANGED <<db, late>>, lost \subseteq lost'
  PROVE  RotationInv'
<1>1. DOMAIN db.pairs \subseteq DOMAIN db'.pairs /\ NewestKept(db, db', NoPair) BY SameNewest
<1>2. LateLost' BY LateStays DEF RotationInv
<1>3. QED BY <1>1, <1>2, SettleStep

-----------------------------------------------------------------------------
(* The invariant is kept: one lemma per group of actions.                  *)

\* clearAuth.
LEMMA ClearSettles ==
  ASSUME SessionsInv, RotationInv, NEW t \in Tabs, NEW z \in Tab, ClearAuth(t, z),
         SameRefresh(tab[t], z) \/ z.refresh.at = "none", SameLogin(tab[t], z),
         UNCHANGED <<db, late>>, lost \subseteq lost'
  PROVE  RotationInv'
<1> DEFINE y == [z EXCEPT !.tokens = NoPair, !.me = NoUser, !.boot = NoBoot, !.armed = FALSE]
<1>1. y.tokens = NoPair /\ y.refresh = z.refresh /\ y.login = z.login BY DEF Tab
<1>2. tab' = [tab EXCEPT ![t] = y] /\ stored' = [stored EXCEPT ![BrowserOf[t]] = y.tokens]
  BY <1>1 DEF ClearAuth
<1> HIDE DEF y
<1>3. Settles(tab[t], y, lost') BY <1>1 DEF Settles, SameTokens, SameRefresh, SameLogin
<1>4. QED BY <1>2, <1>3, OwnSettles

\* A tab that joins a refresh, or starts one with its own tokens.
LEMMA JoinStep ==
  ASSUME SessionsInv, RotationInv, NEW t \in Tabs, NEW who, NEW z, NEW y,
         z = JoinRefresh(tab[t], who), tab[t].tokens \in DOMAIN db.pairs,
         SameTokens(z, y), SameRefresh(z, y), y.login = z.login,
         tab' = [tab EXCEPT ![t] = y], UNCHANGED <<db, stored, late, lost>>
  PROVE  RotationInv'
<1> DEFINE x == tab[t]
<1>1. x \in Tab /\ x.refresh \in Refresh /\ TabInv(x, db) BY TabFacts
<1>2. y.tokens = x.tokens /\ y.login = x.login
  BY <1>1 DEF JoinRefresh, Tab, SameTokens
<1>3. CASE x.refresh.at # "none"
  <2>1. SameRefresh(x, y) BY <1>1, <1>3 DEF JoinRefresh, Waits, Tab, Refresh, SameRefresh
  <2>2. Settles(x, y, lost') BY <1>2, <2>1 DEF Settles, SameTokens, SameLogin
  <2>3. SameTokens(tab[t], y) BY <1>2 DEF SameTokens
  <2>4. QED BY <2>2, <2>3, OwnSettles
<1>4. CASE x.refresh.at = "none"
  <2>1. y.refresh.at = "pending" /\ y.refresh.pair = x.tokens
    BY <1>1, <1>4 DEF JoinRefresh, Tab, SameRefresh
  <2>2. \A p : Names(y, p) => Names(x, p) BY <1>2, <2>1 DEF Names
  <2>3. NoPair \notin DOMAIN db.pairs BY KeptPairs
  <2>4. ASSUME Sole(t) PROVE Current(y, db', lost')
    <3>1. Current(x, db, lost) BY <2>4 DEF RotationInv, SoleCurrent
    <3> HIDE DEF x
    <3>2. Current(y, db, lost) BY <1>2, <1>4, <2>1, <2>3, <3>1 DEF Current, x
    <3>3. QED BY <3>2
  <2>5. /\ NewestKept(db, db', NoPair) /\ LateLost' /\ lost \subseteq lost'
        /\ DOMAIN db.pairs \subseteq DOMAIN db'.pairs
        /\ \A p : Names(y, p) => p \in DOMAIN db'.pairs
    BY <2>2, KeptPairs, SameNewest, LateStays DEF RotationInv
  <2>6. \A p \in DOMAIN db.pairs : Names(y, p) => Names(tab[t], p) \/ stored[BrowserOf[t]] = p
    BY <2>2
  <2>7. stored' = stored /\ y.tokens \in {tab[t].tokens, stored[BrowserOf[t]]} BY <1>2
  <2> HIDE DEF x
  <2>8. QED BY <2>4, <2>5, <2>6, <2>7, MoveKeeps
<1>5. QED BY <1>3, <1>4

\* A tab that stores a pair it holds the answer with.
LEMMA KeepStep ==
  ASSUME SessionsInv, RotationInv, NEW t \in Tabs, NEW z \in Tab,
         NEW p \in DOMAIN db.pairs, Keep(t, z, p), Names(tab[t], p),
         Sole(t) => Fresh(p, db, lost'),
         SameRefresh(tab[t], z) \/ z.refresh.at = "none",
         SameLogin(tab[t], z) \/ z.login.at = "none",
         z.login.at = "ok" /\ Sole(t) => z.login.got # p,
         UNCHANGED <<db, late>>, lost \subseteq lost'
  PROVE  RotationInv'
<1> DEFINE x == tab[t]
           y == WithTokens(z, p)
<1>1. y.tokens = p /\ y.refresh = z.refresh /\ y.login = z.login BY DEF Tab, WithTokens
<1>2. tab' = [tab EXCEPT ![t] = y] /\ stored' = [stored EXCEPT ![BrowserOf[t]] = y.tokens]
  BY <1>1 DEF Keep
<1> HIDE DEF y
<1>3. \A r : Names(y, r) => Names(x, r) BY <1>1 DEF Names, SameRefresh, SameLogin
<1>4. TablesInv(db) /\ TabInv(x, db) BY TabFacts
<1>5. ASSUME Sole(t) PROVE Current(y, db', lost')
  <2>1. Current(x, db, lost) BY <1>5 DEF RotationInv, SoleCurrent
  <2>2. NewestKept(db, db, NoPair) /\ ~ Names(x, NoPair) BY SameNewest DEF Names
  <2> HIDE DEF x
  <2>3. Current(x, db, lost') BY <1>4, <2>1, <2>2, CurrentStable
  <2>4. Current(y, db, lost') BY <1>1, <1>5, <2>3 DEF Current, SameRefresh, SameLogin, x
  <2>5. QED BY <2>4
<1>6. /\ NewestKept(db, db', NoPair) /\ LateLost'
      /\ DOMAIN db.pairs \subseteq DOMAIN db'.pairs
      /\ \A r : Names(y, r) => r \in DOMAIN db'.pairs
  BY <1>3, KeptPairs, SameNewest, LateStays DEF RotationInv
<1>7. \A r \in DOMAIN db.pairs : Names(y, r) => Names(tab[t], r) \/ stored[BrowserOf[t]] = r
  BY <1>3
<1> HIDE DEF x
<1>8. QED BY <1>2, <1>5, <1>6, <1>7, MoveKeeps

\* The boot effect.
LEMMA BootRotates ==
  ASSUME SessionsInv, RotationInv, NEW t \in Tabs, BootStep(t)
  PROVE  RotationInv'
<1> DEFINE x == tab[t]
<1>1. x \in Tab /\ TabInv(x, db) /\ x.boot \in Boot /\ tab \in [Tabs -> Tab]
  BY TabFacts DEF SessionsInv
<1>2. x.boot.at # "none" => x.tokens \in DOMAIN db.pairs BY <1>1 DEF TabInv, TabRefers
<1>3. ASSUME NEW v, tab' = [tab EXCEPT ![t] = [x EXCEPT !.boot = v]],
             UNCHANGED <<db, stored, late, lost>>
      PROVE  RotationInv'
  <2> DEFINE y == [x EXCEPT !.boot = v]
  <2>1. Settles(x, y, lost') BY <1>1, QuietSettles
  <2>2. SameTokens(x, y) BY <1>1 DEF SameTokens, Tab
  <2> HIDE DEF y
  <2>3. tab' = [tab EXCEPT ![t] = y] BY <1>3 DEF y
  <2>4. QED BY <1>3, <2>1, <2>2, <2>3, OwnSettles
<1>4. ASSUME ServerMe(t) PROVE RotationInv'
  BY <1>3, <1>4 DEF ServerMe
<1>5. ASSUME BootShowsUser(t) PROVE RotationInv'
  <2> DEFINE y == [x EXCEPT !.me = x.boot.user, !.boot.at = "done", !.warned = NoUser,
                      !.mixed = FALSE]
  <2>1. tab' = [tab EXCEPT ![t] = y] /\ UNCHANGED <<db, stored, late, aged, lost, losses>>
    BY <1>5 DEF BootShowsUser
  <2>2. y.tokens = x.tokens /\ y.refresh = x.refresh /\ y.login = x.login BY <1>1 DEF Tab
  <2> HIDE DEF y
  <2>3. Settles(x, y, lost') /\ SameTokens(x, y)
    BY <2>2 DEF Settles, SameTokens, SameRefresh, SameLogin
  <2>4. QED BY <2>1, <2>3, OwnSettles
<1>6. ASSUME BootRefreshes(t) PROVE RotationInv'
  <2> DEFINE z == JoinRefresh(x, BootRun)
             y == [z EXCEPT !.boot.at = "refreshing"]
  <2>1. /\ x.boot.at = "denied" /\ tab' = [tab EXCEPT ![t] = y]
        /\ UNCHANGED <<db, stored, late, aged, lost, losses>>
    BY <1>1, <1>6 DEF BootRefreshes
  <2>2. TabInv(z, db) BY <1>1, <1>2, <2>1, JoinMoves
  <2>3. x.tokens \in DOMAIN db.pairs BY <1>2, <2>1
  <2> HIDE DEF z
  <2>4. y.tokens = z.tokens /\ y.refresh = z.refresh /\ y.login = z.login
    BY <2>2 DEF TabInv, Tab
  <2> HIDE DEF y
  <2>5. SameTokens(z, y) /\ SameRefresh(z, y) BY <2>4 DEF SameTokens, SameRefresh
  <2>6. z = JoinRefresh(tab[t], BootRun) BY DEF z
  <2>7. QED BY <2>1, <2>3, <2>4, <2>5, <2>6, JoinStep
<1>7. ASSUME BootFails(t) PROVE RotationInv'
  <2>1. SameRefresh(x, x) /\ SameLogin(x, x) BY DEF SameRefresh, SameLogin
  <2>2. QED BY <1>1, <1>7, <2>1, ClearSettles DEF BootFails
<1>8. ASSUME BootTimesOut(t) PROVE RotationInv'
  <2> DEFINE v == [x.boot EXCEPT !.at = "silent"]
  <2>1. tab' = [tab EXCEPT ![t] = [x EXCEPT !.boot = v]]
        /\ UNCHANGED <<db, stored, late, aged, lost, losses>>
    BY <1>8 DEF BootTimesOut
  <2> HIDE DEF v
  <2>2. QED BY <1>3, <2>1
<1>9. QED BY <1>4, <1>5, <1>6, <1>7, <1>8 DEF BootStep

\* The refresh timer.
LEMMA TimerRotates ==
  ASSUME SessionsInv, RotationInv, NEW t \in Tabs, TimerFires(t)
  PROVE  RotationInv'
<1> DEFINE x == tab[t]
           z == JoinRefresh(x, Timer)
           y == [z EXCEPT !.armed = FALSE]
<1>1. TabInv(x, db) /\ x.tokens \in DOMAIN db.pairs
  BY TabFacts DEF TimerFires, SessionsInv
<1>2. tab' = [tab EXCEPT ![t] = y] /\ UNCHANGED <<db, stored, late, aged, lost, losses>>
  BY DEF TimerFires, SessionsInv
<1>3. TabInv(z, db) BY <1>1, JoinMoves
<1> HIDE DEF z
<1>4. y.tokens = z.tokens /\ y.refresh = z.refresh /\ y.login = z.login
  BY <1>3 DEF TabInv, Tab
<1> HIDE DEF y
<1>5. SameTokens(z, y) /\ SameRefresh(z, y) BY <1>4 DEF SameTokens, SameRefresh
<1>6. z = JoinRefresh(tab[t], Timer) BY DEF z
<1>7. QED BY <1>1, <1>2, <1>4, <1>5, <1>6, JoinStep

\* A refresh that ends leaves nothing to present.
LEMMA RefreshOver ==
  ASSUME NEW x \in Tab
  PROVE  LET z == [x EXCEPT !.refresh = NoRefresh]
         IN /\ z \in Tab /\ z.refresh.at = "none" /\ z.refresh = NoRefresh
            /\ z.tokens = x.tokens /\ z.login = x.login /\ z.boot = x.boot
<1>1. NoRefresh \in Refresh /\ NoRefresh.at = "none" BY DEF NoRefresh, Refresh, NoPair
<1>2. QED BY <1>1, TabUpdates DEF Tab

\* The server exchanges the pair of a tab, which no other tab and no storage of
\* another browser keeps.
LEMMA ServerRefreshRotates ==
  ASSUME SessionsInv, RotationInv, NEW t \in Tabs, ServerRefresh(t)
  PROVE  RotationInv'
<1> DEFINE x == tab[t]
           r == x.refresh
<1>1. /\ TablesInv(db) /\ TabInv(x, db) /\ x \in Tab /\ r \in Refresh
      /\ tab \in [Tabs -> Tab]
  BY TabFacts DEF SessionsInv
<1>2. r.at = "pending" /\ UNCHANGED <<stored, late, aged, lost, losses>> BY DEF ServerRefresh
<1>3. r.pair \in DOMAIN db.pairs /\ r.pair # NoPair
  BY <1>1, <1>2, PairsArePositive DEF TabInv, TabRefers
<1>4. CASE ~ Refreshable(db, r.pair)
  <2> DEFINE v == [r EXCEPT !.at = "denied"]
             y == [x EXCEPT !.refresh = v]
  <2>1. UNCHANGED db /\ tab' = [tab EXCEPT ![t] = y] BY <1>4 DEF ServerRefresh
  <2>2. v.at = "denied" BY <1>1 DEF Refresh
  <2> HIDE DEF v
  <2>3. Settles(x, y, lost') BY <1>1, <1>2, <2>2, QuietSettles
  <2>4. SameTokens(x, y) BY <1>1 DEF SameTokens, Tab
  <2> HIDE DEF y
  <2>5. QED BY <1>2, <2>1, <2>3, <2>4, OwnSettles
<1>5. CASE Refreshable(db, r.pair)
  <2> DEFINE n == Len(db'.pairs)
             v == [r EXCEPT !.at = "ok", !.got = n]
             y == [x EXCEPT !.refresh = v]
  <2>1. db' = RefreshTables(db, r.pair) /\ tab' = [tab EXCEPT ![t] = y]
    BY <1>5 DEF ServerRefresh
  <2>2. /\ TablesInv(db') /\ TablesGrow(db, db') /\ n \in DOMAIN db'.pairs
        /\ NewestKept(db, db', r.pair) /\ n \notin DOMAIN db.pairs /\ Newest(db', n)
    BY <1>1, <1>3, <1>5, <2>1, RefreshKeeps, RefreshNewest DEF JustIssued
  <2>3. v.at = "ok" /\ v.got = n /\ v.pair = r.pair BY <1>1 DEF Refresh
  <2> HIDE DEF v, n
  <2>4. y.tokens = x.tokens /\ y.refresh = v /\ y.login = x.login BY <1>1 DEF Tab
  <2> HIDE DEF y
  <2>5. \A p : Names(y, p) => Names(x, p) \/ p = n BY <2>3, <2>4 DEF Names
  <2>6. Names(x, r.pair) BY <1>2, <1>3 DEF Names
  <2>7. ASSUME Sole(t) PROVE Current(y, db', lost')
    <3>1. Current(x, db, lost) BY <2>7 DEF RotationInv, SoleCurrent
    <3>2. x.tokens # NoPair => x.tokens \in DOMAIN db.pairs BY <1>1 DEF TabInv, TabRefers
    <3>3. x.tokens # NoPair =>
            Fresh(x.tokens, db', lost') \/ (y.refresh.at = "ok" /\ y.refresh.pair = x.tokens)
      BY <1>2, <2>2, <2>3, <2>4, <3>1, <3>2 DEF Current, Fresh, NewestKept
    <3>4. Fresh(y.refresh.got, db', lost') BY <2>2, <2>3, <2>4 DEF Fresh
    <3>5. ASSUME x.login.at = "ok"
          PROVE  Fresh(x.login.got, db', lost') /\ x.login.got # x.tokens /\ x.login.got # n
      <4>1. x.login.got \in DOMAIN db.pairs BY <1>1, <3>5 DEF TabInv, TabRefers
      <4>2. Fresh(x.login.got, db, lost) /\ x.login.got # r.pair /\ x.login.got # x.tokens
        BY <1>2, <3>1, <3>5 DEF Current
      <4>3. Fresh(x.login.got, db', lost') BY <1>2, <2>2, <4>1, <4>2 DEF Fresh, NewestKept
      <4>4. QED BY <2>2, <4>1, <4>2, <4>3
    <3>6. QED BY <2>3, <2>4, <3>3, <3>4, <3>5 DEF Current
  <2>8. /\ DOMAIN db.pairs \subseteq DOMAIN db'.pairs
        /\ \A p : Names(y, p) => p \in DOMAIN db'.pairs
        /\ \A p \in DOMAIN db.pairs : Names(y, p) => Names(tab[t], p) \/ stored[BrowserOf[t]] = p
    BY <2>2, <2>5, KeptPairs DEF TablesGrow
  <2>9. stored' = stored /\ y.tokens \in {tab[t].tokens, stored[BrowserOf[t]]}
    BY <1>2, <2>4
  <2>10. lost \subseteq lost' /\ LateLost' BY <1>2, LateStays DEF RotationInv
  <2> HIDE DEF x, r
  <2>11. QED BY <2>1, <2>2, <2>6, <2>7, <2>8, <2>9, <2>10, MoveKeeps DEF x
<1>6. QED BY <1>4, <1>5

\* The answer to a refresh is handled, or nobody waits for it any more.
LEMMA RefreshStepRotates ==
  ASSUME SessionsInv, RotationInv, NEW t \in Tabs, RefreshStep(t)
  PROVE  RotationInv'
<1> DEFINE x == tab[t]
           r == x.refresh
           z == [x EXCEPT !.refresh = NoRefresh]
<1>1. /\ TabInv(x, db) /\ x \in Tab /\ r \in Refresh /\ tab \in [Tabs -> Tab]
  BY TabFacts DEF SessionsInv
<1>2. /\ z \in Tab /\ z.refresh.at = "none" /\ z.refresh = NoRefresh
      /\ z.tokens = x.tokens /\ z.login = x.login /\ z.boot = x.boot
  BY <1>1, RefreshOver
<1>3. SameLogin(x, z) /\ SameTokens(x, z) BY <1>2 DEF SameLogin, SameTokens
<1>4. ASSUME NEW y, y.tokens = z.tokens, y.refresh = z.refresh, y.login = z.login,
             r.at = "ok" => r.pair \in lost',
             tab' = [tab EXCEPT ![t] = y], UNCHANGED <<db, stored, late>>, lost \subseteq lost'
      PROVE  RotationInv'
  <2>1. Settles(x, y, lost') /\ SameTokens(x, y)
    BY <1>2, <1>3, <1>4 DEF Settles, SameTokens, SameLogin
  <2>2. QED BY <1>4, <2>1, OwnSettles
<1>5. ASSUME RefreshSucceeds(t) PROVE RotationInv'
  <2>1. r.at = "ok" /\ UNCHANGED <<db, late, aged, losses>> BY <1>5 DEF RefreshSucceeds
  <2>2. \/ Keep(t, z, r.got) /\ UNCHANGED lost
        \/ tab' = [tab EXCEPT ![t] = z] /\ lost' = lost \cup {r.pair} /\ UNCHANGED stored
    BY <1>5 DEF RefreshSucceeds, KeepRefreshed
  <2>3. CASE Keep(t, z, r.got) /\ UNCHANGED lost
    <3>1. r.got \in DOMAIN db.pairs BY <1>1, <2>1 DEF TabInv, TabRefers
    <3>2. r.got # NoPair BY <3>1, KeptPairs
    <3>3. Names(tab[t], r.got) BY <2>1, <3>2 DEF Names
    <3>4. ASSUME Sole(t)
          PROVE  Fresh(r.got, db, lost') /\ (z.login.at = "ok" => z.login.got # r.got)
      <4>1. Current(x, db, lost) BY <3>4 DEF RotationInv, SoleCurrent
      <4>2. QED BY <1>2, <2>1, <2>3, <4>1 DEF Current
    <3> HIDE DEF z
    <3>5. QED BY <1>2, <1>3, <2>1, <2>3, <3>1, <3>3, <3>4, KeepStep
  <2>4. CASE tab' = [tab EXCEPT ![t] = z] /\ lost' = lost \cup {r.pair} /\ UNCHANGED stored
    <3> HIDE DEF z
    <3>1. QED BY <1>4, <2>1, <2>4
  <2>5. QED BY <2>2, <2>3, <2>4
<1>6. ASSUME RefreshEndsSession(t) PROVE RotationInv'
  <2> DEFINE v == [z.boot EXCEPT !.at = "silent"]
             y == [z EXCEPT !.boot = v]
  <2>1. r.at # "ok" /\ UNCHANGED <<db, late, aged, lost, losses>>
    BY <1>6 DEF RefreshEndsSession
  <2>2. \/ ClearAuth(t, z)
        \/ tab' = [tab EXCEPT ![t] = z] /\ UNCHANGED stored
        \/ tab' = [tab EXCEPT ![t] = y] /\ UNCHANGED stored
    BY <1>6 DEF RefreshEndsSession
  <2> HIDE DEF v, z
  <2>3. y.tokens = z.tokens /\ y.refresh = z.refresh /\ y.login = z.login BY <1>2 DEF Tab
  <2> HIDE DEF y
  <2>4. CASE ClearAuth(t, z) BY <1>2, <1>3, <2>1, <2>4, ClearSettles
  <2>5. CASE tab' = [tab EXCEPT ![t] = z] /\ UNCHANGED stored BY <1>4, <2>1, <2>5
  <2>6. CASE tab' = [tab EXCEPT ![t] = y] /\ UNCHANGED stored BY <1>4, <2>1, <2>3, <2>6
  <2>7. QED BY <2>2, <2>4, <2>5, <2>6
<1>7. QED BY <1>5, <1>6, ServerRefreshRotates DEF RefreshStep

\* The login of a tab brings a pair nobody knows yet.
LEMMA ServerLoginRotates ==
  ASSUME SessionsInv, RotationInv, NEW t \in Tabs, ServerLogin(t)
  PROVE  RotationInv'
<1> DEFINE x == tab[t]
           l == x.login
<1>1. /\ TablesInv(db) /\ TabInv(x, db) /\ x \in Tab /\ l \in Login
      /\ tab \in [Tabs -> Tab]
  BY TabFacts DEF SessionsInv
<1>2. l.at = "pending" /\ UNCHANGED <<stored, late, aged, lost, losses>> BY DEF ServerLogin
<1>3. l \in [at : {"pending", "ok", "refused", "failed", "aborted"},
             user : Users, replace : BOOLEAN, got : Nat]
  BY <1>1, <1>2 DEF Login, Idle
<1>4. CASE LoginRefused(db, l.user, l.replace)
  <2> DEFINE v == [l EXCEPT !.at = "refused"]
             y == [x EXCEPT !.login = v]
  <2>1. UNCHANGED db /\ tab' = [tab EXCEPT ![t] = y] BY <1>4 DEF ServerLogin
  <2>2. v.at # "ok" BY <1>3
  <2> HIDE DEF v
  <2>3. Settles(x, y, lost') BY <1>1, <2>2, QuietSettles
  <2>4. SameTokens(x, y) BY <1>1 DEF SameTokens, Tab
  <2> HIDE DEF y
  <2>5. QED BY <1>2, <2>1, <2>3, <2>4, OwnSettles
<1>5. CASE ~ LoginRefused(db, l.user, l.replace)
  <2> DEFINE n == Len(db'.pairs)
             v == [l EXCEPT !.at = "ok", !.got = n]
             y == [x EXCEPT !.login = v]
  <2>1. db' = LoginTables(db, l.user) /\ tab' = [tab EXCEPT ![t] = y]
    BY <1>5 DEF ServerLogin
  <2>2. l.user \in Users BY <1>3
  <2>3. /\ TablesInv(db') /\ TablesGrow(db, db') /\ n \in DOMAIN db'.pairs
        /\ NewestKept(db, db', NoPair) /\ n \notin DOMAIN db.pairs /\ Newest(db', n)
    BY <1>1, <2>1, <2>2, LoginKeeps, LoginNewest DEF JustIssued
  <2>4. v.at = "ok" /\ v.got = n BY <1>3
  <2> HIDE DEF v, n
  <2>5. y.tokens = x.tokens /\ y.refresh = x.refresh /\ y.login = v BY <1>1 DEF Tab
  <2> HIDE DEF y
  <2>6. \A p : Names(y, p) => Names(x, p) \/ p = n BY <2>4, <2>5 DEF Names
  <2>7. ASSUME Sole(t) PROVE Current(y, db', lost')
    <3>1. Current(x, db, lost) BY <2>7 DEF RotationInv, SoleCurrent
    <3>2. ~ Names(x, NoPair) BY DEF Names
    <3>3. n # NoPair BY <2>3, PairsArePositive
    <3>4. /\ x.tokens # NoPair => x.tokens \in DOMAIN db.pairs
          /\ x.refresh.at = "pending" => x.refresh.pair \in DOMAIN db.pairs
          /\ x.refresh.at = "ok" => x.refresh.got \in DOMAIN db.pairs
      BY <1>1 DEF TabInv, TabRefers
    <3>5. Fresh(n, db', lost') BY <2>3 DEF Fresh
    <3> HIDE DEF x
    <3>6. Current(x, db', lost') BY <1>1, <1>2, <2>3, <3>1, <3>2, CurrentStable
    <3>7. QED BY <2>3, <2>4, <2>5, <3>3, <3>4, <3>5, <3>6 DEF Current
  <2>8. /\ DOMAIN db.pairs \subseteq DOMAIN db'.pairs
        /\ \A p : Names(y, p) => p \in DOMAIN db'.pairs
        /\ \A p \in DOMAIN db.pairs : Names(y, p) => Names(tab[t], p) \/ stored[BrowserOf[t]] = p
    BY <2>3, <2>6, KeptPairs DEF TablesGrow
  <2>9. stored' = stored /\ y.tokens \in {tab[t].tokens, stored[BrowserOf[t]]}
    BY <1>2, <2>5
  <2>10. lost \subseteq lost' /\ LateLost' BY <1>2, LateStays DEF RotationInv
  <2> HIDE DEF x
  <2>11. QED BY <2>1, <2>3, <2>7, <2>8, <2>9, <2>10, MoveKeeps
<1>6. QED BY <1>4, <1>5

\* The answer to a login is handled.
LEMMA LoginStepRotates ==
  ASSUME SessionsInv, RotationInv, NEW t \in Tabs, LoginStep(t)
  PROVE  RotationInv'
<1> DEFINE x == tab[t]
           l == x.login
<1>1. TabInv(x, db) /\ x \in Tab /\ l \in Login /\ tab \in [Tabs -> Tab]
  BY TabFacts DEF SessionsInv
<1>2. Idle \in Login /\ Idle.at = "none" /\ NoUser \in Users \cup {NoUser} BY DEF Login, Idle
<1>3. ASSUME LoginSucceeds(t) PROVE RotationInv'
  <2> DEFINE z == [x EXCEPT !.login = Idle, !.warned = NoUser]
  <2>1. /\ l.at = "ok" /\ UNCHANGED <<db, late, aged, lost, losses>> /\ Keep(t, z, l.got)
    BY <1>3 DEF LoginSucceeds
  <2>2. l.got \in DOMAIN db.pairs BY <1>1, <2>1 DEF TabInv, TabRefers
  <2>3. l.got # NoPair BY <2>2, KeptPairs
  <2>4. Names(tab[t], l.got) BY <2>1, <2>3 DEF Names
  <2>5. z \in Tab /\ z.refresh = x.refresh /\ z.login = Idle BY <1>1, <1>2 DEF Tab
  <2> HIDE DEF z
  <2>6. SameRefresh(tab[t], z) BY <2>5 DEF SameRefresh
  <2>7. Sole(t) => Fresh(l.got, db, lost') BY <2>1 DEF RotationInv, SoleCurrent, Current
  <2>8. QED BY <1>2, <2>1, <2>2, <2>4, <2>5, <2>6, <2>7, KeepStep
<1>4. ASSUME LoginFails(t) PROVE RotationInv'
  <2> DEFINE u == IF l.at = "refused" /\ ~Authed(x) THEN l.user ELSE x.warned
             y == [x EXCEPT !.login = Idle, !.warned = u]
  <2>1. tab' = [tab EXCEPT ![t] = y] /\ UNCHANGED <<db, stored, late, aged, lost, losses>>
    BY <1>1, <1>4 DEF LoginFails
  <2> HIDE DEF u
  <2>2. y.tokens = x.tokens /\ y.refresh = x.refresh /\ y.login = Idle BY <1>1 DEF Tab
  <2> HIDE DEF y
  <2>3. Settles(x, y, lost') /\ SameTokens(x, y)
    BY <1>2, <2>2 DEF Settles, SameTokens, SameRefresh
  <2>4. QED BY <2>1, <2>3, OwnSettles
<1>5. QED BY <1>3, <1>4, ServerLoginRotates DEF LoginStep

\* Logging out, whether the token still verifies or not, exchanges no pair.
LEMMA AfterLogoutNewest ==
  ASSUME NEW d, TablesInv(d), NEW p \in DOMAIN d.pairs
  PROVE  LET e == IF Verified(d, p) THEN LogoutTables(d, p) ELSE d
         IN NewestKept(d, e, NoPair) /\ DOMAIN d.pairs \subseteq DOMAIN e.pairs
<1>1. NewestKept(d, LogoutTables(d, p), NoPair) /\ NewestKept(d, d, NoPair)
  BY EndsNewest, SameNewest
<1>2. TablesGrow(d, LogoutTables(d, p)) BY EndsKeep
<1>3. QED BY <1>1, <1>2 DEF TablesGrow

\* The logout of a tab.
LEMMA LogoutStepRotates ==
  ASSUME SessionsInv, RotationInv, NEW t \in Tabs, LogoutStep(t)
  PROVE  RotationInv'
<1> DEFINE x == tab[t]
           o == x.logout
<1>1. /\ TablesInv(db) /\ TabInv(x, db) /\ x \in Tab /\ o \in Logout
      /\ tab \in [Tabs -> Tab]
  BY TabFacts DEF SessionsInv
<1>2. ASSUME ServerLogout(t) PROVE RotationInv'
  <2> DEFINE v == [o EXCEPT !.at = "answered"]
             y == [x EXCEPT !.logout = v]
  <2>1. /\ o.at = "pending" /\ UNCHANGED <<stored, late, aged, lost, losses>>
        /\ db' = AfterLogout(o.pair) /\ tab' = [tab EXCEPT ![t] = y]
    BY <1>2 DEF ServerLogout
  <2>2. o.pair \in DOMAIN db.pairs BY <1>1, <2>1 DEF TabInv, TabRefers
  <2>3. NewestKept(db, db', NoPair) /\ DOMAIN db.pairs \subseteq DOMAIN db'.pairs
    BY <1>1, <2>1, <2>2, AfterLogoutNewest DEF AfterLogout
  <2> HIDE DEF v
  <2>4. Settles(x, y, lost') BY <1>1, QuietSettles
  <2>5. SameTokens(x, y) BY <1>1 DEF SameTokens, Tab
  <2>6. lost \subseteq lost' /\ LateLost' BY <2>1, LateStays DEF RotationInv
  <2> HIDE DEF y
  <2>7. QED BY <2>1, <2>3, <2>4, <2>5, <2>6, SettleStep
<1>3. ASSUME LogoutEnds(t) PROVE RotationInv'
  <2> DEFINE z == [x EXCEPT !.logout = Idle]
  <2>1. ClearAuth(t, z) /\ UNCHANGED <<db, late, aged, lost, losses>> BY <1>3 DEF LogoutEnds
  <2>2. Idle \in Logout BY DEF Idle, Logout
  <2>3. z \in Tab /\ z.refresh = x.refresh /\ z.login = x.login BY <1>1, <2>2 DEF Tab
  <2> HIDE DEF z
  <2>4. SameRefresh(tab[t], z) /\ SameLogin(tab[t], z) BY <2>3 DEF SameRefresh, SameLogin
  <2>5. QED BY <2>1, <2>3, <2>4, ClearSettles
<1>4. QED BY <1>2, <1>3 DEF LogoutStep

\* The requests of pages name no pair the tab may present again.
LEMMA CallStepRotates ==
  ASSUME SessionsInv, RotationInv, NEW t \in Tabs, CallStep(t)
  PROVE  RotationInv'
<1> DEFINE x == tab[t]
<1>1. x \in Tab /\ tab \in [Tabs -> Tab] BY TabFacts DEF SessionsInv
<1>2. PICK r \in x.calls : CallShowsUser(t, r) \/ CallSignsOut(t, r) \/ CallEnds(t, r)
  BY DEF CallStep
<1> DEFINE c == x.calls \ {r}
           z == [x EXCEPT !.calls = c]
<1>3. x.calls \subseteq Call BY <1>1, TabFields
<1>4. CASE CallShowsUser(t, r)
  <2> DEFINE u == OwnerOf(db, r.pair)
             m == x.mixed \/ (x.tokens # NoPair /\ u # OwnerOf(db, x.tokens))
             y == UpdateMe(x, r)
  <2>1. tab' = [tab EXCEPT ![t] = y] /\ UNCHANGED <<db, stored, late, aged, lost, losses>>
    BY <1>4 DEF CallShowsUser
  <2>2. y = [x EXCEPT !.calls = c, !.me = u, !.mixed = m] BY DEF UpdateMe
  <2> HIDE DEF u, m, c, y
  <2>3. Settles(x, y, lost') BY <1>1, <2>2, QuietSettles
  <2>4. SameTokens(x, y) BY <1>1, <2>2 DEF SameTokens, Tab
  <2>5. QED BY <2>1, <2>3, <2>4, OwnSettles
<1>5. CASE CallSignsOut(t, r)
  <2>1. ClearAuth(t, z) /\ UNCHANGED <<db, late, aged, lost, losses>>
    BY <1>5 DEF CallSignsOut
  <2>2. z \in Tab /\ z.refresh = x.refresh /\ z.login = x.login BY <1>1, <1>3 DEF Tab
  <2> HIDE DEF z
  <2>3. SameRefresh(tab[t], z) /\ SameLogin(tab[t], z) BY <2>2 DEF SameRefresh, SameLogin
  <2>4. QED BY <2>1, <2>2, <2>3, ClearSettles
<1>6. CASE CallEnds(t, r)
  <2>1. tab' = [tab EXCEPT ![t] = z] /\ UNCHANGED <<db, stored, late, aged, lost, losses>>
    BY <1>6 DEF CallEnds
  <2>2. Settles(x, z, lost') BY <1>1, QuietSettles
  <2>3. SameTokens(x, z) BY <1>1 DEF SameTokens, Tab
  <2> HIDE DEF z
  <2>4. QED BY <2>1, <2>2, <2>3, OwnSettles
<1>7. QED BY <1>2, <1>4, <1>5, <1>6

\* What the user does.
LEMMA UserStepRotates ==
  ASSUME SessionsInv, RotationInv, NEW t \in Tabs, UserStep(t)
  PROVE  RotationInv'
<1> DEFINE x == tab[t]
<1>1. x \in Tab /\ tab \in [Tabs -> Tab] BY TabFacts DEF SessionsInv
<1>2. ASSUME NEW y, tab' = [tab EXCEPT ![t] = y], Settles(x, y, lost'), y.tokens = x.tokens,
             UNCHANGED <<db, stored, late, aged, lost, losses>>
      PROVE  RotationInv'
  BY <1>2, OwnSettles DEF SameTokens
<1>3. ASSUME NEW u, NEW replace, SendLogin(t, u, replace) PROVE RotationInv'
  <2> DEFINE v == [at |-> "pending", user |-> u, replace |-> replace, got |-> NoPair]
             y == [x EXCEPT !.login = v]
  <2>1. tab' = [tab EXCEPT ![t] = y] /\ UNCHANGED <<db, stored, late, aged, lost, losses>>
    BY <1>3 DEF SendLogin
  <2>2. v.at # "ok" OBVIOUS
  <2> HIDE DEF v
  <2>3. Settles(x, y, lost') /\ y.tokens = x.tokens BY <1>1, <2>2, QuietSettles DEF Tab
  <2> HIDE DEF y, x
  <2>4. QED BY <1>2, <2>1, <2>3
<1>4. ASSUME CancelReplace(t) PROVE RotationInv'
  <2> DEFINE y == [x EXCEPT !.warned = NoUser]
  <2>1. tab' = [tab EXCEPT ![t] = y] /\ UNCHANGED <<db, stored, late, aged, lost, losses>>
    BY <1>4 DEF CancelReplace
  <2>2. Settles(x, y, lost') /\ y.tokens = x.tokens BY <1>1, QuietSettles DEF Tab
  <2> HIDE DEF y, x
  <2>3. QED BY <1>2, <2>1, <2>2
<1>5. ASSUME SendLogout(t) PROVE RotationInv'
  <2> DEFINE v == [at |-> "pending", pair |-> x.tokens]
             y == [x EXCEPT !.logout = v]
  <2>1. tab' = [tab EXCEPT ![t] = y] /\ UNCHANGED <<db, stored, late, aged, lost, losses>>
    BY <1>5 DEF SendLogout
  <2> HIDE DEF v
  <2>2. Settles(x, y, lost') /\ y.tokens = x.tokens BY <1>1, QuietSettles DEF Tab
  <2> HIDE DEF y, x
  <2>3. QED BY <1>2, <2>1, <2>2
<1>6. ASSUME NEW page, SendCall(t, page) PROVE RotationInv'
  <2> DEFINE v == x.calls \cup {[page |-> page, pair |-> x.tokens]}
             y == [x EXCEPT !.calls = v]
  <2>1. tab' = [tab EXCEPT ![t] = y] /\ UNCHANGED <<db, stored, late, aged, lost, losses>>
    BY <1>6 DEF SendCall
  <2> HIDE DEF v
  <2>2. Settles(x, y, lost') /\ y.tokens = x.tokens BY <1>1, QuietSettles DEF Tab
  <2> HIDE DEF y, x
  <2>3. QED BY <1>2, <2>1, <2>2
<1>7. QED BY <1>3, <1>4, <1>5, <1>6 DEF UserStep, SubmitLogin, ConfirmReplace

\* The refresh a tab leaves behind is recorded with its pair.
LEMMA LeftBehind ==
  ASSUME LateLost, NEW x, lost \subseteq lost',
         late' \subseteq late \cup Unserved(x),
         \A r \in late' \ late :
           r.op = "refresh" /\ x.refresh.at = "pending" => x.refresh.pair \in lost'
  PROVE  LateLost'
<1>1. \A r \in Unserved(x) : r.op = "refresh" =>
        x.refresh.at = "pending" /\ r.pair = x.refresh.pair
  BY DEF Unserved
<1>2. QED BY <1>1 DEF LateLost

\* An answer is lost: a pair whose refresh may have been served is recorded.
LEMMA LostRotates ==
  ASSUME SessionsInv, RotationInv, NEW t \in Tabs, NEW how \in LossKinds, AnswerLost(t, how)
  PROVE  RotationInv'
<1> DEFINE x == tab[t]
<1>1. x \in Tab /\ x.refresh \in Refresh /\ x.login \in Login /\ tab \in [Tabs -> Tab]
  BY TabFacts DEF SessionsInv
<1>2. how \in {"failed", "aborted"} BY LossAssumption
<1>3. UNCHANGED <<db, stored, aged>> BY DEF AnswerLost
<1>4. DOMAIN db.pairs \subseteq DOMAIN db'.pairs /\ NewestKept(db, db', NoPair)
  BY <1>3, SameNewest
<1>5. LateLost BY DEF RotationInv
<1>6. ASSUME NEW y, tab' = [tab EXCEPT ![t] = y], Settles(x, y, lost'), y.tokens = x.tokens,
             lost \subseteq lost', LateLost'
      PROVE  RotationInv'
  BY <1>3, <1>4, <1>6, SettleStep DEF SameTokens
<1>7. \A op : UnservedOf(x, op) \subseteq {r \in Unserved(x) : r.op = op} BY DEF UnservedOf
<1>8. CASE /\ tab' = [tab EXCEPT ![t].boot = [at |-> how, user |-> NoUser]]
           /\ UNCHANGED <<late, lost>>
  <2> DEFINE v == [at |-> how, user |-> NoUser]
             y == [x EXCEPT !.boot = v]
  <2>1. tab' = [tab EXCEPT ![t] = y] BY <1>8
  <2> HIDE DEF v
  <2>2. Settles(x, y, lost') /\ y.tokens = x.tokens BY <1>1, QuietSettles DEF Tab
  <2>3. LateLost' BY <1>5, <1>8, LateStays
  <2> HIDE DEF y, x
  <2>4. QED BY <1>6, <1>8, <2>1, <2>2, <2>3
<1>9. CASE /\ x.refresh.at \in {"pending", "ok", "denied"}
           /\ tab' = [tab EXCEPT ![t].refresh = [@ EXCEPT !.at = how, !.got = NoPair]]
           /\ late' = late \cup UnservedOf(x, "refresh")
           /\ lost' = lost \cup {x.refresh.pair}
  <2> DEFINE v == [x.refresh EXCEPT !.at = how, !.got = NoPair]
             y == [x EXCEPT !.refresh = v]
  <2>1. tab' = [tab EXCEPT ![t] = y] BY <1>9
  <2>2. v.at = how BY <1>1 DEF Refresh
  <2> HIDE DEF v
  <2>3. Settles(x, y, lost') /\ y.tokens = x.tokens
    BY <1>1, <1>2, <1>9, <2>2, QuietSettles DEF Tab
  <2>4. lost \subseteq lost' /\ LateLost' BY <1>5, <1>7, <1>9, LeftBehind
  <2> HIDE DEF y, x
  <2>5. QED BY <1>6, <2>1, <2>3, <2>4
<1>10. CASE /\ x.login.at \in {"pending", "ok", "refused"}
            /\ tab' = [tab EXCEPT ![t].login = [@ EXCEPT !.at = how, !.got = NoPair]]
            /\ late' = late \cup UnservedOf(x, "login")
            /\ UNCHANGED lost
  <2> DEFINE v == [x.login EXCEPT !.at = how, !.got = NoPair]
             y == [x EXCEPT !.login = v]
  <2>1. tab' = [tab EXCEPT ![t] = y] BY <1>10
  <2>2. v.at # "ok" BY <1>1, <1>2, <1>10 DEF Login, Idle
  <2> HIDE DEF v
  <2>3. Settles(x, y, lost') /\ y.tokens = x.tokens BY <1>1, <2>2, QuietSettles DEF Tab
  <2>4. \A r \in late' \ late : r.op # "refresh" BY <1>7, <1>10
  <2>5. late' \subseteq late \cup Unserved(x) BY <1>7, <1>10
  <2>6. lost \subseteq lost' /\ LateLost' BY <1>5, <1>10, <2>4, <2>5, LeftBehind
  <2> HIDE DEF y, x
  <2>7. QED BY <1>6, <2>1, <2>3, <2>6
<1>11. CASE /\ tab' = [tab EXCEPT ![t].logout.at = "answered"]
            /\ late' = late \cup UnservedOf(x, "logout")
            /\ UNCHANGED lost
  <2> DEFINE v == [x.logout EXCEPT !.at = "answered"]
             y == [x EXCEPT !.logout = v]
  <2>1. tab' = [tab EXCEPT ![t] = y] BY <1>11
  <2> HIDE DEF v
  <2>2. Settles(x, y, lost') /\ y.tokens = x.tokens BY <1>1, QuietSettles DEF Tab
  <2>3. \A r \in late' \ late : r.op # "refresh" BY <1>7, <1>11
  <2>4. late' \subseteq late \cup Unserved(x) BY <1>7, <1>11
  <2>5. lost \subseteq lost' /\ LateLost' BY <1>5, <1>11, <2>3, <2>4, LeftBehind
  <2> HIDE DEF y, x
  <2>6. QED BY <1>6, <2>1, <2>2, <2>5
<1>12. QED BY <1>8, <1>9, <1>10, <1>11 DEF AnswerLost

\* The page is reloaded: the tab has the stored pair again and nothing else.
LEMMA ReloadRotates ==
  ASSUME SessionsInv, RotationInv, NEW t \in Tabs, Reload(t)
  PROVE  RotationInv'
<1> DEFINE x == tab[t]
           p == stored[BrowserOf[t]]
           y == Mounted(p)
<1>1. /\ tab' = [tab EXCEPT ![t] = y] /\ late' = late \cup Unserved(x)
      /\ UNCHANGED <<db, stored, aged>>
  BY DEF Reload
<1>2. lost \subseteq lost' /\ (x.refresh.at \in {"pending", "ok"} => x.refresh.pair \in lost')
  BY DEF Reload
<1>3. LateLost' BY <1>1, <1>2, LeftBehind DEF RotationInv
<1>4. /\ y.tokens = p /\ y.refresh.at = "none" /\ y.login.at = "none"
  BY DEF Mounted, NoRefresh, Idle
<1> HIDE DEF y
<1>5. \A q : Names(y, q) => q = p /\ q # NoPair BY <1>4 DEF Names
<1>6. ASSUME Sole(t) PROVE Current(y, db', lost')
  <2>1. p = x.tokens /\ Current(x, db, lost) BY <1>6 DEF RotationInv, SoleCurrent
  <2>2. x.tokens # NoPair => Fresh(x.tokens, db', lost')
    BY <1>1, <1>2, <2>1 DEF Current, Fresh
  <2>3. QED BY <1>4, <2>1, <2>2 DEF Current
<1>7. /\ \A q \in DOMAIN db.pairs : Names(y, q) => Names(tab[t], q) \/ stored[BrowserOf[t]] = q
      /\ DOMAIN db.pairs \subseteq DOMAIN db'.pairs /\ NewestKept(db, db', NoPair)
  BY <1>1, <1>5, SameNewest
<1>8. \A q : Names(y, q) => q \in DOMAIN db'.pairs
  <2>1. BrowserOf[t] \in Browsers BY BrowserOfAssumption DEF Tabs
  <2>2. QED BY <1>1, <1>5, <2>1 DEF SessionsInv
<1>9. stored' = stored /\ y.tokens \in {tab[t].tokens, stored[BrowserOf[t]]} BY <1>1, <1>4
<1> HIDE DEF x, p
<1>10. QED BY <1>1, <1>2, <1>3, <1>6, <1>7, <1>8, <1>9, MoveKeeps

\* A step of the tables alone exchanges no pair, or one whose answer was lost.
LEMMA TablesRotate ==
  ASSUME SessionsInv, RotationInv, DOMAIN db.pairs \subseteq DOMAIN db'.pairs,
         NEW q, NewestKept(db, db', q), q = NoPair \/ q \in lost,
         late' \subseteq late, UNCHANGED <<stored, tab, lost>>
  PROVE  RotationInv'
<1>1. LateLost' BY LateStays DEF RotationInv
<1>2. \A b \in Browsers : \A p : Keeps(b, p)' => Keeps(b, p) /\ p \in DOMAIN db.pairs
  BY KeptPairs DEF Keeps, Names
<1>3. Apart' BY <1>2 DEF RotationInv, Apart
<1>4. ASSUME NEW t \in Tabs, Sole(t)
      PROVE  stored'[BrowserOf[t]] = tab'[t].tokens /\ Current(tab'[t], db', lost')
  <2>1. stored[BrowserOf[t]] = tab[t].tokens /\ Current(tab[t], db, lost)
    BY <1>4 DEF RotationInv, SoleCurrent
  <2>2. q \in lost \/ ~ Names(tab[t], q) BY DEF Names
  <2>3. TablesInv(db) /\ TabInv(tab[t], db) BY TabFacts
  <2>4. Current(tab[t], db', lost) BY <2>1, <2>2, <2>3, CurrentStable
  <2>5. QED BY <2>1, <2>4
<1>5. SoleCurrent' BY <1>4 DEF SoleCurrent, Sole
<1>6. QED BY <1>1, <1>3, <1>5 DEF RotationInv

\* A request without a reader is run.
LEMMA LateRotates ==
  ASSUME SessionsInv, RotationInv, NEW r \in late, ServeLate(r)
  PROVE  RotationInv'
<1>1. /\ TablesInv(db) /\ r \in Request /\ (r.op # "login" => r.pair \in DOMAIN db.pairs)
  BY DEF SessionsInv
<1>2. late' \subseteq late /\ UNCHANGED <<stored, tab, aged, lost, losses>> BY DEF ServeLate
<1>3. CASE r.op = "refresh" /\ Refreshable(db, r.pair) /\ db' = RefreshTables(db, r.pair)
  <2>1. r.pair \in lost BY <1>3 DEF RotationInv, LateLost
  <2>2. NewestKept(db, db', r.pair) BY <1>1, <1>3, RefreshNewest
  <2>3. DOMAIN db.pairs \subseteq DOMAIN db'.pairs BY <1>1, <1>3, RefreshKeeps DEF TablesGrow
  <2>4. QED BY <1>2, <2>1, <2>2, <2>3, TablesRotate
<1>4. CASE r.op = "logout" /\ db' = AfterLogout(r.pair)
  <2>1. NewestKept(db, db', NoPair) /\ DOMAIN db.pairs \subseteq DOMAIN db'.pairs
    BY <1>1, <1>4, AfterLogoutNewest DEF AfterLogout
  <2>2. QED BY <1>2, <2>1, TablesRotate
<1>5. CASE r.op = "login" /\ db' = LoginTables(db, r.user)
  <2>1. r.user \in Users BY <1>1, <1>5 DEF Request
  <2>2. NewestKept(db, db', NoPair) BY <1>1, <1>5, <2>1, LoginNewest
  <2>3. DOMAIN db.pairs \subseteq DOMAIN db'.pairs BY <1>1, <1>5, <2>1, LoginKeeps DEF TablesGrow
  <2>4. QED BY <1>2, <2>2, <2>3, TablesRotate
<1>6. CASE UNCHANGED db
  <2>1. NewestKept(db, db', NoPair) /\ DOMAIN db.pairs \subseteq DOMAIN db'.pairs
    BY <1>6, SameNewest
  <2>2. QED BY <1>2, <2>1, TablesRotate
<1>7. QED BY <1>3, <1>4, <1>5, <1>6 DEF ServeLate

\* Pairs and sessions expire.
LEMMA TimeRotates ==
  ASSUME SessionsInv, RotationInv, TimePasses
  PROVE  RotationInv'
<1>1. TablesInv(db) BY DEF SessionsInv
<1>2. ASSUME NEW p \in DOMAIN db.pairs, Ages(p) PROVE RotationInv'
  <2>1. NewestKept(db, db', NoPair) /\ UNCHANGED <<db, stored, tab, late, lost>>
    BY <1>2, SameNewest DEF Ages
  <2>2. QED BY <2>1, TablesRotate
<1>3. ASSUME NEW p \in DOMAIN db.pairs, AccessExpires(p) PROVE RotationInv'
  <2>1. NewestKept(db, db', NoPair) /\ DOMAIN db.pairs \subseteq DOMAIN db'.pairs
    BY <1>1, <1>3, EndsNewest, EndsKeep DEF AccessExpires, TablesGrow
  <2>2. UNCHANGED <<stored, tab, late, lost>> BY <1>3 DEF AccessExpires
  <2>3. QED BY <2>1, <2>2, TablesRotate
<1>4. ASSUME NEW s \in DOMAIN db.sessions, SessionExpires(s) PROVE RotationInv'
  <2>1. NewestKept(db, db', NoPair) /\ DOMAIN db.pairs \subseteq DOMAIN db'.pairs
    BY <1>1, <1>4, EndsNewest, EndsKeep DEF SessionExpires, TablesGrow
  <2>2. UNCHANGED <<stored, tab, late, lost>> BY <1>4 DEF SessionExpires
  <2>3. QED BY <2>1, <2>2, TablesRotate
<1>5. QED BY <1>2, <1>3, <1>4 DEF TimePasses

\* Every step keeps the invariant.
LEMMA NextRotationInv == SessionsInv /\ RotationInv /\ [Next]_vars => RotationInv'
<1> SUFFICES ASSUME SessionsInv, RotationInv, [Next]_vars PROVE RotationInv' OBVIOUS
<1>1. ASSUME NEW t \in Tabs,
             BootStep(t) \/ RefreshStep(t) \/ TimerFires(t) \/ LoginStep(t)
               \/ LogoutStep(t) \/ CallStep(t) \/ UserStep(t) \/ Reload(t)
      PROVE  RotationInv'
  BY <1>1, BootRotates, RefreshStepRotates, TimerRotates, LoginStepRotates,
     LogoutStepRotates, CallStepRotates, UserStepRotates, ReloadRotates
<1>2. ASSUME NEW t \in Tabs, NEW how \in LossKinds, AnswerLost(t, how) PROVE RotationInv'
  BY <1>2, LostRotates
<1>3. ASSUME NEW r \in late, ServeLate(r) PROVE RotationInv'
  BY <1>3, LateRotates
<1>4. CASE TimePasses BY <1>4, TimeRotates
<1>5. CASE UNCHANGED vars
  <2>1. NewestKept(db, db', NoPair) /\ UNCHANGED <<db, stored, tab, late, lost>>
    BY <1>5, SameNewest DEF vars
  <2>2. QED BY <2>1, TablesRotate
<1>6. QED BY <1>1, <1>2, <1>3, <1>4, <1>5 DEF Next

\* The invariant holds before anybody signed in.
LEMMA InitRotationInv == Init => RotationInv
<1> SUFFICES ASSUME Init PROVE RotationInv OBVIOUS
<1>1. /\ \A t \in Tabs : tab[t].tokens = NoPair /\ tab[t].refresh.at = "none"
                           /\ tab[t].login.at = "none"
      /\ \A b \in Browsers : stored[b] = NoPair
  BY DEF Init, Mounted, NoRefresh, Idle
<1>2. \A b \in Browsers : \A p : ~ Keeps(b, p) BY <1>1 DEF Keeps, Names
<1>3. \A t \in Tabs : BrowserOf[t] \in Browsers BY BrowserOfAssumption DEF Tabs
<1>4. SoleCurrent BY <1>1, <1>3 DEF SoleCurrent, Current
<1>5. Apart /\ LateLost BY <1>2 DEF Init, Apart, LateLost
<1>6. QED BY <1>4, <1>5 DEF RotationInv

-----------------------------------------------------------------------------
(* The theorems.                                                           *)

\* Browsers keep no pair in common, requests nobody waits for are accounted for,
\* and the only tab of a browser knows of each of its pairs where it stands.
THEOREM RotationInvariant == Spec => []RotationInv
<1>1. Init => SessionsInv /\ RotationInv BY InitSessionsInv, InitRotationInv
<1>2. SessionsInv /\ RotationInv /\ [Next]_vars => SessionsInv' /\ RotationInv'
  BY NextSessionsInv, NextRotationInv
<1>3. QED BY <1>1, <1>2, PTL DEF Spec

\* The only tab of a browser never loses its session to the rotation of refresh
\* tokens, unless an answer was lost (auth.tsx, refresh.go).
THEOREM SoleTabStaysCurrentHolds == Spec => []SoleTabStaysCurrent
<1>1. RotationInv => SoleTabStaysCurrent
  BY DEF RotationInv, SoleCurrent, Sole, Current, Fresh, SoleTabStaysCurrent
<1>2. QED BY <1>1, RotationInvariant, PTL
=============================================================================
