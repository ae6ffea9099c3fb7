----------------------------- MODULE AuthTables -----------------------------
(***************************************************************************)
(* The tables auth_sessions and api_tokens and the transactions of         *)
(* internal/auth on them.  A call of the API that succeeds hands out one   *)
(* pair of an access and a refresh token; a pair is named by its number.   *)
(*                                                                         *)
(*   sessions[s]  a row of auth_sessions: its owner, the pair whose        *)
(*                refresh token it knows, revoked_at and expires_at;       *)
(*   pairs[p]     the session a pair was issued for and the pair it was    *)
(*                exchanged for (NoPair for a login);                      *)
(*   access       the pairs whose api_tokens row exists and has not        *)
(*                expired.                                                 *)
(***************************************************************************)
EXTENDS Naturals, Sequences, FiniteSets

NoPair == 0

Session(Users) == [user : Users, refresh : Nat, revoked : BOOLEAN, expired : BOOLEAN]

Tables(Users) == [sessions : Seq(Session(Users)),
                  pairs : Seq([session : Nat, from : Nat]),
                  access : SUBSET Nat]

EmptyTables == [sessions |-> <<>>, pairs |-> <<>>, access |-> {}]

Active(s) == ~s.revoked /\ ~s.expired

ActiveSessions(db, u) ==
  {i \in DOMAIN db.sessions : db.sessions[i].user = u /\ Active(db.sessions[i])}

SessionOf(db, p) == db.sessions[db.pairs[p].session]
OwnerOf(db, p) == SessionOf(db, p).user

\* The pair is the last one issued for its session.
Newest(db, p) == SessionOf(db, p).refresh = p

\* VerifyAccessToken: an unexpired row whose session is neither revoked nor
\* expired.
Verified(db, p) == p \in db.access /\ Active(SessionOf(db, p))

\* issueTokenPair: a session and its first access token.
Issue(db, u) ==
  LET p == Len(db.pairs) + 1
  IN [sessions |-> Append(db.sessions, [user |-> u, refresh |-> p,
                                        revoked |-> FALSE, expired |-> FALSE]),
      pairs |-> Append(db.pairs, [session |-> Len(db.sessions) + 1, from |-> NoPair]),
      access |-> db.access \cup {p}]

\* Mutant: the sessions replaced are not revoked.
RevokeNothing(db, u) == db

\* Login with replace_existing_session: every session of the user is revoked,
\* every token of the user deleted.
RevokeAll(db, u) ==
  [db EXCEPT !.sessions = [i \in DOMAIN @ |->
                 IF @[i].user = u THEN [@[i] EXCEPT !.revoked = TRUE] ELSE @[i]],
             !.access = {p \in @ : OwnerOf(db, p) # u}]

\* Login: "active_session_exists" unless the user asked to replace it.
LoginRefused(db, u, replace) == ActiveSessions(db, u) # {} /\ ~replace

LoginTables(db, u) ==
  Issue(IF ActiveSessions(db, u) = {} THEN db ELSE RevokeAll(db, u), u)

\* The session row with this refresh token, not revoked and not expired.
Refreshable(db, p) == Newest(db, p) /\ Active(SessionOf(db, p))

\* Mutant: the session keeps its refresh token.
RefreshUnrotated(db, p) ==
  [db EXCEPT !.pairs = Append(@, [session |-> db.pairs[p].session, from |-> p]),
             !.access = {q \in @ : db.pairs[q].session # db.pairs[p].session}
                          \cup {Len(db.pairs) + 1}]

\* Mutant: the tokens issued before stay.
RefreshKeepsAccess(db, p) ==
  LET s == db.pairs[p].session  q == Len(db.pairs) + 1
  IN [db EXCEPT !.sessions[s].refresh = q,
                !.pairs = Append(@, [session |-> s, from |-> p]),
                !.access = @ \cup {q}]

\* Refresh: a new refresh token, the session's old access tokens deleted, a new
\* access token.
RefreshTables(db, p) ==
  LET s == db.pairs[p].session  q == Len(db.pairs) + 1
  IN [db EXCEPT !.sessions[s].refresh = q,
                !.pairs = Append(@, [session |-> s, from |-> p]),
                !.access = {r \in @ : db.pairs[r].session # s} \cup {q}]

\* Logout: the token is deleted and its session revoked; other tokens of the
\* session stay but verify no longer.
LogoutTables(db, p) ==
  [db EXCEPT !.sessions[db.pairs[p].session].revoked = TRUE, !.access = @ \ {p}]

\* Time: an access token, or a session, reaches its expires_at.
ExpireAccess(db, p) == [db EXCEPT !.access = @ \ {p}]
ExpireSession(db, s) == [db EXCEPT !.sessions[s].expired = TRUE]
=============================================================================
