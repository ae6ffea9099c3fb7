--------------------------- MODULE BrowserSessions ---------------------------
(***************************************************************************)
(* The sessions of users as the browser keeps them: AuthProvider           *)
(* (auth.tsx), LoginPage and the other pages' requests in every tab (as    *)
(* far as they sign out or show a user), localStorage shared by the tabs   *)
(* of one browser, and the API's transactions on AuthTables.               *)
(*                                                                         *)
(* A call of the API takes three steps, between which anything may happen: *)
(* the tab sends it, the server runs its transaction, the tab handles the  *)
(* answer.  An answer may be lost: "failed" is an error of the network or  *)
(* the server, "aborted" is request()'s own timeout, which auth.tsx cannot *)
(* tell from an abort of its own.                                          *)
(***************************************************************************)
EXTENDS AuthTables

CONSTANTS
  Users,       \* the accounts
  Browsers,    \* each with its localStorage
  BrowserOf,   \* the browser of each tab
  LossKinds,   \* how an answer may be lost: a subset of {"failed", "aborted"}
  MaxLosses,   \* the bound on lost answers and reloads
  MaxSessions, \* the bound on sessions
  MaxAged,     \* the bound on pairs that come near their expiry
  Pages,       \* the pages that call the API: a subset of {"profile", "other"}
  MaxCalls,    \* the bound on requests of pages under way
  NoUser

ASSUME NoUserAssumption == NoUser \notin Users
ASSUME LossAssumption == LossKinds \subseteq {"failed", "aborted"} /\ MaxLosses \in Nat
ASSUME PagesAssumption == Pages \subseteq {"profile", "other"}
ASSUME BrowserOfAssumption == BrowserOf \in [DOMAIN BrowserOf -> Browsers]

Tabs == DOMAIN BrowserOf

VARIABLES
  db,      \* the tables, see AuthTables
  stored,  \* the pair under sv_auth_tokens, per browser
  tab,     \* the state of AuthProvider and LoginPage, per tab
  late,    \* requests nobody waits for any more, which the server may yet run
  aged,    \* pairs whose access token expires within a minute, or has expired
  lost,    \* history: pairs whose refresh ended in an answer nobody handled
  losses   \* history: how many answers were lost and tabs reloaded

vars == <<db, stored, tab, late, aged, lost, losses>>

-----------------------------------------------------------------------------
(* State of a tab.                                                         *)

Idle == [at |-> "none"]
NoBoot == [at |-> "none", user |-> NoUser]

\* The effect that asks for me whenever authTokens change.
Boot == [at : {"none", "asked", "ok", "denied", "failed", "aborted",
               "refreshing", "done", "silent"},
         user : Users \cup {NoUser}]

\* refreshInFlightRef, and who waits for it: a timer, runs of the boot effect
\* (the last one, or earlier ones it aborted).
Refresh == [at : {"none", "pending", "ok", "denied", "failed", "aborted"},
            pair : Nat, got : Nat, timer : BOOLEAN, boot : BOOLEAN]

\* The request of LoginPage.
Login == {Idle} \cup [at : {"pending", "ok", "refused", "failed", "aborted"},
                      user : Users, replace : BOOLEAN, got : Nat]

\* The request of logout().
Logout == {Idle} \cup [at : {"pending", "answered"}, pair : Nat]

\* A request of a page, with the token of the press: one of ProfilePage that is
\* answered with the user of the token, or one of another page.
Call == [page : {"profile", "other"}, pair : Nat]

\* tokens   authTokens in memory
\* me       the user the pages show
\* armed    the refresh timer is set and has not fired
\* warned   the user of LoginPage's warning about an active session
\* calls    requests of pages; they outlive the page and the session
\* mixed    history: since the last check of the session, the answer to a
\*          request of another account's session was shown
Tab == [tokens : Nat, me : Users \cup {NoUser}, boot : Boot, refresh : Refresh,
        armed : BOOLEAN, login : Login, warned : Users \cup {NoUser}, logout : Logout,
        calls : SUBSET Call, mixed : BOOLEAN]

Request == [op : {"refresh", "logout"}, pair : Nat]
             \cup [op : {"login"}, user : Users, replace : BOOLEAN]

TypeOK ==
  /\ db \in Tables(Users)
  /\ stored \in [Browsers -> Nat]
  /\ tab \in [Tabs -> Tab]
  /\ late \subseteq Request
  /\ aged \subseteq DOMAIN db.pairs
  /\ lost \subseteq Nat
  /\ losses \in 0..MaxLosses

\* Mutant: the reference is reset without the record of who waits.
NoWaiter == [at |-> "none", pair |-> NoPair, got |-> NoPair]

NoRefresh == [at |-> "none", pair |-> NoPair, got |-> NoPair,
              timer |-> FALSE, boot |-> FALSE]

\* AuthProvider mounts with the tokens localStorage holds.
Mounted(p) ==
  [tokens |-> p, me |-> NoUser,
   boot |-> IF p = NoPair THEN NoBoot ELSE [at |-> "asked", user |-> NoUser],
   refresh |-> NoRefresh, armed |-> p # NoPair,
   login |-> Idle, warned |-> NoUser, logout |-> Idle,
   calls |-> {}, mixed |-> FALSE]

Init ==
  /\ db = EmptyTables
  /\ stored = [b \in Browsers |-> NoPair]
  /\ tab = [t \in Tabs |-> Mounted(NoPair)]
  /\ late = {} /\ aged = {} /\ lost = {} /\ losses = 0

Authed(x) == x.tokens # NoPair /\ x.me # NoUser

-----------------------------------------------------------------------------
(* What AuthProvider does to its own state and to localStorage.            *)

\* Mutant: a request for me is not aborted when the tokens change.
WithTokensOldBoot(x, p) ==
  [x EXCEPT !.tokens = p, !.armed = TRUE,
            !.boot = IF @.at = "none" THEN [at |-> "asked", user |-> NoUser] ELSE @]

\* New authTokens: the boot effect aborts what it was doing and asks for me
\* again, the timer effect sets a new timer.
WithTokens(x, p) ==
  [x EXCEPT !.tokens = p, !.armed = TRUE, !.boot = [at |-> "asked", user |-> NoUser]]

\* setToken, and writeStoredAuthTokens with setAuthTokensState.
Keep(t, x, p) ==
  /\ tab' = [tab EXCEPT ![t] = WithTokens(x, p)]
  /\ stored' = [stored EXCEPT ![BrowserOf[t]] = p]

\* Mutant: the refreshed tokens are not written to localStorage.
KeepInMemory(t, x, p) ==
  /\ tab' = [tab EXCEPT ![t] = WithTokens(x, p)]
  /\ UNCHANGED stored

KeepRefreshed(t, x, p) == Keep(t, x, p)

\* clearAuth, whatever another tab has stored meanwhile.
ClearAuth(t, x) ==
  /\ tab' = [tab EXCEPT ![t] = [x EXCEPT !.tokens = NoPair, !.me = NoUser,
                                         !.boot = NoBoot, !.armed = FALSE]]
  /\ stored' = [stored EXCEPT ![BrowserOf[t]] = NoPair]

\* Who waits for a refresh.
Timer == "timer"
BootRun == "boot"
Waits(r, who) == [r EXCEPT !.timer = @ \/ who = Timer, !.boot = @ \/ who = BootRun]

\* Mutant: a timer that finds a refresh in flight does not wait for it.
JoinUnlessBusy(x, who) ==
  IF x.refresh.at = "none"
  THEN [x EXCEPT !.refresh = [at |-> "pending", pair |-> x.tokens, got |-> NoPair,
                              timer |-> who = Timer, boot |-> who = BootRun]]
  ELSE x

\* refreshTokens: joins the refresh in flight, whichever token that one is for.
JoinRefresh(x, who) ==
  IF x.refresh.at = "none"
  THEN [x EXCEPT !.refresh = [at |-> "pending", pair |-> x.tokens, got |-> NoPair,
                              timer |-> who = Timer, boot |-> who = BootRun]]
  ELSE [x EXCEPT !.refresh = Waits(x.refresh, who)]

-----------------------------------------------------------------------------
(* The boot effect.                                                        *)

ServerMe(t) ==
  /\ tab[t].boot.at = "asked"
  /\ tab' = [tab EXCEPT ![t].boot =
               IF Verified(db, tab[t].tokens)
               THEN [at |-> "ok", user |-> OwnerOf(db, tab[t].tokens)]
               ELSE [at |-> "denied", user |-> NoUser]]
  /\ UNCHANGED <<db, stored, late, aged, lost, losses>>

\* The user is known; LoginPage navigates away.
BootShowsUser(t) ==
  /\ tab[t].boot.at = "ok"
  /\ tab' = [tab EXCEPT ![t] = [@ EXCEPT !.me = tab[t].boot.user, !.boot.at = "done",
                                         !.warned = NoUser, !.mixed = FALSE]]
  /\ UNCHANGED <<db, stored, late, aged, lost, losses>>

\* 401 with a refresh token at hand.
BootRefreshes(t) ==
  /\ tab[t].boot.at = "denied"
  /\ tab' = [tab EXCEPT ![t] = [JoinRefresh(@, BootRun) EXCEPT !.boot.at = "refreshing"]]
  /\ UNCHANGED <<db, stored, late, aged, lost, losses>>

\* Any other error signs the user out.
BootFails(t) ==
  /\ tab[t].boot.at = "failed"
  /\ ClearAuth(t, tab[t])
  /\ UNCHANGED <<db, late, aged, lost, losses>>

\* An AbortError is taken for the effect's own abort: nothing happens.
BootTimesOut(t) ==
  /\ tab[t].boot.at = "aborted"
  /\ tab' = [tab EXCEPT ![t].boot.at = "silent"]
  /\ UNCHANGED <<db, stored, late, aged, lost, losses>>

-----------------------------------------------------------------------------
(* Refresh.                                                                *)

\* A minute before the access token expires.
TimerFires(t) ==
  /\ tab[t].armed
  /\ tab[t].tokens \in aged
  /\ tab' = [tab EXCEPT ![t] = [JoinRefresh(@, Timer) EXCEPT !.armed = FALSE]]
  /\ UNCHANGED <<db, stored, late, aged, lost, losses>>

ServerRefresh(t) ==
  /\ tab[t].refresh.at = "pending"
  /\ LET p == tab[t].refresh.pair
     IN IF Refreshable(db, p)
        THEN /\ db' = RefreshTables(db, p)
             /\ tab' = [tab EXCEPT ![t].refresh =
                          [@ EXCEPT !.at = "ok", !.got = Len(db'.pairs)]]
        ELSE /\ tab' = [tab EXCEPT ![t].refresh.at = "denied"]
             /\ UNCHANGED db
  /\ UNCHANGED <<stored, late, aged, lost, losses>>

\* Both callers store the tokens.  A boot run that was aborted meanwhile does
\* not: with no timer waiting the new tokens are dropped.
RefreshSucceeds(t) ==
  LET r == tab[t].refresh
      x == [tab[t] EXCEPT !.refresh = NoRefresh]
  IN /\ r.at = "ok"
     /\ IF r.timer \/ x.boot.at = "refreshing"
        THEN KeepRefreshed(t, x, r.got) /\ UNCHANGED lost
        ELSE /\ tab' = [tab EXCEPT ![t] = x]
             /\ lost' = lost \cup {r.pair}
             /\ UNCHANGED stored
     /\ UNCHANGED <<db, late, aged, losses>>

\* The timer clears the session on any error; a boot run does, aborted meanwhile
\* or not, unless the error is an AbortError.
RefreshEndsSession(t) ==
  LET r == tab[t].refresh
      x == [tab[t] EXCEPT !.refresh = NoRefresh]
      clears == r.timer \/ (r.boot /\ r.at # "aborted")
  IN /\ r.at \in {"denied", "failed", "aborted"}
     /\ \/ clears /\ ClearAuth(t, x)
        \/ /\ ~clears
           /\ tab' = [tab EXCEPT ![t] =
                        IF x.boot.at = "refreshing"
                        THEN [x EXCEPT !.boot.at = "silent"] ELSE x]
           /\ UNCHANGED stored
     /\ UNCHANGED <<db, late, aged, lost, losses>>

-----------------------------------------------------------------------------
(* LoginPage.  Registration is the login of a user without a session.      *)

PendingLogins == Cardinality({t \in Tabs : tab[t].login.at = "pending"})
                   + Cardinality({r \in late : r.op = "login"})

SendLogin(t, u, replace) ==
  /\ ~Authed(tab[t])
  /\ tab[t].login = Idle
  /\ Len(db.sessions) + PendingLogins < MaxSessions
  /\ tab' = [tab EXCEPT ![t].login =
               [at |-> "pending", user |-> u, replace |-> replace, got |-> NoPair]]
  /\ UNCHANGED <<db, stored, late, aged, lost, losses>>

\* Typing another name removes the warning.
SubmitLogin(t, u) == tab[t].warned \in {NoUser, u} /\ SendLogin(t, u, FALSE)
ConfirmReplace(t) == tab[t].warned # NoUser /\ SendLogin(t, tab[t].warned, TRUE)

CancelReplace(t) ==
  /\ tab[t].warned # NoUser
  /\ tab[t].login = Idle
  /\ tab' = [tab EXCEPT ![t].warned = NoUser]
  /\ UNCHANGED <<db, stored, late, aged, lost, losses>>

ServerLogin(t) ==
  LET l == tab[t].login
  IN /\ l.at = "pending"
     /\ IF LoginRefused(db, l.user, l.replace)
        THEN tab' = [tab EXCEPT ![t].login.at = "refused"] /\ UNCHANGED db
        ELSE /\ db' = LoginTables(db, l.user)
             /\ tab' = [tab EXCEPT ![t].login =
                          [l EXCEPT !.at = "ok", !.got = Len(db'.pairs)]]
     /\ UNCHANGED <<stored, late, aged, lost, losses>>

\* setToken, also when the boot effect has signed the tab in meanwhile.
LoginSucceeds(t) ==
  /\ tab[t].login.at = "ok"
  /\ Keep(t, [tab[t] EXCEPT !.login = Idle, !.warned = NoUser], tab[t].login.got)
  /\ UNCHANGED <<db, late, aged, lost, losses>>

\* 409 shows the warning if the page is still there; other errors a message.
LoginFails(t) ==
  LET l == tab[t].login
  IN /\ l.at \in {"refused", "failed", "aborted"}
     /\ tab' = [tab EXCEPT ![t].login = Idle,
                           ![t].warned = IF l.at = "refused" /\ ~Authed(tab[t])
                                         THEN l.user ELSE @]
     /\ UNCHANGED <<db, stored, late, aged, lost, losses>>

-----------------------------------------------------------------------------
(* Logout: whatever the API answers, the tab forgets its tokens.           *)

SendLogout(t) ==
  /\ Authed(tab[t])
  /\ tab[t].logout = Idle
  /\ tab' = [tab EXCEPT ![t].logout = [at |-> "pending", pair |-> tab[t].tokens]]
  /\ UNCHANGED <<db, stored, late, aged, lost, losses>>

AfterLogout(p) == IF Verified(db, p) THEN LogoutTables(db, p) ELSE db

ServerLogout(t) ==
  /\ tab[t].logout.at = "pending"
  /\ db' = AfterLogout(tab[t].logout.pair)
  /\ tab' = [tab EXCEPT ![t].logout.at = "answered"]
  /\ UNCHANGED <<stored, late, aged, lost, losses>>

LogoutEnds(t) ==
  /\ tab[t].logout.at = "answered"
  /\ ClearAuth(t, [tab[t] EXCEPT !.logout = Idle])
  /\ UNCHANGED <<db, late, aged, lost, losses>>

-----------------------------------------------------------------------------
(* The requests of pages.  A token that verifies no longer never will      *)
(* again, so the server's step needs no place of its own: a profile that   *)
(* is shown was granted when it was asked for, and a request refused is    *)
(* one that would be refused when the answer is handled.                   *)

SendCall(t, page) ==
  /\ Authed(tab[t])
  /\ page = "profile" => Verified(db, tab[t].tokens)
  /\ Cardinality(UNION {tab[o].calls : o \in Tabs}) < MaxCalls
  /\ tab' = [tab EXCEPT ![t].calls = @ \cup {[page |-> page, pair |-> tab[t].tokens]}]
  /\ UNCHANGED <<db, stored, late, aged, lost, losses>>

\* updateMe, whoever is signed in by now and whether the page is still there.
UpdateMe(x, r) ==
  LET u == OwnerOf(db, r.pair)
  IN [x EXCEPT !.calls = x.calls \ {r}, !.me = u,
               !.mixed = x.mixed \/ (x.tokens # NoPair /\ u # OwnerOf(db, x.tokens))]

\* ProfilePage.
CallShowsUser(t, r) ==
  /\ r \in tab[t].calls
  /\ r.page = "profile"
  /\ tab' = [tab EXCEPT ![t] = UpdateMe(tab[t], r)]
  /\ UNCHANGED <<db, stored, late, aged, lost, losses>>

\* The other pages: 401 is setToken(null), whichever pair the tab has by now.
CallSignsOut(t, r) ==
  /\ r \in tab[t].calls
  /\ r.page = "other" /\ ~Verified(db, r.pair)
  /\ ClearAuth(t, [tab[t] EXCEPT !.calls = @ \ {r}])
  /\ UNCHANGED <<db, late, aged, lost, losses>>

\* Any other answer, or one that is lost or that the page has aborted.
CallEnds(t, r) ==
  /\ r \in tab[t].calls
  /\ tab' = [tab EXCEPT ![t].calls = @ \ {r}]
  /\ UNCHANGED <<db, stored, late, aged, lost, losses>>

-----------------------------------------------------------------------------
(* Time, lost answers, reloads.                                            *)

\* A pair comes near its expiry, then its access token expires; the refresh
\* token outlives it (30 days by default).
Ages(p) ==
  /\ p \in db.access \ aged
  /\ Cardinality(aged) < MaxAged
  /\ aged' = aged \cup {p}
  /\ UNCHANGED <<db, stored, tab, late, lost, losses>>

AccessExpires(p) ==
  /\ p \in db.access \cap aged
  /\ db' = ExpireAccess(db, p)
  /\ UNCHANGED <<stored, tab, late, aged, lost, losses>>

SessionExpires(s) ==
  /\ s \in DOMAIN db.sessions
  /\ Active(db.sessions[s])
  /\ db.sessions[s].refresh \in aged \ db.access
  /\ db' = ExpireSession(db, s)
  /\ UNCHANGED <<stored, tab, late, aged, lost, losses>>

Lose == losses < MaxLosses /\ losses' = losses + 1

\* The requests of a tab the server has not run yet.
Unserved(x) ==
  (IF x.refresh.at = "pending" THEN {[op |-> "refresh", pair |-> x.refresh.pair]} ELSE {})
    \cup (IF x.logout.at = "pending" THEN {[op |-> "logout", pair |-> x.logout.pair]} ELSE {})
    \cup (IF x.login.at = "pending"
          THEN {[op |-> "login", user |-> x.login.user, replace |-> x.login.replace]} ELSE {})

UnservedOf(x, op) == {r \in Unserved(x) : r.op = op}

AnswerLost(t, how) ==
  /\ Lose
  /\ \/ /\ tab[t].boot.at \in {"asked", "ok", "denied"}
        /\ tab' = [tab EXCEPT ![t].boot = [at |-> how, user |-> NoUser]]
        /\ UNCHANGED <<late, lost>>
     \/ /\ tab[t].refresh.at \in {"pending", "ok", "denied"}
        /\ tab' = [tab EXCEPT ![t].refresh = [@ EXCEPT !.at = how, !.got = NoPair]]
        /\ late' = late \cup UnservedOf(tab[t], "refresh")
        /\ lost' = lost \cup {tab[t].refresh.pair}
     \/ /\ tab[t].login.at \in {"pending", "ok", "refused"}
        /\ tab' = [tab EXCEPT ![t].login = [@ EXCEPT !.at = how, !.got = NoPair]]
        /\ late' = late \cup UnservedOf(tab[t], "login")
        /\ UNCHANGED lost
     \/ /\ tab[t].logout.at = "pending"
        /\ tab' = [tab EXCEPT ![t].logout.at = "answered"]
        /\ late' = late \cup UnservedOf(tab[t], "logout")
        /\ UNCHANGED lost
  /\ UNCHANGED <<db, stored, aged>>

\* The page is reloaded: what it was waiting for is forgotten.
Reload(t) ==
  /\ Lose
  /\ tab' = [tab EXCEPT ![t] = Mounted(stored[BrowserOf[t]])]
  /\ late' = late \cup Unserved(tab[t])
  /\ lost' = IF tab[t].refresh.at \in {"pending", "ok"}
             THEN lost \cup {tab[t].refresh.pair} ELSE lost
  /\ UNCHANGED <<db, stored, aged>>

\* A request without a reader reaches the server after all, or never.
ServeLate(r) ==
  /\ r \in late
  /\ late' = late \ {r}
  /\ \/ r.op = "refresh" /\ Refreshable(db, r.pair) /\ db' = RefreshTables(db, r.pair)
     \/ r.op = "logout" /\ db' = AfterLogout(r.pair)
     \/ r.op = "login" /\ ~LoginRefused(db, r.user, r.replace) /\ db' = LoginTables(db, r.user)
     \/ UNCHANGED db
  /\ UNCHANGED <<stored, tab, aged, lost, losses>>

-----------------------------------------------------------------------------
(* The specification.                                                      *)

BootStep(t) == ServerMe(t) \/ BootShowsUser(t) \/ BootRefreshes(t) \/ BootFails(t)
                 \/ BootTimesOut(t)
RefreshStep(t) == ServerRefresh(t) \/ RefreshSucceeds(t) \/ RefreshEndsSession(t)
LoginStep(t) == ServerLogin(t) \/ LoginSucceeds(t) \/ LoginFails(t)
LogoutStep(t) == ServerLogout(t) \/ LogoutEnds(t)

CallStep(t) == \E r \in tab[t].calls :
  CallShowsUser(t, r) \/ CallSignsOut(t, r) \/ CallEnds(t, r)

UserStep(t) == (\E u \in Users : SubmitLogin(t, u)) \/ ConfirmReplace(t)
                 \/ CancelReplace(t) \/ SendLogout(t)
                 \/ (\E page \in Pages : SendCall(t, page))

TimePasses ==
  \/ \E p \in DOMAIN db.pairs : Ages(p) \/ AccessExpires(p)
  \/ \E s \in DOMAIN db.sessions : SessionExpires(s)

Next ==
  \/ \E t \in Tabs : BootStep(t) \/ RefreshStep(t) \/ TimerFires(t) \/ LoginStep(t)
                       \/ LogoutStep(t) \/ CallStep(t) \/ UserStep(t) \/ Reload(t)
                       \/ \E how \in LossKinds : AnswerLost(t, how)
  \/ \E r \in late : ServeLate(r)
  \/ TimePasses

Spec == Init /\ [][Next]_vars

\* Every call is answered or times out (15 s), and a timer that is due fires.
Fairness == \A t \in Tabs :
  WF_vars(BootStep(t)) /\ WF_vars(RefreshStep(t)) /\ WF_vars(TimerFires(t))

FairSpec == Spec /\ Fairness

-----------------------------------------------------------------------------
(* Properties.                                                             *)

\* Whatever logins, refreshes and logouts of one account meet, at most one of
\* its sessions is active (login.go locks the users row).
OneActiveSession == \A u \in Users : Cardinality(ActiveSessions(db, u)) <= 1

\* The API accepts at most one access token of an account, and only the newest
\* one of its session: signing in elsewhere, or refreshing, ends the others.
OnlyNewestPairVerifies ==
  /\ \A p \in DOMAIN db.pairs : Verified(db, p) => Newest(db, p)
  /\ \A p, q \in DOMAIN db.pairs :
       Verified(db, p) /\ Verified(db, q) /\ OwnerOf(db, p) = OwnerOf(db, q) => p = q

\* A refresh token is exchanged at most once, however often tabs and retries
\* present it.
ExchangedOnce ==
  \A p, q \in DOMAIN db.pairs :
    db.pairs[p].from # NoPair /\ db.pairs[p].from = db.pairs[q].from => p = q

\* A tab whose check of the session ended shows the user its token belongs to,
\* also when another account signed in while the check was running.  The code
\* excuses one case: since then ProfilePage was answered a request it had sent
\* in the session of another account, and updateMe showed that one.
SettledTabShowsItsUser ==
  \A t \in Tabs :
    tab[t].boot.at = "done" => tab[t].me = OwnerOf(db, tab[t].tokens) \/ tab[t].mixed

\* The only tab of a browser keeps up with the rotation: the stored pair can
\* still be refreshed unless its session ended, its refresh is under way, or the
\* answer to it was lost.
SoleTabStaysCurrent ==
  \A t \in Tabs :
    LET p == stored[BrowserOf[t]]
    IN (\A o \in Tabs \ {t} : BrowserOf[o] # BrowserOf[t]) /\ p # NoPair =>
         \/ Newest(db, p)
         \/ tab[t].refresh.pair = p /\ tab[t].refresh.at \in {"pending", "ok"}
         \/ p \in lost

\* No tab keeps a pair whose access token runs out: it gets a new one or is
\* signed out, with lost answers and other tabs as well.
AgedPairIsReplaced ==
  \A t \in Tabs : \A p \in 1..(MaxSessions + MaxAged) :
    (tab[t].tokens = p /\ p \in aged) ~> tab[t].tokens # p
=============================================================================
