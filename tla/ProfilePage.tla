------------------------------ MODULE ProfilePage ------------------------------
(***************************************************************************)
(* ProfilePage in several tabs of one user: the contact data, the request  *)
(* for a verification code and its confirmation are sent independently of  *)
(* each other, and each answer that carries the user replaces the one      *)
(* AuthProvider keeps.  An answer may be lost, and its request may be run  *)
(* afterwards.  The code field is abstracted: any code made so far may be  *)
(* typed, and 0 for anything else.                                         *)
(***************************************************************************)
EXTENDS EmailVerification, FiniteSets

CONSTANTS
  Tabs,
  MaxCodes,  \* the bound on codes
  MaxLosses  \* the bound on lost answers

VARIABLES
  page,   \* per tab: me, the user shown; notice, the message beside the code;
          \* stored, the contact data said to be saved (or {})
  api,    \* the account
  calls,  \* tab: per tab and button, the request under way;  late: requests
          \* nobody waits for
  past    \* history: losses; wrong, the codes that did not match since the newest
          \* one was made; saved, the contact data that were stored

vars == <<page, api, calls, past>>

Buttons == {"save", "request", "confirm"}

Idle == [at |-> "none"]

\* A request, a confirmation with the codes there were when it was sent; or what has
\* become of it, and the user an answer carries.
Call == {Idle} \cup [at : {"pending"}, arg : Nat, seen : Nat]
               \cup [at : {"ok", "already", "known", "invalid", "expired", "exceeded",
                           "failed"}, me : Me]

NoOne == [verified |-> FALSE, name |-> 0]

Late == [op : Buttons, arg : Nat]

TypeOK ==
  /\ page \in [Tabs -> [me : Me, notice : {"none", "sent", "verified", "error"},
                        stored : SUBSET Names]]
  /\ api \in Account
  /\ calls \in [tab : [Tabs \X Buttons -> Call], late : SUBSET Late]
  /\ past \in [losses : 0..MaxLosses, wrong : 0..MaxAttempts, saved : SUBSET Names]

Init ==
  /\ api = [me |-> NoOne, codes |-> <<>>]
  /\ page = [t \in Tabs |-> [me |-> api.me, notice |-> "none", stored |-> {}]]
  /\ calls = [tab |-> [b \in Tabs \X Buttons |-> Idle], late |-> {}]
  /\ past = [losses |-> 0, wrong |-> 0, saved |-> {}]

-----------------------------------------------------------------------------
At(t, op, state) == calls.tab[<<t, op>>].at = state

Send(t, op, arg, seen) ==
  /\ calls.tab[<<t, op>>] = Idle
  /\ calls' = [calls EXCEPT !.tab[<<t, op>>] =
       [at |-> "pending", arg |-> arg, seen |-> seen]]

Answer(t, op, state) ==
  calls' = [calls EXCEPT !.tab[<<t, op>>] = [at |-> state, me |-> NoOne]]

AnswerUser(t, op, state) ==
  calls' = [calls EXCEPT !.tab[<<t, op>>] = [at |-> state, me |-> api'.me]]

\* onRequestEmailVerification; the section is there while the address shown is
\* not verified.
PressRequest(t) ==
  /\ ~page[t].me.verified
  /\ Len(api.codes) + Cardinality({o \in Tabs : At(o, "request", "pending")})
       + Cardinality({r \in calls.late : r.op = "request"}) < MaxCodes
  /\ Send(t, "request", 0, 0)
  /\ page' = [page EXCEPT ![t].notice = "none"]
  /\ UNCHANGED <<api, past>>

\* onConfirmEmailVerification
PressConfirm(t, c) ==
  /\ ~page[t].me.verified
  /\ Send(t, "confirm", c, Len(api.codes))
  /\ page' = [page EXCEPT ![t].notice = "none"]
  /\ UNCHANGED <<api, past>>

\* onSaveProfile
PressSave(t, n) ==
  /\ n # page[t].me.name
  /\ Send(t, "save", n, 0)
  /\ page' = [page EXCEPT ![t].stored = {}]
  /\ UNCHANGED <<api, past>>

-----------------------------------------------------------------------------
\* What a request does to the account, and the wrong codes counted apart.
Runs(op, arg) ==
  \/ op = "request" /\ ~api.me.verified
       /\ api' = Requested(api) /\ past' = [past EXCEPT !.wrong = 0]
  \/ op = "request" /\ api.me.verified /\ UNCHANGED <<api, past>>
  \/ /\ op = "confirm"
     /\ api' = Confirmed(api, arg)
     /\ past' = [past EXCEPT !.wrong = IF Unused(api) # {} /\ arg # Len(api.codes)
                                          /\ @ < MaxAttempts THEN @ + 1 ELSE @]
  \/ /\ op = "save"
     /\ api' = Renamed(api, arg) /\ past' = [past EXCEPT !.saved = @ \cup {arg}]

ServerRequest(t) ==
  /\ At(t, "request", "pending")
  /\ Runs("request", 0)
  /\ Answer(t, "request", IF api.me.verified THEN "already" ELSE "ok")
  /\ UNCHANGED page

\* A confirmation that waited for the lock while the code it had read was used up
\* finds none; otherwise it is judged by the newest code.
ServerConfirm(t) ==
  LET call == calls.tab[<<t, "confirm">>]
  IN /\ call.at = "pending"
     /\ \/ /\ Runs("confirm", call.arg)
           /\ IF Verdict(api, call.arg) = "ok" THEN AnswerUser(t, "confirm", "ok")
              ELSE Answer(t, "confirm", Verdict(api, call.arg))
        \/ call.seen < Len(api.codes) /\ UNCHANGED <<api, past>> /\ Answer(t, "confirm", "invalid")
     /\ UNCHANGED page

ServerSave(t) ==
  /\ At(t, "save", "pending")
  /\ Runs("save", calls.tab[<<t, "save">>].arg)
  /\ AnswerUser(t, "save", "ok")
  /\ UNCHANGED page

\* The address is verified already: the handler asks for the user.
ServerMe(t) ==
  /\ At(t, "request", "already")
  /\ UNCHANGED <<api, page, past>>
  /\ AnswerUser(t, "request", "known")

-----------------------------------------------------------------------------
End(t, op) == calls' = [calls EXCEPT !.tab[<<t, op>>] = Idle]

RequestAnswered(t) ==
  LET call == calls.tab[<<t, "request">>]
  IN /\ call.at \in {"ok", "known", "failed"}
     /\ page' = [page EXCEPT
          ![t].notice = CASE call.at = "ok" -> "sent" [] call.at = "known" -> "verified"
                          [] OTHER -> "error",
          ![t].me = IF call.at = "known" THEN call.me ELSE @]
     /\ End(t, "request")
     /\ UNCHANGED <<api, past>>

ConfirmAnswered(t) ==
  LET call == calls.tab[<<t, "confirm">>]
  IN /\ call.at \in {"ok", "invalid", "expired", "exceeded", "failed"}
     /\ page' = [page EXCEPT
          ![t].notice = IF call.at = "ok" THEN "verified" ELSE "error",
          ![t].me = IF call.at = "ok" THEN call.me ELSE @]
     /\ End(t, "confirm")
     /\ UNCHANGED <<api, past>>

\* updateMe takes the whole user over, also an older one than is shown.
SaveAnswered(t) ==
  LET call == calls.tab[<<t, "save">>]
  IN /\ call.at \in {"ok", "failed"}
     /\ page' = [page EXCEPT ![t].stored = IF call.at = "ok" THEN {call.me.name} ELSE {},
                             ![t].me = IF call.at = "ok" THEN call.me ELSE @]
     /\ End(t, "save")
     /\ UNCHANGED <<api, past>>

AnswerLost(t, op) ==
  /\ past.losses < MaxLosses
  /\ past' = [past EXCEPT !.losses = @ + 1]
  /\ calls.tab[<<t, op>>].at \notin {"none", "failed"}
  /\ calls' = [calls EXCEPT !.tab[<<t, op>>] = [at |-> "failed", me |-> NoOne],
       !.late = IF At(t, op, "pending")
                THEN @ \cup {[op |-> op, arg |-> calls.tab[<<t, op>>].arg]} ELSE @]
  /\ UNCHANGED <<page, api>>

ServeLate(r) ==
  /\ r \in calls.late
  /\ Runs(r.op, r.arg)
  /\ calls' = [calls EXCEPT !.late = @ \ {r}]
  /\ UNCHANGED page

\* 15 minutes.
CodeExpires(i) ==
  /\ i \in Unused(api) /\ ~api.codes[i].expired
  /\ api' = [api EXCEPT !.codes[i].expired = TRUE]
  /\ UNCHANGED <<page, calls, past>>

-----------------------------------------------------------------------------
Next ==
  \/ \E t \in Tabs :
       \/ PressRequest(t) \/ ServerRequest(t) \/ ServerMe(t) \/ RequestAnswered(t)
       \/ \E c \in 0..Len(api.codes) : PressConfirm(t, c)
       \/ ServerConfirm(t) \/ ConfirmAnswered(t)
       \/ \E n \in Names : PressSave(t, n)
       \/ ServerSave(t) \/ SaveAnswered(t)
       \/ \E op \in Buttons : AnswerLost(t, op)
  \/ \E r \in calls.late : ServeLate(r)
  \/ \E i \in DOMAIN api.codes : CodeExpires(i)

-----------------------------------------------------------------------------
\* The confirmations the API may be running.
Confirming == {calls.tab[<<t, "confirm">>].arg : t \in {o \in Tabs : At(o, "confirm", "pending")}}
                \cup {r.arg : r \in {s \in calls.late : s.op = "confirm"}}

\* An address becomes verified only by the newest code, before it expires and
\* before MaxAttempts codes that do not match, whatever codes other tabs and late
\* requests ask for and try.
VerifyStep ==
  ~api.me.verified /\ api'.me.verified =>
    /\ Len(api.codes) \in Confirming
    /\ ~api.codes[Len(api.codes)].expired
    /\ past.wrong < MaxAttempts

\* What a tab reports as done was done.
NoticesAreTrue ==
  \A t \in Tabs : /\ page[t].notice = "verified" => api.me.verified
                  /\ page[t].stored \subseteq past.saved
=============================================================================
