------------------------------ MODULE InviteDesk ------------------------------
(***************************************************************************)
(* Invitations to an election: AdminElectionPage creates them one by one,  *)
(* from a pasted list or from a file, in several tabs of the organizer,    *)
(* and ElectionsPage accepts them in several tabs of the invited voter.    *)
(*                                                                         *)
(* The pasted list is worked off by the page, a request per email; a file  *)
(* by the API, a transaction per email.  Two texts may name one email, as  *)
(* EmailOf says.  An answer may be lost before or after the API acted.     *)
(***************************************************************************)
EXTENDS Naturals, Sequences, PickedLists

CONSTANTS
  Desks,       \* the organizer's tabs
  Tabs,        \* the tabs of voters
  Texts,       \* what may stand in a list
  Emails,
  EmailOf,     \* a text's email, in lower case
  Valid,       \* texts that look like an email
  Blank,       \* texts of nothing but spaces
  Registered,  \* emails of users
  Lists,       \* the lists pasted or uploaded
  MaxOrders,   \* the bound on what organizers and voters ask for
  MaxEvents    \* the bound on lost and refused requests

VARIABLES
  api,    \* election_invites: the status by email, "none" without a row
  page,   \* the state of the pages
  past    \* history: orders, events, and accepted, the tabs told of success by email

vars == <<api, page, past>>

NoCall == [at |-> "none", what |-> "none", todo |-> <<>>, answer |-> "none"]

\* What became of the texts of a list, and of how many; history: how many blank ones
\* were passed over.
NoLists == [total |-> 0, created |-> <<>>, registration |-> <<>>, skipped |-> <<>>,
            failed |-> <<>>, blank |-> 0]

\* busy      inviteLoading;  gone: signed out
\* todo      texts of the pasted list still to be sent;  lists: the outcome so far
\* call      the request under way;  summary: bulkSummary
\* code      the email whose code is shown (lastInviteCode)
Desk == [busy |-> FALSE, gone |-> FALSE, todo |-> <<>>, lists |-> NoLists,
         call |-> NoCall, summary |-> NoLists, code |-> "none"]

Voter == [busy |-> FALSE, gone |-> FALSE, email |-> "none", answer |-> "none",
          told |-> "none"]

Init ==
  /\ api = [e \in Emails |-> "none"]
  /\ page = [t \in Desks \cup Tabs |-> IF t \in Desks THEN Desk ELSE Voter]
  /\ past = [orders |-> 0, events |-> 0, accepted |-> [e \in Emails |-> {}]]

Order == past.orders < MaxOrders /\ past' = [past EXCEPT !.orders = @ + 1]
Event == past.events < MaxEvents /\ past' = [past EXCEPT !.events = @ + 1]

-----------------------------------------------------------------------------
(* The API.                                                                *)

\* Mutant: the organizer's second invitation replaces the first.
CreateOverwrites(e) ==
  IF e \in Registered THEN "created" ELSE "registration_required"

\* CreateInvite: the election's row is locked, and (election_id, email) is unique.
CreateCode(e) ==
  IF e \notin Registered THEN "registration_required"
  ELSE IF api[e] # "none" THEN "email_already_invited" ELSE "created"

Created(e) == IF CreateCode(e) = "created" THEN [api EXCEPT ![e] = "created"] ELSE api

\* Mutant: the status is not looked at again by the update.
AcceptTwice(e) == IF api[e] = "none" THEN "invalid_invite_code" ELSE "accepted"

\* AcceptInvite, with a code that was written for this voter.
AcceptCode(e) == CASE api[e] = "none" -> "invalid_invite_code"
                   [] api[e] = "created" -> "accepted"
                   [] api[e] = "accepted" -> "invite_code_inactive"

\* The list a code of CreateInvite leads to.
ListOf(code) == CASE code = "created" -> "created"
                  [] code = "registration_required" -> "registration"
                  [] code = "email_already_invited" -> "skipped"
                  [] code \in {"invalid_email", "failed"} -> "failed"

\* Mutant: an email invited before is not mentioned.
FiledUnlessInvited(lists, code, text) ==
  IF code = "email_already_invited" THEN lists
  ELSE [lists EXCEPT ![ListOf(code)] = Append(@, text)]

Filed(lists, code, text) == [lists EXCEPT ![ListOf(code)] = Append(@, text)]

\* ImportInvites looks at one text: repeated, refused or handed to CreateInvite.
ImportCode(done, text) ==
  IF \E i \in DOMAIN done : EmailOf[done[i]] = EmailOf[text] THEN "email_already_invited"
  ELSE IF text \notin Valid THEN "invalid_email" ELSE CreateCode(EmailOf[text])

-----------------------------------------------------------------------------
(* The organizer.                                                          *)

Usable(d) == ~page[d].busy /\ ~page[d].gone

Sent(what, todo) == [NoCall EXCEPT !.at = "sent", !.what = what, !.todo = todo]

\* handleCreateSingleInvite; a text that is no email is refused at once.
Invite(d) ==
  /\ Usable(d) /\ Order
  /\ \E t \in Texts \cap Valid :
       page' = [page EXCEPT ![d] = [Desk EXCEPT !.busy = TRUE,
                                      !.call = Sent("single", <<t>>)]]
  /\ UNCHANGED api

\* uniqueEmails of parseEmailsFromText: the first text of each email, none of them blank.
UniqueEmails(list) ==
  Picked(list, {i \in DOMAIN list :
                  /\ list[i] \notin Blank
                  /\ \A j \in 1..(i - 1) : EmailOf[list[j]] # EmailOf[list[i]]})

\* handleCreateBulkInvites; invalid texts are skipped from the start.
InviteMany(d) ==
  /\ Usable(d) /\ Order
  /\ \E list \in Lists :
       LET unique == UniqueEmails(list)
           valid == {i \in DOMAIN unique : unique[i] \in Valid}
           invalid == DOMAIN unique \ valid
       IN /\ unique # <<>>
          /\ page' = [page EXCEPT ![d] =
               [Desk EXCEPT !.busy = TRUE, !.todo = Picked(unique, valid),
                            !.summary = page[d].summary,
                            !.lists = [NoLists EXCEPT !.total = Len(unique),
                                                      !.skipped = Picked(unique, invalid)]]]
  /\ UNCHANGED api

\* The body of the loop.
SendNext(d) ==
  /\ page[d].todo # <<>> /\ page[d].call = NoCall
  /\ page' = [page EXCEPT ![d].call = Sent("bulk", <<Head(page[d].todo)>>)]
  /\ UNCHANGED <<api, past>>

\* handleImportInvitesFileChange
Import(d) ==
  /\ Usable(d) /\ Order
  /\ \E list \in Lists :
       page' = [page EXCEPT ![d] =
         [Desk EXCEPT !.busy = TRUE, !.call = Sent("import", list),
                      !.lists = [NoLists EXCEPT !.total = Len(list)],
                      !.summary = page[d].summary]]
  /\ UNCHANGED api

ServerCreates(d) ==
  /\ page[d].call.at = "sent" /\ page[d].call.what \in {"single", "bulk"}
  /\ LET e == EmailOf[Head(page[d].call.todo)]
     IN /\ api' = Created(e)
        /\ page' = [page EXCEPT ![d].call.at = "done", ![d].call.answer = CreateCode(e)]
  /\ UNCHANGED past

\* A blank entry of a file, which a JSON list may hold: it is counted in the total and
\* passed over.
ServerPassesOver(d) ==
  /\ page[d].call.at = "sent" /\ page[d].call.what = "import"
  /\ page[d].call.todo # <<>> /\ Head(page[d].call.todo) \in Blank
  /\ page' = [page EXCEPT ![d].lists.blank = @ + 1, ![d].call.todo = Tail(@)]
  /\ UNCHANGED <<api, past>>

\* One email of a file; the lists are the answer, which the page has at the end.
ServerImports(d) ==
  /\ page[d].call.at = "sent" /\ page[d].call.what = "import"
  /\ page[d].call.todo # <<>> /\ Head(page[d].call.todo) \notin Blank
  /\ LET text == Head(page[d].call.todo)
         lists == page[d].lists
         code == ImportCode(lists.created \o lists.registration \o lists.skipped
                              \o lists.failed, text)
     IN /\ api' = IF code = "created" THEN Created(EmailOf[text]) ELSE api
        /\ page' = [page EXCEPT ![d].lists = Filed(@, code, text),
                                ![d].call.todo = Tail(@)]
  /\ UNCHANGED past

\* The answer to a single invitation: the code is shown, this once.
SingleEnds(d) ==
  /\ page[d].call.at = "done" /\ page[d].call.what = "single"
  /\ page' = [page EXCEPT ![d] =
       [Desk EXCEPT !.code = IF page[d].call.answer = "created"
                             THEN EmailOf[Head(page[d].call.todo)] ELSE "none"]]
  /\ UNCHANGED <<api, past>>

\* The answer to one of many is filed and the next one sent.
BulkGoesOn(d) ==
  /\ page[d].call.at = "done" /\ page[d].call.what = "bulk"
  /\ page' = [page EXCEPT
       ![d].lists = Filed(@, page[d].call.answer, Head(page[d].todo)),
       ![d].todo = Tail(@), ![d].call = NoCall]
  /\ UNCHANGED <<api, past>>

\* The summary, once a pasted list or a file is worked off.
Summarise(d) ==
  /\ page[d].busy /\ page[d].todo = <<>>
  /\ \/ page[d].call = NoCall
     \/ page[d].call.what = "import" /\ page[d].call.todo = <<>>
  /\ page' = [page EXCEPT ![d] = [Desk EXCEPT !.summary = page[d].lists]]
  /\ UNCHANGED <<api, past>>

-----------------------------------------------------------------------------
(* The voter.                                                              *)

\* acceptInvite, with a code the organizer was shown and passed on.
Accept(t) ==
  /\ Usable(t) /\ Order
  /\ \E d \in Desks : page[d].code # "none"
       /\ page' = [page EXCEPT ![t].busy = TRUE, ![t].email = page[d].code,
                               ![t].answer = "sent", ![t].told = "none"]
  /\ UNCHANGED api

ServerAccepts(t) ==
  /\ page[t].answer = "sent"
  /\ LET e == page[t].email
         code == AcceptCode(e)
     IN /\ api' = IF code = "accepted" THEN [api EXCEPT ![e] = "accepted"] ELSE api
        /\ page' = [page EXCEPT ![t].answer = code]
        /\ past' = IF code = "accepted" THEN [past EXCEPT !.accepted[e] = @ \cup {t}]
                   ELSE past

AcceptEnds(t) ==
  /\ page[t].answer \notin {"none", "sent"}
  /\ page' = [page EXCEPT ![t].busy = FALSE, ![t].answer = "none",
                          ![t].told = page[t].answer]
  /\ UNCHANGED <<api, past>>

-----------------------------------------------------------------------------
\* A lost answer counts as a failure of its email, or of a whole file, at which
\* the API stops when its connection breaks.
DeskLoses(d) ==
  /\ Event
  /\ page[d].call.at \in {"sent", "done"}
  /\ page' = [page EXCEPT ![d] =
       IF page[d].call.what = "bulk"
       THEN [@ EXCEPT !.call.at = "done", !.call.answer = "failed"]
       ELSE [Desk EXCEPT !.summary = page[d].summary]]
  /\ UNCHANGED api

\* A 401 ends a list where it stands, without a summary.
DeskDenied(d) ==
  /\ Event
  /\ page[d].call.at = "sent"
  /\ page' = [page EXCEPT ![d] = [Desk EXCEPT !.gone = TRUE]]
  /\ UNCHANGED api

VoterLoses(t) ==
  /\ Event
  /\ page[t].answer \in {"sent", "accepted"}
  /\ page' = [page EXCEPT ![t].answer = "failed"]
  /\ UNCHANGED api

DeskRuns(d) ==
  SendNext(d) \/ ServerCreates(d) \/ ServerPassesOver(d) \/ ServerImports(d)
    \/ SingleEnds(d) \/ BulkGoesOn(d) \/ Summarise(d)

Next ==
  \/ \E d \in Desks : Invite(d) \/ InviteMany(d) \/ Import(d) \/ DeskRuns(d)
       \/ DeskLoses(d) \/ DeskDenied(d)
  \/ \E t \in Tabs : Accept(t) \/ ServerAccepts(t) \/ AcceptEnds(t) \/ VoterLoses(t)

-----------------------------------------------------------------------------
(* Properties.                                                             *)

Codes == {"none", "registration_required", "email_already_invited", "created", "failed"}

TypeOK ==
  /\ api \in [Emails -> {"none", "created", "accepted"}]
  /\ \A d \in Desks : /\ page[d].call.answer \in Codes
                      /\ page[d].code \in Emails \cup {"none"}
                      /\ page[d].todo \in Seq(Texts)
  /\ \A t \in Tabs : page[t].email \in Emails \cup {"none"}

\* A summary accounts for every entry it counts that is not blank: as many are listed as
\* created, unregistered, skipped and failed as there were.
SummaryIsComplete ==
  \A d \in Desks :
    LET s == page[d].summary
    IN s.total - s.blank =
         Len(s.created) + Len(s.registration) + Len(s.skipped) + Len(s.failed)

\* An invitation reported as created is on record, and no two tabs report the
\* same one, however their requests interleave.
CreatedIsOnRecord ==
  /\ \A d \in Desks :
       /\ page[d].code # "none" => api[page[d].code] # "none"
       /\ \A i \in DOMAIN page[d].summary.created :
            api[EmailOf[page[d].summary.created[i]]] # "none"
  /\ \A c, d \in Desks : c # d /\ page[c].code # "none" =>
       \A i \in DOMAIN page[d].summary.created :
         EmailOf[page[d].summary.created[i]] # page[c].code

\* An invitation is accepted once, whichever tab is told of it.
AcceptedOnce == \A e \in Emails : \A t, u \in past.accepted[e] : t = u
=============================================================================
