--------------------------- MODULE ConsolePagesProofs ---------------------------
(***************************************************************************)
(* Theorems about the pages of organizers and administrators, for any      *)
(* pages, lists, catalogues and bounds.                                    *)
(*                                                                         *)
(* ElectionScreens: a page shows no status the election has not reached,   *)
(* and a load under way has read none that is behind the one shown.        *)
(*                                                                         *)
(* InviteDesk: what is sorted and what is still to be done make up the     *)
(* list, and no two pages claim to have invited the same email.            *)
(*                                                                         *)
(* ElectionRulesForm: the rules on record go together, and a form that was *)
(* loaded since they were written and not touched says what they say.      *)
(*                                                                         *)
(* ElectionDraft: each render after an event brings the draft one step     *)
(* closer to its rule, and the election reported or acted on is there.     *)
(***************************************************************************)
EXTENDS RunsPageProofs

CONSTANTS
  Cards, Panels, Others, MaxPresses,  \* see ElectionScreens
  Desks, Tabs, Texts, Emails, EmailOf, Valid, Blank, Registered, Lists, MaxOrders, DeskEvents,
                              \* see InviteDesk
  FormTabs, Offers, FirstRules, Count, FormNumbers, FormScales, EndsAt, Times, MaxEdits,
  MaxSaves, FormEvents,       \* see ElectionRulesForm
  DraftCatalogues, DraftsLeft, DraftNames, DraftImports, DraftNumbers, DraftScales,
  DraftPeriods, DraftEvents   \* see ElectionDraft

Screens == INSTANCE ElectionScreens
Desk == INSTANCE InviteDesk WITH MaxEvents <- DeskEvents
Form == INSTANCE ElectionRulesForm WITH Tabs <- FormTabs, Catalogue <- Offers,
                                        Numbers <- FormNumbers, Scales <- FormScales,
                                        MaxEvents <- FormEvents
Draft == INSTANCE ElectionDraft WITH Catalogues <- DraftCatalogues, Restored <- DraftsLeft,
                                     Names <- DraftNames, Imports <- DraftImports,
                                     Numbers <- DraftNumbers, Scales <- DraftScales,
                                     Periods <- DraftPeriods, MaxEvents <- DraftEvents

-----------------------------------------------------------------------------
(* ElectionScreens.                                                        *)

Statuses == Screens!ElectionStatus \cup {"none"}
Deeds == SUBSET Screens!Actions
Asked == Screens!Actions \cup {"none"}
CallStages == {"none", "sent", "taken", "failed", "loading"} \cup Screens!Refusals
OfElection == [status : Screens!ElectionStatus, fit : BOOLEAN]

\* What a load may have read; one load at most is under way.
Reads == {<<>>} \cup {<<x>> : x \in Screens!ElectionStatus \cup {"asked"}}

ActionCall == [at : CallStages, action : Asked, shown : Statuses, stale : Flag]
Item == [shown : Statuses, runs : Reads, loading : Flag, busy : Flag,
         call : ActionCall, told : Deeds, err : Flag]

\* An action the card sends is one of the status shown; what is told, and what the API
\* has answered, is done; the status shown is not ahead of the one read, nor that of
\* the election's.
ItemOK(s, p, done, status) ==
  /\ p \in Item
  /\ p.told \subseteq done
  /\ p.call.at \in {"taken", "loading"} => p.call.action \in done
  /\ p.call.at # "none" => p.call.action \in Screens!Actions
  /\ s \in Cards /\ p.call.at = "sent" =>
       p.call.action \in Screens!CardOffers(p.call.shown)
  /\ s \in Cards /\ p.call.at \in {"invalid_transition", "no_results"} => p.call.stale
  /\ Screens!Rank[p.shown] <= Screens!Rank[status]
  /\ \A i \in DOMAIN p.runs : p.runs[i] # "asked" =>
       /\ Screens!Rank[p.shown] <= Screens!Rank[p.runs[i]]
       /\ Screens!Rank[p.runs[i]] <= Screens!Rank[status]

ScreensInv ==
  /\ api \in OfElection
  /\ page \in [Screens!Screens -> Item]
  /\ past \in [presses : Nat, done : [Screens!Screens -> Deeds]]
  /\ \A s \in Screens!Screens : ItemOK(s, page[s], past.done[s], api.status)

LEMMA Ranks ==
  /\ \A x \in Statuses : Screens!Rank[x] \in Nat
  /\ Screens!Rank["none"] = 0
  /\ \A x \in Statuses, a \in Screens!Actions :
       x \in Screens!ActionFrom[a] =>
         Screens!ActionTo[a] \in Screens!ElectionStatus
         /\ Screens!Rank[x] <= Screens!Rank[Screens!ActionTo[a]]
  /\ Screens!Rank["active"] <= Screens!Rank["closed"]
  /\ Screens!Rank["paused"] <= Screens!Rank["closed"]
  /\ Screens!Rank["closed"] <= Screens!Rank["results_ready"]
  /\ Screens!Rank["results_ready"] <= Screens!Rank["published"]
BY DEF Screens!Rank, Statuses, Screens!ElectionStatus, Screens!Actions,
       Screens!ActionFrom, Screens!ActionTo

\* The card's buttons are those of the API's rules.
LEMMA CardsOfferRightly ==
  ASSUME NEW x \in Statuses, NEW a \in Screens!CardOffers(x)
  PROVE  /\ a \in Screens!Actions /\ x \in Screens!ActionFrom[a]
         /\ a = "publish" => x = "results_ready"
BY DEF Statuses, Screens!ElectionStatus, Screens!CardOffers, Screens!Actions,
       Screens!ActionFrom

\* An item stays right when the API does more and the election moves on.
LEMMA ItemKept ==
  ASSUME NEW s, NEW p, NEW d, NEW e, NEW x \in Statuses, NEW y \in Statuses,
         ItemOK(s, p, d, x), d \subseteq e, Screens!Rank[x] <= Screens!Rank[y]
  PROVE  ItemOK(s, p, e, y)
<1>1. Screens!Rank[p.shown] \in Nat /\ Screens!Rank[x] \in Nat /\ Screens!Rank[y] \in Nat
  BY Ranks DEF ItemOK, Item
<1>2. \A i \in DOMAIN p.runs : p.runs[i] # "asked" => p.runs[i] \in Statuses
  <2>1. p.runs \in Reads BY DEF ItemOK, Item
  <2> QED BY <2>1 DEF Reads, Statuses
<1>3. \A i \in DOMAIN p.runs : p.runs[i] # "asked" => Screens!Rank[p.runs[i]] \in Nat
  BY <1>2, Ranks
<1> QED BY <1>1, <1>3 DEF ItemOK

\* A step that changes one page, what was done for it, and the status.
LEMMA ScreenStep ==
  ASSUME ScreensInv, NEW s \in Screens!Screens, NEW p, NEW d \in Deeds,
         page' = [page EXCEPT ![s] = p],
         past' \in [presses : Nat, done : [Screens!Screens -> Deeds]],
         past'.done = [past.done EXCEPT ![s] = d], past.done[s] \subseteq d,
         api' \in OfElection, Screens!Rank[api.status] <= Screens!Rank[api'.status],
         ItemOK(s, p, d, api'.status)
  PROVE  ScreensInv'
<1>1. page \in [Screens!Screens -> Item] /\ past.done \in [Screens!Screens -> Deeds]
      /\ api.status \in Statuses /\ api'.status \in Statuses
  BY DEF ScreensInv, Statuses, OfElection
<1>2. p \in Item BY DEF ItemOK
<1>3. page' \in [Screens!Screens -> Item] BY <1>1, <1>2
<1>4. ASSUME NEW o \in Screens!Screens PROVE ItemOK(o, page'[o], past'.done[o], api'.status)
  <2>1. CASE o = s
    <3>1. page'[o] = p /\ past'.done[o] = d BY <1>1, <2>1
    <3> QED BY <2>1, <3>1
  <2>2. CASE o # s
    <3>1. page'[o] = page[o] /\ past'.done[o] = past.done[o] BY <1>1, <2>2
    <3>2. ItemOK(o, page[o], past.done[o], api.status) BY DEF ScreensInv
    <3>3. ItemOK(o, page[o], past.done[o], api'.status) BY <1>1, <3>2, ItemKept
    <3> QED BY <3>1, <3>3
  <2> QED BY <2>1, <2>2
<1> QED BY <1>3, <1>4 DEF ScreensInv

LEMMA ScreenFields ==
  ASSUME ScreensInv, NEW s \in Screens!Screens
  PROVE  /\ page \in [Screens!Screens -> Item] /\ page[s] \in Item
         /\ page[s].shown \in Statuses /\ page[s].runs \in Reads
         /\ page[s].call \in ActionCall /\ page[s].told \in Deeds
         /\ page[s].loading \in Flag /\ page[s].busy \in Flag /\ page[s].err \in Flag
         /\ past \in [presses : Nat, done : [Screens!Screens -> Deeds]]
         /\ past.done[s] \in Deeds /\ past.done = [past.done EXCEPT ![s] = past.done[s]]
         /\ api \in OfElection /\ api.status \in Screens!ElectionStatus
         /\ api.status \in Statuses
         /\ ItemOK(s, page[s], past.done[s], api.status)
         /\ Screens!Rank[api.status] <= Screens!Rank[api.status]
BY Ranks DEF ScreensInv, Item, Statuses, OfElection

\* A press or a loss counted changes nothing else of the history.
LEMMA PressCounted ==
  ASSUME ScreensInv, NEW s \in Screens!Screens, past' = past \/ Screens!CountPress
  PROVE  /\ past' \in [presses : Nat, done : [Screens!Screens -> Deeds]]
         /\ past'.done = [past.done EXCEPT ![s] = past.done[s]]
BY ScreenFields DEF Screens!CountPress

\* A call that is sent.
LEMMA CallSent ==
  /\ Screens!NoCall \in ActionCall /\ Screens!NoCall.at = "none"
  /\ \A a \in Screens!Actions : a \in Asked
  /\ CallStages = {"none", "sent", "taken", "failed", "loading"} \cup Screens!Refusals
BY Flags DEF Screens!NoCall, ActionCall, CallStages, Asked, Statuses

\* A load that begins has read nothing.
LEMMA ReloadingFields ==
  ASSUME NEW p \in Item
  PROVE  /\ Screens!Reloading(p) \in Item
         /\ Screens!Reloading(p).shown = p.shown /\ Screens!Reloading(p).told = p.told
         /\ Screens!Reloading(p).call = p.call
         /\ Screens!Reloading(p).runs = <<"asked">>
<1>1. <<"asked">> \in Reads /\ (p.runs = <<>>) \in Flag /\ FALSE \in Flag
  BY Flags DEF Reads
<1> DEFINE q == Screens!Reloading(p)
           r == <<"asked">>
           l == p.runs = <<>>
           e == FALSE
<1>2. q = [p EXCEPT !.runs = r, !.loading = l, !.err = e] BY DEF Screens!Reloading
<1>3. r \in Reads /\ l \in Flag /\ e \in Flag BY <1>1
<1> HIDE DEF q, r, l, e
<1>4. q \in Item /\ q.shown = p.shown /\ q.runs = r /\ q.told = p.told /\ q.call = p.call
  BY <1>2, <1>3 DEF Item
<1> QED BY <1>4 DEF q, r

LEMMA PressKeepsScreens ==
  ASSUME ScreensInv, NEW s \in Screens!Screens, NEW a \in Screens!Actions,
         Screens!Press(s, a)
  PROVE  ScreensInv'
<1> DEFINE p == page[s]
           e == IF s \in Panels THEN FALSE ELSE p.err
           t == IF s \in Cards THEN {} ELSE p.told
           c == [Screens!NoCall EXCEPT !.at = "sent", !.action = a, !.shown = p.shown]
           q == [p EXCEPT !.busy = TRUE, !.err = e, !.told = t, !.call = c]
<1>1. /\ p \in Item /\ p.shown \in Statuses /\ p.told \in Deeds /\ p.err \in Flag
      /\ page \in [Screens!Screens -> Item] /\ past.done[s] \in Deeds
      /\ ItemOK(s, p, past.done[s], api.status) /\ api \in OfElection
      /\ api.status \in Screens!ElectionStatus
      /\ Screens!Rank[api.status] <= Screens!Rank[api.status]
  BY ScreenFields
<1>2. a \in Screens!Offers(s) /\ page' = [page EXCEPT ![s] = q] /\ api' = api
      /\ Screens!CountPress
  BY <1>1 DEF Screens!Press
<1>3. past' \in [presses : Nat, done : [Screens!Screens -> Deeds]]
      /\ past'.done = [past.done EXCEPT ![s] = past.done[s]]
  BY <1>2, PressCounted
<1>4. c \in ActionCall /\ c.at = "sent" /\ c.action = a /\ c.shown = p.shown
  <2> DEFINE v == p.shown
             k == Screens!NoCall
             n == "sent"
  <2>1. k \in ActionCall /\ v \in Statuses /\ a \in Asked /\ n \in CallStages
        /\ c = [k EXCEPT !.at = n, !.action = a, !.shown = v]
    BY <1>1, CallSent
  <2> HIDE DEF k, v, n
  <2>2. c \in ActionCall /\ c.at = n /\ c.action = a /\ c.shown = v
    <3> HIDE DEF c
    <3> QED BY <2>1 DEF ActionCall
  <2> QED BY <2>2 DEF n, v
<1>6. e \in Flag /\ t \in Deeds /\ t \subseteq p.told /\ TRUE \in Flag
  BY <1>1, Flags DEF Deeds
<1>7. s \in Cards => a \in Screens!CardOffers(p.shown) BY <1>2 DEF Screens!Offers
<1> DEFINE b == TRUE
<1>8. q = [p EXCEPT !.busy = b, !.err = e, !.told = t, !.call = c] OBVIOUS
<1> HIDE DEF c, e, t, q, b
<1>9. q \in Item /\ q.shown = p.shown /\ q.runs = p.runs /\ q.told = t /\ q.call = c
  <2>1. b \in Flag BY <1>6 DEF b
  <2> HIDE DEF p
  <2> QED BY <2>1, <1>1, <1>4, <1>6, <1>8 DEF Item
<1> HIDE DEF q, p
<1>10. ItemOK(s, q, past.done[s], api.status) BY <1>1, <1>4, <1>6, <1>7, <1>9 DEF ItemOK
<1> QED BY <1>1, <1>2, <1>3, <1>10, ScreenStep

LEMMA RefreshKeepsScreens ==
  ASSUME ScreensInv, NEW s \in Screens!Screens, Screens!Refresh(s) PROVE ScreensInv'
<1> DEFINE p == page[s]
           q == Screens!Reloading(p)
<1>1. /\ p \in Item /\ page \in [Screens!Screens -> Item] /\ past.done[s] \in Deeds
      /\ ItemOK(s, p, past.done[s], api.status) /\ api \in OfElection
      /\ api.status \in Screens!ElectionStatus
      /\ Screens!Rank[api.status] <= Screens!Rank[api.status]
  BY ScreenFields
<1>2. page' = [page EXCEPT ![s] = q] /\ api' = api /\ Screens!CountPress
  BY <1>1 DEF Screens!Refresh
<1>3. past' \in [presses : Nat, done : [Screens!Screens -> Deeds]]
      /\ past'.done = [past.done EXCEPT ![s] = past.done[s]]
  BY <1>2, PressCounted
<1>4. q \in Item /\ q.shown = p.shown /\ q.told = p.told /\ q.call = p.call
      /\ q.runs = <<"asked">>
  BY <1>1, ReloadingFields
<1> HIDE DEF q, p
<1>5. ItemOK(s, q, past.done[s], api.status) BY <1>1, <1>4 DEF ItemOK
<1> QED BY <1>1, <1>2, <1>3, <1>5, ScreenStep

\* The API carries an action out, or refuses it.
LEMMA ServerActsKeeps ==
  ASSUME ScreensInv, NEW s \in Screens!Screens, Screens!ServerActs(s) PROVE ScreensInv'
<1> DEFINE p == page[s]
           a == p.call.action
           at == Screens!Answer(s, a)
           taken == at = "taken"
           w == p.call.shown # api.status
           c == [p.call EXCEPT !.at = at, !.stale = w]
           q == [p EXCEPT !.call = c]
           d == IF taken THEN past.done[s] \cup {a} ELSE past.done[s]
<1>1. /\ p \in Item /\ page \in [Screens!Screens -> Item] /\ past.done[s] \in Deeds
      /\ past \in [presses : Nat, done : [Screens!Screens -> Deeds]]
      /\ p.call \in ActionCall /\ p.call.shown \in Statuses /\ p.told \in Deeds
      /\ ItemOK(s, p, past.done[s], api.status) /\ api \in OfElection
      /\ api.status \in Screens!ElectionStatus
      /\ api.status \in Statuses
  BY ScreenFields DEF ActionCall
<1>2. p.call.at = "sent" /\ a \in Screens!Actions BY <1>1 DEF Screens!ServerActs, ItemOK
<1>3. /\ page' = [page EXCEPT ![s].call.at = at, ![s].call.stale = w]
      /\ api' = IF taken THEN [api EXCEPT !.status = Screens!ActionTo[a]] ELSE api
      /\ past' = IF taken THEN [past EXCEPT !.done[s] = @ \cup {a}] ELSE past
  BY DEF Screens!ServerActs
<1>4. page' = [page EXCEPT ![s] = q] BY <1>1, <1>3
<1>5. d \in Deeds /\ past.done[s] \subseteq d BY <1>1, <1>2 DEF Deeds
<1>6. /\ past' \in [presses : Nat, done : [Screens!Screens -> Deeds]]
      /\ past'.done = [past.done EXCEPT ![s] = d]
  <2>1. CASE taken BY <2>1, <1>1, <1>3, <1>5
  <2>2. CASE ~taken BY <2>2, <1>1, <1>3, <1>5
  <2> QED BY <2>1, <2>2
<1>18. /\ at \in Screens!Refusals \cup {"taken"}
       /\ taken => api.status \in Screens!ActionFrom[a]
       /\ at = "invalid_transition" => api.status \notin Screens!ActionFrom[a]
       /\ at = "no_results" => a = "publish" /\ api.status = "closed"
  BY DEF Screens!Answer, Screens!Refusals
<1>7. api' \in OfElection /\ Screens!Rank[api.status] <= Screens!Rank[api'.status]
  <2>1. CASE taken BY <2>1, <1>1, <1>2, <1>3, <1>18, Ranks DEF OfElection
  <2>2. CASE ~taken BY <2>2, <1>1, <1>3, Ranks
  <2> QED BY <2>1, <2>2
<1>8. w \in Flag /\ at \in CallStages
  <2> HIDE DEF at
  <2> QED BY <1>18, Flags DEF CallStages
<1>9. c \in ActionCall /\ c.at = at /\ c.action = a /\ c.stale = w
  <2> DEFINE k == p.call
  <2>1. k \in ActionCall /\ c = [k EXCEPT !.at = at, !.stale = w] /\ a = k.action BY <1>1
  <2> HIDE DEF at, w, k, a, c
  <2> QED BY <2>1, <1>8 DEF ActionCall
<1>17. q = [p EXCEPT !.call = c] OBVIOUS
<1> HIDE DEF c, q
<1>10. q \in Item /\ q.shown = p.shown /\ q.runs = p.runs /\ q.told = p.told /\ q.call = c
  <2> HIDE DEF p, at, w, d, taken, a
  <2> QED BY <1>1, <1>9, <1>17 DEF Item
<1>11. s \in Cards /\ at \in {"invalid_transition", "no_results"} => w
  <2> SUFFICES ASSUME s \in Cards, p.call.shown = api.status,
                      at \in {"invalid_transition", "no_results"}
               PROVE FALSE
    OBVIOUS
  <2>1. a \in Screens!CardOffers(api.status) BY <1>1, <1>2 DEF ItemOK
  <2>2. a \in Screens!Actions /\ api.status \in Screens!ActionFrom[a]
        /\ (a = "publish" => api.status = "results_ready")
    BY <2>1, <1>1, CardsOfferRightly
  <2> HIDE DEF at, a
  <2> QED BY <2>2, <1>18
<1>12. ItemOK(s, p, d, api'.status) 
  <2>1. api'.status \in Statuses BY <1>7 DEF Statuses, OfElection
  <2> HIDE DEF d, p
  <2> QED BY <2>1, <1>1, <1>5, <1>7, ItemKept
<1>13. at = "taken" => a \in d OBVIOUS
<1>15. at \in Screens!Refusals \cup {"taken"}
       /\ at \notin {"none", "sent", "loading"}
  BY <1>18 DEF Screens!Refusals
<1> HIDE DEF q, p, d, at, w, taken, a
<1>16. ItemOK(s, q, d, api'.status)
  BY <1>2, <1>9, <1>10, <1>11, <1>12, <1>13, <1>15 DEF ItemOK
<1> QED BY <1>4, <1>5, <1>6, <1>7, <1>16, ScreenStep

\* What a page keeps until its action is over.
LEMMA ActTakenKeeps ==
  ASSUME ScreensInv, NEW s \in Screens!Screens, Screens!ActTaken(s) PROVE ScreensInv'
<1> DEFINE p == page[s]
           a == p.call.action
           m == Screens!Reloading(p)
           c == [p.call EXCEPT !.at = "loading"]
           t == IF s \in Panels THEN p.told \cup {a} ELSE p.told
           q == [m EXCEPT !.call = c, !.told = t]
<1>1. /\ p \in Item /\ page \in [Screens!Screens -> Item] /\ past.done[s] \in Deeds
      /\ past \in [presses : Nat, done : [Screens!Screens -> Deeds]]
      /\ past.done = [past.done EXCEPT ![s] = past.done[s]]
      /\ p.call \in ActionCall /\ p.told \in Deeds
      /\ ItemOK(s, p, past.done[s], api.status) /\ api \in OfElection
      /\ api.status \in Screens!ElectionStatus
      /\ Screens!Rank[api.status] <= Screens!Rank[api.status]
  BY ScreenFields
<1>2. p.call.at = "taken" BY DEF Screens!ActTaken, Screens!Succeeded
<1>3. a \in Screens!Actions /\ a \in past.done[s] BY <1>1, <1>2 DEF ItemOK
<1>4. /\ m \in Item /\ m.shown = p.shown /\ m.told = p.told /\ m.call = p.call
      /\ m.runs = <<"asked">>
  BY <1>1, ReloadingFields
<1>5. c \in ActionCall /\ c.at = "loading" /\ c.action = a
  <2> DEFINE n == "loading"
             k == p.call
  <2>1. k \in ActionCall /\ n \in CallStages /\ c = [k EXCEPT !.at = n] /\ a = k.action
    BY <1>1, CallSent
  <2> HIDE DEF k, n, c, a
  <2>2. c \in ActionCall /\ c.at = n /\ c.action = a BY <2>1 DEF ActionCall
  <2> QED BY <2>2 DEF n
<1>6. t \in Deeds /\ t \subseteq past.done[s] BY <1>1, <1>3 DEF Deeds, ItemOK
<1>7. page' = [page EXCEPT ![s] = q] /\ api' = api /\ past' = past
  <2>1. page' = [page EXCEPT ![s] =
          [m EXCEPT !.call.at = "loading",
             !.told = IF s \in Panels THEN @ \cup {page[s].call.action} ELSE @]]
    BY <1>1 DEF Screens!ActTaken
  <2>2. [m EXCEPT !.call.at = "loading",
             !.told = IF s \in Panels THEN @ \cup {page[s].call.action} ELSE @] = q
    <3> HIDE DEF m
    <3> QED BY <1>4
  <2> QED BY <2>1, <2>2 DEF Screens!ActTaken
<1>8. q = [m EXCEPT !.call = c, !.told = t] OBVIOUS
<1> HIDE DEF c, t, q, m
<1>9. q \in Item /\ q.shown = m.shown /\ q.runs = m.runs /\ q.told = t /\ q.call = c
  <2> HIDE DEF p
  <2> QED BY <1>4, <1>5, <1>6, <1>8 DEF Item
<1> HIDE DEF p, a
<1>10. ItemOK(s, q, past.done[s], api.status)
  BY <1>1, <1>3, <1>4, <1>5, <1>6, <1>9 DEF ItemOK
<1> QED BY <1>1, <1>7, <1>10, ScreenStep

LEMMA ActRefusedKeeps ==
  ASSUME ScreensInv, NEW s \in Screens!Screens, Screens!ActRefused(s) PROVE ScreensInv'
<1> DEFINE p == page[s]
           c == Screens!NoCall
           b == FALSE
           e == TRUE
           q == [p EXCEPT !.call = c, !.busy = b, !.err = e]
<1>1. /\ p \in Item /\ page \in [Screens!Screens -> Item] /\ past.done[s] \in Deeds
      /\ past \in [presses : Nat, done : [Screens!Screens -> Deeds]]
      /\ past.done = [past.done EXCEPT ![s] = past.done[s]]
      /\ ItemOK(s, p, past.done[s], api.status) /\ api \in OfElection
      /\ api.status \in Screens!ElectionStatus
      /\ Screens!Rank[api.status] <= Screens!Rank[api.status]
  BY ScreenFields
<1>2. c \in ActionCall /\ c.at = "none" /\ b \in Flag /\ e \in Flag BY CallSent, Flags
<1>3. page' = [page EXCEPT ![s] = q] /\ api' = api /\ past' = past
  BY <1>1 DEF Screens!ActRefused
<1>4. q = [p EXCEPT !.call = c, !.busy = b, !.err = e] OBVIOUS
<1> HIDE DEF p, c, b, e, q
<1>5. q \in Item /\ q.shown = p.shown /\ q.runs = p.runs /\ q.told = p.told /\ q.call = c
  BY <1>1, <1>2, <1>4 DEF Item
<1>6. ItemOK(s, q, past.done[s], api.status) BY <1>1, <1>2, <1>5 DEF ItemOK
<1> QED BY <1>1, <1>3, <1>6, ScreenStep

LEMMA ActEndsKeeps ==
  ASSUME ScreensInv, NEW s \in Screens!Screens, Screens!ActEnds(s) PROVE ScreensInv'
<1> DEFINE p == page[s]
           c == Screens!NoCall
           b == FALSE
           t == p.told \cup {p.call.action}
           q == [p EXCEPT !.call = c, !.busy = b, !.told = t]
<1>1. /\ p \in Item /\ page \in [Screens!Screens -> Item] /\ past.done[s] \in Deeds
      /\ past \in [presses : Nat, done : [Screens!Screens -> Deeds]]
      /\ past.done = [past.done EXCEPT ![s] = past.done[s]] /\ p.told \in Deeds
      /\ ItemOK(s, p, past.done[s], api.status) /\ api \in OfElection
      /\ api.status \in Screens!ElectionStatus
      /\ Screens!Rank[api.status] <= Screens!Rank[api.status]
  BY ScreenFields
<1>2. c \in ActionCall /\ c.at = "none" /\ b \in Flag BY CallSent, Flags
<1>3. page' = [page EXCEPT ![s] = q] /\ api' = api /\ past' = past /\ p.call.at = "loading"
  BY <1>1 DEF Screens!ActEnds
<1>4. q = [p EXCEPT !.call = c, !.busy = b, !.told = t] OBVIOUS
<1>7. t \in Deeds /\ t \subseteq past.done[s] BY <1>1, <1>3 DEF Deeds, ItemOK
<1> HIDE DEF p, c, b, t, q
<1>5. q \in Item /\ q.shown = p.shown /\ q.runs = p.runs /\ q.told = t /\ q.call = c
  BY <1>1, <1>2, <1>4, <1>7 DEF Item
<1>6. ItemOK(s, q, past.done[s], api.status) BY <1>1, <1>2, <1>5, <1>7 DEF ItemOK
<1> QED BY <1>1, <1>3, <1>6, ScreenStep

\* The load under way, if one is.
LEMMA OneLoad ==
  ASSUME NEW r \in Reads, NEW i \in DOMAIN r
  PROVE  /\ i = 1 /\ r = <<r[1]>> /\ r[1] \in Screens!ElectionStatus \cup {"asked"}
         /\ Screens!RemoveAt(r, i) = <<>>
         /\ \A x \in Screens!ElectionStatus : [r EXCEPT ![i] = x] = <<x>>
<1>1. PICK x \in Screens!ElectionStatus \cup {"asked"} : r = <<x>> BY DEF Reads
<1>2. i = 1 /\ r[1] = x /\ Len(r) = 1 BY <1>1
<1>3. Screens!RemoveAt(r, i) = <<>> BY <1>1, <1>2 DEF Screens!RemoveAt
<1> QED BY <1>1, <1>2, <1>3

LEMMA ServerReadsKeeps ==
  ASSUME ScreensInv, NEW s \in Screens!Screens, Screens!ServerReads(s) PROVE ScreensInv'
<1> DEFINE p == page[s]
           r == <<api.status>>
           q == [p EXCEPT !.runs = r]
<1>1. /\ p \in Item /\ page \in [Screens!Screens -> Item] /\ past.done[s] \in Deeds
      /\ past \in [presses : Nat, done : [Screens!Screens -> Deeds]] /\ p.runs \in Reads
      /\ past.done = [past.done EXCEPT ![s] = past.done[s]]
      /\ ItemOK(s, p, past.done[s], api.status) /\ api \in OfElection
      /\ api.status \in Screens!ElectionStatus
      /\ Screens!Rank[api.status] <= Screens!Rank[api.status]
  BY ScreenFields
<1>2. PICK i \in DOMAIN p.runs : page' = [page EXCEPT ![s].runs[i] = api.status]
  BY <1>1 DEF Screens!ServerReads
<1>3. [p.runs EXCEPT ![i] = api.status] = r BY <1>1, <1>2, OneLoad
<1>4. page' = [page EXCEPT ![s] = q]
  <2>1. page' = [page EXCEPT ![s] = [p EXCEPT !.runs = [p.runs EXCEPT ![i] = api.status]]]
    BY <1>1, <1>2
  <2> QED BY <2>1, <1>3
<1>5. api' = api /\ past' = past BY DEF Screens!ServerReads
<1>6. r \in Reads /\ q = [p EXCEPT !.runs = r] BY <1>1 DEF Reads
<1>7. \A j \in DOMAIN r : r[j] = api.status OBVIOUS
<1> HIDE DEF p, q, r
<1>8. q \in Item /\ q.shown = p.shown /\ q.runs = r /\ q.told = p.told /\ q.call = p.call
  BY <1>1, <1>6 DEF Item
<1>9. ItemOK(s, q, past.done[s], api.status) BY <1>1, <1>7, <1>8 DEF ItemOK
<1> QED BY <1>1, <1>4, <1>5, <1>9, ScreenStep

LEMMA LoadEndsKeeps ==
  ASSUME ScreensInv, NEW s \in Screens!Screens, Screens!LoadEnds(s)
  PROVE  ScreensInv' /\ Screens!Rank[page[s].shown] <= Screens!Rank[page'[s].shown]
<1> DEFINE p == page[s]
           v == p.runs[1]
           r == <<>>
           l == FALSE
           q == [p EXCEPT !.runs = r, !.loading = l, !.shown = v]
<1>1. /\ p \in Item /\ page \in [Screens!Screens -> Item] /\ past.done[s] \in Deeds
      /\ past \in [presses : Nat, done : [Screens!Screens -> Deeds]] /\ p.runs \in Reads
      /\ past.done = [past.done EXCEPT ![s] = past.done[s]]
      /\ ItemOK(s, p, past.done[s], api.status) /\ api \in OfElection
      /\ api.status \in Screens!ElectionStatus
      /\ Screens!Rank[api.status] <= Screens!Rank[api.status]
  BY ScreenFields
<1>2. PICK i \in DOMAIN p.runs :
        /\ p.runs[i] # "asked"
        /\ page' = [page EXCEPT ![s].runs = Screens!RemoveAt(@, i), ![s].loading = FALSE,
                                ![s].shown = p.runs[i]]
  BY <1>1 DEF Screens!LoadEnds
<1>3. i = 1 /\ Screens!RemoveAt(p.runs, i) = <<>> /\ v \in Screens!ElectionStatus
      /\ 1 \in DOMAIN p.runs
  BY <1>1, <1>2, OneLoad
<1>4. page' = [page EXCEPT ![s] = q]
  <2>1. page' = [page EXCEPT ![s] = [p EXCEPT !.runs = Screens!RemoveAt(p.runs, i),
                                              !.loading = FALSE, !.shown = p.runs[i]]]
    BY <1>1, <1>2
  <2> QED BY <2>1, <1>3
<1>5. api' = api /\ past' = past BY DEF Screens!LoadEnds
<1>6. r \in Reads /\ l \in Flag /\ q = [p EXCEPT !.runs = r, !.loading = l, !.shown = v]
      /\ v \in Statuses
  BY <1>3, Flags DEF Reads, Statuses
<1>7. DOMAIN r = {} OBVIOUS
<1>8. /\ Screens!Rank[p.shown] <= Screens!Rank[v] /\ Screens!Rank[v] <= Screens!Rank[api.status]
  BY <1>1, <1>2, <1>3 DEF ItemOK
<1> HIDE DEF p, q, r, l, v
<1>9. q \in Item /\ q.shown = v /\ q.runs = r /\ q.told = p.told /\ q.call = p.call
  BY <1>1, <1>6 DEF Item
<1>10. ItemOK(s, q, past.done[s], api.status) BY <1>1, <1>7, <1>8, <1>9 DEF ItemOK
<1>11. ScreensInv' BY <1>1, <1>4, <1>5, <1>10, ScreenStep
<1>12. page'[s] = q BY <1>1, <1>4
<1> QED BY <1>8, <1>9, <1>11, <1>12 DEF p

LEMMA ActLostKeeps ==
  ASSUME ScreensInv, NEW s \in Screens!Screens, Screens!ActLost(s) PROVE ScreensInv'
<1> DEFINE p == page[s]
           n == "failed"
           k == p.call
           c == [k EXCEPT !.at = n]
           q == [p EXCEPT !.call = c]
<1>1. /\ p \in Item /\ page \in [Screens!Screens -> Item] /\ past.done[s] \in Deeds
      /\ ItemOK(s, p, past.done[s], api.status) /\ api \in OfElection
      /\ api.status \in Screens!ElectionStatus
      /\ Screens!Rank[api.status] <= Screens!Rank[api.status] /\ k \in ActionCall
  BY ScreenFields
<1>2. /\ page' = [page EXCEPT ![s] = q] /\ api' = api /\ Screens!CountPress
      /\ k.at \in {"sent", "taken"}
  BY <1>1 DEF Screens!ActLost
<1>3. past' \in [presses : Nat, done : [Screens!Screens -> Deeds]]
      /\ past'.done = [past.done EXCEPT ![s] = past.done[s]]
  BY <1>2, PressCounted
<1>4. n \in CallStages /\ c = [k EXCEPT !.at = n] /\ q = [p EXCEPT !.call = c]
      /\ k = p.call
  BY CallSent
<1> HIDE DEF p, k, c, q, n
<1>5. c \in ActionCall /\ c.at = n /\ c.action = k.action BY <1>1, <1>4 DEF ActionCall
<1>6. q \in Item /\ q.shown = p.shown /\ q.runs = p.runs /\ q.told = p.told /\ q.call = c
  BY <1>1, <1>4, <1>5 DEF Item
<1>7. ItemOK(s, q, past.done[s], api.status) BY <1>1, <1>2, <1>4, <1>5, <1>6 DEF ItemOK, n
<1> QED BY <1>1, <1>2, <1>3, <1>7, ScreenStep

LEMMA LoadLostKeeps ==
  ASSUME ScreensInv, NEW s \in Screens!Screens, Screens!LoadLost(s)
  PROVE  ScreensInv' /\ page'[s].shown \in {page[s].shown, "none"}
<1> DEFINE p == page[s]
           n == "none"
           r == <<>>
           l == FALSE
           t == TRUE
           q(v, e) == [p EXCEPT !.runs = r, !.loading = l, !.shown = v, !.err = e]
<1>1. /\ p \in Item /\ page \in [Screens!Screens -> Item] /\ past.done[s] \in Deeds
      /\ ItemOK(s, p, past.done[s], api.status) /\ api \in OfElection
      /\ Screens!Rank[api.status] <= Screens!Rank[api.status]
      /\ Screens!Rank[api.status] \in Nat /\ p.shown \in Statuses /\ p.err \in Flag
  BY ScreenFields, Ranks
<1>2. api' = api /\ Screens!CountPress BY DEF Screens!LoadLost
<1>3. past' \in [presses : Nat, done : [Screens!Screens -> Deeds]]
      /\ past'.done = [past.done EXCEPT ![s] = past.done[s]]
  BY <1>2, PressCounted
<1>4. PICK v \in {p.shown, n}, e \in {p.err, t} : page' = [page EXCEPT ![s] = q(v, e)]
  <2>1. Screens!LoadFailed(p) = q(n, t) BY DEF Screens!LoadFailed
  <2>2. Screens!LoadTimedOut(p) = q(p.shown, p.err) BY <1>1 DEF Screens!LoadTimedOut, Item
  <2>3. PICK after \in {Screens!LoadFailed(p), Screens!LoadTimedOut(p)} :
          page' = [page EXCEPT ![s] = after]
    BY DEF Screens!LoadLost
  <2> HIDE DEF q
  <2> QED BY <2>1, <2>2, <2>3
<1>5. /\ r \in Reads /\ l \in Flag /\ e \in Flag /\ v \in Statuses
      /\ q(v, e) = [p EXCEPT !.runs = r, !.loading = l, !.shown = v, !.err = e]
  BY <1>1, Flags DEF Reads, Statuses
<1>6. DOMAIN r = {} /\ Screens!Rank[v] <= Screens!Rank[api.status]
  BY <1>1, Ranks DEF ItemOK
<1> DEFINE o == q(v, e)
<1>7. o = [p EXCEPT !.runs = r, !.loading = l, !.shown = v, !.err = e]
      /\ page' = [page EXCEPT ![s] = o] /\ v \in {p.shown, n}
  BY <1>4
<1> HIDE DEF o, q, r, l, p, n
<1>8. o \in Item /\ o.shown = v /\ o.runs = r /\ o.told = p.told /\ o.call = p.call
  BY <1>1, <1>5, <1>7 DEF Item
<1>9. ItemOK(s, o, past.done[s], api.status) BY <1>1, <1>6, <1>8 DEF ItemOK
<1>10. ScreensInv' BY <1>1, <1>2, <1>3, <1>7, <1>9, ScreenStep
<1> QED BY <1>1, <1>7, <1>8, <1>10 DEF p, n

\* The worker and the others move the election on, or leave its status.
LEMMA WorkerKeepsScreens ==
  ASSUME ScreensInv, Screens!WorkerMoves \/ Screens!OthersEdit PROVE ScreensInv'
<1>1. api.status \in Statuses /\ api \in OfElection /\ page' = page /\ past' = past
  BY DEF ScreensInv, Screens!WorkerMoves, Screens!OthersEdit, Statuses, OfElection
<1>2. api' \in OfElection /\ Screens!Rank[api.status] <= Screens!Rank[api'.status]
  <2>1. "close" \in Screens!Actions /\ Screens!ActionTo["close"] = "closed"
        /\ {"closed", "results_ready", "published"} \subseteq Screens!ElectionStatus
    BY DEF Screens!Actions, Screens!ActionFrom, Screens!ActionTo, Screens!ElectionStatus
  <2>2. CASE Screens!OthersEdit
    <3> DEFINE f == ~api.fit
    <3>1. f \in BOOLEAN /\ api' = [api EXCEPT !.fit = f]
      BY <2>2 DEF Screens!OthersEdit
    <3> HIDE DEF f
    <3> QED BY <3>1, <1>1, Ranks DEF OfElection
  <2>3. CASE Screens!WorkerMoves
    <3>1. PICK next \in {"closed", "results_ready", "published"} :
            /\ \/ api.status \in Screens!ActionFrom["close"] /\ next = "closed"
               \/ api.status = "closed" /\ next = "results_ready"
               \/ api.status = "results_ready" /\ next = "published"
            /\ api' = [api EXCEPT !.status = next]
      BY <2>3 DEF Screens!WorkerMoves
    <3>2. next \in Screens!ElectionStatus
          /\ Screens!Rank[api.status] <= Screens!Rank[next]
      BY <2>1, <3>1, <1>1, Ranks
    <3> QED BY <3>1, <3>2, <1>1 DEF OfElection
  <2> QED BY <2>2, <2>3
<1>3. api'.status \in Statuses BY <1>2 DEF Statuses, OfElection
<1>4. ASSUME NEW o \in Screens!Screens PROVE ItemOK(o, page[o], past.done[o], api'.status)
  <2>1. ItemOK(o, page[o], past.done[o], api.status) BY DEF ScreensInv
  <2> QED BY <2>1, <1>1, <1>2, <1>3, ItemKept
<1> QED BY <1>1, <1>2, <1>4 DEF ScreensInv

LEMMA ScreensStart == Screens!Init => ScreensInv
<1> SUFFICES ASSUME Screens!Init PROVE ScreensInv OBVIOUS
<1> DEFINE o == Screens!Opened
           n == {}
<1>1. /\ o \in Item /\ o.told = {} /\ o.call.at = "none" /\ o.shown = "none"
      /\ o.runs = <<"asked">>
  <2>1. /\ "none" \in Statuses /\ <<"asked">> \in Reads /\ TRUE \in Flag /\ FALSE \in Flag
        /\ {} \in Deeds
    BY Flags DEF Statuses, Reads, Deeds
  <2> QED BY <2>1, CallSent DEF Screens!Opened, Item
<1>2. /\ api \in [status : {"draft"}, fit : BOOLEAN] /\ page = [s \in Screens!Screens |-> o]
      /\ past = [presses |-> 0, done |-> [s \in Screens!Screens |-> n]]
  BY DEF Screens!Init
<1>3. api \in OfElection /\ Screens!Rank["none"] <= Screens!Rank[api.status]
  <2>1. "draft" \in Screens!ElectionStatus BY DEF Screens!ElectionStatus
  <2> QED BY <1>2, <2>1, Ranks DEF Statuses, OfElection
<1>4. n \in Deeds BY DEF Deeds
<1> HIDE DEF o
<1>6. \A s \in Screens!Screens : ItemOK(s, o, n, api.status) BY <1>1, <1>3 DEF ItemOK
<1> HIDE DEF n
<1>7. past \in [presses : Nat, done : [Screens!Screens -> Deeds]]
      /\ \A s \in Screens!Screens : past.done[s] = n /\ page[s] = o
  BY <1>2, <1>4
<1> QED BY <1>1, <1>2, <1>3, <1>6, <1>7 DEF ScreensInv

\* What the pages do, one case per action; none goes back to an earlier status.
LEMMA ScreensGoOn ==
  ASSUME ScreensInv, Screens!Next
  PROVE  ScreensInv' /\ Screens!ShownMovesForward
<1> DEFINE Forward(s) == page[s].shown # "none" /\ page'[s].shown # "none" =>
                           Screens!Rank[page[s].shown] <= Screens!Rank[page'[s].shown]
           Same(s) == page'[s].shown = page[s].shown
<1>1. \A s \in Screens!Screens : /\ page \in [Screens!Screens -> Item] /\ page[s] \in Item
                                 /\ Screens!Rank[page[s].shown] \in Nat
  BY ScreenFields, Ranks
<1>2. \A s \in Screens!Screens : Same(s) => Forward(s) BY <1>1
<1>3. ASSUME NEW s \in Screens!Screens,
             page' = page \/ \E q : page' = [page EXCEPT ![s] = q], Forward(s)
      PROVE  Screens!ShownMovesForward
  <2>1. ASSUME NEW o \in Screens!Screens, o # s PROVE Same(o)
    BY <1>1, <1>3, <2>1
  <2>2. ASSUME NEW o \in Screens!Screens PROVE Forward(o)
    <3>1. CASE o = s BY <3>1, <1>3
    <3>2. CASE o # s BY <3>2, <2>1, <1>2
    <3> QED BY <3>1, <3>2
  <2> QED BY <2>2 DEF Screens!ShownMovesForward
<1>4. ASSUME NEW s \in Screens!Screens, NEW a \in Screens!Actions, Screens!Press(s, a)
      PROVE  ScreensInv' /\ Screens!ShownMovesForward
  <2>1. ScreensInv' BY <1>4, PressKeepsScreens
  <2>2. Same(s) /\ \E q : page' = [page EXCEPT ![s] = q]
    <3> DEFINE e == IF s \in Panels THEN FALSE ELSE page[s].err
               t == IF s \in Cards THEN {} ELSE page[s].told
               c == [Screens!NoCall EXCEPT !.at = "sent", !.action = a, !.shown = page[s].shown]
               q == [page[s] EXCEPT !.busy = TRUE, !.err = e, !.told = t, !.call = c]
    <3>1. page' = [page EXCEPT ![s] = q] BY <1>1, <1>4 DEF Screens!Press
    <3>2. q.shown = page[s].shown
      <4> HIDE DEF e, t, c
      <4> QED BY <1>1 DEF Item
    <3> HIDE DEF q
    <3> QED BY <1>1, <3>1, <3>2
  <2> QED BY <2>1, <2>2, <1>2, <1>3
<1>5. ASSUME NEW s \in Screens!Screens, Screens!Refresh(s)
      PROVE  ScreensInv' /\ Screens!ShownMovesForward
  <2>1. ScreensInv' BY <1>5, RefreshKeepsScreens
  <2>2. Same(s) /\ \E q : page' = [page EXCEPT ![s] = q]
    <3> DEFINE q == Screens!Reloading(page[s])
    <3>1. page' = [page EXCEPT ![s] = q] BY <1>5 DEF Screens!Refresh
    <3>2. q.shown = page[s].shown BY <1>1, ReloadingFields
    <3> HIDE DEF q
    <3> QED BY <1>1, <3>1, <3>2
  <2> QED BY <2>1, <2>2, <1>2, <1>3
<1>6. ASSUME NEW s \in Screens!Screens, Screens!ServerActs(s)
      PROVE  ScreensInv' /\ Screens!ShownMovesForward
  <2>1. ScreensInv' BY <1>6, ServerActsKeeps
  <2>2. Same(s) /\ \E q : page' = [page EXCEPT ![s] = q]
    <3> DEFINE at == Screens!Answer(s, page[s].call.action)
               w == page[s].call.shown # api.status
               q == [page[s] EXCEPT !.call = [page[s].call EXCEPT !.at = at, !.stale = w]]
    <3>1. page' = [page EXCEPT ![s] = q]
      <4>1. page' = [page EXCEPT ![s].call.at = at, ![s].call.stale = w]
        BY <1>6 DEF Screens!ServerActs
      <4> QED BY <4>1, <1>1
    <3>2. q.shown = page[s].shown BY <1>1 DEF Item
    <3> HIDE DEF q
    <3> QED BY <1>1, <3>1, <3>2
  <2> QED BY <2>1, <2>2, <1>2, <1>3
<1>7. ASSUME NEW s \in Screens!Screens, Screens!ActTaken(s)
      PROVE  ScreensInv' /\ Screens!ShownMovesForward
  <2>1. ScreensInv' BY <1>7, ActTakenKeeps
  <2>2. Same(s) /\ \E q : page' = [page EXCEPT ![s] = q]
    <3> DEFINE m == Screens!Reloading(page[s])
               c == [m.call EXCEPT !.at = "loading"]
               t == IF s \in Panels THEN m.told \cup {page[s].call.action} ELSE m.told
               q == [m EXCEPT !.call = c, !.told = t]
    <3>1. m \in Item /\ m.shown = page[s].shown BY <1>1, ReloadingFields
    <3>2. page' = [page EXCEPT ![s] = [m EXCEPT !.call.at = "loading",
            !.told = IF s \in Panels THEN @ \cup {page[s].call.action} ELSE @]]
      BY <1>1, <1>7 DEF Screens!ActTaken
    <3>3. [m EXCEPT !.call.at = "loading",
             !.told = IF s \in Panels THEN @ \cup {page[s].call.action} ELSE @] = q
      <4> HIDE DEF m
      <4> QED BY <3>1
    <3>4. q.shown = m.shown
      <4> HIDE DEF m, t, c
      <4> QED BY <3>1 DEF Item
    <3> HIDE DEF q, m
    <3> QED BY <1>1, <3>1, <3>2, <3>3, <3>4
  <2> QED BY <2>1, <2>2, <1>2, <1>3
<1>8. ASSUME NEW s \in Screens!Screens, Screens!ActRefused(s)
      PROVE  ScreensInv' /\ Screens!ShownMovesForward
  <2>1. ScreensInv' BY <1>8, ActRefusedKeeps
  <2>2. Same(s) /\ \E q : page' = [page EXCEPT ![s] = q]
    <3> DEFINE c == Screens!NoCall
               q == [page[s] EXCEPT !.call = c, !.busy = FALSE, !.err = TRUE]
    <3>1. page' = [page EXCEPT ![s] = q] BY <1>1, <1>8 DEF Screens!ActRefused
    <3> HIDE DEF c
    <3>2. q.shown = page[s].shown BY <1>1 DEF Item
    <3> HIDE DEF q
    <3> QED BY <1>1, <3>1, <3>2
  <2> QED BY <2>1, <2>2, <1>2, <1>3
<1>9. ASSUME NEW s \in Screens!Screens, Screens!ActEnds(s)
      PROVE  ScreensInv' /\ Screens!ShownMovesForward
  <2>1. ScreensInv' BY <1>9, ActEndsKeeps
  <2>2. Same(s) /\ \E q : page' = [page EXCEPT ![s] = q]
    <3> DEFINE c == Screens!NoCall
               t == page[s].told \cup {page[s].call.action}
               q == [page[s] EXCEPT !.call = c, !.busy = FALSE, !.told = t]
    <3>1. page' = [page EXCEPT ![s] = q] BY <1>1, <1>9 DEF Screens!ActEnds
    <3> HIDE DEF c, t
    <3>2. q.shown = page[s].shown BY <1>1 DEF Item
    <3> HIDE DEF q
    <3> QED BY <1>1, <3>1, <3>2
  <2> QED BY <2>1, <2>2, <1>2, <1>3
<1>10. ASSUME NEW s \in Screens!Screens, Screens!ServerReads(s)
       PROVE  ScreensInv' /\ Screens!ShownMovesForward
  <2>1. ScreensInv' BY <1>10, ServerReadsKeeps
  <2>2. Same(s) /\ \E q : page' = [page EXCEPT ![s] = q]
    <3>1. PICK i \in DOMAIN page[s].runs : page' = [page EXCEPT ![s].runs[i] = api.status]
      BY <1>10 DEF Screens!ServerReads
    <3> DEFINE r == [page[s].runs EXCEPT ![i] = api.status]
               q == [page[s] EXCEPT !.runs = r]
    <3>2. page' = [page EXCEPT ![s] = q] BY <1>1, <3>1
    <3> HIDE DEF r
    <3>3. q.shown = page[s].shown BY <1>1 DEF Item
    <3> HIDE DEF q
    <3> QED BY <1>1, <3>2, <3>3
  <2> QED BY <2>1, <2>2, <1>2, <1>3
<1>11. ASSUME NEW s \in Screens!Screens, Screens!LoadEnds(s)
       PROVE  ScreensInv' /\ Screens!ShownMovesForward
  <2>1. ScreensInv' /\ Forward(s) BY <1>11, LoadEndsKeeps
  <2>2. \E q : page' = [page EXCEPT ![s] = q]
    <3>1. PICK i \in DOMAIN page[s].runs :
            page' = [page EXCEPT ![s].runs = Screens!RemoveAt(@, i), ![s].loading = FALSE,
                                 ![s].shown = page[s].runs[i]]
      BY <1>11 DEF Screens!LoadEnds
    <3> DEFINE q == [page[s] EXCEPT !.runs = Screens!RemoveAt(page[s].runs, i),
                                    !.loading = FALSE, !.shown = page[s].runs[i]]
    <3>2. page' = [page EXCEPT ![s] = q] BY <1>1, <3>1
    <3> HIDE DEF q
    <3> QED BY <3>2
  <2> QED BY <2>1, <2>2, <1>3
<1>12. ASSUME NEW s \in Screens!Screens, Screens!ActLost(s)
       PROVE  ScreensInv' /\ Screens!ShownMovesForward
  <2>1. ScreensInv' BY <1>12, ActLostKeeps
  <2>2. Same(s) /\ \E q : page' = [page EXCEPT ![s] = q]
    <3> DEFINE c == [page[s].call EXCEPT !.at = "failed"]
               q == [page[s] EXCEPT !.call = c]
    <3>1. page' = [page EXCEPT ![s] = q] BY <1>1, <1>12 DEF Screens!ActLost
    <3> HIDE DEF c
    <3>2. q.shown = page[s].shown BY <1>1 DEF Item
    <3> HIDE DEF q
    <3> QED BY <1>1, <3>1, <3>2
  <2> QED BY <2>1, <2>2, <1>2, <1>3
<1>13. ASSUME NEW s \in Screens!Screens, Screens!LoadLost(s)
       PROVE  ScreensInv' /\ Screens!ShownMovesForward
  <2>1. ScreensInv' /\ page'[s].shown \in {page[s].shown, "none"} BY <1>13, LoadLostKeeps
  <2>2. Forward(s) BY <2>1, <1>1
  <2>3. \E q : page' = [page EXCEPT ![s] = q] BY <1>13 DEF Screens!LoadLost
  <2> QED BY <2>1, <2>2, <2>3, <1>3
<1>14. CASE Screens!WorkerMoves \/ Screens!OthersEdit
  <2>1. ScreensInv' BY <1>14, WorkerKeepsScreens
  <2>2. \A s \in Screens!Screens : Same(s)
    BY <1>14 DEF Screens!WorkerMoves, Screens!OthersEdit
  <2>3. \A s \in Screens!Screens : Forward(s) BY <2>2, <1>2
  <2> QED BY <2>1, <2>3 DEF Screens!ShownMovesForward
<1> HIDE DEF Forward, Same
<1> QED
  BY <1>4, <1>5, <1>6, <1>7, <1>8, <1>9, <1>10, <1>11, <1>12, <1>13, <1>14
     DEF Screens!Next, Screens!ScreenRuns

LEMMA ScreensRest ==
  ASSUME ScreensInv, UNCHANGED <<page, api, past>> PROVE ScreensInv'
BY DEF ScreensInv, ItemOK

\* A page tells of an action only when the API has carried it out for this page; the card
\* is refused an action for the status only when the election has moved past it.
LEMMA ScreensAreRight ==
  ASSUME ScreensInv
  PROVE  Screens!ToldWasDone /\ Screens!CardRefusedOnlyIfStale /\ Screens!TypeOK
<1>1. Screens!ToldWasDone BY DEF ScreensInv, ItemOK, Screens!ToldWasDone
<1>2. Screens!CardRefusedOnlyIfStale
  BY DEF ScreensInv, ItemOK, Screens!CardRefusedOnlyIfStale, Screens!Screens
<1>3. ASSUME NEW s \in Screens!Screens
      PROVE  /\ page[s].shown \in Statuses /\ page[s].told \subseteq Screens!Actions
             /\ Len(page[s].runs) <= 1
             /\ \A i \in DOMAIN page[s].runs :
                  page[s].runs[i] \in Screens!ElectionStatus \cup {"asked"}
  <2>1. page[s].runs \in Reads /\ page[s].shown \in Statuses /\ page[s].told \in Deeds
    BY ScreenFields
  <2> DEFINE r == page[s].runs
  <2>2. r \in Reads BY <2>1
  <2> HIDE DEF r
  <2>3. r = <<>> \/ \E x \in Screens!ElectionStatus \cup {"asked"} : r = <<x>>
    BY <2>2 DEF Reads
  <2>4. Len(r) <= 1 /\ \A i \in DOMAIN r : r[i] \in Screens!ElectionStatus \cup {"asked"}
    <3>1. CASE r = <<>> BY <3>1
    <3>2. CASE r # <<>>
      <4>1. PICK x \in Screens!ElectionStatus \cup {"asked"} : r = <<x>> BY <2>3, <3>2
      <4> QED BY <4>1
    <3> QED BY <3>1, <3>2
  <2> QED BY <2>1, <2>4 DEF r, Deeds
<1>4. Screens!TypeOK BY <1>3 DEF Screens!TypeOK, ScreensInv, Statuses, OfElection
<1> QED BY <1>1, <1>2, <1>4

\* The pages of an election, opened and used in any order: what they tell was done, the
\* card is refused for the status only when that has changed since it was loaded, and
\* neither goes back to a status it has left.
THEOREM ScreensAreTrue ==
  Screens!Init /\ [][Screens!Next]_<<page, api, past>>
    => /\ [](Screens!ToldWasDone /\ Screens!CardRefusedOnlyIfStale)
       /\ [][Screens!ShownMovesForward]_<<page, api, past>>
<1>1. Screens!Init => ScreensInv BY ScreensStart
<1>2. ScreensInv /\ [Screens!Next]_<<page, api, past>>
        => ScreensInv' /\ [Screens!ShownMovesForward]_<<page, api, past>>
  BY ScreensGoOn, ScreensRest
<1>3. ScreensInv => Screens!ToldWasDone /\ Screens!CardRefusedOnlyIfStale
  BY ScreensAreRight
<1> QED BY <1>1, <1>2, <1>3, PTL

-----------------------------------------------------------------------------
(* InviteDesk.                                                             *)

EmailNames == Emails \cup {"none"}
InviteStatus == {"none", "created", "accepted"}
TextLists == Seq(Texts)
Requests == {"none", "sent", "done"}
Undertakings == {"none", "single", "bulk", "import"}
CreateCodes == {"none", "registration_required", "email_already_invited", "created", "failed"}
AcceptCodes == {"none", "sent", "failed", "accepted", "invalid_invite_code",
                "invite_code_inactive"}

Outcome == [total : Nat, created : TextLists, registration : TextLists,
            skipped : TextLists, failed : TextLists, blank : Nat]
DeskCall == [at : Requests, what : Undertakings, todo : TextLists, answer : CreateCodes]
DeskPage == [busy : Flag, gone : Flag, todo : TextLists, lists : Outcome, call : DeskCall,
             summary : Outcome, code : EmailNames]
VoterTab == [busy : Flag, gone : Flag, email : EmailNames, answer : AcceptCodes,
             told : AcceptCodes]

\* The texts that have come to one of the four lists, or were blank.
Sorted(o) ==
  Len(o.created) + Len(o.registration) + Len(o.skipped) + Len(o.failed) + o.blank

\* What is sorted and what is still to be done make up the list; an answer not filed yet
\* is that to the next text of the list.
Accounted(p) ==
  /\ Sorted(p.summary) = p.summary.total
  /\ p.call.what = "import" => Sorted(p.lists) + Len(p.call.todo) = p.lists.total
                               /\ p.todo = <<>>
  /\ p.call.what \in {"none", "bulk"} => Sorted(p.lists) + Len(p.todo) = p.lists.total
  /\ p.call.what = "bulk" => p.todo # <<>> /\ p.call.todo = <<Head(p.todo)>>
  /\ p.call.what = "single" => p.call.todo # <<>> /\ p.todo = <<>>
  /\ p.call.what = "none" => p.call.at = "none" /\ p.call.answer = "none"
  /\ p.call.answer = "created" => p.call.what \in {"single", "bulk"} /\ p.call.at = "done"
  /\ p.call.at = "done" => p.call.answer # "none"
  /\ p.call.what = "import" => p.call.at = "sent"

\* The emails a page says, or is about to say, it has invited.
Claims(p) ==
  {EmailOf[p.lists.created[i]] : i \in DOMAIN p.lists.created}
  \cup {EmailOf[p.summary.created[i]] : i \in DOMAIN p.summary.created}
  \cup {e \in Emails : e = p.code}
  \cup {e \in Emails : p.call.answer = "created" /\ e = EmailOf[Head(p.call.todo)]}

Invited == {e \in Emails : api[e] # "none"}

DeskInv ==
  /\ api \in [Emails -> InviteStatus]
  /\ page \in [Desks \cup Tabs -> DeskPage \cup VoterTab]
  /\ past \in [orders : Nat, events : Nat, accepted : [Emails -> SUBSET Tabs]]
  /\ \A d \in Desks : page[d] \in DeskPage /\ Accounted(page[d]) /\ Claims(page[d]) \subseteq Invited
  /\ \A c, d \in Desks : c # d => Claims(page[c]) \cap Claims(page[d]) = {}
  /\ \A t \in Tabs : page[t] \in VoterTab /\ (page[t].answer = "sent" => page[t].email \in Emails)
  /\ \A e \in Emails : /\ api[e] # "accepted" => past.accepted[e] = {}
                       /\ \A t, u \in past.accepted[e] : t = u

DeskParameters ==
  /\ EmailOf \in [Texts -> Emails] /\ Valid \subseteq Texts /\ Registered \subseteq Emails
  /\ Lists \subseteq Seq(Texts) /\ Desks \cap Tabs = {} /\ "none" \notin Emails

LEMMA DeskCodes ==
  ASSUME NEW e
  PROVE  /\ Desk!CreateCode(e) \in {"registration_required", "email_already_invited", "created"}
         /\ Desk!CreateCode(e) \in CreateCodes
         /\ Desk!CreateCode(e) = "created" => api[e] = "none"
         /\ Desk!Created(e) = IF Desk!CreateCode(e) = "created"
                              THEN [api EXCEPT ![e] = "created"] ELSE api
BY DEF Desk!CreateCode, CreateCodes, Desk!Created

LEMMA SortedIsNat == ASSUME NEW o \in Outcome PROVE Sorted(o) \in Nat
<1>1. /\ o.created \in Seq(Texts) /\ o.registration \in Seq(Texts)
      /\ o.skipped \in Seq(Texts) /\ o.failed \in Seq(Texts)
  BY DEF Outcome, TextLists
<1>2. \A l \in Seq(Texts) : Len(l) \in Nat
  OBVIOUS
<1> DEFINE a == Len(o.created)
           b == Len(o.registration)
           c == Len(o.skipped)
           d == Len(o.failed)
           g == o.blank
<1>3. a \in Nat /\ b \in Nat /\ c \in Nat /\ d \in Nat /\ g \in Nat
  BY <1>1, <1>2 DEF Outcome
<1>4. Sorted(o) = a + b + c + d + g BY DEF Sorted
<1> HIDE DEF a, b, c, d, g
<1> QED BY <1>3, <1>4

\* A text is sorted into one of the lists.
LEMMA FiledFields ==
  ASSUME NEW o \in Outcome, NEW x \in Texts,
         NEW code \in {"created", "registration_required", "email_already_invited",
                       "invalid_email", "failed"}
  PROVE  LET f == Desk!Filed(o, code, x)
         IN  /\ f \in Outcome /\ f.total = o.total /\ Sorted(f) = Sorted(o) + 1
             /\ f.created = IF code = "created" THEN Append(o.created, x) ELSE o.created
<1>1. /\ o.created \in Seq(Texts) /\ o.registration \in Seq(Texts)
      /\ o.skipped \in Seq(Texts) /\ o.failed \in Seq(Texts)
  BY DEF Outcome, TextLists
<1>2. \A l \in Seq(Texts) : /\ Append(l, x) \in Seq(Texts) /\ Len(l) \in Nat
                            /\ Len(Append(l, x)) = Len(l) + 1
  OBVIOUS
<1>7. /\ Len(o.created) \in Nat /\ Len(o.registration) \in Nat
      /\ Len(o.skipped) \in Nat /\ Len(o.failed) \in Nat
  BY <1>1
<1> DEFINE a == Len(o.created)
           b == Len(o.registration)
           c == Len(o.skipped)
           d == Len(o.failed)
           g == o.blank
<1>8. /\ a \in Nat /\ b \in Nat /\ c \in Nat /\ d \in Nat /\ g \in Nat
      /\ Sorted(o) = a + b + c + d + g
  BY <1>7 DEF Sorted, Outcome
<1> HIDE DEF a, b, c, d, g
<1> DEFINE f == Desk!Filed(o, code, x)
<1>3. CASE code = "created"
  <2> DEFINE l == Append(o.created, x)
  <2>1. f = [o EXCEPT !.created = l] BY <1>3 DEF Desk!Filed, Desk!ListOf
  <2>2. l \in TextLists /\ Len(l) = Len(o.created) + 1 BY <1>1, <1>2 DEF TextLists
  <2>5. l = Append(o.created, x) OBVIOUS
  <2> HIDE DEF l, f
  <2>3. /\ f \in Outcome /\ f.total = o.total /\ f.created = l
        /\ f.registration = o.registration /\ f.skipped = o.skipped /\ f.failed = o.failed
        /\ f.blank = o.blank
    BY <2>1, <2>2 DEF Outcome
  <2>6. /\ Len(f.created) = a + 1 /\ Len(f.registration) = b
        /\ Len(f.skipped) = c /\ Len(f.failed) = d /\ f.blank = g
    BY <2>2, <2>3 DEF a, b, c, d, g
  <2>7. Sorted(f) = (a + 1) + b + c + d + g BY <2>6 DEF Sorted
  <2>4. Sorted(f) = Sorted(o) + 1 BY <1>8, <2>7
  <2> QED BY <1>3, <2>3, <2>4, <2>5 DEF f
<1>4. CASE code = "registration_required"
  <2> DEFINE l == Append(o.registration, x)
  <2>1. f = [o EXCEPT !.registration = l] BY <1>4 DEF Desk!Filed, Desk!ListOf
  <2>2. l \in TextLists /\ Len(l) = Len(o.registration) + 1 BY <1>1, <1>2 DEF TextLists
  <2> HIDE DEF l, f
  <2>3. /\ f \in Outcome /\ f.total = o.total /\ f.created = o.created
        /\ f.registration = l /\ f.skipped = o.skipped /\ f.failed = o.failed
        /\ f.blank = o.blank
    BY <2>1, <2>2 DEF Outcome
  <2>6. /\ Len(f.created) = a /\ Len(f.registration) = b + 1
        /\ Len(f.skipped) = c /\ Len(f.failed) = d /\ f.blank = g
    BY <2>2, <2>3 DEF a, b, c, d, g
  <2>7. Sorted(f) = a + (b + 1) + c + d + g BY <2>6 DEF Sorted
  <2>4. Sorted(f) = Sorted(o) + 1 BY <1>8, <2>7
  <2> QED BY <1>4, <2>3, <2>4 DEF f
<1>5. CASE code = "email_already_invited"
  <2> DEFINE l == Append(o.skipped, x)
  <2>1. f = [o EXCEPT !.skipped = l] BY <1>5 DEF Desk!Filed, Desk!ListOf
  <2>2. l \in TextLists /\ Len(l) = Len(o.skipped) + 1 BY <1>1, <1>2 DEF TextLists
  <2> HIDE DEF l, f
  <2>3. /\ f \in Outcome /\ f.total = o.total /\ f.created = o.created
        /\ f.registration = o.registration /\ f.skipped = l /\ f.failed = o.failed
        /\ f.blank = o.blank
    BY <2>1, <2>2 DEF Outcome
  <2>6. /\ Len(f.created) = a /\ Len(f.registration) = b
        /\ Len(f.skipped) = c + 1 /\ Len(f.failed) = d /\ f.blank = g
    BY <2>2, <2>3 DEF a, b, c, d, g
  <2>7. Sorted(f) = a + b + (c + 1) + d + g BY <2>6 DEF Sorted
  <2>4. Sorted(f) = Sorted(o) + 1 BY <1>8, <2>7
  <2> QED BY <1>5, <2>3, <2>4 DEF f
<1>6. CASE code \in {"invalid_email", "failed"}
  <2> DEFINE l == Append(o.failed, x)
  <2>1. f = [o EXCEPT !.failed = l] BY <1>6 DEF Desk!Filed, Desk!ListOf
  <2>2. l \in TextLists /\ Len(l) = Len(o.failed) + 1 BY <1>1, <1>2 DEF TextLists
  <2> HIDE DEF l, f
  <2>3. /\ f \in Outcome /\ f.total = o.total /\ f.created = o.created
        /\ f.registration = o.registration /\ f.skipped = o.skipped /\ f.failed = l
        /\ f.blank = o.blank
    BY <2>1, <2>2 DEF Outcome
  <2>6. /\ Len(f.created) = a /\ Len(f.registration) = b
        /\ Len(f.skipped) = c /\ Len(f.failed) = d + 1 /\ f.blank = g
    BY <2>2, <2>3 DEF a, b, c, d, g
  <2>7. Sorted(f) = a + b + c + (d + 1) + g BY <2>6 DEF Sorted
  <2>4. Sorted(f) = Sorted(o) + 1 BY <1>8, <2>7
  <2> QED BY <1>6, <2>3, <2>4 DEF f
<1> QED BY <1>3, <1>4, <1>5, <1>6

LEMMA EmptyDesk ==
  ASSUME DeskParameters
  PROVE  /\ Desk!NoLists \in Outcome /\ Sorted(Desk!NoLists) = 0 /\ Desk!NoLists.total = 0
         /\ Desk!NoLists.created = <<>>
         /\ Desk!NoCall \in DeskCall /\ Desk!NoCall.at = "none" /\ Desk!NoCall.what = "none"
         /\ Desk!NoCall.answer = "none" /\ Desk!NoCall.todo = <<>>
         /\ <<>> \in TextLists /\ "none" \in EmailNames /\ "none" \notin Emails
         /\ Desk!Desk \in DeskPage /\ Desk!Desk.lists = Desk!NoLists
         /\ Desk!Desk.call = Desk!NoCall /\ Desk!Desk.summary = Desk!NoLists
         /\ Desk!Desk.todo = <<>> /\ Desk!Desk.code = "none"
<1>1. <<>> \in TextLists /\ "none" \in EmailNames /\ "none" \notin Emails
  BY DEF TextLists, EmailNames, DeskParameters
<1>2. /\ Desk!NoLists \in Outcome /\ Sorted(Desk!NoLists) = 0 /\ Desk!NoLists.total = 0
      /\ Desk!NoLists.created = <<>>
  BY <1>1 DEF Desk!NoLists, Outcome, Sorted
<1>3. Desk!NoCall \in DeskCall /\ Desk!NoCall.at = "none" /\ Desk!NoCall.what = "none"
      /\ Desk!NoCall.answer = "none" /\ Desk!NoCall.todo = <<>>
  BY <1>1 DEF Desk!NoCall, DeskCall, Requests, Undertakings, CreateCodes
<1>4. /\ Desk!Desk \in DeskPage /\ Desk!Desk.lists = Desk!NoLists
      /\ Desk!Desk.call = Desk!NoCall /\ Desk!Desk.summary = Desk!NoLists
      /\ Desk!Desk.todo = <<>> /\ Desk!Desk.code = "none"
  BY <1>1, <1>2, <1>3, Flags DEF Desk!Desk, DeskPage
<1> QED BY <1>1, <1>2, <1>3, <1>4

LEMMA DeskFields ==
  ASSUME DeskInv, NEW d \in Desks
  PROVE  /\ page \in [Desks \cup Tabs -> DeskPage \cup VoterTab] /\ page[d] \in DeskPage
         /\ page[d].todo \in TextLists /\ page[d].lists \in Outcome
         /\ page[d].summary \in Outcome /\ page[d].call \in DeskCall
         /\ page[d].call.todo \in TextLists /\ page[d].call.answer \in CreateCodes
         /\ page[d].call.at \in Requests /\ page[d].call.what \in Undertakings
         /\ page[d].lists.created \in TextLists /\ page[d].summary.created \in TextLists
         /\ page[d].code \in EmailNames /\ page[d].busy \in Flag /\ page[d].gone \in Flag
         /\ Accounted(page[d]) /\ Claims(page[d]) \subseteq Invited
         /\ api \in [Emails -> InviteStatus]
         /\ past \in [orders : Nat, events : Nat, accepted : [Emails -> SUBSET Tabs]]
BY DEF DeskInv, DeskPage, DeskCall, Outcome

\* An order or an event counted leaves what was accepted as it was.
LEMMA DeskCounted ==
  ASSUME DeskInv, past' = past \/ Desk!Order \/ Desk!Event
  PROVE  /\ past' \in [orders : Nat, events : Nat, accepted : [Emails -> SUBSET Tabs]]
         /\ past'.accepted = past.accepted
<1>1. past \in [orders : Nat, events : Nat, accepted : [Emails -> SUBSET Tabs]]
  BY DEF DeskInv
<1> QED BY <1>1 DEF Desk!Order, Desk!Event

\* A step of one organizer's page; it may invite an email, which no page has claimed.
LEMMA DeskStep ==
  ASSUME DeskInv, DeskParameters, NEW d \in Desks, NEW q \in DeskPage, Accounted(q),
         page' = [page EXCEPT ![d] = q], past' = past \/ Desk!Order \/ Desk!Event,
         \/ api' = api /\ Claims(q) \subseteq Claims(page[d])
         \/ \E e \in Emails : /\ api[e] = "none" /\ api' = [api EXCEPT ![e] = "created"]
                              /\ Claims(q) \subseteq Claims(page[d]) \cup {e}
  PROVE  DeskInv'
<1> USE DEF DeskParameters
<1>1. /\ page \in [Desks \cup Tabs -> DeskPage \cup VoterTab]
      /\ api \in [Emails -> InviteStatus] /\ Claims(page[d]) \subseteq Invited
  BY DeskFields
<1>2. /\ page' \in [Desks \cup Tabs -> DeskPage \cup VoterTab] /\ page'[d] = q
      /\ \A o \in Desks \cup Tabs : o # d => page'[o] = page[o]
  BY <1>1
<1>3. /\ past' \in [orders : Nat, events : Nat, accepted : [Emails -> SUBSET Tabs]]
      /\ past'.accepted = past.accepted
  BY DeskCounted
<1>4. \A t \in Tabs : page'[t] = page[t] BY <1>2
<1>5. \A c \in Desks : page[c] \in DeskPage /\ Accounted(page[c])
  BY DeskFields
<1>6. \A c \in Desks : page'[c] \in DeskPage /\ Accounted(page'[c]) BY <1>2, <1>5
<1>7. \A c \in Desks : Claims(page[c]) \subseteq Invited
      /\ \A o \in Desks : c # o => Claims(page[c]) \cap Claims(page[o]) = {}
  BY DEF DeskInv
<1>8. CASE api' = api /\ Claims(q) \subseteq Claims(page[d])
  <2>1. Invited' = Invited BY <1>8 DEF Invited
  <2>2. \A c \in Desks : Claims(page'[c]) \subseteq Claims(page[c]) BY <1>2, <1>8
  <2>3. \A c \in Desks : Claims(page'[c]) \subseteq Invited' BY <2>1, <2>2, <1>7
  <2>4. \A c, o \in Desks : c # o => Claims(page'[c]) \cap Claims(page'[o]) = {}
    BY <2>2, <1>7
  <2>5. \A e \in Emails : /\ api[e] # "accepted" => past.accepted[e] = {}
                          /\ \A t, u \in past.accepted[e] : t = u
    BY DEF DeskInv
  <2>6. \A t \in Tabs : page[t] \in VoterTab /\ (page[t].answer = "sent" => page[t].email \in Emails)
    BY DEF DeskInv
  <2> QED BY <1>1, <1>2, <1>3, <1>4, <1>6, <1>8, <2>3, <2>4, <2>5, <2>6 DEF DeskInv
<1>9. ASSUME NEW e \in Emails, api[e] = "none", api' = [api EXCEPT ![e] = "created"],
             Claims(q) \subseteq Claims(page[d]) \cup {e}
      PROVE  DeskInv'
  <2>1. api' \in [Emails -> InviteStatus] /\ api'[e] = "created"
        /\ \A f \in Emails : f # e => api'[f] = api[f]
    BY <1>1, <1>9 DEF InviteStatus
  <2>2. Invited' = Invited \cup {e} /\ e \notin Invited BY <1>9, <2>1 DEF Invited
  <2>3. \A c \in Desks : c # d => Claims(page'[c]) = Claims(page[c]) BY <1>2
  <2>4. Claims(page'[d]) \subseteq Claims(page[d]) \cup {e} BY <1>2, <1>9
  <2>5. \A c \in Desks : Claims(page'[c]) \subseteq Invited' BY <2>2, <2>3, <2>4, <1>7
  <2>6. \A c, o \in Desks : c # o => Claims(page'[c]) \cap Claims(page'[o]) = {}
    BY <2>2, <2>3, <2>4, <1>7
  <2>7. ASSUME NEW f \in Emails
        PROVE  /\ api'[f] # "accepted" => past'.accepted[f] = {}
               /\ \A t, u \in past'.accepted[f] : t = u
    <3>1. /\ api[f] # "accepted" => past.accepted[f] = {}
          /\ \A t, u \in past.accepted[f] : t = u
      BY DEF DeskInv
    <3>2. api'[f] # "accepted" => api[f] # "accepted" BY <2>1, <1>9
    <3> QED BY <3>1, <3>2, <1>3
  <2>8. \A t \in Tabs : page'[t] \in VoterTab /\ (page'[t].answer = "sent" => page'[t].email \in Emails)
    BY <1>4 DEF DeskInv
  <2> HIDE DEF DeskParameters
  <2> QED BY <1>2, <1>3, <1>6, <2>1, <2>5, <2>6, <2>7, <2>8 DEF DeskInv
<1> QED BY <1>8, <1>9

\* A request that is sent.
LEMMA SentIs ==
  ASSUME DeskParameters, NEW w \in Undertakings, NEW l \in TextLists
  PROVE  /\ Desk!Sent(w, l) \in DeskCall /\ Desk!Sent(w, l).at = "sent"
         /\ Desk!Sent(w, l).what = w /\ Desk!Sent(w, l).todo = l
         /\ Desk!Sent(w, l).answer = "none"
<1> DEFINE k == Desk!NoCall
           a == "sent"
           n == [k EXCEPT !.at = a, !.what = w, !.todo = l]
<1>1. k \in DeskCall /\ a \in Requests /\ k.answer = "none" BY EmptyDesk DEF Requests
<1>2. Desk!Sent(w, l) = n /\ n = [k EXCEPT !.at = a, !.what = w, !.todo = l]
  BY DEF Desk!Sent
<1> HIDE DEF k, a, n
<1>3. n \in DeskCall /\ n.at = a /\ n.what = w /\ n.todo = l /\ n.answer = k.answer
  BY <1>1, <1>2 DEF DeskCall
<1> QED BY <1>1, <1>2, <1>3 DEF a

LEMMA WhatIs == Undertakings = {"none", "single", "bulk", "import"}
                /\ Requests = {"none", "sent", "done"}
BY DEF Undertakings, Requests

\* Without an answer, a code or a created text a page claims what its summary says.
LEMMA ClaimsOfSummary ==
  ASSUME DeskParameters, NEW p, NEW q, q.lists.created = <<>>, q.call.answer # "created",
         q.code = "none", q.summary = p.summary \/ q.summary.created = <<>>
  PROVE  Claims(q) \subseteq Claims(p)
BY DEF Claims, DeskParameters

LEMMA InviteKeeps == ASSUME DeskInv, DeskParameters, NEW d \in Desks, Desk!Invite(d) PROVE DeskInv'
<1>1. PICK t \in Texts \cap Valid :
        page' = [page EXCEPT ![d] = [Desk!Desk EXCEPT !.busy = TRUE,
                                       !.call = Desk!Sent("single", <<t>>)]]
  BY DEF Desk!Invite
<1> DEFINE p == Desk!Desk
           b == TRUE
           l == <<t>>
           c == Desk!Sent("single", l)
           q == [p EXCEPT !.busy = b, !.call = c]
<1>2. api' = api /\ Desk!Order /\ page' = [page EXCEPT ![d] = q] BY <1>1 DEF Desk!Invite
<1>3. l \in TextLists /\ l # <<>> /\ b \in Flag
  <2>1. t \in Texts OBVIOUS
  <2>2. <<t>> \in Seq(Texts) /\ <<t>> # <<>> BY <2>1
  <2> QED BY <2>2, Flags DEF TextLists
<1>4. c \in DeskCall /\ c.at = "sent" /\ c.what = "single" /\ c.todo = l /\ c.answer = "none"
  BY <1>3, SentIs, WhatIs
<1>5. /\ p \in DeskPage /\ p.lists = Desk!NoLists /\ p.summary = Desk!NoLists
      /\ p.todo = <<>> /\ p.code = "none" /\ Desk!NoLists.created = <<>>
      /\ Sorted(Desk!NoLists) = 0 /\ Desk!NoLists.total = 0
  BY EmptyDesk
<1> HIDE DEF p, b, l, c
<1>6. /\ q \in DeskPage /\ q.lists = p.lists /\ q.summary = p.summary /\ q.todo = p.todo
      /\ q.code = p.code /\ q.call = c
  BY <1>3, <1>4, <1>5 DEF DeskPage
<1> HIDE DEF q
<1>7. Accounted(q) BY <1>3, <1>4, <1>5, <1>6 DEF Accounted
<1>8. Claims(q) \subseteq Claims(page[d]) BY <1>4, <1>5, <1>6, ClaimsOfSummary
<1> QED BY <1>2, <1>6, <1>7, <1>8, DeskStep

LEMMA SamePicked == ASSUME NEW l, NEW P PROVE Desk!Picked(l, P) = Picked(l, P)
BY Zenon DEF Desk!Picked, Picked

LEMMA UniqueIsList ==
  ASSUME DeskParameters, NEW l \in Lists
  PROVE  Desk!UniqueEmails(l) \in TextLists
<1>1. l \in Seq(Texts) BY DEF DeskParameters
<1> DEFINE P == {i \in DOMAIN l :
                   /\ l[i] \notin Blank
                   /\ \A j \in 1..(i - 1) : EmailOf[l[j]] # EmailOf[l[i]]}
<1>2. Desk!UniqueEmails(l) = Desk!Picked(l, P) BY DEF Desk!UniqueEmails
<1> HIDE DEF P
<1>3. Desk!Picked(l, P) = Picked(l, P) BY SamePicked
<1> QED BY <1>1, <1>2, <1>3, PickedAddUp DEF TextLists

LEMMA InviteManyKeeps ==
  ASSUME DeskInv, DeskParameters, NEW d \in Desks, Desk!InviteMany(d) PROVE DeskInv'
<1>1. PICK list \in Lists :
        LET unique == Desk!UniqueEmails(list)
            valid == {i \in DOMAIN unique : unique[i] \in Valid}
            invalid == DOMAIN unique \ valid
        IN /\ unique # <<>>
           /\ page' = [page EXCEPT ![d] =
                [Desk!Desk EXCEPT !.busy = TRUE, !.todo = Desk!Picked(unique, valid),
                   !.summary = page[d].summary,
                   !.lists = [Desk!NoLists EXCEPT !.total = Len(unique),
                                                  !.skipped = Desk!Picked(unique, invalid)]]]
  BY DEF Desk!InviteMany
<1> DEFINE unique == Desk!UniqueEmails(list)
           valid == {i \in DOMAIN unique : unique[i] \in Valid}
           rest == DOMAIN unique \ valid
           todo == Desk!Picked(unique, valid)
           skipped == Desk!Picked(unique, rest)
           total == Len(unique)
           e == Desk!NoLists
           o == [e EXCEPT !.total = total, !.skipped = skipped]
           p == Desk!Desk
           b == TRUE
           s == page[d].summary
           q == [p EXCEPT !.busy = b, !.todo = todo, !.summary = s, !.lists = o]
<1>2. api' = api /\ Desk!Order /\ page' = [page EXCEPT ![d] = q]
  BY <1>1 DEF Desk!InviteMany
<1>3. unique \in TextLists BY UniqueIsList
<1>4. todo \in TextLists /\ skipped \in TextLists /\ Len(todo) + Len(skipped) = total
      /\ total \in Nat
  <2> HIDE DEF unique, valid
  <2>1. todo \in TextLists /\ Len(todo) + Len(skipped) = total
    BY <1>3, PickedAddUp, SamePicked DEF TextLists
  <2>2. skipped \in TextLists
    <3> HIDE DEF rest
    <3> QED BY <1>3, PickedAddUp, SamePicked DEF TextLists
  <2> QED BY <1>3, <2>1, <2>2 DEF TextLists
<1>5. /\ p \in DeskPage /\ p.call = Desk!NoCall /\ p.code = "none"
      /\ e \in Outcome /\ e.created = <<>> /\ e.registration = <<>> /\ e.failed = <<>>
      /\ e.blank = 0
      /\ Desk!NoCall.at = "none" /\ Desk!NoCall.what = "none" /\ Desk!NoCall.answer = "none"
      /\ b \in Flag /\ s \in Outcome /\ Accounted(page[d])
  BY EmptyDesk, Flags, DeskFields DEF Desk!NoLists
<1> HIDE DEF unique, todo, skipped, total, e, p, b
<1>6. /\ o \in Outcome /\ o.total = total /\ o.skipped = skipped /\ o.created = e.created
      /\ o.registration = e.registration /\ o.failed = e.failed /\ o.blank = e.blank
  BY <1>4, <1>5 DEF Outcome
<1> HIDE DEF o, s
<1>7. /\ q \in DeskPage /\ q.lists = o /\ q.summary = s /\ q.todo = todo
      /\ q.code = p.code /\ q.call = p.call
  BY <1>4, <1>5, <1>6 DEF DeskPage
<1> HIDE DEF q
<1>8. Accounted(q)
  <2>1. Sorted(s) = s.total BY <1>5 DEF Accounted, s
  <2>2. Len(todo) \in Nat /\ Len(skipped) \in Nat BY <1>4 DEF TextLists
  <2>3. Sorted(o) = Len(skipped)
    <3>1. Len(o.created) = 0 /\ Len(o.registration) = 0 /\ Len(o.failed) = 0
          /\ Len(o.skipped) = Len(skipped) /\ o.blank = 0
      BY <1>5, <1>6
    <3> QED BY <2>2, <3>1 DEF Sorted
  <2>4. Sorted(o) + Len(todo) = total BY <2>2, <2>3, <1>4
  <2> QED BY <2>1, <2>4, <1>5, <1>6, <1>7 DEF Accounted
<1>9. Claims(q) \subseteq Claims(page[d])
  BY <1>5, <1>6, <1>7, ClaimsOfSummary DEF s
<1> QED BY <1>2, <1>7, <1>8, <1>9, DeskStep

LEMMA ImportKeeps == ASSUME DeskInv, DeskParameters, NEW d \in Desks, Desk!Import(d) PROVE DeskInv'
<1>1. PICK list \in Lists :
        page' = [page EXCEPT ![d] =
          [Desk!Desk EXCEPT !.busy = TRUE, !.call = Desk!Sent("import", list),
             !.lists = [Desk!NoLists EXCEPT !.total = Len(list)], !.summary = page[d].summary]]
  BY DEF Desk!Import
<1> DEFINE total == Len(list)
           e == Desk!NoLists
           o == [e EXCEPT !.total = total]
           p == Desk!Desk
           b == TRUE
           s == page[d].summary
           c == Desk!Sent("import", list)
           q == [p EXCEPT !.busy = b, !.call = c, !.lists = o, !.summary = s]
<1>2. api' = api /\ Desk!Order /\ page' = [page EXCEPT ![d] = q]
  BY <1>1 DEF Desk!Import
<1>3. list \in TextLists /\ total \in Nat BY DEF DeskParameters, TextLists
<1>4. c \in DeskCall /\ c.at = "sent" /\ c.what = "import" /\ c.todo = list
      /\ c.answer = "none"
  BY <1>3, SentIs, WhatIs
<1>5. /\ p \in DeskPage /\ p.code = "none" /\ p.todo = <<>>
      /\ e \in Outcome /\ e.created = <<>> /\ Sorted(e) = 0
      /\ b \in Flag /\ s \in Outcome /\ Accounted(page[d])
  BY EmptyDesk, Flags, DeskFields
<1> HIDE DEF total, e, p, b, c
<1>6. /\ o \in Outcome /\ o.total = total /\ o.skipped = e.skipped /\ o.created = e.created
      /\ o.registration = e.registration /\ o.failed = e.failed /\ o.blank = e.blank
  BY <1>3, <1>5 DEF Outcome
<1> HIDE DEF o, s
<1>7. /\ q \in DeskPage /\ q.lists = o /\ q.summary = s /\ q.todo = p.todo
      /\ q.code = p.code /\ q.call = c
  BY <1>4, <1>5, <1>6 DEF DeskPage
<1> HIDE DEF q
<1>8. Accounted(q)
  <2>1. Sorted(s) = s.total BY <1>5 DEF Accounted, s
  <2>4. Sorted(o) = Sorted(e) BY <1>6 DEF Sorted
  <2>2. Sorted(o) = 0 BY <1>5, <2>4
  <2>3. Sorted(o) + Len(list) = total BY <2>2, <1>3 DEF total
  <2> QED BY <2>1, <2>3, <1>4, <1>5, <1>6, <1>7 DEF Accounted
<1>9. Claims(q) \subseteq Claims(page[d])
  BY <1>4, <1>5, <1>6, <1>7, ClaimsOfSummary DEF s
<1> QED BY <1>2, <1>7, <1>8, <1>9, DeskStep

LEMMA HeadIs ==
  ASSUME DeskParameters, NEW l \in TextLists, l # <<>>
  PROVE  /\ Head(l) \in Texts /\ EmailOf[Head(l)] \in Emails /\ Tail(l) \in TextLists
         /\ Len(Tail(l)) = Len(l) - 1 /\ Len(l) \in Nat /\ <<Head(l)>> \in TextLists
         /\ Head(<<Head(l)>>) = Head(l) /\ <<Head(l)>> # <<>>
<1>1. Head(l) \in Texts /\ Tail(l) \in Seq(Texts) /\ Len(Tail(l)) = Len(l) - 1 /\ Len(l) \in Nat
  BY DEF TextLists
<1> DEFINE x == Head(l)
<1>2. x \in Texts /\ EmailOf[x] \in Emails BY <1>1 DEF DeskParameters
<1> HIDE DEF x
<1>3. <<x>> \in Seq(Texts) /\ Head(<<x>>) = x /\ <<x>> # <<>> BY <1>2
<1> QED BY <1>1, <1>2, <1>3 DEF x, TextLists

LEMMA DeskCallOnly ==
  ASSUME NEW p \in DeskPage, NEW c \in DeskCall, NEW q, q = [p EXCEPT !.call = c]
  PROVE  /\ q \in DeskPage /\ q.call = c /\ q.todo = p.todo /\ q.lists = p.lists
         /\ q.summary = p.summary /\ q.code = p.code
BY DEF DeskPage

LEMMA SendNextKeeps ==
  ASSUME DeskInv, DeskParameters, NEW d \in Desks, Desk!SendNext(d) PROVE DeskInv'
<1> DEFINE p == page[d]
           l == <<Head(p.todo)>>
           c == Desk!Sent("bulk", l)
           q == [p EXCEPT !.call = c]
<1>1. p \in DeskPage /\ p.todo \in TextLists /\ Accounted(p)
      /\ page \in [Desks \cup Tabs -> DeskPage \cup VoterTab]
  BY DeskFields
<1>2. /\ page' = [page EXCEPT ![d] = q] /\ api' = api /\ past' = past
      /\ p.todo # <<>> /\ p.call = Desk!NoCall
  BY <1>1 DEF Desk!SendNext
<1>3. l \in TextLists BY <1>1, <1>2, HeadIs
<1>4. c \in DeskCall /\ c.at = "sent" /\ c.what = "bulk" /\ c.todo = l /\ c.answer = "none"
  BY <1>3, SentIs, WhatIs
<1>5. p.call.what = "none" BY <1>2, EmptyDesk
<1> HIDE DEF p, c, q
<1>6. /\ q \in DeskPage /\ q.call = c /\ q.todo = p.todo /\ q.lists = p.lists
      /\ q.summary = p.summary /\ q.code = p.code
  BY <1>1, <1>4, DeskCallOnly DEF q
<1>7. Accounted(q) BY <1>1, <1>2, <1>4, <1>5, <1>6 DEF Accounted
<1>8. Claims(q) \subseteq Claims(p) BY <1>4, <1>6 DEF Claims
<1> QED BY <1>2, <1>6, <1>7, <1>8, DeskStep DEF p

LEMMA ServerCreatesKeeps ==
  ASSUME DeskInv, DeskParameters, NEW d \in Desks, Desk!ServerCreates(d) PROVE DeskInv'
<1> DEFINE p == page[d]
           k == p.call
           e == EmailOf[Head(k.todo)]
           w == Desk!CreateCode(e)
           a == "done"
           c == [k EXCEPT !.at = a, !.answer = w]
           q == [p EXCEPT !.call = c]
<1>1. p \in DeskPage /\ k \in DeskCall /\ k.todo \in TextLists /\ Accounted(p)
      /\ page \in [Desks \cup Tabs -> DeskPage \cup VoterTab]
      /\ api \in [Emails -> InviteStatus]
  BY DeskFields
<1>2. /\ api' = Desk!Created(e) /\ past' = past
      /\ page' = [page EXCEPT ![d].call.at = a, ![d].call.answer = w]
      /\ k.at = "sent" /\ k.what \in {"single", "bulk"}
  BY DEF Desk!ServerCreates
<1>3. page' = [page EXCEPT ![d] = q] BY <1>1, <1>2
<1>4. k.todo # <<>>
  <2>1. k.what = "single" => k.todo # <<>> BY <1>1 DEF Accounted
  <2>2. k.what = "bulk" => p.todo # <<>> /\ k.todo = <<Head(p.todo)>> BY <1>1 DEF Accounted
  <2> HIDE DEF k, p
  <2> QED BY <2>1, <2>2, <1>2
<1>5. e \in Emails BY <1>1, <1>4, HeadIs
<1>6. /\ w \in CreateCodes /\ (w = "created" => api[e] = "none")
      /\ w \in {"registration_required", "email_already_invited", "created"}
      /\ api' = IF w = "created" THEN [api EXCEPT ![e] = "created"] ELSE api
  BY <1>2, DeskCodes
<1>7. w # "none" BY <1>6
<1> HIDE DEF w
<1>8. c \in DeskCall /\ c.at = "done" /\ c.answer = w /\ c.what = k.what /\ c.todo = k.todo
  <2>1. a \in Requests /\ c = [k EXCEPT !.at = a, !.answer = w] BY WhatIs
  <2>2. c \in DeskCall /\ c.at = a /\ c.answer = w /\ c.what = k.what /\ c.todo = k.todo
    <3> HIDE DEF k, a, c
    <3> QED BY <1>1, <1>6, <2>1 DEF DeskCall
  <2> QED BY <2>2
<1> HIDE DEF c, q, p
<1>9. /\ q \in DeskPage /\ q.call = c /\ q.todo = p.todo /\ q.lists = p.lists
      /\ q.summary = p.summary /\ q.code = p.code
  BY <1>1, <1>8, DeskCallOnly DEF q
<1>10. Accounted(q) BY <1>1, <1>2, <1>7, <1>8, <1>9 DEF Accounted
<1>11. Claims(q) \subseteq Claims(p) \cup {f \in Emails : w = "created" /\ f = e}
  BY <1>8, <1>9 DEF Claims
<1>12. CASE w = "created"
  <2>1. Claims(q) \subseteq Claims(p) \cup {e} BY <1>11
  <2> QED BY <1>12, <2>1, <1>2, <1>3, <1>5, <1>6, <1>9, <1>10, DeskStep DEF p
<1>13. CASE w # "created"
  <2>1. Claims(q) \subseteq Claims(p) BY <1>11, <1>13
  <2> QED BY <1>13, <2>1, <1>2, <1>3, <1>6, <1>9, <1>10, DeskStep DEF p
<1> QED BY <1>12, <1>13

\* The emails of a list to which a text is added.
LEMMA EmailsOfAppend ==
  ASSUME NEW l \in TextLists, NEW x \in Texts
  PROVE  {EmailOf[Append(l, x)[i]] : i \in DOMAIN Append(l, x)}
           \subseteq {EmailOf[l[i]] : i \in DOMAIN l} \cup {EmailOf[x]}
<1> DEFINE m == Append(l, x)
<1>1. /\ DOMAIN l = 1..Len(l) /\ DOMAIN m = 1..(Len(l) + 1) /\ Len(l) \in Nat
      /\ m[Len(l) + 1] = x /\ \A i \in 1..Len(l) : m[i] = l[i]
  BY DEF TextLists
<1> HIDE DEF m
<1> SUFFICES ASSUME NEW i \in DOMAIN m
             PROVE  EmailOf[m[i]] \in {EmailOf[l[j]] : j \in DOMAIN l} \cup {EmailOf[x]}
  BY DEF m
<1>2. CASE i \in 1..Len(l) BY <1>1, <1>2
<1>3. CASE i = Len(l) + 1 BY <1>1, <1>3
<1> QED BY <1>1, <1>2, <1>3

LEMMA ServerPassesOverKeeps ==
  ASSUME DeskInv, DeskParameters, NEW d \in Desks, Desk!ServerPassesOver(d) PROVE DeskInv'
<1> DEFINE p == page[d]
           k == p.call
           o == p.lists
           n == o.blank + 1
           f == [o EXCEPT !.blank = n]
           r == Tail(k.todo)
           c == [k EXCEPT !.todo = r]
           q == [p EXCEPT !.lists = f, !.call = c]
<1>1. p \in DeskPage /\ k \in DeskCall /\ k.todo \in TextLists /\ Accounted(p)
      /\ page \in [Desks \cup Tabs -> DeskPage \cup VoterTab]
      /\ o \in Outcome /\ o.blank \in Nat
  BY DeskFields DEF Outcome
<1>2. /\ page' = [page EXCEPT ![d].lists.blank = n, ![d].call.todo = r]
      /\ api' = api /\ past' = past
      /\ k.at = "sent" /\ k.what = "import" /\ k.todo # <<>>
  BY DEF Desk!ServerPassesOver
<1>3. page' = [page EXCEPT ![d] = q] BY <1>1, <1>2
<1>4. r \in TextLists /\ Len(r) = Len(k.todo) - 1 /\ Len(k.todo) \in Nat
  BY <1>1, <1>2, HeadIs
<1>5. n \in Nat BY <1>1
<1>6. f = [o EXCEPT !.blank = n] OBVIOUS
<1> HIDE DEF f
<1>7. /\ f \in Outcome /\ f.total = o.total /\ f.created = o.created
      /\ f.registration = o.registration /\ f.skipped = o.skipped /\ f.failed = o.failed
      /\ f.blank = n
  <2> HIDE DEF n, o
  <2> QED BY <1>1, <1>5, <1>6 DEF Outcome
<1>8. Sorted(f) = Sorted(o) + 1
  <2> DEFINE a == Len(o.created)
             b == Len(o.registration)
             g == Len(o.skipped)
             h == Len(o.failed)
             z == o.blank
  <2>1. /\ o.created \in Seq(Texts) /\ o.registration \in Seq(Texts)
        /\ o.skipped \in Seq(Texts) /\ o.failed \in Seq(Texts)
    BY <1>1 DEF Outcome, TextLists
  <2>2. a \in Nat /\ b \in Nat /\ g \in Nat /\ h \in Nat /\ z \in Nat BY <2>1, <1>1
  <2>3. Sorted(f) = a + b + g + h + (z + 1) BY <1>7 DEF Sorted
  <2>4. Sorted(o) = a + b + g + h + z BY DEF Sorted
  <2> HIDE DEF a, b, g, h, z
  <2> QED BY <2>2, <2>3, <2>4
<1>9. c \in DeskCall /\ c.todo = r /\ c.at = k.at /\ c.what = k.what /\ c.answer = k.answer
  <2>1. c = [k EXCEPT !.todo = r] OBVIOUS
  <2> HIDE DEF k, r, c
  <2> QED BY <1>1, <1>4, <2>1 DEF DeskCall
<1>10. q = [p EXCEPT !.lists = f, !.call = c] OBVIOUS
<1> HIDE DEF r, c, q, n
<1>11. /\ q \in DeskPage /\ q.call = c /\ q.todo = p.todo /\ q.lists = f
       /\ q.summary = p.summary /\ q.code = p.code
  <2> HIDE DEF p, k, o
  <2> QED BY <1>1, <1>7, <1>9, <1>10 DEF DeskPage
<1>12. /\ Sorted(p.summary) = p.summary.total
       /\ Sorted(o) + Len(k.todo) = o.total /\ p.todo = <<>>
       /\ k.answer # "created"
  BY <1>1, <1>2 DEF Accounted
<1>13. Accounted(q)
  <2>2. Sorted(f) + Len(r) = f.total
    <3>2. Sorted(o) \in Nat BY <1>1, SortedIsNat
    <3> DEFINE m == Sorted(o)
               i == Len(k.todo)
    <3>3. m \in Nat /\ i \in Nat /\ m + i = o.total /\ Sorted(f) = m + 1
          /\ Len(r) = i - 1 /\ f.total = o.total
      BY <3>2, <1>12, <1>4, <1>7, <1>8
    <3> HIDE DEF m, i
    <3> QED BY <3>3
  <2> HIDE DEF p
  <2> QED BY <2>2, <1>2, <1>9, <1>11, <1>12 DEF Accounted
<1>14. Claims(q) \subseteq Claims(p) BY <1>7, <1>9, <1>11, <1>12 DEF Claims
<1> QED BY <1>2, <1>3, <1>11, <1>13, <1>14, DeskStep

LEMMA ServerImportsKeeps ==
  ASSUME DeskInv, DeskParameters, NEW d \in Desks, Desk!ServerImports(d) PROVE DeskInv'
<1> DEFINE p == page[d]
           k == p.call
           x == Head(k.todo)
           e == EmailOf[x]
           o == p.lists
           w == Desk!ImportCode(o.created \o o.registration \o o.skipped \o o.failed, x)
           f == Desk!Filed(o, w, x)
           r == Tail(k.todo)
           c == [k EXCEPT !.todo = r]
           q == [p EXCEPT !.lists = f, !.call = c]
<1>1. p \in DeskPage /\ k \in DeskCall /\ k.todo \in TextLists /\ Accounted(p)
      /\ page \in [Desks \cup Tabs -> DeskPage \cup VoterTab]
      /\ api \in [Emails -> InviteStatus] /\ o \in Outcome /\ o.created \in TextLists
  BY DeskFields
<1>2. /\ api' = IF w = "created" THEN Desk!Created(e) ELSE api
      /\ page' = [page EXCEPT ![d].lists = f, ![d].call.todo = r]
      /\ past' = past
      /\ k.at = "sent" /\ k.what = "import" /\ k.todo # <<>>
  BY DEF Desk!ServerImports
<1>3. page' = [page EXCEPT ![d] = q] BY <1>1, <1>2
<1>4. x \in Texts /\ e \in Emails /\ r \in TextLists /\ Len(r) = Len(k.todo) - 1
      /\ Len(k.todo) \in Nat
  BY <1>1, <1>2, HeadIs
<1>5. /\ w \in {"created", "registration_required", "email_already_invited",
                "invalid_email", "failed"}
      /\ w = "created" => Desk!CreateCode(e) = "created"
  BY DeskCodes DEF Desk!ImportCode
<1>6. w = "created" => api[e] = "none" /\ api' = [api EXCEPT ![e] = "created"]
  BY <1>2, <1>5, DeskCodes
<1>7. w # "created" => api' = api BY <1>2
<1> HIDE DEF w
<1>8. /\ f \in Outcome /\ f.total = o.total /\ Sorted(f) = Sorted(o) + 1
      /\ f.created = IF w = "created" THEN Append(o.created, x) ELSE o.created
  BY <1>1, <1>4, <1>5, FiledFields
<1>9. c \in DeskCall /\ c.todo = r /\ c.at = k.at /\ c.what = k.what /\ c.answer = k.answer
  <2>1. c = [k EXCEPT !.todo = r] OBVIOUS
  <2> HIDE DEF k, r, c
  <2> QED BY <1>1, <1>4, <2>1 DEF DeskCall
<1>10. q = [p EXCEPT !.lists = f, !.call = c] OBVIOUS
<1> HIDE DEF f, r, c, q, x
<1>11. /\ q \in DeskPage /\ q.call = c /\ q.todo = p.todo /\ q.lists = f
       /\ q.summary = p.summary /\ q.code = p.code
  <2> HIDE DEF p, k, o
  <2> QED BY <1>1, <1>8, <1>9, <1>10 DEF DeskPage
<1>12. Accounted(q)
  <2>1. /\ Sorted(p.summary) = p.summary.total
        /\ Sorted(o) + Len(k.todo) = o.total /\ p.todo = <<>>
        /\ k.answer = "created" => k.what \in {"single", "bulk"} /\ k.at = "done"
    BY <1>1, <1>2 DEF Accounted
  <2>2. Sorted(f) + Len(r) = f.total
    <3>2. Sorted(o) \in Nat BY <1>1, SortedIsNat
    <3> DEFINE n == Sorted(o)
               m == Len(k.todo)
    <3>3. n \in Nat /\ m \in Nat /\ n + m = o.total /\ Sorted(f) = n + 1
          /\ Len(r) = m - 1 /\ f.total = o.total
      BY <3>2, <2>1, <1>4, <1>8
    <3> HIDE DEF n, m
    <3> QED BY <3>3
  <2> HIDE DEF p
  <2> QED BY <2>1, <2>2, <1>2, <1>9, <1>11 DEF Accounted
<1>13. {EmailOf[f.created[i]] : i \in DOMAIN f.created}
         \subseteq {EmailOf[o.created[i]] : i \in DOMAIN o.created}
                   \cup {g \in Emails : w = "created" /\ g = e}
  <2>1. CASE w = "created"
    <3>1. f.created = Append(o.created, x) BY <1>8, <2>1
    <3>2. {EmailOf[f.created[i]] : i \in DOMAIN f.created}
            \subseteq {EmailOf[o.created[i]] : i \in DOMAIN o.created} \cup {EmailOf[x]}
      BY <3>1, <1>1, <1>4, EmailsOfAppend
    <3> QED BY <3>2, <2>1, <1>4
  <2>2. CASE w # "created"
    <3>1. f.created = o.created BY <1>8, <2>2
    <3> QED BY <3>1
  <2> QED BY <2>1, <2>2
<1>14. Claims(q) \subseteq Claims(p) \cup {g \in Emails : w = "created" /\ g = e}
  <2>1. q.call.answer # "created"
    <3>1. k.answer # "created" BY <1>1, <1>2 DEF Accounted
    <3> QED BY <3>1, <1>9, <1>11
  <2> QED BY <2>1, <1>11, <1>13 DEF Claims
<1>15. CASE w = "created"
  <2>1. Claims(q) \subseteq Claims(p) \cup {e} BY <1>14
  <2> HIDE DEF e
  <2> QED BY <1>15, <2>1, <1>2, <1>3, <1>4, <1>6, <1>11, <1>12, DeskStep
<1>16. CASE w # "created"
  <2>1. Claims(q) \subseteq Claims(p) BY <1>14, <1>16
  <2> QED BY <1>16, <2>1, <1>2, <1>3, <1>7, <1>11, <1>12, DeskStep
<1> QED BY <1>15, <1>16

\* The single invitation's answer: the email created is the one whose code is shown.
LEMMA SingleEndsKeeps ==
  ASSUME DeskInv, DeskParameters, NEW d \in Desks, Desk!SingleEnds(d) PROVE DeskInv'
<1> DEFINE k == page[d].call
           e == EmailOf[Head(k.todo)]
           n == IF k.answer = "created" THEN e ELSE "none"
           p == Desk!Desk
           q == [p EXCEPT !.code = n]
<1>1. k \in DeskCall /\ k.todo \in TextLists /\ Accounted(page[d]) BY DeskFields
<1>2. page' = [page EXCEPT ![d] = q] /\ api' = api /\ past' = past
      /\ k.what = "single"
  BY DEF Desk!SingleEnds
<1>3. e \in Emails
  <2>1. k.todo # <<>> BY <1>1, <1>2 DEF Accounted
  <2> QED BY <1>1, <2>1, HeadIs
<1>4. n \in EmailNames BY <1>3 DEF EmailNames
<1>5. n \in Emails => k.answer = "created" /\ n = e BY DEF DeskParameters
<1>6. /\ p \in DeskPage /\ p.lists = Desk!NoLists /\ p.summary = Desk!NoLists
      /\ p.todo = <<>> /\ p.call = Desk!NoCall /\ Desk!NoLists.created = <<>>
      /\ Sorted(Desk!NoLists) = 0 /\ Desk!NoLists.total = 0
      /\ Desk!NoCall.at = "none" /\ Desk!NoCall.what = "none" /\ Desk!NoCall.answer = "none"
  BY EmptyDesk
<1> HIDE DEF n, p
<1>7. /\ q \in DeskPage /\ q.lists = p.lists /\ q.summary = p.summary /\ q.todo = p.todo
      /\ q.code = n /\ q.call = p.call
  BY <1>4, <1>6 DEF DeskPage
<1> HIDE DEF q
<1>8. Accounted(q) BY <1>6, <1>7 DEF Accounted
<1>9. Claims(q) \subseteq Claims(page[d])
  <2>1. Claims(q) \subseteq {f \in Emails : f = n} BY <1>6, <1>7 DEF Claims
  <2>2. n \in Emails => n \in Claims(page[d]) BY <1>3, <1>5 DEF Claims
  <2> QED BY <2>1, <2>2
<1> QED BY <1>2, <1>7, <1>8, <1>9, DeskStep

LEMMA BulkGoesOnKeeps ==
  ASSUME DeskInv, DeskParameters, NEW d \in Desks, Desk!BulkGoesOn(d) PROVE DeskInv'
<1> DEFINE p == page[d]
           k == p.call
           x == Head(p.todo)
           o == p.lists
           w == k.answer
           f == Desk!Filed(o, w, x)
           r == Tail(p.todo)
           c == Desk!NoCall
           q == [p EXCEPT !.lists = f, !.todo = r, !.call = c]
<1>1. p \in DeskPage /\ k \in DeskCall /\ p.todo \in TextLists /\ Accounted(p)
      /\ page \in [Desks \cup Tabs -> DeskPage \cup VoterTab]
      /\ o \in Outcome /\ o.created \in TextLists /\ w \in CreateCodes
  BY DeskFields
<1>2. /\ api' = api /\ past' = past
      /\ page' = [page EXCEPT ![d].lists = f, ![d].todo = r, ![d].call = c]
      /\ k.at = "done" /\ k.what = "bulk"
  BY DEF Desk!BulkGoesOn
<1>3. page' = [page EXCEPT ![d] = q] BY <1>1, <1>2
<1>4. /\ Sorted(o) + Len(p.todo) = o.total /\ p.todo # <<>> /\ k.todo = <<x>>
      /\ Sorted(p.summary) = p.summary.total /\ w # "none"
  BY <1>1, <1>2 DEF Accounted
<1>5. x \in Texts /\ EmailOf[x] \in Emails /\ r \in TextLists /\ Len(r) = Len(p.todo) - 1
      /\ Len(p.todo) \in Nat /\ Head(<<x>>) = x
  BY <1>1, <1>4, HeadIs
<1>6. w \in {"created", "registration_required", "email_already_invited",
             "invalid_email", "failed"}
  BY <1>1, <1>4 DEF CreateCodes
<1>7. Head(k.todo) = x BY <1>4, <1>5
<1>8. /\ f \in Outcome /\ f.total = o.total /\ Sorted(f) = Sorted(o) + 1
      /\ f.created = IF w = "created" THEN Append(o.created, x) ELSE o.created
  BY <1>1, <1>5, <1>6, FiledFields
<1>9. c \in DeskCall /\ c.at = "none" /\ c.what = "none" /\ c.answer = "none" BY EmptyDesk
<1>10. q = [p EXCEPT !.lists = f, !.todo = r, !.call = c] OBVIOUS
<1> HIDE DEF f, r, c, q, x
<1>11. /\ q \in DeskPage /\ q.call = c /\ q.todo = r /\ q.lists = f
       /\ q.summary = p.summary /\ q.code = p.code
  <2> HIDE DEF p, k, o, w
  <2> QED BY <1>1, <1>5, <1>8, <1>9, <1>10 DEF DeskPage
<1>12. Accounted(q)
  <2>2. Sorted(f) + Len(r) = f.total
    <3>2. Sorted(o) \in Nat BY <1>1, SortedIsNat
    <3> DEFINE n == Sorted(o)
               m == Len(p.todo)
    <3>3. n \in Nat /\ m \in Nat /\ n + m = o.total /\ Sorted(f) = n + 1
          /\ Len(r) = m - 1 /\ f.total = o.total
      BY <3>2, <1>4, <1>5, <1>8
    <3> HIDE DEF n, m
    <3> QED BY <3>3
  <2> HIDE DEF p
  <2> QED BY <2>2, <1>4, <1>9, <1>11 DEF Accounted
<1>13. {EmailOf[f.created[i]] : i \in DOMAIN f.created}
         \subseteq {EmailOf[o.created[i]] : i \in DOMAIN o.created}
                   \cup {g \in Emails : w = "created" /\ g = EmailOf[x]}
  <2>1. CASE w = "created"
    <3>1. f.created = Append(o.created, x) BY <1>8, <2>1
    <3>2. {EmailOf[f.created[i]] : i \in DOMAIN f.created}
            \subseteq {EmailOf[o.created[i]] : i \in DOMAIN o.created} \cup {EmailOf[x]}
      BY <3>1, <1>1, <1>5, EmailsOfAppend
    <3> QED BY <3>2, <2>1, <1>5
  <2>2. CASE w # "created"
    <3>1. f.created = o.created BY <1>8, <2>2
    <3> QED BY <3>1
  <2> QED BY <2>1, <2>2
<1>14. Claims(q) \subseteq Claims(p) BY <1>7, <1>9, <1>11, <1>13 DEF Claims
<1> QED BY <1>2, <1>3, <1>11, <1>12, <1>14, DeskStep

LEMMA SummariseKeeps ==
  ASSUME DeskInv, DeskParameters, NEW d \in Desks, Desk!Summarise(d) PROVE DeskInv'
<1> DEFINE o == page[d].lists
           p == Desk!Desk
           q == [p EXCEPT !.summary = o]
<1>1. o \in Outcome /\ Accounted(page[d]) BY DeskFields
<1>2. page' = [page EXCEPT ![d] = q] /\ api' = api /\ past' = past
  BY DEF Desk!Summarise
<1>3. Sorted(o) = o.total
  <2>1. /\ page[d].todo = <<>>
        /\ \/ page[d].call.what = "none"
           \/ page[d].call.what = "import" /\ page[d].call.todo = <<>>
    BY EmptyDesk DEF Desk!Summarise
  <2>2. Sorted(o) + Len(<<>>) = o.total BY <1>1, <2>1 DEF Accounted
  <2>4. Sorted(o) \in Nat BY <1>1, SortedIsNat
  <2> DEFINE n == Sorted(o)
  <2>5. n \in Nat /\ n + Len(<<>>) = o.total BY <2>2, <2>4
  <2> HIDE DEF n
  <2>6. n = o.total BY <2>5
  <2> QED BY <2>6 DEF n
<1>4. /\ p \in DeskPage /\ p.lists = Desk!NoLists /\ p.code = "none"
      /\ p.todo = <<>> /\ p.call = Desk!NoCall /\ Desk!NoLists.created = <<>>
      /\ Sorted(Desk!NoLists) = 0 /\ Desk!NoLists.total = 0
      /\ Desk!NoCall.at = "none" /\ Desk!NoCall.what = "none" /\ Desk!NoCall.answer = "none"
  BY EmptyDesk
<1> HIDE DEF o, p
<1>5. /\ q \in DeskPage /\ q.lists = p.lists /\ q.summary = o /\ q.todo = p.todo
      /\ q.code = p.code /\ q.call = p.call
  BY <1>1, <1>4 DEF DeskPage
<1> HIDE DEF q
<1>6. Accounted(q) BY <1>3, <1>4, <1>5 DEF Accounted
<1>7. Claims(q) \subseteq Claims(page[d])
  BY <1>4, <1>5 DEF Claims, o, DeskParameters
<1> QED BY <1>2, <1>5, <1>6, <1>7, DeskStep

LEMMA DeskLosesKeeps ==
  ASSUME DeskInv, DeskParameters, NEW d \in Desks, Desk!DeskLoses(d) PROVE DeskInv'
<1>1. page[d] \in DeskPage /\ page[d].call \in DeskCall /\ Accounted(page[d])
      /\ page \in [Desks \cup Tabs -> DeskPage \cup VoterTab] /\ page[d].summary \in Outcome
  BY DeskFields
<1>2. api' = api /\ Desk!Event BY DEF Desk!DeskLoses
<1>3. CASE page[d].call.what = "bulk"
  <2> DEFINE p == page[d]
             k == p.call
             a == "done"
             w == "failed"
             c == [k EXCEPT !.at = a, !.answer = w]
             q == [p EXCEPT !.call = c]
  <2>1. page' = [page EXCEPT ![d] = [p EXCEPT !.call.at = a, !.call.answer = w]]
    BY <1>1, <1>3 DEF Desk!DeskLoses
  <2>2. page' = [page EXCEPT ![d] = q]
    <3>1. [p EXCEPT !.call.at = a, !.call.answer = w] = q
      <4> HIDE DEF p
      <4> QED BY <1>1 DEF p
    <3> QED BY <2>1, <3>1
  <2>3. a \in Requests /\ w \in CreateCodes /\ c = [k EXCEPT !.at = a, !.answer = w]
    BY WhatIs DEF CreateCodes
  <2>4. c \in DeskCall /\ c.at = a /\ c.answer = w /\ c.what = k.what /\ c.todo = k.todo
    <3> HIDE DEF k, a, c, w
    <3> QED BY <1>1, <2>3 DEF DeskCall, k, p
  <2> HIDE DEF c, q, p
  <2>5. /\ q \in DeskPage /\ q.call = c /\ q.todo = p.todo /\ q.lists = p.lists
        /\ q.summary = p.summary /\ q.code = p.code
    BY <1>1, <2>4, DeskCallOnly DEF q, p
  <2>6. Accounted(q) BY <1>1, <1>3, <2>4, <2>5 DEF Accounted, p
  <2>7. Claims(q) \subseteq Claims(p) BY <2>4, <2>5 DEF Claims
  <2> QED BY <1>2, <2>2, <2>5, <2>6, <2>7, DeskStep DEF p
<1>4. CASE page[d].call.what # "bulk"
  <2> DEFINE s == page[d].summary
             p == Desk!Desk
             q == [p EXCEPT !.summary = s]
  <2>1. page' = [page EXCEPT ![d] = q] BY <1>4 DEF Desk!DeskLoses
  <2>2. /\ p \in DeskPage /\ p.lists = Desk!NoLists /\ p.code = "none"
        /\ p.todo = <<>> /\ p.call = Desk!NoCall /\ Desk!NoLists.created = <<>>
        /\ Sorted(Desk!NoLists) = 0 /\ Desk!NoLists.total = 0
        /\ Desk!NoCall.at = "none" /\ Desk!NoCall.what = "none" /\ Desk!NoCall.answer = "none"
    BY EmptyDesk
  <2> HIDE DEF s, p
  <2>3. /\ q \in DeskPage /\ q.lists = p.lists /\ q.summary = s /\ q.todo = p.todo
        /\ q.code = p.code /\ q.call = p.call
    BY <1>1, <2>2 DEF DeskPage, s
  <2> HIDE DEF q
  <2>4. Accounted(q) BY <1>1, <2>2, <2>3 DEF Accounted, s
  <2>5. Claims(q) \subseteq Claims(page[d])
    <3>1. q.call.answer # "created" BY <2>2, <2>3
    <3> QED BY <2>2, <2>3, <3>1, ClaimsOfSummary DEF s
  <2> QED BY <1>2, <2>1, <2>3, <2>4, <2>5, DeskStep
<1> QED BY <1>3, <1>4

LEMMA DeskDeniedKeeps ==
  ASSUME DeskInv, DeskParameters, NEW d \in Desks, Desk!DeskDenied(d) PROVE DeskInv'
<1> DEFINE p == Desk!Desk
           b == TRUE
           q == [p EXCEPT !.gone = b]
<1>1. page' = [page EXCEPT ![d] = q] /\ api' = api /\ Desk!Event
  BY DEF Desk!DeskDenied
<1>2. /\ p \in DeskPage /\ p.lists = Desk!NoLists /\ p.code = "none"
      /\ p.summary = Desk!NoLists
      /\ p.todo = <<>> /\ p.call = Desk!NoCall /\ Desk!NoLists.created = <<>>
      /\ Sorted(Desk!NoLists) = 0 /\ Desk!NoLists.total = 0 /\ b \in Flag
      /\ Desk!NoCall.at = "none" /\ Desk!NoCall.what = "none" /\ Desk!NoCall.answer = "none"
  BY EmptyDesk, Flags
<1> HIDE DEF p, b
<1>3. /\ q \in DeskPage /\ q.lists = p.lists /\ q.summary = p.summary /\ q.todo = p.todo
      /\ q.code = p.code /\ q.call = p.call
  BY <1>2 DEF DeskPage
<1> HIDE DEF q
<1>4. Accounted(q) BY <1>2, <1>3 DEF Accounted
<1>5. Claims(q) \subseteq Claims(page[d])
  <2>1. q.call.answer # "created" BY <1>2, <1>3
  <2> QED BY <1>2, <1>3, <2>1, ClaimsOfSummary
<1> QED BY <1>1, <1>3, <1>4, <1>5, DeskStep

\* A step of one voter's tab that leaves the invitations as they are.
LEMMA VoterStep ==
  ASSUME DeskInv, DeskParameters, NEW t \in Tabs, NEW q \in VoterTab,
         q.answer = "sent" => q.email \in Emails,
         page' = [page EXCEPT ![t] = q],
         api' \in [Emails -> InviteStatus], Invited' = Invited,
         past' \in [orders : Nat, events : Nat, accepted : [Emails -> SUBSET Tabs]],
         \A e \in Emails : /\ api'[e] # "accepted" => past'.accepted[e] = {}
                           /\ \A u, v \in past'.accepted[e] : u = v
  PROVE  DeskInv'
<1>1. page \in [Desks \cup Tabs -> DeskPage \cup VoterTab] BY DEF DeskInv
<1>2. /\ page' \in [Desks \cup Tabs -> DeskPage \cup VoterTab] /\ page'[t] = q
      /\ \A o \in Desks \cup Tabs : o # t => page'[o] = page[o]
  BY <1>1
<1>3. \A d \in Desks : page'[d] = page[d] BY <1>2 DEF DeskParameters
<1>4. \A d \in Desks : page'[d] \in DeskPage /\ Accounted(page'[d])
                       /\ Claims(page'[d]) \subseteq Invited'
  <2> SUFFICES ASSUME NEW d \in Desks
               PROVE  page'[d] \in DeskPage /\ Accounted(page'[d])
                      /\ Claims(page'[d]) \subseteq Invited'
    OBVIOUS
  <2>1. page[d] \in DeskPage /\ Accounted(page[d]) /\ Claims(page[d]) \subseteq Invited
    BY DEF DeskInv
  <2> QED BY <2>1, <1>3
<1>5. \A c, d \in Desks : c # d => Claims(page'[c]) \cap Claims(page'[d]) = {}
  BY <1>3 DEF DeskInv
<1>6. \A u \in Tabs : page'[u] \in VoterTab /\ (page'[u].answer = "sent" => page'[u].email \in Emails)
  BY <1>2 DEF DeskInv
<1> QED BY <1>2, <1>4, <1>5, <1>6 DEF DeskInv

\* What a tab of a voter knows.
LEMMA VoterFields ==
  ASSUME DeskInv, NEW t \in Tabs
  PROVE  /\ page \in [Desks \cup Tabs -> DeskPage \cup VoterTab] /\ page[t] \in VoterTab
         /\ page[t].email \in EmailNames /\ page[t].answer \in AcceptCodes
         /\ page[t].told \in AcceptCodes /\ (page[t].answer = "sent" => page[t].email \in Emails)
         /\ \A e \in Emails : /\ api[e] # "accepted" => past.accepted[e] = {}
                              /\ \A u, v \in past.accepted[e] : u = v
         /\ api \in [Emails -> InviteStatus]
         /\ past \in [orders : Nat, events : Nat, accepted : [Emails -> SUBSET Tabs]]
BY DEF DeskInv, VoterTab

LEMMA SameInvited == ASSUME api' = api PROVE Invited' = Invited BY DEF Invited

LEMMA AcceptKeeps == ASSUME DeskInv, DeskParameters, NEW t \in Tabs, Desk!Accept(t) PROVE DeskInv'
<1>1. PICK d \in Desks :
        /\ page[d].code # "none"
        /\ page' = [page EXCEPT ![t].busy = TRUE, ![t].email = page[d].code,
                                ![t].answer = "sent", ![t].told = "none"]
  BY DEF Desk!Accept
<1> DEFINE p == page[t]
           b == TRUE
           e == page[d].code
           s == "sent"
           n == "none"
           q == [p EXCEPT !.busy = b, !.email = e, !.answer = s, !.told = n]
<1>2. p \in VoterTab /\ page \in [Desks \cup Tabs -> DeskPage \cup VoterTab] BY VoterFields
<1>3. page' = [page EXCEPT ![t] = q] /\ api' = api /\ Desk!Order
  BY <1>1, <1>2 DEF Desk!Accept
<1>4. e \in Emails /\ e \in EmailNames
  <2>1. e \in EmailNames BY DeskFields
  <2> QED BY <1>1, <2>1 DEF EmailNames
<1>5. s \in AcceptCodes /\ n \in AcceptCodes /\ b \in Flag BY Flags DEF AcceptCodes
<1> HIDE DEF p, b, e, s, n
<1>6. q \in VoterTab /\ q.email = e BY <1>2, <1>4, <1>5 DEF VoterTab
<1> HIDE DEF q
<1>7. past' \in [orders : Nat, events : Nat, accepted : [Emails -> SUBSET Tabs]]
      /\ past'.accepted = past.accepted
  BY <1>3, DeskCounted
<1> QED BY <1>3, <1>4, <1>6, <1>7, VoterFields, VoterStep, SameInvited

\* The API accepts an invitation that was not accepted before.
LEMMA ServerAcceptsKeeps ==
  ASSUME DeskInv, DeskParameters, NEW t \in Tabs, Desk!ServerAccepts(t) PROVE DeskInv'
<1> DEFINE p == page[t]
           e == p.email
           code == Desk!AcceptCode(e)
           q == [p EXCEPT !.answer = code]
<1>1. /\ p \in VoterTab /\ page \in [Desks \cup Tabs -> DeskPage \cup VoterTab]
      /\ e \in Emails /\ api \in [Emails -> InviteStatus]
      /\ past \in [orders : Nat, events : Nat, accepted : [Emails -> SUBSET Tabs]]
  BY VoterFields DEF Desk!ServerAccepts
<1>2. /\ page' = [page EXCEPT ![t] = q]
      /\ api' = IF code = "accepted" THEN [api EXCEPT ![e] = "accepted"] ELSE api
      /\ past' = IF code = "accepted" THEN [past EXCEPT !.accepted[e] = @ \cup {t}] ELSE past
  BY <1>1 DEF Desk!ServerAccepts
<1>3. /\ code \in {"accepted", "invalid_invite_code", "invite_code_inactive"}
      /\ code = "accepted" => api[e] = "created"
  <2>1. api[e] \in {"none", "created", "accepted"} BY <1>1 DEF InviteStatus
  <2> QED BY <2>1 DEF Desk!AcceptCode
<1>4. code \in AcceptCodes /\ code # "sent" BY <1>3 DEF AcceptCodes
<1> HIDE DEF code, p
<1>5. q \in VoterTab /\ q.answer # "sent" BY <1>1, <1>4 DEF VoterTab
<1> HIDE DEF q
<1>6. \A f \in Emails : /\ api[f] # "accepted" => past.accepted[f] = {}
                        /\ \A u, v \in past.accepted[f] : u = v
  BY VoterFields
<1>7. CASE code = "accepted"
  <2> DEFINE A == past.accepted
             B == [A EXCEPT ![e] = A[e] \cup {t}]
  <2>1. past' = [past EXCEPT !.accepted = B] BY <1>1, <1>2, <1>7
  <2>2. A \in [Emails -> SUBSET Tabs] BY <1>1
  <2>3. B \in [Emails -> SUBSET Tabs] /\ B[e] = A[e] \cup {t}
        /\ \A f \in Emails : f # e => B[f] = A[f]
    BY <1>1, <2>2
  <2>4. A[e] = {} BY <1>1, <1>3, <1>6, <1>7
  <2> HIDE DEF A, B
  <2>5. past' \in [orders : Nat, events : Nat, accepted : [Emails -> SUBSET Tabs]]
        /\ past'.accepted = B
    BY <1>1, <2>1, <2>3
  <2>6. api' = [api EXCEPT ![e] = "accepted"] BY <1>2, <1>7
  <2>7. /\ api' \in [Emails -> InviteStatus] /\ api'[e] = "accepted"
        /\ \A f \in Emails : f # e => api'[f] = api[f]
    BY <1>1, <2>6 DEF InviteStatus
  <2>8. Invited' = Invited BY <1>3, <1>7, <2>7 DEF Invited
  <2>9. ASSUME NEW f \in Emails
        PROVE  /\ api'[f] # "accepted" => past'.accepted[f] = {}
               /\ \A u, v \in past'.accepted[f] : u = v
    <3>1. CASE f = e BY <3>1, <2>3, <2>4, <2>5, <2>7
    <3>2. CASE f # e BY <3>2, <2>3, <2>5, <2>7, <1>6 DEF A
    <3> QED BY <3>1, <3>2
  <2> QED BY <1>2, <1>5, <2>5, <2>7, <2>8, <2>9, VoterStep
<1>8. CASE code # "accepted"
  <2>1. api' = api /\ past' = past BY <1>2, <1>8
  <2> QED BY <1>1, <1>2, <1>5, <1>6, <2>1, VoterStep, SameInvited
<1> QED BY <1>7, <1>8

LEMMA AcceptEndsKeeps ==
  ASSUME DeskInv, DeskParameters, NEW t \in Tabs, Desk!AcceptEnds(t) PROVE DeskInv'
<1> DEFINE p == page[t]
           b == FALSE
           a == p.answer
           n == "none"
           q == [p EXCEPT !.busy = b, !.answer = n, !.told = a]
<1>1. p \in VoterTab /\ page \in [Desks \cup Tabs -> DeskPage \cup VoterTab] /\ a \in AcceptCodes
  BY VoterFields
<1>2. page' = [page EXCEPT ![t] = q] /\ api' = api /\ past' = past
  BY <1>1 DEF Desk!AcceptEnds
<1>3. b \in Flag /\ n \in AcceptCodes /\ n # "sent" BY Flags DEF AcceptCodes
<1> HIDE DEF p, b, a, n
<1>4. q \in VoterTab /\ q.answer # "sent" BY <1>1, <1>3 DEF VoterTab
<1> HIDE DEF q
<1> QED BY <1>2, <1>4, VoterFields, VoterStep, SameInvited

LEMMA VoterLosesKeeps ==
  ASSUME DeskInv, DeskParameters, NEW t \in Tabs, Desk!VoterLoses(t) PROVE DeskInv'
<1> DEFINE p == page[t]
           n == "failed"
           q == [p EXCEPT !.answer = n]
<1>1. p \in VoterTab /\ page \in [Desks \cup Tabs -> DeskPage \cup VoterTab] BY VoterFields
<1>2. page' = [page EXCEPT ![t] = q] /\ api' = api /\ Desk!Event
  BY <1>1 DEF Desk!VoterLoses
<1>3. n \in AcceptCodes /\ n # "sent" BY DEF AcceptCodes
<1> HIDE DEF p, n
<1>4. q \in VoterTab /\ q.answer # "sent" BY <1>1, <1>3 DEF VoterTab
<1> HIDE DEF q
<1>5. past' \in [orders : Nat, events : Nat, accepted : [Emails -> SUBSET Tabs]]
      /\ past'.accepted = past.accepted
  BY <1>2, DeskCounted
<1> QED BY <1>2, <1>4, <1>5, VoterFields, VoterStep, SameInvited

LEMMA DeskStart == ASSUME DeskParameters, Desk!Init PROVE DeskInv
<1> USE DEF DeskParameters
<1>1. /\ api = [e \in Emails |-> "none"]
      /\ page = [t \in Desks \cup Tabs |-> IF t \in Desks THEN Desk!Desk ELSE Desk!Voter]
      /\ past = [orders |-> 0, events |-> 0, accepted |-> [e \in Emails |-> {}]]
  BY DEF Desk!Init
<1>2. Desk!Desk \in DeskPage /\ Accounted(Desk!Desk) /\ Claims(Desk!Desk) = {}
  BY EmptyDesk DEF Accounted, Claims
<1>3. Desk!Voter \in VoterTab /\ Desk!Voter.answer # "sent"
  BY Flags DEF Desk!Voter, VoterTab, AcceptCodes, EmailNames
<1>4. /\ \A d \in Desks : page[d] = Desk!Desk
      /\ \A t \in Tabs : page[t] = Desk!Voter
  BY <1>1
<1>5. page \in [Desks \cup Tabs -> DeskPage \cup VoterTab] BY <1>1, <1>2, <1>3
<1>6. api \in [Emails -> InviteStatus] BY <1>1 DEF InviteStatus
<1>7. past \in [orders : Nat, events : Nat, accepted : [Emails -> SUBSET Tabs]]
      /\ \A e \in Emails : past.accepted[e] = {}
  <2> DEFINE A == [e \in Emails |-> {}]
  <2>1. A \in [Emails -> SUBSET Tabs] /\ \A e \in Emails : A[e] = {} OBVIOUS
  <2>2. past = [orders |-> 0, events |-> 0, accepted |-> A] BY <1>1
  <2> HIDE DEF A
  <2> QED BY <2>1, <2>2
<1> HIDE DEF DeskParameters
<1> QED BY <1>2, <1>3, <1>4, <1>5, <1>6, <1>7 DEF DeskInv

LEMMA DeskGoesOn == ASSUME DeskInv, DeskParameters, Desk!Next PROVE DeskInv'
BY InviteKeeps, InviteManyKeeps, ImportKeeps, SendNextKeeps, ServerCreatesKeeps,
   ServerPassesOverKeeps, ServerImportsKeeps, SingleEndsKeeps, BulkGoesOnKeeps, SummariseKeeps, DeskLosesKeeps,
   DeskDeniedKeeps, AcceptKeeps, ServerAcceptsKeeps, AcceptEndsKeeps, VoterLosesKeeps
   DEF Desk!Next, Desk!DeskRuns

LEMMA DeskRest == ASSUME DeskInv, UNCHANGED <<api, page, past>> PROVE DeskInv'
BY DEF DeskInv, Invited

LEMMA DesksAreRight ==
  ASSUME DeskInv, DeskParameters
  PROVE  /\ Desk!SummaryIsComplete /\ Desk!CreatedIsOnRecord /\ Desk!AcceptedOnce
         /\ Desk!TypeOK
<1>1. Desk!SummaryIsComplete
  <2>1. \A d \in Desks : /\ Sorted(page[d].summary) = page[d].summary.total
                         /\ page[d].summary \in Outcome
    BY DeskFields DEF Accounted
  <2>2. ASSUME NEW s \in Outcome, Sorted(s) = s.total
        PROVE  s.total - s.blank =
                 Len(s.created) + Len(s.registration) + Len(s.skipped) + Len(s.failed)
    <3> DEFINE a == Len(s.created)
               b == Len(s.registration)
               c == Len(s.skipped)
               e == Len(s.failed)
               g == s.blank
    <3>1. /\ s.created \in Seq(Texts) /\ s.registration \in Seq(Texts)
          /\ s.skipped \in Seq(Texts) /\ s.failed \in Seq(Texts) /\ g \in Nat
      BY DEF Outcome, TextLists
    <3>2. \A l \in Seq(Texts) : Len(l) \in Nat OBVIOUS
    <3>3. a \in Nat /\ b \in Nat /\ c \in Nat /\ e \in Nat BY <3>1, <3>2
    <3>4. s.total = a + b + c + e + g BY <2>2 DEF Sorted
    <3> HIDE DEF a, b, c, e, g
    <3>5. s.total - g = a + b + c + e BY <3>1, <3>3, <3>4
    <3> QED BY <3>5 DEF a, b, c, e, g
  <2> QED BY <2>1, <2>2 DEF Desk!SummaryIsComplete
<1>2. Desk!CreatedIsOnRecord
  <2>1. ASSUME NEW d \in Desks, page[d].code # "none"
        PROVE  page[d].code \in Claims(page[d]) /\ api[page[d].code] # "none"
    <3>1. page[d].code \in Emails BY <2>1, DeskFields DEF EmailNames
    <3>2. page[d].code \in Claims(page[d]) BY <3>1 DEF Claims
    <3> QED BY <3>2, DeskFields DEF Invited
  <2>2. ASSUME NEW d \in Desks, NEW i \in DOMAIN page[d].summary.created
        PROVE  /\ EmailOf[page[d].summary.created[i]] \in Claims(page[d])
               /\ api[EmailOf[page[d].summary.created[i]]] # "none"
    <3>1. EmailOf[page[d].summary.created[i]] \in Claims(page[d]) BY DEF Claims
    <3> QED BY <3>1, DeskFields DEF Invited
  <2>3. ASSUME NEW c \in Desks, NEW d \in Desks, c # d, page[c].code # "none",
               NEW i \in DOMAIN page[d].summary.created
        PROVE  EmailOf[page[d].summary.created[i]] # page[c].code
    <3>1. Claims(page[c]) \cap Claims(page[d]) = {} BY <2>3 DEF DeskInv
    <3> QED BY <3>1, <2>1, <2>2, <2>3
  <2> QED BY <2>1, <2>2, <2>3 DEF Desk!CreatedIsOnRecord
<1>3. Desk!AcceptedOnce BY DEF DeskInv, Desk!AcceptedOnce
<1>4. Desk!TypeOK
  <2>1. api \in [Emails -> {"none", "created", "accepted"}] BY DEF DeskInv, InviteStatus
  <2>2. \A d \in Desks : /\ page[d].call.answer \in Desk!Codes
                         /\ page[d].code \in Emails \cup {"none"}
                         /\ page[d].todo \in Seq(Texts)
    BY DeskFields DEF CreateCodes, Desk!Codes, EmailNames, TextLists
  <2>3. \A t \in Tabs : page[t].email \in Emails \cup {"none"}
    BY VoterFields DEF EmailNames
  <2> QED BY <2>1, <2>2, <2>3 DEF Desk!TypeOK
<1> QED BY <1>1, <1>2, <1>3, <1>4

\* Several organizers invite, from lists and files that may repeat an email, while requests
\* get lost: a summary accounts for every entry of its list that is not blank, what a page
\* says it created is on record and created by no other page, and an invitation is accepted
\* once.
THEOREM InvitationsAreReportedRightly ==
  ASSUME DeskParameters
  PROVE  Desk!Init /\ [][Desk!Next]_<<api, page, past>>
           => [](Desk!SummaryIsComplete /\ Desk!CreatedIsOnRecord /\ Desk!AcceptedOnce)
<1>1. Desk!Init => DeskInv BY DeskStart
<1>2. DeskInv /\ [Desk!Next]_<<api, page, past>> => DeskInv'
  BY DeskGoesOn, DeskRest
<1>3. DeskInv => Desk!SummaryIsComplete /\ Desk!CreatedIsOnRecord /\ Desk!AcceptedOnce
  BY DesksAreRight
<1> QED BY <1>1, <1>2, <1>3, PTL

-----------------------------------------------------------------------------
(* ElectionRulesForm.                                                      *)

TallyFormats == {"approval", "ranking", "score"}
OfferSet == {Offers[i] : i \in DOMAIN Offers}
OfferNames == {x.id : x \in OfferSet}
ScaleSet == [min : Int, max : Int, step : Int]

FormFields == [rule : OfferNames, format : TallyFormats, committee : Int, quota : Flag,
               publish : Times, delay : Flag, amax : Int, top : Flag, topK : Int,
               scale : ScaleSet]
StoredRules == [rule : OfferNames, format : TallyFormats, committee : Int, quota : Flag,
                publish : Times, amax : Int, topK : Int, scale : ScaleSet]
SaveCall == [at : {"none", "sent", "read", "saved", "refused", "lost"},
             body : StoredRules \cup {Form!Blank}, read : StoredRules \cup {Form!Blank},
             status : {"draft", "active"}]
FormTab == [form : FormFields, item : Flag, loading : Flag, offered : Flag, call : SaveCall,
            touched : Flag, seen : Nat]
FormPast == [edits : Nat, saves : Nat, events : Nat, writes : Nat]

Named(r) == Form!Find(Offers, r.rule)

\* The limit of approvals is the one the rule's name gives, if it gives one.
LimitOK(r) ==
  r.format = "approval" /\ Named(r).limit > 0 => r.amax = Form!Clamp(Named(r).limit, 1, Count)

\* Rules go together: there is what the rule asks for, within its bounds, and nothing else.
StoredOK(r) ==
  /\ Named(r).tally /\ r.format \in Named(r).formats
  /\ IF Named(r).committee THEN r.committee \in 1..Count ELSE r.committee = -1
  /\ r.quota => Named(r).quota
  /\ IF r.format = "approval" THEN r.amax \in 1..Count ELSE r.amax = -1
  /\ LimitOK(r)
  /\ r.topK # -1 => r.format = "ranking" /\ Named(r).topK /\ r.topK \in 1..Count
  /\ IF r.format = "score"
     THEN /\ r.scale.step > 0 /\ r.scale.min <= r.scale.max
          /\ (r.scale.max - r.scale.min) % r.scale.step = 0
     ELSE r.scale = Form!NoScale

\* A form that says what the rules say, but for the size of a committee that is not asked for.
Fresh(f, r) ==
  LET h == Form!Hydrated(r)
  IN /\ f.rule = h.rule /\ f.format = h.format /\ f.quota = h.quota /\ f.publish = h.publish
     /\ f.delay = h.delay /\ f.amax = h.amax /\ f.top = h.top /\ f.topK = h.topK
     /\ f.scale = h.scale
     /\ f.committee = h.committee \/ ~Named(r).committee

CallOK(c) ==
  /\ c.at \in {"sent", "read"} => c.body \in StoredRules /\ LimitOK(c.body)
  /\ c.at = "read" => c.read \in StoredRules

TabOK(p, rules, writes) ==
  /\ p.seen <= writes
  /\ p.item /\ ~p.touched /\ p.seen = writes => Fresh(p.form, rules)
  /\ CallOK(p.call) /\ (p.call.at # "none" => p.item)

FormInv ==
  /\ api \in [status : {"draft", "active"}, rules : StoredRules]
  /\ page \in [FormTabs -> FormTab] /\ past \in FormPast
  /\ StoredOK(api.rules)
  /\ \A t \in FormTabs : TabOK(page[t], api.rules, past.writes)

\* What the compute service's rules have in common, and what a page creates an election with.
FormParameters ==
  /\ \A x \in OfferSet :
       /\ x.formats \subseteq TallyFormats /\ x.formats # {} /\ x.limit \in Nat
       /\ x.approval => "score" \notin x.formats
       /\ x.range => x.formats = {"score"}
       /\ "score" \in x.formats => x.range
       /\ "ranking" \in x.formats /\ ~x.approval => x.topK
  /\ "plurality" \in OfferNames
  /\ Count \in Nat \ {0} /\ -1 \in Times /\ Times \subseteq Int /\ FormNumbers \subseteq Int
  /\ FormScales \subseteq ScaleSet
  /\ FirstRules \subseteq StoredRules /\ \A r \in FirstRules : StoredOK(r)

LEMMA FormTabFields ==
  ASSUME NEW p \in FormTab
  PROVE  /\ p.form \in FormFields /\ p.item \in Flag /\ p.loading \in Flag /\ p.offered \in Flag
         /\ p.call \in SaveCall /\ p.touched \in Flag /\ p.seen \in Nat
BY DEF FormTab

LEMMA FormFieldsAre ==
  ASSUME NEW f \in FormFields
  PROVE  /\ f.rule \in OfferNames /\ f.format \in TallyFormats /\ f.committee \in Int
         /\ f.quota \in Flag /\ f.publish \in Times /\ f.delay \in Flag /\ f.amax \in Int
         /\ f.top \in Flag /\ f.topK \in Int /\ f.scale \in ScaleSet
BY DEF FormFields

LEMMA StoredFields ==
  ASSUME NEW r \in StoredRules
  PROVE  /\ r.rule \in OfferNames /\ r.format \in TallyFormats /\ r.committee \in Int
         /\ r.quota \in Flag /\ r.publish \in Times /\ r.amax \in Int /\ r.topK \in Int
         /\ r.scale \in ScaleSet
BY DEF StoredRules

\* The rule of a name that is offered.
LEMMA FindIs ==
  ASSUME FormParameters, NEW id
  PROVE  /\ Form!Find(Offers, id) # Form!NoRule => id \in OfferNames
         /\ id \in OfferNames => /\ Form!Find(Offers, id) \in OfferSet
                                 /\ Form!Find(Offers, id) # Form!NoRule
<1> DEFINE x == Form!Find(Offers, id)
<1>1. CASE \E i \in DOMAIN Offers : Offers[i].id = id
  <2>1. x = Offers[CHOOSE i \in DOMAIN Offers : Offers[i].id = id] BY <1>1 DEF Form!Find
  <2>2. PICK i \in DOMAIN Offers : x = Offers[i] /\ Offers[i].id = id BY <1>1, <2>1
  <2> HIDE DEF x
  <2>3. x \in OfferSet /\ id \in OfferNames BY <2>2 DEF OfferSet, OfferNames
  <2>4. x # Form!NoRule BY <2>3 DEF FormParameters, Form!NoRule
  <2> QED BY <2>3, <2>4 DEF x
<1>2. CASE ~ \E i \in DOMAIN Offers : Offers[i].id = id
  <2>1. x = Form!NoRule BY <1>2 DEF Form!Find
  <2>2. id \notin OfferNames BY <1>2 DEF OfferNames, OfferSet
  <2> QED BY <2>1, <2>2
<1> QED BY <1>1, <1>2

LEMMA NoneFound == \A id : Form!Find(<<>>, id) = Form!NoRule
BY DEF Form!Find

LEMMA ClampIs ==
  /\ \A n \in Int, high \in Nat \ {0} : Form!Clamp(n, 1, high) \in 1..high
  /\ \A high \in Nat : \A n \in 1..high : Form!Clamp(n, 1, high) = n
BY DEF Form!Clamp

\* The rule a page has found.
LEMMA RuleOfIs ==
  ASSUME FormParameters, NEW p \in FormTab
  PROVE  /\ Form!RuleOf(p) = Form!NoRule \/ Form!RuleOf(p) = Named(p.form)
         /\ Named(p.form) \in OfferSet /\ Named(p.form) # Form!NoRule
         /\ Form!CountOf(p) \in Nat \ {0} /\ (p.item => Form!CountOf(p) = Count)
<1>1. p.form.rule \in OfferNames BY FormTabFields, FormFieldsAre
<1>2. Named(p.form) \in OfferSet /\ Named(p.form) # Form!NoRule BY <1>1, FindIs DEF Named
<1>3. Form!RuleOf(p) = Form!NoRule \/ Form!RuleOf(p) = Named(p.form)
  BY NoneFound DEF Form!RuleOf, Form!Offered, Named
<1>4. Form!CountOf(p) \in Nat \ {0} /\ (p.item => Form!CountOf(p) = Count)
  BY DEF Form!CountOf, FormParameters
<1> QED BY <1>2, <1>3, <1>4

LEMMA EffectiveMaxIs ==
  ASSUME FormParameters, NEW p \in FormTab
  PROVE  /\ Form!EffectiveMax(p) \in 1..Form!CountOf(p) /\ Form!EffectiveMax(p) \in Int
         /\ Form!EffectiveMax(p) =
              Form!Clamp(IF Form!RuleOf(p).limit > 0 THEN Form!RuleOf(p).limit ELSE p.form.amax,
                         1, Form!CountOf(p))
<1> DEFINE n == IF Form!RuleOf(p).limit > 0 THEN Form!RuleOf(p).limit ELSE p.form.amax
           c == Form!CountOf(p)
<1>1. c \in Nat \ {0} BY RuleOfIs
<1>2. n \in Int
  <2>1. Form!RuleOf(p).limit \in Int
    <3>1. Form!NoRule.limit \in Int BY DEF Form!NoRule
    <3>2. Named(p.form).limit \in Int BY RuleOfIs DEF FormParameters
    <3> QED BY <3>1, <3>2, RuleOfIs
  <2>2. p.form.amax \in Int BY FormTabFields, FormFieldsAre
  <2> QED BY <2>1, <2>2
<1>3. Form!EffectiveMax(p) = Form!Clamp(n, 1, c) BY DEF Form!EffectiveMax
<1> HIDE DEF n, c
<1>4. Form!Clamp(n, 1, c) \in 1..c BY <1>1, <1>2, ClampIs
<1>5. Form!EffectiveMax(p) \in 1..c /\ Form!EffectiveMax(p) \in Int BY <1>1, <1>3, <1>4
<1> QED BY <1>3, <1>5 DEF n, c

\* What is loaded is a form, and says what the rules say.
LEMMA HydratedIs ==
  ASSUME FormParameters, NEW r \in StoredRules
  PROVE  Form!Hydrated(r) \in FormFields /\ Fresh(Form!Hydrated(r), r)
<1> DEFINE h == Form!Hydrated(r)
           b == r.publish # -1
           c == r.topK # -1
           n == IF r.committee = -1 THEN Count ELSE r.committee
           a == IF r.amax = -1 THEN 1 ELSE r.amax
           k == IF r.topK = -1 THEN 1 ELSE r.topK
           s == IF r.scale = Form!NoScale THEN Form!Blank.scale ELSE r.scale
<1>1. h = [rule |-> r.rule, format |-> r.format, committee |-> n, quota |-> r.quota,
           publish |-> r.publish, delay |-> b, amax |-> a, top |-> c, topK |-> k, scale |-> s]
  BY Zenon DEF Form!Hydrated
<1>2. b \in Flag /\ c \in Flag BY Flags
<1>3. n \in Int /\ a \in Int /\ k \in Int BY StoredFields DEF FormParameters
<1>4. s \in ScaleSet
  <2>1. Form!Blank.scale \in ScaleSet BY DEF Form!Blank, ScaleSet
  <2> QED BY <2>1, StoredFields
<1> HIDE DEF h, b, c, n, a, k, s
<1>5. h \in FormFields BY <1>1, <1>2, <1>3, <1>4, StoredFields DEF FormFields
<1> QED BY <1>5 DEF h, Fresh

LEMMA BlankIs == ASSUME FormParameters PROVE Form!Blank \in FormFields
<1> DEFINE w == FALSE
           t == TRUE
           s == [min |-> 0, max |-> 10, step |-> 1]
<1>1. w \in Flag /\ t \in Flag BY Flags
<1>2. s \in ScaleSet BY DEF ScaleSet
<1>3. Form!Blank = [rule |-> "plurality", format |-> "ranking", committee |-> 1, quota |-> w,
                    publish |-> -1, delay |-> w, amax |-> 1, top |-> t, topK |-> 1, scale |-> s]
  BY DEF Form!Blank
<1> HIDE DEF w, t, s
<1> QED BY <1>1, <1>2, <1>3 DEF FormFields, TallyFormats, FormParameters

\* The corrections of a form.
LEMMA CorrectedIs ==
  ASSUME FormParameters, NEW p \in FormTab
  PROVE  LET f == p.form
             x == Form!RuleOf(p)
             g == Form!Corrected(p)
         IN  /\ g \in FormFields
             /\ x = Form!NoRule => g = f
             /\ x # Form!NoRule =>
                  /\ g.rule = f.rule
                  /\ g.format = IF f.format \in x.formats THEN f.format
                                ELSE CHOOSE y \in x.formats : TRUE
                  /\ g.committee = CASE ~x.committee -> 1
                                     [] x.committee /\ f.committee > Form!CountOf(p) ->
                                          Form!CountOf(p)
                                     [] OTHER -> f.committee
                  /\ g.quota = (f.quota /\ x.quota) /\ g.publish = f.publish
                  /\ g.delay = f.delay
                  /\ g.amax = IF f.format = "approval" /\ x.limit > 0
                              THEN Form!EffectiveMax(p) ELSE f.amax
                  /\ g.top = (f.top /\ ~(~x.topK /\ f.format = "ranking"))
                  /\ g.topK = IF ~x.topK /\ f.format = "ranking" THEN 1 ELSE f.topK
                  /\ g.scale = f.scale
<1> DEFINE f == p.form
           x == Form!RuleOf(p)
           g == Form!Corrected(p)
           a == IF f.format \in x.formats THEN f.format ELSE CHOOSE y \in x.formats : TRUE
           b == CASE ~x.committee -> 1
                  [] x.committee /\ f.committee > Form!CountOf(p) -> Form!CountOf(p)
                  [] OTHER -> f.committee
           c == f.quota /\ x.quota
           d == IF f.format = "approval" /\ x.limit > 0 THEN Form!EffectiveMax(p) ELSE f.amax
           e == f.top /\ ~(~x.topK /\ f.format = "ranking")
           k == IF ~x.topK /\ f.format = "ranking" THEN 1 ELSE f.topK
<1>1. f \in FormFields BY FormTabFields
<1>2. CASE x = Form!NoRule
  <2>1. g = f BY <1>2 DEF Form!Corrected
  <2> QED BY <1>1, <1>2, <2>1
<1>3. CASE x # Form!NoRule
  <2>1. g = [f EXCEPT !.format = a, !.committee = b, !.quota = c, !.amax = d, !.top = e,
                      !.topK = k]
    BY <1>3, Zenon DEF Form!Corrected
  <2>2. x \in OfferSet BY <1>3, RuleOfIs
  <2>3. a \in TallyFormats
    <3>1. x.formats # {} /\ x.formats \subseteq TallyFormats BY <2>2 DEF FormParameters
    <3>2. (CHOOSE y \in x.formats : TRUE) \in x.formats BY <3>1
    <3> QED BY <1>1, <3>1, <3>2, FormFieldsAre
  <2>4. b \in Int
    <3>1. Form!CountOf(p) \in Int /\ f.committee \in Int BY <1>1, RuleOfIs, FormFieldsAre
    <3> QED BY <3>1
  <2>5. c \in Flag /\ e \in Flag BY Truths, Zenon
  <2>6. d \in Int /\ k \in Int
    <3>1. Form!EffectiveMax(p) \in Int /\ f.amax \in Int /\ f.topK \in Int
      BY <1>1, EffectiveMaxIs, FormFieldsAre
    <3> QED BY <3>1
  <2> HIDE DEF f, x, g, a, b, c, d, e, k
  <2>7. /\ g \in FormFields /\ g.rule = f.rule /\ g.format = a /\ g.committee = b
        /\ g.quota = c /\ g.publish = f.publish /\ g.delay = f.delay /\ g.amax = d
        /\ g.top = e /\ g.topK = k /\ g.scale = f.scale
    BY <1>1, <2>1, <2>3, <2>4, <2>5, <2>6 DEF FormFields
  <2> QED BY <1>3, <2>7, Zenon DEF f, x, g, a, b, c, d, e, k
<1> QED BY <1>2, <1>3

\* Corrections leave a form that says what the rules say one that does.
LEMMA CorrectedFresh ==
  ASSUME FormParameters, NEW p \in FormTab, NEW r \in StoredRules, StoredOK(r), p.item,
         Fresh(p.form, r)
  PROVE  Fresh(Form!Corrected(p), r)
<1> DEFINE f == p.form
           x == Form!RuleOf(p)
           g == Form!Corrected(p)
           h == Form!Hydrated(r)
<1>1. CASE x = Form!NoRule BY <1>1, CorrectedIs
<1>2. CASE x # Form!NoRule
  <2>1. /\ f.rule = h.rule /\ f.format = h.format /\ f.quota = h.quota /\ f.publish = h.publish
        /\ f.delay = h.delay /\ f.amax = h.amax /\ f.top = h.top /\ f.topK = h.topK
        /\ f.scale = h.scale /\ (f.committee = h.committee \/ ~Named(r).committee)
    BY DEF Fresh
  <2>2. /\ h.rule = r.rule /\ h.format = r.format /\ h.quota = r.quota
        /\ h.committee = IF r.committee = -1 THEN Count ELSE r.committee
        /\ h.amax = IF r.amax = -1 THEN 1 ELSE r.amax
        /\ h.top = (r.topK # -1) /\ h.topK = IF r.topK = -1 THEN 1 ELSE r.topK
    BY DEF Form!Hydrated
  <2>3. x = Named(r) /\ Form!CountOf(p) = Count /\ Count \in Nat \ {0} /\ x.limit \in Nat
    <3>1. x = Named(f) BY <1>2, RuleOfIs
    <3>2. Named(f) = Named(r) BY <2>1, <2>2 DEF Named
    <3> QED BY <3>1, <3>2, RuleOfIs DEF FormParameters
  <2>4. /\ r.format \in x.formats /\ (r.quota => x.quota) /\ LimitOK(r)
        /\ IF x.committee THEN r.committee \in 1..Count ELSE r.committee = -1
        /\ IF r.format = "approval" THEN r.amax \in 1..Count ELSE r.amax = -1
        /\ r.topK # -1 => r.format = "ranking" /\ x.topK /\ r.topK \in 1..Count
    BY <2>3 DEF StoredOK
  <2>5. f \in FormFields /\ f.quota \in Flag /\ f.top \in Flag BY FormTabFields, FormFieldsAre
  <2>6. /\ g.rule = f.rule
        /\ g.format = IF f.format \in x.formats THEN f.format ELSE CHOOSE y \in x.formats : TRUE
        /\ g.committee = CASE ~x.committee -> 1
                           [] x.committee /\ f.committee > Form!CountOf(p) -> Form!CountOf(p)
                           [] OTHER -> f.committee
        /\ g.quota = (f.quota /\ x.quota) /\ g.publish = f.publish /\ g.delay = f.delay
        /\ g.amax = IF f.format = "approval" /\ x.limit > 0 THEN Form!EffectiveMax(p) ELSE f.amax
        /\ g.top = (f.top /\ ~(~x.topK /\ f.format = "ranking"))
        /\ g.topK = IF ~x.topK /\ f.format = "ranking" THEN 1 ELSE f.topK
        /\ g.scale = f.scale
    BY <1>2, CorrectedIs
  <2>7. Form!EffectiveMax(p) =
          Form!Clamp(IF x.limit > 0 THEN x.limit ELSE f.amax, 1, Form!CountOf(p))
    BY EffectiveMaxIs
  <2>8. r.quota \in Flag /\ r.committee \in Int /\ r.amax \in Int /\ r.topK \in Int
    BY StoredFields
  <2> HIDE DEF f, x, g, h
  <2>9. g.format = f.format BY <2>1, <2>2, <2>4, <2>6
  <2>10. g.committee = h.committee \/ ~Named(r).committee
    BY <2>1, <2>2, <2>3, <2>4, <2>6, <2>8
  <2>11. g.quota = f.quota
    <3>1. f.quota => x.quota BY <2>1, <2>2, <2>4
    <3> QED BY <2>5, <2>6, <3>1, Zenon DEF Flag
  <2>12. g.amax = f.amax
    <3>1. CASE f.format = "approval" /\ x.limit > 0
      <4>1. r.format = "approval" /\ r.amax \in 1..Count BY <2>1, <2>2, <2>4, <3>1
      <4>2. r.amax = Form!Clamp(x.limit, 1, Count) BY <2>3, <2>4, <3>1, <4>1 DEF LimitOK
      <4>3. f.amax = r.amax BY <2>1, <2>2, <2>3, <4>1
      <4> QED BY <2>3, <2>6, <2>7, <3>1, <4>2, <4>3
    <3>2. CASE ~(f.format = "approval" /\ x.limit > 0) BY <2>6, <3>2
    <3> QED BY <3>1, <3>2
  <2>13. g.top = f.top /\ g.topK = f.topK
    <3>1. CASE ~x.topK /\ f.format = "ranking"
      <4>1. r.topK = -1 BY <2>4, <3>1
      <4>2. f.topK = 1 BY <2>1, <2>2, <4>1
      <4>3. ~f.top BY <2>1, <2>2, <4>1
      <4>4. ~g.top BY <2>6, <3>1, Zenon
      <4>5. f.top = FALSE BY <2>5, <4>3, Zenon DEF Flag
      <4>6. g.top = FALSE BY <2>6, <4>4, Zenon
      <4> QED BY <2>6, <3>1, <4>2, <4>5, <4>6
    <3>2. CASE ~(~x.topK /\ f.format = "ranking")
      <4>1. g.top = f.top BY <2>5, <2>6, <3>2, Zenon DEF Flag
      <4>2. g.topK = f.topK BY <2>6, <3>2
      <4> QED BY <4>1, <4>2
    <3> QED BY <3>1, <3>2
  <2>14. Fresh(g, r) BY <2>1, <2>6, <2>9, <2>10, <2>11, <2>12, <2>13 DEF Fresh, h
  <2> QED BY <2>14 DEF g
<1> QED BY <1>1, <1>2

\* What is sent of a form.
LEMMA BodyIs ==
  ASSUME FormParameters, NEW p \in FormTab
  PROVE  LET f == p.form
             x == Form!RuleOf(p)
             b == Form!Body(p)
         IN  /\ b \in StoredRules /\ b.rule = f.rule /\ b.format = f.format
             /\ b.committee = IF x.committee THEN f.committee ELSE -1
             /\ b.quota = (f.quota /\ x.quota)
             /\ b.publish = IF f.delay THEN f.publish ELSE -1
             /\ b.amax = IF f.format = "approval" THEN Form!EffectiveMax(p) ELSE -1
             /\ b.topK = IF f.format = "ranking" /\ f.top
                         THEN Form!Clamp(f.topK, 1, Form!CountOf(p)) ELSE -1
             /\ b.scale = IF f.format = "score" THEN f.scale ELSE Form!NoScale
<1> DEFINE f == p.form
           x == Form!RuleOf(p)
           b == Form!Body(p)
           n == IF x.committee THEN f.committee ELSE -1
           q == f.quota /\ x.quota
           u == IF f.delay THEN f.publish ELSE -1
           a == IF f.format = "approval" THEN Form!EffectiveMax(p) ELSE -1
           k == IF f.format = "ranking" /\ f.top THEN Form!Clamp(f.topK, 1, Form!CountOf(p)) ELSE -1
           s == IF f.format = "score" THEN f.scale ELSE Form!NoScale
<1>1. b = [rule |-> f.rule, format |-> f.format, committee |-> n, quota |-> q, publish |-> u,
           amax |-> a, topK |-> k, scale |-> s]
  BY Zenon DEF Form!Body
<1>2. f \in FormFields BY FormTabFields
<1>3. q \in Flag BY Truths, Zenon
<1>4. n \in Int /\ u \in Times /\ a \in Int
  <2>1. f.committee \in Int /\ f.publish \in Times /\ Form!EffectiveMax(p) \in Int /\ -1 \in Times
    BY <1>2, FormFieldsAre, EffectiveMaxIs DEF FormParameters
  <2> QED BY <2>1
<1>5. k \in Int
  <2>1. f.topK \in Int /\ Form!CountOf(p) \in Nat \ {0} BY <1>2, FormFieldsAre, RuleOfIs
  <2>2. Form!Clamp(f.topK, 1, Form!CountOf(p)) \in Int
    <3> DEFINE c == Form!CountOf(p)
               o == f.topK
    <3> HIDE DEF c, o
    <3>1. c \in Nat \ {0} /\ o \in Int BY <2>1 DEF c, o
    <3>2. Form!Clamp(o, 1, c) \in 1..c BY <3>1, ClampIs
    <3>3. Form!Clamp(o, 1, c) \in Int BY <3>1, <3>2
    <3> QED BY <3>3 DEF c, o
  <2> QED BY <2>2
<1>6. s \in ScaleSet
  <2>1. Form!NoScale \in ScaleSet BY DEF Form!NoScale, ScaleSet
  <2> QED BY <1>2, <2>1, FormFieldsAre
<1> HIDE DEF f, x, b, n, q, u, a, k, s
<1>7. b \in StoredRules BY <1>1, <1>2, <1>3, <1>4, <1>5, <1>6, FormFieldsAre DEF StoredRules
<1>8. /\ b.rule = f.rule /\ b.format = f.format /\ b.committee = n /\ b.quota = q
      /\ b.publish = u /\ b.amax = a /\ b.topK = k /\ b.scale = s
  BY <1>1
<1> QED BY <1>7, <1>8, Zenon DEF f, x, b, n, q, u, a, k, s

\* The checks before it is sent.
LEMMA ValidIs ==
  ASSUME FormParameters, NEW p \in FormTab, Form!Valid(p)
  PROVE  /\ p.item /\ Form!RuleOf(p) = Named(p.form) /\ Form!CountOf(p) = Count
         /\ Named(p.form).tally /\ p.form.format \in Named(p.form).formats
         /\ Named(p.form).committee => p.form.committee >= 1
         /\ p.form.format = "score" /\ Named(p.form).range =>
              /\ p.form.scale.step > 0 /\ p.form.scale.min <= p.form.scale.max
              /\ (p.form.scale.max - p.form.scale.min) % p.form.scale.step = 0
<1>1. Form!RuleOf(p) # Form!NoRule /\ p.item BY DEF Form!Valid
<1>2. Form!RuleOf(p) = Named(p.form) /\ Form!CountOf(p) = Count BY <1>1, RuleOfIs
<1> QED BY <1>1, <1>2 DEF Form!Valid

LEMMA BodyLimit ==
  ASSUME FormParameters, NEW p \in FormTab, Form!Valid(p) PROVE LimitOK(Form!Body(p))
<1> DEFINE b == Form!Body(p)
           f == p.form
<1>1. b.rule = f.rule /\ b.format = f.format
      /\ b.amax = (IF f.format = "approval" THEN Form!EffectiveMax(p) ELSE -1)
  BY BodyIs
<1>2. Form!RuleOf(p) = Named(f) /\ Form!CountOf(p) = Count BY ValidIs
<1>3. Named(b) = Named(f) BY <1>1 DEF Named
<1>4. Form!EffectiveMax(p) =
        Form!Clamp(IF Named(f).limit > 0 THEN Named(f).limit ELSE f.amax, 1, Count)
  BY <1>2, EffectiveMaxIs
<1> HIDE DEF b, f
<1>5. LimitOK(b) BY <1>1, <1>3, <1>4 DEF LimitOK
<1> QED BY <1>5 DEF b

\* What UpdateRules makes of a request.
LEMMA MergedIs ==
  ASSUME NEW b, NEW r
  PROVE  LET x == Named(b)
             m == Form!Merged(b, r)
             k == IF b.topK = -1 THEN r.topK ELSE b.topK
         IN  /\ m.rule = b.rule /\ m.format = b.format /\ m.count = Count
             /\ m.committee = (IF x.committee
                               THEN IF b.committee = -1 THEN r.committee ELSE b.committee
                               ELSE -1)
             /\ m.quota = (x.quota /\ (b.quota \/ r.quota))
             /\ m.publish = (IF b.publish = -1 THEN r.publish ELSE b.publish)
             /\ m.amax = (IF b.amax = -1 THEN r.amax ELSE b.amax)
             /\ b.format # "ranking" => m.topK = -1
             /\ b.format = "ranking" =>
                  m.topK = IF k = -1 THEN -1 ELSE Form!Clamp(k, 1, Count)
             /\ m.scale = (IF b.scale = Form!NoScale THEN r.scale ELSE b.scale)
<1> DEFINE x == Named(b)
           k == IF b.topK = -1 THEN r.topK ELSE b.topK
           n == IF x.committee THEN IF b.committee = -1 THEN r.committee ELSE b.committee ELSE -1
           q == x.quota /\ (b.quota \/ r.quota)
           u == IF b.publish = -1 THEN r.publish ELSE b.publish
           a == IF b.amax = -1 THEN r.amax ELSE b.amax
           t == CASE b.format # "ranking" -> -1
                  [] b.format = "ranking" /\ k = -1 -> -1
                  [] OTHER -> Form!Clamp(k, 1, Count)
           s == IF b.scale = Form!NoScale THEN r.scale ELSE b.scale
           m == Form!Merged(b, r)
<1>1. m = [rule |-> b.rule, format |-> b.format, count |-> Count, committee |-> n, quota |-> q,
           publish |-> u, amax |-> a, topK |-> t, scale |-> s]
  BY Zenon DEF Form!Merged, Form!Kept, Named
<1>2. /\ b.format # "ranking" => t = -1
      /\ b.format = "ranking" => t = IF k = -1 THEN -1 ELSE Form!Clamp(k, 1, Count)
  OBVIOUS
<1> HIDE DEF m, t, n, q, u, a, s
<1>3. /\ m.rule = b.rule /\ m.format = b.format /\ m.count = Count /\ m.committee = n
      /\ m.quota = q /\ m.publish = u /\ m.amax = a /\ m.topK = t /\ m.scale = s
  BY <1>1
<1> QED BY <1>2, <1>3, Zenon DEF m, n, q, u, a, s

LEMMA WrittenIs ==
  ASSUME NEW m
  PROVE  LET w == Form!Written(m)
         IN  /\ w = [rule |-> w.rule, format |-> w.format, committee |-> w.committee,
                     quota |-> w.quota, publish |-> w.publish, amax |-> w.amax,
                     topK |-> w.topK, scale |-> w.scale]
             /\ w.rule = m.rule /\ w.format = m.format /\ w.committee = m.committee
             /\ w.quota = m.quota /\ w.publish = m.publish
             /\ w.amax = (IF m.format = "approval" THEN m.amax ELSE -1)
             /\ w.topK = (IF m.format = "ranking" THEN m.topK ELSE -1)
             /\ w.scale = (IF m.format = "score" THEN m.scale ELSE Form!NoScale)
<1> DEFINE w == Form!Written(m)
           a == IF m.format = "approval" THEN m.amax ELSE -1
           t == IF m.format = "ranking" THEN m.topK ELSE -1
           s == IF m.format = "score" THEN m.scale ELSE Form!NoScale
<1>1. w = [rule |-> m.rule, format |-> m.format, committee |-> m.committee, quota |-> m.quota,
           publish |-> m.publish, amax |-> a, topK |-> t, scale |-> s]
  BY Zenon DEF Form!Written
<1> HIDE DEF w, a, t, s
<1>2. /\ w = [rule |-> w.rule, format |-> w.format, committee |-> w.committee,
              quota |-> w.quota, publish |-> w.publish, amax |-> w.amax,
              topK |-> w.topK, scale |-> w.scale]
      /\ w.rule = m.rule /\ w.format = m.format /\ w.committee = m.committee
      /\ w.quota = m.quota /\ w.publish = m.publish
      /\ w.amax = a /\ w.topK = t /\ w.scale = s
  BY <1>1
<1> QED BY <1>2, Zenon DEF w, a, t, s

\* What UpdateRules accepts of a request goes together, whatever was read before it.
LEMMA WrittenSound ==
  ASSUME FormParameters, NEW b \in StoredRules, NEW r \in StoredRules, LimitOK(b),
         Form!AcceptsRules(Form!Merged(b, r))
  PROVE  LET w == Form!Written(Form!Merged(b, r)) IN w \in StoredRules /\ StoredOK(w)
<1> DEFINE m == Form!Merged(b, r)
           w == Form!Written(m)
           x == Named(b)
           k == IF b.topK = -1 THEN r.topK ELSE b.topK
<1>1. /\ m.rule = b.rule /\ m.format = b.format /\ m.count = Count
      /\ m.committee = (IF x.committee THEN IF b.committee = -1 THEN r.committee ELSE b.committee
                        ELSE -1)
      /\ m.quota = (x.quota /\ (b.quota \/ r.quota))
      /\ m.publish = (IF b.publish = -1 THEN r.publish ELSE b.publish)
      /\ m.amax = (IF b.amax = -1 THEN r.amax ELSE b.amax)
      /\ b.format # "ranking" => m.topK = -1
      /\ b.format = "ranking" => m.topK = IF k = -1 THEN -1 ELSE Form!Clamp(k, 1, Count)
      /\ m.scale = (IF b.scale = Form!NoScale THEN r.scale ELSE b.scale)
  BY MergedIs
<1>2. /\ w = [rule |-> w.rule, format |-> w.format, committee |-> w.committee,
              quota |-> w.quota, publish |-> w.publish, amax |-> w.amax,
              topK |-> w.topK, scale |-> w.scale]
      /\ w.rule = m.rule /\ w.format = m.format /\ w.committee = m.committee
      /\ w.quota = m.quota /\ w.publish = m.publish
      /\ w.amax = (IF m.format = "approval" THEN m.amax ELSE -1)
      /\ w.topK = (IF m.format = "ranking" THEN m.topK ELSE -1)
      /\ w.scale = (IF m.format = "score" THEN m.scale ELSE Form!NoScale)
  BY WrittenIs
<1>3. Form!BallotParamsValid(m) /\ Form!Compatible(m, Form!Find(Offers, m.rule))
  BY DEF Form!AcceptsRules
<1>4. Form!Find(Offers, m.rule) = x /\ Named(w) = x BY <1>1, <1>2 DEF Named
<1>5. Count \in Nat \ {0} BY DEF FormParameters
<1>6. m.topK \in Int
  <2>1. k \in Int BY StoredFields
  <2> HIDE DEF k, m
  <2>2. Form!Clamp(k, 1, Count) \in 1..Count BY <1>5, <2>1, ClampIs
  <2>3. Form!Clamp(k, 1, Count) \in Int BY <1>5, <2>2
  <2> QED BY <1>1, <2>3
<1>7. m.quota \in Flag BY <1>1, Truths, Zenon
<1>8. m.scale \in ScaleSet /\ Form!NoScale \in ScaleSet
  <2>1. Form!NoScale \in ScaleSet BY DEF Form!NoScale, ScaleSet
  <2> QED BY <1>1, <2>1, StoredFields
<1> HIDE DEF m, w, x, k
<1>9. /\ b.format \in TallyFormats /\ b.rule \in OfferNames
      /\ m.committee \in Int /\ m.publish \in Times /\ m.amax \in Int
  BY <1>1, StoredFields
<1>10. w.amax \in Int /\ w.topK \in Int /\ w.scale \in ScaleSet
  BY <1>2, <1>6, <1>8, <1>9
<1>11. w \in StoredRules BY <1>1, <1>2, <1>7, <1>9, <1>10 DEF StoredRules
<1>12. /\ x.tally /\ b.format \in x.formats
       /\ x.committee => m.committee \in 1..Count
       /\ m.quota => x.quota
       /\ x.approval => m.amax # -1
       /\ m.topK # -1 => x.topK
       /\ x.range => m.scale # Form!NoScale
  BY <1>1, <1>3, <1>4 DEF Form!Compatible
<1>13. /\ b.format = "approval" => m.amax \in 1..Count
       /\ b.format = "ranking" => (m.topK # -1 => m.topK \in 1..Count)
       /\ b.format = "score" => /\ m.scale.step > 0 /\ m.scale.min <= m.scale.max
                                /\ (m.scale.max - m.scale.min) % m.scale.step = 0
  BY <1>1, <1>3 DEF Form!BallotParamsValid
<1>14. LimitOK(w)
  <2> SUFFICES ASSUME w.format = "approval", x.limit > 0
               PROVE  w.amax = Form!Clamp(x.limit, 1, Count)
    BY <1>4 DEF LimitOK
  <2>1. b.format = "approval" BY <1>1, <1>2
  <2>2. b.amax = Form!Clamp(x.limit, 1, Count) BY <2>1 DEF LimitOK, x
  <2>3. x \in OfferSet BY <1>9, FindIs DEF x, Named
  <2>4. x.limit \in Int BY <2>3 DEF FormParameters
  <2>5. b.amax \in 1..Count
    <3> DEFINE o == x.limit
    <3> HIDE DEF o
    <3>1. o \in Int BY <2>4 DEF o
    <3>2. Form!Clamp(o, 1, Count) \in 1..Count BY <1>5, <3>1, ClampIs
    <3> QED BY <2>2, <3>2 DEF o
  <2>6. m.amax = b.amax BY <1>1, <1>5, <2>5
  <2> QED BY <1>1, <1>2, <2>1, <2>2, <2>6
<1>15. IF x.committee THEN w.committee \in 1..Count ELSE w.committee = -1
  BY <1>1, <1>2, <1>12
<1>16. IF w.format = "approval" THEN w.amax \in 1..Count ELSE w.amax = -1
  BY <1>1, <1>2, <1>13
<1>17. w.topK # -1 => w.format = "ranking" /\ x.topK /\ w.topK \in 1..Count
  BY <1>1, <1>2, <1>12, <1>13
<1>18. IF w.format = "score"
       THEN /\ w.scale.step > 0 /\ w.scale.min <= w.scale.max
            /\ (w.scale.max - w.scale.min) % w.scale.step = 0
       ELSE w.scale = Form!NoScale
  BY <1>1, <1>2, <1>13
<1>19. x.tally /\ w.format \in x.formats /\ (w.quota => x.quota) BY <1>1, <1>2, <1>12
<1>20. StoredOK(w) BY <1>4, <1>14, <1>15, <1>16, <1>17, <1>18, <1>19 DEF StoredOK
<1> QED BY <1>11, <1>20 DEF w, m

\* Saving a form that says what the rules say leaves them as they are.
LEMMA UntouchedKeeps ==
  ASSUME FormParameters, NEW p \in FormTab, NEW r \in StoredRules, StoredOK(r),
         Fresh(p.form, r), Form!Valid(p)
  PROVE  Form!Written(Form!Merged(Form!Body(p), r)) = r
<1> DEFINE f == p.form
           h == Form!Hydrated(r)
           b == Form!Body(p)
           m == Form!Merged(b, r)
           w == Form!Written(m)
           x == Named(r)
           e == Form!EffectiveMax(p)
           k == IF b.topK = -1 THEN r.topK ELSE b.topK
<1>1. /\ f.rule = h.rule /\ f.format = h.format /\ f.quota = h.quota /\ f.publish = h.publish
      /\ f.delay = h.delay /\ f.amax = h.amax /\ f.top = h.top /\ f.topK = h.topK
      /\ f.scale = h.scale /\ (f.committee = h.committee \/ ~x.committee)
  BY DEF Fresh
<1>2. /\ h.rule = r.rule /\ h.format = r.format /\ h.quota = r.quota /\ h.publish = r.publish
      /\ h.delay = (r.publish # -1)
      /\ h.committee = (IF r.committee = -1 THEN Count ELSE r.committee)
      /\ h.amax = (IF r.amax = -1 THEN 1 ELSE r.amax)
      /\ h.top = (r.topK # -1) /\ h.topK = (IF r.topK = -1 THEN 1 ELSE r.topK)
      /\ h.scale = (IF r.scale = Form!NoScale THEN Form!Blank.scale ELSE r.scale)
  BY DEF Form!Hydrated
<1>3. Form!RuleOf(p) = x /\ Form!CountOf(p) = Count /\ Named(b) = x
  <2>1. Form!RuleOf(p) = Named(f) /\ Form!CountOf(p) = Count BY ValidIs
  <2>2. b.rule = f.rule BY BodyIs
  <2> QED BY <1>1, <1>2, <2>1, <2>2 DEF Named
<1>4. /\ b.rule = f.rule /\ b.format = f.format
      /\ b.committee = (IF x.committee THEN f.committee ELSE -1)
      /\ b.quota = (f.quota /\ x.quota)
      /\ b.publish = (IF f.delay THEN f.publish ELSE -1)
      /\ b.amax = (IF f.format = "approval" THEN e ELSE -1)
      /\ b.topK = (IF f.format = "ranking" /\ f.top THEN Form!Clamp(f.topK, 1, Count) ELSE -1)
      /\ b.scale = (IF f.format = "score" THEN f.scale ELSE Form!NoScale)
  BY <1>3, BodyIs
<1>5. e = Form!Clamp(IF x.limit > 0 THEN x.limit ELSE f.amax, 1, Count)
  BY <1>3, EffectiveMaxIs
<1>6. /\ m.rule = b.rule /\ m.format = b.format
      /\ m.committee = (IF x.committee THEN IF b.committee = -1 THEN r.committee ELSE b.committee
                        ELSE -1)
      /\ m.quota = (x.quota /\ (b.quota \/ r.quota))
      /\ m.publish = (IF b.publish = -1 THEN r.publish ELSE b.publish)
      /\ m.amax = (IF b.amax = -1 THEN r.amax ELSE b.amax)
      /\ b.format # "ranking" => m.topK = -1
      /\ b.format = "ranking" => m.topK = IF k = -1 THEN -1 ELSE Form!Clamp(k, 1, Count)
      /\ m.scale = (IF b.scale = Form!NoScale THEN r.scale ELSE b.scale)
  BY <1>3, MergedIs
<1>7. /\ w = [rule |-> w.rule, format |-> w.format, committee |-> w.committee,
              quota |-> w.quota, publish |-> w.publish, amax |-> w.amax,
              topK |-> w.topK, scale |-> w.scale]
      /\ w.rule = m.rule /\ w.format = m.format /\ w.committee = m.committee
      /\ w.quota = m.quota /\ w.publish = m.publish
      /\ w.amax = (IF m.format = "approval" THEN m.amax ELSE -1)
      /\ w.topK = (IF m.format = "ranking" THEN m.topK ELSE -1)
      /\ w.scale = (IF m.format = "score" THEN m.scale ELSE Form!NoScale)
  BY WrittenIs
<1>8. /\ IF x.committee THEN r.committee \in 1..Count ELSE r.committee = -1
      /\ r.quota => x.quota
      /\ IF r.format = "approval" THEN r.amax \in 1..Count ELSE r.amax = -1
      /\ LimitOK(r)
      /\ r.topK # -1 => r.format = "ranking" /\ x.topK /\ r.topK \in 1..Count
      /\ r.format = "score" => r.scale.step > 0
      /\ r.format # "score" => r.scale = Form!NoScale
  BY DEF StoredOK
<1>9. r.format = "score" => r.scale # Form!NoScale BY <1>8 DEF Form!NoScale
<1>10. /\ r.quota \in Flag /\ r.committee \in Int /\ r.amax \in Int /\ r.topK \in Int
       /\ r = [rule |-> r.rule, format |-> r.format, committee |-> r.committee,
               quota |-> r.quota, publish |-> r.publish, amax |-> r.amax,
               topK |-> r.topK, scale |-> r.scale]
  BY StoredFields DEF StoredRules
<1>11. Count \in Nat \ {0} BY DEF FormParameters
<1>12. r.format = "approval" => e = r.amax
  <2> SUFFICES ASSUME r.format = "approval" PROVE e = r.amax OBVIOUS
  <2>1. CASE x.limit > 0
    <3>1. r.amax = Form!Clamp(x.limit, 1, Count) BY <1>8, <2>1 DEF LimitOK
    <3> QED BY <1>5, <2>1, <3>1
  <2>2. CASE ~(x.limit > 0)
    <3>1. f.amax = r.amax /\ r.amax \in 1..Count BY <1>1, <1>2, <1>8, <1>11
    <3> QED BY <1>5, <1>11, <2>2, <3>1, ClampIs
  <2> QED BY <2>1, <2>2
<1>13. r.topK \in 1..Count => Form!Clamp(r.topK, 1, Count) = r.topK BY <1>11, ClampIs
<1> HIDE DEF f, h, b, m, w, x, e, k
<1>14. w.rule = r.rule /\ w.format = r.format BY <1>1, <1>2, <1>4, <1>6, <1>7
<1>15. w.committee = r.committee BY <1>1, <1>2, <1>4, <1>6, <1>7, <1>8, <1>11
<1>16. w.quota = r.quota
  <2>1. f.quota = r.quota BY <1>1, <1>2
  <2>2. w.quota = (x.quota /\ ((r.quota /\ x.quota) \/ r.quota)) BY <1>4, <1>6, <1>7, <2>1
  <2>3. r.quota \in BOOLEAN BY <1>10 DEF Flag
  <2>4. CASE r.quota = TRUE BY <1>8, <2>2, <2>4
  <2>5. CASE r.quota = FALSE BY <2>2, <2>5
  <2> QED BY <2>3, <2>4, <2>5
<1>17. w.publish = r.publish BY <1>1, <1>2, <1>4, <1>6, <1>7
<1>18. w.amax = r.amax BY <1>1, <1>2, <1>4, <1>6, <1>7, <1>8, <1>11, <1>12
<1>19. w.topK = r.topK
  <2>1. CASE r.format # "ranking" BY <1>8, <1>14, <1>7, <2>1
  <2>2. CASE r.format = "ranking"
    <3>1. CASE r.topK = -1
      <4>1. b.topK = -1 BY <1>1, <1>2, <1>4, <3>1
      <4>2. k = -1 BY <3>1, <4>1 DEF k
      <4> QED BY <1>1, <1>2, <1>4, <1>6, <1>7, <2>2, <3>1, <4>2
    <3>2. CASE r.topK # -1
      <4>1. b.topK = r.topK
        <5>1. f.topK = r.topK /\ f.top /\ f.format = "ranking" BY <1>1, <1>2, <2>2, <3>2
        <5>2. r.topK \in 1..Count BY <1>8, <3>2
        <5> QED BY <1>4, <1>13, <5>1, <5>2
      <4>2. k = r.topK BY <3>2, <4>1 DEF k
      <4> QED BY <1>1, <1>2, <1>4, <1>6, <1>7, <1>8, <1>13, <2>2, <3>2, <4>2
    <3> QED BY <3>1, <3>2
  <2> QED BY <2>1, <2>2
<1>20. w.scale = r.scale BY <1>1, <1>2, <1>4, <1>6, <1>7, <1>8, <1>9
<1>21. w = r BY <1>7, <1>10, <1>14, <1>15, <1>16, <1>17, <1>18, <1>19, <1>20
<1> QED BY <1>21 DEF w, m, b

\* What the page lets through the API accepts.
LEMMA ReadyAccepted ==
  ASSUME FormParameters, NEW p \in FormTab, NEW r \in StoredRules, Form!Settled(p),
         Form!Valid(p), ~Form!Unsendable(p)
  PROVE  Form!AcceptsRules(Form!Merged(Form!Body(p), r))
<1> DEFINE f == p.form
           b == Form!Body(p)
           m == Form!Merged(b, r)
           x == Named(f)
           e == Form!EffectiveMax(p)
           k == IF b.topK = -1 THEN r.topK ELSE b.topK
           g == Form!Corrected(p)
<1>1. /\ p.item /\ Form!RuleOf(p) = x /\ Form!CountOf(p) = Count
      /\ x.tally /\ f.format \in x.formats
      /\ x.committee => f.committee >= 1
      /\ f.format = "score" /\ x.range =>
           /\ f.scale.step > 0 /\ f.scale.min <= f.scale.max
           /\ (f.scale.max - f.scale.min) % f.scale.step = 0
  BY ValidIs
<1>2. x \in OfferSet /\ x # Form!NoRule BY RuleOfIs
<1>3. Count \in Nat \ {0} BY DEF FormParameters
<1>4. x.committee => f.committee \in 1..Count
  <2>1. g = f BY DEF Form!Settled
  <2>2. g.committee = CASE ~x.committee -> 1
                        [] x.committee /\ f.committee > Count -> Count
                        [] OTHER -> f.committee
    BY <1>1, <1>2, CorrectedIs
  <2>3. f.committee \in Int BY FormTabFields, FormFieldsAre
  <2> HIDE DEF f, g, x
  <2> QED BY <1>1, <1>3, <2>1, <2>2, <2>3
<1>5. ~(f.format = "ranking" /\ x.approval) BY <1>1 DEF Form!Unsendable
<1>6. /\ x.approval => "score" \notin x.formats
      /\ x.range => x.formats = {"score"}
      /\ "score" \in x.formats => x.range
      /\ "ranking" \in x.formats /\ ~x.approval => x.topK
      /\ x.formats \subseteq TallyFormats
  BY <1>2 DEF FormParameters
<1>7. /\ b.rule = f.rule /\ b.format = f.format
      /\ b.committee = (IF x.committee THEN f.committee ELSE -1)
      /\ b.amax = (IF f.format = "approval" THEN e ELSE -1)
      /\ b.scale = (IF f.format = "score" THEN f.scale ELSE Form!NoScale)
  BY <1>1, BodyIs
<1>8. Named(b) = x BY <1>7 DEF Named
<1>9. /\ m.rule = b.rule /\ m.format = b.format /\ m.count = Count
      /\ m.committee = (IF x.committee THEN IF b.committee = -1 THEN r.committee ELSE b.committee
                        ELSE -1)
      /\ m.quota = (x.quota /\ (b.quota \/ r.quota))
      /\ m.amax = (IF b.amax = -1 THEN r.amax ELSE b.amax)
      /\ b.format # "ranking" => m.topK = -1
      /\ b.format = "ranking" => m.topK = IF k = -1 THEN -1 ELSE Form!Clamp(k, 1, Count)
      /\ m.scale = (IF b.scale = Form!NoScale THEN r.scale ELSE b.scale)
  BY <1>8, MergedIs
<1>10. e \in 1..Count BY <1>1, EffectiveMaxIs
<1>11. k # -1 => Form!Clamp(k, 1, Count) \in 1..Count
  <2>1. k \in Int
    <3>1. b \in StoredRules BY BodyIs
    <3> HIDE DEF b
    <3> QED BY <3>1, StoredFields
  <2> HIDE DEF k
  <2> QED BY <1>3, <2>1, ClampIs
<1>12. Form!Find(Offers, m.rule) = x BY <1>7, <1>9 DEF Named
<1> HIDE DEF f, b, m, x, e, k, g
<1>13. m.format = f.format BY <1>7, <1>9
<1>14. f.format = "approval" => m.amax \in 1..Count BY <1>3, <1>7, <1>9, <1>10
<1>15. m.topK # -1 => f.format = "ranking" /\ m.topK \in 1..Count BY <1>7, <1>9, <1>11
<1>16. f.format = "score" => /\ m.scale # Form!NoScale
                             /\ m.scale.step > 0 /\ m.scale.min <= m.scale.max
                             /\ (m.scale.max - m.scale.min) % m.scale.step = 0
  <2> SUFFICES ASSUME f.format = "score"
               PROVE  m.scale = f.scale /\ f.scale # Form!NoScale /\ x.range
    BY <1>1
  <2>1. x.range BY <1>1, <1>6
  <2>2. f.scale # Form!NoScale BY <1>1, <2>1 DEF Form!NoScale
  <2> QED BY <1>7, <1>9, <2>1, <2>2
<1>17. x.committee => m.committee \in 1..Count BY <1>3, <1>4, <1>7, <1>9
<1>18. f.format \in TallyFormats BY <1>1, <1>6
<1>19. Form!BallotParamsValid(m)
  <2>1. CASE f.format = "approval" BY <1>9, <1>13, <1>14, <2>1 DEF Form!BallotParamsValid
  <2>2. CASE f.format = "ranking" BY <1>9, <1>13, <1>15, <2>2 DEF Form!BallotParamsValid
  <2>3. CASE f.format = "score" BY <1>13, <1>16, <2>3 DEF Form!BallotParamsValid
  <2> QED BY <1>18, <2>1, <2>2, <2>3 DEF TallyFormats
<1>20. x.approval => m.amax # -1
  <2> SUFFICES ASSUME x.approval PROVE m.amax # -1 OBVIOUS
  <2>1. f.format = "approval" BY <1>1, <1>5, <1>6, <1>18 DEF TallyFormats
  <2> QED BY <1>3, <1>14, <2>1
<1>21. m.topK # -1 => x.topK BY <1>1, <1>5, <1>6, <1>15
<1>22. x.range => m.scale # Form!NoScale BY <1>1, <1>6, <1>16
<1>23. m.quota => x.quota BY <1>9
<1>24. Form!Compatible(m, x)
  BY <1>1, <1>9, <1>13, <1>17, <1>20, <1>21, <1>22, <1>23 DEF Form!Compatible
<1>25. Form!AcceptsRules(m) BY <1>2, <1>12, <1>19, <1>24 DEF Form!AcceptsRules
<1> QED BY <1>25 DEF m, b

-----------------------------------------------------------------------------
\* A step of one tab.
LEMMA TabStep ==
  ASSUME FormInv, NEW t \in FormTabs, NEW q \in FormTab, page' = [page EXCEPT ![t] = q],
         api' = api, past' \in FormPast, past'.writes = past.writes,
         TabOK(q, api.rules, past.writes)
  PROVE  FormInv'
<1>1. page \in [FormTabs -> FormTab] BY DEF FormInv
<1>2. page' \in [FormTabs -> FormTab] BY <1>1
<1>3. page'[t] = q /\ \A u \in FormTabs \ {t} : page'[u] = page[u] BY <1>1
<1>4. \A u \in FormTabs : TabOK(page'[u], api'.rules, past'.writes)
  <2> TAKE u \in FormTabs
  <2>1. TabOK(page[u], api.rules, past.writes) BY DEF FormInv
  <2> QED BY <1>3, <2>1
<1> QED BY <1>2, <1>4 DEF FormInv

LEMMA NoCallIs ==
  ASSUME FormParameters
  PROVE  /\ Form!NoCall \in SaveCall /\ Form!NoCall.at = "none"
         /\ \A a \in {"sent", "lost"}, b \in StoredRules :
              /\ [Form!NoCall EXCEPT !.at = a] \in SaveCall
              /\ [Form!NoCall EXCEPT !.at = a].at = a
              /\ [Form!NoCall EXCEPT !.at = a, !.body = b] \in SaveCall
              /\ [Form!NoCall EXCEPT !.at = a, !.body = b].at = a
              /\ [Form!NoCall EXCEPT !.at = a, !.body = b].body = b
<1> DEFINE n == Form!Blank
<1>1. Form!NoCall = [at |-> "none", body |-> n, read |-> n, status |-> "draft"]
  BY DEF Form!NoCall
<1>2. n \in StoredRules \cup {Form!Blank} OBVIOUS
<1> HIDE DEF n
<1> QED BY <1>1, <1>2 DEF SaveCall

LEMMA SaveCallFields ==
  ASSUME NEW c \in SaveCall
  PROVE  /\ c.at \in {"none", "sent", "read", "saved", "refused", "lost"}
         /\ c.body \in StoredRules \cup {Form!Blank} /\ c.read \in StoredRules \cup {Form!Blank}
         /\ c.status \in {"draft", "active"}
BY DEF SaveCall

LEMMA FormLoads ==
  ASSUME FormParameters, FormInv, NEW t \in FormTabs, Form!LoadEnds(t) PROVE FormInv'
<1> DEFINE p == page[t]
           h == Form!Hydrated(api.rules)
           yes == TRUE
           no == FALSE
           q == [p EXCEPT !.form = h, !.item = yes, !.loading = no, !.touched = no,
                          !.seen = past.writes]
<1>1. p \in FormTab /\ TabOK(p, api.rules, past.writes) /\ api.rules \in StoredRules
      /\ past \in FormPast /\ past.writes \in Nat
  BY DEF FormInv, FormPast
<1>2. h \in FormFields /\ Fresh(h, api.rules) BY <1>1, HydratedIs
<1>3. yes \in Flag /\ no \in Flag /\ yes # no BY Flags
<1>4. page' = [page EXCEPT ![t] = q] /\ api' = api /\ past' = past
  BY DEF Form!LoadEnds, FormInv
<1> HIDE DEF p, h, yes, no
<1>5. q \in FormTab BY <1>1, <1>2, <1>3 DEF FormTab
<1>6. q.form = h /\ q.seen = past.writes /\ q.call = p.call /\ q.item = yes BY <1>1 DEF FormTab
<1>7. CallOK(p.call) BY <1>1 DEF TabOK
<1> HIDE DEF q
<1>8. TabOK(q, api.rules, past.writes)
  <2>1. q.seen <= past.writes BY <1>1, <1>6
  <2>2. Fresh(q.form, api.rules) BY <1>2, <1>6
  <2>3. q.item BY <1>6 DEF yes
  <2> QED BY <1>6, <1>7, <2>1, <2>2, <2>3 DEF TabOK
<1> QED BY <1>1, <1>4, <1>5, <1>8, TabStep

LEMMA FormOffers ==
  ASSUME FormParameters, FormInv, NEW t \in FormTabs, Form!RulesArrive(t) PROVE FormInv'
<1> DEFINE p == page[t]
           yes == TRUE
           q == [p EXCEPT !.offered = yes]
<1>1. p \in FormTab /\ TabOK(p, api.rules, past.writes) /\ past \in FormPast
      /\ page \in [FormTabs -> FormTab]
  BY DEF FormInv
<1>2. yes \in Flag BY Flags
<1>3. Form!Find(Offers, Form!Blank.rule) # Form!NoRule
  <2>1. Form!Blank.rule = "plurality" BY DEF Form!Blank
  <2> QED BY <2>1, FindIs DEF FormParameters
<1>4. page' = [page EXCEPT ![t].offered = yes, ![t].form.rule = p.form.rule]
      /\ api' = api /\ past' = past
  BY <1>3 DEF Form!RulesArrive
<1>5. [p.form EXCEPT !.rule = p.form.rule] = p.form
  <2>1. p.form \in FormFields BY <1>1, FormTabFields
  <2> HIDE DEF p
  <2> QED BY <2>1 DEF FormFields
<1> HIDE DEF yes
<1>6. page' = [page EXCEPT ![t] = q]
  <2>1. page' = [page EXCEPT ![t] = [p EXCEPT !.offered = yes,
                                             !.form = [p.form EXCEPT !.rule = p.form.rule]]]
    BY <1>1, <1>4
  <2>2. [p EXCEPT !.offered = yes, !.form = p.form] = q BY <1>1 DEF FormTab
  <2> QED BY <1>5, <2>1, <2>2
<1> HIDE DEF p
<1>7. q \in FormTab BY <1>1, <1>2 DEF FormTab
<1>8. q.form = p.form /\ q.seen = p.seen /\ q.call = p.call /\ q.item = p.item
      /\ q.touched = p.touched
  BY <1>1 DEF FormTab
<1> HIDE DEF q
<1>9. TabOK(q, api.rules, past.writes) BY <1>1, <1>8 DEF TabOK
<1> QED BY <1>1, <1>4, <1>6, <1>7, <1>9, TabStep

LEMMA FormCorrects ==
  ASSUME FormParameters, FormInv, NEW t \in FormTabs, Form!Correct(t) PROVE FormInv'
<1> DEFINE p == page[t]
           g == Form!Corrected(p)
           q == [p EXCEPT !.form = g]
<1>1. p \in FormTab /\ TabOK(p, api.rules, past.writes) /\ api.rules \in StoredRules
      /\ StoredOK(api.rules) /\ past \in FormPast
  BY DEF FormInv
<1>2. g \in FormFields BY <1>1, CorrectedIs
<1>3. page' = [page EXCEPT ![t] = q] /\ api' = api /\ past' = past
  BY DEF Form!Correct, FormInv
<1>4. p.item /\ Fresh(p.form, api.rules) => Fresh(g, api.rules) BY <1>1, CorrectedFresh
<1> HIDE DEF p, g
<1>5. q \in FormTab BY <1>1, <1>2 DEF FormTab
<1>6. q.form = g /\ q.seen = p.seen /\ q.call = p.call /\ q.item = p.item
      /\ q.touched = p.touched
  BY <1>1 DEF FormTab
<1> HIDE DEF q
<1>7. TabOK(q, api.rules, past.writes) BY <1>1, <1>4, <1>6 DEF TabOK
<1> QED BY <1>1, <1>3, <1>5, <1>7, TabStep

LEMMA FormRefreshes ==
  ASSUME FormParameters, FormInv, NEW t \in FormTabs, Form!Refresh(t) PROVE FormInv'
<1> DEFINE p == page[t]
           yes == TRUE
           q == [p EXCEPT !.loading = yes]
<1>1. p \in FormTab /\ TabOK(p, api.rules, past.writes) /\ past \in FormPast BY DEF FormInv
<1>2. yes \in Flag BY Flags
<1>3. page' = [page EXCEPT ![t] = q] /\ api' = api BY DEF Form!Refresh, FormInv
<1>4. past' \in FormPast /\ past'.writes = past.writes
  BY <1>1 DEF Form!Refresh, Form!Event, FormPast
<1> HIDE DEF p, yes
<1>5. q \in FormTab BY <1>1, <1>2 DEF FormTab
<1>6. q.form = p.form /\ q.seen = p.seen /\ q.call = p.call /\ q.item = p.item
      /\ q.touched = p.touched
  BY <1>1 DEF FormTab
<1> HIDE DEF q
<1>7. TabOK(q, api.rules, past.writes) BY <1>1, <1>6 DEF TabOK
<1> QED BY <1>3, <1>4, <1>5, <1>7, TabStep

\* What a person can make of a form.
LEMMA EditedIs ==
  ASSUME FormParameters, NEW p \in FormTab, NEW new \in Form!Edits(p)
  PROVE  new \in FormFields
<1> DEFINE f == p.form
           rule == Form!RuleOf(p)
           d == ~f.delay
           u == ~f.quota
           v == ~f.top
<1>1. f \in FormFields BY FormTabFields
<1>2. d \in Flag /\ u \in Flag /\ v \in Flag BY Truths, Zenon
<1>3. \/ \E i \in DOMAIN Form!Offered(p) : new = Form!WithRule(p, Form!Offered(p)[i])
      \/ \E g \in rule.formats : new = [f EXCEPT !.format = g]
      \/ \E n \in FormNumbers : new = [f EXCEPT !.committee = n]
      \/ new = [f EXCEPT !.quota = u]
      \/ new = [f EXCEPT !.delay = d]
      \/ \E n \in Times : new = [f EXCEPT !.publish = n]
      \/ new = [f EXCEPT !.top = v]
      \/ \E n \in FormNumbers : new = [f EXCEPT !.topK = n]
      \/ \E s \in FormScales : new = [f EXCEPT !.scale = s]
  <2> DEFINE ranks == f.format = "ranking" /\ rule.topK
  <2>1. new \in
          {Form!WithRule(p, Form!Offered(p)[i]) : i \in DOMAIN Form!Offered(p)}
          \cup {[f EXCEPT !.format = g] : g \in rule.formats}
          \cup {[f EXCEPT !.committee = n] : n \in IF rule.committee THEN FormNumbers ELSE {}}
          \cup {[f EXCEPT !.quota = u] : x \in IF rule.quota THEN {1} ELSE {}}
          \cup {[f EXCEPT !.delay = d]}
          \cup {[f EXCEPT !.publish = n] : n \in IF f.delay THEN Times \ {-1} ELSE {}}
          \cup {[f EXCEPT !.top = v] : x \in IF ranks THEN {1} ELSE {}}
          \cup {[f EXCEPT !.topK = n] : n \in IF ranks /\ f.top THEN FormNumbers ELSE {}}
          \cup {[f EXCEPT !.scale = s] : s \in IF f.format = "score" THEN FormScales ELSE {}}
    BY Zenon DEF Form!Edits
  <2> HIDE DEF u, v, d, rule, ranks
  <2> QED BY <2>1
<1>4. Times \subseteq Int /\ FormNumbers \subseteq Int /\ FormScales \subseteq ScaleSet
  BY DEF FormParameters
<1>5. rule.formats \subseteq TallyFormats
  <2>1. Form!NoRule.formats = {} BY DEF Form!NoRule
  <2>2. Named(f).formats \subseteq TallyFormats BY RuleOfIs DEF FormParameters
  <2> QED BY <2>1, <2>2, RuleOfIs
<1>6. ASSUME NEW i \in DOMAIN Form!Offered(p), new = Form!WithRule(p, Form!Offered(p)[i])
      PROVE  new \in FormFields
  <2> DEFINE x == Form!Offered(p)[i]
             n == IF x.committee THEN Form!CountOf(p) ELSE 1
             w == f.quota /\ x.quota
  <2>1. x.id \in OfferNames
    <3>1. CASE ~p.offered BY <3>1 DEF Form!Offered
    <3>2. CASE p.offered BY <3>2 DEF Form!Offered, OfferNames, OfferSet
    <3> QED BY <3>1, <3>2
  <2>2. n \in Int BY RuleOfIs
  <2>3. w \in Flag BY Truths, Zenon
  <2>4. new = [f EXCEPT !.rule = x.id, !.committee = n, !.quota = w]
    BY <1>6, Zenon DEF Form!WithRule
  <2> HIDE DEF f, x, n, w
  <2> QED BY <1>1, <2>1, <2>2, <2>3, <2>4 DEF FormFields
<1> HIDE DEF f, rule, d, u, v
<1> QED BY <1>1, <1>2, <1>3, <1>4, <1>5, <1>6 DEF FormFields

LEMMA FormIsEdited ==
  ASSUME FormParameters, FormInv, NEW t \in FormTabs, Form!Edit(t) PROVE FormInv'
<1> DEFINE p == page[t]
           yes == TRUE
<1>1. p \in FormTab /\ TabOK(p, api.rules, past.writes) /\ past \in FormPast BY DEF FormInv
<1>2. PICK new \in Form!Edits(p) : page' = [page EXCEPT ![t].form = new, ![t].touched = yes]
  BY DEF Form!Edit
<1>3. api' = api /\ past' \in FormPast /\ past'.writes = past.writes
  BY <1>1 DEF Form!Edit, FormPast
<1>10. new \in FormFields
  <2> HIDE DEF p
  <2> QED BY <1>1, EditedIs
<1> DEFINE q == [p EXCEPT !.form = new, !.touched = yes]
<1>4. yes \in Flag BY Flags
<1>5. page' = [page EXCEPT ![t] = q] BY <1>2 DEF FormInv
<1>6. p.seen <= past.writes /\ CallOK(p.call) /\ (p.call.at # "none" => p.item)
  BY <1>1 DEF TabOK
<1> HIDE DEF p, yes
<1>7. q \in FormTab BY <1>1, <1>4, <1>10 DEF FormTab
<1>8. q.seen = p.seen /\ q.call = p.call /\ q.item = p.item /\ q.touched = yes
  BY <1>1 DEF FormTab
<1> HIDE DEF q
<1>9. TabOK(q, api.rules, past.writes) BY <1>6, <1>8 DEF TabOK, yes
<1> QED BY <1>3, <1>5, <1>7, <1>9, TabStep

LEMMA FormIsSaved ==
  ASSUME FormParameters, FormInv, NEW t \in FormTabs, Form!Save(t) PROVE FormInv'
<1> DEFINE p == page[t]
           b == Form!Body(p)
           c == [Form!NoCall EXCEPT !.at = "sent", !.body = b]
           q == [p EXCEPT !.call = c]
<1>1. p \in FormTab /\ TabOK(p, api.rules, past.writes) /\ past \in FormPast BY DEF FormInv
<1>2. Form!Valid(p) /\ page' = [page EXCEPT ![t] = q] /\ api' = api
  BY DEF Form!Save, FormInv
<1>3. past' \in FormPast /\ past'.writes = past.writes BY <1>1 DEF Form!Save, FormPast
<1>4. b \in StoredRules /\ LimitOK(b) /\ p.item BY <1>1, <1>2, BodyIs, BodyLimit, ValidIs
<1> HIDE DEF p, b
<1>5. c \in SaveCall /\ c.at = "sent" /\ c.body = b BY <1>4, NoCallIs
<1> HIDE DEF c
<1>6. CallOK(c) BY <1>4, <1>5 DEF CallOK
<1>7. q \in FormTab BY <1>1, <1>5 DEF FormTab
<1>8. q.form = p.form /\ q.seen = p.seen /\ q.call = c /\ q.item = p.item
      /\ q.touched = p.touched
  BY <1>1 DEF FormTab
<1> HIDE DEF q
<1>9. TabOK(q, api.rules, past.writes) BY <1>1, <1>4, <1>6, <1>8 DEF TabOK
<1> QED BY <1>2, <1>3, <1>7, <1>9, TabStep

LEMMA FormIsRead ==
  ASSUME FormParameters, FormInv, NEW t \in FormTabs, Form!ServerReads(t) PROVE FormInv'
<1> DEFINE p == page[t]
           o == p.call
           c == [o EXCEPT !.read = api.rules, !.status = api.status, !.at = "read"]
           q == [p EXCEPT !.call = c]
<1>1. /\ p \in FormTab /\ TabOK(p, api.rules, past.writes) /\ past \in FormPast
      /\ api.rules \in StoredRules /\ api.status \in {"draft", "active"}
      /\ page \in [FormTabs -> FormTab]
  BY DEF FormInv
<1>2. o \in SaveCall /\ o.at = "sent" /\ CallOK(o) /\ p.item
  BY <1>1, FormTabFields DEF Form!ServerReads, TabOK
<1>3. api' = api /\ past' = past BY DEF Form!ServerReads
<1>4. page' = [page EXCEPT ![t] = q]
  <2>1. page' = [page EXCEPT ![t].call.read = api.rules, ![t].call.status = api.status,
                             ![t].call.at = "read"]
    BY DEF Form!ServerReads
  <2>2. o = [at |-> o.at, body |-> o.body, read |-> o.read, status |-> o.status]
    BY <1>2 DEF SaveCall
  <2> QED BY <1>1, <2>1, <2>2
<1>5. o.body \in StoredRules /\ LimitOK(o.body) BY <1>2 DEF CallOK
<1> HIDE DEF p, o
<1>6. c \in SaveCall /\ c.at = "read" /\ c.body = o.body /\ c.read = api.rules
  BY <1>1, <1>2 DEF SaveCall
<1> HIDE DEF c
<1>7. CallOK(c) BY <1>1, <1>5, <1>6 DEF CallOK
<1>8. q \in FormTab BY <1>1, <1>6 DEF FormTab
<1>9. q.form = p.form /\ q.seen = p.seen /\ q.call = c /\ q.item = p.item
      /\ q.touched = p.touched
  BY <1>1 DEF FormTab
<1> HIDE DEF q
<1>10. TabOK(q, api.rules, past.writes) BY <1>1, <1>2, <1>7, <1>9 DEF TabOK
<1> QED BY <1>1, <1>3, <1>4, <1>8, <1>10, TabStep

LEMMA FormIsWritten ==
  ASSUME FormParameters, FormInv, NEW t \in FormTabs, Form!ServerWrites(t) PROVE FormInv'
<1> DEFINE p == page[t]
           o == p.call
           m == Form!Merged(o.body, o.read)
           w == Form!Written(m)
<1>1. /\ p \in FormTab /\ TabOK(p, api.rules, past.writes) /\ past \in FormPast
      /\ api \in [status : {"draft", "active"}, rules : StoredRules]
      /\ page \in [FormTabs -> FormTab]
  BY DEF FormInv
<1>2. o \in SaveCall /\ o.at = "read" /\ CallOK(o) /\ p.item
  BY <1>1, FormTabFields DEF Form!ServerWrites, TabOK
<1>3. o.body \in StoredRules /\ LimitOK(o.body) /\ o.read \in StoredRules BY <1>2 DEF CallOK
<1>4. \/ /\ Form!AcceptsRules(m) /\ api' = [api EXCEPT !.rules = w]
         /\ page' = [page EXCEPT ![t].call.at = "saved"]
         /\ past' = [past EXCEPT !.writes = @ + 1]
      \/ page' = [page EXCEPT ![t].call.at = "refused"] /\ api' = api /\ past' = past
  BY Zenon DEF Form!ServerWrites
<1> HIDE DEF p, m, w
<1>5. ASSUME NEW a \in {"saved", "refused"}, page' = [page EXCEPT ![t].call.at = a]
      PROVE  \E q \in FormTab :
               /\ page' = [page EXCEPT ![t] = q]
               /\ q.form = p.form /\ q.seen = p.seen /\ q.item = p.item
               /\ q.touched = p.touched /\ CallOK(q.call)
  <2> DEFINE c == [o EXCEPT !.at = a]
             q == [p EXCEPT !.call = c]
  <2>1. page' = [page EXCEPT ![t] = q] BY <1>1, <1>5 DEF p
  <2> HIDE DEF o
  <2>2. c \in SaveCall /\ c.at = a BY <1>2 DEF SaveCall
  <2> HIDE DEF c
  <2>3. q \in FormTab BY <1>1, <2>2 DEF FormTab
  <2>4. q.form = p.form /\ q.seen = p.seen /\ q.call = c /\ q.item = p.item
        /\ q.touched = p.touched
    BY <1>1 DEF FormTab
  <2> HIDE DEF q
  <2>5. CallOK(q.call) BY <2>2, <2>4 DEF CallOK
  <2> QED BY <2>1, <2>3, <2>4, <2>5
<1>6. CASE page' = [page EXCEPT ![t].call.at = "refused"] /\ api' = api /\ past' = past
  <2>1. PICK q \in FormTab :
          /\ page' = [page EXCEPT ![t] = q]
          /\ q.form = p.form /\ q.seen = p.seen /\ q.item = p.item
          /\ q.touched = p.touched /\ CallOK(q.call)
    BY <1>5, <1>6
  <2>2. TabOK(q, api.rules, past.writes) BY <1>1, <1>2, <2>1 DEF TabOK
  <2> QED BY <1>1, <1>6, <2>1, <2>2, TabStep
<1>7. CASE /\ Form!AcceptsRules(m) /\ api' = [api EXCEPT !.rules = w]
           /\ page' = [page EXCEPT ![t].call.at = "saved"]
           /\ past' = [past EXCEPT !.writes = @ + 1]
  <2>1. PICK q \in FormTab :
          /\ page' = [page EXCEPT ![t] = q]
          /\ q.form = p.form /\ q.seen = p.seen /\ q.item = p.item
          /\ q.touched = p.touched /\ CallOK(q.call)
    BY <1>5, <1>7
  <2>2. w \in StoredRules /\ StoredOK(w)
    <3> HIDE DEF o
    <3> QED BY <1>3, <1>7, WrittenSound DEF m, w
  <2>3. api' \in [status : {"draft", "active"}, rules : StoredRules] /\ api'.rules = w
    BY <1>1, <1>7, <2>2
  <2>4. past' \in FormPast /\ past'.writes = past.writes + 1 /\ past.writes \in Nat
    BY <1>1, <1>7 DEF FormPast
  <2>5. page' \in [FormTabs -> FormTab] BY <1>1, <2>1
  <2>6. \A u \in FormTabs : TabOK(page'[u], api'.rules, past'.writes)
    <3> TAKE u \in FormTabs
    <3>1. page[u] \in FormTab /\ TabOK(page[u], api.rules, past.writes) BY <1>1 DEF FormInv
    <3>2. page[u].seen \in Nat /\ page[u].seen <= past.writes BY <3>1, FormTabFields DEF TabOK
    <3>3. CallOK(page[u].call) /\ (page[u].call.at # "none" => page[u].item) BY <3>1 DEF TabOK
    <3>4. CASE u = t
      <4>1. page'[u] = q BY <1>1, <2>1, <3>4
      <4>2. q.seen = page[u].seen /\ q.item BY <1>2, <2>1, <3>4 DEF p
      <4>3. q.seen <= past'.writes /\ q.seen # past'.writes BY <2>4, <3>2, <4>2
      <4> QED BY <2>1, <4>1, <4>2, <4>3 DEF TabOK
    <3>5. CASE u # t
      <4>1. page'[u] = page[u] BY <1>1, <2>1, <3>5
      <4>2. page[u].seen <= past'.writes /\ page[u].seen # past'.writes BY <2>4, <3>2
      <4> QED BY <3>3, <4>1, <4>2 DEF TabOK
    <3> QED BY <3>4, <3>5
  <2> QED BY <2>2, <2>3, <2>4, <2>5, <2>6 DEF FormInv
<1> QED BY <1>4, <1>6, <1>7

LEMMA FormSaveEnds ==
  ASSUME FormParameters, FormInv, NEW t \in FormTabs, Form!SaveEnds(t) \/ Form!SaveLost(t)
  PROVE  FormInv'
<1> DEFINE p == page[t]
           c == IF Form!SaveEnds(t) THEN Form!NoCall ELSE [Form!NoCall EXCEPT !.at = "lost"]
           e == p.loading \/ p.call.at = "saved"
           l == IF Form!SaveEnds(t) THEN e ELSE p.loading
           q == [p EXCEPT !.call = c, !.loading = l]
<1>1. p \in FormTab /\ TabOK(p, api.rules, past.writes) /\ past \in FormPast
      /\ page \in [FormTabs -> FormTab] /\ api.rules \in StoredRules
  BY DEF FormInv
<1>2. api' = api /\ past' \in FormPast /\ past'.writes = past.writes
  BY <1>1 DEF Form!SaveEnds, Form!SaveLost, Form!Event, FormPast
<1>3. c \in SaveCall /\ c.at \in {"none", "lost"} BY <1>1, NoCallIs
<1>4. p.call.at # "none"
  <2>1. p.call.at \in {"saved", "refused", "lost", "sent"} BY DEF Form!SaveEnds, Form!SaveLost
  <2> HIDE DEF p
  <2> QED BY <2>1
<1>5. p.item BY <1>1, <1>4 DEF TabOK
<1>6. l \in Flag
  <2>1. e \in Flag BY Truths, Zenon
  <2>2. p.loading \in Flag BY <1>1, FormTabFields
  <2> HIDE DEF e
  <2> QED BY <2>1, <2>2
<1>7. page' = [page EXCEPT ![t] = q]
  <2>1. CASE Form!SaveEnds(t)
    <3>1. page' = [page EXCEPT ![t].call = c, ![t].loading = l]
      BY <2>1, Zenon DEF Form!SaveEnds
    <3> HIDE DEF c, l
    <3> QED BY <1>1, <3>1
  <2>2. CASE ~Form!SaveEnds(t)
    <3>1. page' = [page EXCEPT ![t].call = c] BY <2>2, Zenon DEF Form!SaveLost
    <3>2. l = p.loading BY <2>2
    <3> HIDE DEF c, l
    <3>3. [p EXCEPT !.call = c, !.loading = p.loading] = [p EXCEPT !.call = c]
      <4> HIDE DEF p
      <4> QED BY <1>1 DEF FormTab
    <3> QED BY <1>1, <3>1, <3>2, <3>3
  <2> QED BY <2>1, <2>2
<1> HIDE DEF p, c, l
<1>8. q \in FormTab BY <1>1, <1>3, <1>6 DEF FormTab
<1>9. q.form = p.form /\ q.seen = p.seen /\ q.call = c /\ q.item = p.item
      /\ q.touched = p.touched
  BY <1>1 DEF FormTab
<1>10. CallOK(c) BY <1>3 DEF CallOK
<1> HIDE DEF q
<1>11. TabOK(q, api.rules, past.writes) BY <1>1, <1>5, <1>9, <1>10 DEF TabOK
<1> QED BY <1>2, <1>7, <1>8, <1>11, TabStep

LEMMA FormIsOpened == ASSUME FormInv, Form!Open PROVE FormInv'
<1>1. api' = [api EXCEPT !.status = "active"] /\ page' = page /\ past' = past BY DEF Form!Open
<1>2. api' \in [status : {"draft", "active"}, rules : StoredRules] /\ api'.rules = api.rules
  BY <1>1 DEF FormInv
<1> QED BY <1>1, <1>2 DEF FormInv

-----------------------------------------------------------------------------
LEMMA FormStarts == ASSUME FormParameters, Form!Init PROVE FormInv
<1>1. PICK r \in FirstRules : api = [status |-> "draft", rules |-> r] BY DEF Form!Init
<1>2. r \in StoredRules /\ StoredOK(r) BY DEF FormParameters
<1>3. api \in [status : {"draft", "active"}, rules : StoredRules] /\ StoredOK(api.rules)
  BY <1>1, <1>2
<1> DEFINE f == Form!Blank
           c == Form!NoCall
           yes == TRUE
           no == FALSE
           q == Form!Tab
<1>4. q = [form |-> f, item |-> no, loading |-> yes, offered |-> no, call |-> c,
           touched |-> no, seen |-> 0]
  BY DEF Form!Tab
<1>5. page = [t \in FormTabs |-> q] BY DEF Form!Init
<1>6. past \in FormPast /\ past.writes = 0 BY DEF Form!Init, FormPast
<1>7. f \in FormFields /\ c \in SaveCall /\ c.at = "none" BY BlankIs, NoCallIs
<1>8. yes \in Flag /\ no \in Flag BY Flags
<1> HIDE DEF f, c, yes, no, q
<1>9. q \in FormTab /\ q.item = no /\ q.call = c /\ q.seen = 0
  BY <1>4, <1>7, <1>8 DEF FormTab
<1>10. CallOK(c) BY <1>7 DEF CallOK
<1>11. TabOK(q, api.rules, past.writes) BY <1>6, <1>7, <1>9, <1>10 DEF TabOK, no
<1>12. \A t \in FormTabs : TabOK(page[t], api.rules, past.writes) BY <1>5, <1>11
<1>13. page \in [FormTabs -> FormTab] BY <1>5, <1>9
<1> QED BY <1>3, <1>6, <1>12, <1>13 DEF FormInv

LEMMA FormGoesOn == ASSUME FormParameters, FormInv, Form!Next PROVE FormInv'
<1>1. CASE Form!Open BY <1>1, FormIsOpened
<1>2. ASSUME NEW t \in FormTabs,
             \/ Form!LoadEnds(t) \/ Form!RulesArrive(t) \/ Form!Correct(t) \/ Form!Edit(t)
             \/ Form!Refresh(t) \/ Form!Save(t) \/ Form!ServerReads(t) \/ Form!ServerWrites(t)
             \/ Form!SaveEnds(t) \/ Form!SaveLost(t)
      PROVE  FormInv'
  BY <1>2, FormLoads, FormOffers, FormCorrects, FormIsEdited, FormRefreshes, FormIsSaved,
     FormIsRead, FormIsWritten, FormSaveEnds
<1> QED BY <1>1, <1>2 DEF Form!Next

LEMMA FormRests == ASSUME FormInv, UNCHANGED <<api, page, past>> PROVE FormInv'
BY DEF FormInv

LEMMA RulesAreSound ==
  ASSUME FormParameters, FormInv
  PROVE  /\ Form!TypeOK /\ Form!StoredIsSound /\ Form!UntouchedKeepsRules
         /\ Form!ReadyIsAccepted
<1>1. Form!TypeOK
  <2>1. api.status \in {"draft", "active"} /\ api.rules.format \in Form!Formats
    BY StoredFields DEF FormInv, Form!Formats, TallyFormats
  <2>2. ASSUME NEW t \in FormTabs
        PROVE  /\ page[t].form.format \in Form!Formats /\ page[t].form.publish \in Times
               /\ page[t].call.at = "saved" => page[t].item
    <3>1. page[t] \in FormTab /\ (page[t].call.at # "none" => page[t].item)
      BY DEF FormInv, TabOK
    <3>2. page[t].form \in FormFields BY <3>1, FormTabFields
    <3>3. page[t].form.format \in Form!Formats /\ page[t].form.publish \in Times
      BY <3>2, FormFieldsAre DEF Form!Formats, TallyFormats
    <3> QED BY <3>1, <3>3
  <2> QED BY <2>1, <2>2 DEF Form!TypeOK
<1>2. Form!StoredIsSound
  <2> DEFINE r == api.rules
             x == Named(r)
             b == [rule |-> r.rule, format |-> r.format, count |-> Count,
                   committee |-> r.committee, quota |-> r.quota, amax |-> r.amax,
                   topK |-> r.topK, scale |-> r.scale]
  <2>1. r \in StoredRules /\ StoredOK(r) BY DEF FormInv
  <2>2. x \in OfferSet /\ x # Form!NoRule
    <3> HIDE DEF r
    <3>1. r.rule \in OfferNames BY <2>1, StoredFields
    <3> QED BY <3>1, FindIs DEF Named
  <2>3. Form!Find(Offers, r.rule) = x BY DEF Named
  <2>4. Form!Openable(r) <=> Form!AcceptsRules(b) BY DEF Form!Openable
  <2>5. /\ b.rule = r.rule /\ b.format = r.format /\ b.count = Count
        /\ b.committee = r.committee /\ b.quota = r.quota /\ b.amax = r.amax
        /\ b.topK = r.topK /\ b.scale = r.scale
    OBVIOUS
  <2> HIDE DEF r, b, x
  <2>6. /\ x.tally /\ r.format \in x.formats
        /\ IF x.committee THEN r.committee \in 1..Count ELSE r.committee = -1
        /\ r.quota => x.quota
        /\ IF r.format = "approval" THEN r.amax \in 1..Count ELSE r.amax = -1
        /\ r.topK # -1 => r.format = "ranking" /\ x.topK /\ r.topK \in 1..Count
        /\ IF r.format = "score"
           THEN /\ r.scale.step > 0 /\ r.scale.min <= r.scale.max
                /\ (r.scale.max - r.scale.min) % r.scale.step = 0
           ELSE r.scale = Form!NoScale
    BY <2>1 DEF StoredOK, x
  <2>7. Count \in Nat \ {0} BY DEF FormParameters
  <2>8. r.format = "score" => r.scale # Form!NoScale BY <2>6 DEF Form!NoScale
  <2>9. (r.format = "approval") = (r.amax # -1) BY <2>6, <2>7
  <2>10. (r.format = "score") = (r.scale # Form!NoScale) BY <2>6, <2>8
  <2>11. /\ x.approval => "score" \notin x.formats
         /\ x.range => x.formats = {"score"}
         /\ x.formats \subseteq TallyFormats
    BY <2>2 DEF FormParameters
  <2>12. ASSUME ~(r.format = "ranking" /\ x.approval) PROVE Form!AcceptsRules(b)
    <3>1. x.approval => b.amax # -1
      <4>1. x.approval => r.format = "approval" BY <2>6, <2>11, <2>12 DEF TallyFormats
      <4> QED BY <2>5, <2>9, <4>1
    <3>2. x.range => b.scale # Form!NoScale BY <2>5, <2>6, <2>8, <2>11
    <3>3. Form!Compatible(b, x) BY <2>5, <2>6, <3>1, <3>2 DEF Form!Compatible
    <3>4. r.format \in TallyFormats BY <2>6, <2>11
    <3>5. Form!BallotParamsValid(b)
      <4>1. CASE r.format = "approval" BY <2>5, <2>6, <4>1 DEF Form!BallotParamsValid
      <4>2. CASE r.format = "ranking" BY <2>5, <2>6, <4>2 DEF Form!BallotParamsValid
      <4>3. CASE r.format = "score" BY <2>5, <2>6, <4>3 DEF Form!BallotParamsValid
      <4> QED BY <3>4, <4>1, <4>2, <4>3 DEF TallyFormats
    <3> QED BY <2>2, <2>3, <2>5, <3>3, <3>5 DEF Form!AcceptsRules
  <2>13. Form!Openable(r) \/ (r.format = "ranking" /\ x.approval) BY <2>4, <2>12
  <2> QED BY <2>3, <2>9, <2>10, <2>13 DEF Form!StoredIsSound, r
<1>3. Form!UntouchedKeepsRules
  <2> SUFFICES ASSUME NEW t \in FormTabs,
                      Form!Valid(page[t]), ~page[t].touched, page[t].seen = past.writes
               PROVE  Form!Written(Form!Merged(Form!Body(page[t]), api.rules)) = api.rules
    BY DEF Form!UntouchedKeepsRules
  <2>1. /\ page[t] \in FormTab /\ api.rules \in StoredRules /\ StoredOK(api.rules)
        /\ TabOK(page[t], api.rules, past.writes)
    BY DEF FormInv
  <2>2. page[t].item BY DEF Form!Valid
  <2>3. Fresh(page[t].form, api.rules) BY <2>1, <2>2 DEF TabOK
  <2> QED BY <2>1, <2>3, UntouchedKeeps
<1>4. Form!ReadyIsAccepted
  <2> SUFFICES ASSUME NEW t \in FormTabs, Form!Settled(page[t]), Form!Valid(page[t]),
                      ~Form!Unsendable(page[t])
               PROVE  Form!AcceptsRules(Form!Merged(Form!Body(page[t]), api.rules))
    BY DEF Form!ReadyIsAccepted
  <2>1. page[t] \in FormTab /\ api.rules \in StoredRules BY DEF FormInv
  <2> QED BY <2>1, ReadyAccepted
<1> QED BY <1>1, <1>2, <1>3, <1>4

\* The rules of an election are loaded, changed and saved in several tabs, without a
\* transaction: what is on record goes together, saving a form that was not touched since
\* the rules on record were loaded leaves them, and the API accepts what a page lets
\* through, but for rankings under an approval rule.
THEOREM SavedRulesAreSound ==
  ASSUME FormParameters
  PROVE  Form!Init /\ [][Form!Next]_<<api, page, past>>
           => [](Form!StoredIsSound /\ Form!UntouchedKeepsRules /\ Form!ReadyIsAccepted)
<1>1. Form!Init => FormInv BY FormStarts
<1>2. FormInv /\ [Form!Next]_<<api, page, past>> => FormInv' BY FormGoesOn, FormRests
<1>3. FormInv => Form!StoredIsSound /\ Form!UntouchedKeepsRules /\ Form!ReadyIsAccepted
  BY RulesAreSound
<1> QED BY <1>1, <1>2, <1>3, PTL

-----------------------------------------------------------------------------
(* ElectionDraft.                                                          *)

DraftFormats == {"approval", "ranking", "score"}
DraftRuleSet == UNION {{c[i] : i \in DOMAIN c} : c \in DraftCatalogues}
DraftIds == {""} \cup {r.id : r \in DraftRuleSet} \cup {d.rule : d \in DraftsLeft}
DraftModes == {"draft", "open", "schedule"}
DraftScaleSet == [min : Int, max : Int, step : Int]
DraftPeriodSet == [start : Int, end : Int, publish : Int]
DraftFields ==
  [step : 0..4, title : Flag, period : DraftPeriodSet, cands : Seq(DraftNames),
   format : DraftFormats, rule : DraftIds, committee : Int, quota : Flag, amax : Int,
   top : Flag, topK : Int, scale : DraftScaleSet, delay : Flag, mode : DraftModes]

\* What the effect on the limits may have seen.
DraftViews ==
  {<<>>} \cup ((DraftIds \cup {"none"}) \X DraftFormats \X Int \X Nat \X Flag)

DraftBodies ==
  [title : Flag, names : Seq(DraftNames), count : Nat, rule : DraftIds, format : DraftFormats,
   start : Int, end : Int, committee : Int, quota : Flag, amax : Int, topK : Int,
   scale : DraftScaleSet, mode : DraftModes]
DraftStages == {"none", "create", "action", "done", "refused", "lost"}
DraftCalls == [at : DraftStages, body : {Draft!Fresh} \cup DraftBodies, id : Nat]
DraftPage ==
  [draft : DraftFields, cleared : Flag, rules : {<<>>} \cup DraftCatalogues, load : Flag,
   ran : DraftViews, call : DraftCalls, import : Flag, created : [id : Nat, mode : DraftModes]]
DraftPast == [now : Nat, events : Nat, renders : Nat, told : Nat, excused : Nat]
DraftStatus == {"draft", "active", "scheduled"}

DraftParameters ==
  /\ \A c \in DraftCatalogues :
       /\ c \in Seq(DraftRuleSet) /\ c # <<>>
       /\ \A i, j \in DOMAIN c : c[i].id = c[j].id => i = j
  /\ \A r \in DraftRuleSet :
       /\ r.formats \subseteq DraftFormats /\ r.formats # {} /\ r.limit \in Nat
       /\ r.approval => "score" \notin r.formats
       /\ r.range => r.formats = {"score"}
       /\ "score" \in r.formats => r.range
       /\ "ranking" \in r.formats /\ ~r.approval => r.topK
  /\ DraftsLeft \subseteq DraftFields /\ "" \in DraftNames
  /\ DraftImports \subseteq Seq(DraftNames) /\ DraftNumbers \subseteq Int
  /\ DraftScales \subseteq DraftScaleSet /\ DraftPeriods \subseteq DraftPeriodSet

LEMMA DraftFieldsAre ==
  ASSUME NEW d \in DraftFields
  PROVE  /\ d.step \in 0..4 /\ d.title \in Flag /\ d.period \in DraftPeriodSet
         /\ d.cands \in Seq(DraftNames) /\ d.format \in DraftFormats /\ d.rule \in DraftIds
         /\ d.committee \in Int /\ d.quota \in Flag /\ d.amax \in Int /\ d.top \in Flag
         /\ d.topK \in Int /\ d.scale \in DraftScaleSet /\ d.delay \in Flag
         /\ d.mode \in DraftModes
BY DEF DraftFields

LEMMA DraftPageIs ==
  ASSUME NEW p \in DraftPage
  PROVE  /\ p.draft \in DraftFields /\ p.cleared \in Flag
         /\ p.rules \in {<<>>} \cup DraftCatalogues /\ p.load \in Flag /\ p.ran \in DraftViews
         /\ p.call \in DraftCalls /\ p.import \in Flag
         /\ p.created \in [id : Nat, mode : DraftModes]
BY DEF DraftPage

LEMMA SamePickedDraft == \A l, P : Draft!Picked(l, P) = Picked(l, P)
BY Zenon DEF Draft!Picked, Picked

\* The rules of a catalogue.
LEMMA DraftCatalogueIs ==
  ASSUME DraftParameters, NEW c \in {<<>>} \cup DraftCatalogues
  PROVE  /\ c \in Seq(DraftRuleSet)
         /\ \A i \in DOMAIN c : c[i] \in DraftRuleSet /\ c[i].id \in DraftIds
                                /\ c[i] # Draft!NoRule
         /\ c # <<>> => 1 \in DOMAIN c /\ Head(c) = c[1]
<1>1. c \in Seq(DraftRuleSet)
  <2>1. <<>> \in Seq(DraftRuleSet) OBVIOUS
  <2> QED BY <2>1 DEF DraftParameters
<1>2. \A i \in DOMAIN c : c[i] \in DraftRuleSet BY <1>1
<1>3. \A r \in DraftRuleSet : r.id \in DraftIds BY DEF DraftIds
<1>4. Draft!NoRule.formats = {} BY DEF Draft!NoRule
<1>5. \A r \in DraftRuleSet : r # Draft!NoRule BY <1>4 DEF DraftParameters
<1>6. c # <<>> => 1 \in DOMAIN c /\ Head(c) = c[1] BY <1>1
<1> QED BY <1>1, <1>2, <1>3, <1>5, <1>6

LEMMA DraftFindIs ==
  ASSUME DraftParameters, NEW c \in {<<>>} \cup DraftCatalogues, NEW id
  PROVE  /\ \/ Draft!Find(c, id) = Draft!NoRule
            \/ Draft!Find(c, id) \in DraftRuleSet /\ Draft!Find(c, id) # Draft!NoRule
               /\ Draft!Find(c, id).id = id /\ id \in DraftIds
               /\ \E i \in DOMAIN c : c[i] = Draft!Find(c, id)
         /\ \A i \in DOMAIN c : c[i].id = id => Draft!Find(c, id) = c[i]
<1> DEFINE x == Draft!Find(c, id)
<1>0. \A i \in DOMAIN c : c[i] \in DraftRuleSet /\ c[i].id \in DraftIds /\ c[i] # Draft!NoRule
  BY DraftCatalogueIs
<1>1. CASE \E i \in DOMAIN c : c[i].id = id
  <2>1. x = c[CHOOSE i \in DOMAIN c : c[i].id = id] BY <1>1 DEF Draft!Find
  <2>2. PICK i \in DOMAIN c : x = c[i] /\ c[i].id = id BY <1>1, <2>1
  <2> HIDE DEF x
  <2>3. c \in DraftCatalogues
    <3>1. c # <<>> BY <2>2
    <3> QED BY <3>1
  <2>4. \A j \in DOMAIN c : c[j].id = id => j = i BY <2>2, <2>3 DEF DraftParameters
  <2> QED BY <1>0, <2>2, <2>4 DEF x
<1>2. CASE ~ \E i \in DOMAIN c : c[i].id = id
  <2>1. x = Draft!NoRule BY <1>2 DEF Draft!Find
  <2> QED BY <1>2, <2>1
<1> QED BY <1>1, <1>2

\* The rules for a format, and where there are some.
LEMMA DraftForFormatIs ==
  ASSUME DraftParameters, NEW c \in {<<>>} \cup DraftCatalogues, NEW f
  PROVE  LET k == Draft!ForFormat(c, f)
         IN  /\ k \in Seq({c[i] : i \in {j \in DOMAIN c : f \in c[j].formats}})
             /\ f \in UNION {c[i].formats : i \in DOMAIN c} => k # <<>>
<1> DEFINE P == {i \in DOMAIN c : f \in c[i].formats}
           k == Draft!ForFormat(c, f)
<1>1. k = Picked(c, P) BY SamePickedDraft DEF Draft!ForFormat
<1>2. c \in Seq(DraftRuleSet) BY DraftCatalogueIs
<1> HIDE DEF k
<1>3. k \in Seq({c[i] : i \in P \cap DOMAIN c})
  <2> HIDE DEF P
  <2> QED BY <1>1, <1>2, PickedOf
<1>4. P \cap DOMAIN c = P OBVIOUS
<1>5. k \in Seq({c[i] : i \in P}) BY <1>3, <1>4
<1>6. ASSUME f \in UNION {c[i].formats : i \in DOMAIN c} PROVE k # <<>>
  <2>1. PICK i \in DOMAIN c : f \in c[i].formats BY <1>6
  <2>2. i \in P \cap DOMAIN c BY <2>1
  <2> HIDE DEF P
  <2> QED BY <1>1, <1>2, <2>2, PickedSome
<1> QED BY <1>5, <1>6 DEF k

\* Its members: rules of the catalogue, for the format.
LEMMA DraftFittingIs ==
  ASSUME DraftParameters, NEW c \in {<<>>} \cup DraftCatalogues, NEW f
  PROVE  LET k == Draft!ForFormat(c, f)
         IN  /\ \A i \in DOMAIN k : /\ k[i] \in DraftRuleSet /\ k[i].id \in DraftIds
                                    /\ f \in k[i].formats /\ k[i] # Draft!NoRule
                                    /\ Draft!Find(c, k[i].id) = k[i]
             /\ k # <<>> => 1 \in DOMAIN k /\ Head(k) = k[1]
<1> DEFINE k == Draft!ForFormat(c, f)
           R == {c[i] : i \in {j \in DOMAIN c : f \in c[j].formats}}
<1>1. k \in Seq(R) BY DraftForFormatIs
<1>2. \A r \in R : /\ r \in DraftRuleSet /\ r.id \in DraftIds /\ f \in r.formats
                   /\ r # Draft!NoRule /\ Draft!Find(c, r.id) = r
  <2> TAKE r \in R
  <2>1. PICK i \in DOMAIN c : r = c[i] /\ f \in c[i].formats OBVIOUS
  <2>2. c[i] \in DraftRuleSet /\ c[i].id \in DraftIds /\ c[i] # Draft!NoRule
    BY DraftCatalogueIs
  <2>3. Draft!Find(c, r.id) = c[i] BY <2>1, DraftFindIs
  <2> QED BY <2>1, <2>2, <2>3
<1> HIDE DEF k, R
<1>3. \A i \in DOMAIN k : k[i] \in R BY <1>1
<1>4. k # <<>> => 1 \in DOMAIN k /\ Head(k) = k[1] BY <1>1
<1> QED BY <1>2, <1>3, <1>4 DEF k

-----------------------------------------------------------------------------
\* The rule of a page's draft.
LEMMA DraftRuleIs ==
  ASSUME DraftParameters, NEW p \in DraftPage
  PROVE  LET x == Draft!CurrentRule(p)
         IN  /\ \/ x = Draft!NoRule
                \/ /\ x \in DraftRuleSet /\ x # Draft!NoRule /\ x.id = p.draft.rule
                   /\ p.draft.rule \in DraftIds
             /\ x.limit \in Nat /\ x.id \in DraftIds \cup {"none"}
             /\ x # Draft!NoRule => p.rules # <<>>
<1> DEFINE x == Draft!CurrentRule(p)
<1>1. p.rules \in {<<>>} \cup DraftCatalogues BY DraftPageIs
<1>2. x = Draft!Find(p.rules, p.draft.rule) BY DEF Draft!CurrentRule
<1>3. \/ x = Draft!NoRule
      \/ /\ x \in DraftRuleSet /\ x # Draft!NoRule /\ x.id = p.draft.rule
         /\ p.draft.rule \in DraftIds
         /\ \E i \in DOMAIN p.rules : p.rules[i] = x
  BY <1>1, <1>2, DraftFindIs
<1>4. Draft!NoRule.limit = 0 /\ Draft!NoRule.id = "none" BY DEF Draft!NoRule
<1>5. x \in DraftRuleSet => x.limit \in Nat BY DEF DraftParameters
<1> HIDE DEF x
<1>6. x.limit \in Nat /\ x.id \in DraftIds \cup {"none"} BY <1>3, <1>4, <1>5
<1>7. x # Draft!NoRule => p.rules # <<>> BY <1>3
<1> QED BY <1>3, <1>6, <1>7 DEF x

LEMMA DraftClampIs ==
  /\ \A n \in Int, high \in Nat : Draft!Clamp(n, 1, high) \in 0..high \cup {1}
  /\ \A n \in Int, high \in Nat \ {0} : Draft!Clamp(n, 1, high) \in 1..high
  /\ \A high \in Nat : \A n \in 1..high : Draft!Clamp(n, 1, high) = n
BY DEF Draft!Clamp

\* Its limits.
LEMMA DraftLimitsAre ==
  ASSUME NEW d \in DraftFields, NEW x, x.limit \in Nat
  PROVE  /\ Draft!Count(d) \in Nat /\ Draft!EffectiveMax(d, x) \in Int
         /\ Draft!Count(d) >= 1 => Draft!EffectiveMax(d, x) \in 1..Draft!Count(d)
         /\ Draft!CommitteeFor(d, x) \in Int
         /\ Draft!NormalizedTopK(d) \in Int
         /\ Draft!Count(d) >= 1 => Draft!NormalizedTopK(d) \in 1..Draft!Count(d)
<1> DEFINE n == Draft!Count(d)
           m == IF x.limit > 0 THEN x.limit ELSE d.amax
           k == d.topK
<1>1. n \in Nat
  <2>1. d.cands \in Seq(DraftNames) BY DraftFieldsAre
  <2> QED BY <2>1 DEF Draft!Count
<1>2. m \in Int /\ k \in Int /\ d.committee \in Int BY DraftFieldsAre
<1>3. Draft!EffectiveMax(d, x) = Draft!Clamp(m, 1, n) BY DEF Draft!EffectiveMax
<1>4. Draft!NormalizedTopK(d) = Draft!Clamp(k, 1, n) BY DEF Draft!NormalizedTopK
<1>5. Draft!CommitteeFor(d, x) \in Int BY <1>1, <1>2 DEF Draft!CommitteeFor
<1> HIDE DEF n, m, k
<1>6. Draft!Clamp(m, 1, n) \in Int /\ (n >= 1 => Draft!Clamp(m, 1, n) \in 1..n)
  BY <1>1, <1>2, DraftClampIs
<1>7. Draft!Clamp(k, 1, n) \in Int /\ (n >= 1 => Draft!Clamp(k, 1, n) \in 1..n)
  BY <1>1, <1>2, DraftClampIs
<1> QED BY <1>1, <1>3, <1>4, <1>5, <1>6, <1>7 DEF n

\* The formats of a catalogue; what the effects make of the format.
DraftOffers(p) == UNION {p.rules[i].formats : i \in DOMAIN p.rules}
DraftOffered(p) == p.rules # <<>> /\ p.draft.format \in DraftOffers(p)

LEMMA DraftFormatIs ==
  ASSUME DraftParameters, NEW p \in DraftPage, p.rules # <<>>
  PROVE  /\ Draft!FormatFor(p) \in DraftFormats /\ Draft!FormatFor(p) \in DraftOffers(p)
         /\ DraftOffered(p) => Draft!FormatFor(p) = p.draft.format
<1> DEFINE h == CHOOSE f \in Head(p.rules).formats : TRUE
<1>1. p.rules \in {<<>>} \cup DraftCatalogues BY DraftPageIs
<1>2. 1 \in DOMAIN p.rules /\ Head(p.rules) = p.rules[1] /\ p.rules[1] \in DraftRuleSet
  BY <1>1, DraftCatalogueIs
<1>3. p.rules[1].formats # {} /\ p.rules[1].formats \subseteq DraftFormats
  BY <1>2 DEF DraftParameters
<1>4. h \in p.rules[1].formats BY <1>2, <1>3
<1>5. h \in DraftFormats /\ h \in DraftOffers(p) BY <1>2, <1>3, <1>4 DEF DraftOffers
<1>6. p.draft.format \in DraftFormats BY DraftPageIs, DraftFieldsAre
<1>7. Draft!FormatFor(p) = IF p.draft.format \in DraftOffers(p) THEN p.draft.format ELSE h
  BY DEF Draft!FormatFor, DraftOffers
<1> HIDE DEF h
<1> QED BY <1>5, <1>6, <1>7 DEF DraftOffered

\* The draft's rule is one for its format.
DraftFits(p) ==
  /\ DraftOffered(p)
  /\ Draft!CurrentRule(p) \in Draft!ToSet(Draft!ForFormat(p.rules, p.draft.format))

LEMMA DraftRuleForIs ==
  ASSUME DraftParameters, NEW p \in DraftPage
  PROVE  /\ Draft!RuleFor(p) \in DraftIds
         /\ DraftOffered(p) => Draft!Find(p.rules, Draft!RuleFor(p)) \in
                                 Draft!ToSet(Draft!ForFormat(p.rules, p.draft.format))
         /\ DraftFits(p) => Draft!RuleFor(p) = p.draft.rule
<1> DEFINE k == Draft!ForFormat(p.rules, p.draft.format)
           x == Draft!CurrentRule(p)
           r == Draft!RuleFor(p)
<1>1. p.rules \in {<<>>} \cup DraftCatalogues /\ p.draft.rule \in DraftIds
  BY DraftPageIs, DraftFieldsAre
<1>2. /\ \A i \in DOMAIN k : k[i].id \in DraftIds /\ Draft!Find(p.rules, k[i].id) = k[i]
      /\ k # <<>> => 1 \in DOMAIN k /\ Head(k) = k[1]
  BY <1>1, DraftFittingIs
<1>3. DraftOffered(p) => k # <<>> BY <1>1, DraftForFormatIs DEF DraftOffered, DraftOffers
<1>4. r = IF k # <<>> /\ x \notin Draft!ToSet(k) THEN Head(k).id ELSE p.draft.rule
  BY DEF Draft!RuleFor
<1>5. x = Draft!Find(p.rules, p.draft.rule) BY DEF Draft!CurrentRule
<1>6. Draft!ToSet(k) = {k[i] : i \in DOMAIN k} BY DEF Draft!ToSet
<1>7. DraftFits(p) => x \in Draft!ToSet(k) BY DEF DraftFits
<1> HIDE DEF k, x, r
<1>8. k # <<>> => Head(k).id \in DraftIds /\ Draft!Find(p.rules, Head(k).id) \in Draft!ToSet(k)
  BY <1>2, <1>6
<1> QED BY <1>1, <1>3, <1>4, <1>5, <1>7, <1>8 DEF k, x, r

LEMMA DraftFitsIs ==
  ASSUME DraftParameters, NEW p \in DraftPage, DraftFits(p)
  PROVE  LET x == Draft!CurrentRule(p)
         IN  x \in DraftRuleSet /\ x # Draft!NoRule /\ p.draft.format \in x.formats
<1> DEFINE k == Draft!ForFormat(p.rules, p.draft.format)
           x == Draft!CurrentRule(p)
<1>1. p.rules \in {<<>>} \cup DraftCatalogues BY DraftPageIs
<1>2. \A i \in DOMAIN k : k[i] \in DraftRuleSet /\ p.draft.format \in k[i].formats
                          /\ k[i] # Draft!NoRule
  BY <1>1, DraftFittingIs
<1>3. x \in {k[i] : i \in DOMAIN k} BY DEF DraftFits, Draft!ToSet
<1> HIDE DEF k, x
<1> QED BY <1>2, <1>3 DEF x

\* What corrections leave alone.
DraftUntouched(d, c) ==
  /\ c.step = d.step /\ c.title = d.title /\ c.period = d.period /\ c.cands = d.cands
  /\ c.delay = d.delay /\ c.mode = d.mode

LEMMA DraftRefittedIs ==
  ASSUME DraftParameters, NEW p \in DraftPage, p.rules # <<>>
  PROVE  LET d == p.draft
             c == Draft!Refitted(p)
         IN  /\ c \in DraftFields /\ DraftUntouched(d, c)
             /\ c.format = Draft!FormatFor(p) /\ c.rule = Draft!RuleFor(p)
             /\ c.committee = d.committee /\ c.quota = d.quota /\ c.amax = d.amax
             /\ c.top = d.top /\ c.topK = d.topK /\ c.scale = d.scale
<1> DEFINE d == p.draft
           c == Draft!Refitted(p)
           f == Draft!FormatFor(p)
           r == Draft!RuleFor(p)
<1>1. c = [d EXCEPT !.format = f, !.rule = r] BY DEF Draft!Refitted
<1>2. f \in DraftFormats /\ r \in DraftIds BY DraftFormatIs, DraftRuleForIs
<1>3. d \in DraftFields BY DraftPageIs
<1> HIDE DEF d, c, f, r
<1> QED BY <1>1, <1>2, <1>3 DEF DraftFields, DraftUntouched, c, d, f, r

LEMMA DraftCorrectedIs ==
  ASSUME DraftParameters, NEW p \in DraftPage
  PROVE  LET d == p.draft
             c == Draft!Corrected(p)
             x == Draft!CurrentRule(p)
         IN  /\ c \in DraftFields /\ DraftUntouched(d, c)
             /\ p.rules = <<>> => c = d
             /\ p.rules # <<>> => c.format = Draft!FormatFor(p) /\ c.rule = Draft!RuleFor(p)
             /\ p.rules # <<>> /\ x # Draft!NoRule =>
                  /\ c.committee = Draft!CommitteeFor(d, x)
                  /\ c.quota = ((d.quota /\ x.quota) /\ x.committee)
                  /\ c.amax = Draft!MaxFor(d, x, Draft!New(p))
                  /\ c.top = (d.top /\ ~Draft!NoTop(p))
                  /\ c.topK = (IF Draft!NoTop(p) THEN 1 ELSE d.topK)
                  /\ c.scale = Draft!ScaleFor(p)
<1> DEFINE d == p.draft
           c == Draft!Corrected(p)
           x == Draft!CurrentRule(p)
           b == Draft!Refitted(p)
           n == Draft!CommitteeFor(d, x)
           a == Draft!MaxFor(d, x, Draft!New(p))
           q == (d.quota /\ x.quota) /\ x.committee
           t == d.top /\ ~Draft!NoTop(p)
           k == IF Draft!NoTop(p) THEN 1 ELSE d.topK
           s == Draft!ScaleFor(p)
<1>0. d \in DraftFields /\ x.limit \in Nat BY DraftPageIs, DraftRuleIs
<1>1. CASE p.rules = <<>>
  <2>1. c = d BY <1>1 DEF Draft!Corrected
  <2> QED BY <1>0, <1>1, <2>1 DEF DraftUntouched
<1>2. CASE p.rules # <<>> /\ x = Draft!NoRule
  <2>1. c = b BY <1>2 DEF Draft!Corrected
  <2> HIDE DEF c, b
  <2>2. b \in DraftFields /\ DraftUntouched(d, b) /\ b.format = Draft!FormatFor(p)
        /\ b.rule = Draft!RuleFor(p)
    BY <1>2, DraftRefittedIs DEF b
  <2> QED BY <1>2, <2>1, <2>2 DEF c
<1>3. CASE p.rules # <<>> /\ x # Draft!NoRule
  <2>1. /\ b \in DraftFields /\ DraftUntouched(d, b) /\ b.format = Draft!FormatFor(p)
        /\ b.rule = Draft!RuleFor(p) /\ b.quota = d.quota /\ b.top = d.top /\ b.topK = d.topK
    BY <1>3, DraftRefittedIs
  <2>2. c = [b EXCEPT !.committee = n, !.quota = (@ /\ x.quota) /\ x.committee, !.amax = a,
                      !.top = @ /\ ~Draft!NoTop(p), !.topK = IF Draft!NoTop(p) THEN 1 ELSE @,
                      !.scale = s]
    BY <1>3, Zenon DEF Draft!Corrected
  <2> DEFINE g == (b.quota /\ x.quota) /\ x.committee
             u == b.top /\ ~Draft!NoTop(p)
             v == IF Draft!NoTop(p) THEN 1 ELSE b.topK
  <2>3. c = [b EXCEPT !.committee = n, !.quota = g, !.amax = a, !.top = u, !.topK = v, !.scale = s]
    <3> HIDE DEF b, c, n, x, a, s
    <3> QED BY <2>1, <2>2, Zenon DEF DraftFields
  <2>4. g = q /\ u = t /\ v = k
    <3> HIDE DEF b, x
    <3> QED BY <2>1, Zenon
  <2>5. n \in Int BY <1>0, DraftLimitsAre
  <2>6. a \in Int
    <3>1. Draft!EffectiveMax(d, x) \in Int /\ d.amax \in Int
      BY <1>0, DraftLimitsAre, DraftFieldsAre
    <3> HIDE DEF d, x
    <3> QED BY <3>1 DEF Draft!MaxFor
  <2>7. q \in Flag /\ t \in Flag BY Truths, Zenon
  <2>8. k \in Int BY <1>0, DraftFieldsAre
  <2>9. s \in DraftScaleSet
    <3>1. Draft!Fresh.scale \in DraftScaleSet BY DEF Draft!Fresh, DraftScaleSet
    <3>2. p.draft.scale \in DraftScaleSet BY <1>0, DraftFieldsAre
    <3> QED BY <3>1, <3>2 DEF Draft!ScaleFor
  <2> HIDE DEF d, c, x, b, n, a, q, t, k, s, g, u, v
  <2>10. c = [b EXCEPT !.committee = n, !.quota = q, !.amax = a, !.top = t, !.topK = k, !.scale = s]
    BY <2>3, <2>4
  <2>11. /\ c \in DraftFields /\ DraftUntouched(d, c) /\ c.format = b.format /\ c.rule = b.rule
         /\ c.committee = n /\ c.quota = q /\ c.amax = a /\ c.top = t /\ c.topK = k /\ c.scale = s
    BY <2>1, <2>5, <2>6, <2>7, <2>8, <2>9, <2>10 DEF DraftFields, DraftUntouched
  <2> QED BY <1>3, <2>1, <2>11, Zenon DEF c, d, x, n, q, a, t, k, s
<1> QED BY <1>1, <1>2, <1>3

-----------------------------------------------------------------------------
(* The renders.                                                            *)

\* The draft is trimmed to its rule.
DraftTrim(p) ==
  LET d == p.draft
      x == Draft!CurrentRule(p)
  IN /\ DraftFits(p)
     /\ d.committee = Draft!CommitteeFor(d, x)
     /\ d.quota = ((d.quota /\ x.quota) /\ x.committee)
     /\ d.format = "approval" /\ x.limit > 0 => d.amax = Draft!EffectiveMax(d, x)

\* The page q after a render of the page p.
DraftRendered(p, q) ==
  /\ q \in DraftPage /\ q.rules = p.rules /\ q.draft = Draft!Corrected(p)
  /\ q.ran = Draft!Seen(p.draft, Draft!CurrentRule(p))

LEMMA DraftGetsOffered ==
  ASSUME DraftParameters, NEW p \in DraftPage, p.rules # <<>>, NEW q, DraftRendered(p, q)
  PROVE  DraftOffered(q) /\ (DraftOffered(p) => q.draft.format = p.draft.format)
<1>1. q.draft.format = Draft!FormatFor(p) /\ q.rules = p.rules
  BY DraftCorrectedIs DEF DraftRendered
<1>2. DraftOffers(q) = DraftOffers(p) BY <1>1 DEF DraftOffers
<1> QED BY <1>1, <1>2, DraftFormatIs DEF DraftOffered

LEMMA DraftGetsFit ==
  ASSUME DraftParameters, NEW p \in DraftPage, DraftOffered(p), NEW q, DraftRendered(p, q)
  PROVE  /\ DraftFits(q) /\ q.draft.format = p.draft.format
         /\ DraftFits(p) => Draft!CurrentRule(q) = Draft!CurrentRule(p)
                            /\ q.draft.rule = p.draft.rule
<1>1. p.rules # <<>> BY DEF DraftOffered
<1>2. q.draft.format = p.draft.format /\ DraftOffered(q) BY <1>1, DraftGetsOffered
<1>3. q.draft.rule = Draft!RuleFor(p) /\ q.rules = p.rules
  BY <1>1, DraftCorrectedIs DEF DraftRendered
<1>4. Draft!CurrentRule(q) = Draft!Find(p.rules, Draft!RuleFor(p))
  BY <1>3 DEF Draft!CurrentRule
<1>5. DraftFits(q) BY <1>2, <1>3, <1>4, DraftRuleForIs DEF DraftFits
<1>6. ASSUME DraftFits(p)
      PROVE  Draft!CurrentRule(q) = Draft!CurrentRule(p) /\ q.draft.rule = p.draft.rule
  <2>1. Draft!RuleFor(p) = p.draft.rule BY <1>6, DraftRuleForIs
  <2>2. q.draft.rule = p.draft.rule BY <1>3, <2>1
  <2> QED BY <1>3, <2>2 DEF Draft!CurrentRule
<1> QED BY <1>2, <1>5, <1>6

\* The size of the committee for a draft that has the size found for it.
LEMMA DraftCommitteeTwice ==
  ASSUME NEW d \in DraftFields, NEW c \in DraftFields, NEW x, x.limit \in Nat,
         c.cands = d.cands, c.committee = Draft!CommitteeFor(d, x)
  PROVE  Draft!CommitteeFor(c, x) = c.committee
<1>1. Draft!Count(c) = Draft!Count(d) BY DEF Draft!Count
<1>2. Draft!Count(d) \in Nat /\ d.committee \in Int BY DraftLimitsAre, DraftFieldsAre
<1> QED BY <1>1, <1>2 DEF Draft!CommitteeFor

\* The effective limit, for a draft that differs in what it does not depend on.
LEMMA DraftLimitTwice ==
  ASSUME NEW d, NEW c, NEW x, c.cands = d.cands, x.limit > 0 \/ c.amax = d.amax
  PROVE  Draft!EffectiveMax(c, x) = Draft!EffectiveMax(d, x)
BY DEF Draft!EffectiveMax, Draft!Count

LEMMA DraftGetsTrim ==
  ASSUME DraftParameters, NEW p \in DraftPage, DraftFits(p), NEW q, DraftRendered(p, q)
  PROVE  DraftTrim(q)
<1> DEFINE d == p.draft
           x == Draft!CurrentRule(p)
           c == q.draft
<1>1. p.rules # <<>> /\ DraftOffered(p) BY DEF DraftFits, DraftOffered
<1>2. DraftFits(q) /\ c.format = d.format /\ Draft!CurrentRule(q) = x BY <1>1, DraftGetsFit
<1>3. x # Draft!NoRule /\ x.limit \in Nat BY DraftFitsIs, DraftRuleIs
<1>4. /\ c \in DraftFields /\ c.cands = d.cands /\ c.committee = Draft!CommitteeFor(d, x)
      /\ c.quota = ((d.quota /\ x.quota) /\ x.committee)
      /\ c.amax = Draft!MaxFor(d, x, Draft!New(p))
  <2> DEFINE g == Draft!Corrected(p)
  <2>1. /\ g \in DraftFields /\ g.cands = d.cands /\ g.committee = Draft!CommitteeFor(d, x)
        /\ g.quota = ((d.quota /\ x.quota) /\ x.committee)
        /\ g.amax = Draft!MaxFor(d, x, Draft!New(p))
    BY <1>1, <1>3, DraftCorrectedIs DEF DraftUntouched
  <2>2. c = g BY DEF DraftRendered
  <2> HIDE DEF c, g
  <2> QED BY <2>1, <2>2
<1>5. d \in DraftFields BY DraftPageIs
<1> HIDE DEF d, x, c
<1>6. c.committee = Draft!CommitteeFor(c, x) BY <1>3, <1>4, <1>5, DraftCommitteeTwice
<1>7. c.quota = ((c.quota /\ x.quota) /\ x.committee) BY <1>4, Zenon
<1>8. c.format = "approval" /\ x.limit > 0 => c.amax = Draft!EffectiveMax(c, x)
  <2>1. x.limit > 0 => Draft!EffectiveMax(c, x) = Draft!EffectiveMax(d, x)
    BY <1>4, DraftLimitTwice
  <2> QED BY <1>2, <1>4, <2>1 DEF Draft!MaxFor
<1> QED BY <1>2, <1>6, <1>7, <1>8 DEF DraftTrim, c

LEMMA DraftSameFields ==
  ASSUME NEW c \in DraftFields, NEW d \in DraftFields, DraftUntouched(d, c),
         c.format = d.format, c.rule = d.rule, c.committee = d.committee, c.quota = d.quota,
         c.amax = d.amax, c.top = d.top, c.topK = d.topK, c.scale = d.scale
  PROVE  c = d
BY DEF DraftFields, DraftUntouched

\* Nothing is left to correct, or to look at.
LEMMA DraftGetsSettled ==
  ASSUME DraftParameters, NEW p \in DraftPage, DraftTrim(p), NEW q, DraftRendered(p, q)
  PROVE  Draft!Settled(q)
<1> DEFINE d == p.draft
           x == Draft!CurrentRule(p)
           c == q.draft
           g == Draft!Corrected(p)
           h == Draft!Corrected(q)
<1>0. DraftFits(p) BY DEF DraftTrim
<1>1. p.rules # <<>> /\ q.rules # <<>> /\ DraftOffered(p) /\ q \in DraftPage
  BY <1>0 DEF DraftFits, DraftOffered, DraftRendered
<1>2. /\ DraftTrim(q) /\ DraftFits(q) /\ c.format = d.format /\ c.rule = d.rule
      /\ Draft!CurrentRule(q) = x
  BY <1>0, <1>1, DraftGetsFit, DraftGetsTrim
<1>3. x # Draft!NoRule /\ x.limit \in Nat BY <1>0, DraftFitsIs, DraftRuleIs
<1>4. d \in DraftFields /\ c \in DraftFields BY <1>1, DraftPageIs
<1>5. /\ c.cands = d.cands /\ c.committee = d.committee /\ c.quota = d.quota
      /\ c.amax = Draft!MaxFor(d, x, Draft!New(p))
  <2>1. /\ g.cands = d.cands /\ g.committee = Draft!CommitteeFor(d, x)
        /\ g.quota = ((d.quota /\ x.quota) /\ x.committee)
        /\ g.amax = Draft!MaxFor(d, x, Draft!New(p))
    BY <1>1, <1>3, DraftCorrectedIs DEF DraftUntouched
  <2>2. c = g BY DEF DraftRendered
  <2>3. d.committee = Draft!CommitteeFor(d, x) /\ d.quota = ((d.quota /\ x.quota) /\ x.committee)
    BY Zenon DEF DraftTrim
  <2> HIDE DEF c, d, x, g
  <2> QED BY <2>1, <2>2, <2>3, Zenon
<1>6. q.ran = Draft!Seen(d, x) BY DEF DraftRendered
<1>7. Draft!Seen(c, x) = Draft!Seen(d, x)
  <2> HIDE DEF c, d, x
  <2> QED BY <1>2, <1>5 DEF Draft!Seen, Draft!Count
<1>8. ~Draft!New(q) BY <1>2, <1>6, <1>7 DEF Draft!New
<1>9. ~Draft!NoTop(q) BY <1>8 DEF Draft!NoTop
<1>10. /\ h \in DraftFields /\ DraftUntouched(c, h) /\ h.format = Draft!FormatFor(q)
       /\ h.rule = Draft!RuleFor(q) /\ h.committee = Draft!CommitteeFor(c, x)
       /\ h.quota = ((c.quota /\ x.quota) /\ x.committee)
       /\ h.amax = Draft!MaxFor(c, x, Draft!New(q))
       /\ h.top = (c.top /\ ~Draft!NoTop(q))
       /\ h.topK = (IF Draft!NoTop(q) THEN 1 ELSE c.topK)
       /\ h.scale = Draft!ScaleFor(q)
  BY <1>1, <1>2, <1>3, DraftCorrectedIs
<1>11. h.format = c.format /\ h.rule = c.rule
  BY <1>1, <1>2, <1>10, DraftFormatIs, DraftRuleForIs DEF DraftFits
<1>12. /\ c.committee = Draft!CommitteeFor(c, x)
       /\ c.quota = ((c.quota /\ x.quota) /\ x.committee)
       /\ c.format = "approval" /\ x.limit > 0 => c.amax = Draft!EffectiveMax(c, x)
  <2> HIDE DEF x
  <2> QED BY <1>2, Zenon DEF DraftTrim
<1>13. h.scale = c.scale BY <1>8, <1>10 DEF Draft!ScaleFor
<1> HIDE DEF d, x, c, g, h
<1>14. h.committee = c.committee BY <1>10, <1>12
<1>15. h.quota = c.quota BY <1>10, <1>12, Zenon
<1>16. h.amax = c.amax BY <1>3, <1>8, <1>10, <1>12 DEF Draft!MaxFor
<1>17. h.top = c.top
  <2>1. c.top \in BOOLEAN BY <1>4, DraftFieldsAre DEF Flag
  <2> QED BY <1>9, <1>10, <2>1, Zenon
<1>18. h.topK = c.topK BY <1>9, <1>10
<1>19. h = c BY <1>4, <1>10, <1>11, <1>13, <1>14, <1>15, <1>16, <1>17, <1>18, DraftSameFields
<1> QED BY <1>8, <1>19 DEF Draft!Settled, c, h

-----------------------------------------------------------------------------
(* The invariant.                                                          *)

\* What n renders since the last event have brought about.
DraftRendersOK(p, n) ==
  /\ n >= 1 => DraftOffered(p)
  /\ n >= 2 => DraftFits(p)
  /\ n >= 3 => DraftTrim(p)
  /\ n >= 4 => Draft!Settled(p)

\* The creation under way, against the elections there are.
DraftCallOK(c, elections) ==
  /\ c.at = "none" => c = Draft!NoCall
  /\ c.at \in {"action", "done"} => c.id \in DOMAIN elections
  /\ c.at \notin {"action", "done"} => c.id = 0
  /\ c.at = "done" => elections[c.id] = Draft!StatusOf(c.body.mode)

\* What is reported is there, and no creation is under way.
DraftToldOK(p, elections) ==
  p.created.id # 0 =>
    /\ p.call.at = "none" /\ p.created.id \in DOMAIN elections
    /\ elections[p.created.id] = Draft!StatusOf(p.created.mode)

DraftInv ==
  /\ page \in DraftPage /\ past \in DraftPast /\ api \in Seq(DraftStatus)
  /\ DraftCallOK(page.call, api) /\ DraftToldOK(page, api)
  /\ Len(api) <= past.told + past.excused + (IF page.call.id # 0 THEN 1 ELSE 0)
  /\ past.renders <= 4 /\ DraftRendersOK(page, past.renders)

LEMMA DraftSameView ==
  ASSUME NEW p, NEW q, q.draft = p.draft, q.rules = p.rules, q.ran = p.ran, NEW n,
         DraftRendersOK(p, n)
  PROVE  DraftRendersOK(q, n)
<1>1. Draft!CurrentRule(q) = Draft!CurrentRule(p) BY DEF Draft!CurrentRule
<1>2. Draft!New(q) = Draft!New(p) BY <1>1 DEF Draft!New
<1>3. DraftOffers(q) = DraftOffers(p) BY DEF DraftOffers
<1>4. DraftOffered(q) <=> DraftOffered(p) BY <1>3 DEF DraftOffered
<1>5. DraftFits(q) <=> DraftFits(p) BY <1>1, <1>4 DEF DraftFits
<1>6. DraftTrim(q) <=> DraftTrim(p) BY <1>1, <1>5, Zenon DEF DraftTrim
<1>7. Draft!NoTop(q) = Draft!NoTop(p) BY <1>1, <1>2, Zenon DEF Draft!NoTop
<1>8. Draft!ScaleFor(q) = Draft!ScaleFor(p) BY <1>1, <1>2, Zenon DEF Draft!ScaleFor
<1>9. Draft!Refitted(q) = Draft!Refitted(p)
  <2>1. Draft!FormatFor(q) = Draft!FormatFor(p)
    <3> DEFINE H(r) == CHOOSE f \in Head(r).formats : TRUE
    <3>1. \A o \in {p, q} : Draft!FormatFor(o) =
            IF o.draft.format \in DraftOffers(o) THEN o.draft.format ELSE H(o.rules)
      BY DEF Draft!FormatFor, DraftOffers
    <3> HIDE DEF H
    <3> QED BY <1>3, <3>1
  <2>2. Draft!RuleFor(q) = Draft!RuleFor(p) BY <1>1, Zenon DEF Draft!RuleFor
  <2> QED BY <2>1, <2>2, Zenon DEF Draft!Refitted
<1>10. Draft!Corrected(q) = Draft!Corrected(p)
  BY <1>1, <1>2, <1>7, <1>8, <1>9, Zenon DEF Draft!Corrected
<1>11. Draft!Settled(q) <=> Draft!Settled(p) BY <1>2, <1>10, Zenon DEF Draft!Settled
<1> QED BY <1>4, <1>5, <1>6, <1>11 DEF DraftRendersOK

\* A step after which the effects start anew.
DraftAnew ==
  past' \in DraftPast /\ past'.renders = 0 /\ past'.told = past.told /\ past'.excused = past.excused

LEMMA DraftCounts ==
  ASSUME past \in DraftPast, Draft!Event \/ Draft!Render PROVE DraftAnew
<1>1. CASE past' = Draft!Counted
  <2> DEFINE n == past.events + 1
  <2>1. past' = [past EXCEPT !.events = n, !.renders = 0] BY <1>1 DEF Draft!Counted
  <2>2. n \in Nat BY DEF DraftPast
  <2> HIDE DEF n
  <2> QED BY <2>1, <2>2 DEF DraftAnew, DraftPast
<1>2. CASE past' = [past EXCEPT !.renders = 0] BY <1>2 DEF DraftAnew, DraftPast
<1> QED BY <1>1, <1>2 DEF Draft!Event, Draft!Render

\* What leaves the creation alone.
LEMMA DraftKept ==
  ASSUME DraftInv, DraftAnew, page' \in DraftPage, page'.call = page.call,
         page'.created = page.created \/ page'.created.id = 0, UNCHANGED api
  PROVE  DraftInv'
<1>1. DraftRendersOK(page', 0) BY DEF DraftRendersOK
<1>2. DraftToldOK(page', api')
  <2>1. CASE page'.created = page.created BY <2>1 DEF DraftToldOK, DraftInv
  <2>2. CASE page'.created.id = 0 BY <2>2 DEF DraftToldOK
  <2> QED BY <2>1, <2>2
<1>3. DraftCallOK(page'.call, api') BY DEF DraftInv
<1>4. /\ Len(api') <= past'.told + past'.excused + (IF page'.call.id # 0 THEN 1 ELSE 0)
      /\ api' \in Seq(DraftStatus)
  BY DEF DraftInv, DraftAnew
<1>5. past' \in DraftPast /\ past'.renders = 0 BY DEF DraftAnew
<1> QED BY <1>1, <1>2, <1>3, <1>4, <1>5 DEF DraftInv

LEMMA DraftTypedIs ==
  ASSUME NEW p \in DraftPage, NEW d \in DraftFields
  PROVE  LET q == Draft!Typed(p, d)
         IN  /\ q \in DraftPage /\ q.draft = d /\ q.rules = p.rules /\ q.load = p.load
             /\ q.ran = p.ran /\ q.call = p.call /\ q.import = p.import /\ q.created = p.created
<1> DEFINE x == p.cleared /\ d = p.draft
<1>1. Draft!Typed(p, d) = [p EXCEPT !.draft = d, !.cleared = x] BY DEF Draft!Typed, DraftPage
<1>2. x \in Flag BY Truths
<1> HIDE DEF x
<1> QED BY <1>1, <1>2 DEF DraftPage

LEMMA DraftTyped ==
  ASSUME DraftInv, DraftAnew, NEW d \in DraftFields, page' = Draft!Typed(page, d), UNCHANGED api
  PROVE  DraftInv'
<1>1. page \in DraftPage BY DEF DraftInv
<1>2. page' \in DraftPage /\ page'.call = page.call /\ page'.created = page.created
  BY <1>1, DraftTypedIs
<1> QED BY <1>2, DraftKept

LEMMA DraftEdited ==
  ASSUME DraftInv, Draft!Edit, NEW d \in DraftFields, page' = Draft!Typed(page, d), UNCHANGED api
  PROVE  DraftInv'
<1>1. past \in DraftPast BY DEF DraftInv
<1>2. DraftAnew BY <1>1, DraftCounts DEF Draft!Edit
<1> QED BY <1>2, DraftTyped

\* A draft of which one field is replaced.
LEMMA DraftFieldIs ==
  ASSUME NEW d \in DraftFields
  PROVE  /\ \A x \in 0..4 : [d EXCEPT !.step = x] \in DraftFields
         /\ \A x \in DraftPeriodSet : [d EXCEPT !.period = x] \in DraftFields
         /\ \A x \in Seq(DraftNames) : [d EXCEPT !.cands = x] \in DraftFields
         /\ \A x \in DraftFormats : [d EXCEPT !.format = x] \in DraftFields
         /\ \A x \in Int : /\ [d EXCEPT !.committee = x] \in DraftFields
                           /\ [d EXCEPT !.amax = x] \in DraftFields
                           /\ [d EXCEPT !.topK = x] \in DraftFields
         /\ \A x \in DraftScaleSet : [d EXCEPT !.scale = x] \in DraftFields
         /\ \A x \in DraftModes : [d EXCEPT !.mode = x] \in DraftFields
         /\ \A x \in DraftIds : [d EXCEPT !.rule = x] \in DraftFields
BY DEF DraftFields

LEMMA DraftFlagIs ==
  ASSUME NEW d \in DraftFields, NEW x \in Flag
  PROVE  /\ [d EXCEPT !.title = x] \in DraftFields /\ [d EXCEPT !.quota = x] \in DraftFields
         /\ [d EXCEPT !.top = x] \in DraftFields /\ [d EXCEPT !.delay = x] \in DraftFields
BY DEF DraftFields

LEMMA DraftIsEditedFirst ==
  ASSUME DraftParameters, DraftInv, Draft!EditGeneral \/ Draft!EditAccess PROVE DraftInv'
<1> DEFINE d == page.draft
<1>1. d \in DraftFields BY DraftPageIs DEF DraftInv
<1>2. Draft!Edit /\ UNCHANGED api BY DEF Draft!EditGeneral, Draft!EditAccess
<1>3. CASE page' = Draft!Typed(page, [page.draft EXCEPT !.title = ~@])
  <2> DEFINE x == ~page.draft.title
  <2>1. page' = Draft!Typed(page, [page.draft EXCEPT !.title = x]) BY <1>1, <1>3
  <2>2. x \in Flag BY Truths
  <2> HIDE DEF x
  <2> QED BY <1>1, <1>2, <2>1, <2>2, DraftFlagIs, DraftEdited
<1>4. CASE page' = Draft!Typed(page, [page.draft EXCEPT !.delay = ~@])
  <2> DEFINE x == ~page.draft.delay
  <2>1. page' = Draft!Typed(page, [page.draft EXCEPT !.delay = x]) BY <1>1, <1>4
  <2>2. x \in Flag BY Truths
  <2> HIDE DEF x
  <2> QED BY <1>1, <1>2, <2>1, <2>2, DraftFlagIs, DraftEdited
<1>5. ASSUME NEW w \in DraftPeriods, page' = Draft!Typed(page, [page.draft EXCEPT !.period = w])
      PROVE  DraftInv'
  <2>1. w \in DraftPeriodSet BY DEF DraftParameters
  <2> QED BY <1>1, <1>2, <1>5, <2>1, DraftFieldIs, DraftEdited
<1>6. ASSUME NEW m \in DraftModes, page' = Draft!Typed(page, [page.draft EXCEPT !.mode = m])
      PROVE  DraftInv'
  BY <1>1, <1>2, <1>6, DraftFieldIs, DraftEdited
<1>7. ASSUME NEW w \in DraftPeriods,
             page' = Draft!Typed(page, [page.draft EXCEPT !.period.publish = w.publish])
      PROVE  DraftInv'
  <2> DEFINE e == [d.period EXCEPT !.publish = w.publish]
  <2>1. w \in DraftPeriodSet /\ d.period \in DraftPeriodSet
    BY <1>1, DraftFieldsAre DEF DraftParameters
  <2>2. e \in DraftPeriodSet
    <3> DEFINE o == d.period
    <3> HIDE DEF o
    <3>1. w.publish \in Int /\ o \in DraftPeriodSet BY <2>1 DEF DraftPeriodSet, o
    <3>2. [o EXCEPT !.publish = w.publish] \in DraftPeriodSet BY <3>1 DEF DraftPeriodSet
    <3> QED BY <3>2 DEF o
  <2>3. [page.draft EXCEPT !.period.publish = w.publish] = [page.draft EXCEPT !.period = e]
    BY <1>1 DEF DraftFields
  <2>4. page' = Draft!Typed(page, [page.draft EXCEPT !.period = e]) BY <1>7, <2>3
  <2> HIDE DEF e
  <2> QED BY <1>1, <1>2, <2>2, <2>4, DraftFieldIs, DraftEdited
<1>8. CASE Draft!EditGeneral BY <1>3, <1>5, <1>8, Zenon DEF Draft!EditGeneral
<1>9. CASE Draft!EditAccess BY <1>4, <1>6, <1>7, <1>9, Zenon DEF Draft!EditAccess, DraftModes
<1> QED BY <1>8, <1>9

LEMMA DraftNamesAre ==
  ASSUME DraftParameters, NEW s \in Seq(DraftNames)
  PROVE  /\ Append(s, "") \in Seq(DraftNames)
         /\ \A i \in DOMAIN s, n \in DraftNames : [s EXCEPT ![i] = n] \in Seq(DraftNames)
         /\ \A i \in DOMAIN s : Draft!RemoveAt(s, i) \in Seq(DraftNames)
<1>1. "" \in DraftNames BY DEF DraftParameters
<1>2. ASSUME NEW i \in DOMAIN s PROVE Draft!RemoveAt(s, i) \in Seq(DraftNames)
  <2>1. i \in 1..Len(s) /\ Len(s) \in Nat BY <1>2
  <2>2. SubSeq(s, 1, i - 1) \in Seq(DraftNames) /\ SubSeq(s, i + 1, Len(s)) \in Seq(DraftNames)
    BY <2>1
  <2> QED BY <2>2 DEF Draft!RemoveAt
<1>3. ASSUME NEW i \in DOMAIN s, NEW n \in DraftNames PROVE [s EXCEPT ![i] = n] \in Seq(DraftNames)
  OBVIOUS
<1>4. Append(s, "") \in Seq(DraftNames)
  <2> DEFINE e == ""
  <2>1. e \in DraftNames BY <1>1
  <2> HIDE DEF e
  <2>2. Append(s, e) \in Seq(DraftNames) BY <2>1
  <2> QED BY <2>2 DEF e
<1> QED BY <1>2, <1>3, <1>4, Zenon

LEMMA DraftCandidates ==
  ASSUME DraftParameters, DraftInv, Draft!EditCandidates PROVE DraftInv'
<1> DEFINE d == page.draft
           s == page.draft.cands
<1>1. d \in DraftFields /\ s \in Seq(DraftNames) BY DraftPageIs, DraftFieldsAre DEF DraftInv
<1>2. Draft!Edit /\ UNCHANGED api BY DEF Draft!EditCandidates
<1>3. ASSUME NEW l \in Seq(DraftNames), page' = Draft!Typed(page, [page.draft EXCEPT !.cands = l])
      PROVE  DraftInv'
  BY <1>1, <1>2, <1>3, DraftFieldIs, DraftEdited
<1>4. ASSUME NEW i \in DOMAIN s, NEW n \in DraftNames,
             page' = Draft!Typed(page, [page.draft EXCEPT !.cands[i] = n])
      PROVE  DraftInv'
  <2> DEFINE l == [s EXCEPT ![i] = n]
  <2>1. [page.draft EXCEPT !.cands[i] = n] = [page.draft EXCEPT !.cands = l]
    BY <1>1 DEF DraftFields
  <2>2. l \in Seq(DraftNames) BY <1>1, DraftNamesAre
  <2>3. page' = Draft!Typed(page, [page.draft EXCEPT !.cands = l]) BY <1>4, <2>1
  <2> HIDE DEF l
  <2> QED BY <1>3, <2>2, <2>3
<1>5. CASE page' = Draft!Typed(page, [page.draft EXCEPT !.cands = Append(@, "")])
  <2> DEFINE l == Append(s, "")
  <2>1. l \in Seq(DraftNames) BY <1>1, DraftNamesAre
  <2>2. page' = Draft!Typed(page, [page.draft EXCEPT !.cands = l]) BY <1>1, <1>5
  <2> HIDE DEF l
  <2> QED BY <1>3, <2>1, <2>2
<1>6. ASSUME NEW i \in DOMAIN s,
             page' = Draft!Typed(page, [page.draft EXCEPT !.cands = Draft!RemoveAt(@, i)])
      PROVE  DraftInv'
  <2> DEFINE l == Draft!RemoveAt(s, i)
  <2>1. l \in Seq(DraftNames) BY <1>1, DraftNamesAre
  <2>2. page' = Draft!Typed(page, [page.draft EXCEPT !.cands = l]) BY <1>1, <1>6
  <2> HIDE DEF l
  <2> QED BY <1>3, <2>1, <2>2
<1> QED BY <1>4, <1>5, <1>6, Zenon DEF Draft!EditCandidates

-----------------------------------------------------------------------------
(* The actions of ElectionDraft.                                           *)

LEMMA DraftFreshIs ==
  ASSUME DraftParameters
  PROVE  /\ Draft!Fresh \in DraftFields /\ Draft!Fresh.cands \in Seq(DraftNames)
         /\ Len(Draft!Fresh.cands) = 2 /\ Draft!Fresh.mode = "draft"
         /\ Draft!NoCall \in DraftCalls /\ Draft!NoCall.at = "none" /\ Draft!NoCall.id = 0
         /\ Draft!NoCall.body = Draft!Fresh
<1> DEFINE w == [start |-> 1, end |-> 3, publish |-> 4]
           l == <<"", "">>
           s == [min |-> 0, max |-> 10, step |-> 1]
           t == TRUE
           n == FALSE
           g == ""
           f == Draft!Fresh
<1>1. w \in DraftPeriodSet /\ s \in DraftScaleSet BY DEF DraftPeriodSet, DraftScaleSet
<1>2. l \in Seq(DraftNames) /\ Len(l) = 2
  <2>1. g \in DraftNames BY DEF DraftParameters
  <2>2. l = <<g, g>> OBVIOUS
  <2> HIDE DEF g, l
  <2>3. <<g, g>> \in Seq(DraftNames) /\ Len(<<g, g>>) = 2 BY <2>1
  <2> QED BY <2>2, <2>3
<1>3. t \in Flag /\ n \in Flag BY Flags
<1>4. g \in DraftIds BY DEF DraftIds
<1>5. "ranking" \in DraftFormats /\ "draft" \in DraftModes BY DEF DraftFormats, DraftModes
<1>6. f = [step |-> 0, title |-> t, period |-> w, cands |-> l, format |-> "ranking", rule |-> g,
           committee |-> 1, quota |-> n, amax |-> 2, top |-> n, topK |-> 1, scale |-> s,
           delay |-> n, mode |-> "draft"]
  BY Zenon DEF Draft!Fresh
<1> HIDE DEF w, l, s, t, n, g, f
<1>7. f \in DraftFields /\ f.cands = l /\ f.mode = "draft"
  BY <1>1, <1>2, <1>3, <1>4, <1>5, <1>6 DEF DraftFields
<1>8. Draft!NoCall = [at |-> "none", body |-> f, id |-> 0] BY DEF Draft!NoCall, f
<1>9. f \in {Draft!Fresh} \cup DraftBodies BY DEF f
<1>10. Draft!NoCall \in DraftCalls /\ Draft!NoCall.at = "none" /\ Draft!NoCall.id = 0
       /\ Draft!NoCall.body = f
  BY <1>8, <1>9 DEF DraftCalls, DraftStages
<1> QED BY <1>2, <1>7, <1>10 DEF f

LEMMA DraftOpenedIs ==
  ASSUME DraftParameters, NEW d \in DraftFields
  PROVE  LET p == Draft!Opened(Draft!RestoredFrom(d))
         IN  p \in DraftPage /\ p.call = Draft!NoCall /\ p.created.id = 0
<1> DEFINE l == IF Len(d.cands) >= 2 THEN d.cands ELSE Draft!Fresh.cands
           e == Draft!RestoredFrom(d)
           p == Draft!Opened(e)
           c == Draft!NoCall
           n == FALSE
           y == TRUE
           m == [id |-> 0, mode |-> "draft"]
<1>1. e = [d EXCEPT !.cands = l] BY DEF Draft!RestoredFrom, DraftFields
<1>2. l \in Seq(DraftNames) BY DraftFieldsAre, DraftFreshIs
<1>3. c \in DraftCalls BY DraftFreshIs
<1>4. n \in Flag /\ y \in Flag BY Flags
<1>5. m \in [id : Nat, mode : DraftModes] /\ m.id = 0 BY DEF DraftModes
<1> HIDE DEF l
<1>6. e \in DraftFields BY <1>1, <1>2, DraftFieldIs
<1>7. p = [draft |-> e, cleared |-> n, rules |-> <<>>, load |-> y, ran |-> <<>>, call |-> c,
           import |-> n, created |-> m]
  BY Zenon DEF Draft!Opened
<1>8. <<>> \in DraftViews BY DEF DraftViews
<1> HIDE DEF e, p, c, n, y, m
<1>9. p \in DraftPage /\ p.call = c /\ p.created = m
  BY <1>3, <1>4, <1>5, <1>6, <1>7, <1>8 DEF DraftPage
<1> QED BY <1>5, <1>9 DEF p, e, c

LEMMA DraftStarts == ASSUME DraftParameters, Draft!Init PROVE DraftInv
<1>1. PICK d \in DraftsLeft \cup {Draft!Fresh} : page = Draft!Opened(Draft!RestoredFrom(d))
  BY DEF Draft!Init
<1>2. d \in DraftFields BY DraftFreshIs DEF DraftParameters
<1>3. page \in DraftPage /\ page.call = Draft!NoCall /\ page.created.id = 0
  BY <1>1, <1>2, DraftOpenedIs
<1>4. api = <<>> /\ past = [now |-> 0, events |-> 0, renders |-> 0, told |-> 0, excused |-> 0]
  BY DEF Draft!Init
<1>5. api \in Seq(DraftStatus) /\ Len(api) = 0 BY <1>4
<1>6. past \in DraftPast /\ past.renders = 0 /\ past.told = 0 /\ past.excused = 0
  BY <1>4 DEF DraftPast
<1>7. DraftCallOK(page.call, api)
  <2>1. page.call.at = "none" /\ page.call.id = 0 BY <1>3, DraftFreshIs
  <2> QED BY <1>3, <2>1 DEF DraftCallOK
<1>8. DraftToldOK(page, api) BY <1>3 DEF DraftToldOK
<1>9. DraftRendersOK(page, past.renders) BY <1>6 DEF DraftRendersOK
<1>10. page.call.id = 0 BY <1>3, DraftFreshIs
<1> QED BY <1>3, <1>5, <1>6, <1>7, <1>8, <1>9, <1>10 DEF DraftInv

\* Flags of the page that are set or cleared.
LEMMA DraftMarks ==
  ASSUME NEW p \in DraftPage, NEW x \in Flag
  PROVE  LET a == [p EXCEPT !.import = x]
             b == [p EXCEPT !.load = x]
         IN  /\ a \in DraftPage /\ a.call = p.call /\ a.created = p.created
             /\ b \in DraftPage /\ b.call = p.call /\ b.created = p.created
BY DEF DraftPage

LEMMA DraftImporting ==
  ASSUME DraftParameters, DraftInv, Draft!ImportCandidates \/ Draft!ImportEnds PROVE DraftInv'
<1> DEFINE t == TRUE
           n == FALSE
<1>1. page \in DraftPage /\ past \in DraftPast BY DEF DraftInv
<1>2. t \in Flag /\ n \in Flag BY Flags
<1>3. CASE Draft!ImportCandidates
  <2>1. page' = [page EXCEPT !.import = t] /\ UNCHANGED api /\ Draft!Event
    BY <1>3 DEF Draft!ImportCandidates, Draft!Edit
  <2>2. DraftAnew BY <1>1, <2>1, DraftCounts
  <2> HIDE DEF t
  <2>3. page' \in DraftPage /\ page'.call = page.call /\ page'.created = page.created
    BY <1>1, <1>2, <2>1, DraftMarks
  <2> QED BY <2>1, <2>2, <2>3, DraftKept
<1>4. CASE Draft!ImportEnds
  <2>1. past' = [past EXCEPT !.renders = 0] /\ UNCHANGED api BY <1>4 DEF Draft!ImportEnds
  <2>2. DraftAnew
    <3>1. Draft!Render BY <2>1 DEF Draft!Render
    <3> QED BY <1>1, <3>1, DraftCounts
  <2>3. PICK q : /\ page' = [q EXCEPT !.import = n]
                 /\ \/ q = page
                    \/ \E l \in DraftImports :
                         q = Draft!Typed(page, [page.draft EXCEPT !.cands = l])
    <3>1. ASSUME NEW l \in DraftImports,
                 page' = [IF Len(l) < 2 THEN page
                          ELSE Draft!Typed(page, [page.draft EXCEPT !.cands = l])
                          EXCEPT !.import = FALSE]
          PROVE  \E q : /\ page' = [q EXCEPT !.import = n]
                        /\ \/ q = page
                           \/ \E m \in DraftImports :
                                q = Draft!Typed(page, [page.draft EXCEPT !.cands = m])
      <4> DEFINE q == IF Len(l) < 2 THEN page
                      ELSE Draft!Typed(page, [page.draft EXCEPT !.cands = l])
      <4>1. page' = [q EXCEPT !.import = n] BY <3>1, Zenon
      <4>2. q = page \/ q = Draft!Typed(page, [page.draft EXCEPT !.cands = l]) BY Zenon
      <4> HIDE DEF q
      <4> QED BY <4>1, <4>2, Zenon
    <3>2. page' = [page EXCEPT !.import = FALSE] =>
            \E q : page' = [q EXCEPT !.import = n] /\ q = page
      BY Zenon
    <3> QED BY <1>4, <3>1, <3>2, Zenon DEF Draft!ImportEnds
  <2>4. q \in DraftPage /\ q.call = page.call /\ q.created = page.created
    <3>1. CASE q = page BY <1>1, <3>1
    <3>2. ASSUME NEW l \in DraftImports, q = Draft!Typed(page, [page.draft EXCEPT !.cands = l])
          PROVE  q \in DraftPage /\ q.call = page.call /\ q.created = page.created
      <4>1. l \in Seq(DraftNames) BY DEF DraftParameters
      <4>2. [page.draft EXCEPT !.cands = l] \in DraftFields
        BY <1>1, <4>1, DraftPageIs, DraftFieldIs
      <4> QED BY <1>1, <3>2, <4>2, DraftTypedIs
    <3> QED BY <2>3, <3>1, <3>2
  <2> HIDE DEF n
  <2>5. page' \in DraftPage /\ page'.call = page.call /\ page'.created = page.created
    BY <1>2, <2>3, <2>4, DraftMarks
  <2> QED BY <2>1, <2>2, <2>5, DraftKept
<1> QED BY <1>3, <1>4

LEMMA DraftRuleEdits ==
  ASSUME DraftParameters, DraftInv, Draft!EditRule PROVE DraftInv'
<1> DEFINE d == page.draft
           k == Draft!ForFormat(page.rules, page.draft.format)
<1>1. d \in DraftFields /\ page \in DraftPage /\ page.rules \in {<<>>} \cup DraftCatalogues
  BY DraftPageIs DEF DraftInv
<1>2. Draft!Edit /\ UNCHANGED api BY DEF Draft!EditRule
<1>3. ASSUME NEW f \in UNION {page.rules[i].formats : i \in DOMAIN page.rules},
             page' = Draft!Typed(page, [d EXCEPT !.format = f])
      PROVE  DraftInv'
  <2>1. PICK i \in DOMAIN page.rules : f \in page.rules[i].formats BY <1>3
  <2>2. page.rules[i] \in DraftRuleSet BY <1>1, <2>1, DraftCatalogueIs
  <2>3. f \in DraftFormats BY <2>1, <2>2 DEF DraftParameters
  <2> QED BY <1>1, <1>2, <1>3, <2>3, DraftFieldIs, DraftEdited
<1>4. ASSUME NEW i \in DOMAIN k, page' = Draft!Typed(page, Draft!WithRule(page, k[i].id))
      PROVE  DraftInv'
  <2> DEFINE id == k[i].id
             x == Draft!Find(page.rules, id)
             n == IF x.committee THEN Draft!Count(page.draft) ELSE 1
             q == page.draft.quota /\ x.quota
             e == [page.draft EXCEPT !.rule = id, !.committee = n, !.quota = q]
  <2>1. id \in DraftIds BY <1>1, <1>4, DraftFittingIs
  <2>2. n \in Int
    <3>1. d.cands \in Seq(DraftNames) BY <1>1, DraftFieldsAre
    <3>2. Draft!Count(page.draft) \in Int BY <3>1 DEF Draft!Count
    <3> QED BY <3>2
  <2>3. q \in Flag BY Truths
  <2>4. Draft!WithRule(page, id) = e BY <1>1 DEF Draft!WithRule, DraftFields
  <2> HIDE DEF id, n, q
  <2>5. e \in DraftFields
    <3> HIDE DEF d
    <3>1. page.draft \in DraftFields BY <1>1 DEF d
    <3> QED BY <2>1, <2>2, <2>3, <3>1 DEF DraftFields
  <2>6. page' = Draft!Typed(page, e) BY <1>4, <2>4 DEF id
  <2> HIDE DEF e
  <2> QED BY <1>2, <2>5, <2>6, DraftEdited
<1>5. ASSUME NEW n \in DraftNumbers, page' = Draft!Typed(page, [d EXCEPT !.committee = n])
      PROVE  DraftInv'
  <2>1. n \in Int BY DEF DraftParameters
  <2> QED BY <1>1, <1>2, <1>5, <2>1, DraftFieldIs, DraftEdited
<1>6. CASE page' = Draft!Typed(page, [d EXCEPT !.quota = ~@])
  <2> DEFINE x == ~page.draft.quota
  <2>1. page' = Draft!Typed(page, [page.draft EXCEPT !.quota = x]) BY <1>1, <1>6
  <2>2. x \in Flag BY Truths
  <2> HIDE DEF x
  <2> QED BY <1>1, <1>2, <2>1, <2>2, DraftFlagIs, DraftEdited
<1>7. \/ \E f \in UNION {page.rules[i].formats : i \in DOMAIN page.rules} :
           page' = Draft!Typed(page, [d EXCEPT !.format = f])
      \/ \E i \in DOMAIN k : page' = Draft!Typed(page, Draft!WithRule(page, k[i].id))
      \/ \E n \in DraftNumbers : page' = Draft!Typed(page, [d EXCEPT !.committee = n])
      \/ page' = Draft!Typed(page, [d EXCEPT !.quota = ~@])
  BY Zenon DEF Draft!EditRule
<1> HIDE DEF d, k
<1> QED BY <1>3, <1>4, <1>5, <1>6, <1>7, Zenon

LEMMA DraftBallotEdits ==
  ASSUME DraftParameters, DraftInv, Draft!EditBallot PROVE DraftInv'
<1> DEFINE d == page.draft
<1>1. d \in DraftFields BY DraftPageIs DEF DraftInv
<1>2. Draft!Edit /\ UNCHANGED api BY DEF Draft!EditBallot
<1>3. ASSUME NEW n \in DraftNumbers, \/ page' = Draft!Typed(page, [d EXCEPT !.amax = n])
                                     \/ page' = Draft!Typed(page, [d EXCEPT !.topK = n])
      PROVE  DraftInv'
  <2>1. n \in Int BY DEF DraftParameters
  <2> QED BY <1>1, <1>2, <1>3, <2>1, DraftFieldIs, DraftEdited
<1>4. CASE page' = Draft!Typed(page, [d EXCEPT !.top = ~@])
  <2> DEFINE x == ~page.draft.top
  <2>1. page' = Draft!Typed(page, [page.draft EXCEPT !.top = x]) BY <1>1, <1>4
  <2>2. x \in Flag BY Truths
  <2> HIDE DEF x
  <2> QED BY <1>1, <1>2, <2>1, <2>2, DraftFlagIs, DraftEdited
<1>5. ASSUME NEW s \in DraftScales, page' = Draft!Typed(page, [d EXCEPT !.scale = s])
      PROVE  DraftInv'
  <2>1. s \in DraftScaleSet BY DEF DraftParameters
  <2> QED BY <1>1, <1>2, <1>5, <2>1, DraftFieldIs, DraftEdited
<1>6. \/ \E n \in DraftNumbers : page' = Draft!Typed(page, [d EXCEPT !.amax = n])
      \/ page' = Draft!Typed(page, [d EXCEPT !.top = ~@])
      \/ \E n \in DraftNumbers : page' = Draft!Typed(page, [d EXCEPT !.topK = n])
      \/ \E s \in DraftScales : page' = Draft!Typed(page, [d EXCEPT !.scale = s])
  BY Zenon DEF Draft!EditBallot
<1> HIDE DEF d
<1> QED BY <1>3, <1>4, <1>5, <1>6, Zenon

LEMMA DraftMoves ==
  ASSUME DraftParameters, DraftInv, Draft!GoNext \/ Draft!GoTo PROVE DraftInv'
<1>1. page \in DraftPage /\ past \in DraftPast /\ page.draft \in DraftFields
  BY DraftPageIs DEF DraftInv
<1>2. Draft!Render /\ UNCHANGED api BY Zenon DEF Draft!GoNext, Draft!GoTo
<1>3. \E s \in 0..4 : page' = Draft!Typed(page, [page.draft EXCEPT !.step = s])
  <2>1. CASE Draft!GoNext
    <3> DEFINE s == page.draft.step + 1
    <3>1. page' = Draft!Typed(page, [page.draft EXCEPT !.step = s]) /\ page.draft.step < 4
      BY <1>1, <2>1 DEF Draft!GoNext, Draft!LastStep
    <3>2. s \in 0..4 BY <1>1, <3>1, DraftFieldsAre
    <3> QED BY <3>1, <3>2
  <2>2. CASE Draft!GoTo BY <2>2 DEF Draft!GoTo, Draft!LastStep
  <2> QED BY <2>1, <2>2
<1>4. PICK s \in 0..4 : page' = Draft!Typed(page, [page.draft EXCEPT !.step = s]) BY <1>3
<1>5. [page.draft EXCEPT !.step = s] \in DraftFields BY <1>1, DraftFieldIs
<1>6. DraftAnew BY <1>1, <1>2, DraftCounts
<1> QED BY <1>2, <1>4, <1>5, <1>6, DraftTyped

LEMMA DraftIsReset ==
  ASSUME DraftParameters, DraftInv, Draft!ResetDraft PROVE DraftInv'
<1> DEFINE k == Draft!ForFormat(page.rules, "ranking")
           r == CASE k # <<>> -> Head(k).id
                  [] k = <<>> /\ page.rules # <<>> -> Head(page.rules).id
                  [] OTHER -> ""
           n == Draft!Count(page.draft)
           e == [Draft!Fresh EXCEPT !.rule = r, !.committee = n]
           q == Draft!Typed(page, e)
<1>1. page \in DraftPage /\ past \in DraftPast /\ page.rules \in {<<>>} \cup DraftCatalogues
      /\ page.draft \in DraftFields
  BY DraftPageIs DEF DraftInv
<1>2. page' = [q EXCEPT !.created.id = 0] /\ Draft!Event /\ UNCHANGED api
  BY Zenon DEF Draft!ResetDraft, Draft!Edit
<1>3. r \in DraftIds
  <2>1. k # <<>> => Head(k).id \in DraftIds BY <1>1, DraftFittingIs
  <2>2. page.rules # <<>> => Head(page.rules).id \in DraftIds BY <1>1, DraftCatalogueIs
  <2>3. "" \in DraftIds BY DEF DraftIds
  <2> HIDE DEF k
  <2> QED BY <2>1, <2>2, <2>3
<1>4. n \in Int
  <2>1. page.draft.cands \in Seq(DraftNames) BY <1>1, DraftFieldsAre
  <2> QED BY <2>1 DEF Draft!Count
<1> HIDE DEF r, n
<1>5. e \in DraftFields
  <2>1. Draft!Fresh \in DraftFields BY DraftFreshIs
  <2> QED BY <1>3, <1>4, <2>1 DEF DraftFields
<1> HIDE DEF e
<1>6. q \in DraftPage /\ q.call = page.call BY <1>1, <1>5, DraftTypedIs
<1> HIDE DEF q
<1>7. page' \in DraftPage /\ page'.call = page.call /\ page'.created.id = 0
  BY <1>2, <1>6 DEF DraftPage
<1>8. DraftAnew BY <1>1, <1>2, DraftCounts
<1> QED BY <1>2, <1>7, <1>8, DraftKept

\* The page as it is opened; the outcome of what was under way is not learned.
LEMMA DraftIsReopened ==
  ASSUME DraftParameters, DraftInv, Draft!Reopen PROVE DraftInv'
<1> DEFINE d == IF page.cleared THEN Draft!Fresh ELSE page.draft
           x == IF page.call.at \in {"none", "refused"} THEN past.excused ELSE past.excused + 1
           h == Draft!Counted
<1>1. page' = Draft!Opened(Draft!RestoredFrom(d)) /\ UNCHANGED api BY DEF Draft!Reopen
<1>2. page \in DraftPage /\ past \in DraftPast /\ page.draft \in DraftFields
  BY DraftPageIs DEF DraftInv
<1>3. d \in DraftFields BY <1>2, DraftFreshIs
<1> HIDE DEF d
<1>4. page' \in DraftPage /\ page'.call = Draft!NoCall /\ page'.created.id = 0
  BY <1>1, <1>3, DraftOpenedIs
<1>5. h \in DraftPast /\ h.renders = 0 /\ h.told = past.told /\ h.excused = past.excused
  <2> DEFINE n == past.events + 1
  <2>1. h = [past EXCEPT !.events = n, !.renders = 0] BY DEF Draft!Counted
  <2>2. n \in Nat BY <1>2 DEF DraftPast
  <2> HIDE DEF n, h
  <2> QED BY <1>2, <2>1, <2>2 DEF DraftPast
<1>6. past' = [h EXCEPT !.excused = x]
  <2> HIDE DEF h
  <2>1. past' = [h EXCEPT !.excused = IF page.call.at \in {"none", "refused"} THEN @ ELSE @ + 1]
    BY DEF Draft!Reopen, h
  <2>2. [h EXCEPT !.excused = IF page.call.at \in {"none", "refused"} THEN @ ELSE @ + 1]
          = [h EXCEPT !.excused = x]
    BY <1>5 DEF DraftPast
  <2> QED BY <2>1, <2>2
<1>7. x \in Nat /\ x >= past.excused
      /\ x >= past.excused + (IF page.call.id # 0 THEN 1 ELSE 0)
  <2>1. past.excused \in Nat BY <1>2 DEF DraftPast
  <2>2. page.call.at \in {"none", "refused"} => page.call.id = 0
    BY DEF DraftInv, DraftCallOK
  <2> QED BY <2>1, <2>2
<1> HIDE DEF x, h
<1>8. past' \in DraftPast /\ past'.renders = 0 /\ past'.told = past.told /\ past'.excused = x
  BY <1>5, <1>6, <1>7 DEF DraftPast
<1>9. page'.call.at = "none" /\ page'.call.id = 0 BY <1>4, DraftFreshIs
<1>10. DraftCallOK(page'.call, api') BY <1>4, <1>9 DEF DraftCallOK
<1>11. DraftToldOK(page', api') BY <1>4 DEF DraftToldOK
<1>12. DraftRendersOK(page', past'.renders) BY <1>8 DEF DraftRendersOK
<1>13. Len(api') <= past'.told + past'.excused + (IF page'.call.id # 0 THEN 1 ELSE 0)
       /\ api' \in Seq(DraftStatus)
  <2>1. api \in Seq(DraftStatus) /\ api' = api
        /\ Len(api) <= past.told + past.excused + (IF page.call.id # 0 THEN 1 ELSE 0)
    BY <1>1 DEF DraftInv
  <2>2. past.told \in Nat /\ past.excused \in Nat BY <1>2 DEF DraftPast
  <2> QED BY <1>7, <1>8, <1>9, <2>1, <2>2
<1> QED BY <1>4, <1>8, <1>10, <1>11, <1>12, <1>13 DEF DraftInv

LEMMA DraftRulesCome ==
  ASSUME DraftParameters, DraftInv, Draft!RulesArrive PROVE DraftInv'
<1> DEFINE n == FALSE
<1>1. page \in DraftPage /\ past \in DraftPast /\ page.draft \in DraftFields
  BY DraftPageIs DEF DraftInv
<1>2. Draft!Render /\ UNCHANGED api BY DEF Draft!RulesArrive
<1>3. PICK c \in DraftCatalogues :
        page' = [Draft!Typed(page, [page.draft EXCEPT !.rule =
                   IF Draft!Find(c, page.draft.rule) # Draft!NoRule THEN page.draft.rule
                   ELSE Head(c).id]) EXCEPT !.rules = c, !.load = n]
  BY Zenon DEF Draft!RulesArrive
<1> DEFINE id == IF Draft!Find(c, page.draft.rule) # Draft!NoRule THEN page.draft.rule
                 ELSE Head(c).id
           e == [page.draft EXCEPT !.rule = id]
           q == Draft!Typed(page, e)
<1>4. id \in DraftIds
  <2>1. c # <<>> BY DEF DraftParameters
  <2>2. Head(c).id \in DraftIds BY <2>1, DraftCatalogueIs
  <2>3. page.draft.rule \in DraftIds BY <1>1, DraftFieldsAre
  <2> QED BY <2>2, <2>3
<1>5. page' = [q EXCEPT !.rules = c, !.load = n] BY <1>3, Zenon
<1> HIDE DEF id
<1>6. e \in DraftFields BY <1>1, <1>4, DraftFieldIs
<1> HIDE DEF e
<1>7. q \in DraftPage /\ q.call = page.call /\ q.created = page.created
  BY <1>1, <1>6, DraftTypedIs
<1>8. n \in Flag BY Flags
<1> HIDE DEF q, n
<1>9. page' \in DraftPage /\ page'.call = page.call /\ page'.created = page.created
  BY <1>5, <1>7, <1>8 DEF DraftPage
<1>10. DraftAnew BY <1>1, <1>2, DraftCounts
<1> QED BY <1>2, <1>9, <1>10, DraftKept

LEMMA DraftWaits ==
  ASSUME DraftParameters, DraftInv, Draft!RulesFail \/ Draft!Rotate \/ Draft!Tick PROVE DraftInv'
<1> DEFINE t == TRUE
           n == FALSE
<1>1. page \in DraftPage /\ past \in DraftPast BY DEF DraftInv
<1>2. t \in Flag /\ n \in Flag BY Flags
<1>3. CASE Draft!RulesFail \/ Draft!Rotate
  <2>1. \/ page' = [page EXCEPT !.load = n]
        \/ page' = [page EXCEPT !.load = t]
    BY <1>3, Zenon DEF Draft!RulesFail, Draft!Rotate
  <2>2. Draft!Event /\ UNCHANGED api BY <1>3, Zenon DEF Draft!RulesFail, Draft!Rotate
  <2>3. DraftAnew BY <1>1, <2>2, DraftCounts
  <2> HIDE DEF t, n
  <2>4. page' \in DraftPage /\ page'.call = page.call /\ page'.created = page.created
    BY <1>1, <1>2, <2>1, DraftMarks
  <2> QED BY <2>2, <2>3, <2>4, DraftKept
<1>4. CASE Draft!Tick
  <2> DEFINE h == Draft!Counted
             k == h.now + 1
  <2>1. h \in DraftPast /\ h.renders = 0 /\ h.told = past.told /\ h.excused = past.excused
    <3> DEFINE m == past.events + 1
    <3>1. h = [past EXCEPT !.events = m, !.renders = 0] BY DEF Draft!Counted
    <3>2. m \in Nat BY <1>1 DEF DraftPast
    <3> HIDE DEF m, h
    <3> QED BY <1>1, <3>1, <3>2 DEF DraftPast
  <2>2. past' = [h EXCEPT !.now = k] /\ UNCHANGED <<api, page>>
    <3>1. past' = [h EXCEPT !.now = @ + 1] /\ UNCHANGED <<api, page>> BY <1>4 DEF Draft!Tick
    <3> HIDE DEF h
    <3> QED BY <2>1, <3>1 DEF DraftPast
  <2>3. k \in Nat BY <2>1 DEF DraftPast
  <2> HIDE DEF h, k
  <2>4. DraftAnew BY <2>1, <2>2, <2>3 DEF DraftAnew, DraftPast
  <2> QED BY <1>1, <2>2, <2>4, DraftKept
<1> QED BY <1>3, <1>4

LEMMA DraftCorrects ==
  ASSUME DraftParameters, DraftInv, Draft!Correct PROVE DraftInv'
<1> DEFINE c == Draft!Corrected(page)
           v == Draft!Seen(page.draft, Draft!CurrentRule(page))
           q == Draft!Typed(page, c)
           n == past.renders
<1>1. page \in DraftPage /\ past \in DraftPast /\ page.draft \in DraftFields
  BY DraftPageIs DEF DraftInv
<1>2. page' = [q EXCEPT !.ran = v] /\ ~Draft!Settled(page) /\ UNCHANGED api
  BY Zenon DEF Draft!Correct
<1>3. past' = [past EXCEPT !.renders = n + 1] BY DEF Draft!Correct
<1>4. c \in DraftFields BY <1>1, DraftCorrectedIs
<1>5. v \in DraftViews
  <2> DEFINE x == Draft!CurrentRule(page)
             d == page.draft
  <2>1. x.id \in DraftIds \cup {"none"} BY <1>1, DraftRuleIs
  <2>2. d.format \in DraftFormats /\ d.committee \in Int /\ d.quota \in Flag
        /\ d.cands \in Seq(DraftNames)
    BY <1>1, DraftFieldsAre
  <2>3. Draft!Count(d) \in Nat BY <2>2 DEF Draft!Count
  <2>4. v = <<x.id, d.format, d.committee, Draft!Count(d), d.quota>> BY DEF Draft!Seen
  <2> HIDE DEF v, x, d
  <2> QED BY <2>1, <2>2, <2>3, <2>4 DEF DraftViews
<1>6. /\ q \in DraftPage /\ q.draft = c /\ q.rules = page.rules /\ q.call = page.call
      /\ q.created = page.created
  BY <1>1, <1>4, DraftTypedIs
<1>7. page.rules = <<>> => Draft!Settled(page)
  BY DEF Draft!Settled, Draft!Corrected
<1>8. n \in Nat /\ n <= 4 /\ DraftRendersOK(page, n) BY <1>1 DEF DraftInv, DraftPast
<1> HIDE DEF q, c, v
<1>9. /\ page' \in DraftPage /\ page'.draft = c /\ page'.rules = page.rules
      /\ page'.call = page.call /\ page'.created = page.created /\ page'.ran = v
  BY <1>2, <1>5, <1>6 DEF DraftPage
<1>10. DraftRendered(page, page') BY <1>9 DEF DraftRendered, c, v
<1>11. page.rules # <<>> BY <1>2, <1>7
<1>12. n < 4 BY <1>2, <1>8 DEF DraftRendersOK
<1>13. DraftOffered(page') BY <1>1, <1>10, <1>11, DraftGetsOffered
<1>14. n >= 1 => DraftFits(page') BY <1>1, <1>8, <1>10, DraftGetsFit DEF DraftRendersOK
<1>15. n >= 2 => DraftTrim(page') BY <1>1, <1>8, <1>10, DraftGetsTrim DEF DraftRendersOK
<1>16. n >= 3 => Draft!Settled(page') BY <1>1, <1>8, <1>10, DraftGetsSettled DEF DraftRendersOK
<1>17. past' \in DraftPast /\ past'.renders = n + 1 /\ past'.told = past.told
       /\ past'.excused = past.excused
  <2> DEFINE m == n + 1
  <2>1. m \in Nat BY <1>8
  <2>2. past' = [past EXCEPT !.renders = m] BY <1>3
  <2> HIDE DEF m
  <2>3. past' \in DraftPast /\ past'.renders = m /\ past'.told = past.told
        /\ past'.excused = past.excused
    BY <1>1, <2>1, <2>2 DEF DraftPast
  <2> QED BY <2>3 DEF m
<1> HIDE DEF n
<1>18. past'.renders <= 4 BY <1>8, <1>12, <1>17
<1>19. DraftRendersOK(page', past'.renders)
  BY <1>8, <1>13, <1>14, <1>15, <1>16, <1>17 DEF DraftRendersOK
<1>20. DraftCallOK(page'.call, api') /\ DraftToldOK(page', api')
  BY <1>2, <1>9 DEF DraftInv, DraftToldOK
<1>21. /\ api' \in Seq(DraftStatus)
       /\ Len(api') <= past'.told + past'.excused + (IF page'.call.id # 0 THEN 1 ELSE 0)
  BY <1>2, <1>9, <1>17 DEF DraftInv
<1> QED BY <1>9, <1>17, <1>18, <1>19, <1>20, <1>21 DEF DraftInv

-----------------------------------------------------------------------------
(* Creating the election.                                                  *)

LEMMA DraftBodyIs ==
  ASSUME DraftParameters, NEW p \in DraftPage, past \in DraftPast
  PROVE  LET d == p.draft
             x == Draft!CurrentRule(p)
             b == Draft!Body(p)
         IN  /\ b \in DraftBodies /\ b.title = d.title /\ b.names = d.cands
             /\ b.count = Draft!Count(d) /\ b.rule = d.rule /\ b.format = d.format
             /\ b.start = (IF d.mode = "open" THEN past.now ELSE d.period.start)
             /\ b.end = d.period.end
             /\ b.committee = (IF x.committee THEN d.committee ELSE -1)
             /\ b.quota = (d.quota /\ x.quota)
             /\ b.amax = (IF d.format = "approval" THEN Draft!EffectiveMax(d, x) ELSE -1)
             /\ b.topK = (IF d.format = "ranking" /\ d.top THEN Draft!NormalizedTopK(d) ELSE -1)
             /\ b.scale = (IF d.format = "score" THEN d.scale ELSE Draft!NoScale)
             /\ b.mode = d.mode
<1> DEFINE d == p.draft
           x == Draft!CurrentRule(p)
           b == Draft!Body(p)
           c == Draft!Count(d)
           o == IF d.mode = "open" THEN past.now ELSE d.period.start
           e == d.period.end
           n == IF x.committee THEN d.committee ELSE -1
           q == d.quota /\ x.quota
           a == IF d.format = "approval" THEN Draft!EffectiveMax(d, x) ELSE -1
           k == IF d.format = "ranking" /\ d.top THEN Draft!NormalizedTopK(d) ELSE -1
           s == IF d.format = "score" THEN d.scale ELSE Draft!NoScale
<1>1. b = [title |-> d.title, names |-> d.cands, count |-> c, rule |-> d.rule,
           format |-> d.format, start |-> o, end |-> e, committee |-> n, quota |-> q,
           amax |-> a, topK |-> k, scale |-> s, mode |-> d.mode]
  BY Zenon DEF Draft!Body
<1>2. d \in DraftFields /\ x.limit \in Nat BY DraftPageIs, DraftRuleIs
<1>3. q \in Flag BY Truths, Zenon
<1>4. d.period.start \in Int /\ e \in Int
  <2>1. d.period \in DraftPeriodSet BY <1>2, DraftFieldsAre
  <2> QED BY <2>1 DEF DraftPeriodSet
<1>5. o \in Int
  <2>1. past.now \in Int BY DEF DraftPast
  <2> QED BY <1>4, <2>1
<1>6. /\ c \in Nat /\ Draft!EffectiveMax(d, x) \in Int /\ Draft!NormalizedTopK(d) \in Int
      /\ d.committee \in Int /\ d.scale \in DraftScaleSet
  BY <1>2, DraftLimitsAre, DraftFieldsAre
<1>7. n \in Int /\ a \in Int /\ k \in Int
  <2> HIDE DEF d, x
  <2>1. -1 \in Int OBVIOUS
  <2> QED BY <1>6, <2>1
<1>8. s \in DraftScaleSet
  <2>1. Draft!NoScale \in DraftScaleSet BY DEF Draft!NoScale, DraftScaleSet
  <2> QED BY <1>6, <2>1
<1> HIDE DEF d, x, b, c, o, e, n, q, a, k, s
<1>9. /\ d.title \in Flag /\ d.cands \in Seq(DraftNames) /\ d.format \in DraftFormats
      /\ d.rule \in DraftIds /\ d.mode \in DraftModes
  BY <1>2, DraftFieldsAre
<1>10. b \in DraftBodies
  BY <1>1, <1>3, <1>4, <1>5, <1>6, <1>7, <1>8, <1>9 DEF DraftBodies
<1>11. /\ b.title = d.title /\ b.names = d.cands /\ b.count = c /\ b.rule = d.rule
       /\ b.format = d.format /\ b.start = o /\ b.end = e /\ b.committee = n /\ b.quota = q
       /\ b.amax = a /\ b.topK = k /\ b.scale = s /\ b.mode = d.mode
  BY <1>1
<1> QED BY <1>10, <1>11, Zenon DEF d, x, b, c, o, e, n, q, a, k, s

LEMMA DraftCallFields ==
  ASSUME NEW c \in DraftCalls
  PROVE  /\ c.at \in DraftStages /\ c.body \in {Draft!Fresh} \cup DraftBodies /\ c.id \in Nat
         /\ \A a \in DraftStages, i \in Nat :
              /\ [c EXCEPT !.at = a] \in DraftCalls /\ [c EXCEPT !.at = a].at = a
              /\ [c EXCEPT !.at = a].id = c.id /\ [c EXCEPT !.at = a].body = c.body
              /\ [c EXCEPT !.id = i, !.at = a] \in DraftCalls
              /\ [c EXCEPT !.id = i, !.at = a].at = a /\ [c EXCEPT !.id = i, !.at = a].id = i
              /\ [c EXCEPT !.id = i, !.at = a].body = c.body
BY DEF DraftCalls

LEMMA DraftModeIs ==
  ASSUME DraftParameters, NEW c \in DraftCalls
  PROVE  c.body.mode \in DraftModes /\ Draft!StatusOf(c.body.mode) \in DraftStatus
<1>1. c.body \in {Draft!Fresh} \cup DraftBodies BY DraftCallFields
<1>2. Draft!Fresh.mode \in DraftModes BY DraftFreshIs DEF DraftModes
<1>3. \A b \in DraftBodies : b.mode \in DraftModes BY DEF DraftBodies
<1>4. c.body.mode \in DraftModes BY <1>1, <1>2, <1>3
<1> DEFINE m == c.body.mode
<1> HIDE DEF m
<1>5. m \in DraftModes => Draft!StatusOf(m) \in DraftStatus
  BY DEF Draft!StatusOf, DraftModes, DraftStatus
<1> QED BY <1>4, <1>5 DEF m

LEMMA DraftCallSet ==
  ASSUME NEW p \in DraftPage, NEW c \in DraftCalls
  PROVE  LET q == [p EXCEPT !.call = c]
         IN  /\ q \in DraftPage /\ q.call = c /\ q.draft = p.draft /\ q.rules = p.rules
             /\ q.ran = p.ran /\ q.created = p.created
BY DEF DraftPage

\* A step of the creation under way, when nothing is reported.
LEMMA DraftGoesAlong ==
  ASSUME DraftInv, page.created.id = 0, NEW c \in DraftCalls, page' = [page EXCEPT !.call = c],
         past' \in DraftPast, past'.renders \in {0, past.renders}, api' \in Seq(DraftStatus),
         DraftCallOK(c, api'),
         Len(api') <= past'.told + past'.excused + (IF c.id # 0 THEN 1 ELSE 0)
  PROVE  DraftInv'
<1>1. page \in DraftPage /\ DraftRendersOK(page, past.renders) /\ past.renders <= 4
  BY DEF DraftInv
<1>2. /\ page' \in DraftPage /\ page'.call = c /\ page'.draft = page.draft
      /\ page'.rules = page.rules /\ page'.ran = page.ran /\ page'.created = page.created
  BY <1>1, DraftCallSet
<1>3. DraftRendersOK(page', past'.renders) /\ past'.renders <= 4
  <2>1. CASE past'.renders = 0 BY <2>1 DEF DraftRendersOK
  <2>2. CASE past'.renders = past.renders BY <1>1, <1>2, <2>2, DraftSameView
  <2> QED BY <2>1, <2>2
<1>4. DraftToldOK(page', api') BY <1>2 DEF DraftToldOK
<1> QED BY <1>2, <1>3, <1>4 DEF DraftInv

LEMMA DraftIsSent ==
  ASSUME DraftParameters, DraftInv, Draft!Submit PROVE DraftInv'
<1> DEFINE b == Draft!Body(page)
           c == [at |-> "create", body |-> b, id |-> 0]
           m == page.created
<1>1. page \in DraftPage /\ past \in DraftPast /\ api \in Seq(DraftStatus) BY DEF DraftInv
<1>2. /\ page' = [page EXCEPT !.call = c, !.created.id = 0]
      /\ Draft!Event /\ UNCHANGED api /\ page.call = Draft!NoCall /\ m.id = 0
  BY DEF Draft!Submit, Draft!Pressable
<1>3. b \in DraftBodies BY <1>1, DraftBodyIs
<1> HIDE DEF b
<1>4. c \in DraftCalls /\ c.at = "create" /\ c.id = 0 BY <1>3 DEF DraftCalls, DraftStages
<1>5. page' = [page EXCEPT !.call = c]
  <2> HIDE DEF c
  <2>1. m \in [id : Nat, mode : DraftModes] BY <1>1, DraftPageIs
  <2>2. [m EXCEPT !.id = 0] = m BY <1>2, <2>1
  <2>3. page' = [page EXCEPT !.call = c, !.created = [m EXCEPT !.id = 0]] BY <1>1, <1>2 DEF DraftPage
  <2>4. page' = [page EXCEPT !.call = c, !.created = m] BY <2>2, <2>3
  <2> QED BY <1>1, <2>4 DEF DraftPage
<1> HIDE DEF c
<1>6. DraftAnew BY <1>1, <1>2, DraftCounts
<1>7. page.call.id = 0 BY <1>2, DraftFreshIs
<1>8. /\ api' \in Seq(DraftStatus) /\ past' \in DraftPast /\ past'.renders = 0
      /\ Len(api') <= past'.told + past'.excused + (IF c.id # 0 THEN 1 ELSE 0)
  BY <1>2, <1>4, <1>6, <1>7 DEF DraftInv, DraftAnew
<1>9. DraftCallOK(c, api') BY <1>4 DEF DraftCallOK
<1> QED BY <1>2, <1>4, <1>5, <1>8, <1>9, DraftGoesAlong

\* While a creation is under way nothing is reported.
LEMMA DraftUntold ==
  ASSUME DraftInv, page.call.at # "none" PROVE page.created.id = 0
BY DEF DraftInv, DraftToldOK

LEMMA DraftIsCreated ==
  ASSUME DraftParameters, DraftInv, Draft!ServerCreates PROVE DraftInv'
<1> DEFINE c == page.call
           n == Len(api) + 1
           a == IF c.body.mode = "draft" THEN "done" ELSE "action"
<1>1. page \in DraftPage /\ past \in DraftPast /\ api \in Seq(DraftStatus) BY DEF DraftInv
<1>2. c \in DraftCalls /\ c.at = "create" /\ UNCHANGED past
  BY <1>1, DraftPageIs DEF Draft!ServerCreates
<1>3. c.id = 0 BY <1>2 DEF DraftInv, DraftCallOK
<1>4. page.created.id = 0 BY <1>2, DraftUntold
<1>5. Len(api) <= past.told + past.excused /\ past.told \in Nat /\ past.excused \in Nat
  BY <1>1, <1>3 DEF DraftInv, DraftPast
<1>6. CASE page' = [page EXCEPT !.call.at = "refused"] /\ UNCHANGED api
  <2> DEFINE e == [c EXCEPT !.at = "refused"]
  <2>1. page' = [page EXCEPT !.call = e] BY <1>1, <1>6 DEF DraftPage
  <2>2. e \in DraftCalls /\ e.at = "refused" /\ e.id = 0
    BY <1>2, <1>3, DraftCallFields DEF DraftStages
  <2> HIDE DEF e
  <2>3. DraftCallOK(e, api') BY <2>2 DEF DraftCallOK
  <2>4. /\ api' \in Seq(DraftStatus) /\ past' \in DraftPast /\ past'.renders = past.renders
        /\ Len(api') <= past'.told + past'.excused + (IF e.id # 0 THEN 1 ELSE 0)
    BY <1>1, <1>2, <1>5, <1>6, <2>2
  <2> QED BY <1>4, <2>1, <2>2, <2>3, <2>4, DraftGoesAlong
<1>7. CASE api' = Append(api, "draft") /\ page' = [page EXCEPT !.call.id = n, !.call.at = a]
  <2> DEFINE e == [c EXCEPT !.id = n, !.at = a]
  <2>1. page' = [page EXCEPT !.call = e] BY <1>1, <1>7 DEF DraftPage
  <2>2. n \in Nat /\ n # 0 /\ a \in {"action", "done"} /\ a \in DraftStages
    BY <1>1 DEF DraftStages
  <2>3. api' \in Seq(DraftStatus) /\ Len(api') = n /\ n \in DOMAIN api' /\ api'[n] = "draft"
    <3> DEFINE d == "draft"
    <3>1. d \in DraftStatus /\ api' = Append(api, d) BY <1>7 DEF DraftStatus
    <3> HIDE DEF d
    <3>2. api' \in Seq(DraftStatus) /\ Len(api') = n /\ n \in DOMAIN api' /\ api'[n] = d
      BY <1>1, <3>1
    <3> QED BY <3>2 DEF d
  <2>4. a = "done" => api'[n] = Draft!StatusOf(c.body.mode)
    <3>1. a = "done" => c.body.mode = "draft" BY Zenon
    <3>2. c.body.mode \in DraftModes BY <1>2, DraftModeIs
    <3> DEFINE m == c.body.mode
    <3> HIDE DEF m
    <3>3. m = "draft" => Draft!StatusOf(m) = "draft" BY DEF Draft!StatusOf
    <3> QED BY <2>3, <3>1, <3>3 DEF m
  <2> HIDE DEF a, n
  <2>5. e \in DraftCalls /\ e.at = a /\ e.id = n /\ e.body = c.body
    <3> HIDE DEF c
    <3>1. c \in DraftCalls BY <1>2
    <3> QED BY <2>2, <3>1 DEF DraftCalls
  <2> HIDE DEF e
  <2>6. DraftCallOK(e, api')
    <3>1. e.at \in {"action", "done"} /\ e.at # "none" BY <2>2, <2>5
    <3> QED BY <2>3, <2>4, <2>5, <3>1 DEF DraftCallOK
  <2>7. /\ past' \in DraftPast /\ past'.renders = past.renders
        /\ Len(api') <= past'.told + past'.excused + (IF e.id # 0 THEN 1 ELSE 0)
    BY <1>1, <1>2, <1>5, <2>2, <2>3, <2>5 DEF n
  <2> QED BY <1>4, <2>1, <2>3, <2>5, <2>6, <2>7, DraftGoesAlong
<1> QED BY <1>6, <1>7, Zenon DEF Draft!ServerCreates

LEMMA DraftIsActedOn ==
  ASSUME DraftParameters, DraftInv, Draft!ServerActs PROVE DraftInv'
<1> DEFINE c == page.call
           s == Draft!StatusOf(c.body.mode)
           e == [c EXCEPT !.at = "done"]
<1>1. page \in DraftPage /\ past \in DraftPast /\ api \in Seq(DraftStatus) BY DEF DraftInv
<1>2. /\ c \in DraftCalls /\ c.at = "action" /\ UNCHANGED past /\ api' = [api EXCEPT ![c.id] = s]
      /\ page' = [page EXCEPT !.call.at = "done"]
  BY <1>1, DraftPageIs DEF Draft!ServerActs
<1>3. c.id \in DOMAIN api BY <1>2 DEF DraftInv, DraftCallOK
<1>4. page.created.id = 0 BY <1>2, DraftUntold
<1>5. s \in DraftStatus BY <1>2, DraftModeIs
<1>6. page' = [page EXCEPT !.call = e] BY <1>1, <1>2 DEF DraftPage
<1>7. e \in DraftCalls /\ e.at = "done" /\ e.id = c.id /\ e.body = c.body
  BY <1>2, DraftCallFields DEF DraftStages
<1> HIDE DEF e
<1>8. Draft!StatusOf(e.body.mode) = s BY <1>7
<1> HIDE DEF s, c
<1>9. api' \in Seq(DraftStatus) /\ Len(api') = Len(api) /\ api'[c.id] = s /\ c.id \in DOMAIN api'
  BY <1>1, <1>2, <1>3, <1>5
<1>10. DraftCallOK(e, api') BY <1>7, <1>8, <1>9 DEF DraftCallOK
<1>11. /\ past' \in DraftPast /\ past'.renders = past.renders
       /\ Len(api') <= past'.told + past'.excused + (IF e.id # 0 THEN 1 ELSE 0)
  BY <1>1, <1>2, <1>7, <1>9 DEF DraftInv, c
<1> QED BY <1>4, <1>6, <1>7, <1>9, <1>10, <1>11, DraftGoesAlong

LEMMA DraftNotCreated ==
  ASSUME DraftParameters, DraftInv, Draft!NotCreated PROVE DraftInv'
<1> DEFINE e == Draft!NoCall
<1>1. page \in DraftPage /\ past \in DraftPast /\ api \in Seq(DraftStatus) BY DEF DraftInv
<1>2. /\ page.call.at \in {"refused", "lost"} /\ UNCHANGED <<api, past>>
      /\ page' = [page EXCEPT !.call = e]
  BY DEF Draft!NotCreated
<1>3. page.created.id = 0 BY <1>2, DraftUntold
<1>4. page.call.id = 0 BY <1>2 DEF DraftInv, DraftCallOK
<1>5. e \in DraftCalls /\ e.at = "none" /\ e.id = 0 BY DraftFreshIs
<1>6. DraftCallOK(e, api') BY <1>5 DEF DraftCallOK
<1> HIDE DEF e
<1>7. /\ past' \in DraftPast /\ past'.renders = past.renders /\ api' \in Seq(DraftStatus)
      /\ Len(api') <= past'.told + past'.excused + (IF e.id # 0 THEN 1 ELSE 0)
  BY <1>1, <1>2, <1>4, <1>5 DEF DraftInv
<1> QED BY <1>2, <1>3, <1>5, <1>6, <1>7, DraftGoesAlong

LEMMA DraftIsLost ==
  ASSUME DraftParameters, DraftInv, Draft!Lose PROVE DraftInv'
<1> DEFINE h == Draft!Counted
           k == past.excused + 1
           e == [Draft!NoCall EXCEPT !.at = "lost"]
<1>1. page \in DraftPage /\ past \in DraftPast /\ api \in Seq(DraftStatus) BY DEF DraftInv
<1>2. /\ page.call.at \in {"create", "action", "done"} /\ UNCHANGED api
      /\ page' = [page EXCEPT !.call = e] /\ past' = [h EXCEPT !.excused = @ + 1]
  BY DEF Draft!Lose
<1>3. page.created.id = 0 BY <1>2, DraftUntold
<1>4. e \in DraftCalls /\ e.at = "lost" /\ e.id = 0
  BY DraftFreshIs, DraftCallFields DEF DraftStages
<1> HIDE DEF e
<1>5. h \in DraftPast /\ h.renders = 0 /\ h.told = past.told /\ h.excused = past.excused
  <2> DEFINE n == past.events + 1
  <2>1. h = [past EXCEPT !.events = n, !.renders = 0] BY DEF Draft!Counted
  <2>2. n \in Nat BY <1>1 DEF DraftPast
  <2> HIDE DEF n, h
  <2> QED BY <1>1, <2>1, <2>2 DEF DraftPast
<1>6. past' = [h EXCEPT !.excused = k]
  <2> HIDE DEF h
  <2> QED BY <1>2, <1>5 DEF DraftPast
<1>7. k \in Nat BY <1>1 DEF DraftPast
<1> HIDE DEF h
<1>8. past' \in DraftPast /\ past'.renders = 0 /\ past'.told = past.told /\ past'.excused = k
  <2> HIDE DEF k
  <2> QED BY <1>5, <1>6, <1>7 DEF DraftPast
<1>9. DraftCallOK(e, api') BY <1>4 DEF DraftCallOK
<1>10. /\ api' \in Seq(DraftStatus)
       /\ Len(api') <= past'.told + past'.excused + (IF e.id # 0 THEN 1 ELSE 0)
  <2>1. past.told \in Nat /\ past.excused \in Nat BY <1>1 DEF DraftPast
  <2>2. Len(api) <= past.told + past.excused + 1 BY <1>1, <2>1 DEF DraftInv
  <2>3. Len(api') = Len(api) /\ past'.excused = past.excused + 1 BY <1>2, <1>8
  <2> QED BY <1>1, <1>2, <1>4, <1>8, <2>1, <2>2, <2>3
<1> QED BY <1>2, <1>3, <1>4, <1>8, <1>9, <1>10, DraftGoesAlong

LEMMA DraftIsReported ==
  ASSUME DraftParameters, DraftInv, Draft!Created PROVE DraftInv'
<1> DEFINE c == page.call
           d == [page.draft EXCEPT !.step = 4]
           y == page.draft.step = 4
           m == [id |-> c.id, mode |-> c.body.mode]
           n == Draft!NoCall
           k == past.told + 1
<1>1. page \in DraftPage /\ past \in DraftPast /\ api \in Seq(DraftStatus) BY DEF DraftInv
<1>2. c \in DraftCalls /\ c.at = "done" /\ UNCHANGED api
  BY <1>1, DraftPageIs DEF Draft!Created, Draft!Tellable
<1>3. c.id \in DOMAIN api /\ api[c.id] = Draft!StatusOf(c.body.mode)
  BY <1>2 DEF DraftInv, DraftCallOK
<1>4. page' = [page EXCEPT !.call = n, !.draft = d, !.cleared = y, !.created = m]
  <2>1. page' = [page EXCEPT !.call = n, !.draft.step = 4, !.cleared = y, !.created = m]
    BY DEF Draft!Created, Draft!LastStep
  <2> HIDE DEF y, m, n
  <2> QED BY <1>1, <2>1 DEF DraftPage
<1>5. d \in DraftFields
  <2>1. page.draft \in DraftFields /\ 4 \in 0..4 BY <1>1, DraftPageIs
  <2> QED BY <2>1, DraftFieldIs
<1>6. y \in Flag BY DEF Flag
<1>7. c.id \in Nat /\ c.body.mode \in DraftModes BY <1>2, DraftCallFields, DraftModeIs
<1>8. m \in [id : Nat, mode : DraftModes] BY <1>7
<1>9. n \in DraftCalls /\ n.at = "none" /\ n.id = 0 BY DraftFreshIs
<1> HIDE DEF d, y, n
<1>10. page' \in DraftPage /\ page'.call = n /\ page'.created = m
  <2> HIDE DEF m
  <2> QED BY <1>1, <1>4, <1>5, <1>6, <1>8, <1>9 DEF DraftPage
<1>11. past' = [past EXCEPT !.told = k, !.renders = 0] /\ k \in Nat
  BY <1>1 DEF Draft!Created, DraftPast
<1>12. past' \in DraftPast /\ past'.renders = 0 /\ past'.told = k
       /\ past'.excused = past.excused
  <2> HIDE DEF k
  <2> QED BY <1>1, <1>11 DEF DraftPast
<1>13. DraftCallOK(page'.call, api') BY <1>9, <1>10 DEF DraftCallOK, n
<1>14. DraftToldOK(page', api')
  <2>1. page'.created.id = c.id /\ page'.created.mode = c.body.mode BY <1>10
  <2> QED BY <1>2, <1>3, <1>9, <1>10, <2>1 DEF DraftToldOK
<1>15. DraftRendersOK(page', past'.renders) /\ past'.renders <= 4 BY <1>12 DEF DraftRendersOK
<1>16. /\ api' \in Seq(DraftStatus)
       /\ Len(api') <= past'.told + past'.excused + (IF page'.call.id # 0 THEN 1 ELSE 0)
  <2>1. past.told \in Nat /\ past.excused \in Nat BY <1>1 DEF DraftPast
  <2>2. Len(api) <= past.told + past.excused + 1 BY <1>1, <2>1 DEF DraftInv
  <2> QED BY <1>1, <1>2, <1>9, <1>10, <1>12, <2>1, <2>2
<1> QED BY <1>10, <1>12, <1>13, <1>14, <1>15, <1>16 DEF DraftInv

LEMMA DraftGoesOn == ASSUME DraftInv, DraftParameters, Draft!Next PROVE DraftInv'
BY DraftIsEditedFirst, DraftCandidates, DraftImporting, DraftRuleEdits, DraftBallotEdits,
   DraftMoves, DraftIsReset, DraftIsReopened, DraftRulesCome, DraftWaits, DraftCorrects,
   DraftIsSent, DraftIsCreated, DraftIsActedOn, DraftNotCreated, DraftIsLost, DraftIsReported,
   Zenon DEF Draft!Next

LEMMA DraftIdles == ASSUME DraftInv, UNCHANGED <<api, page, past>> PROVE DraftInv'
BY DEF DraftInv

-----------------------------------------------------------------------------
(* What the page lets through, the API accepts.                            *)

\* The checks before a draft is sent.
LEMMA DraftValidIs ==
  ASSUME DraftParameters, NEW p \in DraftPage, Draft!Valid(p, 3)
  PROVE  LET d == p.draft
             x == Draft!CurrentRule(p)
         IN  /\ d.title /\ d.period.start < d.period.end /\ d.period.end > past.now
             /\ Draft!CandidatesValid(d.cands) /\ x # Draft!NoRule /\ x.tally
             /\ d.format \in x.formats
             /\ x.committee => d.committee >= 1
             /\ d.format = "score" /\ x.range =>
                  /\ d.scale.step > 0 /\ d.scale.min <= d.scale.max
                  /\ (d.scale.max - d.scale.min) % d.scale.step = 0
<1> DEFINE d == p.draft
           x == Draft!CurrentRule(p)
<1>1. /\ Draft!GeneralReady(d)
      /\ 3 >= 1 => Draft!CandidatesValid(d.cands)
      /\ 3 >= 2 => Draft!RuleReady(p, d)
  BY Zenon DEF Draft!Valid
<1>2. Draft!CandidatesValid(d.cands) /\ Draft!RuleReady(p, d) BY <1>1
<1>3. x = Draft!Find(p.rules, d.rule) BY DEF Draft!CurrentRule
<1>4. /\ x # Draft!NoRule /\ x.tally /\ d.format \in x.formats
      /\ x.committee => d.committee >= 1
      /\ d.format = "score" /\ x.range =>
           /\ d.scale.step > 0 /\ d.scale.min <= d.scale.max
           /\ (d.scale.max - d.scale.min) % d.scale.step = 0
  <2> HIDE DEF d, x
  <2> QED BY <1>2, <1>3 DEF Draft!RuleReady
<1>5. d.title /\ d.period.start < d.period.end /\ d.period.end > past.now
  BY <1>1 DEF Draft!GeneralReady
<1> QED BY <1>2, <1>4, <1>5

\* The size of the committee of a settled draft.
LEMMA DraftCommitteeIs ==
  ASSUME DraftParameters, NEW p \in DraftPage, Draft!Settled(p),
         Draft!CurrentRule(p) # Draft!NoRule, Draft!CurrentRule(p).committee
  PROVE  p.draft.committee \in 1..Draft!Count(p.draft) \/ Draft!Count(p.draft) = 0
<1> DEFINE d == p.draft
           x == Draft!CurrentRule(p)
           c == Draft!Corrected(p)
<1>1. p.rules # <<>> /\ x.limit \in Nat BY DraftRuleIs
<1>2. c.committee = Draft!CommitteeFor(d, x) BY <1>1, DraftCorrectedIs
<1>3. c = d BY DEF Draft!Settled
<1>4. d.committee \in Int /\ Draft!Count(d) \in Nat
  BY <1>1, DraftPageIs, DraftFieldsAre, DraftLimitsAre
<1>5. d.committee = Draft!CommitteeFor(d, x) BY <1>2, <1>3
<1> HIDE DEF d, x, c
<1>6. x.committee BY DEF x
<1>7. d.committee \in 1..Draft!Count(d) \/ Draft!Count(d) = 0
  BY <1>4, <1>5, <1>6 DEF Draft!CommitteeFor
<1> QED BY <1>7 DEF d

LEMMA DraftIsAccepted ==
  ASSUME DraftParameters, NEW p \in DraftPage, past \in DraftPast, Draft!Settled(p),
         Draft!Valid(p, 3), ~Draft!Unsendable(p)
  PROVE  Draft!Accepts(p.rules, Draft!Body(p))
<1> DEFINE d == p.draft
           x == Draft!CurrentRule(p)
           b == Draft!Body(p)
           n == Draft!Count(d)
<1>1. /\ d.title /\ d.period.start < d.period.end /\ d.period.end > past.now
      /\ Draft!CandidatesValid(d.cands) /\ x # Draft!NoRule /\ x.tally /\ d.format \in x.formats
      /\ x.committee => d.committee >= 1
      /\ d.format = "score" /\ x.range =>
           /\ d.scale.step > 0 /\ d.scale.min <= d.scale.max
           /\ (d.scale.max - d.scale.min) % d.scale.step = 0
  BY DraftValidIs
<1>2. x \in DraftRuleSet /\ x.limit \in Nat BY <1>1, DraftRuleIs
<1>3. d \in DraftFields BY DraftPageIs
<1>4. n \in Nat /\ n >= 2
  <2>1. n \in Nat BY <1>2, <1>3, DraftLimitsAre
  <2>2. Len(d.cands) >= 2 BY <1>1 DEF Draft!CandidatesValid
  <2> QED BY <2>1, <2>2 DEF Draft!Count
<1>5. x.committee => d.committee \in 1..n
  <2>1. x.committee => d.committee \in 1..n \/ n = 0 BY <1>1, DraftCommitteeIs
  <2> QED BY <1>4, <2>1
<1>6. Draft!EffectiveMax(d, x) \in 1..n /\ Draft!NormalizedTopK(d) \in 1..n
  BY <1>2, <1>3, <1>4, DraftLimitsAre
<1>7. ~(d.format = "ranking" /\ x.approval) BY DEF Draft!Unsendable
<1>8. /\ x.approval => "score" \notin x.formats
      /\ x.range => x.formats = {"score"}
      /\ "score" \in x.formats => x.range
      /\ "ranking" \in x.formats /\ ~x.approval => x.topK
      /\ x.formats \subseteq DraftFormats
  BY <1>2 DEF DraftParameters
<1>9. /\ b.title = d.title /\ b.names = d.cands /\ b.count = n /\ b.rule = d.rule
      /\ b.format = d.format
      /\ b.start = (IF d.mode = "open" THEN past.now ELSE d.period.start) /\ b.end = d.period.end
      /\ b.committee = (IF x.committee THEN d.committee ELSE -1)
      /\ b.quota = (d.quota /\ x.quota)
      /\ b.amax = (IF d.format = "approval" THEN Draft!EffectiveMax(d, x) ELSE -1)
      /\ b.topK = (IF d.format = "ranking" /\ d.top THEN Draft!NormalizedTopK(d) ELSE -1)
      /\ b.scale = (IF d.format = "score" THEN d.scale ELSE Draft!NoScale)
  BY DraftBodyIs
<1>10. Draft!Find(p.rules, b.rule) = x BY <1>9 DEF Draft!CurrentRule
<1> HIDE DEF d, x, b, n
<1>11. b.start < b.end
  <2>1. past.now \in Int BY DEF DraftPast
  <2>2. d.period \in DraftPeriodSet BY <1>3, DraftFieldsAre
  <2>3. d.period.start \in Int /\ d.period.end \in Int BY <2>2 DEF DraftPeriodSet
  <2> QED BY <1>1, <1>9, <2>1, <2>3
<1>12. d.format = "approval" => b.amax \in 1..n BY <1>6, <1>9
<1>13. b.topK # -1 => d.format = "ranking" /\ b.topK \in 1..n BY <1>6, <1>9
<1>14. d.format = "score" => /\ x.range /\ b.scale # Draft!NoScale
                             /\ b.scale.step > 0 /\ b.scale.min <= b.scale.max
                             /\ (b.scale.max - b.scale.min) % b.scale.step = 0
  <2> SUFFICES ASSUME d.format = "score"
               PROVE  b.scale = d.scale /\ d.scale # Draft!NoScale /\ x.range
    BY <1>1
  <2>1. x.range BY <1>1, <1>8
  <2>2. d.scale # Draft!NoScale BY <1>1, <2>1 DEF Draft!NoScale
  <2> QED BY <1>9, <2>1, <2>2
<1>15. d.format \in DraftFormats BY <1>1, <1>8
<1>16. Draft!BallotParamsValid(b)
  <2>1. CASE d.format = "approval" BY <1>9, <1>12, <2>1 DEF Draft!BallotParamsValid
  <2>2. CASE d.format = "ranking" BY <1>9, <1>13, <2>2 DEF Draft!BallotParamsValid
  <2>3. CASE d.format = "score" BY <1>9, <1>14, <2>3 DEF Draft!BallotParamsValid
  <2> QED BY <1>15, <2>1, <2>2, <2>3 DEF DraftFormats
<1>17. x.approval => b.amax # -1
  <2> SUFFICES ASSUME x.approval PROVE b.amax # -1 OBVIOUS
  <2>1. d.format = "approval" BY <1>1, <1>7, <1>8, <1>15 DEF DraftFormats
  <2> QED BY <1>4, <1>12, <2>1
<1>18. b.topK # -1 => x.topK BY <1>1, <1>7, <1>8, <1>13
<1>19. x.range => b.scale # Draft!NoScale BY <1>1, <1>8, <1>14
<1>20. b.quota => x.quota BY <1>9
<1>21. x.committee => b.committee \in 1..b.count BY <1>5, <1>9
<1>22. Draft!Compatible(b, x)
  BY <1>1, <1>9, <1>17, <1>18, <1>19, <1>20, <1>21 DEF Draft!Compatible
<1>23. b.title /\ Draft!CandidatesValid(b.names) BY <1>1, <1>9
<1>24. Draft!Accepts(p.rules, b) BY <1>1, <1>10, <1>11, <1>16, <1>22, <1>23 DEF Draft!Accepts
<1> QED BY <1>24 DEF b

-----------------------------------------------------------------------------
\* The properties of ElectionDraft.
LEMMA DraftsAreRight ==
  ASSUME DraftParameters, DraftInv
  PROVE  Draft!TypeOK /\ Draft!ReadyIsAccepted /\ Draft!CreatedIsThere /\ Draft!EffectsSettle
<1>1. page \in DraftPage /\ past \in DraftPast /\ api \in Seq(DraftStatus) BY DEF DraftInv
<1>2. page.draft \in DraftFields /\ page.created \in [id : Nat, mode : DraftModes]
  BY <1>1, DraftPageIs
<1>3. /\ page.draft.step \in 0..4 /\ page.draft.format \in DraftFormats
      /\ page.draft.committee \in Int /\ page.draft.cands \in Seq(DraftNames)
  BY <1>2, DraftFieldsAre
<1>4. page.created.id \in 0..Len(api)
  <2>1. page.created.id # 0 => page.created.id \in DOMAIN api BY DEF DraftInv, DraftToldOK
  <2>2. Len(api) \in Nat /\ DOMAIN api = 1..Len(api) BY <1>1
  <2> QED BY <2>1, <2>2
<1>5. Draft!TypeOK
  <2>1. \A i \in DOMAIN api : api[i] \in {"draft", "active", "scheduled"}
    BY <1>1 DEF DraftStatus
  <2>2. \A i \in DOMAIN page.draft.cands : page.draft.cands[i] \in DraftNames BY <1>3
  <2>3. page.draft.format \in {"approval", "ranking", "score"} BY <1>3 DEF DraftFormats
  <2> QED BY <1>3, <1>4, <2>1, <2>2, <2>3 DEF Draft!TypeOK, Draft!Formats, Draft!LastStep
<1>6. Draft!ReadyIsAccepted BY <1>1, DraftIsAccepted DEF Draft!ReadyIsAccepted
<1>7. Draft!CreatedIsThere BY DEF Draft!CreatedIsThere, DraftInv, DraftToldOK
<1>8. Draft!EffectsSettle BY DEF Draft!EffectsSettle, DraftInv
<1> QED BY <1>5, <1>6, <1>7, <1>8

\* Whatever the catalogue, the drafts left by an earlier visit and what is typed
\* or imported: four renders bring a draft to rest, the API accepts what the page
\* lets through, and an election reported is there, in the status reported.
THEOREM ElectionsAreCreatedAsReported ==
  ASSUME DraftParameters
  PROVE  Draft!Init /\ [][Draft!Next]_<<api, page, past>>
           => [](Draft!TypeOK /\ Draft!ReadyIsAccepted /\ Draft!CreatedIsThere
                 /\ Draft!EffectsSettle)
<1>1. Draft!Init => DraftInv BY DraftStarts
<1>2. DraftInv /\ [Draft!Next]_<<api, page, past>> => DraftInv' BY DraftGoesOn, DraftIdles
<1>3. DraftInv => Draft!TypeOK /\ Draft!ReadyIsAccepted /\ Draft!CreatedIsThere
                  /\ Draft!EffectsSettle
  BY DraftsAreRight
<1> QED BY <1>1, <1>2, <1>3, PTL
=============================================================================
