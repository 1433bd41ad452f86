---------------------------- MODULE GameReviews ----------------------------
(***************************************************************************)
(* Rating a game that was played: the player's bookings (a form in every   *)
(* card on the web, one sheet on the phone), the venue's replies, the      *)
(* public page of the venue and the administrator who hides a review.      *)
(***************************************************************************)
EXTENDS Naturals, FiniteSets

CONSTANTS
    MaxActs,      \* bound: taps of whoever uses the screen
    MaxTrouble    \* bound: answers lost, changes made by others

VARIABLES
    ui,       \* the screen: the lists it has and its forms
    server,   \* the games that were played and their reviews
    calls     \* requests in progress, what was accepted, what has been used of the bounds

vars == <<ui, server, calls>>

Bookings == {1, 2}
Stars == {1, 5}
Texts == {"", "old", "new"}
Drafts == {<<1, "">>, <<1, "new">>, <<5, "new">>}    \* what a player types
Players == {"web", "mobile"}
Owners == {"owner web", "owner mobile"}
Visitors == {"visitor web", "visitor mobile", "admin"}

\* Zero stars stand for no review.  `old` says that the week in which it may be changed is over.
NoReview == [stars |-> 0, text |-> "", reply |-> "", hidden |-> FALSE, old |-> FALSE]
Written(r) == r.stars > 0
NoForm == [open |-> FALSE, target |-> 0, seed |-> NoReview, stars |-> 0, text |-> "", error |-> FALSE]
NoSave == [to |-> 0, kind |-> "none", stars |-> 0, text |-> ""]

\* One form for every card on the web and for every row of an owner; one sheet on the phone.
Keys(app) == IF app = "mobile" THEN {0} ELSE Bookings
Old == [NoReview EXCEPT !.stars = 5, !.text = "old"]
Init ==
    \E app \in Players \cup Owners \cup Visitors, flag \in BOOLEAN,
       first \in {NoReview, Old, [Old EXCEPT !.reply = "old"], [Old EXCEPT !.hidden = TRUE], [Old EXCEPT !.old = TRUE]} :
        /\ server = [played |-> {1}, flag |-> flag, review |-> <<first, NoReview>>]
        /\ ui = [app |-> app, has |-> {}, past |-> {}, list |-> <<NoReview, NoReview>>, form |-> [k \in Keys(app) |-> NoForm], apart |-> FALSE]
        /\ calls = [get |-> {"past", "list"}, save |-> NoSave, sent |-> <<NoReview, NoReview>>, hid |-> <<first.hidden, FALSE>>,
                    acts |-> 0, trouble |-> 0]

Acting == calls.acts < MaxActs
Act(c) == [c EXCEPT !.acts = @ + 1]
Player == ui.app \in Players
Owner == ui.app \in Owners

-----------------------------------------------------------------------------
(* What the server does. *)

\* create: a game of one's own, played, without a review.
CanCreate(s, b) == s.flag /\ b \in s.played /\ ~Written(s.review[b])
Created(s, b, stars, text) ==
    IF CanCreate(s, b) THEN [s EXCEPT !.review[b] = [NoReview EXCEPT !.stars = stars, !.text = text]] ELSE s
\* edit: one's own review, for a week; a reply and the administrator's decision stay.
CanEdit(s, b) == Written(s.review[b]) /\ ~s.review[b].old
Edited(s, b, stars, text) ==
    IF CanEdit(s, b) THEN [s EXCEPT !.review[b].stars = stars, !.review[b].text = text] ELSE s
\* reply_to_review
CanReply(s, b) == s.flag /\ Written(s.review[b])
Replied(s, b, text) == IF CanReply(s, b) THEN [s EXCEPT !.review[b].reply = text] ELSE s
\* set_hidden
Hidden(s, b, yes) == IF Written(s.review[b]) THEN [s EXCEPT !.review[b].hidden = yes] ELSE s
\* list_for_player; list_for_venue, where only an administrator is shown what is hidden.
ListForPlayer(s) == s.review
ListForVenue(s, admin) == [b \in Bookings |-> IF s.review[b].hidden /\ ~admin THEN NoReview ELSE s.review[b]]
\* summary: how many visible reviews, and the sum that their average is taken of.
Total(r) == r[1].stars + r[2].stars
Summary(s) == LET visible == {b \in Bookings : Written(s.review[b]) /\ ~s.review[b].hidden} IN
    <<Cardinality(visible), Total([b \in Bookings |-> IF b \in visible THEN s.review[b] ELSE NoReview])>>

-----------------------------------------------------------------------------
(* What the screens make of a list. *)

\* reviewStats skips what is hidden, whoever fetched the list.
ReviewStats(list) == LET counted == {b \in Bookings : list[b].stars \in 1 .. 5 /\ ~list[b].hidden} IN
    <<Cardinality(counted), Total([b \in Bookings |-> IF b \in counted THEN list[b] ELSE NoReview])>>
\* The owner's phone takes the average of all it was sent.
OwnerAverage(list) == <<Cardinality({b \in Bookings : Written(list[b])}), Total(list)>>
\* The page of a venue: nothing with the feature off on the web; on the phone what is hidden is left out.
VenueReviews == IF ~server.flag THEN {} ELSE {b \in Bookings : Written(ui.list[b])}
ReviewsBlock == {b \in Bookings : Written(ui.list[b]) /\ ~ui.list[b].hidden}
Page == IF ui.app = "visitor mobile" THEN ReviewsBlock ELSE VenueReviews

\* RateGame in a played game's card: rate, or change within the week; BookingRow the same.
Editable(b) == ~ui.list[b].old
RateGame(b) == b \in ui.past /\ (~Written(ui.list[b]) \/ Editable(b))
CanRate(b) == b \in ui.past /\ (~Written(ui.list[b]) \/ Editable(b))
Offered(b) == IF ui.app = "web" THEN ~ui.form[b].open /\ RateGame(b) ELSE ui.form[0].target = 0 /\ CanRate(b)
\* OwnerReviewCard: on the web an answer can be changed, on the phone it is given once.
WebOwnerCard(b) == Written(ui.list[b])
MobileOwnerCard(b) == Written(ui.list[b]) /\ ui.list[b].reply = "" /\ server.flag
ReplyOffered(b) == IF ui.app = "owner web" THEN WebOwnerCard(b) ELSE MobileOwnerCard(b)

-----------------------------------------------------------------------------
(* Lists arrive. *)

\* A card's fields are set once, when it first appears: from the review it has then, if it has one.
Seeded(b, r) == [NoForm EXCEPT !.target = b, !.seed = r, !.stars = r.stars, !.text = r.text]
PastArrives ==
    /\ Player /\ "past" \in calls.get
    /\ ui' = [ui EXCEPT !.past = server.played, !.has = @ \cup {"past"},
                        !.form = IF ui.app = "mobile" THEN @
                                 ELSE [b \in Bookings |-> IF b \in server.played \ ui.past THEN Seeded(b, ui.list[b]) ELSE @[b]]]
    /\ calls' = [calls EXCEPT !.get = @ \ {"past"}]
    /\ UNCHANGED server
\* An owner's row on the web starts with the answer there is, open when there is none; rows that leave lose theirs.
OwnerRow(b, r) == [NoForm EXCEPT !.target = b, !.open = ui.app = "owner web" /\ r.reply = "",
                                 !.text = IF ui.app = "owner web" THEN r.reply ELSE ""]
OwnerRows(list) ==
    [b \in Bookings |-> IF ~Written(list[b]) THEN NoForm ELSE IF Written(ui.list[b]) THEN ui.form[b] ELSE OwnerRow(b, list[b])]
Listed == IF Player THEN ListForPlayer(server) ELSE ListForVenue(server, ui.app = "admin")
ListArrives ==
    /\ "list" \in calls.get
    /\ ui' = [ui EXCEPT !.list = Listed, !.has = @ \cup {"list"}, !.form = IF Owner THEN OwnerRows(Listed) ELSE @]
    /\ calls' = [calls EXCEPT !.get = @ \ {"list"}]
    /\ UNCHANGED server

-----------------------------------------------------------------------------
(* The player's form. *)

WebOpen(b) == ui' = [ui EXCEPT !.form[b].open = TRUE]
\* RateSheet sets its fields when it is opened for a booking it was not open for.
SheetFor(b) == [ui EXCEPT !.form[0] = [Seeded(b, ui.list[b]) EXCEPT !.open = TRUE], !.apart = calls.get # {}]
MobileOpen(b) == ui' = SheetFor(b)
OpenForm(b) ==
    /\ Player /\ Acting /\ Offered(b)
    /\ IF ui.app = "web" THEN WebOpen(b) ELSE MobileOpen(b)
    /\ calls' = Act(calls)
    /\ UNCHANGED server

Write(k, stars, text) ==
    /\ Player /\ Acting /\ ui.form[k].open
    /\ ui' = [ui EXCEPT !.form[k].stars = stars, !.form[k].text = text, !.apart = TRUE]
    /\ calls' = Act(calls)
    /\ UNCHANGED server

\* Cancel closes the web's form and keeps what is in it; the sheet forgets whom it was open for.
WebCancel(k) == ui' = [ui EXCEPT !.form[k].open = FALSE]
SheetForgets(k) == ui' = [ui EXCEPT !.form[k] = NoForm]
CloseForm(k) ==
    /\ Player /\ ui.form[k].open
    /\ IF ui.app = "web" THEN WebCancel(k) ELSE SheetForgets(k)
    /\ UNCHANGED <<server, calls>>

\* The card looks at the review it has now, the sheet at the one it was opened with.
Edits(k) == IF ui.app = "web" THEN Written(ui.list[k]) ELSE Written(ui.form[k].seed)
Request(k) == [to |-> ui.form[k].target, kind |-> IF Edits(k) THEN "edit" ELSE "create", stars |-> ui.form[k].stars, text |-> ui.form[k].text]
WebSave(k) ==
    IF ui.form[k].stars < 1 THEN ui' = [ui EXCEPT !.form[k].error = TRUE] /\ UNCHANGED calls
    ELSE ui' = [ui EXCEPT !.form[k].error = FALSE] /\ calls' = [calls EXCEPT !.save = Request(k)]
MobileSave(k) ==
    /\ ui.form[k].stars >= 1
    /\ ui' = [ui EXCEPT !.form[k].error = FALSE] /\ calls' = [calls EXCEPT !.save = Request(k)]
Save(k) ==
    /\ Player /\ calls.save = NoSave /\ ui.form[k].open
    /\ IF ui.app = "web" THEN WebSave(k) ELSE MobileSave(k)
    /\ UNCHANGED server

-----------------------------------------------------------------------------
(* The venue's answer, the administrator's decision. *)

OpenReply(b) ==
    /\ Owner /\ Acting /\ ReplyOffered(b) /\ ~ui.form[b].open
    /\ ui' = [ui EXCEPT !.form[b].open = TRUE]
    /\ calls' = Act(calls)
    /\ UNCHANGED server
WriteReply(b) ==
    /\ Owner /\ Acting /\ ReplyOffered(b) /\ ui.form[b].open
    /\ ui' = [ui EXCEPT !.form[b].text = "new"]
    /\ calls' = Act(calls)
    /\ UNCHANGED server
\* Only the phone has a Cancel.
CancelReply(b) ==
    /\ ui.app = "owner mobile" /\ ui.form[b].open /\ ReplyOffered(b)
    /\ ui' = [ui EXCEPT !.form[b].open = FALSE]
    /\ UNCHANGED <<server, calls>>
SendReply(b) ==
    /\ Owner /\ calls.save = NoSave /\ ui.form[b].open /\ ReplyOffered(b) /\ ui.form[b].text # ""
    /\ ui' = [ui EXCEPT !.form[b].error = FALSE]
    /\ calls' = [calls EXCEPT !.save = [NoSave EXCEPT !.to = b, !.kind = "reply", !.text = ui.form[b].text]]
    /\ UNCHANGED server
\* toggleHidden goes by the row as it is shown.
ToggleHidden(b) ==
    /\ ui.app = "admin" /\ Acting /\ calls.save = NoSave /\ b \in Page
    /\ calls' = Act([calls EXCEPT !.save = [NoSave EXCEPT !.to = b, !.kind = IF ui.list[b].hidden THEN "unhide" ELSE "hide"]])
    /\ UNCHANGED <<ui, server>>

-----------------------------------------------------------------------------
(* Answers. *)

Accepts(c) ==
    CASE c.kind = "create" -> CanCreate(server, c.to)
      [] c.kind = "edit" -> CanEdit(server, c.to)
      [] c.kind = "reply" -> CanReply(server, c.to)
      [] OTHER -> Written(server.review[c.to])
Done(s, c) ==
    CASE c.kind = "create" -> Created(s, c.to, c.stars, c.text)
      [] c.kind = "edit" -> Edited(s, c.to, c.stars, c.text)
      [] c.kind = "reply" -> Replied(s, c.to, c.text)
      [] OTHER -> Hidden(s, c.to, c.kind = "hide")
\* RateGame closes its own form, RateSheet whichever is open; an owner's form is closed, on the phone emptied too.
AfterSaved(k) ==
    CASE ui.app = "mobile" -> [ui EXCEPT !.form[0] = NoForm]
      [] ui.app = "owner mobile" -> [ui EXCEPT !.form[k].open = FALSE, !.form[k].text = ""]
      [] ui.app = "admin" -> ui
      [] OTHER -> [ui EXCEPT !.form[k].open = FALSE]
\* What is fetched again: every list of the bookings on the web, the reviews elsewhere.
Invalidated(get) == get \cup (IF ui.app = "web" THEN {"past", "list"} ELSE {"list"})
Key(c) == IF ui.app = "mobile" THEN 0 ELSE c.to

Saved ==
    /\ calls.save # NoSave /\ Accepts(calls.save)
    /\ server' = Done(server, calls.save)
    /\ ui' = AfterSaved(Key(calls.save))
    /\ calls' = [calls EXCEPT !.save = NoSave, !.get = Invalidated(@), !.sent[calls.save.to] = server'.review[calls.save.to],
                              !.hid[calls.save.to] = IF calls.save.kind \in {"hide", "unhide"} THEN calls.save.kind = "hide" ELSE @]
Refused ==
    /\ calls.save # NoSave /\ ~Accepts(calls.save)
    /\ ui' = IF ui.app = "admin" THEN ui ELSE [ui EXCEPT !.form[Key(calls.save)].error = @ \/ ui.form[Key(calls.save)].open]
    /\ calls' = [calls EXCEPT !.save = NoSave]
    /\ UNCHANGED server
\* The server did it and the answer is lost: the form shows an error, and nothing is fetched again.
AnswerLost ==
    /\ calls.save # NoSave /\ Accepts(calls.save) /\ calls.trouble < MaxTrouble
    /\ server' = Done(server, calls.save)
    /\ ui' = IF ui.app = "admin" THEN ui ELSE [ui EXCEPT !.form[Key(calls.save)].error = @ \/ ui.form[Key(calls.save)].open]
    /\ calls' = [calls EXCEPT !.save = NoSave, !.trouble = @ + 1,
                              !.hid[calls.save.to] = IF calls.save.kind \in {"hide", "unhide"} THEN calls.save.kind = "hide" ELSE @]

-----------------------------------------------------------------------------
(* Others: the second game is played, the week ends, another device, other roles. *)

Others == calls.trouble < MaxTrouble
OthersWrite ==
    /\ Others
    /\ \/ server' = [server EXCEPT !.played = Bookings]
       \/ \E b \in Bookings : Written(server.review[b]) /\ server' = [server EXCEPT !.review[b].old = TRUE]
       \/ \E b \in Bookings : server' = Created(server, b, 1, "old")
       \/ \E b \in Bookings : server' = Edited(server, b, 1, "new")
       \/ \E b \in Bookings : server' = Replied(server, b, "old")
    /\ server' # server
    /\ calls' = [calls EXCEPT !.trouble = @ + 1]
    /\ UNCHANGED ui
OthersHide ==
    /\ Others
    /\ \E b \in Bookings :
        /\ Written(server.review[b])
        /\ server' = Hidden(server, b, ~server.review[b].hidden)
        /\ calls' = [calls EXCEPT !.trouble = @ + 1, !.hid[b] = ~@]
    /\ UNCHANGED ui
\* The lists are fetched again: the page is shown once more, or pulled down.
Refetch ==
    /\ Acting /\ calls.get = {}
    /\ calls' = Act([calls EXCEPT !.get = {"past", "list"}])
    /\ UNCHANGED <<ui, server>>

Next ==
    \/ PastArrives \/ ListArrives \/ Saved \/ Refused \/ AnswerLost \/ OthersWrite \/ OthersHide \/ Refetch
    \/ \E b \in Bookings : OpenForm(b) \/ OpenReply(b) \/ WriteReply(b) \/ CancelReply(b) \/ SendReply(b) \/ ToggleHidden(b)
    \/ \E k \in Keys(ui.app) : CloseForm(k) \/ Save(k) \/ (\E w \in Drafts : Write(k, w[1], w[2]))

Spec == Init /\ [][Next]_vars

-----------------------------------------------------------------------------
Reviews == [stars : {0} \cup Stars, text : Texts, reply : Texts, hidden : BOOLEAN, old : BOOLEAN]
Forms == [open : BOOLEAN, target : 0 .. 2, seed : Reviews, stars : {0} \cup Stars, text : Texts, error : BOOLEAN]
TypeOK ==
    /\ server.played \subseteq Bookings /\ server.flag \in BOOLEAN /\ server.review \in [Bookings -> Reviews]
    /\ ui.app \in Players \cup Owners \cup Visitors /\ ui.has \subseteq {"past", "list"} /\ ui.past \subseteq Bookings
    /\ ui.list \in [Bookings -> Reviews] /\ ui.form \in [Keys(ui.app) -> Forms] /\ ui.apart \in BOOLEAN
    /\ calls.get \subseteq {"past", "list"} /\ calls.save.kind \in {"none", "create", "edit", "reply", "hide", "unhide"}
    /\ calls.sent \in [Bookings -> Reviews] /\ calls.hid \in [Bookings -> BOOLEAN] /\ calls.acts \in 0 .. MaxActs /\ calls.trouble \in 0 .. MaxTrouble

Settled == ui.has = {"past", "list"} /\ calls.get = {} /\ calls.save = NoSave
\* A screen that knows the server's state offers only what the server takes (with the feature on: the
\* player's screens and the owner's on the web do not look at it).
OfferedIsAccepted ==
    /\ Player /\ "past" \in ui.has /\ ui.list = server.review /\ server.flag =>
        \A b \in Bookings : Offered(b) => IF Written(ui.list[b]) THEN CanEdit(server, b) ELSE CanCreate(server, b)
    /\ ui.app = "owner mobile" /\ ui.list = Listed => \A b \in Bookings : ReplyOffered(b) => CanReply(server, b)
\* A review is of a game that was played.
RatedWasPlayed == \A b \in Bookings : Written(server.review[b]) => b \in server.played
\* The stars of the venue are the same for the administrator, who sees what is hidden, for a visitor, for
\* the owner and in the cards of the search.
SameAverage ==
    /\ ReviewStats(ListForVenue(server, TRUE)) = Summary(server)
    /\ ReviewStats(ListForVenue(server, FALSE)) = Summary(server)
    /\ OwnerAverage(ListForVenue(server, FALSE)) = Summary(server)
\* What an administrator hid stays hidden whatever the player and the owner do, until one shows it again.
HiddenIsTheAdmins == \A b \in Bookings : server.review[b].hidden = calls.hid[b]
\* Once an accepted save has been fetched, the screen shows it.
SavedIsShown ==
    Settled /\ calls.trouble = 0 =>
        /\ ui.list = Listed
        /\ \A b \in Bookings : Written(calls.sent[b]) => server.review[b] = calls.sent[b]
\* The sheet opens with the review of its own booking, never with what was left in it for another; `apart`
\* says that something was typed since, or that it was opened while the reviews were being fetched.
SheetIsTheReview ==
    ui.app = "mobile" /\ ui.form[0].open /\ ~ui.apart =>
        /\ ui.form[0].stars = ui.form[0].seed.stars /\ ui.form[0].text = ui.form[0].seed.text
        /\ calls.trouble = 0 /\ Settled => ui.form[0].seed = ui.list[ui.form[0].target]
\* No visitor is shown what is hidden when the page was fetched.
HiddenIsNotShown == ui.app \in Visitors \ {"admin"} => \A b \in Page : ~ui.list[b].hidden

\* All of these.
Faithful ==
    /\ OfferedIsAccepted /\ RatedWasPlayed /\ SameAverage /\ HiddenIsTheAdmins
    /\ SavedIsShown /\ SheetIsTheReview /\ HiddenIsNotShown
=============================================================================
