--------------------------- MODULE PlayerBookings ---------------------------
(***************************************************************************)
(* A player's bookings: the two lists (on the web with their cards, on the *)
(* phone with rows, the home screen and the chat tab made from the same    *)
(* lists) and the page of one booking.  Booking 1 lives through this       *)
(* behaviour, 2 is later and confirmed, 3 is a game of the past.           *)
(*                                                                         *)
(* Time runs through the instants that matter to booking 1; the clocks of  *)
(* the screens, which tick every half minute or minute, are on time.       *)
(***************************************************************************)
EXTENDS Naturals, FiniteSets

CONSTANTS
    MaxActs,      \* bound: what the player taps, and refreshes
    MaxTrouble    \* bound: answers lost, steps of the venue and the jobs

VARIABLES
    ui,       \* the lists, the page of booking 1, the question whether to cancel
    server,   \* booking 1, the venue's policy, the time
    calls     \* requests in progress and what has been used of the bounds

vars == <<ui, server, calls>>

HoldEnds == 2
Cutoff == 2      \* until when a confirmed booking may be cancelled, if the venue has a cutoff
Start == <<3, 9, 0>>
End == <<4, 10, 1>>
LastTime == 4

Statuses == {"held", "payment_submitted", "booked", "completed", "no_show", "cancelled"}
Ends == {"none", "player", "owner", "hold_expired", "review_expired"}    \* cancelled_by and cancellation_reason
Booking(status, paid) == [status |-> status, by |-> "none", paid |-> paid, proof |-> status # "held", refund |-> "none", inTime |-> TRUE]
GivenUp == [Booking("cancelled", FALSE) EXCEPT !.by = "review_expired"]
Later == Booking("booked", TRUE)
Played == Booking("completed", TRUE)
All(s) == <<s.b, Later, Played>>
Out(b) == [status |-> b.status, by |-> b.by, paid |-> b.paid]    \* BookingOut

InTime(s) == IF s.policy = "cutoff" THEN s.t < Cutoff ELSE s.t < Start[1]

\* list_player_bookings: what starts from now on, and the rest.
Upcoming(s) == [list |-> [i \in {i \in 1 .. 3 : Start[i] >= s.t} |-> Out(All(s)[i])], t |-> s.t]
Past(s) == [list |-> [i \in {i \in 1 .. 3 : Start[i] < s.t} |-> Out(All(s)[i])], t |-> s.t]
NoList == [list |-> [i \in {} |-> Later], t |-> 0]
Nothing == [status |-> "none"]

Init ==
    \E app \in {"web", "mobile"}, policy \in {"no", "cutoff", "open"}, status \in {"held", "payment_submitted", "booked", "cancelled"} :
        /\ server = [b |-> IF status = "cancelled" THEN GivenUp ELSE Booking(status, status = "booked"), policy |-> policy, t |-> 1]
        /\ ui = [app |-> app, at |-> "lists", tab |-> "upcoming", filter |-> "all", up |-> Upcoming(server), past |-> Past(server),
                 known |-> Nothing, detail |-> Nothing, ask |-> "no", says |-> "none", acked |-> FALSE]
        /\ calls = [up |-> NoList, past |-> NoList, get |-> Nothing, detail |-> Nothing, cancels |-> {}, refund |-> FALSE, acts |-> 0, trouble |-> 0]

\* confirm() stops the web page until it is answered.
Free == ~(ui.app = "web" /\ ui.ask # "no")
Acting == calls.acts < MaxActs /\ Free
Act(c) == [c EXCEPT !.acts = @ + 1]
Settled == calls.up = NoList /\ calls.past = NoList /\ calls.get = Nothing /\ calls.detail = Nothing /\ calls.cancels = {} /\ ~calls.refund

-----------------------------------------------------------------------------
(* What a booking is said to be. *)

StatusGroup(status) ==
    CASE status = "booked" -> "confirmed"
      [] status \in {"held", "payment_submitted"} -> "pending"
      [] status = "completed" -> "completed"
      [] OTHER -> "cancelled"

Lapsed(b, now) == b.status = "held" /\ now >= HoldEnds

\* isActiveBooking and nextBooking: the first that is not over.
IsActive(b, now) == StatusGroup(b.status) \in {"confirmed", "pending"} /\ ~Lapsed(b, now)
First(S) == {i \in S : \A j \in S : Start[i] <= Start[j]}
NextBooking(list, now) == First({i \in DOMAIN list : IsActive(list[i], now) /\ End[i] > now})

\* statusKey: the pill names who ended it.
PillKey(b) == IF b.status = "cancelled" THEN b.by ELSE b.status
\* shownStatus: on the phone a hold that has run out is over before the server's job says so.
ShownStatus(b, now) == IF Lapsed(b, now) THEN [b EXCEPT !.status = "cancelled", !.by = "hold_expired"] ELSE b

\* journeySteps: where the journey stopped.
FailedStep(b, proofSent) == IF b.status # "cancelled" THEN "none" ELSE IF proofSent THEN "check" ELSE "proof"

\* refundPolicyShort and cancelPolicySentence.
PolicyLine(policy) == CASE policy = "no" -> "no refund" [] policy = "cutoff" -> "until the cutoff" [] OTHER -> "until the start"

-----------------------------------------------------------------------------
(* The two lists. *)

Shown == IF ui.tab = "upcoming" THEN ui.up.list ELSE ui.past.list
CountOf(list, group) == Cardinality({i \in DOMAIN list : group = "all" \/ StatusGroup(list[i].status) = group})
\* FILTERS, filters.
Chips(tab) == IF tab = "upcoming" THEN {"all", "confirmed", "pending", "cancelled"} ELSE {"all", "completed", "cancelled"}
Filtered(list, filter) == {i \in DOMAIN list : filter = "all" \/ StatusGroup(list[i].status) = filter}

\* The web page: the cards, one of them featured, and three numbers.
WebCards == IF ui.tab = "upcoming" THEN Filtered(ui.up.list, ui.filter) ELSE Filtered(ui.past.list, ui.filter)
Featured == NextBooking(ui.up.list, server.t)
ActiveUpcoming == {i \in DOMAIN ui.up.list : IsActive(ui.up.list[i], server.t)}
PendingCount == Cardinality({i \in ActiveUpcoming : StatusGroup(ui.up.list[i].status) = "pending"})
StartsIn(i, now) == IF now < Start[i] THEN "starts in" ELSE IF End[i] > now THEN "now" ELSE "finished"

\* useBookingView: the buttons of a card, both of the featured one and of those in the lists.
WithinCutoff(policy, now) == policy = "cutoff" /\ now >= Cutoff
WebMayCancel(b, policy, now) ==
    \/ b.status \in {"held", "payment_submitted"}
    \/ b.status = "booked" /\ policy # "no" /\ ~WithinCutoff(policy, now)
CardButtons(b, policy, now) ==
    (IF b.status \in {"held", "payment_submitted"} THEN {"pay"} ELSE {}) \cup (IF b.status = "booked" THEN {"check-in"} ELSE {})
        \cup (IF WebMayCancel(b, policy, now) THEN {"cancel"} ELSE {})
FeaturedButtons(b, policy, now) == CardButtons(b, policy, now)
PolicyNote(b, policy, now) ==
    IF b.status = "booked" /\ ~WebMayCancel(b, policy, now) THEN (IF WithinCutoff(policy, now) THEN "closed" ELSE PolicyLine(policy)) ELSE "none"

\* The phone's rows: bookingAction, the line about the money, the refund rule.
RowAction(b, now) ==
    CASE b.status = "held" -> IF Lapsed(b, now) THEN "details" ELSE "pay"
      [] b.status = "payment_submitted" -> "status"
      [] b.status = "booked" -> "ticket"
      [] b.status = "completed" -> "rate"
      [] OTHER -> "details"
MoneyLine(b, now) ==
    CASE ShownStatus(b, now).status = "held" -> "minutes left"
      [] ShownStatus(b, now).status = "payment_submitted" -> "sent"
      [] OTHER -> IF b.paid THEN "paid" ELSE "nothing paid"
ShowsRefundLine(b, i, now) == ShownStatus(b, now).status \in {"held", "payment_submitted", "booked"} /\ End[i] > now
MobileRows == [i \in Filtered(Shown, ui.filter) |->
    [pill |-> PillKey(ShownStatus(Shown[i], server.t)), action |-> RowAction(Shown[i], server.t),
     money |-> MoneyLine(Shown[i], server.t), refundRule |-> ShowsRefundLine(Shown[i], i, server.t)]]

\* The phone's home: nextGame, the banner of what is pending, and the games to play again.
NextGame == First({i \in DOMAIN ui.up.list : ui.up.list[i].status = "booked" /\ End[i] > server.t})
PendingBanner ==
    IF NextGame # {} THEN {}
    ELSE NextBooking([i \in {i \in DOMAIN ui.up.list : ui.up.list[i].status \in {"held", "payment_submitted"}} |-> ui.up.list[i]], server.t)
ReplayList == {i \in DOMAIN ui.past.list : ui.past.list[i].status = "completed" \/ (ui.past.list[i].status = "booked" /\ End[i] <= server.t)}

\* The phone's chat tab: chatCandidates, the two lists together, the past one's word against the other's.
Together == [i \in DOMAIN ui.up.list \cup DOMAIN ui.past.list |-> IF i \in DOMAIN ui.past.list THEN ui.past.list[i] ELSE ui.up.list[i]]
ChatLive == {i \in DOMAIN Together : LET b == Together[i] IN b.status \in {"held", "payment_submitted", "booked"} /\ End[i] > server.t /\ ~Lapsed(b, server.t)}
ChatRows == ChatLive \cup {i \in DOMAIN Together : Start[i] <= server.t \/ Together[i].status = "cancelled"}

\* Both apps go back to "all" with a change of tab.
SwitchTab ==
    /\ Acting /\ ui.at = "lists" /\ ui.ask = "no"
    /\ ui' = [ui EXCEPT !.tab = IF @ = "upcoming" THEN "past" ELSE "upcoming", !.filter = "all"]
    /\ calls' = Act(calls)
    /\ UNCHANGED server
PickFilter ==
    /\ Acting /\ ui.at = "lists" /\ ui.ask = "no" /\ Settled
    /\ \E f \in Chips(ui.tab) \ {ui.filter} : ui' = [ui EXCEPT !.filter = f]
    /\ calls' = Act(calls)
    /\ UNCHANGED server

\* refetchAll: a request under way is dropped for a new one.
Refetched(c, s) == [c EXCEPT !.up = Upcoming(s), !.past = Past(s)]
JoinedRefetch(c, s) ==    \* mutant: a request under way is joined
    [c EXCEPT !.up = IF @ = NoList THEN Upcoming(s) ELSE @, !.past = IF @ = NoList THEN Past(s) ELSE @]
RefetchAll(c, s) == Refetched(c, s)
Refresh ==
    /\ Acting /\ ui.at = "lists" /\ ui.ask = "no" /\ calls.up = NoList /\ calls.past = NoList
    /\ calls' = Act(RefetchAll(calls, server))
    /\ UNCHANGED <<ui, server>>
ListArrives ==
    /\ Free
    /\ \/ /\ calls.up # NoList
          /\ ui' = [ui EXCEPT !.up = calls.up]
          /\ calls' = [calls EXCEPT !.up = NoList]
       \/ /\ calls.past # NoList
          /\ ui' = [ui EXCEPT !.past = calls.past]
          /\ calls' = [calls EXCEPT !.past = NoList]
    /\ UNCHANGED server
ListLost ==
    /\ calls.trouble < MaxTrouble /\ (calls.up # NoList \/ calls.past # NoList)
    /\ calls' = [calls EXCEPT !.up = NoList, !.past = NoList, !.trouble = @ + 1]
    /\ ui' = [ui EXCEPT !.acked = FALSE]
    /\ UNCHANGED server

-----------------------------------------------------------------------------
(* The page of booking 1. *)

OpenPage ==
    /\ Acting /\ ui.at = "lists" /\ ui.ask = "no" /\ 1 \in (IF ui.app = "web" THEN WebCards ELSE DOMAIN MobileRows) /\ ui.known = Nothing
    /\ ui' = [ui EXCEPT !.at = "detail"]
    /\ calls' = [Act(calls) EXCEPT !.get = server.b, !.detail = Nothing]
    /\ UNCHANGED server
\* Back to the lists: the phone left them marked as out of date when it cancelled.
Back ==
    /\ ui.at = "detail" /\ ui.ask = "no" /\ calls.cancels = {}
    /\ ui' = [ui EXCEPT !.at = "lists", !.known = Nothing, !.detail = Nothing]
    /\ calls' = [(IF ui.acked THEN RefetchAll(calls, server) ELSE calls) EXCEPT !.get = Nothing, !.detail = Nothing]
    /\ UNCHANGED server

\* The web asks for everything at once, the phone for the booking and, for each status, for the rest.
Polled(b) == b.status \in {"held", "payment_submitted"}
Poll ==
    /\ Free /\ ui.at = "detail" /\ ui.known # Nothing /\ Polled(ui.known) /\ calls.get = Nothing /\ ui.known # server.b
    /\ calls' = [calls EXCEPT !.get = server.b]
    /\ UNCHANGED <<ui, server>>
PageArrives ==
    /\ Free /\ calls.get # Nothing
    /\ ui' = [ui EXCEPT !.known = calls.get, !.detail = IF ui.app = "web" THEN calls.get ELSE @]
    /\ calls' = [calls EXCEPT !.get = Nothing,
                              !.detail = IF ui.app = "mobile" /\ (ui.known = Nothing \/ ui.known.status # calls.get.status) THEN server.b ELSE @]
    /\ UNCHANGED server
DetailArrives ==
    /\ calls.detail # Nothing
    /\ ui' = [ui EXCEPT !.detail = calls.detail]
    /\ calls' = [calls EXCEPT !.detail = Nothing]
    /\ UNCHANGED server
PageLost ==
    /\ calls.trouble < MaxTrouble /\ (calls.get # Nothing \/ calls.detail # Nothing)
    /\ calls' = [calls EXCEPT !.get = Nothing, !.detail = Nothing, !.trouble = @ + 1]
    /\ UNCHANGED <<ui, server>>

\* cancelState.
MayCancel(b, policy, now) ==
    CASE b.status \in {"held", "payment_submitted"} -> TRUE
      [] b.status # "booked" -> FALSE
      [] policy = "no" -> FALSE
      [] policy = "cutoff" -> now < Cutoff
      [] OTHER -> now < Start[1]
\* What the page of the phone offers: pay, another slot, the policy card's button.
PageButtons(b, policy, now) ==
    (IF b.status = "held" /\ ~Lapsed(b, now) THEN {"pay"} ELSE {})
        \cup (IF ShownStatus(b, now).status = "cancelled" THEN {"rebook"} ELSE {})
        \cup (IF MayCancel(b, policy, now) /\ ~Lapsed(b, now) THEN {"cancel"} ELSE {})
        \cup (IF b.status = "booked" /\ End[1] > now THEN {"check-in"} ELSE {})
\* The page of the web: no cancelling there.
WebPageButtons(b) == (IF b.status = "booked" THEN {"check-in"} ELSE {}) \cup (IF b.status \in {"held", "payment_submitted"} THEN {"pay"} ELSE {})

\* refund_request_state: the window is judged at the moment of the cancel.
RefundRequest(s) ==
    CASE s.b.status # "cancelled" -> "not_cancelled"
      [] s.policy = "no" -> "policy_no_refund"
      [] ~s.b.inTime -> "window_closed"
      [] s.b.refund # "none" -> "already_owed"
      [] ~s.b.paid /\ ~s.b.proof -> "nothing_paid"
      [] OTHER -> "eligible"
RequestOffered == ui.detail # Nothing /\ RefundRequest([server EXCEPT !.b = ui.detail]) = "eligible"

AskForRefund ==
    /\ Acting /\ ui.at = "detail" /\ RequestOffered /\ ~calls.refund
    /\ calls' = [Act(calls) EXCEPT !.refund = TRUE]
    /\ UNCHANGED <<ui, server>>
\* request_refund; both pages fetch the detail again.
RefundAsked ==
    /\ calls.refund
    /\ server' = IF RefundRequest(server) = "eligible" THEN [server EXCEPT !.b.refund = "owed"] ELSE server
    /\ calls' = [calls EXCEPT !.refund = FALSE, !.detail = IF ui.at = "detail" /\ RefundRequest(server) = "eligible" THEN server'.b ELSE @]
    /\ UNCHANGED ui
RefundLost ==
    /\ calls.refund /\ calls.trouble < MaxTrouble
    /\ \/ UNCHANGED server
       \/ RefundRequest(server) = "eligible" /\ server' = [server EXCEPT !.b.refund = "owed"]
    /\ calls' = [calls EXCEPT !.refund = FALSE, !.trouble = @ + 1]
    /\ UNCHANGED ui

-----------------------------------------------------------------------------
(* Cancelling. *)

\* handleCancel asks for what the card says; the phone opens a sheet, which goes with what the page learns.
WebAsks ==
    /\ ui.app = "web" /\ ui.at = "lists"
    /\ \/ 1 \in WebCards /\ "cancel" \in CardButtons(Shown[1], server.policy, server.t)
       \/ 1 \in Featured /\ "cancel" \in FeaturedButtons(ui.up.list[1], server.policy, server.t)
    /\ ui' = [ui EXCEPT !.ask = IF (IF 1 \in WebCards THEN Shown ELSE ui.up.list)[1].status = "booked" THEN "paid" ELSE "unpaid"]
MobileAsks ==
    /\ ui.app = "mobile" /\ ui.at = "detail" /\ ui.known # Nothing /\ "cancel" \in PageButtons(ui.known, server.policy, server.t)
    /\ ui' = [ui EXCEPT !.ask = "sheet"]
AskCancel ==
    /\ Acting /\ ui.ask = "no"
    /\ WebAsks \/ MobileAsks
    /\ calls' = Act(calls)
    /\ UNCHANGED server
KeepBooking ==
    /\ ui.ask # "no"
    /\ ui' = [ui EXCEPT !.ask = "no"]
    /\ UNCHANGED <<server, calls>>

\* The web has no guard against a second cancel while the first is on its way; the phone has.
SaidPaid == IF ui.ask = "sheet" THEN ui.known.status = "booked" ELSE ui.ask = "paid"
ConfirmCancel ==
    /\ ui.ask # "no" /\ Cardinality(calls.cancels) < (IF ui.app = "web" THEN 2 ELSE 1)
    /\ calls' = [calls EXCEPT !.cancels = @ \cup {[n |-> Cardinality(@) + 1, paid |-> SaidPaid]}]
    /\ ui' = IF ui.app = "web" THEN [ui EXCEPT !.ask = "no"] ELSE ui
    /\ UNCHANGED server

\* cancel_booking for the player: again is not an error; a confirmed one by the venue's policy.
CancelAccepted(s) ==
    \/ s.b.status \in {"cancelled", "held", "payment_submitted"}
    \/ s.b.status = "booked" /\ s.policy # "no" /\ ~WithinCutoff(s.policy, s.t)
CancelledWithRefund(s) ==
    IF s.b.status = "cancelled" THEN s
    ELSE [s EXCEPT !.b.status = "cancelled", !.b.by = "player", !.b.inTime = InTime(s),
                   !.b.refund = IF s.b.status = "booked" THEN "owed" ELSE @]
CancelledPlain(s) ==    \* mutant: the refund is forgotten
    IF s.b.status = "cancelled" THEN s ELSE [s EXCEPT !.b.status = "cancelled", !.b.by = "player", !.b.inTime = InTime(s)]
Cancelled(s) == CancelledWithRefund(s)

\* An alert or the closing of the sheet; the web fetches its lists again, the phone takes the answer for its page.
CancelAnswered(c) ==
    IF CancelAccepted(server)
    THEN /\ server' = Cancelled(server)
         /\ ui' = [ui EXCEPT !.says = IF c.paid THEN "refund" ELSE @, !.acked = TRUE, !.ask = "no",
                             !.known = IF ui.app = "mobile" /\ ui.at = "detail" THEN server'.b ELSE @]
         /\ calls' = [(IF ui.app = "web" THEN RefetchAll(calls, server') ELSE calls) EXCEPT
                         !.cancels = @ \ {c}, !.detail = IF ui.app = "mobile" /\ ui.at = "detail" THEN server'.b ELSE @]
    ELSE /\ ui' = [ui EXCEPT !.says = "refused"]
         /\ calls' = [calls EXCEPT !.cancels = @ \ {c}]
         /\ UNCHANGED server
Cancel == Free /\ \E c \in calls.cancels : CancelAnswered(c)
CancelLost ==
    /\ calls.trouble < MaxTrouble /\ Free
    /\ \E c \in calls.cancels :
          /\ \/ UNCHANGED server
             \/ CancelAccepted(server) /\ server' = Cancelled(server)
          /\ calls' = [calls EXCEPT !.cancels = @ \ {c}, !.trouble = @ + 1]
    /\ ui' = [ui EXCEPT !.says = "refused"]

-----------------------------------------------------------------------------
(* Time, the venue and the jobs. *)

Tick ==
    /\ server.t < LastTime
    /\ server' = [server EXCEPT !.t = @ + 1]
    /\ UNCHANGED <<ui, calls>>
Ended(s, by) == [s EXCEPT !.b.status = "cancelled", !.b.by = by, !.b.inTime = InTime(s)]
Elsewhere ==
    /\ calls.trouble < MaxTrouble
    /\ LET b == server.b IN
       \/ b.status = "held" /\ server.t < HoldEnds /\ server' = [server EXCEPT !.b.status = "payment_submitted", !.b.proof = TRUE]
       \/ Lapsed(b, server.t) /\ server' = Ended(server, "hold_expired")
       \/ b.status = "payment_submitted" /\ server.t >= HoldEnds /\ server' = Ended(server, "review_expired")
       \/ b.status = "payment_submitted" /\ server' = [server EXCEPT !.b.status = "booked", !.b.paid = TRUE]
       \/ b.status = "payment_submitted" /\ server' = Ended(server, "owner")
       \/ b.status = "booked" /\ server' = [Ended(server, "owner") EXCEPT !.b.refund = "owed"]
       \/ b.status = "booked" /\ server.t >= Start[1] /\ \E st \in {"completed", "no_show"} : server' = [server EXCEPT !.b.status = st]
       \/ b.refund = "owed" /\ server' = [server EXCEPT !.b.refund = "sent"]
    /\ calls' = [calls EXCEPT !.trouble = @ + 1]
    /\ UNCHANGED ui

Next ==
    \/ SwitchTab \/ PickFilter \/ Refresh \/ ListArrives \/ ListLost
    \/ OpenPage \/ Back \/ Poll \/ PageArrives \/ DetailArrives \/ PageLost
    \/ AskForRefund \/ RefundAsked \/ RefundLost
    \/ AskCancel \/ KeepBooking \/ ConfirmCancel \/ Cancel \/ CancelLost
    \/ Tick \/ Elsewhere

Spec == Init /\ [][Next]_vars

-----------------------------------------------------------------------------

TypeOK ==
    /\ server.b.status \in Statuses /\ server.b.by \in Ends /\ server.t \in 1 .. LastTime
    /\ ui.ask \in {"no", "paid", "unpaid", "sheet"}
    /\ Cardinality(calls.cancels) <= 2

\* Against what the server has at this moment, an up-to-date screen offers a cancel exactly where it would be accepted.
\* (The phone does not offer it once a game has begun or a hold has run out, though a venue without a cutoff takes it.)
CancelOfferedIfAccepted ==
    /\ (ui.app = "web" /\ 1 \in DOMAIN Shown /\ Shown[1] = Out(server.b) /\ server.b.status # "cancelled")
          => (("cancel" \in CardButtons(Shown[1], server.policy, server.t)) <=> CancelAccepted(server))
    /\ (ui.app = "mobile" /\ ui.known = server.b /\ server.b.status # "cancelled")
          => /\ "cancel" \in PageButtons(ui.known, server.policy, server.t) => CancelAccepted(server)
             /\ (CancelAccepted(server) /\ server.t < Start[1] /\ ~Lapsed(server.b, server.t)) => "cancel" \in PageButtons(ui.known, server.policy, server.t)

\* Who was told of a refund when cancelling is owed one or has it.
PromiseKept == ui.says = "refund" => server.b.refund # "none"

\* After a cancel that was accepted, lists fetched since do not show the booking as live.
CancelIsSeen ==
    (ui.app = "web" /\ ui.acked /\ calls.up = NoList /\ calls.past = NoList) =>
        \A list \in {ui.up.list, ui.past.list} : 1 \in DOMAIN list => list[1].status = "cancelled"

\* Lists fetched on the same side of the start show every booking once; the chips chosen from are those shown.
EveryBookingOnce ==
    /\ (ui.up.t <= Start[1] <=> ui.past.t <= Start[1]) => /\ DOMAIN ui.up.list \cup DOMAIN ui.past.list = 1 .. 3
                                                       /\ DOMAIN ui.up.list \cap DOMAIN ui.past.list = {}
    /\ ui.filter \in Chips(ui.tab)

\* On the phone a hold that has run out is over in every place at once: no paying, no refund rule, no chat, no banner, no cancel.
LapsedIsOver ==
    \A i \in DOMAIN ui.up.list : (ui.app = "mobile" /\ Lapsed(ui.up.list[i], server.t)) =>
        LET b == ui.up.list[i] IN
        /\ RowAction(b, server.t) = "details" /\ PillKey(ShownStatus(b, server.t)) = "hold_expired" /\ MoneyLine(b, server.t) = "nothing paid"
        /\ ~ShowsRefundLine(b, i, server.t) /\ i \notin PendingBanner
        /\ i \in DOMAIN ui.past.list \/ i \notin ChatLive
        /\ PageButtons(b, server.policy, server.t) = {"rebook"}

\* The numbers, the featured card and the cards of the web are about the same bookings: what is featured is counted, has not
\* finished and has a button; a confirmed card that does not offer a cancel says why.
NumbersAgree ==
    ui.app = "web" =>
    /\ Featured \subseteq ActiveUpcoming /\ PendingCount <= CountOf(ui.up.list, "pending")
    /\ \A i \in Featured : StartsIn(i, server.t) # "finished" /\ FeaturedButtons(ui.up.list[i], server.policy, server.t) # {}
    /\ \A i \in WebCards : Shown[i].status = "booked" =>
          ("cancel" \in CardButtons(Shown[i], server.policy, server.t) <=> PolicyNote(Shown[i], server.policy, server.t) = "none")

\* The places of the phone agree: a row that says "pay" opens a page that says so; from lists fetched on the same side of the
\* start, the next game and the pending one can be chatted about and are not offered to be played again.
PlacesAgree ==
    (ui.app = "mobile" /\ (ui.up.t <= Start[1] <=> ui.past.t <= Start[1])) =>
    /\ \A i \in DOMAIN MobileRows : MobileRows[i].action = "pay" <=> "pay" \in PageButtons(Shown[i], server.policy, server.t)
    /\ (NextGame \cup PendingBanner) \subseteq (ChatRows \ ReplayList)

\* A step of the journey marked as failed for want of a screenshot is marked so only if there was none.  (The phone; the
\* web's page does not know of the screenshot.)
JourneyIsTrue ==
    (ui.app = "mobile" /\ ui.known # Nothing /\ ui.detail # Nothing /\ ui.detail.status = ui.known.status) =>
        (FailedStep(ui.known, ui.detail.proof) = "proof" => ~server.b.proof)

Faithful ==
    /\ CancelOfferedIfAccepted
    /\ PromiseKept
    /\ CancelIsSeen
    /\ EveryBookingOnce
    /\ LapsedIsOver
    /\ NumbersAgree
    /\ PlacesAgree
    /\ JourneyIsTrue
=============================================================================
