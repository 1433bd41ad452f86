----------------------------- MODULE DayBoard -----------------------------
(***************************************************************************)
(* The owner's day: the overview page of the web and the "Aaj" tab of the  *)
(* mobile app.  Both poll one list of rows.  The web changes a row ahead   *)
(* of the server when it is marked and puts the whole list back when the   *)
(* mark fails; the phone asks anew after each mark.                        *)
(*                                                                         *)
(* data is what the page has: the rows, the counts they came with, and for *)
(* each booking how many of its changes the rows know of.                  *)
(***************************************************************************)
EXTENDS OwnerRows

CONSTANTS
    MaxMarks,    \* bound: marks sent
    MaxTrouble   \* bound: requests that fail, polls under a mark, changes somebody else makes

VARIABLES
    ui,       \* the page
    server,   \* the bookings and the permissions
    calls     \* the requests in progress and what has been used of the bounds

vars == <<ui, server, calls>>

Bookings == 1 .. 2
NoSheet == [is |-> "none", booking |-> 0]
NoGet == [on |-> FALSE]

-----------------------------------------------------------------------------
(* The answer of the overview and the numbers on its cards. *)

\* _aggregates and pending_all: only active courts; a lapsed hold waits for no payment any more.
Shown(s) == Bookings \ s.off
CountOf(s, states) == Cardinality({b \in Shown(s) : s.st[b] \in states})
Counts(s) ==
    [bookings |-> CountOf(s, Confirmed), cancelled |-> CountOf(s, Cancelled \ {"expired"}),
     refunds |-> CountOf(s, {"refunding", "refunded"}), payWaiting |-> CountOf(s, {"held"}),
     statusPending |-> Cardinality({b \in Shown(s) : s.st[b] = "booked" /\ b \in s.ended})]

Overview(s) ==
    [rows |-> {r \in UNION {RowsOf(b, s.st[b], b \in s.ended) : b \in Shown(s)} : r.key \in OverviewKeys},
     counts |-> Counts(s), at |-> s.ver]

\* rowCounts: the pills over the table; filterRows: what a pill leaves.
PillCount(rows, pill) == IF pill = "all" THEN Cardinality(rows) ELSE Cardinality({r \in rows : r.kind = pill})
MatchesPill(row, pill) == pill = "all" \/ row.kind = pill
WebTableRows == {r \in ui.data.rows : MatchesPill(r, ui.pill)}
MobileListRows == {r \in ui.data.rows : MatchesPill(r, ui.pill)}
ListedRows == IF ui.app = "web" THEN WebTableRows ELSE MobileListRows

\* The cards of the web and the chips of the phone's hero: each number is a link to the history under a filter.
DayCards == {<<"bookings", "booked">>, <<"cancelled", "cancelled">>, <<"refunds", "refund">>}
PendingCard == {<<"payWaiting", "held">>}
WebStatusLine == {<<"statusPending", "status_pending">>}
HeroChips == {<<"bookings", "booked">>}
MobileStatusLine == {<<"statusPending", "status_pending">>}
CardLinks == IF ui.app = "web" THEN DayCards \cup PendingCard \cup WebStatusLine ELSE HeroChips \cup MobileStatusLine

\* The history behind a link lists every court of the venue, active or not.
HistoryLength(s, filter) ==
    Cardinality({r \in UNION {RowsOf(b, s.st[b], b \in s.ended) : b \in Bookings} : Passes(r, filter)})

-----------------------------------------------------------------------------
(* What a row offers. *)

\* BookingsTable: a wide table and a list of cards, with the same select and button in both.
TableOffers(row) == WebBoardOffers(row, ui.may, ui.denied)
ListOffers(row) == CardOffers(row, ui.may)
Offers(row) == IF ui.app = "web" THEN TableOffers(row) ELSE ListOffers(row)

\* One busy booking on the web, each card its own on the phone.
Busy(b) ==
    IF ui.app = "web" THEN ui.busy = b
    ELSE \E m \in calls.marks : m.booking = b /\ m.want = "yes"

\* An open sheet: the web's keeps the row it was opened on, the phone's goes with its card.
SheetOn(b, kind) == [is |-> kind, booking |-> b]

Init ==
    \E app \in {"web", "mobile"}, first \in States, ended \in SUBSET {1}, may \in (SUBSET Permissions) \ {{}}, off \in SUBSET {2} :
        LET s == [st |-> <<first, "booked">>, ended |-> ended \cup {2}, off |-> off, may |-> may, ver |-> <<0, 0>>] IN
        /\ first \in {"yes", "no", "no_show", "done"} => 1 \in ended
        /\ off # {} => may = Permissions
        /\ server = s
        /\ ui = [app |-> app, may |-> may, denied |-> FALSE, data |-> Overview(s), pill |-> "all", sheet |-> NoSheet,
                 busy |-> 0, flash |-> "none", own |-> <<0, 0>>, crossed |-> FALSE]
        \* The bounds are spent on two booked rows; of the others it is enough to see one mark go through.
        /\ calls = IF first = "booked" /\ may = Permissions /\ off = {}
                   THEN [get |-> NoGet, marks |-> {}, sent |-> 0, trouble |-> 0]
                   ELSE [get |-> NoGet, marks |-> {}, sent |-> MaxMarks - 1, trouble |-> 0]

-----------------------------------------------------------------------------
(* Fetching. *)

Ask == [on |-> TRUE, data |-> Overview(server)]

\* refetchInterval; a poll that finds the page up to date and no mark under way is left out.
Poll ==
    /\ ~calls.get.on /\ (calls.marks # {} \/ Overview(server) # ui.data)
    /\ calls.marks # {} => calls.trouble < MaxTrouble
    /\ calls' = [calls EXCEPT !.get = Ask, !.trouble = IF calls.marks = {} THEN @ ELSE @ + 1]
    /\ UNCHANGED <<ui, server>>

\* A card that is gone takes its sheet with it.
SheetStays(rows) == ui.app = "web" \/ \E r \in rows : r.booking = ui.sheet.booking /\ r.kind = "booked"

Arrive ==
    /\ calls.get.on
    /\ ui' = [ui EXCEPT !.data = calls.get.data, !.crossed = @ /\ calls.marks # {},
                        !.sheet = IF SheetStays(calls.get.data.rows) THEN @ ELSE NoSheet]
    /\ calls' = [calls EXCEPT !.get = NoGet]
    /\ UNCHANGED server

PollFails ==
    /\ calls.get.on /\ calls.trouble < MaxTrouble
    /\ calls' = [calls EXCEPT !.get = NoGet, !.trouble = @ + 1]
    /\ UNCHANGED <<ui, server>>

-----------------------------------------------------------------------------
(* Marking. *)

\* applyCompletion and applyReceivedNow, then patchOverviewRow.
Guess(row, want) == [row EXCEPT !.mark = want, !.pending = FALSE, !.guess = TRUE]
PatchRow(rows, row) == {IF r.booking = row.booking /\ r.kind = row.kind THEN row ELSE r : r \in rows}

\* markYes and submitNo: the list is kept to be put back, the row is changed, and no answer in flight may undo that.
Optimistic(row, want) ==
    /\ ui' = [ui EXCEPT !.data.rows = PatchRow(@, Guess(row, want)), !.busy = IF want = "yes" THEN row.booking ELSE @,
                        !.crossed = @ \/ calls.marks # {}]
    /\ calls' = [calls EXCEPT !.marks = @ \cup {[n |-> calls.sent, booking |-> row.booking, want |-> want,
                                                 back |-> ui.data, phase |-> "sent", answer |-> {}, ver |-> 0]},
                              !.sent = @ + 1, !.get = NoGet]

\* The mutations of the phone's card, and the no-show of both.
Plain(b, want) ==
    /\ ui' = [ui EXCEPT !.crossed = @ \/ calls.marks # {}]
    /\ calls' = [calls EXCEPT !.marks = @ \cup {[n |-> calls.sent, booking |-> b, want |-> want, back |-> {}, phase |-> "sent",
                                                 answer |-> {}, ver |-> 0]},
                              !.sent = @ + 1]

\* Haan goes at once; the rest asks first.
Choose(row, want) ==
    /\ row \in ListedRows /\ want \in Offers(row) /\ ui.sheet = NoSheet
    /\ ui.pill = "all" /\ ui.flash = "none"
    /\ want # "no_show" => ~Busy(row.booking)
    /\ IF want = "yes"
       THEN /\ calls.sent < MaxMarks
            /\ IF ui.app = "web" THEN Optimistic(row, want) ELSE Plain(row.booking, want)
       ELSE /\ ui' = [ui EXCEPT !.sheet = SheetOn(row.booking, want)]
            /\ UNCHANGED calls
    /\ UNCHANGED server

\* Saved from the sheet, once at a time.
Submit ==
    /\ ui.sheet # NoSheet /\ calls.sent < MaxMarks
    /\ ~\E m \in calls.marks : m.booking = ui.sheet.booking /\ m.want = ui.sheet.is
    /\ IF ui.app = "web" /\ ui.sheet.is = "no"
       THEN \E r \in ui.data.rows : /\ r.booking = ui.sheet.booking /\ r.kind = "booked"
                                    /\ Optimistic(r, "no")
       ELSE Plain(ui.sheet.booking, ui.sheet.is)
    /\ UNCHANGED server

\* Cancel works while it saves, too.
CloseSheet ==
    /\ ui.sheet # NoSheet
    /\ ui' = [ui EXCEPT !.sheet = NoSheet]
    /\ UNCHANGED <<server, calls>>

\* The server decides; its answer to Haan and Nahi is the booking's new row.
Decide(m) ==
    /\ m.phase = "sent"
    /\ LET st == server.st[m.booking]
           ended == m.booking \in server.ended IN
       IF Accepts(m.want, st, ended, server.may)
       THEN \E to \in Becomes(m.want) :
            /\ server' = [server EXCEPT !.st[m.booking] = to, !.ver[m.booking] = @ + 1]
            /\ calls' = [calls EXCEPT !.marks = (@ \ {m}) \cup
                            {[m EXCEPT !.phase = "done", !.answer = {MainRow(m.booking, to, ended)},
                                       !.ver = server.ver[m.booking] + 1]}]
       ELSE /\ calls' = [calls EXCEPT !.marks = (@ \ {m}) \cup
                            {[m EXCEPT !.phase = IF "record_payments" \in server.may THEN "refused" ELSE "denied"]}]
            /\ UNCHANGED server
    /\ UNCHANGED ui

\* The request, or the answer to it, is lost.
Lose(m) ==
    /\ m.phase \in {"sent", "done"} /\ calls.trouble < MaxTrouble
    /\ calls' = [calls EXCEPT !.marks = (@ \ {m}) \cup {[m EXCEPT !.phase = "refused"]}, !.trouble = @ + 1]
    /\ UNCHANGED <<ui, server>>

\* Mutant: a poll in flight is left to arrive.
SavedUnderPoll(m) ==
    /\ m.phase = "done"
    /\ ui' = [ui EXCEPT !.data = IF ui.app = "mobile" \/ m.want = "no_show" THEN @
                                 ELSE [@ EXCEPT !.rows = PatchRow(@, CHOOSE r \in m.answer : TRUE),
                                                !.at[m.booking] = m.ver],
                        !.own = IF ui.app = "mobile" \/ m.want = "no_show" THEN @ ELSE [@ EXCEPT ![m.booking] = m.ver],
                        !.sheet = IF m.want = "yes" THEN @ ELSE NoSheet,
                        !.busy = IF m.want = "yes" THEN 0 ELSE @]
    /\ calls' = [calls EXCEPT !.marks = @ \ {m}, !.get = IF @.on THEN @ ELSE Ask]
    /\ UNCHANGED server

\* applyServerRow: the answer goes into the list, and the list is asked for again, whoever else had asked.
Saved(m) ==
    /\ m.phase = "done"
    /\ ui' = [ui EXCEPT !.data = IF ui.app = "mobile" \/ m.want = "no_show" THEN @
                                 ELSE [@ EXCEPT !.rows = PatchRow(@, CHOOSE r \in m.answer : TRUE),
                                                !.at[m.booking] = m.ver],
                        !.own = IF ui.app = "mobile" \/ m.want = "no_show" THEN @ ELSE [@ EXCEPT ![m.booking] = m.ver],
                        !.sheet = IF m.want = "yes" \/ (ui.app = "mobile" /\ @.booking # m.booking) THEN @ ELSE NoSheet,
                        !.busy = IF m.want = "yes" THEN 0 ELSE @]
    /\ calls' = [calls EXCEPT !.marks = @ \ {m}, !.get = Ask]
    /\ UNCHANGED server

\* The list as it was when the mark was sent.
PutBack(m) == IF ui.app = "web" /\ m.want \in {"yes", "no"} THEN m.back ELSE ui.data
Failed(m) ==
    /\ m.phase \in {"refused", "denied"}
    /\ ui' = [ui EXCEPT !.data = PutBack(m), !.busy = IF m.want = "yes" THEN 0 ELSE @,
                        !.denied = @ \/ (ui.app = "web" /\ m.phase = "denied" /\ m.want \in {"yes", "no"})]
    /\ calls' = [calls EXCEPT !.marks = @ \ {m}]
    /\ UNCHANGED server

-----------------------------------------------------------------------------
(* Looking around, between marks, and what others do. *)

\* A behaviour looks around or marks: which pill is pressed changes nothing about a mark.
Quiet == calls.marks = {} /\ calls.sent < MaxMarks /\ ui.own = <<0, 0>> /\ ~calls.get.on /\ ui.sheet = NoSheet

PressPill(pill) ==
    /\ Quiet /\ pill # ui.pill
    /\ ui' = [ui EXCEPT !.pill = pill, !.flash = "none"]
    /\ UNCHANGED <<server, calls>>

\* findOriginalRow and openOriginal: from a refund to the booking it is of.  The phone looks for a booked row only.
WebJumpTarget(row) == {r \in ui.data.rows : r.booking = row.booking /\ r # row /\ r.kind \in {"booked", "cancelled"}}
MobileJumpTarget(row) == {r \in ui.data.rows : r.booking = row.booking /\ r.kind = "booked"}

\* PlayerCell and the foot of the phone's card: rows with a way to the original.
WebJumps(row) == row.kind # "booked"
MobileJumps(row) == row.kind # "booked"
JumpToOriginal(row) ==
    /\ Quiet /\ row \in ListedRows
    /\ IF ui.app = "web" THEN WebJumps(row) ELSE MobileJumps(row)
    /\ LET targets == IF ui.app = "web" THEN WebJumpTarget(row) ELSE MobileJumpTarget(row) IN
       ui' = IF targets = {} THEN [ui EXCEPT !.flash = "detail"]
             ELSE LET target == CHOOSE r \in targets : TRUE IN
                  [ui EXCEPT !.pill = IF ui.app = "web" /\ MatchesPill(target, @) THEN @ ELSE "all",
                             !.flash = target.kind]
    /\ UNCHANGED <<server, calls>>

\* What may become of a booking without this page.
Next_(st) ==
    CASE st = "held" -> {"asked", "lapsed", "cancelled"}
      [] st = "asked" -> {"booked", "held", "expired"}
      [] st = "lapsed" -> {"expired"}
      [] st = "booked" -> {"cancelled", "refunding", "came", "no_show", "yes"}
      [] st = "no_show" -> {"done"}
      [] st = "refunding" -> {"refunded"}
      [] OTHER -> {}
Elsewhere ==
    /\ calls.trouble < MaxTrouble
    /\ \/ \E b \in Bookings : \E to \in Next_(server.st[b]) :
            server' = [server EXCEPT !.st[b] = to, !.ver[b] = @ + 1]
       \/ 1 \notin server.ended /\ server' = [server EXCEPT !.ended = @ \cup {1}, !.ver[1] = @ + 1]
       \/ \E p \in server.may : server' = [server EXCEPT !.may = @ \ {p}]
    /\ calls' = [calls EXCEPT !.trouble = @ + 1]
    /\ UNCHANGED ui

MarkMoves == \E m \in calls.marks : Decide(m) \/ Lose(m) \/ Saved(m) \/ Failed(m)

Next ==
    \/ Poll \/ Arrive \/ PollFails
    \/ \E r \in ListedRows : \E want \in Offers(r) : Choose(r, want)
    \/ \E r \in ListedRows : JumpToOriginal(r)
    \/ Submit \/ CloseSheet \/ MarkMoves
    \/ \E pill \in {"all", "booked", "cancelled", "refund"} : PressPill(pill)
    \/ Elsewhere

Spec == Init /\ [][Next]_vars

-----------------------------------------------------------------------------
\* Type invariant.
TypeOK ==
    /\ ui.app \in {"web", "mobile"} /\ ui.may \subseteq Permissions /\ ui.denied \in BOOLEAN /\ ui.crossed \in BOOLEAN
    /\ \A r \in ui.data.rows : r.booking \in Bookings /\ r.key \in OverviewKeys /\ r.st \in States
    /\ ui.pill \in {"all", "booked", "cancelled", "refund"} /\ ui.busy \in 0 .. 2
    /\ ui.sheet = NoSheet \/ ui.sheet.is \in {"no", "no_show", "reverse"}
    /\ ui.flash \in {"none", "detail", "booked", "cancelled"}
    /\ \A b \in Bookings : server.st[b] \in States /\ ui.own[b] <= server.ver[b]
    /\ server.ended \subseteq Bookings /\ server.may \subseteq Permissions
    /\ \A m \in calls.marks : m.phase \in {"sent", "done", "refused", "denied"} /\ m.booking \in Bookings

\* What a row offers, the server would have done when it made the row, and a booked row that could be settled offers a way.
\* Two kinds of row are known to offer what is refused: the web board's select on a no-show (that has to be taken back with
\* its money), and the phone's no-show button on a booking whose no-show was taken back already.
OffersWork ==
    \A r \in ui.data.rows :
        /\ \A want \in Offers(r) :
            \/ Accepts(want, r.st, r.ended, ui.may)
            \/ ui.app = "web" /\ r.st = "no_show" /\ want \in {"yes", "no"}
            \/ ui.app = "mobile" /\ r.st = "done" /\ want = "no_show"
        /\ r.kind = "booked" /\ r.ended /\ "record_payments" \in ui.may /\ ~ui.denied => Offers(r) # {}

\* A row the page was answered about by its own mark is not shown as it was before, unless marks overlapped: then putting the
\* list back for one undoes the other until the next answer.
OwnAnswerKept == ui.crossed \/ \A b \in Bookings : ui.data.at[b] >= ui.own[b]

\* A row is shown ahead of the server only while its mark is on its way, with the same exception.
GuessEnds ==
    ui.crossed \/ \A r \in ui.data.rows : r.guess => \E m \in calls.marks : m.booking = r.booking

\* Each number on a card is the length of the list the card opens, and of the pill's list, where no booking is on an inactive
\* court; the one known to differ counts the holds still waiting for payment, where the list has the lapsed ones as well.
NumbersAreListLengths ==
    server.off = {} =>
        /\ \A link \in CardLinks :
            \/ Counts(server)[link[1]] = HistoryLength(server, link[2])
            \/ link[1] = "payWaiting" /\ \E b \in Bookings : server.st[b] = "lapsed"
        /\ PillCount(ui.data.rows, "booked") = ui.data.counts.bookings
        /\ PillCount(ui.data.rows, "cancelled") = ui.data.counts.cancelled
        /\ PillCount(ui.data.rows, "refund") = ui.data.counts.refunds

\* A jump to the original booking ends on a row that is on the screen.
JumpLands == ui.flash \in {"booked", "cancelled"} => ui.pill \in {"all", ui.flash}

Faithful == OffersWork /\ OwnAnswerKept /\ GuessEnds /\ NumbersAreListLengths /\ JumpLands

=============================================================================
