---------------------------- MODULE BookingMoney ----------------------------
(***************************************************************************)
(* The owner settles one finished booking from its detail popup: "Haan",   *)
(* "Nahi / kam mila", a payment entry, a no-show, and taking the no-show    *)
(* back.  Every form starts from the row as it was loaded; a form can be    *)
(* closed while its save is under way, and opened again, and the row can    *)
(* be loaded anew under an open form.  Web and mobile.                      *)
(***************************************************************************)
EXTENDS Integers

CONSTANTS
    Price,       \* the booking's price, in units that can be paid in parts
    MaxSaves,    \* bound: saves sent from this screen
    MaxOthers    \* bound: payments recorded by somebody else meanwhile

VARIABLES
    ui,       \* the popup: its row, the open form and the form's fields
    server,   \* the booking's price, money, status and completion mark
    calls     \* saves in flight

vars == <<ui, server, calls>>

Blank == -1
Top == Price + 1
Amounts == 0 .. Top
Most(a, b) == IF a > b THEN a ELSE b
NoForm == [kind |-> "none", price |-> Blank, got |-> Blank, method |-> "none", shot |-> FALSE,
           reason |-> FALSE, id |-> 0, of |-> [price |-> 0, paid |-> 0]]
Row == [price |-> server.price, paid |-> server.paid, status |-> server.status, mark |-> server.mark,
        ended |-> server.ended]

Init ==
    /\ \E ended \in BOOLEAN, paid \in {0, Price} :
        server = [price |-> Price, paid |-> paid, proof |-> 0, status |-> "booked", mark |-> "none",
                  ended |-> ended, crossed |-> FALSE, others |-> 0]
    /\ \E app \in {"web", "mobile"}, can \in {"record", "check_in"}, split \in BOOLEAN :
        /\ app = "web" \/ can = "check_in" => ~split   \* only the app's settleAction asks the flag
        /\ ui = [app |-> app, can |-> can, split |-> split, row |-> Row, form |-> NoForm]
    /\ calls = [sent |-> {}, saves |-> 0]

-----------------------------------------------------------------------------
(* What the popup offers. *)

Due(row) == Most(0, row.price - row.paid)

\* isStatusPending.
StatusPending == ui.row.status = "booked" /\ ui.row.ended /\ ui.row.mark = "none"

\* settleAction: one way to settle what is left, and it needs the permission.
SettleAction ==
    CASE ui.can # "record" -> "none"
      [] ui.row.mark # "none" -> IF Due(ui.row) > 0 /\ ui.split THEN "record" ELSE "none"
      [] ui.row.ended -> "completion"
      [] Due(ui.row) > 0 -> IF ui.split THEN "record" ELSE "wait"
      [] OTHER -> "none"

\* DetailBody's buttons; a completed booking still has the status key "booked".
MobileButtons ==
    (CASE SettleAction = "completion" /\ ui.row.status = "no_show" -> {"reverse"}
       [] SettleAction = "completion" -> {"yes"} \cup (IF Due(ui.row) > 0 THEN {"short"} ELSE {})
       [] SettleAction = "record" -> {"record"}
       [] OTHER -> {})
    \cup (IF ui.row.status # "no_show" /\ ui.row.ended /\ ui.row.mark = "none" THEN {"noshow"} ELSE {})

\* DetailContent's buttons: Haan and Nahi once the slot is over, "No-show" while nobody marked it.
WebButtons ==
    (CASE ui.can # "record" \/ ~ui.row.ended -> {}
       [] ui.row.status = "no_show" -> {"reverse"}
       [] OTHER -> {"short"} \cup (IF ui.row.mark # "yes" THEN {"yes"} ELSE {}))
    \cup (IF StatusPending THEN {"noshow"} ELSE {})

Buttons == IF ui.app = "web" THEN WebButtons ELSE MobileButtons

-----------------------------------------------------------------------------
(* The forms. *)

\* The money a form counts with: a dialog of the web keeps the row it was opened for, a sheet of the
\* app reads the row as it is loaded.
Shown == IF ui.app = "web" THEN ui.form.of ELSE [price |-> ui.row.price, paid |-> ui.row.paid]

\* The money a box may take: what is left of the row, or of the final price being typed.
Room == CASE ui.form.kind # "reverse" -> Due(Shown)
          [] ui.form.price = Blank -> 0
          [] OTHER -> Most(0, ui.form.price - Shown.paid)

\* A box that takes any digits.
AcceptsAll(typed) == typed

\* acceptReceivedInput: more than the room is not taken, the box keeps what it had.
AcceptReceived(typed) == IF typed > Room THEN ui.form.got ELSE typed

\* noshowReverseProblem.
ReverseProblem ==
    CASE ui.form.price = Blank \/ ui.form.price < Shown.paid -> "price"
      [] ui.form.got = Blank \/ ui.form.got > ui.form.price - Shown.paid -> "received"
      [] ui.form.method = "none" -> "method"
      [] ui.form.method = "transfer" /\ ui.form.got > 0 /\ ~ui.form.shot -> "screenshot"
      [] OTHER -> "none"

\* validateReceivedNow and canSaveCompletion: a reason while money stays due.
ShortOK == ui.form.got # Blank /\ ui.form.got <= Due(Shown) /\ (ui.form.got < Due(Shown) => ui.form.reason)

\* RecordPaymentSheet.valid.
RecordOK == ui.form.got > 0 /\ ui.form.got <= Due(Shown)

FormOK ==
    CASE ui.form.kind = "reverse" -> ReverseProblem = "none"
      [] ui.form.kind = "short" -> ShortOK
      [] ui.form.kind = "record" -> RecordOK
      [] OTHER -> ui.form.kind = "noshow"

Saving == \E c \in calls.sent : c.id = ui.form.id

\* planCompletion: the preview under the amount.
Plan(row, got) == IF Due(row) - got = 0 THEN "yes" ELSE "no"

Open(kind) ==
    /\ ui.form.kind = "none" /\ kind \in Buttons /\ calls.saves < MaxSaves
    /\ ui' = [ui EXCEPT !.form = [NoForm EXCEPT !.kind = kind, !.id = calls.saves,
            !.of = IF ui.app = "web" THEN [price |-> ui.row.price, paid |-> ui.row.paid] ELSE @,
            !.price = IF kind = "reverse" THEN ui.row.price ELSE @,
            !.got = CASE kind = "record" -> Due(ui.row) [] kind = "noshow" -> @ [] OTHER -> 0]]
    /\ UNCHANGED <<server, calls>>

\* A new final price lowers the money box to what is left of it.
TypePrice(typed) ==
    /\ ui.form.kind = "reverse" /\ typed # ui.form.price
    /\ LET left == Most(0, typed - Shown.paid) IN
       ui' = [ui EXCEPT !.form.price = typed,
                        !.form.got = IF typed # Blank /\ @ > left THEN left ELSE @]
    /\ UNCHANGED <<server, calls>>

TypeReceived(typed) ==
    /\ ui.form.kind \in {"reverse", "short", "record"}
    /\ ui' = [ui EXCEPT !.form.got = AcceptReceived(typed)]
    /\ ui' # ui
    /\ UNCHANGED <<server, calls>>

ChooseMethod(method) ==
    /\ ui.form.kind = "reverse" /\ ui.form.method # method
    /\ ui' = [ui EXCEPT !.form.method = method]
    /\ UNCHANGED <<server, calls>>

\* The screenshot picker is shown for a transfer.
PickShot ==
    /\ ui.form.kind = "reverse" /\ ui.form.method = "transfer" /\ ui.form.got > 0 /\ ~ui.form.shot
    /\ ui' = [ui EXCEPT !.form.shot = TRUE]
    /\ UNCHANGED <<server, calls>>

WriteReason ==
    /\ ui.form.kind = "short" /\ ~ui.form.reason
    /\ ui' = [ui EXCEPT !.form.reason = TRUE]
    /\ UNCHANGED <<server, calls>>

Close ==
    /\ ui.form.kind # "none"
    /\ ui' = [ui EXCEPT !.form = NoForm]
    /\ UNCHANGED <<server, calls>>

\* A request that holds no row of the booking.
NotRead == [price |-> 0, paid |-> 0, status |-> "booked"]

Request(kind, id) ==
    [kind |-> kind, id |-> id, got |-> Most(0, ui.form.got), price |-> Most(0, ui.form.price), method |-> ui.form.method,
     shot |-> ui.form.shot /\ ui.form.method = "transfer" /\ ui.form.got > 0,
     reason |-> ui.form.reason, plan |-> IF kind = "short" THEN Plan(Shown, ui.form.got) ELSE "none",
     at |-> "sent", saw |-> NotRead, mark |-> "none"]

Save ==
    /\ FormOK /\ ~Saving /\ calls.saves < MaxSaves
    /\ calls' = [sent |-> calls.sent \cup {Request(ui.form.kind, ui.form.id)}, saves |-> calls.saves + 1]
    /\ UNCHANGED <<ui, server>>

\* "Haan" and "Baqi mil gaye" save at once; the button waits for its answer.
SaveYes ==
    /\ ui.form.kind = "none" /\ "yes" \in Buttons /\ calls.saves < MaxSaves
    /\ \A c \in calls.sent : c.kind # "yes"
    /\ calls' = [sent |-> calls.sent \cup {Request("yes", calls.saves)}, saves |-> calls.saves + 1]
    /\ UNCHANGED <<ui, server>>

-----------------------------------------------------------------------------
(* The server.  Every request loads the row, checks what it loaded and commits later, some of them more than once;
   a lock taken later does not load the row anew. *)

Left == Most(0, server.price - server.paid)
Move(c, d) == calls' = [calls EXCEPT !.sent = (@ \ {c}) \cup {d}]
Reads(c, at) == [c EXCEPT !.at = at, !.saw = [price |-> server.price, paid |-> server.paid, status |-> server.status]]
Answer(c, at) == [c EXCEPT !.at = at, !.saw = NotRead]

\* A commit of money or of a price while another request has money to commit, one of the two taking a no-show back.
Crosses(c) == \E d \in calls.sent \ {c} : d.at \in {"loaded", "proved", "priced"} /\ "reverse" \in {c.kind, d.kind}

\* require_accessible_booking.
Begin(c) ==
    /\ c.at = "sent"
    /\ Move(c, Reads(c, "loaded"))
    /\ UNCHANGED <<ui, server>>

\* mark_completion's first commit: the booking's whole paid amount becomes the target, and the mark.
MarkCompletion(c) ==
    LET due == Most(0, c.saw.price - c.saw.paid)
        target == IF c.kind = "yes" THEN c.saw.price ELSE c.saw.paid + c.got
        mark == IF c.kind = "yes" \/ due = c.got THEN "yes" ELSE "no"
        ok == /\ server.ended /\ c.saw.status # "no_show"
              /\ c.kind = "yes" \/ (c.got <= due /\ (c.got < due => c.reason)) IN
    /\ c.kind \in {"yes", "short"} /\ c.at = "loaded"
    /\ server' = IF ok THEN [server EXCEPT !.paid = target, !.mark = mark, !.crossed = @ \/ Crosses(c)] ELSE server
    /\ Move(c, IF ok THEN [Answer(c, IF c.saw.status = "booked" THEN "paid" ELSE "ok") EXCEPT !.mark = mark]
                ELSE Answer(c, "refused"))
    /\ UNCHANGED ui

\* record_entry: never past the price it loaded; the money so far is summed under the lock.
Enters(c, price, next) ==
    LET ok == c.got <= price - server.paid IN
    /\ server' = IF ok THEN [server EXCEPT !.paid = @ + c.got, !.crossed = @ \/ Crosses(c)] ELSE server
    /\ Move(c, Answer(c, IF ok THEN next ELSE "refused"))
    /\ UNCHANGED ui

RecordEntry(c) ==
    /\ c.kind = "record" /\ c.at = "loaded"
    /\ Enters(c, c.saw.price, "ok")

\* owner_mark_no_show: a booked slot that is over, and still booked when it is written.
MarkNoShow(c) ==
    LET ok == c.saw.status = "booked" /\ server.status = "booked" /\ server.ended IN
    /\ c.kind = "noshow" /\ c.at = "loaded"
    /\ server' = IF ok THEN [server EXCEPT !.status = "no_show"] ELSE server
    /\ Move(c, Answer(c, IF ok THEN "ok" ELSE "refused"))
    /\ UNCHANGED ui

\* reverse_noshow, on the row as it was loaded: a final price, and cash now or a screenshot for Approvals.
ReverseOK(c) ==
    /\ c.saw.status = "no_show" /\ c.got <= c.price - c.saw.paid
    /\ c.method = "transfer" /\ c.got > 0 => c.shot
ByTransfer(c) == c.method = "transfer" /\ c.got > 0

RefuseReversal(c) ==
    /\ c.kind = "reverse" /\ c.at = "loaded"
    /\ ReverseOK(c) => ByTransfer(c) /\ server.proof > 0
    /\ Move(c, Answer(c, "refused"))
    /\ UNCHANGED <<ui, server>>

\* The screenshot first, one pending for a booking; the row is loaded anew after it.
SendProof(c) ==
    /\ c.kind = "reverse" /\ c.at = "loaded" /\ ReverseOK(c) /\ ByTransfer(c) /\ server.proof = 0
    /\ server' = [server EXCEPT !.proof = c.got]
    /\ Move(c, Reads(c, "proved"))
    /\ UNCHANGED ui

\* The final price, written when it is not the loaded one.
SetPrice(c) ==
    /\ c.kind = "reverse"
    /\ c.at = "proved" \/ (c.at = "loaded" /\ ReverseOK(c) /\ ~ByTransfer(c))
    /\ server' = [server EXCEPT !.price = IF c.price # c.saw.price THEN c.price ELSE @,
                                !.crossed = @ \/ server.mark # "none" \/ Crosses(c)]
    /\ Move(c, Answer(c, IF c.method = "cash" /\ c.got > 0 THEN "priced" ELSE "paid"))
    /\ UNCHANGED ui

\* The cash, by record_entry, in a transaction of its own.
TakeCash(c) ==
    /\ c.at = "priced"
    /\ Enters(c, c.price, "paid")

\* mark_completed, the last commit.  A completion refuses when somebody else completed the booking since it loaded it;
\* a reversal loads it anew first.
SettleStatus(c) ==
    LET ok == c.kind = "reverse" \/ server.status # "completed" IN
    /\ c.at = "paid"
    /\ server' = [server EXCEPT !.status = "completed"]
    /\ Move(c, Answer(c, IF ok THEN "ok" ELSE "refused"))
    /\ UNCHANGED ui

\* The request or its answer is lost on the way, or the server stops between two commits.
Lose(c) ==
    /\ c.at \notin {"refused", "lost"}
    /\ Move(c, Answer(c, "lost"))
    /\ UNCHANGED <<ui, server>>

\* A success reaches the page although its form was closed: it closes whatever sheet is open in the
\* app, on the web the dialog of its kind.  (The row is asked for again: Load.)  A failure is shown by its
\* own form only.
Closes(kind) == kind # "yes" /\ (ui.app = "web" => ui.form.kind = kind)
Saved(c) ==
    /\ c.at = "ok"
    /\ calls' = [calls EXCEPT !.sent = @ \ {c}]
    /\ ui' = IF Closes(c.kind) THEN [ui EXCEPT !.form = NoForm] ELSE ui
    /\ UNCHANGED server

Failed(c) ==
    /\ c.at \in {"refused", "lost"}
    /\ calls' = [calls EXCEPT !.sent = @ \ {c}]
    /\ UNCHANGED <<ui, server>>

\* Opening the popup again, a refetch after a save or on focus: under an open form too.
Load ==
    /\ ui.row # Row
    /\ ui' = [ui EXCEPT !.row = Row]
    /\ UNCHANGED <<server, calls>>

SlotEnds ==
    /\ ~server.ended
    /\ server' = [server EXCEPT !.ended = TRUE]
    /\ UNCHANGED <<ui, calls>>

\* Another device records a payment, in one go.
PaidElsewhere ==
    /\ server.others < MaxOthers
    /\ Left > 0
    /\ server' = [server EXCEPT !.paid = @ + 1, !.others = @ + 1,
                    !.crossed = @ \/ \E c \in calls.sent : c.kind = "reverse" /\ c.at \in {"loaded", "proved", "priced"}]
    /\ UNCHANGED <<ui, calls>>

Next ==
    \/ Load \/ SlotEnds \/ PaidElsewhere \/ Close \/ Save \/ SaveYes \/ PickShot \/ WriteReason
    \/ \E kind \in {"short", "record", "noshow", "reverse"} : Open(kind)
    \/ \E typed \in Amounts \cup {Blank} : TypePrice(typed) \/ TypeReceived(typed)
    \/ \E method \in {"cash", "transfer"} : ChooseMethod(method)
    \/ \E c \in calls.sent : Begin(c) \/ MarkCompletion(c) \/ RecordEntry(c) \/ MarkNoShow(c)
    \/ \E c \in calls.sent : RefuseReversal(c) \/ SendProof(c) \/ SetPrice(c) \/ TakeCash(c) \/ SettleStatus(c)
    \/ \E c \in calls.sent : Lose(c) \/ Saved(c) \/ Failed(c)

Spec == Init /\ [][Next]_vars

-----------------------------------------------------------------------------
TypeOK ==
    /\ server.paid \in 0 .. Top /\ server.price \in 0 .. Top
    /\ ui.form.got \in Amounts \cup {Blank} /\ ui.form.price \in Amounts \cup {Blank}
    /\ calls.saves <= MaxSaves

\* Whatever was typed in either box and in any order, and whatever was loaded meanwhile: the money box of the
\* web's dialog never holds more than is left of a final price that covers what was paid.  (The app's sheet can:
\* its row may change under it, and then it cannot be saved.)
ReceivedFits ==
    ui.app = "web" /\ ui.form.kind = "reverse" /\ ui.form.price >= Shown.paid => ui.form.got <= ui.form.price - Shown.paid

\* The preview is the promise: a completion saved on the row the owner was shown gets the mark
\* that the form announced.  (Somebody else's payment in between makes the row another one.)
PlanKept ==
    \A c \in calls.sent : c.kind = "short" /\ c.at = "ok" /\ server.others = 0 /\ calls.saves = 1
                            => c.mark = c.plan

\* However many forms were sent, closed and sent again from old rows, and wherever the server stopped: never more
\* money recorded than the price, and a booking marked as fully paid is.  (Except once a no-show was taken back while
\* another request with money was under way, or after a completion of which only the money was committed: its price
\* is checked against an old amount, and is written over an old one.)
MoneyAddsUp == ~server.crossed => server.paid <= server.price /\ (server.mark = "yes" => Left = 0)

Faithful == ReceivedFits /\ PlanKept /\ MoneyAddsUp

=============================================================================
