----------------------------- MODULE RefundsDesk -----------------------------
(***************************************************************************)
(* "Refunds to pay" of the owner, on the web and in the mobile app: the    *)
(* list, the form that records a refund sent outside the app, and the      *)
(* server's guarded update behind it.  One refund, in units of money small *)
(* enough that it can be paid in parts.                                    *)
(***************************************************************************)
EXTENDS Integers

CONSTANTS
    Due,          \* the refund the policy owes
    MaxSubmits    \* bound: how often the form is sent from this screen

VARIABLES
    ui,       \* the screen: permission, listed row, dialog and its fields
    server,   \* the dispute row; what it recorded and the owner was not told, and the answers lost
    calls     \* the list's fetch and the forms in flight

vars == <<ui, server, calls>>

Remaining == Due - server.paid
Unlisted == -1
Bad == Due + 1     \* an amount above everything owed; parseAmount's NaN is 0 here
NoForm == [at |-> "none", max |-> 0, amount |-> 0, refOk |-> FALSE, error |-> FALSE, left |-> 0, id |-> 0]

Init ==
    /\ \E app \in {"web", "mobile"} :
        ui = [app |-> app, may |-> "loading", row |-> Unlisted, listed |-> "loading", form |-> NoForm]
    /\ \E permitted \in BOOLEAN :
        server = [paid |-> 0, permitted |-> permitted, blind |-> 0, lost |-> 0, others |-> 0]
    /\ calls = [fetch |-> FALSE, sent |-> {}, submits |-> 0]

-----------------------------------------------------------------------------
(* What the screen shows. *)

\* refundBreakdown: the status behind the chip, from what the row says is left.
Breakdown(left) ==
    CASE Due <= 0 -> "none" [] left <= 0 -> "done" [] left < Due -> "partial" [] OTHER -> "owed"

\* A form that lets an empty amount pass as zero.
OnlyTooMuch(typed, max) == IF typed > max THEN "exceeds" ELSE "none"

\* refundAmountError.
AmountError(typed, max) ==
    CASE typed <= 0 -> "not_positive" [] typed > max -> "exceeds" [] OTHER -> "none"

\* OwnerRefundsPage: unknown permissions wait; a refusal is one clear state without a retry.
WebPanel ==
    CASE ui.may = "loading" -> "loading"
      [] ui.may = "no" \/ ui.listed = "denied" -> "noPermission"
      [] ui.listed # "ok" -> ui.listed
      [] ui.row = Unlisted -> "empty"
      [] OTHER -> "rows"

\* RefundsScreen: NoAccess as soon as the permissions are settled.
MobilePanel ==
    CASE ui.may = "loading" -> "loading"
      [] ui.may = "no" -> "noAccess"
      [] ui.listed = "denied" -> "noPermission"
      [] ui.listed # "ok" -> ui.listed
      [] ui.row = Unlisted -> "empty"
      [] OTHER -> "rows"

\* MarkRefundedDialog: the form is there while something is owed.
WebForm == IF ui.form.at = "form" /\ ui.form.max > 0 THEN {"submit"} ELSE {}

\* RefundSheet: the button is disabled until the fields are right.
MobileForm ==
    IF /\ ui.form.at = "form" /\ ui.form.refOk /\ ui.form.max > 0
       /\ AmountError(ui.form.amount, ui.form.max) = "none"
    THEN {"submit"} ELSE {}

Panel == IF ui.app = "web" THEN WebPanel ELSE MobilePanel
OfThisForm == {c \in calls.sent : c.id = ui.form.id}
Busy == ui.form.at = "form" /\ OfThisForm # {}

-----------------------------------------------------------------------------
(* The list. *)

SettlePermission ==
    /\ ui.may = "loading"
    /\ ui' = [ui EXCEPT !.may = IF server.permitted THEN "yes" ELSE "no"]
    /\ UNCHANGED <<server, calls>>

\* The owner takes the permission away later: the screen learns it from a 403.
Withdraw ==
    /\ server.permitted /\ ui.may = "yes" /\ server.others = 0
    /\ server' = [server EXCEPT !.permitted = FALSE, !.others = @ + 1]
    /\ UNCHANGED <<ui, calls>>

\* A refetch: focus, the pull to refresh, an invalidation, "try again".
Fetch ==
    /\ ui.may = "yes" /\ ~calls.fetch
    /\ calls' = [calls EXCEPT !.fetch = TRUE]
    /\ UNCHANGED <<ui, server>>

\* The open dialog belongs to a row of the list: it goes when its row does.
OpenFor(row) == IF row = Unlisted THEN NoForm ELSE ui.form

ShowRefunds ==
    /\ calls.fetch
    /\ calls' = [calls EXCEPT !.fetch = FALSE]
    /\ \/ /\ server.permitted
          /\ LET row == IF Remaining > 0 THEN Remaining ELSE Unlisted IN
             ui' = [ui EXCEPT !.listed = "ok", !.row = row, !.form = OpenFor(row)]
       \/ ui' = [ui EXCEPT !.listed = IF server.permitted THEN "error" ELSE "denied"]
    /\ UNCHANGED server

\* Another device of the owner, or an admin, records some of it.
RecordedElsewhere ==
    \E amount \in 1 .. Remaining :
        /\ server.others < 1
        /\ server' = [server EXCEPT !.paid = @ + amount, !.others = @ + 1]
        /\ UNCHANGED <<ui, calls>>

-----------------------------------------------------------------------------
(* The form. *)

OpenForm ==
    /\ Panel = "rows" /\ ui.form.at = "none" /\ calls.submits < MaxSubmits
    /\ ui' = [ui EXCEPT !.form = [NoForm EXCEPT !.at = "form", !.max = ui.row, !.amount = ui.row,
                                                !.id = calls.submits]]
    /\ UNCHANGED <<server, calls>>

Fill ==
    /\ ui.form.at = "form"
    /\ \E amount \in 0 .. Bad, refOk \in BOOLEAN :
        ui' = [ui EXCEPT !.form.amount = amount, !.form.refOk = refOk, !.form.error = FALSE]
    /\ UNCHANGED <<server, calls>>

\* A sheet that does not wait for the answer.
AlwaysCloses == TRUE

\* Escape, outside click and Cancel wait for the answer on the web.
MayClose == ui.app = "web" => ~Busy

Close ==
    /\ ui.form.at = "form" /\ MayClose
    /\ ui' = [ui EXCEPT !.form = NoForm]
    /\ calls' = [calls EXCEPT !.fetch = @ \/ ui.app = "web"]
    /\ UNCHANGED server

Submit ==
    /\ "submit" \in IF ui.app = "web" THEN WebForm ELSE MobileForm
    /\ ~Busy /\ ui.form.refOk /\ AmountError(ui.form.amount, ui.form.max) = "none"
    /\ calls.submits < MaxSubmits
    /\ ui' = [ui EXCEPT !.form.error = FALSE]
    /\ calls' = [calls EXCEPT !.submits = @ + 1,
            !.sent = @ \cup {[id |-> ui.form.id, amount |-> ui.form.amount, at |-> "sent", left |-> 0]}]
    /\ UNCHANGED server

\* mark_refund_paid: the guarded UPDATE adds the amount, or nothing.
MarkRefundPaid(c) ==
    LET fits == server.permitted /\ Remaining > 0 /\ c.amount <= Remaining
        answer == CASE ~server.permitted -> "denied" [] Remaining = 0 -> "marked"
                    [] fits -> "ok" [] OTHER -> "exceeds"
        after == IF fits THEN Remaining - c.amount ELSE Remaining IN
    /\ c.at = "sent"
    /\ server' = IF fits THEN [server EXCEPT !.paid = @ + c.amount, !.blind = @ + 1] ELSE server
    /\ calls' = [calls EXCEPT !.sent = (@ \ {c}) \cup {[c EXCEPT !.at = answer, !.left = after]}]
    /\ UNCHANGED ui

\* The request never arrives, or the answer to what it recorded does not.
LoseAnswer(c) ==
    /\ c.at \in {"sent", "ok"}
    /\ calls' = [calls EXCEPT !.sent = (@ \ {c}) \cup {[c EXCEPT !.at = "lost"]}]
    /\ server' = IF c.at = "ok" THEN [server EXCEPT !.lost = @ + 1] ELSE server
    /\ UNCHANGED ui

\* submit, after the await.  A sheet that is gone shows nothing of it; after a lost answer the form stays as
\* it was filled, and can be sent again.
WebAnswered(c) ==
    CASE c.at = "ok" -> [ui EXCEPT !.form.at = "saved", !.form.left = ui.form.max - c.amount]
      [] c.at = "exceeds" -> [ui EXCEPT !.form.error = TRUE, !.form.max = c.left]
      [] OTHER -> [ui EXCEPT !.form.error = TRUE]

\* The sheet's summary comes from the row the server sent back.
MobileAnswered(c) ==
    IF c.at = "ok" THEN [ui EXCEPT !.form.at = "saved", !.form.left = c.left]
    ELSE [ui EXCEPT !.form.error = TRUE]

Answered(c) ==
    /\ c.at # "sent"
    /\ calls' = [calls EXCEPT !.sent = @ \ {c}]
    /\ IF c.id = ui.form.id /\ ui.form.at = "form"
       THEN /\ ui' = IF ui.app = "web" THEN WebAnswered(c) ELSE MobileAnswered(c)
            /\ server' = IF c.at = "ok" THEN [server EXCEPT !.blind = @ - 1] ELSE server
       ELSE UNCHANGED <<ui, server>>

\* "Theek hai": the list is asked for again.
Done ==
    /\ ui.form.at = "saved"
    /\ ui' = [ui EXCEPT !.form = NoForm]
    /\ calls' = [calls EXCEPT !.fetch = TRUE]
    /\ UNCHANGED server

Next ==
    \/ SettlePermission \/ Withdraw \/ Fetch \/ ShowRefunds \/ RecordedElsewhere
    \/ OpenForm \/ Fill \/ Close \/ Submit \/ Done
    \/ \E c \in calls.sent : MarkRefundPaid(c) \/ LoseAnswer(c) \/ Answered(c)

Spec == Init /\ [][Next]_vars

-----------------------------------------------------------------------------
TypeOK ==
    /\ server.paid \in 0 .. Due /\ ui.row \in Unlisted .. Due
    /\ ui.form.amount \in 0 .. Bad /\ ui.form.max \in 0 .. Due
    /\ \A c \in calls.sent : c.amount \in 1 .. Due

\* "One submit only, then a summary": of the refunds recorded from the web's dialogs at most one is one the
\* owner was not told of yet, and one more for each answer that was lost: only a lost answer lets the same form
\* record twice (the submitting ref of MarkRefundedDialog, and a dialog that waits before it closes).
NeverRecordedBlind == server.blind <= server.lost + 1

\* The summary never says that less is left than the server still owes.
SavedIsRecorded == ui.form.at = "saved" => Remaining <= ui.form.left

\* A row is not offered as settled money: what a dialog may still take is what was owed when it
\* opened, or what the server answered since; never less than what is owed now.
NothingForgotten == ui.form.at = "form" => Remaining <= ui.form.max

Faithful == (ui.app = "web" => NeverRecordedBlind) /\ SavedIsRecorded /\ NothingForgotten

=============================================================================
