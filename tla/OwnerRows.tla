----------------------------- MODULE OwnerRows -----------------------------
(***************************************************************************)
(* The rows of the owner's booking lists: what the server makes of a       *)
(* booking, what it accepts about it, and what the two apps make of a row. *)
(*                                                                         *)
(* A booking is a state and whether its slot has ended.  "lapsed" is a     *)
(* hold past its deadline that the expiry job has not seen yet; "yes" and  *)
(* "no" are completed with Haan or Nahi, "came" completed by a check-in,   *)
(* "done" completed by taking a no-show back; "refunding" and "refunded"   *)
(* are cancelled with money to give back, or given back.                   *)
(***************************************************************************)
EXTENDS Naturals, FiniteSets

Confirmed == {"booked", "yes", "no", "came", "done", "no_show"}
Held == {"held", "lapsed"}
Cancelled == {"cancelled", "refunding", "refunded", "expired"}
States == Confirmed \cup Held \cup {"asked"} \cup Cancelled

Permissions == {"record_payments", "check_in"}

-----------------------------------------------------------------------------
(* The server. *)

\* _branch, main: the row every booking has.
MainKey(st) ==
    CASE st \in Held -> "held"
      [] st = "asked" -> "awaiting_approval"
      [] st = "no_show" -> "no_show"
      [] st = "expired" -> "expired"
      [] st \in Cancelled -> "cancelled"
      [] OTHER -> "booked"

\* _row_out: completion is shown of confirmed bookings only.  st is what the row was made from, guess
\* that a page has changed it ahead of the server.
MainRow(b, st, ended) ==
    [booking |-> b, kind |-> IF st \in Cancelled THEN "cancelled" ELSE "booked", key |-> MainKey(st),
     mark |-> IF st \in {"yes", "no"} THEN st ELSE "none", ended |-> ended, came |-> st = "came",
     pending |-> st = "booked" /\ ended, st |-> st, guess |-> FALSE]

\* _branch, refund: the extra row of a booking with money to give back.
RefundRow(b, st, ended) ==
    [MainRow(b, st, ended) EXCEPT !.kind = "refund", !.key = IF st = "refunding" THEN "refund_owed" ELSE "refunded",
                                  !.mark = "none", !.came = FALSE, !.pending = FALSE]

RowsOf(b, st, ended) ==
    {MainRow(b, st, ended)} \cup IF st \in {"refunding", "refunded"} THEN {RefundRow(b, st, ended)} ELSE {}

\* The day board lists only what is settled one way or the other.
OverviewKeys == {"booked", "no_show", "cancelled", "refund_owed", "refunded"}

\* _status_predicate: the rows a status filter of the history lets through.
StatusFilters ==
    {"booked", "pending", "cancelled", "refund", "completed", "short_paid", "status_pending", "held",
     "awaiting_approval", "no_show", "refund_owed", "refunded", "expired"}
Passes(row, filter) ==
    CASE filter = "booked" -> row.kind # "refund" /\ row.st \in Confirmed
      [] filter = "pending" -> row.key \in {"held", "awaiting_approval"}
      [] filter = "refund" -> row.kind = "refund"
      [] filter = "completed" -> row.kind # "refund" /\ row.st = "yes"
      [] filter = "short_paid" -> row.kind # "refund" /\ row.st = "no"
      [] filter = "status_pending" -> row.pending
      [] OTHER -> row.key = filter

\* mark_completion, owner_mark_no_show and the reversal of a no-show: what is asked, by whom, of which booking.
AcceptsMark(st, ended, may) == st \in Confirmed \ {"no_show"} /\ ended /\ "record_payments" \in may
AcceptsNoShow(st, ended, may) == st = "booked" /\ ended /\ may # {}
AcceptsReverse(st, ended, may) == st = "no_show" /\ "record_payments" \in may
Accepts(want, st, ended, may) ==
    CASE want \in {"yes", "no"} -> AcceptsMark(st, ended, may)
      [] want = "no_show" -> AcceptsNoShow(st, ended, may)
      [] want = "reverse" -> AcceptsReverse(st, ended, may)

\* Nahi with everything received after all is Haan; a reversal leaves no Haan or Nahi behind.
Becomes(want) ==
    CASE want = "yes" -> {"yes"}
      [] want = "no" -> {"yes", "no"}
      [] want = "no_show" -> {"no_show"}
      [] want = "reverse" -> {"done"}

-----------------------------------------------------------------------------
(* The apps: what a row is shown as, and what it offers. *)

\* rowTone: the colour of a row on the day board (web, phone) and in the history.
WebTone(row) ==
    CASE row.kind = "refund" -> "amber"
      [] row.kind = "cancelled" -> "grey"
      [] OTHER -> row.mark
MobileTone(row) == WebTone(row)
HistoryTone(row) ==
    CASE row.mark # "none" -> row.mark
      [] row.kind = "refund" -> "amber"
      [] row.kind = "cancelled" -> "grey"
      [] OTHER -> "none"

\* historyStatus and rowStatusLabel: the word on a card of the phone's history.
HistoryStatus(row) ==
    CASE row.kind = "refund" -> IF row.key = "refunded" THEN "refund sent" ELSE "refund owed"
      [] row.kind = "cancelled" -> IF row.key = "expired" THEN "cancelled" ELSE row.key
      [] row.key = "no_show" -> "no_show"
      [] row.mark # "none" -> row.mark
      [] row.pending -> "status pending"
      [] OTHER -> row.key

\* isStatusPending, with the server's answer at hand.
IsStatusPending(row) == row.pending

\* isConfirmedBooked.
IsConfirmedBooked(row) == row.kind = "booked" /\ row.key \in {"booked", "no_show"}

\* CompletionSelect and the no-show button beside it: the day board of the web.
WebBoardOffers(row, may, denied) ==
    IF row.kind # "booked" THEN {}
    ELSE (IF "record_payments" \in may /\ row.ended /\ ~denied THEN {"yes", "no"} ELSE {})
         \cup IF IsStatusPending(row) /\ may # {} THEN {"no_show"} ELSE {}

\* CompletionCell, and what the flow makes of a choice: a no-show is taken back, Haan twice is nothing.
HistoryOffers(row, may) ==
    IF ~IsConfirmedBooked(row) THEN {}
    ELSE (IF "record_payments" \in may /\ row.ended
          THEN IF row.key = "no_show" THEN {"reverse"} ELSE {"no"} \cup ({"yes"} \ {row.mark}) ELSE {})
         \cup IF IsStatusPending(row) /\ may # {} THEN {"no_show"} ELSE {}

\* BookingCard: the same on the phone.
CanOfferNoShow(row) ==
    row.kind = "booked" /\ row.key = "booked" /\ row.ended /\ ~row.came /\ row.mark = "none"
CardOffers(row, may) ==
    IF ~IsConfirmedBooked(row) THEN {}
    ELSE (IF "record_payments" \in may /\ row.ended
          THEN IF row.key = "no_show" THEN {"reverse"} ELSE {"no"} \cup ({"yes"} \ {row.mark}) ELSE {})
         \cup IF CanOfferNoShow(row) /\ may # {} THEN {"no_show"} ELSE {}

=============================================================================
