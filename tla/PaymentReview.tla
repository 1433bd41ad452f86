---------------------------- MODULE PaymentReview ----------------------------
(***************************************************************************)
(* The payment proofs of one booking and the money they turn into:         *)
(* PaymentService (submit, late proof, auto-approve, approve, reject,      *)
(* acknowledge) with the parts of BookingService it calls (confirm_booking, *)
(* cancel_booking, the refund rows), the player's refund request and the   *)
(* expiry job.                                                             *)
(*                                                                         *)
(* A request loads the booking into its session in one step (seen, due)    *)
(* and commits in a later one.  What its commit tests with a conditional   *)
(* UPDATE is read from the variables; what it tests in Python is read from *)
(* what it loaded.  A slot of Requests is one in-flight request and is     *)
(* free again when the request is answered.                                *)
(***************************************************************************)
EXTENDS Integers, FiniteSets

CONSTANTS
    Payments,        \* ids of the rows of payments, in the order of their insertion
    Requests,        \* how many requests may be in flight at once
    Price, Advance,  \* the booking's price and advance_amount
    Amounts,         \* what a screenshot may show or an owner may type
    BalanceProofs,   \* the balance_proof flag
    AutoApprovals,   \* whether the venue qualifies for auto-approve
    PolicyAllows,    \* the venue's policy lets a player cancel a paid booking
    Crashes          \* whether the server may stop between two commits

ASSUME MoneyAssumption ==
    /\ Payments \subseteq Nat \ {0}
    /\ Price \in Nat \ {0} /\ Advance \in 1 .. Price
    /\ Amounts \subseteq Nat \ {0}
    /\ BalanceProofs \in BOOLEAN /\ AutoApprovals \in BOOLEAN
    /\ PolicyAllows \in BOOLEAN /\ Crashes \in BOOLEAN

VARIABLES
    status,      \* bookings.status
    ended,       \* bookings.cancelled_by and cancellation_reason
    lapsed,      \* held_until has passed
    verdict,     \* payments.review_verdict; "none" before the insert
    purpose,     \* what the proof pays for
    shown,       \* payments.ocr_amount
    confirmed,   \* the amount an approval accepted as paid
    credited,    \* the payment_entries row the approval wrote
    paid,        \* bookings.amount_paid
    owed,        \* payment_disputes: refund_amount summed per reason
    trail,       \* payments with a zero-amount row for an admin to chase
    req          \* the requests in flight

booking == <<status, ended, lapsed>>
proofs == <<verdict, purpose, shown>>
money == <<confirmed, credited, paid>>
disputes == <<owed, trail>>
vars == <<booking, proofs, money, disputes, req>>

AwaitingStates == {"held", "payment_submitted"}
Live == AwaitingStates \cup {"booked"}
Reasons == {"overpayment_excess", "cancelled_paid_booking",
            "cancelled_payment_received", "player_refund_request"}

\* What a request is about to do; the last two are the second commit of an
\* advance_only approval and of a rejection.
Operations == {"submit", "expire_hold", "late_proof", "approve", "reject", "acknowledge",
               "cancel", "refund_request", "queue_excess", "leave_trail"}

NoPayment == 0
Idle == [op |-> "idle", payment |-> NoPayment, seen |-> "held", due |-> 0]

\* A request that loaded the booking now and goes on to op.
Loaded(op, p, amount) == [op |-> op, payment |-> p, seen |-> status, due |-> amount]

Lesser(a, b) == IF a <= b THEN a ELSE b
BalanceDue == Price - paid

\* one_pending_payment_per_booking, and what submit's flush finds.
ProofPending == \E p \in Payments : verdict[p] = "pending"

\* approval_state(booking, payment) = "awaiting", for a booking in state s.
AwaitingIn(s, p) == s \in AwaitingStates \/ (s = "booked" /\ purpose[p] = "balance")

Init ==
    /\ status = "held" /\ ended = "open" /\ lapsed = FALSE
    /\ verdict = [p \in Payments |-> "none"]
    /\ purpose = [p \in Payments |-> "advance"]
    /\ shown = [p \in Payments |-> 0]
    /\ confirmed = [p \in Payments |-> 0]
    /\ credited = [p \in Payments |-> 0]
    /\ paid = 0
    /\ owed = [x \in Reasons |-> 0]
    /\ trail = {}
    /\ req = [r \in Requests |-> Idle]

Answer(r) == req' = [req EXCEPT ![r] = Idle]
Continue(r, next) == req' = [req EXCEPT ![r] = next]
Owe(reason, amount) == owed' = [owed EXCEPT ![reason] = @ + amount]

\* Mutation: any non-final status may be confirmed.
ConfirmableEvenBooked(s) == s \in Live

\* The from_statuses of confirm_booking.
Confirmable(s) == s \in AwaitingStates

\* Mutation: the credit is not capped at the price.
UncappedCredit(amount) == amount

\* What confirm_booking enters in the ledger; the rest of amount is owed back.
CappedCredit(amount) == Lesser(amount, Price)

\* Mutation: only what exceeds the price is queued.
HeldBackOverPrice(amount, advanceOnly) ==
    IF advanceOnly /\ amount > Price THEN amount - Price ELSE 0

\* What advance_only queues as a refund instead of crediting it.
HeldBack(amount, advanceOnly) ==
    IF advanceOnly /\ amount > Advance THEN amount - Advance ELSE 0

\* What approve_payment passes on to confirm_booking.
Accepted(amount, advanceOnly) == IF advanceOnly THEN Lesser(amount, Advance) ELSE amount

-----------------------------------------------------------------------------
(* Time and the expiry job                                                 *)

HoldRunsOut ==
    /\ status = "held" /\ ~lapsed
    /\ lapsed' = TRUE
    /\ UNCHANGED <<status, ended, proofs, money, disputes, req>>

\* The job cancels a run-out hold, or a booking nobody reviewed in time; the proof of
\* the latter is left to an admin.  (OCR mismatches and duplicates are not flagged.)
ExpireStaleBooking(flagged) ==
    /\ \/ status = "held" /\ lapsed /\ ended' = "hold_expired" /\ UNCHANGED trail
       \/ /\ status = "payment_submitted"
          /\ ended' = "payment_review_expired"
          /\ trail' = IF flagged THEN trail \cup {p \in Payments : verdict[p] = "pending"}
                                 ELSE trail
    /\ status' = "cancelled"
    /\ UNCHANGED <<lapsed, proofs, money, owed, req>>

-----------------------------------------------------------------------------
(* Submitting a proof                                                      *)

\* submit_payment up to the insert: the upload and the OCR call come after this read.
BeginSubmit(r) ==
    /\ req[r] = Idle
    /\ \/ status = "held" /\ ~lapsed /\ Continue(r, Loaded("submit", NoPayment, 0))
       \/ status = "held" /\ lapsed /\ Continue(r, Loaded("expire_hold", NoPayment, 0))
       \/ /\ status = "cancelled" /\ ended = "hold_expired"
          /\ Continue(r, Loaded("late_proof", NoPayment, 0))
       \/ /\ status = "booked" /\ BalanceProofs /\ BalanceDue > 0
          /\ Continue(r, Loaded("submit", NoPayment, 0))
    /\ UNCHANGED <<booking, proofs, money, disputes>>

\* expire_hold_now: when the hold is gone already, the stale object still says held and
\* the request goes on as an ordinary submit.
ExpireHoldNow(r) ==
    /\ req[r].op = "expire_hold"
    /\ IF status = "held"
       THEN /\ status' = "cancelled" /\ ended' = "hold_expired"
            /\ Continue(r, [req[r] EXCEPT !.op = "late_proof"])
       ELSE /\ Continue(r, [req[r] EXCEPT !.op = "submit"])
            /\ UNCHANGED <<status, ended>>
    /\ UNCHANGED <<lapsed, proofs, money, disputes>>

InsertProof(p, amount, for, v) ==
    /\ \A q \in Payments : (verdict[q] = "none") <=> (q >= p)
    /\ verdict' = [verdict EXCEPT ![p] = v]
    /\ purpose' = [purpose EXCEPT ![p] = for]
    /\ shown' = [shown EXCEPT ![p] = amount]

\* _record_late_proof: the proof waits on the cancelled booking.
RecordLateProof(r, p, amount) ==
    /\ req[r].op = "late_proof" /\ ~ProofPending
    /\ InsertProof(p, amount, "advance", "pending")
    /\ Answer(r)
    /\ UNCHANGED <<booking, money, disputes>>

\* Another proof of the booking is pending: 409, or the late proof is that one.
SubmitRefused(r) ==
    /\ req[r].op \in {"submit", "late_proof"} /\ ProofPending
    /\ Answer(r)
    /\ UNCHANGED <<booking, proofs, money, disputes>>

\* The flush and mark_payment_submitted, which does nothing when the hold is gone.
SubmitForReview(r, p, amount) ==
    /\ req[r].op = "submit" /\ ~ProofPending
    /\ InsertProof(p, amount, IF req[r].seen = "booked" THEN "balance" ELSE "advance", "pending")
    /\ status' = IF req[r].seen # "booked" /\ status = "held" THEN "payment_submitted" ELSE status
    /\ Answer(r)
    /\ UNCHANGED <<ended, lapsed, money, disputes>>

\* _maybe_auto_approve: the OCR amount matches the advance; confirmed in the same
\* transaction, and undone (SubmitForReview) when confirm_booking is refused.
AutoApprove(r, p) ==
    /\ AutoApprovals
    /\ req[r].op = "submit" /\ req[r].seen = "held" /\ ~ProofPending
    /\ Confirmable(status)
    /\ InsertProof(p, Advance, "advance", "approved")
    /\ status' = "booked"
    /\ confirmed' = [confirmed EXCEPT ![p] = Advance]
    /\ credited' = [credited EXCEPT ![p] = CappedCredit(Advance)]
    /\ paid' = paid + CappedCredit(Advance)
    /\ Answer(r)
    /\ UNCHANGED <<ended, lapsed, disputes>>

-----------------------------------------------------------------------------
(* Reviewing a proof                                                       *)

\* Mutation: the verdict is written whatever it is by now.
BlindClaim(p) == TRUE

\* _claim_review: UPDATE ... WHERE review_verdict IS NULL.
Claimable(p) == verdict[p] = "pending"

\* The endpoints load the payment and the booking; require_awaiting, or its opposite for
\* acknowledge, is tested on what they loaded.
BeginReview(r, p, op) ==
    /\ req[r] = Idle
    /\ verdict[p] = "pending"
    /\ (op = "acknowledge") # AwaitingIn(status, p)
    /\ Continue(r, Loaded(op, p, BalanceDue))
    /\ UNCHANGED <<booking, proofs, money, disputes>>

Review(p, v) == Claimable(p) /\ verdict' = [verdict EXCEPT ![p] = v]

Credit(p, accepted, entered) ==
    /\ confirmed' = [confirmed EXCEPT ![p] = accepted]
    /\ credited' = [credited EXCEPT ![p] = entered]
    /\ paid' = paid + entered

\* approve_payment on a balance proof: never past the balance this request loaded, and
\* record_entry checks the balance again under the row lock.
ApproveBalance(r, amount) ==
    LET p == req[r].payment
        entered == Lesser(amount, req[r].due) IN
    /\ req[r].op = "approve" /\ purpose[p] = "balance" /\ req[r].seen = "booked"
    /\ entered <= BalanceDue
    /\ Review(p, "approved")
    /\ Credit(p, amount, entered)
    /\ Answer(r)
    /\ UNCHANGED <<booking, purpose, shown, disputes>>

\* approve_payment on an advance: the verdict and confirm_booking are one transaction;
\* with advance_only the excess is queued by a second one.
ApproveAdvance(r, amount, advanceOnly) ==
    LET p == req[r].payment
        accepted == Accepted(amount, advanceOnly)
        excess == HeldBack(amount, advanceOnly) IN
    /\ req[r].op = "approve" /\ purpose[p] = "advance"
    /\ Review(p, "approved")
    /\ Confirmable(status)
    /\ status' = "booked"
    /\ Credit(p, amount, CappedCredit(accepted))
    /\ Owe("overpayment_excess", accepted - CappedCredit(accepted))
    /\ IF excess > 0
       THEN Continue(r, [req[r] EXCEPT !.op = "queue_excess", !.due = excess])
       ELSE Answer(r)
    /\ UNCHANGED <<ended, lapsed, purpose, shown, trail>>

QueueExcess(r) ==
    /\ req[r].op = "queue_excess"
    /\ Owe("overpayment_excess", req[r].due)
    /\ Answer(r)
    /\ UNCHANGED <<booking, proofs, money, trail>>

\* Mutation: a proof under review does not hold the slot.
CancelsOnlyHolds(s) == s = "held"

\* Mutation: a rejection always cancels the booking.
AlwaysCancels(s) == TRUE

\* reject_payment cancels only a booking it loaded as awaiting.
RejectionCancels(s) == s \in AwaitingStates

\* reject_payment: with the cancel, the verdict is committed and the zero-amount row left
\* to a second commit; without it everything is in one.
Reject(r) ==
    LET p == req[r].payment IN
    /\ req[r].op = "reject"
    /\ Review(p, "rejected")
    /\ IF RejectionCancels(req[r].seen) /\ status \in Live
       THEN /\ status' = "cancelled" /\ ended' = "by_person"
            /\ Continue(r, [req[r] EXCEPT !.op = "leave_trail"])
            /\ UNCHANGED trail
       ELSE /\ trail' = trail \cup {p}
            /\ Answer(r)
            /\ UNCHANGED <<status, ended>>
    /\ UNCHANGED <<lapsed, purpose, shown, money, owed>>

LeaveTrail(r) ==
    /\ req[r].op = "leave_trail"
    /\ trail' = trail \cup {req[r].payment}
    /\ Answer(r)
    /\ UNCHANGED <<booking, proofs, money, owed>>

\* acknowledge_payment: the status is not looked at again.
Acknowledge(r, received) ==
    LET p == req[r].payment IN
    /\ req[r].op = "acknowledge"
    /\ Review(p, "acknowledged")
    /\ Owe("cancelled_payment_received", IF received THEN shown[p] ELSE 0)
    /\ Answer(r)
    /\ UNCHANGED <<booking, purpose, shown, money, trail>>

\* The claim was lost, or confirm_booking or record_entry refused and all is rolled back.
ReviewRefused(r) ==
    LET p == req[r].payment IN
    /\ req[r].op \in {"approve", "reject", "acknowledge"}
    /\ \/ ~Claimable(p)
       \/ req[r].op = "approve" /\ purpose[p] = "advance" /\ ~Confirmable(status)
    /\ Answer(r)
    /\ UNCHANGED <<booking, proofs, money, disputes>>

-----------------------------------------------------------------------------
(* Cancelling and refunds                                                  *)

\* cancel_booking up to its UPDATE: the policy gate looks at the loaded status.
BeginCancel(r, by) ==
    /\ req[r] = Idle
    /\ status \in Live
    /\ by = "player" /\ status = "booked" => PolicyAllows
    /\ Continue(r, Loaded("cancel", NoPayment, 0))
    /\ UNCHANGED <<booking, proofs, money, disputes>>

\* Mutation: the UPDATE has no status condition.
AlwaysCancellable(s) == TRUE

\* The from_statuses of cancel_booking.
Cancellable(s) == s \in Live

\* The UPDATE and the refund row; old_status is the status the request had loaded.
Cancel(r) ==
    /\ req[r].op = "cancel" /\ Cancellable(status)
    /\ status' = "cancelled" /\ ended' = "by_person"
    /\ Owe("cancelled_paid_booking", IF req[r].seen = "booked" THEN paid ELSE 0)
    /\ Answer(r)
    /\ UNCHANGED <<lapsed, proofs, money, trail>>

\* The UPDATE matched no row: the booking is returned as it is.
CancelFindsNothing(r) ==
    /\ req[r].op = "cancel" /\ ~Cancellable(status)
    /\ Answer(r)
    /\ UNCHANGED <<booking, proofs, money, disputes>>

\* What refund_request_state offers: the ledger sum, else what the latest proof showed.
RefundAmounts ==
    IF paid > 0 THEN {paid}
    ELSE {shown[p] : p \in {q \in Payments :
             \A x \in Payments : (verdict[x] = "none") <=> (x > q)}}

BeginRefundRequest(r, amount) ==
    /\ req[r] = Idle
    /\ status = "cancelled" /\ PolicyAllows
    /\ \A x \in Reasons : owed[x] = 0
    /\ amount \in RefundAmounts
    /\ Continue(r, Loaded("refund_request", NoPayment, amount))
    /\ UNCHANGED <<booking, proofs, money, disputes>>

RequestRefund(r) ==
    /\ req[r].op = "refund_request"
    /\ Owe("player_refund_request", req[r].due)
    /\ Answer(r)
    /\ UNCHANGED <<booking, proofs, money, trail>>

\* The server stops after the first of two commits.
Crash(r) ==
    /\ Crashes
    /\ req[r].op \in {"queue_excess", "leave_trail"}
    /\ Answer(r)
    /\ UNCHANGED <<booking, proofs, money, disputes>>

-----------------------------------------------------------------------------

Step(r) ==
    \/ BeginSubmit(r) \/ ExpireHoldNow(r) \/ SubmitRefused(r)
    \/ \E p \in Payments, a \in Amounts : RecordLateProof(r, p, a) \/ SubmitForReview(r, p, a)
    \/ \E p \in Payments : AutoApprove(r, p)
    \/ \E p \in Payments, op \in {"approve", "reject", "acknowledge"} : BeginReview(r, p, op)
    \/ \E a \in Amounts : ApproveBalance(r, a)
    \/ \E a \in Amounts, only \in BOOLEAN : ApproveAdvance(r, a, only)
    \/ QueueExcess(r) \/ Reject(r) \/ LeaveTrail(r) \/ ReviewRefused(r)
    \/ \E received \in BOOLEAN : Acknowledge(r, received)
    \/ \E by \in {"player", "owner"} : BeginCancel(r, by)
    \/ Cancel(r) \/ CancelFindsNothing(r)
    \/ \E a \in RefundAmounts : BeginRefundRequest(r, a)
    \/ RequestRefund(r) \/ Crash(r)

Next ==
    \/ HoldRunsOut
    \/ \E flagged \in BOOLEAN : ExpireStaleBooking(flagged)
    \/ \E r \in Requests : Step(r)

Spec == Init /\ [][Next]_vars

-----------------------------------------------------------------------------
(* Correctness                                                             *)

RequestType == [op : Operations \cup {"idle"}, payment : Payments \cup {NoPayment},
                seen : Live \cup {"cancelled"}, due : Nat]

\* Every column and every request in flight has a value the code can give it; the balance
\* is never negative, so balance_due needs no clamp.
TypeOK ==
    /\ status \in Live \cup {"cancelled"}
    /\ ended \in {"open", "by_person", "hold_expired", "payment_review_expired"}
    /\ lapsed \in BOOLEAN
    /\ verdict \in [Payments -> {"none", "pending", "approved", "rejected", "acknowledged"}]
    /\ purpose \in [Payments -> {"advance", "balance"}]
    /\ shown \in [Payments -> Nat]
    /\ confirmed \in [Payments -> Nat]
    /\ credited \in [Payments -> Nat]
    /\ paid \in 0 .. Price
    /\ owed \in [Reasons -> Nat]
    /\ trail \subseteq Payments
    /\ req \in [Requests -> RequestType]

\* A rejected advance releases the slot: the booking it was for is cancelled, whatever
\* the other requests did between the rejection's read and its commit (reject_payment).
RejectionReleasesSlot ==
    \A p \in Payments : verdict[p] = "rejected" /\ purpose[p] = "advance" => status = "cancelled"

\* One advance is ever credited, and a booking is booked only on one: two submits, or a
\* submit and an approval, never both confirm the booking (confirm_booking, AUDIT #3).
BookedOnOneAdvance ==
    LET advances == {p \in Payments : verdict[p] = "approved" /\ purpose[p] = "advance"} IN
    /\ \A p, q \in advances : p = q
    /\ status = "booked" => advances # {}

\* Two cancels of a paid booking owe its money back once, never more than what was paid
\* (cancel_booking, _flag_refund_for_voluntary_cancel).
CancelRefundedOnce == owed["cancelled_paid_booking"] <= paid

\* What the owner accepted as paid on an advance is in the ledger or on the refunds list,
\* once the approval has made both its commits (confirm_booking, accept_mode).
AcceptedMoneyIsAccountedFor ==
    \A p \in Payments :
        /\ verdict[p] = "approved" /\ purpose[p] = "advance"
        /\ \A r \in Requests : req[r].op # "queue_excess"
        => confirmed[p] = credited[p] + owed["overpayment_excess"]

\* The first review of a proof is final: of an approval, a rejection and an
\* acknowledgement in flight together one takes effect (_claim_review).
FirstReviewWins ==
    [][\A p \in Payments : verdict[p] \notin {"none", "pending"} => verdict'[p] = verdict[p]]_vars

\* No review of a proof cancels a booking that is booked; rejecting a balance screenshot
\* used to cancel a paid booking (reject_payment).
ReviewSparesPaidSlot ==
    [][status = "booked" /\ status' = "cancelled" => UNCHANGED verdict]_vars

\* Claimed by the comments, not kept by the code.

\* A cancelled booking with money on it has a refund row: "an OWNER cancelling a paid
\* (booked) booking owes the player a refund exactly like a player cancel does".
PaidCancelOwesRefund ==
    status = "cancelled" /\ paid > 0 => \E x \in Reasons : owed[x] > 0

=============================================================================
