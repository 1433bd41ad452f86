---------------------------- MODULE PaymentLedger ----------------------------
(***************************************************************************)
(* The payment_entries ledger of one booking and bookings.amount_paid, the *)
(* column derived from it: PaymentLedgerService, the ledger half of        *)
(* confirm_booking, "Booking completed", the correction of an entry, the   *)
(* bank check that takes a transfer back, and the pay-out of a refund.     *)
(*                                                                         *)
(* Every writer locks the booking row, so its insert and its re-summing    *)
(* are one step.  The request has loaded the booking into its session      *)
(* earlier, though, and the locking read does not refresh a loaded object: *)
(* the column is compared with the value loaded then, and assigning that   *)
(* same value again writes nothing.                                        *)
(***************************************************************************)
EXTENDS Integers, Sequences

CONSTANTS
    Requests,     \* how many requests may be in flight at once
    Price,        \* the booking's price
    Amounts,      \* what anybody may record, confirm or pay out
    MaxEntries    \* bound: the ledger has at most this many rows

ASSUME LedgerAssumption ==
    /\ Price \in Nat \ {0} /\ MaxEntries \in Nat
    /\ Amounts \subseteq Nat \ {0}

VARIABLES
    entries,      \* the rows of payment_entries, in order
    amountPaid,   \* bookings.amount_paid
    status,       \* the booking awaits its advance, is booked, or is cancelled
    owed,         \* payment_disputes: refund_amount of the booking's refund row, 0 without one
    refunded,     \* payment_disputes.refunded_amount
    req           \* the requests in flight

vars == <<entries, amountPaid, status, owed, refunded, req>>

Kinds == {"advance", "cash", "transfer", "completion", "correction", "taken_back", "refund"}
Operations == {"cash", "transfer", "complete", "complete_on_top", "correction", "taken_back",
               "pay_refund"}

Idle == [op |-> "idle", arg |-> 0, seenPaid |-> 0, seenRefunded |-> 0]

Lesser(a, b) == IF a <= b THEN a ELSE b
Greater(a, b) == IF a <= b THEN b ELSE a

\* The sums of the first 0, 1, ... rows; the last of them is the sum of the ledger.
Sums(rows) ==
    LET sum[n \in 0 .. Len(rows)] == IF n = 0 THEN 0 ELSE sum[n - 1] + rows[n].amount
    IN  sum
SumOf(rows) == Sums(rows)[Len(rows)]
Total == SumOf(entries)
Latest == entries[Len(entries)]

Init ==
    /\ entries = <<>> /\ amountPaid = 0 /\ status = "awaiting"
    /\ owed = 0 /\ refunded = 0
    /\ req = [r \in Requests |-> Idle]

\* Mutation: the column is incremented in place instead of re-summed.
IncrementTotals(r) == amountPaid' = req[r].seenPaid + Latest'.amount

\* recompute_payment_totals in the session of r: no UPDATE when the sum is what it loaded.
RecomputeTotals(r) ==
    amountPaid' = IF Total' = req[r].seenPaid THEN amountPaid ELSE Total'

Enter(kind, amount, reversed) ==
    /\ Len(entries) < MaxEntries
    /\ entries' = Append(entries, [kind |-> kind, amount |-> amount, reverses |-> reversed])

Answer(r) == req' = [req EXCEPT ![r] = Idle]

-----------------------------------------------------------------------------
(* Requests load the booking ...                                           *)

Reversed(i) == \E j \in DOMAIN entries : entries[j].reverses = i

Begin(r, op, arg) ==
    /\ req[r] = Idle
    /\ req' = [req EXCEPT ![r] =
                  [op |-> op, arg |-> arg, seenPaid |-> amountPaid, seenRefunded |-> refunded]]
    /\ UNCHANGED <<entries, amountPaid, status, owed, refunded>>

\* record_payment_entry for cash, an approved balance proof for a transfer: neither asks what
\* state the booking is in.
BeginRecord(r, method, amount) == Begin(r, method, amount)

\* mark_completion: "yes" or received_pkr name the total that was received ...
BeginComplete(r, target) ==
    status = "booked" /\ target <= Price /\ Begin(r, "complete", target)

\* ... and received_now an amount on top of what the request has loaded.
BeginCompleteOnTop(r, more) ==
    /\ status = "booked" /\ more <= Greater(Price - amountPaid, 0)
    /\ Begin(r, "complete_on_top", amountPaid + more)

\* reverse_payment_entry takes any entry, a reversed one and a correction too.
BeginCorrection(r, i) == Begin(r, "correction", i)

\* Mutation: any money that came in may be taken back.
AnyIncome(i) == entries[i].amount > 0

IsBalanceEntry(i) == entries[i].kind = "transfer"

\* mark_not_received looks whether the transfer was reversed already.
BeginMarkNotReceived(r, i) ==
    /\ IsBalanceEntry(i) /\ ~Reversed(i)
    /\ Begin(r, "taken_back", i)

\* owner_mark_refund_paid: at most what it sees as still owed.
BeginPayRefund(r, amount) ==
    /\ refunded < owed /\ amount <= owed - refunded
    /\ Begin(r, "pay_refund", amount)

-----------------------------------------------------------------------------
(* ... and write under its row lock                                        *)

\* Mutation: the balance is the one on the booking the request loaded.
LoadedBalance(r) == Price - req[r].seenPaid

\* The balance record_entry checks: re-summed under the lock.
Balance(r) == Price - Total

RecordEntry(r) ==
    /\ req[r].op \in {"cash", "transfer"} /\ req[r].arg <= Balance(r)
    /\ Enter(req[r].op, req[r].arg, 0)
    /\ RecomputeTotals(r)
    /\ Answer(r)
    /\ UNCHANGED <<status, owed, refunded>>

ExceedsBalance(r) ==
    /\ req[r].op \in {"cash", "transfer"} /\ req[r].arg > Balance(r)
    /\ Answer(r)
    /\ UNCHANGED <<entries, amountPaid, status, owed, refunded>>

\* adjust_total_paid: one entry for the difference, none when there is none.
AdjustTotalPaid(r) ==
    /\ req[r].op \in {"complete", "complete_on_top"}
    /\ IF req[r].arg = Total THEN UNCHANGED <<entries, amountPaid>>
       ELSE Enter("completion", req[r].arg - Total, 0) /\ RecomputeTotals(r)
    /\ Answer(r)
    /\ UNCHANGED <<status, owed, refunded>>

\* reverse_entry: the opposite of the row, whatever was reversed since.
ReverseEntry(r) ==
    /\ req[r].op \in {"correction", "taken_back"}
    /\ Enter(req[r].op, -entries[req[r].arg].amount, req[r].arg)
    /\ RecomputeTotals(r)
    /\ Answer(r)
    /\ UNCHANGED <<status, owed, refunded>>

\* confirm_booking: its UPDATE takes the lock and refreshes the booking, so the column is
\* written; the credit is capped at the price, whatever the ledger holds already.
ConfirmBooking(amount) ==
    /\ status = "awaiting"
    /\ Enter("advance", Lesser(amount, Price), 0)
    /\ status' = "booked"
    /\ amountPaid' = Total'
    /\ UNCHANGED <<owed, refunded, req>>

\* A booking is cancelled; a booked one with money on it owes what the column says.
CancelBooking ==
    /\ status # "cancelled"
    /\ status' = "cancelled"
    /\ owed' = IF status = "booked" THEN Greater(amountPaid, 0) ELSE owed
    /\ UNCHANGED <<entries, amountPaid, refunded, req>>

\* Mutation: the refund row is updated by its id alone.
BlindPayOut(r) == refunded < owed

\* mark_refund_paid: UPDATE ... WHERE refund_status = 'owed' AND refunded_amount is the one seen.
PayOutStands(r) == refunded < owed /\ refunded = req[r].seenRefunded

MarkRefundPaid(r) ==
    /\ req[r].op = "pay_refund" /\ PayOutStands(r)
    /\ refunded' = req[r].seenRefunded + req[r].arg
    /\ Enter("refund", -req[r].arg, 0)
    /\ RecomputeTotals(r)
    /\ Answer(r)
    /\ UNCHANGED <<status, owed>>

RefundAlreadyMarked(r) ==
    /\ req[r].op = "pay_refund" /\ ~PayOutStands(r)
    /\ Answer(r)
    /\ UNCHANGED <<entries, amountPaid, status, owed, refunded>>

-----------------------------------------------------------------------------

Step(r) ==
    \/ \E a \in Amounts, method \in {"cash", "transfer"} : BeginRecord(r, method, a)
    \/ \E a \in Amounts \cup {0, Price} : BeginComplete(r, a) \/ BeginCompleteOnTop(r, a)
    \/ \E a \in Amounts : BeginPayRefund(r, a)
    \/ \E i \in DOMAIN entries : BeginCorrection(r, i) \/ BeginMarkNotReceived(r, i)
    \/ RecordEntry(r) \/ ExceedsBalance(r) \/ AdjustTotalPaid(r) \/ ReverseEntry(r)
    \/ MarkRefundPaid(r) \/ RefundAlreadyMarked(r)

Next ==
    \/ \E r \in Requests : Step(r)
    \/ \E a \in Amounts : ConfirmBooking(a)
    \/ CancelBooking

Spec == Init /\ [][Next]_vars

-----------------------------------------------------------------------------
(* Correctness                                                             *)

\* A row is written by one of the known operations; a reversal points at a row before it, and
\* what the bank check takes back is a balance transfer, never an advance or cash.
TypeOK ==
    /\ entries \in Seq([kind : Kinds, amount : Int, reverses : 0 .. MaxEntries])
    /\ \A i \in DOMAIN entries :
          entries[i].reverses # 0 =>
             /\ entries[i].reverses < i
             /\ entries[i].kind = "taken_back" => entries[entries[i].reverses].kind = "transfer"
    /\ amountPaid \in Int /\ status \in {"awaiting", "booked", "cancelled"}
    /\ owed \in Nat /\ refunded \in Nat
    /\ req \in [Requests -> [op : Operations \cup {"idle"}, arg : Int,
                             seenPaid : Int, seenRefunded : Nat]]

Entered(kinds) == Len(entries') > Len(entries) /\ Latest'.kind \in kinds

\* Of two owners recording a payment at once neither takes the total past the price, however
\* old the balance each of them saw (record_entry).
RecordedWithinPrice == [][Entered({"cash", "transfer"}) => Total' <= Price]_vars

\* What the ledger says went back to the player.
PaidOut(rows) ==
    SumOf([i \in DOMAIN rows |->
              [rows[i] EXCEPT !.amount = IF rows[i].kind = "refund" THEN -rows[i].amount ELSE 0]])

\* Two partial pay-outs at once never return more than is owed, and the ledger has the money
\* that left (mark_refund_paid's guard on the amount seen).
RefundedWithinOwed == refunded <= owed /\ PaidOut(entries) = refunded

\* The column is always a sum the ledger had at some time, never a blend of one request's
\* reading with another's entry (recompute_payment_totals re-sums "from scratch").
ColumnWasTheSum ==
    \E n \in 0 .. Len(entries) : amountPaid = Sums(entries)[n]

\* Claimed by the repository, not kept by the code.

\* received_now is "a POSITIVE amount on top of what was already paid": completing with it
\* never lowers the total.
ReceiptNeverLowersPaid ==
    [][\A r \in Requests : req[r].op = "complete_on_top" /\ req'[r] = Idle => Total' >= Total]_vars

=============================================================================
