---------------------------- MODULE OwnerBilling ----------------------------
(***************************************************************************)
(* What one venue owner pays the platform for premium features: the switch *)
(* of each feature, the daily billing job (refresh the statuses, then      *)
(* issue one invoice for everything due), the screenshot an owner uploads, *)
(* and the admin's approve, reject, record and reverse, which move         *)
(* paid_through.  Billing is enforced and every feature is for sale.       *)
(*                                                                         *)
(* Days are numbered, and MonthEnd gives the last day of a day's month.    *)
(* A line's amount follows from its days, and a payment has its invoice's  *)
(* total, so amounts are left out.  Nothing in the code voids or expires   *)
(* an invoice.  Steps that lock or conditionally update their rows are one *)
(* step; the job and an upload keep what they read across others' commits. *)
(***************************************************************************)
EXTENDS Naturals

CONSTANTS
    Features,     \* the premium features
    Invoices,     \* bound: the invoices that may ever be issued
    Payments,     \* bound: the payments that may ever be made
    TrialDays,    \* OWNER_TRIAL_DAYS
    LeadDays,     \* INVOICE_LEAD_DAYS
    GraceDays,    \* OWNER_BILLING_GRACE_DAYS
    MonthEnd,     \* month_end: the last day of the month a day is in
    LastDay       \* bound: the calendar stops here

Days == 1 .. LastDay + LeadDays

ASSUME BillingAssumption ==
    /\ TrialDays \in Nat /\ LeadDays \in Nat /\ GraceDays \in Nat
    /\ LastDay \in Nat \ {0}
    /\ MonthEnd \in [Days -> Nat] /\ \A d \in Days : d <= MonthEnd[d]

VARIABLES
    today,        \* the calendar day in Pakistan
    feature,      \* owner_features, by feature_key
    invoice,      \* owner_invoices with their owner_invoice_lines
    payment,      \* owner_payments; a reversal is a mark on the row it reverses
    uploading,    \* the invoices for which a submit_proof is uploading and reading its image
    job           \* the billing job: what it read and will write

vars == <<today, feature, invoice, payment, uploading, job>>

\* A date column that is NULL is 0, a status of "none" means there is no row.
NoRow == [status |-> "none", renew |-> FALSE, paidThrough |-> 0, trialEnd |-> 0]
NoLine == [first |-> 0, last |-> 0]
NoLines == [f \in Features |-> NoLine]
NoStatus == [f \in Features |-> "keep"]
Idle == [step |-> "idle", statuses |-> NoStatus, lines |-> NoLines]

Init ==
    /\ today = 1
    /\ feature = [f \in Features |-> NoRow]
    /\ invoice = [i \in Invoices |-> [status |-> "none", lines |-> NoLines]]
    /\ payment = [p \in Payments |-> [status |-> "none", invoice |-> "none", reversed |-> FALSE]]
    /\ uploading = {}
    /\ job = Idle

Greater(a, b) == IF a <= b THEN b ELSE a

CoveredUntil(row) == Greater(row.paidThrough, row.trialEnd)
Billable(row) == row.renew /\ row.status \notin {"none", "cancelled"}
Billed(lines, f) == lines[f].last # 0

-----------------------------------------------------------------------------
(* The owner switches features on and off                                  *)

\* set_selection for a feature that is wanted: a first time starts the trial, coming back
\* does not restart it.
SwitchedOn(row) ==
    CASE row.status = "none" ->
           [NoRow EXCEPT !.status = "active", !.renew = TRUE, !.trialEnd = today + TrialDays - 1]
      [] row.status = "cancelled" \/ (row.status # "none" /\ ~row.renew) ->
           [row EXCEPT !.status = "active", !.renew = TRUE]
      [] OTHER -> row

SwitchedOff(row) ==
    IF row.status \in {"none", "cancelled"} THEN row
    ELSE [row EXCEPT !.status = "cancelled", !.renew = FALSE]

SetSelection(wanted) ==
    /\ feature' = [f \in Features |->
                     IF f \in wanted THEN SwitchedOn(feature[f]) ELSE SwitchedOff(feature[f])]
    /\ UNCHANGED <<today, invoice, payment, uploading, job>>

-----------------------------------------------------------------------------
(* The daily job: refresh_statuses, then generate_all                      *)

StatusToday(row) ==
    IF today <= CoveredUntil(row) THEN "active"
    ELSE IF today <= CoveredUntil(row) + GraceDays THEN "past_due" ELSE "lapsed"

\* refresh_statuses reads the rows being billed and works out the statuses that change.
ReadStatuses ==
    /\ job.step = "idle"
    /\ job' = [Idle EXCEPT !.step = "refresh",
                  !.statuses = [f \in Features |->
                      IF Billable(feature[f]) /\ feature[f].status # StatusToday(feature[f])
                      THEN StatusToday(feature[f]) ELSE "keep"]]
    /\ UNCHANGED <<today, feature, invoice, payment, uploading>>

\* Its commit writes the column by primary key, whatever the row has become.
WriteStatuses ==
    /\ job.step = "refresh"
    /\ feature' = [f \in Features |->
                     IF job.statuses[f] = "keep" THEN feature[f]
                     ELSE [feature[f] EXCEPT !.status = job.statuses[f]]]
    /\ job' = [Idle EXCEPT !.step = "generate"]
    /\ UNCHANGED <<today, invoice, payment, uploading>>

FirstUncovered(f) == CoveredUntil(feature[f]) + 1

\* Mutation: a line counts once it is paid for.
AlreadyPaidFor(f, day) ==
    \E i \in Invoices : invoice[i].status = "paid" /\ invoice[i].lines[f].last >= day

\* _already_invoiced: a live invoice has a line for f that ends on or after the day.
AlreadyInvoiced(f, day) ==
    \E i \in Invoices : invoice[i].status # "none" /\ invoice[i].lines[f].last >= day

Due(f) ==
    /\ Billable(feature[f])
    /\ FirstUncovered(f) <= today + LeadDays
    /\ ~AlreadyInvoiced(f, FirstUncovered(f))

\* generate_for_owner reads the features and works out the lines of one invoice.
ReadDueLines ==
    /\ job.step = "generate"
    /\ job' = IF \E f \in Features : Due(f)
              THEN [Idle EXCEPT !.step = "issue",
                      !.lines = [f \in Features |->
                          IF Due(f) THEN [first |-> FirstUncovered(f),
                                          last |-> MonthEnd[FirstUncovered(f)]]
                          ELSE NoLine]]
              ELSE Idle
    /\ UNCHANGED <<today, feature, invoice, payment, uploading>>

\* invoice.period_start: the earliest day any of the lines pays for.
StartsOn(lines, day) ==
    /\ \E f \in Features : Billed(lines, f) /\ lines[f].first = day
    /\ \A f \in Features : Billed(lines, f) => day <= lines[f].first

\* uq_owner_invoice_cycle: one live invoice per owner and period_start.
CycleTaken ==
    \E i \in Invoices, f \in Features :
        /\ invoice[i].status # "none"
        /\ StartsOn(invoice[i].lines, job.lines[f].first) /\ StartsOn(job.lines, job.lines[f].first)

IssueInvoice(i) ==
    /\ job.step = "issue" /\ invoice[i].status = "none" /\ ~CycleTaken
    /\ invoice' = [invoice EXCEPT ![i] = [status |-> "issued", lines |-> job.lines]]
    /\ job' = Idle
    /\ UNCHANGED <<today, feature, payment, uploading>>

\* The insert violates the index: "a repeated run", nothing to do.
SkipInvoice ==
    /\ job.step = "issue" /\ CycleTaken
    /\ job' = Idle
    /\ UNCHANGED <<today, feature, invoice, payment, uploading>>

-----------------------------------------------------------------------------
(* Payments, and how they move paid_through                                *)

\* _extend_coverage, on the feature rows it has locked.
Extended(i) ==
    [f \in Features |->
        IF ~Billed(invoice[i].lines, f) \/ feature[f].status = "none" THEN feature[f]
        ELSE [feature[f] EXCEPT
                !.paidThrough = Greater(@, invoice[i].lines[f].last),
                !.status = IF @ \in {"past_due", "lapsed"} THEN "active" ELSE @]]

\* Mutation: the free trial is forgotten.
DayBeforeAlways(row, line) == line.first - 1

\* _roll_back_coverage: to the day before the line, or to NULL when that is in the trial.
DayBefore(row, line) == IF line.first - 1 <= row.trialEnd THEN 0 ELSE line.first - 1

\* Mutation: paid_through is put back even when a later payment has moved it.
PaysAnyFor(row, line) == TRUE

PaysLastFor(row, line) == row.paidThrough = line.last

RolledBack(i) ==
    [f \in Features |->
        IF Billed(invoice[i].lines, f) /\ PaysLastFor(feature[f], invoice[i].lines[f])
        THEN [feature[f] EXCEPT !.paidThrough = DayBefore(feature[f], invoice[i].lines[f])]
        ELSE feature[f]]

\* submit_proof checks the invoice, then uploads and reads the image.
BeginUpload(i) ==
    /\ invoice[i].status = "issued"
    /\ uploading' = uploading \cup {i}
    /\ UNCHANGED <<today, feature, invoice, payment, job>>

\* _move_invoice: the conditional UPDATE that only the first of two callers gets through.
Moves(i, expect) == invoice[i].status = expect

\* Its transaction: the proof row, unique per invoice while unreviewed, and the invoice's
\* move.  Another upload for the same invoice may still be running.
SubmitProof(i, p) ==
    /\ i \in uploading /\ payment[p].status = "none"
    /\ \A q \in Payments : ~(payment[q].status = "submitted" /\ payment[q].invoice = i)
    /\ Moves(i, "issued")
    /\ payment' = [payment EXCEPT ![p] =
                     [status |-> "submitted", invoice |-> i, reversed |-> FALSE]]
    /\ invoice' = [invoice EXCEPT ![i].status = "proof_submitted"]
    /\ uploading' \in {uploading, uploading \ {i}}
    /\ UNCHANGED <<today, feature, job>>

\* An upload ends without a payment: refused by one of the two guards, or failed.
EndUpload(i) ==
    /\ i \in uploading
    /\ uploading' = uploading \ {i}
    /\ UNCHANGED <<today, feature, invoice, payment, job>>

\* approve: claims the payment and settles the invoice, or undoes both.
Approve(p) ==
    LET i == payment[p].invoice IN
    /\ payment[p].status = "submitted" /\ Moves(i, "proof_submitted")
    /\ payment' = [payment EXCEPT ![p].status = "approved"]
    /\ invoice' = [invoice EXCEPT ![i].status = "paid"]
    /\ feature' = Extended(i)
    /\ UNCHANGED <<today, uploading, job>>

\* reject: claims the payment; the owner may upload again.
Reject(p) ==
    LET i == payment[p].invoice IN
    /\ payment[p].status = "submitted"
    /\ payment' = [payment EXCEPT ![p].status = "rejected"]
    /\ invoice' = IF Moves(i, "proof_submitted")
                  THEN [invoice EXCEPT ![i].status = "issued"] ELSE invoice
    /\ UNCHANGED <<today, feature, uploading, job>>

\* record_payment: money received outside the app settles an issued invoice.
RecordPayment(i, p) ==
    /\ payment[p].status = "none" /\ Moves(i, "issued")
    /\ payment' = [payment EXCEPT ![p] =
                     [status |-> "approved", invoice |-> i, reversed |-> FALSE]]
    /\ invoice' = [invoice EXCEPT ![i].status = "paid"]
    /\ feature' = Extended(i)
    /\ UNCHANGED <<today, uploading, job>>

\* Mutation: an approved payment may be reversed again.
ReversibleTwice(p) == payment[p].status = "approved"

Reversible(p) == payment[p].status = "approved" /\ ~payment[p].reversed

\* reverse: the invoice is due again and the coverage is put back.
Reverse(p) ==
    LET i == payment[p].invoice IN
    /\ Reversible(p)
    /\ payment' = [payment EXCEPT ![p].reversed = TRUE]
    /\ invoice' = IF Moves(i, "paid") THEN [invoice EXCEPT ![i].status = "issued"] ELSE invoice
    /\ feature' = RolledBack(i)
    /\ UNCHANGED <<today, uploading, job>>

Tick ==
    /\ today < LastDay
    /\ today' = today + 1
    /\ UNCHANGED <<feature, invoice, payment, uploading, job>>

Next ==
    \/ \E wanted \in SUBSET Features : SetSelection(wanted)
    \/ ReadStatuses \/ WriteStatuses \/ ReadDueLines \/ SkipInvoice
    \/ \E i \in Invoices : IssueInvoice(i) \/ BeginUpload(i) \/ EndUpload(i)
    \/ \E i \in Invoices, p \in Payments : SubmitProof(i, p) \/ RecordPayment(i, p)
    \/ \E p \in Payments : Approve(p) \/ Reject(p) \/ Reverse(p)
    \/ Tick

Spec == Init /\ [][Next]_vars

-----------------------------------------------------------------------------
(* Correctness                                                             *)

Statuses == {"active", "past_due", "lapsed"}
Lines == [Features -> [first : Nat, last : Nat]]

FeatureRow == [status : Statuses \cup {"none", "cancelled"}, renew : BOOLEAN,
               paidThrough : Nat, trialEnd : Nat]
InvoiceRow == [status : {"none", "issued", "proof_submitted", "paid"}, lines : Lines]
PaymentRow == [status : {"none", "submitted", "approved", "rejected"},
               invoice : Invoices \cup {"none"}, reversed : BOOLEAN]
JobState == [step : {"idle", "refresh", "generate", "issue"},
             statuses : [Features -> Statuses \cup {"keep"}], lines : Lines]

PaidAfterTrial(row) == row.paidThrough = 0 \/ row.paidThrough > row.trialEnd

\* Every column has a value the code can give it; paid_through is NULL or after the free
\* trial, also when a payment was reversed.
TypeOK ==
    /\ today \in 1 .. LastDay
    /\ feature \in [Features -> FeatureRow]
    /\ \A f \in Features : PaidAfterTrial(feature[f])
    /\ invoice \in [Invoices -> InvoiceRow]
    /\ payment \in [Payments -> PaymentRow]
    /\ uploading \subseteq Invoices
    /\ job \in JobState

\* No day of a feature is on two invoices, whatever was paid, reversed, cancelled or switched
\* on again in between (generate_for_owner, _already_invoiced).
NoDayBilledTwice ==
    \A i, j \in Invoices, f \in Features :
        /\ i # j /\ Billed(invoice[i].lines, f) /\ Billed(invoice[j].lines, f)
        => \/ invoice[i].lines[f].last < invoice[j].lines[f].first
           \/ invoice[j].lines[f].last < invoice[i].lines[f].first

Backing(i, kind) ==
    {p \in Payments : payment[p].invoice = i /\ payment[p].status = kind /\ ~payment[p].reversed}

ExactlyOne(S) == \E p \in S : S = {p}

\* The invoice and its payments agree: paid by one payment that stands, under review by one
\* unreviewed proof, and otherwise neither, with uploads, two admins and reversals at once
\* (submit_proof, _claim, _move_invoice, reverse).
PaymentBacksInvoice ==
    \A i \in Invoices :
        /\ IF invoice[i].status = "paid" THEN ExactlyOne(Backing(i, "approved"))
           ELSE Backing(i, "approved") = {}
        /\ IF invoice[i].status = "proof_submitted" THEN ExactlyOne(Backing(i, "submitted"))
           ELSE Backing(i, "submitted") = {}

\* What is paid for stays covered: reversing one payment never takes away the days of
\* another that stands (_roll_back_coverage).
PaidLinesAreCovered ==
    \A i \in Invoices, f \in Features :
        invoice[i].status = "paid" /\ Billed(invoice[i].lines, f) =>
            feature[f].paidThrough >= invoice[i].lines[f].last

\* Claimed by the comments, not kept by the code.

\* "bill what is due, THEN remind (so a reminder that says "pay your invoice" always has an
\* invoice behind it)": what the job found due is on an invoice when it goes on to remind.
DueIsInvoiced ==
    [][job.step = "issue" /\ job'.step = "idle" =>
          \A f \in Features : Billed(job.lines, f) =>
              \E i \in Invoices : invoice'[i].lines[f].last >= job.lines[f].first]_vars

\* "Last day the owner has paid for", and reverse puts back "the paid-through dates that
\* payment moved": a feature is covered to a day only when an invoice up to it is paid.
PaidThroughIsPaid ==
    \A f \in Features : feature[f].paidThrough > 0 =>
        \E i \in Invoices : /\ invoice[i].status = "paid"
                            /\ invoice[i].lines[f].last >= feature[f].paidThrough

=============================================================================
