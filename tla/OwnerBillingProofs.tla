------------------------- MODULE OwnerBillingProofs -------------------------
(***************************************************************************)
(* Proofs about OwnerBilling, for any features, any number of invoices and *)
(* payments, any trial, lead and grace and any calendar of months.         *)
(*                                                                         *)
(* The argument: what the job is about to bill lies after everything any   *)
(* invoice bills (JobIsFresh), since only the job issues invoices; and a   *)
(* line starts after its feature's trial (LinesBelong).  The lines of one  *)
(* feature are therefore in order, and rolling paid_through back to the    *)
(* day before one line stays at or after the end of every earlier line.    *)
(***************************************************************************)
EXTENDS OwnerBilling, TLAPS

\* A line is of an invoice and a feature that exist, and lies after the feature's trial.
LinesBelong ==
    \A i \in Invoices, f \in Features : Billed(invoice[i].lines, f) =>
        /\ invoice[i].status # "none" /\ feature[f].status # "none"
        /\ invoice[i].lines[f].first <= invoice[i].lines[f].last
        /\ feature[f].trialEnd < invoice[i].lines[f].first

JobIsFresh ==
    job.step = "issue" =>
        \A f \in Features : Billed(job.lines, f) =>
            /\ feature[f].status # "none"
            /\ job.lines[f].first <= job.lines[f].last
            /\ feature[f].trialEnd < job.lines[f].first
            /\ \A i \in Invoices : invoice[i].lines[f].last < job.lines[f].first

PaymentsBelong ==
    \A p \in Payments :
        /\ payment[p].status # "none" => payment[p].invoice \in Invoices
        /\ payment[p].reversed => payment[p].status = "approved"

Consistent == LinesBelong /\ JobIsFresh /\ PaymentsBelong

-----------------------------------------------------------------------------

\* What the job may bill is a period after the trial and after every line there is.
LEMMA DueLineIsLate ==
    ASSUME TypeOK, LinesBelong, NEW f \in Features, Due(f)
    PROVE  /\ FirstUncovered(f) \in Nat \ {0} /\ MonthEnd[FirstUncovered(f)] \in Nat
           /\ FirstUncovered(f) <= MonthEnd[FirstUncovered(f)]
           /\ feature[f].status # "none" /\ feature[f].trialEnd < FirstUncovered(f)
           /\ \A i \in Invoices : invoice[i].lines[f].last < FirstUncovered(f)
<1>1. /\ FirstUncovered(f) \in 1 .. LastDay + LeadDays
      /\ feature[f].trialEnd < FirstUncovered(f)
  BY BillingAssumption DEF TypeOK, FeatureRow, Due, FirstUncovered, CoveredUntil, Greater
<1>2. MonthEnd[FirstUncovered(f)] \in Nat /\ FirstUncovered(f) <= MonthEnd[FirstUncovered(f)]
  BY <1>1, BillingAssumption DEF Days
<1>3. feature[f].status # "none"
  BY DEF Due, Billable
<1>4. ASSUME NEW i \in Invoices
      PROVE  invoice[i].lines[f].last < FirstUncovered(f)
  <2>1. invoice[i].lines[f].last \in Nat
    BY DEF TypeOK, InvoiceRow, Lines
  <2>2. CASE invoice[i].status = "none"
    BY <1>1, <2>1, <2>2 DEF LinesBelong, Billed
  <2>3. CASE invoice[i].status # "none"
    BY <1>1, <2>1, <2>3 DEF Due, AlreadyInvoiced
  <2> QED BY <2>2, <2>3
<1> QED BY <1>1, <1>2, <1>3, <1>4

\* Rows are well typed after a payment or its reversal, which never touch the trial and
\* never remove a row.
LEMMA CoverageTyped ==
    ASSUME TypeOK, LinesBelong, NEW i \in Invoices, NEW rows \in {Extended(i), RolledBack(i)}
    PROVE  /\ rows \in [Features -> FeatureRow]
           /\ \A f \in Features :
                 /\ PaidAfterTrial(rows[f])
                 /\ rows[f].trialEnd = feature[f].trialEnd
                 /\ feature[f].status # "none" => rows[f].status # "none"
<1> DEFINE line(f) == invoice[i].lines[f]
<1>1. ASSUME NEW f \in Features
      PROVE  /\ line(f).first \in Nat /\ line(f).last \in Nat
             /\ feature[f] \in FeatureRow /\ PaidAfterTrial(feature[f])
             /\ Billed(invoice[i].lines, f) =>
                   feature[f].trialEnd < line(f).first /\ line(f).first <= line(f).last
  BY DEF TypeOK, InvoiceRow, Lines, LinesBelong
<1>2. CASE rows = Extended(i)
  <2>1. ASSUME NEW f \in Features
        PROVE  /\ rows[f] \in FeatureRow /\ PaidAfterTrial(rows[f])
               /\ rows[f].trialEnd = feature[f].trialEnd
               /\ feature[f].status # "none" => rows[f].status # "none"
    <3>1. CASE ~Billed(invoice[i].lines, f) \/ feature[f].status = "none"
      BY <1>1, <1>2, <3>1 DEF Extended
    <3>2. CASE Billed(invoice[i].lines, f) /\ feature[f].status # "none"
      <4>1. rows[f] = [feature[f] EXCEPT
                         !.paidThrough = Greater(@, line(f).last),
                         !.status = IF @ \in {"past_due", "lapsed"} THEN "active" ELSE @]
        BY <1>2, <3>2 DEF Extended
      <4>2. Greater(feature[f].paidThrough, line(f).last) \in Nat
            /\ Greater(feature[f].paidThrough, line(f).last) > feature[f].trialEnd
        BY <1>1, <3>2 DEF Greater, FeatureRow
      <4> QED BY <1>1, <3>2, <4>1, <4>2 DEF FeatureRow, PaidAfterTrial, Statuses
    <3> QED BY <3>1, <3>2
  <2> QED BY <1>2, <2>1 DEF Extended
<1>3. CASE rows = RolledBack(i)
  <2>1. ASSUME NEW f \in Features, Billed(invoice[i].lines, f)
        PROVE  /\ DayBefore(feature[f], line(f)) \in Nat
               /\ \/ DayBefore(feature[f], line(f)) = 0
                  \/ DayBefore(feature[f], line(f)) > feature[f].trialEnd
    <3>1. line(f).first - 1 \in Nat
      BY <1>1, <2>1 DEF FeatureRow
    <3> QED BY <3>1, <1>1 DEF DayBefore, FeatureRow
  <2>2. ASSUME NEW f \in Features
        PROVE  /\ rows[f] \in FeatureRow /\ PaidAfterTrial(rows[f])
               /\ rows[f].trialEnd = feature[f].trialEnd
               /\ feature[f].status # "none" => rows[f].status # "none"
    BY <1>1, <1>3, <2>1 DEF RolledBack, FeatureRow, PaidAfterTrial
  <2> QED BY <1>3, <2>2 DEF RolledBack
<1> QED BY <1>2, <1>3

\* The job's state between two of its steps.
LEMMA IdleTyped ==
    /\ Idle \in JobState
    /\ \A s \in {"idle", "generate"} : [Idle EXCEPT !.step = s] \in JobState
  BY DEF Idle, JobState, NoStatus, NoLines, NoLine, Lines, Statuses

\* Every step keeps the types.
LEMMA TypePreserved ==
    ASSUME TypeOK, Consistent, [Next]_vars
    PROVE  TypeOK'
<1> USE BillingAssumption
<1>1. ASSUME NEW wanted \in SUBSET Features, SetSelection(wanted)
      PROVE  TypeOK'
  <2>1. ASSUME NEW f \in Features
        PROVE  /\ SwitchedOn(feature[f]) \in FeatureRow
               /\ PaidAfterTrial(SwitchedOn(feature[f]))
    <3>1. today + TrialDays - 1 \in Nat
      BY DEF TypeOK
    <3>2. feature[f] \in FeatureRow /\ PaidAfterTrial(feature[f])
      BY DEF TypeOK
    <3> QED BY <3>1, <3>2 DEF SwitchedOn, NoRow, FeatureRow, PaidAfterTrial, Statuses
  <2>2. ASSUME NEW f \in Features
        PROVE  /\ SwitchedOff(feature[f]) \in FeatureRow
               /\ PaidAfterTrial(SwitchedOff(feature[f]))
    BY DEF TypeOK, SwitchedOff, FeatureRow, PaidAfterTrial
  <2> QED BY <1>1, <2>1, <2>2 DEF TypeOK, SetSelection
<1>2. CASE ReadStatuses
  <2>1. job' \in JobState
    BY <1>2 DEF ReadStatuses, Idle, NoLines, NoLine, Lines, Statuses, StatusToday, JobState
  <2> QED BY <1>2, <2>1 DEF TypeOK, ReadStatuses
<1>3. CASE WriteStatuses
  <2>1. ASSUME NEW f \in Features, job.statuses[f] # "keep"
        PROVE  LET row == [feature[f] EXCEPT !.status = job.statuses[f]] IN
               row \in FeatureRow /\ PaidAfterTrial(row)
    BY <2>1 DEF TypeOK, FeatureRow, JobState, PaidAfterTrial
  <2>2. feature' \in [Features -> FeatureRow] /\ \A f \in Features : PaidAfterTrial(feature'[f])
    BY <1>3, <2>1 DEF TypeOK, WriteStatuses
  <2> QED BY <1>3, <2>2, IdleTyped DEF TypeOK, WriteStatuses
<1>4. CASE ReadDueLines
  <2>1. [f \in Features |-> IF Due(f) THEN [first |-> FirstUncovered(f),
                                            last |-> MonthEnd[FirstUncovered(f)]]
                            ELSE NoLine] \in Lines
    BY DueLineIsLate DEF Consistent, Lines, NoLine
  <2>2. job' \in JobState
    BY <1>4, <2>1, IdleTyped DEF ReadDueLines, JobState
  <2> QED BY <1>4, <2>2 DEF TypeOK, ReadDueLines
<1>5. CASE SkipInvoice
  BY <1>5, IdleTyped DEF TypeOK, SkipInvoice
<1>6. ASSUME NEW i \in Invoices, IssueInvoice(i)
      PROVE  TypeOK'
  <2>1. [status |-> "issued", lines |-> job.lines] \in InvoiceRow
    BY DEF TypeOK, JobState, InvoiceRow
  <2> QED BY <1>6, <2>1, IdleTyped DEF TypeOK, IssueInvoice
<1>7. ASSUME NEW i \in Invoices, BeginUpload(i) \/ EndUpload(i)
      PROVE  TypeOK'
  BY <1>7 DEF TypeOK, BeginUpload, EndUpload
<1>8. ASSUME NEW i \in Invoices, NEW s \in {"issued", "proof_submitted", "paid"}
      PROVE  [invoice EXCEPT ![i].status = s] \in [Invoices -> InvoiceRow]
  BY DEF TypeOK, InvoiceRow
<1>9. ASSUME NEW i \in Invoices, NEW p \in Payments, SubmitProof(i, p)
      PROVE  TypeOK'
  <2>1. payment' \in [Payments -> PaymentRow]
    BY <1>9 DEF TypeOK, SubmitProof, PaymentRow
  <2> QED BY <1>8, <1>9, <2>1 DEF TypeOK, SubmitProof
<1>10. ASSUME NEW i \in Invoices, NEW p \in Payments, RecordPayment(i, p)
       PROVE  TypeOK'
  <2>1. payment' \in [Payments -> PaymentRow]
    BY <1>10 DEF TypeOK, RecordPayment, PaymentRow
  <2>2. feature' \in [Features -> FeatureRow] /\ \A f \in Features : PaidAfterTrial(feature'[f])
    BY <1>10, CoverageTyped DEF RecordPayment, Consistent
  <2> QED BY <1>8, <1>10, <2>1, <2>2 DEF TypeOK, RecordPayment
<1>11. ASSUME NEW p \in Payments, Approve(p)
       PROVE  TypeOK'
  <2>1. payment[p].invoice \in Invoices
    BY <1>11 DEF Approve, Consistent, PaymentsBelong
  <2>2. payment' \in [Payments -> PaymentRow]
    BY <1>11 DEF TypeOK, Approve, PaymentRow
  <2>3. feature' \in [Features -> FeatureRow] /\ \A f \in Features : PaidAfterTrial(feature'[f])
    BY <1>11, <2>1, CoverageTyped DEF Approve, Consistent
  <2> QED BY <1>8, <1>11, <2>1, <2>2, <2>3 DEF TypeOK, Approve
<1>12. ASSUME NEW p \in Payments, Reject(p)
       PROVE  TypeOK'
  <2>1. payment[p].invoice \in Invoices
    BY <1>12 DEF Reject, Consistent, PaymentsBelong
  <2>2. payment' \in [Payments -> PaymentRow]
    BY <1>12 DEF TypeOK, Reject, PaymentRow
  <2>3. invoice' \in [Invoices -> InvoiceRow]
    BY <1>8, <1>12, <2>1 DEF TypeOK, Reject
  <2> QED BY <1>12, <2>2, <2>3 DEF TypeOK, Reject
<1>13. ASSUME NEW p \in Payments, Reverse(p)
       PROVE  TypeOK'
  <2>1. payment[p].invoice \in Invoices
    BY <1>13 DEF Reverse, Reversible, Consistent, PaymentsBelong
  <2>2. payment' \in [Payments -> PaymentRow]
    BY <1>13 DEF TypeOK, Reverse, PaymentRow
  <2>3. invoice' \in [Invoices -> InvoiceRow]
    BY <1>8, <1>13, <2>1 DEF TypeOK, Reverse
  <2>4. feature' \in [Features -> FeatureRow] /\ \A f \in Features : PaidAfterTrial(feature'[f])
    BY <1>13, <2>1, CoverageTyped DEF Reverse, Consistent
  <2> QED BY <1>13, <2>2, <2>3, <2>4 DEF TypeOK, Reverse
<1>14. CASE Tick
  BY <1>14 DEF TypeOK, Tick
<1>15. CASE UNCHANGED vars
  BY <1>15 DEF TypeOK, vars
<1> QED BY <1>1, <1>2, <1>3, <1>4, <1>5, <1>6, <1>7, <1>9, <1>10, <1>11, <1>12, <1>13, <1>14,
           <1>15 DEF Next

-----------------------------------------------------------------------------

\* No step removes a feature's row or restarts its trial.
LEMMA RowsStay ==
    ASSUME TypeOK, Consistent, [Next]_vars, NEW f \in Features, feature[f].status # "none"
    PROVE  feature'[f].status # "none" /\ feature'[f].trialEnd = feature[f].trialEnd
<1>1. feature[f] \in FeatureRow
  BY DEF TypeOK
<1>2. ASSUME NEW wanted \in SUBSET Features, SetSelection(wanted)
      PROVE  feature'[f].status # "none" /\ feature'[f].trialEnd = feature[f].trialEnd
  BY <1>1, <1>2 DEF SetSelection, SwitchedOn, SwitchedOff, FeatureRow
<1>3. CASE WriteStatuses
  <2>1. job.statuses[f] # "none"
    BY DEF TypeOK, JobState, Statuses
  <2> QED BY <1>1, <1>3, <2>1 DEF WriteStatuses, FeatureRow
<1>4. ASSUME NEW i \in Invoices, feature' \in {Extended(i), RolledBack(i)}
      PROVE  feature'[f].status # "none" /\ feature'[f].trialEnd = feature[f].trialEnd
  BY <1>4, CoverageTyped DEF Consistent
<1>5. ASSUME NEW p \in Payments, Approve(p) \/ Reverse(p)
      PROVE  feature'[f].status # "none" /\ feature'[f].trialEnd = feature[f].trialEnd
  <2>1. payment[p].invoice \in Invoices
    BY <1>5 DEF Approve, Reverse, Reversible, Consistent, PaymentsBelong
  <2> QED BY <1>4, <1>5, <2>1 DEF Approve, Reverse
<1>6. ASSUME NEW i \in Invoices, NEW p \in Payments, RecordPayment(i, p)
      PROVE  feature'[f].status # "none" /\ feature'[f].trialEnd = feature[f].trialEnd
  BY <1>4, <1>6 DEF RecordPayment
<1> QED BY <1>2, <1>3, <1>5, <1>6 DEF Next, vars, ReadStatuses, ReadDueLines, SkipInvoice,
           IssueInvoice, BeginUpload, EndUpload, SubmitProof, Reject, Tick

\* Only the job writes lines, and no step removes an invoice.
LEMMA LinesStay ==
    ASSUME TypeOK, Consistent, [Next]_vars, NEW i \in Invoices
    PROVE  \/ IssueInvoice(i)
           \/ /\ invoice'[i].lines = invoice[i].lines
              /\ invoice[i].status # "none" <=> invoice'[i].status # "none"
<1>1. invoice \in [Invoices -> InvoiceRow]
  BY DEF TypeOK
<1>2. ASSUME NEW j \in Invoices, NEW s \in {"issued", "proof_submitted", "paid"},
             invoice[j].status # "none", invoice' = [invoice EXCEPT ![j].status = s]
      PROVE  /\ invoice'[i].lines = invoice[i].lines
             /\ invoice[i].status # "none" <=> invoice'[i].status # "none"
  BY <1>1, <1>2 DEF InvoiceRow
<1>3. ASSUME NEW j \in Invoices, IssueInvoice(j), j # i
      PROVE  invoice'[i] = invoice[i]
  BY <1>1, <1>3 DEF IssueInvoice
<1>4. ASSUME NEW j \in Invoices, NEW p \in Payments, SubmitProof(j, p) \/ RecordPayment(j, p)
      PROVE  /\ invoice'[i].lines = invoice[i].lines
             /\ invoice[i].status # "none" <=> invoice'[i].status # "none"
  BY <1>2, <1>4 DEF SubmitProof, RecordPayment, Moves
<1>5. ASSUME NEW p \in Payments, Approve(p) \/ Reject(p) \/ Reverse(p)
      PROVE  /\ invoice'[i].lines = invoice[i].lines
             /\ invoice[i].status # "none" <=> invoice'[i].status # "none"
  <2>1. payment[p].invoice \in Invoices
    BY <1>5 DEF Approve, Reject, Reverse, Reversible, Consistent, PaymentsBelong
  <2> QED BY <1>2, <1>5, <2>1 DEF Approve, Reject, Reverse, Moves
<1> QED BY <1>3, <1>4, <1>5 DEF Next, vars, SetSelection, ReadStatuses, WriteStatuses,
           ReadDueLines, SkipInvoice, BeginUpload, EndUpload, Tick

\* What the job is about to write changes only by its own steps.
LEMMA JobStays ==
    ASSUME [Next]_vars, job'.step = "issue"
    PROVE  job' = job \/ ReadDueLines
<1>1. Idle.step # "issue" /\ [Idle EXCEPT !.step = "generate"].step # "issue"
  BY DEF Idle
<1>2. ~ReadStatuses
  BY DEF ReadStatuses, Idle
<1>3. ~WriteStatuses /\ ~SkipInvoice /\ \A i \in Invoices : ~IssueInvoice(i)
  BY <1>1 DEF WriteStatuses, SkipInvoice, IssueInvoice
<1> QED BY <1>2, <1>3 DEF Next, vars, SetSelection, BeginUpload, EndUpload, SubmitProof,
           RecordPayment, Approve, Reject, Reverse, Tick

\* Every step keeps the lines in order, the job ahead of them, and payments on invoices.
LEMMA ConsistencyPreserved ==
    ASSUME TypeOK, TypeOK', Consistent, [Next]_vars
    PROVE  Consistent'
<1>1. LinesBelong'
  <2> SUFFICES ASSUME NEW i \in Invoices, NEW f \in Features, Billed(invoice'[i].lines, f)
               PROVE  /\ invoice'[i].status # "none" /\ feature'[f].status # "none"
                      /\ invoice'[i].lines[f].first <= invoice'[i].lines[f].last
                      /\ feature'[f].trialEnd < invoice'[i].lines[f].first
    BY DEF LinesBelong
  <2>1. CASE IssueInvoice(i)
    <3>1. /\ invoice'[i] = [status |-> "issued", lines |-> job.lines]
          /\ job.step = "issue" /\ feature' = feature
      BY <2>1 DEF IssueInvoice, TypeOK
    <3> QED BY <3>1 DEF Consistent, JobIsFresh
  <2>2. CASE /\ invoice'[i].lines = invoice[i].lines
             /\ invoice[i].status # "none" <=> invoice'[i].status # "none"
    BY <2>2, RowsStay DEF Consistent, LinesBelong
  <2> QED BY <2>1, <2>2, LinesStay
<1>2. JobIsFresh'
  <2> SUFFICES ASSUME job'.step = "issue", NEW f \in Features, Billed(job'.lines, f)
               PROVE  /\ feature'[f].status # "none"
                      /\ job'.lines[f].first <= job'.lines[f].last
                      /\ feature'[f].trialEnd < job'.lines[f].first
                      /\ \A i \in Invoices : invoice'[i].lines[f].last < job'.lines[f].first
    BY DEF JobIsFresh
  <2>1. CASE job' = job
    <3>1. ASSUME NEW i \in Invoices
          PROVE  ~IssueInvoice(i)
      BY <2>1 DEF IssueInvoice, Idle
    <3> QED BY <2>1, <3>1, RowsStay, LinesStay DEF Consistent, JobIsFresh
  <2>2. CASE ReadDueLines
    <3>1. feature' = feature /\ invoice' = invoice
      BY <2>2 DEF ReadDueLines
    <3>2. /\ Due(f)
          /\ job'.lines[f] = [first |-> FirstUncovered(f), last |-> MonthEnd[FirstUncovered(f)]]
      BY <2>2 DEF ReadDueLines, Idle, Billed, NoLine, NoLines
    <3> QED BY <3>1, <3>2, DueLineIsLate DEF Consistent
  <2> QED BY <2>1, <2>2, JobStays
<1>3. PaymentsBelong'
  <2>1. payment \in [Payments -> PaymentRow] /\ PaymentsBelong
    BY DEF TypeOK, Consistent
  <2>2. ASSUME NEW i \in Invoices, NEW p \in Payments, SubmitProof(i, p) \/ RecordPayment(i, p)
        PROVE  PaymentsBelong'
    BY <2>1, <2>2 DEF SubmitProof, RecordPayment, PaymentsBelong
  <2>3. ASSUME NEW p \in Payments, Approve(p) \/ Reject(p) \/ Reverse(p)
        PROVE  PaymentsBelong'
    BY <2>1, <2>3 DEF Approve, Reject, Reverse, Reversible, PaymentsBelong, PaymentRow
  <2>4. CASE payment' = payment
    BY <2>1, <2>4 DEF PaymentsBelong
  <2> QED BY <2>2, <2>3, <2>4 DEF Next, vars, SetSelection, ReadStatuses, WriteStatuses,
             ReadDueLines, SkipInvoice, IssueInvoice, BeginUpload, EndUpload, Tick
<1> QED BY <1>1, <1>2, <1>3 DEF Consistent

LEMMA InitConsistent == Init => TypeOK /\ Consistent
<1> SUFFICES ASSUME Init PROVE TypeOK /\ Consistent
  OBVIOUS
<1>1. TypeOK
  BY BillingAssumption, IdleTyped DEF Init, TypeOK, NoRow, FeatureRow, InvoiceRow, PaymentRow,
     PaidAfterTrial, NoLines, NoLine, Lines
<1>2. Consistent
  BY DEF Init, Consistent, LinesBelong, JobIsFresh, PaymentsBelong, Billed, NoLines, NoLine, Idle
<1> QED BY <1>1, <1>2

LEMMA AlwaysConsistent == Spec => [](TypeOK /\ Consistent)
<1>1. TypeOK /\ Consistent /\ [Next]_vars => (TypeOK /\ Consistent)'
  BY TypePreserved, ConsistencyPreserved
<1> QED BY InitConsistent, <1>1, PTL DEF Spec

\* Every column of the billing tables keeps its type, and paid_through is NULL or after the
\* free trial, whatever is paid and reversed (owner_features, owner_invoices, owner_payments).
THEOREM TypeCorrect == Spec => []TypeOK
  BY AlwaysConsistent, PTL

-----------------------------------------------------------------------------

\* A new invoice's lines come after all others of their features.
LEMMA NoDayBilledTwicePreserved ==
    ASSUME TypeOK, TypeOK', Consistent, Consistent', NoDayBilledTwice, [Next]_vars
    PROVE  NoDayBilledTwice'
<1> SUFFICES ASSUME NEW i \in Invoices, NEW j \in Invoices, NEW f \in Features, i # j,
                    Billed(invoice'[i].lines, f), Billed(invoice'[j].lines, f)
             PROVE  \/ invoice'[i].lines[f].last < invoice'[j].lines[f].first
                    \/ invoice'[j].lines[f].last < invoice'[i].lines[f].first
  BY DEF NoDayBilledTwice
<1>1. ASSUME NEW m \in Invoices, NEW n \in Invoices, m # n, IssueInvoice(m),
             Billed(invoice'[m].lines, f)
      PROVE  invoice'[n].lines[f].last < invoice'[m].lines[f].first
  <2>1. invoice'[m].lines = job.lines /\ invoice'[n] = invoice[n] /\ job.step = "issue"
    BY <1>1 DEF IssueInvoice, TypeOK
  <2> QED BY <1>1, <2>1 DEF Consistent, JobIsFresh
<1>2. CASE IssueInvoice(i)
  BY <1>1, <1>2
<1>3. CASE IssueInvoice(j)
  BY <1>1, <1>3
<1>4. CASE invoice'[i].lines = invoice[i].lines /\ invoice'[j].lines = invoice[j].lines
  BY <1>4 DEF NoDayBilledTwice
<1> QED BY <1>2, <1>3, <1>4, LinesStay

\* A payment only adds coverage, and its reversal takes away no earlier line.
LEMMA PaidLinesAreCoveredPreserved ==
    ASSUME TypeOK, TypeOK', Consistent, Consistent', NoDayBilledTwice, PaidLinesAreCovered,
           [Next]_vars
    PROVE  PaidLinesAreCovered'
<1> SUFFICES ASSUME NEW i \in Invoices, NEW f \in Features, invoice'[i].status = "paid",
                    Billed(invoice'[i].lines, f)
             PROVE  feature'[f].paidThrough >= invoice'[i].lines[f].last
  BY DEF PaidLinesAreCovered
<1>1. /\ invoice \in [Invoices -> InvoiceRow] /\ feature \in [Features -> FeatureRow]
      /\ \A m \in Invoices : invoice[m].lines[f].first \in Nat /\ invoice[m].lines[f].last \in Nat
      /\ feature[f].paidThrough \in Nat /\ feature[f].trialEnd \in Nat
  BY DEF TypeOK, InvoiceRow, FeatureRow, Lines
<1>2. ~IssueInvoice(i)
  BY <1>1 DEF IssueInvoice
<1>3. invoice'[i].lines = invoice[i].lines /\ Billed(invoice[i].lines, f)
  BY <1>2, LinesStay
<1>4. ASSUME NEW j \in Invoices, feature' = Extended(j),
             invoice' = [invoice EXCEPT ![j].status = "paid"]
      PROVE  feature'[f].paidThrough >= invoice'[i].lines[f].last
  <2>1. feature'[f].paidThrough >= feature[f].paidThrough
    <3>1. CASE ~Billed(invoice[j].lines, f) \/ feature[f].status = "none"
      <4>1. feature'[f] = feature[f]
        BY <1>4, <3>1 DEF Extended
      <4> QED BY <1>1, <4>1
    <3>2. CASE Billed(invoice[j].lines, f) /\ feature[f].status # "none"
      <4>1. feature'[f].paidThrough = Greater(feature[f].paidThrough, invoice[j].lines[f].last)
        BY <1>1, <1>4, <3>2 DEF Extended, FeatureRow
      <4> QED BY <1>1, <4>1 DEF Greater
    <3> QED BY <3>1, <3>2
  <2>2. CASE i = j
    <3>1. feature[f].status # "none"
      BY <1>3 DEF Consistent, LinesBelong
    <3>2. feature'[f].paidThrough = Greater(feature[f].paidThrough, invoice[i].lines[f].last)
      BY <1>1, <1>3, <1>4, <2>2, <3>1 DEF Extended, FeatureRow
    <3> QED BY <1>1, <1>3, <3>2 DEF Greater
  <2>3. CASE i # j
    <3>1. feature[f].paidThrough >= invoice[i].lines[f].last
      BY <1>1, <1>3, <1>4, <2>3 DEF PaidLinesAreCovered
    <3> QED BY <1>1, <1>3, <2>1, <3>1 DEF TypeOK, FeatureRow
  <2> QED BY <2>2, <2>3
<1>5. ASSUME NEW p \in Payments, Reverse(p)
      PROVE  feature'[f].paidThrough >= invoice'[i].lines[f].last
  <2> DEFINE j == payment[p].invoice
  <2>1. j \in Invoices /\ feature' = RolledBack(j)
    BY <1>5 DEF Reverse, Reversible, Consistent, PaymentsBelong
  <2>2. i # j /\ invoice[i].status = "paid"
    BY <1>1, <1>5, <2>1 DEF Reverse, Moves, InvoiceRow
  <2>3. feature[f].paidThrough >= invoice[i].lines[f].last
    BY <1>3, <2>2 DEF PaidLinesAreCovered
  <2>4. CASE Billed(invoice[j].lines, f) /\ PaysLastFor(feature[f], invoice[j].lines[f])
    <3>1. feature'[f].paidThrough = DayBefore(feature[f], invoice[j].lines[f])
      BY <1>1, <2>1, <2>4 DEF RolledBack, FeatureRow
    <3>2. invoice[i].lines[f].last < invoice[j].lines[f].first
      BY <1>1, <1>3, <2>1, <2>2, <2>3, <2>4, SMTT(30)
         DEF NoDayBilledTwice, PaysLastFor, Consistent, LinesBelong
    <3>3. feature[f].trialEnd < invoice[i].lines[f].last
      BY <1>1, <1>3 DEF Consistent, LinesBelong
    <3> QED BY <1>1, <1>3, <2>1, <3>1, <3>2, <3>3 DEF DayBefore
  <2>5. CASE ~(Billed(invoice[j].lines, f) /\ PaysLastFor(feature[f], invoice[j].lines[f]))
    BY <1>3, <2>1, <2>3, <2>5 DEF RolledBack
  <2> QED BY <2>4, <2>5
<1>6. ASSUME NEW p \in Payments, Approve(p)
      PROVE  feature'[f].paidThrough >= invoice'[i].lines[f].last
  <2>1. payment[p].invoice \in Invoices
    BY <1>6 DEF Approve, Consistent, PaymentsBelong
  <2> QED BY <1>4, <1>6, <2>1 DEF Approve
<1>7. ASSUME NEW j \in Invoices, NEW p \in Payments, RecordPayment(j, p)
      PROVE  feature'[f].paidThrough >= invoice'[i].lines[f].last
  BY <1>4, <1>7 DEF RecordPayment
<1>8. CASE feature'[f].paidThrough = feature[f].paidThrough /\ invoice[i].status = "paid"
  BY <1>3, <1>8 DEF PaidLinesAreCovered
<1>9. CASE WriteStatuses \/ \E wanted \in SUBSET Features : SetSelection(wanted)
  <2>1. feature[f].status # "none"
    BY <1>3 DEF Consistent, LinesBelong
  <2>2. feature'[f].paidThrough = feature[f].paidThrough
    <3>1. feature[f] \in FeatureRow
      BY <1>1
    <3>2. CASE WriteStatuses
      BY <3>1, <3>2 DEF WriteStatuses, FeatureRow
    <3>3. ASSUME NEW wanted \in SUBSET Features, SetSelection(wanted)
          PROVE  feature'[f].paidThrough = feature[f].paidThrough
      BY <2>1, <3>1, <3>3 DEF SetSelection, SwitchedOn, SwitchedOff, FeatureRow
    <3> QED BY <1>9, <3>2, <3>3
  <2> QED BY <1>8, <1>9, <2>2 DEF WriteStatuses, SetSelection
<1>10. ASSUME NEW j \in Invoices, NEW s \in {"issued", "proof_submitted"}, feature' = feature,
              invoice' = [invoice EXCEPT ![j].status = s]
       PROVE  feature'[f].paidThrough >= invoice'[i].lines[f].last
  BY <1>1, <1>8, <1>10 DEF InvoiceRow
<1>11. ASSUME NEW j \in Invoices, NEW p \in Payments, SubmitProof(j, p)
       PROVE  feature'[f].paidThrough >= invoice'[i].lines[f].last
  BY <1>10, <1>11 DEF SubmitProof
<1>12. ASSUME NEW p \in Payments, Reject(p)
       PROVE  feature'[f].paidThrough >= invoice'[i].lines[f].last
  <2>1. payment[p].invoice \in Invoices
    BY <1>12 DEF Reject, Consistent, PaymentsBelong
  <2> QED BY <1>8, <1>10, <1>12, <2>1 DEF Reject
<1>13. ASSUME NEW j \in Invoices, IssueInvoice(j)
       PROVE  feature'[f].paidThrough >= invoice'[i].lines[f].last
  BY <1>1, <1>2, <1>8, <1>13 DEF IssueInvoice
<1> QED BY <1>5, <1>6, <1>7, <1>8, <1>9, <1>11, <1>12, <1>13 DEF Next, vars, ReadStatuses,
           ReadDueLines, SkipInvoice, BeginUpload, EndUpload, Tick

LEMMA AlwaysCovered == Spec => [](NoDayBilledTwice /\ PaidLinesAreCovered)
<1> DEFINE Inv == TypeOK /\ Consistent /\ NoDayBilledTwice /\ PaidLinesAreCovered
<1>1. Init => Inv
  BY InitConsistent DEF Init, NoDayBilledTwice, PaidLinesAreCovered, Billed, NoLines, NoLine
<1>2. Inv /\ [Next]_vars => Inv'
  BY TypePreserved, ConsistencyPreserved, NoDayBilledTwicePreserved, PaidLinesAreCoveredPreserved
<1> QED BY <1>1, <1>2, PTL DEF Spec

\* No day of a premium feature is ever billed on two invoices, however payments, reversals,
\* cancellations and the job's stale readings interleave (generate_for_owner).
THEOREM NeverBilledTwice == Spec => []NoDayBilledTwice
  BY AlwaysCovered, PTL

\* A line that is paid for stays covered: reversing another payment never takes its days away
\* (_extend_coverage, _roll_back_coverage).
THEOREM PaidDaysAreKept == Spec => []PaidLinesAreCovered
  BY AlwaysCovered, PTL

-----------------------------------------------------------------------------

\* A step on one payment leaves the payments of every other invoice alone.
LEMMA OthersBacking ==
    ASSUME TypeOK, NEW p \in Payments, NEW i \in Invoices, NEW kind \in {"approved", "submitted"},
           \A q \in Payments : q # p => payment'[q] = payment[q],
           payment[p].status # "none" => payment[p].invoice # i,
           payment'[p].invoice # i
    PROVE  Backing(i, kind)' = Backing(i, kind)
  BY DEF Backing

LEMMA PaymentBacksInvoicePreserved ==
    ASSUME TypeOK, TypeOK', Consistent, Consistent', PaymentBacksInvoice, [Next]_vars
    PROVE  PaymentBacksInvoice'
<1> DEFINE Backed(i) ==
        /\ IF invoice[i].status = "paid" THEN ExactlyOne(Backing(i, "approved"))
           ELSE Backing(i, "approved") = {}
        /\ IF invoice[i].status = "proof_submitted" THEN ExactlyOne(Backing(i, "submitted"))
           ELSE Backing(i, "submitted") = {}
<1>1. payment \in [Payments -> PaymentRow] /\ invoice \in [Invoices -> InvoiceRow]
      /\ \A i \in Invoices : Backed(i)
  BY DEF TypeOK, PaymentBacksInvoice
\* The invoices a step on payment p leaves alone.
<1>2. ASSUME NEW p \in Payments, NEW j \in Invoices, NEW i \in Invoices, i # j,
             \A q \in Payments : q # p => payment'[q] = payment[q],
             payment[p].status # "none" => payment[p].invoice = j,
             payment'[p].invoice = j, invoice'[i] = invoice[i]
      PROVE  Backed(i)'
  <2>1. \A kind \in {"approved", "submitted"} : Backing(i, kind)' = Backing(i, kind)
    BY <1>2, OthersBacking
  <2> QED BY <1>1, <1>2, <2>1 DEF ExactlyOne
<1>3. ASSUME NEW j \in Invoices, NEW p \in Payments, SubmitProof(j, p)
      PROVE  PaymentBacksInvoice'
  <2>1. /\ payment'[p] = [status |-> "submitted", invoice |-> j, reversed |-> FALSE]
        /\ \A q \in Payments : q # p => payment'[q] = payment[q]
        /\ payment[p].status = "none" /\ invoice[j].status = "issued"
        /\ invoice'[j].status = "proof_submitted"
        /\ \A i \in Invoices : i # j => invoice'[i] = invoice[i]
    BY <1>1, <1>3 DEF SubmitProof, Moves, PaymentRow, InvoiceRow
  <2>2. Backing(j, "approved") = {} /\ Backing(j, "submitted") = {}
    BY <1>1, <2>1
  <2>3. Backing(j, "approved")' = {} /\ Backing(j, "submitted")' = {p}
    BY <2>1, <2>2 DEF Backing
  <2>4. Backed(j)'
    BY <2>1, <2>3 DEF ExactlyOne
  <2>5. \A i \in Invoices : i # j => Backed(i)'
    BY <1>2, <2>1
  <2> QED BY <2>4, <2>5 DEF PaymentBacksInvoice
<1>4. ASSUME NEW j \in Invoices, NEW p \in Payments, RecordPayment(j, p)
      PROVE  PaymentBacksInvoice'
  <2>1. /\ payment'[p] = [status |-> "approved", invoice |-> j, reversed |-> FALSE]
        /\ \A q \in Payments : q # p => payment'[q] = payment[q]
        /\ payment[p].status = "none" /\ invoice[j].status = "issued"
        /\ invoice'[j].status = "paid"
        /\ \A i \in Invoices : i # j => invoice'[i] = invoice[i]
    BY <1>1, <1>4 DEF RecordPayment, Moves, PaymentRow, InvoiceRow
  <2>2. Backing(j, "approved") = {} /\ Backing(j, "submitted") = {}
    BY <1>1, <2>1
  <2>3. Backing(j, "approved")' = {p} /\ Backing(j, "submitted")' = {}
    BY <2>1, <2>2 DEF Backing
  <2>4. Backed(j)'
    BY <2>1, <2>3 DEF ExactlyOne
  <2>5. \A i \in Invoices : i # j => Backed(i)'
    BY <1>2, <2>1
  <2> QED BY <2>4, <2>5 DEF PaymentBacksInvoice
<1>5. ASSUME NEW p \in Payments, Approve(p) \/ Reject(p)
      PROVE  PaymentBacksInvoice'
  <2>1. PICK j \in Invoices : j = payment[p].invoice /\ p \in Backing(j, "submitted")
    BY <1>5 DEF Approve, Reject, Consistent, PaymentsBelong, Backing
  <2>2. /\ invoice[j].status = "proof_submitted" /\ Backing(j, "submitted") = {p}
        /\ Backing(j, "approved") = {}
    BY <1>1, <2>1 DEF ExactlyOne
  <2>3. /\ \A q \in Payments : q # p => payment'[q] = payment[q]
        /\ payment'[p].invoice = j /\ payment'[p].reversed = payment[p].reversed
        /\ \A i \in Invoices : i # j => invoice'[i] = invoice[i]
        /\ \/ payment'[p].status = "approved" /\ invoice'[j].status = "paid"
           \/ payment'[p].status = "rejected" /\ invoice'[j].status = "issued"
    BY <1>1, <1>5, <2>1, <2>2 DEF Approve, Reject, Moves, PaymentRow, InvoiceRow
  <2>4. Backing(j, "submitted")' = {}
    BY <2>2, <2>3 DEF Backing
  <2>5. Backing(j, "approved")' = IF payment'[p].status = "approved" THEN {p} ELSE {}
    BY <2>1, <2>2, <2>3 DEF Backing
  <2>6. Backed(j)'
    BY <2>3, <2>4, <2>5 DEF ExactlyOne
  <2>7. \A i \in Invoices : i # j => Backed(i)'
    BY <1>2, <2>1, <2>3
  <2> QED BY <2>6, <2>7 DEF PaymentBacksInvoice
<1>6. ASSUME NEW p \in Payments, Reverse(p)
      PROVE  PaymentBacksInvoice'
  <2>1. PICK j \in Invoices : j = payment[p].invoice /\ p \in Backing(j, "approved")
    BY <1>6 DEF Reverse, Reversible, Consistent, PaymentsBelong, Backing
  <2>2. /\ invoice[j].status = "paid" /\ Backing(j, "approved") = {p}
        /\ Backing(j, "submitted") = {}
    BY <1>1, <2>1 DEF ExactlyOne
  <2>3. /\ \A q \in Payments : q # p => payment'[q] = payment[q]
        /\ payment'[p].invoice = j /\ payment'[p].reversed = TRUE
        /\ \A i \in Invoices : i # j => invoice'[i] = invoice[i]
        /\ invoice'[j].status = "issued"
    BY <1>1, <1>6, <2>1, <2>2 DEF Reverse, Moves, PaymentRow, InvoiceRow
  <2>4. Backing(j, "submitted")' = {} /\ Backing(j, "approved")' = {}
    BY <2>2, <2>3 DEF Backing
  <2>5. Backed(j)'
    BY <2>3, <2>4
  <2>6. \A i \in Invoices : i # j => Backed(i)'
    BY <1>2, <2>1, <2>3
  <2> QED BY <2>5, <2>6 DEF PaymentBacksInvoice
<1>7. ASSUME payment' = payment,
             \A i \in Invoices : /\ invoice'[i].status = "paid" <=> invoice[i].status = "paid"
                                 /\ invoice'[i].status = "proof_submitted"
                                       <=> invoice[i].status = "proof_submitted"
      PROVE  PaymentBacksInvoice'
  BY <1>1, <1>7 DEF PaymentBacksInvoice, Backing
<1>8. ASSUME NEW j \in Invoices, IssueInvoice(j)
      PROVE  PaymentBacksInvoice'
  BY <1>1, <1>7, <1>8 DEF IssueInvoice
<1> QED BY <1>3, <1>4, <1>5, <1>6, <1>7, <1>8 DEF Next, vars, SetSelection, ReadStatuses,
           WriteStatuses, ReadDueLines, SkipInvoice, BeginUpload, EndUpload, Tick

\* A paid invoice has exactly one payment that stands and one under review exactly one proof,
\* with any number of uploads, admins and reversals at once.
THEOREM PaymentsAgreeWithInvoices == Spec => []PaymentBacksInvoice
<1>1. Init => PaymentBacksInvoice
  BY DEF Init, PaymentBacksInvoice, Backing
<1>2. (TypeOK /\ Consistent) /\ (TypeOK /\ Consistent)' /\ PaymentBacksInvoice /\ [Next]_vars
          => PaymentBacksInvoice'
  BY PaymentBacksInvoicePreserved
<1> QED BY <1>1, <1>2, AlwaysConsistent, PTL DEF Spec

=============================================================================
