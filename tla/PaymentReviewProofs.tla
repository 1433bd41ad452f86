------------------------- MODULE PaymentReviewProofs -------------------------
(***************************************************************************)
(* Proofs about PaymentReview, for any number of proofs and of requests in *)
(* flight, any price and any amounts, with the server stopping or not.     *)
(*                                                                         *)
(* The argument: one proof is pending at a time (OnePending), and while a  *)
(* proof that was read as awaiting is still pending, no other proof can    *)
(* have confirmed the booking (StillUnpaid).  So a request's stale reading *)
(* of the booking is harmless exactly as long as its claim succeeds.       *)
(***************************************************************************)
EXTENDS MCPaymentReview, TLAPS

Reviews == {"approve", "reject", "acknowledge"}

OnePending ==
    \A p, q \in Payments : verdict[p] = "pending" /\ verdict[q] = "pending" => p = q

\* A review remembers a proof that exists; a rejection knows whether it may cancel.
ReviewsKnowTheirProof ==
    \A r \in Requests :
        /\ req[r].op \in Reviews \cup {"queue_excess", "leave_trail"} =>
              req[r].payment \in Payments /\ verdict[req[r].payment] # "none"
        /\ req[r].op = "reject" => AwaitingIn(req[r].seen, req[r].payment)

StillUnpaid ==
    \A r \in Requests :
        req[r].op = "reject" /\ req[r].seen \in AwaitingStates
            /\ verdict[req[r].payment] = "pending" => status # "booked"

\* Who has read the booking as booked never finds it awaiting again.
BookedForGood ==
    \A r \in Requests : req[r].seen = "booked" => status \notin AwaitingStates

\* Before it is booked, a booking has neither money nor an approved advance.
NothingPaidYet ==
    status \in AwaitingStates =>
        /\ paid = 0
        /\ \A p \in Payments : ~(verdict[p] = "approved" /\ purpose[p] = "advance")

Consistent == OnePending /\ ReviewsKnowTheirProof /\ StillUnpaid /\ BookedForGood
                /\ NothingPaidYet

-----------------------------------------------------------------------------

\* The cap of confirm_booking keeps a credit between zero and the price.
LEMMA CreditBounds ==
    ASSUME NEW amount \in Nat
    PROVE  CappedCredit(amount) \in 0 .. Price /\ amount - CappedCredit(amount) \in Nat
  BY MoneyAssumption DEF CappedCredit, Lesser

\* What advance_only accepts and holds back are both amounts.
LEMMA AcceptedBounds ==
    ASSUME NEW amount \in Nat, NEW only \in BOOLEAN
    PROVE  Accepted(amount, only) \in Nat /\ HeldBack(amount, only) \in Nat
  BY MoneyAssumption DEF Accepted, HeldBack, Lesser

\* Every step keeps the types: the amounts a request carries are amounts, and a booking
\* that can still be confirmed has no money on it yet.
LEMMA TypePreserved ==
    ASSUME TypeOK, Consistent, [Next]_vars
    PROVE  TypeOK'
<1> USE DEF TypeOK, RequestType, Operations, Live, AwaitingStates, Reasons,
        booking, proofs, money, disputes
<1>1. Amounts \subseteq Nat /\ Price \in Nat /\ Advance \in Nat
  BY MoneyAssumption
<1>2. \A r \in Requests :
         /\ req[r] \in RequestType
         /\ req[r].op \in Reviews \cup {"queue_excess", "leave_trail"} =>
               req[r].payment \in Payments
  BY DEF Consistent, ReviewsKnowTheirProof
<1>3. status \in AwaitingStates => paid = 0
  BY DEF Consistent, NothingPaidYet
<1>4. CASE UNCHANGED vars
  BY <1>4 DEF vars
<1>5. CASE HoldRunsOut
  BY <1>5 DEF HoldRunsOut
<1>6. ASSUME NEW flagged \in BOOLEAN, ExpireStaleBooking(flagged)
      PROVE  TypeOK'
  BY <1>6 DEF ExpireStaleBooking
<1>7. ASSUME NEW r \in Requests, BeginSubmit(r)
      PROVE  TypeOK'
  BY <1>7 DEF BeginSubmit, Continue, Loaded
<1>8. ASSUME NEW r \in Requests, ExpireHoldNow(r)
      PROVE  TypeOK'
  BY <1>8 DEF ExpireHoldNow, Continue
<1>9. ASSUME NEW r \in Requests, SubmitRefused(r)
      PROVE  TypeOK'
  BY <1>9 DEF SubmitRefused, Answer, Idle
<1>10. ASSUME NEW r \in Requests, NEW p \in Payments, NEW a \in Amounts, RecordLateProof(r, p, a)
      PROVE  TypeOK'
  BY <1>10, <1>1 DEF RecordLateProof, InsertProof, Answer, Idle
<1>11. ASSUME NEW r \in Requests, NEW p \in Payments, NEW a \in Amounts, SubmitForReview(r, p, a)
      PROVE  TypeOK'
  BY <1>11, <1>1 DEF SubmitForReview, InsertProof, Answer, Idle
<1>12. ASSUME NEW r \in Requests, NEW p \in Payments, AutoApprove(r, p)
      PROVE  TypeOK'
  <2>1. CappedCredit(Advance) \in 0 .. Price
    BY <1>1, CreditBounds
  <2>2. paid' \in 0 .. Price
    <3>1. paid = 0 /\ paid' = paid + CappedCredit(Advance)
      BY <1>3, <1>12 DEF AutoApprove, Confirmable
    <3>2. QED
      BY <1>1, <2>1, <3>1
  <2>3. QED
    BY <1>1, <1>12, <2>1, <2>2 DEF AutoApprove, InsertProof, Answer, Idle
<1>13. ASSUME NEW r \in Requests, NEW p \in Payments, NEW op \in Reviews, BeginReview(r, p, op)
      PROVE  TypeOK'
  BY <1>13, <1>1 DEF BeginReview, Reviews, Continue, Loaded, BalanceDue
<1>14. ASSUME NEW r \in Requests, NEW a \in Amounts, ApproveBalance(r, a)
      PROVE  TypeOK'
  BY <1>14, <1>1, <1>2 DEF ApproveBalance, Review, Credit, Lesser, BalanceDue, Answer, Idle, Reviews
<1>15. ASSUME NEW r \in Requests, NEW a \in Amounts, NEW only \in BOOLEAN, ApproveAdvance(r, a, only)
      PROVE  TypeOK'
  <2> DEFINE accepted == Accepted(a, only)
  <2>1. accepted \in Nat /\ HeldBack(a, only) \in Nat
    BY <1>1, AcceptedBounds
  <2>2. CappedCredit(accepted) \in 0 .. Price /\ accepted - CappedCredit(accepted) \in Nat
    BY <2>1, CreditBounds
  <2>3. req' \in [Requests -> RequestType]
    <3>1. CASE HeldBack(a, only) > 0
      <4> DEFINE next == [req[r] EXCEPT !.op = "queue_excess", !.due = HeldBack(a, only)]
      <4>1. next \in RequestType
        BY <1>2, <2>1
      <4>2. req' = [req EXCEPT ![r] = next]
        BY <1>15, <3>1 DEF ApproveAdvance, Continue
      <4>3. QED
        BY <4>1, <4>2
    <3>2. CASE ~(HeldBack(a, only) > 0)
      BY <1>15, <3>2 DEF ApproveAdvance, Answer, Idle
    <3>3. QED
      BY <3>1, <3>2
  <2>4. paid' = CappedCredit(accepted) /\ paid' \in 0 .. Price
    <3>1. paid = 0 /\ paid' = paid + CappedCredit(accepted)
      BY <1>3, <1>15 DEF ApproveAdvance, Credit, Confirmable
    <3>2. QED
      BY <1>1, <2>2, <3>1
  <2>8. credited' \in [Payments -> Nat] /\ confirmed' \in [Payments -> Nat]
    <3>1. CappedCredit(accepted) \in Nat /\ a \in Nat
      BY <1>1, <2>2
    <3>2. /\ credited' = [credited EXCEPT ![req[r].payment] = CappedCredit(accepted)]
          /\ confirmed' = [confirmed EXCEPT ![req[r].payment] = a]
      BY <1>15 DEF ApproveAdvance, Credit
    <3>3. QED
      BY <3>1, <3>2
  <2>5. owed' \in [Reasons -> Nat]
    BY <1>15, <2>2 DEF ApproveAdvance, Owe
  <2>6. verdict' \in [Payments -> {"none", "pending", "approved", "rejected", "acknowledged"}]
    BY <1>15 DEF ApproveAdvance, Review
  <2>7. QED
    BY <1>15, <2>3, <2>4, <2>5, <2>6, <2>8 DEF ApproveAdvance
<1>16. ASSUME NEW r \in Requests, QueueExcess(r)
      PROVE  TypeOK'
  BY <1>16, <1>1, <1>2 DEF QueueExcess, Owe, Answer, Idle, Reviews
<1>17. ASSUME NEW r \in Requests, Reject(r)
      PROVE  TypeOK'
  <2>1. verdict' \in [Payments -> {"none", "pending", "approved", "rejected", "acknowledged"}]
    BY <1>17 DEF Reject, Review
  <2>2. req' \in [Requests -> RequestType]
    <3> DEFINE next == [req[r] EXCEPT !.op = "leave_trail"]
    <3>1. next \in RequestType
      BY <1>2
    <3>2. req' = [req EXCEPT ![r] = next] \/ req' = [req EXCEPT ![r] = Idle]
      BY ONLY <1>17 DEF Reject, Continue, Answer
    <3>3. Idle \in RequestType
      BY DEF Idle, Reviews
    <3>4. QED
      BY <3>1, <3>2, <3>3
  <2>3. QED
    <3>1. /\ status' \in {"held", "payment_submitted", "booked", "cancelled"}
          /\ ended' \in {"open", "by_person", "hold_expired", "payment_review_expired"}
      BY <1>17 DEF Reject
    <3>2. trail' \subseteq Payments
      BY <1>17, <1>2 DEF Reject, Reviews
    <3>3. QED
      BY <1>17, <2>1, <2>2, <3>1, <3>2 DEF Reject
<1>18. ASSUME NEW r \in Requests, LeaveTrail(r)
      PROVE  TypeOK'
  BY <1>18, <1>2 DEF LeaveTrail, Answer, Idle, Reviews
<1>19. ASSUME NEW r \in Requests, ReviewRefused(r)
      PROVE  TypeOK'
  BY <1>19 DEF ReviewRefused, Answer, Idle
<1>20. ASSUME NEW r \in Requests, NEW received \in BOOLEAN, Acknowledge(r, received)
      PROVE  TypeOK'
  BY <1>20, <1>1, <1>2 DEF Acknowledge, Review, Owe, Answer, Idle, Reviews
<1>21. ASSUME NEW r \in Requests, NEW by \in {"player", "owner"}, BeginCancel(r, by)
      PROVE  TypeOK'
  BY <1>21 DEF BeginCancel, Continue, Loaded
<1>22. ASSUME NEW r \in Requests, Cancel(r)
      PROVE  TypeOK'
  BY <1>22 DEF Cancel, Owe, Answer, Idle
<1>23. ASSUME NEW r \in Requests, CancelFindsNothing(r)
      PROVE  TypeOK'
  BY <1>23 DEF CancelFindsNothing, Answer, Idle
<1>24. ASSUME NEW r \in Requests, NEW a \in RefundAmounts, BeginRefundRequest(r, a)
      PROVE  TypeOK'
  BY <1>24 DEF BeginRefundRequest, RefundAmounts, Continue, Loaded
<1>25. ASSUME NEW r \in Requests, RequestRefund(r)
      PROVE  TypeOK'
  BY <1>25, <1>2 DEF RequestRefund, Owe, Answer, Idle, Reviews
<1>26. ASSUME NEW r \in Requests, Crash(r)
      PROVE  TypeOK'
  BY <1>26 DEF Crash, Answer, Idle
<1>27. QED
  BY ONLY [Next]_vars, <1>4, <1>5, <1>6, <1>7, <1>8, <1>9, <1>10, <1>11, <1>12, <1>13,
     <1>14, <1>15, <1>16, <1>17, <1>18, <1>19, <1>20, <1>21, <1>22, <1>23, <1>24, <1>25, <1>26
     DEF Next, Step, Reviews

-----------------------------------------------------------------------------

Core == Consistent /\ RejectionReleasesSlot /\ BookedOnOneAdvance

\* Every step keeps the core: who may confirm, who may reject and what each of them still
\* finds when it commits.
LEMMA CorePreserved ==
    ASSUME TypeOK, Core, [Next]_vars
    PROVE  Core'
<1> USE DEF TypeOK, RequestType, Operations, Reviews, Live, AwaitingStates, Core, Consistent,
        OnePending, ReviewsKnowTheirProof, StillUnpaid, BookedForGood, NothingPaidYet,
        RejectionReleasesSlot, BookedOnOneAdvance, AwaitingIn,
        booking, proofs, money, disputes
<1>1. CASE UNCHANGED vars
  BY <1>1 DEF vars
<1>2. CASE HoldRunsOut
  BY <1>2 DEF HoldRunsOut
<1>3. ASSUME NEW flagged \in BOOLEAN, ExpireStaleBooking(flagged)
      PROVE  Core'
  BY <1>3 DEF ExpireStaleBooking
<1>4. ASSUME NEW r \in Requests, BeginSubmit(r)
      PROVE  Core'
  <2>0. \A x \in Requests : x # r => req'[x] = req[x]
    BY <1>4 DEF BeginSubmit, Continue, Answer
  <2>1. OnePending'
    BY <1>4, <2>0 DEF BeginSubmit, Continue, Loaded
  <2>2. ReviewsKnowTheirProof'
    BY <1>4, <2>0 DEF BeginSubmit, Continue, Loaded
  <2>3. StillUnpaid'
    BY <1>4, <2>0 DEF BeginSubmit, Continue, Loaded
  <2>4. BookedForGood'
    BY <1>4, <2>0 DEF BeginSubmit, Continue, Loaded
  <2>5. NothingPaidYet'
    BY <1>4, <2>0 DEF BeginSubmit, Continue, Loaded
  <2>6. RejectionReleasesSlot'
    BY <1>4, <2>0 DEF BeginSubmit, Continue, Loaded
  <2>7. BookedOnOneAdvance'
    BY <1>4, <2>0 DEF BeginSubmit, Continue, Loaded
  <2>8. QED
    BY <2>1, <2>2, <2>3, <2>4, <2>5, <2>6, <2>7
<1>5. ASSUME NEW r \in Requests, ExpireHoldNow(r)
      PROVE  Core'
  <2>0. \A x \in Requests : x # r => req'[x] = req[x]
    BY <1>5 DEF ExpireHoldNow, Continue, Answer
  <2>1. OnePending'
    BY <1>5, <2>0 DEF ExpireHoldNow, Continue
  <2>2. ReviewsKnowTheirProof'
    BY <1>5, <2>0 DEF ExpireHoldNow, Continue
  <2>3. StillUnpaid'
    BY <1>5, <2>0 DEF ExpireHoldNow, Continue
  <2>4. BookedForGood'
    BY <1>5, <2>0 DEF ExpireHoldNow, Continue
  <2>5. NothingPaidYet'
    BY <1>5, <2>0 DEF ExpireHoldNow, Continue
  <2>6. RejectionReleasesSlot'
    BY <1>5, <2>0 DEF ExpireHoldNow, Continue
  <2>7. BookedOnOneAdvance'
    BY <1>5, <2>0 DEF ExpireHoldNow, Continue
  <2>8. QED
    BY <2>1, <2>2, <2>3, <2>4, <2>5, <2>6, <2>7
<1>6. ASSUME NEW r \in Requests, SubmitRefused(r)
      PROVE  Core'
  BY <1>6 DEF SubmitRefused, Answer, Idle
<1>7. ASSUME NEW r \in Requests, NEW p \in Payments, NEW a \in Amounts, RecordLateProof(r, p, a)
      PROVE  Core'
  <2>0. verdict[p] = "none" /\ \A x \in Requests : req'[x] \in {req[x], Idle}
    BY <1>7, MoneyAssumption DEF RecordLateProof, InsertProof, Answer
  <2>1. OnePending'
    BY <1>7, <2>0 DEF RecordLateProof, InsertProof, ProofPending, Answer, Idle
  <2>2. ReviewsKnowTheirProof'
    BY <1>7, <2>0 DEF RecordLateProof, InsertProof, ProofPending, Answer, Idle
  <2>3. StillUnpaid'
    BY <1>7, <2>0 DEF RecordLateProof, InsertProof, ProofPending, Answer, Idle
  <2>4. BookedForGood'
    BY <1>7, <2>0 DEF RecordLateProof, InsertProof, ProofPending, Answer, Idle
  <2>5. NothingPaidYet'
    BY <1>7, <2>0 DEF RecordLateProof, InsertProof, ProofPending, Answer, Idle
  <2>6. RejectionReleasesSlot'
    BY <1>7, <2>0 DEF RecordLateProof, InsertProof, ProofPending, Answer, Idle
  <2>7. BookedOnOneAdvance'
    BY <1>7, <2>0 DEF RecordLateProof, InsertProof, ProofPending, Answer, Idle
  <2>8. QED
    BY <2>1, <2>2, <2>3, <2>4, <2>5, <2>6, <2>7
<1>8. ASSUME NEW r \in Requests, NEW p \in Payments, NEW a \in Amounts, SubmitForReview(r, p, a)
      PROVE  Core'
  <2>0. verdict[p] = "none" /\ \A x \in Requests : req'[x] \in {req[x], Idle}
    BY <1>8, MoneyAssumption DEF SubmitForReview, InsertProof, Answer
  <2>1. OnePending'
    BY <1>8, <2>0 DEF SubmitForReview, InsertProof, ProofPending, Answer, Idle
  <2>2. ReviewsKnowTheirProof'
    BY <1>8, <2>0 DEF SubmitForReview, InsertProof, ProofPending, Answer, Idle
  <2>3. StillUnpaid'
    BY <1>8, <2>0 DEF SubmitForReview, InsertProof, ProofPending, Answer, Idle
  <2>4. BookedForGood'
    BY <1>8, <2>0 DEF SubmitForReview, InsertProof, ProofPending, Answer, Idle
  <2>5. NothingPaidYet'
    BY <1>8, <2>0 DEF SubmitForReview, InsertProof, ProofPending, Answer, Idle
  <2>6. RejectionReleasesSlot'
    BY <1>8, <2>0 DEF SubmitForReview, InsertProof, ProofPending, Answer, Idle
  <2>7. BookedOnOneAdvance'
    BY <1>8, <2>0 DEF SubmitForReview, InsertProof, ProofPending, Answer, Idle
  <2>8. QED
    BY <2>1, <2>2, <2>3, <2>4, <2>5, <2>6, <2>7
<1>9. ASSUME NEW r \in Requests, NEW p \in Payments, AutoApprove(r, p)
      PROVE  Core'
  <2>0. verdict[p] = "none" /\ \A x \in Requests : req'[x] \in {req[x], Idle}
    BY <1>9, MoneyAssumption DEF AutoApprove, InsertProof, Answer
  <2>1. OnePending'
    BY <1>9, <2>0 DEF AutoApprove, InsertProof, ProofPending, Confirmable, Answer, Idle
  <2>2. ReviewsKnowTheirProof'
    BY <1>9, <2>0 DEF AutoApprove, InsertProof, ProofPending, Confirmable, Answer, Idle
  <2>3. StillUnpaid'
    BY <1>9, <2>0 DEF AutoApprove, InsertProof, ProofPending, Confirmable, Answer, Idle
  <2>4. BookedForGood'
    BY <1>9, <2>0 DEF AutoApprove, InsertProof, ProofPending, Confirmable, Answer, Idle
  <2>5. NothingPaidYet'
    BY <1>9, <2>0 DEF AutoApprove, InsertProof, ProofPending, Confirmable, Answer, Idle
  <2>6. RejectionReleasesSlot'
    BY <1>9, <2>0 DEF AutoApprove, InsertProof, ProofPending, Confirmable, Answer, Idle
  <2>7. BookedOnOneAdvance'
    BY <1>9, <2>0 DEF AutoApprove, InsertProof, ProofPending, Confirmable, Answer, Idle
  <2>8. QED
    BY <2>1, <2>2, <2>3, <2>4, <2>5, <2>6, <2>7
<1>10. ASSUME NEW r \in Requests, NEW p \in Payments, NEW op \in Reviews, BeginReview(r, p, op)
      PROVE  Core'
  <2>0. \A x \in Requests : x # r => req'[x] = req[x]
    BY <1>10 DEF BeginReview, Continue, Answer
  <2>1. OnePending'
    BY <1>10, <2>0 DEF BeginReview, Continue, Loaded
  <2>2. ReviewsKnowTheirProof'
    BY <1>10, <2>0 DEF BeginReview, Continue, Loaded
  <2>3. StillUnpaid'
    BY <1>10, <2>0 DEF BeginReview, Continue, Loaded
  <2>4. BookedForGood'
    BY <1>10, <2>0 DEF BeginReview, Continue, Loaded
  <2>5. NothingPaidYet'
    BY <1>10, <2>0 DEF BeginReview, Continue, Loaded
  <2>6. RejectionReleasesSlot'
    BY <1>10, <2>0 DEF BeginReview, Continue, Loaded
  <2>7. BookedOnOneAdvance'
    BY <1>10, <2>0 DEF BeginReview, Continue, Loaded
  <2>8. QED
    BY <2>1, <2>2, <2>3, <2>4, <2>5, <2>6, <2>7
<1>11. ASSUME NEW r \in Requests, NEW a \in Amounts, ApproveBalance(r, a)
      PROVE  Core'
  <2>0. \A x \in Requests : req'[x] \in {req[x], Idle}
    BY <1>11 DEF ApproveBalance, Answer
  <2>1. OnePending'
    BY <1>11, <2>0 DEF ApproveBalance, Review, Claimable, Credit, Lesser, BalanceDue, Answer, Idle
  <2>2. ReviewsKnowTheirProof'
    BY <1>11, <2>0 DEF ApproveBalance, Review, Claimable, Credit, Lesser, BalanceDue, Answer, Idle
  <2>3. StillUnpaid'
    BY <1>11, <2>0 DEF ApproveBalance, Review, Claimable, Credit, Lesser, BalanceDue, Answer, Idle
  <2>4. BookedForGood'
    BY <1>11, <2>0 DEF ApproveBalance, Review, Claimable, Credit, Lesser, BalanceDue, Answer, Idle
  <2>5. NothingPaidYet'
    BY <1>11, <2>0 DEF ApproveBalance, Review, Claimable, Credit, Lesser, BalanceDue, Answer, Idle
  <2>6. RejectionReleasesSlot'
    BY <1>11, <2>0 DEF ApproveBalance, Review, Claimable, Credit, Lesser, BalanceDue, Answer, Idle
  <2>7. BookedOnOneAdvance'
    BY <1>11, <2>0 DEF ApproveBalance, Review, Claimable, Credit, Lesser, BalanceDue, Answer, Idle
  <2>8. QED
    BY <2>1, <2>2, <2>3, <2>4, <2>5, <2>6, <2>7
<1>12. ASSUME NEW r \in Requests, NEW a \in Amounts, NEW only \in BOOLEAN, ApproveAdvance(r, a, only)
      PROVE  Core'
  <2>0. /\ \A x \in Requests : x # r => req'[x] = req[x]
        /\ req'[r].op \in {"idle", "queue_excess", "leave_trail"}
        /\ req'[r].payment \in {req[r].payment, NoPayment}
        /\ req'[r].op # "idle" => req'[r].payment = req[r].payment
    <3>1. CASE HeldBack(a, only) > 0
      <4>1. req' = [req EXCEPT ![r] = [req[r] EXCEPT !.op = "queue_excess", !.due = HeldBack(a, only)]]
        BY <1>12, <3>1 DEF ApproveAdvance, Continue
      <4>2. QED
        BY <4>1
    <3>2. CASE ~(HeldBack(a, only) > 0)
      BY <1>12, <3>2 DEF ApproveAdvance, Answer, Idle
    <3>3. QED
      BY <3>1, <3>2
  <2>1. OnePending'
    BY <1>12, <2>0 DEF ApproveAdvance, Review, Claimable, Confirmable, Credit, Owe, Continue, Answer, Idle
  <2>2. ReviewsKnowTheirProof'
    BY <1>12, <2>0 DEF ApproveAdvance, Review, Claimable, Confirmable, Credit, Owe, Continue, Answer, Idle
  <2>3. StillUnpaid'
    BY <1>12, <2>0 DEF ApproveAdvance, Review, Claimable, Confirmable, Credit, Owe, Continue, Answer, Idle
  <2>4. BookedForGood'
    BY <1>12, <2>0 DEF ApproveAdvance, Review, Claimable, Confirmable, Credit, Owe, Continue, Answer, Idle
  <2>5. NothingPaidYet'
    BY <1>12, <2>0 DEF ApproveAdvance, Review, Claimable, Confirmable, Credit, Owe, Continue, Answer, Idle
  <2>6. RejectionReleasesSlot'
    BY <1>12, <2>0 DEF ApproveAdvance, Review, Claimable, Confirmable, Credit, Owe, Continue, Answer, Idle
  <2>7. BookedOnOneAdvance'
    BY <1>12, <2>0 DEF ApproveAdvance, Review, Claimable, Confirmable, Credit, Owe, Continue, Answer, Idle
  <2>8. QED
    BY <2>1, <2>2, <2>3, <2>4, <2>5, <2>6, <2>7
<1>13. ASSUME NEW r \in Requests, QueueExcess(r)
      PROVE  Core'
  <2>0. \A x \in Requests : req'[x] \in {req[x], Idle}
    BY <1>13 DEF QueueExcess, Answer
  <2>1. OnePending'
    BY <1>13, <2>0 DEF QueueExcess, Owe, Answer, Idle
  <2>2. ReviewsKnowTheirProof'
    BY <1>13, <2>0 DEF QueueExcess, Owe, Answer, Idle
  <2>3. StillUnpaid'
    BY <1>13, <2>0 DEF QueueExcess, Owe, Answer, Idle
  <2>4. BookedForGood'
    BY <1>13, <2>0 DEF QueueExcess, Owe, Answer, Idle
  <2>5. NothingPaidYet'
    BY <1>13, <2>0 DEF QueueExcess, Owe, Answer, Idle
  <2>6. RejectionReleasesSlot'
    BY <1>13, <2>0 DEF QueueExcess, Owe, Answer, Idle
  <2>7. BookedOnOneAdvance'
    BY <1>13, <2>0 DEF QueueExcess, Owe, Answer, Idle
  <2>8. QED
    BY <2>1, <2>2, <2>3, <2>4, <2>5, <2>6, <2>7
<1>14. ASSUME NEW r \in Requests, Reject(r)
      PROVE  Core'
  <2>0. /\ \A x \in Requests : x # r => req'[x] = req[x]
        /\ req'[r].op \in {"idle", "queue_excess", "leave_trail"}
        /\ req'[r].payment \in {req[r].payment, NoPayment}
        /\ req'[r].op # "idle" => req'[r].payment = req[r].payment
    BY <1>14 DEF Reject, Continue, Answer, Idle
  <2>1. OnePending'
    BY <1>14, <2>0 DEF Reject, RejectionCancels, Review, Claimable, Continue, Answer, Idle
  <2>2. ReviewsKnowTheirProof'
    BY <1>14, <2>0 DEF Reject, RejectionCancels, Review, Claimable, Continue, Answer, Idle
  <2>3. StillUnpaid'
    BY <1>14, <2>0 DEF Reject, RejectionCancels, Review, Claimable, Continue, Answer, Idle
  <2>4. BookedForGood'
    BY <1>14, <2>0 DEF Reject, RejectionCancels, Review, Claimable, Continue, Answer, Idle
  <2>5. NothingPaidYet'
    BY <1>14, <2>0 DEF Reject, RejectionCancels, Review, Claimable, Continue, Answer, Idle
  <2>6. RejectionReleasesSlot'
    BY <1>14, <2>0 DEF Reject, RejectionCancels, Review, Claimable, Continue, Answer, Idle
  <2>7. BookedOnOneAdvance'
    BY <1>14, <2>0 DEF Reject, RejectionCancels, Review, Claimable, Continue, Answer, Idle
  <2>8. QED
    BY <2>1, <2>2, <2>3, <2>4, <2>5, <2>6, <2>7
<1>15. ASSUME NEW r \in Requests, LeaveTrail(r)
      PROVE  Core'
  BY <1>15 DEF LeaveTrail, Answer, Idle
<1>16. ASSUME NEW r \in Requests, ReviewRefused(r)
      PROVE  Core'
  BY <1>16 DEF ReviewRefused, Answer, Idle
<1>17. ASSUME NEW r \in Requests, NEW received \in BOOLEAN, Acknowledge(r, received)
      PROVE  Core'
  BY <1>17 DEF Acknowledge, Review, Claimable, Owe, Answer, Idle
<1>18. ASSUME NEW r \in Requests, NEW by \in {"player", "owner"}, BeginCancel(r, by)
      PROVE  Core'
  BY <1>18 DEF BeginCancel, Continue, Loaded
<1>19. ASSUME NEW r \in Requests, Cancel(r)
      PROVE  Core'
  BY <1>19 DEF Cancel, Cancellable, Answer, Idle
<1>20. ASSUME NEW r \in Requests, CancelFindsNothing(r)
      PROVE  Core'
  BY <1>20 DEF CancelFindsNothing, Answer, Idle
<1>21. ASSUME NEW r \in Requests, NEW a \in RefundAmounts, BeginRefundRequest(r, a)
      PROVE  Core'
  BY <1>21 DEF BeginRefundRequest, Continue, Loaded
<1>22. ASSUME NEW r \in Requests, RequestRefund(r)
      PROVE  Core'
  BY <1>22 DEF RequestRefund, Owe, Answer, Idle
<1>23. ASSUME NEW r \in Requests, Crash(r)
      PROVE  Core'
  BY <1>23 DEF Crash, Answer, Idle
<1>24. QED
  BY ONLY [Next]_vars, <1>1, <1>2, <1>3, <1>4, <1>5, <1>6, <1>7, <1>8, <1>9, <1>10, <1>11,
     <1>12, <1>13, <1>14, <1>15, <1>16, <1>17, <1>18, <1>19, <1>20, <1>21, <1>22, <1>23
     DEF Next, Step, Reviews

\* A booking that was just held has no proof, no money and no request in flight.
LEMMA Initially == Init => TypeOK /\ Core
<1> SUFFICES ASSUME Init PROVE TypeOK /\ Core
  OBVIOUS
<1>1. TypeOK
  <2>1. Idle \in RequestType
    BY DEF Idle, RequestType, Live, AwaitingStates
  <2>2. req \in [Requests -> RequestType]
    BY <2>1 DEF Init
  <2>3. paid \in 0 .. Price
    BY MoneyAssumption DEF Init
  <2>4. lapsed \in BOOLEAN
    BY DEF Init
  <2>5. QED
    BY <2>2, <2>3, <2>4 DEF Init, TypeOK, Live, AwaitingStates
<1>2. Core
  BY DEF Init, Core, Consistent, OnePending, ReviewsKnowTheirProof, StillUnpaid, BookedForGood,
         NothingPaidYet, RejectionReleasesSlot, BookedOnOneAdvance, Idle, AwaitingStates, Reviews
<1>3. QED
  BY <1>1, <1>2

\* The inductive invariant: the types and the core hold in every state of every behaviour.
LEMMA Invariance == Spec => [](TypeOK /\ Core)
<1>1. TypeOK /\ Core /\ [Next]_vars => (TypeOK /\ Core)'
  BY TypePreserved, CorePreserved DEF Core
<1>2. QED
  BY <1>1, Initially, PTL DEF Spec

\* The columns and the requests always have their types; the balance is never negative.
THEOREM TypeCorrect == Spec => []TypeOK
  BY Invariance, PTL

\* Rejecting an advance releases the slot, whatever else is in flight.
THEOREM RejectionsReleaseSlots == Spec => []RejectionReleasesSlot
<1>1. Core => RejectionReleasesSlot
  BY DEF Core
<1>2. QED
  BY <1>1, Invariance, PTL

\* A booking is confirmed by one advance and never by a second.
THEOREM ConfirmedOnce == Spec => []BookedOnOneAdvance
<1>1. Core => BookedOnOneAdvance
  BY DEF Core
<1>2. QED
  BY <1>1, Invariance, PTL

\* What a step may do to the verdicts: nothing, or settle one proof that is new or pending;
\* and it takes a booked slot together with a verdict only as a rejection.
LEMMA VerdictSteps ==
    ASSUME TypeOK, [Next]_vars
    PROVE  \/ UNCHANGED verdict
           \/ /\ \E p \in DOMAIN verdict, v \in {"pending", "approved", "rejected", "acknowledged"} :
                    verdict[p] \in {"none", "pending"} /\ verdict' = [verdict EXCEPT ![p] = v]
              /\ \/ status' # "cancelled" \/ status # "booked"
                 \/ \E r \in Requests : Reject(r)
<1> DEFINE Settles == \E p \in DOMAIN verdict, v \in {"pending", "approved", "rejected", "acknowledged"} :
               verdict[p] \in {"none", "pending"} /\ verdict' = [verdict EXCEPT ![p] = v]
           Goal == UNCHANGED verdict \/ (Settles /\ (\/ status' # "cancelled" \/ status # "booked"
                                                     \/ \E r \in Requests : Reject(r)))
<1> USE DEF proofs, booking
<1>0. \A p \in Payments : p >= p
  BY MoneyAssumption
<1>1. CASE UNCHANGED vars
  BY <1>1 DEF vars
<1>2. ASSUME NEW flagged \in BOOLEAN, HoldRunsOut \/ ExpireStaleBooking(flagged)
      PROVE  Goal
  BY <1>2 DEF HoldRunsOut, ExpireStaleBooking
<1>3. ASSUME NEW r \in Requests,
             \/ BeginSubmit(r) \/ ExpireHoldNow(r) \/ SubmitRefused(r) \/ QueueExcess(r)
             \/ LeaveTrail(r) \/ ReviewRefused(r) \/ Cancel(r) \/ CancelFindsNothing(r)
             \/ RequestRefund(r) \/ Crash(r)
             \/ \E p \in Payments, op \in {"approve", "reject", "acknowledge"} : BeginReview(r, p, op)
             \/ \E by \in {"player", "owner"} : BeginCancel(r, by)
             \/ \E a \in RefundAmounts : BeginRefundRequest(r, a)
      PROVE  Goal
  BY <1>3 DEF BeginSubmit, ExpireHoldNow, SubmitRefused, QueueExcess, LeaveTrail, ReviewRefused,
              Cancel, CancelFindsNothing, RequestRefund, Crash, BeginReview, BeginCancel,
              BeginRefundRequest
<1>4. ASSUME NEW r \in Requests, NEW p \in Payments, NEW a \in Amounts, RecordLateProof(r, p, a)
      PROVE  Goal
  <2>1. p \in DOMAIN verdict /\ verdict[p] = "none" /\ verdict' = [verdict EXCEPT ![p] = "pending"]
    BY <1>0, <1>4 DEF RecordLateProof, InsertProof, TypeOK
  <2>2. UNCHANGED status
    BY <1>4 DEF RecordLateProof
  <2>3. QED
    BY <2>1, <2>2
<1>5. ASSUME NEW r \in Requests, NEW p \in Payments, NEW a \in Amounts, SubmitForReview(r, p, a)
      PROVE  Goal
  <2>1. p \in DOMAIN verdict /\ verdict[p] = "none" /\ verdict' = [verdict EXCEPT ![p] = "pending"]
    BY <1>0, <1>5 DEF SubmitForReview, InsertProof, TypeOK
  <2>2. status' \in {status, "payment_submitted"}
    BY <1>5 DEF SubmitForReview
  <2>3. QED
    BY <2>1, <2>2
<1>6. ASSUME NEW r \in Requests, NEW p \in Payments, AutoApprove(r, p)
      PROVE  Goal
  <2>1. p \in DOMAIN verdict /\ verdict[p] = "none" /\ verdict' = [verdict EXCEPT ![p] = "approved"]
    BY <1>0, <1>6 DEF AutoApprove, InsertProof, TypeOK
  <2>2. status' = "booked"
    BY <1>6 DEF AutoApprove
  <2>3. QED
    BY <2>1, <2>2
<1>7. ASSUME NEW r \in Requests,
             NEW v \in {"approved", "rejected", "acknowledged"}, Review(req[r].payment, v)
      PROVE  Settles \/ UNCHANGED verdict
  BY <1>7 DEF Review, Claimable, TypeOK
<1>8. ASSUME NEW r \in Requests, NEW a \in Amounts, ApproveBalance(r, a)
      PROVE  Goal
  BY <1>7, <1>8 DEF ApproveBalance
<1>9. ASSUME NEW r \in Requests, NEW a \in Amounts, NEW only \in BOOLEAN, ApproveAdvance(r, a, only)
      PROVE  Goal
  BY <1>7, <1>9 DEF ApproveAdvance
<1>10. ASSUME NEW r \in Requests, Reject(r)
      PROVE  Goal
  <2>1. Settles \/ UNCHANGED verdict
    BY <1>7, <1>10 DEF Reject
  <2>2. QED
    BY <1>10, <2>1
<1>11. ASSUME NEW r \in Requests, NEW received \in BOOLEAN, Acknowledge(r, received)
      PROVE  Goal
  BY <1>7, <1>11 DEF Acknowledge
<1>12. QED
  BY ONLY [Next]_vars, <1>1, <1>2, <1>3, <1>4, <1>5, <1>6, <1>8, <1>9, <1>10, <1>11 DEF Next, Step

\* Of all the reviews of one proof in flight, one takes effect and stays.
THEOREM FirstReviewIsFinal == Spec => FirstReviewWins
<1>1. TypeOK /\ [Next]_vars =>
         [\A p \in Payments : verdict[p] \notin {"none", "pending"} => verdict'[p] = verdict[p]]_vars
  BY VerdictSteps DEF TypeOK
<1>2. QED
  BY <1>1, TypeCorrect, PTL DEF Spec, FirstReviewWins

\* A review never takes the slot away from a booking that is booked: by StillUnpaid, a
\* rejection that may cancel and can still claim its proof finds the booking unpaid.
THEOREM PaidSlotIsSpared == Spec => ReviewSparesPaidSlot
<1>1. ASSUME TypeOK, Core, NEW r \in Requests, Reject(r), status = "booked"
      PROVE  status' = "booked"
  BY <1>1 DEF Reject, RejectionCancels, Review, Claimable, Core, Consistent, StillUnpaid,
              AwaitingStates, Live
<1>2. TypeOK /\ Core /\ [Next]_vars =>
         [status = "booked" /\ status' = "cancelled" => UNCHANGED verdict]_vars
  BY <1>1, VerdictSteps
<1>3. QED
  BY <1>2, Invariance, PTL DEF Spec, ReviewSparesPaidSlot

-----------------------------------------------------------------------------
(* What a cancel owes                                                      *)

\* Only a cancelled booking owes for its cancel, and never more than was paid.
CancelOwed ==
    /\ status # "cancelled" => owed["cancelled_paid_booking"] = 0
    /\ owed["cancelled_paid_booking"] <= paid

\* Nothing but a cancel owes for one; a cancelled booking stays cancelled; money stays paid.
LEMMA CancelOwedSteps ==
    ASSUME TypeOK, Core, [Next]_vars
    PROVE  \/ \E r \in Requests : Cancel(r)
           \/ /\ owed'["cancelled_paid_booking"] = owed["cancelled_paid_booking"]
              /\ status = "cancelled" => status' = "cancelled"
              /\ paid' >= paid
<1> DEFINE Quiet == /\ owed'["cancelled_paid_booking"] = owed["cancelled_paid_booking"]
                    /\ status = "cancelled" => status' = "cancelled"
                    /\ paid' >= paid
<1> USE DEF proofs, booking, money, disputes
<1>1. paid \in Int /\ Amounts \subseteq Nat /\ Advance \in Nat /\ owed \in [Reasons -> Nat]
  BY MoneyAssumption DEF TypeOK
<1>2. ASSUME UNCHANGED <<owed, status, paid>>
      PROVE  Quiet
  BY <1>1, <1>2
<1>3. ASSUME NEW flagged \in BOOLEAN, HoldRunsOut \/ ExpireStaleBooking(flagged)
      PROVE  Quiet
  BY <1>1, <1>3 DEF HoldRunsOut, ExpireStaleBooking
<1>4. ASSUME NEW r \in Requests,
             \/ BeginSubmit(r) \/ SubmitRefused(r) \/ LeaveTrail(r) \/ ReviewRefused(r)
             \/ CancelFindsNothing(r) \/ Crash(r)
             \/ \E p \in Payments, a \in Amounts : RecordLateProof(r, p, a)
             \/ \E p \in Payments, op \in Reviews : BeginReview(r, p, op)
             \/ \E by \in {"player", "owner"} : BeginCancel(r, by)
             \/ \E a \in RefundAmounts : BeginRefundRequest(r, a)
      PROVE  UNCHANGED <<owed, status, paid>>
  BY <1>4 DEF BeginSubmit, SubmitRefused, LeaveTrail, ReviewRefused, CancelFindsNothing, Crash,
              RecordLateProof, BeginReview, BeginCancel, BeginRefundRequest
<1>5. ASSUME NEW r \in Requests,
             \/ ExpireHoldNow(r) \/ Reject(r)
             \/ \E p \in Payments, a \in Amounts : SubmitForReview(r, p, a)
      PROVE  Quiet
  BY <1>1, <1>5 DEF ExpireHoldNow, Reject, SubmitForReview
<1>6. ASSUME NEW r \in Requests, NEW p \in Payments, AutoApprove(r, p)
      PROVE  Quiet
  <2>1. CappedCredit(Advance) \in Nat
    BY MoneyAssumption DEF CappedCredit, Lesser
  <2>2. QED
    BY <1>1, <1>6, <2>1 DEF AutoApprove, Confirmable, AwaitingStates
<1>7. ASSUME NEW r \in Requests, NEW a \in Amounts, ApproveBalance(r, a)
      PROVE  Quiet
  <2>1. Lesser(a, req[r].due) \in Nat
    BY <1>1 DEF Lesser, TypeOK, RequestType
  <2>2. QED
    BY <1>1, <1>7, <2>1 DEF ApproveBalance, Credit
<1>8. ASSUME NEW r \in Requests, NEW a \in Amounts, NEW only \in BOOLEAN, ApproveAdvance(r, a, only)
      PROVE  Quiet
  <2>1. CappedCredit(Accepted(a, only)) \in Nat
    BY <1>1, MoneyAssumption DEF CappedCredit, Accepted, Lesser
  <2>2. paid' >= paid
    BY <1>1, <1>8, <2>1 DEF ApproveAdvance, Credit
  <2>3. status # "cancelled"
    BY <1>8 DEF ApproveAdvance, Confirmable, AwaitingStates
  <2>4. owed'["cancelled_paid_booking"] = owed["cancelled_paid_booking"]
    BY <1>1, <1>8 DEF ApproveAdvance, Owe, Reasons
  <2>5. QED
    BY <2>2, <2>3, <2>4
<1>9. ASSUME NEW r \in Requests,
             \/ QueueExcess(r) \/ RequestRefund(r)
             \/ \E received \in BOOLEAN : Acknowledge(r, received)
      PROVE  Quiet
  BY <1>1, <1>9 DEF QueueExcess, RequestRefund, Acknowledge, Owe, Reasons
<1>10. QED
  BY ONLY [Next]_vars, <1>2, <1>3, <1>4, <1>5, <1>6, <1>7, <1>8, <1>9 DEF Next, Step, vars, Reviews

LEMMA CancelOwedPreserved ==
    ASSUME TypeOK, Core, CancelOwed, [Next]_vars
    PROVE  CancelOwed'
<1>1. paid \in Nat /\ owed \in [Reasons -> Nat] /\ "cancelled_paid_booking" \in Reasons
  BY MoneyAssumption DEF TypeOK, Reasons
<1>2. ASSUME NEW r \in Requests, Cancel(r)
      PROVE  CancelOwed'
  <2>1. owed["cancelled_paid_booking"] = 0
    BY <1>2 DEF Cancel, Cancellable, Live, AwaitingStates, CancelOwed
  <2>2. /\ owed' = [owed EXCEPT !["cancelled_paid_booking"] =
                        @ + IF req[r].seen = "booked" THEN paid ELSE 0]
        /\ paid' = paid /\ status' = "cancelled"
    BY <1>2 DEF Cancel, Owe, money
  <2>3. owed'["cancelled_paid_booking"] <= paid
    BY <1>1, <2>1, <2>2
  <2>4. QED
    BY <2>2, <2>3 DEF CancelOwed
<1>3. CASE /\ owed'["cancelled_paid_booking"] = owed["cancelled_paid_booking"]
           /\ status = "cancelled" => status' = "cancelled"
           /\ paid' >= paid
  <2>1. paid' \in Int
    BY TypePreserved DEF TypeOK, Core
  <2>2. QED
    BY <1>1, <1>3, <2>1 DEF CancelOwed
<1>4. QED
  BY <1>2, <1>3, CancelOwedSteps

\* However many cancels of a paid booking are in flight, what it owes for the cancel is at most
\* what was paid: the first cancel to commit owes it, and the UPDATE refuses the others.
THEOREM CancelOwesAtMostOnce == Spec => []CancelRefundedOnce
<1>1. Init => CancelOwed
  BY DEF Init, CancelOwed, Reasons
<1>2. CancelOwed => CancelRefundedOnce
  BY DEF CancelOwed, CancelRefundedOnce
<1>3. TypeOK /\ Core /\ CancelOwed /\ [Next]_vars => CancelOwed'
  BY CancelOwedPreserved
<1>4. QED
  BY <1>1, <1>2, <1>3, Invariance, PTL DEF Spec

-----------------------------------------------------------------------------
(***************************************************************************)
(* The proof that what an owner accepts on an advance is credited or owed  *)
(* back as long as the server does not stop between an approval's commits: *)
(* for any number of proofs and requests, any price and any amounts.       *)
(*                                                                         *)
(* The argument: the excess that advance_only holds back is carried by one *)
(* request (OneCarrier), and until that request queues it, what it carries *)
(* is the difference between what was accepted and what was credited and   *)
(* owed (Carried).  Before a first approval nothing is carried or owed     *)
(* (NothingYet), so the approval starts from nothing.                      *)
(***************************************************************************)

ApprovedAdvances == {p \in Payments : verdict[p] = "approved" /\ purpose[p] = "advance"}
Carriers == {r \in Requests : req[r].op = "queue_excess"}
ExcessOwed == owed["overpayment_excess"]

NothingYet == ApprovedAdvances = {} => Carriers = {} /\ ExcessOwed = 0

OneCarrier == \A r, x \in Carriers : r = x

Carried ==
    \A p \in ApprovedAdvances :
        /\ \A r \in Carriers : confirmed[p] = credited[p] + ExcessOwed + req[r].due
        /\ Carriers = {} => confirmed[p] = credited[p] + ExcessOwed

Kept == NothingYet /\ OneCarrier /\ (~crashed => Carried)

\* A step that approves no advance, queues no excess and forgets none.
Unrelated ==
    /\ ApprovedAdvances' = ApprovedAdvances
    /\ \A p \in ApprovedAdvances : confirmed'[p] = confirmed[p] /\ credited'[p] = credited[p]
    /\ Carriers' = Carriers /\ \A r \in Carriers : req'[r].due = req[r].due
    /\ ExcessOwed' = ExcessOwed

LEMMA UnrelatedKeeps ==
    ASSUME Kept, Unrelated, crashed => crashed'
    PROVE  Kept'
<1>1. NothingYet' /\ OneCarrier'
  BY DEF Kept, NothingYet, OneCarrier, Unrelated
<1>2. ~crashed' => Carried'
  BY DEF Kept, Carried, Unrelated
<1>3. QED
  BY <1>1, <1>2 DEF Kept

\* What is held back and what is accepted make up the amount.
LEMMA AcceptedSplits ==
    ASSUME NEW amount \in Amounts, NEW only \in BOOLEAN
    PROVE  /\ amount = Accepted(amount, only) + HeldBack(amount, only)
           /\ Accepted(amount, only) \in Nat /\ HeldBack(amount, only) \in Nat
  BY MoneyAssumption DEF Accepted, HeldBack, Lesser

\* Only approving an advance, queueing the excess and stopping before that are related.
LEMMA MostStepsAreUnrelated ==
    ASSUME TypeOK, Core, [Next]_vars
    PROVE  \/ Unrelated
           \/ \E r \in Requests :
                 \/ \E p \in Payments : AutoApprove(r, p)
                 \/ \E a \in Amounts, only \in BOOLEAN : ApproveAdvance(r, a, only)
                 \/ QueueExcess(r) \/ Crash(r)
<1> USE DEF Unrelated, ApprovedAdvances, Carriers, ExcessOwed, proofs, booking, money, disputes
<1>0. \A p \in Payments : p >= p
  BY MoneyAssumption
<1>1. /\ req \in [Requests -> RequestType] /\ owed \in [Reasons -> Nat]
      /\ DOMAIN verdict = Payments /\ DOMAIN purpose = Payments
      /\ DOMAIN confirmed = Payments /\ DOMAIN credited = Payments
      /\ verdict \in [Payments -> {"none", "pending", "approved", "rejected", "acknowledged"}]
      /\ purpose \in [Payments -> {"advance", "balance"}]
      /\ confirmed \in [Payments -> Nat] /\ credited \in [Payments -> Nat]
  BY DEF TypeOK
<1>2. CASE UNCHANGED vars
  BY <1>2 DEF vars
<1>3. ASSUME NEW flagged \in BOOLEAN, HoldRunsOut \/ ExpireStaleBooking(flagged)
      PROVE  Unrelated
  BY <1>3 DEF HoldRunsOut, ExpireStaleBooking
<1>4. ASSUME NEW r \in Requests, BeginSubmit(r)
      PROVE  Unrelated
  BY <1>1, <1>4 DEF BeginSubmit, Continue, Loaded, Idle
<1>5. ASSUME NEW r \in Requests, ExpireHoldNow(r)
      PROVE  Unrelated
  BY <1>1, <1>5 DEF ExpireHoldNow, Continue, RequestType
<1>6. ASSUME NEW r \in Requests,
             \/ SubmitRefused(r) \/ LeaveTrail(r) \/ ReviewRefused(r) \/ CancelFindsNothing(r)
      PROVE  Unrelated
  BY <1>1, <1>6 DEF SubmitRefused, LeaveTrail, ReviewRefused, CancelFindsNothing, Answer, Idle
<1>7. ASSUME NEW r \in Requests, NEW p \in Payments, NEW a \in Amounts,
             RecordLateProof(r, p, a) \/ SubmitForReview(r, p, a)
      PROVE  Unrelated
  <2>1. req[r].op \in {"submit", "late_proof"} /\ Answer(r) /\ UNCHANGED <<money, owed>>
    BY <1>7 DEF RecordLateProof, SubmitForReview
  <2>2. \E for \in {"advance", "balance"} : InsertProof(p, a, for, "pending")
    BY <1>7 DEF RecordLateProof, SubmitForReview
  <2>3. ApprovedAdvances' = ApprovedAdvances
    BY <1>0, <1>1, <2>2 DEF InsertProof
  <2>4. QED
    BY <1>1, <2>1, <2>3 DEF Answer, Idle
<1>8. ASSUME NEW r \in Requests, NEW p \in Payments, NEW op \in Reviews, BeginReview(r, p, op)
      PROVE  Unrelated
  BY <1>1, <1>8 DEF BeginReview, Continue, Loaded, Idle, Reviews
<1>9. ASSUME NEW r \in Requests, NEW a \in Amounts, ApproveBalance(r, a)
      PROVE  Unrelated
  BY <1>1, <1>9 DEF ApproveBalance, Review, Claimable, Credit, Answer, Idle
<1>10. ASSUME NEW r \in Requests, Reject(r)
      PROVE  Unrelated
  BY <1>1, <1>10 DEF Reject, Review, Claimable, Continue, Answer, Idle, RequestType
<1>11. ASSUME NEW r \in Requests, NEW received \in BOOLEAN, Acknowledge(r, received)
      PROVE  Unrelated
  BY <1>1, <1>11 DEF Acknowledge, Review, Claimable, Owe, Answer, Idle, Reasons
<1>12. ASSUME NEW r \in Requests,
              \/ \E by \in {"player", "owner"} : BeginCancel(r, by)
              \/ \E a \in RefundAmounts : BeginRefundRequest(r, a)
      PROVE  Unrelated
  BY <1>1, <1>12 DEF BeginCancel, BeginRefundRequest, Continue, Loaded, Idle
<1>13. ASSUME NEW r \in Requests, Cancel(r) \/ RequestRefund(r)
      PROVE  Unrelated
  BY <1>1, <1>13 DEF Cancel, RequestRefund, Owe, Answer, Idle, Reasons
<1>14. QED
  BY ONLY [Next]_vars, <1>2, <1>3, <1>4, <1>5, <1>6, <1>7, <1>8, <1>9, <1>10, <1>11, <1>12, <1>13
     DEF Next, Step, Reviews

\* A booking that can still be confirmed has no approved advance.
LEMMA ConfirmedFromNothing ==
    ASSUME Core, Kept, Confirmable(status)
    PROVE  ApprovedAdvances = {} /\ Carriers = {} /\ ExcessOwed = 0
  BY DEF Core, Consistent, NothingPaidYet, Confirmable, Kept, NothingYet, ApprovedAdvances

LEMMA KeptPreserved ==
    ASSUME TypeOK, Core, Kept, [MCNext]_<<vars, crashed>>
    PROVE  Kept'
<1> USE DEF proofs, booking, money, disputes
<1>1. /\ [Next]_vars /\ (crashed => crashed')
      /\ \A r \in Requests : Crash(r) => crashed' \/ UNCHANGED vars
  <2>1. CASE UNCHANGED <<vars, crashed>>
    BY <2>1
  <2>2. CASE MCNext
    BY ONLY <2>2, Zenon DEF MCNext
  <2>3. QED
    BY <2>1, <2>2
<1>2. /\ req \in [Requests -> RequestType] /\ owed \in [Reasons -> Nat]
      /\ DOMAIN verdict = Payments /\ DOMAIN purpose = Payments
      /\ confirmed \in [Payments -> Nat] /\ credited \in [Payments -> Nat]
  BY DEF TypeOK
<1>3. ASSUME NEW r \in Requests, NEW p \in Payments, AutoApprove(r, p)
      PROVE  Kept'
  <2>1. ApprovedAdvances = {} /\ Carriers = {} /\ ExcessOwed = 0
    BY <1>3, ConfirmedFromNothing DEF AutoApprove
  <2>2. ApprovedAdvances' = {p}
    BY <1>2, <1>3, <2>1 DEF AutoApprove, InsertProof, ApprovedAdvances
  <2>3. Carriers' = {} /\ ExcessOwed' = 0
    BY <1>2, <1>3, <2>1 DEF AutoApprove, Answer, Idle, Carriers, ExcessOwed
  <2>4. confirmed'[p] = Advance /\ credited'[p] = Advance
    BY <1>2, <1>3, MoneyAssumption DEF AutoApprove, CappedCredit, Lesser
  <2>5. QED
    BY <2>2, <2>3, <2>4, MoneyAssumption DEF Kept, NothingYet, OneCarrier, Carried
<1>4. ASSUME NEW r \in Requests, NEW a \in Amounts, NEW only \in BOOLEAN, ApproveAdvance(r, a, only)
      PROVE  Kept'
  <2> DEFINE p == req[r].payment
             accepted == Accepted(a, only)
             excess == HeldBack(a, only)
             entered == CappedCredit(accepted)
  <2>1. ApprovedAdvances = {} /\ Carriers = {} /\ ExcessOwed = 0
    BY <1>4, ConfirmedFromNothing DEF ApproveAdvance
  <2>2. p \in Payments
    BY <1>4 DEF ApproveAdvance, Core, Consistent, ReviewsKnowTheirProof, Reviews
  <2>3. /\ a = accepted + excess /\ accepted \in Nat /\ excess \in Nat
        /\ entered \in Nat /\ accepted - entered \in Nat
    BY AcceptedSplits, MoneyAssumption DEF CappedCredit, Lesser
  <2>4. ApprovedAdvances' = {p}
    BY <1>2, <1>4, <2>1, <2>2 DEF ApproveAdvance, Review, ApprovedAdvances
  <2>5. confirmed'[p] = a /\ credited'[p] = entered /\ ExcessOwed' = accepted - entered
    BY <1>2, <1>4, <2>1, <2>2, <2>3 DEF ApproveAdvance, Credit, Owe, ExcessOwed, Reasons
  <2>6. CASE excess > 0
    <3>1. req' = [req EXCEPT ![r] = [req[r] EXCEPT !.op = "queue_excess", !.due = excess]]
      BY <1>4, <2>6 DEF ApproveAdvance, Continue
    <3>2. req'[r].op = "queue_excess" /\ req'[r].due = excess /\ \A x \in Requests : x # r => req'[x] = req[x]
      BY <1>2, <3>1 DEF RequestType
    <3>3. Carriers' = {r} /\ req'[r].due = excess
      BY <2>1, <3>2 DEF Carriers
    <3>4. confirmed'[p] = credited'[p] + ExcessOwed' + req'[r].due
      BY <2>3, <2>5, <3>3
    <3>5. QED
      BY <2>4, <3>3, <3>4 DEF Kept, NothingYet, OneCarrier, Carried
  <2>7. CASE ~(excess > 0)
    <3>1. Carriers' = {}
      BY <1>2, <1>4, <2>1, <2>7 DEF ApproveAdvance, Answer, Idle, Carriers
    <3>2. confirmed'[p] = credited'[p] + ExcessOwed'
      BY <2>3, <2>5, <2>7
    <3>3. QED
      BY <2>4, <3>1, <3>2 DEF Kept, NothingYet, OneCarrier, Carried
  <2>8. QED
    BY <2>6, <2>7
<1>5. ASSUME NEW r \in Requests, QueueExcess(r)
      PROVE  Kept'
  <2>1. Carriers = {r} /\ ApprovedAdvances # {}
    BY <1>5 DEF QueueExcess, Carriers, Kept, OneCarrier, NothingYet
  <2>2. Carriers' = {}
    BY <1>2, <1>5, <2>1 DEF QueueExcess, Answer, Idle, Carriers
  <2>3. ExcessOwed' = ExcessOwed + req[r].due
    BY <1>2, <1>5 DEF QueueExcess, Owe, Reasons, ExcessOwed
  <2>4. ApprovedAdvances' = ApprovedAdvances /\ UNCHANGED <<confirmed, credited>>
    BY <1>5 DEF QueueExcess, ApprovedAdvances
  <2>5. req[r].due \in Nat /\ ExcessOwed \in Nat
    BY <1>2 DEF RequestType, ExcessOwed, Reasons
  <2>6. Carried => Carried'
    <3>1. ASSUME Carried, NEW p \in ApprovedAdvances
          PROVE  confirmed[p] = credited[p] + ExcessOwed'
      <4>1. confirmed[p] = credited[p] + ExcessOwed + req[r].due /\ credited[p] \in Nat
        BY <1>2, <2>1, <3>1 DEF Carried, ApprovedAdvances
      <4>2. QED
        BY <2>3, <2>5, <4>1
    <3>2. QED
      BY <2>2, <2>4, <3>1 DEF Carried
  <2>7. NothingYet' /\ OneCarrier'
    BY <2>1, <2>2, <2>4 DEF NothingYet, OneCarrier
  <2>8. QED
    BY <1>1, <2>6, <2>7 DEF Kept
<1>6. ASSUME NEW r \in Requests, Crash(r)
      PROVE  Kept'
  <2>1. crashed'
    <3>1. req'[r] # req[r]
      BY <1>2, <1>6 DEF Crash, Answer, Idle
    <3>2. QED
      BY <1>1, <1>6, <3>1 DEF vars
  <2>2. Carriers' \subseteq Carriers /\ UNCHANGED <<ApprovedAdvances, ExcessOwed>>
    BY <1>2, <1>6 DEF Crash, Answer, Idle, Carriers, ApprovedAdvances, ExcessOwed
  <2>3. QED
    BY <2>1, <2>2 DEF Kept, NothingYet, OneCarrier
<1>7. QED
  BY <1>1, <1>3, <1>4, <1>5, <1>6, MostStepsAreUnrelated, UnrelatedKeeps

\* While the server does not stop between an approval's two commits, all that an owner accepted
\* on an advance is in the ledger or on the refunds list (approve_payment with accept_mode,
\* confirm_booking's cap, queue_refund).
THEOREM AcceptedMoneyStays == MCSpec => []AcceptedMoneyIsKept
<1>1. MCSpec => [](TypeOK /\ Core)
  <2>1. MCSpec => Spec
    <3>1. MCInit => Init
      BY DEF MCInit
    <3>2. [MCNext]_<<vars, crashed>> => [Next]_vars
      BY DEF MCNext, vars
    <3>3. QED
      BY <3>1, <3>2, PTL DEF MCSpec, Spec
  <2>2. QED
    BY <2>1, Invariance, PTL
<1>2. MCInit => Kept
  BY DEF MCInit, Init, Idle, Kept, NothingYet, OneCarrier, Carried, ApprovedAdvances, Carriers,
         ExcessOwed, Reasons
<1>3. TypeOK /\ Core /\ Kept /\ [MCNext]_<<vars, crashed>> => Kept'
  BY KeptPreserved
<1>4. Kept => AcceptedMoneyIsKept
  BY DEF Kept, Carried, AcceptedMoneyIsKept, AcceptedMoneyIsAccountedFor, ApprovedAdvances,
         Carriers, ExcessOwed
<1>5. QED
  BY <1>1, <1>2, <1>3, <1>4, PTL DEF MCSpec

=============================================================================
