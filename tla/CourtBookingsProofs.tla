------------------------ MODULE CourtBookingsProofs ------------------------
(***************************************************************************)
(* Proofs about CourtBookings, for every court, grid, hold length and      *)
(* number of rows: types, no double booking, the answer to a refused       *)
(* request, and the implementation of SlotCalendar.                        *)
(***************************************************************************)
EXTENDS CourtBookings, TLAPS

(***************************************************************************)
(* A quoted range is not empty: n slots of at least one tick.              *)
(***************************************************************************)
LEMMA RangeLength ==
    ASSUME NEW n \in 1 .. MaxSlots
    PROVE  n * GridTicks \in Nat /\ n * GridTicks > 0
  <1>1. n \in Nat /\ n >= 1 /\ GridTicks \in Nat /\ GridTicks >= 1
    BY TimingAssumption
  <1>2. QED
    BY <1>1

(***************************************************************************)
(* The columns keep their types, and the facts the table relies on: held   *)
(* rows carry a held_until, reviewed rows do not, ranges are not empty and *)
(* end before closing time.                                                *)
(***************************************************************************)
THEOREM TypeCorrect == Spec => []TypeOK
  <1> USE TimingAssumption DEF Unborn, Live, Dead, Timestamp, NULL
  <1>1. Init => TypeOK
    BY DEF Init, TypeOK
  <1>2. TypeOK /\ [Next]_vars => TypeOK'
    <2> SUFFICES ASSUME TypeOK, [Next]_vars
                 PROVE  TypeOK'
      OBVIOUS
    <2> USE DEF TypeOK, columns
    <2>1. ASSUME NEW b \in Bookings, NEW s \in GridStarts, NEW n \in 1 .. MaxSlots,
                 RequestHold(b, s, n)
          PROVE  TypeOK'
      BY <2>1, RangeLength DEF RequestHold, Quote
    <2>2. ASSUME NEW b \in Bookings, NEW s \in GridStarts, NEW n \in 1 .. MaxSlots,
                 RequestWalkin(b, s, n)
          PROVE  TypeOK'
      BY <2>2, RangeLength DEF RequestWalkin, Quote
    <2>3. ASSUME NEW b \in Bookings, InsertBooking(b)
          PROVE  TypeOK'
      BY <2>3 DEF InsertBooking, StaleHolds, HoldLapsed
    <2>4. ASSUME NEW b \in Bookings, RefuseBooking(b)
          PROVE  TypeOK'
      BY <2>4 DEF RefuseBooking
    <2>5. ASSUME NEW b \in Bookings, BeginSubmit(b) \/ SubmitTooLate(b)
          PROVE  TypeOK'
      BY <2>5 DEF BeginSubmit, SubmitTooLate
    <2>6. ASSUME NEW b \in Bookings, MarkPaymentSubmitted(b)
          PROVE  TypeOK'
      <3>1. PaymentDeadline \in Timestamp
        BY DEF PaymentDeadline
      <3>2. QED
        BY <2>6, <3>1 DEF MarkPaymentSubmitted, AtomicTransition, Clear, Answered
    <2>7. ASSUME NEW b \in Bookings, ExpireHoldNow(b)
          PROVE  TypeOK'
      BY <2>7 DEF ExpireHoldNow, AtomicTransition, Clear
    <2>8. ASSUME NEW b \in Bookings, ConfirmBooking(b)
          PROVE  TypeOK'
      BY <2>8 DEF ConfirmBooking, AtomicTransition, Clear
    <2>9. ASSUME NEW b \in Bookings, AutoApprove(b)
          PROVE  TypeOK'
      BY <2>9 DEF AutoApprove, AtomicTransition, Clear, Answered
    <2>10. ASSUME NEW b \in Bookings, CancelBooking(b)
           PROVE  TypeOK'
      BY <2>10 DEF CancelBooking, AtomicTransition, Clear
    <2>11. ASSUME NEW b \in Bookings, BeginCheckIn(b) \/ CheckIn(b)
           PROVE  TypeOK'
      <3>1. CASE BeginCheckIn(b)
        BY <3>1 DEF BeginCheckIn
      <3>2. CASE CheckIn(b)
        BY <3>2 DEF CheckIn, Answered
      <3>3. QED
        BY <2>11, <3>1, <3>2
    <2>12. ASSUME NEW b \in Bookings, MarkNoShow(b) \/ MarkCompleted(b)
           PROVE  TypeOK'
      BY <2>12 DEF MarkNoShow, MarkCompleted, AtomicTransition
    <2>13. ASSUME ExpireStaleBookings
           PROVE  TypeOK'
      BY <2>13 DEF ExpireStaleBookings, Overdue
    <2>14. ASSUME Tick
           PROVE  TypeOK'
      BY <2>14 DEF Tick
    <2>15. CASE UNCHANGED vars
      BY <2>15 DEF vars
    <2>16. QED
      BY <2>1, <2>2, <2>3, <2>4, <2>5, <2>6, <2>7, <2>8, <2>9, <2>10, <2>11,
         <2>12, <2>13, <2>14, <2>15 DEF Next, Handle
  <1>3. QED
    BY <1>1, <1>2, PTL DEF Spec

(***************************************************************************)
(* Every step but an insert leaves the set of live rows alone or shrinks   *)
(* it, and no step moves a live row.                                       *)
(***************************************************************************)
LEMMA LiveOnlyByInsert ==
    ASSUME TypeOK, [Next]_vars, NEW c \in Bookings,
           \A b \in Bookings : ~InsertBooking(b),
           status'[c] \in Live
    PROVE  status[c] \in Live /\ starts'[c] = starts[c] /\ ends'[c] = ends[c]
  <1> USE DEF TypeOK, Unborn, Live, Dead, columns
  <1>1. ASSUME NEW b \in Bookings, NEW s \in GridStarts, NEW n \in 1 .. MaxSlots,
               RequestHold(b, s, n) \/ RequestWalkin(b, s, n)
        PROVE  status[c] \in Live /\ starts'[c] = starts[c] /\ ends'[c] = ends[c]
    BY <1>1 DEF RequestHold, RequestWalkin, Quote
  <1>2. ASSUME NEW b \in Bookings,
               \/ RefuseBooking(b) \/ BeginSubmit(b) \/ SubmitTooLate(b)
               \/ BeginCheckIn(b) \/ CheckIn(b)
        PROVE  status[c] \in Live /\ starts'[c] = starts[c] /\ ends'[c] = ends[c]
    BY <1>2 DEF RefuseBooking, BeginSubmit, SubmitTooLate, BeginCheckIn, CheckIn
  <1>3. ASSUME NEW b \in Bookings,
               \/ MarkPaymentSubmitted(b) \/ ExpireHoldNow(b) \/ ConfirmBooking(b)
               \/ AutoApprove(b) \/ CancelBooking(b) \/ MarkNoShow(b) \/ MarkCompleted(b)
        PROVE  status[c] \in Live /\ starts'[c] = starts[c] /\ ends'[c] = ends[c]
    BY <1>3 DEF MarkPaymentSubmitted, ExpireHoldNow, ConfirmBooking, AutoApprove,
                CancelBooking, MarkNoShow, MarkCompleted, AtomicTransition
  <1>4. ASSUME ExpireStaleBookings \/ Tick \/ UNCHANGED vars
        PROVE  status[c] \in Live /\ starts'[c] = starts[c] /\ ends'[c] = ends[c]
    BY <1>4 DEF ExpireStaleBookings, Tick, vars
  <1>5. QED
    BY <1>1, <1>2, <1>3, <1>4 DEF Next, Handle

(***************************************************************************)
(* No two live bookings of a court overlap, whatever the quotes said and   *)
(* however the requests and the job interleave.  NoDoubleBooking is        *)
(* inductive given the types: only an insert adds a live row, and it adds  *)
(* one with no blockers.                                                   *)
(***************************************************************************)
THEOREM NeverDoubleBooked == Spec => []NoDoubleBooking
  <1>1. Init => NoDoubleBooking
    BY DEF Init, NoDoubleBooking, Live
  <1>2. TypeOK /\ NoDoubleBooking /\ [Next]_vars => NoDoubleBooking'
    <2> SUFFICES ASSUME TypeOK, NoDoubleBooking, [Next]_vars,
                        NEW b \in Bookings, NEW c \in Bookings, b # c,
                        status'[b] \in Live, status'[c] \in Live
                 PROVE  ~Overlap(b, c)'
      BY DEF NoDoubleBooking
    <2>1. ASSUME NEW d \in Bookings, InsertBooking(d)
          PROVE  ~Overlap(b, c)'
      <3>1. ASSUME NEW x \in Bookings, x # d, status'[x] \in Live
            PROVE  ~Overlap(x, d) /\ status[x] \in Live
        <4>1. x \notin StaleHolds(d) /\ status[x] \in Live
          BY <2>1, <3>1 DEF InsertBooking, TypeOK, Live
        <4>2. QED
          BY <2>1, <3>1, <4>1 DEF InsertBooking, Blockers
      <3>2. /\ Overlap(b, c)' <=> Overlap(b, c)
            /\ Overlap(b, c) <=> Overlap(c, b)
        BY <2>1 DEF InsertBooking, Overlap
      <3>3. CASE b = d \/ c = d
        BY <3>1, <3>2, <3>3
      <3>4. CASE b # d /\ c # d
        BY <3>1, <3>2, <3>4 DEF NoDoubleBooking
      <3>5. QED
        BY <3>3, <3>4
    <2>2. CASE \A d \in Bookings : ~InsertBooking(d)
      <3>1. /\ status[b] \in Live /\ starts'[b] = starts[b] /\ ends'[b] = ends[b]
            /\ status[c] \in Live /\ starts'[c] = starts[c] /\ ends'[c] = ends[c]
        BY <2>2, LiveOnlyByInsert
      <3>2. QED
        BY <3>1 DEF NoDoubleBooking, Overlap
    <2>3. QED
      BY <2>1, <2>2
  <1>3. QED
    BY <1>1, <1>2, TypeCorrect, PTL DEF Spec

(***************************************************************************)
(* Nobody is turned away by a hold that has run out: the claim that blocks *)
(* a refused insert is one the availability reads show as taken.           *)
(***************************************************************************)
THEOREM RefusalsAreHonest == Spec => RefusedOnlyForLiveClaim
  <1>1. TypeOK /\ [Next]_vars =>
           [\A b \in Bookings :
               status[b] # "refused" /\ status'[b] = "refused" =>
                   \E c \in Bookings \ {b} : LiveClaim(c) /\ Overlap(c, b)]_vars
    <2> SUFFICES ASSUME TypeOK, Next, NEW b \in Bookings,
                        status[b] # "refused", status'[b] = "refused"
                 PROVE  \E c \in Bookings \ {b} : LiveClaim(c) /\ Overlap(c, b)
      OBVIOUS
    <2>1. RefuseBooking(b)
      <3> USE DEF TypeOK, columns
      <3>1. ASSUME NEW d \in Bookings, Handle(d)
            PROVE  RefuseBooking(b)
        <4>1. CASE InsertBooking(d)
          BY <4>1 DEF InsertBooking
        <4>2. CASE RefuseBooking(d)
          BY <4>2 DEF RefuseBooking
        <4>3. CASE BeginSubmit(d) \/ SubmitTooLate(d) \/ BeginCheckIn(d) \/ CheckIn(d)
          BY <4>3 DEF BeginSubmit, SubmitTooLate, BeginCheckIn, CheckIn
        <4>4. CASE \/ MarkPaymentSubmitted(d) \/ ExpireHoldNow(d) \/ ConfirmBooking(d)
                   \/ AutoApprove(d) \/ CancelBooking(d) \/ MarkNoShow(d) \/ MarkCompleted(d)
          BY <4>4 DEF MarkPaymentSubmitted, ExpireHoldNow, ConfirmBooking, AutoApprove,
                      CancelBooking, MarkNoShow, MarkCompleted, AtomicTransition
        <4>5. QED
          BY <3>1, <4>1, <4>2, <4>3, <4>4 DEF Handle
      <3>2. ASSUME NEW d \in Bookings, NEW s \in GridStarts, NEW n \in 1 .. MaxSlots,
                   RequestHold(d, s, n) \/ RequestWalkin(d, s, n)
            PROVE  RefuseBooking(b)
        BY <3>2 DEF RequestHold, RequestWalkin, Quote
      <3>3. ASSUME ExpireStaleBookings \/ Tick
            PROVE  RefuseBooking(b)
        BY <3>3 DEF ExpireStaleBookings, Tick
      <3>4. QED
        BY <3>1, <3>2, <3>3 DEF Next
    <2>2. PICK c \in Blockers(b) : TRUE
      BY <2>1 DEF RefuseBooking
    <2>3. c \in Bookings \ {b} /\ status[c] \in Live /\ Overlap(c, b) /\ ~HoldLapsed(c)
      BY <2>2 DEF Blockers, StaleHolds
    <2>4. QED
      BY <2>3 DEF LiveClaim
  <1>2. QED
    BY <1>1, TypeCorrect, PTL DEF Spec, RefusedOnlyForLiveClaim

(***************************************************************************)
(* A cancelled, completed or no-show row never takes its slot back.        *)
(***************************************************************************)
THEOREM DeadRowsStayDead == Spec => DeadStaysDead
  <1>1. TypeOK /\ [Next]_vars =>
           [\A b \in Bookings : status[b] \in Dead => status'[b] \in Dead]_vars
    <2> SUFFICES ASSUME TypeOK, Next, NEW b \in Bookings, status[b] \in Dead
                 PROVE  status'[b] \in Dead
      OBVIOUS
    <2> USE DEF TypeOK, Dead, Live, columns
    <2>1. ASSUME NEW d \in Bookings, Handle(d)
          PROVE  status'[b] \in Dead
      <3>1. CASE InsertBooking(d)
        BY <3>1 DEF InsertBooking
      <3>2. CASE RefuseBooking(d)
        BY <3>2 DEF RefuseBooking
      <3>3. CASE BeginSubmit(d) \/ SubmitTooLate(d) \/ BeginCheckIn(d) \/ CheckIn(d)
        BY <3>3 DEF BeginSubmit, SubmitTooLate, BeginCheckIn, CheckIn
      <3>4. CASE \/ MarkPaymentSubmitted(d) \/ ExpireHoldNow(d) \/ ConfirmBooking(d)
                 \/ AutoApprove(d) \/ CancelBooking(d) \/ MarkNoShow(d) \/ MarkCompleted(d)
        BY <3>4 DEF MarkPaymentSubmitted, ExpireHoldNow, ConfirmBooking, AutoApprove,
                    CancelBooking, MarkNoShow, MarkCompleted, AtomicTransition
      <3>5. QED
        BY <2>1, <3>1, <3>2, <3>3, <3>4 DEF Handle
    <2>2. ASSUME NEW d \in Bookings, NEW s \in GridStarts, NEW n \in 1 .. MaxSlots,
                 RequestHold(d, s, n) \/ RequestWalkin(d, s, n)
          PROVE  status'[b] \in Dead
      BY <2>2 DEF RequestHold, RequestWalkin, Quote
    <2>3. ASSUME ExpireStaleBookings \/ Tick
          PROVE  status'[b] \in Dead
      BY <2>3 DEF ExpireStaleBookings, Tick, Overdue
    <2>4. QED
      BY <2>1, <2>2, <2>3 DEF Next
  <1>2. QED
    BY <1>1, TypeCorrect, PTL DEF Spec, DeadStaysDead

-----------------------------------------------------------------------------
(* The table implements the calendar                                       *)

Owned == [b \in Bookings |-> OwnedTicks(b)]
Lapsed == {b \in Bookings : HoldLapsed(b)}

(***************************************************************************)
(* A row that lies within the day owns a set of the day's ticks, and a     *)
(* live row owns at least one.                                             *)
(***************************************************************************)
LEMMA OwnedWithinDay ==
    ASSUME TypeOK, NEW b \in Bookings
    PROVE  /\ starts[b] .. ends[b] - 1 \in SUBSET Ticks
           /\ OwnedTicks(b) \in SUBSET Ticks
           /\ status[b] \in Live => OwnedTicks(b) # {}
  <1> USE TimingAssumption DEF TypeOK
  <1>1. starts[b] .. ends[b] - 1 \in SUBSET Ticks
    BY DEF Ticks
  <1>2. ASSUME status[b] \in Live
        PROVE  starts[b] \in OwnedTicks(b)
    BY <1>2 DEF OwnedTicks, Live
  <1>3. QED
    BY <1>1, <1>2 DEF OwnedTicks

(***************************************************************************)
(* Two rows whose ranges do not overlap own no tick in common.             *)
(***************************************************************************)
LEMMA DisjointRanges ==
    ASSUME TypeOK, NEW b \in Bookings, NEW c \in Bookings, ~Overlap(b, c)
    PROVE  (starts[b] .. ends[b] - 1) \cap (starts[c] .. ends[c] - 1) = {}
  BY DEF TypeOK, Overlap

(***************************************************************************)
(* Every step of the table is a step of the calendar or leaves it alone.   *)
(***************************************************************************)
LEMMA StepSimulation ==
    ASSUME TypeOK, TypeOK', [Next]_vars
    PROVE  [Calendar!Next]_(Calendar!calendar)
  <1> USE DEF TypeOK, Unborn, Live, Dead, columns
  <1>1. ASSUME Owned' = Owned, Lapsed' = Lapsed
        PROVE  UNCHANGED Calendar!calendar
    BY <1>1 DEF Owned, Lapsed, Calendar!calendar
  <1>2. ASSUME NEW b \in Bookings, Owned' = Owned, Lapsed' = Lapsed \ {b}
        PROVE  Calendar!Next
    BY <1>2 DEF Owned, Lapsed, Calendar!Next, Calendar!Secure
  <1>3. ASSUME NEW R \in SUBSET Bookings,
               Owned' = [c \in Bookings |-> IF c \in R THEN {} ELSE Owned[c]],
               Lapsed' = Lapsed \ R
        PROVE  Calendar!Next
    BY <1>3 DEF Owned, Lapsed, Calendar!Next, Calendar!Release
  <1>4. ASSUME NEW b \in Bookings, NEW s \in GridStarts, NEW n \in 1 .. MaxSlots,
               RequestHold(b, s, n) \/ RequestWalkin(b, s, n)
        PROVE  UNCHANGED Calendar!calendar
    <2>1. /\ status[b] = "absent" /\ now' = now
          /\ status' = [status EXCEPT ![b] = "hold_quoted"]
             \/ status' = [status EXCEPT ![b] = "walkin_quoted"]
          /\ \A c \in Bookings \ {b} : /\ starts'[c] = starts[c] /\ ends'[c] = ends[c]
                                       /\ heldUntil'[c] = heldUntil[c]
      BY <1>4 DEF RequestHold, RequestWalkin, Quote
    <2>2. \A c \in Bookings : OwnedTicks(c)' = OwnedTicks(c) /\ (HoldLapsed(c)' <=> HoldLapsed(c))
      BY <2>1, ZenonT(40) DEF OwnedTicks, HoldLapsed
    <2>3. QED
      BY <1>1, <2>2 DEF Owned, Lapsed
  <1>5. ASSUME NEW b \in Bookings, InsertBooking(b)
        PROVE  Calendar!Next
    <2> DEFINE S == starts[b] .. ends[b] - 1
               R == StaleHolds(b)
    <2>1. R \in SUBSET Bookings /\ R \subseteq Lapsed \ {b} /\ b \notin Lapsed
      BY <1>5 DEF StaleHolds, Lapsed, HoldLapsed, InsertBooking
    <2>2. Owned[b] = {} /\ S \in SUBSET Ticks
      BY <1>5, OwnedWithinDay DEF Owned, OwnedTicks, InsertBooking
    <2>3. \A d \in Bookings \ R : Owned[d] \cap S = {}
      <3> SUFFICES ASSUME NEW d \in Bookings \ R, d # b, status[d] \in Live
                   PROVE  OwnedTicks(d) \cap S = {}
        BY <2>2 DEF Owned, OwnedTicks
      <3>1. ~Overlap(d, b)
        BY <1>5 DEF InsertBooking, Blockers
      <3>2. QED
        BY <3>1, DisjointRanges DEF OwnedTicks
    <2>4. Owned' = [d \in Bookings |-> IF d = b THEN S
                                       ELSE IF d \in R THEN {} ELSE Owned[d]]
      <3>1. OwnedTicks(b)' = S
        BY <1>5 DEF InsertBooking, OwnedTicks
      <3>2. \A d \in Bookings \ {b} : OwnedTicks(d)' = IF d \in R THEN {} ELSE OwnedTicks(d)
        BY <1>5 DEF InsertBooking, OwnedTicks
      <3>3. QED
        BY <3>1, <3>2 DEF Owned
    <2>5. Lapsed' \in {Lapsed \ R, (Lapsed \ R) \cup {b}}
      <3>1. \A d \in Bookings \ {b} : HoldLapsed(d)' <=> d \notin R /\ HoldLapsed(d)
        BY <1>5 DEF InsertBooking, HoldLapsed
      <3>2. CASE HoldLapsed(b)'
        BY <2>1, <3>1, <3>2 DEF Lapsed
      <3>3. CASE ~HoldLapsed(b)'
        BY <2>1, <3>1, <3>3 DEF Lapsed
      <3>4. QED
        BY <3>2, <3>3
    <2>6. Calendar!Take(b, S, R)
      <3> HIDE DEF S, R
      <3>1. QED
        BY <2>1, <2>2, <2>3, <2>4, <2>5 DEF Owned, Lapsed, Calendar!Take
    <2>7. QED
      BY <2>1, <2>2, <2>6 DEF Calendar!Next
  <1>6. ASSUME NEW b \in Bookings,
               RefuseBooking(b) \/ BeginSubmit(b) \/ SubmitTooLate(b) \/ BeginCheckIn(b)
        PROVE  UNCHANGED Calendar!calendar
    <2>1. \A c \in Bookings : OwnedTicks(c)' = OwnedTicks(c) /\ (HoldLapsed(c)' <=> HoldLapsed(c))
      BY <1>6 DEF RefuseBooking, BeginSubmit, SubmitTooLate, BeginCheckIn, OwnedTicks, HoldLapsed
    <2>2. QED
      BY <1>1, <2>1 DEF Owned, Lapsed
  <1>7. ASSUME NEW b \in Bookings,
               MarkPaymentSubmitted(b) \/ ConfirmBooking(b) \/ AutoApprove(b)
        PROVE  Calendar!Next
    <2>1. /\ status[b] \in {"held", "payment_submitted"}
          /\ \/ status' = [status EXCEPT ![b] = "payment_submitted"]
             \/ status' = [status EXCEPT ![b] = "booked"]
          /\ starts' = starts /\ ends' = ends /\ now' = now
          /\ \A c \in Bookings \ {b} : heldUntil'[c] = heldUntil[c]
      BY <1>7 DEF MarkPaymentSubmitted, ConfirmBooking, AutoApprove, AtomicTransition, Clear
    <2>2. /\ \A c \in Bookings : OwnedTicks(c)' = OwnedTicks(c)
          /\ \A c \in Bookings : HoldLapsed(c)' <=> c # b /\ HoldLapsed(c)
      BY <2>1 DEF OwnedTicks, HoldLapsed
    <2>3. QED
      BY <1>2, <2>2 DEF Owned, Lapsed
  <1>8. ASSUME NEW b \in Bookings,
               \/ ExpireHoldNow(b) \/ CancelBooking(b) \/ CheckIn(b)
               \/ MarkNoShow(b) \/ MarkCompleted(b)
        PROVE  Calendar!Next
    <2>1. /\ status'[b] \in Dead
          /\ \A c \in Bookings \ {b} : status'[c] = status[c] /\ heldUntil'[c] = heldUntil[c]
          /\ starts' = starts /\ ends' = ends /\ now' = now
      BY <1>8 DEF ExpireHoldNow, CancelBooking, CheckIn, MarkNoShow, MarkCompleted,
                  AtomicTransition, Clear
    <2>2. /\ \A c \in Bookings : OwnedTicks(c)' = IF c \in {b} THEN {} ELSE OwnedTicks(c)
          /\ \A c \in Bookings : HoldLapsed(c)' <=> c \notin {b} /\ HoldLapsed(c)
      BY <2>1 DEF OwnedTicks, HoldLapsed
    <2>3. QED
      BY <1>3, <2>2 DEF Owned, Lapsed
  <1>9. ASSUME ExpireStaleBookings
        PROVE  Calendar!Next
    <2> DEFINE R == {c \in Bookings : Overdue(c)}
    <2>1. /\ \A c \in Bookings : OwnedTicks(c)' = IF c \in R THEN {} ELSE OwnedTicks(c)
          /\ \A c \in Bookings : HoldLapsed(c)' <=> c \notin R /\ HoldLapsed(c)
      BY <1>9 DEF ExpireStaleBookings, OwnedTicks, HoldLapsed
    <2>2. R \in SUBSET Bookings
      OBVIOUS
    <2> HIDE DEF R
    <2>3. Owned' = [c \in Bookings |-> IF c \in R THEN {} ELSE Owned[c]]
      BY <2>1 DEF Owned
    <2>4. Lapsed' = Lapsed \ R
      BY <2>1 DEF Lapsed
    <2>5. QED
      BY <1>3, <2>2, <2>3, <2>4
  <1>10. ASSUME Tick
         PROVE  Calendar!Next
    <2>1. Owned' = Owned
      BY <1>10 DEF Tick, Owned, OwnedTicks
    <2>2. Lapsed \subseteq Lapsed'
      BY <1>10 DEF Tick, Lapsed, HoldLapsed, Timestamp, NULL
    <2>3. Lapsed' \in SUBSET Bookings /\ Lapsed' = Lapsed \cup Lapsed'
      BY <2>2 DEF Lapsed
    <2>4. \A c \in Lapsed' : Owned[c] # {}
      BY <1>10, OwnedWithinDay DEF Tick, Lapsed, HoldLapsed, Owned
    <2>5. QED
      BY <2>1, <2>3, <2>4 DEF Owned, Lapsed, Calendar!Next, Calendar!Lapse
  <1>11. CASE UNCHANGED vars
    <2>1. Owned' = Owned /\ Lapsed' = Lapsed
      BY <1>11 DEF vars, Owned, Lapsed, OwnedTicks, HoldLapsed
    <2>2. QED
      BY <1>1, <2>1
  <1>12. QED
    BY <1>4, <1>5, <1>6, <1>7, <1>8, <1>9, <1>10, <1>11 DEF Next, Handle

(***************************************************************************)
(* The bookings table implements the calendar: a slot changes hands only   *)
(* through a claim that had run out, in a single step, never from a paid   *)
(* one.                                                                    *)
(***************************************************************************)
THEOREM TableImplementsCalendar == Spec => ImplementsCalendar
  <1>1. Init => Calendar!Init
    BY DEF Init, Calendar!Init, OwnedTicks, HoldLapsed, Live
  <1>2. TypeOK /\ TypeOK' /\ [Next]_vars => [Calendar!Next]_(Calendar!calendar)
    BY StepSimulation
  <1>3. QED
    BY <1>1, <1>2, TypeCorrect, PTL DEF Spec, ImplementsCalendar, Calendar!Spec

(***************************************************************************)
(* However claims are taken, lapse and are swept aside, no slot ever has   *)
(* two owners.  Exclusive is inductive given the types: Take is the only   *)
(* action that gives slots, and what it gives nobody outside R owns.       *)
(***************************************************************************)
THEOREM CalendarIsExclusive == Calendar!Spec => [](Calendar!CalendarType /\ Calendar!Exclusive)
  <1> DEFINE Inv == Calendar!CalendarType /\ Calendar!Exclusive
  <1>1. Calendar!Init => Inv
    BY DEF Calendar!Init, Calendar!CalendarType, Calendar!Exclusive
  <1>2. Inv /\ [Calendar!Next]_(Calendar!calendar) => Inv'
    <2> SUFFICES ASSUME Calendar!CalendarType, Calendar!Exclusive, [Calendar!Next]_(Calendar!calendar)
                 PROVE  Calendar!CalendarType' /\ Calendar!Exclusive'
      OBVIOUS
    <2> USE DEF Calendar!CalendarType, Calendar!Exclusive
    <2>1. ASSUME NEW c \in Bookings, NEW S \in SUBSET Ticks, NEW R \in SUBSET Bookings,
                 Calendar!Take(c, S, R)
          PROVE  Calendar!CalendarType' /\ Calendar!Exclusive'
      <3>1. Calendar!CalendarType'
        BY <2>1 DEF Calendar!Take
      <3>2. Calendar!Exclusive'
        BY <2>1 DEF Calendar!Take
      <3>3. QED
        BY <3>1, <3>2
    <2>2. ASSUME NEW R \in SUBSET Bookings, Calendar!Release(R) \/ Calendar!Lapse(R)
          PROVE  Calendar!CalendarType' /\ Calendar!Exclusive'
      BY <2>2 DEF Calendar!Release, Calendar!Lapse
    <2>3. ASSUME NEW c \in Bookings, Calendar!Secure(c)
          PROVE  Calendar!CalendarType' /\ Calendar!Exclusive'
      BY <2>3 DEF Calendar!Secure
    <2>4. CASE UNCHANGED Calendar!calendar
      BY <2>4 DEF Calendar!calendar
    <2>5. QED
      BY <2>1, <2>2, <2>3, <2>4 DEF Calendar!Next
  <1>3. QED
    BY <1>1, <1>2, PTL DEF Calendar!Spec


(***************************************************************************)
(* So no slot of the court ever has two owners, whatever the table does.   *)
(***************************************************************************)
THEOREM SlotsHaveOneOwner == Spec => []Calendar!Exclusive
  BY TableImplementsCalendar, CalendarIsExclusive, PTL DEF ImplementsCalendar

=============================================================================
