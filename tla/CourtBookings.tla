--------------------------- MODULE CourtBookings ---------------------------
(***************************************************************************)
(* The bookings table of one court and everything that writes its status:  *)
(* BookingService (create_hold, create_walkin, _insert_booking, cancel,    *)
(* confirm, mark_payment_submitted, check-in, no-show, completion), the    *)
(* expiry job, and the clock that makes a hold run out.                    *)
(*                                                                         *)
(* Time is in ticks and a booking covers the ticks starts .. ends-1.  A    *)
(* request reads the table in one step and commits in a later one, so the  *)
(* steps of two requests and of the job interleave as they do under READ   *)
(* COMMITTED.  The columns of the table are the variables.                 *)
(***************************************************************************)
EXTENDS Integers, FiniteSets

CONSTANTS
    Bookings,       \* the ids of the rows that may ever be inserted
    GridTicks,      \* ticks in one 30-minute slot of the grid
    MaxSlots,       \* the longest booking, in slots
    GridStarts,     \* the ticks at which a grid slot starts
    ClosingTick,    \* the tick at which the court closes
    HoldTicks,      \* the venue's hold length
    ReviewTicks,    \* the venue's auto-cancel delay for a payment under review
    AutoCancel,     \* whether the venue has auto-cancel switched on
    LastRequest,    \* bound: no request is accepted after this tick
    MaxTime         \* bound: the clock stops here

ASSUME TimingAssumption ==
    /\ GridTicks \in Nat \ {0} /\ MaxSlots \in Nat \ {0}
    /\ GridStarts \subseteq Nat /\ ClosingTick \in Nat
    /\ HoldTicks \in Nat \ {0} /\ ReviewTicks \in Nat \ {0}
    /\ AutoCancel \in BOOLEAN
    /\ LastRequest \in Nat /\ MaxTime \in Nat

VARIABLES
    status,         \* bookings.status, or where the request that will insert the row is
    starts, ends,   \* bookings.starts_at, bookings.ends_at
    heldUntil,      \* bookings.held_until
    deadline,       \* bookings.payment_deadline
    submitting,     \* rows some submit request has read as a hold still running
    checkingIn,     \* rows some check-in request has read as booked
    now             \* the clock

columns == <<status, starts, ends, heldUntil, deadline>>
vars == <<columns, submitting, checkingIn, now>>

NULL == -1          \* a timestamp column without a value
Timestamp == Nat \cup {NULL}

Live == {"held", "payment_submitted", "booked"}
Dead == {"cancelled", "completed", "no_show"}

\* Before the insert: no request yet; a create_hold or create_walkin request past its
\* checks; a request that was answered 409 SLOT_ALREADY_TAKEN.
Unborn == {"absent", "hold_quoted", "walkin_quoted", "refused"}

Overlap(b, c) == starts[b] < ends[c] /\ starts[c] < ends[b]

-----------------------------------------------------------------------------
(* Reading the table                                                       *)

\* A hold whose time has run out: free at read time, still live for the constraint.
HoldLapsed(b) == status[b] = "held" /\ heldUntil[b] # NULL /\ heldUntil[b] <= now

\* live_claim: what every read that decides whether a slot is taken counts.
LiveClaim(b) == status[b] \in Live /\ ~HoldLapsed(b)

\* Mutation: the job only looks at holds and forgets the review deadlines.
OverdueHoldsOnly(b) == status[b] = "held" /\ heldUntil[b] # NULL /\ heldUntil[b] < now

\* The rows expire_stale_bookings cancels (strictly past their deadline).
Overdue(b) ==
    \/ status[b] = "held" /\ heldUntil[b] # NULL /\ heldUntil[b] < now
    \/ status[b] = "payment_submitted" /\ deadline[b] # NULL /\ deadline[b] < now

-----------------------------------------------------------------------------

Init ==
    /\ status = [b \in Bookings |-> "absent"]
    /\ starts = [b \in Bookings |-> 0]
    /\ ends = [b \in Bookings |-> 0]
    /\ heldUntil = [b \in Bookings |-> NULL]
    /\ deadline = [b \in Bookings |-> NULL]
    /\ submitting = {}
    /\ checkingIn = {}
    /\ now = 0

\* quote_range: the request for n slots from s passes the read-time checks.
Quote(b, s, n, quoted) ==
    /\ now <= LastRequest
    /\ status[b] = "absent"
    /\ s + n * GridTicks <= ClosingTick
    /\ \A c \in Bookings :
          LiveClaim(c) => ~(s < ends[c] /\ starts[c] < s + n * GridTicks)
    /\ status' = [status EXCEPT ![b] = quoted]
    /\ starts' = [starts EXCEPT ![b] = s]
    /\ ends' = [ends EXCEPT ![b] = s + n * GridTicks]
    /\ UNCHANGED <<deadline, submitting, checkingIn, now>>

\* create_hold up to the insert: the slot is in the future; held_until is fixed here.
RequestHold(b, s, n) ==
    /\ s > now
    /\ Quote(b, s, n, "hold_quoted")
    /\ heldUntil' = [heldUntil EXCEPT ![b] = now + HoldTicks]

\* create_walkin up to the insert: a slot in progress is still allowed.
RequestWalkin(b, s, n) ==
    /\ s + GridTicks > now
    /\ Quote(b, s, n, "walkin_quoted")
    /\ UNCHANGED heldUntil

\* Mutation: the release compares held_until the way the job does, strictly.
StrictlyStaleHolds(b) ==
    {c \in Bookings \ {b} : status[c] = "held" /\ heldUntil[c] < now /\ Overlap(c, b)}

\* Mutation: the release forgets the held_until condition.
AnyOverlappingHolds(b) == {c \in Bookings \ {b} : status[c] = "held" /\ Overlap(c, b)}

\* _release_stale_holds: the run-out holds the new row overlaps.
StaleHolds(b) == {c \in Bookings \ {b} : HoldLapsed(c) /\ Overlap(c, b)}

\* Mutation: only one_live_booking_per_slot, which compares starts_at and nothing else.
SameStartBlockers(b) ==
    {c \in Bookings \ {b} : status[c] \in Live /\ starts[c] = starts[b]} \ StaleHolds(b)

\* What no_overlapping_live_bookings still sees once the stale holds are released.
Blockers(b) ==
    {c \in Bookings \ {b} : status[c] \in Live /\ Overlap(c, b)} \ StaleHolds(b)

\* _insert_booking: stale holds are cancelled and the row is inserted, in one transaction.
InsertBooking(b) ==
    /\ status[b] \in {"hold_quoted", "walkin_quoted"}
    /\ Blockers(b) = {}
    /\ LET released == StaleHolds(b) IN
       /\ status' = [c \in Bookings |->
                        IF c = b THEN IF status[b] = "hold_quoted" THEN "held" ELSE "booked"
                        ELSE IF c \in released THEN "cancelled" ELSE status[c]]
       /\ heldUntil' = [c \in Bookings |-> IF c \in released THEN NULL ELSE heldUntil[c]]
       /\ deadline' = [c \in Bookings |-> IF c \in released THEN NULL ELSE deadline[c]]
    /\ UNCHANGED <<starts, ends, submitting, checkingIn, now>>

\* The constraint refuses the row: the release is rolled back with it.
RefuseBooking(b) ==
    /\ status[b] \in {"hold_quoted", "walkin_quoted"}
    /\ Blockers(b) # {}
    /\ status' = [status EXCEPT ![b] = "refused"]
    /\ UNCHANGED <<starts, ends, heldUntil, deadline, submitting, checkingIn, now>>

-----------------------------------------------------------------------------
(* Status transitions                                                      *)

\* Mutation: read, mutate, commit by primary key; the UPDATE does not look at the status.
BlindTransition(b, from, to) ==
    /\ status' = [status EXCEPT ![b] = to]
    /\ UNCHANGED <<starts, ends, now>>

\* The conditional UPDATE every guarded transition goes through.
AtomicTransition(b, from, to) ==
    /\ status[b] \in from
    /\ status' = [status EXCEPT ![b] = to]
    /\ UNCHANGED <<starts, ends, now>>

\* Mutation: a transition that forgets to reset the timestamp it has made meaningless.
KeepColumn(column, b) == column

Clear(column, b) == [column EXCEPT ![b] = NULL]

\* submit_payment reads a hold still running, then spends seconds on upload and OCR.
BeginSubmit(b) ==
    /\ now <= LastRequest
    /\ status[b] = "held" /\ ~HoldLapsed(b)
    /\ submitting' = submitting \cup {b}
    /\ UNCHANGED <<columns, checkingIn, now>>

PaymentDeadline == IF AutoCancel THEN now + ReviewTicks ELSE NULL

\* One request on row b is answered; another that read the same row may still be running.
Answered(requests, remaining, b) == remaining \in {requests, requests \ {b}}

\* ... and only then mark_payment_submitted moves the row, whatever held_until says by now.
MarkPaymentSubmitted(b) ==
    /\ b \in submitting
    /\ AtomicTransition(b, {"held"}, "payment_submitted")
    /\ now + ReviewTicks < MaxTime      \* bound: the deadline is one the clock reaches
    /\ heldUntil' = Clear(heldUntil, b)
    /\ deadline' = [deadline EXCEPT ![b] = PaymentDeadline]
    /\ Answered(submitting, submitting', b)
    /\ UNCHANGED checkingIn

\* The row had moved on: the transition is a no-op.
SubmitTooLate(b) ==
    /\ b \in submitting /\ status[b] # "held"
    /\ submitting' = submitting \ {b}
    /\ UNCHANGED <<columns, checkingIn, now>>

\* submit_payment met a hold that has run out: expire_hold_now.
ExpireHoldNow(b) ==
    /\ HoldLapsed(b)
    /\ AtomicTransition(b, {"held"}, "cancelled")
    /\ heldUntil' = Clear(heldUntil, b)
    /\ deadline' = Clear(deadline, b)
    /\ UNCHANGED <<submitting, checkingIn>>

\* confirm_booking: the owner approves the submitted proof ...
ConfirmBooking(b) ==
    /\ status[b] = "payment_submitted"
    /\ AtomicTransition(b, {"held", "payment_submitted"}, "booked")
    /\ deadline' = Clear(deadline, b)
    /\ UNCHANGED <<heldUntil, submitting, checkingIn>>

\* ... or the submit request itself approves it, straight from the hold.
AutoApprove(b) ==
    /\ b \in submitting
    /\ AtomicTransition(b, {"held", "payment_submitted"}, "booked")
    /\ deadline' = Clear(deadline, b)
    /\ Answered(submitting, submitting', b)
    /\ UNCHANGED <<heldUntil, checkingIn>>

\* cancel_booking, by the player or by the owner.
CancelBooking(b) ==
    /\ AtomicTransition(b, Live, "cancelled")
    /\ heldUntil' = Clear(heldUntil, b)
    /\ deadline' = Clear(deadline, b)
    /\ UNCHANGED <<submitting, checkingIn>>

\* _do_check_in reads a booked row ...
BeginCheckIn(b) ==
    /\ status[b] = "booked"
    /\ checkingIn' = checkingIn \cup {b}
    /\ UNCHANGED <<columns, submitting, now>>

\* ... and writes completed by primary key, whatever the row has become, at any time of day.
CheckIn(b) ==
    /\ b \in checkingIn
    /\ status' = [status EXCEPT ![b] = "completed"]
    /\ Answered(checkingIn, checkingIn', b)
    /\ UNCHANGED <<starts, ends, heldUntil, deadline, submitting, now>>

\* owner_mark_no_show, then mark_no_show.
MarkNoShow(b) ==
    /\ now >= ends[b]
    /\ AtomicTransition(b, {"booked"}, "no_show")
    /\ UNCHANGED <<heldUntil, deadline, submitting, checkingIn>>

\* mark_completion after the slot has ended, or reverse_noshow: mark_completed.
MarkCompleted(b) ==
    /\ status[b] = "booked" => now >= ends[b]
    /\ AtomicTransition(b, {"booked", "no_show"}, "completed")
    /\ UNCHANGED <<heldUntil, deadline, submitting, checkingIn>>

\* The expiry job: both bulk UPDATEs commit together.
ExpireStaleBookings ==
    LET expired == {b \in Bookings : Overdue(b)} IN
    /\ expired # {}
    /\ status' = [b \in Bookings |-> IF b \in expired THEN "cancelled" ELSE status[b]]
    /\ heldUntil' = [b \in Bookings |-> IF b \in expired THEN NULL ELSE heldUntil[b]]
    /\ deadline' = [b \in Bookings |-> IF b \in expired THEN NULL ELSE deadline[b]]
    /\ UNCHANGED <<starts, ends, submitting, checkingIn, now>>

Tick ==
    /\ now < MaxTime
    /\ now' = now + 1
    /\ UNCHANGED <<columns, submitting, checkingIn>>

Handle(b) ==
    \/ InsertBooking(b) \/ RefuseBooking(b)
    \/ BeginSubmit(b) \/ MarkPaymentSubmitted(b) \/ SubmitTooLate(b) \/ ExpireHoldNow(b)
    \/ ConfirmBooking(b) \/ AutoApprove(b) \/ CancelBooking(b)
    \/ BeginCheckIn(b) \/ CheckIn(b)
    \/ MarkNoShow(b) \/ MarkCompleted(b)

Next ==
    \/ \E b \in Bookings, s \in GridStarts, n \in 1 .. MaxSlots :
          RequestHold(b, s, n) \/ RequestWalkin(b, s, n)
    \/ \E b \in Bookings : Handle(b)
    \/ ExpireStaleBookings
    \/ Tick

Spec == Init /\ [][Next]_vars

(***************************************************************************)
(* Cron runs the expiry job every minute and time passes.  Nothing else is *)
(* fair: players, owners and requests may stop at any point.               *)
(***************************************************************************)
FairSpec == Spec /\ WF_vars(Tick) /\ WF_vars(ExpireStaleBookings)

-----------------------------------------------------------------------------
(* Properties                                                              *)

\* Every column holds a value of its type, a held row knows when its hold runs out, and a
\* row under review no longer carries the hold's clock (mark_payment_submitted clears it).
\* Requests only remember rows that were inserted, and a row keeps its range within the day.
TypeOK ==
    /\ status \in [Bookings -> Unborn \cup Live \cup Dead]
    /\ starts \in [Bookings -> Nat]
    /\ ends \in [Bookings -> Nat]
    /\ heldUntil \in [Bookings -> Timestamp]
    /\ deadline \in [Bookings -> Timestamp]
    /\ submitting \cup checkingIn \subseteq {b \in Bookings : status[b] \in Live \cup Dead}
    /\ now \in Nat
    /\ \A b \in Bookings :
          /\ status[b] \in {"hold_quoted", "held"} => heldUntil[b] # NULL
          /\ status[b] = "payment_submitted" => heldUntil[b] = NULL
          /\ ends[b] <= ClosingTick
          /\ status[b] \notin {"absent", "refused"} => starts[b] < ends[b]

\* No two live rows of the court ever overlap, although quotes are stale when their rows
\* are inserted and run-out holds are released on the way (_insert_booking).
NoDoubleBooking ==
    \A b, c \in Bookings :
        b # c /\ status[b] \in Live /\ status[c] \in Live => ~Overlap(b, c)

\* A request is answered SLOT_ALREADY_TAKEN only if a claim that readers also count stands
\* in its way: a hold that has run out never turns anybody away, even on the very tick it
\* runs out and long before the job gets to it (live_claim against _release_stale_holds).
RefusedOnlyForLiveClaim ==
    [][\A b \in Bookings :
          status[b] # "refused" /\ status'[b] = "refused" =>
              \E c \in Bookings \ {b} : LiveClaim(c) /\ Overlap(c, b)]_vars

\* A row that was cancelled, completed or marked no-show never claims its slot again: no
\* late submit, approval or job run brings it back (the guards of _atomic_transition).
DeadStaysDead ==
    [][\A b \in Bookings : status[b] \in Dead => status'[b] \in Dead]_vars

\* With auto-cancel on, no unpaid claim sits on its slot for ever: a hold or a payment under
\* review is settled or expires, whatever players and owners leave undone (expiry job).
Unsettled(b) == status[b] \in {"held", "payment_submitted"}
UnpaidClaimsEnd == \A b \in Bookings : Unsettled(b) ~> ~Unsettled(b)

\* The table implements the calendar: a slot moves from one booking to another only
\* through a claim that had run out, in one step, and never from a paid one.
Ticks == 0 .. ClosingTick - 1
OwnedTicks(b) == IF status[b] \in Live THEN starts[b] .. ends[b] - 1 ELSE {}
Calendar == INSTANCE SlotCalendar
    WITH Claims <- Bookings, Slots <- Ticks,
         owned <- [b \in Bookings |-> OwnedTicks(b)],
         lapsed <- {b \in Bookings : HoldLapsed(b)}
ImplementsCalendar == Calendar!Spec

(***************************************************************************)
(* Two statements of the repository that the code does not keep.           *)
(***************************************************************************)

\* "no walk-in-vs-app double-booking race" (AUDIT_FINDINGS.md): no tick of the court is sold to two
\* bookings that were not cancelled.  Check-in completes a row at any time, which takes it
\* out of the live set while its slots are still to be played.
SlotSoldOnce ==
    \A b, c \in Bookings :
        b # c /\ status[b] \in Live \cup {"completed", "no_show"}
              /\ status[c] \in Live \cup {"completed", "no_show"} => ~Overlap(b, c)

\* Only booked slots can be checked in: a row becomes completed from booked, or from a
\* no-show that is taken back.
CompletedOnlyFromBooked ==
    [][\A b \in Bookings :
          status[b] # "completed" /\ status'[b] = "completed" =>
              status[b] \in {"booked", "no_show"}]_vars

=============================================================================
