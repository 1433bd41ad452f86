# Court booking: TLA+ models, model checks and proofs

This directory specifies the court booking application: the FastAPI/PostgreSQL backend under
`src/court-booking-backend/app` (paths with `services/`, `api/`, `jobs/` and `models/` below are
relative to it) and the web and mobile apps under `src/court-booking-frontend`. It holds TLA+
modules translated from that code, TLC configurations that check them on small instances, and
proofs, checked by TLAPS, of the most important properties for instances of any size.

`PROJECT.json` is the machine-readable side: which source lines every definition stands for
(`map`), the runs, the mutations that show each property can fail, the hazards of the code with
the properties aimed at them, the findings and the theorems.

Contents: 1 the system, 2 the modules, 3 the runs, 4 the proofs, 5 what the code does not keep,
6 what is not modelled, 7 the plan.

## 1. The system

A player finds a venue, picks slots of a court and gets a *hold*; pays a bank transfer outside
the app and uploads a screenshot (a *proof*); the venue's owner (or an automatic check) approves
or rejects it; the game is played, checked in, completed or marked a no-show. Owners also enter
walk-ins, record cash, pay refunds and settle short payments; players earn and spend points,
wait for taken slots and rate what they played. Venue owners in turn pay the platform for
premium features. Everything is one PostgreSQL database under READ COMMITTED, async request
handlers with one session each (`database.py`, `expire_on_commit=False`), and cron jobs guarded
by `flock -n`. Nothing holds a lock between a request's first read and its last write, so what
makes the system correct are unique indexes, an exclusion constraint, conditional UPDATEs and a
few row locks. The apps poll; what a screen shows is always older than what it asks for, and an
answer may be lost after the server has acted.

| Component (main files) | State it keeps | Operations | Hard behaviour | What makes it correct |
|---|---|---|---|---|
| Bookings and slots (`services/booking_service.py`, `services/live_bookings.py`, `models/booking.py`) | `bookings` rows: status, range, `held_until`, `payment_deadline` | hold, walk-in, submit, confirm, cancel, check-in, no-show, complete | stale quotes, run-out holds that still occupy the constraint, transitions racing with each other | no two live rows overlap; dead rows stay dead; a refusal has a reason; unpaid claims end |
| Expiry job (`jobs/expiry_job.py`) | none of its own | cancels run-out holds and unreviewed payments | runs between any two steps of a request | every overdue claim ends |
| Payment proofs and review (`services/payment_service.py`, `api/payments.py`) | `payments`, `payment_disputes` | submit, late proof, auto-approve, approve, reject, acknowledge | two reviewers, two submits, OCR between read and write, two commits per approval | one verdict per proof, one advance per booking, a rejection frees the slot but never a paid one |
| Payment ledger (`services/payment_ledger_service.py`, `models/payment_entry.py`) | `payment_entries`, `bookings.amount_paid` | record, complete, correct, re-sum | row lock, but on an object loaded earlier | never past the price; the column is a sum of the ledger |
| Refunds (`services/admin_service.py`, `api/owners.py`) | `payment_disputes.refund_*` | owe, pay in part or in full | two pay-outs at once | pay-outs within what is owed, and in the ledger |
| Bank check (`services/bank_missing_service.py`, `services/bank_check_service.py`) | reversals in the ledger | take a transfer back, report | check before the lock | a transfer is taken back once |
| Completion and overview (`services/owner_overview_service.py`, `services/overview_slots.py`) | none of its own | mark completion with money received | absolute total computed from a stale amount; two commits | money on top is never lost |
| Owner billing (`services/owner_billing_service.py`, `services/owner_payment_service.py`, `services/entitlement_service.py`, `jobs/billing_job.py`) | `owner_features`, `owner_invoices`, `owner_payments` | select features, daily job, upload, approve, reject, record, reverse | the job's stale readings, reversals in any order | no day billed twice; paid days stay covered; payments agree with invoices |
| Short payments (`services/phase3_service.py`) | claims, dues | ask, answer, fine, decide, carry | whole-row writes by requests and the job; rounds | one fine, for silence only, given back when settled |
| Player points (`services/phase3_service.py`) | append-only points entries | award, redeem, return, take back | a balance read without a lock | below nothing only by deductions that overtook each other; a discount is paid for; points come back once, and are taken back only from a player who is asked for the money |
| Waitlist (`services/waitlist_service.py`) | `waitlist_entries` | join, leave, wave, sweep | waves racing with joins, holds and each other | nobody is told falsely, forgotten or told twice |
| Client sessions (`packages/api-client/src/client.ts`, `apps/web/lib/auth-store.ts`) | tokens in memory and in local storage | request, shared refresh, restore, log in and out | parallel 401s, lost refresh answers, reloads | one refresh at a time; only dead tokens are refreshed; every call settles |
| Sign-in and account forms (`services/auth_service.py`, `components/auth-v2`, `components/account`) | one-time codes, drafts | request, verify, reset, change number | codes that run out while a check is on its way | nobody is signed in with an unproven phone; what is said to be saved is stored |
| Screens for booking (`apps/*/…/venue`, `…/chat`, `…/pay`, `…/search`) | snapshots, drafts, polls | search, pick, ask, hold, upload, cancel | snapshots that age, retries after lost answers | what is asked for is what was shown; one hold and one proof |
| Screens for the owner (`apps/*/…/owner`) | lists, dialogs, optimistic changes | approve, reject, refund, mark, settle, filter, set up, edit, manage staff | polls under open dialogs, overlapping saves, answers out of order | nothing is decided or recorded twice; "saved" is true |
| Notifications (`services/notification_service.py`, `web-push.ts`, bell) | log, push subscription | list, fold, pop up, subscribe, unsubscribe | sign-out racing with subscribing | a browser gets no pushes of an account that left |
| Reviews and ratings (`services/review_service.py`) | `reviews` | rate, reply, hide | lists cached beside each other | only played games are rated; what is hidden counts for nobody |
| WhatsApp webhook and AI chat, reminders and digests, OCR and AI, HTTP layer, deployment, marketing pages | | | | see section 6 |

Interactions: a proof's review moves the booking (`confirm_booking`, `cancel_booking`,
`mark_payment_submitted`) and writes the ledger and the refunds list; a cancel or an expiry frees
the slot, wakes the waitlist and returns points; a completion writes ledger, status and, with
money missing, opens a short-payment claim; the job cancels and fines what requests leave. The
screens call these services and learn of each other's changes only by polling.

## 2. Modules

| Module | Stands for | Composes / extends |
|---|---|---|
| `SlotCalendar` | abstract: exclusive claims on slots, which may lapse | |
| `CourtBookings` | the bookings of one court and every writer of their status | `INSTANCE SlotCalendar` as refinement target |
| `PaymentReview` | the proofs of one booking, their reviews, and the money and refunds they cause | |
| `PaymentLedger` | the ledger of one booking, the derived column and the pay-outs | |
| `OwnerBilling` | one owner's features, invoices and platform payments | |
| `ShortPayments`, `PlayerPoints`, `Waitlist` | the three small services above | |
| `ClientSession` | the tokens of a browser, against a server that rotates them | |
| `ReviewServer` | what the server answers to approve, reject and acknowledge, as the screens meet it | |
| `ApprovalsQueue`, `ApprovalsBoard` | the approvals page of the web, the approvals screen of the phone | `ReviewServer` |
| `PhotoViewer` | screenshots behind addresses that run out, zoom and pan, a venue's photos | |
| `RefundsDesk`, `BookingMoney` | "Refunds to pay"; settling one finished booking | |
| `Discovery`, `CardPhotos`, `SlotPicker`, `PlayerHold` | search and filters; a card's photos; choosing a time; chat, payment page and status page | |
| `PlayerBookings`, `GameReviews` | the player's lists and booking page; ratings, replies, hidden reviews | |
| `OwnerRows` | the rows of the owner's lists and what the server accepts about each | |
| `DayBoard`, `BookingHistory` | the owner's day and history | `OwnerRows` |
| `VenueWizard`, `VenueCards`, `CourtSettings` | registering a venue; its settings; its courts | |
| `StaffAccess`, `StaffTeam` | what staff are offered, can open and are served; the owner's staff page | |
| `AuthForms`, `AccountForms`, `Alerts`, `PremiumDesk` | codes and sign-in; profile, photo, number; bell and push; premium pages of owner and admin | |
| `MCCourtBookings`, `MCPaymentReview`, `MCPaymentLedger`, `MCOwnerBilling` | values of the constants for TLC | their modules |
| `MCClientScreens` | one instance each of the 26 screens and services, one at a time | `INSTANCE` of each |
| `CourtBookingsProofs`, `PaymentReviewProofs`, `PaymentLedgerProofs`, `OwnerBillingProofs`, `ClientSessionProofs`, `WaitlistProofs` | theorems and proofs | their modules and `TLAPS` |
| `MoneyProofs` | theorems and proofs about the parts that deal with one payment at a time | `ShortPayments`, `INSTANCE` of `PlayerPoints`, `BookingMoney`, `RefundsDesk`, `PlayerHold` |
| `ClientScreensProofs` | the three small services and those three screens as `MCClientScreens` composes them | `MCClientScreens`, `INSTANCE` of `MoneyProofs` and `WaitlistProofs` |

Conventions. A request that reads, awaits and then writes is two actions (`BeginX` and `X`). What
the code tests on the *loaded object* is remembered in the request; what it tests in the `WHERE`
of its UPDATE, in a constraint or under a row lock is read from the variables at the second step.
A handler that does everything in one locked or conditional statement is one action. In the
screens, `ui` is what the page keeps, `server` what it talks to (with the changes others make),
and `calls` the requests in flight: sent, answered, or lost on the way there or back. Definitions
marked `Mutation:` are plausible bugs of the definition that follows them; `PROJECT.json` says
which property each of them breaks. Names of functions and fields follow the code.

### CourtBookings and SlotCalendar

Variables are the columns `status`, `starts`, `ends`, `heldUntil`, `deadline`, the clock `now`,
and the rows that some submit or check-in has read (`submitting`, `checkingIn`). A booking that
does not exist yet is a request: `absent`, then `hold_quoted`/`walkin_quoted` once `quote_range`
has passed (`RequestHold`, `RequestWalkin`), then inserted (`InsertBooking`, which releases
run-out holds and inserts in one transaction) or refused with 409 (`RefuseBooking`). All guarded
transitions go through `AtomicTransition`, the conditional UPDATE of `_atomic_transition`;
check-in does not, and is modelled as it is. `live_claim` (read side, `held_until > now`), the
constraints (status alone), the release (`held_until <= now`) and the job (`held_until < now`)
are four separate definitions because the code compares four times.

`SlotCalendar` is what the table promises to anybody who books: claims own sets of slots, no slot
has two owners, a claim leaves only by giving its slots back, or, if it has lapsed, by being
swept aside in the very step that lets another claim in. `CourtBookings!Calendar` is the
refinement mapping: a live row owns its ticks, a run-out hold has lapsed.

### PaymentReview

Variables are the booking (`status`, `ended` = who or what cancelled it, `lapsed`), per proof
`verdict`, `purpose`, the amount `shown` and what an approval `confirmed` and `credited`, the
booking's `paid`, the refunds `owed` per reason and the zero-amount rows left for an admin
(`trail`). `req` holds the requests in flight with the status they loaded (`seen`) and an amount
(`due`). `queue_excess` and `leave_trail` are the second commits of an advance_only approval and
of a rejection; with `Crashes` the server may stop before them. `MCPaymentReview` adds the
history variable `crashed`.

### PaymentLedger

`entries` is the sequence of ledger rows; `amountPaid` the column; `Sums` the sums of the first
0, 1, ... rows. Every writer locks the booking row and re-sums, but on an object it loaded
earlier: assigning the value that was loaded emits no UPDATE (`RecomputeTotals`). `req` keeps
what a request had loaded. `owed` and `refunded` are the refund row and its partial pay-outs.

### OwnerBilling

`feature` are the owner's feature rows, `invoice` invoices with their lines, `payment` the
platform payments (a reversal is a mark on the payment it reverses), `uploading` the uploads
between their check and their insert, and `job` the billing job between its reads and its writes.
`ReadStatuses`/`WriteStatuses` are `refresh_statuses`, `ReadDueLines` and
`IssueInvoice`/`SkipInvoice` are `generate_for_owner` with the unique index
`uq_owner_invoice_cycle` (`CycleTaken`). `Extended` and `RolledBack` are `_extend_coverage` and
`_roll_back_coverage`. Days are numbers and `MonthEnd` is any calendar of months. Amounts are
left out: a line's amount follows from its days and a payment has its invoice's total.

### ClientSession

`live` and `issued` are the server's sessions, `stored` and `cached` the browser's local storage
shared by the tabs, `tab` the auth store of each tab, `refresh` the one `refreshPromise` of the
api client, and `call` the request of each kind in flight: `me` (the restore), `page` and
`logout`. A 401 is retried with the current token if it changed meanwhile (`RetryWithCurrent`),
else waits for the shared refresh (`AwaitRefresh`), which everybody who waits joins
(`JoinRefresh`) and whose end resumes or fails all of them.

### Short payments, points, waitlist

The services keep their columns as one record (`db`, or `rows`) and each request or job pass as a
stage with the row it loaded, which it writes back as the ORM does: the columns it changed.
`note` (or `marks`) records what has happened for the properties.

`ShortPayments` follows one finished booking: what is due, the claim and its rounds, the fine, and
the due mirrored for the owner. A screenshot that is approved after the bank check said "bank
mein nahi mila" leaves the money marked as missing, as `ApproveProof` does.
`PlayerPoints` keeps the append-only entries as a total per booking and reason (`entry[b][r]`);
the balance is the sum over bookings (`Sum`). Money comes by transfer or cash (`Pay`), is corrected
down (`TakeMoneyBack`), and the price can be set anew at the end (`FinalPrice`). An award is three
steps, because the code reads what is due, then the entries, then writes (`LookAtDue`,
`LookAtEntries`, `Award`). The bank check is its commits: the reversal, the mark
(`MarkNotReceived`, `Marked`), two requests that may both find the case undecided (`DecideReads`,
`Decide`), and then the staff member pays and the points stay (`StaffPays`) or the player is asked
and the points are taken back on a balance read before (`TakeBackReads`, `TakeBack`). `note` holds
the exceptions: `short`, the points had been spent; `late`, an award was written after the look at
what was earned; `overtaken` and `over`, a deduction was written on a balance that another one had
used meanwhile, and by how much.

`Waitlist` numbers the entries as they come; a wave sends to the *tickets* it has chosen, an entry
with the number it had, because an entry may be left and joined again while the message is on its
way. The cron job picks all stale entries in one step (`AdvanceStaleNotifications`), then goes
through its old list: the check of one entry and the start of a wave for the slot (`GiveUp`), the
wave's own reading, sending and writing, whose commit takes along whom the job has given up so
far, and a last commit for the others (`JobEnds`).

`BookingMoney` makes every commit of a save a step of its own: the row is loaded (`Begin`) and then
a completion writes money and mark (`MarkCompletion`, an absolute target from the loaded amount) and
the status later (`SettleStatus`); taking back a no-show sends the screenshot, or writes the price,
records the cash and settles the status in up to four transactions (`SendProof`, `SetPrice`,
`TakeCash`, `SettleStatus`), and may stop between any two. `server.crossed` says that another
request's money or price came between.

### The screens

Each module's opening comment says what its state is; `MCClientScreens` says in one variable,
`screen`, which instance a behaviour is about.

## 3. Runs

| Run | Module, instance | What it asks |
|---|---|---|
| `court_bookings` | `MCCourtBookings`: 2 bookings, 2 grid slots, lengths 1 and 2, hold and review of 1 tick, requests up to tick 2, clock to 5 | types; no two live rows overlap; a refusal has a live claim behind it; a dead row stays dead; the table implements `SlotCalendar`; an unpaid claim ends |
| `payment_review` | `MCPaymentReview`: 2 proofs, 3 requests, price 2, advance 1, amounts 1 to 3, balance proofs, crashes between commits | types; a rejection frees the slot; booked on one advance; a cancel is refunded at most once and never above what was paid; accepted money is credited or owed back; the first verdict is final; a review spares a paid slot |
| `payment_ledger` | `MCPaymentLedger`: 2 requests, price 3, amounts 1 and 2, at most 3 rows | types; pay-outs within what is owed and in the ledger; the column was the sum; recording stays within the price |
| `owner_billing` | `MCOwnerBilling`: 2 features, 2 invoices, 3 payments, trial, lead and grace of 1 day, months of two days, 3 days | types; no day billed twice; payments back their invoice; paid lines are covered |
| `client_session` | `ClientSession`: 1 tab, 2 tokens, 2 attempts, refresh answers may be lost | types; a reload finds the token; only dead tokens are refreshed; signed out only when the session is over, or by the rate limiter; every call settles |
| `client_screens` | `MCClientScreens`: the screens and the small services, one instance of each (`Waitlist` twice), 26 in all; the sizes of what section 4 proves about are constants (`SizesAssumption`) given in the cfg: 2 requests of a short payment, 2 players or 2 slots, 2 bookings and a wave, 2 bookings with points, a price and a refund of 2, 2 saves, 2 refunds sent, 2 tries of a hold; the others are fixed in the module | types, and what each group of screens promises |
| `slot_sold_twice`, `check_in_over_cancel`, `paid_cancel_no_refund`, `receipt_lost`, `due_not_invoiced`, `paid_through_unpaid` | the same modules, small instances | expected violations, section 5 |

`client_screens` checks one conjunction of promises per group of screens: `Approvals`
(`ApprovalsQueue`, `ApprovalsBoard`, `PhotoViewer`), `Picker` (`SlotPicker`, `Discovery`,
`CardPhotos`), `Money` (`BookingMoney`, `RefundsDesk`), `Hold` (`PlayerHold`), `Wizard`
(`VenueWizard`), `Settings` (`VenueCards`, `CourtSettings`), `Auth` (`AuthForms`,
`AccountForms`), `Bell` (`Alerts`), `BookingLists` (`DayBoard`, `BookingHistory`), `Staff`
(`StaffAccess`, `StaffTeam`), `Player` (`PlayerBookings`, `GameReviews`), `Premium`
(`PremiumDesk`) and `Services` (`ShortPayments`, `Waitlist`, `PlayerPoints`), each with
`Faithful` after the name. The named parts, and what they promise, are in the modules. The
instances share no state: the run is 26 small model checks under one name.

**Bounds.** Two bookings give every overlap of a live row, a newcomer and a run-out hold; the
clock leaves time for every deadline that a request up to `LastRequest` can set to pass and for
the job to come round. In `payment_review` a third request makes two reviews of one proof overlap
with a submit or a cancel; prices and amounts are the smallest that tell an advance, the exact
price and an overpayment apart. Three ledger rows hold a recording, its correction and a pay-out.
Two invoices and three payments hold a reversal of either of two paid months, and a feature
switched off and on again. For the screens `Budget` bounds what the user does a second time and
what goes wrong or changes elsewhere together (on the refunds page, what is sent and what others
pay out), so that either happens to the full but not both at once. The
theorems of section 4 hold for any number of bookings, proofs, requests, features, invoices,
tokens and tabs, and for any price, amounts, calendar and deadlines.

On the money popup nothing is typed after the last save, only closed (`NoMoreTyping`); for the
points requests in flight and payments share a bound of three, for the waitlist joins and lost
processes one of two. Each exception named by a property of these services is reached within them.

**Symmetry** (requests, features, invoices) is used only in runs without liveness. **Deadlock** is
checked in `owner_billing` and `client_session`. It is off in the others because the system may
stop there: the clock is at its bound, the booking is finished, or the user has done what the
bound lets him do.

**Fairness.** `CourtBookings!FairSpec` is weakly fair for `Tick` and `ExpireStaleBookings`: time
passes and cron starts the job every minute, one run at a time (`flock -n`). It says nothing of
requests: `UnpaidClaimsEnd` must hold when nobody does anything. `ClientSession!FairSpec` is
weakly fair for the steps of a request and of the refresh (the network answers, fails or times
out: `client.ts` gives every `fetch` a time limit or passes its error on) and for a page's effect
that restores the session. Users are never fair.

## 4. Proofs

Each of these modules extends the one it is named after (`PaymentReviewProofs` through
`MCPaymentReview`, which has the history variable; `MoneyProofs` extends `ShortPayments` and
instantiates the other four), and all were checked with TLAPS (Z3, Zenon and LS4). Every theorem
holds for all values of the constants that satisfy the one assumption of its module:
`TimingAssumption`, `MoneyAssumption`, `LedgerAssumption`, `BillingAssumption`,
`SessionAssumption`, `SizesAssumption`. They say that amounts, lengths and limits are natural
numbers, that a price is positive, that the advance is not above it, that a month ends on or after
each of its days, that slots are numbered from 1, that the bookings whose points are added up are
finitely many and that the job is not one of the venue's requests. `SlotCalendar` assumes nothing.
TLC evaluates each assumption in the runs. In `MoneyProofs` and `WaitlistProofs` the assumptions
are hypotheses of the lemmas and theorems (`ShortAssumption`, `WaitAssumption`, `PurseAssumption`,
`MoneyAssumption`, `DeskAssumption`), because these modules are used through INSTANCE;
`ClientScreensProofs` discharges all of them from `SizesAssumption` (`Assumed`). The bounds (`MaxTime`, `MaxEntries`,
`MaxToken`, ...) are constants like the others: the theorems hold for each value of them. `Budget` of
`MCClientScreens` is not a constant, so its theorems are about `FreeSpec`, the same steps without
`Budget`, as well as about `Spec`.

| Module | Theorems | Inductive invariant, and why the property alone is not inductive |
|---|---|---|
| `CourtBookingsProofs` | `TypeCorrect`, `NeverDoubleBooked`, `RefusalsAreHonest`, `DeadRowsStayDead`, `TableImplementsCalendar`, `CalendarIsExclusive`, `SlotsHaveOneOwner` | `NoDoubleBooking` with the types: `LiveOnlyByInsert` shows that a row becomes live only by an insert, and an insert passes the constraint after the release. Refusals and the refinement need that the release and the read side agree at `held_until = now`. `StepSimulation` is the refinement's step: a step of the table is a step of the calendar or a stutter. `CalendarIsExclusive` is about the abstract calendar, exclusive as it stands; with the refinement it gives `SlotsHaveOneOwner`: no slot of the table's calendar has two owners |
| `PaymentReviewProofs` | `TypeCorrect`, `RejectionsReleaseSlots`, `ConfirmedOnce`, `FirstReviewIsFinal`, `PaidSlotIsSpared`, `CancelOwesAtMostOnce`, `AcceptedMoneyStays` | `Core`: at most one proof is pending (`OnePending`, the partial unique index); a request knows the proof it is about; a rejection in flight that may cancel has an unpaid booking as long as its proof is pending (`StillUnpaid`); who loaded the row as booked never finds it awaiting again; before it is booked there is no money. `CancelOwesAtMostOnce` adds `CancelOwed`: a booking that is not cancelled owes nothing for a cancel, and what is owed is within what was paid. `AcceptedMoneyStays` adds `Kept`: what was confirmed is credited, owed, or carried by the one request between the two commits (`Carried`, `OneCarrier`), unless the server stopped there |
| `PaymentLedgerProofs` | `TypesHold`, `RefundsFit`, `ColumnIsASum`, `RecordingStaysWithinPrice` | `Consistent`: a reversal in flight points at a row of the right kind; only a cancelled booking owes; a pay-out in flight fits in what was owed when it looked (`PayOutsFit`, with the conditional write). Lemmas on sums: a row more changes the sum by its amount |
| `OwnerBillingProofs` | `TypeCorrect`, `NeverBilledTwice`, `PaymentsAgreeWithInvoices`, `PaidDaysAreKept` | `Consistent`: lines belong to rows and lie after the trial (`LinesBelong`); what the job read is still free of every invoice (`JobIsFresh`); payments belong to invoices. `PaidDaysAreKept` needs `NoDayBilledTwice` beside it |
| `ClientSessionProofs` | `TypeCorrect`, `ReloadsFindTheToken`, `LiveTokensAreSpared`, `SignedOutWhenOver` | `Core`: no page and no request names a token that was not issued (`TokensIssued`, or a new token could be one that is already refused); a refused token is dead (`RefusedIsDead`); who waits for a refresh may still retry; a log-out on the wire is known to the store; with a single tab the stored token is the tab's (`InStep`) |
| `MoneyProofs`, short payments | `TypeCorrect`, `FinedOnce`, `SettlingReturnsTheFine`, `FinesAreForSilence`, `AnswersStand`, `DuesAreCarried` | `Core` speaks of the rows in flight too: no row a request or the job loaded says that more was taken than was (`FinesFit`), so that even a stale write returns no more than the fine; without stale writes the claim tells whether the fine is still with it (`FineFollowsClaim`), whether it was answered (`AnswerKept`) and whether there was silence to fine (`SilenceKnown`). `DuesAreCarried` needs `Carried` beside it: at most one request carries a row it has loaded (`OneCarries`), an open claim with nothing due is about to be settled and a settled one with money due is about to be opened again (`OpenIsSettled`, `SettledIsOpened`), and a request on its way acts on what is due now, unless another one follows it (`OpensWhatIsDue`, `SettlesWhatIsPaid`). The theorems are the parts of `ShortPayments!Faithful` |
| `MoneyProofs`, the points and three screens | lemmas for `ClientScreensProofs`: each part starts in its invariant, keeps it and is `Faithful` in it `PurseInv`: until the final price the price, the discount and the points spent agree (`PriceIsPaidFor`); points come back once (`PointsComeBack`); who is awarded, or looks at the entries to be, was paid for in full without cash (`Earned`); one request takes points back, of a player who is asked, no more than was earned and no less unless `late` or `short` (`Asked`: `NoMoreTaken`, `OneTakes`, `AllTaken`); what a deduction has read is still there unless it was overtaken (`Funds`). `MoneyInv` (`BookingMoney`): while nothing crossed, a request's reading of price and money still fits (`AtWork`), no more is recorded than the price and what is marked as paid is (`PaidUp`); before the first save, and while nobody else has recorded a payment, the popup shows what the server has (`ShownIsTrue`), so the first save on its way gets the mark its form announced (`PlanHolds`). `DeskInv` (`RefundsDesk`): whatever a list, a dialog, a summary or an answer says is left, no more is left now (`SaidEnough`); on the web one request at a time is on its way, the open dialog's, or nothing is left (`OneRequest`), and what the owner was not told is what that request did and what lost answers would have said (`ToldNext`). `HoldInv` (`PlayerHold`): a question is on its way only when everything asked so far was written before it (`OneAsk`), before the first hold nobody has seen one (`NothingHeld`), whoever saw the only hold cancelled saw the end of it (`SeenGone`), an answer about the booking names a status (`AnswersSay`), and a hold takes one proof and is no longer held then (`ProofKept`), whether or not an upload was repeated |
| `WaitlistProofs` | lemmas for `ClientScreensProofs` | `WaitInv`: entries are numbered as they come, so a ticket never names a later entry (`Numbered`); who waits for an unclaimed slot has seen it free (`SeenFree`), and so has everybody who was told or is about to be (`FreedFirst`); one wave at a time tells an entry, once, unless two had crossed (`ToldByOne`); whom the job has on its list was told, or is gone, and is never a later entry (`GivenUp`); nobody waits for the slot their own booking starts with (`OwnSlot`); who waits for a slot that was taken waits on a booking that is not over or on a wave that reaches them (`Remembered`) |
| `ClientScreensProofs` | `ServicesAreAlwaysFaithful`, `MoneyIsAlwaysFaithful`, `HoldIsAlwaysFaithful` | `PartsInv`, none of its own: each part's invariant, used through INSTANCE. Two instances of one module are equal because all their definitions are (`ShortIsTheSame`, `WaitIsTheSame`, `MoneyIsTheSame`, ...); while a part is on `screen`, no other step touches its variables (`OneAtATime`, `PartsGoOn`); TLC's `Budget` is not used (`FreeSpec`) |

Theorems about actions (`DeadRowsStayDead`, `FirstReviewIsFinal`, `PaidSlotIsSpared`,
`RecordingStaysWithinPrice`, `LiveTokensAreSpared`, `SignedOutWhenOver`, `RefusalsAreHonest`)
follow from the invariant and one case per action.

The sum of the ledger, `Sums`, is a recursive function and not a RECURSIVE operator, so that it
can be reasoned about. The induction theorem of the library takes an operator as a parameter,
which the provers at hand cannot instantiate; `LeastNumber` (a non-empty set of naturals has a
least element) takes its place: `SumsExist` and `SumsOfMore` reason about the first
place at which a claim fails. The balance of the points is a fold over a set of bookings, a function of
the subsets of `PurseBookings`: that there is such a function, and that one entry changes the
sum by its points (`SumOfOneChange`), is shown the same way, on the sizes of the subsets for
which the claim fails.

Three of these proofs changed the models. The attempt at `DuesAreCarried` showed that
`ShortPayments` forgot, when a screenshot was approved after the bank check, that the money was
still marked as missing. `OnlyTransfersEarn` was sharpened to what `Earned` shows: what is left of a
booking's points once they were taken back is nothing, unless its award was under way or the points
had been spent. And `BookingMoney` had kept the row still while a form was open. It is loaded anew
under the form: the web's dialogs go on counting with the row they were opened for, the app's sheets
read the new one, and in the app the answer to any save closes whatever sheet is open.

**Only model-checked.** The liveness properties `UnpaidClaimsEnd` and `EveryCallSettles` (fairness
and ENABLED are out of the prover's reach). Of `MCClientScreens` everything but
`ServicesFaithful`, `MoneyFaithful` and `HoldFaithful`: the other screens are many and small, and
their sizes are fixed numbers, so that the run visits every state of them. The violations, which need a behaviour and not a proof.

## 5. What the code does not keep

Six places where the code disagrees with a comment, a docstring or an audit of the repository;
each has a run whose counterexample shows it, and an entry under `findings` that quotes the line.

- `slot_sold_twice` (`services/booking_service.py:784`): check-in makes a booked row `completed`
  at any time of day, the row leaves the live set, and its unplayed slot can be sold again.
- `check_in_over_cancel` (same line): check-in tests the loaded row and writes by primary key, so
  a cancel that commits in between is overwritten.
- `paid_cancel_no_refund` (`:459`): the refund is decided on the status that was loaded, the
  cancel on the one in the table: a cancel loaded before an approval cancels a paid booking and
  owes nothing.
- `receipt_lost` (`services/owner_overview_service.py:1014`): a target computed from a stale
  amount is enforced as a total, and takes out what another request recorded meanwhile.
- `due_not_invoiced` (`services/owner_billing_service.py:231`): a unique-index refusal is taken
  for a repeated run, but a feature left out and switched on again with the first day of an
  existing invoice meets it every day, and all that is due later with it.
- `paid_through_unpaid` (`services/owner_payment_service.py:319`): reversing the older of two
  payments first leaves `paid_through` in a month nobody paid.

Other things were seen while modelling and have no run. Where they touch a checked property
it names the exception ("unless ..." in its comment), and everything else stays checked.

*Payments and billing.* A balance proof approved on a status loaded before a cancel is credited
after the refund was computed (`payment_service.py:1005`). A crash between the two commits of an
advance_only approval loses the excess (`:1049`; the `~crashed` of `AcceptedMoneyIsKept`). Two
refund requests at once are both recorded (`booking_service.py:596`). The cap of a proof's credit
ignores cash recorded earlier (`booking_service.py:681`). The ledger's column can be left at another request's value until the next
entry (`payment_ledger_service.py:30`). Two bank checks can both take one transfer back
(`bank_missing_service.py:86`). Paying an old invoice beyond its grace sets the feature active
while the gates answer lapsed (`owner_payment_service.py:309`).

*Short payments.* The job fines a claim that was settled without an answer (a reply is then
refused), and overwrites a reply that committed after its select (`phase3_service.py:720-726`). A
payment resolved by a row loaded before the fine does not give it back. A reply between a fresh
round's load and its write is lost. A completion corrected after the settlement reopens the claim
with the old deadline. Recording the balance by `POST payment-entries` does not settle the claim,
though `models/audit_phase3.py:58` lists it as settling.

*The owner's money.* Taking a no-show back checks its price and money on a row loaded without a
lock and commits them one after the other (`phase3_service.py:513-599`): another payment, price or
completion in between can leave more recorded than the price, and a stop in between leaves a final
price without its money (`server.crossed`).

*Waitlist and points.* Rejecting a balance screenshot tells the waitlist of a slot that is not
free (`payment_service.py:1126`). A lapsed two-slot hold that a one-slot booking releases frees
the other slot without telling anybody. A crash between a booking's end and its wave is never
retried; who joins for a free slot hears of it only from a later sweep; who left may still get a
wave's message; two waves that read the list at once tell twice; a hold closes only the entry of
its first slot. Two deductions that read one balance take the sum of the entries below zero by as much as
one of them, though `models/audit_phase3.py:3` says "Never below 0" (`note.over`); two decisions on
one missing transfer can both go through, so that staff pays and the player is asked as well; points awarded stay when the booking is cancelled afterwards, and an award in
flight may come after the take-back.

*Screens.* The done page of the web shows the journey without its proof step
(`booking/[id]/done/page.tsx:198`); a booking confirmed and then cancelled reads "The venue did
not accept it". The phone's owner overview offers no-show for a done booking
(`overview.ts:126-133`), the web's day board offers both marks on a no-show row, which answers
409; the rollback of one of two overlapping marks undoes the other (`today/page.tsx:148,175`).
The set-up wizard makes a court twice after a lost answer. A restore may end without having
found out whether anybody is signed in. A refresh that meets the rate limiter's 429 signs the page
out of a session that is alive (`client.ts:107` against the comment at `:68-71`; `throttled`), and a refused refresh signs the browser out although its
other tab has just been given a session (`RestoreDecides` and `RejectedMeansSignedOut` in
`ClientSession` state the opposite and are in no run). The app's money box in "No-show hatayein" may hold more than is left when
its row changes under it; the sheet then cannot be saved. A slot that is taken while the popup's sheet is open stays in the sheet, and Continue asks for it
(`court-day-popup.tsx:115-126`, against the comment at `:123`; `duration-sheet.tsx:131-135`);
because a query keeps its last data while it is fetched anew (`query-client.ts:8`), Continue may
also go on with the price and length of the previous choice, and the venue screen may show the
price of the previous selection. The phone's refund sheet records a second time after a lost answer
(`refund-sheet.tsx:33`), and so does the web's form, which stays open with what was typed
(`refunds/page.tsx:327-343`; `server.lost`). After an answer with a status (429, 5xx), or with
another picture, the phone's payment page sends again without asking first
(`pay.tsx:128,145-152`, against the comment at `:130`); only the server's status check keeps the
proof single. The password remembered for the retry after a code stays in memory after every other
way of signing in (`pending-auth.ts:7-9` says otherwise; only `verify-form.tsx:78` clears it). The
premium page saves a selection at the price of the day it arrives, not the one shown, and forgets
what was ticked while the save was under way. In the venue's settings blanking a field does not clear it, a hidden box keeps
its invalid value (`settings-defaults.ts:123`) and the advance example can differ from
what is charged (`advance-preview.ts:86`); the floodlight timeline calls a closed hour free
(`owner-floodlight.ts:185`). Staff with only `approve_payments` can open the approvals page, whose
list the server refuses them; a hint about permissions is stale (`staff.tsx:108`). The phone's
screenshot viewer shows an error for a cached address that ran out (`screenshot-viewer.tsx:20-43`);
a search by date alone is not sent (`venue-filters.ts:97`); a filter changed while the next page
is on its way mixes pages. The premium notice says an unpaid trial "keeps working until" a day
on which it has stopped (`entitlement_service.py:183-190`). In the account forms the number can be
edited while its code is asked for, a profile answer may come after sign-out, and edits during a
save are overwritten. Reviews are seeded into the screen once; stale permission edits of staff
overwrite newer ones; the push subscription's snapshot survives a log-out, and a session that
expires never unsubscribes; the phone's approvals grey the wrong card while busy; a held card
cancelled just after its approval cancels a paid booking.

## 6. What is not modelled

The `components` of `PROJECT.json` list every part with its status and the reason. In short:

- *beside a modelled part*: the players' counters and reliability score; the second commit of a
  walk-in with money received (status and ledger are in different modules); balance proofs of completed and no-show bookings; duplicate screenshots and OCR (a
  choice of outcome and amount); the billing price list, the enforcement flag, proration,
  reminders, and a second billing job started by hand; `reapply_payment_deadlines`; rate limits
  and the counting of attempts; the computation of schedules, prices and blackouts (a quote is
  free or refused);
- *parts of their own*: the WhatsApp webhook and the AI chat, reminders and digests, growth and
  referrals, the sending of notifications (the log and the subscription are modelled),
  favourites, and the admin's other pages: their state is small and their difficulty lies in
  outside services;
- *no behaviour of their own*: HTTP routing, migrations, deployment, marketing pages, styling.

Time is in ticks or days; amounts are small numbers with the same comparisons; names, texts,
photographs and messages are members of small sets.

## 7. Plan

Done: the modules and runs above, and the theorems of section 4, which state every property of the
backend's runs that is not about liveness. Next, in this order: an abstract specification of a
review (a proof is decided once, money goes where the verdict says) that `PaymentReview` refines;
then the missing parts that have state: inbound WhatsApp messages (redelivery against the row
recorded before handling), one-time codes with their attempts, re-applied deadlines, quotes that
go stale between price and insert; then the other screens whose requests cannot be repeated
(`ApprovalsQueue`, `ApprovalsBoard`, `VenueWizard`) with their sizes as parameters, and their
promises as theorems.
