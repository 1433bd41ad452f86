------------------------- MODULE ClientScreensProofs -------------------------
(***************************************************************************)
(* Proofs about the server's small services and three of the screens as    *)
(* MCClientScreens composes them: short payments, the waitlist (of one     *)
(* slot and of a range) and a player's points, for any number of requests, *)
(* players, slots, bookings and waves, any prices and points; the owner's  *)
(* money popup, the refunds to pay and the player's hold, for any amounts  *)
(* and any number of saves, submits and tries.                             *)
(*                                                                         *)
(* Each has its inductive invariant in the module that proves about it     *)
(* alone.  Those modules are instantiated here with this module's          *)
(* variables, as MCClientScreens instantiates the parts: the two instances *)
(* of a part say the same (ShortIsTheSame and the others), so what is      *)
(* proved of one holds of the other, and while a part is on no other step  *)
(* touches its variables (PartsGoOn).                                      *)
(***************************************************************************)
EXTENDS MCClientScreens, TLAPS

MP == INSTANCE MoneyProofs WITH
    db <- server, rows <- server, list <- ui, work <- calls, note <- marks,
    Requests <- ShortRequests, Price <- ShortPrice, Points <- ShortPoints,
    MaxActs <- ShortActs, MaxTrouble <- ShortTrouble
WP == INSTANCE WaitlistProofs WITH
    rows <- server, list <- ui, work <- calls, note <- marks,
    Players <- WaitPlayers, Slots <- WaitSlots, Bookings <- WaitBookings, Waves <- Waves,
    MaxJoins <- WaitJoins, MaxTrouble <- WaitTrouble
WR == INSTANCE WaitlistProofs WITH
    rows <- server, list <- ui, work <- calls, note <- marks,
    Players <- RangePlayers, Slots <- RangeSlots, Bookings <- WaitBookings, Waves <- Waves,
    MaxJoins <- WaitJoins, MaxTrouble <- WaitTrouble

-----------------------------------------------------------------------------
(* Two instances of one part                                               *)

\* The facts take every definition of the part under both names.
LEMMA ShortIsTheSame ==
    /\ Short!Init <=> MP!Init
    /\ Short!Next <=> MP!Next
    /\ Short!Faithful <=> MP!Faithful
  BY
     DEF Short!vars, Short!Bonus, Short!Fine, Short!Reasons, Short!Idle, Short!NoClaim, Short!Balance,
         Short!AddPoints, Short!Added, Short!Flushed, Short!Init, Short!Odd, Short!Starts, Short!Acted,
         Short!To, Short!Completion, Short!SubmitProof, Short!ApproveProof, Short!RejectProof,
         Short!MarkNotReceived, Short!BankDecide, Short!RecordPaymentEntry, Short!Overlaps, Short!Load,
         Short!LoadAfter, Short!LoadFresh, Short!LoadSync, Short!Refreshed, Short!StartedOver,
         Short!OpenShortClaim, Short!Resolved, Short!ResolvePaid, Short!LoadDone, Short!MarkDueDone,
         Short!LoadDecide, Short!DecideCollect, Short!DecideWaive, Short!Abort, Short!CanReplyShort,
         Short!ReplyShort, Short!Pass, Short!JobSelect, Short!JobFine, Short!Next, Short!FineNow, Short!Quiet,
         Short!OneFine, Short!SettledKeepsNoFine, Short!OnlySilenceIsFined, Short!AnswerStands,
         Short!DueIsCarried, Short!Faithful, MP!vars, MP!Bonus, MP!Fine, MP!Reasons, MP!Idle, MP!NoClaim,
         MP!Balance, MP!AddPoints, MP!Added, MP!Flushed, MP!Init, MP!Odd, MP!Starts, MP!Acted, MP!To,
         MP!Completion, MP!SubmitProof, MP!ApproveProof, MP!RejectProof, MP!MarkNotReceived, MP!BankDecide,
         MP!RecordPaymentEntry, MP!Overlaps, MP!Load, MP!LoadAfter, MP!LoadFresh, MP!LoadSync, MP!Refreshed,
         MP!StartedOver, MP!OpenShortClaim, MP!Resolved, MP!ResolvePaid, MP!LoadDone, MP!MarkDueDone,
         MP!LoadDecide, MP!DecideCollect, MP!DecideWaive, MP!Abort, MP!CanReplyShort, MP!ReplyShort, MP!Pass,
         MP!JobSelect, MP!JobFine, MP!Next, MP!FineNow, MP!Quiet, MP!OneFine, MP!SettledKeepsNoFine,
         MP!OnlySilenceIsFined, MP!AnswerStands, MP!DueIsCarried, MP!Faithful
LEMMA WaitIsTheSame ==
    /\ Wait!Init <=> WP!Init
    /\ Wait!Next <=> WP!Next
    /\ Wait!Faithful <=> WP!Faithful
  BY
     DEF Wait!vars, Wait!NoRow, Wait!Dead, Wait!NoEntry, Wait!Idle, Wait!Job, Wait!Runs, Wait!NoJob, Wait!Init,
         Wait!Covers, Wait!Overlap, Wait!LiveClaim, Wait!Claimed, Wait!Taken, Wait!Undead, Wait!FreeWave,
         Wait!Wave, Wait!Seen, Wait!Odd, Wait!InsertBooking, Wait!HoldRunsOut, Wait!Book, Wait!Release,
         Wait!RejectBalance, Wait!Join, Wait!Joined, Wait!Cancel, Wait!Waiting, Wait!Ticket, Wait!Chosen,
         Wait!MatchingEntries, Wait!Read, Wait!NotifyMatchingEntries, Wait!Told, Wait!Without, Wait!Writes,
         Wait!Commit, Wait!Dies, Wait!Grace, Wait!Stale, Wait!AdvanceStaleNotifications, Wait!GiveUp,
         Wait!JobEnds, Wait!Next, Wait!WaveOver, Wait!NoFalseAlarm, Wait!NobodyIsForgotten, Wait!ToldOnce,
         Wait!NotForOwnSlot, Wait!OnlyToldAreGivenUp, Wait!Faithful, WP!vars, WP!NoRow, WP!Dead, WP!NoEntry,
         WP!Idle, WP!Job, WP!Runs, WP!NoJob, WP!Init, WP!Covers, WP!Overlap, WP!LiveClaim, WP!Claimed, WP!Taken,
         WP!Undead, WP!FreeWave, WP!Wave, WP!Seen, WP!Odd, WP!InsertBooking, WP!HoldRunsOut, WP!Book,
         WP!Release, WP!RejectBalance, WP!Join, WP!Joined, WP!Cancel, WP!Waiting, WP!Ticket, WP!Chosen,
         WP!MatchingEntries, WP!Read, WP!NotifyMatchingEntries, WP!Told, WP!Without, WP!Writes, WP!Commit,
         WP!Dies, WP!Grace, WP!Stale, WP!AdvanceStaleNotifications, WP!GiveUp, WP!JobEnds, WP!Next, WP!WaveOver,
         WP!NoFalseAlarm, WP!NobodyIsForgotten, WP!ToldOnce, WP!NotForOwnSlot, WP!OnlyToldAreGivenUp,
         WP!Faithful
LEMMA WaitRangeIsTheSame ==
    /\ WaitRange!Init <=> WR!Init
    /\ WaitRange!Next <=> WR!Next
    /\ WaitRange!Faithful <=> WR!Faithful
  BY
     DEF WaitRange!vars, WaitRange!NoRow, WaitRange!Dead, WaitRange!NoEntry, WaitRange!Idle, WaitRange!Job,
         WaitRange!Runs, WaitRange!NoJob, WaitRange!Init, WaitRange!Covers, WaitRange!Overlap,
         WaitRange!LiveClaim, WaitRange!Claimed, WaitRange!Taken, WaitRange!Undead, WaitRange!FreeWave,
         WaitRange!Wave, WaitRange!Seen, WaitRange!Odd, WaitRange!InsertBooking, WaitRange!HoldRunsOut,
         WaitRange!Book, WaitRange!Release, WaitRange!RejectBalance, WaitRange!Join, WaitRange!Joined,
         WaitRange!Cancel, WaitRange!Waiting, WaitRange!Ticket, WaitRange!Chosen, WaitRange!MatchingEntries,
         WaitRange!Read, WaitRange!NotifyMatchingEntries, WaitRange!Told, WaitRange!Without, WaitRange!Writes,
         WaitRange!Commit, WaitRange!Dies, WaitRange!Grace, WaitRange!Stale,
         WaitRange!AdvanceStaleNotifications, WaitRange!GiveUp, WaitRange!JobEnds, WaitRange!Next,
         WaitRange!WaveOver, WaitRange!NoFalseAlarm, WaitRange!NobodyIsForgotten, WaitRange!ToldOnce,
         WaitRange!NotForOwnSlot, WaitRange!OnlyToldAreGivenUp, WaitRange!Faithful, WR!vars, WR!NoRow, WR!Dead,
         WR!NoEntry, WR!Idle, WR!Job, WR!Runs, WR!NoJob, WR!Init, WR!Covers, WR!Overlap, WR!LiveClaim,
         WR!Claimed, WR!Taken, WR!Undead, WR!FreeWave, WR!Wave, WR!Seen, WR!Odd, WR!InsertBooking,
         WR!HoldRunsOut, WR!Book, WR!Release, WR!RejectBalance, WR!Join, WR!Joined, WR!Cancel, WR!Waiting,
         WR!Ticket, WR!Chosen, WR!MatchingEntries, WR!Read, WR!NotifyMatchingEntries, WR!Told, WR!Without,
         WR!Writes, WR!Commit, WR!Dies, WR!Grace, WR!Stale, WR!AdvanceStaleNotifications, WR!GiveUp, WR!JobEnds,
         WR!Next, WR!WaveOver, WR!NoFalseAlarm, WR!NobodyIsForgotten, WR!ToldOnce, WR!NotForOwnSlot,
         WR!OnlyToldAreGivenUp, WR!Faithful
LEMMA PointsAreTheSame ==
    /\ Purse!Init <=> MP!Purse!Init
    /\ Purse!Next <=> MP!Purse!Next
    /\ Purse!Faithful <=> MP!Purse!Faithful
  BY
     DEF Purse!vars, Purse!TransferPoints, Purse!RedeemPoints, Purse!NoshowTransferPoints, Purse!Reasons,
         Purse!OfBooking, Purse!Sum, Purse!Balance, Purse!AddPoints, Purse!Lesser, Purse!Settled, Purse!Written,
         Purse!Init, Purse!Paid, Purse!Due, Purse!Locked, Purse!Pay, Purse!TakeMoneyBack, Purse!FinalPrice,
         Purse!Becomes, Purse!NoShow, Purse!Complete, Purse!Cancel, Purse!LookAtDue, Purse!LookAtEntries,
         Purse!Award, Purse!AwardNoshow, Purse!MarkNotReceived, Purse!Marked, Purse!DecideReads, Purse!Decide,
         Purse!StaffPays, Purse!TakeBackReads, Purse!Deducts, Purse!Pending, Purse!TakeBack, Purse!Discount,
         Purse!Redeem, Purse!RedeemPaid, Purse!JobReads, Purse!JobReturns, Purse!Next, Purse!NeverBelowZero,
         Purse!DiscountIsPaidFor, Purse!ReturnedWhenDead, Purse!OnlyTransfersEarn, Purse!Faithful,
         Purse!MapThenSumSet, Purse!MapThenFoldSet, MP!Purse!vars, MP!Purse!TransferPoints,
         MP!Purse!RedeemPoints, MP!Purse!NoshowTransferPoints, MP!Purse!Reasons, MP!Purse!OfBooking,
         MP!Purse!Sum, MP!Purse!Balance, MP!Purse!AddPoints, MP!Purse!Lesser, MP!Purse!Settled,
         MP!Purse!Written, MP!Purse!Init, MP!Purse!Paid, MP!Purse!Due, MP!Purse!Locked, MP!Purse!Pay,
         MP!Purse!TakeMoneyBack, MP!Purse!FinalPrice, MP!Purse!Becomes, MP!Purse!NoShow, MP!Purse!Complete,
         MP!Purse!Cancel, MP!Purse!LookAtDue, MP!Purse!LookAtEntries, MP!Purse!Award, MP!Purse!AwardNoshow,
         MP!Purse!MarkNotReceived, MP!Purse!Marked, MP!Purse!DecideReads, MP!Purse!Decide, MP!Purse!StaffPays,
         MP!Purse!TakeBackReads, MP!Purse!Deducts, MP!Purse!Pending, MP!Purse!TakeBack, MP!Purse!Discount,
         MP!Purse!Redeem, MP!Purse!RedeemPaid, MP!Purse!JobReads, MP!Purse!JobReturns, MP!Purse!Next,
         MP!Purse!NeverBelowZero, MP!Purse!DiscountIsPaidFor, MP!Purse!ReturnedWhenDead,
         MP!Purse!OnlyTransfersEarn, MP!Purse!Faithful, MP!Purse!MapThenSumSet, MP!Purse!MapThenFoldSet
LEMMA MoneyIsTheSame ==
    /\ Money!Init <=> MP!Money!Init
    /\ Money!Next <=> MP!Money!Next
    /\ Money!Faithful <=> MP!Money!Faithful
  BY
     DEF Money!vars, Money!Blank, Money!Top, Money!Amounts, Money!Most, Money!NoForm, Money!Row, Money!Init,
         Money!Due, Money!StatusPending, Money!SettleAction, Money!MobileButtons, Money!WebButtons,
         Money!Buttons, Money!Shown, Money!Room, Money!AcceptReceived, Money!ReverseProblem, Money!ShortOK,
         Money!RecordOK, Money!FormOK, Money!Saving, Money!Plan, Money!Open, Money!TypePrice,
         Money!TypeReceived, Money!ChooseMethod, Money!PickShot, Money!WriteReason, Money!Close, Money!NotRead,
         Money!Request, Money!Save, Money!SaveYes, Money!Left, Money!Move, Money!Reads, Money!Answer,
         Money!Crosses, Money!Begin, Money!MarkCompletion, Money!Enters, Money!RecordEntry, Money!MarkNoShow,
         Money!ReverseOK, Money!ByTransfer, Money!RefuseReversal, Money!SendProof, Money!SetPrice,
         Money!TakeCash, Money!SettleStatus, Money!Lose, Money!Closes, Money!Saved, Money!Failed, Money!Load,
         Money!SlotEnds, Money!PaidElsewhere, Money!Next, Money!ReceivedFits, Money!PlanKept, Money!MoneyAddsUp,
         Money!Faithful, MP!Money!vars, MP!Money!Blank, MP!Money!Top, MP!Money!Amounts, MP!Money!Most,
         MP!Money!NoForm, MP!Money!Row, MP!Money!Init, MP!Money!Due, MP!Money!StatusPending,
         MP!Money!SettleAction, MP!Money!MobileButtons, MP!Money!WebButtons, MP!Money!Buttons, MP!Money!Shown,
         MP!Money!Room, MP!Money!AcceptReceived, MP!Money!ReverseProblem, MP!Money!ShortOK, MP!Money!RecordOK,
         MP!Money!FormOK, MP!Money!Saving, MP!Money!Plan, MP!Money!Open, MP!Money!TypePrice,
         MP!Money!TypeReceived, MP!Money!ChooseMethod, MP!Money!PickShot, MP!Money!WriteReason, MP!Money!Close,
         MP!Money!NotRead, MP!Money!Request, MP!Money!Save, MP!Money!SaveYes, MP!Money!Left, MP!Money!Move,
         MP!Money!Reads, MP!Money!Answer, MP!Money!Crosses, MP!Money!Begin, MP!Money!MarkCompletion,
         MP!Money!Enters, MP!Money!RecordEntry, MP!Money!MarkNoShow, MP!Money!ReverseOK, MP!Money!ByTransfer,
         MP!Money!RefuseReversal, MP!Money!SendProof, MP!Money!SetPrice, MP!Money!TakeCash,
         MP!Money!SettleStatus, MP!Money!Lose, MP!Money!Closes, MP!Money!Saved, MP!Money!Failed, MP!Money!Load,
         MP!Money!SlotEnds, MP!Money!PaidElsewhere, MP!Money!Next, MP!Money!ReceivedFits, MP!Money!PlanKept,
         MP!Money!MoneyAddsUp, MP!Money!Faithful
LEMMA DeskIsTheSame ==
    /\ Desk!Init <=> MP!Desk!Init
    /\ Desk!Next <=> MP!Desk!Next
    /\ Desk!Faithful <=> MP!Desk!Faithful
  BY
     DEF Desk!vars, Desk!Remaining, Desk!Unlisted, Desk!Bad, Desk!NoForm, Desk!Init, Desk!AmountError,
         Desk!WebPanel, Desk!MobilePanel, Desk!WebForm, Desk!MobileForm, Desk!Panel, Desk!OfThisForm, Desk!Busy,
         Desk!SettlePermission, Desk!Withdraw, Desk!Fetch, Desk!OpenFor, Desk!ShowRefunds,
         Desk!RecordedElsewhere, Desk!OpenForm, Desk!Fill, Desk!MayClose, Desk!Close, Desk!Submit,
         Desk!MarkRefundPaid, Desk!LoseAnswer, Desk!WebAnswered, Desk!MobileAnswered, Desk!Answered, Desk!Done,
         Desk!Next, Desk!NeverRecordedBlind, Desk!SavedIsRecorded, Desk!NothingForgotten, Desk!Faithful,
         MP!Desk!vars, MP!Desk!Remaining, MP!Desk!Unlisted, MP!Desk!Bad, MP!Desk!NoForm, MP!Desk!Init,
         MP!Desk!AmountError, MP!Desk!WebPanel, MP!Desk!MobilePanel, MP!Desk!WebForm, MP!Desk!MobileForm,
         MP!Desk!Panel, MP!Desk!OfThisForm, MP!Desk!Busy, MP!Desk!SettlePermission, MP!Desk!Withdraw,
         MP!Desk!Fetch, MP!Desk!OpenFor, MP!Desk!ShowRefunds, MP!Desk!RecordedElsewhere, MP!Desk!OpenForm,
         MP!Desk!Fill, MP!Desk!MayClose, MP!Desk!Close, MP!Desk!Submit, MP!Desk!MarkRefundPaid,
         MP!Desk!LoseAnswer, MP!Desk!WebAnswered, MP!Desk!MobileAnswered, MP!Desk!Answered, MP!Desk!Done,
         MP!Desk!Next, MP!Desk!NeverRecordedBlind, MP!Desk!SavedIsRecorded, MP!Desk!NothingForgotten,
         MP!Desk!Faithful
LEMMA HoldIsTheSame ==
    /\ Hold!Init <=> MP!Hold!Init
    /\ Hold!Next <=> MP!Hold!Next
    /\ Hold!Faithful <=> MP!Hold!Faithful
  BY
     DEF Hold!vars, Hold!Polled, Hold!Init, Hold!Busy, Hold!Call, Hold!Answer, Hold!FirstMount, Hold!Mount,
         Hold!Chips, Hold!Proposal, Hold!ChatOffers, Hold!SendMessage, Hold!ShowReply, Hold!Decline,
         Hold!Confirm, Hold!ShowHold, Hold!OpenFromList, Hold!Expired, Hold!WebPayView, Hold!MobilePayView,
         Hold!PayForm, Hold!PickImage, Hold!DropImage, Hold!ChecksFirst, Hold!SubmitProof, Hold!NoAnswer,
         Hold!Recheck, Hold!ShowProof, Hold!LeavesPay, Hold!Poll, Hold!ShowBooking, Hold!DoneView,
         Hold!OpensPay, Hold!BackToPay, Hold!CanCancel, Hold!AskCancel, Hold!KeepBooking, Hold!DoCancel,
         Hold!ShowCancel, Hold!Ask, Hold!Hold, Hold!Get, Hold!Proof, Hold!Cancel, Hold!Serve, Hold!LoseAnswer,
         Hold!TimeOut, Hold!RunOut, Hold!Review, Hold!Next, Hold!OneQuestionEach, Hold!CancelledIsFinal,
         Hold!OneProofPerHold, Hold!Faithful, MP!Hold!vars, MP!Hold!Polled, MP!Hold!Init, MP!Hold!Busy,
         MP!Hold!Call, MP!Hold!Answer, MP!Hold!FirstMount, MP!Hold!Mount, MP!Hold!Chips, MP!Hold!Proposal,
         MP!Hold!ChatOffers, MP!Hold!SendMessage, MP!Hold!ShowReply, MP!Hold!Decline, MP!Hold!Confirm,
         MP!Hold!ShowHold, MP!Hold!OpenFromList, MP!Hold!Expired, MP!Hold!WebPayView, MP!Hold!MobilePayView,
         MP!Hold!PayForm, MP!Hold!PickImage, MP!Hold!DropImage, MP!Hold!ChecksFirst, MP!Hold!SubmitProof,
         MP!Hold!NoAnswer, MP!Hold!Recheck, MP!Hold!ShowProof, MP!Hold!LeavesPay, MP!Hold!Poll,
         MP!Hold!ShowBooking, MP!Hold!DoneView, MP!Hold!OpensPay, MP!Hold!BackToPay, MP!Hold!CanCancel,
         MP!Hold!AskCancel, MP!Hold!KeepBooking, MP!Hold!DoCancel, MP!Hold!ShowCancel, MP!Hold!Ask,
         MP!Hold!Hold, MP!Hold!Get, MP!Hold!Proof, MP!Hold!Cancel, MP!Hold!Serve, MP!Hold!LoseAnswer,
         MP!Hold!TimeOut, MP!Hold!RunOut, MP!Hold!Review, MP!Hold!Next, MP!Hold!OneQuestionEach,
         MP!Hold!CancelledIsFinal, MP!Hold!OneProofPerHold, MP!Hold!Faithful
-----------------------------------------------------------------------------
(* The invariant of the parts                                              *)

PartsInv ==
    /\ screen = "short payments" => MP!ShortInv
    /\ screen = "waitlist" => WP!WaitInv
    /\ screen = "waitlist range" => WR!WaitInv
    /\ screen = "points" => MP!PurseInv
    /\ screen = "money" => MP!MoneyInv
    /\ screen = "refunds" => MP!DeskInv
    /\ screen = "hold" => MP!HoldInv

\* What the modules assume of their constants is what this one assumes of its own.
LEMMA Assumed ==
    /\ MP!ShortAssumption /\ WP!WaitAssumption /\ WR!WaitAssumption /\ MP!PurseAssumption
    /\ MP!MoneyAssumption /\ MP!DeskAssumption
<1>1. MP!IsFiniteSet(PurseBookings) <=> IsFiniteSet(PurseBookings)
  BY DEF IsFiniteSet, MP!IsFiniteSet
<1>2. QED
  BY SizesAssumption, <1>1
     DEF MP!ShortAssumption, WP!WaitAssumption, WR!WaitAssumption, MP!PurseAssumption, MP!MoneyAssumption,
         MP!DeskAssumption

LEMMA PartsStart == Init => PartsInv
<1> SUFFICES ASSUME Init
             PROVE  PartsInv
  OBVIOUS
<1>1. /\ screen = "short payments" => Short!Init
      /\ screen = "waitlist" => Wait!Init
      /\ screen = "waitlist range" => WaitRange!Init
      /\ screen = "points" => Purse!Init
      /\ screen = "money" => Money!Init
      /\ screen = "refunds" => Desk!Init
      /\ screen = "hold" => Hold!Init
  BY DEF Init, ScreenInit, ServiceInit
<1>2. screen = "short payments" => MP!ShortInv
  BY <1>1, Assumed, ShortIsTheSame, MP!ShortStarts
<1>3. screen = "waitlist" => WP!WaitInv
  BY <1>1, WaitIsTheSame, WP!WaitInit
<1>4. screen = "waitlist range" => WR!WaitInv
  BY <1>1, WaitRangeIsTheSame, WR!WaitInit
<1>5. screen = "points" => MP!PurseInv
  BY <1>1, Assumed, PointsAreTheSame, MP!PurseInit
<1>6. screen = "money" => MP!MoneyInv
  BY <1>1, Assumed, MoneyIsTheSame, MP!MoneyInit
<1>7. screen = "refunds" => MP!DeskInv
  BY <1>1, Assumed, DeskIsTheSame, MP!DeskInit
<1>8. screen = "hold" => MP!HoldInv
  BY <1>1, HoldIsTheSame, MP!HoldInit
<1>9. QED
  BY <1>2, <1>3, <1>4, <1>5, <1>6, <1>7, <1>8 DEF PartsInv

\* A step of any part, as often as it likes: Next is within it and has TLC's Budget besides.
AnyStep == (ScreenStep /\ UNCHANGED marks) \/ ShortStep \/ WaitStep \/ WaitRangeStep \/ PointsStep
FreeSpec == Init /\ [][AnyStep]_<<screen, ui, server, calls, marks>>

LEMMA BudgetIsABound == Spec => FreeSpec
<1>1. [Next]_<<screen, ui, server, calls, marks>> => [AnyStep]_<<screen, ui, server, calls, marks>>
  BY DEF Next, AnyStep
<1>2. QED
  BY <1>1, PTL DEF Spec, FreeSpec

\* The part that is on takes its own steps only.
LEMMA OneAtATime ==
    ASSUME [AnyStep]_<<screen, ui, server, calls, marks>>
    PROVE  /\ screen' = "short payments" => screen = "short payments" /\ (Short!Next \/ UNCHANGED <<server, calls, marks>>)
           /\ screen' = "waitlist" => screen = "waitlist" /\ (Wait!Next \/ UNCHANGED <<server, ui, calls, marks>>)
           /\ screen' = "waitlist range" =>
                screen = "waitlist range" /\ (WaitRange!Next \/ UNCHANGED <<server, ui, calls, marks>>)
           /\ screen' = "points" => screen = "points" /\ (Purse!Next \/ UNCHANGED <<server, ui, calls, marks>>)
           /\ screen' = "money" => screen = "money" /\ (Money!Next \/ UNCHANGED <<server, ui, calls>>)
           /\ screen' = "refunds" => screen = "refunds" /\ (Desk!Next \/ UNCHANGED <<server, ui, calls>>)
           /\ screen' = "hold" => screen = "hold" /\ (Hold!Next \/ UNCHANGED <<server, ui, calls>>)
<1>1. CASE UNCHANGED <<screen, ui, server, calls, marks>>
  BY <1>1
<1>2. CASE ScreenStep
  BY <1>2 DEF ScreenStep, ApprovalsStep, BoardStep, RefundsStep, SlotsStep, MoneyStep, HoldStep, WizardStep, VenueStep,
              CourtsStep, AuthStep, BellStep, DayStep, HistoryStep, StaffStep, TeamStep, BookingsStep, ReviewsStep,
              ViewerStep, PremiumStep, FindStep, PhotosStep, AccountStep
<1>3. CASE ShortStep \/ WaitStep \/ WaitRangeStep \/ PointsStep
  BY <1>3 DEF ShortStep, WaitStep, WaitRangeStep, PointsStep
<1>4. QED
  BY <1>1, <1>2, <1>3 DEF AnyStep

LEMMA PartsGoOn == PartsInv /\ [AnyStep]_<<screen, ui, server, calls, marks>> => PartsInv'
<1> SUFFICES ASSUME PartsInv, [AnyStep]_<<screen, ui, server, calls, marks>>
             PROVE  PartsInv'
  OBVIOUS
<1>1. ASSUME screen' = "short payments"
      PROVE  MP!ShortInv'
  <2>1. MP!ShortInv /\ (Short!Next \/ UNCHANGED <<server, calls, marks>>)
    BY <1>1, OneAtATime DEF PartsInv
  <2>2. [MP!Next]_(MP!vars)
    BY <2>1, ShortIsTheSame DEF MP!vars
  <2>3. QED
    BY <2>1, <2>2, Assumed, MP!ShortGoesOn
<1>2. ASSUME screen' = "waitlist"
      PROVE  WP!WaitInv'
  <2>1. WP!WaitInv /\ (Wait!Next \/ UNCHANGED <<server, ui, calls, marks>>)
    BY <1>2, OneAtATime DEF PartsInv
  <2>2. [WP!Next]_(WP!vars)
    BY <2>1, WaitIsTheSame DEF WP!vars
  <2>3. QED
    BY <2>1, <2>2, Assumed, WP!WaitStep
<1>3. ASSUME screen' = "waitlist range"
      PROVE  WR!WaitInv'
  <2>1. WR!WaitInv /\ (WaitRange!Next \/ UNCHANGED <<server, ui, calls, marks>>)
    BY <1>3, OneAtATime DEF PartsInv
  <2>2. [WR!Next]_(WR!vars)
    BY <2>1, WaitRangeIsTheSame DEF WR!vars
  <2>3. QED
    BY <2>1, <2>2, Assumed, WR!WaitStep
<1>4. ASSUME screen' = "points"
      PROVE  MP!PurseInv'
  <2>1. MP!PurseInv /\ (Purse!Next \/ UNCHANGED <<server, ui, calls, marks>>)
    BY <1>4, OneAtATime DEF PartsInv
  <2>2. [MP!Purse!Next]_(MP!Purse!vars)
    BY <2>1, PointsAreTheSame DEF MP!Purse!vars
  <2>3. QED
    BY <2>1, <2>2, Assumed, MP!PurseStep
<1>5. ASSUME screen' = "money"
      PROVE  MP!MoneyInv'
  <2>1. MP!MoneyInv /\ (Money!Next \/ UNCHANGED <<server, ui, calls>>)
    BY <1>5, OneAtATime DEF PartsInv
  <2>2. [MP!Money!Next]_(MP!Money!vars)
    BY <2>1, MoneyIsTheSame DEF MP!Money!vars
  <2>3. QED
    BY <2>1, <2>2, Assumed, MP!MoneyStep
<1>6. ASSUME screen' = "refunds"
      PROVE  MP!DeskInv'
  <2>1. MP!DeskInv /\ (Desk!Next \/ UNCHANGED <<server, ui, calls>>)
    BY <1>6, OneAtATime DEF PartsInv
  <2>2. [MP!Desk!Next]_(MP!Desk!vars)
    BY <2>1, DeskIsTheSame DEF MP!Desk!vars
  <2>3. QED
    BY <2>1, <2>2, Assumed, MP!DeskStep
<1>7. ASSUME screen' = "hold"
      PROVE  MP!HoldInv'
  <2>1. MP!HoldInv /\ (Hold!Next \/ UNCHANGED <<server, ui, calls>>)
    BY <1>7, OneAtATime DEF PartsInv
  <2>2. [MP!Hold!Next]_(MP!Hold!vars)
    BY <2>1, HoldIsTheSame DEF MP!Hold!vars
  <2>3. QED
    BY <2>1, <2>2, MP!HoldStep
<1>8. QED
  BY <1>1, <1>2, <1>3, <1>4, <1>5, <1>6, <1>7 DEF PartsInv

LEMMA ServicesAreFaithful == PartsInv => ServicesFaithful
<1> SUFFICES ASSUME PartsInv
             PROVE  ServicesFaithful
  OBVIOUS
<1>1. screen = "short payments" => Short!Faithful
  BY Assumed, ShortIsTheSame, MP!ShortIsFaithful DEF PartsInv
<1>2. screen = "waitlist" => Wait!Faithful
  BY WaitIsTheSame, WP!WaitFaithful DEF PartsInv
<1>3. screen = "waitlist range" => WaitRange!Faithful
  BY WaitRangeIsTheSame, WR!WaitFaithful DEF PartsInv
<1>4. screen = "points" => Purse!Faithful
  BY Assumed, PointsAreTheSame, MP!PurseFaithful DEF PartsInv
<1>5. QED
  BY <1>1, <1>2, <1>3, <1>4 DEF ServicesFaithful

LEMMA MoneyIsFaithful == PartsInv => MoneyFaithful
<1> SUFFICES ASSUME PartsInv
             PROVE  MoneyFaithful
  OBVIOUS
<1>1. screen = "money" => Money!Faithful
  BY Assumed, MoneyIsTheSame, MP!MoneyIsFaithful DEF PartsInv
<1>2. screen = "refunds" => Desk!Faithful
  BY DeskIsTheSame, MP!DeskIsFaithful DEF PartsInv
<1>3. QED
  BY <1>1, <1>2 DEF MoneyFaithful

LEMMA HoldIsFaithful == PartsInv => HoldFaithful
  BY HoldIsTheSame, MP!HoldIsFaithful DEF PartsInv, HoldFaithful

-----------------------------------------------------------------------------
(* The theorems: with the run's Budget and without it                      *)

\* A due's fine is taken once, only for silence, and given back when the due is settled, an answer stands,
\* and a due is carried until it is settled (phase3_service.py); nobody is told of a slot that was not
\* freed, nobody whose slot was freed is forgotten, told twice, or waiting for a slot of their own, nobody is
\* given up untold (waitlist_service.py); a player's points fall below nothing by no more than overtaken
\* deductions took, a discount is paid for, points come back once, only transfers earn, and what they earned is
\* taken back when they never came (phase3_service.py, bank_missing_service.py): for any number of requests, players,
\* slots, bookings and waves, in whatever order their steps come, with the exceptions each property names.
THEOREM ServicesAreAlwaysFaithful ==
    /\ FreeSpec => []ServicesFaithful
    /\ Spec => []ServicesFaithful
<1>1. FreeSpec => []ServicesFaithful
  BY PartsStart, PartsGoOn, ServicesAreFaithful, PTL DEF FreeSpec
<1>2. QED
  BY <1>1, BudgetIsABound

\* In the owner's money popup the web's box never holds more than is left of the price, the first save gets
\* the mark its form announced unless somebody else paid meanwhile, and what the server recorded, commit by
\* commit, adds up unless requests crossed while a no-show was taken back (money-dialogs.tsx, completion-dialog.tsx, owner_overview_service.py, phase3_service.py);
\* the refunds page never says that less is left than is owed, and the web's dialog gets at most one refund
\* recorded that the owner was not told of, and one more for each lost answer (refunds/page.tsx): for any price and refund, any number of saves, and whatever answer is lost or
\* comes late.
THEOREM MoneyIsAlwaysFaithful ==
    /\ FreeSpec => []MoneyFaithful
    /\ Spec => []MoneyFaithful
<1>1. FreeSpec => []MoneyFaithful
  BY PartsStart, PartsGoOn, MoneyIsFaithful, PTL DEF FreeSpec
<1>2. QED
  BY <1>1, BudgetIsABound

\* From the assistant's "yes" to the proof (the chat, pay and status pages of both apps): each thing the player
\* wrote is asked once, a screen that says the player's one hold was cancelled is right, and a hold gets one
\* proof, whether a retried upload asks first what became of the one before or not: for any number of tries and holds, and
\* answers in any order.
THEOREM HoldIsAlwaysFaithful ==
    /\ FreeSpec => []HoldFaithful
    /\ Spec => []HoldFaithful
<1>1. FreeSpec => []HoldFaithful
  BY PartsStart, PartsGoOn, HoldIsFaithful, PTL DEF FreeSpec
<1>2. QED
  BY <1>1, BudgetIsABound

=============================================================================
