-------------------------- MODULE MCClientScreens --------------------------
(***************************************************************************)
(* One screen of the two apps, or one of the server's small services, at a *)
(* time, each on a small instance: the variable screen says which one this *)
(* behaviour is about, and the other variables are that one's.  A screen   *)
(* keeps its state in ui, what it knows of the server in server, and its   *)
(* requests in flight in calls; the services use them for their tables     *)
(* and requests, and marks for what has happened.                          *)
(***************************************************************************)
EXTENDS Integers, Sequences, FiniteSets

CONSTANTS
    ShortRequests, ShortPrice, ShortPoints, ShortActs, ShortTrouble,    \* short payments
    WaitPlayers, WaitSlots, RangePlayers, RangeSlots,                   \* the two waitlists
    WaitBookings, Waves, WaitJoins, WaitTrouble,
    PurseBookings, PursePoints, PursePrice, PurseDiscount, PursePays,   \* a player's points
    MoneyPrice, MoneySaves, MoneyOthers,                                \* a booking's money popup
    RefundDue, RefundSubmits, HoldTries, HoldHolds                      \* the refunds, a player's hold

\* A due is some money, a court's half hours are numbered, and a player's bookings can be counted.
ASSUME SizesAssumption ==
    /\ ShortPrice \in Nat \ {0} /\ {ShortPoints, ShortActs, ShortTrouble} \subseteq Nat /\ "job" \notin ShortRequests
    /\ WaitSlots \subseteq Nat \ {0} /\ RangeSlots \subseteq Nat \ {0} /\ {WaitJoins, WaitTrouble} \subseteq Nat
    /\ IsFiniteSet(PurseBookings) /\ {PursePoints, PursePrice, PurseDiscount, PursePays} \subseteq Nat
    /\ {MoneyPrice, RefundDue} \subseteq Nat

VARIABLES screen, ui, server, calls, marks

Queue == INSTANCE ApprovalsQueue WITH
    Payments <- {1, 2}, Reused <- {1}, MaxChanges <- 2, PageSize <- 1
Board == INSTANCE ApprovalsBoard WITH
    Payments <- {1, 2}, Reused <- {1}, MaxChanges <- 1, MaxActs <- 1
Desk == INSTANCE RefundsDesk WITH Due <- RefundDue, MaxSubmits <- RefundSubmits
Picker == INSTANCE SlotPicker WITH
    Slots <- {1, 2, 3}, MinSlots <- 2, MaxSlots <- 3, MaxChanges <- 1, MaxAsks <- 1
Money == INSTANCE BookingMoney WITH
    Price <- MoneyPrice, MaxSaves <- MoneySaves, MaxOthers <- MoneyOthers
Hold == INSTANCE PlayerHold WITH MaxTries <- HoldTries, MaxHolds <- HoldHolds
Wizard == INSTANCE VenueWizard WITH MaxTabs <- 2, MaxCourts <- 3, MaxFails <- 1, MaxEdits <- 2
Cards == INSTANCE VenueCards WITH MaxEdits <- 1, MaxSaves <- 2, MaxFails <- 1
Courts == INSTANCE CourtSettings WITH MaxEdits <- 1, MaxSaves <- 2, MaxFails <- 1
Auth == INSTANCE AuthForms WITH MaxCodes <- 2, MaxTries <- 1, MaxTime <- 2, MaxFails <- 1
Bell == INSTANCE Alerts WITH Users <- {"A", "B"}, MaxLog <- 1, MaxSubs <- 1, MaxLogins <- 2, MaxFails <- 1
Day == INSTANCE DayBoard WITH MaxMarks <- 2, MaxTrouble <- 1
History == INSTANCE BookingHistory WITH PageSize <- 1, FocusSize <- 3, MaxActs <- 2, MaxTrouble <- 1
Staff == INSTANCE StaffAccess WITH MaxActs <- 2, MaxTrouble <- 1
Team == INSTANCE StaffTeam WITH MaxActs <- 4, MaxTrouble <- 1
Mine == INSTANCE PlayerBookings WITH MaxActs <- 2, MaxTrouble <- 1
Reviews == INSTANCE GameReviews WITH MaxActs <- 3, MaxTrouble <- 1
Viewer == INSTANCE PhotoViewer WITH MaxActs <- 3, MaxTrouble <- 1, MaxTime <- 5
Premium == INSTANCE PremiumDesk WITH MaxActs <- 2, MaxTrouble <- 1, LastDay <- 4
Find == INSTANCE Discovery WITH MaxActs <- 2, MaxTrouble <- 1
Photos == INSTANCE CardPhotos WITH MaxActs <- 3, MaxTrouble <- 1, MaxTime <- 6
Account == INSTANCE AccountForms WITH MaxActs <- 3, MaxTrouble <- 1, MaxCodes <- 2
Short == INSTANCE ShortPayments WITH
    db <- server, work <- calls, note <- marks,
    Requests <- ShortRequests, Price <- ShortPrice, Points <- ShortPoints,
    MaxActs <- ShortActs, MaxTrouble <- ShortTrouble
Wait == INSTANCE Waitlist WITH
    rows <- server, list <- ui, work <- calls, note <- marks,
    Players <- WaitPlayers, Slots <- WaitSlots, Bookings <- WaitBookings, Waves <- Waves,
    MaxJoins <- WaitJoins, MaxTrouble <- WaitTrouble
WaitRange == INSTANCE Waitlist WITH
    rows <- server, list <- ui, work <- calls, note <- marks,
    Players <- RangePlayers, Slots <- RangeSlots, Bookings <- WaitBookings, Waves <- Waves,
    MaxJoins <- WaitJoins, MaxTrouble <- WaitTrouble
Purse == INSTANCE PlayerPoints WITH
    rows <- server, entry <- ui, work <- calls, note <- marks,
    Bookings <- PurseBookings, Points <- PursePoints, Price <- PursePrice,
    VenueDiscount <- PurseDiscount, MaxPays <- PursePays

ScreenInit ==
    \/ screen = "approvals" /\ Queue!Init
    \/ screen = "approvals app" /\ Board!Init
    \/ screen = "refunds" /\ Desk!Init
    \/ screen = "slots" /\ Picker!Init
    \/ screen = "money" /\ Money!Init
    \/ screen = "hold" /\ Hold!Init
    \/ screen = "wizard" /\ Wizard!Init
    \/ screen = "venue" /\ Cards!Init
    \/ screen = "courts" /\ Courts!Init
    \/ screen = "sign in" /\ Auth!Init
    \/ screen = "notifications" /\ Bell!Init
    \/ screen = "today" /\ Day!Init
    \/ screen = "history" /\ History!Init
    \/ screen = "staff access" /\ Staff!Init
    \/ screen = "staff" /\ Team!Init
    \/ screen = "bookings" /\ Mine!Init
    \/ screen = "reviews" /\ Reviews!Init
    \/ screen = "viewer" /\ Viewer!Init
    \/ screen = "premium" /\ Premium!Init
    \/ screen = "search" /\ Find!Init
    \/ screen = "card" /\ Photos!Init
    \/ screen = "account" /\ Account!Init
ServiceInit ==
    \/ screen = "short payments" /\ Short!Init /\ ui = {}
    \/ screen = "waitlist" /\ Wait!Init
    \/ screen = "waitlist range" /\ WaitRange!Init
    \/ screen = "points" /\ Purse!Init
Init == (ScreenInit /\ marks = {}) \/ ServiceInit

ApprovalsStep == screen = "approvals" /\ Queue!Next /\ UNCHANGED screen
BoardStep == screen = "approvals app" /\ Board!Next /\ UNCHANGED screen
RefundsStep == screen = "refunds" /\ Desk!Next /\ UNCHANGED screen
SlotsStep == screen = "slots" /\ Picker!Next /\ UNCHANGED screen
MoneyStep == screen = "money" /\ Money!Next /\ UNCHANGED screen
HoldStep == screen = "hold" /\ Hold!Next /\ UNCHANGED screen
WizardStep == screen = "wizard" /\ Wizard!Next /\ UNCHANGED screen
VenueStep == screen = "venue" /\ Cards!Next /\ UNCHANGED screen
CourtsStep == screen = "courts" /\ Courts!Next /\ UNCHANGED screen
AuthStep == screen = "sign in" /\ Auth!Next /\ UNCHANGED screen
BellStep == screen = "notifications" /\ Bell!Next /\ UNCHANGED screen
DayStep == screen = "today" /\ Day!Next /\ UNCHANGED screen
HistoryStep == screen = "history" /\ History!Next /\ UNCHANGED screen
StaffStep == screen = "staff access" /\ Staff!Next /\ UNCHANGED screen
TeamStep == screen = "staff" /\ Team!Next /\ UNCHANGED screen
BookingsStep == screen = "bookings" /\ Mine!Next /\ UNCHANGED screen
ReviewsStep == screen = "reviews" /\ Reviews!Next /\ UNCHANGED screen
ViewerStep == screen = "viewer" /\ Viewer!Next /\ UNCHANGED screen
PremiumStep == screen = "premium" /\ Premium!Next /\ UNCHANGED screen
FindStep == screen = "search" /\ Find!Next /\ UNCHANGED screen
PhotosStep == screen = "card" /\ Photos!Next /\ UNCHANGED screen
AccountStep == screen = "account" /\ Account!Next /\ UNCHANGED screen

ShortStep == screen = "short payments" /\ Short!Next /\ UNCHANGED <<screen, ui>>
WaitStep == screen = "waitlist" /\ Wait!Next /\ UNCHANGED screen
WaitRangeStep == screen = "waitlist range" /\ WaitRange!Next /\ UNCHANGED screen
PointsStep == screen = "points" /\ Purse!Next /\ UNCHANGED screen

ScreenStep ==
    \/ ApprovalsStep \/ BoardStep \/ RefundsStep \/ SlotsStep \/ MoneyStep
    \/ HoldStep \/ WizardStep \/ VenueStep \/ CourtsStep \/ AuthStep \/ BellStep \/ DayStep
    \/ HistoryStep \/ StaffStep \/ TeamStep \/ BookingsStep \/ ReviewsStep \/ ViewerStep
    \/ PremiumStep \/ FindStep \/ PhotosStep \/ AccountStep

\* Bound: on the screens with the most states, what the user does a second time and what goes
\* wrong on the way share one budget, so that either happens to the full but not both at once;
\* and so do the requests in flight.
Budget ==
    /\ screen = "sign in" => Len(server.codes) + server.fails <= 2 /\ (server.fails > 0 => server.now = 1)
    /\ screen = "wizard" => calls.edits + calls.fails <= 2
    /\ screen = "venue" => calls.sent + calls.fails <= 2
    /\ screen = "courts" => calls.sent + calls.fails <= 2
    /\ screen = "notifications" => server.logins + server.fails <= 2
    /\ screen = "staff" => calls.acts + calls.trouble <= 4
    /\ screen = "account" => server.acts + server.trouble <= 3
    /\ screen = "money" => calls.saves + server.others <= 2
    /\ screen = "refunds" => calls.submits + server.others <= 2
    /\ screen = "slots" => server.now + server.changes <= 2 /\ \A s \in DOMAIN server.slot[2] : server.slot[2][s] # "taken"
    /\ screen = "today" => calls.sent + calls.trouble <= 2
    /\ screen = "history" => calls.acts + calls.trouble <= 2
    /\ screen = "staff access" => calls.acts + calls.trouble <= 2
    /\ screen = "hold" => Cardinality(calls) <= 2
    /\ screen = "search" => calls.acts + calls.trouble <= 2
    /\ screen = "premium" => calls.acts + calls.trouble <= (IF ui.desk = "payments" THEN 3 ELSE 2)
    /\ screen = "bookings" => calls.acts + calls.trouble <= 2
    /\ screen = "reviews" => calls.acts + calls.trouble <= 3
    /\ screen = "short payments" => marks.acts + marks.trouble <= 2 /\ Cardinality({r \in DOMAIN calls : calls[r] # Short!Idle}) <= 2
    /\ screen \in {"waitlist", "waitlist range"} => marks.joins + marks.trouble <= 2
    /\ screen = "points" =>
        /\ Cardinality({b \in PurseBookings : server[b].transfer + server[b].cash > 0}) <= 1
        /\ Cardinality(calls.look) + Cardinality(calls.award) + Cardinality(calls.redeem) + Cardinality(calls.decide)
            + Cardinality(calls.take) + Cardinality(calls.job) + marks.pays <= 3

\* Bound: once the last save was sent nothing is typed into a money form any more, it can only be closed.
NoMoreTyping == screen = "money" /\ calls.saves = MoneySaves => ui'.form \in {ui.form, Money!NoForm}

Next ==
    \/ ScreenStep /\ UNCHANGED marks /\ NoMoreTyping /\ Budget'
    \/ ShortStep /\ Budget'
    \/ (WaitStep \/ WaitRangeStep \/ PointsStep) /\ Budget'

Spec == Init /\ [][Next]_<<screen, ui, server, calls, marks>>

-----------------------------------------------------------------------------
\* Type invariant: each screen's variables have that screen's types.
TypeOK ==
    /\ screen = "approvals" => Queue!TypeOK
    /\ screen = "approvals app" => Board!TypeOK
    /\ screen = "refunds" => Desk!TypeOK
    /\ screen = "slots" => Picker!TypeOK
    /\ screen = "money" => Money!TypeOK
    /\ screen = "hold" => Hold!TypeOK
    /\ screen = "wizard" => Wizard!TypeOK
    /\ screen = "venue" => Cards!TypeOK
    /\ screen = "courts" => Courts!TypeOK
    /\ screen = "sign in" => Auth!TypeOK
    /\ screen = "notifications" => Bell!TypeOK
    /\ screen = "today" => Day!TypeOK
    /\ screen = "history" => History!TypeOK
    /\ screen = "staff access" => Staff!TypeOK
    /\ screen = "staff" => Team!TypeOK
    /\ screen = "bookings" => Mine!TypeOK
    /\ screen = "reviews" => Reviews!TypeOK
    /\ screen = "viewer" => Viewer!TypeOK
    /\ screen = "premium" => Premium!TypeOK
    /\ screen = "search" => Find!TypeOK
    /\ screen = "card" => Photos!TypeOK
    /\ screen = "account" => Account!TypeOK
    /\ screen = "short payments" => Short!TypeOK
    /\ screen = "waitlist" => Wait!TypeOK
    /\ screen = "waitlist range" => WaitRange!TypeOK
    /\ screen = "points" => Purse!TypeOK

\* The approvals page never sends two decisions on one card, hides only cards that are
\* decided or being decided, greys only bookings that are over, and does not move under an
\* open dialog; the bulk approval of the mobile app accounts for every payment it was given,
\* and a card it removed is decided; a screenshot whose address ran out is shown after all,
\* and its zoom and pan follow the fingers.
ApprovalsFaithful ==
    /\ screen = "approvals" => Queue!Faithful
    /\ screen = "approvals app" => Board!Faithful
    /\ screen = "viewer" => Viewer!Faithful

\* What is asked of the server is slots the screen shows free, or, in the web's popup, whose sheet keeps a
\* slot that is taken meanwhile, of a length picked in it while it showed them free; a search shows what was
\* asked for, its chips name what narrows it, no filter the bar can make is refused; and a card's photos do
\* not turn under somebody's hand.
PickerFaithful ==
    /\ screen = "slots" => Picker!Faithful
    /\ screen = "search" => Find!Faithful
    /\ screen = "card" => Photos!Faithful

\* The money the owner records from a booking's popup fits what is owed, keeps the plan the
\* form showed, and adds up (unless requests crossed while a no-show was taken back); the refunds
\* dialog records what it says it recorded, never twice without having been told unless an answer
\* was lost, and forgets no refund that is still owed.
MoneyFaithful ==
    /\ screen = "money" => Money!Faithful
    /\ screen = "refunds" => Desk!Faithful

\* From the assistant's "yes" to the proof: every question is asked once, a cancelled hold
\* stays cancelled, and a hold gets one proof however often it is sent.
HoldFaithful == screen = "hold" => Hold!Faithful

\* The set-up wizard hands over everything it was given, and nothing of it half.
WizardFaithful == screen = "wizard" => Wizard!Faithful

\* A venue card that says "saved" shows what is stored, and only photos the owner removed
\* go; a court's values are stored in the court they were typed for, whole, and the example
\* under the advance form is what a player would be charged.
SettingsFaithful ==
    /\ screen = "venue" => Cards!Faithful
    /\ screen = "courts" => Courts!Faithful

\* A code page that has heard from the server never calls a code that works expired, nobody
\* is signed in with an unproven phone, and a notice on the login page is true; a profile or a
\* photo that is said to be saved is stored, a changed number signs in, and the page that asks for
\* the code of a new number names a number a code was sent to.
AuthFaithful ==
    /\ screen = "sign in" => Auth!Faithful
    /\ screen = "account" => Account!Faithful

\* "Notifications are on" is true, after a sign-out this browser gets nobody else's pushes, a
\* notification pops up once, the folded log tells every row, and a tap leads to a page of
\* the role.
BellFaithful == screen = "notifications" => Bell!Faithful

\* The day board offers what the server accepts, does not go back behind its own answers, shows
\* guesses only while a mark is under way, and its numbers are the lengths of the lists they
\* open; the history shows the rows its filters ask for, whatever order answers come in, carries
\* every change of a filter out, and lists every row once.
BookingListsFaithful ==
    /\ screen = "today" => Day!Faithful
    /\ screen = "history" => History!Faithful

\* What a member of staff is offered opens and is served, every permission has a way to its screen,
\* and nothing flashes; the owner's staff page sends only what was ticked and shows what is stored.
StaffFaithful ==
    /\ screen = "staff access" => Staff!Faithful
    /\ screen = "staff" => Team!Faithful

\* What the player's bookings offer the server accepts, a promised refund is owed, a cancel is seen in
\* the lists fetched after it, every booking is in one list, and a hold that has run out is over everywhere.
\* Only a game that was played is rated, a hidden review counts for nobody, and a saved one is shown.
PlayerFaithful ==
    /\ screen = "bookings" => Mine!Faithful
    /\ screen = "reviews" => Reviews!Faithful

\* What the owner ticked is switched on, at the price the page showed unless it was changed since, what is
\* said about a feature and its banner is true, nothing is decided or recorded twice, and the revenue report,
\* the owner's row and page and the invoices add up.
PremiumFaithful == screen = "premium" => Premium!Faithful

\* The server's small services.  Short payments: a fine is taken once, only for silence, and given back
\* when the due is settled, an answer stands, and a due stays on the claim until it is settled.  Waitlist:
\* nobody is told of a slot that was not freed, nobody whose slot was freed is forgotten, or told twice, or
\* waits for a slot of their own, and nobody is given up who was not told.  Points: the entries fall below
\* nothing by no more than overtaken deductions took, a discount is paid for by points, points come back from a
\* dead booking once, only transfers earn, and what they earned is taken back when they never came.  (Each with
\* the exceptions its module names: what one request reads another can change before it writes.)
ServicesFaithful ==
    /\ screen = "short payments" => Short!Faithful
    /\ screen = "waitlist" => Wait!Faithful
    /\ screen = "waitlist range" => WaitRange!Faithful
    /\ screen = "points" => Purse!Faithful

=============================================================================
