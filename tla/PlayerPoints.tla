---------------------------- MODULE PlayerPoints ----------------------------
(***************************************************************************)
(* The points of one player: earned by bookings paid wholly by transfer,   *)
(* spent on a venue's discount, returned when the booking dies, taken back *)
(* when the transfer never reached the bank and the player is asked for    *)
(* it.  The balance is the sum of an append-only list; a request reads in   *)
(* one step and writes in another.  Points are in tens.                    *)
(***************************************************************************)
EXTENDS Integers, FiniteSets, FiniteSetsExt

CONSTANTS
    Bookings,    \* the player's bookings
    Points,      \* what the player has from before
    Price, VenueDiscount,
    MaxPays      \* bound: payments, corrections and final prices

VARIABLES
    rows,    \* each booking: its price, its money by method and what was taken back, the transfer that never came
    entry,   \* the points of each booking and reason
    work,    \* awards, redemptions, decisions and take-backs between their steps; the job's list
    note     \* what has happened, for the properties, and the bound

vars == <<rows, entry, work, note>>

TransferPoints == 5
RedeemPoints == 50
NoshowTransferPoints == 1
Reasons == {"transfer_booking", "noshow_transfer_ok", "transfer_booking_taken_back", "noshow_transfer_taken_back",
            "redeem", "redeem_returned"}

OfBooking(points) ==
    points["transfer_booking"] + points["noshow_transfer_ok"] + points["transfer_booking_taken_back"]
    + points["noshow_transfer_taken_back"] + points["redeem"] + points["redeem_returned"]
Sum(entries) == Points + MapThenSumSet(LAMBDA b : OfBooking(entries[b]), Bookings)
Balance(entries) == IF Sum(entries) < 0 THEN 0 ELSE Sum(entries)
\* add_points: the same booking and reason are refused a second time.
AddPoints(entries, b, reason, delta) ==
    IF entries[b][reason] # 0 THEN entries ELSE [entries EXCEPT ![b][reason] = delta]
Lesser(a, b) == IF a < b THEN a ELSE b

\* Paid in full, and no rupee of it in cash.
Settled(row) == row.price <= row.transfer + row.cash - row.back /\ row.cash = 0
\* The row, and whether it has ever been so.
Written(b, row) == [rows EXCEPT ![b] = [row EXCEPT !.whole = @ \/ Settled(row)]]

Init ==
    /\ rows = [b \in Bookings |-> [status |-> "held", price |-> Price, final |-> FALSE, transfer |-> 0, cash |-> 0, back |-> 0,
                                   discount |-> 0, whole |-> Price = 0,
                                   bank |-> "none", missing |-> 0, decided |-> {}, taken |-> FALSE]]
    /\ entry = [b \in Bookings |-> [r \in Reasons |-> 0]]
    /\ work = [look |-> {}, award |-> {}, redeem |-> {}, decide |-> {}, take |-> {}, job |-> {}]
    /\ note = [pays |-> 0, overtaken |-> {}, over |-> 0, late |-> {}, short |-> {}]

Paid(b) == rows[b].transfer + rows[b].cash - rows[b].back
Due(b) == rows[b].price - Paid(b)
\* A redemption holds the booking's row lock; who wants to write the row waits.
Locked(b) == b \in work.redeem

-----------------------------------------------------------------------------
(* The bookings and their money. *)

\* A screenshot approved, or cash recorded.
Pay(b) ==
    /\ rows[b].status # "cancelled" /\ Due(b) > 0 /\ ~Locked(b) /\ note.pays < MaxPays
    /\ \E amount \in 1 .. Due(b), how \in {"transfer", "cash"} :
        rows' = Written(b, [rows[b] EXCEPT ![how] = @ + amount, !.status = IF @ = "held" THEN "booked" ELSE @])
    /\ note' = [note EXCEPT !.pays = @ + 1]
    /\ UNCHANGED <<entry, work>>
\* A completion's correction of the amount, or an entry reversed.
TakeMoneyBack(b) ==
    /\ ~Locked(b) /\ note.pays < MaxPays
    /\ \E amount \in 1 .. Paid(b) : rows' = [rows EXCEPT ![b].back = @ + amount]
    /\ note' = [note EXCEPT !.pays = @ + 1]
    /\ UNCHANGED <<entry, work>>
\* reverse_noshow's price, checked against an amount it read before.
FinalPrice(b) ==
    /\ rows[b].status = "no_show" /\ note.pays < MaxPays
    /\ \E price \in 0 .. Price + 1 : rows' = Written(b, [rows[b] EXCEPT !.price = price, !.final = TRUE])
    /\ note' = [note EXCEPT !.pays = @ + 1]
    /\ UNCHANGED <<entry, work>>
Becomes(b, before, after) ==
    /\ rows[b].status \in before /\ ~Locked(b)
    /\ rows' = [rows EXCEPT ![b].status = after]
    /\ UNCHANGED <<entry, work, note>>
NoShow(b) == Becomes(b, {"booked"}, "no_show")
Complete(b) == Becomes(b, {"booked", "no_show"}, "completed")
Cancel(b) == Becomes(b, {"held", "booked"}, "cancelled")

-----------------------------------------------------------------------------
(* Points earned. *)

\* maybe_award_transfer_points: nothing due on the row,
LookAtDue(b) ==
    /\ rows[b].status \in {"booked", "completed"} /\ Due(b) <= 0
    /\ b \notin work.look
    /\ work' = [work EXCEPT !.look = @ \cup {b}]
    /\ UNCHANGED <<rows, entry, note>>
\* every rupee by transfer: no other method brought money, though some may have gone back since.
LookAtEntries(b) ==
    /\ b \in work.look
    /\ work' = [work EXCEPT !.look = @ \ {b},
                            !.award = IF rows[b].transfer > 0 /\ rows[b].cash = 0 THEN @ \cup {b} ELSE @]
    /\ UNCHANGED <<rows, entry, note>>
Award(b) ==
    /\ b \in work.award
    /\ entry' = AddPoints(entry, b, "transfer_booking", TransferPoints)
    /\ work' = [work EXCEPT !.award = @ \ {b}]
    /\ note' = [note EXCEPT !.late = IF rows[b].taken THEN @ \cup {b} ELSE @]
    /\ UNCHANGED rows
\* award_noshow_transfer_points: the transfer sent with a no-show taken back, approved as correct.
AwardNoshow(b) ==
    /\ rows[b].final /\ rows[b].transfer > 0
    /\ entry' = AddPoints(entry, b, "noshow_transfer_ok", NoshowTransferPoints)
    /\ UNCHANGED <<rows, work, note>>

-----------------------------------------------------------------------------
(* "Bank mein nahi mila". *)

\* mark_not_received: the transfer's entry is reversed, and the entry marked, in two commits.
MarkNotReceived(b) ==
    /\ rows[b].bank = "none" /\ ~Locked(b)
    /\ \E amount \in 1 .. rows[b].transfer :
        rows' = [rows EXCEPT ![b].back = @ + amount, ![b].missing = amount, ![b].bank = "reversed"]
    /\ UNCHANGED <<entry, work, note>>
Marked(b) ==
    /\ rows[b].bank = "reversed"
    /\ rows' = [rows EXCEPT ![b].bank = "marked"]
    /\ UNCHANGED <<entry, work, note>>

\* decide: two requests may both find it undecided.
DecideReads(b, who) ==
    /\ rows[b].bank = "marked" /\ rows[b].decided = {}
    /\ <<b, who>> \notin work.decide
    /\ work' = [work EXCEPT !.decide = @ \cup {<<b, who>>}]
    /\ UNCHANGED <<rows, entry, note>>
Decide(b, who) ==
    /\ <<b, who>> \in work.decide /\ who \notin rows[b].decided
    /\ rows' = [rows EXCEPT ![b].decided = @ \cup {who}]
    /\ UNCHANGED <<entry, work, note>>
\* The staff member pays: an entry of another method, unless more is paid by now; the points stay.
StaffPays(b) ==
    /\ <<b, "staff">> \in work.decide /\ "staff" \in rows[b].decided /\ ~Locked(b)
    /\ rows' = IF rows[b].missing <= Due(b) THEN Written(b, [rows[b] EXCEPT !.cash = @ + rows[b].missing]) ELSE rows
    /\ work' = [work EXCEPT !.decide = @ \ {<<b, "staff">>}]
    /\ UNCHANGED <<entry, note>>
\* The player pays: take_back_transfer_points reads what was earned (by the no-show's transfer only when it was that one)
\* and the balance,
TakeBackReads(b) ==
    /\ <<b, "player">> \in work.decide /\ "player" \in rows[b].decided
    /\ \E ofNoshow \in BOOLEAN :
        LET given == {r \in {"transfer_booking", "noshow_transfer_ok"} : entry[b][r] # 0 /\ (r = "noshow_transfer_ok" => ofNoshow)} IN
        work' = [work EXCEPT !.decide = @ \ {<<b, "player">>}, !.take = @ \cup {[b |-> b, given |-> given, balance |-> Balance(entry)]}]
    /\ rows' = [rows EXCEPT ![b].taken = TRUE]
    /\ UNCHANGED <<entry, note>>

\* A deduction is written: who read the balance before it will write on an old one.
Deducts(request, amount, pending) ==
    [note EXCEPT !.over = IF request \in note.overtaken THEN @ + amount ELSE @,
                 !.overtaken = IF amount > 0 THEN pending ELSE @ \ {request}]
Pending(redeem, take) == {<<"redeem", b>> : b \in redeem} \cup {<<"take", t.b>> : t \in take}
\* and takes it back, no more than there is.
TakeBack(t) ==
    LET of(r) == IF r \in t.given THEN entry[t.b][r] ELSE 0
        fifty == Lesser(of("transfer_booking"), t.balance)
        ten == Lesser(of("noshow_transfer_ok"), t.balance - fifty)
        noted == Deducts(<<"take", t.b>>, fifty + ten, Pending(work.redeem, work.take \ {t})) IN
    /\ entry' = AddPoints(AddPoints(entry, t.b, "transfer_booking_taken_back", -fifty), t.b, "noshow_transfer_taken_back", -ten)
    /\ work' = [work EXCEPT !.take = @ \ {t}]
    /\ note' = [noted EXCEPT !.short = IF fifty < of("transfer_booking") THEN @ \cup {t.b} ELSE @]
    /\ UNCHANGED rows

-----------------------------------------------------------------------------
(* Points spent and returned. *)

Discount(b) == Lesser(Due(b), VenueDiscount)
\* points_offer under the row lock: 500 points buy the venue's discount, once, before the start.
Redeem(b) ==
    /\ ~Locked(b) /\ rows[b].discount = 0 /\ rows[b].status \in {"held", "booked"} /\ Discount(b) > 0
    /\ Balance(entry) >= RedeemPoints
    /\ work' = [work EXCEPT !.redeem = @ \cup {b}]
    /\ UNCHANGED <<rows, entry, note>>
\* The balance is that of the read; two bookings are two locks.
RedeemPaid(b) ==
    /\ Locked(b)
    /\ entry' = [entry EXCEPT ![b]["redeem"] = -RedeemPoints]
    /\ rows' = Written(b, [rows[b] EXCEPT !.price = @ - Discount(b), !.discount = Discount(b)])
    /\ work' = [work EXCEPT !.redeem = @ \ {b}]
    /\ note' = Deducts(<<"redeem", b>>, RedeemPoints, Pending(work.redeem \ {b}, work.take))
\* return_points_for_dead_bookings: the list is read, then the entries are added.
JobReads ==
    /\ work.job = {}
    /\ work' = [work EXCEPT !.job = {b \in Bookings : entry[b]["redeem"] # 0 /\ rows[b].status = "cancelled"}]
    /\ work'.job # {}
    /\ UNCHANGED <<rows, entry, note>>
JobReturns(b) ==
    /\ b \in work.job
    /\ entry' = AddPoints(entry, b, "redeem_returned", -entry[b]["redeem"])
    /\ work' = [work EXCEPT !.job = @ \ {b}]
    /\ UNCHANGED <<rows, note>>

Next ==
    \/ JobReads
    \/ \E t \in work.take : TakeBack(t)
    \/ \E b \in Bookings :
        \/ Pay(b) \/ TakeMoneyBack(b) \/ FinalPrice(b) \/ NoShow(b) \/ Complete(b) \/ Cancel(b)
        \/ LookAtDue(b) \/ LookAtEntries(b) \/ Award(b) \/ AwardNoshow(b)
        \/ MarkNotReceived(b) \/ Marked(b) \/ StaffPays(b) \/ TakeBackReads(b)
        \/ \E who \in {"staff", "player"} : DecideReads(b, who) \/ Decide(b, who)
        \/ Redeem(b) \/ RedeemPaid(b) \/ JobReturns(b)

Spec == Init /\ [][Next]_vars

-----------------------------------------------------------------------------
TypeOK ==
    /\ \A b \in Bookings :
        /\ rows[b].status \in {"held", "booked", "no_show", "completed", "cancelled"} /\ rows[b].price \in 0 .. Price + 1
        /\ rows[b].bank \in {"none", "reversed", "marked"} /\ rows[b].decided \subseteq {"staff", "player"}
    /\ \A b \in Bookings, r \in Reasons : entry[b][r] \in -RedeemPoints .. RedeemPoints
    /\ \A q \in {"look", "award", "redeem", "job"} : work[q] \subseteq Bookings
    /\ note.pays \in 0 .. MaxPays

\* The entries fall below nothing by no more than was deducted by requests that another deduction overtook between
\* their look at the balance and their entry; without such a race, never.
NeverBelowZero == Sum(entry) >= -note.over
\* A price is lowered by points that were spent, once, by the venue's discount, and no further than what was paid;
\* only the owner's final price replaces it.
DiscountIsPaidFor ==
    \A b \in Bookings :
        /\ (rows[b].discount > 0) = (entry[b]["redeem"] # 0) /\ rows[b].discount <= VenueDiscount
        /\ ~rows[b].final => Due(b) >= 0 /\ rows[b].price + rows[b].discount = Price
\* Points come back once, and only from a booking that died.
ReturnedWhenDead ==
    \A b \in Bookings :
        entry[b]["redeem_returned"] # 0 => rows[b].status = "cancelled" /\ entry[b]["redeem_returned"] = -entry[b]["redeem"]
\* Only a booking that once was paid in full without a rupee in cash earns; what it earned is taken back only when the
\* owner asks the player for a transfer that never came, no more of it than was earned, and all of it (unless the award
\* came after the look at what was earned, or the points had been spent).
OnlyTransfersEarn ==
    \A b \in Bookings :
        LET net == entry[b]["transfer_booking"] + entry[b]["transfer_booking_taken_back"]
            ok == entry[b]["noshow_transfer_ok"] + entry[b]["noshow_transfer_taken_back"]
            taken == entry[b]["transfer_booking_taken_back"] # 0 \/ entry[b]["noshow_transfer_taken_back"] # 0 IN
        /\ net \in 0 .. TransferPoints /\ ok \in 0 .. NoshowTransferPoints
        /\ entry[b]["transfer_booking"] # 0 => rows[b].whole
        /\ taken => "player" \in rows[b].decided
        /\ rows[b].taken /\ b \notin note.late \cup note.short /\ (\A t \in work.take : t.b # b) => net = 0

Faithful == NeverBelowZero /\ DiscountIsPaidFor /\ ReturnedWhenDead /\ OnlyTransfersEarn

=============================================================================
