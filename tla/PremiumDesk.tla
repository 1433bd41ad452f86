---------------------------- MODULE PremiumDesk ----------------------------
(***************************************************************************)
(* The screens about an owner's premium bill.  The owner ticks the         *)
(* features wanted and sends screenshots for the invoices (web and phone); *)
(* the admin checks the screenshots, records and reverses payments, sets   *)
(* the price list, and reads the revenue reports.  The server's record is  *)
(* that of OwnerBilling with one owner; a day stands for a paid period.    *)
(***************************************************************************)
EXTENDS Integers, Sequences, FiniteSets, FiniteSetsExt

CONSTANTS
    MaxActs,      \* bound: what the person at the screen does
    MaxTrouble,   \* bound: lost answers, failed lists, what other people do
    LastDay       \* bound: days

VARIABLES
    ui,       \* the owner's page or one of the admin's
    server,   \* the price list, the owner's features, invoices and payments
    calls     \* requests on their way, and what has been used of the bounds

vars == <<ui, server, calls>>

Features == {"digest", "reminders"}
MaxInvoices == 2
MaxPayments == 3
Grace == 1
NoRow == [on |-> "none", price |-> 0, trial |-> 0, paid |-> 0]
NoData == [none |-> TRUE]
Upto(seq) == DOMAIN seq
Sum(f(_), S) == MapThenSumSet(f, S)

-----------------------------------------------------------------------------
(* What the server knows. *)

Standing(r, day) ==
    IF day <= r.trial THEN "trial"
    ELSE IF r.paid = 0 THEN "unpaid"
    ELSE IF day <= r.paid THEN "paid"
    ELSE IF day <= r.paid + Grace THEN "grace"
    ELSE "lapsed"
State(s, f) ==
    IF ~s.list[f].sale THEN "not_billed"
    ELSE IF ~s.enforced THEN "not_enforced"
    ELSE IF s.rows[f].on = "none" THEN "not_purchased"
    ELSE Standing(s.rows[f], s.today)
Entitled(s, f) == State(s, f) \in {"not_billed", "not_enforced", "trial", "paid", "grace"}
CoveredUntil(r) == IF r.paid > r.trial THEN r.paid ELSE r.trial
Enabled(s) == {f \in Features : s.rows[f].on = "on"}
Billable(s) == {f \in Enabled(s) : s.list[f].sale}
MonthlyTotal(s) == Sum(LAMBDA f : s.rows[f].price, {f \in Enabled(s) : s.rows[f].paid = 0 \/ s.today <= s.rows[f].paid + Grace})
\* The banner of a feature.
NoticeFor(s, f) ==
    LET end == CoveredUntil(s.rows[f]) IN IF s.today > end + Grace THEN "off" ELSE IF s.today > end THEN "urgent" ELSE "info"
Notices(s) == IF s.enforced THEN [f \in Billable(s) |-> NoticeFor(s, f)] ELSE <<>>

\* set_selection: all of the features that are wanted have to be for sale.
CanSelect(s, keys) == \A f \in keys : s.list[f].sale
OnAsItWas(s, f) ==    \* mutant: a feature that is switched on again keeps the price it had
    LET r == s.rows[f] IN
    IF r.on = "none" THEN [on |-> "on", price |-> s.list[f].price, trial |-> s.today, paid |-> 0] ELSE [r EXCEPT !.on = "on"]
SwitchedOn(s, f) ==
    LET r == s.rows[f] IN
    CASE r.on = "none" -> [on |-> "on", price |-> s.list[f].price, trial |-> s.today, paid |-> 0]
      [] r.on = "cancelled" -> [r EXCEPT !.on = "on", !.price = s.list[f].price]
      [] r.on = "on" -> r
SwitchedOff(r) == IF r.on = "on" THEN [r EXCEPT !.on = "cancelled"] ELSE r
SetSelection(s, keys) == [s EXCEPT !.rows = [f \in Features |-> IF f \in keys THEN SwitchedOn(s, f) ELSE SwitchedOff(s.rows[f])]]
CanPrice(price, sale) == sale => price > 0
UpdateFeature(s, f, price, sale) == [s EXCEPT !.list[f] = [price |-> price, sale |-> sale]]

\* The invoices, and the payments for them.
Total(inv) == Sum(LAMBDA f : inv.lines[f], Features)
Due(s) == {f \in Billable(s) : CoveredUntil(s.rows[f]) <= s.today /\ \A i \in Upto(s.invoices) : s.invoices[i].lines[f] = 0 \/ s.invoices[i].start # CoveredUntil(s.rows[f]) + 1}
Submitted(s) == {p \in Upto(s.payments) : s.payments[p].status = "submitted"}
Reversed(s, p) == \E q \in Upto(s.payments) : s.payments[q].of = p
Pay(i, inv, status, sign, of) == [inv |-> i, amount |-> sign * Total(inv), status |-> status, of |-> of]
Moved(s, i, status) == [s EXCEPT !.invoices[i].status = status, !.invoices[i].stamped = @ \/ status = "paid"]
PaidInto(s, i) ==
    [s EXCEPT !.rows = [f \in Features |->
        IF s.invoices[i].lines[f] > 0 /\ s.invoices[i].start > s.rows[f].paid THEN [s.rows[f] EXCEPT !.paid = s.invoices[i].start] ELSE s.rows[f]]]
PaidOutOf(s, i) ==
    [s EXCEPT !.rows = [f \in Features |->
        IF s.invoices[i].lines[f] > 0 /\ s.rows[f].paid = s.invoices[i].start
        THEN [s.rows[f] EXCEPT !.paid = IF s.invoices[i].start - 1 <= s.rows[f].trial THEN 0 ELSE s.invoices[i].start - 1] ELSE s.rows[f]]]
CanSubmit(s, i) == s.invoices[i].status = "issued"
SubmitProof(s, i) == Moved([s EXCEPT !.payments = Append(@, Pay(i, s.invoices[i], "submitted", 1, 0))], i, "proof_submitted")
CanDecide(s, p) == s.payments[p].status = "submitted" /\ s.invoices[s.payments[p].inv].status = "proof_submitted"
Approve(s, p) == LET i == s.payments[p].inv IN PaidInto(Moved([s EXCEPT !.payments[p].status = "approved"], i, "paid"), i)
Reject(s, p) == Moved([s EXCEPT !.payments[p].status = "rejected"], s.payments[p].inv, "issued")
RecordPayment(s, i) == PaidInto(Moved([s EXCEPT !.payments = Append(@, Pay(i, s.invoices[i], "approved", 1, 0))], i, "paid"), i)
CanReverse(s, p) == s.payments[p].status = "approved" /\ ~Reversed(s, p)
Reverse(s, p) ==
    LET i == s.payments[p].inv IN
    PaidOutOf(Moved([s EXCEPT !.payments = Append(@, Pay(i, s.invoices[i], "reversal", -1, p))], i, "issued"), i)

-----------------------------------------------------------------------------
(* What the pages say. *)

\* A feature that is not for sale is seen only by an owner who has taken it.
Listed(s) == {f \in Features : s.list[f].sale \/ s.rows[f].on # "none"}
PriceTag(s, f) == IF f \in Enabled(s) THEN s.rows[f].price ELSE s.list[f].price
SelectionTotal(s, keys) == Sum(LAMBDA f : PriceTag(s, f), keys \cap Listed(s))
\* premiumStateText, and stateText of the web: what is said, and until which day (0 = no day is named).
Said(what, day) == [what |-> what, until |-> day]
StateText(s, f) ==
    LET r == s.rows[f]  state == State(s, f) IN
    IF r.on = "none" THEN Said("not on", 0)
    ELSE IF r.on = "cancelled" THEN (IF Entitled(s, f) THEN Said("keeps working", IF r.paid > 0 THEN r.paid ELSE r.trial) ELSE Said("cancelled", 0))
    ELSE IF ~s.enforced THEN Said("free trial", r.trial)
    ELSE CASE state = "trial" -> Said("free trial", IF r.paid > r.trial THEN r.paid ELSE r.trial)
           [] state = "paid" -> Said("paid", r.paid)
           [] state = "grace" -> Said("overdue", 0)
           [] state \in {"lapsed", "unpaid"} -> Said("pay", 0)
           [] OTHER -> Said("on", 0)
PayBox(s, i) == s.invoices[i].status = "issued"
\* The rows of the page on the web and on the phone; the text of a feature that has stopped is red.
Alarming(s, f) == ~Entitled(s, f) /\ f \in Enabled(s)
WebText(s, f) == StateText(s, f)
WebRows(s) == [f \in Listed(s) |-> [price |-> PriceTag(s, f), says |-> WebText(s, f), red |-> Alarming(s, f)]]
MobileRows(s) == [f \in Listed(s) |-> [price |-> PriceTag(s, f), says |-> StateText(s, f), red |-> Alarming(s, f)]]
WebInvoices(s) == {i \in Upto(s.invoices) : PayBox(s, i)}
LastRejection(s, i) == PayBox(s, i) /\ \E p \in Upto(s.payments) : s.payments[p].inv = i /\ s.payments[p].status = "rejected"

\* The admin's lists, and the reports.
ListOf(s, name) ==
    CASE name = "submitted" -> Submitted(s)
      [] name = "waiting" -> {i \in Upto(s.invoices) : s.invoices[i].status = "issued"}
      [] name = "approved" -> {p \in Upto(s.payments) : s.payments[p].status = "approved"}
Lists == {"submitted", "waiting", "approved"}
Classify(state) == CASE state = "trial" -> "trial" [] state = "paid" -> "paying" [] state = "grace" -> "overdue" [] OTHER -> "off"
Class(s, f) == Classify(Standing(s.rows[f], s.today))
OpenInvoices(s) == {i \in Upto(s.invoices) : s.invoices[i].status \in {"issued", "proof_submitted"}}
Owed(s) == Sum(LAMBDA i : Total(s.invoices[i]), OpenInvoices(s))
Collected(s) == Sum(LAMBDA p : s.payments[p].amount, {p \in Upto(s.payments) : s.payments[p].status \in {"approved", "reversal"}})
Value(s, classes) == Sum(LAMBDA f : s.rows[f].price, {f \in Billable(s) : Class(s, f) \in classes})
Summary(s) ==
    [collected |-> Collected(s), outstanding |-> Owed(s), screenshots |-> Cardinality(Submitted(s)),
     recurring |-> Value(s, {"paying", "overdue"}), trial |-> Value(s, {"trial"}), risk |-> Value(s, {"off"})]
OwnerRow(s) ==
    LET has(c) == \E f \in Billable(s) : Class(s, f) = c IN
    [state |-> IF has("off") THEN "off" ELSE IF has("overdue") THEN "overdue" ELSE IF has("paying") THEN "paying" ELSE IF has("trial") THEN "trial" ELSE "none",
     monthly |-> MonthlyTotal(s), outstanding |-> Owed(s), collected |-> Collected(s),
     due |-> LET ends == {CoveredUntil(s.rows[f]) + (IF Class(s, f) = "overdue" THEN Grace ELSE 0) : f \in {g \in Billable(s) : Class(s, g) # "off"}} IN
             IF ends = {} THEN 0 ELSE Min(ends)]
MoneySection(s) == LET sum == Summary(s) IN [stats |-> sum, risky |-> sum.risk > 0]
FeatureTable(s) ==
    [f \in Features |-> Value([s EXCEPT !.rows = [g \in Features |-> IF g = f THEN s.rows[f] ELSE NoRow]], {"paying", "overdue"})]
OwnersTable(s) == IF \A f \in Features : s.rows[f].on = "none" THEN {} ELSE {OwnerRow(s)}
FeatureCard(s, f) == [state |-> Standing(s.rows[f], s.today), renewing |-> f \in Enabled(s), works |-> Standing(s.rows[f], s.today) \in {"trial", "paid", "grace"}]
InvoiceCard(s, i) ==
    [says |-> s.invoices[i].status, paid |-> s.invoices[i].stamped, payments |-> {p \in Upto(s.payments) : s.payments[p].inv = i}]
OwnerPage(s) ==
    [monthly |-> MonthlyTotal(s), unpaid |-> Owed(s), collected |-> Sum(LAMBDA i : Sum(LAMBDA p :
        IF s.payments[p].status \in {"approved", "reversal"} THEN s.payments[p].amount ELSE 0, InvoiceCard(s, i).payments), Upto(s.invoices))]

-----------------------------------------------------------------------------
NoBox == [file |-> FALSE, busy |-> FALSE]
Init ==
    \E desk \in {"owner", "payments", "pricing"}, enforced \in BOOLEAN : (enforced \/ desk = "pricing") /\
    LET s == [today |-> 1, enforced |-> enforced, invoices |-> <<>>, payments |-> <<>>,
              list |-> [f \in Features |-> [price |-> IF f = "digest" THEN 2 ELSE 1, sale |-> TRUE]],
              rows |-> [f \in Features |-> IF f = "digest" THEN [on |-> "on", price |-> 1, trial |-> 1, paid |-> 0] ELSE NoRow]] IN
        /\ server = s
        /\ ui = [desk |-> desk, data |-> s, touched |-> FALSE, keys |-> {}, saved |-> {},
                 boxes |-> [i \in 1 .. MaxInvoices |-> NoBox], lists |-> [n \in Lists |-> {}], gone |-> {}, rejecting |-> {}, opened |-> {}, done |-> {},
                 form |-> [price |-> s.list["digest"].price, sale |-> TRUE, saved |-> FALSE]]
        /\ calls = [get |-> NoData, save |-> {}, uploads |-> {}, asks |-> {}, refresh |-> {}, patch |-> {}, acts |-> 0, trouble |-> 0]

\* The payments page has one more: a payment is reversed after a screenshot and its approval.
Acting == calls.acts < MaxActs + (IF ui.desk = "payments" THEN 1 ELSE 0)
Act(c) == [c EXCEPT !.acts = @ + 1]
Troubling == calls.trouble < MaxTrouble
Trouble(c) == [c EXCEPT !.trouble = @ + 1]
AtOwner == ui.desk = "owner"
AtPayments == ui.desk = "payments"
AtPricing == ui.desk = "pricing"

-----------------------------------------------------------------------------
(* The owner's page. *)

Ticks == IF ui.touched THEN ui.keys ELSE Enabled(ui.data)
Changed == Ticks # Enabled(ui.data)
\* The page with what the server has just said; a pay box goes with its invoice.
Fresh(u, s) == [u EXCEPT !.data = s, !.boxes = [i \in 1 .. MaxInvoices |-> IF i \in Upto(s.invoices) /\ PayBox(s, i) THEN u.boxes[i] ELSE NoBox]]
Refetch == ~AtPayments /\ Acting /\ calls.get = NoData /\ calls' = Act([calls EXCEPT !.get = server]) /\ UNCHANGED <<ui, server>>
Arrives == calls.get # NoData /\ ui' = Fresh(ui, calls.get) /\ calls' = [calls EXCEPT !.get = NoData] /\ UNCHANGED server
Pick(f) ==
    /\ AtOwner /\ Acting /\ f \in Listed(ui.data)
    /\ ui' = [ui EXCEPT !.touched = TRUE, !.keys = IF f \in Ticks THEN Ticks \ {f} ELSE Ticks \cup {f}]
    /\ calls' = Act(calls) /\ UNCHANGED server
Save ==
    /\ AtOwner /\ Changed /\ calls.save = {}
    /\ calls' = [calls EXCEPT !.save = {[keys |-> Ticks, page |-> ui.data]}]
    /\ ui' = [ui EXCEPT !.saved = {}] /\ UNCHANGED server
\* What a save has done beside what its page showed: a feature is stale whose price or row was another by then.
Outcome(sent, s) ==
    [keys |-> sent.keys, on |-> Enabled(s),
     otherwise |-> {f \in Enabled(s) : s.rows[f].price # PriceTag(sent.page, f)},
     stale |-> {f \in Features : sent.page.list[f] # server.list[f] \/ sent.page.rows[f] # server.rows[f]}]
\* The answer is the page's new data; ticks made since the save was sent are forgotten.
SaveAnswered ==
    /\ \E sent \in calls.save :
          IF CanSelect(server, sent.keys)
          THEN LET s == SetSelection(server, sent.keys) IN
               server' = s /\ ui' = [Fresh(ui, s) EXCEPT !.touched = FALSE, !.keys = {}, !.saved = {Outcome(sent, s)}]
          ELSE UNCHANGED <<ui, server>>
    /\ calls' = [calls EXCEPT !.save = {}]
SaveLost ==
    /\ Troubling
    /\ \E sent \in calls.save : server' = IF CanSelect(server, sent.keys) THEN SetSelection(server, sent.keys) ELSE server
    /\ calls' = Trouble([calls EXCEPT !.save = {}]) /\ UNCHANGED ui

ChooseFile(i) ==
    /\ AtOwner /\ Acting /\ i \in Upto(ui.data.invoices) /\ PayBox(ui.data, i) /\ ~ui.boxes[i].file
    /\ ui' = [ui EXCEPT !.boxes[i].file = TRUE]
    /\ calls' = Act(calls) /\ UNCHANGED server
SendProof(i) ==
    /\ AtOwner /\ i \in Upto(ui.data.invoices) /\ ui.boxes[i].file /\ ~ui.boxes[i].busy
    /\ ui' = [ui EXCEPT !.boxes[i].busy = TRUE]
    /\ calls' = [calls EXCEPT !.uploads = @ \cup {i}] /\ UNCHANGED server
Sent(i) == [ui EXCEPT !.boxes[i].busy = FALSE]
ProofAnswered(i) ==
    /\ i \in calls.uploads /\ Len(server.payments) < MaxPayments
    /\ IF CanSubmit(server, i)
       THEN LET s == SubmitProof(server, i) IN server' = s /\ ui' = Fresh([Sent(i) EXCEPT !.boxes[i].file = FALSE], s)
       ELSE ui' = Sent(i) /\ UNCHANGED server
    /\ calls' = [calls EXCEPT !.uploads = @ \ {i}]
ProofLost(i) ==
    /\ i \in calls.uploads /\ Troubling /\ Len(server.payments) < MaxPayments
    /\ server' = IF CanSubmit(server, i) THEN SubmitProof(server, i) ELSE server
    /\ ui' = Sent(i)
    /\ calls' = Trouble([calls EXCEPT !.uploads = @ \ {i}])

-----------------------------------------------------------------------------
(* The admin's pages. *)

\* Approve and Reject of a screenshot wait for each other; a card is busy until the lists have come again.
CardBusy(kind, n) == \E a \in calls.asks : a.n = n /\ (a.kind = kind \/ {a.kind, kind} = {"approve", "reject"})
Ask(kind, n) == [kind |-> kind, n |-> n, answered |-> FALSE]
Asks(kind, n) == calls' = Act([calls EXCEPT !.asks = @ \cup {Ask(kind, n)}]) /\ UNCHANGED server
PressApprove(p) == AtPayments /\ Acting /\ p \in ui.lists["submitted"] \ ui.rejecting /\ ~CardBusy("approve", p) /\ Asks("approve", p) /\ UNCHANGED ui
StartReject(p) ==
    /\ AtPayments /\ p \in ui.lists["submitted"] \ ui.rejecting /\ ~CardBusy("reject", p)
    /\ ui' = [ui EXCEPT !.rejecting = @ \cup {p}] /\ UNCHANGED <<server, calls>>
BackFromReject(p) == AtPayments /\ p \in ui.rejecting /\ ui' = [ui EXCEPT !.rejecting = @ \ {p}] /\ UNCHANGED <<server, calls>>
PressReject(p) == AtPayments /\ Acting /\ p \in ui.rejecting /\ ~CardBusy("reject", p) /\ Asks("reject", p) /\ UNCHANGED ui
OpenForm(kind, n) ==
    /\ AtPayments /\ <<kind, n>> \notin ui.opened
    /\ IF kind = "record" THEN n \in ui.lists["waiting"] ELSE n \in ui.lists["approved"] \ ui.gone
    /\ ui' = [ui EXCEPT !.opened = @ \cup {<<kind, n>>}] /\ UNCHANGED <<server, calls>>
PressForm(kind, n) == AtPayments /\ Acting /\ <<kind, n>> \in ui.opened /\ ~CardBusy(kind, n) /\ Asks(kind, n) /\ UNCHANGED ui

Accepts(s, a) ==
    CASE a.kind \in {"approve", "reject"} -> CanDecide(s, a.n)
      [] a.kind = "record" -> CanSubmit(s, a.n)
      [] a.kind = "reverse" -> CanReverse(s, a.n)
Effect(s, a) ==
    CASE a.kind = "approve" -> Approve(s, a.n) [] a.kind = "reject" -> Reject(s, a.n)
      [] a.kind = "record" -> RecordPayment(s, a.n) [] a.kind = "reverse" -> Reverse(s, a.n)
WithinBound(s, a) == a.kind \in {"record", "reverse"} => Len(s.payments) < MaxPayments
\* What has been done; a payment that was reversed can be recorded again.
Matter(a) == IF a.kind \in {"approve", "reject"} THEN <<"decide", a.n>> ELSE <<a.kind, a.n>>
Undone(s, a) == IF a.kind = "reverse" THEN {<<"record", s.payments[a.n].inv>>} ELSE {}
Closed(u, a) == [u EXCEPT !.opened = @ \ {<<a.kind, a.n>>}, !.done = (@ \ Undone(server, a)) \cup {Matter(a)}]
Answer(a) ==
    /\ ~a.answered /\ WithinBound(server, a)
    /\ IF Accepts(server, a)
       THEN /\ server' = Effect(server, a) /\ ui' = Closed(ui, a)
            /\ calls' = [calls EXCEPT !.asks = (@ \ {a}) \cup {[a EXCEPT !.answered = TRUE]}, !.refresh = Lists]
       ELSE calls' = [calls EXCEPT !.asks = @ \ {a}] /\ UNCHANGED <<ui, server>>
\* The lists come one after the other; the buttons wait for all three.
Settled(c) == IF c.refresh = {} THEN [c EXCEPT !.asks = {a \in @ : ~a.answered}] ELSE c
ListArrives(name) ==
    /\ name \in calls.refresh
    /\ ui' = [ui EXCEPT !.lists[name] = ListOf(server, name), !.gone = IF name = "approved" THEN {p \in Upto(server.payments) : Reversed(server, p)} ELSE @,
                        !.rejecting = IF name = "submitted" THEN @ \cap Submitted(server) ELSE @,
                        !.opened = {o \in @ : (o[1] = "record" /\ name = "waiting") => o[2] \in ListOf(server, "waiting")}]
    /\ calls' = Settled([calls EXCEPT !.refresh = @ \ {name}]) /\ UNCHANGED server
ListFails(name) ==
    /\ name \in calls.refresh /\ Troubling
    /\ calls' = Trouble(Settled([calls EXCEPT !.refresh = @ \ {name}])) /\ UNCHANGED <<ui, server>>
Polls ==
    /\ AtPayments /\ calls.refresh = {} /\ ui.lists["submitted"] # Submitted(server)
    /\ ui' = [ui EXCEPT !.lists["submitted"] = Submitted(server), !.rejecting = @ \cap Submitted(server)] /\ UNCHANGED <<server, calls>>
OpenPayments ==
    /\ AtPayments /\ calls.refresh = {} /\ calls.asks = {} /\ Acting
    /\ calls' = Act([calls EXCEPT !.refresh = Lists]) /\ UNCHANGED <<ui, server>>

\* The price list: a row keeps what was typed; "Saved" while it is what the list says.
Dirty == ui.form.price # ui.data.list["digest"].price \/ ui.form.sale # ui.data.list["digest"].sale
TypePrice(n) == AtPricing /\ Acting /\ ui' = [ui EXCEPT !.form.price = n, !.form.saved = FALSE] /\ calls' = Act(calls) /\ UNCHANGED server
TickSale == AtPricing /\ Acting /\ ui' = [ui EXCEPT !.form.sale = ~@, !.form.saved = FALSE] /\ calls' = Act(calls) /\ UNCHANGED server
PressSave ==
    /\ AtPricing /\ Dirty /\ (ui.form.sale => ui.form.price > 0) /\ calls.patch = {}
    /\ calls' = [calls EXCEPT !.patch = {[price |-> ui.form.price, sale |-> ui.form.sale]}] /\ UNCHANGED <<ui, server>>
\* The list is fetched again, in place of a fetch that was on its way.
PriceSaved ==
    /\ \E sent \in calls.patch :
          /\ CanPrice(sent.price, sent.sale) /\ server' = UpdateFeature(server, "digest", sent.price, sent.sale)
          /\ calls' = [calls EXCEPT !.patch = {}, !.get = server']
    /\ ui' = [ui EXCEPT !.form.saved = TRUE]

-----------------------------------------------------------------------------
(* Everyone else: the day, the billing job, the other side, another tab. *)

Other(s) == server' = s /\ calls' = Act(calls) /\ UNCHANGED ui
Day == server.today < LastDay /\ server' = [server EXCEPT !.today = @ + 1] /\ UNCHANGED <<ui, calls>>
BillingJob ==
    /\ ~AtPricing /\ server.enforced /\ Due(server) # {} /\ Len(server.invoices) < MaxInvoices
    /\ LET first == Min({CoveredUntil(server.rows[f]) + 1 : f \in Due(server)})
           lines == [f \in Features |-> IF f \in Due(server) /\ CoveredUntil(server.rows[f]) + 1 = first THEN server.rows[f].price ELSE 0] IN
       /\ \A i \in Upto(server.invoices) : server.invoices[i].start # first
       /\ server' = [server EXCEPT !.invoices = Append(@, [lines |-> lines, start |-> first, status |-> "issued", stamped |-> FALSE])]
    /\ UNCHANGED <<ui, calls>>
TheOtherSide ==
    /\ ~AtPricing /\ Acting /\ Len(server.payments) < MaxPayments
    /\ \/ AtPayments /\ \E i \in Upto(server.invoices) : CanSubmit(server, i) /\ Other(SubmitProof(server, i))
       \/ AtOwner /\ \E p \in Upto(server.payments) :
             (CanDecide(server, p) /\ (Other(Approve(server, p)) \/ Other(Reject(server, p)))) \/ (CanReverse(server, p) /\ Other(Reverse(server, p)))
       \/ AtOwner /\ \E i \in Upto(server.invoices) : CanSubmit(server, i) /\ Other(RecordPayment(server, i))
AnotherTab ==
    /\ Troubling
    /\ \/ AtPayments /\ \E p \in Submitted(server) : CanDecide(server, p) /\ server' \in {Approve(server, p), Reject(server, p)}
       \/ AtOwner /\ \E keys \in SUBSET Features : CanSelect(server, keys) /\ server' = SetSelection(server, keys) /\ server' # server
       \/ AtOwner /\ server' \in {UpdateFeature(server, "reminders", 2, TRUE), UpdateFeature(server, "digest", 2, FALSE)}
       \/ AtPricing /\ server' = UpdateFeature(server, "digest", 1, FALSE)
    /\ calls' = Trouble(calls) /\ UNCHANGED ui

Next ==
    \/ Refetch \/ Arrives \/ (\E f \in Features : Pick(f)) \/ Save \/ SaveAnswered \/ SaveLost
    \/ \E i \in 1 .. MaxInvoices : ChooseFile(i) \/ SendProof(i) \/ ProofAnswered(i) \/ ProofLost(i) \/ OpenForm("record", i) \/ PressForm("record", i)
    \/ \E p \in 1 .. MaxPayments : PressApprove(p) \/ StartReject(p) \/ BackFromReject(p) \/ PressReject(p) \/ OpenForm("reverse", p) \/ PressForm("reverse", p)
    \/ (\E a \in calls.asks : Answer(a)) \/ (\E n \in Lists : ListArrives(n) \/ ListFails(n)) \/ Polls \/ OpenPayments
    \/ (\E n \in 0 .. 1 : TypePrice(n)) \/ TickSale \/ PressSave \/ PriceSaved
    \/ Day \/ BillingJob \/ TheOtherSide \/ AnotherTab

Spec == Init /\ [][Next]_vars

-----------------------------------------------------------------------------
Days == 0 .. LastDay + 1
TypeOK ==
    /\ server.today \in 1 .. LastDay /\ \A f \in Features : server.rows[f].paid \in Days /\ server.rows[f].price \in 0 .. 2
    /\ Len(server.invoices) <= MaxInvoices /\ Len(server.payments) <= MaxPayments /\ ui.keys \subseteq Features
    /\ calls.acts \in 0 .. MaxActs + 1 /\ calls.trouble \in 0 .. MaxTrouble /\ calls.refresh \subseteq Lists

\* A save that was answered has switched on what was ticked when it was pressed and nothing else, and each feature
\* costs what stood beside its tick (unless the feature or its price was changed after the page had come: the save
\* goes through at the price of the day).
SavedAsShown == \A done \in ui.saved : done.on = done.keys /\ done.otherwise \subseteq done.stale
\* What is said about a feature is true: the day named is not over, and what is said to work does (a cancelled feature
\* in its days of grace, or no longer for sale, is said to work until a day that has passed).
TextIsTrue ==
    server.enforced => \A f \in Listed(server) :
        LET text == StateText(server, f) IN
        /\ text.until > 0 /\ State(server, f) \notin {"grace", "not_billed"} => text.until >= server.today
        /\ text.what \in {"free trial", "paid", "overdue", "keeps working"} => Entitled(server, f)
        /\ text.what \in {"pay", "cancelled"} => ~Entitled(server, f)
        /\ WebRows(server)[f].red <=> text.what = "pay"
        /\ MobileRows(server)[f] = WebRows(server)[f]
\* The banner and the gate agree (but a trial that ended unpaid is off at once, and its banner says it still works).
NoticeIsTrue ==
    \A f \in DOMAIN Notices(server) :
        CASE Notices(server)[f] = "info" -> Entitled(server, f)
          [] Notices(server)[f] = "urgent" -> Entitled(server, f) \/ server.rows[f].paid = 0
          [] Notices(server)[f] = "off" -> ~Entitled(server, f)
\* The books: an invoice is paid by exactly one payment that stands, and has one screenshot to check while it is being
\* checked; the revenue page, the owner's row and the owner's cards add up to the same.
BooksAgree ==
    /\ \A i \in Upto(server.invoices) :
          LET of(status) == {p \in Upto(server.payments) : server.payments[p].inv = i /\ server.payments[p].status = status /\ ~Reversed(server, p)} IN
          /\ Cardinality(of("approved")) = IF server.invoices[i].status = "paid" THEN 1 ELSE 0
          /\ Cardinality(of("submitted")) = IF server.invoices[i].status = "proof_submitted" THEN 1 ELSE 0
          /\ InvoiceCard(server, i).says = "paid" => InvoiceCard(server, i).paid
    /\ LET sum == Summary(server)  row == OwnerRow(server) IN
       /\ sum.collected + sum.outstanding = Sum(LAMBDA i : Total(server.invoices[i]), Upto(server.invoices))
       /\ OwnerPage(server) = [monthly |-> row.monthly, unpaid |-> row.outstanding, collected |-> row.collected]
       /\ sum.recurring = Sum(LAMBDA f : FeatureTable(server)[f], Features)
       /\ sum.outstanding = Sum(LAMBDA i : Total(server.invoices[i]), WebInvoices(server)) + Sum(LAMBDA p : server.payments[p].amount, Submitted(server))
       /\ MoneySection(server).risky <=> \E r \in OwnersTable(server) : r.state = "off"
       /\ sum.recurring + sum.trial + sum.risk = Sum(LAMBDA f : server.rows[f].price, Billable(server))
       /\ row.state = "off" <=> \E f \in Billable(server) : ~FeatureCard(server, f).works
       /\ row.due > 0 => row.due >= server.today
       /\ row.state \in {"off", "overdue"} /\ server.enforced => \E f \in Billable(server) : NoticeFor(server, f) # "info"
\* An owner is not asked to pay what is paid or being checked, once the page has the news.
AsksForWhatIsOwed ==
    AtOwner /\ ui.data = server => \A i \in 1 .. MaxInvoices : ui.boxes[i].file => i \in OpenInvoices(server) /\ CanSubmit(server, i)
\* What the admin's page has done it does not ask for again: the buttons wait for the lists.
DoneIsDone == AtPayments /\ calls.trouble = 0 => \A a \in calls.asks : ~a.answered => Matter(a) \notin ui.done
\* What can be bought has a price, and "Saved" stands beside what the server has.
PricesStand ==
    /\ \A f \in Features : server.list[f].sale => server.list[f].price > 0
    /\ AtPricing /\ ui.form.saved /\ ~Dirty /\ calls.trouble = 0 /\ calls.get = NoData =>
          server.list["digest"] = [price |-> ui.form.price, sale |-> ui.form.sale]

\* All of these.
Faithful == SavedAsShown /\ TextIsTrue /\ NoticeIsTrue /\ BooksAgree /\ AsksForWhatIsOwed /\ DoneIsDone /\ PricesStand
=============================================================================
