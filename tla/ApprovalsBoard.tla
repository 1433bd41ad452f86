--------------------------- MODULE ApprovalsBoard ---------------------------
(***************************************************************************)
(* The approvals screen of the mobile app.  A card stays on the list while *)
(* its request runs; one `busyId` greys its buttons; sheets for approve,   *)
(* reject and refund, a sheet of its own for a screenshot used before, and *)
(* a bulk run that sends one approve after the other.                      *)
(***************************************************************************)
EXTENDS Integers, FiniteSets, ReviewServer

CONSTANT MaxActs   \* bound: how many decisions the owner sends one by one

VARIABLES
    ui,       \* the state of the screen and the query's data
    calls     \* the fetch, the decisions and the bulk run in flight

vars == <<ui, server, calls>>

NoSheet == [kind |-> "none", id |-> 0]
NoBulk == [open |-> FALSE, ids |-> {}, busy |-> FALSE]
NoRun == [on |-> FALSE, todo |-> {}, stuck |-> {}]

Init ==
    /\ ui = [data |-> <<>>, removed |-> {}, greyed |-> {}, busyId |-> 0, told |-> {},
             sheet |-> NoSheet, dup |-> 0, sheetError |-> FALSE, locked |-> FALSE, bulk |-> NoBulk]
    /\ ServerInit
    /\ calls = [act |-> {}, fetch |-> "none", run |-> NoRun, sent |-> 0]

-----------------------------------------------------------------------------
(* What the screen derives from its state. *)

Items == DOMAIN ui.data \ ui.removed
IsGrey(p) == p \in ui.greyed \/ ui.data[p] = "closed"
Awaits(p) == p \in Items /\ ~IsGrey(p)

\* A sheet covers the list; one whose card left or turned grey is not drawn.
Covered ==
    \/ ui.sheet.id \in Items /\ (ui.sheet.kind = "refund" \/ Awaits(ui.sheet.id))
    \/ Awaits(ui.dup)
    \/ ui.bulk.open

\* ApprovalCard: which buttons of a card can be pressed.
Buttons(p) ==
    IF p \notin Items \/ ui.locked \/ Covered \/ ui.busyId = p THEN {}
    ELSE IF IsGrey(p) THEN {"ack", "refund"} ELSE {"approve", "reject"}

\* bulkApprovable: waiting, the amounts match, no screenshot used before.
Bulkable == IF ui.locked THEN {} ELSE {p \in Items : Awaits(p) /\ ui.data[p] # "used"}

-----------------------------------------------------------------------------
(* The queue. *)

Poll ==
    /\ calls.fetch = "none"
    /\ calls' = [calls EXCEPT !.fetch = "asked"]
    /\ UNCHANGED <<ui, server>>

\* The answer and its arrival in one step: the list shows it until the next poll.
ShowQueue ==
    /\ calls.fetch = "asked"
    /\ ui' = [ui EXCEPT !.data = [p \in Listed |-> server.card[p]]]
    /\ calls' = [calls EXCEPT !.fetch = "none"]
    /\ UNCHANGED server

-----------------------------------------------------------------------------
(* One card. *)

OpenSheet(kind, p) ==
    /\ kind \in Buttons(p) \ {"ack"}
    /\ ui' = [ui EXCEPT !.sheet = [kind |-> kind, id |-> p], !.sheetError = FALSE]
    /\ UNCHANGED <<server, calls>>

CloseSheet ==
    /\ Covered
    /\ ui' = IF ui.bulk.open THEN [ui EXCEPT !.bulk = NoBulk]
             ELSE [ui EXCEPT !.sheet = NoSheet, !.dup = 0]
    /\ UNCHANGED <<server, calls>>

\* An act that starts with a clean screen.
ForgetsErrors(p) == {}

\* act clears the error of its own card only.
ErrorsKept(p) == ui.told \ {p}

\* act, with the sheets its callbacks will still see.
Act(p, kind, confirm) ==
    /\ ui.busyId # p /\ calls.sent < MaxActs
    /\ ui' = [ui EXCEPT !.busyId = p, !.sheetError = FALSE, !.told = ErrorsKept(p)]
    /\ calls' = [calls EXCEPT
            !.act = @ \cup {[p |-> p, kind |-> kind, confirm |-> confirm, at |-> "sent",
                             told |-> IF ui.dup # 0 \/ ui.sheet # NoSheet THEN "sheet" ELSE "card"]},
            !.run.stuck = @ \ {p}, !.sent = @ + 1]
    /\ UNCHANGED server

Acknowledge(p) == "ack" \in Buttons(p) /\ Act(p, "ack", FALSE)

\* ApproveSheet; approve asks first when the card says the screenshot was used before.
ConfirmApprove ==
    LET p == ui.sheet.id IN
    /\ ui.sheet.kind = "approve" /\ Awaits(p) /\ ~ui.bulk.open
    /\ IF ui.data[p] = "used"
       THEN /\ ui' = [ui EXCEPT !.sheet = NoSheet, !.dup = p]
            /\ UNCHANGED <<server, calls>>
       ELSE Act(p, "approve", FALSE)

\* DuplicateConfirmSheet: only here is confirm_duplicate sent.
ConfirmDuplicate == Awaits(ui.dup) /\ ~ui.bulk.open /\ Act(ui.dup, "approve", TRUE)

\* RejectSheet: the reason is required.
ConfirmReject == ui.sheet.kind = "reject" /\ Awaits(ui.sheet.id) /\ Act(ui.sheet.id, "reject", FALSE)

\* RefundConfirmSheet: a money action, confirmed with its amount first.
ConfirmRefund == ui.sheet.kind = "refund" /\ ui.sheet.id \in Items /\ Act(ui.sheet.id, "ack", FALSE)

Decide(c) ==
    /\ c.at = "sent"
    /\ Review(c)
    /\ calls' = [calls EXCEPT !.act = (@ \ {c}) \cup {[c EXCEPT !.at = Verdict(c)]}]
    /\ UNCHANGED ui

LoseDecision(c) ==
    /\ c.at \in {"sent", "ok"}
    /\ calls' = [calls EXCEPT !.act = (@ \ {c}) \cup {[c EXCEPT !.at = "failed"]}]
    /\ UNCHANGED <<ui, server>>

\* What the answer to a single decision does to the screen.
AfterAct(c) ==
    LET idle == [ui EXCEPT !.busyId = 0]
        closed == [idle EXCEPT !.sheet = NoSheet, !.dup = 0] IN
    CASE c.at = "ok" -> [closed EXCEPT !.removed = @ \cup {c.p},
                                       !.dup = IF c.kind = "approve" THEN 0 ELSE ui.dup]
      [] c.at = "closed" -> [closed EXCEPT !.greyed = @ \cup {c.p}]
      [] c.at = "denied" -> [closed EXCEPT !.locked = TRUE]
      [] c.at = "dup" -> [idle EXCEPT !.sheet = NoSheet, !.dup = c.p]
      [] c.told = "sheet" -> [idle EXCEPT !.sheetError = TRUE]
      [] OTHER -> [idle EXCEPT !.told = @ \cup {c.p}]

Settle(c) ==
    /\ c.at # "sent" /\ c.told # "bulk"
    /\ ui' = AfterAct(c)
    /\ calls' = [calls EXCEPT !.act = @ \ {c}, !.fetch = IF c.at = "ok" THEN "asked" ELSE @]
    /\ UNCHANGED server

-----------------------------------------------------------------------------
(* The bulk run. *)

OpenBulk ==
    /\ Cardinality(Bulkable) >= 2 /\ ~Covered
    /\ ui' = [ui EXCEPT !.bulk = [open |-> TRUE, ids |-> Bulkable, busy |-> FALSE]]
    /\ UNCHANGED <<server, calls>>

\* runBulk starts with the listed ones of its ids; the sheet can be closed meanwhile.
StartRun ==
    /\ ui.bulk.open /\ ~ui.bulk.busy /\ ui.bulk.ids \cap Items # {} /\ ~calls.run.on
    /\ ui' = [ui EXCEPT !.bulk.busy = TRUE]
    /\ calls' = [calls EXCEPT !.run = [on |-> TRUE, todo |-> ui.bulk.ids \cap Items, stuck |-> {}]]
    /\ UNCHANGED server

RunCalls == {c \in calls.act : c.told = "bulk"}

RunNext(p) ==
    /\ p \in calls.run.todo /\ RunCalls = {} /\ \A q \in calls.run.todo : q <= p
    /\ calls' = [calls EXCEPT
            !.run.todo = @ \ {p},
            !.act = @ \cup {[p |-> p, kind |-> "approve", confirm |-> FALSE, at |-> "sent", told |-> "bulk"]}]
    /\ UNCHANGED <<ui, server>>

RunSettle(c) ==
    /\ c \in RunCalls /\ c.at # "sent"
    /\ ui' = CASE c.at = "ok" -> [ui EXCEPT !.removed = @ \cup {c.p}]
               [] c.at = "closed" -> [ui EXCEPT !.greyed = @ \cup {c.p}]
               [] c.at = "denied" -> [ui EXCEPT !.locked = TRUE]
               [] OTHER -> [ui EXCEPT !.told = @ \cup {c.p}]
    /\ calls' = [calls EXCEPT !.act = @ \ {c},
                              !.run.stuck = IF c.at = "ok" THEN @ ELSE @ \cup {c.p}]
    /\ UNCHANGED server

\* The list is refetched; the sheet closes, or says that the reasons are on the cards.
EndRun ==
    /\ calls.run.on /\ calls.run.todo = {} /\ RunCalls = {}
    /\ ui' = [ui EXCEPT !.bulk = IF calls.run.stuck = {} THEN NoBulk ELSE [@ EXCEPT !.busy = FALSE]]
    /\ calls' = [calls EXCEPT !.run = NoRun, !.fetch = "asked"]
    /\ UNCHANGED server

Elsewhere(p) == ChangeElsewhere(p) /\ UNCHANGED <<ui, calls>>

Next ==
    \/ Poll \/ ShowQueue \/ CloseSheet \/ OpenBulk \/ StartRun \/ EndRun
    \/ ConfirmApprove \/ ConfirmDuplicate \/ ConfirmReject \/ ConfirmRefund
    \/ \E p \in Payments : \/ Acknowledge(p) \/ RunNext(p) \/ Elsewhere(p)
                           \/ \E kind \in {"approve", "reject", "refund"} : OpenSheet(kind, p)
    \/ \E c \in calls.act : Decide(c) \/ LoseDecision(c) \/ Settle(c) \/ RunSettle(c)

Spec == Init /\ [][Next]_vars

-----------------------------------------------------------------------------
TypeOK ==
    /\ ServerTypeOK /\ DOMAIN ui.data \subseteq Payments
    /\ ui.removed \subseteq Payments /\ ui.greyed \subseteq Payments /\ ui.told \subseteq Payments
    /\ ui.busyId \in Payments \cup {0} /\ ui.dup \in Payments \cup {0}

\* A bulk run never loses one of its payments from sight: each that the server did not take
\* is a card with its reason on it, grey, or under the note that locks the screen, until the
\* owner takes that card up himself (runBulk: "A refusal leaves that card in place with its
\* reason").
BulkAccountsForEach ==
    \A p \in calls.run.stuck : p \in ui.told \cup ui.greyed \/ ui.locked

\* A card is taken off this screen only for a payment that is out of the queue.
RemovedIsDecided == \A p \in ui.removed : server.card[p] = "gone"

Faithful == BulkAccountsForEach /\ RemovedIsDecided

=============================================================================
