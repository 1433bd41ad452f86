--------------------------- MODULE ApprovalsQueue ---------------------------
(***************************************************************************)
(* The owner's approvals page on the web: the paged queue it polls, the    *)
(* cards it hides before the server has answered, the dialogs under which  *)
(* the list stands still, and the answers that undo, grey or lock a card.  *)
(* Payments are numbered by age, so the newest comes first in every list.  *)
(***************************************************************************)
EXTENDS Integers, Sequences, FiniteSets, ReviewServer

CONSTANT PageSize   \* how many cards the server puts on a page

VARIABLES
    ui,       \* the React state of the page and the query's data
    calls     \* the fetch and the decisions in flight

vars == <<ui, server, calls>>

NoDialog == [kind |-> "none", item |-> 0, used |-> FALSE]
NotFrozen == {0}
NoFetch == [at |-> "none", got |-> <<>>, want |-> 0]

Init ==
    /\ ui = [pages |-> <<>>, hidden |-> {}, grey |-> {}, snapshot |-> NotFrozen,
             dialog |-> NoDialog, locked |-> FALSE, failed |-> FALSE]
    /\ ServerInit
    /\ calls = [act |-> {}, fetch |-> NoFetch]

-----------------------------------------------------------------------------
(* What the page derives from its data. *)

\* GET approvals-queue: one page of the queue and the total.
Page(n) ==
    LET place(p) == Cardinality({q \in Listed : q > p}) IN
    [items |-> [p \in {q \in Listed : place(q) \div PageSize = n - 1} |-> server.card[p]],
     total |-> Cardinality(Listed)]

\* mergePages: a card that moved to a later page while it was fetched counts once.
Loaded(pages) == UNION {DOMAIN pages[i].items : i \in DOMAIN pages}
CardOf(p) == LET first == CHOOSE i \in DOMAIN ui.pages :
                     /\ p \in DOMAIN ui.pages[i].items
                     /\ \A j \in 1 .. i - 1 : p \notin DOMAIN ui.pages[j].items
             IN ui.pages[first].items[p]

\* getNextPageParam, with the lengths of the pages as they came.
HasNextPage(pages) ==
    LET Sum[i \in 0 .. Len(pages)] ==
            IF i = 0 THEN 0 ELSE Sum[i - 1] + Cardinality(DOMAIN pages[i].items)
    IN pages # <<>> /\ Sum[Len(pages)] < pages[Len(pages)].total

\* A list that follows every poll.
LiveIds(frozen) == Loaded(ui.pages) \ ui.hidden

\* visibleIds: frozen while a dialog is open, less what left the server or was acted on.
VisibleIds(frozen) ==
    (IF frozen = NotFrozen THEN Loaded(ui.pages) ELSE frozen \cap Loaded(ui.pages)) \ ui.hidden
Shown == VisibleIds(ui.snapshot)

IsGrey(p) == p \in ui.grey \/ CardOf(p) = "closed"

\* What the page renders under its header.
Panel ==
    CASE ui.pages = <<>> /\ ui.failed -> "error"
      [] ui.pages = <<>> -> "loading"
      [] Shown = {} -> "empty"
      [] OTHER -> "list"

\* A dialog is modal; without the permission a note stands where the buttons were.
Touchable(p) == Panel = "list" /\ p \in Shown /\ ui.dialog = NoDialog /\ ~ui.locked

\* AwaitingCard: a payment of a booking that waits for it.
AwaitingOffers(p) == IF Touchable(p) /\ ~IsGrey(p) THEN {"approve", "reject"} ELSE {}

\* ClosedCard: "Theek hai", or with a screenshot the question whether the money came.
ClosedOffers(p) == IF Touchable(p) /\ IsGrey(p) THEN {"ack"} ELSE {}

\* approvalsHeaderCounts: the header splits what is left into waiting and grey cards.
HeaderCounts ==
    LET least(a, b) == IF a < b THEN a ELSE b
        total == IF ui.pages = <<>> THEN 0 ELSE ui.pages[1].total
        acted == Cardinality(Loaded(ui.pages) \cap ui.hidden)
        left == IF acted > total THEN 0 ELSE total - acted
        closed == least(left, Cardinality({p \in Loaded(ui.pages) \ ui.hidden : IsGrey(p)}))
    IN [left |-> left, awaiting |-> left - closed, closed |-> closed]

-----------------------------------------------------------------------------
(* The list. *)

\* A refetch of an infinite query reads its pages again, one after the other.
Refetching == [at |-> "reading", got |-> <<>>,
               want |-> IF ui.pages = <<>> THEN 1 ELSE Len(ui.pages)]

\* Every 15 seconds, on focus, and on mount.
Poll ==
    /\ calls.fetch = NoFetch
    /\ calls' = [calls EXCEPT !.fetch = Refetching]
    /\ UNCHANGED <<ui, server>>

\* "Aur dikhao".
LoadMore ==
    /\ HasNextPage(ui.pages) /\ ui.dialog = NoDialog
    /\ calls' = [calls EXCEPT !.fetch = [at |-> "reading", got |-> ui.pages, want |-> Len(ui.pages) + 1]]
    /\ UNCHANGED <<ui, server>>

ReadPage ==
    LET got == Append(calls.fetch.got, Page(Len(calls.fetch.got) + 1)) IN
    /\ calls.fetch.at = "reading"
    /\ calls' = [calls EXCEPT !.fetch =
            IF Len(got) < @.want /\ HasNextPage(got) THEN [@ EXCEPT !.got = got]
            ELSE [@ EXCEPT !.got = got, !.at = "read"]]
    /\ UNCHANGED <<ui, server>>

ShowList ==
    /\ calls.fetch.at = "read"
    /\ ui' = [ui EXCEPT !.pages = calls.fetch.got, !.failed = FALSE]
    /\ calls' = [calls EXCEPT !.fetch = NoFetch]
    /\ UNCHANGED server

FetchFails ==
    /\ calls.fetch # NoFetch
    /\ calls' = [calls EXCEPT !.fetch = NoFetch]
    /\ ui' = [ui EXCEPT !.failed = ui.pages = <<>>]
    /\ UNCHANGED server

-----------------------------------------------------------------------------
(* The owner's hand. *)

\* openDialog freezes what that render of the page showed.
OpenDialog(shown, dialog) == [ui EXCEPT !.snapshot = shown, !.dialog = dialog]
CloseDialog == [ui EXCEPT !.snapshot = NotFrozen, !.dialog = NoDialog]

Press(kind, p) ==
    /\ kind \in AwaitingOffers(p)
    /\ ui' = OpenDialog(Shown, [kind |-> kind, item |-> p, used |-> CardOf(p) = "used"])
    /\ UNCHANGED <<server, calls>>

Dismiss ==
    /\ ui.dialog # NoDialog
    /\ ui' = CloseDialog
    /\ UNCHANGED <<server, calls>>

\* approve asks a second question, the list still frozen, for a screenshot used before.
AskAboutDuplicate ==
    /\ ui.dialog.kind = "approve" /\ ui.dialog.used
    /\ ui' = [ui EXCEPT !.dialog.kind = "dup"]
    /\ UNCHANGED <<server, calls>>

\* A card that stays on the list until the server has answered.
StaysListed(p) == ui.hidden

\* act: the card leaves before the request does.
HiddenBy(p) == ui.hidden \cup {p}

\* act: the request, and the `shown` that its callbacks will still see.
Act(p, kind, confirm) ==
    /\ ui' = [CloseDialog EXCEPT !.hidden = HiddenBy(p)]
    /\ calls' = [calls EXCEPT !.act = @ \cup
            {[p |-> p, kind |-> kind, confirm |-> confirm, at |-> "sent",
              shown |-> IF kind = "approve" /\ ~confirm THEN Shown ELSE {}]}]
    /\ UNCHANGED server

\* ApproveDialog, DuplicateDialog and RejectDialog: what each button that closes them sends.
ConfirmApprove == ui.dialog.kind = "approve" /\ ~ui.dialog.used /\ Act(ui.dialog.item, "approve", FALSE)
ConfirmDuplicate == ui.dialog.kind = "dup" /\ Act(ui.dialog.item, "approve", TRUE)
ConfirmReject == ui.dialog.kind = "reject" /\ Act(ui.dialog.item, "reject", FALSE)
Acknowledge(p) == "ack" \in ClosedOffers(p) /\ Act(p, "ack", FALSE)

-----------------------------------------------------------------------------
(* The answers. *)

Decide(c) ==
    /\ c.at = "sent"
    /\ calls' = [calls EXCEPT !.act = (@ \ {c}) \cup {[c EXCEPT !.at = Verdict(c)]}]
    /\ Review(c)
    /\ UNCHANGED ui

\* The request or its answer is lost, or times out.
LoseDecision(c) ==
    /\ c.at \in {"sent", "ok"}
    /\ calls' = [calls EXCEPT !.act = (@ \ {c}) \cup {[c EXCEPT !.at = "failed"]}]
    /\ UNCHANGED <<ui, server>>

Answered(c, refetch) ==
    calls' = [act |-> calls.act \ {c}, fetch |-> IF refetch THEN Refetching ELSE calls.fetch]

Succeed(c) ==
    /\ c.at = "ok"
    /\ Answered(c, TRUE)
    /\ UNCHANGED <<ui, server>>

\* A catch block that leaves the card hidden.
StaysHidden(p) == ui.hidden

\* hide(id, false): whatever went wrong, the card is back.
ShownAgain(p) == ui.hidden \ {p}

Fail(c) ==
    /\ c.at \in {"failed", "denied", "closed", "dup"}
    /\ LET back == [ui EXCEPT !.hidden = ShownAgain(c.p)] IN
       ui' = CASE c.at = "closed" -> [back EXCEPT !.grey = @ \cup {c.p}]
               [] c.at = "dup" -> [back EXCEPT !.snapshot = c.shown,
                                      !.dialog = [kind |-> "dup", item |-> c.p, used |-> TRUE]]
               [] c.at = "denied" -> [back EXCEPT !.locked = TRUE]
               [] OTHER -> back
    /\ Answered(c, c.at = "closed")
    /\ UNCHANGED server

-----------------------------------------------------------------------------
(* Everybody else. *)

Elsewhere(p) == ChangeElsewhere(p) /\ UNCHANGED <<ui, calls>>

Next ==
    \/ Poll \/ LoadMore \/ ReadPage \/ ShowList \/ FetchFails
    \/ \E p \in Payments : \/ \E kind \in {"approve", "reject"} : Press(kind, p)
                           \/ Acknowledge(p) \/ Elsewhere(p)
    \/ Dismiss \/ AskAboutDuplicate \/ ConfirmApprove \/ ConfirmDuplicate \/ ConfirmReject
    \/ \E c \in calls.act : Decide(c) \/ LoseDecision(c) \/ Succeed(c) \/ Fail(c)

Spec == Init /\ [][Next]_vars

-----------------------------------------------------------------------------
TypeOK ==
    /\ ui.hidden \subseteq Payments /\ ui.grey \subseteq Payments
    /\ ui.snapshot = NotFrozen \/ ui.snapshot \subseteq Payments
    /\ ui.dialog.item \in Payments \cup {0}
    /\ ServerTypeOK
    /\ \A c \in calls.act : c.p \in Payments /\ c.shown \subseteq Payments

\* A payment is never decided twice from one page: while the answer to an approve, a reject
\* or an acknowledgement is under way its card is not on the list, and no dialog is open
\* for it that could send another (act in page.tsx hides the card first).
OneDecisionInFlight ==
    /\ \A c, d \in calls.act : c.p = d.p => c = d
    /\ \A c \in calls.act : c.p \notin Shown /\ ui.dialog.item # c.p

\* What the optimistic removal took away is back unless the server really decided it: a card
\* hidden with no request behind it is a payment that is out of the queue.
HiddenIsDecided ==
    \A p \in ui.hidden : (\E c \in calls.act : c.p = p) \/ server.card[p] = "gone"

\* A card turned grey by a 409 is one whose booking is really over.
GreyIsOver == \A p \in ui.grey : server.card[p] \in {"closed", "gone"}

\* No poll puts a card under the owner's hand: with a dialog open the list holds only cards
\* that were on it when the owner pressed the button (visibleIds).
StandsStill == ui.dialog # NoDialog => Shown \subseteq ui.snapshot

\* What the owner may rely on at the approvals page.
Faithful == OneDecisionInFlight /\ HiddenIsDecided /\ GreyIsOver /\ StandsStill

=============================================================================
