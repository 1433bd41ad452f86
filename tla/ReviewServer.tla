---------------------------- MODULE ReviewServer ----------------------------
(***************************************************************************)
(* The review queue as the owner's screens meet it: what a payment can be  *)
(* on the server, what GET approvals-queue lists, and what the server      *)
(* answers to approve, reject and acknowledge.  PaymentReview has the      *)
(* transactions behind these answers.                                      *)
(***************************************************************************)
EXTENDS Integers

CONSTANTS
    Payments,   \* the payments that may be sent for review: 1 .. n
    Reused,     \* the payments whose screenshot another booking used before
    MaxChanges  \* bound: how often the queue changes without this screen

VARIABLE server   \* the review queue as the server has it

\* A payment: not sent yet, waiting, waiting with a screenshot known from another booking,
\* waiting for a booking that is gone, decided.
Stages == {"new", "awaiting", "used", "closed", "gone"}

\* The member of staff may have lost the permission since the page was opened.
ServerInit ==
    \E permitted \in BOOLEAN :
        server = [card |-> [p \in Payments |-> IF p = 1 THEN "awaiting" ELSE "new"],
                  permitted |-> permitted, changes |-> 0]

Listed == {p \in Payments : server.card[p] \in {"awaiting", "used", "closed"}}

\* The answer to a decision c = [p, kind, confirm].
Verdict(c) ==
    LET stage == server.card[c.p] IN
    CASE ~server.permitted -> "denied"
      [] c.kind # "ack" /\ stage = "closed" -> "closed"
      [] stage = "gone" \/ (c.kind = "ack" /\ stage # "closed") -> "failed"
      [] c.kind = "approve" /\ stage = "used" /\ ~c.confirm -> "dup"
      [] OTHER -> "ok"

Review(c) ==
    server' = [server EXCEPT !.card[c.p] = IF Verdict(c) = "ok" THEN "gone" ELSE @]

\* A player sends a payment or cancels, the hold expires, the check finds the screenshot
\* again, another device of the owner decides.
ChangeElsewhere(p) ==
    \E to \in Stages :
        /\ server.changes < MaxChanges
        /\ <<server.card[p], to>> \in
              {<<"new", "awaiting">>, <<"awaiting", "used">>, <<"awaiting", "closed">>,
               <<"used", "closed">>, <<"awaiting", "gone">>, <<"closed", "gone">>}
        /\ to = "used" => p \in Reused
        /\ to = "awaiting" => \A q \in Payments : q < p => server.card[q] # "new"
        /\ server' = [server EXCEPT !.card[p] = to, !.changes = @ + 1]

ServerTypeOK == server.card \in [Payments -> Stages] /\ server.permitted \in BOOLEAN

=============================================================================
