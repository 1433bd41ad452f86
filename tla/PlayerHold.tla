----------------------------- MODULE PlayerHold -----------------------------
(***************************************************************************)
(* A player's way from the assistant's chat to a booked slot: the chat     *)
(* that asks the AI and holds, the pay screen with its countdown and       *)
(* upload, and the status screen.  Web pages and the mobile app.  The      *)
(* screens know the booking from a query polled every few seconds, whose   *)
(* answers can be older than what the screen was told meanwhile.           *)
(***************************************************************************)
EXTENDS Naturals, FiniteSets

CONSTANTS
    MaxTries,      \* bound: what the player writes in the chat, and uploads, together
    MaxHolds       \* bound: taps on the assistant's "yes"

VARIABLES
    ui,       \* the screen the player is on and what it knows
    server,   \* the booking, and what reached the server
    calls     \* requests in flight

vars == <<ui, server, calls>>

Polled == {"held", "payment_submitted"}     \* refetchInterval is on
Statuses == {"none", "booked", "cancelled"} \cup Polled

Init ==
    /\ \E app \in {"web", "mobile"} :
        ui = [app |-> app, at |-> "chat", known |-> "none", started |-> FALSE, wrote |-> 0, taps |-> 0,
              boot |-> FALSE, offer |-> FALSE, asking |-> FALSE,
              picked |-> FALSE, retryable |-> FALSE, uploads |-> 0, cancelOpen |-> FALSE]
    /\ server = [status |-> "none", over |-> FALSE, asked |-> 0, holds |-> 0, proofs |-> 0]
    /\ calls = {}

Busy(kind) == \E c \in calls : c.kind = kind /\ c.at # "abandoned"
Call(kind) == [kind |-> kind, at |-> "sent", seen |-> "none"]
Answer(c, at, seen) == calls' = (calls \ {c}) \cup {[c EXCEPT !.at = at, !.seen = seen]}

-----------------------------------------------------------------------------
(* The chat. *)

\* A mount that asks every time: React's dev mode runs the effect twice.
AsksOnEveryMount == ui.at = "chat" /\ ~Busy("ask")

\* startedRef: the opening question is sent once.
FirstMount == ui.at = "chat" /\ ~ui.started

Mount ==
    /\ FirstMount
    /\ ui' = [ui EXCEPT !.started = TRUE]
    /\ calls' = calls \cup {Call("ask")}
    /\ UNCHANGED server

\* The chips under the assistant's last words, unless these carry buttons or the opening
\* question failed.
Chips == IF ui.started /\ ~ui.boot /\ ~Busy("ask") /\ ~Busy("hold") /\ ~ui.asking THEN {"chip"} ELSE {}

\* Buttons stay under the turn that carried them, whatever was said since.
Proposal == IF ui.offer /\ ~Busy("hold") THEN {"yes", "no"} ELSE {}
ChatOffers == IF ui.at # "chat" THEN {} ELSE
    (IF Busy("ask") THEN {} ELSE {"write"}) \cup Chips \cup Proposal

SendMessage ==
    /\ ChatOffers \cap {"write", "chip"} # {} /\ ui.started /\ ui.wrote + ui.uploads < MaxTries
    /\ ui' = [ui EXCEPT !.wrote = @ + 1, !.asking = FALSE]
    /\ calls' = calls \cup {Call("ask")}
    /\ UNCHANGED server

\* The answer may carry a "yes, book" button.
ShowReply(c) ==
    /\ c.kind = "ask" /\ c.at \in {"answered", "failed"}
    /\ \E button \in BOOLEAN :
        ui' = [ui EXCEPT !.offer = @ \/ (c.at = "answered" /\ button), !.asking = c.at = "answered" /\ button,
                        !.boot = @ \/ (c.at = "failed" /\ ui.wrote = 0)]
    /\ calls' = calls \ {c}
    /\ UNCHANGED server

Decline ==
    /\ "no" \in ChatOffers
    /\ ui' = [ui EXCEPT !.asking = FALSE]
    /\ UNCHANGED <<server, calls>>

\* handleAction "confirm_booking".
Confirm ==
    /\ "yes" \in ChatOffers /\ ui.taps < MaxHolds
    /\ ui' = [ui EXCEPT !.taps = @ + 1]
    /\ calls' = calls \cup {Call("hold")}
    /\ UNCHANGED server

\* Held: the pay screen replaces the chat.  Otherwise the assistant says why, and the button stays.
ShowHold(c) ==
    /\ c.kind = "hold" /\ c.at \in {"answered", "failed"}
    /\ ui' = IF c.at = "answered" /\ c.seen = "held" THEN [ui EXCEPT !.at = "pay", !.known = "held"]
             ELSE [ui EXCEPT !.asking = FALSE]
    /\ calls' = calls \ {c}
    /\ UNCHANGED server

\* The hold whose answer was lost is found again in "my bookings".
OpenFromList ==
    /\ ui.at = "chat" /\ server.status # "none" /\ ~Busy("hold")
    /\ ui' = [ui EXCEPT !.at = "pay"]
    /\ UNCHANGED <<server, calls>>

-----------------------------------------------------------------------------
(* The pay screen. *)

\* The countdown at zero on a booking known as held.
Expired == ui.known = "held" /\ server.over

WebPayView ==
    CASE ui.known = "none" -> "loading" [] ui.known = "cancelled" \/ Expired -> "stopped"
      [] ui.known = "payment_submitted" -> "waiting" [] ui.known = "booked" -> "leaving" [] OTHER -> "form"
MobilePayView ==
    CASE ui.known # "held" -> "loading" [] Expired -> "stopped" [] OTHER -> "form"
PayForm == ui.at = "pay" /\ (IF ui.app = "web" THEN WebPayView ELSE MobilePayView) = "form"

PickImage ==
    /\ PayForm /\ ~ui.picked /\ ~Busy("proof") /\ ~Busy("check")
    /\ ui' = [ui EXCEPT !.picked = TRUE, !.retryable = FALSE]
    /\ UNCHANGED <<server, calls>>

DropImage ==
    /\ PayForm /\ ui.picked /\ ~Busy("proof") /\ ~Busy("check")
    /\ ui' = [ui EXCEPT !.picked = FALSE, !.retryable = FALSE]
    /\ UNCHANGED <<server, calls>>

\* The app asks for the booking first when the last try got no answer at all; after an answer with an error,
\* or another picture, it sends at once.
ChecksFirst == ui.app = "mobile" /\ ui.retryable

SubmitProof ==
    /\ PayForm /\ ui.picked /\ ~Busy("proof") /\ ~Busy("check") /\ ui.wrote + ui.uploads < MaxTries
    /\ calls' = calls \cup {Call(IF ChecksFirst THEN "check" ELSE "proof")}
    /\ ui' = [ui EXCEPT !.uploads = @ + 1, !.retryable = FALSE]
    /\ UNCHANGED server

\* isRetryableUploadError: a request that never got an answer.  An error with a status (the rate limiter's
\* 429, a 5xx) is not one.
NoAnswer(c) == c.at = "failed"

\* The fresh booking: no longer held means the first upload had arrived (or the hold is over).
Recheck(c) ==
    /\ c.kind = "check" /\ c.at \in {"answered", "failed", "errored"}
    /\ IF c.at # "answered" THEN calls' = calls \ {c} /\ ui' = [ui EXCEPT !.retryable = NoAnswer(c)]
       ELSE /\ ui' = [ui EXCEPT !.known = c.seen]
            /\ calls' = (calls \ {c}) \cup (IF c.seen = "held" THEN {Call("proof")} ELSE {})
    /\ UNCHANGED server

\* Accepted: the result's booking is put into the query, and the app goes on.  Failed: a message, and
\* on the app "send again" keeps the image.
ShowProof(c) ==
    /\ c.kind = "proof" /\ c.at \in {"answered", "failed", "errored"}
    /\ ui' = CASE c.at = "answered" /\ c.seen # "refused" ->
                    [ui EXCEPT !.known = c.seen, !.retryable = FALSE, !.at = IF ui.app = "mobile" THEN "done" ELSE @]
               [] OTHER -> [ui EXCEPT !.retryable = ui.app = "mobile" /\ NoAnswer(c)]
    /\ calls' = calls \ {c}
    /\ UNCHANGED server

-----------------------------------------------------------------------------
(* Both screens: the query and the cancel sheet; the status screen. *)

\* Web leaves for the status screen when booked, the app as soon as it is not held any more.
LeavesPay(known) == IF ui.app = "web" THEN known = "booked" ELSE known \notin {"none", "held"}

Poll ==
    /\ ui.at \in {"pay", "done"} /\ ~Busy("get") /\ (ui.known \in Polled \cup {"none"})
    /\ calls' = calls \cup {Call("get")}
    /\ UNCHANGED <<ui, server>>

\* The answer overwrites what the screen knew, even when it is the older of the two.
ShowBooking(c) ==
    /\ c.kind = "get" /\ c.at \in {"answered", "failed"}
    /\ ui' = IF c.at = "failed" THEN ui
             ELSE [ui EXCEPT !.known = c.seen, !.at = IF @ = "pay" /\ LeavesPay(c.seen) THEN "done" ELSE @]
    /\ calls' = calls \ {c}
    /\ UNCHANGED server

\* doneView, the journey and the "open pay" button of the status screen.
DoneView == IF ui.known = "booked" THEN "ticket" ELSE IF ui.known \in Polled THEN "journey" ELSE "stopped"
OpensPay == ui.at = "done" /\ IF ui.app = "web" THEN DoneView = "journey" ELSE ui.known = "held" /\ ~Expired

BackToPay ==
    /\ OpensPay
    /\ ui' = [ui EXCEPT !.at = "pay", !.picked = FALSE, !.retryable = FALSE]
    /\ UNCHANGED <<server, calls>>

\* cancelState: before the review any time; a booked slot as long as its window is open.
CanCancel == ui.app = "mobile" /\ ui.known \in {"held", "payment_submitted", "booked"} /\ ~Expired /\ ui.at \in {"pay", "done"}

AskCancel ==
    /\ CanCancel /\ ~ui.cancelOpen
    /\ ui' = [ui EXCEPT !.cancelOpen = TRUE]
    /\ UNCHANGED <<server, calls>>

KeepBooking ==
    /\ ui.cancelOpen
    /\ ui' = [ui EXCEPT !.cancelOpen = FALSE]
    /\ UNCHANGED <<server, calls>>

DoCancel ==
    /\ ui.cancelOpen /\ ~Busy("cancel")
    /\ calls' = calls \cup {Call("cancel")}
    /\ UNCHANGED <<ui, server>>

ShowCancel(c) ==
    /\ c.kind = "cancel" /\ c.at \in {"answered", "failed"}
    /\ ui' = IF c.at = "answered" /\ c.seen = "cancelled"
             THEN [ui EXCEPT !.known = "cancelled", !.cancelOpen = FALSE,
                             !.at = IF @ = "pay" THEN "done" ELSE @]
             ELSE ui
    /\ calls' = calls \ {c}
    /\ UNCHANGED server

-----------------------------------------------------------------------------
(* The server, and the network. *)

Ask(c) == c.kind = "ask" /\ Answer(c, "answered", "none") /\ server' = [server EXCEPT !.asked = @ + 1]

\* create_hold: the slot must be free, of the player's own holds too.
Hold(c) ==
    /\ c.kind = "hold"
    /\ IF server.status \in {"none", "cancelled"} /\ ~server.over
       THEN server' = [server EXCEPT !.status = "held", !.holds = @ + 1] /\ Answer(c, "answered", "held")
       ELSE server' = server /\ Answer(c, "answered", "taken")

Get(c) == c.kind \in {"get", "check"} /\ Answer(c, "answered", server.status) /\ server' = server

\* submit_payment: a held booking in time, once.  It may be confirmed at once.
Proof(c) ==
    /\ c.kind = "proof"
    /\ IF server.status = "held" /\ ~server.over
       THEN \E status \in {"payment_submitted", "booked"} :
                /\ server' = [server EXCEPT !.status = status, !.proofs = @ + 1]
                /\ IF c.at = "sent" THEN Answer(c, "answered", status) ELSE calls' = calls \ {c}
       ELSE /\ server' = server
            /\ IF c.at = "sent" THEN Answer(c, "answered", "refused") ELSE calls' = calls \ {c}

Cancel(c) ==
    /\ c.kind = "cancel"
    /\ server' = [server EXCEPT !.status = "cancelled"]
    /\ Answer(c, "answered", "cancelled")

Serve(c) ==
    /\ c.at = "sent" \/ (c.kind = "proof" /\ c.at = "abandoned")
    /\ Ask(c) \/ Hold(c) \/ Get(c) \/ Proof(c) \/ Cancel(c)
    /\ UNCHANGED ui

\* The answer is lost, or is an error in its place; or the upload times out here and arrives at the server
\* all the same.
LoseAnswer(c) ==
    /\ c.at \in {"sent", "answered"}
    /\ \E how \in {"failed"} \cup (IF c.kind \in {"check", "proof"} THEN {"errored"} ELSE {}) : Answer(c, how, c.seen)
    /\ UNCHANGED <<ui, server>>

TimeOut(c) ==
    /\ c.kind = "proof" /\ c.at = "sent"
    /\ calls' = (calls \ {c}) \cup {[c EXCEPT !.at = "abandoned"]}
    /\ ui' = [ui EXCEPT !.retryable = ui.app = "mobile"]
    /\ UNCHANGED server

\* The hold runs out, the expiry job cancels it; the owner approves or rejects.
RunOut ==
    /\ server.status = "held" /\ ~server.over
    /\ server' = [server EXCEPT !.over = TRUE]
    /\ UNCHANGED <<ui, calls>>

Review ==
    /\ \/ server.status = "held" /\ server.over /\ server' = [server EXCEPT !.status = "cancelled"]
       \/ server.status = "payment_submitted"
          /\ \E status \in {"booked", "cancelled"} : server' = [server EXCEPT !.status = status]
    /\ UNCHANGED <<ui, calls>>

Next ==
    \/ Mount \/ SendMessage \/ Decline \/ Confirm \/ OpenFromList \/ PickImage \/ DropImage \/ SubmitProof
    \/ Poll \/ BackToPay \/ AskCancel \/ KeepBooking \/ DoCancel \/ RunOut \/ Review
    \/ \E c \in calls : ShowReply(c) \/ ShowHold(c) \/ Recheck(c) \/ ShowProof(c) \/ ShowBooking(c) \/ ShowCancel(c)
    \/ \E c \in calls : Serve(c) \/ LoseAnswer(c) \/ TimeOut(c)

Spec == Init /\ [][Next]_vars

-----------------------------------------------------------------------------
TypeOK ==
    /\ ui.known \in Statuses /\ server.status \in Statuses
    /\ \A kind \in {"ask", "hold", "get", "check", "proof", "cancel"} :
        Cardinality({c \in calls : c.kind = kind /\ c.at # "abandoned"}) <= 1

\* The paid assistant is asked once for the opening question and once for each thing the player
\* wrote, however often the page is mounted.
OneQuestionEach == server.asked <= ui.wrote + 1

\* A screen that says "cancelled" is right, whatever answers it got and in which order.
CancelledIsFinal == ui.known = "cancelled" /\ server.holds = 1 => server.status = "cancelled"

\* However often "yes" was tapped and an upload was repeated, checked first or not: one hold and one proof.
OneProofPerHold == server.proofs <= server.holds /\ (server.proofs < server.holds \/ server.status # "held")

Faithful == OneQuestionEach /\ CancelledIsFinal /\ OneProofPerHold

=============================================================================
