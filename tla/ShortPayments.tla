---------------------------- MODULE ShortPayments ----------------------------
(***************************************************************************)
(* A booking completed with money still due: the claim the player answers  *)
(* ("Sahi hai" / "Ghalat hai"), the fine for silence and its return, the   *)
(* owner's decision, and the due carried until it is settled.  A request   *)
(* reads the claim in one step and writes the columns it changed in a      *)
(* later one; the cron job does too.  Points are in fives.                 *)
(***************************************************************************)
EXTENDS Integers

CONSTANTS
    Requests,    \* the venue's requests that can be in flight at once
    Price,       \* the most that can be due
    Points,      \* what the player has from other bookings
    MaxActs,     \* bound: requests of the venue
    MaxTrouble   \* bound: requests that die on the way

VARIABLES
    db,     \* the claim, what is due, the points, the screenshot under review
    work,   \* the venue's requests in flight, and the job's
    note    \* what has happened, for the properties, and the bounds

vars == <<db, work, note>>

Bonus == 1
Fine == 4
Reasons == {"short_reply", "short_no_reply", "short_no_reply_returned"}
Idle == [op |-> "idle"]
NoClaim == [open |-> FALSE, status |-> "awaiting_reply", replied |-> FALSE, applied |-> 0, returned |-> FALSE, decision |-> "none", how |-> "open"]

\* The points balance is the sum of the entries, and what the player had from elsewhere.
Balance(d) == d.points + d.entry["short_reply"] + d.entry["short_no_reply"] + d.entry["short_no_reply_returned"]
\* add_points: a deduction takes what is there, and an entry of the same booking and reason is refused.
AddPoints(d, delta, reason) ==
    LET real == IF delta >= 0 THEN delta ELSE IF -delta > Balance(d) THEN -Balance(d) ELSE delta IN
    IF d.entry[reason] # 0 THEN 0 ELSE real
Added(d, delta, reason) == [d EXCEPT !.entry[reason] = @ + AddPoints(d, delta, reason)]

\* A session writes the columns it changed since it loaded the row, over whatever is there by now.
Flushed(now, loaded, new) == [c \in DOMAIN now |-> IF new[c] # loaded[c] THEN new[c] ELSE now[c]]

\* Before the completion, or just after one that left it all due.
Init ==
    /\ \E asked \in BOOLEAN :
        db = [claim |-> [NoClaim EXCEPT !.open = asked], age |-> 0, due |-> Price, points |-> Points, entry |-> [r \in Reasons |-> 0],
              proof |-> 0, moved |-> 0, marked |-> FALSE]
    /\ work = [r \in Requests \cup {"job"} |-> Idle]
    /\ note = [acts |-> 0, trouble |-> 0, silent |-> FALSE, odd |-> {}]

-----------------------------------------------------------------------------
(* The venue's requests. *)

\* Something happened that the properties set apart; after a write by a stale row only OneFine is left.
Odd(what, happened) ==
    IF ~happened \/ note.odd = {"stale row"} THEN note
    ELSE [note EXCEPT !.odd = IF what = "stale row" THEN {what} ELSE @ \cup {what}]

Starts(r) == work[r] = Idle /\ note.acts < MaxActs
Acted == note' = [note EXCEPT !.acts = @ + 1]
To(r, op) == work' = [work EXCEPT ![r] = [op |-> op]]

\* POST completion: the ledger is brought to what was received, a correction included.
Completion(r) ==
    /\ Starts(r)
    /\ \E due \in 0 .. Price : db' = [db EXCEPT !.due = due]
    /\ To(r, "after") /\ Acted

\* A balance screenshot: the player's, or the owner's with "done, by transfer".
SubmitProof ==
    /\ db.proof = 0 /\ db.due > 0 /\ note.acts < MaxActs
    /\ db' = [db EXCEPT !.proof = db.due]
    /\ Acted /\ UNCHANGED work
ApproveProof(r) ==
    /\ work[r] = Idle /\ db.proof > 0
    /\ LET credit == IF db.proof < db.due THEN db.proof ELSE db.due IN
       db' = [db EXCEPT !.proof = 0, !.due = @ - credit, !.moved = IF db.marked THEN @ ELSE credit]
    /\ To(r, "sync") /\ UNCHANGED note
RejectProof(r) ==
    /\ work[r] = Idle /\ db.proof > 0
    /\ db' = [db EXCEPT !.proof = 0]
    /\ To(r, "fresh") /\ UNCHANGED note

\* "Bank mein nahi mila": the transfer is reversed; then the staff pay it, or the player is asked again.
MarkNotReceived ==
    /\ db.moved > 0 /\ ~db.marked /\ db.due + db.moved <= Price
    /\ db' = [db EXCEPT !.marked = TRUE, !.due = @ + db.moved]
    /\ UNCHANGED <<work, note>>
BankDecide(r) ==
    /\ work[r] = Idle /\ db.marked
    /\ \/ db' = [db EXCEPT !.moved = 0, !.marked = FALSE] /\ To(r, "fresh") /\ UNCHANGED note
       \/ /\ db.moved <= db.due
          /\ db' = [db EXCEPT !.moved = 0, !.marked = FALSE, !.due = @ - db.moved]
          /\ note' = Odd("only the ledger", TRUE) /\ UNCHANGED work

\* POST payment-entries and its reverse: only the ledger; the claim is not told.
RecordPaymentEntry ==
    /\ note.acts < MaxActs
    /\ \E due \in 0 .. Price : due # db.due /\ db' = [db EXCEPT !.due = due]
    /\ note' = [Odd("only the ledger", TRUE) EXCEPT !.acts = @ + 1] /\ UNCHANGED work

\* What each request loads before it writes.
Overlaps(r) == \E o \in Requests \ {r} : work[o] # Idle
Load(r, op) ==
    /\ work' = [work EXCEPT ![r] = [op |-> op, claim |-> db.claim]]
    /\ note' = Odd("overlap", Overlaps(r))
\* After a completion: short_claim when money is due, else sync_claim_after_payment.
LoadAfter(r) ==
    /\ work[r] = [op |-> "after"]
    /\ Load(r, IF db.due > 0 THEN "open" ELSE "resolve") /\ UNCHANGED db
LoadFresh(r) ==
    /\ work[r] = [op |-> "fresh"]
    /\ IF db.due > 0 THEN Load(r, "open fresh") ELSE work' = [work EXCEPT ![r] = Idle] /\ UNCHANGED note
    /\ UNCHANGED db
LoadSync(r) ==
    /\ work[r] = [op |-> "sync"]
    /\ IF db.due <= 0 THEN Load(r, "resolve") ELSE work' = [work EXCEPT ![r] = Idle] /\ UNCHANGED note
    /\ UNCHANGED db

\* open_short_claim on a claim that is there: it is unsettled again, and a fresh round starts it over.
Refreshed(c) == [c EXCEPT !.how = "open"]
StartedOver(c) ==
    [Refreshed(c) EXCEPT !.status = "awaiting_reply", !.replied = FALSE, !.decision = "none",
                         !.applied = IF c.returned \/ c.applied = 0 THEN 0 ELSE @, !.returned = FALSE]
OpenShortClaim(r) ==
    /\ work[r].op \in {"open", "open fresh"}
    /\ LET loaded == work[r].claim
           fresh == work[r].op = "open fresh"
           new == IF fresh THEN StartedOver(loaded) ELSE Refreshed(loaded) IN
       IF ~loaded.open
       \* booking_id is unique: a second insert fails.
       THEN db' = IF db.claim.open THEN db ELSE [db EXCEPT !.claim = [NoClaim EXCEPT !.open = TRUE], !.age = 0]
       ELSE db' = [db EXCEPT !.claim = Flushed(@, loaded, new), !.age = IF fresh THEN 0 ELSE @]
    /\ note' = IF work[r].claim # db.claim THEN Odd("stale row", TRUE)
               ELSE Odd("reopened", work[r].op = "open" /\ work[r].claim.how # "open")
    /\ work' = [work EXCEPT ![r] = Idle]

\* _resolve, by the loaded row: settled, and a fine that was taken comes back.
Resolved(d, loaded, how) ==
    LET back == loaded.applied > 0 /\ ~loaded.returned
        new == [loaded EXCEPT !.how = how, !.returned = @ \/ back]
        paid == IF back THEN Added(d, loaded.applied, "short_no_reply_returned") ELSE d IN
    IF ~loaded.open \/ loaded.how # "open" THEN d ELSE [paid EXCEPT !.claim = Flushed(@, loaded, new)]
ResolvePaid(r) ==
    /\ work[r].op = "resolve"
    /\ db' = Resolved(db, work[r].claim, "paid")
    /\ note' = Odd("stale row", work[r].claim # db.claim)
    /\ work' = [work EXCEPT ![r] = Idle]

\* mark_due_done with cash: loaded, then the money in a commit of its own, then settled.
LoadDone(r) ==
    /\ Starts(r) /\ db.claim.open /\ db.claim.how = "open"
    /\ work' = [work EXCEPT ![r] = [op |-> "done", claim |-> db.claim, due |-> db.due]]
    /\ note' = [Odd("overlap", Overlaps(r)) EXCEPT !.acts = @ + 1]
    /\ UNCHANGED db
MarkDueDone(r) ==
    /\ work[r].op = "done"
    /\ IF work[r].due > db.due
       THEN UNCHANGED db /\ work' = [work EXCEPT ![r] = Idle]
       ELSE db' = [db EXCEPT !.due = @ - work[r].due] /\ work' = [work EXCEPT ![r] = [op |-> "resolve", claim |-> work[r].claim]]
    /\ UNCHANGED note

\* decide_short: no lock on the claim; a waive lowers the price to what was paid.
LoadDecide(r) ==
    /\ Starts(r) /\ db.claim.open /\ db.claim.status = "disputed" /\ db.claim.decision = "none" /\ db.claim.how = "open"
    /\ \E op \in {"collect", "waive"} : work' = [work EXCEPT ![r] = [op |-> op, claim |-> db.claim]]
    /\ note' = [Odd("overlap", Overlaps(r)) EXCEPT !.acts = @ + 1]
    /\ UNCHANGED db
DecideCollect(r) ==
    /\ work[r].op = "collect"
    /\ db' = [db EXCEPT !.claim.decision = "collect"]
    /\ work' = [work EXCEPT ![r] = Idle] /\ UNCHANGED note
DecideWaive(r) ==
    /\ work[r].op = "waive"
    /\ db' = Resolved([db EXCEPT !.claim.decision = "waive", !.due = 0], work[r].claim, "waived")
    /\ note' = Odd("stale row", work[r].claim # db.claim)
    /\ work' = [work EXCEPT ![r] = Idle]

\* The process dies: what was not committed is gone.
Abort(r) ==
    /\ work[r] # Idle /\ note.trouble < MaxTrouble
    /\ work' = [work EXCEPT ![r] = Idle]
    /\ note' = [note EXCEPT !.trouble = @ + 1]
    /\ UNCHANGED db

-----------------------------------------------------------------------------
(* The player, the clock and the job. *)

CanReplyShort(c) == ~c.replied /\ c.how = "open" /\ c.status \in {"awaiting_reply", "no_reply"}
\* reply_short holds the row from its read to its commit.
ReplyShort ==
    /\ db.claim.open /\ CanReplyShort(db.claim)
    /\ \E answer \in {"confirmed", "disputed"} :
        LET d == [db EXCEPT !.claim.replied = TRUE, !.claim.status = answer] IN
        db' = IF db.age < 2 THEN Added(d, Bonus, "short_reply") ELSE d
    /\ UNCHANGED <<work, note>>

\* The 24 hours of the reply pass, then the 4 days of the bonus.
Pass ==
    /\ db.claim.open /\ db.age < 2
    /\ db' = [db EXCEPT !.age = @ + 1]
    /\ note' = [note EXCEPT !.silent = @ \/ (db.age = 0 /\ CanReplyShort(db.claim))]
    /\ UNCHANGED work

\* run_short_payment_job: what it selects, and later what it does to each.
JobSelect ==
    /\ work["job"] = Idle /\ db.claim.open /\ db.claim.status = "awaiting_reply" /\ db.age > 0
    /\ work' = [work EXCEPT !["job"] = [op |-> "fine", claim |-> db.claim]]
    /\ UNCHANGED <<db, note>>
JobFine ==
    /\ work["job"] # Idle
    /\ LET loaded == work["job"].claim
           taken == -AddPoints(db, -Fine, "short_no_reply")
           new == [loaded EXCEPT !.status = "no_reply", !.applied = IF taken > @ THEN taken ELSE @] IN
       /\ db' = [Added(db, -Fine, "short_no_reply") EXCEPT !.claim = Flushed(@, loaded, new)]
       /\ note' = IF db.claim # loaded THEN Odd("stale row", TRUE) ELSE Odd("settled is fined", loaded.how # "open")
    /\ work' = [work EXCEPT !["job"] = Idle]

Next ==
    \/ SubmitProof \/ MarkNotReceived \/ RecordPaymentEntry \/ ReplyShort \/ Pass \/ JobSelect \/ JobFine
    \/ \E r \in Requests :
        \/ Completion(r) \/ ApproveProof(r) \/ RejectProof(r) \/ BankDecide(r)
        \/ LoadAfter(r) \/ LoadFresh(r) \/ LoadSync(r) \/ OpenShortClaim(r) \/ ResolvePaid(r)
        \/ LoadDone(r) \/ MarkDueDone(r) \/ LoadDecide(r) \/ DecideCollect(r) \/ DecideWaive(r) \/ Abort(r)

Spec == Init /\ [][Next]_vars

-----------------------------------------------------------------------------
TypeOK ==
    /\ db.due \in 0 .. Price /\ db.proof \in 0 .. Price /\ db.moved \in 0 .. Price /\ db.age \in 0 .. 2
    /\ db.claim.status \in {"awaiting_reply", "confirmed", "disputed", "no_reply"}
    /\ db.claim.how \in {"open", "paid", "waived"} /\ db.claim.decision \in {"none", "collect", "waive"}
    /\ note.acts \in 0 .. MaxActs /\ note.trouble \in 0 .. MaxTrouble

FineNow == db.entry["short_no_reply"] + db.entry["short_no_reply_returned"]
Quiet == \A r \in DOMAIN work : work[r] = Idle

\* However requests and the job interleave, the player loses one fine at most and gets back no more than it.
OneFine == -Fine <= FineNow /\ FineNow <= 0 /\ Balance(db) >= 0
\* A settled due keeps no fine (but the job fines a claim that was settled without an answer).
SettledKeepsNoFine == db.claim.how # "open" /\ note.odd \cap {"stale row", "settled is fined"} = {} => FineNow = 0
\* Only silence is fined: 24 hours of a question that could be answered (but a claim opened again keeps its
\* old deadline).
OnlySilenceIsFined ==
    db.entry["short_no_reply"] # 0 /\ note.odd \cap {"stale row", "settled is fined", "reopened"} = {} => note.silent
\* An answer stands until the player is asked again.
AnswerStands == db.claim.replied /\ "stale row" \notin note.odd => db.claim.status \in {"confirmed", "disputed"}
\* With nothing under way, what is due is carried, and what is cleared is not (unless requests overlapped
\* or died, or only the ledger was told).
DueIsCarried ==
    Quiet /\ note.trouble = 0 /\ note.odd \cap {"stale row", "overlap", "only the ledger"} = {} /\ ~db.marked /\ db.claim.open
    => (db.due > 0 <=> db.claim.how = "open")

Faithful == OneFine /\ SettledKeepsNoFine /\ OnlySilenceIsFined /\ AnswerStands /\ DueIsCarried

=============================================================================
