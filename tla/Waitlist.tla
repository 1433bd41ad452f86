------------------------------ MODULE Waitlist ------------------------------
(***************************************************************************)
(* "Notify me" for a taken slot of one court: players join and leave, the  *)
(* bookings of the court come and go, a booking that frees its range wakes *)
(* everyone who waits in it (a wave: read, then written), and the cron job *)
(* gives up on who was told and did not come, telling who joined since: it *)
(* picks them all, then checks, tells and writes for one after another.    *)
(***************************************************************************)
EXTENDS Integers, FiniteSets

CONSTANTS
    Players,    \* the people waiting and booking
    Slots,      \* half hours of the court: 1 .. n
    Bookings,   \* bound: rows of the court
    Waves,      \* bound: waves of bookings under way at once, numbered from 1
    MaxJoins,   \* bound: requests to join
    MaxTrouble  \* bound: waves that die with their process

VARIABLES
    rows,    \* the court's bookings
    list,    \* the newest entry of each player for each slot
    work,    \* joins that have looked and not written, waves under way, the cron job
    note     \* what has happened, for the properties, and the bounds

vars == <<rows, list, work, note>>

NoRow == [status |-> "none", player |-> "none", from |-> 0, to |-> 0]
Dead == [NoRow EXCEPT !.status = "dead"]
\* id tells a new entry from the one before; taken and free say what the entry has seen of its slot.
NoEntry == [id |-> 0, active |-> FALSE, notified |-> "no", told |-> 0, taken |-> FALSE, free |-> FALSE]
Idle == [stage |-> "idle", from |-> 0, to |-> 0, chosen |-> {}]
\* The cron job sends its waves one at a time, beside the others.
Job == 0
Runs == Waves \cup {Job}
NoJob == [left |-> {}, closes |-> {}]

Init ==
    /\ rows = [b \in Bookings |-> NoRow]
    /\ list = [e \in Players \X Slots |-> NoEntry]
    /\ work = [join |-> [p \in Players |-> 0], wave |-> [w \in Runs |-> Idle], job |-> NoJob]
    /\ note = [joins |-> 0, trouble |-> 0, odd |-> {}, late |-> {}]

-----------------------------------------------------------------------------
Covers(row, s) == row.from <= s /\ s <= row.to
Overlap(row, from, to) == row.from <= to /\ from <= row.to
\* live_claim: a hold whose time has run out no longer counts.
LiveClaim(row) == row.status \in {"held", "booked"}
Claimed(court) == {s \in Slots : \E b \in Bookings : LiveClaim(court[b]) /\ Covers(court[b], s)}
Taken(s) == s \in Claimed(rows)
\* In the table's index such a hold still counts until it is cancelled.
Undead(s) == \E b \in Bookings : rows[b].status \in {"held", "lapsed", "booked"} /\ Covers(rows[b], s)

FreeWave(w) == work.wave[w] = Idle
Wave(w, row) == work' = [work EXCEPT !.wave[w] = [stage |-> "due", from |-> row.from, to |-> row.to, chosen |-> {}]]
\* The entries see their slots let go.
Seen(entries, court) == [e \in DOMAIN entries |-> [entries[e] EXCEPT !.free = @ \/ (entries[e].active /\ e[2] \notin Claimed(court))]]
Odd(what) == [note EXCEPT !.odd = @ \cup {what}]

-----------------------------------------------------------------------------
(* The court's bookings. *)

\* _insert_booking: holds that ran out and are in the way are cancelled with it, and the player's own
\* entry for its first slot is closed.
InsertBooking(b, p) ==
    /\ rows[b] = NoRow
    /\ \E from \in Slots, to \in Slots :
        LET out == {o \in Bookings : rows[o].status = "lapsed" /\ Overlap(rows[o], from, to)}
            left == {s \in Slots \ (from .. to) : \E o \in out : Covers(rows[o], s)} IN
        /\ from <= to
        /\ \A o \in Bookings : LiveClaim(rows[o]) => ~Overlap(rows[o], from, to)
        /\ rows' = [o \in Bookings |->
                        IF o = b THEN [status |-> "held", player |-> p, from |-> from, to |-> to]
                        ELSE IF o \in out THEN Dead ELSE rows[o]]
        /\ list' = Seen([list EXCEPT ![<<p, from>>] = NoEntry], rows')
        /\ note' = [note EXCEPT !.odd = (@ \cup (IF left # {} THEN {"released"} ELSE {}))
                                        \cup (IF work.join[p] = from THEN {"crossed"} ELSE {})]
    /\ UNCHANGED work
HoldRunsOut(b) ==
    /\ rows[b].status = "held"
    /\ rows' = [rows EXCEPT ![b].status = "lapsed"]
    /\ list' = Seen(list, rows')
    /\ UNCHANGED <<work, note>>
Book(b) ==
    /\ rows[b].status = "held"
    /\ rows' = [rows EXCEPT ![b].status = "booked"]
    /\ UNCHANGED <<list, work, note>>
\* A cancel, a rejected advance, a late proof, the expiry job: the row dies in one commit, the wave follows.
Release(b, w) ==
    /\ rows[b].status \in {"held", "lapsed", "booked"} /\ FreeWave(w)
    /\ rows' = [rows EXCEPT ![b] = Dead]
    /\ list' = Seen(list, rows')
    /\ Wave(w, rows[b]) /\ UNCHANGED note
\* reject_payment of a balance screenshot: the booking stays, and the wave goes out all the same.
RejectBalance(b, w) ==
    /\ rows[b].status = "booked" /\ FreeWave(w)
    /\ Wave(w, rows[b])
    /\ UNCHANGED <<rows, list, note>>

-----------------------------------------------------------------------------
(* The list. *)

\* join looks for a booking of the player's own that starts there, and writes in a later step; one active
\* entry of a player for a slot is all the index lets in.
Join(p) ==
    /\ work.join[p] = 0 /\ note.joins < MaxJoins
    /\ \E s \in Slots :
        /\ ~\E b \in Bookings : LiveClaim(rows[b]) /\ rows[b].from = s /\ rows[b].player = p
        /\ work' = [work EXCEPT !.join[p] = s]
    /\ note' = [note EXCEPT !.joins = @ + 1]
    /\ UNCHANGED <<rows, list>>
Joined(p) ==
    /\ work.join[p] # 0
    /\ LET s == work.join[p] IN
       IF list[<<p, s>>].active THEN UNCHANGED list
       ELSE list' = [list EXCEPT ![<<p, s>>] = [id |-> note.joins, active |-> TRUE, notified |-> "no", told |-> 0, taken |-> Undead(s), free |-> ~Taken(s)]]
    /\ work' = [work EXCEPT !.join[p] = 0]
    /\ UNCHANGED <<rows, note>>
Cancel(p, s) ==
    /\ list[<<p, s>>].active
    /\ list' = [list EXCEPT ![<<p, s>>] = NoEntry]
    /\ UNCHANGED <<rows, work, note>>

\* _matching_entries: who waits in the range and has not been told.
Waiting(e) == list[e].active /\ list[e].notified = "no"
Ticket(e) == <<e, list[e].id>>
Chosen(entries) == {Ticket(e) : e \in entries}
MatchesFirstSlot(from, to) == Chosen({e \in DOMAIN list : e[2] = from /\ Waiting(e)})    \* mutant: only the first freed slot
MatchingEntries(from, to) == Chosen({e \in DOMAIN list : e[2] \in from .. to /\ Waiting(e)})
Read(w) == MatchingEntries(work.wave[w].from, work.wave[w].to)
NotifyMatchingEntries(w) ==
    /\ work.wave[w].stage = "due"
    /\ work' = [work EXCEPT !.wave[w].chosen = Read(w), !.wave[w].stage = "sending"]
    /\ note' = [note EXCEPT !.odd = @ \cup (IF \E o \in Runs \ {w} : work.wave[o].chosen \cap Read(w) # {} THEN {"waves crossed"} ELSE {}),
                            !.late = @ \cup (Claimed(rows) \cap (work.wave[w].from .. work.wave[w].to))]
    /\ UNCHANGED <<rows, list>>
\* Each is sent the message, and the whole wave is committed; the rows are written by their keys.
Told(chosen) == [e \in DOMAIN list |-> IF list[e].active /\ Ticket(e) \in chosen THEN [list[e] EXCEPT !.notified = "just now", !.told = @ + 1] ELSE list[e]]
\* The job's wave takes with it the entries it has given up so far; a wave of nobody writes nothing.
Without(entries, tickets) == [e \in DOMAIN entries |-> IF <<e, entries[e].id>> \in tickets THEN NoEntry ELSE entries[e]]
Writes(w) == w = Job /\ work.wave[w].chosen # {}
Commit(w) ==
    /\ work.wave[w].stage = "sending"
    /\ list' = Without(Told(work.wave[w].chosen), IF Writes(w) THEN work.job.closes ELSE {})
    /\ work' = [work EXCEPT !.wave[w] = Idle, !.job.closes = IF Writes(w) THEN {} ELSE @]
    /\ UNCHANGED <<rows, note>>
Dies(w) ==
    /\ ~FreeWave(w) \/ (w = Job /\ work.job # NoJob)
    /\ note.trouble < MaxTrouble
    /\ work' = [work EXCEPT !.wave[w] = Idle, !.job = IF w = Job THEN NoJob ELSE @]
    /\ note' = [Odd("died") EXCEPT !.trouble = @ + 1]
    /\ UNCHANGED <<rows, list>>

\* WAITLIST_RENOTIFY_GRACE_MINUTES pass.
Grace(p, s) ==
    /\ list[<<p, s>>].active /\ list[<<p, s>>].notified = "just now"
    /\ list' = [list EXCEPT ![<<p, s>>].notified = "a while ago"]
    /\ UNCHANGED <<rows, work, note>>
\* advance_stale_notifications: those are given up whom it finds at its start.
Stale == {e \in DOMAIN list : list[e].active /\ list[e].notified = "a while ago"}
AdvanceStaleNotifications ==
    /\ work.job = NoJob /\ FreeWave(Job) /\ Stale # {}
    /\ work' = [work EXCEPT !.job.left = Chosen(Stale)]
    /\ UNCHANGED <<rows, list, note>>
\* One of them: whoever joined since is to be told if the slot is still free; nothing is committed yet.
GiveUp(t) ==
    /\ t \in work.job.left /\ FreeWave(Job)
    /\ LET s == t[1][2] IN
       work' = [work EXCEPT !.job = [left |-> @.left \ {t}, closes |-> @.closes \cup {t}],
                            !.wave[Job] = IF Taken(s) THEN Idle ELSE [stage |-> "due", from |-> s, to |-> s, chosen |-> {}]]
    /\ UNCHANGED <<rows, list, note>>
\* The last commit is for those that no wave took along.
JobEnds ==
    /\ work.job.left = {} /\ work.job.closes # {} /\ FreeWave(Job)
    /\ list' = Without(list, work.job.closes)
    /\ work' = [work EXCEPT !.job = NoJob]
    /\ UNCHANGED <<rows, note>>

Next ==
    \/ \E b \in Bookings : HoldRunsOut(b) \/ Book(b) \/ (\E p \in Players : InsertBooking(b, p))
    \/ \E b \in Bookings, w \in Waves : Release(b, w) \/ RejectBalance(b, w)
    \/ \E p \in Players : Join(p) \/ Joined(p) \/ \E s \in Slots : Cancel(p, s) \/ Grace(p, s)
    \/ \E w \in Runs : NotifyMatchingEntries(w) \/ Commit(w) \/ Dies(w)
    \/ AdvanceStaleNotifications \/ (\E t \in work.job.left : GiveUp(t)) \/ JobEnds

Spec == Init /\ [][Next]_vars

-----------------------------------------------------------------------------
TypeOK ==
    /\ \A b \in Bookings : rows[b].status \in {"none", "held", "lapsed", "booked", "dead"}
    /\ \A e \in DOMAIN list : list[e].notified \in {"no", "just now", "a while ago"} /\ list[e].told \in 0 .. Cardinality(Runs)
    /\ \A p \in Players : work.join[p] \in {0} \cup Slots
    /\ note.joins \in 0 .. MaxJoins /\ note.trouble \in 0 .. MaxTrouble

WaveOver(s) == \E w \in Runs : work.wave[w].stage # "idle" /\ work.wave[w].from <= s /\ s <= work.wave[w].to

\* Whoever was told that a slot opened has had it open (unless a wave came when somebody had the slot: a late one,
\* or that of a rejected balance, whose booking never let it go).
NoFalseAlarm == \A e \in DOMAIN list : list[e].notified # "no" /\ e[2] \notin note.late => list[e].free
\* Whoever joined behind a booking hears when it lets the slot go (unless the wave died, or the booking was a
\* lapsed hold cancelled by a new one beside the slot).
NobodyIsForgotten ==
    note.odd \cap {"died", "released"} = {} =>
        \A e \in DOMAIN list : Waiting(e) /\ list[e].taken => Undead(e[2]) \/ WaveOver(e[2])
\* One message for an entry (unless a wave read it that another was about to tell).
ToldOnce == "waves crossed" \notin note.odd => \A e \in DOMAIN list : list[e].told <= 1
\* Nobody waits for the slot they hold themselves (unless they asked for both at once).
NotForOwnSlot ==
    "crossed" \notin note.odd =>
        \A b \in Bookings : LiveClaim(rows[b]) => ~list[<<rows[b].player, rows[b].from>>].active

\* The job gives up on nobody who was not told, however old its list of them is.
OnlyToldAreGivenUp ==
    \A e \in DOMAIN list : list[e].active /\ Ticket(e) \in work.job.left \cup work.job.closes => list[e].notified # "no"

Faithful == NoFalseAlarm /\ NobodyIsForgotten /\ ToldOnce /\ NotForOwnSlot /\ OnlyToldAreGivenUp

=============================================================================
