----------------------------- MODULE MoneyProofs -----------------------------
(***************************************************************************)
(* Proofs about the parts of the two apps and of the server that deal with *)
(* one payment at a time: short payments (ShortPayments), a player's       *)
(* points (PlayerPoints, here as Purse), the owner's money popup           *)
(* (BookingMoney, as Money), the refunds to pay (RefundsDesk, as Desk) and *)
(* the player's hold (PlayerHold, as Hold); for any number of the venue's  *)
(* requests in flight, of bookings and tries, any prices and points.  The  *)
(* constants' assumptions are hypotheses of the lemmas, so that a module   *)
(* that instantiates this one can meet them with its own.                  *)
(*                                                                         *)
(* Short payments.  A request or the job writes by a row it read earlier,  *)
(* so the invariant speaks of the rows in flight too: no row says that     *)
(* more was taken as a fine than was (FinesFit).  As long as no write came *)
(* from a stale row, the claim tells whether the fine is still with the    *)
(* venue's claim (FineFollowsClaim), whether the player has answered       *)
(* (AnswerKept) and whether there was silence to fine (SilenceKnown).  As  *)
(* long as requests do not overlap either, whoever changes the due is      *)
(* followed by a request that brings the claim to it (Carried).            *)
(*                                                                         *)
(* The points.  The balance is a fold over the bookings, so the first      *)
(* lemmas show that the fold exists and what one entry changes in it       *)
(* (SumOfOneChange).  What a deduction under way has read is still there   *)
(* when it writes, unless another one was written since (Funds), and one   *)
(* request takes back what a booking earned (OneTakes).                    *)
(*                                                                         *)
(* The screens.  What a form says of the server was true when it was said, *)
(* and the server moves one way only: money is added, less is left, a      *)
(* booking seen cancelled stays so (ShownIsTrue, SaidEnough, SeenGone).    *)
(* And a request is one of a kind while it is on its way (PlanHolds,       *)
(* OneRequest, OneAsk).                                                    *)
(***************************************************************************)
EXTENDS ShortPayments, FiniteSetTheorems, WellFoundedInduction, TLAPS

CONSTANTS
    PurseBookings, PursePoints, PursePrice, PurseDiscount, PursePays,
    MoneyPrice, MoneySaves, MoneyOthers, RefundDue, RefundSubmits, HoldTries, HoldHolds

VARIABLES rows, list

Purse == INSTANCE PlayerPoints WITH
    entry <- list, Bookings <- PurseBookings, Points <- PursePoints, Price <- PursePrice,
    VenueDiscount <- PurseDiscount, MaxPays <- PursePays
Money == INSTANCE BookingMoney WITH
    ui <- list, server <- rows, calls <- work,
    Price <- MoneyPrice, MaxSaves <- MoneySaves, MaxOthers <- MoneyOthers
Desk == INSTANCE RefundsDesk WITH
    ui <- list, server <- rows, calls <- work, Due <- RefundDue, MaxSubmits <- RefundSubmits
Hold == INSTANCE PlayerHold WITH
    ui <- list, server <- rows, calls <- work, MaxTries <- HoldTries, MaxHolds <- HoldHolds

-----------------------------------------------------------------------------
(* Short payments: the invariant                                           *)

\* What every use of the module gives its constants.
ShortAssumption ==
    /\ Price \in Nat \ {0} /\ Points \in Nat /\ MaxActs \in Nat /\ MaxTrouble \in Nat
    /\ "job" \notin Requests

Workers == Requests \cup {"job"}
Carrying == {"open", "open fresh", "resolve", "done", "collect", "waive", "fine"}
Oddities == {"stale row", "settled is fined", "reopened", "overlap", "only the ledger"}

ClaimType == [open : BOOLEAN, status : {"awaiting_reply", "confirmed", "disputed", "no_reply"},
              replied : BOOLEAN, applied : 0 .. Fine, returned : BOOLEAN,
              decision : {"none", "collect", "waive"}, how : {"open", "paid", "waived"}]
DbType == [claim : ClaimType, age : 0 .. 2, due : 0 .. Price, points : Nat,
           entry : [Reasons -> Int], proof : 0 .. Price, moved : 0 .. Price, marked : BOOLEAN]
WorkType == {Idle} \cup [op : {"after", "fresh", "sync"}] \cup [op : Carrying \ {"done"}, claim : ClaimType]
               \cup [op : {"done"}, claim : ClaimType, due : 0 .. Price]
NoteType == [acts : 0 .. MaxActs, trouble : 0 .. MaxTrouble, silent : BOOLEAN, odd : SUBSET Oddities]

\* TypeOK and the types it leaves out.
Shape == db \in DbType /\ work \in [Workers -> WorkType] /\ note \in NoteType

Loaded(x) == work[x].op \in Carrying
Taken(d) == -d.entry["short_no_reply"]
Returned(d) == d.entry["short_no_reply_returned"]

FinesFit ==
    /\ db.entry["short_reply"] >= 0 /\ Taken(db) \in 0 .. Fine /\ Returned(db) \in 0 .. Taken(db)
    /\ Balance(db) >= 0
    /\ db.claim.applied <= Taken(db)
    /\ \A x \in Workers : Loaded(x) => work[x].claim.applied <= Taken(db)

\* What the job has read is an open claim it found waiting.
JobHasRead ==
    work["job"] # Idle => /\ work["job"].op = "fine" /\ work["job"].claim.open
                          /\ work["job"].claim.status = "awaiting_reply"

\* A claim is never deleted, and before there is one nothing was fined.
ClaimIsThere ==
    /\ ~db.claim.open => Taken(db) = 0
    /\ \A x \in Workers : Loaded(x) /\ work[x].claim.open => db.claim.open

\* What the properties set apart has not happened.
Straight(n) == "stale row" \notin n.odd
InOrder(n) == n.odd \cap {"stale row", "settled is fined"} = {}
Known(n) == n.odd \cap {"stale row", "settled is fined", "reopened"} = {}

FineFollowsClaim ==
    InOrder(note) =>
        /\ db.claim.applied > 0 /\ ~db.claim.returned => db.claim.applied = Taken(db) /\ Returned(db) = 0
        /\ db.claim.applied = 0 \/ db.claim.returned => Taken(db) = Returned(db)
        /\ db.claim.how # "open" => db.claim.applied = 0 \/ db.claim.returned
        /\ db.claim.returned => Taken(db) > 0

AnswerKept == Straight(note) => (db.claim.replied <=> db.claim.status \in {"confirmed", "disputed"})

SilenceKnown ==
    Known(note) =>
        /\ Taken(db) > 0 => note.silent
        /\ db.age > 0 /\ db.claim.open /\ db.claim.how = "open" /\ db.claim.status = "awaiting_reply"
              => note.silent
        /\ work["job"] # Idle /\ work["job"].claim.how = "open" => note.silent

Core == FinesFit /\ JobHasRead /\ ClaimIsThere /\ FineFollowsClaim /\ AnswerKept /\ SilenceKnown

-----------------------------------------------------------------------------
(* The helpers of the model                                                *)

\* A flush writes the columns that were changed, and keeps the row's others.
LEMMA Flushing ==
    ASSUME NEW now \in ClaimType, NEW loaded \in ClaimType, NEW new \in ClaimType
    PROVE  LET c == Flushed(now, loaded, new) IN
           /\ c \in ClaimType
           /\ now = loaded => c = new
           /\ c.open = IF new.open # loaded.open THEN new.open ELSE now.open
           /\ c.status = IF new.status # loaded.status THEN new.status ELSE now.status
           /\ c.replied = IF new.replied # loaded.replied THEN new.replied ELSE now.replied
           /\ c.applied = IF new.applied # loaded.applied THEN new.applied ELSE now.applied
           /\ c.returned = IF new.returned # loaded.returned THEN new.returned ELSE now.returned
           /\ c.how = IF new.how # loaded.how THEN new.how ELSE now.how
<1> DEFINE c == Flushed(now, loaded, new)
<1>1. DOMAIN now = {"open", "status", "replied", "applied", "returned", "decision", "how"}
  BY DEF ClaimType
<1>2. c \in ClaimType
  BY <1>1 DEF Flushed, ClaimType
<1>3. now = loaded => c = new
  BY <1>1, <1>2 DEF Flushed, ClaimType
<1>4. /\ c.open = IF new.open # loaded.open THEN new.open ELSE now.open
      /\ c.status = IF new.status # loaded.status THEN new.status ELSE now.status
      /\ c.replied = IF new.replied # loaded.replied THEN new.replied ELSE now.replied
      /\ c.applied = IF new.applied # loaded.applied THEN new.applied ELSE now.applied
      /\ c.returned = IF new.returned # loaded.returned THEN new.returned ELSE now.returned
      /\ c.how = IF new.how # loaded.how THEN new.how ELSE now.how
  BY <1>1 DEF Flushed
<1>5. QED
  BY <1>2, <1>3, <1>4

\* An entry of points changes one sum, by no more than the balance when it is a deduction.
LEMMA Adding ==
    ASSUME NEW d \in DbType, NEW delta \in Int, NEW reason \in Reasons
    PROVE  LET e == Added(d, delta, reason) IN
           /\ e \in DbType
           /\ e.claim = d.claim /\ e.age = d.age /\ e.due = d.due /\ e.points = d.points /\ e.marked = d.marked
           /\ e.entry[reason] = d.entry[reason] + AddPoints(d, delta, reason)
           /\ \A x \in Reasons : x # reason => e.entry[x] = d.entry[x]
<1> DEFINE e == Added(d, delta, reason)
<1>1. Balance(d) \in Int
  BY DEF Balance, DbType, Reasons
<1>2. AddPoints(d, delta, reason) \in Int
  BY <1>1 DEF AddPoints
<1>3. e = [d EXCEPT !.entry = [d.entry EXCEPT ![reason] = @ + AddPoints(d, delta, reason)]]
  BY DEF Added, DbType
<1>4. d.entry \in [Reasons -> Int]
  BY DEF DbType
<1>5. [d.entry EXCEPT ![reason] = @ + AddPoints(d, delta, reason)] \in [Reasons -> Int]
  BY <1>2, <1>4
<1>6. QED
  BY <1>2, <1>3, <1>4, <1>5 DEF DbType

\* What is noted is kept, unless a stale row has been written.
Keeps(n) ==
    /\ Straight(n) => Straight(note)
    /\ InOrder(n) => InOrder(note)
    /\ Known(n) => Known(note)

LEMMA Noting ==
    ASSUME NEW what \in Oddities, NEW happened \in BOOLEAN, note \in NoteType
    PROVE  LET n == Odd(what, happened) IN
           /\ n \in NoteType /\ n.acts = note.acts /\ n.silent = note.silent
           /\ Keeps(n)
           /\ happened => "stale row" \in n.odd \/ what \in n.odd
<1> DEFINE n == Odd(what, happened)
           odd == IF what = "stale row" THEN {what} ELSE note.odd \cup {what}
<1>1. CASE ~happened \/ note.odd = {"stale row"}
  <2>1. n = note
    BY <1>1 DEF Odd
  <2>2. QED
    BY <1>1, <2>1 DEF Keeps
<1>2. CASE happened /\ note.odd # {"stale row"}
  <2>1. n = [note EXCEPT !.odd = odd]
    BY <1>2 DEF Odd
  <2>2. odd \in SUBSET Oddities
    BY DEF NoteType, Oddities
  <2>3. n \in NoteType /\ n.acts = note.acts /\ n.silent = note.silent /\ n.odd = odd
    BY <2>1, <2>2 DEF NoteType
  <2>4. "stale row" \in odd \/ note.odd \subseteq odd
    OBVIOUS
  <2>5. Keeps(n)
    BY <2>3, <2>4 DEF Keeps, Straight, InOrder, Known
  <2>6. QED
    BY <2>3, <2>5
<1>3. QED
  BY <1>1, <1>2

LEMMA Values ==
    /\ NoClaim \in ClaimType /\ [NoClaim EXCEPT !.open = TRUE] \in ClaimType
    /\ \A c \in ClaimType : Refreshed(c) \in ClaimType /\ StartedOver(c) \in ClaimType
<1>1. NoClaim \in ClaimType /\ [NoClaim EXCEPT !.open = TRUE] \in ClaimType
  <2>1. 0 \in 0 .. Fine
    BY DEF Fine
  <2>2. NoClaim \in ClaimType
    BY <2>1 DEF NoClaim, ClaimType
  <2>3. [NoClaim EXCEPT !.open = TRUE] \in ClaimType
    BY <2>2 DEF ClaimType
  <2>4. QED
    BY <2>2, <2>3
<1>2. ASSUME NEW c \in ClaimType
      PROVE  Refreshed(c) \in ClaimType /\ StartedOver(c) \in ClaimType
  <2>1. Refreshed(c) \in ClaimType /\ Refreshed(c).applied = c.applied
    BY DEF Refreshed, ClaimType
  <2>2. (IF c.returned \/ c.applied = 0 THEN 0 ELSE Refreshed(c).applied) \in 0 .. Fine
    BY <2>1 DEF ClaimType, Fine
  <2>3. StartedOver(c) \in ClaimType
    BY <2>1, <2>2 DEF StartedOver, ClaimType
  <2>4. QED
    BY <2>1, <2>3
<1>3. QED
  BY <1>1, <1>2

\* Settling by a loaded row returns at most what that row says was taken, and only once.
LEMMA Resolving ==
    ASSUME NEW d \in DbType, NEW loaded \in ClaimType, NEW how \in {"paid", "waived"}
    PROVE  LET e == Resolved(d, loaded, how) IN
           /\ e \in DbType
           /\ e.age = d.age /\ e.due = d.due /\ e.points = d.points
           /\ e.claim.open = d.claim.open /\ e.claim.applied \in {d.claim.applied, loaded.applied}
           /\ \A x \in Reasons : x # "short_no_reply_returned" => e.entry[x] = d.entry[x]
           /\ \/ Returned(e) = Returned(d)
              \/ Returned(d) = 0 /\ Returned(e) = loaded.applied
           /\ d.claim.open /\ d.claim = [loaded EXCEPT !.decision = d.claim.decision] /\ loaded.how = "open"
                 => /\ e.claim.how = how /\ e.claim.applied = loaded.applied
                    /\ e.claim.status = loaded.status /\ e.claim.replied = loaded.replied
                    /\ e.claim.returned = (loaded.returned \/ loaded.applied > 0)
                    /\ loaded.applied > 0 /\ ~loaded.returned /\ Returned(d) = 0
                          => Returned(e) = loaded.applied
                    /\ loaded.applied = 0 \/ loaded.returned => Returned(e) = Returned(d)
           /\ d.claim = [loaded EXCEPT !.decision = d.claim.decision] /\ loaded.how # "open" => e = d
<1> DEFINE back == loaded.applied > 0 /\ ~loaded.returned
           new == [loaded EXCEPT !.how = how, !.returned = @ \/ back]
           paid == IF back THEN Added(d, loaded.applied, "short_no_reply_returned") ELSE d
           e == Resolved(d, loaded, how)
<1>1. CASE ~loaded.open \/ loaded.how # "open"
  <2>1. e = d
    BY <1>1 DEF Resolved
  <2>2. d.claim = [loaded EXCEPT !.decision = d.claim.decision] => d.claim.open = loaded.open
    BY DEF ClaimType
  <2>3. QED
    BY <1>1, <2>1, <2>2 DEF DbType
<1>2. CASE loaded.open /\ loaded.how = "open"
  <2>1. e = [paid EXCEPT !.claim = Flushed(paid.claim, loaded, new)]
    BY <1>2 DEF Resolved
  <2>2. /\ new \in ClaimType /\ new.open = loaded.open /\ new.applied = loaded.applied
        /\ new.how = how /\ new.returned = (loaded.returned \/ back)
        /\ new.status = loaded.status /\ new.replied = loaded.replied /\ new.decision = loaded.decision
    BY DEF ClaimType
  <2>3. loaded.applied \in Int /\ "short_no_reply_returned" \in Reasons /\ loaded.applied >= 0
    BY DEF ClaimType, Fine, Reasons
  <2>4. /\ paid \in DbType /\ paid.claim = d.claim
        /\ paid.age = d.age /\ paid.due = d.due /\ paid.points = d.points
        /\ \A x \in Reasons : x # "short_no_reply_returned" => paid.entry[x] = d.entry[x]
        /\ back => Returned(paid) = Returned(d) + AddPoints(d, loaded.applied, "short_no_reply_returned")
        /\ ~back => paid = d
    BY <2>3, Adding DEF Returned
  <2>5. AddPoints(d, loaded.applied, "short_no_reply_returned")
           = IF Returned(d) # 0 THEN 0 ELSE loaded.applied
    BY <2>3 DEF AddPoints, Returned
  <2>6. d.claim \in ClaimType /\ Returned(d) \in Int
    BY DEF DbType, Returned, Reasons
  <2> DEFINE c == Flushed(d.claim, loaded, new)
  <2> HIDE DEF new, c
  <2>7. /\ c \in ClaimType /\ c.open = d.claim.open
        /\ c.applied = d.claim.applied
        /\ c.status = d.claim.status /\ c.replied = d.claim.replied
        /\ c.how = IF how # "open" THEN how ELSE d.claim.how
        /\ c.returned = IF new.returned # loaded.returned THEN new.returned ELSE d.claim.returned
    <3>1. /\ c \in ClaimType
          /\ c.open = IF new.open # loaded.open THEN new.open ELSE d.claim.open
          /\ c.status = IF new.status # loaded.status THEN new.status ELSE d.claim.status
          /\ c.replied = IF new.replied # loaded.replied THEN new.replied ELSE d.claim.replied
          /\ c.applied = IF new.applied # loaded.applied THEN new.applied ELSE d.claim.applied
          /\ c.returned = IF new.returned # loaded.returned THEN new.returned ELSE d.claim.returned
          /\ c.how = IF new.how # loaded.how THEN new.how ELSE d.claim.how
      BY <2>2, <2>6, Flushing DEF c
    <3>2. QED
      BY <1>2, <2>2, <3>1
  <2>8. /\ e \in DbType /\ e.claim = c /\ e.entry = paid.entry
        /\ e.age = d.age /\ e.due = d.due /\ e.points = d.points
    BY <2>1, <2>4, <2>7 DEF DbType, c
  <2>9. Returned(e) = Returned(paid)
    BY <2>8 DEF Returned
  <2>10. \/ Returned(e) = Returned(d)
         \/ Returned(d) = 0 /\ Returned(e) = loaded.applied
    BY <2>3, <2>4, <2>5, <2>6, <2>9
  <2>11. e.claim.open = d.claim.open /\ e.claim.applied \in {d.claim.applied, loaded.applied}
    BY <2>7, <2>8
  <2>12. ASSUME d.claim = [loaded EXCEPT !.decision = d.claim.decision]
         PROVE  /\ e.claim.how = how /\ e.claim.applied = loaded.applied
                /\ e.claim.status = loaded.status /\ e.claim.replied = loaded.replied
                /\ e.claim.returned = (loaded.returned \/ loaded.applied > 0)
    <3>1. /\ d.claim.how = loaded.how /\ d.claim.applied = loaded.applied
          /\ d.claim.status = loaded.status /\ d.claim.replied = loaded.replied
          /\ d.claim.returned = loaded.returned
      BY <2>12 DEF ClaimType
    <3>2. QED
      BY <2>2, <2>7, <2>8, <3>1
  <2>13. /\ back /\ Returned(d) = 0 => Returned(e) = loaded.applied
         /\ ~back => Returned(e) = Returned(d)
    BY <2>3, <2>4, <2>5, <2>6, <2>9
  <2>14. \A x \in Reasons : x # "short_no_reply_returned" => e.entry[x] = d.entry[x]
    BY <2>4, <2>8
  <2>15. /\ d.claim.open /\ d.claim = [loaded EXCEPT !.decision = d.claim.decision] /\ loaded.how = "open"
                 => /\ e.claim.how = how /\ e.claim.applied = loaded.applied
                    /\ e.claim.status = loaded.status /\ e.claim.replied = loaded.replied
                    /\ e.claim.returned = (loaded.returned \/ loaded.applied > 0)
                    /\ loaded.applied > 0 /\ ~loaded.returned /\ Returned(d) = 0
                          => Returned(e) = loaded.applied
                    /\ loaded.applied = 0 \/ loaded.returned => Returned(e) = Returned(d)
    BY <2>3, <2>12, <2>13
  <2>16. QED
    BY <1>2, <2>8, <2>10, <2>11, <2>14, <2>15
<1>3. QED
  BY <1>1, <1>2 DEF ClaimType

LEMMA LoadedClaim ==
    ASSUME Shape, NEW x \in Workers, Loaded(x)
    PROVE  work[x].claim \in ClaimType /\ work[x] # Idle
<1>1. work[x] \in WorkType
  BY DEF Shape
<1>2. CASE work[x] \in {Idle} \cup [op : {"after", "fresh", "sync"}]
  <2>1. work[x].op \in {"idle", "after", "fresh", "sync"}
    BY <1>2 DEF Idle
  <2>2. QED
    BY <2>1 DEF Loaded, Carrying
<1>3. work[x] \in [op : Carrying \ {"done"}, claim : ClaimType] => work[x].claim \in ClaimType
  OBVIOUS
<1>4. work[x] \in [op : {"done"}, claim : ClaimType, due : 0 .. Price] => work[x].claim \in ClaimType
  OBVIOUS
<1>5. work[x] # Idle
  <2>1. Idle.op = "idle" /\ "idle" \notin Carrying
    BY DEF Idle, Carrying
  <2>2. QED
    BY <2>1 DEF Loaded
<1>6. work[x].claim \in ClaimType
  BY <1>1, <1>2, <1>3, <1>4 DEF WorkType
<1>7. QED
  BY <1>5, <1>6

\* What a worker turns to is of the type.
LEMMA WorkValues ==
    ASSUME NEW c \in ClaimType
    PROVE  /\ Idle \in WorkType
           /\ \A op \in {"after", "fresh", "sync"} : [op |-> op] \in WorkType
           /\ \A op \in Carrying \ {"done"} : [op |-> op, claim |-> c] \in WorkType
           /\ \A due \in 0 .. Price : [op |-> "done", claim |-> c, due |-> due] \in WorkType
  BY DEF WorkType

LEMMA SetWork ==
    ASSUME Shape, NEW x \in Workers, NEW w \in WorkType, work' = [work EXCEPT ![x] = w]
    PROVE  work' \in [Workers -> WorkType]
  BY DEF Shape

\* Money moves and notes are made: the steps that leave the claim and the points alone.
LEMMA Counting ==
    ASSUME ShortAssumption, NEW n \in NoteType, NEW m,
           \/ n.acts < MaxActs /\ m = [n EXCEPT !.acts = @ + 1]
           \/ n.trouble < MaxTrouble /\ m = [n EXCEPT !.trouble = @ + 1]
           \/ \E b \in BOOLEAN : m = [n EXCEPT !.silent = b]
    PROVE  /\ m \in NoteType /\ m.odd = n.odd
<1>1. n.acts \in 0 .. MaxActs /\ n.trouble \in 0 .. MaxTrouble /\ MaxActs \in Nat /\ MaxTrouble \in Nat
  BY DEF NoteType, ShortAssumption
<1>2. n.acts < MaxActs => n.acts + 1 \in 0 .. MaxActs
  BY <1>1
<1>3. n.trouble < MaxTrouble => n.trouble + 1 \in 0 .. MaxTrouble
  BY <1>1
<1>4. CASE n.acts < MaxActs /\ m = [n EXCEPT !.acts = @ + 1]
  BY <1>2, <1>4 DEF NoteType
<1>5. CASE n.trouble < MaxTrouble /\ m = [n EXCEPT !.trouble = @ + 1]
  BY <1>3, <1>5 DEF NoteType
<1>6. CASE \E b \in BOOLEAN : m = [n EXCEPT !.silent = b]
  BY <1>6 DEF NoteType
<1>7. QED
  BY <1>4, <1>5, <1>6

\* The claim, the points and the clock stay; nobody holds a row that was not the claim's.
ClaimStays ==
    /\ db' \in DbType
    /\ db'.claim = db.claim /\ db'.entry = db.entry /\ db'.points = db.points /\ db'.age = db.age

RowsAreRead ==
    /\ work' \in [Workers -> WorkType]
    /\ \A x \in Workers :
          Loaded(x)' => \/ Loaded(x) /\ work'[x].claim = work[x].claim
                        \/ work'[x].claim = db.claim
    /\ work'["job"] = work["job"]

NotesKept == note' \in NoteType /\ note'.silent = note.silent /\ Keeps(note')

LEMMA Moving ==
    ASSUME Shape, NEW due \in 0 .. Price, NEW proof \in 0 .. Price, NEW moved \in 0 .. Price, NEW marked \in BOOLEAN,
           \/ db' = [db EXCEPT !.due = due, !.proof = proof, !.moved = moved, !.marked = marked]
           \/ db' = [db EXCEPT !.due = due]
           \/ db' = [db EXCEPT !.proof = proof]
           \/ db' = [db EXCEPT !.marked = marked, !.due = due]
           \/ db' = [db EXCEPT !.moved = moved, !.marked = marked]
           \/ db' = [db EXCEPT !.moved = moved, !.marked = marked, !.due = due]
           \/ db' = [db EXCEPT !.proof = proof, !.due = due, !.moved = moved]
           \/ db' = db
    PROVE  ClaimStays
  BY ZenonT(40) DEF Shape, DbType, ClaimStays

\* A request turns to something that carries no row, its own row, or the claim as it is.
LEMMA Turning ==
    ASSUME ShortAssumption, Shape, NEW r \in Requests, NEW w \in WorkType, work' = [work EXCEPT ![r] = w],
           \/ w.op \notin Carrying
           \/ Loaded(r) /\ w.claim = work[r].claim
           \/ w.claim = db.claim
    PROVE  RowsAreRead
<1>1. work \in [Workers -> WorkType] /\ r \in Workers /\ r # "job" /\ "job" \in Workers
  BY DEF Shape, Workers, ShortAssumption
<1>2. work' \in [Workers -> WorkType] /\ work'["job"] = work["job"]
  BY <1>1
<1>3. work'[r] = w /\ \A x \in Workers : x # r => work'[x] = work[x]
  BY <1>1
<1>4. QED
  BY <1>2, <1>3 DEF RowsAreRead, Loaded

LEMMA NotTurning ==
    ASSUME ShortAssumption, Shape, UNCHANGED work
    PROVE  RowsAreRead
  BY DEF Shape, RowsAreRead, Loaded

LEMMA Plain ==
    ASSUME Shape, note' = note
    PROVE  NotesKept
  BY DEF Shape, NotesKept, Keeps

LEMMA PlainCount ==
    ASSUME ShortAssumption, Shape,
           \/ note.acts < MaxActs /\ note' = [note EXCEPT !.acts = @ + 1]
           \/ note.trouble < MaxTrouble /\ note' = [note EXCEPT !.trouble = @ + 1]
    PROVE  NotesKept
<1>1. note \in NoteType
  BY DEF Shape
<1>2. note' \in NoteType /\ note'.odd = note.odd
  BY <1>1, Counting
<1>3. note'.silent = note.silent
  BY <1>1 DEF NoteType
<1>4. QED
  BY <1>2, <1>3 DEF NotesKept, Keeps, Straight, InOrder, Known

LEMMA NotesOdd ==
    ASSUME ShortAssumption, Shape, NEW what \in Oddities, NEW happened \in BOOLEAN,
           \/ note' = Odd(what, happened)
           \/ note.acts < MaxActs /\ note' = [Odd(what, happened) EXCEPT !.acts = @ + 1]
    PROVE  /\ NotesKept
           /\ happened => "stale row" \in note'.odd \/ what \in note'.odd
<1> DEFINE n == Odd(what, happened)
<1>1. note \in NoteType
  BY DEF Shape
<1>2. /\ n \in NoteType /\ n.acts = note.acts /\ n.silent = note.silent /\ Keeps(n)
      /\ happened => "stale row" \in n.odd \/ what \in n.odd
  BY <1>1, Noting
<1> HIDE DEF n
<1>3. note' = n \/ (n.acts < MaxActs /\ note' = [n EXCEPT !.acts = @ + 1])
  BY <1>2 DEF n
<1>4. note' \in NoteType /\ note'.odd = n.odd
  BY <1>2, <1>3, Counting
<1>5. note'.silent = n.silent
  BY <1>2, <1>3 DEF NoteType
<1>6. QED
  BY <1>2, <1>4, <1>5 DEF NotesKept, Keeps, Straight, InOrder, Known


\* What opening a claim that is there changes, without and with a fresh round.
LEMMA Rounds ==
    ASSUME NEW c \in ClaimType
    PROVE  /\ Refreshed(c) \in ClaimType /\ Refreshed(c).how = "open"
           /\ Refreshed(c).open = c.open /\ Refreshed(c).applied = c.applied /\ Refreshed(c).returned = c.returned
           /\ Refreshed(c).status = c.status /\ Refreshed(c).replied = c.replied
           /\ StartedOver(c) \in ClaimType /\ StartedOver(c).how = "open"
           /\ StartedOver(c).open = c.open /\ StartedOver(c).status = "awaiting_reply"
           /\ ~StartedOver(c).replied /\ ~StartedOver(c).returned
           /\ StartedOver(c).applied = IF c.returned \/ c.applied = 0 THEN 0 ELSE c.applied
<1>1. /\ Refreshed(c) \in ClaimType /\ Refreshed(c).how = "open"
      /\ Refreshed(c).open = c.open /\ Refreshed(c).applied = c.applied /\ Refreshed(c).returned = c.returned
      /\ Refreshed(c).status = c.status /\ Refreshed(c).replied = c.replied
  BY DEF Refreshed, ClaimType
<1> DEFINE kept == IF c.returned \/ c.applied = 0 THEN 0 ELSE Refreshed(c).applied
           d == Refreshed(c)
<1>2. kept \in 0 .. Fine
  BY <1>1 DEF ClaimType, Fine
<1>3. StartedOver(c) = [d EXCEPT !.status = "awaiting_reply", !.replied = FALSE, !.decision = "none",
                                 !.applied = kept, !.returned = FALSE]
  BY DEF StartedOver
<1>4. d \in ClaimType
  BY <1>1
<1> HIDE DEF kept, d
<1>5. /\ StartedOver(c) \in ClaimType /\ StartedOver(c).how = d.how /\ StartedOver(c).open = d.open
      /\ StartedOver(c).status = "awaiting_reply" /\ ~StartedOver(c).replied /\ ~StartedOver(c).returned
      /\ StartedOver(c).applied = kept
  BY <1>2, <1>3, <1>4 DEF ClaimType
<1>6. QED
  BY <1>1, <1>5 DEF kept, d

LEMMA FirstClaim ==
    LET first == [NoClaim EXCEPT !.open = TRUE] IN
    /\ first \in ClaimType /\ first.open /\ first.applied = 0 /\ ~first.returned /\ ~first.replied
    /\ first.status = "awaiting_reply" /\ first.how = "open"
<1> DEFINE first == [NoClaim EXCEPT !.open = TRUE]
<1>1. first \in ClaimType
  BY Values
<1>2. /\ first.open /\ first.applied = 0 /\ ~first.returned /\ ~first.replied
      /\ first.status = "awaiting_reply" /\ first.how = "open"
  BY DEF NoClaim
<1>3. QED
  BY <1>1, <1>2

\* A write of the claim, and of its age, writes nothing else.
Ages == 0 .. 2
Written(d, c, a) == [d EXCEPT !.claim = c, !.age = a]

LEMMA ClaimWritten ==
    ASSUME NEW d \in DbType, NEW c \in ClaimType, NEW a \in Ages
    PROVE  /\ Written(d, c, a) \in DbType /\ Written(d, c, a).claim = c /\ Written(d, c, a).age = a
           /\ Written(d, c, a).points = d.points /\ Written(d, c, a).entry = d.entry
  BY DEF DbType, Written, Ages

LEMMA OnlyClaimWritten ==
    ASSUME NEW d \in DbType, NEW c \in ClaimType
    PROVE  d.age \in Ages /\ [d EXCEPT !.claim = c] = Written(d, c, d.age)
  BY DEF DbType, Written, Ages
-----------------------------------------------------------------------------
(* The steps that leave the claim alone                                    *)

StartsRow(r) == LoadAfter(r) \/ LoadFresh(r) \/ LoadSync(r) \/ LoadDone(r) \/ LoadDecide(r)
MovesMoney(r) ==
    \/ Completion(r) \/ ApproveProof(r) \/ RejectProof(r) \/ BankDecide(r) \/ MarkDueDone(r) \/ Abort(r)
OnItsOwn == SubmitProof \/ MarkNotReceived \/ RecordPaymentEntry

LEMMA ReadingRows ==
    ASSUME ShortAssumption, Shape, NEW r \in Requests, StartsRow(r)
    PROVE  ClaimStays /\ RowsAreRead /\ NotesKept
<1>1. /\ db \in DbType /\ db.claim \in ClaimType /\ r \in Workers /\ db.due \in 0 .. Price
      /\ Idle \in WorkType /\ Idle.op \notin Carrying
  BY DEF Shape, DbType, Workers, WorkType, Idle, Carrying
<1>2. ClaimStays
  BY <1>1 DEF StartsRow, LoadAfter, LoadFresh, LoadSync, LoadDone, LoadDecide, ClaimStays
<1>3. ASSUME NEW op \in Carrying \ {"done"}, Load(r, op)
      PROVE  RowsAreRead /\ NotesKept
  <2>1. [op |-> op, claim |-> db.claim] \in WorkType
    BY <1>1, WorkValues
  <2>2. RowsAreRead
    BY <1>3, <2>1, Turning DEF Load
  <2>3. Overlaps(r) \in BOOLEAN /\ "overlap" \in Oddities
    BY DEF Overlaps, Oddities
  <2>4. NotesKept
    BY <1>3, <2>3, NotesOdd DEF Load
  <2>5. QED
    BY <2>2, <2>4
<1>4. ASSUME work' = [work EXCEPT ![r] = Idle], UNCHANGED note
      PROVE  RowsAreRead /\ NotesKept
  BY <1>1, <1>4, Turning, Plain
<1>5. CASE LoadAfter(r) \/ LoadFresh(r) \/ LoadSync(r)
  <2>1. \/ \E op \in Carrying \ {"done"} : Load(r, op)
        \/ work' = [work EXCEPT ![r] = Idle] /\ UNCHANGED note
    BY <1>5 DEF LoadAfter, LoadFresh, LoadSync, Carrying
  <2>2. QED
    BY <1>2, <1>3, <1>4, <2>1
<1>6. CASE LoadDone(r) \/ LoadDecide(r)
  <2>1. /\ note.acts < MaxActs
        /\ note' = [Odd("overlap", Overlaps(r)) EXCEPT !.acts = @ + 1]
    BY <1>6 DEF LoadDone, LoadDecide, Starts
  <2>2. Overlaps(r) \in BOOLEAN /\ "overlap" \in Oddities
    BY DEF Overlaps, Oddities
  <2>3. NotesKept
    BY <2>1, <2>2, NotesOdd
  <2>4. \E w \in WorkType : w.claim = db.claim /\ work' = [work EXCEPT ![r] = w]
    <3>1. [op |-> "done", claim |-> db.claim, due |-> db.due] \in WorkType
      BY <1>1, WorkValues
    <3>2. \A op \in {"collect", "waive"} : [op |-> op, claim |-> db.claim] \in WorkType
      BY <1>1, WorkValues DEF Carrying
    <3>3. QED
      BY <1>6, <3>1, <3>2 DEF LoadDone, LoadDecide
  <2>5. RowsAreRead
    BY <2>4, Turning
  <2>6. QED
    BY <1>2, <2>3, <2>5
<1>7. QED
  BY <1>5, <1>6 DEF StartsRow

LEMMA MovingMoney ==
    ASSUME ShortAssumption, Shape, NEW r \in Requests, MovesMoney(r)
    PROVE  ClaimStays /\ RowsAreRead /\ NotesKept
<1>1. /\ db \in DbType /\ r \in Workers /\ Price \in Nat
      /\ db.due \in 0 .. Price /\ db.proof \in 0 .. Price /\ db.moved \in 0 .. Price /\ db.marked \in BOOLEAN
      /\ Idle \in WorkType /\ Idle.op \notin Carrying
  BY DEF Shape, DbType, Workers, WorkType, Idle, Carrying, ShortAssumption
<1>2. \A op \in {"after", "fresh", "sync"} : [op |-> op] \in WorkType /\ op \notin Carrying
  BY DEF WorkType, Carrying
<1>3. ASSUME NEW op \in {"after", "fresh", "sync"}, To(r, op)
      PROVE  RowsAreRead
  BY <1>2, <1>3, Turning DEF To
<1>4. 0 \in 0 .. Price /\ TRUE \in BOOLEAN /\ FALSE \in BOOLEAN
  BY <1>1
<1>5. CASE Completion(r)
  <2>1. NotesKept
    BY <1>5, PlainCount DEF Completion, Starts, Acted
  <2>2. RowsAreRead
    BY <1>3, <1>5 DEF Completion
  <2>3. ClaimStays
    BY <1>1, <1>4, <1>5, Moving DEF Completion
  <2>4. QED
    BY <2>1, <2>2, <2>3
<1>6. CASE ApproveProof(r)
  <2> DEFINE credit == IF db.proof < db.due THEN db.proof ELSE db.due
  <2>1. credit \in 0 .. Price /\ db.due - credit \in 0 .. Price
    BY <1>1
  <2> DEFINE moved == IF db.marked THEN db.moved ELSE credit
  <2>2. /\ db' = [db EXCEPT !.proof = 0, !.due = db.due - credit, !.moved = moved]
        /\ moved \in 0 .. Price
    BY <1>1, <1>6, <2>1 DEF ApproveProof
  <2> HIDE DEF credit, moved
  <2>3. ClaimStays
    BY <1>1, <1>4, <2>1, <2>2, Moving
  <2>4. RowsAreRead /\ NotesKept
    BY <1>3, <1>6, Plain DEF ApproveProof
  <2>5. QED
    BY <2>3, <2>4
<1>7. CASE RejectProof(r)
  <2>1. ClaimStays
    BY <1>1, <1>4, <1>7, Moving DEF RejectProof
  <2>2. RowsAreRead /\ NotesKept
    BY <1>3, <1>7, Plain DEF RejectProof
  <2>3. QED
    BY <2>1, <2>2
<1>8. CASE BankDecide(r)
  <2>1. CASE db' = [db EXCEPT !.moved = 0, !.marked = FALSE] /\ To(r, "fresh") /\ UNCHANGED note
    <3>1. ClaimStays
      BY <1>1, <1>4, <2>1, Moving
    <3>2. QED
      BY <1>3, <2>1, <3>1, Plain
  <2>2. CASE /\ db.moved <= db.due
             /\ db' = [db EXCEPT !.moved = 0, !.marked = FALSE, !.due = @ - db.moved]
             /\ note' = Odd("only the ledger", TRUE) /\ UNCHANGED work
    <3>1. db.due - db.moved \in 0 .. Price
      <4>1. db.due \in 0 .. Price /\ db.moved \in 0 .. Price /\ db.moved <= db.due /\ Price \in Nat
        BY <1>1, <2>2
      <4>2. QED
        BY ONLY <4>1
    <3>2. ClaimStays
      BY <1>1, <1>4, <2>2, <3>1, Moving
    <3>3. NotesKept
      BY <1>4, <2>2, NotesOdd DEF Oddities
    <3>4. QED
      BY <2>2, <3>2, <3>3, NotTurning
  <2>3. QED
    BY <1>8, <2>1, <2>2 DEF BankDecide
<1>9. CASE MarkDueDone(r)
  <2>1. Loaded(r) /\ work[r].claim \in ClaimType /\ "resolve" \in Carrying \ {"done"}
    BY <1>1, <1>9, LoadedClaim DEF MarkDueDone, Loaded, Carrying
  <2>2. CASE work[r].due > db.due
    <3>1. ClaimStays /\ NotesKept
      BY <1>1, <1>9, <2>2, Plain DEF MarkDueDone, ClaimStays
    <3>2. QED
      BY <1>1, <1>9, <2>2, <3>1, Turning DEF MarkDueDone
  <2>3. CASE ~(work[r].due > db.due)
    <3>1. work[r] \in WorkType /\ work[r].op = "done"
      BY <1>1, <1>9 DEF Shape, MarkDueDone
    <3>2. [op |-> "resolve", claim |-> work[r].claim] \in WorkType
      BY <2>1, WorkValues
    <3>3. RowsAreRead
      BY <1>9, <2>1, <2>3, <3>2, Turning DEF MarkDueDone
    <3>4. db.due - work[r].due \in 0 .. Price
      <4>1. work[r].due \in 0 .. Price
        BY <3>1 DEF WorkType, Idle
      <4>2. QED
        BY <1>1, <2>3, <4>1
    <3>5. ClaimStays
      BY <1>1, <1>4, <1>9, <2>3, <3>4, Moving DEF MarkDueDone
    <3>6. QED
      BY <1>9, <3>3, <3>5, Plain DEF MarkDueDone
  <2>4. QED
    BY <2>2, <2>3
<1>10. CASE Abort(r)
  <2>1. ClaimStays
    BY <1>1, <1>10 DEF Abort, ClaimStays
  <2>2. NotesKept
    BY <1>10, PlainCount DEF Abort
  <2>3. RowsAreRead
    BY <1>1, <1>10, Turning DEF Abort
  <2>4. QED
    BY <2>1, <2>2, <2>3
<1>11. QED
  BY <1>5, <1>6, <1>7, <1>8, <1>9, <1>10 DEF MovesMoney

LEMMA OnTheirOwn ==
    ASSUME ShortAssumption, Shape, OnItsOwn
    PROVE  ClaimStays /\ RowsAreRead /\ NotesKept
<1>1. /\ db \in DbType /\ Price \in Nat
      /\ db.due \in 0 .. Price /\ db.proof \in 0 .. Price /\ db.moved \in 0 .. Price /\ db.marked \in BOOLEAN
  BY DEF Shape, DbType, ShortAssumption
<1>2. RowsAreRead
  BY NotTurning DEF OnItsOwn, SubmitProof, MarkNotReceived, RecordPaymentEntry
<1>3. CASE SubmitProof
  <2>1. ClaimStays
    BY <1>1, <1>3, Moving DEF SubmitProof
  <2>2. NotesKept
    BY <1>3, PlainCount DEF SubmitProof, Acted
  <2>3. QED
    BY <1>2, <2>1, <2>2
<1>4. CASE MarkNotReceived
  <2>1. db.due + db.moved \in 0 .. Price
    <3>1. db.due \in 0 .. Price /\ db.moved \in 0 .. Price /\ db.due + db.moved <= Price /\ Price \in Nat
      BY <1>1, <1>4 DEF MarkNotReceived
    <3>2. QED
      BY ONLY <3>1
  <2>2. db' = [db EXCEPT !.marked = TRUE, !.due = db.due + db.moved]
    BY <1>4 DEF MarkNotReceived
  <2>3. ClaimStays
    BY <1>1, <2>1, <2>2, Moving
  <2>4. NotesKept
    BY <1>4, Plain DEF MarkNotReceived
  <2>5. QED
    BY <1>2, <2>3, <2>4
<1>5. CASE RecordPaymentEntry
  <2>1. ClaimStays
    BY <1>1, <1>5, Moving DEF RecordPaymentEntry
  <2>2. NotesKept
    BY <1>5, NotesOdd DEF RecordPaymentEntry, Oddities
  <2>3. QED
    BY <1>2, <2>1, <2>2
<1>6. QED
  BY <1>3, <1>4, <1>5 DEF OnItsOwn

LEMMA SteadyKeeps ==
    ASSUME ShortAssumption, Shape, Core, ClaimStays, RowsAreRead, NotesKept
    PROVE  (Shape /\ Core)'
<1>1. Shape'
  BY DEF Shape, ClaimStays, RowsAreRead, NotesKept
<1>2. /\ Taken(db)' = Taken(db) /\ Returned(db)' = Returned(db) /\ Balance(db)' = Balance(db)
      /\ db'.claim = db.claim /\ db'.age = db.age /\ db'.entry = db.entry
  BY DEF ClaimStays, Taken, Returned, Balance
<1>3. FinesFit'
  BY <1>2 DEF Core, FinesFit, RowsAreRead
<1>4. JobHasRead' /\ ClaimIsThere'
  BY <1>2 DEF Core, JobHasRead, ClaimIsThere, RowsAreRead
<1>5. FineFollowsClaim' /\ AnswerKept'
  BY <1>2 DEF Core, FineFollowsClaim, AnswerKept, NotesKept, Keeps
<1>6. SilenceKnown'
  BY <1>2 DEF Core, SilenceKnown, NotesKept, Keeps, RowsAreRead
<1>7. QED
  BY <1>1, <1>3, <1>4, <1>5, <1>6 DEF Core

\* The job has read: 24 hours of a question that nobody answered.
LEMMA SelectKeeps ==
    ASSUME ShortAssumption, Shape, Core, JobSelect
    PROVE  (Shape /\ Core)'
<1> DEFINE w == [op |-> "fine", claim |-> db.claim]
<1>1. /\ work' = [work EXCEPT !["job"] = w] /\ UNCHANGED <<db, note>>
      /\ db.claim.open /\ db.claim.status = "awaiting_reply" /\ db.age > 0
  BY DEF JobSelect
<1>2. w \in WorkType /\ w.op = "fine" /\ w.claim = db.claim /\ w # Idle
  <2>1. db.claim \in ClaimType /\ "fine" \in Carrying \ {"done"}
    BY DEF Shape, DbType, Carrying
  <2>2. Idle.op = "idle"
    BY DEF Idle
  <2>3. w.op = "fine" /\ w.claim = db.claim
    OBVIOUS
  <2>4. w # Idle
    BY <2>2, <2>3
  <2>5. QED
    BY <2>1, <2>3, <2>4, WorkValues
<1> HIDE DEF w
<1>3. /\ work' \in [Workers -> WorkType] /\ work'["job"] = w
      /\ \A x \in Workers : x # "job" => work'[x] = work[x]
  BY <1>1, <1>2 DEF Shape, Workers
<1>4. Shape'
  BY <1>1, <1>3 DEF Shape
<1>5. FinesFit'
  <2>1. \A x \in Workers : Loaded(x)' => work'[x].claim.applied <= Taken(db)
    BY <1>2, <1>3 DEF Core, FinesFit, Loaded
  <2>2. QED
    BY <1>1, <2>1 DEF Core, FinesFit, Taken, Returned, Balance
<1>6. JobHasRead' /\ ClaimIsThere'
  <2>1. JobHasRead'
    BY <1>1, <1>2, <1>3 DEF JobHasRead
  <2>2. ClaimIsThere'
    BY <1>1, <1>2, <1>3 DEF Core, ClaimIsThere, Taken, Loaded
  <2>3. QED
    BY <2>1, <2>2
<1>7. FineFollowsClaim' /\ AnswerKept'
  BY <1>1 DEF Core, FineFollowsClaim, AnswerKept, Taken, Returned
<1>8. SilenceKnown'
  BY <1>1, <1>2, <1>3 DEF Core, SilenceKnown, Taken
<1>9. QED
  BY <1>4, <1>5, <1>6, <1>7, <1>8 DEF Core

-----------------------------------------------------------------------------
(* The steps that write the claim                                          *)

\* One row in flight fewer, and no other one changes.
RowsFall ==
    /\ work' \in [Workers -> WorkType]
    /\ \A x \in Workers : Loaded(x)' => Loaded(x) /\ work'[x].claim = work[x].claim
    /\ work'["job"] \in {work["job"], Idle}

LEMMA Falling ==
    ASSUME Shape, NEW x \in Workers, work' = [work EXCEPT ![x] = Idle] \/ UNCHANGED work
    PROVE  RowsFall
<1>1. work \in [Workers -> WorkType] /\ Idle \in WorkType /\ Idle.op \notin Carrying /\ "job" \in Workers
  BY DEF Shape, WorkType, Idle, Carrying, Workers
<1>2. QED
  BY <1>1 DEF RowsFall, Loaded

\* The money side of every write but the job's: nothing is taken, and no more comes back than was.
LEMMA MoneyFits ==
    ASSUME Shape, Core, RowsFall, db' \in DbType, db'.points = db.points,
           db'.entry["short_reply"] >= db.entry["short_reply"],
           db'.entry["short_no_reply"] = db.entry["short_no_reply"],
           Returned(db') \in Returned(db) .. Taken(db),
           db'.claim.applied <= Taken(db)
    PROVE  FinesFit'
<1>1. Taken(db') = Taken(db)
  BY DEF Taken
<1>2. /\ db.points \in Int /\ \A s \in Reasons : db.entry[s] \in Int /\ db'.entry[s] \in Int
      /\ Reasons = {"short_reply", "short_no_reply", "short_no_reply_returned"}
  BY DEF Shape, DbType, Reasons
<1>3. Balance(db') >= 0
  BY <1>2 DEF Core, FinesFit, Balance, Returned, Taken
<1>4. \A x \in Workers : Loaded(x)' => work'[x].claim.applied <= Taken(db)
  BY DEF RowsFall, Core, FinesFit
<1>5. db'.entry["short_reply"] >= 0 /\ Returned(db') \in 0 .. Taken(db)
  BY <1>2 DEF Core, FinesFit, Returned, Taken
<1>6. QED
  BY <1>1, <1>3, <1>4, <1>5 DEF Core, FinesFit

LEMMA OpenKeeps ==
    ASSUME ShortAssumption, Shape, Core, NEW r \in Requests, OpenShortClaim(r)
    PROVE  (Shape /\ Core)'
<1> DEFINE loaded == work[r].claim
           fresh == work[r].op = "open fresh"
           new == IF fresh THEN StartedOver(loaded) ELSE Refreshed(loaded)
           first == [NoClaim EXCEPT !.open = TRUE]
<1>1. /\ r \in Workers /\ Loaded(r) /\ loaded \in ClaimType /\ loaded.applied <= Taken(db)
      /\ db \in DbType /\ db.claim \in ClaimType
      /\ Taken(db) \in Nat /\ Returned(db) \in Nat /\ Returned(db) <= Taken(db)
  <2>1. r \in Workers /\ Loaded(r)
    BY DEF OpenShortClaim, Loaded, Carrying, Workers
  <2>2. QED
    BY <2>1, LoadedClaim DEF Shape, DbType, Core, FinesFit, Fine
<1>2. RowsFall /\ (\A x \in Workers : x # r => work'[x] = work[x]) /\ work'["job"] = work["job"]
  <2>1. work' = [work EXCEPT ![r] = Idle] /\ r # "job" /\ "job" \in Workers
    BY DEF OpenShortClaim, ShortAssumption, Workers
  <2>2. QED
    BY <1>1, <2>1, Falling DEF Shape
<1>3. /\ NotesKept
      /\ loaded # db.claim => "stale row" \in note'.odd
      /\ loaded = db.claim /\ work[r].op = "open" /\ loaded.how # "open"
            => "stale row" \in note'.odd \/ "reopened" \in note'.odd
  <2>1. CASE loaded # db.claim
    BY <2>1, NotesOdd DEF OpenShortClaim, Oddities
  <2>2. CASE loaded = db.claim
    <3>1. note' = Odd("reopened", work[r].op = "open" /\ loaded.how # "open")
      BY <2>2 DEF OpenShortClaim
    <3>2. "reopened" \in Oddities /\ (work[r].op = "open" /\ loaded.how # "open") \in BOOLEAN
      BY DEF Oddities
    <3>3. QED
      BY <2>2, <3>1, <3>2, NotesOdd
  <2>3. QED
    BY <2>1, <2>2
<1>4. /\ new \in ClaimType /\ new.open = loaded.open /\ new.how = "open"
      /\ new.applied \in {loaded.applied, 0}
      /\ ~fresh => /\ new.applied = loaded.applied /\ new.returned = loaded.returned
                   /\ new.status = loaded.status /\ new.replied = loaded.replied
      /\ fresh => /\ new.status = "awaiting_reply" /\ ~new.replied /\ ~new.returned
                  /\ new.applied = IF loaded.returned \/ loaded.applied = 0 THEN 0 ELSE loaded.applied
  <2>1. CASE fresh
    <3>1. new = StartedOver(loaded)
      BY <2>1
    <3>2. loaded.open = new.open /\ new.applied \in {loaded.applied, 0}
      BY ONLY <1>1, <3>1, Rounds
    <3>3. QED
      BY ONLY <1>1, <2>1, <3>1, <3>2, Rounds
  <2>2. CASE ~fresh
    <3>1. new = Refreshed(loaded)
      BY <2>2
    <3>2. QED
      BY ONLY <1>1, <2>2, <3>1, Rounds
  <2>3. QED
    BY ONLY <2>1, <2>2
<1>5. first \in ClaimType /\ first.open /\ first.applied = 0 /\ ~first.returned /\ ~first.replied
         /\ first.status = "awaiting_reply" /\ first.how = "open"
  BY FirstClaim
<1> HIDE DEF new, first
<1>6. /\ db' \in DbType /\ db'.points = db.points /\ db'.entry = db.entry
      /\ \/ loaded.open /\ db'.claim = Flushed(db.claim, loaded, new) /\ db'.age = (IF fresh THEN 0 ELSE db.age)
         \/ ~loaded.open /\ ~db.claim.open /\ db'.claim = first /\ db'.age = 0
         \/ ~loaded.open /\ db.claim.open /\ db'.claim = db.claim /\ db'.age = db.age
  <2>1. Flushed(db.claim, loaded, new) \in ClaimType
    BY ONLY <1>1, <1>4, Flushing
  <2> DEFINE age == IF fresh THEN 0 ELSE db.age
  <2>2. age \in Ages /\ 0 \in Ages
    <3>1. db.age \in Ages /\ 0 \in Ages
      BY <1>1 DEF DbType, Ages
    <3>2. age \in {0, db.age}
      OBVIOUS
    <3> HIDE DEF age
    <3>3. QED
      BY ONLY <3>1, <3>2
  <2> HIDE DEF age
  <2>3. db \in DbType /\ first \in ClaimType /\ age \in Ages /\ 0 \in Ages
    BY ONLY <1>1, <1>5, <2>2
  <2>4. CASE loaded.open
    <3>1. db' = Written(db, Flushed(db.claim, loaded, new), age)
      BY <2>4 DEF OpenShortClaim, new, age, Written
    <3>2. /\ db' \in DbType /\ db'.points = db.points /\ db'.entry = db.entry
          /\ db'.claim = Flushed(db.claim, loaded, new) /\ db'.age = age
      BY ONLY <2>1, <2>3, <3>1, ClaimWritten
    <3>3. QED
      BY ONLY <2>4, <3>2 DEF age
  <2>5. CASE ~loaded.open /\ ~db.claim.open
    <3>1. db' = Written(db, first, 0)
      BY <2>5 DEF OpenShortClaim, first, Written
    <3>2. /\ db' \in DbType /\ db'.points = db.points /\ db'.entry = db.entry
          /\ db'.claim = first /\ db'.age = 0
      BY ONLY <2>3, <3>1, ClaimWritten
    <3>3. QED
      BY ONLY <2>5, <3>2
  <2>6. CASE ~loaded.open /\ db.claim.open
    BY <1>1, <2>6 DEF OpenShortClaim
  <2>7. QED
    BY ONLY <2>4, <2>5, <2>6
<1>7. /\ Taken(db') = Taken(db) /\ Returned(db') = Returned(db)
      /\ db'.claim \in ClaimType /\ db'.claim.applied <= Taken(db) /\ db'.claim.open
  <2>1. Taken(db') = Taken(db) /\ Returned(db') = Returned(db)
    BY <1>6 DEF Taken, Returned
  <2>2. db.claim.applied <= Taken(db)
    BY DEF Core, FinesFit
  <2>3. ASSUME loaded.open, db'.claim = Flushed(db.claim, loaded, new)
        PROVE  db'.claim.applied <= Taken(db) /\ db'.claim.open
    <3>a. db.claim \in ClaimType /\ loaded \in ClaimType /\ new \in ClaimType
      BY ONLY <1>1, <1>4
    <3> HIDE DEF loaded
    <3>1. /\ Flushed(db.claim, loaded, new).open = IF new.open # loaded.open THEN new.open ELSE db.claim.open
          /\ Flushed(db.claim, loaded, new).applied
                = IF new.applied # loaded.applied THEN new.applied ELSE db.claim.applied
      BY ONLY <3>a, Flushing
    <3>2. db.claim.open
      BY <1>1, <2>3 DEF Core, ClaimIsThere, loaded
    <3>3. new.applied # loaded.applied => new.applied = 0
      BY ONLY <1>4
    <3>4. db'.claim.open
      BY ONLY <1>4, <2>3, <3>1, <3>2
    <3>5. db'.claim.applied \in {0, db.claim.applied}
      BY ONLY <2>3, <3>1, <3>3
    <3>6. QED
      BY ONLY <1>1, <2>2, <3>4, <3>5
  <2>4. ASSUME db'.claim = first
        PROVE  db'.claim.applied <= Taken(db) /\ db'.claim.open
    BY ONLY <1>1, <1>5, <2>4
  <2>5. db'.claim \in ClaimType
    BY <1>6 DEF DbType
  <2>6. ASSUME db.claim.open, db'.claim = db.claim
        PROVE  db'.claim.applied <= Taken(db) /\ db'.claim.open
    BY ONLY <2>2, <2>6
  <2>7. QED
    BY ONLY <1>6, <2>1, <2>3, <2>4, <2>5, <2>6
<1>8. Shape' /\ FinesFit' /\ ClaimIsThere'
  <2>1. Shape'
    BY <1>2, <1>3, <1>6 DEF Shape, RowsFall, NotesKept
  <2>2. FinesFit'
    <3>1. /\ db'.entry["short_reply"] >= db.entry["short_reply"]
          /\ Returned(db') \in Returned(db) .. Taken(db)
      <4>1. db.entry["short_reply"] \in Int
        BY <1>1 DEF DbType, Reasons
      <4>2. db'.entry = db.entry /\ Returned(db') = Returned(db)
        BY <1>6, <1>7
      <4>3. Taken(db) \in Nat /\ Returned(db) \in Nat /\ Returned(db) <= Taken(db)
        BY <1>1
      <4>4. QED
        BY ONLY <4>1, <4>2, <4>3
    <3>2. QED
      BY <1>2, <1>6, <1>7, <3>1, MoneyFits
  <2>3. ClaimIsThere'
    BY <1>7 DEF ClaimIsThere
  <2>4. QED
    BY <2>1, <2>2, <2>3
<1>9. JobHasRead'
  BY <1>2 DEF Core, JobHasRead
\* From here on the row was not stale.
<1>10. ASSUME Straight(note')
       PROVE  /\ loaded = db.claim
              /\ \/ db'.claim = new /\ db'.age = (IF fresh THEN 0 ELSE db.age) /\ db.claim.open
                 \/ db'.claim = first /\ db'.age = 0 /\ Taken(db) = 0
  <2>1. loaded = db.claim
    BY <1>3, <1>10 DEF Straight
  <2>2. Flushed(db.claim, db.claim, new) = new
    BY <1>1, <1>4, Flushing
  <2>3. ~db.claim.open => Taken(db) = 0
    BY DEF Core, ClaimIsThere
  <2>4. QED
    BY <1>6, <2>1, <2>2, <2>3
<1>11. FineFollowsClaim'
  <2>1. SUFFICES ASSUME InOrder(note')
                 PROVE  /\ db'.claim.applied > 0 /\ ~db'.claim.returned => db'.claim.applied = Taken(db) /\ Returned(db) = 0
                        /\ db'.claim.applied = 0 \/ db'.claim.returned => Taken(db) = Returned(db)
                        /\ db'.claim.how # "open" => db'.claim.applied = 0 \/ db'.claim.returned
                        /\ db'.claim.returned => Taken(db) > 0
    BY <1>7 DEF FineFollowsClaim
  <2>2. InOrder(note) /\ Straight(note')
    BY <1>3, <2>1 DEF NotesKept, Keeps, InOrder, Straight
  <2>3. CASE db'.claim = first /\ Taken(db) = 0
    BY <1>1, <1>5, <2>3
  <2>4. CASE db'.claim = new /\ loaded = db.claim
    <3>1. loaded.applied \in Nat /\ loaded.returned \in BOOLEAN
      BY <1>1 DEF ClaimType, Fine
    <3>2. /\ loaded.applied > 0 /\ ~loaded.returned => loaded.applied = Taken(db) /\ Returned(db) = 0
          /\ loaded.applied = 0 \/ loaded.returned => Taken(db) = Returned(db)
          /\ loaded.returned => Taken(db) > 0
      BY <2>2, <2>4 DEF Core, FineFollowsClaim
    <3>3. CASE fresh
      <4>1. /\ db'.claim.how = "open" /\ ~db'.claim.returned
            /\ db'.claim.applied = IF loaded.returned \/ loaded.applied = 0 THEN 0 ELSE loaded.applied
        BY <1>4, <2>4, <3>3
      <4>2. QED
        BY <3>1, <3>2, <4>1
    <3>4. CASE ~fresh
      <4>1. /\ db'.claim.how = "open" /\ db'.claim.returned = loaded.returned
            /\ db'.claim.applied = loaded.applied
        BY <1>4, <2>4, <3>4
      <4>2. QED
        BY <3>1, <3>2, <4>1
    <3>5. QED
      BY <3>3, <3>4
  <2>5. QED
    BY <1>10, <2>2, <2>3, <2>4
<1>12. AnswerKept'
  <2>1. SUFFICES ASSUME Straight(note')
                 PROVE  db'.claim.replied <=> db'.claim.status \in {"confirmed", "disputed"}
    BY DEF AnswerKept
  <2>2. Straight(note)
    BY <1>3, <2>1 DEF NotesKept, Keeps
  <2>3. QED
    BY <1>4, <1>5, <1>10, <2>1, <2>2 DEF Core, AnswerKept
<1>13. SilenceKnown'
  <2>1. SUFFICES ASSUME Known(note')
                 PROVE  /\ Taken(db) > 0 => note'.silent
                        /\ db'.age > 0 /\ db'.claim.open /\ db'.claim.how = "open"
                              /\ db'.claim.status = "awaiting_reply" => note'.silent
                        /\ work'["job"] # Idle /\ work'["job"].claim.how = "open" => note'.silent
    BY <1>7 DEF SilenceKnown
  <2>2. Known(note) /\ Straight(note') /\ note'.silent = note.silent /\ "reopened" \notin note'.odd
    BY <1>3, <2>1 DEF NotesKept, Keeps, Known, Straight
  <2>3. ASSUME db'.age > 0, db'.claim.status = "awaiting_reply"
        PROVE  note.silent
    <3>1. ~fresh /\ db'.claim = new /\ db'.age = db.age /\ db.claim.open /\ loaded = db.claim
      <4>1. /\ loaded = db.claim
            /\ \/ db'.claim = new /\ db'.age = (IF fresh THEN 0 ELSE db.age) /\ db.claim.open
               \/ db'.claim = first /\ db'.age = 0
        BY <1>10, <2>2
      <4>2. ~(0 > 0)
        OBVIOUS
      <4>3. QED
        BY <2>3, <4>1, <4>2
    <3>2. work[r].op = "open"
      BY <3>1 DEF OpenShortClaim
    <3>3. loaded.how = "open"
      BY <1>3, <2>2, <3>1, <3>2 DEF Straight
    <3>4. QED
      BY <1>4, <2>2, <2>3, <3>1, <3>3 DEF Core, SilenceKnown
  <2>4. QED
    BY <1>2, <2>2, <2>3 DEF Core, SilenceKnown
<1>14. QED
  BY <1>8, <1>9, <1>11, <1>12, <1>13 DEF Core


\* A settlement by a loaded row, of the claim as it is or with the venue's decision written to it.
LEMMA Settling ==
    ASSUME ShortAssumption, Shape, Core, NEW r \in Requests, Loaded(r),
           NEW d \in DbType, NEW how \in {"paid", "waived"},
           d.claim = [db.claim EXCEPT !.decision = d.claim.decision],
           d.entry = db.entry, d.points = db.points, d.age = db.age,
           db' = Resolved(d, work[r].claim, how),
           note' = Odd("stale row", work[r].claim # db.claim),
           work' = [work EXCEPT ![r] = Idle]
    PROVE  (Shape /\ Core)'
<1> DEFINE loaded == work[r].claim
<1>1. /\ r \in Workers /\ r # "job" /\ loaded \in ClaimType /\ loaded.applied \in Nat /\ loaded.applied <= Taken(db)
      /\ db.claim \in ClaimType
      /\ Taken(db) \in Nat /\ Returned(db) \in Nat /\ Returned(db) <= Taken(db)
  <2>1. r \in Workers /\ r # "job"
    BY DEF Workers, ShortAssumption
  <2>2. loaded \in ClaimType
    BY <2>1, LoadedClaim
  <2>3. db.claim \in ClaimType
    BY DEF Shape, DbType
  <2>4. loaded.applied \in Nat
    <3>1. loaded.applied \in 0 .. Fine /\ Fine = 4
      BY ONLY <2>2 DEF ClaimType, Fine
    <3>2. QED
      BY ONLY <3>1
  <2>5. loaded.applied <= Taken(db)
    BY <2>1 DEF Core, FinesFit
  <2>6. Taken(db) \in Nat /\ Returned(db) \in Nat /\ Returned(db) <= Taken(db)
    <3>1. Taken(db) \in 0 .. Fine /\ Returned(db) \in 0 .. Taken(db) /\ Fine = 4
      BY DEF Core, FinesFit, Fine
    <3>2. QED
      BY ONLY <3>1
  <2>7. QED
    BY <2>1, <2>2, <2>3, <2>4, <2>5, <2>6
<1>2. RowsFall /\ work'["job"] = work["job"]
  <2>1. work'["job"] = work["job"]
    BY <1>1 DEF Shape, Workers
  <2>2. QED
    BY <1>1, <2>1, Falling
<1>3. NotesKept /\ (loaded # db.claim => "stale row" \in note'.odd)
  BY NotesOdd DEF Oddities
<1>4. /\ d.claim.open = db.claim.open /\ d.claim.status = db.claim.status /\ d.claim.replied = db.claim.replied
      /\ d.claim.applied = db.claim.applied /\ d.claim.returned = db.claim.returned /\ d.claim.how = db.claim.how
  BY <1>1 DEF ClaimType
<1>5. Taken(d) = Taken(db) /\ Returned(d) = Returned(db)
  BY DEF Taken, Returned
<1> HIDE DEF loaded
<1>5a. d \in DbType /\ how \in {"paid", "waived"} /\ loaded \in ClaimType
  BY <1>1
<1> DEFINE e == Resolved(d, loaded, how)
<1>5b. db' = e
  BY DEF loaded
<1>5c. /\ e \in DbType /\ e.age = d.age /\ e.points = d.points
       /\ e.claim.open = d.claim.open /\ e.claim.applied \in {d.claim.applied, loaded.applied}
       /\ \A x \in Reasons : x # "short_no_reply_returned" => e.entry[x] = d.entry[x]
       /\ \/ Returned(e) = Returned(d)
          \/ Returned(d) = 0 /\ Returned(e) = loaded.applied
       /\ d.claim.open /\ d.claim = [loaded EXCEPT !.decision = d.claim.decision] /\ loaded.how = "open"
             => /\ e.claim.how = how /\ e.claim.applied = loaded.applied
                /\ e.claim.status = loaded.status /\ e.claim.replied = loaded.replied
                /\ e.claim.returned = (loaded.returned \/ loaded.applied > 0)
                /\ loaded.applied > 0 /\ ~loaded.returned /\ Returned(d) = 0 => Returned(e) = loaded.applied
                /\ loaded.applied = 0 \/ loaded.returned => Returned(e) = Returned(d)
  BY ONLY <1>5a, Resolving
<1> HIDE DEF e
<1>6. /\ db' \in DbType /\ db'.age = d.age /\ db'.points = d.points
      /\ db'.claim.open = d.claim.open /\ db'.claim.applied \in {d.claim.applied, loaded.applied}
      /\ \A x \in Reasons : x # "short_no_reply_returned" => db'.entry[x] = d.entry[x]
      /\ \/ Returned(db') = Returned(d)
         \/ Returned(d) = 0 /\ Returned(db') = loaded.applied
  BY ONLY <1>5b, <1>5c
<1>7. Taken(db') = Taken(db)
  BY <1>5, <1>6 DEF Taken, Reasons
<1>8. Returned(db') \in Returned(db) .. Taken(db) /\ db'.claim.applied <= Taken(db)
  <2>1. db.claim.applied <= Taken(db)
    BY DEF Core, FinesFit
  <2>2. QED
    BY ONLY <1>1, <1>4, <1>5, <1>6, <2>1
<1>9. Shape' /\ FinesFit' /\ JobHasRead' /\ ClaimIsThere'
  <2>1. Shape'
    BY <1>2, <1>3, <1>6 DEF Shape, RowsFall, NotesKept
  <2>2. FinesFit'
    <3>1. /\ db'.entry["short_no_reply"] = db.entry["short_no_reply"]
          /\ db'.entry["short_reply"] = db.entry["short_reply"]
      BY <1>6 DEF Reasons
    <3>2. db.entry["short_reply"] \in Int
      BY DEF Shape, DbType, Reasons
    <3>3. db'.entry["short_reply"] >= db.entry["short_reply"]
      BY ONLY <3>1, <3>2
    <3>4. db'.points = db.points
      BY ONLY <1>6, d.points = db.points
    <3>5. QED
      BY <1>2, <1>6, <1>8, <3>1, <3>3, <3>4, MoneyFits
  <2>3. JobHasRead'
    BY <1>2 DEF Core, JobHasRead
  <2>4. ClaimIsThere'
    BY <1>2, <1>4, <1>6, <1>7 DEF Core, ClaimIsThere, RowsFall
  <2>5. QED
    BY <2>1, <2>2, <2>3, <2>4
<1>10. ASSUME Straight(note')
       PROVE  /\ loaded = db.claim
              /\ \/ /\ loaded.open /\ loaded.how = "open"
                    /\ db'.claim.how = how /\ db'.claim.applied = loaded.applied
                    /\ db'.claim.status = loaded.status /\ db'.claim.replied = loaded.replied
                    /\ db'.claim.returned = (loaded.returned \/ loaded.applied > 0)
                    /\ loaded.applied > 0 /\ ~loaded.returned /\ Returned(db) = 0
                          => Returned(db') = loaded.applied
                    /\ loaded.applied = 0 \/ loaded.returned => Returned(db') = Returned(db)
                 \/ db' = d
  <2>1. loaded = db.claim
    BY <1>3, <1>10 DEF Straight
  <2>2. CASE ~loaded.open \/ loaded.how # "open"
    BY <2>1, <2>2 DEF Resolved, loaded
  <2>3. CASE loaded.open /\ loaded.how = "open"
    <3>1. d.claim = [loaded EXCEPT !.decision = d.claim.decision] /\ d.claim.open
      BY <1>4, <2>1, <2>3
    <3>2. /\ db'.claim.how = how /\ db'.claim.applied = loaded.applied
          /\ db'.claim.status = loaded.status /\ db'.claim.replied = loaded.replied
          /\ db'.claim.returned = (loaded.returned \/ loaded.applied > 0)
          /\ loaded.applied > 0 /\ ~loaded.returned /\ Returned(d) = 0 => Returned(db') = loaded.applied
          /\ loaded.applied = 0 \/ loaded.returned => Returned(db') = Returned(d)
      BY ONLY <1>5b, <1>5c, <2>3, <3>1
    <3>3. QED
      BY ONLY <1>5, <2>1, <2>3, <3>2
  <2>4. QED
    BY <2>2, <2>3
<1>11. FineFollowsClaim'
  <2>1. SUFFICES ASSUME InOrder(note')
                 PROVE  /\ db'.claim.applied > 0 /\ ~db'.claim.returned
                              => db'.claim.applied = Taken(db) /\ Returned(db') = 0
                        /\ db'.claim.applied = 0 \/ db'.claim.returned => Taken(db) = Returned(db')
                        /\ db'.claim.how # "open" => db'.claim.applied = 0 \/ db'.claim.returned
                        /\ db'.claim.returned => Taken(db) > 0
    BY <1>7 DEF FineFollowsClaim
  <2>2. InOrder(note) /\ Straight(note')
    BY <1>3, <2>1 DEF NotesKept, Keeps, InOrder, Straight
  <2>3. /\ db.claim.applied > 0 /\ ~db.claim.returned => db.claim.applied = Taken(db) /\ Returned(db) = 0
        /\ db.claim.applied = 0 \/ db.claim.returned => Taken(db) = Returned(db)
        /\ db.claim.how # "open" => db.claim.applied = 0 \/ db.claim.returned
        /\ db.claim.returned => Taken(db) > 0
    BY <2>2 DEF Core, FineFollowsClaim
  <2>4. CASE db' = d
    BY ONLY <1>4, <1>5, <2>3, <2>4
  <2>5. CASE ~(db' = d)
    <3>1. /\ loaded = db.claim /\ db'.claim.applied = loaded.applied
          /\ db'.claim.returned = (loaded.returned \/ loaded.applied > 0)
          /\ loaded.applied > 0 /\ ~loaded.returned /\ Returned(db) = 0 => Returned(db') = loaded.applied
          /\ loaded.applied = 0 \/ loaded.returned => Returned(db') = Returned(db)
      BY ONLY <1>10, <2>2, <2>5
    <3>2. loaded.returned \in BOOLEAN
      BY <1>1 DEF ClaimType
    <3>3. CASE loaded.applied > 0 /\ ~loaded.returned
      <4>1. db'.claim.returned /\ Taken(db) = loaded.applied /\ Returned(db') = loaded.applied
        BY ONLY <2>3, <3>1, <3>3
      <4>2. Taken(db) > 0
        BY ONLY <3>3, <4>1
      <4>3. QED
        BY ONLY <4>1, <4>2
    <3>4. CASE ~(loaded.applied > 0 /\ ~loaded.returned)
      <4>1. loaded.applied = 0 \/ loaded.returned
        BY ONLY <1>1, <3>2, <3>4
      <4>2. Returned(db') = Returned(db) /\ Taken(db) = Returned(db')
        BY ONLY <2>3, <3>1, <4>1
      <4>3. ~loaded.returned => loaded.applied = 0
        BY ONLY <4>1
      <4>4. db'.claim.returned => loaded.returned
        <5>1. SUFFICES ASSUME ~loaded.returned
                       PROVE  ~db'.claim.returned
          OBVIOUS
        <5>2. ~(loaded.applied > 0)
          BY ONLY <4>3, <5>1
        <5>3. QED
          BY ONLY <3>1, <5>1, <5>2, Zenon
      <4>5. db'.claim.returned => Taken(db) > 0
        BY ONLY <2>3, <3>1, <4>4
      <4>6. db'.claim.applied = 0 \/ db'.claim.returned
        BY ONLY <3>1, <4>1
      <4>7. ~(db'.claim.applied > 0 /\ ~db'.claim.returned)
        BY ONLY <4>6
      <4>8. QED
        BY ONLY <4>2, <4>5, <4>6, <4>7
    <3>5. QED
      BY ONLY <3>3, <3>4
  <2>6. QED
    BY <2>4, <2>5
<1>12. AnswerKept'
  <2>1. SUFFICES ASSUME Straight(note')
                 PROVE  db'.claim.replied <=> db'.claim.status \in {"confirmed", "disputed"}
    BY DEF AnswerKept
  <2>2. Straight(note)
    BY <1>3, <2>1 DEF NotesKept, Keeps
  <2>3. db'.claim.replied = db.claim.replied /\ db'.claim.status = db.claim.status
    BY ONLY <1>4, <1>10, <2>1
  <2>4. QED
    BY <2>2, <2>3 DEF Core, AnswerKept
<1>13. SilenceKnown'
  <2>1. SUFFICES ASSUME Known(note')
                 PROVE  /\ Taken(db) > 0 => note'.silent
                        /\ db'.age > 0 /\ db'.claim.open /\ db'.claim.how = "open"
                              /\ db'.claim.status = "awaiting_reply" => note'.silent
                        /\ work'["job"] # Idle /\ work'["job"].claim.how = "open" => note'.silent
    BY <1>7 DEF SilenceKnown
  <2>2. Known(note) /\ Straight(note') /\ note'.silent = note.silent
    BY <1>3, <2>1 DEF NotesKept, Keeps, Known, Straight
  <2>3. db'.claim.how = "open" => /\ db'.claim.open = db.claim.open /\ db.claim.how = "open"
                                  /\ db'.claim.status = db.claim.status /\ db'.age = db.age
    <3>1. how # "open"
      OBVIOUS
    <3>2. QED
      BY ONLY <1>4, <1>6, <1>10, <2>2, <3>1, d.age = db.age
  <2>4. QED
    BY <1>2, <2>2, <2>3 DEF Core, SilenceKnown
<1>14. QED
  BY <1>9, <1>11, <1>12, <1>13 DEF Core

LEMMA ResolveKeeps ==
    ASSUME ShortAssumption, Shape, Core, NEW r \in Requests, ResolvePaid(r)
    PROVE  (Shape /\ Core)'
<1>1. db \in DbType /\ Loaded(r)
  BY DEF Shape, ResolvePaid, Loaded, Carrying
<1>2. db.claim = [db.claim EXCEPT !.decision = db.claim.decision]
  BY <1>1 DEF DbType, ClaimType
<1>3. /\ db' = Resolved(db, work[r].claim, "paid") /\ note' = Odd("stale row", work[r].claim # db.claim)
      /\ work' = [work EXCEPT ![r] = Idle]
  BY DEF ResolvePaid
<1>4. QED
  BY <1>1, <1>2, <1>3, Settling

LEMMA WaiveKeeps ==
    ASSUME ShortAssumption, Shape, Core, NEW r \in Requests, DecideWaive(r)
    PROVE  (Shape /\ Core)'
<1> DEFINE d == [db EXCEPT !.claim.decision = "waive", !.due = 0]
<1>1. db \in DbType /\ Loaded(r) /\ 0 \in 0 .. Price
  <2>1. db \in DbType /\ Loaded(r)
    BY DEF Shape, DecideWaive, Loaded, Carrying
  <2>2. Price \in Nat
    BY DEF ShortAssumption
  <2>3. 0 \in 0 .. Price
    BY ONLY <2>2
  <2>4. QED
    BY <2>1, <2>3
<1>2. /\ d \in DbType /\ d.entry = db.entry /\ d.points = db.points /\ d.age = db.age
      /\ d.claim = [db.claim EXCEPT !.decision = d.claim.decision]
  BY <1>1 DEF DbType, ClaimType
<1>3. /\ db' = Resolved(d, work[r].claim, "waived") /\ note' = Odd("stale row", work[r].claim # db.claim)
      /\ work' = [work EXCEPT ![r] = Idle]
  BY DEF DecideWaive
<1> HIDE DEF d
<1>4. QED
  BY <1>1, <1>2, <1>3, Settling

\* The owner's decision to collect is a column nothing here depends on.
LEMMA CollectKeeps ==
    ASSUME ShortAssumption, Shape, Core, NEW r \in Requests, DecideCollect(r)
    PROVE  (Shape /\ Core)'
<1>1. /\ db \in DbType /\ db' = [db EXCEPT !.claim.decision = "collect"]
      /\ work' = [work EXCEPT ![r] = Idle] /\ note' = note
  BY DEF Shape, DecideCollect
<1>2. /\ db' \in DbType /\ db'.entry = db.entry /\ db'.points = db.points /\ db'.age = db.age
      /\ db'.claim = [db.claim EXCEPT !.decision = "collect"]
  BY <1>1 DEF DbType, ClaimType
<1>3. /\ db'.claim.open = db.claim.open /\ db'.claim.status = db.claim.status
      /\ db'.claim.replied = db.claim.replied /\ db'.claim.applied = db.claim.applied
      /\ db'.claim.returned = db.claim.returned /\ db'.claim.how = db.claim.how
  BY <1>1, <1>2 DEF DbType, ClaimType
<1>4. NotesKept
  BY <1>1, Plain
<1>5. RowsFall /\ work'["job"] = work["job"]
  <2>1. r \in Workers /\ r # "job" /\ "job" \in Workers
    BY DEF Workers, ShortAssumption
  <2>2. QED
    BY <1>1, <2>1, Falling DEF Shape
<1>6. Taken(db') = Taken(db) /\ Returned(db') = Returned(db) /\ Balance(db') = Balance(db)
  BY <1>2 DEF Taken, Returned, Balance
<1>7. Shape'
  BY <1>2, <1>4, <1>5 DEF Shape, NotesKept, RowsFall
<1>8. FinesFit'
  BY <1>2, <1>3, <1>5, <1>6 DEF Core, FinesFit, RowsFall
<1>9. JobHasRead' /\ ClaimIsThere'
  BY <1>3, <1>5, <1>6 DEF Core, JobHasRead, ClaimIsThere, RowsFall
<1>10. FineFollowsClaim' /\ AnswerKept'
  BY <1>1, <1>3, <1>6 DEF Core, FineFollowsClaim, AnswerKept
<1>11. SilenceKnown'
  BY <1>1, <1>2, <1>3, <1>5, <1>6 DEF Core, SilenceKnown
<1>12. QED
  BY <1>7, <1>8, <1>9, <1>10, <1>11 DEF Core

\* An answer comes while the question is open; a bonus adds to the points.
LEMMA ReplyKeeps ==
    ASSUME ShortAssumption, Shape, Core, ReplyShort
    PROVE  (Shape /\ Core)'
<1>1. PICK answer \in {"confirmed", "disputed"} :
        db' = IF db.age < 2 THEN Added([db EXCEPT !.claim.replied = TRUE, !.claim.status = answer], Bonus, "short_reply")
                            ELSE [db EXCEPT !.claim.replied = TRUE, !.claim.status = answer]
  BY DEF ReplyShort
<1> DEFINE d == [db EXCEPT !.claim.replied = TRUE, !.claim.status = answer]
           e == Added(d, Bonus, "short_reply")
<1>2. /\ db \in DbType /\ work' = work /\ note' = note
      /\ db.claim.open /\ db.claim.how = "open" /\ db.claim.status \in {"awaiting_reply", "no_reply"}
  BY DEF Shape, ReplyShort, CanReplyShort
<1>3. /\ d \in DbType /\ d.entry = db.entry /\ d.points = db.points /\ d.age = db.age
      /\ d.claim = [db.claim EXCEPT !.replied = TRUE, !.status = answer]
  BY <1>2 DEF DbType, ClaimType
<1>4. /\ d.claim.open = db.claim.open /\ d.claim.status = answer
      /\ d.claim.replied /\ d.claim.applied = db.claim.applied
      /\ d.claim.returned = db.claim.returned /\ d.claim.how = db.claim.how
  BY <1>2, <1>3 DEF DbType, ClaimType
<1> HIDE DEF d
<1>5. /\ e \in DbType /\ e.claim = d.claim /\ e.age = d.age /\ e.points = d.points
      /\ e.entry["short_reply"] = d.entry["short_reply"] + AddPoints(d, Bonus, "short_reply")
      /\ \A x \in Reasons : x # "short_reply" => e.entry[x] = d.entry[x]
  BY <1>3, Adding DEF Bonus, Reasons
<1>6. AddPoints(d, Bonus, "short_reply") \in {0, 1}
  BY DEF AddPoints, Bonus
<1> HIDE DEF e
<1>7. /\ db' \in DbType /\ db'.claim = d.claim /\ db'.age = db.age /\ db'.points = db.points
      /\ db'.entry["short_reply"] >= db.entry["short_reply"]
      /\ db'.entry["short_no_reply"] = db.entry["short_no_reply"]
      /\ db'.entry["short_no_reply_returned"] = db.entry["short_no_reply_returned"]
  <2>1. db.entry["short_reply"] \in Int
    BY <1>2 DEF DbType, Reasons
  <2>2. CASE db.age < 2
    <3>1. db' = e
      BY <1>1, <2>2 DEF d, e
    <3>2. /\ e.entry["short_no_reply"] = db.entry["short_no_reply"]
          /\ e.entry["short_no_reply_returned"] = db.entry["short_no_reply_returned"]
      BY <1>3, <1>5 DEF Reasons
    <3>3. e.entry["short_reply"] >= db.entry["short_reply"]
      BY <1>3, <1>5, <1>6, <2>1
    <3>4. QED
      BY <1>3, <1>5, <3>1, <3>2, <3>3
  <2>3. CASE ~(db.age < 2)
    <3>1. db' = d
      BY <1>1, <2>3 DEF d
    <3>2. QED
      BY <1>3, <2>1, <3>1
  <2>4. QED
    BY <2>2, <2>3
<1>8. NotesKept /\ RowsFall /\ work'["job"] = work["job"]
  <2>1. "job" \in Workers
    BY DEF Workers
  <2>2. QED
    BY <1>2, <2>1, Plain, Falling
<1>9. Taken(db') = Taken(db) /\ Returned(db') = Returned(db)
  BY <1>7 DEF Taken, Returned
<1>10. Shape'
  BY <1>7, <1>8 DEF Shape, NotesKept, RowsFall
<1>11. FinesFit'
  <2>1. Returned(db') \in Returned(db) .. Taken(db)
    <3>1. Taken(db) \in 0 .. Fine /\ Returned(db) \in 0 .. Taken(db) /\ Fine = 4
      BY DEF Core, FinesFit, Fine
    <3>2. QED
      BY ONLY <1>9, <3>1
  <2>2. db'.claim.applied <= Taken(db)
    BY <1>4, <1>7 DEF Core, FinesFit
  <2>3. QED
    BY <1>7, <1>8, <2>1, <2>2, MoneyFits
<1>12. JobHasRead' /\ ClaimIsThere'
  BY <1>2, <1>4, <1>7, <1>8, <1>9 DEF Core, JobHasRead, ClaimIsThere, RowsFall
<1>13. FineFollowsClaim' /\ AnswerKept'
  BY <1>2, <1>4, <1>7, <1>9 DEF Core, FineFollowsClaim, AnswerKept
<1>14. SilenceKnown'
  BY <1>2, <1>4, <1>7, <1>8, <1>9 DEF Core, SilenceKnown
<1>15. QED
  BY <1>10, <1>11, <1>12, <1>13, <1>14 DEF Core

\* When the 24 hours are over, a claim that still waits was not answered.
LEMMA PassKeeps ==
    ASSUME ShortAssumption, Shape, Core, Pass
    PROVE  (Shape /\ Core)'
<1>1. /\ db \in DbType /\ note \in NoteType /\ work' = work /\ db.age \in 0 .. 2 /\ db.age < 2
      /\ db' = [db EXCEPT !.age = @ + 1]
      /\ note' = [note EXCEPT !.silent = note.silent \/ (db.age = 0 /\ CanReplyShort(db.claim))]
  BY DEF Shape, DbType, Pass
<1>2. db.age + 1 \in 0 .. 2
  BY ONLY <1>1
<1>3. /\ db' \in DbType /\ db'.claim = db.claim /\ db'.entry = db.entry /\ db'.points = db.points
      /\ db'.age = db.age + 1
  BY <1>1, <1>2 DEF DbType
<1>4. /\ note' \in NoteType /\ note'.odd = note.odd /\ (note.silent => note'.silent)
      /\ db.age = 0 /\ CanReplyShort(db.claim) => note'.silent
  BY <1>1 DEF NoteType, CanReplyShort
<1>5. Taken(db') = Taken(db) /\ Returned(db') = Returned(db) /\ Balance(db') = Balance(db)
  BY <1>3 DEF Taken, Returned, Balance
<1>6. Shape'
  BY <1>1, <1>3, <1>4 DEF Shape
<1>7. FinesFit' /\ JobHasRead' /\ ClaimIsThere'
  BY <1>1, <1>3, <1>5 DEF Core, FinesFit, JobHasRead, ClaimIsThere, Loaded
<1>8. FineFollowsClaim' /\ AnswerKept'
  BY <1>3, <1>4, <1>5 DEF Core, FineFollowsClaim, AnswerKept, InOrder, Straight
<1>9. SilenceKnown'
  <2>1. SUFFICES ASSUME Known(note)
                 PROVE  /\ Taken(db) > 0 => note'.silent
                        /\ db.claim.open /\ db.claim.how = "open" /\ db.claim.status = "awaiting_reply" => note'.silent
                        /\ work["job"] # Idle /\ work["job"].claim.how = "open" => note'.silent
    BY <1>1, <1>3, <1>4, <1>5 DEF SilenceKnown, Known
  <2>2. ASSUME db.claim.open, db.claim.how = "open", db.claim.status = "awaiting_reply"
        PROVE  note'.silent
    <3>1. CASE db.age = 0
      <4>1. ~db.claim.replied
        BY <2>1, <2>2 DEF Core, AnswerKept, Known, Straight
      <4>2. QED
        BY <1>4, <2>2, <3>1, <4>1 DEF CanReplyShort
    <3>2. CASE db.age > 0
      BY <1>4, <2>1, <2>2, <3>2 DEF Core, SilenceKnown
    <3>3. QED
      BY <1>1, <3>1, <3>2
  <2>3. QED
    BY <1>4, <2>1, <2>2 DEF Core, SilenceKnown
<1>10. QED
  BY <1>6, <1>7, <1>8, <1>9 DEF Core

\* The job takes a fine by the row it read, from a booking that was not fined before.
LEMMA FineKeeps ==
    ASSUME ShortAssumption, Shape, Core, JobFine
    PROVE  (Shape /\ Core)'
<1> DEFINE loaded == work["job"].claim
           taken == -AddPoints(db, -Fine, "short_no_reply")
           new == [loaded EXCEPT !.status = "no_reply", !.applied = IF taken > @ THEN taken ELSE @]
           e == Added(db, -Fine, "short_no_reply")
           c == Flushed(db.claim, loaded, new)
<1>1. /\ "job" \in Workers /\ work["job"] # Idle /\ Loaded("job") /\ loaded.open /\ loaded.status = "awaiting_reply"
      /\ db \in DbType /\ db.claim \in ClaimType /\ loaded \in ClaimType
  <2>1. "job" \in Workers /\ work["job"] # Idle /\ db \in DbType /\ db.claim \in ClaimType
    BY DEF Workers, JobFine, Shape, DbType
  <2>2. work["job"].op = "fine" /\ loaded.open /\ loaded.status = "awaiting_reply"
    BY <2>1 DEF Core, JobHasRead
  <2>3. Loaded("job")
    BY <2>2 DEF Loaded, Carrying
  <2>4. QED
    BY <2>1, <2>2, <2>3, LoadedClaim
<1>2. /\ Taken(db) \in 0 .. Fine /\ Returned(db) \in 0 .. Taken(db) /\ Fine = 4
      /\ Balance(db) \in Nat /\ db.claim.applied <= Taken(db) /\ loaded.applied <= Taken(db)
      /\ db.entry["short_no_reply"] \in Int
  <2>1. Balance(db) \in Int /\ db.entry["short_no_reply"] \in Int
    BY <1>1 DEF Balance, DbType, Reasons
  <2>2. QED
    BY <1>1, <2>1 DEF Core, FinesFit, Fine
<1>3. taken \in 0 .. Fine /\ taken <= Balance(db) /\ (taken > 0 => Taken(db) = 0)
  <2>1. AddPoints(db, -Fine, "short_no_reply")
           = IF db.entry["short_no_reply"] # 0 THEN 0 ELSE IF 4 > Balance(db) THEN -Balance(db) ELSE -4
    BY <1>2 DEF AddPoints, Fine
  <2>2. CASE db.entry["short_no_reply"] # 0
    <3>1. taken = 0
      BY <2>1, <2>2
    <3> HIDE DEF taken
    <3>2. QED
      BY ONLY <1>2, <3>1
  <2>3. CASE db.entry["short_no_reply"] = 0
    <3>1. Taken(db) = 0
      <4>1. \A n \in Int : n >= 0 /\ n <= 0 => -n = 0
        OBVIOUS
      <4>2. QED
        BY <1>2, <2>3, <4>1 DEF Taken
    <3>2. CASE 4 > Balance(db)
      <4>1. taken = -(-Balance(db))
        BY <2>1, <2>3, <3>2
      <4> HIDE DEF taken
      <4>2. QED
        BY ONLY <1>2, <3>1, <3>2, <4>1
    <3>3. CASE ~(4 > Balance(db))
      <4>1. \A n \in Int : n + 4 <= 0 /\ n + 4 >= 0 => -n = 4
        OBVIOUS
      <4>2. AddPoints(db, -Fine, "short_no_reply") = -4 /\ -4 \in Int
        BY <2>1, <2>3, <3>3
      <4>3. taken = 4
        BY ONLY <4>1, <4>2
      <4> HIDE DEF taken
      <4>4. QED
        BY ONLY <1>2, <3>1, <3>3, <4>3
    <3>4. QED
      BY <3>2, <3>3
  <2>4. QED
    BY <2>2, <2>3
<1>4. /\ e \in DbType /\ e.claim = db.claim /\ e.age = db.age /\ e.points = db.points
      /\ e.entry["short_no_reply"] = db.entry["short_no_reply"] - taken
      /\ \A x \in Reasons : x # "short_no_reply" => e.entry[x] = db.entry[x]
  <2>1. -Fine \in Int /\ "short_no_reply" \in Reasons
    BY DEF Fine, Reasons
  <2>2. /\ e \in DbType /\ e.claim = db.claim /\ e.age = db.age /\ e.points = db.points
        /\ e.entry["short_no_reply"] = db.entry["short_no_reply"] + AddPoints(db, -Fine, "short_no_reply")
        /\ \A x \in Reasons : x # "short_no_reply" => e.entry[x] = db.entry[x]
    BY ONLY <1>1, <2>1, Adding
  <2>3. AddPoints(db, -Fine, "short_no_reply") \in Int
    BY <1>2 DEF AddPoints, Fine
  <2>4. QED
    BY <1>2, <2>2, <2>3
<1>5. /\ new \in ClaimType /\ new.open = loaded.open /\ new.status = "no_reply" /\ new.replied = loaded.replied
      /\ new.returned = loaded.returned /\ new.how = loaded.how
      /\ new.applied = (IF taken > loaded.applied THEN taken ELSE loaded.applied)
  <2> DEFINE applied == IF taken > loaded.applied THEN taken ELSE loaded.applied
  <2>1. applied \in 0 .. Fine
    <3>1. loaded.applied \in 0 .. Fine
      BY <1>1 DEF ClaimType
    <3> HIDE DEF taken
    <3>2. QED
      BY ONLY <1>3, <3>1
  <2>2. new = [loaded EXCEPT !.status = "no_reply", !.applied = applied]
    OBVIOUS
  <2> HIDE DEF applied, taken
  <2>3. /\ new \in ClaimType /\ new.open = loaded.open /\ new.status = "no_reply" /\ new.replied = loaded.replied
        /\ new.returned = loaded.returned /\ new.how = loaded.how /\ new.applied = applied
    BY <1>1, <2>1, <2>2 DEF ClaimType
  <2>4. QED
    BY <2>3 DEF applied
<1> HIDE DEF new
<1>6. /\ c \in ClaimType /\ (db.claim = loaded => c = new)
      /\ c.open = db.claim.open
      /\ c.applied = IF new.applied # loaded.applied THEN new.applied ELSE db.claim.applied
  <2>a. db.claim \in ClaimType /\ loaded \in ClaimType /\ new \in ClaimType
    BY <1>1, <1>5
  <2> HIDE DEF loaded
  <2>1. /\ c \in ClaimType /\ (db.claim = loaded => c = new)
        /\ c.open = IF new.open # loaded.open THEN new.open ELSE db.claim.open
        /\ c.applied = IF new.applied # loaded.applied THEN new.applied ELSE db.claim.applied
    BY ONLY <2>a, Flushing
  <2>2. QED
    BY ONLY <1>5, <2>1
<1>7. db' = [e EXCEPT !.claim = c]
  <2>1. db' = [e EXCEPT !.claim = Flushed(e.claim, loaded, new)]
    BY DEF JobFine, new
  <2>2. QED
    BY ONLY <1>4, <2>1
<1> HIDE DEF e, c
<1>8. /\ db' \in DbType /\ db'.claim = c /\ db'.age = db.age /\ db'.points = db.points /\ db'.entry = e.entry
  BY <1>4, <1>6, <1>7 DEF DbType
<1>9. Taken(db') = Taken(db) + taken /\ Returned(db') = Returned(db) /\ Balance(db') = Balance(db) - taken
  <2>1. /\ db'.entry["short_no_reply"] = db.entry["short_no_reply"] - taken
        /\ db'.entry["short_no_reply_returned"] = db.entry["short_no_reply_returned"]
        /\ db'.entry["short_reply"] = db.entry["short_reply"]
    BY <1>4, <1>8 DEF Reasons
  <2>2. /\ db.entry["short_no_reply"] \in Int /\ db.entry["short_no_reply_returned"] \in Int
        /\ db.entry["short_reply"] \in Int /\ db.points \in Int /\ taken \in Int
    BY <1>1, <1>3 DEF DbType, Reasons
  <2> HIDE DEF taken
  <2>3. QED
    BY <1>8, <2>1, <2>2 DEF Taken, Returned, Balance
<1> HIDE DEF taken
<1>10. RowsFall /\ work'["job"] = Idle
  BY <1>1, Falling DEF JobFine, Shape
<1>11. /\ NotesKept
       /\ loaded # db.claim => "stale row" \in note'.odd
       /\ loaded = db.claim /\ loaded.how # "open" => "stale row" \in note'.odd \/ "settled is fined" \in note'.odd
  <2>1. CASE loaded # db.claim
    BY <2>1, NotesOdd DEF JobFine, Oddities
  <2>2. CASE loaded = db.claim
    <3>1. note' = Odd("settled is fined", loaded.how # "open")
      BY <2>2 DEF JobFine
    <3>2. "settled is fined" \in Oddities /\ (loaded.how # "open") \in BOOLEAN
      BY DEF Oddities
    <3>3. QED
      BY <2>2, <3>1, <3>2, NotesOdd
  <2>3. QED
    BY <2>1, <2>2
<1> HIDE DEF loaded
<1>12. Shape'
  BY <1>8, <1>10, <1>11 DEF Shape, RowsFall, NotesKept
<1>13. FinesFit'
  <2>1. Taken(db') \in 0 .. Fine /\ Returned(db') \in 0 .. Taken(db') /\ Balance(db') >= 0 /\ Taken(db) <= Taken(db')
    BY ONLY <1>2, <1>3, <1>9
  <2>2. c.applied <= Taken(db')
    <3>1. CASE taken > loaded.applied
      <4>1. taken > 0 /\ taken = Taken(db')
        <5>1. loaded.applied \in 0 .. Fine
          BY <1>1 DEF ClaimType
        <5>2. QED
          BY ONLY <1>2, <1>3, <1>9, <3>1, <5>1
      <4>2. c.applied \in {taken, db.claim.applied}
        BY ONLY <1>5, <1>6, <3>1
      <4>3. db.claim.applied \in Int
        BY <1>1 DEF ClaimType
      <4>4. QED
        BY ONLY <1>2, <2>1, <4>1, <4>2, <4>3
    <3>2. CASE ~(taken > loaded.applied)
      <4>1. c.applied = db.claim.applied
        BY ONLY <1>5, <1>6, <3>2
      <4>2. db.claim.applied \in Int
        BY <1>1 DEF ClaimType
      <4>3. QED
        BY ONLY <1>2, <2>1, <4>1, <4>2
    <3>3. QED
      BY ONLY <3>1, <3>2
  <2>3. db'.entry["short_reply"] >= 0
    BY <1>4, <1>8 DEF Core, FinesFit, Reasons
  <2>4. ASSUME NEW x \in Workers, Loaded(x)'
        PROVE  work'[x].claim.applied <= Taken(db')
    <3>1. Loaded(x) /\ work'[x].claim = work[x].claim
      BY <1>10, <2>4 DEF RowsFall
    <3>2. work[x].claim.applied <= Taken(db) /\ work[x].claim \in ClaimType
      BY <3>1, LoadedClaim DEF Core, FinesFit
    <3>3. work[x].claim.applied \in Int
      BY <3>2 DEF ClaimType
    <3>4. QED
      BY ONLY <1>2, <2>1, <3>1, <3>2, <3>3
  <2>5. QED
    BY <1>8, <2>1, <2>2, <2>3, <2>4 DEF FinesFit
<1>14. JobHasRead' /\ ClaimIsThere'
  <2>1. db'.claim.open
    BY <1>1, <1>6, <1>8 DEF Core, ClaimIsThere, loaded
  <2>2. QED
    BY <1>10, <2>1 DEF JobHasRead, ClaimIsThere
<1>15. FineFollowsClaim'
  <2>1. SUFFICES ASSUME InOrder(note')
                 PROVE  /\ c.applied > 0 /\ ~c.returned => c.applied = Taken(db') /\ Returned(db') = 0
                        /\ c.applied = 0 \/ c.returned => Taken(db') = Returned(db')
                        /\ c.how # "open" => c.applied = 0 \/ c.returned
                        /\ c.returned => Taken(db') > 0
    BY <1>8 DEF FineFollowsClaim
  <2>2. InOrder(note) /\ loaded = db.claim /\ loaded.how = "open"
    BY <1>11, <2>1 DEF NotesKept, Keeps, InOrder
  <2>3. c.how = "open" /\ c.returned = db.claim.returned
        /\ c.applied = (IF taken > db.claim.applied THEN taken ELSE db.claim.applied)
    BY ONLY <1>5, <1>6, <2>2
  <2>4. /\ db.claim.applied > 0 /\ ~db.claim.returned => db.claim.applied = Taken(db) /\ Returned(db) = 0
        /\ db.claim.applied = 0 \/ db.claim.returned => Taken(db) = Returned(db)
        /\ db.claim.returned => Taken(db) > 0
    BY <2>2 DEF Core, FineFollowsClaim
  <2>5. db.claim.applied \in 0 .. Fine /\ db.claim.returned \in BOOLEAN
    BY <1>1 DEF ClaimType
  <2>6. CASE taken > 0
    <3>1. Taken(db) = 0 /\ Taken(db') = taken /\ Returned(db') = 0 /\ db.claim.applied = 0
      BY ONLY <1>2, <1>3, <1>9, <2>5, <2>6
    <3>2. ~db.claim.returned /\ c.applied = taken
      BY ONLY <2>3, <2>4, <2>6, <3>1
    <3>3. ~c.returned
      BY ONLY <2>3, <3>2
    <3>4. taken # 0
      BY ONLY <1>3, <2>6
    <3>5. QED
      BY ONLY <2>3, <3>1, <3>2, <3>3, <3>4
  <2>7. CASE ~(taken > 0)
    <3>1. taken = 0 /\ Taken(db') = Taken(db) /\ Returned(db') = Returned(db)
      BY ONLY <1>2, <1>3, <1>9, <2>7
    <3>2. c.applied = db.claim.applied
      BY ONLY <2>3, <2>5, <3>1
    <3>3. QED
      BY ONLY <2>3, <2>4, <3>1, <3>2
  <2>8. QED
    BY ONLY <2>6, <2>7
<1>16. AnswerKept'
  <2>1. SUFFICES ASSUME Straight(note')
                 PROVE  c.replied <=> c.status \in {"confirmed", "disputed"}
    BY <1>8 DEF AnswerKept
  <2>2. Straight(note) /\ loaded = db.claim
    BY <1>11, <2>1 DEF NotesKept, Keeps, Straight
  <2>3. ~db.claim.replied
    BY <1>1, <2>2 DEF Core, AnswerKept, loaded
  <2>4. ~c.replied /\ c.status = "no_reply"
    BY ONLY <1>5, <1>6, <2>2, <2>3
  <2>5. QED
    BY ONLY <2>4
<1>17. SilenceKnown'
  <2>1. SUFFICES ASSUME Known(note')
                 PROVE  note'.silent
    BY DEF SilenceKnown
  <2>2. Known(note) /\ loaded = db.claim /\ loaded.how = "open"
    BY <1>11, <2>1 DEF NotesKept, Keeps, Known
  <2>3. QED
    BY <1>1, <1>11, <2>2 DEF Core, SilenceKnown, NotesKept, loaded
<1>18. QED
  BY <1>12, <1>13, <1>14, <1>15, <1>16, <1>17 DEF Core

-----------------------------------------------------------------------------
(* What is due, and what is carried                                        *)

\* No request overlapped another, none died, no row was stale, and the claim was told of the money.
Smooth(n) == n.trouble = 0 /\ n.odd \cap {"stale row", "overlap", "only the ledger"} = {}
Busy(r, ops) == work[r].op \in ops
AnotherIs(r, ops) == \E o \in Requests : o # r /\ Busy(o, ops)

\* One request at a time carries a row, and a waive carries an open claim.
OneCarries ==
    /\ \A r, o \in Requests : Loaded(r) /\ Loaded(o) => r = o
    /\ \A r \in Requests : Busy(r, {"waive"}) => work[r].claim.open /\ work[r].claim.how = "open"
\* A claim that is open with nothing due is about to be settled, and one that is settled with money due
\* is about to be opened again.
OpenIsSettled ==
    db.claim.open /\ db.due <= 0 /\ db.claim.how = "open" => \E r \in Requests : Busy(r, {"after", "sync", "resolve"})
SettledIsOpened ==
    db.claim.open /\ db.due > 0 /\ db.claim.how # "open" /\ ~db.marked
        => \E r \in Requests : Busy(r, {"after", "fresh", "open", "open fresh"})
\* A request that opens, settles or was going to collect acts on what is due now, or another one follows.
OpensWhatIsDue ==
    \A r \in Requests : Busy(r, {"open", "open fresh"}) /\ db.due <= 0 => AnotherIs(r, {"after", "sync"})
SettlesWhatIsPaid ==
    \A r \in Requests :
        /\ Busy(r, {"resolve"}) /\ db.due > 0 /\ ~db.marked => AnotherIs(r, {"after", "fresh"})
        /\ Busy(r, {"done"}) /\ db.due > work[r].due /\ ~db.marked => AnotherIs(r, {"after", "fresh"})

Carried ==
    Smooth(note) => OneCarries /\ OpenIsSettled /\ SettledIsOpened /\ OpensWhatIsDue /\ SettlesWhatIsPaid

LEMMA IdleIsIdle == Idle.op = "idle" /\ Idle \in WorkType
  BY DEF Idle, WorkType

LEMMA Turned ==
    ASSUME Shape, NEW r \in Requests, NEW w, work' = [work EXCEPT ![r] = w]
    PROVE  /\ work'[r] = w /\ \A o \in Requests : o # r => work'[o] = work[o]
<1>1. work \in [Workers -> WorkType] /\ Requests \subseteq Workers
  BY DEF Shape, Workers
<1>2. QED
  BY <1>1

LEMMA SmoothCount ==
    ASSUME ShortAssumption, Shape,
           note' = note \/ (note.acts < MaxActs /\ note' = [note EXCEPT !.acts = @ + 1])
    PROVE  Smooth(note') => Smooth(note)
  BY DEF Shape, NoteType, Smooth

LEMMA SmoothOdd ==
    ASSUME ShortAssumption, Shape, NEW what \in Oddities, NEW happened \in BOOLEAN,
           \/ note' = Odd(what, happened)
           \/ note.acts < MaxActs /\ note' = [Odd(what, happened) EXCEPT !.acts = @ + 1]
    PROVE  Smooth(note') => Smooth(note) /\ (what \in {"stale row", "overlap", "only the ledger"} => ~happened)
<1> DEFINE n == Odd(what, happened)
<1>1. note \in NoteType
  BY DEF Shape
<1>2. n \in NoteType /\ n.trouble = note.trouble
  BY <1>1, Noting DEF Odd, NoteType
<1>3. Smooth(n) => Smooth(note) /\ (what \in {"stale row", "overlap", "only the ledger"} => ~happened)
  <2>1. CASE ~happened \/ note.odd = {"stale row"}
    BY <2>1 DEF Odd, Smooth
  <2>2. CASE happened /\ note.odd # {"stale row"}
    <3>1. n.odd = IF what = "stale row" THEN {what} ELSE note.odd \cup {what}
      BY <1>1, <2>2 DEF Odd, NoteType
    <3>2. QED
      BY <1>2, <2>2, <3>1 DEF Smooth
  <2>3. QED
    BY <2>1, <2>2
<1> HIDE DEF n
<1>4. note' = n \/ note' = [n EXCEPT !.acts = @ + 1]
  BY DEF n
<1>5. Smooth(note') => Smooth(n)
  BY <1>2, <1>4 DEF NoteType, Smooth
<1>6. QED
  BY <1>3, <1>5

LEMMA Dues ==
    ASSUME Shape
    PROVE  db.due \in Int /\ db.due >= 0 /\ db.marked \in BOOLEAN
<1>1. db.due \in 0 .. Price /\ db.marked \in BOOLEAN
  BY DEF Shape, DbType
<1>2. QED
  BY <1>1

LEMMA DoneRow ==
    ASSUME Shape, NEW r \in Requests, Busy(r, {"done"})
    PROVE  work[r].due \in 0 .. Price
<1>1. work[r] \in WorkType /\ work[r].op = "done"
  BY DEF Shape, Workers, Busy
<1>2. QED
  BY <1>1 DEF WorkType, Idle

\* The player, the clock, the job and a new screenshot.
LEMMA OthersCarry ==
    ASSUME Shape, Carried, Smooth(note') => Smooth(note),
           \A o \in Requests : work'[o] = work[o],
           db'.claim.open = db.claim.open, db'.claim.how = db.claim.how,
           db'.due = db.due, db'.marked = db.marked
    PROVE  Carried'
<1> SUFFICES ASSUME Smooth(note')
             PROVE  (OneCarries /\ OpenIsSettled /\ SettledIsOpened /\ OpensWhatIsDue /\ SettlesWhatIsPaid)'
  BY DEF Carried
<1>1. OneCarries /\ OpenIsSettled /\ SettledIsOpened /\ OpensWhatIsDue /\ SettlesWhatIsPaid
  BY DEF Carried
<1>2. OneCarries'
  BY <1>1 DEF OneCarries, Loaded, Busy
<1>3. OpenIsSettled' /\ SettledIsOpened'
  BY <1>1 DEF OpenIsSettled, SettledIsOpened, Busy
<1>4. OpensWhatIsDue' /\ SettlesWhatIsPaid'
  BY <1>1 DEF OpensWhatIsDue, SettlesWhatIsPaid, AnotherIs, Busy
<1>5. QED
  BY <1>2, <1>3, <1>4

\* A completion, an approved or rejected screenshot, a bank decision: the request goes on to look at the claim.
LEMMA BeginsCarry ==
    ASSUME Shape, Carried, NEW r \in Requests, NEW op \in {"after", "sync", "fresh"},
           Smooth(note') => Smooth(note), work[r] = Idle, To(r, op),
           db'.claim.open = db.claim.open, db'.claim.how = db.claim.how, db'.due \in Int,
           op = "sync" => db'.due <= db.due /\ db'.marked = db.marked,
           op = "fresh" => db'.due = db.due,
           op = "after" => db'.marked = db.marked
    PROVE  Carried'
<1> SUFFICES ASSUME Smooth(note')
             PROVE  (OneCarries /\ OpenIsSettled /\ SettledIsOpened /\ OpensWhatIsDue /\ SettlesWhatIsPaid)'
  BY DEF Carried
<1>1. OneCarries /\ OpenIsSettled /\ SettledIsOpened /\ OpensWhatIsDue /\ SettlesWhatIsPaid
  BY DEF Carried
<1>2. /\ work'[r] = [op |-> op] /\ \A o \in Requests : o # r => work'[o] = work[o]
      /\ work[r].op = "idle" /\ work'[r].op = op
  <2>1. work'[r] = [op |-> op] /\ \A o \in Requests : o # r => work'[o] = work[o]
    BY Turned DEF To
  <2>2. QED
    BY <2>1 DEF Idle
<1>3. \A o \in Requests : Busy(o, Carrying)' => o # r /\ Busy(o, Carrying)
  BY <1>2 DEF Busy, Carrying
<1>4. OneCarries'
  <2>1. \A o \in Requests : Loaded(o)' => o # r /\ Loaded(o)
    BY <1>3 DEF Loaded, Busy
  <2>2. QED
    BY <1>1, <1>2, <2>1 DEF OneCarries, Busy
<1>6. OpenIsSettled'
  <2>1. CASE op \in {"after", "sync"}
    BY <1>2, <2>1 DEF OpenIsSettled, Busy
  <2>2. CASE op = "fresh"
    BY <1>1, <1>2, <2>2 DEF OpenIsSettled, Busy
  <2>3. QED
    BY <2>1, <2>2
<1>7. SettledIsOpened'
  <2>1. CASE op \in {"after", "fresh"}
    BY <1>2, <2>1 DEF SettledIsOpened, Busy
  <2>2. CASE op = "sync"
    <3>1. db'.due > 0 => db.due > 0
      BY <2>2, Dues
    <3>2. QED
      BY <1>1, <1>2, <2>2, <3>1 DEF SettledIsOpened, Busy
  <2>3. QED
    BY <2>1, <2>2
<1>8. OpensWhatIsDue'
  <2> SUFFICES ASSUME NEW o \in Requests, Busy(o, {"open", "open fresh"})', db'.due <= 0
               PROVE  AnotherIs(o, {"after", "sync"})'
    BY DEF OpensWhatIsDue
  <2>1. o # r /\ Busy(o, {"open", "open fresh"})
    BY <1>2 DEF Busy
  <2>2. CASE op \in {"after", "sync"}
    BY <1>2, <2>1, <2>2 DEF AnotherIs, Busy
  <2>3. CASE op = "fresh"
    BY <1>1, <1>2, <2>1, <2>3 DEF OpensWhatIsDue, AnotherIs, Busy
  <2>4. QED
    BY <2>2, <2>3
<1>9. SettlesWhatIsPaid'
  <2> SUFFICES ASSUME NEW o \in Requests, ~db'.marked,
                      \/ Busy(o, {"resolve"})' /\ db'.due > 0
                      \/ Busy(o, {"done"})' /\ db'.due > work'[o].due
               PROVE  AnotherIs(o, {"after", "fresh"})'
    BY DEF SettlesWhatIsPaid
  <2>1. o # r /\ work'[o] = work[o]
    BY <1>2 DEF Busy
  <2>2. CASE op \in {"after", "fresh"}
    BY <1>2, <2>1, <2>2 DEF AnotherIs, Busy
  <2>3. CASE op = "sync"
    <3>1. db.due >= db'.due /\ db.due \in Int /\ ~db.marked
      BY <2>3, Dues
    <3>2. AnotherIs(o, {"after", "fresh"})
      <4>1. CASE Busy(o, {"resolve"})
        BY <1>1, <2>1, <3>1, <4>1 DEF SettlesWhatIsPaid, Busy
      <4>2. CASE Busy(o, {"done"})
        <5>1. work[o].due \in Int
          <6>1. work[o].due \in 0 .. Price
            BY <4>2, DoneRow
          <6>2. QED
            BY ONLY <6>1
        <5>2. db.due > work[o].due
          BY <2>1, <3>1, <4>2, <5>1 DEF Busy
        <5>3. QED
          BY <1>1, <3>1, <4>2, <5>2 DEF SettlesWhatIsPaid
      <4>3. QED
        BY <2>1, <4>1, <4>2 DEF Busy
    <3>3. QED
      BY <1>2, <2>1, <3>2 DEF AnotherIs, Busy
  <2>4. QED
    BY <2>2, <2>3
<1>10. QED
  BY <1>4, <1>6, <1>7, <1>8, <1>9

\* A request that reads the claim under no other one's hands.
LEMMA LoadsCarry ==
    ASSUME ShortAssumption, Shape, Carried, NEW r \in Requests, NEW w \in WorkType,
           work' = [work EXCEPT ![r] = w], UNCHANGED db,
           Smooth(note') => Smooth(note) /\ ~Overlaps(r),
           \/ w.op \in {"open", "open fresh"} /\ db.due > 0
           \/ w.op = "resolve" /\ db.due <= 0
           \/ /\ work[r] = Idle /\ db.claim.open /\ db.claim.how = "open"
              /\ w.op \in {"done", "collect", "waive"} /\ w.claim = db.claim /\ (w.op = "done" => w.due = db.due)
    PROVE  Carried'
<1> SUFFICES ASSUME Smooth(note')
             PROVE  (OneCarries /\ OpenIsSettled /\ SettledIsOpened /\ OpensWhatIsDue /\ SettlesWhatIsPaid)'
  BY DEF Carried
<1>1. OneCarries /\ OpenIsSettled /\ SettledIsOpened /\ OpensWhatIsDue /\ SettlesWhatIsPaid
  BY DEF Carried
<1>2. work'[r] = w /\ \A o \in Requests : o # r => work'[o] = Idle
  <2>1. \A o \in Requests : o # r => work[o] = Idle
    BY DEF Overlaps
  <2>2. QED
    BY <2>1, Turned
<1>3. \A o \in Requests : o # r => work'[o].op = "idle"
  BY <1>2, IdleIsIdle
<1>4. \A o \in Requests : Loaded(o)' => o = r
  BY <1>3 DEF Loaded, Carrying
<1>5. db.due \in Int /\ db.due >= 0 /\ db'.due = db.due /\ db'.due \in Int
  BY Dues
<1>6. OneCarries'
  <2>1. ASSUME NEW o \in Requests, Busy(o, {"waive"})'
        PROVE  work'[o].claim.open /\ work'[o].claim.how = "open"
    <3>1. o = r
      BY <1>3, <2>1 DEF Busy
    <3>2. w.op = "waive"
      BY <1>2, <2>1, <3>1 DEF Busy
    <3>3. QED
      BY <1>2, <3>1, <3>2
  <2>2. QED
    BY <1>4, <2>1 DEF OneCarries
<1>7. CASE w.op \in {"open", "open fresh"} /\ db.due > 0
  <2>1. OpenIsSettled' /\ OpensWhatIsDue'
    <3>0. db.due > 0
      BY <1>7
    <3>1. ~(db'.due <= 0)
      BY ONLY <1>5, <3>0
    <3>2. QED
      BY ONLY <3>1 DEF OpenIsSettled, OpensWhatIsDue
  <2>2. SettledIsOpened'
    BY <1>2, <1>7 DEF SettledIsOpened, Busy
  <2>3. SettlesWhatIsPaid'
    BY <1>2, <1>3, <1>7 DEF SettlesWhatIsPaid, Busy
  <2>4. QED
    BY <1>6, <2>1, <2>2, <2>3
<1>8. CASE w.op = "resolve" /\ db.due <= 0
  <2>1. OpenIsSettled'
    BY <1>2, <1>8 DEF OpenIsSettled, Busy
  <2>2. SettledIsOpened'
    <3>1. ~(db'.due > 0)
      BY <1>5, <1>8
    <3>2. QED
      BY ONLY <3>1 DEF SettledIsOpened
  <2>3. OpensWhatIsDue'
    BY <1>2, <1>3, <1>8 DEF OpensWhatIsDue, Busy
  <2>4. SettlesWhatIsPaid'
    <3>1. ~(db'.due > 0)
      BY <1>5, <1>8
    <3>2. \A o \in Requests : ~Busy(o, {"done"})'
      BY <1>2, <1>3, <1>8 DEF Busy
    <3>3. QED
      BY <3>1, <3>2 DEF SettlesWhatIsPaid
  <2>5. QED
    BY <1>6, <2>1, <2>2, <2>3, <2>4
<1>9. CASE /\ work[r] = Idle /\ db.claim.open /\ db.claim.how = "open"
           /\ w.op \in {"done", "collect", "waive"} /\ w.claim = db.claim /\ (w.op = "done" => w.due = db.due)
  <2>1. \A o \in Requests : work[o].op = "idle"
    <3>1. \A o \in Requests : work[o] = Idle
      BY <1>9 DEF Overlaps
    <3>2. QED
      BY ONLY <3>1, IdleIsIdle
  <2>2. OpenIsSettled'
    BY <1>1, <2>1 DEF OpenIsSettled, Busy
  <2>3. SettledIsOpened'
    BY <1>9 DEF SettledIsOpened
  <2>4. OpensWhatIsDue'
    BY <1>2, <1>3, <1>9 DEF OpensWhatIsDue, Busy
  <2>5. SettlesWhatIsPaid'
    <3>1. \A o \in Requests : ~Busy(o, {"resolve"})'
      BY <1>2, <1>3, <1>9 DEF Busy
    <3>2. \A o \in Requests : Busy(o, {"done"})' => work'[o].due = db'.due
      BY <1>2, <1>3, <1>9 DEF Busy
    <3>3. \A o \in Requests : Busy(o, {"done"})' => ~(db'.due > work'[o].due)
      <4>1. ~(db'.due > db'.due)
        BY ONLY <1>5
      <4>2. QED
        BY ONLY <3>2, <4>1
    <3>4. QED
      BY <3>1, <3>3 DEF SettlesWhatIsPaid
  <2>6. QED
    BY <1>6, <2>2, <2>3, <2>4, <2>5
<1>10. QED
  BY <1>7, <1>8, <1>9

\* A request that ends without a write.
LEMMA EndsCarry ==
    ASSUME ShortAssumption, Shape, Carried, NEW r \in Requests, work' = [work EXCEPT ![r] = Idle],
           Smooth(note') => Smooth(note),
           db'.claim.open = db.claim.open, db'.claim.how = db.claim.how,
           db'.due = db.due, db'.marked = db.marked,
           \/ work[r].op \in {"done", "collect"}
           \/ work[r].op = "fresh" /\ db.due <= 0
           \/ work[r].op = "sync" /\ db.due > 0
    PROVE  Carried'
<1> SUFFICES ASSUME Smooth(note')
             PROVE  (OneCarries /\ OpenIsSettled /\ SettledIsOpened /\ OpensWhatIsDue /\ SettlesWhatIsPaid)'
  BY DEF Carried
<1>1. OneCarries /\ OpenIsSettled /\ SettledIsOpened /\ OpensWhatIsDue /\ SettlesWhatIsPaid
  BY DEF Carried
<1>2. work'[r].op = "idle" /\ \A o \in Requests : o # r => work'[o] = work[o]
  <2>1. work'[r] = Idle /\ \A o \in Requests : o # r => work'[o] = work[o]
    BY Turned, IdleIsIdle
  <2>2. QED
    BY <2>1, IdleIsIdle
<1>3. db.due \in Int /\ db.due >= 0
  BY Dues
<1>4. \A o \in Requests : Loaded(o)' => o # r /\ Loaded(o)
  BY <1>2 DEF Loaded, Carrying
<1>5. OneCarries'
  BY <1>1, <1>2, <1>4 DEF OneCarries, Busy
<1>6. OpenIsSettled'
  BY <1>1, <1>2, <1>3 DEF OpenIsSettled, Busy
<1>7. SettledIsOpened'
  <2>1. CASE db'.due > 0
    <3>1. ~(db.due <= 0)
      BY <1>3, <2>1
    <3>2. QED
      BY <1>1, <1>2, <2>1, <3>1 DEF SettledIsOpened, Busy
  <2>2. CASE ~(db'.due > 0)
    BY <2>2 DEF SettledIsOpened
  <2>3. QED
    BY <2>1, <2>2
<1>8. OpensWhatIsDue'
  <2>1. CASE db'.due <= 0
    <3>1. ~(db.due > 0)
      BY <1>3, <2>1
    <3>2. work[r].op \in {"done", "collect", "fresh"} /\ db.due <= 0
      BY <2>1, <3>1
    <3>3. \A o \in Requests : Busy(o, {"open", "open fresh"})' => Busy(o, {"open", "open fresh"}) /\ o # r
      BY <1>2 DEF Busy
    <3>4. \A o \in Requests : AnotherIs(o, {"after", "sync"}) => AnotherIs(o, {"after", "sync"})'
      BY <1>2, <3>2 DEF AnotherIs, Busy
    <3>5. QED
      BY <1>1, <3>2, <3>3, <3>4 DEF OpensWhatIsDue
  <2>2. CASE ~(db'.due <= 0)
    BY <2>2 DEF OpensWhatIsDue
  <2>3. QED
    BY <2>1, <2>2
<1>9. SettlesWhatIsPaid'
  <2> SUFFICES ASSUME NEW o \in Requests, ~db.marked,
                      \/ Busy(o, {"resolve"})' /\ db.due > 0
                      \/ Busy(o, {"done"})' /\ db.due > work'[o].due
               PROVE  AnotherIs(o, {"after", "fresh"})'
    BY DEF SettlesWhatIsPaid
  <2>1. o # r /\ work'[o] = work[o]
    BY <1>2 DEF Busy
  <2>2. AnotherIs(o, {"after", "fresh"})
    BY <1>1, <2>1 DEF SettlesWhatIsPaid, Busy
  <2>3. db.due > 0
    <3>1. CASE Busy(o, {"done"})
      <4>1. work[o].due \in 0 .. Price
        BY <3>1, DoneRow
      <4>2. QED
        BY <1>3, <2>1, <3>1, <4>1 DEF Busy
    <3>2. QED
      BY <2>1, <3>1 DEF Busy
  <2>4. QED
    BY <1>2, <1>3, <2>2, <2>3 DEF AnotherIs, Busy
<1>10. QED
  BY <1>5, <1>6, <1>7, <1>8, <1>9

\* Cash: the money is in, and the claim is settled next.
LEMMA DoneCarries ==
    ASSUME ShortAssumption, Shape, Carried, NEW r \in Requests, MarkDueDone(r)
    PROVE  Carried'
<1>1. CASE work[r].due > db.due
  BY <1>1, EndsCarry DEF MarkDueDone
<1>2. CASE ~(work[r].due > db.due)
  <2> SUFFICES ASSUME Smooth(note)
               PROVE  (OneCarries /\ OpenIsSettled /\ SettledIsOpened /\ OpensWhatIsDue /\ SettlesWhatIsPaid)'
    BY DEF Carried, MarkDueDone
  <2>1. OneCarries /\ OpenIsSettled /\ SettledIsOpened /\ OpensWhatIsDue /\ SettlesWhatIsPaid
    BY DEF Carried
  <2>2. work[r].op = "done" /\ work'[r].op = "resolve" /\ \A o \in Requests : o # r => work'[o] = work[o]
    <3>1. work[r].op = "done" /\ work' = [work EXCEPT ![r] = [op |-> "resolve", claim |-> work[r].claim]]
      BY <1>2 DEF MarkDueDone
    <3>2. [op |-> "resolve", claim |-> work[r].claim].op = "resolve"
      OBVIOUS
    <3>3. work'[r] = [op |-> "resolve", claim |-> work[r].claim] /\ \A o \in Requests : o # r => work'[o] = work[o]
      BY <3>1, Turned
    <3>4. QED
      BY ONLY <3>1, <3>2, <3>3
  <2>3. /\ db'.claim = db.claim /\ db'.marked = db.marked /\ db'.due = db.due - work[r].due
        /\ db.due \in Int /\ work[r].due \in Int /\ work[r].due >= 0
    <3>1. db' = [db EXCEPT !.due = db.due - work[r].due]
      BY <1>2 DEF MarkDueDone
    <3>2. db'.claim = db.claim /\ db'.marked = db.marked /\ db'.due = db.due - work[r].due
      BY <3>1 DEF Shape, DbType
    <3>3. work[r].due \in 0 .. Price
      BY <2>2, DoneRow DEF Busy
    <3>4. work[r].due \in Int /\ work[r].due >= 0
      BY ONLY <3>3
    <3>5. QED
      BY <3>2, <3>4, Dues
  <2>4. Loaded(r)
    BY <2>2 DEF Loaded, Carrying
  <2>5. \A o \in Requests : Loaded(o)' => o = r
    BY <2>1, <2>2, <2>4 DEF OneCarries, Loaded
  <2>6. OneCarries'
    BY <2>1, <2>2, <2>5 DEF OneCarries, Busy
  <2>7. OpenIsSettled'
    BY <2>2 DEF OpenIsSettled, Busy
  <2>8. SettledIsOpened'
    <3>1. db'.due > 0 => db.due > 0
      BY ONLY <2>3
    <3>2. QED
      BY <2>1, <2>2, <2>3, <3>1 DEF SettledIsOpened, Busy
  <2>9. OpensWhatIsDue'
    BY <2>2, <2>5 DEF OpensWhatIsDue, Busy, Loaded, Carrying
  <2>10. SettlesWhatIsPaid'
    <3> SUFFICES ASSUME NEW o \in Requests, ~db'.marked,
                        \/ Busy(o, {"resolve"})' /\ db'.due > 0
                        \/ Busy(o, {"done"})' /\ db'.due > work'[o].due
                 PROVE  AnotherIs(o, {"after", "fresh"})'
      BY DEF SettlesWhatIsPaid
    <3>1. o = r
      BY <2>5 DEF Loaded, Carrying, Busy
    <3>2. db'.due > 0
      BY <2>2, <3>1 DEF Busy
    <3>3. db.due > work[r].due
      BY ONLY <2>3, <3>2
    <3>4. AnotherIs(r, {"after", "fresh"})
      BY <2>1, <2>2, <2>3, <3>3 DEF SettlesWhatIsPaid, Busy
    <3>5. QED
      BY <2>2, <3>1, <3>4 DEF AnotherIs, Busy
  <2>11. QED
    BY <2>6, <2>7, <2>8, <2>9, <2>10
<1>3. QED
  BY <1>1, <1>2

\* The one that carries the claim writes it: nobody else is about to.
LEMMA WritesCarry ==
    ASSUME ShortAssumption, Shape, Carried, NEW r \in Requests, Loaded(r), work' = [work EXCEPT ![r] = Idle],
           Smooth(note') => Smooth(note), db'.due \in Int, db'.marked = db.marked,
           Smooth(note') =>
               /\ db'.claim.open /\ db'.due <= 0 /\ db'.claim.how = "open" => AnotherIs(r, {"after", "sync"})
               /\ db'.claim.open /\ db'.due > 0 /\ db'.claim.how # "open" /\ ~db.marked => AnotherIs(r, {"after", "fresh"})
    PROVE  Carried'
<1> SUFFICES ASSUME Smooth(note')
             PROVE  (OneCarries /\ OpenIsSettled /\ SettledIsOpened /\ OpensWhatIsDue /\ SettlesWhatIsPaid)'
  BY DEF Carried
<1>1. OneCarries
  BY DEF Carried
<1>2. work'[r].op = "idle" /\ \A o \in Requests : o # r => work'[o] = work[o]
  <2>1. work'[r] = Idle /\ \A o \in Requests : o # r => work'[o] = work[o]
    BY Turned, IdleIsIdle
  <2>2. QED
    BY <2>1, IdleIsIdle
<1>3. \A o \in Requests : ~Loaded(o)'
  BY <1>1, <1>2 DEF OneCarries, Loaded, Carrying
<1>4. \A ops \in SUBSET Carrying : \A o \in Requests : ~Busy(o, ops)'
  BY <1>3 DEF Loaded, Busy
<1>5. OneCarries'
  BY <1>3 DEF OneCarries, Busy, Loaded, Carrying
<1>6. OpenIsSettled'
  BY <1>2 DEF OpenIsSettled, AnotherIs, Busy
<1>7. SettledIsOpened'
  BY <1>2 DEF SettledIsOpened, AnotherIs, Busy
<1>8. OpensWhatIsDue' /\ SettlesWhatIsPaid'
  BY <1>3 DEF OpensWhatIsDue, SettlesWhatIsPaid, Busy, Loaded, Carrying
<1>9. QED
  BY <1>5, <1>6, <1>7, <1>8

LEMMA OpenCarries ==
    ASSUME ShortAssumption, Shape, Carried, NEW r \in Requests, OpenShortClaim(r)
    PROVE  Carried'
<1> DEFINE loaded == work[r].claim
           new == IF work[r].op = "open fresh" THEN StartedOver(loaded) ELSE Refreshed(loaded)
<1>1. Loaded(r) /\ Busy(r, {"open", "open fresh"}) /\ work' = [work EXCEPT ![r] = Idle]
  BY DEF OpenShortClaim, Loaded, Carrying, Busy
<1>2. db \in DbType /\ db.claim \in ClaimType /\ loaded \in ClaimType /\ new \in ClaimType /\ new.how = "open"
  <2>1. r \in Workers
    BY DEF Workers
  <2>2. db \in DbType /\ db.claim \in ClaimType /\ loaded \in ClaimType
    BY <1>1, <2>1, LoadedClaim DEF Shape, DbType
  <2>3. QED
    BY <2>2, Rounds
<1>3. Smooth(note') => Smooth(note) /\ loaded = db.claim
  <2>1. CASE loaded # db.claim
    <3>1. note' = Odd("stale row", TRUE)
      BY <2>1 DEF OpenShortClaim
    <3>2. QED
      BY <3>1, SmoothOdd DEF Oddities
  <2>2. CASE loaded = db.claim
    <3>1. \E happened \in BOOLEAN : note' = Odd("reopened", happened)
      BY <2>2 DEF OpenShortClaim
    <3>2. QED
      BY <2>2, <3>1, SmoothOdd DEF Oddities
  <2>3. QED
    BY <2>1, <2>2
<1>4. db'.due = db.due /\ db'.marked = db.marked
  BY <1>2 DEF OpenShortClaim, DbType
<1>5. loaded = db.claim => db'.claim.how = "open"
  <2>1. CASE ~loaded.open /\ loaded = db.claim
    <3>1. db' = [db EXCEPT !.claim = [NoClaim EXCEPT !.open = TRUE], !.age = 0]
      BY <2>1 DEF OpenShortClaim
    <3>2. db'.claim = [NoClaim EXCEPT !.open = TRUE]
      BY <1>2, <3>1 DEF DbType
    <3>3. QED
      BY <3>2, FirstClaim
  <2>2. CASE loaded.open /\ loaded = db.claim
    <3>1. \E a \in {0, db.age} : db' = [db EXCEPT !.claim = Flushed(db.claim, loaded, new), !.age = a]
      BY <1>2, <2>2 DEF OpenShortClaim, DbType
    <3>2. db'.claim = Flushed(db.claim, loaded, new)
      BY <1>2, <3>1 DEF DbType
    <3> HIDE DEF loaded, new
    <3>3. Flushed(db.claim, loaded, new) = new
      BY <1>2, <2>2, Flushing
    <3>4. QED
      BY <1>2, <3>2, <3>3
  <2>3. QED
    BY <2>1, <2>2
<1>6. Smooth(note') => (db'.due <= 0 => AnotherIs(r, {"after", "sync"}))
  BY <1>1, <1>3, <1>4 DEF Carried, OpensWhatIsDue
<1>7. QED
  BY <1>1, <1>3, <1>4, <1>5, <1>6, Dues, WritesCarry

\* What settling leaves of a claim that was just read: it is not open any more.
LEMMA SettlesNow ==
    ASSUME NEW d \in DbType, NEW how \in {"paid", "waived"}
    PROVE  LET e == Resolved(d, d.claim, how) IN
           /\ e.due = d.due /\ e.marked = d.marked /\ e.claim.open = d.claim.open
           /\ d.claim.open => e.claim.how # "open"
<1> DEFINE loaded == d.claim
           back == loaded.applied > 0 /\ ~loaded.returned
           new == [loaded EXCEPT !.how = how, !.returned = @ \/ back]
           paid == IF back THEN Added(d, loaded.applied, "short_no_reply_returned") ELSE d
           e == Resolved(d, d.claim, how)
<1>1. CASE ~loaded.open \/ loaded.how # "open"
  <2>1. e = d
    BY <1>1 DEF Resolved
  <2>2. QED
    BY <1>1, <2>1
<1>2. CASE loaded.open /\ loaded.how = "open"
  <2>1. e = [paid EXCEPT !.claim = Flushed(paid.claim, loaded, new)]
    BY <1>2 DEF Resolved
  <2>2. paid \in DbType /\ paid.claim = d.claim /\ paid.due = d.due /\ paid.marked = d.marked
    <3>1. loaded.applied \in Int /\ "short_no_reply_returned" \in Reasons
      BY DEF DbType, ClaimType, Fine, Reasons
    <3>2. QED
      BY <3>1, Adding
  <2>3. /\ new \in ClaimType /\ new.how = how /\ new.open = loaded.open /\ loaded \in ClaimType
    BY DEF ClaimType, DbType
  <2> HIDE DEF new, paid
  <2>4. Flushed(loaded, loaded, new) = new
    BY <2>3, Flushing
  <2>5. e = [paid EXCEPT !.claim = new]
    BY <2>1, <2>2, <2>4
  <2>6. QED
    BY <2>2, <2>3, <2>5 DEF DbType
<1>3. QED
  BY <1>1, <1>2

LEMMA OnlyTheClaim ==
    ASSUME NEW d \in DbType, NEW loaded, NEW how
    PROVE  Resolved(d, loaded, how).due = d.due /\ Resolved(d, loaded, how).marked = d.marked
<1> DEFINE paid == Added(d, loaded.applied, "short_no_reply_returned")
<1>1. paid = [d EXCEPT !.entry = paid.entry]
  BY DEF Added, DbType
<1> HIDE DEF paid
<1>2. \A f, c : [[d EXCEPT !.entry = f] EXCEPT !.claim = c].due = d.due
                /\ [[d EXCEPT !.entry = f] EXCEPT !.claim = c].marked = d.marked
  BY DEF DbType
<1>3. \A c : [d EXCEPT !.claim = c].due = d.due /\ [d EXCEPT !.claim = c].marked = d.marked
  BY DEF DbType
<1>4. \E c : \/ Resolved(d, loaded, how) = d
             \/ Resolved(d, loaded, how) = [d EXCEPT !.claim = c]
             \/ Resolved(d, loaded, how) = [paid EXCEPT !.claim = c]
  BY DEF Resolved, paid
<1>5. PICK c : \/ Resolved(d, loaded, how) = d
               \/ Resolved(d, loaded, how) = [d EXCEPT !.claim = c]
               \/ Resolved(d, loaded, how) = [paid EXCEPT !.claim = c]
  BY <1>4
<1>6. PICK f : paid = [d EXCEPT !.entry = f]
  BY <1>1
<1>7. CASE Resolved(d, loaded, how) = [paid EXCEPT !.claim = c]
  BY <1>2, <1>6, <1>7
<1>8. QED
  BY <1>3, <1>5, <1>7

LEMMA ResolveCarries ==
    ASSUME ShortAssumption, Shape, Carried, NEW r \in Requests, ResolvePaid(r)
    PROVE  Carried'
<1>1. /\ Loaded(r) /\ Busy(r, {"resolve"}) /\ work' = [work EXCEPT ![r] = Idle] /\ db \in DbType
      /\ db' = Resolved(db, work[r].claim, "paid")
  BY DEF ResolvePaid, Loaded, Carrying, Busy, Shape
<1>2. Smooth(note') => Smooth(note) /\ work[r].claim = db.claim
  BY SmoothOdd DEF ResolvePaid, Oddities
<1>3. db'.due = db.due /\ db'.marked = db.marked
  BY <1>1, OnlyTheClaim
<1>4. work[r].claim = db.claim => (db'.claim.open => db'.claim.how # "open")
  BY <1>1, SettlesNow
<1>5. Smooth(note') => (db'.due > 0 /\ ~db.marked => AnotherIs(r, {"after", "fresh"}))
  BY <1>1, <1>2, <1>3 DEF Carried, SettlesWhatIsPaid
<1>6. QED
  BY <1>1, <1>2, <1>3, <1>4, <1>5, Dues, WritesCarry

LEMMA WaiveCarries ==
    ASSUME ShortAssumption, Shape, Carried, NEW r \in Requests, DecideWaive(r)
    PROVE  Carried'
<1> DEFINE d == [db EXCEPT !.claim.decision = "waive", !.due = 0]
<1>1. /\ Loaded(r) /\ Busy(r, {"waive"}) /\ work' = [work EXCEPT ![r] = Idle] /\ r \in Workers
      /\ db' = Resolved(d, work[r].claim, "waived")
  BY DEF DecideWaive, Loaded, Carrying, Busy, Workers
<1>2. Smooth(note') => Smooth(note) /\ work[r].claim = db.claim
  BY SmoothOdd DEF DecideWaive, Oddities
<1>3. /\ d \in DbType /\ d.due = 0 /\ d.marked = db.marked
      /\ d.claim = [db.claim EXCEPT !.decision = "waive"] /\ d.claim \in ClaimType
  <2>1. 0 \in 0 .. Price
    <3>1. Price \in Nat
      BY DEF ShortAssumption
    <3>2. QED
      BY ONLY <3>1
  <2>2. db \in DbType /\ db.claim \in ClaimType
    BY DEF Shape, DbType
  <2>3. [db.claim EXCEPT !.decision = "waive"] \in ClaimType
    BY <2>2 DEF ClaimType
  <2> DEFINE c == [db.claim EXCEPT !.decision = "waive"]
  <2>4. d = [db EXCEPT !.claim = c, !.due = 0]
    BY <2>2 DEF DbType
  <2>5. c \in ClaimType
    BY <2>3
  <2> HIDE DEF c
  <2>6. d \in DbType /\ d.due = 0 /\ d.marked = db.marked /\ d.claim = c
    BY <2>1, <2>2, <2>4, <2>5 DEF DbType
  <2>7. QED
    BY <2>5, <2>6 DEF c
<1> HIDE DEF d
<1>4. db'.due = 0 /\ db'.marked = db.marked
  BY <1>1, <1>3, OnlyTheClaim
<1>5. Smooth(note') => (db'.claim.open => db'.claim.how # "open")
  <2> SUFFICES ASSUME Smooth(note')
               PROVE  db'.claim.how # "open"
    OBVIOUS
  <2>1. /\ work[r].claim = db.claim /\ db.claim.open /\ db.claim.how = "open" /\ db.claim \in ClaimType
    BY <1>1, <1>2 DEF Carried, OneCarries, Shape, DbType
  <2>2. /\ d.claim.open /\ d.claim = [work[r].claim EXCEPT !.decision = d.claim.decision] /\ work[r].claim.how = "open"
    BY <1>3, <2>1 DEF ClaimType
  <2>3. db'.claim.how = "waived"
    <3>1. PICK loaded \in ClaimType : loaded = work[r].claim
      BY <2>1
    <3>2. d.claim.open /\ d.claim = [loaded EXCEPT !.decision = d.claim.decision] /\ loaded.how = "open"
      BY <2>2, <3>1
    <3> DEFINE e == Resolved(d, loaded, "waived")
    <3>3. e.claim.how = "waived"
      <4>1. /\ d.claim.open /\ d.claim = [loaded EXCEPT !.decision = d.claim.decision] /\ loaded.how = "open"
                 => /\ e.claim.how = "waived" /\ e.claim.applied = loaded.applied
                    /\ e.claim.status = loaded.status /\ e.claim.replied = loaded.replied
                    /\ e.claim.returned = (loaded.returned \/ loaded.applied > 0)
                    /\ loaded.applied > 0 /\ ~loaded.returned /\ Returned(d) = 0
                          => Returned(e) = loaded.applied
                    /\ loaded.applied = 0 \/ loaded.returned => Returned(e) = Returned(d)
        <5>1. d \in DbType /\ loaded \in ClaimType /\ "waived" \in {"paid", "waived"}
          BY <1>3
        <5>2. QED
          BY ONLY <5>1, Resolving
      <4> HIDE DEF e
      <4>2. QED
        BY ONLY <3>2, <4>1
    <3>4. QED
      BY <1>1, <3>1, <3>3
  <2>4. QED
    BY <2>3
<1>6. ~(db'.due > 0) /\ db'.due \in Int
  BY <1>4
<1>7. QED
  BY <1>1, <1>2, <1>4, <1>5, <1>6, WritesCarry

LEMMA RequestsCarry ==
    ASSUME ShortAssumption, Shape, Carried, NEW r \in Requests,
           \/ Completion(r) \/ ApproveProof(r) \/ RejectProof(r) \/ BankDecide(r)
           \/ LoadAfter(r) \/ LoadFresh(r) \/ LoadSync(r) \/ LoadDone(r) \/ LoadDecide(r) \/ DecideCollect(r) \/ Abort(r)
    PROVE  Carried'
<1>1. /\ db \in DbType /\ db.claim \in ClaimType /\ r \in Workers /\ Price \in Nat
      /\ db.due \in 0 .. Price /\ db.proof \in 0 .. Price
  BY DEF Shape, DbType, Workers, ShortAssumption
<1>2. CASE Completion(r)
  <2>1. PICK due \in 0 .. Price : db' = [db EXCEPT !.due = due]
    BY <1>2 DEF Completion
  <2>2. db'.claim = db.claim /\ db'.due = due /\ db'.marked = db.marked /\ due \in Int
    BY <1>1, <2>1 DEF DbType
  <2>3. Smooth(note') => Smooth(note)
    BY <1>2, SmoothCount DEF Completion, Starts, Acted
  <2>4. QED
    BY <1>2, <2>2, <2>3, BeginsCarry DEF Completion, Starts
<1>3. CASE ApproveProof(r)
  <2> DEFINE credit == IF db.proof < db.due THEN db.proof ELSE db.due
             moved == IF db.marked THEN db.moved ELSE credit
  <2>1. db' = [db EXCEPT !.proof = 0, !.due = db.due - credit, !.moved = moved]
    BY <1>3 DEF ApproveProof
  <2>2. db.due - credit \in Int /\ db.due - credit <= db.due
    BY <1>1
  <2> HIDE DEF credit, moved
  <2>3. db'.claim = db.claim /\ db'.due = db.due - credit /\ db'.marked = db.marked
    BY <1>1, <2>1 DEF DbType
  <2>4. QED
    BY <1>3, <2>2, <2>3, BeginsCarry DEF ApproveProof
<1>4. CASE RejectProof(r)
  <2>1. db'.claim = db.claim /\ db'.due = db.due /\ db'.marked = db.marked
    BY <1>1, <1>4 DEF RejectProof, DbType
  <2>2. QED
    BY <1>4, <2>1, Dues, BeginsCarry DEF RejectProof
<1>5. CASE BankDecide(r)
  <2>1. CASE db' = [db EXCEPT !.moved = 0, !.marked = FALSE] /\ To(r, "fresh") /\ UNCHANGED note
    <3>1. db'.claim = db.claim /\ db'.due = db.due
      BY <1>1, <2>1 DEF DbType
    <3>2. QED
      BY <1>5, <2>1, <3>1, Dues, BeginsCarry DEF BankDecide
  <2>2. CASE note' = Odd("only the ledger", TRUE)
    <3>1. ~Smooth(note')
      BY <2>2, SmoothOdd DEF Oddities
    <3>2. QED
      BY <3>1 DEF Carried
  <2>3. QED
    BY <1>5, <2>1, <2>2 DEF BankDecide
<1>6. ASSUME NEW op \in {"open", "open fresh", "resolve"}, Load(r, op), UNCHANGED db,
             op = "resolve" => db.due <= 0, op # "resolve" => db.due > 0
      PROVE  Carried'
  <2> DEFINE w == [op |-> op, claim |-> db.claim]
  <2>1. w \in WorkType /\ w.op = op
    BY <1>1, WorkValues DEF Carrying
  <2>2. Smooth(note') => Smooth(note) /\ ~Overlaps(r)
    <3>1. Overlaps(r) \in BOOLEAN
      BY DEF Overlaps
    <3>2. QED
      BY <1>6, <3>1, SmoothOdd DEF Load, Oddities
  <2>3. work' = [work EXCEPT ![r] = w]
    BY <1>6 DEF Load
  <2> HIDE DEF w
  <2>4. QED
    BY <1>6, <2>1, <2>2, <2>3, LoadsCarry
<1>7. CASE LoadAfter(r)
  <2>1. CASE db.due > 0
    BY <1>6, <1>7, <2>1 DEF LoadAfter
  <2>2. CASE ~(db.due > 0)
    <3>1. db.due <= 0
      BY <1>1, <2>2
    <3>2. QED
      BY <1>6, <1>7, <2>2, <3>1 DEF LoadAfter
  <2>3. QED
    BY <2>1, <2>2
<1>8. CASE LoadFresh(r)
  <2>1. CASE db.due > 0
    BY <1>6, <1>8, <2>1 DEF LoadFresh
  <2>2. CASE ~(db.due > 0)
    <3>0. work[r] = [op |-> "fresh"] /\ [op |-> "fresh"].op = "fresh"
      BY <1>8 DEF LoadFresh
    <3>1. db.due <= 0 /\ work[r].op = "fresh"
      BY ONLY <1>1, <2>2, <3>0
    <3>2. QED
      BY <1>8, <2>2, <3>1, EndsCarry DEF LoadFresh
  <2>3. QED
    BY <2>1, <2>2
<1>9. CASE LoadSync(r)
  <2>1. CASE db.due <= 0
    BY <1>6, <1>9, <2>1 DEF LoadSync
  <2>2. CASE ~(db.due <= 0)
    <3>1. db.due > 0 /\ work[r].op = "sync"
      BY <1>1, <1>9, <2>2 DEF LoadSync
    <3>2. QED
      BY <1>9, <2>2, <3>1, EndsCarry DEF LoadSync
  <2>3. QED
    BY <2>1, <2>2
<1>10. CASE LoadDone(r) \/ LoadDecide(r)
  <2>1. Smooth(note') => Smooth(note) /\ ~Overlaps(r)
    <3>1. Overlaps(r) \in BOOLEAN
      BY DEF Overlaps
    <3>2. QED
      BY <1>10, <3>1, SmoothOdd DEF LoadDone, LoadDecide, Starts, Oddities
  <2>2. CASE LoadDone(r)
    <3> DEFINE w == [op |-> "done", claim |-> db.claim, due |-> db.due]
    <3>1. w \in WorkType /\ w.op = "done" /\ w.claim = db.claim /\ w.due = db.due
      BY <1>1, WorkValues
    <3>2. work' = [work EXCEPT ![r] = w]
      BY <2>2 DEF LoadDone
    <3> HIDE DEF w
    <3>3. QED
      BY <2>1, <2>2, <3>1, <3>2, LoadsCarry DEF LoadDone, Starts
  <2>3. CASE LoadDecide(r)
    <3>1. PICK op \in {"collect", "waive"} : work' = [work EXCEPT ![r] = [op |-> op, claim |-> db.claim]]
      BY <2>3 DEF LoadDecide
    <3> DEFINE w == [op |-> op, claim |-> db.claim]
    <3>2. w \in WorkType /\ w.op = op /\ w.claim = db.claim
      BY <1>1, WorkValues DEF Carrying
    <3>3. work' = [work EXCEPT ![r] = w]
      BY <3>1
    <3> HIDE DEF w
    <3>4. QED
      BY <2>1, <2>3, <3>2, <3>3, LoadsCarry DEF LoadDecide, Starts
  <2>4. QED
    BY <1>10, <2>2, <2>3
<1>11. CASE DecideCollect(r)
  <2>1. db' = [db EXCEPT !.claim = [db.claim EXCEPT !.decision = "collect"]]
    BY <1>1, <1>11 DEF DecideCollect, DbType
  <2>2. db'.claim = [db.claim EXCEPT !.decision = "collect"] /\ db'.due = db.due /\ db'.marked = db.marked
    BY <1>1, <2>1 DEF DbType
  <2>3. db'.claim.open = db.claim.open /\ db'.claim.how = db.claim.how
    BY <1>1, <2>2 DEF ClaimType
  <2>4. QED
    BY <1>11, <2>2, <2>3, EndsCarry DEF DecideCollect
<1>12. CASE Abort(r)
  <2>1. note' = [note EXCEPT !.trouble = @ + 1] /\ note \in NoteType
    BY <1>12 DEF Abort, Shape
  <2>2. note'.trouble = note.trouble + 1 /\ note.trouble \in 0 .. MaxTrouble
    BY <2>1 DEF NoteType
  <2>3. note'.trouble # 0
    BY ONLY <2>2
  <2>4. QED
    BY <2>3 DEF Carried, Smooth
<1>13. QED
  BY <1>2, <1>3, <1>4, <1>5, <1>7, <1>8, <1>9, <1>10, <1>11, <1>12

LEMMA RestCarry ==
    ASSUME ShortAssumption, Shape, Core, Carried,
           \/ SubmitProof \/ MarkNotReceived \/ RecordPaymentEntry \/ ReplyShort \/ Pass \/ JobSelect \/ JobFine
           \/ UNCHANGED vars
    PROVE  Carried'
<1>1. db \in DbType /\ db.claim \in ClaimType /\ "job" \in Workers /\ \A o \in Requests : o \in Workers /\ o # "job"
  BY DEF Shape, DbType, Workers, ShortAssumption
<1>2. ASSUME UNCHANGED work \/ (\E w \in WorkType : work' = [work EXCEPT !["job"] = w])
      PROVE  \A o \in Requests : work'[o] = work[o]
  BY <1>1, <1>2 DEF Shape
<1>3. CASE SubmitProof
  <2>1. db'.claim = db.claim /\ db'.due = db.due /\ db'.marked = db.marked
    BY <1>1, <1>3 DEF SubmitProof, DbType
  <2>2. Smooth(note') => Smooth(note)
    BY <1>3, SmoothCount DEF SubmitProof, Acted
  <2>3. QED
    BY <1>2, <1>3, <2>1, <2>2, OthersCarry DEF SubmitProof
<1>4. CASE MarkNotReceived
  <2>1. db' = [db EXCEPT !.marked = TRUE, !.due = db.due + db.moved] /\ work' = work /\ note' = note
    BY <1>4 DEF MarkNotReceived
  <2>2. db'.claim = db.claim /\ db'.marked /\ db'.due = db.due + db.moved
    BY <1>1, <2>1 DEF DbType
  <2>3. db.due \in Int /\ db.moved \in Int /\ db.moved >= 0
    <3>1. db.moved \in 0 .. Price
      BY <1>1 DEF DbType
    <3>2. db.moved \in Int /\ db.moved >= 0
      BY ONLY <3>1
    <3>3. QED
      BY <3>2, Dues
  <2>4. db'.due <= 0 => db.due <= 0
    BY ONLY <2>2, <2>3
  <2> SUFFICES ASSUME Smooth(note)
               PROVE  (OneCarries /\ OpenIsSettled /\ SettledIsOpened /\ OpensWhatIsDue /\ SettlesWhatIsPaid)'
    BY <2>1 DEF Carried
  <2>5. OneCarries /\ OpenIsSettled /\ OpensWhatIsDue
    BY DEF Carried
  <2>6. OneCarries'
    BY <2>1, <2>5 DEF OneCarries, Loaded, Busy
  <2>7. OpenIsSettled'
    BY <2>1, <2>2, <2>4, <2>5 DEF OpenIsSettled, Busy
  <2>8. SettledIsOpened' /\ SettlesWhatIsPaid'
    BY <2>2 DEF SettledIsOpened, SettlesWhatIsPaid
  <2>9. OpensWhatIsDue'
    BY <2>1, <2>4, <2>5 DEF OpensWhatIsDue, AnotherIs, Busy
  <2>10. QED
    BY <2>6, <2>7, <2>8, <2>9
<1>5. CASE RecordPaymentEntry
  <2>1. ~Smooth(note')
    BY <1>5, SmoothOdd DEF RecordPaymentEntry, Oddities
  <2>2. QED
    BY <2>1 DEF Carried
<1>6. CASE ReplyShort
  <2>1. PICK answer \in {"confirmed", "disputed"} :
          db' = IF db.age < 2 THEN Added([db EXCEPT !.claim.replied = TRUE, !.claim.status = answer], Bonus, "short_reply")
                              ELSE [db EXCEPT !.claim.replied = TRUE, !.claim.status = answer]
    BY <1>6 DEF ReplyShort
  <2> DEFINE d == [db EXCEPT !.claim.replied = TRUE, !.claim.status = answer]
  <2>2. d \in DbType /\ d.claim = [db.claim EXCEPT !.replied = TRUE, !.status = answer] /\ d.due = db.due /\ d.marked = db.marked
    BY <1>1 DEF DbType, ClaimType
  <2>4. db' = d \/ db' = Added(d, Bonus, "short_reply")
    BY <2>1
  <2> HIDE DEF d
  <2>3. d.claim.open = db.claim.open /\ d.claim.how = db.claim.how
    BY <1>1, <2>2 DEF ClaimType
  <2>5. db'.claim = d.claim /\ db'.due = d.due /\ db'.marked = d.marked
    BY <2>2, <2>4, Adding DEF Bonus, Reasons
  <2>6. work' = work /\ note' = note
    BY <1>6 DEF ReplyShort
  <2>7. QED
    BY <1>2, <2>2, <2>3, <2>5, <2>6, OthersCarry
<1>7. CASE Pass
  <2>1. db'.claim = db.claim /\ db'.due = db.due /\ db'.marked = db.marked
    BY <1>1, <1>7 DEF Pass, DbType
  <2>2. note \in NoteType /\ \E b : note' = [note EXCEPT !.silent = b]
    BY <1>7 DEF Pass, Shape
  <2>3. note'.trouble = note.trouble /\ note'.odd = note.odd
    BY <2>2 DEF NoteType
  <2>4. Smooth(note') => Smooth(note)
    BY <2>3 DEF Smooth
  <2>5. QED
    BY <1>2, <1>7, <2>1, <2>4, OthersCarry DEF Pass
<1>8. CASE JobSelect
  <2>1. [op |-> "fine", claim |-> db.claim] \in WorkType
    BY <1>1, WorkValues DEF Carrying
  <2>2. \A o \in Requests : work'[o] = work[o]
    BY <1>2, <1>8, <2>1 DEF JobSelect
  <2>3. db' = db /\ note' = note
    BY <1>8 DEF JobSelect
  <2>4. QED
    BY <2>2, <2>3, OthersCarry
<1>9. CASE JobFine
  <2> DEFINE loaded == work["job"].claim
             taken == -AddPoints(db, -Fine, "short_no_reply")
             new == [loaded EXCEPT !.status = "no_reply", !.applied = IF taken > @ THEN taken ELSE @]
             e == Added(db, -Fine, "short_no_reply")
  <2>1. loaded \in ClaimType
    <3>1. Loaded("job")
      BY <1>9 DEF JobFine, Core, JobHasRead, Loaded, Carrying
    <3>2. QED
      BY <1>1, <3>1, LoadedClaim
  <2>2. new.how = loaded.how /\ new.open = loaded.open
    BY <2>1 DEF ClaimType
  <2>3. -Fine \in Int /\ "short_no_reply" \in Reasons
    BY DEF Fine, Reasons
  <2>4. e \in DbType /\ e.claim = db.claim /\ e.due = db.due /\ e.marked = db.marked
    BY <1>1, <2>3, Adding
  <2>5. db' = [e EXCEPT !.claim = Flushed(e.claim, loaded, new)]
    BY <1>9 DEF JobFine
  <2>6. \E happened \in BOOLEAN, what \in Oddities : note' = Odd(what, happened)
    BY <1>9 DEF JobFine, Oddities
  <2>7. \A o \in Requests : work'[o] = work[o]
    BY <1>2, <1>9, IdleIsIdle DEF JobFine
  <2> HIDE DEF e, new, loaded
  <2>8. db'.claim = Flushed(db.claim, loaded, new) /\ db'.due = db.due /\ db'.marked = db.marked
    BY <2>4, <2>5 DEF DbType
  <2>9. db'.claim.how = db.claim.how /\ db'.claim.open = db.claim.open
    <3>1. {"how", "open"} \subseteq DOMAIN db.claim
      BY <1>1 DEF ClaimType
    <3>2. QED
      BY <2>2, <2>8, <3>1 DEF Flushed
  <2>10. QED
    BY <2>6, <2>7, <2>8, <2>9, SmoothOdd, OthersCarry
<1>10. CASE UNCHANGED vars
  <2>1. Smooth(note') => Smooth(note)
    BY <1>10 DEF vars
  <2>2. QED
    BY <1>2, <1>10, <2>1, OthersCarry DEF vars
<1>11. QED
  BY <1>3, <1>4, <1>5, <1>6, <1>7, <1>8, <1>9, <1>10

LEMMA CarryingStarts ==
    ASSUME ShortAssumption, Init
    PROVE  Carried
<1>1. /\ \A r \in Requests : work[r].op = "idle"
      /\ db.claim.how = "open" /\ db.due = Price /\ Price \in Nat \ {0}
  <2>1. \A r \in Requests : work[r] = Idle
    BY DEF Init
  <2>2. PICK asked \in BOOLEAN : db.claim = [NoClaim EXCEPT !.open = asked] /\ db.due = Price
    BY DEF Init
  <2>3. QED
    BY <2>1, <2>2, IdleIsIdle DEF ShortAssumption, NoClaim
<1>2. ~(db.due <= 0)
  BY ONLY <1>1
<1>3. OneCarries
  BY <1>1 DEF OneCarries, Loaded, Carrying, Busy
<1>4. OpenIsSettled /\ SettledIsOpened
  BY <1>1, <1>2 DEF OpenIsSettled, SettledIsOpened
<1>5. OpensWhatIsDue /\ SettlesWhatIsPaid
  BY <1>1 DEF OpensWhatIsDue, SettlesWhatIsPaid, Busy
<1>6. QED
  BY <1>3, <1>4, <1>5 DEF Carried

LEMMA CarryingGoesOn ==
    ASSUME ShortAssumption, Shape, Core, Carried, [Next]_vars
    PROVE  Carried'
<1>1. CASE \/ SubmitProof \/ MarkNotReceived \/ RecordPaymentEntry \/ ReplyShort \/ Pass \/ JobSelect \/ JobFine
           \/ UNCHANGED vars
  BY <1>1, RestCarry
<1>2. ASSUME NEW r \in Requests,
             \/ Completion(r) \/ ApproveProof(r) \/ RejectProof(r) \/ BankDecide(r)
             \/ LoadAfter(r) \/ LoadFresh(r) \/ LoadSync(r) \/ LoadDone(r) \/ LoadDecide(r) \/ DecideCollect(r) \/ Abort(r)
      PROVE  Carried'
  BY <1>2, RequestsCarry
<1>3. ASSUME NEW r \in Requests, OpenShortClaim(r) \/ ResolvePaid(r) \/ MarkDueDone(r) \/ DecideWaive(r)
      PROVE  Carried'
  BY <1>3, OpenCarries, ResolveCarries, DoneCarries, WaiveCarries
<1>4. QED
  BY <1>1, <1>2, <1>3 DEF Next

LEMMA CarriedDues ==
    ASSUME ShortAssumption, Shape, Carried
    PROVE  DueIsCarried
<1> SUFFICES ASSUME Quiet, Smooth(note), ~db.marked, db.claim.open
             PROVE  db.due > 0 <=> db.claim.how = "open"
  BY DEF DueIsCarried, Smooth
<1>1. OpenIsSettled /\ SettledIsOpened /\ db.due \in Int
  BY Dues DEF Carried
<1>2. \A r \in Requests : work[r].op = "idle"
  <2>1. DOMAIN work = Workers
    BY DEF Shape
  <2>2. QED
    BY <2>1, IdleIsIdle DEF Quiet, Workers
<1>3. db.due <= 0 => db.claim.how # "open"
  BY <1>1, <1>2 DEF OpenIsSettled, Busy
<1>4. db.due > 0 => db.claim.how = "open"
  BY <1>1, <1>2 DEF SettledIsOpened, Busy
<1>5. ~(db.due > 0) => db.due <= 0
  BY ONLY <1>1
<1>6. QED
  BY ONLY <1>3, <1>4, <1>5

-----------------------------------------------------------------------------
(* The theorems                                                            *)

LEMMA Initially ==
    ASSUME ShortAssumption, Init
    PROVE  Shape /\ Core
<1>1. PICK asked \in BOOLEAN :
        db = [claim |-> [NoClaim EXCEPT !.open = asked], age |-> 0, due |-> Price, points |-> Points,
              entry |-> [x \in Reasons |-> 0], proof |-> 0, moved |-> 0, marked |-> FALSE]
  BY DEF Init
<1>2. work = [x \in Workers |-> Idle] /\ note = [acts |-> 0, trouble |-> 0, silent |-> FALSE, odd |-> {}]
  BY DEF Init, Workers
<1> DEFINE first == [NoClaim EXCEPT !.open = asked]
<1>3. /\ first \in ClaimType /\ first.applied = 0 /\ ~first.returned /\ ~first.replied
      /\ first.status = "awaiting_reply" /\ first.how = "open"
  <2>1. NoClaim \in ClaimType
    BY Values
  <2>2. /\ NoClaim.applied = 0 /\ ~NoClaim.returned /\ ~NoClaim.replied
        /\ NoClaim.status = "awaiting_reply" /\ NoClaim.how = "open"
    BY DEF NoClaim
  <2>3. QED
    BY <2>1, <2>2 DEF ClaimType
<1> HIDE DEF first
<1>4. /\ db.claim = first /\ db.age = 0 /\ db.points = Points
      /\ \A x \in Reasons : db.entry[x] = 0
  BY <1>1 DEF first
<1>5. db \in DbType
  <2>1. Price \in 0 .. Price /\ 0 \in 0 .. Price /\ 0 \in 0 .. 2 /\ Points \in Nat
    <3>1. Price \in Nat /\ Points \in Nat
      BY DEF ShortAssumption
    <3>2. QED
      BY ONLY <3>1
  <2>2. [x \in Reasons |-> 0] \in [Reasons -> Int]
    OBVIOUS
  <2>3. db = [claim |-> first, age |-> 0, due |-> Price, points |-> Points,
              entry |-> [x \in Reasons |-> 0], proof |-> 0, moved |-> 0, marked |-> FALSE]
    BY <1>1 DEF first
  <2>4. QED
    BY ONLY <1>3, <2>1, <2>2, <2>3 DEF DbType
<1>6. work \in [Workers -> WorkType] /\ \A x \in Workers : work[x] = Idle
  BY <1>2 DEF WorkType
<1>7. note \in NoteType
  <2>1. 0 \in 0 .. MaxActs /\ 0 \in 0 .. MaxTrouble
    <3>1. MaxActs \in Nat /\ MaxTrouble \in Nat
      BY DEF ShortAssumption
    <3>2. QED
      BY ONLY <3>1
  <2>2. QED
    BY <1>2, <2>1 DEF NoteType
<1>8. \A x \in Workers : ~Loaded(x)
  <2>1. Idle.op = "idle" /\ "idle" \notin Carrying
    BY DEF Idle, Carrying
  <2>2. QED
    BY <1>6, <2>1 DEF Loaded
<1>9. Taken(db) = 0 /\ Returned(db) = 0 /\ Balance(db) = Points /\ db.entry["short_reply"] = 0 /\ Points \in Nat
  <2>1. Points \in Nat
    BY DEF ShortAssumption
  <2>2. QED
    BY <1>4, <2>1 DEF Taken, Returned, Balance, Reasons
<1>10. FinesFit
  BY <1>3, <1>4, <1>8, <1>9 DEF FinesFit, Fine
<1>11. JobHasRead /\ ClaimIsThere
  BY <1>6, <1>8, <1>9 DEF JobHasRead, ClaimIsThere, Workers
<1>12. FineFollowsClaim /\ AnswerKept
  BY <1>3, <1>4, <1>9 DEF FineFollowsClaim, AnswerKept
<1>13. SilenceKnown
  BY <1>3, <1>4, <1>6, <1>9 DEF SilenceKnown, Workers
<1>14. QED
  BY <1>5, <1>6, <1>7, <1>10, <1>11, <1>12, <1>13 DEF Shape, Core

\* Every step keeps the rows in flight and the claim together.
LEMMA CoreGoesOn ==
    ASSUME ShortAssumption, Shape, Core, [Next]_vars
    PROVE  (Shape /\ Core)'
<1>1. CASE UNCHANGED vars
  <2>1. ClaimStays /\ RowsAreRead /\ NotesKept
    BY <1>1, NotTurning, Plain DEF vars, ClaimStays, Shape
  <2>2. QED
    BY <2>1, SteadyKeeps
<1>2. CASE OnItsOwn
  BY <1>2, OnTheirOwn, SteadyKeeps
<1>3. ASSUME NEW r \in Requests, StartsRow(r)
      PROVE  (Shape /\ Core)'
  BY <1>3, ReadingRows, SteadyKeeps
<1>4. ASSUME NEW r \in Requests, MovesMoney(r)
      PROVE  (Shape /\ Core)'
  BY <1>4, MovingMoney, SteadyKeeps
<1>5. ASSUME NEW r \in Requests,
             OpenShortClaim(r) \/ ResolvePaid(r) \/ DecideWaive(r) \/ DecideCollect(r)
      PROVE  (Shape /\ Core)'
  BY <1>5, OpenKeeps, ResolveKeeps, WaiveKeeps, CollectKeeps
<1>6. CASE ReplyShort \/ Pass \/ JobSelect \/ JobFine
  BY <1>6, ReplyKeeps, PassKeeps, SelectKeeps, FineKeeps
<1>7. QED
  BY <1>1, <1>2, <1>3, <1>4, <1>5, <1>6 DEF Next, OnItsOwn, StartsRow, MovesMoney

ShortInv == Shape /\ Core /\ Carried

LEMMA ShortStarts ==
    ASSUME ShortAssumption, Init
    PROVE  ShortInv
  BY Initially, CarryingStarts DEF ShortInv

LEMMA ShortGoesOn ==
    ASSUME ShortAssumption, ShortInv, [Next]_vars
    PROVE  ShortInv'
<1>1. Shape /\ Core /\ Carried
  BY DEF ShortInv
<1>2. (Shape /\ Core)' /\ Carried'
  BY <1>1, CoreGoesOn, CarryingGoesOn
<1>3. QED
  BY <1>2 DEF ShortInv

\* What the invariant says to somebody who looks at the claim.
LEMMA ShortIsFaithful ==
    ASSUME ShortAssumption, ShortInv
    PROVE  TypeOK /\ Faithful
<1>1. Shape => TypeOK
  BY DEF Shape, DbType, ClaimType, NoteType, TypeOK
<1>2. Shape /\ Core => OneFine
  <2>1. SUFFICES ASSUME Shape, Core
                 PROVE  OneFine
    OBVIOUS
  <2>2. /\ db.entry["short_no_reply"] \in Int /\ db.entry["short_no_reply_returned"] \in Int
        /\ Balance(db) >= 0 /\ Taken(db) \in 0 .. Fine /\ Returned(db) \in 0 .. Taken(db) /\ Fine = 4
    BY <2>1 DEF Shape, DbType, Reasons, Core, FinesFit, Fine
  <2>3. QED
    BY ONLY <2>2 DEF OneFine, FineNow, Taken, Returned
<1>3. Shape /\ Core => SettledKeepsNoFine
  <2>1. SUFFICES ASSUME Shape, Core, db.claim.how # "open", InOrder(note)
                 PROVE  FineNow = 0
    BY DEF SettledKeepsNoFine, InOrder
  <2>2. Taken(db) = Returned(db)
    BY <2>1 DEF Core, FineFollowsClaim
  <2>3. db.entry["short_no_reply"] \in Int /\ db.entry["short_no_reply_returned"] \in Int
    BY <2>1 DEF Shape, DbType, Reasons
  <2>4. QED
    BY ONLY <2>2, <2>3 DEF FineNow, Taken, Returned
<1>4. Shape /\ Core => OnlySilenceIsFined
  <2>1. SUFFICES ASSUME Shape, Core, db.entry["short_no_reply"] # 0, Known(note)
                 PROVE  note.silent
    BY DEF OnlySilenceIsFined, Known
  <2>2. Taken(db) \in 0 .. Fine /\ Fine = 4 /\ db.entry["short_no_reply"] \in Int
    BY <2>1 DEF Shape, DbType, Reasons, Core, FinesFit, Fine
  <2>3. Taken(db) > 0
    BY ONLY <2>1, <2>2 DEF Taken
  <2>4. QED
    BY <2>1, <2>3 DEF Core, SilenceKnown
<1>5. Core => AnswerStands
  BY DEF Core, AnswerKept, AnswerStands, Straight
<1>6. Shape /\ Carried => DueIsCarried
  BY CarriedDues
<1>7. QED
  BY <1>1, <1>2, <1>3, <1>4, <1>5, <1>6 DEF ShortInv, Faithful

LEMMA Invariance ==
    ASSUME ShortAssumption
    PROVE  Spec => []ShortInv
<1>1. Init => ShortInv
  BY ShortStarts
<1>2. ShortInv /\ [Next]_vars => ShortInv'
  BY ShortGoesOn
<1>3. QED
  BY <1>1, <1>2, PTL DEF Spec

\* TypeOK: dues, screenshots and moved money stay within the price, and the columns within their values.
THEOREM TypeCorrect ==
    ASSUME ShortAssumption
    PROVE  Spec => []TypeOK
<1>1. ShortInv => TypeOK
  BY ShortIsFaithful
<1>2. QED
  BY <1>1, Invariance, PTL

\* OneFine: however the venue's requests and the job interleave, the player is fined once, with no
\* more than he has, and gets back no more than the fine (phase3_service.py add_points, _resolve,
\* run_short_payment_job).
THEOREM FinedOnce ==
    ASSUME ShortAssumption
    PROVE  Spec => []OneFine
<1>1. ShortInv => OneFine
  BY ShortIsFaithful DEF Faithful
<1>2. QED
  BY <1>1, Invariance, PTL

\* SettledKeepsNoFine: once the due is paid or waived the fine has come back, unless a request wrote by a
\* stale row or the job fined a claim that was already settled.
THEOREM SettlingReturnsTheFine ==
    ASSUME ShortAssumption
    PROVE  Spec => []SettledKeepsNoFine
<1>1. ShortInv => SettledKeepsNoFine
  BY ShortIsFaithful DEF Faithful
<1>2. QED
  BY <1>1, Invariance, PTL

\* OnlySilenceIsFined: a fine comes after 24 hours of a question that could have been answered.
THEOREM FinesAreForSilence ==
    ASSUME ShortAssumption
    PROVE  Spec => []OnlySilenceIsFined
<1>1. ShortInv => OnlySilenceIsFined
  BY ShortIsFaithful DEF Faithful
<1>2. QED
  BY <1>1, Invariance, PTL

\* AnswerStands: the player's answer stands until the venue asks again.
THEOREM AnswersStand ==
    ASSUME ShortAssumption
    PROVE  Spec => []AnswerStands
<1>1. ShortInv => AnswerStands
  BY ShortIsFaithful DEF Faithful
<1>2. QED
  BY <1>1, Invariance, PTL

\* DueIsCarried: with nothing under way, the claim is open if and only if something is due, unless requests
\* overlapped or died, a stale row was written, or only the ledger was told (phase3_service.py short_claim,
\* sync_claim_after_payment).
THEOREM DuesAreCarried ==
    ASSUME ShortAssumption
    PROVE  Spec => []DueIsCarried
<1>1. ShortInv => DueIsCarried
  BY ShortIsFaithful DEF Faithful
<1>2. QED
  BY <1>1, Invariance, PTL

-----------------------------------------------------------------------------
(* Sums over the bookings                                                  *)

\* A set of numbers that is not empty has a least one.
LEMMA LeastNumber ==
    ASSUME NEW S \in SUBSET Nat, S # {}
    PROVE  \E n \in S : \A m \in S : n <= m
<1>1. PICK n \in S : \A m \in S : ~(<<m, n>> \in OpToRel(<, Nat))
  BY NatLessThanWellFounded, WFMin
<1>2. \A m \in S : ~(m < n)
  BY <1>1 DEF OpToRel
<1>3. QED
  BY <1>2

\* The fold that PlayerPoints takes its sum with: the elements of a set one after another.
Pick(s) == CHOOSE b \in s : TRUE
Folded(e) ==
    CHOOSE fold : fold = [s \in SUBSET PurseBookings |-> IF s = {} THEN 0 ELSE Purse!OfBooking(e[Pick(s)]) + fold[s \ {Pick(s)}]]

LEMMA Picked == \A s : s # {} => Pick(s) \in s
  BY DEF Pick

\* Without the one that is taken next, one less.
LEMMA Smaller ==
    ASSUME IsFiniteSet(PurseBookings), NEW s \in SUBSET PurseBookings, s # {}
    PROVE  /\ s \ {Pick(s)} \in SUBSET PurseBookings
           /\ Cardinality(s) \in Nat /\ Cardinality(s \ {Pick(s)}) \in Nat
           /\ Cardinality(s \ {Pick(s)}) = Cardinality(s) - 1
<1>1. Pick(s) \in s
  BY Picked
<1>2. IsFiniteSet(s) /\ IsFiniteSet(s \ {Pick(s)})
  BY FS_Subset
<1>3. QED
  BY <1>1, <1>2, FS_RemoveElement, FS_CardinalityType

\* The fold exists: a least cardinality up to which it does not would have one up to which it does.
LEMMA FoldExists ==
    ASSUME IsFiniteSet(PurseBookings), NEW e
    PROVE  LET fold == Folded(e) IN
           fold = [s \in SUBSET PurseBookings |-> IF s = {} THEN 0 ELSE Purse!OfBooking(e[Pick(s)]) + fold[s \ {Pick(s)}]]
<1> DEFINE UpTo(n) == {s \in SUBSET PurseBookings : Cardinality(s) <= n}
           Folds(n, g) == g = [s \in UpTo(n) |-> IF s = {} THEN 0 ELSE Purse!OfBooking(e[Pick(s)]) + g[s \ {Pick(s)}]]
           Missing == {n \in Nat : ~ \E g : Folds(n, g)}
<1>1. Cardinality({}) = 0 /\ \A s \in SUBSET PurseBookings : Cardinality(s) \in Nat /\ (Cardinality(s) = 0 <=> s = {})
  BY FS_EmptySet, FS_Subset, FS_CardinalityType
<1>2. Missing = {}
  <2>1. SUFFICES ASSUME Missing # {}
                 PROVE  FALSE
    OBVIOUS
  <2>2. PICK n \in Missing : \A m \in Missing : n <= m
    BY <2>1, LeastNumber
  <2>3. n # 0
    <3>1. UpTo(0) = {{}}
      BY <1>1
    <3>2. Folds(0, [s \in UpTo(0) |-> 0])
      BY <3>1
    <3>3. QED
      BY <3>2
  <2>4. PICK g : Folds(n - 1, g)
    <3>1. n - 1 \in Nat /\ ~(n <= n - 1)
      BY <2>3
    <3>2. n - 1 \notin Missing
      BY <2>2, <3>1
    <3>3. QED
      BY <3>1, <3>2
  <2> DEFINE h == [s \in UpTo(n) |-> IF s = {} THEN 0 ELSE Purse!OfBooking(e[Pick(s)]) + g[s \ {Pick(s)}]]
  <2>5. \A s \in UpTo(n) : s # {} => /\ s \ {Pick(s)} \in UpTo(n - 1)
                                     /\ s \ {Pick(s)} \in UpTo(n)
    BY Smaller
  <2>6. \A s \in UpTo(n - 1) : s \in UpTo(n) /\ h[s] = g[s]
    <3>1. \A s \in UpTo(n - 1) : s \in UpTo(n)
      BY <1>1
    <3>2. \A s \in UpTo(n - 1) : g[s] = IF s = {} THEN 0 ELSE Purse!OfBooking(e[Pick(s)]) + g[s \ {Pick(s)}]
      BY <2>4
    <3>3. QED
      BY <3>1, <3>2
  <2>7. \A s \in UpTo(n) : h[s] = IF s = {} THEN 0 ELSE Purse!OfBooking(e[Pick(s)]) + h[s \ {Pick(s)}]
    BY <2>5, <2>6
  <2>8. Folds(n, h)
    BY <2>7
  <2>9. QED
    BY <2>8
<1>3. PICK g : Folds(Cardinality(PurseBookings), g)
  BY <1>1, <1>2
<1>4. UpTo(Cardinality(PurseBookings)) = SUBSET PurseBookings
  BY FS_Subset
<1>5. g = [s \in SUBSET PurseBookings |-> IF s = {} THEN 0 ELSE Purse!OfBooking(e[Pick(s)]) + g[s \ {Pick(s)}]]
  BY <1>3, <1>4
<1>6. QED
  BY <1>5 DEF Folded

\* A booking's amount changes the sum by as much.
LEMMA SumOfOneChange ==
    ASSUME IsFiniteSet(PurseBookings), PursePoints \in Nat, NEW old, NEW new, NEW b \in PurseBookings,
           \A x \in PurseBookings : Purse!OfBooking(old[x]) \in Int /\ Purse!OfBooking(new[x]) \in Int,
           \A x \in PurseBookings : x # b => new[x] = old[x]
    PROVE  /\ Purse!Sum(old) \in Int
           /\ Purse!Sum(new) = Purse!Sum(old) + Purse!OfBooking(new[b]) - Purse!OfBooking(old[b])
<1> DEFINE F == Folded(old)
           G == Folded(new)
           More(s) == IF b \in s THEN Purse!OfBooking(new[b]) - Purse!OfBooking(old[b]) ELSE 0
           Holds(s) == F[s] \in Int /\ G[s] = F[s] + More(s)
           Sizes == {Cardinality(s) : s \in {t \in SUBSET PurseBookings : ~Holds(t)}}
<1>1. /\ \A s \in SUBSET PurseBookings : F[s] = IF s = {} THEN 0 ELSE Purse!OfBooking(old[Pick(s)]) + F[s \ {Pick(s)}]
      /\ \A s \in SUBSET PurseBookings : G[s] = IF s = {} THEN 0 ELSE Purse!OfBooking(new[Pick(s)]) + G[s \ {Pick(s)}]
  <2>1. /\ F = [s \in SUBSET PurseBookings |-> IF s = {} THEN 0 ELSE Purse!OfBooking(old[Pick(s)]) + F[s \ {Pick(s)}]]
        /\ G = [s \in SUBSET PurseBookings |-> IF s = {} THEN 0 ELSE Purse!OfBooking(new[Pick(s)]) + G[s \ {Pick(s)}]]
    BY FoldExists
  <2> HIDE DEF F, G
  <2>2. QED
    BY <2>1
<1> HIDE DEF F, G
<1>2. Sizes = {}
  <2>1. SUFFICES ASSUME Sizes # {}
                 PROVE  FALSE
    OBVIOUS
  <2>2. Sizes \in SUBSET Nat
    BY FS_Subset, FS_CardinalityType
  <2>3. PICK n \in Sizes : \A m \in Sizes : n <= m
    BY <2>1, <2>2, LeastNumber
  <2>4. PICK s \in SUBSET PurseBookings : ~Holds(s) /\ n = Cardinality(s)
    BY <2>3
  <2>5. s # {}
    <3>1. F[{}] = 0 /\ G[{}] = 0 /\ More({}) = 0
      BY <1>1
    <3>2. QED
      BY <2>4, <3>1
  <2> DEFINE t == s \ {Pick(s)}
  <2>6. /\ Pick(s) \in s /\ t \in SUBSET PurseBookings /\ Cardinality(t) \in Nat
        /\ Cardinality(s) \in Nat /\ Cardinality(t) = Cardinality(s) - 1
    BY <2>5, Smaller, Picked
  <2>7. Holds(t)
    <3>1. ~(Cardinality(s) <= Cardinality(t))
      BY <2>6
    <3>2. Cardinality(t) \notin Sizes
      BY <2>3, <2>4, <3>1
    <3>3. QED
      BY <2>6, <3>2
  <2>8. /\ F[s] = Purse!OfBooking(old[Pick(s)]) + F[t] /\ G[s] = Purse!OfBooking(new[Pick(s)]) + G[t]
        /\ Purse!OfBooking(old[Pick(s)]) \in Int /\ Purse!OfBooking(new[Pick(s)]) \in Int /\ Purse!OfBooking(old[b]) \in Int /\ Purse!OfBooking(new[b]) \in Int
        /\ Pick(s) # b => Purse!OfBooking(new[Pick(s)]) = Purse!OfBooking(old[Pick(s)])
    BY <1>1, <2>5, <2>6
  <2>9. More(s) = IF Pick(s) = b THEN Purse!OfBooking(new[b]) - Purse!OfBooking(old[b]) ELSE More(t)
    BY <2>6
  <2>10. Pick(s) = b => More(t) = 0
    OBVIOUS
  <2>11. More(t) \in Int
    BY <2>8
  <2> HIDE DEF More, t
  <2>12. Holds(s)
    BY <2>7, <2>8, <2>9, <2>10, <2>11
  <2>13. QED
    BY <2>4, <2>12
<1>3. Holds(PurseBookings)
  <2>1. PurseBookings \in SUBSET PurseBookings /\ (~Holds(PurseBookings) => Cardinality(PurseBookings) \in Sizes)
    OBVIOUS
  <2>2. QED
    BY <1>2, <2>1
<1>4. Purse!Sum(old) = PursePoints + F[PurseBookings] /\ Purse!Sum(new) = PursePoints + G[PurseBookings]
  BY DEF Purse!Sum, Purse!MapThenSumSet, Purse!MapThenFoldSet, Folded, Pick, F, G
<1>5. QED
  BY <1>3, <1>4

-----------------------------------------------------------------------------
(* The points: the invariant                                               *)

PurseRow == [status : {"held", "booked", "no_show", "completed", "cancelled"}, price : Int, final : BOOLEAN,
               transfer : Nat, cash : Nat, back : Nat, discount : Nat, whole : BOOLEAN,
               bank : {"none", "reversed", "marked"}, missing : Nat, decided : SUBSET {"staff", "player"}, taken : BOOLEAN]
TakeRequest == [b : PurseBookings, given : SUBSET {"transfer_booking", "noshow_transfer_ok"}, balance : Nat]
PurseWork == [look : SUBSET PurseBookings, award : SUBSET PurseBookings, redeem : SUBSET PurseBookings,
              decide : SUBSET (PurseBookings \X {"staff", "player"}), take : SUBSET TakeRequest, job : SUBSET PurseBookings]
PurseNote == [pays : Nat, overtaken : SUBSET ({"redeem", "take"} \X PurseBookings), over : Nat,
              late : SUBSET PurseBookings, short : SUBSET PurseBookings]
PurseTypes ==
    rows \in [PurseBookings -> PurseRow] /\ list \in [PurseBookings -> [Purse!Reasons -> Int]]
    /\ work \in PurseWork /\ note \in PurseNote

\* Until the final price what was paid fits the price, and the price and the discount make the first price; the
\* discount was spent for.
PriceIsPaidFor(b) ==
    /\ rows[b].status \in {"held", "booked"} => ~rows[b].final
    /\ ~rows[b].final => Purse!Due(b) >= 0 /\ rows[b].price + rows[b].discount = PursePrice
    /\ rows[b].discount <= PurseDiscount
    /\ list[b]["redeem"] = IF rows[b].discount > 0 THEN -Purse!RedeemPoints ELSE 0
    /\ Purse!Locked(b) => /\ rows[b].status \in {"held", "booked"} /\ rows[b].discount = 0
                          /\ Purse!Due(b) > 0 /\ PurseDiscount > 0

\* Points come back once, from a booking that died with points in it.
PointsComeBack(b) ==
    /\ list[b]["redeem_returned"] \in {0, -list[b]["redeem"]}
    /\ list[b]["redeem_returned"] # 0 \/ b \in work.job => rows[b].status = "cancelled"
    /\ b \in work.job => list[b]["redeem"] # 0

\* Who looks at the entries, awards, or was awarded has been paid for in full without cash.
Earned(b) ==
    /\ list[b]["transfer_booking"] \in {0, Purse!TransferPoints} /\ list[b]["noshow_transfer_ok"] \in {0, Purse!NoshowTransferPoints}
    /\ Purse!Settled(rows[b]) \/ b \in work.award \/ list[b]["transfer_booking"] # 0 => rows[b].whole
    /\ b \in work.look /\ rows[b].cash = 0 => rows[b].whole

\* The points of a transfer that never came: no more than were earned are taken back, by one request, when the player
\* was asked; and all of it, unless it was awarded too late or had been spent.
Takes(b) == {t \in work.take : t.b = b}
NoMoreTaken(b) ==
    LET tb == list[b]["transfer_booking"]
        ok == list[b]["noshow_transfer_ok"]
        tbBack == list[b]["transfer_booking_taken_back"]
        okBack == list[b]["noshow_transfer_taken_back"] IN
    /\ tbBack <= 0 /\ tb + tbBack >= 0 /\ okBack <= 0 /\ ok + okBack >= 0
    /\ tbBack # 0 \/ okBack # 0 => rows[b].taken
OneTakes(b) ==
    /\ rows[b].taken => "player" \in rows[b].decided /\ <<b, "player">> \notin work.decide
    /\ \A t \in Takes(b) :
        /\ Takes(b) = {t} /\ rows[b].taken
        /\ list[b]["transfer_booking_taken_back"] = 0 /\ list[b]["noshow_transfer_taken_back"] = 0
        /\ \A r \in t.given : list[b][r] # 0
        /\ b \notin note.late => "transfer_booking" \in t.given \/ list[b]["transfer_booking"] = 0
AllTaken(b) ==
    rows[b].taken /\ Takes(b) = {} /\ b \notin note.late \cup note.short =>
        list[b]["transfer_booking"] + list[b]["transfer_booking_taken_back"] = 0
Asked(b) == NoMoreTaken(b) /\ OneTakes(b) /\ AllTaken(b)

OfOne(b) == PriceIsPaidFor(b) /\ PointsComeBack(b) /\ Earned(b) /\ Asked(b)

\* What a deduction under way has read is still there, unless another one was written since.
Funds ==
    /\ Purse!Sum(list) >= -note.over
    /\ \A b \in work.redeem : <<"redeem", b>> \notin note.overtaken => Purse!Sum(list) >= Purse!RedeemPoints
    /\ \A t \in work.take : <<"take", t.b>> \notin note.overtaken /\ t.balance > 0 => Purse!Sum(list) >= t.balance

PurseInv == PurseTypes /\ (\A b \in PurseBookings : OfOne(b)) /\ Funds

LEMMA OfBookingIsANumber == \A e \in [PurseBookings -> [Purse!Reasons -> Int]] : \A b \in PurseBookings : Purse!OfBooking(e[b]) \in Int
  BY DEF Purse!OfBooking, Purse!Reasons

\* One entry changes the sum by as much.
LEMMA Changed ==
    ASSUME IsFiniteSet(PurseBookings), PursePoints \in Nat, NEW old \in [PurseBookings -> [Purse!Reasons -> Int]],
           NEW new \in [PurseBookings -> [Purse!Reasons -> Int]], NEW b \in PurseBookings, NEW r \in Purse!Reasons,
           \A x \in PurseBookings : x # b => new[x] = old[x],
           \A q \in Purse!Reasons : q # r => new[b][q] = old[b][q]
    PROVE  Purse!Sum(old) \in Int /\ Purse!Sum(new) = Purse!Sum(old) + new[b][r] - old[b][r]
<1>1. Purse!Sum(old) \in Int /\ Purse!Sum(new) = Purse!Sum(old) + Purse!OfBooking(new[b]) - Purse!OfBooking(old[b])
  BY SumOfOneChange, OfBookingIsANumber
<1>2. \A q \in Purse!Reasons : new[b][q] \in Int /\ old[b][q] \in Int
  OBVIOUS
<1>3. Purse!OfBooking(new[b]) - Purse!OfBooking(old[b]) = new[b][r] - old[b][r]
  BY <1>2 DEF Purse!OfBooking, Purse!Reasons
<1>4. Purse!OfBooking(new[b]) \in Int /\ Purse!OfBooking(old[b]) \in Int
  BY OfBookingIsANumber
<1>5. QED
  BY <1>1, <1>2, <1>3, <1>4

LEMMA SumIsANumber ==
    ASSUME IsFiniteSet(PurseBookings), PursePoints \in Nat, NEW e \in [PurseBookings -> [Purse!Reasons -> Int]], NEW b \in PurseBookings
    PROVE  Purse!Sum(e) \in Int
  BY SumOfOneChange, OfBookingIsANumber

\* What add_points leaves alone, what it writes, and what it adds to the sum.
LEMMA PointsAdded ==
    ASSUME IsFiniteSet(PurseBookings), PursePoints \in Nat, NEW old \in [PurseBookings -> [Purse!Reasons -> Int]], NEW b \in PurseBookings,
           NEW r \in Purse!Reasons, NEW delta \in Int, NEW new, new = Purse!AddPoints(old, b, r, delta)
    PROVE  /\ new \in [PurseBookings -> [Purse!Reasons -> Int]]
           /\ \A x \in PurseBookings : x # b => new[x] = old[x]
           /\ \A q \in Purse!Reasons : q # r => new[b][q] = old[b][q]
           /\ new[b][r] = IF old[b][r] # 0 THEN old[b][r] ELSE delta
           /\ Purse!Sum(old) \in Int /\ Purse!Sum(new) = Purse!Sum(old) + new[b][r] - old[b][r]
<1>1. new = IF old[b][r] # 0 THEN old ELSE [old EXCEPT ![b][r] = delta]
  BY DEF Purse!AddPoints
<1>2. /\ new \in [PurseBookings -> [Purse!Reasons -> Int]]
      /\ \A x \in PurseBookings : x # b => new[x] = old[x]
      /\ \A q \in Purse!Reasons : q # r => new[b][q] = old[b][q]
      /\ new[b][r] = IF old[b][r] # 0 THEN old[b][r] ELSE delta
  BY <1>1
<1>3. Purse!Sum(old) \in Int /\ Purse!Sum(new) = Purse!Sum(old) + new[b][r] - old[b][r]
  BY <1>2, Changed
<1>4. QED
  BY <1>2, <1>3

-----------------------------------------------------------------------------
(* The points: every step                                                  *)

\* A player's bookings can be counted, and money and points are not negative.
PurseAssumption ==
    IsFiniteSet(PurseBookings) /\ PursePoints \in Nat /\ PursePrice \in Nat /\ PurseDiscount \in Nat /\ PursePays \in Nat

\* Entries that say nothing add up to what was there before.
LEMMA SumOfNothing ==
    ASSUME IsFiniteSet(PurseBookings), PursePoints \in Nat, NEW e, \A x \in PurseBookings : Purse!OfBooking(e[x]) = 0
    PROVE  Purse!Sum(e) = PursePoints
<1> DEFINE F == Folded(e)
           Sizes == {Cardinality(s) : s \in {t \in SUBSET PurseBookings : F[t] # 0}}
<1>1. \A s \in SUBSET PurseBookings : F[s] = IF s = {} THEN 0 ELSE Purse!OfBooking(e[Pick(s)]) + F[s \ {Pick(s)}]
  <2>1. F = [s \in SUBSET PurseBookings |-> IF s = {} THEN 0 ELSE Purse!OfBooking(e[Pick(s)]) + F[s \ {Pick(s)}]]
    BY FoldExists
  <2> HIDE DEF F
  <2>2. QED
    BY <2>1
<1>2. Purse!Sum(e) = PursePoints + F[PurseBookings]
  BY DEF Purse!Sum, Purse!MapThenSumSet, Purse!MapThenFoldSet, Folded, Pick
<1> HIDE DEF F
<1>3. Sizes = {}
  <2>1. SUFFICES ASSUME Sizes # {}
                 PROVE  FALSE
    OBVIOUS
  <2>2. Sizes \in SUBSET Nat
    BY FS_Subset, FS_CardinalityType
  <2>3. PICK n \in Sizes : \A m \in Sizes : n <= m
    BY <2>1, <2>2, LeastNumber
  <2>4. PICK s \in SUBSET PurseBookings : F[s] # 0 /\ n = Cardinality(s)
    BY <2>3
  <2>5. s # {}
    BY <1>1, <2>4
  <2>6. /\ Pick(s) \in s /\ s \ {Pick(s)} \in SUBSET PurseBookings /\ Cardinality(s \ {Pick(s)}) \in Nat
        /\ Cardinality(s) \in Nat /\ Cardinality(s \ {Pick(s)}) = Cardinality(s) - 1
    BY <2>5, Smaller, Picked
  <2>7. F[s \ {Pick(s)}] = 0
    <3>1. ~(Cardinality(s) <= Cardinality(s \ {Pick(s)}))
      BY <2>6
    <3>2. Cardinality(s \ {Pick(s)}) \notin Sizes
      BY <2>3, <2>4, <3>1
    <3>3. QED
      BY <2>6, <3>2
  <2>8. Purse!OfBooking(e[Pick(s)]) = 0
    BY <2>6
  <2>9. F[s] = Purse!OfBooking(e[Pick(s)]) + F[s \ {Pick(s)}]
    BY <1>1, <2>5
  <2>10. QED
    BY <2>4, <2>7, <2>8, <2>9
<1>4. F[PurseBookings] = 0
  BY <1>3
<1>5. QED
  BY <1>2, <1>4

LEMMA PurseInit ==
    ASSUME PurseAssumption
    PROVE  Purse!Init => PurseInv
<1> SUFFICES ASSUME Purse!Init
             PROVE  PurseInv
  OBVIOUS
<1>1. PurseTypes
  BY DEF PurseAssumption, Purse!Init, PurseTypes, PurseRow, PurseWork, PurseNote, TakeRequest, Purse!Reasons
<1>2. ASSUME NEW b \in PurseBookings
      PROVE  OfOne(b)
  <2>1. /\ rows[b] = [status |-> "held", price |-> PursePrice, final |-> FALSE, transfer |-> 0, cash |-> 0, back |-> 0,
                     discount |-> 0, whole |-> PursePrice = 0, bank |-> "none", missing |-> 0, decided |-> {}, taken |-> FALSE]
        /\ \A r \in Purse!Reasons : list[b][r] = 0
        /\ work = [look |-> {}, award |-> {}, redeem |-> {}, decide |-> {}, take |-> {}, job |-> {}]
    BY DEF Purse!Init
  <2>2. PriceIsPaidFor(b)
    BY <2>1 DEF PurseAssumption, PriceIsPaidFor, Purse!Reasons, Purse!Due, Purse!Paid, Purse!Locked
  <2>3. PointsComeBack(b) /\ Asked(b)
    BY <2>1 DEF PointsComeBack, Asked, NoMoreTaken, OneTakes, AllTaken, Takes, Purse!Reasons
  <2>4. Earned(b)
    <3>1. list[b]["transfer_booking"] = 0 /\ list[b]["noshow_transfer_ok"] = 0
      BY <2>1 DEF Purse!Reasons
    <3>2. rows[b].price = PursePrice /\ rows[b].transfer = 0 /\ rows[b].cash = 0 /\ rows[b].back = 0
      BY <2>1
    <3>3. ASSUME PursePrice = 0
          PROVE  rows[b].whole
      <4>1. \A x \in PurseBookings : rows[x].whole <=> PursePrice = 0
        BY Zenon DEF Purse!Init
      <4>2. QED
        BY <3>3, <4>1
    <3>4. Purse!Settled(rows[b]) => PursePrice = 0
      BY <3>2 DEF PurseAssumption, Purse!Settled
    <3>5. Purse!Settled(rows[b]) => rows[b].whole
      BY <3>3, <3>4
    <3>6. QED
      BY <2>1, <3>1, <3>5 DEF Earned
  <2>5. QED
    BY <2>2, <2>3, <2>4 DEF OfOne
<1>3. \A b \in PurseBookings : Purse!OfBooking(list[b]) = 0
  BY DEF Purse!Init, Purse!OfBooking, Purse!Reasons
<1>4. Funds
  <2>1. Purse!Sum(list) = PursePoints /\ PursePoints \in Nat
    BY <1>3, SumOfNothing DEF PurseAssumption
  <2>2. work.redeem = {} /\ work.take = {} /\ note.over = 0
    BY DEF Purse!Init
  <2>3. QED
    BY <2>1, <2>2 DEF Funds
<1>5. QED
  BY <1>1, <1>2, <1>4 DEF PurseInv

\* The parts about one booking follow for the others from what a step leaves alone.
Apart(b) ==
    /\ \A x \in PurseBookings : x # b => rows'[x] = rows[x] /\ list'[x] = list[x]
    /\ \A x \in PurseBookings : x # b => (x \in work'.redeem <=> x \in work.redeem)
    /\ \A x \in PurseBookings : x # b => (x \in work'.look => x \in work.look) /\ (x \in work'.award => x \in work.award)
                                         /\ (x \in work'.job => x \in work.job)
    /\ \A x \in PurseBookings : x # b => (<<x, "player">> \in work'.decide => <<x, "player">> \in work.decide)
    /\ \A x \in PurseBookings : x # b => Takes(x)' = Takes(x)
    /\ note.short \subseteq note'.short
    /\ \A x \in PurseBookings : x # b => (x \in note.late <=> x \in note'.late)

LEMMA OthersKeep ==
    ASSUME PurseInv, NEW b \in PurseBookings, Apart(b), OfOne(b)'
    PROVE  \A x \in PurseBookings : OfOne(x)'
<1> SUFFICES ASSUME NEW x \in PurseBookings, x # b
             PROVE  OfOne(x)'
  OBVIOUS
<1>1. OfOne(x)
  BY DEF PurseInv
<1>2. rows'[x] = rows[x] /\ list'[x] = list[x] /\ (x \in work'.redeem <=> x \in work.redeem)
  BY DEF Apart, Takes
<1>3. PriceIsPaidFor(x)'
  BY <1>1, <1>2 DEF OfOne, PriceIsPaidFor, Purse!Due, Purse!Paid, Purse!Locked
<1>4. PointsComeBack(x)'
  BY <1>1, <1>2 DEF OfOne, PointsComeBack, Apart
<1>5. Earned(x)'
  BY <1>1, <1>2 DEF OfOne, Earned, Apart, Purse!Settled
<1>6. Asked(x)'
  BY <1>1, <1>2 DEF OfOne, Asked, NoMoreTaken, OneTakes, AllTaken, Takes, Apart
<1>7. QED
  BY <1>3, <1>4, <1>5, <1>6 DEF OfOne

\* The balances that were read hold while no points are taken and nobody reads one.
LEMMA FundsKept ==
    ASSUME Funds, Purse!Sum(list) \in Int, Purse!Sum(list') \in Int, Purse!Sum(list') >= Purse!Sum(list), PurseTypes,
           work'.redeem \subseteq work.redeem, work'.take \subseteq work.take,
           note'.over = note.over, note'.overtaken = note.overtaken
    PROVE  Funds'
<1>1. \A t \in work.take : t.balance \in Nat
  BY DEF PurseTypes, PurseWork, TakeRequest
<1>2. note.over \in Nat
  BY DEF PurseTypes, PurseNote
<1>3. QED
  BY <1>1, <1>2 DEF Funds, Purse!RedeemPoints

\* A row is written, and a decision may be over: the money fits, and what was decided or earned stays.
RowFits(b, row) ==
    LET due == row.price - (row.transfer + row.cash - row.back) IN
    /\ row \in PurseRow
    /\ row.status \in {"held", "booked"} => ~row.final
    /\ ~row.final => due >= 0 /\ row.price + row.discount = PursePrice
    /\ Purse!Locked(b) => row.status \in {"held", "booked"} /\ due > 0
    /\ row.discount = rows[b].discount /\ rows[b].decided \subseteq row.decided /\ row.taken = rows[b].taken
    /\ rows[b].status = "cancelled" => row.status = "cancelled"
    /\ rows[b].cash <= row.cash /\ (rows[b].whole \/ Purse!Settled(row) => row.whole)
NotesStay ==
    /\ note' \in PurseNote /\ note'.over = note.over /\ note'.overtaken = note.overtaken
    /\ note'.late = note.late /\ note'.short = note.short
OnlyDecisions ==
    /\ work' \in PurseWork /\ work'.look = work.look /\ work'.award = work.award /\ work'.redeem = work.redeem
    /\ work'.take = work.take /\ work'.job = work.job /\ work'.decide \subseteq work.decide

LEMMA RowWritten ==
    ASSUME PurseAssumption, PurseInv, NEW b \in PurseBookings, NEW row, RowFits(b, row), rows' = [rows EXCEPT ![b] = row],
           list' = list, NotesStay, OnlyDecisions
    PROVE  PurseInv'
<1> USE DEF NotesStay, OnlyDecisions
<1>1. PurseTypes /\ Funds /\ OfOne(b)
  BY DEF PurseInv
<1>2. rows' \in [PurseBookings -> PurseRow] /\ rows'[b] = row /\ \A x \in PurseBookings : x # b => rows'[x] = rows[x]
  BY <1>1 DEF PurseTypes, RowFits
<1>3. PurseTypes'
  BY <1>1, <1>2 DEF PurseTypes
<1>4. rows[b] \in PurseRow /\ \A q \in Purse!Reasons : list[b][q] \in Int
  BY <1>1 DEF PurseTypes
<1>5. Apart(b)
  BY <1>2 DEF Apart, Takes
<1>6. OfOne(b)'
  <2>1. PriceIsPaidFor(b)'
    BY <1>1, <1>2, <1>4 DEF OfOne, PriceIsPaidFor, Purse!Due, Purse!Paid, Purse!Locked, PurseRow, RowFits
  <2>2. PointsComeBack(b)'
    BY <1>1, <1>2 DEF OfOne, PointsComeBack, RowFits
  <2>3. Earned(b)'
    BY <1>1, <1>2, <1>4 DEF OfOne, Earned, PurseRow, RowFits
  <2>4. Asked(b)'
    BY <1>1, <1>2 DEF OfOne, Asked, NoMoreTaken, OneTakes, AllTaken, Takes, RowFits
  <2>5. QED
    BY <2>1, <2>2, <2>3, <2>4 DEF OfOne
<1>7. \A x \in PurseBookings : OfOne(x)'
  BY <1>5, <1>6, OthersKeep
<1>8. Funds'
  <2>1. Purse!Sum(list) \in Int
    BY <1>1, SumIsANumber DEF PurseTypes, PurseAssumption
  <2>2. QED
    BY <1>1, <2>1, FundsKept
<1>9. QED
  BY <1>3, <1>7, <1>8 DEF PurseInv

\* Money comes and goes, and the owner's final price replaces what was agreed.
LEMMA MoneyMoved ==
    ASSUME PurseAssumption, PurseInv, NEW b \in PurseBookings,
           Purse!Pay(b) \/ Purse!TakeMoneyBack(b) \/ Purse!FinalPrice(b) \/ Purse!MarkNotReceived(b) \/ Purse!StaffPays(b)
    PROVE  PurseInv'
<1>1. /\ PurseTypes /\ OfOne(b) /\ rows[b] \in PurseRow /\ rows \in [PurseBookings -> PurseRow]
      /\ work \in PurseWork /\ note \in PurseNote
  BY DEF PurseInv, PurseTypes
<1>2. /\ Purse!Due(b) = rows[b].price - (rows[b].transfer + rows[b].cash - rows[b].back)
      /\ rows[b].status \in {"held", "booked"} => ~rows[b].final
      /\ ~rows[b].final => Purse!Due(b) >= 0 /\ rows[b].price + rows[b].discount = PursePrice
      /\ Purse!Locked(b) => rows[b].status \in {"held", "booked"} /\ Purse!Due(b) > 0
      /\ Purse!Settled(rows[b]) => rows[b].whole
  BY <1>1 DEF OfOne, PriceIsPaidFor, Earned, Purse!Due, Purse!Paid
<1>3. ASSUME note' = [note EXCEPT !.pays = @ + 1]
      PROVE  NotesStay
  BY <1>1, <1>3 DEF PurseNote, NotesStay
<1>4. CASE Purse!Pay(b)
  <2>1. PICK amount \in 1 .. Purse!Due(b), how \in {"transfer", "cash"} :
          rows' = Purse!Written(b, [rows[b] EXCEPT ![how] = @ + amount, !.status = IF @ = "held" THEN "booked" ELSE @])
    BY <1>4 DEF Purse!Pay
  <2> DEFINE to == IF rows[b].status = "held" THEN "booked" ELSE rows[b].status
             transfer == IF how = "transfer" THEN rows[b].transfer + amount ELSE rows[b].transfer
             cash == IF how = "cash" THEN rows[b].cash + amount ELSE rows[b].cash
             paid == [rows[b] EXCEPT !.transfer = transfer, !.cash = cash, !.status = to]
             row == [paid EXCEPT !.whole = rows[b].whole \/ Purse!Settled(paid)]
  <2>2. rows' = [rows EXCEPT ![b] = row]
    <3>1. [rows[b] EXCEPT ![how] = @ + amount, !.status = IF @ = "held" THEN "booked" ELSE @] = paid
      <4>1. CASE how = "transfer"
        BY <1>1, <4>1 DEF PurseRow
      <4>2. CASE how = "cash"
        BY <1>1, <4>2 DEF PurseRow
      <4>3. QED
        BY <4>1, <4>2
    <3>2. paid.whole = rows[b].whole
      BY <1>1 DEF PurseRow
    <3> HIDE DEF paid
    <3>3. QED
      BY <2>1, <3>1, <3>2 DEF Purse!Written
  <2>3. /\ amount \in Nat /\ amount > 0 /\ amount <= Purse!Due(b) /\ ~Purse!Locked(b) /\ list' = list /\ work' = work
        /\ note' = [note EXCEPT !.pays = @ + 1] /\ rows[b].status # "cancelled"
    <3>1. Purse!Due(b) \in Int
      BY <1>1, <1>2 DEF PurseRow
    <3>2. amount \in Nat /\ amount > 0 /\ amount <= Purse!Due(b)
      BY <3>1
    <3>3. QED
      BY <1>4, <3>2 DEF Purse!Pay
  <2>4. /\ transfer \in Nat /\ cash \in Nat /\ transfer + cash = rows[b].transfer + rows[b].cash + amount /\ rows[b].cash <= cash
        /\ to \in {"held", "booked", "no_show", "completed", "cancelled"}
        /\ to \in {"held", "booked"} <=> rows[b].status \in {"held", "booked"}
    BY <1>1, <2>3 DEF PurseRow
  <2> HIDE DEF transfer, cash, to
  <2>5. /\ paid \in PurseRow /\ paid.status = to /\ paid.transfer = transfer /\ paid.cash = cash /\ paid.price = rows[b].price
        /\ paid.back = rows[b].back /\ paid.discount = rows[b].discount /\ paid.final = rows[b].final
        /\ paid.decided = rows[b].decided /\ paid.taken = rows[b].taken
    BY <1>1, <2>4 DEF PurseRow
  <2> HIDE DEF paid
  <2>6. /\ row \in PurseRow /\ row.status = to /\ row.transfer = transfer /\ row.cash = cash /\ row.price = rows[b].price
        /\ row.back = rows[b].back /\ row.discount = rows[b].discount /\ row.final = rows[b].final
        /\ row.decided = rows[b].decided /\ row.taken = rows[b].taken
        /\ row.whole = (rows[b].whole \/ Purse!Settled(paid)) /\ (Purse!Settled(row) <=> Purse!Settled(paid))
    BY <1>1, <2>5 DEF PurseRow, Purse!Settled
  <2> HIDE DEF row
  <2>7. row.price - (row.transfer + row.cash - row.back) = Purse!Due(b) - amount
    BY <1>1, <1>2, <2>3, <2>4, <2>6 DEF PurseRow
  <2>8. Purse!Due(b) \in Int
    BY <1>1, <1>2 DEF PurseRow
  <2>9. RowFits(b, row)
    <3> DEFINE due == row.price - (row.transfer + row.cash - row.back)
    <3>1. due = Purse!Due(b) - amount /\ due \in Int /\ due >= 0 /\ ~Purse!Locked(b)
      BY <2>3, <2>7, <2>8
    <3> HIDE DEF due
    <3>2. rows[b].whole \/ Purse!Settled(row) => row.whole
      BY <2>6
    <3>3. QED
      BY <1>2, <2>3, <2>4, <2>6, <3>1, <3>2 DEF RowFits, due
  <2>10. OnlyDecisions /\ NotesStay
    BY <1>1, <1>3, <2>3 DEF OnlyDecisions
  <2>11. QED
    BY <2>2, <2>3, <2>9, <2>10, RowWritten
<1>5. CASE Purse!TakeMoneyBack(b) \/ Purse!MarkNotReceived(b)
  <2>1. PICK amount \in Nat, missing \in Nat, bank \in {"none", "reversed", "marked"} :
          rows' = [rows EXCEPT ![b] = [rows[b] EXCEPT !.back = rows[b].back + amount, !.missing = missing, !.bank = bank]]
    <3>1. CASE Purse!TakeMoneyBack(b)
      <4>1. PICK amount \in 1 .. Purse!Paid(b) : rows' = [rows EXCEPT ![b].back = @ + amount]
        BY <3>1 DEF Purse!TakeMoneyBack
      <4>2. amount \in Nat
        BY <1>1 DEF PurseRow, Purse!Paid
      <4>3. rows' = [rows EXCEPT ![b] = [rows[b] EXCEPT !.back = rows[b].back + amount, !.missing = rows[b].missing, !.bank = rows[b].bank]]
        BY <1>1, <4>1 DEF PurseRow
      <4>4. QED
        BY <1>1, <4>2, <4>3 DEF PurseRow
    <3>2. CASE Purse!MarkNotReceived(b)
      <4>1. PICK amount \in 1 .. rows[b].transfer :
              rows' = [rows EXCEPT ![b].back = @ + amount, ![b].missing = amount, ![b].bank = "reversed"]
        BY <3>2 DEF Purse!MarkNotReceived
      <4>2. amount \in Nat
        BY <1>1 DEF PurseRow
      <4>3. rows' = [rows EXCEPT ![b] = [rows[b] EXCEPT !.back = rows[b].back + amount, !.missing = amount, !.bank = "reversed"]]
        BY <1>1, <4>1 DEF PurseRow
      <4>4. QED
        BY <4>2, <4>3
    <3>3. QED
      BY <1>5, <3>1, <3>2
  <2> DEFINE row == [rows[b] EXCEPT !.back = rows[b].back + amount, !.missing = missing, !.bank = bank]
  <2>2. /\ row \in PurseRow /\ row.status = rows[b].status /\ row.transfer = rows[b].transfer /\ row.cash = rows[b].cash
        /\ row.price = rows[b].price /\ row.back = rows[b].back + amount /\ row.discount = rows[b].discount
        /\ row.final = rows[b].final /\ row.decided = rows[b].decided /\ row.taken = rows[b].taken /\ row.whole = rows[b].whole
    <3> DEFINE back == rows[b].back + amount
    <3>1. back \in Nat
      BY <1>1 DEF PurseRow
    <3> HIDE DEF back
    <3>2. [rows[b] EXCEPT !.back = back, !.missing = missing, !.bank = bank] \in PurseRow
      BY <1>1, <3>1 DEF PurseRow
    <3>3. row = [rows[b] EXCEPT !.back = back, !.missing = missing, !.bank = bank]
      BY DEF back
    <3>4. QED
      BY <1>1, <3>2, <3>3 DEF PurseRow, back
  <2>3. rows' = [rows EXCEPT ![b] = row]
    BY <2>1
  <2>4. /\ ~Purse!Locked(b) /\ list' = list /\ work' = work /\ (note' = [note EXCEPT !.pays = @ + 1] \/ note' = note)
    BY <1>5 DEF Purse!TakeMoneyBack, Purse!MarkNotReceived
  <2> HIDE DEF row
  <2>5. /\ row.price - (row.transfer + row.cash - row.back) = Purse!Due(b) + amount /\ Purse!Due(b) \in Int
        /\ Purse!Settled(row) => Purse!Settled(rows[b])
    BY <1>1, <1>2, <2>2 DEF PurseRow, Purse!Settled
  <2>6. RowFits(b, row)
    <3>1. rows[b].cash <= rows[b].cash
      BY <1>1 DEF PurseRow
    <3>2. QED
      BY <1>2, <2>2, <2>4, <2>5, <3>1 DEF RowFits
  <2>7. OnlyDecisions /\ NotesStay
    BY <1>1, <1>3, <2>4 DEF OnlyDecisions, NotesStay
  <2>8. QED
    BY <2>3, <2>4, <2>6, <2>7, RowWritten
<1>6. CASE Purse!FinalPrice(b)
  <2>1. PICK price \in 0 .. PursePrice + 1 : rows' = Purse!Written(b, [rows[b] EXCEPT !.price = price, !.final = TRUE])
    BY <1>6 DEF Purse!FinalPrice
  <2> DEFINE priced == [rows[b] EXCEPT !.price = price, !.final = TRUE]
             row == [priced EXCEPT !.whole = rows[b].whole \/ Purse!Settled(priced)]
  <2>2. /\ priced \in PurseRow /\ priced.status = rows[b].status /\ priced.cash = rows[b].cash /\ priced.final
        /\ priced.transfer = rows[b].transfer /\ priced.back = rows[b].back /\ priced.whole = rows[b].whole
        /\ priced.discount = rows[b].discount /\ priced.decided = rows[b].decided /\ priced.taken = rows[b].taken
    <3>1. price \in Int
      BY DEF PurseAssumption
    <3>2. priced \in PurseRow
      BY <1>1, <3>1 DEF PurseRow
    <3>3. QED
      BY <1>1, <3>2 DEF PurseRow
  <2> HIDE DEF priced
  <2>3. rows' = [rows EXCEPT ![b] = row]
    BY <2>1, <2>2 DEF Purse!Written, priced
  <2>4. /\ row \in PurseRow /\ row.status = rows[b].status /\ row.cash = rows[b].cash /\ row.final
        /\ row.discount = rows[b].discount /\ row.decided = rows[b].decided /\ row.taken = rows[b].taken
        /\ row.whole = (rows[b].whole \/ Purse!Settled(priced)) /\ (Purse!Settled(row) <=> Purse!Settled(priced))
    BY <1>1, <2>2 DEF PurseRow, Purse!Settled
  <2> HIDE DEF row
  <2>5. list' = list /\ work' = work /\ note' = [note EXCEPT !.pays = @ + 1] /\ rows[b].status = "no_show"
    BY <1>6 DEF Purse!FinalPrice
  <2>6. rows[b].cash <= row.cash
    BY <1>1, <2>4 DEF PurseRow
  <2>7. RowFits(b, row)
    BY <1>2, <2>4, <2>5, <2>6 DEF RowFits
  <2>8. OnlyDecisions /\ NotesStay
    BY <1>1, <1>3, <2>5 DEF OnlyDecisions
  <2>9. QED
    BY <2>3, <2>5, <2>7, <2>8, RowWritten
<1>7. CASE Purse!StaffPays(b)
  <2>1. /\ ~Purse!Locked(b) /\ list' = list /\ note' = note
        /\ work' = [work EXCEPT !.decide = @ \ {<<b, "staff">>}]
        /\ rows' = IF rows[b].missing <= Purse!Due(b) THEN Purse!Written(b, [rows[b] EXCEPT !.cash = @ + rows[b].missing]) ELSE rows
    BY <1>7 DEF Purse!StaffPays
  <2>2. OnlyDecisions /\ NotesStay
    BY <1>1, <2>1 DEF PurseWork, OnlyDecisions, NotesStay
  <2>3. CASE ~(rows[b].missing <= Purse!Due(b))
    <3>1. rows' = [rows EXCEPT ![b] = rows[b]] /\ rows[b].cash <= rows[b].cash /\ Purse!Due(b) \in Int
      BY <1>1, <1>2, <2>1, <2>3 DEF PurseRow
    <3>2. RowFits(b, rows[b])
      BY <1>1, <1>2, <3>1 DEF RowFits
    <3>3. QED
      BY <2>1, <2>2, <3>1, <3>2, RowWritten
  <2>4. CASE rows[b].missing <= Purse!Due(b)
    <3> DEFINE paid == [rows[b] EXCEPT !.cash = @ + rows[b].missing]
               row == [paid EXCEPT !.whole = rows[b].whole \/ Purse!Settled(paid)]
    <3>1. /\ paid \in PurseRow /\ paid.status = rows[b].status /\ paid.transfer = rows[b].transfer
          /\ paid.cash = rows[b].cash + rows[b].missing /\ paid.price = rows[b].price /\ paid.whole = rows[b].whole
          /\ paid.back = rows[b].back /\ paid.discount = rows[b].discount /\ paid.final = rows[b].final
          /\ paid.decided = rows[b].decided /\ paid.taken = rows[b].taken
      BY <1>1 DEF PurseRow
    <3> HIDE DEF paid
    <3>2. rows' = [rows EXCEPT ![b] = row]
      BY <2>1, <2>4, <3>1 DEF Purse!Written, paid
    <3>3. /\ row \in PurseRow /\ row.status = rows[b].status /\ row.transfer = rows[b].transfer
          /\ row.cash = rows[b].cash + rows[b].missing /\ row.price = rows[b].price
          /\ row.back = rows[b].back /\ row.discount = rows[b].discount /\ row.final = rows[b].final
          /\ row.decided = rows[b].decided /\ row.taken = rows[b].taken
          /\ row.whole = (rows[b].whole \/ Purse!Settled(paid)) /\ (Purse!Settled(row) <=> Purse!Settled(paid))
      BY <1>1, <3>1 DEF PurseRow, Purse!Settled
    <3> HIDE DEF row
    <3>4. /\ row.price - (row.transfer + row.cash - row.back) = Purse!Due(b) - rows[b].missing /\ Purse!Due(b) \in Int
          /\ rows[b].missing \in Nat /\ rows[b].cash <= row.cash
      BY <1>1, <1>2, <3>3 DEF PurseRow
    <3>5. RowFits(b, row)
      <4> DEFINE due == row.price - (row.transfer + row.cash - row.back)
      <4>1. due \in Int /\ due >= 0
        BY <2>4, <3>4
      <4> HIDE DEF due
      <4>2. rows[b].whole \/ Purse!Settled(row) => row.whole
        BY <3>3
      <4>3. QED
        BY <1>2, <2>1, <3>3, <3>4, <4>1, <4>2 DEF RowFits, due
    <3>6. QED
      BY <2>1, <2>2, <3>2, <3>5, RowWritten
  <2>5. QED
    BY <2>3, <2>4
<1>8. QED
  BY <1>4, <1>5, <1>6, <1>7

\* A booking goes on, and what was decided about a transfer that never came.
LEMMA BookingGoesOn ==
    ASSUME PurseAssumption, PurseInv, NEW b \in PurseBookings,
           \/ Purse!NoShow(b) \/ Purse!Complete(b) \/ Purse!Cancel(b) \/ Purse!Marked(b)
           \/ \E who \in {"staff", "player"} : Purse!Decide(b, who)
    PROVE  PurseInv'
<1>1. /\ PurseTypes /\ OfOne(b) /\ rows[b] \in PurseRow /\ rows \in [PurseBookings -> PurseRow]
      /\ work \in PurseWork /\ note \in PurseNote
  BY DEF PurseInv, PurseTypes
<1>2. /\ Purse!Due(b) = rows[b].price - (rows[b].transfer + rows[b].cash - rows[b].back)
      /\ rows[b].status \in {"held", "booked"} => ~rows[b].final
      /\ ~rows[b].final => Purse!Due(b) >= 0 /\ rows[b].price + rows[b].discount = PursePrice
      /\ Purse!Locked(b) => rows[b].status \in {"held", "booked"} /\ Purse!Due(b) > 0
      /\ Purse!Settled(rows[b]) => rows[b].whole
  BY <1>1 DEF OfOne, PriceIsPaidFor, Earned, Purse!Due, Purse!Paid
<1>3. \E status \in {"held", "booked", "no_show", "completed", "cancelled"}, bank \in {"none", "reversed", "marked"},
         decided \in SUBSET {"staff", "player"} :
         /\ rows' = [rows EXCEPT ![b] = [rows[b] EXCEPT !.status = status, !.bank = bank, !.decided = decided]]
         /\ status = rows[b].status \/ (~Purse!Locked(b) /\ status \notin {"held", "booked"} /\ rows[b].status # "cancelled")
         /\ rows[b].decided \subseteq decided
         /\ UNCHANGED <<list, work, note>>
  <2>1. CASE Purse!NoShow(b)
    <3>1. rows' = [rows EXCEPT ![b] = [rows[b] EXCEPT !.status = "no_show", !.bank = rows[b].bank, !.decided = rows[b].decided]]
      BY <1>1, <2>1 DEF PurseRow, Purse!NoShow, Purse!Becomes
    <3>2. ~Purse!Locked(b) /\ rows[b].status = "booked" /\ UNCHANGED <<list, work, note>>
      BY <2>1 DEF Purse!NoShow, Purse!Becomes
    <3>3. QED
      BY <1>1, <3>1, <3>2 DEF PurseRow
  <2>2. CASE Purse!Complete(b)
    <3>1. rows' = [rows EXCEPT ![b] = [rows[b] EXCEPT !.status = "completed", !.bank = rows[b].bank, !.decided = rows[b].decided]]
      BY <1>1, <2>2 DEF PurseRow, Purse!Complete, Purse!Becomes
    <3>2. ~Purse!Locked(b) /\ rows[b].status \in {"booked", "no_show"} /\ UNCHANGED <<list, work, note>>
      BY <2>2 DEF Purse!Complete, Purse!Becomes
    <3>3. QED
      BY <1>1, <3>1, <3>2 DEF PurseRow
  <2>3. CASE Purse!Cancel(b)
    <3>1. rows' = [rows EXCEPT ![b] = [rows[b] EXCEPT !.status = "cancelled", !.bank = rows[b].bank, !.decided = rows[b].decided]]
      BY <1>1, <2>3 DEF PurseRow, Purse!Cancel, Purse!Becomes
    <3>2. ~Purse!Locked(b) /\ rows[b].status \in {"held", "booked"} /\ UNCHANGED <<list, work, note>>
      BY <2>3 DEF Purse!Cancel, Purse!Becomes
    <3>3. QED
      BY <1>1, <3>1, <3>2 DEF PurseRow
  <2>4. CASE Purse!Marked(b)
    <3>1. rows' = [rows EXCEPT ![b] = [rows[b] EXCEPT !.status = rows[b].status, !.bank = "marked", !.decided = rows[b].decided]]
      BY <1>1, <2>4 DEF PurseRow, Purse!Marked
    <3>2. UNCHANGED <<list, work, note>>
      BY <2>4 DEF Purse!Marked
    <3>3. QED
      BY <1>1, <3>1, <3>2 DEF PurseRow
  <2>5. ASSUME NEW who \in {"staff", "player"}, Purse!Decide(b, who)
        PROVE  <1>3!:
    <3>1. rows' = [rows EXCEPT ![b] = [rows[b] EXCEPT !.status = rows[b].status, !.bank = rows[b].bank,
                                                       !.decided = rows[b].decided \cup {who}]]
      BY <1>1, <2>5 DEF PurseRow, Purse!Decide
    <3>2. UNCHANGED <<list, work, note>>
      BY <2>5 DEF Purse!Decide
    <3>3. rows[b].decided \cup {who} \in SUBSET {"staff", "player"} /\ rows[b].status \in {"held", "booked", "no_show", "completed", "cancelled"}
          /\ rows[b].bank \in {"none", "reversed", "marked"}
      BY <1>1 DEF PurseRow
    <3>4. QED
      BY <3>1, <3>2, <3>3
  <2>6. QED
    BY <2>1, <2>2, <2>3, <2>4, <2>5
<1>4. PICK status \in {"held", "booked", "no_show", "completed", "cancelled"}, bank \in {"none", "reversed", "marked"},
           decided \in SUBSET {"staff", "player"} :
         /\ rows' = [rows EXCEPT ![b] = [rows[b] EXCEPT !.status = status, !.bank = bank, !.decided = decided]]
         /\ status = rows[b].status \/ (~Purse!Locked(b) /\ status \notin {"held", "booked"} /\ rows[b].status # "cancelled")
         /\ rows[b].decided \subseteq decided
         /\ UNCHANGED <<list, work, note>>
  BY <1>3
<1> DEFINE row == [rows[b] EXCEPT !.status = status, !.bank = bank, !.decided = decided]
<1>5. /\ row \in PurseRow /\ row.status = status /\ row.transfer = rows[b].transfer /\ row.cash = rows[b].cash
      /\ row.price = rows[b].price /\ row.back = rows[b].back /\ row.discount = rows[b].discount
      /\ row.final = rows[b].final /\ row.decided = decided /\ row.taken = rows[b].taken /\ row.whole = rows[b].whole
      /\ rows[b].cash <= rows[b].cash
  <2>1. rows[b].cash \in Nat
    BY <1>1 DEF PurseRow
  <2>2. row \in PurseRow
    BY <1>1 DEF PurseRow
  <2>3. QED
    BY <1>1, <2>1, <2>2 DEF PurseRow
<1>6. rows' = [rows EXCEPT ![b] = row]
  BY <1>4
<1> HIDE DEF row
<1>7. Purse!Settled(row) <=> Purse!Settled(rows[b])
  BY <1>5 DEF Purse!Settled
<1>8. RowFits(b, row)
  BY <1>2, <1>4, <1>5, <1>7 DEF RowFits
<1>9. OnlyDecisions /\ NotesStay
  BY <1>1, <1>4 DEF OnlyDecisions, NotesStay
<1>10. QED
  BY <1>4, <1>6, <1>8, <1>9, RowWritten

\* A request looks, or leaves what it looked at to its next step.
LEMMA OnlyLooks ==
    ASSUME PurseInv, UNCHANGED <<rows, list, note>>, work' \in PurseWork, work'.redeem = work.redeem, work'.take = work.take,
           \A x \in PurseBookings :
               /\ x \in work'.look /\ rows[x].cash = 0 => rows[x].whole
               /\ x \in work'.award => rows[x].whole
               /\ x \in work'.job => list[x]["redeem"] # 0 /\ rows[x].status = "cancelled"
               /\ rows[x].taken => <<x, "player">> \notin work'.decide
    PROVE  PurseInv'
<1>1. PurseTypes /\ Funds
  BY DEF PurseInv
<1>2. PurseTypes'
  BY <1>1 DEF PurseTypes
<1>3. ASSUME NEW x \in PurseBookings
      PROVE  OfOne(x)'
  <2>1. OfOne(x)
    BY DEF PurseInv
  <2>2. PriceIsPaidFor(x)' /\ PointsComeBack(x)'
    BY <2>1 DEF OfOne, PriceIsPaidFor, PointsComeBack, Purse!Due, Purse!Paid, Purse!Locked
  <2>3. Earned(x)' /\ Asked(x)'
    BY <2>1 DEF OfOne, Earned, Asked, NoMoreTaken, OneTakes, AllTaken, Takes, Purse!Settled
  <2>4. QED
    BY <2>2, <2>3 DEF OfOne
<1>4. Funds'
  BY <1>1 DEF Funds
<1>5. QED
  BY <1>2, <1>3, <1>4 DEF PurseInv

LEMMA Looks ==
    ASSUME PurseInv,
           \/ Purse!JobReads
           \/ \E b \in PurseBookings :
                \/ Purse!LookAtDue(b) \/ Purse!LookAtEntries(b)
                \/ \E who \in {"staff", "player"} : Purse!DecideReads(b, who)
    PROVE  PurseInv'
<1>1. work \in PurseWork /\ \A x \in PurseBookings : rows[x] \in PurseRow /\ OfOne(x)
  BY DEF PurseInv, PurseTypes
<1>2. \A x \in PurseBookings :
        /\ x \in work.look /\ rows[x].cash = 0 => rows[x].whole
        /\ x \in work.award \/ Purse!Settled(rows[x]) => rows[x].whole
        /\ x \in work.job => list[x]["redeem"] # 0 /\ rows[x].status = "cancelled"
        /\ rows[x].taken => "player" \in rows[x].decided /\ <<x, "player">> \notin work.decide
  BY <1>1 DEF OfOne, PointsComeBack, Earned, Asked, OneTakes
<1>3. CASE Purse!JobReads
  <2>1. /\ UNCHANGED <<rows, list, note>>
        /\ work' = [work EXCEPT !.job = {b \in PurseBookings : list[b]["redeem"] # 0 /\ rows[b].status = "cancelled"}]
    BY <1>3 DEF Purse!JobReads
  <2>2. QED
    BY <1>1, <1>2, <2>1, OnlyLooks DEF PurseWork
<1>4. ASSUME NEW b \in PurseBookings, Purse!LookAtDue(b)
      PROVE  PurseInv'
  <2>1. UNCHANGED <<rows, list, note>> /\ work' = [work EXCEPT !.look = @ \cup {b}] /\ Purse!Due(b) <= 0
    BY <1>4 DEF Purse!LookAtDue
  <2>2. rows[b].cash = 0 => rows[b].whole
    <3>1. rows[b].cash = 0 => Purse!Settled(rows[b])
      BY <1>1, <2>1 DEF Purse!Due, Purse!Paid, Purse!Settled, PurseRow
    <3>2. QED
      BY <1>2, <3>1
  <2>3. QED
    BY <1>1, <1>2, <2>1, <2>2, OnlyLooks DEF PurseWork
<1>5. ASSUME NEW b \in PurseBookings, Purse!LookAtEntries(b)
      PROVE  PurseInv'
  <2>1. /\ UNCHANGED <<rows, list, note>> /\ b \in work.look
        /\ work' = [work EXCEPT !.look = @ \ {b},
                                !.award = IF rows[b].transfer > 0 /\ rows[b].cash = 0 THEN @ \cup {b} ELSE @]
    BY <1>5 DEF Purse!LookAtEntries
  <2>2. /\ work' \in PurseWork /\ work'.look \subseteq work.look /\ work'.job = work.job /\ work'.redeem = work.redeem
        /\ work'.take = work.take /\ work'.decide = work.decide
        /\ \A x \in work'.award : x \in work.award \/ (x = b /\ rows[b].cash = 0)
    BY <1>1, <2>1 DEF PurseWork
  <2>3. QED
    BY <1>2, <2>1, <2>2, OnlyLooks
<1>6. ASSUME NEW b \in PurseBookings, NEW who \in {"staff", "player"}, Purse!DecideReads(b, who)
      PROVE  PurseInv'
  <2>1. UNCHANGED <<rows, list, note>> /\ work' = [work EXCEPT !.decide = @ \cup {<<b, who>>}] /\ rows[b].decided = {}
    BY <1>6 DEF Purse!DecideReads
  <2>2. /\ work' \in PurseWork /\ work'.look = work.look /\ work'.job = work.job /\ work'.redeem = work.redeem
        /\ work'.award = work.award /\ work'.take = work.take /\ work'.decide = work.decide \cup {<<b, who>>}
    BY <1>1, <2>1 DEF PurseWork
  <2>3. \A x \in PurseBookings : rows[x].taken => <<x, "player">> \notin work'.decide
    BY <1>2, <2>1, <2>2
  <2>4. QED
    BY <1>2, <2>1, <2>2, <2>3, OnlyLooks
<1>7. QED
  BY <1>3, <1>4, <1>5, <1>6

\* Points are earned, once by each booking and reason.
LEMMA PointsEarned ==
    ASSUME PurseAssumption, PurseInv, NEW b \in PurseBookings, Purse!Award(b) \/ Purse!AwardNoshow(b)
    PROVE  PurseInv'
<1>1. /\ PurseTypes /\ OfOne(b) /\ Funds /\ list \in [PurseBookings -> [Purse!Reasons -> Int]] /\ work \in PurseWork
      /\ note \in PurseNote /\ rows' = rows
      /\ \A q \in Purse!Reasons : list[b][q] \in Int
  BY DEF PurseInv, PurseTypes, Purse!Award, Purse!AwardNoshow
<1>2. PICK reason \in {"transfer_booking", "noshow_transfer_ok"} :
        LET points == IF reason = "transfer_booking" THEN 5 ELSE 1 IN
        /\ list' = Purse!AddPoints(list, b, reason, points)
        /\ reason = "transfer_booking" =>
             /\ b \in work.award /\ work' = [work EXCEPT !.award = @ \ {b}]
             /\ note' = [note EXCEPT !.late = IF rows[b].taken THEN @ \cup {b} ELSE @]
        /\ reason = "noshow_transfer_ok" => work' = work /\ note' = note
  BY DEF Purse!Award, Purse!AwardNoshow, Purse!TransferPoints, Purse!NoshowTransferPoints
<1> DEFINE points == IF reason = "transfer_booking" THEN 5 ELSE 1
<1>3. reason \in Purse!Reasons /\ points \in Int /\ points > 0
  BY DEF Purse!Reasons
<1> HIDE DEF points
<1>4. list' = Purse!AddPoints(list, b, reason, points)
  BY <1>2 DEF points
<1>5. /\ list' \in [PurseBookings -> [Purse!Reasons -> Int]]
      /\ \A x \in PurseBookings : x # b => list'[x] = list[x]
      /\ \A q \in Purse!Reasons : q # reason => list'[b][q] = list[b][q]
      /\ list'[b][reason] = IF list[b][reason] # 0 THEN list[b][reason] ELSE points
      /\ Purse!Sum(list) \in Int /\ Purse!Sum(list') = Purse!Sum(list) + list'[b][reason] - list[b][reason]
  BY <1>1, <1>3, <1>4, PointsAdded DEF PurseAssumption
<1>6. /\ work' \in PurseWork /\ work'.look = work.look /\ work'.job = work.job /\ work'.redeem = work.redeem
      /\ work'.award \subseteq work.award /\ work'.take = work.take /\ work'.decide = work.decide
  BY <1>1, <1>2 DEF PurseWork
<1>7. /\ note' \in PurseNote /\ note'.over = note.over /\ note'.overtaken = note.overtaken /\ note'.short = note.short
      /\ note'.late = note.late \/ note'.late = note.late \cup {b}
      /\ reason = "transfer_booking" /\ rows[b].taken => b \in note'.late
  BY <1>1, <1>2 DEF PurseNote
<1>8. /\ list'[b][reason] = list[b][reason] \/ (list[b][reason] = 0 /\ list'[b][reason] = points)
      /\ list'[b][reason] >= list[b][reason] /\ list'[b][reason] # 0
  <2>1. list[b][reason] \in Int
    BY <1>1, <1>3
  <2>2. QED
    BY <1>3, <1>5, <2>1
<1>9. PurseTypes'
  BY <1>1, <1>5, <1>6, <1>7 DEF PurseTypes
<1>10. OfOne(b)'
  <2>1. /\ list'[b]["redeem"] = list[b]["redeem"] /\ list'[b]["redeem_returned"] = list[b]["redeem_returned"]
        /\ list'[b]["transfer_booking_taken_back"] = list[b]["transfer_booking_taken_back"]
        /\ list'[b]["noshow_transfer_taken_back"] = list[b]["noshow_transfer_taken_back"]
        /\ \A q \in {"transfer_booking", "noshow_transfer_ok"} : q # reason => list'[b][q] = list[b][q]
    BY <1>5 DEF Purse!Reasons
  <2>2. PriceIsPaidFor(b)' /\ PointsComeBack(b)'
    BY <1>1, <1>6, <2>1 DEF OfOne, PriceIsPaidFor, PointsComeBack, Purse!Due, Purse!Paid, Purse!Locked
  <2>3. /\ \A q \in {"transfer_booking", "noshow_transfer_ok"} : list'[b][q] >= list[b][q] /\ (list[b][q] # 0 => list'[b][q] # 0)
        /\ \A q \in {"transfer_booking", "noshow_transfer_ok", "transfer_booking_taken_back", "noshow_transfer_taken_back"} :
             list[b][q] \in Int /\ list'[b][q] \in Int
    <3>1. \A q \in {"transfer_booking", "noshow_transfer_ok", "transfer_booking_taken_back", "noshow_transfer_taken_back"} :
             list[b][q] \in Int /\ list'[b][q] \in Int
      BY <1>1, <1>5 DEF Purse!Reasons
    <3>2. QED
      BY <1>8, <2>1, <3>1
  <2>4. Earned(b)'
    <3>1. Earned(b)
      BY <1>1 DEF OfOne
    <3>2. list'[b]["transfer_booking"] \in {0, 5} /\ list'[b]["noshow_transfer_ok"] \in {0, 1}
      BY <1>8, <2>1, <3>1 DEF Earned, points, Purse!TransferPoints, Purse!NoshowTransferPoints
    <3>3. list'[b]["transfer_booking"] # 0 => list[b]["transfer_booking"] # 0 \/ b \in work.award
      BY <1>2, <1>8, <2>1
    <3>4. QED
      BY <1>1, <1>6, <3>1, <3>2, <3>3 DEF Earned, Purse!Settled, Purse!TransferPoints, Purse!NoshowTransferPoints
  <2>5. Asked(b)'
    <3>1. NoMoreTaken(b) /\ OneTakes(b) /\ AllTaken(b)
      BY <1>1 DEF OfOne, Asked
    <3>2. Takes(b)' = Takes(b) /\ \A t \in Takes(b) : t.given \subseteq {"transfer_booking", "noshow_transfer_ok"}
      BY <1>1, <1>6 DEF Takes, PurseWork, TakeRequest
    <3>3. rows[b].taken /\ b \notin note'.late =>
            list'[b]["transfer_booking"] = list[b]["transfer_booking"] /\ b \notin note.late
      BY <1>7, <2>1
    <3>4. NoMoreTaken(b)'
      <4>1. NoMoreTaken(b)
        BY <3>1
      <4>2. QED
        BY <1>1, <2>1, <2>3, <4>1 DEF NoMoreTaken
    <3>5. OneTakes(b)'
      <4>1. OneTakes(b)
        BY <3>1
      <4>2. QED
        BY <1>1, <1>6, <2>1, <2>3, <3>2, <3>3, <4>1 DEF OneTakes
    <3>6. AllTaken(b)'
      <4>1. AllTaken(b)
        BY <3>1
      <4>2. QED
        BY <1>1, <1>7, <2>1, <3>2, <3>3, <4>1 DEF AllTaken
    <3>7. QED
      BY <3>4, <3>5, <3>6 DEF Asked
  <2>6. QED
    BY <2>2, <2>4, <2>5 DEF OfOne
<1>11. Apart(b)
  BY <1>1, <1>5, <1>6, <1>7 DEF Apart, Takes
<1>12. \A x \in PurseBookings : OfOne(x)'
  BY <1>10, <1>11, OthersKeep
<1>13. Funds'
  <2>1. Purse!Sum(list') \in Int /\ Purse!Sum(list') >= Purse!Sum(list)
    <3>1. list[b][reason] \in Int /\ list'[b][reason] \in Int
      BY <1>1, <1>3, <1>5
    <3>2. QED
      BY <1>5, <1>8, <3>1
  <2>2. QED
    BY <1>1, <1>5, <1>6, <1>7, <2>1, FundsKept
<1>14. QED
  BY <1>9, <1>12, <1>13 DEF PurseInv

\* The player is to pay: one request reads what was earned and the balance.
LEMMA TakeIsRead ==
    ASSUME PurseAssumption, PurseInv, NEW b \in PurseBookings, Purse!TakeBackReads(b)
    PROVE  PurseInv'
<1>1. /\ PurseTypes /\ OfOne(b) /\ Funds /\ list \in [PurseBookings -> [Purse!Reasons -> Int]] /\ work \in PurseWork
      /\ rows \in [PurseBookings -> PurseRow] /\ rows[b] \in PurseRow /\ list' = list /\ note' = note
  BY DEF PurseInv, PurseTypes, Purse!TakeBackReads
<1>2. PICK given \in SUBSET {"transfer_booking", "noshow_transfer_ok"} :
        /\ \A r \in given : list[b][r] # 0
        /\ list[b]["transfer_booking"] # 0 => "transfer_booking" \in given
        /\ work' = [work EXCEPT !.decide = @ \ {<<b, "player">>},
                                !.take = @ \cup {[b |-> b, given |-> given, balance |-> Purse!Balance(list)]}]
  <2>1. PICK ofNoshow \in BOOLEAN :
          LET given == {r \in {"transfer_booking", "noshow_transfer_ok"} : list[b][r] # 0 /\ (r = "noshow_transfer_ok" => ofNoshow)} IN
          work' = [work EXCEPT !.decide = @ \ {<<b, "player">>},
                               !.take = @ \cup {[b |-> b, given |-> given, balance |-> Purse!Balance(list)]}]
    BY DEF Purse!TakeBackReads
  <2> DEFINE given == {r \in {"transfer_booking", "noshow_transfer_ok"} : list[b][r] # 0 /\ (r = "noshow_transfer_ok" => ofNoshow)}
  <2>2. /\ given \in SUBSET {"transfer_booking", "noshow_transfer_ok"} /\ \A r \in given : list[b][r] # 0
        /\ list[b]["transfer_booking"] # 0 => "transfer_booking" \in given
    OBVIOUS
  <2> HIDE DEF given
  <2>3. QED
    BY <2>1, <2>2 DEF given
<1> DEFINE new == [b |-> b, given |-> given, balance |-> Purse!Balance(list)]
<1>3. Purse!Sum(list) \in Int /\ Purse!Balance(list) \in Nat
      /\ (Purse!Balance(list) > 0 => Purse!Sum(list) >= Purse!Balance(list))
  <2>1. Purse!Sum(list) \in Int
    BY <1>1, SumIsANumber DEF PurseAssumption
  <2>2. QED
    BY <2>1 DEF Purse!Balance
<1>4. new \in TakeRequest /\ new.b = b /\ new.given = given /\ new.balance = Purse!Balance(list)
  BY <1>3 DEF TakeRequest
<1>5. work' = [work EXCEPT !.decide = @ \ {<<b, "player">>}, !.take = @ \cup {new}]
  BY <1>2
<1> HIDE DEF new
<1>6. /\ work' \in PurseWork /\ work'.decide = work.decide \ {<<b, "player">>} /\ work'.take = work.take \cup {new}
      /\ work'.look = work.look /\ work'.award = work.award /\ work'.redeem = work.redeem /\ work'.job = work.job
  BY <1>1, <1>4, <1>5 DEF PurseWork
<1>7. /\ <<b, "player">> \in work.decide /\ "player" \in rows[b].decided /\ rows' = [rows EXCEPT ![b].taken = TRUE]
  BY DEF Purse!TakeBackReads
<1>8. /\ rows' \in [PurseBookings -> PurseRow] /\ \A x \in PurseBookings : x # b => rows'[x] = rows[x]
      /\ rows'[b] = [rows[b] EXCEPT !.taken = TRUE] /\ rows'[b] \in PurseRow
  BY <1>1, <1>7 DEF PurseRow
<1>9. /\ rows'[b].status = rows[b].status /\ rows'[b].price = rows[b].price /\ rows'[b].final = rows[b].final
      /\ rows'[b].transfer = rows[b].transfer /\ rows'[b].cash = rows[b].cash /\ rows'[b].back = rows[b].back
      /\ rows'[b].discount = rows[b].discount /\ rows'[b].whole = rows[b].whole /\ rows'[b].decided = rows[b].decided
      /\ rows'[b].taken
  BY <1>1, <1>8 DEF PurseRow
<1>10. PurseTypes'
  BY <1>1, <1>6, <1>8 DEF PurseTypes
<1>11. OfOne(b)'
  <2>1. PriceIsPaidFor(b)' /\ PointsComeBack(b)' /\ Earned(b)'
    BY <1>1, <1>6, <1>9 DEF OfOne, PriceIsPaidFor, PointsComeBack, Earned, Purse!Settled, Purse!Due, Purse!Paid, Purse!Locked
  <2>2. NoMoreTaken(b) /\ OneTakes(b)
    BY <1>1 DEF OfOne, Asked
  <2>3. ~rows[b].taken
    BY <1>7, <2>2 DEF OneTakes
  <2>4. Takes(b) = {}
    BY <2>2, <2>3 DEF OneTakes
  <2>5. Takes(b)' = {new}
    BY <1>4, <1>6, <2>4 DEF Takes
  <2>6. list[b]["transfer_booking_taken_back"] = 0 /\ list[b]["noshow_transfer_taken_back"] = 0
    BY <2>2, <2>3 DEF NoMoreTaken
  <2>7. NoMoreTaken(b)' /\ AllTaken(b)'
    BY <1>1, <1>9, <2>2, <2>5 DEF NoMoreTaken, AllTaken
  <2>8. OneTakes(b)'
    BY <1>1, <1>2, <1>4, <1>6, <1>7, <1>9, <2>5, <2>6 DEF OneTakes
  <2>9. QED
    BY <2>1, <2>7, <2>8 DEF OfOne, Asked
<1>12. Apart(b)
  <2>1. \A x \in PurseBookings : x # b => Takes(x)' = Takes(x)
    BY <1>4, <1>6 DEF Takes
  <2>2. QED
    BY <1>1, <1>6, <1>8, <2>1 DEF Apart
<1>13. Funds'
  BY <1>1, <1>3, <1>4, <1>6 DEF Funds
<1>14. QED
  BY <1>10, <1>11, <1>12, <1>13, OthersKeep DEF PurseInv

\* The player redeems: the balance is read under the row lock.
LEMMA RedeemIsRead ==
    ASSUME PurseAssumption, PurseInv, NEW b \in PurseBookings, Purse!Redeem(b)
    PROVE  PurseInv'
<1>1. /\ PurseTypes /\ OfOne(b) /\ Funds /\ list \in [PurseBookings -> [Purse!Reasons -> Int]] /\ work \in PurseWork
      /\ rows[b] \in PurseRow /\ UNCHANGED <<rows, list, note>>
  BY DEF PurseInv, PurseTypes, Purse!Redeem
<1>2. /\ rows[b].status \in {"held", "booked"} /\ rows[b].discount = 0 /\ Purse!Discount(b) > 0
      /\ Purse!Balance(list) >= 50 /\ work' = [work EXCEPT !.redeem = @ \cup {b}]
  BY DEF Purse!Redeem, Purse!RedeemPoints
<1>3. /\ work' \in PurseWork /\ work'.redeem = work.redeem \cup {b} /\ work'.look = work.look /\ work'.award = work.award
      /\ work'.take = work.take /\ work'.job = work.job /\ work'.decide = work.decide
  BY <1>1, <1>2 DEF PurseWork
<1>4. Purse!Due(b) > 0 /\ PurseDiscount > 0
  <2>1. Purse!Due(b) \in Int
    BY <1>1 DEF PurseRow, Purse!Due, Purse!Paid
  <2>2. QED
    BY <1>2, <2>1 DEF Purse!Discount, Purse!Lesser, PurseAssumption
<1>5. PurseTypes'
  BY <1>1, <1>3 DEF PurseTypes
<1>6. OfOne(b)'
  <2>1. PriceIsPaidFor(b)'
    BY <1>1, <1>2, <1>4 DEF OfOne, PriceIsPaidFor, Purse!Due, Purse!Paid
  <2>2. PointsComeBack(b)' /\ Earned(b)'
    BY <1>1, <1>3 DEF OfOne, PointsComeBack, Earned, Purse!Settled
  <2>3. Asked(b)'
    BY <1>1, <1>3 DEF OfOne, Asked, NoMoreTaken, OneTakes, AllTaken, Takes
  <2>4. QED
    BY <2>1, <2>2, <2>3 DEF OfOne
<1>7. Apart(b)
  BY <1>1, <1>3 DEF Apart, Takes
<1>8. Funds'
  <2>1. Purse!Sum(list) \in Int
    BY <1>1, SumIsANumber DEF PurseAssumption
  <2>2. Purse!Sum(list) >= 50
    BY <1>2, <2>1 DEF Purse!Balance
  <2>3. QED
    BY <1>1, <1>3, <2>2 DEF Funds, Purse!RedeemPoints
<1>9. QED
  BY <1>5, <1>6, <1>7, <1>8, OthersKeep DEF PurseInv

\* A deduction is written: no more than its balance by who has not been overtaken, and the others have been.
LEMMA Deducted ==
    ASSUME PurseInv, NEW request, NEW amount \in Nat, NEW balance \in Nat, amount <= balance,
           Purse!Sum(list) \in Int, Purse!Sum(list') = Purse!Sum(list) - amount,
           request \notin note.overtaken /\ balance > 0 => Purse!Sum(list) >= balance,
           work'.redeem \subseteq work.redeem, work'.take \subseteq work.take, work' \in PurseWork,
           \A b \in work'.redeem : <<"redeem", b>> # request, \A t \in work'.take : <<"take", t.b>> # request,
           note'.over = IF request \in note.overtaken THEN note.over + amount ELSE note.over,
           note'.overtaken = IF amount > 0 THEN Purse!Pending(work'.redeem, work'.take) ELSE note.overtaken \ {request}
    PROVE  Funds'
<1>1. Funds /\ note.over \in Nat /\ \A t \in work'.take : t.balance \in Nat
  BY DEF PurseInv, PurseTypes, PurseNote, PurseWork, TakeRequest
<1>2. CASE amount = 0
  <2>1. Purse!Sum(list') = Purse!Sum(list) /\ note'.over = note.over
    BY <1>1, <1>2
  <2>2. \A b \in work'.redeem : <<"redeem", b>> \in note.overtaken => <<"redeem", b>> \in note'.overtaken
    BY <1>2
  <2>3. \A t \in work'.take : <<"take", t.b>> \in note.overtaken => <<"take", t.b>> \in note'.overtaken
    BY <1>2
  <2>4. QED
    BY <1>1, <2>1, <2>2, <2>3 DEF Funds
<1>3. CASE amount > 0
  <2>1. Purse!Sum(list') >= -note'.over
    BY <1>1, <1>3 DEF Funds
  <2>2. /\ \A b \in work'.redeem : <<"redeem", b>> \in note'.overtaken
        /\ \A t \in work'.take : <<"take", t.b>> \in note'.overtaken
    BY <1>3 DEF Purse!Pending
  <2>3. QED
    BY <2>1, <2>2 DEF Funds
<1>4. QED
  BY <1>2, <1>3

\* What is noted with a deduction.
LEMMA DeductionNoted ==
    ASSUME PurseTypes, NEW request, NEW amount \in Nat, NEW pending, pending \in SUBSET ({"redeem", "take"} \X PurseBookings)
    PROVE  LET noted == Purse!Deducts(request, amount, pending) IN
           /\ noted \in PurseNote /\ noted.late = note.late /\ noted.short = note.short
           /\ noted.over = IF request \in note.overtaken THEN note.over + amount ELSE note.over
           /\ noted.overtaken = IF amount > 0 THEN pending ELSE note.overtaken \ {request}
<1> DEFINE over == IF request \in note.overtaken THEN note.over + amount ELSE note.over
           overtaken == IF amount > 0 THEN pending ELSE note.overtaken \ {request}
           noted == Purse!Deducts(request, amount, pending)
<1>1. over \in Nat /\ overtaken \in SUBSET ({"redeem", "take"} \X PurseBookings) /\ note \in PurseNote
  BY DEF PurseTypes, PurseNote
<1>2. noted = [note EXCEPT !.over = over, !.overtaken = overtaken]
  BY DEF Purse!Deducts
<1> HIDE DEF noted
<1>3. noted.over = over /\ noted.overtaken = overtaken
  BY <1>1, <1>2 DEF PurseNote
<1> HIDE DEF over, overtaken
<1>4. noted \in PurseNote /\ noted.late = note.late /\ noted.short = note.short
  BY <1>1, <1>2 DEF PurseNote
<1>5. QED
  BY <1>3, <1>4 DEF over, overtaken, noted

LEMMA PendingIs ==
    ASSUME NEW redeem \in SUBSET PurseBookings, NEW take \in SUBSET TakeRequest
    PROVE  Purse!Pending(redeem, take) \in SUBSET ({"redeem", "take"} \X PurseBookings)
  BY DEF Purse!Pending, TakeRequest

\* The redemption is written: fifty for the venue's discount, off a price that still has as much due.
LEMMA RedeemIsWritten ==
    ASSUME PurseAssumption, PurseInv, NEW b \in PurseBookings, Purse!RedeemPaid(b)
    PROVE  PurseInv'
<1>1. /\ PurseTypes /\ OfOne(b) /\ Funds /\ list \in [PurseBookings -> [Purse!Reasons -> Int]] /\ work \in PurseWork
      /\ rows \in [PurseBookings -> PurseRow] /\ rows[b] \in PurseRow /\ note \in PurseNote
      /\ \A q \in Purse!Reasons : list[b][q] \in Int
  BY DEF PurseInv, PurseTypes
<1>2. /\ Purse!Locked(b) /\ list' = [list EXCEPT ![b]["redeem"] = -50]
      /\ rows' = Purse!Written(b, [rows[b] EXCEPT !.price = @ - Purse!Discount(b), !.discount = Purse!Discount(b)])
      /\ work' = [work EXCEPT !.redeem = @ \ {b}]
      /\ note' = Purse!Deducts(<<"redeem", b>>, 50, Purse!Pending(work.redeem \ {b}, work.take))
  BY DEF Purse!RedeemPaid, Purse!RedeemPoints
<1>3. /\ rows[b].status \in {"held", "booked"} /\ rows[b].discount = 0 /\ PurseDiscount > 0 /\ ~rows[b].final
      /\ list[b]["redeem"] = 0 /\ rows[b].price = PursePrice
      /\ Purse!Due(b) \in Int /\ Purse!Due(b) > 0
      /\ Purse!Due(b) = rows[b].price - (rows[b].transfer + rows[b].cash - rows[b].back)
  BY <1>1, <1>2 DEF OfOne, PriceIsPaidFor, PurseRow, Purse!Due, Purse!Paid
<1> DEFINE off == Purse!Discount(b)
           rest == rows[b].price - off
           less == [rows[b] EXCEPT !.price = rest, !.discount = off]
           row == [less EXCEPT !.whole = rows[b].whole \/ Purse!Settled(less)]
<1>4. off \in Nat /\ off > 0 /\ off <= PurseDiscount /\ off <= Purse!Due(b)
  BY <1>3 DEF Purse!Discount, Purse!Lesser, PurseAssumption
<1>5. rows' = Purse!Written(b, less)
  BY <1>2
<1> HIDE DEF off
<1>r. rest \in Int /\ rest = rows[b].price - off
  BY <1>1, <1>4 DEF PurseRow
<1> HIDE DEF rest
<1>6. /\ less \in PurseRow /\ less.price = rest /\ less.discount = off /\ less.status = rows[b].status
      /\ less.final = rows[b].final /\ less.transfer = rows[b].transfer /\ less.cash = rows[b].cash
      /\ less.back = rows[b].back /\ less.whole = rows[b].whole /\ less.decided = rows[b].decided /\ less.taken = rows[b].taken
  BY <1>1, <1>4, <1>r DEF PurseRow
<1> HIDE DEF less
<1>7. rows' = [rows EXCEPT ![b] = row]
  BY <1>5, <1>6 DEF Purse!Written
<1>8. /\ row \in PurseRow /\ row.price = rows[b].price - off /\ row.discount = off /\ row.status = rows[b].status
      /\ row.final = rows[b].final /\ row.transfer = rows[b].transfer /\ row.cash = rows[b].cash
      /\ row.back = rows[b].back /\ row.decided = rows[b].decided /\ row.taken = rows[b].taken
      /\ row.whole = (rows[b].whole \/ Purse!Settled(less)) /\ (Purse!Settled(row) <=> Purse!Settled(less))
  BY <1>1, <1>6, <1>r DEF PurseRow, Purse!Settled
<1> HIDE DEF row
<1>9. rows' \in [PurseBookings -> PurseRow] /\ rows'[b] = row /\ \A x \in PurseBookings : x # b => rows'[x] = rows[x]
  BY <1>1, <1>7, <1>8
<1>10. /\ work' \in PurseWork /\ work'.redeem = work.redeem \ {b} /\ work'.look = work.look /\ work'.award = work.award
       /\ work'.take = work.take /\ work'.job = work.job /\ work'.decide = work.decide
  BY <1>1, <1>2 DEF PurseWork
<1>11. /\ note' \in PurseNote /\ note'.late = note.late /\ note'.short = note.short
       /\ note'.over = IF <<"redeem", b>> \in note.overtaken THEN note.over + 50 ELSE note.over
       /\ note'.overtaken = Purse!Pending(work'.redeem, work'.take)
  <2>1. work.redeem \ {b} \in SUBSET PurseBookings /\ work.take \in SUBSET TakeRequest
    BY <1>1 DEF PurseWork
  <2>2. PICK pending : pending = Purse!Pending(work.redeem \ {b}, work.take)
    OBVIOUS
  <2>3. pending \in SUBSET ({"redeem", "take"} \X PurseBookings) /\ 50 \in Nat /\ 50 > 0
    BY <2>1, <2>2, PendingIs
  <2>4. PICK amount \in Nat : amount = 50
    OBVIOUS
  <2>5. note' = Purse!Deducts(<<"redeem", b>>, amount, pending)
    BY <1>2, <2>2, <2>4
  <2>6. LET noted == Purse!Deducts(<<"redeem", b>>, amount, pending) IN
        /\ noted \in PurseNote /\ noted.late = note.late /\ noted.short = note.short
        /\ noted.over = IF <<"redeem", b>> \in note.overtaken THEN note.over + amount ELSE note.over
        /\ noted.overtaken = IF amount > 0 THEN pending ELSE note.overtaken \ {<<"redeem", b>>}
    <3>1. PurseTypes
      BY <1>1
    <3>2. pending \in SUBSET ({"redeem", "take"} \X PurseBookings)
      BY <2>3
    <3>3. QED
      BY ONLY <3>1, <3>2, amount \in Nat, DeductionNoted, Zenon
  <2>7. QED
    BY <1>10, <2>2, <2>3, <2>4, <2>5, <2>6
<1>12. /\ list' \in [PurseBookings -> [Purse!Reasons -> Int]] /\ \A x \in PurseBookings : x # b => list'[x] = list[x]
       /\ \A q \in Purse!Reasons : q # "redeem" => list'[b][q] = list[b][q]
       /\ list'[b]["redeem"] = -50 /\ "redeem" \in Purse!Reasons
  BY <1>1, <1>2 DEF Purse!Reasons
<1>13. Purse!Sum(list) \in Int /\ Purse!Sum(list') = Purse!Sum(list) - 50
  <2>1. Purse!Sum(list) \in Int /\ Purse!Sum(list') = Purse!Sum(list) + list'[b]["redeem"] - list[b]["redeem"]
    BY <1>1, <1>12, Changed DEF PurseAssumption
  <2>2. QED
    BY <1>3, <1>12, <2>1
<1>14. /\ list'[b]["redeem_returned"] = list[b]["redeem_returned"]
       /\ list'[b]["transfer_booking"] = list[b]["transfer_booking"]
       /\ list'[b]["noshow_transfer_ok"] = list[b]["noshow_transfer_ok"]
       /\ list'[b]["transfer_booking_taken_back"] = list[b]["transfer_booking_taken_back"]
       /\ list'[b]["noshow_transfer_taken_back"] = list[b]["noshow_transfer_taken_back"]
  BY <1>12 DEF Purse!Reasons
<1>15. PurseTypes'
  BY <1>9, <1>10, <1>11, <1>12 DEF PurseTypes
<1>16. OfOne(b)'
  <2>1. PriceIsPaidFor(b)'
    <3>1. Purse!Due(b)' = Purse!Due(b) - off /\ Purse!Due(b)' >= 0
      BY <1>1, <1>3, <1>4, <1>8, <1>9 DEF Purse!Due, Purse!Paid, PurseRow
    <3>2. ~Purse!Locked(b)'
      BY <1>10 DEF Purse!Locked
    <3>3. PursePrice \in Int /\ rows[b].price - off + off = PursePrice
      BY <1>3, <1>4 DEF PurseAssumption
    <3>4. QED
      BY <1>3, <1>4, <1>8, <1>9, <1>12, <3>1, <3>2, <3>3 DEF PriceIsPaidFor, Purse!RedeemPoints
  <2>2. PointsComeBack(b)'
    <3>1. list[b]["redeem_returned"] = 0 /\ b \notin work.job
      BY <1>1, <1>3 DEF OfOne, PointsComeBack
    <3>2. QED
      BY <1>10, <1>14, <3>1 DEF PointsComeBack
  <2>3. Earned(b)'
    <3>1. Earned(b)
      BY <1>1 DEF OfOne
    <3>2. rows[b].whole \/ Purse!Settled(row) => row.whole
      BY <1>8
    <3>3. QED
      BY <1>8, <1>9, <1>10, <1>14, <3>1, <3>2 DEF Earned
  <2>4. Asked(b)'
    BY <1>1, <1>8, <1>9, <1>10, <1>11, <1>14 DEF OfOne, Asked, NoMoreTaken, OneTakes, AllTaken, Takes, PurseWork, TakeRequest
  <2>5. QED
    BY <2>1, <2>2, <2>3, <2>4 DEF OfOne
<1>17. Apart(b)
  BY <1>9, <1>10, <1>11, <1>12 DEF Apart, Takes
<1>18. Funds'
  <2>1. <<"redeem", b>> \notin note.overtaken => Purse!Sum(list) >= 50
    BY <1>1, <1>2 DEF Funds, Purse!Locked, Purse!RedeemPoints
  <2>2. /\ \A x \in work'.redeem : <<"redeem", x>> # <<"redeem", b>>
        /\ \A t \in work'.take : <<"take", t.b>> # <<"redeem", b>>
        /\ work'.redeem \subseteq work.redeem /\ work'.take \subseteq work.take
    BY <1>10
  <2>3. 50 \in Nat /\ 50 <= 50 /\ 50 > 0
    OBVIOUS
  <2>4. QED
    BY <1>10, <1>11, <1>13, <2>1, <2>2, <2>3, Deducted
<1>19. QED
  BY <1>15, <1>16, <1>17, <1>18, OthersKeep DEF PurseInv

\* What was earned is taken back, no more of it than there was.
LEMMA TakeIsWritten ==
    ASSUME PurseAssumption, PurseInv, NEW t \in work.take, Purse!TakeBack(t)
    PROVE  PurseInv'
<1>1. /\ PurseTypes /\ Funds /\ list \in [PurseBookings -> [Purse!Reasons -> Int]] /\ work \in PurseWork
      /\ note \in PurseNote /\ t \in TakeRequest /\ rows' = rows
  BY DEF PurseInv, PurseTypes, PurseWork, Purse!TakeBack
<1>2. PICK b \in PurseBookings : b = t.b
  BY <1>1 DEF TakeRequest
<1>3. /\ OfOne(b) /\ t \in Takes(b) /\ t.balance \in Nat /\ t.given \in SUBSET {"transfer_booking", "noshow_transfer_ok"}
      /\ \A q \in Purse!Reasons : list[b][q] \in Int
  BY <1>1, <1>2 DEF PurseInv, Takes, TakeRequest
<1> DEFINE tb == IF "transfer_booking" \in t.given THEN list[b]["transfer_booking"] ELSE 0
           ok == IF "noshow_transfer_ok" \in t.given THEN list[b]["noshow_transfer_ok"] ELSE 0
           fifty == Purse!Lesser(tb, t.balance)
           ten == Purse!Lesser(ok, t.balance - fifty)
           mid == Purse!AddPoints(list, b, "transfer_booking_taken_back", -fifty)
<1>4. /\ list' = Purse!AddPoints(mid, b, "noshow_transfer_taken_back", -ten)
      /\ work' = [work EXCEPT !.take = @ \ {t}]
      /\ note' = [Purse!Deducts(<<"take", b>>, fifty + ten, Purse!Pending(work.redeem, work.take \ {t}))
                    EXCEPT !.short = IF fifty < tb THEN @ \cup {b} ELSE @]
  BY <1>2 DEF Purse!TakeBack
<1>5. /\ Takes(b) = {t} /\ rows[b].taken /\ list[b]["transfer_booking_taken_back"] = 0 /\ list[b]["noshow_transfer_taken_back"] = 0
      /\ b \notin note.late => "transfer_booking" \in t.given \/ list[b]["transfer_booking"] = 0
      /\ "player" \in rows[b].decided /\ <<b, "player">> \notin work.decide
  BY <1>3 DEF OfOne, Asked, OneTakes
<1>6. /\ list[b]["transfer_booking"] \in {0, 5} /\ list[b]["noshow_transfer_ok"] \in {0, 1}
  BY <1>3 DEF OfOne, Earned, Purse!TransferPoints, Purse!NoshowTransferPoints
<1>7. /\ tb \in Nat /\ tb <= list[b]["transfer_booking"] /\ ok \in Nat /\ ok <= list[b]["noshow_transfer_ok"]
      /\ b \notin note.late => tb = list[b]["transfer_booking"]
  BY <1>5, <1>6
<1> HIDE DEF tb, ok
<1>8. /\ fifty \in Nat /\ fifty <= tb /\ ten \in Nat /\ ten <= ok /\ fifty + ten <= t.balance
      /\ ~(fifty < tb) => fifty = tb
  BY <1>3, <1>7 DEF Purse!Lesser
<1> HIDE DEF fifty, ten
<1>9. /\ "transfer_booking_taken_back" \in Purse!Reasons /\ "noshow_transfer_taken_back" \in Purse!Reasons
      /\ -fifty \in Int /\ -ten \in Int
  BY <1>8 DEF Purse!Reasons
<1>10. PICK half : half = mid
  OBVIOUS
<1> HIDE DEF mid
<1>11. /\ half \in [PurseBookings -> [Purse!Reasons -> Int]] /\ \A x \in PurseBookings : x # b => half[x] = list[x]
       /\ \A q \in Purse!Reasons : q # "transfer_booking_taken_back" => half[b][q] = list[b][q]
       /\ half[b]["transfer_booking_taken_back"] = -fifty
       /\ Purse!Sum(list) \in Int /\ Purse!Sum(half) = Purse!Sum(list) - fifty
  <2>1. half = Purse!AddPoints(list, b, "transfer_booking_taken_back", -fifty)
    BY <1>10 DEF mid
  <2>2. /\ half \in [PurseBookings -> [Purse!Reasons -> Int]] /\ \A x \in PurseBookings : x # b => half[x] = list[x]
        /\ \A q \in Purse!Reasons : q # "transfer_booking_taken_back" => half[b][q] = list[b][q]
        /\ half[b]["transfer_booking_taken_back"] = -fifty
        /\ Purse!Sum(list) \in Int
        /\ Purse!Sum(half) = Purse!Sum(list) + half[b]["transfer_booking_taken_back"] - list[b]["transfer_booking_taken_back"]
    <3>1. half = [list EXCEPT ![b]["transfer_booking_taken_back"] = -fifty]
      BY <1>5, <2>1 DEF Purse!AddPoints
    <3>2. /\ half \in [PurseBookings -> [Purse!Reasons -> Int]] /\ \A x \in PurseBookings : x # b => half[x] = list[x]
          /\ \A q \in Purse!Reasons : q # "transfer_booking_taken_back" => half[b][q] = list[b][q]
          /\ half[b]["transfer_booking_taken_back"] = -fifty
      BY <1>1, <1>9, <3>1
    <3>3. QED
      BY <1>1, <1>9, <3>2, Changed DEF PurseAssumption
  <2>3. QED
    BY <1>5, <1>8, <2>2
<1>12. /\ list' \in [PurseBookings -> [Purse!Reasons -> Int]] /\ \A x \in PurseBookings : x # b => list'[x] = half[x]
       /\ \A q \in Purse!Reasons : q # "noshow_transfer_taken_back" => list'[b][q] = half[b][q]
       /\ list'[b]["noshow_transfer_taken_back"] = -ten /\ Purse!Sum(list') = Purse!Sum(half) - ten
  <2>1. list' = Purse!AddPoints(half, b, "noshow_transfer_taken_back", -ten) /\ half[b]["noshow_transfer_taken_back"] = 0
    BY <1>4, <1>5, <1>9, <1>10, <1>11
  <2>2. /\ list' \in [PurseBookings -> [Purse!Reasons -> Int]] /\ \A x \in PurseBookings : x # b => list'[x] = half[x]
        /\ \A q \in Purse!Reasons : q # "noshow_transfer_taken_back" => list'[b][q] = half[b][q]
        /\ list'[b]["noshow_transfer_taken_back"] = -ten /\ Purse!Sum(half) \in Int
        /\ Purse!Sum(list') = Purse!Sum(half) + list'[b]["noshow_transfer_taken_back"] - half[b]["noshow_transfer_taken_back"]
    <3>1. list' = [half EXCEPT ![b]["noshow_transfer_taken_back"] = -ten]
      BY <2>1 DEF Purse!AddPoints
    <3>2. /\ list' \in [PurseBookings -> [Purse!Reasons -> Int]] /\ \A x \in PurseBookings : x # b => list'[x] = half[x]
          /\ \A q \in Purse!Reasons : q # "noshow_transfer_taken_back" => list'[b][q] = half[b][q]
          /\ list'[b]["noshow_transfer_taken_back"] = -ten
      BY <1>9, <1>11, <3>1
    <3>3. QED
      BY <1>9, <1>11, <3>2, Changed DEF PurseAssumption
  <2>3. QED
    BY <1>8, <2>1, <2>2
<1>13. /\ \A x \in PurseBookings : x # b => list'[x] = list[x]
       /\ list'[b]["redeem"] = list[b]["redeem"] /\ list'[b]["redeem_returned"] = list[b]["redeem_returned"]
       /\ list'[b]["transfer_booking"] = list[b]["transfer_booking"]
       /\ list'[b]["noshow_transfer_ok"] = list[b]["noshow_transfer_ok"]
       /\ list'[b]["transfer_booking_taken_back"] = -fifty /\ list'[b]["noshow_transfer_taken_back"] = -ten
  BY <1>11, <1>12 DEF Purse!Reasons
<1>14. /\ work' \in PurseWork /\ work'.take = work.take \ {t} /\ work'.look = work.look /\ work'.award = work.award
       /\ work'.redeem = work.redeem /\ work'.job = work.job /\ work'.decide = work.decide
  BY <1>1, <1>4 DEF PurseWork
<1>15. /\ note' \in PurseNote /\ note'.late = note.late
       /\ note'.over = IF <<"take", b>> \in note.overtaken THEN note.over + (fifty + ten) ELSE note.over
       /\ note'.overtaken = IF fifty + ten > 0 THEN Purse!Pending(work'.redeem, work'.take) ELSE note.overtaken \ {<<"take", b>>}
       /\ note'.short = IF fifty < tb THEN note.short \cup {b} ELSE note.short
  <2> DEFINE noted == Purse!Deducts(<<"take", b>>, fifty + ten, Purse!Pending(work.redeem, work.take \ {t}))
  <2>1. /\ noted \in PurseNote /\ noted.late = note.late /\ noted.short = note.short
        /\ noted.over = IF <<"take", b>> \in note.overtaken THEN note.over + (fifty + ten) ELSE note.over
        /\ noted.overtaken = IF fifty + ten > 0 THEN Purse!Pending(work.redeem, work.take \ {t}) ELSE note.overtaken \ {<<"take", b>>}
    <3>1. work.redeem \in SUBSET PurseBookings /\ work.take \ {t} \in SUBSET TakeRequest /\ fifty + ten \in Nat
      BY <1>1, <1>8 DEF PurseWork
    <3>2. PICK pending : pending = Purse!Pending(work.redeem, work.take \ {t})
      OBVIOUS
    <3>3. pending \in SUBSET ({"redeem", "take"} \X PurseBookings)
      BY <3>1, <3>2, PendingIs
    <3>4. PICK amount \in Nat : amount = fifty + ten
      BY <3>1
    <3>5. QED
      BY <1>1, <3>2, <3>3, <3>4, DeductionNoted
  <2>2. note' = [noted EXCEPT !.short = IF fifty < tb THEN @ \cup {b} ELSE @]
    BY <1>4
  <2> HIDE DEF noted
  <2>3. /\ note' \in PurseNote /\ note'.late = noted.late /\ note'.over = noted.over /\ note'.overtaken = noted.overtaken
        /\ note'.short = IF fifty < tb THEN noted.short \cup {b} ELSE noted.short
    BY <2>1, <2>2 DEF PurseNote
  <2>4. QED
    BY <1>14, <2>1, <2>3
<1>16. PurseTypes'
  BY <1>1, <1>12, <1>14, <1>15 DEF PurseTypes
<1>17. OfOne(b)'
  <2>1. PriceIsPaidFor(b)' /\ PointsComeBack(b)' /\ Earned(b)'
    BY <1>1, <1>3, <1>13, <1>14 DEF OfOne, PriceIsPaidFor, PointsComeBack, Earned, Purse!Settled, Purse!Due, Purse!Paid, Purse!Locked
  <2>2. Takes(b)' = {}
    BY <1>5, <1>14 DEF Takes
  <2>3. NoMoreTaken(b)'
    BY <1>1, <1>5, <1>6, <1>7, <1>8, <1>13 DEF NoMoreTaken
  <2>4. OneTakes(b)'
    BY <1>1, <1>5, <1>14, <2>2 DEF OneTakes
  <2>5. AllTaken(b)'
    <3>1. b \notin note'.late \cup note'.short => fifty = list[b]["transfer_booking"]
      BY <1>7, <1>8, <1>15
    <3>2. QED
      BY <1>6, <1>13, <3>1 DEF AllTaken
  <2>6. QED
    BY <2>1, <2>3, <2>4, <2>5 DEF OfOne, Asked
<1>18. Apart(b)
  <2>1. \A x \in PurseBookings : x # b => Takes(x)' = Takes(x)
    BY <1>2, <1>14 DEF Takes
  <2>2. QED
    BY <1>1, <1>13, <1>14, <1>15, <2>1 DEF Apart
<1>19. Funds'
  <2>1. <<"take", b>> \notin note.overtaken /\ t.balance > 0 => Purse!Sum(list) >= t.balance
    BY <1>1, <1>2 DEF Funds
  <2>2. /\ \A x \in work'.redeem : <<"redeem", x>> # <<"take", b>>
        /\ \A u \in work'.take : <<"take", u.b>> # <<"take", b>>
        /\ work'.redeem \subseteq work.redeem /\ work'.take \subseteq work.take
    BY <1>5, <1>14 DEF Takes
  <2>3. fifty + ten \in Nat /\ Purse!Sum(list') = Purse!Sum(list) - (fifty + ten)
    BY <1>8, <1>11, <1>12
  <2>4. QED
    BY <1>3, <1>8, <1>11, <1>14, <1>15, <2>1, <2>2, <2>3, Deducted
<1>20. QED
  BY <1>16, <1>17, <1>18, <1>19, OthersKeep DEF PurseInv

\* A redemption of a booking that died comes back.
LEMMA RedeemComesBack ==
    ASSUME PurseAssumption, PurseInv, NEW b \in PurseBookings, Purse!JobReturns(b)
    PROVE  PurseInv'
<1>1. /\ PurseTypes /\ OfOne(b) /\ Funds /\ list \in [PurseBookings -> [Purse!Reasons -> Int]] /\ work \in PurseWork
      /\ rows' = rows /\ note' = note /\ \A q \in Purse!Reasons : list[b][q] \in Int
  BY DEF PurseInv, PurseTypes, Purse!JobReturns
<1>2. list[b]["redeem"] = -50 /\ -list[b]["redeem"] = 50 /\ rows[b].status = "cancelled"
      /\ list[b]["redeem_returned"] \in {0, 50}
  <2>1. list[b]["redeem"] = -50 /\ rows[b].status = "cancelled" /\ list[b]["redeem_returned"] \in {0, -list[b]["redeem"]}
    BY <1>1 DEF Purse!JobReturns, OfOne, PointsComeBack, PriceIsPaidFor, Purse!RedeemPoints
  <2>2. -list[b]["redeem"] = 50
    <3>1. list[b]["redeem"] \in Int /\ list[b]["redeem"] + 50 = 0
      BY <1>1, <2>1 DEF Purse!Reasons
    <3>2. QED
      BY ONLY <3>1
  <2>3. QED
    BY <2>1, <2>2
<1>3. list' = Purse!AddPoints(list, b, "redeem_returned", 50) /\ "redeem_returned" \in Purse!Reasons /\ 50 \in Int
  BY <1>2 DEF Purse!JobReturns, Purse!Reasons
<1>4. /\ list' \in [PurseBookings -> [Purse!Reasons -> Int]] /\ \A x \in PurseBookings : x # b => list'[x] = list[x]
      /\ \A q \in Purse!Reasons : q # "redeem_returned" => list'[b][q] = list[b][q]
      /\ list'[b]["redeem_returned"] = IF list[b]["redeem_returned"] # 0 THEN list[b]["redeem_returned"] ELSE 50
      /\ Purse!Sum(list) \in Int
      /\ Purse!Sum(list') = Purse!Sum(list) + list'[b]["redeem_returned"] - list[b]["redeem_returned"]
  BY <1>1, <1>3, PointsAdded DEF PurseAssumption
<1>5. /\ work' \in PurseWork /\ work'.job = work.job \ {b} /\ work'.look = work.look /\ work'.award = work.award
      /\ work'.take = work.take /\ work'.redeem = work.redeem /\ work'.decide = work.decide
  BY <1>1 DEF PurseWork, Purse!JobReturns
<1>6. /\ list'[b]["redeem_returned"] = 50 /\ list'[b]["redeem"] = list[b]["redeem"]
      /\ list'[b]["transfer_booking"] = list[b]["transfer_booking"]
      /\ list'[b]["noshow_transfer_ok"] = list[b]["noshow_transfer_ok"]
      /\ list'[b]["transfer_booking_taken_back"] = list[b]["transfer_booking_taken_back"]
      /\ list'[b]["noshow_transfer_taken_back"] = list[b]["noshow_transfer_taken_back"]
  BY <1>2, <1>4 DEF Purse!Reasons
<1>7. PurseTypes'
  BY <1>1, <1>4, <1>5 DEF PurseTypes
<1>8. OfOne(b)'
  <2>1. PriceIsPaidFor(b)' /\ Earned(b)'
    BY <1>1, <1>5, <1>6 DEF OfOne, PriceIsPaidFor, Earned, Purse!Settled, Purse!Due, Purse!Paid, Purse!Locked
  <2>2. PointsComeBack(b)'
    BY <1>1, <1>2, <1>5, <1>6 DEF PointsComeBack
  <2>3. Asked(b)'
    <3>1. NoMoreTaken(b) /\ OneTakes(b) /\ AllTaken(b)
      BY <1>1 DEF OfOne, Asked
    <3>2. Takes(b)' = Takes(b) /\ \A t \in Takes(b) : t.given \subseteq {"transfer_booking", "noshow_transfer_ok"}
      BY <1>1, <1>5 DEF Takes, PurseWork, TakeRequest
    <3>3. NoMoreTaken(b)' /\ AllTaken(b)'
      BY <1>1, <1>6, <3>1, <3>2 DEF NoMoreTaken, AllTaken
    <3>4. OneTakes(b)'
      BY <1>1, <1>5, <1>6, <3>1, <3>2 DEF OneTakes
    <3>5. QED
      BY <3>3, <3>4 DEF Asked
  <2>4. QED
    BY <2>1, <2>2, <2>3 DEF OfOne
<1>9. Apart(b)
  BY <1>1, <1>4, <1>5 DEF Apart, Takes
<1>10. Funds'
  <2>1. Purse!Sum(list') \in Int /\ Purse!Sum(list') >= Purse!Sum(list)
    BY <1>2, <1>4, <1>6
  <2>2. QED
    BY <1>1, <1>4, <1>5, <2>1, FundsKept
<1>11. QED
  BY <1>7, <1>8, <1>9, <1>10, OthersKeep DEF PurseInv

LEMMA PurseStep ==
    ASSUME PurseAssumption
    PROVE  PurseInv /\ [Purse!Next]_(Purse!vars) => PurseInv'
<1> SUFFICES ASSUME PurseInv, [Purse!Next]_(Purse!vars)
             PROVE  PurseInv'
  OBVIOUS
<1>1. CASE UNCHANGED Purse!vars
  BY <1>1 DEF Purse!vars, PurseInv, PurseTypes, OfOne, PriceIsPaidFor, PointsComeBack, Earned, Asked, NoMoreTaken, OneTakes, AllTaken,
     Takes, Funds, Purse!Due, Purse!Paid, Purse!Locked, Purse!Settled
<1>2. CASE Purse!JobReads
  BY <1>2, Looks
<1>3. ASSUME NEW t \in work.take, Purse!TakeBack(t)
      PROVE  PurseInv'
  BY <1>3, TakeIsWritten
<1>4. ASSUME NEW b \in PurseBookings,
             Purse!Pay(b) \/ Purse!TakeMoneyBack(b) \/ Purse!FinalPrice(b) \/ Purse!MarkNotReceived(b) \/ Purse!StaffPays(b)
      PROVE  PurseInv'
  BY <1>4, MoneyMoved
<1>5. ASSUME NEW b \in PurseBookings,
             Purse!NoShow(b) \/ Purse!Complete(b) \/ Purse!Cancel(b) \/ Purse!Marked(b)
      PROVE  PurseInv'
  BY <1>5, BookingGoesOn
<1>6. ASSUME NEW b \in PurseBookings, Purse!LookAtDue(b) \/ Purse!LookAtEntries(b)
      PROVE  PurseInv'
  BY <1>6, Looks
<1>7. ASSUME NEW b \in PurseBookings, Purse!Award(b) \/ Purse!AwardNoshow(b)
      PROVE  PurseInv'
  BY <1>7, PointsEarned
<1>8. ASSUME NEW b \in PurseBookings, NEW who \in {"staff", "player"}, Purse!DecideReads(b, who) \/ Purse!Decide(b, who)
      PROVE  PurseInv'
  BY <1>8, Looks, BookingGoesOn
<1>9. ASSUME NEW b \in PurseBookings,
             Purse!TakeBackReads(b) \/ Purse!Redeem(b) \/ Purse!RedeemPaid(b) \/ Purse!JobReturns(b)
      PROVE  PurseInv'
  BY <1>9, TakeIsRead, RedeemIsRead, RedeemIsWritten, RedeemComesBack
<1>10. QED
  BY <1>1, <1>2, <1>3, <1>4, <1>5, <1>6, <1>7, <1>8, <1>9 DEF Purse!Next

\* And what the invariant is for.
LEMMA PurseFaithful ==
    ASSUME PurseAssumption
    PROVE  PurseInv => Purse!Faithful
<1> SUFFICES ASSUME PurseInv
             PROVE  Purse!Faithful
  OBVIOUS
<1>1. /\ Funds /\ \A b \in PurseBookings : /\ OfOne(b) /\ rows[b] \in PurseRow
                                           /\ \A q \in Purse!Reasons : list[b][q] \in Int
  BY DEF PurseInv, PurseTypes
<1>2. Purse!NeverBelowZero
  BY <1>1 DEF Funds, Purse!NeverBelowZero
<1>3. Purse!DiscountIsPaidFor
  BY <1>1 DEF OfOne, PriceIsPaidFor, PurseRow, Purse!DiscountIsPaidFor, Purse!RedeemPoints
<1>4. Purse!ReturnedWhenDead
  BY <1>1 DEF OfOne, PointsComeBack, Purse!ReturnedWhenDead
<1>5. Purse!OnlyTransfersEarn
  <2>1. ASSUME NEW b \in PurseBookings
        PROVE  /\ list[b]["transfer_booking"] + list[b]["transfer_booking_taken_back"] \in 0 .. Purse!TransferPoints
               /\ list[b]["noshow_transfer_ok"] + list[b]["noshow_transfer_taken_back"] \in 0 .. Purse!NoshowTransferPoints
    <3>1. /\ list[b]["transfer_booking"] \in Int /\ list[b]["transfer_booking_taken_back"] \in Int
          /\ list[b]["noshow_transfer_ok"] \in Int /\ list[b]["noshow_transfer_taken_back"] \in Int
      BY <1>1 DEF Purse!Reasons
    <3>2. Earned(b) /\ NoMoreTaken(b)
      BY <1>1 DEF OfOne, Asked
    <3> DEFINE tb == list[b]["transfer_booking"]
               tbBack == list[b]["transfer_booking_taken_back"]
               ok == list[b]["noshow_transfer_ok"]
               okBack == list[b]["noshow_transfer_taken_back"]
    <3>3. /\ tb \in {0, 5} /\ ok \in {0, 1} /\ tbBack <= 0 /\ tb + tbBack >= 0 /\ okBack <= 0 /\ ok + okBack >= 0
          /\ tbBack \in Int /\ okBack \in Int
      BY <3>1, <3>2 DEF Earned, NoMoreTaken, Purse!TransferPoints, Purse!NoshowTransferPoints
    <3> HIDE DEF tb, tbBack, ok, okBack
    <3>4. tb + tbBack \in 0 .. 5 /\ ok + okBack \in 0 .. 1
      BY ONLY <3>3
    <3>5. QED
      BY <3>4 DEF tb, tbBack, ok, okBack, Purse!TransferPoints, Purse!NoshowTransferPoints
  <2>2. ASSUME NEW b \in PurseBookings
        PROVE  /\ list[b]["transfer_booking"] # 0 => rows[b].whole
               /\ list[b]["transfer_booking_taken_back"] # 0 \/ list[b]["noshow_transfer_taken_back"] # 0 => "player" \in rows[b].decided
    BY <1>1 DEF OfOne, Earned, Asked, NoMoreTaken, OneTakes
  <2>3. ASSUME NEW b \in PurseBookings, rows[b].taken, b \notin note.late \cup note.short, \A t \in work.take : t.b # b
        PROVE  list[b]["transfer_booking"] + list[b]["transfer_booking_taken_back"] = 0
    <3>1. Takes(b) = {} /\ AllTaken(b)
      BY <1>1, <2>3 DEF Takes, OfOne, Asked
    <3>2. QED
      BY <2>3, <3>1 DEF AllTaken
  <2>4. QED
    BY <2>1, <2>2, <2>3 DEF Purse!OnlyTransfersEarn
<1>6. QED
  BY <1>2, <1>3, <1>4, <1>5 DEF Purse!Faithful

-----------------------------------------------------------------------------
(* The owner's money popup                                                 *)

MoneyAssumption == MoneyPrice \in Nat

Kinds == {"none", "yes", "short", "record", "noshow", "reverse"}
Marks == {"none", "yes", "no"}
BookedRow == [price : Nat, paid : Nat, status : {"booked", "no_show", "completed"}, mark : Marks, ended : BOOLEAN]
MoneySum == [price : Nat, paid : Nat]
BookingRows == [price : Nat, paid : Nat, proof : Nat, status : {"booked", "no_show", "completed"}, mark : Marks,
         ended : BOOLEAN, crossed : BOOLEAN, others : Nat]
Stages == {"sent", "loaded", "proved", "priced", "paid", "ok", "refused", "lost"}
RowRead == [price : Nat, paid : Nat, status : {"booked", "no_show", "completed"}]
SaveRequest == [kind : Kinds, id : Nat, got : Nat, price : Nat, method : {"none", "cash", "transfer"}, shot : BOOLEAN,
                reason : BOOLEAN, plan : Marks, at : Stages, saw : RowRead, mark : Marks]
Forms == [kind : Kinds, price : Nat \cup {-1}, got : Nat \cup {-1}, method : {"none", "cash", "transfer"},
          shot : BOOLEAN, reason : BOOLEAN, id : Nat, of : MoneySum]
MoneyTypes ==
    /\ rows \in BookingRows
    /\ list \in [app : {"web", "mobile"}, can : {"record", "check_in"}, split : BOOLEAN, row : BookedRow,
                 form : Forms]
    /\ work \in [sent : SUBSET SaveRequest, saves : Nat]

\* What a request knows while nothing crossed it: the price as it is; a reversal also the money, or a room for it.
AtWork(c) ==
    /\ c.at = "loaded" => c.saw.paid <= c.saw.price
    /\ c.at \in {"loaded", "proved"} => c.saw.price = rows.price
    /\ c.kind = "reverse" /\ c.at = "loaded" => c.saw.paid = rows.paid
    /\ c.at = "proved" => rows.paid <= c.price
    /\ c.at = "priced" => c.price = rows.price
\* No more than the price, and a booking that is marked as paid is.
PaidUp ==
    /\ \A c \in work.sent : c.at \in {"proved", "priced"} => c.kind = "reverse"
    /\ ~rows.crossed => /\ rows.paid <= rows.price
                        /\ rows.mark = "yes" => rows.paid = rows.price
                        /\ \A c \in work.sent : AtWork(c)
\* Before the first save, and before anybody else recorded a payment, what is shown is what the server has.
ShownIsTrue ==
    /\ work.saves = 0 => work.sent = {}
    /\ work.saves = 0 /\ rows.others = 0 =>
        /\ list.row.price = rows.price /\ list.row.paid = rows.paid
        /\ list.app = "web" /\ list.form.kind # "none" => list.form.of.price = rows.price /\ list.form.of.paid = rows.paid
\* The one save on its way will get the mark that was announced, or has got it.
Planned(c) ==
    /\ c.at = "sent" => c.plan = IF Money!Left = c.got THEN "yes" ELSE "no"
    /\ c.at = "loaded" => c.plan = IF Money!Most(0, c.saw.price - c.saw.paid) = c.got THEN "yes" ELSE "no"
    /\ c.at \in {"paid", "ok"} => c.mark = c.plan
PlanHolds ==
    work.saves = 1 =>
        /\ \A c, d \in work.sent : c = d
        /\ rows.others = 0 => \A c \in work.sent : c.kind = "short" => Planned(c)

MoneyInv == MoneyTypes /\ PaidUp /\ ShownIsTrue /\ PlanHolds /\ Money!ReceivedFits

LEMMA MostIs ==
    \A a, b \in Int : Money!Most(a, b) \in {a, b} /\ Money!Most(a, b) >= a /\ Money!Most(a, b) >= b
  BY DEF Money!Most

LEMMA MoneyInit ==
    ASSUME MoneyAssumption
    PROVE  Money!Init => MoneyInv
<1> SUFFICES ASSUME Money!Init
             PROVE  MoneyInv
  OBVIOUS
<1> USE DEF Money!Init, Money!NoForm, Money!Row, Money!Blank, MoneyAssumption
<1>1. MoneyTypes
  BY DEF MoneyTypes, BookingRows, Forms, BookedRow, MoneySum, SaveRequest, Kinds, Marks
<1>2. PaidUp
  BY DEF PaidUp
<1>3. ShownIsTrue
  BY DEF ShownIsTrue
<1>4. PlanHolds
  BY DEF PlanHolds
<1>5. Money!ReceivedFits
  BY DEF Money!ReceivedFits
<1>6. QED
  BY <1>1, <1>2, <1>3, <1>4, <1>5 DEF MoneyInv
LEMMA OnlyTheForm ==
    ASSUME MoneyInv, UNCHANGED <<rows, work>>, MoneyTypes', Money!ReceivedFits',
           list'.app = list.app, list'.row = list.row,
           list'.form.kind = "none" \/ (list'.form.of = list.form.of /\ list.form.kind # "none")
    PROVE  MoneyInv'
<1>1. PaidUp' /\ PlanHolds'
  BY DEF MoneyInv, PaidUp, PlanHolds, AtWork, Planned, Money!Left
<1>2. ShownIsTrue'
  BY DEF MoneyInv, ShownIsTrue
<1>3. QED
  BY <1>1, <1>2 DEF MoneyInv

LEMMA NoFormIsAForm == Money!NoForm \in Forms /\ Money!NoForm.kind = "none"
  BY DEF Money!NoForm, Money!Blank, Forms, Kinds, MoneySum

LEMMA MoneyOpen ==
    ASSUME MoneyInv, NEW kind \in {"short", "record", "noshow", "reverse"}, Money!Open(kind)
    PROVE  MoneyInv'
<1> DEFINE got == CASE kind = "record" -> Money!Due(list.row) [] kind = "noshow" -> Money!NoForm.got [] OTHER -> 0
           price == IF kind = "reverse" THEN list.row.price ELSE Money!NoForm.price
           of == IF list.app = "web" THEN [price |-> list.row.price, paid |-> list.row.paid] ELSE Money!NoForm.of
           form == [Money!NoForm EXCEPT !.kind = kind, !.id = work.saves, !.of = of, !.price = price, !.got = got]
<1>1. list' = [list EXCEPT !.form = form] /\ UNCHANGED <<rows, work>>
  BY DEF Money!Open
<1>2. Money!Due(list.row) \in Nat /\ list.row.price \in Nat /\ list.row.paid \in Nat /\ work.saves \in Nat /\ kind \in Kinds
  BY MostIs DEF Money!Due, MoneyInv, MoneyTypes, Forms, BookedRow, Kinds
<1>3. /\ got \in Nat \cup {-1} /\ (kind = "reverse" => got = 0 /\ price = list.row.price)
      /\ price \in Nat \cup {-1} /\ of \in MoneySum
      /\ list.app = "web" => of.price = list.row.price /\ of.paid = list.row.paid
  BY <1>2, NoFormIsAForm DEF Forms, MoneySum
<1>11. form = [Money!NoForm EXCEPT !.kind = kind, !.id = work.saves, !.of = of, !.price = price, !.got = got]
  OBVIOUS
<1> HIDE DEF got, price, of, form
<1>4. form \in Forms /\ form.kind = kind /\ form.price = price /\ form.got = got /\ form.of = of
  BY ONLY <1>2, <1>3, <1>11, NoFormIsAForm DEF Forms
<1>5. list'.form = form /\ list'.app = list.app /\ list'.row = list.row
  BY <1>1 DEF MoneyInv, MoneyTypes, Forms
<1>6. MoneyTypes'
  BY <1>1, <1>4 DEF MoneyInv, MoneyTypes, Forms
<1>7. PaidUp' /\ PlanHolds'
  BY <1>1 DEF MoneyInv, PaidUp, PlanHolds, AtWork, Planned, Money!Left
<1>8. ShownIsTrue'
  BY <1>1, <1>3, <1>4, <1>5 DEF MoneyInv, ShownIsTrue, MoneySum
<1>9. Money!ReceivedFits'
  BY <1>2, <1>3, <1>4, <1>5 DEF Money!ReceivedFits, Money!Shown
<1>10. QED
  BY <1>6, <1>7, <1>8, <1>9 DEF MoneyInv

LEMMA MoneyTypePrice ==
    ASSUME MoneyAssumption, MoneyInv, NEW typed \in Money!Amounts \cup {Money!Blank}, Money!TypePrice(typed)
    PROVE  MoneyInv'
<1> USE DEF Money!TypePrice, Money!Blank, Money!Amounts, Money!Top, MoneyAssumption
<1> DEFINE paid == Money!Shown.paid
           left == Money!Most(0, typed - paid)
<1>1. paid \in Nat /\ typed \in Nat \cup {-1}
  BY DEF Money!Shown, MoneyInv, MoneyTypes, Forms, BookedRow, MoneySum
<1>2. left \in Nat /\ (typed >= paid => left = typed - paid)
  BY <1>1 DEF Money!Most
<1>3. list.form.got \in Nat \cup {-1}
  BY DEF MoneyInv, MoneyTypes, Forms
<1>4. MoneyTypes'
  BY <1>1, <1>2, <1>3 DEF MoneyInv, MoneyTypes, Forms
<1>5. Money!ReceivedFits'
  <2>1. SUFFICES ASSUME list'.app = "web", list'.form.price >= Money!Shown'.paid
                 PROVE  list'.form.got <= list'.form.price - Money!Shown'.paid
    BY DEF Money!ReceivedFits
  <2>2. list.app = "web" /\ Money!Shown'.paid = paid /\ list'.form.price = typed
    BY <2>1 DEF Money!Shown, MoneyInv, MoneyTypes, Forms
  <2>3. typed # -1 /\ left = typed - paid
    BY <2>1, <2>2, <1>1, <1>2
  <2>4. list'.form.got = IF list.form.got > left THEN left ELSE list.form.got
    BY <2>3 DEF MoneyInv, MoneyTypes, Forms
  <2>5. QED
    BY <2>2, <2>3, <2>4, <1>1, <1>3
<1>6. QED
  BY <1>4, <1>5, OnlyTheForm DEF MoneyInv, MoneyTypes, Forms

LEMMA MoneyTypeReceived ==
    ASSUME MoneyAssumption, MoneyInv, NEW typed \in Money!Amounts \cup {Money!Blank}, Money!TypeReceived(typed)
    PROVE  MoneyInv'
<1> USE DEF Money!TypeReceived, Money!Blank, Money!Amounts, Money!Top, MoneyAssumption, Money!AcceptReceived
<1>1. Money!Shown.paid \in Nat /\ typed \in Nat \cup {-1} /\ Money!AcceptReceived(typed) \in {typed, list.form.got}
  BY DEF Money!Shown, MoneyInv, MoneyTypes, Forms, BookedRow, MoneySum
<1>2. MoneyTypes'
  BY <1>1 DEF MoneyInv, MoneyTypes, Forms
<1>3. Money!ReceivedFits'
  <2>1. SUFFICES ASSUME list'.app = "web", list'.form.kind = "reverse", list'.form.price >= Money!Shown'.paid
                 PROVE  list'.form.got <= list'.form.price - Money!Shown'.paid
    BY DEF Money!ReceivedFits
  <2>2. /\ list.app = "web" /\ Money!Shown'.paid = Money!Shown.paid /\ list'.form.price = list.form.price
        /\ list.form.kind = "reverse" /\ list'.form.got = Money!AcceptReceived(typed) /\ list.form.price \in Nat \cup {-1}
    BY <2>1 DEF Money!Shown, MoneyInv, MoneyTypes, Forms
  <2>3. list.form.price >= Money!Shown.paid /\ list.form.got <= list.form.price - Money!Shown.paid
    BY <2>1, <2>2 DEF MoneyInv, Money!ReceivedFits
  <2>4. Money!Room = list.form.price - Money!Shown.paid
    BY <2>2, <2>3, <1>1 DEF Money!Room, Money!Most
  <2>5. QED
    BY <2>2, <2>3, <2>4, <1>1 DEF MoneyInv, MoneyTypes, Forms
<1>4. QED
  BY <1>2, <1>3, OnlyTheForm DEF MoneyInv, MoneyTypes, Forms

LEMMA MoneyFormSteps ==
    ASSUME MoneyInv,
           \/ Money!PickShot \/ Money!WriteReason \/ Money!Close
           \/ \E method \in {"cash", "transfer"} : Money!ChooseMethod(method)
    PROVE  MoneyInv'
<1> USE DEF Money!PickShot, Money!WriteReason, Money!Close, Money!ChooseMethod, Money!NoForm, Money!Blank
<1>1. MoneyTypes'
  <2>1. CASE Money!Close
    <3>1. Money!NoForm \in Forms
      BY NoFormIsAForm
    <3>2. list' = [list EXCEPT !.form = Money!NoForm] /\ UNCHANGED <<rows, work>>
      BY <2>1
    <3> HIDE DEF Money!NoForm
    <3>3. QED
      BY <3>1, <3>2 DEF MoneyInv, MoneyTypes, Forms
  <2>2. CASE Money!PickShot
    BY <2>2 DEF MoneyInv, MoneyTypes, Forms
  <2>5. CASE Money!WriteReason
    BY <2>5 DEF MoneyInv, MoneyTypes, Forms
  <2>3. ASSUME NEW method \in {"cash", "transfer"}, Money!ChooseMethod(method)
        PROVE  MoneyTypes'
    BY <2>3 DEF MoneyInv, MoneyTypes, Forms
  <2>4. QED
    BY <2>1, <2>2, <2>3, <2>5
<1>2. /\ UNCHANGED <<rows, work>> /\ list'.app = list.app /\ list'.row = list.row
      /\ list'.form.kind = "none" \/ (/\ list.form.kind # "none" /\ list'.form.kind = list.form.kind
                                      /\ list'.form.of = list.form.of
                                      /\ list'.form.price = list.form.price /\ list'.form.got = list.form.got)
  BY DEF MoneyInv, MoneyTypes, Forms
<1>3. Money!ReceivedFits'
  BY <1>2 DEF MoneyInv, Money!ReceivedFits, Money!Shown
<1>4. QED
  BY <1>1, <1>2, <1>3, OnlyTheForm

LEMMA MoneyLoad ==
    ASSUME MoneyInv, Money!Load
    PROVE  MoneyInv'
<1> USE DEF Money!Load, Money!Row
<1>1. MoneyTypes'
  BY DEF MoneyInv, MoneyTypes, BookingRows, Forms, BookedRow
<1>2. PaidUp' /\ PlanHolds'
  BY DEF MoneyInv, PaidUp, PlanHolds, AtWork, Planned, Money!Left
<1>3. ShownIsTrue'
  BY DEF MoneyInv, ShownIsTrue, MoneyTypes, Forms
<1>4. Money!ReceivedFits'
  BY DEF MoneyInv, Money!ReceivedFits, Money!Shown, MoneyTypes, Forms
<1>5. QED
  BY <1>1, <1>2, <1>3, <1>4 DEF MoneyInv

LEMMA MoneySave ==
    ASSUME MoneyAssumption, MoneyInv, Money!Save \/ Money!SaveYes
    PROVE  MoneyInv'
<1> USE DEF Money!Save, Money!SaveYes
<1>1. PICK kind, id : /\ kind \in Kinds \ {"none"} /\ id \in Nat
                      /\ work' = [sent |-> work.sent \cup {Money!Request(kind, id)}, saves |-> work.saves + 1]
                      /\ kind = "short" => list.form.kind = "short" /\ Money!ShortOK
  BY DEF MoneyInv, MoneyTypes, Forms, Kinds, Money!FormOK
<1> DEFINE c == Money!Request(kind, id)
<1>2. UNCHANGED <<rows, list>>
  OBVIOUS
<1>3. c.got \in Nat /\ c.price \in Nat /\ (list.form.got \in Nat => c.got = list.form.got) /\ c.at = "sent" /\ c.kind = kind /\ c.saw = Money!NotRead
  BY MostIs DEF Money!Request, MoneyInv, MoneyTypes, Forms, Money!Most
<1>4. c \in SaveRequest
  BY <1>1, <1>3 DEF Money!Request, SaveRequest, MoneyInv, MoneyTypes, Forms, Marks, Money!Plan, Stages, RowRead, Money!NotRead
<1>5. MoneyTypes'
  BY <1>1, <1>2, <1>4 DEF MoneyInv, MoneyTypes, Forms
<1>6. PaidUp' /\ Money!ReceivedFits'
  <2>1. work'.sent = work.sent \cup {c}
    BY <1>1
  <2> HIDE DEF c
  <2>2. PaidUp'
    BY <1>2, <1>3, <2>1 DEF MoneyInv, PaidUp, AtWork
  <2>3. Money!ReceivedFits'
    BY <1>2 DEF MoneyInv, Money!ReceivedFits, Money!Shown
  <2>4. QED
    BY <2>2, <2>3
<1>7. ShownIsTrue'
  BY <1>1, <1>2 DEF MoneyInv, ShownIsTrue, MoneyTypes, Forms
<1>8. PlanHolds'
  <2>1. SUFFICES ASSUME work'.saves = 1
                 PROVE  /\ \A d, e \in work'.sent : d = e
                        /\ rows'.others = 0 => \A d \in work'.sent : d.kind = "short" => Planned(d)'
    BY DEF PlanHolds
  <2>2. work.saves = 0 /\ work'.sent = {c}
    BY <1>1, <2>1 DEF MoneyInv, MoneyTypes, Forms, ShownIsTrue
  <2>3. ASSUME rows.others = 0, kind = "short"
        PROVE  c.plan = IF Money!Left = c.got THEN "yes" ELSE "no"
    <3>1. Money!Shown.price = rows.price /\ Money!Shown.paid = rows.paid
      BY <1>1, <2>2, <2>3 DEF Money!Shown, MoneyInv, ShownIsTrue, MoneyTypes, Forms, BookedRow
    <3>2. Money!Due(Money!Shown) = Money!Left /\ Money!Left \in Nat
      BY <3>1, MostIs DEF Money!Due, Money!Left, Money!Most, MoneyInv, MoneyTypes, BookingRows
    <3>3. list.form.got \in Nat
      BY <1>1, <2>3 DEF Money!ShortOK, Money!Blank, MoneyInv, MoneyTypes, Forms
    <3>4. c.plan = Money!Plan(Money!Shown, list.form.got)
      BY <2>3 DEF Money!Request
    <3>5. QED
      BY <1>3, <3>2, <3>3, <3>4 DEF Money!Plan
  <2>5. rows'.others = rows.others /\ Money!Left' = Money!Left
    BY <1>2 DEF Money!Left
  <2> HIDE DEF c
  <2>4. QED
    BY <1>3, <2>2, <2>3, <2>5 DEF Planned
<1>9. QED
  BY <1>5, <1>6, <1>7, <1>8 DEF MoneyInv

\* A request moves on: what has to be shown of its next stage d, of the booking's money, and of the other requests.
Moves(c, d) ==
    /\ d \in SaveRequest /\ d.kind = c.kind /\ d.plan = c.plan /\ d.at # "sent"
    /\ d.at \in {"proved", "priced"} => c.kind = "reverse"
    /\ work' = [work EXCEPT !.sent = (@ \ {c}) \cup {d}] /\ UNCHANGED list
    /\ rows' \in BookingRows /\ rows'.others = rows.others
MoneyStays == rows'.crossed = rows.crossed /\ rows'.price = rows.price /\ rows'.paid = rows.paid /\ rows'.mark = rows.mark
MoneyRight == rows.paid <= rows.price /\ (rows.mark = "yes" => rows.paid = rows.price)

LEMMA MoneyMoves ==
    ASSUME MoneyInv, NEW c \in work.sent, NEW d, Moves(c, d),
           ~rows'.crossed => ~rows.crossed,
           ~rows'.crossed => MoneyRight' /\ AtWork(d)' /\ \A e \in work.sent \ {c} : AtWork(e)',
           c.kind = "short" /\ rows.others = 0 /\ work.saves = 1 => Planned(d)'
    PROVE  MoneyInv'
<1> USE DEF Moves
<1>1. c \in SaveRequest /\ work.saves \in Nat
  BY DEF MoneyInv, MoneyTypes
<1>3. work'.sent = (work.sent \ {c}) \cup {d} /\ work'.saves = work.saves
  BY DEF MoneyInv, MoneyTypes, Forms
<1>4. MoneyTypes'
  BY <1>3 DEF MoneyInv, MoneyTypes, Forms
<1>5. Money!ReceivedFits'
  BY DEF MoneyInv, Money!ReceivedFits, Money!Shown
<1>6. work.saves # 0
  BY DEF MoneyInv, ShownIsTrue
<1>7. ShownIsTrue'
  BY <1>3, <1>6 DEF ShownIsTrue
<1>8. PlanHolds'
  <2>1. work.saves = 1 => work'.sent = {d}
    BY <1>3 DEF MoneyInv, PlanHolds
  <2>2. QED
    BY <1>3, <2>1 DEF PlanHolds
<1>9. PaidUp'
  BY <1>3 DEF MoneyInv, PaidUp, MoneyRight
<1>10. QED
  BY <1>4, <1>5, <1>7, <1>8, <1>9 DEF MoneyInv

LEMMA Answers ==
    ASSUME NEW c \in SaveRequest, NEW at \in Stages
    PROVE  LET d == Money!Answer(c, at) IN
           /\ d \in SaveRequest /\ d.at = at /\ d.kind = c.kind /\ d.plan = c.plan /\ d.price = c.price /\ d.mark = c.mark
  BY DEF Money!Answer, Money!NotRead, SaveRequest, RowRead

LEMMA ReadsTheRow ==
    ASSUME MoneyInv, NEW c \in SaveRequest, NEW at \in Stages
    PROVE  LET d == Money!Reads(c, at) IN
           /\ d \in SaveRequest /\ d.at = at /\ d.kind = c.kind /\ d.plan = c.plan /\ d.price = c.price /\ d.got = c.got
           /\ d.saw.price = rows.price /\ d.saw.paid = rows.paid
<1>1. [price |-> rows.price, paid |-> rows.paid, status |-> rows.status] \in RowRead
  BY DEF RowRead, MoneyInv, MoneyTypes, BookingRows
<1>2. QED
  BY <1>1 DEF Money!Reads, SaveRequest, RowRead

\* Where no money moves.
LEMMA MoneyMovesOn ==
    ASSUME MoneyInv, NEW c \in work.sent, NEW d, Moves(c, d), MoneyStays,
           ~rows.crossed => AtWork(d),
           c.kind = "short" /\ rows.others = 0 /\ work.saves = 1 => Planned(d)'
    PROVE  MoneyInv'
<1>1. \A e : AtWork(e) => AtWork(e)'
  BY DEF MoneyStays, AtWork
<1>2. ~rows'.crossed => MoneyRight' /\ AtWork(d)' /\ \A e \in work.sent \ {c} : AtWork(e)'
  BY <1>1 DEF MoneyStays, MoneyInv, PaidUp, MoneyRight
<1>3. ~rows'.crossed => ~rows.crossed
  BY DEF MoneyStays
<1>4. QED
  BY <1>2, <1>3, MoneyMoves

\* Where money or a price is committed: the others of which none is a reversal under way, beside no reversal.
LEMMA OthersStayRight ==
    ASSUME MoneyInv, NEW c \in work.sent, ~rows.crossed, ~Money!Crosses(c), c.kind = "reverse" \/ rows'.price = rows.price
    PROVE  \A e \in work.sent \ {c} : AtWork(e)'
<1> SUFFICES ASSUME NEW e \in work.sent \ {c}
             PROVE  AtWork(e)'
  OBVIOUS
<1>1. AtWork(e) /\ (e.at \in {"proved", "priced"} => e.kind = "reverse")
  BY DEF MoneyInv, PaidUp
<1>2. ~(e.at \in {"loaded", "proved", "priced"} /\ (c.kind = "reverse" \/ e.kind = "reverse"))
  BY DEF Money!Crosses
<1>3. QED
  BY <1>1, <1>2 DEF AtWork

LEMMA MoneyBegin ==
    ASSUME MoneyInv, NEW c \in work.sent, Money!Begin(c)
    PROVE  MoneyInv'
<1>0. PICK d : d = Money!Reads(c, "loaded")
  OBVIOUS
<1>1. c \in SaveRequest /\ c.at = "sent"
  BY DEF MoneyInv, MoneyTypes, Money!Begin
<1>2. work' = [work EXCEPT !.sent = (@ \ {c}) \cup {d}] /\ UNCHANGED <<rows, list>>
  BY <1>0 DEF Money!Begin, Money!Move
<1>3. /\ d \in SaveRequest /\ d.at = "loaded" /\ d.kind = c.kind /\ d.plan = c.plan /\ d.got = c.got
      /\ d.saw.price = rows.price /\ d.saw.paid = rows.paid
  BY <1>0, <1>1, ReadsTheRow DEF Stages
<1>4. Moves(c, d) /\ MoneyStays
  BY <1>2, <1>3 DEF Moves, MoneyStays, MoneyInv, MoneyTypes
<1>5. ~rows.crossed => AtWork(d)
  BY <1>3 DEF AtWork, MoneyInv, PaidUp
<1>6. c.kind = "short" /\ rows.others = 0 /\ work.saves = 1 => Planned(d)'
  BY <1>1, <1>2, <1>3 DEF MoneyInv, PlanHolds, Planned, Money!Left
<1>7. QED
  BY <1>4, <1>5, <1>6, MoneyMovesOn

LEMMA MoneyCompletion ==
    ASSUME MoneyInv, NEW c \in work.sent, Money!MarkCompletion(c)
    PROVE  MoneyInv'
<1> DEFINE due == Money!Most(0, c.saw.price - c.saw.paid)
           target == IF c.kind = "yes" THEN c.saw.price ELSE c.saw.paid + c.got
           mark == IF c.kind = "yes" \/ due = c.got THEN "yes" ELSE "no"
           ok == /\ rows.ended /\ c.saw.status # "no_show"
                 /\ c.kind = "yes" \/ (c.got <= due /\ (c.got < due => c.reason))
           at == IF c.saw.status = "booked" THEN "paid" ELSE "ok"
           crossed == rows.crossed \/ Money!Crosses(c)
<1>0. PICK d : d = IF ok THEN [Money!Answer(c, at) EXCEPT !.mark = mark] ELSE Money!Answer(c, "refused")
  OBVIOUS
<1>1. c \in SaveRequest /\ c.at = "loaded" /\ c.kind \in {"yes", "short"}
  BY DEF MoneyInv, MoneyTypes, Money!MarkCompletion
<1>2. /\ work' = [work EXCEPT !.sent = (@ \ {c}) \cup {d}] /\ UNCHANGED list
      /\ rows' = IF ok THEN [rows EXCEPT !.paid = target, !.mark = mark, !.crossed = crossed] ELSE rows
  BY <1>0 DEF Money!MarkCompletion, Money!Move
<1>3. c.got \in Nat /\ c.saw.price \in Nat /\ c.saw.paid \in Nat /\ rows \in BookingRows
  BY <1>1 DEF SaveRequest, RowRead, MoneyInv, MoneyTypes
<1>4. /\ target \in Nat /\ mark \in Marks /\ at \in {"paid", "ok"} /\ crossed \in BOOLEAN
      /\ c.saw.paid <= c.saw.price /\ ok => target <= c.saw.price /\ (mark = "yes" => target = c.saw.price)
  BY <1>3 DEF Marks, Money!Most, BookingRows, Money!Crosses
<1>5. c.kind = "short" /\ rows.others = 0 /\ work.saves = 1 => mark = c.plan
  BY <1>1 DEF MoneyInv, PlanHolds, Planned
<1>6. /\ d \in SaveRequest /\ d.kind = c.kind /\ d.plan = c.plan /\ d.at = IF ok THEN at ELSE "refused"
      /\ ok => d.mark = mark
  <2>1. /\ Money!Answer(c, "refused") \in SaveRequest /\ Money!Answer(c, "refused").at = "refused"
        /\ Money!Answer(c, "refused").kind = c.kind /\ Money!Answer(c, "refused").plan = c.plan
    BY <1>1, Answers DEF Stages
  <2>2. /\ Money!Answer(c, at) \in SaveRequest /\ Money!Answer(c, at).at = at
        /\ Money!Answer(c, at).kind = c.kind /\ Money!Answer(c, at).plan = c.plan
    BY <1>1, <1>4, Answers DEF Stages
  <2> DEFINE x == Money!Answer(c, at)
  <2>3. x \in SaveRequest /\ x.at = at /\ x.kind = c.kind /\ x.plan = c.plan
    BY <2>2
  <2>4. d = IF ok THEN [x EXCEPT !.mark = mark] ELSE Money!Answer(c, "refused")
    BY <1>0
  <2> HIDE DEF x, mark, ok, at
  <2>5. QED
    BY <1>4, <2>1, <2>3, <2>4 DEF SaveRequest
<1> HIDE DEF mark, target, due, crossed
<1>7. rows' \in BookingRows /\ rows'.others = rows.others
  BY <1>2, <1>3, <1>4 DEF BookingRows
<1>8. Moves(c, d)
  BY <1>1, <1>2, <1>4, <1>6, <1>7 DEF Moves
<1>9. c.kind = "short" /\ rows.others = 0 /\ work.saves = 1 => Planned(d)'
  BY <1>4, <1>5, <1>6 DEF Planned
<1>10. AtWork(d) /\ AtWork(d)'
  BY <1>4, <1>6 DEF AtWork
<1>11. CASE ~ok
  BY <1>2, <1>8, <1>9, <1>10, <1>11, MoneyMovesOn DEF MoneyStays
<1>12. CASE ok
  <2>1. /\ rows'.paid = target /\ rows'.mark = mark /\ rows'.price = rows.price
        /\ rows'.crossed = (rows.crossed \/ Money!Crosses(c))
    BY <1>2, <1>3, <1>12 DEF BookingRows, crossed
  <2>2. ASSUME ~rows'.crossed
        PROVE  MoneyRight' /\ AtWork(d)' /\ \A e \in work.sent \ {c} : AtWork(e)'
    <3>1. ~rows.crossed /\ ~Money!Crosses(c)
      BY <2>1, <2>2
    <3>2. c.saw.paid <= c.saw.price /\ c.saw.price = rows.price
      BY <1>1, <3>1 DEF MoneyInv, PaidUp, AtWork
    <3>3. MoneyRight'
      BY <1>4, <1>12, <2>1, <3>2 DEF MoneyRight
    <3>4. QED
      BY <1>10, <2>1, <3>1, <3>3, OthersStayRight
  <2>3. QED
    BY <1>8, <1>9, <2>1, <2>2, MoneyMoves
<1>13. QED
  BY <1>11, <1>12

LEMMA MoneyEnters ==
    ASSUME MoneyInv, NEW c \in work.sent, NEW price \in Nat, NEW next \in {"paid", "ok"}, Money!Enters(c, price, next),
           c.kind # "short", ~rows.crossed => price = rows.price
    PROVE  MoneyInv'
<1> DEFINE ok == c.got <= price - rows.paid
           at == IF ok THEN next ELSE "refused"
           crossed == rows.crossed \/ Money!Crosses(c)
<1>0. PICK d : d = Money!Answer(c, at)
  OBVIOUS
<1>1. c \in SaveRequest /\ c.got \in Nat /\ rows \in BookingRows /\ rows.paid \in Nat /\ rows.price \in Nat
  BY DEF MoneyInv, MoneyTypes, SaveRequest, BookingRows
<1>2. /\ work' = [work EXCEPT !.sent = (@ \ {c}) \cup {d}] /\ UNCHANGED list
      /\ rows' = IF ok THEN [rows EXCEPT !.paid = rows.paid + c.got, !.crossed = crossed] ELSE rows
  BY <1>0 DEF Money!Enters, Money!Move
<1>3. d \in SaveRequest /\ d.kind = c.kind /\ d.plan = c.plan /\ d.at = at
  BY <1>0, <1>1, Answers DEF Stages
<1>4. crossed \in BOOLEAN /\ rows.paid + c.got \in Nat /\ at \in {"paid", "ok", "refused"}
  BY <1>1 DEF BookingRows, Money!Crosses
<1> HIDE DEF crossed, at
<1>5. rows' \in BookingRows /\ rows'.others = rows.others
  BY <1>1, <1>2, <1>4 DEF BookingRows
<1>6. Moves(c, d) /\ AtWork(d) /\ AtWork(d)'
  BY <1>2, <1>3, <1>4, <1>5 DEF Moves, AtWork
<1>7. CASE ~ok
  BY <1>2, <1>6, <1>7, MoneyMovesOn DEF MoneyStays
<1>8. CASE ok
  <2>1. /\ rows'.paid = rows.paid + c.got /\ rows'.mark = rows.mark /\ rows'.price = rows.price
        /\ rows'.crossed = (rows.crossed \/ Money!Crosses(c))
    BY <1>1, <1>2, <1>8 DEF BookingRows, crossed
  <2>2. ASSUME ~rows'.crossed
        PROVE  MoneyRight' /\ AtWork(d)' /\ \A e \in work.sent \ {c} : AtWork(e)'
    <3>1. ~rows.crossed /\ ~Money!Crosses(c) /\ price = rows.price
      BY <2>1, <2>2
    <3>2. MoneyRight
      BY <3>1 DEF MoneyInv, PaidUp, MoneyRight
    <3>3. MoneyRight'
      BY <1>1, <1>8, <2>1, <3>1, <3>2 DEF MoneyRight
    <3>4. QED
      BY <1>6, <2>1, <3>1, <3>3, OthersStayRight
  <2>3. QED
    BY <1>6, <2>1, <2>2, MoneyMoves
<1>9. QED
  BY <1>7, <1>8

LEMMA MoneyEntry ==
    ASSUME MoneyInv, NEW c \in work.sent, Money!RecordEntry(c) \/ Money!TakeCash(c)
    PROVE  MoneyInv'
<1>1. c \in SaveRequest /\ c.price \in Nat /\ c.saw.price \in Nat
  BY DEF MoneyInv, MoneyTypes, SaveRequest, RowRead
<1>2. CASE Money!RecordEntry(c)
  <2>1. Money!Enters(c, c.saw.price, "ok") /\ c.kind = "record" /\ c.at = "loaded"
    BY <1>2 DEF Money!RecordEntry
  <2>2. ~rows.crossed => c.saw.price = rows.price
    BY <2>1 DEF MoneyInv, PaidUp, AtWork
  <2>3. QED
    BY <1>1, <2>1, <2>2, MoneyEnters
<1>3. CASE Money!TakeCash(c)
  <2>1. Money!Enters(c, c.price, "paid") /\ c.at = "priced"
    BY <1>3 DEF Money!TakeCash
  <2>2. c.kind = "reverse" /\ (~rows.crossed => c.price = rows.price)
    BY <2>1 DEF MoneyInv, PaidUp, AtWork
  <2>3. QED
    BY <1>1, <2>1, <2>2, MoneyEnters
<1>4. QED
  BY <1>2, <1>3

\* The steps that move no money: of the status, a refusal, a loss.
LEMMA MoneyPlainAnswer ==
    ASSUME MoneyInv, NEW c \in work.sent, NEW at \in {"ok", "refused", "lost"},
           Money!Move(c, Money!Answer(c, at)), UNCHANGED list, rows' \in BookingRows, MoneyStays, rows'.others = rows.others,
           c.kind = "short" /\ at = "ok" => c.at = "paid"
    PROVE  MoneyInv'
<1> DEFINE d == Money!Answer(c, at)
<1>1. c \in SaveRequest
  BY DEF MoneyInv, MoneyTypes
<1>2. d \in SaveRequest /\ d.at = at /\ d.kind = c.kind /\ d.plan = c.plan /\ d.mark = c.mark
  BY <1>1, Answers DEF Stages
<1>3. work' = [work EXCEPT !.sent = (@ \ {c}) \cup {d}]
  BY DEF Money!Move
<1> HIDE DEF d
<1>4. Moves(c, d) /\ AtWork(d)
  BY <1>2, <1>3 DEF Moves, AtWork
<1>5. c.kind = "short" /\ rows.others = 0 /\ work.saves = 1 => Planned(d)'
  BY <1>2 DEF MoneyInv, PlanHolds, Planned
<1>6. QED
  BY <1>4, <1>5, MoneyMovesOn

LEMMA MoneyStatus ==
    ASSUME MoneyInv, NEW c \in work.sent,
           Money!MarkNoShow(c) \/ Money!RefuseReversal(c) \/ Money!SettleStatus(c) \/ Money!Lose(c)
    PROVE  MoneyInv'
<1>1. rows \in BookingRows
  BY DEF MoneyInv, MoneyTypes
<1>2. CASE Money!MarkNoShow(c)
  <2> DEFINE ok == c.saw.status = "booked" /\ rows.status = "booked" /\ rows.ended
             at == IF ok THEN "ok" ELSE "refused"
  <2>1. /\ Money!Move(c, Money!Answer(c, at)) /\ UNCHANGED list /\ c.kind = "noshow"
        /\ rows' = IF ok THEN [rows EXCEPT !.status = "no_show"] ELSE rows
    BY <1>2 DEF Money!MarkNoShow
  <2>2. rows' \in BookingRows /\ MoneyStays /\ rows'.others = rows.others
    BY <1>1, <2>1 DEF BookingRows, MoneyStays
  <2>3. at \in {"ok", "refused", "lost"}
    OBVIOUS
  <2> HIDE DEF at
  <2>4. QED
    BY <2>1, <2>2, <2>3, MoneyPlainAnswer
<1>3. CASE Money!RefuseReversal(c)
  BY <1>1, <1>3, MoneyPlainAnswer DEF Money!RefuseReversal, MoneyStays
<1>4. CASE Money!SettleStatus(c)
  <2> DEFINE ok == c.kind = "reverse" \/ rows.status # "completed"
             at == IF ok THEN "ok" ELSE "refused"
  <2>1. /\ Money!Move(c, Money!Answer(c, at)) /\ UNCHANGED list /\ c.at = "paid"
        /\ rows' = [rows EXCEPT !.status = "completed"]
    BY <1>4 DEF Money!SettleStatus
  <2>2. rows' \in BookingRows /\ MoneyStays /\ rows'.others = rows.others
    BY <1>1, <2>1 DEF BookingRows, MoneyStays
  <2>3. at \in {"ok", "refused", "lost"}
    OBVIOUS
  <2> HIDE DEF at
  <2>4. QED
    BY <2>1, <2>2, <2>3, MoneyPlainAnswer
<1>5. CASE Money!Lose(c)
  BY <1>1, <1>5, MoneyPlainAnswer DEF Money!Lose, MoneyStays
<1>6. QED
  BY <1>2, <1>3, <1>4, <1>5

LEMMA MoneyProof ==
    ASSUME MoneyInv, NEW c \in work.sent, Money!SendProof(c)
    PROVE  MoneyInv'
<1> DEFINE d == Money!Reads(c, "proved")
<1>1. c \in SaveRequest /\ c.at = "loaded" /\ c.kind = "reverse" /\ c.got <= c.price - c.saw.paid
  BY DEF MoneyInv, MoneyTypes, Money!SendProof, Money!ReverseOK
<1>2. work' = [work EXCEPT !.sent = (@ \ {c}) \cup {d}] /\ UNCHANGED list /\ rows' = [rows EXCEPT !.proof = c.got]
  BY DEF Money!SendProof, Money!Move
<1>3. /\ d \in SaveRequest /\ d.at = "proved" /\ d.kind = c.kind /\ d.plan = c.plan /\ d.price = c.price
      /\ d.saw.price = rows.price /\ d.saw.paid = rows.paid
  BY <1>1, ReadsTheRow DEF Stages
<1> HIDE DEF d
<1>4. c.got \in Nat /\ c.price \in Nat /\ c.saw.paid \in Nat /\ rows \in BookingRows
  BY <1>1 DEF SaveRequest, RowRead, MoneyInv, MoneyTypes
<1>5. rows' \in BookingRows /\ MoneyStays /\ rows'.others = rows.others
  BY <1>2, <1>4 DEF BookingRows, MoneyStays
<1>6. Moves(c, d)
  BY <1>1, <1>2, <1>3, <1>5 DEF Moves
<1>7. ~rows.crossed => AtWork(d)
  <2> SUFFICES ASSUME ~rows.crossed
               PROVE  rows.paid <= c.price
    BY <1>3 DEF AtWork
  <2>1. c.saw.paid = rows.paid
    BY <1>1 DEF MoneyInv, PaidUp, AtWork
  <2>2. QED
    BY <1>1, <1>4, <2>1
<1>8. QED
  BY <1>1, <1>5, <1>6, <1>7, MoneyMovesOn

LEMMA MoneySetPrice ==
    ASSUME MoneyInv, NEW c \in work.sent, Money!SetPrice(c)
    PROVE  MoneyInv'
<1> DEFINE at == IF c.method = "cash" /\ c.got > 0 THEN "priced" ELSE "paid"
           d == Money!Answer(c, at)
           price == IF c.price # c.saw.price THEN c.price ELSE rows.price
           crossed == rows.crossed \/ rows.mark # "none" \/ Money!Crosses(c)
<1>1. c \in SaveRequest /\ c.kind = "reverse" /\ (c.at = "proved" \/ (c.at = "loaded" /\ c.got <= c.price - c.saw.paid))
  BY DEF MoneyInv, MoneyTypes, Money!SetPrice, Money!ReverseOK
<1>2. /\ work' = [work EXCEPT !.sent = (@ \ {c}) \cup {d}] /\ UNCHANGED list
      /\ rows' = [rows EXCEPT !.price = price, !.crossed = crossed]
  BY DEF Money!SetPrice, Money!Move
<1>3. at \in {"priced", "paid"}
  OBVIOUS
<1>4. c.got \in Nat /\ c.price \in Nat /\ c.saw.paid \in Nat /\ rows \in BookingRows /\ rows.price \in Nat /\ rows.paid \in Nat
  BY <1>1 DEF SaveRequest, RowRead, MoneyInv, MoneyTypes, BookingRows
<1> HIDE DEF at
<1>5. d \in SaveRequest /\ d.at = at /\ d.kind = c.kind /\ d.plan = c.plan /\ d.price = c.price
  BY <1>1, <1>3, Answers DEF Stages
<1>6. crossed \in BOOLEAN /\ price \in Nat
  BY <1>4 DEF BookingRows, Money!Crosses
<1> HIDE DEF d, crossed, price
<1>7. rows' \in BookingRows /\ rows'.others = rows.others
  BY <1>2, <1>4, <1>6 DEF BookingRows
<1>8. Moves(c, d)
  BY <1>1, <1>2, <1>3, <1>5, <1>7 DEF Moves
<1>9. /\ rows'.price = price /\ rows'.paid = rows.paid /\ rows'.mark = rows.mark
      /\ rows'.crossed = (rows.crossed \/ rows.mark # "none" \/ Money!Crosses(c))
  BY <1>2, <1>4 DEF BookingRows, crossed
<1>10. ASSUME ~rows'.crossed
       PROVE  MoneyRight' /\ AtWork(d)' /\ \A e \in work.sent \ {c} : AtWork(e)'
  <2>1. ~rows.crossed /\ rows.mark = "none" /\ ~Money!Crosses(c)
    BY <1>9, <1>10
  <2>2. c.saw.price = rows.price /\ (c.at = "loaded" => c.saw.paid = rows.paid) /\ (c.at = "proved" => rows.paid <= c.price)
    BY <1>1, <2>1 DEF MoneyInv, PaidUp, AtWork
  <2>3. price = c.price /\ rows.paid <= c.price
    BY <1>1, <1>4, <2>2 DEF price
  <2>4. MoneyRight'
    BY <1>9, <2>1, <2>3 DEF MoneyRight
  <2>5. AtWork(d)'
    BY <1>3, <1>5, <1>9, <2>3 DEF AtWork
  <2>6. QED
    BY <1>1, <2>1, <2>4, <2>5, OthersStayRight
<1>11. QED
  BY <1>1, <1>8, <1>9, <1>10, MoneyMoves

LEMMA MoneyDone ==
    ASSUME MoneyInv, NEW c \in work.sent, Money!Saved(c) \/ Money!Failed(c)
    PROVE  MoneyInv'
<1> USE DEF Money!Saved, Money!Failed
<1>1. Money!NoForm \in Forms /\ Money!NoForm.kind = "none"
  BY NoFormIsAForm
<1>2. list' \in {list, [list EXCEPT !.form = Money!NoForm]} /\ UNCHANGED rows
  OBVIOUS
<1>3. work'.sent = work.sent \ {c} /\ work'.saves = work.saves /\ work.saves # 0
  BY DEF MoneyInv, MoneyTypes, Forms, ShownIsTrue
<1>4. MoneyTypes'
  BY <1>1, <1>2 DEF MoneyInv, MoneyTypes, Forms
<1>5. PaidUp' /\ ShownIsTrue' /\ PlanHolds'
  BY <1>2, <1>3 DEF MoneyInv, PaidUp, ShownIsTrue, PlanHolds, AtWork, Planned, Money!Left
<1>6. Money!ReceivedFits'
  BY <1>1, <1>2 DEF MoneyInv, MoneyTypes, Forms, Money!ReceivedFits, Money!Shown
<1>7. QED
  BY <1>4, <1>5, <1>6 DEF MoneyInv

LEMMA MoneyElsewhere ==
    ASSUME MoneyInv, Money!SlotEnds \/ Money!PaidElsewhere
    PROVE  MoneyInv'
<1> USE DEF Money!SlotEnds, Money!PaidElsewhere
<1>1. UNCHANGED <<list, work>> /\ rows'.price = rows.price /\ rows'.mark = rows.mark
  BY DEF MoneyInv, MoneyTypes, BookingRows, Forms
<1>8. rows.price \in Nat /\ rows.paid \in Nat /\ rows.others \in Nat
  BY DEF MoneyInv, MoneyTypes, BookingRows
<1>2. /\ rows'.others \in Nat /\ (rows'.others = 0 => rows'.paid = rows.paid /\ rows.others = 0)
      /\ \/ rows'.paid = rows.paid /\ rows'.crossed = rows.crossed
         \/ /\ rows.price > rows.paid /\ rows'.paid = rows.paid + 1
            /\ rows'.crossed = (rows.crossed \/ \E c \in work.sent : c.kind = "reverse" /\ c.at \in {"loaded", "proved", "priced"})
  <2>1. CASE Money!SlotEnds
    BY <1>8, <2>1 DEF MoneyInv, MoneyTypes, BookingRows
  <2>2. CASE Money!PaidElsewhere
    <3>1. /\ rows'.others = rows.others + 1 /\ rows'.paid = rows.paid + 1 /\ Money!Left > 0
          /\ rows'.crossed = (rows.crossed \/ \E c \in work.sent : c.kind = "reverse" /\ c.at \in {"loaded", "proved", "priced"})
      BY <2>2 DEF MoneyInv, MoneyTypes, BookingRows
    <3>2. QED
      BY <1>8, <3>1 DEF Money!Left, Money!Most
  <2>3. QED
    BY <2>1, <2>2
<1>3. MoneyTypes'
  <2>1. CASE Money!SlotEnds
    BY <2>1, ZenonT(30) DEF MoneyInv, MoneyTypes, BookingRows
  <2>2. CASE Money!PaidElsewhere
    <3> DEFINE crossed == rows.crossed \/ \E c \in work.sent : c.kind = "reverse" /\ c.at \in {"loaded", "proved", "priced"}
    <3>1. rows' = [rows EXCEPT !.paid = @ + 1, !.others = @ + 1, !.crossed = crossed]
      BY <2>2
    <3>2. rows.paid + 1 \in Nat /\ rows.others + 1 \in Nat /\ crossed \in BOOLEAN
      BY <1>8 DEF MoneyInv, MoneyTypes, BookingRows
    <3> HIDE DEF crossed
    <3>3. QED
      BY <1>1, <3>1, <3>2 DEF MoneyInv, MoneyTypes, BookingRows
  <2>3. QED
    BY <2>1, <2>2
<1>4. PaidUp'
  <2>1. \A c \in work.sent : c.at \in {"proved", "priced"} => c.kind = "reverse"
    BY DEF MoneyInv, PaidUp
  <2>2. ASSUME ~rows'.crossed
        PROVE  ~rows.crossed /\ rows'.paid <= rows'.price /\ (rows'.mark = "yes" => rows'.paid = rows'.price)
    <3>1. ~rows.crossed
      BY <1>2, <2>2
    <3>2. rows.paid <= rows.price /\ (rows.mark = "yes" => rows.paid = rows.price)
      BY <3>1 DEF MoneyInv, PaidUp
    <3>3. QED
      BY <1>1, <1>2, <1>8, <3>1, <3>2
  <2>3. ASSUME ~rows'.crossed, NEW c \in work.sent
        PROVE  AtWork(c)'
    BY <1>1, <1>2, <2>1, <2>2, <2>3 DEF MoneyInv, PaidUp, AtWork
  <2>4. QED
    BY <1>1, <2>1, <2>2, <2>3 DEF PaidUp
<1>5. ShownIsTrue' /\ PlanHolds'
  BY <1>1, <1>2 DEF MoneyInv, ShownIsTrue, PlanHolds, Planned, Money!Left
<1>6. Money!ReceivedFits'
  BY <1>1 DEF MoneyInv, Money!ReceivedFits, Money!Shown
<1>7. QED
  BY <1>3, <1>4, <1>5, <1>6 DEF MoneyInv

LEMMA MoneyStep ==
    ASSUME MoneyAssumption
    PROVE  MoneyInv /\ [Money!Next]_(Money!vars) => MoneyInv'
<1> SUFFICES ASSUME MoneyInv, [Money!Next]_(Money!vars)
             PROVE  MoneyInv'
  OBVIOUS
<1>1. CASE UNCHANGED Money!vars
  BY <1>1 DEF Money!vars, MoneyInv, MoneyTypes, Forms, PaidUp, ShownIsTrue, PlanHolds, Money!ReceivedFits,
                Money!Shown, AtWork, Planned, Money!Left
<1>2. QED
  BY <1>1, MoneyOpen, MoneyTypePrice, MoneyTypeReceived, MoneyFormSteps, MoneyLoad, MoneySave, MoneyBegin,
     MoneyCompletion, MoneyEntry, MoneyStatus, MoneyProof, MoneySetPrice, MoneyDone, MoneyElsewhere
     DEF Money!Next

LEMMA MoneyIsFaithful == MoneyInv => Money!Faithful
<1> SUFFICES ASSUME MoneyInv
             PROVE  Money!Faithful
  OBVIOUS
<1>1. Money!PlanKept
  BY DEF MoneyInv, PlanHolds, Planned, Money!PlanKept
<1>2. Money!MoneyAddsUp
  BY DEF MoneyInv, MoneyTypes, BookingRows, PaidUp, Money!MoneyAddsUp, Money!Left, Money!Most
<1>3. QED
  BY <1>1, <1>2 DEF MoneyInv, Money!Faithful

-----------------------------------------------------------------------------
(* The refunds to pay                                                      *)

DeskAssumption == RefundDue \in Nat

Sheets == [at : {"none", "form", "saved"}, max : Nat, amount : Nat, refOk : BOOLEAN, error : BOOLEAN, left : Int, id : Nat]
RefundRequest == [id : Nat, amount : Nat, at : {"sent", "ok", "exceeds", "denied", "marked", "lost"}, left : Nat]
DeskTypes ==
    /\ rows \in [paid : Nat, permitted : BOOLEAN, blind : Int, lost : Nat, others : Nat] /\ rows.paid <= RefundDue
    /\ list \in [app : {"web", "mobile"}, may : {"loading", "yes", "no"}, row : Nat \cup {-1},
                 listed : {"loading", "ok", "error", "denied"}, form : Sheets]
    /\ work \in [fetch : BOOLEAN, sent : SUBSET RefundRequest, submits : Nat]

\* What the list, a sheet, a summary or an answer says is left was left when it was said, and only less is left since.
SaidEnough ==
    /\ list.row # -1 => Desk!Remaining <= list.row
    /\ list.row = -1 => list.form.at = "none"
    /\ list.form.at = "form" => Desk!Remaining <= list.form.max
    /\ list.form.at = "saved" => Desk!Remaining <= list.form.left
    /\ \A c \in work.sent : c.at \in {"ok", "exceeds"} => Desk!Remaining <= c.left
\* On the web one request is on its way, the open dialog's; or nothing is left and the list has no row.
OneRequest ==
    list.app = "web" =>
        /\ \A c, d \in work.sent : c = d
        /\ \A c \in work.sent : \/ list.form.at = "form" /\ c.id = list.form.id
                                \/ Desk!Remaining = 0 /\ list.row = -1
        /\ \A c \in work.sent : c.at = "ok" /\ list.form.at = "form" => Desk!Remaining <= list.form.max - c.amount
\* What the owner of the web was not told is what that request did, and what lost answers would have said.
ToldNext ==
    list.app = "web" =>
        /\ rows.blind <= rows.lost + 1
        /\ rows.blind = rows.lost + 1 => Desk!Remaining = 0 \/ \E c \in work.sent : c.at = "ok"

DeskInv == DeskTypes /\ SaidEnough /\ OneRequest /\ ToldNext

LEMMA NoSheet == Desk!NoForm \in Sheets /\ Desk!NoForm.at = "none"
  BY DEF Desk!NoForm, Sheets

LEMMA DeskInit ==
    ASSUME DeskAssumption
    PROVE  Desk!Init => DeskInv
<1> SUFFICES ASSUME Desk!Init
             PROVE  DeskInv
  OBVIOUS
<1> USE NoSheet DEF Desk!Init, Desk!Unlisted, DeskAssumption
<1>1. DeskTypes
  BY DEF DeskTypes
<1>2. SaidEnough /\ OneRequest /\ ToldNext
  BY DEF SaidEnough, OneRequest, ToldNext
<1>3. QED
  BY <1>1, <1>2 DEF DeskInv

\* Nothing recorded, nothing sent: the list, its sheet and the permission may change.
LEMMA DeskShows ==
    ASSUME DeskInv, list' \in [app : {list.app}, may : {"loading", "yes", "no"}, row : Nat \cup {-1},
                                listed : {"loading", "ok", "error", "denied"}, form : Sheets],
           rows' \in [paid : {rows.paid}, permitted : BOOLEAN, blind : {rows.blind}, lost : {rows.lost}, others : Nat],
           work' \in [fetch : BOOLEAN, sent : {work.sent}, submits : Nat],
           list'.row # -1 => Desk!Remaining <= list'.row, list.row = -1 /\ Desk!Remaining = 0 => list'.row = -1,
           list'.row = -1 => list'.form.at = "none" /\ (list.row = -1 \/ Desk!Remaining = 0),
           \/ list'.form = list.form
           \/ list'.form.at = "none" /\ ((Desk!Remaining = 0 /\ list'.row = -1) \/ ~(list.app = "web" /\ Desk!Busy))
           \/ /\ list.form.at = "form" /\ list'.form.at = "form" /\ list'.form.max = list.form.max
              /\ list'.form.id = list.form.id
           \/ list'.form.at = "form" /\ list.form.at = "none" /\ list'.form.max = list'.row /\ list'.row = list.row /\ list.row # -1
    PROVE  DeskInv'
<1>1. /\ Desk!Remaining' = Desk!Remaining /\ work'.sent = work.sent /\ rows'.blind = rows.blind /\ rows'.lost = rows.lost
      /\ list'.app = list.app
  BY DEF Desk!Remaining
<1>2. DeskTypes'
  BY DEF DeskTypes, DeskInv
<1>3. SaidEnough'
  BY <1>1 DEF DeskInv, SaidEnough
<1>4. OneRequest'
  <2>1. SUFFICES ASSUME list.app = "web", NEW c \in work.sent
                 PROVE  /\ \/ list'.form.at = "form" /\ c.id = list'.form.id
                           \/ Desk!Remaining = 0 /\ list'.row = -1
                        /\ c.at = "ok" /\ list'.form.at = "form" => Desk!Remaining <= list'.form.max - c.amount
    BY <1>1 DEF DeskInv, OneRequest
  <2>2. /\ \/ list.form.at = "form" /\ c.id = list.form.id
           \/ Desk!Remaining = 0 /\ list.row = -1
        /\ c.at = "ok" /\ list.form.at = "form" => Desk!Remaining <= list.form.max - c.amount
    BY <2>1 DEF DeskInv, OneRequest
  <2>3. CASE list.form.at = "form" /\ c.id = list.form.id
    <3>1. Desk!Busy
      BY <2>3 DEF Desk!Busy, Desk!OfThisForm
    <3>2. QED
      BY <2>1, <2>2, <2>3, <3>1
  <2>4. CASE Desk!Remaining = 0 /\ list.row = -1
    <3>1. list'.row = -1 /\ list'.form.at = "none"
      BY <2>4
    <3>2. QED
      BY <2>1, <2>4, <3>1
  <2>5. QED
    BY <2>2, <2>3, <2>4
<1>5. ToldNext'
  BY <1>1 DEF DeskInv, ToldNext
<1>6. QED
  BY <1>2, <1>3, <1>4, <1>5 DEF DeskInv

LEMMA DeskList ==
    ASSUME DeskAssumption, DeskInv,
           Desk!SettlePermission \/ Desk!Withdraw \/ Desk!Fetch \/ Desk!ShowRefunds
    PROVE  DeskInv'
<1> DEFINE Lists == [app : {list.app}, may : {"loading", "yes", "no"}, row : Nat \cup {-1},
                     listed : {"loading", "ok", "error", "denied"}, form : Sheets]
           Rows == [paid : {rows.paid}, permitted : BOOLEAN, blind : {rows.blind}, lost : {rows.lost}, others : Nat]
           Works == [fetch : BOOLEAN, sent : {work.sent}, submits : Nat]
<1>1. list \in Lists /\ rows \in Rows /\ work \in Works /\ Desk!Remaining \in Nat
  BY DEF DeskAssumption, DeskInv, DeskTypes, Desk!Remaining
<1>2. (list.row # -1 => Desk!Remaining <= list.row) /\ (list.row = -1 => list.form.at = "none")
  BY DEF DeskInv, SaidEnough
<1>3. CASE Desk!SettlePermission
  <2>1. list' \in Lists /\ rows' = rows /\ work' = work /\ list'.row = list.row /\ list'.form = list.form
    BY <1>1, <1>3 DEF Desk!SettlePermission
  <2>2. QED
    BY <1>1, <1>2, <2>1, DeskShows
<1>4. CASE Desk!Withdraw
  <2>1. rows.others + 1 \in Nat
    BY DEF DeskInv, DeskTypes
  <2>2. list' = list /\ rows' = [rows EXCEPT !.permitted = FALSE, !.others = rows.others + 1] /\ work' = work
    BY <1>4 DEF Desk!Withdraw
  <2>3. rows' \in Rows
    BY <1>1, <2>1, <2>2
  <2>4. QED
    BY <1>1, <1>2, <2>2, <2>3, DeskShows
<1>5. CASE Desk!Fetch
  <2>1. list' = list /\ rows' = rows /\ work' \in Works
    BY <1>1, <1>5 DEF Desk!Fetch
  <2>2. QED
    BY <1>1, <1>2, <2>1, DeskShows
<1>6. CASE Desk!ShowRefunds
  <2>1. rows' = rows /\ work' \in Works
    BY <1>1, <1>6 DEF Desk!ShowRefunds
  <2> DEFINE row == IF Desk!Remaining > 0 THEN Desk!Remaining ELSE -1
  <2>2. CASE list' = [list EXCEPT !.listed = "ok", !.row = row, !.form = Desk!OpenFor(row)]
    <3>1. Desk!OpenFor(row) = (IF row = -1 THEN Desk!NoForm ELSE list.form) /\ list.form \in Sheets
      BY <1>1 DEF Desk!OpenFor, Desk!Unlisted
    <3>2. list' \in Lists /\ list'.row = row /\ list'.form = IF row = -1 THEN Desk!NoForm ELSE list.form
      BY <1>1, <2>2, <3>1, NoSheet
    <3>3. QED
      BY <1>1, <1>2, <2>1, <3>2, NoSheet, DeskShows
  <2>3. CASE list' = [list EXCEPT !.listed = IF rows.permitted THEN "error" ELSE "denied"]
    <3>1. list' \in Lists /\ list'.row = list.row /\ list'.form = list.form
      BY <1>1, <2>3
    <3>2. QED
      BY <1>1, <1>2, <2>1, <3>1, DeskShows
  <2>4. QED
    BY <1>6, <2>2, <2>3 DEF Desk!ShowRefunds, Desk!Unlisted
<1>7. QED
  BY <1>3, <1>4, <1>5, <1>6

LEMMA DeskSheet ==
    ASSUME DeskAssumption, DeskInv,
           Desk!OpenForm \/ Desk!Fill \/ Desk!Close \/ Desk!Done
    PROVE  DeskInv'
<1> DEFINE Lists == [app : {list.app}, may : {"loading", "yes", "no"}, row : Nat \cup {-1},
                     listed : {"loading", "ok", "error", "denied"}, form : Sheets]
           Rows == [paid : {rows.paid}, permitted : BOOLEAN, blind : {rows.blind}, lost : {rows.lost}, others : Nat]
           Works == [fetch : BOOLEAN, sent : {work.sent}, submits : Nat]
<1>1. /\ list \in Lists /\ rows \in Rows /\ work \in Works /\ Desk!Remaining \in Nat
      /\ list.form \in Sheets /\ list.row \in Nat \cup {-1} /\ work.submits \in Nat
  BY DEF DeskAssumption, DeskInv, DeskTypes, Desk!Remaining
<1>2. (list.row # -1 => Desk!Remaining <= list.row) /\ (list.row = -1 => list.form.at = "none")
  BY DEF DeskInv, SaidEnough
<1>3. CASE Desk!OpenForm
  <2> DEFINE form == [Desk!NoForm EXCEPT !.at = "form", !.max = list.row, !.amount = list.row, !.id = work.submits]
  <2>1. list' = [list EXCEPT !.form = form] /\ rows' = rows /\ work' = work /\ list.form.at = "none" /\ Desk!Panel = "rows"
    BY <1>3 DEF Desk!OpenForm
  <2>2. list.row # -1
    BY <2>1 DEF Desk!Panel, Desk!WebPanel, Desk!MobilePanel, Desk!Unlisted
  <2>3. form \in Sheets /\ form.at = "form" /\ form.max = list.row
    BY <1>1, <2>2, NoSheet DEF Sheets
  <2> HIDE DEF form
  <2>4. list' \in Lists /\ list'.form = form /\ list'.row = list.row
    BY <1>1, <2>1, <2>3
  <2>5. QED
    BY <1>1, <1>2, <2>1, <2>2, <2>3, <2>4, DeskShows
<1>4. CASE Desk!Fill
  <2>1. PICK amount \in 0 .. RefundDue + 1, refOk \in BOOLEAN :
            list' = [list EXCEPT !.form.amount = amount, !.form.refOk = refOk, !.form.error = FALSE]
    BY <1>4 DEF Desk!Fill, Desk!Bad
  <2>2. list.form.at = "form" /\ rows' = rows /\ work' = work
    BY <1>4 DEF Desk!Fill
  <2>3. amount \in Nat
    BY <2>1 DEF DeskAssumption
  <2>4. /\ list' \in Lists /\ list'.row = list.row /\ list'.form.at = "form" /\ list'.form.max = list.form.max
        /\ list'.form.id = list.form.id
    BY <1>1, <2>1, <2>2, <2>3 DEF Sheets
  <2>5. QED
    BY <1>1, <1>2, <2>2, <2>4, DeskShows
<1>5. CASE Desk!Close
  <2>1. /\ list' = [list EXCEPT !.form = Desk!NoForm] /\ rows' = rows
        /\ work' = [work EXCEPT !.fetch = @ \/ list.app = "web"] /\ (list.app = "web" => ~Desk!Busy)
    BY <1>5 DEF Desk!Close, Desk!MayClose
  <2>2. list' \in Lists /\ list'.form = Desk!NoForm /\ list'.row = list.row
    BY <1>1, <2>1, NoSheet
  <2>3. work' \in Works
    BY <1>1, <2>1
  <2>4. QED
    BY <1>1, <1>2, <2>1, <2>2, <2>3, NoSheet, DeskShows
<1>6. CASE Desk!Done
  <2>1. /\ list' = [list EXCEPT !.form = Desk!NoForm] /\ rows' = rows
        /\ work' = [work EXCEPT !.fetch = TRUE] /\ list.form.at = "saved"
    BY <1>6 DEF Desk!Done
  <2>2. list' \in Lists /\ list'.form = Desk!NoForm /\ list'.row = list.row /\ work' \in Works
    BY <1>1, <2>1, NoSheet
  <2>3. ~Desk!Busy
    BY <2>1 DEF Desk!Busy
  <2>4. QED
    BY <1>1, <1>2, <2>1, <2>2, <2>3, NoSheet, DeskShows
<1>7. QED
  BY <1>3, <1>4, <1>5, <1>6

\* Somebody else records some of it: less is left, whatever anybody was told.
LEMMA DeskElsewhere ==
    ASSUME DeskAssumption, DeskInv, Desk!RecordedElsewhere
    PROVE  DeskInv'
<1>1. PICK amount \in 1 .. Desk!Remaining :
         rows' = [rows EXCEPT !.paid = rows.paid + amount, !.others = rows.others + 1]
  BY DEF Desk!RecordedElsewhere
<1>2. list' = list /\ work' = work
  BY DEF Desk!RecordedElsewhere
<1>3. rows.paid \in Nat /\ rows.others \in Nat /\ RefundDue \in Nat
  BY DEF DeskAssumption, DeskInv, DeskTypes
<1>4. amount \in Nat /\ rows.paid + amount \in Nat /\ rows.paid + amount <= RefundDue /\ rows.others + 1 \in Nat
  BY <1>3 DEF Desk!Remaining
<1>5. /\ rows' \in [paid : Nat, permitted : BOOLEAN, blind : Int, lost : Nat, others : Nat]
      /\ rows'.paid = rows.paid + amount /\ rows'.blind = rows.blind /\ rows'.lost = rows.lost
  BY <1>1, <1>4 DEF DeskInv, DeskTypes
<1>6. Desk!Remaining \in Nat /\ Desk!Remaining' \in Nat /\ Desk!Remaining' <= Desk!Remaining
  BY <1>3, <1>4, <1>5 DEF Desk!Remaining
<1>7. /\ list.row \in Nat \cup {-1} /\ list.form.max \in Nat /\ list.form.left \in Int
      /\ \A c \in work.sent : c.left \in Nat /\ c.amount \in Nat
  BY DEF DeskInv, DeskTypes, Sheets, RefundRequest
<1>8. DeskTypes'
  BY <1>2, <1>4, <1>5 DEF DeskInv, DeskTypes
<1>9. SaidEnough'
  BY <1>2, <1>6, <1>7 DEF DeskInv, SaidEnough
<1>10. OneRequest'
  BY <1>2, <1>6, <1>7 DEF DeskInv, OneRequest
<1>11. ToldNext'
  BY <1>2, <1>5, <1>6 DEF DeskInv, ToldNext
<1>12. QED
  BY <1>8, <1>9, <1>10, <1>11 DEF DeskInv

\* The form is sent: on the web nothing else is on its way, because a form whose row is gone is gone too.
LEMMA DeskSubmit ==
    ASSUME DeskAssumption, DeskInv, Desk!Submit
    PROVE  DeskInv'
<1> DEFINE c == [id |-> list.form.id, amount |-> list.form.amount, at |-> "sent", left |-> 0]
<1>1. /\ ~Desk!Busy /\ list' = [list EXCEPT !.form.error = FALSE] /\ rows' = rows
      /\ work' = [work EXCEPT !.submits = work.submits + 1, !.sent = work.sent \cup {c}]
  BY DEF Desk!Submit
<1>2. list.form.at = "form"
  BY DEF Desk!Submit, Desk!WebForm, Desk!MobileForm
<1>3. /\ list.form \in Sheets /\ work.submits + 1 \in Nat
  BY DEF DeskInv, DeskTypes
<1>4. c \in RefundRequest /\ c.at = "sent" /\ c.id = list.form.id
  BY <1>3 DEF Sheets, RefundRequest
<1> HIDE DEF c
<1>5. /\ list' \in [app : {list.app}, may : {"loading", "yes", "no"}, row : Nat \cup {-1},
                    listed : {"loading", "ok", "error", "denied"}, form : Sheets]
      /\ list'.row = list.row /\ list'.form.at = "form" /\ list'.form.max = list.form.max /\ list'.form.id = list.form.id
  BY <1>1, <1>2, <1>3 DEF DeskInv, DeskTypes, Sheets
<1>6. work' \in [fetch : BOOLEAN, sent : SUBSET RefundRequest, submits : Nat] /\ work'.sent = work.sent \cup {c}
  BY <1>1, <1>3, <1>4 DEF DeskInv, DeskTypes
<1>7. Desk!Remaining' = Desk!Remaining /\ list.row # -1
  BY <1>1, <1>2 DEF DeskInv, SaidEnough, Desk!Remaining
<1>8. list.app = "web" => work.sent = {}
  BY <1>1, <1>2, <1>7 DEF DeskInv, OneRequest, Desk!Busy, Desk!OfThisForm
<1>9. DeskTypes'
  BY <1>1, <1>5, <1>6 DEF DeskInv, DeskTypes
<1>10. SaidEnough'
  BY <1>2, <1>4, <1>5, <1>6, <1>7 DEF DeskInv, SaidEnough
<1>11. OneRequest'
  BY <1>4, <1>5, <1>6, <1>8 DEF OneRequest
<1>12. ToldNext'
  BY <1>1, <1>5, <1>6, <1>7, <1>8 DEF DeskInv, ToldNext
<1>13. QED
  BY <1>9, <1>10, <1>11, <1>12 DEF DeskInv

\* What becomes of a request on its way: the server answers it, or the answer is lost.
LEMMA DeskAnswers ==
    ASSUME DeskAssumption, DeskInv, NEW c \in work.sent, NEW d \in RefundRequest, d.id = c.id, d.amount = c.amount,
           list' = list, work' = [work EXCEPT !.sent = (work.sent \ {c}) \cup {d}],
           \/ /\ rows' = rows /\ d.at # "ok" /\ (c.at # "sent" => d.at = "lost")
              /\ d.at = "exceeds" => d.left = Desk!Remaining
              /\ c.at # "ok"
           \/ /\ c.at = "ok" /\ d.at = "lost" /\ rows' = [rows EXCEPT !.lost = rows.lost + 1]
           \/ /\ c.at = "sent" /\ d.at = "ok" /\ d.left = Desk!Remaining - c.amount /\ c.amount <= Desk!Remaining /\ Desk!Remaining > 0
              /\ rows' = [rows EXCEPT !.paid = rows.paid + c.amount, !.blind = rows.blind + 1]
    PROVE  DeskInv'
<1>1. /\ work' \in [fetch : BOOLEAN, sent : SUBSET RefundRequest, submits : Nat]
      /\ work'.sent = (work.sent \ {c}) \cup {d}
  BY DEF DeskInv, DeskTypes
<1>2. /\ c.amount \in Nat /\ c.left \in Nat /\ list.row \in Nat \cup {-1} /\ list.form.max \in Nat /\ list.form.left \in Int
      /\ rows.paid \in Nat /\ rows.blind \in Int /\ rows.lost \in Nat /\ RefundDue \in Nat /\ Desk!Remaining \in Nat
      /\ \A e \in work.sent : e.left \in Nat
  BY DEF DeskAssumption, DeskInv, DeskTypes, Sheets, RefundRequest, Desk!Remaining
<1>3. CASE rows' = rows /\ d.at # "ok" /\ (c.at # "sent" => d.at = "lost") /\ (d.at = "exceeds" => d.left = Desk!Remaining) /\ c.at # "ok"
  <2>1. Desk!Remaining' = Desk!Remaining
    BY <1>3 DEF Desk!Remaining
  <2>2. DeskTypes'
    BY <1>1, <1>3 DEF DeskInv, DeskTypes
  <2>3. SaidEnough'
    BY <1>1, <1>2, <1>3, <2>1 DEF DeskInv, SaidEnough
  <2>4. OneRequest'
    BY <1>1, <1>3, <2>1 DEF DeskInv, OneRequest
  <2>5. ToldNext'
    BY <1>1, <1>3, <2>1 DEF DeskInv, OneRequest, ToldNext
  <2>6. QED
    BY <2>2, <2>3, <2>4, <2>5 DEF DeskInv
<1>4. CASE /\ c.at = "sent" /\ d.at = "ok" /\ d.left = Desk!Remaining - c.amount /\ c.amount <= Desk!Remaining /\ Desk!Remaining > 0
           /\ rows' = [rows EXCEPT !.paid = rows.paid + c.amount, !.blind = rows.blind + 1]
  <2>1. rows.paid + c.amount \in Nat /\ rows.blind + 1 \in Int /\ rows.paid + c.amount <= RefundDue
    BY <1>2, <1>4 DEF Desk!Remaining
  <2>2. /\ rows' \in [paid : Nat, permitted : BOOLEAN, blind : Int, lost : Nat, others : Nat]
        /\ rows'.paid = rows.paid + c.amount /\ rows'.blind = rows.blind + 1 /\ rows'.lost = rows.lost
    BY <1>4, <2>1 DEF DeskInv, DeskTypes
  <2>3. Desk!Remaining' = Desk!Remaining - c.amount /\ Desk!Remaining' \in Nat /\ Desk!Remaining' <= Desk!Remaining
    BY <1>2, <1>4, <2>2 DEF Desk!Remaining
  <2>4. DeskTypes'
    BY <1>1, <2>1, <2>2 DEF DeskInv, DeskTypes
  <2>5. SaidEnough'
    BY <1>1, <1>2, <1>4, <2>3 DEF DeskInv, SaidEnough
  <2>6. OneRequest'
    <3>1. SUFFICES ASSUME list.app = "web"
                   PROVE  OneRequest'
      BY DEF OneRequest
    <3>2. work'.sent = {d}
      BY <1>1, <3>1 DEF DeskInv, OneRequest
    <3>3. \/ list.form.at = "form" /\ d.id = list.form.id
          \/ Desk!Remaining = 0 /\ list.row = -1
      BY <3>1 DEF DeskInv, OneRequest
    <3>4. list.form.at = "form" => Desk!Remaining - d.amount <= list.form.max - d.amount
      BY <1>2 DEF DeskInv, SaidEnough
    <3>5. Desk!Remaining = 0 => Desk!Remaining' = 0
      BY <2>3, <1>2
    <3>6. QED
      BY <2>3, <3>2, <3>3, <3>4, <3>5 DEF OneRequest
  <2>7. ToldNext'
    <3>1. SUFFICES ASSUME list.app = "web"
                   PROVE  ToldNext'
      BY DEF ToldNext
    <3>2. d \in work'.sent
      BY <1>1
    <3>3. rows.blind <= rows.lost
      <4>1. \A e \in work.sent : e.at # "ok"
        BY <1>4, <3>1 DEF DeskInv, OneRequest
      <4>2. QED
        BY <1>2, <1>4, <3>1, <4>1 DEF DeskInv, ToldNext
    <3>4. QED
      BY <1>2, <1>4, <2>2, <2>3, <3>1, <3>2, <3>3 DEF ToldNext
  <2>8. QED
    BY <2>4, <2>5, <2>6, <2>7 DEF DeskInv
<1>5. CASE c.at = "ok" /\ d.at = "lost" /\ rows' = [rows EXCEPT !.lost = rows.lost + 1]
  <2>1. /\ rows' \in [paid : Nat, permitted : BOOLEAN, blind : Int, lost : Nat, others : Nat]
        /\ rows'.paid = rows.paid /\ rows'.blind = rows.blind /\ rows'.lost = rows.lost + 1
    BY <1>2, <1>5 DEF DeskInv, DeskTypes
  <2>2. Desk!Remaining' = Desk!Remaining
    BY <2>1 DEF Desk!Remaining
  <2>3. DeskTypes'
    BY <1>1, <2>1 DEF DeskInv, DeskTypes
  <2>4. SaidEnough'
    BY <1>1, <1>2, <1>5, <2>2 DEF DeskInv, SaidEnough
  <2>5. OneRequest'
    BY <1>1, <1>5, <2>2 DEF DeskInv, OneRequest
  <2>6. ToldNext'
    BY <1>2, <2>1 DEF DeskInv, ToldNext
  <2>7. QED
    BY <2>3, <2>4, <2>5, <2>6 DEF DeskInv
<1>6. QED
  BY <1>3, <1>4, <1>5

LEMMA DeskServes ==
    ASSUME DeskAssumption, DeskInv, NEW c \in work.sent, Desk!MarkRefundPaid(c) \/ Desk!LoseAnswer(c)
    PROVE  DeskInv'
<1>1. c \in RefundRequest /\ c.amount \in Nat /\ Desk!Remaining \in Nat /\ RefundDue \in Nat
  BY DEF DeskAssumption, DeskInv, DeskTypes, RefundRequest, Desk!Remaining
<1>2. CASE Desk!LoseAnswer(c)
  <2> DEFINE d == [c EXCEPT !.at = "lost"]
  <2>1. /\ list' = list /\ work' = [work EXCEPT !.sent = (work.sent \ {c}) \cup {d}] /\ c.at \in {"sent", "ok"}
        /\ rows' = IF c.at = "ok" THEN [rows EXCEPT !.lost = rows.lost + 1] ELSE rows
    BY <1>2 DEF Desk!LoseAnswer
  <2>2. d \in RefundRequest /\ d.id = c.id /\ d.amount = c.amount /\ d.at = "lost"
    BY <1>1 DEF RefundRequest
  <2> HIDE DEF d
  <2>3. QED
    BY <2>1, <2>2, DeskAnswers
<1>3. CASE Desk!MarkRefundPaid(c)
  <2> DEFINE fits == rows.permitted /\ Desk!Remaining > 0 /\ c.amount <= Desk!Remaining
             answer == CASE ~rows.permitted -> "denied" [] Desk!Remaining = 0 -> "marked"
                         [] fits -> "ok" [] OTHER -> "exceeds"
             after == IF fits THEN Desk!Remaining - c.amount ELSE Desk!Remaining
             d == [c EXCEPT !.at = answer, !.left = after]
  <2>1. /\ c.at = "sent" /\ list' = list /\ work' = [work EXCEPT !.sent = (work.sent \ {c}) \cup {d}]
        /\ rows' = IF fits THEN [rows EXCEPT !.paid = rows.paid + c.amount, !.blind = rows.blind + 1] ELSE rows
    BY <1>3 DEF Desk!MarkRefundPaid
  <2>2. /\ answer \in {"denied", "marked", "ok", "exceeds"} /\ after \in Nat
        /\ fits <=> answer = "ok"
    BY <1>1
  <2>3. after = IF fits THEN Desk!Remaining - c.amount ELSE Desk!Remaining
    OBVIOUS
  <2> HIDE DEF answer, after
  <2>4. d \in RefundRequest /\ d.id = c.id /\ d.amount = c.amount /\ d.at = answer /\ d.left = after
    BY <1>1, <2>2 DEF RefundRequest
  <2> HIDE DEF d
  <2>5. CASE fits
    <3>1. rows' = [rows EXCEPT !.paid = rows.paid + c.amount, !.blind = rows.blind + 1]
      BY <2>1, <2>5
    <3>2. d.at = "ok" /\ d.left = Desk!Remaining - c.amount /\ c.amount <= Desk!Remaining /\ Desk!Remaining > 0
      BY <2>2, <2>3, <2>4, <2>5
    <3>3. QED
      BY <2>1, <2>4, <3>1, <3>2, DeskAnswers
  <2>6. CASE ~fits
    <3>1. rows' = rows /\ d.at # "ok" /\ d.left = Desk!Remaining
      BY <2>1, <2>2, <2>3, <2>4, <2>6
    <3>2. QED
      BY <2>1, <2>4, <3>1, DeskAnswers
  <2>7. QED
    BY <2>5, <2>6
<1>4. QED
  BY <1>2, <1>3

\* The screen hears what became of it.
LEMMA DeskHears ==
    ASSUME DeskAssumption, DeskInv, NEW c \in work.sent, Desk!Answered(c)
    PROVE  DeskInv'
<1>1. /\ c \in RefundRequest /\ c.at # "sent" /\ c.left \in Nat /\ c.amount \in Nat
      /\ list.form \in Sheets /\ list.form.max \in Nat /\ list.form.left \in Int /\ list.row \in Nat \cup {-1}
      /\ rows.blind \in Int /\ rows.lost \in Nat /\ Desk!Remaining \in Nat
  BY DEF DeskAssumption, DeskInv, DeskTypes, RefundRequest, Sheets, Desk!Remaining, Desk!Answered
<1>2. work' = [work EXCEPT !.sent = work.sent \ {c}]
  BY DEF Desk!Answered
<1>3. work' \in [fetch : BOOLEAN, sent : SUBSET RefundRequest, submits : Nat] /\ work'.sent = work.sent \ {c}
  BY <1>2 DEF DeskInv, DeskTypes
<1>4. CASE ~(c.id = list.form.id /\ list.form.at = "form")
  <2>1. list' = list /\ rows' = rows
    BY <1>4 DEF Desk!Answered
  <2>2. Desk!Remaining' = Desk!Remaining
    BY <2>1 DEF Desk!Remaining
  <2>3. list.app = "web" => Desk!Remaining = 0
    BY <1>4 DEF DeskInv, OneRequest
  <2>4. DeskTypes' /\ SaidEnough' /\ OneRequest'
    BY <1>3, <2>1, <2>2 DEF DeskInv, DeskTypes, SaidEnough, OneRequest
  <2>5. ToldNext'
    BY <2>1, <2>2, <2>3 DEF DeskInv, ToldNext
  <2>6. QED
    BY <2>4, <2>5 DEF DeskInv
<1>5. CASE c.id = list.form.id /\ list.form.at = "form"
  <2>1. /\ rows' = IF c.at = "ok" THEN [rows EXCEPT !.blind = rows.blind - 1] ELSE rows
        /\ list' = IF list.app = "web" THEN Desk!WebAnswered(c) ELSE Desk!MobileAnswered(c)
    BY <1>5 DEF Desk!Answered
  <2>2. /\ rows' \in [paid : Nat, permitted : BOOLEAN, blind : Int, lost : Nat, others : Nat] /\ rows'.paid = rows.paid
        /\ rows'.lost = rows.lost /\ rows'.blind = IF c.at = "ok" THEN rows.blind - 1 ELSE rows.blind
    BY <1>1, <2>1 DEF DeskInv, DeskTypes
  <2>3. Desk!Remaining' = Desk!Remaining
    BY <2>2 DEF Desk!Remaining
  <2>4. list.row # -1 /\ Desk!Remaining <= list.form.max
    BY <1>5 DEF DeskInv, SaidEnough
  <2>5. list.app = "web" => work'.sent = {}
    BY <1>3 DEF DeskInv, OneRequest
  <2>6. list.form.max - c.amount \in Int /\ c.left \in Int
    BY <1>1
  <2>7. /\ list' \in [app : {list.app}, may : {"loading", "yes", "no"}, row : Nat \cup {-1},
                      listed : {"loading", "ok", "error", "denied"}, form : Sheets]
        /\ list'.row = list.row
        /\ \/ list'.form.at = "form" /\ list'.form.max = list.form.max
           \/ list'.form.at = "form" /\ list'.form.max = c.left /\ c.at = "exceeds"
           \/ list'.form.at = "saved" /\ list'.form.left = c.left /\ c.at = "ok"
           \/ list'.form.at = "saved" /\ list'.form.left = list.form.max - c.amount /\ c.at = "ok" /\ list.app = "web"
    <3>1. CASE list' = [list EXCEPT !.form.error = TRUE]
      BY <1>1, <1>5, <3>1 DEF DeskInv, DeskTypes, Sheets
    <3>2. CASE list' = [list EXCEPT !.form.error = TRUE, !.form.max = c.left] /\ c.at = "exceeds"
      BY <1>1, <1>5, <3>2 DEF DeskInv, DeskTypes, Sheets
    <3>3. CASE list' = [list EXCEPT !.form.at = "saved", !.form.left = c.left] /\ c.at = "ok"
      BY <1>1, <1>5, <2>6, <3>3 DEF DeskInv, DeskTypes, Sheets
    <3>4. CASE list' = [list EXCEPT !.form.at = "saved", !.form.left = list.form.max - c.amount] /\ c.at = "ok" /\ list.app = "web"
      BY <1>1, <1>5, <2>6, <3>4 DEF DeskInv, DeskTypes, Sheets
    <3>5. QED
      BY <2>1, <3>1, <3>2, <3>3, <3>4 DEF Desk!WebAnswered, Desk!MobileAnswered
  <2>8. Desk!Remaining <= c.left \/ c.at \notin {"ok", "exceeds"}
    BY DEF DeskInv, SaidEnough
  <2>9. c.at = "ok" /\ list.app = "web" => Desk!Remaining <= list.form.max - c.amount
    BY <1>5 DEF DeskInv, OneRequest
  <2>10. DeskTypes'
    BY <1>3, <2>2, <2>7 DEF DeskInv, DeskTypes
  <2>11. SaidEnough'
    BY <1>3, <2>3, <2>4, <2>7, <2>8, <2>9 DEF DeskInv, SaidEnough
  <2>12. OneRequest'
    BY <1>3, <2>2, <2>5, <2>7 DEF DeskInv, OneRequest
  <2>13. ToldNext'
    <3>1. SUFFICES ASSUME list.app = "web"
                   PROVE  ToldNext'
      BY <2>7 DEF ToldNext
    <3>2. rows.blind <= rows.lost + 1 /\ (c.at # "ok" /\ rows.blind = rows.lost + 1 => Desk!Remaining = 0)
      BY <3>1 DEF DeskInv, ToldNext, OneRequest
    <3>3. QED
      BY <1>1, <2>2, <2>3, <3>2 DEF ToldNext
  <2>14. QED
    BY <2>10, <2>11, <2>12, <2>13 DEF DeskInv
<1>6. QED
  BY <1>4, <1>5

LEMMA DeskStep ==
    ASSUME DeskAssumption, DeskInv, [Desk!Next]_(Desk!vars)
    PROVE  DeskInv'
<1>1. CASE UNCHANGED <<list, rows, work>>
  BY <1>1 DEF DeskInv, DeskTypes, SaidEnough, OneRequest, ToldNext, Desk!Remaining
<1>2. CASE \E c \in work.sent : Desk!MarkRefundPaid(c) \/ Desk!LoseAnswer(c) \/ Desk!Answered(c)
  BY <1>2, DeskServes, DeskHears
<1>3. QED
  BY <1>1, <1>2, DeskList, DeskSheet, DeskElsewhere, DeskSubmit DEF Desk!Next, Desk!vars

\* What the owner is told of a refund is what was recorded, nothing owed is forgotten, and on the web nothing
\* is recorded twice without the owner having been told.
LEMMA DeskIsFaithful == DeskInv => Desk!Faithful
<1> SUFFICES ASSUME DeskInv
             PROVE  Desk!Faithful
  OBVIOUS
<1>1. list.app = "web" => Desk!NeverRecordedBlind
  BY DEF DeskInv, ToldNext, Desk!NeverRecordedBlind
<1>2. Desk!SavedIsRecorded /\ Desk!NothingForgotten
  BY DEF DeskInv, SaidEnough, Desk!SavedIsRecorded, Desk!NothingForgotten
<1>3. QED
  BY <1>1, <1>2 DEF Desk!Faithful

-----------------------------------------------------------------------------
(* The player's hold                                                       *)

SlotStatuses == {"none", "held", "payment_submitted", "booked", "cancelled"}
HoldScreens == [app : {"web", "mobile"}, at : {"chat", "pay", "done"}, known : SlotStatuses, started : BOOLEAN, wrote : Nat,
                taps : Nat, boot : BOOLEAN, offer : BOOLEAN, asking : BOOLEAN, picked : BOOLEAN, retryable : BOOLEAN,
                uploads : Nat, cancelOpen : BOOLEAN]
HoldRows == [status : SlotStatuses, over : BOOLEAN, asked : Nat, holds : Nat, proofs : Nat]
HoldCalls == [kind : {"ask", "hold", "get", "check", "proof", "cancel"}, at : {"sent", "answered", "failed", "errored", "abandoned"},
              seen : SlotStatuses \cup {"taken", "refused"}]
HoldTypes == list \in HoldScreens /\ rows \in HoldRows /\ work \subseteq HoldCalls

\* A question is on its way only when everything asked so far was written before it.
OneAsk ==
    /\ rows.asked <= list.wrote + 1
    /\ ~list.started => rows.asked = 0 /\ list.wrote = 0
    /\ \A c \in work : c.kind = "ask" =>
        /\ list.started /\ c.at # "abandoned"
        /\ c.at = "sent" => rows.asked <= list.wrote
        /\ \A d \in work : d.kind = "ask" => c = d
\* Before the first hold nobody has seen a booking, so nothing cancels one.
NothingHeld ==
    /\ rows.status = "none" <=> rows.holds = 0
    /\ rows.holds = 0 =>
        /\ list.known = "none" /\ ~list.cancelOpen
        /\ \A c \in work : c.kind # "cancel" /\ c.seen \notin SlotStatuses \ {"none"}
\* Whoever saw the only hold cancelled saw the end of it.
SeenGone ==
    rows.holds = 1 /\ (list.known = "cancelled" \/ \E c \in work : c.seen = "cancelled") => rows.status = "cancelled"
\* An answer about the booking names a status.
AnswersSay ==
    \A c \in work : c.at = "answered" =>
        /\ c.kind \in {"get", "check"} => c.seen \in SlotStatuses
        /\ c.kind = "proof" => c.seen \in SlotStatuses \cup {"refused"}
ProofKept == rows.proofs <= rows.holds /\ (rows.proofs < rows.holds \/ rows.status # "held")

HoldInv == HoldTypes /\ OneAsk /\ NothingHeld /\ SeenGone /\ AnswersSay /\ ProofKept

LEMMA HoldInit == Hold!Init => HoldInv
<1> SUFFICES ASSUME Hold!Init
             PROVE  HoldInv
  OBVIOUS
<1>1. PICK app \in {"web", "mobile"} :
        list = [app |-> app, at |-> "chat", known |-> "none", started |-> FALSE, wrote |-> 0, taps |-> 0,
                boot |-> FALSE, offer |-> FALSE, asking |-> FALSE,
                picked |-> FALSE, retryable |-> FALSE, uploads |-> 0, cancelOpen |-> FALSE]
  BY DEF Hold!Init
<1>2. rows = [status |-> "none", over |-> FALSE, asked |-> 0, holds |-> 0, proofs |-> 0] /\ work = {}
  BY DEF Hold!Init
<1>3. HoldTypes
  BY <1>1, <1>2 DEF HoldTypes, HoldScreens, HoldRows, SlotStatuses
<1>4. OneAsk /\ NothingHeld /\ SeenGone /\ AnswersSay /\ ProofKept
  BY <1>1, <1>2 DEF OneAsk, NothingHeld, SeenGone, AnswersSay, ProofKept
<1>5. QED
  BY <1>3, <1>4 DEF HoldInv

\* The screen asks nothing of the assistant, and knows what it knew or what an answer says.
LEMMA HoldShows ==
    ASSUME HoldInv, rows' = rows, list' \in HoldScreens, list'.app = list.app, list'.started = list.started,
           list'.wrote = list.wrote, list'.known = list.known \/ \E c \in work : list'.known = c.seen,
           list'.cancelOpen => list.cancelOpen \/ list.known # "none",
           \/ work' \subseteq work
           \/ \E d \in HoldCalls :
                /\ work' \subseteq work \cup {d} /\ d.kind # "ask" /\ d.at = "sent" /\ d.seen = "none"
                /\ d.kind = "cancel" => list.cancelOpen
    PROVE  HoldInv'
<1>1. HoldTypes'
  BY DEF HoldInv, HoldTypes
<1>2. OneAsk'
  BY DEF HoldInv, OneAsk
<1>3. NothingHeld'
  BY <1>1 DEF HoldInv, HoldTypes, HoldScreens, NothingHeld, SlotStatuses
<1>4. SeenGone'
  BY DEF HoldInv, SeenGone
<1>5. AnswersSay' /\ ProofKept'
  BY DEF HoldInv, AnswersSay, ProofKept
<1>6. QED
  BY <1>1, <1>2, <1>3, <1>4, <1>5 DEF HoldInv

\* A question: the opening one, or for what the player wrote.
LEMMA HoldAsks ==
    ASSUME HoldInv, Hold!Mount \/ Hold!SendMessage
    PROVE  HoldInv'
<1> DEFINE d == [kind |-> "ask", at |-> "sent", seen |-> "none"]
<1>1. d \in HoldCalls /\ d.kind = "ask" /\ d.at = "sent" /\ d.seen = "none"
  BY DEF HoldCalls, SlotStatuses
<1>2. work' = work \cup {d} /\ rows' = rows
  BY DEF Hold!Mount, Hold!SendMessage, Hold!Call
<1> HIDE DEF d
<1>3. list.wrote \in Nat /\ rows.asked \in Nat /\ list.wrote + 1 \in Nat
  BY DEF HoldInv, HoldTypes, HoldScreens, HoldRows
<1>4. /\ list' \in HoldScreens /\ list'.app = list.app /\ list'.started /\ list'.known = list.known
      /\ list'.cancelOpen = list.cancelOpen /\ list'.wrote \in Nat
      /\ \/ ~list.started /\ list'.wrote = list.wrote
         \/ list.started /\ list'.wrote = list.wrote + 1
      /\ \A c \in work : c.kind # "ask"
  <2>1. CASE Hold!Mount
    <3>1. ~list.started /\ list' = [list EXCEPT !.started = TRUE]
      BY <2>1 DEF Hold!Mount, Hold!FirstMount
    <3>2. QED
      BY <1>3, <3>1 DEF HoldInv, HoldTypes, HoldScreens, OneAsk
  <2>2. CASE Hold!SendMessage
    <3>1. list.started /\ list' = [list EXCEPT !.wrote = list.wrote + 1, !.asking = FALSE] /\ ~Hold!Busy("ask")
      BY <2>2 DEF Hold!SendMessage, Hold!ChatOffers, Hold!Chips, Hold!Proposal
    <3>2. \A c \in work : c.kind # "ask"
      BY <3>1 DEF Hold!Busy, HoldInv, OneAsk
    <3>3. QED
      BY <1>3, <3>1, <3>2 DEF HoldInv, HoldTypes, HoldScreens
  <2>3. QED
    BY <2>1, <2>2
<1>5. HoldTypes'
  BY <1>1, <1>2, <1>4 DEF HoldInv, HoldTypes
<1>6. OneAsk'
  BY <1>1, <1>2, <1>3, <1>4 DEF HoldInv, OneAsk
<1>7. NothingHeld'
  BY <1>1, <1>2, <1>4 DEF HoldInv, NothingHeld
<1>8. SeenGone' /\ AnswersSay' /\ ProofKept'
  BY <1>1, <1>2, <1>4 DEF HoldInv, SeenGone, AnswersSay, ProofKept
<1>9. QED
  BY <1>5, <1>6, <1>7, <1>8 DEF HoldInv

\* A request is answered or lost, or the booking changes without one.
LEMMA HoldServes ==
    ASSUME HoldInv, rows' \in HoldRows, ProofKept',
           list' \in HoldScreens, list'.app = list.app, list'.started = list.started, list'.wrote = list.wrote,
           list'.known = list.known, list'.cancelOpen = list.cancelOpen,
           rows'.status = "none" <=> rows'.holds = 0,
           \/ rows'.holds = rows.holds /\ (rows.status = "cancelled" => rows'.status = "cancelled")
           \/ rows'.holds = rows.holds + 1,
           \/ work' = work /\ rows'.asked = rows.asked
           \/ \E c \in work, d \in HoldCalls :
                /\ work' \subseteq (work \ {c}) \cup {d} /\ d.kind = c.kind /\ d.at # "sent"
                /\ d.at = "abandoned" => c.kind = "proof"
                /\ d.at = "answered" =>
                    /\ d.kind \in {"get", "check"} => d.seen \in SlotStatuses
                    /\ d.kind = "proof" => d.seen \in SlotStatuses \cup {"refused"}
                /\ \/ rows'.asked = rows.asked
                   \/ c.kind = "ask" /\ c.at = "sent" /\ rows'.asked = rows.asked + 1
                /\ \/ d.seen = c.seen
                   \/ /\ d.seen = "cancelled" => rows'.status = "cancelled"
                      /\ rows'.holds = 0 => d.seen \notin SlotStatuses \ {"none"}
    PROVE  HoldInv'
<1>1. HoldTypes'
  BY DEF HoldInv, HoldTypes
<1>2. list.wrote \in Nat /\ rows.asked \in Nat /\ rows.holds \in Nat /\ rows'.holds \in Nat
  BY DEF HoldInv, HoldTypes, HoldScreens, HoldRows
<1>3. OneAsk'
  BY <1>2 DEF HoldInv, OneAsk
<1>4. NothingHeld'
  BY <1>2 DEF HoldInv, NothingHeld
<1>5. SeenGone'
  BY <1>2 DEF HoldInv, SeenGone, NothingHeld, SlotStatuses
<1>6. AnswersSay'
  BY DEF HoldInv, AnswersSay
<1>7. QED
  BY <1>1, <1>3, <1>4, <1>5, <1>6 DEF HoldInv

\* The chat and the pay screen: what the player does.
LEMMA HoldTaps ==
    ASSUME HoldInv,
           \/ Hold!Decline \/ Hold!Confirm \/ Hold!OpenFromList \/ Hold!PickImage \/ Hold!DropImage \/ Hold!SubmitProof
           \/ Hold!Poll \/ Hold!BackToPay \/ Hold!AskCancel \/ Hold!KeepBooking \/ Hold!DoCancel
    PROVE  HoldInv'
<1> USE DEF HoldScreens, SlotStatuses
<1>1. list \in HoldScreens /\ list.taps + 1 \in Nat /\ list.uploads + 1 \in Nat
  BY DEF HoldInv, HoldTypes
<1>2. CASE Hold!Decline \/ Hold!OpenFromList \/ Hold!PickImage \/ Hold!DropImage \/ Hold!BackToPay \/ Hold!KeepBooking
  <2>1. rows' = rows /\ work' = work
    BY <1>2 DEF Hold!Decline, Hold!OpenFromList, Hold!PickImage, Hold!DropImage, Hold!BackToPay, Hold!KeepBooking
  <2>2. /\ list' \in HoldScreens /\ list'.app = list.app /\ list'.started = list.started /\ list'.wrote = list.wrote
        /\ list'.known = list.known /\ (list'.cancelOpen => list.cancelOpen)
    <3>1. CASE Hold!Decline
      BY <1>1, <3>1 DEF Hold!Decline
    <3>2. CASE Hold!OpenFromList
      BY <1>1, <3>2 DEF Hold!OpenFromList
    <3>3. CASE Hold!PickImage
      BY <1>1, <3>3 DEF Hold!PickImage
    <3>4. CASE Hold!DropImage
      BY <1>1, <3>4 DEF Hold!DropImage
    <3>5. CASE Hold!BackToPay
      BY <1>1, <3>5 DEF Hold!BackToPay
    <3>6. CASE Hold!KeepBooking
      BY <1>1, <3>6 DEF Hold!KeepBooking
    <3>7. QED
      BY <1>2, <3>1, <3>2, <3>3, <3>4, <3>5, <3>6
  <2> HIDE DEF HoldScreens, SlotStatuses
  <2>3. QED
    BY <2>1, <2>2, HoldShows
<1>3. CASE Hold!AskCancel
  <2>1. /\ rows' = rows /\ work' = work /\ list' = [list EXCEPT !.cancelOpen = TRUE] /\ list.known # "none"
    BY <1>3 DEF Hold!AskCancel, Hold!CanCancel
  <2>2. /\ list' \in HoldScreens /\ list'.app = list.app /\ list'.started = list.started /\ list'.wrote = list.wrote
        /\ list'.known = list.known
    BY <1>1, <2>1
  <2> HIDE DEF HoldScreens, SlotStatuses
  <2>3. QED
    BY <2>1, <2>2, HoldShows
<1>4. CASE Hold!Confirm
  <2> DEFINE d == [kind |-> "hold", at |-> "sent", seen |-> "none"]
  <2>1. rows' = rows /\ work' = work \cup {d} /\ list' = [list EXCEPT !.taps = list.taps + 1]
    BY <1>4 DEF Hold!Confirm, Hold!Call
  <2>2. d \in HoldCalls /\ d.kind = "hold" /\ d.at = "sent" /\ d.seen = "none"
    BY DEF HoldCalls
  <2>3. /\ list' \in HoldScreens /\ list'.app = list.app /\ list'.started = list.started /\ list'.wrote = list.wrote
        /\ list'.known = list.known /\ list'.cancelOpen = list.cancelOpen
    BY <1>1, <2>1
  <2> HIDE DEF HoldScreens, SlotStatuses, d
  <2>4. QED
    BY <2>1, <2>2, <2>3, HoldShows
<1>5. CASE Hold!SubmitProof
  <2> DEFINE d == [kind |-> IF Hold!ChecksFirst THEN "check" ELSE "proof", at |-> "sent", seen |-> "none"]
  <2>1. rows' = rows /\ work' = work \cup {d} /\ list' = [list EXCEPT !.uploads = list.uploads + 1, !.retryable = FALSE]
    BY <1>5 DEF Hold!SubmitProof, Hold!Call
  <2>2. d \in HoldCalls /\ d.kind \in {"check", "proof"} /\ d.at = "sent" /\ d.seen = "none"
    BY DEF HoldCalls
  <2>3. /\ list' \in HoldScreens /\ list'.app = list.app /\ list'.started = list.started /\ list'.wrote = list.wrote
        /\ list'.known = list.known /\ list'.cancelOpen = list.cancelOpen
    BY <1>1, <2>1
  <2> HIDE DEF HoldScreens, SlotStatuses, d
  <2>4. QED
    BY <2>1, <2>2, <2>3, HoldShows
<1>6. CASE Hold!Poll
  <2> DEFINE d == [kind |-> "get", at |-> "sent", seen |-> "none"]
  <2>1. rows' = rows /\ work' = work \cup {d} /\ list' = list
    BY <1>6 DEF Hold!Poll, Hold!Call
  <2>2. d \in HoldCalls /\ d.kind = "get" /\ d.at = "sent" /\ d.seen = "none"
    BY DEF HoldCalls
  <2> HIDE DEF HoldScreens, SlotStatuses, d
  <2>3. QED
    BY <1>1, <2>1, <2>2, HoldShows
<1>7. CASE Hold!DoCancel
  <2> DEFINE d == [kind |-> "cancel", at |-> "sent", seen |-> "none"]
  <2>1. rows' = rows /\ work' = work \cup {d} /\ list' = list /\ list.cancelOpen
    BY <1>7 DEF Hold!DoCancel, Hold!Call
  <2>2. d \in HoldCalls /\ d.kind = "cancel" /\ d.at = "sent" /\ d.seen = "none"
    BY DEF HoldCalls
  <2> HIDE DEF HoldScreens, SlotStatuses, d
  <2>3. QED
    BY <1>1, <2>1, <2>2, HoldShows
<1>8. QED
  BY <1>2, <1>3, <1>4, <1>5, <1>6, <1>7

\* What the screens do with an answer.
LEMMA HoldHears ==
    ASSUME HoldInv, NEW c \in work,
           \/ Hold!ShowReply(c) \/ Hold!ShowHold(c) \/ Hold!Recheck(c) \/ Hold!ShowProof(c)
           \/ Hold!ShowBooking(c) \/ Hold!ShowCancel(c)
    PROVE  HoldInv'
<1> DEFINE Heeded ==
        /\ list' \in HoldScreens /\ list'.app = list.app /\ list'.started = list.started /\ list'.wrote = list.wrote
        /\ list'.known = list.known \/ list'.known = c.seen
        /\ list'.cancelOpen => list.cancelOpen
<1>1. list \in HoldScreens /\ c \in HoldCalls /\ rows' = rows
  BY DEF HoldInv, HoldTypes, Hold!ShowReply, Hold!ShowHold, Hold!Recheck, Hold!ShowProof, Hold!ShowBooking, Hold!ShowCancel
<1>2. c.at = "answered" =>
        /\ c.kind \in {"get", "check"} => c.seen \in SlotStatuses
        /\ c.kind = "proof" => c.seen \in SlotStatuses \cup {"refused"}
  BY DEF HoldInv, AnswersSay
<1>3. CASE Hold!ShowReply(c)
  <2>1. PICK button \in BOOLEAN :
          list' = [list EXCEPT !.offer = list.offer \/ (c.at = "answered" /\ button),
                               !.asking = c.at = "answered" /\ button,
                               !.boot = list.boot \/ (c.at = "failed" /\ list.wrote = 0)]
    BY <1>3 DEF Hold!ShowReply
  <2>2. PICK offer \in BOOLEAN, asking \in BOOLEAN, boot \in BOOLEAN :
          list' = [list EXCEPT !.offer = offer, !.asking = asking, !.boot = boot]
    BY <2>1, Zenon
  <2>3. Heeded
    BY <1>1, <2>2, ZenonT(30) DEF HoldScreens
  <2>4. work' \subseteq work
    BY <1>3 DEF Hold!ShowReply
  <2>5. QED
    BY <1>1, <2>3, <2>4, HoldShows
<1>4. CASE Hold!ShowHold(c)
  <2>1. Heeded
    BY <1>1, <1>4 DEF Hold!ShowHold, HoldScreens, SlotStatuses
  <2>2. work' \subseteq work
    BY <1>4 DEF Hold!ShowHold
  <2>3. QED
    BY <1>1, <2>1, <2>2, HoldShows
<1>5. CASE Hold!Recheck(c)
  <2> DEFINE d == [kind |-> "proof", at |-> "sent", seen |-> "none"]
  <2>1. d \in HoldCalls /\ d.kind = "proof" /\ d.at = "sent" /\ d.seen = "none"
    BY DEF HoldCalls, SlotStatuses
  <2>2. work' \subseteq work \cup {d}
    BY <1>5 DEF Hold!Recheck, Hold!Call
  <2>3. Heeded
    <3>1. c.at # "answered" => list' = [list EXCEPT !.retryable = Hold!NoAnswer(c)] /\ Hold!NoAnswer(c) \in BOOLEAN
      BY <1>5 DEF Hold!Recheck, Hold!NoAnswer
    <3>2. c.at = "answered" => list' = [list EXCEPT !.known = c.seen] /\ c.seen \in SlotStatuses
      BY <1>2, <1>5 DEF Hold!Recheck
    <3>3. QED
      BY <1>1, <3>1, <3>2 DEF HoldScreens
  <2> HIDE DEF d
  <2>4. QED
    BY <1>1, <2>1, <2>2, <2>3, HoldShows
<1>6. CASE Hold!ShowProof(c)
  <2>1. c.kind = "proof" /\ work' \subseteq work
    BY <1>6 DEF Hold!ShowProof
  <2>2. CASE c.at = "answered" /\ c.seen # "refused"
    <3>1. list' = [list EXCEPT !.known = c.seen, !.retryable = FALSE, !.at = IF list.app = "mobile" THEN "done" ELSE list.at]
      BY <1>6, <2>2 DEF Hold!ShowProof
    <3>2. c.seen \in SlotStatuses
      BY <1>2, <2>1, <2>2
    <3>3. Heeded
      BY <1>1, <3>1, <3>2 DEF HoldScreens
    <3>4. QED
      BY <1>1, <2>1, <3>3, HoldShows
  <2>3. CASE ~(c.at = "answered" /\ c.seen # "refused")
    <3>1. list' = [list EXCEPT !.retryable = list.app = "mobile" /\ Hold!NoAnswer(c)]
      BY <1>6, <2>3 DEF Hold!ShowProof
    <3>2. PICK retryable \in BOOLEAN : list' = [list EXCEPT !.retryable = retryable]
      BY <3>1, Zenon
    <3>3. Heeded
      BY <1>1, <3>2 DEF HoldScreens
    <3>4. QED
      BY <1>1, <2>1, <3>3, HoldShows
  <2>4. QED
    BY <2>2, <2>3
<1>7. CASE Hold!ShowBooking(c)
  <2>1. c.kind = "get" /\ c.at \in {"answered", "failed"} /\ work' \subseteq work
    BY <1>7 DEF Hold!ShowBooking
  <2>2. Heeded
    BY <1>1, <1>2, <1>7, <2>1 DEF Hold!ShowBooking, HoldScreens
  <2>3. QED
    BY <1>1, <2>1, <2>2, HoldShows
<1>8. CASE Hold!ShowCancel(c)
  <2>1. Heeded
    BY <1>1, <1>8 DEF Hold!ShowCancel, HoldScreens, SlotStatuses
  <2>2. work' \subseteq work
    BY <1>8 DEF Hold!ShowCancel
  <2>3. QED
    BY <1>1, <2>1, <2>2, HoldShows
<1>9. QED
  BY <1>3, <1>4, <1>5, <1>6, <1>7, <1>8

\* The server's side of each request.
LEMMA HoldAnswers ==
    ASSUME HoldInv, NEW c \in work, Hold!Serve(c) \/ Hold!LoseAnswer(c) \/ Hold!TimeOut(c)
    PROVE  HoldInv'
<1>1. /\ list \in HoldScreens /\ rows \in HoldRows /\ c \in HoldCalls
      /\ rows.asked + 1 \in Nat /\ rows.holds + 1 \in Nat /\ rows.proofs + 1 \in Nat
      /\ rows.holds \in Nat /\ rows.proofs \in Nat
  BY DEF HoldInv, HoldTypes, HoldRows
<1>2. ProofKept /\ (rows.status = "none" <=> rows.holds = 0)
  BY DEF HoldInv, NothingHeld
<1>3. CASE Hold!LoseAnswer(c)
  <2>0. PICK how \in {"failed", "errored"} : Hold!Answer(c, how, c.seen)
    BY <1>3 DEF Hold!LoseAnswer
  <2> DEFINE d == [c EXCEPT !.at = how, !.seen = c.seen]
  <2>1. list' = list /\ rows' = rows /\ work' = (work \ {c}) \cup {d}
    BY <1>3, <2>0 DEF Hold!LoseAnswer, Hold!Answer
  <2>2. d \in HoldCalls /\ d.kind = c.kind /\ d.at \in {"failed", "errored"} /\ d.seen = c.seen
    BY <1>1 DEF HoldCalls
  <2> HIDE DEF d
  <2>3. ProofKept'
    BY <1>2, <2>1 DEF ProofKept
  <2>4. QED
    BY <1>1, <1>2, <2>1, <2>2, <2>3, HoldServes
<1>4. CASE Hold!TimeOut(c)
  <2> DEFINE d == [c EXCEPT !.at = "abandoned"]
  <2>1. /\ rows' = rows /\ work' = (work \ {c}) \cup {d} /\ c.kind = "proof"
        /\ list' = [list EXCEPT !.retryable = list.app = "mobile"]
    BY <1>4 DEF Hold!TimeOut
  <2>2. d \in HoldCalls /\ d.kind = c.kind /\ d.at = "abandoned" /\ d.seen = c.seen
    BY <1>1 DEF HoldCalls
  <2> HIDE DEF d
  <2>3. /\ list' \in HoldScreens /\ list'.app = list.app /\ list'.started = list.started /\ list'.wrote = list.wrote
        /\ list'.known = list.known /\ list'.cancelOpen = list.cancelOpen
    BY <1>1, <2>1 DEF HoldScreens
  <2>4. ProofKept'
    BY <1>2, <2>1 DEF ProofKept
  <2>5. QED
    BY <1>1, <1>2, <2>1, <2>2, <2>3, <2>4, HoldServes
<1>5. CASE Hold!Serve(c)
  <2>1. list' = list /\ (c.at = "sent" \/ (c.kind = "proof" /\ c.at = "abandoned"))
    BY <1>5 DEF Hold!Serve
  <2>2. CASE Hold!Ask(c)
    <3> DEFINE d == [c EXCEPT !.at = "answered", !.seen = "none"]
    <3>1. c.kind = "ask" /\ rows' = [rows EXCEPT !.asked = rows.asked + 1] /\ work' = (work \ {c}) \cup {d}
      BY <2>2 DEF Hold!Ask, Hold!Answer
    <3>2. d \in HoldCalls /\ d.kind = c.kind /\ d.at = "answered" /\ d.seen = "none"
      BY <1>1 DEF HoldCalls, SlotStatuses
    <3> HIDE DEF d
    <3>3. /\ rows' \in HoldRows /\ rows'.status = rows.status /\ rows'.holds = rows.holds
          /\ rows'.proofs = rows.proofs /\ rows'.asked = rows.asked + 1
      BY <1>1, <3>1 DEF HoldRows
    <3>4. ProofKept'
      BY <1>2, <3>3 DEF ProofKept
    <3>5. QED
      BY <1>1, <1>2, <2>1, <3>1, <3>2, <3>3, <3>4, HoldServes
  <2>3. CASE Hold!Hold(c)
    <3>1. c.kind = "hold"
      BY <2>3 DEF Hold!Hold
    <3>2. CASE rows.status \in {"none", "cancelled"} /\ ~rows.over
      <4> DEFINE d == [c EXCEPT !.at = "answered", !.seen = "held"]
      <4>1. rows' = [rows EXCEPT !.status = "held", !.holds = rows.holds + 1] /\ work' = (work \ {c}) \cup {d}
        BY <2>3, <3>2 DEF Hold!Hold, Hold!Answer
      <4>2. d \in HoldCalls /\ d.kind = c.kind /\ d.at = "answered" /\ d.seen = "held"
        BY <1>1 DEF HoldCalls, SlotStatuses
      <4> HIDE DEF d
      <4>3. /\ rows' \in HoldRows /\ rows'.status = "held" /\ rows'.holds = rows.holds + 1
            /\ rows'.proofs = rows.proofs /\ rows'.asked = rows.asked
        BY <1>1, <4>1 DEF HoldRows, SlotStatuses
      <4>4. ProofKept' /\ rows'.holds # 0
        BY <1>1, <1>2, <4>3 DEF ProofKept
      <4>5. QED
        BY <1>1, <1>2, <2>1, <3>1, <4>1, <4>2, <4>3, <4>4, HoldServes
    <3>3. CASE ~(rows.status \in {"none", "cancelled"} /\ ~rows.over)
      <4> DEFINE d == [c EXCEPT !.at = "answered", !.seen = "taken"]
      <4>1. rows' = rows /\ work' = (work \ {c}) \cup {d}
        BY <2>3, <3>3 DEF Hold!Hold, Hold!Answer
      <4>2. d \in HoldCalls /\ d.kind = c.kind /\ d.at = "answered" /\ d.seen = "taken" /\ d.seen \notin SlotStatuses
        BY <1>1 DEF HoldCalls, SlotStatuses
      <4> HIDE DEF d
      <4>3. ProofKept'
        BY <1>2, <4>1 DEF ProofKept
      <4>4. QED
        BY <1>1, <1>2, <2>1, <3>1, <4>1, <4>2, <4>3, HoldServes
    <3>4. QED
      BY <3>2, <3>3
  <2>4. CASE Hold!Get(c)
    <3> DEFINE d == [c EXCEPT !.at = "answered", !.seen = rows.status]
    <3>1. c.kind \in {"get", "check"} /\ rows' = rows /\ work' = (work \ {c}) \cup {d}
      BY <2>4 DEF Hold!Get, Hold!Answer
    <3>2. /\ d \in HoldCalls /\ d.kind = c.kind /\ d.at = "answered" /\ d.seen = rows.status /\ d.seen \in SlotStatuses
      BY <1>1 DEF HoldCalls, HoldRows, SlotStatuses
    <3> HIDE DEF d
    <3>3. ProofKept'
      BY <1>2, <3>1 DEF ProofKept
    <3>4. QED
      BY <1>1, <1>2, <2>1, <3>1, <3>2, <3>3, HoldServes
  <2>5. CASE Hold!Proof(c)
    <3>1. c.kind = "proof"
      BY <2>5 DEF Hold!Proof
    <3>2. CASE rows.status = "held" /\ ~rows.over
      <4>1. PICK status \in {"payment_submitted", "booked"} :
              /\ rows' = [rows EXCEPT !.status = status, !.proofs = rows.proofs + 1]
              /\ IF c.at = "sent" THEN Hold!Answer(c, "answered", status) ELSE work' = work \ {c}
        BY <2>5, <3>2 DEF Hold!Proof
      <4> DEFINE d == [c EXCEPT !.at = "answered", !.seen = status]
      <4>2. work' \subseteq (work \ {c}) \cup {d}
        BY <4>1 DEF Hold!Answer
      <4>3. /\ d \in HoldCalls /\ d.kind = c.kind /\ d.at = "answered" /\ d.seen = status /\ d.seen \in SlotStatuses
            /\ d.seen # "cancelled"
        BY <1>1, <4>1 DEF HoldCalls, SlotStatuses
      <4> HIDE DEF d
      <4>4. /\ rows' \in HoldRows /\ rows'.status = status /\ rows'.holds = rows.holds
            /\ rows'.proofs = rows.proofs + 1 /\ rows'.asked = rows.asked
        BY <1>1, <4>1 DEF HoldRows, SlotStatuses
      <4>5. ProofKept' /\ rows'.holds # 0 /\ rows'.status # "none"
        BY <1>1, <1>2, <3>2, <4>1, <4>4 DEF ProofKept
      <4>6. QED
        BY <1>1, <1>2, <2>1, <3>1, <3>2, <4>2, <4>3, <4>4, <4>5, HoldServes
    <3>3. CASE ~(rows.status = "held" /\ ~rows.over)
      <4> DEFINE d == [c EXCEPT !.at = "answered", !.seen = "refused"]
      <4>1. rows' = rows /\ work' \subseteq (work \ {c}) \cup {d}
        BY <2>5, <3>3 DEF Hold!Proof, Hold!Answer
      <4>2. d \in HoldCalls /\ d.kind = c.kind /\ d.at = "answered" /\ d.seen = "refused" /\ d.seen \notin SlotStatuses
        BY <1>1 DEF HoldCalls, SlotStatuses
      <4> HIDE DEF d
      <4>3. ProofKept'
        BY <1>2, <4>1 DEF ProofKept
      <4>4. QED
        BY <1>1, <1>2, <2>1, <3>1, <4>1, <4>2, <4>3, HoldServes
    <3>4. QED
      BY <3>2, <3>3
  <2>6. CASE Hold!Cancel(c)
    <3> DEFINE d == [c EXCEPT !.at = "answered", !.seen = "cancelled"]
    <3>1. c.kind = "cancel" /\ rows' = [rows EXCEPT !.status = "cancelled"] /\ work' = (work \ {c}) \cup {d}
      BY <2>6 DEF Hold!Cancel, Hold!Answer
    <3>2. d \in HoldCalls /\ d.kind = c.kind /\ d.at = "answered" /\ d.seen = "cancelled"
      BY <1>1 DEF HoldCalls, SlotStatuses
    <3> HIDE DEF d
    <3>3. rows.holds # 0
      BY <3>1 DEF HoldInv, NothingHeld
    <3>4. /\ rows' \in HoldRows /\ rows'.status = "cancelled" /\ rows'.holds = rows.holds
          /\ rows'.proofs = rows.proofs /\ rows'.asked = rows.asked
      BY <1>1, <3>1 DEF HoldRows, SlotStatuses
    <3>5. ProofKept'
      BY <1>2, <3>4 DEF ProofKept
    <3>6. QED
      BY <1>1, <1>2, <2>1, <3>1, <3>2, <3>3, <3>4, <3>5, HoldServes
  <2>7. QED
    BY <1>5, <2>2, <2>3, <2>4, <2>5, <2>6 DEF Hold!Serve
<1>6. QED
  BY <1>3, <1>4, <1>5

\* The hold runs out, and the owner or the job decides.
LEMMA HoldEnds ==
    ASSUME HoldInv, Hold!RunOut \/ Hold!Review
    PROVE  HoldInv'
<1>1. list \in HoldScreens /\ rows \in HoldRows /\ ProofKept /\ (rows.status = "none" <=> rows.holds = 0)
  BY DEF HoldInv, HoldTypes, NothingHeld
<1>2. list' = list /\ work' = work
  BY DEF Hold!RunOut, Hold!Review
<1>3. /\ rows' \in HoldRows /\ rows'.holds = rows.holds /\ rows'.proofs = rows.proofs /\ rows'.asked = rows.asked
      /\ rows.status \in {"held", "payment_submitted"} /\ rows'.status # "none"
      /\ rows'.status = "held" => rows.status = "held"
  <2>1. CASE Hold!RunOut
    BY <1>1, <2>1 DEF Hold!RunOut, HoldRows
  <2>2. CASE Hold!Review
    BY <1>1, <2>2 DEF Hold!Review, HoldRows, SlotStatuses
  <2>3. QED
    BY <2>1, <2>2
<1>4. ProofKept'
  BY <1>1, <1>3 DEF ProofKept
<1>5. QED
  BY <1>1, <1>2, <1>3, <1>4, HoldServes

LEMMA HoldStep ==
    ASSUME HoldInv, [Hold!Next]_(Hold!vars)
    PROVE  HoldInv'
<1>1. CASE UNCHANGED <<list, rows, work>>
  BY <1>1 DEF HoldInv, HoldTypes, OneAsk, NothingHeld, SeenGone, AnswersSay, ProofKept
<1>2. CASE \E c \in work : Hold!ShowReply(c) \/ Hold!ShowHold(c) \/ Hold!Recheck(c) \/ Hold!ShowProof(c)
                           \/ Hold!ShowBooking(c) \/ Hold!ShowCancel(c)
  BY <1>2, HoldHears
<1>3. CASE \E c \in work : Hold!Serve(c) \/ Hold!LoseAnswer(c) \/ Hold!TimeOut(c)
  BY <1>3, HoldAnswers
<1>4. QED
  BY <1>1, <1>2, <1>3, HoldAsks, HoldTaps, HoldEnds DEF Hold!Next, Hold!vars

\* Every question is asked once, a cancelled hold stays cancelled, and a hold gets one proof.
LEMMA HoldIsFaithful == HoldInv => Hold!Faithful
<1> SUFFICES ASSUME HoldInv
             PROVE  Hold!Faithful
  OBVIOUS
<1>1. Hold!OneQuestionEach
  BY DEF HoldInv, OneAsk, Hold!OneQuestionEach
<1>2. Hold!CancelledIsFinal
  BY DEF HoldInv, SeenGone, Hold!CancelledIsFinal
<1>3. Hold!OneProofPerHold
  BY DEF HoldInv, ProofKept, Hold!OneProofPerHold
<1>4. QED
  BY <1>1, <1>2, <1>3 DEF Hold!Faithful

=============================================================================
