--------------------------- MODULE WaitlistProofs ---------------------------
(***************************************************************************)
(* Proofs about the waitlist, for any number of players, slots, bookings   *)
(* and waves.  The constants' assumption is a hypothesis of the lemmas, so *)
(* that a module that instantiates this one can meet it with its own.      *)
(*                                                                         *)
(* Faithful is about entries and what they have seen; that it is kept      *)
(* rests on the waves between their read and their write.  An entry is     *)
(* numbered when it is made, so a wave that chose an entry tells that one  *)
(* or nobody (Numbered); what a wave has chosen it has chosen while it was *)
(* free and untold (FreedFirst, ToldByOne); an entry of a freed slot is in *)
(* reach of a wave that has not ended (Remembered); and whom the cron job  *)
(* has on its list was told, however old the list (GivenUp).               *)
(***************************************************************************)
EXTENDS Waitlist, TLAPS

-----------------------------------------------------------------------------
(* The waitlist: its invariant                                             *)

\* The half hours of a court are numbered from one.
WaitAssumption == Slots \subseteq Nat \ {0}

\* An entry and its number; an entry that a wave has chosen and that is still the one it chose.
Entries == Players \X Slots
Tickets == Entries \X Nat
Known(e, w) == list[e].active /\ Ticket(e) \in work.wave[w].chosen

RowTypes ==
    rows \in [Bookings -> [status : {"none", "held", "lapsed", "booked", "dead"}, player : Players \cup {"none"},
                           from : Slots \cup {0}, to : Slots \cup {0}]]
ListTypes ==
    list \in [Entries -> [id : Nat, active : BOOLEAN, notified : {"no", "just now", "a while ago"}, told : Nat,
                          taken : BOOLEAN, free : BOOLEAN]]
JoinTypes == work.join \in [Players -> Slots \cup {0}]
WaveTypes ==
    work.wave \in [Runs -> [stage : {"idle", "due", "sending"}, from : Slots \cup {0}, to : Slots \cup {0},
                             chosen : SUBSET Tickets]]
NoteTypes == note.joins \in Nat /\ note = [joins |-> note.joins, trouble |-> note.trouble, odd |-> note.odd, late |-> note.late]
WorkShape == work = [join |-> work.join, wave |-> work.wave, job |-> work.job]
JobTypes == work.job \in [left : SUBSET Tickets, closes : SUBSET Tickets]
WaitTypes == RowTypes /\ ListTypes /\ JoinTypes /\ WaveTypes /\ JobTypes /\ NoteTypes /\ WorkShape

\* A live row is somebody's, and of some slots.
LiveRows == \A b \in Bookings : rows[b].status \in {"held", "lapsed", "booked"} =>
                                    rows[b].player \in Players /\ rows[b].from \in Slots /\ rows[b].to \in Slots
\* The entries are numbered as they come, so what a wave has chosen is never a later entry.
Numbered ==
    /\ \A e \in Entries : list[e].id <= note.joins /\ (work.join[e[1]] # 0 => list[e].id < note.joins)
    /\ \A w \in Runs, e \in Entries, n \in Nat :
         <<e, n>> \in work.wave[w].chosen => n <= note.joins /\ (work.join[e[1]] # 0 => n < note.joins)
\* A wave has chosen nobody before it looks.
WavesChoose == \A w \in Runs : work.wave[w].stage # "sending" => work.wave[w].chosen = {}
\* Who waits for a slot that nobody claims has seen it free.
SeenFree == \A e \in Entries : list[e].active /\ e[2] \notin Claimed(rows) => list[e].free
\* Who was told, or is about to be, has seen the slot free.
FreedFirst ==
    \A e \in Entries : e[2] \notin note.late =>
        /\ list[e].notified # "no" => list[e].free
        /\ \A w \in Runs : Known(e, w) => list[e].free
\* One wave at a time tells an entry, each entry once, and nobody it is about to tell was told.
ToldByOne ==
    /\ \A e \in Entries : list[e].notified = "no" => list[e].told = 0
    /\ "waves crossed" \notin note.odd =>
        /\ \A v, w \in Runs : work.wave[v].chosen \cap work.wave[w].chosen # {} => v = w
        /\ \A e \in Entries : /\ list[e].told <= 1
                              /\ \A w \in Runs : Known(e, w) => list[e].notified = "no"
\* Nobody waits, or is about to wait, for the slot their own booking starts with.
OwnSlot ==
    "crossed" \notin note.odd =>
        \A b \in Bookings : LiveClaim(rows[b]) =>
            /\ ~list[<<rows[b].player, rows[b].from>>].active
            /\ work.join[rows[b].player] # rows[b].from
\* The wave that will tell an entry has not looked yet, or has chosen it.
Reaches(w, e) ==
    /\ work.wave[w].from <= e[2] /\ e[2] <= work.wave[w].to
    /\ \/ work.wave[w].stage = "due"
       \/ work.wave[w].stage = "sending" /\ Ticket(e) \in work.wave[w].chosen
\* Who waits for a slot that was taken waits on a booking that is not over, or on a wave.
Remembered ==
    note.odd \cap {"died", "released"} = {} =>
        \A e \in Entries : Waiting(e) /\ list[e].taken => Undead(e[2]) \/ \E w \in Runs : Reaches(w, e)

\* Whom the job has on its list was told, or is gone; it is never an entry that comes later.
Given == work.job.left \cup work.job.closes
GivenUp ==
    /\ \A e \in Entries, n \in Nat : <<e, n>> \in Given => n <= note.joins /\ (work.join[e[1]] # 0 => n < note.joins)
    /\ \A e \in Entries : list[e].active /\ Ticket(e) \in Given => list[e].notified # "no"

WaitInv == /\ WaitTypes /\ LiveRows /\ Numbered /\ WavesChoose /\ SeenFree /\ FreedFirst /\ ToldByOne /\ OwnSlot /\ Remembered
           /\ GivenUp

LEMMA WaitInit == Init => WaitInv
<1> SUFFICES ASSUME Init
             PROVE  WaitInv
  OBVIOUS
<1> USE DEF Init, NoRow, NoEntry, Idle, Entries, Tickets
<1>1. RowTypes /\ JoinTypes /\ WaveTypes /\ JobTypes /\ NoteTypes /\ WorkShape
  BY DEF NoJob, JobTypes, RowTypes, JoinTypes, WaveTypes, NoteTypes, WorkShape
<1>2. ListTypes
  BY DEF ListTypes
<1>3. LiveRows
  BY DEF LiveRows
<1>4. Numbered
  BY DEF Numbered
<1>5. WavesChoose
  BY DEF WavesChoose
<1>6. SeenFree
  BY DEF SeenFree
<1>7. FreedFirst
  BY DEF FreedFirst, Known
<1>8. ToldByOne
  BY DEF ToldByOne, Known
<1>9. OwnSlot
  BY DEF OwnSlot, LiveClaim
<1>10. Remembered
  BY DEF Remembered, Waiting
<1>11. GivenUp
  BY DEF GivenUp, Given, NoJob
<1>12. QED
  BY <1>1, <1>2, <1>3, <1>4, <1>5, <1>6, <1>7, <1>8, <1>9, <1>10, <1>11 DEF WaitInv, WaitTypes

\* What most steps do to an entry: they close it, or let it see its slot free, or leave it.
Tame(e) ==
    \/ ~list'[e].active /\ list'[e].notified = "no" /\ list'[e].told = 0 /\ list'[e].id = 0
    \/ /\ list'[e].id = list[e].id /\ list'[e].active = list[e].active /\ list'[e].notified = list[e].notified
       /\ list'[e].told = list[e].told /\ list'[e].taken = list[e].taken /\ (list[e].free => list'[e].free)

\* A step that only does this to the entries, and lets the waves choose no more, tells nobody.
LEMMA TameKeeps ==
    ASSUME WaitInv, \A e \in Entries : Tame(e),
           \A w \in Runs : work'.wave[w].chosen \subseteq work.wave[w].chosen,
           note.odd \subseteq note'.odd, note.late \subseteq note'.late
    PROVE  FreedFirst' /\ ToldByOne'
<1>1. \A e \in Entries, w \in Runs : Known(e, w)' => Known(e, w) /\ list'[e].notified = list[e].notified
                                                        /\ (list[e].free => list'[e].free)
  BY DEF Tame, Known, Ticket
<1>2. FreedFirst'
  BY <1>1 DEF WaitInv, FreedFirst, Tame
<1>3. ToldByOne'
  <2>1. \A e \in Entries : list'[e].notified = "no" => list'[e].told = 0
    <3>1. \A e \in Entries : list[e].notified = "no" => list[e].told = 0
      BY DEF WaitInv, ToldByOne
    <3>2. QED
      BY <3>1 DEF Tame
  <2>2. ASSUME "waves crossed" \notin note'.odd
        PROVE  /\ \A v, w \in Runs : work'.wave[v].chosen \cap work'.wave[w].chosen # {} => v = w
               /\ \A e \in Entries : /\ list'[e].told <= 1
                                     /\ \A w \in Runs : Known(e, w)' => list'[e].notified = "no"
    <3>1. /\ \A v, w \in Runs : work.wave[v].chosen \cap work.wave[w].chosen # {} => v = w
          /\ \A e \in Entries : /\ list[e].told <= 1
                                /\ \A w \in Runs : Known(e, w) => list[e].notified = "no"
      BY <2>2 DEF WaitInv, ToldByOne
    <3>2. \A e \in Entries : list'[e].told <= 1
      BY <3>1 DEF Tame
    <3>3. QED
      BY <1>1, <3>1, <3>2
  <2>3. QED
    BY <2>1, <2>2 DEF ToldByOne
<1>4. QED
  BY <1>2, <1>3

\* Nor does it make an entry newer than the newest.
LEMMA NumbersKeep ==
    ASSUME WaitInv, \A e \in Entries : Tame(e) /\ list'[e].id \in Nat,
           \A w \in Runs : work'.wave[w].chosen \subseteq work.wave[w].chosen,
           \A p \in Players : work'.join[p] # 0 => work.join[p] # 0,
           note'.joins = note.joins
    PROVE  Numbered'
<1>1. \A e \in Entries : e[1] \in Players
  BY DEF Entries
<1>2. \A e \in Entries : list'[e].id <= note'.joins /\ (work'.join[e[1]] # 0 => list'[e].id < note'.joins)
  <2> SUFFICES ASSUME NEW e \in Entries
               PROVE  list'[e].id <= note'.joins /\ (work'.join[e[1]] # 0 => list'[e].id < note'.joins)
    OBVIOUS
  <2>1. /\ list[e].id <= note.joins /\ (work.join[e[1]] # 0 => list[e].id < note.joins)
        /\ list[e].id \in Nat /\ note.joins \in Nat
    BY DEF WaitInv, Numbered, WaitTypes, ListTypes, NoteTypes
  <2>2. list'[e].id = 0 \/ list'[e].id = list[e].id
    BY DEF Tame
  <2>3. work'.join[e[1]] # 0 => work.join[e[1]] # 0
    BY <1>1
  <2>4. QED
    BY <2>1, <2>2, <2>3
<1>3. ASSUME NEW w \in Runs, NEW e \in Entries, NEW n \in Nat, <<e, n>> \in work'.wave[w].chosen
      PROVE  n <= note'.joins /\ (work'.join[e[1]] # 0 => n < note'.joins)
  BY <1>1, <1>3 DEF WaitInv, Numbered
<1>4. QED
  BY <1>2, <1>3 DEF Numbered

\* And the job's list, if it gets no longer, is as good as it was.
LEMMA GivenKeep ==
    ASSUME WaitInv, \A e \in Entries : Tame(e),
           Given' \subseteq Given, \A p \in Players : work'.join[p] # 0 => work.join[p] # 0,
           note'.joins = note.joins
    PROVE  GivenUp'
<1>1. \A e \in Entries : e[1] \in Players
  BY DEF Entries
<1>2. ASSUME NEW e \in Entries, NEW n \in Nat, <<e, n>> \in Given'
      PROVE  n <= note'.joins /\ (work'.join[e[1]] # 0 => n < note'.joins)
  BY <1>1, <1>2 DEF WaitInv, GivenUp
<1>3. ASSUME NEW e \in Entries, list'[e].active, Ticket(e)' \in Given'
      PROVE  list'[e].notified # "no"
  BY <1>3 DEF WaitInv, GivenUp, Tame, Ticket
<1>4. QED
  BY <1>2, <1>3 DEF GivenUp

-----------------------------------------------------------------------------
(* The waitlist: one lemma per action                                      *)

EntryType == [id : Nat, active : BOOLEAN, notified : {"no", "just now", "a while ago"}, told : Nat,
              taken : BOOLEAN, free : BOOLEAN]

\* An entry that sees its slot let go is otherwise the same.
LEMMA SeenEntry ==
    ASSUME NEW old \in [Entries -> EntryType], NEW court, NEW e \in Entries
    PROVE  LET new == Seen(old, court) IN
           /\ new \in [Entries -> EntryType]
           /\ new[e].id = old[e].id /\ new[e].active = old[e].active /\ new[e].notified = old[e].notified
           /\ new[e].told = old[e].told /\ new[e].taken = old[e].taken /\ (old[e].free => new[e].free)
           /\ old[e].active /\ e[2] \notin Claimed(court) => new[e].free
<1> DEFINE new == Seen(old, court)
<1>1. new = [x \in Entries |-> [old[x] EXCEPT !.free = old[x].free \/ (old[x].active /\ x[2] \notin Claimed(court))]]
  BY DEF Seen
<1> HIDE DEF new
<1>2. ASSUME NEW x \in Entries
      PROVE  /\ new[x] \in EntryType
             /\ new[x].id = old[x].id /\ new[x].active = old[x].active /\ new[x].notified = old[x].notified
             /\ new[x].told = old[x].told /\ new[x].taken = old[x].taken
             /\ new[x].free = (old[x].free \/ (old[x].active /\ x[2] \notin Claimed(court)))
  <2> DEFINE gone == old[x].free \/ (old[x].active /\ x[2] \notin Claimed(court))
  <2>1. new[x] = [old[x] EXCEPT !.free = gone] /\ old[x] \in EntryType /\ gone \in BOOLEAN
    BY <1>1 DEF EntryType
  <2> HIDE DEF gone
  <2>2. /\ new[x] \in EntryType
        /\ new[x].id = old[x].id /\ new[x].active = old[x].active /\ new[x].notified = old[x].notified
        /\ new[x].told = old[x].told /\ new[x].taken = old[x].taken /\ new[x].free = gone
    BY ONLY <2>1 DEF EntryType
  <2>3. QED
    BY <2>2 DEF gone
<1>3. new \in [Entries -> EntryType]
  BY <1>1, <1>2
<1>4. QED
  BY <1>2, <1>3 DEF new

\* What is left of an entry that was closed.
LEMMA Closed == NoEntry \in EntryType /\ ~NoEntry.active /\ NoEntry.notified = "no" /\ NoEntry.told = 0 /\ NoEntry.id = 0
  BY DEF NoEntry, EntryType

\* A booking's row dies, lapses or is confirmed: the entries see it.
LEMMA CourtMoves ==
    ASSUME WaitInv, list' = Seen(list, rows')
    PROVE  ListTypes' /\ SeenFree' /\ \A e \in Entries : Tame(e) /\ list'[e].id \in Nat /\ list'[e].active = list[e].active
                                          /\ (Waiting(e)' => Waiting(e)) /\ list'[e].taken = list[e].taken
                                          /\ Ticket(e)' = Ticket(e)
<1>1. list \in [Entries -> EntryType]
  BY DEF WaitInv, WaitTypes, ListTypes, EntryType
<1>2. list' \in [Entries -> EntryType] \/ Entries = {}
  BY <1>1, SeenEntry
<1>3. \A e \in Entries :
         /\ list'[e].id = list[e].id /\ list'[e].active = list[e].active /\ list'[e].notified = list[e].notified
         /\ list'[e].told = list[e].told /\ list'[e].taken = list[e].taken /\ (list[e].free => list'[e].free)
         /\ list[e].active /\ e[2] \notin Claimed(rows') => list'[e].free
  BY <1>1, SeenEntry
<1>4. ListTypes'
  <2>1. CASE Entries = {}
    <3>1. list' = [x \in DOMAIN list |-> list'[x]] /\ DOMAIN list = {}
      BY <1>1, <2>1 DEF Seen
    <3>2. QED
      BY <2>1, <3>1 DEF ListTypes
  <2>2. QED
    BY <1>2, <2>1 DEF ListTypes, EntryType
<1>5. SeenFree'
  BY <1>3 DEF SeenFree, Claimed
<1>6. \A e \in Entries : Tame(e) /\ (Waiting(e)' => Waiting(e)) /\ Ticket(e)' = Ticket(e)
  BY <1>3 DEF Tame, Waiting, Ticket
<1>7. \A e \in Entries : list'[e].id \in Nat
  BY <1>4 DEF ListTypes
<1>8. QED
  BY <1>3, <1>4, <1>5, <1>6, <1>7

\* The bookings that the table's index counts.
Undone(row) == row.status \in {"held", "lapsed", "booked"}

\* A hold runs out, or is confirmed.
LEMMA BookingMoves ==
    ASSUME WaitInv, NEW b \in Bookings, HoldRunsOut(b) \/ Book(b)
    PROVE  WaitInv'
<1>1. /\ \E to \in {"lapsed", "booked"} : rows' = [rows EXCEPT ![b].status = to]
      /\ rows[b].status = "held" /\ UNCHANGED <<work, note>>
      /\ list' = Seen(list, rows') \/ (list' = list /\ Claimed(rows') = Claimed(rows))
  <2>1. CASE HoldRunsOut(b)
    BY <2>1 DEF HoldRunsOut
  <2>2. CASE Book(b)
    <3>1. /\ rows' = [rows EXCEPT ![b].status = "booked"] /\ rows[b].status = "held"
          /\ UNCHANGED <<list, work, note>>
      BY <2>2 DEF Book
    <3>2. \A o \in Bookings : \A s : LiveClaim(rows'[o]) /\ Covers(rows'[o], s) <=> LiveClaim(rows[o]) /\ Covers(rows[o], s)
      BY <3>1 DEF WaitInv, WaitTypes, RowTypes, LiveClaim, Covers
    <3>3. Claimed(rows') = Claimed(rows)
      BY <3>2 DEF Claimed
    <3>4. QED
      BY <3>1, <3>3
  <2>3. QED
    BY <2>1, <2>2
<1>2. PICK to \in {"lapsed", "booked"} : rows' = [rows EXCEPT ![b].status = to]
  BY <1>1
<1>3. /\ RowTypes'
      /\ \A o \in Bookings : /\ rows'[o].player = rows[o].player /\ rows'[o].from = rows[o].from /\ rows'[o].to = rows[o].to
                             /\ Undone(rows'[o]) <=> Undone(rows[o])
                             /\ LiveClaim(rows'[o]) => LiveClaim(rows[o])
  BY <1>1, <1>2 DEF WaitInv, WaitTypes, RowTypes, Undone, LiveClaim
<1>4. /\ ListTypes' /\ SeenFree'
      /\ \A e \in Entries : Tame(e) /\ list'[e].id \in Nat /\ list'[e].active = list[e].active
                              /\ (Waiting(e)' => Waiting(e)) /\ list'[e].taken = list[e].taken /\ Ticket(e)' = Ticket(e)
  <2>1. CASE list' = Seen(list, rows')
    BY <2>1, CourtMoves
  <2>2. CASE list' = list /\ Claimed(rows') = Claimed(rows)
    BY <2>2 DEF WaitInv, WaitTypes, ListTypes, SeenFree, Tame, Waiting, Ticket
  <2>3. QED
    BY <1>1, <2>1, <2>2
<1>5. WaitTypes'
  BY <1>1, <1>3, <1>4 DEF WaitInv, WaitTypes, JobTypes, JoinTypes, WaveTypes, NoteTypes, WorkShape
<1>6. LiveRows'
  BY <1>3 DEF WaitInv, LiveRows, Undone
<1>7. Numbered' /\ FreedFirst' /\ ToldByOne' /\ GivenUp'
  BY <1>1, <1>4, TameKeeps, NumbersKeep, GivenKeep DEF Given
<1>8. WavesChoose'
  BY <1>1 DEF WaitInv, WavesChoose
<1>9. OwnSlot'
  <2> SUFFICES ASSUME "crossed" \notin note.odd, NEW o \in Bookings, LiveClaim(rows'[o])
               PROVE  /\ ~list'[<<rows'[o].player, rows'[o].from>>].active
                      /\ work'.join[rows'[o].player] # rows'[o].from
    BY <1>1 DEF OwnSlot
  <2>1. LiveClaim(rows[o]) /\ rows'[o].player = rows[o].player /\ rows'[o].from = rows[o].from
    BY <1>3
  <2>2. <<rows[o].player, rows[o].from>> \in Entries
    BY <2>1 DEF WaitInv, LiveRows, LiveClaim, Entries
  <2>3. QED
    BY <1>1, <1>4, <2>1, <2>2 DEF WaitInv, OwnSlot
<1>10. Remembered'
  <2>1. \A s : Undead(s) => Undead(s)'
    BY <1>3 DEF Undead, Undone, Covers
  <2>2. \A e \in Entries, w \in Runs : Reaches(w, e) => Reaches(w, e)'
    BY <1>1, <1>4 DEF Reaches
  <2>3. QED
    BY <1>1, <1>4, <2>1, <2>2 DEF WaitInv, Remembered
<1>11. QED
  BY <1>4, <1>5, <1>6, <1>7, <1>8, <1>9, <1>10 DEF WaitInv

LEMMA DeadRow == /\ Dead = [status |-> "dead", player |-> "none", from |-> 0, to |-> 0]
                 /\ ~Undone(Dead) /\ ~LiveClaim(Dead)
  BY DEF Dead, NoRow, Undone, LiveClaim

\* A booking lets its range go, and a wave is due for all of it.
LEMMA Released ==
    ASSUME WaitInv, NEW b \in Bookings, NEW w \in Runs, Release(b, w)
    PROVE  WaitInv'
<1>1. /\ Undone(rows[b]) /\ work.wave[w] = Idle
      /\ rows' = [rows EXCEPT ![b] = Dead] /\ list' = Seen(list, rows')
      /\ work' = [work EXCEPT !.wave[w] = [stage |-> "due", from |-> rows[b].from, to |-> rows[b].to, chosen |-> {}]]
      /\ note' = note
  BY DEF Release, FreeWave, Wave, Undone
<1>2. /\ RowTypes' /\ rows'[b] = Dead
      /\ \A o \in Bookings : o # b => rows'[o] = rows[o]
  BY <1>1, DeadRow DEF WaitInv, WaitTypes, RowTypes
<1>3. /\ ListTypes' /\ SeenFree'
      /\ \A e \in Entries : Tame(e) /\ list'[e].id \in Nat /\ list'[e].active = list[e].active
                              /\ (Waiting(e)' => Waiting(e)) /\ list'[e].taken = list[e].taken /\ Ticket(e)' = Ticket(e)
  BY <1>1, CourtMoves
<1>4. /\ rows[b].from \in Slots \cup {0} /\ rows[b].to \in Slots \cup {0}
      /\ work'.join = work.join /\ work'.job = work.job
      /\ work'.wave[w] = [stage |-> "due", from |-> rows[b].from, to |-> rows[b].to, chosen |-> {}]
      /\ \A v \in Runs : v # w => work'.wave[v] = work.wave[v]
  BY <1>1 DEF WaitInv, WaitTypes, RowTypes, WaveTypes, WorkShape
<1>5. WaveTypes' /\ WorkShape'
  BY <1>1, <1>4 DEF WaitInv, WaitTypes, WaveTypes, WorkShape
<1>6. WaitTypes'
  BY <1>1, <1>2, <1>3, <1>4, <1>5 DEF WaitInv, WaitTypes, JobTypes, JoinTypes, NoteTypes
<1>7. LiveRows'
  BY <1>2, DeadRow DEF WaitInv, LiveRows, Undone
<1>8. \A v \in Runs : work'.wave[v].chosen \subseteq work.wave[v].chosen
  BY <1>4
<1>9. Numbered' /\ FreedFirst' /\ ToldByOne' /\ GivenUp'
  BY <1>1, <1>3, <1>4, <1>8, TameKeeps, NumbersKeep, GivenKeep DEF Given
<1>10. WavesChoose'
  BY <1>4 DEF WaitInv, WavesChoose
<1>11. OwnSlot'
  <2> SUFFICES ASSUME "crossed" \notin note.odd, NEW o \in Bookings, LiveClaim(rows'[o])
               PROVE  /\ ~list'[<<rows'[o].player, rows'[o].from>>].active
                      /\ work'.join[rows'[o].player] # rows'[o].from
    BY <1>1 DEF OwnSlot
  <2>1. LiveClaim(rows[o]) /\ rows'[o] = rows[o]
    BY <1>2, DeadRow
  <2>2. <<rows[o].player, rows[o].from>> \in Entries
    BY <2>1 DEF WaitInv, LiveRows, LiveClaim, Entries
  <2>3. QED
    BY <1>3, <1>4, <2>1, <2>2 DEF WaitInv, OwnSlot
<1>12. Remembered'
  <2> SUFFICES ASSUME note.odd \cap {"died", "released"} = {}, NEW e \in Entries, Waiting(e)', list'[e].taken
               PROVE  Undead(e[2])' \/ \E v \in Runs : Reaches(v, e)'
    BY <1>1 DEF Remembered
  <2>1. Waiting(e) /\ list[e].taken
    BY <1>3
  <2>2. CASE Undead(e[2])
    <3>1. PICK o \in Bookings : Undone(rows[o]) /\ Covers(rows[o], e[2])
      BY <2>2 DEF Undead, Undone
    <3>2. CASE o = b
      BY <1>4, <3>1, <3>2 DEF Reaches, Covers
    <3>3. CASE o # b
      BY <1>2, <3>1, <3>3 DEF Undead, Undone
    <3>4. QED
      BY <3>2, <3>3
  <2>3. CASE \E v \in Runs : Reaches(v, e)
    <3>1. PICK v \in Runs : Reaches(v, e)
      BY <2>3
    <3>2. v # w
      <4>1. work.wave[w].stage = "idle"
        <5>1. work.wave[w] = Idle
          BY <1>1
        <5>2. QED
          BY ONLY <5>1 DEF Idle
      <4>2. QED
        BY <3>1, <4>1 DEF Reaches
    <3>3. Reaches(v, e)'
      BY <1>3, <1>4, <3>1, <3>2 DEF Reaches
    <3>4. QED
      BY <3>3
  <2>4. QED
    BY <2>1, <2>2, <2>3 DEF WaitInv, Remembered
<1>13. QED
  BY <1>3, <1>6, <1>7, <1>9, <1>10, <1>11, <1>12 DEF WaitInv

\* A balance proof is rejected: a wave for a range that nobody let go.
LEMMA BalanceRejected ==
    ASSUME WaitInv, NEW b \in Bookings, NEW w \in Runs, RejectBalance(b, w)
    PROVE  WaitInv'
<1>1. /\ work.wave[w] = Idle /\ UNCHANGED <<rows, list, note>>
      /\ work' = [work EXCEPT !.wave[w] = [stage |-> "due", from |-> rows[b].from, to |-> rows[b].to, chosen |-> {}]]
  BY DEF RejectBalance, FreeWave, Wave
<1>2. \A e \in Entries : Tame(e) /\ list'[e].id \in Nat
  BY <1>1 DEF Tame, WaitInv, WaitTypes, ListTypes
<1>3. note' = note /\ NoteTypes'
  BY <1>1 DEF WaitInv, WaitTypes, NoteTypes
<1>4. /\ rows[b].from \in Slots \cup {0} /\ rows[b].to \in Slots \cup {0}
      /\ work'.join = work.join /\ work'.job = work.job
      /\ work'.wave[w] = [stage |-> "due", from |-> rows[b].from, to |-> rows[b].to, chosen |-> {}]
      /\ \A v \in Runs : v # w => work'.wave[v] = work.wave[v]
  BY <1>1 DEF WaitInv, WaitTypes, RowTypes, WaveTypes, WorkShape
<1>5. WaveTypes' /\ WorkShape'
  BY <1>1, <1>4 DEF WaitInv, WaitTypes, WaveTypes, WorkShape
<1>6. WaitTypes'
  BY <1>1, <1>3, <1>4, <1>5 DEF WaitInv, WaitTypes, JobTypes, JoinTypes, ListTypes, RowTypes
<1>7. LiveRows' /\ SeenFree'
  BY <1>1 DEF WaitInv, LiveRows, SeenFree, Claimed
<1>8. \A v \in Runs : work'.wave[v].chosen \subseteq work.wave[v].chosen
  BY <1>4
<1>9. Numbered' /\ FreedFirst' /\ ToldByOne' /\ GivenUp'
  BY <1>1, <1>2, <1>3, <1>4, <1>8, TameKeeps, NumbersKeep, GivenKeep DEF Given
<1>10. WavesChoose'
  BY <1>4 DEF WaitInv, WavesChoose
<1>11. OwnSlot'
  BY <1>1, <1>3, <1>4 DEF WaitInv, OwnSlot
<1>12. Remembered'
  <2> SUFFICES ASSUME note'.odd \cap {"died", "released"} = {}, NEW e \in Entries, Waiting(e), list[e].taken
               PROVE  Undead(e[2])' \/ \E v \in Runs : Reaches(v, e)'
    BY <1>1 DEF Remembered, Waiting
  <2>1. note.odd \cap {"died", "released"} = {}
    BY <1>3
  <2>2. CASE Undead(e[2])
    BY <1>1, <2>2 DEF Undead
  <2>3. CASE \E v \in Runs : Reaches(v, e)
    <3>1. PICK v \in Runs : Reaches(v, e)
      BY <2>3
    <3>2. v # w
      <4>1. work.wave[w].stage = "idle"
        <5>1. work.wave[w] = Idle
          BY <1>1
        <5>2. QED
          BY ONLY <5>1 DEF Idle
      <4>2. QED
        BY <3>1, <4>1 DEF Reaches
    <3>3. Reaches(v, e)'
      BY <1>1, <1>4, <3>1, <3>2 DEF Reaches, Ticket
    <3>4. QED
      BY <3>3
  <2>4. QED
    BY <2>1, <2>2, <2>3 DEF WaitInv, Remembered
<1>13. QED
  BY <1>6, <1>7, <1>9, <1>10, <1>11, <1>12 DEF WaitInv

\* A booking is made: it sweeps stale holds aside and closes the player's own entry.
LEMMA Inserted ==
    ASSUME WaitAssumption, WaitInv, NEW b \in Bookings, NEW p \in Players, InsertBooking(b, p)
    PROVE  WaitInv'
<1> DEFINE Out(from, to) == {o \in Bookings : rows[o].status = "lapsed" /\ Overlap(rows[o], from, to)}
           Left(from, to) == {s \in Slots \ (from .. to) : \E o \in Out(from, to) : Covers(rows[o], s)}
           Mine(from, to) == [status |-> "held", player |-> p, from |-> from, to |-> to]
<1>1. PICK from \in Slots, to \in Slots :
        /\ from <= to
        /\ \A o \in Bookings : LiveClaim(rows[o]) => ~Overlap(rows[o], from, to)
        /\ rows' = [o \in Bookings |-> IF o = b THEN Mine(from, to) ELSE IF o \in Out(from, to) THEN Dead ELSE rows[o]]
        /\ list' = Seen([list EXCEPT ![<<p, from>>] = NoEntry], rows')
        /\ note' = [note EXCEPT !.odd = (@ \cup (IF Left(from, to) # {} THEN {"released"} ELSE {}))
                                        \cup (IF work.join[p] = from THEN {"crossed"} ELSE {})]
  BY DEF InsertBooking
<1> DEFINE mine == Mine(from, to)
           out == Out(from, to)
           left == Left(from, to)
<1>2. /\ mine = [status |-> "held", player |-> p, from |-> from, to |-> to]
      /\ out = {o \in Bookings : rows[o].status = "lapsed" /\ Overlap(rows[o], from, to)}
      /\ left = {s \in Slots \ (from .. to) : \E o \in out : Covers(rows[o], s)}
  OBVIOUS
<1>3. /\ rows' = [o \in Bookings |-> IF o = b THEN mine ELSE IF o \in out THEN Dead ELSE rows[o]]
      /\ note' = [note EXCEPT !.odd = (@ \cup (IF left # {} THEN {"released"} ELSE {}))
                                      \cup (IF work.join[p] = from THEN {"crossed"} ELSE {})]
  BY <1>1
<1> HIDE DEF mine, out, left
<1>4. UNCHANGED work /\ rows[b] = NoRow
  BY DEF InsertBooking
<1>5. from \in Nat \ {0} /\ to \in Nat \ {0} /\ <<p, from>> \in Entries
  BY DEF WaitAssumption, Entries
<1>6. RowTypes'
  <2>1. mine \in [status : {"none", "held", "lapsed", "booked", "dead"}, player : Players \cup {"none"},
                  from : Slots \cup {0}, to : Slots \cup {0}]
    BY <1>2
  <2>2. Dead \in [status : {"none", "held", "lapsed", "booked", "dead"}, player : Players \cup {"none"},
                  from : Slots \cup {0}, to : Slots \cup {0}]
    BY DeadRow
  <2>3. QED
    BY <1>3, <2>1, <2>2 DEF WaitInv, WaitTypes, RowTypes
<1>7. list \in [Entries -> EntryType]
  BY DEF WaitInv, WaitTypes, ListTypes, EntryType
<1> DEFINE old == [list EXCEPT ![<<p, from>>] = NoEntry]
<1>8. /\ old \in [Entries -> EntryType] /\ old[<<p, from>>] = NoEntry
      /\ \A e \in Entries : e # <<p, from>> => old[e] = list[e]
  BY <1>5, <1>7, Closed
<1>9. list' = Seen(old, rows')
  BY <1>1
<1> HIDE DEF old
<1>10. /\ list' \in [Entries -> EntryType]
       /\ \A e \in Entries :
            /\ list'[e].id = old[e].id /\ list'[e].active = old[e].active /\ list'[e].notified = old[e].notified
            /\ list'[e].told = old[e].told /\ list'[e].taken = old[e].taken /\ (old[e].free => list'[e].free)
            /\ old[e].active /\ e[2] \notin Claimed(rows') => list'[e].free
  <2>1. old \in [Entries -> EntryType]
    BY <1>8
  <2>2. list' \in [Entries -> EntryType]
    BY ONLY <2>1, <1>5, <1>9, SeenEntry
  <2>3. \A e \in Entries :
          /\ list'[e].id = old[e].id /\ list'[e].active = old[e].active /\ list'[e].notified = old[e].notified
          /\ list'[e].told = old[e].told /\ list'[e].taken = old[e].taken /\ (old[e].free => list'[e].free)
          /\ old[e].active /\ e[2] \notin Claimed(rows') => list'[e].free
    BY ONLY <2>1, <1>9, SeenEntry
  <2>4. QED
    BY <2>2, <2>3
<1>11. ~list'[<<p, from>>].active
  BY <1>5, <1>8, <1>10, Closed
<1>12. \A e \in Entries : /\ Tame(e) /\ list'[e].id \in Nat /\ (list'[e].active => list[e].active)
                          /\ Waiting(e)' => Waiting(e) /\ Ticket(e)' = Ticket(e) /\ list'[e].taken = list[e].taken
  <2>1. ASSUME NEW e \in Entries, e # <<p, from>>
        PROVE  /\ Tame(e) /\ list'[e].id \in Nat /\ (list'[e].active => list[e].active)
               /\ Waiting(e)' => Waiting(e) /\ Ticket(e)' = Ticket(e) /\ list'[e].taken = list[e].taken
    <3>1. old[e] = list[e] /\ list'[e] \in EntryType
      BY <1>8, <1>10, <2>1
    <3>2. QED
      BY <1>10, <3>1, ZenonT(30) DEF Tame, Waiting, Ticket, EntryType
  <2>2. /\ Tame(<<p, from>>) /\ list'[<<p, from>>].id \in Nat /\ ~Waiting(<<p, from>>)'
    BY <1>5, <1>8, <1>10, <1>11, Closed DEF Tame, Waiting
  <2>3. QED
    BY <1>11, <2>1, <2>2
<1>13. /\ note'.joins = note.joins /\ note'.late = note.late /\ note.odd \subseteq note'.odd /\ NoteTypes'
       /\ "released" \notin note'.odd => left = {}
       /\ "crossed" \notin note'.odd => work.join[p] # from
       /\ \A odd : odd \notin {"released", "crossed"} /\ odd \in note'.odd => odd \in note.odd
  BY <1>3 DEF WaitInv, WaitTypes, NoteTypes
<1>14. WaitTypes'
  <2>1. ListTypes'
    BY <1>10 DEF ListTypes, EntryType
  <2>2. QED
    BY <1>4, <1>6, <1>13, <2>1 DEF WaitInv, WaitTypes, JobTypes, JoinTypes, WaveTypes, WorkShape
<1>15. rows'[b] = mine /\ \A o \in Bookings : o # b => rows'[o] = IF o \in out THEN Dead ELSE rows[o]
  BY <1>3
<1>16. LiveRows'
  <2> SUFFICES ASSUME NEW o \in Bookings, Undone(rows'[o])
               PROVE  rows'[o].player \in Players /\ rows'[o].from \in Slots /\ rows'[o].to \in Slots
    BY DEF LiveRows, Undone
  <2>1. CASE o = b
    BY <1>2, <1>15, <2>1
  <2>2. CASE o # b
    <3>1. rows'[o] = rows[o]
      BY <1>15, <2>2, DeadRow
    <3>2. QED
      BY <3>1 DEF WaitInv, LiveRows, Undone
  <2>3. QED
    BY <2>1, <2>2
<1>17. Numbered' /\ FreedFirst' /\ ToldByOne' /\ GivenUp'
  <2>1. \A w \in Runs : work'.wave[w].chosen \subseteq work.wave[w].chosen
    BY <1>4
  <2>2. \A q \in Players : work'.join[q] # 0 => work.join[q] # 0
    BY <1>4
  <2>3. FreedFirst' /\ ToldByOne'
    BY <1>12, <1>13, <2>1, TameKeeps
  <2>4. Numbered'
    BY <1>12, <1>13, <2>1, <2>2, NumbersKeep
  <2>5. GivenUp'
    BY <1>4, <1>12, <1>13, <2>2, GivenKeep DEF Given
  <2>6. QED
    BY <2>3, <2>4, <2>5
<1>18. WavesChoose'
  BY <1>4 DEF WaitInv, WavesChoose
<1>19. SeenFree'
  BY <1>10 DEF SeenFree, Claimed
<1>20. OwnSlot'
  <2> SUFFICES ASSUME "crossed" \notin note'.odd, NEW o \in Bookings, LiveClaim(rows'[o])
               PROVE  /\ ~list'[<<rows'[o].player, rows'[o].from>>].active
                      /\ work'.join[rows'[o].player] # rows'[o].from
    BY DEF OwnSlot
  <2>1. CASE o = b
    <3>1. rows'[o].player = p /\ rows'[o].from = from
      BY <1>2, <1>15, <2>1
    <3>2. QED
      BY <1>4, <1>11, <1>13, <3>1
  <2>2. CASE o # b
    <3>1. rows'[o] = rows[o]
      BY <1>15, <2>2, DeadRow
    <3>2. <<rows[o].player, rows[o].from>> \in Entries
      BY <3>1 DEF WaitInv, LiveRows, LiveClaim, Entries
    <3>3. "crossed" \notin note.odd
      BY <1>13
    <3>4. QED
      BY <1>4, <1>12, <3>1, <3>2, <3>3 DEF WaitInv, OwnSlot
  <2>3. QED
    BY <2>1, <2>2
<1>21. Remembered'
  <2> SUFFICES ASSUME note'.odd \cap {"died", "released"} = {}, NEW e \in Entries, Waiting(e)', list'[e].taken
               PROVE  Undead(e[2])' \/ \E w \in Runs : Reaches(w, e)'
    BY DEF Remembered
  <2>1. /\ Waiting(e) /\ list[e].taken /\ Ticket(e)' = Ticket(e)
        /\ note.odd \cap {"died", "released"} = {} /\ left = {}
    BY <1>12, <1>13
  <2>2. CASE Undead(e[2])
    <3>1. PICK o \in Bookings : Undone(rows[o]) /\ Covers(rows[o], e[2])
      BY <2>2 DEF Undead, Undone
    <3>2. o # b
      BY <1>4, <3>1 DEF Undone, NoRow
    <3>3. CASE o \in out
      <4>1. e[2] \in Slots
        BY DEF Entries
      <4>2. e[2] \in from .. to
        BY <1>2, <2>1, <3>1, <3>3, <4>1
      <4>3. Covers(mine, e[2]) /\ mine.status = "held"
        BY <1>2, <1>5, <4>1, <4>2 DEF WaitAssumption, Covers
      <4>4. QED
        BY <1>15, <4>3 DEF Undead
    <3>4. CASE o \notin out
      BY <1>15, <3>1, <3>2, <3>4 DEF Undead, Undone
    <3>5. QED
      BY <3>3, <3>4
  <2>3. CASE \E w \in Runs : Reaches(w, e)
    BY <1>4, <2>1, <2>3 DEF Reaches
  <2>4. QED
    BY <2>1, <2>2, <2>3 DEF WaitInv, Remembered
<1>22. QED
  BY <1>14, <1>16, <1>17, <1>18, <1>19, <1>20, <1>21 DEF WaitInv

\* Steps that leave the court alone.
LEMMA CourtStands ==
    ASSUME WaitInv, UNCHANGED rows
    PROVE  LiveRows' /\ RowTypes' /\ (\A s : Undead(s)' = Undead(s)) /\ (\A s : Taken(s)' = Taken(s))
           /\ Claimed(rows') = Claimed(rows)
  BY DEF WaitInv, WaitTypes, RowTypes, LiveRows, Undead, Taken, Claimed

\* A join has looked, and has not written.
LEMMA Joins ==
    ASSUME WaitInv, NEW p \in Players, Join(p)
    PROVE  WaitInv'
<1>1. PICK s \in Slots : /\ ~ \E b \in Bookings : LiveClaim(rows[b]) /\ rows[b].from = s /\ rows[b].player = p
                         /\ work' = [work EXCEPT !.join[p] = s]
  BY DEF Join
<1>2. /\ work.join[p] = 0 /\ UNCHANGED <<rows, list>> /\ note' = [note EXCEPT !.joins = @ + 1]
  BY DEF Join
<1>3. /\ work'.join \in [Players -> Slots \cup {0}] /\ work'.join[p] = s /\ work'.wave = work.wave /\ work'.job = work.job
      /\ \A q \in Players : q # p => work'.join[q] = work.join[q]
      /\ WorkShape'
  BY <1>1 DEF WaitInv, WaitTypes, JobTypes, JoinTypes, WorkShape
<1>4. note'.joins = note.joins + 1 /\ note'.odd = note.odd /\ note'.late = note.late /\ NoteTypes' /\ note.joins \in Nat
  BY <1>2 DEF WaitInv, WaitTypes, NoteTypes
<1>5. WaitTypes' /\ LiveRows' /\ WavesChoose'
  BY <1>2, <1>3, <1>4, CourtStands DEF WaitInv, WaitTypes, JobTypes, JoinTypes, WaveTypes, ListTypes, WavesChoose
<1>6. Numbered'
  <2>1. ASSUME NEW e \in Entries
        PROVE  list'[e].id <= note'.joins /\ (work'.join[e[1]] # 0 => list'[e].id < note'.joins)
    <3>1. list[e].id \in Nat /\ list[e].id <= note.joins
      BY DEF WaitInv, WaitTypes, ListTypes, Numbered
    <3>2. QED
      BY <1>2, <1>4, <3>1
  <2>2. ASSUME NEW w \in Runs, NEW e \in Entries, NEW n \in Nat, <<e, n>> \in work'.wave[w].chosen
        PROVE  n <= note'.joins /\ (work'.join[e[1]] # 0 => n < note'.joins)
    <3>1. n <= note.joins
      BY <1>3, <2>2 DEF WaitInv, Numbered
    <3>2. QED
      BY <1>4, <3>1
  <2>3. QED
    BY <2>1, <2>2 DEF Numbered
<1>7. SeenFree'
  BY <1>2, CourtStands DEF WaitInv, SeenFree
<1>8. FreedFirst' /\ ToldByOne'
  BY <1>2, <1>3, <1>4 DEF WaitInv, FreedFirst, ToldByOne, Known, Ticket
<1>9. OwnSlot'
  <2> SUFFICES ASSUME "crossed" \notin note.odd, NEW o \in Bookings, LiveClaim(rows[o])
               PROVE  /\ ~list[<<rows[o].player, rows[o].from>>].active
                      /\ work'.join[rows[o].player] # rows[o].from
    BY <1>2, <1>4 DEF OwnSlot
  <2>1. rows[o].player \in Players
    BY DEF WaitInv, LiveRows, LiveClaim
  <2>2. QED
    BY <1>1, <1>3, <2>1 DEF WaitInv, OwnSlot
<1>10. Remembered'
  <2>1. \A e \in Entries, w \in Runs : Reaches(w, e)' = Reaches(w, e)
    BY <1>2, <1>3 DEF Reaches, Ticket
  <2>2. \A e \in Entries : Waiting(e)' = Waiting(e)
    BY <1>2 DEF Waiting
  <2>3. QED
    BY <1>2, <1>4, <2>1, <2>2, CourtStands DEF WaitInv, Remembered
<1>11. GivenUp'
  <2>1. Given' = Given /\ \A e \in Entries : Ticket(e)' = Ticket(e)
    BY <1>2, <1>3 DEF Given, Ticket
  <2>2. ASSUME NEW e \in Entries, NEW n \in Nat, <<e, n>> \in Given'
        PROVE  n <= note'.joins /\ (work'.join[e[1]] # 0 => n < note'.joins)
    <3>1. n <= note.joins
      BY <2>1, <2>2 DEF WaitInv, GivenUp
    <3>2. QED
      BY <1>4, <3>1
  <2>3. QED
    BY <1>2, <2>1, <2>2 DEF WaitInv, GivenUp
<1>12. QED
  BY <1>5, <1>6, <1>7, <1>8, <1>9, <1>10, <1>11 DEF WaitInv

\* A new entry has the newest number, which nothing that has been chosen has.
LEMMA HasJoined ==
    ASSUME WaitAssumption, WaitInv, NEW p \in Players, Joined(p)
    PROVE  WaitInv'
<1>0. PICK s \in Slots : s = work.join[p] /\ s # 0
  BY DEF Joined, WaitInv, WaitTypes, JoinTypes
<1> DEFINE x == <<p, s>>
           fresh == [id |-> note.joins, active |-> TRUE, notified |-> "no", told |-> 0, taken |-> Undead(s), free |-> ~Taken(s)]
<1>1. /\ s # 0 /\ UNCHANGED <<rows, note>> /\ work' = [work EXCEPT !.join[p] = 0]
      /\ list' = IF list[x].active THEN list ELSE [list EXCEPT ![x] = fresh]
  BY <1>0 DEF Joined
<1>2. s \in Slots /\ x \in Entries /\ x[1] = p /\ x[2] = s
  BY DEF Entries
<1>3. fresh \in EntryType /\ fresh.id = note.joins /\ fresh.active /\ fresh.notified = "no" /\ fresh.told = 0
      /\ fresh.taken = Undead(s) /\ fresh.free = ~Taken(s)
  BY DEF EntryType, WaitInv, WaitTypes, NoteTypes, Undead, Taken
<1> HIDE DEF x, fresh
<1>4. list \in [Entries -> EntryType]
  BY DEF WaitInv, WaitTypes, ListTypes, EntryType
<1>5. /\ list' \in [Entries -> EntryType]
      /\ \A e \in Entries : e # x \/ list[x].active => list'[e] = list[e]
      /\ ~list[x].active => list'[x] = fresh
  BY <1>1, <1>2, <1>3, <1>4
<1>6. /\ work'.join \in [Players -> Slots \cup {0}] /\ work'.join[p] = 0 /\ work'.wave = work.wave /\ work'.job = work.job
      /\ \A q \in Players : q # p => work'.join[q] = work.join[q]
      /\ WorkShape'
  BY <1>1 DEF WaitInv, WaitTypes, JobTypes, JoinTypes, WorkShape
<1>7. WaitTypes' /\ LiveRows' /\ WavesChoose'
  BY <1>1, <1>5, <1>6, CourtStands DEF WaitInv, WaitTypes, JobTypes, JoinTypes, WaveTypes, ListTypes, WavesChoose, EntryType, NoteTypes
<1>8. \A w \in Runs : \A n \in Nat : <<x, n>> \in work.wave[w].chosen => n # note.joins
  <2>1. \A w \in Runs : \A n \in Nat : <<x, n>> \in work.wave[w].chosen => n < note.joins
    BY <1>0, <1>2 DEF WaitInv, Numbered
  <2>2. note.joins \in Nat
    BY DEF WaitInv, WaitTypes, NoteTypes
  <2>3. QED
    BY <2>1, <2>2
<1>9. ~list[x].active => \A w \in Runs : ~Known(x, w)'
  <2> SUFFICES ASSUME ~list[x].active, NEW w \in Runs, Ticket(x)' \in work.wave[w].chosen
               PROVE  FALSE
    BY <1>6 DEF Known
  <2>1. Ticket(x)' = <<x, note.joins>> /\ note.joins \in Nat
    BY <1>3, <1>5 DEF Ticket, WaitInv, WaitTypes, NoteTypes
  <2>2. QED
    BY <1>8, <2>1
<1>10. \A e \in Entries : (e # x \/ list[x].active) => /\ \A w \in Runs : Known(e, w)' = Known(e, w)
                                                       /\ Waiting(e)' = Waiting(e) /\ Ticket(e)' = Ticket(e)
                                                       /\ \A w \in Runs : Reaches(w, e)' = Reaches(w, e)
  BY <1>5, <1>6 DEF Known, Ticket, Waiting, Reaches
<1>11. Numbered'
  <2>1. ASSUME NEW e \in Entries
        PROVE  list'[e].id <= note'.joins /\ (work'.join[e[1]] # 0 => list'[e].id < note'.joins)
    <3>1. e[1] \in Players /\ note.joins \in Nat
      BY DEF Entries, WaitInv, WaitTypes, NoteTypes
    <3>2. CASE e = x /\ ~list[x].active
      <4>1. list'[e].id = note.joins
        BY <1>3, <1>5, <3>2
      <4>2. QED
        BY <1>1, <1>2, <1>6, <3>1, <3>2, <4>1
    <3>3. CASE ~(e = x /\ ~list[x].active)
      <4>1. list'[e] = list[e]
        BY <1>5, <3>3
      <4>2. QED
        BY <1>1, <1>6, <3>1, <4>1 DEF WaitInv, Numbered
    <3>4. QED
      BY <3>2, <3>3
  <2>2. ASSUME NEW w \in Runs, NEW e \in Entries, NEW n \in Nat, <<e, n>> \in work'.wave[w].chosen
        PROVE  n <= note'.joins /\ (work'.join[e[1]] # 0 => n < note'.joins)
    <3>1. e[1] \in Players
      BY DEF Entries
    <3>2. QED
      BY <1>1, <1>6, <2>2, <3>1 DEF WaitInv, Numbered
  <2>3. QED
    BY <2>1, <2>2 DEF Numbered
<1>12. SeenFree'
  <2> SUFFICES ASSUME NEW e \in Entries, list'[e].active, e[2] \notin Claimed(rows)
               PROVE  list'[e].free
    BY <1>1, CourtStands DEF SeenFree
  <2>1. CASE e = x /\ ~list[x].active
    BY <1>2, <1>3, <1>5, <2>1 DEF Taken
  <2>2. CASE ~(e = x /\ ~list[x].active)
    BY <1>5, <2>2 DEF WaitInv, SeenFree
  <2>3. QED
    BY <2>1, <2>2
<1>13. FreedFirst'
  <2> SUFFICES ASSUME NEW e \in Entries, e[2] \notin note.late
               PROVE  /\ list'[e].notified # "no" => list'[e].free
                      /\ \A w \in Runs : Known(e, w)' => list'[e].free
    BY <1>1 DEF FreedFirst
  <2>1. CASE e = x /\ ~list[x].active
    BY <1>3, <1>5, <1>9, <2>1
  <2>2. CASE ~(e = x /\ ~list[x].active)
    BY <1>5, <1>10, <2>2 DEF WaitInv, FreedFirst
  <2>3. QED
    BY <2>1, <2>2
<1>14. ToldByOne'
  <2>1. ASSUME NEW e \in Entries
        PROVE  list'[e].notified = "no" => list'[e].told = 0
    BY <1>3, <1>5 DEF WaitInv, ToldByOne
  <2>2. ASSUME "waves crossed" \notin note.odd
        PROVE  /\ \A v, w \in Runs : work'.wave[v].chosen \cap work'.wave[w].chosen # {} => v = w
               /\ \A e \in Entries : /\ list'[e].told <= 1
                                     /\ \A w \in Runs : Known(e, w)' => list'[e].notified = "no"
    <3>1. \A v, w \in Runs : work'.wave[v].chosen \cap work'.wave[w].chosen # {} => v = w
      BY <1>6, <2>2 DEF WaitInv, ToldByOne
    <3>2. ASSUME NEW e \in Entries
          PROVE  /\ list'[e].told <= 1
                 /\ \A w \in Runs : Known(e, w)' => list'[e].notified = "no"
      <4>1. CASE e = x /\ ~list[x].active
        BY <1>3, <1>5, <1>9, <4>1
      <4>2. CASE ~(e = x /\ ~list[x].active)
        BY <1>5, <1>10, <2>2, <4>2 DEF WaitInv, ToldByOne
      <4>3. QED
        BY <4>1, <4>2
    <3>3. QED
      BY <3>1, <3>2
  <2>3. QED
    BY <1>1, <2>1, <2>2 DEF ToldByOne
<1>15. OwnSlot'
  <2> SUFFICES ASSUME "crossed" \notin note.odd, NEW o \in Bookings, LiveClaim(rows[o])
               PROVE  /\ ~list'[<<rows[o].player, rows[o].from>>].active
                      /\ work'.join[rows[o].player] # rows[o].from
    BY <1>1 DEF OwnSlot
  <2>1. rows[o].player \in Players /\ rows[o].from \in Slots /\ rows[o].from # 0
        /\ <<rows[o].player, rows[o].from>> \in Entries
    BY DEF WaitAssumption, WaitInv, LiveRows, LiveClaim, Entries
  <2>2. ~list[<<rows[o].player, rows[o].from>>].active /\ work.join[rows[o].player] # rows[o].from
    BY DEF WaitInv, OwnSlot
  <2>3. <<rows[o].player, rows[o].from>> # x
    BY <1>0, <2>2 DEF x
  <2>4. QED
    BY <1>5, <1>6, <2>1, <2>2, <2>3
<1>16. Remembered'
  <2> SUFFICES ASSUME note.odd \cap {"died", "released"} = {}, NEW e \in Entries, Waiting(e)', list'[e].taken
               PROVE  Undead(e[2]) \/ \E w \in Runs : Reaches(w, e)'
    BY <1>1, CourtStands DEF Remembered
  <2>1. CASE e = x /\ ~list[x].active
    BY <1>2, <1>3, <1>5, <2>1
  <2>2. CASE ~(e = x /\ ~list[x].active)
    BY <1>5, <1>10, <2>2 DEF WaitInv, Remembered
  <2>3. QED
    BY <2>1, <2>2
<1>17. GivenUp'
  <2>1. Given' = Given
    BY <1>6 DEF Given
  <2>2. ASSUME NEW e \in Entries, NEW n \in Nat, <<e, n>> \in Given
        PROVE  n <= note'.joins /\ (work'.join[e[1]] # 0 => n < note'.joins)
    <3>1. e[1] \in Players
      BY DEF Entries
    <3>2. QED
      BY <1>1, <1>6, <2>2, <3>1 DEF WaitInv, GivenUp
  <2>3. ASSUME NEW e \in Entries, list'[e].active, Ticket(e)' \in Given
        PROVE  list'[e].notified # "no"
    <3>1. CASE e = x /\ ~list[x].active
      <4>1. Ticket(e)' = <<x, note.joins>> /\ note.joins \in Nat
        BY <1>3, <1>5, <3>1 DEF Ticket, WaitInv, WaitTypes, NoteTypes
      <4>2. note.joins < note.joins
        BY <1>0, <1>2, <2>3, <4>1 DEF WaitInv, GivenUp
      <4>3. QED
        BY ONLY <4>1, <4>2
    <3>2. CASE ~(e = x /\ ~list[x].active)
      BY <1>5, <1>10, <2>3, <3>2 DEF WaitInv, GivenUp
    <3>3. QED
      BY <3>1, <3>2
  <2>4. QED
    BY <2>1, <2>2, <2>3 DEF GivenUp
<1>18. QED
  BY <1>7, <1>11, <1>12, <1>13, <1>14, <1>15, <1>16, <1>17 DEF WaitInv

\* An entry is closed, or its message gets old.
LEMMA OneEntry ==
    ASSUME WaitInv, NEW p \in Players, NEW s \in Slots, Cancel(p, s) \/ Grace(p, s)
    PROVE  WaitInv'
<1> DEFINE x == <<p, s>>
<1>1. /\ UNCHANGED <<rows, work, note>> /\ x \in Entries
      /\ \/ list' = [list EXCEPT ![x] = NoEntry]
         \/ list[x].notified = "just now" /\ list' = [list EXCEPT ![x].notified = "a while ago"]
  BY DEF Cancel, Grace, Entries
<1>2. list \in [Entries -> EntryType]
  BY DEF WaitInv, WaitTypes, ListTypes, EntryType
<1> HIDE DEF x
<1>3. /\ list' \in [Entries -> EntryType]
      /\ \A e \in Entries : e # x => list'[e] = list[e]
      /\ \/ list'[x] = NoEntry
         \/ /\ list[x].notified = "just now" /\ list'[x].notified = "a while ago"
            /\ list'[x].id = list[x].id /\ list'[x].active = list[x].active /\ list'[x].told = list[x].told
            /\ list'[x].taken = list[x].taken /\ list'[x].free = list[x].free
  <2>1. CASE list' = [list EXCEPT ![x] = NoEntry]
    BY <1>1, <1>2, <2>1, Closed
  <2>2. CASE list[x].notified = "just now" /\ list' = [list EXCEPT ![x].notified = "a while ago"]
    BY <1>1, <1>2, <2>2 DEF EntryType
  <2>3. QED
    BY <1>1, <2>1, <2>2
<1>4. \A e \in Entries : /\ list'[e].active => list[e].active /\ list'[e].id = list[e].id /\ list'[e].taken = list[e].taken
                                                 /\ list'[e].free = list[e].free
                         /\ list'[e].id = 0 \/ list'[e].id = list[e].id
                         /\ list'[e].notified # "no" => list[e].notified # "no" /\ list'[e].free = list[e].free
                         /\ list'[e].notified = "no" => list'[e].told = 0 \/ list'[e] = list[e]
                         /\ list'[e].told = 0 \/ list'[e].told = list[e].told
                         /\ list[e].notified = "no" => list'[e].notified = "no"
  BY <1>1, <1>3, Closed
<1>5. WaitTypes' /\ LiveRows' /\ WavesChoose'
  BY <1>1, <1>3, CourtStands DEF WaitInv, WaitTypes, JobTypes, JoinTypes, WaveTypes, ListTypes, WavesChoose, EntryType, NoteTypes, WorkShape
<1>6. \A e \in Entries : /\ \A w \in Runs : Known(e, w)' => Known(e, w)
                         /\ Waiting(e)' => Waiting(e) /\ list'[e].taken = list[e].taken /\ Ticket(e)' = Ticket(e)
  <2>1. work' = work
    BY <1>1
  <2>2. \A e \in Entries : list'[e].active => list[e].active /\ list'[e].id = list[e].id /\ list'[e].taken = list[e].taken
                                                              /\ (list'[e].notified = "no" => list[e].notified = "no")
    BY <1>3, Closed
  <2>3. \A e \in Entries : list'[e].active => Ticket(e)' = Ticket(e)
    BY <2>2 DEF Ticket
  <2>4. QED
    BY <2>1, <2>2, <2>3 DEF Known, Waiting
<1>7. Numbered'
  <2>1. ASSUME NEW e \in Entries
        PROVE  list'[e].id <= note'.joins /\ (work'.join[e[1]] # 0 => list'[e].id < note'.joins)
    <3>1. /\ list[e].id <= note.joins /\ (work.join[e[1]] # 0 => list[e].id < note.joins)
          /\ list[e].id \in Nat /\ note.joins \in Nat
      BY DEF WaitInv, Numbered, WaitTypes, ListTypes, NoteTypes
    <3>2. work' = work /\ note' = note /\ (list'[e].id = 0 \/ list'[e].id = list[e].id)
      BY <1>1, <1>4
    <3>3. QED
      BY ONLY <3>1, <3>2
  <2>2. QED
    BY <1>1, <2>1 DEF WaitInv, Numbered
<1>8. SeenFree'
  BY <1>1, <1>4, CourtStands DEF WaitInv, SeenFree
<1>9. FreedFirst'
  BY <1>1, <1>4, <1>6 DEF WaitInv, FreedFirst, Known
<1>10. ToldByOne'
  <2>1. \A e \in Entries : list'[e].notified = "no" => list'[e].told = 0
    BY <1>4 DEF WaitInv, ToldByOne
  <2>2. ASSUME "waves crossed" \notin note.odd, NEW e \in Entries
        PROVE  /\ list'[e].told <= 1
               /\ \A w \in Runs : Known(e, w)' => list'[e].notified = "no"
    <3>1. /\ list[e].told <= 1 /\ \A w \in Runs : Known(e, w) => list[e].notified = "no"
      BY <2>2 DEF WaitInv, ToldByOne
    <3>2. list'[e].told = 0 \/ list'[e].told = list[e].told
      BY <1>4
    <3>3. list[e].notified = "no" => list'[e].notified = "no"
      BY <1>4
    <3>4. QED
      BY <1>6, <3>1, <3>2, <3>3
  <2>3. QED
    BY <1>1, <2>1, <2>2 DEF WaitInv, ToldByOne
<1>11. OwnSlot'
  <2> SUFFICES ASSUME "crossed" \notin note.odd, NEW o \in Bookings, LiveClaim(rows[o])
               PROVE  ~list'[<<rows[o].player, rows[o].from>>].active
    BY <1>1 DEF WaitInv, OwnSlot
  <2>1. <<rows[o].player, rows[o].from>> \in Entries
    BY DEF WaitInv, LiveRows, LiveClaim, Entries
  <2>2. QED
    BY <1>4, <2>1 DEF WaitInv, OwnSlot
<1>12. Remembered'
  <2>1. \A e \in Entries, w \in Runs : Waiting(e)' /\ Reaches(w, e) => Reaches(w, e)'
    BY <1>1, <1>6 DEF Reaches
  <2>2. QED
    BY <1>1, <1>6, <2>1, CourtStands DEF WaitInv, Remembered
<1>13. GivenUp'
  <2>1. Given' = Given /\ work' = work /\ note' = note
    BY <1>1 DEF Given
  <2>2. ASSUME NEW e \in Entries, list'[e].active, Ticket(e)' \in Given
        PROVE  list'[e].notified # "no"
    <3>1. list[e].active /\ Ticket(e)' = Ticket(e)
      BY <1>4, <2>2 DEF Ticket
    <3>2. list[e].notified # "no"
      BY <2>2, <3>1 DEF WaitInv, GivenUp
    <3>3. list'[e] = list[e] \/ list'[e] = NoEntry \/ list'[e].notified = "a while ago"
      BY <1>3
    <3>4. QED
      BY <2>2, <3>2, <3>3, Closed
  <2>3. QED
    BY <2>1, <2>2 DEF WaitInv, GivenUp
<1>14. QED
  BY <1>5, <1>7, <1>8, <1>9, <1>10, <1>11, <1>12, <1>13 DEF WaitInv

\* What a message leaves of an entry, and what it writes.
SameEntry(new, old) == new.id = old.id /\ new.active = old.active /\ new.taken = old.taken /\ new.free = old.free
Heard(new, old) == new.notified = "just now" /\ new.told = old.told + 1
WaveType == [stage : {"idle", "due", "sending"}, from : Slots \cup {0}, to : Slots \cup {0}, chosen : SUBSET Tickets]

\* What a wave chooses are the tickets of those who wait in its range.
LEMMA Matching ==
    ASSUME WaitInv, NEW from, NEW to
    PROVE  /\ MatchingEntries(from, to) \subseteq Tickets
           /\ \A e \in Entries, n \in Nat :
                <<e, n>> \in MatchingEntries(from, to) <=> n = list[e].id /\ e[2] \in from .. to /\ Waiting(e)
           /\ \A e \in Entries :
                Ticket(e) \in MatchingEntries(from, to) <=> e[2] \in from .. to /\ Waiting(e)
<1>1. DOMAIN list = Entries /\ \A e \in Entries : list[e].id \in Nat
  BY DEF WaitInv, WaitTypes, ListTypes
<1>2. MatchingEntries(from, to) = {<<e, list[e].id>> : e \in {x \in Entries : x[2] \in from .. to /\ Waiting(x)}}
  BY <1>1 DEF MatchingEntries, Chosen, Ticket
<1>3. MatchingEntries(from, to) \subseteq Tickets
  BY <1>1, <1>2 DEF Tickets
<1>4. \A e \in Entries, n \in Nat :
         <<e, n>> \in MatchingEntries(from, to) <=> n = list[e].id /\ e[2] \in from .. to /\ Waiting(e)
  BY <1>2
<1>5. QED
  BY <1>1, <1>3, <1>4 DEF Ticket

\* A wave looks: it chooses those who wait now.
LEMMA Notifies ==
    ASSUME WaitAssumption, WaitInv, NEW w \in Runs, NotifyMatchingEntries(w)
    PROVE  WaitInv'
<1> DEFINE from == work.wave[w].from
           to == work.wave[w].to
           chosen == MatchingEntries(from, to)
           crossed == \E o \in Runs \ {w} : work.wave[o].chosen \cap chosen # {}
           late == Claimed(rows) \cap (from .. to)
<1>1. /\ work.wave[w].stage = "due" /\ UNCHANGED <<rows, list>>
      /\ work' = [work EXCEPT !.wave[w].chosen = chosen, !.wave[w].stage = "sending"]
      /\ note' = [note EXCEPT !.odd = @ \cup (IF crossed THEN {"waves crossed"} ELSE {}), !.late = @ \cup late]
  BY DEF NotifyMatchingEntries, Read
<1>2. /\ chosen \subseteq Tickets
      /\ \A e \in Entries, n \in Nat : <<e, n>> \in chosen <=> n = list[e].id /\ e[2] \in from .. to /\ Waiting(e)
      /\ \A e \in Entries : Ticket(e) \in chosen <=> e[2] \in from .. to /\ Waiting(e)
  BY Matching
<1>3. work.wave[w] \in [stage : {"idle", "due", "sending"}, from : Slots \cup {0}, to : Slots \cup {0}, chosen : SUBSET Tickets]
  BY DEF WaitInv, WaitTypes, WaveTypes
<1>4. /\ note'.joins = note.joins /\ note.odd \subseteq note'.odd /\ NoteTypes'
      /\ "waves crossed" \notin note'.odd => ~crossed
      /\ note'.late = note.late \cup late
      /\ \A odd : odd # "waves crossed" /\ odd \in note'.odd => odd \in note.odd
  BY <1>1 DEF WaitInv, WaitTypes, NoteTypes
<1> HIDE DEF chosen
<1>5. work'.wave = [work.wave EXCEPT ![w] = [[work.wave[w] EXCEPT !.chosen = chosen] EXCEPT !.stage = "sending"]]
      /\ work'.join = work.join /\ work'.job = work.job /\ WorkShape'
  BY <1>1 DEF WaitInv, WaitTypes, WaveTypes, WorkShape
<1>6. /\ work'.wave[w] = [[work.wave[w] EXCEPT !.chosen = chosen] EXCEPT !.stage = "sending"]
      /\ \A v \in Runs : v # w => work'.wave[v] = work.wave[v]
      /\ work'.wave = [v \in Runs |-> work'.wave[v]]
  BY <1>5 DEF WaitInv, WaitTypes, WaveTypes
<1>7. /\ work'.wave[w].from = from /\ work'.wave[w].to = to /\ work'.wave[w].chosen = chosen /\ work'.wave[w].stage = "sending"
      /\ work'.wave[w] \in [stage : {"idle", "due", "sending"}, from : Slots \cup {0}, to : Slots \cup {0}, chosen : SUBSET Tickets]
  BY <1>2, <1>3, <1>6
<1>8. WaveTypes'
  <2>1. \A v \in Runs : work'.wave[v] \in WaveType
    <3>1. \A v \in Runs : work.wave[v] \in WaveType
      BY DEF WaitInv, WaitTypes, WaveTypes, WaveType
    <3>2. work'.wave[w] \in WaveType
      BY <1>7 DEF WaveType
    <3>3. QED
      BY ONLY <1>6, <3>1, <3>2
  <2>2. work'.wave \in [Runs -> WaveType]
    BY ONLY <1>6, <2>1
  <2>3. QED
    BY <2>2 DEF WaveTypes, WaveType
<1>9. WaitTypes' /\ LiveRows'
  BY <1>1, <1>4, <1>5, <1>8, CourtStands DEF WaitInv, WaitTypes, JobTypes, JoinTypes, ListTypes
<1>10. \A e \in Entries, v \in Runs : Known(e, v)' => (v = w /\ e[2] \in from .. to /\ Waiting(e)) \/ (v # w /\ Known(e, v))
  BY <1>1, <1>2, <1>6, <1>7 DEF Known, Ticket
<1>11. Numbered'
  <2>1. ASSUME NEW v \in Runs, NEW e \in Entries, NEW n \in Nat, <<e, n>> \in work'.wave[v].chosen
        PROVE  n <= note'.joins /\ (work'.join[e[1]] # 0 => n < note'.joins)
    <3>1. CASE v = w
      <4>1. n = list[e].id
        BY <1>2, <1>7, <2>1, <3>1
      <4>2. QED
        BY <1>4, <1>5, <4>1 DEF WaitInv, Numbered
    <3>2. CASE v # w
      <4>1. <<e, n>> \in work.wave[v].chosen
        BY ONLY <1>6, <2>1, <3>2
      <4>2. n <= note.joins /\ (work.join[e[1]] # 0 => n < note.joins)
        BY <4>1 DEF WaitInv, Numbered
      <4>3. note'.joins = note.joins /\ work'.join = work.join
        BY <1>4, <1>5
      <4>4. QED
        BY ONLY <4>2, <4>3
    <3>3. QED
      BY <3>1, <3>2
  <2>2. QED
    BY <1>1, <1>4, <1>5, <2>1 DEF WaitInv, Numbered
<1>12. WavesChoose'
  BY <1>6, <1>7 DEF WaitInv, WavesChoose
<1>13. SeenFree'
  BY <1>1, CourtStands DEF WaitInv, SeenFree
<1>14. FreedFirst'
  <2> SUFFICES ASSUME NEW e \in Entries, e[2] \notin note'.late
               PROVE  /\ list[e].notified # "no" => list[e].free
                      /\ \A v \in Runs : Known(e, v)' => list[e].free
    BY <1>1 DEF FreedFirst
  <2>1. e[2] \notin note.late /\ e[2] \notin late
    BY <1>4
  <2>2. e[2] \in from .. to /\ Waiting(e) => list[e].free
    BY <2>1 DEF WaitInv, SeenFree, Waiting
  <2>3. QED
    BY <1>10, <2>1, <2>2 DEF WaitInv, FreedFirst
<1>15. ToldByOne'
  <2>1. ASSUME "waves crossed" \notin note'.odd
        PROVE  /\ \A v, u \in Runs : work'.wave[v].chosen \cap work'.wave[u].chosen # {} => v = u
               /\ \A e \in Entries : /\ list'[e].told <= 1
                                     /\ \A v \in Runs : Known(e, v)' => list'[e].notified = "no"
    <3>1. "waves crossed" \notin note.odd /\ ~crossed
      BY <1>4, <2>1
    <3>2. ASSUME NEW v \in Runs, NEW u \in Runs, work'.wave[v].chosen \cap work'.wave[u].chosen # {}
          PROVE  v = u
      <4>1. CASE v # w /\ u # w
        BY <1>6, <3>1, <3>2, <4>1 DEF WaitInv, ToldByOne
      <4>2. CASE v = w /\ u # w
        BY <1>6, <1>7, <3>1, <3>2, <4>2
      <4>3. CASE v # w /\ u = w
        BY <1>6, <1>7, <3>1, <3>2, <4>3
      <4>4. QED
        BY <4>1, <4>2, <4>3
    <3>3. \A e \in Entries : /\ list'[e].told <= 1
                             /\ \A v \in Runs : Known(e, v)' => list'[e].notified = "no"
      BY <1>1, <1>10, <3>1 DEF WaitInv, ToldByOne, Waiting
    <3>4. QED
      BY <3>2, <3>3
  <2>2. QED
    BY <1>1, <2>1 DEF WaitInv, ToldByOne
<1>16. OwnSlot'
  BY <1>1, <1>4, <1>5 DEF WaitInv, OwnSlot
<1>17. Remembered'
  <2> SUFFICES ASSUME note'.odd \cap {"died", "released"} = {}, NEW e \in Entries, Waiting(e), list[e].taken
               PROVE  Undead(e[2]) \/ \E v \in Runs : Reaches(v, e)'
    BY <1>1, CourtStands DEF Remembered, Waiting
  <2>1. note.odd \cap {"died", "released"} = {}
    BY <1>4
  <2>2. CASE \E v \in Runs : Reaches(v, e)
    <3>1. PICK v \in Runs : Reaches(v, e)
      BY <2>2
    <3>2. CASE v = w
      <4>1. e[2] \in from .. to
        <5>1. from <= e[2] /\ e[2] <= to
          BY <3>1, <3>2 DEF Reaches
        <5>2. e[2] \in Slots /\ from \in Slots \cup {0} /\ to \in Slots \cup {0}
          BY <1>3 DEF Entries
        <5>3. e[2] \in Nat /\ from \in Nat /\ to \in Nat
          <6>1. Slots \subseteq Nat
            BY DEF WaitAssumption
          <6>2. e[2] \in Nat
            BY ONLY <5>2, <6>1
          <6>3. \A s \in Slots \cup {0} : s \in Nat
            BY ONLY <6>1
          <6>4. from \in Nat /\ to \in Nat
            BY ONLY <5>2, <6>3, Zenon
          <6>5. QED
            BY ONLY <6>2, <6>3, <6>4
        <5>4. QED
          BY ONLY <5>1, <5>3
      <4>2. Ticket(e)' = Ticket(e)
        BY <1>1 DEF Ticket
      <4>3. Reaches(w, e)'
        BY <1>2, <1>7, <3>1, <3>2, <4>1, <4>2 DEF Reaches
      <4>4. QED
        BY <4>3
    <3>3. CASE v # w
      <4>1. Ticket(e)' = Ticket(e)
        BY <1>1 DEF Ticket
      <4>2. Reaches(v, e)'
        BY <1>6, <3>1, <3>3, <4>1 DEF Reaches
      <4>3. QED
        BY <4>2
    <3>4. QED
      BY <3>2, <3>3
  <2>3. QED
    BY <2>1, <2>2 DEF WaitInv, Remembered
<1>18. GivenUp'
  BY <1>1, <1>4, <1>5 DEF WaitInv, GivenUp, Given, Ticket
<1>19. QED
  BY <1>9, <1>11, <1>12, <1>13, <1>14, <1>15, <1>16, <1>17, <1>18 DEF WaitInv

\* Those who are told are told once more; the others stay as they are.
LEMMA ToldEntries ==
    ASSUME WaitInv, NEW chosen
    PROVE  /\ Told(chosen) \in [Entries -> EntryType]
           /\ \A e \in Entries : SameEntry(Told(chosen)[e], list[e])
           /\ \A e \in Entries : list[e].active /\ Ticket(e) \in chosen => Heard(Told(chosen)[e], list[e])
           /\ \A e \in Entries : ~(list[e].active /\ Ticket(e) \in chosen) => Told(chosen)[e] = list[e]
<1> DEFINE new == Told(chosen)
<1>1. list \in [Entries -> EntryType]
  BY DEF WaitInv, WaitTypes, ListTypes, EntryType
<1>2. new = [x \in Entries |-> IF list[x].active /\ Ticket(x) \in chosen
                                 THEN [list[x] EXCEPT !.notified = "just now", !.told = @ + 1] ELSE list[x]]
  BY <1>1 DEF Told
<1> HIDE DEF new
<1>3. ASSUME NEW x \in Entries
      PROVE  /\ new[x] \in EntryType /\ SameEntry(new[x], list[x])
             /\ list[x].active /\ Ticket(x) \in chosen => Heard(new[x], list[x])
             /\ ~(list[x].active /\ Ticket(x) \in chosen) => new[x] = list[x]
  <2>1. list[x] \in EntryType
    BY <1>1
  <2>2. CASE list[x].active /\ Ticket(x) \in chosen
    <3>1. new[x] = [list[x] EXCEPT !.notified = "just now", !.told = @ + 1]
      BY <1>2, <2>2
    <3>2. PICK old \in EntryType : old = list[x]
      BY <2>1
    <3>3. PICK half : half = [old EXCEPT !.notified = "just now"]
      OBVIOUS
    <3>4. half \in EntryType /\ SameEntry(half, old) /\ half.notified = "just now" /\ half.told = old.told
      BY ONLY <3>3, old \in EntryType DEF EntryType, SameEntry
    <3>5. PICK more \in Nat : more = old.told + 1
      <4>1. old.told \in Nat
        BY ONLY old \in EntryType DEF EntryType
      <4>2. old.told + 1 \in Nat
        BY ONLY <4>1
      <4>3. QED
        BY ONLY <4>2
    <3>6. new[x] = [half EXCEPT !.told = more]
      BY <3>1, <3>2, <3>3, <3>5, <2>1 DEF EntryType
    <3>7. new[x] \in EntryType /\ SameEntry(new[x], half) /\ new[x].notified = half.notified /\ new[x].told = more
      BY ONLY <3>4, <3>6, more \in Nat DEF EntryType, SameEntry
    <3>8. SameEntry(new[x], list[x]) /\ Heard(new[x], list[x])
      BY ONLY <3>2, <3>4, <3>5, <3>7 DEF SameEntry, Heard
    <3>9. QED
      BY <2>2, <3>7, <3>8
  <2>3. CASE ~(list[x].active /\ Ticket(x) \in chosen)
    BY <1>2, <2>1, <2>3 DEF SameEntry
  <2>4. QED
    BY <2>2, <2>3
<1>4. new \in [Entries -> EntryType]
  BY <1>2, <1>3
<1>5. QED
  BY <1>3, <1>4 DEF new

\* Entries that are given up are closed; the others stay.
LEMMA WithoutEntries ==
    ASSUME NEW old \in [Entries -> EntryType], NEW tickets
    PROVE  /\ Without(old, tickets) \in [Entries -> EntryType]
           /\ \A e \in Entries : Without(old, tickets)[e] = NoEntry \/ Without(old, tickets)[e] = old[e]
  BY Closed DEF Without

\* It tells whom it chose, if the entry is still the one it chose; the job's closes those it has given up.
LEMMA Commits ==
    ASSUME WaitInv, NEW w \in Runs, Commit(w)
    PROVE  WaitInv'
<1> DEFINE next == work.wave[w].chosen
           told == Told(next)
           Gone == {e \in Entries : list'[e] = NoEntry}
<1>1. /\ work.wave[w].stage = "sending" /\ UNCHANGED <<rows, note>>
      /\ list' = Without(told, IF Writes(w) THEN work.job.closes ELSE {})
      /\ work' = [work EXCEPT !.wave[w] = Idle, !.job.closes = IF Writes(w) THEN {} ELSE @]
  BY DEF Commit
<1>2. /\ work'.join = work.join /\ WorkShape' /\ work'.wave[w] = Idle
      /\ \A v \in Runs : v # w => work'.wave[v] = work.wave[v]
      /\ work'.wave = [v \in Runs |-> work'.wave[v]]
  BY <1>1 DEF WaitInv, WaitTypes, WaveTypes, WorkShape
<1>3. Idle \in [stage : {"idle", "due", "sending"}, from : Slots \cup {0}, to : Slots \cup {0}, chosen : SUBSET Tickets]
      /\ Idle.chosen = {} /\ Idle.stage = "idle"
  BY DEF Idle
<1>4. WaveTypes'
  BY <1>2, <1>3 DEF WaitInv, WaitTypes, WaveTypes
<1>5. /\ told \in [Entries -> EntryType]
      /\ list' \in [Entries -> EntryType]
      /\ \A e \in Entries : e \notin Gone => list'[e] = told[e]
  <2>1. told \in [Entries -> EntryType]
    BY ToldEntries
  <2> HIDE DEF told
  <2>2. QED
    BY <1>1, <2>1, WithoutEntries
<1>6. \A e \in Entries : e \notin Gone =>
        /\ list'[e].id = list[e].id /\ list'[e].active = list[e].active /\ list'[e].taken = list[e].taken
        /\ list'[e].free = list[e].free
        /\ Known(e, w) => list'[e].notified = "just now" /\ list'[e].told = list[e].told + 1
        /\ ~Known(e, w) => list'[e] = list[e]
  <2>1. \A e \in Entries : e \notin Gone => list'[e] = told[e]
    BY <1>5
  <2>2. /\ \A e \in Entries : SameEntry(told[e], list[e])
        /\ \A e \in Entries : Known(e, w) => Heard(told[e], list[e])
        /\ \A e \in Entries : ~Known(e, w) => told[e] = list[e]
    BY ToldEntries DEF Known
  <2> HIDE DEF told, Gone
  <2>3. QED
    BY ONLY <2>1, <2>2, ZenonT(30) DEF SameEntry, Heard
<1>7. \A e \in Gone : ~list'[e].active /\ list'[e].notified = "no" /\ list'[e].told = 0 /\ list'[e].id = 0
  BY Closed
<1> HIDE DEF told, Gone
<1>8. WaitTypes' /\ LiveRows'
  <2>1. ListTypes'
    BY <1>5 DEF ListTypes, EntryType
  <2>2. QED
    BY <1>1, <1>2, <1>4, <2>1, CourtStands DEF WaitInv, WaitTypes, JobTypes, JoinTypes, NoteTypes
<1>9. \A v \in Runs : /\ work'.wave[v].chosen \subseteq work.wave[v].chosen
                      /\ work'.wave[v].chosen # {} => v # w /\ work'.wave[v] = work.wave[v]
  BY <1>2, <1>3
<1>10. \A e \in Entries : /\ list'[e].active => e \notin Gone /\ list[e].active
                          /\ e \notin Gone => Ticket(e)' = Ticket(e)
                          /\ list'[e].id = 0 \/ list'[e].id = list[e].id
  BY <1>6, <1>7 DEF Ticket
<1>11. \A e \in Entries, v \in Runs : Known(e, v)' => e \notin Gone /\ Known(e, v) /\ v # w
  BY <1>6, <1>9, <1>10 DEF Known
<1>12. Numbered'
  <2>1. note' = note /\ work'.join = work.join
    BY <1>1, <1>2
  <2>2. ASSUME NEW e \in Entries
        PROVE  list'[e].id <= note'.joins /\ (work'.join[e[1]] # 0 => list'[e].id < note'.joins)
    <3>1. /\ list[e].id <= note.joins /\ (work.join[e[1]] # 0 => list[e].id < note.joins)
          /\ list[e].id \in Nat /\ note.joins \in Nat
      BY DEF WaitInv, Numbered, WaitTypes, ListTypes, NoteTypes
    <3>2. list'[e].id = 0 \/ list'[e].id = list[e].id
      BY <1>10
    <3>3. work.join[e[1]] # 0 => 0 < note.joins
      BY ONLY <3>1
    <3>4. QED
      BY ONLY <2>1, <3>1, <3>2, <3>3
  <2>3. ASSUME NEW v \in Runs, NEW e \in Entries, NEW n \in Nat, <<e, n>> \in work'.wave[v].chosen
        PROVE  n <= note'.joins /\ (work'.join[e[1]] # 0 => n < note'.joins)
    <3>1. <<e, n>> \in work.wave[v].chosen
      BY <1>9, <2>3
    <3>2. n <= note.joins /\ (work.join[e[1]] # 0 => n < note.joins)
      BY <3>1 DEF WaitInv, Numbered
    <3>3. QED
      BY ONLY <2>1, <3>2
  <2>4. QED
    BY <2>2, <2>3 DEF Numbered
<1>13. WavesChoose'
  BY <1>2, <1>3 DEF WaitInv, WavesChoose
<1>14. SeenFree'
  <2> SUFFICES ASSUME NEW e \in Entries, list'[e].active, e[2] \notin Claimed(rows)
               PROVE  list'[e].free
    BY <1>1, CourtStands DEF SeenFree
  <2>1. QED
    BY <1>6, <1>10 DEF WaitInv, SeenFree
<1>15. FreedFirst'
  <2> SUFFICES ASSUME NEW e \in Entries, e[2] \notin note.late
               PROVE  /\ list'[e].notified # "no" => list'[e].free
                      /\ \A v \in Runs : Known(e, v)' => list'[e].free
    BY <1>1 DEF FreedFirst
  <2>1. CASE e \in Gone
    BY <1>7, <1>11, <2>1
  <2>2. CASE e \notin Gone
    BY <1>6, <1>11, <2>2 DEF WaitInv, FreedFirst
  <2>3. QED
    BY <2>1, <2>2
<1>16. ToldByOne'
  <2>1. ASSUME NEW e \in Entries
        PROVE  list'[e].notified = "no" => list'[e].told = 0
    <3>1. CASE e \in Gone
      BY <1>7, <3>1
    <3>2. CASE e \notin Gone
      BY <1>6, <3>2 DEF WaitInv, ToldByOne
    <3>3. QED
      BY <3>1, <3>2
  <2>2. ASSUME "waves crossed" \notin note.odd
        PROVE  /\ \A v, u \in Runs : work'.wave[v].chosen \cap work'.wave[u].chosen # {} => v = u
               /\ \A e \in Entries : /\ list'[e].told <= 1
                                     /\ \A v \in Runs : Known(e, v)' => list'[e].notified = "no"
    <3>1. /\ \A v, u \in Runs : work.wave[v].chosen \cap work.wave[u].chosen # {} => v = u
          /\ \A e \in Entries : /\ list[e].told <= 1
                                /\ \A v \in Runs : Known(e, v) => list[e].notified = "no"
          /\ \A e \in Entries : list[e].notified = "no" => list[e].told = 0
      BY <2>2 DEF WaitInv, ToldByOne
    <3>2. ASSUME NEW e \in Entries
          PROVE  list'[e].told <= 1
      <4>1. CASE e \in Gone
        <5>1. list'[e].told = 0
          BY <1>7, <4>1
        <5>2. QED
          BY ONLY <5>1
      <4>2. CASE e \notin Gone /\ Known(e, w)
        <5>1. list[e].told = 0 /\ list'[e].told = list[e].told + 1
          BY <1>6, <3>1, <4>2
        <5>2. QED
          BY ONLY <5>1
      <4>3. CASE e \notin Gone /\ ~Known(e, w)
        BY <1>6, <3>1, <4>3
      <4>4. QED
        BY <4>1, <4>2, <4>3
    <3>3. ASSUME NEW e \in Entries, NEW v \in Runs, Known(e, v)'
          PROVE  list'[e].notified = "no"
      <4>1. e \notin Gone /\ Known(e, v) /\ v # w
        BY <1>11, <3>3
      <4>2. ~Known(e, w)
        BY <3>1, <4>1 DEF Known
      <4>3. QED
        BY <1>6, <3>1, <4>1, <4>2
    <3>4. \A v, u \in Runs : work'.wave[v].chosen \cap work'.wave[u].chosen # {} => v = u
      BY <1>9, <3>1
    <3>5. QED
      BY <3>2, <3>3, <3>4
  <2>3. QED
    BY <1>1, <2>1, <2>2 DEF ToldByOne
<1>17. OwnSlot'
  <2> SUFFICES ASSUME "crossed" \notin note.odd, NEW o \in Bookings, LiveClaim(rows[o])
               PROVE  ~list'[<<rows[o].player, rows[o].from>>].active
    BY <1>1, <1>2 DEF WaitInv, OwnSlot
  <2>1. <<rows[o].player, rows[o].from>> \in Entries
    BY DEF WaitInv, LiveRows, LiveClaim, Entries
  <2>2. ~list[<<rows[o].player, rows[o].from>>].active
    BY DEF WaitInv, OwnSlot
  <2>3. QED
    BY <1>10, <2>1, <2>2
<1>18. Remembered'
  <2> SUFFICES ASSUME note.odd \cap {"died", "released"} = {}, NEW e \in Entries, Waiting(e)', list'[e].taken
               PROVE  Undead(e[2]) \/ \E v \in Runs : Reaches(v, e)'
    BY <1>1, CourtStands DEF Remembered
  <2>1. e \notin Gone /\ ~Known(e, w) /\ list'[e] = list[e] /\ Ticket(e)' = Ticket(e)
    BY <1>6, <1>10 DEF Waiting
  <2>2. Waiting(e) /\ list[e].taken
    BY <2>1 DEF Waiting
  <2>3. CASE \E v \in Runs : Reaches(v, e)
    <3>1. PICK v \in Runs : Reaches(v, e)
      BY <2>3
    <3>2. v # w
      BY <1>1, <2>1, <2>2, <3>1 DEF Reaches, Known, Waiting
    <3>3. Reaches(v, e)'
      BY <1>2, <2>1, <3>1, <3>2 DEF Reaches
    <3>4. QED
      BY <3>3
  <2>4. QED
    BY <2>2, <2>3 DEF WaitInv, Remembered
<1>19. GivenUp'
  <2>1. Given' \subseteq Given /\ note' = note /\ work'.join = work.join
    <3>1. work'.job = [work.job EXCEPT !.closes = IF Writes(w) THEN {} ELSE @]
      BY <1>1 DEF WaitInv, WaitTypes, WorkShape
    <3>2. work'.job.left \subseteq work.job.left /\ work'.job.closes \subseteq work.job.closes
      BY <3>1 DEF WaitInv, WaitTypes, JobTypes
    <3>3. QED
      BY <1>1, <1>2, <3>2 DEF Given
  <2>2. ASSUME NEW e \in Entries, list'[e].active, Ticket(e)' \in Given'
        PROVE  list'[e].notified # "no"
    <3>1. e \notin Gone /\ list[e].active /\ Ticket(e) \in Given
      BY <1>10, <2>1, <2>2
    <3>2. list[e].notified # "no"
      BY <3>1 DEF WaitInv, GivenUp
    <3>3. QED
      BY <1>6, <3>1, <3>2
  <2>3. QED
    BY <2>1, <2>2 DEF WaitInv, GivenUp
<1>20. QED
  BY <1>8, <1>12, <1>13, <1>14, <1>15, <1>16, <1>17, <1>18, <1>19 DEF WaitInv

\* Its process dies before it tells anybody.
LEMMA WaveDies ==
    ASSUME WaitInv, NEW w \in Runs, Dies(w)
    PROVE  WaitInv'
<1>1. /\ UNCHANGED <<rows, list>> /\ work' = [work EXCEPT !.wave[w] = Idle, !.job = IF w = Job THEN NoJob ELSE @]
      /\ note' = [[note EXCEPT !.odd = @ \cup {"died"}] EXCEPT !.trouble = @ + 1]
  BY DEF Dies, Odd
<1>2. /\ work'.join = work.join /\ work'.job \in {NoJob, work.job} /\ WorkShape' /\ work'.wave[w] = Idle
      /\ \A v \in Runs : v # w => work'.wave[v] = work.wave[v]
      /\ work'.wave = [v \in Runs |-> work'.wave[v]]
  BY <1>1 DEF WaitInv, WaitTypes, WaveTypes, WorkShape
<1>3. Idle \in [stage : {"idle", "due", "sending"}, from : Slots \cup {0}, to : Slots \cup {0}, chosen : SUBSET Tickets]
      /\ Idle.chosen = {} /\ Idle.stage = "idle"
  BY DEF Idle
<1>4. WaveTypes'
  BY <1>2, <1>3 DEF WaitInv, WaitTypes, WaveTypes
<1>5. note'.joins = note.joins /\ note'.odd = note.odd \cup {"died"} /\ note'.late = note.late /\ NoteTypes'
  BY <1>1 DEF WaitInv, WaitTypes, NoteTypes
<1>6. WaitTypes' /\ LiveRows'
  <2>1. JobTypes'
    BY <1>2 DEF WaitInv, WaitTypes, JobTypes, NoJob
  <2>2. QED
    BY <1>1, <1>2, <1>4, <1>5, <2>1, CourtStands DEF WaitInv, WaitTypes, JoinTypes, ListTypes
<1>7. \A e \in Entries : Tame(e) /\ list'[e].id \in Nat
  BY <1>1 DEF Tame, WaitInv, WaitTypes, ListTypes
<1>8. \A v \in Runs : work'.wave[v].chosen \subseteq work.wave[v].chosen
  BY <1>2, <1>3
<1>9. Numbered' /\ FreedFirst' /\ ToldByOne' /\ GivenUp'
  <2>1. Given' \subseteq Given
    BY <1>2 DEF Given, NoJob
  <2>2. QED
    BY <1>2, <1>5, <1>7, <1>8, <2>1, TameKeeps, NumbersKeep, GivenKeep
<1>10. WavesChoose'
  BY <1>2, <1>3 DEF WaitInv, WavesChoose
<1>11. SeenFree'
  BY <1>1, CourtStands DEF WaitInv, SeenFree
<1>12. OwnSlot'
  BY <1>1, <1>2, <1>5 DEF WaitInv, OwnSlot
<1>13. Remembered'
  BY <1>5 DEF Remembered
<1>14. QED
  BY <1>6, <1>9, <1>10, <1>11, <1>12, <1>13 DEF WaitInv

\* The job finds whom it is to give up.
LEMMA Advances ==
    ASSUME WaitInv, AdvanceStaleNotifications
    PROVE  WaitInv'
<1>1. /\ UNCHANGED <<rows, list, note>> /\ work.job = NoJob
      /\ work' = [work EXCEPT !.job.left = Chosen(Stale)]
  BY DEF AdvanceStaleNotifications
<1>2. work'.join = work.join /\ work'.wave = work.wave /\ WorkShape'
  BY <1>1 DEF WaitInv, WaitTypes, WorkShape
<1>3. work'.job = [left |-> Chosen(Stale), closes |-> {}]
  BY <1>1 DEF WaitInv, WaitTypes, WorkShape, NoJob
<1>4. /\ Chosen(Stale) \subseteq Tickets
      /\ \A e \in Entries, n \in Nat : <<e, n>> \in Chosen(Stale) => n = list[e].id /\ list[e].notified = "a while ago"
  <2>1. Stale \subseteq Entries /\ \A e \in Entries : list[e].id \in Nat
    BY DEF Stale, WaitInv, WaitTypes, ListTypes
  <2>2. Chosen(Stale) = {<<e, list[e].id>> : e \in Stale}
    BY DEF Chosen, Ticket
  <2>3. \A e \in Stale : list[e].notified = "a while ago"
    BY DEF Stale
  <2>4. ASSUME NEW e \in Entries, NEW n \in Nat, <<e, n>> \in Chosen(Stale)
        PROVE  n = list[e].id /\ list[e].notified = "a while ago"
    <3>1. PICK x \in Stale : <<e, n>> = <<x, list[x].id>>
      BY <2>2, <2>4
    <3>2. e = x /\ n = list[x].id
      BY <3>1
    <3>3. QED
      BY <2>3, <3>2
  <2>5. Chosen(Stale) \subseteq Entries \X Nat
    BY <2>1, <2>2
  <2>6. QED
    BY <2>4, <2>5 DEF Tickets
<1>5. JobTypes'
  <2>1. PICK stale \in SUBSET Tickets : stale = Chosen(Stale)
    BY <1>4
  <2>2. work'.job = [left |-> stale, closes |-> {}]
    BY <1>3, <2>1
  <2>3. work'.job \in [left : SUBSET Tickets, closes : SUBSET Tickets]
    BY ONLY <2>2, stale \in SUBSET Tickets
  <2>4. QED
    BY <2>3 DEF JobTypes
<1>6. WaitTypes' /\ LiveRows' /\ Numbered' /\ WavesChoose' /\ SeenFree' /\ OwnSlot'
  BY <1>1, <1>2, <1>5, CourtStands DEF WaitInv, WaitTypes, ListTypes, JoinTypes, WaveTypes, NoteTypes, Numbered, WavesChoose, SeenFree, OwnSlot
<1>7. FreedFirst' /\ ToldByOne' /\ Remembered'
  BY <1>1, <1>2, CourtStands DEF WaitInv, FreedFirst, ToldByOne, Remembered, Known, Ticket, Waiting, Reaches
<1>8. GivenUp'
  <2>1. Given' = Chosen(Stale)
    BY <1>3 DEF Given
  <2>2. ASSUME NEW e \in Entries, NEW n \in Nat, <<e, n>> \in Given'
        PROVE  n <= note'.joins /\ (work'.join[e[1]] # 0 => n < note'.joins)
    <3>1. n = list[e].id
      BY <1>4, <2>1, <2>2
    <3>2. QED
      BY <1>1, <1>2, <3>1 DEF WaitInv, Numbered
  <2>3. ASSUME NEW e \in Entries, Ticket(e)' \in Given'
        PROVE  list'[e].notified # "no"
    <3>1. Ticket(e)' = <<e, list[e].id>> /\ list[e].id \in Nat
      BY <1>1 DEF Ticket, WaitInv, WaitTypes, ListTypes
    <3>2. list[e].notified = "a while ago"
      BY <1>4, <2>1, <2>3, <3>1
    <3>3. QED
      BY <1>1, <3>2
  <2>4. QED
    BY <2>2, <2>3 DEF GivenUp
<1>9. QED
  BY <1>6, <1>7, <1>8 DEF WaitInv

\* It gives one up, and a wave is due for its slot if that is free.
LEMMA GivesUp ==
    ASSUME WaitInv, NEW t \in work.job.left, GiveUp(t)
    PROVE  WaitInv'
<1>1. PICK row : row = IF Taken(t[1][2]) THEN Idle ELSE [stage |-> "due", from |-> t[1][2], to |-> t[1][2], chosen |-> {}]
  OBVIOUS
<1>2. /\ UNCHANGED <<rows, list, note>> /\ work.wave[Job] = Idle
      /\ work' = [work EXCEPT !.job = [left |-> @.left \ {t}, closes |-> @.closes \cup {t}], !.wave[Job] = row]
  BY <1>1 DEF GiveUp, FreeWave
<1>3. Job \in Runs
  BY DEF Runs
<1>4. t \in Tickets /\ t[1][2] \in Slots
  <2>1. t \in Tickets
    BY DEF WaitInv, WaitTypes, JobTypes
  <2>2. QED
    BY <2>1 DEF Tickets, Entries
<1>5. row.chosen = {} /\ row.stage # "sending"
      /\ row \in [stage : {"idle", "due", "sending"}, from : Slots \cup {0}, to : Slots \cup {0}, chosen : SUBSET Tickets]
  BY <1>1, <1>4 DEF Idle
<1>6. /\ work'.join = work.join /\ work'.wave = [work.wave EXCEPT ![Job] = row] /\ WorkShape'
      /\ work'.job = [left |-> work.job.left \ {t}, closes |-> work.job.closes \cup {t}]
  BY <1>2 DEF WaitInv, WaitTypes, WorkShape
<1>7. /\ work'.wave[Job] = row
      /\ \A v \in Runs : v # Job => work'.wave[v] = work.wave[v]
  BY <1>3, <1>6 DEF WaitInv, WaitTypes, WaveTypes
<1>8. WaveTypes'
  BY <1>5, <1>6 DEF WaitInv, WaitTypes, WaveTypes
<1>9. JobTypes'
  BY <1>4, <1>6 DEF WaitInv, WaitTypes, JobTypes
<1>10. WaitTypes' /\ LiveRows' /\ SeenFree' /\ OwnSlot'
  BY <1>2, <1>6, <1>8, <1>9, CourtStands DEF WaitInv, WaitTypes, ListTypes, JoinTypes, NoteTypes, SeenFree, OwnSlot
<1>11. \A e \in Entries : Tame(e) /\ list'[e].id \in Nat
  BY <1>2 DEF Tame, WaitInv, WaitTypes, ListTypes
<1>12. \A v \in Runs : work'.wave[v].chosen \subseteq work.wave[v].chosen
  BY <1>5, <1>7
<1>13. Given' = Given
  BY <1>6 DEF Given
<1>14. Numbered' /\ FreedFirst' /\ ToldByOne' /\ GivenUp'
  BY <1>2, <1>6, <1>11, <1>12, <1>13, TameKeeps, NumbersKeep, GivenKeep
<1>15. WavesChoose'
  BY <1>5, <1>7 DEF WaitInv, WavesChoose
<1>16. Remembered'
  <2> SUFFICES ASSUME note.odd \cap {"died", "released"} = {}, NEW e \in Entries, Waiting(e), list[e].taken
               PROVE  Undead(e[2])' \/ \E v \in Runs : Reaches(v, e)'
    BY <1>2 DEF Remembered, Waiting
  <2>1. CASE Undead(e[2])
    BY <2>1, <1>2, CourtStands
  <2>2. CASE \E v \in Runs : Reaches(v, e)
    <3>1. PICK v \in Runs : Reaches(v, e)
      BY <2>2
    <3>2. work.wave[Job].stage = "idle"
      <4>1. work.wave[Job] = Idle
        BY <1>2
      <4>2. QED
        BY ONLY <4>1 DEF Idle
    <3>3. v # Job
      BY <3>1, <3>2 DEF Reaches
    <3>4. Reaches(v, e)'
      BY <1>2, <1>7, <3>1, <3>3 DEF Reaches, Ticket
    <3>5. QED
      BY <3>4
  <2>3. QED
    BY <2>1, <2>2 DEF WaitInv, Remembered
<1>17. QED
  BY <1>10, <1>14, <1>15, <1>16 DEF WaitInv

\* The job is over: those that no wave took along are closed.
LEMMA Ends ==
    ASSUME WaitInv, JobEnds
    PROVE  WaitInv'
<1>1. /\ UNCHANGED <<rows, note>> /\ list' = Without(list, work.job.closes)
      /\ work' = [work EXCEPT !.job = NoJob]
  BY DEF JobEnds
<1>2. work'.join = work.join /\ work'.wave = work.wave /\ work'.job = NoJob /\ WorkShape'
  BY <1>1 DEF WaitInv, WaitTypes, WorkShape
<1>3. list \in [Entries -> EntryType]
  BY DEF WaitInv, WaitTypes, ListTypes, EntryType
<1>4. /\ list' \in [Entries -> EntryType]
      /\ \A e \in Entries : list'[e] = NoEntry \/ list'[e] = list[e]
  BY <1>1, <1>3, WithoutEntries
<1>5. \A e \in Entries : /\ Tame(e) /\ list'[e].id \in Nat
                         /\ list'[e].active => list'[e] = list[e] /\ Ticket(e)' = Ticket(e)
  <2>1. \A e \in Entries : list'[e].id \in Nat
    BY <1>4 DEF EntryType
  <2>2. QED
    BY <1>4, <2>1, Closed DEF Tame, Ticket
<1>6. WaitTypes' /\ LiveRows' /\ WavesChoose'
  <2>1. JobTypes'
    BY <1>2 DEF JobTypes, NoJob
  <2>2. ListTypes'
    BY <1>4 DEF ListTypes, EntryType
  <2>3. QED
    BY <1>1, <1>2, <2>1, <2>2, CourtStands DEF WaitInv, WaitTypes, JoinTypes, WaveTypes, NoteTypes, WavesChoose
<1>7. Given' \subseteq Given
  BY <1>2 DEF Given, NoJob
<1>8. Numbered' /\ FreedFirst' /\ ToldByOne' /\ GivenUp'
  BY <1>1, <1>2, <1>5, <1>7, TameKeeps, NumbersKeep, GivenKeep
<1>9. SeenFree'
  BY <1>1, <1>5, CourtStands DEF WaitInv, SeenFree
<1>10. OwnSlot'
  <2> SUFFICES ASSUME "crossed" \notin note.odd, NEW o \in Bookings, LiveClaim(rows[o])
               PROVE  ~list'[<<rows[o].player, rows[o].from>>].active
    BY <1>1, <1>2 DEF WaitInv, OwnSlot
  <2>1. <<rows[o].player, rows[o].from>> \in Entries
    BY DEF WaitInv, LiveRows, LiveClaim, Entries
  <2>2. ~list[<<rows[o].player, rows[o].from>>].active
    BY DEF WaitInv, OwnSlot
  <2>3. QED
    BY <1>5, <2>1, <2>2
<1>11. Remembered'
  <2>1. \A e \in Entries : Waiting(e)' => /\ Waiting(e) /\ list'[e].taken = list[e].taken
                                          /\ \A v \in Runs : Reaches(v, e) => Reaches(v, e)'
    BY <1>2, <1>5 DEF Waiting, Reaches
  <2>2. QED
    BY <1>1, <2>1, CourtStands DEF WaitInv, Remembered
<1>12. QED
  BY <1>6, <1>8, <1>9, <1>10, <1>11 DEF WaitInv

-----------------------------------------------------------------------------
(* The waitlist: every step                                                *)

LEMMA WaitStep ==
    ASSUME WaitAssumption
    PROVE  WaitInv /\ [Next]_vars => WaitInv'
<1> SUFFICES ASSUME WaitInv, [Next]_vars
             PROVE  WaitInv'
  OBVIOUS
<1>1. CASE UNCHANGED vars
  <2>1. WaitTypes' /\ LiveRows' /\ Numbered' /\ WavesChoose' /\ SeenFree'
    BY <1>1 DEF vars, WaitInv, WaitTypes, RowTypes, ListTypes, JoinTypes, WaveTypes, JobTypes, NoteTypes, WorkShape, LiveRows, Numbered,
       WavesChoose, SeenFree, Claimed
  <2>2. FreedFirst' /\ ToldByOne'
    BY <1>1 DEF vars, WaitInv, FreedFirst, ToldByOne, Known, Ticket
  <2>3. OwnSlot' /\ Remembered'
    BY <1>1 DEF vars, WaitInv, OwnSlot, Remembered, Waiting, Undead, Reaches, Ticket
  <2>4. GivenUp'
    BY <1>1 DEF vars, WaitInv, GivenUp, Given, Ticket
  <2>5. QED
    BY <2>1, <2>2, <2>3, <2>4 DEF WaitInv
<1>2. CASE \E b \in Bookings : HoldRunsOut(b) \/ Book(b) \/ (\E p \in Players : InsertBooking(b, p))
  BY <1>2, BookingMoves, Inserted
<1>3. CASE \E b \in Bookings, w \in Waves : Release(b, w) \/ RejectBalance(b, w)
  BY <1>3, Released, BalanceRejected DEF Runs
<1>4. CASE \E p \in Players : Join(p) \/ Joined(p) \/ \E s \in Slots : Cancel(p, s) \/ Grace(p, s)
  BY <1>4, Joins, HasJoined, OneEntry
<1>5. CASE \E w \in Runs : NotifyMatchingEntries(w) \/ Commit(w) \/ Dies(w)
  BY <1>5, Notifies, Commits, WaveDies
<1>6. CASE AdvanceStaleNotifications \/ (\E t \in work.job.left : GiveUp(t)) \/ JobEnds
  BY <1>6, Advances, GivesUp, Ends
<1>7. QED
  BY <1>1, <1>2, <1>3, <1>4, <1>5, <1>6 DEF Next

\* And what the invariant is for.
LEMMA WaitFaithful == WaitInv => Faithful
<1> SUFFICES ASSUME WaitInv
             PROVE  Faithful
  OBVIOUS
<1>1. DOMAIN list = Entries
  BY DEF WaitInv, WaitTypes, ListTypes
<1>2. NoFalseAlarm
  BY <1>1 DEF WaitInv, FreedFirst, NoFalseAlarm
<1>3. NobodyIsForgotten
  <2>1. \A e \in Entries, w \in Runs : Reaches(w, e) => WaveOver(e[2])
    BY DEF Reaches, WaveOver
  <2>2. QED
    BY <1>1, <2>1 DEF WaitInv, Remembered, NobodyIsForgotten
<1>4. ToldOnce
  BY <1>1 DEF WaitInv, ToldByOne, ToldOnce
<1>5. NotForOwnSlot
  BY DEF WaitInv, OwnSlot, NotForOwnSlot
<1>6. OnlyToldAreGivenUp
  BY <1>1 DEF WaitInv, GivenUp, Given, OnlyToldAreGivenUp
<1>7. QED
  BY <1>2, <1>3, <1>4, <1>5, <1>6 DEF Faithful

=============================================================================
