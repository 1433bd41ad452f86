----------------------------- MODULE SlotPicker -----------------------------
(***************************************************************************)
(* Choosing a time: the player's day popup with its length sheet (web),    *)
(* the venue screen (mobile), and the owner's walk-in form (both).  The    *)
(* day's half-hour slots are a snapshot that ages: time drops rows, others *)
(* take slots, and the price comes from a quote that lags the selection.   *)
(***************************************************************************)
EXTENDS Integers, FiniteSets

CONSTANTS
    Slots,        \* the slots of a day: 1 .. n, back to back
    MinSlots,     \* the court's minimum booking time
    MaxSlots,     \* MAX_BOOKING_MINUTES, in slots
    MaxChanges,   \* bound: how often other people take or free a slot
    MaxAsks       \* bound: how often this screen asks for a booking

VARIABLES
    ui,       \* the screen: day, its slots as loaded, selection, quote, sheet and the lengths picked in it
    server,   \* the calendar of both days, and the time today
    calls     \* the hold or walk-in in flight

vars == <<ui, server, calls>>

Days == {1, 2}   \* today, and another day
None == 0
NoQuote == [start |-> None, count |-> 0]
Statuses == {"available", "taken", "mine"}

Init ==
    /\ \E app \in {"popup", "venue", "walkin"} :
        ui = [app |-> app, day |-> 1, data |-> <<>>, start |-> None, count |-> MinSlots,
              quote |-> NoQuote, sheet |-> FALSE, picked |-> {}]
    /\ server = [slot |-> [d \in Days |-> [s \in Slots |-> "available"]], now |-> 0, changes |-> 0, asks |-> 0]
    /\ calls = {}

-----------------------------------------------------------------------------
(* What the screen derives from its snapshot and the clock. *)

\* Today's slot s starts at s and ends at s + 1.
Started(d, s) == d = 1 /\ server.now >= s
Ended(d, s) == d = 1 /\ server.now > s

\* upcomingSlots: over is gone, and so is a free slot under way.
PlayerRows == {s \in DOMAIN ui.data : ~Ended(ui.day, s) /\ (ui.data[s] = "available" => ~Started(ui.day, s))}

\* walkinSlots: the slot in progress is still offered.
WalkinRows == {s \in DOMAIN ui.data : ~Ended(ui.day, s)}

Rows == IF ui.app = "walkin" THEN WalkinRows ELSE PlayerRows

\* A walk over the rows that looks at the first one only.
FirstIsFree(s, n) == \A k \in s .. s + n - 1 : k \in Rows /\ (k = s => ui.data[k] = "available")

\* fitsFrom: n rows from s, free and back to back.
FitsFrom(s, n) == \A k \in s .. s + n - 1 : k \in Rows /\ ui.data[k] = "available"

\* durationChoices: the court's minimum, then one slot more at a time.
DurationChoices(s) == {n \in MinSlots .. MaxSlots : FitsFrom(s, n)}

\* durationOptions: the venue screen asks for the length first.
DurationOptions == {n \in MinSlots .. MinSlots + 2 : n <= MaxSlots}

\* The row of the chosen start: found again by its time on every render, never by its place.
StartRow == IF ui.start \in Rows THEN ui.start ELSE None

\* pickerModel: the start counts only while the whole length still fits.
PickerModel == IF StartRow # None /\ ~Started(ui.day, StartRow) /\ FitsFrom(StartRow, ui.count)
               THEN StartRow ELSE None

\* The walk-in's selectedChoice.
SelectedChoice == IF StartRow # None /\ ui.count \in DurationChoices(StartRow) THEN StartRow ELSE None

\* slotRowSpec / slotChipState: what a row is, and so what a tap does.
ChipState(s) ==
    CASE ui.data[s] = "mine" -> "mine"
      [] ui.data[s] = "taken" -> "booked"
      [] (ui.app = "venue" /\ FitsFrom(s, ui.count)) \/ (ui.app # "venue" /\ DurationChoices(s) # {}) -> "open"
      [] OTHER -> "noRoom"

Selection == [start |-> ui.start, count |-> ui.count]

\* The walk-in form has no quote until this selection's own arrives; the player's screens
\* go on showing the previous one (the query client's placeholderData).
WalkinQuote == IF ui.quote = Selection THEN ui.quote ELSE NoQuote
PlayerQuote == IF ui.app = "venue" /\ PickerModel = None THEN NoQuote ELSE ui.quote
Quote == IF ui.app = "walkin" THEN WalkinQuote ELSE PlayerQuote
Holding == calls # {}
MayAsk == ~Holding /\ server.asks < MaxAsks

\* Going on from the popup leaves its page.
OnThisPage == ~(ui.app = "popup" /\ Holding)

\* The venue's bar at the bottom and its confirm sheet: "Book" and "Hold" need a price.
BookBar == ~ui.sheet /\ PickerModel # None /\ Quote # NoQuote
ConfirmSheet == ui.sheet /\ PickerModel # None /\ Quote # NoQuote

\* The walk-in's save button, and its "+ 30 min" and "- 30 min".
WalkinForm == SelectedChoice # None /\ Quote # NoQuote
Stepper == IF StartRow = None THEN {} ELSE DurationChoices(StartRow) \cap {ui.count - 1, ui.count + 1}

\* For the properties: the length, if all its slots are free in the list on the screen.
Shown(s, n) == {m \in {n} : \A k \in s .. s + n - 1 : k \in Rows /\ ui.data[k] = "available"}

-----------------------------------------------------------------------------
Tick ==
    /\ \E s \in Slots : server.now < s
    /\ server' = [server EXCEPT !.now = @ + 1]
    /\ UNCHANGED <<ui, calls>>

TakenOrFreed(d, s) ==
    /\ server.changes < MaxChanges /\ server.slot[d][s] # "mine"
    /\ server' = [server EXCEPT !.changes = @ + 1,
                    !.slot[d][s] = IF @ = "available" THEN "taken" ELSE "available"]
    /\ UNCHANGED <<ui, calls>>

\* The day loads, or is loaded again: every 30 s, on focus, after a refusal.  The popup's sheet
\* closes when its row is gone; a row that somebody took stays a row.
ShowDay ==
    /\ ui' = [ui EXCEPT !.data = server.slot[ui.day],
                !.start = IF ui.app = "popup" /\ StartRow = None THEN None ELSE @]
    /\ ui' # ui /\ OnThisPage
    /\ UNCHANGED <<server, calls>>

\* Another day or court: no slots until they load, and nothing is selected.
ChooseDay(d) ==
    /\ d # ui.day /\ ~ui.sheet /\ OnThisPage
    /\ ui' = [ui EXCEPT !.day = d, !.data = <<>>, !.start = None,
                        !.count = IF ui.app = "venue" THEN @ ELSE MinSlots]
    /\ UNCHANGED <<server, calls>>

\* Popup: the tapped slot opens the length sheet, with a quote of its own.
TapInPopup(s) ==
    /\ ui.app = "popup" /\ ui.start = None /\ ChipState(s) = "open"
    /\ \E n \in DurationChoices(s) :
        /\ \A m \in DurationChoices(s) : n <= m
        /\ ui' = [ui EXCEPT !.start = s, !.count = n, !.quote = NoQuote, !.sheet = TRUE, !.picked = Shown(s, n)]

\* Venue: a tap picks a start, a tap on the picked range lets it go.
TapInVenue(s) ==
    /\ ui.app = "venue" /\ ~ui.sheet
    /\ LET range == IF PickerModel = None THEN {} ELSE PickerModel .. PickerModel + ui.count - 1 IN
       \/ s \in range /\ ui' = [ui EXCEPT !.start = None]
       \/ s \notin range /\ ChipState(s) = "open" /\ ui' = [ui EXCEPT !.start = s]

\* Walk-in: a first tap starts, a later one stretches to it when it can be reached.
TapInWalkin(s) ==
    /\ ui.app = "walkin" /\ ui.data[s] = "available"
    /\ LET most(a, b) == IF a > b THEN a ELSE b
           reach == most(s - StartRow + 1, MinSlots) IN
       IF StartRow # None /\ s > StartRow /\ reach \in DurationChoices(StartRow)
       THEN ui' = [ui EXCEPT !.count = reach]
       ELSE \E n \in DurationChoices(s) :
                /\ \A m \in DurationChoices(s) : n <= m
                /\ ui' = [ui EXCEPT !.start = s, !.count = n]

Tap(s) ==
    /\ s \in Rows /\ OnThisPage
    /\ TapInPopup(s) \/ TapInVenue(s) \/ TapInWalkin(s)
    /\ UNCHANGED <<server, calls>>

\* The chips of the sheet, the length toggle, "+ 30 min" and "- 30 min".
ChooseLength(n) ==
    /\ n # ui.count
    /\ CASE ui.app = "popup" -> ui.sheet /\ StartRow # None /\ n \in DurationChoices(StartRow)
         [] ui.app = "venue" -> ~ui.sheet /\ n \in DurationOptions
         [] ui.app = "walkin" -> n \in Stepper
    /\ ui' = [ui EXCEPT !.count = n, !.picked = IF ui.app = "popup" THEN @ \cup Shown(ui.start, n) ELSE @]
    /\ UNCHANGED <<server, calls>>

\* The server prices the selection.
QuoteArrives ==
    /\ ui.start # None /\ ui.quote # Selection
    /\ ui.app = "venue" => PickerModel # None
    /\ ui.app = "walkin" => SelectedChoice # None
    /\ ui' = [ui EXCEPT !.quote = Selection]
    /\ UNCHANGED <<server, calls>>

\* "Book": the venue's confirm sheet.
OpenSheet ==
    /\ ui.app = "venue" /\ BookBar
    /\ ui' = [ui EXCEPT !.sheet = TRUE]
    /\ UNCHANGED <<server, calls>>

CloseSheet ==
    /\ ui.sheet /\ ui.app # "walkin"
    /\ ui' = [ui EXCEPT !.sheet = FALSE, !.start = IF ui.app = "popup" THEN None ELSE @, !.picked = {}]
    /\ UNCHANGED <<server, calls>>

\* A request remembers whether its slots are free on the screen, and whether they were when its length was chosen.
Request(start, count) ==
    [day |-> ui.day, start |-> start, count |-> count, at |-> "sent",
     shown |-> Shown(start, count) # {}, picked |-> count \in ui.picked]

\* DurationSheet: the popup goes on to the chat with the length whose price is on the sheet, which may be that of
\* the length chosen before.
Continue ==
    /\ ui.app = "popup" /\ ui.sheet /\ StartRow # None /\ Quote # NoQuote /\ MayAsk
    /\ calls' = {Request(StartRow, Quote.count)}
    /\ ui' = [ui EXCEPT !.start = None, !.sheet = FALSE, !.picked = {}]
    /\ UNCHANGED server

\* VenueScreen.bookNow.
BookNow ==
    /\ ui.app = "venue" /\ ConfirmSheet /\ MayAsk
    /\ calls' = {Request(PickerModel, ui.count)}
    /\ UNCHANGED <<ui, server>>

\* The walk-in's handleSubmit; name, phone, opt-in and amount are filled in.
SaveWalkin ==
    /\ ui.app = "walkin" /\ WalkinForm /\ MayAsk
    /\ calls' = {Request(SelectedChoice, ui.count)}
    /\ UNCHANGED <<ui, server>>

\* The server's hold: every slot of the range free, none over (a walk-in may be under way).
Hold(c) ==
    LET range == c.start .. c.start + c.count - 1
        over(s) == IF ui.app = "walkin" THEN Ended(c.day, s) ELSE Started(c.day, s)
        free == \A s \in range : s \in Slots /\ server.slot[c.day][s] = "available" /\ ~over(s) IN
    /\ c.at = "sent"
    /\ server' = [server EXCEPT !.asks = @ + 1, !.slot[c.day] =
            [s \in Slots |-> IF free /\ s \in range THEN "mine" ELSE @[s]]]
    /\ calls' = {[c EXCEPT !.at = IF free THEN "held" ELSE "taken"]}
    /\ UNCHANGED ui

LoseHold(c) ==
    /\ c.at \in {"sent", "held"}
    /\ calls' = {[c EXCEPT !.at = "failed"]}
    /\ UNCHANGED <<ui, server>>

\* Success and a refusal over the slots clear the selection; holdErrorCopy.refreshSlots.
Answered(c) ==
    /\ c.at # "sent"
    /\ calls' = {}
    /\ ui' = IF c.at = "failed" THEN ui
             ELSE [ui EXCEPT !.start = None,
                             !.sheet = IF c.at = "held" THEN FALSE ELSE @]
    /\ UNCHANGED server

Next ==
    \/ Tick \/ ShowDay \/ QuoteArrives \/ OpenSheet \/ CloseSheet \/ Continue \/ BookNow \/ SaveWalkin
    \/ \E d \in Days : ChooseDay(d) \/ \E s \in Slots : TakenOrFreed(d, s)
    \/ \E s \in Slots : Tap(s)
    \/ \E n \in MinSlots .. MaxSlots : ChooseLength(n)
    \/ \E c \in calls : Hold(c) \/ LoseHold(c) \/ Answered(c)

Spec == Init /\ [][Next]_vars

-----------------------------------------------------------------------------
TypeOK ==
    /\ ui.start \in Slots \cup {None} /\ ui.count \in MinSlots .. MaxSlots
    /\ DOMAIN ui.data \subseteq Slots /\ Cardinality(calls) <= 1
    /\ server.slot \in [Days -> [Slots -> Statuses]]

\* What is asked of the server is a row of free slots on the screen when it is asked, of the day then shown
\* and at least the court's minimum, however the list was reloaded, thinned out by the clock or switched to
\* another day since the first tap.
AskedAsShown == \A c \in calls : c.shown /\ c.count >= MinSlots
\* The popup's sheet stays open over slots that are taken meanwhile and may go on with the length chosen before:
\* what it asks for was free on the screen when the player chose it, since this sheet opened.
AskedAsPicked == \A c \in calls : c.picked /\ c.count >= MinSlots

Faithful == IF ui.app = "popup" THEN AskedAsPicked ELSE AskedAsShown

=============================================================================
