----------------------------- MODULE VenueCards -----------------------------
(***************************************************************************)
(* Venue settings, on the web and in the mobile app: one card for each     *)
(* group of fields, seeded when it is mounted and saved on its own, and    *)
(* the photo manager of a venue or a court.                                *)
(*                                                                         *)
(* A field's value is a number: None when nothing is set, Bad when what is *)
(* typed cannot be saved, and otherwise which of the values typed so far   *)
(* it is.  Cards of different groups meet only in the venue they show, so  *)
(* a behaviour exercises one group, or the photo manager.                  *)
(***************************************************************************)
EXTENDS Naturals, Sequences, SequencesExt, FiniteSets

CONSTANTS
    MaxEdits,    \* bound: values typed; photos picked or moved, one more
    MaxSaves,    \* bound: saves sent
    MaxFails     \* bound: requests that fail, refetches that fail, changes made elsewhere

VARIABLES
    ui,       \* the page, the drafts, the messages
    server,   \* the venue
    calls     \* the requests in progress and what has been used of the bounds

vars == <<ui, server, calls>>

None == 0
Default == 1
Bad == 9
Fields == {"name", "bank", "pin", "cancel", "points", "horizon", "timers"}
Defaulted == {"points", "horizon", "timers"}
Photos == 1 .. MaxEdits + 2

-----------------------------------------------------------------------------
(* Who sees which cards. *)

\* Card mounted under each tab or section.
WebCards(role) == {"basics", "cancel", "timers"} \cup IF role = "owner" THEN {"points"} ELSE {}
MobileCards(section) ==
    IF section = "timers" THEN {"horizon", "timers"} ELSE {section} \cap {"details", "bank", "cancel", "points"}

\* The group of cards a behaviour exercises.
Groups == {{"basics", "details", "bank"}, {"cancel"}, {"points"}, {"horizon", "timers"}, {}}
CardsAt(place) ==
    ui.focus \cap IF ui.app = "web" THEN (IF place = "venue" THEN WebCards(ui.role) ELSE {}) ELSE MobileCards(place)
Mounted == CardsAt(ui.at)

Hub == {"details", "bank", "cancel", "points", "timers", "photos"}
Places == IF ui.app = "web" THEN {"venue", "courts"} ELSE Hub \cup {"hub"}

\* hubRows: the rows that say something is still missing.
HubWarns == {f \in {"bank", "timers", "points"} : ui.seen[f] = None} \cup IF ui.photos = <<>> THEN {"photos"} ELSE {}

\* venueSettingsAccess: a staff member's screen is a read-only copy of the owner's, photos by permission.
MobileReadOnly(card) == ui.role = "staff" /\ card # "timers"
MobileTimersReadOnly == ui.role = "staff" /\ ~ui.mayEdit
WebTimersReadOnly == ui.role = "staff" /\ ~ui.mayEdit
ReadOnly(card) ==
    IF ui.app = "web" THEN card = "timers" /\ WebTimersReadOnly
    ELSE MobileReadOnly(card) \/ (card = "timers" /\ MobileTimersReadOnly)

\* The fields a card puts into its PATCH: on the phone the details and the bank card are one component.
WebCardFields(card) == IF card = "basics" THEN {"name", "bank", "pin"} ELSE {card}
MobileCardFields(card) == IF card \in {"details", "bank"} THEN {"name", "bank"} ELSE {card}
CardFields(card) == IF ui.app = "web" THEN WebCardFields(card) ELSE MobileCardFields(card)

\* The fields a card shows.
WebBasicsShows == {"name", "bank", "pin"}
MobileBasicsShows(card) == IF card = "bank" THEN {"bank"} ELSE {"name"}
Shows(card) ==
    CASE card = "basics" -> WebBasicsShows
      [] card \in {"details", "bank"} -> MobileBasicsShows(card)
      [] OTHER -> {card}

\* draftFromValues: a value never set is shown, and saved, as its default; the web's pin starts empty.
TimersDraft(v) == IF v = None THEN Default ELSE v
PointsDraft(v) == IF v = None THEN Default ELSE v
HorizonDraft(v) == IF v = None THEN Default ELSE v
Seed(f) ==
    CASE f = "timers" -> TimersDraft(ui.seen[f])
      [] f = "points" -> PointsDraft(ui.seen[f])
      [] f = "horizon" -> HorizonDraft(ui.seen[f])
      [] f = "pin" -> None
      [] OTHER -> ui.seen[f]

Init ==
    \E app \in {"web", "mobile"}, role \in {"owner", "staff"}, mayEdit \in BOOLEAN, focus \in Groups :
    \E bank \in {None, 2} :
        LET venue == [f \in Fields |-> IF f = "bank" THEN bank ELSE IF f \in Defaulted THEN None ELSE 2]
            photos == IF focus # {} THEN <<>> ELSE <<1, 2>> IN
        /\ role = "owner" => mayEdit
        /\ bank = None \/ focus = {"basics", "details", "bank"}
        /\ server = [venue |-> venue, photos |-> photos, removed |-> {}, slips |-> FALSE]
        /\ ui = [app |-> app, role |-> role, mayEdit |-> mayEdit, focus |-> focus,
                 at |-> IF app = "web" THEN "courts" ELSE "hub", seen |-> venue, photos |-> photos,
                 on |-> {"reminders", "cancel"}, wrong |-> {},
                 draft |-> [f \in Fields |-> None], typed |-> {}, note |-> [c \in {"none"} |-> "none"],
                 alert |-> FALSE]
        /\ calls = [saves |-> {}, photo |-> [at |-> "idle", keys |-> <<>>, n |-> 0],
                    made |-> 2, edits |-> 0, sent |-> 0, fails |-> 0]

-----------------------------------------------------------------------------
(* The cards. *)

\* A tab or section is opened: its cards are mounted anew, seeded from the venue the page has.
Open(place) ==
    /\ ui.focus # {} /\ place \in Places \ {ui.at}
    /\ ui.app = "mobile" => "hub" \in {place, ui.at}
    /\ LET cards == CardsAt(place)
           fields == UNION {CardFields(c) : c \in cards} IN
       ui' = [ui EXCEPT !.at = place, !.typed = {},
                        !.on = {"reminders", "cancel"}, !.wrong = {},
                        !.draft = [f \in Fields |-> IF f \in fields THEN Seed(f) ELSE None],
                        !.note = [c \in cards |-> "none"]]
    /\ calls' = [calls EXCEPT !.saves = {[s EXCEPT !.live = FALSE] : s \in @}]
    /\ UNCHANGED server

\* The message goes away with the next key only in the cards that say so.
WebClearsNote(card) == card = "timers"
MobileClearsNote(card) == card \in {"points", "horizon", "timers"}
ClearsNote(card) == IF ui.app = "web" THEN WebClearsNote(card) ELSE MobileClearsNote(card)

\* VenueTimersFields and RemindersCard: the boxes of a switch that is off are not there.
WebTimerBoxes ==
    {"hold"} \cup (IF "reminders" \in ui.on THEN {"first"} ELSE {}) \cup (IF "cancel" \in ui.on THEN {"cancelAfter"} ELSE {})
MobileTimerBoxes == WebTimerBoxes
TimerBoxes == IF ui.app = "web" THEN WebTimerBoxes ELSE MobileTimerBoxes

\* A switch is turned, or a box gets a value that is in its range or not.
SetTimers ==
    /\ "timers" \in Mounted /\ ~ReadOnly("timers") /\ calls.edits <= MaxEdits
    /\ \/ \E switch \in {"reminders", "cancel"} :
            ui' = [ui EXCEPT !.on = IF switch \in @ THEN @ \ {switch} ELSE @ \cup {switch}, !.note["timers"] = "none",
                             !.draft["timers"] = calls.made + 1, !.typed = @ \cup {"timers"}]
       \/ \E box \in TimerBoxes :
            ui' = [ui EXCEPT !.wrong = IF box \in @ THEN @ \ {box} ELSE @ \cup {box}, !.note["timers"] = "none",
                             !.draft["timers"] = calls.made + 1, !.typed = @ \cup {"timers"}]
    /\ calls' = [calls EXCEPT !.edits = @ + 1, !.made = @ + 1]
    /\ UNCHANGED server

Type(card) ==
    /\ card \in Mounted \ {"timers"} /\ ~ReadOnly(card) /\ calls.edits < MaxEdits
    /\ \E f \in Shows(card) \ {"pin"}, v \in {None, Bad, calls.made + 1} :
        ui' = [ui EXCEPT !.draft[f] = v, !.typed = @ \cup {f},
                         !.note[card] = IF ClearsNote(card) THEN "none" ELSE @]
    /\ calls' = [calls EXCEPT !.edits = @ + 1, !.made = @ + 1]
    /\ UNCHANGED server

\* updatePin: the web fills the two fields, to be saved with the others; the phone saves it at once.
WebPin ==
    /\ ui' \in {[ui EXCEPT !.draft["pin"] = calls.made + 1, !.typed = @ \cup {"pin"}], [ui EXCEPT !.note["basics"] = "error"]}
    /\ UNCHANGED server
MobilePin ==
    \/ /\ server' = [server EXCEPT !.venue["pin"] = calls.made + 1]
       /\ UNCHANGED ui
    \/ ui' = [ui EXCEPT !.note["details"] = "error"] /\ UNCHANGED server
UpdatePin ==
    /\ Mounted \cap {"basics", "details"} # {} /\ calls.edits < MaxEdits
    /\ ui.app = "mobile" => ui.role = "owner"
    /\ IF ui.app = "web" THEN WebPin ELSE MobilePin
    /\ calls' = [calls EXCEPT !.edits = @ + 1, !.made = @ + 1]

Saving(card) == \E s \in calls.saves : s.card = card /\ s.live

\* canSave, problem, timer validation: what the button waits for.
BasicsReady == ui.draft["name"] \notin {None, Bad} /\ ui.draft["bank"] # Bad
PointsReady == ui.draft["points"] \notin {None, Bad}
HorizonReady == ui.draft["horizon"] \notin {None, Bad}
WebTimersReady == ui.wrong \cap TimerBoxes = {}
MobileTimersReady == ui.wrong \cap TimerBoxes = {}
TimersReady == IF ui.app = "web" THEN WebTimersReady ELSE MobileTimersReady
Ready(card) ==
    CASE card \in {"basics", "details", "bank"} -> BasicsReady
      [] card = "points" -> PointsReady
      [] card = "horizon" -> HorizonReady
      [] card = "timers" -> TimersReady
      [] OTHER -> TRUE

\* What the cards were seeded with.
SeededValues(card) == [f \in CardFields(card) |-> Seed(f)]

\* valuesFromDraft: the hidden boxes are sent like the others.
SentValue(f) == IF f = "timers" /\ ui.wrong # {} THEN Bad ELSE ui.draft[f]

\* The PATCH: bank details only when one of their fields has something in it, the pin only when it was set.
SentValues(card) ==
    [f \in {g \in CardFields(card) : ui.draft[g] # None \/ g \notin {"bank", "pin"}} |-> SentValue(f)]

Save(card) ==
    /\ card \in Mounted /\ ~ReadOnly(card) /\ ~Saving(card) /\ Ready(card) /\ calls.sent < MaxSaves
    /\ calls' = [calls EXCEPT !.sent = @ + 1,
                              !.saves = @ \cup {[card |-> card, vals |-> SentValues(card), at |-> "sent",
                                                 live |-> TRUE, n |-> calls.sent]}]
    /\ ui' = [ui EXCEPT !.note[card] = "none", !.typed = @ \ CardFields(card)]
    /\ UNCHANGED server

Patched(s) == [f \in Fields |-> IF f \in DOMAIN s.vals THEN s.vals[f] ELSE server.venue[f]]
Says(s, note) == IF s.live THEN [ui EXCEPT !.note[s.card] = note] ELSE ui

\* PATCH /venues/{id} is the owner's, PUT .../timers also a permitted member of staff's; both check every value.
Allowed(s) ==
    /\ ui.role = "owner" \/ (s.card = "timers" /\ ui.mayEdit)
    /\ \A f \in DOMAIN s.vals : s.vals[f] # Bad
TimersSaved(s) == IF s.card = "timers" THEN [Says(s, "ok") EXCEPT !.seen["timers"] = s.vals["timers"]] ELSE ui

Serve(s) ==
    /\ s.at = "sent"
    /\ \/ /\ Allowed(s)
          /\ server' = [server EXCEPT !.venue = Patched(s), !.slips = @ \/ ~s.live]
          /\ calls' = [calls EXCEPT !.saves = (@ \ {s}) \cup IF s.card = "timers" THEN {} ELSE {[s EXCEPT !.at = "refetch"]}]
          /\ ui' = TimersSaved(s)
       \/ /\ Allowed(s) /\ calls.fails < MaxFails
          /\ server' = [server EXCEPT !.venue = Patched(s), !.slips = TRUE]
          /\ calls' = [calls EXCEPT !.saves = @ \ {s}, !.fails = @ + 1]
          /\ ui' = Says(s, "error")
       \/ /\ ~Allowed(s) \/ calls.fails < MaxFails
          /\ calls' = [calls EXCEPT !.saves = @ \ {s}, !.fails = IF Allowed(s) THEN @ + 1 ELSE @]
          /\ ui' = Says(s, "error")
          /\ UNCHANGED server

\* invalidateQueries waits for the refetch and says nothing when it fails.
Refetched(s) ==
    /\ s.at = "refetch"
    /\ calls' = [calls EXCEPT !.saves = @ \ {s}]
    /\ \/ ui' = [Says(s, "ok") EXCEPT !.seen = [server.venue EXCEPT !["timers"] = ui.seen["timers"]]] /\ UNCHANGED server
       \/ ui' = Says(s, "ok") /\ server' = [server EXCEPT !.slips = TRUE]

\* The owner's other device or the venue's staff.
ChangeElsewhere ==
    /\ calls.fails < MaxFails
    /\ \E f \in UNION {CardFields(c) : c \in ui.focus} \ {"pin"} : server' = [server EXCEPT !.venue[f] = calls.made + 1, !.slips = TRUE]
    /\ calls' = [calls EXCEPT !.fails = @ + 1, !.made = @ + 1]
    /\ UNCHANGED ui

-----------------------------------------------------------------------------
(* The photo manager. *)

MaxPhotos == 3
PhotosAllowed == ui.role = "owner" \/ ui.mayEdit

\* Busy until the photos are stored, and no longer.
BusyUntilStored == calls.photo.at \in {"upload", "reorder"}

\* busy: until the list on the screen has been read again.
PhotoBusy == calls.photo.at # "idle"

\* PhotoManager: what it offers; the web shows it to every member of staff, the phone by permission.
WebPhotos ==
    IF PhotoBusy THEN {} ELSE (IF Len(ui.photos) < MaxPhotos THEN {"add"} ELSE {})
                            \cup (IF ui.photos # <<>> THEN {"remove", "move"} ELSE {})
MobilePhotos == IF PhotosAllowed THEN WebPhotos ELSE {}
PhotoOffers == IF ui.focus # {} THEN {} ELSE IF ui.app = "web" THEN WebPhotos ELSE MobilePhotos

\* onFiles and add: as many as there is room for, one after the other.
PickPhotos ==
    /\ "add" \in PhotoOffers /\ calls.edits <= MaxEdits
    /\ \E n \in 1 .. MaxPhotos - Len(ui.photos) :
        calls' = [calls EXCEPT !.photo = [at |-> "upload", keys |-> <<>>, n |-> n], !.edits = @ + 1]
    /\ ui' = [ui EXCEPT !.alert = FALSE]
    /\ UNCHANGED server

PhotoFailed(after) ==
    /\ calls.photo.n > 0 => calls.fails < MaxFails \/ ~PhotosAllowed
    /\ ui' = [ui EXCEPT !.alert = TRUE]
    /\ calls' = [calls EXCEPT !.photo.at = after, !.photo.n = IF @ > 0 THEN @ - 1 ELSE 0,
                              !.fails = IF @ < MaxFails THEN @ + 1 ELSE @]

UploadPhoto ==
    /\ calls.photo.at = "upload"
    /\ \/ /\ PhotosAllowed /\ calls.made < Cardinality(Photos)
          /\ server' = [server EXCEPT !.photos = Append(@, calls.made + 1)]
          /\ calls' = [calls EXCEPT !.photo.at = "refetch", !.made = @ + 1, !.photo.n = @ - 1]
          /\ UNCHANGED ui
       \/ PhotoFailed(IF calls.photo.n > 1 THEN "upload" ELSE "idle") /\ UNCHANGED server

\* PUT .../photos replaces the list: a key that is not in it is deleted.
Reorder(keys, removed) ==
    /\ ui.focus = {} /\ calls.edits <= MaxEdits
    /\ calls' = [calls EXCEPT !.photo = [at |-> "reorder", keys |-> keys, n |-> 0], !.edits = @ + 1]
    /\ ui' = [ui EXCEPT !.alert = FALSE]
    /\ server' = [server EXCEPT !.removed = @ \cup removed]
RemovePhoto(i) == "remove" \in PhotoOffers /\ Reorder(RemoveAt(ui.photos, i), {ui.photos[i]})
MovePhoto(i, j) ==
    "move" \in PhotoOffers /\ i # j /\ Reorder([ui.photos EXCEPT ![i] = ui.photos[j], ![j] = ui.photos[i]], {})

\* set_photos refuses a key the venue does not have.
StorePhotos ==
    /\ calls.photo.at = "reorder"
    /\ \/ /\ PhotosAllowed /\ ToSet(calls.photo.keys) \subseteq ToSet(server.photos)
          /\ server' = [server EXCEPT !.photos = calls.photo.keys]
          /\ calls' = [calls EXCEPT !.photo.at = "refetch"]
          /\ UNCHANGED ui
       \/ PhotoFailed("idle") /\ UNCHANGED server

ShowPhotos ==
    /\ calls.photo.at = "refetch"
    /\ \/ ui' = [ui EXCEPT !.photos = server.photos] /\ UNCHANGED server
       \/ server' = [server EXCEPT !.slips = TRUE] /\ UNCHANGED ui
    /\ calls' = [calls EXCEPT !.photo.at = IF calls.photo.n > 0 THEN "upload" ELSE "idle"]

-----------------------------------------------------------------------------
Next ==
    \/ SetTimers
    \/ \E place \in Hub \cup {"hub", "venue", "courts"} : Open(place)
    \/ \E card \in Mounted : Type(card) \/ Save(card)
    \/ UpdatePin \/ ChangeElsewhere
    \/ \E s \in calls.saves : Serve(s) \/ Refetched(s)
    \/ PickPhotos \/ UploadPhoto \/ StorePhotos \/ ShowPhotos
    \/ \E i \in DOMAIN ui.photos : RemovePhoto(i)
    \/ \E i, j \in DOMAIN ui.photos : MovePhoto(i, j)

Spec == Init /\ [][Next]_vars

-----------------------------------------------------------------------------
Values == 0 .. MaxEdits + MaxFails + 3 \cup {Bad}

\* The page, the venue and the requests keep their shape.
TypeOK ==
    /\ ui.draft \in [Fields -> Values] /\ ui.seen \in [Fields -> Values] /\ ui.typed \subseteq Fields
    /\ DOMAIN ui.note = IF ui.at \in {"hub", "courts", "photos"} /\ Mounted = {} THEN DOMAIN ui.note ELSE Mounted
    /\ server.venue \in [Fields -> Values \ {Bad}]
    /\ ToSet(ui.photos) \cup ToSet(server.photos) \subseteq Photos /\ server.removed \subseteq Photos
    /\ \A s \in calls.saves : s.at \in {"sent", "refetch"}

\* "Save ho gaya" next to a form nobody touched since is true of every field the card shows: the venue has
\* those values, as long as no refetch failed, no answer was lost, nobody else changed the venue and no
\* save of a card that was left is still to come.
SavedIsStored ==
    \A c \in Mounted \cap DOMAIN ui.note :
        /\ ui.note[c] = "ok" /\ ~server.slips
        /\ ~\E s \in calls.saves : ~s.live
        => \A f \in (Shows(c) \ ui.typed) \ {"pin"} : server.venue[f] = ui.draft[f] \/ ui.draft[f] = None

\* A photo leaves the venue only when somebody pressed "remove" on it: reordering, done by sending the whole
\* list, never drops one that was uploaded meanwhile, unless a refetch failed.
OnlyRemovedPhotosGo ==
    ui.focus = {} /\ ~server.slips
    => \A p \in 1 .. calls.made : p \in ToSet(server.photos) \cup server.removed

Faithful == SavedIsStored /\ OnlyRemovedPhotosGo

\* "Blanking all three clears them" (settings/page.tsx:431): a saved form with the bank fields empty leaves
\* a venue without bank details.
BlankingClears ==
    \A c \in Mounted \cap {"basics"} :
        ui.note[c] = "ok" /\ ~server.slips /\ "bank" \notin ui.typed /\ calls.saves = {} /\ ui.draft["bank"] = None
        => server.venue["bank"] = None

\* "reminders off: their boxes are hidden and not saved as wrong" (settings-defaults.ts:123): what the form
\* lets the owner save is not refused for a box it does not show.
HiddenBoxesAreFine == \A s \in calls.saves : s.card = "timers" => s.vals["timers"] # Bad

=============================================================================
