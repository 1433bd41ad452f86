----------------------------- MODULE VenueWizard -----------------------------
(***************************************************************************)
(* The two steps in which an owner registers a venue, on the web and in    *)
(* the mobile app: the draft kept in the browser or the phone, the run of  *)
(* requests "send for review" makes of it, resumable after a failure, and  *)
(* the pages shown while an admin decides.                                 *)
(*                                                                         *)
(* A court of the draft has a number that never changes (`of`), and a      *)
(* revision: the name, hours and prices typed last.  A court of the server *)
(* remembers which court of the draft it was created for.                  *)
(***************************************************************************)
EXTENDS Naturals, Sequences, SequencesExt, FiniteSets

CONSTANTS
    MaxTabs,     \* bound: courts in the draft
    MaxCourts,   \* bound: courts created on the server
    MaxFails,    \* bound: requests that fail or whose answer is lost
    MaxEdits     \* bound: courts added, edited or removed

VARIABLES
    ui,       \* the draft and the page
    server,   \* venues, courts and the owner's CNIC
    calls     \* the run of requests in progress, with what it read when it started

vars == <<ui, server, calls>>

None == 0
Unset == 2     \* a court that has no hours and prices yet
Venues == 1 .. 2
Busy == calls.at # "idle"

\* makeCourt: the web copies the court before it, the mobile app starts from the defaults.
MakeCourt(of, from) == [of |-> of, rev |-> IF ui.app = "web" THEN from.rev ELSE 0]

\* initialState, once per app.
WebDraft == [app |-> "web", courts |-> <<[of |-> 1, rev |-> 0]>>, ids |-> [i \in 1 .. MaxTabs |-> None],
             orphans |-> {}, venue |-> None, made |-> 1]
MobileDraft == [WebDraft EXCEPT !.app = "mobile"]

\* migrate: a draft of an old version keeps its courts; each gets the hours they shared, and
\* nothing was queued for deactivation yet.
WebMigrated(old) == [old EXCEPT !.courts = [i \in DOMAIN @ |-> [@[i] EXCEPT !.rev = old.shared]], !.orphans = {}]
MobileMigrated(old) ==
    [old EXCEPT !.courts = IF @ = <<>> THEN MobileDraft.courts ELSE [i \in DOMAIN @ |-> [@[i] EXCEPT !.rev = old.shared]],
                !.orphans = {}]

Page(draft) ==
    [app |-> draft.app, courts |-> draft.courts, ids |-> draft.ids, orphans |-> draft.orphans, venue |-> draft.venue,
     made |-> draft.made, at |-> "register", form |-> "empty", pin |-> "none",
     cnic |-> "empty", onFile |-> "unknown", note |-> "none", review |-> "unread"]

Init ==
    /\ \E shared \in 0 .. 1, draft \in {WebDraft, MobileDraft} :
        LET old == [shared |-> shared] @@ draft IN
        ui = Page(IF draft.app = "web" THEN WebMigrated(old) ELSE MobileMigrated(old))
    /\ \E cnic \in {"missing", "rejected"} :
        server = [venues |-> 0, courts |-> {}, foreign |-> {}, cnic |-> cnic, timers |-> {}, review |-> "pending",
                  slips |-> FALSE]
    /\ calls = [at |-> "idle", i |-> 1, setup |-> None, courts |-> <<>>, ids |-> ui.ids, orphans |-> {},
                onFile |-> FALSE, stored |-> FALSE, fails |-> 0, edits |-> 0, venue |-> None]

-----------------------------------------------------------------------------
(* Step 1, the venue. *)

\* isValid of the register pages: the texts and sports are there, a pin is set, the bank details
\* are all right or all empty.
WebBasicsValid == ui.form = "full" /\ ui.pin = "set"
MobileBasicsValid == WebBasicsValid

WebRegister ==
    {"type", "locate"} \cup (IF ui.pin = "none" THEN {"cityCentre"} ELSE {})
                       \cup (IF WebBasicsValid THEN {"next"} ELSE {})
MobileRegister ==
    {"type", "locate", "saveAndExit"} \cup (IF ui.pin = "none" THEN {"cityCentre"} ELSE {})
                                      \cup (IF MobileBasicsValid THEN {"next"} ELSE {})
RegisterOffers == IF ui.app = "web" THEN WebRegister ELSE MobileRegister

Type ==
    /\ ui.at = "register"
    /\ \E form \in {"empty", "halfBank", "full"} : ui' = [ui EXCEPT !.form = form]
    /\ UNCHANGED <<server, calls>>

\* handleUseLocation: granted, or refused and the pin stays what it was.
UseLocation ==
    /\ ui.at = "register"
    /\ ui' \in {[ui EXCEPT !.pin = "set"], ui}
    /\ UNCHANGED <<server, calls>>

UseCityCentre ==
    /\ ui.at = "register" /\ "cityCentre" \in RegisterOffers
    /\ ui' = [ui EXCEPT !.pin = "set"]
    /\ UNCHANGED <<server, calls>>

GoToCourts ==
    /\ ui.at = "register" /\ "next" \in RegisterOffers
    /\ ui' = [ui EXCEPT !.at = "courts", !.note = "none"]
    /\ UNCHANGED <<server, calls>>

-----------------------------------------------------------------------------
(* Step 2, the courts. *)

WebTabs == {"select", "add"} \cup (IF Len(ui.courts) > 1 THEN {"delete"} ELSE {})
MobileTabs == WebTabs
TabOffers == IF ui.app = "web" THEN WebTabs ELSE MobileTabs

Editing == ui.at = "courts" /\ calls.edits < MaxEdits
Edited == calls' = [calls EXCEPT !.edits = @ + 1]

AddCourt ==
    /\ Editing /\ "add" \in TabOffers /\ Len(ui.courts) < MaxTabs
    /\ ui' = [ui EXCEPT !.courts = Append(@, MakeCourt(ui.made + 1, Last(@))), !.made = @ + 1]
    /\ Edited /\ UNCHANGED server

UpdateCourt(i) ==
    /\ Editing
    /\ ui' = [ui EXCEPT !.courts[i].rev = 1 - @]
    /\ Edited /\ UNCHANGED server

\* The index-to-id map left as it was.
KeepsIndexes(ids, i) == ids

\* Every later court moves down by one, and so do their ids.
Rekeyed(ids, i) == [k \in DOMAIN ids |-> IF k < i THEN ids[k] ELSE IF k + 1 \in DOMAIN ids THEN ids[k + 1] ELSE None]

\* removeCourt: a court the server already has waits to be deactivated.
RemoveCourt(i) ==
    /\ Editing /\ "delete" \in TabOffers
    /\ ui' = [ui EXCEPT !.courts = RemoveAt(@, i), !.ids = Rekeyed(@, i), !.orphans = @ \cup ({ui.ids[i]} \ {None})]
    /\ server' = [server EXCEPT !.slips = @ \/ Busy]
    /\ Edited

\* CnicFields and PhotoPick: a number and a photo of each side, each refused when unusable.
CnicFields ==
    /\ ui.at = "courts"
    /\ \E cnic \in {"number", "ready"} : ui.cnic # "ready" /\ ui' = [ui EXCEPT !.cnic = cnic]
    /\ UNCHANGED <<server, calls>>

\* useOwnerIdentity: read once when the page opens, or not at all.
ReadIdentity ==
    /\ ui.at = "courts" /\ ui.onFile = "unknown"
    /\ ui' = [ui EXCEPT !.onFile = server.cnic]
    /\ UNCHANGED <<server, calls>>

\* A rejected CNIC counts as on file on the web, not in the mobile app.
WebOnFile == ui.onFile \in {"rejected", "submitted"}
MobileOnFile == ui.onFile = "submitted"
OnFile == IF ui.app = "web" THEN WebOnFile ELSE MobileOnFile

\* identityDraftReady / cnicDraftComplete.
CnicReady == ui.cnic = "ready"

\* The pages' last button.
WebCourts == IF ~Busy /\ (OnFile \/ CnicReady) THEN {"send"} ELSE {}
MobileCourts == WebCourts
CourtsOffer == (IF ui.app = "web" THEN WebCourts ELSE MobileCourts)
               \cup IF ui.note = "stale" THEN {"startFresh"} ELSE {}

-----------------------------------------------------------------------------
(* handleSubmit. *)

\* The web asks for the CNIC after the venue exists, the mobile app before anything is created.
Steps == IF ui.app = "web" THEN <<"venue", "orphans", "courts", "timers", "cnic", "finish">>
         ELSE <<"cnic", "venue", "orphans", "courts", "timers", "finish">>
Index(step) == CHOOSE k \in DOMAIN Steps : Steps[k] = step
Advanced == [calls EXCEPT !.at = Steps[Index(calls.at) + 1], !.fails = calls.fails]

Send ==
    /\ ui.at = "courts" /\ "send" \in CourtsOffer
    /\ calls' = [calls EXCEPT !.at = Steps[1], !.i = 1, !.setup = None, !.courts = ui.courts, !.ids = ui.ids,
                              !.orphans = ui.orphans, !.onFile = OnFile, !.venue = ui.venue,
                              !.stored = ui.venue # None \/ \E i \in DOMAIN ui.ids : ui.ids[i] # None]
    /\ ui' = [ui EXCEPT !.note = "none"]
    /\ UNCHANGED server

Stopped(note) ==
    /\ ui' = [ui EXCEPT !.note = note]
    /\ calls' = [calls EXCEPT !.at = "idle", !.fails = @ + (IF note = "stale" THEN 0 ELSE 1)]

\* catch: ids the saved draft brought are forgotten when the server does not know them for ours.
WebCatchStale ==
    /\ ui' = [ui EXCEPT !.venue = None, !.ids = [i \in DOMAIN @ |-> None], !.orphans = {}, !.note = "stale"]
    /\ calls' = [calls EXCEPT !.at = "idle"]
MobileCatchStale ==
    /\ ui' = [ui EXCEPT !.venue = None, !.ids = [i \in DOMAIN @ |-> None], !.note = "stale"]
    /\ calls' = [calls EXCEPT !.at = "idle"]
CatchStale ==
    /\ IF calls.stored THEN IF ui.app = "web" THEN WebCatchStale ELSE MobileCatchStale ELSE Stopped("error")
    /\ server' = [server EXCEPT !.slips = @ \/ \E c \in server.courts : c.live /\ c.venue \notin server.foreign]

\* A request is answered, does not arrive, or is carried out and its answer is lost.
Request(after, success) ==
    \/ server' = after /\ success
    \/ calls.fails < MaxFails /\ UNCHANGED server /\ Stopped("error")
    \/ /\ calls.fails < MaxFails
       /\ server' = [after EXCEPT !.slips = @ \/ after.venues # server.venues
                                              \/ Cardinality(after.courts) # Cardinality(server.courts)]
       /\ Stopped("error")

CreateVenue ==
    /\ calls.at = "venue"
    /\ IF calls.venue # None
       THEN calls' = Advanced /\ UNCHANGED <<ui, server>>
       ELSE /\ server.venues + 1 \in Venues
            /\ LET id == server.venues + 1 IN
               Request([server EXCEPT !.venues = id],
                       ui' = [ui EXCEPT !.venue = id] /\ calls' = [Advanced EXCEPT !.venue = id])

\* A court removed after it was created is deactivated.  The web drops it from the queue once the
\* server has answered, and stops on an error; the mobile app goes on and empties the queue.
Deactivated(id) == [server EXCEPT !.courts = {IF c.id = id THEN [c EXCEPT !.live = FALSE] ELSE c : c \in @}]
Foreign(id) == \E c \in server.courts : c.id = id /\ c.venue \in server.foreign

WebDeactivate ==
    \E id \in calls.orphans :
        LET dropped == /\ ui' = [ui EXCEPT !.orphans = @ \ {id}]
                       /\ calls' = [calls EXCEPT !.orphans = @ \ {id}] IN
        IF Foreign(id) THEN dropped /\ UNCHANGED server ELSE Request(Deactivated(id), dropped)
MobileDeactivate ==
    \E id \in calls.orphans :
        /\ calls' = [calls EXCEPT !.orphans = @ \ {id}]
        /\ \/ server' = IF Foreign(id) THEN server ELSE Deactivated(id)
           \/ server' = [server EXCEPT !.slips = TRUE]
        /\ UNCHANGED ui

DeactivateOrphans ==
    /\ calls.at = "orphans"
    /\ IF calls.orphans = {}
       THEN /\ calls' = Advanced
            /\ ui' = IF ui.app = "web" THEN ui ELSE [ui EXCEPT !.orphans = {}]
            /\ UNCHANGED server
       ELSE IF ui.app = "web" THEN WebDeactivate ELSE MobileDeactivate

\* Only the ids an earlier attempt left count; the mobile app reads them as it goes.
KnownId == IF ui.app = "web" THEN calls.ids[calls.i] ELSE ui.ids[calls.i]
Current == calls.courts[calls.i]
NewId == Cardinality(server.courts) + 1

\* POST /courts always inserts.
CreateCourt ==
    /\ NewId <= MaxCourts
    /\ LET row == [id |-> NewId, venue |-> calls.venue, of |-> Current.of, named |-> Current.rev, priced |-> Unset, live |-> TRUE] IN
       Request([server EXCEPT !.courts = @ \cup {row}],
               /\ calls' = [calls EXCEPT !.setup = NewId]
               /\ ui' = [ui EXCEPT !.ids[calls.i] = NewId])

\* update_court, set_schedule and set_pricing_rules replace what was there.
Patched(id, field) ==
    [server EXCEPT !.courts = {IF c.id # id THEN c
                               ELSE IF field = "row" THEN [c EXCEPT !.named = Current.rev]
                               ELSE [c EXCEPT !.priced = Current.rev] : c \in @}]

UpdateCourtRow ==
    IF Foreign(KnownId) THEN CatchStale
    ELSE Request(Patched(KnownId, "row"), calls' = [calls EXCEPT !.setup = KnownId] /\ UNCHANGED ui)

\* Create again whatever an earlier attempt did.
AlwaysCreates == TRUE
CreatesFirst == KnownId = None

SetUpCourt ==
    Request(Patched(calls.setup, "hours"), calls' = [calls EXCEPT !.i = @ + 1, !.setup = None] /\ UNCHANGED ui)

SaveCourts ==
    /\ calls.at = "courts"
    /\ IF calls.i > Len(calls.courts) THEN calls' = Advanced /\ UNCHANGED <<ui, server>>
       ELSE IF calls.setup # None THEN SetUpCourt
       ELSE IF calls.venue \in server.foreign THEN CatchStale
       ELSE IF CreatesFirst THEN CreateCourt ELSE UpdateCourtRow

\* The web stops with a step error; the mobile app says it in a toast and finishes.
SaveTimers ==
    /\ calls.at = "timers"
    /\ IF ui.app = "web"
       THEN Request([server EXCEPT !.timers = @ \cup {calls.venue}], calls' = Advanced /\ UNCHANGED ui)
       ELSE \/ /\ server' = [server EXCEPT !.timers = @ \cup {calls.venue}]
               /\ calls' = Advanced /\ UNCHANGED ui
            \/ /\ calls.fails < MaxFails
               /\ calls' = [Advanced EXCEPT !.fails = @ + 1]
               /\ ui' = [ui EXCEPT !.note = "timersToast"] /\ UNCHANGED server

SubmitCnic ==
    /\ calls.at = "cnic"
    /\ IF calls.onFile \/ ~CnicReady THEN calls' = Advanced /\ UNCHANGED <<ui, server>>
       ELSE Request([server EXCEPT !.cnic = "submitted"],
                    /\ calls' = Advanced
                    /\ ui' = [ui EXCEPT !.onFile = "submitted", !.cnic = IF ui.app = "web" THEN @ ELSE "empty"])

\* reset(), and on to the page that says the venue is under review.
Finish ==
    /\ calls.at = "finish"
    /\ ui' = [Page(IF ui.app = "web" THEN WebDraft ELSE MobileDraft) EXCEPT !.at = "status", !.note = ui.note,
                    !.onFile = ui.onFile]
    /\ calls' = [calls EXCEPT !.at = "idle"]
    /\ UNCHANGED server

\* A reload or a killed app loses the run, not the draft; the CNIC was only in memory.
Reload ==
    /\ ui.at = "courts" /\ calls.fails < MaxFails
    /\ ui' = [ui EXCEPT !.cnic = "empty", !.onFile = "unknown", !.note = "none"]
    /\ calls' = [calls EXCEPT !.at = "idle", !.fails = @ + 1]
    /\ UNCHANGED server

\* Another owner signs in on this device: the draft's venue is not theirs.
SwitchAccount ==
    /\ ui.at = "courts" /\ ~Busy /\ server.venues = 1 /\ server.foreign = {}
    /\ server' = [server EXCEPT !.foreign = {1}, !.cnic = "missing"]
    /\ ui' = [ui EXCEPT !.onFile = "unknown", !.cnic = "empty"]
    /\ UNCHANGED calls

StartFresh ==
    /\ ui.at = "courts" /\ "startFresh" \in CourtsOffer /\ ~Busy
    /\ ui' = [Page(IF ui.app = "web" THEN WebDraft ELSE MobileDraft) EXCEPT !.cnic = ui.cnic]
    /\ server' = [server EXCEPT !.slips = TRUE]
    /\ UNCHANGED calls

-----------------------------------------------------------------------------
(* The page after it: under review, changes requested, rejected. *)

\* StatusView: the identity card offers a CNIC again when it is missing or was rejected.
WebStatus ==
    CASE ui.review = "unread" -> {}
      [] ui.review = "approved" -> {"dashboard"}
      [] ui.review = "rejected" -> {"registerNew"}
      [] OTHER -> {"refetch", "photos"} \cup IF ui.onFile # "submitted" THEN {"cnic"} ELSE {}
\* VenuePendingScreen and VenueRejectedScreen.
MobilePending == IF ui.review \in {"pending", "changes_requested"} THEN {"photos", "refetch"} ELSE {}
MobileRejected == IF ui.review = "rejected" THEN {"registerNew", "refetch"} ELSE {}
StatusOffers == IF ui.app = "web" THEN WebStatus ELSE MobilePending \cup MobileRejected

ReadStatus ==
    /\ ui.at = "status"
    /\ ui' = [ui EXCEPT !.review = server.review, !.onFile = server.cnic]
    /\ UNCHANGED <<server, calls>>

\* cnic-banner: shown while the CNIC is missing, and whatever was dismissed while it is rejected.
WebBanner == ui.at = "status" /\ ui.onFile \in {"missing", "rejected"}
MobileBanner == ui.at = "status" /\ ui.onFile \in {"missing", "rejected"}
Banner == IF ui.app = "web" THEN WebBanner ELSE MobileBanner

\* IdentityBody: replaces a missing or rejected CNIC after the fact.
ReplaceCnic ==
    /\ ui.at = "status" /\ ("cnic" \in StatusOffers \/ Banner)
    /\ server' = [server EXCEPT !.cnic = "submitted"]
    /\ ui' = [ui EXCEPT !.onFile = "submitted"]
    /\ UNCHANGED calls

RegisterAgain ==
    /\ ui.at = "status" /\ "registerNew" \in StatusOffers /\ server.venues < 2
    /\ ui' = Page(IF ui.app = "web" THEN WebDraft ELSE MobileDraft)
    /\ server' = [server EXCEPT !.review = "pending", !.slips = TRUE]
    /\ UNCHANGED calls

AdminDecides ==
    /\ ui.at = "status" /\ server.review = "pending"
    /\ \E verdict \in {"changes_requested", "rejected", "approved"} : server' = [server EXCEPT !.review = verdict]
    /\ UNCHANGED <<ui, calls>>

Next ==
    \/ Type \/ UseLocation \/ UseCityCentre \/ GoToCourts
    \/ AddCourt \/ CnicFields \/ ReadIdentity
    \/ \E i \in DOMAIN ui.courts : UpdateCourt(i) \/ RemoveCourt(i)
    \/ Send \/ CreateVenue \/ DeactivateOrphans \/ SaveCourts \/ SaveTimers \/ SubmitCnic \/ Finish
    \/ Reload \/ SwitchAccount \/ StartFresh
    \/ ReadStatus \/ ReplaceCnic \/ RegisterAgain \/ AdminDecides

Spec == Init /\ [][Next]_vars

-----------------------------------------------------------------------------
Ours == {c \in server.courts : c.live /\ c.venue \notin server.foreign}

TypeOK ==
    /\ Len(ui.courts) \in 1 .. MaxTabs /\ ui.venue \in {None} \cup Venues
    /\ \A i \in DOMAIN ui.ids : ui.ids[i] \in 0 .. MaxCourts
    /\ server.venues \in 0 .. 2 /\ Cardinality(server.courts) <= MaxCourts

\* No court is left behind: as long as every answer arrived, the draft was not started afresh and
\* no court was removed while a run was being sent, each live court on the server is either one
\* the draft remembers, at the place of the court it was created for, or queued for deactivation.
NothingLeftBehind ==
    ~server.slips /\ ui.at = "courts" =>
        \A c \in Ours :
            \/ c.id \in ui.orphans
            \/ \E i \in DOMAIN ui.courts : ui.ids[i] = c.id /\ ui.courts[i].of = c.of

\* What was sent is what the venue has: one live court for each court of the draft as it was when
\* the run began, each with the name, hours and prices of the same revision.
HandedOverWhole ==
    ui.at = "status" /\ ~server.slips =>
        /\ Cardinality({c \in Ours : c.venue = calls.venue}) = Len(calls.courts)
        /\ \A i \in DOMAIN calls.courts :
            \E c \in Ours : /\ c.venue = calls.venue /\ c.of = calls.courts[i].of
                            /\ c.named = calls.courts[i].rev /\ c.priced = calls.courts[i].rev

\* No venue goes to review without a CNIC of its owner; the timers typed in the draft are stored,
\* or the owner was told that they are not.
HandedOverComplete ==
    ui.at = "status" =>
        /\ server.cnic # "missing"
        /\ calls.venue \notin server.timers => ui.app = "mobile" /\ ui.note = "timersToast"

Faithful == NothingLeftBehind /\ HandedOverWhole /\ HandedOverComplete

\* "POST /courts always inserts a new row, so without this, a retry after ANY later step fails (or
\* the client just never sees a response the server already committed) re-creates every court":
\* the store's comment promises one court per court of the draft, lost answers included.
OneCourtEach == \A c, d \in Ours : c.of = d.of /\ c.venue = d.venue => c = d

=============================================================================
