---------------------------- MODULE CourtSettings ----------------------------
(***************************************************************************)
(* The courts of a venue in its settings, on the web and in the mobile     *)
(* app: one tab per court, a form that saves a court in four requests, the *)
(* form of a new court, the deactivation of one, and the blackout card.    *)
(* A behaviour exercises the form of a court, its advance rule, the form   *)
(* of a new court or the blackout card.                                    *)
(*                                                                         *)
(* What is typed is a revision, numbered in the order of typing; `under`   *)
(* remembers the tab it was typed under.  The advance rule is kept in      *)
(* full, in quarters of the price, since its preview is shown.             *)
(***************************************************************************)
EXTENDS Naturals, Sequences, SequencesExt, FiniteSets

CONSTANTS
    MaxEdits,    \* bound: revisions typed
    MaxSaves,    \* bound: saves, creations and deletions sent
    MaxFails     \* bound: requests that fail or whose answer is lost, and changes made elsewhere

VARIABLES
    ui,       \* the page
    server,   \* the courts
    calls     \* the requests in progress

vars == <<ui, server, calls>>

None == 0
New == 9
Ids == 1 .. 3
Revs == 0 .. MaxEdits + MaxFails
Parts == {"basics", "hours", "prices"}
LessOf(a, b) == IF a < b THEN a ELSE b
MoreOf(a, b) == IF a > b THEN a ELSE b

-----------------------------------------------------------------------------
(* The advance rule of a court, in quarters of the price. *)

Price == 4
DefaultPart == 2
AdvanceDrafts == [type : {"default", "fixed", "percent"}, value : {0, 1, 6}, minimum : {None, 3}]

\* advanceDraftErrors: a percentage above 100 is refused, an amount above the price is not.
AdvanceProblem(d) == d.type = "percent" /\ d.value > Price

\* advanceRuleFromDraft: without a type of its own the court has no value; its minimum is kept.
AdvanceInput(d) == [d EXCEPT !.value = IF d.type = "default" THEN 0 ELSE @]

\* compute_advance: what a player is asked for.
ChargedAdvance(rule) ==
    LessOf(Price, MoreOf(rule.minimum, IF rule.type = "default" THEN DefaultPart ELSE rule.value))

\* The example under the web's advance fields, and the one of the mobile app.
WebExample(d) ==
    LessOf(Price, IF d.type = "default" THEN DefaultPart ELSE MoreOf(d.minimum, d.value))
MobileExample(d) == ChargedAdvance(AdvanceInput(d))
Example == IF ui.app = "web" THEN WebExample(ui.form.advance) ELSE MobileExample(ui.form.advance)

\* AdvanceRuleFields and AdvanceSettings: the web shows the minimum only next to a type of its own.
WebAdvanceBoxes(d) == {"type"} \cup IF d.type = "default" THEN {} ELSE {"value", "minimum"}
MobileAdvanceBoxes(d) == {"type", "minimum"} \cup IF d.type = "default" THEN {} ELSE {"value"}
AdvanceBoxes(d) == IF ui.app = "web" THEN WebAdvanceBoxes(d) ELSE MobileAdvanceBoxes(d)
OneBoxApart(d, e) == \E box \in AdvanceBoxes(d) : e # d /\ e = [d EXCEPT ![box] = e[box]]

-----------------------------------------------------------------------------
(* The tabs. *)

NoForm == [court |-> None, parts |-> [p \in Parts |-> 0], advance |-> [type |-> "default", value |-> 0, minimum |-> None],
           problem |-> "none", touched |-> FALSE, note |-> "none", fresh |-> TRUE, inst |-> 0]
MaxMounts == 2   \* bound: times a form is opened again

\* The active tab: an index on the web, a court id in the mobile app.
TabCount(u) == Len(u.list) + IF u.drafting THEN 1 ELSE 0
WebActive(u) ==
    LET i == LessOf(u.picked, TabCount(u)) IN
    IF i = 0 THEN None ELSE IF i <= Len(u.list) THEN u.list[i] ELSE New
MobileActive(u) ==
    IF u.drafting /\ u.picked = New THEN New
    ELSE IF u.picked \in ToSet(u.list) THEN u.picked ELSE IF u.list = <<>> THEN None ELSE u.list[1]
Active(u) == IF u.app = "web" THEN WebActive(u) ELSE MobileActive(u)

\* The last answer is kept on the screen while the next court is fetched.
WhateverIsLoaded(u) == u.data
OnlyItsOwn(u) == IF u.data.id = Active(u) THEN u.data ELSE [u.data EXCEPT !.id = None]
CourtShown(u) == OnlyItsOwn(u)

\* The form is keyed by the court: another court means another form, seeded from it.
Remounted(u) ==
    LET c == CourtShown(u) IN
    IF Active(u) = New \/ c.id = None THEN [u EXCEPT !.form = [NoForm EXCEPT !.inst = u.form.inst]]
    ELSE IF c.id = u.form.court THEN u
    ELSE [u EXCEPT !.form = [court |-> c.id, parts |-> [p \in Parts |-> c[p]], advance |-> c.advance, problem |-> "none",
                             touched |-> FALSE, note |-> "none", fresh |-> c = server.courts[c.id], inst |-> u.form.inst + 1]]

NewCourt(id) == [id |-> id, live |-> TRUE, basics |-> 0, hours |-> 0, prices |-> 0, advance |-> NoForm.advance]

Init ==
    \E app \in {"web", "mobile"}, focus \in {"form", "advance", "new", "blackout"},
       rule \in {NoForm.advance, [type |-> "fixed", value |-> 1, minimum |-> 3]} :
        /\ focus = "advance" \/ rule = NoForm.advance
        /\ server = [courts |-> <<[NewCourt(1) EXCEPT !.advance = rule], NewCourt(2)>>, under |-> [r \in Revs |-> None], made |-> 0,
                     blackouts |-> 0, slips |-> FALSE]
        /\ ui = Remounted([app |-> app, focus |-> focus, list |-> <<1, 2>>, picked |-> 1, drafting |-> FALSE,
                           data |-> [NewCourt(1) EXCEPT !.advance = rule], form |-> NoForm, created |-> None,
                           new |-> [inst |-> 0, note |-> "none"],
                           blackout |-> "empty", blackouts |-> None])
        /\ calls = [saves |-> {}, del |-> [at |-> "idle"], create |-> {}, add |-> "idle", edits |-> 0, sent |-> 0, fails |-> 0]

Listed == SelectSeq([i \in DOMAIN server.courts |-> i], LAMBDA i : server.courts[i].live)

SelectTab ==
    /\ ui.focus \in {"form", "new"}
    /\ \E tab \in 1 .. TabCount(ui) :
        ui' = Remounted([ui EXCEPT !.picked = IF ui.app = "web" THEN tab
                                              ELSE IF tab <= Len(ui.list) THEN ui.list[tab] ELSE New,
                                   !.created = None, !.new.note = "none", !.new.inst = @ + 1])
    /\ ui' # ui /\ ui.new.inst < MaxMounts
    /\ UNCHANGED <<server, calls>>

\* GET /courts/{id} of the active tab, at any time.
FetchCourt ==
    /\ Active(ui) \in Ids
    /\ ui' = Remounted([ui EXCEPT !.data = server.courts[Active(ui)]])
    /\ UNCHANGED <<server, calls>>

FetchList ==
    /\ ui' = Remounted([ui EXCEPT !.list = Listed, !.created = None])
    /\ UNCHANGED <<server, calls>>

\* What surrounds the form: tabs, "+ Court", delete, save.
WebOffers ==
    (IF ui.form.court = None THEN {} ELSE {"type", "save"}) \cup (IF ui.drafting THEN {} ELSE {"add"})
    \cup (IF TabCount(ui) > 1 THEN {"delete"} ELSE {})
MobileOffers ==
    (IF ui.form.court = None THEN {} ELSE {"type"} \cup IF calls.saves = {} THEN {"save"} ELSE {})
    \cup (IF ui.drafting THEN {} ELSE {"add"})
    \cup (IF Len(ui.list) > 1 /\ ui.form.court # None /\ calls.saves = {} THEN {"delete"} ELSE {})
Offers == IF ui.app = "web" THEN WebOffers ELSE MobileOffers

-----------------------------------------------------------------------------
(* The form of a court. *)

\* CourtSetupFields: hours for every day or for each, rates with days and times.
WebSetupParts == {"hours", "prices"}
MobileSetupParts == WebSetupParts
SetupParts == IF ui.app = "web" THEN WebSetupParts ELSE MobileSetupParts

\* CourtBasicsFields, CourtIdentityFields: the name, the sport and what the court has.
WebDetails == {"basics"}
MobileDetails == WebDetails
TypedParts == SetupParts \cup IF ui.app = "web" THEN WebDetails ELSE MobileDetails

\* courtSetupProblem: hours that make no sense, or no price at all.
SetupProblem(part) == IF part \in SetupParts THEN {"none", part} ELSE {ui.form.problem}

Typed(part) ==
    /\ ui.focus = "form" /\ "type" \in Offers /\ calls.edits < MaxEdits
    /\ \E problem \in SetupProblem(part) :
        ui' = [ui EXCEPT !.form.parts[part] = calls.edits + 1, !.form.problem = problem, !.form.touched = TRUE]
    /\ server' = [server EXCEPT !.under[calls.edits + 1] = Active(ui)]
    /\ calls' = [calls EXCEPT !.edits = @ + 1]

TypeAdvance ==
    /\ ui.focus = "advance" /\ "type" \in Offers /\ calls.edits < MaxEdits
    /\ \E d \in AdvanceDrafts : OneBoxApart(ui.form.advance, d) /\ ui' = [ui EXCEPT !.form.advance = d, !.form.touched = TRUE]
    /\ calls' = [calls EXCEPT !.edits = @ + 1]
    /\ UNCHANGED server

Blocked == ui.form.problem # "none" \/ AdvanceProblem(ui.form.advance)

\* The web sends the details only when they differ from the court it was given; the mobile app always.
WebSendsBasics == ui.form.parts["basics"] # ui.data.basics
MobileSendsBasics == TRUE
FirstStep == IF (IF ui.app = "web" THEN WebSendsBasics ELSE MobileSendsBasics) THEN "basics" ELSE "advance"

SavingHere == \E s \in calls.saves : s.inst = ui.form.inst

Save ==
    /\ ui.focus \in {"form", "advance"} /\ "save" \in Offers /\ ~SavingHere
    /\ IF Blocked
       THEN ui' = [ui EXCEPT !.form.note = "error"] /\ UNCHANGED <<server, calls>>
       ELSE /\ calls.sent < MaxSaves
            /\ calls' = [calls EXCEPT !.sent = @ + 1,
                                      !.saves = @ \cup {[court |-> ui.form.court, parts |-> ui.form.parts, step |-> FirstStep,
                                                         advance |-> AdvanceInput(ui.form.advance), inst |-> ui.form.inst]}]
            /\ server' = [server EXCEPT !.slips = @ \/ \E s \in calls.saves : s.court = ui.form.court]
            /\ ui' = [ui EXCEPT !.form.note = "none", !.form.touched = FALSE]

StepAfter(step) ==
    CASE step = "basics" -> "advance" [] step = "advance" -> "hours" [] step = "hours" -> "prices" [] step = "prices" -> "refetch"

Stored(s) ==
    [server EXCEPT !.slips = @ \/ s.inst # ui.form.inst,
                   !.courts[s.court] = IF s.step = "advance" THEN [@ EXCEPT !.advance = s.advance]
                                       ELSE [@ EXCEPT ![s.step] = s.parts[s.step]]]
Says(s, note) == IF ui.form.court # None /\ s.inst = ui.form.inst THEN [ui EXCEPT !.form.note = note] ELSE ui

SaveStep(s) ==
    /\ s.step # "refetch"
    /\ \/ /\ server' = Stored(s)
          /\ calls' = [calls EXCEPT !.saves = (@ \ {s}) \cup {[s EXCEPT !.step = StepAfter(@)]}]
          /\ UNCHANGED ui
       \/ /\ calls.fails < MaxFails
          /\ server' \in {server, Stored(s)}
          /\ calls' = [calls EXCEPT !.saves = @ \ {s}, !.fails = @ + 1]
          /\ ui' = Says(s, "error")

Refetched(s) ==
    /\ s.step = "refetch"
    /\ LET now == IF ui.data.id = s.court THEN [Says(s, "ok") EXCEPT !.data = server.courts[s.court], !.list = Listed]
                  ELSE [Says(s, "ok") EXCEPT !.list = Listed] IN
       ui' \in {Remounted(now), Says(s, "ok")}
    /\ calls' = [calls EXCEPT !.saves = @ \ {s}]
    /\ UNCHANGED server

ChangeElsewhere ==
    /\ ui.focus = "form" /\ calls.fails < MaxFails
    /\ \E id \in 1 .. 2, part \in Parts :
        server' = [server EXCEPT !.courts[id][part] = MaxEdits + 1, !.under[MaxEdits + 1] = id, !.slips = TRUE]
    /\ calls' = [calls EXCEPT !.fails = @ + 1]
    /\ UNCHANGED ui

-----------------------------------------------------------------------------
(* Deleting a court. *)

\* confirmDelete and deleteActive: deactivate, read the list again, move to another tab.
Delete ==
    /\ ui.focus \in {"form", "new"} /\ "delete" \in Offers /\ Active(ui) \in Ids /\ calls.del.at = "idle" /\ calls.sent < MaxSaves
    /\ calls' = [calls EXCEPT !.del = [at |-> "sent", court |-> Active(ui), tab |-> LessOf(ui.picked, TabCount(ui))], !.sent = @ + 1]
    /\ ui' = [ui EXCEPT !.created = None]
    /\ UNCHANGED server

WebMoved(u) == [u EXCEPT !.picked = MoreOf(1, calls.del.tab - 1)]
MobileMoved(u) == [u EXCEPT !.picked = None]

Deactivated ==
    /\ calls.del.at = "sent"
    /\ calls' = [calls EXCEPT !.del = [at |-> "idle"]]
    /\ \/ /\ server' = [server EXCEPT !.courts[calls.del.court].live = FALSE]
          /\ LET u == [ui EXCEPT !.list = SelectSeq(Listed, LAMBDA i : i # calls.del.court)] IN
             ui' = Remounted([IF ui.app = "web" THEN WebMoved(u) ELSE MobileMoved(u) EXCEPT !.created = None])
       \/ calls.fails < MaxFails /\ UNCHANGED <<ui, server>>

-----------------------------------------------------------------------------
(* The form of a new court. *)

AddTab ==
    /\ ui.focus = "new" /\ "add" \in Offers /\ ui.new.inst < MaxMounts
    /\ ui' = Remounted([ui EXCEPT !.drafting = TRUE, !.picked = IF ui.app = "web" THEN Len(ui.list) + 1 ELSE New,
                                  !.created = None, !.new = [inst |-> @.inst + 1, note |-> "none"]])
    /\ UNCHANGED <<server, calls>>

\* The web's delete on the draft tab, and "Rehne dein" in the mobile app.
WebDiscarded == [ui EXCEPT !.drafting = FALSE, !.picked = MoreOf(1, Len(ui.list))]
MobileDiscarded == [ui EXCEPT !.drafting = FALSE, !.picked = None]
Discard ==
    /\ Active(ui) = New
    /\ ui' = Remounted(IF ui.app = "web" THEN WebDiscarded ELSE MobileDiscarded)
    /\ UNCHANGED <<server, calls>>

\* create: three requests; nothing remembers the court when a later one fails.
Create ==
    /\ Active(ui) = New /\ ~\E c \in calls.create : c.inst = ui.new.inst
    /\ calls.sent < MaxSaves
    /\ calls' = [calls EXCEPT !.sent = @ + 1, !.create = @ \cup {[at |-> "post", court |-> None, inst |-> ui.new.inst]}]
    /\ server' = [server EXCEPT !.slips = @ \/ calls.create # {}]
    /\ ui' = [ui EXCEPT !.new.note = "none"]

Next1(at) == CASE at = "post" -> "hours" [] at = "hours" -> "prices" [] at = "prices" -> "refetch"
Mine(c) == Active(ui) = New /\ c.inst = ui.new.inst

CreateStep(c) ==
    /\ c.at # "refetch"
    /\ c.at = "post" => Len(server.courts) < Cardinality(Ids)
    /\ \/ /\ server' = IF c.at = "post" THEN [server EXCEPT !.courts = Append(@, NewCourt(Len(@) + 1))] ELSE server
          /\ calls' = [calls EXCEPT !.create = (@ \ {c}) \cup
                           {[c EXCEPT !.at = Next1(@), !.court = IF c.at = "post" THEN Len(server.courts) + 1 ELSE @]}]
          /\ UNCHANGED ui
       \/ /\ calls.fails < MaxFails
          /\ calls' = [calls EXCEPT !.create = @ \ {c}, !.fails = @ + 1]
          /\ ui' = IF Mine(c) THEN [ui EXCEPT !.new.note = "error"] ELSE ui
          /\ server' = [server EXCEPT !.slips = TRUE]

\* onCreated and onAdded: the web stays on the tab the draft had, the mobile app goes to the court by its id.
WebCreated(c) == [ui EXCEPT !.list = Listed, !.drafting = FALSE]
MobileAdded(c) == [ui EXCEPT !.list = Listed, !.drafting = FALSE, !.picked = c.court]
Created(c) ==
    /\ c.at = "refetch"
    /\ LET u == IF ui.app = "web" THEN WebCreated(c) ELSE MobileAdded(c) IN
       ui' = Remounted([u EXCEPT !.created = IF Mine(c) THEN c.court ELSE None])
    /\ calls' = [calls EXCEPT !.create = @ \ {c}]
    /\ server' = [server EXCEPT !.slips = @ \/ ~Mine(c)]

-----------------------------------------------------------------------------
(* The blackout card. *)

WebBlackouts == {"fill", "add"}
MobileBlackouts == {"fill", "add"}
BlackoutOffers == IF ui.app = "web" THEN WebBlackouts ELSE MobileBlackouts

FillBlackout ==
    /\ ui.focus = "blackout" /\ "fill" \in BlackoutOffers
    /\ \E form \in {"noDate", "full"} : ui' = [ui EXCEPT !.blackout = form]
    /\ ui' # ui
    /\ UNCHANGED <<server, calls>>

AddBlackout ==
    /\ ui.focus = "blackout" /\ "add" \in BlackoutOffers /\ ui.blackout = "full" /\ calls.add = "idle" /\ calls.sent < MaxSaves
    /\ calls' = [calls EXCEPT !.add = "sent", !.sent = @ + 1]
    /\ UNCHANGED <<ui, server>>

\* Cleared when the server has answered, whatever was typed meanwhile; kept when it has not.
BlackoutAnswered ==
    /\ calls.add = "sent"
    /\ \/ /\ server' = [server EXCEPT !.blackouts = @ + 1]
          /\ ui' \in {[ui EXCEPT !.blackout = "empty", !.blackouts = server.blackouts + 1], [ui EXCEPT !.blackout = "empty"]}
          /\ calls' = [calls EXCEPT !.add = "idle"]
       \/ /\ calls.fails < MaxFails
          /\ server' \in {server, [server EXCEPT !.blackouts = @ + 1, !.slips = TRUE]}
          /\ calls' = [calls EXCEPT !.add = "idle", !.fails = @ + 1]
          /\ UNCHANGED ui

-----------------------------------------------------------------------------
Next ==
    \/ SelectTab \/ FetchCourt \/ FetchList
    \/ \E part \in TypedParts : Typed(part)
    \/ TypeAdvance \/ Save \/ ChangeElsewhere
    \/ \E s \in calls.saves : SaveStep(s) \/ Refetched(s)
    \/ Delete \/ Deactivated
    \/ AddTab \/ Discard \/ Create
    \/ \E c \in calls.create : CreateStep(c) \/ Created(c)
    \/ FillBlackout \/ AddBlackout \/ BlackoutAnswered

Spec == Init /\ [][Next]_vars

-----------------------------------------------------------------------------
\* The courts, the page and the requests keep their shape.
TypeOK ==
    /\ \A i \in DOMAIN server.courts : server.courts[i].id = i /\ \A p \in Parts : server.courts[i][p] \in Revs
    /\ ui.form.court \in Ids \cup {None} /\ ui.form.note \in {"none", "ok", "error"}
    /\ ToSet(ui.list) \subseteq DOMAIN server.courts
    /\ \A s \in calls.saves : s.court \in DOMAIN server.courts

\* What was typed under one court's tab is never stored in another court, while tabs are switched, courts are
\* fetched and deleted and saves are still on their way.
StoredWhereTyped ==
    \A i \in DOMAIN server.courts, p \in Parts :
        LET rev == server.courts[i][p] IN rev # 0 => server.under[rev] = i

\* "Saved" under an untouched form means the whole court: all four requests of one save were carried out,
\* also after an attempt that stopped half-way, as long as the form was opened on the court as it is, no save
\* outlived its form and nobody else changed the court.
SavedWhole ==
    ui.form.note = "ok" /\ ~ui.form.touched /\ ~server.slips /\ ui.form.fresh
    => LET court == server.courts[ui.form.court] IN
       /\ \A p \in Parts : court[p] = ui.form.parts[p]
       /\ court.advance = AdvanceInput(ui.form.advance)

\* The advance a form shows as its example is what players are asked for once it is saved (on the web only
\* while there is a rule of the court's own, or no minimum left over from one).
ExampleIsCharged ==
    /\ ui.form.note = "ok" /\ ~ui.form.touched /\ ~server.slips
    /\ ui.app = "web" => ui.form.advance.type # "default" \/ ui.form.advance.minimum = None
    => Example = ChargedAdvance(server.courts[ui.form.court].advance)

\* The page that says a court was created shows that court.
CreatedIsShown == ui.created # None /\ ~server.slips => Active(ui) = ui.created

Faithful == StoredWhereTyped /\ SavedWhole /\ ExampleIsCharged /\ CreatedIsShown

\* "What the player pays now when the owner sets NOTHING (default rule)" (advance-preview.ts:84): the amount the
\* form shows for the default rule is the amount charged, also when a minimum was set before.
DefaultExampleIsCharged ==
    ui.form.note = "ok" /\ ~ui.form.touched /\ ~server.slips
    => Example = ChargedAdvance(server.courts[ui.form.court].advance)

=============================================================================
