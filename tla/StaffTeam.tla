----------------------------- MODULE StaffTeam -----------------------------
(***************************************************************************)
(* The owner's staff page: who works here, what each may do, and a form    *)
(* for a new member.  On the web every row has its own editor; on the      *)
(* phone one card is open at a time.  A save sends the whole set that is   *)
(* ticked, and the server puts it in place of the old one.                 *)
(***************************************************************************)
EXTENDS Naturals

CONSTANTS
    MaxActs,      \* bound: taps of the owner
    MaxTrouble    \* bound: answers lost, changes made on another device

VARIABLES
    ui,       \* the page: the list it has, the editors, the form
    server,   \* the members, their permissions and sessions
    calls     \* requests in progress and what has been used of the bounds

vars == <<ui, server, calls>>

Members == 1 .. 3    \* two are on the list, the third can be added
Keys == {"view_ledger", "respond_reviews"}
Flagged == "respond_reviews"    \* the one whose feature can be off
Phones == {"new", "anybody", "mine"}
Absent == [on |-> FALSE, active |-> FALSE, may |-> {}]
Member(may) == [on |-> TRUE, active |-> TRUE, may |-> may]
WebDefaults == {"view_ledger"}
EmptyForm(app) == [open |-> FALSE, phone |-> "new", may |-> IF app = "web" THEN WebDefaults ELSE {}, says |-> "none"]
NoSave == [member |-> 0, may |-> {}]
NoToggle == [member |-> 0, to |-> FALSE]

Acting == calls.acts < MaxActs
Act(c) == [c EXCEPT !.acts = @ + 1]
Idle == calls.save = NoSave /\ calls.toggle = NoToggle /\ calls.create = "no" /\ ~calls.get

\* The rows, each seeded once from the list it was first rendered with; no card open; an empty form.
Seeds(list) == [m \in Members |-> list[m].may]
Init ==
    \E app \in {"web", "mobile"}, flag \in BOOLEAN, may \in SUBSET Keys :
        /\ server = [list |-> <<Member(may), Member({"view_ledger"}), Absent>>, flag |-> flag, sessions |-> {1, 2}, ver |-> 0]
        /\ ui = [app |-> app, list |-> server.list, ver |-> 0, ticked |-> Seeds(server.list), editing |-> {}, confirm |-> 0,
                 error |-> 0, form |-> EmptyForm(app), seen |-> Seeds(server.list), touched |-> [m \in Members |-> {}], clean |-> Members]
        /\ calls = [save |-> NoSave, toggle |-> NoToggle, create |-> "no", get |-> FALSE, acts |-> 0, trouble |-> 0]

\* catalogQuery's `available`: a box whose feature is off cannot be changed.
Available(key) == key # Flagged \/ server.flag
Toggled(set, key) == IF key \in set THEN set \ {key} ELSE set \cup {key}

-----------------------------------------------------------------------------
(* The editors. *)

\* StaffRow: Edit and Cancel are one button, and the boxes keep what was ticked.
WebEdit(m) ==
    ui' = [ui EXCEPT !.editing = IF m \in @ THEN @ \ {m} ELSE @ \cup {m},
                     !.seen[m] = ui.list[m].may, !.touched[m] = {},
                     !.clean = IF m \notin ui.editing /\ ui.ticked[m] # ui.list[m].may THEN @ \ {m} ELSE @]
\* StaffCard: the switches are set again from the list, and one card is open.
ToggleOpen(open, m) == IF open = {m} THEN {} ELSE {m}
MobileEdit(m) ==
    ui' = [ui EXCEPT !.editing = ToggleOpen(@, m), !.ticked[m] = ui.list[m].may,
                     !.seen[m] = ui.list[m].may, !.touched[m] = {}, !.clean = @ \cup {m}]
MobileEditKeeping(m) ==    \* mutant: the switches are not set again
    ui' = [ui EXCEPT !.editing = ToggleOpen(@, m), !.seen[m] = ui.list[m].may, !.touched[m] = {}]
MobileOpens(m) == MobileEdit(m)

Edit(m) ==
    /\ Acting /\ ui.list[m].on /\ ui.confirm = 0 /\ ~ui.form.open
    /\ IF ui.app = "web" THEN WebEdit(m) ELSE MobileOpens(m)
    /\ calls' = Act(calls)
    /\ UNCHANGED server

\* PermissionChecklist and PermissionSwitches.
Tick(m) ==
    /\ Acting /\ m \in ui.editing /\ ui.list[m].on /\ ui.confirm = 0
    /\ \E key \in Keys :
          /\ Available(key)
          /\ ui' = [ui EXCEPT !.ticked[m] = Toggled(@, key), !.touched[m] = Toggled(@, key)]
    /\ calls' = Act(calls)
    /\ UNCHANGED server

Save(m) ==
    /\ Acting /\ m \in ui.editing /\ ui.list[m].on /\ calls.save = NoSave
    /\ calls' = [Act(calls) EXCEPT !.save = [member |-> m, may |-> ui.ticked[m]]]
    /\ UNCHANGED <<ui, server>>

\* _validate_permissions and set_permissions: all or nothing, the whole set.
Grantable(may) == Flagged \in may => server.flag
Granted(s, m, may) == [s EXCEPT !.list[m].may = may, !.ver = @ + 1]

\* onSuccess: the web closes its row; the phone toggles the card, whichever is open by then.
Closed(u, m) ==
    [u EXCEPT !.editing = IF u.app = "web" THEN @ \ {m} ELSE ToggleOpen(@, m), !.error = IF @ = m THEN 0 ELSE @]
Saved ==
    LET m == calls.save.member IN
    /\ m # 0
    /\ IF Grantable(calls.save.may)
       THEN /\ server' = Granted(server, m, calls.save.may)
            /\ ui' = Closed(ui, m)
            /\ calls' = [calls EXCEPT !.save = NoSave, !.get = TRUE]
       \* Only the phone says so.
       ELSE /\ ui' = IF ui.app = "web" THEN ui ELSE [ui EXCEPT !.error = m]
            /\ calls' = [calls EXCEPT !.save = NoSave]
            /\ UNCHANGED server

\* The answer is lost, before or after the set was saved.
SaveLost ==
    LET m == calls.save.member IN
    /\ m # 0 /\ calls.trouble < MaxTrouble
    /\ \/ UNCHANGED server
       \/ Grantable(calls.save.may) /\ server' = Granted(server, m, calls.save.may)
    /\ ui' = IF ui.app = "web" THEN ui ELSE [ui EXCEPT !.error = m]
    /\ calls' = [calls EXCEPT !.save = NoSave, !.trouble = @ + 1]

-----------------------------------------------------------------------------
(* Switching a member off and on. *)

\* Both ask first when it is off; the phone in a sheet that stays until the answer.
AskToSwitchOff(m) ==
    /\ Acting /\ ui.list[m].on /\ ui.list[m].active /\ ui.confirm = 0 /\ calls.toggle = NoToggle /\ ~ui.form.open
    /\ IF ui.app = "web"
       THEN ui' = ui /\ calls' = [Act(calls) EXCEPT !.toggle = [member |-> m, to |-> FALSE]]
       ELSE ui' = [ui EXCEPT !.confirm = m] /\ calls' = Act(calls)
    /\ UNCHANGED server
\* setActive(member.id, !member.is_active): what the list says when the button is pressed.
ConfirmSwitch ==
    /\ Acting /\ ui.confirm # 0 /\ calls.toggle = NoToggle
    /\ calls' = [Act(calls) EXCEPT !.toggle = [member |-> ui.confirm, to |-> ~ui.list[ui.confirm].active]]
    /\ UNCHANGED <<ui, server>>
BackFromSwitch ==
    /\ Acting /\ ui.confirm # 0
    /\ ui' = [ui EXCEPT !.confirm = 0]
    /\ calls' = Act(calls)
    /\ UNCHANGED server
SwitchOn(m) ==
    /\ Acting /\ ui.list[m].on /\ ~ui.list[m].active /\ ui.confirm = 0 /\ calls.toggle = NoToggle /\ ~ui.form.open
    /\ calls' = [Act(calls) EXCEPT !.toggle = [member |-> m, to |-> TRUE]]
    /\ UNCHANGED <<ui, server>>

\* set_active: a member switched off is signed out everywhere at once.
Switched(s, m, to) ==
    [s EXCEPT !.list[m].active = to, !.ver = @ + 1, !.sessions = IF to THEN @ ELSE @ \ {m}]
Toggle ==
    LET m == calls.toggle.member IN
    /\ m # 0
    /\ server' = Switched(server, m, calls.toggle.to)
    /\ ui' = [ui EXCEPT !.confirm = 0]
    /\ calls' = [calls EXCEPT !.toggle = NoToggle, !.get = TRUE]
ToggleLost ==
    LET m == calls.toggle.member IN
    /\ m # 0 /\ calls.trouble < MaxTrouble
    /\ \/ UNCHANGED server
       \/ server' = Switched(server, m, calls.toggle.to)
    /\ ui' = IF ui.app = "web" THEN ui ELSE [ui EXCEPT !.error = m]
    /\ calls' = [calls EXCEPT !.toggle = NoToggle, !.trouble = @ + 1]

-----------------------------------------------------------------------------
(* A new member. *)

\* AddStaffCard keeps what was typed when it is closed; AddStaffSheet is new every time.
OpenForm ==
    /\ Acting /\ ~ui.form.open /\ calls.create = "no" /\ ui.confirm = 0 /\ ~ui.list[3].on
    /\ ui' = [ui EXCEPT !.form = [(IF ui.app = "web" THEN @ ELSE EmptyForm("mobile")) EXCEPT !.open = TRUE]]
    /\ calls' = Act(calls)
    /\ UNCHANGED server
TickForm ==
    /\ Acting /\ ui.form.open /\ calls.create = "no"
    /\ \E key \in Keys : Available(key) /\ ui' = [ui EXCEPT !.form.may = Toggled(@, key)]
    /\ calls' = Act(calls)
    /\ UNCHANGED server
\* Typing another number clears "already registered", not another message.
Retype ==
    /\ Acting /\ ui.form.open /\ calls.create = "no"
    /\ \E phone \in Phones \ {ui.form.phone} :
          ui' = [ui EXCEPT !.form.phone = phone, !.form.says = IF ui.app = "web" /\ @ = "taken" THEN "none" ELSE @]
    /\ calls' = Act(calls)
    /\ UNCHANGED server
\* Cancel waits for the answer on the web only.
CloseForm ==
    /\ Acting /\ ui.form.open /\ (ui.app = "web" => calls.create = "no")
    /\ ui' = [ui EXCEPT !.form.open = FALSE]
    /\ calls' = Act(calls)
    /\ UNCHANGED server
Submit ==
    /\ Acting /\ ui.form.open /\ calls.create = "no"
    /\ calls' = [Act(calls) EXCEPT !.create = "asked"]
    /\ UNCHANGED <<ui, server>>

\* create and _resolve_staff_user.
Refusal(f) ==
    CASE ~Grantable(f.may) -> "refused"
      [] f.phone = "anybody" -> "taken"
      [] f.phone = "mine" \/ server.list[3].on -> "refused"
      [] OTHER -> "none"
Joined(s, f) == [s EXCEPT !.list[3] = Member(f.may), !.sessions = @ \cup {3}, !.ver = @ + 1]

\* The web shows the new row at once and fetches the list again; the phone closes when the list has come.
Created ==
    /\ calls.create = "asked" /\ Refusal(ui.form) = "none"
    /\ server' = Joined(server, ui.form)
    /\ ui' = IF ui.app = "web"
             THEN [ui EXCEPT !.form = EmptyForm("web"), !.list[3] = server'.list[3], !.ticked[3] = server'.list[3].may,
                             !.seen[3] = server'.list[3].may]
             ELSE ui
    /\ calls' = [calls EXCEPT !.create = IF ui.app = "web" THEN "no" ELSE "made", !.get = TRUE]
Refused ==
    /\ calls.create = "asked" /\ Refusal(ui.form) # "none"
    /\ ui' = [ui EXCEPT !.form.says = IF ui.app = "web" THEN Refusal(ui.form) ELSE "refused"]
    /\ calls' = [calls EXCEPT !.create = "no"]
    /\ UNCHANGED server
CreateLost ==
    /\ calls.create = "asked" /\ calls.trouble < MaxTrouble
    /\ \/ UNCHANGED server
       \/ Refusal(ui.form) = "none" /\ server' = Joined(server, ui.form)
    /\ ui' = [ui EXCEPT !.form.says = "refused"]
    /\ calls' = [calls EXCEPT !.create = "no", !.trouble = @ + 1]

-----------------------------------------------------------------------------

\* GET /staff: the rows there were keep their boxes, a new one gets its own; on the phone it ends the wait of the sheet.
Arrive ==
    /\ calls.get
    /\ ui' = [ui EXCEPT !.list = server.list, !.ver = server.ver,
                        !.ticked = [m \in Members |-> IF ui.list[m].on THEN @[m] ELSE server.list[m].may],
                        !.seen = [m \in Members |-> IF ui.list[m].on THEN @[m] ELSE server.list[m].may],
                        !.form = IF calls.create = "made" THEN EmptyForm("mobile") ELSE @]
    /\ calls' = [calls EXCEPT !.get = FALSE, !.create = IF @ = "made" THEN "no" ELSE @]
    /\ UNCHANGED server
\* The page is looked at again.
Refetch ==
    /\ Acting /\ ~calls.get /\ ui.ver # server.ver
    /\ calls' = [Act(calls) EXCEPT !.get = TRUE]
    /\ UNCHANGED <<ui, server>>
\* The owner's other device.
Elsewhere ==
    /\ calls.trouble < MaxTrouble
    /\ \/ \E key \in Keys : Available(key) /\ server' = Granted(server, 1, Toggled(server.list[1].may, key))
       \/ server' = Switched(server, 1, ~server.list[1].active)
    /\ calls' = [calls EXCEPT !.trouble = @ + 1]
    /\ UNCHANGED ui

Next ==
    \/ \E m \in Members : Edit(m) \/ Tick(m) \/ Save(m) \/ AskToSwitchOff(m) \/ SwitchOn(m)
    \/ Saved \/ SaveLost \/ ConfirmSwitch \/ BackFromSwitch \/ Toggle \/ ToggleLost
    \/ OpenForm \/ TickForm \/ Retype \/ CloseForm \/ Submit \/ Created \/ Refused \/ CreateLost
    \/ Arrive \/ Refetch \/ Elsewhere

Spec == Init /\ [][Next]_vars

-----------------------------------------------------------------------------

TypeOK ==
    /\ ui.editing \subseteq Members /\ ui.confirm \in {0} \cup Members
    /\ ui.list \in [Members -> [on : BOOLEAN, active : BOOLEAN, may : SUBSET Keys]]
    /\ server.list \in [Members -> [on : BOOLEAN, active : BOOLEAN, may : SUBSET Keys]]

\* A save changes what the owner changed: against what the list said when the editor was opened, the set that is sent
\* differs exactly in the boxes that were pressed.  (On the web boxes left ticked by a cancelled edit, or seeded before
\* another device's change, are sent too: such a row is not clean.)
Differs(a, b) == (a \ b) \cup (b \ a)
OnlyWhatWasTicked ==
    \A m \in ui.editing : (m \in ui.clean /\ ui.list[m].on) => Differs(ui.ticked[m], ui.seen[m]) = ui.touched[m]

\* When nothing is on its way and nothing was lost or changed elsewhere, the list is what the server holds.
ListIsTrue == (Idle /\ calls.trouble = 0) => ui.list = server.list

\* Nobody who was switched off keeps a session.
OffIsSignedOut == \A m \in Members : (server.list[m].on /\ ~server.list[m].active) => m \notin server.sessions

\* "Already registered" is only said of a number that belongs to somebody else.
TakenIsTaken == (ui.form.says = "taken" /\ ui.form.open) => ui.form.phone = "anybody"

Faithful ==
    /\ OnlyWhatWasTicked
    /\ ListIsTrue
    /\ OffIsSignedOut
    /\ TakenIsTaken
=============================================================================
