---------------------------- MODULE AccountForms ----------------------------
(***************************************************************************)
(* Somebody's own account, on the web and in the mobile app: the profile   *)
(* form, the photo, the change of the phone number, and the two ways out   *)
(* to the login page.  Each answer replaces the user the app keeps.        *)
(* The same account is open on another device.                             *)
(***************************************************************************)
EXTENDS Naturals, Sequences

CONSTANTS
    MaxActs,      \* bound: taps, edits and things that happen on the other device
    MaxTrouble,   \* bound: requests and answers that are lost
    MaxCodes      \* bound: codes sent to the numbers asked for (OTP_MAX_ATTEMPTS is five for each)

VARIABLES
    ui,       \* the page, its forms, and the user and token the app keeps
    server,   \* the user row, its sessions and the codes sent to new numbers
    calls     \* the save, the upload and the phone page's request in flight

vars == <<ui, server, calls>>

Blank == 0                                  \* an empty field, which no rule allows
Words == 0 .. 2
Numbers == {"old", "new", "other"}
Row == [name |-> 1, email |-> 1, photo |-> 0, phone |-> "old"]
NoCode == 0
Wrong == MaxCodes + 1
NoCall == [at |-> "none", what |-> "none", number |-> "none", password |-> "none", code |-> NoCode,
           gone |-> FALSE, row |-> Row]
Slots == {"save", "upload", "phone", "resend"}

\* What the form edits of a user.
Fields(user) == [name |-> user.name, email |-> user.email]

Init ==
    /\ \E app \in {"web", "mobile"} :
        ui = [app |-> app, at |-> "account", user |-> Row, in |-> TRUE, token |-> TRUE,
              f |-> Fields(Row), saved |-> FALSE, emailTaken |-> FALSE, preview |-> 0, leaving |-> FALSE,
              number |-> "none", password |-> "none", phoneTaken |-> FALSE, code |-> NoCode, stale |-> FALSE,
              notice |-> "none", prefill |-> "none", crossed |-> FALSE, retyped |-> FALSE]
    /\ server = [row |-> Row, session |-> TRUE, held |-> "none", emails |-> {2}, codes |-> <<>>,
                 elsewhere |-> FALSE, acts |-> 0, trouble |-> 0]
    /\ calls = [slot \in Slots |-> NoCall]

-----------------------------------------------------------------------------
(* What the pages show and offer. *)

Busy(slot) == calls[slot].at # "none"

Valid == ui.f.name # Blank /\ ui.f.email # Blank
Dirty == ui.f # Fields(ui.user)

\* The file just picked covers the address the user row has.
Shown == IF ui.preview # 0 THEN ui.preview ELSE ui.user.photo

\* ProfilePanel and ProfileForm, with the photo above them.
Profile ==
    IF ui.at # "account" THEN {}
    ELSE {"name", "email", "change phone"}
         \cup (IF Valid /\ Dirty /\ ~Busy("save") THEN {"save"} ELSE {})
         \cup (IF ~Busy("upload") THEN {"photo"} ELSE {})
Password ==
    IF ui.at # "account" THEN {}
    ELSE IF ui.leaving THEN {"cancel", "continue"} ELSE {"change password"}

\* The first step: a number of one's own is not a change.
Ready == ui.number \notin {"none", ui.user.phone} /\ ui.password # "none"
AskForCode ==
    IF ui.at # "change" THEN {}
    ELSE {"number", "password", "back"} \cup (IF Ready /\ ~Busy("phone") THEN {"send"} ELSE {})

EnterCode ==
    IF ui.at # "code" THEN {}
    ELSE {"different"} \cup (IF ~ui.stale THEN {"code"} ELSE {})
         \cup (IF ~Busy("resend") THEN {"resend"} ELSE {})
         \cup (IF ui.code # NoCode /\ ~ui.stale /\ ~Busy("phone") THEN {"verify"} ELSE {})

Offers == Profile \cup Password \cup AskForCode \cup EnterCode

-----------------------------------------------------------------------------
(* The person. *)

Act == server.acts < MaxActs /\ server' = [server EXCEPT !.acts = @ + 1]

Edit(field, word) ==
    /\ field \in Offers /\ word # ui.f[field] /\ Act
    /\ ui' = [ui EXCEPT !.f[field] = word, !.saved = FALSE,
                        !.emailTaken = @ /\ field # "email"]
    /\ UNCHANGED calls

\* All the fields are sent, the untouched ones too.
Save ==
    /\ "save" \in Offers
    /\ calls' = [calls EXCEPT !["save"] = [NoCall EXCEPT !.at = "sent", !.what = "user", !.row.name = ui.f.name, !.row.email = ui.f.email]]
    /\ UNCHANGED <<ui, server>>

\* A file of the wrong type or size goes no further.
PickPhoto(photo) ==
    /\ "photo" \in Offers /\ photo # server.row.photo /\ Act
    /\ ui' = [ui EXCEPT !.preview = photo]
    /\ calls' = [calls EXCEPT !["upload"] = [NoCall EXCEPT !.at = "sent", !.what = "user", !.row.photo = photo]]

\* On the web the form is made anew by every visit, and what was under way answers to nobody;
\* in the app it waits under the phone page.
Leave(slots) ==
    calls' = [slot \in Slots |-> IF slot \in slots THEN [calls[slot] EXCEPT !.gone = TRUE] ELSE calls[slot]]
EmptyStep == [ui EXCEPT !.number = "none", !.password = "none", !.phoneTaken = FALSE, !.code = NoCode, !.stale = FALSE]
OpenPhone ==
    /\ "change phone" \in Offers /\ Act
    /\ ui' = [EmptyStep EXCEPT !.at = "change"]
    /\ Leave(IF ui.app = "web" THEN {"save", "upload"} ELSE {})

ClosePhone ==
    /\ "back" \in Offers /\ Act
    /\ ui' = IF ui.app = "mobile" THEN [EmptyStep EXCEPT !.at = "account"]
             ELSE [EmptyStep EXCEPT !.at = "account", !.leaving = FALSE, !.f = Fields(ui.user), !.saved = FALSE,
                                    !.emailTaken = FALSE, !.preview = 0]
    /\ Leave({"phone", "resend"})

\* What the store forgets.
SignedOut == [ui EXCEPT !.in = FALSE, !.token = FALSE, !.f = Fields(Row), !.saved = FALSE, !.preview = 0,
                        !.emailTaken = FALSE, !.leaving = FALSE, !.number = "none", !.password = "none",
                        !.code = NoCode, !.stale = FALSE, !.phoneTaken = FALSE]

\* The app asks first and signs out before the reset; the web goes there signed in.
ChangePassword ==
    \/ /\ "change password" \in Offers /\ ui.app = "mobile"
       /\ ui' = [ui EXCEPT !.leaving = TRUE] /\ UNCHANGED <<server, calls>>
    \/ /\ "cancel" \in Offers
       /\ ui' = [ui EXCEPT !.leaving = FALSE] /\ UNCHANGED <<server, calls>>
    \/ /\ "continue" \in Offers
       /\ ui' = [SignedOut EXCEPT !.at = "forgot", !.prefill = ui.user.phone] /\ UNCHANGED <<server, calls>>
    \/ /\ "change password" \in Offers /\ ui.app = "web"
       /\ ui' = [EmptyStep EXCEPT !.at = "forgot", !.prefill = ui.user.phone, !.preview = 0, !.saved = FALSE]
       /\ Leave({"save", "upload"}) /\ UNCHANGED server

\* The fields stay open while the code is asked for.
TypeNumber(number) ==
    /\ "number" \in Offers /\ number # ui.number /\ Act
    /\ ui' = [ui EXCEPT !.number = number, !.phoneTaken = FALSE, !.retyped = Busy("phone")]
    /\ UNCHANGED calls

\* The right one is left alone.
TypePassword(password) ==
    /\ "password" \in Offers /\ ui.password # "right" /\ password # ui.password
    /\ ui' = [ui EXCEPT !.password = password]
    /\ UNCHANGED <<server, calls>>

Ask(slot, what) ==
    calls' = [calls EXCEPT ![slot] = [NoCall EXCEPT !.at = "sent", !.what = what, !.code = ui.code,
                                                    !.number = ui.number, !.password = ui.password]]

SendCode == "send" \in Offers /\ Ask("phone", "code") /\ ui' = [ui EXCEPT !.retyped = FALSE] /\ UNCHANGED server
Resend == "resend" \in Offers /\ Ask("resend", "code") /\ UNCHANGED <<ui, server>>
Verify == "verify" \in Offers /\ Ask("phone", "verify") /\ UNCHANGED <<ui, server>>

TypeCode(code) ==
    /\ "code" \in Offers /\ ui.code = NoCode /\ code \in DOMAIN server.codes \cup {Wrong}
    /\ ui' = [ui EXCEPT !.code = code]
    /\ UNCHANGED <<server, calls>>

\* The number and the password are still in the first step's fields.
FirstStep == [ui EXCEPT !.at = "change", !.code = NoCode, !.stale = FALSE]
DifferentNumber ==
    /\ "different" \in Offers /\ Act
    /\ ui' = FirstStep
    /\ Leave({"resend"})

-----------------------------------------------------------------------------
(* The server. *)

Reply(slot, answer, row) ==
    calls' = [calls EXCEPT ![slot].at = answer, ![slot].row = row]
Refuse(slot, answer) == Reply(slot, answer, Row) /\ UNCHANGED <<ui, server>>
Arrives(slot, whats) == calls[slot].at = "sent" /\ calls[slot].what \in whats

\* _claim_email and update_profile: the answer is the row as it is after the commit.
UpdateMe ==
    /\ Arrives("save", {"user"}) /\ server.session
    /\ LET sent == calls["save"].row
           row == [server.row EXCEPT !.name = sent.name, !.email = sent.email] IN
       IF sent.email # server.row.email /\ sent.email \in server.emails THEN Refuse("save", "EMAIL_ALREADY_IN_USE")
       ELSE Reply("save", "ok", row) /\ server' = [server EXCEPT !.row = row] /\ UNCHANGED ui

UploadMyAvatar ==
    /\ Arrives("upload", {"user"}) /\ server.session
    /\ LET row == [server.row EXCEPT !.photo = calls["upload"].row.photo] IN
       Reply("upload", "ok", row) /\ server' = [server EXCEPT !.row = row] /\ UNCHANGED ui

\* The codes for one number that are neither used nor out of time.
Live(number) == {i \in DOMAIN server.codes : server.codes[i].to = number /\ server.codes[i].live}
Newest(S) == CHOOSE i \in S : \A j \in S : j <= i

\* The password first, then whether the number is free, then the limit on codes.
RequestPhoneChange(slot) ==
    /\ Arrives(slot, {"code"}) /\ server.session
    /\ LET call == calls[slot] IN
       CASE call.password = "wrong" -> Refuse(slot, "INVALID_CREDENTIALS")
         [] call.password # "wrong" /\ call.number \in {server.row.phone, "none"} -> Refuse(slot, "VALIDATION_ERROR")
         [] call.password # "wrong" /\ call.number = server.held -> Refuse(slot, "PHONE_ALREADY_REGISTERED")
         [] call.password # "wrong" /\ Len(server.codes) = MaxCodes -> Refuse(slot, "OTP_RATE_LIMITED")
         [] OTHER -> /\ Reply(slot, "ok", Row)
                     /\ server' = [server EXCEPT !.codes = Append(@, [to |-> call.number, live |-> TRUE])]
                     /\ UNCHANGED ui

\* _consume_otp's verdict: the newest code sent to that number decides.
Verdict(code, number) ==
    LET live == Live(number) IN
    CASE live = {} -> "OTP_EXPIRED"
      [] code = Newest(live) -> "ok"
      [] code \in live \ {Newest(live)} -> "OTP_SUPERSEDED"
      [] OTHER -> "INVALID_OTP"

\* A number taken meanwhile rolls everything back, the code's use too.
VerifyPhoneChange ==
    /\ Arrives("phone", {"verify"}) /\ server.session
    /\ LET call == calls["phone"]
           verdict == Verdict(call.code, call.number) IN
       IF verdict # "ok" THEN Refuse("phone", verdict)
       ELSE IF call.number = server.held THEN Refuse("phone", "PHONE_ALREADY_REGISTERED")
       ELSE /\ Reply("phone", "ok", Row)
            /\ server' = [server EXCEPT !.row.phone = call.number, !.session = FALSE, !.codes[call.code].live = FALSE]
            /\ UNCHANGED ui

\* A dead session ends in the client's sign-out.
Unauthorized(slot) == Busy(slot) /\ calls[slot].at = "sent" /\ ~server.session /\ Refuse(slot, "401")

Lose(slot) ==
    /\ calls[slot].at \in {"sent", "ok"} /\ server.trouble < MaxTrouble
    /\ server' = [server EXCEPT !.trouble = @ + 1]
    /\ calls' = [calls EXCEPT ![slot].at = "network"]
    /\ UNCHANGED ui

\* The other device saves a name, someone proves the new number, a password reset ends the
\* sessions, the code runs out.
Elsewhere ==
    /\ server.acts < MaxActs
    /\ LET happens == [server EXCEPT !.acts = @ + 1] IN
       \/ server.session /\ server.row.name # Blank /\ server' = [happens EXCEPT !.row.name = 3 - @, !.elsewhere = TRUE]
       \/ server.held = "none" /\ server.row.phone # "new" /\ server' = [happens EXCEPT !.held = "new"]
       \/ server.session /\ server' = [happens EXCEPT !.session = FALSE]
       \/ \E i \in DOMAIN server.codes :
             server.codes[i].live /\ server' = [happens EXCEPT !.codes = [j \in DOMAIN @ |-> IF j <= i THEN [@[j] EXCEPT !.live = FALSE] ELSE @[j]]]
    /\ UNCHANGED <<ui, calls>>

\* useSecondsUntil: the countdown reaches nothing when the newest code runs out.
CountedDown ==
    /\ ui.at = "code" /\ ~ui.stale /\ Live(ui.number) = {} /\ ~Busy("phone")
    /\ ui' = [ui EXCEPT !.stale = TRUE]
    /\ UNCHANGED <<server, calls>>

-----------------------------------------------------------------------------
(* The answers. *)

\* setUser: the whole user, whatever has become of the session since.
SetUser(row) == [ui EXCEPT !.user = row, !.in = TRUE, !.crossed = row # server.row]

Taken(slot) == calls' = [calls EXCEPT ![slot] = NoCall] /\ UNCHANGED server
Answered(slot) == calls[slot].at \notin {"none", "sent"}
Here(slot) == ui.token /\ ~calls[slot].gone

\* A session that is over ends here too.
Expelled == [SignedOut EXCEPT !.at = "login"]

Saved ==
    LET call == calls["save"] IN
    /\ Answered("save") /\ Taken("save")
    /\ ui' = CASE call.at = "ok" /\ Here("save") -> [SetUser(call.row) EXCEPT !.f = Fields(call.row), !.saved = TRUE]
               [] call.at = "ok" /\ ~Here("save") -> SetUser(call.row)
               [] call.at = "401" /\ ui.token -> Expelled
               [] call.at = "EMAIL_ALREADY_IN_USE" /\ Here("save") -> [ui EXCEPT !.emailTaken = TRUE]
               [] OTHER -> ui

\* The preview stays in place of the address the answer brought.
Uploaded ==
    LET call == calls["upload"] IN
    /\ Answered("upload") /\ Taken("upload")
    /\ ui' = CASE call.at = "ok" -> SetUser(call.row)
               [] call.at = "401" /\ ui.token -> Expelled
               [] call.at # "ok" /\ Here("upload") -> [ui EXCEPT !.preview = 0]
               [] OTHER -> ui

CodeAsked ==
    LET call == calls["phone"] IN
    /\ call.what = "code" /\ Answered("phone") /\ Taken("phone")
    /\ ui' = CASE call.at = "401" /\ ui.token -> Expelled
               [] call.at = "ok" /\ Here("phone") -> [ui EXCEPT !.at = "code", !.code = NoCode, !.stale = FALSE]
               [] call.at = "PHONE_ALREADY_REGISTERED" /\ Here("phone") -> [ui EXCEPT !.phoneTaken = TRUE]
               [] OTHER -> ui

ResendAnswered ==
    LET call == calls["resend"] IN
    /\ Answered("resend") /\ Taken("resend")
    /\ ui' = CASE call.at = "401" /\ ui.token -> Expelled
               [] call.at = "ok" /\ Here("resend") -> [ui EXCEPT !.stale = FALSE]
               [] OTHER -> ui

\* signOutThenLogin: the new number is filled in, and the notice says why.
VerifyAnswered ==
    LET call == calls["phone"] IN
    /\ call.what = "verify" /\ Answered("phone") /\ Taken("phone")
    /\ ui' = CASE call.at = "401" /\ ui.token -> Expelled
               [] call.at = "ok" -> [SignedOut EXCEPT !.at = "login", !.notice = "phone-changed", !.prefill = call.number]
               [] call.at \in {"INVALID_OTP", "OTP_EXPIRED"} /\ Here("phone") /\ ui.at = "code" -> [ui EXCEPT !.code = NoCode]
               [] call.at = "PHONE_ALREADY_REGISTERED" /\ Here("phone") /\ ui.at = "code" -> FirstStep
               [] OTHER -> ui

-----------------------------------------------------------------------------
Next ==
    \/ \E word \in Words : Edit("name", word) \/ Edit("email", word)
    \/ Save \/ \E photo \in 1 .. 2 : PickPhoto(photo)
    \/ OpenPhone \/ ClosePhone \/ ChangePassword
    \/ \E number \in Numbers : TypeNumber(number)
    \/ \E password \in {"right", "wrong"} : TypePassword(password)
    \/ SendCode \/ Resend \/ Verify \/ DifferentNumber
    \/ \E code \in 1 .. Wrong : TypeCode(code)
    \/ UpdateMe \/ UploadMyAvatar \/ VerifyPhoneChange
    \/ \E slot \in {"phone", "resend"} : RequestPhoneChange(slot)
    \/ \E slot \in Slots : Unauthorized(slot) \/ Lose(slot)
    \/ Elsewhere \/ CountedDown
    \/ Saved \/ Uploaded \/ CodeAsked \/ ResendAnswered \/ VerifyAnswered

Spec == Init /\ [][Next]_vars

-----------------------------------------------------------------------------
TypeOK ==
    /\ ui.at \in {"account", "change", "code", "login", "forgot"}
    /\ ui.f.name \in Words /\ ui.f.email \in Words /\ ui.code \in 0 .. Wrong
    /\ Len(server.codes) <= MaxCodes /\ server.row.phone \in Numbers

\* "Profile saved." stands over what the server keeps, and a form that has nothing to save
\* shows it, unless the other device has written since (handleSave, dirty).
SavedIsStored ==
    ui.at = "account" /\ ui.token /\ ~server.elsewhere /\ server.trouble = 0 /\ ~Busy("save") =>
        /\ ui.saved => ui.f = Fields(server.row)
        /\ ~Dirty /\ ~ui.crossed => ui.f = Fields(server.row)

\* A photo shown after its upload is the one others see, and so is any photo as long as no
\* answer was lost or taken out of order (AvatarPicker, handleAvatarPick).
PhotoIsStored ==
    ui.at = "account" /\ ~Busy("upload") =>
        /\ ui.preview # 0 => server.row.photo = ui.preview
        /\ ~ui.crossed /\ server.trouble = 0 => server.row.photo = Shown

\* Who is told that the number was changed signs in with the number the account has, and
\* nothing of the old session is left, here or there; a code for one number never proves
\* another (verify_phone_change, handleVerify).
ChangedNumberSignsIn ==
    /\ ui.notice = "phone-changed" => server.row.phone = ui.prefill /\ ~server.session /\ ~ui.token
    /\ ui.token /\ server.row.phone # ui.user.phone /\ ~Busy("phone") => server.trouble > 0
    /\ server.row.phone # Row.phone => \E i \in DOMAIN server.codes : server.codes[i].to = server.row.phone

\* The number the code page names is one that a code was sent to, unless the field was
\* changed while the code was asked for (ChangePhoneForm, CodeStep).
CodeWasSent ==
    ui.at = "code" /\ ~ui.retyped => \E i \in DOMAIN server.codes : server.codes[i].to = ui.number

Faithful == SavedIsStored /\ PhotoIsStored /\ ChangedNumberSignsIn /\ CodeWasSent

=============================================================================
