------------------------------ MODULE AuthForms ------------------------------
(***************************************************************************)
(* Signing up, signing in, proving the phone and resetting the password,   *)
(* on the web and in the mobile app: the forms, the code's countdown and   *)
(* its polls, and auth_service behind them.  One phone number, one tab,    *)
(* and a second tab that asks for codes of its own.                        *)
(***************************************************************************)
EXTENDS Naturals, Sequences, FiniteSets

CONSTANTS
    MaxCodes,    \* OTP_MAX_ATTEMPTS: codes sent to one phone before it is told to wait
    MaxTries,    \* OTP_MAX_ATTEMPTS: wrong digits before a code is locked
    MaxTime,     \* bound: the clock stops here
    MaxFails     \* bound: requests and deliveries that fail, logins that are refused

VARIABLES
    ui,       \* the page and what its hooks remember
    server,   \* the account, the otp_requests rows and the clock
    calls     \* the form's request, the resend and the status poll in flight

vars == <<ui, server, calls>>

Life == 1          \* OTP_EXPIRE_MINUTES
Unknown == 0       \* no expiry remembered; times start at 1
NoCode == 0
Wrong == MaxCodes + 1     \* six digits nobody sent
NoPw == 0
OldPw == 1
NewPw == 2
Asked == {"account", "profile", "terms"}      \* phone and password; the rest; the checkbox
NoForm == [step |-> 1, filled |-> {}, taken |-> {}]
NoCall == [kind |-> "none", at |-> "none", code |-> NoCode, pw |-> NoPw]
NoPoll == [at |-> "none", exp |-> Unknown, seen |-> 0]

Init ==
    /\ \E app \in {"web", "mobile"} :
        ui = [app |-> app, at |-> "login", purpose |-> "none", code |-> NoCode, setMode |-> FALSE, mem |-> NoPw,
              form |-> NoForm, exp |-> Unknown, cool |-> FALSE, lock |-> FALSE, already |-> FALSE, notice |-> "none", fresh |-> FALSE]
    /\ \E acct \in {"none", "pending", "lapsed", "trusted"} :
        /\ server = [acct |-> acct, pw |-> IF acct = "lapsed" THEN OldPw ELSE NoPw, codes |-> <<>>, now |-> 1, fails |-> 0]
    /\ calls = [submit |-> NoCall, resend |-> NoCall, poll |-> NoPoll]

-----------------------------------------------------------------------------
(* otp_requests. *)

\* Rows that are unused and not expired.
LiveCodes(purposes) ==
    {i \in DOMAIN server.codes : /\ server.codes[i].state = "live"
                                 /\ server.codes[i].exp > server.now
                                 /\ server.codes[i].purpose \in purposes}
Newest(S) == CHOOSE i \in S : \A j \in S : j <= i
AllPurposes == {"SIGNUP", "REVERIFY", "PASSWORD_RESET"}

\* otp_status: the newest live code, whatever it was sent for.
OtpStatus ==
    LET live == LiveCodes(AllPurposes) IN
    IF live = {} THEN Unknown ELSE server.codes[Newest(live)].exp

\* _issue_otp's cap on the codes sent to one phone.
MayIssue == Len(server.codes) < MaxCodes
WithCode(codes, purpose) ==
    Append(codes, [purpose |-> purpose, state |-> "live", exp |-> server.now + Life, tries |-> 0])

\* request_reverification_otp: a signup that was never finished gets a SIGNUP code.
ResendPurpose(purpose) ==
    CASE purpose = "password_reset" -> "PASSWORD_RESET"
      [] server.acct = "pending" -> "SIGNUP"
      [] OTHER -> "REVERIFY"

\* _matches_superseded_otp.
Superseded(code, purposes, newest) ==
    /\ code < newest /\ code \in DOMAIN server.codes
    /\ server.codes[code].purpose \in purposes /\ server.codes[code].state = "live"

\* _consume_otp: the verdict on the digits typed.
Verdict(code, purposes) ==
    LET live == LiveCodes(purposes)
        newest == Newest(live) IN
    CASE live = {} -> "OTP_EXPIRED"
      [] server.codes[newest].tries >= MaxTries -> "OTP_RATE_LIMITED"
      [] code = newest -> "ok"
      [] Superseded(code, purposes, newest) -> "OTP_SUPERSEDED"
      [] OTHER -> "INVALID_OTP"

Consumed(code, purposes) ==
    LET newest == Newest(LiveCodes(purposes)) IN
    CASE Verdict(code, purposes) = "ok" -> [server.codes EXCEPT ![newest].state = "used"]
      [] Verdict(code, purposes) = "INVALID_OTP" -> [server.codes EXCEPT ![newest].tries = @ + 1]
      [] OTHER -> server.codes

\* The codes a page's form is for.
AcceptedHere(purpose) ==
    CASE purpose = "signup" -> {"SIGNUP"}
      [] purpose = "reverify" -> {"REVERIFY", "SIGNUP"}
      [] OTHER -> {"PASSWORD_RESET"}

-----------------------------------------------------------------------------
(* What the pages show and offer. *)

\* useSecondsUntil: secondsLeft is null as long as no expiry is known.
Expired == ui.exp # Unknown /\ ui.exp <= server.now
Busy == calls.submit # NoCall

\* SignupForm: the second step opens once phone and password are right, and submits when
\* everything is.
WebSignupStep1 ==
    IF ui.form.step # 1 THEN {}
    ELSE {"account"} \cup (IF "account" \in ui.form.filled THEN {"next"} ELSE {})
WebSignupStep2 ==
    IF ui.form.step # 2 THEN {}
    ELSE {"profile", "terms", "step back"} \cup (IF ui.form.filled = Asked /\ ~Busy THEN {"signup"} ELSE {})
WebSignup == IF ui.at = "signup" THEN WebSignupStep1 \cup WebSignupStep2 ELSE {}

\* SignupScreen: one page.
MobileSignup ==
    IF ui.at # "signup" THEN {}
    ELSE Asked \cup (IF ui.form.filled = Asked /\ ~Busy THEN {"signup"} ELSE {})

WebLogin == IF ui.at = "login" /\ ~Busy /\ ~ui.lock THEN {"login", "forgot", "signup page"} ELSE {}
MobileLogin == IF ui.at = "login" /\ ~Busy /\ ~ui.lock THEN {"login", "forgot", "signup page"} ELSE {}

\* The six digits, the button, and the way back.
WebVerify ==
    IF ui.at # "verify" THEN {}
    ELSE {"back"} \cup
         (IF ui.code # NoCode /\ ~Expired /\ ~ui.already /\ ~ui.lock /\ ~Busy
          THEN {"verify"} ELSE {})
MobileVerify == WebVerify

WebForgot == IF ui.at = "forgot" /\ ~Busy /\ ~ui.lock THEN {"send", "back"} ELSE {}
MobileForgot == WebForgot

WebReset ==
    IF ui.at # "reset" THEN {}
    ELSE {"back"} \cup (IF ui.code # NoCode /\ ~Expired /\ ~Busy THEN {"reset"} ELSE {})
MobileReset == WebReset

WebOffers == WebSignup \cup WebLogin \cup WebVerify \cup WebForgot \cup WebReset
MobileOffers == MobileSignup \cup MobileLogin \cup MobileVerify \cup MobileForgot \cup MobileReset
Offers == IF ui.app = "web" THEN WebOffers ELSE MobileOffers

\* OtpStatus under the code field: resend, or why not yet.
WebOtpStatus ==
    CASE calls.resend # NoCall -> "sending"
      [] ui.cool -> "cooldown"
      [] OTHER -> "resend"
MobileOtpStatus == WebOtpStatus
MayResend == ui.at \in {"verify", "reset"} /\
             (IF ui.app = "web" THEN WebOtpStatus ELSE MobileOtpStatus) = "resend"

-----------------------------------------------------------------------------
(* Moving between the pages. *)

Blank == [ui EXCEPT !.code = NoCode, !.exp = Unknown, !.lock = FALSE, !.already = FALSE, !.purpose = "none", !.setMode = FALSE, !.form = NoForm,
                    !.notice = "none", !.fresh = FALSE]

\* A code page is opened with the expiry its opener remembered, and a fresh resend cooldown.
OpenCodePage(at, purpose, exp) ==
    [Blank EXCEPT !.at = at, !.purpose = purpose, !.exp = exp, !.cool = TRUE]

GoTo ==
    /\ \/ "back" \in Offers /\ ui.at = "verify"
          /\ ui' = [Blank EXCEPT !.at = IF ui.purpose = "signup" THEN "signup" ELSE "login"]
       \/ "back" \in Offers /\ ui.at # "verify" /\ ui' = [Blank EXCEPT !.at = "login"]
       \/ "forgot" \in Offers /\ ui' = [Blank EXCEPT !.at = "forgot"]
       \/ "signup page" \in Offers /\ ui' = [Blank EXCEPT !.at = "signup"]
    /\ calls.submit = NoCall /\ calls.resend = NoCall
    /\ calls' = [calls EXCEPT !.poll = NoPoll]
    /\ UNCHANGED server

\* Digits from the newest message, from an older one, or wrong ones.
Type(code) ==
    /\ ui.at \in {"verify", "reset"} /\ ~Expired /\ ui.code = NoCode
    /\ code \in DOMAIN server.codes \cup {Wrong}
    /\ code # Wrong => server.codes[code].state \in {"live", "used"}
    /\ ui' = [ui EXCEPT !.code = code]
    /\ UNCHANGED <<server, calls>>

-----------------------------------------------------------------------------
(* The forms. *)

Send(kind, code, pw) ==
    calls' = [calls EXCEPT !.submit = [kind |-> kind, at |-> "sent", code |-> code, pw |-> pw]]

\* Typing in a field takes back what the server said about it.
Fill(field) ==
    /\ field \in Offers \cap Asked
    /\ \E filled \in {ui.form.filled \cup {field}, ui.form.filled \ {field}} :
        ui' = [ui EXCEPT !.form.filled = filled, !.form.taken = @ \ {field}]
    /\ UNCHANGED <<server, calls>>

Step ==
    /\ \/ "next" \in Offers /\ ui' = [ui EXCEPT !.form.step = 2]
       \/ "step back" \in Offers /\ ~Busy /\ ui' = [ui EXCEPT !.form.step = 1]
    /\ UNCHANGED <<server, calls>>

SubmitSignup ==
    /\ "signup" \in Offers /\ Send("signup", NoCode, OldPw)
    /\ UNCHANGED <<ui, server>>

SubmitLogin ==
    /\ "login" \in Offers
    /\ \E pw \in {OldPw, NewPw} : Send("login", NoCode, pw)
    /\ UNCHANGED <<ui, server>>

SubmitForgot ==
    /\ "send" \in Offers /\ Send("forgot", NoCode, NoPw)
    /\ UNCHANGED <<ui, server>>

SubmitVerify ==
    /\ "verify" \in Offers
    /\ Send(IF ui.purpose = "signup" THEN "signup code" ELSE "reverify", ui.code, NoPw)
    /\ UNCHANGED <<ui, server>>

SubmitReset ==
    /\ "reset" \in Offers /\ Send("reset", ui.code, NewPw)
    /\ UNCHANGED <<ui, server>>

Resend ==
    /\ MayResend
    /\ calls' = [calls EXCEPT !.resend = [NoCall EXCEPT !.kind = ui.purpose, !.at = "sent"]]
    /\ UNCHANGED <<ui, server>>

-----------------------------------------------------------------------------
(* auth_service. *)

Reply(answer) == calls' = [calls EXCEPT !.submit.at = answer]
Refuse(answer) == Reply(answer) /\ UNCHANGED <<ui, server>>

\* _issue_otp: a code WhatsApp does not take leaves no row behind.
Issue(at, purpose, account) ==
    /\ ui' = [ui EXCEPT !.fresh = FALSE]
    /\ \/ /\ MayIssue
          /\ calls' = [calls EXCEPT ![at].at = "ok"]
          /\ server' = [account EXCEPT !.codes = WithCode(@, purpose)]
       \/ /\ MayIssue /\ server.fails < MaxFails
          /\ calls' = [calls EXCEPT ![at].at = "OTP_DELIVERY_FAILED"]
          /\ server' = [account EXCEPT !.fails = @ + 1]
       \/ /\ ~MayIssue
          /\ calls' = [calls EXCEPT ![at].at = "OTP_RATE_LIMITED"]
          /\ server' = account

Sent(kinds) == calls.submit.kind \in kinds /\ calls.submit.at = "sent"

Signup ==
    /\ Sent({"signup"})
    /\ CASE server.acct \in {"lapsed", "trusted"} -> Refuse("PHONE_ALREADY_REGISTERED")
         [] server.acct = "pending" /\ server.pw # NoPw -> Refuse("SIGNUP_ALREADY_PENDING")
         [] OTHER -> \/ Refuse("EMAIL_ALREADY_IN_USE")
                     \/ Issue("submit", "SIGNUP", [server EXCEPT !.acct = "pending", !.pw = calls.submit.pw])

Login ==
    /\ Sent({"login", "retry", "first login"})
    /\ Refuse(CASE server.acct = "none" -> "USER_NOT_FOUND"
                [] server.pw = NoPw -> "PASSWORD_NOT_SET"
                [] server.acct # "trusted" -> "PHONE_REVERIFICATION_REQUIRED"
                [] calls.submit.pw # server.pw -> "INVALID_CREDENTIALS"
                [] OTHER -> "ok")

\* request_password_reset, request_reverification_otp.
RequestCode ==
    /\ Sent({"forgot", "prove phone"})
    /\ IF server.acct = "none" THEN Refuse("USER_NOT_FOUND")
       ELSE Issue("submit", ResendPurpose(IF calls.submit.kind = "forgot" THEN "password_reset" ELSE "reverify"),
                  server)

RequestAgain ==
    /\ calls.resend.at = "sent"
    /\ Issue("resend", ResendPurpose(calls.resend.kind), server)

VerifySignupOtp ==
    /\ Sent({"signup code"})
    /\ LET answer == Verdict(calls.submit.code, AcceptedHere("signup")) IN
       CASE server.acct \in {"lapsed", "trusted"} -> Refuse("ALREADY_VERIFIED")
         [] server.acct = "none" \/ server.pw = NoPw -> Refuse("OTP_EXPIRED")
         [] OTHER -> /\ Reply(answer)
                     /\ server' = [server EXCEPT !.codes = Consumed(calls.submit.code, AcceptedHere("signup")),
                                                 !.acct = IF answer = "ok" THEN "trusted" ELSE @]
                     /\ UNCHANGED ui

ReverifyPhone ==
    /\ Sent({"reverify"})
    /\ LET answer == Verdict(calls.submit.code, AcceptedHere("reverify")) IN
       /\ Reply(answer)
       /\ server' = [server EXCEPT !.codes = Consumed(calls.submit.code, AcceptedHere("reverify")),
                                   !.acct = IF answer = "ok" THEN "trusted" ELSE @]
       /\ UNCHANGED ui

ResetPassword ==
    /\ Sent({"reset"})
    /\ LET answer == Verdict(calls.submit.code, AcceptedHere("password_reset")) IN
       /\ Reply(answer)
       /\ server' = [server EXCEPT !.codes = Consumed(calls.submit.code, AcceptedHere("password_reset")),
                                   !.acct = IF answer = "ok" THEN "trusted" ELSE @,
                                   !.pw = IF answer = "ok" THEN calls.submit.pw ELSE @]
       /\ UNCHANGED ui

\* A request or its answer is lost, or the limiter of the address refuses it.
Fail(at) ==
    /\ calls[at].at \in {"sent", "ok"} /\ server.fails < MaxFails
    /\ \E why \in {"network"} \cup (IF calls[at].at = "sent" THEN {"OTP_RATE_LIMITED"} ELSE {}) :
        calls' = [calls EXCEPT ![at].at = why]
    /\ server' = [server EXCEPT !.fails = @ + 1]
    /\ UNCHANGED ui

\* A second tab or the other device asks for a code for the same phone.
ElsewhereAsks(purpose) ==
    /\ ui.at \in {"verify", "reset"} /\ server.acct # "none" /\ MayIssue
    /\ server' = [server EXCEPT !.codes = WithCode(@, purpose)]
    /\ ui' = [ui EXCEPT !.fresh = FALSE]
    /\ UNCHANGED calls

\* The resend cooldown and the rate limits are over within a tick.
Tick ==
    /\ server.now < MaxTime
    /\ server' = [server EXCEPT !.now = @ + 1]
    /\ ui' = [ui EXCEPT !.cool = FALSE, !.lock = FALSE]
    /\ UNCHANGED calls

-----------------------------------------------------------------------------
(* The answers. *)

Failed(answer) ==
    [ui EXCEPT !.already = answer = "ALREADY_VERIFIED", !.lock = @ \/ answer = "OTP_RATE_LIMITED",
               !.code = IF answer \in {"INVALID_OTP", "OTP_EXPIRED", "OTP_SUPERSEDED"} THEN NoCode ELSE @]

\* signIn, and the page the person lands on.  The remembered password is not wiped: only ReverifyAnswered does.
SignedIn == [Blank EXCEPT !.at = "home"]

SignupAnswered ==
    LET answer == calls.submit.at IN
    /\ calls.submit.kind = "signup"
    /\ calls' = [calls EXCEPT !.submit = NoCall]
    /\ ui' = CASE answer = "ok" -> OpenCodePage("verify", "signup", server.now + Life)
               [] answer = "SIGNUP_ALREADY_PENDING" -> OpenCodePage("verify", "signup", Unknown)
               [] answer = "PHONE_ALREADY_REGISTERED" -> [ui EXCEPT !.form.taken = @ \cup {"account"}, !.form.step = 1]
               [] answer = "EMAIL_ALREADY_IN_USE" -> [ui EXCEPT !.form.taken = @ \cup {"profile"}]
               [] OTHER -> ui

\* A phone to prove is asked for a code at once; the password waits in memory.
LoginAnswered ==
    LET answer == calls.submit.at IN
    /\ calls.submit.kind = "login"
    /\ IF answer = "PHONE_REVERIFICATION_REQUIRED"
       THEN /\ calls' = [calls EXCEPT !.submit.kind = "prove phone", !.submit.at = "sent"]
            /\ UNCHANGED ui
       ELSE /\ calls' = [calls EXCEPT !.submit = NoCall]
            /\ ui' = CASE answer = "ok" -> SignedIn
                       [] answer = "PASSWORD_NOT_SET" -> [Blank EXCEPT !.at = "forgot", !.setMode = TRUE]
                       [] OTHER -> Failed(answer)

ProvePhoneAnswered ==
    /\ calls.submit.kind = "prove phone"
    /\ calls' = [calls EXCEPT !.submit = NoCall]
    /\ ui' = IF calls.submit.at = "ok"
             THEN [OpenCodePage("verify", "reverify", server.now + Life) EXCEPT !.mem = calls.submit.pw]
             ELSE ui

ForgotAnswered ==
    /\ calls.submit.kind = "forgot"
    /\ calls' = [calls EXCEPT !.submit = NoCall]
    /\ ui' = IF calls.submit.at = "ok" THEN [OpenCodePage("reset", "password_reset", server.now + Life) EXCEPT !.setMode = ui.setMode]
             ELSE Failed(calls.submit.at)

SignupCodeAnswered ==
    /\ calls.submit.kind = "signup code"
    /\ calls' = [calls EXCEPT !.submit = NoCall]
    /\ ui' = IF calls.submit.at = "ok" THEN SignedIn ELSE Failed(calls.submit.at)

\* The password that was typed before is tried again, once.
ReverifyAnswered ==
    /\ calls.submit.kind = "reverify"
    /\ IF calls.submit.at = "ok" /\ ui.mem # NoPw
       THEN /\ calls' = [calls EXCEPT !.submit = [kind |-> "retry", at |-> "sent", code |-> NoCode, pw |-> ui.mem]]
            /\ ui' = [ui EXCEPT !.mem = NoPw]
       ELSE /\ calls' = [calls EXCEPT !.submit = NoCall]
            /\ ui' = IF calls.submit.at = "ok" THEN [Blank EXCEPT !.at = "login", !.notice = "phone-verified"]
                     ELSE Failed(calls.submit.at)

\* The web sends an account without a password on to set one; the app shows the error.
RetryAnswered ==
    /\ calls.submit.kind = "retry"
    /\ calls' = [calls EXCEPT !.submit = NoCall]
    /\ ui' = CASE calls.submit.at = "ok" -> SignedIn
               [] calls.submit.at = "PASSWORD_NOT_SET" /\ ui.app = "web" -> [Blank EXCEPT !.at = "forgot", !.setMode = TRUE]
               [] OTHER -> Failed(calls.submit.at)

\* A first password signs in with it on the web; every other reset goes back to log in.
ResetAnswered ==
    /\ calls.submit.kind = "reset"
    /\ IF calls.submit.at = "ok" /\ ui.app = "web" /\ ui.setMode
       THEN calls' = [calls EXCEPT !.submit.kind = "first login", !.submit.at = "sent"] /\ UNCHANGED ui
       ELSE /\ calls' = [calls EXCEPT !.submit = NoCall]
            /\ ui' = IF calls.submit.at = "ok" THEN [Blank EXCEPT !.at = "login", !.notice = "password-updated"]
                     ELSE Failed(calls.submit.at)

FirstLoginAnswered ==
    /\ calls.submit.kind = "first login"
    /\ calls' = [calls EXCEPT !.submit = NoCall]
    /\ ui' = IF calls.submit.at = "ok" THEN SignedIn
             ELSE [Blank EXCEPT !.at = "login", !.notice = "password-updated"]

Answered ==
    /\ calls.submit.at \notin {"none", "sent"}
    /\ \/ SignupAnswered \/ LoginAnswered \/ ProvePhoneAnswered \/ ForgotAnswered \/ SignupCodeAnswered
       \/ ReverifyAnswered \/ RetryAnswered \/ ResetAnswered \/ FirstLoginAnswered
    /\ UNCHANGED server

\* A successful resend starts both clocks again and clears the banner and the lock.
ResendAnswered ==
    /\ calls.resend.at \notin {"none", "sent"}
    /\ calls' = [calls EXCEPT !.resend = NoCall]
    /\ ui' = IF calls.resend.at = "ok"
             THEN [ui EXCEPT !.exp = server.now + Life, !.cool = TRUE, !.lock = FALSE]
             ELSE [ui EXCEPT !.cool = @ \/ calls.resend.at = "OTP_RATE_LIMITED"]
    /\ UNCHANGED server

-----------------------------------------------------------------------------
(* The status poll: on mount, on focus, every 25 seconds. *)

Poll ==
    /\ ui.at \in {"verify", "reset"} /\ calls.poll = NoPoll /\ ~ui.fresh
    /\ calls' = [calls EXCEPT !.poll = [at |-> "read", exp |-> OtpStatus, seen |-> Len(server.codes)]]
    /\ UNCHANGED <<ui, server>>

\* A page that counts down what it first heard.
KeepsFirst(known, heard) == IF known = Unknown THEN heard ELSE known

\* Only a later expiry is taken over.
Adopted(known, heard) == IF heard # Unknown /\ (known = Unknown \/ heard > known) THEN heard ELSE known

ShowStatus ==
    /\ calls.poll.at = "read" /\ ui.at \in {"verify", "reset"}
    /\ calls' = [calls EXCEPT !.poll = NoPoll]
    /\ ui' = [ui EXCEPT !.exp = Adopted(@, calls.poll.exp),
                        !.fresh = calls.poll.seen = Len(server.codes)]
    /\ UNCHANGED server

-----------------------------------------------------------------------------
Next ==
    \/ GoTo \/ SubmitSignup \/ SubmitLogin \/ SubmitForgot \/ SubmitVerify \/ SubmitReset \/ Resend
    \/ Step \/ \E field \in Asked : Fill(field)
    \/ \E code \in 1 .. Wrong : Type(code)
    \/ Signup \/ Login \/ RequestCode \/ RequestAgain \/ VerifySignupOtp \/ ReverifyPhone \/ ResetPassword
    \/ \E at \in {"submit", "resend"} : Fail(at)
    \/ \E page \in {"reverify", "password_reset"} : ElsewhereAsks(ResendPurpose(page))
    \/ Tick \/ Answered \/ ResendAnswered \/ Poll \/ ShowStatus

Spec == Init /\ [][Next]_vars

-----------------------------------------------------------------------------
TypeOK ==
    /\ ui.at \in {"signup", "login", "verify", "forgot", "reset", "home"}
    /\ ui.code \in 0 .. Wrong /\ ui.exp \in 0 .. MaxTime + Life
    /\ \A i \in DOMAIN server.codes : server.codes[i].tries <= MaxTries
    /\ server.pw \in {NoPw, OldPw, NewPw} /\ server.now \in 1 .. MaxTime

\* A code page that has heard from the server never calls a code expired, nor locks the
\* field, while a code it would accept is alive (useOtpFlow's refresh).
ExpiredIsExpired ==
    ui.at \in {"verify", "reset"} /\ ui.fresh /\ Expired => LiveCodes(AcceptedHere(ui.purpose)) = {}

\* Whoever is signed in has a proven phone and a password, and a notice on the login page
\* tells what happened.
SignedInIsProven ==
    /\ ui.at = "home" => server.acct = "trusted" /\ server.pw # NoPw
    /\ ui.notice # "none" => server.acct = "trusted"
    /\ ui.notice = "password-updated" => server.pw = NewPw

Faithful == ExpiredIsExpired /\ SignedInIsProven

=============================================================================
