---------------------------- MODULE ClientSession ----------------------------
(***************************************************************************)
(* How a browser keeps its login: the api client (one shared refresh per   *)
(* page, a 401 answered by a retry or a refresh), the auth store with its  *)
(* copy in localStorage, the restore on page load, the proactive refresh   *)
(* and the log-out, against a server that rotates a session on refresh.    *)
(*                                                                         *)
(* A tab has one call of each kind: "me" (the restore), "page" (any request *)
(* of its screens) and "logout".  The timer's refreshSession has no request *)
(* of its own.  The local storage is shared by the tabs, the store in       *)
(* memory is not.                                                           *)
(***************************************************************************)
EXTENDS Integers, FiniteSets

CONSTANTS
    Tabs,          \* the browser tabs open on the app
    MaxToken,      \* bound: how many session tokens the server issues
    Attempts,      \* how often restoreSession asks before it gives up
    RefreshLost    \* whether the answer of a refresh may be lost on its way

ASSUME SessionAssumption ==
    /\ MaxToken \in Nat \ {0} /\ Attempts \in Nat \ {0} /\ RefreshLost \in BOOLEAN

NoToken == 0
Tokens == 1 .. MaxToken
Kinds == {"me", "page", "logout"}

VARIABLES
    live,     \* the tokens whose sessions row is neither revoked nor expired
    issued,   \* the newest token the server has issued
    stored,   \* maidan.session_token in localStorage
    cached,   \* maidan.cached_user is in localStorage
    tab,      \* per tab: the auth store, and the restore's attempt
    refresh,  \* per tab: refreshPromise and the request behind it
    call      \* per tab and kind: the request in flight

vars == <<live, issued, stored, cached, tab, refresh, call>>

NoCall == [at |-> "idle", token |-> NoToken, sends |-> 0]
NoRefresh == [at |-> "none", token |-> NoToken, new |-> NoToken]
Unhydrated == [status |-> "hydrating", token |-> NoToken, asked |-> 0, renewing |-> FALSE, leaving |-> FALSE]
InFlight(t, k) == call[t][k].at # "idle"

Init ==
    /\ live = {1} /\ issued = 1 /\ stored = 1 /\ cached = FALSE
    /\ tab = [t \in Tabs |-> Unhydrated]
    /\ refresh = [t \in Tabs |-> NoRefresh]
    /\ call = [t \in Tabs |-> [k \in Kinds |-> NoCall]]

-----------------------------------------------------------------------------
(* The auth store. *)

SignedOutTab(t) == [tab[t] EXCEPT !.status = "signedOut", !.token = NoToken, !.renewing = FALSE]

\* signOut, with what it removes from localStorage.
StoreSignOut(t, rest) ==
    /\ tab' = [tab EXCEPT ![t] = [SignedOutTab(t) EXCEPT !.leaving = rest]]
    /\ stored' = NoToken /\ cached' = FALSE

\* setUser: the restore was answered.
StoreSetUser(t) ==
    /\ tab' = [tab EXCEPT ![t].status = "signedIn", ![t].asked = 0]
    /\ cached' = TRUE

\* markUnreachable: nothing unless the page is still hydrating.
Unreachable(t) ==
    IF tab[t].status # "hydrating" THEN tab[t].status
    ELSE IF cached THEN "signedIn" ELSE "unreachable"

-----------------------------------------------------------------------------
(* The requests of a page. *)

Sent(c, token) == [at |-> "sent", token |-> token, sends |-> c.sends + 1]

\* A screen asks for its data, before the page has hydrated its token or after.
Ask(t, k) ==
    /\ k = "page" /\ ~InFlight(t, k)
    /\ call' = [call EXCEPT ![t][k] = Sent(NoCall, tab[t].token)]
    /\ UNCHANGED <<live, issued, stored, cached, tab, refresh>>

\* The server looks the token up; a log-out revokes it.
Answer(t, k) ==
    LET c == call[t][k] IN
    /\ c.at = "sent"
    /\ call' = [call EXCEPT ![t][k].at = IF c.token \in live THEN "ok" ELSE "refused"]
    /\ live' = IF k = "logout" THEN live \ {c.token} ELSE live
    /\ UNCHANGED <<issued, stored, cached, tab, refresh>>

\* The request or its answer is lost, or 30 seconds pass.
Lose(t, k) ==
    /\ call[t][k].at \in {"sent", "ok", "refused"}
    /\ call' = [call EXCEPT ![t][k].at = "lost"]
    /\ UNCHANGED <<live, issued, stored, cached, tab, refresh>>

\* What the caller of a request does once it is settled: the log-out signs out whatever
\* the answer, the restore stores the user or asks again until it gives up.
Settle(t, k, how) ==
    CASE k = "logout" -> StoreSignOut(t, FALSE)
      [] k = "me" /\ how = "ok" -> StoreSetUser(t) /\ UNCHANGED stored
      [] k = "me" /\ how = "lost" /\ tab[t].asked >= Attempts ->
            /\ tab' = [tab EXCEPT ![t].status = Unreachable(t), ![t].asked = 0]
            /\ UNCHANGED <<stored, cached>>
      [] OTHER -> UNCHANGED <<stored, cached, tab>>

\* restoreSession: another attempt after a network error.
AskAgain(t, k) ==
    /\ k = "me" /\ call[t][k].at = "lost" /\ tab[t].asked < Attempts
    /\ tab' = [tab EXCEPT ![t].asked = @ + 1]
    /\ call' = [call EXCEPT ![t][k] = Sent(NoCall, tab[t].token)]
    /\ UNCHANGED <<live, issued, stored, cached, refresh>>

Finish(t, k) ==
    /\ call[t][k].at \in {"ok", "lost"}
    /\ ~(k = "me" /\ call[t][k].at = "lost" /\ tab[t].asked < Attempts)
    /\ Settle(t, k, call[t][k].at)
    /\ call' = [call EXCEPT ![t][k] = NoCall]
    /\ UNCHANGED <<live, issued, refresh>>

\* A request without the `retried` flag.
AlwaysRetries(c) == TRUE

\* A request that got a 401 is sent a second time, never a third.
MayRetry(c) == c.sends < 2

\* on401 without its first test: any 401 rotates the session.
AlwaysRefreshes(t, c) == FALSE

\* on401: the token changed while the request was in flight.
TokenChanged(t, c) == tab[t].token # NoToken /\ tab[t].token # c.token

RetryWithCurrent(t, k) ==
    LET c == call[t][k] IN
    /\ c.at = "refused" /\ MayRetry(c) /\ TokenChanged(t, c)
    /\ call' = [call EXCEPT ![t][k] = Sent(c, tab[t].token)]
    /\ UNCHANGED <<live, issued, stored, cached, tab, refresh>>

\* tryRefresh: join the refresh under way, or send one with the token of the store.
JoinRefresh(t) ==
    refresh' = [refresh EXCEPT ![t] =
        IF @.at = "none" THEN [at |-> "sent", token |-> tab[t].token, new |-> NoToken] ELSE @]

AwaitRefresh(t, k) ==
    LET c == call[t][k] IN
    /\ c.at = "refused" /\ MayRetry(c) /\ ~TokenChanged(t, c)
    /\ c.token # NoToken /\ (refresh[t].at # "none" \/ tab[t].token # NoToken)
    /\ JoinRefresh(t)
    /\ call' = [call EXCEPT ![t][k].at = "waiting"]
    /\ UNCHANGED <<live, issued, stored, cached, tab>>

\* Nobody is signed in here: with a token sent and none left tryRefresh says "rejected".
GiveUpUnauthenticated(t, k) ==
    LET c == call[t][k] IN
    /\ c.at = "refused"
    /\ \/ ~MayRetry(c)
       \/ tab[t].token = NoToken /\ (c.token = NoToken \/ refresh[t].at = "none")
    /\ IF k = "logout" \/ (MayRetry(c) /\ c.token # NoToken)
       THEN StoreSignOut(t, k # "logout" /\ tab[t].leaving)
       ELSE /\ tab' = [tab EXCEPT ![t].asked = IF k = "me" THEN 0 ELSE @]
            /\ UNCHANGED <<stored, cached>>
    /\ call' = [call EXCEPT ![t][k] = NoCall]
    /\ UNCHANGED <<live, issued, refresh>>

-----------------------------------------------------------------------------
(* The refresh. *)

\* refreshSession on the timer, on focus and when the network is back.
Renew(t) ==
    /\ tab[t].status = "signedIn" /\ ~tab[t].renewing
    /\ tab[t].token # NoToken \/ refresh[t].at # "none"
    /\ JoinRefresh(t)
    /\ tab' = [tab EXCEPT ![t].renewing = TRUE]
    /\ UNCHANGED <<live, issued, stored, cached, call>>

\* The same for a page that was signed out behind the restore's back.
RenewFindsNoToken(t) ==
    /\ tab[t].status = "signedIn" /\ tab[t].token = NoToken /\ refresh[t].at = "none"
    /\ StoreSignOut(t, tab[t].leaving)
    /\ UNCHANGED <<live, issued, refresh, call>>

\* refresh_token: the old session is revoked and a new one issued, in one commit.
Rotate(t) ==
    LET r == refresh[t] IN
    /\ r.at = "sent" /\ r.token \in live /\ issued < MaxToken
    /\ issued' = issued + 1
    /\ live' = (live \ {r.token}) \cup {issued'}
    /\ refresh' = [refresh EXCEPT ![t].at = "rotated", ![t].new = issued']
    /\ UNCHANGED <<stored, cached, tab, call>>

\* An answer below 500 that is not a session.  401: expired, revoked, or the phone must be verified
\* again (which revokes it too).  429: too many requests from this address; the session lives on.
RefuseRefresh(t) ==
    LET r == refresh[t] IN
    /\ r.at = "sent"
    /\ \E refusal \in {"refused", "throttled"} :
        /\ live' = IF refusal = "refused" THEN live \ {r.token} ELSE live
        /\ refresh' = [refresh EXCEPT ![t].at = refusal]
    /\ UNCHANGED <<issued, stored, cached, tab, call>>

\* A network error, a time-out or a 5xx; the answer of a rotation only if RefreshLost.
LoseRefresh(t) ==
    /\ refresh[t].at = "sent" \/ (RefreshLost /\ refresh[t].at = "rotated")
    /\ refresh' = [refresh EXCEPT ![t].at = "lost"]
    /\ UNCHANGED <<live, issued, stored, cached, tab, call>>

Waiting(t) == {k \in Kinds : call[t][k].at = "waiting"}

\* A refresh that forgets who waits for it.
NotResumed(t, token) == call[t]

\* Everyone who waits for the refresh is sent again with the token it brought.
Resumed(t, token) ==
    [k \in Kinds |-> IF k \in Waiting(t) THEN Sent(call[t][k], token) ELSE call[t][k]]

\* Everyone who waits for the refresh gets its own 401 to report.
Reported(t) == [k \in Kinds |-> IF k \in Waiting(t) THEN NoCall ELSE call[t][k]]

\* A new token that stays in memory.
InMemoryOnly(new) == stored

\* setToken: the new token is stored too.
StoredOnRefresh(new) == new

FinishRefresh(t) ==
    /\ refresh[t].at = "rotated"
    /\ tab' = [tab EXCEPT ![t].token = refresh[t].new, ![t].renewing = FALSE]
    /\ stored' = StoredOnRefresh(refresh[t].new)
    /\ call' = [call EXCEPT ![t] = Resumed(t, refresh[t].new)]
    /\ refresh' = [refresh EXCEPT ![t] = NoRefresh]
    /\ UNCHANGED <<live, issued, cached>>

\* A client that takes every failure for a refusal.
AnyFailureEndsSession(outcome) == outcome \in {"refused", "throttled", "lost"}

\* Which outcomes of a refresh end the session of the page: tryRefresh calls both "rejected".
EndsSession(outcome) == outcome \in {"refused", "throttled"}

FailRefresh(t) ==
    LET out == EndsSession(refresh[t].at) \/ "logout" \in Waiting(t) IN
    /\ refresh[t].at \in {"refused", "throttled", "lost"}
    /\ tab' = [tab EXCEPT ![t] =
           [IF out THEN SignedOutTab(t) ELSE tab[t] EXCEPT
                !.renewing = FALSE, !.asked = IF "me" \in Waiting(t) THEN 0 ELSE @,
                !.leaving = @ /\ "logout" \notin Waiting(t)]]
    /\ stored' = IF out THEN NoToken ELSE stored
    /\ cached' = (cached /\ ~out)
    /\ call' = [call EXCEPT ![t] = Reported(t)]
    /\ refresh' = [refresh EXCEPT ![t] = NoRefresh]
    /\ UNCHANGED <<live, issued>>

-----------------------------------------------------------------------------
(* The user and the clock. *)

\* A page load: whatever the old page had in memory or in flight is gone.
Load(t) ==
    /\ tab' = [tab EXCEPT ![t] = Unhydrated]
    /\ refresh' = [refresh EXCEPT ![t] = NoRefresh]
    /\ call' = [call EXCEPT ![t] = [k \in Kinds |-> NoCall]]
    /\ UNCHANGED <<live, issued, stored, cached>>

\* restore, on mount and from the retry of the unreachable screen: hydrate the token and
\* ask who it belongs to.
Restore(t) ==
    /\ \/ tab[t].status = "hydrating" /\ tab[t].token = NoToken
       \/ tab[t].status = "unreachable"
    /\ ~InFlight(t, "me") /\ tab[t].asked = 0
    /\ IF stored = NoToken
       THEN /\ tab' = [tab EXCEPT ![t].status = "signedOut"]
            /\ UNCHANGED call
       ELSE /\ tab' = [tab EXCEPT ![t].token = stored, ![t].asked = 1]
            /\ call' = [call EXCEPT ![t]["me"] = Sent(NoCall, stored)]
    /\ UNCHANGED <<live, issued, stored, cached, refresh>>

\* The login form's answer: a session of its own.
SignIn(t) ==
    /\ tab[t].status = "signedOut" /\ issued < MaxToken
    /\ issued' = issued + 1 /\ live' = live \cup {issued'}
    /\ stored' = issued' /\ cached' = TRUE
    /\ tab' = [tab EXCEPT ![t].status = "signedIn", ![t].token = issued']
    /\ UNCHANGED <<refresh, call>>

LogOut(t) ==
    /\ tab[t].status = "signedIn" /\ ~tab[t].leaving
    /\ tab' = [tab EXCEPT ![t].leaving = TRUE]
    /\ call' = [call EXCEPT ![t]["logout"] = Sent(NoCall, tab[t].token)]
    /\ UNCHANGED <<live, issued, stored, cached, refresh>>

\* Eight hours pass, or a password reset, a role change or a deactivation revokes it.
Expire(k) ==
    /\ k \in live
    /\ live' = live \ {k}
    /\ UNCHANGED <<issued, stored, cached, tab, refresh, call>>

CallStep(t, k) ==
    \/ Answer(t, k) \/ Finish(t, k) \/ AskAgain(t, k) \/ RetryWithCurrent(t, k)
    \/ AwaitRefresh(t, k) \/ GiveUpUnauthenticated(t, k)
RefreshStep(t) == Rotate(t) \/ RefuseRefresh(t) \/ FinishRefresh(t) \/ FailRefresh(t)

Next ==
    \/ \E t \in Tabs, k \in Kinds : Ask(t, k) \/ CallStep(t, k) \/ Lose(t, k)
    \/ \E t \in Tabs : \/ RefreshStep(t) \/ LoseRefresh(t) \/ Renew(t) \/ RenewFindsNoToken(t)
                       \/ Load(t) \/ Restore(t) \/ SignIn(t) \/ LogOut(t)
    \/ \E k \in Tokens : Expire(k)

Spec == Init /\ [][Next]_vars

\* The page's own effects run; an answer, an error or the time-out ends every request.
FairSpec ==
    /\ Spec
    /\ \A t \in Tabs : /\ WF_vars(Restore(t)) /\ WF_vars(RefreshStep(t) \/ LoseRefresh(t))
                       /\ \A k \in Kinds : WF_vars(CallStep(t, k))

-----------------------------------------------------------------------------
CallType == [at : {"idle", "sent", "ok", "refused", "lost", "waiting"},
             token : Tokens \cup {NoToken}, sends : 0 .. 2]
TabType == [status : {"hydrating", "signedOut", "signedIn", "unreachable"},
            token : Tokens \cup {NoToken}, asked : 0 .. Attempts,
            renewing : BOOLEAN, leaving : BOOLEAN]
RefreshType == [at : {"none", "sent", "rotated", "refused", "throttled", "lost"},
                token : Tokens \cup {NoToken}, new : Tokens \cup {NoToken}]

\* The shape of the state; a request is on the wire at most twice.
TypeOK ==
    /\ live \subseteq 1 .. issued /\ issued \in Tokens
    /\ stored \in 0 .. issued /\ cached \in BOOLEAN
    /\ tab \in [Tabs -> TabType]
    /\ refresh \in [Tabs -> RefreshType]
    /\ call \in [Tabs -> [Kinds -> CallType]]

\* A reload finds the token the page works with: with one tab open the copy in the local
\* storage follows every refresh, log-in and log-out of the store.
ReloadFindsTheToken ==
    \A t \in Tabs :
        Tabs = {t} /\ tab[t].status \in {"signedIn", "signedOut"} => stored = tab[t].token

\* A 401 never makes the client rotate a session the server still accepts (client.ts on401):
\* only the timer renews a live one.  Two requests refused for the same old token, one
\* answered before the refresh and one after it, is how that went wrong.
OnlyDeadTokensAreRefreshed ==
    [][\A t \in Tabs :
          refresh[t].at = "none" /\ refresh'[t].at = "sent" /\ tab'[t].renewing = tab[t].renewing
              => refresh'[t].token \notin live]_vars

\* A page that nobody logs out of is signed out only when the session it had asked to renew is over
\* on the server: not by a network failure, a time-out or a 5xx, nor because another tab or request
\* renewed the session before (client.ts RefreshOutcome).  Except by the rate limiter: the client
\* takes its 429 for a refusal.
SignedOutOnlyWhenOver ==
    [][\A t \in Tabs :
          tab[t].status = "signedIn" /\ tab'[t].status = "signedOut" /\ ~tab[t].leaving
              => refresh[t].token \notin live \/ refresh[t].at = "throttled"]_vars

\* No request waits forever for a refresh another request started.
EveryCallSettles ==
    \A t \in Tabs, k \in Kinds : InFlight(t, k) ~> ~InFlight(t, k)

\* A restore that is over has found out whether somebody is signed in: the page is out of
\* "hydrating" (providers.tsx restore: after a 401 "the api client already signed out").
RestoreDecides ==
    \A t \in Tabs : tab[t].status = "hydrating" /\ tab[t].token # NoToken => InFlight(t, "me")

\* When the server refuses a refresh the browser's login is really over (client.ts
\* RefreshOutcome "rejected"): no session of it is left.
RejectedMeansSignedOut ==
    [][\A t \in Tabs :
          refresh[t].at = "refused" /\ stored # NoToken /\ stored' = NoToken
              => live = {}]_vars

=============================================================================
