------------------------ MODULE ClientSessionProofs ------------------------
(***************************************************************************)
(* Proofs about ClientSession, for any number of tabs, of tokens and of    *)
(* attempts, with the answers of refreshes lost or not.                    *)
(*                                                                         *)
(* The argument: a token the server has refused is dead and stays dead,    *)
(* because the tokens issued later are new ones (RefusedIsDead).  So what  *)
(* a refusal makes the client do, whenever it gets to it, it does to a     *)
(* session that is over; and a log-out under way is remembered in the      *)
(* store (LeavingKnown).  With one tab the store and the local storage are *)
(* written together (InStep).                                              *)
(***************************************************************************)
EXTENDS ClientSession, TLAPS

\* Nothing in a page or on the wire names a token that was not issued yet.
TokensIssued ==
    \A t \in Tabs :
        /\ tab[t].token <= issued /\ refresh[t].token <= issued /\ refresh[t].new <= issued
        /\ \A k \in Kinds : call[t][k].token <= issued

\* Who waits for a refresh may be sent once more.
WaitersMayRetry ==
    \A t \in Tabs, k \in Kinds : call[t][k].at = "waiting" => call[t][k].sends < 2

\* A token that was refused, to a request or to a refresh, names no session.
RefusedIsDead ==
    \A t \in Tabs :
        /\ refresh[t].at = "refused" => refresh[t].token \notin live
        /\ refresh[t].at = "none" => refresh[t].token = NoToken
        /\ \A k \in Kinds : call[t][k].at = "refused" => call[t][k].token \notin live

\* A log-out on the wire is known to the store.
LeavingKnown == \A t \in Tabs : InFlight(t, "logout") => tab[t].leaving

\* The only tab has the token that is stored, as soon as it has one or asks with one.
InStep ==
    \A t \in Tabs :
        /\ Tabs = {t}
        /\ \/ tab[t].token # NoToken \/ InFlight(t, "me")
           \/ tab[t].status \in {"signedIn", "signedOut"}
        => stored = tab[t].token

Core == TokensIssued /\ WaitersMayRetry /\ RefusedIsDead /\ LeavingKnown /\ InStep

-----------------------------------------------------------------------------

CallStates == {"idle", "sent", "ok", "refused", "lost", "waiting"}
Statuses == {"hydrating", "signedOut", "signedIn", "unreachable"}
AnyToken == Tokens \cup {NoToken}

\* The values the records of a call, a tab and a refresh may take.
LEMMA CallValues ==
    /\ NoCall \in CallType
    /\ \A c \in CallType, token \in AnyToken : c.sends < 2 => Sent(c, token) \in CallType
    /\ \A c \in CallType, at \in CallStates : [c EXCEPT !.at = at] \in CallType
    /\ NoCall.sends < 2 /\ \A c \in CallType : c.token \in AnyToken
  BY DEF CallType, NoCall, Sent, AnyToken, CallStates

LEMMA TabValues ==
    /\ Unhydrated \in TabType
    /\ \A x \in TabType, status \in Statuses : [x EXCEPT !.status = status] \in TabType
    /\ \A x \in TabType, token \in AnyToken : [x EXCEPT !.token = token] \in TabType
    /\ \A x \in TabType, n \in 0 .. Attempts : [x EXCEPT !.asked = n] \in TabType
    /\ \A x \in TabType, b \in BOOLEAN : [x EXCEPT !.renewing = b] \in TabType
    /\ \A x \in TabType, b \in BOOLEAN : [x EXCEPT !.leaving = b] \in TabType
    /\ \A x \in TabType : x.token \in AnyToken /\ x.asked \in 0 .. Attempts
    /\ \A x \in TabType : x.status \in Statuses /\ x.leaving \in BOOLEAN
  BY SessionAssumption DEF TabType, Unhydrated, AnyToken, Statuses, NoToken

LEMMA SignedOutValue ==
    ASSUME TypeOK, NEW t \in Tabs
    PROVE  /\ SignedOutTab(t) \in TabType
           /\ \A b \in BOOLEAN : [SignedOutTab(t) EXCEPT !.leaving = b] \in TabType
  BY SessionAssumption DEF TypeOK, TabType, SignedOutTab, AnyToken, Statuses

LEMMA SetCall ==
    ASSUME TypeOK, NEW t \in Tabs, NEW k \in Kinds, NEW c \in CallType,
           call' = [call EXCEPT ![t][k] = c]
    PROVE  call' \in [Tabs -> [Kinds -> CallType]]
  BY DEF TypeOK

LEMMA SetTab ==
    ASSUME TypeOK, NEW t \in Tabs, NEW x \in TabType, tab' = [tab EXCEPT ![t] = x]
    PROVE  tab' \in [Tabs -> TabType]
  BY DEF TypeOK

LEMMA IssuedTokens ==
    ASSUME TypeOK, Core
    PROVE  /\ issued \in Int /\ stored \in AnyToken /\ issued \in AnyToken
           /\ \A t \in Tabs : /\ refresh[t].new \in 0 .. issued /\ refresh[t].new \in AnyToken
                              /\ refresh[t].token \in AnyToken
  BY SessionAssumption DEF TypeOK, Core, TokensIssued, RefreshType, AnyToken, Tokens, NoToken

LEMMA CallsTyped ==
    ASSUME TypeOK, Core, [Next]_vars
    PROVE  call' \in [Tabs -> [Kinds -> CallType]]
<1> DEFINE Goal == call' \in [Tabs -> [Kinds -> CallType]]
<1>1. /\ call \in [Tabs -> [Kinds -> CallType]] /\ tab \in [Tabs -> TabType]
      /\ {"me", "page", "logout"} = Kinds
  BY DEF TypeOK, Kinds
<1>2. ASSUME UNCHANGED call
      PROVE  Goal
  BY <1>1, <1>2
<1>3. ASSUME NEW t \in Tabs, NEW k \in Kinds, Ask(t, k)
      PROVE  Goal
  BY <1>1, <1>3, CallValues, TabValues, SetCall DEF Ask
<1>4. ASSUME NEW t \in Tabs, NEW k \in Kinds, NEW at \in CallStates,
             call' = [call EXCEPT ![t][k] = [call[t][k] EXCEPT !.at = at]]
      PROVE  Goal
  BY <1>1, <1>4, CallValues, SetCall
<1>5. ASSUME NEW t \in Tabs, NEW k \in Kinds, Answer(t, k) \/ Lose(t, k) \/ AwaitRefresh(t, k)
      PROVE  Goal
  <2>1. \E at \in CallStates : call' = [call EXCEPT ![t][k] = [call[t][k] EXCEPT !.at = at]]
    <3>1. CASE Answer(t, k) /\ call[t][k].token \in live
      <4>1. call' = [call EXCEPT ![t][k] = [call[t][k] EXCEPT !.at = "ok"]]
        BY <3>1 DEF Answer
      <4>2. QED
        BY <4>1 DEF CallStates
    <3>2. CASE Answer(t, k) /\ call[t][k].token \notin live
      <4>1. call' = [call EXCEPT ![t][k] = [call[t][k] EXCEPT !.at = "refused"]]
        BY <3>2 DEF Answer
      <4>2. QED
        BY <4>1 DEF CallStates
    <3>3. CASE Lose(t, k)
      <4>1. call' = [call EXCEPT ![t][k] = [call[t][k] EXCEPT !.at = "lost"]]
        BY <3>3 DEF Lose
      <4>2. QED
        BY <4>1 DEF CallStates
    <3>4. CASE AwaitRefresh(t, k)
      <4>1. call' = [call EXCEPT ![t][k] = [call[t][k] EXCEPT !.at = "waiting"]]
        BY <3>4 DEF AwaitRefresh
      <4>2. QED
        BY <4>1 DEF CallStates
    <3>5. QED
      BY <1>5, <3>1, <3>2, <3>3, <3>4
  <2>2. QED
    BY <1>4, <2>1
<1>6. ASSUME NEW t \in Tabs, NEW k \in Kinds, Finish(t, k) \/ GiveUpUnauthenticated(t, k)
      PROVE  Goal
  <2>1. call' = [call EXCEPT ![t][k] = NoCall]
    BY <1>6 DEF Finish, GiveUpUnauthenticated
  <2>2. QED
    BY <2>1, CallValues, SetCall
<1>7. ASSUME NEW t \in Tabs, NEW k \in Kinds, AskAgain(t, k)
      PROVE  Goal
  BY <1>1, <1>7, CallValues, TabValues, SetCall DEF AskAgain
<1>8. ASSUME NEW t \in Tabs, NEW k \in Kinds, RetryWithCurrent(t, k)
      PROVE  Goal
  BY <1>1, <1>8, CallValues, TabValues, SetCall DEF RetryWithCurrent, MayRetry
<1>9. ASSUME NEW t \in Tabs, NEW row \in [Kinds -> CallType], call' = [call EXCEPT ![t] = row]
      PROVE  Goal
  BY <1>1, <1>9
<1>10. ASSUME NEW t \in Tabs, FinishRefresh(t)
       PROVE  Goal
  <2>1. \A k \in Waiting(t) : k \in Kinds /\ call[t][k] \in CallType /\ call[t][k].sends < 2
    BY <1>1 DEF Waiting, Core, WaitersMayRetry
  <2>2. \A k \in Waiting(t) : Sent(call[t][k], refresh[t].new) \in CallType
    BY <2>1, CallValues, IssuedTokens
  <2>3. Resumed(t, refresh[t].new) \in [Kinds -> CallType]
    BY <1>1, <2>2 DEF Resumed
  <2>4. QED
    BY <1>9, <1>10, <2>3 DEF FinishRefresh
<1>11. ASSUME NEW t \in Tabs, FailRefresh(t) \/ Load(t)
       PROVE  Goal
  <2>1. Reported(t) \in [Kinds -> CallType]
    BY <1>1, CallValues DEF Reported
  <2>2. [k \in Kinds |-> NoCall] \in [Kinds -> CallType]
    BY CallValues
  <2>3. \/ call' = [call EXCEPT ![t] = Reported(t)]
        \/ call' = [call EXCEPT ![t] = [k \in Kinds |-> NoCall]]
    BY <1>11 DEF FailRefresh, Load
  <2>4. QED
    BY ONLY <1>9, <2>1, <2>2, <2>3
<1>12. ASSUME NEW t \in Tabs, Restore(t)
       PROVE  Goal
  BY <1>1, <1>12, CallValues, SetCall, IssuedTokens DEF Restore
<1>13. ASSUME NEW t \in Tabs, LogOut(t)
       PROVE  Goal
  BY <1>1, <1>13, CallValues, TabValues, SetCall DEF LogOut
<1>14. QED
  BY ONLY [Next]_vars, <1>2, <1>3, <1>5, <1>6, <1>7, <1>8, <1>10, <1>11, <1>12, <1>13
     DEF Next, CallStep, RefreshStep, vars, Renew, RenewFindsNoToken, Rotate, RefuseRefresh,
         LoseRefresh, SignIn, Expire

LEMMA TabsTyped ==
    ASSUME TypeOK, Core, [Next]_vars
    PROVE  tab' \in [Tabs -> TabType]
<1> DEFINE Goal == tab' \in [Tabs -> TabType]
<1>1. tab \in [Tabs -> TabType] /\ cached \in BOOLEAN
  BY DEF TypeOK
<1>2. ASSUME UNCHANGED tab
      PROVE  Goal
  BY <1>1, <1>2
<1>3. ASSUME NEW t \in Tabs, NEW b \in BOOLEAN, StoreSignOut(t, b)
      PROVE  Goal
  BY <1>3, SignedOutValue, SetTab DEF StoreSignOut
<1>14. ASSUME NEW t \in Tabs, NEW x \in Statuses,
              tab' = [tab EXCEPT ![t].status = x, ![t].asked = 0]
       PROVE  Goal
  <2>1. [tab[t] EXCEPT !.status = x, !.asked = 0] \in TabType
    <3>1. [tab[t] EXCEPT !.status = x] \in TabType /\ 0 \in 0 .. Attempts
      BY <1>1, TabValues, SessionAssumption
    <3>2. QED
      BY <3>1, TabValues
  <2>2. tab' = [tab EXCEPT ![t] = [tab[t] EXCEPT !.status = x, !.asked = 0]]
    BY <1>1, <1>14
  <2>3. QED
    BY <2>1, <2>2, SetTab
<1>4. ASSUME NEW t \in Tabs, NEW k \in Kinds, Finish(t, k)
      PROVE  Goal
  <2>1. CASE StoreSignOut(t, FALSE)
    BY <1>3, <2>1
  <2>2. CASE StoreSetUser(t)
    <3>1. "signedIn" \in Statuses
      BY DEF Statuses
    <3>2. QED
      BY <1>14, <2>2, <3>1 DEF StoreSetUser
  <2>3. CASE tab' = [tab EXCEPT ![t].status = Unreachable(t), ![t].asked = 0]
    <3>1. Unreachable(t) \in Statuses
      BY <1>1, TabValues DEF Unreachable, Statuses
    <3>2. QED
      BY <1>14, <2>3, <3>1
  <2>4. QED
    BY <1>2, <1>4, <2>1, <2>2, <2>3 DEF Finish, Settle
<1>5. ASSUME NEW t \in Tabs, NEW k \in Kinds, AskAgain(t, k)
      PROVE  Goal
  <2>1. tab[t].asked + 1 \in 0 .. Attempts
    BY <1>1, <1>5, TabValues, SessionAssumption DEF AskAgain
  <2>2. QED
    BY <1>1, <1>5, <2>1, TabValues, SetTab DEF AskAgain
<1>6. ASSUME NEW t \in Tabs, NEW k \in Kinds, GiveUpUnauthenticated(t, k)
      PROVE  Goal
  <2>1. CASE StoreSignOut(t, k # "logout" /\ tab[t].leaving)
    <3>1. (k # "logout" /\ tab[t].leaving) \in BOOLEAN
      OBVIOUS
    <3>2. QED
      BY <1>3, <2>1, <3>1
  <2>2. CASE tab' = [tab EXCEPT ![t].asked = IF k = "me" THEN 0 ELSE @]
    BY <1>1, <2>2, SessionAssumption DEF TabType
  <2>3. QED
    BY <1>6, <2>1, <2>2 DEF GiveUpUnauthenticated
<1>7. ASSUME NEW t \in Tabs, Renew(t) \/ LogOut(t)
      PROVE  Goal
  BY <1>1, <1>7, TabValues, SetTab DEF Renew, LogOut
<1>8. ASSUME NEW t \in Tabs, RenewFindsNoToken(t)
      PROVE  Goal
  BY <1>1, <1>3, <1>8, TabValues DEF RenewFindsNoToken
<1>9. ASSUME NEW t \in Tabs, FinishRefresh(t)
      PROVE  Goal
  <2>1. tab' = [tab EXCEPT ![t] = [[tab[t] EXCEPT !.token = refresh[t].new] EXCEPT !.renewing = FALSE]]
    BY <1>1, <1>9 DEF FinishRefresh
  <2>2. QED
    BY <1>1, <2>1, TabValues, SetTab, IssuedTokens
<1>10. ASSUME NEW t \in Tabs, FailRefresh(t)
       PROVE  Goal
  <2>1. \A x \in TabType, b \in BOOLEAN, me \in BOOLEAN :
           [x EXCEPT !.renewing = FALSE, !.asked = IF me THEN 0 ELSE @, !.leaving = @ /\ b] \in TabType
    <3>1. ASSUME NEW x \in TabType, NEW n \in 0 .. Attempts, NEW b \in BOOLEAN
          PROVE  [x EXCEPT !.renewing = FALSE, !.asked = n, !.leaving = b] \in TabType
      BY <3>1, TabValues
    <3>2. \A x \in TabType, b \in BOOLEAN, me \in BOOLEAN :
             /\ (IF me THEN 0 ELSE x.asked) \in 0 .. Attempts
             /\ (x.leaving /\ b) \in BOOLEAN
      BY TabValues, SessionAssumption
    <3>3. QED
      BY <3>1, <3>2
  <2>2. SignedOutTab(t) \in TabType /\ tab[t] \in TabType
    BY <1>1, SignedOutValue
  <2>3. ("logout" \notin Waiting(t)) \in BOOLEAN /\ ("me" \in Waiting(t)) \in BOOLEAN
    OBVIOUS
  <2>4. QED
    BY <1>10, <2>1, <2>2, <2>3, SetTab DEF FailRefresh
<1>11. ASSUME NEW t \in Tabs, Load(t)
       PROVE  Goal
  BY <1>11, TabValues, SetTab DEF Load
<1>12. ASSUME NEW t \in Tabs, Restore(t)
       PROVE  Goal
  <2>1. CASE tab' = [tab EXCEPT ![t].status = "signedOut"]
    BY <1>1, <2>1, TabValues, SetTab DEF Statuses
  <2>2. CASE tab' = [tab EXCEPT ![t].token = stored, ![t].asked = 1]
    <3>1. stored \in AnyToken /\ 1 \in 0 .. Attempts
      BY IssuedTokens, SessionAssumption
    <3>2. QED
      BY <1>1, <2>2, <3>1, ZenonT(40) DEF TabType, AnyToken
  <2>3. QED
    BY <1>12, <2>1, <2>2 DEF Restore
<1>13. ASSUME NEW t \in Tabs, SignIn(t)
       PROVE  Goal
  <2>1. issued' \in Tokens
    BY <1>13, SessionAssumption DEF SignIn, TypeOK, Tokens
  <2>2. QED
    BY <1>1, <1>13, <2>1, ZenonT(40) DEF SignIn, TabType
<1>15. QED
  BY ONLY [Next]_vars, <1>2, <1>4, <1>5, <1>6, <1>7, <1>8, <1>9, <1>10, <1>11, <1>12, <1>13, ZenonT(40)
     DEF Next, CallStep, RefreshStep, vars, Ask, Answer, Lose, RetryWithCurrent, AwaitRefresh,
         Rotate, RefuseRefresh, LoseRefresh, Expire

LEMMA RefreshesTyped ==
    ASSUME TypeOK, Core, [Next]_vars
    PROVE  refresh' \in [Tabs -> RefreshType]
<1> DEFINE Goal == refresh' \in [Tabs -> RefreshType]
<1>1. /\ refresh \in [Tabs -> RefreshType] /\ NoToken \in AnyToken
      /\ \A t \in Tabs : tab[t].token \in AnyToken
  BY TabValues DEF TypeOK, AnyToken
<1>2. ASSUME UNCHANGED refresh
      PROVE  Goal
  BY <1>1, <1>2
<1>3. ASSUME NEW t \in Tabs, JoinRefresh(t)
      PROVE  Goal
  BY <1>1, <1>3 DEF JoinRefresh, AnyToken, RefreshType
<1>4. ASSUME NEW t \in Tabs, Rotate(t)
      PROVE  Goal
  <2>1. issued' \in Tokens
    BY <1>4, SessionAssumption DEF Rotate, TypeOK, Tokens
  <2>2. QED
    BY <1>1, <1>4, <2>1 DEF Rotate, RefreshType
<1>5. ASSUME NEW t \in Tabs,
             RefuseRefresh(t) \/ LoseRefresh(t) \/ FinishRefresh(t) \/ FailRefresh(t) \/ Load(t)
      PROVE  Goal
  BY <1>1, <1>5 DEF RefuseRefresh, LoseRefresh, FinishRefresh, FailRefresh, Load, NoRefresh,
                    AnyToken, RefreshType
<1>6. ASSUME NEW t \in Tabs, NEW k \in Kinds, AwaitRefresh(t, k) \/ Renew(t)
      PROVE  Goal
  BY <1>3, <1>6 DEF AwaitRefresh, Renew
<1>7. ASSUME NEW t \in Tabs, NEW k \in Kinds,
             \/ Ask(t, k) \/ Answer(t, k) \/ Finish(t, k) \/ AskAgain(t, k)
             \/ RetryWithCurrent(t, k) \/ GiveUpUnauthenticated(t, k) \/ Lose(t, k)
             \/ RenewFindsNoToken(t) \/ Restore(t) \/ SignIn(t) \/ LogOut(t)
      PROVE  UNCHANGED refresh
  BY <1>7 DEF Ask, Answer, Finish, AskAgain, RetryWithCurrent, GiveUpUnauthenticated, Lose,
              RenewFindsNoToken, Restore, SignIn, LogOut
<1>8. "me" \in Kinds /\ \A k \in Tokens : Expire(k) => UNCHANGED refresh
  BY DEF Kinds, Expire
<1>9. QED
  BY ONLY [Next]_vars, <1>2, <1>4, <1>5, <1>6, <1>7, <1>8 DEF Next, CallStep, RefreshStep, vars

\* Tokens are issued one by one and die for good.
LEMMA SessionsStep ==
    ASSUME TypeOK, [Next]_vars
    PROVE  \/ UNCHANGED issued /\ live' \subseteq live
           \/ issued' = issued + 1 /\ issued < MaxToken /\ live' \subseteq live \cup {issued'}
<1> DEFINE Goal == \/ UNCHANGED issued /\ live' \subseteq live
                   \/ issued' = issued + 1 /\ issued < MaxToken /\ live' \subseteq live \cup {issued'}
<1>1. ASSUME NEW t \in Tabs, Rotate(t) \/ SignIn(t)
      PROVE  Goal
  BY <1>1 DEF Rotate, SignIn
<1>2. ASSUME NEW t \in Tabs, NEW k \in Kinds, Answer(t, k) \/ RefuseRefresh(t)
      PROVE  Goal
  BY <1>2 DEF Answer, RefuseRefresh
<1>3. ASSUME NEW t \in Tabs, NEW k \in Kinds,
             \/ Ask(t, k) \/ Finish(t, k) \/ AskAgain(t, k) \/ RetryWithCurrent(t, k)
             \/ AwaitRefresh(t, k) \/ GiveUpUnauthenticated(t, k) \/ Lose(t, k)
             \/ Renew(t) \/ RenewFindsNoToken(t) \/ LoseRefresh(t) \/ FinishRefresh(t)
             \/ FailRefresh(t) \/ Load(t) \/ Restore(t) \/ LogOut(t)
      PROVE  UNCHANGED <<live, issued>>
  BY <1>3 DEF Ask, Finish, AskAgain, RetryWithCurrent, AwaitRefresh, GiveUpUnauthenticated, Lose,
              Renew, RenewFindsNoToken, LoseRefresh, FinishRefresh, FailRefresh, Load, Restore,
              LogOut
<1>4. UNCHANGED <<live, issued>> => Goal
  OBVIOUS
<1>5. "me" \in Kinds /\ \A k \in Tokens : Expire(k) => Goal
  BY DEF Kinds, Expire
<1>6. QED
  BY ONLY [Next]_vars, <1>1, <1>2, <1>3, <1>4, <1>5 DEF Next, CallStep, RefreshStep, vars

\* What is stored is what was stored, nothing, the newest token or what a refresh brought.
LEMMA StorageStep ==
    ASSUME TypeOK, [Next]_vars
    PROVE  /\ stored' \in {stored, NoToken, issued'} \cup {refresh[t].new : t \in Tabs}
           /\ cached' \in BOOLEAN
<1> DEFINE Goal == /\ stored' \in {stored, NoToken, issued'} \cup {refresh[t].new : t \in Tabs}
                   /\ cached' \in BOOLEAN
<1>1. cached \in BOOLEAN
  BY DEF TypeOK
<1>2. ASSUME UNCHANGED <<stored, cached>>
      PROVE  Goal
  BY <1>1, <1>2
<1>3. ASSUME NEW t \in Tabs, NEW k \in Kinds, Finish(t, k) \/ GiveUpUnauthenticated(t, k)
      PROVE  Goal
  BY <1>1, <1>3 DEF Finish, Settle, StoreSignOut, StoreSetUser, GiveUpUnauthenticated
<1>4. ASSUME NEW t \in Tabs,
             RenewFindsNoToken(t) \/ FinishRefresh(t) \/ FailRefresh(t) \/ SignIn(t)
      PROVE  Goal
  BY <1>1, <1>4 DEF RenewFindsNoToken, StoreSignOut, FinishRefresh, StoredOnRefresh, FailRefresh,
                    SignIn
<1>5. ASSUME NEW t \in Tabs, NEW k \in Kinds,
             \/ Ask(t, k) \/ Answer(t, k) \/ AskAgain(t, k) \/ RetryWithCurrent(t, k)
             \/ AwaitRefresh(t, k) \/ Lose(t, k) \/ Renew(t) \/ Rotate(t) \/ RefuseRefresh(t)
             \/ LoseRefresh(t) \/ Load(t) \/ Restore(t) \/ LogOut(t)
      PROVE  UNCHANGED <<stored, cached>>
  BY <1>5 DEF Ask, Answer, AskAgain, RetryWithCurrent, AwaitRefresh, Lose, Renew, Rotate,
              RefuseRefresh, LoseRefresh, Load, Restore, LogOut
<1>6. "me" \in Kinds /\ \A k \in Tokens : Expire(k) => UNCHANGED <<stored, cached>>
  BY DEF Kinds, Expire
<1>7. QED
  BY ONLY [Next]_vars, <1>2, <1>3, <1>4, <1>5, <1>6 DEF Next, CallStep, RefreshStep, vars

LEMMA TypePreserved ==
    ASSUME TypeOK, Core, [Next]_vars
    PROVE  TypeOK'
<1>1. live' \subseteq 1 .. issued' /\ issued' \in Tokens /\ issued <= issued'
  <2>1. live \subseteq 1 .. issued /\ issued \in 1 .. MaxToken /\ MaxToken \in Nat
    BY SessionAssumption DEF TypeOK, Tokens
  <2>2. CASE UNCHANGED issued /\ live' \subseteq live
    BY <2>1, <2>2 DEF Tokens
  <2>3. CASE issued' = issued + 1 /\ issued < MaxToken /\ live' \subseteq live \cup {issued'}
    <3>1. \A x \in live' : x \in 1 .. issued'
      BY <2>1, <2>3
    <3>2. QED
      BY <2>1, <2>3, <3>1 DEF Tokens
  <2>4. QED
    BY <2>2, <2>3, SessionsStep
<1>2. stored' \in 0 .. issued'
  BY <1>1, StorageStep, IssuedTokens DEF TypeOK, NoToken, Tokens
<1>3. QED
  BY <1>1, <1>2, StorageStep, CallsTyped, TabsTyped, RefreshesTyped DEF TypeOK

-----------------------------------------------------------------------------
(* The core                                                                *)

\* What a settled request does to its page: it signs out, or leaves the token alone.
SignsOut(t) ==
    /\ tab'[t].token = NoToken /\ tab'[t].status = "signedOut" /\ stored' = NoToken

KeepsToken(t) ==
    /\ tab'[t].token = tab[t].token /\ tab'[t].leaving = tab[t].leaving /\ stored' = stored

OthersStay(t) == \A x \in Tabs : x # t => tab'[x] = tab[x]

LEMMA SignOutEffects ==
    ASSUME TypeOK, NEW t \in Tabs, NEW b \in BOOLEAN, StoreSignOut(t, b)
    PROVE  SignsOut(t) /\ OthersStay(t) /\ tab'[t].leaving = b
<1>1. SignedOutTab(t).token = NoToken /\ SignedOutTab(t).status = "signedOut"
  BY DEF TypeOK, TabType, SignedOutTab
<1>2. SignedOutTab(t) \in TabType
  BY SignedOutValue
<1>3. /\ [SignedOutTab(t) EXCEPT !.leaving = b].token = NoToken
      /\ [SignedOutTab(t) EXCEPT !.leaving = b].status = "signedOut"
      /\ [SignedOutTab(t) EXCEPT !.leaving = b].leaving = b
  BY <1>1, <1>2 DEF TabType
<1>4. /\ tab' = [tab EXCEPT ![t] = [SignedOutTab(t) EXCEPT !.leaving = b]]
      /\ stored' = NoToken
  BY DEF StoreSignOut
<1>5. QED
  BY <1>3, <1>4 DEF TypeOK, SignsOut, OthersStay

LEMMA FinishEffects ==
    ASSUME TypeOK, NEW t \in Tabs, NEW k \in Kinds, Finish(t, k)
    PROVE  /\ OthersStay(t)
           /\ k = "logout" => SignsOut(t)
           /\ k # "logout" => /\ KeepsToken(t)
                              /\ k # "me" => tab'[t].status = tab[t].status
                              /\ tab'[t].status = "signedOut" => tab[t].status = "signedOut"
<1>1. CASE k = "logout"
  BY <1>1, SignOutEffects DEF Finish, Settle
<1>2. CASE k # "logout" /\ UNCHANGED <<stored, cached, tab>>
  BY <1>2 DEF OthersStay, KeepsToken
<1>3. CASE k = "me" /\ StoreSetUser(t) /\ UNCHANGED stored
  BY <1>3 DEF StoreSetUser, TypeOK, TabType, OthersStay, KeepsToken
<1>4. CASE /\ k = "me" /\ UNCHANGED <<stored, cached>>
           /\ tab' = [tab EXCEPT ![t].status = Unreachable(t), ![t].asked = 0]
  <2>1. Unreachable(t) = "signedOut" => tab[t].status = "signedOut"
    BY DEF Unreachable
  <2>2. QED
    BY <1>4, <2>1 DEF TypeOK, TabType, OthersStay, KeepsToken
<1>5. QED
  BY <1>1, <1>2, <1>3, <1>4 DEF Finish, Settle

LEMMA GiveUpEffects ==
    ASSUME TypeOK, NEW t \in Tabs, NEW k \in Kinds, GiveUpUnauthenticated(t, k)
    PROVE  /\ OthersStay(t)
           /\ \/ SignsOut(t) /\ k = "logout"
              \/ /\ SignsOut(t) /\ (tab'[t].leaving <=> tab[t].leaving)
                 /\ tab[t].token = NoToken /\ refresh[t].at = "none"
              \/ KeepsToken(t) /\ tab'[t].status = tab[t].status /\ k # "logout"
<1>1. CASE /\ k = "logout" \/ (MayRetry(call[t][k]) /\ call[t][k].token # NoToken)
           /\ StoreSignOut(t, k # "logout" /\ tab[t].leaving)
  <2>1. SignsOut(t) /\ OthersStay(t) /\ tab'[t].leaving = (k # "logout" /\ tab[t].leaving)
    <3>1. (k # "logout" /\ tab[t].leaving) \in BOOLEAN
      OBVIOUS
    <3>2. QED
      BY <1>1, <3>1, SignOutEffects
  <2>2. k # "logout" => tab[t].token = NoToken /\ refresh[t].at = "none"
    BY <1>1 DEF GiveUpUnauthenticated
  <2>3. QED
    BY <2>1, <2>2
<1>2. CASE /\ k # "logout"
           /\ tab' = [tab EXCEPT ![t].asked = IF k = "me" THEN 0 ELSE @] /\ UNCHANGED stored
  BY <1>2 DEF TypeOK, TabType, OthersStay, KeepsToken
<1>3. QED
  BY <1>1, <1>2 DEF GiveUpUnauthenticated

LEMMA RestoreEffects ==
    ASSUME TypeOK, NEW t \in Tabs, Restore(t)
    PROVE  /\ UNCHANGED <<live, issued, stored, refresh>>
           /\ \A x \in Tabs : /\ tab'[x].token \in {tab[x].token, stored}
                              /\ tab'[x].leaving = tab[x].leaving
           /\ \A x \in Tabs, k \in Kinds :
                 \/ call'[x][k] = call[x][k]
                 \/ k = "me" /\ call'[x][k].at = "sent" /\ call'[x][k].token = stored
<1>1. /\ UNCHANGED <<live, issued, stored, refresh>>
      /\ tab \in [Tabs -> TabType] /\ call \in [Tabs -> [Kinds -> CallType]] /\ "me" \in Kinds
  BY DEF Restore, TypeOK, Kinds
<1>2. CASE tab' = [tab EXCEPT ![t].status = "signedOut"] /\ UNCHANGED call
  BY <1>1, <1>2 DEF TabType
<1>3. CASE /\ tab' = [tab EXCEPT ![t].token = stored, ![t].asked = 1]
           /\ call' = [call EXCEPT ![t]["me"] = Sent(NoCall, stored)]
  <2>1. Sent(NoCall, stored).at = "sent" /\ Sent(NoCall, stored).token = stored
    BY DEF Sent
  <2>2. \A x \in Tabs, k \in Kinds :
           \/ call'[x][k] = call[x][k]
           \/ k = "me" /\ call'[x][k] = Sent(NoCall, stored)
    BY <1>1, <1>3
  <2>3. \A x \in Tabs : /\ tab'[x].token \in {tab[x].token, stored}
                        /\ tab'[x].leaving = tab[x].leaving
    BY <1>1, <1>3 DEF TabType
  <2>4. QED
    BY <1>1, <2>1, <2>2, <2>3
<1>4. QED
  BY <1>1, <1>2, <1>3 DEF Restore

\* Tokens that were there already are issued ones.
LEMMA KnownTokens ==
    ASSUME TypeOK, Core, UNCHANGED <<issued, refresh>>,
           \A x \in Tabs : tab'[x].token \in {tab[x].token, stored, NoToken},
           \A x \in Tabs, k \in Kinds : call'[x][k].token \in {call[x][k].token, stored, NoToken}
    PROVE  TokensIssued'
<1>1. stored <= issued /\ NoToken <= issued
  BY SessionAssumption DEF TypeOK, Tokens, NoToken
<1>2. QED
  BY <1>1 DEF Core, TokensIssued

\* What a page takes over is a token it had, one from the storage or one just issued.
LEMMA TokensIssuedPreserved ==
    ASSUME TypeOK, Core, [Next]_vars
    PROVE  TokensIssued'
<1> USE SessionAssumption DEF TypeOK, TabType, RefreshType, CallType, Kinds, Tokens, NoToken,
        InFlight, Core, TokensIssued
<1>1. CASE UNCHANGED vars
  BY <1>1 DEF vars
<1>2. ASSUME NEW t \in Tabs, NEW k \in Kinds, Ask(t, k)
      PROVE  TokensIssued'
  BY <1>2 DEF Ask, Sent, NoCall, InFlight
<1>3. ASSUME NEW t \in Tabs, NEW k \in Kinds, Answer(t, k)
      PROVE  TokensIssued'
  BY <1>3 DEF Answer
<1>4. ASSUME NEW t \in Tabs, NEW k \in Kinds, Finish(t, k)
      PROVE  TokensIssued'
  <2>1. /\ call' = [call EXCEPT ![t][k] = NoCall] /\ UNCHANGED <<issued, refresh>>
        /\ \A x \in Tabs : tab'[x].token \in {tab[x].token, 0}
    BY <1>4, FinishEffects DEF Finish, OthersStay, SignsOut, KeepsToken
  <2>2. \A x \in Tabs, j \in Kinds : call'[x][j].token \in {call[x][j].token, 0}
    BY <2>1 DEF NoCall
  <2>3. QED
    BY <2>1, <2>2, KnownTokens
<1>5. ASSUME NEW t \in Tabs, NEW k \in Kinds, AskAgain(t, k)
      PROVE  TokensIssued'
  BY <1>5 DEF AskAgain, Sent, NoCall
<1>6. ASSUME NEW t \in Tabs, NEW k \in Kinds, RetryWithCurrent(t, k)
      PROVE  TokensIssued'
  BY <1>6 DEF RetryWithCurrent, MayRetry, Sent
<1>7. ASSUME NEW t \in Tabs, NEW k \in Kinds, AwaitRefresh(t, k)
      PROVE  TokensIssued'
  BY <1>7 DEF AwaitRefresh, MayRetry, JoinRefresh
<1>8. ASSUME NEW t \in Tabs, NEW k \in Kinds, GiveUpUnauthenticated(t, k)
      PROVE  TokensIssued'
  <2>1. /\ call' = [call EXCEPT ![t][k] = NoCall] /\ UNCHANGED <<issued, refresh>>
        /\ \A x \in Tabs : tab'[x].token \in {tab[x].token, 0}
    BY <1>8, GiveUpEffects DEF GiveUpUnauthenticated, OthersStay, SignsOut, KeepsToken
  <2>2. \A x \in Tabs, j \in Kinds : call'[x][j].token \in {call[x][j].token, 0}
    BY <2>1 DEF NoCall
  <2>3. QED
    BY <2>1, <2>2, KnownTokens
<1>9. ASSUME NEW t \in Tabs, NEW k \in Kinds, Lose(t, k)
      PROVE  TokensIssued'
  BY <1>9 DEF Lose
<1>10. ASSUME NEW t \in Tabs, Renew(t)
      PROVE  TokensIssued'
  BY <1>10 DEF Renew, JoinRefresh
<1>11. ASSUME NEW t \in Tabs, RenewFindsNoToken(t)
      PROVE  TokensIssued'
  BY <1>11 DEF RenewFindsNoToken, StoreSignOut, SignedOutTab
<1>12. ASSUME NEW t \in Tabs, Rotate(t)
      PROVE  TokensIssued'
  BY <1>12 DEF Rotate
<1>13. ASSUME NEW t \in Tabs, RefuseRefresh(t)
      PROVE  TokensIssued'
  BY <1>13 DEF RefuseRefresh
<1>14. ASSUME NEW t \in Tabs, LoseRefresh(t)
      PROVE  TokensIssued'
  BY <1>14 DEF LoseRefresh
<1>15. ASSUME NEW t \in Tabs, FinishRefresh(t)
      PROVE  TokensIssued'
  BY <1>15 DEF FinishRefresh, StoredOnRefresh, Resumed, Waiting, Sent, NoRefresh
<1>16. ASSUME NEW t \in Tabs, FailRefresh(t)
      PROVE  TokensIssued'
  BY <1>16 DEF FailRefresh, SignedOutTab, Reported, Waiting, NoCall, NoRefresh
<1>17. ASSUME NEW t \in Tabs, Load(t)
      PROVE  TokensIssued'
  BY <1>17 DEF Load, Unhydrated, NoRefresh, NoCall
<1>18. ASSUME NEW t \in Tabs, Restore(t)
      PROVE  TokensIssued'
  BY <1>18, RestoreEffects, KnownTokens
<1>19. ASSUME NEW t \in Tabs, SignIn(t)
      PROVE  TokensIssued'
  <2>1. \A x \in Tabs : tab'[x].token \in {tab[x].token, issued'}
    BY <1>19 DEF SignIn
  <2>2. /\ \A x \in Tabs : /\ tab[x].token \in Int /\ refresh[x].token \in Int
                           /\ refresh[x].new \in Int /\ \A j \in Kinds : call[x][j].token \in Int
        /\ issued \in Int /\ issued' = issued + 1
    BY <1>19, SessionAssumption DEF SignIn
  <2>3. QED
    BY <1>19, <2>1, <2>2 DEF SignIn
<1>20. ASSUME NEW t \in Tabs, LogOut(t)
      PROVE  TokensIssued'
  BY <1>20 DEF LogOut, Sent, NoCall
<1>21. ASSUME NEW k \in Tokens, Expire(k)
      PROVE  TokensIssued'
  BY <1>21 DEF Expire
<1>22. QED
  BY ONLY [Next]_vars, <1>1, <1>2, <1>3, <1>4, <1>5, <1>6, <1>7, <1>8, <1>9, <1>10, <1>11,
     <1>12, <1>13, <1>14, <1>15, <1>16, <1>17, <1>18, <1>19, <1>20, <1>21
     DEF Next, CallStep, RefreshStep

\* Only a request that was sent once begins to wait.
LEMMA WaitersMayRetryPreserved ==
    ASSUME TypeOK, Core, [Next]_vars
    PROVE  WaitersMayRetry'
<1> USE SessionAssumption DEF TypeOK, TabType, RefreshType, CallType, Kinds, Tokens, NoToken,
        InFlight, Core, WaitersMayRetry
<1>1. CASE UNCHANGED vars
  BY <1>1 DEF vars
<1>2. ASSUME NEW t \in Tabs, NEW k \in Kinds, Ask(t, k)
      PROVE  WaitersMayRetry'
  BY <1>2 DEF Ask, Sent, NoCall, InFlight
<1>3. ASSUME NEW t \in Tabs, NEW k \in Kinds, Answer(t, k)
      PROVE  WaitersMayRetry'
  BY <1>3 DEF Answer
<1>4. ASSUME NEW t \in Tabs, NEW k \in Kinds, Finish(t, k)
      PROVE  WaitersMayRetry'
  BY <1>4 DEF Finish, Settle, StoreSignOut, SignedOutTab, StoreSetUser, Unreachable, NoCall
<1>5. ASSUME NEW t \in Tabs, NEW k \in Kinds, AskAgain(t, k)
      PROVE  WaitersMayRetry'
  BY <1>5 DEF AskAgain, Sent, NoCall
<1>6. ASSUME NEW t \in Tabs, NEW k \in Kinds, RetryWithCurrent(t, k)
      PROVE  WaitersMayRetry'
  BY <1>6 DEF RetryWithCurrent, MayRetry, Sent
<1>7. ASSUME NEW t \in Tabs, NEW k \in Kinds, AwaitRefresh(t, k)
      PROVE  WaitersMayRetry'
  BY <1>7 DEF AwaitRefresh, MayRetry, JoinRefresh
<1>8. ASSUME NEW t \in Tabs, NEW k \in Kinds, GiveUpUnauthenticated(t, k)
      PROVE  WaitersMayRetry'
  BY <1>8 DEF GiveUpUnauthenticated, StoreSignOut, SignedOutTab, NoCall
<1>9. ASSUME NEW t \in Tabs, NEW k \in Kinds, Lose(t, k)
      PROVE  WaitersMayRetry'
  BY <1>9 DEF Lose
<1>10. ASSUME NEW t \in Tabs, Renew(t)
      PROVE  WaitersMayRetry'
  BY <1>10 DEF Renew, JoinRefresh
<1>11. ASSUME NEW t \in Tabs, RenewFindsNoToken(t)
      PROVE  WaitersMayRetry'
  BY <1>11 DEF RenewFindsNoToken, StoreSignOut, SignedOutTab
<1>12. ASSUME NEW t \in Tabs, Rotate(t)
      PROVE  WaitersMayRetry'
  BY <1>12 DEF Rotate
<1>13. ASSUME NEW t \in Tabs, RefuseRefresh(t)
      PROVE  WaitersMayRetry'
  BY <1>13 DEF RefuseRefresh
<1>14. ASSUME NEW t \in Tabs, LoseRefresh(t)
      PROVE  WaitersMayRetry'
  BY <1>14 DEF LoseRefresh
<1>15. ASSUME NEW t \in Tabs, FinishRefresh(t)
      PROVE  WaitersMayRetry'
  BY <1>15 DEF FinishRefresh, StoredOnRefresh, Resumed, Waiting, Sent, NoRefresh
<1>16. ASSUME NEW t \in Tabs, FailRefresh(t)
      PROVE  WaitersMayRetry'
  BY <1>16 DEF FailRefresh, SignedOutTab, Reported, Waiting, NoCall, NoRefresh
<1>17. ASSUME NEW t \in Tabs, Load(t)
      PROVE  WaitersMayRetry'
  BY <1>17 DEF Load, Unhydrated, NoRefresh, NoCall
<1>18. ASSUME NEW t \in Tabs, Restore(t)
      PROVE  WaitersMayRetry'
  <2>1. \A x \in Tabs, j \in Kinds : call'[x][j].at = "waiting" => call'[x][j] = call[x][j]
    BY ONLY TypeOK, <1>18, RestoreEffects DEF Kinds
  <2>2. QED
    BY <2>1
<1>19. ASSUME NEW t \in Tabs, SignIn(t)
      PROVE  WaitersMayRetry'
  BY <1>19 DEF SignIn
<1>20. ASSUME NEW t \in Tabs, LogOut(t)
      PROVE  WaitersMayRetry'
  BY <1>20 DEF LogOut, Sent, NoCall
<1>21. ASSUME NEW k \in Tokens, Expire(k)
      PROVE  WaitersMayRetry'
  BY <1>21 DEF Expire
<1>22. QED
  BY ONLY [Next]_vars, <1>1, <1>2, <1>3, <1>4, <1>5, <1>6, <1>7, <1>8, <1>9, <1>10, <1>11,
     <1>12, <1>13, <1>14, <1>15, <1>16, <1>17, <1>18, <1>19, <1>20, <1>21
     DEF Next, CallStep, RefreshStep

\* What is refused was not live, and no token comes to life again.
LEMMA RefusedIsDeadPreserved ==
    ASSUME TypeOK, Core, [Next]_vars
    PROVE  RefusedIsDead'
<1> USE SessionAssumption DEF TypeOK, TabType, RefreshType, CallType, Kinds, Tokens, NoToken,
        InFlight, Core, RefusedIsDead, TokensIssued
<1>1. CASE UNCHANGED vars
  BY <1>1 DEF vars
<1>2. ASSUME NEW t \in Tabs, NEW k \in Kinds, Ask(t, k)
      PROVE  RefusedIsDead'
  BY <1>2 DEF Ask, Sent, NoCall, InFlight
<1>3. ASSUME NEW t \in Tabs, NEW k \in Kinds, Answer(t, k)
      PROVE  RefusedIsDead'
  BY <1>3 DEF Answer
<1>4. ASSUME NEW t \in Tabs, NEW k \in Kinds, Finish(t, k)
      PROVE  RefusedIsDead'
  BY <1>4 DEF Finish, Settle, StoreSignOut, SignedOutTab, StoreSetUser, Unreachable, NoCall
<1>5. ASSUME NEW t \in Tabs, NEW k \in Kinds, AskAgain(t, k)
      PROVE  RefusedIsDead'
  BY <1>5 DEF AskAgain, Sent, NoCall
<1>6. ASSUME NEW t \in Tabs, NEW k \in Kinds, RetryWithCurrent(t, k)
      PROVE  RefusedIsDead'
  BY <1>6 DEF RetryWithCurrent, MayRetry, Sent
<1>7. ASSUME NEW t \in Tabs, NEW k \in Kinds, AwaitRefresh(t, k)
      PROVE  RefusedIsDead'
  BY <1>7 DEF AwaitRefresh, MayRetry, JoinRefresh
<1>8. ASSUME NEW t \in Tabs, NEW k \in Kinds, GiveUpUnauthenticated(t, k)
      PROVE  RefusedIsDead'
  BY <1>8 DEF GiveUpUnauthenticated, StoreSignOut, SignedOutTab, NoCall
<1>9. ASSUME NEW t \in Tabs, NEW k \in Kinds, Lose(t, k)
      PROVE  RefusedIsDead'
  BY <1>9 DEF Lose
<1>10. ASSUME NEW t \in Tabs, Renew(t)
      PROVE  RefusedIsDead'
  BY <1>10 DEF Renew, JoinRefresh
<1>11. ASSUME NEW t \in Tabs, RenewFindsNoToken(t)
      PROVE  RefusedIsDead'
  BY <1>11 DEF RenewFindsNoToken, StoreSignOut, SignedOutTab
<1>12. ASSUME NEW t \in Tabs, Rotate(t)
      PROVE  RefusedIsDead'
  BY <1>12 DEF Rotate
<1>13. ASSUME NEW t \in Tabs, RefuseRefresh(t)
      PROVE  RefusedIsDead'
  BY <1>13 DEF RefuseRefresh
<1>14. ASSUME NEW t \in Tabs, LoseRefresh(t)
      PROVE  RefusedIsDead'
  BY <1>14 DEF LoseRefresh
<1>15. ASSUME NEW t \in Tabs, FinishRefresh(t)
      PROVE  RefusedIsDead'
  BY <1>15 DEF FinishRefresh, StoredOnRefresh, Resumed, Waiting, Sent, NoRefresh
<1>16. ASSUME NEW t \in Tabs, FailRefresh(t)
      PROVE  RefusedIsDead'
  BY <1>16 DEF FailRefresh, SignedOutTab, Reported, Waiting, NoCall, NoRefresh
<1>17. ASSUME NEW t \in Tabs, Load(t)
      PROVE  RefusedIsDead'
  BY <1>17 DEF Load, Unhydrated, NoRefresh, NoCall
<1>18. ASSUME NEW t \in Tabs, Restore(t)
      PROVE  RefusedIsDead'
  BY <1>18, SMTT(30) DEF Restore, Sent, NoCall
<1>19. ASSUME NEW t \in Tabs, SignIn(t)
      PROVE  RefusedIsDead'
  BY <1>19 DEF SignIn
<1>20. ASSUME NEW t \in Tabs, LogOut(t)
      PROVE  RefusedIsDead'
  BY <1>20 DEF LogOut, Sent, NoCall
<1>21. ASSUME NEW k \in Tokens, Expire(k)
      PROVE  RefusedIsDead'
  BY <1>21 DEF Expire
<1>22. QED
  BY ONLY [Next]_vars, <1>1, <1>2, <1>3, <1>4, <1>5, <1>6, <1>7, <1>8, <1>9, <1>10, <1>11,
     <1>12, <1>13, <1>14, <1>15, <1>16, <1>17, <1>18, <1>19, <1>20, <1>21
     DEF Next, CallStep, RefreshStep

\* The store forgets a log-out only with its request.
LEMMA LeavingKnownPreserved ==
    ASSUME TypeOK, Core, [Next]_vars
    PROVE  LeavingKnown'
<1> USE SessionAssumption DEF TypeOK, TabType, RefreshType, CallType, Kinds, Tokens, NoToken,
        InFlight, Core, LeavingKnown
<1>1. CASE UNCHANGED vars
  BY <1>1 DEF vars
<1>2. ASSUME NEW t \in Tabs, NEW k \in Kinds, Ask(t, k)
      PROVE  LeavingKnown'
  BY <1>2 DEF Ask, Sent, NoCall, InFlight
<1>3. ASSUME NEW t \in Tabs, NEW k \in Kinds, Answer(t, k)
      PROVE  LeavingKnown'
  BY <1>3 DEF Answer
<1>4. ASSUME NEW t \in Tabs, NEW k \in Kinds, Finish(t, k)
      PROVE  LeavingKnown'
  <2>1. call' = [call EXCEPT ![t][k] = NoCall]
    BY <1>4 DEF Finish
  <2>2. \A x \in Tabs : InFlight(x, "logout")' => InFlight(x, "logout") /\ ~(x = t /\ k = "logout")
    BY <2>1 DEF NoCall
  <2>3. \A x \in Tabs : x # t => tab'[x] = tab[x]
    BY <1>4, FinishEffects DEF OthersStay
  <2>4. k # "logout" => tab'[t].leaving = tab[t].leaving
    BY <1>4, FinishEffects DEF KeepsToken
  <2>5. QED
    BY <2>2, <2>3, <2>4
<1>5. ASSUME NEW t \in Tabs, NEW k \in Kinds, AskAgain(t, k)
      PROVE  LeavingKnown'
  BY <1>5 DEF AskAgain, Sent, NoCall
<1>6. ASSUME NEW t \in Tabs, NEW k \in Kinds, RetryWithCurrent(t, k)
      PROVE  LeavingKnown'
  BY <1>6 DEF RetryWithCurrent, MayRetry, Sent
<1>7. ASSUME NEW t \in Tabs, NEW k \in Kinds, AwaitRefresh(t, k)
      PROVE  LeavingKnown'
  BY <1>7 DEF AwaitRefresh, MayRetry, JoinRefresh
<1>8. ASSUME NEW t \in Tabs, NEW k \in Kinds, GiveUpUnauthenticated(t, k)
      PROVE  LeavingKnown'
  <2>1. call' = [call EXCEPT ![t][k] = NoCall]
    BY <1>8 DEF GiveUpUnauthenticated
  <2>2. \A x \in Tabs : InFlight(x, "logout")' => InFlight(x, "logout") /\ ~(x = t /\ k = "logout")
    BY <2>1 DEF NoCall
  <2>3. \A x \in Tabs : x # t => tab'[x] = tab[x]
    BY <1>8, GiveUpEffects DEF OthersStay
  <2>4. k # "logout" => (tab'[t].leaving <=> tab[t].leaving)
    BY <1>8, GiveUpEffects DEF KeepsToken
  <2>5. QED
    BY <2>2, <2>3, <2>4
<1>9. ASSUME NEW t \in Tabs, NEW k \in Kinds, Lose(t, k)
      PROVE  LeavingKnown'
  BY <1>9 DEF Lose
<1>10. ASSUME NEW t \in Tabs, Renew(t)
      PROVE  LeavingKnown'
  BY <1>10 DEF Renew, JoinRefresh
<1>11. ASSUME NEW t \in Tabs, RenewFindsNoToken(t)
      PROVE  LeavingKnown'
  BY <1>11 DEF RenewFindsNoToken, StoreSignOut, SignedOutTab
<1>12. ASSUME NEW t \in Tabs, Rotate(t)
      PROVE  LeavingKnown'
  BY <1>12 DEF Rotate
<1>13. ASSUME NEW t \in Tabs, RefuseRefresh(t)
      PROVE  LeavingKnown'
  BY <1>13 DEF RefuseRefresh
<1>14. ASSUME NEW t \in Tabs, LoseRefresh(t)
      PROVE  LeavingKnown'
  BY <1>14 DEF LoseRefresh
<1>15. ASSUME NEW t \in Tabs, FinishRefresh(t)
      PROVE  LeavingKnown'
  BY <1>15 DEF FinishRefresh, StoredOnRefresh, Resumed, Waiting, Sent, NoRefresh
<1>16. ASSUME NEW t \in Tabs, FailRefresh(t)
      PROVE  LeavingKnown'
  BY <1>16 DEF FailRefresh, SignedOutTab, Reported, Waiting, NoCall, NoRefresh
<1>17. ASSUME NEW t \in Tabs, Load(t)
      PROVE  LeavingKnown'
  BY <1>17 DEF Load, Unhydrated, NoRefresh, NoCall
<1>18. ASSUME NEW t \in Tabs, Restore(t)
      PROVE  LeavingKnown'
  <2>1. \A x \in Tabs : /\ call'[x]["logout"] = call[x]["logout"]
                        /\ tab'[x].leaving = tab[x].leaving
    BY ONLY TypeOK, <1>18, RestoreEffects DEF Kinds
  <2>2. QED
    BY <2>1
<1>19. ASSUME NEW t \in Tabs, SignIn(t)
      PROVE  LeavingKnown'
  BY <1>19 DEF SignIn
<1>20. ASSUME NEW t \in Tabs, LogOut(t)
      PROVE  LeavingKnown'
  BY <1>20 DEF LogOut, Sent, NoCall
<1>21. ASSUME NEW k \in Tokens, Expire(k)
      PROVE  LeavingKnown'
  BY <1>21 DEF Expire
<1>22. QED
  BY ONLY [Next]_vars, <1>1, <1>2, <1>3, <1>4, <1>5, <1>6, <1>7, <1>8, <1>9, <1>10, <1>11,
     <1>12, <1>13, <1>14, <1>15, <1>16, <1>17, <1>18, <1>19, <1>20, <1>21
     DEF Next, CallStep, RefreshStep

\* Whatever gives the page a token or takes it away writes the storage too.
LEMMA InStepPreserved ==
    ASSUME TypeOK, Core, [Next]_vars
    PROVE  InStep'
<1> USE SessionAssumption DEF TypeOK, TabType, RefreshType, CallType, Kinds, Tokens, NoToken,
        InFlight, Core, InStep
<1>1. CASE UNCHANGED vars
  BY <1>1 DEF vars
<1>2. ASSUME NEW t \in Tabs, NEW k \in Kinds, Ask(t, k)
      PROVE  InStep'
  BY <1>2 DEF Ask, Sent, NoCall, InFlight
<1>3. ASSUME NEW t \in Tabs, NEW k \in Kinds, Answer(t, k)
      PROVE  InStep'
  BY <1>3 DEF Answer
<1>4. ASSUME NEW t \in Tabs, NEW k \in Kinds, Finish(t, k)
      PROVE  InStep'
  <2>1. call' = [call EXCEPT ![t][k] = NoCall]
    BY <1>4 DEF Finish
  <2>2. CASE k = "logout"
    BY <1>4, <2>2, FinishEffects DEF SignsOut
  <2>3. CASE k # "logout"
    <3>1. /\ tab'[t].token = tab[t].token /\ stored' = stored
          /\ k # "me" => tab'[t].status = tab[t].status
      BY ONLY TypeOK, <1>4, <2>3, FinishEffects DEF KeepsToken
    <3>2. InFlight(t, "me")' => InFlight(t, "me")
      BY <2>1 DEF NoCall
    <3>3. k = "me" => InFlight(t, "me")
      BY <1>4 DEF Finish
    <3>4. QED
      BY <3>1, <3>2, <3>3
  <2>4. QED
    BY <2>2, <2>3
<1>5. ASSUME NEW t \in Tabs, NEW k \in Kinds, AskAgain(t, k)
      PROVE  InStep'
  BY <1>5 DEF AskAgain, Sent, NoCall
<1>6. ASSUME NEW t \in Tabs, NEW k \in Kinds, RetryWithCurrent(t, k)
      PROVE  InStep'
  BY <1>6 DEF RetryWithCurrent, MayRetry, Sent
<1>7. ASSUME NEW t \in Tabs, NEW k \in Kinds, AwaitRefresh(t, k)
      PROVE  InStep'
  BY <1>7 DEF AwaitRefresh, MayRetry, JoinRefresh
<1>8. ASSUME NEW t \in Tabs, NEW k \in Kinds, GiveUpUnauthenticated(t, k)
      PROVE  InStep'
  <2>1. call' = [call EXCEPT ![t][k] = NoCall]
    BY <1>8 DEF GiveUpUnauthenticated
  <2>2. CASE SignsOut(t)
    BY <2>2 DEF SignsOut
  <2>3. CASE KeepsToken(t) /\ tab'[t].status = tab[t].status
    <3>1. InFlight(t, "me")' => InFlight(t, "me")
      BY <2>1 DEF NoCall
    <3>2. QED
      BY <2>3, <3>1 DEF KeepsToken
  <2>4. QED
    BY <1>8, <2>2, <2>3, GiveUpEffects
<1>9. ASSUME NEW t \in Tabs, NEW k \in Kinds, Lose(t, k)
      PROVE  InStep'
  BY <1>9 DEF Lose
<1>10. ASSUME NEW t \in Tabs, Renew(t)
      PROVE  InStep'
  BY <1>10 DEF Renew, JoinRefresh
<1>11. ASSUME NEW t \in Tabs, RenewFindsNoToken(t)
      PROVE  InStep'
  BY <1>11 DEF RenewFindsNoToken, StoreSignOut, SignedOutTab
<1>12. ASSUME NEW t \in Tabs, Rotate(t)
      PROVE  InStep'
  BY <1>12 DEF Rotate
<1>13. ASSUME NEW t \in Tabs, RefuseRefresh(t)
      PROVE  InStep'
  BY <1>13 DEF RefuseRefresh
<1>14. ASSUME NEW t \in Tabs, LoseRefresh(t)
      PROVE  InStep'
  BY <1>14 DEF LoseRefresh
<1>15. ASSUME NEW t \in Tabs, FinishRefresh(t)
      PROVE  InStep'
  BY <1>15 DEF FinishRefresh, StoredOnRefresh, Resumed, Waiting, Sent, NoRefresh
<1>16. ASSUME NEW t \in Tabs, FailRefresh(t)
      PROVE  InStep'
  BY <1>16 DEF FailRefresh, SignedOutTab, Reported, Waiting, NoCall, NoRefresh
<1>17. ASSUME NEW t \in Tabs, Load(t)
      PROVE  InStep'
  BY <1>17 DEF Load, Unhydrated, NoRefresh, NoCall
<1>18. ASSUME NEW t \in Tabs, Restore(t)
      PROVE  InStep'
  BY <1>18 DEF Restore, Sent, NoCall
<1>19. ASSUME NEW t \in Tabs, SignIn(t)
      PROVE  InStep'
  BY <1>19 DEF SignIn
<1>20. ASSUME NEW t \in Tabs, LogOut(t)
      PROVE  InStep'
  BY <1>20 DEF LogOut, Sent, NoCall
<1>21. ASSUME NEW k \in Tokens, Expire(k)
      PROVE  InStep'
  BY <1>21 DEF Expire
<1>22. QED
  BY ONLY [Next]_vars, <1>1, <1>2, <1>3, <1>4, <1>5, <1>6, <1>7, <1>8, <1>9, <1>10, <1>11,
     <1>12, <1>13, <1>14, <1>15, <1>16, <1>17, <1>18, <1>19, <1>20, <1>21
     DEF Next, CallStep, RefreshStep

LEMMA CorePreserved ==
    ASSUME TypeOK, Core, [Next]_vars
    PROVE  Core'
  BY TokensIssuedPreserved, WaitersMayRetryPreserved, RefusedIsDeadPreserved,
     LeavingKnownPreserved, InStepPreserved DEF Core

LEMMA Initially == Init => TypeOK /\ Core
<1> SUFFICES ASSUME Init PROVE TypeOK /\ Core
  OBVIOUS
<1>1. TypeOK
  <2>1. Unhydrated \in TabType /\ NoCall \in CallType /\ NoRefresh \in RefreshType
    BY TabValues, CallValues DEF NoRefresh, RefreshType
  <2>2. live \subseteq 1 .. issued /\ issued \in Tokens /\ stored \in 0 .. issued
    BY SessionAssumption DEF Init, Tokens
  <2>3. QED
    BY <2>1, <2>2 DEF Init, TypeOK
<1>2. Core
  BY DEF Init, Core, TokensIssued, WaitersMayRetry, RefusedIsDead, LeavingKnown, InStep, InFlight,
         Unhydrated, NoCall, NoRefresh, NoToken, Kinds
<1>3. QED
  BY <1>1, <1>2

LEMMA Invariance == Spec => [](TypeOK /\ Core)
<1>1. TypeOK /\ Core /\ [Next]_vars => (TypeOK /\ Core)'
  BY TypePreserved, CorePreserved
<1>2. QED
  BY <1>1, Initially, PTL DEF Spec

-----------------------------------------------------------------------------
(* The theorems                                                            *)

\* No request is on the wire a third time, however refusals, retries and refreshes interleave
\* (client.ts `retried`), and the rest of the state has its shape.
THEOREM TypeCorrect == Spec => []TypeOK
  BY Invariance, PTL

\* With one tab open a reload finds the token the page works with.
THEOREM ReloadsFindTheToken == Spec => []ReloadFindsTheToken
<1>1. TypeOK /\ Core => ReloadFindsTheToken
  BY DEF Core, InStep, ReloadFindsTheToken
<1>2. QED
  BY <1>1, Invariance, PTL

\* A refusal makes the client renew only what the server has given up: the token that was
\* refused is still the page's token when the refresh is sent (on401), and it is dead.
THEOREM LiveTokensAreSpared == Spec => OnlyDeadTokensAreRefreshed
<1>1. ASSUME TypeOK, Core, [Next]_vars, NEW t \in Tabs,
             refresh[t].at = "none", refresh'[t].at = "sent", tab'[t].renewing = tab[t].renewing
      PROVE  refresh'[t].token \notin live
  <2>1. refresh \in [Tabs -> RefreshType] /\ tab \in [Tabs -> TabType]
    BY <1>1 DEF TypeOK
  <2>2. refresh'[t] # refresh[t]
    BY <1>1
  <2>3. ASSUME NEW x \in Tabs, NEW k \in Kinds, AwaitRefresh(x, k)
        PROVE  refresh'[t].token \notin live
    <3>1. x = t
      BY <2>1, <2>2, <2>3 DEF AwaitRefresh, JoinRefresh
    <3>2. /\ call[t][k].at = "refused" /\ tab[t].token # NoToken
          /\ tab[t].token = call[t][k].token
      BY <1>1, <2>3, <3>1 DEF AwaitRefresh, TokenChanged
    <3>3. refresh'[t].token = tab[t].token
      BY <1>1, <2>1, <2>3, <3>1 DEF AwaitRefresh, JoinRefresh
    <3>4. QED
      BY <1>1, <3>2, <3>3 DEF Core, RefusedIsDead
  <2>4. ASSUME NEW x \in Tabs, Renew(x)
        PROVE  FALSE
    <3>1. x = t
      BY <2>1, <2>2, <2>4 DEF Renew, JoinRefresh
    <3>2. tab'[t].renewing = TRUE /\ ~tab[t].renewing
      BY <2>1, <2>4, <3>1 DEF Renew, TabType
    <3>3. QED
      BY <1>1, <3>2
  <2>5. ASSUME NEW x \in Tabs,
               \/ Rotate(x) \/ RefuseRefresh(x) \/ LoseRefresh(x) \/ FinishRefresh(x)
               \/ FailRefresh(x) \/ Load(x)
        PROVE  FALSE
    <3>1. CASE Rotate(x) \/ RefuseRefresh(x) \/ LoseRefresh(x)
      <4>1. x = t
        BY <2>1, <2>2, <3>1 DEF Rotate, RefuseRefresh, LoseRefresh
      <4>2. refresh[t].at # "none"
        BY <3>1, <4>1 DEF Rotate, RefuseRefresh, LoseRefresh
      <4>3. QED
        BY <1>1, <4>2
    <3>2. CASE FinishRefresh(x) \/ FailRefresh(x) \/ Load(x)
      <4>1. refresh' = [refresh EXCEPT ![x] = NoRefresh]
        BY <3>2 DEF FinishRefresh, FailRefresh, Load
      <4>2. refresh'[t] = NoRefresh
        BY <2>1, <2>2, <4>1
      <4>3. QED
        BY <1>1, <4>2 DEF NoRefresh
    <3>3. QED
      BY <2>5, <3>1, <3>2
  <2>6. ASSUME NEW x \in Tabs, NEW k \in Kinds,
               \/ Ask(x, k) \/ Answer(x, k) \/ Finish(x, k) \/ AskAgain(x, k)
               \/ RetryWithCurrent(x, k) \/ GiveUpUnauthenticated(x, k) \/ Lose(x, k)
               \/ RenewFindsNoToken(x) \/ Restore(x) \/ SignIn(x) \/ LogOut(x)
        PROVE  UNCHANGED refresh
    BY <2>6 DEF Ask, Answer, Finish, AskAgain, RetryWithCurrent, GiveUpUnauthenticated, Lose,
                RenewFindsNoToken, Restore, SignIn, LogOut
  <2>7. "me" \in Kinds /\ \A k \in Tokens : Expire(k) => UNCHANGED refresh
    BY DEF Kinds, Expire
  <2>8. QED
    BY ONLY [Next]_vars, <2>2, <2>3, <2>4, <2>5, <2>6, <2>7 DEF Next, CallStep, RefreshStep, vars
<1>2. TypeOK /\ Core /\ [Next]_vars =>
         [\A t \in Tabs :
             refresh[t].at = "none" /\ refresh'[t].at = "sent"
                /\ tab'[t].renewing = tab[t].renewing
                => refresh'[t].token \notin live]_vars
  BY <1>1
<1>3. QED
  BY <1>2, Invariance, PTL DEF Spec, OnlyDeadTokensAreRefreshed

\* A page nobody logs out of is signed out by a refused refresh, or when it has no token and
\* no refresh under way: never by a network failure.  (The rate limiter's refusal counts as one.)
THEOREM SignedOutWhenOver == Spec => SignedOutOnlyWhenOver
<1>1. ASSUME TypeOK, Core, [Next]_vars, NEW t \in Tabs,
             tab[t].status = "signedIn", tab'[t].status = "signedOut", ~tab[t].leaving
      PROVE  refresh[t].token \notin live \/ refresh[t].at = "throttled"
  <2>1. refresh[t].at = "none" => refresh[t].token \notin live
    <3>1. NoToken \notin live
      BY <1>1 DEF TypeOK, Tokens, NoToken
    <3>2. refresh[t].at = "none" => refresh[t].token = NoToken
      BY <1>1 DEF Core, RefusedIsDead
    <3>3. QED
      BY <3>1, <3>2
  <2>2. tab'[t] # tab[t] /\ tab \in [Tabs -> TabType] /\ ~InFlight(t, "logout")
    BY <1>1 DEF Core, LeavingKnown, TypeOK
  <2>3. ASSUME NEW x \in Tabs, NEW k \in Kinds, Finish(x, k)
        PROVE  FALSE
    <3>1. x = t
      BY <1>1, <2>2, <2>3, FinishEffects DEF OthersStay
    <3>2. k # "logout"
      BY <2>2, <2>3, <3>1 DEF Finish, InFlight
    <3>3. QED
      BY <1>1, <2>3, <3>1, <3>2, FinishEffects
  <2>4. ASSUME NEW x \in Tabs, NEW k \in Kinds, GiveUpUnauthenticated(x, k)
        PROVE  refresh[t].token \notin live
    <3>1. x = t
      BY <1>1, <2>2, <2>4, GiveUpEffects DEF OthersStay
    <3>2. k # "logout"
      BY <2>2, <2>4, <3>1 DEF GiveUpUnauthenticated, InFlight
    <3>3. refresh[t].at = "none"
      BY <1>1, <2>4, <3>1, <3>2, GiveUpEffects
    <3>4. QED
      BY <2>1, <2>2, <3>3
  <2>5. ASSUME NEW x \in Tabs, RenewFindsNoToken(x)
        PROVE  refresh[t].token \notin live
    <3>1. x = t
      BY <2>2, <2>5 DEF RenewFindsNoToken, StoreSignOut
    <3>2. QED
      BY <2>1, <2>2, <2>5, <3>1 DEF RenewFindsNoToken
  <2>6. ASSUME NEW x \in Tabs, FailRefresh(x)
        PROVE  refresh[t].token \notin live \/ refresh[t].at = "throttled"
    <3>1. x = t
      BY <2>2, <2>6 DEF FailRefresh
    <3>2. "logout" \notin Waiting(t)
      BY <2>2 DEF Waiting, InFlight
    <3>3. CASE refresh[t].at = "refused"
      BY <1>1, <3>3 DEF Core, RefusedIsDead
    <3>4. CASE refresh[t].at \notin {"refused", "throttled"}
      <4>1. tab'[t].status = tab[t].status
        BY <2>2, <2>6, <3>1, <3>2, <3>4 DEF FailRefresh, EndsSession, TabType
      <4>2. QED
        BY <1>1, <4>1
    <3>5. QED
      BY <3>3, <3>4
  <2>7. ASSUME NEW x \in Tabs, NEW k \in Kinds,
               \/ AskAgain(x, k) \/ Renew(x) \/ FinishRefresh(x) \/ Load(x)
               \/ Restore(x) \/ SignIn(x) \/ LogOut(x)
        PROVE  FALSE
    <3>1. CASE AskAgain(x, k) \/ Renew(x) \/ FinishRefresh(x) \/ LogOut(x)
      BY <1>1, <2>2, <3>1 DEF AskAgain, Renew, FinishRefresh, LogOut, TabType
    <3>2. CASE Load(x) \/ SignIn(x)
      BY <1>1, <2>2, <3>2 DEF Load, Unhydrated, SignIn, TabType
    <3>3. CASE Restore(x)
      <4>1. x = t
        BY <2>2, <3>3 DEF Restore
      <4>2. QED
        BY <1>1, <3>3, <4>1 DEF Restore
    <3>4. QED
      BY <2>7, <3>1, <3>2, <3>3
  <2>8. ASSUME NEW x \in Tabs, NEW k \in Kinds,
               \/ Ask(x, k) \/ Answer(x, k) \/ RetryWithCurrent(x, k) \/ AwaitRefresh(x, k)
               \/ Lose(x, k) \/ Rotate(x) \/ RefuseRefresh(x) \/ LoseRefresh(x)
        PROVE  UNCHANGED tab
    BY <2>8 DEF Ask, Answer, RetryWithCurrent, AwaitRefresh, Lose, Rotate, RefuseRefresh, LoseRefresh
  <2>9. "me" \in Kinds /\ \A k \in Tokens : Expire(k) => UNCHANGED tab
    BY DEF Kinds, Expire
  <2>10. QED
    BY ONLY [Next]_vars, <2>2, <2>3, <2>4, <2>5, <2>6, <2>7, <2>8, <2>9
       DEF Next, CallStep, RefreshStep, vars
<1>2. TypeOK /\ Core /\ [Next]_vars =>
         [\A t \in Tabs :
             tab[t].status = "signedIn" /\ tab'[t].status = "signedOut" /\ ~tab[t].leaving
                => refresh[t].token \notin live \/ refresh[t].at = "throttled"]_vars
  BY <1>1
<1>3. QED
  BY <1>2, Invariance, PTL DEF Spec, SignedOutOnlyWhenOver

=============================================================================
