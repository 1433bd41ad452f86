------------------------------- MODULE Alerts -------------------------------
(***************************************************************************)
(* The notification bell of the web app and the phone's push token: the    *)
(* feed and its popups, turning Web Push on and off in this browser, the   *)
(* check on load, and the clean-up of a sign-out, with people taking turns *)
(* on one device.                                                          *)
(***************************************************************************)
EXTENDS Naturals, Sequences, FiniteSets, SequencesExt, Functions

CONSTANTS
    Users,
    MaxLog,      \* bound: notifications sent
    MaxSubs,     \* bound: push subscriptions this browser makes
    MaxLogins,   \* bound: sessions on this device
    MaxFails     \* bound: requests that are lost, sign-outs that time out

VARIABLES
    ui,       \* the page: who is signed in, what the bell knows; and what the browser keeps
    server,   \* notification_log and web_push_subscriptions
    calls     \* the tap on the push button, the check on load and the sign-out in flight

vars == <<ui, server, calls>>

Nobody == "nobody"
NoSub == 0
None == 0             \* nothing seen yet in this session
NoOp == [op |-> "none", at |-> "none", for |-> Nobody, as |-> Nobody, ep |-> NoSub]
NoSignOut == [at |-> "none", ep |-> NoSub, delete |-> "none", unsubscribe |-> FALSE]
Bells == <<"top bar", "sidebar">>

Init ==
    /\ \E popup \in BOOLEAN, enabled \in BOOLEAN :
        /\ ui = [user |-> Nobody, perm |-> "default", sub |-> NoSub, popup |-> popup,
                 choice |-> [u \in Users |-> FALSE], mark |-> [u \in Users |-> 0],
                 here |-> FALSE, busy |-> FALSE, synced |-> Nobody, mounted |-> FALSE, items |-> {}, newest |-> None,
                 announced |-> {}, popped |-> [i \in 1 .. MaxLog |-> 0],
                 overlap |-> FALSE, left |-> "out", outs |-> 0]
        /\ server = [log |-> <<>>, rows |-> [e \in 1 .. MaxSubs |-> Nobody], config |-> enabled,
                     subs |-> 0, logins |-> 0, fails |-> 0]
    /\ calls = [tap |-> NoOp, sync |-> NoOp, out |-> NoSignOut]

-----------------------------------------------------------------------------
(* Where a notification leads. *)

Roles == {"player", "owner", "staff", "admin"}
Links == {"approvals", "refunds", "booking", "bookings", "overview", "venue_status", "none"}

\* The pages each role's shell has.
WebPages(role) ==
    IF role = "player" THEN {"my bookings"} ELSE {"approvals", "refunds", "history", "today"}
MobilePages(role) ==
    IF role = "player" THEN {"my bookings"} ELSE {"approvals", "refunds", "history", "today", "venues"}

\* feedRoute.
WebRoute(link, role) ==
    CASE link \in {"approvals", "overview", "venue_status"} /\ role = "player" -> "none"
      [] link \in {"refunds", "booking", "bookings"} /\ role = "player" -> "my bookings"
      [] link \in {"booking", "bookings"} -> "history"
      [] link \in {"overview", "venue_status"} -> "today"
      [] OTHER -> link

\* notificationTarget.
MobileRoute(link, role) ==
    CASE role = "player" -> IF link \in {"booking", "bookings"} THEN "my bookings" ELSE "none"
      [] link \in {"booking", "bookings"} -> "history"
      [] link = "overview" -> "today"
      [] link = "venue_status" -> "venues"
      [] OTHER -> link

\* legacyLink, for rows of the old log.
LegacyLink(event) ==
    CASE event \in {"payment_submitted", "late_payment_proof"} -> "approvals"
      [] event \in {"refund_owed", "refund_paid"} -> "refunds"
      [] event \in {"booking_confirmed", "booking_cancelled", "payment_rejected"} -> "bookings"
      [] event \in {"owner_daily_digest", "venue_approved"} -> "overview"
      [] OTHER -> "none"

RoutesFitRoles ==
    /\ \A link \in Links, role \in Roles :
        /\ WebRoute(link, role) \in WebPages(role) \cup {"none"}
        /\ role \in {"player", "owner"} => MobileRoute(link, role) \in MobilePages(role) \cup {"none"}
    /\ \A event \in {"payment_submitted", "refund_paid", "booking_cancelled", "venue_approved", "slot_reopened"} :
        LegacyLink(event) \in Links

-----------------------------------------------------------------------------
(* An older backend's log has one row per channel: fold the rows of one event. *)

FoldWindow == 1
Distance(a, b) == IF a > b THEN a - b ELSE b - a
OfEvent(item, row) == item.type = row.type /\ Distance(item.at, row.at) <= FoldWindow
Hit(items, row) == {i \in DOMAIN items : OfEvent(items[i], row)}
First(S) == CHOOSE i \in S : \A j \in S : i <= j
NewItem(row) == [type |-> row.type, at |-> row.at, deliveries |-> {[channel |-> row.channel, ok |-> row.ok]}]

\* legacyToFeed: every channel's outcome; feedFromLog keeps the newest of each channel.
WebMerge(deliveries, row) == deliveries \cup {[channel |-> row.channel, ok |-> row.ok]}
MobileMerge(deliveries, row) ==
    IF \E d \in deliveries : d.channel = row.channel THEN deliveries ELSE WebMerge(deliveries, row)

\* The newest row opens an item, a later one joins the item of its event.
Fold(rows, everyRow) ==
    FoldLeft(LAMBDA items, row :
                 IF Hit(items, row) = {} THEN Append(items, NewItem(row))
                 ELSE [items EXCEPT ![First(Hit(items, row))].deliveries =
                           IF everyRow THEN WebMerge(@, row) ELSE MobileMerge(@, row)],
             <<>>, rows)
WebFold(rows) == Fold(rows, TRUE)
MobileFold(rows) == Fold(rows, FALSE)

\* deliveryText: a channel that delivered once is not among the failed.
SentBy(item) == {d.channel : d \in {x \in item.deliveries : x.ok}}
NotSentBy(item) == {d.channel : d \in item.deliveries} \ SentBy(item)

Row == [type : {1, 2}, at : 0 .. 2, channel : {"push", "whatsapp"}, ok : BOOLEAN]
NewestFirst == {rows \in Row \X Row : rows[1].at >= rows[2].at} \cup
               {rows \in [1 .. 3 -> {r \in Row : r.type = 1 /\ r.channel = "push"}] :
                   rows[1].at >= rows[2].at /\ rows[2].at >= rows[3].at}

\* Every row is told by an item, one event by one item, and what arrived is not called failed.
FoldsTellEverything ==
    \A rows \in NewestFirst :
        LET web == WebFold(rows) mobile == MobileFold(rows) IN
        /\ \A r \in DOMAIN rows :
            /\ \E i \in DOMAIN web : /\ OfEvent(web[i], rows[r])
                                     /\ rows[r].channel \in (IF rows[r].ok THEN SentBy(web[i]) ELSE SentBy(web[i]) \cup NotSentBy(web[i]))
            /\ \E i \in DOMAIN mobile : OfEvent(mobile[i], rows[r])
        /\ \A items \in {web, mobile} : \A i, j \in DOMAIN items :
            i # j /\ items[i].type = items[j].type => Distance(items[i].at, items[j].at) > FoldWindow

-----------------------------------------------------------------------------
(* What the bell shows. *)

SignedIn == ui.user # Nobody
Unread == {i \in ui.items : i > ui.mark[ui.user]}

\* pushUiState.
PushState ==
    CASE ~server.config -> "hidden"
      [] ui.perm = "denied" -> "denied"
      [] ui.perm = "granted" -> IF ui.here THEN "subscribed" ELSE "granted-not-subscribed"
      [] OTHER -> "not-asked"

\* The push section of the panel, while no tap is being handled.
PushSection ==
    CASE ui.busy \/ ~SignedIn -> {}
      [] PushState \in {"not-asked", "granted-not-subscribed"} -> {"enable"}
      [] PushState = "subscribed" -> {"disable"}
      [] OTHER -> {}

\* The popup section: the fallback where push is not offered, and the way to switch it off.
PopupSection ==
    CASE ~SignedIn \/ (PushState # "hidden" /\ ~(ui.popup /\ PushState = "granted-not-subscribed")) -> {}
      [] ui.perm = "denied" -> {}
      [] ui.popup /\ ui.perm = "granted" -> {"popups off"}
      [] OTHER -> {"popups on"}

\* The header of the panel and its list.
ListSection == IF SignedIn /\ Unread # {} THEN {"mark all"} ELSE {}

Offers == PushSection \cup PopupSection \cup ListSection

ShowsPopup == ui.popup /\ ui.perm = "granted" /\ ~ui.here

-----------------------------------------------------------------------------
(* The feed: every 15 seconds, in every bell of the page. *)

Feed == {i \in DOMAIN server.log : server.log[i] = ui.user}
Newest(items) == CHOOSE t \in items \cup {None} : \A i \in items : i <= t

\* newArrivals: nothing is new on the first load.
New(items) == IF ui.mounted THEN {i \in items : i > ui.newest} ELSE {}

Alert(page, ids) ==
    [page EXCEPT !.announced = @ \cup ids,
                 !.popped = [i \in DOMAIN @ |-> IF i \in ids /\ ShowsPopup THEN @[i] + 1 ELSE @[i]]]

\* A bell that only minds what it has announced itself.
RingAlone(page, items) == Alert(page, New(items))

\* announced is shared by the bells of the page.
Ring(page, items) == Alert(page, New(items) \ page.announced)

LoadFeed ==
    /\ SignedIn /\ (~ui.mounted \/ Feed # ui.items)
    /\ LET page == FoldLeft(LAMBDA acc, bell : Ring(acc, Feed),
                            [announced |-> ui.announced, popped |-> ui.popped], Bells) IN
       ui' = [ui EXCEPT !.mounted = TRUE, !.items = Feed, !.newest = Newest(Feed \cup {@}),
                        !.announced = page.announced, !.popped = page.popped]
    /\ UNCHANGED <<server, calls>>

\* markAllRead: up to now, loaded or not.
MarkAllRead ==
    /\ "mark all" \in Offers
    /\ ui' = [ui EXCEPT !.mark[ui.user] = Len(server.log)]
    /\ UNCHANGED <<server, calls>>

EnablePopups ==
    /\ "popups on" \in Offers
    /\ \E perm \in IF ui.perm = "default" THEN {"default", "granted", "denied"} ELSE {ui.perm} :
        ui' = [ui EXCEPT !.perm = perm, !.popup = @ \/ perm = "granted"]
    /\ UNCHANGED <<server, calls>>

DisablePopups ==
    /\ "popups off" \in Offers
    /\ ui' = [ui EXCEPT !.popup = FALSE]
    /\ UNCHANGED <<server, calls>>

-----------------------------------------------------------------------------
(* The subscription of this browser. *)

Overlaps == calls.out # NoSignOut \/ calls.tap # NoOp \/ calls.sync # NoOp

\* enablePush asks for the permission first.
StartEnable ==
    /\ "enable" \in Offers
    /\ ui' = [ui EXCEPT !.busy = TRUE, !.overlap = @ \/ Overlaps]
    /\ calls' = [calls EXCEPT !.tap = [NoOp EXCEPT !.op = "enable", !.at = IF ui.perm = "granted" THEN "ensure" ELSE "ask", !.for = ui.user]]
    /\ UNCHANGED server

Ask ==
    /\ calls.tap.at = "ask"
    /\ \E perm \in {"default", "granted", "denied"} :
        /\ ui' = [ui EXCEPT !.perm = perm]
        /\ calls' = [calls EXCEPT !.tap.at = IF perm = "granted" THEN "ensure" ELSE "failed"]
    /\ UNCHANGED server

\* disablePush: unsubscribe in the browser, then tell the server.
StartDisable ==
    /\ "disable" \in Offers
    /\ ui' = [ui EXCEPT !.busy = TRUE, !.sub = NoSub, !.overlap = @ \/ Overlaps]
    /\ calls' = [calls EXCEPT !.tap = [op |-> "disable", at |-> IF ui.sub = NoSub THEN "ok" ELSE "sent",
                                       for |-> ui.user, as |-> ui.user, ep |-> ui.sub]]
    /\ UNCHANGED server

\* The check on load: re-send what this user chose here, else ask the server.
Sync ==
    /\ SignedIn /\ server.config /\ ui.synced # ui.user /\ calls.sync = NoOp
    /\ ui' = [ui EXCEPT !.synced = ui.user, !.overlap = @ \/ Overlaps]
    /\ calls' = [calls EXCEPT !.sync =
           CASE ui.perm = "granted" /\ ui.choice[ui.user] -> [NoOp EXCEPT !.op = "refresh", !.at = "ensure", !.for = ui.user]
             [] ui.sub = NoSub -> [NoOp EXCEPT !.op = "status", !.at = "failed", !.for = ui.user]
             [] OTHER -> [op |-> "status", at |-> "sent", for |-> ui.user, as |-> ui.user, ep |-> ui.sub]]
    /\ UNCHANGED server

\* ensureSubscription, and the POST with the session of that moment.
Ensure(c) ==
    /\ calls[c].at = "ensure"
    /\ \/ ui.sub # NoSub /\ UNCHANGED <<ui, server>>
       \/ /\ ui.sub = NoSub /\ server.subs < MaxSubs
          /\ server' = [server EXCEPT !.subs = @ + 1]
          /\ ui' = [ui EXCEPT !.sub = server.subs + 1]
    /\ calls' = [calls EXCEPT ![c].at = "sent", ![c].as = ui.user, ![c].ep = ui'.sub]

\* web_push.py: a POST moves the endpoint to whoever sends it, a DELETE takes only one's own.
Subscribed(rows, c) == [rows EXCEPT ![c.ep] = c.as]
Unsubscribed(rows, ep, user) == IF rows[ep] = user THEN [rows EXCEPT ![ep] = Nobody] ELSE rows

Serve(c) ==
    /\ calls[c].at = "sent"
    /\ LET call == calls[c] IN
       CASE call.as = Nobody -> calls' = [calls EXCEPT ![c].at = "failed"] /\ UNCHANGED server
         [] call.op \in {"enable", "refresh"} ->
              calls' = [calls EXCEPT ![c].at = "ok"] /\ server' = [server EXCEPT !.rows = Subscribed(@, call)]
         [] call.op = "disable" ->
              calls' = [calls EXCEPT ![c].at = "ok"] /\ server' = [server EXCEPT !.rows = Unsubscribed(@, call.ep, call.as)]
         [] OTHER -> /\ calls' = [calls EXCEPT ![c].at = IF server.rows[call.ep] = call.as THEN "ok" ELSE "failed"]
                     /\ UNCHANGED server
    /\ UNCHANGED ui

Lose(c) ==
    /\ calls[c].at \in {"sent", "ok"} /\ calls[c].ep # NoSub /\ server.fails < MaxFails
    /\ calls' = [calls EXCEPT ![c].at = "failed"]
    /\ server' = [server EXCEPT !.fails = @ + 1]
    /\ UNCHANGED ui

FinishTap ==
    /\ calls.tap.at \in {"ok", "failed"}
    /\ LET on == calls.tap.op = "enable" /\ calls.tap.at = "ok" IN
       ui' = [ui EXCEPT !.busy = FALSE,
                        !.choice[calls.tap.for] = IF calls.tap.op = "disable" THEN FALSE ELSE @ \/ on,
                        !.here = IF calls.tap.op = "disable" THEN FALSE ELSE @ \/ on]
    /\ calls' = [calls EXCEPT !.tap = NoOp]
    /\ UNCHANGED server

FinishSync ==
    /\ calls.sync.at \in {"ok", "failed"}
    /\ ui' = [ui EXCEPT !.here = calls.sync.at = "ok" /\ ui.perm = "granted"]
    /\ calls' = [calls EXCEPT !.sync = NoOp]
    /\ UNCHANGED server

-----------------------------------------------------------------------------
(* Signing in and out. *)

\* A new session starts with an empty bell; what the page keeps of push stays.
SignIn(user) ==
    /\ ~SignedIn /\ server.logins < MaxLogins /\ calls.out.at \in {"none", "late"}
    /\ ui' = [ui EXCEPT !.user = user, !.mounted = FALSE, !.items = {}, !.newest = None]
    /\ server' = [server EXCEPT !.logins = @ + 1]
    /\ UNCHANGED calls

\* Everything in memory is gone; the browser keeps the session, the choices and the subscription.
Reload ==
    /\ server.logins < MaxLogins /\ calls.out = NoSignOut
    /\ ui' = [ui EXCEPT !.mounted = FALSE, !.items = {}, !.newest = None, !.announced = {}, !.here = FALSE,
                        !.busy = FALSE, !.synced = Nobody, !.overlap = @ \/ Overlaps]
    /\ calls' = [calls EXCEPT !.tap = NoOp, !.sync = NoOp]
    /\ server' = [server EXCEPT !.logins = @ + 1]

\* unsubscribePushOnLogout looks the subscription up, then does both halves at once.
SignOut ==
    /\ SignedIn /\ calls.out = NoSignOut
    /\ ui' = [ui EXCEPT !.overlap = @ \/ Overlaps, !.left = "out"]
    /\ calls' = [calls EXCEPT !.out.at = "look"]
    /\ UNCHANGED server

\* Clean up one half after the other: unsubscribe only when the server has let go.
HalvesInTurn(out) == [out EXCEPT !.delete = "then unsubscribe"]

Halves(out) == [out EXCEPT !.delete = "sent", !.unsubscribe = TRUE]

LookUp ==
    /\ calls.out.at \in {"look", "late"} /\ calls.out.ep = NoSub
    /\ calls' = [calls EXCEPT !.out =
           CASE ui.sub # NoSub /\ SignedIn /\ @.at = "look" -> Halves([@ EXCEPT !.at = "clean", !.ep = ui.sub])
             [] ui.sub # NoSub -> [@ EXCEPT !.ep = ui.sub, !.delete = "lost", !.unsubscribe = TRUE]
             [] @.at = "late" -> NoSignOut
             [] OTHER -> [@ EXCEPT !.at = "clean"]]
    /\ UNCHANGED <<ui, server>>

\* The DELETE carries the session it was sent with.
DeleteRow ==
    /\ calls.out.delete \in {"sent", "then unsubscribe"}
    /\ \/ /\ calls' = [calls EXCEPT !.out.delete = "done", !.out.unsubscribe = @ \/ calls.out.delete # "sent"]
          /\ server' = [server EXCEPT !.rows = Unsubscribed(@, calls.out.ep, IF SignedIn THEN ui.user ELSE @[calls.out.ep])]
       \/ /\ server.fails < MaxFails
          /\ calls' = [calls EXCEPT !.out.delete = "lost"]
          /\ server' = [server EXCEPT !.fails = @ + 1]
    /\ UNCHANGED ui

\* A browser may refuse to unsubscribe.
Unsubscribe ==
    /\ calls.out.unsubscribe
    /\ \/ ui' = [ui EXCEPT !.sub = IF @ = calls.out.ep THEN NoSub ELSE @] /\ UNCHANGED server
       \/ /\ server.fails < MaxFails
          /\ ui' = [ui EXCEPT !.left = "refused"]
          /\ server' = [server EXCEPT !.fails = @ + 1]
    /\ calls' = [calls EXCEPT !.out.unsubscribe = FALSE]

Settled == calls.out.at = "clean" /\ calls.out.delete \in {"none", "done", "lost"} /\ ~calls.out.unsubscribe

\* The local sign-out follows the clean-up, or its two seconds.
SignedOut ==
    /\ SignedIn
    /\ \/ /\ Settled /\ calls' = [calls EXCEPT !.out = NoSignOut] /\ UNCHANGED server
       \/ /\ calls.out.at = "look" /\ server.fails < MaxFails
          /\ calls' = [calls EXCEPT !.out.at = "late"]
          /\ server' = [server EXCEPT !.fails = @ + 1]
    /\ ui' = [ui EXCEPT !.user = Nobody, !.mounted = FALSE, !.items = {}, !.newest = None, !.outs = @ + 1]

LateCleanUp ==
    /\ calls.out.at = "late" /\ calls.out.ep # NoSub /\ ~calls.out.unsubscribe
    /\ calls' = [calls EXCEPT !.out = NoSignOut]
    /\ UNCHANGED <<ui, server>>

\* The session ends on the server: the page signs out with no clean-up.
SessionOver ==
    /\ SignedIn /\ calls.out = NoSignOut
    /\ ui' = [ui EXCEPT !.user = Nobody, !.mounted = FALSE, !.items = {}, !.newest = None,
                        !.left = "expired", !.outs = @ + 1]
    /\ UNCHANGED <<server, calls>>

\* Bound: notifications come where Web Push is not configured, popups being the only alert.
Notify(user) ==
    /\ Len(server.log) < MaxLog /\ ~server.config
    /\ server' = [server EXCEPT !.log = Append(@, user)]
    /\ UNCHANGED <<ui, calls>>

-----------------------------------------------------------------------------
Next ==
    \/ LoadFeed \/ MarkAllRead \/ EnablePopups \/ DisablePopups
    \/ StartEnable \/ Ask \/ StartDisable \/ Sync \/ FinishTap \/ FinishSync
    \/ \E c \in {"tap", "sync"} : Ensure(c) \/ Serve(c) \/ Lose(c)
    \/ \E user \in Users : SignIn(user) \/ Notify(user)
    \/ Reload \/ SignOut \/ LookUp \/ DeleteRow \/ Unsubscribe \/ SignedOut \/ LateCleanUp \/ SessionOver

Spec == Init /\ [][Next]_vars

-----------------------------------------------------------------------------
TypeOK ==
    /\ ui.user \in Users \cup {Nobody} /\ ui.sub \in 0 .. MaxSubs /\ ui.perm \in {"default", "granted", "denied"}
    /\ ui.items \subseteq DOMAIN server.log /\ server.rows \in [1 .. MaxSubs -> Users \cup {Nobody}]
    /\ server.logins \in 0 .. MaxLogins /\ server.fails \in 0 .. MaxFails

\* After a sign-out that no push request overlapped, this browser gets nobody's pushes but
\* those of whoever is signed in (unsubscribePushOnLogout), whichever half of the clean-up
\* is lost or late.
NobodyElsesPush ==
    ui.left = "out" /\ ~ui.overlap /\ calls.out = NoSignOut /\ ui.sub # NoSub
    => server.rows[ui.sub] \in {ui.user, Nobody}

\* Until somebody signs out of the page, "notifications are on" is true.
OnIsOn ==
    ui.outs = 0 /\ ~ui.overlap /\ calls.out = NoSignOut /\ SignedIn /\ PushState = "subscribed" /\ ~ui.busy
    => ui.sub # NoSub /\ server.rows[ui.sub] = ui.user

\* However many bells and sessions the page has, a notification pops up once, and one whose
\* reader could see it when the session began does not.
PoppedOnce == \A i \in DOMAIN ui.popped : ui.popped[i] <= 1

Faithful ==
    /\ NobodyElsesPush /\ OnIsOn /\ PoppedOnce
    /\ server.logins = 0 => RoutesFitRoles /\ FoldsTellEverything   \* of no state: looked at once

=============================================================================
