---------------------------- MODULE StaffAccess ----------------------------
(***************************************************************************)
(* What a member of staff is offered, what opens when it is tapped, and    *)
(* what the server then answers: three tables of permissions on the phone, *)
(* one on the web, and one per endpoint on the server, with a cached       *)
(* answer between them.                                                    *)
(***************************************************************************)
EXTENDS Naturals, FiniteSets

CONSTANTS
    MaxActs,      \* bound: entries tapped, addresses opened, venues picked
    MaxTrouble    \* bound: answers lost, permissions the owner changes

VARIABLES
    ui,       \* the app of one account: its answers and the screen that is open
    server,   \* the owner's venues and what the member of staff may do at each
    calls     \* requests in progress and what has been used of the bounds

vars == <<ui, server, calls>>

Venues == {1, 2}
Keys == {"view_ledger", "approve_payments", "walkin", "check_in", "mark_refunds", "view_growth",
         "respond_reviews", "edit_court_settings", "manage_photos"}
\* What is granted at the first venue: nothing, one or two things, all but one, everything.
Grants == {g \in SUBSET Keys : Cardinality(g) \in {0, 1, 2, 8, 9}}
Unknown == [v \in {} |-> {}]
TabScreens == {"today", "approvals", "ledger", "refunds", "more"}
PushScreens == {"history", "walkin", "checkin", "growth", "reviews", "settings", "staff", "premium",
                "staff-activity", "bank-check", "dues", "account", "notifications"}
Screens == TabScreens \cup PushScreens \cup {"gate", "setup"}

-----------------------------------------------------------------------------
(* What the account may do, as each app reads the answer. *)

\* The two permissionAllows: an app that does not know lets the server decide.
WebAllows(u, key) ==
    \/ u.role # "staff"
    \/ u.status = "error"
    \/ (u.status = "success" /\ u.venue # 0) /\ key \in u.may[u.venue]
MobileAllowsAt(may, venue, key) ==
    may = Unknown \/ \E v \in IF venue = 0 THEN Venues ELSE {venue} : key \in may[v]
MobileAllows(u, key) == u.role # "staff" \/ MobileAllowsAt(u.may, u.venue, key)
MobileGrants(u) == {key \in Keys : MobileAllows(u, key)}

WebLoading(u) == u.role = "staff" /\ u.status = "pending"
MobileSettled(u) == u.status # "pending"
StaffPending(u) == u.role = "staff" /\ ~MobileSettled(u)

-----------------------------------------------------------------------------
(* The phone. *)

TabNeeds(tab) ==
    CASE tab = "today" -> {"view_ledger", "check_in", "walkin"}
      [] tab \in {"approvals", "ledger"} -> {"view_ledger"}
      [] tab = "refunds" -> {"mark_refunds"}
      [] tab = "more" -> {}
MoreNeeds(item) ==
    CASE item = "history" -> {"view_ledger"}
      [] item = "walkin" -> {"walkin"}
      [] item = "checkin" -> {"check_in"}
      [] item = "growth" -> {"view_growth"}
      [] item = "reviews" -> {"respond_reviews"}
      [] item = "settings" -> {"edit_court_settings", "manage_photos", "view_ledger"}

AnyOf(needs, granted) == needs = {} \/ needs \cap granted # {}

\* firstAllowedTabRoute over OWNER_TABS.
FirstAllowedTab(granted) ==
    CASE AnyOf(TabNeeds("today"), granted) -> "today"
      [] AnyOf(TabNeeds("approvals"), granted) -> "approvals"
      [] AnyOf(TabNeeds("refunds"), granted) -> "refunds"
      [] OTHER -> "more"

\* ownerBarTabs: the bar at the foot, and the walk-in button in it.
BarTabs(granted) ==
    {"more"} \cup (IF "view_ledger" \in granted THEN {"today", "approvals", "ledger"}
                   ELSE (IF {"check_in", "walkin"} \cap granted # {} THEN {"today"} ELSE {})
                        \cup (IF "mark_refunds" \in granted THEN {"refunds"} ELSE {}))
TabBarAtOnce(u) ==    \* mutant: the bar does not wait for the answer
    BarTabs(MobileGrants(u)) \cup (IF MobileAllows(u, "walkin") THEN {"walkin"} ELSE {})
TabBar(u) ==
    IF StaffPending(u) THEN BarTabs({})
    ELSE BarTabs(MobileGrants(u)) \cup (IF MobileAllows(u, "walkin") THEN {"walkin"} ELSE {})

\* The Ledger / Refunds / History switch on the Paisa screens; one segment alone is not shown.
PaisaSegments(u) ==
    IF MobileAllows(u, "view_ledger")
    THEN {"ledger", "history"} \cup (IF MobileAllows(u, "mark_refunds") THEN {"refunds"} ELSE {})
    ELSE {}

\* "Aur": its groups, each entry with its gate, its flag or the owner's own.
Gated == {"history", "walkin", "checkin", "growth", "reviews", "settings"}
ByKey == [i \in {"ledger", "bank-check", "dues", "refunds"} |-> IF i = "refunds" THEN "mark_refunds" ELSE "view_ledger"]
OwnerOnly == {"premium", "staff", "staff-activity"}
Visible(u, i) ==
    /\ i \in OwnerOnly => u.role = "owner"
    /\ i \in Gated => ~StaffPending(u)
                      /\ (u.role # "staff" \/ AnyOf(MoreNeeds(i), MobileGrants(u)))
    /\ i \in DOMAIN ByKey => ~StaffPending(u) /\ MobileAllows(u, ByKey[i])
    /\ i \in {"growth", "reviews"} => server.flags
LimitedTiles(u) ==
    IF u.role = "staff" /\ MobileSettled(u) /\ ~MobileAllows(u, "view_ledger")
    THEN {t \in {"checkin", "walkin"} : MobileAllows(u, IF t = "checkin" THEN "check_in" ELSE "walkin")}
    ELSE {}
MoreList(u) ==
    {i \in Gated \cup DOMAIN ByKey \cup OwnerOnly \cup {"notifications", "account"} : Visible(u, i)} \cup LimitedTiles(u)

\* StaffActions: the two big buttons of a board without money.
StaffActions(u) ==
    {t \in {"checkin", "walkin"} : MobileAllows(u, IF t = "checkin" THEN "check_in" ELSE "walkin")}

\* The guard each screen starts with, once the answer is in.
ScreenNeeds(s) ==
    CASE s = "today" -> {"view_ledger", "check_in", "walkin"}
      [] s \in {"approvals", "ledger", "history"} -> {"view_ledger"}
      [] s = "refunds" -> {"mark_refunds"}
      [] s \in Gated \ {"history"} -> MoreNeeds(s)
      [] OTHER -> {}
MobileBlocked(u) ==
    \/ u.screen \in {"staff", "premium"} /\ u.role # "owner"
    \/ u.role = "staff" /\ MobileSettled(u) /\ ~AnyOf(ScreenNeeds(u.screen), MobileGrants(u))
\* StaffAaj: the board shows the day's arrivals instead of the money.
StaffBoard(u) == u.screen = "today" /\ u.role = "staff" /\ MobileSettled(u) /\ ~MobileAllows(u, "view_ledger")

MobileOffers(u) ==
    CASE u.screen = "gate" \/ u.screen = "setup" -> {}
      [] u.screen \in PushScreens -> IF u.screen = "history" /\ ~MobileBlocked(u) THEN PaisaSegments(u) ELSE {}
      [] u.screen = "more" -> TabBar(u) \cup MoreList(u)
      [] OTHER -> TabBar(u) \cup (IF MobileBlocked(u) THEN {"more"}
                                  ELSE IF StaffBoard(u) THEN StaffActions(u)
                                  ELSE IF u.screen \in {"ledger", "refunds"} THEN PaisaSegments(u)
                                  ELSE {})

-----------------------------------------------------------------------------
(* The web. *)

OwnerRule == {"owner"}
RouteNeeds(route) ==
    CASE route \in {"today", "history", "ledger", "bank-check", "dues"} -> {"view_ledger"}
      [] route = "approvals" -> {"view_ledger", "approve_payments"}
      [] route = "walkin" -> {"walkin"}
      [] route = "refunds" -> {"mark_refunds"}
      [] route = "checkin" -> {"check_in"}
      [] route = "growth" -> {"view_growth"}
      [] route = "reviews" -> {"respond_reviews"}
      [] route = "settings" -> {"edit_court_settings", "manage_photos", "view_ledger"}
      [] route \in {"staff", "staff-activity", "premium"} -> OwnerRule
      [] OTHER -> {}
RouteAllowed(u, route) ==
    \/ u.role # "staff"
    \/ RouteNeeds(route) # OwnerRule /\ AnyOf(RouteNeeds(route), {key \in Keys : WebAllows(u, key)})

\* allNav: the flags and the owner's own first, the permissions after them.
AllNav(u) ==
    {"today", "approvals", "walkin", "history", "ledger", "bank-check", "dues", "settings", "account"}
        \cup (IF server.flags THEN {"refunds", "growth", "reviews"} ELSE {})
        \cup (IF u.role # "staff" THEN OwnerOnly ELSE {})
Nav(u) == {r \in AllNav(u) : RouteAllowed(u, r)}
WebBlocked(u) == u.role = "staff" /\ ~WebLoading(u) /\ ~RouteAllowed(u, u.screen)

\* Nothing is rendered for an owner without a live venue; check-in is a link on the day's page.
WebHidden(u) == u.role = "owner" /\ u.screen = "today" /\ (u.venues = "in" => "approved" \notin server.venues)
WebOffers(u) ==
    IF u.screen = "setup" \/ WebHidden(u) THEN {}
    ELSE Nav(u) \cup (IF u.screen = "today" /\ ~WebBlocked(u) THEN {"checkin"} ELSE {})

-----------------------------------------------------------------------------
(* Either app, and the server behind a screen. *)

Offers(u) == IF u.app = "web" THEN WebOffers(u) ELSE MobileOffers(u)
Blocked(u) == IF u.app = "web" THEN WebBlocked(u) ELSE MobileBlocked(u)

\* resolve_owner_context and require_owned_venue: the permission each screen's own request needs.
Asks(u) ==
    CASE u.screen = "today" -> IF u.app = "mobile" /\ StaffBoard(u)
                               THEN IF MobileAllows(u, "check_in") THEN {"check_in"} ELSE {}
                               ELSE {"view_ledger"}
      [] u.screen \in {"approvals", "ledger", "history", "bank-check", "dues"} -> {"view_ledger"}
      [] u.screen = "refunds" -> {"mark_refunds"}
      [] u.screen = "growth" -> {"view_growth"}
      [] u.screen \in {"staff", "premium", "staff-activity"} -> {"owner"}
      [] OTHER -> {}
StaffCan(venue, key) == key \in server.may[venue]
Served(u) == u.role = "owner" \/ \A key \in Asks(u) : StaffCan(u.venue, key)

\* The badge counts of the phone: asked for when either may be seen, answered on the same condition.
BadgesAsked(u) == u.venue # 0 /\ (MobileAllows(u, "view_ledger") \/ MobileAllows(u, "mark_refunds"))
BadgesServed(u) == u.role = "owner" \/ StaffCan(u.venue, "view_ledger") \/ StaffCan(u.venue, "mark_refunds")

-----------------------------------------------------------------------------

NoAnswer == [may |-> Unknown, ver |-> 0]
Acting == calls.acts < MaxActs
Act(c) == [c EXCEPT !.acts = @ + 1]

\* Signing in opens the owner's gate on the phone, and the day's page on the web (homeForRole).
Opened(app, role) ==
    [app |-> app, role |-> role, venue |-> 0, venues |-> "pending", status |-> IF role = "staff" THEN "pending" ELSE "success",
     may |-> Unknown, ver |-> 0, screen |-> IF app = "web" THEN "today" ELSE "gate", by |-> "landing"]

Init ==
    \E app \in {"web", "mobile"}, here \in Grants, there \in {{}, {"view_ledger"}}, flags \in BOOLEAN :
        \/ /\ Cardinality(here) > 1 => there = {} /\ flags
           /\ flags \/ there = {}
           /\ server = [may |-> <<here, there>>, flags |-> flags, venues |-> {"approved"}, ver |-> 1]
           /\ ui = Opened(app, "staff")
           \* The bounds are spent on single permissions; of the others it is enough to see the screens.
           /\ calls = [perms |-> {1}, acts |-> IF Cardinality(here) > 1 /\ MaxActs > 0 THEN MaxActs - 1 ELSE 0,
                       trouble |-> 0]
        \/ \E statuses \in SUBSET {"approved", "pending", "rejected"} :
              /\ here = {} /\ there = {}
              /\ server = [may |-> <<here, there>>, flags |-> flags, venues |-> statuses, ver |-> 1]
              /\ ui = Opened(app, "owner")
              /\ calls = [perms |-> {}, acts |-> 0, trouble |-> 0]

\* OwnerGateScreen, once it knows: the first tab a member of staff may open anywhere, or the owner's venue.
StaffRoute(may) == FirstAllowedTab({key \in Keys : MobileAllowsAt(may, 0, key)})
OwnerRoute == IF "approved" \in server.venues THEN "today" ELSE "setup"
PastGate(u) ==
    IF u.screen # "gate" THEN u
    ELSE IF u.role = "staff"
         THEN IF u.status = "pending" THEN u
              ELSE [u EXCEPT !.screen = IF u.status = "error" THEN "today" ELSE StaffRoute(u.may)]
         ELSE IF u.venues = "in" THEN [u EXCEPT !.screen = OwnerRoute] ELSE u

\* GET /owners/me/permissions.
PermissionsIn ==
    /\ calls.perms # {}
    /\ ui' = PastGate([ui EXCEPT !.status = "success", !.may = server.may, !.ver = server.ver])
    /\ calls' = [calls EXCEPT !.perms = {}]
    /\ UNCHANGED server

\* retry: false; on the web an error allows everything, on the phone an answer once given is kept.
PermissionsLost ==
    /\ calls.perms # {} /\ calls.trouble < MaxTrouble
    /\ ui' = PastGate([ui EXCEPT !.status = "error"])
    /\ calls' = [calls EXCEPT !.perms = {}, !.trouble = @ + 1]
    /\ UNCHANGED server

\* useOwnerVenues: the first live venue until another is picked; then the owner's page may send them on.
VenuesIn ==
    /\ ui.venues = "pending"
    /\ ui' = LET u == PastGate([ui EXCEPT !.venues = "in", !.venue = IF server.venues = {} THEN 0 ELSE 1])
             IN  IF u.app = "web" /\ u.role = "owner" /\ u.screen = "today" THEN [u EXCEPT !.screen = OwnerRoute] ELSE u
    /\ UNCHANGED <<server, calls>>

PickVenue ==
    /\ Acting /\ ui.venue # 0 /\ ui.role = "staff" /\ ui.screen \notin {"gate", "setup"}
    /\ \E v \in Venues \ {ui.venue} : ui' = [ui EXCEPT !.venue = v]
    /\ calls' = Act(calls)
    /\ UNCHANGED server

\* A screen that opens asks again when the answer is stale, here whenever it may have changed.
Reopen(u, s, how) == [u EXCEPT !.screen = s, !.by = how]
Asking(c) == IF ui.role = "staff" /\ ui.ver # server.ver THEN [c EXCEPT !.perms = {1}] ELSE c
Tap ==
    /\ Acting
    /\ \E s \in Offers(ui) \ {ui.screen} :
          ui' = IF ui.app = "web" /\ ui.role = "owner" /\ s = "today" /\ ui.venues = "in"
                THEN Reopen(ui, OwnerRoute, "tap") ELSE Reopen(ui, s, "tap")
    /\ calls' = Act(Asking(calls))
    /\ UNCHANGED server

\* A notification, a bookmark or a typed address; on the phone it can take the place of the gate.
FollowLink ==
    /\ Acting /\ ui.role = "staff" /\ ui.screen # "setup"
    /\ \E s \in PushScreens \cup {"approvals", "refunds"} : s # ui.screen /\ ui' = Reopen(ui, s, "link")
    /\ calls' = Act(Asking(calls))
    /\ UNCHANGED server

\* The owner saves the member's permissions (set_permissions).
OwnerChanges ==
    /\ ui.role = "staff" /\ calls.trouble < MaxTrouble
    /\ Acting    \* a change after which nothing more is opened shows nothing
    /\ \E key \in Keys :
          server' = [server EXCEPT !.ver = @ + 1,
                                   !.may[1] = IF key \in @ THEN @ \ {key} ELSE @ \cup {key}]
    /\ calls' = [calls EXCEPT !.trouble = @ + 1]
    /\ UNCHANGED ui

Next ==
    \/ PermissionsIn \/ PermissionsLost \/ VenuesIn \/ PickVenue
    \/ Tap \/ FollowLink \/ OwnerChanges

Spec == Init /\ [][Next]_vars

-----------------------------------------------------------------------------

TypeOK ==
    /\ ui.screen \in Screens /\ ui.venue \in {0} \cup Venues
    /\ ui.status \in {"pending", "success", "error"}
    /\ ui.may = Unknown \/ ui.may \in [Venues -> SUBSET Keys]
    /\ server.may \in [Venues -> SUBSET Keys]

\* The app knows: the answer it has is the server's, and it knows its venue.
Current == /\ ui.role = "staff" /\ ui.venue # 0 /\ ui.status = "success" /\ ui.ver = server.ver

\* On the web the approvals page also opens for who may approve but not read; the server does not list for them.
ListsNothing(u) == u.app = "web" /\ u.screen = "approvals" /\ ~StaffCan(u.venue, "view_ledger")
\* On the web check-in is linked from the day's page, whoever reads it.
LinkedFromToday(s) == ui.app = "web" /\ s = "checkin"

\* What is offered opens, and what opens is served: no entry of the bar, the "Aur" list, the segments, the tiles or the
\* sidebar leads to a screen that says "not allowed" or whose request the server refuses.
OffersOpen ==
    Current => \A s \in Offers(ui) :
                  LinkedFromToday(s) \/ LET u == Reopen(ui, s, "tap") IN ~Blocked(u) /\ (Served(u) \/ ListsNothing(u))

\* What is not blocked is served, and the badges are only asked for when the server counts them.
OpenIsServed ==
    Current =>
        /\ Blocked(ui) \/ ui.screen \in {"staff-activity", "bank-check", "dues"} \/ Served(ui) \/ ListsNothing(ui)
        /\ (ui.app = "mobile" /\ BadgesAsked(ui)) => BadgesServed(ui)

\* Every permission with a screen of its own has a way to it: on the phone from the bar or "Aur", on the web from the
\* sidebar.  (Approving needs reading on the phone; check-in has no entry of its own on the web.)
WayTo(key) ==
    CASE key = "view_ledger" -> {"today", "ledger", "history", "approvals"}
      [] key = "walkin" -> {"walkin"}
      [] key = "check_in" -> IF ui.app = "mobile" THEN {"checkin"} ELSE {}
      [] key = "mark_refunds" -> IF ui.app = "mobile" \/ server.flags THEN {"refunds"} ELSE {}
      [] key = "view_growth" -> IF server.flags THEN {"growth"} ELSE {}
      [] key = "respond_reviews" -> IF server.flags THEN {"reviews"} ELSE {}
      [] key \in {"edit_court_settings", "manage_photos"} -> {"settings"}
      [] OTHER -> {}
EveryKeyHasAWay ==
    Current => \A key \in server.may[ui.venue] :
                  WayTo(key) \subseteq (IF ui.app = "web" THEN Nav(ui) ELSE TabBar(ui) \cup MoreList(ui))

\* While the answer is awaited for the first time nothing is offered that the answer will take away.  (The switch of the
\* Paisa screens does not wait.)
NothingFlashes ==
    (ui.role = "staff" /\ ui.status = "pending" /\ ui.venue # 0 /\ calls.perms # {} /\ ui.screen \notin {"ledger", "refunds", "history"}) =>
        LET then == [ui EXCEPT !.status = "success", !.may = server.may] IN Offers(ui) \subseteq Offers(then) \cup {"more", "checkin"}

\* The gate of the phone never lands a member of staff of one venue on a screen that refuses them, and neither app sends
\* an owner with a live venue into its setup.
LandsWell ==
    /\ (Current /\ ui.app = "mobile" /\ ui.by = "landing" /\ ui.screen # "gate" /\ server.may[2] = {} /\ ui.venue = 1 /\ ui.ver = 1)
          => ~Blocked(ui) \/ calls.trouble > 0
    /\ (ui.role = "owner" /\ ui.screen = "setup") => "approved" \notin server.venues

Faithful ==
    /\ OffersOpen
    /\ OpenIsServed
    /\ EveryKeyHasAWay
    /\ NothingFlashes
    /\ LandsWell
=============================================================================
