----------------------------- MODULE CardPhotos -----------------------------
(***************************************************************************)
(* The venue card: its photos, which turn by themselves while the card is  *)
(* looked at and nobody is at it (one reducer drives the web's track and   *)
(* the phone's list), and the web's amenities popover.  A unit of time is  *)
(* half an autoplay interval; the popover is a part of the card of its own.*)
(***************************************************************************)
EXTENDS Integers

CONSTANTS
    MaxActs,      \* bound: what the person at the card does
    MaxTrouble,   \* bound: new photo lists, changes of visibility and of the motion setting
    MaxTime       \* bound: half intervals

VARIABLES
    ui,       \* the reducer's state, the timer, what is on screen, the popover
    server,   \* how many photos the venue has, and the clock
    calls     \* what has been used of the bounds

vars == <<ui, server, calls>>

Autoplay == 2
ResumeAfterTouch == 4
Off == 0
Least(a, b) == IF a < b THEN a ELSE b
Most(a, b) == IF a > b THEN a ELSE b

-----------------------------------------------------------------------------
(* The reducer. *)

CarouselMode(count) == IF count = 0 THEN "empty" ELSE IF count = 1 THEN "static" ELSE "auto"
InitialCarousel(count, visible, reduce) ==
    [count |-> count, index |-> 0, animate |-> FALSE, visible |-> visible, reduceMotion |-> reduce, appActive |-> TRUE,
     hovered |-> FALSE, focused |-> FALSE, dragging |-> FALSE, resumeAt |-> 0]
TimerShouldRun(s) == CarouselMode(s.count) = "auto" /\ s.visible /\ ~s.reduceMotion /\ s.appActive
CanAutoplay(s, now) == TimerShouldRun(s) /\ ~s.hovered /\ ~s.focused /\ ~s.dragging /\ now >= s.resumeAt
ActiveDot(s) == IF s.count = 0 THEN 0 ELSE s.index % s.count
\* One more slide than photos: a copy of the first one, so that the last turn goes forward too.
SlideCount(count) == IF CarouselMode(count) = "auto" THEN count + 1 ELSE count
Clamp(i, count) == Least(Most(i, 0), Most(count - 1, 0))
UserMove(s, i, now) ==
    IF CarouselMode(s.count) # "auto" THEN s
    ELSE [s EXCEPT !.index = Clamp(i, s.count), !.animate = ~s.reduceMotion, !.resumeAt = now + ResumeAfterTouch]
Counted(s, count) == [s EXCEPT !.count = count, !.index = IF count = 0 THEN 0 ELSE Least(@, count - 1), !.animate = FALSE]
Motion(s, reduce) == [s EXCEPT !.reduceMotion = reduce, !.animate = @ /\ ~reduce]
Touched(s, down, now) == [s EXCEPT !.dragging = down, !.resumeAt = now + ResumeAfterTouch]
NextPhoto(s, now) == UserMove(s, (ActiveDot(s) + 1) % Most(s.count, 1), now)
PrevPhoto(s, now) == UserMove(s, (ActiveDot(s) - 1 + Most(s.count, 1)) % Most(s.count, 1), now)
Ticked(s, now) ==
    IF ~CanAutoplay(s, now) THEN s
    ELSE [s EXCEPT !.index = IF @ >= s.count - 1 THEN s.count ELSE @ + 1, !.animate = TRUE]
Settled(s) == IF s.index >= s.count /\ s.count > 0 THEN [s EXCEPT !.index = 0, !.animate = FALSE] ELSE s

-----------------------------------------------------------------------------
\* Who is at the card and what the device says, apart from what the reducer was told.
Nobody == [seen |-> FALSE, front |-> TRUE, still |-> FALSE, pointer |-> FALSE, focus |-> FALSE, finger |-> FALSE, last |-> -ResumeAfterTouch]
ClosedPopover == [hover |-> FALSE, focus |-> FALSE, pinned |-> FALSE, dismissed |-> FALSE, escaped |-> FALSE]

Init ==
    \E app \in {"web", "mobile", "popover"}, count \in 0 .. 3, still \in BOOLEAN :
        /\ app = "popover" => count = 0 /\ ~still
        /\ server = [count |-> count, now |-> 1]
        /\ ui = [app |-> app, s |-> InitialCarousel(count, FALSE, still), beat |-> Off, at |-> 0, sliding |-> FALSE, drag |-> FALSE,
                 momentum |-> FALSE, who |-> [Nobody EXCEPT !.still = still], rude |-> FALSE, cut |-> FALSE, pop |-> ClosedPopover]
        /\ calls = [acts |-> 0, trouble |-> 0]

Acting == calls.acts < MaxActs
Act == calls' = [calls EXCEPT !.acts = @ + 1]
Troubling == calls.trouble < MaxTrouble
Trouble == calls' = [calls EXCEPT !.trouble = @ + 1]

\* The effects after a dispatch: the timer starts when it should run and stops when not.  The web's track
\* follows the index, a transition ending only where one began; the phone scrolls its list, and off the
\* copy at the end it goes back to the first slide a moment later.
Rerun(u, s) == IF ~TimerShouldRun(s) THEN Off ELSE IF u.beat # Off THEN u.beat ELSE server.now + Autoplay
WebTrack(u, s) ==
    [u EXCEPT !.s = s, !.beat = Rerun(u, s), !.at = s.index,
              !.sliding = (@ \/ s.index # u.s.index) /\ s.animate,
              !.cut = (@ \/ (u.sliding /\ ~s.animate)) /\ s.index >= s.count]
MobileList(u, s) ==
    LET moved == s.index # u.s.index \/ s.animate # u.s.animate \/ s.count # u.s.count IN
    [u EXCEPT !.s = s, !.beat = Rerun(u, s), !.at = IF moved THEN s.index ELSE @,
              !.sliding = CarouselMode(s.count) = "auto" /\ s.index >= s.count,
              !.drag = @ /\ s.count > 0, !.momentum = @ /\ s.count > 0]
Dispatch(u, s) == IF u.app = "web" THEN WebTrack(u, s) ELSE MobileList(u, s)

\* What is seen: photo i % count on slide i.
WebPhoto == ui.s.index % ui.s.count
MobilePhoto == ui.at % ui.s.count
PhotoSeen == IF ui.app = "web" THEN WebPhoto ELSE MobilePhoto

-----------------------------------------------------------------------------
(* The device. *)

NewPhotos ==
    /\ Troubling /\ ui.app # "popover"
    /\ \E count \in 0 .. 3 : count # server.count /\ server' = [server EXCEPT !.count = count] /\ ui' = Dispatch(ui, Counted(ui.s, count))
    /\ Trouble
\* The intersection observer, or the list's viewability.
UseVisible ==
    /\ (~ui.who.seen \/ Troubling) /\ ui.app # "popover"
    /\ ui' = [Dispatch(ui, [ui.s EXCEPT !.visible = ~@]) EXCEPT !.who.seen = ~@]
    /\ (IF ui.who.seen THEN Trouble ELSE UNCHANGED calls) /\ UNCHANGED server
UseAppActive ==
    /\ Troubling /\ ui.app # "popover"
    /\ ui' = [Dispatch(ui, [ui.s EXCEPT !.appActive = ~@]) EXCEPT !.who.front = ~@]
    /\ Trouble /\ UNCHANGED server
UseReduceMotion ==
    /\ Troubling /\ ui.app # "popover"
    /\ ui' = [Dispatch(ui, Motion(ui.s, ~ui.who.still)) EXCEPT !.who.still = ~@]
    /\ Trouble /\ UNCHANGED server

\* Autoplay must leave the photo to whoever is at the card, and for a while after.
Busy(w) == w.pointer \/ w.focus \/ w.finger \/ server.now < w.last + ResumeAfterTouch
Away(w) == ~w.seen \/ ~w.front \/ w.still
Tick ==
    /\ ui.beat # Off /\ server.now >= ui.beat
    /\ LET s == Ticked(ui.s, server.now) IN
       ui' = [Dispatch(ui, s) EXCEPT !.beat = server.now + Autoplay, !.rude = @ \/ (s.index # ui.s.index /\ (Busy(ui.who) \/ Away(ui.who)))]
    /\ UNCHANGED <<server, calls>>
\* The web's transition ends; the phone's moment is over.
Settle ==
    /\ ui.sliding
    /\ ui' = [Dispatch(ui, Settled(ui.s)) EXCEPT !.sliding = FALSE, !.at = IF ui.app = "mobile" THEN 0 ELSE @]
    /\ UNCHANGED <<server, calls>>
\* A slide and a swing of the list take less than the half interval.
Pass ==
    /\ server.now < MaxTime /\ ~ui.sliding /\ ~ui.momentum
    /\ ui.beat = Off \/ server.now < ui.beat
    /\ server' = [server EXCEPT !.now = @ + 1]
    /\ UNCHANGED <<ui, calls>>

-----------------------------------------------------------------------------
(* The person. *)

Web == ui.app = "web" /\ Acting
Used(u) == [u EXCEPT !.who.last = server.now]
VenueCardHover ==
    /\ Web
    /\ ui' = [Dispatch(ui, [ui.s EXCEPT !.hovered = ~@]) EXCEPT !.who.pointer = ~@]
    /\ Act /\ UNCHANGED server
VenueCardFocus ==
    /\ Web
    /\ ui' = [Dispatch(ui, [ui.s EXCEPT !.focused = ~@]) EXCEPT !.who.focus = ~@]
    /\ Act /\ UNCHANGED server
VenueCardArrow ==
    /\ Web /\ CarouselMode(ui.s.count) = "auto"
    /\ \E move \in {NextPhoto(ui.s, server.now), PrevPhoto(ui.s, server.now)} : ui' = Used(Dispatch(ui, move))
    /\ Act /\ UNCHANGED server
WebTouchStart ==
    /\ Web /\ ~ui.who.finger
    /\ ui' = Used([Dispatch(ui, Touched(ui.s, TRUE, server.now)) EXCEPT !.who.finger = TRUE])
    /\ Act /\ UNCHANGED server
\* A swipe moves one on, and then the finger is up.
WebTouchEnd ==
    /\ ui.app = "web" /\ ui.who.finger
    /\ \E move \in {ui.s, NextPhoto(ui.s, server.now), PrevPhoto(ui.s, server.now)} :
          ui' = Used([Dispatch(ui, Touched(move, FALSE, server.now)) EXCEPT !.who.finger = FALSE])
    /\ UNCHANGED <<server, calls>>

MobileDragStart ==
    /\ ui.app = "mobile" /\ Acting /\ ~ui.drag /\ CarouselMode(ui.s.count) = "auto"
    /\ ui' = Used([Dispatch(ui, Touched(ui.s, TRUE, server.now)) EXCEPT !.who.finger = TRUE, !.drag = TRUE])
    /\ Act /\ UNCHANGED server
MobileDragEnd ==
    /\ ui.app = "mobile" /\ ui.drag /\ ~ui.momentum
    /\ \E i \in 0 .. SlideCount(ui.s.count) - 1 :
          /\ i - ui.at \in -1 .. 1
          /\ ui' = Used([Dispatch(ui, Touched(ui.s, FALSE, server.now)) EXCEPT !.who.finger = FALSE, !.at = i, !.momentum = TRUE])
    /\ UNCHANGED <<server, calls>>
\* onMomentumEnd: on the copy at the end the list goes to the first slide.
OnMomentumEnd ==
    /\ ui.momentum
    /\ LET i == IF ui.at >= ui.s.count THEN 0 ELSE ui.at
           s == Touched(UserMove(ui.s, i, server.now), FALSE, server.now) IN
       ui' = Used([Dispatch([ui EXCEPT !.at = i], s) EXCEPT !.drag = FALSE, !.momentum = FALSE])
    /\ UNCHANGED <<server, calls>>

\* AmenitiesPopover: open while pointed at, focused or pressed, and not after Escape until one of these again.
Popover == ui.app = "popover" /\ Acting
PopoverOpen == ~ui.pop.dismissed /\ (ui.pop.hover \/ ui.pop.focus \/ ui.pop.pinned)
PopoverEnter == Popover /\ ~ui.pop.hover /\ ui' = [ui EXCEPT !.pop = [@ EXCEPT !.dismissed = FALSE, !.hover = TRUE, !.escaped = FALSE]] /\ Act /\ UNCHANGED server
PopoverLeave == Popover /\ ui.pop.hover /\ ui' = [ui EXCEPT !.pop.hover = FALSE] /\ Act /\ UNCHANGED server
PopoverFocus == Popover /\ ~ui.pop.focus /\ ui' = [ui EXCEPT !.pop = [@ EXCEPT !.dismissed = FALSE, !.focus = TRUE, !.escaped = FALSE]] /\ Act /\ UNCHANGED server
PopoverBlur == Popover /\ ui.pop.focus /\ ui' = [ui EXCEPT !.pop = [@ EXCEPT !.focus = FALSE, !.pinned = FALSE]] /\ Act /\ UNCHANGED server
PopoverPress == Popover /\ ui' = [ui EXCEPT !.pop = [@ EXCEPT !.dismissed = FALSE, !.pinned = ~@, !.escaped = FALSE]] /\ Act /\ UNCHANGED server
PopoverEscape ==
    /\ Popover /\ PopoverOpen
    /\ ui' = [ui EXCEPT !.pop = [@ EXCEPT !.pinned = FALSE, !.dismissed = TRUE, !.escaped = TRUE]]
    /\ Act /\ UNCHANGED server

Next ==
    \/ NewPhotos \/ UseVisible \/ UseAppActive \/ UseReduceMotion \/ Tick \/ Settle \/ Pass
    \/ VenueCardHover \/ VenueCardFocus \/ VenueCardArrow \/ WebTouchStart \/ WebTouchEnd
    \/ MobileDragStart \/ MobileDragEnd \/ OnMomentumEnd
    \/ PopoverEnter \/ PopoverLeave \/ PopoverFocus \/ PopoverBlur \/ PopoverPress \/ PopoverEscape

Spec == Init /\ [][Next]_vars

-----------------------------------------------------------------------------
TypeOK ==
    /\ ui.s.count = server.count /\ ui.at \in 0 .. 3 /\ ui.beat \in 0 .. MaxTime + Autoplay /\ ui.sliding \in BOOLEAN
    /\ server.now \in 1 .. MaxTime /\ calls.acts \in 0 .. MaxActs /\ calls.trouble \in 0 .. MaxTrouble

\* Whatever becomes of the list of photos, a slide that exists is shown.
SlideExists == ui.s.index = 0 \/ ui.s.index < SlideCount(ui.s.count)
\* At rest the lit dot is that of the photo on screen.
DotIsPhoto == ui.s.count > 0 /\ ~ui.drag /\ ~ui.momentum => PhotoSeen = ActiveDot(ui.s)
\* No photo turns by itself under somebody's pointer, focus or finger, soon after, or where nobody sees it.
NeverRude == ~ui.rude
\* The copy at the end is left again, so that the photos go round (on the web not when motion was reduced
\* in the middle of that last slide: the transition that would end it is gone).
LeavesTheCopy == CarouselMode(ui.s.count) = "auto" /\ ui.s.index >= ui.s.count => ui.sliding \/ ui.cut
\* Escape closes the popover, and it stays closed until the person comes back to it.
EscapeCloses == ui.pop.escaped => ~PopoverOpen

Faithful == SlideExists /\ DotIsPhoto /\ NeverRude /\ LeavesTheCopy /\ EscapeCloses

=============================================================================
