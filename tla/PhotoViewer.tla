---------------------------- MODULE PhotoViewer ----------------------------
(***************************************************************************)
(* Looking at pictures: the payment screenshot, whose signed address runs  *)
(* out after five minutes (a thumbnail that opens the web's Lightbox or    *)
(* the phone's ScreenshotViewer, with zoom and pan), and the photos of a   *)
(* venue.  An address is the tick it was signed at.  One axis is modelled, *)
(* the other one being the same; a press of + doubles (by half in the      *)
(* code), so that scales are whole numbers.                                *)
(***************************************************************************)
EXTENDS Integers, Sequences

CONSTANTS
    MaxActs,      \* bound: what the person looking does
    MaxTrouble,   \* bound: failed requests, new addresses from a poll, changes of the window
    MaxTime       \* bound: ticks of two and a half minutes

VARIABLES
    ui,       \* the thumbnail, the viewer, the gallery
    server,   \* the time, and whether there is a screenshot
    calls     \* the request for an address, and what has been used of the bounds

vars == <<ui, server, calls>>

None == 0
Life == 2
Alive(url) == url # None /\ server.now - url < Life
Places == {-6, 0, 6}
Image == 8
MaxFactor == 4
Step == 2
Between(n, lo, hi) == IF n < lo THEN lo ELSE IF n > hi THEN hi ELSE n
Abs(n) == IF n < 0 THEN -n ELSE n

NoView == [s |-> 0, x |-> 0]
NoGesture == [on |-> FALSE, view |-> NoView, dist |-> 0, mid |-> 0, start |-> 0, moved |-> FALSE, bg |-> FALSE]
NewBox(url) == [retried |-> FALSE, failed |-> FALSE, tried |-> None, loaded |-> None, initial |-> url]
Fingers == [pts |-> <<>>, gesture |-> NoGesture, dx |-> 0, dragged |-> FALSE, jolted |-> FALSE]
Init ==
    \E app \in {"web", "mobile", "gallery"}, given \in BOOLEAN, exists \in BOOLEAN, stage \in {8, 16} :
        /\ app = "gallery" => given /\ exists
        /\ server = [now |-> 1, exists |-> exists]
        /\ ui = [app |-> app, initial |-> IF given THEN 1 ELSE None, asks |-> ~given, data |-> None, bad |-> FALSE, missing |-> FALSE,
                 thumb |-> NewBox(IF given THEN 1 ELSE None), open |-> FALSE, box |-> NewBox(None),
                 stage |-> stage, view |-> NoView, hands |-> Fingers, shut |-> FALSE,
                 photo |-> [index |-> 0, count |-> 3, full |-> FALSE, swiped |-> FALSE, last |-> "none", opened |-> FALSE]]
        /\ calls = [get |-> ~given /\ app # "gallery", acts |-> 0, trouble |-> 0]

Acting == calls.acts < MaxActs
Act(c) == [c EXCEPT !.acts = @ + 1]
Troubling == calls.trouble < MaxTrouble
Trouble(c) == [c EXCEPT !.trouble = @ + 1]

-----------------------------------------------------------------------------
(* Where the picture comes from. *)

\* The web's thumbnail goes over from the address it was given to the one it asks for, and its Lightbox with it.
WebSrc == IF ui.asks THEN ui.data ELSE ui.initial
\* useProofUrl, once in the thumbnail and once in the viewer, which is given what the thumbnail had.
MobileSrc(part) == IF part.retried \/ part.initial = None THEN ui.data ELSE part.initial
ThumbSrc == IF ui.app = "web" THEN WebSrc ELSE MobileSrc(ui.thumb)
BoxSrc == IF ui.app = "web" THEN WebSrc ELSE MobileSrc(ui.box)

\* What the web's thumbnail shows: no screenshot, an error with a way to try again, or the picture.  Its
\* Lightbox is there only with the picture.
ScreenshotThumb == IF ui.missing THEN "missing" ELSE IF ui.thumb.failed \/ ui.bad THEN "error" ELSE "picture"
ThumbShown == ui.app = "mobile" \/ ScreenshotThumb = "picture"
BoxShown == ui.open /\ ThumbShown

\* get_proof_url signs for five minutes; a failed request leaves the old address where it was.
ProofUrl == server.now
UrlArrives ==
    /\ calls.get /\ server.exists
    /\ ui' = [ui EXCEPT !.data = ProofUrl, !.bad = FALSE]
    /\ calls' = [calls EXCEPT !.get = FALSE]
    /\ UNCHANGED server
\* A Lightbox that is no longer shown is gone, with its zoom.
Unmounted(u) == [u EXCEPT !.box = NewBox(None), !.view = NoView, !.hands = Fingers]
NoScreenshot ==
    /\ calls.get /\ ~server.exists
    /\ ui' = IF ui.app = "web" THEN Unmounted([ui EXCEPT !.missing = TRUE]) ELSE [ui EXCEPT !.bad = TRUE]
    /\ calls' = [calls EXCEPT !.get = FALSE]
    /\ UNCHANGED server
UrlFails ==
    /\ calls.get /\ Troubling
    /\ ui' = IF ui.app = "web" THEN Unmounted([ui EXCEPT !.bad = TRUE]) ELSE [ui EXCEPT !.bad = TRUE]
    /\ calls' = Trouble([calls EXCEPT !.get = FALSE])
    /\ UNCHANGED server

\* refresh: the first time the address is asked for, later it is asked for again.
Refreshed(u) == [u EXCEPT !.asks = TRUE]
\* onThumbError, onImgError, useProofUrl's onError: once more, then it has failed.
Erred(part) == IF part.retried THEN [part EXCEPT !.failed = TRUE] ELSE [part EXCEPT !.retried = TRUE]
Tried(part, src) == [part EXCEPT !.tried = src]
Loaded(part, src) == [Tried(part, src) EXCEPT !.loaded = src]
ThumbPending == ui.app # "gallery" /\ ThumbShown /\ ~ui.thumb.failed /\ ThumbSrc # None /\ ui.thumb.tried # ThumbSrc
BoxPending == BoxShown /\ ~ui.box.failed /\ BoxSrc # None /\ ui.box.tried # BoxSrc
ThumbImage ==
    /\ ThumbPending
    /\ IF Alive(ThumbSrc) THEN ui' = [ui EXCEPT !.thumb = Loaded(@, ThumbSrc)] /\ UNCHANGED calls
       ELSE LET u == [ui EXCEPT !.thumb = Erred(Tried(@, ThumbSrc))] IN
            /\ ui' = IF ui.thumb.retried THEN (IF ui.app = "web" THEN Unmounted(u) ELSE u) ELSE Refreshed(u)
            /\ calls' = [calls EXCEPT !.get = @ \/ ~ui.thumb.retried]
    /\ UNCHANGED server
\* Fit(stage): the scale at which all of the picture is seen; on the phone 1 is that.
FitScale(stage) == IF ui.app = "web" THEN stage \div Image ELSE 1
BoxImage ==
    /\ BoxPending
    /\ IF Alive(BoxSrc)
       THEN ui' = [ui EXCEPT !.box = Loaded(@, BoxSrc), !.view = IF @ = NoView /\ ui.app = "mobile" THEN [s |-> 1, x |-> 0] ELSE @] /\ UNCHANGED calls
       ELSE /\ ui' = [(IF ui.box.retried THEN ui ELSE Refreshed(ui)) EXCEPT !.box = Erred(Tried(@, BoxSrc))]
            /\ calls' = [calls EXCEPT !.get = @ \/ ~ui.box.retried]
    /\ UNCHANGED server

\* "Try again": the web's thumbnail starts over, the phone's viewer asks once more.
RetryThumb ==
    /\ ui.app = "web" /\ ScreenshotThumb = "error" /\ Acting
    /\ ui' = Refreshed([ui EXCEPT !.thumb.failed = FALSE, !.thumb.retried = FALSE])
    /\ calls' = Act([calls EXCEPT !.get = TRUE])
    /\ UNCHANGED server
RetryBox ==
    /\ ui.app = "mobile" /\ ui.open /\ Acting /\ (ui.box.failed \/ (ui.bad /\ BoxSrc = None))
    /\ ui' = [ui EXCEPT !.box.failed = FALSE]
    /\ calls' = Act([calls EXCEPT !.get = TRUE])
    /\ UNCHANGED server

OpenViewer ==
    /\ ui.app # "gallery" /\ ~ui.open /\ (ui.app = "web" => ScreenshotThumb = "picture" /\ WebSrc # None)
    /\ ui' = [ui EXCEPT !.open = TRUE, !.box = NewBox(IF ThumbSrc = None THEN ui.initial ELSE ThumbSrc), !.view = NoView, !.hands = Fingers]
    /\ UNCHANGED <<server, calls>>
Shut(u) == [Unmounted(u) EXCEPT !.open = FALSE]
CloseViewer ==
    /\ BoxShown
    /\ ui' = Shut(ui)
    /\ UNCHANGED <<server, calls>>

-----------------------------------------------------------------------------
(* Zoom and pan. *)

HasImage == BoxShown /\ ~ui.box.failed /\ ui.box.loaded # None /\ ui.box.loaded = BoxSrc
\* bound: zoom and pan are explored in the first tick
Handling == HasImage /\ Acting /\ server.now = 1
Edge(s) == LET d == (IF ui.app = "web" THEN Image * s ELSE ui.stage * s) - ui.stage IN IF d > 0 THEN d \div 2 ELSE 0
\* clampPan: the picture covers the stage where it is larger, and is in the middle where it is not.
ClampPan(v) == [v EXCEPT !.x = Between(v.x, -Edge(v.s), Edge(v.s))]
Fit == [s |-> FitScale(ui.stage), x |-> 0]
IsFit(v) == v.s <= FitScale(ui.stage)
IsMax(v) == v.s >= FitScale(ui.stage) * MaxFactor
Effective == ClampPan(IF ui.view = NoView THEN Fit ELSE ui.view)
\* zoomAt: the point under the finger stays where it is.
ZoomAt(v, next, focus) ==
    LET s == Between(next, FitScale(ui.stage), FitScale(ui.stage) * MaxFactor) IN
    IF s = FitScale(ui.stage) THEN Fit ELSE ClampPan([s |-> s, x |-> focus - ((focus - v.x) * s) \div v.s])
\* The phone's apply: the scale is put between its ends, the place between the edges of that scale.
MobileApply(s, x) == ClampPan([s |-> Between(s, 1, MaxFactor), x |-> x])
\* The web's apply: a view that fits is no view of its own.
Applied(u, v) == [u EXCEPT !.view = IF ui.app = "web" /\ IsFit(v) THEN NoView ELSE v]
Jolt(u) == IF u.hands.gesture.on THEN [u EXCEPT !.hands.jolted = TRUE] ELSE u

Wheel(by, focus) ==
    ui' = Jolt(Applied(ui, IF ui.app = "web" THEN ZoomAt(Effective, by, focus) ELSE MobileApply(by, ui.view.x)))
Press(by) ==
    ui' = Jolt(Applied(ui, IF ui.app = "web" THEN ZoomAt(Effective, by, 0) ELSE MobileApply(by, (ui.view.x * by) \div ui.view.s)))
ZoomIn == Handling /\ ~IsMax(Effective) /\ Press(Effective.s * Step) /\ calls' = Act(calls) /\ UNCHANGED server
ZoomOut == Handling /\ ~IsFit(Effective) /\ Press(Effective.s \div Step) /\ calls' = Act(calls) /\ UNCHANGED server
WheelTurns(focus) ==
    /\ Handling /\ \E by \in {Effective.s * Step, Effective.s \div Step} : Wheel(by, focus)
    /\ calls' = Act(calls) /\ UNCHANGED server
FitPressed == Handling /\ ui' = Jolt(Applied(ui, Fit)) /\ calls' = Act(calls) /\ UNCHANGED server
\* The arrow keys move a picture that does not fit.
ArrowKey(by) ==
    /\ ui.app = "web" /\ Handling /\ ~IsFit(Effective)
    /\ ui' = Jolt(Applied(ui, ClampPan([Effective EXCEPT !.x = @ + by])))
    /\ calls' = Act(calls) /\ UNCHANGED server

\* beginGesture: what the fingers are measured against from here on.
Distance(pts) == IF Len(pts) >= 2 THEN Abs(pts[1] - pts[2]) ELSE 0
Middle(pts) == IF Len(pts) >= 2 THEN (pts[1] + pts[2]) \div 2 ELSE pts[1]
Begun(h, v, pts, bg) ==
    [h EXCEPT !.pts = pts, !.jolted = FALSE,
              !.gesture = [on |-> TRUE, view |-> v, dist |-> Distance(pts), mid |-> Middle(pts), start |-> pts[1], moved |-> h.gesture.moved, bg |-> bg]]
\* Where the fingers have taken the view that the gesture began with.
WebFollow(g, pts) ==
    IF Len(pts) >= 2
    THEN LET z == ZoomAt(g.view, (g.view.s * Distance(pts)) \div g.dist, g.mid) IN ClampPan([z EXCEPT !.x = @ + Middle(pts) - g.mid])
    ELSE IF IsFit(g.view) THEN g.view ELSE ClampPan([g.view EXCEPT !.x = @ + pts[1] - g.start])
\* The phone pinches about the middle of the picture, and moves it by what the hand has moved in all.
MobileFollow(g, pts, dx) ==
    IF Len(pts) >= 2 THEN MobileApply((g.view.s * Distance(pts)) \div g.dist, g.view.x) ELSE MobileApply(g.view.s, g.view.x + dx - g.start)
Follow(h) == IF ui.app = "web" THEN WebFollow(h.gesture, h.pts) ELSE MobileFollow(h.gesture, h.pts, h.dx)

\* The phone bases its gesture anew when the number of fingers changes (a finger that stays trembles: a move
\* of nothing comes before the next finger).
PointerDown(p, bg) ==
    /\ Handling /\ Len(ui.hands.pts) < 2 /\ \A i \in DOMAIN ui.hands.pts : ui.hands.pts[i] # p
    /\ LET h == IF ui.hands.pts = <<>> THEN Fingers ELSE ui.hands
           started == Begun(h, Effective, Append(h.pts, p), IF h.gesture.on THEN h.gesture.bg ELSE bg) IN
       ui' = [ui EXCEPT !.hands = IF ui.app = "web" THEN started ELSE [started EXCEPT !.gesture.start = h.dx]]
    /\ calls' = Act(calls) /\ UNCHANGED server
Moved(h, i, p) ==
    LET by == p - h.pts[i] IN
    [h EXCEPT !.pts[i] = p, !.gesture.moved = TRUE, !.dragged = TRUE, !.dx = IF Len(h.pts) >= 2 THEN @ + by \div 2 ELSE @ + by]
PointerMove(i, p) ==
    /\ Handling /\ i \in DOMAIN ui.hands.pts /\ ui.hands.gesture.on
    /\ \A j \in DOMAIN ui.hands.pts : ui.hands.pts[j] # p
    /\ LET h == Moved(ui.hands, i, p) IN ui' = Applied([ui EXCEPT !.hands = [h EXCEPT !.jolted = FALSE]], Follow(h))
    /\ calls' = Act(calls) /\ UNCHANGED server
\* A tap on the background closes the web's Lightbox; a drag does not.
WithoutFinger(pts, i) == IF Len(pts) = 1 THEN <<>> ELSE <<pts[3 - i]>>
Tapped(h) == ui.app = "web" /\ h.gesture.on /\ ~h.gesture.moved /\ h.gesture.bg
PointerUp(i) ==
    /\ HasImage /\ i \in DOMAIN ui.hands.pts
    /\ LET h == ui.hands  rest == WithoutFinger(h.pts, i) IN
       ui' = IF rest = <<>>
             THEN IF Tapped(h) THEN [Shut(ui) EXCEPT !.shut = h.dragged] ELSE [ui EXCEPT !.hands = Fingers]
             ELSE LET b == Begun(h, Effective, rest, h.gesture.bg) IN
                  [ui EXCEPT !.hands = IF ui.app = "web" THEN b ELSE [b EXCEPT !.gesture.start = h.dx]]
    /\ UNCHANGED <<server, calls>>
\* The window changes its size; a view of the web's keeps its scale.
Resize ==
    /\ BoxShown /\ Troubling /\ ui.view = NoView /\ ui.app = "web"
    /\ ui' = Jolt([ui EXCEPT !.stage = 24 - @])
    /\ calls' = Trouble(calls) /\ UNCHANGED server

-----------------------------------------------------------------------------
(* The photos of a venue. *)

\* stepIndex: round and round, and never outside even when there are fewer photos than before.
StepIndex(index, delta, count) == IF count = 0 THEN 0 ELSE (Between(index, 0, count - 1) + delta + count) % count
Current == StepIndex(ui.photo.index, 0, ui.photo.count)
CounterText == IF ui.photo.count < 2 THEN <<>> ELSE <<Current + 1, ui.photo.count>>
SwipeDelta(from, to) == IF Abs(to - from) < 6 THEN 0 ELSE IF to < from THEN 1 ELSE -1
Gallery == ui.app = "gallery"
Go(delta) ==
    /\ Gallery /\ Acting /\ ui.photo.count > 1
    /\ ui' = [ui EXCEPT !.photo.index = StepIndex(@, delta, ui.photo.count)]
    /\ calls' = Act(calls) /\ UNCHANGED server
PickPhoto(i) ==
    /\ Gallery /\ Acting /\ i < ui.photo.count /\ ui.photo.count > 1
    /\ ui' = [ui EXCEPT !.photo.index = i]
    /\ calls' = Act(calls) /\ UNCHANGED server
\* A touch from one place to another, a click that may come after it; a swipe is no click.
Touch(from, to) ==
    /\ Gallery /\ Acting /\ ui.photo.count > 0
    /\ LET d == SwipeDelta(from, to)  swipes == d # 0 /\ ui.photo.count > 1 IN
       ui' = [ui EXCEPT !.photo.swiped = swipes, !.photo.last = IF d = 0 THEN "tap" ELSE IF swipes THEN "swipe" ELSE "none",
                        !.photo.index = IF swipes THEN StepIndex(@, d, ui.photo.count) ELSE @]
    /\ calls' = Act(calls) /\ UNCHANGED server
Click ==
    /\ Gallery /\ Acting /\ ui.photo.count > 0 /\ ~ui.photo.full
    /\ ui' = [ui EXCEPT !.photo.swiped = FALSE, !.photo.full = ~ui.photo.swiped, !.photo.last = "none",
                        !.photo.opened = ~ui.photo.swiped /\ ui.photo.last = "swipe"]
    /\ calls' = Act(calls) /\ UNCHANGED server
CloseFull ==
    /\ Gallery /\ ui.photo.full
    /\ ui' = [ui EXCEPT !.photo.full = FALSE]
    /\ UNCHANGED <<server, calls>>
PhotosChange ==
    /\ Gallery /\ Troubling
    /\ \E n \in 0 .. 2 : ui' = [ui EXCEPT !.photo.count = n]
    /\ calls' = Trouble(calls) /\ UNCHANGED server

-----------------------------------------------------------------------------
\* The list behind the thumbnail is fetched again, and with it a newly signed address.
NewInitial ==
    /\ ~Gallery /\ Troubling /\ ui.initial # None /\ ui.initial # server.now
    /\ LET u == [ui EXCEPT !.initial = server.now, !.thumb.initial = server.now] IN
       ui' = [u EXCEPT !.box.initial = IF ui.open THEN (IF ui.thumb.retried THEN (IF ui.data = None THEN server.now ELSE ui.data) ELSE server.now) ELSE @]
    /\ calls' = Trouble(calls) /\ UNCHANGED server
\* Pictures and addresses arrive within a tick.
Tick ==
    /\ ~Gallery /\ server.now < MaxTime /\ ~calls.get /\ ~ThumbPending /\ ~BoxPending /\ ui.hands.pts = <<>>
    /\ server' = [server EXCEPT !.now = @ + 1]
    /\ UNCHANGED <<ui, calls>>

Next ==
    \/ UrlArrives \/ NoScreenshot \/ UrlFails \/ ThumbImage \/ BoxImage \/ RetryThumb \/ RetryBox \/ OpenViewer \/ CloseViewer
    \/ ZoomIn \/ ZoomOut \/ FitPressed \/ Resize \/ Click \/ CloseFull \/ PhotosChange \/ NewInitial \/ Tick
    \/ \E p \in Places : WheelTurns(p) \/ ArrowKey(p) \/ (\E bg \in BOOLEAN : PointerDown(p, bg)) \/ (\E i \in 1 .. 2 : PointerMove(i, p))
    \/ \E i \in 1 .. 2 : PointerUp(i) \/ PickPhoto(i)
    \/ \E d \in {-1, 1} : Go(d)
    \/ \E from, to \in Places : Touch(from, to)

Spec == Init /\ [][Next]_vars

-----------------------------------------------------------------------------
Urls == 0 .. MaxTime
Boxes == [retried : BOOLEAN, failed : BOOLEAN, tried : Urls, loaded : Urls, initial : Urls]
TypeOK ==
    /\ server.now \in 1 .. MaxTime /\ server.exists \in BOOLEAN
    /\ ui.app \in {"web", "mobile", "gallery"} /\ ui.initial \in Urls /\ ui.data \in Urls /\ ui.asks \in BOOLEAN
    /\ ui.thumb \in Boxes /\ ui.box \in Boxes /\ ui.stage \in {8, 16} /\ ui.view.s \in 0 .. 8 /\ ui.view.x \in -28 .. 28
    /\ Len(ui.hands.pts) <= 2 /\ ui.photo.index \in 0 .. 2 /\ ui.photo.count \in 0 .. 3
    /\ calls.acts \in 0 .. MaxActs /\ calls.trouble \in 0 .. MaxTrouble

\* An address that has run out is asked for again and the picture comes: unless a request failed, nobody who
\* looks at a screenshot that exists is told that it cannot be shown.  (The phone's viewer can give up on an old
\* address that the cache still holds, while a new one is on its way or has come: one press brings it.)
NewerAddress == ui.app = "mobile" /\ (calls.get \/ ui.box.tried # ui.data)
ExpiryHeals == server.exists /\ calls.trouble = 0 => ~ui.thumb.failed /\ (ui.box.failed => NewerAddress)
\* The picture is never smaller than the screen or larger than four times that, and its edge never inside.
InView == HasImage => Effective.s \in FitScale(ui.stage) .. FitScale(ui.stage) * MaxFactor /\ Abs(Effective.x) <= Edge(Effective.s)
\* The picture is where the fingers took it: nothing jumps when a finger is put down or lifted (a wheel, key
\* or button in the middle of a gesture is undone by the next move).
FollowsTheFingers ==
    HasImage /\ ui.hands.gesture.on /\ ~ui.hands.jolted =>
        Effective = ClampPan(LET v == Follow(ui.hands) IN IF IsFit(v) THEN Fit ELSE v)
\* A drag or a pinch does not close the viewer.
DragDoesNotClose == ~ui.shut
\* The photo shown is one that there is, the counter says which, and a swipe opens nothing.
PhotoIsThere ==
    /\ ui.photo.count > 0 => Current < ui.photo.count /\ (ui.photo.count > 1 => CounterText = <<Current + 1, ui.photo.count>>)
    /\ ~ui.photo.opened

\* All of these.
Faithful == ExpiryHeals /\ InView /\ FollowsTheFingers /\ DragDoesNotClose /\ PhotoIsThere
=============================================================================
