----------------------------- MODULE Discovery -----------------------------
(***************************************************************************)
(* Finding a venue.  On the web all filters live in the address of the     *)
(* search page, which the server renders; on the phone in the route's      *)
(* parameters, with a sheet that has a draft of its own.  Filters, route   *)
(* and request are functions of the same keys; the sport and the area      *)
(* stand for the setting and the amenities as well, which are set and      *)
(* cleared each on its own.                                                *)
(***************************************************************************)
EXTENDS Integers, Sequences

CONSTANTS
    MaxActs,      \* bound: what the player does
    MaxTrouble    \* bound: failed pages, refused or failed locations

VARIABLES
    ui,       \* the address, the page on its way, the drafts, what the player has asked for
    server,   \* whether there is any venue
    calls     \* the location being asked for, and what has been used of the bounds

vars == <<ui, server, calls>>

Keys == {"sport", "area", "near", "min", "max", "date", "start", "dur", "sort"}
None == 0
ByPrice == 1
ByDistance == 2
NoSuchDay == 8
NotADate == 9
Days == 1 .. 2
With(f, g) == [k \in DOMAIN f |-> IF k \in DOMAIN g THEN g[k] ELSE f[k]]
Empty == [k \in Keys |-> None]
If(test, v) == IF test THEN v ELSE None

-----------------------------------------------------------------------------
(* The web's address. *)

ParseFilters(raw) ==
    With(raw, [date  |-> If(raw.date # NotADate, raw.date),
               start |-> If(raw.date # None, raw.start),
               dur   |-> If(raw.start # None, raw.dur),
               sort  |-> If(raw.sort = ByDistance => raw.near # None, raw.sort)])
FiltersToParams(f) ==
    With(f, [start |-> If(f.date # None, f.start), dur |-> If(f.start # None, f.dur)])
FiltersToApiParams(f) == f
Price(f) == f.min # None \/ f.max # None
Chips(f) ==
    {k \in {"sport", "area", "near"} : f[k] # None} \cup (IF Price(f) THEN {"price"} ELSE {}) \cup (IF f.date # None THEN {"when"} ELSE {})
\* activeFilterCount, by which the page says whether filters are why nothing was found.
Filtered(f) == f.sport # None \/ f.area # None \/ f.near # None \/ Price(f) \/ f.date # None
\* What clearing a chip changes.
ChipClears(f, chip) ==
    CASE chip = "price" -> [min |-> None, max |-> None]
      [] chip = "when" -> [date |-> None, start |-> None, dur |-> None]
      [] chip = "near" -> [near |-> None, sort |-> If(f.sort # ByDistance, f.sort)]
      [] OTHER -> [k \in {chip} |-> None]

(* The server. *)

Accepts(q) ==
    /\ q.date # None => q.date \in Days
    /\ q.start # None => q.date # None
    /\ q.dur # None => q.start # None
    /\ q.min >= 0 /\ q.max >= 0
    /\ q.min # None /\ q.max # None => q.min <= q.max
    /\ q.sort = ByDistance => q.near # None
Narrows(q) ==
    {k \in {"sport", "area", "near"} : q[k] # None} \cup (IF Price(q) THEN {"price"} ELSE {}) \cup (IF q.date # None THEN {"when"} ELSE {})
ListVenues(q) ==
    IF ~Accepts(q) THEN {"refused"} ELSE IF ~server.any THEN {"empty"} ELSE IF Narrows(q) = {} THEN {"list"} ELSE {"list", "empty"}

(* The phone's route. *)

ParseRoute(raw) == With(raw, [date |-> If(raw.date # NotADate, raw.date)])
FiltersToRoute(f) ==
    With(f, [start |-> If(f.date # None, f.start), dur |-> If(f.date # None /\ f.start # None, f.dur)])
FilterProblems(f) == f.min < 0 \/ f.max < 0 \/ (f.min # None /\ f.max # None /\ f.min > f.max) \/ (f.start # None /\ f.date = None)
WithTime(f) == f.date # None /\ f.start # None
FiltersToQuery(f) ==
    With(f, [sort |-> If(f.near # None, ByDistance), date |-> If(WithTime(f), f.date), start |-> If(WithTime(f), f.start), dur |-> If(WithTime(f), f.dur)])
ActiveFilterChips(f) ==
    {k \in {"sport", "area", "near"} : f[k] # None} \cup (IF Price(f) THEN {"price"} ELSE {})
        \cup (IF WithTime(f) THEN {"when"} ELSE IF f.date # None THEN {"date"} ELSE {})
RouteChipClears(chip) ==
    CASE chip = "price" -> [min |-> None, max |-> None]
      [] chip \in {"when", "date"} -> [date |-> None, start |-> None, dur |-> None]
      [] OTHER -> [k \in {chip} |-> None]

-----------------------------------------------------------------------------
\* Links of the site (the home page, a venue's tags, a saved search), and addresses changed by hand.
Links ==
    {With(Empty, g) : g \in
        { [sport |-> None], [area |-> 1], [sport |-> 1, date |-> 1], [near |-> 1, sort |-> ByDistance],
          [date |-> 1, start |-> 1, dur |-> 1], [min |-> 1, max |-> 2, sort |-> ByPrice],
          [start |-> 1, dur |-> 1], [date |-> NotADate, start |-> 1], [date |-> NoSuchDay], [min |-> 3, max |-> 1], [sort |-> ByDistance] }}
Nowhere == [at |-> "nowhere"]
Untyped == -1

\* An address the server takes, now and with a time added to its day.
FirstAnswer(app, raw) == raw.date # NoSuchDay /\ IF app = "web" THEN Accepts(FiltersToApiParams(ParseFilters(raw))) ELSE Accepts(FiltersToQuery(ParseRoute(raw)))
Init ==
    \E app \in {"web", "mobile"}, raw \in Links, any \in BOOLEAN, home \in BOOLEAN :
        /\ home => app = "mobile" /\ raw = Empty
        /\ server = [any |-> any]
        /\ ui = [app |-> app, page |-> IF home THEN "home" ELSE "search", url |-> raw, past |-> <<>>, going |-> IF app = "web" THEN raw ELSE Nowhere,
                 result |-> "none", good |-> FirstAnswer(app, raw), wish |-> ParseFilters(raw), sure |-> TRUE,
                 min |-> Untyped, max |-> Untyped, bad |-> FALSE, stored |-> [slug |-> None, href |-> Empty], slug |-> None,
                 home |-> Empty, sheet |-> FALSE, draft |-> Empty, promised |-> Nowhere]
        /\ calls = [geo |-> Nowhere, acts |-> 0, trouble |-> 0]

Acting == calls.acts < MaxActs
Act(c) == [c EXCEPT !.acts = @ + 1]
Troubling == calls.trouble < MaxTrouble
Trouble(c) == [c EXCEPT !.trouble = @ + 1]
Pending == ui.going # Nowhere

-----------------------------------------------------------------------------
(* The web's filter bar. *)

\* The page as rendered last: the bar reads the address of the page on screen, not of the one on its way.
Filters == ParseFilters(ui.url)
\* apply: the address goes out; set: over the filters of this render.
Apply(u, f) == [u EXCEPT !.going = FiltersToParams(f)]
Set(u, base, patch) == Apply(u, With(base, patch))
\* What the player asks for: the change, on top of all that was asked for before.
Wishes(u, patch) == [u EXCEPT !.wish = With(@, patch), !.sure = @ /\ ~Pending]

\* A click anywhere else first takes the price boxes for filled in.
OnBar == ui.app = "web" /\ ui.page = "search" /\ ui.result # "none" /\ Acting /\ (ui.bad \/ (ui.min = Untyped /\ ui.max = Untyped))
Sets(u, patch) == ui' = Wishes(Set(u, Filters, patch), patch) /\ calls' = Act(calls) /\ UNCHANGED server
PickSport == OnBar /\ \E v \in {None, 1} : Sets(ui, [sport |-> v])
PickArea == OnBar /\ \E v \in {None, 1} : Sets(ui, [area |-> v])
PickPreset == OnBar /\ \E v \in {None, 2} : Sets([ui EXCEPT !.bad = FALSE, !.min = Untyped, !.max = Untyped], [min |-> None, max |-> v])
PickDate == OnBar /\ \E v \in {None} \cup Days : Sets(ui, IF v = None THEN [date |-> None, start |-> None, dur |-> None] ELSE [date |-> v])
PickStart == OnBar /\ Filters.date # None /\ \E v \in {None, 1} : Sets(ui, [start |-> v, dur |-> If(v # None, Filters.dur)])
PickDuration == OnBar /\ Filters.date # None /\ Filters.start # None /\ \E v \in {None, 1} : Sets(ui, [dur |-> v])
PickSort == OnBar /\ \E v \in {None, ByPrice, ByDistance} : (v = ByDistance => Filters.near # None) /\ Sets(ui, [sort |-> v])
ClearChip == OnBar /\ \E chip \in Chips(Filters) : Sets(ui, ChipClears(Filters, chip))
\* "Clear all" needs nothing of what was there before.
ClearAll ==
    /\ OnBar /\ Filtered(Filters)
    /\ ui' = [Apply(ui, Empty) EXCEPT !.wish = Empty, !.sure = TRUE]
    /\ calls' = Act(calls) /\ UNCHANGED server

TypePrice ==
    /\ ui.app = "web" /\ ui.page = "search" /\ ui.result # "none" /\ Acting
    /\ \E v \in {None, 1, 3}, box \in {"min", "max"} : ui' = [ui EXCEPT ![box] = v]
    /\ calls' = Act(calls) /\ UNCHANGED server
CommitPrice ==
    /\ ui.app = "web" /\ ui.page = "search" /\ ~ui.bad /\ (ui.min # Untyped \/ ui.max # Untyped)
    /\ LET lo == IF ui.min # Untyped THEN ui.min ELSE Filters.min
           hi == IF ui.max # Untyped THEN ui.max ELSE Filters.max
           done == [ui EXCEPT !.bad = FALSE, !.min = Untyped, !.max = Untyped] IN
       ui' = IF lo < 0 \/ hi < 0 \/ (lo # None /\ hi # None /\ lo > hi) THEN [ui EXCEPT !.bad = TRUE]
             ELSE IF lo # Filters.min \/ hi # Filters.max THEN Wishes(Set(done, Filters, [min |-> lo, max |-> hi]), [min |-> lo, max |-> hi])
             ELSE done
    /\ UNCHANGED <<server, calls>>
\* Another blur or Enter over a corrected box tries again.
RetypePrice ==
    /\ ui.bad /\ Acting
    /\ \E v \in {None, 1, 3}, box \in {"min", "max"} : ui' = [ui EXCEPT ![box] = v, !.bad = FALSE]
    /\ calls' = Act(calls) /\ UNCHANGED server

\* useMyLocation: the answer comes to the function of the render that asked.
UseMyLocation ==
    /\ OnBar /\ calls.geo = Nowhere
    /\ calls' = Act([calls EXCEPT !.geo = ui.url])
    /\ UNCHANGED <<ui, server>>
Near == [near |-> 1, sort |-> ByDistance]
LocationAnswers ==
    /\ ui.app = "web" /\ calls.geo # Nowhere /\ ui.page = "search"
    /\ ui' = [Wishes(Set(ui, ParseFilters(calls.geo), Near), Near) EXCEPT !.sure = @ /\ calls.geo = ui.url]
    /\ calls' = [calls EXCEPT !.geo = Nowhere]
    /\ UNCHANGED server
LocationFails ==
    /\ calls.geo # Nowhere /\ Troubling
    /\ calls' = Trouble([calls EXCEPT !.geo = Nowhere])
    /\ UNCHANGED <<ui, server>>

\* SearchPage: the server reads the address and asks for the venues; an error of any kind is "failed".
Came(u, url, result) == [u EXCEPT !.url = url, !.going = Nowhere, !.result = result]
SearchPage ==
    /\ ui.app = "web" /\ Pending
    /\ \E result \in ListVenues(FiltersToApiParams(ParseFilters(ui.going))) :
          ui' = [Came(ui, ui.going, result) EXCEPT !.past = IF ui.result = "none" THEN @ ELSE Append(@, ui.url)]
    /\ UNCHANGED <<server, calls>>
SearchPageFails ==
    /\ ui.app = "web" /\ Pending /\ Troubling
    /\ ui' = [Came(ui, ui.going, "failed") EXCEPT !.past = IF ui.result = "none" THEN @ ELSE Append(@, ui.url)]
    /\ calls' = Trouble(calls) /\ UNCHANGED server
\* The browser's Back takes back one change.
BrowserBack ==
    /\ ui.app = "web" /\ ui.page = "search" /\ ~Pending /\ ui.past # <<>> /\ Acting
    /\ LET before == ui.past[Len(ui.past)] IN
       \E result \in ListVenues(FiltersToApiParams(ParseFilters(before))) :
          ui' = [Came(ui, before, result) EXCEPT !.past = SubSeq(@, 1, Len(@) - 1), !.wish = ParseFilters(before), !.sure = TRUE]
    /\ calls' = Act(calls) /\ UNCHANGED server

\* A card leads to its venue and remembers the search for it; a venue opened otherwise has none.
Venues == {1, 2}
VenueCard ==
    /\ OnBar /\ ~Pending /\ ui.result = "list"
    /\ \E v \in Venues : ui' = [ui EXCEPT !.page = "venue", !.slug = v, !.stored = [slug |-> v, href |-> ui.url]]
    /\ calls' = Act([calls EXCEPT !.geo = Nowhere]) /\ UNCHANGED server
OtherVenue ==
    /\ ui.page = "venue" /\ Acting
    /\ \E v \in Venues \ {ui.slug} : ui' = [ui EXCEPT !.slug = v, !.wish = Empty, !.sure = v # ui.stored.slug]
    /\ calls' = Act(calls) /\ UNCHANGED server
ResolveBackHref == IF ui.stored.slug = ui.slug THEN ui.stored.href ELSE Empty
BackToResults ==
    /\ ui.page = "venue"
    /\ ui' = [ui EXCEPT !.page = "search", !.going = ResolveBackHref, !.min = Untyped, !.max = Untyped, !.bad = FALSE]
    /\ UNCHANGED <<server, calls>>

-----------------------------------------------------------------------------
(* The phone. *)

OnPage(page) == ui.app = "mobile" /\ ui.page = page /\ ~ui.sheet /\ Acting
Does(u) == ui' = u /\ calls' = Act(calls) /\ UNCHANGED server
\* Opening, closing and applying count for nothing in the bound.
DoesFreely(u) == ui' = u /\ UNCHANGED <<server, calls>>
\* setParams writes over the keys it is given.
ApplyFilters(u, f) == [u EXCEPT !.url = With(@, FiltersToRoute(f))]
Kept == ParseRoute(ui.url)

\* FiltersSheet: opened, it starts over from the page's filters.
OpenSheet ==
    /\ ui.app = "mobile" /\ ui.page \in {"search", "home"} /\ ~ui.sheet
    /\ DoesFreely([ui EXCEPT !.sheet = TRUE, !.draft = IF ui.page = "home" THEN ui.home ELSE Kept, !.promised = Nowhere])
OnSheet == ui.app = "mobile" /\ ui.sheet /\ Acting
Patch(patch) == Does([ui EXCEPT !.draft = With(@, patch)])
SheetSport == OnSheet /\ Patch([sport |-> 1 - ui.draft.sport])
SheetArea == OnSheet /\ ui.page = "search" /\ Patch([area |-> 1 - ui.draft.area, near |-> None])
SheetDate == OnSheet /\ \E v \in {None} \cup Days : Patch(IF v = None THEN [date |-> None, start |-> None, dur |-> None] ELSE [date |-> v])
SheetTime == OnSheet /\ ui.draft.date # None /\ \E v \in {None, 1} : Patch(IF v = None THEN [start |-> None, dur |-> None] ELSE [start |-> v])
SheetDuration == OnSheet /\ ui.draft.date # None /\ ui.draft.start # None /\ \E v \in {None, 1} : Patch([dur |-> v])
SheetPrice == OnSheet /\ ui.page = "search" /\ \E v \in {None, 1, 3}, box \in {"min", "max"} : Patch([k \in {box} |-> v])
SheetClear == OnSheet /\ Does([ui EXCEPT !.draft = Empty])
SheetNear ==
    /\ OnSheet /\ ui.page = "search"
    /\ IF ui.draft.near # None THEN Patch([near |-> None])
       ELSE calls.geo = Nowhere /\ calls' = Act([calls EXCEPT !.geo = Empty]) /\ UNCHANGED <<ui, server>>
\* The answer goes into the draft there is by then.
SheetLocated ==
    /\ ui.app = "mobile" /\ calls.geo # Nowhere
    /\ ui' = [ui EXCEPT !.draft = With(@, [near |-> 1, area |-> None])]
    /\ calls' = [calls EXCEPT !.geo = Nowhere] /\ UNCHANGED server
SheetClose == ui.sheet /\ DoesFreely([ui EXCEPT !.sheet = FALSE])

\* search: from the home page to a search page of its own.
Search(u, f) == [u EXCEPT !.page = "search", !.url = With(Empty, FiltersToRoute(f)), !.good = TRUE]
Promise(u, f) == [u EXCEPT !.promised = FiltersToQuery(f)]
SheetApply ==
    /\ ui.sheet /\ ~FilterProblems(ui.draft)
    /\ DoesFreely(Promise(IF ui.page = "home" THEN Search([ui EXCEPT !.sheet = FALSE, !.home = ui.draft], ui.draft)
                    ELSE ApplyFilters([ui EXCEPT !.sheet = FALSE], ui.draft), ui.draft))
SportTile == OnPage("home") /\ Does(LET f == With(ui.home, [sport |-> 1]) IN Promise(Search(ui, f), f))
SeeAll == OnPage("home") /\ Does(Promise(Search(ui, Empty), Empty))
SearchGo == OnPage("home") /\ Does(Promise(Search(ui, ui.home), ui.home))
SearchBack == OnPage("search") /\ Does([ui EXCEPT !.page = "home", !.promised = Nowhere])

\* The search page's own buttons.
RemoveChip ==
    /\ OnPage("search")
    /\ \E chip \in ActiveFilterChips(Kept) : LET f == With(Kept, RouteChipClears(chip)) IN Does(Promise(ApplyFilters(ui, f), f))
NextDay == OnPage("search") /\ Kept.date \in Days /\ Kept.date + 1 \in Days /\ LET f == With(Kept, [date |-> Kept.date + 1]) IN Does(Promise(ApplyFilters(ui, f), f))
FewerFilters == OnPage("search") /\ ActiveFilterChips(Kept) \ {"sport"} # {} /\ LET f == With(Empty, [sport |-> Kept.sport]) IN Does(Promise(ApplyFilters(ui, f), f))

Next ==
    \/ PickSport \/ PickArea \/ PickPreset \/ PickDate \/ PickStart \/ PickDuration \/ PickSort \/ ClearChip \/ ClearAll
    \/ TypePrice \/ CommitPrice \/ RetypePrice \/ UseMyLocation \/ LocationAnswers \/ LocationFails
    \/ SearchPage \/ SearchPageFails \/ BrowserBack \/ VenueCard \/ OtherVenue \/ BackToResults
    \/ OpenSheet \/ SheetSport \/ SheetArea \/ SheetDate \/ SheetTime \/ SheetDuration \/ SheetPrice \/ SheetClear \/ SheetNear \/ SheetLocated
    \/ SheetClose \/ SheetApply \/ SportTile \/ SeeAll \/ SearchGo \/ SearchBack \/ RemoveChip \/ NextDay \/ FewerFilters

Spec == Init /\ [][Next]_vars

-----------------------------------------------------------------------------
Values == -1 .. 9
TypeOK ==
    /\ ui.url \in [Keys -> Values] /\ ui.draft \in [Keys -> Values] /\ ui.home \in [Keys -> Values] /\ ui.wish \in [Keys -> Values]
    /\ ui.result \in {"none", "list", "empty", "refused", "failed"} /\ calls.acts \in 0 .. MaxActs /\ calls.trouble \in 0 .. MaxTrouble

WebRests == ui.app = "web" /\ ui.page = "search" /\ ~Pending
\* Once the page has come, the bar shows what the player asked for, change upon change, back from a venue
\* as well.  Not after a change made while another page was on its way, nor after a location that came
\* late: both are made from the filters of an older page; nor from an address the server refused.
ShowsTheWish == WebRests /\ ui.sure /\ ui.good => Filters = ui.wish
\* No filter the bar or the sheet can be brought to is one the server refuses, unless the address came so.
NeverRefused ==
    /\ WebRests /\ ui.good => ui.result # "refused"
    /\ ui.app = "mobile" /\ ui.good => Accepts(FiltersToQuery(Kept))
    /\ ui.app = "mobile" /\ ui.good /\ ui.sheet /\ ~FilterProblems(ui.draft) => Accepts(FiltersToQuery(ui.draft))
\* What narrows the list is told by a chip, and without one the place has no venues when none is shown; a
\* day without a time is a chip of the phone's that narrows nothing.
ChipsTell ==
    /\ WebRests /\ ui.good => Chips(Filters) = Narrows(FiltersToApiParams(Filters))
    /\ WebRests /\ ui.result = "empty" /\ ~Filtered(Filters) => ~server.any
    /\ ui.app = "mobile" => ActiveFilterChips(Kept) \ {"date"} = Narrows(FiltersToQuery(Kept))
\* The venues counted on the button are the venues shown after it.
CountIsKept == ui.app = "mobile" /\ ui.promised # Nowhere /\ ui.page = "search" => FiltersToQuery(Kept) = ui.promised
\* On the phone a place is an area or the player's own.
OnePlace == ui.app = "mobile" => Kept.near = None \/ Kept.area = None

Faithful == ShowsTheWish /\ NeverRefused /\ ChipsTell /\ CountIsKept /\ OnePlace

=============================================================================
