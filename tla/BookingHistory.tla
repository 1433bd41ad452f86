--------------------------- MODULE BookingHistory ---------------------------
(***************************************************************************)
(* The owner's booking history: a page of the web whose filters live in    *)
(* the address, and a screen of the phone that keeps them to itself and    *)
(* loads page after page.                                                  *)
(*                                                                         *)
(* A change of the address is a navigation: the page goes on with the old  *)
(* filters until it lands.  data is the last answer shown and says which   *)
(* question it answers; on the phone it is the pages loaded so far.        *)
(* Answers to earlier questions, which the query cache keeps, are left     *)
(* out: they are shown only until the answer to the same question.         *)
(***************************************************************************)
EXTENDS OwnerRows, Sequences

LOCAL INSTANCE SequencesExt

CONSTANTS
    PageSize, FocusSize,  \* rows on a page, and on the one page a linked booking is looked for
    MaxActs,              \* bound: filters changed, pages turned, bookings marked
    MaxTrouble            \* bound: answers lost, changes somebody else makes

VARIABLES
    ui,       \* the page
    server,   \* the bookings
    calls     \* the requests in progress and what has been used of the bounds

vars == <<ui, server, calls>>

Today == 2
DayOf == <<1, 2, 2>>     \* the bookings' days
Named == {1, 3}          \* the ones the search text finds
Links == {0, 1}          \* no link, or a link to one booking

\* presetRange of the two apps: today, yesterday, and the days of this week, which stand for the month's.
WebPresets == {[from |-> Today, to |-> Today], [from |-> Today - 1, to |-> Today - 1], [from |-> 1, to |-> Today]}
MobilePresets == WebPresets
DefaultFilters == [from |-> Today, to |-> Today, status |-> "all", q |-> "", page |-> 1, booking |-> 0]
NoNav == [to |-> 0]
NoTimer == [q |-> "", of |-> NoNav]
NoRange == [start |-> 0, end |-> 0]
NoMark == [booking |-> 0, want |-> "none"]

-----------------------------------------------------------------------------
(* The server's answer. *)

RowSeq(b, st) ==
    <<MainRow(b, st, TRUE)>> \o IF st \in {"refunding", "refunded"} THEN <<RefundRow(b, st, TRUE)>> ELSE <<>>
AllRows(s) == RowSeq(3, s.st[3]) \o RowSeq(2, s.st[2]) \o RowSeq(1, s.st[1])

\* _history_subquery and its order: the latest first.
Listed(s, k) ==
    SelectSeq(AllRows(s), LAMBDA r : /\ DayOf[r.booking] \in k.from .. k.to
                                     /\ k.q = "" \/ r.booking \in Named
                                     /\ k.status = "all" \/ Passes(r, k.status))

Least(m, n) == IF m < n THEN m ELSE n
Answer(s, k) ==
    LET all == Listed(s, k) IN
    [of |-> k, total |-> Len(all), ver |-> s.ver,
     rows |-> SubSeq(all, (k.page - 1) * k.size + 1, Least(k.page * k.size, Len(all)))]

-----------------------------------------------------------------------------
(* Filters and the address. *)

BuildEachDate(f) == [k \in {k \in DOMAIN f : f[k] # DefaultFilters[k]} |-> f[k]]
\* buildHistoryQuery: only what is not the default, the two dates together.
Build(f) ==
    LET dates == IF f.from = Today /\ f.to = Today THEN {} ELSE {"from", "to"}
        other == {k \in {"status", "q", "page", "booking"} : f[k] # DefaultFilters[k]}
    IN  [k \in dates \cup other |-> f[k]]

\* parseHistoryQuery and normaliseRange: one date alone is that day, two the wrong way round are turned.
Parse(qs) ==
    LET Get(k) == IF k \in DOMAIN qs THEN qs[k] ELSE DefaultFilters[k]
        f == IF "from" \in DOMAIN qs THEN qs["from"] ELSE Get("to")
        t == IF "to" \in DOMAIN qs THEN qs["to"] ELSE f
    IN  [from |-> Least(f, t), to |-> IF f <= t THEN t ELSE f, status |-> Get("status"), q |-> Get("q"),
         page |-> Get("page"), booking |-> Get("booking")]

\* reqPage and reqSize: a linked booking is looked for on one long page.
WebKey(f) == [from |-> f.from, to |-> f.to, status |-> f.status, q |-> f.q,
              page |-> IF f.booking = 0 THEN f.page ELSE 1, size |-> IF f.booking = 0 THEN PageSize ELSE FocusSize]
MobileKey(f) == [from |-> f.from, to |-> f.to, status |-> f.status, q |-> f.q, page |-> 1, size |-> PageSize]
Key(u) == IF u.app = "web" THEN WebKey(u.filters) ELSE MobileKey(u.filters)

PageCount(total) == IF total = 0 THEN 1 ELSE (total + PageSize - 1) \div PageSize

\* filtersActive: what "clear filters" would clear; the dates are not among it.
FiltersActive == ui.filters.status # "all" \/ ui.filters.q # ""

-----------------------------------------------------------------------------
(* What is on the screen. *)

HasData == ui.data # <<>>
Page(n) == ui.data[n]
Newest == ui.data[Len(ui.data)]
\* focusRows, shownRows.
OfBooking(rows, b) == SelectSeq(rows, LAMBDA r : r.booking = b)
Focused == HasData /\ ui.filters.booking # 0 /\ OfBooking(Page(1).rows, ui.filters.booking) # <<>>
WebRows == IF Focused THEN OfBooking(Page(1).rows, ui.filters.booking) ELSE Page(1).rows

\* allItems, and the one linked to, if need be by its own request.
Items(pages) == FlattenSeq([i \in DOMAIN pages |-> pages[i].rows])
MobileRows ==
    LET all == Items(ui.data) IN
    IF ui.filters.booking = 0 THEN all
    ELSE IF OfBooking(all, ui.filters.booking) # <<>> THEN OfBooking(all, ui.filters.booking) ELSE ui.detail

\* The table or the cards: HistoryPage shows rows only when it has some, an error only when it has none.
TableRows == IF HasData /\ ~ui.failed THEN WebRows ELSE <<>>
CardRows == IF HasData THEN MobileRows ELSE <<>>

\* firstShown and lastShown, and the two buttons under the table.
PagerShown == TableRows # <<>> /\ ~Focused
FirstShown == IF Page(1).total = 0 THEN 0 ELSE (ui.filters.page - 1) * PageSize + 1
LastShown == Least(Page(1).total, ui.filters.page * PageSize)
MayGoBack == PagerShown /\ ui.filters.page > 1
MayGoOn == PagerShown /\ ui.filters.page < PageCount(Page(1).total)

\* getNextPageParam.
HasNextPage == HasData /\ Newest.of.page * PageSize < Newest.total

Acting == calls.acts < MaxActs
Act(c) == [c EXCEPT !.acts = @ + 1]

Init ==
    \E app \in {"web", "mobile"}, link \in Links, first \in States, may \in (SUBSET Permissions) \ {{}} :
        LET s == [st |-> <<"booked", "refunding", first>>, may |-> may, ver |-> 0]
            f == IF link = 0 THEN DefaultFilters
                 ELSE [DefaultFilters EXCEPT !.booking = link, !.from = DayOf[link], !.to = DayOf[link]]
            u == [app |-> app, filters |-> f, nav |-> NoNav, box |-> "", seen |-> "", timer |-> NoTimer, range |-> NoRange,
                  data |-> <<>>, detail |-> <<>>, failed |-> FALSE, want |-> f, crossed |-> FALSE, blind |-> FALSE, own |-> [of |-> NoNav, ver |-> 0]]
        IN  /\ server = s /\ ui = u
            \* The bounds are spent on booked rows; of the others it is enough to see the list.
            /\ calls = [gets |-> {Answer(s, Key(u))}, mark |-> NoMark,
                        acts |-> IF first = "booked" /\ may = Permissions THEN 0 ELSE MaxActs,
                        trouble |-> 0]

-----------------------------------------------------------------------------
(* Changing filters. *)

\* A new question is asked at once; requests for earlier ones go on.
Asked(u) == IF \E g \in calls.gets : g.of = Key(u) THEN calls.gets ELSE calls.gets \cup {Answer(server, Key(u))}

\* update: the address of the filters the page shows now, changed, on the first page.
KeepsPage(f, patch) == [k \in DOMAIN f |-> IF k \in DOMAIN patch THEN patch[k] ELSE f[k]]
Patched(f, patch) == [k \in DOMAIN f |-> IF k \in DOMAIN patch THEN patch[k] ELSE IF k = "page" THEN 1 ELSE f[k]]

\* What a change asks for, and whether the one before it had been carried out.
Wanted(patch) ==
    /\ Acting
    /\ calls' = Act(calls)
    /\ LET next == Patched(ui.filters, patch) IN
       ui' = [ui EXCEPT !.nav = Build(next), !.want = next, !.range = NoRange,
                        !.crossed = @ \/ ui.nav # NoNav \/ ui.timer # NoTimer,
                        !.blind = \/ "page" \in DOMAIN patch /\ (@ \/ ui.nav # NoNav \/ Page(1).of # Key(ui))]
    /\ UNCHANGED server

\* On the phone the state changes and the list starts again.
SetHere(patch) ==
    /\ Acting
    /\ LET next == Patched(ui.filters, patch)
           u == [ui EXCEPT !.filters = next, !.range = NoRange, !.want = [next EXCEPT !.q = ui.want.q],
                           !.data = IF MobileKey(next) = Key(ui) THEN @ ELSE <<>>, !.failed = FALSE]
       IN  /\ ui' = u
           /\ calls' = [Act(calls) EXCEPT !.gets = IF u.data = <<>> THEN Asked(u) ELSE @]
    /\ UNCHANGED server

Change(patch) == IF ui.app = "web" THEN Wanted(patch) ELSE SetHere(patch)

\* MultiSelect; the phone's chips and sheets.
OtherStatus == {"all", "cancelled"} \ {ui.filters.status}
WebStatus == \E st \in OtherStatus : ui.app = "web" /\ Wanted([status |-> st])
MobileStatus == \E st \in OtherStatus : ui.app = "mobile" /\ SetHere([status |-> st])

\* detectPreset: the one that is highlighted.
Highlighted(r) == ui.filters.from = r.from /\ ui.filters.to = r.to
PickPreset ==
    \E r \in IF ui.app = "web" THEN WebPresets ELSE MobilePresets :
        ui.range = NoRange /\ ~Highlighted(r) /\ Change(r)

\* RangePopover opens on the dates shown, the phone's two calendars on the first of them.
OpenRange ==
    /\ Acting /\ ui.range = NoRange
    /\ ui' = [ui EXCEPT !.range = [start |-> ui.filters.from, end |-> ui.filters.to]]
    /\ UNCHANGED <<server, calls>>

\* pick: the first day of a new range, or the other end of it.
PickedWeb(r, d) ==
    IF r.end # 0 THEN [start |-> d, end |-> 0]
    ELSE IF d < r.start THEN [start |-> d, end |-> r.start] ELSE [r EXCEPT !.end = d]
WebRange ==
    /\ ui.app = "web" /\ ui.range # NoRange
    /\ \/ \E d \in 1 .. Today : /\ ui' = [ui EXCEPT !.range = PickedWeb(@, d)]
                                /\ UNCHANGED <<server, calls>>
       \/ Wanted([from |-> ui.range.start, to |-> IF ui.range.end = 0 THEN ui.range.start ELSE ui.range.end])

\* The first calendar moves the end along, the second the start.
MobileRange ==
    /\ ui.app = "mobile" /\ ui.range # NoRange
    /\ \E from \in 1 .. Today, to \in 1 .. Today :
          SetHere([from |-> Least(from, to), to |-> to])

\* onSearchChange: the timer keeps the page as it is at this keystroke.
Type ==
    \E v \in {"", "a"} :
        /\ Acting /\ v # ui.box
        /\ ui' = [ui EXCEPT !.box = v, !.want.q = v, !.timer = [q |-> v, of |-> ui.filters],
                            !.crossed = @ \/ ui.nav # NoNav]
        /\ calls' = Act(calls)
        /\ UNCHANGED server

\* The address is still the old one when seenQ is the new text, so the box first goes back to the old text.
WebTimer ==
    /\ ui.app = "web" /\ ui.timer # NoTimer
    /\ LET next == Patched(ui.timer.of, [q |-> ui.timer.q]) IN
       ui' = [ui EXCEPT !.timer = NoTimer, !.nav = Build(next), !.box = ui.filters.q, !.seen = ui.filters.q, !.blind = FALSE,
                        !.want.page = 1, !.crossed = @ \/ ui.nav # NoNav]
    /\ UNCHANGED <<server, calls>>

\* The phone's timer sets the search text alone.
MobileTimer ==
    /\ ui.app = "mobile" /\ ui.timer # NoTimer
    /\ LET u == [ui EXCEPT !.timer = NoTimer, !.filters.q = ui.timer.q, !.failed = FALSE,
                           !.data = IF ui.timer.q = ui.filters.q THEN @ ELSE <<>>]
       IN  /\ ui' = u
           /\ calls' = [calls EXCEPT !.gets = IF u.data = <<>> THEN Asked(u) ELSE @]
    /\ UNCHANGED server

\* clearFilters empties the box, but does not stop its timer.
ClearFilters ==
    /\ ui.app = "web" /\ FiltersActive
    /\ Wanted([status |-> "all", q |-> ""])

\* clearFocusHref, "Filter hatayen".
WebClearFocus ==
    /\ ui.app = "web" /\ ui.filters.booking # 0 /\ HasData
    /\ Wanted([booking |-> 0, status |-> "all", q |-> ""])
MobileClearFocus ==
    /\ ui.app = "mobile" /\ ui.filters.booking # 0 /\ HasData
    /\ ui' = [ui EXCEPT !.filters.booking = 0, !.want.booking = 0]
    /\ UNCHANGED <<server, calls>>

TurnPage ==
    /\ ui.app = "web"
    /\ \/ MayGoBack /\ Wanted([page |-> ui.filters.page - 1])
       \/ MayGoOn /\ Wanted([page |-> ui.filters.page + 1])

\* The navigation is there: the page asks anew, and keeps the old rows in the meantime.
Land ==
    /\ ui.nav # NoNav
    /\ LET f == Parse(ui.nav)
           moved == f.q # ui.seen
           u == [ui EXCEPT !.filters = f, !.nav = NoNav, !.seen = f.q, !.box = IF moved THEN f.q ELSE @,
                           !.failed = @ /\ WebKey(f) = Key(ui)]
       IN  /\ ui' = u
           /\ calls' = [calls EXCEPT !.gets = IF Key(u) = Key(ui) THEN @ ELSE Asked(u)]
    /\ UNCHANGED server

-----------------------------------------------------------------------------
(* Answers. *)

\* One page takes the place of the page before; on the phone the first page starts the list, the next one goes on.
Placed(g) == IF ui.app = "mobile" /\ g.of.page > 1 THEN ui.data \o <<g>> ELSE <<g>>
IsForAny(u, g) == TRUE
IsFor(u, g) ==
    IF u.app = "mobile" /\ g.of.page > 1
    THEN [g.of EXCEPT !.page = 1] = Key(u) /\ u.data # <<>> /\ u.data[Len(u.data)].of.page + 1 = g.of.page
    ELSE g.of = Key(u)
Waiting == \E g \in calls.gets : IsFor(ui, g)

Arrive ==
    \E g \in calls.gets :
        /\ ui' = IF IsFor(ui, g) THEN [ui EXCEPT !.data = Placed(g), !.failed = FALSE] ELSE ui
        /\ calls' = [calls EXCEPT !.gets = @ \ {g}]
        /\ UNCHANGED server

\* Without an answer to this question the rows of the one before go, too.
Lost ==
    \E g \in calls.gets :
        /\ calls.trouble < MaxTrouble
        /\ ui' = IF IsFor(ui, g) /\ (~HasData \/ Page(1).of # Key(ui))
                 THEN [ui EXCEPT !.failed = TRUE, !.data = <<>>] ELSE ui
        /\ calls' = [calls EXCEPT !.gets = @ \ {g}, !.trouble = @ + 1]
        /\ UNCHANGED server

\* The retry button, and the page coming back into view.
AskAgain ==
    /\ ~Waiting /\ ui.nav = NoNav
    /\ ui.app = "web" \/ Len(ui.data) <= 1
    /\ HasData => Page(1) # Answer(server, Key(ui))
    /\ calls' = [calls EXCEPT !.gets = @ \cup {Answer(server, Key(ui))}]
    /\ UNCHANGED <<ui, server>>

LoadMore ==
    /\ ui.app = "mobile" /\ HasNextPage /\ ui.filters.booking = 0
    /\ LET k == [Key(ui) EXCEPT !.page = Newest.of.page + 1] IN
       /\ ~\E g \in calls.gets : IsFor(ui, g)
       /\ calls' = [calls EXCEPT !.gets = @ \cup {Answer(server, k)}]
    /\ UNCHANGED <<ui, server>>

\* focusDetail: the linked booking by itself, when the list does not have it.
LinkedIsMissing ==
    /\ ui.app = "mobile" /\ HasData /\ ui.filters.booking # 0 /\ ui.detail = <<>>
    /\ OfBooking(Items(ui.data), ui.filters.booking) = <<>>
AskForLinked ==
    /\ LinkedIsMissing
    /\ ui' = [ui EXCEPT !.detail = RowSeq(ui.filters.booking, server.st[ui.filters.booking])]
    /\ UNCHANGED <<server, calls>>

-----------------------------------------------------------------------------
(* Marking a booking in the table. *)

\* BookingRowsTable: a table where there is room for one, cards where there is not.
WideOffers(row) == HistoryOffers(row, server.may)
NarrowOffers(row) == IF IsConfirmedBooked(row) \/ row.came THEN HistoryOffers(row, server.may) ELSE {}
TableOffers(row) == WideOffers(row) \cup NarrowOffers(row)

Mark ==
    \E i \in DOMAIN TableRows : \E want \in TableOffers(TableRows[i]) :
        /\ ui.app = "web" /\ Acting /\ calls.mark = NoMark
        /\ calls' = [Act(calls) EXCEPT !.mark = [booking |-> TableRows[i].booking, want |-> want]]
        /\ UNCHANGED <<ui, server>>

\* useCompletionFlow, useNoShowFlow: refetch does not wait for a request that was sent before.
Joins(gets, k) == gets
Restarted(gets, k) == {g \in gets : g.of # k}

Marked ==
    /\ calls.mark # NoMark
    /\ LET m == calls.mark
           takes == Accepts(m.want, server.st[m.booking], TRUE, server.may)
           k == Key(ui)
           left == Restarted(calls.gets, k)
       IN  \/ /\ takes
              /\ \E st \in Becomes(m.want) :
                 LET s == [server EXCEPT !.st[m.booking] = st, !.ver = @ + 1] IN
                 /\ server' = s
                 /\ ui' = [ui EXCEPT !.own = [of |-> k, ver |-> s.ver]]
                 /\ calls' = [calls EXCEPT !.mark = NoMark,
                              !.gets = IF \E g \in left : g.of = k THEN left ELSE left \cup {Answer(s, k)}]
           \/ /\ ~takes
              /\ calls' = [calls EXCEPT !.mark = NoMark]
              /\ UNCHANGED <<ui, server>>

Elsewhere ==
    /\ calls.trouble < MaxTrouble /\ server.st[3] = "booked"
    /\ \E st \in {"cancelled", "refunding", "no_show"} :
          server' = [server EXCEPT !.st[3] = st, !.ver = @ + 1]
    /\ ui' = ui
    /\ calls' = [calls EXCEPT !.trouble = @ + 1]

Next ==
    \/ WebStatus \/ MobileStatus \/ PickPreset \/ OpenRange \/ WebRange \/ MobileRange
    \/ Type \/ WebTimer \/ MobileTimer \/ ClearFilters \/ WebClearFocus \/ MobileClearFocus \/ TurnPage \/ Land
    \/ Arrive \/ Lost \/ AskAgain \/ LoadMore \/ AskForLinked
    \/ Mark \/ Marked \/ Elsewhere

Spec == Init /\ [][Next]_vars

-----------------------------------------------------------------------------
TypeOK ==
    /\ ui.filters.from \in 1 .. ui.filters.to /\ ui.filters.to \in 1 .. Today
    /\ ui.filters.page \in 1 .. 5 /\ ui.filters.booking \in Links
    /\ ui.box \in {"", "a"} /\ ui.failed \in BOOLEAN
    /\ server.st \in [1 .. 3 -> States]
    /\ calls.acts \in 0 .. MaxActs /\ calls.trouble \in 0 .. MaxTrouble

Settled == ui.nav = NoNav /\ ui.timer = NoTimer /\ ~Waiting

\* When nothing is under way the rows answer the filters on the screen: of several answers in flight
\* only the one to the last question counts.
RowsAnswerTheFilters == Settled /\ HasData => Page(1).of = Key(ui)

\* Every change of a filter is carried out and nothing else changes with it, unless it was made while
\* another one, or the pause after typing, was under way (history-page.tsx:58-64 sends the filters of
\* the keystroke, and a change before the address has moved starts from the old address).
FiltersStand ==
    ui.nav = NoNav /\ ui.timer = NoTimer /\ ~ui.crossed => ui.filters = ui.want /\ ui.box = ui.filters.q

\* The list is not empty because of the page number alone, unless rows went away since, or "next" was
\* pressed under the rows of an earlier filter: an empty list has no button back.
NoPageBeyondTheLast ==
    Settled /\ HasData /\ ui.app = "web" /\ ~ui.blind /\ server.ver = 0 =>
        ui.filters.page <= PageCount(Page(1).total)

\* "1 to 25 of 80" is said of the rows above it; of a linked booking that is not on its one long page it is not.
PagerTellsTheRows ==
    Settled /\ ui.app = "web" /\ PagerShown /\ ui.filters.booking = 0 =>
        LastShown - FirstShown + 1 = Len(TableRows)

\* A mark that was saved is in the table it was made in once that has its answer; the answers to other
\* questions, which the cache keeps for fresh for a while, do not know of it.
MarkIsShown ==
    Settled /\ HasData /\ ui.app = "web" /\ calls.trouble = 0 /\ Page(1).of = ui.own.of => Page(1).ver >= ui.own.ver

\* Whatever the table offers, the server would have accepted of the row as it was.
OffersWork ==
    ui.app = "web" => \A i \in DOMAIN TableRows : \A want \in TableOffers(TableRows[i]) :
        Accepts(want, TableRows[i].st, TableRows[i].ended, server.may)

\* Once there is nothing more to load, the phone has listed every row once, if none changed meanwhile.
EveryRowOnce ==
    ui.app = "mobile" /\ Settled /\ HasData /\ ~HasNextPage /\ server.ver = 0 =>
        Items(ui.data) = Listed(server, Key(ui))

\* A linked booking is on the screen, unless it is not among the first rows of its day.
LinkFindsBooking ==
    /\ ui.app = "mobile" /\ Settled /\ HasData /\ ui.filters.booking # 0 /\ ~LinkedIsMissing => MobileRows # <<>>
    /\ ui.app = "web" /\ Settled /\ HasData /\ ui.filters.booking # 0 /\ ui.want.status = "all" /\ ~ui.crossed
          /\ Page(1).total <= FocusSize => (Focused \/ DayOf[ui.filters.booking] \notin ui.filters.from .. ui.filters.to
                                                    \/ ui.filters.q # "")

Faithful ==
    /\ RowsAnswerTheFilters /\ FiltersStand /\ NoPageBeyondTheLast /\ PagerTellsTheRows
    /\ MarkIsShown /\ OffersWork /\ EveryRowOnce /\ LinkFindsBooking

=============================================================================
