---------------------------- MODULE SlotCalendar ----------------------------
(***************************************************************************)
(* What the booking table of one court promises to everybody who books     *)
(* it, with no rows, requests or clock: a calendar on which claims own     *)
(* sets of slots.  A claim may lapse (a hold nobody paid for in time); a   *)
(* lapsed claim is still on the calendar, but it may be swept aside by the *)
(* very step that lets another claim in.  A claim that has not lapsed is   *)
(* never displaced: it leaves only by a step that gives its slots back.    *)
(*                                                                         *)
(* CourtBookings implements this specification.                            *)
(***************************************************************************)
CONSTANTS
    Claims,     \* everything that may ever ask for slots
    Slots       \* the slots of the court

VARIABLES
    owned,      \* owned[c]: the slots claim c holds, {} when it holds none
    lapsed      \* the claims that hold slots but have run out of time

calendar == <<owned, lapsed>>

CalendarType ==
    /\ owned \in [Claims -> SUBSET Slots]
    /\ lapsed \subseteq Claims

(***************************************************************************)
(* No slot ever has two owners.                                            *)
(***************************************************************************)
Exclusive ==
    \A c, d \in Claims : c # d => owned[c] \cap owned[d] = {}

-----------------------------------------------------------------------------

Init ==
    /\ owned = [c \in Claims |-> {}]
    /\ lapsed = {}

\* Claim c takes the slots S, sweeping aside the lapsed claims R in the same step.
Take(c, S, R) ==
    /\ owned[c] = {}
    /\ R \subseteq lapsed \ {c}
    /\ \A d \in Claims \ R : owned[d] \cap S = {}
    /\ owned' = [d \in Claims |-> IF d = c THEN S
                                  ELSE IF d \in R THEN {} ELSE owned[d]]
    /\ lapsed' \in {lapsed \ R, (lapsed \ R) \cup {c}}

\* The claims R give their slots back.
Release(R) ==
    /\ owned' = [d \in Claims |-> IF d \in R THEN {} ELSE owned[d]]
    /\ lapsed' = lapsed \ R

\* Time runs out for the claims R.
Lapse(R) ==
    /\ \A c \in R : owned[c] # {}
    /\ lapsed' = lapsed \cup R
    /\ UNCHANGED owned

\* A claim is paid for: from now on it cannot be swept aside.
Secure(c) ==
    /\ lapsed' = lapsed \ {c}
    /\ UNCHANGED owned

Next ==
    \/ \E c \in Claims, S \in SUBSET Slots, R \in SUBSET Claims : Take(c, S, R)
    \/ \E R \in SUBSET Claims : Release(R) \/ Lapse(R)
    \/ \E c \in Claims : Secure(c)

Spec == Init /\ [][Next]_calendar

=============================================================================
