-------------------------- MODULE MCCourtBookings --------------------------
(* Small instances of CourtBookings for TLC: a court with a few grid slots. *)
EXTENDS CourtBookings, TLC

TwoSlots == {1, 2}          \* two bookable slots after the one in progress at 0
OneSlot == {1}
BookingSymmetry == Permutations(Bookings)

=============================================================================
