-------------------------- MODULE MCPaymentReview --------------------------
(***************************************************************************)
(* Two proofs of one booking, and as many requests at once as the cfg      *)
(* says.  A history variable remembers whether the server ever stopped     *)
(* between two commits: what holds only without that is stated with it.    *)
(***************************************************************************)
EXTENDS PaymentReview, TLC

VARIABLE crashed

TwoProofs == {1, 2}
UpToThree == 1 .. 3
RequestSymmetry == Permutations(Requests)

MCInit == Init /\ crashed = FALSE
MCNext == Next /\ crashed' = (crashed \/ \E r \in Requests : Crash(r))
MCSpec == MCInit /\ [][MCNext]_<<vars, crashed>>

-----------------------------------------------------------------------------
\* As long as the server has not stopped between an approval's two commits, everything the
\* owner accepted on an advance is credited or on the refunds list (confirm_booking's cap,
\* queue_refund's second commit).
AcceptedMoneyIsKept == ~crashed => AcceptedMoneyIsAccountedFor

=============================================================================
