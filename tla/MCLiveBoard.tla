---------------------------- MODULE MCLiveBoard ----------------------------
(* A table of three: seat 2 plays two partner commanders.  The thresholds   *)
(* are scaled down so that a few taps cross them, in either direction.      *)
EXTENDS LiveBoard

MCPartnerSeats == {2}
MCLifeDeltas   == {-3, 1}
MCPoisonDeltas == {2, -1}
MCCmdDeltas    == {2, -1}
MCSuppliedKeys == {<<2, 0>>, <<2, 1>>}   \* <<2, 0>> is unknown: it degrades
MCVersions     == 1 .. 6

=============================================================================
