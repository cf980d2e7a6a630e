----------------------- MODULE MCCombinedPendingTable -----------------------
(* A small instance of CombinedPendingTable for TLC: two short addresses   *)
(* for one slot, an extended one, and frames without a destination.        *)
EXTENDS CombinedPendingTable, TLC

MCAddresses ==
  {Short("pan", "a"), Short("pan", "b"), Extended("pan", "e"), NoAddress}
=============================================================================
