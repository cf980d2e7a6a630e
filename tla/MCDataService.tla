---------------------------- MODULE MCDataService ---------------------------
(* Small instances of DataService for TLC: one with a short and an         *)
(* extended address, one with an extended address in two PANs.             *)
EXTENDS DataService, TLC

MCDestinations == {Short("pan", "a"), Extended("pan", "e")}
MCTwoPans == {Extended("pan", "e"), Extended("other", "e")}
=============================================================================
