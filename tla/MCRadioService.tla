--------------------------- MODULE MCRadioService ---------------------------
(* A small instance of RadioService for TLC. *)
EXTENDS RadioService, TLC
=============================================================================
