---------------------------- MODULE MCManagement ----------------------------
(* A small instance of Management for TLC. *)
EXTENDS Management, TLC
=============================================================================
