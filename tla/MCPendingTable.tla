--------------------------- MODULE MCPendingTable ---------------------------
(* A small instance of PendingTable for TLC. *)
EXTENDS PendingTable, TLC
=============================================================================
