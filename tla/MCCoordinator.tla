---------------------------- MODULE MCCoordinator ---------------------------
(* A small instance of Coordinator for TLC. *)
EXTENDS Coordinator, TLC

\* Marks of the device and its short address are left from before.
MCOldShort == {{<<Pan, DeviceAddress>>}}
MCOldExtended == {{Device}}
=============================================================================
