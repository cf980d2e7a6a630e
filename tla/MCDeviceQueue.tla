--------------------------- MODULE MCDeviceQueue ----------------------------
(* A small instance of DeviceQueue for TLC. *)
EXTENDS DeviceQueue, TLC

KeySymmetry == Permutations(Keys)
=============================================================================
