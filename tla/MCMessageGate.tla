--------------------------- MODULE MCMessageGate ---------------------------
(* Instances of MessageGate for TLC. *)
EXTENDS MessageGate, TLC
=============================================================================
