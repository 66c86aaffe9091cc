--------------------------- MODULE MCRuxorBluetooth ---------------------------
(* A small instance of RuxorBluetooth for TLC. *)
EXTENDS RuxorBluetooth
=============================================================================
