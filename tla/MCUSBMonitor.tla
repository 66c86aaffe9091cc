----------------------------- MODULE MCUSBMonitor -----------------------------
(* A small instance of USBMonitor for TLC. *)
EXTENDS USBMonitor
=============================================================================
