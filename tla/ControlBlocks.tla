----------------------------- MODULE ControlBlocks -----------------------------
(***************************************************************************)
(* What the control blocks of a USBMonitor promise, whoever opens, closes  *)
(* and detaches and in whatever order their steps interleave.              *)
(*                                                                         *)
(* A block is opened once, with a connection ("open") or without one       *)
(* ("null"), and its connection is closed at most once and never comes     *)
(* back; the listener hears of the close together with it. The table of    *)
(* open devices never receives a closed block, and a closed block that it  *)
(* still holds leaves it.                                                  *)
(***************************************************************************)
CONSTANTS Device, Block, None

VARIABLES
  conn,     \* the connection of every block
  table,    \* the block the monitor hands out for every device
  heard     \* the blocks whose onDisconnect the listener has heard

vars == <<conn, table, heard>>

Init ==
  /\ conn = [b \in Block |-> "free"]
  /\ table = [d \in Device |-> None]
  /\ heard = {}

Open(b) ==
  /\ conn[b] = "free"
  /\ \E c \in {"open", "null"} : conn' = [conn EXCEPT ![b] = c]
  /\ UNCHANGED <<table, heard>>

Publish(d, b) ==
  /\ conn[b] \in {"open", "null"}
  /\ table' = [table EXCEPT ![d] = b]
  /\ UNCHANGED <<conn, heard>>

Close(b) ==
  /\ conn[b] = "open"
  /\ conn' = [conn EXCEPT ![b] = "closed"]
  /\ heard' = heard \cup {b}
  /\ UNCHANGED table

Remove(d) ==
  /\ table' = [table EXCEPT ![d] = None]
  /\ UNCHANGED <<conn, heard>>

Clear ==
  /\ table' = [d \in Device |-> None]
  /\ UNCHANGED <<conn, heard>>

HoldsClosed(d) == table[d] # None /\ conn[table[d]] = "closed"

Next ==
  \/ \E b \in Block : Open(b) \/ Close(b)
  \/ \E d \in Device, b \in Block : Publish(d, b)
  \/ \E d \in Device : Remove(d)
  \/ Clear

Safe == Init /\ [][Next]_vars

Spec == Safe /\ \A d \in Device : WF_vars(Remove(d) /\ HoldsClosed(d))
=============================================================================
