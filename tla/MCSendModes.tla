----------------------------- MODULE MCSendModes -----------------------------
(***************************************************************************)
(* SendPath in its two modes: a server is started in one of them. In the   *)
(* first, that of the constants in the .cfg, sends pend; in the second     *)
(* they succeed at once, the queue is full after one packet, and the slot  *)
(* is used twice: by callers that send and disconnect, or by those that    *)
(* send a packet and a last one. The invariants are SendPath's own: none   *)
(* of those checked here depends on the mode.                              *)
(***************************************************************************)
EXTENDS SendPath, TLC

VARIABLE mode

Immediate == INSTANCE SendPath WITH
  isSendIOPending <- FALSE, SendResults <- {"success", "error"}, MaxStamp <- 2, MAX_SIZE <- 1,
  Ops <- {"SendPacket", "Disconnect"}
Last == INSTANCE SendPath WITH
  isSendIOPending <- FALSE, SendResults <- {"success", "error"}, MaxStamp <- 2, MAX_SIZE <- 1,
  Ops <- {"SendPacket", "SEND_DISCONNECT"}

ModesInit == mode \in {"pending", "immediate", "last"} /\ Init
ModesNext ==
  /\ UNCHANGED mode
  /\ \/ mode = "pending" /\ Next
     \/ mode = "immediate" /\ Immediate!Next
     \/ mode = "last" /\ Last!Next
ModesSpec == ModesInit /\ [][ModesNext]_<<mode, vars>>

Symmetry == Permutations(Senders) \cup Permutations(Workers) \cup Permutations(Packets)
=============================================================================
