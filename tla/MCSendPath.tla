----------------------------- MODULE MCSendPath -----------------------------
(* SendPath for TLC: the threads of one kind, and the packets, are alike.  *)
EXTENDS SendPath, TLC

Symmetry == Permutations(Senders) \cup Permutations(Workers) \cup Permutations(Packets)
=============================================================================
