---------------------------- MODULE PacketQueue ----------------------------
(***************************************************************************)
(* What a first-in-first-out queue promises: what is put in at the end is  *)
(* taken out at the front, once, in the order it was put in.               *)
(***************************************************************************)
EXTENDS Sequences

CONSTANT Elements
VARIABLE queue

Init == queue = <<>>

Put(e) == queue' = Append(queue, e)

Take == queue # <<>> /\ queue' = Tail(queue)

Next == Take \/ \E e \in Elements : Put(e)

Spec == Init /\ [][Next]_queue
=============================================================================
