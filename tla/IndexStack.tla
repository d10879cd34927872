---------------------------- MODULE IndexStack ----------------------------
(* What LockFreeStack promises: a stack, and Pop fails only at an empty one. *)
EXTENDS Sequences

CONSTANT Items
VARIABLE stack

Init == stack \in Seq(Items)
Push == \E d \in Items : stack' = <<d>> \o stack
Pop == stack # <<>> /\ stack' = Tail(stack)
Next == Push \/ Pop
Spec == Init /\ [][Next]_stack
=============================================================================
