----------------------------- MODULE MCEnqQueue -----------------------------
(* The nodes of the pool are interchangeable, and so are the producers.    *)
EXTENDS EnqQueue, TLC

Symmetry == Permutations(Nodes) \cup Permutations(Producers)
=============================================================================
