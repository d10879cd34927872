--------------------------- MODULE MCSessionLife ---------------------------
(* Small instances of SessionLife for TLC. *)
EXTENDS SessionLife, TLC

\* callers are interchangeable, and so are workers
ThreadSymmetry == Permutations(Callers) \cup Permutations(Workers)
=============================================================================
