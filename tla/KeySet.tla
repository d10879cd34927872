------------------------------- MODULE KeySet -------------------------------
(* What a search tree promises: a set of keys, and how many they are.      *)
EXTENDS Naturals, FiniteSets

CONSTANT Keys

VARIABLES keys, size

Init == keys = {} /\ size = 0

Insert(k) == keys' = keys \cup {k}
Delete(k) == keys' = keys \ {k}

Next ==
  /\ \E k \in Keys : Insert(k) \/ Delete(k)
  /\ size' = Cardinality(keys')

Spec == Init /\ [][Next]_<<keys, size>>
=============================================================================
