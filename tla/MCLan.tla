------------------------------- MODULE MCLan -------------------------------
(* LanServer for TLC: two pipes of two codes, and sets that name a session *)
(* twice, or more sessions than a worker takes at once.                    *)
EXTENDS LanServer, TLC

CONSTANTS p1, p2

codes == p1 :> "lobby" @@ p2 :> "field"
sets == {<<1, 2>>, <<1, 2, 1, 2, 1>>}
Symmetry == Permutations(Workers) \cup Permutations(Packets)
=============================================================================
