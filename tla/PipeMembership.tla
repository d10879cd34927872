--------------------------- MODULE PipeMembership ---------------------------
(***************************************************************************)
(* What the application is told of a client: it enters one pipe, moves     *)
(* between pipes of different codes, being in none on the way, and leaves  *)
(* the pipe it is in, once; or it is gone without having entered any.      *)
(***************************************************************************)
CONSTANTS Sessions, Pipes, CodeOf

VARIABLES place, from   \* where a client is, and the pipe it came from last
vars == <<place, from>>

Init ==
  /\ place = [s \in Sessions |-> "outside"]
  /\ from \in [Sessions -> Pipes]

\* OnUserJoin
Enter(s, p) ==
  /\ place[s] = "outside"
  /\ place' = [place EXCEPT ![s] = p]
  /\ from' = [from EXCEPT ![s] = p]

\* OnUserMoveOut
MoveOut(s) ==
  /\ place[s] \in Pipes
  /\ place' = [place EXCEPT ![s] = "between"]
  /\ UNCHANGED from

\* OnUserMoveIn
MoveIn(s, p) ==
  /\ place[s] = "between" /\ CodeOf[p] # CodeOf[from[s]]
  /\ place' = [place EXCEPT ![s] = p]
  /\ from' = [from EXCEPT ![s] = p]

\* OnUserLeave, or the end of a client that never entered
Leave(s) ==
  /\ place[s] \in Pipes \cup {"outside"}
  /\ place' = [place EXCEPT ![s] = "gone"]
  /\ UNCHANGED from

Next == \E s \in Sessions :
  MoveOut(s) \/ Leave(s) \/ \E p \in Pipes : Enter(s, p) \/ MoveIn(s, p)

Spec == Init /\ [][Next]_vars
=============================================================================
