---------------------------- MODULE RedBlackTree ----------------------------
(***************************************************************************)
(* MyRedBlackTree, in which a pipe keeps its users. Nodes are relinked and *)
(* never copied, so that a node is named by its key; values play no part.  *)
(* NIL_node_ is a node like the others: deletion uses its parent field.    *)
(*                                                                         *)
(* What the code writes twice, for left and right, is written once here,   *)
(* for a side and the other side.                                          *)
(***************************************************************************)
EXTENDS Integers, FiniteSets, Sequences

CONSTANTS Keys, NIL, nullptr

Nodes == Keys \cup {NIL}
Other(side) == IF side = "left" THEN "right" ELSE "left"

VARIABLE tree     \* root_, size_, and the fields of the nodes
vars == tree

Trees == [root : Nodes, size : Nat, color : [Nodes -> {"RED", "BLACK"}],
          parent : [Nodes -> Nodes \cup {nullptr}],
          kid : [{"left", "right"} -> [Nodes -> Nodes \cup {nullptr}]]]

NewTree ==
  [root |-> NIL, size |-> 0, color |-> [n \in Nodes |-> "BLACK"],
   parent |-> [n \in Nodes |-> nullptr],
   kid |-> [side \in {"left", "right"} |-> [n \in Nodes |-> nullptr]]]

SideOf(t, n) == IF n = t.kid["left"][t.parent[n]] THEN "left" ELSE "right"

\* IterativeSearchFromRoot; and the last node before NIL_node_ (endY)
RECURSIVE SearchFrom(_, _, _, _)
SearchFrom(t, n, last, k) ==
  IF n \in {NIL, k} THEN [at |-> n, last |-> last]
  ELSE SearchFrom(t, t.kid[IF k < n THEN "left" ELSE "right"][n], n, k)
Search(t, k) == SearchFrom(t, t.root, NIL, k)

\* MinValueNode for the side "left", MaxValueNode for "right"
RECURSIVE Outermost(_, _, _)
Outermost(t, n, side) == IF t.kid[side][n] = NIL THEN n ELSE Outermost(t, t.kid[side][n], side)
MinValueNode(t, n) == Outermost(t, n, "left")

MutAbove(t, n, side) == t.parent[n]

\* the first node above n that has n below it on the side, or NIL_node_
RECURSIVE Above(_, _, _)
Above(t, n, side) ==
  LET up == t.parent[n] IN
  IF up = NIL \/ n # t.kid[Other(side)][up] THEN up ELSE Above(t, up, side)

\* Successor for the side "left", Predecessor for "right"
Neighbour(t, n, side) ==
  IF t.kid[Other(side)][n] # NIL THEN Outermost(t, t.kid[Other(side)][n], side)
  ELSE Above(t, n, side)

\* put b where a is below a's parent
Replace(t, a, b) ==
  IF t.parent[a] = NIL THEN [t EXCEPT !.root = b]
  ELSE [t EXCEPT !.kid[SideOf(t, a)][t.parent[a]] = b]

MutRotate(t, n, side) ==
  LET y == t.kid[Other(side)][n]
      inner == t.kid[side][y]
      t1 == [Replace(t, n, y) EXCEPT !.kid[Other(side)][n] = inner, !.parent[y] = t.parent[n]]
  IN [t1 EXCEPT !.parent[n] = y, !.kid[side][y] = n]

\* LeftRotate(n) for the side "left", RightRotate(n) for "right"
Rotate(t, n, side) ==
  LET y == t.kid[Other(side)][n]
      inner == t.kid[side][y]
      t1 == [Replace(t, n, y) EXCEPT !.kid[Other(side)][n] = inner, !.parent[y] = t.parent[n]]
  IN [t1 EXCEPT !.parent = [@ EXCEPT ![n] = y, ![inner] = IF inner = NIL THEN @ ELSE n],
                !.kid[side][y] = n]

RB_Transplant(t, a, b) == [Replace(t, a, b) EXCEPT !.parent[b] = t.parent[a]]
-----------------------------------------------------------------------------
MutInsertFixup(t, z) == t

RECURSIVE InsertFixup(_, _)
InsertFixup(t, z) ==
  LET up == t.parent[z] IN
  IF t.color[up] = "BLACK" THEN [t EXCEPT !.color[t.root] = "BLACK"]
  ELSE LET grand == t.parent[up]
           side == SideOf(t, up)
           uncle == t.kid[Other(side)][grand]
       IN IF t.color[uncle] = "RED"
          THEN InsertFixup([t EXCEPT !.color = [@ EXCEPT ![up] = "BLACK", ![uncle] = "BLACK",
                                                         ![grand] = "RED"]], grand)
          ELSE LET inside == z = t.kid[Other(side)][up]
                   t1 == IF inside THEN Rotate(t, up, side) ELSE t
                   y == IF inside THEN up ELSE z
                   top == t1.parent[y]
               IN InsertFixup(Rotate([t1 EXCEPT !.color = [@ EXCEPT ![top] = "BLACK",
                                                                   ![grand] = "RED"]],
                                     grand, Other(side)), y)

NewNode(t, k, up, color) ==
  [t EXCEPT !.color[k] = color, !.parent[k] = up,
            !.kid = [side \in {"left", "right"} |-> [@[side] EXCEPT ![k] = NIL]]]

Inserted(t, k) ==
  LET found == Search(t, k) IN
  IF t.root = NIL THEN [NewNode(t, k, NIL, "BLACK") EXCEPT !.root = k, !.size = @ + 1]
  ELSE IF found.at = k THEN t
  ELSE LET t1 == [NewNode(t, k, found.last, "RED")
                    EXCEPT !.kid[IF k < found.last THEN "left" ELSE "right"][found.last] = k]
       IN [InsertFixup(t1, k) EXCEPT !.size = @ + 1]
-----------------------------------------------------------------------------
MutDeleteFixup(t, x) == [t EXCEPT !.color[x] = "BLACK"]

RECURSIVE DeleteFixup(_, _)
DeleteFixup(t, x) ==
  IF x = t.root \/ t.color[x] = "RED" THEN [t EXCEPT !.color[x] = "BLACK"]
  ELSE
    LET up == t.parent[x]
        side == SideOf(t, x)
        red == t.kid[Other(side)][up]
        \* case 1: a red sibling
        t1 == IF t.color[red] = "RED"
              THEN Rotate([t EXCEPT !.color = [@ EXCEPT ![red] = "BLACK", ![up] = "RED"]], up, side)
              ELSE t
        sibling == t1.kid[Other(side)][up]
        near == t1.kid[side][sibling]
        far == t1.kid[Other(side)][sibling]
    IN IF t1.color[near] = "BLACK" /\ t1.color[far] = "BLACK"
       THEN DeleteFixup([t1 EXCEPT !.color[sibling] = "RED"], up)                     \* case 2
       ELSE LET t3 == IF t1.color[far] = "BLACK"                                      \* case 3
                      THEN Rotate([t1 EXCEPT !.color = [@ EXCEPT ![near] = "BLACK",
                                                                 ![sibling] = "RED"]],
                                  sibling, Other(side))
                      ELSE t1
                outer == t3.kid[Other(side)][up]
                t4 == Rotate([t3 EXCEPT !.color =                                     \* case 4
                                [@ EXCEPT ![outer] = t3.color[up], ![up] = "BLACK",
                                          ![t3.kid[Other(side)][outer]] = "BLACK"]], up, side)
            IN DeleteFixup(t4, t4.root)

\* the node k is freed; its fields are not read again
FreeNode(t, k) ==
  [t EXCEPT !.color[k] = "BLACK", !.parent[k] = nullptr, !.size = @ - 1,
            !.kid = [side \in {"left", "right"} |-> [@[side] EXCEPT ![k] = nullptr]]]

MutUnlinked(t, k, s) == RB_Transplant(t, k, s)

\* the successor s takes the place of k, which has two children
Unlinked(t, k, s) ==
  LET below == t.kid["right"][s]
      t1 == IF t.parent[s] = k THEN [t EXCEPT !.parent[below] = s]
            ELSE LET u == RB_Transplant(t, s, below)
                 IN [u EXCEPT !.kid["right"][s] = u.kid["right"][k],
                              !.parent[u.kid["right"][k]] = s]
      t2 == RB_Transplant(t1, k, s)
  IN [t2 EXCEPT !.kid["left"][s] = t2.kid["left"][k],
                !.parent[t2.kid["left"][k]] = s,
                !.color[s] = t2.color[k]]

Deleted(t, k) ==
  IF Search(t, k).at = NIL THEN t
  ELSE
    LET left == t.kid["left"][k]
        right == t.kid["right"][k]
        s == IF left = NIL \/ right = NIL THEN k ELSE MinValueNode(t, right)
        x == IF left = NIL THEN right ELSE IF right = NIL THEN left ELSE t.kid["right"][s]
        t1 == IF s = k THEN RB_Transplant(t, k, x) ELSE Unlinked(t, k, s)
    IN FreeNode(IF t.color[s] = "BLACK" THEN DeleteFixup(t1, x) ELSE t1, k)
-----------------------------------------------------------------------------
Init == tree = NewTree
Insert(k) == tree' = Inserted(tree, k)
Delete(k) == tree' = Deleted(tree, k)
Next == \E k \in Keys : Insert(k) \/ Delete(k)
Spec == Init /\ [][Next]_vars
-----------------------------------------------------------------------------
RECURSIVE InorderTreeWalk(_, _)
InorderTreeWalk(t, n) ==
  IF n = NIL THEN <<>>
  ELSE InorderTreeWalk(t, t.kid["left"][n]) \o <<n>> \o InorderTreeWalk(t, t.kid["right"][n])
Walk == InorderTreeWalk(tree, tree.root)
Linked == {Walk[i] : i \in DOMAIN Walk}

TypeOK == tree \in Trees

\* Foreach visits the keys in order, and every node knows its parent.
Ordered ==
  /\ \A i, j \in DOMAIN Walk : i < j => Walk[i] < Walk[j]
  /\ \A n \in Linked, side \in {"left", "right"} :
       LET m == tree.kid[side][n] IN m = NIL \/ tree.parent[m] = n
  /\ tree.parent[tree.root] = NIL \/ tree.root = NIL

\* Successor and Predecessor go through the keys as Foreach does, and end at NIL_node_.
Neighbours ==
  \A i \in DOMAIN Walk :
    /\ Neighbour(tree, Walk[i], "left") = IF i = Len(Walk) THEN NIL ELSE Walk[i + 1]
    /\ Neighbour(tree, Walk[i], "right") = IF i = 1 THEN NIL ELSE Walk[i - 1]

\* every path from n down has the same number of black nodes: the height, or -1
RECURSIVE BlackHeight(_)
BlackHeight(n) ==
  IF n = NIL THEN 0
  ELSE LET l == BlackHeight(tree.kid["left"][n])  r == BlackHeight(tree.kid["right"][n]) IN
       IF l = -1 \/ l # r THEN -1 ELSE l + (IF tree.color[n] = "BLACK" THEN 1 ELSE 0)

\* The colours keep the tree flat: NIL and the root are black, a red node has black
\* children, and all paths have as many black nodes.
Balanced ==
  /\ tree.color[NIL] = "BLACK" /\ tree.color[tree.root] = "BLACK"
  /\ \A n \in Linked : tree.color[n] = "RED" =>
       \A side \in {"left", "right"} : tree.color[tree.kid[side][n]] = "BLACK"
  /\ BlackHeight(tree.root) # -1

\* The tree is the set of the keys put in and not taken out, and Size() their number.
Contents == INSTANCE KeySet WITH keys <- Linked, size <- tree.size
KeySetSpec == Contents!Spec
=============================================================================
