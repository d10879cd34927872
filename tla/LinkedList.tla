----------------------------- MODULE LinkedList -----------------------------
(***************************************************************************)
(* MyList: nodes in two directions between head_ and tail_, which come     *)
(* from the pool too. head_->prev and tail_->next are never set.           *)
(***************************************************************************)
EXTENDS Naturals, Sequences, FiniteSets

CONSTANTS Data, ListNodes, head, tail, Unset

All == ListNodes \cup {head, tail}
VARIABLES data, prev, next, size, pool
vars == <<data, prev, next, size, pool>>

TypeOK ==
  /\ data \in [ListNodes -> Data]
  /\ prev \in [All -> All \cup {Unset}] /\ next \in [All -> All \cup {Unset}]
  /\ size \in 0..Cardinality(ListNodes) /\ pool \subseteq ListNodes

Init ==
  /\ data = [n \in ListNodes |-> CHOOSE d \in Data : TRUE]    \* whatever: not read before Alloc
  /\ prev = [n \in All |-> IF n = tail THEN head ELSE Unset]
  /\ next = [n \in All |-> IF n = head THEN tail ELSE Unset]
  /\ size = 0 /\ pool = ListNodes

MutLinkBetween(a, n, b) ==
  /\ prev' = [prev EXCEPT ![n] = a]
  /\ next' = [next EXCEPT ![n] = b, ![a] = n]

\* a new node n between the neighbours a and b
LinkBetween(a, n, b) ==
  /\ prev' = [prev EXCEPT ![n] = a, ![b] = n]
  /\ next' = [next EXCEPT ![n] = b, ![a] = n]

Alloc(n, d) ==
  /\ n \in pool
  /\ pool' = pool \ {n}
  /\ data' = [data EXCEPT ![n] = d]
  /\ size' = size + 1

Push_Front(d) == \E n \in pool : Alloc(n, d) /\ LinkBetween(head, n, next[head])
MutPush_Back(d) == \E n \in pool : Alloc(n, d) /\ LinkBetween(head, n, next[head])

Push_Back(d) == \E n \in pool : Alloc(n, d) /\ LinkBetween(prev[tail], n, tail)

\* n leaves the list; an iterator on it goes to next[n]
Erase(n) ==
  /\ next' = [next EXCEPT ![prev[n]] = next[n], ![n] = Unset]
  /\ prev' = [prev EXCEPT ![next[n]] = prev[n], ![n] = Unset]
  /\ pool' = pool \cup {n}
  /\ size' = size - 1
  /\ UNCHANGED data

RECURSIVE From(_)
From(n) == IF n = tail THEN <<>> ELSE <<n>> \o From(next[n])
Nodes == From(next[head])     \* what begin(), ++ and end() go through
RECURSIVE Back(_)
Back(n) == IF n = head THEN <<>> ELSE Back(prev[n]) \o <<n>>

\* callers do not pop from an empty list: that would follow tail_->next
Pop_Front == size > 0 /\ Erase(next[head])
Pop_Back == size > 0 /\ Erase(prev[tail])
EraseAt(i) == i \in DOMAIN Nodes /\ Erase(Nodes[i])

\* the kept nodes in their order, linked from head_ to tail_
Relink(kept) ==
  LET s == <<head>> \o kept \o <<tail>>
      at(n) == CHOOSE i \in DOMAIN s : s[i] = n
  IN /\ next' = [n \in All |-> IF n \in {s[i] : i \in DOMAIN s} \ {tail} THEN s[at(n) + 1] ELSE Unset]
     /\ prev' = [n \in All |-> IF n \in {s[i] : i \in DOMAIN s} \ {head} THEN s[at(n) - 1] ELSE Unset]
     /\ pool' = ListNodes \ {kept[i] : i \in DOMAIN kept}
     /\ UNCHANGED data

\* all nodes with the data: Erase and go on where it points
Remove(d) ==
  LET kept == SelectSeq(Nodes, LAMBDA n : data[n] # d) IN
  Relink(kept) /\ size' = size - (Len(Nodes) - Len(kept))

Clear == Relink(<<>>) /\ size' = 0

Next ==
  \/ \E d \in Data : Push_Front(d) \/ Push_Back(d) \/ Remove(d)
  \/ \E i \in 1..Cardinality(ListNodes) : EraseAt(i)
  \/ Pop_Front \/ Pop_Back \/ Clear
Spec == Init /\ [][Next]_vars
-----------------------------------------------------------------------------
\* The list reads the same in both directions, has Size() nodes, and shares none with
\* the pool.
BothDirections ==
  /\ Nodes = Back(prev[tail])
  /\ size = Len(Nodes)
  /\ {Nodes[i] : i \in DOMAIN Nodes} = ListNodes \ pool

Elements == [i \in DOMAIN Nodes |-> data[Nodes[i]]]
\* Pushing and erasing change the sequence of the elements where they should.
ListSteps ==
  /\ \A d \in Data : /\ Push_Front(d) => Elements' = <<d>> \o Elements
                     /\ Push_Back(d) => Elements' = Append(Elements, d)
  /\ \A i \in DOMAIN Nodes :
       EraseAt(i) => Elements' = SubSeq(Elements, 1, i - 1) \o SubSeq(Elements, i + 1, Len(Elements))
=============================================================================
