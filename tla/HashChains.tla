----------------------------- MODULE HashChains -----------------------------
(***************************************************************************)
(* MyMultimap, the pipe map of a server: a table of chains. A key is its   *)
(* own index; values are pipes. Nodes come from nodePool_ and go back.     *)
(***************************************************************************)
EXTENDS Naturals, Sequences, FiniteSets

CONSTANTS Keys, Values, Cells, nullptr

VARIABLES table, next, key, value, pool
vars == <<table, next, key, value, pool>>

\* entry->next_, until it is nullptr
RECURSIVE Chain(_)
Chain(n) == IF n = nullptr THEN <<>> ELSE <<n>> \o Chain(next[n])
ChainOf(k) == Chain(table[k])

TypeOK ==
  /\ table \in [Keys -> Cells \cup {nullptr}]
  /\ next \in [Cells -> Cells \cup {nullptr}]
  /\ key \in [Cells -> Keys] /\ value \in [Cells -> Values]
  /\ pool \subseteq Cells

Init ==
  /\ table = [k \in Keys |-> nullptr]
  /\ next = [n \in Cells |-> nullptr]
  /\ key = [n \in Cells |-> CHOOSE k \in Keys : TRUE]         \* whatever: not read before Put
  /\ value = [n \in Cells |-> CHOOSE v \in Values : TRUE]
  /\ pool = Cells

MutPutPool(k, v) ==
  \E n \in pool :
    /\ pool' = pool \ {n}
    /\ key' = [key EXCEPT ![n] = k] /\ value' = [value EXCEPT ![n] = v]
    /\ next' = [next EXCEPT ![n] = nullptr]
    /\ table' = [table EXCEPT ![k] = n]

\* at the end of the chain
Put(k, v) ==
  \E n \in pool :
    /\ pool' = pool \ {n}
    /\ key' = [key EXCEPT ![n] = k] /\ value' = [value EXCEPT ![n] = v]
    /\ LET chain == ChainOf(k) IN
       IF chain = <<>>
       THEN table' = [table EXCEPT ![k] = n] /\ next' = [next EXCEPT ![n] = nullptr]
       ELSE /\ next' = [next EXCEPT ![n] = nullptr, ![chain[Len(chain)]] = n]
            /\ UNCHANGED table

Matches(k, v) == {i \in DOMAIN ChainOf(k) : value[ChainOf(k)[i]] = v}

MutRemove(k, v) ==
  /\ Matches(k, v) # {}
  /\ LET i == CHOOSE i \in Matches(k, v) : \A j \in Matches(k, v) : i <= j
         entry == ChainOf(k)[i]
     IN /\ table' = IF i = 1 THEN [table EXCEPT ![k] = nullptr] ELSE table
        /\ next' = IF i = 1 THEN next ELSE [next EXCEPT ![ChainOf(k)[i - 1]] = next[entry]]
        /\ pool' = pool \cup {entry}
  /\ UNCHANGED <<key, value>>

\* the first entry with the value; returns FALSE, and does nothing, if there is none
Remove(k, v) ==
  /\ Matches(k, v) # {}
  /\ LET i == CHOOSE i \in Matches(k, v) : \A j \in Matches(k, v) : i <= j
         entry == ChainOf(k)[i]
     IN /\ table' = IF i = 1 THEN [table EXCEPT ![k] = next[entry]] ELSE table
        /\ next' = IF i = 1 THEN next ELSE [next EXCEPT ![ChainOf(k)[i - 1]] = next[entry]]
        /\ pool' = pool \cup {entry}
  /\ UNCHANGED <<key, value>>

RemoveAllForSameKey(k) ==
  /\ table[k] # nullptr
  /\ pool' = pool \cup {ChainOf(k)[i] : i \in DOMAIN ChainOf(k)}
  /\ table' = [table EXCEPT ![k] = nullptr]
  /\ UNCHANGED <<next, key, value>>

Next == \E k \in Keys :
  RemoveAllForSameKey(k) \/ \E v \in Values : Put(k, v) \/ Remove(k, v)
Spec == Init /\ [][Next]_vars
-----------------------------------------------------------------------------
\* What the readers see: Get, SizeForSameKey, and ForeachForSameKey, which hands
\* key and value of every entry to its caller.
Get(k) == value[table[k]]
SizeForSameKey(k) == Len(ChainOf(k))
ForeachForSameKey(k) == [i \in DOMAIN ChainOf(k) |-> <<key[ChainOf(k)[i]], value[ChainOf(k)[i]]>>]

\* A cell is in the pool or in one chain, that of its key.
CellsAccounted ==
  /\ \A k \in Keys : \A i \in DOMAIN ChainOf(k) : key[ChainOf(k)[i]] = k /\ ChainOf(k)[i] \notin pool
  /\ Cardinality(Cells)
       = Cardinality(pool) + Cardinality(UNION {{ChainOf(k)[i] : i \in DOMAIN ChainOf(k)} : k \in Keys})

\* The values of a key, in the order in which they were put; taking one out leaves the
\* others, and the chains of other keys are left alone.
ValuesOf(k) == [i \in DOMAIN ChainOf(k) |-> ForeachForSameKey(k)[i][2]]
Without(s, v) ==
  LET i == CHOOSE i \in DOMAIN s : s[i] = v /\ \A j \in DOMAIN s : s[j] = v => i <= j
  IN SubSeq(s, 1, i - 1) \o SubSeq(s, i + 1, Len(s))
KeepsOrder ==
  \A k \in Keys :
    /\ \A v \in Values :
         /\ Put(k, v) => ValuesOf(k)' = Append(ValuesOf(k), v)
         /\ Remove(k, v) => ValuesOf(k)' = Without(ValuesOf(k), v)
    /\ RemoveAllForSameKey(k) => ValuesOf(k)' = <<>>
    /\ \/ RemoveAllForSameKey(k) \/ \E v \in Values : Put(k, v) \/ Remove(k, v)
       \/ ValuesOf(k)' = ValuesOf(k)
=============================================================================
