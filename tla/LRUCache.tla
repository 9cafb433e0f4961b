------------------------------- MODULE LRUCache -------------------------------
(***************************************************************************)
(* What csim promises: a set-associative cache that evicts the least       *)
(* recently used tag of a full set.  No lines, no queue: only which tags a *)
(* set holds and which of them was used before which.                      *)
(***************************************************************************)
EXTENDS Integers, FiniteSets

CONSTANTS Sets, Tags, E

VARIABLES resident,                 \* the tags each set holds
          older,                    \* in each set, the pairs <<x, y>>: x last used before y
          hits, misses, evictions
lruVars == <<resident, older, hits, misses, evictions>>

Init == /\ resident = [n \in Sets |-> {}] /\ older = [n \in Sets |-> {}]
        /\ hits = 0 /\ misses = 0 /\ evictions = 0

\* Set n now holds the tags R, and t is the one used last.
Use(n, t, R) ==
  /\ resident' = [resident EXCEPT ![n] = R]
  /\ older' = [older EXCEPT ![n] = {p \in @ : p[1] \in R \ {t} /\ p[2] \in R \ {t}}
                                   \union {<<x, t>> : x \in R \ {t}}]

Hit(n, t) == /\ t \in resident[n]
             /\ Use(n, t, resident[n])
             /\ hits' = hits + 1 /\ UNCHANGED <<misses, evictions>>

Fill(n, t) == /\ t \notin resident[n] /\ Cardinality(resident[n]) < E
              /\ Use(n, t, resident[n] \union {t})
              /\ misses' = misses + 1 /\ UNCHANGED <<hits, evictions>>

Evict(n, t) ==
  /\ t \notin resident[n] /\ Cardinality(resident[n]) = E
  /\ \E v \in resident[n] :
       /\ \A x \in resident[n] : <<x, v>> \notin older[n]
       /\ Use(n, t, (resident[n] \ {v}) \union {t})
  /\ misses' = misses + 1 /\ evictions' = evictions + 1 /\ UNCHANGED hits

Next == \E n \in Sets, t \in Tags : Hit(n, t) \/ Fill(n, t) \/ Evict(n, t)

Spec == Init /\ [][Next]_lruVars
===============================================================================
