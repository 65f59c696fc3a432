------------------------------ MODULE Sampling ------------------------------
(***************************************************************************)
(* What the histograms of src/pkg/stats are, without their heaps: at most  *)
(* Size samples each.  Only a lightest one leaves, and only when there is  *)
(* no room for the next; that is newer than those that are there.          *)
(***************************************************************************)
EXTENDS FiniteSets, Integers

CONSTANTS Names,     \* the histograms
          Size,
          Samples    \* Samples[n]: records with a weight pos and a time born

VARIABLE kept

Init == kept = [n \in Names |-> {}]

Drops(n) ==
    /\ Cardinality(kept[n]) = Size
    /\ \E l \in kept[n] :
         /\ \A s \in kept[n] : l.pos <= s.pos
         /\ kept' = [kept EXCEPT ![n] = @ \ {l}]

Adds(n) ==
    /\ Cardinality(kept[n]) < Size
    /\ \E e \in Samples[n] :
         /\ \A s \in kept[n] : s.born < e.born
         /\ kept' = [kept EXCEPT ![n] = @ \cup {e}]

Next == \E n \in Names : Drops(n) \/ Adds(n)

Spec == Init /\ [][Next]_kept
=============================================================================
