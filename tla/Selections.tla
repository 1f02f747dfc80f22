----------------------------- MODULE Selections -----------------------------
(* Compacting a slice in place: the loops that copy the elements they keep   *)
(* to the front, in their order; making room for one more; and adding up the *)
(* sizes in a map.  Compacting is written with the set of positions kept     *)
(* rather than with SelectSeq, and a sum as a count rather than with a fold, *)
(* so that proofs can speak about them (SelectionProofs).                    *)
EXTENDS Naturals, Sequences, FiniteSets

Rank(K, k) == Cardinality({j \in K : j <= k})

\* The elements of s at the positions K, in the order they have in s.
Pick(s, K) == [i \in 1 .. Cardinality(K) |-> s[CHOOSE k \in K : Rank(K, k) = i]]
\* s with e in front of position i.
InsertedAt(s, i, e) == SubSeq(s, 1, i - 1) \o <<e>> \o SubSeq(s, i, Len(s))

\* The sum of the numbers w[x]: each x counts once for each of 1 .. w[x].
Units(w) == UNION {{x} \X (1 .. w[x]) : x \in DOMAIN w}
TotalOf(w) == Cardinality(Units(w))
=============================================================================
