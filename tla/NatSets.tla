------------------------------ MODULE NatSets ------------------------------
(* Helpers on finite sets of numbers that the modules about bitmaps share. *)
EXTENDS Integers, FiniteSets

Largest(S) == CHOOSE l \in S : \A k \in S : k <= l
Smallest(S) == CHOOSE l \in S : \A k \in S : l <= k

Lesser(a, b) == IF a <= b THEN a ELSE b
Greater(a, b) == IF a <= b THEN b ELSE a

(* The n smallest elements of S, or all of them when there are fewer.      *)
Lowest(S, n) == {l \in S : Cardinality({k \in S : k < l}) < n}
=============================================================================
