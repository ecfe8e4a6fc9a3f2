----------------------------- MODULE MCRunlist -----------------------------
(* Attributes of some clusters, holes among them, on a volume with a gap   *)
(* between its clusters that takes a number of two bytes to cross.         *)
EXTENDS Runlist

CONSTANTS MaxInit
Mappings(n) == {m \in [0..n - 1 -> Lcns \union {Hole}] :
                  \A v, w \in 0..n - 1 : v # w /\ m[v] = m[w] => m[v] = Hole}
StartMaps == UNION {Mappings(n) : n \in 1..MaxInit}
=============================================================================
