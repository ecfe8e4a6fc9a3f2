----------------------------- MODULE MCAttrList -----------------------------
(* A directory with two names, the root and the allocation of its index    *)
(* and the bitmap of it.                                                   *)
EXTENDS AttrList
MCOrder == <<"std", "win32 name", "dos name", "root", "allocation", "bitmap">>
MCKind == [a \in Range(MCOrder) |-> IF a \in {"win32 name", "dos name"} THEN "name" ELSE a]
MCEntrySize == [a \in Range(MCOrder) |-> IF a = "bitmap" THEN 4 ELSE 1]
Symmetry == Permutations(Clusters)
=============================================================================
