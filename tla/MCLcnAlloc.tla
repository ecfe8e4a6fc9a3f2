---------------------------- MODULE MCLcnAlloc -----------------------------
(* An instance of LcnAlloc: a volume of 16 clusters whose mft is not at    *)
(* its start (mft zone 7..8, data zone 1 is 9..15, data zone 2 is 0..6),   *)
(* with much and with little free space.                                   *)
EXTENDS LcnAlloc

RelocatedLayouts == {{0, 7, 11}, 0 .. 15 \ {1, 3, 8, 12, 15}}
RelocatedHints == {NoHint, 3, 16}
=============================================================================
