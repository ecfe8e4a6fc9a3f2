----------------------------- MODULE MCRecordIO -----------------------------
(***************************************************************************)
(* Mft records of two sectors, the first one or two of them mirrored as    *)
(* the first four are in the code; ntfs_volume_startup opens the first.    *)
(* Two inodes, of two records or of the same one.                          *)
(***************************************************************************)
EXTENDS RecordIO, TLC

CONSTANTS i1, i2

TwoInodes == {i1, i2}
InodesAlike == Permutations(TwoInodes)
FirstRecord == {0}
=============================================================================
