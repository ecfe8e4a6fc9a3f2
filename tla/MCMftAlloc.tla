----------------------------- MODULE MCMftAlloc -----------------------------
(* What mkntfs leaves, in small: a byte has two bits, and record 2 stands  *)
(* for 24, the first that is not reserved.  An NTFS 3.1 volume has 27      *)
(* records, so some past 24; an NTFS 1.2 volume has 16, fewer than 24, in  *)
(* more room.  The bitmap has bits for more records than there are.        *)
EXTENDS MftAlloc

Ntfs31 == [mft_init |-> 3, mft_alloc |-> 3, bmp_init |-> 4, bmp_alloc |-> 4]
Ntfs12 == [mft_init |-> 1, mft_alloc |-> 2, bmp_init |-> 4, bmp_alloc |-> 4]
BothLayouts == {Ntfs31, Ntfs12}
Steps == {1, 2}
=============================================================================
