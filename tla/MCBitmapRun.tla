---------------------------- MODULE MCBitmapRun ----------------------------
(* Sixteen bits in four bytes of four bits, with a buffer of two bytes:    *)
(* every run takes up to three windows, and starts and ends at every       *)
(* position of a byte.                                                     *)
EXTENDS BitmapRun

SomeBitmaps == {{}, Bit, {b \in Bit : b % 3 = 0}, {b \in Bit : b % 5 < 2}}
=============================================================================
