----------------------------- MODULE MCBmpCache -----------------------------
(* Bytes of two bits and clusters of three bytes: a bitmap of two bytes in *)
(* one cluster, one that ends in its second, and one that fills two.       *)
EXTENDS BmpCache
=============================================================================
