------------------------------ MODULE MCResize ------------------------------
(* A volume on which nine clusters are in use, anywhere but for the first  *)
(* of $MFT; it is shrunk until it is full and enlarged again, and the      *)
(* program is run again after every stop that leaves it something to run on*)
EXTENDS Resize
=============================================================================
