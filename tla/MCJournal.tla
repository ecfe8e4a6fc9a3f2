------------------------------ MODULE MCJournal -----------------------------
(* Pages of two and of four blocks, as 4 KiB and 8 KiB pages are to the    *)
(* 8 KiB that ntfs_empty_logfile writes at once: both restart pages in one *)
(* write, or one in each of two.                                           *)
EXTENDS Journal
=============================================================================
