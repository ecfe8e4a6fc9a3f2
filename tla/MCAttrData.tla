----------------------------- MODULE MCAttrData -----------------------------
(***************************************************************************)
(* Runlists of one cluster and of a hole and a cluster; resizes make those *)
(* of two clusters and of two holes.  Clusters have three positions and a  *)
(* write two, so that it lies within a cluster, begins or ends with one,   *)
(* or crosses into the next, and that a short write can leave something of *)
(* a gap and of the head of a hole.  A resident value has up to four       *)
(* positions, two clusters when it leaves the record.                      *)
(***************************************************************************)
EXTENDS AttrData

Runlists == {<<1>>, <<Hole, 2>>}
Lengths == {2}
=============================================================================
