---------------------------- MODULE ClusterStore ----------------------------
(***************************************************************************)
(* What the cluster allocator of libntfs promises to the code that owns    *)
(* attributes (libntfs/lcnalloc.c, as attrib.c, mft.c and dir.c rely on    *)
(* it): a pool of clusters from which a caller is granted clusters nobody  *)
(* else has and to which it gives them back.  A volume has one such pool.  *)
(*                                                                         *)
(* lcnalloc.c has no journal, so the promise has two exits, and the        *)
(* abstract store names both: clusters can be lost (marked in use while no *)
(* attribute maps them) and a free that fails half way exposes clusters    *)
(* that are still mapped (they are marked free and can be granted again).  *)
(* Nothing else may happen to a cluster.                                   *)
(***************************************************************************)
EXTENDS Integers, FiniteSets

CONSTANTS Cluster,      \* the clusters of the volume
          Counts        \* the numbers of clusters callers ask for

VARIABLES owned,        \* clusters mapped by an attribute
          lost,         \* clusters marked in use that nobody maps
          exposed,      \* owned clusters that a failed free marked free
          asked         \* the size of the request in progress, or 0

storeVars == <<owned, lost, exposed, asked>>

StoreInit ==
    /\ owned \subseteq Cluster
    /\ lost = {}
    /\ exposed = {}
    /\ asked = 0

Ask ==
    /\ asked = 0
    /\ asked' \in Counts
    /\ UNCHANGED <<owned, lost, exposed>>

(* A granted request adds as many clusters as were asked for, none of them *)
(* owned or lost; only exposed clusters can be handed out a second time.   *)
Grant ==
    /\ asked # 0
    /\ asked' = 0
    /\ owned \subseteq owned'
    /\ owned' \subseteq Cluster \ lost
    /\ exposed = {} => Cardinality(owned' \ owned) = asked
    /\ UNCHANGED <<lost, exposed>>

(* A refused request, or one cut short by a crash, changes nothing or      *)
(* loses clusters that nobody owned.                                       *)
Refuse ==
    /\ asked # 0
    /\ asked' = 0
    /\ lost \subseteq lost'
    /\ lost' \subseteq Cluster \ owned
    /\ UNCHANGED <<owned, exposed>>

(* A free.  Exposed clusters may have a second owner by now, so they stay  *)
(* owned.  When it fails and the caller drops its runlist all the same,    *)
(* what was not freed is lost.                                             *)
Release ==
    /\ asked = 0
    /\ exposed \subseteq owned'
    /\ owned' \subseteq owned
    /\ lost \subseteq lost'
    /\ lost' \subseteq lost \union (owned \ owned')
    /\ UNCHANGED <<exposed, asked>>

(* A failed free whose caller keeps its runlist.                           *)
Expose ==
    /\ asked = 0
    /\ exposed \subseteq exposed'
    /\ exposed' \subseteq owned
    /\ UNCHANGED <<owned, lost, asked>>

StoreNext == Ask \/ Grant \/ Refuse \/ Release \/ Expose

StoreSpec == StoreInit /\ [][StoreNext]_storeVars
=============================================================================
