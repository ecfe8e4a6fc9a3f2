------------------------------ MODULE LcnAlloc ------------------------------
(***************************************************************************)
(* The cluster allocator, libntfs/lcnalloc.c: ntfs_cluster_alloc,          *)
(* ntfs_cluster_free_from_rl and ntfs_cluster_free, with the zone set-up   *)
(* of ntfs_volume_startup (libntfs/volume.c).                              *)
(*                                                                         *)
(* A volume is divided into the mft zone, data zone 1 (from the end of the *)
(* mft zone to the end of the volume) and data zone 2 (from the start of   *)
(* the volume to the start of the mft zone).  A call searches the zones    *)
(* one after the other through an 8 KiB window on $Bitmap, in two passes   *)
(* per zone: from the starting position to the end of the zone, then the   *)
(* part before the starting position.  Every window with new bits is       *)
(* written back before the next one is read, so a failure finds some of    *)
(* the new bits on disk, and the call must clear them again.               *)
(*                                                                         *)
(* One action is one window, one zone switch or one undo.  The runlist     *)
(* being built is the set of its clusters, taken, and its last cluster,    *)
(* last: no property depends on how the clusters are coalesced into runs.  *)
(***************************************************************************)
EXTENDS Integers, FiniteSets, NatSets

CONSTANTS
    NrClusters,     \* vol->nr_clusters
    MftLcn,         \* vol->mft_lcn
    StdMftLcn,      \* where mkntfs puts the mft for this cluster size
    BitmapBytes,    \* initialized size of $Bitmap, in bytes
    WindowBytes,    \* size of the window, 8192 in the code
    Layouts,        \* the sets of clusters in use when the volume is mounted
    Counts,         \* the cluster counts callers ask for
    Hints,          \* the starting clusters callers ask for
    MaxCalls,       \* bound on the number of calls
    MaxFaults       \* bound on I/O errors, failed reallocs and crashes

NoHint == -1                \* start_lcn for "use the current position"
Cluster == 0 .. NrClusters - 1
BitmapBits == 8 * BitmapBytes
(* The bits of $Bitmap beyond the last cluster are set when the volume is  *)
(* made and are never the address of a cluster.                            *)
Padding == NrClusters .. BitmapBits - 1

ASSUME VolumeAssumption ==
    /\ NrClusters \in Nat \ {0}
    /\ MftLcn \in 0 .. NrClusters - 1
    /\ StdMftLcn \in Nat
    /\ BitmapBytes \in Nat
    /\ NrClusters <= BitmapBits
    /\ WindowBytes \in Nat \ {0}

ASSUME CallAssumption ==
    /\ Layouts \subseteq SUBSET Cluster
    /\ Counts \subseteq Nat \ {0}
    /\ Hints \subseteq {NoHint} \union 0 .. NrClusters
    /\ MaxCalls \in Nat
    /\ MaxFaults \in Nat

VARIABLES
    bmp,                    \* $Bitmap on disk: the bits that are set
    owned,                  \* clusters mapped by the attributes of the volume
    exposed,                \* owned clusters whose bit a failed free cleared
    lost,                   \* clusters marked in use that no attribute maps
    mft_zone_start, mft_zone_end, mft_zone_pos,     \* fields of ntfs_volume
    data1_zone_pos, data2_zone_pos,
    pc,                     \* where the call in progress is
    req,                    \* its arguments
    taken, last,            \* the clusters in rl, and the last one appended
    zone_start, zone_end, bmp_pos, bmp_initial_pos, \* its locals
    pass, done_zones, search_zone, err,
    calls, faults           \* what has been used of MaxCalls and MaxFaults

disk == <<bmp, owned, exposed, lost>>
zones == <<mft_zone_start, mft_zone_end, mft_zone_pos,
           data1_zone_pos, data2_zone_pos>>
search == <<zone_start, zone_end, bmp_pos, bmp_initial_pos,
            pass, done_zones, search_zone>>
vars == <<disk, zones, pc, req, taken, last, search, err, calls, faults>>

Zones == {"mft", "data1", "data2"}
AllocZones == {"MFT_ZONE", "DATA_ZONE"}
NoRequest == [zone |-> "DATA_ZONE", count |-> 0, hint |-> NoHint]
-----------------------------------------------------------------------------
(* Zone set-up at mount.  The nominal size of the mft zone is an eighth of *)
(* the volume; the code halves it until the zone ends before the volume    *)
(* does, at the latest when there is nothing left of it.                   *)
MftZoneSize ==
    LET nominal == NrClusters \div 8
        halvings == {n \in 0 .. nominal :
                        n = 0 \/ \E k \in 0 .. NrClusters : n = nominal \div 2^k}
    IN  Largest({n \in halvings : MftLcn + n < NrClusters})

StartZone == IF MftLcn <= StdMftLcn THEN 0 ELSE MftLcn

InitZones ==
    /\ mft_zone_start = StartZone
    /\ mft_zone_end = MftLcn + MftZoneSize
    /\ mft_zone_pos = MftLcn
    /\ data1_zone_pos = MftLcn + MftZoneSize
    /\ data2_zone_pos = 0

Remount ==
    /\ mft_zone_start' = StartZone
    /\ mft_zone_end' = MftLcn + MftZoneSize
    /\ mft_zone_pos' = MftLcn
    /\ data1_zone_pos' = MftLcn + MftZoneSize
    /\ data2_zone_pos' = 0

Init ==
    /\ owned \in Layouts
    /\ bmp = owned \union Padding
    /\ exposed = {}
    /\ lost = {}
    /\ InitZones
    /\ pc = "idle"
    /\ req = NoRequest
    /\ taken = {}
    /\ last = -1
    /\ zone_start = 0 /\ zone_end = 0 /\ bmp_pos = 0 /\ bmp_initial_pos = 0
    /\ pass = 1 /\ done_zones = {} /\ search_zone = "mft"
    /\ err = "none"
    /\ calls = 0
    /\ faults = 0

(* The call returns: its locals are gone.                                  *)
Return ==
    /\ pc' = "idle"
    /\ req' = NoRequest
    /\ taken' = {}
    /\ last' = -1
    /\ zone_start' = 0 /\ zone_end' = 0 /\ bmp_pos' = 0 /\ bmp_initial_pos' = 0
    /\ pass' = 1 /\ done_zones' = {} /\ search_zone' = "mft"
    /\ err' = "none"

Fault ==
    /\ faults < MaxFaults
    /\ faults' = faults + 1
-----------------------------------------------------------------------------
(* ntfs_cluster_alloc, up to the outer loop.                               *)
InMftZone(lcn) == mft_zone_start <= lcn /\ lcn < mft_zone_end

StartPos(zone, hint) ==
    IF hint = NoHint
    THEN IF zone = "DATA_ZONE" THEN data1_zone_pos ELSE mft_zone_pos
    ELSE CASE zone = "DATA_ZONE" /\ InMftZone(hint) -> mft_zone_end
           [] zone = "MFT_ZONE" /\ ~InMftZone(hint) ->
                IF mft_zone_end = 0 THEN 0 ELSE MftLcn
           [] OTHER -> hint

StartPass(zone, hint) ==
    IF \/ hint = NoHint /\ StartPos(zone, hint) = 0
       \/ hint # NoHint /\ ((zone = "DATA_ZONE") <=> InMftZone(hint))
    THEN 2
    ELSE 1

StartSearch(zone, start) ==
    IF zone = "MFT_ZONE"
    THEN "mft"
    ELSE IF start >= mft_zone_end THEN "data1" ELSE "data2"

ZoneLimit(z) == CASE z = "mft"   -> mft_zone_end
                  [] z = "data1" -> NrClusters
                  [] z = "data2" -> mft_zone_start

Alloc(zone, count, hint) ==
    LET start == StartPos(zone, hint)
    IN  /\ pc = "idle"
        /\ calls < MaxCalls
        /\ calls' = calls + 1
        /\ pc' = "scan"
        /\ req' = [zone |-> zone, count |-> count, hint |-> hint]
        /\ zone_start' = start
        /\ bmp_pos' = start
        /\ bmp_initial_pos' = start
        /\ pass' = StartPass(zone, hint)
        /\ search_zone' = StartSearch(zone, start)
        /\ zone_end' = ZoneLimit(StartSearch(zone, start))
        /\ done_zones' = IF zone = "DATA_ZONE" THEN {"mft"} ELSE {}
        /\ UNCHANGED <<disk, zones, taken, last, err, faults>>
-----------------------------------------------------------------------------
(* The scan.  The window starts at the byte that holds bmp_pos; bits are   *)
(* examined from bmp_pos on, up to the end of the search range.            *)
WindowStart == bmp_pos - (bmp_pos % 8)
WindowEnd == IF WindowStart + 8 * WindowBytes <= BitmapBits
             THEN WindowStart + 8 * WindowBytes
             ELSE BitmapBits
Window == {l \in bmp_pos .. WindowEnd - 1 : l < zone_end}

(* The free clusters of the window that the call would take: the lowest,   *)
(* as many as it still needs.                                              *)
Needed_OneMore == req.count + 1 - Cardinality(taken)
Needed == req.count - Cardinality(taken)
\* Mutant: a byte with a free cluster is free as a whole.
FreeInWindow_ByByte == {l \in Window : \E k \in Window \ bmp : k \div 8 = l \div 8}
FreeInWindow == Window \ bmp
InWindow == Lowest(FreeInWindow, Needed)
Completes == Cardinality(FreeInWindow) >= Needed

LastOf(S) == IF S = {} THEN last ELSE Largest(S)

(* The new position of a zone when tc is the cluster after the last one    *)
(* allocated; the same code runs on completion and on a zone switch.       *)
Advances(pos, tc) == bmp_initial_pos >= pos \/ tc > pos

NextMftPos(tc) ==
    IF tc >= mft_zone_end THEN IF mft_zone_end = 0 THEN 0 ELSE MftLcn
    ELSE IF Advances(mft_zone_pos, tc) /\ tc >= MftLcn THEN tc
    ELSE mft_zone_pos

NextData1Pos(tc) ==
    IF tc >= NrClusters THEN mft_zone_end
    ELSE IF Advances(data1_zone_pos, tc) /\ tc >= mft_zone_end THEN tc
    ELSE data1_zone_pos

NextData2Pos(tc) ==
    IF tc >= mft_zone_start THEN 0
    ELSE IF Advances(data2_zone_pos, tc) THEN tc
    ELSE data2_zone_pos

UpdateZonePos(tc) ==
    /\ mft_zone_pos' = IF search_zone = "mft" THEN NextMftPos(tc)
                       ELSE mft_zone_pos
    /\ data1_zone_pos' = IF search_zone = "data1" THEN NextData1Pos(tc)
                         ELSE data1_zone_pos
    /\ data2_zone_pos' = IF search_zone = "data2" THEN NextData2Pos(tc)
                         ELSE data2_zone_pos
    /\ UNCHANGED <<mft_zone_start, mft_zone_end>>

(* The attribute ends before the window: br = 0.                           *)
ScanPastEnd ==
    /\ pc = "scan"
    /\ bmp_pos >= BitmapBits
    /\ pc' = "pass_done"
    /\ UNCHANGED <<disk, zones, req, taken, last, search, err, calls, faults>>

(* The whole window is scanned and more clusters are needed.               *)
ScanWindow ==
    /\ pc = "scan"
    /\ bmp_pos < BitmapBits
    /\ ~Completes
    /\ bmp' = bmp \union InWindow
    /\ taken' = taken \union InWindow
    /\ last' = LastOf(InWindow)
    /\ bmp_pos' = WindowEnd
    /\ pc' = IF WindowEnd < zone_end THEN "scan" ELSE "pass_done"
    /\ UNCHANGED <<owned, exposed, lost, zones, req, zone_start, zone_end,
                   bmp_initial_pos, pass, done_zones, search_zone, err,
                   calls, faults>>

(* The last cluster needed is found: the caller gets the runlist.          *)
ScanCompletes ==
    /\ pc = "scan"
    /\ bmp_pos < BitmapBits
    /\ Completes
    /\ bmp' = bmp \union InWindow
    /\ owned' = owned \union taken \union InWindow
    /\ UpdateZonePos(LastOf(InWindow) + 1)
    /\ Return
    /\ UNCHANGED <<exposed, lost, calls, faults>>

(* The window cannot be read.                                              *)
ScanReadFails ==
    /\ pc = "scan"
    /\ bmp_pos < BitmapBits
    /\ Fault
    /\ pc' = "undo"
    /\ err' = "EIO"
    /\ UNCHANGED <<disk, zones, req, taken, last, search, calls>>

(* The window cannot be written back, or is written in part, up to some    *)
(* byte.  Positions have been updated already if the call was complete.    *)
ScanWriteFails ==
    /\ pc = "scan"
    /\ bmp_pos < BitmapBits
    /\ InWindow # {}
    /\ Fault
    /\ \E byte \in 0 .. WindowBytes :
          bmp' = bmp \union {l \in InWindow : l < WindowStart + 8 * byte}
    /\ taken' = taken \union InWindow
    /\ last' = LastOf(InWindow)
    /\ IF Completes
       THEN UpdateZonePos(LastOf(InWindow) + 1)
       ELSE UNCHANGED zones
    /\ bmp_pos' = IF Completes THEN WindowStart ELSE WindowEnd
    /\ pc' = "undo"
    /\ err' = "EIO"
    /\ UNCHANGED <<owned, exposed, lost, req, zone_start, zone_end,
                   bmp_initial_pos, pass, done_zones, search_zone, calls>>

(* The runlist cannot grow at the cluster full: what has been taken before *)
(* it is written back, or as much of it as can be, and then undone.           *)
ScanNoMemory ==
    /\ pc = "scan"
    /\ bmp_pos < BitmapBits
    /\ Fault
    /\ \E full \in InWindow, byte \in 0 .. WindowBytes :
          LET before == {l \in InWindow : l < full}
              written == {l \in before : l < WindowStart + 8 * byte}
          IN  /\ bmp' = bmp \union written
              /\ taken' = taken \union before
              /\ last' = LastOf(before)
              /\ err' = IF written = before THEN "ENOMEM" ELSE "EIO"
    /\ bmp_pos' = WindowStart
    /\ pc' = "undo"
    /\ UNCHANGED <<owned, exposed, lost, zones, req, zone_start, zone_end,
                   bmp_initial_pos, pass, done_zones, search_zone, calls>>
-----------------------------------------------------------------------------
(* zone_pass_done: the first pass is followed by a second one over the     *)
(* part of the zone before the starting position.                          *)
ZoneBase_AtPos(z) == CASE z = "mft"   -> mft_zone_pos
                       [] z = "data1" -> data1_zone_pos
                       [] z = "data2" -> data2_zone_pos

ZoneBase(z) == CASE z = "mft"   -> mft_zone_start
                 [] z = "data1" -> mft_zone_end
                 [] z = "data2" -> 0

\* Mutant: the second pass is not counted.
SecondPass_Again ==
    LET base == ZoneBase(search_zone)
    IN  /\ pc = "pass_done"
        /\ pass = 1
        /\ zone_start' = base
        /\ zone_end' = IF zone_start < base THEN base ELSE zone_start
        /\ bmp_pos' = base
        /\ pc' = "scan"
        /\ UNCHANGED <<disk, zones, req, taken, last, bmp_initial_pos, pass,
                       done_zones, search_zone, err, calls, faults>>

SecondPass ==
    LET base == ZoneBase(search_zone)
    IN  /\ pc = "pass_done"
        /\ pass = 1
        /\ pass' = 2
        /\ zone_start' = base
        /\ zone_end' = IF zone_start < base THEN base ELSE zone_start
        /\ bmp_pos' = base
        /\ pc' = "scan"
        /\ UNCHANGED <<disk, zones, req, taken, last, bmp_initial_pos,
                       done_zones, search_zone, err, calls, faults>>

EndOfZone ==
    /\ pc = "pass_done"
    /\ pass = 2
    /\ pc' = "zone_done"
    /\ UNCHANGED <<disk, zones, req, taken, last, search, err, calls, faults>>

(* done_zones_check: switch to a zone that has not been searched.          *)
Finished_NoSwitch == IF search_zone = "data1" THEN Zones
                     ELSE done_zones \union {search_zone}
Finished == done_zones \union {search_zone}
Moved(z, pos, next) == IF search_zone = z /\ taken # {} THEN next ELSE pos

SwitchToData1 ==
    LET past == data1_zone_pos >= NrClusters
        start == IF past THEN mft_zone_end ELSE data1_zone_pos
    IN  /\ pc = "zone_done"
        /\ Finished # Zones
        /\ search_zone \in {"mft", "data2"}
        /\ mft_zone_pos' = Moved("mft", mft_zone_pos, NextMftPos(last + 1))
        /\ data2_zone_pos' = Moved("data2", data2_zone_pos,
                                   NextData2Pos(last + 1))
        /\ data1_zone_pos' = start
        /\ bmp_initial_pos' = data1_zone_pos
        /\ zone_start' = start
        /\ bmp_pos' = start
        /\ zone_end' = NrClusters
        /\ pass' = IF start = mft_zone_end THEN 2 ELSE 1
        /\ search_zone' = "data1"
        /\ done_zones' = Finished
        /\ pc' = IF start = NrClusters THEN "zone_done" ELSE "scan"
        /\ UNCHANGED <<disk, mft_zone_start, mft_zone_end, req, taken, last,
                       err, calls, faults>>

SwitchToData2 ==
    LET past == data2_zone_pos >= mft_zone_start
        start == IF past THEN 0 ELSE data2_zone_pos
    IN  /\ pc = "zone_done"
        /\ Finished # Zones
        /\ search_zone = "data1"
        /\ data1_zone_pos' = Moved("data1", data1_zone_pos,
                                   NextData1Pos(last + 1))
        /\ data2_zone_pos' = start
        /\ bmp_initial_pos' = start
        /\ zone_start' = start
        /\ bmp_pos' = start
        /\ zone_end' = mft_zone_start
        /\ pass' = IF start = 0 THEN 2 ELSE 1
        /\ search_zone' = "data2"
        /\ done_zones' = Finished
        /\ pc' = IF start = mft_zone_start THEN "zone_done" ELSE "scan"
        /\ UNCHANGED <<disk, mft_zone_start, mft_zone_end, mft_zone_pos, req,
                       taken, last, err, calls, faults>>

(* All zones are finished.                                                 *)
NoSpace ==
    /\ pc = "zone_done"
    /\ Finished = Zones
    /\ req.zone = "MFT_ZONE" \/ mft_zone_end <= mft_zone_start
    /\ done_zones' = Finished
    /\ pc' = "undo"
    /\ err' = "ENOSPC"
    /\ UNCHANGED <<disk, zones, req, taken, last, zone_start, zone_end,
                   bmp_pos, bmp_initial_pos, pass, search_zone, calls, faults>>

(* A data request takes over the second half of the mft zone.              *)
ShrinkMftZone ==
    LET size == (mft_zone_end - mft_zone_start) \div 2
        start == IF size > 0 THEN mft_zone_start ELSE 0
        end == IF size > 0 THEN mft_zone_start + size ELSE 0
    IN  /\ pc = "zone_done"
        /\ Finished = Zones
        /\ req.zone = "DATA_ZONE" /\ mft_zone_end > mft_zone_start
        /\ mft_zone_start' = start
        /\ mft_zone_end' = end
        /\ mft_zone_pos' = CASE mft_zone_pos < end -> mft_zone_pos
                             [] end = 0 -> 0
                             [] OTHER -> MftLcn
        /\ data1_zone_pos' = end
        /\ data2_zone_pos' = IF size > 0 THEN data2_zone_pos ELSE 0
        /\ zone_end' = mft_zone_end
        /\ zone_start' = end
        /\ bmp_pos' = end
        /\ bmp_initial_pos' = end
        /\ search_zone' = "data1"
        /\ pass' = 2
        /\ done_zones' = Finished \ {"data1"}
        /\ pc' = "scan"
        /\ UNCHANGED <<disk, req, taken, last, err, calls, faults>>
-----------------------------------------------------------------------------
(* err_ret: the clusters allocated so far are freed; the result of         *)
(* ntfs_cluster_free_from_rl is ignored.                                   *)
Undo_LastWindow ==
    /\ pc = "undo"
    /\ bmp' = bmp \ {l \in taken : l >= WindowStart}
    /\ Return
    /\ UNCHANGED <<owned, exposed, lost, zones, calls, faults>>

Undo ==
    /\ pc = "undo"
    /\ bmp' = bmp \ taken
    /\ Return
    /\ UNCHANGED <<owned, exposed, lost, zones, calls, faults>>

UndoFails ==
    /\ pc = "undo"
    /\ taken # {}
    /\ Fault
    /\ \E cleared \in SUBSET taken :
          /\ bmp' = bmp \ cleared
          /\ lost' = lost \union ((bmp \intersect taken) \ (cleared \union owned))
    /\ Return
    /\ UNCHANGED <<owned, exposed, zones, calls>>

(* ntfs_cluster_free of a range of an attribute.  Bits are cleared in      *)
(* ascending order, so a failure leaves a prefix of the range cleared.     *)
Prefixes(S) == {{l \in S : l < cut} : cut \in 0 .. NrClusters}

Free(S) ==
    /\ pc = "idle"
    /\ calls < MaxCalls
    /\ calls' = calls + 1
    /\ bmp' = bmp \ S
    /\ owned' = owned \ (S \ exposed)
    /\ UNCHANGED <<exposed, lost, zones, pc, req, taken, last, search, err,
                   faults>>

(* It fails after clearing a part.  There is no rollback: a caller that    *)
(* gives up keeps mapping what is free (ntfs_attr_shrink), a caller that   *)
(* goes on unmaps what is not (ntfs_attr_rm).                              *)
FreeFails(S) ==
    /\ pc = "idle"
    /\ calls < MaxCalls
    /\ calls' = calls + 1
    /\ Fault
    /\ \E cleared \in Prefixes(S) :
          /\ bmp' = bmp \ cleared
          /\ \/ exposed' = exposed \union cleared /\ UNCHANGED <<owned, lost>>
             \/ /\ owned' = owned \ (S \ exposed)
                /\ lost' = lost \union (S \ (cleared \union exposed))
                /\ UNCHANGED exposed
    /\ UNCHANGED <<zones, pc, req, taken, last, search, err>>

(* The program dies in a call and the volume is mounted again.  A free     *)
(* clears $Bitmap before the caller updates the mapping pairs, so the      *)
(* attribute on disk still maps what was cleared.                          *)
CrashInAlloc ==
    /\ pc # "idle"
    /\ Fault
    /\ lost' = lost \union ((bmp \intersect taken) \ owned)
    /\ Remount
    /\ Return
    /\ UNCHANGED <<bmp, owned, exposed, calls>>

CrashInFree(S) ==
    /\ pc = "idle"
    /\ calls < MaxCalls
    /\ calls' = calls + 1
    /\ Fault
    /\ \E cleared \in Prefixes(S) :
          bmp' = bmp \ cleared /\ exposed' = exposed \union cleared
    /\ Remount
    /\ UNCHANGED <<owned, lost, pc, req, taken, last, search, err>>
-----------------------------------------------------------------------------
(* The clusters a caller frees: a run of the clusters it maps.             *)
Ranges == {S \in {lo .. hi : lo, hi \in owned} : S # {} /\ S \subseteq owned}

AllocStep ==
    \/ ScanPastEnd \/ ScanWindow \/ ScanCompletes
    \/ ScanReadFails \/ ScanWriteFails \/ ScanNoMemory
    \/ SecondPass \/ EndOfZone \/ SwitchToData1 \/ SwitchToData2
    \/ NoSpace \/ ShrinkMftZone \/ Undo \/ UndoFails

Next ==
    \/ \E zone \in AllocZones, count \in Counts, hint \in Hints :
          Alloc(zone, count, hint)
    \/ AllocStep
    \/ \E S \in Ranges : Free(S) \/ FreeFails(S) \/ CrashInFree(S)
    \/ CrashInAlloc

Spec == Init /\ [][Next]_vars

(* A call in progress runs on: nothing in it waits.                        *)
FairSpec == Spec /\ WF_vars(AllocStep)
-----------------------------------------------------------------------------
(* Type invariant of the allocator's state (struct ntfs_volume and the     *)
(* locals of ntfs_cluster_alloc).                                          *)
DiskTypeOK ==
    /\ bmp \subseteq 0 .. BitmapBits - 1
    /\ owned \subseteq Cluster /\ exposed \subseteq owned
    /\ lost \subseteq Cluster

ZonesTypeOK ==
    /\ mft_zone_start \in 0 .. NrClusters /\ mft_zone_end \in 0 .. NrClusters
    /\ mft_zone_pos \in 0 .. NrClusters
    /\ data1_zone_pos \in 0 .. NrClusters /\ data2_zone_pos \in 0 .. NrClusters

CallTypeOK ==
    /\ pc \in {"idle", "scan", "pass_done", "zone_done", "undo"}
    /\ req \in [zone : AllocZones, count : Nat, hint : Int]
    /\ err \in {"none", "EIO", "ENOMEM", "ENOSPC"}
    /\ calls \in 0 .. MaxCalls /\ faults \in 0 .. MaxFaults

SearchTypeOK ==
    /\ taken \subseteq Cluster
    /\ last \in -1 .. NrClusters - 1
    /\ zone_start \in 0 .. NrClusters /\ zone_end \in 0 .. NrClusters
    /\ bmp_pos \in 0 .. BitmapBits /\ bmp_initial_pos \in 0 .. NrClusters
    /\ pass \in {1, 2}
    /\ done_zones \subseteq Zones /\ search_zone \in Zones

TypeOK == DiskTypeOK /\ ZonesTypeOK /\ CallTypeOK /\ SearchTypeOK

(* The clusters a call is building a runlist from belong to nobody else,   *)
(* but for those a failed free marked free under their owner: what         *)
(* ntfs_cluster_alloc returns never overlaps an attribute or a lost        *)
(* cluster, over all windows, passes, zone switches and failed calls.      *)
NoDoubleAllocation ==
    /\ taken \intersect owned \subseteq exposed
    /\ taken \intersect lost = {}

(* $Bitmap accounts for every cluster: a bit is set if and only if the     *)
(* cluster is mapped, lost or part of the runlist being built; only the    *)
(* bits of exposed clusters and of a runlist being undone are uncertain.   *)
(* It is the equality a file system checker verifies.                      *)
BitmapMatchesOwners ==
    LET building == IF pc = "undo" THEN {} ELSE taken
    IN  /\ Padding \subseteq bmp
        /\ (owned \ exposed) \union lost \union building \subseteq bmp
        /\ bmp \intersect Cluster \subseteq owned \union lost \union taken
        /\ lost \intersect owned = {}

(* Without faults a data request is refused only when every cluster of the *)
(* volume is in use: the two passes over each zone, the zone switches and  *)
(* the shrinking of the mft zone leave no cluster unexamined.  An mft      *)
(* request whose hint lies outside the mft zone is not covered.            *)
HintOutsideZone ==
    req.zone = "MFT_ZONE" /\ req.hint # NoHint /\ ~InMftZone(req.hint)

EnospcMeansFull ==
    err = "ENOSPC" /\ ~HintOutsideZone => Cluster \subseteq bmp

(* The mft zone is kept for the mft while there is anything else left: a   *)
(* data request takes none of its clusters, and it loses clusters to the   *)
(* data zones only when nothing outside it is free.                        *)
MftZoneIsTakenLast ==
    [][/\ mft_zone_end' < mft_zone_end =>
            Cluster \ (mft_zone_start .. mft_zone_end - 1) \subseteq bmp
       /\ req.zone = "DATA_ZONE" /\ pc = "scan" =>
            \A l \in taken' \union (owned' \ owned) :
               l \in taken \/ ~InMftZone(l)]_vars

(* Every call comes to an end: the passes and the zone switches do not go  *)
(* round in circles.                                                       *)
CallReturns == pc # "idle" ~> pc = "idle"

(* The allocator implements the cluster store: a call that succeeds hands  *)
(* out exactly as many clusters as it was asked for, none of them owned or *)
(* lost, and a call that fails takes no cluster away from anybody.         *)
Store == INSTANCE ClusterStore
            WITH asked <- IF pc = "idle" THEN 0 ELSE req.count
ImplementsStore == Store!StoreSpec
=============================================================================
