------------------------------- MODULE Resize -------------------------------
(***************************************************************************)
(* ntfsresize: moves every run that lies behind the new end of the volume, *)
(* then changes $BadClus, $Bitmap and at last the boot sector, write by    *)
(* write.  The program may stop behind any write, be it for a failure, for *)
(* which it exits, or because it is killed; what is on the disk then has   *)
(* to be a volume still, and the program may be run again.                 *)
(*                                                                         *)
(* The volume has $MFT, whose clusters hold the records of the files and   *)
(* can be moved but for the first run, $MFTMirr, $Bitmap, $BadClus and a   *)
(* file.  A record is the lcns of the clusters of its attribute and a size.*)
(* With split, $MFT has a second extent, whose record lies in $MFT itself. *)
(***************************************************************************)
EXTENDS Integers, FiniteSets, SequencesExt, FiniteSetsExt

CONSTANTS
    Device,         \* clusters of the device
    OldSize,        \* clusters of the volume at first
    NewSizes,       \* sizes that are asked for
    Granule,        \* $Bitmap has a multiple of so many bits, 64 in the code
    MaxRuns         \* bound on how often the volume is resized

ASSUME ResizeAssumption ==
    /\ Device \in Nat /\ OldSize \in 9..Device /\ NewSizes \subseteq 1..Device
    /\ Granule \in Nat \ {0} /\ MaxRuns \in Nat

Mft == "$MFT"
MftExt == "extent of $MFT"
MftMirr == "$MFTMirr"
Bitmap == "$Bitmap"
BadClus == "$BadClus"
File == "file"

(* The records in the order of their numbers, and the clusters of $MFT     *)
(* they are in; those of the mirror are in clusters of their own there.    *)
Refs == <<Mft, MftMirr, Bitmap, BadClus, MftExt, File>>
VcnOf(f) == CASE f = File -> 3 [] f = MftExt -> 2 [] OTHER -> 1
InVcn(v) == {f \in Range(Refs) : VcnOf(f) = v}
Mirrored == <<Mft, MftMirr>>

VARIABLES
    cell,           \* what each cluster of the device holds
    boot,           \* the boot sector: clusters of the volume, the mirror
    dirty,          \* the flag of the volume on the disk
    split,          \* whether $MFT has two extents
    pc,
    runs,           \* how often it has been resized
    mem,            \* what a run of the program knows
    behind,         \* the record of which only $MFT has what was written last
    gaveUp          \* whether a run has ended with "Please report!" or no space

vars == <<cell, boot, dirty, split, pc, runs, mem, behind, gaveUp>>
disk == <<cell, boot, dirty, behind>>

MftStart == 1
Data(f, v) == [file |-> f, vcn |-> v]
Junk == [junk |-> TRUE]
Rec(map, size) == [map |-> map, size |-> size]
BitmapSize(nr) == ((nr + Granule - 1) \div Granule) * Granule
-----------------------------------------------------------------------------
(* What the disk says, to whoever opens the volume: $MFT from its first    *)
(* cluster on, the records in it, the clusters in use.                     *)
RecAt(map, f) == cell[map[VcnOf(f)]].recs[f]
MftBase == cell[MftStart].recs[Mft].map
MftMap == IF split THEN MftBase \o RecAt(MftBase, MftExt).map ELSE MftBase
OnDisk(f) == RecAt(MftMap, f)
Named(f) == Range(OnDisk(f).map)
Files == {MftMirr, Bitmap, File}
InUse == {0} \union Range(MftMap) \union UNION {Named(f) : f \in Files}
NrInUse == 1 + Len(MftMap) + Len(OnDisk(MftMirr).map) + Len(OnDisk(Bitmap).map) + Len(OnDisk(File).map)
BitsOnDisk == cell[OnDisk(Bitmap).map[1]].bits

(* ntfs_mftmirr_load and the comparison with $MFT.                         *)
MirrorMap == OnDisk(MftMirr).map
MirrorInPlace == \A v \in 1..Len(MirrorMap) : MirrorMap[v] = boot.mirr + v - 1
Mountable ==
    /\ MirrorInPlace
    /\ \A v \in 1..Len(Mirrored) : cell[MirrorMap[v]] = [rec |-> OnDisk(Mirrored[v])]

(* check_cluster_allocation; an extra cluster in the middle may be the     *)
(* backup of the boot sector.                                              *)
Accounted ==
    /\ InUse \subseteq 0..boot.nr - 1 /\ NrInUse = Cardinality(InUse)
    /\ boot.nr <= OnDisk(Bitmap).size
    /\ \A c \in 0..boot.nr - 1 :
          (c \in BitsOnDisk) = (c \in InUse) \/ (c = boot.nr \div 2 /\ c \in BitsOnDisk)

(* collect_resize_constraints, collect_relocation_info and                 *)
(* check_resize_constraints                                                *)
FirstRun == Max({n \in 1..Len(MftBase) : \A v \in 1..n : MftBase[v] = MftStart + v - 1})
Supported(new) ==
    new < boot.nr =>
        /\ NrInUse < boot.nr /\ NrInUse <= new
        /\ MftStart + FirstRun <= new
        /\ (\A c \in Named(MftMirr) : c < new) \/ (\A c \in Named(MftMirr) : c >= new)
-----------------------------------------------------------------------------
(* The placements a volume may have: a mirror of neighbours.               *)
Runs(n) == {s \in [1..n -> 2..OldSize - 1] : \A i, j \in 1..n : i # j => s[i] # s[j]}
Neighbours(s) == \A i \in 1..Len(s) - 1 : s[i + 1] = s[i] + 1
Idle == [new |-> 0]

Init ==
    /\ split \in BOOLEAN
    /\ \E m \in Runs(2), r \in Runs(2), a \in Runs(2), b \in 2..OldSize - 1 :
          LET used == {0, MftStart, b} \union Range(m) \union Range(r) \union Range(a)
              base == <<MftStart>> \o m
              map == [f \in Range(Refs) |->
                        CASE f = Mft -> IF split THEN SubSeq(base, 1, 2) ELSE base
                          [] f = MftExt -> IF split THEN <<m[2]>> ELSE <<>>
                          [] f = MftMirr -> r [] f = File -> a [] f = Bitmap -> <<b>> [] OTHER -> <<>>]
              size == [f \in Range(Refs) |->
                        CASE f = Bitmap -> BitmapSize(OldSize) [] f = BadClus -> OldSize [] OTHER -> 0]
              rec == [f \in Range(Refs) |-> Rec(map[f], size[f])]
          IN /\ Cardinality(used) = 9 /\ Neighbours(r) /\ Neighbours(a)
             /\ cell = [c \in 0..Device - 1 |->
                          CASE c \in Range(base) ->
                                 LET v == CHOOSE v \in 1..3 : base[v] = c
                                 IN [recs |-> [f \in InVcn(v) |-> rec[f]]]
                            [] c = r[1] -> [rec |-> rec[Mft]]
                            [] c = r[2] -> [rec |-> rec[MftMirr]]
                            [] c \in Range(a) -> Data(File, c + 1 - a[1])
                            [] c = b -> [bits |-> used \union OldSize..BitmapSize(OldSize) - 1]
                            [] OTHER -> Junk]
             /\ boot = [nr |-> OldSize, mirr |-> r[1]]
    /\ dirty = FALSE
    /\ pc = "off" /\ runs = 0 /\ mem = Idle
    /\ behind = {} /\ gaveUp = FALSE

(* Where the mirror was and where the first run of it is.                  *)
Unmoved == [old |-> 0, lcn |-> 0, len |-> 0]

(* main up to the question whether to go on.  A volume that is marked is   *)
(* taken with the option -f only, which is given here.                     *)
Start(new) ==
    /\ pc = "off" /\ runs < MaxRuns /\ Mountable
    /\ new # boot.nr /\ Accounted /\ Supported(new)
    /\ mem' = [new |-> new, mft |-> MftMap, mirr |-> MirrorMap,
               bm |-> InUse, pos |-> 0, range |-> 0,
               relocations |-> new < boot.nr /\ \E c \in InUse \ Named(Bitmap) : c >= new,
               at |-> 1, pass |-> 0, high |-> 0, before |-> 0,
               rec |-> <<>>, dest |-> <<>>, copied |-> 0,
               moved |-> Unmoved]
    /\ pc' = "prepare" /\ behind' = {} /\ gaveUp' = FALSE
    /\ UNCHANGED <<cell, boot, dirty, split, runs>>

(* What the program is about to do, when it has written all of a record.   *)
In(phase) == pc = phase /\ behind = {}

(* prepare_volume_fixup                                                    *)
Prepare ==
    /\ In("prepare") /\ dirty' = TRUE
    /\ pc' = IF mem.relocations THEN "inode" ELSE "badclus"
    /\ UNCHANGED <<cell, boot, split, runs, mem, behind, gaveUp>>
-----------------------------------------------------------------------------
(* Records are read and written where they were when the program started:  *)
(* vol->mft_na and vol->mftmirr_na keep the runlists of the mount.         *)
MemRec(f) == RecAt(mem.mft, f)
WithRec(f, rec) == [cell EXCEPT ![mem.mft[VcnOf(f)]].recs[f] = rec]

(* The program finds no space or its sanity check fails.                   *)
GiveUp ==
    /\ pc' = "off" /\ mem' = Idle /\ gaveUp' = TRUE
    /\ UNCHANGED <<disk, split, runs>>

(* handle_mftdata.  The first pass leaves $MFT out and finds its highest   *)
(* vcn, the second takes its extents only, from the last one down.         *)
IsMftData(f) == f \in {Mft, MftExt}
HighestVcn(f) == IF f = Mft THEN Len(MemRec(Mft).map) - 1 ELSE 2
LowestVcn(f) == IF f = Mft THEN 0 ELSE 2
Exists(f) == f = MftExt => split

NextAt(m) ==
    IF m.pass = 0
    THEN IF m.at < Len(Refs) THEN [m EXCEPT !.at = @ + 1] ELSE [m EXCEPT !.pass = 1, !.before = m.high]
    ELSE [m EXCEPT !.at = @ - 1]
EndsPass(m) == m.pass = 1 /\ m.high = 0

(* $MFT is not kept for the end.                                           *)
Taken_MftInTurn(f) == Exists(f) /\ f \notin {Bitmap, BadClus} /\ mem.pass = 0

(* relocate_attributes: what it leaves alone, and what it looks at.        *)
Taken(f) == /\ Exists(f) /\ f \notin {Bitmap, BadClus}
            /\ IF mem.pass = 0 THEN ~IsMftData(f) ELSE IsMftData(f) /\ mem.high = HighestVcn(f)
(* The lowest vcn of an extent is looked for again, not the one below it.  *)
HighAfter_NotBelow(f) ==
    IF Exists(f) /\ IsMftData(f) /\ mem.pass = 0 THEN Max({mem.high, HighestVcn(f)}) ELSE mem.high

HighAfter(f) ==
    IF ~Exists(f) \/ ~IsMftData(f) THEN mem.high
    ELSE IF mem.pass = 0 THEN Max({mem.high, HighestVcn(f)})
    ELSE IF mem.high = HighestVcn(f) THEN Max({0, LowestVcn(f) - 1}) ELSE mem.high

Outside(rec) == {v \in 1..Len(rec.map) : rec.map[v] >= mem.new}

(* The records are gone through downwards again, unless nothing was found  *)
(* the last time.                                                          *)
AnotherPass ==
    IF mem.high = mem.before THEN GiveUp
    ELSE /\ mem' = [mem EXCEPT !.at = Len(Refs), !.before = mem.high]
         /\ UNCHANGED <<disk, split, runs, pc, gaveUp>>

(* relocate_inode *)
TakeInode ==
    /\ In("inode")
    /\ LET f == Refs[mem.at]
           m == [mem EXCEPT !.high = HighAfter(f)]
       IN IF mem.at = 0 THEN AnotherPass
          ELSE /\ IF Taken(f) /\ Outside(MemRec(f)) # {}
                  THEN mem' = [m EXCEPT !.rec = MemRec(f)] /\ pc' = "allocate"
                  ELSE IF EndsPass(m) THEN mem' = m /\ pc' = "badclus"
                  ELSE mem' = NextAt(m) /\ UNCHANGED pc
               /\ UNCHANGED <<disk, split, runs, gaveUp>>

(* relocate_run: the run at the first vcn that is outside.                 *)
RunAt == Min(Outside(mem.rec))
RunLen == LET ends == {n \in 1..Len(mem.rec.map) + 1 - RunAt :
                         \A i \in 0..n - 1 : mem.rec.map[RunAt + i] = mem.rec.map[RunAt] + i}
          IN Max(ends)

(* find_free_cluster: the first zone of enough clusters, in a search from  *)
(* pos on and around; if there is none, the longest zone, or the first one *)
(* as long as the longest can be.                                          *)
Zones(bm, nr, pos) ==
    {z \in [at : 0..nr - 1, end : 1..nr] :
        /\ z.at < z.end /\ (z.at >= pos \/ z.end <= pos)
        /\ z.at..z.end - 1 \intersect bm = {}
        /\ z.at \in {0, pos} \/ z.at - 1 \in bm
        /\ z.end \in {pos, nr} \/ z.end \in bm}
Found(zones, items, pos, range) ==
    LET len(z) == z.end - z.at
        before(y, z) == IF (y.at >= pos) = (z.at >= pos) THEN y.at < z.at ELSE y.at >= pos
        stops == {z \in zones : len(z) >= items
                     \/ (len(z) = range /\ \A y \in zones : before(y, z) => len(y) < len(z))}
        longest == {z \in zones : \A y \in zones : len(y) <= len(z)}
        first(s) == CHOOSE z \in s : \A y \in s : ~before(y, z)
        z == IF stops # {} THEN first(stops) ELSE first(longest)
    IN [lcn |-> z.at, len |-> Min({items, len(z)})]
SearchFrom(nr, hint) == IF hint THEN nr \div 2 ELSE IF mem.pos >= nr THEN 0 ELSE mem.pos
(* set_bitmap is forgotten.                                                *)
Took_NotSet(m, r, items, nr) ==
    [m EXCEPT !.dest = @ \o [i \in 1..r.len |-> r.lcn + i - 1],
              !.pos = IF r.lcn + items = nr THEN 0 ELSE r.lcn + items]

Took(m, r, items, nr) ==
    [m EXCEPT !.bm = @ \union r.lcn..r.lcn + r.len - 1,
              !.dest = @ \o [i \in 1..r.len |-> r.lcn + i - 1],
              !.pos = IF r.lcn + items = nr THEN 0 ELSE r.lcn + items]

(* alloc_cluster, run by run, and what relocate_clusters keeps of the      *)
(* mirror.                                                                 *)
Allocate ==
    /\ In("allocate")
    /\ LET mirror == Refs[mem.at] = MftMirr
           items == RunLen - Len(mem.dest)
           range == IF mem.range = 0 THEN mem.new ELSE mem.range
           from == SearchFrom(mem.new, mirror /\ mem.dest = <<>>)
       IN \E zones \in {Zones(mem.bm, mem.new, from)} :
          IF zones = {} THEN GiveUp
          ELSE
             /\ \E r \in {Found(zones, items, from, range)} :
                /\ mem' = [Took(mem, r, items, mem.new) EXCEPT
                             !.range = IF r.len < items THEN Min({r.len, range}) ELSE range,
                             !.moved = IF mirror /\ @ = Unmoved
                                       THEN [old |-> mem.rec.map[RunAt], lcn |-> r.lcn, len |-> r.len] ELSE @]
                /\ pc' = IF r.len = items THEN "copy" ELSE "allocate"
             /\ UNCHANGED <<disk, split, runs, gaveUp>>

(* copy_clusters; behind the last one rl_insert_at_run.                    *)
Copy ==
    /\ In("copy")
    /\ LET i == mem.copied IN
       /\ cell' = [cell EXCEPT ![mem.dest[i + 1]] = cell[mem.rec.map[RunAt + i]]]
       /\ IF i + 1 < Len(mem.dest)
          THEN mem' = [mem EXCEPT !.copied = i + 1] /\ UNCHANGED pc
          ELSE LET rec == [mem.rec EXCEPT !.map =
                             [v \in DOMAIN @ |-> IF v \in RunAt..RunAt + i
                                                 THEN mem.dest[v + 1 - RunAt] ELSE @[v]]]
               IN /\ mem' = [mem EXCEPT !.rec = rec, !.dest = <<>>, !.copied = 0]
                  /\ pc' = IF Outside(rec) # {} THEN "allocate" ELSE "record"
    /\ UNCHANGED <<boot, dirty, split, runs, behind, gaveUp>>

(* replace_attribute_runlist and write_mft_record, the write to $MFT.      *)
WriteInode ==
    /\ In("record")
    /\ cell' = WithRec(Refs[mem.at], mem.rec)
    /\ behind' = {Refs[mem.at]} \intersect Range(Mirrored)
    /\ IF EndsPass(mem) THEN pc' = "badclus" /\ UNCHANGED mem
       ELSE pc' = "inode" /\ mem' = NextAt(mem)
    /\ UNCHANGED <<boot, dirty, split, runs, gaveUp>>

(* ntfs_mft_records_write: then the same to the mirror.                    *)
WriteMirror ==
    /\ pc \notin {"off", "done"} /\ behind # {}
    /\ \E v \in 1..Len(Mirrored) :
          /\ Mirrored[v] \in behind
          /\ cell' = [cell EXCEPT ![mem.mirr[v]] = [rec |-> MemRec(Mirrored[v])]]
    /\ behind' = {}
    /\ UNCHANGED <<boot, dirty, split, pc, runs, mem, gaveUp>>
-----------------------------------------------------------------------------
(* truncate_badclust_file                                                  *)
TruncateBadClus ==
    /\ In("badclus")
    /\ cell' = WithRec(BadClus, Rec(<<>>, mem.new))
    /\ pc' = "bitmap"
    /\ UNCHANGED <<boot, dirty, split, runs, mem, behind, gaveUp>>

(* truncate_bitmap_file: its clusters are allocated anew, then written.    *)
(* The first cluster behind the end is left free.                          *)
Beyond_NotFirst == mem.new + 1..BitmapSize(mem.new) - 1

Beyond == mem.new..BitmapSize(mem.new) - 1
ReallocBitmap ==
    /\ In("bitmap")
    /\ LET free == mem.bm \ Range(MemRec(Bitmap).map)
           from == SearchFrom(mem.new, FALSE)
       IN \E zones \in {Zones(free, mem.new, from)} :
          IF zones = {} THEN GiveUp
          ELSE
             /\ \E r \in {Found(zones, 1, from, mem.new)} :
                LET m == Took([mem EXCEPT !.bm = free], r, 1, mem.new)
                IN mem' = [m EXCEPT !.bm = {c \in @ : c < mem.new} \union Beyond]
             /\ pc' = "bits"
             /\ UNCHANGED <<disk, split, runs, gaveUp>>

WriteBits ==
    /\ In("bits")
    /\ cell' = [cell EXCEPT ![mem.dest[1]] = [bits |-> mem.bm]]
    /\ pc' = "bitmap record"
    /\ UNCHANGED <<boot, dirty, split, runs, mem, behind, gaveUp>>

WriteBitmapRecord ==
    /\ In("bitmap record")
    /\ cell' = WithRec(Bitmap, Rec(mem.dest, BitmapSize(mem.new)))
    /\ pc' = "boot"
    /\ UNCHANGED <<boot, dirty, split, runs, mem, behind, gaveUp>>

(* update_bootsector: a mirror that was moved is copied once more, as the  *)
(* records in it have been written to the old one.                         *)
CopyMirror ==
    /\ In("boot") /\ mem.copied < mem.moved.len
    /\ cell' = [cell EXCEPT ![mem.moved.lcn + mem.copied] = cell[mem.moved.old + mem.copied]]
    /\ mem' = [mem EXCEPT !.copied = @ + 1]
    /\ UNCHANGED <<boot, dirty, split, pc, runs, behind, gaveUp>>

(* The mirror is left as it was when it was moved.                         *)
WriteBoot_MirrorOnce ==
    /\ In("boot") /\ mem.copied = 0
    /\ boot' = [nr |-> mem.new, mirr |-> IF mem.moved = Unmoved THEN boot.mirr ELSE mem.moved.lcn]
    /\ pc' = "done" /\ mem' = Idle /\ runs' = runs + 1
    /\ UNCHANGED <<cell, dirty, split, behind, gaveUp>>

WriteBoot ==
    /\ In("boot") /\ mem.copied = mem.moved.len
    /\ boot' = [nr |-> mem.new, mirr |-> IF mem.moved = Unmoved THEN boot.mirr ELSE mem.moved.lcn]
    /\ pc' = "done" /\ mem' = Idle /\ runs' = runs + 1
    /\ UNCHANGED <<cell, dirty, split, behind, gaveUp>>
-----------------------------------------------------------------------------
(* A read or a write fails, a record has no room, or the program is killed.*)
Stop ==
    /\ pc \notin {"off", "done"} /\ pc' = "off" /\ mem' = Idle
    /\ UNCHANGED <<disk, split, runs, gaveUp>>

Exit ==
    /\ pc = "done" /\ runs < MaxRuns /\ pc' = "off"
    /\ UNCHANGED <<disk, split, runs, mem, gaveUp>>

Step ==
    \/ Prepare \/ TakeInode \/ Allocate \/ Copy \/ WriteInode \/ WriteMirror
    \/ TruncateBadClus \/ ReallocBitmap \/ WriteBits \/ WriteBitmapRecord
    \/ CopyMirror \/ WriteBoot

Next == (\E new \in NewSizes : Start(new)) \/ Step \/ Stop \/ Exit

Spec == Init /\ [][Next]_vars /\ WF_vars(Step)
-----------------------------------------------------------------------------
(* Wherever the program stops, the boot sector leads to $MFT, the records  *)
(* in it to the clusters of the files, and those hold what they held.      *)
IsMft(map, v) == "recs" \in DOMAIN cell[map[v]] /\ DOMAIN cell[map[v]].recs = InVcn(v)
DataSurvives ==
    /\ IsMft(MftBase, 2) /\ \A v \in 1..Len(MftMap) : IsMft(MftMap, v)
    /\ \A v \in 1..Len(OnDisk(File).map) : cell[OnDisk(File).map[v]] = Data(File, v)
    /\ "bits" \in DOMAIN cell[OnDisk(Bitmap).map[1]]

(* Wherever it stops, no file has clusters outside of the volume, nor do   *)
(* two have one: the boot sector is written when all has moved.            *)
NothingOutside ==
    InUse \subseteq 0..boot.nr - 1 /\ NrInUse = Cardinality(InUse)

(* Unless it is marked for a check, and when the program is through, the   *)
(* volume agrees with itself: $Bitmap has the clusters in use and what is  *)
(* behind the end, $BadClus is as long as the volume.                      *)
AgreesUnlessMarked ==
    (~dirty \/ pc = "done") =>
        /\ OnDisk(Bitmap).size = BitmapSize(boot.nr) /\ OnDisk(BadClus).size = boot.nr
        /\ BitsOnDisk = InUse \union boot.nr..OnDisk(Bitmap).size - 1

(* Where the boot sector has the mirror there is a copy of the first       *)
(* records of $MFT as they are now, unless the mirror had to be broken up. *)
(* A record is written to $MFT and then to the mirror: of the one that was *)
(* written last the mirror may be behind, if the program stopped between.  *)
MirrorAtBoot ==
    /\ \E f \in Range(Mirrored) : behind \subseteq {f}
    /\ \/ boot.mirr = MirrorMap[1] /\ ~MirrorInPlace
       \/ \A v \in 1..Len(Mirrored) :
             Mirrored[v] \in behind \/ cell[boot.mirr + v - 1] = [rec |-> OnDisk(Mirrored[v])]

(* A run that nothing stops gets through: what was checked of the volume   *)
(* at the start makes the space suffice, each pass through the records     *)
(* finds an extent of $MFT, and the passes come to an end.                 *)
RunGetsThrough == pc # "off" ~> pc = "done" \/ (pc = "off" /\ ~gaveUp)

=============================================================================
