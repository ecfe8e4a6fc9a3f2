------------------------------ MODULE AttrData ------------------------------
(***************************************************************************)
(* The content of one attribute, in the mft record or in clusters:         *)
(* ntfs_attr_pwrite, ntfs_attr_truncate with ntfs_resident_attr_resize,    *)
(* ntfs_non_resident_attr_expand and _shrink, the two conversions, and     *)
(* ntfs_attr_update_mapping_pairs of libntfs/attrib.c, with what they need *)
(* of the runlist and the cluster code.                                    *)
(*                                                                         *)
(* What the attribute is, is said three times: by the open ntfs_attr (na), *)
(* by the attribute record in the mft record in memory (rec), and by the   *)
(* record on disk (disk).  $Bitmap and the clusters themselves are written *)
(* through.  A step is the code up to the next point where it can fail.    *)
(*                                                                         *)
(* A position is a part of a cluster (the code counts bytes); a buffer     *)
(* holds one value throughout.  A runlist is the sequence of the lcns of   *)
(* its vcns, and all of it is mapped.  The cluster allocator hands out any *)
(* free clusters, in any order, or fails: it is the subject of LcnAlloc.   *)
(* A value may be too long for the room in its mft record at any length:   *)
(* what ntfs_resident_attr_resize does to make room is AttrList's subject, *)
(* and here it succeeds or not.                                            *)
(***************************************************************************)
EXTENDS Integers, Sequences, FiniteSets, Functions, NatSets

CONSTANTS
    ClusterSize,    \* positions in a cluster
    NrClusters,     \* clusters of the volume
    MaxVcn,         \* clusters the attribute may map
    MaxResident,    \* the longest value that fits into a mft record
    Layouts,        \* the runlists the attribute may start with
    Counts,         \* the lengths of writes
    MaxCalls, MaxFaults     \* bounds of the model

Lcn == 0 .. NrClusters - 1
Hole == -1
MaxSize == MaxVcn * ClusterSize
Position == 0 .. MaxSize - 1

Zero == 0
Junk == -1                  \* what a cluster holds that was not written yet
Old == MaxCalls + 1         \* what the attribute holds at the start
Value == Junk .. Old

Used(map) == {map[i] : i \in DOMAIN map} \ {Hole}
NoneTwice(map) == \A i, j \in DOMAIN map : map[i] = map[j] /\ map[i] # Hole => i = j
Clusters(size) == (size + ClusterSize - 1) \div ClusterSize

ASSUME AttrAssumption ==
    /\ ClusterSize \in Nat \ {0} /\ NrClusters \in Nat \ {0} /\ MaxVcn \in Nat \ {0}
    /\ MaxResident \in 0 .. MaxSize
    /\ Counts \subseteq Nat \ {0} /\ MaxCalls \in Nat /\ MaxFaults \in Nat
    /\ \A map \in Layouts : /\ map \in Seq(Lcn \union {Hole})
                            /\ Len(map) \in 1 .. MaxVcn /\ NoneTwice(map)

VARIABLES
    data,       \* the content of the clusters, by address on the volume
    bmp,        \* the clusters marked in use in $Bitmap
    other,      \* the clusters of other attributes
    disk,       \* the attribute in the mft record on disk
    rec,        \* the attribute in the mft record in memory
    na,         \* the open attribute
    value,      \* its value, if it is resident, in rec
    sparse,     \* grows by holes: $DATA on a volume of version 3 or later
    pc, call,   \* the call in progress
    freed,      \* freed since the record was written; guards nothing
    scars,      \* inconsistencies left behind by failed calls
    calls, faults

vars == <<data, bmp, other, disk, rec, na, value, sparse, pc, call, freed, scars, calls, faults>>
volume == <<data, bmp, other>>
bounds == <<calls, faults>>

IsHole(map, p) == map[p \div ClusterSize + 1] = Hole
Address(map, p) == map[p \div ClusterSize + 1] * ClusterSize + (p % ClusterSize)

(* What ntfs_attr_pread returns for each position, and zero behind the end. *)
Content(a) ==
    [p \in Position |->
        IF a.res THEN IF p < a.size THEN value[p] ELSE Zero
        ELSE IF p < a.size /\ p < a.init /\ p < Len(a.map) * ClusterSize /\ ~IsHole(a.map, p)
        THEN data[Address(a.map, p)] ELSE Zero]

(* The end of the run that position n, not in a hole, lies in.             *)
RunBehind(s, n) ==
    Smallest({e \in n \div ClusterSize + 1 .. Len(s) : e = Len(s) \/ s[e + 1] # s[e] + 1})
        * ClusterSize

(* ntfs_rl_pwrite: what lies in a hole is skipped.                         *)
Written(map, ps, v) ==
    LET at == {Address(map, p) : p \in {q \in ps : ~IsHole(map, q)}}
    IN  [a \in DOMAIN data |-> IF a \in at THEN v ELSE data[a]]

Resident(size) == [res |-> TRUE, map |-> <<>>, alloc |-> size, size |-> size, init |-> size]
NonResident(map, size, init) ==
    [res |-> FALSE, map |-> map, alloc |-> Len(map) * ClusterSize, size |-> size, init |-> init]
NoValue == [p \in 0 .. MaxResident - 1 |-> Junk]

NoCall == [op |-> "none", pos |-> 0, count |-> 0, val |-> Zero, new |-> 0,
           old |-> 0, old_alloc |-> 0, old_init |-> 0, at |-> 0, left |-> 0, total |-> 0,
           extended |-> FALSE, initialized |-> FALSE, remapped |-> FALSE,
           ret |-> 0, before |-> [p \in Position |-> Zero], spoilt |-> {}]

Init ==
    /\ sparse \in BOOLEAN
    /\ \/ \E map \in {m \in Layouts : sparse \/ \A i \in DOMAIN m : m[i] # Hole} :
          \E size \in (Len(map) - 1) * ClusterSize + 1 .. Len(map) * ClusterSize :
          \E init \in 0 .. size :
             na = NonResident(map, size, init) /\ value = NoValue
       \/ \E size \in 0 .. MaxResident :
             /\ na = Resident(size)
             /\ value = [p \in DOMAIN NoValue |-> IF p < size THEN Old ELSE Junk]
    /\ rec = na
    /\ disk = na
    /\ bmp = Used(na.map)
    /\ other = {}
    /\ data = [a \in 0 .. NrClusters * ClusterSize - 1 |->
                 IF ~na.res /\ \E p \in 0 .. na.init - 1 : ~IsHole(na.map, p) /\ a = Address(na.map, p)
                 THEN Old ELSE Junk]
    /\ pc = "idle"
    /\ call = NoCall
    /\ freed = {}
    /\ scars = {}
    /\ calls = 0
    /\ faults = 0

(* Something fails: memory, the device, or the room in the mft.  What      *)
(* failed once may fail again while a call cleans up.                      *)
CleaningUp == pc \in {"exp_undo", "err", "err_map"} \/ call.op = "undo"
Fault ==
    \/ faults < MaxFaults /\ faults' = faults + 1
    \/ CleaningUp /\ faults > 0 /\ UNCHANGED faults

(* The call ends and returns r.                                            *)
Ends(r) == pc' = "ret" /\ call' = [call EXCEPT !.ret = r]

(* ntfs_attr_truncate ends with r.  A write goes on after it has extended  *)
(* the attribute, and after it has cut it back it ends with -1 anyway.     *)
Resized(r) ==
    IF call.op = "write" /\ r = 0
    THEN pc' = "init" /\ UNCHANGED call
    ELSE Ends(IF call.op = "undo" THEN -1 ELSE r)

(* ntfs_attr_update_mapping_pairs brings the record up to the open         *)
(* attribute a, or stops before anything, after the allocated size, or for *)
(* want of a record for the rest of the mapping pairs.                     *)
Mapped_AllocLater(a) == [rec EXCEPT !.map = a.map]
Mapped(a) == [rec EXCEPT !.map = a.map, !.alloc = a.alloc]
HalfMapped(a) ==
    {rec, [rec EXCEPT !.alloc = a.alloc]}
      \union {[Mapped(a) EXCEPT !.map = SubSeq(a.map, 1, k)] : k \in 1 .. Len(a.map) - 1}

(* The runlists of n clusters that ntfs_cluster_alloc may return.          *)
Granted(n) == {s \in [1 .. n -> Lcn \ bmp] : IsInjective(s)}
NoRoom(n) == Cardinality(Lcn \ bmp) < n

----------------------------------------------------------------------------
(* Calls.  ntfs_attr_truncate goes by the form and the size.               *)

Resize(new, c) ==
    /\ pc' = IF na.res THEN "resize" ELSE IF new > na.size THEN "expand" ELSE "shrink"
    /\ call' = [c EXCEPT !.new = new, !.old_alloc = na.alloc]

Enter == pc = "idle" /\ calls < MaxCalls /\ calls' = calls + 1

Truncate(new) ==
    /\ Enter
    /\ new # na.size
    /\ Resize(new, [NoCall EXCEPT !.op = "truncate", !.before = Content(na)])
    /\ UNCHANGED <<volume, disk, rec, na, value, sparse, freed, scars, faults>>

Write(pos, count, val) ==
    /\ Enter
    /\ LET c == [NoCall EXCEPT !.op = "write", !.pos = pos, !.count = count, !.val = val,
                               !.old = na.size, !.old_init = na.init, !.before = Content(na)]
       IN  IF pos + count > na.size
           THEN Resize(pos + count, [c EXCEPT !.extended = TRUE])
           ELSE pc' = "init" /\ call' = c
    /\ UNCHANGED <<volume, disk, rec, na, value, sparse, freed, scars, faults>>

(* The caller goes on.  The model stops with a call that leaves something  *)
(* inconsistent.                                                           *)
Return ==
    /\ pc = "ret" /\ scars = {}
    /\ pc' = "idle"
    /\ call' = NoCall
    /\ UNCHANGED <<volume, disk, rec, na, value, sparse, freed, scars, bounds>>

----------------------------------------------------------------------------
(* ntfs_resident_attr_resize.  What a longer value gains is cleared.       *)

\* Mutant: it is what the record held there.
ValueOf_NotCleared(new) ==
    [p \in DOMAIN value |-> IF p < new THEN value[p] ELSE Junk]
ValueOf(new) ==
    [p \in DOMAIN value |-> IF p >= new THEN Junk ELSE IF p < na.size THEN value[p] ELSE Zero]

Longer == call.new > na.size

ResizeValue ==
    /\ pc = "resize" /\ call.new <= MaxResident
    /\ value' = ValueOf(call.new)
    /\ na' = Resident(call.new) /\ rec' = na'
    /\ Resized(0)
    /\ UNCHANGED <<volume, disk, sparse, freed, scars, bounds>>

(* There is no room in the record nor a cluster, or something else fails.  *)
ResizeFails ==
    /\ pc = "resize"
    /\ \/ Longer /\ NoRoom(Clusters(na.size)) /\ UNCHANGED faults
       \/ Fault
    /\ Resized(-1)
    /\ UNCHANGED <<volume, disk, rec, na, value, sparse, freed, scars, calls>>

(* ntfs_attr_make_non_resident, by a write that is not yet in the record.  *)
(* CopyTo: what the clusters of s hold if the write stops at n and the     *)
(* rest goes to position at and on.                                        *)
CopyTo(s, n, at) ==
    [a \in DOMAIN data |->
        LET ps == {p \in 0 .. na.size - 1 :
                     LET q == IF p < n THEN p ELSE p - n + at
                     IN  q < Len(s) * ClusterSize /\ Address(s, q) = a}
        IN  IF ps = {} THEN data[a] ELSE value[Largest(ps)]]

Convert(s) ==
    /\ bmp' = bmp \union Used(s)
    /\ na' = NonResident(s, na.size, na.size) /\ rec' = na'
    /\ value' = NoValue
    /\ pc' = "expand"
    /\ UNCHANGED <<other, disk, sparse, freed, scars, calls>>

MakeNonResident ==
    /\ pc = "resize" /\ Longer
    /\ \E s \in Granted(Clusters(na.size)) :
          Convert(s) /\ data' = CopyTo(s, na.size, na.size)
    /\ call' = [call EXCEPT !.old_alloc = na'.alloc]
    /\ UNCHANGED faults

(* As in WriteRunShort: the slack of the last cluster takes what the       *)
(* short write left, and the count comes out right.                        *)
MakeNonResidentShort ==
    /\ pc = "resize" /\ Longer
    /\ \E s \in Granted(Clusters(na.size)) : \E n \in 1 .. na.size - 1 :
          /\ RunBehind(s, n) + na.size - n <= Len(s) * ClusterSize
          /\ Convert(s)
          /\ data' = CopyTo(s, n, RunBehind(s, n))
          /\ call' = [call EXCEPT !.old_alloc = na'.alloc, !.spoilt = n .. na.size - 1]
    /\ Fault

(* cluster_free_err_out: the value could not be copied, or the record has  *)
(* no room for the mapping pairs.  The clusters are freed, if they can be. *)
MakeNonResidentFails ==
    /\ pc = "resize" /\ Longer
    /\ \E s \in Granted(Clusters(na.size)) : \E kept \in SUBSET Used(s) :
          /\ \E n \in 0 .. na.size : data' = CopyTo(s, n, Len(s) * ClusterSize)
          /\ bmp' = bmp \union kept
          /\ scars' = IF kept = {} THEN scars ELSE scars \union {"half freed"}
    /\ Fault
    /\ Resized(-1)
    /\ UNCHANGED <<other, disk, rec, na, value, sparse, freed, calls>>

----------------------------------------------------------------------------
(* ntfs_non_resident_attr_expand.                                          *)

Missing == Clusters(call.new) - na.alloc \div ClusterSize
Appended == IF sparse THEN {[i \in 1 .. Missing |-> Hole]} ELSE Granted(Missing)

Grow(s) ==
    /\ bmp' = bmp \union Used(s)
    /\ na' = [na EXCEPT !.map = @ \o s, !.alloc = Clusters(call.new) * ClusterSize]
    /\ UNCHANGED <<data, other, disk, value, sparse, freed, scars, calls>>

ExpandWithin ==
    /\ pc = "expand" /\ Missing <= 0
    /\ pc' = "exp_size"
    /\ UNCHANGED <<volume, disk, rec, na, value, sparse, call, freed, scars, bounds>>

\* Mutant: the mapping pairs are left as they were.
Expand_MapLater ==
    /\ pc = "expand" /\ Missing > 0
    /\ \E s \in Appended : Grow(s)
    /\ rec' = rec
    /\ pc' = "exp_size"
    /\ UNCHANGED <<call, faults>>
Expand ==
    /\ pc = "expand" /\ Missing > 0
    /\ \E s \in Appended : Grow(s)
    /\ rec' = Mapped(na')
    /\ pc' = "exp_size"
    /\ UNCHANGED <<call, faults>>

(* The runlist cannot be mapped, there are no clusters, or the runs cannot *)
(* be merged and the new clusters are freed again.                         *)
ExpandFails ==
    /\ pc = "expand" /\ Missing > 0
    /\ \/ ~sparse /\ NoRoom(Missing) /\ UNCHANGED faults
       \/ Fault
    /\ Resized(-1)
    /\ UNCHANGED <<volume, disk, rec, na, value, sparse, freed, scars, calls>>

ExpandUpdateFails ==
    /\ pc = "expand" /\ Missing > 0
    /\ \E s \in Appended : Grow(s)
    /\ rec' \in HalfMapped(na')
    /\ pc' = "exp_undo"
    /\ Fault
    /\ UNCHANGED call

\* Mutant: what is added counts as initialized.
ExpandSize_AllInitialized ==
    /\ pc = "exp_size"
    /\ na' = [na EXCEPT !.size = call.new, !.init = call.new]
    /\ rec' = [rec EXCEPT !.size = call.new, !.init = call.new]
    /\ Resized(0)
    /\ UNCHANGED <<volume, disk, value, sparse, freed, scars, bounds>>
ExpandSize ==
    /\ pc = "exp_size"
    /\ na' = [na EXCEPT !.size = call.new]
    /\ rec' = [rec EXCEPT !.size = call.new]
    /\ Resized(0)
    /\ UNCHANGED <<volume, disk, value, sparse, freed, scars, bounds>>

ExpandSizeFails ==
    /\ pc = "exp_size"
    /\ Fault
    /\ IF na.alloc # call.old_alloc THEN pc' = "exp_undo" /\ UNCHANGED call ELSE Resized(-1)
    /\ UNCHANGED <<volume, disk, rec, na, value, sparse, freed, scars, calls>>

(* rollback: of expand.  It shifts the old size, in bytes, as if it were a *)
(* number of clusters.                                                     *)
RolledBackAlloc == call.old_alloc * ClusterSize
RolledBack == [na EXCEPT !.map = SubSeq(@, 1, call.old_alloc \div ClusterSize),
                         !.alloc = RolledBackAlloc]

ExpandUndo ==
    /\ pc = "exp_undo"
    /\ LET gone == Used(na.map) \ Used(RolledBack.map)
       IN  \E kept \in SUBSET gone :
             /\ bmp' = bmp \ (gone \ kept)
             /\ freed' = freed \union (gone \ kept)
             /\ \/ kept = {} /\ rec' = Mapped(RolledBack) /\ UNCHANGED faults
                \/ kept = {} /\ rec' \in HalfMapped(RolledBack) /\ Fault
                \/ kept # {} /\ rec' = Mapped(RolledBack) /\ Fault
    /\ na' = RolledBack
    /\ scars' = scars \union {"rollback"}
    /\ Resized(-1)
    /\ UNCHANGED <<data, other, disk, value, sparse, calls>>

----------------------------------------------------------------------------
(* ntfs_non_resident_attr_shrink.                                          *)

Kept == Clusters(call.new)
Shrinks == na.alloc \div ClusterSize # Kept
Cut == [na EXCEPT !.map = SubSeq(@, 1, Kept), !.alloc = Kept * ClusterSize]

(* ntfs_cluster_free and ntfs_rl_truncate.                                 *)
CutOff_RunlistFirst ==
    /\ na' = Cut
    /\ UNCHANGED <<bmp, freed, data, other, disk, value, sparse, calls>>
CutOff ==
    /\ bmp' = bmp \ (Used(na.map) \ Used(Cut.map))
    /\ freed' = freed \union (Used(na.map) \ Used(Cut.map))
    /\ na' = Cut
    /\ UNCHANGED <<data, other, disk, value, sparse, calls>>

ShrinkWithin ==
    /\ pc = "shrink" /\ ~Shrinks
    /\ pc' = "shr_size"
    /\ UNCHANGED <<volume, disk, rec, na, value, sparse, call, freed, scars, bounds>>

Shrink ==
    /\ pc = "shrink" /\ Shrinks
    /\ CutOff
    /\ rec' = Mapped(Cut)
    /\ pc' = "shr_size"
    /\ UNCHANGED <<call, scars, faults>>

(* The runlist cannot be mapped, or the freeing stops on the way.          *)
ShrinkFails ==
    /\ pc = "shrink" /\ Shrinks
    /\ \E n \in Kept .. Len(na.map) - 1 :
          LET part == Used(SubSeq(na.map, Kept + 1, n))
          IN  /\ bmp' = bmp \ part
              /\ freed' = freed \union part
              /\ scars' = IF part = {} THEN scars ELSE scars \union {"half freed"}
    /\ Fault
    /\ Resized(-1)
    /\ UNCHANGED <<data, other, disk, rec, na, value, sparse, calls>>

ShrinkUpdateFails ==
    /\ pc = "shrink" /\ Shrinks
    /\ CutOff
    /\ rec' \in HalfMapped(Cut)
    /\ scars' = scars \union {"not mapped"}
    /\ Fault
    /\ Resized(-1)

(* An empty attribute that cannot be made resident is left as it is.       *)
ShrinkSize ==
    /\ pc = "shr_size"
    /\ (call.new > 0 /\ UNCHANGED faults) \/ (call.new = 0 /\ Fault)
    /\ na' = [na EXCEPT !.size = call.new, !.init = Lesser(@, call.new)]
    /\ rec' = [rec EXCEPT !.size = call.new,
                          !.init = IF call.new < na.init THEN call.new ELSE @]
    /\ Resized(0)
    /\ UNCHANGED <<volume, disk, value, sparse, freed, scars, calls>>

(* ntfs_attr_make_resident, of an attribute without clusters.              *)
MakeResident ==
    /\ pc = "shr_size" /\ call.new = 0
    /\ na' = Resident(0) /\ rec' = na'
    /\ value' = NoValue
    /\ Resized(0)
    /\ UNCHANGED <<volume, disk, sparse, freed, scars, bounds>>

ShrinkSizeFails ==
    /\ pc = "shr_size"
    /\ Fault
    /\ scars' = IF na.alloc = call.old_alloc THEN scars ELSE scars \union {"not mapped"}
    /\ Resized(-1)
    /\ UNCHANGED <<volume, disk, rec, na, value, sparse, freed, calls>>

----------------------------------------------------------------------------
(* ntfs_attr_pwrite: the initialized size.                                 *)

End == call.pos + call.count
\* Mutant: the gap is not zeroed.
Gap_Kept(end) == data
Gap(end) == Written(na.map, na.init .. end - 1, Zero)

(* The device stops at n, inside a run.  ntfs_rl_pwrite goes on with the   *)
(* next run and counts what it wrote, so that the zeroes reach Beyond the  *)
(* gap instead.  If the runlist ends first, the caller zeroes the end of   *)
(* the gap once more, by the count it was given.  The gap is taken to fit  *)
(* into the caller's buffer, and to meet one short write.                  *)
ShortAt(end) ==
    {n \in na.init + 1 .. end - 1 :
        ~IsHole(na.map, n - 1) /\ n < RunBehind(na.map, n - 1)}
NextBehind(n) == RunBehind(na.map, n)
Left(end, n) ==
    n .. Smallest({end, NextBehind(n), Len(na.map) * ClusterSize - (NextBehind(n) - n)}) - 1
Beyond(end, n) ==
    Greater(end, NextBehind(n)) .. Lesser(end + NextBehind(n) - n, Len(na.map) * ClusterSize) - 1
GapShort(end, n) ==
    Written(na.map, ((na.init .. end - 1) \ Left(end, n)) \union Beyond(end, n), Zero)
GapTried(end) == {Gap(end)} \union {GapShort(end, n) : n \in ShortAt(end)}

(* ntfs_mft_record_write.                                                  *)
Store(r) == disk' = r /\ freed' = {}

StartOfData == [call EXCEPT !.at = call.pos, !.left = call.count]

(* A resident value is written into the record, and the record to disk.    *)
ValueWritten ==
    [p \in DOMAIN value |-> IF p \in call.pos .. End - 1 THEN call.val ELSE value[p]]

WriteValue ==
    /\ pc = "init" /\ na.res
    /\ value' = ValueWritten
    /\ Store(rec)
    /\ Ends(call.count)
    /\ UNCHANGED <<volume, rec, na, sparse, scars, bounds>>

WriteValueFails ==
    /\ pc = "init" /\ na.res
    /\ value' \in {value, ValueWritten}
    /\ Store(rec) \/ UNCHANGED <<disk, freed>>
    /\ pc' = "err"
    /\ Fault
    /\ UNCHANGED <<volume, rec, na, sparse, call, scars, calls>>

InitNotNeeded ==
    /\ pc = "init" /\ ~na.res /\ End <= na.init
    /\ pc' = "data"
    /\ call' = StartOfData
    /\ UNCHANGED <<volume, disk, rec, na, value, sparse, freed, scars, bounds>>

(* The gap is zeroed, then the record is written with a size that covers   *)
(* what is not written yet.                                                *)
RaiseInit ==
    /\ pc = "init" /\ End > na.init
    /\ na' = [na EXCEPT !.init = End]
    /\ rec' = [rec EXCEPT !.init = End]
    /\ Store(rec')
    /\ pc' = "data"
    /\ UNCHANGED <<bmp, other, value, sparse, scars, calls>>

Initialize ==
    /\ RaiseInit
    /\ data' = Gap(call.pos)
    /\ call' = [StartOfData EXCEPT !.initialized = TRUE]
    /\ UNCHANGED faults

(* A short write in the gap goes unnoticed.                                *)
InitializeShort ==
    /\ RaiseInit
    /\ \E n \in ShortAt(call.pos) :
          /\ data' = GapShort(call.pos, n)
          /\ call' = [StartOfData EXCEPT !.initialized = TRUE,
                                         !.spoilt = @ \union Left(call.pos, n)]
    /\ Fault

InitializeFails ==
    /\ pc = "init" /\ End > na.init
    /\ \E end \in na.init .. Greater(na.init, call.pos) : data' \in GapTried(end)
    /\ pc' = "err"
    /\ Fault
    /\ UNCHANGED <<bmp, other, disk, rec, na, value, sparse, call, freed, scars, calls>>

(* The record goes back to the old size and is written again.              *)
InitializeWriteFails ==
    /\ pc = "init" /\ End > na.init
    /\ data' \in GapTried(call.pos)
    /\ Store(rec) \/ UNCHANGED <<disk, freed>>
    /\ Fault
    /\ pc' = "err"
    /\ UNCHANGED <<bmp, other, rec, na, value, sparse, call, scars, calls>>

----------------------------------------------------------------------------
(* The loop over the runs.                                                 *)

Vcn == call.at \div ClusterSize
InRunlist == Vcn < Len(na.map)

(* The vcns i and i+1 are in one run.                                      *)
Joined(i) ==
    IF na.map[i + 1] = Hole THEN na.map[i + 2] = Hole
                            ELSE na.map[i + 2] = na.map[i + 1] + 1
RunStart == Smallest({i \in 0 .. Vcn : \A j \in i .. Vcn - 1 : Joined(j)})
RunEnd == Largest({i \in Vcn .. Len(na.map) - 1 : \A j \in Vcn .. i - 1 : Joined(j)})

NextRun == (RunEnd + 1) * ClusterSize
ToWrite == Lesser(call.left, NextRun - call.at)

Looping == pc = "data" /\ call.left > 0
HoleAt == InRunlist /\ IsHole(na.map, call.at)
DataAt == InRunlist /\ ~IsHole(na.map, call.at)

Advanced(n) == [call EXCEPT !.total = @ + n, !.left = @ - n, !.at = NextRun]

(* rl_err_out: what was written counts, unless the initialized size moved. *)
RlErr ==
    pc' = IF call.total > 0 /\ (call.initialized => call.pos + call.total > na.init)
          THEN "done" ELSE "err"

LoopEnds ==
    /\ pc = "data" /\ call.left = 0
    /\ pc' = "done"
    /\ UNCHANGED <<volume, disk, rec, na, value, sparse, call, freed, scars, bounds>>

PastRunlist ==
    /\ Looping /\ ~InRunlist
    /\ RlErr
    /\ UNCHANGED <<volume, disk, rec, na, value, sparse, call, freed, scars, bounds>>

SkipHole ==
    /\ Looping /\ HoleAt /\ call.val = Zero
    /\ call' = Advanced(ToWrite)
    /\ UNCHANGED <<volume, disk, rec, na, value, sparse, pc, freed, scars, bounds>>

WriteRun ==
    /\ Looping /\ DataAt
    /\ data' = Written(na.map, call.at .. call.at + ToWrite - 1, call.val)
    /\ call' = Advanced(ToWrite)
    /\ UNCHANGED <<bmp, other, disk, rec, na, value, sparse, pc, freed, scars, bounds>>

WriteRunFails ==
    /\ Looping /\ DataAt
    /\ Fault
    /\ RlErr
    /\ UNCHANGED <<volume, disk, rec, na, value, sparse, call, freed, scars, calls>>

(* ntfs_pwrite stops half way.  The loop goes on with the next run, and    *)
(* what is left of the buffer ends up there.                               *)
WriteRunShort ==
    /\ Looping /\ DataAt
    /\ \E n \in 1 .. ToWrite - 1 :
         /\ data' = Written(na.map, call.at .. call.at + n - 1, call.val)
         /\ call' = [Advanced(n) EXCEPT
                       !.spoilt = @ \union (call.at + n .. NextRun + call.left - n - 1)]
    /\ Fault
    /\ UNCHANGED <<bmp, other, disk, rec, na, value, sparse, pc, freed, scars, calls>>

(* A hole that gets data other than zero: the clusters that are written to *)
(* are allocated, and what the hole has of them in front of the data is    *)
(* zeroed.  The rest of the last cluster is left as it is.                 *)
LastVcn == (call.at + ToWrite - 1) \div ClusterSize
Filled(s) == [na EXCEPT !.map = [i \in DOMAIN @ |-> IF i - 1 \in Vcn .. LastVcn THEN s[i - Vcn] ELSE @[i]]]
HoleHead == RunStart * ClusterSize .. call.at - 1
HoleTail == call.at + ToWrite .. (LastVcn + 1) * ClusterSize - 1

Instantiate(s) ==
    /\ bmp' = bmp \union Used(s)
    /\ na' = Filled(s)
    /\ UNCHANGED <<other, disk, rec, value, sparse, freed, scars, calls>>

FillHole ==
    /\ Looping /\ HoleAt /\ call.val # Zero
    /\ \E s \in Granted(LastVcn - Vcn + 1) :
         Instantiate(s) /\ data' = Written(Filled(s).map, HoleHead, Zero)
    /\ call' = [call EXCEPT !.remapped = TRUE, !.spoilt = @ \union HoleTail]
    /\ UNCHANGED <<pc, faults>>

(* The head cannot be zeroed.  ntfs_rl_pwrite reports the error only when  *)
(* it has not yet counted a part of the hole.                              *)
FillHoleZeroFails ==
    /\ Looping /\ HoleAt /\ call.val # Zero /\ HoleHead # {}
    /\ \E s \in Granted(LastVcn - Vcn + 1) : Instantiate(s)
    /\ \E silent \in BOOLEAN :
         /\ silent => RunStart < Vcn /\ Vcn * ClusterSize < call.at
         /\ pc' = IF silent THEN pc ELSE "err"
         /\ call' = [call EXCEPT !.remapped = TRUE,
                       !.spoilt = @ \union HoleTail \union Vcn * ClusterSize .. call.at - 1]
    /\ Fault
    /\ UNCHANGED data

(* The device stops at n while it zeroes the head.  ntfs_rl_pwrite counts  *)
(* that and writes the rest of the zeroes to the next run, or finds none   *)
(* or fails there, which it does not report either.                        *)
Astray(map, n) ==
    {p \in RunBehind(map, n) .. RunBehind(map, n) + call.at - n - 1 :
        p < Len(map) * ClusterSize /\ ~IsHole(map, p)}

FillHoleZeroShort ==
    /\ Looping /\ HoleAt /\ call.val # Zero
    /\ \E s \in Granted(LastVcn - Vcn + 1) : \E n \in Vcn * ClusterSize + 1 .. call.at - 1 :
       \E astray \in {{}, Astray(Filled(s).map, n)} :
          /\ Instantiate(s)
          /\ data' = Written(Filled(s).map, (HoleHead \ n .. call.at - 1) \union astray, Zero)
          /\ call' = [call EXCEPT !.remapped = TRUE,
                !.spoilt = @ \union HoleTail \union n .. call.at - 1
                             \union (astray \ call.pos .. End - 1)]
    /\ Fault
    /\ UNCHANGED pc

(* The runlist cannot be mapped, there are no clusters, or the runs cannot *)
(* be merged and the new clusters are freed again.                         *)
FillHoleFails ==
    /\ Looping /\ HoleAt /\ call.val # Zero
    /\ \/ NoRoom(LastVcn - Vcn + 1) /\ UNCHANGED faults
       \/ Fault
    /\ pc' = "err"
    /\ UNCHANGED <<volume, disk, rec, na, value, sparse, call, freed, scars, calls>>

----------------------------------------------------------------------------
(* The two exits of ntfs_attr_pwrite.  Both ignore what                    *)
(* ntfs_attr_update_mapping_pairs returns.                                 *)

UpdateMap(a, base) ==
    \/ /\ rec' = IF call.remapped THEN [base EXCEPT !.map = a.map, !.alloc = a.alloc] ELSE base
       /\ UNCHANGED <<scars, faults>>
    \/ /\ call.remapped
       /\ rec' \in HalfMapped(a)
       /\ scars' = scars \union {"not mapped"}
       /\ Fault

Done ==
    /\ pc = "done"
    /\ UpdateMap(na, rec)
    /\ Ends(call.total)
    /\ UNCHANGED <<volume, disk, na, value, sparse, freed, calls>>

RestoreInit ==
    /\ pc = "err"
    /\ IF call.initialized
       THEN /\ na' = [na EXCEPT !.init = call.old_init]
            /\ rec' = [rec EXCEPT !.init = call.old_init]
            /\ Store(rec')
       ELSE UNCHANGED <<na, rec, disk, freed>>
    /\ pc' = "err_map"
    /\ UNCHANGED <<volume, value, sparse, call, scars, bounds>>

(* "Failed to recover from error."                                         *)
RestoreInitFails ==
    /\ pc = "err" /\ call.initialized
    /\ Fault
    /\ \/ UNCHANGED <<na, rec>>
       \/ /\ na' = [na EXCEPT !.init = call.old_init]
          /\ rec' = [rec EXCEPT !.init = call.old_init]
    /\ scars' = scars \union {"initialized size"}
    /\ pc' = "err_map"
    /\ UNCHANGED <<volume, disk, value, sparse, call, freed, calls>>

ErrMap ==
    /\ pc = "err_map"
    /\ UpdateMap(na, rec)
    /\ IF call.extended THEN Resize(call.old, [call EXCEPT !.op = "undo"]) ELSE Ends(-1)
    /\ UNCHANGED <<volume, disk, na, value, sparse, freed, calls>>

----------------------------------------------------------------------------
(* Between calls: another attribute gets a cluster and writes to it, and   *)
(* ntfs_inode_sync writes the record.                                      *)

OtherTakes(c) ==
    /\ pc = "idle" /\ calls < MaxCalls
    /\ c \in Lcn \ bmp
    /\ bmp' = bmp \union {c}
    /\ other' = other \union {c}
    /\ data' = [a \in DOMAIN data |-> IF a \div ClusterSize = c THEN Junk ELSE data[a]]
    /\ UNCHANGED <<disk, rec, na, value, sparse, pc, call, freed, scars, bounds>>

Sync ==
    /\ pc = "idle" /\ disk # rec
    /\ Store(rec)
    /\ UNCHANGED <<volume, rec, na, value, sparse, pc, call, scars, bounds>>

Next ==
    \/ \E new \in 0 .. MaxSize : Truncate(new)
    \/ \E pos \in Position, val \in {Zero, calls + 1} :
          \E count \in {n \in Counts : n <= MaxSize - pos} : Write(pos, count, val)
    \/ ResizeValue \/ ResizeFails
    \/ MakeNonResident \/ MakeNonResidentShort \/ MakeNonResidentFails
    \/ ExpandWithin \/ Expand \/ ExpandFails \/ ExpandUpdateFails
    \/ ExpandSize \/ ExpandSizeFails \/ ExpandUndo
    \/ ShrinkWithin \/ Shrink \/ ShrinkFails \/ ShrinkUpdateFails
    \/ ShrinkSize \/ ShrinkSizeFails \/ MakeResident
    \/ WriteValue \/ WriteValueFails
    \/ InitNotNeeded \/ Initialize \/ InitializeShort \/ InitializeFails \/ InitializeWriteFails
    \/ LoopEnds \/ PastRunlist \/ SkipHole
    \/ WriteRun \/ WriteRunFails \/ WriteRunShort
    \/ FillHole \/ FillHoleZeroFails \/ FillHoleZeroShort \/ FillHoleFails
    \/ Done \/ RestoreInit \/ RestoreInitFails \/ ErrMap \/ Return
    \/ \E c \in Lcn : OtherTakes(c)
    \/ Sync

Spec == Init /\ [][Next]_vars

----------------------------------------------------------------------------
(* Properties.                                                             *)

Room(a) == IF a.res THEN a.size ELSE Len(a.map) * ClusterSize
Quiet == pc \in {"idle", "ret"}

(* Between calls the mft record says of the attribute what the open        *)
(* attribute says, unless a call reported or logged that it did not get    *)
(* that far, and the three sizes are in order: ntfs_attr_truncate and      *)
(* ntfs_attr_pwrite change them in several places and undo them in others. *)
RecordFollowsAttribute ==
    Quiet /\ scars = {} =>
        /\ rec = na
        /\ na.init <= na.size /\ na.size <= na.alloc
        /\ na.alloc = Room(na)
        /\ na.res => na.map = <<>> /\ na.init = na.size /\ na.size <= MaxResident

(* The clusters of the runlist are the attribute's alone and in use in     *)
(* $Bitmap, and between calls nothing else is: a call that fails gives     *)
(* back what it took (ntfs_attr_pwrite cuts the attribute back, expand     *)
(* rolls back).                                                            *)
ClustersAccountedFor ==
    scars = {} =>
        /\ NoneTwice(na.map)
        /\ Used(na.map) \subseteq bmp \ other
        /\ Quiet => bmp = Used(na.map) \union other

(* If the machine stopped now, the attribute found on disk would have      *)
(* sizes in order, and no cluster that is free or another's but those      *)
(* freed since the record was written: clusters are marked before the      *)
(* record names them, and the record that ntfs_attr_pwrite writes for the  *)
(* initialized size takes along a mapping that is complete.                *)
CrashLeavesOrder ==
    scars = {} =>
        /\ disk.init <= disk.size /\ disk.size <= disk.alloc
        /\ disk.alloc = Room(disk)
        /\ Used(disk.map) \subseteq (bmp \ other) \union freed

(* A write, returned with whatever result, leaves every position outside   *)
(* its range as it was, and one that returns n has written the first n     *)
(* positions of its range.  Excepted are the positions in "spoilt": those  *)
(* that a short write of the device leaves out or clears unnoticed, and    *)
(* those behind data written into a hole, see WriteDoesWhatItReports.  A   *)
(* resize leaves the content up to the new size as it was, and what an     *)
(* expand adds reads as zero, also where the attribute was once cut off or *)
(* a cluster holds old data.  Zeroing of gaps and of the heads of holes,   *)
(* the order of the initialized size and the data, and the cutting back of *)
(* a failed write are all needed for it.                                   *)
WriteKeepsToItsRange ==
    \A p \in Position \ call.spoilt :
        IF p \in call.pos .. End - 1
        THEN call.ret > p - call.pos => Content(na)[p] = call.val
        ELSE Content(na)[p] = call.before[p]

ResizeKeepsContent ==
    \A p \in Position \ call.spoilt :
        Content(na)[p] = IF p < na.size THEN call.before[p] ELSE Zero

CallsKeepContent ==
    /\ pc = "ret" /\ call.op \in {"write", "undo"} => WriteKeepsToItsRange
    /\ pc = "ret" /\ call.op = "truncate" /\ scars \subseteq {"rollback"} =>
          ResizeKeepsContent

(* What the comment of ntfs_attr_pwrite says: on success the number of     *)
(* positions written at pos is returned, and nothing else changes; -1      *)
(* means that nothing has been written.                                    *)
WriteDoesWhatItReports ==
    pc = "ret" /\ call.op \in {"write", "undo"} =>
        \A p \in Position :
            Content(na)[p] = IF p \in call.pos .. call.pos + call.ret - 1
                             THEN call.val ELSE call.before[p]
=============================================================================
