------------------------------ MODULE BmpCache ------------------------------
(***************************************************************************)
(* The bitmaps of the NTFS_RICH layer (struct ntfs_bmp in bitmap.c):       *)
(* clusters of a bitmap are read when first asked for, changed in memory   *)
(* and all written by a commit or all dropped by a rollback.  ntfsrm keeps *)
(* $MFT/$BITMAP, $Bitmap and the bitmaps of directories so.                *)
(*                                                                         *)
(* A commit looks at the result of no write, and of the last cluster of a  *)
(* bitmap that fills its clusters it writes nothing.  What it loses that   *)
(* way is kept in lost.  A read that is short is taken for a whole one and *)
(* the zeroes behind it for bits of the bitmap, which the next commit will *)
(* write: these are kept in unread.  The property is about all the rest.   *)
(***************************************************************************)
EXTENDS Integers, FiniteSets, FiniteSetsExt, TLC

CONSTANTS
    ByteBits,       \* bits of a byte, and
    ClusterSize,    \* bytes of a cluster; 8 and a power of two in the code
    Sizes,          \* bytes of the bitmaps
    MaxCalls,       \* bounds of the model: changes, and
    MaxFaults       \* failures and stops

ASSUME CacheAssumption ==
    /\ ByteBits \in Nat \ {0} /\ ClusterSize \in Nat \ {0}
    /\ Sizes \subseteq Nat \ {0} /\ MaxCalls \in Nat /\ MaxFaults \in Nat

VARIABLES
    data_size, resident,
    disk,           \* the bits that are set on disk
    cache,          \* data_vcn and data: the bits that are set in cached clusters
    written,        \* clusters that the commit under way is through with
    truth, lost,    \* the bits as asked for, which nothing reads; clusters a commit lost
    unread,         \* bits that the cache made up and nobody has set or cleared since
    calls, faults

vars == <<data_size, resident, disk, cache, written, truth, lost, unread, calls, faults>>

Csib == ClusterSize * ByteBits
Bits == 0..data_size * ByteBits - 1
BitsOf(vcn) == {b \in Bits : b \div Csib = vcn}
Clusters == {b \div Csib : b \in Bits}
None == [v \in {} |-> {}]
-----------------------------------------------------------------------------
(* ntfs_bmp_get_data: a cluster that is cached, or else from the disk.  Of *)
(* the clusters in vcns that have to be read one may come short, and lacks *)
(* the bits behind some byte.                                              *)
GetData(vcn) == IF vcn \in DOMAIN cache THEN cache[vcn] ELSE disk \intersect BitsOf(vcn)
Lacking(vcns) ==
    {{}} \union {{b \in BitsOf(v) : b % Csib >= n * ByteBits} :
                    v \in vcns \ DOMAIN cache, n \in 0..ClusterSize - 1}

(* ntfs_bmp_set_range, for one cluster: the bytes of the range in it, the  *)
(* first and the last under a mask.                                        *)
Byte(vcn, byte, mask) == {vcn * Csib + byte * ByteBits + k : k \in mask}
FirstByte(vcn, start) == IF start \div Csib = vcn THEN (start % Csib) \div ByteBits ELSE 0
LastByte(vcn, finish) ==
    IF finish \div Csib = vcn THEN (finish % Csib) \div ByteBits ELSE ClusterSize - 1
MaskStart(vcn, start) == IF start \div Csib = vcn THEN start % ByteBits..ByteBits - 1 ELSE 0..ByteBits - 1
\* Mutant: the last byte is changed as a whole.
MaskFinish_Whole(vcn, finish) == 0..ByteBits - 1
MaskFinish(vcn, finish) == IF finish \div Csib = vcn THEN 0..finish % ByteBits ELSE 0..ByteBits - 1
Touched(vcn, start, finish) ==
    LET first == FirstByte(vcn, start)  ms == MaskStart(vcn, start)
        last == LastByte(vcn, finish)   mf == MaskFinish(vcn, finish)
    IN UNION {Byte(vcn, b, 0..ByteBits - 1) : b \in first + 1..last - 1}
       \union (IF first = last THEN Byte(vcn, first, ms \intersect mf)
               ELSE Byte(vcn, first, ms) \union Byte(vcn, last, mf))
Changed(bits, touched, value) == IF value THEN bits \union touched ELSE bits \ touched

(* ntfs_bmp_find_last_set: clusters backwards, in each the bytes that are  *)
(* part of the bitmap; the first bit that is found from there is the last. *)
\* Mutant: all bytes but those of the last, partial cluster are looked at.
Looked_WholeOnly(vcn) == IF (vcn + 1) * ClusterSize > data_size THEN 0 ELSE ClusterSize
Looked(vcn) ==
    IF vcn = Max(Clusters) /\ data_size % ClusterSize # 0
    THEN data_size % ClusterSize ELSE ClusterSize
SetIn(v) == GetData(v) \intersect v * Csib..v * Csib + Looked(v) * ByteBits - 1
FindLastSet ==
    LET found == UNION {SetIn(v) : v \in Clusters}
    IN IF found = {} THEN -1 ELSE Max(found)

(* ntfs_bmp_commit: how many bytes of a cluster are written.               *)
\* Mutant: a cluster is left out when the bitmap ends in the next one.
WriteSize_Early(vcn) == IF (vcn + 2) * ClusterSize < data_size THEN ClusterSize ELSE data_size % ClusterSize
WriteSize(vcn) ==
    IF resident THEN data_size
    ELSE IF (vcn + 1) * ClusterSize < data_size THEN ClusterSize
    ELSE data_size % ClusterSize
-----------------------------------------------------------------------------
Init ==
    /\ data_size \in Sizes /\ resident \in {r \in BOOLEAN : r => data_size <= ClusterSize}
    /\ disk \in {{}, Bits, {b \in Bits : b % 3 = 0}}
    /\ cache = None /\ written = {}
    /\ truth = disk /\ lost = {} /\ unread = {} /\ calls = 0 /\ faults = 0

Fault == faults < MaxFaults /\ faults' = faults + 1

Reads(fails, lacking) ==
    LET n == Cardinality({x \in {1} : fails}) + Cardinality({x \in {2} : lacking # {}})
    IN  faults + n <= MaxFaults /\ faults' = faults + n

(* A range is changed; when a cluster cannot be read those before it are.  *)
SetRange ==
    /\ written = {} /\ calls < MaxCalls /\ calls' = calls + 1
    /\ \E start \in Bits : \E finish \in start..Max(Bits) : \E value \in BOOLEAN :
       \E upto \in start \div Csib - 1..finish \div Csib :
       \E lacking \in Lacking(start \div Csib..upto) :
          LET done == {b \in start..finish : b \div Csib <= upto} IN
          /\ upto = finish \div Csib \/ upto + 1 \notin DOMAIN cache
          /\ Reads(upto # finish \div Csib, lacking)
          /\ cache' = [v \in start \div Csib..upto |->
                          Changed(GetData(v) \ lacking, Touched(v, start, finish), value)] @@ cache
          /\ truth' = Changed(truth, done, value)
          /\ unread' = (unread \union lacking) \ done
    /\ UNCHANGED <<data_size, resident, disk, written, lost>>

(* The last set bit is looked for: clusters are read backwards to the one  *)
(* that has it, the first, or one that cannot be read.                     *)
FindLast ==
    /\ written = {}
    /\ \E low \in 0..Max(Clusters) + 1 : \E lacking \in Lacking(low..Max(Clusters)) :
          LET ends == low = 0 \/ (low \in Clusters /\ SetIn(low) \ lacking # {}) IN
          /\ \A v \in low + 1..Max(Clusters) : SetIn(v) \subseteq lacking
          /\ ends \/ low - 1 \notin DOMAIN cache
          /\ Reads(~ends, lacking)
          /\ cache' = [v \in low..Max(Clusters) |-> GetData(v) \ lacking] @@ cache
          /\ unread' = unread \union lacking
    /\ UNCHANGED <<data_size, resident, disk, written, truth, lost, calls>>

(* One cluster after another, whether or not the write gets to the end.    *)
Commit ==
    /\ DOMAIN cache \ written # {}
    /\ LET v == Min(DOMAIN cache \ written) IN
       \E n \in IF resident THEN {0, WriteSize(v)} ELSE 0..WriteSize(v) :
          LET through == {b \in BitsOf(v) : b % Csib < n * ByteBits} IN
          /\ IF n < WriteSize(v) THEN Fault ELSE UNCHANGED faults
          /\ disk' = (disk \ through) \union (cache[v] \intersect through)
          /\ lost' = IF n < WriteSize(v) \/ (~resident /\ (v + 1) * ClusterSize = data_size)
                     THEN lost \union {v} ELSE lost
          /\ IF DOMAIN cache = written \union {v}
             THEN cache' = None /\ written' = {}
             ELSE cache' = cache /\ written' = written \union {v}
    /\ UNCHANGED <<data_size, resident, truth, unread, calls>>

(* ntfs_volume_rollback, or ntfs_volume_umount2, which begins with one.    *)
Rollback ==
    /\ written = {} /\ cache # None
    /\ cache' = None /\ truth' = disk /\ lost' = {} /\ unread' = {}
    /\ UNCHANGED <<data_size, resident, disk, written, calls, faults>>
Crash ==
    /\ written # {} /\ Fault
    /\ cache' = None /\ written' = {} /\ truth' = disk /\ lost' = {} /\ unread' = {}
    /\ UNCHANGED <<data_size, resident, disk, calls>>

Next == SetRange \/ FindLast \/ Commit \/ Rollback \/ Crash
Spec == Init /\ [][Next]_vars
-----------------------------------------------------------------------------
(* Through any changes, commits and rollbacks, with reads and writes that  *)
(* fail or come short: what is read through the cache is what was asked    *)
(* for, bit by bit, in all clusters no commit has lost and but for the     *)
(* bits that a short read has made up; and the last bit that is found set  *)
(* is the last one, where there are none of either.                        *)
CacheIsTheBitmap ==
    /\ \A v \in Clusters \ lost : GetData(v) \ unread = (truth \intersect BitsOf(v)) \ unread
    /\ lost = {} /\ unread = {} => FindLastSet = IF truth = {} THEN -1 ELSE Max(truth)

=============================================================================
