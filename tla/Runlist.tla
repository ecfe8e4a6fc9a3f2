------------------------------- MODULE Runlist -------------------------------
(***************************************************************************)
(* Runlists and mapping pairs (libntfs/runlist.c) as the attribute code    *)
(* uses them.  An attribute has a mapping from vcns to lcns or holes.  On  *)
(* disk it is cut into extents, each with an array of mapping pairs; in    *)
(* memory it is a runlist, into which extents are merged one by one as     *)
(* they are needed, in any order, and pieces from the cluster allocator    *)
(* when the attribute grows or a hole is filled.                           *)
(*                                                                         *)
(* A runlist is a sequence of elements with its end marker, NULL is <<>>.  *)
(* A mapping pair is the bytes of its length and of its lcn; the header    *)
(* byte says how many there are of each.  A byte has Base values.          *)
(***************************************************************************)
EXTENDS Integers, FiniteSets, SequencesExt, FiniteSetsExt

CONSTANTS
    Base,           \* 256
    Lcns,           \* the clusters of the volume
    MaxVcn,         \* bound on the size of the attribute
    InitMaps,       \* what the attribute may be at first
    Rooms,          \* bytes for mapping pairs in a record, enough for one pair
    MaxCalls        \* bound on changes

ASSUME RunlistAssumption ==
    /\ Base \in Nat /\ Base % 2 = 0 /\ Base > 2
    /\ Lcns \subseteq Nat /\ MaxVcn \in Nat /\ MaxCalls \in Nat
    /\ Rooms \subseteq Nat \ {0}

Hole == -1
NotMapped == -2
Enoent == -3

VARIABLES
    map,        \* what the attribute maps: the truth, which nothing reads
    exts,       \* its extents on disk
    rl,         \* na->rl
    ver,        \* the version of the volume
    amiss,      \* whether the first extent has ended at vcn 0 with more behind
    calls

vars == <<map, exts, rl, ver, amiss, calls>>

Size(m) == Cardinality(DOMAIN m)
Free == Lcns \ Range(map)
-----------------------------------------------------------------------------
(* What the first k members of a sequence of numbers add up to.            *)
SumOf(f, k) == LET sum[i \in 0..k] == IF i = 0 THEN 0 ELSE sum[i - 1] + f[i] IN sum[k]

Elem(vcn, lcn, len) == [vcn |-> vcn, lcn |-> lcn, len |-> len]
EndOf(e) == e.vcn + e.len
Grown(e, by) == [e EXCEPT !.len = @ + by.len]

(* The first index from i on, at which the runlist ends.                   *)
EndFrom(r, i) == Min({k \in i..Len(r) : r[k].len = 0})
EndAt(r) == EndFrom(r, 1)

(* ntfs_rl_vcn_to_lcn                                                      *)
VcnToLcn(r, v) ==
    IF r = <<>> THEN NotMapped
    ELSE IF v < r[1].vcn THEN Enoent
    ELSE LET in == {i \in 1..EndAt(r) - 1 : v < r[i + 1].vcn} IN
         IF in = {} THEN r[EndAt(r)].lcn
         ELSE LET e == r[Min(in)] IN IF e.lcn >= 0 THEN e.lcn + (v - e.vcn) ELSE e.lcn

(* The runs of a mapping between two vcns.                                 *)
Joins(m, v) == IF m[v] = Hole THEN m[v + 1] = Hole ELSE m[v + 1] = m[v] + 1
RunsOf(m, lo, hi) ==
    LET runs[v \in lo..hi] ==
            IF v = lo THEN <<Elem(v, m[v], 1)>>
            ELSE IF Joins(m, v - 1) THEN [runs[v - 1] EXCEPT ![Len(runs[v - 1])].len = @ + 1]
            ELSE Append(runs[v - 1], Elem(v, m[v], 1))
    IN runs[hi]
-----------------------------------------------------------------------------
(* Mapping pairs.  ntfs_get_nr_significant_bytes (NrBytes) counts the      *)
(* bytes of a signed number, ntfs_write_significant_bytes (Bytes) writes   *)
(* them.                                                                   *)
Shift(n, i) == n \div (Base ^ i)
SignOf(n, i) == IF Shift(n, i - 1) % Base >= Base \div 2 THEN -1 ELSE 1

NrBytes(n) ==
    LET i == Min({k \in 1..MaxVcn + Cardinality(Lcns) : Shift(n, k) \in {0, -1}})
    IN IF (n < 0 /\ SignOf(n, i) = 1) \/ (n > 0 /\ SignOf(n, i) = -1) THEN i + 1 ELSE i

(* The bytes without regard to the sign, until nothing but sign is left.   *)
RawBytes(n) ==
    [i \in 1..Min({k \in 1..MaxVcn + Cardinality(Lcns) : Shift(n, k) \in {0, -1}}) |-> Shift(n, i - 1) % Base]

\* Mutant: no byte is added for the sign.
Bytes_NoSign(n) == RawBytes(n)

Bytes(n) ==
    LET raw == RawBytes(n) IN
    CASE n < 0 /\ Last(raw) < Base \div 2  -> Append(raw, Base - 1)
      [] n > 0 /\ Last(raw) >= Base \div 2 -> Append(raw, 0)
      [] OTHER -> raw

(* What a reader makes of them: the highest byte has the sign.             *)
Value(bs) == SumOf([i \in 1..Len(bs) |-> bs[i] * Base ^ (i - 1)], Len(bs))
             - (IF Last(bs) >= Base \div 2 THEN Base ^ Len(bs) ELSE 0)

(* Whether an lcn is stored: on NTFS 3 a hole has none.                    *)
Stored(e) == e.lcn >= 0 \/ ver < 3
Mapped(r) == \A i \in 1..Len(r) - 1 : r[i].lcn >= Hole

(* The element with a vcn, at which both of the following start.           *)
IndexOf(r, start) == Min({k \in 1..EndAt(r) : k = EndAt(r) \/ start < r[k + 1].vcn})

\* Mutant: the lcn the next run is relative to is that of the whole first run.
SizeForPairs_NoDelta(r, start) ==
    LET first == IndexOf(r, start)
        d == start - r[first].vcn
        Count(acc, e) ==
            [size |-> acc.size + 1 + NrBytes(IF e = r[first] THEN e.len - d ELSE e.len)
                      + (IF Stored(e) THEN NrBytes(e.lcn - acc.prev) ELSE 0),
             prev |-> IF Stored(e) THEN e.lcn ELSE acc.prev]
    IN FoldLeft(Count, [size |-> 1, prev |-> 0], SubSeq(r, first, EndAt(r) - 1)).size

(* ntfs_get_size_for_mapping_pairs: the zero byte at the end, the first    *)
(* run in part, and all of the others.                                     *)
SizeForPairs(r, start) ==
    LET first == IndexOf(r, start)
        d == start - r[first].vcn
        lcn == IF r[first].lcn >= 0 THEN r[first].lcn + d ELSE r[first].lcn
        part == IF d = 0 THEN [size |-> 1, prev |-> 0]
                ELSE [size |-> 2 + NrBytes(r[first].len - d) + (IF Stored(r[first]) THEN NrBytes(lcn) ELSE 0),
                      prev |-> IF Stored(r[first]) THEN lcn ELSE 0]
        Count(acc, e) ==
            [size |-> acc.size + 1 + NrBytes(e.len) + (IF Stored(e) THEN NrBytes(e.lcn - acc.prev) ELSE 0),
             prev |-> IF Stored(e) THEN e.lcn ELSE acc.prev]
    IN FoldLeft(Count, part, SubSeq(r, IF d = 0 THEN first ELSE first + 1, EndAt(r) - 1)).size

(* ntfs_mapping_pairs_build: pair after pair as long as the zero byte has  *)
(* room behind it, at is where the next one is put.  A run that is started *)
(* in part keeps its vcn, and has it for stop when it does not fit.        *)
Build(r, start, room) ==
    LET first == IndexOf(r, start)
        d == start - r[first].vcn
        part == [r[first] EXCEPT !.len = @ - d, !.lcn = IF @ >= 0 THEN @ + d ELSE @]
        Put(acc, e) ==
            LET len == Bytes(e.len)
                lcn == IF Stored(e) THEN Bytes(e.lcn - acc.prev) ELSE <<>>
                next == acc.at + 1 + Len(len) + Len(lcn)
            IN IF acc.ok /\ next <= room - 1
               THEN [acc EXCEPT !.pairs = Append(@, [len |-> len, lcn |-> lcn]),
                                !.at = next, !.prev = IF Stored(e) THEN e.lcn ELSE @]
               ELSE [acc EXCEPT !.ok = FALSE, !.stop = IF acc.ok THEN e.vcn ELSE @]
    IN FoldLeft(Put, [pairs |-> <<>>, at |-> 0, prev |-> 0, ok |-> TRUE, stop |-> r[EndAt(r)].vcn],
                (IF first = EndAt(r) THEN <<>> ELSE <<part>>) \o SubSeq(r, first + 1, EndAt(r) - 1))

Extent(b, start) == [lowest |-> start, highest |-> b.stop - 1, pairs |-> b.pairs]

(* ntfs_attr_update_mapping_pairs: extent after extent, each with the room *)
(* its pairs take or what there is in its record, until all is said.  It   *)
(* would not end in records that have no room for a pair.                  *)
RECURSIVE Extents(_, _, _, _)
Extents(r, start, first, other) ==
    LET b == Build(r, start, Min({SizeForPairs(r, start), first})) IN
    <<Extent(b, start)>> \o IF b.ok \/ b.stop <= start THEN <<>> ELSE Extents(r, b.stop, other, other)

(* ntfs_mapping_pairs_decompress, without the merge: a piece of a runlist, *)
(* with what is in front of it and, for the first extent, behind it.  A    *)
(* highest vcn of zero stands for an attribute of a single extent.         *)
Deltas(ps, k) == SumOf([i \in 1..k |-> IF ps[i].lcn = <<>> THEN 0 ELSE Value(ps[i].lcn)], k)
Lengths(ps, k) == SumOf([i \in 1..k |-> Value(ps[i].len)], k)
Decompress(x, allocated) ==
    LET ps == x.pairs
        n == Len(ps)
        end == x.lowest + Lengths(ps, n)
        runs == [i \in 1..n |-> Elem(x.lowest + Lengths(ps, i - 1),
                                     IF ps[i].lcn = <<>> THEN Hole ELSE Deltas(ps, i),
                                     Value(ps[i].len))]
        more == x.lowest = 0 /\ x.highest # 0 /\ x.highest < allocated - 1
    IN (IF x.lowest > 0 THEN <<Elem(0, NotMapped, x.lowest)>> ELSE <<>>)
       \o runs
       \o (IF more THEN <<Elem(end, NotMapped, allocated - 1 - x.highest)>> ELSE <<>>)
       \o <<Elem(IF more THEN allocated ELSE end, IF x.lowest = 0 THEN Enoent ELSE NotMapped, 0)>>

(* What the function refuses as corrupt.                                   *)
Corrupt(x, allocated) ==
    LET ps == x.pairs IN
    \/ \E i \in 1..Len(ps) : Value(ps[i].len) < 0 \/ Deltas(ps, i) < Hole
    \/ x.highest # 0 /\ x.lowest + Lengths(ps, Len(ps)) - 1 # x.highest
    \/ x.lowest = 0 /\ x.highest > allocated - 1
-----------------------------------------------------------------------------
(* ntfs_rl_are_mergeable                                                   *)
Mergeable(d, s) ==
    \/ d.lcn = NotMapped /\ s.lcn = NotMapped
    \/ /\ EndOf(d) = s.vcn
       /\ \/ d.lcn >= 0 /\ s.lcn >= 0 /\ d.lcn + d.len = s.lcn
          \/ d.lcn = Hole /\ s.lcn = Hole
One(b) == IF b THEN 1 ELSE 0

(* The end marker follows when the length of the file may have changed.    *)
FixEnd(r, i) == IF i <= Len(r) /\ r[i].lcn = Enoent
                THEN [r EXCEPT ![i].vcn = EndOf(r[i - 1])] ELSE r
LastGrown(src, grow, by) == IF grow THEN Front(src) \o <<Grown(Last(src), by)>> ELSE src

(* ntfs_rl_append: after the element at loc, the hole there gets shorter.  *)
RlAppend(dst, src, loc) ==
    LET right == loc < Len(dst) /\ Mergeable(Last(src), dst[loc + 1])
        new == IF loc < Len(dst) THEN LastGrown(src, right, dst[loc + 1]) ELSE src
        r == SubSeq(dst, 1, loc) \o new \o SubSeq(dst, loc + 1 + One(right), Len(dst))
    IN FixEnd([r EXCEPT ![loc].len = r[loc + 1].vcn - r[loc].vcn], loc + Len(src) + 1)

(* ntfs_rl_insert: in front of the element at loc, the hole there gets     *)
(* shorter, and what lies between the end of file and src is not mapped.   *)
RlInsert(dst, src, loc) ==
    LET left == loc > 1 /\ Mergeable(dst[loc - 1], src[1])
        head == IF left THEN [SubSeq(dst, 1, loc - 1) EXCEPT ![loc - 1] = Grown(@, src[1])]
                ELSE SubSeq(dst, 1, loc - 1)
        end == IF loc = 1 THEN 0 ELSE EndOf(head[loc - 1])
        disc == src[1].vcn > end /\ ~left
        gap == IF disc THEN <<Elem(end, NotMapped, src[1].vcn - end)>> ELSE <<>>
        new == head \o gap \o SubSeq(src, 1 + One(left), Len(src))
        m == Len(new) + 1
        r == [new \o SubSeq(dst, loc, Len(dst)) EXCEPT ![m].vcn = EndOf(Last(new))]
    IN IF dst[loc].lcn \in {Hole, NotMapped}
       THEN [r EXCEPT ![m].len = r[m + 1].vcn - r[m].vcn] ELSE r

\* Mutant: elements that could be one stay two.
RlReplace_NoGrowth(dst, src, loc) ==
    LET right == loc < Len(dst) /\ Mergeable(Last(src), dst[loc + 1])
        left == loc > 1 /\ Mergeable(dst[loc - 1], src[1])
    IN FixEnd(SubSeq(dst, 1, loc - 1) \o SubSeq(src, 1 + One(left), Len(src))
              \o SubSeq(dst, loc + 1 + One(right), Len(dst)), loc + Len(src) - One(left))

(* ntfs_rl_replace: the whole element at loc.                              *)
RlReplace(dst, src, loc) ==
    LET right == loc < Len(dst) /\ Mergeable(Last(src), dst[loc + 1])
        left == loc > 1 /\ Mergeable(dst[loc - 1], src[1])
        new == IF loc < Len(dst) THEN LastGrown(src, right, dst[loc + 1]) ELSE src
        head == SubSeq(dst, 1, loc - 1)
        r == (IF left THEN [head EXCEPT ![loc - 1] = Grown(@, new[1])] ELSE head)
             \o SubSeq(new, 1 + One(left), Len(new))
             \o SubSeq(dst, loc + 1 + One(right), Len(dst))
    IN FixEnd(r, loc + Len(src) - One(left))

\* Mutant: what is behind the hole starts where the hole did.
RlSplit_SameTail(dst, src, loc) ==
    LET r == SubSeq(dst, 1, loc) \o src \o SubSeq(dst, loc, Len(dst))
    IN [r EXCEPT ![loc].len = r[loc + 1].vcn - r[loc].vcn]

(* ntfs_rl_split: in the middle of the element at loc.                     *)
RlSplit(dst, src, loc) ==
    LET r == SubSeq(dst, 1, loc) \o src \o SubSeq(dst, loc, Len(dst))
        tail == loc + Len(src) + 1
    IN [r EXCEPT ![loc].len = r[loc + 1].vcn - r[loc].vcn,
                 ![tail].vcn = EndOf(r[tail - 1]),
                 ![tail].len = r[tail + 1].vcn - EndOf(r[tail - 1])]

(* The last lines of ntfs_runlists_merge: the end marker of the source is  *)
(* one of the attribute and may lie behind the end of the result.          *)
Marked(r, from, vcn) ==
    IF from > Len(r) THEN r
    ELSE LET i == EndFrom(r, from) IN
         IF r[i].vcn > vcn THEN r
         ELSE IF r[i].vcn = vcn THEN [r EXCEPT ![i].lcn = Enoent]
         ELSE LET k == IF r[i].lcn = Enoent /\ r[i - 1].lcn = NotMapped THEN i - 1 ELSE i
              IN SubSeq(r, 1, k - 1)
                 \o <<Elem(r[k].vcn, NotMapped, vcn - r[k].vcn), Elem(vcn, Enoent, 0)>>

(* ntfs_runlists_merge                                                     *)
Merge(drl, srl) ==
    IF drl = <<>>
    THEN IF srl[1].vcn > 0 THEN <<Elem(0, NotMapped, srl[1].vcn)>> \o srl ELSE srl
    ELSE
    LET s == Min({i \in 1..Len(srl) : srl[i].len = 0 \/ srl[i].lcn >= Hole})
        d == Min({i \in 1..Len(drl) : drl[i].len = 0 \/ EndOf(drl[i]) > srl[s].vcn})
        send == EndFrom(srl, s)
        dend == EndFrom(drl, d)
        sfinal == Max({i \in 1..send : srl[i].lcn >= Hole})
        marker == srl[send].lcn = Enoent
        start == drl[d].lcn < NotMapped \/ drl[d].vcn = srl[s].vcn
        covers == drl[d].lcn >= NotMapped /\ EndOf(drl[d]) <= EndOf(srl[send - 1])
        src == SubSeq(srl, s, IF covers /\ drl[d].len = 0 THEN sfinal + 1 ELSE sfinal)
        finish == covers /\ ~(marker /\ EndOf(drl[d]) > srl[send - 1].vcn)
        dst == SubSeq(drl, 1, dend)
        r == CASE start /\ finish -> RlReplace(dst, src, d)
               [] start /\ ~finish -> RlInsert(dst, src, d)
               [] ~start /\ finish -> RlAppend(dst, src, d)
               [] OTHER -> RlSplit(dst, src, d)
    IN IF marker THEN Marked(r, dend, srl[send].vcn) ELSE r

(* ntfs_rl_truncate                                                        *)
Truncated(r, start) ==
    LET i == Min({k \in 1..EndAt(r) - 1 : start < r[k + 1].vcn})
    IN IF start > r[i].vcn
       THEN SubSeq(r, 1, i - 1) \o <<Elem(r[i].vcn, r[i].lcn, start - r[i].vcn), Elem(start, Enoent, 0)>>
       ELSE SubSeq(r, 1, i - 1) \o <<Elem(start, Enoent, 0)>>
-----------------------------------------------------------------------------
(* ntfs_attr_map_runlist: the extent with this vcn is merged.              *)
ExtentOf(v) == CHOOSE x \in Range(exts) : v \in x.lowest..x.highest
WithExtent(r, x) == Merge(r, Decompress(x, Size(map)))

(* ntfs_attr_map_whole_runlist: every extent whose first vcn is not mapped.*)
Whole(r) == FoldLeft(LAMBDA acc, x : IF VcnToLcn(acc, x.lowest) = NotMapped
                                     THEN WithExtent(acc, x) ELSE acc, r, exts)

Short(xs) == Len(xs) > 1 /\ xs[1].highest = 0

Init ==
    /\ map \in InitMaps
    /\ ver \in {1, 3}
    /\ exts = <<>> /\ rl = <<>>
    /\ amiss = FALSE /\ calls = 0

(* Some driver has made the attribute and written its records.             *)
Create ==
    /\ exts = <<>>
    /\ \E first, other \in Rooms :
          exts' = Extents(RunsOf(map, 0, Size(map) - 1) \o <<Elem(Size(map), Enoent, 0)>>, 0, first, other)
    /\ amiss' = Short(exts')
    /\ UNCHANGED <<map, rl, ver, calls>>

(* The mapping pairs of the new runlist go to disk, in records that have   *)
(* room for some of them.                                                  *)
Update(r, m) ==
    /\ rl' = r /\ map' = m
    /\ \E first, other \in Rooms : exts' = Extents(r, 0, first, other)
    /\ amiss' = (amiss \/ Short(exts'))
    /\ calls' = calls + 1
    /\ UNCHANGED ver

(* After Short nothing is known of the runlist that is changed; what such  *)
(* a change does is left out.                                              *)
Changeable == exts # <<>> /\ ~amiss /\ calls < MaxCalls

(* A read or a write needs the run of a vcn.                               *)
MapRunlist(v) ==
    /\ exts # <<>> /\ v < Size(map) /\ VcnToLcn(rl, v) = NotMapped
    /\ ~Corrupt(ExtentOf(v), Size(map))
    /\ rl' = WithExtent(rl, ExtentOf(v))
    /\ UNCHANGED <<map, exts, ver, amiss, calls>>

MapWholeRunlist ==
    /\ exts # <<>> /\ rl' = Whole(rl)
    /\ UNCHANGED <<map, exts, ver, amiss, calls>>

(* The clusters of a piece from ntfs_cluster_alloc, with its end marker.   *)
Piece(m, lo, hi) == RunsOf(m, lo, hi) \o <<Elem(hi + 1, NotMapped, 0)>>
Granted(lo, hi) == {f \in [lo..hi -> Free] : Cardinality(Range(f)) = hi + 1 - lo}

(* ntfs_attr_pwrite instantiates a hole, from the cluster it writes to up  *)
(* to the end of the data or of the run.                                   *)
FillHole(lo, hi) ==
    /\ Changeable
    /\ \E i \in 1..EndAt(Whole(rl)) - 1 :
          LET e == Whole(rl)[i] IN e.lcn = Hole /\ e.vcn <= lo /\ lo <= hi /\ hi < EndOf(e)
    /\ \E f \in Granted(lo, hi) :
          LET m == [v \in DOMAIN map |-> IF v \in lo..hi THEN f[v] ELSE map[v]]
          IN Update(Merge(Whole(rl), Piece(m, lo, hi)), m)

(* ntfs_non_resident_attr_expand appends clusters, or a hole to $DATA on   *)
(* NTFS 3.                                                                 *)
Expand(hi) ==
    /\ Changeable /\ Size(map) <= hi /\ hi < MaxVcn
    /\ \/ \E f \in Granted(Size(map), hi) :
             LET m == [v \in 0..hi |-> IF v < Size(map) THEN map[v] ELSE f[v]]
             IN Update(Merge(Whole(rl), Piece(m, Size(map), hi)), m)
       \/ /\ ver = 3
          /\ LET m == [v \in 0..hi |-> IF v < Size(map) THEN map[v] ELSE Hole]
             IN Update(Merge(Whole(rl), <<Elem(Size(map), Hole, hi + 1 - Size(map)), Elem(hi + 1, Enoent, 0)>>), m)

(* ntfs_non_resident_attr_shrink cuts, not to nothing.                     *)
Shrink(v) ==
    /\ Changeable /\ 0 < v /\ v < Size(map)
    /\ Update(Truncated(Whole(rl), v), [w \in 0..v - 1 |-> map[w]])

(* The attribute is closed and opened: its runlist is forgotten.           *)
Reopen ==
    /\ rl # <<>> /\ rl' = <<>>
    /\ UNCHANGED <<map, exts, ver, amiss, calls>>

Next ==
    \/ Create
    \/ \E v \in 0..MaxVcn - 1 : MapRunlist(v) \/ Expand(v) \/ Shrink(v)
    \/ MapWholeRunlist
    \/ \E lo, hi \in 0..MaxVcn - 1 : FillHole(lo, hi)
    \/ Reopen

Spec == Init /\ [][Next]_vars
-----------------------------------------------------------------------------
(* Whatever has been merged in whatever order, the runlist in memory is    *)
(* one - its elements follow each other without a gap, none is empty but   *)
(* the end marker, and neighbours that could be one element are - and says *)
(* of a vcn what the attribute maps, or that it is not known yet.  Of none *)
(* of the attribute it says that there is no such vcn.                     *)
RunlistInOrder ==
    /\ rl[1].vcn = 0 /\ EndAt(rl) = Len(rl)
    /\ \A i \in 1..Len(rl) - 1 : rl[i].len > 0 /\ EndOf(rl[i]) = rl[i + 1].vcn
    /\ Last(rl).lcn \in {NotMapped, Enoent}
    /\ \A i \in 1..Len(rl) - 2 : ~Mergeable(rl[i], rl[i + 1])

RunlistSaysMap ==
    ~amiss =>
        /\ rl # <<>> => RunlistInOrder
        /\ \A v \in 0..MaxVcn :
              VcnToLcn(rl, v) \in {NotMapped, IF v < Size(map) THEN map[v] ELSE Enoent}

(* The extents on disk say what the attribute maps, in one and only one    *)
(* extent for each vcn: what was written from a runlist is read back.      *)
RecordsSayMap ==
    ~amiss => \A i \in 1..Len(exts) :
        /\ exts[i].lowest = (IF i = 1 THEN 0 ELSE exts[i - 1].highest + 1)
        /\ i = Len(exts) => exts[i].highest = Size(map) - 1
        /\ ~Corrupt(exts[i], Size(map))
        /\ \A v \in exts[i].lowest..exts[i].highest :
              VcnToLcn(Decompress(exts[i], Size(map)), v) = map[v]

(* From any vcn, the size that is computed for mapping pairs is just the   *)
(* room in which building them succeeds, and they say the mapping.  In     *)
(* less room, those that fit say the beginning of it and the stop vcn is   *)
(* the first that is not in them; only when the rest of the run with the   *)
(* vcn does not fit, it is the first of that run.                          *)
SaysMap(b, start, end) ==
    LET x == [lowest |-> start, highest |-> end - 1, pairs |-> b.pairs]
    IN \A v \in start..end - 1 : VcnToLcn(Decompress(x, Size(map)), v) = map[v]

SizeIsRoomNeeded ==
    rl # <<>> /\ Mapped(rl) /\ ~amiss =>
        \A start \in 0..Size(map) - 1 : \A room \in 1..SizeForPairs(rl, start) :
            LET b == Build(rl, start, room)
                end == start + Lengths(b.pairs, Len(b.pairs))
            IN /\ b.ok = (room = SizeForPairs(rl, start))
               /\ b.ok => end = Size(map)
               /\ SaysMap(b, start, end)
               /\ b.stop = IF b.pairs = <<>> THEN rl[IndexOf(rl, start)].vcn ELSE end
=============================================================================
