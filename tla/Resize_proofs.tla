--------------------------- MODULE Resize_proofs ---------------------------
(***************************************************************************)
(* For every device and volume, every list of sizes asked for, any number  *)
(* of runs and of stops behind any write: ntfsresize keeps the data of the *)
(* volume, keeps all of it inside, keeps the copies of the first records   *)
(* where the boot sector has them, and leaves $Bitmap and $BadClus right   *)
(* whenever the volume is not marked.                                      *)
(*                                                                         *)
(* The invariant is made of what holds on the disk at all times (Layout,   *)
(* Apart, Marked, Idles) and of what the program knows in each of its      *)
(* phases (Program, Reserved, Turning, Mirror, Working, Ending and so on). *)
(***************************************************************************)
EXTENDS Resize, NatSetLemmas, SequenceTheorems, TLAPS

(* What find_free_cluster finds.  The order in which zones are met.        *)
Earlier(y, z, pos) ==
    IF (y.at >= pos) = (z.at >= pos) THEN y.at < z.at ELSE y.at >= pos
FirstOf(s, pos) == CHOOSE z \in s : \A y \in s : ~Earlier(y, z, pos)
Size(z) == z.end - z.at

(* A zone lies inside the volume, is free, and ends where the search does  *)
(* or a cluster is in use.                                                 *)
LEMMA ZoneIs ==
    ASSUME NEW bm, NEW nr \in Nat, NEW pos \in Nat, NEW z \in Zones(bm, nr, pos)
    PROVE  /\ z.at \in 0..nr - 1 /\ z.end \in 1..nr /\ z.at < z.end /\ z.at \in Nat
           /\ z.at >= pos \/ z.end <= pos
           /\ z.at \in {0, pos} \/ z.at - 1 \in bm
           /\ z.end \in {pos, nr} \/ z.end \in bm
           /\ \A c \in z.at..z.end - 1 : c \notin bm
           /\ Size(z) \in 1..nr
<1>1. /\ z \in [at : 0..nr - 1, end : 1..nr] /\ z.at < z.end /\ (z.at >= pos \/ z.end <= pos)
      /\ (z.at..z.end - 1) \intersect bm = {}
      /\ z.at \in {0, pos} \/ z.at - 1 \in bm
      /\ z.end \in {pos, nr} \/ z.end \in bm
  BY DEF Zones
<1>2. z.at \in 0..nr - 1 /\ z.end \in 1..nr
  BY <1>1
<1>3. Size(z) \in 1..nr
  BY <1>1, <1>2 DEF Size
<1>4. \A c \in z.at..z.end - 1 : c \notin bm
  BY <1>1
<1> QED
  BY <1>1, <1>2, <1>3, <1>4

(* A set of zones has a first one.                                         *)
LEMMA FirstIs ==
    ASSUME NEW bm, NEW nr \in Nat, NEW pos \in Nat, NEW s \in SUBSET Zones(bm, nr, pos), s # {}
    PROVE  FirstOf(s, pos) \in s /\ \A y \in s : ~Earlier(y, FirstOf(s, pos), pos)
<1> DEFINE turn(z) == IF z.at >= pos THEN z.at - pos ELSE nr + z.at
           turns == {n \in Nat : \E z \in s : n = turn(z)}
<1>1. \A z \in s : z.at \in 0..nr - 1
  BY ZoneIs
<1>2. \A z \in s : turn(z) \in Nat
  BY <1>1
<1>3. turns # {}
  BY <1>2
<1>4. PICK m \in turns : \A k \in turns : m <= k
  BY <1>3, SmallestExists
<1>5. PICK z \in s : m = turn(z)
  BY <1>4
<1>6. \A y \in s : ~Earlier(y, z, pos)
  <2> SUFFICES ASSUME NEW y \in s, Earlier(y, z, pos) PROVE FALSE
    OBVIOUS
  <2>1. turn(y) >= turn(z) /\ y.at \in 0..nr - 1 /\ z.at \in 0..nr - 1
    BY <1>1, <1>2, <1>4, <1>5
  <2>2. turn(y) < turn(z)
    <3>1. CASE (y.at >= pos) = (z.at >= pos)
      BY <2>1, <3>1 DEF Earlier
    <3>2. CASE (y.at >= pos) # (z.at >= pos)
      <4>1. y.at >= pos /\ ~(z.at >= pos)
        BY <3>2 DEF Earlier
      <4> QED
        BY <2>1, <4>1
    <3> QED
      BY <3>1, <3>2
  <2> QED
    BY <1>2, <2>1, <2>2
<1> QED
  BY <1>6 DEF FirstOf

(* What is found is the beginning of a zone, or all of it.  One that is    *)
(* not long enough ends before a cluster that is in use, and the first of  *)
(* a search from the start lies before all that is free.                   *)
IsFound(bm, nr, pos, items, r) ==
    /\ r.lcn \in 0..nr - 1 /\ r.len \in 1..items /\ r.lcn + r.len <= nr
    /\ \A c \in r.lcn..r.lcn + r.len - 1 : c \notin bm
    /\ items = 2 /\ r.len = 1 => r.lcn + 1 \in bm \/ r.lcn + 1 = nr
    /\ items = 1 /\ pos = 0 => \A z \in Zones(bm, nr, pos) : r.lcn <= z.at

(* find_free_cluster finds free clusters inside the volume, no more than   *)
(* are asked for.                                                          *)
LEMMA FoundIs ==
    ASSUME NEW bm \in SUBSET Nat, NEW nr \in Nat, NEW pos \in Nat, NEW items \in Nat \ {0},
           NEW range, NEW r, Zones(bm, nr, pos) # {},
           r = Found(Zones(bm, nr, pos), items, pos, range)
    PROVE  IsFound(bm, nr, pos, items, r)
<1> DEFINE zones == Zones(bm, nr, pos)
           stops == {z \in zones : Size(z) >= items
                       \/ (Size(z) = range /\ \A y \in zones : Earlier(y, z, pos) => Size(y) < Size(z))}
           longest == {z \in zones : \A y \in zones : Size(y) <= Size(z)}
           z == IF stops # {} THEN FirstOf(stops, pos) ELSE FirstOf(longest, pos)
<1>1. r = [lcn |-> z.at, len |-> Min({items, Size(z)})]
  BY DEF Found, FirstOf, Earlier, Size
<1>2. \A y \in zones : Size(y) \in 1..nr
  BY ZoneIs
<1>3. longest # {}
  <2> DEFINE sizes == {n \in Nat : \E y \in zones : n = Size(y)}
  <2>1. sizes # {} /\ sizes \in SUBSET Nat /\ \A n \in sizes : n <= nr
    BY <1>2
  <2>2. PICK n \in sizes : \A m \in sizes : m <= n
    <3> HIDE DEF sizes
    <3> QED
      BY <2>1, LargestIsGreatest
  <2>3. PICK y \in zones : n = Size(y)
    BY <2>2
  <2>4. y \in longest
    BY <1>2, <2>2, <2>3
  <2> QED
    BY <2>4
<1>4. stops \subseteq zones /\ longest \subseteq zones
  OBVIOUS
<1> HIDE DEF stops, longest
<1>5. /\ z \in zones
      /\ \/ z \in stops /\ \A y \in stops : ~Earlier(y, z, pos)
         \/ stops = {} /\ z \in longest /\ \A y \in longest : ~Earlier(y, z, pos)
  <2>1. CASE stops # {}
    <3>1. FirstOf(stops, pos) \in stops /\ \A y \in stops : ~Earlier(y, FirstOf(stops, pos), pos)
      BY <1>4, <2>1, FirstIs
    <3> QED
      BY <1>4, <2>1, <3>1
  <2>2. CASE stops = {}
    <3>1. FirstOf(longest, pos) \in longest /\ \A y \in longest : ~Earlier(y, FirstOf(longest, pos), pos)
      BY <1>3, <1>4, FirstIs
    <3> QED
      BY <1>4, <2>2, <3>1
  <2> QED
    BY <2>1, <2>2
<1>6. /\ z.at \in 0..nr - 1 /\ z.end \in 1..nr /\ z.at < z.end
      /\ z.at >= pos \/ z.end <= pos
      /\ z.end \in {pos, nr} \/ z.end \in bm
      /\ \A c \in z.at..z.end - 1 : c \notin bm
      /\ Size(z) \in 1..nr
  BY <1>5, ZoneIs
<1> HIDE DEF z
<1>7. r.lcn = z.at /\ r.len = Min({items, Size(z)})
  BY <1>1
<1>8. r.len = IF items <= Size(z) THEN items ELSE Size(z)
  <2>1. \E x \in {items, Size(z)} : \A y \in {items, Size(z)} : x <= y
    BY <1>6
  <2> QED
    BY <1>6, <1>7, <2>1 DEF Min
<1>9. /\ r.lcn \in 0..nr - 1 /\ r.len \in 1..items /\ r.lcn + r.len <= nr
      /\ r.len <= z.end - z.at
  BY <1>6, <1>7, <1>8 DEF Size
<1>10. \A c \in r.lcn..r.lcn + r.len - 1 : c \notin bm
  BY <1>6, <1>7, <1>9
<1>11. ASSUME items = 2, r.len = 1
       PROVE  r.lcn + 1 \in bm \/ r.lcn + 1 = nr
  <2>1. Size(z) = 1 /\ z.end = z.at + 1
    BY <1>6, <1>8, <1>11 DEF Size
  <2> SUFFICES ASSUME z.end = pos, pos \notin bm, pos # nr PROVE FALSE
    BY <1>6, <1>7, <2>1
  <2>2. pos \in 0..nr - 1
    BY <1>6
  <2> DEFINE after == {e \in Nat : e > pos /\ (e = nr \/ e \in bm)}
  <2>3. nr \in after
    BY <2>2
  <2>4. PICK e \in after : \A k \in after : e <= k
    BY <2>3, SmallestExists
  <2> DEFINE y == [at |-> pos, end |-> e]
  <2>5. y \in zones
    <3>1. y \in [at : 0..nr - 1, end : 1..nr]
      BY <2>2, <2>3, <2>4
    <3>2. \A c \in pos..e - 1 : c \notin bm
      <4> SUFFICES ASSUME NEW c \in pos..e - 1, c \in bm PROVE FALSE
        OBVIOUS
      <4>1. c \in after
        BY <2>2
      <4> QED
        BY <2>4, <4>1
    <3>3. (y.at..y.end - 1) \intersect bm = {}
      BY <3>2
    <3> QED
      BY <2>4, <3>1, <3>3 DEF Zones
  <2>6. Earlier(y, z, pos) /\ Size(y) >= 1 /\ Size(y) \in Nat
    BY <1>6, <2>1, <2>2, <2>4 DEF Earlier, Size
  <2>7. CASE z \in stops
    BY <1>11, <2>1, <2>5, <2>6, <2>7 DEF stops
  <2>8. CASE z \in longest /\ \A x \in longest : ~Earlier(x, z, pos)
    <3>1. \A x \in zones : Size(x) <= 1
      BY <2>1, <2>8 DEF longest
    <3>2. Size(y) = 1
      BY <2>5, <2>6, <3>1
    <3>3. y \in longest
      BY <2>5, <3>1, <3>2 DEF longest
    <3> QED
      BY <2>6, <2>8, <3>3
  <2> QED
    BY <1>5, <2>7, <2>8
<1>12. ASSUME items = 1, pos = 0, NEW y \in zones
       PROVE  r.lcn <= y.at
  <2>1. y \in stops /\ y.at \in Nat
    BY <1>2, <1>12, ZoneIs DEF stops
  <2>2. ~Earlier(y, z, pos)
    BY <1>5, <2>1
  <2> QED
    BY <1>6, <1>7, <1>12, <2>1, <2>2 DEF Earlier
<1> QED
  BY <1>9, <1>10, <1>11, <1>12 DEF IsFound

(* A search from the start finds nothing behind a cluster that is free.    *)
LEMMA FoundBefore ==
    ASSUME NEW bm \in SUBSET Nat, NEW nr \in Nat, NEW range, NEW r,
           NEW b \in 0..nr - 1, b \notin bm,
           r = Found(Zones(bm, nr, 0), 1, 0, range)
    PROVE  Zones(bm, nr, 0) # {} /\ r.lcn <= b
<1> DEFINE after == {e \in Nat : e > b /\ (e = nr \/ e \in bm)}
           before == {c \in Nat : c <= b /\ (c = 0 \/ c - 1 \in bm)}
<1>1. nr \in after /\ 0 \in before
  OBVIOUS
<1>2. PICK e \in after : \A k \in after : e <= k
  BY <1>1, SmallestExists
<1>3. PICK a \in before : \A k \in before : k <= a
  <2>1. \A k \in before : k <= b
    OBVIOUS
  <2> HIDE DEF before
  <2>2. before \in SUBSET Nat
    BY DEF before
  <2>3. b \in Nat /\ before # {}
    BY <1>1
  <2>4. Largest(before) \in before /\ \A k \in before : k <= Largest(before)
    BY <2>1, <2>2, <2>3, LargestIsGreatest
  <2> QED
    BY <2>4
<1> DEFINE y == [at |-> a, end |-> e]
<1>4. y \in Zones(bm, nr, 0)
  <2>1. y \in [at : 0..nr - 1, end : 1..nr] /\ a <= b /\ b < e
    BY <1>1, <1>2, <1>3
  <2>2. \A c \in a..e - 1 : c \notin bm
    <3> SUFFICES ASSUME NEW c \in a..e - 1, c \in bm PROVE FALSE
      OBVIOUS
    <3>1. CASE c > b
      <4>1. c \in after
        BY <2>1, <3>1
      <4> QED
        BY <1>2, <2>1, <4>1
    <3>2. CASE c < b
      <4>1. c + 1 \in before
        BY <1>3, <2>1, <3>2
      <4> QED
        BY <1>3, <2>1, <4>1
    <3> QED
      BY <2>1, <3>1, <3>2
  <2>3. (y.at..y.end - 1) \intersect bm = {}
    BY <2>2
  <2>4. y.at \in {0, 0} \/ y.at - 1 \in bm
    BY <1>3
  <2>5. y.end \in {0, nr} \/ y.end \in bm
    BY <1>2
  <2> QED
    BY <2>1, <2>3, <2>4, <2>5 DEF Zones
<1> HIDE DEF y
<1>5. /\ r.lcn \in 0..nr - 1
      /\ \A z \in Zones(bm, nr, 0) : r.lcn <= z.at
  <2> DEFINE one == 1  zero == 0
  <2>2. one \in Nat \ {0} /\ zero \in Nat /\ one = 1 /\ zero = 0
    OBVIOUS
  <2>3. Zones(bm, nr, zero) # {} /\ r = Found(Zones(bm, nr, zero), one, zero, range)
    BY <1>4
  <2> HIDE DEF one, zero
  <2>4. IsFound(bm, nr, zero, one, r)
    BY <2>2, <2>3, FoundIs
  <2> QED
    BY <2>2, <2>4 DEF IsFound
<1>6. y.at = a
  BY DEF y
<1> QED
  BY <1>3, <1>4, <1>5, <1>6

(* While the program runs the records are where its runlist of $MFT says.  *)
Running == pc \notin {"off", "done"}
Home == IF Running THEN mem.mft ELSE MftMap
At(f) == cell[Home[VcnOf(f)]].recs[f]

(* The clusters a runlist may have, the records, those with clusters of    *)
(* their own, and how many.                                                *)
Clusters == 1 .. Device - 1
Records == Range(Refs)
Owners == {Mft, MftExt, MftMirr, Bitmap, File}
Length(f) == CASE f = Mft -> IF split THEN 2 ELSE 3 [] f = MftExt -> IF split THEN 1 ELSE 0
              [] f = BadClus -> 0 [] f = Bitmap -> 1 [] OTHER -> 2
IsRec(r, n) == r = Rec(r.map, r.size) /\ r.map \in [1..n -> Clusters]
Once(m) == \A i, j \in DOMAIN m : m[i] = m[j] => i = j
Img(m) == {m[i] : i \in DOMAIN m}

(* Where the disk says that the clusters of $MFT are.                      *)
Spot(v) == IF split /\ v = 3 THEN At(MftExt).map[1] ELSE At(Mft).map[v]

(* What holds at all times: the records are in the clusters of $MFT, those *)
(* are where the records of $MFT say or hold the same as what is there,    *)
(* the data is where the record of the file says and the bits where that   *)
(* of $Bitmap does.                                                        *)
Layout ==
    /\ split \in BOOLEAN /\ cell = [c \in 0..Device - 1 |-> cell[c]]
    /\ Home \in [1..3 -> Clusters] /\ Home[1] = MftStart /\ Once(Home)
    /\ \A v \in 1..3 : cell[Home[v]] = [recs |-> [f \in InVcn(v) |-> At(f)]]
    /\ \A f \in Records : IsRec(At(f), Length(f)) /\ Once(At(f).map)
    /\ At(Mft).map[1] = MftStart
    /\ \A v \in 1..3 : cell[Spot(v)] = cell[Home[v]]
    /\ \A v \in 1..2 : cell[At(File).map[v]] = Data(File, v)
    /\ cell[At(Bitmap).map[1]] = [bits |-> cell[At(Bitmap).map[1]].bits]
    /\ boot.nr \in 2..Device /\ boot.mirr \in Int

(* While a file is moved. What a file has besides the clusters it maps:    *)
(* $MFT and the mirror those of the mount, which the program goes on to    *)
(* use, the file that is moved those found for it.                         *)
Moving == {"allocate", "copy", "record"}
Now == Refs[mem.at]
Old(f) == CASE f = Mft -> {Home[v] : v \in 1..Length(Mft)} [] f = MftExt -> {Home[v] : v \in Length(Mft) + 1..3}
            [] f = MftMirr /\ Running -> Img(mem.mirr) [] OTHER -> {}
New(f) == IF pc \in Moving /\ f = Now THEN Img(mem.rec.map) \union Img(mem.dest) ELSE {}
Hold(f) == Img(At(f).map) \union Old(f) \union New(f)

(* Nobody has what another has, and nobody maps a cluster outside.         *)
Apart ==
    /\ \A f, g \in Owners : f # g => Hold(f) \intersect Hold(g) = {}
    /\ \A f \in Owners : \A c \in Img(At(f).map) : c < boot.nr

(* $Bitmap and $BadClus are right; before anything is written, unless the  *)
(* volume was marked already, and when a run is through.                   *)
Agreed ==
    /\ At(Bitmap).size = BitmapSize(boot.nr) /\ At(BadClus).size = boot.nr
    /\ cell[At(Bitmap).map[1]].bits = (InUse \union boot.nr..At(Bitmap).size - 1)
Marked == IF pc \in {"off", "prepare"} THEN ~dirty => Agreed ELSE dirty

(* Between two runs the copies of the first records are in place.          *)
Idles == pc \in {"off", "done"} =>
           /\ MirrorAtBoot
           /\ pc = "done" => Agreed

(* While the program's bitmap is what it started with and what it took;    *)
(* while it goes through the files; while it writes the new $Bitmap.       *)
Early == {"prepare", "inode", "badclus", "bitmap"} \union Moving
Turns == {"inode"} \union Moving
Late == {"bits", "bitmap record", "boot"}
Inside(f) == \A c \in Img(At(f).map) : c < mem.new

(* The first run of the mirror m, copied from the start of the old one.    *)
Pair(m) ==
    /\ mem.moved.old = mem.mirr[1] /\ mem.moved.lcn = m[1]
    /\ \/ mem.moved.len = 2 /\ m[2] = m[1] + 1
       \/ mem.moved.len = 1 /\ m[2] # m[1] + 1

(* What the program remembers has all its parts.                           *)
IsMem(m) ==
    m = [new |-> m.new, mft |-> m.mft, mirr |-> m.mirr, bm |-> m.bm, pos |-> m.pos,
         range |-> m.range, relocations |-> m.relocations, at |-> m.at, pass |-> m.pass,
         high |-> m.high, before |-> m.before, rec |-> m.rec, dest |-> m.dest,
         copied |-> m.copied, moved |-> m.moved]

(* While it runs the mirror is where the boot sector has it, and holds the *)
(* first records as they are now, but for one that has just been written.  *)
Program ==
    /\ IsMem(mem) /\ mem.new \in 2..Device /\ mem.new # boot.nr
    /\ mem.mirr \in [1..2 -> Clusters] /\ Once(mem.mirr)
    /\ \A v \in 1..2 : /\ mem.mirr[v] = boot.mirr + v - 1
                       /\ Mirrored[v] \in behind \/ cell[mem.mirr[v]] = [rec |-> At(Mirrored[v])]
    /\ behind = {} \/ (pc \in {"inode", "badclus"} /\ \E v \in 1..2 : behind = {Mirrored[v]})
    /\ mem.relocations \in BOOLEAN /\ (mem.relocations => mem.new < boot.nr)
    /\ mem.pos \in Nat
    /\ (\A c \in Img(mem.mirr) : c < mem.new) \/ (\A c \in Img(mem.mirr) : c >= mem.new)

(* The bitmap of the program has all that anybody has and, inside, nothing *)
(* else.                                                                   *)
Reserved ==
    pc \in Early =>
        /\ mem.bm \in SUBSET (0..Device - 1) /\ 0 \in mem.bm
        /\ \A f \in Owners : Hold(f) \subseteq mem.bm
        /\ \A c \in mem.bm : c < mem.new =>
              c = 0 \/ \E f \in Owners : c \in Img(At(f).map) \union New(f)
        /\ mem.new > boot.nr => mem.pos = 0

(* $MFT has not been moved yet: the records are where the disk says.       *)
Unread == \A v \in 1..3 : Spot(v) = mem.mft[v]

(* How far the files are: what is inside already, and which vcn of $MFT is *)
(* next. An extent of $MFT is moved before the base record.                *)
Turning ==
    pc \in Turns =>
        /\ mem.at \in 1..6 /\ mem.pass \in {0, 1} /\ mem.relocations
        /\ mem.pass = 0 =>
              /\ mem.high = IF mem.at = 1 THEN 0 ELSE IF split /\ mem.at <= 5 THEN 1 ELSE 2
              /\ pc \in Moving => mem.at \in {2, 6}
        /\ mem.pass = 1 =>
              /\ pc = "inode" => mem.high = IF ~split \/ mem.at >= 5 THEN 2 ELSE 1
              /\ pc \in Moving => (mem.at = 1 /\ mem.high = 0) \/ (split /\ mem.at = 5 /\ mem.high = 1)
        /\ mem.pass = 1 \/ mem.at > 2 => Inside(MftMirr)
        /\ mem.pass = 1 => Inside(File)
        /\ mem.pass = 0 \/ mem.at >= 5 \/ ~split => Unread
        /\ mem.pass = 1 /\ mem.at < 5 => Inside(MftExt)
        /\ mem.pass = 1 /\ mem.at < 5 /\ split => At(Mft).map[2] = mem.mft[2]

(* At first nothing has been done.                                         *)
Preparing ==
    pc = "prepare" =>
        /\ mem.at = 1 /\ mem.pass = 0 /\ mem.high = 0 /\ Unread

(* Behind the files all of them are inside, but for $Bitmap.               *)
Ended ==
    (pc = "prepare" /\ ~mem.relocations) \/ pc \in {"badclus", "bitmap"} \union Late =>
        (mem.new < boot.nr => \A f \in Owners \ {Bitmap} : Inside(f))

(* The record of the mirror still has the old place.                       *)
Still == \A v \in 1..2 : At(MftMirr).map[v] = mem.mirr[v]

(* What is kept of the mirror is where it was and the first run of where   *)
(* it goes, in the clusters found, the runlist or at last its record.      *)
Mirror ==
    /\ mem.moved = Unmoved => Still
    /\ mem.moved # Unmoved =>
          /\ mem.moved \in [old : Nat, lcn : Clusters, len : {1, 2}]
          /\ mem.relocations /\ \A v \in 1..2 : mem.mirr[v] >= mem.new
    /\ pc = "prepare" \/ (pc = "inode" /\ mem.pass = 0 /\ mem.at <= 2) => mem.moved = Unmoved
    /\ mem.moved # Unmoved =>
          IF pc \in Moving /\ Now = MftMirr
          THEN /\ Still
               /\ pc = "allocate" =>
                     /\ mem.dest \in [1..1 -> Clusters] /\ mem.moved.len = 1 /\ mem.moved.old = mem.mirr[1]
                     /\ mem.moved.lcn = mem.dest[1]
                     /\ mem.dest[1] + 1 \in mem.bm \/ mem.dest[1] + 1 = mem.new
               /\ pc = "copy" => Pair(mem.dest)
               /\ pc = "record" => Pair(mem.rec.map)
          ELSE Pair(At(MftMirr).map)

(* While a file is moved its runlist maps clusters that hold what those of *)
(* its record hold, and nothing outside once it is written.                *)
Working ==
    pc \in Moving =>
        /\ IsRec(mem.rec, Length(Now)) /\ Once(mem.rec.map) /\ mem.rec.size = At(Now).size
        /\ \A v \in 1..Length(Now) : cell[mem.rec.map[v]] = cell[At(Now).map[v]]
        /\ \A v \in 1..Length(Now) : At(Now).map[v] < mem.new => mem.rec.map[v] = At(Now).map[v]
        /\ \A v \in 1..Length(Now) : mem.rec.map[v] = At(Now).map[v] \/ mem.rec.map[v] < mem.new
        /\ mem.dest \in Seq(Clusters) /\ Once(mem.dest) /\ \A c \in Img(mem.dest) : c < mem.new
        /\ Img(mem.dest) \intersect (Img(At(Now).map) \union Img(mem.rec.map) \union Old(Now)) = {}
        /\ Now = MftMirr /\ pc # "record" => mem.rec.map = At(Now).map
        /\ Now = MftMirr /\ pc = "record" => mem.moved # Unmoved
        /\ Now = MftMirr /\ pc = "allocate" => (mem.dest = <<>> <=> mem.moved = Unmoved)
        /\ Now = MftMirr /\ pc = "copy" => mem.moved # Unmoved
        /\ pc = "record" => Outside(mem.rec) = {} /\ mem.dest = <<>>
        /\ pc # "record" => Outside(mem.rec) # {}
        /\ pc = "allocate" => Len(mem.dest) < RunLen
        /\ pc = "copy" => /\ Len(mem.dest) = RunLen /\ mem.copied < Len(mem.dest)
                          /\ \A i \in 1..mem.copied : cell[mem.dest[i]] = cell[mem.rec.map[RunAt + i - 1]]

(* Nothing is half copied but in the two phases that copy.                 *)
Plain ==
    /\ mem.copied \in Nat
    /\ pc \notin {"copy", "boot"} => mem.copied = 0
    /\ pc \in {"prepare", "inode", "badclus", "bitmap"} => mem.dest = <<>>

(* At the end the bits are those of the clusters in use, written before    *)
(* the record of $Bitmap maps them, and the mirror is copied once more.    *)
Ending ==
    /\ pc \in {"bitmap"} \union Late => At(BadClus).size = mem.new
    /\ pc \in Late =>
          /\ mem.dest \in [1..1 -> Clusters] /\ mem.dest[1] < mem.new /\ mem.dest[1] < boot.nr
          /\ \A f \in Owners \ {Bitmap} : mem.dest[1] \notin Hold(f)
          /\ mem.bm = {0} \union Img(mem.dest) \union (UNION {Img(At(f).map) : f \in Owners \ {Bitmap}})
                      \union mem.new..BitmapSize(mem.new) - 1
    /\ pc \in {"bitmap record", "boot"} => cell[mem.dest[1]] = [bits |-> mem.bm]
    /\ pc = "boot" =>
          /\ At(Bitmap) = Rec(mem.dest, BitmapSize(mem.new))
          /\ mem.copied <= mem.moved.len
          /\ \A i \in 1..mem.copied : cell[mem.moved.lcn + i - 1] = cell[mem.mirr[i]]

(* The invariant.                                                          *)
Disk == Layout /\ Apart /\ Marked /\ Idles
Task == Program /\ Reserved /\ Turning /\ Preparing /\ Ended /\ Mirror /\ Working /\ Plain /\ Ending
IInv == Disk /\ (Running => Task)

(* A function on 1..n is a sequence of n elements.                         *)
LEMMA FunIsSeq ==
    ASSUME NEW S, NEW n \in Nat, NEW s \in [1..n -> S]
    PROVE  s \in Seq(S) /\ Len(s) = n /\ DOMAIN s = 1..n
OBVIOUS

(* The two clusters of the base record of $MFT and the one of its extent,  *)
(* put together.                                                           *)
LEMMA ConcatIs ==
    ASSUME NEW S, NEW a \in Seq(S), NEW b \in Seq(S), Len(a) = 2, Len(b) = 1
    PROVE  /\ a \o b \in [1..3 -> S] /\ a \o b \in Seq(S) /\ Len(a \o b) = 3
           /\ (a \o b)[1] = a[1] /\ (a \o b)[2] = a[2] /\ (a \o b)[3] = b[1]
<1>1. /\ a \o b \in Seq(S) /\ Len(a \o b) = Len(a) + Len(b)
      /\ \A i \in 1..Len(a) + Len(b) : (a \o b)[i] = IF i <= Len(a) THEN a[i] ELSE b[i - Len(a)]
  BY ConcatProperties, ZenonT(30)
<1> DEFINE s == a \o b
<1>2. /\ s \in Seq(S) /\ Len(s) = 3
      /\ \A i \in 1..3 : s[i] = IF i <= 2 THEN a[i] ELSE b[i - 2]
  BY <1>1
<1> HIDE DEF s
<1>3. s \in [1..3 -> S]
  BY <1>2
<1>4. s[1] = a[1] /\ s[2] = a[2] /\ s[3] = b[1]
  BY <1>2
<1> QED
  BY <1>2, <1>3, <1>4 DEF s

(* The records have different names.                                       *)
LEMMA NamesApart ==
    /\ Mft # MftExt /\ Mft # MftMirr /\ Mft # Bitmap /\ Mft # BadClus /\ Mft # File
    /\ MftExt # MftMirr /\ MftExt # Bitmap /\ MftExt # BadClus /\ MftExt # File
    /\ MftMirr # Bitmap /\ MftMirr # BadClus /\ MftMirr # File
    /\ Bitmap # BadClus /\ Bitmap # File /\ BadClus # File
BY DEF Mft, MftExt, MftMirr, Bitmap, BadClus, File

(* The records in the order of their numbers, and those the mirror has.    *)
LEMMA RecordsAre ==
    /\ Records = {Mft, MftMirr, Bitmap, BadClus, MftExt, File} /\ Len(Refs) = 6
    /\ Refs[1] = Mft /\ Refs[2] = MftMirr /\ Refs[3] = Bitmap /\ Refs[4] = BadClus
    /\ Refs[5] = MftExt /\ Refs[6] = File
    /\ Len(Mirrored) = 2 /\ Mirrored[1] = Mft /\ Mirrored[2] = MftMirr
    /\ Owners \subseteq Records
BY DEF Range, Refs, Records, Mirrored, Owners

(* The two records that are mirrored; at most one of them is behind.       *)
LEMMA MirroredAre ==
    /\ Range(Mirrored) = {Mft, MftMirr} /\ Mft \in Range(Mirrored)
    /\ \A v \in 1..2 : Mirrored[v] \in Range(Mirrored) /\ Mirrored[v] \in Records
    /\ \A v, w \in 1..2 : Mirrored[v] = Mirrored[w] => v = w
    /\ {} \intersect Range(Mirrored) = {}
<1>1. Range(Mirrored) = {Mft, MftMirr}
  BY DEF Range, Mirrored
<1> QED
  BY <1>1, RecordsAre, NamesApart

(* Which cluster of $MFT each record lies in.                              *)
LEMMA VcnsAre ==
    /\ VcnOf(File) = 3 /\ VcnOf(MftExt) = 2
    /\ \A f \in {Mft, MftMirr, Bitmap, BadClus} : VcnOf(f) = 1
    /\ \A f \in Records : VcnOf(f) \in 1..3 /\ f \in InVcn(VcnOf(f))
    /\ \A v : \A f \in InVcn(v) : f \in Records /\ VcnOf(f) = v
<1>1. /\ VcnOf(File) = 3 /\ VcnOf(MftExt) = 2
      /\ \A f \in {Mft, MftMirr, Bitmap, BadClus} : VcnOf(f) = 1
  BY NamesApart DEF VcnOf
<1>2. \A f \in Records : VcnOf(f) \in 1..3
  BY <1>1, RecordsAre
<1> QED
  BY <1>1, <1>2 DEF InVcn, Records

(* How many clusters each record maps.                                     *)
LEMMA LengthsAre ==
    /\ split => Length(Mft) = 2 /\ Length(MftExt) = 1
    /\ ~split => Length(Mft) = 3 /\ Length(MftExt) = 0
    /\ Length(BadClus) = 0 /\ Length(Bitmap) = 1 /\ Length(MftMirr) = 2 /\ Length(File) = 2
    /\ \A f \in Records : Length(f) \in Nat
<1>1. /\ split => Length(Mft) = 2 /\ Length(MftExt) = 1
      /\ ~split => Length(Mft) = 3 /\ Length(MftExt) = 0
      /\ Length(BadClus) = 0 /\ Length(Bitmap) = 1 /\ Length(MftMirr) = 2 /\ Length(File) = 2
  BY NamesApart DEF Length
<1> QED
  BY <1>1, RecordsAre

(* The runlist of a record, as far as the layout goes.                     *)
LEMMA MapsAre ==
    ASSUME Layout, NEW f \in Records
    PROVE  /\ At(f).map \in [1..Length(f) -> Clusters] /\ DOMAIN At(f).map = 1..Length(f)
           /\ At(f).map \in Seq(Clusters) /\ Len(At(f).map) = Length(f)
           /\ \A v \in 1..Length(f) : At(f).map[v] \in Clusters /\ At(f).map[v] \in Img(At(f).map)
           /\ \A c \in Img(At(f).map) : \E v \in 1..Length(f) : c = At(f).map[v]
           /\ \A i, j \in 1..Length(f) : At(f).map[i] = At(f).map[j] => i = j
           /\ Img(At(f).map) \subseteq Clusters
           /\ At(f) = Rec(At(f).map, At(f).size)
<1>1. /\ At(f).map \in [1..Length(f) -> Clusters] /\ At(f) = Rec(At(f).map, At(f).size)
      /\ Once(At(f).map)
  BY DEF Layout, IsRec
<1>2. Length(f) \in Nat
  BY LengthsAre
<1>3. /\ DOMAIN At(f).map = 1..Length(f)
      /\ At(f).map \in Seq(Clusters) /\ Len(At(f).map) = Length(f)
  BY <1>1, <1>2, FunIsSeq
<1> QED
  BY <1>1, <1>2, <1>3 DEF Once, Img

(* The three clusters the records are read from, and what they hold.       *)
LEMMA HomeIs ==
    ASSUME Layout
    PROVE  /\ Home \in [1..3 -> Clusters] /\ Home[1] = MftStart
           /\ \A i, j \in 1..3 : Home[i] = Home[j] => i = j
           /\ \A v \in 1..3 : Home[v] \in Clusters /\ Home[v] \in Img(Home)
           /\ \A v \in 1..3 : cell[Home[v]] = [recs |-> [f \in InVcn(v) |-> At(f)]]
           /\ Img(Home) \subseteq Old(Mft) \union Old(MftExt)
           /\ \A c \in Img(Home) : \E v \in 1..3 : c = Home[v]
<1>1. /\ Home \in [1..3 -> Clusters] /\ Home[1] = MftStart
      /\ \A i, j \in 1..3 : Home[i] = Home[j] => i = j
      /\ \A v \in 1..3 : cell[Home[v]] = [recs |-> [f \in InVcn(v) |-> At(f)]]
      /\ split \in BOOLEAN
  BY DEF Layout, Once
<1>2. \A v \in 1..3 : Home[v] \in Clusters /\ Home[v] \in Img(Home)
  BY <1>1 DEF Img
<1>3. \A c \in Img(Home) : \E v \in 1..3 : c = Home[v]
  BY <1>1 DEF Img
<1>4. /\ Old(Mft) = {Home[v] : v \in 1..Length(Mft)}
      /\ Old(MftExt) = {Home[v] : v \in Length(Mft) + 1..3}
  BY NamesApart DEF Old
<1>5. Length(Mft) \in {2, 3}
  BY <1>1, LengthsAre
<1>6. ASSUME NEW v \in 1..3 PROVE Home[v] \in Old(Mft) \union Old(MftExt)
  <2>1. v \in 1..Length(Mft) \/ v \in Length(Mft) + 1..3
    BY <1>5
  <2> QED
    BY <1>4, <2>1
<1> QED
  BY <1>1, <1>2, <1>3, <1>6

(* The disk leads to the same records.                                     *)
LEMMA SpotIs ==
    ASSUME Layout
    PROVE  /\ MftBase = At(Mft).map
           /\ MftMap \in [1..3 -> Clusters] /\ Len(MftMap) = 3 /\ DOMAIN MftMap = 1..3
           /\ \A v \in 1..3 : MftMap[v] = Spot(v) /\ cell[MftMap[v]] = cell[Home[v]]
           /\ \A v \in 1..3 : Spot(v) \in Img(At(Mft).map) \union Img(At(MftExt).map)
           /\ \A f \in Records : OnDisk(f) = At(f)
<1>1. /\ split \in BOOLEAN /\ At(Mft).map[1] = MftStart
      /\ \A v \in 1..3 : cell[Spot(v)] = cell[Home[v]]
  BY DEF Layout
<1>2. Home \in [1..3 -> Clusters] /\ Home[1] = MftStart
  BY HomeIs
<1>3. Mft \in Records /\ MftExt \in Records
  BY RecordsAre
<1>4. MftBase = At(Mft).map
  BY <1>2, VcnsAre DEF MftBase, At
<1>5. /\ MftMap \in [1..3 -> Clusters] /\ Len(MftMap) = 3 /\ DOMAIN MftMap = 1..3
      /\ \A v \in 1..3 : MftMap[v] = Spot(v)
  <2>1. CASE split
    <3>1. Spot(1) = At(Mft).map[1] /\ Spot(2) = At(Mft).map[2] /\ Spot(3) = At(MftExt).map[1]
      BY <2>1 DEF Spot
    <3>2. RecAt(MftBase, MftExt) = At(MftExt)
      <4>1. cell[MftBase[2]] = cell[Home[2]]
        BY <1>1, <1>4, <3>1
      <4> QED
        BY <4>1, VcnsAre DEF RecAt, At
    <3>3. MftMap = At(Mft).map \o At(MftExt).map
      BY <1>4, <2>1, <3>2 DEF MftMap
    <3>4. /\ At(Mft).map \in Seq(Clusters) /\ Len(At(Mft).map) = 2
          /\ At(MftExt).map \in Seq(Clusters) /\ Len(At(MftExt).map) = 1
      BY <1>3, <2>1, LengthsAre, MapsAre
    <3> DEFINE a == At(Mft).map  b == At(MftExt).map
    <3>5. a \in Seq(Clusters) /\ Len(a) = 2 /\ b \in Seq(Clusters) /\ Len(b) = 1
      BY <3>4
    <3> HIDE DEF a, b
    <3>6. /\ a \o b \in Seq(Clusters) /\ Len(a \o b) = 3
          /\ (a \o b)[1] = a[1] /\ (a \o b)[2] = a[2] /\ (a \o b)[3] = b[1]
          /\ a \o b \in [1..3 -> Clusters]
      BY <3>5, ConcatIs
    <3>7. DOMAIN (a \o b) = 1..3
      BY <3>6
    <3>8. MftMap = a \o b /\ Spot(1) = a[1] /\ Spot(2) = a[2] /\ Spot(3) = b[1]
      BY <3>1, <3>3 DEF a, b
    <3> QED
      BY <3>6, <3>7, <3>8
  <2>2. CASE ~split
    <3>1. \A v \in 1..3 : Spot(v) = At(Mft).map[v]
      BY <2>2 DEF Spot
    <3>2. MftMap = At(Mft).map
      BY <1>4, <2>2 DEF MftMap
    <3>3. At(Mft).map \in [1..3 -> Clusters] /\ Len(At(Mft).map) = 3 /\ DOMAIN At(Mft).map = 1..3
      BY <1>3, <2>2, LengthsAre, MapsAre
    <3> QED
      BY <3>1, <3>2, <3>3
  <2> QED
    BY <1>1, <2>1, <2>2
<1>6. \A v \in 1..3 : cell[MftMap[v]] = cell[Home[v]]
  BY <1>1, <1>5
<1>7. \A v \in 1..3 : Spot(v) \in Img(At(Mft).map) \union Img(At(MftExt).map)
  <2> TAKE v \in 1..3
  <2>1. CASE split /\ v = 3
    <3>1. Spot(v) = At(MftExt).map[1] /\ 1 \in 1..Length(MftExt)
      BY <2>1, LengthsAre DEF Spot
    <3> QED
      BY <1>3, <3>1, MapsAre
  <2>2. CASE ~(split /\ v = 3)
    <3>1. Spot(v) = At(Mft).map[v] /\ v \in 1..Length(Mft)
      BY <1>1, <2>2, LengthsAre DEF Spot
    <3> QED
      BY <1>3, <3>1, MapsAre
  <2> QED
    BY <2>1, <2>2
<1>8. \A f \in Records : OnDisk(f) = At(f)
  BY <1>6, VcnsAre DEF OnDisk, RecAt, At
<1> QED
  BY <1>4, <1>5, <1>6, <1>7, <1>8

(* All clusters in use.                                                    *)
LEMMA InUseIs ==
    ASSUME Layout
    PROVE  InUse = {0} \union UNION {Img(At(f).map) : f \in Owners}
<1>1. \A f \in {MftMirr, Bitmap, File} : Named(f) = Img(At(f).map)
  BY SpotIs, RecordsAre DEF Named, Range, Img
<1>2. Range(MftMap) = Img(At(Mft).map) \union Img(At(MftExt).map)
  <2>1. Range(MftMap) = {Spot(v) : v \in 1..3}
    BY SpotIs DEF Range
  <2>2. ASSUME NEW c \in Img(At(Mft).map) PROVE c \in Range(MftMap)
    <3>1. PICK v \in 1..Length(Mft) : c = At(Mft).map[v]
      BY <2>2, MapsAre, RecordsAre
    <3>2. split \in BOOLEAN
      BY DEF Layout
    <3>3. v \in 1..3 /\ ~(split /\ v = 3)
      BY <3>2, LengthsAre
    <3>4. c = Spot(v)
      BY <3>1, <3>3 DEF Spot
    <3> QED
      BY <2>1, <3>3, <3>4
  <2>3. ASSUME NEW c \in Img(At(MftExt).map) PROVE c \in Range(MftMap)
    <3>1. PICK v \in 1..Length(MftExt) : c = At(MftExt).map[v]
      BY <2>3, MapsAre, RecordsAre
    <3>2. split \in BOOLEAN
      BY DEF Layout
    <3>3. v = 1 /\ split
      BY <3>2, LengthsAre
    <3>4. c = Spot(3)
      BY <3>1, <3>3 DEF Spot
    <3> QED
      BY <2>1, <3>4
  <2> QED
    BY <2>1, <2>2, <2>3, SpotIs
<1>3. Files = {MftMirr, Bitmap, File}
  BY DEF Files
<1> QED
  BY <1>1, <1>2, <1>3 DEF InUse, Owners

(* Nobody has what another has.                                            *)
LEMMA ApartIs ==
    ASSUME Layout, Apart
    PROVE  /\ \A f, g \in Owners : f # g => Hold(f) \intersect Hold(g) = {}
           /\ \A f \in Owners : Img(At(f).map) \subseteq Hold(f) /\ Old(f) \subseteq Hold(f) /\ New(f) \subseteq Hold(f)
           /\ \A f \in Owners \ {Mft, MftExt} : Hold(f) \intersect Img(Home) = {}
           /\ Running => \A f \in Owners \ {MftMirr} : Hold(f) \intersect Img(mem.mirr) = {}
           /\ Running => Img(mem.mirr) \subseteq Hold(MftMirr) /\ Img(mem.mirr) \intersect Img(Home) = {}
           /\ \A f \in Owners : \A c \in Img(At(f).map) : c < boot.nr
<1>1. \A f, g \in Owners : f # g => Hold(f) \intersect Hold(g) = {}
  BY DEF Apart
<1>2. \A f \in Owners : Img(At(f).map) \subseteq Hold(f) /\ Old(f) \subseteq Hold(f) /\ New(f) \subseteq Hold(f)
  BY DEF Hold
<1>3. Img(Home) \subseteq Hold(Mft) \union Hold(MftExt)
  BY <1>2, HomeIs DEF Owners
<1>4. \A f \in Owners \ {Mft, MftExt} : Hold(f) \intersect Img(Home) = {}
  BY <1>1, <1>3 DEF Owners
<1>5. ASSUME Running PROVE Img(mem.mirr) \subseteq Hold(MftMirr)
  <2>1. Old(MftMirr) = Img(mem.mirr)
    BY <1>5, NamesApart DEF Old
  <2> QED
    BY <1>2, <2>1 DEF Owners
<1>6. Running => \A f \in Owners \ {MftMirr} : Hold(f) \intersect Img(mem.mirr) = {}
  BY <1>1, <1>5 DEF Owners
<1>7. Running => Img(mem.mirr) \intersect Img(Home) = {}
  BY <1>4, <1>5, NamesApart DEF Owners
<1>8. \A f \in Owners : \A c \in Img(At(f).map) : c < boot.nr
  BY DEF Apart
<1> QED
  BY <1>1, <1>2, <1>4, <1>5, <1>6, <1>7, <1>8

(* What a step leaves as it is.                                            *)
LEMMA HomeStays ==
    ASSUME Running, pc' \notin {"off", "done"}, mem'.mft = mem.mft
    PROVE  Home' = Home /\ Running'
BY DEF Home, Running

(* While the clusters of $MFT keep what they hold the records stay as they *)
(* are.                                                                    *)
LEMMA ViewStays ==
    ASSUME Layout, Home' = Home, \A v \in 1..3 : cell'[Home[v]] = cell[Home[v]]
    PROVE  \A f \in Records : At(f)' = At(f)
<1> SUFFICES ASSUME NEW f \in Records PROVE At(f)' = At(f)
  OBVIOUS
<1>1. VcnOf(f) \in 1..3
  BY VcnsAre
<1> QED
  BY <1>1 DEF At

(* What depends on the extents of $MFT and on the records only stays with  *)
(* them.                                                                   *)
LEMMA LengthStays ==
    ASSUME split' = split
    PROVE  /\ \A f : Length(f)' = Length(f)
           /\ \A v : (\A f \in Records : At(f)' = At(f)) => Spot(v)' = Spot(v)
<1>1. \A f : Length(f)' = Length(f)
  BY DEF Length
<1>2. Mft \in Records /\ MftExt \in Records
  BY RecordsAre
<1> QED
  BY <1>1, <1>2 DEF Spot

(* The layout stays when nothing is written to what it is about.           *)
Laid == Img(Home) \union Img(At(Mft).map) \union Img(At(MftExt).map) \union Img(At(File).map)
(* A step that writes to no cluster of $MFT or of a file keeps the layout. *)
LEMMA LayoutStays ==
    ASSUME Layout, Home' = Home, split' = split, boot' = boot,
           cell' = [c \in 0..Device - 1 |-> cell'[c]],
           \A c \in Laid : cell'[c] = cell[c],
           cell'[At(Bitmap).map[1]] = [bits |-> cell'[At(Bitmap).map[1]].bits]
    PROVE  /\ Layout' /\ \A f \in Records : At(f)' = At(f)
           /\ \A f \in Records : Length(f)' = Length(f)
           /\ \A v : Spot(v)' = Spot(v)
<1>1. \A v \in 1..3 : cell'[Home[v]] = cell[Home[v]] /\ Home'[v] = Home[v]
  BY HomeIs DEF Laid
<1>2. \A f \in Records : At(f)' = At(f)
  BY <1>1, ViewStays
<1>3. /\ \A f \in Records : Length(f)' = Length(f)
      /\ \A v : Spot(v)' = Spot(v)
  BY <1>2, LengthStays
<1>4. split' \in BOOLEAN /\ boot'.nr \in 2..Device /\ boot'.mirr \in Int
  BY DEF Layout
<1>5. Home' \in [1..3 -> Clusters]' /\ Home'[1] = MftStart /\ Once(Home)'
  BY HomeIs DEF Once, Clusters
<1>6. \A v \in 1..3 : cell'[Home'[v]] = [recs |-> [f \in InVcn(v) |-> At(f)']]
  <2> TAKE v \in 1..3
  <2>1. cell'[Home'[v]] = [recs |-> [f \in InVcn(v) |-> At(f)]]
    BY <1>1, HomeIs
  <2>2. \A f \in InVcn(v) : At(f)' = At(f)
    BY <1>2, VcnsAre
  <2> QED
    BY <2>1, <2>2
<1>7. \A f \in Records : IsRec(At(f), Length(f))' /\ Once(At(f).map)'
  <2> TAKE f \in Records
  <2>1. IsRec(At(f), Length(f)) /\ Once(At(f).map)
    BY DEF Layout
  <2>2. At(f)' = At(f) /\ Length(f)' = Length(f)
    BY <1>2, <1>3
  <2> QED
    BY <2>1, <2>2 DEF IsRec, Once, Clusters
<1>8. At(Mft)'.map[1] = MftStart
  BY <1>2, RecordsAre DEF Layout
<1>9. \A v \in 1..3 : cell'[Spot(v)'] = cell'[Home'[v]]
  BY <1>1, <1>3, SpotIs DEF Laid
<1>10. \A v \in 1..2 : cell'[At(File)'.map[v]] = Data(File, v)
  <2> TAKE v \in 1..2
  <2>1. File \in Records /\ v \in 1..Length(File)
    BY RecordsAre, LengthsAre
  <2>2. At(File).map[v] \in Laid
    BY <2>1, MapsAre DEF Laid
  <2>3. cell[At(File).map[v]] = Data(File, v)
    BY DEF Layout
  <2> QED
    BY <1>2, <2>1, <2>2, <2>3
<1>11. At(Bitmap)' = At(Bitmap)
  BY <1>2, RecordsAre
<1>12. cell'[At(Bitmap)'.map[1]] = [bits |-> cell'[At(Bitmap)'.map[1]].bits]
  BY <1>11
<1> QED
  BY <1>2, <1>3, <1>4, <1>5, <1>6, <1>7, <1>8, <1>9, <1>10, <1>12 DEF Layout

(* A record is written where it was when the program started.              *)
LEMMA WithRecIs ==
    ASSUME Layout, NEW f \in Records, NEW rec, Home' = Home, Home = mem.mft,
           cell' = WithRec(f, rec)
    PROVE  /\ cell' = [c \in 0..Device - 1 |-> cell'[c]]
           /\ \A g \in Records : At(g)' = IF g = f THEN rec ELSE At(g)
           /\ \A v \in 1..3 : cell'[Home[v]] = [recs |-> [g \in InVcn(v) |-> At(g)']]
           /\ \A c \in 0..Device - 1 : c # Home[VcnOf(f)] => cell'[c] = cell[c]
<1> DEFINE k == VcnOf(f)
           there == Home[k]
           in == [cell EXCEPT ![there].recs[f] = rec]
<1>1. k \in 1..3 /\ there \in Clusters /\ f \in InVcn(k)
  BY VcnsAre, HomeIs
<1>2. DOMAIN cell = 0..Device - 1 /\ cell = [c \in 0..Device - 1 |-> cell[c]]
  BY DEF Layout
<1>4. cell' = in
  BY DEF WithRec
<1> DEFINE old == cell[there]
<1>5. in = [cell EXCEPT ![there] = [old EXCEPT !.recs = [old.recs EXCEPT ![f] = rec]]]
  OBVIOUS
<1>6. old = [recs |-> [g \in InVcn(k) |-> At(g)]]
  BY <1>1, HomeIs
<1>7. [old EXCEPT !.recs = [old.recs EXCEPT ![f] = rec]]
        = [recs |-> [g \in InVcn(k) |-> IF g = f THEN rec ELSE At(g)]]
  <2> HIDE DEF old, k
  <2>1. old.recs = [g \in InVcn(k) |-> At(g)]
    BY <1>6
  <2>2. [old.recs EXCEPT ![f] = rec] = [g \in InVcn(k) |-> IF g = f THEN rec ELSE At(g)]
    BY <1>1, <2>1
  <2> DEFINE new == [old.recs EXCEPT ![f] = rec]
  <2> HIDE DEF new
  <2>3. [old EXCEPT !.recs = new] = [recs |-> new]
    BY <1>6
  <2> QED
    BY <2>2, <2>3 DEF new
<1> DEFINE put == [recs |-> [g \in InVcn(k) |-> IF g = f THEN rec ELSE At(g)]]
<1>8. in = [cell EXCEPT ![there] = put]
  BY <1>5, <1>7
<1> HIDE DEF in, put, there, old
<1>9. \A c \in 0..Device - 1 : cell'[c] = IF c = there THEN put ELSE cell[c]
  BY <1>2, <1>4, <1>8
<1>10. \A v \in 1..3 : Home[v] \in 0..Device - 1 /\ (Home[v] = there <=> v = k)
  BY <1>1, HomeIs DEF there, Clusters
<1>11. \A v \in 1..3 : cell'[Home[v]] = IF v = k THEN put ELSE cell[Home[v]]
  BY <1>9, <1>10
<1>12. \A g \in Records : At(g)' = IF g = f THEN rec ELSE At(g)
  <2> TAKE g \in Records
  <2>1. VcnOf(g) \in 1..3 /\ g \in InVcn(VcnOf(g)) /\ At(g)' = cell'[Home[VcnOf(g)]].recs[g]
        /\ At(g) = cell[Home[VcnOf(g)]].recs[g]
    BY VcnsAre DEF At
  <2>2. CASE VcnOf(g) = k
    <3>1. At(g)' = put.recs[g]
      BY <1>11, <2>1, <2>2
    <3>2. put.recs = [h \in InVcn(k) |-> IF h = f THEN rec ELSE At(h)]
      BY DEF put
    <3> QED
      BY <2>1, <2>2, <3>1, <3>2
  <2>3. CASE VcnOf(g) # k
    BY <1>11, <2>1, <2>3
  <2> QED
    BY <2>2, <2>3
<1>13. \A v \in 1..3 : cell'[Home[v]] = [recs |-> [g \in InVcn(v) |-> At(g)']]
  <2> TAKE v \in 1..3
  <2>1. \A g \in InVcn(v) : g \in Records /\ VcnOf(g) = v
    BY VcnsAre
  <2>2. CASE v = k
    <3>1. \A g \in InVcn(v) : At(g)' = IF g = f THEN rec ELSE At(g)
      BY <1>12, <2>1
    <3> QED
      BY <1>11, <2>2, <3>1 DEF put
  <2>3. CASE v # k
    <3>1. \A g \in InVcn(v) : At(g)' = At(g)
      BY <1>12, <2>1, <2>3
    <3> QED
      BY <1>11, <2>3, <3>1, HomeIs
  <2> QED
    BY <2>2, <2>3
<1>14. cell' = [c \in 0..Device - 1 |-> cell'[c]]
  BY <1>2, <1>4, <1>8
<1> QED
  BY <1>9, <1>12, <1>13, <1>14 DEF there

(* The clusters that the disk has $MFT in are different ones, and none is  *)
(* of the old mirror.                                                      *)
LEMMA SpotsDiffer ==
    ASSUME Layout, Apart
    PROVE  /\ Spot(1) = MftStart /\ Home[1] = MftStart
           /\ \A v, w \in 1..3 : Spot(v) = Spot(w) => v = w
           /\ Running => \A v \in 1..3 : Spot(v) \notin Img(mem.mirr)
           /\ \A v \in 1..3 : Spot(v) \in Clusters
<1>1. split \in BOOLEAN /\ At(Mft).map[1] = MftStart
  BY DEF Layout
<1>2. /\ \A f, g \in {Mft, MftExt} : f # g => Img(At(f).map) \intersect Img(At(g).map) = {}
      /\ Running => \A f \in {Mft, MftExt} : Img(At(f).map) \intersect Img(mem.mirr) = {}
  BY ApartIs, NamesApart DEF Owners
<1>3. Mft \in Records /\ MftExt \in Records
  BY RecordsAre
<1>4. /\ \A v \in 1..Length(Mft) : At(Mft).map[v] \in Img(At(Mft).map) /\ At(Mft).map[v] \in Clusters
      /\ \A v \in 1..Length(MftExt) : At(MftExt).map[v] \in Img(At(MftExt).map) /\ At(MftExt).map[v] \in Clusters
      /\ \A v, w \in 1..Length(Mft) : At(Mft).map[v] = At(Mft).map[w] => v = w
  BY <1>3, MapsAre
<1>5. Home[1] = MftStart
  BY HomeIs
<1>6. CASE split
  <2>1. Spot(1) = At(Mft).map[1] /\ Spot(2) = At(Mft).map[2] /\ Spot(3) = At(MftExt).map[1]
    BY <1>6 DEF Spot
  <2>2. Length(Mft) = 2 /\ Length(MftExt) = 1
    BY <1>6, LengthsAre
  <2>3. /\ Spot(1) \in Img(At(Mft).map) /\ Spot(2) \in Img(At(Mft).map)
        /\ Spot(3) \in Img(At(MftExt).map) /\ Spot(1) # Spot(2)
        /\ Spot(1) \in Clusters /\ Spot(2) \in Clusters /\ Spot(3) \in Clusters
    BY <1>4, <2>1, <2>2
  <2>4. Spot(1) # Spot(3) /\ Spot(2) # Spot(3)
    BY <1>2, <2>3, NamesApart
  <2>5. \A v \in 1..3 : v = 1 \/ v = 2 \/ v = 3
    OBVIOUS
  <2> QED
    BY <1>1, <1>2, <1>5, <2>1, <2>3, <2>4, <2>5
<1>7. CASE ~split
  <2>1. \A v \in 1..3 : Spot(v) = At(Mft).map[v]
    BY <1>7 DEF Spot
  <2>2. Length(Mft) = 3
    BY <1>7, LengthsAre
  <2>3. \A v \in 1..3 : Spot(v) \in Img(At(Mft).map) /\ Spot(v) \in Clusters
    BY <1>4, <2>1, <2>2
  <2> QED
    BY <1>1, <1>2, <1>4, <1>5, <2>1, <2>2, <2>3
<1> QED
  BY <1>1, <1>6, <1>7

(* A record that may be written: it maps clusters that hold the same as    *)
(* those it maps now.                                                      *)
Fits(f, rec) ==
    /\ IsRec(rec, Length(f)) /\ Once(rec.map)
    /\ f \notin {Bitmap, MftMirr} =>
          \A v \in 1..Length(f) : cell[rec.map[v]] = cell[At(f).map[v]]
    /\ f = Bitmap => cell[rec.map[1]] = [bits |-> cell[rec.map[1]].bits]
    /\ f = Mft => rec.map[1] = MftStart
    /\ f = MftExt => split /\ rec.map[1] # Home[2]
    /\ f \in {MftExt, File} => Spot(VcnOf(f)) = Home[VcnOf(f)]
    /\ f # MftMirr => Img(rec.map) \intersect Img(mem.mirr) = {}
    /\ f \notin {Mft, MftExt} => Img(rec.map) \intersect Img(Home) = {}

(* write_mft_record keeps the layout, whichever record is written, as long *)
(* as the record fits.                                                     *)
LEMMA RecordWritten ==
    ASSUME Layout, Apart, Running, NEW f \in Records, NEW rec, Home' = Home, Home = mem.mft,
           split' = split, boot' = boot,
           mem.mirr \in [1..2 -> Clusters],
           cell' = WithRec(f, rec), Fits(f, rec)
    PROVE  /\ Layout'
           /\ \A g \in Records : At(g)' = IF g = f THEN rec ELSE At(g)
           /\ \A g \in Records : Length(g)' = Length(g)
           /\ \A v \in 1..2 : cell'[mem.mirr[v]] = cell[mem.mirr[v]]
           /\ \A c \in 0..Device - 1 : c # Home[VcnOf(f)] => cell'[c] = cell[c]
<1> DEFINE k == VcnOf(f)
<1>1. Img(mem.mirr) \intersect Img(Home) = {}
  BY ApartIs
<1>2. /\ cell' = [c \in 0..Device - 1 |-> cell'[c]]
      /\ \A g \in Records : At(g)' = IF g = f THEN rec ELSE At(g)
      /\ \A v \in 1..3 : cell'[Home[v]] = [recs |-> [g \in InVcn(v) |-> At(g)']]
      /\ \A c \in 0..Device - 1 : c # Home[VcnOf(f)] => cell'[c] = cell[c]
  BY WithRecIs
<1>3. \A g \in Records : Length(g)' = Length(g)
  BY LengthStays
<1>4. split' \in BOOLEAN /\ boot'.nr \in 2..Device /\ boot'.mirr \in Int
  BY DEF Layout
<1>5. Home' \in [1..3 -> Clusters]' /\ Home'[1] = MftStart /\ Once(Home)'
  BY HomeIs DEF Once, Clusters
<1>6. \A v \in 1..3 : cell'[Home'[v]] = [recs |-> [g \in InVcn(v) |-> At(g)']]
  BY <1>2
<1>7. \A g \in Records : IsRec(At(g), Length(g))' /\ Once(At(g).map)'
  <2> TAKE g \in Records
  <2>1. IsRec(At(g), Length(g)) /\ Once(At(g).map)
    BY DEF Layout
  <2>2. Length(g)' = Length(g) /\ At(g)' = IF g = f THEN rec ELSE At(g)
    BY <1>2, <1>3
  <2>3. CASE g = f
    BY <2>2, <2>3 DEF IsRec, Once, Clusters, Fits
  <2>4. CASE g # f
    BY <2>1, <2>2, <2>4 DEF IsRec, Once, Clusters
  <2> QED
    BY <2>3, <2>4
<1>8. At(Mft)'.map[1] = MftStart
  <2>1. At(Mft)' = IF Mft = f THEN rec ELSE At(Mft)
    BY <1>2, RecordsAre
  <2>2. At(Mft).map[1] = MftStart
    BY DEF Layout
  <2> QED
    BY <2>1, <2>2 DEF Fits
<1>9. k \in 1..3 /\ Spot(k) = Home[k]
  <2>1. CASE f \in {MftExt, File}
    BY <2>1, VcnsAre DEF Fits
  <2>2. CASE f \notin {MftExt, File}
    <3>1. k = 1
      BY <2>2, VcnsAre, RecordsAre
    <3> QED
      BY <3>1, SpotsDiffer
  <2> QED
    BY <2>1, <2>2
<1>10. \A v \in 1..3 : v # k => /\ cell'[Spot(v)] = cell[Spot(v)] /\ cell'[Home[v]] = cell[Home[v]]
                                /\ cell[Spot(v)] = cell[Home[v]]
  <2> SUFFICES ASSUME NEW v \in 1..3, v # k
               PROVE  /\ cell'[Spot(v)] = cell[Spot(v)] /\ cell'[Home[v]] = cell[Home[v]]
                      /\ cell[Spot(v)] = cell[Home[v]]
    OBVIOUS
  <2>1. Spot(v) # Home[k] /\ Spot(v) \notin Img(mem.mirr) /\ Spot(v) \in 0..Device - 1
    BY <1>9, SpotsDiffer DEF Clusters
  <2>2. Home[v] # Home[k] /\ Home[v] \notin Img(mem.mirr) /\ Home[v] \in 0..Device - 1
    BY <1>1, <1>9, HomeIs DEF Clusters
  <2>3. cell[Spot(v)] = cell[Home[v]]
    BY DEF Layout
  <2> QED
    BY <1>2, <2>1, <2>2, <2>3
<1>11. \A v \in 1..3 : cell'[Spot(v)'] = cell'[Home'[v]]
  <2> TAKE v \in 1..3
  <2>1. CASE Spot(v)' = Spot(v)
    BY <1>9, <1>10, <2>1
  <2>2. CASE Spot(v)' # Spot(v)
    <3>1. At(Mft)' = (IF Mft = f THEN rec ELSE At(Mft)) /\ At(MftExt)' = (IF MftExt = f THEN rec ELSE At(MftExt))
      BY <1>2, RecordsAre
    <3>2. Spot(v)' = IF split /\ v = 3 THEN At(MftExt)'.map[1] ELSE At(Mft)'.map[v]
      BY DEF Spot
    <3>3. Spot(v) = IF split /\ v = 3 THEN At(MftExt).map[1] ELSE At(Mft).map[v]
      BY DEF Spot
    <3>4. CASE f = Mft /\ ~(split /\ v = 3)
      <4>1. Spot(v)' = rec.map[v] /\ Spot(v) = At(Mft).map[v] /\ v \in 1..Length(Mft) /\ k = 1
        BY <3>1, <3>2, <3>3, <3>4, LengthsAre, VcnsAre DEF Layout
      <4>2. cell[rec.map[v]] = cell[Spot(v)] /\ rec.map[1] = MftStart /\ rec.map[v] \notin Img(mem.mirr)
            /\ rec.map[v] \in Clusters /\ (rec.map[v] = rec.map[1] => v = 1)
        <5>1. Fits(Mft, rec) /\ Mft \notin {Bitmap, MftMirr}
          BY <3>4, NamesApart
        <5>2. rec.map \in [1..Length(Mft) -> Clusters] /\ DOMAIN rec.map = 1..Length(Mft) /\ Once(rec.map) /\ rec.map[1] = MftStart
          BY <5>1 DEF Fits, IsRec
        <5>3. 1 \in 1..Length(Mft) /\ rec.map[v] \in Img(rec.map)
          BY <4>1, <5>2, LengthsAre DEF Layout, Img
        <5> QED
          BY <4>1, <5>1, <5>2, <5>3 DEF Fits, Once
      <4>3. v # 1
        BY <2>2, <4>1, <4>2, SpotsDiffer
      <4>4. cell'[rec.map[v]] = cell[rec.map[v]]
        BY <1>2, <4>1, <4>2, <4>3, SpotsDiffer DEF Clusters
      <4> QED
        BY <1>10, <4>1, <4>2, <4>3, <4>4
    <3>5. CASE f = MftExt /\ split /\ v = 3
      <4>1. Spot(v)' = rec.map[1] /\ Spot(v) = At(MftExt).map[1] /\ k = 2 /\ Length(MftExt) = 1
        BY <3>1, <3>2, <3>3, <3>5, LengthsAre, VcnsAre
      <4>2. Fits(MftExt, rec) /\ MftExt \notin {Bitmap, MftMirr}
        BY <3>5, NamesApart
      <4>3. /\ rec.map \in [1..1 -> Clusters] /\ rec.map[1] # Home[2] /\ cell[rec.map[1]] = cell[At(MftExt).map[1]]
            /\ rec.map[1] \notin Img(mem.mirr)
        BY <4>1, <4>2 DEF Fits, IsRec, Img
      <4>4. cell'[rec.map[1]] = cell[rec.map[1]]
        BY <1>2, <4>1, <4>3 DEF Clusters
      <4> QED
        BY <1>10, <3>5, <4>1, <4>3, <4>4
    <3> QED
      BY <2>2, <3>1, <3>2, <3>3, <3>4, <3>5, NamesApart
  <2> QED
    BY <2>1, <2>2
<1>12. ASSUME NEW c \in 0..Device - 1, c \notin Img(Home), c \notin Img(mem.mirr)
       PROVE  cell'[c] = cell[c]
  BY <1>2, <1>9, <1>12, HomeIs
<1>13. \A v \in 1..2 : cell'[At(File)'.map[v]] = Data(File, v)
  <2> TAKE v \in 1..2
  <2>1. File \in Records /\ v \in 1..Length(File) /\ At(File)' = IF File = f THEN rec ELSE At(File)
    BY <1>2, RecordsAre, LengthsAre
  <2>2. cell[At(File).map[v]] = Data(File, v)
    BY DEF Layout
  <2>3. CASE f = File
    <3>1. Fits(File, rec) /\ File \notin {Bitmap, MftMirr, Mft, MftExt}
      BY <2>3, NamesApart
    <3>2. rec.map[v] \in Clusters /\ rec.map[v] \in Img(rec.map) /\ cell[rec.map[v]] = cell[At(File).map[v]]
      BY <2>1, <3>1 DEF Fits, IsRec, Img
    <3>3. rec.map[v] \notin Img(Home) /\ rec.map[v] \notin Img(mem.mirr)
      BY <3>1, <3>2 DEF Fits
    <3> QED
      BY <1>12, <2>1, <2>2, <2>3, <3>2, <3>3 DEF Clusters
  <2>4. CASE f # File
    <3>1. At(File).map[v] \in Clusters /\ At(File).map[v] \in Img(At(File).map)
      BY <2>1, MapsAre
    <3>2. At(File).map[v] \notin Img(Home) /\ At(File).map[v] \notin Img(mem.mirr)
      BY <3>1, ApartIs, NamesApart DEF Owners
    <3> QED
      BY <1>12, <2>1, <2>2, <2>4, <3>1, <3>2 DEF Clusters
  <2> QED
    BY <2>3, <2>4
<1>14. cell'[At(Bitmap)'.map[1]] = [bits |-> cell'[At(Bitmap)'.map[1]].bits]
  <2>1. Bitmap \in Records /\ 1 \in 1..Length(Bitmap) /\ At(Bitmap)' = IF Bitmap = f THEN rec ELSE At(Bitmap)
    BY <1>2, RecordsAre, LengthsAre
  <2>2. cell[At(Bitmap).map[1]] = [bits |-> cell[At(Bitmap).map[1]].bits]
    BY DEF Layout
  <2>3. CASE f = Bitmap
    <3>1. Fits(Bitmap, rec) /\ Bitmap \notin {File, MftMirr, Mft, MftExt}
      BY <2>3, NamesApart
    <3>2. rec.map[1] \in Clusters /\ rec.map[1] \in Img(rec.map) /\ cell[rec.map[1]] = [bits |-> cell[rec.map[1]].bits]
      BY <2>1, <3>1 DEF Fits, IsRec, Img
    <3>3. rec.map[1] \notin Img(Home) /\ rec.map[1] \notin Img(mem.mirr)
      BY <3>1, <3>2 DEF Fits
    <3>4. cell'[rec.map[1]] = cell[rec.map[1]]
      BY <1>12, <3>2, <3>3 DEF Clusters
    <3> QED
      BY <2>1, <2>3, <3>2, <3>4
  <2>4. CASE f # Bitmap
    <3>1. At(Bitmap).map[1] \in Clusters /\ At(Bitmap).map[1] \in Img(At(Bitmap).map)
      BY <2>1, MapsAre
    <3>2. At(Bitmap).map[1] \notin Img(Home) /\ At(Bitmap).map[1] \notin Img(mem.mirr)
      BY <3>1, ApartIs, NamesApart DEF Owners
    <3>3. cell'[At(Bitmap).map[1]] = cell[At(Bitmap).map[1]]
      BY <1>12, <3>1, <3>2 DEF Clusters
    <3> QED
      BY <2>1, <2>2, <2>4, <3>3
  <2> QED
    BY <2>3, <2>4
<1>15. Layout'
  BY <1>2, <1>4, <1>5, <1>6, <1>7, <1>8, <1>11, <1>13, <1>14 DEF Layout
<1>16. \A v \in 1..2 : cell'[mem.mirr[v]] = cell[mem.mirr[v]]
  <2> TAKE v \in 1..2
  <2>1. VcnOf(f) \in 1..3 /\ Home[VcnOf(f)] \in Img(Home)
    BY VcnsAre, HomeIs
  <2>2. mem.mirr[v] \in Img(mem.mirr) /\ mem.mirr[v] \in 0..Device - 1
    BY DEF Img, Clusters
  <2> QED
    BY <1>1, <1>2, <2>1, <2>2
<1> QED
  BY <1>2, <1>3, <1>15, <1>16

(* A step of the program that writes no record: what it does not touch.    *)
Kept ==
    /\ Running /\ pc' \notin {"off", "done"} /\ split' = split /\ boot' = boot
    /\ behind = {} /\ behind' = {}
    /\ IsMem(mem') /\ mem'.new = mem.new /\ mem'.mft = mem.mft /\ mem'.mirr = mem.mirr
    /\ mem'.relocations = mem.relocations /\ mem'.pos \in Nat

(* The clusters a running program has from the mount stay the same.        *)
LEMMA OldStays ==
    ASSUME Running, Running', Home' = Home, split' = split, mem'.mirr = mem.mirr
    PROVE  \A f \in Owners : Old(f)' = Old(f)
<1>1. \A f : Length(f)' = Length(f)
  BY LengthStays
<1>2. Img(mem.mirr)' = Img(mem.mirr)
  BY DEF Img
<1> SUFFICES ASSUME NEW f \in Owners PROVE Old(f)' = Old(f)
  OBVIOUS
<1>3. CASE f = Mft
  <2>1. Old(f) = {Home[v] : v \in 1..Length(Mft)} /\ Old(f)' = {Home'[v] : v \in 1..Length(Mft)'}
    BY <1>3, NamesApart DEF Old
  <2> QED
    BY <1>1, <2>1
<1>4. CASE f = MftExt
  <2>1. /\ Old(f) = {Home[v] : v \in Length(Mft) + 1..3}
        /\ Old(f)' = {Home'[v] : v \in Length(Mft)' + 1..3}
    BY <1>4, NamesApart DEF Old
  <2> QED
    BY <1>1, <2>1
<1>5. CASE f = MftMirr
  <2>1. Old(f) = Img(mem.mirr) /\ Old(f)' = Img(mem.mirr)'
    BY <1>5, NamesApart DEF Old
  <2> QED
    BY <1>2, <2>1
<1>6. CASE f \notin {Mft, MftExt, MftMirr}
  <2>1. Old(f) = {} /\ Old(f)' = {}
    BY <1>6 DEF Old
  <2> QED
    BY <2>1
<1> QED
  BY <1>3, <1>4, <1>5, <1>6

(* Nobody gets what another has when one owner takes free clusters only.   *)
LEMMA ApartGrows ==
    ASSUME Layout, Apart, NEW n \in Owners, NEW F, NEW nr,
           boot'.nr = nr,
           \A f \in Owners : Hold(f) \intersect F = {},
           \A f \in Owners : f # n => Hold(f)' \subseteq Hold(f),
           Hold(n)' \subseteq Hold(n) \union F,
           \A f \in Owners : \A c \in Img(At(f).map)' : c < nr
    PROVE  Apart'
<1>1. \A f, g \in Owners : f # g => Hold(f) \intersect Hold(g) = {}
  BY DEF Apart
<1>2. ASSUME NEW f \in Owners, NEW g \in Owners, f # g PROVE Hold(f)' \intersect Hold(g)' = {}
  <2>1. CASE f # n /\ g # n
    BY <1>1, <1>2, <2>1
  <2>2. CASE f = n
    BY <1>1, <1>2, <2>2
  <2>3. CASE g = n
    BY <1>1, <1>2, <2>3
  <2> QED
    BY <2>1, <2>2, <2>3
<1>3. \A f \in Owners : \A c \in Img(At(f).map)' : c < boot'.nr
  OBVIOUS
<1> QED
  BY <1>2, <1>3 DEF Apart

(* A step that writes no record, and nothing where records or the mirror   *)
(* are, keeps the layout and what is known of the program.                 *)
LEMMA FrameStep ==
    ASSUME Layout, Apart, Program, Kept,
           cell' = [c \in 0..Device - 1 |-> cell'[c]],
           \A c \in Laid \union Img(mem.mirr) : cell'[c] = cell[c],
           cell'[At(Bitmap).map[1]] = [bits |-> cell'[At(Bitmap).map[1]].bits]
    PROVE  /\ Layout' /\ Running' /\ Program' /\ Home' = Home
           /\ \A f \in Records : At(f)' = At(f)
           /\ \A f \in Records : Length(f)' = Length(f)
           /\ \A v : Spot(v)' = Spot(v)
           /\ \A f \in Owners : Old(f)' = Old(f) /\ Img(At(f).map)' = Img(At(f).map)
<1>1. Home' = Home /\ Running'
  BY HomeStays DEF Kept
<1>2. split' = split /\ boot' = boot /\ Running
  BY DEF Kept
<1>3. /\ Layout' /\ \A f \in Records : At(f)' = At(f)
      /\ \A f \in Records : Length(f)' = Length(f)
      /\ \A v : Spot(v)' = Spot(v)
  BY <1>1, <1>2, LayoutStays
<1>4. \A f \in Owners : Old(f)' = Old(f)
  BY <1>1, <1>2, OldStays DEF Kept
<1>5. \A f \in Owners : Img(At(f).map)' = Img(At(f).map)
  BY <1>3, RecordsAre DEF Img
<1>6. Program'
  <2>1. IsMem(mem') /\ mem'.new \in 2..Device /\ mem'.new # boot'.nr
    BY DEF Program, Kept
  <2>2. mem'.mirr \in [1..2 -> Clusters]' /\ Once(mem'.mirr)
    BY DEF Program, Kept, Clusters
  <2>3. \A v \in 1..2 : /\ mem'.mirr[v] = boot'.mirr + v - 1
                        /\ cell'[mem'.mirr[v]] = [rec |-> At(Mirrored[v])']
    <3> TAKE v \in 1..2
    <3>1. mem.mirr[v] = boot.mirr + v - 1 /\ cell[mem.mirr[v]] = [rec |-> At(Mirrored[v])]
      BY DEF Program, Kept
    <3>2. mem.mirr[v] \in Img(mem.mirr)
      BY DEF Program, Img
    <3>3. Mirrored[v] \in Records
      BY RecordsAre
    <3> QED
      BY <1>2, <1>3, <3>1, <3>2, <3>3 DEF Kept
  <2>4. mem'.relocations \in BOOLEAN /\ (mem'.relocations => mem'.new < boot'.nr) /\ mem'.pos \in Nat
    BY DEF Program, Kept
  <2>5. (\A c \in Img(mem'.mirr) : c < mem'.new) \/ (\A c \in Img(mem'.mirr) : c >= mem'.new)
    BY DEF Program, Kept
  <2>6. behind' = {}
    BY DEF Kept
  <2> QED
    BY <2>1, <2>2, <2>3, <2>4, <2>5, <2>6 DEF Program
<1> QED
  BY <1>1, <1>3, <1>4, <1>5, <1>6

(* What is said of the records stays when they do.                         *)
LEMMA SaysStay ==
    ASSUME \A f \in Records : At(f)' = At(f), \A v : Spot(v)' = Spot(v),
           mem'.new = mem.new, mem'.mft = mem.mft, mem'.mirr = mem.mirr
    PROVE  /\ \A f \in Records : Inside(f)' = Inside(f)
           /\ Unread' = Unread /\ Still' = Still
<1>1. \A f \in Records : Inside(f)' = Inside(f)
  BY DEF Inside, Img
<1>2. Unread' = Unread
  BY DEF Unread
<1>3. Still' = Still
  BY RecordsAre DEF Still
<1> QED
  BY <1>1, <1>2, <1>3

(* The bitmap of the program stays right while nobody takes a cluster or   *)
(* lets one go.                                                            *)
LEMMA ReservedStays ==
    ASSUME Reserved, pc \in Early, boot' = boot,
           mem'.bm = mem.bm, mem'.new = mem.new, mem'.pos = mem.pos,
           \A f \in Owners : Hold(f)' \subseteq Hold(f),
           \A c \in mem.bm : c < mem.new =>
              \A f \in Owners : c \in Img(At(f).map) \union New(f) =>
                 \E g \in Owners : c \in Img(At(g).map)' \union New(g)'
    PROVE  Reserved'
<1>1. /\ mem.bm \in SUBSET (0..Device - 1) /\ 0 \in mem.bm
      /\ \A f \in Owners : Hold(f) \subseteq mem.bm
      /\ \A c \in mem.bm : c < mem.new =>
            c = 0 \/ \E f \in Owners : c \in Img(At(f).map) \union New(f)
      /\ mem.new > boot.nr => mem.pos = 0
  BY DEF Reserved
<1>2. \A f \in Owners : Hold(f)' \subseteq mem'.bm
  BY <1>1
<1>3. \A c \in mem'.bm : c < mem'.new =>
            c = 0 \/ \E f \in Owners : c \in Img(At(f).map)' \union New(f)'
  BY <1>1
<1>4. mem'.bm \in SUBSET (0..Device - 1) /\ 0 \in mem'.bm /\ (mem'.new > boot'.nr => mem'.pos = 0)
  BY <1>1
<1> QED
  BY <1>2, <1>3, <1>4 DEF Reserved

(* What is said of the mirror when it is not being moved.                  *)
LEMMA MirrorStays ==
    ASSUME Mirror, ~(pc \in Moving /\ Now = MftMirr), ~(pc' \in Moving /\ Now' = MftMirr),
           At(MftMirr)' = At(MftMirr), mem'.moved = mem.moved, mem'.mirr = mem.mirr,
           mem'.new = mem.new, mem'.relocations = mem.relocations,
           pc' = "prepare" \/ (pc' = "inode" /\ mem'.pass = 0 /\ mem'.at <= 2) => mem.moved = Unmoved
    PROVE  Mirror'
<1>1. /\ mem.moved = Unmoved => Still
      /\ mem.moved # Unmoved =>
            /\ mem.moved \in [old : Nat, lcn : Clusters, len : {1, 2}]
            /\ mem.relocations /\ \A v \in 1..2 : mem.mirr[v] >= mem.new
      /\ mem.moved # Unmoved => Pair(At(MftMirr).map)
  BY DEF Mirror
<1>2. Unmoved' = Unmoved
  BY DEF Unmoved
<1>3. mem'.moved = Unmoved' => Still'
  BY <1>1, <1>2 DEF Still
<1>4. mem'.moved # Unmoved' =>
            /\ mem'.moved \in [old : Nat, lcn : Clusters', len : {1, 2}]
            /\ mem'.relocations /\ \A v \in 1..2 : mem'.mirr[v] >= mem'.new
  BY <1>1, <1>2 DEF Clusters
<1>5. mem'.moved # Unmoved' => Pair(At(MftMirr).map)'
  BY <1>1, <1>2 DEF Pair
<1> QED
  BY <1>2, <1>3, <1>4, <1>5 DEF Mirror

(* When nothing is being moved.                                            *)
LEMMA NotMoving ==
    ASSUME pc \notin Moving
    PROVE  (\A f : New(f) = {}) /\ Working
BY DEF New, Working

(* The names of the phases, one by one.                                    *)
LEMMA Phases ==
    /\ Moving = {"allocate", "copy", "record"}
    /\ Early = {"prepare", "inode", "badclus", "bitmap", "allocate", "copy", "record"}
    /\ Turns = {"inode", "allocate", "copy", "record"}
    /\ Late = {"bits", "bitmap record", "boot"}
BY DEF Moving, Early, Turns, Late

(* The cells are a function, and that of $Bitmap has bits.                 *)
LEMMA CellsAre ==
    ASSUME Layout, cell' = cell
    PROVE  /\ cell' = [c \in 0..Device - 1 |-> cell'[c]]
           /\ cell'[At(Bitmap).map[1]] = [bits |-> cell'[At(Bitmap).map[1]].bits]
BY DEF Layout

(* Nobody takes anything when nothing is moved afterwards.                 *)
LEMMA HoldStays ==
    ASSUME \A f \in Owners : Old(f)' = Old(f) /\ Img(At(f).map)' = Img(At(f).map),
           \A f \in Owners : New(f)' \subseteq New(f)
    PROVE  \A f \in Owners : Hold(f)' \subseteq Hold(f)
BY DEF Hold

(* Files that take nothing more stay apart.                                *)
LEMMA ApartStays ==
    ASSUME Layout, Apart, boot' = boot,
           \A f \in Owners : Hold(f)' \subseteq Hold(f),
           \A f \in Owners : Img(At(f).map)' = Img(At(f).map)
    PROVE  Apart'
<1> DEFINE nr == boot.nr
<1>1. /\ boot'.nr = nr
      /\ \A f \in Owners : Hold(f) \intersect {} = {}
      /\ \A f \in Owners : f # Mft => Hold(f)' \subseteq Hold(f)
      /\ Hold(Mft)' \subseteq Hold(Mft) \union {}
      /\ Mft \in Owners
  BY DEF Owners
<1>2. \A f \in Owners : \A c \in Img(At(f).map)' : c < nr
  BY DEF Apart
<1> HIDE DEF nr
<1> QED
  BY <1>1, <1>2, ApartGrows

(* prepare_volume_fixup                                                    *)
LEMMA PrepareKeeps ==
    ASSUME IInv, Prepare
    PROVE  IInv'
<1>1. /\ behind = {} /\ behind' = {}
      /\ pc = "prepare" /\ dirty' = TRUE /\ cell' = cell /\ boot' = boot /\ split' = split /\ mem' = mem
      /\ pc' = IF mem.relocations THEN "inode" ELSE "badclus"
  BY DEF Prepare, In
<1>2. Running /\ Layout /\ Apart /\ Program /\ Reserved /\ Turning /\ Preparing /\ Ended /\ Mirror /\ Plain
  BY <1>1 DEF IInv, Disk, Task, Running
<1>3. Kept
  BY <1>1, <1>2 DEF Kept, Program
<1>4. /\ Layout' /\ Running' /\ Program' /\ Home' = Home
      /\ \A f \in Records : At(f)' = At(f)
      /\ \A v : Spot(v)' = Spot(v)
      /\ \A f \in Owners : Old(f)' = Old(f) /\ Img(At(f).map)' = Img(At(f).map)
  BY <1>1, <1>2, <1>3, CellsAre, FrameStep
<1>5. pc \notin Moving /\ pc' \notin Moving
  BY <1>1, Phases
<1>6. (\A f : New(f) = {}) /\ (\A f : New(f)' = {}) /\ Working'
  BY <1>5, NotMoving DEF New, Working
<1>7. \A f \in Owners : Hold(f)' \subseteq Hold(f)
  BY <1>4, <1>6, HoldStays
<1>8. Apart'
  BY <1>1, <1>2, <1>4, <1>7, ApartStays
<1>9. Marked' /\ Idles'
  BY <1>1 DEF Marked, Idles
<1>10. pc \in Early /\ pc' \in Early
  BY <1>1, Phases
<1>11. Reserved'
  BY <1>1, <1>2, <1>4, <1>6, <1>7, <1>10, ReservedStays
<1>12. \A f \in Records : Inside(f)' = Inside(f)
  BY <1>1, <1>4, SaysStay
<1>13. Unread'
  BY <1>1, <1>2, <1>4, SaysStay DEF Preparing
<1>14. Turning'
  <2>1. mem'.at = 1 /\ mem'.pass = 0 /\ mem'.high = 0
    BY <1>1, <1>2 DEF Preparing
  <2>2. pc' \in Turns => mem'.relocations
    BY <1>1, Phases
  <2> QED
    BY <1>5, <1>13, <2>1, <2>2 DEF Turning
<1>15. Preparing' /\ Plain'
  BY <1>1, <1>2 DEF Preparing, Plain
<1>16. Ended'
  BY <1>1, <1>2, <1>12, RecordsAre, Phases DEF Ended
<1>17. Mirror'
  BY <1>1, <1>2, <1>4, <1>5, MirrorStays, RecordsAre DEF Mirror
<1>18. Ending'
  BY <1>1, Phases DEF Ending
<1> QED
  BY <1>4, <1>6, <1>8, <1>9, <1>11, <1>14, <1>15, <1>16, <1>17, <1>18 DEF IInv, Disk, Task

(* A running program reads the records where $MFT was when it started.     *)
LEMMA RunningHome ==
    ASSUME Running
    PROVE  Home = mem.mft
BY DEF Home

(* A runlist of no runs.                                                   *)
LEMMA EmptyMap ==
    <<>> \in [1..0 -> Clusters] /\ Once(<<>>) /\ Img(<<>>) = {} /\ <<>> \in Seq(Clusters)
<1> DEFINE e == <<>>
<1>1. e \in Seq(Clusters) /\ Len(e) = 0 /\ DOMAIN e = 1..0
  OBVIOUS
<1> HIDE DEF e
<1>2. e \in [1..0 -> Clusters]
  BY <1>1
<1>3. Once(e) /\ Img(e) = {}
  BY <1>1 DEF Once, Img
<1> QED
  BY <1>1, <1>2, <1>3 DEF e

(* truncate_badclust_file                                                  *)
LEMMA TruncateBadClusKeeps ==
    ASSUME IInv, TruncateBadClus
    PROVE  IInv'
<1> DEFINE rec == Rec(<<>>, mem.new)
<1>1. /\ behind = {} /\ behind' = {}
      /\ pc = "badclus" /\ pc' = "bitmap" /\ cell' = WithRec(BadClus, rec)
      /\ boot' = boot /\ dirty' = dirty /\ split' = split /\ mem' = mem
  BY DEF TruncateBadClus, In
<1>2. /\ Running /\ Layout /\ Apart /\ Program /\ Reserved /\ Ended /\ Mirror /\ Plain
      /\ dirty
  BY <1>1 DEF IInv, Disk, Task, Running, Marked
<1>3. Home' = Home /\ Running' /\ Home = mem.mft
  BY <1>1, <1>2, HomeStays, RunningHome
<1>4. BadClus \in Records /\ BadClus \notin Owners /\ VcnOf(BadClus) = 1 /\ Length(BadClus) = 0
  BY RecordsAre, VcnsAre, LengthsAre, NamesApart DEF Owners
<1>5. Fits(BadClus, rec)
  <2>1. rec.map = <<>> /\ rec = Rec(rec.map, rec.size) /\ rec.size = mem.new
    BY DEF Rec
  <2>2. rec.map \in [1..0 -> Clusters] /\ Once(rec.map) /\ Img(rec.map) = {}
    BY <2>1, EmptyMap
  <2> HIDE DEF rec
  <2> QED
    BY <1>4, <2>1, <2>2, NamesApart DEF Fits, IsRec
<1> HIDE DEF rec
<1>6. mem.mirr \in [1..2 -> Clusters] /\ Once(mem.mirr)
  BY <1>2 DEF Program
<1>7. /\ Layout'
      /\ \A g \in Records : At(g)' = IF g = BadClus THEN rec ELSE At(g)
      /\ \A g \in Records : Length(g)' = Length(g)
      /\ \A v \in 1..2 : cell'[mem.mirr[v]] = cell[mem.mirr[v]]
  BY <1>1, <1>2, <1>3, <1>4, <1>5, <1>6, RecordWritten
<1>8. \A f \in Owners : At(f)' = At(f)
  BY <1>4, <1>7, RecordsAre
<1>9. /\ \A f \in Owners : Old(f)' = Old(f)
      /\ \A f \in Owners : Img(At(f).map)' = Img(At(f).map)
  BY <1>1, <1>2, <1>3, <1>8, OldStays DEF Img
<1>10. Program'
  <2>1. \A v \in 1..2 : /\ mem'.mirr[v] = boot'.mirr + v - 1
                        /\ cell'[mem'.mirr[v]] = [rec |-> At(Mirrored[v])']
    <3> TAKE v \in 1..2
    <3>1. Mirrored[v] \in Owners /\ Mirrored[v] # BadClus
      BY RecordsAre, NamesApart DEF Owners
    <3>2. mem.mirr[v] = boot.mirr + v - 1 /\ cell[mem.mirr[v]] = [rec |-> At(Mirrored[v])]
      BY <1>1, <1>2 DEF Program
    <3> QED
      BY <1>1, <1>7, <1>8, <3>1, <3>2
  <2> QED
    BY <1>1, <1>2, <2>1 DEF Program, Clusters
<1>11. pc \notin Moving /\ pc' \notin Moving /\ pc \in Early /\ pc' \in Early /\ pc' \notin Turns
  BY <1>1, Phases
<1>12. (\A f : New(f) = {}) /\ (\A f : New(f)' = {}) /\ Working'
  BY <1>11, NotMoving DEF New, Working
<1>13. \A f \in Owners : Hold(f)' \subseteq Hold(f)
  BY <1>9, <1>12, HoldStays
<1>14. Apart'
  BY <1>1, <1>2, <1>9, <1>13, ApartStays
<1>15. Marked' /\ Idles'
  BY <1>1, <1>2 DEF Marked, Idles
<1>16. Reserved'
  BY <1>1, <1>2, <1>9, <1>11, <1>12, <1>13, ReservedStays
<1>17. Turning' /\ Preparing' /\ Plain'
  BY <1>1, <1>2, <1>11 DEF Turning, Preparing, Plain
<1>18. Ended'
  <2>1. \A f \in Owners : Inside(f)' = Inside(f)
    BY <1>1, <1>9 DEF Inside
  <2> QED
    BY <1>1, <1>2, <2>1 DEF Ended
<1>19. Mirror'
  <2>1. MftMirr \in Owners
    BY DEF Owners
  <2> QED
    BY <1>1, <1>2, <1>8, <1>11, <2>1, MirrorStays
<1>20. Ending'
  <2>1. At(BadClus)'.size = mem'.new
    BY <1>1, <1>4, <1>7 DEF rec, Rec
  <2> QED
    BY <1>1, <2>1, Phases DEF Ending
<1> QED
  BY <1>3, <1>7, <1>10, <1>12, <1>14, <1>15, <1>16, <1>17, <1>18, <1>19, <1>20 DEF IInv, Disk, Task

(* What the memory is after clusters have been taken.                      *)
IsTook(t, m, r, items, nr) ==
    /\ IsMem(t) /\ t.new = m.new /\ t.mft = m.mft /\ t.mirr = m.mirr
    /\ t.bm = m.bm \union r.lcn..r.lcn + r.len - 1
    /\ t.dest = m.dest \o [i \in 1..r.len |-> r.lcn + i - 1]
    /\ t.pos = IF r.lcn + items = nr THEN 0 ELSE r.lcn + items
    /\ t.range = m.range /\ t.relocations = m.relocations /\ t.at = m.at /\ t.pass = m.pass
    /\ t.high = m.high /\ t.rec = m.rec /\ t.copied = m.copied /\ t.moved = m.moved

(* find_free_cluster changes the bitmap, the clusters found and the        *)
(* position, and nothing else.                                             *)
LEMMA TookIs ==
    ASSUME NEW m, IsMem(m), NEW r, NEW items, NEW nr
    PROVE  IsTook(Took(m, r, items, nr), m, r, items, nr)
<1> DEFINE a == m.bm \union r.lcn..r.lcn + r.len - 1
           b == m.dest \o [i \in 1..r.len |-> r.lcn + i - 1]
           c == IF r.lcn + items = nr THEN 0 ELSE r.lcn + items
<1>1. Took(m, r, items, nr) = [m EXCEPT !.bm = a, !.dest = b, !.pos = c]
  BY DEF Took
<1> HIDE DEF a, b, c
<1>2. Took(m, r, items, nr) =
        [new |-> m.new, mft |-> m.mft, mirr |-> m.mirr, bm |-> a, pos |-> c,
         range |-> m.range, relocations |-> m.relocations, at |-> m.at, pass |-> m.pass,
         high |-> m.high, before |-> m.before, rec |-> m.rec, dest |-> b, copied |-> m.copied, moved |-> m.moved]
  BY <1>1 DEF IsMem
<1> DEFINE t == Took(m, r, items, nr)
<1>3. t = [new |-> m.new, mft |-> m.mft, mirr |-> m.mirr, bm |-> a, pos |-> c,
           range |-> m.range, relocations |-> m.relocations, at |-> m.at, pass |-> m.pass,
           high |-> m.high, before |-> m.before, rec |-> m.rec, dest |-> b, copied |-> m.copied, moved |-> m.moved]
  BY <1>2
<1> HIDE DEF t
<1>4. /\ IsMem(t) /\ t.new = m.new /\ t.mft = m.mft /\ t.mirr = m.mirr
      /\ t.bm = a /\ t.dest = b /\ t.pos = c
      /\ t.range = m.range /\ t.relocations = m.relocations /\ t.at = m.at /\ t.pass = m.pass
      /\ t.high = m.high /\ t.rec = m.rec /\ t.copied = m.copied /\ t.moved = m.moved
  BY <1>3 DEF IsMem
<1> QED
  BY <1>4 DEF t, a, b, c, IsTook

(* One cluster put behind none.                                            *)
LEMMA OneMore ==
    ASSUME NEW l
    PROVE  /\ <<>> \o [i \in 1..1 |-> l] = [i \in 1..1 |-> l]
           /\ Img([i \in 1..1 |-> l]) = {l} /\ [i \in 1..1 |-> l][1] = l
<1> DEFINE s == [i \in 1..1 |-> l]
<1>1. s \in Seq({l}) /\ DOMAIN s = 1..1 /\ s[1] = l
  OBVIOUS
<1> HIDE DEF s
<1>2. <<>> \o s = s
  BY <1>1
<1>3. Img(s) = {l}
  BY <1>1 DEF Img
<1> QED
  BY <1>1, <1>2, <1>3 DEF s

(* truncate_bitmap_file: the clusters of $Bitmap are given back, and what  *)
(* it is to hold is what the files have, and what is behind the end.       *)
LEMMA ReallocBitmapKeeps ==
    ASSUME IInv, ReallocBitmap, ~GiveUp
    PROVE  IInv'
<1> DEFINE b == At(Bitmap).map[1]
           free == mem.bm \ {b}
           from == SearchFrom(mem.new, FALSE)
           start == [mem EXCEPT !.bm = free]
<1>1. /\ behind = {} /\ behind' = {}
      /\ pc = "bitmap" /\ pc' = "bits" /\ cell' = cell
      /\ boot' = boot /\ dirty' = dirty /\ split' = split
  <2>1. In("bitmap") /\ pc' = "bits" /\ disk' = disk /\ split' = split
    BY ZenonT(60) DEF ReallocBitmap
  <2> QED
    BY <2>1 DEF In, disk
<1>2. /\ Running /\ Layout /\ Apart /\ Program /\ Reserved /\ Ended /\ Mirror /\ Plain /\ Ending
      /\ dirty
  BY <1>1 DEF IInv, Disk, Task, Running, Marked
<1>3. Bitmap \in Records /\ Bitmap \in Owners /\ Length(Bitmap) = 1
  BY RecordsAre, LengthsAre DEF Owners
<1>4. /\ b \in Clusters /\ Img(At(Bitmap).map) = {b}
      /\ b < boot.nr
  <2>0. /\ \A v \in 1..Length(Bitmap) : At(Bitmap).map[v] \in Clusters /\ At(Bitmap).map[v] \in Img(At(Bitmap).map)
        /\ \A c \in Img(At(Bitmap).map) : \E v \in 1..Length(Bitmap) : c = At(Bitmap).map[v]
    BY <1>2, <1>3, MapsAre
  <2>1. b \in Clusters /\ Img(At(Bitmap).map) = {b}
    BY <1>3, <2>0
  <2> QED
    BY <1>2, <1>3, <2>1, ApartIs
<1>5. Range(MemRec(Bitmap).map) = {b}
  <2>1. MemRec(Bitmap) = At(Bitmap)
    BY <1>2, RunningHome DEF MemRec, RecAt, At
  <2> QED
    BY <1>4, <2>1 DEF Range, Img
<1>6. PICK r : /\ Zones(free, mem.new, from) # {}
               /\ r = Found(Zones(free, mem.new, from), 1, from, mem.new)
               /\ mem' = LET m == Took(start, r, 1, mem.new)
                         IN [m EXCEPT !.bm = {c \in @ : c < mem.new} \union Beyond]
  BY <1>5 DEF ReallocBitmap
<1>7. /\ mem.bm \in SUBSET (0..Device - 1) /\ 0 \in mem.bm
      /\ \A f \in Owners : Hold(f) \subseteq mem.bm
      /\ \A c \in mem.bm : c < mem.new =>
            c = 0 \/ \E f \in Owners : c \in Img(At(f).map) \union New(f)
      /\ mem.new > boot.nr => mem.pos = 0
  BY <1>1, <1>2, Phases DEF Reserved
<1>8. mem.new \in 2..Device /\ mem.new # boot.nr /\ mem.pos \in Nat /\ boot.nr \in 2..Device /\ Device \in Nat
  BY <1>2, ResizeAssumption DEF Program, Layout
<1>9. from \in Nat /\ free \in SUBSET Nat /\ (mem.pos = 0 => from = 0)
  <2>1. from = IF mem.pos >= mem.new THEN 0 ELSE mem.pos
    BY DEF SearchFrom
  <2>2. free \in SUBSET Nat
    BY <1>7
  <2> HIDE DEF from, free
  <2> QED
    BY <1>8, <2>1, <2>2
<1>10. r.lcn \in 0..mem.new - 1 /\ r.len = 1 /\ r.lcn \notin free
  <2> DEFINE one == 1  nr == mem.new
  <2>1. one \in Nat \ {0} /\ nr \in Nat
    BY <1>8
  <2>2. Zones(free, nr, from) # {} /\ r = Found(Zones(free, nr, from), one, from, nr)
    BY <1>6
  <2>0. free \in SUBSET Nat /\ from \in Nat
    BY <1>9
  <2> HIDE DEF one, nr, from, free, start, b
  <2>3. IsFound(free, nr, from, one, r)
    BY <2>0, <2>1, <2>2, FoundIs
  <2>4. r.len = 1 /\ r.lcn \in r.lcn..r.lcn + r.len - 1
    BY <2>1, <2>3 DEF one, nr, IsFound
  <2> QED
    BY <2>3, <2>4 DEF nr, IsFound
<1> DEFINE d == r.lcn
<1>11. d < boot.nr
  <2>1. CASE mem.new < boot.nr
    BY <1>8, <1>10, <2>1
  <2>2. CASE mem.new > boot.nr
    <3> DEFINE nr == mem.new
    <3>0. from = 0 /\ b \notin free
      BY <1>7, <1>9, <2>2
    <3>1. nr \in Nat /\ b \in 0..nr - 1
      <4> HIDE DEF b
      <4> QED
        BY <1>4, <1>8, <2>2 DEF Clusters
    <3>2. r = Found(Zones(free, nr, 0), 1, 0, nr)
      BY <1>6, <3>0
    <3> HIDE DEF nr, free, b, from
    <3>3. r.lcn <= b
      BY <1>9, <3>0, <3>1, <3>2, FoundBefore
    <3> QED
      BY <1>4, <1>8, <1>10, <3>3 DEF Clusters
  <2> QED
    BY <1>8, <2>1, <2>2
<1>12. \A f \in Owners \ {Bitmap} : Hold(f) \subseteq free
  <2> SUFFICES ASSUME NEW f \in Owners \ {Bitmap} PROVE Hold(f) \subseteq free
    OBVIOUS
  <2>1. b \in Hold(Bitmap) /\ Hold(f) \intersect Hold(Bitmap) = {}
    BY <1>2, <1>3, <1>4, ApartIs
  <2> QED
    BY <1>7, <2>1
<1>13. d \in Clusters /\ \A f \in Owners \ {Bitmap} : d \notin Hold(f)
  <2>1. 0 \in free
    BY <1>4, <1>7 DEF Clusters
  <2>2. d # 0
    BY <1>10, <2>1
  <2> QED
    BY <1>8, <1>10, <1>12, <2>2 DEF Clusters
<1> DEFINE m == Took(start, r, 1, mem.new)
           bits == {c \in m.bm : c < mem.new} \union Beyond
<1>14. IsMem(start) /\ start.bm = free /\ start.dest = <<>> /\ start.new = mem.new
       /\ start.mft = mem.mft /\ start.mirr = mem.mirr /\ start.relocations = mem.relocations
       /\ start.copied = mem.copied /\ start.moved = mem.moved
  <2>1. start = [mem EXCEPT !.bm = free] /\ IsMem(mem) /\ mem.dest = <<>>
    BY <1>1, <1>2 DEF Program, Plain
  <2> HIDE DEF free, start
  <2> QED
    BY <2>1 DEF IsMem
<1>15. /\ IsMem(m) /\ m.new = mem.new /\ m.mft = mem.mft /\ m.mirr = mem.mirr
       /\ m.bm = free \union {d} /\ m.dest = [i \in 1..1 |-> d] /\ m.pos \in Nat
       /\ m.relocations = mem.relocations /\ m.copied = mem.copied /\ m.moved = mem.moved
  <2> DEFINE one == 1  nr == mem.new
  <2> HIDE DEF start, free, one, nr
  <2>1. IsTook(Took(start, r, one, nr), start, r, one, nr)
    BY <1>14, TookIs
  <2>2. m = Took(start, r, one, nr)
    BY DEF one, nr
  <2> HIDE DEF m
  <2>3. r.lcn..r.lcn + r.len - 1 = {d}
    BY <1>10
  <2>4. [i \in 1..r.len |-> r.lcn + i - 1] = [i \in 1..1 |-> d]
    BY <1>10
  <2>5. m.dest = [i \in 1..1 |-> d]
    <3>1. m.dest = start.dest \o [i \in 1..r.len |-> r.lcn + i - 1]
      BY <2>1, <2>2 DEF IsTook
    <3>2. m.dest = <<>> \o [i \in 1..1 |-> d]
      BY <1>14, <2>4, <3>1
    <3> HIDE DEF d
    <3> QED
      BY <3>2, OneMore
  <2>6. m.pos \in Nat
    BY <1>10, <2>1, <2>2 DEF one, nr, IsTook
  <2> QED
    BY <1>14, <2>1, <2>2, <2>3, <2>5, <2>6 DEF IsTook
<1>16. /\ IsMem(mem') /\ mem'.new = mem.new /\ mem'.mft = mem.mft /\ mem'.mirr = mem.mirr
       /\ mem'.bm = bits /\ mem'.dest = [i \in 1..1 |-> d] /\ mem'.pos \in Nat
       /\ mem'.relocations = mem.relocations /\ mem'.copied = mem.copied /\ mem'.moved = mem.moved
  <2>1. mem' = [m EXCEPT !.bm = bits]
    BY <1>6
  <2> HIDE DEF m, bits
  <2> QED
    BY <1>15, <2>1 DEF IsMem
<1>17. Kept
  BY <1>1, <1>2, <1>16 DEF Kept
<1>18. /\ Layout' /\ Running' /\ Program' /\ Home' = Home
       /\ \A f \in Records : At(f)' = At(f)
       /\ \A f \in Owners : Old(f)' = Old(f) /\ Img(At(f).map)' = Img(At(f).map)
  BY <1>1, <1>2, <1>17, CellsAre, FrameStep
<1>19. pc \notin Moving /\ pc' \notin Moving /\ pc' \notin Early /\ pc' \notin Turns /\ pc' \in Late
  BY <1>1, Phases
<1>20. (\A f : New(f) = {}) /\ (\A f : New(f)' = {}) /\ Working'
  BY <1>19, NotMoving DEF New, Working
<1>21. \A f \in Owners : Hold(f)' \subseteq Hold(f)
  BY <1>18, <1>20, HoldStays
<1>22. Apart'
  BY <1>1, <1>2, <1>18, <1>21, ApartStays
<1>23. Marked' /\ Idles' /\ Reserved' /\ Turning' /\ Preparing'
  BY <1>1, <1>2, <1>19 DEF Marked, Idles, Reserved, Turning, Preparing
<1>24. Plain'
  BY <1>1, <1>2, <1>16 DEF Plain
<1>25. \A f \in Owners : Inside(f)' = Inside(f)
  BY <1>16, <1>18 DEF Inside
<1>26. Ended'
  BY <1>1, <1>2, <1>16, <1>25 DEF Ended
<1>27. Mirror'
  BY <1>1, <1>2, <1>16, <1>18, <1>19, RecordsAre, MirrorStays
<1>28. bits = {0} \union {d} \union (UNION {Img(At(f).map) : f \in Owners \ {Bitmap}})
              \union mem.new..BitmapSize(mem.new) - 1
  <2> DEFINE maps == UNION {Img(At(f).map) : f \in Owners \ {Bitmap}}
  <2>1. bits = {c \in free \union {d} : c < mem.new} \union mem.new..BitmapSize(mem.new) - 1
    BY <1>15 DEF Beyond
  <2>2. ASSUME NEW c \in free, c < mem.new PROVE c = 0 \/ c \in maps
    <3>1. c \in mem.bm /\ c # b
      BY <2>2
    <3>2. c = 0 \/ \E f \in Owners : c \in Img(At(f).map)
      BY <1>7, <1>20, <2>2, <3>1
    <3> QED
      BY <1>4, <3>1, <3>2
  <2>3. ASSUME NEW c \in maps PROVE c \in free /\ c < mem.new
    <3>1. PICK f \in Owners \ {Bitmap} : c \in Img(At(f).map)
      BY <2>3
    <3>2. c \in free
      BY <1>2, <1>12, <3>1, ApartIs
    <3>3. c < boot.nr /\ c \in Nat
      BY <1>2, <1>9, <3>1, <3>2, ApartIs
    <3>4. mem.new < boot.nr => c < mem.new
      BY <1>1, <1>2, <3>1 DEF Ended, Inside
    <3> QED
      BY <1>8, <3>2, <3>3, <3>4
  <2>4. 0 \in free /\ 0 < mem.new /\ d < mem.new
    BY <1>4, <1>7, <1>8, <1>10 DEF Clusters
  <2> HIDE DEF maps, bits, free
  <2>5. bits = {0} \union {d} \union maps \union mem.new..BitmapSize(mem.new) - 1
    BY <2>1, <2>2, <2>3, <2>4
  <2> QED
    BY <2>5 DEF maps
<1>29. Ending'
  <2> HIDE DEF bits
  <2>1. At(BadClus)'.size = mem'.new
    BY <1>1, <1>2, <1>16, <1>18, RecordsAre DEF Ending
  <2>2. /\ mem'.dest \in [1..1 -> Clusters'] /\ mem'.dest[1] = d /\ Img(mem'.dest) = {d}
    BY <1>13, <1>16, OneMore DEF Clusters
  <2>3. mem'.dest[1] < mem'.new /\ mem'.dest[1] < boot'.nr
    <3>1. d < mem.new
      BY <1>8, <1>10
    <3> QED
      BY <1>1, <1>11, <1>16, <2>2, <3>1
  <2>4. \A f \in Owners \ {Bitmap} : mem'.dest[1] \notin Hold(f)'
    BY <1>13, <1>21, <2>2
  <2>5. BitmapSize(mem.new)' = BitmapSize(mem.new)
    BY <1>16 DEF BitmapSize
  <2>6. {Img(At(f).map)' : f \in Owners \ {Bitmap}} = {Img(At(f).map) : f \in Owners \ {Bitmap}}
    BY <1>18
  <2>7. mem'.bm = {0} \union Img(mem'.dest) \union (UNION {Img(At(f).map)' : f \in Owners \ {Bitmap}})
                      \union mem'.new..BitmapSize(mem.new)' - 1
    BY <1>16, <1>28, <2>2, <2>5, <2>6
  <2> QED
    BY <1>1, <2>1, <2>2, <2>3, <2>4, <2>7 DEF Ending
<1> QED
  BY <1>18, <1>20, <1>22, <1>23, <1>24, <1>26, <1>27, <1>29 DEF IInv, Disk, Task

(* Whatever the layout is about is held by somebody.                       *)
LEMMA LaidIsHeld ==
    ASSUME Layout, Apart, Running, NEW c,
           \A f \in Owners \ {Bitmap} : c \notin Hold(f)
    PROVE  c \notin Laid \union Img(mem.mirr) /\ c \notin Img(Home)
<1>1. /\ Img(Home) \subseteq Old(Mft) \union Old(MftExt)
      /\ \A f \in Owners : Img(At(f).map) \subseteq Hold(f) /\ Old(f) \subseteq Hold(f)
      /\ Img(mem.mirr) \subseteq Hold(MftMirr)
  BY HomeIs, ApartIs
<1>2. {Mft, MftExt, MftMirr, File} \subseteq Owners \ {Bitmap}
  BY NamesApart DEF Owners
<1>3. /\ c \notin Img(At(Mft).map) /\ c \notin Img(At(MftExt).map) /\ c \notin Img(At(File).map)
      /\ c \notin Old(Mft) /\ c \notin Old(MftExt) /\ c \notin Img(mem.mirr)
  BY <1>1, <1>2
<1> QED
  BY <1>1, <1>3 DEF Laid

(* The clusters of $MFT, of the files and of the mirror are on the device. *)
LEMMA LaidIsThere ==
    ASSUME Layout, Program
    PROVE  /\ Laid \union Img(mem.mirr) \subseteq 0..Device - 1
           /\ At(Bitmap).map[1] \in 0..Device - 1
           /\ cell = [c \in 0..Device - 1 |-> cell[c]]
<1>1. /\ Img(Home) \subseteq Clusters
      /\ \A f \in Records : Img(At(f).map) \subseteq Clusters
  BY HomeIs, MapsAre
<1>2. Img(mem.mirr) \subseteq Clusters
  BY DEF Program, Img
<1>3. {Mft, MftExt, File, Bitmap} \subseteq Records
  BY RecordsAre
<1>4. At(Bitmap).map[1] \in Clusters
  BY <1>3, MapsAre, LengthsAre
<1>5. Clusters \subseteq 0..Device - 1
  BY DEF Clusters
<1>6. cell = [c \in 0..Device - 1 |-> cell[c]]
  BY DEF Layout
<1> QED
  BY <1>1, <1>2, <1>3, <1>4, <1>5, <1>6 DEF Laid

(* The end of a run is prepared: what $Bitmap is to hold, and where.       *)
Prepared ==
    /\ At(BadClus).size = mem.new
    /\ mem.dest \in [1..1 -> Clusters] /\ mem.dest[1] < mem.new /\ mem.dest[1] < boot.nr
    /\ \A f \in Owners \ {Bitmap} : mem.dest[1] \notin Hold(f)
    /\ mem.bm = {0} \union Img(mem.dest) \union (UNION {Img(At(f).map) : f \in Owners \ {Bitmap}})
                \union mem.new..BitmapSize(mem.new) - 1

(* From the bitmap being allocated anew to the boot sector the end is      *)
(* prepared.                                                               *)
LEMMA PreparedIs ==
    ASSUME Ending, pc \in Late
    PROVE  Prepared
BY DEF Ending, Prepared

(* A step that leaves the records alone leaves the end prepared.           *)
LEMMA PreparedStays ==
    ASSUME Prepared, boot' = boot, mem'.dest = mem.dest, mem'.bm = mem.bm, mem'.new = mem.new,
           At(BadClus)' = At(BadClus),
           \A f \in Owners \ {Bitmap} : Hold(f)' \subseteq Hold(f),
           \A f \in Owners \ {Bitmap} : Img(At(f).map)' = Img(At(f).map)
    PROVE  Prepared'
<1>1. At(BadClus)'.size = mem'.new /\ mem'.dest \in [1..1 -> Clusters']
      /\ mem'.dest[1] < mem'.new /\ mem'.dest[1] < boot'.nr
  BY DEF Prepared, Clusters
<1>2. \A f \in Owners \ {Bitmap} : mem'.dest[1] \notin Hold(f)'
  BY DEF Prepared
<1>3. BitmapSize(mem.new)' = BitmapSize(mem.new) /\ Img(mem.dest)' = Img(mem.dest)
  BY DEF BitmapSize, Img
<1>4. {Img(At(f).map)' : f \in Owners \ {Bitmap}} = {Img(At(f).map) : f \in Owners \ {Bitmap}}
  OBVIOUS
<1>5. mem'.bm = {0} \union Img(mem.dest)' \union (UNION {Img(At(f).map)' : f \in Owners \ {Bitmap}})
                \union mem'.new..BitmapSize(mem.new)' - 1
  BY <1>3, <1>4 DEF Prepared
<1> QED
  BY <1>1, <1>2, <1>5 DEF Prepared

(* What changes little in the last steps.                                  *)
LEMMA LateStays ==
    ASSUME Running, pc \in Late, pc' \in Late, Marked, boot' = boot, dirty' = dirty,
           Ended, Mirror, Plain, mem'.new = mem.new, mem'.moved = mem.moved, mem'.mirr = mem.mirr,
           mem'.relocations = mem.relocations, mem'.copied \in Nat,
           pc' # "boot" => mem'.copied = 0,
           \A f \in Owners \ {Bitmap} : At(f)' = At(f)
    PROVE  /\ Marked' /\ Idles' /\ Reserved' /\ Turning' /\ Preparing' /\ Working'
           /\ Ended' /\ Mirror' /\ Plain'
<1>1. pc' \in {"bits", "bitmap record", "boot"} /\ pc \in {"bits", "bitmap record", "boot"}
  BY Phases
<1>2. pc \notin Moving /\ pc' \notin Moving /\ pc' \notin Early /\ pc' \notin Turns
  BY <1>1, Phases
<1>3. Marked' /\ Idles'
  BY <1>1 DEF Marked, Idles
<1>4. Reserved' /\ Turning' /\ Preparing' /\ Working' /\ Plain'
  BY <1>1, <1>2 DEF Reserved, Turning, Preparing, Working, Plain
<1>5. Ended'
  <2>1. \A f \in Owners \ {Bitmap} : Inside(f)' = Inside(f)
    BY DEF Inside, Img
  <2>2. mem.new < boot.nr => \A f \in Owners \ {Bitmap} : Inside(f)
    BY DEF Ended
  <2>3. mem'.new < boot'.nr => \A f \in Owners \ {Bitmap} : Inside(f)'
    BY <2>1, <2>2
  <2> QED
    BY <2>3 DEF Ended
<1>6. Mirror'
  <2>1. MftMirr \in Owners \ {Bitmap}
    BY NamesApart DEF Owners
  <2> QED
    BY <1>1, <1>2, <2>1, MirrorStays
<1> QED
  BY <1>3, <1>4, <1>5, <1>6

(* truncate_bitmap_data_attr: the bits go to a cluster nobody holds.       *)
LEMMA WriteBitsKeeps ==
    ASSUME IInv, WriteBits
    PROVE  IInv'
<1> DEFINE d == mem.dest[1]
<1>1. /\ behind = {} /\ behind' = {}
      /\ pc = "bits" /\ pc' = "bitmap record" /\ cell' = [cell EXCEPT ![d] = [bits |-> mem.bm]]
      /\ boot' = boot /\ dirty' = dirty /\ split' = split /\ mem' = mem
  BY DEF WriteBits, In
<1>2. /\ Running /\ Layout /\ Apart /\ Program /\ Ended /\ Mirror /\ Plain /\ Ending
      /\ Marked
  BY <1>1 DEF IInv, Disk, Task, Running
<1>3. pc \in Late /\ pc' \in Late /\ pc \notin Moving /\ pc' \notin Moving
  BY <1>1, Phases
<1>4. Prepared
  BY <1>2, <1>3, PreparedIs
<1>5. d \in 0..Device - 1 /\ \A f \in Owners \ {Bitmap} : d \notin Hold(f)
  BY <1>4 DEF Prepared, Clusters
<1>6. d \notin Laid \union Img(mem.mirr)
  BY <1>2, <1>5, LaidIsHeld
<1>7. /\ cell = [c \in 0..Device - 1 |-> cell[c]]
      /\ Laid \union Img(mem.mirr) \subseteq 0..Device - 1 /\ At(Bitmap).map[1] \in 0..Device - 1
  BY <1>2, LaidIsThere
<1> HIDE DEF d
<1>8. /\ cell' = [c \in 0..Device - 1 |-> cell'[c]]
      /\ \A c \in 0..Device - 1 : c # d => cell'[c] = cell[c]
      /\ cell'[d] = [bits |-> mem.bm]
  BY <1>1, <1>5, <1>7
<1>9. cell'[At(Bitmap).map[1]] = [bits |-> cell'[At(Bitmap).map[1]].bits]
  <2>1. cell[At(Bitmap).map[1]] = [bits |-> cell[At(Bitmap).map[1]].bits]
    BY <1>2 DEF Layout
  <2> QED
    BY <1>7, <1>8, <2>1
<1>10. Kept
  BY <1>1, <1>2, Phases DEF Kept, Program
<1>11. /\ Layout' /\ Running' /\ Program'
       /\ \A f \in Records : At(f)' = At(f)
       /\ \A f \in Owners : Old(f)' = Old(f) /\ Img(At(f).map)' = Img(At(f).map)
  <2>1. \A c \in Laid \union Img(mem.mirr) : cell'[c] = cell[c]
    BY <1>6, <1>7, <1>8
  <2> QED
    BY <1>2, <1>8, <1>9, <1>10, <2>1, FrameStep
<1>12. \A f \in Owners : Hold(f)' \subseteq Hold(f)
  BY <1>3, <1>11, HoldStays DEF New
<1>13. Apart'
  BY <1>1, <1>2, <1>11, <1>12, ApartStays
<1>14. /\ Marked' /\ Idles' /\ Reserved' /\ Turning' /\ Preparing' /\ Working'
       /\ Ended' /\ Mirror' /\ Plain'
  <2>1. mem'.copied = 0 /\ 0 \in Nat
    BY <1>1, <1>2 DEF Plain
  <2>2. \A f \in Owners \ {Bitmap} : At(f)' = At(f)
    BY <1>11, RecordsAre
  <2> QED
    BY <1>1, <1>2, <1>3, <2>1, <2>2, LateStays
<1>15. Prepared'
  BY <1>1, <1>4, <1>11, <1>12, RecordsAre, PreparedStays
<1>16. cell'[mem'.dest[1]] = [bits |-> mem'.bm]
  BY <1>1, <1>8 DEF d
<1>17. Ending'
  BY <1>1, <1>15, <1>16 DEF Ending, Prepared
<1> QED
  BY <1>11, <1>13, <1>14, <1>17 DEF IInv, Disk, Task

(* truncate_bitmap_file: the record of $Bitmap maps the bits that have     *)
(* been written, and its old clusters are let go.                          *)
LEMMA WriteBitmapRecordKeeps ==
    ASSUME IInv, WriteBitmapRecord
    PROVE  IInv'
<1> DEFINE d == mem.dest[1]
           rec == Rec(mem.dest, BitmapSize(mem.new))
<1>1. /\ behind = {} /\ behind' = {}
      /\ pc = "bitmap record" /\ pc' = "boot" /\ cell' = WithRec(Bitmap, rec)
      /\ boot' = boot /\ dirty' = dirty /\ split' = split /\ mem' = mem
  BY DEF WriteBitmapRecord, In
<1>2. /\ Running /\ Layout /\ Apart /\ Program /\ Ended /\ Mirror /\ Plain /\ Ending
      /\ Marked
  BY <1>1 DEF IInv, Disk, Task, Running
<1>3. pc \in Late /\ pc' \in Late /\ pc \notin Moving /\ pc' \notin Moving
  BY <1>1, Phases
<1>4. Prepared
  BY <1>2, <1>3, PreparedIs
<1>5. /\ d \in Clusters /\ d \in 0..Device - 1 /\ Img(mem.dest) = {d} /\ d < boot.nr
      /\ \A f \in Owners \ {Bitmap} : d \notin Hold(f)
      /\ mem.dest \in [1..1 -> Clusters] /\ Once(mem.dest)
  BY <1>4 DEF Prepared, Clusters, Img, Once
<1>6. d \notin Img(mem.mirr) /\ d \notin Img(Home)
  BY <1>2, <1>5, LaidIsHeld
<1>7. Home' = Home /\ Running' /\ Home = mem.mft
  BY <1>1, <1>2, HomeStays, RunningHome
<1>8. Bitmap \in Records /\ Bitmap \in Owners /\ VcnOf(Bitmap) = 1 /\ Length(Bitmap) = 1
      /\ Bitmap \notin {Mft, MftMirr, MftExt, File, BadClus}
  BY RecordsAre, VcnsAre, LengthsAre, NamesApart DEF Owners
<1>9. cell[d] = [bits |-> mem.bm]
  BY <1>1, <1>2 DEF Ending
<1>10. rec.map = mem.dest /\ rec.size = BitmapSize(mem.new) /\ rec = Rec(rec.map, rec.size)
  BY DEF Rec
<1> HIDE DEF rec
<1>11. Fits(Bitmap, rec)
  <2>1. IsRec(rec, Length(Bitmap)) /\ Once(rec.map)
    BY <1>5, <1>8, <1>10 DEF IsRec
  <2>2. cell[rec.map[1]] = [bits |-> cell[rec.map[1]].bits]
    BY <1>9, <1>10
  <2>3. Img(rec.map) \intersect Img(mem.mirr) = {} /\ Img(rec.map) \intersect Img(Home) = {}
    BY <1>5, <1>6, <1>10
  <2> QED
    BY <1>8, <2>1, <2>2, <2>3 DEF Fits
<1>12. mem.mirr \in [1..2 -> Clusters] /\ Once(mem.mirr)
  BY <1>2 DEF Program
<1>13. /\ Layout'
       /\ \A g \in Records : At(g)' = IF g = Bitmap THEN rec ELSE At(g)
       /\ \A v \in 1..2 : cell'[mem.mirr[v]] = cell[mem.mirr[v]]
       /\ \A c \in 0..Device - 1 : c # Home[VcnOf(Bitmap)] => cell'[c] = cell[c]
  BY <1>1, <1>2, <1>7, <1>8, <1>11, <1>12, RecordWritten
<1>14. /\ \A f \in Records \ {Bitmap} : At(f)' = At(f)
       /\ At(Bitmap)' = rec
  BY <1>8, <1>13
<1>15. /\ \A f \in Owners : Old(f)' = Old(f)
       /\ \A f \in Owners \ {Bitmap} : Img(At(f).map)' = Img(At(f).map)
       /\ Img(At(Bitmap).map)' = {d}
  <2>1. \A f \in Owners : Old(f)' = Old(f)
    BY <1>1, <1>2, <1>7, OldStays
  <2>2. \A f \in Owners \ {Bitmap} : Img(At(f).map)' = Img(At(f).map)
    BY <1>14, RecordsAre DEF Img
  <2>3. At(Bitmap)'.map = mem.dest
    BY <1>10, <1>14
  <2>4. Img(At(Bitmap).map)' = Img(mem.dest)
    BY <2>3 DEF Img
  <2> QED
    BY <1>5, <2>1, <2>2, <2>4
<1>16. Program'
  <2>1. \A v \in 1..2 : /\ mem'.mirr[v] = boot'.mirr + v - 1
                        /\ cell'[mem'.mirr[v]] = [rec |-> At(Mirrored[v])']
    <3> TAKE v \in 1..2
    <3>1. Mirrored[v] \in Records \ {Bitmap}
      BY RecordsAre, NamesApart
    <3>2. mem.mirr[v] = boot.mirr + v - 1 /\ cell[mem.mirr[v]] = [rec |-> At(Mirrored[v])]
      BY <1>1, <1>2 DEF Program
    <3> QED
      BY <1>1, <1>13, <1>14, <3>1, <3>2
  <2> QED
    BY <1>1, <1>2, <2>1 DEF Program, Clusters
<1>17. /\ \A f \in Owners \ {Bitmap} : Hold(f)' \subseteq Hold(f)
       /\ Hold(Bitmap)' \subseteq Hold(Bitmap) \union {d}
  <2>1. \A f : New(f)' = {}
    BY <1>3 DEF New
  <2> QED
    BY <1>8, <1>15, <2>1 DEF Hold
<1>18. Apart'
  <2> DEFINE nr == boot.nr
  <2>1. \A f \in Owners : \A c \in Img(At(f).map)' : c < nr
    <3> SUFFICES ASSUME NEW f \in Owners, NEW c \in Img(At(f).map)' PROVE c < nr
      OBVIOUS
    <3>1. CASE f = Bitmap
      BY <1>5, <1>15, <3>1
    <3>2. CASE f # Bitmap
      BY <1>2, <1>15, <3>2, ApartIs
    <3> QED
      BY <3>1, <3>2
  <2>2. CASE d \in Hold(Bitmap)
    <3>1. /\ \A f \in Owners : f # Bitmap => Hold(f)' \subseteq Hold(f)
          /\ Hold(Bitmap)' \subseteq Hold(Bitmap) \union {}
          /\ \A f \in Owners : Hold(f) \intersect {} = {}
          /\ boot'.nr = nr
      BY <1>1, <1>17, <2>2
    <3> HIDE DEF nr
    <3> QED
      BY <1>2, <1>8, <2>1, <3>1, ApartGrows
  <2>3. CASE d \notin Hold(Bitmap)
    <3>1. /\ \A f \in Owners : f # Bitmap => Hold(f)' \subseteq Hold(f)
          /\ \A f \in Owners : Hold(f) \intersect {d} = {}
          /\ boot'.nr = nr
      BY <1>1, <1>5, <1>17, <2>3
    <3> HIDE DEF nr, d
    <3> QED
      BY <1>2, <1>8, <1>17, <2>1, <3>1, ApartGrows
  <2> QED
    BY <2>2, <2>3
<1>19. /\ Marked' /\ Idles' /\ Reserved' /\ Turning' /\ Preparing' /\ Working'
       /\ Ended' /\ Mirror' /\ Plain'
  <2>1. mem'.copied \in Nat
    BY <1>1, <1>2 DEF Plain
  <2>2. \A f \in Owners \ {Bitmap} : At(f)' = At(f)
    BY <1>14, RecordsAre
  <2> QED
    BY <1>1, <1>2, <1>3, <2>1, <2>2, LateStays
<1>20. Prepared'
  <2>1. At(BadClus)' = At(BadClus)
    BY <1>8, <1>14, RecordsAre
  <2> QED
    BY <1>1, <1>4, <1>15, <1>17, <2>1, PreparedStays
<1>21. cell'[d] = [bits |-> mem.bm]
  BY <1>5, <1>6, <1>8, <1>9, <1>13, HomeIs, <1>2
<1>22. mem.copied = 0 /\ 0 <= mem.moved.len
  <2>1. mem.copied = 0
    BY <1>1, <1>2 DEF Plain
  <2>2. mem.moved.len \in {0, 1, 2}
    BY <1>2 DEF Mirror, Unmoved
  <2> QED
    BY <2>1, <2>2
<1>23. Ending'
  <2>1. At(Bitmap)' = Rec(mem.dest, BitmapSize(mem.new))'
    BY <1>1, <1>14 DEF rec, Rec, BitmapSize
  <2>2. mem'.copied <= mem'.moved.len /\ \A i \in 1..mem'.copied : FALSE
    <3>1. mem'.copied = 0 /\ 0 <= mem'.moved.len
      BY <1>1, <1>22
    <3>2. 1..mem'.copied = {}
      BY <3>1
    <3> QED
      BY <3>1, <3>2
  <2> QED
    BY <1>1, <1>20, <1>21, <2>1, <2>2 DEF Ending, Prepared
<1> QED
  BY <1>7, <1>13, <1>16, <1>18, <1>19, <1>23 DEF IInv, Disk, Task

(* update_bootsector copies the mirror to where it is now.                 *)
LEMMA CopyMirrorKeeps ==
    ASSUME IInv, CopyMirror
    PROVE  IInv'
<1> DEFINE to == mem.moved.lcn + mem.copied
           ref == mem.copied + 1
<1>1. /\ behind = {} /\ behind' = {}
      /\ pc = "boot" /\ pc' = "boot" /\ mem.copied < mem.moved.len
      /\ cell' = [cell EXCEPT ![to] = cell[mem.moved.old + mem.copied]]
      /\ mem' = [mem EXCEPT !.copied = @ + 1]
      /\ boot' = boot /\ dirty' = dirty /\ split' = split
  BY DEF CopyMirror, In
<1>2. /\ Running /\ Layout /\ Apart /\ Program /\ Ended /\ Mirror /\ Plain /\ Ending
      /\ Marked
  BY <1>1 DEF IInv, Disk, Task, Running
<1>3. pc \in Late /\ pc' \in Late /\ pc \notin Moving /\ pc' \notin Moving
  BY <1>1, Phases
<1>4. Prepared
  BY <1>2, <1>3, PreparedIs
<1>5. mem.copied \in Nat /\ mem.moved # Unmoved /\ mem.moved \in [old : Nat, lcn : Clusters, len : {1, 2}]
      /\ mem.relocations /\ (\A v \in 1..2 : mem.mirr[v] >= mem.new) /\ Pair(At(MftMirr).map)
  <2>1. mem.copied \in Nat
    BY <1>2 DEF Plain
  <2>2. mem.moved # Unmoved
    BY <1>1, <2>1 DEF Unmoved
  <2> QED
    BY <1>2, <1>3, <2>1, <2>2 DEF Mirror
<1>6. mem.moved.len \in {1, 2} /\ mem.moved.lcn \in Clusters /\ mem.moved.old \in Nat
  BY <1>5
<1>7. MftMirr \in Records /\ MftMirr \in Owners \ {Bitmap} /\ Length(MftMirr) = 2
  BY RecordsAre, LengthsAre, NamesApart DEF Owners
<1>8. /\ At(MftMirr).map[1] \in Clusters /\ At(MftMirr).map[2] \in Clusters
      /\ At(MftMirr).map[1] \in Img(At(MftMirr).map) /\ At(MftMirr).map[2] \in Img(At(MftMirr).map)
  BY <1>2, <1>7, MapsAre
<1>9. ref \in 1..2 /\ to \in Clusters /\ to \in Img(At(MftMirr).map)
  <2>1. mem.copied \in {0, 1} /\ (mem.copied = 1 => mem.moved.len = 2)
    BY <1>1, <1>5, <1>6
  <2>2. mem.moved.lcn = At(MftMirr).map[1] /\ (mem.moved.len = 2 => At(MftMirr).map[2] = mem.moved.lcn + 1)
    BY <1>5 DEF Pair
  <2>3. CASE mem.copied = 0
    BY <1>6, <1>8, <2>2, <2>3 DEF Clusters
  <2>4. CASE mem.copied = 1
    BY <1>6, <1>8, <2>1, <2>2, <2>4 DEF Clusters
  <2> QED
    BY <2>1, <2>3, <2>4
<1>10. mem.moved.old + mem.copied = mem.mirr[ref]
  <2>1. mem.moved.old = mem.mirr[1]
    BY <1>5 DEF Pair
  <2>2. mem.mirr[1] = boot.mirr + 1 - 1 /\ mem.mirr[ref] = boot.mirr + ref - 1 /\ boot.mirr \in Int
    BY <1>2, <1>9 DEF Program, Layout
  <2> QED
    BY <1>5, <2>1, <2>2
<1>11. to \notin Img(mem.mirr) /\ to < mem.new
  <2>1. Inside(MftMirr)
    BY <1>1, <1>2, <1>5, <1>7, Phases DEF Ended, Program
  <2>2. to < mem.new
    BY <1>9, <2>1 DEF Inside
  <2>3. \A c \in Img(mem.mirr) : c >= mem.new /\ c \in Int /\ mem.new \in Int
    BY <1>2, <1>5 DEF Program, Img, Clusters
  <2> HIDE DEF to
  <2> QED
    BY <1>9, <2>2, <2>3 DEF Clusters
<1>12. /\ to \in Hold(MftMirr) /\ \A f \in Owners : f # MftMirr => to \notin Hold(f)
  BY <1>2, <1>7, <1>9, ApartIs
<1>13. to \notin Laid
  <2>1. /\ Img(Home) \subseteq Old(Mft) \union Old(MftExt)
        /\ \A f \in Owners : Img(At(f).map) \subseteq Hold(f) /\ Old(f) \subseteq Hold(f)
    BY <1>2, HomeIs, ApartIs
  <2>2. {Mft, MftExt, File} \subseteq Owners /\ MftMirr \notin {Mft, MftExt, File}
    BY NamesApart DEF Owners
  <2> QED
    BY <1>12, <2>1, <2>2 DEF Laid
<1>14. to # At(Bitmap).map[1]
  <2>1. At(Bitmap).map[1] \in Hold(Bitmap) /\ Bitmap \in Owners /\ Bitmap # MftMirr
    <3>1. Bitmap \in Owners /\ Bitmap \in Records /\ Bitmap # MftMirr /\ 1 \in 1..Length(Bitmap)
      BY LengthsAre, RecordsAre, NamesApart DEF Owners
    <3>2. At(Bitmap).map[1] \in Img(At(Bitmap).map)
      BY <1>2, <3>1, MapsAre
    <3> QED
      BY <1>2, <3>1, <3>2, ApartIs
  <2> QED
    BY <1>12, <2>1
<1>15. /\ cell = [c \in 0..Device - 1 |-> cell[c]]
       /\ Laid \union Img(mem.mirr) \subseteq 0..Device - 1 /\ At(Bitmap).map[1] \in 0..Device - 1
       /\ to \in 0..Device - 1
  BY <1>2, <1>9, LaidIsThere DEF Clusters
<1> DEFINE val == cell[mem.moved.old + mem.copied]
<1>16. val = cell[mem.mirr[ref]]
  BY <1>10
<1> HIDE DEF to, val
<1>17. /\ cell' = [c \in 0..Device - 1 |-> cell'[c]]
       /\ \A c \in 0..Device - 1 : c # to => cell'[c] = cell[c]
       /\ cell'[to] = cell[mem.mirr[ref]]
  <2>1. cell' = [cell EXCEPT ![to] = val]
    BY <1>1 DEF val
  <2> QED
    BY <1>15, <1>16, <2>1
<1>18. \A c \in Laid \union Img(mem.mirr) : cell'[c] = cell[c]
  BY <1>11, <1>13, <1>15, <1>17
<1>19. cell'[At(Bitmap).map[1]] = [bits |-> cell'[At(Bitmap).map[1]].bits]
  BY <1>2, <1>14, <1>15, <1>17 DEF Layout
<1>20. /\ IsMem(mem') /\ mem'.new = mem.new /\ mem'.mft = mem.mft /\ mem'.mirr = mem.mirr
       /\ mem'.relocations = mem.relocations /\ mem'.pos = mem.pos /\ mem'.dest = mem.dest
       /\ mem'.bm = mem.bm /\ mem'.moved = mem.moved /\ mem'.copied = ref
  BY <1>1, <1>2 DEF IsMem, Program
<1>21. Kept
  BY <1>1, <1>2, <1>20, Phases DEF Kept, Program
<1>22. /\ Layout' /\ Running' /\ Program'
       /\ \A f \in Records : At(f)' = At(f)
       /\ \A f \in Owners : Old(f)' = Old(f) /\ Img(At(f).map)' = Img(At(f).map)
  BY <1>2, <1>17, <1>18, <1>19, <1>21, FrameStep
<1>23. \A f \in Owners : Hold(f)' \subseteq Hold(f)
  BY <1>3, <1>22, HoldStays DEF New
<1>24. Apart'
  BY <1>1, <1>2, <1>22, <1>23, ApartStays
<1>25. /\ Marked' /\ Idles' /\ Reserved' /\ Turning' /\ Preparing' /\ Working'
       /\ Ended' /\ Mirror' /\ Plain'
  <2>1. mem'.copied \in Nat
    BY <1>9, <1>20
  <2>2. \A f \in Owners \ {Bitmap} : At(f)' = At(f)
    BY <1>22, RecordsAre
  <2> QED
    BY <1>1, <1>2, <1>3, <1>20, <2>1, <2>2, LateStays
<1>26. Prepared'
  BY <1>1, <1>4, <1>20, <1>22, <1>23, RecordsAre, PreparedStays
<1>27. cell'[mem'.dest[1]] = [bits |-> mem'.bm]
  <2>1. mem.dest[1] \in 0..Device - 1 /\ mem.dest[1] \notin Hold(MftMirr)
    BY <1>4, <1>7 DEF Prepared, Clusters
  <2>2. mem.dest[1] # to
    BY <1>12, <2>1
  <2>3. cell[mem.dest[1]] = [bits |-> mem.bm]
    BY <1>1, <1>2 DEF Ending
  <2> QED
    BY <1>17, <1>20, <2>1, <2>2, <2>3
<1>28. Ending'
  <2>1. At(Bitmap)' = Rec(mem'.dest, BitmapSize(mem.new)')
    <3>1. At(Bitmap) = Rec(mem.dest, BitmapSize(mem.new))
      BY <1>1, <1>2 DEF Ending
    <3>2. BitmapSize(mem.new)' = BitmapSize(mem.new)
      BY <1>20 DEF BitmapSize
    <3> QED
      BY <1>20, <1>22, <3>1, <3>2, RecordsAre
  <2>2. mem'.copied <= mem'.moved.len
    BY <1>1, <1>5, <1>6, <1>20
  <2>3. ASSUME NEW i \in 1..mem'.copied
        PROVE  cell'[mem'.moved.lcn + i - 1] = cell'[mem'.mirr[i]]
    <3>1. i \in 1..2 /\ mem.mirr[i] \in Img(mem.mirr)
      BY <1>2, <1>9, <1>20 DEF Program, Img
    <3>2. cell'[mem.mirr[i]] = cell[mem.mirr[i]]
      BY <1>18, <3>1
    <3>3. CASE i = ref
      <4>1. mem.moved.lcn + i - 1 = to
        BY <1>5, <1>6, <3>3 DEF to, Clusters
      <4> QED
        BY <1>17, <1>20, <3>2, <3>3, <4>1
    <3>4. CASE i # ref
      <4>1. i \in 1..mem.copied
        BY <1>5, <1>20, <3>4
      <4>2. cell[mem.moved.lcn + i - 1] = cell[mem.mirr[i]]
        BY <1>1, <1>2, <4>1 DEF Ending
      <4>3. mem.moved.lcn + i - 1 \in 0..Device - 1 /\ mem.moved.lcn + i - 1 # to
        <5>1. to = mem.moved.lcn + mem.copied /\ to \in 0..Device - 1 /\ Device \in Nat
          BY <1>15, ResizeAssumption DEF to
        <5>2. mem.moved.lcn \in Nat /\ mem.copied \in Nat
          BY <1>5, <1>6 DEF Clusters
        <5> QED
          BY <4>1, <5>1, <5>2
      <4> QED
        BY <1>17, <1>20, <3>2, <4>2, <4>3
    <3> QED
      BY <3>3, <3>4
  <2> QED
    BY <1>1, <1>26, <1>27, <2>1, <2>2, <2>3 DEF Ending, Prepared
<1> QED
  BY <1>22, <1>24, <1>25, <1>28 DEF IInv, Disk, Task

(* The clusters that the disk has $MFT in are those its records map.       *)
LEMMA SpotImages ==
    ASSUME Layout
    PROVE  /\ {Spot(v) : v \in 1..Length(Mft)} \subseteq Img(At(Mft).map)
           /\ {Spot(v) : v \in Length(Mft) + 1..3} \subseteq Img(At(MftExt).map)
<1>1. split \in BOOLEAN /\ Mft \in Records /\ MftExt \in Records
  BY RecordsAre DEF Layout
<1>2. /\ \A v \in 1..Length(Mft) : At(Mft).map[v] \in Img(At(Mft).map)
      /\ \A v \in 1..Length(MftExt) : At(MftExt).map[v] \in Img(At(MftExt).map)
  BY <1>1, MapsAre
<1>3. ASSUME NEW v \in 1..Length(Mft) PROVE Spot(v) \in Img(At(Mft).map)
  <2>1. ~(split /\ v = 3)
    BY LengthsAre
  <2>2. Spot(v) = At(Mft).map[v]
    BY <2>1 DEF Spot
  <2> QED
    BY <1>2, <2>2
<1>4. ASSUME NEW v \in Length(Mft) + 1..3 PROVE Spot(v) \in Img(At(MftExt).map)
  <2>1. split /\ v = 3 /\ 1 \in 1..Length(MftExt)
    BY <1>1, LengthsAre
  <2>2. Spot(v) = At(MftExt).map[1]
    BY <2>1 DEF Spot
  <2> QED
    BY <1>2, <2>1, <2>2
<1> QED
  BY <1>3, <1>4

(* The volume is looked at anew: what is found is what was written.        *)
LEMMA Lands ==
    ASSUME Layout, Apart, cell' = cell, split' = split, Home' = MftMap,
           boot'.nr \in 2..Device, boot'.mirr \in Int
    PROVE  /\ Layout'
           /\ \A f \in Records : At(f)' = At(f) /\ OnDisk(f)' = At(f) /\ OnDisk(f) = At(f)
           /\ \A f \in Owners : Img(At(f).map)' = Img(At(f).map)
           /\ \A v : Spot(v)' = Spot(v)
           /\ \A v \in 1..3 : Home'[v] = Spot(v)
           /\ Old(Mft)' \subseteq Img(At(Mft).map) /\ Old(MftExt)' \subseteq Img(At(MftExt).map)
           /\ InUse' = InUse /\ MirrorMap' = At(MftMirr).map /\ MirrorMap = At(MftMirr).map
<1>1. /\ MftMap \in [1..3 -> Clusters] /\ Len(MftMap) = 3 /\ DOMAIN MftMap = 1..3
      /\ \A v \in 1..3 : MftMap[v] = Spot(v) /\ cell[MftMap[v]] = cell[Home[v]]
      /\ \A f \in Records : OnDisk(f) = At(f)
  BY SpotIs
<1>2. \A v \in 1..3 : Home'[v] = Spot(v) /\ cell'[Home'[v]] = cell[Home[v]]
  BY <1>1
<1>3. \A f \in Records : At(f)' = At(f)
  <2> TAKE f \in Records
  <2>1. VcnOf(f) \in 1..3
    BY VcnsAre
  <2> QED
    BY <1>2, <2>1 DEF At
<1>4. (\A f \in Records : Length(f)' = Length(f)) /\ \A v : Spot(v)' = Spot(v)
  BY <1>3, LengthStays
<1>5. Layout'
  <2>1. split' \in BOOLEAN /\ cell' = [c \in 0..Device - 1 |-> cell'[c]]
    BY DEF Layout
  <2>2. /\ Home' \in [1..3 -> Clusters'] /\ DOMAIN Home' = 1..3
    BY <1>1 DEF Clusters
  <2>3. Home'[1] = MftStart /\ Once(Home)'
    BY <1>2, <2>2, SpotsDiffer DEF Once
  <2>4. \A v \in 1..3 : cell'[Home'[v]] = [recs |-> [f \in InVcn(v) |-> At(f)']]
    <3> TAKE v \in 1..3
    <3>1. cell'[Home'[v]] = [recs |-> [f \in InVcn(v) |-> At(f)]]
      BY <1>2, HomeIs
    <3>2. \A f \in InVcn(v) : At(f)' = At(f)
      BY <1>3, VcnsAre
    <3> QED
      BY <3>1, <3>2
  <2>5. \A f \in Records : IsRec(At(f), Length(f))' /\ Once(At(f).map)'
    <3> TAKE f \in Records
    <3>1. IsRec(At(f), Length(f)) /\ Once(At(f).map)
      BY DEF Layout
    <3>2. At(f)' = At(f) /\ Length(f)' = Length(f)
      BY <1>3, <1>4
    <3> QED
      BY <3>1, <3>2 DEF IsRec, Once, Clusters
  <2>6. At(Mft)'.map[1] = MftStart
    BY <1>3, RecordsAre DEF Layout
  <2>7. \A v \in 1..3 : cell'[Spot(v)'] = cell'[Home'[v]]
    BY <1>2, <1>4
  <2>8. \A v \in 1..2 : cell'[At(File)'.map[v]] = Data(File, v)
    BY <1>3, RecordsAre DEF Layout
  <2>9. cell'[At(Bitmap)'.map[1]] = [bits |-> cell'[At(Bitmap)'.map[1]].bits]
    BY <1>3, RecordsAre DEF Layout
  <2> QED
    BY <2>1, <2>2, <2>3, <2>4, <2>5, <2>6, <2>7, <2>8, <2>9 DEF Layout
<1>6. \A f \in Owners : Img(At(f).map)' = Img(At(f).map)
  BY <1>3, RecordsAre DEF Img
<1>7. \A f \in Records : OnDisk(f)' = At(f)
  <2>1. \A f \in Records : OnDisk(f)' = OnDisk(f)
    BY DEF OnDisk, RecAt, MftMap, MftBase
  <2> QED
    BY <1>1, <2>1
<1>8. InUse' = InUse
  BY DEF InUse, Named, OnDisk, RecAt, MftMap, MftBase
<1>9. MirrorMap' = At(MftMirr).map /\ MirrorMap = At(MftMirr).map
  BY <1>1, <1>7, RecordsAre DEF MirrorMap
<1>10. Old(Mft)' \subseteq Img(At(Mft).map) /\ Old(MftExt)' \subseteq Img(At(MftExt).map)
  <2>1. /\ Old(Mft)' = {Home'[v] : v \in 1..Length(Mft)'}
        /\ Old(MftExt)' = {Home'[v] : v \in Length(Mft)' + 1..3}
    BY NamesApart DEF Old
  <2>2. Length(Mft)' = Length(Mft) /\ Length(Mft) \in {2, 3}
    BY <1>4, RecordsAre, LengthsAre DEF Layout
  <2>3. Old(Mft)' = {Spot(v) : v \in 1..Length(Mft)} /\ Old(MftExt)' = {Spot(v) : v \in Length(Mft) + 1..3}
    BY <1>2, <2>1, <2>2
  <2> QED
    BY <2>3, SpotImages
<1> QED
  BY <1>1, <1>2, <1>3, <1>4, <1>5, <1>6, <1>7, <1>8, <1>9, <1>10

(* With the program gone nobody holds more than the disk says.             *)
LEMMA HoldLands ==
    ASSUME \A f \in Owners : Img(At(f).map)' = Img(At(f).map),
           Old(Mft)' \subseteq Img(At(Mft).map), Old(MftExt)' \subseteq Img(At(MftExt).map),
           pc' \notin Moving,
           Running' => Img(mem.mirr)' \subseteq Img(At(MftMirr).map)
    PROVE  \A f \in Owners : Hold(f)' \subseteq Img(At(f).map)
<1> SUFFICES ASSUME NEW f \in Owners PROVE Hold(f)' \subseteq Img(At(f).map)
  OBVIOUS
<1>1. Hold(f)' = Img(At(f).map) \union Old(f)'
  BY DEF Hold, New
<1>2. CASE f = Mft \/ f = MftExt
  BY <1>1, <1>2
<1>3. CASE f = MftMirr
  <2>1. Old(f)' = IF Running' THEN Img(mem.mirr)' ELSE {}
    BY <1>3, NamesApart DEF Old
  <2> QED
    BY <1>1, <1>3, <2>1
<1>4. CASE f = Bitmap \/ f = File
  <2>1. Old(f)' = {}
    BY <1>4, NamesApart DEF Old
  <2> QED
    BY <1>1, <2>1
<1> QED
  BY <1>2, <1>3, <1>4 DEF Owners

(* Files that keep only what their records map stay apart.                 *)
LEMMA ApartLands ==
    ASSUME Layout, Apart, \A f \in Owners : Hold(f)' \subseteq Img(At(f).map),
           \A f \in Owners : \A c \in Img(At(f).map)' : c < boot'.nr
    PROVE  Apart'
<1> DEFINE nr == boot'.nr
<1>1. \A f \in Owners : Hold(f)' \subseteq Hold(f)
  BY ApartIs
<1>2. /\ boot'.nr = nr /\ Mft \in Owners
      /\ \A f \in Owners : Hold(f) \intersect {} = {}
      /\ \A f \in Owners : f # Mft => Hold(f)' \subseteq Hold(f)
      /\ Hold(Mft)' \subseteq Hold(Mft) \union {}
      /\ \A f \in Owners : \A c \in Img(At(f).map)' : c < nr
  BY <1>1 DEF Owners
<1>3. \A f, g \in Owners : f # g => Hold(f) \intersect Hold(g) = {}
  BY DEF Apart
<1>4. \A f, g \in Owners : f # g => Hold(f)' \intersect Hold(g)' = {}
  BY <1>1, <1>3
<1> QED
  BY <1>2, <1>4 DEF Apart

(* The program ends in the middle, and nothing on the disk changes.        *)
Ends ==
    /\ pc \notin {"off", "done"} /\ pc' = "off" /\ mem' = Idle
    /\ cell' = cell /\ boot' = boot /\ dirty' = dirty /\ split' = split /\ behind' = behind

(* Wherever the program ends, what is on the disk is a volume still.       *)
LEMMA EndsKeeps ==
    ASSUME IInv, Ends
    PROVE  IInv'
<1>1. /\ pc \notin {"off", "done"} /\ pc' = "off" /\ mem' = Idle
      /\ cell' = cell /\ boot' = boot /\ dirty' = dirty /\ split' = split /\ behind' = behind
  BY DEF Ends
<1>2. Running /\ Layout /\ Apart /\ Program /\ Marked /\ ~Running'
  BY <1>1 DEF IInv, Disk, Task, Running
<1>3. Home' = MftMap
  <2>1. Home' = MftMap'
    BY <1>2 DEF Home
  <2> QED
    BY <1>1, <2>1 DEF MftMap, MftBase, RecAt
<1>4. boot'.nr \in 2..Device /\ boot'.mirr \in Int
  BY <1>1, <1>2 DEF Layout
<1>5. /\ Layout'
      /\ \A f \in Records : At(f)' = At(f) /\ OnDisk(f)' = At(f) /\ OnDisk(f) = At(f)
      /\ \A f \in Owners : Img(At(f).map)' = Img(At(f).map)
      /\ Old(Mft)' \subseteq Img(At(Mft).map) /\ Old(MftExt)' \subseteq Img(At(MftExt).map)
      /\ InUse' = InUse /\ MirrorMap' = At(MftMirr).map
  BY <1>1, <1>2, <1>3, <1>4, Lands
<1>6. pc' \notin Moving
  BY <1>1, Phases
<1>7. \A f \in Owners : Hold(f)' \subseteq Img(At(f).map)
  BY <1>2, <1>5, <1>6, HoldLands
<1>8. \A f \in Owners : \A c \in Img(At(f).map)' : c < boot'.nr
  BY <1>1, <1>2, <1>5, ApartIs
<1>9. Apart'
  BY <1>2, <1>7, <1>8, ApartLands
<1>10. Marked'
  <2>1. ~dirty => Agreed
    BY <1>1, <1>2 DEF Marked
  <2>2. Agreed => Agreed'
    <3>1. /\ At(Bitmap)' = At(Bitmap) /\ At(BadClus)' = At(BadClus)
      BY <1>5, RecordsAre
    <3>2. BitmapSize(boot.nr)' = BitmapSize(boot.nr)
      BY <1>1 DEF BitmapSize
    <3> QED
      BY <1>1, <1>5, <3>1, <3>2 DEF Agreed
  <2> QED
    BY <1>1, <2>1, <2>2 DEF Marked
<1>11. MirrorAtBoot'
  <2>1. \A v \in 1..2 : \/ Mirrored[v] \in behind'
                        \/ cell'[boot'.mirr + v - 1] = [rec |-> OnDisk(Mirrored[v])']
    <3> TAKE v \in 1..2
    <3>1. /\ mem.mirr[v] = boot.mirr + v - 1
          /\ Mirrored[v] \in behind \/ cell[mem.mirr[v]] = [rec |-> At(Mirrored[v])]
      BY <1>2 DEF Program
    <3>2. Mirrored[v] \in Records
      BY RecordsAre
    <3> QED
      BY <1>1, <1>5, <3>1, <3>2
  <2>2. \E f \in Range(Mirrored) : behind' \subseteq {f}
    <3>1. behind' = {} \/ \E v \in 1..2 : behind' = {Mirrored[v]}
      BY <1>1, <1>2 DEF Program
    <3> QED
      BY <3>1, MirroredAre
  <2> QED
    BY <2>1, <2>2, RecordsAre DEF MirrorAtBoot
<1>12. Idles'
  BY <1>1, <1>11 DEF Idles
<1> QED
  BY <1>2, <1>5, <1>9, <1>10, <1>12 DEF IInv, Disk

(* A failure, or the program is killed.                                    *)
LEMMA StopKeeps ==
    ASSUME IInv, Stop
    PROVE  IInv'
<1>1. Ends
  BY DEF Stop, disk, Ends
<1> QED
  BY <1>1, EndsKeeps

(* No space for a run or for $Bitmap.                                      *)
LEMMA GiveUpKeeps ==
    ASSUME IInv, Allocate \/ ReallocBitmap, GiveUp
    PROVE  IInv'
<1>1. In("allocate") \/ In("bitmap")
  BY ZenonT(60) DEF Allocate, ReallocBitmap
<1>2. Ends
  BY <1>1 DEF In, GiveUp, disk, Ends
<1> QED
  BY <1>2, EndsKeeps

(* The program exits: what is on the disk is what the next one finds.      *)
LEMMA ExitKeeps ==
    ASSUME IInv, Exit
    PROVE  IInv'
<1>1. /\ pc = "done" /\ pc' = "off" /\ mem' = mem /\ behind' = behind
      /\ cell' = cell /\ boot' = boot /\ dirty' = dirty /\ split' = split
  BY DEF Exit, disk
<1>2. ~Running /\ Layout /\ Apart /\ Idles /\ ~Running'
  BY <1>1 DEF IInv, Disk, Running
<1>3. Home' = MftMap
  <2>1. Home' = MftMap'
    BY <1>2 DEF Home
  <2> QED
    BY <1>1, <2>1 DEF MftMap, MftBase, RecAt
<1>4. boot'.nr \in 2..Device /\ boot'.mirr \in Int
  BY <1>1, <1>2 DEF Layout
<1>5. /\ Layout'
      /\ \A f \in Records : At(f)' = At(f) /\ OnDisk(f)' = At(f) /\ OnDisk(f) = At(f)
      /\ \A f \in Owners : Img(At(f).map)' = Img(At(f).map)
      /\ Old(Mft)' \subseteq Img(At(Mft).map) /\ Old(MftExt)' \subseteq Img(At(MftExt).map)
      /\ InUse' = InUse /\ MirrorMap' = At(MftMirr).map /\ MirrorMap = At(MftMirr).map
  BY <1>1, <1>2, <1>3, <1>4, Lands
<1>6. pc' \notin Moving
  BY <1>1, Phases
<1>7. \A f \in Owners : Hold(f)' \subseteq Img(At(f).map)
  BY <1>2, <1>5, <1>6, HoldLands
<1>8. \A f \in Owners : \A c \in Img(At(f).map)' : c < boot'.nr
  BY <1>1, <1>2, <1>5, ApartIs
<1>9. Apart'
  BY <1>2, <1>7, <1>8, ApartLands
<1>10. Agreed'
  <2>1. Agreed
    BY <1>1, <1>2 DEF Idles
  <2>2. At(Bitmap)' = At(Bitmap) /\ At(BadClus)' = At(BadClus)
    BY <1>5, RecordsAre
  <2>3. BitmapSize(boot.nr)' = BitmapSize(boot.nr)
    BY <1>1 DEF BitmapSize
  <2> QED
    BY <1>1, <1>5, <2>1, <2>2, <2>3 DEF Agreed
<1>11. MirrorAtBoot'
  <2>1. MirrorAtBoot
    BY <1>1, <1>2 DEF Idles
  <2>2. MirrorMap' = MirrorMap /\ (MirrorInPlace <=> MirrorInPlace')
    BY <1>1, <1>5 DEF MirrorInPlace
  <2>3. \A v \in 1..Len(Mirrored) : OnDisk(Mirrored[v])' = OnDisk(Mirrored[v])
    BY <1>5, RecordsAre
  <2> QED
    BY <1>1, <2>1, <2>2, <2>3 DEF MirrorAtBoot
<1>12. Marked' /\ Idles'
  BY <1>1, <1>10, <1>11 DEF Marked, Idles
<1> QED
  BY <1>2, <1>5, <1>9, <1>12 DEF IInv, Disk

(* The largest of a bounded set of numbers.                                *)
LEMMA MaxIs ==
    ASSUME NEW S \in SUBSET Nat, NEW n \in Nat, S # {}, \A l \in S : l <= n
    PROVE  Max(S) \in S /\ \A k \in S : k <= Max(S)
<1>1. Largest(S) \in S /\ \A k \in S : k <= Largest(S)
  BY LargestIsGreatest
<1>2. \A k \in S : Largest(S) >= k
  BY <1>1
<1>3. \E x \in S : \A y \in S : x >= y
  BY <1>1, <1>2
<1>4. Max(S) \in S /\ \A y \in S : Max(S) >= y
  BY <1>3 DEF Max
<1> QED
  BY <1>4

(* The smallest of a set of numbers.                                       *)
LEMMA MinIs ==
    ASSUME NEW S \in SUBSET Nat, S # {}
    PROVE  Min(S) \in S /\ \A k \in S : Min(S) <= k
<1>1. \E m \in S : \A k \in S : m <= k
  BY SmallestExists
<1> QED
  BY <1>1 DEF Min

(* update_bootsector                                                       *)
LEMMA WriteBootKeeps ==
    ASSUME IInv, WriteBoot
    PROVE  IInv'
<1>1. /\ behind = {} /\ behind' = {}
      /\ pc = "boot" /\ pc' = "done" /\ mem.copied = mem.moved.len
      /\ cell' = cell /\ dirty' = dirty /\ split' = split
      /\ boot' = [nr |-> mem.new, mirr |-> IF mem.moved = Unmoved THEN boot.mirr ELSE mem.moved.lcn]
  BY DEF WriteBoot, In
<1>2. /\ Running /\ Layout /\ Apart /\ Program /\ Ended /\ Mirror /\ Plain /\ Ending
      /\ Marked /\ ~Running'
  BY <1>1 DEF IInv, Disk, Task, Running
<1>3. Home' = MftMap
  <2>1. Home' = MftMap'
    BY <1>2 DEF Home
  <2> QED
    BY <1>1, <2>1 DEF MftMap, MftBase, RecAt
<1>4. pc \in Late /\ pc \notin Moving /\ pc' \notin Moving
  BY <1>1, Phases
<1>5. /\ mem.moved = Unmoved => Still
      /\ mem.moved # Unmoved => /\ mem.moved \in [old : Nat, lcn : Clusters, len : {1, 2}]
                                /\ Pair(At(MftMirr).map)
  BY <1>2, <1>4 DEF Mirror
<1>6. boot'.nr = mem.new /\ boot'.mirr = IF mem.moved = Unmoved THEN boot.mirr ELSE mem.moved.lcn
  BY <1>1
<1>7. boot'.nr \in 2..Device /\ boot'.mirr \in Int
  <2>1. mem.new \in 2..Device /\ boot.mirr \in Int
    BY <1>2 DEF Program, Layout
  <2>2. mem.moved # Unmoved => mem.moved.lcn \in Int
    BY <1>5 DEF Clusters
  <2> QED
    BY <1>6, <2>1, <2>2
<1>8. /\ Layout'
      /\ \A f \in Records : At(f)' = At(f) /\ OnDisk(f)' = At(f) /\ OnDisk(f) = At(f)
      /\ \A f \in Owners : Img(At(f).map)' = Img(At(f).map)
      /\ Old(Mft)' \subseteq Img(At(Mft).map) /\ Old(MftExt)' \subseteq Img(At(MftExt).map)
      /\ InUse' = InUse /\ MirrorMap' = At(MftMirr).map
  BY <1>1, <1>2, <1>3, <1>7, Lands
<1>9. \A f \in Owners : Hold(f)' \subseteq Img(At(f).map)
  BY <1>2, <1>4, <1>8, HoldLands
<1>10. Prepared
  BY <1>2, <1>4, PreparedIs
<1>11. At(Bitmap) = Rec(mem.dest, BitmapSize(mem.new)) /\ cell[mem.dest[1]] = [bits |-> mem.bm]
  BY <1>1, <1>2 DEF Ending
<1>12. /\ At(Bitmap).map = mem.dest /\ At(Bitmap).size = BitmapSize(mem.new)
       /\ Img(At(Bitmap).map) = {mem.dest[1]} /\ Img(mem.dest) = {mem.dest[1]}
       /\ mem.dest[1] < mem.new /\ mem.dest[1] \in Clusters
  BY <1>10, <1>11 DEF Rec, Prepared, Img
<1>13. \A f \in Owners : \A c \in Img(At(f).map)' : c < boot'.nr
  <2> SUFFICES ASSUME NEW f \in Owners, NEW c \in Img(At(f).map) PROVE c < mem.new
    BY <1>6, <1>8
  <2>1. CASE f = Bitmap
    BY <1>12, <2>1
  <2>2. CASE f # Bitmap
    <3>1. mem.new < boot.nr => c < mem.new
      BY <1>1, <1>2, <2>2, Phases DEF Ended, Inside
    <3>2. c < boot.nr /\ c \in Clusters
      BY <1>2, ApartIs, MapsAre, RecordsAre
    <3>3. mem.new \in Nat /\ boot.nr \in Nat /\ mem.new # boot.nr
      BY <1>2, ResizeAssumption DEF Program, Layout
    <3> QED
      BY <3>1, <3>2, <3>3 DEF Clusters
  <2> QED
    BY <2>1, <2>2
<1>14. Apart'
  BY <1>2, <1>9, <1>13, ApartLands
<1>15. Agreed'
  <2>1. At(Bitmap)' = At(Bitmap) /\ At(BadClus)' = At(BadClus)
    BY <1>8, RecordsAre
  <2>2. BitmapSize(boot.nr)' = BitmapSize(mem.new)
    BY <1>6 DEF BitmapSize
  <2>3. At(BadClus).size = mem.new
    BY <1>10 DEF Prepared
  <2>4. mem.bm = InUse \union mem.new..BitmapSize(mem.new) - 1
    <3> DEFINE rest == UNION {Img(At(f).map) : f \in Owners \ {Bitmap}}
    <3>1. mem.bm = {0} \union Img(mem.dest) \union rest \union mem.new..BitmapSize(mem.new) - 1
      BY <1>10 DEF Prepared
    <3>2. InUse = {0} \union UNION {Img(At(f).map) : f \in Owners}
      BY <1>2, InUseIs
    <3>3. UNION {Img(At(f).map) : f \in Owners} = Img(mem.dest) \union rest
      BY <1>12 DEF Owners
    <3> QED
      BY <3>1, <3>2, <3>3
  <2>5. cell'[At(Bitmap)'.map[1]].bits = mem.bm
    BY <1>1, <1>11, <1>12, <2>1
  <2>6. At(Bitmap)'.size = BitmapSize(mem.new)
    BY <1>12, <2>1
  <2> QED
    BY <1>6, <1>8, <2>1, <2>2, <2>3, <2>4, <2>5, <2>6 DEF Agreed
<1>16. MirrorAtBoot'
  <2>0. \E f \in Range(Mirrored) : behind' \subseteq {f}
    BY <1>1, MirroredAre
  <2>1. \A v \in 1..2 : /\ mem.mirr[v] = boot.mirr + v - 1
                        /\ cell[mem.mirr[v]] = [rec |-> OnDisk(Mirrored[v])']
    <3> TAKE v \in 1..2
    <3>1. mem.mirr[v] = boot.mirr + v - 1 /\ cell[mem.mirr[v]] = [rec |-> At(Mirrored[v])]
      BY <1>1, <1>2 DEF Program
    <3>2. Mirrored[v] \in Records
      BY RecordsAre
    <3> QED
      BY <1>8, <3>1, <3>2
  <2>2. CASE mem.moved = Unmoved
    <3>1. \A v \in 1..2 : cell'[boot'.mirr + v - 1] = [rec |-> OnDisk(Mirrored[v])']
      BY <1>1, <1>6, <2>1, <2>2
    <3> QED
      BY <3>1, <2>0, RecordsAre DEF MirrorAtBoot
  <2>3. CASE mem.moved # Unmoved /\ mem.moved.len = 2
    <3>1. \A i \in 1..2 : cell[mem.moved.lcn + i - 1] = cell[mem.mirr[i]]
      BY <1>1, <1>2, <2>3 DEF Ending
    <3>2. \A v \in 1..2 : cell'[boot'.mirr + v - 1] = [rec |-> OnDisk(Mirrored[v])']
      BY <1>1, <1>6, <2>1, <2>3, <3>1
    <3> QED
      BY <3>2, <2>0, RecordsAre DEF MirrorAtBoot
  <2>4. CASE mem.moved # Unmoved /\ mem.moved.len # 2
    <3> DEFINE m == At(MftMirr).map
    <3>1. mem.moved.lcn = m[1] /\ m[2] # m[1] + 1
      BY <1>5, <2>4 DEF Pair
    <3>2. Len(m) = 2 /\ m[1] \in Clusters /\ m[2] \in Clusters
      <4>1. MftMirr \in Records /\ Length(MftMirr) = 2
        BY RecordsAre, LengthsAre
      <4> HIDE DEF m
      <4>2. Len(m) = 2 /\ \A v \in 1..2 : m[v] \in Clusters
        BY <1>2, <4>1, MapsAre DEF m
      <4> QED
        BY <4>2
    <3>3. boot'.mirr = m[1] /\ MirrorMap' = m
      BY <1>6, <1>8, <2>4, <3>1
    <3> HIDE DEF m
    <3>4. ~MirrorInPlace'
      <4>1. 2 \in 1..Len(m) /\ m[2] # boot'.mirr + 2 - 1
        BY <3>1, <3>2, <3>3 DEF Clusters
      <4> QED
        BY <3>3, <4>1 DEF MirrorInPlace
    <3> QED
      BY <2>0, <3>3, <3>4 DEF MirrorAtBoot
  <2> QED
    BY <2>2, <2>3, <2>4
<1>17. Marked' /\ Idles'
  BY <1>1, <1>2, <1>15, <1>16 DEF Marked, Idles
<1> QED
  BY <1>2, <1>8, <1>14, <1>17 DEF IInv, Disk

(* main up to the question whether to go on.                               *)
LEMMA StartKeeps ==
    ASSUME IInv, NEW new \in NewSizes, Start(new)
    PROVE  IInv'
<1> DEFINE moves == \E c \in InUse \ Named(Bitmap) : c >= new
<1>1. /\ behind' = {} /\ pc = "off" /\ pc' = "prepare" /\ Mountable /\ new # boot.nr /\ Supported(new)
      /\ cell' = cell /\ boot' = boot /\ dirty' = dirty /\ split' = split
  BY DEF Start, disk
<1>2. /\ mem'.new = new /\ mem'.mft = MftMap /\ mem'.mirr = MirrorMap /\ mem'.bm = InUse /\ mem'.pos = 0
      /\ mem'.relocations = (new < boot.nr /\ moves)
      /\ mem'.at = 1 /\ mem'.pass = 0 /\ mem'.high = 0 /\ mem'.dest = <<>>
      /\ mem'.copied = 0 /\ mem'.moved = Unmoved /\ IsMem(mem')
  BY DEF Start, IsMem
<1> HIDE DEF moves
<1>3. Layout /\ Apart /\ Marked /\ ~Running /\ Running'
  BY <1>1 DEF IInv, Disk, Running
<1>4. Home' = MftMap
  BY <1>2, <1>3 DEF Home
<1>5. boot'.nr \in 2..Device /\ boot'.mirr \in Int
  BY <1>1, <1>3 DEF Layout
<1>6. /\ Layout'
      /\ \A f \in Records : At(f)' = At(f) /\ OnDisk(f)' = At(f) /\ OnDisk(f) = At(f)
      /\ \A f \in Owners : Img(At(f).map)' = Img(At(f).map)
      /\ \A v : Spot(v)' = Spot(v)
      /\ \A v \in 1..3 : Home'[v] = Spot(v)
      /\ Old(Mft)' \subseteq Img(At(Mft).map) /\ Old(MftExt)' \subseteq Img(At(MftExt).map)
      /\ InUse' = InUse /\ MirrorMap = At(MftMirr).map
  BY <1>1, <1>3, <1>4, <1>5, Lands
<1>7. pc' \notin Moving /\ pc' \in Early /\ pc' \notin Late /\ pc' \notin Turns
  BY <1>1, Phases
<1>8. \A f \in Owners : Hold(f)' \subseteq Img(At(f).map)
  <2>1. Img(mem.mirr)' \subseteq Img(At(MftMirr).map)
    BY <1>2, <1>6 DEF Img
  <2> QED
    BY <1>6, <1>7, <2>1, HoldLands
<1>9. \A f \in Owners : \A c \in Img(At(f).map) : c < boot.nr
  BY <1>3, ApartIs
<1>10. Apart'
  BY <1>1, <1>3, <1>6, <1>8, <1>9, ApartLands
<1>11. Marked' /\ Idles'
  <2>1. ~dirty => Agreed
    BY <1>1, <1>3 DEF Marked
  <2>2. Agreed => Agreed'
    <3>1. At(Bitmap)' = At(Bitmap) /\ At(BadClus)' = At(BadClus)
      BY <1>6, RecordsAre
    <3>2. BitmapSize(boot.nr)' = BitmapSize(boot.nr)
      BY <1>1 DEF BitmapSize
    <3> QED
      BY <1>1, <1>6, <3>1, <3>2 DEF Agreed
  <2> QED
    BY <1>1, <2>1, <2>2 DEF Marked, Idles
<1>12. new \in 1..Device /\ boot.nr \in 2..Device /\ Device \in Nat /\ new # boot.nr
  BY <1>1, <1>3, ResizeAssumption DEF Layout
<1>13. new \in 2..Device
  <2>1. CASE new > boot.nr
    BY <1>12, <2>1
  <2>2. CASE new < boot.nr
    <3> DEFINE first == {n \in 1..Len(MftBase) : \A v \in 1..n : MftBase[v] = MftStart + v - 1}
    <3>1. MftBase = At(Mft).map
      BY <1>3, SpotIs
    <3>2. Len(MftBase) \in {2, 3} /\ MftBase[1] = MftStart
      <4>1. Mft \in Records /\ split \in BOOLEAN /\ At(Mft).map[1] = MftStart
        BY <1>3, RecordsAre DEF Layout
      <4>2. Len(At(Mft).map) = Length(Mft)
        BY <1>3, <4>1, MapsAre
      <4> QED
        BY <3>1, <4>1, <4>2, LengthsAre
    <3>3. 1 \in first /\ first \in SUBSET Nat /\ \A l \in first : l <= 3 /\ l >= 1
      BY <3>2 DEF MftStart
    <3>4. FirstRun = Max(first)
      BY DEF FirstRun
    <3> DEFINE three == 3
    <3>5. \A l \in first : l <= three
      BY <3>3
    <3>6. three \in Nat
      OBVIOUS
    <3> HIDE DEF first, three
    <3>7. Max(first) \in first
      BY <3>3, <3>5, <3>6, MaxIs
    <3>8. MftStart + FirstRun <= new
      BY <1>1, <2>2 DEF Supported
    <3>9. FirstRun \in Nat /\ FirstRun >= 1
      BY <3>3, <3>4, <3>7
    <3> QED
      BY <1>12, <3>8, <3>9 DEF MftStart
  <2> QED
    BY <1>12, <2>1, <2>2
<1> DEFINE mirr == At(MftMirr).map
<1>14. /\ MftMirr \in Records /\ MftMirr \in Owners
       /\ mirr \in [1..2 -> Clusters] /\ Len(mirr) = 2 /\ DOMAIN mirr = 1..2
       /\ \A i, j \in 1..2 : mirr[i] = mirr[j] => i = j
  <2>1. MftMirr \in Records /\ MftMirr \in Owners /\ Length(MftMirr) = 2
    BY RecordsAre, LengthsAre DEF Owners
  <2> QED
    BY <1>3, <2>1, MapsAre
<1>15. Program'
  <2>1. mem'.mirr \in [1..2 -> Clusters'] /\ Once(mem'.mirr)
    BY <1>2, <1>6, <1>14 DEF Clusters, Once
  <2>2. \A v \in 1..2 : mem'.mirr[v] = boot'.mirr + v - 1 /\ cell'[mem'.mirr[v]] = [rec |-> At(Mirrored[v])']
    <3> TAKE v \in 1..2
    <3>1. mirr[v] = boot.mirr + v - 1 /\ cell[mirr[v]] = [rec |-> OnDisk(Mirrored[v])]
      BY <1>1, <1>6, <1>14, RecordsAre DEF Mountable, MirrorInPlace
    <3>2. Mirrored[v] \in Records
      BY RecordsAre
    <3> QED
      BY <1>1, <1>2, <1>6, <3>1, <3>2
  <2>3. (\A c \in Img(mem'.mirr) : c < mem'.new) \/ (\A c \in Img(mem'.mirr) : c >= mem'.new)
    <3>1. Img(mem'.mirr) = Img(mirr) /\ Img(mirr) \subseteq Clusters
      BY <1>2, <1>6, <1>14 DEF Img
    <3>2. CASE new > boot.nr
      <4>1. \A c \in Img(mirr) : c < boot.nr
        BY <1>9, <1>14
      <4>2. \A c \in Img(mirr) : c < new
        BY <1>12, <3>1, <3>2, <4>1 DEF Clusters
      <4> QED
        BY <1>2, <3>1, <4>2
    <3>3. CASE new < boot.nr
      <4>1. Named(MftMirr) = Img(mirr)
        BY <1>6, <1>14 DEF Named, Range, Img
      <4>2. (\A c \in Named(MftMirr) : c < new) \/ (\A c \in Named(MftMirr) : c >= new)
        BY <1>1, <3>3 DEF Supported
      <4> QED
        BY <1>2, <3>1, <4>1, <4>2
    <3> QED
      BY <1>12, <3>2, <3>3
  <2>4. mem'.relocations \in BOOLEAN /\ (mem'.relocations => mem'.new < boot'.nr) /\ mem'.pos \in Nat
    <3>1. mem'.relocations \in BOOLEAN
      BY <1>2, Zenon
    <3>2. mem'.relocations => new < boot.nr
      BY <1>2, Zenon
    <3> QED
      BY <1>1, <1>2, <3>1, <3>2
  <2>5. IsMem(mem') /\ mem'.new \in 2..Device /\ mem'.new # boot'.nr
    BY <1>1, <1>2, <1>13
  <2> QED
    BY <1>1, <2>1, <2>2, <2>3, <2>4, <2>5 DEF Program
<1>16. /\ InUse = {0} \union UNION {Img(At(f).map) : f \in Owners}
  BY <1>3, InUseIs
<1>17. Reserved'
  <2>1. InUse \in SUBSET (0..Device - 1) /\ 0 \in InUse
    <3>1. \A f \in Owners : Img(At(f).map) \subseteq Clusters
      BY <1>3, MapsAre, RecordsAre
    <3> QED
      BY <1>12, <1>16, <3>1 DEF Clusters
  <2>2. \A f \in Owners : Hold(f)' \subseteq InUse
    BY <1>8, <1>16
  <2>3. \A c \in InUse : c = 0 \/ \E f \in Owners : c \in Img(At(f).map)'
    BY <1>6, <1>16
  <2> QED
    BY <1>2, <2>1, <2>2, <2>3 DEF Reserved
<1>18. Unread'
  BY <1>2, <1>4, <1>6 DEF Unread
<1>19. Turning' /\ Preparing' /\ Working' /\ Plain' /\ Ending'
  BY <1>1, <1>2, <1>7, <1>18 DEF Turning, Preparing, Working, Plain, Ending
<1>20. Ended'
  <2> SUFFICES ASSUME ~mem'.relocations, new < boot.nr, NEW f \in Owners \ {Bitmap},
                      NEW c \in Img(At(f).map)
               PROVE  c < new
    BY <1>1, <1>2, <1>6, <1>7 DEF Ended, Inside
  <2>1. c \in InUse
    BY <1>16
  <2>2. Named(Bitmap) = Img(At(Bitmap).map) /\ Bitmap \in Owners
    BY <1>6, RecordsAre DEF Named, Range, Img, Owners
  <2>3. c \notin Named(Bitmap)
    BY <1>3, <2>2, ApartIs
  <2>4. ~(c >= new)
    BY <1>2, <2>1, <2>3 DEF moves
  <2>5. c \in Clusters
    BY <1>3, MapsAre, RecordsAre
  <2> QED
    BY <1>12, <2>4, <2>5 DEF Clusters
<1>21. Mirror'
  <2>1. Still'
    BY <1>2, <1>6, <1>14 DEF Still
  <2>2. mem'.moved = Unmoved'
    BY <1>2 DEF Unmoved
  <2> QED
    BY <2>1, <2>2 DEF Mirror
<1> QED
  BY <1>6, <1>10, <1>11, <1>15, <1>17, <1>19, <1>20, <1>21 DEF IInv, Disk, Task

(* The larger of two numbers.                                              *)
LEMMA MaxOfTwo ==
    ASSUME NEW a \in Int, NEW b \in Int
    PROVE  Max({a, b}) = IF a >= b THEN a ELSE b
<1>1. \E x \in {a, b} : \A y \in {a, b} : x >= y
  OBVIOUS
<1>2. Max({a, b}) \in {a, b} /\ \A y \in {a, b} : Max({a, b}) >= y
  BY <1>1 DEF Max
<1> QED
  BY <1>2

(* The smaller of two numbers.                                             *)
LEMMA MinOfTwo ==
    ASSUME NEW a \in Int, NEW b \in Int
    PROVE  Min({a, b}) = IF a <= b THEN a ELSE b
<1>1. \E x \in {a, b} : \A y \in {a, b} : x <= y
  OBVIOUS
<1>2. Min({a, b}) \in {a, b} /\ \A y \in {a, b} : Min({a, b}) <= y
  BY <1>1 DEF Min
<1> QED
  BY <1>2

(* relocate_run: the clusters of the run are neighbours, and all outside.  *)
IsRun(n) ==
    /\ RunAt \in 1..n /\ RunLen \in 1..n + 1 - RunAt
    /\ \A v \in 1..RunAt - 1 : mem.rec.map[v] < mem.new
    /\ \A i \in 0..RunLen - 1 : mem.rec.map[RunAt + i] >= mem.new
    /\ n = 2 /\ mem.rec.map[1] >= mem.new /\ mem.rec.map[2] = mem.rec.map[1] + 1 =>
          RunAt = 1 /\ RunLen = 2

(* relocate_run starts at the first cluster outside and goes on while they *)
(* are neighbours; both clusters of a mirror are one run.                  *)
LEMMA RunIs ==
    ASSUME NEW n \in Nat, IsRec(mem.rec, n), Outside(mem.rec) # {}, mem.new \in Nat
    PROVE  IsRun(n)
<1> DEFINE m == mem.rec.map
           new == mem.new
           ends == {k \in 1..Len(m) + 1 - RunAt : \A i \in 0..k - 1 : m[RunAt + i] = m[RunAt] + i}
<1>1. m \in [1..n -> Clusters] /\ Len(m) = n /\ \A v \in 1..n : m[v] \in Nat
  <2>1. m \in [1..n -> Clusters]
    BY DEF IsRec
  <2>2. Len(m) = n
    BY <2>1, FunIsSeq
  <2> QED
    BY <2>1, <2>2 DEF Clusters
<1>2. Outside(mem.rec) = {v \in 1..n : m[v] >= new}
  BY <1>1 DEF Outside
<1>3. RunAt \in Outside(mem.rec) /\ \A v \in Outside(mem.rec) : RunAt <= v
  BY <1>2, MinIs DEF RunAt
<1>4. RunAt \in 1..n /\ m[RunAt] >= new
  BY <1>2, <1>3
<1>5. \A v \in 1..RunAt - 1 : m[v] < new
  <2> SUFFICES ASSUME NEW v \in 1..RunAt - 1, ~(m[v] < new) PROVE FALSE
    OBVIOUS
  <2>1. v \in 1..n
    BY <1>4
  <2>2. m[v] >= new
    BY <1>1, <2>1
  <2> QED
    BY <1>2, <1>3, <1>4, <2>1, <2>2
<1>6. RunLen = Max(ends)
  BY DEF RunLen
<1>7. 1 \in ends /\ ends \in SUBSET Nat /\ \A l \in ends : l <= n
  BY <1>1, <1>4
<1> DEFINE at == RunAt
           len == RunLen
<1>8. len \in ends /\ \A k \in ends : k <= len
  <2> HIDE DEF ends
  <2> QED
    BY <1>6, <1>7, MaxIs
<1>9. at \in 1..n /\ len \in 1..n + 1 - at /\ \A i \in 0..len - 1 : m[at + i] = m[at] + i
  <2> HIDE DEF len
  <2> QED
    BY <1>1, <1>4, <1>8
<1>10. \A i \in 0..len - 1 : m[at + i] >= new
  <2> HIDE DEF len, m, at, new
  <2> SUFFICES ASSUME NEW i \in 0..len - 1 PROVE m[at + i] >= new
    OBVIOUS
  <2>1. m[at] >= new /\ m[at] \in Nat /\ new \in Nat
    BY <1>1, <1>4 DEF at, new
  <2> QED
    BY <1>9, <2>1
<1>11. ASSUME n = 2, m[1] >= new, m[2] = m[1] + 1
       PROVE  at = 1 /\ len = 2
  <2>1. at = 1
    BY <1>2, <1>3, <1>4, <1>11
  <2>2. 2 \in ends
    BY <1>1, <1>11, <2>1
  <2> HIDE DEF len, ends, m
  <2> QED
    BY <1>8, <1>9, <1>11, <2>1, <2>2
<1> QED
  BY <1>5, <1>9, <1>10, <1>11 DEF IsRun

(* handle_mftdata: what is taken, and the vcn that is kept, in both passes. *)
HighBefore ==
    IF mem.pass = 0 THEN IF mem.at = 1 THEN 0 ELSE IF split /\ mem.at <= 5 THEN 1 ELSE 2
    ELSE IF ~split \/ mem.at >= 5 THEN 2 ELSE 1
HighBehind ==
    IF mem.pass = 0 THEN IF split /\ mem.at <= 4 THEN 1 ELSE 2
    ELSE IF mem.at = 1 THEN 0 ELSE IF ~split \/ mem.at >= 6 THEN 2 ELSE 1
TakenNow == IF mem.pass = 0 THEN mem.at \in {2, 6} ELSE mem.at = 1 \/ (split /\ mem.at = 5)

(* The program reads the records where the layout has them.                *)
LEMMA MemRecIs ==
    ASSUME Running
    PROVE  \A f : MemRec(f) = At(f)
BY RunningHome DEF MemRec, RecAt, At

(* relocate_attributes takes each file once: the mirror and the file in    *)
(* the first pass, the extents of $MFT, the last one first, in the second. *)
LEMMA TakeIs ==
    ASSUME Layout, Running, mem.at \in 1..6, mem.pass \in {0, 1}, mem.high = HighBefore
    PROVE  HighAfter(Now) = HighBehind /\ (Taken(Now) <=> TakenNow)
<1>1. split \in BOOLEAN /\ Mft \in Records
  BY RecordsAre DEF Layout
<1>2. /\ HighestVcn(Mft) = IF split THEN 1 ELSE 2
      /\ HighestVcn(MftExt) = 2 /\ LowestVcn(Mft) = 0 /\ LowestVcn(MftExt) = 2
  <2>1. Len(MemRec(Mft).map) = Length(Mft)
    BY <1>1, MapsAre, MemRecIs
  <2> QED
    BY <1>1, <2>1, LengthsAre, NamesApart DEF HighestVcn, LowestVcn
<1>3. /\ Max({0, 1}) = 1 /\ Max({0, 2}) = 2 /\ Max({1, 2}) = 2 /\ Max({2, 2}) = 2
      /\ Max({0, 0 - 1}) = 0 /\ Max({0, 2 - 1}) = 1
  <2>1. /\ 0 \in Int /\ 1 \in Int /\ 2 \in Int /\ 0 - 1 \in Int /\ 2 - 1 \in Int
        /\ 1 >= 0 /\ ~(1 >= 2) /\ ~(0 >= 2) /\ ~(0 >= 1) /\ 0 >= 0 - 1 /\ ~(0 >= 2 - 1) /\ 2 >= 2 /\ 2 - 1 = 1
    OBVIOUS
  <2> QED
    BY <2>1, MaxOfTwo, Zenon
<1>4. /\ \A f \in {Mft, MftMirr, Bitmap, BadClus, File} : Exists(f)
      /\ Exists(MftExt) <=> split
      /\ IsMftData(Mft) /\ IsMftData(MftExt)
      /\ \A f \in {MftMirr, Bitmap, BadClus, File} : ~IsMftData(f)
  BY NamesApart DEF Exists, IsMftData
<1>5. CASE mem.at \in {2, 3, 4, 6}
  <2>1. Now \in {MftMirr, Bitmap, BadClus, File} /\ (Now \in {MftMirr, File} <=> mem.at \in {2, 6})
        /\ (Now \in {Bitmap, BadClus} <=> mem.at \in {3, 4})
    BY <1>5, RecordsAre, NamesApart DEF Now
  <2>2. HighAfter(Now) = mem.high
    BY <1>4, <2>1 DEF HighAfter
  <2>3. HighBefore = HighBehind
    BY <1>1, <1>5 DEF HighBefore, HighBehind
  <2>4. Taken(Now) <=> TakenNow
    BY <1>4, <1>5, <2>1 DEF Taken, TakenNow
  <2> QED
    BY <2>2, <2>3, <2>4
<1>6. CASE mem.at = 1
  <2>1. Now = Mft /\ Mft \notin {Bitmap, BadClus}
    BY <1>6, RecordsAre, NamesApart DEF Now
  <2>2. CASE mem.pass = 0
    <3>1. mem.high = 0 /\ HighBehind = IF split THEN 1 ELSE 2
      BY <1>1, <1>6, <2>2 DEF HighBefore, HighBehind
    <3>2. HighAfter(Now) = Max({0, HighestVcn(Mft)})
      BY <1>4, <2>1, <2>2, <3>1 DEF HighAfter
    <3>3. HighAfter(Now) = HighBehind
      BY <1>1, <1>2, <1>3, <3>1, <3>2
    <3>4. ~Taken(Now) /\ ~TakenNow
      BY <1>4, <1>6, <2>1, <2>2 DEF Taken, TakenNow
    <3> QED
      BY <3>3, <3>4
  <2>3. CASE mem.pass = 1
    <3>1. mem.high = HighestVcn(Mft) /\ HighBehind = 0
      BY <1>1, <1>2, <1>6, <2>3 DEF HighBefore, HighBehind
    <3>2. HighAfter(Now) = Max({0, LowestVcn(Mft) - 1})
      BY <1>4, <2>1, <2>3, <3>1 DEF HighAfter
    <3>3. HighAfter(Now) = HighBehind
      BY <1>2, <1>3, <3>1, <3>2
    <3>4. Taken(Now) /\ TakenNow
      BY <1>4, <1>6, <2>1, <2>3, <3>1 DEF Taken, TakenNow
    <3> QED
      BY <3>3, <3>4
  <2> QED
    BY <2>2, <2>3
<1>7. CASE mem.at = 5
  <2>1. Now = MftExt /\ MftExt \notin {Bitmap, BadClus}
    BY <1>7, RecordsAre, NamesApart DEF Now
  <2>2. CASE ~split
    <3>1. HighAfter(Now) = mem.high /\ ~Taken(Now)
      BY <1>4, <2>1, <2>2 DEF HighAfter, Taken
    <3>2. HighBefore = 2 /\ HighBehind = 2 /\ ~TakenNow
      BY <1>7, <2>2 DEF HighBefore, HighBehind, TakenNow
    <3> QED
      BY <3>1, <3>2
  <2>3. CASE split /\ mem.pass = 0
    <3>1. mem.high = 1 /\ HighBehind = 2 /\ ~TakenNow
      BY <1>7, <2>3 DEF HighBefore, HighBehind, TakenNow
    <3>2. HighAfter(Now) = Max({1, 2}) /\ ~Taken(Now)
      BY <1>2, <1>4, <2>1, <2>3, <3>1 DEF HighAfter, Taken
    <3> QED
      BY <1>3, <3>1, <3>2
  <2>4. CASE split /\ mem.pass = 1
    <3>1. mem.high = 2 /\ HighBehind = 1 /\ TakenNow
      BY <1>7, <2>4 DEF HighBefore, HighBehind, TakenNow
    <3>2. HighAfter(Now) = Max({0, 2 - 1}) /\ Taken(Now)
      BY <1>2, <1>4, <2>1, <2>4, <3>1 DEF HighAfter, Taken
    <3> QED
      BY <1>3, <3>1, <3>2
  <2> QED
    BY <1>1, <2>2, <2>3, <2>4
<1> QED
  BY <1>5, <1>6, <1>7

(* The memory but for what counts the turns.                               *)
SameBut(t, m) ==
    /\ IsMem(t) /\ t.new = m.new /\ t.mft = m.mft /\ t.mirr = m.mirr /\ t.bm = m.bm /\ t.pos = m.pos
    /\ t.range = m.range /\ t.relocations = m.relocations /\ t.high = m.high
    /\ t.rec = m.rec /\ t.dest = m.dest /\ t.copied = m.copied /\ t.moved = m.moved

(* relocate_inodes goes through the records upwards, then downwards.       *)
LEMMA NextAtIs ==
    ASSUME NEW m, IsMem(m), m.at \in 1..6, m.pass \in {0, 1}
    PROVE  /\ SameBut(NextAt(m), m)
           /\ m.pass = 0 /\ m.at < 6 => NextAt(m).at = m.at + 1 /\ NextAt(m).pass = 0
           /\ m.pass = 0 /\ m.at = 6 => NextAt(m).at = 6 /\ NextAt(m).pass = 1
           /\ m.pass = 1 /\ m.at > 1 => NextAt(m).at = m.at - 1 /\ NextAt(m).pass = 1
<1>1. Len(Refs) = 6
  BY RecordsAre
<1>2. CASE m.pass = 0 /\ m.at < 6
  <2>1. NextAt(m) = [m EXCEPT !.at = m.at + 1]
    BY <1>1, <1>2 DEF NextAt
  <2> QED
    BY <1>2, <2>1 DEF IsMem, SameBut
<1>3. CASE m.pass = 0 /\ m.at = 6
  <2> DEFINE h == m.high
             k == [m EXCEPT !.pass = 1]
             n == [k EXCEPT !.before = h]
  <2>1. NextAt(m) = n
    BY <1>1, <1>3 DEF NextAt
  <2>2. SameBut(k, m) /\ k.at = m.at /\ k.pass = 1
    BY DEF IsMem, SameBut
  <2> HIDE DEF h, k
  <2>3. SameBut(n, k) /\ n.at = k.at /\ n.pass = k.pass
    BY <2>2 DEF IsMem, SameBut
  <2> HIDE DEF n
  <2>4. SameBut(n, m)
    BY <2>2, <2>3 DEF SameBut
  <2> QED
    BY <1>3, <2>1, <2>2, <2>3, <2>4
<1>4. CASE m.pass = 1
  <2>1. NextAt(m) = [m EXCEPT !.at = m.at - 1]
    BY <1>4 DEF NextAt
  <2> QED
    BY <1>4, <2>1 DEF IsMem, SameBut
<1> QED
  BY <1>2, <1>3, <1>4

(* A file has had its turn: it has been written, or was inside as it is.   *)
Settled ==
    /\ mem.pass = 1 \/ mem.at >= 2 => Inside(MftMirr)'
    /\ mem.pass = 1 \/ mem.at = 6 => Inside(File)'
    /\ mem.pass = 1 /\ mem.at <= 5 => Inside(MftExt)'
    /\ mem.pass = 1 /\ mem.at = 1 => Inside(Mft)'
    /\ mem.pass = 0 \/ mem.at = 6 \/ (~split /\ mem.at > 1) => Unread'
    /\ mem.pass = 1 /\ mem.at > 1 /\ mem.at <= 5 /\ split => At(Mft)'.map[2] = mem'.mft[2]

(* When a file has had its turn the next one has it, or all are inside.    *)
LEMMA TurnEnds ==
    ASSUME NEW m, split \in BOOLEAN, split' = split, IsMem(m),
           mem.at \in 1..6, mem.pass \in {0, 1}, m.at = mem.at, m.pass = mem.pass,
           m.relocations, m.high = HighBehind, Settled,
           IF EndsPass(m) THEN pc' = "badclus" /\ mem' = m ELSE pc' = "inode" /\ mem' = NextAt(m)
    PROVE  /\ Turning' /\ Ended' /\ SameBut(mem', m) /\ pc' \in {"inode", "badclus"}
           /\ pc' = "inode" /\ mem'.pass = 0 /\ mem'.at <= 2 => mem.at = 1 /\ mem.pass = 0
<1>1. EndsPass(m) <=> mem.pass = 1 /\ mem.at = 1
  BY DEF EndsPass, HighBehind
<1>2. CASE EndsPass(m)
  <2>1. pc' = "badclus" /\ mem' = m
    BY <1>2
  <2>2. SameBut(mem', m)
    BY <2>1 DEF SameBut
  <2>3. Turning'
    BY <2>1, Phases DEF Turning
  <2>4. \A f \in Owners \ {Bitmap} : Inside(f)'
    BY <1>1, <1>2 DEF Settled, Owners
  <2>5. Ended'
    BY <2>4 DEF Ended
  <2> QED
    BY <2>1, <2>2, <2>3, <2>5
<1>3. CASE ~EndsPass(m)
  <2>1. pc' = "inode" /\ mem' = NextAt(m)
    BY <1>3
  <2>2. /\ SameBut(mem', m)
        /\ mem.pass = 0 /\ mem.at < 6 => mem'.at = mem.at + 1 /\ mem'.pass = 0
        /\ mem.pass = 0 /\ mem.at = 6 => mem'.at = 6 /\ mem'.pass = 1
        /\ mem.pass = 1 /\ mem.at > 1 => mem'.at = mem.at - 1 /\ mem'.pass = 1
    <3> DEFINE t == NextAt(m)
    <3>1. /\ SameBut(t, m)
          /\ m.pass = 0 /\ m.at < 6 => t.at = m.at + 1 /\ t.pass = 0
          /\ m.pass = 0 /\ m.at = 6 => t.at = 6 /\ t.pass = 1
          /\ m.pass = 1 /\ m.at > 1 => t.at = m.at - 1 /\ t.pass = 1
      BY NextAtIs
    <3>2. mem' = t
      BY <2>1
    <3> HIDE DEF t
    <3> QED
      BY <3>1, <3>2
  <2>3. pc' \notin Moving /\ pc' \in Turns /\ pc' \notin Late
    BY <2>1, Phases
  <2>4. Ended'
    BY <2>1, <2>3 DEF Ended
  <2>5. mem'.relocations /\ mem'.high = HighBehind
    BY <2>2 DEF SameBut
  <2>6. CASE mem.pass = 0 /\ mem.at < 6
    <3>1. mem'.at = mem.at + 1 /\ mem'.pass = 0 /\ mem'.at \in 1..6 /\ mem'.at > 1
      BY <2>2, <2>6
    <3>2. mem'.high = IF mem'.at = 1 THEN 0 ELSE IF split' /\ mem'.at <= 5 THEN 1 ELSE 2
      BY <2>5, <2>6, <3>1 DEF HighBehind
    <3>3. Unread' /\ (mem'.at > 2 => Inside(MftMirr)')
      BY <2>6, <3>1 DEF Settled
    <3>4. Turning'
      BY <2>1, <2>3, <2>5, <3>1, <3>2, <3>3 DEF Turning
    <3> QED
      BY <2>1, <2>2, <2>4, <2>6, <3>1, <3>4
  <2>7. CASE mem.pass = 0 /\ mem.at = 6
    <3>1. mem'.at = 6 /\ mem'.pass = 1
      BY <2>2, <2>7
    <3>2. mem'.high = 2
      BY <2>5, <2>7 DEF HighBehind
    <3>3. Unread' /\ Inside(MftMirr)' /\ Inside(File)'
      BY <2>7 DEF Settled
    <3>4. Turning'
      BY <2>1, <2>3, <2>5, <3>1, <3>2, <3>3 DEF Turning
    <3> QED
      BY <2>1, <2>2, <2>4, <3>1, <3>4
  <2>8. CASE mem.pass = 1
    <3>1. mem.at > 1 /\ mem'.at = mem.at - 1 /\ mem'.pass = 1 /\ mem'.at \in 1..5
      BY <1>1, <1>3, <2>2, <2>8
    <3>2. mem'.high = IF ~split' \/ mem'.at >= 5 THEN 2 ELSE 1
      BY <2>5, <2>8, <3>1 DEF HighBehind
    <3>3. /\ Inside(MftMirr)' /\ Inside(File)'
          /\ mem'.at >= 5 \/ ~split' => Unread'
          /\ mem'.at < 5 => Inside(MftExt)'
          /\ mem'.at < 5 /\ split' => At(Mft)'.map[2] = mem'.mft[2]
      BY <2>8, <3>1 DEF Settled
    <3>4. Turning'
      BY <2>1, <2>3, <2>5, <3>1, <3>2, <3>3 DEF Turning
    <3> QED
      BY <2>1, <2>2, <2>4, <3>1, <3>4
  <2> QED
    BY <2>6, <2>7, <2>8
<1> QED
  BY <1>2, <1>3

(* A record with no run outside, or an extent that is not there, is        *)
(* inside.                                                                 *)
LEMMA InsideIs ==
    ASSUME Layout, NEW f \in Records, mem.new \in Nat
    PROVE  /\ Outside(At(f)) = {} => Inside(f)
           /\ f = MftExt /\ ~split => Inside(f)
<1>1. /\ Len(At(f).map) = Length(f) /\ \A v \in 1..Length(f) : At(f).map[v] \in Nat
      /\ \A c \in Img(At(f).map) : \E v \in 1..Length(f) : c = At(f).map[v]
  <2>1. /\ Len(At(f).map) = Length(f) /\ \A v \in 1..Length(f) : At(f).map[v] \in Clusters
        /\ \A c \in Img(At(f).map) : \E v \in 1..Length(f) : c = At(f).map[v]
    BY MapsAre
  <2>2. Clusters \subseteq Nat
    BY DEF Clusters
  <2> QED
    BY <2>1, <2>2
<1>2. ASSUME Outside(At(f)) = {} PROVE Inside(f)
  <2>1. \A v \in 1..Length(f) : ~(At(f).map[v] >= mem.new)
    BY <1>1, <1>2 DEF Outside
  <2>2. \A v \in 1..Length(f) : At(f).map[v] < mem.new
    BY <1>1, <2>1
  <2> QED
    BY <1>1, <2>2 DEF Inside
<1>3. ASSUME f = MftExt, ~split PROVE Inside(f)
  BY <1>1, <1>3, LengthsAre DEF Inside
<1> QED
  BY <1>2, <1>3

(* The run to be moved of the record that is being changed.                *)
LEMMA RunsAre ==
    (/\ Length(Now) \in Nat /\ IsRec(mem.rec, Length(Now))
     /\ Outside(mem.rec) # {} /\ mem.new \in Nat) => IsRun(Length(Now))
BY RunIs

(* The same behind a step.                                                 *)
LEMMA RunsAreNext ==
    ((/\ Length(Now) \in Nat /\ IsRec(mem.rec, Length(Now))
      /\ Outside(mem.rec) # {} /\ mem.new \in Nat) => IsRun(Length(Now)))'
BY RunsAre, PTL

(* relocate_inode *)
LEMMA TakeInodeKeeps ==
    ASSUME IInv, TakeInode
    PROVE  IInv'
<1> DEFINE m == [mem EXCEPT !.high = HighAfter(Now)]
<1>0. mem.at # 0
  <2>1. pc = "inode"
    BY DEF TakeInode, In
  <2>2. Turning /\ pc \in Turns
    BY <2>1, Phases DEF IInv, Task, Running
  <2>3. mem.at \in 1..6
    BY <2>2 DEF Turning
  <2> QED
    BY <2>3
<1>1. /\ behind = {} /\ behind' = {}
      /\ pc = "inode" /\ cell' = cell /\ boot' = boot /\ dirty' = dirty /\ split' = split
      /\ IF Taken(Now) /\ Outside(MemRec(Now)) # {}
         THEN mem' = [m EXCEPT !.rec = MemRec(Now)] /\ pc' = "allocate"
         ELSE IF EndsPass(m) THEN mem' = m /\ pc' = "badclus"
         ELSE mem' = NextAt(m) /\ pc' = "inode"
  BY <1>0 DEF TakeInode, In, disk, Now
<1>2. /\ Running /\ Layout /\ Apart /\ Program /\ Reserved /\ Turning /\ Mirror /\ Plain
      /\ Marked /\ dirty
  BY <1>1 DEF IInv, Disk, Task, Running, Marked
<1>3. pc \notin Moving /\ pc \in Early /\ pc \in Turns
  BY <1>1, Phases
<1>4. /\ mem.at \in 1..6 /\ mem.pass \in {0, 1} /\ mem.relocations /\ mem.high = HighBefore
      /\ mem.pass = 1 \/ mem.at > 2 => Inside(MftMirr)
      /\ mem.pass = 1 => Inside(File)
      /\ mem.pass = 0 \/ mem.at >= 5 \/ ~split => Unread
      /\ mem.pass = 1 /\ mem.at < 5 => Inside(MftExt)
      /\ mem.pass = 1 /\ mem.at < 5 /\ split => At(Mft).map[2] = mem.mft[2]
  BY <1>1, <1>2, <1>3 DEF Turning, HighBefore
<1>5. HighAfter(Now) = HighBehind /\ (Taken(Now) <=> TakenNow)
  BY <1>2, <1>4, TakeIs
<1>6. IsMem(mem) /\ mem.pos \in Nat /\ mem.new \in Nat
  BY <1>2, ResizeAssumption DEF Program
<1>7. IsMem(m) /\ SameBut(m, [mem EXCEPT !.high = HighBehind]) /\ m.at = mem.at /\ m.pass = mem.pass
      /\ m.high = HighBehind /\ m.new = mem.new /\ m.mft = mem.mft /\ m.mirr = mem.mirr
      /\ m.bm = mem.bm /\ m.pos = mem.pos /\ m.relocations = mem.relocations
      /\ m.dest = mem.dest /\ m.copied = mem.copied /\ m.moved = mem.moved
  <2> DEFINE h == HighBehind
  <2>1. m = [mem EXCEPT !.high = h]
    BY <1>5
  <2> HIDE DEF m, h
  <2>2. IsMem(m) /\ m.at = mem.at /\ m.pass = mem.pass
        /\ m.high = h /\ m.new = mem.new /\ m.mft = mem.mft /\ m.mirr = mem.mirr
        /\ m.bm = mem.bm /\ m.pos = mem.pos /\ m.relocations = mem.relocations
        /\ m.dest = mem.dest /\ m.copied = mem.copied /\ m.moved = mem.moved
    BY <1>6, <2>1 DEF IsMem
  <2>3. SameBut(m, m)
    BY <2>2 DEF SameBut
  <2>4. m = [mem EXCEPT !.high = HighBehind]
    BY <2>1 DEF h
  <2> QED
    BY <2>2, <2>3, <2>4 DEF h
<1>8. \A f : MemRec(f) = At(f)
  BY <1>2, MemRecIs
<1>9. /\ Now \in Records
      /\ (mem.at = 2 <=> Now = MftMirr) /\ (mem.at = 1 <=> Now = Mft) /\ (mem.at = 5 <=> Now = MftExt)
      /\ (mem.at = 6 <=> Now = File)
  BY <1>4, RecordsAre, NamesApart DEF Now
<1> HIDE DEF m
<1>10. CASE Taken(Now) /\ Outside(MemRec(Now)) # {}
  <2>1. mem' = [m EXCEPT !.rec = At(Now)] /\ pc' = "allocate" /\ Outside(At(Now)) # {} /\ TakenNow
    BY <1>1, <1>5, <1>8, <1>10
  <2>2. /\ IsMem(mem') /\ mem'.at = mem.at /\ mem'.pass = mem.pass
        /\ mem'.high = HighBehind /\ mem'.new = mem.new /\ mem'.mft = mem.mft /\ mem'.mirr = mem.mirr
        /\ mem'.bm = mem.bm /\ mem'.pos = mem.pos /\ mem'.relocations = mem.relocations
        /\ mem'.dest = mem.dest /\ mem'.copied = mem.copied /\ mem'.moved = mem.moved
        /\ mem'.rec = At(Now)
    <3> DEFINE r == At(Now)
    <3>1. mem' = [m EXCEPT !.rec = r]
      BY <2>1
    <3> HIDE DEF r
    <3>2. /\ IsMem(mem') /\ mem'.at = m.at /\ mem'.pass = m.pass
          /\ mem'.high = m.high /\ mem'.new = m.new /\ mem'.mft = m.mft /\ mem'.mirr = m.mirr
          /\ mem'.bm = m.bm /\ mem'.pos = m.pos /\ mem'.relocations = m.relocations
          /\ mem'.dest = m.dest /\ mem'.copied = m.copied /\ mem'.moved = m.moved
          /\ mem'.rec = r
      BY <1>7, <3>1 DEF IsMem
    <3> QED
      BY <1>7, <3>2 DEF r
  <2>3. Kept
    BY <1>1, <1>2, <1>6, <2>1, <2>2 DEF Kept
  <2>4. /\ Layout' /\ Running' /\ Program' /\ Home' = Home
        /\ \A f \in Records : At(f)' = At(f)
        /\ \A f \in Records : Length(f)' = Length(f)
        /\ \A v : Spot(v)' = Spot(v)
        /\ \A f \in Owners : Old(f)' = Old(f) /\ Img(At(f).map)' = Img(At(f).map)
    BY <1>1, <1>2, <2>3, CellsAre, FrameStep
  <2>5. Now' = Now
    BY <2>2 DEF Now
  <2>6. pc' \in Moving /\ pc' \in Early /\ pc' \in Turns /\ pc' \notin Late
    BY <2>1, Phases
  <2>7. mem.dest = <<>> /\ mem.copied = 0
    BY <1>1, <1>2 DEF Plain
  <2>8. \A f \in Owners : New(f)' = IF f = Now THEN Img(At(Now).map) ELSE {}
    <3>1. Img(mem.dest)' = {} /\ Img(mem.rec.map)' = Img(At(Now).map)
      <4>1. mem'.dest = <<>> /\ mem'.rec.map = At(Now).map
        BY <2>2, <2>7
      <4>2. Img(mem'.dest) = {}
        BY <4>1, EmptyMap
      <4> QED
        BY <4>1, <4>2 DEF Img
    <3> QED
      BY <2>5, <2>6, <3>1 DEF New
  <2>9. \A f \in Owners : Hold(f)' \subseteq Hold(f)
    BY <2>4, <2>8 DEF Hold
  <2>10. Apart'
    BY <1>1, <1>2, <2>4, <2>9, ApartStays
  <2>11. Marked' /\ Idles'
    BY <1>1, <1>2, <2>1 DEF Marked, Idles
  <2>12. Reserved'
    <3>1. \A f : New(f) = {}
      BY <1>3, NotMoving
    <3> QED
      BY <1>1, <1>2, <1>3, <2>2, <2>4, <2>9, <3>1, ReservedStays
  <2>13. (\A f \in Records : Inside(f)' = Inside(f)) /\ Unread' = Unread /\ Still' = Still
    BY <2>2, <2>4, SaysStay
  <2>14. Turning'
    <3>1. mem'.pass = 0 =>
              /\ mem'.high = IF mem'.at = 1 THEN 0 ELSE IF split' /\ mem'.at <= 5 THEN 1 ELSE 2
              /\ mem'.at \in {2, 6}
      BY <1>1, <1>4, <2>1, <2>2 DEF HighBehind, TakenNow
    <3>2. mem'.pass = 1 => (mem'.at = 1 /\ mem'.high = 0) \/ (split' /\ mem'.at = 5 /\ mem'.high = 1)
      BY <1>1, <1>4, <2>1, <2>2 DEF HighBehind, TakenNow
    <3>3. /\ mem'.pass = 1 \/ mem'.at > 2 => Inside(MftMirr)'
          /\ mem'.pass = 1 => Inside(File)'
          /\ mem'.pass = 0 \/ mem'.at >= 5 \/ ~split' => Unread'
          /\ mem'.pass = 1 /\ mem'.at < 5 => Inside(MftExt)'
          /\ mem'.pass = 1 /\ mem'.at < 5 /\ split' => At(Mft)'.map[2] = mem'.mft[2]
      BY <1>1, <1>4, <2>2, <2>4, <2>13, RecordsAre
    <3> QED
      BY <1>4, <2>1, <2>2, <3>1, <3>2, <3>3 DEF Turning
  <2>15. Preparing' /\ Ended' /\ Plain' /\ Ending'
    BY <1>2, <2>1, <2>2, <2>6, <2>7 DEF Preparing, Ended, Plain, Ending
  <2>16. Mirror'
    <3>1. CASE Now = MftMirr
      <4>1. mem.at = 2 /\ mem.pass = 0
        BY <1>4, <1>9, <2>1, <3>1 DEF TakenNow
      <4>2. mem.moved = Unmoved /\ Still
        BY <1>1, <1>2, <4>1 DEF Mirror
      <4>3. mem'.moved = Unmoved' /\ Still'
        BY <2>2, <2>13, <4>2 DEF Unmoved
      <4> QED
        BY <4>3 DEF Mirror
    <3>2. CASE Now # MftMirr
      <4>1. At(MftMirr)' = At(MftMirr)
        BY <2>4, RecordsAre
      <4> QED
        BY <1>2, <1>3, <2>1, <2>2, <2>5, <3>2, <4>1, MirrorStays
    <3> QED
      BY <3>1, <3>2
  <2>17. Working'
    <3> DEFINE r == At(Now)
    <3>1. IsRec(r, Length(Now)) /\ Once(r.map) /\ Length(Now)' = Length(Now) /\ At(Now)' = r
          /\ Length(Now) \in Nat
      BY <1>2, <1>9, <2>4, <2>5, LengthsAre DEF Layout
    <3>2. IsRec(mem.rec, Length(Now))' /\ Once(mem.rec.map)' /\ mem'.rec.size = At(Now)'.size
      BY <2>2, <3>1 DEF IsRec, Once, Clusters
    <3>3. mem'.dest = <<>> /\ mem'.dest \in Seq(Clusters)' /\ Once(mem.dest)' /\ Img(mem.dest)' = {}
      <4>1. mem'.dest = <<>>
        BY <2>2, <2>7
      <4>2. mem'.dest \in Seq(Clusters) /\ Once(mem'.dest) /\ Img(mem'.dest) = {}
        BY <4>1, EmptyMap
      <4> QED
        BY <4>1, <4>2 DEF Once, Img, Clusters
    <3>4. Outside(mem.rec)' # {}
      BY <2>1, <2>2 DEF Outside
    <3>5. Len(mem'.dest) < RunLen'
      <4>1. IsRun(Length(Now))'
        <5>1. Length(Now)' \in Nat /\ mem'.new \in Nat
          BY <1>6, <2>2, <3>1
        <5> QED
          BY <3>2, <3>4, <5>1, RunsAreNext
      <4>2. RunLen' \in 1..Length(Now)' + 1 - RunAt' /\ Len(mem'.dest) = 0
        BY <3>3, <4>1 DEF IsRun
      <4> QED
        BY <4>2
    <3>6. Now' = MftMirr => mem'.moved = Unmoved'
      <4> SUFFICES ASSUME Now = MftMirr PROVE mem'.moved = Unmoved'
        BY <2>5
      <4>1. mem.at = 2 /\ mem.pass = 0
        BY <1>4, <1>9, <2>1 DEF TakenNow
      <4> QED
        BY <1>1, <1>2, <2>2, <4>1 DEF Mirror, Unmoved
    <3> HIDE DEF r
    <3>7. mem'.rec = r /\ mem'.rec.map = At(Now)'.map /\ Now' = Now /\ At(Now)' = r
      BY <2>2, <2>5, <3>1 DEF r
    <3> QED
      BY <2>1, <3>2, <3>3, <3>4, <3>5, <3>6, <3>7 DEF Working
  <2> QED
    BY <2>4, <2>10, <2>11, <2>12, <2>14, <2>15, <2>16, <2>17 DEF IInv, Disk, Task
<1>11. CASE ~(Taken(Now) /\ Outside(MemRec(Now)) # {})
  <2>1. IF EndsPass(m) THEN pc' = "badclus" /\ mem' = m ELSE pc' = "inode" /\ mem' = NextAt(m)
    BY <1>1, <1>11
  <2>2. SameBut(mem', m) /\ pc' \in {"inode", "badclus"}
    <3>1. CASE EndsPass(m)
      BY <1>7, <2>1, <3>1 DEF SameBut
    <3>2. CASE ~EndsPass(m)
      <4>1. SameBut(NextAt(m), m)
        BY <1>4, <1>7, NextAtIs
      <4> QED
        BY <2>1, <3>2, <4>1
    <3> QED
      BY <3>1, <3>2
  <2>3. /\ IsMem(mem') /\ mem'.new = mem.new /\ mem'.mft = mem.mft /\ mem'.mirr = mem.mirr
        /\ mem'.bm = mem.bm /\ mem'.pos = mem.pos /\ mem'.relocations = mem.relocations
        /\ mem'.dest = mem.dest /\ mem'.copied = mem.copied /\ mem'.moved = mem.moved
    BY <1>7, <2>2 DEF SameBut
  <2>4. pc' \notin {"off", "done"} /\ pc' \notin Moving /\ pc' \in Early /\ pc' \notin Late
    BY <2>2, Phases
  <2>5. Kept
    BY <1>1, <1>2, <1>6, <2>3, <2>4 DEF Kept
  <2>6. /\ Layout' /\ Running' /\ Program' /\ Home' = Home
        /\ \A f \in Records : At(f)' = At(f)
        /\ \A v : Spot(v)' = Spot(v)
        /\ \A f \in Owners : Old(f)' = Old(f) /\ Img(At(f).map)' = Img(At(f).map)
    BY <1>1, <1>2, <2>5, CellsAre, FrameStep
  <2>7. (\A f : New(f) = {}) /\ (\A f : New(f)' = {}) /\ Working'
    BY <1>3, <2>4, NotMoving DEF New, Working
  <2>8. \A f \in Owners : Hold(f)' \subseteq Hold(f)
    BY <2>6, <2>7, HoldStays
  <2>9. Apart'
    BY <1>1, <1>2, <2>6, <2>8, ApartStays
  <2>10. Marked' /\ Idles'
    BY <1>1, <1>2, <2>2, Phases DEF Marked, Idles
  <2>11. Reserved'
    BY <1>1, <1>2, <1>3, <2>3, <2>6, <2>7, <2>8, ReservedStays
  <2>12. (\A f \in Records : Inside(f)' = Inside(f)) /\ Unread' = Unread /\ Still' = Still
    BY <2>3, <2>6, SaysStay
  <2>13. Settled
    <3>1. TakenNow => Inside(Now)
      <4> SUFFICES ASSUME TakenNow PROVE Inside(Now)
        OBVIOUS
      <4>1. Outside(At(Now)) = {}
        BY <1>5, <1>8, <1>11
      <4> QED
        BY <1>2, <1>6, <1>9, <4>1, InsideIs
    <3>2. ~split => Inside(MftExt)
      BY <1>2, <1>6, InsideIs, RecordsAre
    <3>3. mem.pass = 1 \/ mem.at >= 2 => Inside(MftMirr)
      BY <1>4, <1>9, <3>1 DEF TakenNow
    <3>4. mem.pass = 1 \/ mem.at = 6 => Inside(File)
      BY <1>4, <1>9, <3>1 DEF TakenNow
    <3>5. mem.pass = 1 /\ mem.at <= 5 => Inside(MftExt)
      BY <1>4, <1>9, <3>1, <3>2 DEF TakenNow
    <3>6. mem.pass = 1 /\ mem.at = 1 => Inside(Mft)
      BY <1>4, <1>9, <3>1 DEF TakenNow
    <3>7. mem.pass = 0 \/ mem.at = 6 \/ (~split /\ mem.at > 1) => Unread
      BY <1>4
    <3>8. mem.pass = 1 /\ mem.at > 1 /\ mem.at <= 5 /\ split => At(Mft)'.map[2] = mem'.mft[2]
      <4> SUFFICES ASSUME mem.pass = 1, mem.at > 1, mem.at <= 5, split PROVE At(Mft).map[2] = mem.mft[2]
        BY <2>3, <2>6, RecordsAre
      <4>1. CASE mem.at < 5
        BY <1>4, <4>1
      <4>2. CASE mem.at = 5
        <5>1. Spot(2) = mem.mft[2]
          BY <1>4, <4>2 DEF Unread
        <5> QED
          BY <5>1 DEF Spot
      <4> QED
        BY <1>4, <4>1, <4>2
    <3> QED
      BY <2>12, <3>3, <3>4, <3>5, <3>6, <3>7, <3>8, RecordsAre DEF Settled
  <2>14. /\ Turning' /\ Ended'
         /\ pc' = "inode" /\ mem'.pass = 0 /\ mem'.at <= 2 => mem.at = 1 /\ mem.pass = 0
    <3>1. split \in BOOLEAN /\ split' = split
      BY <1>1, <1>2 DEF Layout
    <3>2. m.relocations
      BY <1>4, <1>7
    <3> QED
      BY <1>4, <1>7, <2>1, <2>13, <3>1, <3>2, TurnEnds
  <2>15. Preparing' /\ Plain' /\ Ending'
    BY <1>1, <1>2, <2>2, <2>3, <2>4, Phases DEF Preparing, Plain, Ending
  <2>16. Mirror'
    <3>1. pc' = "prepare" \/ (pc' = "inode" /\ mem'.pass = 0 /\ mem'.at <= 2) => mem.moved = Unmoved
      BY <1>1, <1>2, <2>2, <2>14 DEF Mirror
    <3>2. At(MftMirr)' = At(MftMirr)
      BY <2>6, RecordsAre
    <3> QED
      BY <1>2, <1>3, <2>3, <2>4, <3>1, <3>2, MirrorStays
  <2> QED
    BY <2>6, <2>7, <2>9, <2>10, <2>11, <2>14, <2>15, <2>16 DEF IInv, Disk, Task
<1> QED
  BY <1>10, <1>11

(* Neighbours from l on are put behind the clusters d.                     *)
Appended(t, d, l, k) ==
    /\ t \in Seq(Clusters) /\ Len(t) = Len(d) + k /\ Len(d) \in Nat
    /\ \A i \in 1..Len(d) : t[i] = d[i]
    /\ \A j \in 1..k : t[Len(d) + j] = l + j - 1
    /\ Img(t) = Img(d) \union l..l + k - 1
    /\ Once(d) /\ Img(d) \intersect l..l + k - 1 = {} => Once(t)

(* Putting neighbours behind the clusters found so far.                    *)
LEMMA AppendIs ==
    ASSUME NEW d \in Seq(Clusters), NEW l \in Nat, NEW k \in Nat \ {0}, NEW t,
           (l..l + k - 1) \subseteq Clusters, t = d \o [i \in 1..k |-> l + i - 1]
    PROVE  Appended(t, d, l, k)
<1> DEFINE u == [i \in 1..k |-> l + i - 1]
<1>1. u \in [1..k -> Clusters] /\ \A j \in 1..k : u[j] = l + j - 1
  <2>1. \A j \in 1..k : l + j - 1 \in Clusters
    <3> TAKE j \in 1..k
    <3>1. l + j - 1 \in l..l + k - 1
      OBVIOUS
    <3> QED
      BY <3>1
  <2> QED
    BY <2>1
<1> HIDE DEF u
<1>2. u \in Seq(Clusters) /\ Len(u) = k
  BY <1>1, FunIsSeq
<1>3. t = d \o u
  BY DEF u
<1>4. /\ d \o u \in Seq(Clusters) /\ Len(d \o u) = Len(d) + Len(u)
      /\ \A i \in 1..Len(d) + Len(u) : (d \o u)[i] = IF i <= Len(d) THEN d[i] ELSE u[i - Len(d)]
  BY <1>2, ConcatProperties, ZenonT(30)
<1>5. /\ t \in Seq(Clusters) /\ Len(t) = Len(d) + k /\ Len(d) \in Nat /\ DOMAIN t = 1..Len(d) + k
      /\ DOMAIN d = 1..Len(d)
      /\ \A i \in 1..Len(d) + k : t[i] = IF i <= Len(d) THEN d[i] ELSE u[i - Len(d)]
  <2>1. t \in Seq(Clusters) /\ Len(t) = Len(d) + k
    BY <1>2, <1>3, <1>4, Zenon
  <2>2. Len(d) \in Nat /\ DOMAIN d = 1..Len(d)
    OBVIOUS
  <2>3. DOMAIN t = 1..Len(t)
    BY <2>1
  <2>4. \A i \in 1..Len(d) + k : t[i] = IF i <= Len(d) THEN d[i] ELSE u[i - Len(d)]
    BY <1>2, <1>3, <1>4, Zenon
  <2> QED
    BY <2>1, <2>2, <2>3, <2>4
<1> DEFINE n == Len(d)
<1> HIDE DEF n
<1>6. n \in Nat /\ DOMAIN t = 1..n + k /\ DOMAIN d = 1..n
      /\ \A i \in 1..n + k : t[i] = IF i <= n THEN d[i] ELSE u[i - n]
  BY <1>5 DEF n
<1>7. \A i \in 1..n : t[i] = d[i]
  BY <1>6
<1>8. \A j \in 1..k : t[n + j] = l + j - 1 /\ n + j \in DOMAIN t
  <2> TAKE j \in 1..k
  <2>1. n + j \in 1..n + k /\ ~(n + j <= n) /\ n + j - n = j
    BY <1>6
  <2> QED
    BY <1>1, <1>6, <2>1
<1>9. \A i \in 1..n + k : i \in 1..n \/ \E j \in 1..k : i = n + j
  <2> SUFFICES ASSUME NEW i \in 1..n + k, i \notin 1..n PROVE \E j \in 1..k : i = n + j
    OBVIOUS
  <2>1. i - n \in 1..k /\ i = n + (i - n)
    BY <1>6
  <2> QED
    BY <2>1
<1>10. Img(t) = Img(d) \union l..l + k - 1
  <2>1. ASSUME NEW c \in Img(t) PROVE c \in Img(d) \union l..l + k - 1
    <3>1. PICK i \in 1..n + k : c = t[i]
      BY <1>6 DEF Img
    <3>2. CASE i \in 1..n
      BY <1>6, <1>7, <3>1, <3>2 DEF Img
    <3>3. CASE \E j \in 1..k : i = n + j
      <4>1. PICK j \in 1..k : i = n + j
        BY <3>3
      <4>2. c = l + j - 1
        BY <1>8, <3>1, <4>1
      <4> QED
        BY <4>2
    <3> QED
      BY <1>9, <3>2, <3>3
  <2>2. ASSUME NEW c \in Img(d) PROVE c \in Img(t)
    <3>1. PICK i \in 1..n : c = d[i]
      BY <1>6 DEF Img
    <3>2. i \in DOMAIN t /\ t[i] = c
      BY <1>6, <1>7, <3>1
    <3> QED
      BY <3>2 DEF Img
  <2>3. ASSUME NEW c \in l..l + k - 1 PROVE c \in Img(t)
    <3>1. c - l + 1 \in 1..k /\ c = l + (c - l + 1) - 1
      OBVIOUS
    <3>2. t[n + (c - l + 1)] = c /\ n + (c - l + 1) \in DOMAIN t
      BY <1>8, <3>1
    <3> QED
      BY <3>2 DEF Img
  <2> QED
    BY <2>1, <2>2, <2>3
<1>11. ASSUME Once(d), Img(d) \intersect l..l + k - 1 = {}
       PROVE  Once(t)
  <2> SUFFICES ASSUME NEW i \in 1..n + k, NEW j \in 1..n + k, t[i] = t[j] PROVE i = j
    BY <1>6 DEF Once
  <2>1. CASE i \in 1..n /\ j \in 1..n
    BY <1>6, <1>7, <1>11, <2>1 DEF Once
  <2>2. CASE i \in 1..n /\ j \notin 1..n
    <3>1. PICK b \in 1..k : j = n + b
      BY <1>9, <2>2
    <3>2. t[j] = l + b - 1
      BY <1>8, <3>1
    <3>4. l + b - 1 \in l..l + k - 1
      OBVIOUS
    <3>3. t[i] \in Img(d)
      BY <1>6, <1>7, <2>2 DEF Img
    <3> QED
      BY <1>11, <3>2, <3>3, <3>4
  <2>3. CASE i \notin 1..n /\ j \in 1..n
    <3>1. PICK b \in 1..k : i = n + b
      BY <1>9, <2>3
    <3>2. t[i] = l + b - 1
      BY <1>8, <3>1
    <3>4. l + b - 1 \in l..l + k - 1
      OBVIOUS
    <3>3. t[j] \in Img(d)
      BY <1>6, <1>7, <2>3 DEF Img
    <3> QED
      BY <1>11, <3>2, <3>3, <3>4
  <2>4. CASE i \notin 1..n /\ j \notin 1..n
    <3>1. PICK a \in 1..k : i = n + a
      BY <1>9, <2>4
    <3>2. PICK b \in 1..k : j = n + b
      BY <1>9, <2>4
    <3>3. l + a - 1 = l + b - 1
      BY <1>8, <3>1, <3>2
    <3> QED
      BY <3>1, <3>2, <3>3
  <2> QED
    BY <2>1, <2>2, <2>3, <2>4
<1> QED
  BY <1>5, <1>6, <1>7, <1>8, <1>10, <1>11 DEF n, Appended

(* The file whose clusters are moved.                                      *)
LEMMA NowIs ==
    ASSUME Turning, pc \in Moving
    PROVE  /\ mem.at \in {1, 2, 5, 6} /\ Now \in Owners /\ Now \in Records /\ Now # Bitmap /\ Now # BadClus
           /\ (mem.at = 2 <=> Now = MftMirr) /\ (mem.at = 1 <=> Now = Mft) /\ (mem.at = 5 <=> Now = MftExt)
           /\ (mem.at = 6 <=> Now = File)
           /\ mem.relocations /\ mem.pass \in {0, 1} /\ mem.at \in 1..6
<1>1. /\ mem.at \in 1..6 /\ mem.pass \in {0, 1} /\ mem.relocations
      /\ mem.pass = 0 => mem.at \in {2, 6}
      /\ mem.pass = 1 => mem.at \in {1, 5}
  BY Phases DEF Turning
<1> QED
  BY <1>1, RecordsAre, NamesApart DEF Now, Owners

(* A step within the turn of a file leaves the turns as they are.          *)
LEMMA TurnGoesOn ==
    ASSUME Turning, pc \in Moving, pc' \in Moving, split' = split,
           mem'.at = mem.at, mem'.pass = mem.pass, mem'.high = mem.high,
           mem'.relocations = mem.relocations, mem'.new = mem.new, mem'.mft = mem.mft, mem'.mirr = mem.mirr,
           \A f \in Records : At(f)' = At(f), \A v : Spot(v)' = Spot(v)
    PROVE  Turning'
<1>1. (\A f \in Records : Inside(f)' = Inside(f)) /\ Unread' = Unread
  BY SaysStay
<1>2. {Mft, MftExt, MftMirr, File} \subseteq Records
  BY RecordsAre
<1>3. pc \in Turns /\ pc' # "inode"
  BY Phases
<1>4. /\ mem'.pass = 1 \/ mem'.at > 2 => Inside(MftMirr)'
      /\ mem'.pass = 1 => Inside(File)'
      /\ mem'.pass = 0 \/ mem'.at >= 5 \/ ~split' => Unread'
      /\ mem'.pass = 1 /\ mem'.at < 5 => Inside(MftExt)'
      /\ mem'.pass = 1 /\ mem'.at < 5 /\ split' => At(Mft)'.map[2] = mem'.mft[2]
  BY <1>1, <1>2, <1>3 DEF Turning
<1>5. /\ mem'.at \in 1..6 /\ mem'.pass \in {0, 1} /\ mem'.relocations
      /\ mem'.pass = 0 =>
              /\ mem'.high = IF mem'.at = 1 THEN 0 ELSE IF split' /\ mem'.at <= 5 THEN 1 ELSE 2
              /\ mem'.at \in {2, 6}
      /\ mem'.pass = 1 => (mem'.at = 1 /\ mem'.high = 0) \/ (split' /\ mem'.at = 5 /\ mem'.high = 1)
  BY <1>3 DEF Turning
<1> QED
  BY <1>3, <1>4, <1>5 DEF Turning

(* What Allocate does with the run r it has found.                         *)
Items == RunLen - Len(mem.dest)
Fresh(r) == r.lcn..r.lcn + r.len - 1
Taking(r) ==
    /\ pc = "allocate" /\ cell' = cell /\ boot' = boot /\ dirty' = dirty /\ split' = split
    /\ behind' = behind
    /\ IsMem(mem') /\ mem'.new = mem.new /\ mem'.mft = mem.mft /\ mem'.mirr = mem.mirr
    /\ mem'.relocations = mem.relocations /\ mem'.at = mem.at /\ mem'.pass = mem.pass
    /\ mem'.high = mem.high /\ mem'.rec = mem.rec /\ mem'.copied = mem.copied
    /\ mem'.pos \in Nat
    /\ mem'.bm = mem.bm \union Fresh(r)
    /\ mem'.dest = mem.dest \o [i \in 1..r.len |-> r.lcn + i - 1]
    /\ mem'.moved = IF Now = MftMirr /\ mem.moved = Unmoved
                    THEN [old |-> mem.rec.map[RunAt], lcn |-> r.lcn, len |-> r.len] ELSE mem.moved
    /\ pc' = IF r.len = Items THEN "copy" ELSE "allocate"
    /\ r.lcn \in Clusters /\ r.len \in 1..Items /\ r.lcn + r.len <= mem.new
    /\ \A c \in Fresh(r) : c \notin mem.bm /\ c \in Clusters /\ c < mem.new
    /\ Items = 2 /\ r.len = 1 => r.lcn + 1 \in mem.bm \/ r.lcn + 1 = mem.new

(* alloc_cluster takes free clusters inside the new size, as many as the   *)
(* run needs or the beginning of it.                                       *)
LEMMA AllocateIs ==
    ASSUME IInv, Allocate, ~GiveUp
    PROVE  Items \in Nat \ {0} /\ IsRun(Length(Now)) /\ \E r : Taking(r)
<1> DEFINE mirror == Refs[mem.at] = MftMirr
           range == IF mem.range = 0 THEN mem.new ELSE mem.range
           from == SearchFrom(mem.new, mirror /\ mem.dest = <<>>)
           items == Items
           bm == mem.bm
           nr == mem.new
<1>1. pc = "allocate" /\ cell' = cell /\ boot' = boot /\ dirty' = dirty /\ split' = split
      /\ behind' = behind
  <2>1. In("allocate") /\ UNCHANGED <<disk, split>>
    BY ZenonT(60) DEF Allocate
  <2> QED
    BY <2>1 DEF In, disk
<1>2. Running /\ Layout /\ Program /\ Reserved /\ Turning /\ Working
  BY <1>1 DEF IInv, Disk, Task, Running
<1>3. pc \in Moving /\ pc \in Early
  BY <1>1, Phases
<1>4. Now \in Records /\ Length(Now) \in Nat
  BY <1>2, <1>3, NowIs, LengthsAre
<1>5. /\ IsRec(mem.rec, Length(Now)) /\ Outside(mem.rec) # {}
      /\ mem.dest \in Seq(Clusters) /\ Len(mem.dest) < RunLen
  BY <1>1, <1>2, <1>3 DEF Working
<1>6. /\ mem.new \in 2..Device /\ mem.pos \in Nat /\ boot.nr \in 2..Device /\ Device \in Nat /\ IsMem(mem)
      /\ bm \in SUBSET (0..Device - 1) /\ 0 \in bm
  BY <1>2, <1>3, ResizeAssumption DEF Program, Layout, Reserved
<1>7. nr \in Nat
  BY <1>6
<1>8. IsRun(Length(Now))
  BY <1>4, <1>5, <1>7, RunsAre
<1>9. items \in Nat \ {0}
  <2>1. Len(mem.dest) \in Nat
    BY <1>5
  <2>2. RunLen \in Nat
    BY <1>4, <1>8 DEF IsRun
  <2> QED
    BY <1>5, <2>1, <2>2 DEF Items
<1>10. from \in Nat
  BY <1>6 DEF SearchFrom
<1>30. PICK zones \in {Zones(mem.bm, mem.new, from)} :
          /\ zones # {}
          /\ \E r \in {Found(zones, items, from, range)} :
             /\ mem' = [Took(mem, r, items, mem.new) EXCEPT
                          !.range = IF r.len < items THEN Min({r.len, range}) ELSE range,
                          !.moved = IF mirror /\ @ = Unmoved
                                    THEN [old |-> mem.rec.map[RunAt], lcn |-> r.lcn, len |-> r.len] ELSE @]
             /\ pc' = IF r.len = items THEN "copy" ELSE "allocate"
  BY Zenon DEF Allocate, Items
<1>11. PICK r : /\ Zones(bm, nr, from) # {}
                /\ r = Found(Zones(bm, nr, from), items, from, range)
                /\ mem' = [Took(mem, r, items, nr) EXCEPT
                             !.range = IF r.len < items THEN Min({r.len, range}) ELSE range,
                             !.moved = IF mirror /\ @ = Unmoved
                                       THEN [old |-> mem.rec.map[RunAt], lcn |-> r.lcn, len |-> r.len] ELSE @]
                /\ pc' = IF r.len = items THEN "copy" ELSE "allocate"
  <2> HIDE DEF items, range, from, mirror
  <2>1. zones = Zones(bm, nr, from)
    OBVIOUS
  <2>2. PICK r \in {Found(zones, items, from, range)} :
             /\ mem' = [Took(mem, r, items, mem.new) EXCEPT
                          !.range = IF r.len < items THEN Min({r.len, range}) ELSE range,
                          !.moved = IF mirror /\ @ = Unmoved
                                    THEN [old |-> mem.rec.map[RunAt], lcn |-> r.lcn, len |-> r.len] ELSE @]
             /\ pc' = IF r.len = items THEN "copy" ELSE "allocate"
    BY <1>30, Zenon
  <2>3. Zones(bm, nr, from) # {} /\ r = Found(Zones(bm, nr, from), items, from, range)
    BY <1>30, <2>1
  <2> QED
    BY <2>2, <2>3, Zenon
<1> DEFINE t == Took(mem, r, items, nr)
           rg == IF r.len < items THEN Min({r.len, range}) ELSE range
           mv == IF mirror /\ mem.moved = Unmoved
                 THEN [old |-> mem.rec.map[RunAt], lcn |-> r.lcn, len |-> r.len] ELSE mem.moved
<1>12. IsTook(t, mem, r, items, nr)
  <2> HIDE DEF items, nr, t
  <2>1. IsTook(Took(mem, r, items, nr), mem, r, items, nr)
    BY <1>6, TookIs
  <2> QED
    BY <2>1 DEF t
<1>13. IsFound(bm, nr, from, items, r)
  <2>1. bm \in SUBSET Nat
    BY <1>6
  <2> HIDE DEF bm, nr, from, items, range
  <2> QED
    BY <1>7, <1>9, <1>10, <1>11, <2>1, FoundIs
<1>14. mem' = [t EXCEPT !.range = rg, !.moved = mv]
  <2>1. t.moved = mem.moved
    BY <1>12 DEF IsTook
  <2>2. mem' = [t EXCEPT !.range = rg,
                         !.moved = IF mirror /\ @ = Unmoved
                                   THEN [old |-> mem.rec.map[RunAt], lcn |-> r.lcn, len |-> r.len] ELSE @]
    BY <1>11
  <2> HIDE DEF t, rg
  <2> QED
    BY <2>1, <2>2
<1>15. mirror <=> Now = MftMirr
  BY DEF Now
<1> HIDE DEF t, rg, range, mirror
<1>16. /\ IsMem(mem') /\ mem'.new = t.new /\ mem'.mft = t.mft /\ mem'.mirr = t.mirr
       /\ mem'.relocations = t.relocations /\ mem'.at = t.at /\ mem'.pass = t.pass
       /\ mem'.high = t.high /\ mem'.rec = t.rec /\ mem'.copied = t.copied
       /\ mem'.pos = t.pos /\ mem'.bm = t.bm /\ mem'.dest = t.dest /\ mem'.moved = mv
  <2> HIDE DEF mv
  <2>1. IsMem(t)
    BY <1>12 DEF IsTook
  <2> QED
    BY <1>14, <2>1 DEF IsMem
<1>17. /\ r.lcn \in 0..nr - 1 /\ r.len \in 1..items /\ r.lcn + r.len <= nr
       /\ \A c \in r.lcn..r.lcn + r.len - 1 : c \notin bm
       /\ items = 2 /\ r.len = 1 => r.lcn + 1 \in bm \/ r.lcn + 1 = nr
  BY <1>13 DEF IsFound
<1>18. r.lcn \in r.lcn..r.lcn + r.len - 1
  BY <1>7, <1>9, <1>17
<1>19. r.lcn \in Clusters /\ r.lcn \in Nat /\ r.lcn >= 1
  BY <1>6, <1>17, <1>18 DEF Clusters
<1>20. \A c \in r.lcn..r.lcn + r.len - 1 : c \in Clusters /\ c < nr
  <2> TAKE c \in r.lcn..r.lcn + r.len - 1
  <2>1. r.len \in Nat /\ c \in Int /\ r.lcn <= c /\ c <= r.lcn + r.len - 1
    BY <1>9, <1>17
  <2> QED
    BY <1>6, <1>7, <1>17, <1>19, <2>1 DEF Clusters
<1>21. mem'.pos \in Nat
  <2>1. t.pos = IF r.lcn + items = nr THEN 0 ELSE r.lcn + items
    BY <1>12 DEF IsTook
  <2> QED
    BY <1>9, <1>16, <1>19, <2>1
<1>22. /\ mem'.new = mem.new /\ mem'.mft = mem.mft /\ mem'.mirr = mem.mirr
       /\ mem'.relocations = mem.relocations /\ mem'.at = mem.at /\ mem'.pass = mem.pass
       /\ mem'.high = mem.high /\ mem'.rec = mem.rec /\ mem'.copied = mem.copied
       /\ mem'.bm = mem.bm \union r.lcn..r.lcn + r.len - 1
       /\ mem'.dest = mem.dest \o [i \in 1..r.len |-> r.lcn + i - 1]
  BY <1>12, <1>16 DEF IsTook
<1>23. mem'.moved = IF Now = MftMirr /\ mem.moved = Unmoved
                    THEN [old |-> mem.rec.map[RunAt], lcn |-> r.lcn, len |-> r.len] ELSE mem.moved
  BY <1>15, <1>16
<1>24. pc' = IF r.len = Items THEN "copy" ELSE "allocate"
  BY <1>11
<1>25. Taking(r)
  BY <1>1, <1>16, <1>17, <1>19, <1>20, <1>21, <1>22, <1>23, <1>24 DEF Taking, Fresh
<1> QED
  BY <1>8, <1>9, <1>25

(* What holds while clusters are allocated.                                *)
Allocating ==
    /\ pc \in Moving /\ pc \in Early /\ Running /\ Layout /\ Apart /\ Program /\ Reserved /\ Turning
    /\ Mirror /\ Working /\ Plain /\ dirty

(* The parts of the invariant that hold while a file is moved.             *)
LEMMA AllocatingIs ==
    ASSUME IInv, pc \in Moving
    PROVE  Allocating
<1>1. pc \in Early /\ pc \notin {"off", "done", "prepare"}
  BY Phases
<1> QED
  BY <1>1 DEF IInv, Disk, Task, Running, Marked, Allocating

(* The clusters that are taken come behind those taken before, and nobody  *)
(* has them.                                                               *)
LEMMA DestGrows ==
    ASSUME Allocating, NEW r, Taking(r), Items \in Nat \ {0}
    PROVE  /\ mem'.dest \in Seq(Clusters) /\ Len(mem'.dest) = Len(mem.dest) + r.len /\ Len(mem.dest) \in Nat
           /\ \A i \in 1..Len(mem.dest) : mem'.dest[i] = mem.dest[i]
           /\ \A j \in 1..r.len : mem'.dest[Len(mem.dest) + j] = r.lcn + j - 1
           /\ Img(mem'.dest) = Img(mem.dest) \union Fresh(r)
           /\ Once(mem'.dest)
           /\ \A f \in Owners : Hold(f) \intersect Fresh(r) = {}
<1>1. /\ r.lcn \in Nat /\ r.len \in Nat \ {0} /\ (r.lcn..r.lcn + r.len - 1) \subseteq Clusters
      /\ mem'.dest = mem.dest \o [i \in 1..r.len |-> r.lcn + i - 1]
  BY DEF Taking, Fresh, Clusters
<1>2. mem.dest \in Seq(Clusters) /\ Once(mem.dest)
  BY DEF Allocating, Working
<1>3. \A f \in Owners : Hold(f) \intersect Fresh(r) = {}
  BY DEF Allocating, Reserved, Taking
<1>4. Img(mem.dest) \subseteq Hold(Now) /\ Now \in Owners
  BY NowIs DEF Allocating, Hold, New
<1>5. Img(mem.dest) \intersect r.lcn..r.lcn + r.len - 1 = {}
  BY <1>3, <1>4 DEF Fresh
<1> DEFINE d == mem.dest
           l == r.lcn
           k == r.len
           t == mem'.dest
<1>6. /\ d \in Seq(Clusters) /\ l \in Nat /\ k \in Nat \ {0} /\ (l..l + k - 1) \subseteq Clusters
      /\ t = d \o [i \in 1..k |-> l + i - 1] /\ Once(d) /\ Img(d) \intersect l..l + k - 1 = {}
  BY <1>1, <1>2, <1>5
<1> HIDE DEF d, l, k, t
<1>8. Appended(t, d, l, k)
  BY <1>6, AppendIs
<1>7. /\ t \in Seq(Clusters) /\ Len(t) = Len(d) + k /\ Len(d) \in Nat
      /\ \A i \in 1..Len(d) : t[i] = d[i]
      /\ \A j \in 1..k : t[Len(d) + j] = l + j - 1
      /\ Img(t) = Img(d) \union l..l + k - 1
      /\ Once(t)
  BY <1>6, <1>8 DEF Appended
<1> QED
  BY <1>3, <1>7 DEF d, l, k, t, Fresh

(* The mirror is where it was, and is moved as a whole.                    *)
LEMMA WholeMirror ==
    ASSUME Allocating, Now = MftMirr, pc # "record"
    PROVE  /\ Still /\ mem.rec.map[1] = mem.mirr[1] /\ mem.rec.map[2] = mem.mirr[2]
           /\ mem.mirr[2] = mem.mirr[1] + 1 /\ mem.mirr[1] \in Clusters /\ mem.mirr[2] \in Clusters
           /\ \A v \in 1..2 : mem.mirr[v] >= mem.new
           /\ RunAt = 1 /\ RunLen = 2
<1>1. Length(Now) = 2 /\ Now \in Records
  BY LengthsAre, RecordsAre
<1>2. Still /\ mem.rec.map = At(MftMirr).map
  BY DEF Allocating, Mirror, Working
<1>3. mem.rec.map[1] = mem.mirr[1] /\ mem.rec.map[2] = mem.mirr[2]
  BY <1>2 DEF Still
<1>4. mem.mirr[2] = mem.mirr[1] + 1 /\ mem.mirr[1] \in Clusters /\ mem.mirr[2] \in Clusters
  BY DEF Allocating, Program, Layout, Clusters
<1>5. IsRec(mem.rec, Length(Now)) /\ Outside(mem.rec) # {} /\ mem.new \in Nat
  BY ResizeAssumption DEF Allocating, Working, Program
<1>6. IsRun(2)
  BY <1>1, <1>5, RunsAre
<1>7. \E v \in 1..2 : mem.mirr[v] >= mem.new
  <2>1. Len(mem.rec.map) = 2
    <3>1. mem.rec.map \in [1..2 -> Clusters]
      BY <1>1, <1>5 DEF IsRec
    <3> QED
      BY <3>1, FunIsSeq
  <2>2. PICK v \in 1..2 : mem.rec.map[v] >= mem.new
    BY <1>5, <2>1 DEF Outside
  <2> QED
    BY <1>3, <2>2
<1>8. \A v \in 1..2 : mem.mirr[v] \in Img(mem.mirr)
  BY DEF Allocating, Program, Img
<1>9. \A v \in 1..2 : mem.mirr[v] >= mem.new
  <2>1. (\A c \in Img(mem.mirr) : c < mem.new) \/ (\A c \in Img(mem.mirr) : c >= mem.new)
    BY DEF Allocating, Program
  <2>2. \A v \in 1..2 : mem.mirr[v] \in Nat
    BY <1>4 DEF Clusters
  <2> QED
    BY <1>5, <1>7, <1>8, <2>1, <2>2
<1>10. RunAt = 1 /\ RunLen = 2
  BY <1>3, <1>4, <1>6, <1>9 DEF IsRun
<1> QED
  BY <1>2, <1>3, <1>4, <1>9, <1>10

(* What is kept of the mirror is the first run found for it, which is all  *)
(* of it or ends before a cluster in use.                                  *)
LEMMA MirrorAllocated ==
    ASSUME Allocating, NEW r, Taking(r), Items \in Nat \ {0}, At(MftMirr)' = At(MftMirr)
    PROVE  Mirror' /\ (Now = MftMirr => mem'.moved # Unmoved)
<1>1. /\ pc = "allocate" /\ pc' \in {"allocate", "copy"} /\ pc' \in Moving /\ Now' = Now
      /\ pc \in Moving
  BY Phases DEF Taking, Now
<1>2. CASE Now # MftMirr
  <2>1. mem'.moved = mem.moved /\ mem'.mirr = mem.mirr /\ mem'.new = mem.new /\ mem'.relocations = mem.relocations
    BY <1>2 DEF Taking
  <2>2. Mirror'
    BY <1>1, <1>2, <2>1, MirrorStays DEF Allocating
  <2> QED
    BY <1>2, <2>2
<1>3. CASE Now = MftMirr
  <2>1. /\ Still /\ mem.rec.map[1] = mem.mirr[1] /\ mem.mirr[1] \in Clusters
        /\ \A v \in 1..2 : mem.mirr[v] >= mem.new
        /\ RunAt = 1 /\ RunLen = 2
    BY <1>1, <1>3, WholeMirror
  <2>2. Still' /\ mem'.relocations /\ (\A v \in 1..2 : mem'.mirr[v] >= mem'.new)
    BY <1>1, <2>1, NowIs DEF Allocating, Taking, Still
  <2>3. /\ mem.dest = <<>> <=> mem.moved = Unmoved
        /\ mem.moved # Unmoved =>
              /\ mem.moved \in [old : Nat, lcn : Clusters, len : {1, 2}]
              /\ mem.dest \in [1..1 -> Clusters] /\ mem.moved.len = 1 /\ mem.moved.old = mem.mirr[1]
              /\ mem.moved.lcn = mem.dest[1]
              /\ mem.dest[1] + 1 \in mem.bm \/ mem.dest[1] + 1 = mem.new
    BY <1>1, <1>3 DEF Allocating, Mirror, Working
  <2>4. CASE mem.moved = Unmoved
    <3>1. mem.dest = <<>> /\ Len(mem.dest) = 0
      BY <2>3, <2>4
    <3>2. Items = 2
      BY <2>1, <3>1 DEF Items
    <3>3. r.len \in {1, 2} /\ r.lcn \in Clusters
      BY <3>2 DEF Taking
    <3>4. /\ mem'.dest \in Seq(Clusters) /\ Len(mem'.dest) = r.len
          /\ mem'.dest[1] = r.lcn /\ (r.len = 2 => mem'.dest[2] = r.lcn + 1)
      <4>1. /\ mem'.dest \in Seq(Clusters) /\ Len(mem'.dest) = 0 + r.len
            /\ \A j \in 1..r.len : mem'.dest[0 + j] = r.lcn + j - 1
        BY <3>1, DestGrows
      <4> QED
        BY <3>3, <4>1 DEF Clusters
    <3>5. mem'.moved = [old |-> mem.mirr[1], lcn |-> r.lcn, len |-> r.len]
      BY <1>3, <2>1, <2>4 DEF Taking
    <3>6. /\ mem'.moved \in [old : Nat, lcn : Clusters, len : {1, 2}] /\ mem'.moved # Unmoved
          /\ mem'.moved.old = mem.mirr[1] /\ mem'.moved.lcn = r.lcn /\ mem'.moved.len = r.len
      BY <2>1, <3>3, <3>5 DEF Clusters, Unmoved
    <3>7. CASE r.len = 2
      <4>1. pc' = "copy"
        BY <3>2, <3>7 DEF Taking
      <4>2. Pair(mem.dest)'
        BY <3>4, <3>6, <3>7 DEF Pair, Taking
      <4> QED
        BY <1>1, <1>3, <2>2, <3>6, <4>1, <4>2 DEF Mirror, Unmoved, Clusters
    <3>8. CASE r.len = 1
      <4>1. pc' = "allocate"
        BY <3>2, <3>8 DEF Taking
      <4>2. mem'.dest[1] + 1 \in mem'.bm \/ mem'.dest[1] + 1 = mem'.new
        BY <3>2, <3>4, <3>8 DEF Taking
      <4>3. mem'.dest \in [1..1 -> Clusters]
        BY <3>4, <3>8
      <4> QED
        BY <1>1, <1>3, <2>2, <3>4, <3>6, <3>8, <4>1, <4>2, <4>3 DEF Mirror, Unmoved, Clusters, Taking
    <3> QED
      BY <3>3, <3>7, <3>8
  <2>5. CASE mem.moved # Unmoved
    <3>1. mem.dest \in [1..1 -> Clusters] /\ mem'.moved = mem.moved
      BY <2>3, <2>5 DEF Taking
    <3>2. Len(mem.dest) = 1
      BY <3>1, FunIsSeq
    <3>3. Items = 1 /\ r.len = 1 /\ r.lcn \in Clusters /\ pc' = "copy"
      <4>1. Items = 1
        BY <2>1, <3>2 DEF Items
      <4> QED
        BY <4>1 DEF Taking
    <3>4. mem'.dest[1] = mem.dest[1] /\ mem'.dest[2] = r.lcn
      <4>1. /\ \A i \in 1..1 : mem'.dest[i] = mem.dest[i]
            /\ \A j \in 1..r.len : mem'.dest[1 + j] = r.lcn + j - 1
        BY <3>2, DestGrows
      <4> QED
        BY <3>3, <4>1 DEF Clusters
    <3>5. r.lcn # mem.dest[1] + 1
      <4>1. r.lcn \in Fresh(r)
        BY <3>3 DEF Fresh, Clusters
      <4>2. r.lcn \notin mem.bm /\ r.lcn < mem.new
        BY <4>1 DEF Taking
      <4>3. r.lcn # mem.new
        BY <3>3, <4>2 DEF Allocating, Program, Clusters
      <4> QED
        BY <2>3, <2>5, <4>2, <4>3
    <3>6. Pair(mem.dest)'
      BY <2>3, <2>5, <3>1, <3>4, <3>5 DEF Pair, Taking
    <3> QED
      BY <1>1, <1>3, <2>2, <2>3, <2>5, <3>1, <3>3, <3>6 DEF Mirror, Unmoved, Clusters
  <2> QED
    BY <2>4, <2>5
<1> QED
  BY <1>2, <1>3

(* The clusters found so far are new ones, inside, and no more than the    *)
(* run has.                                                                *)
LEMMA WorkingAllocated ==
    ASSUME Allocating, NEW r, Taking(r), Items \in Nat \ {0}, IsRun(Length(Now)),
           \A f \in Records : At(f)' = At(f), \A f \in Records : Length(f)' = Length(f),
           \A f \in Owners : Old(f)' = Old(f),
           Now = MftMirr => mem'.moved # Unmoved
    PROVE  Working'
<1>1. /\ pc = "allocate" /\ pc' \in {"allocate", "copy"} /\ pc' \in Moving /\ Now' = Now
      /\ pc \in Moving /\ mem'.rec = mem.rec /\ mem'.new = mem.new /\ cell' = cell
      /\ Clusters' = Clusters
  BY Phases DEF Taking, Now, Clusters
<1>2. Now \in Records /\ Now \in Owners /\ At(Now)' = At(Now) /\ Length(Now)' = Length(Now)
      /\ Old(Now)' = Old(Now)
  BY <1>1, NowIs DEF Allocating
<1>3. /\ IsRec(mem.rec, Length(Now)) /\ Once(mem.rec.map) /\ mem.rec.size = At(Now).size
      /\ \A v \in 1..Length(Now) : cell[mem.rec.map[v]] = cell[At(Now).map[v]]
      /\ \A v \in 1..Length(Now) : At(Now).map[v] < mem.new => mem.rec.map[v] = At(Now).map[v]
      /\ \A v \in 1..Length(Now) : mem.rec.map[v] = At(Now).map[v] \/ mem.rec.map[v] < mem.new
      /\ mem.dest \in Seq(Clusters) /\ Once(mem.dest) /\ (\A c \in Img(mem.dest) : c < mem.new)
      /\ Img(mem.dest) \intersect (Img(At(Now).map) \union Img(mem.rec.map) \union Old(Now)) = {}
      /\ (Now = MftMirr => mem.rec.map = At(Now).map)
      /\ Outside(mem.rec) # {}
  BY <1>1 DEF Allocating, Working
<1>4. /\ mem'.dest \in Seq(Clusters) /\ Len(mem'.dest) = Len(mem.dest) + r.len /\ Len(mem.dest) \in Nat
      /\ Img(mem'.dest) = Img(mem.dest) \union Fresh(r) /\ Once(mem'.dest)
      /\ \A f \in Owners : Hold(f) \intersect Fresh(r) = {}
  BY DestGrows
<1>5. \A c \in Img(mem'.dest) : c < mem'.new
  BY <1>1, <1>3, <1>4 DEF Taking
<1>6. Img(At(Now).map) \union Img(mem.rec.map) \union Old(Now) \subseteq Hold(Now)
  BY <1>1, <1>2 DEF Hold, New
<1>7. Img(mem'.dest) \intersect (Img(At(Now).map) \union Img(mem.rec.map) \union Old(Now)) = {}
  BY <1>2, <1>3, <1>4, <1>6
<1>8. RunAt' = RunAt /\ RunLen' = RunLen /\ Outside(mem.rec)' = Outside(mem.rec)
  BY <1>1 DEF RunAt, RunLen, Outside
<1>9. RunLen \in Nat /\ r.len \in 1..Items /\ Items = RunLen - Len(mem.dest)
  <2>1. Length(Now) \in Nat
    BY <1>2, LengthsAre
  <2> QED
    BY <2>1 DEF IsRun, Items, Taking
<1>10. /\ pc' = "allocate" => Len(mem'.dest) < RunLen'
       /\ pc' = "copy" => Len(mem'.dest) = RunLen' /\ mem'.copied = 0 /\ mem'.copied < Len(mem'.dest)
  <2>1. mem'.copied = 0
    BY <1>1 DEF Allocating, Plain, Taking
  <2>2. pc' = "copy" <=> r.len = Items
    BY DEF Taking
  <2> QED
    BY <1>1, <1>4, <1>8, <1>9, <2>1, <2>2
<1>11. mem'.dest # <<>>
  <2>1. Len(mem'.dest) # 0
    BY <1>4, <1>9
  <2> QED
    BY <2>1
<1>12. /\ IsRec(mem'.rec, Length(Now)') /\ Once(mem'.rec.map) /\ mem'.rec.size = At(Now)'.size
       /\ \A v \in 1..Length(Now)' : cell'[mem'.rec.map[v]] = cell'[At(Now)'.map[v]]
       /\ \A v \in 1..Length(Now)' : At(Now)'.map[v] < mem'.new => mem'.rec.map[v] = At(Now)'.map[v]
       /\ \A v \in 1..Length(Now)' : mem'.rec.map[v] = At(Now)'.map[v] \/ mem'.rec.map[v] < mem'.new
       /\ Img(mem'.dest) \intersect (Img(At(Now)'.map) \union Img(mem'.rec.map) \union Old(Now)') = {}
  BY <1>1, <1>2, <1>3, <1>7
<1>13. IsRec(mem.rec, Length(Now))' /\ Once(mem.rec.map)' /\ Once(mem.dest)'
       /\ (\A c \in Img(mem.dest)' : c < mem'.new)
       /\ (Img(mem.dest) \intersect (Img(At(Now).map) \union Img(mem.rec.map) \union Old(Now)))' = {}
  BY <1>1, <1>4, <1>5, <1>12 DEF IsRec, Once, Img
<1>14. /\ Now' = MftMirr /\ pc' = "copy" => mem'.moved # Unmoved'
       /\ Now' = MftMirr /\ pc' = "allocate" => (mem'.dest = <<>> <=> mem'.moved = Unmoved')
       /\ Now' = MftMirr /\ pc' # "record" => mem'.rec.map = At(Now)'.map
       /\ pc' # "record" /\ Outside(mem.rec)' # {}
       /\ \A i \in 1..0 : cell'[mem'.dest[i]] = cell'[mem'.rec.map[RunAt' + i - 1]]
  BY <1>1, <1>2, <1>3, <1>8, <1>11 DEF Unmoved
<1> QED
  BY <1>1, <1>4, <1>10, <1>12, <1>13, <1>14 DEF Working

(* alloc_cluster                                                           *)
LEMMA AllocateKeeps ==
    ASSUME IInv, Allocate, ~GiveUp
    PROVE  IInv'
<1>1. Items \in Nat \ {0} /\ IsRun(Length(Now)) /\ pc = "allocate"
  BY AllocateIs DEF Taking
<1>2. PICK r : Taking(r)
  BY AllocateIs
<1>3. pc \in Moving /\ pc' \in {"allocate", "copy"} /\ pc' \in Moving /\ pc' \in Early
      /\ pc' \notin Late /\ pc' \in Turns
  BY <1>1, <1>2, Phases DEF Taking
<1>4. Allocating
  BY <1>3, AllocatingIs
<1>5. /\ pc \in Early /\ Running /\ Layout /\ Apart /\ Program /\ Reserved /\ Turning
      /\ Mirror /\ Working /\ Plain /\ dirty
  BY <1>4 DEF Allocating
<1>6. /\ cell' = cell /\ boot' = boot /\ dirty' = dirty /\ split' = split
      /\ behind = {} /\ behind' = {}
      /\ IsMem(mem') /\ mem'.new = mem.new /\ mem'.mft = mem.mft /\ mem'.mirr = mem.mirr
      /\ mem'.relocations = mem.relocations /\ mem'.at = mem.at /\ mem'.pass = mem.pass
      /\ mem'.high = mem.high /\ mem'.rec = mem.rec /\ mem'.copied = mem.copied
      /\ mem'.pos \in Nat /\ mem'.bm = mem.bm \union Fresh(r)
  BY <1>1, <1>2, <1>5 DEF Taking, Program
<1>7. Kept
  BY <1>3, <1>5, <1>6 DEF Kept
<1>8. /\ Layout' /\ Running' /\ Program' /\ Home' = Home
      /\ \A f \in Records : At(f)' = At(f)
      /\ \A f \in Records : Length(f)' = Length(f)
      /\ \A v : Spot(v)' = Spot(v)
      /\ \A f \in Owners : Old(f)' = Old(f) /\ Img(At(f).map)' = Img(At(f).map)
  BY <1>5, <1>6, <1>7, CellsAre, FrameStep
<1>9. Now' = Now /\ Now \in Owners /\ mem.relocations
  BY <1>3, <1>5, <1>6, NowIs DEF Now
<1>10. /\ Img(mem'.dest) = Img(mem.dest) \union Fresh(r)
       /\ \A f \in Owners : Hold(f) \intersect Fresh(r) = {}
  BY <1>1, <1>2, <1>4, DestGrows
<1>11. \A f \in Owners : New(f)' = IF f = Now THEN New(f) \union Fresh(r) ELSE New(f)
  <2>1. \A f : New(f) = IF f = Now THEN Img(mem.rec.map) \union Img(mem.dest) ELSE {}
    BY <1>3 DEF New
  <2>2. \A f : New(f)' = IF f = Now' THEN Img(mem.rec.map)' \union Img(mem.dest)' ELSE {}
    BY <1>3 DEF New
  <2>3. Img(mem.rec.map)' = Img(mem.rec.map) /\ Img(mem.dest)' = Img(mem.dest) \union Fresh(r)
    BY <1>6, <1>10 DEF Img
  <2> QED
    BY <1>9, <2>1, <2>2, <2>3
<1>12. \A f \in Owners : Hold(f)' = IF f = Now THEN Hold(f) \union Fresh(r) ELSE Hold(f)
  BY <1>8, <1>11 DEF Hold
<1>13. Apart'
  <2> DEFINE F == Fresh(r)
             nr == boot.nr
  <2>1. PICK n \in Owners : n = Now
    BY <1>9
  <2>2. /\ boot'.nr = nr
        /\ \A f \in Owners : Hold(f) \intersect F = {}
        /\ \A f \in Owners : f # n => Hold(f)' \subseteq Hold(f)
        /\ Hold(n)' \subseteq Hold(n) \union F
    BY <1>6, <1>10, <1>12, <2>1
  <2>3. \A f \in Owners : \A c \in Img(At(f).map)' : c < nr
    BY <1>5, <1>8, ApartIs
  <2>4. Layout /\ Apart
    BY <1>5
  <2> HIDE DEF F, nr
  <2> QED
    BY <2>2, <2>3, <2>4, ApartGrows
<1>14. Marked' /\ Idles'
  BY <1>3, <1>5, <1>6 DEF Marked, Idles
<1>15. Reserved'
  <2>1. /\ mem.bm \in SUBSET (0..Device - 1) /\ 0 \in mem.bm
        /\ \A f \in Owners : Hold(f) \subseteq mem.bm
        /\ \A c \in mem.bm : c < mem.new =>
              c = 0 \/ \E f \in Owners : c \in Img(At(f).map) \union New(f)
    BY <1>5 DEF Reserved
  <2>2. Fresh(r) \subseteq 0..Device - 1
    BY <1>2 DEF Taking, Clusters
  <2>3. mem'.bm \in SUBSET (0..Device - 1) /\ 0 \in mem'.bm
    BY <1>6, <2>1, <2>2
  <2>4. \A f \in Owners : Hold(f)' \subseteq mem'.bm
    BY <1>6, <1>12, <2>1
  <2>5. \A c \in mem'.bm : c < mem'.new =>
              c = 0 \/ \E f \in Owners : c \in Img(At(f).map)' \union New(f)'
    <3> SUFFICES ASSUME NEW c \in mem'.bm, c < mem.new, c # 0
                 PROVE  \E f \in Owners : c \in Img(At(f).map)' \union New(f)'
      BY <1>6
    <3>1. CASE c \in Fresh(r)
      BY <1>9, <1>11, <3>1
    <3>2. CASE c \in mem.bm
      <4>1. PICK f \in Owners : c \in Img(At(f).map) \union New(f)
        BY <2>1, <3>2
      <4> QED
        BY <1>8, <1>11, <4>1
    <3> QED
      BY <1>6, <3>1, <3>2
  <2>6. ~(mem'.new > boot'.nr)
    <3>1. mem.new < boot.nr /\ mem.new \in Int /\ boot.nr \in Int
      BY <1>5, <1>9 DEF Program, Layout
    <3> QED
      BY <1>6, <3>1
  <2> QED
    BY <2>3, <2>4, <2>5, <2>6 DEF Reserved
<1>16. Turning'
  BY <1>3, <1>5, <1>6, <1>8, TurnGoesOn
<1>17. Preparing' /\ Ended' /\ Ending'
  BY <1>3, Phases DEF Preparing, Ended, Ending
<1>18. Plain'
  BY <1>1, <1>3, <1>5, <1>6 DEF Plain
<1>19. Mirror' /\ (Now = MftMirr => mem'.moved # Unmoved)
  BY <1>1, <1>2, <1>4, <1>8, RecordsAre, MirrorAllocated
<1>20. Working'
  BY <1>1, <1>2, <1>4, <1>8, <1>19, WorkingAllocated
<1> QED
  BY <1>8, <1>13, <1>14, <1>15, <1>16, <1>17, <1>18, <1>19, <1>20 DEF IInv, Disk, Task

(* The cluster that is copied, and the one it is copied to.                *)
Target == mem.dest[mem.copied + 1]
Source == mem.rec.map[RunAt + mem.copied]
Copying ==
    /\ pc = "copy" /\ boot' = boot /\ dirty' = dirty /\ split' = split
    /\ behind = {} /\ behind' = {}
    /\ cell' = [c \in 0..Device - 1 |-> cell'[c]]
    /\ Target \in Clusters /\ Target < mem.new /\ Source \in Clusters
    /\ cell'[Target] = cell[Source] /\ \A c \in 0..Device - 1 : c # Target => cell'[c] = cell[c]
    /\ Target \notin Laid \union Img(mem.mirr) /\ Target # At(Bitmap).map[1]
    /\ Target \notin Img(At(Now).map) \union Img(mem.rec.map)
    /\ IsRun(Length(Now)) /\ RunLen = Len(mem.dest) /\ RunLen \in Nat /\ RunAt \in Nat /\ Length(Now) \in Nat
    /\ mem.copied \in 0..RunLen - 1 /\ DOMAIN mem.dest = 1..RunLen
    /\ \A j \in 1..RunLen : mem.dest[j] \in Clusters /\ mem.dest[j] < mem.new
    /\ \A i, j \in 1..RunLen : mem.dest[i] = mem.dest[j] => i = j
    /\ \A j \in 1..RunLen : RunAt + j - 1 \in 1..Length(Now) /\ mem.rec.map[RunAt + j - 1] >= mem.new
    /\ mem.rec.map \in [1..Length(Now) -> Clusters] /\ DOMAIN mem.rec.map = 1..Length(Now)
    /\ \A v \in 1..Length(Now) : mem.rec.map[v] \in Img(mem.rec.map) /\ At(Now).map[v] \in Img(At(Now).map)
                                 /\ mem.rec.map[v] \in Clusters /\ At(Now).map[v] \in Clusters

(* copy_clusters copies a cluster of the run to one that nobody holds.     *)
LEMMA CopyingIs ==
    ASSUME Allocating, Copy
    PROVE  Copying
<1> DEFINE n == Length(Now)
           i == mem.copied
<1>1. /\ pc = "copy" /\ boot' = boot /\ dirty' = dirty /\ split' = split
      /\ behind = {} /\ behind' = {}
      /\ cell' = [cell EXCEPT ![Target] = cell[Source]]
  BY DEF Copy, In, Target, Source
<1>2. Now \in Owners /\ Now \in Records /\ n \in Nat
  BY NowIs, LengthsAre DEF Allocating
<1>3. /\ IsRec(mem.rec, n) /\ mem.dest \in Seq(Clusters) /\ Once(mem.dest) /\ Outside(mem.rec) # {}
      /\ \A c \in Img(mem.dest) : c < mem.new
      /\ Img(mem.dest) \intersect (Img(At(Now).map) \union Img(mem.rec.map) \union Old(Now)) = {}
      /\ Len(mem.dest) = RunLen /\ i < Len(mem.dest)
  BY <1>1 DEF Allocating, Working
<1>4. i \in Nat /\ mem.new \in Nat
  BY ResizeAssumption DEF Allocating, Plain, Program
<1>5. IsRun(n)
  BY <1>2, <1>3, <1>4, RunsAre
<1>6. RunLen \in Nat /\ RunAt \in Nat
  BY <1>2, <1>5 DEF IsRun
<1>7. i \in 0..RunLen - 1 /\ DOMAIN mem.dest = 1..RunLen
  BY <1>3, <1>4, <1>6
<1>8. \A j \in 1..RunLen : mem.dest[j] \in Clusters /\ mem.dest[j] \in Img(mem.dest) /\ mem.dest[j] < mem.new
  <2>1. \A j \in 1..RunLen : mem.dest[j] \in Clusters /\ mem.dest[j] \in Img(mem.dest)
    BY <1>3, <1>7 DEF Img
  <2> QED
    BY <1>3, <2>1
<1>9. \A k, j \in 1..RunLen : mem.dest[k] = mem.dest[j] => k = j
  BY <1>3, <1>7 DEF Once
<1>10. \A j \in 1..RunLen : RunAt + j - 1 \in 1..n /\ mem.rec.map[RunAt + j - 1] >= mem.new
  <2> TAKE j \in 1..RunLen
  <2>1. j - 1 \in 0..RunLen - 1 /\ RunAt + (j - 1) = RunAt + j - 1
    BY <1>6
  <2>2. mem.rec.map[RunAt + (j - 1)] >= mem.new
    BY <1>5, <2>1 DEF IsRun
  <2>3. RunAt + j - 1 \in 1..n
    BY <1>2, <1>5, <1>6 DEF IsRun
  <2> QED
    BY <2>1, <2>2, <2>3
<1>11. mem.rec.map \in [1..n -> Clusters]
  BY <1>3 DEF IsRec
<1>12. \A v \in 1..n : mem.rec.map[v] \in Img(mem.rec.map) /\ At(Now).map[v] \in Img(At(Now).map)
                       /\ mem.rec.map[v] \in Clusters /\ At(Now).map[v] \in Clusters
  BY <1>2, <1>11, MapsAre DEF Img, Allocating
<1>13. Target \in Clusters /\ Target < mem.new /\ Target \in Img(mem.dest)
  <2>1. i + 1 \in 1..RunLen
    BY <1>6, <1>7
  <2> QED
    BY <1>8, <2>1 DEF Target
<1>14. Source \in Clusters
  <2>1. i + 1 \in 1..RunLen /\ RunAt + (i + 1) - 1 = RunAt + i
    BY <1>6, <1>7
  <2>2. RunAt + i \in 1..n
    BY <1>10, <2>1
  <2> QED
    BY <1>11, <2>2 DEF Source
<1>15. cell = [c \in 0..Device - 1 |-> cell[c]]
  BY DEF Allocating, Layout
<1>16. /\ cell' = [c \in 0..Device - 1 |-> cell'[c]]
       /\ cell'[Target] = cell[Source] /\ \A c \in 0..Device - 1 : c # Target => cell'[c] = cell[c]
  <2> DEFINE t == Target  s == cell[Source]
  <2>1. cell' = [cell EXCEPT ![t] = s] /\ t \in 0..Device - 1
    BY <1>1, <1>13 DEF Clusters
  <2> HIDE DEF t, s
  <2>2. cell' = [c \in 0..Device - 1 |-> IF c = t THEN s ELSE cell[c]]
    BY <1>15, <2>1
  <2>3. cell' = [c \in 0..Device - 1 |-> cell'[c]] /\ \A c \in 0..Device - 1 : cell'[c] = IF c = t THEN s ELSE cell[c]
    BY <2>2
  <2> QED
    BY <2>1, <2>3 DEF t, s
<1>17. \A f \in Owners : Target \notin Img(At(f).map) \union Old(f)
  <2> TAKE f \in Owners
  <2>1. CASE f = Now
    BY <1>3, <1>13, <2>1
  <2>2. CASE f # Now
    <3>1. Target \in Hold(Now)
      BY <1>13 DEF Hold, New, Allocating
    <3>2. Target \notin Hold(f)
      BY <1>2, <2>2, <3>1, ApartIs DEF Allocating
    <3> QED
      BY <3>2 DEF Hold
  <2> QED
    BY <2>1, <2>2
<1>18. Target \notin Laid \union Img(mem.mirr) /\ Target # At(Bitmap).map[1]
  <2>1. {Mft, MftExt, MftMirr, File, Bitmap} \subseteq Owners /\ Bitmap \in Records /\ Length(Bitmap) = 1
    BY RecordsAre, LengthsAre DEF Owners
  <2>2. Img(Home) \subseteq Old(Mft) \union Old(MftExt)
    BY HomeIs DEF Allocating
  <2>3. Old(MftMirr) = Img(mem.mirr)
    BY NamesApart DEF Old, Allocating
  <2>4. Layout
    BY DEF Allocating
  <2>5. At(Bitmap).map[1] \in Img(At(Bitmap).map)
    BY <2>1, <2>4, MapsAre
  <2> QED
    BY <1>17, <2>1, <2>2, <2>3, <2>5 DEF Laid
<1>19. Target \notin Img(At(Now).map) \union Img(mem.rec.map)
  BY <1>3, <1>13
<1> QED
  BY <1>1, <1>2, <1>3, <1>5, <1>6, <1>7, <1>8, <1>9, <1>10, <1>11, <1>12, <1>13, <1>14, <1>16, <1>18, <1>19 DEF Copying

(* Nothing that is read anywhere is written over.                          *)
LEMMA CopyFrame ==
    ASSUME Allocating, Copying, Kept
    PROVE  /\ Layout' /\ Running' /\ Program' /\ Home' = Home
           /\ \A f \in Records : At(f)' = At(f)
           /\ \A f \in Records : Length(f)' = Length(f)
           /\ \A v : Spot(v)' = Spot(v)
           /\ \A f \in Owners : Old(f)' = Old(f) /\ Img(At(f).map)' = Img(At(f).map)
<1>1. Layout /\ Apart /\ Program
  BY DEF Allocating
<1>2. \A c \in Laid \union Img(mem.mirr) : cell'[c] = cell[c]
  BY <1>1, LaidIsThere DEF Copying
<1>3. cell'[At(Bitmap).map[1]] = [bits |-> cell'[At(Bitmap).map[1]].bits]
  <2>1. cell'[At(Bitmap).map[1]] = cell[At(Bitmap).map[1]]
    BY <1>1, LaidIsThere DEF Copying
  <2>2. cell[At(Bitmap).map[1]] = [bits |-> cell[At(Bitmap).map[1]].bits]
    BY <1>1 DEF Layout
  <2> QED
    BY <2>1, <2>2
<1>4. cell' = [c \in 0..Device - 1 |-> cell'[c]]
  BY DEF Copying
<1> QED
  BY <1>1, <1>2, <1>3, <1>4, FrameStep

(* copy_clusters, but for the last cluster of a run.                       *)
LEMMA CopyGoesOn ==
    ASSUME IInv, Copy, mem.copied + 1 < Len(mem.dest)
    PROVE  IInv'
<1> DEFINE i == mem.copied
<1>1. pc = "copy" /\ mem' = [mem EXCEPT !.copied = i + 1] /\ pc' = pc
  BY DEF Copy, In
<1>2. pc \in Moving /\ pc' \in Moving /\ pc' = "copy" /\ pc \in Early /\ pc' \in Early /\ pc' \notin Late /\ pc' \in Turns
  BY <1>1, Phases
<1>3. Allocating
  BY <1>2, AllocatingIs
<1>4. Copying
  BY <1>3, CopyingIs
<1>5. /\ Running /\ Layout /\ Apart /\ Program /\ Reserved /\ Turning
      /\ Mirror /\ Working /\ Plain /\ dirty
  BY <1>3 DEF Allocating
<1>6. i \in Nat /\ boot' = boot /\ dirty' = dirty /\ split' = split /\ behind = {} /\ behind' = {}
  BY <1>4, <1>5 DEF Plain, Copying
<1>7. /\ IsMem(mem') /\ mem'.new = mem.new /\ mem'.mft = mem.mft /\ mem'.mirr = mem.mirr
      /\ mem'.relocations = mem.relocations /\ mem'.at = mem.at /\ mem'.pass = mem.pass
      /\ mem'.high = mem.high /\ mem'.rec = mem.rec /\ mem'.copied = i + 1
      /\ mem'.pos = mem.pos /\ mem'.bm = mem.bm /\ mem'.dest = mem.dest /\ mem'.moved = mem.moved
  <2>1. IsMem(mem)
    BY <1>5 DEF Program
  <2> HIDE DEF i
  <2> QED
    BY <1>1, <2>1 DEF IsMem
<1>8. Kept
  BY <1>2, <1>5, <1>6, <1>7 DEF Kept, Program
<1>9. /\ Layout' /\ Running' /\ Program' /\ Home' = Home
      /\ \A f \in Records : At(f)' = At(f)
      /\ \A f \in Records : Length(f)' = Length(f)
      /\ \A v : Spot(v)' = Spot(v)
      /\ \A f \in Owners : Old(f)' = Old(f) /\ Img(At(f).map)' = Img(At(f).map)
  BY <1>3, <1>4, <1>8, CopyFrame
<1>10. Now' = Now /\ Now \in Records /\ Now \in Owners
  BY <1>2, <1>5, <1>7, NowIs DEF Now
<1>11. \A f \in Owners : New(f)' = New(f)
  BY <1>2, <1>7, <1>10 DEF New, Img
<1>12. \A f \in Owners : Hold(f)' \subseteq Hold(f)
  BY <1>9, <1>11, HoldStays
<1>13. Apart'
  BY <1>5, <1>6, <1>9, <1>12, ApartStays
<1>14. Marked' /\ Idles'
  BY <1>2, <1>5, <1>6 DEF Marked, Idles
<1>15. Reserved'
  BY <1>2, <1>5, <1>6, <1>7, <1>9, <1>11, <1>12, ReservedStays
<1>16. Turning'
  BY <1>2, <1>5, <1>6, <1>7, <1>9, TurnGoesOn
<1>17. Preparing' /\ Ended' /\ Ending'
  BY <1>2, Phases DEF Preparing, Ended, Ending
<1>18. Plain'
  BY <1>2, <1>5, <1>6, <1>7 DEF Plain
<1>19. Mirror'
  <2>1. CASE Now = MftMirr
    <3>1. Still /\ Pair(mem.dest) /\ mem.moved # Unmoved
      BY <1>1, <1>2, <1>5, <2>1 DEF Mirror, Working
    <3>2. Still' /\ Pair(mem.dest)'
      BY <1>7, <1>9, <3>1, SaysStay DEF Pair
    <3>3. /\ mem'.moved # Unmoved' /\ mem'.moved \in [old : Nat, lcn : Clusters', len : {1, 2}]
          /\ mem'.relocations /\ \A v \in 1..2 : mem'.mirr[v] >= mem'.new
      BY <1>5, <1>7, <3>1 DEF Mirror, Unmoved, Clusters
    <3> QED
      BY <1>2, <1>10, <2>1, <3>2, <3>3 DEF Mirror
  <2>2. CASE Now # MftMirr
    BY <1>2, <1>5, <1>7, <1>9, <1>10, <2>2, RecordsAre, MirrorStays
  <2> QED
    BY <2>1, <2>2
<1>20. Working'
  <2>1. At(Now)' = At(Now) /\ Length(Now)' = Length(Now) /\ Old(Now)' = Old(Now)
    BY <1>9, <1>10
  <2>2. Clusters \subseteq 0..Device - 1 /\ Clusters' = Clusters
    BY DEF Clusters
  <2>3. \A v \in 1..Length(Now) : cell'[mem.rec.map[v]] = cell[mem.rec.map[v]]
                                  /\ cell'[At(Now).map[v]] = cell[At(Now).map[v]]
    BY <1>4, <2>2 DEF Copying
  <2>4. \A j \in 1..i + 1 : cell'[mem.dest[j]] = cell'[mem.rec.map[RunAt + j - 1]]
    <3> TAKE j \in 1..i + 1
    <3>1. j \in 1..RunLen /\ i + 1 \in 1..RunLen /\ RunAt + j - 1 \in 1..Length(Now)
      <4>1. i \in 0..RunLen - 1 /\ RunLen \in Nat
        BY <1>4 DEF Copying
      <4>2. j \in 1..RunLen /\ i + 1 \in 1..RunLen
        BY <4>1
      <4> QED
        BY <1>4, <4>2 DEF Copying
    <3>2. CASE j = i + 1
      <4>1. mem.dest[j] = Target /\ mem.rec.map[RunAt + j - 1] = Source
        <5>1. RunAt + j - 1 = RunAt + i
          BY <1>4, <1>6, <3>2 DEF Copying
        <5> QED
          BY <3>2, <5>1 DEF Target, Source
      <4>2. cell'[mem.dest[j]] = cell[mem.rec.map[RunAt + j - 1]]
        BY <1>4, <4>1 DEF Copying
      <4> QED
        BY <2>3, <3>1, <4>2
    <3>3. CASE j # i + 1
      <4>1. j \in 1..i
        BY <1>6, <3>3
      <4>2. cell[mem.dest[j]] = cell[mem.rec.map[RunAt + j - 1]]
        BY <1>1, <1>2, <1>5, <4>1 DEF Working
      <4>3. mem.dest[j] # Target /\ mem.dest[j] \in 0..Device - 1
        BY <1>4, <2>2, <3>1, <3>3 DEF Copying, Target
      <4>4. cell'[mem.dest[j]] = cell[mem.dest[j]]
        BY <1>4, <4>3 DEF Copying
      <4> QED
        BY <2>3, <3>1, <4>2, <4>4
    <3> QED
      BY <3>2, <3>3
  <2>5. RunAt' = RunAt /\ RunLen' = RunLen /\ Outside(mem.rec)' = Outside(mem.rec)
    BY <1>7 DEF RunAt, RunLen, Outside
  <2>6. /\ IsRec(mem.rec, Length(Now)) /\ Once(mem.rec.map) /\ mem.rec.size = At(Now).size
        /\ \A v \in 1..Length(Now) : cell[mem.rec.map[v]] = cell[At(Now).map[v]]
        /\ \A v \in 1..Length(Now) : At(Now).map[v] < mem.new => mem.rec.map[v] = At(Now).map[v]
        /\ \A v \in 1..Length(Now) : mem.rec.map[v] = At(Now).map[v] \/ mem.rec.map[v] < mem.new
        /\ mem.dest \in Seq(Clusters) /\ Once(mem.dest) /\ (\A c \in Img(mem.dest) : c < mem.new)
        /\ Img(mem.dest) \intersect (Img(At(Now).map) \union Img(mem.rec.map) \union Old(Now)) = {}
        /\ (Now = MftMirr => mem.rec.map = At(Now).map)
        /\ (Now = MftMirr => mem.moved # Unmoved)
        /\ Outside(mem.rec) # {} /\ Len(mem.dest) = RunLen
    BY <1>1, <1>2, <1>5 DEF Working
  <2>7. \A v \in 1..Length(Now) : cell'[mem.rec.map[v]] = cell'[At(Now).map[v]]
    BY <2>3, <2>6
  <2>8. /\ IsRec(mem'.rec, Length(Now)') /\ Once(mem'.rec.map) /\ mem'.rec.size = At(Now)'.size
        /\ \A v \in 1..Length(Now)' : cell'[mem'.rec.map[v]] = cell'[At(Now)'.map[v]]
        /\ \A v \in 1..Length(Now)' : At(Now)'.map[v] < mem'.new => mem'.rec.map[v] = At(Now)'.map[v]
        /\ \A v \in 1..Length(Now)' : mem'.rec.map[v] = At(Now)'.map[v] \/ mem'.rec.map[v] < mem'.new
        /\ mem'.dest \in Seq(Clusters) /\ Once(mem'.dest) /\ (\A c \in Img(mem'.dest) : c < mem'.new)
        /\ Img(mem'.dest) \intersect (Img(At(Now)'.map) \union Img(mem'.rec.map) \union Old(Now)') = {}
    BY <1>7, <2>1, <2>6, <2>7
  <2>9. /\ IsRec(mem.rec, Length(Now))' /\ Once(mem.rec.map)' /\ Once(mem.dest)'
        /\ (\A c \in Img(mem.dest)' : c < mem'.new)
        /\ (Img(mem.dest) \intersect (Img(At(Now).map) \union Img(mem.rec.map) \union Old(Now)))' = {}
    BY <2>1, <2>8 DEF IsRec, Once, Img, Clusters
  <2>10. /\ mem'.copied < Len(mem'.dest) /\ Len(mem'.dest) = RunLen'
         /\ \A j \in 1..mem'.copied : cell'[mem'.dest[j]] = cell'[mem'.rec.map[RunAt' + j - 1]]
    BY <1>7, <2>4, <2>5, <2>6
  <2>11. /\ Now' = MftMirr => mem'.moved # Unmoved' /\ mem'.rec.map = At(Now)'.map
         /\ Outside(mem.rec)' # {}
    BY <1>7, <1>10, <2>1, <2>5, <2>6 DEF Unmoved
  <2> QED
    BY <1>2, <2>2, <2>8, <2>9, <2>10, <2>11 DEF Working
<1> QED
  BY <1>9, <1>13, <1>14, <1>15, <1>16, <1>17, <1>18, <1>19, <1>20 DEF IInv, Disk, Task

(* The runlist once a run has been moved.                                  *)
MovedMap == [v \in DOMAIN mem.rec.map |-> IF v \in RunAt..RunAt + mem.copied
                                           THEN mem.dest[v + 1 - RunAt] ELSE mem.rec.map[v]]

(* It has the clusters that have been taken in place of those outside.     *)
LEMMA MovedMapIs ==
    ASSUME Allocating, Copying, mem.copied + 1 = Len(mem.dest)
    PROVE  /\ MovedMap \in [1..Length(Now) -> Clusters] /\ Once(MovedMap)
           /\ \A v \in 1..Length(Now) :
                 \/ MovedMap[v] = mem.rec.map[v] /\ v \notin RunAt..RunAt + RunLen - 1
                 \/ \E j \in 1..RunLen : /\ v = RunAt + j - 1 /\ MovedMap[v] = mem.dest[j]
                                         /\ mem.rec.map[v] >= mem.new
           /\ \A j \in 1..RunLen : MovedMap[RunAt + j - 1] = mem.dest[j]
           /\ \A v \in 1..Length(Now) : mem.rec.map[v] < mem.new => MovedMap[v] = mem.rec.map[v]
           /\ Img(MovedMap) \subseteq Img(mem.rec.map) \union Img(mem.dest)
           /\ Img(mem.dest) \subseteq Img(MovedMap)
           /\ \A c \in Img(mem.rec.map) : c < mem.new => c \in Img(MovedMap)
<1> DEFINE n == Length(Now)  m == MovedMap  a == mem.rec.map  d == mem.dest  at == RunAt  len == RunLen  new == mem.new
<1>1. /\ n \in Nat /\ at \in Nat /\ len \in Nat /\ DOMAIN d = 1..len /\ DOMAIN a = 1..n
      /\ a \in [1..n -> Clusters]
      /\ mem.copied + 1 = len /\ mem.copied \in 0..len - 1
      /\ \A j \in 1..len : d[j] \in Clusters /\ d[j] < new
      /\ \A i, j \in 1..len : d[i] = d[j] => i = j
      /\ \A j \in 1..len : at + j - 1 \in 1..n /\ a[at + j - 1] >= new
  BY DEF Copying
<1>2. m = [v \in 1..n |-> IF v \in at..at + len - 1 THEN d[v + 1 - at] ELSE a[v]]
  <2>1. at + mem.copied = at + len - 1
    <3> DEFINE k == mem.copied
    <3>1. at \in Nat /\ len \in Nat /\ k \in Nat /\ k + 1 = len
      BY <1>1
    <3> HIDE DEF at, len, k
    <3>2. at + k = at + len - 1
      BY <3>1
    <3> QED
      BY <3>2 DEF k
  <2> QED
    BY <1>1, <2>1 DEF MovedMap
<1>3. Once(a) /\ Img(d) \intersect Img(a) = {} /\ \A v \in 1..n : a[v] \in Nat
  <2>1. Once(a) /\ Img(d) \intersect Img(a) = {}
    BY DEF Allocating, Working
  <2> QED
    BY <1>1, <2>1 DEF Clusters
<1>4. new \in Nat
  BY ResizeAssumption DEF Allocating, Program
<1> HIDE DEF n, m, a, d, at, len, new
<1>5. \A v \in 1..n :
         \/ m[v] = a[v] /\ v \notin at..at + len - 1
         \/ \E j \in 1..len : v = at + j - 1 /\ m[v] = d[j] /\ a[v] >= new
  <2> TAKE v \in 1..n
  <2>1. CASE v \in at..at + len - 1
    <3>1. v + 1 - at \in 1..len /\ v = at + (v + 1 - at) - 1
      BY <1>1, <2>1
    <3>2. m[v] = d[v + 1 - at]
      BY <1>2, <2>1
    <3>3. a[at + (v + 1 - at) - 1] >= new
      BY <1>1, <3>1
    <3>4. a[v] >= new
      BY <3>1, <3>3
    <3> QED
      BY <3>1, <3>2, <3>4
  <2>2. CASE v \notin at..at + len - 1
    BY <1>2, <2>2
  <2> QED
    BY <2>1, <2>2
<1>6. \A j \in 1..len : m[at + j - 1] = d[j]
  <2> TAKE j \in 1..len
  <2>1. at + j - 1 \in at..at + len - 1 /\ (at + j - 1) + 1 - at = j
    BY <1>1
  <2>2. at + j - 1 \in 1..n
    BY <1>1
  <2> QED
    BY <1>2, <2>1, <2>2
<1>7. \A v \in 1..n : a[v] < new => m[v] = a[v]
  BY <1>3, <1>4, <1>5
<1>8. m \in [1..n -> Clusters]
  <2>1. \A v \in 1..n : m[v] \in Clusters
    BY <1>1, <1>5
  <2> QED
    BY <1>2, <2>1
<1>9. Img(m) \subseteq Img(a) \union Img(d)
  BY <1>1, <1>5, <1>8 DEF Img
<1>10. Img(d) \subseteq Img(m)
  <2> SUFFICES ASSUME NEW c \in Img(d) PROVE c \in Img(m)
    OBVIOUS
  <2>1. PICK j \in 1..len : c = d[j]
    BY <1>1 DEF Img
  <2>2. at + j - 1 \in DOMAIN m /\ m[at + j - 1] = c
    BY <1>1, <1>6, <1>8, <2>1
  <2> QED
    BY <2>2 DEF Img
<1>11. \A c \in Img(a) : c < new => c \in Img(m)
  <2> SUFFICES ASSUME NEW c \in Img(a), c < new PROVE c \in Img(m)
    OBVIOUS
  <2>1. PICK v \in 1..n : c = a[v]
    BY <1>1 DEF Img
  <2>2. v \in DOMAIN m /\ m[v] = c
    BY <1>7, <1>8, <2>1
  <2> QED
    BY <2>2 DEF Img
<1>12. Once(m)
  <2> SUFFICES ASSUME NEW v \in 1..n, NEW w \in 1..n, m[v] = m[w] PROVE v = w
    BY <1>8 DEF Once
  <2>1. \A x \in 1..n : a[x] \in Img(a)
    BY <1>1 DEF Img
  <2>2. \A j \in 1..len : d[j] \in Img(d)
    BY <1>1 DEF Img
  <2>3. CASE m[v] = a[v] /\ m[w] = a[w]
    BY <1>1, <1>3, <2>3 DEF Once
  <2>4. CASE (\E j \in 1..len : v = at + j - 1 /\ m[v] = d[j]) /\ \E j \in 1..len : w = at + j - 1 /\ m[w] = d[j]
    BY <1>1, <2>4
  <2>5. CASE m[v] = a[v] /\ \E j \in 1..len : m[w] = d[j]
    BY <1>3, <2>1, <2>2, <2>5
  <2>6. CASE m[w] = a[w] /\ \E j \in 1..len : m[v] = d[j]
    BY <1>3, <2>1, <2>2, <2>6
  <2> QED
    BY <1>5, <2>3, <2>4, <2>5, <2>6
<1> QED
  BY <1>5, <1>6, <1>7, <1>8, <1>9, <1>10, <1>11, <1>12 DEF n, m, a, d, at, len, new

(* The last cluster of a run is copied and the run taken into the runlist. *)
LEMMA WorkingMoved ==
    ASSUME Allocating, Copying, mem.copied + 1 = Len(mem.dest),
           pc' \in {"allocate", "record"}, mem'.new = mem.new, mem'.at = mem.at, mem'.moved = mem.moved,
           mem'.dest = <<>>, mem'.rec = Rec(MovedMap, mem.rec.size),
           pc' = "allocate" <=> Outside(mem'.rec) # {},
           \A f \in Records : At(f)' = At(f), \A f \in Records : Length(f)' = Length(f)
    PROVE  Working' /\ (Now = MftMirr => pc' = "record")
<1> DEFINE m == MovedMap
<1>1. /\ pc = "copy" /\ pc \in Moving /\ pc' \in Moving /\ Now' = Now /\ Clusters' = Clusters
      /\ Now \in Records /\ Now \in Owners /\ At(Now)' = At(Now) /\ Length(Now)' = Length(Now)
      /\ Clusters \subseteq 0..Device - 1
  <2>1. pc = "copy" /\ pc \in Moving /\ pc' \in Moving
    BY Phases DEF Copying
  <2>2. Clusters' = Clusters /\ Clusters \subseteq 0..Device - 1 /\ Now' = Now
    BY DEF Clusters, Now
  <2>3. Now \in Records /\ Now \in Owners
    BY <2>1, NowIs DEF Allocating
  <2> QED
    BY <2>1, <2>2, <2>3
<1>2. /\ mem.rec.size = At(Now).size
      /\ \A v \in 1..Length(Now) : cell[mem.rec.map[v]] = cell[At(Now).map[v]]
      /\ \A v \in 1..Length(Now) : At(Now).map[v] < mem.new => mem.rec.map[v] = At(Now).map[v]
      /\ \A v \in 1..Length(Now) : mem.rec.map[v] = At(Now).map[v] \/ mem.rec.map[v] < mem.new
      /\ \A i \in 1..mem.copied : cell[mem.dest[i]] = cell[mem.rec.map[RunAt + i - 1]]
      /\ (Now = MftMirr => mem.moved # Unmoved)
  BY <1>1 DEF Allocating, Working
<1>3. /\ m \in [1..Length(Now) -> Clusters] /\ Once(m)
      /\ \A v \in 1..Length(Now) :
            \/ m[v] = mem.rec.map[v] /\ v \notin RunAt..RunAt + RunLen - 1
            \/ \E j \in 1..RunLen : v = RunAt + j - 1 /\ m[v] = mem.dest[j] /\ mem.rec.map[v] >= mem.new
      /\ \A v \in 1..Length(Now) : mem.rec.map[v] < mem.new => m[v] = mem.rec.map[v]
  BY MovedMapIs
<1>4. mem'.rec.map = m /\ mem'.rec.size = mem.rec.size /\ mem'.rec = Rec(mem'.rec.map, mem'.rec.size)
  BY DEF Rec
<1> HIDE DEF m
<1>5. IsRec(mem.rec, Length(Now))' /\ Once(mem.rec.map)' /\ mem'.rec.size = At(Now)'.size
  BY <1>1, <1>2, <1>3, <1>4 DEF IsRec, Once
<1>6. \A v \in 1..Length(Now) : cell'[mem.rec.map[v]] = cell[mem.rec.map[v]]
                                /\ cell'[At(Now).map[v]] = cell[At(Now).map[v]]
  BY <1>1 DEF Copying
<1>7. \A j \in 1..RunLen : cell'[mem.dest[j]] = cell'[mem.rec.map[RunAt + j - 1]]
  <2> TAKE j \in 1..RunLen
  <2>0. RunLen = mem.copied + 1 /\ mem.copied \in Nat /\ RunLen \in Nat /\ mem.copied + 1 \in 1..RunLen
        /\ RunAt + j - 1 \in 1..Length(Now) /\ RunAt \in Nat
    BY DEF Copying
  <2>1. CASE j = mem.copied + 1
    <3>1. mem.dest[j] = Target /\ RunAt + j - 1 = RunAt + mem.copied
      BY <2>0, <2>1 DEF Target
    <3>2. mem.rec.map[RunAt + j - 1] = Source
      BY <3>1 DEF Source
    <3>3. cell'[mem.dest[j]] = cell[mem.rec.map[RunAt + j - 1]]
      BY <3>1, <3>2 DEF Copying
    <3> QED
      BY <1>6, <2>0, <3>3
  <2>2. CASE j # mem.copied + 1
    <3>1. j \in 1..mem.copied
      BY <2>0, <2>2
    <3>2. mem.dest[j] # Target /\ mem.dest[j] \in 0..Device - 1
      BY <1>1, <2>0, <2>2 DEF Copying, Target
    <3>3. cell'[mem.dest[j]] = cell[mem.dest[j]]
      BY <3>2 DEF Copying
    <3> QED
      BY <1>2, <1>6, <2>0, <3>1, <3>3
  <2> QED
    BY <2>1, <2>2
<1>8. \A v \in 1..Length(Now) : cell'[m[v]] = cell'[At(Now).map[v]]
  BY <1>2, <1>3, <1>6, <1>7
<1>9. \A v \in 1..Length(Now) : mem.rec.map[v] \in Nat /\ At(Now).map[v] \in Nat
  BY DEF Copying, Clusters
<1>10. mem.new \in Nat
  BY ResizeAssumption DEF Allocating, Program
<1>11. \A v \in 1..Length(Now) : At(Now).map[v] < mem.new => m[v] = At(Now).map[v]
  BY <1>2, <1>3
<1>12. \A v \in 1..Length(Now) : m[v] = At(Now).map[v] \/ m[v] < mem.new
  <2> TAKE v \in 1..Length(Now)
  <2>1. \A j \in 1..RunLen : mem.dest[j] < mem.new
    BY DEF Copying
  <2>2. CASE m[v] = mem.rec.map[v]
    BY <1>2, <2>2
  <2>3. CASE \E j \in 1..RunLen : m[v] = mem.dest[j]
    BY <2>1, <2>3
  <2> QED
    BY <1>3, <2>2, <2>3
<1>13. /\ \A v \in 1..Length(Now)' : cell'[mem'.rec.map[v]] = cell'[At(Now)'.map[v]]
       /\ \A v \in 1..Length(Now)' : At(Now)'.map[v] < mem'.new => mem'.rec.map[v] = At(Now)'.map[v]
       /\ \A v \in 1..Length(Now)' : mem'.rec.map[v] = At(Now)'.map[v] \/ mem'.rec.map[v] < mem'.new
  BY <1>1, <1>4, <1>8, <1>11, <1>12
<1>14. mem'.dest \in Seq(Clusters)' /\ Once(mem.dest)' /\ Img(mem.dest)' = {}
  BY EmptyMap DEF Once, Img, Clusters
<1>15. Now = MftMirr => pc' = "record"
  <2> SUFFICES ASSUME Now = MftMirr PROVE Outside(mem'.rec) = {}
    OBVIOUS
  <2>1. RunAt = 1 /\ RunLen = 2 /\ Length(Now) = 2
    BY <1>1, WholeMirror, LengthsAre
  <2>2. \A v \in 1..2 : m[v] < mem.new
    <3> TAKE v \in 1..2
    <3>1. v \in RunAt..RunAt + RunLen - 1
      BY <2>1
    <3>2. PICK j \in 1..RunLen : m[v] = mem.dest[j]
      BY <1>3, <2>1, <3>1
    <3> QED
      BY <3>2 DEF Copying
  <2>3. Len(mem'.rec.map) = 2 /\ \A v \in 1..2 : m[v] \in Nat
    BY <1>3, <1>4, <2>1, FunIsSeq DEF Clusters
  <2>4. \A v \in 1..2 : ~(m[v] >= mem.new)
    BY <1>10, <2>2, <2>3
  <2> QED
    BY <1>4, <2>3, <2>4 DEF Outside
<1>16. Outside(mem.rec)' = Outside(mem'.rec)
  BY DEF Outside
<1>17. pc' = "allocate" => Len(mem'.dest) < RunLen'
  <2> SUFFICES ASSUME pc' = "allocate" PROVE Len(mem'.dest) < RunLen'
    OBVIOUS
  <2>1. Length(Now)' \in Nat /\ IsRec(mem.rec, Length(Now))' /\ Outside(mem.rec)' # {} /\ mem'.new \in Nat
    BY <1>1, <1>5, <1>10, <1>16 DEF Copying
  <2>2. IsRun(Length(Now))'
    BY <2>1, RunsAreNext
  <2>3. RunLen' \in 1..Length(Now)' + 1 - RunAt' /\ Len(mem'.dest) = 0
    BY <2>2 DEF IsRun
  <2> QED
    BY <2>3
<1>18. /\ (Now' = MftMirr => pc' = "record" /\ mem'.moved # Unmoved')
       /\ (pc' = "record" => Outside(mem.rec)' = {} /\ mem'.dest = <<>>)
       /\ (pc' # "record" => Outside(mem.rec)' # {}) /\ pc' # "copy"
  BY <1>1, <1>2, <1>15, <1>16 DEF Unmoved
<1> QED
  BY <1>5, <1>13, <1>14, <1>15, <1>17, <1>18 DEF Working

(* copy_clusters, the last cluster of a run, and rl_insert_at_run.         *)
LEMMA CopyEnds ==
    ASSUME IInv, Copy, ~(mem.copied + 1 < Len(mem.dest))
    PROVE  IInv'
<1> DEFINE rec == [mem.rec EXCEPT !.map = MovedMap]
<1>1. /\ pc = "copy" /\ mem' = [mem EXCEPT !.rec = rec, !.dest = <<>>, !.copied = 0]
      /\ pc' = IF Outside(rec) # {} THEN "allocate" ELSE "record"
  BY DEF Copy, In, MovedMap
<1>2. pc \in Moving /\ pc' \in {"allocate", "record"} /\ pc' \in Moving /\ pc \in Early /\ pc' \in Early
      /\ pc' \notin Late /\ pc' \in Turns
  BY <1>1, Phases
<1>3. Allocating
  BY <1>2, AllocatingIs
<1>4. Copying
  BY <1>3, CopyingIs
<1>5. /\ Running /\ Layout /\ Apart /\ Program /\ Reserved /\ Turning
      /\ Mirror /\ Working /\ Plain /\ dirty
  BY <1>3 DEF Allocating
<1>6. /\ boot' = boot /\ dirty' = dirty /\ split' = split /\ behind = {} /\ behind' = {}
      /\ mem.copied + 1 = Len(mem.dest)
  BY <1>4 DEF Copying
<1>7. rec = Rec(MovedMap, mem.rec.size)
  <2>1. mem.rec = Rec(mem.rec.map, mem.rec.size)
    BY <1>1, <1>2, <1>5 DEF Working, IsRec
  <2> QED
    BY <2>1 DEF Rec
<1> HIDE DEF rec
<1>8. /\ IsMem(mem') /\ mem'.new = mem.new /\ mem'.mft = mem.mft /\ mem'.mirr = mem.mirr
      /\ mem'.relocations = mem.relocations /\ mem'.at = mem.at /\ mem'.pass = mem.pass
      /\ mem'.high = mem.high /\ mem'.rec = rec /\ mem'.copied = 0
      /\ mem'.pos = mem.pos /\ mem'.bm = mem.bm /\ mem'.dest = <<>> /\ mem'.moved = mem.moved
  <2>1. IsMem(mem)
    BY <1>5 DEF Program
  <2> QED
    BY <1>1, <2>1 DEF IsMem
<1>9. Kept
  BY <1>2, <1>5, <1>6, <1>8 DEF Kept, Program
<1>10. /\ Layout' /\ Running' /\ Program' /\ Home' = Home
       /\ \A f \in Records : At(f)' = At(f)
       /\ \A f \in Records : Length(f)' = Length(f)
       /\ \A v : Spot(v)' = Spot(v)
       /\ \A f \in Owners : Old(f)' = Old(f) /\ Img(At(f).map)' = Img(At(f).map)
  BY <1>3, <1>4, <1>9, CopyFrame
<1>11. Now' = Now /\ Now \in Records /\ Now \in Owners
  BY <1>2, <1>5, <1>8, NowIs DEF Now
<1>12. /\ Img(MovedMap) \subseteq Img(mem.rec.map) \union Img(mem.dest)
       /\ Img(mem.dest) \subseteq Img(MovedMap)
       /\ \A c \in Img(mem.rec.map) : c < mem.new => c \in Img(MovedMap)
  BY <1>3, <1>4, <1>6, MovedMapIs
<1>13. \A f \in Owners : /\ New(f) = IF f = Now THEN Img(mem.rec.map) \union Img(mem.dest) ELSE {}
                         /\ New(f)' = IF f = Now THEN Img(MovedMap) ELSE {}
  <2>1. \A f \in Owners : New(f)' = IF f = Now THEN Img(mem.rec.map)' \union Img(mem.dest)' ELSE {}
    BY <1>2, <1>11 DEF New
  <2>2. Img(mem.rec.map)' = Img(MovedMap)
    BY <1>7, <1>8 DEF Img, Rec
  <2>3. Img(mem.dest)' = {}
    BY <1>8, EmptyMap DEF Img
  <2>4. \A f \in Owners : New(f) = IF f = Now THEN Img(mem.rec.map) \union Img(mem.dest) ELSE {}
    BY <1>2 DEF New
  <2> QED
    BY <2>1, <2>2, <2>3, <2>4
<1>14. \A f \in Owners : New(f)' \subseteq New(f)
  BY <1>12, <1>13
<1>15. \A f \in Owners : Hold(f)' \subseteq Hold(f)
  BY <1>10, <1>14, HoldStays
<1>16. Apart'
  BY <1>5, <1>6, <1>10, <1>15, ApartStays
<1>17. Marked' /\ Idles'
  BY <1>2, <1>5, <1>6 DEF Marked, Idles
<1>18. Reserved'
  <2>1. \A c \in mem.bm : c < mem.new =>
           \A f \in Owners : c \in Img(At(f).map) \union New(f) =>
              \E g \in Owners : c \in Img(At(g).map)' \union New(g)'
    <3> SUFFICES ASSUME NEW c \in mem.bm, c < mem.new, NEW f \in Owners, c \in Img(At(f).map) \union New(f)
                 PROVE  c \in Img(At(f).map)' \union New(f)'
      OBVIOUS
    <3>1. CASE c \in Img(At(f).map)
      BY <1>10, <3>1
    <3>2. CASE c \in New(f)
      BY <1>12, <1>13, <3>2
    <3> QED
      BY <3>1, <3>2
  <2> QED
    BY <1>2, <1>5, <1>6, <1>8, <1>15, <2>1, ReservedStays
<1>19. Turning'
  BY <1>2, <1>5, <1>6, <1>8, <1>10, TurnGoesOn
<1>20. Preparing' /\ Ended' /\ Ending'
  BY <1>2, Phases DEF Preparing, Ended, Ending
<1>21. Plain'
  BY <1>2, <1>8 DEF Plain
<1>22. Working' /\ (Now = MftMirr => pc' = "record")
  <2>1. mem'.rec = Rec(MovedMap, mem.rec.size)
    BY <1>7, <1>8
  <2>2. pc' = "allocate" <=> Outside(mem'.rec) # {}
    BY <1>1, <1>8
  <2> QED
    BY <1>2, <1>3, <1>4, <1>6, <1>8, <1>10, <2>1, <2>2, WorkingMoved
<1>23. Mirror'
  <2>1. CASE Now = MftMirr
    <3>1. Still /\ Pair(mem.dest) /\ mem.moved # Unmoved
      BY <1>1, <1>2, <1>5, <2>1 DEF Mirror, Working
    <3>2. MovedMap[1] = mem.dest[1] /\ MovedMap[2] = mem.dest[2]
      <4>1. RunAt = 1 /\ RunLen = 2
        BY <1>1, <1>3, <2>1, WholeMirror
      <4>2. \A j \in 1..2 : MovedMap[1 + j - 1] = mem.dest[j]
        BY <1>3, <1>4, <1>6, <4>1, MovedMapIs
      <4> QED
        BY <4>2
    <3>3. mem'.rec.map = MovedMap
      BY <1>7, <1>8 DEF Rec
    <3>4. Still' /\ Pair(mem.rec.map)'
      BY <1>8, <1>10, <3>1, <3>2, <3>3, SaysStay DEF Pair
    <3>5. /\ mem'.moved # Unmoved' /\ mem'.moved \in [old : Nat, lcn : Clusters', len : {1, 2}]
          /\ mem'.relocations /\ \A v \in 1..2 : mem'.mirr[v] >= mem'.new
      BY <1>5, <1>8, <3>1 DEF Mirror, Unmoved, Clusters
    <3>6. pc' = "record"
      BY <1>22, <2>1
    <3> QED
      BY <1>2, <1>11, <2>1, <3>4, <3>5, <3>6 DEF Mirror
  <2>2. CASE Now # MftMirr
    BY <1>2, <1>5, <1>8, <1>10, <1>11, <2>2, RecordsAre, MirrorStays
  <2> QED
    BY <2>1, <2>2
<1> QED
  BY <1>10, <1>16, <1>17, <1>18, <1>19, <1>20, <1>21, <1>22, <1>23 DEF IInv, Disk, Task

(* copy_clusters and rl_insert_at_run keep the invariant.                  *)
LEMMA CopyKeeps ==
    ASSUME IInv, Copy
    PROVE  IInv'
BY CopyGoesOn, CopyEnds

(* The record fits where it is to be written, as all that is moved does.   *)
LEMMA MovedFits ==
    ASSUME Allocating, pc = "record"
    PROVE  /\ Fits(Now, mem.rec) /\ Now \in Records /\ Now \in Owners /\ Now # Bitmap
           /\ \A c \in Img(mem.rec.map) : c < mem.new
           /\ Img(mem.rec.map) \subseteq New(Now) /\ New(Now) \subseteq Img(mem.rec.map)
           /\ \A v \in 1..Length(Now) : At(Now).map[v] < mem.new => At(Now).map[v] \in Img(mem.rec.map)
           /\ mem.dest = <<>>
<1> DEFINE rec == mem.rec
<1>1. /\ pc \in Moving /\ Running /\ Layout /\ Apart /\ Program /\ Turning /\ Working
  BY DEF Allocating
<1>2. Now \in Records /\ Now \in Owners /\ Now # Bitmap /\ Now # BadClus /\ Length(Now) \in Nat
  BY <1>1, NowIs, LengthsAre
<1>3. /\ IsRec(rec, Length(Now)) /\ Once(rec.map) /\ mem.dest = <<>> /\ Outside(rec) = {}
      /\ \A v \in 1..Length(Now) : cell[rec.map[v]] = cell[At(Now).map[v]]
      /\ \A v \in 1..Length(Now) : At(Now).map[v] < mem.new => rec.map[v] = At(Now).map[v]
  BY <1>1 DEF Working
<1>4. rec.map \in [1..Length(Now) -> Clusters] /\ DOMAIN rec.map = 1..Length(Now) /\ Len(rec.map) = Length(Now)
      /\ \A v \in 1..Length(Now) : rec.map[v] \in Clusters /\ rec.map[v] \in Img(rec.map)
  <2>1. rec.map \in [1..Length(Now) -> Clusters]
    BY <1>3 DEF IsRec
  <2>2. Len(rec.map) = Length(Now)
    BY <1>2, <2>1, FunIsSeq
  <2> QED
    BY <2>1, <2>2 DEF Img
<1>5. mem.new \in Nat /\ 1 < mem.new
  BY <1>1, ResizeAssumption DEF Program
<1>6. \A c \in Img(rec.map) : c < mem.new
  <2>1. \A v \in 1..Length(Now) : rec.map[v] < mem.new
    <3> TAKE v \in 1..Length(Now)
    <3>1. ~(rec.map[v] >= mem.new)
      BY <1>3, <1>4 DEF Outside
    <3>2. rec.map[v] \in Nat
      BY <1>4 DEF Clusters
    <3> QED
      BY <1>5, <3>1, <3>2
  <2> QED
    BY <1>4, <2>1 DEF Img
<1>7. New(Now) = Img(rec.map)
  BY <1>1, <1>3, EmptyMap DEF New
<1>8. Img(rec.map) \subseteq Hold(Now)
  BY <1>7 DEF Hold
<1>9. Now # MftMirr => Img(rec.map) \intersect Img(mem.mirr) = {}
  BY <1>1, <1>2, <1>8, ApartIs
<1>10. Now \notin {Mft, MftExt} => Img(rec.map) \intersect Img(Home) = {}
  BY <1>1, <1>2, <1>8, ApartIs
<1>11. /\ Now = MftExt => split /\ mem.at = 5
       /\ Now = File => mem.at = 6
       /\ mem.at >= 5 => Unread
  <2>1. /\ Now = MftExt => mem.at = 5
        /\ Now = File => mem.at = 6
    BY <1>1, NowIs
  <2>2. /\ mem.pass \in {0, 1} /\ (mem.pass = 0 => mem.at \in {2, 6})
        /\ (mem.pass = 1 => mem.at = 1 \/ (split /\ mem.at = 5))
        /\ (mem.at >= 5 => Unread)
    BY <1>1, Phases DEF Turning
  <2> QED
    BY <2>1, <2>2
<1>12. Now = MftExt => rec.map[1] # Home[2]
  <2> SUFFICES ASSUME Now = MftExt PROVE rec.map[1] # Home[2]
    OBVIOUS
  <2>1. split /\ Length(Mft) = 2 /\ Length(MftExt) = 1
    BY <1>11, LengthsAre
  <2>2. Home[2] \in Old(Mft)
    BY <2>1, NamesApart DEF Old
  <2>3. Home[2] \in Hold(Mft) /\ rec.map[1] \in Hold(MftExt)
    BY <1>4, <1>8, <2>1, <2>2 DEF Hold
  <2>4. Hold(Mft) \intersect Hold(MftExt) = {}
    BY <1>1, ApartIs, NamesApart DEF Owners
  <2> QED
    BY <2>3, <2>4
<1>13. Now = Mft => rec.map[1] = MftStart
  <2> SUFFICES ASSUME Now = Mft PROVE rec.map[1] = MftStart
    OBVIOUS
  <2>1. 1 \in 1..Length(Mft)
    BY <1>1, LengthsAre DEF Layout
  <2>2. At(Mft).map[1] = MftStart /\ MftStart < mem.new
    BY <1>1, <1>5 DEF Layout, MftStart
  <2> QED
    BY <1>3, <2>1, <2>2
<1>14. Now \in {MftExt, File} => Spot(VcnOf(Now)) = Home[VcnOf(Now)]
  BY <1>1, <1>2, <1>11, VcnsAre, RunningHome DEF Unread
<1>15. Fits(Now, rec)
  BY <1>2, <1>3, <1>9, <1>10, <1>11, <1>12, <1>13, <1>14 DEF Fits
<1>16. \A v \in 1..Length(Now) : At(Now).map[v] < mem.new => At(Now).map[v] \in Img(rec.map)
  BY <1>3, <1>4
<1> QED
  BY <1>2, <1>3, <1>6, <1>7, <1>15, <1>16

(* replace_attribute_runlist and write_mft_record                          *)
LEMMA WriteInodeKeeps ==
    ASSUME IInv, WriteInode
    PROVE  IInv'
<1> DEFINE rec == mem.rec
<1>1. /\ behind = {} /\ behind' = {Now} \intersect Range(Mirrored)
      /\ pc = "record" /\ cell' = WithRec(Now, rec) /\ boot' = boot /\ dirty' = dirty /\ split' = split
      /\ IF EndsPass(mem) THEN pc' = "badclus" /\ mem' = mem ELSE pc' = "inode" /\ mem' = NextAt(mem)
  BY DEF WriteInode, In, Now
<1>2. pc \in Moving
  BY <1>1, Phases
<1>3. Allocating
  BY <1>2, AllocatingIs
<1>4. /\ Running /\ Layout /\ Apart /\ Program /\ Reserved /\ Turning /\ pc \in Early
      /\ Mirror /\ Working /\ Plain /\ dirty
  BY <1>3 DEF Allocating
<1>5. /\ Fits(Now, rec) /\ Now \in Records /\ Now \in Owners /\ Now # Bitmap
      /\ \A c \in Img(rec.map) : c < mem.new
      /\ Img(rec.map) \subseteq New(Now) /\ New(Now) \subseteq Img(rec.map)
      /\ \A v \in 1..Length(Now) : At(Now).map[v] < mem.new => At(Now).map[v] \in Img(rec.map)
      /\ mem.dest = <<>>
  BY <1>1, <1>3, MovedFits
<1>6. /\ mem.at \in {1, 2, 5, 6} /\ mem.at \in 1..6 /\ mem.pass \in {0, 1} /\ mem.relocations
      /\ (mem.at = 2 <=> Now = MftMirr) /\ (mem.at = 1 <=> Now = Mft) /\ (mem.at = 5 <=> Now = MftExt)
      /\ (mem.at = 6 <=> Now = File)
  BY <1>2, <1>4, NowIs
<1>7. /\ mem.pass = 0 => mem.at \in {2, 6} /\ mem.high = IF split /\ mem.at <= 5 THEN 1 ELSE 2
      /\ mem.pass = 1 => (mem.at = 1 /\ mem.high = 0) \/ (split /\ mem.at = 5 /\ mem.high = 1)
      /\ mem.pass = 1 \/ mem.at > 2 => Inside(MftMirr)
      /\ mem.pass = 1 => Inside(File)
      /\ mem.pass = 0 \/ mem.at >= 5 \/ ~split => Unread
      /\ mem.pass = 1 /\ mem.at < 5 => Inside(MftExt)
  <2>1. pc \in Turns
    BY <1>1, Phases
  <2>2. /\ mem.pass = 0 => mem.high = IF mem.at = 1 THEN 0 ELSE IF split /\ mem.at <= 5 THEN 1 ELSE 2
        /\ mem.pass = 0 => mem.at \in {2, 6}
        /\ mem.pass = 1 => (mem.at = 1 /\ mem.high = 0) \/ (split /\ mem.at = 5 /\ mem.high = 1)
    BY <1>2, <1>4, <2>1 DEF Turning
  <2>3. /\ mem.pass = 1 \/ mem.at > 2 => Inside(MftMirr)
        /\ mem.pass = 1 => Inside(File)
        /\ mem.pass = 0 \/ mem.at >= 5 \/ ~split => Unread
        /\ mem.pass = 1 /\ mem.at < 5 => Inside(MftExt)
    BY <1>4, <2>1 DEF Turning
  <2> QED
    BY <2>2, <2>3
<1>8. IsMem(mem) /\ mem.mirr \in [1..2 -> Clusters] /\ Once(mem.mirr) /\ mem.new \in Nat
      /\ mem.new < boot.nr /\ boot.nr \in Nat /\ split \in BOOLEAN
  <2>1. split \in BOOLEAN
    BY <1>4 DEF Layout
  <2>2. boot.nr \in Nat
    BY <1>4, ResizeAssumption DEF Layout
  <2> QED
    BY <1>4, <1>6, <2>1, <2>2, ResizeAssumption DEF Program
<1>9. SameBut(mem', mem) /\ pc' \in {"inode", "badclus"}
  <2>1. SameBut(mem, mem)
    BY <1>8 DEF SameBut
  <2>2. SameBut(NextAt(mem), mem)
    <3> DEFINE m == mem
    <3>1. IsMem(m) /\ m.at \in 1..6 /\ m.pass \in {0, 1}
      BY <1>6, <1>8
    <3> HIDE DEF m
    <3>2. SameBut(NextAt(m), m)
      BY <3>1, NextAtIs
    <3> QED
      BY <3>2 DEF m
  <2> QED
    BY <1>1, <2>1, <2>2
<1>10. /\ IsMem(mem') /\ mem'.new = mem.new /\ mem'.mft = mem.mft /\ mem'.mirr = mem.mirr
       /\ mem'.bm = mem.bm /\ mem'.pos = mem.pos /\ mem'.relocations = mem.relocations
       /\ mem'.dest = mem.dest /\ mem'.copied = mem.copied /\ mem'.moved = mem.moved
  BY <1>9 DEF SameBut
<1>11. pc' \notin {"off", "done"} /\ pc' \notin Moving /\ pc' \in Early /\ pc' \notin Late
  BY <1>9, Phases
<1>12. Home' = Home /\ Running' /\ Home = mem.mft
  BY <1>4, <1>10, <1>11, HomeStays, RunningHome
<1> HIDE DEF rec
<1>13. /\ Layout'
       /\ \A g \in Records : At(g)' = IF g = Now THEN rec ELSE At(g)
       /\ \A v \in 1..2 : cell'[mem.mirr[v]] = cell[mem.mirr[v]]
  <2>1. PICK f \in Records : f = Now
    BY <1>5
  <2>2. cell' = WithRec(f, rec) /\ Fits(f, rec)
    BY <1>1, <1>5, <2>1
  <2>3. /\ Layout'
        /\ \A g \in Records : At(g)' = IF g = f THEN rec ELSE At(g)
        /\ \A v \in 1..2 : cell'[mem.mirr[v]] = cell[mem.mirr[v]]
    BY <1>1, <1>4, <1>8, <1>12, <2>2, RecordWritten
  <2> QED
    BY <2>1, <2>3
<1>14. /\ \A f \in Owners : Old(f)' = Old(f)
       /\ \A f \in Owners : f # Now => Img(At(f).map)' = Img(At(f).map)
       /\ Img(At(Now).map) \subseteq Hold(Now)
       /\ \A f \in Owners : f = Now => Img(At(f).map)' = Img(rec.map)
  <2>1. \A f \in Owners : Old(f)' = Old(f)
    BY <1>1, <1>4, <1>10, <1>12, OldStays
  <2>2. \A f \in Owners : f # Now => Img(At(f).map)' = Img(At(f).map)
    BY <1>13, RecordsAre DEF Img
  <2>3. \A f \in Owners : f = Now => Img(At(f).map)' = Img(rec.map)
    BY <1>13, RecordsAre DEF Img
  <2> QED
    BY <2>1, <2>2, <2>3 DEF Hold
<1>15. Program'
  <2>1. \A v \in 1..2 : /\ mem'.mirr[v] = boot'.mirr + v - 1
                        /\ Mirrored[v] \in behind' \/ cell'[mem'.mirr[v]] = [rec |-> At(Mirrored[v])']
    <3> TAKE v \in 1..2
    <3>1. Mirrored[v] \in Records /\ Mirrored[v] \in Range(Mirrored)
      BY MirroredAre
    <3>2. mem.mirr[v] = boot.mirr + v - 1 /\ cell[mem.mirr[v]] = [rec |-> At(Mirrored[v])]
      BY <1>1, <1>4 DEF Program
    <3>3. CASE Mirrored[v] = Now
      BY <1>1, <1>10, <3>1, <3>2, <3>3
    <3>4. CASE Mirrored[v] # Now
      BY <1>1, <1>10, <1>13, <3>1, <3>2, <3>4
    <3> QED
      BY <3>3, <3>4
  <2>2. behind' = {} \/ \E v \in 1..2 : behind' = {Mirrored[v]}
    BY <1>1, MirroredAre, RecordsAre
  <2> QED
    BY <1>1, <1>4, <1>9, <1>10, <2>1, <2>2 DEF Program, Clusters
<1>16. (\A f : New(f)' = {}) /\ (\A f : f # Now => New(f) = {}) /\ Working'
  BY <1>11 DEF New, Working
<1>17. \A f \in Owners : Hold(f)' \subseteq Hold(f)
  <2> TAKE f \in Owners
  <2>1. Hold(f)' = Img(At(f).map)' \union Old(f)
    BY <1>14, <1>16 DEF Hold
  <2>2. CASE f = Now
    BY <1>5, <1>14, <2>1, <2>2 DEF Hold
  <2>3. CASE f # Now
    BY <1>14, <2>1, <2>3 DEF Hold
  <2> QED
    BY <2>2, <2>3
<1>18. Apart'
  <2> DEFINE nr == boot.nr
  <2>1. /\ boot'.nr = nr
        /\ \A f \in Owners : Hold(f) \intersect {} = {}
        /\ \A f \in Owners : f # Mft => Hold(f)' \subseteq Hold(f)
        /\ Hold(Mft)' \subseteq Hold(Mft) \union {}
        /\ Mft \in Owners
    BY <1>1, <1>17 DEF Owners
  <2>2. \A f \in Owners : \A c \in Img(At(f).map)' : c < nr
    <3> TAKE f \in Owners
    <3>1. CASE f = Now
      <4>1. IsRec(rec, Length(Now))
        BY <1>5 DEF Fits
      <4>2. \A c \in Img(rec.map) : c \in Nat
        <5>1. rec.map \in [1..Length(Now) -> Clusters] /\ Clusters \subseteq Nat
          BY <4>1 DEF IsRec, Clusters
        <5> QED
          BY <5>1 DEF Img
      <4>3. \A c \in Img(rec.map) : c < nr
        BY <1>5, <1>8, <4>2
      <4> QED
        BY <1>14, <3>1, <4>3
    <3>2. CASE f # Now
      BY <1>4, <1>14, <3>2, ApartIs
    <3> QED
      BY <3>1, <3>2
  <2> HIDE DEF nr
  <2> QED
    BY <1>4, <2>1, <2>2, ApartGrows
<1>19. Marked' /\ Idles'
  BY <1>1, <1>4, <1>9 DEF Marked, Idles
<1>20. Reserved'
  <2>1. \A c \in mem.bm : c < mem.new =>
           \A f \in Owners : c \in Img(At(f).map) \union New(f) =>
              \E g \in Owners : c \in Img(At(g).map)' \union New(g)'
    <3> SUFFICES ASSUME NEW c \in mem.bm, c < mem.new, NEW f \in Owners, c \in Img(At(f).map) \union New(f)
                 PROVE  c \in Img(At(f).map)' \union New(f)'
      OBVIOUS
    <3>1. CASE f # Now
      BY <1>14, <1>16, <3>1
    <3>2. CASE f = Now /\ c \in New(f)
      BY <1>5, <1>14, <3>2
    <3>3. CASE f = Now /\ c \in Img(At(f).map)
      <4>1. PICK v \in 1..Length(Now) : c = At(Now).map[v]
        BY <1>4, <1>5, <3>3, MapsAre
      <4> QED
        BY <1>5, <1>14, <3>3, <4>1
    <3> QED
      BY <3>1, <3>2, <3>3
  <2> QED
    BY <1>1, <1>4, <1>10, <1>17, <2>1, ReservedStays
<1>21. \A f \in Owners : Inside(f)' <=> (f = Now \/ Inside(f))
  <2> TAKE f \in Owners
  <2>1. CASE f = Now
    BY <1>5, <1>10, <1>14, <2>1 DEF Inside
  <2>2. CASE f # Now
    BY <1>10, <1>14, <2>2 DEF Inside
  <2> QED
    BY <2>1, <2>2
<1>22. Settled
  <2>1. {Mft, MftExt, MftMirr, File} \subseteq Owners /\ Mft \in Records /\ MftExt \in Records
    BY RecordsAre DEF Owners
  <2>2. mem.pass = 1 \/ mem.at >= 2 => Inside(MftMirr)'
    BY <1>6, <1>7, <1>21, <2>1
  <2>3. mem.pass = 1 \/ mem.at = 6 => Inside(File)'
    BY <1>6, <1>7, <1>21, <2>1
  <2>4. mem.pass = 1 /\ mem.at <= 5 => Inside(MftExt)'
    BY <1>6, <1>7, <1>21, <2>1
  <2>5. mem.pass = 1 /\ mem.at = 1 => Inside(Mft)'
    BY <1>6, <1>21, <2>1
  <2>6. mem.pass = 0 \/ mem.at = 6 \/ (~split /\ mem.at > 1) => Unread'
    <3> SUFFICES ASSUME mem.pass = 0 \/ mem.at = 6 \/ (~split /\ mem.at > 1) PROVE Unread'
      OBVIOUS
    <3>1. mem.pass = 0 /\ Unread
      BY <1>6, <1>7
    <3>2. Now # Mft /\ Now # MftExt
      BY <1>6, <1>7, <3>1
    <3>3. At(Mft)' = At(Mft) /\ At(MftExt)' = At(MftExt)
      BY <1>13, <2>1, <3>2
    <3>4. \A v : Spot(v)' = Spot(v)
      BY <1>1, <3>3 DEF Spot
    <3> QED
      BY <1>10, <3>1, <3>4 DEF Unread
  <2>7. mem.pass = 1 /\ mem.at > 1 /\ mem.at <= 5 /\ split => At(Mft)'.map[2] = mem'.mft[2]
    <3> SUFFICES ASSUME mem.pass = 1, mem.at > 1 PROVE At(Mft)'.map[2] = mem'.mft[2]
      OBVIOUS
    <3>1. mem.at = 5 /\ Unread /\ Now # Mft
      BY <1>6, <1>7
    <3>2. Spot(2) = mem.mft[2] /\ Spot(2) = At(Mft).map[2]
      BY <3>1 DEF Unread, Spot
    <3> QED
      BY <1>10, <1>13, <2>1, <3>1, <3>2
  <2> QED
    BY <2>2, <2>3, <2>4, <2>5, <2>6, <2>7 DEF Settled
<1>23. mem.high = HighBehind
  BY <1>6, <1>7, <1>8 DEF HighBehind
<1>24. /\ Turning' /\ Ended'
       /\ pc' = "inode" /\ mem'.pass = 0 /\ mem'.at <= 2 => mem.at = 1 /\ mem.pass = 0
  <2>1. PICK m : m = mem
    OBVIOUS
  <2>2. /\ IsMem(m) /\ m.at = mem.at /\ m.pass = mem.pass /\ m.relocations /\ m.high = HighBehind
        /\ IF EndsPass(m) THEN pc' = "badclus" /\ mem' = m ELSE pc' = "inode" /\ mem' = NextAt(m)
    BY <1>1, <1>6, <1>8, <1>23, <2>1
  <2> QED
    BY <1>1, <1>6, <1>8, <1>22, <2>2, TurnEnds
<1>25. Preparing' /\ Plain' /\ Ending'
  BY <1>1, <1>4, <1>5, <1>9, <1>10, <1>11, Phases DEF Preparing, Plain, Ending
<1>26. Mirror'
  <2>1. pc' = "prepare" \/ (pc' = "inode" /\ mem'.pass = 0 /\ mem'.at <= 2) => mem.at = 1 /\ mem.pass = 0
    BY <1>9, <1>24
  <2>2. ~(pc' = "prepare" \/ (pc' = "inode" /\ mem'.pass = 0 /\ mem'.at <= 2))
    BY <1>7, <2>1
  <2>3. CASE Now = MftMirr
    <3>1. mem.moved # Unmoved /\ Pair(rec.map)
      BY <1>1, <1>2, <1>4, <2>3 DEF Mirror, Working, rec
    <3>2. Pair(At(MftMirr).map)'
      BY <1>10, <1>13, <2>3, <3>1, RecordsAre DEF Pair
    <3>3. /\ mem'.moved # Unmoved' /\ mem'.moved \in [old : Nat, lcn : Clusters', len : {1, 2}]
          /\ mem'.relocations /\ \A v \in 1..2 : mem'.mirr[v] >= mem'.new
      BY <1>4, <1>10, <3>1 DEF Mirror, Unmoved, Clusters
    <3> QED
      BY <1>11, <2>2, <3>2, <3>3 DEF Mirror
  <2>4. CASE Now # MftMirr
    <3>1. At(MftMirr)' = At(MftMirr)
      BY <1>13, <2>4, RecordsAre
    <3> QED
      BY <1>4, <1>10, <1>11, <2>2, <2>4, <3>1, MirrorStays
  <2> QED
    BY <2>3, <2>4
<1> QED
  BY <1>12, <1>13, <1>15, <1>16, <1>18, <1>19, <1>20, <1>24, <1>25, <1>26 DEF IInv, Disk, Task

(* ntfs_mft_records_write: behind the record in $MFT the one in the mirror *)
(* is written, and neither is behind the other any more.                   *)
LEMMA WriteMirrorKeeps ==
    ASSUME IInv, WriteMirror
    PROVE  IInv'
<1>1. /\ pc \notin {"off", "done"} /\ behind # {} /\ behind' = {}
      /\ boot' = boot /\ dirty' = dirty /\ split' = split /\ pc' = pc /\ mem' = mem
  BY DEF WriteMirror
<1>2. PICK v \in 1..Len(Mirrored) : /\ Mirrored[v] \in behind
                                   /\ cell' = [cell EXCEPT ![mem.mirr[v]] = [rec |-> MemRec(Mirrored[v])]]
  BY DEF WriteMirror
<1>3. v \in 1..2 /\ Len(Mirrored) = 2
  BY RecordsAre
<1>4. /\ Running /\ Layout /\ Apart /\ Program /\ Reserved /\ Turning /\ Ended /\ Mirror /\ Plain /\ Ending
      /\ Marked
  BY <1>1 DEF IInv, Disk, Task, Running
<1>5. pc \in {"inode", "badclus"} /\ behind = {Mirrored[v]}
  BY <1>1, <1>2, <1>4 DEF Program
<1>6. pc \in Early /\ pc \notin Moving /\ pc' \notin Moving /\ pc \notin Late \union {"bitmap", "prepare"}
  BY <1>1, <1>5, Phases
<1>7. Home' = Home /\ Running' /\ MemRec(Mirrored[v]) = At(Mirrored[v])
  BY <1>1, <1>4, HomeStays, MemRecIs
<1> DEFINE to == mem.mirr[v]
           val == [rec |-> MemRec(Mirrored[v])]
<1>8. to \in Img(mem.mirr) /\ Img(mem.mirr) \subseteq Hold(MftMirr)
      /\ \A f \in Owners \ {MftMirr} : Hold(f) \intersect Img(mem.mirr) = {}
  BY <1>3, <1>4, ApartIs DEF Img, Program
<1>9. /\ Img(mem.mirr) \intersect Img(Home) = {}
      /\ \A f \in Owners : Img(At(f).map) \subseteq Hold(f)
  BY <1>4, ApartIs
<1>10. to \notin Laid
  <2>1. {Mft, MftExt, File} \subseteq Owners \ {MftMirr}
    BY NamesApart DEF Owners
  <2> HIDE DEF to
  <2> QED
    BY <1>8, <1>9, <2>1 DEF Laid
<1>11. to # At(Bitmap).map[1]
  <2>1. Bitmap \in Owners \ {MftMirr} /\ Bitmap \in Records /\ 1 \in 1..Length(Bitmap)
    BY LengthsAre, RecordsAre, NamesApart DEF Owners
  <2>2. At(Bitmap).map[1] \in Img(At(Bitmap).map)
    BY <1>4, <2>1, MapsAre
  <2> HIDE DEF to
  <2> QED
    BY <1>8, <1>9, <2>1, <2>2
<1>12. /\ cell = [c \in 0..Device - 1 |-> cell[c]]
       /\ Laid \union Img(mem.mirr) \subseteq 0..Device - 1 /\ At(Bitmap).map[1] \in 0..Device - 1
  BY <1>4, LaidIsThere
<1> HIDE DEF val
<1>13. /\ cell' = [c \in 0..Device - 1 |-> cell'[c]]
       /\ \A c \in 0..Device - 1 : c # to => cell'[c] = cell[c]
       /\ cell'[to] = val
  <2>1. cell' = [cell EXCEPT ![to] = val]
    BY <1>2 DEF val
  <2> HIDE DEF to
  <2> QED
    BY <1>8, <1>12, <2>1
<1>14. \A c \in Laid : cell'[c] = cell[c]
  BY <1>10, <1>12, <1>13
<1>15. cell'[At(Bitmap).map[1]] = [bits |-> cell'[At(Bitmap).map[1]].bits]
  BY <1>4, <1>11, <1>12, <1>13 DEF Layout
<1>16. /\ Layout' /\ \A f \in Records : At(f)' = At(f)
       /\ \A f \in Records : Length(f)' = Length(f)
       /\ \A w : Spot(w)' = Spot(w)
  BY <1>1, <1>4, <1>7, <1>13, <1>14, <1>15, LayoutStays
<1>17. /\ \A f \in Owners : Old(f)' = Old(f) /\ Img(At(f).map)' = Img(At(f).map)
       /\ \A f \in Owners : New(f)' = New(f)
  <2>1. \A f \in Owners : Old(f)' = Old(f)
    BY <1>1, <1>4, <1>7, OldStays
  <2>2. Owners \subseteq Records
    BY RecordsAre DEF Owners
  <2> QED
    BY <1>1, <1>6, <1>16, <2>1, <2>2 DEF New, Img
<1>18. \A f \in Owners : Hold(f)' \subseteq Hold(f)
  BY <1>17, HoldStays
<1>19. Apart'
  BY <1>1, <1>4, <1>17, <1>18, ApartStays
<1>20. Marked' /\ Idles'
  BY <1>1, <1>4, <1>5 DEF Marked, Idles
<1>21. Program'
  <2>1. \A w \in 1..2 : cell'[mem.mirr[w]] = [rec |-> At(Mirrored[w])]
    <3> TAKE w \in 1..2
    <3>1. mem.mirr[w] \in 0..Device - 1 /\ (mem.mirr[w] = to => w = v)
      BY <1>3, <1>4, <1>12 DEF Program, Img, Once
    <3>2. CASE w = v
      BY <1>7, <1>13, <3>2 DEF val
    <3>3. CASE w # v
      <4>1. Mirrored[w] \notin behind
        BY <1>3, <1>5, <3>3, MirroredAre
      <4>2. cell[mem.mirr[w]] = [rec |-> At(Mirrored[w])]
        BY <1>4, <4>1 DEF Program
      <4> QED
        BY <1>13, <3>1, <3>3, <4>2
    <3> QED
      BY <3>2, <3>3
  <2>2. \A w \in 1..2 : At(Mirrored[w])' = At(Mirrored[w])
    BY <1>16, MirroredAre
  <2>3. \A w \in 1..2 : cell'[mem'.mirr[w]] = [rec |-> At(Mirrored[w])']
    BY <1>1, <2>1, <2>2
  <2>4. (\A c \in Img(mem.mirr) : c < mem.new)' = (\A c \in Img(mem.mirr) : c < mem.new)
    BY <1>1
  <2>5. (\A c \in Img(mem.mirr) : c >= mem.new)' = (\A c \in Img(mem.mirr) : c >= mem.new)
    BY <1>1
  <2>6. Once(mem.mirr)' /\ IsMem(mem')
    BY <1>1, <1>4 DEF Program, Once
  <2> QED
    BY <1>1, <1>4, <2>3, <2>4, <2>5, <2>6 DEF Program
<1>22. /\ \A f \in Records : Inside(f)' = Inside(f)
       /\ Unread' = Unread /\ Still' = Still
  BY <1>1, <1>16, SaysStay
<1>23. Reserved'
  BY <1>1, <1>4, <1>6, <1>17, <1>18, ReservedStays
<1>24. Turning'
  BY <1>1, <1>4, <1>16, <1>22, RecordsAre DEF Turning
<1>25. Preparing' /\ Ended' /\ Plain'
  <2>1. Owners \subseteq Records
    BY RecordsAre DEF Owners
  <2> QED
    BY <1>1, <1>4, <1>6, <1>22, <2>1 DEF Preparing, Ended, Plain
<1>26. Mirror'
  <2>1. pc' = "prepare" \/ (pc' = "inode" /\ mem'.pass = 0 /\ mem'.at <= 2) => mem.moved = Unmoved
    BY <1>1, <1>4 DEF Mirror
  <2>2. At(MftMirr)' = At(MftMirr)
    BY <1>16, RecordsAre
  <2> QED
    BY <1>1, <1>4, <1>6, <2>1, <2>2, MirrorStays
<1>27. Working' /\ Ending'
  <2>1. pc' \notin Moving /\ pc' \notin {"bitmap"} \union Late /\ pc' \notin {"bitmap record", "boot"}
    BY <1>1, <1>5, Phases
  <2> QED
    BY <2>1 DEF Working, Ending
<1> QED
  BY <1>7, <1>16, <1>19, <1>20, <1>21, <1>23, <1>24, <1>25, <1>26, <1>27 DEF IInv, Disk, Task

(* Nine clusters in use are nine different ones.                           *)
LEMMA NineApart ==
    ASSUME NEW s, DOMAIN s = 1..9, Cardinality(Img(s)) = 9
    PROVE  \A i, j \in 1..9 : s[i] = s[j] => i = j
<1> DEFINE N == 1..9
           T == Img(s)
           f == [i \in N |-> s[i]]
<1>1. IsFiniteSet(N) /\ Cardinality(N) = 9
  <2> DEFINE one == 1  nine == 9
  <2>1. one \in Int /\ nine \in Int /\ ~(one > nine) /\ nine - one + 1 = 9
    OBVIOUS
  <2> HIDE DEF one, nine
  <2>2. IsFiniteSet(one..nine) /\ Cardinality(one..nine) = 9
    BY <2>1, FS_Interval
  <2> QED
    BY <2>2 DEF one, nine
<1>2. f \in Surjection(N, T)
  BY DEF Surjection, Img
<1> HIDE DEF N, T
<1>3. Cardinality(N) = Cardinality(T)
  BY <1>1 DEF T
<1> HIDE DEF f
<1>4. f \in Injection(N, T)
  BY <1>1, <1>2, <1>3, FS_SurjSameCardinalityImpliesInj
<1>5. \A i, j \in N : f[i] = f[j] => i = j
  BY <1>4 DEF Injection, IsInjective
<1> QED
  BY <1>5 DEF f, N

(* A volume as it is made: $MFT in the clusters 1, m[1] and m[2].          *)
Used(m, r, a, b) == {0, 1, b, m[1], m[2], r[1], r[2], a[1], a[2]}
Placed(m, r, a, b) ==
    /\ m \in [1..2 -> 2..OldSize - 1] /\ r \in [1..2 -> 2..OldSize - 1] /\ a \in [1..2 -> 2..OldSize - 1]
    /\ b \in 2..OldSize - 1
    /\ m[1] # m[2] /\ b \notin {m[1], m[2], r[1], r[2], a[1], a[2]}
    /\ {m[1], m[2]} \intersect {r[1], r[2], a[1], a[2]} = {} /\ {r[1], r[2]} \intersect {a[1], a[2]} = {}
    /\ r[2] = r[1] + 1 /\ a[2] = a[1] + 1
    /\ m[1] # 1 /\ m[2] # 1
Formatted(m, r, a, b, map, size) ==
    /\ cell = [c \in 0..Device - 1 |-> cell[c]]
    /\ cell[1] = [recs |-> [f \in InVcn(1) |-> Rec(map[f], size[f])]]
    /\ cell[m[1]] = [recs |-> [f \in InVcn(2) |-> Rec(map[f], size[f])]]
    /\ cell[m[2]] = [recs |-> [f \in InVcn(3) |-> Rec(map[f], size[f])]]
    /\ cell[r[1]] = [rec |-> Rec(map[Mft], size[Mft])]
    /\ cell[r[2]] = [rec |-> Rec(map[MftMirr], size[MftMirr])]
    /\ cell[a[1]] = Data(File, 1) /\ cell[a[2]] = Data(File, 2)
    /\ cell[b] = [bits |-> Used(m, r, a, b) \union OldSize..BitmapSize(OldSize) - 1]
    /\ \A f \in Records : map[f] \in [1..Length(f) -> Clusters]
    /\ map[Mft][1] = 1 /\ map[Mft][2] = m[1]
    /\ IF split THEN map[MftExt][1] = m[2] ELSE map[Mft][3] = m[2]
    /\ map[MftMirr] = r /\ map[File] = a /\ map[Bitmap][1] = b
    /\ size[Bitmap] = BitmapSize(OldSize) /\ size[BadClus] = OldSize
    /\ boot = [nr |-> OldSize, mirr |-> r[1]] /\ dirty = FALSE /\ pc = "off" /\ split \in BOOLEAN
    /\ behind = {}

(* Nine different clusters are a placement in which no two files share     *)
(* one.                                                                    *)
LEMMA PlacedIs ==
    ASSUME NEW m \in Runs(2), NEW r \in Runs(2), NEW a \in Runs(2), NEW b \in 2..OldSize - 1,
           Cardinality({0, MftStart, b} \union Range(m) \union Range(r) \union Range(a)) = 9,
           Neighbours(r), Neighbours(a)
    PROVE  Placed(m, r, a, b) /\ {0, MftStart, b} \union Range(m) \union Range(r) \union Range(a) = Used(m, r, a, b)
<1> DEFINE s == <<0, 1, b, m[1], m[2], r[1], r[2], a[1], a[2]>>
<1>1. /\ m \in [1..2 -> 2..OldSize - 1] /\ r \in [1..2 -> 2..OldSize - 1] /\ a \in [1..2 -> 2..OldSize - 1]
      /\ OldSize \in Nat
  BY ResizeAssumption DEF Runs
<1>2. Range(m) = {m[1], m[2]} /\ Range(r) = {r[1], r[2]} /\ Range(a) = {a[1], a[2]}
  BY <1>1 DEF Range
<1>3. {0, MftStart, b} \union Range(m) \union Range(r) \union Range(a) = Used(m, r, a, b)
  BY <1>2 DEF Used, MftStart
<1>4. DOMAIN s = 1..9 /\ s[1] = 0 /\ s[2] = 1 /\ s[3] = b /\ s[4] = m[1] /\ s[5] = m[2]
      /\ s[6] = r[1] /\ s[7] = r[2] /\ s[8] = a[1] /\ s[9] = a[2]
  OBVIOUS
<1> HIDE DEF s
<1>5. Img(s) = Used(m, r, a, b)
  <2>1. \A i \in 1..9 : i \in {1, 2, 3, 4, 5, 6, 7, 8, 9}
    OBVIOUS
  <2>2. Img(s) \subseteq Used(m, r, a, b)
    BY <1>4, <2>1 DEF Img, Used
  <2>3. Used(m, r, a, b) \subseteq Img(s)
    BY <1>4 DEF Img, Used
  <2> QED
    BY <2>2, <2>3
<1>6. \A i, j \in 1..9 : s[i] = s[j] => i = j
  BY <1>3, <1>4, <1>5, NineApart
<1>7. m[1] # m[2] /\ b # m[1] /\ b # m[2] /\ b # r[1] /\ b # r[2] /\ b # a[1] /\ b # a[2]
  BY <1>4, <1>6
<1>8. m[1] # r[1] /\ m[1] # r[2] /\ m[1] # a[1] /\ m[1] # a[2] /\ m[2] # r[1] /\ m[2] # r[2] /\ m[2] # a[1] /\ m[2] # a[2]
  BY <1>4, <1>6
<1>9. r[1] # a[1] /\ r[1] # a[2] /\ r[2] # a[1] /\ r[2] # a[2] /\ m[1] # 1 /\ m[2] # 1
  BY <1>4, <1>6
<1>10. r[2] = r[1] + 1 /\ a[2] = a[1] + 1
  <2>1. Len(r) = 2 /\ Len(a) = 2
    BY <1>1, FunIsSeq
  <2> QED
    BY <2>1 DEF Neighbours
<1> QED
  BY <1>1, <1>3, <1>7, <1>8, <1>9, <1>10 DEF Placed

(* A sequence of two is a function on 1..2.                                *)
LEMMA PairMap ==
    ASSUME NEW S, NEW t \in Seq(S), Len(t) = 2
    PROVE  t \in [1..2 -> S]
<1>1. t \in [1..Len(t) -> S]
  OBVIOUS
<1> QED
  BY <1>1

(* Every initial state is a volume as it is made.                          *)
LEMMA InitIs ==
    ASSUME Init
    PROVE  \E m, r, a, b, map, size : Placed(m, r, a, b) /\ Formatted(m, r, a, b, map, size)
<1>1. split \in BOOLEAN /\ dirty = FALSE /\ pc = "off" /\ behind = {}
  BY DEF Init
<1>2. PICK m \in Runs(2), r \in Runs(2), a \in Runs(2), b \in 2..OldSize - 1 :
          LET used == {0, MftStart, b} \union Range(m) \union Range(r) \union Range(a)
              base == <<MftStart>> \o m
              map == [f \in Range(Refs) |->
                        CASE f = Mft -> IF split THEN SubSeq(base, 1, 2) ELSE base
                          [] f = MftExt -> IF split THEN <<m[2]>> ELSE <<>>
                          [] f = MftMirr -> r [] f = File -> a [] f = Bitmap -> <<b>> [] OTHER -> <<>>]
              size == [f \in Range(Refs) |->
                        CASE f = Bitmap -> BitmapSize(OldSize) [] f = BadClus -> OldSize [] OTHER -> 0]
              rec == [f \in Range(Refs) |-> Rec(map[f], size[f])]
          IN /\ Cardinality(used) = 9 /\ Neighbours(r) /\ Neighbours(a)
             /\ cell = [c \in 0..Device - 1 |->
                          CASE c \in Range(base) ->
                                 LET v == CHOOSE v \in 1..3 : base[v] = c
                                 IN [recs |-> [f \in InVcn(v) |-> rec[f]]]
                            [] c = r[1] -> [rec |-> rec[Mft]]
                            [] c = r[2] -> [rec |-> rec[MftMirr]]
                            [] c \in Range(a) -> Data(File, c + 1 - a[1])
                            [] c = b -> [bits |-> used \union OldSize..BitmapSize(OldSize) - 1]
                            [] OTHER -> Junk]
             /\ boot = [nr |-> OldSize, mirr |-> r[1]]
  BY DEF Init
<1> DEFINE used == {0, MftStart, b} \union Range(m) \union Range(r) \union Range(a)
           base == <<MftStart>> \o m
           map == [f \in Range(Refs) |->
                     CASE f = Mft -> IF split THEN SubSeq(base, 1, 2) ELSE base
                       [] f = MftExt -> IF split THEN <<m[2]>> ELSE <<>>
                       [] f = MftMirr -> r [] f = File -> a [] f = Bitmap -> <<b>> [] OTHER -> <<>>]
           size == [f \in Range(Refs) |->
                     CASE f = Bitmap -> BitmapSize(OldSize) [] f = BadClus -> OldSize [] OTHER -> 0]
           rec == [f \in Range(Refs) |-> Rec(map[f], size[f])]
<1>3. /\ Cardinality(used) = 9 /\ Neighbours(r) /\ Neighbours(a)
      /\ cell = [c \in 0..Device - 1 |->
                   CASE c \in Range(base) ->
                          LET v == CHOOSE v \in 1..3 : base[v] = c
                          IN [recs |-> [f \in InVcn(v) |-> rec[f]]]
                     [] c = r[1] -> [rec |-> rec[Mft]]
                     [] c = r[2] -> [rec |-> rec[MftMirr]]
                     [] c \in Range(a) -> Data(File, c + 1 - a[1])
                     [] c = b -> [bits |-> used \union OldSize..BitmapSize(OldSize) - 1]
                     [] OTHER -> Junk]
      /\ boot = [nr |-> OldSize, mirr |-> r[1]]
  BY <1>2
<1>4. Placed(m, r, a, b) /\ used = Used(m, r, a, b)
  BY <1>3, PlacedIs
<1>5. /\ m \in [1..2 -> 2..OldSize - 1] /\ r \in [1..2 -> 2..OldSize - 1] /\ a \in [1..2 -> 2..OldSize - 1]
      /\ b \in 2..OldSize - 1 /\ OldSize \in Nat /\ OldSize >= 9 /\ OldSize <= Device /\ Device \in Nat
      /\ r[2] = r[1] + 1 /\ a[2] = a[1] + 1 /\ 2..OldSize - 1 \subseteq Clusters
  BY <1>4, ResizeAssumption DEF Placed, Clusters
<1>6. base \in [1..3 -> Clusters] /\ base \in Seq(Clusters) /\ Len(base) = 3
      /\ base[1] = 1 /\ base[2] = m[1] /\ base[3] = m[2]
  <2> DEFINE e == <<MftStart>>
  <2>1. e \in Seq(Clusters) /\ Len(e) = 1 /\ e[1] = 1
    BY <1>5 DEF MftStart, Clusters
  <2>2. m \in Seq(Clusters) /\ Len(m) = 2
    <3>1. m \in [1..2 -> Clusters]
      BY <1>5
    <3> QED
      BY <3>1, FunIsSeq
  <2> HIDE DEF e
  <2>3. /\ e \o m \in Seq(Clusters) /\ Len(e \o m) = 3
        /\ \A i \in 1..3 : (e \o m)[i] = IF i <= 1 THEN e[i] ELSE m[i - 1]
    <3>1. /\ e \o m \in Seq(Clusters) /\ Len(e \o m) = Len(e) + Len(m)
          /\ \A i \in 1..Len(e) + Len(m) : (e \o m)[i] = IF i <= Len(e) THEN e[i] ELSE m[i - Len(e)]
      BY <2>1, <2>2, ConcatProperties, ZenonT(30)
    <3>2. Len(e) + Len(m) = 3
      BY <2>1, <2>2
    <3> QED
      BY <2>1, <3>1, <3>2
  <2>4. base = e \o m
    BY DEF e
  <2> HIDE DEF base
  <2>5. base \in [1..3 -> Clusters] /\ base \in Seq(Clusters) /\ Len(base) = 3
    <3>1. base \in Seq(Clusters) /\ Len(base) = 3
      BY <2>3, <2>4
    <3>2. base \in [1..Len(base) -> Clusters]
      BY <3>1
    <3> QED
      BY <3>1, <3>2
  <2>6. base[1] = 1 /\ base[2] = m[1] /\ base[3] = m[2]
    BY <2>1, <2>3, <2>4
  <2> QED
    BY <2>5, <2>6
<1> HIDE DEF base
<1>7. Range(Refs) = Records
  BY DEF Records
<1> HIDE DEF used
<1>8. \A f \in Records : rec[f] = Rec(map[f], size[f])
  <2> HIDE DEF map, size
  <2> QED
    BY <1>7
<1>9. /\ map[Mft] = IF split THEN SubSeq(base, 1, 2) ELSE base
      /\ map[MftExt] = IF split THEN <<m[2]>> ELSE <<>>
      /\ map[MftMirr] = r /\ map[File] = a /\ map[Bitmap] = <<b>> /\ map[BadClus] = <<>>
      /\ size[Bitmap] = BitmapSize(OldSize) /\ size[BadClus] = OldSize
  BY <1>7, NamesApart, RecordsAre
<1> HIDE DEF map, size
<1>10. /\ split => map[Mft] \in [1..2 -> Clusters] /\ map[MftExt] \in [1..1 -> Clusters]
       /\ ~split => map[Mft] \in [1..3 -> Clusters] /\ map[MftExt] \in [1..0 -> Clusters]
       /\ map[Mft][1] = 1 /\ map[Mft][2] = m[1]
       /\ IF split THEN map[MftExt][1] = m[2] ELSE map[Mft][3] = m[2]
  <2>1. SubSeq(base, 1, 2) \in [1..2 -> Clusters] /\ SubSeq(base, 1, 2)[1] = 1 /\ SubSeq(base, 1, 2)[2] = m[1]
    <3> DEFINE t == SubSeq(base, 1, 2)
    <3>1. t \in Seq(Clusters) /\ Len(t) = 2 /\ \A i \in 1..2 : t[i] = base[i]
      BY <1>6
    <3> HIDE DEF t
    <3>2. t \in [1..2 -> Clusters]
      BY <3>1, PairMap
    <3>3. t \in [1..2 -> Clusters] /\ t[1] = 1 /\ t[2] = m[1]
      BY <1>6, <3>1, <3>2
    <3> QED
      BY <3>3 DEF t
  <2>2. <<m[2]>> \in [1..1 -> Clusters] /\ <<m[2]>>[1] = m[2]
    <3>1. m[2] \in Clusters
      BY <1>5
    <3> HIDE DEF Clusters
    <3> QED
      BY <3>1
  <2> QED
    BY <1>6, <1>9, <2>1, <2>2, EmptyMap
<1>11. \A f \in Records : map[f] \in [1..Length(f) -> Clusters]
  <2>1. r \in [1..2 -> Clusters] /\ a \in [1..2 -> Clusters] /\ <<b>> \in [1..1 -> Clusters]
    BY <1>5
  <2>2. /\ map[Mft] \in [1..Length(Mft) -> Clusters] /\ map[MftExt] \in [1..Length(MftExt) -> Clusters]
    BY <1>10, LengthsAre
  <2>3. /\ map[MftMirr] \in [1..Length(MftMirr) -> Clusters] /\ map[File] \in [1..Length(File) -> Clusters]
        /\ map[Bitmap] \in [1..Length(Bitmap) -> Clusters] /\ map[BadClus] \in [1..Length(BadClus) -> Clusters]
    BY <1>9, <2>1, LengthsAre, EmptyMap
  <2> QED
    BY <2>2, <2>3, RecordsAre
<1>12. map[Bitmap][1] = b
  BY <1>9
<1>13. Range(base) = {1, m[1], m[2]} /\ Range(a) = {a[1], a[2]}
  BY <1>5, <1>6 DEF Range
<1>14. /\ m[1] # m[2] /\ b \notin {m[1], m[2], r[1], r[2], a[1], a[2]}
       /\ {m[1], m[2]} \intersect {r[1], r[2], a[1], a[2]} = {} /\ {r[1], r[2]} \intersect {a[1], a[2]} = {}
       /\ m[1] # 1 /\ m[2] # 1 /\ r[1] # 1 /\ r[2] # 1 /\ a[1] # 1 /\ a[2] # 1 /\ b # 1 /\ r[1] # r[2]
       /\ {1, m[1], m[2], r[1], r[2], a[1], a[2], b} \subseteq 0..Device - 1
       /\ a[1] + 1 - a[1] = 1 /\ a[2] + 1 - a[1] = 2
  BY <1>4, <1>5 DEF Placed
<1> DEFINE turn(c) == LET v == CHOOSE v \in 1..3 : base[v] = c
                      IN [recs |-> [f \in InVcn(v) |-> rec[f]]]
           bits == [bits |-> used \union OldSize..BitmapSize(OldSize) - 1]
           rm == [rec |-> rec[Mft]]
           rr == [rec |-> rec[MftMirr]]
           data(c) == Data(File, c + 1 - a[1])
           val(c) == CASE c \in Range(base) -> turn(c) [] c = r[1] -> rm [] c = r[2] -> rr
                       [] c \in Range(a) -> data(c) [] c = b -> bits [] OTHER -> Junk
<1>15. cell = [c \in 0..Device - 1 |-> val(c)]
  BY <1>3
<1> HIDE DEF rec
<1>24. \A w \in 1..3 : turn(base[w]) = [recs |-> [f \in InVcn(w) |-> rec[f]]]
  <2> TAKE w \in 1..3
  <2>1. (CHOOSE v \in 1..3 : base[v] = base[w]) = w
    BY <1>6, <1>14
  <2> QED
    BY <2>1
<1>25. data(a[1]) = Data(File, 1) /\ data(a[2]) = Data(File, 2)
  BY <1>14
<1> HIDE DEF turn, bits, rm, rr, data
<1>16. \A w \in 1..3 : val(base[w]) = [recs |-> [f \in InVcn(w) |-> rec[f]]]
  <2> TAKE w \in 1..3
  <2>1. base[w] \in Range(base) /\ base[w] \notin Range(a) /\ base[w] # r[1] /\ base[w] # r[2] /\ base[w] # b
    <3>1. base[w] \in Range(base)
      BY <1>6 DEF Range
    <3> QED
      BY <1>13, <1>14, <3>1
  <2>2. val(base[w]) = turn(base[w])
    BY <2>1
  <2> HIDE DEF val
  <2> QED
    BY <1>24, <2>2
<1>17. val(r[1]) = [rec |-> rec[Mft]] /\ val(r[2]) = [rec |-> rec[MftMirr]]
  <2>1. /\ r[1] \notin Range(base) /\ r[2] \notin Range(base) /\ r[1] # r[2]
        /\ r[1] \notin Range(a) /\ r[2] \notin Range(a) /\ r[1] # b /\ r[2] # b
    BY <1>13, <1>14
  <2>2. val(r[1]) = rm /\ val(r[2]) = rr
    BY <2>1
  <2> HIDE DEF val
  <2> QED
    BY <2>2 DEF rm, rr
<1>18. val(a[1]) = Data(File, 1) /\ val(a[2]) = Data(File, 2)
  <2>1. \A c \in {a[1], a[2]} : c \notin Range(base) /\ c # r[1] /\ c # r[2] /\ c \in Range(a) /\ c # b
    BY <1>13, <1>14
  <2>2. \A c \in {a[1], a[2]} : val(c) = data(c)
    BY <2>1
  <2> HIDE DEF val
  <2> QED
    BY <1>25, <2>2
<1>19. val(b) = [bits |-> used \union OldSize..BitmapSize(OldSize) - 1]
  <2>1. b \notin Range(base) /\ b # r[1] /\ b # r[2] /\ b \notin Range(a)
    BY <1>13, <1>14
  <2>2. val(b) = bits
    BY <2>1
  <2> HIDE DEF val
  <2> QED
    BY <2>2 DEF bits
<1> HIDE DEF val
<1>20. /\ cell[1] = val(1) /\ cell[m[1]] = val(m[1]) /\ cell[m[2]] = val(m[2]) /\ cell[r[1]] = val(r[1])
       /\ cell[r[2]] = val(r[2]) /\ cell[a[1]] = val(a[1]) /\ cell[a[2]] = val(a[2]) /\ cell[b] = val(b)
       /\ cell = [c \in 0..Device - 1 |-> cell[c]]
  <2>1. \A c \in 0..Device - 1 : cell[c] = val(c)
    BY <1>15
  <2>2. cell = [c \in 0..Device - 1 |-> cell[c]]
    BY <1>15
  <2> QED
    BY <1>14, <2>1, <2>2
<1>21. \A w \in 1..3 : [f \in InVcn(w) |-> rec[f]] = [f \in InVcn(w) |-> Rec(map[f], size[f])]
  BY <1>8, VcnsAre
<1>22. Mft \in Records /\ MftMirr \in Records
  BY RecordsAre
<1>26. /\ cell[1] = [recs |-> [f \in InVcn(1) |-> Rec(map[f], size[f])]]
       /\ cell[m[1]] = [recs |-> [f \in InVcn(2) |-> Rec(map[f], size[f])]]
       /\ cell[m[2]] = [recs |-> [f \in InVcn(3) |-> Rec(map[f], size[f])]]
  <2>1. \A w \in 1..3 : val(base[w]) = [recs |-> [f \in InVcn(w) |-> Rec(map[f], size[f])]]
    BY <1>16, <1>21
  <2> QED
    BY <1>6, <1>20, <2>1
<1>27. /\ cell[r[1]] = [rec |-> Rec(map[Mft], size[Mft])]
       /\ cell[r[2]] = [rec |-> Rec(map[MftMirr], size[MftMirr])]
       /\ cell[a[1]] = Data(File, 1) /\ cell[a[2]] = Data(File, 2)
       /\ cell[b] = [bits |-> Used(m, r, a, b) \union OldSize..BitmapSize(OldSize) - 1]
  BY <1>4, <1>8, <1>17, <1>18, <1>19, <1>20, <1>22
<1>28. /\ boot = [nr |-> OldSize, mirr |-> r[1]] /\ cell = [c \in 0..Device - 1 |-> cell[c]]
       /\ map[MftMirr] = r /\ map[File] = a
       /\ size[Bitmap] = BitmapSize(OldSize) /\ size[BadClus] = OldSize
  BY <1>3, <1>9, <1>20
<1>23. Formatted(m, r, a, b, map, size)
  BY <1>1, <1>10, <1>11, <1>12, <1>26, <1>27, <1>28, Zenon DEF Formatted
<1> QED
  BY <1>4, <1>23

(* On a volume as it is made the records are where they are looked for.    *)
LEMMA FormattedView ==
    ASSUME NEW m, NEW r, NEW a, NEW b, NEW map, NEW size,
           Placed(m, r, a, b), Formatted(m, r, a, b, map, size)
    PROVE  /\ ~Running /\ Home = MftMap
           /\ Home \in [1..3 -> Clusters] /\ Home[1] = 1 /\ Home[2] = m[1] /\ Home[3] = m[2]
           /\ \A f \in Records : At(f) = Rec(map[f], size[f])
           /\ \A f \in Records : At(f).map = map[f] /\ At(f).size = size[f]
<1>1. /\ split \in BOOLEAN /\ pc = "off"
      /\ cell[1] = [recs |-> [f \in InVcn(1) |-> Rec(map[f], size[f])]]
      /\ cell[m[1]] = [recs |-> [f \in InVcn(2) |-> Rec(map[f], size[f])]]
      /\ cell[m[2]] = [recs |-> [f \in InVcn(3) |-> Rec(map[f], size[f])]]
      /\ \A f \in Records : map[f] \in [1..Length(f) -> Clusters]
      /\ map[Mft][1] = 1 /\ map[Mft][2] = m[1]
      /\ IF split THEN map[MftExt][1] = m[2] ELSE map[Mft][3] = m[2]
  BY DEF Formatted
<1>2. ~Running /\ Home = MftMap
  BY <1>1 DEF Running, Home
<1>3. Mft \in Records /\ MftExt \in Records /\ Mft \in InVcn(1) /\ MftExt \in InVcn(2)
  BY RecordsAre, VcnsAre
<1>4. MftBase = map[Mft]
  BY <1>1, <1>3 DEF MftBase, MftStart, Rec
<1>5. MftMap \in [1..3 -> Clusters] /\ MftMap[1] = 1 /\ MftMap[2] = m[1] /\ MftMap[3] = m[2]
  <2>1. CASE split
    <3> DEFINE s == map[Mft]  t == map[MftExt]
    <3>1. s \in [1..2 -> Clusters] /\ t \in [1..1 -> Clusters]
      BY <1>1, <1>3, <2>1, LengthsAre
    <3>2. RecAt(MftBase, MftExt).map = t
      BY <1>1, <1>3, <1>4, VcnsAre DEF RecAt, Rec
    <3>3. MftMap = s \o t
      BY <1>4, <2>1, <3>2 DEF MftMap
    <3>4. s[1] = 1 /\ s[2] = m[1] /\ t[1] = m[2]
      BY <1>1, <2>1
    <3> HIDE DEF s, t
    <3>5. s \in Seq(Clusters) /\ Len(s) = 2 /\ t \in Seq(Clusters) /\ Len(t) = 1
      BY <3>1, FunIsSeq
    <3>6. s \o t \in [1..3 -> Clusters] /\ (s \o t)[1] = s[1] /\ (s \o t)[2] = s[2] /\ (s \o t)[3] = t[1]
      BY <3>5, ConcatIs
    <3> QED
      BY <3>3, <3>4, <3>6
  <2>2. CASE ~split
    <3>1. MftMap = map[Mft] /\ map[Mft] \in [1..3 -> Clusters]
      BY <1>1, <1>3, <1>4, <2>2, LengthsAre DEF MftMap
    <3> QED
      BY <1>1, <2>2, <3>1
  <2> QED
    BY <1>1, <2>1, <2>2
<1>6. \A v \in 1..3 : cell[Home[v]] = [recs |-> [f \in InVcn(v) |-> Rec(map[f], size[f])]]
  BY <1>1, <1>2, <1>5
<1>7. \A f \in Records : At(f) = Rec(map[f], size[f])
  <2> TAKE f \in Records
  <2>1. VcnOf(f) \in 1..3 /\ f \in InVcn(VcnOf(f))
    BY VcnsAre
  <2> QED
    BY <1>6, <2>1 DEF At
<1>8. \A f \in Records : At(f).map = map[f] /\ At(f).size = size[f]
  BY <1>7 DEF Rec
<1> QED
  BY <1>2, <1>5, <1>7, <1>8

(* Each of the records has what it has for itself.                         *)
LEMMA FormattedMaps ==
    ASSUME NEW m, NEW r, NEW a, NEW b, NEW map, NEW size,
           Placed(m, r, a, b), Formatted(m, r, a, b, map, size)
    PROVE  /\ \A f \in Records : Once(map[f])
           /\ Img(map[Mft]) = IF split THEN {1, m[1]} ELSE {1, m[1], m[2]}
           /\ Img(map[MftExt]) = IF split THEN {m[2]} ELSE {}
           /\ Img(map[MftMirr]) = {r[1], r[2]} /\ Img(map[File]) = {a[1], a[2]}
           /\ Img(map[Bitmap]) = {b} /\ Img(map[BadClus]) = {}
<1>1. /\ split \in BOOLEAN
      /\ \A f \in Records : map[f] \in [1..Length(f) -> Clusters]
      /\ map[Mft][1] = 1 /\ map[Mft][2] = m[1]
      /\ IF split THEN map[MftExt][1] = m[2] ELSE map[Mft][3] = m[2]
      /\ map[MftMirr] = r /\ map[File] = a /\ map[Bitmap][1] = b
  BY DEF Formatted
<1>2. m[1] # m[2] /\ m[1] # 1 /\ m[2] # 1 /\ r[1] # r[2] /\ a[1] # a[2]
  BY ResizeAssumption DEF Placed
<1>3. \A f \in Records : DOMAIN map[f] = 1..Length(f)
  BY <1>1
<1>4. /\ DOMAIN map[Mft] = IF split THEN 1..2 ELSE 1..3
      /\ DOMAIN map[MftExt] = IF split THEN 1..1 ELSE 1..0
      /\ DOMAIN map[MftMirr] = 1..2 /\ DOMAIN map[File] = 1..2
      /\ DOMAIN map[Bitmap] = 1..1 /\ DOMAIN map[BadClus] = 1..0
  BY <1>1, <1>3, LengthsAre, RecordsAre
<1>5. /\ Once(map[Mft]) /\ Img(map[Mft]) = IF split THEN {1, m[1]} ELSE {1, m[1], m[2]}
  BY <1>1, <1>2, <1>4 DEF Once, Img
<1>6. /\ Once(map[MftExt]) /\ Img(map[MftExt]) = IF split THEN {m[2]} ELSE {}
  BY <1>1, <1>4 DEF Once, Img
<1>7. /\ Once(map[MftMirr]) /\ Img(map[MftMirr]) = {r[1], r[2]}
      /\ Once(map[File]) /\ Img(map[File]) = {a[1], a[2]}
  BY <1>1, <1>2, <1>4 DEF Once, Img
<1>8. /\ Once(map[Bitmap]) /\ Img(map[Bitmap]) = {b}
      /\ Once(map[BadClus]) /\ Img(map[BadClus]) = {}
  BY <1>1, <1>4 DEF Once, Img
<1> QED
  BY <1>5, <1>6, <1>7, <1>8, RecordsAre

(* What each has lies apart, and inside the volume.                        *)
LEMMA FormattedApart ==
    ASSUME NEW m, NEW r, NEW a, NEW b, NEW map, NEW size,
           Placed(m, r, a, b), Formatted(m, r, a, b, map, size)
    PROVE  Apart
<1>1. /\ ~Running /\ Home = MftMap
      /\ Home \in [1..3 -> Clusters] /\ Home[1] = 1 /\ Home[2] = m[1] /\ Home[3] = m[2]
      /\ \A f \in Records : At(f).map = map[f]
  BY FormattedView
<1>2. /\ \A f \in Records : Once(map[f])
      /\ Img(map[Mft]) = IF split THEN {1, m[1]} ELSE {1, m[1], m[2]}
      /\ Img(map[MftExt]) = IF split THEN {m[2]} ELSE {}
      /\ Img(map[MftMirr]) = {r[1], r[2]} /\ Img(map[File]) = {a[1], a[2]}
      /\ Img(map[Bitmap]) = {b} /\ Img(map[BadClus]) = {}
  BY FormattedMaps
<1>3. split \in BOOLEAN /\ pc = "off" /\ boot.nr = OldSize
  BY DEF Formatted
<1>4. \A f : New(f) = {}
  BY <1>3 DEF New, Moving
<1>5. /\ Old(Mft) = IF split THEN {1, m[1]} ELSE {1, m[1], m[2]}
      /\ Old(MftExt) = IF split THEN {m[2]} ELSE {}
      /\ Old(MftMirr) = {} /\ Old(Bitmap) = {} /\ Old(File) = {}
  <2>1. /\ Old(Mft) = {Home[v] : v \in 1..Length(Mft)} /\ Old(MftExt) = {Home[v] : v \in Length(Mft) + 1..3}
        /\ Old(MftMirr) = {} /\ Old(Bitmap) = {} /\ Old(File) = {}
    BY <1>1, NamesApart DEF Old
  <2>2. CASE split
    <3>1. Length(Mft) = 2
      BY <2>2, LengthsAre
    <3>2. Old(Mft) = {Home[1], Home[2]} /\ Old(MftExt) = {Home[3]}
      <4>1. 1..Length(Mft) = {1, 2} /\ Length(Mft) + 1..3 = {3}
        BY <3>1
      <4> QED
        BY <2>1, <4>1
    <3> QED
      BY <1>1, <2>1, <2>2, <3>2
  <2>3. CASE ~split
    <3>1. Length(Mft) = 3
      BY <2>3, LengthsAre
    <3>2. Old(Mft) = {Home[1], Home[2], Home[3]} /\ Old(MftExt) = {}
      <4>1. 1..Length(Mft) = {1, 2, 3} /\ Length(Mft) + 1..3 = {}
        BY <3>1
      <4> QED
        BY <2>1, <4>1
    <3> QED
      BY <1>1, <2>1, <2>3, <3>2
  <2> QED
    BY <1>3, <2>2, <2>3
<1>6. /\ Hold(Mft) = IF split THEN {1, m[1]} ELSE {1, m[1], m[2]}
      /\ Hold(MftExt) = IF split THEN {m[2]} ELSE {}
      /\ Hold(MftMirr) = {r[1], r[2]} /\ Hold(File) = {a[1], a[2]} /\ Hold(Bitmap) = {b}
  BY <1>1, <1>2, <1>4, <1>5, RecordsAre DEF Hold
<1>7. /\ m \in [1..2 -> 2..OldSize - 1] /\ r \in [1..2 -> 2..OldSize - 1] /\ a \in [1..2 -> 2..OldSize - 1]
      /\ b \in 2..OldSize - 1 /\ OldSize \in Nat /\ OldSize >= 9
      /\ m[1] # m[2] /\ b \notin {m[1], m[2], r[1], r[2], a[1], a[2]}
      /\ {m[1], m[2]} \intersect {r[1], r[2], a[1], a[2]} = {} /\ {r[1], r[2]} \intersect {a[1], a[2]} = {}
      /\ m[1] # 1 /\ m[2] # 1
  BY ResizeAssumption DEF Placed
<1>8. /\ r[1] # 1 /\ r[2] # 1 /\ a[1] # 1 /\ a[2] # 1 /\ b # 1
      /\ \A c \in {1, m[1], m[2], r[1], r[2], a[1], a[2], b} : c < OldSize
  BY <1>7
<1>9. /\ Hold(Mft) \intersect Hold(MftExt) = {} /\ Hold(Mft) \intersect Hold(MftMirr) = {}
      /\ Hold(Mft) \intersect Hold(Bitmap) = {} /\ Hold(Mft) \intersect Hold(File) = {}
      /\ Hold(MftExt) \intersect Hold(MftMirr) = {} /\ Hold(MftExt) \intersect Hold(Bitmap) = {}
      /\ Hold(MftExt) \intersect Hold(File) = {} /\ Hold(MftMirr) \intersect Hold(Bitmap) = {}
      /\ Hold(MftMirr) \intersect Hold(File) = {} /\ Hold(Bitmap) \intersect Hold(File) = {}
  BY <1>3, <1>6, <1>7, <1>8
<1>10. \A f, g \in Owners : f # g => Hold(f) \intersect Hold(g) = {}
  <2> HIDE DEF Hold
  <2> QED
    BY <1>9 DEF Owners
<1>11. \A f \in Owners : \A c \in Hold(f) : c < OldSize
  BY <1>3, <1>6, <1>8 DEF Owners
<1> QED
  BY <1>3, <1>10, <1>11 DEF Apart, Hold

(* A volume as it is made has the layout.                                  *)
LEMMA FormattedLayout ==
    ASSUME NEW m, NEW r, NEW a, NEW b, NEW map, NEW size,
           Placed(m, r, a, b), Formatted(m, r, a, b, map, size)
    PROVE  Layout
<1>1. /\ ~Running /\ Home = MftMap
      /\ Home \in [1..3 -> Clusters] /\ Home[1] = 1 /\ Home[2] = m[1] /\ Home[3] = m[2]
      /\ \A f \in Records : At(f) = Rec(map[f], size[f])
      /\ \A f \in Records : At(f).map = map[f] /\ At(f).size = size[f]
  BY FormattedView
<1>2. /\ \A f \in Records : Once(map[f])
      /\ Img(map[Mft]) = IF split THEN {1, m[1]} ELSE {1, m[1], m[2]}
      /\ Img(map[MftExt]) = IF split THEN {m[2]} ELSE {}
      /\ Img(map[MftMirr]) = {r[1], r[2]} /\ Img(map[File]) = {a[1], a[2]}
      /\ Img(map[Bitmap]) = {b} /\ Img(map[BadClus]) = {}
  BY FormattedMaps
<1>3. /\ split \in BOOLEAN /\ cell = [c \in 0..Device - 1 |-> cell[c]]
      /\ \A f \in Records : map[f] \in [1..Length(f) -> Clusters]
      /\ map[Mft][1] = 1 /\ map[Mft][2] = m[1]
      /\ IF split THEN map[MftExt][1] = m[2] ELSE map[Mft][3] = m[2]
      /\ map[MftMirr] = r /\ map[File] = a /\ map[Bitmap][1] = b
      /\ cell[a[1]] = Data(File, 1) /\ cell[a[2]] = Data(File, 2)
      /\ cell[b] = [bits |-> Used(m, r, a, b) \union OldSize..BitmapSize(OldSize) - 1]
      /\ boot = [nr |-> OldSize, mirr |-> r[1]]
  BY DEF Formatted
<1>4. \A v \in 1..3 : cell[Home[v]] = [recs |-> [f \in InVcn(v) |-> At(f)]]
  <2>1. /\ cell[1] = [recs |-> [f \in InVcn(1) |-> Rec(map[f], size[f])]]
        /\ cell[m[1]] = [recs |-> [f \in InVcn(2) |-> Rec(map[f], size[f])]]
        /\ cell[m[2]] = [recs |-> [f \in InVcn(3) |-> Rec(map[f], size[f])]]
    BY DEF Formatted
  <2>2. \A v \in 1..3 : cell[Home[v]] = [recs |-> [f \in InVcn(v) |-> Rec(map[f], size[f])]]
    BY <1>1, <2>1
  <2>3. \A v \in 1..3 : \A f \in InVcn(v) : Rec(map[f], size[f]) = At(f)
    BY <1>1, VcnsAre
  <2> QED
    BY <2>2, <2>3
<1>5. \A f \in Records : IsRec(At(f), Length(f)) /\ Once(At(f).map)
  BY <1>1, <1>2, <1>3 DEF IsRec
<1>6. Once(Home)
  <2>1. DOMAIN Home = 1..3 /\ 1 # m[1] /\ 1 # m[2] /\ m[1] # m[2]
    BY <1>1 DEF Placed
  <2> QED
    BY <1>1, <2>1 DEF Once
<1>7. \A v \in 1..3 : Spot(v) = Home[v]
  <2>1. Mft \in Records /\ MftExt \in Records
    BY RecordsAre
  <2>2. At(Mft).map = map[Mft] /\ At(MftExt).map = map[MftExt]
    BY <1>1, <2>1
  <2> QED
    BY <1>1, <1>3, <2>2 DEF Spot
<1>8. At(Mft).map[1] = MftStart
  BY <1>1, <1>3, RecordsAre DEF MftStart
<1>9. \A v \in 1..2 : cell[At(File).map[v]] = Data(File, v)
  <2>1. At(File).map = a
    BY <1>1, <1>3, RecordsAre
  <2> QED
    BY <1>3, <2>1
<1>10. cell[At(Bitmap).map[1]] = [bits |-> cell[At(Bitmap).map[1]].bits]
  <2>1. At(Bitmap).map[1] = b
    BY <1>1, <1>3, RecordsAre
  <2> QED
    BY <1>3, <2>1
<1>11. boot.nr \in 2..Device /\ boot.mirr \in Int
  BY <1>3, ResizeAssumption DEF Placed
<1>12. Home[1] = MftStart
  BY <1>1 DEF MftStart
<1>13. \A v \in 1..3 : cell[Spot(v)] = cell[Home[v]]
  BY <1>7
<1> QED
  BY <1>1, <1>3, <1>4, <1>5, <1>6, <1>8, <1>9, <1>10, <1>11, <1>12, <1>13 DEF Layout

(* The invariant holds of every volume as it is made.                      *)
LEMMA InitKeeps ==
    ASSUME Init
    PROVE  IInv
<1>1. PICK m, r, a, b, map, size : Placed(m, r, a, b) /\ Formatted(m, r, a, b, map, size)
  BY InitIs
<1>2. Layout /\ Apart
  BY <1>1, FormattedLayout, FormattedApart
<1>3. /\ ~Running /\ Home = MftMap
      /\ Home \in [1..3 -> Clusters] /\ Home[1] = 1 /\ Home[2] = m[1] /\ Home[3] = m[2]
      /\ \A f \in Records : At(f) = Rec(map[f], size[f])
      /\ \A f \in Records : At(f).map = map[f] /\ At(f).size = size[f]
  BY <1>1, FormattedView
<1>4. /\ \A f \in Records : Once(map[f])
      /\ Img(map[Mft]) = IF split THEN {1, m[1]} ELSE {1, m[1], m[2]}
      /\ Img(map[MftExt]) = IF split THEN {m[2]} ELSE {}
      /\ Img(map[MftMirr]) = {r[1], r[2]} /\ Img(map[File]) = {a[1], a[2]}
      /\ Img(map[Bitmap]) = {b} /\ Img(map[BadClus]) = {}
  BY <1>1, FormattedMaps
<1>5. /\ split \in BOOLEAN /\ pc = "off"
      /\ cell[r[1]] = [rec |-> Rec(map[Mft], size[Mft])]
      /\ cell[r[2]] = [rec |-> Rec(map[MftMirr], size[MftMirr])]
      /\ cell[b] = [bits |-> Used(m, r, a, b) \union OldSize..BitmapSize(OldSize) - 1]
      /\ map[Bitmap][1] = b
      /\ size[Bitmap] = BitmapSize(OldSize) /\ size[BadClus] = OldSize
      /\ boot.nr = OldSize /\ boot.mirr = r[1] /\ behind = {}
  BY <1>1 DEF Formatted
<1>6. r[1] + 1 - 1 = r[1] /\ r[1] + 2 - 1 = r[2]
  BY <1>1, ResizeAssumption DEF Placed
<1>7. Agreed
  <2>1. InUse = {0} \union UNION {Img(map[f]) : f \in Owners}
    BY <1>2, <1>3, InUseIs, RecordsAre
  <2>2. UNION {Img(map[f]) : f \in Owners} = {1, b, m[1], m[2], r[1], r[2], a[1], a[2]}
    <3>1. UNION {Img(map[f]) : f \in Owners}
             = Img(map[Mft]) \union Img(map[MftExt]) \union Img(map[MftMirr])
               \union Img(map[Bitmap]) \union Img(map[File])
      BY DEF Owners
    <3> QED
      BY <1>4, <1>5, <3>1
  <2>3. InUse = Used(m, r, a, b)
    BY <2>1, <2>2 DEF Used
  <2>4. At(Bitmap).size = BitmapSize(OldSize) /\ At(BadClus).size = OldSize /\ At(Bitmap).map[1] = b
    BY <1>3, <1>5, RecordsAre
  <2> QED
    BY <1>5, <2>3, <2>4 DEF Agreed
<1>8. MirrorAtBoot
  <2>1. OnDisk(Mft) = Rec(map[Mft], size[Mft]) /\ OnDisk(MftMirr) = Rec(map[MftMirr], size[MftMirr])
    BY <1>2, <1>3, SpotIs, RecordsAre
  <2>2. \A v \in 1..2 : cell[boot.mirr + v - 1] = [rec |-> OnDisk(Mirrored[v])]
    BY <1>5, <1>6, <2>1, RecordsAre
  <2>3. \E f \in Range(Mirrored) : behind \subseteq {f}
    BY <1>5, MirroredAre
  <2> QED
    BY <2>2, <2>3, RecordsAre DEF MirrorAtBoot
<1>9. Marked /\ Idles
  BY <1>5, <1>7, <1>8 DEF Marked, Idles
<1> QED
  BY <1>2, <1>3, <1>9 DEF IInv, Disk

(* A step that changes nothing.                                            *)
LEMMA StutterKeeps ==
    ASSUME IInv, UNCHANGED vars
    PROVE  IInv'
<1>1. /\ cell' = cell /\ boot' = boot /\ dirty' = dirty /\ split' = split /\ pc' = pc /\ mem' = mem
      /\ behind' = behind
  BY DEF vars
<1>2. /\ (Running <=> Running') /\ Home' = Home /\ Now' = Now /\ MftMap' = MftMap /\ RunAt' = RunAt /\ RunLen' = RunLen
      /\ MirrorMap' = MirrorMap /\ (MirrorInPlace <=> MirrorInPlace')
  BY <1>1 DEF Running, Home, Now, MftMap, MftBase, RecAt, RunAt, RunLen, MirrorMap, MirrorInPlace, OnDisk, Outside
<1>3. /\ \A f : At(f)' = At(f) /\ OnDisk(f)' = OnDisk(f) /\ Length(f)' = Length(f) /\ Old(f)' = Old(f) /\ New(f)' = New(f)
      /\ \A v : Spot(v)' = Spot(v)
  BY <1>1, <1>2 DEF At, OnDisk, RecAt, Length, Old, New, Spot
<1>4. InUse' = InUse /\ \A f : Hold(f)' = Hold(f)
  BY <1>1, <1>2, <1>3 DEF InUse, Named, Hold
<1>5. Layout <=> Layout'
  BY <1>1, <1>2, <1>3 DEF Layout, IsRec
<1>6. Apart <=> Apart'
  BY <1>1, <1>3, <1>4 DEF Apart
<1>7. Agreed <=> Agreed'
  BY <1>1, <1>3, <1>4 DEF Agreed, BitmapSize
<1>8. MirrorAtBoot <=> MirrorAtBoot'
  BY <1>1, <1>2, <1>3 DEF MirrorAtBoot
<1>9. (Marked <=> Marked') /\ (Idles <=> Idles')
  BY <1>1, <1>7, <1>8, Zenon DEF Marked, Idles
<1>10. Disk <=> Disk'
  BY <1>5, <1>6, <1>9, Zenon DEF Disk
<1>11. Program <=> Program'
  BY <1>1, <1>3 DEF Program
<1>12. Reserved <=> Reserved'
  BY <1>1, <1>3, <1>4 DEF Reserved
<1>13. /\ \A f : Inside(f) <=> Inside(f)'
       /\ (Unread <=> Unread') /\ (Still <=> Still') /\ \A k : Pair(k) <=> Pair(k)'
  BY <1>1, <1>3 DEF Inside, Unread, Still, Pair
<1>14. Turning <=> Turning'
  BY <1>1, <1>3, <1>13 DEF Turning
<1>15. (Preparing <=> Preparing') /\ (Ended <=> Ended')
  BY <1>1, <1>13 DEF Preparing, Ended
<1>16. Mirror <=> Mirror'
  BY <1>1, <1>2, <1>3, <1>13 DEF Mirror
<1>17. Working <=> Working'
  BY <1>1, <1>2, <1>3 DEF Working, IsRec, Outside
<1>18. Plain <=> Plain'
  BY <1>1 DEF Plain
<1>19. Ending <=> Ending'
  <2>1. (UNION {Img(At(f).map) : f \in Owners \ {Bitmap}})' = UNION {Img(At(f).map) : f \in Owners \ {Bitmap}}
    BY <1>3
  <2>2. BitmapSize(mem.new)' = BitmapSize(mem.new)
    BY <1>1 DEF BitmapSize
  <2> DEFINE E1 == pc \in {"bitmap"} \union Late => At(BadClus).size = mem.new
             E2 == /\ mem.dest \in [1..1 -> Clusters] /\ mem.dest[1] < mem.new /\ mem.dest[1] < boot.nr
                   /\ \A f \in Owners \ {Bitmap} : mem.dest[1] \notin Hold(f)
             E3 == mem.bm = {0} \union Img(mem.dest) \union (UNION {Img(At(f).map) : f \in Owners \ {Bitmap}})
                             \union mem.new..BitmapSize(mem.new) - 1
             E4 == pc \in {"bitmap record", "boot"} => cell[mem.dest[1]] = [bits |-> mem.bm]
             E5 == pc = "boot" =>
                     /\ At(Bitmap) = Rec(mem.dest, BitmapSize(mem.new))
                     /\ mem.copied <= mem.moved.len
                     /\ \A i \in 1..mem.copied : cell[mem.moved.lcn + i - 1] = cell[mem.mirr[i]]
  <2>3. E1 <=> E1'
    BY <1>1, <1>3
  <2>4. E2 <=> E2'
    BY <1>1, <1>4
  <2>5. E3 <=> E3'
    BY <1>1, <2>1, <2>2
  <2>6. (E4 <=> E4') /\ (E5 <=> E5')
    BY <1>1, <1>3, <2>2
  <2>7. Ending <=> E1 /\ (pc \in Late => E2 /\ E3) /\ E4 /\ E5
    BY DEF Ending
  <2>8. Ending' <=> E1' /\ (pc' \in Late => E2' /\ E3') /\ E4' /\ E5'
    BY DEF Ending
  <2> HIDE DEF E1, E2, E3, E4, E5
  <2> QED
    BY <1>1, <2>3, <2>4, <2>5, <2>6, <2>7, <2>8
<1>20. Task <=> Task'
  BY <1>11, <1>12, <1>14, <1>15, <1>16, <1>17, <1>18, <1>19, Zenon DEF Task
<1> QED
  BY <1>2, <1>10, <1>20, Zenon DEF IInv

(* A map of n different clusters has n clusters.                           *)
LEMMA ImageCount ==
    ASSUME NEW n \in Nat, NEW s, DOMAIN s = 1..n, Once(s)
    PROVE  IsFiniteSet(Img(s)) /\ Cardinality(Img(s)) = n
<1> DEFINE N == 1..n
           T == Img(s)
           f == [i \in N |-> s[i]]
<1>1. IsFiniteSet(N) /\ Cardinality(N) = n
  <2> DEFINE one == 1
  <2>1. one \in Int /\ n \in Int /\ (IF one > n THEN 0 ELSE n - one + 1) = n
    OBVIOUS
  <2> HIDE DEF one
  <2>2. IsFiniteSet(one..n) /\ Cardinality(one..n) = n
    BY <2>1, FS_Interval
  <2> QED
    BY <2>2 DEF one
<1>2. f \in Bijection(N, T)
  <2>1. f \in [N -> T]
    BY DEF Img
  <2>2. \A t \in T : \E i \in N : f[i] = t
    BY DEF Img
  <2>3. \A i, j \in N : f[i] = f[j] => i = j
    BY DEF Once
  <2> HIDE DEF N, T, f
  <2> QED
    BY <2>1, <2>2, <2>3 DEF Bijection, Injection, IsInjective, Surjection
<1> HIDE DEF N, T, f
<1>3. ExistsBijection(N, T)
  BY <1>2 DEF ExistsBijection
<1>4. IsFiniteSet(T) /\ Cardinality(T) = Cardinality(N)
  BY <1>1, <1>3, FS_Bijection
<1> QED
  BY <1>1, <1>4 DEF T

(* Two sets that have nothing in common.                                   *)
LEMMA CountApart ==
    ASSUME NEW S, NEW T, IsFiniteSet(S), IsFiniteSet(T), S \intersect T = {}
    PROVE  IsFiniteSet(S \union T) /\ Cardinality(S \union T) = Cardinality(S) + Cardinality(T)
<1>1. /\ IsFiniteSet(S \union T)
      /\ Cardinality(S \union T) = Cardinality(S) + Cardinality(T) - Cardinality(S \intersect T)
  BY FS_Union
<1>2. Cardinality(S \intersect T) = 0
  BY FS_EmptySet
<1>3. Cardinality(S) \in Nat /\ Cardinality(T) \in Nat
  BY FS_CardinalityType
<1> QED
  BY <1>1, <1>2, <1>3

(* Nine clusters are in use, wherever they are.                            *)
LEMMA InUseCount ==
    ASSUME Layout, Apart
    PROVE  NrInUse = 9 /\ Cardinality(InUse) = 9
<1> DEFINE A == Img(MftMap)
           B == Img(At(MftMirr).map)
           C == Img(At(Bitmap).map)
           D == Img(At(File).map)
<1>1. /\ Len(MftMap) = 3 /\ DOMAIN MftMap = 1..3 /\ \A v \in 1..3 : MftMap[v] = Spot(v)
      /\ MftMap \in [1..3 -> Clusters] /\ \A f \in Records : OnDisk(f) = At(f)
  BY SpotIs
<1>2. MftMirr \in Records /\ Bitmap \in Records /\ File \in Records /\ Mft \in Records /\ MftExt \in Records
  BY RecordsAre
<1>3. Len(At(MftMirr).map) = 2 /\ Len(At(Bitmap).map) = 1 /\ Len(At(File).map) = 2
  BY <1>2, MapsAre, LengthsAre
<1>4. NrInUse = 9
  <2>1. OnDisk(MftMirr) = At(MftMirr) /\ OnDisk(Bitmap) = At(Bitmap) /\ OnDisk(File) = At(File)
    BY <1>1, <1>2
  <2> DEFINE k == Len(MftMap)  l == Len(OnDisk(MftMirr).map)  n == Len(OnDisk(Bitmap).map)  o == Len(OnDisk(File).map)
  <2>2. k = 3 /\ l = 2 /\ n = 1 /\ o = 2
    BY <1>1, <1>3, <2>1
  <2>3. NrInUse = 1 + k + l + n + o
    BY DEF NrInUse
  <2> HIDE DEF k, l, n, o
  <2> QED
    BY <2>2, <2>3
<1>5. Once(MftMap)
  BY <1>1, SpotsDiffer DEF Once
<1>6. Once(At(MftMirr).map) /\ Once(At(Bitmap).map) /\ Once(At(File).map)
  BY <1>2 DEF Layout
<1>7. DOMAIN At(MftMirr).map = 1..2 /\ DOMAIN At(Bitmap).map = 1..1 /\ DOMAIN At(File).map = 1..2
  BY <1>2, MapsAre, LengthsAre
<1>8. /\ IsFiniteSet(A) /\ Cardinality(A) = 3 /\ IsFiniteSet(B) /\ Cardinality(B) = 2
      /\ IsFiniteSet(C) /\ Cardinality(C) = 1 /\ IsFiniteSet(D) /\ Cardinality(D) = 2
  <2> DEFINE s == MftMap  t == At(MftMirr).map  u == At(Bitmap).map  w == At(File).map
             one == 1  two == 2  three == 3
  <2>1. one \in Nat /\ two \in Nat /\ three \in Nat
    OBVIOUS
  <2>2. /\ DOMAIN s = 1..three /\ DOMAIN t = 1..two /\ DOMAIN u = 1..one /\ DOMAIN w = 1..two
        /\ Once(s) /\ Once(t) /\ Once(u) /\ Once(w)
    BY <1>1, <1>5, <1>6, <1>7
  <2> HIDE DEF s, t, u, w, one, two, three
  <2>3. /\ IsFiniteSet(Img(s)) /\ Cardinality(Img(s)) = three /\ IsFiniteSet(Img(t)) /\ Cardinality(Img(t)) = two
        /\ IsFiniteSet(Img(u)) /\ Cardinality(Img(u)) = one /\ IsFiniteSet(Img(w)) /\ Cardinality(Img(w)) = two
    BY <2>1, <2>2, ImageCount
  <2> QED
    BY <2>3 DEF s, t, u, w, one, two, three
<1>9. A = Img(At(Mft).map) \union Img(At(MftExt).map)
  <2>1. A \subseteq Img(At(Mft).map) \union Img(At(MftExt).map)
    BY <1>1, SpotIs DEF Img
  <2>2. split \in BOOLEAN
    BY DEF Layout
  <2>3. ASSUME NEW c \in Img(At(Mft).map) PROVE c \in A
    <3>1. PICK v \in 1..Length(Mft) : c = At(Mft).map[v]
      BY <1>2, MapsAre
    <3>2. v \in 1..3 /\ Spot(v) = At(Mft).map[v]
      BY <2>2, <3>1, LengthsAre DEF Spot
    <3> QED
      BY <1>1, <3>1, <3>2 DEF Img
  <2>4. ASSUME NEW c \in Img(At(MftExt).map) PROVE c \in A
    <3>1. PICK v \in 1..Length(MftExt) : c = At(MftExt).map[v]
      BY <1>2, MapsAre
    <3>2. v = 1 /\ split
      BY <2>2, <3>1, LengthsAre
    <3>3. Spot(3) = At(MftExt).map[1]
      BY <3>2 DEF Spot
    <3> QED
      BY <1>1, <3>1, <3>2, <3>3 DEF Img
  <2> HIDE DEF A
  <2> QED
    BY <2>1, <2>3, <2>4
<1>10. /\ A \intersect B = {} /\ A \intersect C = {} /\ A \intersect D = {}
       /\ B \intersect C = {} /\ B \intersect D = {} /\ C \intersect D = {}
  <2>1. \A f, g \in Owners : f # g => Img(At(f).map) \intersect Img(At(g).map) = {}
    BY ApartIs
  <2>2. Mft \in Owners /\ MftExt \in Owners /\ MftMirr \in Owners /\ Bitmap \in Owners /\ File \in Owners
    BY DEF Owners
  <2>3. /\ Img(At(Mft).map) \intersect B = {} /\ Img(At(MftExt).map) \intersect B = {}
        /\ Img(At(Mft).map) \intersect C = {} /\ Img(At(MftExt).map) \intersect C = {}
        /\ Img(At(Mft).map) \intersect D = {} /\ Img(At(MftExt).map) \intersect D = {}
        /\ B \intersect C = {} /\ B \intersect D = {} /\ C \intersect D = {}
    BY <2>1, <2>2, NamesApart
  <2> HIDE DEF A, B, C, D
  <2> QED
    BY <1>9, <2>3
<1>11. A \subseteq Clusters /\ B \subseteq Clusters /\ C \subseteq Clusters /\ D \subseteq Clusters
  <2>1. A \subseteq Clusters
    BY <1>1 DEF Img
  <2> QED
    BY <1>2, <2>1, MapsAre
<1>12. InUse = {0} \union (A \union (B \union (C \union D)))
  <2>1. UNION {Img(At(f).map) : f \in Owners}
          = Img(At(Mft).map) \union Img(At(MftExt).map) \union B \union C \union D
    BY DEF Owners
  <2>2. InUse = {0} \union UNION {Img(At(f).map) : f \in Owners}
    BY InUseIs
  <2> HIDE DEF A, B, C, D
  <2> QED
    BY <1>9, <2>1, <2>2
<1> HIDE DEF A, B, C, D
<1>13. IsFiniteSet(C \union D) /\ Cardinality(C \union D) = 3
  BY <1>8, <1>10, CountApart
<1>14. IsFiniteSet(B \union (C \union D)) /\ Cardinality(B \union (C \union D)) = 5
  <2>1. B \intersect (C \union D) = {}
    BY <1>10
  <2> QED
    BY <1>8, <1>13, <2>1, CountApart
<1>15. IsFiniteSet(A \union (B \union (C \union D))) /\ Cardinality(A \union (B \union (C \union D))) = 8
  <2>1. A \intersect (B \union (C \union D)) = {}
    BY <1>10
  <2> QED
    BY <1>8, <1>14, <2>1, CountApart
<1>16. IsFiniteSet({0}) /\ Cardinality({0}) = 1
  <2> DEFINE z == 0
  <2> HIDE DEF z
  <2>1. IsFiniteSet({z}) /\ Cardinality({z}) = 1
    BY FS_Singleton
  <2> QED
    BY <2>1 DEF z
<1>17. {0} \intersect (A \union (B \union (C \union D))) = {}
  BY <1>11 DEF Clusters
<1>18. Cardinality({0} \union (A \union (B \union (C \union D)))) = 9
  <2> DEFINE Y == A \union (B \union (C \union D))
             Z == {0}
  <2>1. IsFiniteSet(Y) /\ Cardinality(Y) = 8 /\ IsFiniteSet(Z) /\ Cardinality(Z) = 1 /\ Z \intersect Y = {}
    BY <1>15, <1>16, <1>17
  <2> HIDE DEF Y, Z
  <2>2. Cardinality(Z \union Y) = 9
    BY <2>1, CountApart
  <2> QED
    BY <2>2 DEF Y, Z
<1> QED
  BY <1>4, <1>12, <1>18
-----------------------------------------------------------------------------
(* What the invariant says of the volume.                                  *)
LEMMA KeepsData ==
    ASSUME IInv
    PROVE  DataSurvives
<1>1. Layout
  BY DEF IInv, Disk
<1>2. /\ MftBase = At(Mft).map
      /\ Len(MftMap) = 3
      /\ \A v \in 1..3 : MftMap[v] = Spot(v) /\ cell[MftMap[v]] = cell[Home[v]]
      /\ \A f \in Records : OnDisk(f) = At(f)
  BY <1>1, SpotIs
<1>3. \A v \in 1..3 : "recs" \in DOMAIN cell[Home[v]] /\ DOMAIN cell[Home[v]].recs = InVcn(v)
  <2> TAKE v \in 1..3
  <2>1. cell[Home[v]] = [recs |-> [f \in InVcn(v) |-> At(f)]]
    BY <1>1, HomeIs
  <2> QED
    BY <2>1
<1>4. \A v \in 1..3 : IsMft(MftMap, v)
  BY <1>2, <1>3 DEF IsMft
<1>5. IsMft(MftBase, 2)
  <2>1. MftBase[2] = MftMap[2]
    BY <1>2 DEF Spot
  <2> QED
    BY <1>4, <2>1 DEF IsMft
<1>6. \A v \in 1..Len(OnDisk(File).map) : cell[OnDisk(File).map[v]] = Data(File, v)
  <2>1. OnDisk(File) = At(File) /\ Len(At(File).map) = 2
    BY <1>1, <1>2, RecordsAre, MapsAre, LengthsAre
  <2>2. \A v \in 1..2 : cell[At(File).map[v]] = Data(File, v)
    BY <1>1 DEF Layout
  <2> QED
    BY <2>1, <2>2
<1>7. "bits" \in DOMAIN cell[OnDisk(Bitmap).map[1]]
  <2>1. OnDisk(Bitmap) = At(Bitmap)
    BY <1>2, RecordsAre
  <2>2. cell[At(Bitmap).map[1]] = [bits |-> cell[At(Bitmap).map[1]].bits]
    BY <1>1 DEF Layout
  <2> QED
    BY <2>1, <2>2
<1> QED
  BY <1>2, <1>4, <1>5, <1>6, <1>7 DEF DataSurvives

(* No file has a cluster outside, nor have two files one: the nine         *)
(* clusters in use are nine different ones below the end.                  *)
LEMMA KeepsInside ==
    ASSUME IInv
    PROVE  NothingOutside
<1>1. Layout /\ Apart
  BY DEF IInv, Disk
<1>2. NrInUse = Cardinality(InUse)
  BY <1>1, InUseCount
<1>3. InUse = {0} \union UNION {Img(At(f).map) : f \in Owners}
  BY <1>1, InUseIs
<1>4. \A f \in Owners : Img(At(f).map) \subseteq Clusters /\ \A c \in Img(At(f).map) : c < boot.nr
  BY <1>1, MapsAre, ApartIs, RecordsAre
<1>5. boot.nr \in 2..Device
  BY <1>1 DEF Layout
<1>6. \A f \in Owners : Img(At(f).map) \subseteq 0..boot.nr - 1
  BY <1>4, <1>5 DEF Clusters
<1>7. 0 \in 0..boot.nr - 1
  BY <1>5
<1> QED
  BY <1>2, <1>3, <1>6, <1>7 DEF NothingOutside

(* Where the flag is not set, and when a run is through, $Bitmap and       *)
(* $BadClus are right.                                                     *)
LEMMA KeepsAgreement ==
    ASSUME IInv
    PROVE  AgreesUnlessMarked
<1>1. Layout /\ Marked /\ Idles
  BY DEF IInv, Disk
<1>2. OnDisk(Bitmap) = At(Bitmap) /\ OnDisk(BadClus) = At(BadClus)
  BY <1>1, SpotIs, RecordsAre
<1>3. ~dirty \/ pc = "done" => Agreed
  BY <1>1, Zenon DEF Marked, Idles
<1> QED
  BY <1>2, <1>3 DEF AgreesUnlessMarked, Agreed, BitsOnDisk

(* The copies of the first records are where the boot sector has the       *)
(* mirror: a running program writes them there behind every record, and at *)
(* most the record written last has not got there.                         *)
LEMMA KeepsMirror ==
    ASSUME IInv
    PROVE  MirrorAtBoot
<1>1. Layout /\ Idles
  BY DEF IInv, Disk
<1>2. CASE ~Running
  BY <1>1, <1>2 DEF Idles, Running
<1>3. CASE Running
  <2>1. Program
    BY <1>3 DEF IInv, Task
  <2>2. \A v \in 1..2 : Mirrored[v] \in Records
    BY RecordsAre
  <2>3. \A v \in 1..2 : \/ Mirrored[v] \in behind
                         \/ cell[boot.mirr + v - 1] = [rec |-> OnDisk(Mirrored[v])]
    <3> TAKE v \in 1..2
    <3>1. /\ mem.mirr[v] = boot.mirr + v - 1
          /\ Mirrored[v] \in behind \/ cell[mem.mirr[v]] = [rec |-> At(Mirrored[v])]
      BY <2>1 DEF Program
    <3>2. OnDisk(Mirrored[v]) = At(Mirrored[v])
      BY <1>1, <2>2, SpotIs
    <3> QED
      BY <3>1, <3>2
  <2>4. \E f \in Range(Mirrored) : behind \subseteq {f}
    <3>1. behind = {} \/ \E v \in 1..2 : behind = {Mirrored[v]}
      BY <2>1 DEF Program
    <3> QED
      BY <3>1, MirroredAre
  <2> QED
    BY <2>3, <2>4, RecordsAre DEF MirrorAtBoot
<1> QED
  BY <1>2, <1>3
-----------------------------------------------------------------------------
(* The invariant holds of every reachable state: of a volume as it is      *)
(* made, and behind every step of a run, every stop and every start.       *)
THEOREM Invariance == Spec => []IInv
<1>1. Init => IInv
  BY InitKeeps
<1>2. IInv /\ [Next]_vars => IInv'
  <2> SUFFICES ASSUME IInv, [Next]_vars PROVE IInv'
    OBVIOUS
  <2>1. ASSUME NEW new \in NewSizes, Start(new) PROVE IInv'
    BY <2>1, StartKeeps
  <2>2. CASE Prepare
    BY <2>2, PrepareKeeps
  <2>3. CASE TakeInode
    BY <2>3, TakeInodeKeeps
  <2>4. CASE Allocate
    BY <2>4, AllocateKeeps, GiveUpKeeps
  <2>5. CASE Copy
    BY <2>5, CopyKeeps
  <2>6. CASE WriteInode
    BY <2>6, WriteInodeKeeps
  <2>18. CASE WriteMirror
    BY <2>18, WriteMirrorKeeps
  <2>7. CASE TruncateBadClus
    BY <2>7, TruncateBadClusKeeps
  <2>8. CASE ReallocBitmap
    BY <2>8, ReallocBitmapKeeps, GiveUpKeeps
  <2>9. CASE WriteBits
    BY <2>9, WriteBitsKeeps
  <2>10. CASE WriteBitmapRecord
    BY <2>10, WriteBitmapRecordKeeps
  <2>11. CASE CopyMirror
    BY <2>11, CopyMirrorKeeps
  <2>12. CASE WriteBoot
    BY <2>12, WriteBootKeeps
  <2>13. CASE Stop
    BY <2>13, StopKeeps
  <2>14. CASE Exit
    BY <2>14, ExitKeeps
  <2>15. CASE UNCHANGED vars
    BY <2>15, StutterKeeps
  <2>16. (\E new \in NewSizes : Start(new)) \/ Step \/ Stop \/ Exit \/ UNCHANGED vars
    BY DEF Next
  <2>17. CASE Step
    BY <2>17, <2>2, <2>3, <2>4, <2>5, <2>6, <2>18, <2>7, <2>8, <2>9, <2>10, <2>11, <2>12, Zenon DEF Step
  <2> QED
    BY <2>1, <2>13, <2>14, <2>15, <2>16, <2>17, Zenon
<1> QED
  BY <1>1, <1>2, PTL DEF Spec

(* Wherever ntfsresize stops, for every size of device and volume and any  *)
(* placement of the files, the boot sector leads to $MFT, the records to   *)
(* the clusters of the files, and those hold what they held.               *)
THEOREM DataIsKept == Spec => []DataSurvives
BY Invariance, KeepsData, PTL

(* Wherever it stops, no file has clusters outside of the volume the boot  *)
(* sector names, nor do two files have one cluster.                        *)
THEOREM NothingIsOutside == Spec => []NothingOutside
BY Invariance, KeepsInside, PTL

(* Unless the volume is marked dirty, and whenever a run is through,       *)
(* $Bitmap has exactly the clusters in use and what is behind the end, and *)
(* $BadClus is as long as the volume.                                      *)
THEOREM VolumeAgrees == Spec => []AgreesUnlessMarked
BY Invariance, KeepsAgreement, PTL

(* Where the boot sector has the mirror there is a copy of the first       *)
(* records of $MFT as they are, unless the mirror had to be broken up; of  *)
(* one of them, the one that was written to $MFT last, an older copy, when *)
(* the program was stopped before it wrote it to the mirror.               *)
THEOREM MirrorIsAtBoot == Spec => []MirrorAtBoot
BY Invariance, KeepsMirror, PTL
=============================================================================
