---------------------------- MODULE AttrData_proofs ---------------------------
(***************************************************************************)
(* The attribute, its record in memory, its record on disk and $Bitmap     *)
(* agree, for every volume, layout, length of writes and number of calls   *)
(* and faults.                                                             *)
(*                                                                         *)
(* The three invariants of AttrData speak of the time between calls, and   *)
(* of the disk.  What they rest on is what holds within a call: which of   *)
(* the sizes a phase may rely on (Phases), that the record in memory       *)
(* follows the attribute but for the runlist while holes are filled        *)
(* (Records), that the clusters of the runlist are exactly those that are  *)
(* in use and not another's (Mine), and what the disk holds (OnDisk).      *)
(* Like the invariants, all of it stops at the first scar.                 *)
(*                                                                         *)
(* The content (CallsKeepContent) is shown in the second half.  It needs   *)
(* those four where they hold, and to know of each phase what is still     *)
(* read as before the call (CInv), also behind a scar.                     *)
(***************************************************************************)
EXTENDS AttrData, NatSetLemmas, TLAPS

(* An attribute whose sizes are in order.  The size may be behind what is  *)
(* allocated while a shrink is under way: see Records.                     *)
Attr == [res : BOOLEAN, map : Seq(Lcn \union {Hole}), alloc : Nat, size : Nat, init : Nat]
InOrder(a) ==
    /\ a \in Attr /\ a.init <= a.size /\ a.alloc = Room(a)
    /\ a.res => a.map = <<>> /\ a.init = a.size /\ a.size <= MaxResident

(* The phases of a call: up to the size that a write needs, and behind it. *)
Sizing == {"resize", "expand", "exp_size", "exp_undo", "init"}
Cutting == {"shrink", "shr_size"}
Writing == {"data", "done", "err", "err_map"}

(* $Bitmap has the clusters of the runlist and of others, and no more.     *)
Mine == bmp = Used(na.map) \union other /\ Used(na.map) \intersect other = {} /\ NoneTwice(na.map)

(* The record in memory.  While a write is under way its mapping pairs may *)
(* lack clusters that were allocated to holes.                             *)
Records ==
    /\ InOrder(na)
    /\ pc # "shr_size" \/ na.alloc = call.old_alloc => na.size <= na.alloc
    /\ pc \notin Writing \union {"exp_undo"} => rec = na
    /\ pc \in Writing =>
          /\ rec = [na EXCEPT !.map = rec.map]
          /\ call.remapped => /\ rec.map \in Seq(Lcn \union {Hole}) /\ Len(rec.map) = Len(na.map)
                              /\ Used(rec.map) \subseteq Used(na.map)
          /\ ~call.remapped => rec.map = na.map

(* The record on disk.                                                     *)
OnDisk ==
    /\ disk \in Attr /\ disk.init <= disk.size /\ disk.size <= disk.alloc /\ disk.alloc = Room(disk)
    /\ Used(disk.map) \subseteq (bmp \ other) \union freed

(* The fields of a call.                                                   *)
IsCall(c) ==
    c = [op |-> c.op, pos |-> c.pos, count |-> c.count, val |-> c.val,
         new |-> c.new, old |-> c.old, old_alloc |-> c.old_alloc,
         old_init |-> c.old_init, at |-> c.at, left |-> c.left,
         total |-> c.total, extended |-> c.extended,
         initialized |-> c.initialized, remapped |-> c.remapped,
         ret |-> c.ret, before |-> c.before, spoilt |-> c.spoilt]
Fields == IsCall(call)

(* What each phase of a call may rely on.                                  *)
Phases ==
    /\ Fields
    /\ pc \in {"idle", "ret"} \union Sizing \union Cutting \union Writing
    /\ call.pos \in Nat /\ call.count \in Nat /\ call.new \in Nat /\ call.old \in Nat
    /\ call.old_init \in Nat /\ call.at \in Nat /\ call.left \in Int
    /\ pc = "resize" => na.res
    /\ pc \in {"expand", "exp_size", "exp_undo"} \union Cutting => ~na.res
    /\ pc \in {"expand", "exp_size"} => call.new > na.size
    /\ pc = "exp_size" => call.new <= na.alloc
    /\ pc = "shrink" => call.new <= na.size /\ call.old_alloc = na.alloc
    /\ pc = "shr_size" => Len(na.map) = Clusters(call.new)
    /\ pc \in Cutting => call.op # "write"
    /\ pc \in Sizing /\ call.op = "write" =>
          /\ ~call.remapped /\ ~call.initialized
          /\ pc \in Sizing \ {"init"} => call.new = End
          /\ pc = "resize" \/ ~na.res => call.old_init = na.init
    /\ pc = "init" => call.op = "write" /\ End <= na.size
    /\ pc = "data" => ~na.res
    /\ pc \in Writing /\ na.res => ~call.remapped /\ ~call.initialized
    /\ pc \in Writing /\ call.initialized => call.old_init <= na.size

(* The inductive invariant.                                                *)
IInv == scars = {} => Mine /\ Records /\ OnDisk /\ Phases
-----------------------------------------------------------------------------
(* Sizes in clusters and in positions.                                     *)
LEMMA Division ==
    ASSUME NEW c \in Nat \ {0}, NEW x \in Nat
    PROVE  /\ x \div c \in Nat /\ (x \div c) * c <= x /\ x < (x \div c) * c + c
  OBVIOUS

(* Multiplying keeps the order.                                            *)
LEMMA Order ==
    ASSUME NEW c \in Nat \ {0}, NEW a \in Int, NEW b \in Int
    PROVE  /\ a <= b <=> a * c <= b * c
           /\ a * c \in Int /\ (a + 1) * c = a * c + c
           /\ a >= 0 => a * c \in Nat
  OBVIOUS

(* A whole number of clusters divides without a rest.                      *)
LEMMA DivisionOf ==
    ASSUME NEW c \in Nat \ {0}, NEW a \in Nat
    PROVE  (a * c) \div c = a
<1> DEFINE d == (a * c) \div c
<1>1. a * c \in Nat
  BY Order
<1>2. d \in Nat /\ d * c <= a * c /\ a * c < d * c + c
  BY <1>1, Division
<1>3. d <= a
  BY <1>2, Order
<1>4. d * c + c = (d + 1) * c /\ d + 1 \in Nat
  BY <1>2, Order
<1>5. ~(d + 1 <= a)
  <2> SUFFICES ASSUME d + 1 <= a PROVE FALSE
    OBVIOUS
  <2>1. (d + 1) * c <= a * c
    BY <1>4, Order
  <2>2. (d + 1) * c \in Int /\ a * c \in Int
    BY <1>4, Order
  <2> HIDE DEF d
  <2> QED
    BY <1>2, <1>4, <2>1, <2>2
<1> HIDE DEF d
<1>6. d = a
  BY <1>2, <1>3, <1>5
<1> QED
  BY <1>6 DEF d

(* Clusters(x) is the least number of clusters that hold x positions.      *)
LEMMA ClustersIs ==
    ASSUME AttrAssumption, NEW x \in Nat
    PROVE  /\ Clusters(x) \in Nat /\ x <= Clusters(x) * ClusterSize
           /\ \A n \in Nat : x <= n * ClusterSize => Clusters(x) <= n
<1> DEFINE c == ClusterSize
           y == x + c - 1
           d == y \div c
<1>1. c \in Nat \ {0} /\ y \in Nat
  BY DEF AttrAssumption
<1>2. d \in Nat /\ d * c <= y /\ y < d * c + c
  BY <1>1, Division
<1>3. d * c \in Nat
  BY <1>1, <1>2, Order
<1>4. ASSUME NEW n \in Nat, x <= n * c PROVE d <= n
  <2>1. n * c \in Nat /\ (n + 1) * c = n * c + c /\ n + 1 \in Nat
    BY <1>1, Order
  <2>2. ~((n + 1) * c <= d * c)
    <3> HIDE DEF d
    <3> QED
      BY <1>1, <1>2, <1>3, <1>4, <2>1
  <2>3. ~(n + 1 <= d)
    BY <1>1, <1>2, <2>1, <2>2, Order
  <2> HIDE DEF d
  <2> QED
    BY <1>2, <2>3
<1>5. x <= d * c
  <2> HIDE DEF d
  <2> QED
    BY <1>1, <1>2, <1>3
<1> QED
  BY <1>2, <1>4, <1>5 DEF Clusters
-----------------------------------------------------------------------------
(* What the clusters of a runlist are that is built from others.           *)
LEMMA UsedEmpty == Used(<<>>) = {} /\ NoneTwice(<<>>)
  BY DEF Used, NoneTwice

(* Two runlists one behind the other.                                      *)
LEMMA UsedJoined ==
    ASSUME NEW m \in Seq(Lcn \union {Hole}), NEW s \in Seq(Lcn \union {Hole})
    PROVE  /\ m \o s \in Seq(Lcn \union {Hole}) /\ Len(m \o s) = Len(m) + Len(s)
           /\ Used(m \o s) = Used(m) \union Used(s)
           /\ NoneTwice(m) /\ NoneTwice(s) /\ Used(m) \intersect Used(s) = {} => NoneTwice(m \o s)
<1> DEFINE j == m \o s
<1>1. /\ j \in Seq(Lcn \union {Hole}) /\ Len(j) = Len(m) + Len(s)
      /\ DOMAIN j = 1 .. Len(m) + Len(s) /\ DOMAIN m = 1 .. Len(m) /\ DOMAIN s = 1 .. Len(s)
      /\ Len(m) \in Nat /\ Len(s) \in Nat
  OBVIOUS
<1>2. \A i \in DOMAIN j : j[i] = IF i <= Len(m) THEN m[i] ELSE s[i - Len(m)]
  BY <1>1
<1>3. /\ \A i \in DOMAIN m : i \in DOMAIN j /\ j[i] = m[i]
      /\ \A i \in DOMAIN s : i + Len(m) \in DOMAIN j /\ j[i + Len(m)] = s[i]
      /\ \A i \in DOMAIN j : i \in DOMAIN m \/ i - Len(m) \in DOMAIN s
  <2> HIDE DEF j
  <2> QED
    BY <1>1, <1>2
<1> HIDE DEF j
<1>4. Used(j) = Used(m) \union Used(s)
  <2>1. Used(j) \subseteq Used(m) \union Used(s)
    BY <1>1, <1>2, <1>3 DEF Used
  <2>2. Used(m) \subseteq Used(j) /\ Used(s) \subseteq Used(j)
    BY <1>3 DEF Used
  <2> QED
    BY <2>1, <2>2
<1>5. ASSUME NoneTwice(m), NoneTwice(s), Used(m) \intersect Used(s) = {}
      PROVE  NoneTwice(j)
  <2> SUFFICES ASSUME NEW i \in DOMAIN j, NEW k \in DOMAIN j, j[i] = j[k], j[i] # Hole
               PROVE  i = k
    BY DEF NoneTwice
  <2>1. \A l \in DOMAIN m : m[l] # Hole => m[l] \in Used(m)
    BY DEF Used
  <2>2. \A l \in DOMAIN s : s[l] # Hole => s[l] \in Used(s)
    BY DEF Used
  <2>3. CASE i <= Len(m) /\ k <= Len(m)
    BY <1>1, <1>2, <1>5, <2>3 DEF NoneTwice
  <2>4. CASE i <= Len(m) /\ ~(k <= Len(m))
    BY <1>1, <1>2, <1>5, <2>1, <2>2, <2>4
  <2>5. CASE ~(i <= Len(m)) /\ k <= Len(m)
    BY <1>1, <1>2, <1>5, <2>1, <2>2, <2>5
  <2>6. CASE ~(i <= Len(m)) /\ ~(k <= Len(m))
    <3>1. i - Len(m) \in DOMAIN s /\ k - Len(m) \in DOMAIN s /\ s[i - Len(m)] = s[k - Len(m)] /\ s[i - Len(m)] # Hole
      BY <1>1, <1>2, <2>6
    <3>2. i - Len(m) = k - Len(m)
      BY <1>5, <3>1 DEF NoneTwice
    <3> QED
      BY <1>1, <3>2
  <2> QED
    BY <2>3, <2>4, <2>5, <2>6
<1> QED
  BY <1>1, <1>4, <1>5 DEF j

(* A part of a runlist.                                                    *)
LEMMA UsedCut ==
    ASSUME NEW m \in Seq(Lcn \union {Hole}), NEW a \in Nat \ {0}, NEW k \in 0 .. Len(m)
    PROVE  /\ SubSeq(m, a, k) \in Seq(Lcn \union {Hole}) /\ Used(SubSeq(m, a, k)) \subseteq Used(m)
           /\ Len(SubSeq(m, 1, k)) = k
           /\ NoneTwice(m) => NoneTwice(SubSeq(m, 1, k))
<1>1. /\ SubSeq(m, a, k) \in Seq(Lcn \union {Hole})
      /\ \A i \in DOMAIN SubSeq(m, a, k) : i + a - 1 \in DOMAIN m /\ SubSeq(m, a, k)[i] = m[i + a - 1]
  OBVIOUS
<1>2. /\ Len(SubSeq(m, 1, k)) = k
      /\ \A i \in DOMAIN SubSeq(m, 1, k) : i \in DOMAIN m /\ SubSeq(m, 1, k)[i] = m[i]
  OBVIOUS
<1>3. Used(SubSeq(m, a, k)) \subseteq Used(m)
  BY <1>1 DEF Used
<1> QED
  BY <1>1, <1>2, <1>3 DEF NoneTwice

(* What the cluster allocator grants: free clusters, none twice.           *)
LEMMA GrantedIs ==
    ASSUME NEW n \in Nat, NEW s \in Granted(n)
    PROVE  /\ s \in Seq(Lcn \union {Hole}) /\ Len(s) = n
           /\ Used(s) \subseteq Lcn \ bmp /\ NoneTwice(s)
           /\ \A i \in 1 .. n : s[i] \in Lcn \ bmp
<1>1. s \in [1 .. n -> Lcn \ bmp] /\ IsInjective(s)
  BY DEF Granted
<1>2. DOMAIN s = 1 .. n
  BY <1>1
<1>3. s \in Seq(Lcn \union {Hole}) /\ Len(s) = n
  BY <1>1
<1> QED
  BY <1>1, <1>2, <1>3 DEF Used, NoneTwice, IsInjective

(* A runlist of holes.                                                     *)
LEMMA UsedHoles ==
    ASSUME NEW n \in Nat
    PROVE  LET s == [i \in 1 .. n |-> Hole]
           IN  s \in Seq(Lcn \union {Hole}) /\ Len(s) = n /\ Used(s) = {} /\ NoneTwice(s)
  BY DEF Used, NoneTwice
-----------------------------------------------------------------------------
(* A scar is never forgotten.                                              *)
LEMMA ScarsStay == [Next]_vars /\ scars' = {} => scars = {}
<1> SUFFICES ASSUME [Next]_vars, scars' = {} PROVE scars = {}
  OBVIOUS
<1>1. CASE UNCHANGED scars
  BY <1>1
<1>2. CASE Next /\ ~UNCHANGED scars
  <2>1. \/ MakeNonResidentFails \/ ExpandUndo \/ ShrinkFails \/ ShrinkUpdateFails
        \/ ShrinkSizeFails \/ Done \/ RestoreInitFails \/ ErrMap
    <3> SUFFICES ASSUME ~(\/ MakeNonResidentFails \/ ExpandUndo \/ ShrinkFails
                          \/ ShrinkUpdateFails \/ ShrinkSizeFails \/ Done
                          \/ RestoreInitFails \/ ErrMap)
                 PROVE  UNCHANGED scars
      BY <1>2
    <3>1. CASE \E new \in 0 .. MaxSize : Truncate(new)
      BY <3>1 DEF Truncate
    <3>2. CASE \E pos \in Position, val \in {Zero, calls + 1} :
                 \E count \in {n \in Counts : n <= MaxSize - pos} : Write(pos, count, val)
      BY <3>2 DEF Write
    <3>3. CASE \/ ResizeValue \/ ResizeFails \/ MakeNonResident \/ MakeNonResidentShort
               \/ ExpandWithin \/ Expand \/ ExpandFails \/ ExpandUpdateFails
               \/ ExpandSize \/ ExpandSizeFails
      BY <3>3 DEF ResizeValue, ResizeFails, MakeNonResident, MakeNonResidentShort, Convert,
                  ExpandWithin, Expand, ExpandFails, ExpandUpdateFails, Grow, ExpandSize,
                  ExpandSizeFails
    <3>4. CASE \/ ShrinkWithin \/ Shrink \/ ShrinkSize \/ MakeResident \/ WriteValue
               \/ WriteValueFails \/ InitNotNeeded \/ Initialize \/ InitializeShort \/ InitializeFails
               \/ InitializeWriteFails
      BY <3>4 DEF ShrinkWithin, Shrink, ShrinkSize, MakeResident, WriteValue,
                  WriteValueFails, InitNotNeeded, Initialize, InitializeShort, RaiseInit, InitializeFails,
                  InitializeWriteFails
    <3>5. CASE \/ LoopEnds \/ PastRunlist \/ SkipHole \/ WriteRun \/ WriteRunFails
               \/ WriteRunShort \/ FillHole \/ FillHoleZeroFails \/ FillHoleZeroShort \/ FillHoleFails
      BY <3>5 DEF LoopEnds, PastRunlist, SkipHole, WriteRun, WriteRunFails, WriteRunShort,
                  FillHole, FillHoleZeroFails, FillHoleZeroShort, FillHoleFails, Instantiate
    <3>6. CASE RestoreInit \/ Return \/ (\E c \in Lcn : OtherTakes(c)) \/ Sync
      BY <3>6 DEF RestoreInit, Return, OtherTakes, Sync
    <3> QED
      BY <1>2, <3>1, <3>2, <3>3, <3>4, <3>5, <3>6 DEF Next
  <2> QED
    BY <2>1 DEF MakeNonResidentFails, ExpandUndo, ShrinkFails, ShrinkUpdateFails,
                ShrinkSizeFails, Done, RestoreInitFails, ErrMap, UpdateMap
<1> QED
  BY <1>1, <1>2 DEF vars

(* One round of the loop stays within a run: it goes from the vcn of the   *)
(* position to one that is not behind the end of the run.                  *)
LEMMA RunIs ==
    ASSUME AttrAssumption, InOrder(na), call.at \in Nat, call.left \in Nat \ {0}, InRunlist
    PROVE  /\ Vcn \in Nat /\ LastVcn \in Nat /\ RunEnd \in Nat /\ NextRun \in Nat
           /\ ToWrite \in Nat \ {0}
           /\ Vcn <= LastVcn /\ LastVcn <= RunEnd /\ RunEnd < Len(na.map)
           /\ \A j \in Vcn .. RunEnd - 1 : Joined(j)
<1> DEFINE c == ClusterSize
           v == Vcn
           len == Len(na.map)
           S == {i \in v .. len - 1 : \A j \in v .. i - 1 : Joined(j)}
<1>1. c \in Nat \ {0} /\ len \in Nat
  BY DEF AttrAssumption, InOrder, Attr
<1>2. v \in Nat /\ v < len
      /\ v * c <= call.at /\ call.at < v * c + c /\ (v + 1) * c = v * c + c
  <2>1. v \in Nat /\ v * c <= call.at /\ call.at < v * c + c
    BY <1>1, Division DEF Vcn
  <2>2. (v + 1) * c = v * c + c
    BY <1>1, <2>1, Order
  <2>3. v < len
    BY DEF InRunlist
  <2> QED
    BY <2>1, <2>2, <2>3
<1> HIDE DEF v, len, c
<1>3. RunEnd = Largest(S)
  BY DEF RunEnd, v, len
<1>4. RunEnd \in v .. len - 1 /\ \A j \in v .. RunEnd - 1 : Joined(j)
  <2>1. S \in SUBSET Nat /\ v \in S /\ len - 1 \in Nat /\ \A l \in S : l <= len - 1
    BY <1>1, <1>2
  <2>2. Largest(S) \in S
    <3> HIDE DEF S
    <3> QED
      BY <2>1, LargestIsGreatest
  <2> QED
    BY <1>3, <2>2
<1>5. RunEnd \in Nat /\ v <= RunEnd /\ RunEnd < len
  BY <1>1, <1>2, <1>4
<1>6. NextRun \in Nat /\ NextRun = (RunEnd + 1) * c /\ (v + 1) * c <= NextRun
  <2>1. NextRun = (RunEnd + 1) * c
    BY DEF NextRun, c
  <2>2. v + 1 \in Nat /\ RunEnd + 1 \in Nat /\ v + 1 <= RunEnd + 1
    BY <1>2, <1>5
  <2> QED
    BY <1>1, <2>1, <2>2, Order
<1> DEFINE x == call.at + ToWrite - 1
<1>7. x \in Nat /\ call.at <= x /\ x < NextRun /\ ToWrite \in Nat \ {0}
  <2>1. v * c \in Nat
    BY <1>1, <1>2, Order
  <2>2. call.at < NextRun
    <3> DEFINE y == (v + 1) * c
    <3>1. y \in Int
      BY <1>1, <1>2, Order
    <3>2. call.at < y
      BY <1>2
    <3>3. y <= NextRun
      BY <1>6
    <3> HIDE DEF y
    <3> QED
      BY <1>6, <3>1, <3>2, <3>3
  <2>3. ToWrite \in Nat \ {0} /\ ToWrite <= NextRun - call.at
    BY <1>6, <2>2 DEF ToWrite, Lesser
  <2> QED
    BY <1>6, <2>3
<1>8. LastVcn \in Nat /\ LastVcn * c <= x /\ x < LastVcn * c + c
  <2>1. LastVcn = x \div c
    BY DEF LastVcn, c
  <2> HIDE DEF x
  <2> QED
    BY <1>1, <1>7, <2>1, Division
<1> HIDE DEF x
<1>9. LastVcn <= RunEnd
  <2>1. (RunEnd + 1) * c \in Nat /\ LastVcn * c \in Nat /\ ~((RunEnd + 1) * c <= LastVcn * c)
    <3>1. (RunEnd + 1) * c \in Nat /\ LastVcn * c \in Nat
      BY <1>1, <1>5, <1>8, Order
    <3> QED
      BY <1>6, <1>7, <1>8, <3>1
  <2>2. ~(RunEnd + 1 <= LastVcn)
    BY <1>1, <1>5, <1>8, <2>1, Order
  <2> QED
    BY <1>5, <1>8, <2>2
<1>10. v <= LastVcn
  <2>1. (LastVcn + 1) * c = LastVcn * c + c /\ LastVcn * c \in Nat /\ v * c \in Nat
    BY <1>1, <1>2, <1>8, Order
  <2>2. ~((LastVcn + 1) * c <= v * c)
    BY <1>1, <1>2, <1>7, <1>8, <2>1
  <2>3. ~(LastVcn + 1 <= v)
    BY <1>1, <1>2, <1>8, <2>2, Order
  <2> QED
    BY <1>2, <1>8, <2>3
<1> QED
  <2>1. v = Vcn /\ len = Len(na.map)
    BY DEF v, len
  <2> QED
    BY <1>2, <1>4, <1>5, <1>6, <1>7, <1>8, <1>9, <1>10, <2>1

(* A hole that is filled: the vcns from that of the position to the last   *)
(* one written to are holes of the runlist.                                *)
LEMMA HoleIs ==
    ASSUME AttrAssumption, InOrder(na), call.at \in Nat, call.left \in Nat \ {0}, HoleAt
    PROVE  /\ Vcn \in Nat /\ LastVcn \in Nat /\ Vcn <= LastVcn /\ LastVcn < Len(na.map)
           /\ \A i \in Vcn .. LastVcn : na.map[i + 1] = Hole
<1> DEFINE v == Vcn
           len == Len(na.map)
<1>1. /\ v \in Nat /\ LastVcn \in Nat /\ RunEnd \in Nat
      /\ v <= LastVcn /\ LastVcn <= RunEnd /\ RunEnd < len
      /\ \A j \in v .. RunEnd - 1 : Joined(j)
  BY RunIs DEF HoleAt
<1>2. na.map[v + 1] = Hole /\ len \in Nat
  BY DEF HoleAt, IsHole, Vcn, InOrder, Attr
<1> HIDE DEF v, len
<1>3. \A i \in v .. RunEnd : na.map[i + 1] = Hole
  <2> DEFINE B == {i \in v .. RunEnd : na.map[i + 1] # Hole}
  <2> SUFFICES ASSUME B # {} PROVE FALSE
    OBVIOUS
  <2>1. B \in SUBSET Nat
    BY <1>1
  <2>2. PICK m \in B : \A k \in B : m <= k
    BY <2>1, SmallestExists
  <2>3. m \in v .. RunEnd /\ m # v /\ na.map[m + 1] # Hole
    BY <1>2, <2>2
  <2>4. m - 1 \in v .. RunEnd - 1 /\ m - 1 \in v .. RunEnd /\ m - 1 < m
    BY <1>1, <2>3
  <2>5. ~(m - 1 \in B)
    BY <1>1, <2>2, <2>3
  <2>6. na.map[(m - 1) + 1] = Hole
    BY <2>4, <2>5
  <2>7. Joined(m - 1)
    BY <1>1, <2>4
  <2>8. na.map[(m - 1) + 2] = Hole
    BY <2>6, <2>7 DEF Joined
  <2>9. (m - 1) + 2 = m + 1
    BY <1>1, <2>3
  <2> QED
    BY <2>3, <2>8, <2>9
<1>4. \A i \in v .. LastVcn : i \in v .. RunEnd
  BY <1>1
<1>5. LastVcn < len
  BY <1>1, <1>2
<1> QED
  BY <1>1, <1>3, <1>4, <1>5 DEF v, len

(* What the runlist becomes: the attribute gains the clusters granted.     *)
LEMMA FilledIs ==
    ASSUME AttrAssumption, InOrder(na), call.at \in Nat, call.left \in Nat \ {0}, HoleAt,
           NEW s \in Granted(LastVcn - Vcn + 1),
           NoneTwice(na.map), Used(na.map) \subseteq bmp
    PROVE  LET f == Filled(s)
           IN  /\ f = [na EXCEPT !.map = f.map]
               /\ f.map \in Seq(Lcn \union {Hole}) /\ Len(f.map) = Len(na.map)
               /\ Used(f.map) = Used(na.map) \union Used(s) /\ NoneTwice(f.map)
<1> DEFINE v == Vcn
           l == LastVcn
           n == l - v + 1
           m == na.map
           t == [i \in DOMAIN m |-> IF i - 1 \in v .. l THEN s[i - v] ELSE m[i]]
<1>1. /\ v \in Nat /\ l \in Nat /\ v <= l /\ l < Len(m)
      /\ \A i \in v .. l : m[i + 1] = Hole
  BY HoleIs
<1>2. m \in Seq(Lcn \union {Hole}) /\ DOMAIN m = 1 .. Len(m) /\ Len(m) \in Nat
  BY DEF InOrder, Attr
<1>3. n \in Nat
  BY <1>1
<1>4. /\ s \in Seq(Lcn \union {Hole}) /\ Len(s) = n
      /\ Used(s) \subseteq Lcn \ bmp /\ NoneTwice(s)
      /\ \A i \in 1 .. n : s[i] \in Lcn \ bmp
  <2>1. s \in Granted(n)
    OBVIOUS
  <2> HIDE DEF n
  <2> QED
    BY <1>3, <2>1, GrantedIs
<1>5. Filled(s) = [na EXCEPT !.map = t]
  BY DEF Filled
<1>6. Filled(s).map = t /\ Filled(s) = [na EXCEPT !.map = Filled(s).map]
  BY <1>5 DEF InOrder, Attr
<1> HIDE DEF v, l
<1>7. DOMAIN s = 1 .. n
  BY <1>3, <1>4
<1>8. \A i \in 1 .. Len(m) :
         /\ i - 1 \in v .. l => i - v \in 1 .. n /\ t[i] = s[i - v] /\ m[i] = Hole
         /\ i - 1 \notin v .. l => t[i] = m[i]
  <2> TAKE i \in 1 .. Len(m)
  <2>1. ASSUME i - 1 \in v .. l PROVE i - v \in 1 .. n /\ m[i] = Hole
    <3>1. (i - 1) + 1 = i
      OBVIOUS
    <3>2. m[(i - 1) + 1] = Hole
      BY <1>1, <2>1
    <3>3. i - v \in 1 .. n
      BY <1>1, <2>1
    <3> QED
      BY <3>1, <3>2, <3>3
  <2> QED
    BY <1>2, <2>1
<1>9. \A k \in 1 .. n : k + v \in 1 .. Len(m) /\ (k + v) - 1 \in v .. l /\ (k + v) - v = k
  BY <1>1, <1>2, <1>3
<1>10. \A k \in 1 .. n : t[k + v] = s[k]
  BY <1>8, <1>9
<1> HIDE DEF m
<1>11. DOMAIN t = 1 .. Len(m)
  BY <1>2
<1>12. t \in Seq(Lcn \union {Hole}) /\ Len(t) = Len(m)
  <2>1. \A i \in 1 .. Len(m) : t[i] \in Lcn \union {Hole}
    BY <1>2, <1>4, <1>8
  <2>2. t \in [1 .. Len(m) -> Lcn \union {Hole}]
    BY <1>2, <2>1
  <2> HIDE DEF t
  <2> QED
    BY <1>2, <2>2, SMTT(30)
<1> HIDE DEF t
<1>13. Used(t) = Used(m) \union Used(s)
  <2>1. \A i \in DOMAIN t : t[i] # Hole => t[i] \in Used(m) \union Used(s)
    BY <1>2, <1>7, <1>8, <1>11 DEF Used
  <2>2. \A i \in DOMAIN m : m[i] # Hole => m[i] \in Used(t)
    BY <1>2, <1>8, <1>11 DEF Used
  <2>3. \A i \in DOMAIN s : s[i] # Hole => s[i] \in Used(t)
    BY <1>7, <1>9, <1>10, <1>11 DEF Used
  <2> QED
    BY <2>1, <2>2, <2>3 DEF Used
<1>14. NoneTwice(t)
  <2> SUFFICES ASSUME NEW i \in 1 .. Len(m), NEW j \in 1 .. Len(m), t[i] = t[j], t[i] # Hole
               PROVE  i = j
    BY <1>11 DEF NoneTwice
  <2>1. \A k \in 1 .. Len(m) : m[k] # Hole => m[k] \in bmp
    BY <1>2 DEF Used, m
  <2>2. CASE i - 1 \in v .. l /\ j - 1 \in v .. l
    <3>1. s[i - v] = s[j - v] /\ i - v \in DOMAIN s /\ j - v \in DOMAIN s /\ s[i - v] # Hole
      BY <1>7, <1>8, <2>2
    <3>2. i - v = j - v
      BY <1>4, <3>1 DEF NoneTwice
    <3> QED
      BY <1>1, <3>2
  <2>3. CASE i - 1 \in v .. l /\ j - 1 \notin v .. l
    BY <1>4, <1>8, <2>1, <2>3
  <2>4. CASE i - 1 \notin v .. l /\ j - 1 \in v .. l
    BY <1>4, <1>8, <2>1, <2>4
  <2>5. CASE i - 1 \notin v .. l /\ j - 1 \notin v .. l
    BY <1>2, <1>8, <2>5 DEF NoneTwice, m
  <2> QED
    BY <2>2, <2>3, <2>4, <2>5
<1> QED
  BY <1>6, <1>12, <1>13, <1>14 DEF m
-----------------------------------------------------------------------------
(* Where a call starts from.                                               *)
LEMMA NoCallIs ==
    /\ IsCall(NoCall)
    /\ NoCall.op = "none" /\ NoCall.pos = 0 /\ NoCall.count = 0 /\ NoCall.new = 0
    /\ NoCall.old = 0 /\ NoCall.old_init = 0 /\ NoCall.at = 0 /\ NoCall.left = 0
    /\ NoCall.remapped = FALSE /\ NoCall.initialized = FALSE
  BY DEF NoCall, IsCall

(* The layouts an attribute may start with are in order.                   *)
LEMMA InitHolds == AttrAssumption /\ Init => IInv
<1> SUFFICES ASSUME AttrAssumption, Init PROVE Mine /\ Records /\ OnDisk /\ Phases
  BY DEF IInv
<1>1. InOrder(na) /\ NoneTwice(na.map)
  <2>1. ASSUME NEW map \in Layouts,
               NEW size \in (Len(map) - 1) * ClusterSize + 1 .. Len(map) * ClusterSize,
               NEW init \in 0 .. size, na = NonResident(map, size, init)
        PROVE  InOrder(na) /\ NoneTwice(na.map)
    <3>1. map \in Seq(Lcn \union {Hole}) /\ Len(map) \in Nat \ {0} /\ NoneTwice(map)
          /\ ClusterSize \in Nat \ {0}
      BY DEF AttrAssumption
    <3>2. (Len(map) - 1) * ClusterSize \in Nat /\ Len(map) * ClusterSize \in Nat
      BY <3>1, Order
    <3>3. size \in Nat /\ init \in Nat /\ init <= size
      BY <3>2
    <3> QED
      BY <2>1, <3>1, <3>2, <3>3 DEF NonResident, InOrder, Attr, Room
  <2>2. ASSUME NEW size \in 0 .. MaxResident, na = Resident(size)
        PROVE  InOrder(na) /\ NoneTwice(na.map)
    <3>1. size \in Nat /\ size <= MaxResident /\ MaxResident \in Int
      BY DEF AttrAssumption, MaxSize
    <3>2. <<>> \in Seq(Lcn \union {Hole})
      OBVIOUS
    <3> QED
      BY <2>2, <3>1, <3>2, UsedEmpty DEF Resident, InOrder, Attr, Room
  <2> QED
    BY <2>1, <2>2 DEF Init
<1>2. rec = na /\ disk = na /\ bmp = Used(na.map) /\ other = {} /\ pc = "idle" /\ call = NoCall
  BY DEF Init
<1>3. Mine
  BY <1>1, <1>2 DEF Mine
<1>4. na \in Attr /\ na.init <= na.size /\ na.alloc = Room(na)
  BY <1>1 DEF InOrder
<1>5. na.size <= na.alloc
  <2>1. CASE na.res
    BY <1>1, <2>1 DEF InOrder, Attr, Room
  <2>2. CASE ~na.res
    <3>1. PICK map \in Layouts :
             \E size \in (Len(map) - 1) * ClusterSize + 1 .. Len(map) * ClusterSize :
                \E init \in 0 .. size : na = NonResident(map, size, init)
      BY <2>2, SMTT(30) DEF Init, Resident
    <3>2. PICK size \in (Len(map) - 1) * ClusterSize + 1 .. Len(map) * ClusterSize :
             \E init \in 0 .. size : na = NonResident(map, size, init)
      BY <3>1
    <3>3. na.size = size /\ na.alloc = Len(map) * ClusterSize
      BY <3>2 DEF NonResident
    <3>4. size <= Len(map) * ClusterSize
      OBVIOUS
    <3> QED
      BY <3>3, <3>4
  <2> QED
    BY <2>1, <2>2
<1>6. Records
  BY <1>1, <1>2, <1>5 DEF Records, Writing
<1>7. OnDisk
  BY <1>2, <1>4, <1>5 DEF OnDisk
<1>8. Phases
  <2>1. Fields
    BY <1>2, NoCallIs DEF Fields, IsCall
  <2> QED
    BY <1>2, <2>1, NoCallIs DEF Phases, Sizing, Cutting, Writing
<1> QED
  BY <1>3, <1>6, <1>7, <1>8

(* The steps of a call that leave the attribute, its records and $Bitmap   *)
(* as they are.                                                            *)
Still == UNCHANGED <<bmp, other, na, rec, disk, freed>>

(* What such a step keeps.                                                 *)
LEMMA StillHolds ==
    ASSUME Mine, Records, OnDisk, Still
    PROVE  /\ Mine' /\ OnDisk' /\ InOrder(na)'
           /\ pc' = pc /\ call' = call => Records'
           /\ pc \notin Writing \union {"shr_size", "exp_undo"} /\ pc' # "shr_size" /\
              (pc' \in Writing => ~call'.remapped) => Records'
<1>1. Mine'
  BY DEF Mine, Still, Used, NoneTwice
<1>2. OnDisk'
  BY DEF OnDisk, Still, Room, Used
<1>3. InOrder(na)'
  BY DEF Records, Still
<1>4. na \in Attr /\ na' = na /\ rec' = rec /\ InOrder(na)
  BY DEF Records, Still, InOrder
<1>5. ASSUME pc' = pc, call' = call PROVE Records'
  BY <1>3, <1>4, <1>5 DEF Records, Used
<1>6. ASSUME pc \notin Writing \union {"shr_size", "exp_undo"}, pc' # "shr_size",
             pc' \in Writing => ~call'.remapped
      PROVE  Records'
  <2>1. rec = na /\ na.size <= na.alloc
    BY <1>6 DEF Records
  <2>2. rec = [na EXCEPT !.map = rec.map]
    BY <1>4, <2>1 DEF Attr
  <2> QED
    BY <1>3, <1>4, <1>6, <2>1, <2>2 DEF Records
<1> QED
  BY <1>1, <1>2, <1>3, <1>5, <1>6

(* The entry of ntfs_attr_truncate: by the form and the size.              *)
LEMMA ResizeStarts ==
    ASSUME Mine, Records, OnDisk, Phases, Still,
           pc \notin Writing \union {"shr_size", "exp_undo"},
           NEW new \in Nat, NEW c, Resize(new, c),
           c.pos \in Nat, c.count \in Nat, c.old \in Nat, c.old_init \in Nat, c.at \in Nat,
           c.left \in Int, c.op = "write" => new > na.size,
           c.op = "write" => /\ new = c.pos + c.count /\ c.old_init = na.init
                             /\ ~c.remapped /\ ~c.initialized,
           IsCall(c)
    PROVE  Mine' /\ Records' /\ OnDisk' /\ Phases'
<1>1. Mine' /\ OnDisk' /\ InOrder(na)'
  BY StillHolds
<1>2. pc' \in {"resize", "expand", "shrink"}
  BY DEF Resize
<1>3. Records'
  <2>1. rec = na
    BY DEF Records
  <2>2. pc # "shr_size"
    BY DEF Writing
  <2> QED
    BY <1>1, <1>2, <2>1, <2>2 DEF Records, Writing, Still
<1>4. /\ call'.op = c.op /\ call'.pos = c.pos /\ call'.count = c.count /\ call'.new = new
      /\ call'.old = c.old /\ call'.old_init = c.old_init /\ call'.at = c.at
      /\ call'.left = c.left /\ call'.old_alloc = na.alloc
      /\ call'.remapped = c.remapped /\ call'.initialized = c.initialized
  BY DEF Resize
<1>5. Fields'
  BY DEF Resize, Fields, IsCall
<1>6. na' = na /\ na.size \in Nat
  BY DEF Still, Records, InOrder, Attr
<1>7. Phases'
  <2>1. pc' = IF na.res THEN "resize" ELSE IF new > na.size THEN "expand" ELSE "shrink"
    BY DEF Resize
  <2>2. (call.pos + call.count)' = c.pos + c.count
    BY <1>4
  <2> QED
    BY <1>4, <1>5, <1>6, <2>1, <2>2 DEF Phases, Sizing, Cutting, Writing, End
<1> QED
  BY <1>1, <1>3, <1>7
-----------------------------------------------------------------------------
(* What a step may rely on and has to keep.                                *)
Good == Mine /\ Records /\ OnDisk /\ Phases

(* The shape of the open attribute and of the call.                        *)
LEMMA Shape ==
    ASSUME Good
    PROVE  /\ na \in Attr /\ InOrder(na) /\ Fields
           /\ na.res \in BOOLEAN /\ na.map \in Seq(Lcn \union {Hole}) /\ Len(na.map) \in Nat
           /\ na.alloc \in Nat /\ na.size \in Nat /\ na.init \in Nat /\ na.init <= na.size
           /\ pc \notin Writing \union {"exp_undo"} => rec = na
  BY DEF Good, Records, InOrder, Attr, Phases

(* A call begins.                                                          *)
LEMMA StartsHold ==
    ASSUME AttrAssumption, Good,
           \/ \E new \in 0 .. MaxSize : Truncate(new)
           \/ \E pos \in Position, val \in {Zero, calls + 1} :
                 \E count \in {n \in Counts : n <= MaxSize - pos} : Write(pos, count, val)
    PROVE  Good'
<1>1. MaxSize \in Nat /\ \A n \in Counts : n \in Nat \ {0}
  BY DEF AttrAssumption, MaxSize
<1>2. pc = "idle" /\ pc \notin Writing \union {"shr_size", "exp_undo"}
  BY DEF Truncate, Write, Enter, Writing
<1>3. Still
  BY DEF Truncate, Write, Still, volume
<1>4. ASSUME NEW new \in 0 .. MaxSize, Truncate(new) PROVE Good'
  <2> DEFINE c == [NoCall EXCEPT !.op = "truncate", !.before = Content(na)]
  <2>1. Resize(new, c) /\ new \in Nat
    BY <1>1, <1>4 DEF Truncate
  <2>2. /\ c.pos = 0 /\ c.count = 0 /\ c.old = 0 /\ c.old_init = 0 /\ c.at = 0 /\ c.left = 0
        /\ c.op = "truncate"
        /\ IsCall(c)
    <3> DEFINE b == Content(na)
    <3> HIDE DEF b
    <3>1. c = [NoCall EXCEPT !.op = "truncate", !.before = b]
      BY DEF b
    <3> HIDE DEF c
    <3> QED
      BY <3>1, NoCallIs DEF IsCall
  <2> HIDE DEF c
  <2> QED
    BY <1>2, <1>3, <2>1, <2>2, ResizeStarts DEF Good
<1>5. ASSUME NEW pos \in Position, NEW val \in {Zero, calls + 1},
             NEW count \in {n \in Counts : n <= MaxSize - pos}, Write(pos, count, val)
      PROVE  Good'
  <2> DEFINE d == [NoCall EXCEPT !.op = "write", !.pos = pos, !.count = count, !.val = val,
                                 !.old = na.size, !.old_init = na.init, !.before = Content(na)]
             c == [d EXCEPT !.extended = TRUE]
  <2>1. pos \in Nat /\ count \in Nat \ {0}
    BY <1>1 DEF Position
  <2>2. \A x \in {c, d} :
           /\ x.pos = pos /\ x.count = count /\ x.old = na.size /\ x.old_init = na.init
           /\ x.at = 0 /\ x.left = 0 /\ x.op = "write" /\ ~x.remapped /\ ~x.initialized
           /\ IsCall(x)
    <3> DEFINE b == Content(na)
               o == na.size
               i == na.init
    <3> HIDE DEF b, o, i
    <3>1. d = [NoCall EXCEPT !.op = "write", !.pos = pos, !.count = count, !.val = val,
                             !.old = o, !.old_init = i, !.before = b]
      BY DEF b, o, i
    <3> HIDE DEF d
    <3>2. /\ d.pos = pos /\ d.count = count /\ d.old = o /\ d.old_init = i
          /\ d.at = 0 /\ d.left = 0 /\ d.op = "write" /\ ~d.remapped /\ ~d.initialized
          /\ IsCall(d)
      BY <3>1, NoCallIs DEF IsCall
    <3>3. /\ c.pos = d.pos /\ c.count = d.count /\ c.old = d.old /\ c.old_init = d.old_init
          /\ c.at = d.at /\ c.left = d.left /\ c.op = d.op /\ c.remapped = d.remapped
          /\ c.initialized = d.initialized
      BY <3>2 DEF IsCall
    <3>4. IsCall(c)
      <4>1. c = [d EXCEPT !.extended = TRUE]
        OBVIOUS
      <4> HIDE DEF c
      <4> QED
        BY <3>2, <4>1 DEF IsCall
    <3> HIDE DEF c
    <3> QED
      BY <3>2, <3>3, <3>4 DEF o, i
  <2>3. CASE pos + count > na.size
    <3>1. Resize(pos + count, c)
      BY <1>5, <2>3 DEF Write
    <3>2. /\ c.pos = pos /\ c.count = count /\ c.old = na.size /\ c.old_init = na.init
          /\ c.at = 0 /\ c.left = 0 /\ c.op = "write" /\ ~c.remapped /\ ~c.initialized
          /\ IsCall(c)
      BY <2>2
    <3> HIDE DEF c
    <3>3. pos + count \in Nat /\ na.size \in Nat /\ na.init \in Nat
      BY <2>1, Shape
    <3>4. Mine /\ Records /\ OnDisk /\ Phases
      BY DEF Good
    <3> QED
      BY <1>2, <1>3, <2>1, <2>3, <3>1, <3>2, <3>3, <3>4, ResizeStarts DEF Good
  <2>4. CASE ~(pos + count > na.size)
    <3>1. pc' = "init" /\ call' = d
      BY <1>5, <2>4 DEF Write
    <3>2. d.new = 0
      BY NoCallIs DEF IsCall
    <3> HIDE DEF d
    <3>3. Mine' /\ OnDisk' /\ Records'
      BY <1>2, <1>3, <3>1, StillHolds DEF Good, Writing
    <3>4. Fields'
      BY <2>2, <3>1 DEF Fields, IsCall
    <3>5. na' = na
      BY <1>3 DEF Still
    <3>6. Phases'
      BY <2>1, <2>2, <2>4, <3>1, <3>2, <3>4, <3>5, Shape, SMTT(30)
         DEF Phases, Sizing, Cutting, Writing, End
    <3> QED
      BY <3>3, <3>6 DEF Good
  <2> QED
    BY <2>3, <2>4
<1> QED
  BY <1>4, <1>5

(* A call is over, another attribute takes a cluster, the record is        *)
(* written.                                                                *)
LEMMA BetweenCallsHolds ==
    ASSUME AttrAssumption, Good, Return \/ (\E c \in Lcn : OtherTakes(c)) \/ Sync
    PROVE  Good'
<1>1. CASE Return
  <2>1. Still /\ pc = "ret" /\ pc' = "idle" /\ call' = NoCall
    BY <1>1 DEF Return, Still, volume
  <2>2. Mine' /\ OnDisk' /\ Records'
    BY <2>1, StillHolds DEF Good, Writing
  <2>3. Fields'
    BY <2>1, NoCallIs DEF Fields, IsCall
  <2>4. Phases'
    BY <2>1, <2>3, NoCallIs DEF Phases, Sizing, Cutting, Writing
  <2> QED
    BY <2>2, <2>4 DEF Good
<1>2. ASSUME NEW c \in Lcn, OtherTakes(c)
      PROVE  Good'
  <2>1. /\ c \notin bmp /\ bmp' = bmp \union {c} /\ other' = other \union {c}
        /\ UNCHANGED <<disk, rec, na, pc, call, freed>>
    BY <1>2 DEF OtherTakes
  <2>2. Mine'
    BY <2>1 DEF Good, Mine, Used, NoneTwice
  <2>3. OnDisk'
    <3>1. Used(disk.map)' = Used(disk.map) /\ Room(disk)' = Room(disk)
      BY <2>1 DEF Used, Room
    <3>2. (bmp \ other)' = bmp \ other
      BY <2>1
    <3> QED
      BY <2>1, <3>1, <3>2 DEF Good, OnDisk
  <2>4. Records' /\ Phases'
    <3>1. InOrder(na)'
      BY <2>1, Shape
    <3>2. Records'
      BY <2>1, <3>1 DEF Good, Records, Used
    <3>3. Phases'
      BY <2>1 DEF Good, Phases, Fields, End
    <3> QED
      BY <3>2, <3>3
  <2> QED
    BY <2>2, <2>3, <2>4 DEF Good
<1>3. CASE Sync
  <2>1. /\ disk' = rec /\ freed' = {} /\ pc = "idle"
        /\ UNCHANGED <<bmp, other, rec, na, pc, call>>
    BY <1>3 DEF Sync, Store, volume
  <2>2. Mine'
    BY <2>1 DEF Good, Mine, Used, NoneTwice
  <2>3. OnDisk'
    <3>1. rec = na /\ disk' = na /\ na.size <= na.alloc
      BY <2>1 DEF Good, Records, Writing
    <3>2. Used(na.map) \subseteq bmp \ other
      BY DEF Good, Mine
    <3> QED
      BY <2>1, <3>1, <3>2, Shape DEF OnDisk, InOrder
  <2>4. Records' /\ Phases'
    <3>1. InOrder(na)'
      BY <2>1, Shape
    <3>2. Records'
      BY <2>1, <3>1 DEF Good, Records, Used
    <3>3. Phases'
      BY <2>1 DEF Good, Phases, Fields, End
    <3> QED
      BY <3>2, <3>3
  <2> QED
    BY <2>2, <2>3, <2>4 DEF Good
<1> QED
  BY <1>1, <1>2, <1>3
-----------------------------------------------------------------------------
(* A result is returned: nothing else of the call changes.                 *)
LEMMA EndsIs ==
    ASSUME Fields, NEW r, call' = [call EXCEPT !.ret = r]
    PROVE  /\ Fields'
           /\ call'.op = call.op /\ call'.pos = call.pos /\ call'.count = call.count
           /\ call'.new = call.new /\ call'.old = call.old
           /\ call'.old_alloc = call.old_alloc /\ call'.old_init = call.old_init
           /\ call'.at = call.at /\ call'.left = call.left
           /\ call'.remapped = call.remapped /\ call'.initialized = call.initialized
  BY DEF Fields, IsCall

(* What Resized leaves to be shown of the call, when the record is in step *)
(* with the attribute and the attribute has the size that was asked for.   *)
LEMMA ResizedKeepsPhases ==
    ASSUME Phases, NEW r, Resized(r),
           pc \in {"resize", "exp_size", "expand", "shrink", "shr_size"},
           r = 0 /\ call.op = "write" => /\ na'.size = call.new
                                         /\ ~na'.res => call.old_init = na'.init
    PROVE  Phases' /\ pc' \in {"ret", "init"}
<1>1. CASE call.op = "write" /\ r = 0
  <2>1. pc' = "init" /\ call' = call /\ na'.size = call.new
    BY <1>1 DEF Resized
  <2>2. pc \in Sizing /\ pc # "init"
    BY <1>1 DEF Phases, Sizing, Cutting
  <2>3. call.new = End /\ ~call.remapped /\ ~call.initialized /\ End' = End
    BY <1>1, <2>1, <2>2 DEF Phases, End
  <2>4. call.new \in Nat /\ End \in Nat
    BY DEF Phases, End
  <2> QED
    BY <1>1, <2>1, <2>3, <2>4 DEF Phases, Fields, Sizing, Cutting, Writing
<1>2. CASE ~(call.op = "write" /\ r = 0)
  <2>1. PICK x : pc' = "ret" /\ call' = [call EXCEPT !.ret = x]
    BY <1>2 DEF Resized, Ends
  <2>2. Fields
    BY DEF Phases
  <2> QED
    BY <2>1, <2>2, EndsIs DEF Phases, Sizing, Cutting, Writing
<1> QED
  BY <1>1, <1>2

(* ntfs_resident_attr_resize and ntfs_attr_make_non_resident.              *)
LEMMA ResizeResidentHolds ==
    ASSUME AttrAssumption, Good, scars' = {},
           \/ ResizeValue \/ ResizeFails \/ MakeNonResident \/ MakeNonResidentShort
           \/ MakeNonResidentFails
    PROVE  Good'
<1>1. /\ pc = "resize" /\ na.res /\ na.map = <<>> /\ rec = na /\ na.init = na.size
      /\ Used(na.map) = {} /\ na.size \in Nat
  <2>1. pc = "resize"
    BY DEF ResizeValue, ResizeFails, MakeNonResident, MakeNonResidentShort, MakeNonResidentFails
  <2>2. na.res /\ na.map = <<>> /\ na.init = na.size /\ rec = na /\ na.size \in Nat
    BY <2>1, Shape DEF Good, Phases, InOrder, Writing
  <2> QED
    BY <2>1, <2>2, UsedEmpty
<1>2. CASE ResizeValue
  <2>1. /\ na' = Resident(call.new) /\ rec' = na' /\ call.new <= MaxResident /\ Resized(0)
        /\ UNCHANGED <<bmp, other, disk, freed>>
    BY <1>2 DEF ResizeValue, volume
  <2>2. na'.map = <<>> /\ na'.res /\ na'.size = call.new
    BY <2>1 DEF Resident
  <2>3. Mine'
    BY <1>1, <2>1, <2>2, UsedEmpty DEF Good, Mine, Used, NoneTwice
  <2>4. Phases' /\ pc' \in {"ret", "init"}
    <3>1. pc = "resize" /\ na'.res /\ na'.size = call.new /\ Phases /\ Resized(0)
      BY <1>1, <2>1, <2>2 DEF Good
    <3> QED
      BY <3>1, ResizedKeepsPhases
  <2>5. InOrder(na') /\ na'.size <= na'.alloc
    <3>1. call.new \in Nat /\ <<>> \in Seq(Lcn \union {Hole})
      BY DEF Good, Phases
    <3>2. na'.alloc = call.new /\ na'.init = call.new /\ na' \in Attr
      BY <2>1, <3>1 DEF Resident, Attr
    <3> QED
      BY <2>1, <2>2, <3>1, <3>2 DEF InOrder, Room
  <2>6. Records'
    BY <2>1, <2>4, <2>5 DEF Records, Writing
  <2>7. OnDisk'
    BY <2>1 DEF Good, OnDisk, Used, Room
  <2> QED
    BY <2>3, <2>4, <2>6, <2>7 DEF Good
<1>3. CASE ResizeFails
  <2>1. Still /\ Resized(-1)
    BY <1>3 DEF ResizeFails, Still, volume
  <2>2. Phases' /\ pc' \in {"ret", "init"}
    <3>1. Phases /\ -1 # 0
      BY DEF Good
    <3> QED
      BY <1>1, <2>1, <3>1, ResizedKeepsPhases
  <2>3. pc' = "ret"
    BY <2>1 DEF Resized, Ends
  <2> QED
    BY <1>1, <2>1, <2>2, <2>3, StillHolds DEF Good, Writing
<1>4. ASSUME NEW s \in Granted(Clusters(na.size)), Convert(s),
             call'.op = call.op, call'.pos = call.pos, call'.count = call.count,
             call'.new = call.new, call'.old = call.old, call'.old_init = call.old_init,
             call'.at = call.at, call'.left = call.left, call'.remapped = call.remapped,
             call'.initialized = call.initialized, Fields', Longer
      PROVE  Good'
  <2>1. /\ bmp' = bmp \union Used(s) /\ na' = NonResident(s, na.size, na.size) /\ rec' = na'
        /\ pc' = "expand" /\ UNCHANGED <<other, disk, freed>>
    BY <1>4 DEF Convert
  <2>2. /\ Clusters(na.size) \in Nat /\ na.size <= Clusters(na.size) * ClusterSize
        /\ ClusterSize \in Nat \ {0}
    BY <1>1, ClustersIs DEF AttrAssumption
  <2>3. s \in Seq(Lcn \union {Hole}) /\ Len(s) = Clusters(na.size)
        /\ Used(s) \subseteq Lcn \ bmp /\ NoneTwice(s)
    BY <1>4, <2>2, GrantedIs
  <2>4. /\ na'.map = s /\ na'.size = na.size /\ na'.init = na.size /\ ~na'.res
        /\ na'.alloc = Len(s) * ClusterSize
        /\ na' = [res |-> FALSE, map |-> s, alloc |-> Len(s) * ClusterSize,
                  size |-> na.size, init |-> na.size]
    BY <2>1 DEF NonResident
  <2>5. Mine'
    <3>1. bmp = other /\ Used(na.map)' = Used(s) /\ NoneTwice(na.map)' /\ other' = other
      BY <1>1, <2>1, <2>3, <2>4 DEF Good, Mine, Used, NoneTwice
    <3> QED
      BY <2>1, <2>3, <3>1 DEF Mine
  <2>6. Len(s) * ClusterSize \in Nat
    BY <2>2, <2>3, Order
  <2>7. InOrder(na') /\ na'.size <= na'.alloc
    BY <1>1, <2>2, <2>3, <2>4, <2>6 DEF InOrder, Attr, Room
  <2>8. Records'
    BY <2>1, <2>7 DEF Records, Writing
  <2>9. OnDisk'
    <3>1. Used(disk.map)' = Used(disk.map) /\ Room(disk)' = Room(disk)
      BY <2>1 DEF Used, Room
    <3>2. bmp \ other \subseteq (bmp \ other)'
      BY <2>1
    <3> QED
      BY <2>1, <3>1, <3>2 DEF Good, OnDisk
  <2>10. Phases'
    <3>1. call.new > na.size
      BY <1>4 DEF Longer
    <3>2. Phases
      BY DEF Good
    <3> QED
      BY <1>1, <1>4, <2>1, <2>4, <3>1, <3>2 DEF Phases, Sizing, Cutting, Writing, End
  <2> QED
    BY <2>5, <2>8, <2>9, <2>10 DEF Good
<1>5. CASE MakeNonResident \/ MakeNonResidentShort
  <2>1. PICK s \in Granted(Clusters(na.size)) : Convert(s)
    BY <1>5 DEF MakeNonResident, MakeNonResidentShort
  <2>2. \E x : call' = [call EXCEPT !.old_alloc = na'.alloc, !.spoilt = x]
    <3>1. Fields
      BY Shape
    <3>2. CASE MakeNonResident
      <4>1. call' = [call EXCEPT !.old_alloc = na'.alloc, !.spoilt = call.spoilt]
        BY <3>1, <3>2 DEF MakeNonResident, Fields, IsCall
      <4> QED
        BY <4>1
    <3>3. CASE MakeNonResidentShort
      BY <3>3 DEF MakeNonResidentShort
    <3> QED
      BY <1>5, <3>2, <3>3
  <2>3. Longer
    BY <1>5 DEF MakeNonResident, MakeNonResidentShort
  <2>4. /\ call'.op = call.op /\ call'.pos = call.pos /\ call'.count = call.count
        /\ call'.new = call.new /\ call'.old = call.old /\ call'.old_init = call.old_init
        /\ call'.at = call.at /\ call'.left = call.left /\ call'.remapped = call.remapped
        /\ call'.initialized = call.initialized /\ Fields'
    BY <2>2, Shape DEF Fields, IsCall
  <2> QED
    BY <1>4, <2>1, <2>3, <2>4
<1>6. CASE MakeNonResidentFails
  <2>1. Resized(-1) /\ UNCHANGED <<other, disk, rec, na, freed>>
    BY <1>6 DEF MakeNonResidentFails
  <2>2. bmp' = bmp
    <3>1. PICK s \in Granted(Clusters(na.size)) : \E kept \in SUBSET Used(s) :
             /\ bmp' = bmp \union kept
             /\ scars' = IF kept = {} THEN scars ELSE scars \union {"half freed"}
      BY <1>6 DEF MakeNonResidentFails
    <3> QED
      BY <3>1
  <2>3. Still
    BY <2>1, <2>2 DEF Still
  <2>4. Phases' /\ pc' \in {"ret", "init"}
    <3>1. Phases /\ -1 # 0
      BY DEF Good
    <3> QED
      BY <1>1, <2>1, <3>1, ResizedKeepsPhases
  <2>5. pc' = "ret"
    BY <2>1 DEF Resized, Ends
  <2> QED
    BY <1>1, <2>3, <2>4, <2>5, StillHolds DEF Good, Writing
<1> QED
  BY <1>2, <1>3, <1>5, <1>6

(* The allocated size counts the clusters of the runlist.                  *)
LEMMA AllocatedIs ==
    ASSUME AttrAssumption, Good, ~na.res
    PROVE  /\ na.alloc = Len(na.map) * ClusterSize /\ na.alloc \div ClusterSize = Len(na.map)
           /\ ClusterSize \in Nat \ {0} /\ call.new \in Nat
           /\ Clusters(call.new) \in Nat /\ Clusters(call.new) * ClusterSize \in Nat
           /\ call.new <= Clusters(call.new) * ClusterSize
           /\ \A n \in Nat : call.new <= n * ClusterSize => Clusters(call.new) <= n
<1>1. na.alloc = Len(na.map) * ClusterSize /\ Len(na.map) \in Nat /\ ClusterSize \in Nat \ {0}
  BY Shape DEF InOrder, Room, AttrAssumption
<1>2. call.new \in Nat
  BY DEF Good, Phases
<1>3. Clusters(call.new) \in Nat
  BY <1>2, ClustersIs
<1>4. (Len(na.map) * ClusterSize) \div ClusterSize = Len(na.map)
  BY <1>1, DivisionOf
<1>5. Clusters(call.new) * ClusterSize \in Nat
  BY <1>1, <1>3, Order
<1>6. /\ call.new <= Clusters(call.new) * ClusterSize
      /\ \A n \in Nat : call.new <= n * ClusterSize => Clusters(call.new) <= n
  BY <1>2, ClustersIs
<1> QED
  BY <1>1, <1>2, <1>3, <1>4, <1>5, <1>6

(* What Expand adds to the runlist.                                        *)
LEMMA GrowIs ==
    ASSUME AttrAssumption, Good, pc = "expand", Missing > 0, NEW s \in Appended, Grow(s)
    PROVE  /\ Mine' /\ OnDisk' /\ InOrder(na') /\ ~na'.res
           /\ na'.size = na.size /\ na'.init = na.init
           /\ call.new <= na'.alloc /\ na'.size <= na'.alloc /\ scars' = scars
<1>1. ~na.res /\ call.new > na.size
  BY DEF Good, Phases, Sizing
<1>2. /\ na.alloc = Len(na.map) * ClusterSize /\ Missing = Clusters(call.new) - Len(na.map)
      /\ call.new \in Nat /\ Clusters(call.new) \in Nat
      /\ Clusters(call.new) * ClusterSize \in Nat
      /\ call.new <= Clusters(call.new) * ClusterSize
  BY <1>1, AllocatedIs DEF Missing
<1>3. Missing \in Nat
  BY <1>2, Shape
<1>4. /\ s \in Seq(Lcn \union {Hole}) /\ Len(s) = Missing
      /\ Used(s) \intersect bmp = {} /\ NoneTwice(s)
  <2>1. CASE sparse
    BY <1>3, <2>1, UsedHoles DEF Appended
  <2>2. CASE ~sparse
    <3>1. s \in Granted(Missing)
      BY <2>2 DEF Appended
    <3> QED
      BY <1>3, <3>1, GrantedIs
  <2> QED
    BY <2>1, <2>2
<1> DEFINE m == na.map \o s
<1>5. /\ bmp' = bmp \union Used(s)
      /\ na' = [na EXCEPT !.map = m, !.alloc = Clusters(call.new) * ClusterSize]
      /\ UNCHANGED <<other, disk, freed, scars>>
  BY DEF Grow
<1>6. /\ m \in Seq(Lcn \union {Hole}) /\ Len(m) = Clusters(call.new)
      /\ Used(m) = Used(na.map) \union Used(s) /\ NoneTwice(m)
  <2>1. Used(na.map) \intersect Used(s) = {} /\ NoneTwice(na.map)
    BY <1>4 DEF Good, Mine
  <2>2. na.map \in Seq(Lcn \union {Hole}) /\ Len(na.map) \in Nat
    BY Shape
  <2>3. /\ m \in Seq(Lcn \union {Hole}) /\ Len(m) = Len(na.map) + Len(s)
        /\ Used(m) = Used(na.map) \union Used(s) /\ NoneTwice(m)
    BY <1>4, <2>1, <2>2, UsedJoined
  <2>4. Len(na.map) + Len(s) = Clusters(call.new)
    BY <1>2, <1>4, <2>2
  <2> QED
    BY <2>3, <2>4
<1> HIDE DEF m
<1>7. /\ na'.map = m /\ na'.alloc = Clusters(call.new) * ClusterSize /\ na'.res = na.res
      /\ na'.size = na.size /\ na'.init = na.init /\ na' \in Attr
  BY <1>2, <1>5, <1>6, Shape DEF Attr
<1>8. Mine'
  <2>1. Used(na.map)' = Used(m) /\ NoneTwice(na.map)'
    BY <1>6, <1>7 DEF Used, NoneTwice
  <2>2. other \subseteq bmp
    BY DEF Good, Mine
  <2> QED
    BY <1>4, <1>5, <1>6, <2>1, <2>2 DEF Good, Mine
<1>9. OnDisk'
  <2>1. Used(disk.map)' = Used(disk.map) /\ Room(disk)' = Room(disk)
    BY <1>5 DEF Used, Room
  <2>2. bmp \ other \subseteq (bmp \ other)'
    BY <1>5
  <2> QED
    BY <1>5, <2>1, <2>2 DEF Good, OnDisk
<1>10. InOrder(na')
  BY <1>1, <1>6, <1>7, Shape DEF InOrder, Room
<1>11. call.new <= na'.alloc /\ na'.size <= na'.alloc
  BY <1>1, <1>2, <1>7, Shape
<1> QED
  BY <1>1, <1>5, <1>7, <1>8, <1>9, <1>10, <1>11

(* ntfs_non_resident_attr_expand.                                          *)
LEMMA ExpandHolds ==
    ASSUME AttrAssumption, Good, scars' = {},
           \/ ExpandWithin \/ Expand \/ ExpandFails \/ ExpandUpdateFails
           \/ ExpandSize \/ ExpandSizeFails \/ ExpandUndo
    PROVE  Good'
<1>1. CASE ExpandWithin
  <2>1. Still /\ pc = "expand" /\ Missing <= 0 /\ pc' = "exp_size" /\ call' = call
    BY <1>1 DEF ExpandWithin, Still, volume
  <2>2. Mine' /\ OnDisk' /\ Records'
    BY <2>1, StillHolds DEF Good, Writing
  <2>3. ~na.res
    BY <2>1 DEF Good, Phases
  <2>4. call.new <= na.alloc
    <3>1. Clusters(call.new) <= Len(na.map) /\ Clusters(call.new) \in Nat /\ Len(na.map) \in Nat
      BY <2>1, <2>3, AllocatedIs, Shape DEF Missing
    <3>2. Clusters(call.new) * ClusterSize <= Len(na.map) * ClusterSize
      BY <2>3, <3>1, AllocatedIs, Order
    <3>3. call.new \in Nat /\ Clusters(call.new) * ClusterSize \in Nat /\ na.alloc \in Nat
          /\ call.new <= Clusters(call.new) * ClusterSize /\ na.alloc = Len(na.map) * ClusterSize
      BY <2>3, AllocatedIs, Shape
    <3> QED
      BY <3>2, <3>3
  <2>5. Phases'
    <3>1. Phases /\ na' = na
      BY <2>1 DEF Good, Still
    <3> QED
      BY <2>1, <2>4, <3>1 DEF Phases, Fields, Sizing, Cutting, Writing, End
  <2> QED
    BY <2>2, <2>5 DEF Good
<1>2. CASE Expand \/ ExpandUpdateFails
  <2>1. pc = "expand" /\ Missing > 0 /\ call' = call
    BY <1>2 DEF Expand, ExpandUpdateFails
  <2>2. PICK s \in Appended : Grow(s)
    BY <1>2 DEF Expand, ExpandUpdateFails
  <2>3. /\ Mine' /\ OnDisk' /\ InOrder(na') /\ ~na'.res
        /\ na'.size = na.size /\ na'.init = na.init
        /\ call.new <= na'.alloc /\ na'.size <= na'.alloc
    BY <2>1, <2>2, GrowIs
  <2>4. pc' = "exp_undo" \/ (pc' = "exp_size" /\ rec' = na')
    <3>1. CASE ExpandUpdateFails
      BY <3>1 DEF ExpandUpdateFails
    <3>2. CASE Expand
      <4>1. rec = na
        BY <2>1 DEF Good, Records, Writing
      <4>2. rec' = [na EXCEPT !.map = na'.map, !.alloc = na'.alloc] /\ pc' = "exp_size"
        BY <3>2, <4>1 DEF Expand, Mapped
      <4>3. na' = [na EXCEPT !.map = na'.map, !.alloc = na'.alloc]
        BY <2>2, Shape DEF Grow, Attr
      <4> QED
        BY <4>2, <4>3
    <3> QED
      BY <1>2, <3>1, <3>2
  <2>5. Records'
    BY <2>3, <2>4 DEF Records, Writing
  <2>6. Phases'
    <3>1. Phases
      BY DEF Good
    <3> QED
      BY <2>1, <2>3, <2>4, <3>1 DEF Phases, Fields, Sizing, Cutting, Writing, End
  <2> QED
    BY <2>3, <2>5, <2>6 DEF Good
<1>3. CASE ExpandFails
  <2>1. Still /\ Resized(-1) /\ pc = "expand"
    BY <1>3 DEF ExpandFails, Still, volume
  <2>2. Phases' /\ pc' \in {"ret", "init"}
    <3>1. Phases /\ -1 # 0
      BY DEF Good
    <3> QED
      BY <2>1, <3>1, ResizedKeepsPhases
  <2>3. pc' = "ret"
    BY <2>1 DEF Resized, Ends
  <2> QED
    BY <2>1, <2>2, <2>3, StillHolds DEF Good, Writing
<1>4. CASE ExpandSize
  <2>1. /\ pc = "exp_size" /\ na' = [na EXCEPT !.size = call.new]
        /\ rec' = [rec EXCEPT !.size = call.new] /\ Resized(0)
        /\ UNCHANGED <<bmp, other, disk, freed>>
    BY <1>4 DEF ExpandSize, volume
  <2>2. rec = na /\ ~na.res /\ call.new > na.size /\ call.new <= na.alloc /\ call.new \in Nat
    BY <2>1 DEF Good, Records, Phases, Writing
  <2>3. /\ na'.map = na.map /\ na'.alloc = na.alloc /\ na'.res = na.res /\ na'.init = na.init
        /\ na'.size = call.new /\ na' \in Attr /\ rec' = na'
    BY <2>1, <2>2, Shape DEF Attr
  <2>4. Mine'
    BY <2>1, <2>3 DEF Good, Mine, Used, NoneTwice
  <2>5. OnDisk'
    BY <2>1 DEF Good, OnDisk, Used, Room
  <2>6. Phases' /\ pc' \in {"ret", "init"}
    <3>1. Phases
      BY DEF Good
    <3>2. call.op = "write" => call.old_init = na'.init
      BY <2>1, <2>2, <2>3, <3>1 DEF Phases, Sizing
    <3> QED
      BY <2>1, <2>3, <3>1, <3>2, ResizedKeepsPhases
  <2>7. InOrder(na') /\ na'.size <= na'.alloc
    <3>1. na'.alloc = Room(na')
      BY <2>2, <2>3, Shape DEF InOrder, Room
    <3> QED
      BY <2>2, <2>3, <3>1, Shape DEF InOrder
  <2>8. Records'
    BY <2>3, <2>6, <2>7 DEF Records, Writing
  <2> QED
    BY <2>4, <2>5, <2>6, <2>8 DEF Good
<1>5. CASE ExpandSizeFails
  <2>1. Still /\ pc = "exp_size"
    BY <1>5 DEF ExpandSizeFails, Still, volume
  <2>2. CASE pc' = "exp_undo" /\ call' = call
    <3>1. Mine' /\ OnDisk' /\ Records'
      BY <2>1, <2>2, StillHolds DEF Good, Writing
    <3>2. Phases /\ na' = na
      BY <2>1 DEF Good, Still
    <3>3. Phases'
      BY <2>1, <2>2, <3>2 DEF Phases, Fields, Sizing, Cutting, Writing, End
    <3> QED
      BY <3>1, <3>3 DEF Good
  <2>3. CASE Resized(-1)
    <3>1. Phases /\ -1 # 0
      BY DEF Good
    <3>2. Phases' /\ pc' \in {"ret", "init"}
      BY <2>1, <2>3, <3>1, ResizedKeepsPhases
    <3>3. pc' = "ret"
      BY <2>3 DEF Resized, Ends
    <3> QED
      BY <2>1, <3>2, <3>3, StillHolds DEF Good, Writing
  <2> QED
    BY <1>5, <2>2, <2>3 DEF ExpandSizeFails
<1>6. CASE ExpandUndo
  BY <1>6 DEF ExpandUndo
<1> QED
  BY <1>1, <1>2, <1>3, <1>4, <1>5, <1>6

(* ntfs_non_resident_attr_shrink and ntfs_attr_make_resident.              *)
LEMMA ShrinkHolds ==
    ASSUME AttrAssumption, Good, scars' = {},
           \/ ShrinkWithin \/ Shrink \/ ShrinkFails \/ ShrinkUpdateFails
           \/ ShrinkSize \/ ShrinkSizeFails \/ MakeResident
    PROVE  Good'
<1> DEFINE k == Clusters(call.new)
<1>1. ~na.res /\ rec = na /\ call.op # "write" /\ pc \in Cutting
  <2>1. pc \in Cutting
    BY DEF ShrinkWithin, Shrink, ShrinkFails, ShrinkUpdateFails, ShrinkSize, ShrinkSizeFails,
           MakeResident, Cutting
  <2> QED
    BY <2>1 DEF Good, Records, Phases, Cutting, Writing
<1>2. /\ na.alloc = Len(na.map) * ClusterSize /\ na.alloc \div ClusterSize = Len(na.map)
      /\ ClusterSize \in Nat \ {0} /\ call.new \in Nat /\ k \in Nat /\ k * ClusterSize \in Nat
      /\ call.new <= k * ClusterSize
  BY <1>1, AllocatedIs
<1> HIDE DEF k
<1>3. Phases
  BY DEF Good
<1>4. ASSUME pc = "shrink"
      PROVE  call.new <= na.size /\ call.old_alloc = na.alloc /\ na.size <= na.alloc
             /\ k \in 0 .. Len(na.map)
  <2>1. call.new <= na.size /\ call.old_alloc = na.alloc /\ na.size <= na.alloc
    BY <1>4 DEF Good, Phases, Records
  <2>2. call.new <= Len(na.map) * ClusterSize
    BY <1>2, <2>1, Shape
  <2>3. k <= Len(na.map)
    BY <1>1, <2>2, AllocatedIs, Shape DEF k
  <2> QED
    BY <1>2, <2>1, <2>3, Shape
<1>5. CASE ShrinkWithin
  <2>1. Still /\ pc = "shrink" /\ pc' = "shr_size" /\ call' = call /\ na.alloc \div ClusterSize = k
    BY <1>5 DEF ShrinkWithin, Shrinks, Still, volume, Kept, k
  <2>2. Mine' /\ OnDisk' /\ InOrder(na)'
    BY <2>1, StillHolds DEF Good
  <2>3. Records'
    BY <1>1, <1>4, <2>1, <2>2 DEF Records, Still, Writing
  <2>4. Phases'
    <3>1. Len(na.map) = Clusters(call.new)
      BY <1>2, <2>1 DEF k
    <3>2. na' = na
      BY <2>1 DEF Still
    <3> QED
      BY <1>1, <1>3, <2>1, <3>1, <3>2 DEF Phases, Fields, Sizing, Cutting, Writing, End
  <2> QED
    BY <2>2, <2>3, <2>4 DEF Good
<1>6. CASE Shrink
  <2> DEFINE m == SubSeq(na.map, 1, k)
  <2>1. /\ pc = "shrink" /\ pc' = "shr_size" /\ call' = call /\ na.alloc \div ClusterSize # k
        /\ na' = [na EXCEPT !.map = m, !.alloc = k * ClusterSize]
        /\ rec' = [rec EXCEPT !.map = m, !.alloc = k * ClusterSize]
        /\ bmp' = bmp \ (Used(na.map) \ Used(m))
        /\ freed' = freed \union (Used(na.map) \ Used(m))
        /\ UNCHANGED <<other, disk>>
    <3>1. Cut = [na EXCEPT !.map = m, !.alloc = k * ClusterSize]
      BY DEF Cut, Kept, k
    <3>2. Cut.map = m /\ Cut.alloc = k * ClusterSize
      BY <3>1, Shape DEF Attr
    <3> QED
      BY <1>6, <3>1, <3>2 DEF Shrink, Shrinks, Kept, CutOff, Mapped, k
  <2>2. m \in Seq(Lcn \union {Hole}) /\ Len(m) = k /\ Used(m) \subseteq Used(na.map)
        /\ (NoneTwice(na.map) => NoneTwice(m))
    <3>1. k \in 0 .. Len(na.map) /\ na.map \in Seq(Lcn \union {Hole}) /\ 1 \in Nat \ {0}
      BY <1>4, <2>1, Shape
    <3> QED
      BY <3>1, UsedCut
  <2> HIDE DEF m
  <2>3. /\ na'.map = m /\ na'.alloc = k * ClusterSize /\ na'.res = na.res
        /\ na'.size = na.size /\ na'.init = na.init /\ na' \in Attr /\ rec' = na'
    BY <1>1, <1>2, <2>1, <2>2, Shape DEF Attr
  <2>4. Mine'
    <3>1. Used(na.map)' = Used(m) /\ NoneTwice(na.map)'
      BY <2>2, <2>3 DEF Good, Mine, Used, NoneTwice
    <3> QED
      BY <2>1, <2>2, <3>1 DEF Good, Mine
  <2>5. OnDisk'
    <3>1. Used(disk.map)' = Used(disk.map) /\ Room(disk)' = Room(disk)
      BY <2>1 DEF Used, Room
    <3>2. (bmp \ other) \union freed \subseteq ((bmp \ other) \union freed)'
      BY <2>1
    <3> QED
      BY <2>1, <3>1, <3>2 DEF Good, OnDisk
  <2>6. InOrder(na')
    BY <1>1, <2>2, <2>3, Shape DEF InOrder, Room
  <2>7. na'.alloc # call'.old_alloc
    <3>1. k # Len(na.map) /\ k <= Len(na.map)
      BY <1>2, <1>4, <2>1, Shape
    <3>2. ~(Len(na.map) * ClusterSize <= k * ClusterSize)
      <4>1. ~(Len(na.map) <= k)
        BY <1>2, <3>1, Shape
      <4> QED
        BY <1>2, <4>1, Order, Shape, SMTT(30)
    <3> QED
      BY <1>2, <1>4, <2>1, <2>3, <3>2, Shape
  <2>8. Records'
    BY <2>1, <2>3, <2>6, <2>7 DEF Records, Writing
  <2>9. Phases'
    <3>1. Len(na'.map) = Clusters(call'.new)
      BY <2>1, <2>2, <2>3 DEF k
    <3> QED
      BY <1>1, <1>3, <2>1, <2>3, <3>1 DEF Phases, Fields, Sizing, Cutting, Writing, End
  <2> QED
    BY <2>4, <2>5, <2>8, <2>9 DEF Good
<1>7. CASE ShrinkFails
  <2>1. Resized(-1) /\ pc = "shrink" /\ UNCHANGED <<other, disk, rec, na>>
    BY <1>7 DEF ShrinkFails
  <2>2. bmp' = bmp /\ freed' = freed
    BY <1>7 DEF ShrinkFails
  <2>3. Still
    BY <2>1, <2>2 DEF Still
  <2>4. Phases' /\ pc' = "ret"
    <3>1. -1 # 0
      OBVIOUS
    <3> QED
      BY <1>3, <2>1, <3>1, ResizedKeepsPhases DEF Resized, Ends
  <2> QED
    BY <2>1, <2>3, <2>4, StillHolds DEF Good, Writing
<1>8. CASE ShrinkUpdateFails
  BY <1>8 DEF ShrinkUpdateFails
<1>9. ASSUME pc = "shr_size"
      PROVE  Len(na.map) = k /\ na.alloc = k * ClusterSize
  BY <1>2, <1>9 DEF Good, Phases, k
<1>10. CASE ShrinkSize
  <2>1. /\ pc = "shr_size" /\ Resized(0)
        /\ na' = [na EXCEPT !.size = call.new, !.init = Lesser(na.init, call.new)]
        /\ rec' = [rec EXCEPT !.size = call.new,
                              !.init = IF call.new < na.init THEN call.new ELSE rec.init]
        /\ UNCHANGED <<bmp, other, disk, freed>>
    BY <1>10 DEF ShrinkSize, volume
  <2>2. Lesser(na.init, call.new) \in Nat /\ Lesser(na.init, call.new) <= call.new
        /\ Lesser(na.init, call.new) = IF call.new < na.init THEN call.new ELSE na.init
    BY <1>2, Shape DEF Lesser
  <2>3. /\ na'.map = na.map /\ na'.alloc = na.alloc /\ na'.res = na.res
        /\ na'.init <= call.new
        /\ na'.size = call.new /\ na' \in Attr /\ rec' = na'
    <3> HIDE DEF k
    <3> QED
      BY <1>1, <1>2, <2>1, <2>2, Shape DEF Attr
  <2>4. Mine'
    BY <2>1, <2>3 DEF Good, Mine, Used, NoneTwice
  <2>5. OnDisk'
    BY <2>1 DEF Good, OnDisk, Used, Room
  <2>6. Phases' /\ pc' \in {"ret", "init"}
    BY <1>1, <1>3, <2>1, <2>3, ResizedKeepsPhases
  <2>7. InOrder(na') /\ na'.size <= na'.alloc
    <3>1. na'.alloc = Room(na')
      BY <1>1, <2>3, Shape DEF InOrder, Room
    <3> QED
      BY <1>1, <1>2, <1>9, <2>1, <2>3, <3>1, Shape DEF InOrder
  <2>8. Records'
    BY <2>3, <2>6, <2>7 DEF Records, Writing
  <2> QED
    BY <2>4, <2>5, <2>6, <2>8 DEF Good
<1>11. CASE ShrinkSizeFails
  <2>1. Resized(-1) /\ pc = "shr_size" /\ Still
    BY <1>11 DEF ShrinkSizeFails, Still, volume
  <2>2. na.alloc = call.old_alloc
    BY <1>11 DEF ShrinkSizeFails
  <2>3. Phases' /\ pc' = "ret"
    <3>1. -1 # 0
      OBVIOUS
    <3> QED
      BY <1>3, <2>1, <3>1, ResizedKeepsPhases DEF Resized, Ends
  <2>4. Mine' /\ OnDisk' /\ InOrder(na)'
    BY <2>1, StillHolds DEF Good
  <2>5. na.size <= na.alloc
    BY <2>1, <2>2 DEF Good, Records
  <2>6. Records'
    BY <1>1, <2>1, <2>3, <2>4, <2>5 DEF Records, Still, Writing
  <2> QED
    BY <2>3, <2>4, <2>6 DEF Good
<1>12. CASE MakeResident
  <2>1. /\ pc = "shr_size" /\ Resized(0) /\ na' = Resident(0) /\ rec' = na' /\ call.new = 0
        /\ UNCHANGED <<bmp, other, disk, freed>>
    BY <1>12 DEF MakeResident, volume
  <2>2. na'.map = <<>> /\ na'.res /\ na'.size = 0 /\ na'.alloc = 0 /\ na'.init = 0
    BY <2>1 DEF Resident
  <2>3. Len(na.map) = 0
    <3>1. 0 <= 0 * ClusterSize
      BY <1>2
    <3>2. Clusters(0) \in Nat /\ Clusters(0) <= 0
      BY <3>1, ClustersIs
    <3> QED
      BY <1>9, <2>1, <3>2 DEF k
  <2>4. Mine'
    <3>1. Used(na.map) = {}
      BY <2>3, Shape DEF Used
    <3>2. Used(na.map)' = {} /\ NoneTwice(na.map)'
      BY <2>2, UsedEmpty DEF Used, NoneTwice
    <3> QED
      BY <2>1, <3>1, <3>2 DEF Good, Mine
  <2>5. OnDisk'
    BY <2>1 DEF Good, OnDisk, Used, Room
  <2>6. Phases' /\ pc' \in {"ret", "init"}
    BY <1>1, <1>3, <2>1, <2>2, ResizedKeepsPhases
  <2>7. InOrder(na') /\ na'.size <= na'.alloc
    <3>1. <<>> \in Seq(Lcn \union {Hole}) /\ 0 <= MaxResident
      BY DEF AttrAssumption, MaxSize
    <3> QED
      BY <2>1, <2>2, <3>1 DEF InOrder, Attr, Room, Resident
  <2>8. Records'
    BY <2>1, <2>6, <2>7 DEF Records, Writing
  <2> QED
    BY <2>4, <2>5, <2>6, <2>8 DEF Good
<1> QED
  BY <1>5, <1>6, <1>7, <1>8, <1>10, <1>11, <1>12
-----------------------------------------------------------------------------
(* The initialized size of a write.                                        *)
LEMMA WriteStartsHold ==
    ASSUME AttrAssumption, Good, scars' = {},
           \/ WriteValue \/ WriteValueFails \/ InitNotNeeded \/ Initialize
           \/ InitializeShort \/ InitializeFails \/ InitializeWriteFails
    PROVE  Good'
<1>1. /\ pc = "init" /\ rec = na /\ na.size <= na.alloc /\ call.op = "write" /\ End <= na.size
      /\ ~call.remapped /\ ~call.initialized /\ (~na.res => call.old_init = na.init)
      /\ Phases
  <2>1. pc = "init"
    BY DEF WriteValue, WriteValueFails, InitNotNeeded, Initialize, InitializeShort, RaiseInit,
           InitializeFails, InitializeWriteFails
  <2> QED
    BY <2>1 DEF Good, Records, Phases, Sizing, Writing
<1>2. call.pos \in Nat /\ call.count \in Nat /\ End \in Nat
  BY <1>1 DEF Phases, End
(* Where the attribute, the record and $Bitmap stay.                       *)
<1>3. ASSUME UNCHANGED <<bmp, other, na, rec>>, pc' \in {"ret", "data", "err"},
             UNCHANGED <<disk, freed>> \/ (disk' = rec /\ freed' = {}),
             ~call'.remapped, ~call'.initialized, pc' = "data" => ~na.res, Fields',
             call'.pos \in Nat, call'.count \in Nat, call'.new \in Nat, call'.old \in Nat,
             call'.old_init \in Nat, call'.at \in Nat, call'.left \in Int
      PROVE  Good'
  <2>1. Mine'
    BY <1>3 DEF Good, Mine, Used, NoneTwice
  <2>2. OnDisk'
    <3>1. CASE UNCHANGED <<disk, freed>>
      BY <1>3, <3>1 DEF Good, OnDisk, Used, Room
    <3>2. CASE disk' = rec /\ freed' = {}
      <4>1. Used(na.map) \subseteq bmp \ other
        BY DEF Good, Mine
      <4> QED
        BY <1>1, <1>3, <3>2, <4>1, Shape DEF OnDisk, InOrder
    <3> QED
      BY <1>3, <3>1, <3>2
  <2>3. InOrder(na')
    BY <1>3, Shape
  <2>4. rec' = [na' EXCEPT !.map = rec'.map]
    BY <1>1, <1>3, Shape DEF Attr
  <2>5. Records'
    BY <1>1, <1>3, <2>3, <2>4 DEF Records, Writing
  <2>6. Phases'
    BY <1>3 DEF Phases, Sizing, Cutting, Writing
  <2> QED
    BY <2>1, <2>2, <2>5, <2>6 DEF Good
<1>4. /\ call.new \in Nat /\ call.old \in Nat /\ call.old_init \in Nat /\ call.at \in Nat
      /\ call.left \in Int /\ Fields
  BY <1>1 DEF Phases
<1>5. CASE WriteValue
  <2>1. /\ UNCHANGED <<bmp, other, na, rec>> /\ disk' = rec /\ freed' = {} /\ pc' = "ret"
        /\ call' = [call EXCEPT !.ret = call.count]
    BY <1>5 DEF WriteValue, Store, Ends, volume
  <2> QED
    BY <1>1, <1>2, <1>3, <1>4, <2>1, EndsIs
<1>6. CASE WriteValueFails \/ InitializeFails \/ InitializeWriteFails
  <2>1. /\ UNCHANGED <<bmp, other, na, rec>> /\ pc' = "err" /\ call' = call
        /\ UNCHANGED <<disk, freed>> \/ (disk' = rec /\ freed' = {})
    BY <1>6 DEF WriteValueFails, InitializeFails, InitializeWriteFails, Store, volume
  <2>2. Fields'
    BY <1>4, <2>1 DEF Fields, IsCall
  <2> QED
    BY <1>1, <1>2, <1>3, <1>4, <2>1, <2>2
<1>7. \A c \in {StartOfData, [StartOfData EXCEPT !.initialized = TRUE]} :
         /\ c.pos = call.pos /\ c.count = call.count /\ c.new = call.new /\ c.old = call.old
         /\ c.old_init = call.old_init /\ c.at = call.pos /\ c.left = call.count
         /\ c.remapped = call.remapped /\ c.op = call.op
         /\ call' = c => Fields'
  BY <1>4, ZenonT(60) DEF StartOfData, Fields, IsCall
<1>8. CASE InitNotNeeded
  <2>1. /\ UNCHANGED <<bmp, other, na, rec, disk, freed>> /\ pc' = "data" /\ ~na.res
        /\ call' = StartOfData
    BY <1>8 DEF InitNotNeeded, volume
  <2>2. ~call'.initialized
    BY <1>1, <1>4, <2>1 DEF StartOfData, Fields, IsCall
  <2>3. /\ call'.pos = call.pos /\ call'.count = call.count /\ call'.new = call.new
        /\ call'.old = call.old /\ call'.old_init = call.old_init /\ call'.at = call.pos
        /\ call'.left = call.count /\ call'.remapped = call.remapped /\ Fields'
    BY <1>7, <2>1
  <2> QED
    BY <1>1, <1>2, <1>3, <1>4, <2>1, <2>2, <2>3
<1>9. CASE Initialize \/ InitializeShort
  <2>1. /\ End > na.init /\ na' = [na EXCEPT !.init = End] /\ rec' = [rec EXCEPT !.init = End]
        /\ disk' = rec' /\ freed' = {} /\ pc' = "data"
        /\ UNCHANGED <<bmp, other>>
    BY <1>9 DEF Initialize, InitializeShort, RaiseInit, Store
  <2>10. /\ call'.pos = call.pos /\ call'.count = call.count /\ call'.new = call.new
         /\ call'.old = call.old /\ call'.old_init = call.old_init /\ call'.at = call.pos
         /\ call'.left = call.count /\ call'.remapped = call.remapped /\ Fields'
    <3>1. CASE Initialize
      BY <1>7, <3>1 DEF Initialize
    <3>2. CASE InitializeShort
      <4>1. \E x : call' = [StartOfData EXCEPT !.initialized = TRUE, !.spoilt = x]
        BY <3>2 DEF InitializeShort
      <4> QED
        BY <1>4, <4>1, ZenonT(60) DEF StartOfData, Fields, IsCall
    <3> QED
      BY <1>9, <3>1, <3>2
  <2>2. ~na.res
    BY <1>1, <1>2, <2>1, Shape DEF InOrder
  <2>3. /\ na'.map = na.map /\ na'.alloc = na.alloc /\ na'.res = na.res /\ na'.size = na.size
        /\ na'.init = End /\ na' \in Attr /\ rec' = na'
    BY <1>1, <1>2, <2>1, Shape DEF Attr
  <2>4. Mine'
    BY <2>1, <2>3 DEF Good, Mine, Used, NoneTwice
  <2>5. InOrder(na')
    <3>1. na'.alloc = Room(na')
      BY <2>3, Shape DEF InOrder, Room
    <3> QED
      BY <1>1, <2>2, <2>3, <3>1 DEF InOrder
  <2>6. OnDisk'
    <3>1. Used(na'.map) \subseteq bmp' \ other'
      BY <2>1, <2>3 DEF Good, Mine
    <3>2. disk' = na' /\ na'.size <= na'.alloc
      BY <1>1, <2>1, <2>3
    <3>3. disk' \in Attr /\ disk'.init <= disk'.size /\ disk'.alloc = Room(disk')
      BY <2>3, <2>5, <3>2 DEF InOrder
    <3> QED
      BY <3>1, <3>2, <3>3 DEF OnDisk
  <2>7. ~call'.remapped /\ Fields' /\ rec' = [na' EXCEPT !.map = rec'.map]
    BY <1>1, <2>1, <2>3, <2>10 DEF Attr
  <2>8. Records'
    BY <1>1, <2>1, <2>3, <2>5, <2>7 DEF Records, Writing
  <2>9. Phases'
    <3>1. call'.old_init <= na'.size /\ ~na'.res
      BY <1>1, <2>1, <2>2, <2>3, <2>10, Shape
    <3>2. /\ call'.pos = call.pos /\ call'.count = call.count /\ call'.new = call.new
          /\ call'.old = call.old /\ call'.old_init = call.old_init /\ call'.at = call.pos
          /\ call'.left = call.count
      BY <2>10
    <3>3. pc' = "data" /\ Fields' /\ ~call'.remapped
      BY <2>1, <2>7
    <3> QED
      BY <1>2, <1>4, <3>1, <3>2, <3>3 DEF Phases, Sizing, Cutting, Writing
  <2> QED
    BY <2>4, <2>6, <2>8, <2>9 DEF Good
<1> QED
  BY <1>5, <1>6, <1>8, <1>9

(* The loop of a write, where it leaves the attribute as it is.            *)
LEMMA LoopHolds ==
    ASSUME AttrAssumption, Good,
           \/ LoopEnds \/ PastRunlist \/ SkipHole \/ WriteRun \/ WriteRunFails
           \/ WriteRunShort \/ FillHoleFails
    PROVE  Good'
<1>1. /\ Still /\ pc = "data" /\ pc' \in {"data", "done", "err"}
  BY DEF LoopEnds, PastRunlist, SkipHole, WriteRun, WriteRunFails, WriteRunShort,
         FillHoleFails, Looping, RlErr, Still, volume
<1>2. Phases /\ call.left \in Int /\ call.at \in Nat /\ Fields
  BY DEF Good, Phases
<1>3. \/ call' = call
      \/ \E n \in Int : \E x : /\ InRunlist /\ call.left > 0
                               /\ call' = [Advanced(n) EXCEPT !.spoilt = x]
  <2>1. CASE LoopEnds \/ PastRunlist \/ WriteRunFails \/ FillHoleFails
    BY <2>1 DEF LoopEnds, PastRunlist, WriteRunFails, FillHoleFails
  <2>2. CASE SkipHole \/ WriteRun
    <3>1. call' = Advanced(ToWrite) /\ InRunlist /\ call.left > 0
      BY <2>2 DEF SkipHole, WriteRun, Looping, HoleAt, DataAt
    <3>2. Advanced(ToWrite) = [Advanced(ToWrite) EXCEPT !.spoilt = call.spoilt]
      BY <1>2 DEF Advanced, Fields, IsCall
    <3>3. ToWrite \in Int
      BY <1>2, <3>1, RunIs, Shape
    <3> QED
      BY <3>1, <3>2, <3>3
  <2>3. CASE WriteRunShort
    <3>1. InRunlist /\ call.left > 0
      BY <2>3 DEF WriteRunShort, Looping, DataAt
    <3>2. PICK n \in 1 .. ToWrite - 1 :
             call' = [Advanced(n) EXCEPT
                        !.spoilt = @ \union (call.at + n .. NextRun + call.left - n - 1)]
      BY <2>3 DEF WriteRunShort
    <3>3. n \in Int
      OBVIOUS
    <3> QED
      BY <3>1, <3>2, <3>3
  <2> QED
    BY <2>1, <2>2, <2>3
<1>4. /\ call'.pos = call.pos /\ call'.count = call.count /\ call'.new = call.new
      /\ call'.old = call.old /\ call'.old_init = call.old_init
      /\ call'.remapped = call.remapped /\ call'.initialized = call.initialized
      /\ call'.at \in Nat /\ call'.left \in Int /\ Fields'
  <2>1. CASE call' = call
    BY <1>2, <2>1 DEF Fields, IsCall
  <2>2. ASSUME NEW n \in Int, NEW x, InRunlist, call.left > 0,
               call' = [Advanced(n) EXCEPT !.spoilt = x]
        PROVE  /\ call'.pos = call.pos /\ call'.count = call.count /\ call'.new = call.new
               /\ call'.old = call.old /\ call'.old_init = call.old_init
               /\ call'.remapped = call.remapped /\ call'.initialized = call.initialized
               /\ call'.at \in Nat /\ call'.left \in Int /\ Fields'
    <3>1. NextRun \in Nat
      BY <1>2, <2>2, RunIs, Shape, SMTT(30)
    <3>2. call' = [[call EXCEPT !.total = call.total + n, !.left = call.left - n, !.at = NextRun]
                     EXCEPT !.spoilt = x]
      BY <2>2 DEF Advanced
    <3>3. call.left - n \in Int
      BY <1>2
    <3> DEFINE t == call.total + n
               l == call.left - n
    <3>4. call' = [[call EXCEPT !.total = t, !.left = l, !.at = NextRun] EXCEPT !.spoilt = x]
          /\ l \in Int
      BY <3>2, <3>3
    <3> HIDE DEF t, l
    <3>5. call'.at = NextRun /\ call'.left = l
      BY <1>2, <3>4 DEF Fields, IsCall
    <3> QED
      BY <1>2, <3>1, <3>4, <3>5 DEF Fields, IsCall
  <2> QED
    BY <1>3, <2>1, <2>2
<1>5. Mine' /\ OnDisk' /\ InOrder(na)'
  BY <1>1, StillHolds DEF Good
<1>6. Records'
  <2>1. /\ rec = [na EXCEPT !.map = rec.map] /\ na.size <= na.alloc
        /\ call.remapped => /\ rec.map \in Seq(Lcn \union {Hole})
                            /\ Len(rec.map) = Len(na.map)
                            /\ Used(rec.map) \subseteq Used(na.map)
        /\ ~call.remapped => rec.map = na.map
    BY <1>1 DEF Good, Records, Writing
  <2>2. na' = na /\ rec' = rec
    BY <1>1 DEF Still
  <2> QED
    BY <1>1, <1>4, <1>5, <2>1, <2>2 DEF Records, Writing
<1>7. Phases'
  BY <1>1, <1>2, <1>4 DEF Phases, Still, Sizing, Cutting, Writing
<1> QED
  BY <1>5, <1>6, <1>7 DEF Good

(* The loop of a write, where it fills a hole.                             *)
LEMMA FillHolds ==
    ASSUME AttrAssumption, Good, FillHole \/ FillHoleZeroFails \/ FillHoleZeroShort
    PROVE  Good'
<1>1. /\ pc = "data" /\ pc' \in {"data", "err"} /\ HoleAt /\ call.left > 0
      /\ \E x : call' = [call EXCEPT !.remapped = TRUE, !.spoilt = x]
  <2>1. CASE FillHole
    BY <2>1 DEF FillHole, Looping
  <2>2. CASE FillHoleZeroFails
    BY <2>2 DEF FillHoleZeroFails, Looping
  <2>3. CASE FillHoleZeroShort
    BY <2>3 DEF FillHoleZeroShort, Looping
  <2> QED
    BY <2>1, <2>2, <2>3
<1>2. Phases /\ Fields /\ call.at \in Nat /\ call.left \in Nat \ {0} /\ ~na.res
  <2>1. Phases
    BY DEF Good
  <2> QED
    BY <1>1, <2>1 DEF Phases
<1>3. /\ call'.pos = call.pos /\ call'.count = call.count /\ call'.new = call.new
      /\ call'.old = call.old /\ call'.old_init = call.old_init
      /\ call'.remapped /\ call'.initialized = call.initialized
      /\ call'.at = call.at /\ call'.left = call.left /\ Fields'
  BY <1>1, <1>2 DEF Fields, IsCall
<1>4. PICK s \in Granted(LastVcn - Vcn + 1) : Instantiate(s)
  BY DEF FillHole, FillHoleZeroFails, FillHoleZeroShort
<1>5. NoneTwice(na.map) /\ Used(na.map) \subseteq bmp
  BY DEF Good, Mine
<1>6. /\ Filled(s) = [na EXCEPT !.map = Filled(s).map]
      /\ Filled(s).map \in Seq(Lcn \union {Hole}) /\ Len(Filled(s).map) = Len(na.map)
      /\ Used(Filled(s).map) = Used(na.map) \union Used(s) /\ NoneTwice(Filled(s).map)
  BY <1>1, <1>2, <1>5, Shape, FilledIs
<1>7. Used(s) \intersect bmp = {}
  <2>1. LastVcn - Vcn + 1 \in Nat
    <3>1. Vcn \in Nat /\ LastVcn \in Nat /\ Vcn <= LastVcn
      BY <1>1, <1>2, Shape, HoleIs
    <3> QED
      BY <3>1
  <2> DEFINE n == LastVcn - Vcn + 1
  <2>2. n \in Nat /\ s \in Granted(n)
    BY <2>1
  <2> HIDE DEF n
  <2> QED
    BY <2>2, GrantedIs
<1>8. na' = Filled(s) /\ bmp' = bmp \union Used(s) /\ UNCHANGED <<other, disk, rec, freed>>
  BY <1>4 DEF Instantiate
<1>9. /\ na' = [na EXCEPT !.map = na'.map] /\ na'.map = Filled(s).map
      /\ na'.res = na.res /\ na'.alloc = na.alloc /\ na'.size = na.size /\ na'.init = na.init
      /\ na' \in Attr
  BY <1>6, <1>8, Shape DEF Attr
<1>10. Mine'
  <2>1. Used(na.map)' = Used(na.map) \union Used(s) /\ NoneTwice(na.map)'
    <3>1. Used(na.map)' = Used(na'.map)
      BY DEF Used
    <3>2. NoneTwice(na.map)' = NoneTwice(na'.map)
      BY DEF NoneTwice
    <3> QED
      BY <1>6, <1>9, <3>1, <3>2
  <2>2. other \subseteq bmp
    BY DEF Good, Mine
  <2> QED
    BY <1>7, <1>8, <2>1, <2>2 DEF Good, Mine
<1>11. OnDisk'
  <2>1. Used(disk.map)' = Used(disk.map) /\ Room(disk)' = Room(disk)
    BY <1>8 DEF Used, Room
  <2>2. bmp \ other \subseteq (bmp \ other)'
    BY <1>8
  <2> QED
    BY <1>8, <2>1, <2>2 DEF Good, OnDisk
<1>12. InOrder(na') /\ na'.size <= na'.alloc
  <2>1. na.size <= na.alloc
    BY <1>1 DEF Good, Records
  <2> QED
    BY <1>2, <1>6, <1>9, <2>1, Shape DEF InOrder, Room
<1>13. /\ rec' = [na' EXCEPT !.map = rec'.map] /\ rec'.map \in Seq(Lcn \union {Hole})
       /\ Len(rec'.map) = Len(na'.map) /\ Used(rec'.map) \subseteq Used(na'.map)
  <2>1. /\ rec = [na EXCEPT !.map = rec.map] /\ rec.map \in Seq(Lcn \union {Hole})
        /\ Len(rec.map) = Len(na.map) /\ Used(rec.map) \subseteq Used(na.map)
    <3>1. /\ rec = [na EXCEPT !.map = rec.map]
          /\ call.remapped => /\ rec.map \in Seq(Lcn \union {Hole})
                              /\ Len(rec.map) = Len(na.map)
                              /\ Used(rec.map) \subseteq Used(na.map)
          /\ ~call.remapped => rec.map = na.map
      BY <1>1 DEF Good, Records, Writing
    <3> QED
      BY <3>1, Shape
  <2>2. rec' = [na' EXCEPT !.map = rec'.map]
    BY <1>8, <1>9, <2>1, Shape DEF Attr
  <2> QED
    BY <1>6, <1>8, <1>9, <2>1, <2>2
<1>14. Records'
  BY <1>1, <1>3, <1>12, <1>13 DEF Records, Writing
<1>15. Phases'
  BY <1>1, <1>2, <1>3, <1>9 DEF Phases, Sizing, Cutting, Writing
<1> QED
  BY <1>10, <1>11, <1>14, <1>15 DEF Good

(* The two exits of a write.                                               *)
LEMMA ExitsHold ==
    ASSUME AttrAssumption, Good, scars' = {}, Done \/ RestoreInit \/ RestoreInitFails \/ ErrMap
    PROVE  Good'
<1>1. Phases /\ Fields
  BY DEF Good, Phases
<1>2. pc \in Writing
  BY DEF Done, RestoreInit, RestoreInitFails, ErrMap, Writing
<1>3. /\ rec = [na EXCEPT !.map = rec.map]
      /\ call.remapped => /\ rec.map \in Seq(Lcn \union {Hole}) /\ Len(rec.map) = Len(na.map)
                          /\ Used(rec.map) \subseteq Used(na.map)
      /\ ~call.remapped => rec.map = na.map
      /\ na.size <= na.alloc
  BY <1>2 DEF Good, Records, Writing
(* The mapping pairs of the record are brought up to date.                 *)
<1>4. ASSUME UpdateMap(na, rec)
      PROVE  rec' = na
  <2>1. rec' = IF call.remapped THEN [rec EXCEPT !.map = na.map, !.alloc = na.alloc] ELSE rec
    BY <1>4 DEF UpdateMap
  <2> QED
    BY <1>3, <2>1, Shape DEF Attr
<1>5. CASE Done
  <2>1. rec' = na /\ pc' = "ret" /\ call' = [call EXCEPT !.ret = call.total]
        /\ UNCHANGED <<bmp, other, na, disk, freed>>
    BY <1>4, <1>5 DEF Done, Ends, volume
  <2>2. Mine'
    BY <2>1 DEF Good, Mine, Used, NoneTwice
  <2>3. OnDisk'
    BY <2>1 DEF Good, OnDisk, Used, Room
  <2>4. InOrder(na')
    BY <2>1, Shape
  <2>5. Records'
    BY <1>3, <2>1, <2>4 DEF Records, Writing
  <2>6. Phases'
    BY <1>1, <2>1, EndsIs DEF Phases, Sizing, Cutting, Writing
  <2> QED
    BY <2>2, <2>3, <2>5, <2>6 DEF Good
<1>6. CASE RestoreInit /\ ~call.initialized
  <2>1. Still /\ pc = "err" /\ pc' = "err_map" /\ call' = call
    BY <1>6 DEF RestoreInit, Still, volume
  <2>2. Mine' /\ OnDisk' /\ InOrder(na)'
    BY <2>1, StillHolds DEF Good
  <2>3. Records'
    BY <2>1, <2>2, SMTT(30) DEF Good, Records, Still, Writing, Used
  <2>4. Phases'
    BY <1>1, <2>1 DEF Phases, Fields, Still, Sizing, Cutting, Writing
  <2> QED
    BY <2>2, <2>3, <2>4 DEF Good
<1>7. CASE RestoreInit /\ call.initialized
  <2>1. /\ na' = [na EXCEPT !.init = call.old_init] /\ rec' = [rec EXCEPT !.init = call.old_init]
        /\ disk' = rec' /\ freed' = {} /\ pc = "err" /\ pc' = "err_map"
        /\ UNCHANGED <<bmp, other, call>>
    BY <1>7 DEF RestoreInit, Store, volume
  <2>2. ~na.res /\ call.old_init \in Nat /\ call.old_init <= na.size
    BY <1>1, <1>2, <1>7 DEF Phases
  <2>3. /\ na'.map = na.map /\ na'.alloc = na.alloc /\ na'.res = na.res /\ na'.size = na.size
        /\ na'.init = call.old_init /\ na' \in Attr
    BY <2>1, <2>2, Shape DEF Attr
  <2>4. /\ rec'.map = rec.map /\ rec' = [na' EXCEPT !.map = rec'.map]
        /\ rec'.alloc = na.alloc /\ rec'.res = na.res /\ rec'.size = na.size
        /\ rec'.init = call.old_init
    BY <1>3, <2>1, <2>2, Shape DEF Attr
  <2>5. /\ rec.map \in Seq(Lcn \union {Hole}) /\ Len(rec.map) = Len(na.map)
        /\ Used(rec.map) \subseteq Used(na.map)
    BY <1>3, Shape
  <2>6. Mine'
    BY <2>1, <2>3 DEF Good, Mine, Used, NoneTwice
  <2>7. InOrder(na')
    <3>1. na'.alloc = Room(na')
      BY <2>3, Shape DEF InOrder, Room
    <3> QED
      BY <2>2, <2>3, <3>1 DEF InOrder
  <2>8. OnDisk'
    <3>1. rec' \in Attr
      BY <2>1, <2>3, <2>4, <2>5 DEF Attr
    <3>2. rec'.alloc = Room(rec')
      BY <2>2, <2>4, <2>5, Shape DEF InOrder, Room
    <3>3. Used(rec'.map) \subseteq bmp' \ other'
      BY <2>1, <2>4, <2>5 DEF Good, Mine
    <3>4. rec'.init <= rec'.size /\ rec'.size <= rec'.alloc
      BY <1>3, <2>2, <2>4
    <3> QED
      BY <2>1, <3>1, <3>2, <3>3, <3>4 DEF OnDisk
  <2>9. Records'
    <3>1. /\ call'.remapped => /\ rec'.map \in Seq(Lcn \union {Hole})
                               /\ Len(rec'.map) = Len(na'.map)
                               /\ Used(rec'.map) \subseteq Used(na'.map)
          /\ ~call'.remapped => rec'.map = na'.map
      BY <1>3, <2>1, <2>3, <2>4
    <3>2. na'.size <= na'.alloc
      BY <1>3, <2>3
    <3> QED
      BY <2>1, <2>4, <2>7, <3>1, <3>2 DEF Records, Writing
  <2>10. Phases'
    BY <1>1, <2>1, <2>2, <2>3 DEF Phases, Fields, Sizing, Cutting, Writing
  <2> QED
    BY <2>6, <2>8, <2>9, <2>10 DEF Good
<1>8. CASE RestoreInitFails
  BY <1>8 DEF RestoreInitFails
<1>9. CASE ErrMap
  <2>1. rec' = na /\ pc = "err_map" /\ UNCHANGED <<bmp, other, na, disk, freed>>
    BY <1>4, <1>9 DEF ErrMap, volume
  <2>2. Mine'
    BY <2>1 DEF Good, Mine, Used, NoneTwice
  <2>3. OnDisk'
    BY <2>1 DEF Good, OnDisk, Used, Room
  <2>4. InOrder(na')
    BY <2>1, Shape
  <2>5. CASE ~call.extended
    <3>1. pc' = "ret" /\ call' = [call EXCEPT !.ret = -1]
      BY <1>9, <2>5 DEF ErrMap, Ends
    <3>2. Records'
      BY <1>3, <2>1, <2>4, <3>1 DEF Records, Writing
    <3>3. Phases'
      BY <1>1, <3>1, EndsIs DEF Phases, Sizing, Cutting, Writing
    <3> QED
      BY <2>2, <2>3, <3>2, <3>3 DEF Good
  <2>6. CASE call.extended
    <3>1. Resize(call.old, [call EXCEPT !.op = "undo"])
      BY <1>9, <2>6 DEF ErrMap
    <3>2. /\ pc' \in {"resize", "expand", "shrink"}
          /\ pc' = IF na.res THEN "resize" ELSE IF call.old > na.size THEN "expand" ELSE "shrink"
          /\ call' = [[call EXCEPT !.op = "undo"] EXCEPT !.new = call.old, !.old_alloc = na.alloc]
      BY <3>1 DEF Resize
    <3>3. /\ call'.op = "undo" /\ call'.pos = call.pos /\ call'.count = call.count
          /\ call'.new = call.old /\ call'.old = call.old /\ call'.old_init = call.old_init
          /\ call'.at = call.at /\ call'.left = call.left /\ call'.old_alloc = na.alloc /\ Fields'
      BY <1>1, <3>2 DEF Fields, IsCall
    <3>4. Records'
      BY <1>3, <2>1, <2>4, <3>2 DEF Records, Writing
    <3>5. Phases'
      BY <1>1, <2>1, <3>2, <3>3, Shape, SMTT(30) DEF Phases, Sizing, Cutting, Writing
    <3> QED
      BY <2>2, <2>3, <3>4, <3>5 DEF Good
  <2> QED
    BY <2>5, <2>6
<1> QED
  BY <1>5, <1>6, <1>7, <1>8, <1>9
-----------------------------------------------------------------------------
(* Every step keeps the invariant, and so it holds always.                 *)
LEMMA NextHolds == AttrAssumption /\ IInv /\ [Next]_vars => IInv'
<1> SUFFICES ASSUME AttrAssumption, IInv, [Next]_vars, scars' = {} PROVE Good'
  BY DEF IInv, Good
<1>1. Good
  BY ScarsStay DEF IInv, Good
<1>2. CASE UNCHANGED vars
  <2>1. Still /\ pc' = pc /\ call' = call
    BY <1>2 DEF vars, Still
  <2>2. Mine' /\ OnDisk' /\ Records'
    BY <1>1, <2>1, StillHolds DEF Good
  <2>3. Phases'
    BY <1>1, <2>1 DEF Good, Phases, Fields, Still, Sizing, Cutting, Writing, End
  <2> QED
    BY <2>2, <2>3 DEF Good
<1>3. CASE Next
  BY <1>1, <1>3, StartsHold, BetweenCallsHolds, ResizeResidentHolds, ExpandHolds, ShrinkHolds,
     WriteStartsHold, LoopHolds, FillHolds, ExitsHold DEF Next
<1> QED
  BY <1>2, <1>3

(* The invariant holds throughout.                                         *)
LEMMA AlwaysIInv == Spec => []IInv
<1>1. Init => IInv
  BY InitHolds, AttrAssumption
<1>2. IInv /\ [Next]_vars => IInv'
  BY NextHolds, AttrAssumption
<1> QED
  BY <1>1, <1>2, PTL DEF Spec

(* Between calls the mft record says of the attribute what the open        *)
(* attribute says and the sizes are in order, whatever the layout, the     *)
(* calls, the faults and their number: unless one of the errors that       *)
(* scars list went before.                                                 *)
THEOREM RecordIsKept == Spec => []RecordFollowsAttribute
<1>1. IInv => RecordFollowsAttribute
  <2> SUFFICES ASSUME Mine, Records, Quiet
               PROVE  /\ rec = na
                      /\ na.init <= na.size /\ na.size <= na.alloc
                      /\ na.alloc = Room(na)
                      /\ na.res => na.map = <<>> /\ na.init = na.size /\ na.size <= MaxResident
    BY DEF IInv, RecordFollowsAttribute
  <2> QED
    BY DEF Records, InOrder, Quiet, Writing
<1> QED
  BY <1>1, AlwaysIInv, PTL

(* No cluster of the runlist is another's or free in $Bitmap, none is in   *)
(* it twice, and between calls no cluster is lost.                         *)
THEOREM ClustersAreKept == Spec => []ClustersAccountedFor
<1>1. IInv => ClustersAccountedFor
  BY DEF IInv, Mine, ClustersAccountedFor
<1> QED
  BY <1>1, AlwaysIInv, PTL

(* At every moment the record on disk names clusters of the attribute, or  *)
(* such as were freed since it was written, with its sizes in order.       *)
THEOREM CrashIsHarmless == Spec => []CrashLeavesOrder
<1>1. IInv => CrashLeavesOrder
  BY DEF IInv, OnDisk, CrashLeavesOrder
<1> QED
  BY <1>1, AlwaysIInv, PTL
-----------------------------------------------------------------------------
(***************************************************************************)
(* The content.  What is read of an attribute a at a position p, from      *)
(* clusters that hold d and a resident value v.                            *)
(***************************************************************************)
Read(a, d, v, p) ==
    IF a.res THEN IF p < a.size THEN v[p] ELSE Zero
    ELSE IF p < a.size /\ p < a.init /\ p < Len(a.map) * ClusterSize /\ ~IsHole(a.map, p)
    THEN d[Address(a.map, p)] ELSE Zero
Reads(p) == Read(na, data, value, p)

(* Content at a position, now and after a step.                            *)
LEMMA ContentIs ==
    /\ \A p \in Position : Content(na)[p] = Reads(p)
    /\ \A p \in Position : Content(na)'[p] = Reads(p)'
  BY DEF Content, Reads, Read

(* The quotient and the rest of a position.                                *)
LEMMA RestIs ==
    ASSUME NEW c \in Nat \ {0}, NEW x \in Nat
    PROVE  /\ x \div c \in Nat /\ x % c \in 0 .. c - 1
           /\ x = (x \div c) * c + (x % c)
  OBVIOUS

(* The division of a position into quotient and rest is the only one.      *)
LEMMA RestUnique ==
    ASSUME NEW c \in Nat \ {0}, NEW a \in Nat, NEW b \in Nat, NEW r \in 0 .. c - 1, NEW t \in 0 .. c - 1,
           a * c + r = b * c + t
    PROVE  a = b /\ r = t
<1>1. /\ a * c \in Nat /\ b * c \in Nat
      /\ (a + 1) * c = a * c + c /\ (b + 1) * c = b * c + c
  BY Order
<1>2. ~(a + 1 <= b)
  <2> SUFFICES ASSUME a + 1 <= b PROVE FALSE
    OBVIOUS
  <2>1. (a + 1) * c <= b * c
    BY Order
  <2> QED
    BY <1>1, <2>1
<1>3. ~(b + 1 <= a)
  <2> SUFFICES ASSUME b + 1 <= a PROVE FALSE
    OBVIOUS
  <2>1. (b + 1) * c <= a * c
    BY Order
  <2> QED
    BY <1>1, <2>1
<1>4. a = b
  BY <1>2, <1>3
<1> QED
  BY <1>1, <1>4

(* A position within k clusters lies in one of them.                       *)
LEMMA VcnIs ==
    ASSUME AttrAssumption, NEW p \in Nat, NEW k \in Nat
    PROVE  /\ p \div ClusterSize \in Nat
           /\ p < k * ClusterSize <=> p \div ClusterSize < k
<1> DEFINE c == ClusterSize
           v == p \div c
<1>1. c \in Nat \ {0}
  BY DEF AttrAssumption
<1>2. v \in Nat /\ v * c <= p /\ p < v * c + c
  BY <1>1, Division
<1> HIDE DEF v
<1>3. v * c \in Nat /\ k * c \in Nat /\ (v + 1) * c = v * c + c
  BY <1>1, <1>2, Order
<1>4. ASSUME v < k PROVE p < k * c
  <2>1. (v + 1) * c <= k * c
    BY <1>1, <1>2, <1>4, Order
  <2> QED
    BY <1>1, <1>2, <1>3, <2>1
<1>5. ASSUME k <= v PROVE k * c <= p
  <2>1. k * c <= v * c
    BY <1>1, <1>2, <1>5, Order
  <2> QED
    BY <1>1, <1>2, <1>3, <2>1
<1> QED
  BY <1>1, <1>2, <1>3, <1>4, <1>5 DEF v

(* A position of a runlist that is no hole has an address on the volume,   *)
(* which is that of no other position.                                     *)
Runlists == Seq(Lcn \union {Hole})
Addresses == 0 .. NrClusters * ClusterSize - 1
Within(map, p) == p \in Nat /\ p < Len(map) * ClusterSize
Inside(map, ps) == \A q \in ps : Within(map, q)

(* A position within a runlist belongs to one of its vcns; if that is no   *)
(* hole, it has an address on the volume.                                  *)
LEMMA AddressIs ==
    ASSUME AttrAssumption, NEW map \in Runlists, NEW p, Within(map, p)
    PROVE  /\ p \div ClusterSize \in Nat /\ p \div ClusterSize + 1 \in DOMAIN map
           /\ ~IsHole(map, p) => /\ map[p \div ClusterSize + 1] \in Lcn
                                 /\ Address(map, p) \in Addresses
<1> DEFINE c == ClusterSize
           v == p \div c
<1>1. c \in Nat \ {0} /\ NrClusters \in Nat \ {0} /\ Len(map) \in Nat /\ p \in Nat
  BY DEF AttrAssumption, Runlists, Within
<1>2. v \in Nat /\ v < Len(map)
  BY <1>1, VcnIs DEF Within
<1>3. v + 1 \in DOMAIN map
  BY <1>1, <1>2 DEF Runlists
<1>4. ASSUME ~IsHole(map, p) PROVE map[v + 1] \in Lcn /\ Address(map, p) \in Addresses
  <2>1. map[v + 1] \in Lcn
    BY <1>3, <1>4 DEF Runlists, IsHole
  <2>2. PICK l \in Lcn : l = map[v + 1]
    BY <2>1
  <2>3. l \in Nat /\ l + 1 \in Nat /\ l + 1 <= NrClusters
    BY <1>1 DEF Lcn
  <2>4. /\ l * c \in Nat /\ (l + 1) * c = l * c + c /\ (l + 1) * c <= NrClusters * c
        /\ NrClusters * c \in Nat
    BY <1>1, <2>3, Order
  <2>5. p % c \in 0 .. c - 1
    BY <1>1, RestIs
  <2>6. Address(map, p) = l * c + (p % c)
    BY <2>2 DEF Address
  <2> HIDE DEF v
  <2>7. Address(map, p) \in Addresses
    BY <1>1, <2>4, <2>5, <2>6 DEF Addresses
  <2> QED
    BY <2>1, <2>7
<1> QED
  BY <1>2, <1>3, <1>4

(* No two positions have the same address, if no cluster is twice in the   *)
(* runlist.                                                                *)
LEMMA AddressOnce ==
    ASSUME AttrAssumption, NEW map \in Runlists, NoneTwice(map),
           NEW p, Within(map, p), ~IsHole(map, p), NEW q, Within(map, q), ~IsHole(map, q),
           Address(map, p) = Address(map, q)
    PROVE  p = q
<1> DEFINE c == ClusterSize
<1>1. c \in Nat \ {0} /\ p \in Nat /\ q \in Nat
  BY DEF AttrAssumption, Within
<1>2. PICK i, k : i = p \div c /\ k = q \div c
  OBVIOUS
<1>3. PICK r, t : r = p % c /\ t = q % c
  OBVIOUS
<1>4. /\ i \in Nat /\ k \in Nat /\ i + 1 \in DOMAIN map /\ k + 1 \in DOMAIN map
      /\ map[i + 1] \in Lcn /\ map[k + 1] \in Lcn
  BY <1>2, AddressIs
<1>5. /\ r \in 0 .. c - 1 /\ t \in 0 .. c - 1 /\ p = i * c + r /\ q = k * c + t
  BY <1>1, <1>2, <1>3, RestIs
<1>6. map[i + 1] * c + r = map[k + 1] * c + t
  BY <1>2, <1>3 DEF Address
<1>7. map[i + 1] = map[k + 1] /\ r = t
  <2>1. PICK x, y : x = map[i + 1] /\ y = map[k + 1]
    OBVIOUS
  <2>2. x \in Nat /\ y \in Nat
    BY <1>4, <2>1 DEF Lcn
  <2>3. x * c + r = y * c + t
    BY <1>6, <2>1
  <2> HIDE DEF c
  <2>4. r \in 0 .. c - 1 /\ t \in 0 .. c - 1
    BY <1>5
  <2>5. x = y /\ r = t
    BY <1>1, <2>2, <2>3, <2>4, RestUnique
  <2> QED
    BY <2>1, <2>5
<1>8. map[i + 1] # Hole
  BY <1>4 DEF Lcn, Hole
<1>9. i = k
  <2>1. i + 1 = k + 1
    BY <1>4, <1>7, <1>8 DEF NoneTwice
  <2> QED
    BY <1>4, <2>1
<1> QED
  BY <1>5, <1>7, <1>9

(* The clusters and the value have a content throughout.                   *)
Whole ==
    /\ data = [a \in Addresses |-> data[a]]
    /\ value = [p \in 0 .. MaxResident - 1 |-> value[p]]

(* What a write through a runlist leaves at a position of it.              *)
LEMMA WrittenIs ==
    ASSUME AttrAssumption, NEW map \in Runlists, NoneTwice(map),
           Whole,
           NEW ps, Inside(map, ps), NEW v,
           NEW p, Within(map, p), ~IsHole(map, p)
    PROVE  Written(map, ps, v)[Address(map, p)] = IF p \in ps THEN v ELSE data[Address(map, p)]
<1> DEFINE at == {Address(map, q) : q \in {x \in ps : ~IsHole(map, x)}}
<1>1. Address(map, p) \in Addresses /\ DOMAIN data = Addresses
  BY AddressIs DEF Whole
<1>2. Written(map, ps, v)[Address(map, p)] = IF Address(map, p) \in at THEN v ELSE data[Address(map, p)]
  BY <1>1 DEF Written
<1>3. p \in ps => Address(map, p) \in at
  OBVIOUS
<1>4. ASSUME Address(map, p) \in at PROVE p \in ps
  <2>1. PICK q \in ps : ~IsHole(map, q) /\ Address(map, q) = Address(map, p)
    BY <1>4
  <2>2. q = p
    BY <2>1, AddressOnce DEF Inside
  <2> QED
    BY <2>1, <2>2
<1> HIDE DEF at
<1> QED
  BY <1>2, <1>3, <1>4
-----------------------------------------------------------------------------
(* What is read does not change with the things nobody reads.              *)
LEMMA ReadSame ==
    ASSUME NEW a, NEW b, NEW d, NEW v, NEW p,
           b.res = a.res, b.map = a.map, b.size = a.size, b.init = a.init
    PROVE  Read(b, d, v, p) = Read(a, d, v, p)
  BY DEF Read, IsHole, Address

(* A runlist that is cut: what is left is read as before, the rest as zero.*)
LEMMA ReadCut ==
    ASSUME AttrAssumption, NEW a, NEW b, ~a.res, ~b.res, NEW d, NEW v, NEW p \in Nat,
           a.map \in Runlists, b.map \in Runlists, NEW k \in 0 .. Len(a.map), Len(b.map) = k,
           \A i \in 1 .. k : b.map[i] = a.map[i],
           b.size = a.size, b.init = a.init
    PROVE  /\ p < k * ClusterSize => Read(b, d, v, p) = Read(a, d, v, p)
           /\ ~(p < k * ClusterSize) => Read(b, d, v, p) = Zero
<1>1. /\ b.map \in Runlists /\ Len(b.map) = k /\ k \in Nat /\ Len(a.map) \in Nat
      /\ \A i \in 1 .. k : b.map[i] = a.map[i]
  BY DEF Runlists
<1> DEFINE i == p \div ClusterSize
<1>2. i \in Nat /\ (p < k * ClusterSize <=> i < k) /\ (p < Len(a.map) * ClusterSize <=> i < Len(a.map))
  BY <1>1, VcnIs
<1>3. ASSUME p < k * ClusterSize PROVE Read(b, d, v, p) = Read(a, d, v, p)
  <2> HIDE DEF i
  <2>1. i + 1 \in 1 .. k /\ p < Len(a.map) * ClusterSize
    BY <1>1, <1>2, <1>3
  <2>2. b.map[i + 1] = a.map[i + 1]
    BY <1>1, <2>1
  <2>3. p < Len(b.map) * ClusterSize
    BY <1>1, <1>3
  <2>4. b.map[p \div ClusterSize + 1] = a.map[p \div ClusterSize + 1]
    BY <2>2 DEF i
  <2> QED
    BY <2>1, <2>3, <2>4 DEF Read, IsHole, Address
<1>4. ASSUME ~(p < k * ClusterSize) PROVE Read(b, d, v, p) = Zero
  BY <1>1, <1>4 DEF Read
<1> QED
  BY <1>3, <1>4

(* A runlist that grows behind the size.                                   *)
LEMMA ReadGrown ==
    ASSUME AttrAssumption, NEW a, NEW b, ~a.res, ~b.res, NEW d, NEW v, NEW p \in Nat,
           a.map \in Runlists, b.map \in Runlists, Len(a.map) <= Len(b.map),
           \A i \in 1 .. Len(a.map) : b.map[i] = a.map[i],
           a.size \in Nat, a.size <= Len(a.map) * ClusterSize,
           b.size = a.size, b.init = a.init
    PROVE  Read(b, d, v, p) = Read(a, d, v, p)
<1>1. /\ b.map \in Runlists /\ Len(a.map) \in Nat /\ Len(b.map) \in Nat /\ Len(a.map) <= Len(b.map)
      /\ \A i \in 1 .. Len(a.map) : b.map[i] = a.map[i]
  BY DEF Runlists
<1> DEFINE i == p \div ClusterSize
<1>2. /\ i \in Nat /\ (p < Len(b.map) * ClusterSize <=> i < Len(b.map))
      /\ p < Len(a.map) * ClusterSize <=> i < Len(a.map)
  <2>1. Len(b.map) \in Nat
    BY <1>1
  <2>2. i \in Nat /\ (p < Len(b.map) * ClusterSize <=> i < Len(b.map))
    BY <2>1, VcnIs
  <2>3. p < Len(a.map) * ClusterSize <=> i < Len(a.map)
    BY <1>1, VcnIs
  <2> QED
    BY <2>2, <2>3
<1>3. CASE p < Len(a.map) * ClusterSize
  <2> HIDE DEF i
  <2>1. i + 1 \in 1 .. Len(a.map) /\ i < Len(b.map)
    BY <1>1, <1>2, <1>3
  <2>2. b.map[i + 1] = a.map[i + 1]
    BY <1>1, <2>1
  <2>3. p < Len(b.map) * ClusterSize
    BY <1>2, <2>1
  <2>4. b.map[p \div ClusterSize + 1] = a.map[p \div ClusterSize + 1]
    BY <2>2 DEF i
  <2> QED
    BY <1>3, <2>3, <2>4 DEF Read, IsHole, Address
<1>4. CASE ~(p < Len(a.map) * ClusterSize)
  <2>1. Len(a.map) * ClusterSize \in Nat
    <3>1. ClusterSize \in Nat \ {0}
      BY DEF AttrAssumption
    <3> QED
      BY <1>1, <3>1, Order
  <2>2. ~(p < a.size)
    BY <1>4, <2>1
  <2> QED
    BY <2>2 DEF Read
<1> QED
  BY <1>3, <1>4

(* Sizes that change: what is behind the initialized size is zero.         *)
LEMMA ReadSized ==
    ASSUME NEW a, NEW b, b.res = a.res, ~a.res, b.map = a.map, NEW d, NEW v, NEW p \in Nat,
           a.size \in Nat, a.init \in Nat, b.size \in Nat, b.init \in Nat, a.init <= a.size,
           b.init <= b.size
    PROVE  /\ b.init = a.init => Read(b, d, v, p) = Read(a, d, v, p)
           /\ p < b.init /\ p < a.init => Read(b, d, v, p) = Read(a, d, v, p)
           /\ p >= a.init => Read(a, d, v, p) = Zero
           /\ p >= b.init => Read(b, d, v, p) = Zero
  BY DEF Read, IsHole, Address

(* What is read after a write through the runlist.                         *)
LEMMA ReadWritten ==
    ASSUME AttrAssumption, NEW m \in Runlists, NEW a, NEW ps, NEW w, NEW v, NEW p \in Nat,
           ~a.res, a.map = m, NoneTwice(m), Whole, Inside(m, ps)
    PROVE  /\ p \notin ps => Read(a, Written(m, ps, w), v, p) = Read(a, data, v, p)
           /\ p \in ps /\ p < a.size /\ p < a.init /\ ~IsHole(m, p)
                 => Read(a, Written(m, ps, w), v, p) = w
           /\ p \in ps /\ w = Zero => Read(a, Written(m, ps, w), v, p) = Zero
<1>1. ASSUME Within(m, p), ~IsHole(m, p)
      PROVE  Written(m, ps, w)[Address(m, p)] = IF p \in ps THEN w ELSE data[Address(m, p)]
  BY <1>1, WrittenIs
<1>2. Within(m, p) <=> p < Len(m) * ClusterSize
  BY DEF Within
<1>3. CASE p < a.size /\ p < a.init /\ Within(m, p) /\ ~IsHole(m, p)
  <2>1. /\ Read(a, Written(m, ps, w), v, p) = Written(m, ps, w)[Address(m, p)]
        /\ Read(a, data, v, p) = data[Address(m, p)]
    BY <1>2, <1>3 DEF Read
  <2> QED
    BY <1>1, <1>3, <2>1
<1>4. CASE ~(p < a.size /\ p < a.init /\ Within(m, p) /\ ~IsHole(m, p))
  <2>1. Read(a, Written(m, ps, w), v, p) = Zero /\ Read(a, data, v, p) = Zero
    BY <1>2, <1>4 DEF Read
  <2>2. p \in ps => Within(m, p)
    BY DEF Inside
  <2> QED
    BY <1>4, <2>1, <2>2
<1> QED
  BY <1>3, <1>4
-----------------------------------------------------------------------------
(* What holds of the content within a call.                                *)
Same(p) == Reads(p) = call.before[p]
Outside(p) == p \notin call.pos .. End - 1
Unspoilt == Position \ call.spoilt

(* Which states with a scar there are.  Then what IInv says of the phase   *)
(* is lost, so that the forms and sizes are named here once more.          *)
Plain ==
    /\ Whole /\ Fields
    /\ pc \in {"idle", "ret"} \union Sizing \union Cutting \union Writing
    /\ call.pos \in Nat /\ call.count \in Nat /\ call.new \in Nat /\ call.old \in Nat
    /\ call.old_init \in Nat /\ call.old_alloc \in Nat
    /\ pc # "ret" => InOrder(na)
    /\ scars # {} => \/ pc \in {"err_map", "ret"}
                     \/ pc \in {"resize", "shrink", "shr_size"} /\ call.op = "undo"

(* What a write has seen of the attribute it began with.                   *)
Begun ==
    /\ \A p \in Position : p >= call.old \/ p >= call.old_init => call.before[p] = Zero
    /\ call.extended => call.old < End

(* While the attribute grows all is read as before.                        *)
Growing ==
    /\ call.op \in {"truncate", "write"}
    /\ \A p \in Unspoilt : Same(p)
    /\ pc = "resize" => call.spoilt = {} /\ (call.op = "write" => na.size <= call.new)
    /\ pc \in {"expand", "exp_size", "exp_undo"} =>
          /\ na.size <= call.old_alloc /\ call.old_alloc <= na.alloc
          /\ call.old_alloc = (call.old_alloc \div ClusterSize) * ClusterSize
    /\ call.op = "write" => Begun /\ call.total = 0

(* While it shrinks what is to stay is read as before, and all of it as    *)
(* long as nothing is cut off.                                             *)
Shortening ==
    /\ call.op = "truncate" /\ call.new <= na.size
    /\ \A p \in Unspoilt : p < call.new \/ na.alloc = call.old_alloc => Same(p)

(* A failed write cuts the attribute back to the old size.                 *)
Undoing ==
    /\ call.new = call.old /\ call.new <= na.size /\ Begun
    /\ \A p \in Unspoilt : Outside(p) => Same(p)
    /\ pc \in {"resize"} \union Cutting /\ (na.res <=> pc = "resize")
    /\ pc = "shrink" => na.size <= na.alloc

(* A write leaves all outside of its range as it was.                      *)
Going ==
    /\ call.op = "write" /\ Begun /\ End <= na.size
    /\ \A p \in Unspoilt : Outside(p) => Same(p)
    /\ pc \in {"data", "done", "err"} => ~call.initialized \/ call.old_init <= na.init
    /\ pc = "err_map" => na.size <= na.alloc

(* The loop has written its range up to where it is, and what a short      *)
(* write has put off goes behind the range to where spoilt says.           *)
InLoop ==
    /\ call.at \in Nat /\ call.left \in Nat /\ call.total \in Nat /\ End <= na.init
    /\ call.total + call.left = call.count /\ call.pos + call.total <= call.at
    /\ call.left > 0 =>
          /\ End <= call.at + call.left
          /\ \A p \in Unspoilt : p < End \/ p >= call.at + call.left
    /\ \A p \in Unspoilt :
          ~Outside(p) /\ (p < call.at \/ call.left = 0) => Reads(p) = call.val
Through ==
    /\ call.total \in Nat
    /\ \A p \in Unspoilt : ~Outside(p) /\ p < call.pos + call.total => Reads(p) = call.val

CInv ==
    /\ Plain
    /\ pc \in Sizing /\ call.op # "undo" => Growing
    /\ pc \in Cutting /\ call.op # "undo" => Shortening
    /\ pc \in Sizing \union Cutting /\ call.op = "undo" => Undoing
    /\ pc \in Writing => Going
    /\ pc = "data" => InLoop
    /\ pc = "done" => Through
    /\ CallsKeepContent

(* What may be relied on in a step.                                        *)
Sure == CInv /\ (scars = {} => Good)
-----------------------------------------------------------------------------
(* The parts of a call that its phases do not touch.                       *)
SameCall ==
    /\ call'.op = call.op /\ call'.pos = call.pos /\ call'.count = call.count
    /\ call'.val = call.val /\ call'.new = call.new /\ call'.old = call.old
    /\ call'.old_alloc = call.old_alloc /\ call'.old_init = call.old_init
    /\ call'.extended = call.extended /\ call'.before = call.before
    /\ Fields'

(* A step that leaves the call alone, or only sets what it returns.        *)
LEMMA SameCallIs ==
    ASSUME Fields
    PROVE  /\ call' = call => SameCall /\ call'.spoilt = call.spoilt
           /\ \A r : call' = [call EXCEPT !.ret = r] =>
                 SameCall /\ call'.spoilt = call.spoilt /\ call'.ret = r
  BY DEF SameCall, Fields, IsCall

(* What was seen at the start of a write stays, as the call does.          *)
LEMMA BegunStays ==
    ASSUME SameCall
    PROVE  /\ End' = End /\ \A p : Outside(p)' = Outside(p)
           /\ Begun => Begun'
<1>1. End' = End
  BY DEF SameCall, End
<1> QED
  BY <1>1 DEF SameCall, Outside, Begun

(* Nothing is read differently if the attribute and the data stay.         *)
LEMMA ReadsStay ==
    ASSUME UNCHANGED <<na, data, value>>
    PROVE  \A p : Reads(p)' = Reads(p)
  BY DEF Reads, Read, IsHole, Address

(* What a call owes when it returns.                                       *)
LEMMA WriteReturns ==
    ASSUME call'.op \in {"write", "undo"},
           \A p \in Unspoilt' : Outside(p)' => Same(p)',
           \A p \in Unspoilt' : ~Outside(p)' /\ call'.ret > p - call'.pos => Reads(p)' = call'.val
    PROVE  CallsKeepContent'
<1>1. \A p \in Position \ call'.spoilt :
         IF p \in call'.pos .. End' - 1
         THEN call'.ret > p - call'.pos => Content(na)'[p] = call'.val
         ELSE Content(na)'[p] = call'.before[p]
  <2> TAKE p \in Position \ call'.spoilt
  <2>1. p \in Unspoilt' /\ p \in Position
    BY DEF Unspoilt
  <2>2. Content(na)'[p] = Reads(p)'
    BY <2>1, ContentIs
  <2>3. Outside(p)' <=> p \notin call'.pos .. End' - 1
    BY DEF Outside
  <2>4. Outside(p)' => Content(na)'[p] = call'.before[p]
    <3>1. Outside(p)' => Same(p)'
      BY <2>1
    <3>2. Same(p)' => Reads(p)' = call'.before[p]
      BY DEF Same
    <3> QED
      BY <2>2, <3>1, <3>2
  <2>5. ~Outside(p)' /\ call'.ret > p - call'.pos => Content(na)'[p] = call'.val
    BY <2>1, <2>2
  <2> QED
    BY <2>3, <2>4, <2>5
<1>2. WriteKeepsToItsRange'
  BY <1>1 DEF WriteKeepsToItsRange
<1>3. call'.op # "truncate"
  OBVIOUS
<1> QED
  BY <1>2, <1>3 DEF CallsKeepContent

(* The same for a resize.                                                  *)
LEMMA ResizeReturns ==
    ASSUME call'.op = "truncate",
           scars' \subseteq {"rollback"} => \A p \in Unspoilt' : p < na'.size => Same(p)'
    PROVE  CallsKeepContent'
<1>1. ASSUME scars' \subseteq {"rollback"} PROVE ResizeKeepsContent'
  <2>1. \A p \in Unspoilt' : ~(p < na'.size) => Reads(p)' = Zero
    BY DEF Reads, Read
  <2>2. \A p \in Position \ call'.spoilt :
           Content(na)'[p] = IF p < na'.size THEN call'.before[p] ELSE Zero
    BY <1>1, <2>1, ContentIs DEF Unspoilt, Same
  <2> QED
    BY <2>2 DEF ResizeKeepsContent
<1> QED
  BY <1>1 DEF CallsKeepContent

(* A resize ends.                                                          *)
LEMMA ResizedKeeps ==
    ASSUME Plain, Whole', NEW r \in {0, -1}, Resized(r),
           call.op \in {"truncate", "write", "undo"},
           call.op = "truncate" /\ scars' \subseteq {"rollback"} =>
              \A p \in Unspoilt : p < na'.size => Reads(p)' = call.before[p],
           call.op = "undo" => \A p \in Unspoilt : Outside(p) => Reads(p)' = call.before[p],
           call.op = "write" => /\ \A p \in Unspoilt : Reads(p)' = call.before[p]
                                /\ Begun /\ call.total = 0
                                /\ r = 0 => InOrder(na)' /\ scars' = {}
    PROVE  CInv'
<1>1. CASE call.op = "write" /\ r = 0
  <2>1. pc' = "init" /\ call' = call
    BY <1>1 DEF Resized
  <2>2. SameCall /\ call'.spoilt = call.spoilt /\ call'.total = call.total
    BY <2>1, SameCallIs DEF Plain
  <2>3. Plain'
    BY <1>1, <2>1, <2>2 DEF Plain, SameCall, Sizing
  <2>4. Begun'
    BY <1>1, <2>2, BegunStays
  <2>5. \A p \in Unspoilt' : Same(p)'
    BY <1>1, <2>2 DEF Unspoilt, Same, SameCall
  <2>6. Growing'
    BY <1>1, <2>1, <2>2, <2>4, <2>5 DEF Growing, SameCall
  <2>7. CallsKeepContent'
    BY <2>1 DEF CallsKeepContent
  <2>8. call'.op = "write"
    BY <1>1, <2>2 DEF SameCall
  <2> QED
    BY <2>1, <2>3, <2>6, <2>7, <2>8 DEF CInv, Sizing, Cutting, Writing
<1>2. CASE ~(call.op = "write" /\ r = 0)
  <2> DEFINE t == IF call.op = "undo" THEN -1 ELSE r
  <2>1. pc' = "ret" /\ call' = [call EXCEPT !.ret = t]
    BY <1>2 DEF Resized, Ends
  <2>2. SameCall /\ call'.spoilt = call.spoilt /\ call'.ret = t
    BY <2>1, SameCallIs DEF Plain
  <2>3. Plain'
    BY <2>1, <2>2 DEF Plain, SameCall
  <2>4. End' = End /\ \A p : Outside(p)' = Outside(p)
    BY <2>2, BegunStays
  <2>5. CASE call.op = "truncate"
    <3>1. call'.op = "truncate" /\ Unspoilt' = Unspoilt
      BY <2>2, <2>5 DEF SameCall, Unspoilt
    <3>2. scars' \subseteq {"rollback"} => \A p \in Unspoilt' : p < na'.size => Same(p)'
      BY <2>2, <2>5, <3>1 DEF SameCall, Same
    <3>3. CallsKeepContent'
      BY <3>1, <3>2, ResizeReturns
    <3> QED
      BY <2>1, <2>3, <3>3 DEF CInv, Sizing, Cutting, Writing
  <2>6. CASE call.op \in {"write", "undo"}
    <3>1. call'.op \in {"write", "undo"} /\ Unspoilt' = Unspoilt /\ t = -1
      BY <1>2, <2>2, <2>6 DEF SameCall, Unspoilt
    <3>2. \A p \in Unspoilt' : Outside(p)' => Same(p)'
      BY <2>2, <2>4, <2>6, <3>1 DEF SameCall, Same
    <3>3. ASSUME NEW p \in Unspoilt', ~Outside(p)' PROVE ~(call'.ret > p - call'.pos)
      <4>1. p \in call.pos .. End - 1 /\ call.pos \in Nat /\ End \in Nat
        BY <2>4, <3>3 DEF Outside, Plain, End
      <4>2. call'.ret = -1 /\ call'.pos = call.pos
        BY <2>2, <3>1 DEF SameCall
      <4> QED
        BY <4>1, <4>2
    <3>4. CallsKeepContent'
      BY <3>1, <3>2, <3>3, WriteReturns
    <3> QED
      BY <2>1, <2>3, <3>4 DEF CInv, Sizing, Cutting, Writing
  <2> QED
    BY <2>5, <2>6
<1> QED
  BY <1>1, <1>2
-----------------------------------------------------------------------------
(* Between calls.                                                          *)
LEMMA InitKeeps == AttrAssumption /\ Init => CInv
<1> SUFFICES ASSUME AttrAssumption, Init PROVE CInv
  OBVIOUS
<1>1. pc = "idle" /\ call = NoCall /\ scars = {}
  BY DEF Init
<1>2. InOrder(na)
  BY <1>1, InitHolds DEF IInv, Records
<1>3. Whole
  <2>1. data = [a \in Addresses |-> data[a]]
    <3> DEFINE F(a) == IF ~na.res /\ \E p \in 0 .. na.init - 1 : ~IsHole(na.map, p) /\ a = Address(na.map, p)
                       THEN Old ELSE Junk
    <3>1. data = [a \in Addresses |-> F(a)]
      BY DEF Init, Addresses
    <3> HIDE DEF F
    <3> QED
      BY <3>1
  <2>2. value = [p \in 0 .. MaxResident - 1 |-> value[p]]
    <3>1. NoValue = [p \in 0 .. MaxResident - 1 |-> Junk]
      BY DEF NoValue
    <3>2. CASE value = NoValue
      BY <3>1, <3>2
    <3>3. ASSUME NEW size, value = [p \in DOMAIN NoValue |-> IF p < size THEN Old ELSE Junk]
          PROVE  value = [p \in 0 .. MaxResident - 1 |-> value[p]]
      BY <3>1, <3>3
    <3> QED
      BY <3>2, <3>3 DEF Init
  <2> QED
    BY <2>1, <2>2 DEF Whole
<1>4. NoCall.old_alloc = 0
  BY DEF NoCall
<1>5. Plain
  BY <1>1, <1>2, <1>3, <1>4, NoCallIs DEF Plain, Fields
<1> QED
  BY <1>1, <1>5 DEF CInv, Sizing, Cutting, Writing, CallsKeepContent

(* The other steps between calls touch nothing of the attribute.           *)
LEMMA IdleKeeps ==
    ASSUME AttrAssumption, Sure, Return \/ (\E c \in Lcn : OtherTakes(c)) \/ Sync
    PROVE  CInv'
<1>1. Plain /\ pc \in {"idle", "ret"} /\ pc' = "idle" /\ UNCHANGED <<na, value, scars>> /\ scars = {}
  <2>1. Plain
    BY DEF Sure, CInv
  <2>2. CASE Return
    BY <2>1, <2>2 DEF Return
  <2>3. CASE \E c \in Lcn : OtherTakes(c)
    BY <2>1, <2>3 DEF OtherTakes, Plain
  <2>4. CASE Sync
    BY <2>1, <2>4 DEF Sync, volume, Plain
  <2> QED
    BY <2>1, <2>2, <2>3, <2>4
<1>2. InOrder(na)'
  BY <1>1, Shape DEF Sure
<1>3. Whole'
  <2>1. ASSUME data' = data PROVE Whole'
    BY <1>1, <2>1 DEF Plain, Whole
  <2>2. ASSUME NEW c \in Lcn, OtherTakes(c) PROVE Whole'
    <3> DEFINE F(a) == IF a \div ClusterSize = c THEN Junk ELSE data[a]
    <3>1. data' = [a \in DOMAIN data |-> F(a)]
      BY <2>2 DEF OtherTakes
    <3> HIDE DEF F
    <3>2. DOMAIN data = Addresses
      BY <1>1 DEF Plain, Whole
    <3> QED
      BY <1>1, <3>1, <3>2 DEF Plain, Whole
  <2> QED
    BY <2>1, <2>2 DEF Return, Sync, volume
<1>4. call' = call \/ call' = NoCall
  BY DEF Return, OtherTakes, Sync
<1>5. Plain'
  <2>1. NoCall.old_alloc = 0
    BY DEF NoCall
  <2>2. CASE call' = call
    BY <1>1, <1>2, <1>3, <2>2 DEF Plain, Fields
  <2>3. CASE call' = NoCall
    BY <1>1, <1>2, <1>3, <2>1, <2>3, NoCallIs DEF Plain, Fields
  <2> QED
    BY <1>4, <2>2, <2>3
<1> QED
  BY <1>1, <1>5 DEF CInv, Sizing, Cutting, Writing, CallsKeepContent

(* A call begins with the content it finds.                                *)
LEMMA TruncateKeeps ==
    ASSUME AttrAssumption, Sure, NEW new \in 0 .. MaxSize, Truncate(new)
    PROVE  CInv'
<1>1. /\ pc = "idle" /\ Plain /\ Good /\ UNCHANGED <<data, na, value, scars>> /\ scars = {}
      /\ new \in Nat
  <2>1. pc = "idle" /\ UNCHANGED <<data, na, value, scars>>
    BY DEF Truncate, Enter, volume
  <2>2. Plain /\ scars = {}
    BY <2>1 DEF Sure, CInv, Plain
  <2>3. new \in Nat
    BY DEF MaxSize, AttrAssumption
  <2> QED
    BY <2>1, <2>2, <2>3 DEF Sure
<1> DEFINE b == Content(na)
<1>2. /\ call'.op = "truncate" /\ call'.new = new /\ call'.old_alloc = na.alloc
      /\ call'.before = b /\ call'.pos = 0 /\ call'.count = 0 /\ call'.old = 0
      /\ call'.old_init = 0 /\ call'.spoilt = {} /\ Fields'
      /\ pc' = IF na.res THEN "resize" ELSE IF new > na.size THEN "expand" ELSE "shrink"
  <2> DEFINE c == [NoCall EXCEPT !.op = "truncate", !.before = b]
  <2>1. /\ call' = [c EXCEPT !.new = new, !.old_alloc = na.alloc]
        /\ pc' = IF na.res THEN "resize" ELSE IF new > na.size THEN "expand" ELSE "shrink"
    BY DEF Truncate, Resize
  <2> HIDE DEF b
  <2>2. /\ c.op = "truncate" /\ c.before = b /\ c.pos = 0 /\ c.count = 0 /\ c.old = 0
        /\ c.old_init = 0 /\ c.spoilt = {} /\ IsCall(c)
    <3>1. NoCall.spoilt = {}
      BY DEF NoCall
    <3>2. c = [NoCall EXCEPT !.op = "truncate", !.before = b]
      OBVIOUS
    <3> HIDE DEF c
    <3> QED
      BY <3>1, <3>2, NoCallIs DEF IsCall
  <2> HIDE DEF c
  <2> QED
    BY <2>1, <2>2 DEF Fields, IsCall
<1>3. \A p \in Position : Reads(p)' = call'.before[p]
  BY <1>1, <1>2, ContentIs, ReadsStay
<1> HIDE DEF b
<1>4. na \in Attr /\ InOrder(na) /\ na.size \in Nat /\ na.alloc \in Nat /\ na.size <= na.alloc
  BY <1>1, Shape DEF Good, Records
<1>5. Plain'
  BY <1>1, <1>2, <1>4 DEF Plain, Whole, Sizing, Cutting
<1>6. CallsKeepContent' /\ pc' \notin Writing
  BY <1>2 DEF CallsKeepContent, Writing
<1>7. CASE pc' \in {"resize", "expand"}
  <2>1. pc' = "expand" => na.alloc = (na.alloc \div ClusterSize) * ClusterSize
    <3> SUFFICES ASSUME pc' = "expand" PROVE na.alloc = (na.alloc \div ClusterSize) * ClusterSize
      OBVIOUS
    <3>1. ~na.res
      BY <1>2
    <3>2. na.alloc = Len(na.map) * ClusterSize /\ na.alloc \div ClusterSize = Len(na.map)
      BY <1>1, <3>1, AllocatedIs
    <3> QED
      BY <3>2
  <2>2. Growing'
    <3>1. \A p \in Unspoilt' : Same(p)'
      BY <1>3 DEF Unspoilt, Same
    <3>2. call'.op \in {"truncate", "write"} /\ call'.op # "write"
      BY <1>2
    <3>3. call'.spoilt = {}
      BY <1>2
    <3>4. pc' \in {"expand", "exp_size", "exp_undo"} =>
             /\ na'.size <= call'.old_alloc /\ call'.old_alloc <= na'.alloc
             /\ call'.old_alloc = (call'.old_alloc \div ClusterSize) * ClusterSize
      BY <1>1, <1>2, <1>4, <1>7, <2>1
    <3> QED
      BY <3>1, <3>2, <3>3, <3>4 DEF Growing
  <2> QED
    BY <1>2, <1>5, <1>6, <1>7, <2>2 DEF CInv, Sizing, Cutting, Writing
<1>8. CASE pc' = "shrink"
  <2>1. Shortening'
    BY <1>1, <1>2, <1>3, <1>4, <1>8 DEF Shortening, Unspoilt, Same
  <2> QED
    BY <1>2, <1>5, <1>6, <1>8, <2>1 DEF CInv, Sizing, Cutting, Writing
<1> QED
  BY <1>2, <1>7, <1>8

(* A write, which may have to extend the attribute first.                  *)
LEMMA WriteKeeps ==
    ASSUME AttrAssumption, Sure, NEW pos \in Position, NEW val, NEW count \in Counts,
           Write(pos, count, val)
    PROVE  CInv'
<1>1. /\ pc = "idle" /\ Plain /\ Good /\ UNCHANGED <<data, na, value, scars>> /\ scars = {}
      /\ pos \in Nat /\ count \in Nat \ {0}
  <2>1. pc = "idle" /\ UNCHANGED <<data, na, value, scars>>
    BY DEF Write, Enter, volume
  <2>2. Plain /\ scars = {}
    BY <2>1 DEF Sure, CInv, Plain
  <2>3. pos \in Nat /\ count \in Nat \ {0}
    BY DEF Position, AttrAssumption
  <2> QED
    BY <2>1, <2>2, <2>3 DEF Sure
<1>2. /\ na \in Attr /\ InOrder(na) /\ na.size \in Nat /\ na.init \in Nat /\ na.alloc \in Nat
      /\ na.init <= na.size /\ na.size <= na.alloc /\ na.res \in BOOLEAN
  BY <1>1, Shape DEF Good, Records
<1> DEFINE b == Content(na)
           o == na.size
           i == na.init
           e == pos + count
<1>3. /\ call'.op = "write" /\ call'.pos = pos /\ call'.count = count /\ call'.val = val
      /\ call'.old = o /\ call'.old_init = i /\ call'.before = b /\ call'.spoilt = {}
      /\ call'.total = 0 /\ call'.new \in Nat /\ call'.old_alloc \in Nat /\ Fields'
      /\ e > o => /\ pc' = IF na.res THEN "resize" ELSE "expand"
                  /\ call'.old_alloc = na.alloc /\ call'.new = e
      /\ ~(e > o) => pc' = "init" /\ ~call'.extended
  <2> DEFINE d == [NoCall EXCEPT !.op = "write", !.pos = pos, !.count = count, !.val = val,
                                 !.old = o, !.old_init = i, !.before = b]
             c == [d EXCEPT !.extended = TRUE]
  <2>1. IF e > o THEN Resize(e, c) ELSE pc' = "init" /\ call' = d
    BY DEF Write
  <2>2. NoCall.spoilt = {} /\ NoCall.total = 0 /\ NoCall.new = 0 /\ NoCall.old_alloc = 0
        /\ NoCall.extended = FALSE
    BY DEF NoCall
  <2> HIDE DEF b, o, i, e
  <2>3. /\ d.op = "write" /\ d.pos = pos /\ d.count = count /\ d.val = val /\ d.old = o
        /\ d.old_init = i /\ d.before = b /\ d.spoilt = {} /\ d.total = 0 /\ d.new = 0
        /\ d.old_alloc = 0 /\ d.extended = FALSE /\ IsCall(d)
    <3>1. d = [NoCall EXCEPT !.op = "write", !.pos = pos, !.count = count, !.val = val,
                             !.old = o, !.old_init = i, !.before = b]
      OBVIOUS
    <3> HIDE DEF d
    <3> QED
      BY <2>2, <3>1, NoCallIs DEF IsCall
  <2>4. c = [d EXCEPT !.extended = TRUE]
    OBVIOUS
  <2> HIDE DEF d, c
  <2>5. CASE e > o
    <3>1. Resize(e, c)
      BY <2>1, <2>5
    <3>2. call' = [c EXCEPT !.new = e, !.old_alloc = na.alloc]
          /\ pc' = IF na.res THEN "resize" ELSE IF e > na.size THEN "expand" ELSE "shrink"
      BY <3>1 DEF Resize
    <3>3. /\ c.op = "write" /\ c.pos = pos /\ c.count = count /\ c.val = val /\ c.old = o
          /\ c.old_init = i /\ c.before = b /\ c.spoilt = {} /\ c.total = 0 /\ IsCall(c)
      BY <2>3, <2>4 DEF IsCall
    <3>4. e \in Nat
      BY <1>1 DEF e
    <3>5. /\ call'.op = "write" /\ call'.pos = pos /\ call'.count = count /\ call'.val = val
          /\ call'.old = o /\ call'.old_init = i /\ call'.before = b /\ call'.spoilt = {}
          /\ call'.total = 0 /\ call'.new = e /\ call'.old_alloc = na.alloc /\ Fields'
      BY <3>2, <3>3 DEF Fields, IsCall
    <3>6. pc' = IF na.res THEN "resize" ELSE "expand"
      BY <2>5, <3>2 DEF o
    <3> QED
      BY <1>2, <2>5, <3>4, <3>5, <3>6
  <2>6. CASE ~(e > o)
    <3>1. pc' = "init" /\ call' = d
      BY <2>1, <2>6
    <3> QED
      BY <2>3, <2>6, <3>1 DEF Fields, IsCall
  <2> QED
    BY <2>5, <2>6
<1>4. \A p \in Position : Reads(p)' = call'.before[p] /\ Reads(p) = call'.before[p]
  BY <1>1, <1>3, ContentIs, ReadsStay
<1> HIDE DEF b
<1>5. End' = e /\ e \in Nat /\ o \in Nat /\ i \in Nat
  BY <1>1, <1>2, <1>3 DEF End
<1>6. Begun'
  <2>1. \A p \in Position : p >= o \/ p >= i => Reads(p) = Zero
    <3> TAKE p \in Position
    <3>1. p \in Nat
      BY DEF Position
    <3>2. na.res => i = o
      BY <1>2 DEF InOrder
    <3>3. i <= o
      BY <1>2
    <3> HIDE DEF e
    <3> QED
      BY <1>5, <3>1, <3>2, <3>3 DEF Reads, Read
  <2>2. \A p \in Position : p >= call'.old \/ p >= call'.old_init => call'.before[p] = Zero
    BY <1>3, <1>4, <2>1
  <2>3. call'.extended => call'.old < End'
    BY <1>3, <1>5
  <2> QED
    BY <2>2, <2>3 DEF Begun
<1>7. Plain'
  <2>1. pc' \in {"resize", "expand", "init"}
    BY <1>3
  <2> HIDE DEF e
  <2> QED
    BY <1>1, <1>2, <1>3, <1>5, <2>1 DEF Plain, Whole, Sizing
<1>8. CallsKeepContent' /\ pc' \in Sizing /\ pc' \notin {"exp_size", "exp_undo"}
  BY <1>3 DEF CallsKeepContent, Sizing
<1>9. Growing'
  <2>1. \A p \in Unspoilt' : Same(p)'
    BY <1>4 DEF Unspoilt, Same
  <2>2. pc' \in {"expand", "exp_size", "exp_undo"} =>
           /\ na'.size <= call'.old_alloc /\ call'.old_alloc <= na'.alloc
           /\ call'.old_alloc = (call'.old_alloc \div ClusterSize) * ClusterSize
    <3> SUFFICES ASSUME pc' = "expand"
                 PROVE  /\ na'.size <= call'.old_alloc /\ call'.old_alloc <= na'.alloc
                        /\ call'.old_alloc = (call'.old_alloc \div ClusterSize) * ClusterSize
      BY <1>8
    <3>1. ~na.res /\ call'.old_alloc = na.alloc
      BY <1>3
    <3>2. na.alloc = Len(na.map) * ClusterSize /\ na.alloc \div ClusterSize = Len(na.map)
      BY <1>1, <3>1, AllocatedIs
    <3>3. na.alloc = (na.alloc \div ClusterSize) * ClusterSize
      BY <3>2
    <3> QED
      BY <1>1, <1>2, <3>1, <3>3
  <2> QED
    <3>1. pc' = "resize" => call'.spoilt = {} /\ na'.size <= call'.new
      BY <1>1, <1>3, <1>5
    <3> QED
      BY <1>3, <1>6, <2>1, <2>2, <3>1 DEF Growing
<1> QED
  BY <1>3, <1>7, <1>8, <1>9 DEF CInv, Sizing, Cutting, Writing
-----------------------------------------------------------------------------
(* A resident value that is resized, or could not be.                      *)
LEMMA ResizingIs ==
    ASSUME AttrAssumption, Sure, pc = "resize"
    PROVE  /\ Plain /\ InOrder(na) /\ na.res /\ na.size \in Nat /\ na.size <= MaxResident
           /\ na.map = <<>> /\ MaxResident \in Nat /\ na.init = na.size
           /\ call.op \in {"truncate", "write"} => Growing /\ Good /\ scars = {}
           /\ call.op = "undo" => Undoing
           /\ call.op \in {"truncate", "write", "undo"}
<1>1. /\ Plain /\ InOrder(na) /\ (call.op # "undo" => Growing) /\ (call.op = "undo" => Undoing)
  BY DEF Sure, CInv, Plain, Sizing
<1>2. call.op # "undo" => scars = {}
  BY <1>1 DEF Plain
<1>3. na.res
  BY <1>1, <1>2 DEF Sure, Good, Phases, Undoing
<1>4. MaxResident \in Nat
  BY DEF AttrAssumption, MaxSize
<1>5. na.size \in Nat /\ na.size <= MaxResident /\ na.map = <<>> /\ na.init = na.size
  BY <1>1, <1>3 DEF InOrder, Attr
<1>6. call.op \in {"truncate", "write", "undo"}
  BY <1>1 DEF Growing
<1> QED
  BY <1>1, <1>2, <1>3, <1>4, <1>5, <1>6 DEF Sure

(* A resident value gets longer by zeros, or is cut.                       *)
LEMMA ResizeValueKeeps ==
    ASSUME AttrAssumption, Sure, ResizeValue
    PROVE  CInv'
<1>1. /\ pc = "resize" /\ call.new <= MaxResident /\ value' = ValueOf(call.new)
      /\ na' = Resident(call.new) /\ Resized(0) /\ data' = data /\ scars' = scars
  BY DEF ResizeValue, volume
<1>2. /\ Plain /\ na.res /\ na.size \in Nat /\ na.size <= MaxResident /\ MaxResident \in Nat
      /\ call.op \in {"truncate", "write"} => Growing /\ scars = {}
      /\ call.op = "undo" => Undoing
      /\ call.op \in {"truncate", "write", "undo"}
  BY <1>1, ResizingIs
<1>3. PICK n \in Nat : n = call.new
  BY <1>2 DEF Plain
<1>4. na'.res /\ na'.size = n /\ na'.init = n /\ na'.map = <<>> /\ na'.alloc = n
  BY <1>1, <1>3 DEF Resident
<1>5. DOMAIN value = 0 .. MaxResident - 1
  BY <1>2 DEF Plain, Whole
<1>6. \A p \in 0 .. MaxResident - 1 :
         value'[p] = IF p >= n THEN Junk ELSE IF p < na.size THEN value[p] ELSE Zero
  BY <1>1, <1>3, <1>5 DEF ValueOf
<1>7. Whole'
  <2> DEFINE F(p) == IF p >= n THEN Junk ELSE IF p < na.size THEN value[p] ELSE Zero
  <2>1. value' = [p \in 0 .. MaxResident - 1 |-> F(p)]
    BY <1>1, <1>3, <1>5 DEF ValueOf
  <2> HIDE DEF F
  <2> QED
    BY <1>1, <1>2, <2>1 DEF Plain, Whole
<1>8. InOrder(na)'
  <2>1. <<>> \in Seq(Lcn \union {Hole})
    OBVIOUS
  <2>2. na' = [res |-> TRUE, map |-> <<>>, alloc |-> n, size |-> n, init |-> n]
    BY <1>1, <1>3 DEF Resident
  <2>3. na' \in Attr
    BY <2>1, <2>2 DEF Attr
  <2> QED
    BY <1>1, <1>3, <1>4, <2>3 DEF InOrder, Room
<1>9. \A p \in Nat : Reads(p)' = IF p < n THEN Reads(p) ELSE Zero
  <2> TAKE p \in Nat
  <2>1. CASE p < n
    <3>1. p \in 0 .. MaxResident - 1
      BY <1>1, <1>2, <1>3, <2>1
    <3>2. value'[p] = IF p < na.size THEN value[p] ELSE Zero
      BY <1>6, <2>1, <3>1
    <3> QED
      BY <1>2, <1>4, <2>1, <3>2 DEF Reads, Read
  <2>2. CASE ~(p < n)
    BY <1>4, <2>2 DEF Reads, Read
  <2> QED
    BY <2>1, <2>2
<1>10. \A p \in Nat : p >= na.size => Reads(p) = Zero
  BY <1>2 DEF Reads, Read
<1>11. \A p \in Unspoilt : p \in Nat /\ p \in Position
  BY DEF Unspoilt, Position
<1>12. ASSUME call.op = "truncate"
       PROVE  \A p \in Unspoilt : p < na'.size => Reads(p)' = call.before[p]
  BY <1>2, <1>4, <1>9, <1>11, <1>12 DEF Growing, Same
<1>13. ASSUME call.op = "undo"
       PROVE  \A p \in Unspoilt : Outside(p) => Reads(p)' = call.before[p]
  <2>1. Undoing /\ call.old = n
    BY <1>2, <1>3, <1>13 DEF Undoing
  <2>2. \A p \in Unspoilt : p >= n => call.before[p] = Zero
    BY <1>11, <2>1 DEF Undoing, Begun
  <2> QED
    BY <1>9, <1>11, <2>1, <2>2 DEF Undoing, Same
<1>14. ASSUME call.op = "write"
       PROVE  /\ \A p \in Unspoilt : Reads(p)' = call.before[p]
              /\ Begun /\ call.total = 0 /\ InOrder(na)' /\ scars' = {}
  <2>1. Growing /\ scars = {} /\ na.size <= n
    BY <1>1, <1>2, <1>3, <1>14 DEF Growing
  <2>2. \A p \in Unspoilt : Reads(p)' = Reads(p)
    BY <1>2, <1>9, <1>10, <1>11, <2>1
  <2> QED
    BY <1>1, <1>8, <1>14, <2>1, <2>2 DEF Growing, Same
<1> QED
  BY <1>1, <1>2, <1>7, <1>12, <1>13, <1>14, ResizedKeeps

(* A resident attribute that cannot be resized stays as it is, whatever    *)
(* was copied to clusters that are not its own.                            *)
LEMMA ResidentFailureKeeps ==
    ASSUME AttrAssumption, Sure, ResizeFails \/ MakeNonResidentFails
    PROVE  CInv'
<1>1. pc = "resize" /\ UNCHANGED <<na, value>> /\ Resized(-1)
  BY DEF ResizeFails, MakeNonResidentFails
<1>2. /\ Plain /\ na.res
      /\ call.op \in {"truncate", "write"} => Growing
      /\ call.op = "undo" => Undoing
      /\ call.op \in {"truncate", "write", "undo"}
  BY <1>1, ResizingIs
<1>3. Whole'
  <2>1. CASE ResizeFails
    BY <1>1, <1>2, <2>1 DEF ResizeFails, volume, Plain, Whole
  <2>2. ASSUME NEW s, NEW n, data' = CopyTo(s, n, Len(s) * ClusterSize) PROVE Whole'
    <3> DEFINE F(a) == LET ps == {p \in 0 .. na.size - 1 :
                                    LET q == IF p < n THEN p ELSE p - n + Len(s) * ClusterSize
                                    IN  q < Len(s) * ClusterSize /\ Address(s, q) = a}
                       IN  IF ps = {} THEN data[a] ELSE value[Largest(ps)]
    <3>1. data' = [a \in DOMAIN data |-> F(a)]
      BY <2>2 DEF CopyTo
    <3> HIDE DEF F
    <3>2. DOMAIN data = Addresses
      BY <1>2 DEF Plain, Whole
    <3> QED
      BY <1>1, <1>2, <3>1, <3>2 DEF Plain, Whole
  <2>3. ASSUME MakeNonResidentFails PROVE Whole'
    BY <2>2, <2>3 DEF MakeNonResidentFails
  <2> QED
    BY <2>1, <2>3
<1>4. \A p : Reads(p)' = Reads(p)
  BY <1>1, <1>2 DEF Reads, Read
<1>5. call.op = "truncate" => \A p \in Unspoilt : Reads(p)' = call.before[p]
  BY <1>2, <1>4 DEF Growing, Same
<1>6. call.op = "undo" => \A p \in Unspoilt : Outside(p) => Reads(p)' = call.before[p]
  BY <1>2, <1>4 DEF Undoing, Same
<1>7. call.op = "write" => (\A p \in Unspoilt : Reads(p)' = call.before[p]) /\ Begun /\ call.total = 0
  BY <1>2, <1>4 DEF Growing, Same
<1> QED
  BY <1>1, <1>2, <1>3, <1>5, <1>6, <1>7, ResizedKeeps

(* Clusters that were granted have no holes: each position up to their end *)
(* has an address of its own.                                              *)
LEMMA GrantedRuns ==
    ASSUME AttrAssumption, NEW n \in Nat, NEW s \in Granted(n)
    PROVE  /\ s \in Runlists /\ Len(s) = n /\ NoneTwice(s)
           /\ \A p : Within(s, p) => ~IsHole(s, p)
<1>1. /\ s \in Seq(Lcn \union {Hole}) /\ Len(s) = n /\ NoneTwice(s)
      /\ \A i \in 1 .. n : s[i] \in Lcn \ bmp
  BY GrantedIs
<1>2. s \in Runlists
  BY <1>1 DEF Runlists
<1>3. ASSUME NEW p, Within(s, p) PROVE ~IsHole(s, p)
  <2>1. p \div ClusterSize + 1 \in DOMAIN s
    BY <1>2, <1>3, AddressIs
  <2>2. s[p \div ClusterSize + 1] \in Lcn
    BY <1>1, <2>1
  <2> QED
    BY <2>2 DEF IsHole, Lcn, Hole
<1> QED
  BY <1>1, <1>2, <1>3

(* What is copied to the first n positions can be read there.              *)
LEMMA CopiedIs ==
    ASSUME AttrAssumption, Whole, na.size \in Nat,
           NEW k \in Nat, NEW s \in Granted(k), na.size <= k * ClusterSize,
           NEW n \in 0 .. na.size, NEW at \in Nat, n <= at, NEW p \in 0 .. n - 1
    PROVE  CopyTo(s, n, at)[Address(s, p)] = value[p]
<1> DEFINE Goes(x) == IF x < n THEN x ELSE x - n + at
           ps == {x \in 0 .. na.size - 1 :
                    Goes(x) < Len(s) * ClusterSize /\ Address(s, Goes(x)) = Address(s, p)}
<1>1. /\ s \in Runlists /\ Len(s) = k /\ NoneTwice(s)
      /\ \A x : Within(s, x) => ~IsHole(s, x)
  BY GrantedRuns
<1>2. p \in Nat /\ p < k * ClusterSize /\ p \in 0 .. na.size - 1 /\ k * ClusterSize \in Nat
  <2>1. k * ClusterSize \in Nat
    BY Order DEF AttrAssumption
  <2> QED
    BY <2>1
<1>3. Within(s, p) /\ ~IsHole(s, p)
  BY <1>1, <1>2 DEF Within
<1>4. ps = {p}
  <2>1. p \in ps
    BY <1>1, <1>2
  <2>2. ASSUME NEW x \in ps PROVE x = p
    <3>1. x \in Nat /\ Goes(x) \in Nat /\ Address(s, Goes(x)) = Address(s, p)
      OBVIOUS
    <3>2. Within(s, Goes(x)) /\ ~IsHole(s, Goes(x))
      BY <1>1, <3>1 DEF Within
    <3>3. PICK g : g = Goes(x)
      OBVIOUS
    <3>4. g = p
      BY <1>1, <1>3, <3>1, <3>2, <3>3, AddressOnce
    <3> QED
      BY <3>1, <3>3, <3>4
  <2> QED
    BY <2>1, <2>2
<1>5. Largest(ps) = p
  <2> HIDE DEF ps
  <2>1. ps \in SUBSET Nat /\ ps # {} /\ \A l \in ps : l <= p
    BY <1>2, <1>4
  <2>2. Largest(ps) \in ps
    BY <1>2, <2>1, LargestIsGreatest
  <2> QED
    BY <1>4, <2>2
<1>6. Address(s, p) \in DOMAIN data
  BY <1>1, <1>3, AddressIs DEF Whole
<1>7. CopyTo(s, n, at)[Address(s, p)] = IF ps = {} THEN data[Address(s, p)] ELSE value[Largest(ps)]
  BY <1>6 DEF CopyTo
<1> HIDE DEF ps
<1> QED
  BY <1>4, <1>5, <1>7

(* A value of n positions that is now in clusters; from position m on, if  *)
(* not before, it may be spoilt.                                           *)
LEMMA ConvertKeeps ==
    ASSUME AttrAssumption, Sure, pc = "resize", Longer,
           NEW s \in Granted(Clusters(na.size)), Convert(s),
           NEW m \in 0 .. na.size, NEW at \in Nat, m <= at, data' = CopyTo(s, m, at),
           \/ call' = [call EXCEPT !.old_alloc = na'.alloc] /\ m = na.size
           \/ call' = [call EXCEPT !.old_alloc = na'.alloc, !.spoilt = m .. na.size - 1]
    PROVE  CInv'
<1>1. /\ Plain /\ na.res /\ na.size \in Nat /\ call.new \in Nat /\ call.new > na.size
      /\ Growing /\ call.spoilt = {} /\ Good /\ scars = {} /\ call.op \in {"truncate", "write"}
  <2>1. Plain /\ na.size \in Nat /\ call.new \in Nat /\ na.res /\ call.new > na.size
    BY ResizingIs DEF Plain, Longer
  <2>2. call.op # "undo"
    BY <2>1, ResizingIs DEF Undoing
  <2> QED
    BY <2>1, <2>2, ResizingIs DEF Growing
<1> DEFINE n == Clusters(na.size)
           size == na.size
<1>2. /\ n \in Nat /\ size <= n * ClusterSize /\ ClusterSize \in Nat \ {0} /\ n * ClusterSize \in Nat
  <2>1. n \in Nat /\ size <= n * ClusterSize /\ ClusterSize \in Nat \ {0}
    BY <1>1, ClustersIs DEF AttrAssumption
  <2> QED
    BY <2>1, Order
<1>3. s \in Granted(n)
  OBVIOUS
<1> HIDE DEF n
<1>4. /\ s \in Runlists /\ Len(s) = n /\ NoneTwice(s)
      /\ \A p : Within(s, p) => ~IsHole(s, p)
  BY <1>2, <1>3, GrantedRuns
<1>5. /\ ~na'.res /\ na'.map = s /\ na'.size = size /\ na'.init = size
      /\ na'.alloc = n * ClusterSize /\ value' = NoValue /\ pc' = "expand" /\ scars' = scars
  BY <1>4 DEF Convert, NonResident
<1>6. Whole'
  <2> DEFINE F(a) == LET ps == {p \in 0 .. na.size - 1 :
                                  LET q == IF p < m THEN p ELSE p - m + at
                                  IN  q < Len(s) * ClusterSize /\ Address(s, q) = a}
                     IN  IF ps = {} THEN data[a] ELSE value[Largest(ps)]
  <2>1. data' = [a \in DOMAIN data |-> F(a)]
    BY DEF CopyTo
  <2> HIDE DEF F
  <2>2. DOMAIN data = Addresses
    BY <1>1 DEF Plain, Whole
  <2> QED
    BY <1>5, <2>1, <2>2 DEF Whole, NoValue
<1>7. /\ call'.op = call.op /\ call'.pos = call.pos /\ call'.count = call.count
      /\ call'.new = call.new /\ call'.old = call.old
      /\ call'.old_alloc = na'.alloc /\ call'.old_init = call.old_init
      /\ call'.extended = call.extended /\ call'.before = call.before /\ call'.total = call.total
      /\ Fields' /\ ((call'.spoilt = {} /\ m = size) \/ call'.spoilt = m .. size - 1)
  BY <1>1 DEF Plain, Fields, IsCall
<1>8. \A p \in Nat \ call'.spoilt : Reads(p)' = Reads(p)
  <2> TAKE p \in Nat \ call'.spoilt
  <2>1. CASE p < size
    <3>1. p \in 0 .. m - 1
      BY <1>1, <1>7, <2>1
    <3>2. Within(s, p)
      BY <1>2, <1>4, <2>1, <1>1 DEF Within
    <3>3. CopyTo(s, m, at)[Address(s, p)] = value[p]
      <4>1. Whole /\ na.size \in Nat /\ na.size <= n * ClusterSize
        BY <1>1, <1>2 DEF Plain
      <4> QED
        BY <1>2, <1>3, <3>1, <4>1, CopiedIs, SMTT(30)
    <3>4. Reads(p) = value[p]
      BY <1>1, <2>1 DEF Reads, Read
    <3>5. Reads(p)' = data'[Address(s, p)]
      BY <1>4, <1>5, <2>1, <3>2 DEF Reads, Read, Within
    <3> QED
      BY <3>3, <3>4, <3>5
  <2>2. CASE ~(p < size)
    BY <1>1, <1>5, <2>2 DEF Reads, Read
  <2> QED
    BY <2>1, <2>2
<1>9. Plain'
  <2>1. na' = [res |-> FALSE, map |-> s, alloc |-> n * ClusterSize, size |-> size, init |-> size]
    BY <1>4 DEF Convert, NonResident
  <2>2. na' \in Attr
    BY <1>1, <1>2, <1>4, <2>1 DEF Attr, Runlists
  <2>3. InOrder(na)'
    BY <1>1, <1>4, <1>5, <2>2 DEF InOrder, Room
  <2> QED
    BY <1>1, <1>2, <1>5, <1>6, <1>7, <2>3 DEF Plain, Sizing
<1>10. Growing'
  <2>1. \A p \in Unspoilt' : Same(p)'
    <3> TAKE p \in Unspoilt'
    <3>1. p \in Position /\ p \in Nat \ call'.spoilt /\ p \in Unspoilt
      BY <1>1 DEF Unspoilt, Position
    <3>2. Reads(p)' = Reads(p) /\ Same(p)
      BY <1>1, <1>8, <3>1 DEF Growing
    <3> QED
      BY <1>7, <3>2 DEF Same
  <2>2. na'.alloc = (na'.alloc \div ClusterSize) * ClusterSize
    BY <1>2, <1>5, DivisionOf
  <2>3. na'.size <= na'.alloc /\ na'.alloc <= na'.alloc
    BY <1>2, <1>5
  <2>4. Begun => Begun'
    <3>1. End' = End
      BY <1>7 DEF End
    <3> QED
      BY <1>7, <3>1 DEF Begun
  <2> QED
    BY <1>1, <1>5, <1>7, <2>1, <2>2, <2>3, <2>4 DEF Growing
<1>11. CallsKeepContent'
  BY <1>5 DEF CallsKeepContent
<1> QED
  BY <1>1, <1>5, <1>7, <1>9, <1>10, <1>11 DEF CInv, Sizing, Cutting, Writing

(* What a short copy leaves goes behind the position it stopped at.        *)
LEMMA RunBehindIs ==
    ASSUME AttrAssumption, NEW s \in Runlists, NEW n \in Nat, n < Len(s) * ClusterSize
    PROVE  /\ RunBehind(s, n) \in Nat /\ n <= RunBehind(s, n)
           /\ RunBehind(s, n) >= (n \div ClusterSize + 1) * ClusterSize
<1> DEFINE v == n \div ClusterSize
           len == Len(s)
           S == {e \in v + 1 .. len : e = len \/ s[e + 1] # s[e] + 1}
<1>1. ClusterSize \in Nat \ {0} /\ len \in Nat
  BY DEF AttrAssumption, Runlists
<1>2. v \in Nat /\ n < v * ClusterSize + ClusterSize
  BY <1>1, Division
<1>3. v < len
  BY <1>1, VcnIs
<1>4. RunBehind(s, n) = Smallest(S) * ClusterSize
  BY DEF RunBehind
<1> HIDE DEF v, len
<1>5. Smallest(S) \in S
  <2>1. S \in SUBSET Nat /\ len \in S
    BY <1>1, <1>2, <1>3
  <2> HIDE DEF S
  <2> QED
    BY <2>1, SmallestIsLeast
<1>6. PICK e : e = Smallest(S)
  OBVIOUS
<1>7. e \in Nat /\ v + 1 <= e
  BY <1>1, <1>2, <1>5, <1>6
<1> HIDE DEF S
<1>8. /\ (v + 1) * ClusterSize = v * ClusterSize + ClusterSize /\ (v + 1) * ClusterSize <= e * ClusterSize
      /\ e * ClusterSize \in Nat /\ (v + 1) * ClusterSize \in Int /\ v * ClusterSize \in Nat
  BY <1>1, <1>2, <1>7, Order
<1> QED
  BY <1>1, <1>2, <1>4, <1>6, <1>8 DEF v

(* The value is copied to clusters; after a short copy all behind it is    *)
(* spoilt.                                                                 *)
LEMMA MakeNonResidentKeeps ==
    ASSUME AttrAssumption, Sure, MakeNonResident \/ MakeNonResidentShort
    PROVE  CInv'
<1>1. pc = "resize" /\ Longer
  BY DEF MakeNonResident, MakeNonResidentShort
<1>2. na.size \in Nat
  BY <1>1, ResizingIs
<1>3. CASE MakeNonResident
  <2>1. PICK s \in Granted(Clusters(na.size)) : Convert(s) /\ data' = CopyTo(s, na.size, na.size)
    BY <1>3 DEF MakeNonResident
  <2>2. call' = [call EXCEPT !.old_alloc = na'.alloc]
    BY <1>3 DEF MakeNonResident
  <2>3. na.size \in 0 .. na.size
    BY <1>2
  <2> QED
    <3> DEFINE n == na.size
    <3>1. n \in 0 .. na.size /\ n \in Nat /\ n <= n /\ n = na.size
      BY <1>2
    <3>2. Convert(s) /\ data' = CopyTo(s, n, n)
      BY <2>1
    <3> HIDE DEF n
    <3> QED
      BY <1>1, <2>2, <3>1, <3>2, ConvertKeeps
<1>4. CASE MakeNonResidentShort
  <2>1. PICK s \in Granted(Clusters(na.size)) : \E n \in 1 .. na.size - 1 :
           /\ Convert(s)
           /\ data' = CopyTo(s, n, RunBehind(s, n))
           /\ call' = [call EXCEPT !.old_alloc = na'.alloc, !.spoilt = n .. na.size - 1]
    BY <1>4 DEF MakeNonResidentShort
  <2>2. PICK n \in 1 .. na.size - 1 :
           /\ Convert(s)
           /\ data' = CopyTo(s, n, RunBehind(s, n))
           /\ call' = [call EXCEPT !.old_alloc = na'.alloc, !.spoilt = n .. na.size - 1]
    BY <2>1
  <2>3. n \in 0 .. na.size /\ n \in Nat /\ n < na.size
    BY <1>2
  <2>4. /\ Clusters(na.size) \in Nat /\ na.size <= Clusters(na.size) * ClusterSize
        /\ s \in Runlists /\ Len(s) = Clusters(na.size)
        /\ Clusters(na.size) * ClusterSize \in Nat
    <3>1. Clusters(na.size) \in Nat /\ na.size <= Clusters(na.size) * ClusterSize
      BY <1>2, ClustersIs
    <3>2. s \in Runlists /\ Len(s) = Clusters(na.size)
      BY <3>1, GrantedRuns
    <3>3. Clusters(na.size) * ClusterSize \in Nat
      BY <3>1, Order DEF AttrAssumption
    <3> QED
      BY <3>1, <3>2, <3>3
  <2>5. n < Len(s) * ClusterSize
    <3>1. PICK x : x = Clusters(na.size) * ClusterSize
      OBVIOUS
    <3>2. Len(s) * ClusterSize = x
      BY <2>4, <3>1
    <3> QED
      BY <1>2, <2>3, <2>4, <3>1, <3>2
  <2>6. RunBehind(s, n) \in Nat /\ n <= RunBehind(s, n)
    BY <2>3, <2>4, <2>5, RunBehindIs
  <2> QED
    BY <1>1, <2>2, <2>3, <2>6, ConvertKeeps
<1> QED
  BY <1>3, <1>4
-----------------------------------------------------------------------------
(* An attribute in clusters that is to grow.                               *)
LEMMA ExpandingIs ==
    ASSUME AttrAssumption, Sure, pc \in {"expand", "exp_size", "exp_undo"}
    PROVE  /\ Plain /\ Good /\ Growing /\ scars = {} /\ InOrder(na) /\ ~na.res
           /\ na.map \in Runlists /\ Len(na.map) \in Nat /\ na.alloc = Len(na.map) * ClusterSize
           /\ na.size \in Nat /\ na.init \in Nat /\ na.init <= na.size /\ na.size <= na.alloc
           /\ call.op \in {"truncate", "write"} /\ call.new \in Nat /\ call.old_alloc \in Nat
<1>1. Plain /\ scars = {} /\ Good /\ Growing
  <2>1. Plain /\ scars = {}
    BY DEF Sure, CInv, Plain
  <2>2. call.op # "undo"
    BY DEF Sure, CInv, Sizing, Undoing, Cutting
  <2> QED
    BY <2>1, <2>2 DEF Sure, CInv, Sizing
<1>2. ~na.res /\ call.new \in Nat /\ call.old_alloc \in Nat
  BY <1>1 DEF Good, Phases, Plain
<1>3. na.size <= na.alloc
  BY <1>1 DEF Good, Records
<1> QED
  BY <1>1, <1>2, <1>3, AllocatedIs, Shape DEF Runlists, Growing

(* An expand that fails before it changed anything.                        *)
LEMMA ExpandFailureKeeps ==
    ASSUME AttrAssumption, Sure, pc \in {"expand", "exp_size"}, UNCHANGED <<data, na, value>>,
           Resized(-1)
    PROVE  CInv'
<1>1. Plain /\ Growing /\ call.op \in {"truncate", "write"}
  BY ExpandingIs
<1>2. \A p \in Unspoilt : Reads(p)' = call.before[p]
  BY <1>1, ReadsStay DEF Growing, Same
<1>3. Whole'
  BY <1>1 DEF Plain, Whole
<1> QED
  BY <1>1, <1>2, <1>3, ResizedKeeps DEF Growing

(* A step from one phase of the growth to the next: the sizes stay, and    *)
(* so does what is read.                                                   *)
LEMMA ExpandStepKeeps ==
    ASSUME AttrAssumption, Sure, pc \in {"expand", "exp_size"}, pc' \in {"exp_size", "exp_undo"},
           UNCHANGED <<data, value, call, scars>>, InOrder(na)', na'.size = na.size,
           na.alloc <= na'.alloc, na'.alloc \in Nat, \A p \in Nat : Reads(p)' = Reads(p)
    PROVE  CInv'
<1>1. /\ Plain /\ Growing /\ call.op \in {"truncate", "write"} /\ scars = {}
      /\ na.alloc \in Nat /\ call.old_alloc \in Nat
  BY ExpandingIs, Shape
<1>2. SameCall /\ call'.spoilt = call.spoilt
  BY <1>1, SameCallIs DEF Plain
<1>3. Plain'
  BY <1>1, <1>2 DEF Plain, Whole, SameCall, Sizing
<1>4. \A p \in Unspoilt' : Same(p)'
  <2> TAKE p \in Unspoilt'
  <2>1. p \in Unspoilt /\ p \in Nat
    BY DEF Unspoilt, Position
  <2> QED
    BY <1>1, <2>1 DEF Growing, Same
<1>5. Begun => Begun'
  BY <1>2, BegunStays
<1>6. na.size <= call.old_alloc /\ call.old_alloc <= na'.alloc
      /\ call.old_alloc = (call.old_alloc \div ClusterSize) * ClusterSize
  <2>1. /\ na.size <= call.old_alloc /\ call.old_alloc <= na.alloc
        /\ call.old_alloc = (call.old_alloc \div ClusterSize) * ClusterSize
    BY <1>1 DEF Growing
  <2>2. call.old_alloc <= na'.alloc
    BY <1>1, <2>1
  <2> QED
    BY <2>1, <2>2
<1>7. Growing'
  BY <1>1, <1>4, <1>5, <1>6 DEF Growing
<1> QED
  BY <1>1, <1>3, <1>7 DEF CInv, Sizing, Cutting, Writing, CallsKeepContent

(* What a runlist reads that grew by s.                                    *)
LEMMA GrowReads ==
    ASSUME AttrAssumption, Sure, pc = "expand", Missing > 0, NEW s \in Appended, Grow(s),
           pc' \in {"exp_size", "exp_undo"}, UNCHANGED call
    PROVE  CInv'
<1>1. /\ Good /\ ~na.res /\ na.map \in Runlists /\ na.alloc = Len(na.map) * ClusterSize
      /\ na.size \in Nat /\ na.size <= na.alloc /\ na \in Attr /\ Len(na.map) \in Nat
      /\ call.new \in Nat
  BY ExpandingIs, Shape
<1>2. /\ InOrder(na') /\ ~na'.res /\ na'.size = na.size /\ na'.init = na.init /\ scars' = scars
  BY <1>1, GrowIs
<1>3. UNCHANGED <<data, value>> /\ na'.map = na.map \o s
  BY <1>1 DEF Grow, Attr
<1>4. /\ Clusters(call.new) \in Nat /\ na.alloc \div ClusterSize = Len(na.map)
      /\ ClusterSize \in Nat \ {0}
  BY <1>1, AllocatedIs
<1>5. Missing = Clusters(call.new) - Len(na.map) /\ Missing \in Nat
  <2>1. Missing = Clusters(call.new) - na.alloc \div ClusterSize
    BY DEF Missing
  <2>2. Missing = Clusters(call.new) - Len(na.map)
    BY <1>4, <2>1
  <2> QED
    BY <1>1, <1>4, <2>2
<1>6. s \in Runlists
  <2>1. CASE s \in Granted(Missing)
    BY <1>5, <2>1, GrantedRuns
  <2>2. CASE s = [i \in 1 .. Missing |-> Hole]
    BY <1>5, <2>2, UsedHoles DEF Runlists
  <2> QED
    BY <2>1, <2>2 DEF Appended
<1>7. \A p \in Nat : Reads(p)' = Reads(p)
  <2> TAKE p \in Nat
  <2>1. Read(na', data, value, p) = Read(na, data, value, p)
    <3>1. na.size <= Len(na.map) * ClusterSize
      BY <1>1
    <3> QED
      <4> DEFINE a == na
                 b == na'
      <4>1. /\ ~a.res /\ ~b.res /\ a.map \in Runlists /\ a.size \in Nat
            /\ a.size <= Len(a.map) * ClusterSize /\ b.size = a.size /\ b.init = a.init
        BY <1>1, <1>2, <1>3, <3>1
      <4>2. /\ b.map \in Runlists /\ Len(a.map) <= Len(b.map)
            /\ \A i \in 1 .. Len(a.map) : b.map[i] = a.map[i]
        BY <1>1, <1>3, <1>6 DEF Runlists
      <4> HIDE DEF a, b
      <4>3. Read(b, data, value, p) = Read(a, data, value, p)
        BY <4>1, <4>2, ReadGrown, SMTT(30)
      <4> QED
        BY <4>3 DEF a, b
  <2> QED
    BY <1>3, <2>1 DEF Reads
<1>8. na.alloc <= na'.alloc /\ na'.alloc \in Nat
  <2>1. na'.alloc = Clusters(call.new) * ClusterSize
    BY <1>1 DEF Grow, Attr
  <2>2. Len(na.map) <= Clusters(call.new)
    BY <1>1, <1>4, <1>5
  <2>3. /\ Len(na.map) * ClusterSize <= Clusters(call.new) * ClusterSize
        /\ Clusters(call.new) * ClusterSize \in Nat
    BY <1>1, <1>4, <2>2, Order, SMTT(30)
  <2> QED
    BY <1>1, <2>1, <2>3
<1> QED
  BY <1>2, <1>3, <1>7, <1>8, ExpandStepKeeps

(* The size goes up, the initialized size does not: what is gained reads   *)
(* as zero.                                                                *)
LEMMA ExpandSizeKeeps ==
    ASSUME AttrAssumption, Sure, ExpandSize
    PROVE  CInv'
<1>1. /\ pc = "exp_size" /\ na' = [na EXCEPT !.size = call.new] /\ Resized(0)
      /\ UNCHANGED <<data, value, scars>>
  BY DEF ExpandSize, volume
<1>2. /\ Plain /\ Growing /\ Good /\ ~na.res /\ na \in Attr /\ call.op \in {"truncate", "write"}
      /\ na.size \in Nat /\ na.init \in Nat /\ na.init <= na.size /\ call.new \in Nat
      /\ scars = {} /\ InOrder(na)
  BY <1>1, ExpandingIs, Shape
<1>3. call.new > na.size
  BY <1>1, <1>2 DEF Good, Phases
<1>4. /\ na'.res = na.res /\ na'.map = na.map /\ na'.size = call.new /\ na'.init = na.init
      /\ na'.alloc = na.alloc /\ na' \in Attr
  BY <1>1, <1>2 DEF Attr
<1>5. \A p \in Nat : Reads(p)' = Reads(p)
  <2> TAKE p \in Nat
  <2>1. Read(na', data, value, p) = Read(na, data, value, p)
    BY <1>2, <1>3, <1>4, ReadSized
  <2> QED
    BY <1>1, <2>1 DEF Reads
<1>6. InOrder(na)'
  BY <1>2, <1>3, <1>4 DEF InOrder, Room
<1>7. \A p \in Unspoilt : Reads(p)' = call.before[p]
  BY <1>2, <1>5 DEF Growing, Same, Unspoilt, Position
<1>8. Whole'
  BY <1>1, <1>2 DEF Plain, Whole
<1> QED
  BY <1>1, <1>2, <1>6, <1>7, <1>8, ResizedKeeps DEF Growing

(* The rollback leaves the clusters that hold something.                   *)
LEMMA ExpandUndoKeeps ==
    ASSUME AttrAssumption, Sure, ExpandUndo
    PROVE  CInv'
<1>1. /\ pc = "exp_undo" /\ na' = RolledBack /\ Resized(-1) /\ UNCHANGED <<data, value>>
  BY DEF ExpandUndo
<1>2. /\ Plain /\ Growing /\ ~na.res /\ na \in Attr /\ call.op \in {"truncate", "write"}
      /\ na.size \in Nat /\ na.map \in Runlists /\ Len(na.map) \in Nat
      /\ na.alloc = Len(na.map) * ClusterSize /\ call.old_alloc \in Nat
  BY <1>1, ExpandingIs, Shape
<1>3. PICK k : k = call.old_alloc \div ClusterSize
  OBVIOUS
<1>4. /\ k \in Nat /\ call.old_alloc = k * ClusterSize /\ na.size <= k * ClusterSize
      /\ k * ClusterSize <= Len(na.map) * ClusterSize /\ k * ClusterSize \in Nat
  <2>1. k \in Nat
    BY <1>2, <1>3, Division DEF AttrAssumption
  <2>2. k * ClusterSize \in Nat
    BY <2>1, Order DEF AttrAssumption
  <2> QED
    BY <1>1, <1>2, <1>3, <2>1, <2>2 DEF Growing
<1>5. k \in 0 .. Len(na.map)
  <2>1. k <= Len(na.map)
    BY <1>2, <1>4, Order, SMTT(30) DEF AttrAssumption
  <2> QED
    BY <1>2, <1>4, <2>1
<1>6. /\ ~na'.res /\ na'.map = SubSeq(na.map, 1, k) /\ na'.size = na.size /\ na'.init = na.init
  BY <1>1, <1>2, <1>3 DEF RolledBack, Attr
<1>7. \A p \in Nat : Reads(p)' = Reads(p)
  <2> TAKE p \in Nat
  <2>1. p < k * ClusterSize => Read(na', data, value, p) = Read(na, data, value, p)
    <3>1. /\ SubSeq(na.map, 1, k) \in Seq(Lcn \union {Hole}) /\ Len(SubSeq(na.map, 1, k)) = k
          /\ \A i \in 1 .. k : SubSeq(na.map, 1, k)[i] = na.map[i]
      BY <1>2, <1>5, UsedCut DEF Runlists
    <3> DEFINE a == na
               b == na'
    <3>2. /\ ~a.res /\ ~b.res /\ a.map \in Runlists /\ b.map \in Runlists /\ Len(b.map) = k
          /\ \A i \in 1 .. k : b.map[i] = a.map[i]
          /\ k \in 0 .. Len(a.map) /\ b.size = a.size /\ b.init = a.init
      BY <1>2, <1>5, <1>6, <3>1 DEF Runlists
    <3> HIDE DEF a, b
    <3>3. p < k * ClusterSize => Read(b, data, value, p) = Read(a, data, value, p)
      BY <3>2, ReadCut
    <3> QED
      BY <3>3 DEF a, b
  <2>2. ~(p < k * ClusterSize) => ~(p < na.size)
    BY <1>2, <1>4
  <2>3. ~(p < na.size) => Reads(p)' = Zero /\ Reads(p) = Zero
    BY <1>6 DEF Reads, Read
  <2> QED
    BY <1>1, <2>1, <2>2, <2>3 DEF Reads
<1>8. \A p \in Unspoilt : Reads(p)' = call.before[p]
  BY <1>2, <1>7 DEF Growing, Same, Unspoilt, Position
<1>9. Whole'
  BY <1>1, <1>2 DEF Plain, Whole
<1> QED
  BY <1>1, <1>2, <1>8, <1>9, ResizedKeeps DEF Growing

(* The steps of an expand.                                                 *)
LEMMA ExpandKeeps ==
    ASSUME AttrAssumption, Sure,
           \/ ExpandWithin \/ Expand \/ ExpandFails \/ ExpandUpdateFails
           \/ ExpandSize \/ ExpandSizeFails \/ ExpandUndo
    PROVE  CInv'
<1>1. CASE ExpandWithin \/ (ExpandSizeFails /\ UNCHANGED call)
  <2>1. /\ pc \in {"expand", "exp_size"} /\ pc' \in {"exp_size", "exp_undo", "ret", "init"}
        /\ UNCHANGED <<data, na, value, call, scars>>
        /\ pc' \in {"exp_size", "exp_undo"} \/ Resized(-1)
    BY <1>1 DEF ExpandWithin, ExpandSizeFails, volume, Resized, Ends
  <2>2. CASE Resized(-1)
    BY <2>1, <2>2, ExpandFailureKeeps
  <2>3. CASE pc' \in {"exp_size", "exp_undo"}
    <3>1. InOrder(na)' /\ na'.size = na.size /\ na.alloc <= na'.alloc /\ na'.alloc \in Nat
      BY <2>1, ExpandingIs, Shape
    <3>2. \A p \in Nat : Reads(p)' = Reads(p)
      BY <2>1, ReadsStay
    <3> QED
      BY <2>1, <2>3, <3>1, <3>2, ExpandStepKeeps
  <2> QED
    BY <2>1, <2>2, <2>3
<1>2. CASE Expand \/ ExpandUpdateFails
  <2>1. /\ pc = "expand" /\ Missing > 0 /\ (\E s \in Appended : Grow(s))
        /\ pc' \in {"exp_size", "exp_undo"} /\ UNCHANGED call
    BY <1>2 DEF Expand, ExpandUpdateFails
  <2> QED
    BY <2>1, GrowReads
<1>3. CASE ExpandFails \/ (ExpandSizeFails /\ ~UNCHANGED call)
  <2>1. pc \in {"expand", "exp_size"} /\ UNCHANGED <<data, na, value>> /\ Resized(-1)
    BY <1>3 DEF ExpandFails, ExpandSizeFails, volume
  <2> QED
    BY <2>1, ExpandFailureKeeps
<1> QED
  BY <1>1, <1>2, <1>3, ExpandSizeKeeps, ExpandUndoKeeps
-----------------------------------------------------------------------------
(* An attribute that is cut.                                               *)
LEMMA CuttingIs ==
    ASSUME AttrAssumption, Sure, pc \in Cutting
    PROVE  /\ Plain /\ InOrder(na) /\ ~na.res /\ na \in Attr /\ na.map \in Runlists
           /\ Len(na.map) \in Nat /\ na.alloc = Len(na.map) * ClusterSize
           /\ na.size \in Nat /\ na.init \in Nat /\ na.init <= na.size
           /\ call.new \in Nat /\ call.new <= na.size
           /\ call.op \in {"truncate", "undo"}
           /\ call.op = "truncate" => Shortening /\ Good /\ scars = {}
           /\ call.op = "undo" => Undoing
<1>1. /\ Plain /\ InOrder(na) /\ (call.op # "undo" => Shortening) /\ (call.op = "undo" => Undoing)
  BY DEF Sure, CInv, Plain, Cutting
<1>2. call.op # "undo" => scars = {}
  BY <1>1 DEF Plain, Cutting
<1>3. ~na.res
  BY <1>1, <1>2 DEF Sure, Good, Phases, Undoing, Cutting
<1>4. /\ na \in Attr /\ na.map \in Runlists /\ Len(na.map) \in Nat /\ na.alloc = Len(na.map) * ClusterSize
      /\ na.size \in Nat /\ na.init \in Nat /\ na.init <= na.size
  BY <1>1, <1>3 DEF InOrder, Attr, Room, Runlists
<1>5. call.new \in Nat /\ call.new <= na.size /\ call.op \in {"truncate", "undo"}
  BY <1>1 DEF Plain, Shortening, Undoing
<1> QED
  BY <1>1, <1>2, <1>3, <1>4, <1>5 DEF Sure

(* What is cut off lies behind the new size.                               *)
LEMMA CutIs ==
    ASSUME AttrAssumption, Sure, pc = "shrink"
    PROVE  /\ Kept \in 0 .. Len(na.map) /\ call.new <= Kept * ClusterSize /\ Kept * ClusterSize \in Nat
           /\ Cut.map = SubSeq(na.map, 1, Kept) /\ ~Cut.res /\ Cut.size = na.size
           /\ Cut.init = na.init /\ Cut.alloc = Kept * ClusterSize /\ InOrder(Cut)
           /\ Shrinks => Cut.alloc # na.alloc
           /\ \A p \in Nat : Read(Cut, data, value, p) = IF p < Kept * ClusterSize THEN Reads(p) ELSE Zero
<1>1. /\ ~na.res /\ na \in Attr /\ na.map \in Runlists /\ Len(na.map) \in Nat
      /\ na.alloc = Len(na.map) * ClusterSize /\ na.size \in Nat /\ call.new \in Nat
      /\ call.new <= na.size /\ ClusterSize \in Nat \ {0} /\ na.init <= na.size /\ na.init \in Nat
  BY CuttingIs DEF Cutting, AttrAssumption
<1>2. na.size <= na.alloc
  <2>1. call.op = "truncate" => na.size <= na.alloc
    BY CuttingIs DEF Cutting, Good, Records
  <2>2. call.op = "undo" => na.size <= na.alloc
    BY CuttingIs DEF Cutting, Undoing
  <2> QED
    BY <2>1, <2>2, CuttingIs DEF Cutting
<1> DEFINE k == Kept
<1>3. /\ k \in Nat /\ call.new <= k * ClusterSize
      /\ \A n \in Nat : call.new <= n * ClusterSize => k <= n
  BY <1>1, ClustersIs DEF Kept
<1> HIDE DEF k
<1>4. k * ClusterSize \in Nat /\ Len(na.map) * ClusterSize \in Nat
  BY <1>1, <1>3, Order
<1>5. k \in 0 .. Len(na.map)
  <2>1. call.new <= Len(na.map) * ClusterSize
    BY <1>1, <1>2, <1>4
  <2> QED
    BY <1>1, <1>3, <2>1
<1>6. /\ Cut.map = SubSeq(na.map, 1, k) /\ ~Cut.res /\ Cut.size = na.size /\ Cut.init = na.init
      /\ Cut.alloc = k * ClusterSize
  BY <1>1 DEF Cut, Attr, k
<1>7. /\ SubSeq(na.map, 1, k) \in Seq(Lcn \union {Hole}) /\ Len(SubSeq(na.map, 1, k)) = k
      /\ \A i \in 1 .. k : SubSeq(na.map, 1, k)[i] = na.map[i]
  BY <1>1, <1>5, UsedCut DEF Runlists
<1>8. InOrder(Cut)
  <2>1. PICK m, x : m = SubSeq(na.map, 1, k) /\ x = k * ClusterSize
    OBVIOUS
  <2>2. m \in Seq(Lcn \union {Hole}) /\ x \in Nat
    BY <1>4, <1>7, <2>1
  <2>3. Cut = [na EXCEPT !.map = m, !.alloc = x]
    BY <2>1 DEF Cut, k
  <2>4. Cut \in Attr
    BY <1>1, <2>2, <2>3 DEF Attr
  <2> QED
    BY <1>1, <1>6, <1>7, <2>4 DEF InOrder, Room
<1>9. Shrinks => Cut.alloc # na.alloc
  <2> SUFFICES ASSUME Shrinks, k * ClusterSize = Len(na.map) * ClusterSize PROVE FALSE
    BY <1>1, <1>6
  <2>1. k <= Len(na.map) /\ Len(na.map) <= k
    BY <1>1, <1>3, <1>4, Order
  <2>2. k = Len(na.map)
    BY <1>1, <1>3, <2>1
  <2>3. na.alloc \div ClusterSize = Len(na.map)
    BY <1>1, DivisionOf
  <2> QED
    BY <2>2, <2>3 DEF Shrinks, k
<1>10. \A p \in Nat : Read(Cut, data, value, p) = IF p < k * ClusterSize THEN Reads(p) ELSE Zero
  <2> TAKE p \in Nat
  <2>1. /\ p < k * ClusterSize => Read(Cut, data, value, p) = Read(na, data, value, p)
        /\ ~(p < k * ClusterSize) => Read(Cut, data, value, p) = Zero
    <3> DEFINE a == na
               b == Cut
    <3>1. /\ ~a.res /\ ~b.res /\ a.map \in Runlists /\ b.map \in Runlists /\ Len(b.map) = k
          /\ \A i \in 1 .. k : b.map[i] = a.map[i]
          /\ k \in 0 .. Len(a.map) /\ b.size = a.size /\ b.init = a.init
      BY <1>1, <1>5, <1>6, <1>7 DEF Runlists
    <3> HIDE DEF a, b
    <3>2. /\ p < k * ClusterSize => Read(b, data, value, p) = Read(a, data, value, p)
          /\ ~(p < k * ClusterSize) => Read(b, data, value, p) = Zero
      BY <3>1, ReadCut
    <3> QED
      BY <3>2 DEF a, b
  <2> QED
    BY <2>1 DEF Reads
<1> QED
  BY <1>3, <1>4, <1>5, <1>6, <1>8, <1>9, <1>10 DEF k

(* A failed write's positions outside of its range, when the attribute is  *)
(* cut anywhere behind its old size.                                       *)
LEMMA UndoneIs ==
    ASSUME Undoing, Plain,
           \A p \in Nat : Reads(p)' = Reads(p) \/ (p >= call.old /\ Reads(p)' = Zero)
    PROVE  \A p \in Unspoilt : Outside(p) => Reads(p)' = call.before[p]
<1> SUFFICES ASSUME NEW p \in Unspoilt, Outside(p) PROVE Reads(p)' = call.before[p]
  OBVIOUS
<1>1. p \in Position /\ p \in Nat
  BY DEF Unspoilt, Position
<1>2. CASE Reads(p)' = Reads(p)
  BY <1>2 DEF Undoing, Same
<1>3. CASE p >= call.old /\ Reads(p)' = Zero
  <2>1. call.before[p] = Zero
    BY <1>1, <1>3 DEF Undoing, Begun
  <2> QED
    BY <1>3, <2>1
<1> QED
  BY <1>1, <1>2, <1>3

(* The clusters behind the new size are cut off.                           *)
LEMMA ShrinkStepKeeps ==
    ASSUME AttrAssumption, Sure, ShrinkWithin \/ Shrink
    PROVE  CInv'
<1>1. /\ pc = "shrink" /\ pc' = "shr_size" /\ UNCHANGED <<data, value, call, scars>>
      /\ (na' = Cut /\ Shrinks) \/ na' = na
  BY DEF ShrinkWithin, Shrink, volume, CutOff
<1>2. /\ Plain /\ InOrder(na) /\ ~na.res /\ call.new \in Nat /\ call.new <= na.size
      /\ call.op \in {"truncate", "undo"}
      /\ call.op = "truncate" => Shortening /\ Good
      /\ call.op = "undo" => Undoing
  BY <1>1, CuttingIs DEF Cutting
<1>3. SameCall /\ call'.spoilt = call.spoilt
  BY <1>1, <1>2, SameCallIs DEF Plain
<1>4. InOrder(na)' /\ ~na'.res /\ na'.size = na.size
  BY <1>1, <1>2, CutIs
<1>5. Plain'
  BY <1>1, <1>2, <1>3, <1>4 DEF Plain, Whole, SameCall, Cutting
<1>6. \A p \in Nat : Reads(p)' = Reads(p) \/ (p >= call.new /\ Reads(p)' = Zero /\ na'.alloc # na.alloc)
  <2> TAKE p \in Nat
  <2>1. CASE na' = na
    BY <1>1, <2>1, ReadsStay
  <2>2. CASE na' = Cut /\ Shrinks
    <3>1. Reads(p)' = Read(Cut, data, value, p)
      BY <1>1, <2>2 DEF Reads
    <3>2. Reads(p)' = IF p < Kept * ClusterSize THEN Reads(p) ELSE Zero
      BY <1>1, <3>1, CutIs
    <3>3. ~(p < Kept * ClusterSize) => p >= call.new
      <4>1. PICK x : x = Kept * ClusterSize
        OBVIOUS
      <4>2. x \in Nat /\ call.new <= x
        BY <1>1, <4>1, CutIs
      <4> QED
        BY <1>2, <4>1, <4>2
    <3>4. na'.alloc # na.alloc
      BY <1>1, <2>2, CutIs
    <3> QED
      BY <3>2, <3>3, <3>4
  <2> QED
    BY <1>1, <2>1, <2>2
<1>7. \A p \in Unspoilt' : p \in Unspoilt /\ p \in Nat
  BY <1>3 DEF Unspoilt, Position
<1>8. ASSUME call.op = "truncate" PROVE Shortening'
  <2>1. Shortening /\ call.old_alloc = na.alloc
    BY <1>1, <1>2, <1>8 DEF Good, Phases
  <2>2. \A p \in Unspoilt : Same(p)
    BY <2>1 DEF Shortening
  <2>3. ASSUME NEW p \in Unspoilt', p < call.new \/ na'.alloc = call.old_alloc PROVE Same(p)'
    <3>1. Reads(p)' = Reads(p)
      BY <1>2, <1>6, <1>7, <2>1, <2>3
    <3>2. Same(p)
      BY <1>7, <2>2
    <3> QED
      BY <1>1, <3>1, <3>2 DEF Same
  <2> QED
    BY <1>1, <1>2, <1>4, <1>8, <2>3 DEF Shortening
<1>9. ASSUME call.op = "undo" PROVE Undoing'
  <2>1. Undoing /\ call.new = call.old
    BY <1>2, <1>9 DEF Undoing
  <2>2. \A p \in Unspoilt : Outside(p) => Reads(p)' = call.before[p]
    BY <1>2, <1>6, <2>1, UndoneIs
  <2>3. End' = End /\ (\A p : Outside(p)' = Outside(p)) /\ (Begun => Begun')
    BY <1>3, BegunStays
  <2>4. \A p \in Unspoilt' : Outside(p)' => Same(p)'
    BY <1>1, <1>7, <2>2, <2>3 DEF Same
  <2> QED
    BY <1>1, <1>2, <1>4, <2>1, <2>3, <2>4 DEF Undoing, Cutting
<1> QED
  BY <1>1, <1>2, <1>5, <1>8, <1>9 DEF CInv, Sizing, Cutting, Writing, CallsKeepContent

(* A shrink ends: the sizes follow, or it has failed.                      *)
LEMMA ShrinkEndKeeps ==
    ASSUME AttrAssumption, Sure,
           ShrinkFails \/ ShrinkUpdateFails \/ ShrinkSize \/ MakeResident \/ ShrinkSizeFails
    PROVE  CInv'
<1>1. pc \in Cutting /\ data' = data
  BY DEF ShrinkFails, ShrinkUpdateFails, ShrinkSize, MakeResident, ShrinkSizeFails, Cutting, CutOff, volume
<1>2. /\ Plain /\ InOrder(na) /\ ~na.res /\ na \in Attr /\ call.new \in Nat /\ call.new <= na.size
      /\ na.size \in Nat /\ na.init \in Nat /\ na.init <= na.size
      /\ call.op \in {"truncate", "undo"}
      /\ call.op = "truncate" => Shortening /\ Good /\ scars = {}
      /\ call.op = "undo" => Undoing
  BY <1>1, CuttingIs
<1>3. PICK r \in {0, -1} : Resized(r)
  BY DEF ShrinkFails, ShrinkUpdateFails, ShrinkSize, MakeResident, ShrinkSizeFails
<1>4. value' = value \/ value' = NoValue
  BY DEF ShrinkFails, ShrinkUpdateFails, ShrinkSize, MakeResident, ShrinkSizeFails, CutOff
<1>5. Whole'
  BY <1>1, <1>2, <1>4 DEF Plain, Whole, NoValue
<1>6. ASSUME call.op = "truncate" /\ scars' \subseteq {"rollback"} =>
                \A p \in Unspoilt : p < na'.size => Reads(p)' = call.before[p],
             call.op = "undo" => \A p \in Nat : Reads(p)' = Reads(p) \/ (p >= call.old /\ Reads(p)' = Zero)
      PROVE  CInv'
  <2>1. call.op = "undo" => \A p \in Unspoilt : Outside(p) => Reads(p)' = call.before[p]
    BY <1>2, <1>6, UndoneIs
  <2>2. call.op # "write" /\ call.op \in {"truncate", "write", "undo"}
    BY <1>2
  <2> QED
    BY <1>2, <1>3, <1>5, <1>6, <2>1, <2>2, ResizedKeeps
<1>7. \A p \in Unspoilt : p \in Nat
  BY DEF Unspoilt, Position
<1>8. CASE ShrinkFails
  <2>1. pc = "shrink" /\ UNCHANGED <<na, data, value>>
    BY <1>8 DEF ShrinkFails
  <2>2. \A p : Reads(p)' = Reads(p)
    BY <2>1, ReadsStay
  <2>3. call.op = "truncate" => \A p \in Unspoilt : Reads(p)' = call.before[p]
    <3> SUFFICES ASSUME call.op = "truncate" PROVE \A p \in Unspoilt : Reads(p)' = call.before[p]
      OBVIOUS
    <3>1. Shortening /\ call.old_alloc = na.alloc
      BY <1>2, <2>1 DEF Good, Phases
    <3> QED
      BY <2>2, <3>1 DEF Shortening, Same
  <2> QED
    BY <1>6, <2>2, <2>3
<1>9. CASE ShrinkUpdateFails
  <2>1. pc = "shrink" /\ na' = Cut /\ UNCHANGED <<data, value>> /\ "not mapped" \in scars'
    BY <1>9 DEF ShrinkUpdateFails, CutOff
  <2>2. ~(scars' \subseteq {"rollback"})
    BY <2>1
  <2>3. \A p \in Nat : Reads(p)' = Reads(p) \/ (p >= call.new /\ Reads(p)' = Zero)
    <3> TAKE p \in Nat
    <3>1. Reads(p)' = Read(Cut, data, value, p)
      BY <2>1 DEF Reads
    <3>2. Reads(p)' = IF p < Kept * ClusterSize THEN Reads(p) ELSE Zero
      BY <2>1, <3>1, CutIs
    <3>3. ~(p < Kept * ClusterSize) => p >= call.new
      <4>1. PICK x : x = Kept * ClusterSize
        OBVIOUS
      <4>2. x \in Nat /\ call.new <= x
        BY <2>1, <4>1, CutIs
      <4> QED
        BY <1>2, <4>1, <4>2
    <3> QED
      BY <3>2, <3>3
  <2>4. call.op = "undo" => call.new = call.old
    BY <1>2 DEF Undoing
  <2> QED
    BY <1>6, <2>2, <2>3, <2>4
<1>10. CASE ShrinkSize
  <2>1. /\ na' = [na EXCEPT !.size = call.new, !.init = Lesser(na.init, call.new)]
        /\ UNCHANGED <<data, value>>
    BY <1>10 DEF ShrinkSize, volume
  <2>2. PICK n \in Nat, i \in Nat : n = call.new /\ i = Lesser(na.init, call.new)
    BY <1>2 DEF Lesser
  <2>3. /\ na'.res = na.res /\ na'.map = na.map /\ na'.size = n /\ na'.init = i
        /\ i <= n /\ i <= na.init /\ (i = na.init \/ i = n) /\ n <= na.size
    BY <1>2, <2>1, <2>2 DEF Attr, Lesser
  <2>4. \A p \in Nat : Reads(p)' = IF p < n THEN Reads(p) ELSE Zero
    <3> TAKE p \in Nat
    <3>1. /\ p < i /\ p < na.init => Read(na', data, value, p) = Read(na, data, value, p)
          /\ p >= na.init => Read(na, data, value, p) = Zero
          /\ p >= i => Read(na', data, value, p) = Zero
      BY <1>2, <2>3, ReadSized, SMTT(30)
    <3>2. p < n => (p < i <=> p < na.init)
      BY <1>2, <2>3
    <3> QED
      BY <1>2, <2>1, <2>3, <3>1, <3>2 DEF Reads
  <2>5. call.op = "truncate" => \A p \in Unspoilt : p < na'.size => Reads(p)' = call.before[p]
    BY <1>2, <1>7, <2>2, <2>3, <2>4 DEF Shortening, Same
  <2>6. call.op = "undo" => \A p \in Nat : Reads(p)' = Reads(p) \/ (p >= call.old /\ Reads(p)' = Zero)
    BY <1>2, <2>2, <2>4 DEF Undoing
  <2> QED
    BY <1>6, <2>5, <2>6
<1>11. CASE MakeResident
  <2>1. call.new = 0 /\ na' = Resident(0)
    BY <1>11 DEF MakeResident
  <2>2. na'.res /\ na'.size = 0
    BY <2>1 DEF Resident
  <2>3. \A p \in Nat : Reads(p)' = Zero /\ ~(p < na'.size) /\ p >= 0
    BY <2>2 DEF Reads, Read
  <2>4. call.op = "undo" => call.old = 0
    BY <1>2, <2>1 DEF Undoing
  <2> QED
    BY <1>6, <1>7, <2>3, <2>4
<1>12. CASE ShrinkSizeFails
  <2>1. /\ UNCHANGED <<na, data, value>>
        /\ scars' = IF na.alloc = call.old_alloc THEN scars ELSE scars \union {"not mapped"}
    BY <1>12 DEF ShrinkSizeFails, volume
  <2>2. \A p : Reads(p)' = Reads(p)
    BY <2>1, ReadsStay
  <2>3. call.op = "truncate" /\ scars' \subseteq {"rollback"} =>
           \A p \in Unspoilt : Reads(p)' = call.before[p]
    <3> SUFFICES ASSUME call.op = "truncate", scars' \subseteq {"rollback"}
                 PROVE  \A p \in Unspoilt : Reads(p)' = call.before[p]
      OBVIOUS
    <3>1. Shortening /\ call.old_alloc = na.alloc
      BY <1>2, <2>1
    <3> QED
      BY <2>2, <3>1 DEF Shortening, Same
  <2> QED
    BY <1>6, <2>2, <2>3
<1> QED
  BY <1>8, <1>9, <1>10, <1>11, <1>12
-----------------------------------------------------------------------------
(* A write goes on.                                                        *)
LEMMA GoesOn ==
    ASSUME Plain, Whole', SameCall, pc' \in {"data", "done", "err"}, call.op = "write", Begun,
           InOrder(na)', scars' = {}, End <= na'.size,
           call'.initialized => call.old_init <= na'.init,
           \A p \in Unspoilt' : Outside(p) => Reads(p)' = call.before[p],
           pc' = "data" => InLoop', pc' = "done" => Through'
    PROVE  CInv'
<1>1. Plain'
  BY DEF Plain, SameCall, Writing
<1>2. End' = End /\ (\A p : Outside(p)' = Outside(p)) /\ Begun'
  BY BegunStays
<1>3. \A p \in Unspoilt' : Outside(p)' => Same(p)'
  <2> TAKE p \in Unspoilt'
  <2>1. Same(p)' <=> Reads(p)' = call.before[p]
    BY DEF Same, SameCall
  <2> QED
    BY <1>2, <2>1
<1>4. call'.op = "write" /\ call'.old_init = call.old_init
  BY DEF SameCall
<1>5. Going'
  BY <1>2, <1>3, <1>4 DEF Going
<1> QED
  BY <1>1, <1>4, <1>5 DEF CInv, CallsKeepContent, Sizing, Cutting, Writing

(* Where the data of a write begins.                                       *)
LEMMA BeginsIs ==
    ASSUME AttrAssumption, Sure, pc = "init"
    PROVE  /\ Plain /\ Good /\ scars = {} /\ call.op = "write" /\ Begun /\ call.total = 0
           /\ ~call.initialized
           /\ \A p \in Unspoilt : p \in Nat /\ Reads(p) = call.before[p]
           /\ call.pos \in Nat /\ call.count \in Nat /\ End \in Nat /\ call.pos <= End
           /\ End <= na.size /\ na.size <= na.alloc /\ End = call.pos + call.count
           /\ na.res => na.init = na.size /\ na.size <= MaxResident
           /\ ~na.res => call.old_init = na.init
           /\ ~na.res => na.alloc = Len(na.map) * ClusterSize
<1>1. Plain /\ Growing /\ scars = {} /\ Good /\ call.op = "write"
  <2>1. Plain
    BY DEF Sure, CInv
  <2>2. scars = {}
    BY <2>1 DEF Plain
  <2>3. Good
    BY <2>2 DEF Sure
  <2>4. call.op = "write"
    BY <2>3 DEF Good, Phases
  <2> QED
    BY <2>1, <2>2, <2>3, <2>4 DEF Sure, CInv, Sizing
<1>2. Begun /\ call.total = 0
  BY <1>1 DEF Growing
<1>3. \A p \in Unspoilt : p \in Nat /\ Reads(p) = call.before[p]
  BY <1>1 DEF Growing, Same, Unspoilt, Position
<1>4. ~call.initialized /\ End <= na.size /\ (~na.res => call.old_init = na.init) /\ na.size <= na.alloc
  BY <1>1 DEF Good, Phases, Records, Sizing
<1>5. call.pos \in Nat /\ call.count \in Nat /\ End \in Nat /\ call.pos <= End /\ End = call.pos + call.count
  BY <1>1 DEF Plain, End
<1>6. na.res => na.init = na.size /\ na.size <= MaxResident
  BY <1>1 DEF Plain, InOrder
<1>7. ~na.res => na.alloc = Len(na.map) * ClusterSize
  BY <1>1 DEF Plain, InOrder, Room
<1> QED
  BY <1>1, <1>2, <1>3, <1>4, <1>5, <1>6, <1>7

(* What is zeroed in front of a write lies in the runlist and where zero   *)
(* is read already; also where a short write lets the zeroes run on.       *)
Gaps(ps) == ps \subseteq Nat /\ Inside(na.map, ps) /\ \A q \in ps : q >= na.init
LEMMA GapIs ==
    ASSUME AttrAssumption, Sure, pc = "init", End > na.init,
           NEW end \in Nat, end <= na.init \/ end <= call.pos
    PROVE  /\ Gaps(na.init .. end - 1)
           /\ \A n \in ShortAt(end) :
                 Gaps(((na.init .. end - 1) \ Left(end, n)) \union Beyond(end, n))
<1>1. /\ na.map \in Runlists /\ Len(na.map) \in Nat /\ na.size \in Nat /\ na.init \in Nat
      /\ End \in Nat /\ call.pos \in Nat /\ call.pos <= End /\ End <= na.size
      /\ na.size <= Len(na.map) * ClusterSize /\ ~na.res
  BY BeginsIs, Shape DEF Good, Mine, Plain, Runlists
<1>2. PICK x \in Nat : x = Len(na.map) * ClusterSize
  BY <1>1, Order DEF AttrAssumption
<1>3. end <= na.init \/ end <= x
  BY <1>1, <1>2
<1>4. Gaps(na.init .. end - 1)
  <2>1. \A q \in na.init .. end - 1 : q \in Nat /\ q < x /\ q >= na.init
    BY <1>1, <1>3
  <2> QED
    BY <1>2, <2>1 DEF Gaps, Inside, Within
<1>5. ASSUME NEW n \in ShortAt(end)
      PROVE  Gaps(((na.init .. end - 1) \ Left(end, n)) \union Beyond(end, n))
  <2>1. n \in Nat /\ n < x /\ na.init <= end
    BY <1>1, <1>3, <1>5 DEF ShortAt
  <2>2. NextBehind(n) \in Nat
    BY <1>1, <1>2, <2>1, RunBehindIs DEF NextBehind
  <2>3. PICK m \in Nat : m = NextBehind(n)
    BY <2>2
  <2>4. \A q \in Greater(end, m) .. Lesser(end + m - n, x) - 1 : q \in Nat /\ q < x /\ q >= na.init
    BY <1>1, <2>1 DEF Greater, Lesser
  <2>5. \A q \in Beyond(end, n) : q \in Nat /\ q < x /\ q >= na.init
    BY <1>2, <2>3, <2>4 DEF Beyond
  <2> QED
    BY <1>2, <1>4, <2>5 DEF Gaps, Inside, Within
<1> QED
  BY <1>4, <1>5

LEMMA GapTriedIs ==
    ASSUME AttrAssumption, Sure, pc = "init", End > na.init,
           NEW end \in Nat, end <= na.init \/ end <= call.pos, data' \in GapTried(end)
    PROVE  \E ps : Gaps(ps) /\ data' = Written(na.map, ps, Zero)
<1>1. CASE data' = Gap(end)
  BY <1>1, GapIs DEF Gap
<1>2. CASE \E n \in ShortAt(end) : data' = GapShort(end, n)
  BY <1>2, GapIs DEF GapShort
<1> QED
  BY <1>1, <1>2 DEF GapTried

(* All is read as before, also outside of the range when the initialized   *)
(* size goes up to its end, but for what was not zeroed.                   *)
LEMMA GapReads ==
    ASSUME AttrAssumption, Sure, pc = "init", End > na.init,
           NEW ps, Gaps(ps), data' = Written(na.map, ps, Zero), value' = value,
           NEW p \in Nat
    PROVE  /\ na' = na => Reads(p)' = Reads(p)
           /\ /\ na' = [na EXCEPT !.init = End] /\ Outside(p)
              /\ na.init <= p /\ p < call.pos => p \in ps
              => Reads(p)' = Reads(p)
<1>1. /\ Plain /\ ~na.res /\ na \in Attr /\ na.map \in Runlists /\ Len(na.map) \in Nat
      /\ na.size \in Nat /\ na.init \in Nat /\ na.init <= na.size
      /\ NoneTwice(na.map) /\ End \in Nat /\ call.pos \in Nat /\ call.pos <= End /\ End <= na.size
      /\ na.size <= Len(na.map) * ClusterSize /\ Whole /\ End = call.pos + call.count
  BY BeginsIs, Shape DEF Good, Mine, Plain, Runlists
<1> DEFINE d == Written(na.map, ps, Zero)
<1>2. Inside(na.map, ps)
  BY DEF Gaps
<1>3. data' = d
  OBVIOUS
<1>4. /\ p \notin ps => Read(na, d, value, p) = Read(na, data, value, p)
      /\ p \in ps => Read(na, d, value, p) = Zero
  <2> DEFINE a == na
             m == na.map
  <2>1. ~a.res /\ a.map = m /\ m \in Runlists /\ NoneTwice(m) /\ Whole /\ Inside(m, ps)
    BY <1>1, <1>2
  <2> HIDE DEF a, m
  <2>2. p \notin ps => Read(a, Written(m, ps, Zero), value, p) = Read(a, data, value, p)
    BY <2>1, ReadWritten
  <2>3. p \in ps => Read(a, Written(m, ps, Zero), value, p) = Zero
    BY <2>1, ReadWritten
  <2> QED
    BY <2>2, <2>3 DEF a, m
<1>5. p >= na.init => Read(na, data, value, p) = Zero /\ Read(na, d, value, p) = Zero
  BY <1>1 DEF Read
<1>6. p \in ps => p >= na.init
  BY DEF Gaps
<1> HIDE DEF d
<1>7. ASSUME na' = na PROVE Reads(p)' = Reads(p)
  <2>1. Reads(p)' = Read(na, d, value, p)
    BY <1>3, <1>7 DEF Reads
  <2> QED
    BY <1>4, <1>5, <1>6, <2>1 DEF Reads
<1>8. ASSUME na' = [na EXCEPT !.init = End], Outside(p),
             na.init <= p /\ p < call.pos => p \in ps
      PROVE  Reads(p)' = Reads(p)
  <2>1. na'.res = na.res /\ na'.map = na.map /\ na'.size = na.size /\ na'.init = End
    BY <1>1, <1>8 DEF Attr
  <2>2. Reads(p)' = Read(na', d, value, p)
    BY <1>3 DEF Reads
  <2>3. p < call.pos \/ p >= End
    BY <1>1, <1>8 DEF Outside
  <2>4. CASE p >= End
    <3>1. Read(na', d, value, p) = Zero
      BY <1>1, <2>1, <2>4 DEF Read
    <3>2. p >= na.init
      BY <1>1, <2>4
    <3> QED
      BY <1>5, <2>2, <3>1, <3>2 DEF Reads
  <2>5. CASE p < call.pos /\ p < na.init
    <3>1. p < End /\ p \notin ps
      BY <1>1, <1>6, <2>5
    <3>2. Read(na', d, value, p) = Read(na, d, value, p)
      BY <1>1, <2>1, <2>5, <3>1 DEF Read, IsHole, Address
    <3> QED
      BY <1>4, <2>2, <3>1, <3>2 DEF Reads
  <2>6. CASE p < call.pos /\ ~(p < na.init)
    <3>1. p \in ps /\ p < End /\ p >= na.init
      BY <1>1, <1>8, <2>6
    <3>2. Read(na', d, value, p) = Zero
      <4>1. Read(na', d, value, p) = IF p < Len(na.map) * ClusterSize /\ ~IsHole(na.map, p)
                                     THEN d[Address(na.map, p)] ELSE Zero
        BY <1>1, <2>1, <3>1 DEF Read, IsHole, Address
      <4>2. ASSUME p < Len(na.map) * ClusterSize, ~IsHole(na.map, p)
            PROVE  d[Address(na.map, p)] = Zero
        <5> DEFINE m == na.map
        <5>1. /\ m \in Runlists /\ NoneTwice(m) /\ Whole /\ Inside(m, ps)
              /\ Within(m, p) /\ ~IsHole(m, p)
          BY <1>1, <1>2, <4>2 DEF Within
        <5> HIDE DEF m
        <5>2. Written(m, ps, Zero)[Address(m, p)] = IF p \in ps THEN Zero ELSE data[Address(m, p)]
          BY <5>1, WrittenIs
        <5> QED
          BY <3>1, <5>2 DEF m, d
      <4> QED
        BY <4>1, <4>2
    <3> QED
      BY <1>5, <2>2, <3>1, <3>2 DEF Reads
  <2> QED
    BY <1>1, <2>3, <2>4, <2>5, <2>6
<1> QED
  BY <1>7, <1>8

(* What is written leaves clusters with a content.                         *)
LEMMA WholeWritten ==
    ASSUME Whole, NEW m, NEW ps, NEW v, data' = Written(m, ps, v), value' = value
    PROVE  Whole'
<1> DEFINE at == {Address(m, p) : p \in {q \in ps : ~IsHole(m, q)}}
           F(a) == IF a \in at THEN v ELSE data[a]
<1>1. data' = [a \in DOMAIN data |-> F(a)]
  BY DEF Written
<1> HIDE DEF F
<1>2. DOMAIN data = Addresses
  BY DEF Whole
<1> QED
  BY <1>1, <1>2 DEF Whole

(* A call that comes to its data.                                          *)
LEMMA StartOfDataIs ==
    ASSUME Fields, call' = StartOfData \/ call' = [StartOfData EXCEPT !.initialized = TRUE]
    PROVE  /\ SameCall /\ call'.spoilt = call.spoilt /\ call'.total = call.total
           /\ call'.at = call.pos /\ call'.left = call.count
           /\ call'.initialized = call.initialized \/ call'.initialized = TRUE
  BY ZenonT(60) DEF StartOfData, SameCall, Fields, IsCall

(* A write comes to its data, or fails in front of it.                     *)
LEMMA WriteStartKeeps ==
    ASSUME AttrAssumption, Sure,
           \/ WriteValueFails \/ InitNotNeeded \/ Initialize \/ InitializeShort
           \/ InitializeFails \/ InitializeWriteFails
    PROVE  CInv'
<1>1. pc = "init"
  BY DEF WriteValueFails, InitNotNeeded, Initialize, InitializeShort, RaiseInit,
         InitializeFails, InitializeWriteFails
<1>2. /\ Plain /\ Good /\ scars = {} /\ call.op = "write" /\ Begun /\ call.total = 0
      /\ ~call.initialized
      /\ \A p \in Unspoilt : p \in Nat /\ Reads(p) = call.before[p]
      /\ call.pos \in Nat /\ call.count \in Nat /\ End \in Nat /\ call.pos <= End
      /\ End <= na.size /\ End = call.pos + call.count
      /\ ~na.res => call.old_init = na.init
      /\ na.res => na.init = na.size /\ na.size <= MaxResident
  BY <1>1, BeginsIs
<1>3. Fields /\ Whole /\ InOrder(na) /\ na \in Attr /\ na.init \in Nat
  BY <1>2, Shape DEF Plain
<1>4. scars' = {} /\ (data' = data \/ value' = value)
  BY <1>2 DEF WriteValueFails, InitNotNeeded, Initialize, InitializeShort, RaiseInit,
         InitializeFails, InitializeWriteFails, volume
<1>5. CASE WriteValueFails
  <2>1. /\ na.res /\ UNCHANGED <<data, na, call>> /\ pc' = "err" /\ value' \in {value, ValueWritten}
    BY <1>5 DEF WriteValueFails, volume
  <2>2. SameCall /\ call'.spoilt = call.spoilt
    BY <1>3, <2>1, SameCallIs
  <2>3. DOMAIN value = 0 .. MaxResident - 1
    BY <1>3 DEF Whole
  <2>4. Whole'
    BY <1>3, <2>1, <2>3 DEF Whole, ValueWritten
  <2>5. \A p \in Unspoilt' : Outside(p) => Reads(p)' = call.before[p]
    <3> SUFFICES ASSUME NEW p \in Unspoilt', Outside(p) PROVE Reads(p)' = call.before[p]
      OBVIOUS
    <3>1. p \in Unspoilt /\ p \in Nat
      BY <1>2, <2>2 DEF Unspoilt
    <3>2. p < na.size => p \in DOMAIN value
      BY <1>2, <1>3, <2>1, <2>3, <3>1 DEF Attr, AttrAssumption, MaxSize
    <3>3. p < na.size => value'[p] = value[p]
      BY <2>1, <3>2 DEF ValueWritten, Outside
    <3>4. Reads(p)' = Reads(p)
      BY <2>1, <3>3 DEF Reads, Read
    <3> QED
      BY <1>2, <3>1, <3>4
  <2>6. InOrder(na)' /\ End <= na'.size /\ ~call'.initialized
    BY <1>2, <1>3, <2>1
  <2> QED
    BY <1>2, <1>4, <2>1, <2>2, <2>4, <2>5, <2>6, GoesOn
<1>6. ASSUME na' = na \/ (na' = [na EXCEPT !.init = End] /\ na.init < End), End <= na'.init \/ pc' = "err",
             SameCall, call.spoilt \subseteq call'.spoilt, pc' \in {"data", "err"}, Whole',
             \A p \in Nat : Outside(p) /\ p \notin call'.spoilt => Reads(p)' = Reads(p),
             call'.initialized => na.init < End,
             pc' = "data" => call'.at = call.pos /\ call'.left = call.count /\ call'.total = 0
      PROVE  CInv'
  <2>1. InOrder(na)' /\ End <= na'.size /\ na'.init \in Nat
        /\ (na' = na \/ na'.init = End)
    <3>1. CASE na' = na
      BY <1>2, <1>3, <3>1
    <3>2. CASE na' = [na EXCEPT !.init = End] /\ na.init < End
      <4>1. ~na.res
        BY <1>2, <1>3, <3>2 DEF Attr
      <4>2. /\ na'.res = na.res /\ na'.map = na.map /\ na'.alloc = na.alloc /\ na'.size = na.size
            /\ na'.init = End /\ na' \in Attr
        BY <1>2, <1>3, <3>2 DEF Attr
      <4>3. na'.alloc = Room(na')
        BY <1>3, <4>1, <4>2 DEF InOrder, Room
      <4> QED
        BY <1>2, <1>3, <4>1, <4>2, <4>3 DEF InOrder
    <3> QED
      BY <1>6, <3>1, <3>2
  <2>2. \A p \in Unspoilt' : Outside(p) => Reads(p)' = call.before[p]
    BY <1>2, <1>6 DEF Unspoilt
  <2>3. call'.initialized => call.old_init <= na'.init
    BY <1>2, <1>3, <1>6, <2>1 DEF Attr, InOrder
  <2>4. pc' = "data" => InLoop'
    <3> SUFFICES ASSUME pc' = "data" PROVE InLoop'
      OBVIOUS
    <3>1. /\ call'.at = call.pos /\ call'.left = call.count /\ call'.total = 0
          /\ call'.pos = call.pos /\ call'.count = call.count
      BY <1>6 DEF SameCall
    <3>2. End' = End /\ (\A p : Outside(p)' = Outside(p)) /\ \A p \in Unspoilt' : p \in Nat
      BY <1>6, BegunStays DEF Unspoilt, Position
    <3>3. \A p \in Unspoilt' : p < End' \/ p >= call'.at + call'.left
      BY <1>2, <3>1, <3>2
    <3>4. \A p \in Unspoilt' : ~Outside(p)' => ~(p < call'.at) /\ ~(call'.left = 0)
      BY <1>2, <3>1, <3>2 DEF Outside
    <3>5. End' <= na'.init
      BY <1>6, <3>2
    <3> QED
      BY <1>2, <3>1, <3>2, <3>3, <3>4, <3>5 DEF InLoop
  <2>5. pc' \in {"data", "done", "err"} /\ pc' # "done"
    BY <1>6
  <2> QED
    BY <1>2, <1>4, <1>6, <2>1, <2>2, <2>3, <2>4, <2>5, GoesOn
<1>7. CASE InitNotNeeded
  <2>1. /\ UNCHANGED <<data, na, value>> /\ pc' = "data" /\ call' = StartOfData /\ End <= na.init
    BY <1>7 DEF InitNotNeeded, volume
  <2>2. /\ SameCall /\ call'.spoilt = call.spoilt /\ call'.at = call.pos /\ call'.left = call.count
        /\ call'.total = 0
    BY <1>2, <1>3, <2>1, StartOfDataIs
  <2>3. ~call'.initialized
    BY <1>2, <1>3, <2>1 DEF StartOfData, Fields, IsCall
  <2>4. \A p \in Nat : Outside(p) => Reads(p)' = Reads(p)
    BY <2>1, ReadsStay
  <2>5. Whole'
    BY <1>3, <2>1 DEF Whole
  <2> QED
    BY <1>6, <2>1, <2>2, <2>3, <2>4, <2>5
<1>8. CASE Initialize \/ InitializeShort
  <2>1. /\ value' = value /\ na' = [na EXCEPT !.init = End] /\ pc' = "data" /\ End > na.init
    BY <1>8 DEF Initialize, InitializeShort, RaiseInit
  <2>7. /\ Gaps(na.init .. call.pos - 1)
        /\ \A n \in ShortAt(call.pos) :
              Gaps(((na.init .. call.pos - 1) \ Left(call.pos, n)) \union Beyond(call.pos, n))
    <3>1. PICK e \in Nat : e = call.pos
      BY <1>2
    <3>2. e <= na.init \/ e <= call.pos
      BY <3>1
    <3>3. /\ Gaps(na.init .. e - 1)
          /\ \A n \in ShortAt(e) :
                Gaps(((na.init .. e - 1) \ Left(e, n)) \union Beyond(e, n))
      BY <1>1, <2>1, <3>2, GapIs
    <3> QED
      BY <3>1, <3>3
  <2>2. /\ SameCall /\ call.spoilt \subseteq call'.spoilt /\ call'.at = call.pos
        /\ call'.left = call.count /\ call'.total = 0
        /\ \E ps : /\ Gaps(ps) /\ data' = Written(na.map, ps, Zero)
                   /\ \A p \in Nat \ call'.spoilt : na.init <= p /\ p < call.pos => p \in ps
    <3>1. CASE Initialize
      <4>1. call' = [StartOfData EXCEPT !.initialized = TRUE] /\ data' = Gap(call.pos)
        BY <3>1 DEF Initialize
      <4>2. Gaps(na.init .. call.pos - 1)
        BY <2>7
      <4>3. \A p \in Nat : na.init <= p /\ p < call.pos => p \in na.init .. call.pos - 1
        BY <1>2, <1>3
      <4>4. data' = Written(na.map, na.init .. call.pos - 1, Zero)
        BY <4>1 DEF Gap
      <4> QED
        BY <1>2, <1>3, <4>1, <4>2, <4>3, <4>4, StartOfDataIs
    <3>2. CASE InitializeShort
      <4>1. PICK n \in ShortAt(call.pos) :
               /\ data' = GapShort(call.pos, n)
               /\ call' = [StartOfData EXCEPT !.initialized = TRUE,
                                              !.spoilt = @ \union Left(call.pos, n)]
        BY <3>2 DEF InitializeShort
      <4> DEFINE ps == ((na.init .. call.pos - 1) \ Left(call.pos, n)) \union Beyond(call.pos, n)
                 left == Left(call.pos, n)
      <4>2. Gaps(ps)
        BY <2>7
      <4>3. data' = Written(na.map, ps, Zero)
        BY <4>1 DEF GapShort
      <4>4. call' = [StartOfData EXCEPT !.initialized = TRUE, !.spoilt = StartOfData.spoilt \union left]
        BY <4>1
      <4>5. /\ SameCall /\ call'.spoilt = call.spoilt \union left /\ call'.at = call.pos
            /\ call'.left = call.count /\ call'.total = call.total
        <5> HIDE DEF left
        <5>1. StartOfData.spoilt = call.spoilt
          BY <1>3 DEF StartOfData, Fields, IsCall
        <5> QED
          BY <1>3, <4>4, <5>1, ZenonT(60) DEF StartOfData, SameCall, Fields, IsCall
      <4>6. \A p \in Nat \ left : na.init <= p /\ p < call.pos => p \in ps
        <5>1. \A p \in Nat : na.init <= p /\ p < call.pos => p \in na.init .. call.pos - 1
          BY <1>2, <1>3
        <5> QED
          BY <5>1
      <4> HIDE DEF ps, left
      <4> QED
        BY <1>2, <4>2, <4>3, <4>5, <4>6
    <3> QED
      BY <1>8, <3>1, <3>2
  <2>6. PICK ps : /\ Gaps(ps) /\ data' = Written(na.map, ps, Zero)
                  /\ \A p \in Nat \ call'.spoilt : na.init <= p /\ p < call.pos => p \in ps
    BY <2>2
  <2>3. \A p \in Nat : Outside(p) /\ p \notin call'.spoilt => Reads(p)' = Reads(p)
    <3> TAKE p \in Nat
    <3> QED
      BY <1>1, <2>1, <2>6, GapReads
  <2>4. Whole'
    BY <1>3, <2>1, <2>6, WholeWritten
  <2>5. na'.init = End /\ na.init < End
    BY <1>2, <1>3, <2>1 DEF Attr
  <2> QED
    BY <1>2, <1>6, <2>1, <2>2, <2>3, <2>4, <2>5
<1>9. CASE InitializeFails \/ InitializeWriteFails
  <2>1. /\ value' = value /\ na' = na /\ call' = call /\ pc' = "err" /\ End > na.init
        /\ \E e \in Nat : (e <= na.init \/ e <= call.pos) /\ data' \in GapTried(e)
    <3>1. CASE InitializeFails
      <4>1. PICK e \in na.init .. Greater(na.init, call.pos) : data' \in GapTried(e)
        BY <3>1 DEF InitializeFails
      <4>2. e \in Nat /\ (e <= na.init \/ e <= call.pos)
        BY <1>2, <1>3 DEF Greater
      <4> QED
        BY <3>1, <4>1, <4>2 DEF InitializeFails
    <3>2. CASE InitializeWriteFails
      BY <1>2, <3>2 DEF InitializeWriteFails
    <3> QED
      BY <1>9, <3>1, <3>2
  <2>2. SameCall /\ call'.spoilt = call.spoilt
    BY <1>3, <2>1, SameCallIs
  <2>3. PICK ps : Gaps(ps) /\ data' = Written(na.map, ps, Zero)
    BY <1>1, <2>1, GapTriedIs
  <2>4. \A p \in Nat : Outside(p) => Reads(p)' = Reads(p)
    <3> TAKE p \in Nat
    <3> QED
      BY <1>1, <2>1, <2>3, GapReads
  <2>5. Whole'
    BY <1>3, <2>1, <2>3, WholeWritten
  <2>6. ~call'.initialized
    BY <1>2, <2>1
  <2> QED
    BY <1>6, <2>1, <2>2, <2>4, <2>5, <2>6
<1> QED
  BY <1>5, <1>7, <1>8, <1>9

(* A resident value is written where the range says.                       *)
LEMMA WriteValueKeeps ==
    ASSUME AttrAssumption, Sure, WriteValue
    PROVE  CInv'
<1>1. /\ pc = "init" /\ na.res /\ value' = ValueWritten /\ pc' = "ret"
      /\ call' = [call EXCEPT !.ret = call.count] /\ UNCHANGED <<data, na, scars>>
  BY DEF WriteValue, Ends, volume
<1>2. /\ Plain /\ Good /\ call.op = "write"
      /\ \A p \in Unspoilt : p \in Nat /\ Reads(p) = call.before[p]
      /\ call.pos \in Nat /\ call.count \in Nat /\ End \in Nat /\ call.pos <= End
      /\ End <= na.size /\ End = call.pos + call.count /\ na.size <= MaxResident
  BY <1>1, BeginsIs
<1>3. Fields /\ Whole /\ na \in Attr /\ DOMAIN value = 0 .. MaxResident - 1 /\ MaxResident \in Int
  BY <1>2, Shape DEF Plain, Whole, AttrAssumption, MaxSize
<1>4. SameCall /\ call'.spoilt = call.spoilt /\ call'.ret = call.count
  BY <1>1, <1>3, SameCallIs
<1>5. Whole'
  BY <1>1, <1>3 DEF Whole, ValueWritten
<1>6. Plain'
  BY <1>1, <1>2, <1>4, <1>5 DEF Plain, SameCall
<1>7. \A p \in Unspoilt : p \in Nat /\ (p < na.size => p \in DOMAIN value)
  BY <1>2, <1>3 DEF Attr
<1>8. /\ \A p \in Unspoilt : Outside(p) => Reads(p)' = call.before[p]
      /\ \A p \in Unspoilt : ~Outside(p) => Reads(p)' = call.val
  <2>1. ASSUME NEW p \in Unspoilt, Outside(p) PROVE Reads(p)' = call.before[p]
    <3>1. p < na.size => value'[p] = value[p]
      BY <1>1, <1>7, <2>1 DEF ValueWritten, Outside
    <3>2. Reads(p)' = Reads(p)
      BY <1>1, <3>1 DEF Reads, Read
    <3> QED
      BY <1>2, <3>2
  <2>2. ASSUME NEW p \in Unspoilt, ~Outside(p) PROVE Reads(p)' = call.val
    <3>1. p < na.size
      BY <1>2, <1>3, <1>7, <2>2 DEF Outside, Attr
    <3>2. value'[p] = call.val
      BY <1>1, <1>7, <2>2, <3>1 DEF ValueWritten, Outside
    <3> QED
      BY <1>1, <3>1, <3>2 DEF Reads, Read
  <2> QED
    BY <2>1, <2>2
<1>9. (\A p : Outside(p)' = Outside(p)) /\ Unspoilt' = Unspoilt
  BY <1>4, BegunStays DEF Unspoilt
<1>10. \A p \in Unspoilt' : Outside(p)' => Same(p)'
  BY <1>4, <1>8, <1>9 DEF Same, SameCall
<1>11. \A p \in Unspoilt' : ~Outside(p)' => Reads(p)' = call'.val
  BY <1>4, <1>8, <1>9 DEF SameCall
<1>12. call'.op = "write"
  BY <1>2, <1>4 DEF SameCall
<1>13. CallsKeepContent'
  BY <1>10, <1>11, <1>12, WriteReturns
<1> QED
  BY <1>1, <1>6, <1>13 DEF CInv, Sizing, Cutting, Writing
-----------------------------------------------------------------------------
(* The loop of a write.                                                    *)
LEMMA LoopIs ==
    ASSUME AttrAssumption, Sure, pc = "data"
    PROVE  /\ Plain /\ Good /\ Going /\ InLoop /\ scars = {} /\ ~na.res /\ InOrder(na)
           /\ call.op = "write" /\ Begun /\ NoneTwice(na.map)
           /\ na \in Attr /\ na.map \in Runlists /\ Len(na.map) \in Nat
           /\ na.size \in Nat /\ na.init \in Nat /\ na.init <= na.size
           /\ call.pos \in Nat /\ call.count \in Nat /\ End \in Nat /\ End = call.pos + call.count
           /\ End <= na.size /\ End <= na.init
           /\ call.initialized => call.old_init <= na.init
           /\ \A p \in Unspoilt : p \in Nat /\ (Outside(p) => Reads(p) = call.before[p])
<1>1. Plain /\ Going /\ InLoop /\ scars = {} /\ Good
  <2>1. Plain
    BY DEF Sure, CInv
  <2>2. scars = {}
    BY <2>1 DEF Plain
  <2> QED
    BY <2>1, <2>2 DEF Sure, CInv, Writing
<1>2. ~na.res /\ NoneTwice(na.map)
  BY <1>1 DEF Good, Phases, Mine
<1>3. /\ na \in Attr /\ na.map \in Runlists /\ Len(na.map) \in Nat /\ InOrder(na)
      /\ na.size \in Nat /\ na.init \in Nat /\ na.init <= na.size
  BY <1>1, Shape DEF Runlists
<1>4. call.pos \in Nat /\ call.count \in Nat /\ End \in Nat /\ End = call.pos + call.count
  BY <1>1 DEF Plain, End
<1>5. call.op = "write" /\ Begun /\ End <= na.size /\ End <= na.init
  BY <1>1 DEF Going, InLoop
<1>6. call.initialized => call.old_init <= na.init
  BY <1>1 DEF Going
<1>7. \A p \in Unspoilt : p \in Nat /\ (Outside(p) => Reads(p) = call.before[p])
  BY <1>1 DEF Going, Same, Unspoilt, Position
<1> QED
  BY <1>1, <1>2, <1>3, <1>4, <1>5, <1>6, <1>7

(* A run is all hole or has none.                                          *)
LEMMA RunKind ==
    ASSUME AttrAssumption, InOrder(na), ~na.res, call.at \in Nat, call.left \in Nat \ {0}, InRunlist,
           NEW q \in Nat, call.at <= q, q < NextRun
    PROVE  Within(na.map, q) /\ (IsHole(na.map, q) <=> IsHole(na.map, call.at))
<1> DEFINE v == Vcn
           r == RunEnd
<1>1. /\ v \in Nat /\ r \in Nat /\ v <= r /\ r < Len(na.map) /\ NextRun = (r + 1) * ClusterSize
      /\ \A j \in v .. r - 1 : Joined(j)
  BY RunIs DEF NextRun
<1>2. v = call.at \div ClusterSize /\ na.map \in Runlists /\ Len(na.map) \in Nat
  BY DEF Vcn, InOrder, Attr, Runlists
<1> HIDE DEF v, r
<1>3. \A i \in v .. r : na.map[i + 1] = Hole <=> na.map[v + 1] = Hole
  <2> DEFINE B == {i \in v .. r : ~(na.map[i + 1] = Hole <=> na.map[v + 1] = Hole)}
  <2> SUFFICES ASSUME B # {} PROVE FALSE
    OBVIOUS
  <2>1. B \in SUBSET Nat
    BY <1>1
  <2>2. PICK m \in B : \A k \in B : m <= k
    BY <2>1, SmallestExists
  <2>3. m \in v .. r /\ m # v /\ ~(na.map[m + 1] = Hole <=> na.map[v + 1] = Hole)
    BY <2>2
  <2>4. m - 1 \in v .. r - 1 /\ m - 1 \in v .. r /\ m - 1 < m
    BY <1>1, <2>3
  <2>5. ~(m - 1 \in B)
    <3>1. ~(m <= m - 1)
      BY <1>1, <2>3
    <3> HIDE DEF B
    <3> QED
      BY <2>2, <3>1
  <2>6. na.map[(m - 1) + 1] = Hole <=> na.map[v + 1] = Hole
    BY <2>4, <2>5
  <2>7. Joined(m - 1) /\ (m - 1) + 2 = m + 1
    BY <1>1, <2>3, <2>4
  <2>8. m + 1 \in DOMAIN na.map /\ (m - 1) + 1 \in DOMAIN na.map
    <3>1. DOMAIN na.map = 1 .. Len(na.map)
      BY <1>2 DEF Runlists
    <3> QED
      BY <1>1, <1>2, <2>3, <3>1
  <2>9. PICK x, y : x = na.map[(m - 1) + 1] /\ y = na.map[m + 1]
    OBVIOUS
  <2>10. x \in Lcn \union {Hole} /\ y \in Lcn \union {Hole}
    BY <1>2, <2>8, <2>9 DEF Runlists
  <2>11. IF x = Hole THEN y = Hole ELSE y = x + 1
    BY <2>7, <2>9 DEF Joined
  <2>12. x = Hole <=> y = Hole
    BY <2>10, <2>11 DEF Lcn, Hole
  <2> QED
    BY <2>3, <2>6, <2>9, <2>12
<1>4. PICK i : i = q \div ClusterSize
  OBVIOUS
<1>5. i \in Nat /\ i < r + 1
  <2>1. r + 1 \in Nat
    BY <1>1
  <2> QED
    BY <1>1, <1>4, <2>1, VcnIs
<1>6. v <= i
  <2>1. i + 1 \in Nat /\ q < (i + 1) * ClusterSize
    <3>1. ClusterSize \in Nat \ {0}
      BY DEF AttrAssumption
    <3>2. i * ClusterSize <= q /\ q < i * ClusterSize + ClusterSize
      BY <1>4, <3>1, Division
    <3>3. (i + 1) * ClusterSize = i * ClusterSize + ClusterSize
      BY <1>5, <3>1, Order
    <3> QED
      BY <1>5, <3>2, <3>3
  <2>2. call.at < (i + 1) * ClusterSize
    <3>1. PICK x : x = (i + 1) * ClusterSize
      OBVIOUS
    <3>2. x \in Nat
      BY <2>1, <3>1, Order DEF AttrAssumption
    <3> QED
      BY <2>1, <3>1, <3>2
  <2>3. v < i + 1
    BY <1>2, <2>1, <2>2, VcnIs
  <2> QED
    BY <1>1, <1>5, <2>3
<1>7. i \in v .. r /\ i < Len(na.map)
  BY <1>1, <1>2, <1>5, <1>6
<1>8. Within(na.map, q)
  BY <1>2, <1>4, <1>7, VcnIs DEF Within
<1>9. IsHole(na.map, q) <=> IsHole(na.map, call.at)
  <2>1. na.map[i + 1] = Hole <=> na.map[v + 1] = Hole
    BY <1>3, <1>7
  <2> QED
    BY <1>2, <1>4, <2>1 DEF IsHole
<1> QED
  BY <1>8, <1>9

(* What a round of the loop does to what is read: n positions are written, *)
(* or are zero already.                                                    *)
LEMMA RoundReads ==
    ASSUME AttrAssumption, Sure, pc = "data", call.left > 0, InRunlist, na' = na, value' = value,
           NEW n \in Nat, n <= ToWrite,
           \/ data' = Written(na.map, call.at .. call.at + n - 1, call.val) /\ ~IsHole(na.map, call.at)
           \/ data' = data /\ IsHole(na.map, call.at) /\ call.val = Zero,
           NEW p \in Nat
    PROVE  /\ p \notin call.at .. call.at + n - 1 => Reads(p)' = Reads(p)
           /\ p \in call.at .. call.at + n - 1 /\ p < End => Reads(p)' = call.val
<1> DEFINE ps == call.at .. call.at + n - 1
<1>1. /\ ~na.res /\ InOrder(na) /\ na.map \in Runlists /\ NoneTwice(na.map) /\ Whole
      /\ call.at \in Nat /\ call.left \in Nat \ {0} /\ na.size \in Nat /\ na.init \in Nat
      /\ End \in Nat /\ End <= na.size /\ End <= na.init
  BY LoopIs DEF InLoop, Plain
<1>2. NextRun \in Nat /\ ToWrite \in Nat /\ call.at + ToWrite <= NextRun
  <2>1. NextRun \in Nat /\ ToWrite \in Nat
    BY <1>1, RunIs
  <2> QED
    BY <1>1, <2>1 DEF ToWrite, Lesser
<1>3. ASSUME NEW q \in ps PROVE Within(na.map, q) /\ (IsHole(na.map, q) <=> IsHole(na.map, call.at))
  <2>1. q \in Nat /\ call.at <= q /\ q < NextRun
    BY <1>1, <1>2
  <2> QED
    BY <1>1, <2>1, RunKind
<1>4. Inside(na.map, ps)
  BY <1>3 DEF Inside
<1>5. CASE data' = Written(na.map, ps, call.val) /\ ~IsHole(na.map, call.at)
  <2> DEFINE a == na
             m == na.map
             w == call.val
  <2>1. /\ ~a.res /\ a.map = m /\ m \in Runlists /\ NoneTwice(m) /\ Whole /\ Inside(m, ps)
        /\ p \in ps => ~IsHole(m, p)
        /\ p < End => p < a.size /\ p < a.init
    BY <1>1, <1>3, <1>4, <1>5
  <2>2. Reads(p)' = Read(a, Written(m, ps, w), value, p) /\ Reads(p) = Read(a, data, value, p)
    BY <1>5 DEF Reads
  <2> HIDE DEF a, m, w, ps
  <2>3. p \notin ps => Read(a, Written(m, ps, w), value, p) = Read(a, data, value, p)
    BY <2>1, ReadWritten
  <2>4. p \in ps /\ p < a.size /\ p < a.init /\ ~IsHole(m, p) => Read(a, Written(m, ps, w), value, p) = w
    BY <2>1, ReadWritten
  <2> QED
    BY <2>1, <2>2, <2>3, <2>4 DEF w, ps
<1>6. CASE data' = data /\ IsHole(na.map, call.at) /\ call.val = Zero
  <2>1. Reads(p)' = Reads(p)
    BY <1>6, ReadsStay
  <2>2. p \in ps => Reads(p) = Zero
    BY <1>1, <1>3, <1>6 DEF Reads, Read
  <2> QED
    BY <1>6, <2>1, <2>2
<1> QED
  BY <1>5, <1>6

(* A round of the loop is done, and the next one begins behind the run.    *)
LEMMA RoundKeeps ==
    ASSUME AttrAssumption, Sure, pc = "data", pc' = "data", call.left > 0, InRunlist,
           UNCHANGED <<na, value, scars>>,
           NEW n \in Nat \ {0}, n <= ToWrite,
           \/ data' = Written(na.map, call.at .. call.at + n - 1, call.val) /\ ~IsHole(na.map, call.at)
           \/ data' = data /\ IsHole(na.map, call.at) /\ call.val = Zero,
           SameCall, call'.at = NextRun, call'.left = call.left - n, call'.total = call.total + n,
           call'.initialized = call.initialized,
           call'.spoilt = IF n = ToWrite THEN call.spoilt
                          ELSE call.spoilt \union (call.at + n .. NextRun + call.left - n - 1)
    PROVE  CInv'
<1> DEFINE at == call.at
           left == call.left
           total == call.total
           pos == call.pos
           next == NextRun
           e == End
<1>1. /\ Plain /\ InLoop /\ scars' = {} /\ ~na.res /\ InOrder(na)' /\ call.op = "write" /\ Begun
      /\ e <= na'.size /\ e <= na'.init
      /\ call'.initialized => call.old_init <= na'.init
      /\ \A p \in Unspoilt : p \in Nat /\ (Outside(p) => Reads(p) = call.before[p])
  BY LoopIs
<1>2. /\ at \in Nat /\ left \in Nat \ {0} /\ total \in Nat /\ pos \in Nat /\ e \in Nat
      /\ pos + total <= at /\ total + left = call.count /\ e = pos + call.count /\ e <= at + left
      /\ call.count \in Nat
      /\ \A p \in Unspoilt : p < e \/ p >= at + left
      /\ \A p \in Unspoilt : ~Outside(p) /\ p < at => Reads(p) = call.val
  BY LoopIs, SMTT(30) DEF InLoop
<1>3. /\ next \in Nat /\ n <= left /\ at + n <= next
      /\ n # ToWrite => n < left /\ at + n < next
      /\ n = ToWrite => n = left \/ at + n = next
  <2>1. NextRun \in Nat /\ ToWrite \in Nat
    BY <1>1, <1>2, RunIs, LoopIs
  <2>2. PICK t, r : t = ToWrite /\ r = NextRun
    OBVIOUS
  <2>3. t \in Nat /\ r \in Nat /\ t = IF left <= r - at THEN left ELSE r - at
    BY <2>1, <2>2 DEF ToWrite, Lesser
  <2>4. n <= t
    BY <2>2
  <2> HIDE DEF at, left, next
  <2>5. /\ n <= left /\ at + n <= r
        /\ n # t => n < left /\ at + n < r
        /\ n = t => n = left \/ at + n = r
    <3>1. n \in Int /\ t \in Int /\ r \in Int /\ at \in Int /\ left \in Int
      BY <1>2, <2>3
    <3>2. CASE left <= r - at
      <4>1. t = left
        BY <2>3, <3>2
      <4> QED
        BY <2>4, <3>1, <3>2, <4>1
    <3>3. CASE ~(left <= r - at)
      <4>1. t = r - at
        BY <2>3, <3>3
      <4> QED
        BY <2>4, <3>1, <3>3, <4>1
    <3> QED
      BY <3>2, <3>3
  <2> QED
    BY <2>2, <2>3, <2>5 DEF next
<1>4. /\ \A p \in Nat : p \notin at .. at + n - 1 => Reads(p)' = Reads(p)
      /\ \A p \in Nat : p \in at .. at + n - 1 /\ p < e => Reads(p)' = call.val
  BY RoundReads
<1>5. Whole'
  <2>1. CASE data' = data
    BY <1>1, <2>1 DEF Plain, Whole
  <2>2. CASE data' # data
    BY <1>1, <2>2, WholeWritten DEF Plain
  <2> QED
    BY <2>1, <2>2
<1>6. /\ End' = e /\ (\A p : Outside(p)' = Outside(p)) /\ call'.pos = pos /\ call'.val = call.val
      /\ call'.count = call.count
  BY BegunStays DEF SameCall
<1>7. \A p : Outside(p) <=> p \notin pos .. e - 1
  BY DEF Outside
<1>8. \A p \in Unspoilt' : /\ p \in Unspoilt
                           /\ n # ToWrite => p \notin at + n .. next + left - n - 1
  BY DEF Unspoilt
<1> HIDE DEF at, left, total, pos, next, e
<1>9. ASSUME NEW p \in Unspoilt'
      PROVE  /\ p \in Nat /\ p \in Unspoilt /\ (p \in at .. at + n - 1 => p < e)
             /\ left - n > 0 => p < e \/ p >= next + left - n
  <2>1. p \in Unspoilt /\ p \in Nat /\ (p < e \/ p >= at + left)
    BY <1>1, <1>2, <1>8
  <2>2. p \in at .. at + n - 1 => p < e
    BY <1>2, <1>3, <2>1
  <2>3. CASE n = ToWrite
    BY <1>2, <1>3, <2>1, <2>2, <2>3
  <2>4. CASE n # ToWrite
    <3>1. p < at + n \/ p >= next + left - n
      BY <1>2, <1>3, <1>8, <2>1, <2>4
    <3> QED
      BY <1>2, <1>3, <2>1, <2>2, <2>4, <3>1
  <2> QED
    BY <2>3, <2>4
<1>10. ASSUME NEW p \in Unspoilt', Outside(p) PROVE Reads(p)' = call.before[p]
  <2>1. p \notin at .. at + n - 1
    <3> SUFFICES ASSUME p \in at .. at + n - 1 PROVE FALSE
      OBVIOUS
    <3>1. p \in Nat /\ at <= p /\ p < e
      BY <1>2, <1>9
    <3>2. pos <= p
      BY <1>2, <3>1
    <3>3. pos \in Int /\ e \in Int
      BY <1>2
    <3>4. p \in pos .. e - 1
      BY <3>1, <3>2, <3>3
    <3> QED
      BY <1>7, <1>10, <3>4
  <2> QED
    BY <1>1, <1>4, <1>9, <1>10, <2>1
<1>11. ASSUME NEW p \in Unspoilt', ~Outside(p), p < next \/ left - n = 0 PROVE Reads(p)' = call.val
  <2>1. p \in pos .. e - 1 /\ p \in Nat /\ p \in Unspoilt
    BY <1>7, <1>9, <1>11
  <2>2. CASE p < at
    BY <1>2, <1>3, <1>4, <1>11, <2>1, <2>2, SMTT(30)
  <2>3. CASE ~(p < at)
    <3>1. p < at + n
      <4>1. CASE n = ToWrite
        BY <1>2, <1>3, <1>11, <2>1, <4>1
      <4>2. CASE n # ToWrite
        BY <1>2, <1>3, <1>8, <1>11, <2>1, <4>2
      <4> QED
        BY <4>1, <4>2
    <3>2. p \in at .. at + n - 1 /\ p < e
      BY <1>2, <1>3, <2>1, <2>3, <3>1
    <3> QED
      BY <1>4, <2>1, <3>2
  <2> QED
    BY <2>2, <2>3
<1>12. InLoop'
  <2>1. call'.at = next /\ call'.left = left - n /\ call'.total = total + n
    BY DEF next, left, total
  <2>2. /\ next \in Nat /\ left - n \in Nat /\ total + n \in Nat /\ e <= na'.init
        /\ total + n + (left - n) = call.count /\ pos + (total + n) <= next
    BY <1>1, <1>2, <1>3
  <2>3. left - n > 0 => e <= next + (left - n)
    BY <1>2, <1>3
  <2>4. left - n > 0 => \A p \in Unspoilt' : p < e \/ p >= next + (left - n)
    BY <1>2, <1>3, <1>9
  <2>5. \A p \in Unspoilt' : ~Outside(p)' /\ (p < next \/ left - n = 0) => Reads(p)' = call.val
    BY <1>6, <1>11
  <2> QED
    BY <1>6, <2>1, <2>2, <2>3, <2>4, <2>5 DEF InLoop
<1>13. \A p \in Unspoilt' : Outside(p) => Reads(p)' = call.before[p]
  BY <1>10
<1>14. End <= na'.size
  BY <1>1 DEF e
<1> QED
  BY <1>1, <1>5, <1>12, <1>13, <1>14, GoesOn

(* The fields of a call after a round.                                     *)
LEMMA AdvancedIs ==
    ASSUME Fields, NEW n
    PROVE  /\ call' = Advanced(n) =>
                 /\ SameCall /\ call'.at = NextRun /\ call'.left = call.left - n
                 /\ call'.total = call.total + n /\ call'.initialized = call.initialized
                 /\ call'.spoilt = call.spoilt
           /\ \A x : call' = [Advanced(n) EXCEPT !.spoilt = x] =>
                 /\ SameCall /\ call'.at = NextRun /\ call'.left = call.left - n
                 /\ call'.total = call.total + n /\ call'.initialized = call.initialized
                 /\ call'.spoilt = x
<1>1. PICK l, t, r : l = call.left - n /\ t = call.total + n /\ r = NextRun
  OBVIOUS
<1>2. Advanced(n) = [call EXCEPT !.total = t, !.left = l, !.at = r]
  BY <1>1 DEF Advanced
<1>3. ASSUME call' = Advanced(n)
      PROVE  /\ SameCall /\ call'.at = r /\ call'.left = l
             /\ call'.total = t /\ call'.initialized = call.initialized
             /\ call'.spoilt = call.spoilt
  BY <1>2, <1>3 DEF SameCall, Fields, IsCall
<1>4. ASSUME NEW x, call' = [Advanced(n) EXCEPT !.spoilt = x]
      PROVE  /\ SameCall /\ call'.at = r /\ call'.left = l
             /\ call'.total = t /\ call'.initialized = call.initialized
             /\ call'.spoilt = x
  <2>1. call' = [[call EXCEPT !.total = t, !.left = l, !.at = r] EXCEPT !.spoilt = x]
    BY <1>2, <1>4
  <2> QED
    BY <2>1 DEF SameCall, Fields, IsCall
<1> QED
  BY <1>1, <1>3, <1>4

(* The rounds of the loop that write to a run or skip a hole.              *)
LEMMA RoundsKeep ==
    ASSUME AttrAssumption, Sure, SkipHole \/ WriteRun \/ WriteRunShort
    PROVE  CInv'
<1>1. /\ pc = "data" /\ pc' = "data" /\ call.left > 0 /\ InRunlist /\ UNCHANGED <<na, value, scars>>
  BY DEF SkipHole, WriteRun, WriteRunShort, Looping, HoleAt, DataAt
<1>2. Fields /\ ToWrite \in Nat \ {0}
  <2>1. InOrder(na) /\ call.at \in Nat /\ call.left \in Nat \ {0} /\ Fields
    BY <1>1, LoopIs DEF Plain, InLoop
  <2> QED
    BY <1>1, <2>1, RunIs
<1>3. CASE SkipHole \/ WriteRun
  <2>1. /\ call' = Advanced(ToWrite)
        /\ \/ /\ data' = Written(na.map, call.at .. call.at + ToWrite - 1, call.val)
              /\ ~IsHole(na.map, call.at)
           \/ data' = data /\ IsHole(na.map, call.at) /\ call.val = Zero
    BY <1>3 DEF SkipHole, WriteRun, HoleAt, DataAt, volume
  <2>2. PICK n \in Nat \ {0} : n = ToWrite
    BY <1>2
  <2>3. /\ SameCall /\ call'.at = NextRun /\ call'.left = call.left - n
        /\ call'.total = call.total + n /\ call'.initialized = call.initialized
        /\ call'.spoilt = call.spoilt
    BY <1>2, <2>1, <2>2, AdvancedIs
  <2>4. n <= ToWrite
    BY <1>2, <2>2
  <2>5. \/ data' = Written(na.map, call.at .. call.at + n - 1, call.val) /\ ~IsHole(na.map, call.at)
        \/ data' = data /\ IsHole(na.map, call.at) /\ call.val = Zero
    BY <2>1, <2>2
  <2>6. call'.spoilt = IF n = ToWrite THEN call.spoilt
                       ELSE call.spoilt \union (call.at + n .. NextRun + call.left - n - 1)
    BY <2>2, <2>3
  <2> QED
    BY <1>1, <2>3, <2>4, <2>5, <2>6, RoundKeeps
<1>4. CASE WriteRunShort
  <2>1. PICK n \in 1 .. ToWrite - 1 :
           /\ data' = Written(na.map, call.at .. call.at + n - 1, call.val)
           /\ call' = [Advanced(n) EXCEPT
                         !.spoilt = @ \union (call.at + n .. NextRun + call.left - n - 1)]
    BY <1>4 DEF WriteRunShort
  <2>2. ~IsHole(na.map, call.at)
    BY <1>4 DEF WriteRunShort, DataAt
  <2>3. n \in Nat \ {0} /\ n <= ToWrite /\ n # ToWrite
    BY <1>2
  <2>4. Advanced(n).spoilt = call.spoilt
    BY <1>2 DEF Advanced, Fields, IsCall
  <2>5. PICK x : x = call.spoilt \union (call.at + n .. NextRun + call.left - n - 1)
    OBVIOUS
  <2>6. call' = [Advanced(n) EXCEPT !.spoilt = x]
    BY <2>1, <2>4, <2>5
  <2>7. /\ SameCall /\ call'.at = NextRun /\ call'.left = call.left - n
        /\ call'.total = call.total + n /\ call'.initialized = call.initialized
        /\ call'.spoilt = x
    BY <1>2, <2>6, AdvancedIs
  <2>8. call'.spoilt = IF n = ToWrite THEN call.spoilt
                       ELSE call.spoilt \union (call.at + n .. NextRun + call.left - n - 1)
    BY <2>3, <2>5, <2>7
  <2> QED
    BY <1>1, <2>1, <2>2, <2>3, <2>7, <2>8, RoundKeeps
<1> QED
  BY <1>3, <1>4

(* The loop is left.                                                       *)
LEMMA LoopEndKeeps ==
    ASSUME AttrAssumption, Sure, LoopEnds \/ PastRunlist \/ WriteRunFails \/ FillHoleFails
    PROVE  CInv'
<1>1. /\ pc = "data" /\ UNCHANGED <<data, na, value, call, scars>>
      /\ pc' = "err" \/ (pc' = "done" /\ (call.total > 0 \/ call.left = 0))
  BY DEF LoopEnds, PastRunlist, WriteRunFails, FillHoleFails, Looping, RlErr, volume
<1>2. /\ Plain /\ InLoop /\ scars = {} /\ InOrder(na) /\ call.op = "write" /\ Begun
      /\ End <= na.size /\ call.pos \in Nat /\ call.count \in Nat /\ End = call.pos + call.count
      /\ call.initialized => call.old_init <= na.init
      /\ \A p \in Unspoilt : p \in Nat /\ (Outside(p) => Reads(p) = call.before[p])
  BY <1>1, LoopIs
<1>3. SameCall /\ call'.spoilt = call.spoilt /\ \A p : Reads(p)' = Reads(p)
  BY <1>1, <1>2, SameCallIs, ReadsStay DEF Plain
<1>4. Whole'
  BY <1>1, <1>2 DEF Plain, Whole
<1>5. InOrder(na)' /\ scars' = {} /\ End <= na'.size /\ (call'.initialized => call.old_init <= na'.init)
  BY <1>1, <1>2
<1>6. \A p \in Unspoilt' : Outside(p) => Reads(p)' = call.before[p]
  BY <1>2, <1>3 DEF Unspoilt
<1>7. pc' = "done" => Through'
  <2>1. \A p \in Unspoilt : ~Outside(p) /\ p < call.pos + call.total => Reads(p) = call.val
    <3> TAKE p \in Unspoilt
    <3>1. /\ call.pos + call.total <= call.at /\ call.at \in Nat /\ call.total \in Nat /\ p \in Nat
          /\ ~Outside(p) /\ p < call.at => Reads(p) = call.val
      BY <1>2 DEF InLoop
    <3>2. p < call.pos + call.total => p < call.at
      BY <1>2, <3>1
    <3> QED
      BY <3>1, <3>2
  <2>2. \A p : Outside(p)' = Outside(p)
    BY <1>3, BegunStays
  <2> QED
    BY <1>1, <1>2, <1>3, <2>1, <2>2 DEF Through, Unspoilt, InLoop
<1>8. pc' \in {"data", "done", "err"} /\ pc' # "data"
  BY <1>1
<1> QED
  BY <1>2, <1>3, <1>4, <1>5, <1>6, <1>7, <1>8, GoesOn
-----------------------------------------------------------------------------
(* A hole that is filled.  In front of the data is hole.                   *)
LEMMA HeadIs ==
    ASSUME AttrAssumption, InOrder(na), ~na.res, call.at \in Nat, call.left \in Nat \ {0}, HoleAt,
           NEW q \in HoleHead
    PROVE  q \in Nat /\ Within(na.map, q) /\ IsHole(na.map, q)
<1> DEFINE v == Vcn
           r == RunStart
           S == {i \in 0 .. v : \A j \in i .. v - 1 : Joined(j)}
<1>1. /\ v = call.at \div ClusterSize /\ v \in Nat /\ v < Len(na.map) /\ na.map[v + 1] = Hole
      /\ na.map \in Runlists /\ Len(na.map) \in Nat /\ DOMAIN na.map = 1 .. Len(na.map)
  <2>1. v \in Nat
    BY HoleIs
  <2> QED
    BY <2>1 DEF Vcn, HoleAt, InRunlist, IsHole, InOrder, Attr, Runlists
<1>2. r \in 0 .. v /\ \A j \in r .. v - 1 : Joined(j)
  <2>1. S \in SUBSET Nat /\ v \in S
    BY <1>1
  <2>2. RunStart = Smallest(S)
    BY DEF RunStart
  <2>3. Smallest(S) \in S
    <3> HIDE DEF S
    <3> QED
      BY <2>1, SmallestIsLeast
  <2> QED
    BY <2>2, <2>3
<1> HIDE DEF v, r
<1>3. \A i \in r .. v : na.map[i + 1] = Hole
  <2> DEFINE B == {i \in r .. v : na.map[i + 1] # Hole}
  <2> SUFFICES ASSUME B # {} PROVE FALSE
    OBVIOUS
  <2>1. PICK b : b \in B
    OBVIOUS
  <2>2. B \in SUBSET Nat /\ \A k \in B : k <= v
    BY <1>1, <1>2
  <2>3. Largest(B) \in B /\ \A k \in B : k <= Largest(B)
    <3> HIDE DEF B
    <3> QED
      BY <1>1, <2>1, <2>2, LargestIsGreatest
  <2>4. PICK m : m = Largest(B)
    OBVIOUS
  <2>5. m \in r .. v /\ na.map[m + 1] # Hole /\ m # v
    BY <1>1, <2>3, <2>4
  <2>6. m \in Nat /\ m + 1 \in r .. v /\ m \in r .. v - 1 /\ ~(m + 1 <= m)
    <3>1. m \in Nat /\ r \in Nat /\ r <= m /\ m <= v /\ m # v
      BY <1>1, <1>2, <2>5
    <3> HIDE DEF B
    <3> QED
      BY <1>1, <3>1
  <2>7. ~(m + 1 \in B)
    <3> HIDE DEF B
    <3> QED
      BY <2>3, <2>4, <2>6
  <2>8. na.map[m + 2] = Hole
    <3>1. na.map[(m + 1) + 1] = Hole /\ (m + 1) + 1 = m + 2
      BY <2>6, <2>7
    <3> QED
      BY <3>1
  <2>9. na.map[m + 1] \in Lcn
    <3>1. m + 1 \in DOMAIN na.map
      BY <1>1, <2>6
    <3> QED
      BY <1>1, <2>5, <3>1 DEF Runlists
  <2>10. na.map[m + 2] = na.map[m + 1] + 1
    BY <1>2, <2>5, <2>6 DEF Joined
  <2> QED
    BY <2>8, <2>9, <2>10 DEF Lcn, Hole
<1>4. q \in Nat /\ r * ClusterSize <= q /\ q < call.at
  <2>1. PICK x : x = r * ClusterSize
    OBVIOUS
  <2>2. x \in Nat
    BY <1>1, <1>2, <2>1, Order DEF AttrAssumption
  <2>3. q \in x .. call.at - 1
    BY <2>1 DEF HoleHead, r
  <2> QED
    BY <2>1, <2>2, <2>3
<1>5. PICK i : i = q \div ClusterSize
  OBVIOUS
<1>6. i \in Nat /\ i < v + 1 /\ ~(i < r)
  <2>1. v + 1 \in Nat /\ r \in Nat
    BY <1>1, <1>2
  <2>2. i \in Nat /\ (q < (v + 1) * ClusterSize <=> i < v + 1) /\ (q < r * ClusterSize <=> i < r)
    BY <1>4, <1>5, <2>1, VcnIs
  <2>3. call.at < (v + 1) * ClusterSize
    <3>1. PICK k \in Nat : k = v + 1
      BY <2>1
    <3>2. call.at < k * ClusterSize <=> call.at \div ClusterSize < k
      BY VcnIs
    <3> QED
      BY <1>1, <3>1, <3>2
  <2>4. PICK x, y : x = (v + 1) * ClusterSize /\ y = r * ClusterSize
    OBVIOUS
  <2>5. x \in Nat /\ y \in Nat
    BY <2>1, <2>4, Order DEF AttrAssumption
  <2> QED
    BY <1>4, <2>2, <2>3, <2>4, <2>5
<1>7. i \in r .. v /\ i < Len(na.map)
  BY <1>1, <1>2, <1>6
<1>8. Within(na.map, q)
  BY <1>1, <1>4, <1>5, <1>7, VcnIs DEF Within
<1> QED
  BY <1>3, <1>4, <1>5, <1>7, <1>8 DEF IsHole

(* What is not in front of the data, nor in the clusters that it and the   *)
(* tail behind it get, is read as before; and so is what is in front of it *)
(* where that was zeroed.                                                  *)
Zeroed(s, zs, p) ==
    /\ data' = Written(Filled(s).map, zs, Zero) /\ Inside(Filled(s).map, zs)
    /\ p \in zs => p \in HoleHead
    /\ p \in Vcn * ClusterSize .. call.at - 1 /\ p \in HoleHead => p \in zs
LEMMA FillReads ==
    ASSUME AttrAssumption, Sure, pc = "data", call.left > 0, HoleAt,
           NEW s \in Granted(LastVcn - Vcn + 1), na' = Filled(s), value' = value,
           NEW p \in Nat, p \notin call.at .. (LastVcn + 1) * ClusterSize - 1,
           \/ \E zs : Zeroed(s, zs, p)
           \/ data' = data /\ p \notin Vcn * ClusterSize .. call.at - 1
    PROVE  Reads(p)' = Reads(p)
<1> DEFINE v == Vcn
           l == LastVcn
           f == Filled(s)
           m == f.map
<1>1. /\ ~na.res /\ InOrder(na) /\ na.map \in Runlists /\ NoneTwice(na.map) /\ Whole
      /\ call.at \in Nat /\ call.left \in Nat \ {0} /\ na \in Attr /\ Used(na.map) \subseteq bmp
      /\ Len(na.map) \in Nat
  <2>1. /\ ~na.res /\ InOrder(na) /\ na.map \in Runlists /\ NoneTwice(na.map) /\ Plain /\ InLoop
        /\ na \in Attr /\ Good /\ Len(na.map) \in Nat
    BY LoopIs
  <2>2. Whole
    BY <2>1 DEF Plain
  <2>3. Used(na.map) \subseteq bmp
    BY <2>1 DEF Good, Mine
  <2>4. call.at \in Nat /\ call.left \in Nat \ {0}
    BY <2>1 DEF InLoop
  <2> QED
    BY <2>1, <2>2, <2>3, <2>4
<1>2. /\ f = [na EXCEPT !.map = m] /\ m \in Runlists /\ Len(m) = Len(na.map) /\ NoneTwice(m)
  BY <1>1, FilledIs DEF Runlists
<1>3. ~f.res /\ f.size = na.size /\ f.init = na.init
  BY <1>1, <1>2 DEF Attr
<1>4. v \in Nat /\ l \in Nat /\ v <= l /\ l < Len(na.map) /\ \A i \in v .. l : na.map[i + 1] = Hole
  BY <1>1, HoleIs
<1>5. \A i \in DOMAIN na.map : i - 1 \notin v .. l => m[i] = na.map[i]
  <2>1. m = [i \in DOMAIN na.map |-> IF i - 1 \in v .. l THEN s[i - v] ELSE na.map[i]]
    BY <1>1 DEF Filled, Attr
  <2> HIDE DEF m
  <2> QED
    BY <2>1
<1> HIDE DEF v, l, f, m
<1> DEFINE i == p \div ClusterSize
<1>6. i \in Nat /\ (p < Len(na.map) * ClusterSize <=> i < Len(na.map))
  BY <1>1, VcnIs
<1>7. Reads(p)' = Read(f, data', value, p) /\ Reads(p) = Read(na, data, value, p)
  BY DEF Reads, f
<1>9. ASSUME NEW zs, Zeroed(s, zs, p)
      PROVE  /\ p \notin zs => Reads(p)' = Read(f, data, value, p)
             /\ p \in zs => Reads(p)' = Zero /\ p \in HoleHead
             /\ p \in v * ClusterSize .. call.at - 1 /\ p \in HoleHead => p \in zs
  <2>1. /\ m \in Runlists /\ ~f.res /\ f.map = m /\ NoneTwice(m) /\ Whole /\ Inside(m, zs)
        /\ AttrAssumption /\ data' = Written(m, zs, Zero)
    BY <1>1, <1>2, <1>3, <1>9 DEF m, f, Zeroed
  <2>2. p \notin zs => Read(f, Written(m, zs, Zero), value, p) = Read(f, data, value, p)
    BY <2>1, ReadWritten
  <2>3. p \in zs => Read(f, Written(m, zs, Zero), value, p) = Zero
    BY <2>1, ReadWritten
  <2>4. /\ p \in zs => p \in HoleHead
        /\ p \in v * ClusterSize .. call.at - 1 /\ p \in HoleHead => p \in zs
    BY <1>9 DEF Zeroed, v
  <2> QED
    BY <1>7, <2>1, <2>2, <2>3, <2>4
<1>10. p \in HoleHead => Reads(p) = Zero
  <2> SUFFICES ASSUME p \in HoleHead PROVE Reads(p) = Zero
    OBVIOUS
  <2>1. IsHole(na.map, p)
    BY <1>1, HeadIs
  <2> QED
    BY <1>1, <1>7, <2>1 DEF Read
<1>11. ASSUME i \notin v .. l PROVE Read(f, data, value, p) = Read(na, data, value, p)
  <2>1. CASE p < Len(na.map) * ClusterSize
    <3>1. i + 1 \in DOMAIN na.map /\ (i + 1) - 1 \notin v .. l
      <4>1. DOMAIN na.map = 1 .. Len(na.map)
        BY <1>1 DEF Runlists
      <4> HIDE DEF i
      <4> QED
        BY <1>1, <1>6, <1>11, <2>1, <4>1
    <3>2. m[i + 1] = na.map[i + 1]
      BY <1>5, <3>1
    <3> QED
      BY <1>1, <1>2, <1>3, <3>2 DEF Read, IsHole, Address, m
  <2>2. CASE ~(p < Len(na.map) * ClusterSize)
    BY <1>1, <1>2, <1>3, <2>2 DEF Read, m
  <2> QED
    BY <2>1, <2>2
<1>12. ASSUME i \in v .. l PROVE p \in v * ClusterSize .. call.at - 1 /\ p \in HoleHead
  <2>1. l + 1 \in Nat /\ i < l + 1 /\ ~(i < v)
    BY <1>4, <1>6, <1>12
  <2>2. p < (l + 1) * ClusterSize /\ ~(p < v * ClusterSize)
    BY <1>4, <2>1, VcnIs
  <2>3. PICK x, y : x = v * ClusterSize /\ y = (l + 1) * ClusterSize
    OBVIOUS
  <2>4. x \in Nat /\ y \in Nat
    BY <1>4, <2>1, <2>3, Order DEF AttrAssumption
  <2>5. p \notin call.at .. y - 1
    BY <2>3 DEF l
  <2>6. p \in x .. call.at - 1
    BY <1>1, <2>2, <2>3, <2>4, <2>5
  <2>7. PICK z : z = RunStart * ClusterSize
    OBVIOUS
  <2>8. z \in Nat /\ z <= x
    <3>1. RunStart \in Nat /\ RunStart <= v
      <4> DEFINE S == {k \in 0 .. v : \A j \in k .. v - 1 : Joined(j)}
      <4>1. S \in SUBSET Nat /\ v \in S
        BY <1>4
      <4>2. RunStart = Smallest(S)
        BY DEF RunStart, v
      <4>3. Smallest(S) \in S
        <5> HIDE DEF S
        <5> QED
          BY <4>1, SmallestIsLeast
      <4> QED
        BY <1>4, <4>2, <4>3
    <3> QED
      BY <1>4, <2>3, <2>7, <3>1, Order DEF AttrAssumption
  <2>9. p \in z .. call.at - 1
    BY <1>1, <2>4, <2>6, <2>8
  <2> QED
    BY <2>3, <2>6, <2>7, <2>9 DEF HoleHead
<1> HIDE DEF i
<1>13. ASSUME NEW zs, Zeroed(s, zs, p) PROVE Reads(p)' = Reads(p)
  <2>1. /\ p \notin zs => Reads(p)' = Read(f, data, value, p)
        /\ p \in zs => Reads(p)' = Zero /\ p \in HoleHead
        /\ p \in v * ClusterSize .. call.at - 1 /\ p \in HoleHead => p \in zs
    BY <1>9, <1>13
  <2>2. CASE p \in zs
    BY <1>10, <2>1, <2>2
  <2>3. CASE p \notin zs
    BY <1>7, <1>11, <1>12, <2>1, <2>3
  <2> QED
    BY <2>2, <2>3
<1>14. CASE data' = data /\ p \notin v * ClusterSize .. call.at - 1
  BY <1>7, <1>11, <1>12, <1>14
<1> QED
  BY <1>13, <1>14 DEF m, f, v

(* The hole is filled with s, and x is what is spoilt then: the head is    *)
(* zeroed but for that, and zeroes that went astray lie behind it.         *)
FilledWith(s, x) ==
    /\ na' = Filled(s) /\ value' = value
    /\ call' = [call EXCEPT !.remapped = TRUE, !.spoilt = x]
    /\ call.spoilt \union HoleTail \subseteq x
    /\ \/ data' = data /\ Vcn * ClusterSize .. call.at - 1 \subseteq x
       \/ \E zs : /\ data' = Written(Filled(s).map, zs, Zero) /\ Inside(Filled(s).map, zs)
                  /\ HoleHead \ x \subseteq zs
                  /\ \A q \in zs : q \in HoleHead \/ (q >= call.at /\ (Outside(q) => q \in x))

LEMMA FillIs ==
    ASSUME AttrAssumption, Sure, FillHole \/ FillHoleZeroFails \/ FillHoleZeroShort
    PROVE  \E s \in Granted(LastVcn - Vcn + 1) : \E x : FilledWith(s, x)
<1>1. /\ pc = "data" /\ HoleAt /\ call.left > 0 /\ UNCHANGED value
  BY DEF FillHole, FillHoleZeroFails, FillHoleZeroShort, Looping, Instantiate
<1>2. /\ Good /\ InLoop /\ ~na.res /\ InOrder(na) /\ na.map \in Runlists
      /\ call.pos \in Nat /\ End \in Nat
  BY <1>1, LoopIs
<1>3. call.at \in Nat /\ call.left \in Nat \ {0}
  BY <1>1, <1>2 DEF InLoop
<1>4. ASSUME NEW s \in Granted(LastVcn - Vcn + 1)
      PROVE  Filled(s).map \in Runlists /\ Len(Filled(s).map) = Len(na.map)
             /\ Inside(Filled(s).map, HoleHead)
  <2>1. NoneTwice(na.map) /\ Used(na.map) \subseteq bmp
    BY <1>2 DEF Good, Mine
  <2>2. Filled(s).map \in Runlists /\ Len(Filled(s).map) = Len(na.map)
    BY <1>1, <1>2, <1>3, <2>1, FilledIs DEF Runlists
  <2> SUFFICES ASSUME NEW q \in HoleHead PROVE Within(Filled(s).map, q)
    BY <2>2 DEF Inside
  <2>3. Within(na.map, q)
    BY <1>1, <1>2, <1>3, HeadIs
  <2> QED
    BY <2>2, <2>3 DEF Within
<1>5. CASE FillHole
  <2>1. PICK s \in Granted(LastVcn - Vcn + 1) :
           Instantiate(s) /\ data' = Written(Filled(s).map, HoleHead, Zero)
    BY <1>5 DEF FillHole
  <2>2. call' = [call EXCEPT !.remapped = TRUE, !.spoilt = call.spoilt \union HoleTail]
    BY <1>5 DEF FillHole
  <2>3. Inside(Filled(s).map, HoleHead) /\ na' = Filled(s)
    BY <1>4, <2>1 DEF Instantiate
  <2> QED
    BY <1>1, <2>1, <2>2, <2>3 DEF FilledWith
<1>6. CASE FillHoleZeroFails
  <2>1. PICK s \in Granted(LastVcn - Vcn + 1) : Instantiate(s)
    BY <1>6 DEF FillHoleZeroFails
  <2>2. PICK x : x = call.spoilt \union HoleTail \union Vcn * ClusterSize .. call.at - 1
    OBVIOUS
  <2>3. call' = [call EXCEPT !.remapped = TRUE, !.spoilt = x] /\ data' = data
    BY <1>6, <2>2 DEF FillHoleZeroFails
  <2>4. na' = Filled(s)
    BY <2>1 DEF Instantiate
  <2>5. /\ call.spoilt \union HoleTail \subseteq x
        /\ Vcn * ClusterSize .. call.at - 1 \subseteq x
    BY <2>2
  <2>6. FilledWith(s, x)
    BY <1>1, <2>3, <2>4, <2>5 DEF FilledWith
  <2> QED
    BY <2>6
<1>7. CASE FillHoleZeroShort
  <2>1. PICK s \in Granted(LastVcn - Vcn + 1), n \in Vcn * ClusterSize + 1 .. call.at - 1 :
          \E as \in {{}, Astray(Filled(s).map, n)} :
             /\ Instantiate(s)
             /\ data' = Written(Filled(s).map, (HoleHead \ n .. call.at - 1) \union as, Zero)
             /\ call' = [call EXCEPT !.remapped = TRUE,
                   !.spoilt = @ \union HoleTail \union n .. call.at - 1
                                \union (as \ call.pos .. End - 1)]
    BY <1>7 DEF FillHoleZeroShort
  <2>2. PICK as \in {{}, Astray(Filled(s).map, n)} :
             /\ Instantiate(s)
             /\ data' = Written(Filled(s).map, (HoleHead \ n .. call.at - 1) \union as, Zero)
             /\ call' = [call EXCEPT !.remapped = TRUE,
                   !.spoilt = @ \union HoleTail \union n .. call.at - 1
                                \union (as \ call.pos .. End - 1)]
    BY <2>1
  <2> DEFINE m == Filled(s).map
             head == n .. call.at - 1
             zs == (HoleHead \ head) \union as
             x == call.spoilt \union HoleTail \union head \union (as \ call.pos .. End - 1)
  <2>3. /\ m \in Runlists /\ Len(m) = Len(na.map) /\ Inside(m, HoleHead) /\ Len(m) \in Nat
    BY <1>4 DEF Runlists
  <2>4. PICK c : c = Vcn * ClusterSize
    OBVIOUS
  <2>5. /\ Vcn \in Nat /\ c \in Nat /\ Vcn < Len(na.map) /\ Vcn = call.at \div ClusterSize
    <3>1. Vcn \in Nat /\ Vcn <= LastVcn /\ LastVcn < Len(na.map) /\ LastVcn \in Nat
      BY <1>1, <1>2, <1>3, HoleIs
    <3> QED
      BY <2>3, <2>4, <3>1, Order DEF AttrAssumption, Vcn
  <2>6. n \in Nat /\ c < n /\ n < call.at
    BY <1>3, <2>4, <2>5
  <2>7. n \div ClusterSize = Vcn /\ call.at < (Vcn + 1) * ClusterSize
    <3>1. PICK w \in Nat : w = Vcn + 1
      BY <2>5
    <3>2. PICK u \in Nat : u = Vcn
      BY <2>5
    <3>3. /\ call.at < w * ClusterSize <=> call.at \div ClusterSize < w
          /\ n < w * ClusterSize <=> n \div ClusterSize < w
          /\ n < u * ClusterSize <=> n \div ClusterSize < u
          /\ n \div ClusterSize \in Nat
      BY <1>3, <2>6, VcnIs
    <3>4. PICK y : y = w * ClusterSize
      OBVIOUS
    <3>5. y \in Nat
      BY <3>4, Order DEF AttrAssumption
    <3>6. call.at < y
      BY <2>5, <3>1, <3>2, <3>3, <3>4
    <3>7. n \div ClusterSize < w /\ ~(n \div ClusterSize < u)
      BY <1>3, <2>4, <2>6, <3>2, <3>3, <3>4, <3>5, <3>6
    <3> QED
      BY <3>1, <3>2, <3>3, <3>4, <3>6, <3>7
  <2>8. \A q \in as : q \in Nat /\ Within(m, q) /\ q >= call.at
    <3> SUFFICES ASSUME NEW q \in as, as = Astray(m, n)
                 PROVE  q \in Nat /\ Within(m, q) /\ q >= call.at
      OBVIOUS
    <3>1. RunBehind(m, n) \in Nat /\ RunBehind(m, n) >= (Vcn + 1) * ClusterSize
      <4>1. Vcn < Len(m)
        BY <2>3, <2>5
      <4> HIDE DEF m
      <4>2. PICK len \in Nat : len = Len(m)
        BY <2>3
      <4>3. n < len * ClusterSize <=> n \div ClusterSize < len
        BY <2>6, VcnIs
      <4>4. n < Len(m) * ClusterSize
        BY <2>7, <4>1, <4>2, <4>3
      <4>5. /\ RunBehind(m, n) \in Nat
            /\ RunBehind(m, n) >= (n \div ClusterSize + 1) * ClusterSize
        BY <2>3, <2>6, <4>4, RunBehindIs
      <4> QED
        BY <2>7, <4>5
    <3>2. PICK rb : rb = RunBehind(m, n)
      OBVIOUS
    <3>3. PICK y : y = (Vcn + 1) * ClusterSize
      OBVIOUS
    <3>4. y \in Nat
      BY <2>5, <3>3, Order DEF AttrAssumption
    <3>5. q \in rb .. rb + call.at - n - 1 /\ q < Len(m) * ClusterSize
      BY <3>2 DEF Astray
    <3>6. q \in Nat /\ q >= call.at
      BY <1>3, <2>6, <2>7, <3>1, <3>2, <3>3, <3>4, <3>5
    <3> QED
      BY <3>5, <3>6 DEF Within
  <2>9. na' = Filled(s) /\ data' = Written(m, zs, Zero)
        /\ call' = [call EXCEPT !.remapped = TRUE, !.spoilt = x]
    BY <2>2 DEF Instantiate
  <2>10. Inside(m, zs)
    BY <2>3, <2>8 DEF Inside
  <2>11. call.spoilt \union HoleTail \subseteq x /\ HoleHead \ x \subseteq zs
    OBVIOUS
  <2>12. \A q \in zs : q \in HoleHead \/ (q >= call.at /\ (Outside(q) => q \in x))
    BY <2>8 DEF Outside
  <2> HIDE DEF x, zs, head
  <2> QED
    BY <1>1, <2>9, <2>10, <2>11, <2>12 DEF FilledWith
<1> QED
  BY <1>5, <1>6, <1>7

(* The round of the loop that allocates clusters to a hole.                *)
LEMMA FillKeeps ==
    ASSUME AttrAssumption, Sure, FillHole \/ FillHoleZeroFails \/ FillHoleZeroShort
    PROVE  CInv'
<1> DEFINE tail == HoleTail
<1>1. /\ pc = "data" /\ pc' \in {"data", "err"} /\ HoleAt /\ call.left > 0 /\ UNCHANGED <<value, scars>>
  BY DEF FillHole, FillHoleZeroFails, FillHoleZeroShort, Looping, Instantiate
<1>2. /\ Plain /\ Good /\ InLoop /\ scars = {} /\ ~na.res /\ InOrder(na) /\ call.op = "write" /\ Begun
      /\ na \in Attr /\ call.pos \in Nat /\ call.count \in Nat /\ End \in Nat
      /\ End = call.pos + call.count /\ End <= na.size /\ End <= na.init
      /\ call.initialized => call.old_init <= na.init
      /\ \A p \in Unspoilt : p \in Nat /\ (Outside(p) => Reads(p) = call.before[p])
  BY <1>1, LoopIs
<1>3. /\ call.at \in Nat /\ call.left \in Nat \ {0} /\ call.total \in Nat
      /\ call.pos + call.total <= call.at /\ End <= call.at + call.left
      /\ \A p \in Unspoilt : p < End \/ p >= call.at + call.left
      /\ \A p \in Unspoilt : ~Outside(p) /\ p < call.at => Reads(p) = call.val
      /\ Fields /\ Whole
  <2>1. call.at \in Nat /\ call.left \in Nat \ {0} /\ call.total \in Nat /\ call.pos + call.total <= call.at
    BY <1>1, <1>2 DEF InLoop
  <2>2. /\ End <= call.at + call.left
        /\ \A p \in Unspoilt : p < End \/ p >= call.at + call.left
    BY <1>1, <1>2 DEF InLoop
  <2>3. \A p \in Unspoilt : ~Outside(p) /\ p < call.at => Reads(p) = call.val
    BY <1>2 DEF InLoop
  <2> QED
    BY <1>2, <2>1, <2>2, <2>3 DEF Plain
<1>4. PICK s \in Granted(LastVcn - Vcn + 1) : \E x : FilledWith(s, x)
  BY FillIs
<1>5. /\ SameCall /\ call'.at = call.at /\ call'.left = call.left /\ call'.total = call.total
      /\ call'.initialized = call.initialized /\ na' = Filled(s)
      /\ call.spoilt \union tail \subseteq call'.spoilt
      /\ \/ data' = data /\ Vcn * ClusterSize .. call.at - 1 \subseteq call'.spoilt
         \/ \E zs : /\ data' = Written(Filled(s).map, zs, Zero) /\ Inside(Filled(s).map, zs)
                    /\ HoleHead \ call'.spoilt \subseteq zs
                    /\ \A q \in zs : q \in HoleHead \/ (q >= call.at /\ (Outside(q) => q \in call'.spoilt))
  <2>1. PICK x : FilledWith(s, x)
    BY <1>4
  <2>2. call' = [call EXCEPT !.remapped = TRUE, !.spoilt = x]
    BY <2>1 DEF FilledWith
  <2>3. /\ SameCall /\ call'.at = call.at /\ call'.left = call.left /\ call'.total = call.total
        /\ call'.initialized = call.initialized /\ call'.spoilt = x
    BY <1>3, <2>2 DEF SameCall, Fields, IsCall
  <2> QED
    BY <2>1, <2>3 DEF FilledWith
<1>6. /\ InOrder(na)' /\ na'.size = na.size /\ na'.init = na.init
  <2>1. NoneTwice(na.map) /\ Used(na.map) \subseteq bmp
    BY <1>2 DEF Good, Mine
  <2>2. /\ na' = [na EXCEPT !.map = na'.map] /\ na'.map \in Seq(Lcn \union {Hole})
        /\ Len(na'.map) = Len(na.map)
    BY <1>1, <1>2, <1>3, <1>5, <2>1, FilledIs
  <2>3. /\ na'.res = na.res /\ na'.alloc = na.alloc /\ na'.size = na.size /\ na'.init = na.init
        /\ na' \in Attr
    BY <1>2, <2>2 DEF Attr
  <2> QED
    BY <1>2, <2>2, <2>3 DEF InOrder, Room
<1>7. Whole'
  <2>1. CASE data' = data
    BY <1>1, <1>3, <2>1 DEF Whole
  <2>2. CASE \E zs : data' = Written(Filled(s).map, zs, Zero)
    BY <1>1, <1>3, <2>2, WholeWritten
  <2> QED
    BY <1>5, <2>1, <2>2
<1>8. ToWrite \in Nat \ {0} /\ ToWrite <= call.left
  <2>1. ToWrite \in Nat \ {0} /\ NextRun \in Nat
    BY <1>1, <1>2, <1>3, RunIs DEF HoleAt
  <2> QED
    BY <1>3, <2>1 DEF ToWrite, Lesser
<1>9. \A p \in Unspoilt' : p \in Unspoilt /\ p \in Nat /\ p \notin tail /\ p \notin call'.spoilt
  BY <1>2, <1>5 DEF Unspoilt
<1>10. ASSUME NEW p \in Unspoilt', p \notin call.at .. call.at + ToWrite - 1,
              Outside(p) \/ p < call.at
       PROVE  Reads(p)' = Reads(p)
  <2>1. p \in Nat /\ p \notin tail
    BY <1>9
  <2>2. p \notin call.at .. (LastVcn + 1) * ClusterSize - 1
    <3>1. PICK x : x = (LastVcn + 1) * ClusterSize
      OBVIOUS
    <3>2. x \in Nat
      <4>1. LastVcn \in Nat
        BY <1>1, <1>2, <1>3, HoleIs
      <4> QED
        BY <3>1, <4>1, Order DEF AttrAssumption
    <3>3. p \notin call.at + ToWrite .. x - 1
      BY <2>1, <3>1 DEF HoleTail
    <3>4. p \notin call.at .. x - 1
      BY <1>3, <1>8, <1>10, <2>1, <3>2, <3>3
    <3> QED
      BY <3>1, <3>4
  <2>3. \/ \E zs : Zeroed(s, zs, p)
        \/ data' = data /\ p \notin Vcn * ClusterSize .. call.at - 1
    <3>1. CASE data' = data /\ Vcn * ClusterSize .. call.at - 1 \subseteq call'.spoilt
      BY <1>9, <3>1
    <3>2. ASSUME NEW zs, data' = Written(Filled(s).map, zs, Zero), Inside(Filled(s).map, zs),
                 HoleHead \ call'.spoilt \subseteq zs,
                 \A q \in zs : q \in HoleHead \/ (q >= call.at /\ (Outside(q) => q \in call'.spoilt))
          PROVE  Zeroed(s, zs, p)
      <4>1. p \in zs => p \in HoleHead
        <5>1. ~(p >= call.at /\ (Outside(p) => p \in call'.spoilt))
          <6>1. CASE Outside(p)
            BY <1>9, <6>1
          <6>2. CASE p < call.at
            BY <1>3, <2>1, <6>2
          <6> QED
            BY <1>10, <6>1, <6>2
        <5> QED
          BY <3>2, <5>1
      <4>2. p \in HoleHead => p \in zs
        BY <1>9, <3>2
      <4> QED
        BY <3>2, <4>1, <4>2 DEF Zeroed
    <3> QED
      BY <1>5, <3>1, <3>2
  <2> HIDE DEF tail
  <2> QED
    BY <1>1, <1>5, <2>1, <2>2, <2>3, FillReads
<1> HIDE DEF tail
<1>11. \A p : Outside(p) <=> p \notin call.pos .. End - 1
  BY DEF Outside
<1>12. ASSUME NEW p \in Unspoilt', Outside(p) PROVE Reads(p)' = call.before[p]
  <2>1. p \in Unspoilt /\ p \in Nat /\ (p < End \/ p >= call.at + call.left)
    BY <1>3, <1>9
  <2>2. p \notin call.at .. call.at + ToWrite - 1
    <3> SUFFICES ASSUME p \in call.at .. call.at + ToWrite - 1 PROVE FALSE
      OBVIOUS
    <3>1. call.at <= p /\ p < call.at + call.left
      BY <1>3, <1>8, <2>1
    <3>2. call.pos <= p /\ p < End
      BY <1>2, <1>3, <2>1, <3>1
    <3> QED
      BY <1>2, <1>11, <1>12, <2>1, <3>2
  <2> QED
    BY <1>2, <1>10, <1>12, <2>1, <2>2
<1>13. ASSUME NEW p \in Unspoilt', ~Outside(p), p < call.at PROVE Reads(p)' = call.val
  <2>1. p \in Unspoilt /\ p \in Nat /\ p \notin call.at .. call.at + ToWrite - 1
    BY <1>3, <1>9, <1>13
  <2> QED
    BY <1>3, <1>10, <1>13, <2>1
<1>14. pc' = "data" => InLoop'
  <2>1. End' = End /\ (\A p : Outside(p)' = Outside(p)) /\ call'.val = call.val
        /\ call'.pos = call.pos /\ call'.count = call.count
    BY <1>5, BegunStays DEF SameCall
  <2>2. call.total + call.left = call.count
    BY <1>2 DEF InLoop
  <2>3. \A p \in Unspoilt' : ~Outside(p)' /\ (p < call.at \/ call.left = 0) => Reads(p)' = call.val
    BY <1>3, <1>13, <2>1
  <2>4. \A p \in Unspoilt' : p < End \/ p >= call.at + call.left
    BY <1>3, <1>9
  <2> QED
    BY <1>2, <1>3, <1>5, <1>6, <2>1, <2>2, <2>3, <2>4 DEF InLoop
<1>15. \A p \in Unspoilt' : Outside(p) => Reads(p)' = call.before[p]
  BY <1>12
<1>16. scars' = {} /\ End <= na'.size /\ (call'.initialized => call.old_init <= na'.init)
       /\ pc' \in {"data", "done", "err"} /\ pc' # "done"
  BY <1>1, <1>2, <1>5, <1>6
<1> QED
  BY <1>2, <1>5, <1>6, <1>7, <1>14, <1>15, <1>16, GoesOn
-----------------------------------------------------------------------------
(* The exits of a write.                                                   *)
LEMMA DoneKeeps ==
    ASSUME AttrAssumption, Sure, Done
    PROVE  CInv'
<1>1. /\ pc = "done" /\ pc' = "ret" /\ UNCHANGED <<data, na, value>>
      /\ call' = [call EXCEPT !.ret = call.total]
  BY DEF Done, Ends, volume
<1>2. Plain /\ Going /\ Through
  BY <1>1 DEF Sure, CInv, Writing
<1>3. SameCall /\ call'.spoilt = call.spoilt /\ call'.ret = call.total
  BY <1>1, <1>2, SameCallIs DEF Plain
<1>4. \A p : Reads(p)' = Reads(p)
  BY <1>1, ReadsStay
<1>5. Plain'
  BY <1>1, <1>2, <1>3 DEF Plain, SameCall, Whole
<1>6. /\ \A p : Outside(p)' = Outside(p)
      /\ Unspoilt' = Unspoilt /\ call'.op = "write" /\ call'.pos = call.pos /\ call'.val = call.val
      /\ call'.before = call.before
  BY <1>2, <1>3, BegunStays DEF Unspoilt, SameCall, Going
<1>7. \A p \in Unspoilt' : Outside(p)' => Same(p)'
  BY <1>2, <1>4, <1>6 DEF Going, Same
<1>8. \A p \in Unspoilt' : ~Outside(p)' /\ call'.ret > p - call'.pos => Reads(p)' = call'.val
  <2> TAKE p \in Unspoilt'
  <2>1. p \in Nat /\ p \in Unspoilt /\ call.pos \in Nat /\ call.total \in Nat
    BY <1>2, <1>6 DEF Unspoilt, Position, Plain, Through
  <2>2. call'.ret > p - call'.pos => p < call.pos + call.total
    <3>1. PICK t \in Nat, x \in Nat : t = call.total /\ x = call.pos
      BY <2>1
    <3>2. t > p - x => p < x + t
      BY <2>1
    <3> QED
      BY <1>3, <1>6, <3>1, <3>2
  <2> QED
    BY <1>2, <1>4, <1>6, <2>1, <2>2 DEF Through
<1>9. CallsKeepContent'
  BY <1>6, <1>7, <1>8, WriteReturns
<1> QED
  BY <1>1, <1>5, <1>9 DEF CInv, Sizing, Cutting, Writing

(* The initialized size goes back; behind it there was nothing but zero.   *)
LEMMA RestoreKeeps ==
    ASSUME AttrAssumption, Sure, RestoreInit \/ RestoreInitFails
    PROVE  CInv'
<1>1. /\ pc = "err" /\ pc' = "err_map" /\ UNCHANGED <<data, value, call>>
      /\ na' = na \/ (call.initialized /\ na' = [na EXCEPT !.init = call.old_init])
  BY DEF RestoreInit, RestoreInitFails, volume
<1>2. Plain /\ Going /\ scars = {} /\ Good
  <2>1. Plain /\ Going
    BY <1>1 DEF Sure, CInv, Writing
  <2> QED
    BY <1>1, <2>1 DEF Sure, Plain
<1>3. /\ InOrder(na) /\ na \in Attr /\ na.size <= na.alloc /\ call.old_init \in Nat
      /\ na.size \in Nat /\ na.init \in Nat /\ na.init <= na.size /\ na.alloc \in Nat
      /\ call.initialized => ~na.res /\ call.old_init <= na.init
  <2>1. na.size <= na.alloc /\ (call.initialized => ~na.res)
    BY <1>1, <1>2 DEF Good, Records, Phases, Writing
  <2>2. call.initialized => call.old_init <= na.init
    BY <1>1, <1>2 DEF Going
  <2> QED
    BY <1>2, <2>1, <2>2, Shape DEF Plain
<1>4. SameCall /\ call'.spoilt = call.spoilt
  BY <1>1, <1>2, SameCallIs DEF Plain
<1>5. InOrder(na)' /\ na'.size = na.size /\ na'.alloc = na.alloc
  <2>1. CASE na' = na
    BY <1>3, <2>1
  <2>2. CASE call.initialized /\ na' = [na EXCEPT !.init = call.old_init]
    <3>1. /\ na'.res = na.res /\ na'.map = na.map /\ na'.alloc = na.alloc /\ na'.size = na.size
          /\ na'.init = call.old_init /\ na' \in Attr
      BY <1>3, <2>2 DEF Attr
    <3>2. na'.init <= na'.size /\ ~na'.res
      BY <1>3, <2>2, <3>1
    <3>3. na'.alloc = Room(na')
      BY <1>3, <3>1, <3>2 DEF InOrder, Room
    <3> QED
      BY <3>1, <3>2, <3>3 DEF InOrder
  <2> QED
    BY <1>1, <2>1, <2>2
<1>6. Plain'
  BY <1>1, <1>2, <1>4, <1>5 DEF Plain, SameCall, Whole, Writing
<1>7. End' = End /\ (\A p : Outside(p)' = Outside(p)) /\ Begun'
  BY <1>2, <1>4, BegunStays DEF Going
<1>8. \A p \in Unspoilt' : Outside(p)' => Same(p)'
  <2> SUFFICES ASSUME NEW p \in Unspoilt', Outside(p) PROVE Same(p)'
    BY <1>7
  <2>1. p \in Unspoilt /\ p \in Position /\ p \in Nat /\ Reads(p) = call.before[p]
    BY <1>2, <1>4 DEF Unspoilt, Position, Going, Same
  <2>2. Reads(p)' = call.before[p]
    <3>1. CASE na' = na
      BY <1>1, <2>1, <3>1, ReadsStay
    <3>2. CASE call.initialized /\ na' = [na EXCEPT !.init = call.old_init]
      <4>1. /\ na'.res = na.res /\ na'.map = na.map /\ na'.size = na.size /\ na'.init = call.old_init
        BY <1>3, <3>2 DEF Attr
      <4>2. CASE p >= call.old_init
        <5>1. call.before[p] = Zero
          BY <1>2, <2>1, <4>2 DEF Going, Begun
        <5>2. Reads(p)' = Zero
          BY <1>3, <2>1, <3>2, <4>1, <4>2 DEF Reads, Read
        <5> QED
          BY <5>1, <5>2
      <4>3. CASE p < call.old_init
        <5>1. p < na.init
          BY <1>3, <2>1, <3>2, <4>3
        <5>2. Reads(p)' = Reads(p)
          BY <1>1, <4>1, <4>3, <5>1 DEF Reads, Read, IsHole, Address
        <5> QED
          BY <2>1, <5>2
      <4> QED
        BY <1>3, <2>1, <4>2, <4>3
    <3> QED
      BY <1>1, <3>1, <3>2
  <2> QED
    BY <1>1, <2>2 DEF Same
<1>9. Going'
  BY <1>1, <1>2, <1>3, <1>5, <1>7, <1>8 DEF Going
<1>10. call'.op = "write"
  BY <1>1, <1>2 DEF Going
<1> QED
  BY <1>1, <1>6, <1>9, <1>10 DEF CInv, CallsKeepContent, Sizing, Cutting, Writing

(* A failed write ends, or cuts the attribute back.                        *)
LEMMA ErrMapKeeps ==
    ASSUME AttrAssumption, Sure, ErrMap
    PROVE  CInv'
<1>1. /\ pc = "err_map" /\ UNCHANGED <<data, na, value>>
      /\ IF call.extended THEN Resize(call.old, [call EXCEPT !.op = "undo"]) ELSE Ends(-1)
  BY DEF ErrMap, volume
<1>2. Plain /\ Going /\ InOrder(na)
  BY <1>1 DEF Sure, CInv, Writing, Plain
<1>3. \A p : Reads(p)' = Reads(p)
  BY <1>1, ReadsStay
<1>4. Whole' /\ InOrder(na)' /\ na.alloc \in Nat /\ na.size \in Nat /\ na.size <= na.alloc
      /\ na.res \in BOOLEAN
  BY <1>1, <1>2 DEF Plain, Whole, Going, InOrder, Attr
<1>5. CASE call.extended
  <2>1. /\ pc' = IF na.res THEN "resize" ELSE IF call.old > na.size THEN "expand" ELSE "shrink"
        /\ call' = [[call EXCEPT !.op = "undo"] EXCEPT !.new = call.old, !.old_alloc = na.alloc]
    BY <1>1, <1>5 DEF Resize
  <2>2. /\ call'.op = "undo" /\ call'.new = call.old /\ call'.old = call.old
        /\ call'.old_alloc = na.alloc /\ call'.pos = call.pos /\ call'.count = call.count
        /\ call'.old_init = call.old_init /\ call'.extended = call.extended
        /\ call'.before = call.before /\ call'.spoilt = call.spoilt /\ Fields'
    BY <1>2, <2>1 DEF Plain, Fields, IsCall
  <2>3. call.old <= na.size /\ call.old \in Nat
    <3>1. call.old < End /\ End <= na.size /\ End \in Nat /\ call.old \in Nat
      BY <1>2, <1>5 DEF Going, Begun, Plain, End
    <3> QED
      BY <1>4, <3>1
  <2>4. pc' \in {"resize", "shrink"} /\ (na.res <=> pc' = "resize")
    BY <1>4, <2>1, <2>3
  <2>5. Plain'
    BY <1>2, <1>4, <2>2, <2>4 DEF Plain, Sizing, Cutting
  <2>6. End' = End /\ \A p : Outside(p)' = Outside(p)
    <3>1. End' = End
      BY <2>2 DEF End
    <3> QED
      BY <2>2, <3>1 DEF Outside
  <2>7. Begun'
    BY <1>2, <2>2, <2>6 DEF Going, Begun
  <2>8. \A p \in Unspoilt' : Outside(p)' => Same(p)'
    BY <1>2, <1>3, <2>2, <2>6 DEF Going, Same, Unspoilt
  <2>9. Undoing'
    BY <1>1, <1>4, <2>2, <2>3, <2>4, <2>7, <2>8 DEF Undoing, Cutting
  <2> QED
    BY <2>2, <2>4, <2>5, <2>9 DEF CInv, CallsKeepContent, Sizing, Cutting, Writing
<1>6. CASE ~call.extended
  <2>1. pc' = "ret" /\ call' = [call EXCEPT !.ret = -1]
    BY <1>1, <1>6 DEF Ends
  <2>2. SameCall /\ call'.spoilt = call.spoilt /\ call'.ret = -1
    BY <1>2, <2>1, SameCallIs DEF Plain
  <2>3. Plain'
    BY <1>2, <1>4, <2>1, <2>2 DEF Plain, SameCall
  <2>4. /\ End' = End /\ (\A p : Outside(p)' = Outside(p)) /\ Unspoilt' = Unspoilt /\ call'.op = "write"
        /\ call'.pos = call.pos /\ call'.before = call.before
    BY <1>2, <2>2, BegunStays DEF Unspoilt, SameCall, Going
  <2>5. \A p \in Unspoilt' : Outside(p)' => Same(p)'
    BY <1>2, <1>3, <2>4 DEF Going, Same
  <2>6. ASSUME NEW p \in Unspoilt', ~Outside(p)' PROVE ~(call'.ret > p - call'.pos)
    <3>1. p \in call.pos .. End - 1 /\ call.pos \in Nat /\ End \in Nat
      BY <1>2, <2>4, <2>6 DEF Outside, Plain, End
    <3> QED
      BY <2>2, <2>4, <3>1
  <2>7. CallsKeepContent'
    BY <2>4, <2>5, <2>6, WriteReturns
  <2> QED
    BY <2>1, <2>3, <2>7 DEF CInv, Sizing, Cutting, Writing
<1> QED
  BY <1>5, <1>6
-----------------------------------------------------------------------------
(* The steps that change nothing.                                          *)
LEMMA StutterKeeps ==
    ASSUME Sure, UNCHANGED vars
    PROVE  CInv'
<1>1. /\ UNCHANGED <<data, na, value, pc, call, scars>> /\ CInv
  BY DEF vars, Sure
<1>2. \A p : Reads(p)' = Reads(p)
  BY <1>1, ReadsStay
<1>3. Plain' /\ (\A p : Same(p)' <=> Same(p)) /\ (\A p : Outside(p)' <=> Outside(p)) /\ Unspoilt' = Unspoilt
      /\ End' = End /\ (Begun => Begun')
  <2>1. End' = End
    BY <1>1 DEF End
  <2>2. Plain'
    BY <1>1 DEF CInv, Plain, Whole, Fields
  <2>3. Unspoilt' = Unspoilt /\ \A p : Outside(p)' <=> Outside(p)
    BY <1>1, <2>1 DEF Unspoilt, Outside
  <2>4. \A p : Same(p)' <=> Same(p)
    BY <1>1, <1>2 DEF Same
  <2>5. Begun => Begun'
    BY <1>1, <2>1 DEF Begun
  <2> QED
    BY <2>1, <2>2, <2>3, <2>4, <2>5
<1>4. Growing => Growing'
  BY <1>1, <1>3 DEF Growing
<1>5. Shortening => Shortening'
  BY <1>1, <1>3 DEF Shortening
<1>6. Undoing => Undoing'
  BY <1>1, <1>3 DEF Undoing
<1>7. Going => Going'
  BY <1>1, <1>3 DEF Going
<1>8. InLoop => InLoop'
  BY <1>1, <1>2, <1>3 DEF InLoop
<1>9. Through => Through'
  BY <1>1, <1>2, <1>3 DEF Through
<1>10. CallsKeepContent'
  <2>1. Content(na)' = Content(na)
    BY <1>1 DEF Content, IsHole, Address
  <2> QED
    BY <1>1, <1>3, <2>1 DEF CInv, CallsKeepContent, WriteKeepsToItsRange, ResizeKeepsContent
<1> QED
  BY <1>1, <1>3, <1>4, <1>5, <1>6, <1>7, <1>8, <1>9, <1>10 DEF CInv

(* Every step keeps it.                                                    *)
LEMMA NextKeeps == AttrAssumption /\ Sure /\ [Next]_vars => CInv'
<1> SUFFICES ASSUME AttrAssumption, Sure, [Next]_vars PROVE CInv'
  OBVIOUS
<1>1. ASSUME NEW pos \in Position, NEW val \in {Zero, calls + 1},
             NEW count \in {n \in Counts : n <= MaxSize - pos}, Write(pos, count, val)
      PROVE  CInv'
  <2>1. count \in Counts
    OBVIOUS
  <2> QED
    BY <1>1, <2>1, WriteKeeps
<1>2. ASSUME NEW new \in 0 .. MaxSize, Truncate(new) PROVE CInv'
  BY <1>2, TruncateKeeps
<1>3. CASE \/ ResizeValue \/ ResizeFails \/ MakeNonResident \/ MakeNonResidentShort
           \/ MakeNonResidentFails
  BY <1>3, ResizeValueKeeps, ResidentFailureKeeps, MakeNonResidentKeeps
<1>4. CASE \/ ExpandWithin \/ Expand \/ ExpandFails \/ ExpandUpdateFails
           \/ ExpandSize \/ ExpandSizeFails \/ ExpandUndo
  BY <1>4, ExpandKeeps
<1>5. CASE \/ ShrinkWithin \/ Shrink \/ ShrinkFails \/ ShrinkUpdateFails
           \/ ShrinkSize \/ ShrinkSizeFails \/ MakeResident
  BY <1>5, ShrinkStepKeeps, ShrinkEndKeeps
<1>6. CASE \/ WriteValue \/ WriteValueFails \/ InitNotNeeded \/ Initialize
           \/ InitializeShort \/ InitializeFails \/ InitializeWriteFails
  BY <1>6, WriteValueKeeps, WriteStartKeeps
<1>7. CASE \/ LoopEnds \/ PastRunlist \/ SkipHole \/ WriteRun \/ WriteRunFails
           \/ WriteRunShort \/ FillHole \/ FillHoleZeroFails \/ FillHoleZeroShort \/ FillHoleFails
  BY <1>7, RoundsKeep, LoopEndKeeps, FillKeeps
<1>8. CASE Done \/ RestoreInit \/ RestoreInitFails \/ ErrMap
  BY <1>8, DoneKeeps, RestoreKeeps, ErrMapKeeps
<1>9. CASE Return \/ (\E c \in Lcn : OtherTakes(c)) \/ Sync
  BY <1>9, IdleKeeps
<1>10. CASE UNCHANGED vars
  BY <1>10, StutterKeeps
<1> QED
  BY <1>1, <1>2, <1>3, <1>4, <1>5, <1>6, <1>7, <1>8, <1>9, <1>10 DEF Next

(* A write, however it ends, leaves what is outside of its range as it     *)
(* was and has written as much of its range as it says, except where a     *)
(* short write or the tail of a filled hole spoilt it; a resize keeps the  *)
(* content up to the new size, and what it adds reads as zero.             *)
THEOREM ContentIsKept == Spec => []CallsKeepContent
<1>1. Init => CInv
  BY InitKeeps, AttrAssumption
<1>2. IInv /\ CInv /\ [Next]_vars => CInv'
  <2>1. IInv /\ CInv => Sure
    BY DEF IInv, Good, Sure
  <2> QED
    BY <2>1, NextKeeps, AttrAssumption
<1>3. CInv => CallsKeepContent
  BY DEF CInv
<1> QED
  BY <1>1, <1>2, <1>3, AlwaysIInv, PTL DEF Spec
=============================================================================
