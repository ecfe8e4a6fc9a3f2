------------------------------ MODULE AttrList ------------------------------
(***************************************************************************)
(* The records of one inode: attributes that no longer fit into the base   *)
(* record are kept in extent records, and an attribute list in the base    *)
(* record says where each attribute is.  ntfs_attr_add, ntfs_attr_rm and   *)
(* the growth of an attribute work on the copies in memory; what they do   *)
(* write at once is an extent record that is freed, $Bitmap when the list  *)
(* takes or gives back its cluster, and the value the list had when it     *)
(* goes there.  ntfs_inode_sync writes what is marked as dirty: the list,  *)
(* and with it the base record when the list is resident or has grown,     *)
(* then the base record and the extents.  A record, and the list in its    *)
(* cluster, are written whole or not at all.                               *)
(*                                                                         *)
(* Sizes are in units of a resident attribute header: that is what an      *)
(* empty list takes, an entry one or more, a non-resident list NonResident.*)
(* Attributes are no longer than their non-resident form, so that making   *)
(* others non-resident (attrib.c:3793) saves nothing.                      *)
(***************************************************************************)
EXTENDS Integers, FiniteSets, SequencesExt, FiniteSetsExt, TLC

CONSTANTS
    Order,          \* the attributes in the order they collate in
    Kind,           \* type and name of each: names of a file share them
    EntrySize,      \* units of the list entry of each
    Std,            \* $STANDARD_INFORMATION, which stays in the base record
    Growing,        \* attributes that grow and have to be resident
    Extents,        \* numbers of the records that can be extents
    Cap,            \* units of a record
    Clusters,       \* clusters the list can be put into
    NoCluster,
    MaxCalls        \* bound on the calls

Attrs == Range(Order)
Base == 0
Records == {Base} \union Extents
Size == 2
NonResident == 3

ASSUME AttrListAssumption ==
    /\ IsInjective(Order) /\ Std \in Attrs /\ Growing \subseteq Attrs \ {Std}
    /\ EntrySize \in [Attrs -> 1..Cap]
    /\ Extents \subseteq Nat \ {Base} /\ Cap \in Nat /\ MaxCalls \in Nat
    /\ NoCluster \notin Clusters

VARIABLES
    mem,            \* the inode in memory
    disk,           \* the records of it, $Bitmap and the clusters for the list
    has,            \* the attributes that calls have added and not removed
    synced,         \* where those are that have stayed since the last sync
    pc,             \* where a call or a sync is
    call,           \* what the call is about, and what can fail in it
    at,             \* the extent a sync is at, before that the size its list had
    failed,         \* whether the last call or this sync has failed
    calls

vars == <<mem, disk, has, synced, pc, call, at, failed, calls>>

Empty == [a \in {} |-> 0]
Total(f) == FoldSet(LAMBDA a, n : n + f[a], 0, DOMAIN f)
ListLen(al) == FoldSet(LAMBDA a, n : n + EntrySize[a], 0, DOMAIN al)
Before(a) == {b \in Attrs : \E i, j \in 1..Len(Order) : i < j /\ b = Order[i] /\ a = Order[j]}
FirstOf(S) == CHOOSE a \in S : Before(a) \intersect S = {}

ListSize == CASE mem.list = "none" -> 0
              [] mem.list = "resident" -> 1 + mem.len
              [] mem.list = "non-resident" -> NonResident
Room(r) == Cap - Total(mem.rec[r]) - (IF r = Base THEN ListSize ELSE 0)
Where(a) == CHOOSE r \in Records : a \in DOMAIN mem.rec[r]
Present == UNION {DOMAIN mem.rec[r] : r \in Records}
Dirty(m, rs) == [m EXCEPT !.dirty = @ \union rs \union {Base}]
Without(f, a) == Restrict(f, DOMAIN f \ {a})

(* What has been written to a cluster: a list, and whether it was whole.   *)
Spoilt == [al |-> Empty, whole |-> FALSE]
ListOnDisk == CASE disk.list = "none" -> Empty [] disk.list = "resident" -> disk.val
                [] disk.list = "non-resident" -> disk.data[disk.map].al

(* What a lookup finds on the disk: without a list what is in the base     *)
(* record, with one what an entry names, up to the end of the list.        *)
OnDisk(a) ==
    IF disk.list = "none" THEN a \in DOMAIN disk.rec[Base]
    ELSE LET al == ListOnDisk
         IN /\ a \in DOMAIN al /\ a \in DOMAIN disk.rec[al[a]]
            /\ al[a] \in disk.use \union {Base}
            /\ ListLen(Restrict(al, (Before(a) \union {a}) \intersect DOMAIN al)) <= disk.len

(* ntfs_inode_open, with the extents its list names                        *)
InList(al) ==
    LET attach(ext, a) == IF a \notin DOMAIN al \/ al[a] \in Range(ext) \union {Base} THEN ext
                          ELSE Append(ext, al[a])
    IN FoldLeft(attach, <<>>, Order)
Opened(bits) ==
    [rec |-> [r \in Records |-> IF r \in Range(InList(ListOnDisk)) \union {Base} THEN disk.rec[r] ELSE Empty],
     list |-> disk.list, len |-> disk.len, init |-> disk.init, val |-> disk.val, cut |-> FALSE, map |-> disk.map,
     on |-> disk.list # "none", al |-> ListOnDisk, alDirty |-> FALSE,
     ext |-> InList(ListOnDisk), bits |-> bits, dirty |-> {}, amiss |-> "no"]

Idle == [a |-> Std, op |-> "none", want |-> 0, need |-> 0, then |-> "idle", to |-> Base, shifted |-> FALSE]

Init ==
    /\ \E S \in SUBSET Attrs :
          /\ Std \in S /\ Size * Cardinality(S) <= Cap /\ has = S
          /\ disk = [rec |-> [r \in Records |-> IF r = Base THEN [a \in S |-> Size] ELSE Empty],
                     use |-> {}, list |-> "none", len |-> 0, init |-> 0, val |-> Empty, map |-> NoCluster,
                     taken |-> {}, data |-> [c \in Clusters |-> Spoilt]]
          /\ synced = [a \in S |-> Base]
    /\ mem = Opened({})
    /\ pc = "idle" /\ call = Idle /\ at = 0 /\ failed = FALSE /\ calls = 0
-----------------------------------------------------------------------------
(* A call begins.  Clusters for the list and records may be refused, and   *)
(* the freeing of a record may fail at either write.                       *)
Begin(op, a) ==
    /\ pc = "idle" /\ mem.amiss = "no" /\ calls < MaxCalls
    /\ calls' = calls + 1 /\ pc' = op
    /\ call' = [Idle EXCEPT !.a = a, !.op = op]
    /\ UNCHANGED <<mem, disk, has, synced, at, failed>>

Stayed(rec) == Restrict(synced, {a \in DOMAIN synced : a \in DOMAIN rec[synced[a]]})
Return(err, now) ==
    /\ pc' = "idle" /\ call' = Idle /\ failed' = err /\ has' = now
    /\ synced' = Stayed(mem'.rec)
    /\ UNCHANGED <<at, calls>>
Goto(label) == pc' = label /\ UNCHANGED <<has, synced, at, failed, calls>>
NoList(m) == [m EXCEPT !.list = "none", !.len = 0, !.init = 0, !.val = Empty, !.cut = FALSE, !.map = NoCluster]
Fails ==
    /\ mem' = IF call.then = "undo" THEN mem ELSE NoList(mem)
    /\ Goto(IF call.then = "undo" THEN "undo" ELSE "back")
    /\ UNCHANGED call

(* ntfs_mft_record_alloc for an extent: nothing is written yet.            *)
CanAlloc == Extents \ mem.bits # {}
New == Min(Extents \ mem.bits)
Allocated == Dirty([mem EXCEPT !.bits = @ \union {New}, !.ext = Append(@, New), !.rec[New] = Empty], {New})

(* ntfs_mft_record_free: the record is written, then its bit is cleared.   *)
\* Mutant: a record with one attribute left is taken for empty.
Emptied_OneLeft(m, r) == r # Base /\ Cardinality(DOMAIN m.rec[r]) <= 1
Emptied(m, r) == r # Base /\ m.rec[r] = Empty
Faults == {"none", "write", "bitmap"}
Freed(m, r, fault) ==
    IF fault # "none" THEN Dirty(m, {r})
    ELSE [m EXCEPT !.bits = @ \ {r}, !.dirty = (@ \union {Base}) \ {r},
                   !.ext = SelectSeq(@, LAMBDA e : e # r)]
FreedOnDisk(r, fault) ==
    IF fault = "write" THEN disk
    ELSE [disk EXCEPT !.use = @ \ {r}, !.rec[r] = Empty]

(* ntfs_attr_record_move_to; two names of a file cannot be in one extent.  *)
Movable(a, r) ==
    /\ \A b \in DOMAIN mem.rec[r] : Kind[b] # Kind[a]
    /\ Room(r) >= mem.rec[Where(a)][a]
\* Mutant: the entry keeps naming the old record.
Moved_EntryStays(m, a, r) ==
    LET from == Where(a) IN
    Dirty([m EXCEPT !.rec[from] = Without(@, a), !.rec[r] = (a :> mem.rec[from][a]) @@ @,
                    !.alDirty = TRUE], {from, r})
Moved(m, a, r) ==
    LET from == Where(a) IN
    Dirty([m EXCEPT !.rec[from] = Without(@, a), !.rec[r] = (a :> mem.rec[from][a]) @@ @,
                    !.al[a] = r, !.alDirty = TRUE], {from, r})
-----------------------------------------------------------------------------
(* ntfs_attr_add: the base record, an extent, a list, a new extent.        *)
Able(n) == SelectSeq(<<Base>> \o mem.ext, LAMBDA r : Room(r) >= n)
Place ==
    /\ pc = "add" /\ Able(Size) # <<>>
    /\ LET r == Head(Able(Size)) IN
       /\ mem' = [mem EXCEPT !.rec[r] = (call.a :> Size) @@ @,
                             !.dirty = IF mem.on THEN @ ELSE @ \union {r, Base},
                             !.amiss = IF mem.on \/ r = Base THEN @ ELSE "unlisted"]
       /\ IF mem.on
          THEN /\ call' = [call EXCEPT !.to = r, !.then = "undo", !.want = ListLen(mem.al) + EntrySize[call.a]]
               /\ Goto("resize")
          ELSE Return(FALSE, has \union {call.a})
    /\ UNCHANGED disk

(* ntfs_resident_attr_resize of an attribute that has to be resident.      *)
Single(a) == DOMAIN mem.rec[Where(a)] = {a} /\ (Where(a) = Base => mem.list = "none")
GrowInPlace ==
    /\ pc = "grow" /\ Room(Where(call.a)) >= 1
    /\ mem' = Dirty([mem EXCEPT !.rec[Where(call.a)][call.a] = @ + 1], {Where(call.a)})
    /\ Return(FALSE, has) /\ UNCHANGED disk

(* A new extent for it; the attribute that is to grow moves there.         *)
NoPlace == IF pc = "add" THEN Able(Size) = <<>> ELSE Room(Where(call.a)) < 1 /\ ~Single(call.a)
NewExtent ==
    /\ pc \in {"add", "grow"} /\ NoPlace /\ mem.on /\ CanAlloc
    /\ mem' = IF pc = "add" THEN Allocated ELSE Moved(Allocated, call.a, New)
    /\ Goto(pc) /\ UNCHANGED <<disk, call>>
NoExtent ==
    /\ pc \in {"add", "grow"}
    /\ \/ NoPlace /\ mem.on
       \/ pc = "grow" /\ Room(Where(call.a)) < 1 /\ Single(call.a)
    /\ UNCHANGED <<mem, disk>> /\ Return(TRUE, has)

(* ntfs_inode_add_attrlist: the list is made in memory, then its attribute.*)
NewList ==
    /\ pc \in {"add", "grow"} /\ NoPlace /\ ~mem.on /\ UNCHANGED disk
    /\ IF mem.ext # <<>> THEN UNCHANGED mem /\ Return(TRUE, has)
       ELSE /\ mem' = [mem EXCEPT !.al = [a \in DOMAIN mem.rec[Base] |-> Base], !.on = TRUE, !.alDirty = TRUE]
            /\ call' = [call EXCEPT !.need = 1, !.then = "add list"]
            /\ Goto("free space")
AddList ==
    /\ pc = "add list"
    /\ mem' = Dirty([NoList(mem) EXCEPT !.list = "resident", !.cut = TRUE], {})
    /\ call' = [call EXCEPT !.want = ListLen(mem.al), !.then = call.op]
    /\ Goto("resize") /\ UNCHANGED disk
-----------------------------------------------------------------------------
(* ntfs_inode_free_space for the base record, and in it                    *)
(* ntfs_attr_record_move_away                                              *)
After == IF call.then = "add list" THEN "add list" ELSE "resize"
Out == {a \in DOMAIN mem.al \ {Std} : mem.al[a] = Base}
EnoughSpace ==
    /\ pc = "free space" /\ call.need <= Room(Base)
    /\ Goto(After) /\ UNCHANGED <<mem, disk, call>>
MoveAway ==
    /\ pc = "free space" /\ call.need > Room(Base) /\ Out # {}
    /\ LET a == FirstOf(Out)
           able == SelectSeq(mem.ext, LAMBDA r : Movable(a, r))
       IN IF able # <<>>
          THEN /\ mem' = Moved(mem, a, Head(able))
               /\ call' = [call EXCEPT !.shifted = @ \/ call.to \in {Base, Head(able)}]
          ELSE /\ CanAlloc /\ mem' = Moved(Allocated, a, New)
               /\ call' = [call EXCEPT !.shifted = @ \/ call.to = Base]
    /\ Goto(pc) /\ UNCHANGED disk
NoSpace ==
    /\ pc = "free space" /\ call.need > Room(Base)
    /\ Out # {} => \A r \in Range(mem.ext) : ~Movable(FirstOf(Out), r)
    /\ Fails /\ UNCHANGED disk

(* ntfs_attr_truncate for $ATTRIBUTE_LIST: one cluster is enough for it.   *)
(* ntfs_cluster_alloc and _free write $Bitmap, and freeing may fail.       *)
ListFits == mem.list = "resident" /\ Room(Base) + mem.len >= call.want
CanLeave == mem.list = "resident" /\ ~ListFits /\ Room(Base) + ListSize >= NonResident
Resized == IF call.then = "undo" THEN "entry" ELSE call.then
Free == Clusters \ disk.taken
ResizeList ==
    /\ pc = "resize"
    /\ \/ /\ ListFits \/ mem.map # NoCluster
          /\ mem' = Dirty([mem EXCEPT !.len = call.want], {})
          /\ UNCHANGED disk
       \/ /\ mem.list = "non-resident" /\ mem.map = NoCluster
          /\ \E c \in Free :
                /\ mem' = Dirty([mem EXCEPT !.len = call.want, !.map = c], {})
                /\ disk' = [disk EXCEPT !.taken = @ \union {c}, !.data[c] = Spoilt]
    /\ Goto(Resized) /\ UNCHANGED call

(* ntfs_attr_make_non_resident writes the value in the record, which was   *)
(* given to it by the last sync, and only then looks for room.             *)
Value == [al |-> mem.val, whole |-> ~mem.cut]
MakeListNonResident ==
    /\ pc = "resize" /\ CanLeave
    /\ LET m == Dirty([mem EXCEPT !.list = "non-resident", !.init = mem.len, !.val = Empty, !.cut = FALSE], {})
       IN IF mem.len = 0 THEN mem' = m /\ UNCHANGED disk
          ELSE \E c \in Free :
                 /\ mem' = [m EXCEPT !.map = c]
                 /\ disk' = [disk EXCEPT !.taken = @ \union {c}, !.data[c] = Value]
    /\ call' = [call EXCEPT !.shifted = @ \/ call.to = Base]
    /\ Goto(pc)
FreeSpaceForList ==
    /\ pc = "resize" /\ mem.list = "resident" /\ ~ListFits
    /\ \/ (CanLeave => mem.len > 0) /\ UNCHANGED disk      \* no clusters
       \/ /\ ~CanLeave /\ mem.len > 0
          /\ \E c \in Free : \E leak \in SUBSET {c} :
                disk' = [disk EXCEPT !.taken = @ \union leak, !.data[c] = Value]
    /\ call' = [call EXCEPT !.need = NonResident]
    /\ Goto("free space") /\ UNCHANGED mem
ValueNotWritten ==
    /\ pc = "resize" /\ mem.list = "resident" /\ ~ListFits /\ mem.len > 0
    /\ \E c \in Free : \E leak \in SUBSET {c} : disk' = [disk EXCEPT !.taken = @ \union leak]
    /\ Fails
NoClusters ==
    /\ pc = "resize" /\ mem.list = "non-resident" /\ mem.map = NoCluster
    /\ Fails /\ UNCHANGED disk

(* The end of ntfs_attrlist_entry_add, and of the call.                    *)
EntryAdd ==
    /\ pc = "entry"
    /\ mem' = Dirty([mem EXCEPT !.al = (call.a :> call.to) @@ @, !.alDirty = TRUE], {call.to})
    /\ Return(FALSE, has \union {call.a}) /\ UNCHANGED disk

(* When the list cannot be extended the record is cut where the attribute  *)
(* was put, whatever has been moved in it since.                           *)
Undo ==
    /\ pc = "undo"
    /\ LET m == [mem EXCEPT !.rec[call.to] = Without(@, call.a),
                            !.amiss = IF call.shifted THEN "stale place" ELSE @]
       IN IF Emptied(m, call.to)
          THEN \E fault \in Faults : mem' = Freed(m, call.to, fault) /\ disk' = FreedOnDisk(call.to, fault)
          ELSE mem' = m /\ UNCHANGED disk
    /\ Return(TRUE, has)

(* The way back of ntfs_inode_add_attrlist looks for every attribute in    *)
(* another record by its type and name, moves what it finds, and forgets   *)
(* the list.                                                               *)
FirstNamed(a) == FirstOf({b \in DOMAIN mem.al : Kind[b] = Kind[a]})
Away == {a \in DOMAIN mem.al : mem.al[a] # Base}
MoveBack ==
    /\ pc = "back" /\ \E a \in Away : FirstNamed(a) \in Away /\ Movable(FirstNamed(a), Base)
    /\ LET a == FirstOf({b \in Away : FirstNamed(b) \in Away /\ Movable(FirstNamed(b), Base)})
       IN mem' = Moved(mem, FirstNamed(a), Base)
    /\ Goto(pc) /\ UNCHANGED <<disk, call>>
Forget(m) == [m EXCEPT !.al = Empty, !.on = FALSE, !.alDirty = FALSE]
ForgetList ==
    /\ pc = "back" /\ \A a \in Away : FirstNamed(a) \in Away => ~Movable(FirstNamed(a), Base)
    /\ mem' = [Forget(mem) EXCEPT !.amiss = IF Away # {} THEN "left behind" ELSE @]
    /\ Return(TRUE, has) /\ UNCHANGED disk
-----------------------------------------------------------------------------
(* ntfs_attr_record_rm; ntfs_attrlist_entry_rm makes the list shorter, for *)
(* which there is room.  The list goes when it is not needed any more, and *)
(* its cluster is free before the record is written.                       *)
Shorter(m, len) ==
    LET fits(a) == ListLen(Restrict(m.val, (Before(a) \union {a}) \intersect DOMAIN m.val)) <= len
    IN [m EXCEPT !.len = len, !.init = Min({@, len}), !.val = Restrict(@, {a \in DOMAIN @ : fits(a)}),
                 !.cut = m.list = "resident"]
Needed(m) == \E a \in DOMAIN m.al : m.al[a] # Base
RecordRm ==
    /\ pc = "rm"
    /\ \E fault \in Faults, leak \in BOOLEAN :
       LET a == call.a
           r == Where(a)
           out == Dirty([mem EXCEPT !.rec[r] = Without(@, a)], {r})
           unlisted == IF mem.on THEN Shorter([out EXCEPT !.al = Without(@, a), !.alDirty = TRUE],
                                              mem.len - EntrySize[a])
                       ELSE out
           emptied == Emptied(out, r)
           freed == IF emptied THEN Freed(unlisted, r, fault) ELSE unlisted
           err == emptied /\ fault # "none"
           goes == ~err /\ mem.on /\ ~Needed(freed)
           d == IF emptied THEN FreedOnDisk(r, fault) ELSE disk
       IN /\ emptied \/ fault = "none"
          /\ leak => goes /\ mem.map # NoCluster
          /\ mem' = IF goes THEN Forget(NoList(freed)) ELSE freed
          /\ disk' = IF goes /\ ~leak THEN [d EXCEPT !.taken = @ \ {mem.map}] ELSE d
          /\ Return(err, has \ {a})

(* Another file takes the cluster that was given back and writes to it.    *)
TakenByAnother ==
    /\ pc = "idle" /\ disk.map \in Free /\ disk.data[disk.map] # Spoilt
    /\ disk' = [disk EXCEPT !.data[disk.map] = Spoilt]
    /\ UNCHANGED <<mem, has, synced, pc, call, at, failed, calls>>
-----------------------------------------------------------------------------
(* ntfs_inode_sync; what could not be written stays dirty.                 *)
StartSync ==
    /\ pc = "idle" /\ mem.amiss = "no" /\ (mem.dirty # {} \/ mem.alDirty)
    /\ pc' = "list" /\ failed' = FALSE
    /\ UNCHANGED <<mem, disk, has, synced, call, at, calls>>

BaseOf(m) == [disk EXCEPT !.rec[Base] = m.rec[Base], !.list = m.list, !.len = m.len, !.init = m.init,
                          !.val = m.val, !.map = m.map]
Written(r) == IF r = Base THEN BaseOf(mem) ELSE [disk EXCEPT !.rec[r] = mem.rec[r], !.use = @ \union {r}]

(* ntfs_attr_pwrite for the list: a resident one is in the base record; of *)
(* one that has grown the base record is written with the new size first,  *)
(* and, when that or the list cannot be written, with the old size again.  *)
SyncResidentList ==
    /\ mem.list = "resident" /\ pc' = "base"
    /\ LET m == [mem EXCEPT !.val = mem.al, !.cut = FALSE]
       IN \/ mem' = [m EXCEPT !.alDirty = FALSE] /\ disk' = BaseOf(m) /\ UNCHANGED failed
          \/ mem' = m /\ failed' = TRUE /\ UNCHANGED disk
    /\ UNCHANGED at
SyncListSize ==
    /\ mem.list = "non-resident"
    /\ IF mem.init >= mem.len THEN pc' = "list data" /\ UNCHANGED <<mem, disk, failed>>
       ELSE LET m == [mem EXCEPT !.init = mem.len]
            IN \/ pc' = "list data" /\ mem' = m /\ disk' = BaseOf(m) /\ UNCHANGED failed
               \/ pc' = "base" /\ disk' \in {disk, BaseOf(mem)} /\ failed' = TRUE /\ UNCHANGED mem
    /\ at' = mem.init
SyncList ==
    /\ pc = "list"
    /\ IF mem.on /\ mem.alDirty THEN SyncResidentList \/ SyncListSize
       ELSE pc' = "base" /\ UNCHANGED <<mem, disk, at, failed>>
    /\ UNCHANGED <<has, synced, call, calls>>
SyncListData ==
    /\ pc = "list data" /\ pc' = "base" /\ at' = 0
    /\ \/ /\ disk' = [disk EXCEPT !.data[mem.map] = [al |-> mem.al, whole |-> TRUE]]
          /\ mem' = [mem EXCEPT !.alDirty = FALSE]
          /\ UNCHANGED failed
       \/ LET m == [mem EXCEPT !.init = at]
          IN /\ mem' = m /\ failed' = TRUE
             /\ disk' \in IF at = mem.init THEN {disk} ELSE {disk, BaseOf(m)}
    /\ UNCHANGED <<has, synced, call, calls>>

\* Mutant: a record is clean although writing it failed.
WriteIfDirty_CleanOnFailure(r) ==
    IF r \notin mem.dirty THEN UNCHANGED <<mem, disk, failed>>
    ELSE /\ mem' = [mem EXCEPT !.dirty = @ \ {r}]
         /\ \/ disk' = Written(r) /\ UNCHANGED failed
            \/ failed' = TRUE /\ UNCHANGED disk
WriteIfDirty(r) ==
    IF r \notin mem.dirty THEN UNCHANGED <<mem, disk, failed>>
    ELSE \/ /\ disk' = Written(r) /\ mem' = [mem EXCEPT !.dirty = @ \ {r}]
            /\ UNCHANGED failed
         \/ failed' = TRUE /\ UNCHANGED <<mem, disk>>

SyncBase ==
    /\ pc = "base" /\ WriteIfDirty(Base)
    /\ pc' = "extents" /\ at' = 1
    /\ UNCHANGED <<has, synced, call, calls>>

SyncExtent ==
    /\ pc = "extents" /\ at <= Len(mem.ext) /\ WriteIfDirty(mem.ext[at])
    /\ at' = at + 1
    /\ UNCHANGED <<has, synced, pc, call, calls>>

EndSync ==
    /\ pc = "extents" /\ at > Len(mem.ext)
    /\ pc' = "idle" /\ at' = 0
    /\ synced' = IF failed THEN synced ELSE [a \in has \intersect Present |-> Where(a)]
    /\ UNCHANGED <<mem, disk, has, call, failed, calls>>

(* ntfs_inode_close of a clean inode, and ntfs_inode_open.                 *)
Reopen ==
    /\ pc = "idle" /\ mem.amiss = "no" /\ mem.dirty = {} /\ ~mem.alDirty
    /\ mem' = Opened(mem.bits)
    /\ UNCHANGED <<disk, has, synced, pc, call, at, failed, calls>>

(* What is to be changed is looked up first.  A file keeps                 *)
(* $STANDARD_INFORMATION and a name.                                       *)
Removable(a) == a # Std /\ (Kind[a] = Kind[Order[2]] => \E b \in has \ {a} : Kind[b] = Kind[a])
AttrAdd(a) == a \notin has /\ Begin("add", a)
AttrRm(a) == a \in has \intersect Present /\ Removable(a) /\ Begin("rm", a)
AttrGrow(a) ==
    /\ a \in has \intersect Growing \intersect Present /\ mem.rec[Where(a)][a] = Size
    /\ Begin("grow", a)

Step ==
    \/ Place \/ GrowInPlace \/ NewExtent \/ NoExtent \/ NewList \/ AddList
    \/ EnoughSpace \/ MoveAway \/ NoSpace
    \/ ResizeList \/ MakeListNonResident \/ FreeSpaceForList \/ ValueNotWritten \/ NoClusters
    \/ EntryAdd \/ Undo \/ MoveBack \/ ForgetList \/ RecordRm
    \/ SyncList \/ SyncListData \/ SyncBase \/ SyncExtent \/ EndSync

Next ==
    \/ \E a \in Attrs : AttrAdd(a) \/ AttrRm(a) \/ AttrGrow(a)
    \/ StartSync \/ Reopen \/ TakenByAnother \/ Step

Spec == Init /\ [][Next]_vars
-----------------------------------------------------------------------------
(* A lookup finds the attributes of the inode and no others: the list has  *)
(* one entry for each, naming the record it is in, and is as long as its   *)
(* attribute says; without a list they are all in the base record.         *)
Found ==
    IF mem.on THEN {a \in DOMAIN mem.al : a \in DOMAIN mem.rec[mem.al[a]]} ELSE DOMAIN mem.rec[Base]
ListNamesAttributes ==
    pc = "idle" /\ mem.amiss = "no" =>
        /\ Found = has /\ \A r \in Records : DOMAIN mem.rec[r] \subseteq has
        /\ IF mem.on THEN DOMAIN mem.al = has /\ mem.len = ListLen(mem.al) ELSE mem.list = "none"
        /\ \A r \in Records : Room(r) >= 0

(* Between calls and while an inode is synced what is not marked as dirty  *)
(* is on the disk as it is in memory, whatever write has failed: the next  *)
(* sync will write all that is missing. A list that is dirty and has grown *)
(* has the base record written as well.                                    *)
ToBeWritten(r) == r \in mem.dirty \/ (r = Base /\ mem.alDirty /\ mem.init < mem.len)
DirtyCoversChanges ==
    call = Idle /\ mem.amiss = "no" =>
        /\ \A r \in {Base} \union Range(mem.ext) : ToBeWritten(r) \/ Written(r) = disk
        /\ mem.on /\ ~mem.alDirty =>
              mem.al = IF mem.list = "resident" THEN mem.val ELSE disk.data[mem.map].al

(* Whenever the program may stop, an attribute that was synced and has     *)
(* neither been moved nor removed since can be found. But not when the     *)
(* cluster that the record on the disk has the list in was given back at   *)
(* once, as its list was removed, and used before the record was written;  *)
(* nor when the record has just been written and leads to a cluster that   *)
(* got the value of a record which did not hold the whole list; nor when   *)
(* the list could not be written and the record was, with a shorter size.  *)
ListSpoilt ==
    /\ disk.list = "non-resident"
    /\ ~disk.data[disk.map].whole \/ disk.len < ListLen(ListOnDisk)
UnmovedSurvives ==
    mem.amiss = "no" => ListSpoilt \/ \A a \in DOMAIN synced : OnDisk(a)

=============================================================================
