------------------------------ MODULE MftAlloc ------------------------------
(***************************************************************************)
(* The allocation and freeing of mft records: ntfs_mft_record_alloc and    *)
(* ntfs_mft_record_free of libntfs/mft.c, with the search of the mft       *)
(* bitmap, the extension of $MFT/$BITMAP and $MFT/$DATA and the roll back  *)
(* of each step, and the sync and close of the inodes (libntfs/inode.c).   *)
(*                                                                         *)
(* A record exists four times: its bit in the mft bitmap, which is written *)
(* through; the record on disk; the copy in an open ntfs_inode, written    *)
(* when it is synced; and the sizes of $MFT/$DATA and $MFT/$BITMAP that    *)
(* say whether the record and its bit exist at all.  The sizes change in   *)
(* memory and reach the disk only when the volume is unmounted.  A step is *)
(* one access to the disk, or one update that can fail; a crash or an      *)
(* error comes between any two of them.                                    *)
(*                                                                         *)
(* Sizes are counted in records and in bits instead of bytes.  The         *)
(* clusters of the two attributes are LcnAlloc's concern: an extension     *)
(* gets them or is undone as a whole.                                      *)
(***************************************************************************)
EXTENDS Integers, NatSets

CONSTANTS
    MaxRecord,      \* records and bits that fit on the volume
    ByteBits,       \* bits in a byte, 8 in the code
    FirstUser,      \* the first record handed out, 24 in the code
    BmpStep,        \* bits added to the mft bitmap, 64 in the code
    BmpCluster,     \* bits in a cluster of the mft bitmap
    MftSteps,       \* records added to the mft: 16, or one cluster if it fails
    SeqMax,         \* the last sequence number, 0xffff in the code
    Layouts,        \* the sizes a volume may start with
    MaxCalls, MaxFaults, MaxCrashes     \* bounds of the model

Record == 0 .. MaxRecord - 1
NoBase == -1

Sizes == [mft_init : 0 .. MaxRecord, mft_alloc : 0 .. MaxRecord,
          bmp_init : 0 .. MaxRecord, bmp_alloc : 0 .. MaxRecord]

ASSUME MftAssumption ==
    /\ MaxRecord \in Nat /\ ByteBits \in Nat \ {0} /\ FirstUser \in Nat
    /\ BmpStep \in Nat \ {0} /\ BmpCluster \in Nat \ {0}
    /\ BmpStep <= BmpCluster
    /\ MftSteps \subseteq Nat \ {0}
    /\ SeqMax \in Nat \ {0, 1}
    /\ FirstUser % ByteBits = 0 /\ BmpStep % ByteBits = 0
    /\ Layouts \subseteq Sizes
    /\ \A s \in Layouts : /\ s.mft_init <= s.mft_alloc
                          /\ s.mft_init <= s.bmp_init /\ s.bmp_init <= s.bmp_alloc
                          /\ s.bmp_init % ByteBits = 0 /\ FirstUser < s.bmp_init
    /\ MaxCalls \in Nat /\ MaxFaults \in Nat /\ MaxCrashes \in Nat

VARIABLES
    bmp,            \* the bits set in the mft bitmap, on disk
    disk,           \* the records on disk: which are in use, their numbers
    disk_na,        \* the sizes in the $MFT record on disk
    na,             \* the sizes in memory (vol->mft_na, vol->mftbmp_na)
    open,           \* the records with an open ntfs_inode
    mem,            \* their copies in memory
    dirty,          \* the inodes that differ from the disk
    data_pos,       \* vol->mft_data_pos
    pc, call,       \* the call in progress, and what it started from
    names,          \* the sequence number each record was last handed out with
    lost,           \* records cut off by a crash before $MFT was synced
    leaked,         \* records whose bit could not be written as wanted
    exposed,        \* records in use whose free could not be rolled back
    calls, faults, crashes

disks == <<bmp, disk, disk_na>>
vols == <<na, data_pos>>
inodes == <<open, mem, dirty>>
ghosts == <<names, lost, leaked, exposed>>
bounds == <<calls, faults, crashes>>
vars == <<disks, vols, inodes, pc, call, ghosts, bounds>>

Below(n) == {r \in Record : r < n}

Init ==
    \E s \in Layouts : \E used \in SUBSET (Below(s.mft_init) \ Below(FirstUser)) :
        /\ na = s /\ disk_na = s
        /\ bmp = used \union Below(Lesser(FirstUser, s.mft_init))
        /\ disk = [used |-> bmp,
                   seq |-> [r \in Record |-> IF r < s.mft_init THEN 1 ELSE 0]]
        /\ mem = disk
        /\ open = {} /\ dirty = {}
        /\ data_pos = FirstUser
        /\ pc = "idle"
        /\ call = [op |-> "none", bit |-> 0, seq |-> 0, base |-> NoBase, ret |-> "ok",
                   na |-> s, bmp |-> bmp]
        /\ names = [r \in Record |-> 0]
        /\ lost = {} /\ leaked = {} /\ exposed = {}
        /\ calls = 0 /\ faults = 0 /\ crashes = 0

Fault == faults < MaxFaults /\ faults' = faults + 1 /\ UNCHANGED <<calls, crashes>>
NoFault == UNCHANGED bounds
-----------------------------------------------------------------------------
(* ntfs_mft_bitmap_find_free_rec.  A pass looks at whole bytes, and in     *)
(* each at the first zero bit only; the first byte of the pass may be      *)
(* looked at from its middle, its last byte is looked at to its end.       *)
ByteOf(r) == r \div ByteBits

FreeInPass(from, end) ==
    {r \in Below(na.bmp_init) \ bmp :
        /\ ByteOf(r) \in ByteOf(from) .. ByteOf(end - 1)
        /\ r >= from
        /\ \A q \in Below(r) : ByteOf(q) = ByteOf(r) => q \in bmp}

PassEnd == Lesser(na.mft_alloc, na.bmp_init)

FreeRecs(start) ==
    IF start >= PassEnd
    THEN IF FirstUser >= PassEnd THEN {} ELSE FreeInPass(FirstUser, PassEnd)
    ELSE IF FreeInPass(start, PassEnd) # {} THEN FreeInPass(start, PassEnd)
    ELSE IF FirstUser >= start THEN {} ELSE FreeInPass(FirstUser, start)

(* Where the search starts: behind the base inode for an extent record.    *)
SearchFrom(base) == Greater(IF base = NoBase THEN data_pos ELSE base + 1, FirstUser)

CoversNext == na.bmp_init > na.mft_init /\ na.bmp_init > FirstUser
FirstUnused == Greater(na.mft_init, FirstUser)

(* ntfs_mft_record_alloc up to found_free_rec: what to do first, and the   *)
(* record it will be.  Records past MaxRecord do not exist.                *)
Alloc(base) ==
    LET found == FreeRecs(SearchFrom(base))
        bit == IF found # {} THEN Smallest(found)
               ELSE IF CoversNext THEN FirstUnused
               ELSE na.bmp_init
    IN  /\ pc = "idle" /\ calls < MaxCalls /\ calls' = calls + 1
        /\ call' = [op |-> "alloc", bit |-> bit, seq |-> 0, base |-> base,
                    ret |-> "none", na |-> na, bmp |-> bmp]
        /\ pc' = IF found # {} \/ CoversNext THEN "set_bit"
                 ELSE IF na.bmp_init + BmpStep > na.bmp_alloc THEN "extend_bmp"
                 ELSE "init_bmp"
        /\ UNCHANGED <<disks, vols, inodes, ghosts, faults, crashes>>

Return(ret) == pc' = "idle" /\ call' = [call EXCEPT !.ret = ret]

(* The mft bitmap cannot be read: the call fails before anything changed.  *)
AllocReadFails ==
    /\ pc = "idle" /\ calls < MaxCalls /\ faults < MaxFaults
    /\ calls' = calls + 1 /\ faults' = faults + 1 /\ UNCHANGED crashes
    /\ call' = [op |-> "alloc", bit |-> 0, seq |-> 0, base |-> NoBase, ret |-> "fail",
                na |-> na, bmp |-> bmp]
    /\ UNCHANGED <<disks, vols, inodes, pc, ghosts>>

(* ntfs_mft_bitmap_extend_allocation: one more cluster, or no change.      *)
ExtendBmp ==
    /\ pc = "extend_bmp"
    /\ na.bmp_alloc + BmpCluster <= MaxRecord
    /\ na' = [na EXCEPT !.bmp_alloc = @ + BmpCluster]
    /\ pc' = "init_bmp"
    /\ NoFault /\ UNCHANGED <<disks, data_pos, inodes, call, ghosts>>

(* No cluster, no memory, no room in the $MFT record, or an I/O error.     *)
ExtendFails(at, next) ==
    /\ pc = at
    /\ IF next = "idle" THEN Return("fail") ELSE pc' = next /\ UNCHANGED call
    /\ NoFault /\ UNCHANGED <<disks, vols, inodes, ghosts>>

ExtendBmpFails == ExtendFails("extend_bmp", "idle")

(* ntfs_mft_bitmap_extend_initialized: the sizes change, eight zero bytes  *)
(* are written, and the sizes are restored if that fails.                  *)
InitBmp ==
    /\ pc = "init_bmp"
    /\ na' = [na EXCEPT !.bmp_init = @ + BmpStep]
    /\ pc' = "set_bit"
    /\ NoFault /\ UNCHANGED <<disks, data_pos, inodes, call, ghosts>>

InitBmpFails == Fault /\ pc = "init_bmp" /\ Return("fail")
                /\ UNCHANGED <<disks, vols, inodes, ghosts>>

SetBit ==
    /\ pc = "set_bit"
    /\ bmp' = bmp \union {call.bit}
    /\ pc' = IF call.bit < na.mft_init THEN "read"
             ELSE IF call.bit < na.mft_alloc THEN "format" ELSE "extend_mft"
    /\ NoFault /\ UNCHANGED <<disk, disk_na, vols, inodes, call, ghosts>>

(* The write fails, with or without effect.  The call does not come back   *)
(* to clear the bit.                                                       *)
SetBitFails ==
    /\ pc = "set_bit" /\ Fault
    /\ bmp' \in {bmp, bmp \union {call.bit}}
    /\ leaked' = leaked \union {call.bit}
    /\ Return("fail")
    /\ UNCHANGED <<disk, disk_na, vols, inodes, names, lost, exposed>>

(* ntfs_mft_data_extend_allocation, until the record is allocated.         *)
ExtendMft ==
    /\ pc = "extend_mft"
    /\ \E n \in MftSteps :
          /\ na.mft_alloc + n <= MaxRecord
          /\ na' = [na EXCEPT !.mft_alloc = @ + n]
    /\ pc' = IF call.bit < na'.mft_alloc THEN "format" ELSE "extend_mft"
    /\ NoFault /\ UNCHANGED <<disks, data_pos, inodes, call, ghosts>>

\* Mutant: the bit stays set.
ExtendMftFails_NoUndo == ExtendFails("extend_mft", "idle")
ExtendMftFails == ExtendFails("extend_mft", "undo")

(* One round of the loop that formats records up to the wanted one.  The   *)
(* sizes it steps over are in call.na until they are known to be good.     *)
Blank == [used |-> disk.used \ {na.mft_init},
          seq |-> [disk.seq EXCEPT ![na.mft_init] = 1]]

\* Mutant: the record is not marked as free.
Format_KeepInUse ==
    /\ pc = "format"
    /\ disk' = [disk EXCEPT !.seq[na.mft_init] = 1]
    /\ na' = [na EXCEPT !.mft_init = @ + 1]
    /\ pc' = IF call.bit < na'.mft_init THEN "sizes" ELSE "format"
    /\ NoFault /\ UNCHANGED <<bmp, disk_na, data_pos, inodes, call, ghosts>>

\* Mutant: the initialized size is not counted up.
Format_SameSize ==
    /\ pc = "format"
    /\ disk' = Blank
    /\ NoFault /\ UNCHANGED <<bmp, disk_na, vols, inodes, pc, call, ghosts>>

Format ==
    /\ pc = "format"
    /\ disk' = Blank
    /\ na' = [na EXCEPT !.mft_init = @ + 1]
    /\ pc' = IF call.bit < na'.mft_init THEN "sizes" ELSE "format"
    /\ NoFault /\ UNCHANGED <<bmp, disk_na, data_pos, inodes, call, ghosts>>

(* undo_data_init: back to the size from before the loop.  The last record *)
(* may have been written or not.                                           *)
FormatFails ==
    /\ pc = "format" /\ Fault
    /\ disk' \in {disk, Blank}
    /\ na' = [na EXCEPT !.mft_init = call.na.mft_init]
    /\ pc' = "undo"
    /\ UNCHANGED <<bmp, disk_na, data_pos, inodes, call, ghosts>>

(* The new sizes go into the $MFT record in memory, or undo_data_init.     *)
UpdateSizes ==
    /\ pc = "sizes" /\ pc' = "read"
    /\ NoFault /\ UNCHANGED <<disks, vols, inodes, call, ghosts>>

UpdateSizesFails ==
    /\ pc = "sizes" /\ Fault
    /\ na' = [na EXCEPT !.mft_init = call.na.mft_init]
    /\ pc' = "undo"
    /\ UNCHANGED <<disks, data_pos, inodes, call, ghosts>>

(* mft_rec_already_initialized: the record is read, checked and laid out   *)
(* anew in memory, keeping its sequence number, and an inode is opened.    *)
OpenNew ==
    LET r == call.bit
        number == IF disk.seq[r] # 0 THEN disk.seq[r] ELSE 1
    IN  /\ pc = "read" /\ r \notin disk.used
        /\ open' = open \union {r}
        /\ mem' = [used |-> mem.used \union {r}, seq |-> [mem.seq EXCEPT ![r] = number]]
        /\ dirty' = dirty \union {r}
        /\ data_pos' = IF call.base = NoBase THEN r + 1 ELSE data_pos
        /\ names' = [names EXCEPT ![r] = number]
        /\ lost' = lost \ {r}
        /\ Return("ok")
        /\ NoFault /\ UNCHANGED <<disks, na, leaked, exposed>>

(* "Corrupt filesystem or library bug!"                                    *)
FoundInUse ==
    /\ pc = "read" /\ call.bit \in disk.used
    /\ pc' = "undo"
    /\ NoFault /\ UNCHANGED <<disks, vols, inodes, call, ghosts>>

OpenNewFails ==
    /\ pc = "read" /\ Fault /\ pc' = "undo"
    /\ UNCHANGED <<disks, vols, inodes, call, ghosts>>

(* undo_mftbmp_alloc.                                                      *)
Undo ==
    /\ pc = "undo"
    /\ bmp' = bmp \ {call.bit}
    /\ Return("fail")
    /\ NoFault /\ UNCHANGED <<disk, disk_na, vols, inodes, ghosts>>

UndoFails ==
    /\ pc = "undo" /\ Fault
    /\ bmp' \in {bmp, bmp \ {call.bit}}
    /\ leaked' = leaked \union {call.bit}
    /\ Return("fail")
    /\ UNCHANGED <<disk, disk_na, vols, inodes, names, lost, exposed>>
-----------------------------------------------------------------------------
(* ntfs_mft_record_free.  The record goes out of use and to the next       *)
(* sequence number in memory, and is written.                              *)
NextSeq_Keep(s) == s
NextSeq(s) == IF s = SeqMax THEN 1 ELSE IF s = 0 THEN 0 ELSE s + 1

Freed(r) == [used |-> mem.used \ {r}, seq |-> [mem.seq EXCEPT ![r] = NextSeq(@)]]
CopyTo(d, m, r) ==
    [used |-> IF r \in m.used THEN d.used \union {r} ELSE d.used \ {r},
     seq |-> [d.seq EXCEPT ![r] = m.seq[r]]]

Free(r) ==
    /\ pc = "idle" /\ calls < MaxCalls
    /\ r \in open /\ r \in mem.used
    /\ calls' = calls + 1 /\ UNCHANGED <<faults, crashes>>
    /\ mem' = Freed(r)
    /\ dirty' = dirty \union {r}
    /\ call' = [op |-> "free", bit |-> r, seq |-> mem.seq[r],
                base |-> NoBase, ret |-> "none", na |-> na, bmp |-> bmp]
    /\ pc' = "free_sync"
    /\ UNCHANGED <<disks, vols, open, ghosts>>

FreeSync ==
    /\ pc = "free_sync"
    /\ disk' = CopyTo(disk, mem, call.bit)
    /\ dirty' = dirty \ {call.bit}
    /\ pc' = "free_clear"
    /\ NoFault /\ UNCHANGED <<bmp, disk_na, vols, open, mem, call, ghosts>>

(* sync_rollback: in use again, with the old number.                       *)
Rollback ==
    /\ mem' = [used |-> mem.used \union {call.bit},
               seq |-> [mem.seq EXCEPT ![call.bit] = call.seq]]
    /\ dirty' = dirty \union {call.bit}
    /\ Return("fail")
    /\ UNCHANGED <<vols, open, names, lost>>

FreeSyncFails ==
    /\ pc = "free_sync" /\ Fault
    /\ disk' \in {disk, CopyTo(disk, mem, call.bit)}
    /\ Rollback
    /\ UNCHANGED <<bmp, disk_na, leaked, exposed>>

(* The bit is cleared and the inode is thrown away.                        *)
FreeClear ==
    /\ pc = "free_clear"
    /\ bmp' = bmp \ {call.bit}
    /\ open' = open \ {call.bit}
    /\ Return("ok")
    /\ exposed' = exposed \ {call.bit}
    /\ NoFault
    /\ UNCHANGED <<disk, disk_na, vols, mem, dirty, names, lost, leaked>>

FreeClearFails ==
    /\ pc = "free_clear" /\ Fault
    /\ bmp' \in {bmp, bmp \ {call.bit}}
    /\ pc' = "free_undo"
    /\ UNCHANGED <<disk, disk_na, vols, inodes, call, ghosts>>

(* bitmap_rollback, then sync_rollback whether it worked or not.           *)
FreeUndo_RecordOnly ==
    /\ pc = "free_undo"
    /\ Rollback
    /\ NoFault /\ UNCHANGED <<disks, leaked, exposed>>

FreeUndo ==
    /\ pc = "free_undo"
    /\ bmp' = bmp \union {call.bit}
    /\ Rollback
    /\ NoFault /\ UNCHANGED <<disk, disk_na, leaked, exposed>>

FreeUndoFails ==
    /\ pc = "free_undo" /\ Fault
    /\ bmp' \in {bmp, bmp \union {call.bit}}
    /\ exposed' = exposed \union {call.bit}
    /\ Rollback
    /\ UNCHANGED <<disk, disk_na, leaked>>
-----------------------------------------------------------------------------
(* ntfs_inode_open of a record in use, ntfs_inode_sync, and                *)
(* ntfs_inode_close, which syncs a dirty inode first.                      *)
Open(r) ==
    /\ pc = "idle" /\ calls < MaxCalls
    /\ r \in disk.used \ open /\ r < na.mft_init /\ r >= FirstUser
    /\ calls' = calls + 1 /\ UNCHANGED <<faults, crashes>>
    /\ open' = open \union {r}
    /\ mem' = CopyTo(mem, disk, r)
    /\ names' = [names EXCEPT ![r] = disk.seq[r]]
    /\ UNCHANGED <<disks, vols, dirty, pc, call, lost, leaked, exposed>>

Sync(r) ==
    /\ pc = "idle" /\ r \in dirty
    /\ disk' = CopyTo(disk, mem, r)
    /\ dirty' = dirty \ {r}
    /\ NoFault /\ UNCHANGED <<bmp, disk_na, vols, open, mem, pc, call, ghosts>>

SyncFails(r) ==
    /\ pc = "idle" /\ r \in dirty /\ Fault
    /\ disk' \in {disk, CopyTo(disk, mem, r)}
    /\ UNCHANGED <<bmp, disk_na, vols, inodes, pc, call, ghosts>>

Close(r) ==
    /\ pc = "idle" /\ r \in open \ dirty
    /\ open' = open \ {r}
    /\ NoFault /\ UNCHANGED <<disks, vols, mem, dirty, pc, call, ghosts>>

(* ntfs_mft_load and the start position, after an unmount or a crash.      *)
Load(sizes) ==
    /\ na' = sizes
    /\ data_pos' = FirstUser
    /\ bmp' = bmp \intersect Below(sizes.bmp_init)
    /\ open' = {} /\ dirty' = {}
    /\ pc' = "idle"

(* __ntfs_volume_release writes the $MFT record with the sizes in it.      *)
Remount ==
    /\ pc = "idle" /\ open = {}
    /\ disk_na' = na
    /\ Load(na)
    /\ NoFault /\ UNCHANGED <<disk, mem, call, ghosts>>

(* The process dies, or the $MFT record cannot be written at unmount, an   *)
(* error nobody looks at: the sizes in memory are gone.                    *)
Crash ==
    /\ crashes < MaxCrashes /\ crashes' = crashes + 1 /\ UNCHANGED <<calls, faults>>
    /\ Load(disk_na)
    /\ call' = [op |-> "none", bit |-> 0, seq |-> 0, base |-> NoBase, ret |-> "ok",
                na |-> disk_na, bmp |-> bmp']
    /\ lost' = lost \union (Below(na.mft_init) \ Below(disk_na.mft_init))
    /\ UNCHANGED <<disk, disk_na, mem, names, leaked, exposed>>

Step ==
    \/ ExtendBmp \/ ExtendBmpFails \/ InitBmp \/ InitBmpFails
    \/ SetBit \/ SetBitFails \/ ExtendMft \/ ExtendMftFails
    \/ Format \/ FormatFails \/ UpdateSizes \/ UpdateSizesFails
    \/ OpenNew \/ FoundInUse \/ OpenNewFails \/ Undo \/ UndoFails
    \/ FreeSync \/ FreeSyncFails \/ FreeClear \/ FreeClearFails
    \/ FreeUndo \/ FreeUndoFails

Next ==
    \/ \E base \in open \union {NoBase} : Alloc(base)
    \/ AllocReadFails
    \/ \E r \in Record : Free(r) \/ Open(r) \/ Sync(r) \/ SyncFails(r) \/ Close(r)
    \/ Step
    \/ Remount \/ Crash

(* The library runs to the end of a call once it has been entered.         *)
Spec == Init /\ [][Next]_vars /\ WF_vars(Step)
-----------------------------------------------------------------------------
(* A record that is in use, on disk or in an open inode, has its bit set,  *)
(* whatever failed and wherever a crash fell; only a free whose roll back  *)
(* failed as well ("Leaving inconsistent metadata!") exposes its record.   *)
(* This is what keeps one file's record from being given to another.  In   *)
(* return, a call that fails sets no bit, unless a write of the bitmap     *)
(* failed too: no record is lost to an allocation that came to nothing.    *)
BitsFollowRecords ==
    /\ \A r \in Below(na.mft_init) :
          r \in disk.used \/ (r \in open /\ r \in mem.used)
              => r \in bmp \/ r \in exposed
    /\ call.op = "alloc" /\ call.ret = "fail" /\ pc = "idle" /\ call.bit \in bmp
          => call.bit \in call.bmp \union leaked

(* The record an allocation has settled on is the user's to give: not one  *)
(* of the first 24, as the comment of the function promises, not open and  *)
(* not in use on disk.  So the branch that finds it in use ("Corrupt       *)
(* filesystem or library bug!") is dead unless the record is exposed: the  *)
(* library does not get there by its own errors and crashes.               *)
HandsOutFreeRecords ==
    pc = "read" => /\ call.bit >= FirstUser
                   /\ call.bit \in open \union disk.used => call.bit \in exposed

(* An mft reference is a record and a sequence number, and directories     *)
(* keep stale ones.  A record is never handed out twice in a row with the  *)
(* same number, so a reference to a deleted file does not come to name the *)
(* file that gets its record; except for a record that was cut off the mft *)
(* by a crash and is formatted again.                                      *)
StaleReferencesDie ==
    [][\A r \in Record : r \in open' \ open /\ pc = "read" /\ names[r] # 0
          => names'[r] # names[r] \/ r \in lost]_vars

(* Every call of the two functions returns: the mft grows until it reaches *)
(* the record or fails, and the formatting loop comes to an end.           *)
CallReturns == pc # "idle" ~> pc = "idle"
=============================================================================
