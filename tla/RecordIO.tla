------------------------------ MODULE RecordIO ------------------------------
(***************************************************************************)
(* How mft records reach the disk and come back: the multi sector transfer *)
(* protection (libntfs/mst.c, applied by ntfs_attr_mst_pread and _pwrite), *)
(* the mft mirror that ntfs_mft_records_write keeps, the comparison of the *)
(* two at mount (ntfs_device_mount) and its repair by ntfsfix.             *)
(*                                                                         *)
(* A record takes several sectors and a write can stop after any of them.  *)
(* Before a write the update sequence number (usn) of the record is        *)
(* increased and put into the last word of every sector; a reader that     *)
(* finds different numbers knows that the record is torn and marks it      *)
(* BAAD.  The number lives in the buffer of the ntfs_inode, and there may  *)
(* be more than one inode of a record: ntfs_inode_open looks for no other. *)
(*                                                                         *)
(* The content of a sector is the version of the write it stems from, 0    *)
(* when it holds no record.                                                *)
(***************************************************************************)
EXTENDS Integers, FiniteSets

CONSTANTS
    MaxRecord,      \* the records are 0 .. MaxRecord - 1
    MirrSize,       \* records in the mirror, vol->mftmirr_size
    Loaded,         \* mirrored records that ntfs_volume_startup opens
    Sectors,        \* the last sector of a record, the first is 0
    UsnMax,         \* 0xffff in the code
    FirstUsns,      \* the numbers the records of a volume start with
    Holder,         \* ntfs_inodes (buffers) that may be open at a time
    MaxVersion, MaxWrites, MaxFaults, MaxCrashes, MaxWipes,     \* bounds
    MaxOpen         \* bound: records with an open inode at a time

Record == 0 .. MaxRecord - 1
Mirrored == 0 .. MirrSize - 1
Sector == 0 .. Sectors
Version == 0 .. MaxVersion
Free == -1          \* the buffer of no record

(* Enough numbers that a torn sector is written over before they come      *)
(* round again: every failed write leaves at most one number behind.       *)
ASSUME RecordAssumption ==
    /\ MaxRecord \in Nat \ {0} /\ MirrSize \in 1 .. MaxRecord
    /\ Loaded \subseteq Mirrored
    /\ Sectors \in Nat /\ UsnMax \in Nat
    /\ FirstUsns \subseteq 1 .. UsnMax - 1
    /\ MaxFaults + MaxCrashes + 2 < UsnMax
    /\ MaxVersion \in Nat \ {0} /\ MaxFaults \in Nat
    /\ MaxCrashes \in Nat /\ MaxWipes \in Nat /\ MaxOpen \in Nat
    /\ MaxWrites \in Nat

VARIABLES
    mft, mirr,      \* the records of $MFT/$DATA and of $MFTMirr/$DATA
    buf,            \* the buffers: record, usn and content
    mounted,
    version,        \* the latest version of anything
    writes,         \* whole writes there have been
    faults, crashes,
    \* What has happened, which no action looks at.
    done,           \* version of the last write of a record that succeeded
    failed,         \* records with a write since the mount that failed
    wiped,          \* records that something else has overwritten
    overtaken,      \* inodes whose record another inode has written since
    stale           \* records of which a write by one of these broke off

bounds == <<writes, faults, crashes>>
others == <<overtaken, stale>>
history == <<done, failed, wiped, others>>
vars == <<mft, mirr, buf, mounted, version, history, bounds>>

Blank == [usn |-> [s \in Sector |-> 0], ver |-> [s \in Sector |-> 0]]
Whole(u, v) == [usn |-> [s \in Sector |-> u], ver |-> [s \in Sector |-> v]]
NoBuf == [rec |-> Free, usn |-> 0, ver |-> [s \in Sector |-> 0]]

Init ==
    /\ \E u \in FirstUsns : mft = [r \in Record |-> Whole(u, 1)]
    /\ mirr = [r \in Mirrored |-> mft[r]]
    /\ buf = [h \in Holder |-> NoBuf]
    /\ mounted = TRUE
    /\ version = 1
    /\ done = [r \in Record |-> 1] /\ failed = {} /\ wiped = {}
    /\ overtaken = {} /\ stale = {}
    /\ writes = 0 /\ faults = 0 /\ crashes = 0
-----------------------------------------------------------------------------
(* ntfs_mst_post_read_fixup: what a reader makes of a copy of a record.    *)
IsFile(c) == c.ver[0] # 0
SameUsn(c) == \A s \in Sector : c.usn[s] = c.usn[0]
IsBaad(c) == IsFile(c) /\ ~SameUsn(c)
Readable(c) == IsFile(c) /\ SameUsn(c)

(* ntfs_mst_pre_write_fixup: 0 and 0xffff are skipped.                     *)
NextUsn_Same(u) == u
NextUsn(u) == IF (u + 1) % (UsnMax + 1) \in {0, UsnMax} THEN 1 ELSE u + 1

(* A copy after the sectors in S of buffer b have reached the disk.        *)
Over(c, b, S) ==
    [usn |-> [s \in Sector |-> IF s \in S THEN NextUsn(b.usn) ELSE c.usn[s]],
     ver |-> [s \in Sector |-> IF s \in S THEN b.ver[s] ELSE c.ver[s]]]
-----------------------------------------------------------------------------
InBounds(r) ==
    Cardinality(({r} \union {buf[k].rec : k \in Holder}) \ {Free}) <= MaxOpen

(* ntfs_file_record_read for an ntfs_inode: a torn record is refused.      *)
Open(h, r) ==
    /\ mounted /\ buf[h].rec = Free /\ Readable(mft[r]) /\ InBounds(r)
    /\ buf' = [buf EXCEPT ![h] = [rec |-> r, usn |-> mft[r].usn[0], ver |-> mft[r].ver]]
    /\ UNCHANGED <<mft, mirr, mounted, version, history, bounds>>

(* ntfs_mft_record_alloc lays a free record out anew, with the usn it had  *)
(* or 1.  A free record is whole: ntfs_mft_record_free clears its bit only *)
(* after it has written it.                                                *)
Reuse(h, r) ==
    LET u == mft[r].usn[0]
        usn == IF u \in {0, UsnMax} THEN 1 ELSE u
    IN  /\ mounted /\ buf[h].rec = Free /\ InBounds(r)
        /\ r \notin Mirrored /\ SameUsn(mft[r])
        /\ \A k \in Holder : buf[k].rec # r
        /\ version < MaxVersion /\ version' = version + 1
        /\ buf' = [buf EXCEPT ![h] =
                      [rec |-> r, usn |-> usn, ver |-> [s \in Sector |-> version']]]
        /\ UNCHANGED <<mft, mirr, mounted, history, bounds>>

(* Somebody changes the record in memory.                                  *)
Modify(h) ==
    /\ buf[h].rec # Free
    /\ version < MaxVersion /\ version' = version + 1
    /\ buf' = [buf EXCEPT ![h].ver = [s \in Sector |-> version']]
    /\ UNCHANGED <<mft, mirr, mounted, history, bounds>>

Close(h) ==
    /\ buf[h].rec # Free
    /\ buf' = [buf EXCEPT ![h] = NoBuf]
    /\ overtaken' = overtaken \ {h}
    /\ UNCHANGED <<mft, mirr, mounted, version, done, failed, wiped, stale, bounds>>

(* ntfs_mft_records_write.  The copy for the mirror is taken before the    *)
(* usn is increased for the first write; each write increases its own.     *)
MirrorBuf_AfterWrite(b) == [b EXCEPT !.usn = NextUsn(@)]
MirrorBuf(b) == b

WriteToMft(h, S) ==
    LET b == buf[h]
    IN  mft' = [mft EXCEPT ![b.rec] = Over(@, b, S)]
WriteToMirror(h, S) ==
    LET b == buf[h]
    IN  mirr' = IF b.rec \in Mirrored
                THEN [mirr EXCEPT ![b.rec] = Over(@, MirrorBuf(b), S)]
                ELSE mirr

(* The other inodes of the record know nothing of the write: they go on    *)
(* with the content, and the usn, that they have read.                     *)
Overtake(h) ==
    overtaken' = (overtaken \ {h}) \union
                    {k \in Holder \ {h} : buf[k].rec = buf[h].rec}
(* A write that breaks off, and what it means for the record.              *)
BreakOff(h) ==
    stale' = IF h \in overtaken THEN stale \union {buf[h].rec} ELSE stale

Write(h) ==
    /\ buf[h].rec # Free
    /\ WriteToMft(h, Sector) /\ WriteToMirror(h, Sector)
    /\ buf' = [buf EXCEPT ![h].usn = NextUsn(@)]
    /\ done' = [done EXCEPT ![buf[h].rec] = buf[h].ver[0]]
    /\ wiped' = wiped \ {buf[h].rec}
    /\ Overtake(h)
    /\ writes < MaxWrites /\ writes' = writes + 1
    /\ UNCHANGED <<mounted, version, failed, stale, faults, crashes>>

(* The first write fails after some sectors.  The mirror is left alone.    *)
WriteFails(h) ==
    /\ buf[h].rec # Free
    /\ faults < MaxFaults /\ faults' = faults + 1 /\ UNCHANGED <<writes, crashes>>
    /\ \E S \in SUBSET Sector : WriteToMft(h, S)
    /\ buf' = [buf EXCEPT ![h].usn = NextUsn(@)]
    /\ failed' = failed \union {buf[h].rec}
    /\ Overtake(h) /\ BreakOff(h)
    /\ UNCHANGED <<mirr, mounted, version, done, wiped>>

MirrorWriteFails(h) ==
    /\ buf[h].rec \in Mirrored
    /\ faults < MaxFaults /\ faults' = faults + 1 /\ UNCHANGED <<writes, crashes>>
    /\ WriteToMft(h, Sector)
    /\ \E S \in SUBSET Sector : WriteToMirror(h, S)
    /\ buf' = [buf EXCEPT ![h].usn = NextUsn(@)]
    /\ failed' = failed \union {buf[h].rec}
    /\ Overtake(h) /\ BreakOff(h)
    /\ UNCHANGED <<mounted, version, done, wiped>>

(* The machine stops, in the middle of a write of some inode or not.       *)
GoDown ==
    /\ crashes < MaxCrashes /\ crashes' = crashes + 1
    /\ mounted /\ mounted' = FALSE
    /\ buf' = [h \in Holder |-> NoBuf]
    /\ overtaken' = {}
    /\ UNCHANGED <<version, done, failed, wiped, writes, faults>>

Crash == GoDown /\ UNCHANGED <<mft, mirr, stale>>
CrashInWrite(h) ==
    /\ buf[h].rec # Free /\ GoDown /\ BreakOff(h)
    /\ \E S \in SUBSET Sector : WriteToMft(h, S)
    /\ UNCHANGED mirr
CrashInMirrorWrite(h) ==
    /\ buf[h].rec \in Mirrored /\ GoDown /\ BreakOff(h)
    /\ WriteToMft(h, Sector)
    /\ \E S \in SUBSET Sector : WriteToMirror(h, S)

Unmount ==
    /\ mounted /\ mounted' = FALSE
    /\ \A h \in Holder : buf[h].rec = Free
    /\ UNCHANGED <<mft, mirr, buf, version, history, bounds>>

(* The comparison at mount.  A record that is not a FILE record has no     *)
(* size, so nothing of it is compared; the mount goes on to open all four. *)
Differ(r) == IsFile(mft[r]) /\ mft[r] # mirr[r]
\* Mutant: the mirror is not compared.
Checked_MftOnly(r) == ~IsBaad(mft[r])
Checked(r) == ~IsBaad(mft[r]) /\ ~IsBaad(mirr[r]) /\ ~Differ(r)
Mountable == \A r \in Mirrored : Checked(r) /\ Readable(mft[r])

Mount ==
    /\ ~mounted /\ mounted' = TRUE
    /\ Mountable
    /\ failed' = {}
    /\ UNCHANGED <<mft, mirr, buf, version, done, wiped, others, bounds>>

(* ntfsfix: where the mount fails fix_mftmirr takes the records in order,  *)
(* up to one that is torn, and writes those that differ again: from $MFT,  *)
(* or from the mirror where $MFT holds no record.                          *)
Reached == {r \in Mirrored : \A q \in 0 .. r : ~IsBaad(mft[q]) /\ ~IsBaad(mirr[q])}
UseMirror(r) == ~IsFile(mft[r]) /\ IsFile(mirr[r])
Rewritten(r) ==
    LET c == IF UseMirror(r) THEN mirr[r] ELSE mft[r]
    IN  [usn |-> [s \in Sector |-> NextUsn(c.usn[0])], ver |-> c.ver]
FixRun == ~mounted /\ ~Mountable /\ \A r \in Loaded : Readable(mft[r])

\* Mutant: only the mirror is written.
Fix_MirrorAlone ==
    LET again == {r \in Reached : Differ(r)}
    IN  /\ FixRun
        /\ mirr' = [r \in Mirrored |-> IF r \in again THEN Rewritten(r) ELSE mirr[r]]
        /\ UNCHANGED <<mft, buf, mounted, version, history, bounds>>

Fix ==
    LET again == {r \in Reached : Differ(r)}
    IN  /\ FixRun
        /\ mft' = [r \in Record |-> IF r \in again THEN Rewritten(r) ELSE mft[r]]
        /\ mirr' = [r \in Mirrored |-> IF r \in again THEN Rewritten(r) ELSE mirr[r]]
        /\ UNCHANGED <<buf, mounted, version, history, bounds>>

(* It is stopped in the write of record r to $MFT, or to the mirror.       *)
FixStops(r) ==
    LET before == {q \in Reached : Differ(q) /\ q < r}
        b == [rec |-> r, usn |-> mft[r].usn[0], ver |-> mft[r].ver]
    IN  /\ FixRun /\ r \in Reached /\ Differ(r)
        /\ crashes < MaxCrashes /\ crashes' = crashes + 1 /\ UNCHANGED <<writes, faults>>
        /\ \E S, T \in SUBSET Sector :
              /\ S = Sector \/ T = {}
              /\ mft' = [q \in Record |-> IF q \in before THEN Rewritten(q)
                                          ELSE IF q = r THEN Over(mft[q], b, S) ELSE mft[q]]
              /\ mirr' = [q \in Mirrored |-> IF q \in before THEN Rewritten(q)
                                             ELSE IF q = r THEN Over(mirr[q], b, T) ELSE mirr[q]]
        /\ UNCHANGED <<buf, mounted, version, history>>

(* Something else writes zeroes over a record the mirror is there for.      *)
Wipe(r) ==
    /\ ~mounted /\ r \notin wiped /\ Cardinality(wiped) < MaxWipes
    /\ mft' = [mft EXCEPT ![r] = Blank]
    /\ wiped' = wiped \union {r}
    /\ UNCHANGED <<mirr, buf, mounted, version, done, failed, others, bounds>>

Next ==
    \/ \E h \in Holder :
          \/ \E r \in Record : Open(h, r) \/ Reuse(h, r)
          \/ Modify(h) \/ Close(h)
          \/ Write(h) \/ WriteFails(h) \/ MirrorWriteFails(h)
          \/ CrashInWrite(h) \/ CrashInMirrorWrite(h)
    \/ Crash \/ Unmount \/ Mount \/ Fix
    \/ \E r \in Mirrored : Wipe(r)
    \/ \E r \in Mirrored : FixStops(r)

Spec == Init /\ [][Next]_vars
-----------------------------------------------------------------------------
(* A copy of a record whose sectors stem from different writes does not    *)
(* read as a record, whatever failed or stopped on the way there and       *)
(* whatever was written before (mst.c: "detect the presence of incomplete  *)
(* multi sector transfers").  Two inodes of the record may be open and may *)
(* write it in turn.  The exception is a write that breaks off when it is  *)
(* by an inode that another one had overtaken: it gives the number that    *)
(* the other has given.                                                    *)
Detected(c) == Readable(c) => \A s \in Sector : c.ver[s] = c.ver[0]
TornWritesDetected ==
    /\ \A r \in Record \ stale : Detected(mft[r])
    /\ \A r \in Mirrored \ stale : Detected(mirr[r])

(* What ntfs_mft_records_write has reported as written to a mirrored record *)
(* can be read back from one of its two copies, or something newer, as     *)
(* long as no later write of it failed while the volume stayed mounted: a  *)
(* stop in the middle of a write, or of ntfsfix, destroys at most the copy *)
(* that is being written.  What is reported may be the older of two        *)
(* contents, where an inode that another has overtaken writes its own; a   *)
(* record of which such a write broke off is excepted again.               *)
Holds(c, v) == Readable(c) /\ c.ver[0] >= v
WrittenRecordsSurvive ==
    \A r \in Mirrored \ (failed \union wiped \union stale) :
        Holds(mft[r], done[r]) \/ Holds(mirr[r], done[r])

(* While the volume is mounted the mirror is equal to the records it       *)
(* mirrors, update sequence numbers included, save for records with a      *)
(* failed write: the next mount compares them and refuses the volume.      *)
MirrorFollows == mounted => \A r \in Mirrored \ failed : mft[r] = mirr[r]

(* A run of ntfsfix that meets no torn record leaves copies that a mount   *)
(* accepts.                                                                *)
FixSatisfiesMount ==
    [][Fix /\ Reached = Mirrored => \A r \in Mirrored : Checked(r)']_vars
=============================================================================
