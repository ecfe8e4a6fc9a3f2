---------------------------- MODULE RecordIO_proofs ---------------------------
(***************************************************************************)
(* For any number of records, sectors, inodes, failed writes and stops:    *)
(* the mirror follows $MFT and ntfsfix repairs it, torn records are        *)
(* detected and what was written survives.                                 *)
(*                                                                         *)
(* The first two results need no more than that a write gives both copies  *)
(* the same number.  The other two rest on the order of the numbers: one   *)
(* that a write gives is on no sector of the record, since every number    *)
(* there was given no more writes ago than have failed, and these are      *)
(* fewer than there are numbers (RecordAssumption).  Two inodes of a record*)
(* count each for itself, so the invariant is about those that no other    *)
(* has overtaken; one that was overtaken and writes the whole record is the*)
(* latest again.                                                           *)
(***************************************************************************)
EXTENDS RecordIO, TLAPS

(* The numbers and the versions a record can have, records on disk that    *)
(* have not been wiped, and inodes.                                        *)
Usn == 1 .. UsnMax - 1
Stamp == Nat \ {0}
MftRecord == [usn : [Sector -> Usn], ver : [Sector -> Stamp]]
Inode == [rec : Record, usn : Usn, ver : [Sector -> Stamp]]

Shapes ==
    /\ mft \in [Record -> MftRecord \union {Blank}]
    /\ mirr \in [Mirrored -> MftRecord]
    /\ buf \in [Holder -> Inode \union {NoBuf}]
    /\ version \in Stamp
    /\ done \in [Record -> Stamp]
    /\ faults \in 0 .. MaxFaults /\ crashes \in 0 .. MaxCrashes
    /\ mounted \in BOOLEAN

(* Records are wiped only while no program has the volume, and then there  *)
(* are no inodes.                                                          *)
Mounting ==
    /\ mounted => mft \in [Record -> MftRecord]
    /\ ~mounted => \A h \in Holder : buf[h] = NoBuf
    /\ \A r \in Record : r \notin Mirrored => mft[r] # Blank

(* A record and its mirror are equal and whole while no write has failed,  *)
(* and one of the two is whole wherever the machine stops.                 *)
Pairs ==
    /\ mounted => \A r \in Mirrored \ failed : mft[r] = mirr[r] /\ Readable(mft[r])
    /\ \A r \in Mirrored \ (failed \union wiped) : Readable(mft[r]) \/ Readable(mirr[r])

FInv == Shapes /\ Mounting /\ Pairs
-----------------------------------------------------------------------------
(* The number a write gives follows the one before, round again behind the *)
(* last.                                                                   *)
LEMMA NextUsnIs ==
    ASSUME RecordAssumption, NEW u \in Usn
    PROVE  /\ NextUsn(u) \in Usn
           /\ NextUsn(u) = IF u = UsnMax - 1 THEN 1 ELSE u + 1
<1>1. u + 1 \in 0 .. UsnMax /\ UsnMax \in Nat /\ UsnMax > 2
  BY DEF RecordAssumption, Usn
<1>2. (u + 1) % (UsnMax + 1) = u + 1
  BY <1>1
<1> QED
  BY <1>1, <1>2 DEF NextUsn, Usn

(* Sectors and records there always are.                                   *)
LEMMA FirstSector == RecordAssumption => 0 \in Sector /\ Mirrored \subseteq Record /\ Free \notin Record
  BY DEF RecordAssumption, Sector, Mirrored, Record, Free

(* A wiped record and a closed inode are told from the others.             *)
LEMMA BlankIs == RecordAssumption => Blank \notin MftRecord /\ ~Readable(Blank) /\ NoBuf \notin Inode /\ NoBuf.rec = Free
  BY FirstSector DEF Blank, MftRecord, Stamp, Readable, IsFile, NoBuf, Inode

(* What a write leaves, whole or not, is a record; a whole one is readable.*)
LEMMA OverIs ==
    ASSUME RecordAssumption, NEW c \in MftRecord, NEW b \in Inode, NEW S \in SUBSET Sector
    PROVE  Over(c, b, S) \in MftRecord
  BY NextUsnIs DEF Over, MftRecord, Inode

(* A whole write leaves the same whatever was there before.                *)
LEMMA OverAll ==
    ASSUME RecordAssumption, NEW c, NEW b \in Inode
    PROVE  /\ Over(c, b, Sector) = [usn |-> [s \in Sector |-> NextUsn(b.usn)], ver |-> b.ver]
           /\ Over(c, b, Sector) \in MftRecord
           /\ Readable(Over(c, b, Sector))
<1>1. Over(c, b, Sector) = [usn |-> [s \in Sector |-> NextUsn(b.usn)], ver |-> b.ver]
  BY DEF Over, Inode
<1>2. b.ver \in [Sector -> Stamp] /\ NextUsn(b.usn) \in Usn
  BY NextUsnIs DEF Inode
<1> QED
  BY <1>1, <1>2, FirstSector DEF MftRecord, Readable, IsFile, SameUsn, Stamp

(* A volume that is sound to begin with has equal pairs.                   *)
LEMMA FInit == RecordAssumption /\ Init => FInv
<1> SUFFICES ASSUME RecordAssumption, Init PROVE FInv
  OBVIOUS
<1> PICK u \in FirstUsns : mft = [r \in Record |-> Whole(u, 1)]
  BY DEF Init
<1>1. u \in Usn
  BY DEF RecordAssumption, Usn
<1>2. Whole(u, 1) \in MftRecord /\ Readable(Whole(u, 1))
  BY <1>1, FirstSector DEF Whole, MftRecord, Stamp, Readable, IsFile, SameUsn
<1>3. /\ mft \in [Record -> MftRecord] /\ mirr \in [Mirrored -> MftRecord]
      /\ \A r \in Mirrored : mft[r] = mirr[r] /\ Readable(mft[r])
  BY <1>2, FirstSector DEF Init
<1> QED
  BY <1>3, BlankIs DEF Init, FInv, Shapes, Mounting, Pairs, Stamp, RecordAssumption

(* A write of a record by one of its inodes, and what it does to the       *)
(* mirror.                                                                 *)
LEMMA WriteIs ==
    ASSUME RecordAssumption, FInv, NEW h \in Holder, buf[h].rec # Free, NEW S \in SUBSET Sector
    PROVE  /\ buf[h] \in Inode /\ mounted /\ buf[h].rec \in Record
           /\ WriteToMft(h, S) =>
                /\ mft' = [mft EXCEPT ![buf[h].rec] = Over(mft[buf[h].rec], buf[h], S)]
                /\ mft' \in [Record -> MftRecord]
           /\ WriteToMirror(h, S) =>
                /\ mirr' \in [Mirrored -> MftRecord]
                /\ \A r \in Mirrored : r # buf[h].rec => mirr'[r] = mirr[r]
                /\ buf[h].rec \in Mirrored =>
                      mirr'[buf[h].rec] = Over(mirr[buf[h].rec], buf[h], S)
           /\ mft \in [Record -> MftRecord]
<1>1. buf[h] \in Inode /\ mounted /\ mft \in [Record -> MftRecord]
  BY BlankIs DEF FInv, Shapes, Mounting
<1>2. buf[h].rec \in Record
  BY <1>1 DEF Inode
<1>3. Over(mft[buf[h].rec], buf[h], S) \in MftRecord
  BY <1>1, <1>2, OverIs
<1>4. WriteToMft(h, S) =>
        /\ mft' = [mft EXCEPT ![buf[h].rec] = Over(mft[buf[h].rec], buf[h], S)]
        /\ mft' \in [Record -> MftRecord]
  BY <1>1, <1>2, <1>3 DEF WriteToMft
<1>5. mirr \in [Mirrored -> MftRecord]
  BY DEF FInv, Shapes
<1>6. buf[h].rec \in Mirrored => Over(mirr[buf[h].rec], buf[h], S) \in MftRecord
  BY <1>1, <1>5, OverIs
<1>7. WriteToMirror(h, S) =>
        /\ mirr' \in [Mirrored -> MftRecord]
        /\ \A r \in Mirrored : r # buf[h].rec => mirr'[r] = mirr[r]
        /\ buf[h].rec \in Mirrored => mirr'[buf[h].rec] = Over(mirr[buf[h].rec], buf[h], S)
  BY <1>5, <1>6 DEF WriteToMirror, MirrorBuf
<1> QED
  BY <1>1, <1>2, <1>4, <1>7

(* A write leaves the inode with the number that it gave.                  *)
LEMMA NextInode ==
    ASSUME RecordAssumption, FInv, NEW h \in Holder, buf[h].rec # Free,
           buf' = [buf EXCEPT ![h].usn = NextUsn(@)]
    PROVE  /\ buf' \in [Holder -> Inode \union {NoBuf}]
           /\ buf'[h] = [rec |-> buf[h].rec, usn |-> NextUsn(buf[h].usn), ver |-> buf[h].ver]
           /\ \A k \in Holder : k # h => buf'[k] = buf[k]
<1>1. buf[h] \in Inode
  BY BlankIs DEF FInv, Shapes
<1>2. NextUsn(buf[h].usn) \in Usn
  BY <1>1, NextUsnIs DEF Inode
<1> QED
  BY <1>1, <1>2 DEF Inode, FInv, Shapes

(* What ntfsfix writes again is whole.                                     *)
LEMMA RewrittenIs ==
    ASSUME RecordAssumption, FInv, NEW r \in Mirrored, r \in Reached, Differ(r)
    PROVE  /\ Rewritten(r) = [usn |-> [s \in Sector |-> NextUsn(mft[r].usn[0])], ver |-> mft[r].ver]
           /\ mft[r] \in MftRecord /\ Readable(mft[r]) /\ Readable(mirr[r])
           /\ Rewritten(r) \in MftRecord /\ Readable(Rewritten(r))
<1>1. mft[r] \in MftRecord /\ mirr[r] \in MftRecord
  BY FirstSector DEF FInv, Shapes, Differ, Blank, IsFile
<1>2. Readable(mft[r]) /\ IsFile(mirr[r])
  BY <1>1, FirstSector DEF Reached, Mirrored, IsBaad, Readable, Differ, IsFile, MftRecord, Stamp
<1>3. Readable(mirr[r])
  BY <1>2 DEF Reached, Mirrored, IsBaad, Readable
<1>4. Rewritten(r) = [usn |-> [s \in Sector |-> NextUsn(mft[r].usn[0])], ver |-> mft[r].ver]
  BY <1>2 DEF Rewritten, UseMirror, Readable
<1>5. NextUsn(mft[r].usn[0]) \in Usn
  BY <1>1, FirstSector, NextUsnIs DEF MftRecord
<1> QED
  BY <1>1, <1>2, <1>3, <1>4, <1>5, FirstSector DEF MftRecord, Readable, IsFile, SameUsn, Stamp

(* Every step preserves the pairs, whatever inodes are open.               *)
LEMMA FNext == RecordAssumption /\ FInv /\ [Next]_vars => FInv'
<1> SUFFICES ASSUME RecordAssumption, FInv, [Next]_vars PROVE FInv'
  OBVIOUS
<1> USE FirstSector, BlankIs DEF FInv, Shapes, Mounting, Pairs, history, bounds
<1>1. ASSUME NEW h \in Holder, NEW r \in Record, Open(h, r) PROVE FInv'
  <2>1. mft[r] \in MftRecord
    BY <1>1 DEF Open
  <2>2. [rec |-> r, usn |-> mft[r].usn[0], ver |-> mft[r].ver] \in Inode
    BY <2>1 DEF MftRecord, Inode
  <2> QED
    BY <1>1, <2>2 DEF Open
<1>2. ASSUME NEW h \in Holder, NEW r \in Record, Reuse(h, r) PROVE FInv'
  <2> DEFINE u == mft[r].usn[0]
             usn == IF u \in {0, UsnMax} THEN 1 ELSE u
  <2>1. mft[r] \in MftRecord /\ version' \in Stamp
    BY <1>2 DEF Reuse, Stamp
  <2>2. usn \in Usn
    BY <2>1 DEF MftRecord, Usn, RecordAssumption
  <2>3. [rec |-> r, usn |-> usn, ver |-> [s \in Sector |-> version']] \in Inode
    BY <2>1, <2>2 DEF Inode
  <2>4. buf' = [buf EXCEPT ![h] = [rec |-> r, usn |-> usn, ver |-> [s \in Sector |-> version']]]
    BY <1>2 DEF Reuse
  <2> QED
    BY <1>2, <2>1, <2>3, <2>4 DEF Reuse
<1>3. ASSUME NEW h \in Holder, Modify(h) PROVE FInv'
  <2>1. buf[h] \in Inode /\ version' \in Stamp
    BY <1>3 DEF Modify, Stamp
  <2>2. [buf[h] EXCEPT !.ver = [s \in Sector |-> version']] \in Inode
    BY <2>1 DEF Inode
  <2> QED
    BY <1>3, <2>1, <2>2 DEF Modify
<1>4. ASSUME NEW h \in Holder, Close(h) PROVE FInv'
  BY <1>4 DEF Close
<1>5. ASSUME NEW h \in Holder, Write(h) PROVE FInv'
  <2> DEFINE r == buf[h].rec
  <2>1. buf[h] \in Inode /\ mounted /\ r \in Record
    BY <1>5, WriteIs DEF Write
  <2>2. /\ mft' = [mft EXCEPT ![r] = Over(mft[r], buf[h], Sector)]
        /\ mft' \in [Record -> MftRecord]
        /\ mirr' \in [Mirrored -> MftRecord]
        /\ \A q \in Mirrored : q # r => mirr'[q] = mirr[q]
        /\ r \in Mirrored => mirr'[r] = Over(mirr[r], buf[h], Sector)
    BY <1>5, WriteIs DEF Write
  <2>3. buf' \in [Holder -> Inode \union {NoBuf}]
    BY <1>5, NextInode DEF Write
  <2>4. done' \in [Record -> Stamp]
    BY <1>5, <2>1 DEF Write, Inode
  <2>5. r \in Mirrored => mft'[r] = mirr'[r] /\ Readable(mft'[r])
    BY <2>1, <2>2, OverAll
  <2>6. \A q \in Mirrored : q # r => mft'[q] = mft[q]
    BY <2>2
  <2> QED
    BY <1>5, <2>1, <2>2, <2>3, <2>4, <2>5, <2>6 DEF Write
<1>6. ASSUME NEW h \in Holder, WriteFails(h) PROVE FInv'
  <2> PICK S \in SUBSET Sector : WriteToMft(h, S)
    BY <1>6 DEF WriteFails
  <2>1. /\ mounted /\ buf[h].rec \in Record
        /\ mft' = [mft EXCEPT ![buf[h].rec] = Over(mft[buf[h].rec], buf[h], S)]
        /\ mft' \in [Record -> MftRecord]
    BY <1>6, WriteIs DEF WriteFails
  <2>2. buf' \in [Holder -> Inode \union {NoBuf}]
    BY <1>6, NextInode DEF WriteFails
  <2>3. \A q \in Mirrored \ failed' : mft'[q] = mft[q] /\ q \notin failed /\ mirr'[q] = mirr[q]
    BY <1>6, <2>1 DEF WriteFails
  <2>4. faults' \in 0 .. MaxFaults /\ crashes' = crashes
    BY <1>6 DEF WriteFails, RecordAssumption
  <2> QED
    BY <1>6, <2>1, <2>2, <2>3, <2>4 DEF WriteFails
<1>7. ASSUME NEW h \in Holder, MirrorWriteFails(h) PROVE FInv'
  <2> PICK S \in SUBSET Sector : WriteToMirror(h, S)
    BY <1>7 DEF MirrorWriteFails
  <2>1. buf[h].rec # Free
    BY <1>7 DEF MirrorWriteFails
  <2>2. /\ mounted /\ buf[h].rec \in Record
        /\ mft' = [mft EXCEPT ![buf[h].rec] = Over(mft[buf[h].rec], buf[h], Sector)]
        /\ mft' \in [Record -> MftRecord]
        /\ mirr' \in [Mirrored -> MftRecord]
        /\ \A r \in Mirrored : r # buf[h].rec => mirr'[r] = mirr[r]
    BY <1>7, <2>1, WriteIs DEF MirrorWriteFails
  <2>3. buf' \in [Holder -> Inode \union {NoBuf}]
    BY <1>7, <2>1, NextInode DEF MirrorWriteFails
  <2>4. \A q \in Mirrored \ failed' : mft'[q] = mft[q] /\ q \notin failed /\ mirr'[q] = mirr[q]
    BY <1>7, <2>2 DEF MirrorWriteFails
  <2>5. faults' \in 0 .. MaxFaults /\ crashes' = crashes
    BY <1>7 DEF MirrorWriteFails, RecordAssumption
  <2> QED
    BY <1>7, <2>2, <2>3, <2>4, <2>5 DEF MirrorWriteFails
<1>8. ASSUME GoDown
      PROVE  /\ crashes' \in 0 .. MaxCrashes /\ ~mounted' /\ mounted' \in BOOLEAN
             /\ \A h \in Holder : buf'[h] = NoBuf
             /\ buf' \in [Holder -> Inode \union {NoBuf}]
             /\ UNCHANGED <<version, done, failed, wiped, faults>>
  <2>1. crashes' \in 0 .. MaxCrashes
    BY <1>8 DEF GoDown, RecordAssumption
  <2>2. mounted' = FALSE /\ buf' = [h \in Holder |-> NoBuf]
    BY <1>8 DEF GoDown
  <2> QED
    BY <1>8, <2>1, <2>2 DEF GoDown
<1>9. CASE Crash
  BY <1>8, <1>9 DEF Crash, GoDown
<1>10. ASSUME NEW h \in Holder, CrashInWrite(h) PROVE FInv'
  <2> PICK S \in SUBSET Sector : WriteToMft(h, S)
    BY <1>10 DEF CrashInWrite
  <2>1. mft' \in [Record -> MftRecord] /\ mounted
    BY <1>10, WriteIs DEF CrashInWrite
  <2>2. \A q \in Mirrored \ failed : Readable(mirr[q])
    BY <2>1
  <2> QED
    BY <1>8, <1>10, <2>1, <2>2 DEF CrashInWrite
<1>11. ASSUME NEW h \in Holder, CrashInMirrorWrite(h) PROVE FInv'
  <2> PICK S \in SUBSET Sector : WriteToMirror(h, S)
    BY <1>11 DEF CrashInMirrorWrite
  <2>1. buf[h].rec # Free
    BY <1>11 DEF CrashInMirrorWrite
  <2>2. /\ mounted /\ buf[h].rec \in Record /\ buf[h] \in Inode
        /\ mft' = [mft EXCEPT ![buf[h].rec] = Over(mft[buf[h].rec], buf[h], Sector)]
        /\ mft' \in [Record -> MftRecord]
        /\ mirr' \in [Mirrored -> MftRecord]
    BY <1>11, <2>1, WriteIs DEF CrashInMirrorWrite
  <2>3. \A q \in Mirrored \ failed : Readable(mft'[q])
    BY <2>2, OverAll
  <2> QED
    BY <1>8, <1>11, <2>2, <2>3 DEF CrashInMirrorWrite
<1>12. CASE Unmount
  <2>1. \A h \in Holder : buf[h] = NoBuf
    BY <1>12 DEF Unmount, Inode
  <2> QED
    BY <1>12, <2>1 DEF Unmount
<1>13. CASE Mount
  BY <1>13 DEF Mount, Mountable, Checked, Differ, Readable
<1>14. CASE Fix
  <2> DEFINE again == {r \in Reached : Differ(r)}
  <2>1. Reached \subseteq Mirrored
    BY DEF Reached
  <2>2. \A r \in again : r \in Mirrored /\ Rewritten(r) \in MftRecord /\ Readable(Rewritten(r))
    BY <2>1, RewrittenIs
  <2>3. /\ mft' = [r \in Record |-> IF r \in again THEN Rewritten(r) ELSE mft[r]]
        /\ mirr' = [r \in Mirrored |-> IF r \in again THEN Rewritten(r) ELSE mirr[r]]
        /\ ~mounted /\ UNCHANGED <<buf, mounted, version, done, failed, wiped, faults, crashes>>
    BY <1>14 DEF Fix, FixRun
  <2>4. /\ mft' \in [Record -> MftRecord \union {Blank}] /\ mirr' \in [Mirrored -> MftRecord]
        /\ \A r \in Record : r \notin Mirrored => mft'[r] # Blank
        /\ \A r \in Mirrored \ (failed \union wiped) : Readable(mft'[r]) \/ Readable(mirr'[r])
    <3> HIDE DEF again
    <3> QED
      BY <2>2, <2>3
  <2> QED
    BY <2>3, <2>4
<1>15. ASSUME NEW r \in Mirrored, FixStops(r) PROVE FInv'
  <2> DEFINE before == {q \in Reached : Differ(q) /\ q < r}
             b == [rec |-> r, usn |-> mft[r].usn[0], ver |-> mft[r].ver]
  <2>1. PICK S \in SUBSET Sector, T \in SUBSET Sector :
          /\ S = Sector \/ T = {}
          /\ mft' = [q \in Record |-> IF q \in before THEN Rewritten(q)
                                      ELSE IF q = r THEN Over(mft[q], b, S) ELSE mft[q]]
          /\ mirr' = [q \in Mirrored |-> IF q \in before THEN Rewritten(q)
                                         ELSE IF q = r THEN Over(mirr[q], b, T) ELSE mirr[q]]
    BY <1>15 DEF FixStops
  <2>2. Reached \subseteq Mirrored /\ r \in Reached /\ Differ(r)
    BY <1>15 DEF Reached, FixStops
  <2>3. \A q \in before : q \in Mirrored /\ Rewritten(q) \in MftRecord /\ Readable(Rewritten(q))
    BY <2>2, RewrittenIs
  <2>4. mft[r] \in MftRecord /\ Readable(mft[r]) /\ Readable(mirr[r]) /\ b \in Inode
    BY <2>2, RewrittenIs DEF Inode, MftRecord
  <2>5. Over(mft[r], b, S) \in MftRecord /\ Over(mirr[r], b, T) \in MftRecord
    BY <2>4, OverIs
  <2>6. Readable(Over(mft[r], b, S)) \/ Readable(Over(mirr[r], b, T))
    <3>1. CASE S = Sector
      BY <2>4, <3>1, OverAll
    <3>2. CASE T = {}
      <4>1. Over(mirr[r], b, T) = mirr[r]
        BY <3>2 DEF Over, MftRecord
      <4> QED
        BY <2>4, <4>1
    <3> QED
      BY <2>1, <3>1, <3>2
  <2>7. ~mounted /\ UNCHANGED <<buf, mounted, version, done, failed, wiped, faults>> /\ crashes' \in 0 .. MaxCrashes
    BY <1>15 DEF FixStops, FixRun, RecordAssumption
  <2>8. /\ mft' \in [Record -> MftRecord \union {Blank}] /\ mirr' \in [Mirrored -> MftRecord]
        /\ \A q \in Record : q \notin Mirrored => mft'[q] # Blank
        /\ \A q \in Mirrored \ (failed \union wiped) : Readable(mft'[q]) \/ Readable(mirr'[q])
    <3> HIDE DEF before, b
    <3> QED
      BY <2>1, <2>3, <2>5, <2>6
  <2> QED
    BY <2>7, <2>8
<1>16. ASSUME NEW r \in Mirrored, Wipe(r) PROVE FInv'
  BY <1>16 DEF Wipe
<1>17. CASE UNCHANGED vars
  BY <1>17 DEF vars, Readable, IsFile, SameUsn
<1> QED
  BY <1>1, <1>2, <1>3, <1>4, <1>5, <1>6, <1>7, <1>9, <1>10, <1>11, <1>12, <1>13, <1>14,
     <1>15, <1>16, <1>17 DEF Next

(* ntfs_mft_records_write: while the volume is mounted, and whatever inodes*)
(* are open, the mirror is equal to the records of $MFT, but for those of  *)
(* which a write has failed.                                               *)
THEOREM MirrorIsKept == Spec => []MirrorFollows
<1>1. FInv => MirrorFollows
  BY DEF FInv, Pairs, MirrorFollows
<1> QED
  BY <1>1, FInit, FNext, RecordAssumption, PTL DEF Spec

(* ntfsfix (fix_mftmirr) that meets no torn record leaves no difference    *)
(* that ntfs_device_mount would refuse.                                    *)
THEOREM FixLeavesMountable == Spec => FixSatisfiesMount
<1>1. Fix /\ Reached = Mirrored => \A r \in Mirrored : Checked(r)'
  <2> SUFFICES ASSUME Fix, Reached = Mirrored, NEW r \in Mirrored
               PROVE  Checked(r)'
    OBVIOUS
  <2>1. r \in Record /\ ~IsBaad(mft[r]) /\ ~IsBaad(mirr[r])
    <3>1. r \in Record /\ r \in Reached
      BY FirstSector, RecordAssumption
    <3>2. r \in 0 .. r
      BY DEF Mirrored
    <3> QED
      BY <3>1, <3>2 DEF Reached
  <2>2. CASE Differ(r)
    <3>1. mft'[r] = Rewritten(r) /\ mirr'[r] = Rewritten(r)
      BY <2>1, <2>2 DEF Fix
    <3>2. SameUsn(Rewritten(r))
      BY FirstSector, RecordAssumption DEF SameUsn, Rewritten
    <3> QED
      BY <3>1, <3>2 DEF Checked, IsBaad, Differ
  <2>3. CASE ~Differ(r)
    <3>1. mft'[r] = mft[r] /\ mirr'[r] = mirr[r]
      BY <2>1, <2>3 DEF Fix
    <3> QED
      BY <2>1, <2>3, <3>1 DEF Checked, IsBaad, Differ
  <2> QED
    BY <2>2, <2>3
<1> QED
  BY <1>1, PTL DEF Spec, FixSatisfiesMount
-----------------------------------------------------------------------------
(* An inode of a record that nothing has gone wrong with, and that no other*)
(* inode of the record has overtaken.                                      *)
Fresh(h) == buf[h].rec # Free /\ buf[h].rec \notin stale /\ h \notin overtaken

(* How many writes ago a sector got its number x, if the latest write has  *)
(* given u.                                                                *)
Behind(x, u) == IF x <= u THEN u - x ELSE u - x + UsnMax - 1
Missed == faults + crashes

(* Sectors of a copy that have the same number stem from the same write.   *)
Coherent(c) == \A s, t \in Sector : c.usn[s] = c.usn[t] => c.ver[s] = c.ver[t]
Uniform(v) == \A s \in Sector : v[s] = v[0]
Tears ==
    /\ \A r \in Record : r \notin stale => Coherent(mft[r])
    /\ \A r \in Mirrored : r \notin stale => Coherent(mirr[r])
    /\ \A h \in Holder : buf[h].rec \notin stale => Uniform(buf[h].ver)

(* No number on disk is older than the writes that have failed, and the    *)
(* mirror is not ahead of $MFT.                                            *)
Follows(m, c, u, n) ==
    \A s, t \in Sector :
        Behind(m.usn[t], u) <= n /\ Behind(c.usn[s], u) <= Behind(m.usn[t], u)
Lags ==
    /\ \A h \in Holder : Fresh(h) =>
          \A s \in Sector : Behind(mft[buf[h].rec].usn[s], buf[h].usn) <= Missed
    /\ \A h \in Holder : Fresh(h) /\ buf[h].rec \in Mirrored =>
          Follows(mirr[buf[h].rec], mft[buf[h].rec], buf[h].usn, Missed)
    /\ \A r \in Mirrored : r \notin stale /\ Readable(mft[r]) =>
          \A t \in Sector : Behind(mirr[r].usn[t], mft[r].usn[0]) <= Missed

(* Nothing is newer than the latest version, and nothing but the content of*)
(* an inode that was overtaken is older than what has been written last.   *)
Bounded ==
    /\ \A r \in Record : done[r] <= version
    /\ \A r \in Record : \A s \in Sector : mft[r].ver[s] <= version
    /\ \A r \in Mirrored : \A s \in Sector : mirr[r].ver[s] <= version
    /\ \A h \in Holder : \A s \in Sector : buf[h].ver[s] <= version
Versions ==
    /\ \A r \in Record : r \notin stale /\ mft[r] # Blank =>
          \A s \in Sector : done[r] <= mft[r].ver[s]
    /\ \A r \in Mirrored : r \notin stale => \A s \in Sector : done[r] <= mirr[r].ver[s]
    /\ \A h \in Holder : Fresh(h) => \A s \in Sector : done[buf[h].rec] <= buf[h].ver[s]

NInv == FInv /\ Tears /\ Lags /\ Bounded /\ Versions
-----------------------------------------------------------------------------
(* A number that is not too old is a write older after the next write, and *)
(* is not the one that this gives.                                         *)
LEMMA BehindNext ==
    ASSUME RecordAssumption, NEW x \in Usn, NEW u \in Usn
    PROVE  /\ Behind(x, u) \in Nat /\ Behind(u, u) = 0
           /\ Behind(x, u) < UsnMax - 2 =>
                 x # NextUsn(u) /\ Behind(x, NextUsn(u)) = Behind(x, u) + 1
<1>1. NextUsn(u) = IF u = UsnMax - 1 THEN 1 ELSE u + 1
  BY NextUsnIs
<1> QED
  BY <1>1 DEF Behind, Usn, RecordAssumption

(* Ages add up.                                                            *)
LEMMA BehindFrom ==
    ASSUME RecordAssumption, NEW x \in Usn, NEW y \in Usn, NEW u \in Usn, Behind(x, u) <= Behind(y, u)
    PROVE  Behind(y, x) = Behind(y, u) - Behind(x, u)
  BY DEF Behind, Usn, RecordAssumption

(* A write gives a number that no sector has, so that what it does not     *)
(* reach is told from what it does.                                        *)
LEMMA WriteTells ==
    ASSUME RecordAssumption, NEW c \in MftRecord, NEW b \in Inode, NEW S \in SUBSET Sector,
           NEW n \in Nat, n < UsnMax - 2, Coherent(c), Uniform(b.ver),
           \A s \in Sector : Behind(c.usn[s], b.usn) <= n
    PROVE  /\ Coherent(Over(c, b, S))
           /\ \A s \in Sector : Behind(Over(c, b, S).usn[s], NextUsn(b.usn)) =
                 IF s \in S THEN 0 ELSE Behind(c.usn[s], b.usn) + 1
<1>1. \A s \in Sector : c.usn[s] \in Usn
  BY DEF MftRecord
<1>2. b.usn \in Usn /\ NextUsn(b.usn) \in Usn
  BY NextUsnIs DEF Inode
<1>3. \A s \in Sector : /\ c.usn[s] # NextUsn(b.usn)
                        /\ Behind(c.usn[s], NextUsn(b.usn)) = Behind(c.usn[s], b.usn) + 1
  BY <1>1, <1>2, BehindNext DEF RecordAssumption
<1>4. \A s \in Sector : /\ Over(c, b, S).usn[s] = IF s \in S THEN NextUsn(b.usn) ELSE c.usn[s]
                        /\ Over(c, b, S).ver[s] = IF s \in S THEN b.ver[s] ELSE c.ver[s]
  BY DEF Over
<1>5. Behind(NextUsn(b.usn), NextUsn(b.usn)) = 0
  BY <1>2, BehindNext
<1>6. Coherent(Over(c, b, S))
  BY <1>3, <1>4 DEF Coherent, Uniform
<1> QED
  BY <1>3, <1>4, <1>5, <1>6

(* The order of the two writes of ntfs_mft_records_write keeps the mirror  *)
(* behind $MFT.                                                            *)
LEMMA WriteFollows ==
    ASSUME RecordAssumption, NEW c \in MftRecord, NEW m \in MftRecord, NEW b \in Inode,
           NEW S \in SUBSET Sector, NEW T \in SUBSET Sector, S = Sector \/ T = {},
           NEW n \in Nat, n < UsnMax - 2, Coherent(c), Coherent(m), Uniform(b.ver),
           Follows(m, c, b.usn, n)
    PROVE  /\ Follows(Over(m, b, T), Over(c, b, S), NextUsn(b.usn), n + 1)
           /\ Coherent(Over(m, b, T)) /\ Coherent(Over(c, b, S))
           /\ S = Sector /\ T = Sector => Follows(Over(m, b, T), Over(c, b, S), NextUsn(b.usn), 0)
<1>1. \A s \in Sector : /\ c.usn[s] \in Usn /\ m.usn[s] \in Usn /\ b.usn \in Usn
                        /\ Behind(c.usn[s], b.usn) \in Nat /\ Behind(m.usn[s], b.usn) \in Nat
  BY BehindNext DEF MftRecord, Inode
<1>2. /\ \A s \in Sector : Behind(m.usn[s], b.usn) <= n
      /\ \A s \in Sector : Behind(c.usn[s], b.usn) <= n
  BY <1>1 DEF Follows
<1>3. /\ Coherent(Over(c, b, S)) /\ Coherent(Over(m, b, T))
      /\ \A s \in Sector : Behind(Over(c, b, S).usn[s], NextUsn(b.usn)) =
                 IF s \in S THEN 0 ELSE Behind(c.usn[s], b.usn) + 1
      /\ \A s \in Sector : Behind(Over(m, b, T).usn[s], NextUsn(b.usn)) =
                 IF s \in T THEN 0 ELSE Behind(m.usn[s], b.usn) + 1
  BY <1>2, WriteTells
<1> QED
  BY <1>1, <1>2, <1>3 DEF Follows

(* A reader of $MFT sees the mirror behind the number that it finds.       *)
LEMMA ReaderFollows ==
    ASSUME RecordAssumption, NEW c \in MftRecord, NEW m \in MftRecord, NEW u \in Usn,
           NEW n \in Nat, Follows(m, c, u, n)
    PROVE  \A t \in Sector : Behind(m.usn[t], c.usn[0]) <= n
<1> SUFFICES ASSUME NEW t \in Sector PROVE Behind(m.usn[t], c.usn[0]) <= n
  OBVIOUS
<1>1. m.usn[t] \in Usn /\ c.usn[0] \in Usn
  BY FirstSector DEF MftRecord
<1>2. Behind(m.usn[t], u) \in Nat /\ Behind(c.usn[0], u) \in Nat
  BY <1>1, BehindNext
<1>3. Behind(m.usn[t], u) <= n /\ Behind(c.usn[0], u) <= Behind(m.usn[t], u)
  BY FirstSector DEF Follows
<1> QED
  BY <1>1, <1>2, <1>3, BehindFrom

(* There are more numbers than failed writes.                              *)
LEMMA MissedIs ==
    ASSUME RecordAssumption, FInv
    PROVE  Missed \in Nat /\ Missed < UsnMax - 2
  BY DEF FInv, Shapes, Missed, RecordAssumption
-----------------------------------------------------------------------------
(* What the invariant says of an inode that is open and of its record.     *)
LEMMA HeldIs ==
    ASSUME RecordAssumption, NInv, NEW h \in Holder, buf[h].rec # Free
    PROVE  LET r == buf[h].rec IN
           /\ mounted /\ buf[h] \in Inode /\ r \in Record /\ mft[r] \in MftRecord
           /\ r \in Mirrored => mirr[r] \in MftRecord
           /\ r \notin stale => Coherent(mft[r]) /\ Uniform(buf[h].ver)
           /\ r \notin stale /\ r \in Mirrored => Coherent(mirr[r])
           /\ Fresh(h) => \A s \in Sector : Behind(mft[r].usn[s], buf[h].usn) <= Missed
           /\ Fresh(h) /\ r \in Mirrored => Follows(mirr[r], mft[r], buf[h].usn, Missed)
<1>1. buf[h] \in Inode /\ mounted
  BY BlankIs DEF NInv, FInv, Shapes, Mounting
<1>2. buf[h].rec \in Record
  BY <1>1 DEF Inode
<1> QED
  BY <1>1, <1>2 DEF NInv, FInv, Shapes, Mounting, Tears, Lags

(* What the reader of any record in $MFT finds.                            *)
LEMMA AnyReader ==
    ASSUME RecordAssumption, NInv, NEW r \in Mirrored, r \notin stale, Readable(mft[r])
    PROVE  \A t \in Sector : Behind(mirr[r].usn[t], mft[r].usn[0]) <= Missed
  BY DEF NInv, Lags

(* What a write changes, whole or not.                                     *)
LEMMA WriteReaches ==
    ASSUME RecordAssumption, NInv, NEW h \in Holder, buf[h].rec # Free,
           NEW S \in SUBSET Sector, NEW T \in SUBSET Sector,
           WriteToMft(h, S),
           (UNCHANGED mirr /\ T = {}) \/ WriteToMirror(h, T)
    PROVE  LET r == buf[h].rec
           IN  /\ buf[h] \in Inode /\ r \in Record /\ mft[r] \in MftRecord
               /\ mft' \in [Record -> MftRecord] /\ mirr' \in [Mirrored -> MftRecord]
               /\ mft'[r] = Over(mft[r], buf[h], S)
               /\ \A q \in Record : q # r => mft'[q] = mft[q]
               /\ \A q \in Mirrored : q # r => mirr'[q] = mirr[q]
               /\ r \in Mirrored => mirr'[r] = Over(mirr[r], buf[h], T)
<1> DEFINE r == buf[h].rec
<1> USE DEF NInv
<1>1. /\ buf[h] \in Inode /\ r \in Record /\ mft[r] \in MftRecord
      /\ mft' \in [Record -> MftRecord]
      /\ mft' = [mft EXCEPT ![r] = Over(mft[r], buf[h], S)]
      /\ mft \in [Record -> MftRecord]
  BY WriteIs, HeldIs
<1>2. /\ mirr' \in [Mirrored -> MftRecord]
      /\ \A q \in Mirrored : q # r => mirr'[q] = mirr[q]
      /\ r \in Mirrored => mirr'[r] = Over(mirr[r], buf[h], T)
  <2>1. CASE WriteToMirror(h, T)
    BY <2>1, WriteIs
  <2>2. CASE UNCHANGED mirr /\ T = {}
    <3>1. mirr' \in [Mirrored -> MftRecord]
      BY <2>2 DEF FInv, Shapes
    <3>2. r \in Mirrored => mirr[r] = Over(mirr[r], buf[h], T)
      BY <2>2, <3>1 DEF Over, MftRecord
    <3> QED
      BY <2>2, <3>1, <3>2
  <2> QED
    BY <2>1, <2>2
<1> QED
  BY <1>1, <1>2

(* What a write leaves of its record, whole or not.  One by an inode that  *)
(* was overtaken may be what it likes as long as it is whole.              *)
LEMMA WriteLeaves ==
    ASSUME RecordAssumption, NInv, NEW h \in Holder, buf[h].rec # Free,
           NEW S \in SUBSET Sector, NEW T \in SUBSET Sector, S = Sector \/ T = {},
           WriteToMft(h, S),
           (UNCHANGED mirr /\ T = {}) \/ WriteToMirror(h, T),
           buf[h].rec \notin stale,
           h \in overtaken => S = Sector /\ T = Sector
    PROVE  LET r == buf[h].rec
               u == NextUsn(buf[h].usn) IN
           /\ u \in Usn
           /\ Coherent(mft'[r])
           /\ r \in Mirrored => Coherent(mirr'[r])
           /\ \A s \in Sector : Behind(mft'[r].usn[s], u) <= Missed + 1
           /\ r \in Mirrored => Follows(mirr'[r], mft'[r], u, Missed + 1)
           /\ S = Sector /\ T = Sector =>
                 /\ \A s \in Sector : Behind(mft'[r].usn[s], u) <= Missed
                 /\ r \in Mirrored => Follows(mirr'[r], mft'[r], u, Missed)
<1> DEFINE r == buf[h].rec
           u == NextUsn(buf[h].usn)
<1> USE DEF NInv
<1>1. /\ buf[h] \in Inode /\ r \in Record /\ mft[r] \in MftRecord
      /\ mft' \in [Record -> MftRecord] /\ mirr' \in [Mirrored -> MftRecord]
      /\ mft'[r] = Over(mft[r], buf[h], S)
      /\ r \in Mirrored => mirr'[r] = Over(mirr[r], buf[h], T)
  BY WriteReaches
<1>2. u \in Usn
  BY <1>1, NextUsnIs DEF Inode
<1>3. Missed \in Nat /\ Missed < UsnMax - 2
  BY MissedIs
<1>4. Uniform(buf[h].ver) /\ Coherent(mft[r]) /\ (r \in Mirrored => mirr[r] \in MftRecord /\ Coherent(mirr[r]))
  BY HeldIs
<1>5. CASE S = Sector /\ T = Sector
  <2> DEFINE w == [usn |-> [s \in Sector |-> u], ver |-> buf[h].ver]
  <2>1. mft'[r] = w /\ (r \in Mirrored => mirr'[r] = w)
    BY <1>1, <1>5, OverAll
  <2>2. Behind(u, u) = 0
    BY <1>2, BehindNext
  <2>3. Coherent(w)
    BY <1>4 DEF Coherent, Uniform
  <2>4. \A s \in Sector : w.usn[s] = u
    OBVIOUS
  <2> HIDE DEF w, u, r
  <2>5. /\ \A s \in Sector : Behind(w.usn[s], u) <= Missed /\ Behind(w.usn[s], u) <= Missed + 1
        /\ Follows(w, w, u, Missed) /\ Follows(w, w, u, Missed + 1)
    BY <1>3, <2>2, <2>4 DEF Follows
  <2> QED
    BY <1>2, <2>1, <2>3, <2>5 DEF u, r
<1>6. CASE ~(S = Sector /\ T = Sector)
  <2>1. Fresh(h)
    BY <1>6 DEF Fresh
  <2>2. \A s \in Sector : Behind(mft[r].usn[s], buf[h].usn) <= Missed
    BY <2>1, HeldIs
  <2>3. /\ Coherent(mft'[r])
        /\ \A s \in Sector : Behind(mft'[r].usn[s], u) =
              IF s \in S THEN 0 ELSE Behind(mft[r].usn[s], buf[h].usn) + 1
    BY <1>1, <1>3, <1>4, <2>2, WriteTells
  <2>4. \A s \in Sector : Behind(mft[r].usn[s], buf[h].usn) \in Nat
    BY <1>1, BehindNext DEF Inode, MftRecord
  <2>5. \A s \in Sector : Behind(mft'[r].usn[s], u) <= Missed + 1
    BY <1>3, <2>2, <2>3, <2>4
  <2>6. ASSUME r \in Mirrored
        PROVE  Coherent(mirr'[r]) /\ Follows(mirr'[r], mft'[r], u, Missed + 1)
    <3>1. Follows(mirr[r], mft[r], buf[h].usn, Missed)
      BY <2>1, <2>6, HeldIs
    <3> QED
      BY <1>1, <1>3, <1>4, <2>6, <3>1, WriteFollows
  <2> HIDE DEF u, r
  <2> QED
    BY <1>2, <1>6, <2>3, <2>5, <2>6 DEF u, r
<1> QED
  BY <1>5, <1>6

-----------------------------------------------------------------------------
(* What ntfsfix has written again is whole and of one content.             *)
LEMMA FixLeaves ==
    ASSUME RecordAssumption, NInv, NEW r \in Mirrored, r \in Reached, Differ(r)
    PROVE  /\ Rewritten(r) \in MftRecord /\ (r \notin stale => Coherent(Rewritten(r)))
           /\ Rewritten(r).ver = mft[r].ver
           /\ Behind(Rewritten(r).usn[0], Rewritten(r).usn[0]) = 0
           /\ \A s \in Sector : Rewritten(r).usn[s] = Rewritten(r).usn[0]
<1>1. /\ Rewritten(r) = [usn |-> [s \in Sector |-> NextUsn(mft[r].usn[0])], ver |-> mft[r].ver]
      /\ Readable(mft[r]) /\ Rewritten(r) \in MftRecord
  BY RewrittenIs DEF NInv
<1>2. r \notin stale => Uniform(mft[r].ver)
  BY <1>1, FirstSector DEF NInv, Tears, Coherent, Uniform, Readable, SameUsn
<1>3. /\ r \notin stale => Coherent(Rewritten(r))
      /\ \A s \in Sector : Rewritten(r).usn[s] = Rewritten(r).usn[0]
  BY <1>1, <1>2, FirstSector DEF Coherent, Uniform
<1>4. Rewritten(r).usn[0] \in Usn
  BY <1>1, FirstSector DEF MftRecord
<1> QED
  BY <1>1, <1>3, <1>4, BehindNext

(* ntfsfix that is stopped leaves the record it was at torn or not.        *)
LEMMA FixStopLeaves ==
    ASSUME RecordAssumption, NInv, NEW r \in Mirrored, r \in Reached, Differ(r), r \notin stale,
           NEW S \in SUBSET Sector, NEW T \in SUBSET Sector, S = Sector \/ T = {}
    PROVE  LET b == [rec |-> r, usn |-> mft[r].usn[0], ver |-> mft[r].ver]
               c == Over(mft[r], b, S)
               m == Over(mirr[r], b, T)
           IN  /\ c \in MftRecord /\ m \in MftRecord /\ Coherent(c) /\ Coherent(m)
               /\ \A t \in Sector : Behind(m.usn[t], c.usn[0]) <= Missed + 1
<1> DEFINE b == [rec |-> r, usn |-> mft[r].usn[0], ver |-> mft[r].ver]
<1> USE DEF NInv
<1>1. mft[r] \in MftRecord /\ Readable(mft[r]) /\ mirr[r] \in MftRecord
  BY RewrittenIs DEF FInv, Shapes
<1>2. b \in Inode /\ b.usn = mft[r].usn[0] /\ b.ver = mft[r].ver
  BY <1>1, FirstSector DEF Inode, MftRecord
<1>3. Coherent(mft[r]) /\ Coherent(mirr[r]) /\ Uniform(b.ver)
  BY <1>1, <1>2, FirstSector DEF Tears, Coherent, Uniform, Readable, SameUsn
<1>4. Missed \in Nat /\ Missed < UsnMax - 2
  BY MissedIs
<1>5. Follows(mirr[r], mft[r], b.usn, Missed)
  <2>1. \A t \in Sector : Behind(mirr[r].usn[t], b.usn) <= Missed
    BY <1>1, <1>2, AnyReader
  <2>2. \A s \in Sector : Behind(mft[r].usn[s], b.usn) = 0
    BY <1>1, <1>2, BehindNext DEF Readable, SameUsn, Inode
  <2>3. \A s \in Sector : Behind(mirr[r].usn[s], b.usn) \in Nat
    BY <1>1, <1>2, BehindNext DEF MftRecord, Inode
  <2> QED
    BY <2>1, <2>2, <2>3 DEF Follows
<1> HIDE DEF b
<1>6. Over(mft[r], b, S) \in MftRecord /\ Over(mirr[r], b, T) \in MftRecord
  BY <1>1, <1>2, OverIs
<1>7. /\ Follows(Over(mirr[r], b, T), Over(mft[r], b, S), NextUsn(b.usn), Missed + 1)
      /\ Coherent(Over(mirr[r], b, T)) /\ Coherent(Over(mft[r], b, S))
  BY <1>1, <1>2, <1>3, <1>4, <1>5, WriteFollows
<1>8. \A t \in Sector : Behind(Over(mirr[r], b, T).usn[t], Over(mft[r], b, S).usn[0]) <= Missed + 1
  BY <1>2, <1>4, <1>6, <1>7, NextUsnIs, ReaderFollows DEF Inode
<1> QED
  BY <1>6, <1>7, <1>8 DEF b
-----------------------------------------------------------------------------
(* A volume that is sound to begin with satisfies the invariant.           *)
LEMMA NInit == RecordAssumption /\ Init => NInv
<1> SUFFICES ASSUME RecordAssumption, Init PROVE NInv
  OBVIOUS
<1> PICK u \in FirstUsns : mft = [r \in Record |-> Whole(u, 1)]
  BY DEF Init
<1>1. u \in Usn /\ Behind(u, u) = 0
  BY BehindNext DEF RecordAssumption, Usn
<1>2. FInv /\ Missed = 0
  BY FInit DEF Missed, Init
<1>3. /\ \A r \in Record : mft[r] = Whole(u, 1)
      /\ \A r \in Mirrored : mirr[r] = Whole(u, 1)
      /\ \A h \in Holder : buf[h] = NoBuf
      /\ version = 1 /\ \A r \in Record : done[r] = 1
  BY FirstSector DEF Init
<1>4. Coherent(Whole(u, 1)) /\ Uniform(NoBuf.ver)
  BY FirstSector DEF Coherent, Uniform, Whole, NoBuf
<1>5. Tears
  BY <1>3, <1>4, FirstSector DEF Tears
<1>6. Lags
  BY <1>1, <1>2, <1>3, BlankIs, FirstSector DEF Lags, Whole, Fresh
<1>7. Versions /\ Bounded
  BY <1>3, BlankIs, FirstSector DEF Versions, Bounded, Whole, Fresh, NoBuf
<1> QED
  BY <1>2, <1>5, <1>6, <1>7 DEF NInv
-----------------------------------------------------------------------------
(* What the five actions that write a record have in common: S and T are   *)
(* the sectors that reach $MFT and the mirror.  The write is whole, or it  *)
(* breaks off; the other inodes have been overtaken, or all are gone.      *)
Writes(h, S, T) ==
    /\ S \subseteq Sector /\ T \subseteq Sector /\ (S = Sector \/ T = {})
    /\ buf[h].rec # Free
    /\ WriteToMft(h, S)
    /\ (UNCHANGED mirr /\ T = {}) \/ WriteToMirror(h, T)
    /\ version' = version
    /\ \/ /\ S = Sector /\ T = Sector /\ Missed' = Missed /\ stale' = stale
          /\ done' = [done EXCEPT ![buf[h].rec] = buf[h].ver[0]]
       \/ Missed' = Missed + 1 /\ BreakOff(h) /\ done' = done
    /\ \/ buf' = [buf EXCEPT ![h].usn = NextUsn(@)] /\ Overtake(h)
       \/ buf' = [k \in Holder |-> NoBuf]

(* Each of the five is such a write.                                       *)
LEMMA AnyWrite ==
    ASSUME RecordAssumption, NInv, NEW h \in Holder,
           Write(h) \/ WriteFails(h) \/ MirrorWriteFails(h) \/ CrashInWrite(h) \/ CrashInMirrorWrite(h)
    PROVE  \E S, T \in SUBSET Sector : Writes(h, S, T)
<1> USE DEF Missed
<1> DEFINE N == {}
<1>1. Sector \in SUBSET Sector /\ N \in SUBSET Sector
  OBVIOUS
<1>2. CASE Write(h)
  <2>1. Writes(h, Sector, Sector)
    BY <1>2 DEF Write, Writes
  <2> QED
    BY <1>1, <2>1
<1>3. CASE WriteFails(h)
  <2> PICK S \in SUBSET Sector : WriteToMft(h, S)
    BY <1>3 DEF WriteFails
  <2>1. faults' + crashes' = faults + crashes + 1
    BY <1>3 DEF WriteFails, NInv, FInv, Shapes, RecordAssumption
  <2>2. Writes(h, S, N)
    BY <1>3, <2>1 DEF WriteFails, Writes
  <2> QED
    BY <1>1, <2>2
<1>4. CASE MirrorWriteFails(h)
  <2> PICK T \in SUBSET Sector : WriteToMirror(h, T)
    BY <1>4 DEF MirrorWriteFails
  <2>1. faults' + crashes' = faults + crashes + 1
    BY <1>4 DEF MirrorWriteFails, NInv, FInv, Shapes, RecordAssumption
  <2>2. buf[h].rec # Free
    BY <1>4, FirstSector DEF MirrorWriteFails
  <2>3. Writes(h, Sector, T)
    BY <1>4, <2>1, <2>2 DEF MirrorWriteFails, Writes
  <2> QED
    BY <1>1, <2>3
<1>5. CASE CrashInWrite(h)
  <2> PICK S \in SUBSET Sector : WriteToMft(h, S)
    BY <1>5 DEF CrashInWrite
  <2>1. faults' + crashes' = faults + crashes + 1
    BY <1>5 DEF CrashInWrite, GoDown, NInv, FInv, Shapes, RecordAssumption
  <2>2. Writes(h, S, N)
    BY <1>5, <2>1 DEF CrashInWrite, GoDown, Writes
  <2> QED
    BY <1>1, <2>2
<1>6. CASE CrashInMirrorWrite(h)
  <2> PICK T \in SUBSET Sector : WriteToMirror(h, T)
    BY <1>6 DEF CrashInMirrorWrite
  <2>1. faults' + crashes' = faults + crashes + 1
    BY <1>6 DEF CrashInMirrorWrite, GoDown, NInv, FInv, Shapes, RecordAssumption
  <2>2. buf[h].rec # Free
    BY <1>6, FirstSector DEF CrashInMirrorWrite
  <2>3. Writes(h, Sector, T)
    BY <1>6, <2>1, <2>2 DEF CrashInMirrorWrite, GoDown, Writes
  <2> QED
    BY <1>1, <2>3
<1> QED
  BY <1>2, <1>3, <1>4, <1>5, <1>6

(* A number that is behind by no more than n is behind by no more than k.  *)
LEMMA FollowsMore ==
    ASSUME RecordAssumption, NEW c \in MftRecord, NEW m \in MftRecord, NEW u \in Usn,
           NEW n \in Nat, NEW k \in Nat, n <= k
    PROVE  /\ (\A s \in Sector : Behind(c.usn[s], u) <= n) => \A s \in Sector : Behind(c.usn[s], u) <= k
           /\ Follows(m, c, u, n) => Follows(m, c, u, k)
<1>1. \A s \in Sector : Behind(c.usn[s], u) \in Nat /\ Behind(m.usn[s], u) \in Nat
  BY BehindNext DEF MftRecord
<1> QED
  BY <1>1 DEF Follows

(* What a write leaves of the records and of the inodes: only its own      *)
(* record is changed, and what can still be trusted of the inodes.         *)
LEMMA WriteFrame ==
    ASSUME RecordAssumption, NInv, NEW h \in Holder, NEW S \in SUBSET Sector, NEW T \in SUBSET Sector,
           Writes(h, S, T)
    PROVE  LET r == buf[h].rec
               u == NextUsn(buf[h].usn)
           IN  /\ Missed' \in Nat /\ Missed <= Missed'
               /\ \A q : q \notin stale' => q \notin stale
               /\ r \notin stale' =>
                     /\ Coherent(mft'[r])
                     /\ r \in Mirrored => Coherent(mirr'[r])
                     /\ \A s \in Sector : Behind(mft'[r].usn[s], u) <= Missed'
                     /\ r \in Mirrored => Follows(mirr'[r], mft'[r], u, Missed')
               /\ u \in Usn
               /\ \A k \in Holder : buf'[k] = NoBuf \/ (buf'[k].rec = buf[k].rec /\ buf'[k].ver = buf[k].ver)
               /\ Fresh(h)' => buf'[h].rec = r /\ buf'[h].usn = u /\ buf'[h].ver = buf[h].ver
               /\ \A k \in Holder : k # h /\ Fresh(k)' => buf'[k] = buf[k] /\ buf[k].rec # r /\ Fresh(k)
<1> DEFINE r == buf[h].rec
           u == NextUsn(buf[h].usn)
<1>1. Missed' \in Nat /\ Missed <= Missed' /\ Missed \in Nat
  BY MissedIs DEF Writes, NInv
<1>2. \A q : q \notin stale' => q \notin stale
  BY DEF Writes, BreakOff
<1>3. /\ S = Sector \/ T = {}
      /\ WriteToMft(h, S) /\ buf[h].rec # Free
      /\ (UNCHANGED mirr /\ T = {}) \/ WriteToMirror(h, T)
  BY DEF Writes
<1>4. u \in Usn /\ buf[h] \in Inode
  BY <1>3, HeldIs, NextUsnIs DEF Inode
<1>5. ASSUME r \notin stale'
      PROVE  /\ Coherent(mft'[r])
             /\ r \in Mirrored => Coherent(mirr'[r])
             /\ \A s \in Sector : Behind(mft'[r].usn[s], u) <= Missed'
             /\ r \in Mirrored => Follows(mirr'[r], mft'[r], u, Missed')
  <2>1. r \notin stale /\ (h \in overtaken => S = Sector /\ T = Sector)
    BY <1>2, <1>5 DEF Writes, BreakOff
  <2>2. /\ Coherent(mft'[r])
        /\ r \in Mirrored => Coherent(mirr'[r])
        /\ \A s \in Sector : Behind(mft'[r].usn[s], u) <= Missed + 1
        /\ r \in Mirrored => Follows(mirr'[r], mft'[r], u, Missed + 1)
        /\ S = Sector /\ T = Sector =>
              /\ \A s \in Sector : Behind(mft'[r].usn[s], u) <= Missed
              /\ r \in Mirrored => Follows(mirr'[r], mft'[r], u, Missed)
    BY <1>3, <2>1, WriteLeaves
  <2>3. (S = Sector /\ T = Sector /\ Missed' = Missed) \/ Missed' = Missed + 1
    BY DEF Writes
  <2> HIDE DEF r, u
  <2> QED
    BY <2>2, <2>3
<1>6. CASE buf' = [buf EXCEPT ![h].usn = NextUsn(@)] /\ Overtake(h)
  <2>1. /\ buf'[h] = [rec |-> r, usn |-> u, ver |-> buf[h].ver]
        /\ \A k \in Holder : k # h => buf'[k] = buf[k]
    BY <1>3, <1>6, NextInode DEF NInv
  <2>2. \A k \in Holder : k # h /\ Fresh(k)' => buf'[k] = buf[k] /\ buf[k].rec # r /\ Fresh(k)
    BY <1>2, <1>6, <2>1 DEF Overtake, Fresh
  <2>3. /\ buf'[h].rec = r /\ buf'[h].usn = u /\ buf'[h].ver = buf[h].ver
    BY <2>1
  <2>4. \A k \in Holder : buf'[k].rec = buf[k].rec /\ buf'[k].ver = buf[k].ver
    BY <2>1, <2>3
  <2> HIDE DEF r, u
  <2> QED
    BY <1>1, <1>2, <1>4, <1>5, <2>2, <2>3, <2>4 DEF r, u
<1>7. CASE buf' = [k \in Holder |-> NoBuf]
  <2>1. \A k \in Holder : buf'[k] = NoBuf /\ ~Fresh(k)'
    BY <1>7, BlankIs DEF Fresh
  <2> HIDE DEF r, u
  <2> QED
    BY <1>1, <1>2, <1>4, <1>5, <2>1 DEF r, u
<1> QED
  BY <1>6, <1>7 DEF Writes

(* A write, whole or not, keeps the invariant.                             *)
LEMMA WriteKeeps ==
    ASSUME RecordAssumption, NInv, NEW h \in Holder, NEW S \in SUBSET Sector, NEW T \in SUBSET Sector,
           Writes(h, S, T)
    PROVE  Tears' /\ Lags' /\ Bounded' /\ Versions'
<1> DEFINE r == buf[h].rec
           u == NextUsn(buf[h].usn)
<1>1. /\ buf[h] \in Inode /\ r \in Record /\ mft[r] \in MftRecord
      /\ mft' \in [Record -> MftRecord] /\ mirr' \in [Mirrored -> MftRecord]
      /\ mft'[r] = Over(mft[r], buf[h], S)
      /\ \A q \in Record : q # r => mft'[q] = mft[q]
      /\ \A q \in Mirrored : q # r => mirr'[q] = mirr[q]
      /\ r \in Mirrored => mirr'[r] = Over(mirr[r], buf[h], T)
  <2>1. /\ WriteToMft(h, S) /\ buf[h].rec # Free
        /\ (UNCHANGED mirr /\ T = {}) \/ WriteToMirror(h, T)
    BY DEF Writes
  <2> QED
    BY <2>1, WriteReaches
<1>2. /\ Missed' \in Nat /\ Missed <= Missed'
      /\ \A q : q \notin stale' => q \notin stale
      /\ r \notin stale' =>
            /\ Coherent(mft'[r])
            /\ r \in Mirrored => Coherent(mirr'[r])
            /\ \A s \in Sector : Behind(mft'[r].usn[s], u) <= Missed'
            /\ r \in Mirrored => Follows(mirr'[r], mft'[r], u, Missed')
      /\ u \in Usn
      /\ \A k \in Holder : buf'[k] = NoBuf \/ (buf'[k].rec = buf[k].rec /\ buf'[k].ver = buf[k].ver)
      /\ Fresh(h)' => buf'[h].rec = r /\ buf'[h].usn = u /\ buf'[h].ver = buf[h].ver
      /\ \A k \in Holder : k # h /\ Fresh(k)' => buf'[k] = buf[k] /\ buf[k].rec # r /\ Fresh(k)
  BY WriteFrame
<1>3. /\ \A q \in Mirrored : q \in Record
      /\ Missed \in Nat
  BY FirstSector, MissedIs DEF NInv
<1>4. /\ \A s \in Sector : mft'[r].ver[s] = IF s \in S THEN buf[h].ver[s] ELSE mft[r].ver[s]
      /\ r \in Mirrored => \A s \in Sector : mirr'[r].ver[s] = IF s \in T THEN buf[h].ver[s] ELSE mirr[r].ver[s]
  BY <1>1 DEF Over
<1>5. /\ \A k \in Holder : buf[k].rec = Free \/ buf[k].rec \in Record
      /\ NoBuf.rec = Free /\ Free \notin Record /\ Uniform(NoBuf.ver)
      /\ \A s \in Sector : NoBuf.ver[s] = 0
  BY FirstSector DEF NInv, FInv, Shapes, Inode, NoBuf, Uniform
<1> HIDE DEF r, u
<1>6. Tears'
  <2>1. /\ \A q \in Record : q \notin stale' => Coherent(mft'[q])
        /\ \A q \in Mirrored : q \notin stale' => Coherent(mirr'[q])
    BY <1>1, <1>2 DEF NInv, Tears
  <2>2. \A k \in Holder : buf'[k].rec \notin stale' => Uniform(buf'[k].ver)
    BY <1>2, <1>5 DEF NInv, Tears
  <2> QED
    BY <2>1, <2>2 DEF Tears, Coherent, Uniform
<1>7. Lags'
  <2>1. ASSUME NEW k \in Holder, k # h, Fresh(k)'
        PROVE  /\ \A s \in Sector : Behind(mft'[buf'[k].rec].usn[s], buf'[k].usn) <= Missed'
               /\ buf'[k].rec \in Mirrored =>
                     Follows(mirr'[buf'[k].rec], mft'[buf'[k].rec], buf'[k].usn, Missed')
    <3> DEFINE q == buf[k].rec
    <3>1. buf'[k] = buf[k] /\ q # r /\ Fresh(k) /\ q # Free
      BY <1>2, <2>1 DEF Fresh
    <3>2. /\ buf[k] \in Inode /\ q \in Record /\ mft[q] \in MftRecord
          /\ q \in Mirrored => mirr[q] \in MftRecord
          /\ \A s \in Sector : Behind(mft[q].usn[s], buf[k].usn) <= Missed
          /\ q \in Mirrored => Follows(mirr[q], mft[q], buf[k].usn, Missed)
      BY <3>1, HeldIs
    <3>3. buf[k].usn \in Usn
      BY <3>2 DEF Inode
    <3>4. mft'[q] = mft[q] /\ (q \in Mirrored => mirr'[q] = mirr[q])
      BY <1>1, <3>1, <3>2
    <3>5. \A s \in Sector : Behind(mft[q].usn[s], buf[k].usn) <= Missed'
      BY <1>2, <1>3, <3>2, <3>3, FollowsMore
    <3>6. q \in Mirrored => Follows(mirr[q], mft[q], buf[k].usn, Missed')
      BY <1>2, <1>3, <3>2, <3>3, FollowsMore
    <3> QED
      BY <3>1, <3>4, <3>5, <3>6
  <2>2. Fresh(h)' => r \notin stale'
    BY <1>2 DEF Fresh
  <2>3. ASSUME NEW q \in Mirrored, q \notin stale', Readable(mft'[q])
        PROVE  \A t \in Sector : Behind(mirr'[q].usn[t], mft'[q].usn[0]) <= Missed'
    <3>1. CASE q = r
      <4>1. mft'[q] \in MftRecord /\ mirr'[q] \in MftRecord /\ Follows(mirr'[q], mft'[q], u, Missed')
        BY <1>1, <1>2, <1>3, <2>3, <3>1
      <4> QED
        BY <1>2, <4>1, ReaderFollows
    <3>2. CASE q # r
      <4>1. mft'[q] = mft[q] /\ mirr'[q] = mirr[q] /\ q \notin stale
        BY <1>1, <1>2, <1>3, <2>3, <3>2
      <4>2. \A t \in Sector : Behind(mirr'[q].usn[t], mft'[q].usn[0]) <= Missed
        BY <2>3, <4>1, AnyReader
      <4>3. mft'[q] \in MftRecord /\ mirr'[q] \in MftRecord
        BY <1>1, <1>3
      <4>4. \A t \in Sector : Behind(mirr'[q].usn[t], mft'[q].usn[0]) \in Nat
        BY <4>3, BehindNext, FirstSector DEF MftRecord
      <4> QED
        BY <1>2, <1>3, <4>2, <4>4
    <3> QED
      BY <3>1, <3>2
  <2>4. \A k \in Holder : Fresh(k)' =>
           \A s \in Sector : Behind(mft'[buf'[k].rec].usn[s], buf'[k].usn) <= Missed'
    BY <1>2, <2>1, <2>2
  <2>5. \A k \in Holder : Fresh(k)' /\ buf'[k].rec \in Mirrored =>
           Follows(mirr'[buf'[k].rec], mft'[buf'[k].rec], buf'[k].usn, Missed')
    BY <1>2, <2>1, <2>2
  <2> QED
    BY <2>3, <2>4, <2>5 DEF Lags, Follows, Readable, IsFile, SameUsn
<1>8. /\ version' = version /\ version \in Nat
      /\ \A q \in Record : q # r => done'[q] = done[q]
      /\ \/ S = Sector /\ T = Sector /\ done'[r] = buf[h].ver[0]
         \/ done'[r] = done[r] /\ (r \notin stale' => Fresh(h))
  <2>1. done \in [Record -> Stamp] /\ version \in Nat
    BY DEF NInv, FInv, Shapes, Stamp
  <2> QED
    BY <1>1, <1>2, <2>1 DEF Writes, BreakOff, Fresh, r
<1>9. \A s \in Sector : buf[h].ver[s] \in Nat /\ buf[h].ver[0] \in Nat
  BY <1>1, FirstSector DEF Inode, Stamp
<1>10. Bounded'
  <2>1. \A s \in Sector : buf[h].ver[s] <= version
    BY DEF NInv, Bounded
  <2>2. \A q \in Record : done'[q] <= version
    BY <1>8, <2>1, FirstSector DEF NInv, Bounded
  <2>3. \A q \in Record : \A s \in Sector : mft'[q].ver[s] <= version
    <3> SUFFICES ASSUME NEW q \in Record, NEW s \in Sector PROVE mft'[q].ver[s] <= version
      OBVIOUS
    <3>1. mft[q].ver[s] <= version
      BY DEF NInv, Bounded
    <3>2. CASE q = r
      BY <1>4, <2>1, <3>1, <3>2
    <3>3. CASE q # r
      BY <1>1, <3>1, <3>3
    <3> QED
      BY <3>2, <3>3
  <2>4. \A q \in Mirrored : \A s \in Sector : mirr'[q].ver[s] <= version
    <3> SUFFICES ASSUME NEW q \in Mirrored, NEW s \in Sector PROVE mirr'[q].ver[s] <= version
      OBVIOUS
    <3>1. mirr[q].ver[s] <= version
      BY DEF NInv, Bounded
    <3>2. CASE q = r
      BY <1>4, <2>1, <3>1, <3>2
    <3>3. CASE q # r
      BY <1>1, <3>1, <3>3
    <3> QED
      BY <3>2, <3>3
  <2>5. \A k \in Holder : \A s \in Sector : buf'[k].ver[s] <= version
    BY <1>2, <1>5, <1>8 DEF NInv, Bounded
  <2> QED
    BY <1>8, <2>2, <2>3, <2>4, <2>5 DEF Bounded
<1>11. Versions'
  <2>1. \A q : q \notin stale' => q \notin stale
    BY <1>2
  <2>2. ASSUME r \notin stale', NEW s \in Sector
        PROVE  /\ done'[r] <= mft'[r].ver[s]
               /\ r \in Mirrored => done'[r] <= mirr'[r].ver[s]
               /\ Fresh(h)' => done'[r] <= buf[h].ver[s]
    <3>1. CASE S = Sector /\ T = Sector /\ done'[r] = buf[h].ver[0]
      <4>1. Uniform(buf[h].ver)
        BY <2>1, <2>2 DEF NInv, Tears, r
      <4>2. buf[h].ver[s] = buf[h].ver[0]
        BY <4>1 DEF Uniform
      <4> QED
        BY <1>4, <1>9, <3>1, <4>2
    <3>2. CASE done'[r] = done[r] /\ (r \notin stale' => Fresh(h))
      <4>1. done[r] <= buf[h].ver[s]
        BY <2>2, <3>2 DEF NInv, Versions, r
      <4>2. mft[r] # Blank
        BY <1>1, BlankIs
      <4>3. done[r] <= mft[r].ver[s] /\ (r \in Mirrored => done[r] <= mirr[r].ver[s])
        BY <1>1, <2>1, <2>2, <4>2 DEF NInv, Versions
      <4> QED
        BY <1>4, <3>2, <4>1, <4>3
    <3> QED
      BY <1>8, <3>1, <3>2
  <2>3. \A q \in Record : q \notin stale' /\ mft'[q] # Blank => \A s \in Sector : done'[q] <= mft'[q].ver[s]
    BY <1>1, <1>8, <2>1, <2>2 DEF NInv, Versions
  <2>4. \A q \in Mirrored : q \notin stale' => \A s \in Sector : done'[q] <= mirr'[q].ver[s]
    BY <1>1, <1>3, <1>8, <2>1, <2>2 DEF NInv, Versions
  <2>5. ASSUME NEW k \in Holder, Fresh(k)', NEW s \in Sector
        PROVE  done'[buf'[k].rec] <= buf'[k].ver[s]
    <3>1. CASE k = h
      <4>1. buf'[k].rec = r /\ buf'[k].ver = buf[h].ver /\ r \notin stale'
        BY <1>2, <2>5, <3>1 DEF Fresh
      <4> QED
        BY <2>2, <2>5, <3>1, <4>1
    <3>2. CASE k # h
      <4>1. buf'[k] = buf[k] /\ buf[k].rec # r /\ Fresh(k) /\ buf[k].rec \in Record
        BY <1>2, <1>5, <2>5, <3>2 DEF Fresh
      <4>2. done'[buf[k].rec] = done[buf[k].rec]
        BY <1>8, <4>1
      <4> QED
        BY <4>1, <4>2 DEF NInv, Versions
    <3> QED
      BY <3>1, <3>2
  <2> QED
    BY <2>3, <2>4, <2>5 DEF Versions
<1> QED
  BY <1>6, <1>7, <1>10, <1>11
-----------------------------------------------------------------------------
(* The remaining actions leave what is on disk of a record alone, or       *)
(* rewrite it with no inode open.                                          *)
Quiet ==
    /\ UNCHANGED <<mft, mirr, done, stale>> /\ Missed' \in Nat /\ Missed <= Missed'
    /\ version' \in Nat /\ version <= version'

(* An inode that is opened, or laid out, has the number of its record.     *)
LEMMA OpenKeeps ==
    ASSUME RecordAssumption, NInv, NEW h \in Holder, Quiet, UNCHANGED overtaken,
           \A k \in Holder : k # h => buf'[k] = buf[k],
           buf'[h] \in Inode,
           \A s \in Sector : mft[buf'[h].rec].usn[s] = buf'[h].usn,
           buf'[h].rec \notin stale => Uniform(buf'[h].ver),
           \A s \in Sector : buf'[h].ver[s] <= version' /\
              (buf'[h].rec \notin stale => done[buf'[h].rec] <= buf'[h].ver[s])
    PROVE  Tears' /\ Lags' /\ Bounded' /\ Versions'
<1> DEFINE r == buf'[h].rec
<1> USE DEF NInv
<1>1. /\ mft' = mft /\ mirr' = mirr /\ done' = done /\ stale' = stale /\ overtaken' = overtaken
      /\ Missed' \in Nat /\ Missed <= Missed' /\ version' \in Nat /\ version <= version'
  BY DEF Quiet
<1>2. /\ Missed \in Nat /\ r \in Record /\ buf'[h].usn \in Usn /\ r # Free
      /\ version \in Nat /\ \A q \in Record : done[q] \in Nat
  BY MissedIs, FirstSector DEF Inode, FInv, Shapes, Stamp
<1>3. \A s \in Sector : Behind(mft[r].usn[s], buf'[h].usn) = 0
  BY <1>2, BehindNext
<1>4. ASSUME r \notin stale, r \in Mirrored
      PROVE  Follows(mirr[r], mft[r], buf'[h].usn, Missed)
  <2>1. SameUsn(mft[r]) /\ mft[r].usn[0] = buf'[h].usn
    BY FirstSector DEF SameUsn
  <2>2. mft[r] # Blank
    BY <1>2, <2>1, FirstSector DEF Blank, Usn
  <2>3. Readable(mft[r])
    BY <1>2, <2>1, <2>2, FirstSector DEF FInv, Shapes, Readable, IsFile, MftRecord, Stamp
  <2>4. \A t \in Sector : Behind(mirr[r].usn[t], buf'[h].usn) <= Missed
    BY <1>4, <2>1, <2>3, AnyReader
  <2>5. \A t \in Sector : Behind(mirr[r].usn[t], buf'[h].usn) \in Nat
    BY <1>2, <1>4, BehindNext DEF FInv, Shapes, MftRecord
  <2> QED
    BY <1>3, <2>4, <2>5 DEF Follows
<1>5. \A k \in Holder : k # h => (Fresh(k)' <=> Fresh(k))
  BY <1>1 DEF Fresh
<1>6. Tears'
  BY <1>1 DEF Tears, Coherent, Uniform
<1>7. Lags'
  <2>1. ASSUME NEW k \in Holder, Fresh(k)'
        PROVE  /\ \A s \in Sector : Behind(mft[buf'[k].rec].usn[s], buf'[k].usn) <= Missed'
               /\ buf'[k].rec \in Mirrored => Follows(mirr[buf'[k].rec], mft[buf'[k].rec], buf'[k].usn, Missed')
    <3>1. CASE k = h
      <4>1. r \notin stale
        BY <1>1, <2>1, <3>1 DEF Fresh
      <4>2. \A s \in Sector : Behind(mft[r].usn[s], buf'[h].usn) <= Missed'
        BY <1>1, <1>3
      <4>3. ASSUME r \in Mirrored PROVE Follows(mirr[r], mft[r], buf'[h].usn, Missed')
        <5>1. Follows(mirr[r], mft[r], buf'[h].usn, Missed)
          BY <1>4, <4>1, <4>3
        <5>2. \A t \in Sector : Behind(mirr[r].usn[t], buf'[h].usn) \in Nat
          BY <1>2, <4>3, BehindNext DEF FInv, Shapes, MftRecord
        <5> QED
          BY <1>1, <1>2, <5>1, <5>2 DEF Follows
      <4> QED
        BY <3>1, <4>2, <4>3
    <3>2. CASE k # h
      <4> DEFINE q == buf[k].rec
      <4>1. buf'[k] = buf[k] /\ Fresh(k) /\ q # Free
        BY <1>5, <2>1, <3>2 DEF Fresh
      <4>2. /\ buf[k] \in Inode /\ mft[q] \in MftRecord
            /\ q \in Mirrored => mirr[q] \in MftRecord
            /\ \A s \in Sector : Behind(mft[q].usn[s], buf[k].usn) <= Missed
            /\ q \in Mirrored => Follows(mirr[q], mft[q], buf[k].usn, Missed)
        BY <4>1, HeldIs
      <4>3. buf[k].usn \in Usn
        BY <4>2 DEF Inode
      <4>4. \A s \in Sector : Behind(mft[q].usn[s], buf[k].usn) <= Missed'
        BY <1>1, <1>2, <4>2, <4>3, FollowsMore
      <4>5. q \in Mirrored => Follows(mirr[q], mft[q], buf[k].usn, Missed')
        BY <1>1, <1>2, <4>2, <4>3, FollowsMore
      <4> QED
        BY <4>1, <4>4, <4>5
    <3> QED
      BY <3>1, <3>2
  <2>2. ASSUME NEW q \in Mirrored, q \notin stale, Readable(mft[q]), NEW t \in Sector
        PROVE  Behind(mirr[q].usn[t], mft[q].usn[0]) <= Missed'
    <3>1. Behind(mirr[q].usn[t], mft[q].usn[0]) <= Missed
      BY <2>2, AnyReader
    <3>2. mft[q] \in MftRecord /\ mirr[q] \in MftRecord
      BY <2>2, BlankIs, FirstSector DEF FInv, Shapes
    <3>3. Behind(mirr[q].usn[t], mft[q].usn[0]) \in Nat
      BY <3>2, BehindNext, FirstSector DEF MftRecord
    <3> QED
      BY <1>1, <1>2, <3>1, <3>3
  <2> QED
    BY <1>1, <2>1, <2>2 DEF Lags, Follows, Readable, IsFile, SameUsn
<1>8. Bounded'
  <2>1. \A q \in Record : done[q] <= version'
    BY <1>1, <1>2 DEF Bounded
  <2>2. \A q \in Record : \A s \in Sector : mft[q].ver[s] <= version'
    <3>1. \A q \in Record : \A s \in Sector : mft[q].ver[s] \in Nat
      BY DEF FInv, Shapes, MftRecord, Blank, Stamp
    <3> QED
      BY <1>1, <1>2, <3>1 DEF Bounded
  <2>3. \A q \in Mirrored : \A s \in Sector : mirr[q].ver[s] <= version'
    <3>1. \A q \in Mirrored : \A s \in Sector : mirr[q].ver[s] \in Nat
      BY DEF FInv, Shapes, MftRecord, Stamp
    <3> QED
      BY <1>1, <1>2, <3>1 DEF Bounded
  <2>4. \A k \in Holder : \A s \in Sector : buf'[k].ver[s] <= version'
    <3>1. \A k \in Holder : \A s \in Sector : buf[k].ver[s] \in Nat
      BY DEF FInv, Shapes, Inode, NoBuf, Stamp
    <3> QED
      BY <1>1, <1>2, <3>1 DEF Bounded
  <2> QED
    BY <1>1, <2>1, <2>2, <2>3, <2>4 DEF Bounded
<1>9. Versions'
  <2>1. \A k \in Holder : Fresh(k)' => \A s \in Sector : done[buf'[k].rec] <= buf'[k].ver[s]
    <3>1. Fresh(h)' => r \notin stale
      BY <1>1 DEF Fresh
    <3> QED
      BY <1>5, <3>1 DEF Versions
  <2> QED
    BY <1>1, <2>1 DEF Versions
<1> QED
  BY <1>6, <1>7, <1>8, <1>9

(* Closing inodes, or the end of all of them, disturbs nothing; what was   *)
(* missed before has been missed still.                                    *)
LEMMA CloseKeeps ==
    ASSUME RecordAssumption, NInv, Quiet, version' = version,
           \A k \in Holder : buf'[k] = NoBuf \/ (buf'[k] = buf[k] /\ (k \in overtaken => k \in overtaken'))
    PROVE  Tears' /\ Lags' /\ Bounded' /\ Versions'
<1> USE DEF NInv
<1>1. /\ mft' = mft /\ mirr' = mirr /\ done' = done /\ stale' = stale /\ version' = version
      /\ Missed' \in Nat /\ Missed <= Missed' /\ Missed \in Nat
  BY MissedIs DEF Quiet
<1>2. /\ \A s \in Sector : NoBuf.ver[s] = 0
      /\ NoBuf.rec = Free /\ Uniform(NoBuf.ver) /\ version \in Nat
  BY FirstSector DEF NoBuf, Uniform, FInv, Shapes, Stamp
<1>3. \A k \in Holder : Fresh(k)' => buf'[k] = buf[k] /\ Fresh(k)
  BY <1>1, <1>2 DEF Fresh
<1>4. Tears'
  BY <1>1, <1>2 DEF Tears, Coherent, Uniform
<1>5. Lags'
  <2>1. ASSUME NEW k \in Holder, Fresh(k)'
        PROVE  /\ \A s \in Sector : Behind(mft[buf[k].rec].usn[s], buf[k].usn) <= Missed'
               /\ buf[k].rec \in Mirrored => Follows(mirr[buf[k].rec], mft[buf[k].rec], buf[k].usn, Missed')
    <3> DEFINE q == buf[k].rec
    <3>1. Fresh(k) /\ q # Free
      BY <1>3, <2>1 DEF Fresh
    <3>2. /\ buf[k] \in Inode /\ mft[q] \in MftRecord
          /\ q \in Mirrored => mirr[q] \in MftRecord
          /\ \A s \in Sector : Behind(mft[q].usn[s], buf[k].usn) <= Missed
          /\ q \in Mirrored => Follows(mirr[q], mft[q], buf[k].usn, Missed)
      BY <3>1, HeldIs
    <3>3. buf[k].usn \in Usn
      BY <3>2 DEF Inode
    <3>4. \A s \in Sector : Behind(mft[q].usn[s], buf[k].usn) <= Missed'
      BY <1>1, <3>2, <3>3, FollowsMore
    <3>5. q \in Mirrored => Follows(mirr[q], mft[q], buf[k].usn, Missed')
      BY <1>1, <3>2, <3>3, FollowsMore
    <3> QED
      BY <3>4, <3>5
  <2>2. ASSUME NEW q \in Mirrored, q \notin stale, Readable(mft[q]), NEW t \in Sector
        PROVE  Behind(mirr[q].usn[t], mft[q].usn[0]) <= Missed'
    <3>1. Behind(mirr[q].usn[t], mft[q].usn[0]) <= Missed
      BY <2>2, AnyReader
    <3>2. mft[q] \in MftRecord /\ mirr[q] \in MftRecord
      BY <2>2, BlankIs, FirstSector DEF FInv, Shapes
    <3>3. Behind(mirr[q].usn[t], mft[q].usn[0]) \in Nat
      BY <3>2, BehindNext, FirstSector DEF MftRecord
    <3> QED
      BY <1>1, <3>1, <3>3
  <2> QED
    BY <1>1, <1>3, <2>1, <2>2 DEF Lags, Follows, Readable, IsFile, SameUsn
<1>6. Bounded'
  BY <1>1, <1>2 DEF Bounded
<1>7. Versions'
  BY <1>1, <1>3 DEF Versions
<1> QED
  BY <1>4, <1>5, <1>6, <1>7

(* Records that change while no inode is open: each is as it was, has been *)
(* wiped, written again by ntfsfix, or broken off by it.                   *)
Redone(r) ==
    \/ mft'[r] = mft[r] /\ mirr'[r] = mirr[r]
    \/ mft'[r] = Blank /\ mirr'[r] = mirr[r]
    \/ /\ r \in Reached /\ Differ(r)
       /\ mft'[r] = Rewritten(r) /\ mirr'[r] = Rewritten(r)
    \/ /\ r \in Reached /\ Differ(r) /\ Missed' = Missed + 1
       /\ \E S, T \in SUBSET Sector :
             LET b == [rec |-> r, usn |-> mft[r].usn[0], ver |-> mft[r].ver]
             IN  /\ S = Sector \/ T = {}
                 /\ mft'[r] = Over(mft[r], b, S) /\ mirr'[r] = Over(mirr[r], b, T)

(* What such a change leaves of one record.                                *)
LEMMA RedoneIs ==
    ASSUME RecordAssumption, NInv, NEW r \in Mirrored, Redone(r),
           Missed' \in Nat, Missed <= Missed'
    PROVE  /\ \A s \in Sector : mft'[r].ver[s] <= version /\ mirr'[r].ver[s] <= version
           /\ r \notin stale =>
                 /\ Coherent(mft'[r]) /\ Coherent(mirr'[r])
                 /\ mft'[r] # Blank => \A s \in Sector : done[r] <= mft'[r].ver[s]
                 /\ \A s \in Sector : done[r] <= mirr'[r].ver[s]
                 /\ Readable(mft'[r]) =>
                       \A t \in Sector : Behind(mirr'[r].usn[t], mft'[r].usn[0]) <= Missed'
<1> USE DEF NInv
<1>1. /\ r \in Record /\ mirr[r] \in MftRecord /\ Missed \in Nat /\ version \in Nat
      /\ mft[r] \in MftRecord \union {Blank}
      /\ \A s \in Sector : mft[r].ver[s] <= version /\ mirr[r].ver[s] <= version
      /\ r \notin stale =>
            /\ Coherent(mft[r]) /\ Coherent(mirr[r])
            /\ mft[r] # Blank => \A s \in Sector : done[r] <= mft[r].ver[s]
            /\ \A s \in Sector : done[r] <= mirr[r].ver[s]
  BY FirstSector, MissedIs DEF FInv, Shapes, Stamp, Bounded, Tears, Versions
<1>2. ASSUME r \notin stale, Readable(mft[r]), NEW t \in Sector
      PROVE  Behind(mirr[r].usn[t], mft[r].usn[0]) <= Missed'
  <2>1. Behind(mirr[r].usn[t], mft[r].usn[0]) <= Missed
    BY <1>2, AnyReader
  <2>2. mft[r] \in MftRecord
    BY <1>1, <1>2, BlankIs
  <2>3. Behind(mirr[r].usn[t], mft[r].usn[0]) \in Nat
    BY <1>1, <2>2, BehindNext, FirstSector DEF MftRecord
  <2> QED
    BY <1>1, <2>1, <2>3
<1>3. CASE mft'[r] = mft[r] /\ mirr'[r] = mirr[r]
  BY <1>1, <1>2, <1>3
<1>4. CASE mft'[r] = Blank /\ mirr'[r] = mirr[r]
  <2>1. Coherent(Blank) /\ ~Readable(Blank) /\ \A s \in Sector : Blank.ver[s] = 0
    BY BlankIs DEF Coherent, Blank
  <2> QED
    BY <1>1, <1>4, <2>1
<1>5. CASE r \in Reached /\ Differ(r) /\ mft'[r] = Rewritten(r) /\ mirr'[r] = Rewritten(r)
  <2>1. /\ r \notin stale => Coherent(Rewritten(r))
        /\ Rewritten(r).ver = mft[r].ver
        /\ Behind(Rewritten(r).usn[0], Rewritten(r).usn[0]) = 0
        /\ \A s \in Sector : Rewritten(r).usn[s] = Rewritten(r).usn[0]
    BY <1>5, FixLeaves
  <2>2. mft[r] # Blank
    BY <1>5, FirstSector DEF Differ, IsFile, Blank
  <2>3. \A s \in Sector : Behind(Rewritten(r).usn[s], Rewritten(r).usn[0]) <= Missed'
    BY <2>1
  <2> QED
    BY <1>1, <1>5, <2>1, <2>2, <2>3
<1>6. CASE r \in Reached /\ Differ(r) /\ Missed' = Missed + 1 /\
           \E S, T \in SUBSET Sector :
             LET b == [rec |-> r, usn |-> mft[r].usn[0], ver |-> mft[r].ver]
             IN  /\ S = Sector \/ T = {}
                 /\ mft'[r] = Over(mft[r], b, S) /\ mirr'[r] = Over(mirr[r], b, T)
  <2> DEFINE b == [rec |-> r, usn |-> mft[r].usn[0], ver |-> mft[r].ver]
  <2>1. PICK S \in SUBSET Sector, T \in SUBSET Sector :
           /\ S = Sector \/ T = {}
           /\ mft'[r] = Over(mft[r], b, S) /\ mirr'[r] = Over(mirr[r], b, T)
    BY <1>6
  <2>2. mft[r] # Blank /\ b.ver = mft[r].ver
    BY <1>6, FirstSector DEF Differ, IsFile, Blank
  <2>3. r \notin stale =>
           /\ Coherent(Over(mft[r], b, S)) /\ Coherent(Over(mirr[r], b, T))
           /\ \A t \in Sector : Behind(Over(mirr[r], b, T).usn[t], Over(mft[r], b, S).usn[0]) <= Missed + 1
    BY <1>6, <2>1, FixStopLeaves
  <2>4. \A s \in Sector : /\ Over(mft[r], b, S).ver[s] = mft[r].ver[s]
                          /\ Over(mirr[r], b, T).ver[s] = IF s \in T THEN mft[r].ver[s] ELSE mirr[r].ver[s]
    BY <2>2 DEF Over
  <2> HIDE DEF b
  <2> QED
    BY <1>1, <1>6, <2>1, <2>2, <2>3, <2>4
<1> QED
  BY <1>3, <1>4, <1>5, <1>6 DEF Redone

(* Changes of the volume while it is not mounted keep the invariant.       *)
LEMMA RedoKeeps ==
    ASSUME RecordAssumption, NInv, ~mounted, UNCHANGED <<buf, done, version, stale>>,
           Missed' \in Nat, Missed <= Missed',
           \A r \in Mirrored : Redone(r),
           \A r \in Record : r \notin Mirrored => mft'[r] = mft[r]
    PROVE  Tears' /\ Lags' /\ Bounded' /\ Versions'
<1>1. \A k \in Holder : buf'[k].rec = Free /\ buf'[k].ver = buf[k].ver /\ buf'[k].rec = buf[k].rec
  BY BlankIs DEF NInv, FInv, Mounting
<1>2. \A k \in Holder : ~Fresh(k)'
  BY <1>1 DEF Fresh
<1>3. /\ stale' = stale /\ done' = done /\ version' = version
      /\ \A r \in Mirrored : r \in Record
  BY FirstSector
<1>4. \A r \in Mirrored :
           /\ \A s \in Sector : mft'[r].ver[s] <= version /\ mirr'[r].ver[s] <= version
           /\ r \notin stale =>
                 /\ Coherent(mft'[r]) /\ Coherent(mirr'[r])
                 /\ mft'[r] # Blank => \A s \in Sector : done[r] <= mft'[r].ver[s]
                 /\ \A s \in Sector : done[r] <= mirr'[r].ver[s]
                 /\ Readable(mft'[r]) =>
                       \A t \in Sector : Behind(mirr'[r].usn[t], mft'[r].usn[0]) <= Missed'
  BY RedoneIs
<1>5. \A r \in Record : r \notin Mirrored => mft'[r] = mft[r]
  OBVIOUS
<1>6. Tears'
  BY <1>1, <1>3, <1>4, <1>5 DEF NInv, Tears, Coherent, Uniform
<1>7. Lags'
  BY <1>2, <1>3, <1>4 DEF Lags, Readable, IsFile, SameUsn
<1>8. Bounded'
  BY <1>1, <1>3, <1>4, <1>5 DEF NInv, Bounded
<1>9. Versions'
  BY <1>2, <1>3, <1>4, <1>5 DEF NInv, Versions
<1> QED
  BY <1>6, <1>7, <1>8, <1>9

(* Every step keeps the invariant, whatever inodes are open.               *)
LEMMA NNext == RecordAssumption /\ NInv /\ [Next]_vars => NInv'
<1> SUFFICES ASSUME RecordAssumption, NInv, [Next]_vars PROVE Tears' /\ Lags' /\ Bounded' /\ Versions'
  BY FNext DEF NInv
<1> USE FirstSector, BlankIs DEF history, bounds, others
<1>1. /\ Missed \in Nat /\ version \in Nat
      /\ \A r \in Record : done[r] \in Nat /\ done[r] <= version
      /\ faults \in Nat /\ crashes \in Nat /\ Missed = faults + crashes
  BY MissedIs DEF NInv, FInv, Shapes, Stamp, Bounded, RecordAssumption, Missed
<1>2. ASSUME NEW h \in Holder, NEW r \in Record, Open(h, r) PROVE Tears' /\ Lags' /\ Bounded' /\ Versions'
  <2>1. buf' = [buf EXCEPT ![h] = [rec |-> r, usn |-> mft[r].usn[0], ver |-> mft[r].ver]]
    BY <1>2 DEF Open
  <2>2. mft[r] \in MftRecord /\ SameUsn(mft[r]) /\ mft[r] # Blank
    BY <1>2 DEF Open, NInv, FInv, Mounting, Readable
  <2>3. /\ buf'[h] = [rec |-> r, usn |-> mft[r].usn[0], ver |-> mft[r].ver] /\ buf'[h] \in Inode
        /\ \A k \in Holder : k # h => buf'[k] = buf[k]
    BY <2>1, <2>2 DEF NInv, FInv, Shapes, Inode, MftRecord
  <2>4. r \notin stale => Uniform(mft[r].ver)
    BY <2>2 DEF NInv, Tears, Coherent, Uniform, SameUsn
  <2>5. \A s \in Sector : mft[r].ver[s] <= version /\ (r \notin stale => done[r] <= mft[r].ver[s])
    BY <2>2 DEF NInv, Bounded, Versions
  <2>6. Quiet /\ UNCHANGED overtaken /\ version' = version
    BY <1>1, <1>2 DEF Open, Quiet, Missed
  <2>7. \A s \in Sector : mft[r].usn[s] = mft[r].usn[0]
    BY <2>2 DEF SameUsn
  <2> QED
    BY <2>3, <2>4, <2>5, <2>6, <2>7, OpenKeeps
<1>3. ASSUME NEW h \in Holder, NEW r \in Record, Reuse(h, r) PROVE Tears' /\ Lags' /\ Bounded' /\ Versions'
  <2>1. mft[r] \in MftRecord /\ SameUsn(mft[r]) /\ mft[r].usn[0] \in Usn
    BY <1>3 DEF Reuse, NInv, FInv, Mounting, MftRecord
  <2>2. mft[r].usn[0] \notin {0, UsnMax}
    BY <2>1 DEF Usn, RecordAssumption
  <2>3. buf' = [buf EXCEPT ![h] = [rec |-> r, usn |-> mft[r].usn[0], ver |-> [s \in Sector |-> version']]]
    BY <1>3, <2>2 DEF Reuse
  <2>4. version' \in Stamp /\ version' = version + 1
    BY <1>1, <1>3 DEF Reuse, Stamp
  <2>5. /\ buf'[h] = [rec |-> r, usn |-> mft[r].usn[0], ver |-> [s \in Sector |-> version']]
        /\ buf'[h] \in Inode
        /\ \A k \in Holder : k # h => buf'[k] = buf[k]
    BY <2>1, <2>3, <2>4 DEF NInv, FInv, Shapes, Inode
  <2>6. Uniform(buf'[h].ver) /\ \A s \in Sector : buf'[h].ver[s] = version'
    BY <2>5 DEF Uniform
  <2>7. Quiet /\ UNCHANGED overtaken
    BY <1>1, <1>3, <2>4 DEF Reuse, Quiet, Missed, Stamp
  <2>8. done[r] <= version'
    BY <1>1, <2>4
  <2>9. \A s \in Sector : mft[r].usn[s] = mft[r].usn[0]
    BY <2>1 DEF SameUsn
  <2>10. version' <= version' /\ buf'[h].rec = r /\ buf'[h].usn = mft[r].usn[0]
    BY <1>1, <2>4, <2>5
  <2> QED
    BY <2>5, <2>6, <2>7, <2>8, <2>9, <2>10, OpenKeeps
<1>4. ASSUME NEW h \in Holder, Modify(h) PROVE Tears' /\ Lags' /\ Bounded' /\ Versions'
  <2> DEFINE q == buf[h].rec
  <2>1. buf[h] \in Inode /\ buf[h].rec # Free /\ q \in Record
    BY <1>4 DEF Modify, NInv, FInv, Shapes, Inode
  <2>2. version' = version + 1
    BY <1>4 DEF Modify
  <2>3. /\ buf'[h].rec = q /\ buf'[h].usn = buf[h].usn
        /\ buf'[h].ver = [s \in Sector |-> version']
        /\ \A k \in Holder : k # h => buf'[k] = buf[k]
    BY <1>4, <2>1 DEF Modify, NInv, FInv, Shapes, Inode
  <2>4. /\ UNCHANGED <<mft, mirr, done, stale, overtaken>> /\ Missed' = Missed
    BY <1>4 DEF Modify, Missed
  <2>5. \A k \in Holder : Fresh(k)' <=> Fresh(k)
    BY <2>3, <2>4 DEF Fresh
  <2>6. Tears'
    BY <2>3, <2>4 DEF NInv, Tears, Coherent, Uniform
  <2>7. \A k \in Holder : buf'[k].rec = buf[k].rec /\ buf'[k].usn = buf[k].usn
    BY <2>3
  <2>8. Lags'
    BY <2>4, <2>5, <2>7 DEF NInv, Lags, Follows, Readable, IsFile, SameUsn
  <2>9. Bounded'
    <3>1. /\ \A r \in Record : \A s \in Sector : mft[r].ver[s] \in Nat
          /\ \A r \in Mirrored : \A s \in Sector : mirr[r].ver[s] \in Nat
          /\ \A k \in Holder : \A s \in Sector : buf[k].ver[s] \in Nat
      <4>1. \A r \in Record : \A s \in Sector : mft[r].ver[s] \in Nat
        BY DEF NInv, FInv, Shapes, MftRecord, Blank, Stamp
      <4>2. \A r \in Mirrored : \A s \in Sector : mirr[r].ver[s] \in Nat
        BY DEF NInv, FInv, Shapes, MftRecord, Stamp
      <4>3. \A k \in Holder : \A s \in Sector : buf[k].ver[s] \in Nat
        BY DEF NInv, FInv, Shapes, Inode, NoBuf, Stamp
      <4> QED
        BY <4>1, <4>2, <4>3
    <3>2. /\ \A r \in Record : done[r] <= version'
          /\ \A r \in Record : \A s \in Sector : mft[r].ver[s] <= version'
          /\ \A r \in Mirrored : \A s \in Sector : mirr[r].ver[s] <= version'
      BY <1>1, <2>2, <3>1 DEF NInv, Bounded
    <3>3. \A k \in Holder : \A s \in Sector : buf'[k].ver[s] <= version'
      BY <1>1, <2>2, <2>3, <3>1 DEF NInv, Bounded
    <3> QED
      BY <2>4, <3>2, <3>3 DEF Bounded
  <2>10. Versions'
    <3>1. done[q] <= version'
      BY <1>1, <2>1, <2>2
    <3> QED
      BY <2>3, <2>4, <2>5, <3>1 DEF NInv, Versions
  <2> QED
    BY <2>6, <2>8, <2>9, <2>10
<1>5. ASSUME NEW h \in Holder, Close(h) PROVE Tears' /\ Lags' /\ Bounded' /\ Versions'
  <2>1. Quiet /\ version' = version
    BY <1>1, <1>5 DEF Close, Quiet, Missed
  <2>2. \A k \in Holder : buf'[k] = NoBuf \/ (buf'[k] = buf[k] /\ (k \in overtaken => k \in overtaken'))
    BY <1>5 DEF Close, NInv, FInv, Shapes
  <2> QED
    BY <2>1, <2>2, CloseKeeps
<1>6. ASSUME NEW h \in Holder,
             Write(h) \/ WriteFails(h) \/ MirrorWriteFails(h) \/ CrashInWrite(h) \/ CrashInMirrorWrite(h)
      PROVE  Tears' /\ Lags' /\ Bounded' /\ Versions'
  BY <1>6, AnyWrite, WriteKeeps
<1>7. CASE Crash
  <2>1. Quiet /\ version' = version
    BY <1>1, <1>7 DEF Crash, GoDown, Quiet, Missed
  <2>2. \A k \in Holder : buf'[k] = NoBuf
    BY <1>7 DEF Crash, GoDown
  <2> QED
    BY <2>1, <2>2, CloseKeeps
<1>8. CASE Unmount \/ Mount \/ UNCHANGED vars
  <2>1. Quiet /\ version' = version
    BY <1>1, <1>8 DEF Unmount, Mount, vars, Quiet, Missed
  <2>2. \A k \in Holder : buf'[k] = buf[k] /\ overtaken' = overtaken
    BY <1>8 DEF Unmount, Mount, vars
  <2> QED
    BY <2>1, <2>2, CloseKeeps
<1>9. CASE Fix
  <2>1. /\ ~mounted /\ UNCHANGED <<buf, done, version, stale>> /\ Missed' = Missed
        /\ \A r \in Record : mft'[r] = IF r \in Reached /\ Differ(r) THEN Rewritten(r) ELSE mft[r]
        /\ \A r \in Mirrored : mirr'[r] = IF r \in Reached /\ Differ(r) THEN Rewritten(r) ELSE mirr[r]
    BY <1>9 DEF Fix, FixRun, Missed
  <2>2. \A r \in Mirrored : Redone(r)
    BY <2>1 DEF Redone
  <2>3. \A r \in Record : r \notin Mirrored => mft'[r] = mft[r]
    BY <2>1 DEF Reached
  <2> QED
    BY <1>1, <2>1, <2>2, <2>3, RedoKeeps
<1>10. ASSUME NEW r \in Mirrored, FixStops(r) PROVE Tears' /\ Lags' /\ Bounded' /\ Versions'
  <2> DEFINE before == {q \in Reached : Differ(q) /\ q < r}
             b == [rec |-> r, usn |-> mft[r].usn[0], ver |-> mft[r].ver]
  <2>1. PICK S \in SUBSET Sector, T \in SUBSET Sector :
          /\ S = Sector \/ T = {}
          /\ mft' = [q \in Record |-> IF q \in before THEN Rewritten(q)
                                      ELSE IF q = r THEN Over(mft[q], b, S) ELSE mft[q]]
          /\ mirr' = [q \in Mirrored |-> IF q \in before THEN Rewritten(q)
                                         ELSE IF q = r THEN Over(mirr[q], b, T) ELSE mirr[q]]
    BY <1>10 DEF FixStops
  <2>2. /\ ~mounted /\ UNCHANGED <<buf, done, version, stale>> /\ Missed' = Missed + 1
        /\ r \in Reached /\ Differ(r)
    BY <1>1, <1>10 DEF FixStops, FixRun, Missed
  <2>3. ASSUME NEW q \in Mirrored PROVE Redone(q)
    <3>1. CASE q \in before
      BY <2>1, <3>1 DEF Redone
    <3>2. CASE q \notin before /\ q = r
      <4>1. mft'[r] = Over(mft[r], b, S) /\ mirr'[r] = Over(mirr[r], b, T)
        BY <2>1, <3>2
      <4> QED
        BY <2>1, <2>2, <3>2, <4>1 DEF Redone
    <3>3. CASE q \notin before /\ q # r
      <4> HIDE DEF before, b
      <4> QED
        BY <2>1, <3>3 DEF Redone
    <3> QED
      BY <3>1, <3>2, <3>3
  <2>4. \A q \in Record : q \notin Mirrored => mft'[q] = mft[q]
    BY <2>1 DEF Reached
  <2>5. Missed' \in Nat /\ Missed <= Missed'
    BY <1>1, <2>2
  <2> QED
    BY <2>2, <2>3, <2>4, <2>5, RedoKeeps
<1>11. ASSUME NEW r \in Mirrored, Wipe(r) PROVE Tears' /\ Lags' /\ Bounded' /\ Versions'
  <2>1. /\ ~mounted /\ UNCHANGED <<buf, done, version, stale>> /\ Missed' = Missed
        /\ mft' = [mft EXCEPT ![r] = Blank] /\ mirr' = mirr
    BY <1>11 DEF Wipe, Missed
  <2>2. \A q \in Mirrored : Redone(q)
    BY <2>1 DEF Redone, NInv, FInv, Shapes
  <2>3. \A q \in Record : q \notin Mirrored => mft'[q] = mft[q]
    BY <2>1
  <2> QED
    BY <1>1, <2>1, <2>2, <2>3, RedoKeeps
<1> QED
  BY <1>2, <1>3, <1>4, <1>5, <1>6, <1>7, <1>8, <1>9, <1>10, <1>11 DEF Next
-----------------------------------------------------------------------------
(* The multi sector transfer protection (ntfs_mst_pre_write_fixup,         *)
(* ntfs_mst_post_read_fixup): every torn record is detected, however many  *)
(* inodes of it are open, but for a record of which an inode that another  *)
(* had overtaken broke off a write.                                        *)
THEOREM TornAreDetected == Spec => []TornWritesDetected
<1>1. NInv => TornWritesDetected
  BY RecordAssumption, FirstSector
     DEF NInv, Tears, TornWritesDetected, Detected, Coherent, Readable, SameUsn
<1> QED
  BY <1>1, NInit, NNext, RecordAssumption, PTL DEF Spec

(* What ntfs_mft_records_write has reported as written to a mirrored record*)
(* can be read from $MFT or the mirror, wherever a write, ntfsfix or the   *)
(* machine stops, with the same exception.                                 *)
THEOREM WrittenSurvive == Spec => []WrittenRecordsSurvive
<1>1. ASSUME NInv PROVE WrittenRecordsSurvive
  <2> SUFFICES ASSUME NEW r \in Mirrored \ (failed \union wiped \union stale)
               PROVE  Holds(mft[r], done[r]) \/ Holds(mirr[r], done[r])
    BY DEF WrittenRecordsSurvive
  <2>1. /\ Readable(mft[r]) \/ Readable(mirr[r])
        /\ r \in Record /\ r \notin stale /\ ~Readable(Blank)
    BY <1>1, RecordAssumption, FirstSector, BlankIs DEF NInv, FInv, Pairs
  <2>2. /\ Readable(mft[r]) => done[r] <= mft[r].ver[0]
        /\ done[r] <= mirr[r].ver[0]
    BY <1>1, <2>1, RecordAssumption, FirstSector DEF NInv, Versions
  <2>3. done[r] \in Nat /\ mirr[r].ver[0] \in Nat /\ mft[r].ver[0] \in Nat
    BY <1>1, <2>1, RecordAssumption, FirstSector DEF NInv, FInv, Shapes, MftRecord, Blank, Stamp
  <2> QED
    BY <2>1, <2>2, <2>3 DEF Holds
<1> QED
  BY <1>1, NInit, NNext, RecordAssumption, PTL DEF Spec
=============================================================================
