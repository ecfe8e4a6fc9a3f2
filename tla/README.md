# A TLA+ model of libntfs

This directory holds TLA+ modules, TLC configurations and TLAPS proofs about
the NTFS library and tools of this repository. The reference is `src/rm`
(`src/cvs` is a second copy of it): every definition is translated from the C
code there, and `PROJECT.json` names the lines each definition stands for.

1. [The system](#1-the-system)
2. [Modules](#2-modules)
3. [Runs, bounds and fairness](#3-runs-bounds-and-fairness)
4. [Proofs](#4-proofs)
5. [What the code does that its comments do not say](#5-what-the-code-does-that-its-comments-do-not-say)
6. [What is not modelled](#6-what-is-not-modelled)
7. [What is left](#7-what-is-left)

## 1. The system

`libntfs` reads and writes an NTFS volume from user space, on a device or an
image file. It is used by one process, is not thread safe and starts no
threads; there is no journalling: the library refuses a volume whose journal is
not clean, and two of the programs empty it. A call runs from its beginning to its end without
waiting for anybody. What makes the code hard is not interleaving but the
middle of a call: every operation is a sequence of reads and writes of several
metadata structures, each of which can fail, some of which are kept in memory
and written later or never, and the machine can stop between any two of them.
So the questions these modules ask are about order, partial failure, crashes,
numbers at their limits, and state that two structures hold about one thing.

### Components

**Cluster allocator** (`libntfs/lcnalloc.c`). State: `$Bitmap` on disk, the zones in
`ntfs_volume` (`mft_zone_start/end/pos`, `data1_zone_pos`, `data2_zone_pos`).
Operations: `ntfs_cluster_alloc`, `ntfs_cluster_free`, `ntfs_cluster_free_from_rl`.
Called by the attribute code and the mft code. Hard: two passes over three zones through
a window, with a switch between them and a mft zone that shrinks; a failure after some
windows are on disk. Correct when a cluster never has two owners, when the bits agree
with the owners, when "no space" is true, and when the call ends.

**Bitmap runs** (`libntfs/bitmap.c`, first half). No state of its own; sets or clears a run
of bits of an attribute. Called for `$Bitmap`, `$MFT/$BITMAP` and index
bitmaps. Hard: partial bytes at both ends and a buffer of limited size.
Correct when exactly the run changes, and a prefix of it on failure.

**Mft record allocator** (`libntfs/mft.c`). State: `$MFT/$BITMAP`, the records,
the sizes of both attributes in memory and on disk, `mft_data_pos`.
Operations: `ntfs_mft_record_alloc`, `ntfs_mft_record_free`, and underneath
them find, extend and format. It calls the cluster allocator and the attribute
code. Hard: a record exists as a bit, on disk, in an open inode and as part of
a size; five undo paths. Correct when a record in use has its bit, when no
record is handed out twice, and when an old reference does not reach a new file.

**Records on disk** (`libntfs/mst.c`, `ntfs_mft_records_write` and
`ntfs_attr_mst_pread/pwrite`). State: the sectors of each record and of its
mirror, an update sequence number. Hard: a write stops between sectors, or
between `$MFT` and `$MFTMirr`. Correct when a torn record is recognised and one
good copy remains.

**ntfsfix** (`ntfsprogs/ntfsfix.c`). Compares `$MFT` with `$MFTMirr` where a
mount refuses to, writes both again, marks the volume dirty and empties the
journal. Correct when what it leaves can be mounted and loses nothing.

**Volumes** (`libntfs/volume.c`). State: `ntfs_volume`. Start-up, mount with
its checks (mirror, journal, hibernation), unmount, volume flags. Hard: what
is in memory only is written at unmount, and errors there are ignored. Correct
when nobody mounts for writing what Windows has not finished with.

**Inodes** (`libntfs/inode.c`). State: `ntfs_inode` with its record, dirty
flags, extents and the cached attribute list. Open, sync, close, move
attributes. Calls the index code to update the file name in the parent. Hard:
an order of four kinds of writes, a second inode of the same record. Correct
when what could not be written stays dirty, and a stop loses nothing that was
not being changed.

**Attributes** (`libntfs/attrib.c`, `compress.c`).
State: `ntfs_attr` with sizes and runlist, attribute records and mapping
pairs. Open, read, write, resize, add, remove, move, resident to non-resident
and back. Call the cluster allocator, and the mft allocator for extents.
Hard: sizes and runlist in memory, mapping pairs in the record and bits in
`$Bitmap` change one after the other, each with a roll back. Correct when no
cluster an attribute maps is free, and sizes follow the mapping.

**Runlists and mapping pairs** (`libntfs/runlist.c`). Pure functions: merge,
truncate, size, build, decompress. Hard: every way two runlists can meet, and
signed numbers of as few bytes as possible. Correct when a runlist and an array
of mapping pairs say what the attribute maps.

**Attribute lists** (`libntfs/attrlist.c`). State: the list in the inode and
its attribute. Called when an attribute is added to, removed from or moved
between the records of an inode. Hard: the list is an attribute itself, and to
enter one attribute it may have to move others. Correct when the list names
every attribute where it is.

**Directories and indexes** (`libntfs/dir.c`, `index.c`, `collate.c`). State:
index entries of a directory. Lookup, readdir, create, link, delete, index add
and remove. Call the inode, attribute, cluster and record code. Hard: an
entry, a name in the record and a link count say the same thing three times.
Correct when they agree, and when a name that was made leads to its file.

**Journal** (`libntfs/logfile.c`). State: the blocks of `$LogFile`, which
Windows writes. Checked at mount, filled with 0xff by `ntfsfix` and
`ntfsresize`. Hard: torn, old and half filled pages; the order of the volume
flag and the fill. Correct when no journal is lost without a mark.

**The `NTFS_RICH` layer** (`tree.c`, `rich.c`, parts of `bitmap.c`, `dir.c`,
`mft.c`, `inode.c`, `volume.c`; `ntfsprogs/ntfsrm.c`). State: directory trees,
cached clusters of two bitmaps and those of directories. Unlink in memory, then
`ntfs_volume_commit` or `ntfs_volume_rollback`. Work in progress; the cache of
bitmaps is the part that is complete.

**Programs** (`ntfsprogs/`). `ntfsmount` (FUSE handlers; a rename is a link and
an unlink), `ntfsresize` (moves what lies behind the new end, then changes
`$BadClus`, `$Bitmap` and the boot sector; correct when a stop between any two
writes leaves a volume, or one marked for a check), `mkntfs`, `ntfsclone` and
readers and printers of one kind or another.

**Devices and support** (`device.c`, `unix_io.c`, `win32_io.c`,
`gnome-vfs-method.c`, `unistr.c`, `security.c`, `bootsect.c`, `logging.c`).

Interaction is by calls only, downwards: programs → directories, inodes →
attributes → record allocator → cluster allocator → bitmap runs → records on
disk → device; the one cycle is that a bitmap and `$MFT` are attributes
themselves, and that the sync of an inode calls into the index of its parent.

What is hard to test is listed with its place in the code under `hazards` in
`PROJECT.json`, each with the properties that cover it or the reason why none does.

## 2. Modules

| module | code | role |
|---|---|---|
| `ClusterStore` | what `attrib.c`, `mft.c`, `dir.c` rely on | abstract specification of the allocator |
| `LcnAlloc` | `lcnalloc.c`, zones of `volume.c` | detailed specification, implements `ClusterStore` |
| `LcnAlloc_proofs` | | theorems about `LcnAlloc` |
| `NatSets`, `NatSetLemmas` | | least, greatest and lowest-n elements, with lemmas |
| `BitmapRun` | `bitmap.c` | one call, window by window |
| `MftAlloc` | `mft.c`, open/sync/close of `inode.c`, `ntfs_mft_load` | record allocator |
| `MftAlloc_proofs` | | theorems about `MftAlloc` |
| `RecordIO` | `mst.c`, `ntfs_mft_records_write`, mount, `ntfsfix.c` | records on disk |
| `RecordIO_proofs` | | theorems about `RecordIO` |
| `AttrData` | `attrib.c`: pwrite, pread, truncate, expand, shrink, both conversions, update of the mapping pairs | the content of an attribute |
| `AttrData_proofs` | | theorems about `AttrData` |
| `Runlist` | `runlist.c`, mapping of extents in `attrib.c` | merge, truncate, mapping pairs |
| `AttrList` | `attrlist.c`, add, remove, move and grow of `attrib.c`, sync and extents of `inode.c` | attributes over the records of an inode |
| `DirOps` | `dir.c`, `index.c`, handlers of `ntfsmount.c` | names |
| `DirOps_proofs` | | theorems about `DirOps` |
| `Journal` | `logfile.c`, mount of `volume.c`, `ntfsfix.c`, start of `ntfsresize.c` | flags, hibernation and journal |
| `Journal_proofs` | | theorems about `Journal` |
| `Resize` | `ntfsresize.c` | moving a volume into fewer or more clusters |
| `Resize_proofs` | | theorems about `Resize` |
| `BmpCache` | `bitmap.c` (`NTFS_RICH`) | cached clusters of a bitmap |
| `MC...` | | layouts and sets for the runs |

The modules meet where the code does, each taking from the one below what it
promises. `AttrData`, `Runlist` and `AttrList` take free clusters as `ClusterStore`
grants them; `DirOps` and `AttrList` take records as `MftAlloc` hands them out, with
the bit and the sequence number, and `DirOps` has the two bitmaps, the record and the
directory in one state because what it says is about all of them; `Resize` and
`Journal` have the mirror as `RecordIO` has it, as equal or different.

### LcnAlloc and ClusterStore

`bmp` is the set of bits on disk. `owned` is what attributes map; `lost` and
`exposed` are what the code cannot avoid: clusters marked in use that nobody
maps (a crash before the caller wrote its mapping pairs, a clear that failed)
and clusters mapped but marked free (a free that failed half way).
The locals of `ntfs_cluster_alloc` are variables of the same names (`zone_start`,
`zone_end`, `bmp_pos`, `bmp_initial_pos`, `pass`, `done_zones`, `search_zone`).
One action is one window (`ScanWindow`, `ScanCompletes` and their failures), one
pass or zone switch (`SecondPass`, `EndOfZone`, `SwitchToData1`, `SwitchToData2`),
the shrinking of the mft zone (`ShrinkMftZone`), the refusal (`NoSpace`) or the
undo (`Undo`, `UndoFails`). The runlist being built is a set: how clusters are
coalesced into runs changes no property here. `pc` follows the labels of the
function: `scan` is the inner loop, `pass_done` is `zone_pass_done:`, `zone_done`
is `done_zones_check:`, `undo` is `err_ret:`.

`Free` is `ntfs_cluster_free` with a caller that then drops its runs. A failed
free has two kinds of callers: one that gives up and keeps its runlist
(`ntfs_non_resident_attr_shrink`), so clusters are exposed, and one that goes on
(`ntfs_attr_rm`), so clusters are lost.

`ClusterStore` says what remains when the search is forgotten: `Ask`, `Grant` of
exactly as many clusters as asked for, none owned or lost; `Refuse`, which takes
nothing from anybody; `Release` and `Expose`. `ImplementsStore` is its
specification under the mapping `asked <- IF pc = "idle" THEN 0 ELSE req.count`.

### BitmapRun

`bits` is the attribute; `buf` the buffer; `start_bit`, `count`, `bit`,
`bufsize`, `firstbyte`, `lastbyte` are the locals, `count` reaching -1 included.
The steps are the reading of the first byte, then for each window the reading of
the last byte if it lies in it, and the write. Reads fail, and writes fail after
any byte.

### MftAlloc

`bmp`, `disk`, `disk_na` are on disk; `na`, `data_pos`, `open`, `mem`, `dirty` are
in memory. A record is its in-use flag and its sequence number. `pc` names the
step `ntfs_mft_record_alloc` or `ntfs_mft_record_free` takes next: extend the
bitmap, initialize more of it, set the bit, extend `$MFT/$DATA`, format a record,
update the sizes, read, and the undo labels. `FreeRecs` is
`ntfs_mft_bitmap_find_free_rec` with its whole-byte passes. Whether clusters can
be had for the two attributes is a choice (`ExtendFails`): they are the subject of
`LcnAlloc`. Sizes count records and bits. `names`, `lost`, `leaked` and `exposed`
record what happened and guard nothing.

### RecordIO

A copy of a record is two functions of its sectors: the number found at the end of the
sector, and the version of the write it stems from. `NextUsn` is
`ntfs_mst_pre_write_fixup`, `Readable` what `ntfs_mst_post_read_fixup` accepts. `Write`
is `ntfs_mft_records_write`, which copies the buffer for the mirror *before* the first
write increments the number in it, so both copies carry the same. Failures and stops
leave any set of the sectors written, in `$MFT` or, behind a whole write there, in the
mirror. `buf` are the open `ntfs_inode`s, of different records or of the same one:
`ntfs_inode_open` looks for no other (`inode.c:125`), and the sync of a file name opens
the parent once more (`inode.c:535`). Each counts update sequence numbers for itself and
writes the content it has. Two variables that guard nothing say what may come of that:
an inode is `overtaken` when another has written the record since it last read or wrote
it, and a record is `stale` when a write by an overtaken inode broke off. Such a write
gives a number that is on the disk already, so that it can go unnoticed. `Mountable` is
the comparison in `ntfs_device_mount` and the opening of the files after it; `Fix` is
`fix_mftmirr`, `FixStops` the same stopped in the middle. `Wipe` is something outside
the program, the reason a mirror exists; it is marked external.

### AttrData

What the attribute is, is said three times: by the open `ntfs_attr` (`na`), by
the attribute record in memory (`rec`) and by the record on disk (`disk`), each
with a runlist and the three sizes; `bmp` and `data`, the bits and the clusters,
are written through. A position is a part of a cluster, a runlist the sequence
of the lcns of its vcns, and the buffer of a write holds one value. The allocator
is any choice of free clusters (`Granted`), which is what `ClusterStore` promises.
A resident attribute (`res`) has no runlist, and its content is `value`, which is part
of the mft record.

`Truncate` and `Write` enter `ntfs_attr_truncate` and `ntfs_attr_pwrite`; a write behind
the end is a resize first (`Resize`), goes on at `init` when that succeeds, and resizes
back with `call.op = "undo"` when the write fails later. The steps of an expand are
`Expand` (clusters or, for `$DATA` of a volume of version 3, a hole; runlist; mapping
pairs), `ExpandSize` and the roll back `ExpandUndo`; those of a shrink `Shrink` and
`ShrinkSize`, or `MakeResident` when nothing is left. A resident attribute is resized in
its record (`ResizeValue`) or, when it gets longer, turned non-resident first
(`MakeNonResident`), after which the expand follows; whether a length fits is left open
below `MaxResident`, since what the code does to make room is `AttrList`'s subject. The
steps of a write are that of a resident value with its record (`WriteValue`), or the
initialized size (`Initialize`), the loop over the runs (`WriteRun`, `SkipHole`,
`FillHole`), and the two exits (`Done`; `RestoreInit`, `ErrMap`). Each has its failures,
short writes of the device and mapping pairs written in part (`HalfMapped`) included. A
short write is no failure to `ntfs_rl_pwrite`, which goes on with the next run and adds
up what it has written: so the rest of the data lands there (`WriteRunShort`); or the
rest of the zeroes of the gap, which then stays unzeroed while the initialized size is
raised over it (`InitializeShort`, with `Left` and `Beyond` for what is missed and what
is hit); or that of the zeroes in front of data in a hole (`FillHoleZeroShort`,
`Astray`). A gap is taken to fit into the buffer of `NTFS_BUF_SIZE` and to meet one
short write, so that the loop around `ntfs_rl_pwrite` goes round a second time only when
the runlist has ended. `Sync` is `ntfs_inode_sync` at any time between calls, and
`OtherTakes` another attribute that gets a free cluster and overwrites it.

Three variables guard no code. `freed` holds the clusters freed since the record
was last written. `scars` names what a failed call has left inconsistent by its
own account: a failed roll back ("Leaving inconsistent metadata"), a shrink that
stopped half way, mapping pairs that could not be written, an initialized size
that could not be restored; the model follows such a call to its end and no
further. `spoilt`, in `call`, holds the positions a write is known to spoil
(section 5): what a short write leaves unwritten or unzeroed, what stray data or zeroes clear,
and the tail of a hole that is filled. `CallsKeepContent` speaks of all others, so that it
says how far the harm goes.

### Runlist

`map` is what the attribute maps, a function from vcns to lcns or holes, and is the
truth nothing reads; `exts` are the extents on disk, each an array of mapping pairs,
`rl` the runlist in memory. A runlist is the sequence of elements of the C array with
its end marker, a mapping pair the two counts of its header byte and the bytes of both
numbers, with `Base` values to a byte. `Merge` is `ntfs_runlists_merge` with `Append`,
`Insert`, `Replace` and `Split` for its four ways in; `Build`, `SizeForPairs` and
`Decompress` are the functions of those names. The code counts the bytes of a number in
one function (`ntfs_get_nr_significant_bytes`, `NrBytes`) and writes them in another
(`ntfs_write_significant_bytes`, `Bytes`), and has the walk over the runs twice, in the
size and in the build; so has the module, and `SizeIsRoomNeeded` compares them: for
every start and every room, the array is complete exactly when the room is what was
computed, and what is cut off ends with the pair before the stop. When not even the
first pair fits, and that is of a run started in part, the stop is the vcn of the whole
run (`runlist.c:1549`). The actions are what the attribute code does with them: the
extent of a vcn is mapped (`ntfs_attr_map_runlist`) or all are, a hole is filled, the
attribute grows by clusters or a hole, and is cut; after each change the mapping pairs
are written anew into records with room for some of them. `amiss` marks an attribute
whose first extent ends at vcn 0 with more behind it: `ntfs_mapping_pairs_decompress`
takes a highest vcn of 0 for "the only extent" (`runlist.c:900`), and changes to such an
attribute are left out.

### AttrList

`mem` is the inode: its records with the sizes of the attributes in them, the list as
attribute (`list`, `len`, `val`) and as array (`al`), the attached extents `ext`, what
is dirty, and the bits of the records. `disk` is the same on disk. `ntfs_attr_add`,
`ntfs_attr_record_rm` and the growth of an attribute are begun by `AttrAdd`, `AttrRm`,
`AttrGrow` and follow the code from step to step: `Place`, `NewExtent`, `NewList` with
`AddList`, `ResizeList` and `MakeListNonResident` for the list, `FreeSpaceForList` and
`MoveAway` for `ntfs_inode_free_space`, `EntryAdd` or `Undo`, and `MoveBack`,
`ForgetList` for the roll back of `ntfs_inode_add_attrlist`. Written at once are an
emptied extent that is freed, `$Bitmap` when the list takes or gives back its cluster
(`disk.taken`), and the value of the record when the list moves to a cluster
(`MakeListNonResident`; `FreeSpaceForList` and `ValueNotWritten` when that goes wrong
behind the write or in it). The value is that of the last sync (`val`), which may be
short of entries made since, or `cut`. A cluster given back may be used by another file
(`TakenByAnother`) while the record on disk still leads to it. Everything else waits for
`SyncList`, `SyncListData`, `SyncBase` and `SyncExtent`, the order of `ntfs_inode_sync`,
each of which may fail and leave its part dirty. The sync of the list is an
`ntfs_attr_pwrite`: a resident list is written with its base record, and of one that has
grown the base record is written with the new initialized size before the data, and with
the old one again when that fails. The disk is read again by `Reopen`; a stop needs no
action, since `UnmovedSurvives` asks in every state what a reader of the disk would
find. It excepts `ListSpoilt`: the record on disk leads to a cluster that another has
used or that got an incomplete value, or has a size shorter than the list in it. `amiss`
names the three ways in which the code leaves an attribute where it should not be
(section 5); such a history is followed to the end of the call and no further.

### DirOps

`ents` are the index entries, `rec` the records with names, link count, extents and
clusters, `mftbmp` and `bmp` the two bitmaps, all on disk; `ni` and `dirm` are the open
inodes of file and directory, written when closed. A directory is small (its entries
are in its record) or has index blocks (`big`), which are written when the index
context is put. `call` is the handler: `Create`, `Link`, `Unlink`, `Rename`, the last
being a link, an unlink and, if that fails, a second unlink. Within a handler the steps
are `OpenBoth` or `AllocRecord`; `AddEntry`, `AddName` and their way back (`TakeBack`);
`RemoveEntry`, `RemoveName`, which takes the DOS name and then the WIN32 name of a
pair, and, at the last link, the freeing of clusters, extents and record; the two
closes, and the label `err_out` of `ntfs_create`. One action is at most one write, so
that a failure or `Crash` falls between any two. `promise` is what callers were told:
of these names one leads to this file. `exposed` are clusters a half finished deletion
left in a record after they were freed, and `scars` what cannot be put right by the
code's own account (a write that failed and was only logged, metadata reported as
inconsistent, a stop); both only weaken what is asked, neither guards a step.

### Journal

`log` is a row of blocks. Windows (`Win...`, `Chkdsk`) is external: it keeps two restart
pages and writes them in turn, tears one when it crashes, hibernates. Of it the module
takes only what the checks of the code rely on. The loop of `ntfs_check_logfile` over
position 0 and the powers of two is stated by what it finds: `StopsAt` are the positions
that end the search, `Pages` those that load with none of them before, `SeenEmpty` that
none begins with anything; `Newest` chooses the page, `CheckLogfile` and `Mountable` are
`ntfs_is_logfile_clean` and the part of `ntfs_device_mount` that can refuse. The program
is `ntfsfix` (`FixMounts` or `FixMirror`, `SetFlags`, `ReadThrough`, `Fill`, `Remount`),
`ntfsresize` as far as it is the same, or another program that mounts for writing; `vol`
is its `ntfs_volume`. `Fill` is one `ntfs_attr_pwrite` of `ntfs_empty_logfile`, which
may be short; `Stop` is a failure the programs exit on, or a machine that stops, with a
write half done.

### Resize

`cell` is what each cluster of the device holds: records of `$MFT`, a mirrored record,
the bits of `$Bitmap`, a piece of the file; so a copy of a cluster is a copy of what is
in it, and a record is found by going from the boot sector to `$MFT` and through its own
runs, as a reader would. `mem` is the program: the runlists of the mount, which it keeps
using, its bitmap and position of search, the inode and pass it is at. `Start` has the
checks of the program in its guard. The steps are `Prepare`, `TakeInode` (with the two
passes of `handle_mftdata`), `Allocate` (one result of `find_free_cluster`), `Copy`
cluster by cluster, `WriteInode` and, for a mirrored record, `WriteMirror` behind it,
`TruncateBadClus`, `ReallocBitmap`, `WriteBits`, `WriteBitmapRecord`, `CopyMirror` and
`WriteBoot`. `Stop` may come anywhere and the program may be started on what is left.
`behind` is the mirrored record that has been written to `$MFT` and not yet to the
mirror (`mft.c:166`, `:178`); nothing else happens before that but a stop. `AnotherPass`
has the sanity check of `relocate_inodes` (`ntfsresize.c:1741`): a pass through the
records that has found no extent of `$MFT` to go on with ends the program with "Please
report!", and the lack of a free cluster ends it too; both are `GiveUp`, and set
`gaveUp`. `RunGetsThrough` says that neither happens to a volume that was let in.

### BmpCache

`disk` and `cache` are the bits on disk and in cached clusters, `truth` the bits as
asked for. `SetRange` is `ntfs_bmp_set_range` with a read that may fail at any cluster,
`Commit` one turn of the loop of `ntfs_bmp_commit` with the size it writes and the
result it ignores, `FindLast` is `ntfs_bmp_find_last_set`. A read may also come short,
which `ntfs_bmp_get_data` takes for a whole one (`bitmap.c:469`): the bits behind it are
zero in the cache, and on disk after a commit. They are `unread`, until somebody sets or
clears them, and excepted. A cluster a commit has not written, because the write failed
or because it writes nothing of a full last cluster, is `lost` and excepted.

## 3. Runs, bounds and fairness

Every property has a mutant in `PROJECT.json`: a variant of one definition, as a
plausible bug would have it, for which TLC finds the property violated in the
same configuration. Deadlock is not an error anywhere: calls, faults and crashes
are bounded, and a bounded model ends.

| run | question | bounds |
|---|---|---|
| `lcn_alloc` | exclusive ownership, agreement of the bitmap, true ENOSPC, the mft zone taken last, return, refinement | 16 clusters, three zones of 2, 7 and 7, window of one byte (two windows, and every zone crosses or touches a window), requests of 1 and 4 clusters, hints inside and outside the zones and at the end, 3 calls, 1 fault or crash; an almost empty and an almost full volume |
| `bitmap_run` | exactly the run changes, in order, a prefix on failure | 16 bits in bytes of 4 with a buffer of 2 bytes: every start and every length of a run, up to three windows, four contents |
| `mft_alloc` | agreement of bits, records and inodes; sequence numbers; every call returns | bytes of 2 bits, 8 records, FirstUser 2 for record 24, sequence numbers up to 3; 3 calls, 2 faults, 1 crash; both layouts `mkntfs` leaves |
| `record_io` | torn records, survival of what was written, the mirror, what ntfsfix leaves | two mirrored records and one other of two sectors, two versions each, two inodes, of one record at a time (records meet only in the comparison at mount, which takes them one by one), 4 whole writes, 1 failed write, 1 stop, 1 wipe (a failed write and a stop leave the same on the disk, so a record is torn twice) |
| `attr_data` | agreement of open attribute, record, disk and `$Bitmap`; what a crash leaves; content after writes and resizes | 3 clusters of 3 positions, up to 2 vcns, runlists of one cluster and of a hole and a cluster (a resize and a write make those of two clusters, of two holes, and of a cluster and a hole), with every size and initialized size, and resident values of 0 to 4 positions, which take up to two clusters when converted; writes of 2 positions anywhere and resizes to every size, 2 calls, 1 fault or short write that may repeat while the call cleans up |
| `attr_reports` | see section 5 | one call without faults |
| `runlist` | runlist, mapping pairs and computed size against the mapping | every mapping of up to 3 vcns onto 4 lcns and holes, up to 5 vcns after growth; lcns 0, 1, 2, 5 with `Base` 8, so that differences take one byte and two, with either sign; room for one pair, for two or for all; extents mapped in any order; both versions of the volume; 1 change |
| `attr_list` | the list names what is where; dirty means changed; a sync that fails or stops loses nothing untouched | 6 attributes of one inode of which two share a type, 2 extents, records of 8 units (4 small attributes), an entry of 4 units that forces the list out of the record, two clusters for the list, which are alike (symmetry); 3 calls with every refusal of records and clusters, syncs with any failure, reopening |
| `dir_ops` | entries, names and link counts; promised names; failed calls; clusters; full directories; return | 2 directories, small or large, 3 names of which two are a DOS/WIN32 pair, 2 records, 1 cluster; a file, a file with an extent and clusters, a full directory; 3 calls and 1 failure or stop (an undo that fails is the same write failing later; the state after two troubles is the subject of the theorems, which hold for any number) |
| `journal` | no journal lost unmarked; no mount of what Windows has not finished; what ntfsfix leaves mounts | 16 blocks, pages of 2 and 4 blocks, fills of 4 (both restart pages in one write, or one in each of two), 5 restart pages written, 3 failures, stops and crashes |
| `resize` | data, boundaries, bitmap, mirror after any write; a run that nothing stops gets through | 11 clusters, a volume of 11 with 9 clusters in use in every placement, shrunk to 9 (full) and enlarged, `$MFT` in one extent or two and in runs of one to three, the mirror moved or not; 2 runs that complete, any number of stops |
| `bmp_cache` | cache and disk together are the bitmap | bytes of 2 bits and clusters of 3 bytes; bitmaps that end in the first cluster, fill two, or fill all but a byte of the second; every range, every length of a short read or write, 2 changes, 1 failure, short read or stop |

Why the bounds suffice. The allocator treats clusters alike but for their place
relative to the zone borders, the window borders and the positions; 16 clusters
have every such relation, zones of odd and even size and a zone that is halved
down to nothing. Two calls are needed for a position left by one to matter to the
next, three to free in between. The bitmap of the mft looks at bytes only through
"first zero bit" and "same byte", for which two bits are enough. Torn writes are
a matter of equal or different numbers, so a range of a few numbers stands for
65534 of them provided they do not come round while a sector of the last round
is still on disk: `RecordAssumption` demands `MaxFaults + MaxCrashes + 2 < UsnMax`,
where the code would need 65534 failed writes of one sector in a row. An attribute
of two clusters with three positions each has a head, a middle and a tail inside a cluster,
a border between runs, a hole in front of and behind data; a write of two lies within a
cluster, at its begin or end, or crosses the border, and a gap or a head of two
can be zeroed in part; the second call meets what the first left; a full volume
is reached because another attribute takes clusters. Two inodes of a record are
enough for one to overtake the other, and four writes for each to do so twice. A merge depends on the
neighbours of one element on either side, which five vcns have in every
combination. An inode needs two extents for a list that names both and a third
record to be refused; a rename needs two directories, and one more
call before and after it that sees what it left. A resize is hard
when the free clusters are just enough, which is why the volume it makes is full.

Fairness. `FairSpec` of `LcnAlloc` and `Spec` of `MftAlloc`, `DirOps` and `Resize` have
weak fairness on the steps of a call, or of the program, in progress. The library is
single-threaded and no step of a call waits, so a call that has been entered runs
on; nothing is assumed about callers, failures or crashes, and a run of the model
has only a bounded number of them: `CallReturns` of `DirOps` therefore says that the
loop over the extents ends when failures end, which is all the code can promise.
The other modules state no liveness: their steps move along one list.

## 4. Proofs

`LcnAlloc_proofs` holds for every number of clusters, place of the mft, size of
the bitmap and of the window, and any number of calls and faults, from
`VolumeAssumption` and `CallAssumption` (the mft lies in the volume, the bitmap
has a bit for every cluster, requests are for at least one cluster, hints are at
most the number of clusters).

* `TypeCorrect`: `Spec => []TypeOK`. Inductive as it stands. It needs that the
  loop that halves the mft zone ends inside the volume (`ZoneSize`), that a window
  ends behind its start and inside the bitmap (`WindowBounds`), and that every
  position a zone can be given is in the volume (`ZonePosType`).
* `AllocationIsExclusive` and `BitmapAccountsForClusters`: the two safety
  properties are inductive only together (`Accounts`): that a window gives out free
  clusters says nothing about owners unless clear bits mean no owner, and the bits
  agree with the owners only if what a call takes was nobody's. `AccountsScan` is
  the step both rest on, the rest is by actions.
* `AllocatorImplementsStore`: `Spec => ImplementsStore`. Beyond the above it needs
  `StillNeeds`: during a call fewer clusters are taken than asked for, and their
  number is what `Cardinality` counts, so that the window that completes a call
  completes it exactly. `WindowCount` relates the lowest n free clusters of a
  window to n. `StoreStep` then maps every action to an action of `ClusterStore`
  or to a stutter.
* `RefusalMeansFull`: `Spec => []EnospcMeansFull`. What makes it true is spread over
  the whole search, and `Searched` says what is known at every label: a cluster of a
  zone that is done is taken, and one of the zone being searched is taken or lies in
  what is left to scan of this pass or the next. A cluster found taken stays taken
  while the call runs, and when the mft zone is cut the clusters it loses go to
  data zones that are searched again. `RefusedWhenFull` carries the result to the
  moment of the return.
* `MftZoneIsKept`: `Spec => MftZoneIsTakenLast`, an action property. `KeepsOut` says that
  a data request searches outside of the mft zone and that `data1_zone_pos` is never
  left inside it, whatever was cut; `Searched`, that the data zones are full when
  the mft zone is cut.

`MftAlloc_proofs` holds for every size of the mft and of its bitmap, every step by which
they grow, and any number of calls, failures and crashes, from `MftAssumption` (a
volume starts with a bitmap that covers its mft and the first record for users).

* `UsedRecordsHaveBits`: `Spec => []BitsFollowRecords`. What has to be added (`IInv`) is
  what a call in progress has established, by the point it has reached
  (`Allocating`, `Freeing`): until the bit is set the bitmap is the one the call found,
  from then on until the undo the record has its bit; the sizes have only grown since
  the call began, nothing between the old size and the new is in use or open; a record
  being freed keeps its bit until it is written as free. `Inodes` says that an open
  inode is of a record in use, but for the one being freed.
* `OnlyFreeRecords`: `Spec => []HandsOutFreeRecords`, from the same invariant: a record
  behind the old size has been formatted, and one within it was found free, so that
  by `BitsFollowRecords` it is in use only if it is exposed (`FoundIsFree`).
* `OldReferencesDie`: `Spec => StaleReferencesDie`, an action property about two
  allocations with a free between them. `Numbers` adds to `IInv` where the number last
  handed out for a record is: in the open inode, until a free gives it the next one
  (`OpenNumbers`); nowhere, for a record behind the end of the mft (`Outside`); and a free
  record within it does not have that number on disk unless a free has stopped before
  the bit, so that the record cannot be found (`NotAgain`).

`RecordIO_proofs` holds for any number of records, of sectors in a record, of writes,
failed writes and stops, from `RecordAssumption` (the
mirror is of the first records, and there are more update sequence numbers than
failures and stops).

* `MirrorIsKept`: `Spec => []MirrorFollows`, and `FixLeavesMountable`:
  `Spec => FixSatisfiesMount`. Both need no more than `FInv`: outside of a failed write
  the two copies of a record are equal and whole, and one of them is whole always.
* `TornAreDetected`: `Spec => []TornWritesDetected`. That a torn record is recognised
  rests on the number in its sectors, and on nobody using it again while a sector with
  it is left. `NInv` measures how many writes ago each number on disk was given
  (`Behind`), round the end of the numbers; no sector is further behind an inode that
  none has overtaken than writes have failed (`Lags`), the sectors of one number stem
  from one write (`Tears`), and the mirror is not ahead of `$MFT`. A second inode of the
  record breaks the first of these by its writes, so it is said only of those not
  `overtaken`. One that is and writes the whole record is the latest from then on: all
  sectors have its number, and it has overtaken the others. Only one that breaks off
  does harm, and the record is `stale`.
* `WrittenSurvive`: `Spec => []WrittenRecordsSurvive`, from the same
  invariant with `Versions`: what the readable copy holds is not older than what was
  last reported as written.

`AttrData_proofs` holds for every number and size of clusters, every layout of
`Layouts` with every size, every length of writes, and any number of calls and faults,
from `AttrAssumption`. The properties are of the time between calls and of the disk.
Three of them follow from one invariant that is about the middle of a call (`IInv`,
which like these properties stops at the first scar), the fourth from a second one on top of
it:

* `RecordIsKept`: `Spec => []RecordFollowsAttribute`. `Records` says that the record in
  memory is the open attribute, except that its runlist may lack holes that a write has
  filled (`remapped`), and except in the roll back of an expand. `Phases` has what a
  step may take for granted at each point of a call: that an expand asks for more than
  there is, that a cut has the clusters of the new size, that a write lies within the
  size before its loop begins.
* `ClustersAreKept`: `Spec => []ClustersAccountedFor`. `Mine` is the same without "between
  calls": the bits are those of the runlist and of other attributes, the two have
  nothing in common, and no cluster is in the runlist twice. It holds at every step,
  which is why a stop loses no more than the calls account for. `GrowIs`, `FilledIs`
  and `UsedCut` say what a runlist's clusters are when it is extended, when its holes
  are filled, and when it is cut.
* `CrashIsHarmless`: `Spec => []CrashLeavesOrder`: `OnDisk`, which is preserved since
  what is freed is remembered until the record is written.
* `ContentIsKept`: `Spec => []CallsKeepContent`. A call changes data, runlist and sizes in
  many steps, so `CInv` compares what would be read now (`Reads`) with what was read when the
  call began, by the phase it is in: while the attribute grows all is read as
  before (`Growing`); while it shrinks what is to stay is, and all of it until clusters go
  (`Shortening`); a write leaves what is outside of its range alone (`Going`), and so does
  the cut that undoes a failed one (`Undoing`); the loop has written its range up to
  where it is (`InLoop`, `Through`). Positions that a short write or the tail of a
  filled hole spoilt are excepted, as in the property; of a short write in a gap it is
  shown that the zeroes that go beyond it land where nothing was initialized
  (`GapIs`, `GapTriedIs`: the run behind the short one begins behind the old
  initialized size). Unlike `IInv` this has to hold
  behind a scar too, since a write that fails is judged as well; a step relies on both
  as far as they go (`Sure`). It rests on `Mine` where no cluster may be in the runlist
  twice: otherwise writing one position would change another.

`DirOps_proofs` holds for any finite set of names and directories, any records and
clusters, and any number of calls, failures and stops, from `DirAssumption`.

* `NoFullDirectoryIsFreed`: `Spec => FullDirectoriesStay`, an action property, with all
  failures and stops. The check the code makes is on the link count in memory before a
  name is removed; `FullIsKnown` carries its outcome to the freeing of the record, across
  the removal of a pair of names and the label of `ntfs_create` that frees what it has
  just made. `OneFull` says that an extent is never taken for a directory.
* `NamesAgree`: `Spec => []EntriesMatchNames`. Within a call the three accounts of a name
  differ, in a way that depends on the step. `Agree(R, E)` says that records R and
  entries E agree, and `Stages` says of each step for which R and E it holds: E are
  the entries as the call sees them (`View`), the open directory in place of the
  blocks; R has the open inode in place of the record on disk, without the name
  whose entry is gone (`Unnamed`), or no record at all when the last name is gone.
  `AgreeAdd`, `AgreeRemove` and `AgreePlain` are the three ways agreement passes from one
  pair to the next, with the link count as the cardinality of the names. `Extents`,
  `Bits` and `Dirties` are needed so that a freed extent is not somebody's file, a new
  record is not in use, and the two closes write all that differs from the disk.
* `PromisesLead`: `Spec => []PromisedNamesLead`, and `ClustersStay`:
  `Spec => []ClustersStayTheirs`, in every state and with all failures and stops, where
  `Agree` does not hold any more. What is left then (`Lead`) is an inequality: the link
  count of a record may be too high and is never below the number of its FILE_NAMEs
  (`Counts`), so that a record is freed only when none is left. A promise is kept by a name
  that is `Solid`: it leads to the file on disk and as the call sees it, and has its
  FILE_NAME in the record on disk and in memory. `Leading` says that one is left in every
  state, and one besides the name in hand for as long as that may be taken away again
  (`Spared`, `NotYet`); `NewThere`, that a rename has the new name in its place before the
  old one goes. What a caller gave up covers all that is removed for it, both names of a
  pair (`Asking`). `Parts` follows the one extent by its sequence number, `InUse` the bits of
  records, `Maps` the clusters. `PassLead`, `RemovalLead` and `EndLead` are the steps shared by
  several actions: one that writes nothing, one that takes an entry away, the end of
  a handler.
* `FailedCallsKeep`: `Spec => []FailedCallsKeepNames`. `Kept` says of each name of the user, by
  the step the call is at, whether it is where it was when the call began
  (`NameKept`): all but the one in hand are; the one that is being added was not there, and
  is gone again once the entry is taken back or the undo of a rename has removed
  it (`TakenBack`). That a removal which fails has removed the DOS name at most is
  `NotYet`. It needs `Lead`: the undo of a rename begins while the file has its old name,
  by `NewThere`.

`Journal_proofs` holds for every size of the journal and of its pages, for every size of
the writes that fill it, and any number of troubles. It needs of `JournalAssumption` that the size
of a page is a power of two, of which four fit into the journal, and that a fill writes
something and not all at once.

* `LostIsMarked`: `Spec => []LostJournalIsMarked`. The property alone is not
  inductive: a program that is about to fill could have found the volume unmarked,
  and Windows could get transactions to finish on a journal already filled. `IInv`
  adds that a program reads and fills only a marked volume, that no program runs
  beside Windows, and that the journal is whole while Windows runs, which every
  restart page it writes sees to (`PageSetsUp`). The marking itself survives since
  only Windows takes the mark off, with a journal set up and nothing pending.
* `MountsAreSafe`: `Spec => []MountsForWritingAreSafe`, and `FixedMount`: `Spec =>
  []FixedVolumesMount`. The heart is `PendingIsSeen`: a journal no block of which is
  filled, of a volume with transactions to finish, is not found clean. `SetUp` says that
  such a journal has its two restart pages where they belong, with nothing between them
  that ends the search; `LastPage` that while Windows runs, sleeps or has transactions
  pending, the page written last is unclean and the newer one, and that if it is torn
  the other is whole and unclean as well, so that it does not matter which of them the
  search takes. A journal with a filled block is left to `LostJournalIsMarked`. `Stages`
  adds what a program knows at each step (`read` and `fill` follow the mark, what is
  taken for empty is empty, up to `pos` all is filled, a mounted volume has a mirror
  that is right), from which a fill that ends leaves a volume that mounts.

`Resize_proofs` holds for every device, every size of the volume and every placement of its
files, any list of sizes asked for, and any number of runs, each of them stopped behind
any write. `ResizeAssumption` asks for no more than that the nine clusters of the files fit.
The files are those of the model: each is of as many clusters as the run has it of.

* `DataIsKept`: `Spec => []DataSurvives`, `NothingIsOutside`: `Spec => []NothingOutside`,
  `VolumeAgrees`: `Spec => []AgreesUnlessMarked`, and `MirrorIsAtBoot`: `Spec => []MirrorAtBoot`,
  all from one invariant. None of the four is inductive: what the disk says depends on
  records the program reads and writes where `$MFT` was when it started, while the disk
  leads to where it is now. `IInv` therefore speaks of the records by the place the program has
  for them (`Home`, `At`), and `Layout` says that a cluster of `$MFT` as the disk has it
  (`Spot`) holds the same as the one the program uses (`SpotIs`). That this stays true is
  a question of order: the record of a file may be written to a cluster of `$MFT` only
  before that cluster has been copied, and `Turning` says which files are inside and which
  vcn of `$MFT` is next; an extent goes before the base record that leads to it.
* `Apart` gives every file what it maps, what it had at the mount and the program goes
  on to use, and what has been found for it; no two have a cluster in common. `Reserved`
  says that the program's bitmap has all of that and, below the new end, nothing else,
  so that what `find_free_cluster` finds (`FoundIs`) is nobody's, and that the new
  `$Bitmap` is right at the end (`Ending`). `Working` relates the runlist that is being
  changed to the one on disk: both lead to clusters that hold the same.
* `Program` has the copies of the first records where the boot sector has the mirror, at
  every step of a run, but for the one in `behind`; nothing but the write of that copy
  or a stop comes next, and a start finds the two equal, since the mount has compared
  them. When the boot sector changes, the mirror has been copied once more to its new
  place, if that is a single run (`Mirror`, with `RunIs` and the search for a zone: a
  first run shorter than the mirror ends before a cluster in use, so the next one found
  is not its neighbour). `StopKeeps` is where a run ends anywhere: the disk is read
  anew, and what the program had besides is nobody's.

`NatSetLemmas` proves that a non-empty set of numbers has a least element (from the
library's fact that the order of the numbers is well-founded), that a bounded one has a
greatest, and that the lowest n of a finite set are n when it has that many.

Only model-checked:

* Liveness (`CallReturns` of three modules, `RunGetsThrough`): the prover does not handle `ENABLED`.
* What is computed by a fold or a recursion over data, which would need induction over
  data: `Runlist` and the properties of `AttrList` (sums over the attributes of a record).
* `ChangesTheRunInOrder` of `BitmapRun` and `CacheIsTheBitmap` of `BmpCache`: products and
  quotients of variables at every step.

## 5. What the code does that its comments do not say

With a run:

* A write into a hole clears the first cluster it allocates in front of the data, but
  not the last one behind it: what the cluster held on the volume becomes part of the
  file (`attr_reports`). The same comment of `ntfs_attr_pwrite` does not hold when the
  device writes less than asked for (the loop goes on with the next run and the rest of
  the buffer lands there), when the head of a hole cannot be cleared while
  `ntfs_rl_pwrite` has already counted a part of the hole (it does not report it), and
  when a write returns -1 after earlier runs were written. A short write while a gap or
  the head of a hole is zeroed goes unnoticed as well, and leaves old content in the
  file (`attrib.c:1052`, `:1293`). These are the positions in `spoilt`, and the range
  itself after a failure.

Met while modelling, followed by the modules as the code has it, and excepted by
name where a property would otherwise speak of it:

* Allocator and mft. A request for the mft with a hint outside its zone is refused
  although the zone has free clusters (`lcnalloc.c:177`, `:591`). A record allocation that
  fails keeps an extension of the bitmap or of the mft (`mft.c:1472` with `:1167`). The
  search for a free record can run past the last allocated one, and the mft is extended
  though a record is free (`mft.c:505` with `:1135`).
* Records. Two inodes of one record count update sequence numbers separately
  (`inode.c:125`), and the sync of a file name opens such a second inode of the parent: a write of
  one behind a write of the other gives the same number, and can be torn without
  a trace (`stale`); it also brings back the content the other has replaced.
  `ntfsfix` never restores a record of `$MFT` from the mirror, since the length it
  compares is taken from the record that is broken (`ntfsfix.c:437`).
* Attributes. The roll back of `ntfs_non_resident_attr_expand` takes the old allocated
  size, in bytes, for a number of clusters (`attrib.c:4919`). A device that writes less
  than it was asked for makes `ntfs_attr_pwrite` put the rest of the buffer behind the
  next run (`attrib.c:1338`); when the slack of a last cluster takes it, the count comes
  out right, and a conversion to non-resident loses the end of the value and reports
  success. An attribute whose first
  extent ends at vcn 0 is read as if it had no other (`runlist.c:900` with `attrib.c:509`).
* Attribute lists. The undo of a failed entry cuts the record where the attribute was
  before the list was resized, though that may have moved it ("stale place",
  `attrib.c:2656`). The roll back of `ntfs_inode_add_attrlist` leaves an attribute in an
  extent when its name is found in the base record first ("left behind", `inode.c:908`).
  Without a list an attribute may be put into an extent ("unlisted", `attrib.c:3085`).
  Extents are opened without their sequence number (`inode.c:454`), and an extent is
  freed on disk while the list on disk still names it (`attrib.c:2892`). Three times the
  list on disk is not to be relied on (`ListSpoilt`): a list that is removed has its
  cluster free before the record on disk lets go of it (`attrib.c:2924`); one that moves
  to a cluster takes the value of the record with it, which may lack what was added
  since the last sync, or be cut off (`attrib.c:3613`); and the record can get a shorter
  size while the list itself could not be written (`inode.c:660`). When clusters are
  refused the resize of a list can call itself without end (`attrib.c:3842`).
* Directories. After a stop in a rename both names lead to a file with link count 1;
  removing either loses the file. A path gives a record number without the sequence
  number of the entry (`dir.c:568`). A removal that is refused leaves the WIN32 name
  without its DOS name (`dir.c:1477`). The entry to remove is looked up by its name
  and not compared with the file it leads to (`dir.c:1494`): a record that a
  failed write left with both names of a pair and one entry takes the entry of the
  other name from the file that has it since. A deletion that stops leaves a record with clusters
  that are free (`dir.c:1547`). The handlers ignore the result of a close
  (`ntfsmount.c:924`), so a rename whose first half was never written goes on to its
  second.
* Journal. `ntfsfix` sets the flags of a volume it has only started up, whose flags were
  never loaded: other flags are dropped, and `VOLUME_MOUNTED_ON_NT4` is not set although
  the comment at `ntfsfix.c:257` says so. On a hibernated volume it empties the journal and
  marks the volume before its second mount is refused (`ntfsfix.c:545`). A fill that was
  stopped behind the last power of two is taken for complete, which does no harm: it is
  marked.
* Resize. A stop between the write of a record and that of its copy leaves a mirror the
  next mount refuses, until `ntfsfix` has run (`mft.c:178`). A mirror that had to be
  moved in two runs leaves a volume the library cannot mount (`ntfsresize.c:1444`,
  `:1548`, `volume.c:346`). A stop between the record of `$MFTMirr` and the boot sector
  leaves one that mounts only after a repair.
* Bitmap cache. A commit writes nothing of a last cluster the bitmap fills, and ignores
  the result of every write (`bitmap.c:307`, `:309`). A short read is cached as a whole
  cluster, and its end written as zeroes (`bitmap.c:469`).

## 6. What is not modelled

The components with status `not_modelled` or `partly` in `PROJECT.json` say why.

* *Devices* are pure I/O. *Conversions* (names, security descriptors, compression, the
  boot sector) have no state. *Readers and printers* change nothing; `ntfscp`,
  `ntfstruncate` and `ntfsmftalloc` are drivers of one call of a module above.
* `mkntfs` and `ntfsclone` run once over a volume nobody else uses, and are run again
  when they fail; the layouts of `mkntfs` are initial states of `MftAlloc`.
* The tree layer of `NTFS_RICH` (`tree.c`, `ntfsrm.c`, `ntfs_volume_commit`) is a draft:
  `ntfs_dt_add2` jumps to its end, paths end in debugging output, the order of the
  commit has no stated reason. A model would have nothing to hold it to.
* The same code is in the repository several times (`src/rm`, `src/cvs`,
  `src/debug-rm`, `src/debug-cvs`). `map` names the lines in `src/rm` only, so that the
  part of all lines it covers stays small whatever is modelled.

Left out of the modules that exist:

* `LcnAlloc`: the coalescing of clusters into runs, the reallocation of runlists.
* `MftAlloc`: the attribute and extent code behind the extension of `$MFT`.
* All: the page cache of the operating system (a completed write is on the disk, in
  order).
* `AttrData`: compressed and encrypted attributes (refused by a write), several
  records, runlists mapped in part (`Runlist` has those), time stamps, the resident
  value that is on disk.
* `Runlist`: merges the attribute code never asks for (overlapping ones, which are
  refused, and pieces nothing of which is mapped), a hole split over two extents.
* `AttrList`: attributes longer than their non-resident form, lists of more than one
  cluster, opening by name.
* `DirOps`: the tree inside an index, collation, lookup and readdir, several files
  open at once, handlers that make one library call.
* `Journal`: the fields of a restart page beyond those that decide; the double close
  on the error exit of `ntfs_empty_logfile`.
* `Resize`: the walk over all records before it starts, sparse and compressed files,
  attribute lists but that of `$MFT`, the backup of the boot sector, options.
* `BmpCache`: the array behind the cache, which is overrun at its sixteenth cluster;
  ranges of no length; bitmaps with holes.

## 7. What is left

1. *Composition of `AttrData` with `AttrList`* for a file whose mapping pairs need
   extents, and of the conversions in one with the room in the other.
2. *Lookup and insertion in an index tree* against a sorted set, then `readdir` beside
   changes.
3. *Proofs.* `BmpCache` and `BitmapRun` once their arithmetic is in lemmas.
   `DirtyCoversChanges` of `AttrList`. `Resize` with files of any number of clusters.
4. *The `NTFS_RICH` commit*, when the code settles what it promises.
