------------------------------- MODULE DirOps -------------------------------
(***************************************************************************)
(* Names: ntfs_create, ntfs_link and ntfs_delete (libntfs/dir.c) with the  *)
(* index code under them (index.c) and the handlers above them that open,  *)
(* call and close (ntfsprogs/ntfsmount.c): create, link, unlink, rename.   *)
(*                                                                         *)
(* A name is said three times: by an entry in the index of its directory,  *)
(* by a FILE_NAME attribute in the record of the file, and by the link     *)
(* count of that record.  The record is kept in memory until its inode is  *)
(* closed.  So is a small directory, whose entries are in its own record   *)
(* (INDEX_ROOT); an index block of a large one is written when the index   *)
(* context is put.  One action is at most one write to the disk; a failure *)
(* or a crash comes between any two.  Nothing stays open between calls.    *)
(*                                                                         *)
(* A name of the model is a name in a directory.  A file may have a WIN32  *)
(* name with its DOS name, which are removed together.  The mft allocator  *)
(* and the cluster allocator are those of MftAlloc and LcnAlloc.           *)
(***************************************************************************)
EXTENDS Integers, FiniteSets, NatSets

CONSTANTS
    Names, DirOf,       \* names, and the directory each is in
    Short, Long,        \* a DOS name and the WIN32 name it belongs to
    Rec, Cluster,       \* records for files, clusters
    InitLinks,          \* the names the first file may start with
    MaxCalls,           \* bounds of the model: calls, and
    MaxTroubles         \* failures and crashes together

Dirs == {DirOf[n] : n \in Names}
NameSpaces == {"posix", "win32", "dos"}
UserNames == Names \ {Short}

ASSUME DirAssumption ==
    /\ DirOf \in [Names -> Dirs]
    /\ Short \in Names /\ Long \in Names /\ Short # Long
    /\ DirOf[Short] = DirOf[Long]
    /\ IsFiniteSet(Names)
    /\ Rec \subseteq Nat \ {0} /\ {1, 2} \subseteq Rec
    /\ InitLinks \subseteq [Names -> NameSpaces \union {"none"}]
    /\ \A links \in InitLinks, n \in Names :
          /\ links[n] = "win32" => n = Long
          /\ links[n] = "dos" => n = Short
    /\ MaxCalls \in Nat /\ MaxTroubles \in Nat

VARIABLES
    big,            \* the directories with index blocks
    rec,            \* the records on disk
    ents,           \* the index entries on disk
    mftbmp, bmp,    \* $MFT/$BITMAP and $Bitmap
    ni,             \* the record of the open inode of the file, and its number
    dirm,           \* the entries as the open inode of the directory has them
    dirty,          \* which of the two is dirty
    pc, call,       \* the call in progress
    promise,        \* what callers were told: of these names one leads there
    exposed,        \* clusters freed and left in the record of a file half deleted
    scars,          \* what has happened that cannot be put right
    calls, troubles

disks == <<rec, ents, mftbmp, bmp>>
mems == <<ni, dirm, dirty>>
ghosts == <<promise, exposed, scars>>
bounds == <<calls, troubles>>
vars == <<big, disks, mems, pc, call, ghosts, bounds>>

NoEntry == [rec |-> 0, seq |-> 0, ns |-> "none"]
NoEntries == [n \in Names |-> NoEntry]
NoName == [n \in Names |-> "none"]
Named(names) == {n \in Names : names[n] # "none"}

(* A record: in use, its number, FILE_NAMEs, hard links, whether it is a   *)
(* directory with something in it, its extent records and its clusters.    *)
Blank(seq) == [used |-> FALSE, seq |-> seq, names |-> NoName, links |-> 0,
               full |-> FALSE, ext |-> {}, map |-> {}]
NoInode == [no |-> 0, rec |-> Blank(0)]
Released == ni' = NoInode /\ dirm' = NoEntries /\ dirty' = {}

(* The extents of the open file that can be attached: one that was freed   *)
(* since it was named in the attribute list is refused by its number.      *)
Attached == {x \in ni.rec.ext : rec[x[1]].used /\ rec[x[1]].seq = x[2]}

Leads(n, r, seq) == ents[n].rec = r /\ ents[n].seq = seq /\ rec[r].used /\ rec[r].seq = seq

NoCall == [op |-> "none", phase |-> "link", old |-> Long, new |-> Long, want |-> "any",
           victim |-> Long, res |-> "ok", torn |-> FALSE, gone |-> FALSE,
           asked |-> {}, ents |-> NoEntries]

Init ==
    \E links \in InitLinks, kind \in {"file", "large_file", "full_dir"} :
    LET ext == IF kind = "large_file" THEN {2} ELSE {}
        map == IF kind = "large_file" THEN Cluster ELSE {}
    IN
        /\ big \in SUBSET Dirs
        /\ rec = [r \in Rec |->
                    IF r = 1 THEN [used |-> TRUE, seq |-> 1, names |-> links,
                                   links |-> Cardinality(Named(links)), full |-> kind = "full_dir",
                                   ext |-> {<<e, 1>> : e \in ext}, map |-> map]
                    ELSE [Blank(1) EXCEPT !.used = r \in ext]]
        /\ ents = [n \in Names |-> IF links[n] = "none" THEN NoEntry
                                   ELSE [rec |-> 1, seq |-> 1, ns |-> links[n]]]
        /\ mftbmp = {1} \union ext
        /\ bmp = map
        /\ promise = {[rec |-> 1, seq |-> 1, any |-> {n}] : n \in Named(links) \ {Short}}
        /\ ni = NoInode /\ dirm = NoEntries /\ dirty = {}
        /\ pc = "idle" /\ call = NoCall
        /\ exposed = {} /\ scars = {}
        /\ calls = 0 /\ troubles = 0

Fault == troubles < MaxTroubles /\ troubles' = troubles + 1 /\ UNCHANGED calls
NoFault == UNCHANGED bounds
-----------------------------------------------------------------------------
(* The name the handler in progress adds or removes.                       *)
Target == IF call.phase = "rm" THEN call.old ELSE call.new

(* Removing one of the pair removes both.                                  *)
Asked(n) == IF n \in {Short, Long} /\ rec[ents[n].rec].names[Short] # "none"
            THEN {Short, Long} ELSE {n}
AskedFor(n) == IF ents[n] = NoEntry THEN {n} ELSE Asked(n)

(* The promises left when some names are gone: of the names left of one,   *)
(* those that lead to the file.  After a stop in a rename, or a failed      *)
(* write in its undo, both names may lead there while the link count is 1: *)
(* whoever removes one of them then loses the file.                        *)
LeftOf(p, ns) ==
    IF p.any \intersect ns # {} /\ scars # {} THEN {}
    ELSE {n \in p.any \ ns : Leads(n, p.rec, p.seq)}
Without(ps, ns) == {[p EXCEPT !.any = LeftOf(p, ns)] : p \in {q \in ps : LeftOf(q, ns) # {}}}
Hit(ns) == {p \in promise : p.any \intersect ns # {}}

(* The end of a handler.  A rename is a link and an unlink, and a second   *)
(* unlink when the first fails (ntfs_fuse_rename).                         *)
Goes(op, phase, res) == op = "rename" /\ phase = "link" /\ res = "ok"
Undoes(op, phase, res) == op = "rename" /\ phase = "rm" /\ res = "fail"

(* What a caller may rely on at that point.  A name that was returned as   *)
(* made leads to the file; while a rename is on its way, and when it has   *)
(* failed, the old or the new name does.  Nothing is promised of a name    *)
(* that was made or renamed by a call a write of which failed, or for a    *)
(* file that has lost an extent in a deletion that stopped half way.  A    *)
(* record left with both names of a pair and one entry takes the entry of  *)
(* the other name from the file that has it now: entries are removed by    *)
(* name, and nothing more is promised of that file (dir.c:1494).           *)
Promised(res, torn) ==
    CASE call.op = "rename" /\ call.phase = "link" /\ res = "ok" ->
            (promise \ Hit(call.asked)) \union
            {[p EXCEPT !.any = @ \union {call.new}] :
                 p \in {q \in Hit(call.asked) : q.rec = ni.no /\ ~torn}}
      [] call.op = "rename" /\ call.phase = "rm" /\ res = "ok" -> Without(promise, call.asked)
      [] call.op = "rename" /\ call.phase = "rm" /\ res = "fail" /\ torn -> promise \ Hit(call.asked)
      [] call.op \in {"link", "create"} /\ res = "ok" /\ ~torn /\ Attached = ni.rec.ext ->
            promise \union {[rec |-> ni.no, seq |-> ni.rec.seq, any |-> {call.new}]}
      [] OTHER -> promise

HandlerEnds(res, torn) ==
    /\ pc' = IF Goes(call.op, call.phase, res) \/ Undoes(call.op, call.phase, res)
             THEN "open" ELSE "idle"
    /\ call' = [call EXCEPT !.torn = torn \/ (call.phase = "undo" /\ res = "fail"),
                            !.res = IF Undoes(call.op, call.phase, res) THEN "ok"
                                    ELSE IF call.phase = "undo" THEN "fail" ELSE res,
                            !.want = "any",
                            !.phase = IF Goes(call.op, @, res) THEN "rm"
                                      ELSE IF Undoes(call.op, @, res) THEN "undo" ELSE @]
    /\ promise' = Promised(res, torn)

Start(op, phase, old, new) ==
    /\ pc = "idle" /\ calls < MaxCalls
    /\ pc' = "open"
    /\ call' = [NoCall EXCEPT !.op = op, !.phase = phase, !.old = old, !.new = new,
                              !.asked = AskedFor(old), !.ents = ents]
    /\ calls' = calls + 1
    /\ UNCHANGED <<big, disks, mems, exposed, scars, troubles>>

Create(n) == Start("create", "create", n, n) /\ UNCHANGED promise
Link(o, n) == Start("link", "link", o, n) /\ UNCHANGED promise
Rename(o, n) == Start("rename", "link", o, n) /\ UNCHANGED promise
Unlink(n) == Start("unlink", "rm", n, n) /\ promise' = Without(promise, AskedFor(n))

(* Something else gives the file a cluster: a write (AttrData).            *)
Grow(r, c) ==
    /\ pc = "idle" /\ calls < MaxCalls /\ calls' = calls + 1
    /\ rec[r].used /\ rec[r].names # NoName /\ ~rec[r].full /\ c \notin bmp
    /\ bmp' = bmp \union {c} /\ rec' = [rec EXCEPT ![r].map = @ \union {c}]
    /\ call' = NoCall
    /\ UNCHANGED <<big, ents, mftbmp, mems, pc, ghosts, troubles>>
-----------------------------------------------------------------------------
(* The handler opens the file by its path, then the directory.  The path   *)
(* gives a record number only (ntfs_pathname_to_inode drops the sequence   *)
(* number of the entry); the record must be in use.                        *)
Source == IF call.phase = "link" THEN call.old ELSE Target
Found(n) == ents[n] # NoEntry /\ rec[ents[n].rec].used

OpenBoth ==
    /\ pc = "open" /\ call.phase # "create" /\ Found(Source)
    /\ ni' = [no |-> ents[Source].rec, rec |-> rec[ents[Source].rec]]
    /\ dirm' = ents /\ dirty' = {}
    /\ pc' = IF call.phase = "link" THEN "add" ELSE "find"
    /\ NoFault
    /\ UNCHANGED <<big, disks, call, ghosts>>

OpenFails ==
    /\ pc = "open"
    /\ \/ call.phase # "create" /\ ~Found(Source) /\ NoFault
       \/ call.phase = "create" /\ Rec \subseteq mftbmp /\ NoFault
       \/ Fault
    /\ HandlerEnds("fail", call.torn)
    /\ UNCHANGED <<big, disks, mems, exposed, scars>>

(* ntfs_mft_record_alloc: the record is in use on disk, without attributes *)
(* and without links, before anything names it.                            *)
AllocRecord(r) ==
    /\ pc = "open" /\ call.phase = "create" /\ r \in Rec \ mftbmp
    /\ mftbmp' = mftbmp \union {r}
    /\ rec' = [rec EXCEPT ![r] = [Blank(rec[r].seq) EXCEPT !.used = TRUE]]
    /\ ni' = [no |-> r, rec |-> [rec'[r] EXCEPT !.names[call.new] = "posix"]]
    /\ dirm' = ents /\ dirty' = {"ni"}
    /\ pc' = "add"
    /\ NoFault
    /\ UNCHANGED <<big, ents, bmp, call, ghosts>>
-----------------------------------------------------------------------------
Big(n) == DirOf[n] \in big
Seen(n) == IF Big(n) THEN ents[n] ELSE dirm[n]

(* An entry changes: in the record of a small directory, or in a block     *)
(* that is written at once.  That a block was not written is only logged.  *)
PutEntry(n, e) ==
    \/ /\ ~Big(n)
       /\ dirm' = [dirm EXCEPT ![n] = e]
       /\ UNCHANGED <<ents, scars>> /\ NoFault
    \/ /\ Big(n) /\ ents' = [ents EXCEPT ![n] = e]
       /\ UNCHANGED <<dirm, scars>> /\ NoFault
    \/ /\ Big(n) /\ Fault /\ scars' = scars \union {"torn"}
       /\ UNCHANGED <<dirm, ents>>
Torn == call.torn \/ troubles' # troubles
DirtyDir(n) == IF Big(n) THEN {} ELSE {"dir"}

(* The file is left, with what has been changed of it.                     *)
Fails == [call EXCEPT !.res = "fail"]

(* ntfs_index_add_filename, refusing: the name is there, there is no room  *)
(* in the block (EOPNOTSUPP), or the index cannot be read.                 *)
AddRefused ==
    /\ pc = "add" /\ NoFault
    /\ call' = Fails
    /\ pc' = IF call.phase = "create" THEN "base" ELSE "close_ni"
    /\ UNCHANGED <<big, disks, mems, ghosts>>

AddEntry ==
    /\ pc = "add" /\ Seen(call.new) = NoEntry
    /\ PutEntry(call.new, [rec |-> ni.no, seq |-> ni.rec.seq, ns |-> "posix"])
    /\ dirty' = dirty \union DirtyDir(call.new)
    /\ call' = [call EXCEPT !.torn = Torn]
    /\ IF call.phase = "create"
       THEN ni' = [ni EXCEPT !.rec.links = 1] /\ pc' = "close_ni"
       ELSE UNCHANGED ni /\ pc' = "name"
    /\ UNCHANGED <<big, rec, mftbmp, bmp, promise, exposed>>

\* Mutant: the name is added and not counted.
AddName_NotCounted ==
    /\ pc = "name"
    /\ ni' = [ni EXCEPT !.rec.names[call.new] = "posix"]
    /\ dirty' = dirty \union {"ni"}
    /\ pc' = "close_ni" /\ NoFault
    /\ UNCHANGED <<big, disks, dirm, call, ghosts>>

(* ntfs_link goes on with the FILE_NAME and the count ...                  *)
AddName ==
    /\ pc = "name"
    /\ ni' = [ni EXCEPT !.rec.names[call.new] = "posix", !.rec.links = @ + 1]
    /\ dirty' = dirty \union {"ni"}
    /\ pc' = "close_ni" /\ NoFault
    /\ UNCHANGED <<big, disks, dirm, call, ghosts>>

\* Mutant: the entry stays when the name cannot be added.
AddNameFails_KeepsEntry ==
    /\ pc = "name" /\ NoFault
    /\ pc' = "close_ni" /\ call' = Fails
    /\ UNCHANGED <<big, disks, mems, ghosts>>

(* ... or, when the record has no room for it, takes the entry back, if it *)
(* can.                                                                    *)
AddNameFails ==
    /\ pc = "name" /\ NoFault
    /\ pc' = "back" /\ call' = Fails
    /\ UNCHANGED <<big, disks, mems, ghosts>>

TakeBack ==
    /\ pc = "back" /\ Seen(call.new) # NoEntry
    /\ PutEntry(call.new, NoEntry)
    /\ call' = [call EXCEPT !.torn = Torn]
    /\ pc' = "close_ni"
    /\ UNCHANGED <<big, rec, mftbmp, bmp, ni, dirty, promise, exposed>>

TakeBackFails ==
    /\ pc = "back"
    /\ \/ Seen(call.new) = NoEntry /\ NoFault
       \/ Fault
    /\ scars' = scars \union {"inconsistent"}
    /\ pc' = "close_ni"
    /\ UNCHANGED <<big, disks, mems, call, promise, exposed>>
-----------------------------------------------------------------------------
(* ntfs_delete.  The FILE_NAME to remove next: the name asked for, unless  *)
(* it is one of a pair; then the DOS name, and the WIN32 name after it.    *)
Pair(n) == ni.rec.names[n] \in {"win32", "dos"}
Wanted ==
    IF call.want = "any" /\ ~Pair(Target)
    THEN {n \in {Target} : ni.rec.names[n] = "posix"}
    ELSE {n \in Names : ni.rec.names[n] = IF call.want = "win32" THEN "win32" ELSE "dos"}

\* Mutant: a single name is not looked at.
LastOfDirectory_PairOnly(n) ==
    /\ ni.rec.full
    /\ ni.rec.links = 2 /\ Pair(n)

(* Whether a directory with something in it may lose this name.            *)
LastOfDirectory(n) ==
    /\ ni.rec.full
    /\ ni.rec.links = 1 \/ (ni.rec.links = 2 /\ Pair(n))

RemoveRefused ==
    /\ pc = "find"
    /\ \/ /\ \/ Wanted = {}
             \/ \E n \in Wanted : LastOfDirectory(n) \/ Seen(n) = NoEntry
          /\ NoFault
       \/ Fault
    /\ call' = Fails
    /\ pc' = "close_ni"
    /\ UNCHANGED <<big, disks, mems, ghosts>>

(* A WIN32 name becomes a POSIX one before it is removed.                  *)
Plain(n) == IF ni.rec.names[n] = "win32"
            THEN [ni EXCEPT !.rec.names[n] = "posix"] ELSE ni
MayRemove(n) == n \in Wanted /\ ~LastOfDirectory(n) /\ Seen(n) # NoEntry

RemoveEntry(n) ==
    /\ pc = "find" /\ MayRemove(n)
    /\ PutEntry(n, NoEntry)
    /\ ni' = Plain(n)
    /\ dirty' = dirty \union DirtyDir(n) \union IF ni' = ni THEN {} ELSE {"ni"}
    /\ call' = [call EXCEPT !.victim = n, !.torn = Torn,
                            !.want = IF Pair(n) THEN ni.rec.names[n] ELSE @]
    /\ pc' = "unname"
    /\ UNCHANGED <<big, rec, mftbmp, bmp, promise, exposed>>

(* ntfs_index_rm does not remove an entry with a subnode or the last of a  *)
(* block; the block is written all the same.  The entry a link has just    *)
(* added is a leaf beside others, so taking that back is always supported. *)
RemoveUnsupported(n) ==
    /\ pc = "find" /\ MayRemove(n) /\ Big(n) /\ call.phase # "undo"
    /\ PutEntry(n, [Seen(n) EXCEPT !.ns = Plain(n).rec.names[n]])
    /\ ni' = Plain(n)
    /\ dirty' = dirty \union IF ni' = ni THEN {} ELSE {"ni"}
    /\ call' = [Fails EXCEPT !.torn = Torn]
    /\ pc' = "close_ni"
    /\ UNCHANGED <<big, rec, mftbmp, bmp, promise, exposed>>

\* Mutant: the file goes when one name is left.
RemoveName_OneLeft ==
    /\ pc = "unname"
    /\ ni' = [ni EXCEPT !.rec.names[call.victim] = "none", !.rec.links = @ - 1]
    /\ dirty' = dirty \union {"ni"}
    /\ call' = [call EXCEPT !.want = IF @ = "dos" THEN "win32" ELSE @,
                            !.gone = call.want # "dos" /\ ni'.rec.links = 0]
    /\ pc' = IF call.want = "dos" THEN "find"
             ELSE IF ni'.rec.links <= 1 THEN "clusters" ELSE "close_ni"
    /\ NoFault
    /\ UNCHANGED <<big, disks, dirm, ghosts>>

(* The entry is removed from INDEX_ROOT, and the attribute cannot be cut.  *)
RemoveEntryFails(n) ==
    /\ pc = "find" /\ MayRemove(n) /\ ~Big(n) /\ Fault
    /\ dirm' = [dirm EXCEPT ![n] = NoEntry]
    /\ ni' = Plain(n)
    /\ dirty' = dirty \union {"dir"} \union IF ni' = ni THEN {} ELSE {"ni"}
    /\ call' = [Fails EXCEPT !.torn = TRUE]
    /\ scars' = scars \union {"inconsistent"}
    /\ pc' = "close_ni"
    /\ UNCHANGED <<big, disks, promise, exposed>>

RemoveName ==
    /\ pc = "unname"
    /\ ni' = [ni EXCEPT !.rec.names[call.victim] = "none", !.rec.links = @ - 1]
    /\ dirty' = dirty \union {"ni"}
    /\ call' = [call EXCEPT !.want = IF @ = "dos" THEN "win32" ELSE @,
                            !.gone = call.want # "dos" /\ ni'.rec.links = 0]
    /\ pc' = IF call.want = "dos" THEN "find"
             ELSE IF ni'.rec.links = 0 THEN "clusters" ELSE "close_ni"
    /\ NoFault
    /\ UNCHANGED <<big, disks, dirm, ghosts>>

(* ntfs_attr_record_rm fails before or after the attribute is gone.        *)
RemoveNameFails ==
    /\ pc = "unname" /\ Fault
    /\ ni' \in {ni, [ni EXCEPT !.rec.names[call.victim] = "none"]}
    /\ dirty' = dirty \union IF ni' = ni THEN {} ELSE {"ni"}
    /\ call' = [Fails EXCEPT !.torn = TRUE]
    /\ scars' = scars \union {"inconsistent"}
    /\ pc' = "close_ni"
    /\ UNCHANGED <<big, disks, dirm, promise, exposed>>
-----------------------------------------------------------------------------
(* The last name is gone.  First the clusters are freed; a failure leaves  *)
(* them allocated and the deletion goes on.  The walk over the attributes  *)
(* attaches the extents.                                                   *)
FreeClusters ==
    /\ pc = "clusters"
    /\ \/ /\ bmp' = bmp \ ni.rec.map
          /\ NoFault /\ call' = IF Attached = ni.rec.ext THEN call ELSE Fails
       \/ UNCHANGED bmp /\ Fault /\ call' = Fails
    /\ ni' = [ni EXCEPT !.rec.ext = Attached]
    /\ pc' = "exts"
    /\ UNCHANGED <<big, rec, ents, mftbmp, dirm, dirty, ghosts>>

(* ntfs_mft_record_free of one extent after the other, until none is left. *)
Extent == CHOOSE x \in ni.rec.ext : TRUE

FreeExtent ==
    /\ pc = "exts" /\ ni.rec.ext # {}
    /\ rec' = [rec EXCEPT ![Extent[1]] = Blank(Extent[2] + 1)]
    /\ pc' = "ext_bit" /\ NoFault
    /\ UNCHANGED <<big, ents, mftbmp, bmp, mems, call, ghosts>>

\* Mutant: the extent stays attached to the inode.
ClearExtentBit_StaysAttached ==
    /\ pc = "ext_bit"
    /\ mftbmp' = mftbmp \ {Extent[1]}
    /\ ni' = ni
    /\ pc' = "exts" /\ NoFault
    /\ UNCHANGED <<big, rec, ents, bmp, dirm, dirty, call, ghosts>>

FreeExtentFails ==
    /\ pc \in {"exts", "ext_bit"} /\ ni.rec.ext # {} /\ Fault
    /\ call' = Fails /\ pc' = "exts"
    /\ UNCHANGED <<big, disks, mems, ghosts>>

ClearExtentBit ==
    /\ pc = "ext_bit"
    /\ mftbmp' = mftbmp \ {Extent[1]}
    /\ ni' = [ni EXCEPT !.rec.ext = @ \ {Extent}]
    /\ pc' = "exts" /\ NoFault
    /\ UNCHANGED <<big, rec, ents, bmp, dirm, dirty, call, ghosts>>

NoExtents ==
    /\ pc = "exts" /\ ni.rec.ext = {}
    /\ pc' = "base" /\ NoFault
    /\ UNCHANGED <<big, disks, mems, call, ghosts>>

(* ntfs_mft_record_free of the file: the record, then its bit.             *)
FreeBase ==
    /\ pc = "base"
    /\ rec' = [rec EXCEPT ![ni.no] = Blank(ni.rec.seq + 1)]
    /\ pc' = "bit" /\ NoFault
    /\ UNCHANGED <<big, ents, mftbmp, bmp, mems, call, ghosts>>

ClearBit ==
    /\ pc = "bit"
    /\ mftbmp' = mftbmp \ {ni.no}
    /\ pc' = "close_dir" /\ NoFault
    /\ UNCHANGED <<big, rec, ents, bmp, mems, call, ghosts>>

FreeBaseFails ==
    /\ pc \in {"base", "bit"} /\ Fault
    /\ call' = Fails
    /\ scars' = IF pc = "base" THEN scars \union {"torn"} ELSE scars
    /\ exposed' = exposed \union (rec[ni.no].map \ bmp)
    /\ pc' = "close_dir"
    /\ UNCHANGED <<big, disks, mems, promise>>
-----------------------------------------------------------------------------
(* The inodes are closed, the file first.  The result is ignored, and what *)
(* was in memory is lost with it.                                          *)
CloseFile ==
    /\ pc = "close_ni"
    /\ \/ /\ rec' = IF "ni" \in dirty THEN [rec EXCEPT ![ni.no] = ni.rec] ELSE rec
          /\ NoFault /\ UNCHANGED <<call, scars>>
       \/ /\ "ni" \in dirty /\ Fault /\ call' = [call EXCEPT !.torn = TRUE]
          /\ scars' = scars \union {"torn"} /\ UNCHANGED rec
    /\ pc' = "close_dir"
    /\ UNCHANGED <<big, ents, mftbmp, bmp, mems, promise, exposed>>

CloseDir ==
    /\ pc = "close_dir"
    /\ \/ /\ ents' = [n \in Names |-> IF "dir" \in dirty /\ DirOf[n] = DirOf[Target]
                                     THEN dirm[n] ELSE ents[n]]
          /\ HandlerEnds(call.res, call.torn)
          /\ NoFault /\ UNCHANGED scars
       \/ /\ "dir" \in dirty /\ Fault /\ HandlerEnds(call.res, TRUE)
          /\ scars' = scars \union {"torn"} /\ UNCHANGED ents
    /\ Released
    /\ UNCHANGED <<big, rec, mftbmp, bmp, exposed>>

(* The machine stops in a call: what was in memory only is gone.           *)
Crash ==
    /\ pc # "idle" /\ Fault
    /\ pc' = "idle" /\ call' = NoCall
    /\ scars' = scars \union {"crash"}
    /\ exposed' = exposed \union UNION {rec[r].map \ bmp : r \in Rec}
    /\ Released
    /\ UNCHANGED <<big, disks, promise>>

Step ==
    \/ OpenBoth \/ OpenFails \/ (\E r \in Rec : AllocRecord(r))
    \/ AddRefused \/ AddEntry \/ AddName \/ AddNameFails \/ TakeBack \/ TakeBackFails
    \/ RemoveRefused \/ RemoveName \/ RemoveNameFails
    \/ \E n \in Names : RemoveEntry(n) \/ RemoveUnsupported(n) \/ RemoveEntryFails(n)
    \/ FreeClusters \/ FreeExtent \/ FreeExtentFails
    \/ ClearExtentBit \/ NoExtents \/ FreeBase \/ ClearBit \/ FreeBaseFails
    \/ CloseFile \/ CloseDir

Next ==
    \/ \E n \in UserNames : Create(n)
    \/ \E o \in Names, n \in UserNames : Link(o, n) \/ Rename(o, n)
    \/ \E n \in Names : Unlink(n)
    \/ \E r \in Rec, c \in Cluster : Grow(r, c)
    \/ Step
    \/ Crash

Spec == Init /\ [][Next]_vars /\ WF_vars(Step)
-----------------------------------------------------------------------------
(* Between calls the three accounts of names agree, unless a write failed, *)
(* the code has reported metadata it leaves inconsistent, or the machine   *)
(* has stopped: every entry has its FILE_NAME, in the same name space, in  *)
(* the record with the number it gives; every FILE_NAME has its entry; and *)
(* the link count is their number.                                         *)
EntriesMatchNames ==
    pc = "idle" /\ scars = {} =>
        /\ \A n \in Names : ents[n] # NoEntry =>
              /\ Leads(n, ents[n].rec, ents[n].seq)
              /\ rec[ents[n].rec].names[n] = ents[n].ns
        /\ \A r \in Rec : /\ \A n \in Named(rec[r].names) : ents[n].rec = r
                          /\ rec[r].links = Cardinality(Named(rec[r].names))

(* A name that a call has returned as made, and that nobody has asked to   *)
(* remove, leads to its file, in every state and so after a stop in any.   *)
(* A file that is being renamed, or whose rename failed, has the old name  *)
(* or the new one.  The extents of such a file are in use.                 *)
PromisedNamesLead ==
    \A p \in promise :
        /\ \E n \in p.any : Leads(n, p.rec, p.seq)
        /\ \A x \in rec[p.rec].ext : rec[x[1]].used /\ rec[x[1]].seq = x[2]

(* A call that returns an error has left all names to the files they led   *)
(* to, but for the DOS name of one, unless a write failed or metadata was  *)
(* left inconsistent, the undo of a rename failed as well, or the error    *)
(* came when the last name was gone and what it named was being freed.     *)
FailedCallsKeepNames ==
    pc = "idle" /\ call.res = "fail" /\ ~call.torn /\ ~call.gone
        /\ "inconsistent" \notin scars =>
        \A n \in UserNames : ents[n].rec = call.ents[n].rec /\ ents[n].seq = call.ents[n].seq

(* The clusters of a file that was promised are marked in use and no other *)
(* such file has them, but for clusters of a file whose deletion stopped   *)
(* between the freeing of its clusters and that of its record.             *)
ClustersStayTheirs ==
    \A p \in promise :
        /\ rec[p.rec].map \subseteq bmp \union exposed
        /\ \A q \in promise : q.rec # p.rec =>
              rec[p.rec].map \intersect rec[q.rec].map \subseteq exposed

(* A directory with something in it is never freed, whatever the link      *)
(* counts say after failures and crashes.                                  *)
FullDirectoriesStay == [][\A r \in Rec : rec[r].used /\ rec[r].full => rec'[r].used]_vars

(* Every call returns, the loop over the extents included, as long as      *)
(* failures do not go on for ever.                                         *)
CallReturns == pc # "idle" ~> pc = "idle"
=============================================================================
