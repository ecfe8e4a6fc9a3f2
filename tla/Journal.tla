------------------------------ MODULE Journal -------------------------------
(***************************************************************************)
(* The journal as this code treats it: it is never replayed, only looked   *)
(* at when a volume is mounted for writing (ntfs_check_logfile and         *)
(* ntfs_is_logfile_clean) and filled with 0xff (ntfs_empty_logfile) by     *)
(* ntfsfix and ntfsresize, which set a flag of the volume before, so that  *)
(* Windows checks what the journal can no longer repair.                   *)
(*                                                                         *)
(* $LogFile is a row of blocks of NTFS_BLOCK_SIZE.  Windows, which is not  *)
(* part of this code, keeps two restart pages at its start and writes them *)
(* in turn; what it does here is what the checks of the code rely on.      *)
(***************************************************************************)
EXTENDS Integers, FiniteSets, FiniteSetsExt

CONSTANTS
    Blocks,         \* blocks of $LogFile
    PageSizes,      \* blocks of a page
    Buf,            \* blocks that ntfs_empty_logfile writes at once
    MaxLsn,         \* bounds of the model: restart pages written,
    MaxTroubles     \* failures, stops and crashes

ASSUME JournalAssumption ==
    /\ Blocks \in Nat /\ Buf \in Nat \ {0} /\ Buf < Blocks
    /\ \A s \in PageSizes : /\ s \in Nat \ {0} /\ 4 * s <= Blocks
                            /\ \E k \in 0..Blocks : s = 2 ^ k
    /\ MaxLsn \in Nat /\ MaxTroubles \in Nat

VARIABLES
    log,            \* the blocks of $LogFile
    flags,          \* volume flags in the record of $Volume
    mirr,           \* $MFTMirr differs from $MFT
    win,            \* Windows: its state and its way of keeping the journal
    pending,        \* the volume has transactions that only the journal can finish
    pc, vol,        \* step of the program that runs, and its ntfs_volume
    troubles

disk == <<log, flags, mirr>>
vars == <<log, flags, mirr, win, pending, pc, vol, troubles>>

Dirty == "VOLUME_IS_DIRTY"
Nt4 == "VOLUME_MOUNTED_ON_NT4"
Resize == "VOLUME_RESIZE_LOG_FILE"

Empty == [kind |-> "empty"]                 \* begins with 0xffffffff
Rcrd == [kind |-> "RCRD"]
Body(lsn) == [kind |-> "body", lsn |-> lsn] \* of a restart page
RestartPage(kind, lsn, used, clean, size) ==
    [kind |-> kind, lsn |-> lsn, used |-> used, clean |-> clean, size |-> size]
RestartKinds == {"RSTR", "CHKD"}

(* An ntfs_volume: mounted or only started up, its flags as loaded (none   *)
(* by ntfs_volume_startup), and NVolLogFileEmpty; pos as in the loop of    *)
(* ntfs_empty_logfile.                                                     *)
NoVol == [prog |-> "none", mounted |-> FALSE, flags |-> {}, empty |-> FALSE, pos |-> 0]
-----------------------------------------------------------------------------
(* ntfs_check_and_load_restart_page: the page is where its size has it and *)
(* is of one write, unless all that matters is in its first block.         *)
OneWrite(pos) == \A b \in pos + 1..pos + log[pos].size - 1 : log[b] = Body(log[pos].lsn)
Consistent(pos) == pos \in {0, log[pos].size} /\ (OneWrite(pos) \/ ~win.long)

(* ntfs_check_logfile looks at the positions a page can begin at, 0 and    *)
(* the powers of two, one after the other.  An empty block behind one that *)
(* is not ends the search, and so do a record page and a restart page that *)
(* is not at the start.                                                    *)
Positions == {0} \union {p \in 1..Blocks - 1 : \E k \in 0..Blocks : p = 2 ^ k}
Loads(pos) == log[pos].kind \in RestartKinds /\ Consistent(pos)
StopsAt(pos) ==
    \/ log[pos] = Empty /\ \E q \in Positions : q < pos /\ log[q] # Empty
    \/ log[pos] = Rcrd
    \/ Loads(pos) /\ pos # 0
Pages == {pos \in Positions : Loads(pos) /\ \A q \in Positions : q < pos => ~StopsAt(q)}
SeenEmpty == \A pos \in Positions : log[pos] = Empty

\* Mutant: the older one is taken.
Newest_Older(pos) == \A q \in Pages : log[pos].lsn <= log[q].lsn
(* Of two restart pages the second is taken if it is more recent.          *)
Newest(pos) ==
    \A q \in Pages : log[q].lsn < log[pos].lsn \/ (log[q].lsn = log[pos].lsn /\ pos <= q)
Clean(page) == page.used => page.clean

CheckLogfile == SeenEmpty \/ \E pos \in Pages : Newest(pos) /\ Clean(log[pos])

(* ntfs_device_mount, for writing: the mirror, the journal, hiberfil.sys.  *)
Mountable == ~mirr /\ CheckLogfile /\ win.state # "hibernated"
-----------------------------------------------------------------------------
(* Windows.  Its restart pages are written in turn, each with a new lsn.   *)
Page(k, head) ==
    [b \in 0..Blocks - 1 |->
        IF b = k * win.size THEN head
        ELSE IF b \in k * win.size..k * win.size + win.size - 1 THEN Body(head.lsn) ELSE log[b]]
Records == [b \in 0..Blocks - 1 |-> IF b % win.size = 0 THEN Rcrd ELSE Body(0)]
Restart(used, clean) == RestartPage("RSTR", win.lsn + 1, used, clean, win.size)

(* A log that was emptied is set up anew, with the other page as well.     *)
WithPage(head) ==
    LET start == win.next * win.size
        new == Page(win.next, head)
        other == (1 - win.next) * win.size IN
    IF \E b \in 0..Blocks - 1 : log[b] = Empty
    THEN [b \in 0..Blocks - 1 |->
            IF b \in start..start + win.size - 1 THEN new[b]
            ELSE IF b = other THEN [head EXCEPT !.lsn = @ - 1]
            ELSE IF b \in other..other + win.size - 1 THEN Body(head.lsn - 1)
            ELSE Records[b]]
    ELSE new
Wrote(state) == [win EXCEPT !.state = state, !.lsn = @ + 1, !.next = 1 - @]

Init ==
    /\ \E size \in PageSizes, long \in BOOLEAN :
          win = [state |-> "off", size |-> size, long |-> long, lsn |-> 0, next |-> 0]
    /\ log = [b \in 0..Blocks - 1 |-> Empty]      \* as mkntfs leaves it
    /\ flags \in {{}, {Resize}}
    /\ mirr = FALSE /\ pending = FALSE
    /\ pc = "off" /\ vol = NoVol
    /\ troubles = 0

Trouble == troubles < MaxTroubles /\ troubles' = troubles + 1
Windows == pc = "off" /\ UNCHANGED <<pc, vol>>

WinBoot ==
    /\ Windows /\ win.state = "off" /\ win.lsn < MaxLsn
    /\ log' = WithPage(Restart(TRUE, FALSE)) /\ win' = Wrote("running")
    /\ flags' = flags \ {Dirty, Nt4} /\ mirr' = FALSE /\ pending' = FALSE
    /\ UNCHANGED troubles
WinWork ==
    /\ Windows /\ win.state = "running" /\ ~pending /\ pending' = TRUE
    /\ UNCHANGED <<disk, win, troubles>>
WinCheckpoint ==
    /\ Windows /\ win.state = "running" /\ win.lsn < MaxLsn
    /\ log' = WithPage(Restart(TRUE, FALSE)) /\ win' = Wrote("running")
    /\ UNCHANGED <<flags, mirr, pending, troubles>>
(* Some close their client of the journal, others mark the volume clean.   *)
WinShutdown ==
    /\ Windows /\ win.state = "running"
    /\ \E used \in BOOLEAN : log' = WithPage(Restart(used, used))
    /\ win' = Wrote("off") /\ pending' = FALSE
    /\ UNCHANGED <<flags, mirr, troubles>>
WinHibernate ==
    /\ Windows /\ win.state = "running" /\ win' = [win EXCEPT !.state = "hibernated"]
    /\ UNCHANGED <<disk, pending, troubles>>
WinResume ==
    /\ Windows /\ win.state = "hibernated" /\ \A b \in 0..Blocks - 1 : log[b] # Empty
    /\ win' = [win EXCEPT !.state = "running"]
    /\ UNCHANGED <<disk, pending, troubles>>
(* It crashes, or does so within the write of a restart page.              *)
WinCrash ==
    /\ Windows /\ win.state = "running" /\ Trouble
    /\ \/ log' = log /\ win' = [win EXCEPT !.state = "off"]
       \/ /\ win.lsn < MaxLsn
          /\ log' = [log EXCEPT ![win.next * win.size] = Restart(TRUE, FALSE)]
          /\ win' = Wrote("off")
    /\ UNCHANGED <<flags, mirr, pending>>
(* chkdsk, from a Windows that has not this volume mounted.                *)
Chkdsk ==
    /\ Windows /\ win.state = "off"
    /\ pending' = FALSE /\ mirr' = FALSE /\ flags' = flags \ {Dirty, Nt4}
    /\ log' = [b \in 0..Blocks - 1 |->
                 IF log[b].kind = "RSTR"
                 THEN [log[b] EXCEPT !.kind = "CHKD", !.used = FALSE] ELSE log[b]]
    /\ UNCHANGED <<win, troubles>>
-----------------------------------------------------------------------------
(* The programs: ntfsfix, ntfsresize, and others that mount for writing.   *)
Mounted == [vol EXCEPT !.mounted = TRUE, !.flags = flags, !.empty = SeenEmpty]
Required(v) == v.flags \union (IF v.mounted THEN {Dirty, Nt4} ELSE {Dirty})

(* What follows on each step; the mutant empties the journal first.        *)
After_JournalFirst(step) ==
    CASE step = "mirror" -> "read" [] step = "fill" -> "flag" [] OTHER -> "remount"
After(step) ==
    CASE step = "mirror" -> "flag" [] step = "flag" -> "read"
      [] step = "fill" /\ ~vol.mounted -> "remount"
      [] step = "fill" /\ vol.mounted /\ vol.prog = "ntfsfix" -> "fixed"
      [] OTHER -> "work"

Start(prog) ==
    /\ pc = "off" /\ win.state # "running"
    /\ pc' = "mount" /\ vol' = [NoVol EXCEPT !.prog = prog]
    /\ UNCHANGED <<disk, win, pending, troubles>>

(* ntfsfix mounts; what does not mount it only starts up, to fix it.       *)
FixMounts ==
    /\ pc = "mount" /\ vol.prog = "ntfsfix"
    /\ IF Mountable THEN pc' = "flag" /\ vol' = Mounted
                    ELSE pc' = "mirror" /\ vol' = vol
    /\ UNCHANGED <<disk, win, pending, troubles>>
FixMirror ==
    /\ pc = "mirror" /\ mirr' = FALSE /\ pc' = After("mirror")
    /\ UNCHANGED <<log, flags, win, pending, vol, troubles>>
(* vol_is_dirty and journal_is_empty are set when it mounts again.         *)
Remount ==
    /\ pc = "remount"
    /\ IF Mountable THEN pc' = "fixed" /\ vol' = Mounted ELSE pc' = "off" /\ vol' = NoVol
    /\ UNCHANGED <<disk, win, pending, troubles>>

(* The others refuse a volume that is marked, unless they are forced.      *)
OtherMounts ==
    /\ pc = "mount" /\ vol.prog # "ntfsfix"
    /\ \E force \in BOOLEAN :
          IF Mountable /\ (Dirty \in flags => force)
          THEN /\ pc' = IF vol.prog = "ntfsresize" THEN "flag" ELSE "work"
               /\ vol' = Mounted
          ELSE pc' = "off" /\ vol' = NoVol
    /\ UNCHANGED <<disk, win, pending, troubles>>

SetFlags ==
    /\ pc = "flag" /\ flags' = Required(vol)
    /\ pc' = After("flag") /\ vol' = [vol EXCEPT !.flags = Required(vol)]
    /\ UNCHANGED <<log, mirr, win, pending, troubles>>

(* ntfs_empty_logfile: all is read, then filled; a write may be short.     *)
ReadThrough ==
    /\ pc = "read"
    /\ pc' = IF vol.empty THEN After("fill") ELSE "fill"
    /\ UNCHANGED <<disk, win, pending, vol, troubles>>
Filled(n) == [b \in 0..Blocks - 1 |-> IF b \in vol.pos..vol.pos + n - 1 THEN Empty ELSE log[b]]
Count == Min({Buf, Blocks - vol.pos})
\* Mutant: a short write is taken for a whole one.
Advanced_Whole(n) == vol.pos + Count
Advanced(n) == vol.pos + n
Fill ==
    /\ pc = "fill"
    /\ \E n \in 1..Count :
          /\ IF n = Count THEN UNCHANGED troubles ELSE Trouble
          /\ log' = Filled(n)
          /\ IF Advanced(n) = Blocks
             THEN pc' = After("fill") /\ vol' = [vol EXCEPT !.empty = TRUE, !.pos = 0]
             ELSE pc' = pc /\ vol' = [vol EXCEPT !.pos = Advanced(n)]
    /\ UNCHANGED <<flags, mirr, win, pending>>

(* A call fails, for which the programs give up, or the machine stops: at  *)
(* most a write is half done, in $MFT and not in the mirror, or within the *)
(* blocks that are filled.                                                 *)
Stop ==
    /\ pc # "off" /\ Trouble /\ pc' = "off" /\ vol' = NoVol
    /\ \/ UNCHANGED disk
       \/ pc = "flag" /\ flags' = Required(vol) /\ mirr' = TRUE /\ UNCHANGED log
       \/ pc = "fill" /\ (\E n \in 1..Count : log' = Filled(n)) /\ UNCHANGED <<flags, mirr>>
    /\ UNCHANGED <<win, pending>>
End ==
    /\ pc \in {"fixed", "work"} /\ pc' = "off" /\ vol' = NoVol
    /\ UNCHANGED <<disk, win, pending, troubles>>

Next ==
    \/ WinBoot \/ WinWork \/ WinCheckpoint \/ WinShutdown \/ WinHibernate \/ WinResume
    \/ WinCrash \/ Chkdsk
    \/ \E prog \in {"ntfsfix", "ntfsresize", "other"} : Start(prog)
    \/ FixMounts \/ FixMirror \/ Remount \/ OtherMounts \/ SetFlags \/ ReadThrough \/ Fill
    \/ Stop \/ End

Spec == Init /\ [][Next]_vars
-----------------------------------------------------------------------------
(* Whatever is filled of a journal that Windows needs to finish its        *)
(* transactions, and wherever ntfsfix stops, the volume is marked: Windows *)
(* then checks what it can no longer replay.                               *)
LostJournalIsMarked ==
    pending /\ (\E b \in 0..Blocks - 1 : log[b] = Empty) => Dirty \in flags

(* Nobody mounts a volume to write to it of which Windows has transactions *)
(* to finish, or which it will go on with when it wakes up, whatever pages *)
(* of the journal are torn, old or filled; but one that is marked may be   *)
(* mounted by force.                                                       *)
Writing == vol.mounted /\ pc # "off"
MountsForWritingAreSafe ==
    Writing => win.state = "off" /\ (pending => Dirty \in flags)

(* When ntfsfix reports success the volume is marked and mounts again, its *)
(* journal being found empty.                                              *)
FixedVolumesMount == pc = "fixed" => Dirty \in flags /\ Mountable /\ SeenEmpty

=============================================================================
