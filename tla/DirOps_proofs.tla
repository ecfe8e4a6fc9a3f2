---------------------------- MODULE DirOps_proofs ----------------------------
(***************************************************************************)
(* Proofs about the calls on names (DirOps): a directory with something in *)
(* it is never freed; between calls the entries, the FILE_NAMEs and the    *)
(* link counts agree unless something has gone wrong; and, whatever goes   *)
(* wrong, a file that was promised a name keeps one that leads to it, and  *)
(* its clusters; and a call that fails has moved no name.                  *)
(***************************************************************************)
EXTENDS DirOps, FiniteSetTheorems, TLAPS

NameKind == NameSpaces \union {"none"}
Record == [used : BOOLEAN, seq : Nat, names : [Names -> NameKind], links : Int,
           full : BOOLEAN, ext : SUBSET (Nat \X Nat), map : SUBSET Cluster]
Entry == {NoEntry} \union [rec : Rec, seq : Nat, ns : NameSpaces]
Inode == [no : Rec \union {0}, rec : Record]
Call == [op : {"none", "create", "link", "rename", "unlink"},
         phase : {"create", "link", "rm", "undo"},
         old : Names, new : Names, want : {"any"} \union NameSpaces, victim : Names,
         res : {"ok", "fail"}, torn : BOOLEAN, gone : BOOLEAN,
         asked : SUBSET Names, ents : [Names -> Entry]]

Naming == {"add", "name", "back", "find", "unname", "close_ni"}
Freeing == {"clusters", "exts", "ext_bit", "base", "bit"}
Opened == Naming \union Freeing

(* The types of what the calls work on.                                    *)
Types ==
    /\ rec \in [Rec -> Record] /\ ents \in [Names -> Entry]
    /\ ni \in Inode /\ dirm \in [Names -> Entry] /\ dirty \subseteq {"ni", "dir"}
    /\ call \in Call
    /\ pc \in {"idle", "open", "close_dir"} \union Opened
    /\ pc \in Opened \union {"close_dir"} => ni.no \in Rec

-----------------------------------------------------------------------------
(* Full directories.  Only the record the first file started in can be of  *)
(* a directory with something in it, and no extent has its number.         *)
Numbers(no, r) ==
    /\ r.full => no = 1
    /\ \A x \in r.ext : x[1] = 2
OneFull == /\ \A r \in Rec : Numbers(r, rec[r])
           /\ Numbers(ni.no, ni.rec)

(* The open inode is in use and says of itself that it is full; what is    *)
(* being freed is not, nor what has just been made; and the name about to  *)
(* go is not the last one of a directory with something in it.             *)
FullIsKnown ==
    /\ pc \in Opened \ {"bit"} => ni.rec.used /\ (rec[ni.no].full => ni.rec.full)
    /\ pc \in Freeing \ {"bit"} => ~ni.rec.full
    /\ pc = "add" /\ call.phase = "create" => ~ni.rec.full
    /\ pc = "unname" /\ ni.rec.full => ni.rec.links # 1

FullInv == Types /\ OneFull /\ FullIsKnown
-----------------------------------------------------------------------------
(* Names.  The entries as the call in progress sees them, and the records: *)
(* the one of the open inode as it is in memory, as it will be when a name *)
(* that has lost its entry is removed, and as if it were gone.             *)
View == [n \in Names |-> Seen(n)]
With(r) == [rec EXCEPT ![ni.no] = r]
Unnamed(r, n) == [r EXCEPT !.names[n] = "none", !.links = @ - 1]

(* Every entry has its FILE_NAME and every FILE_NAME its entry; the link   *)
(* count is their number; a WIN32 name and a DOS name are those of the     *)
(* pair.                                                                   *)
EntryAgrees(R, e, n) ==
    /\ R[e.rec].used /\ R[e.rec].seq = e.seq
    /\ R[e.rec].names[n] = e.ns
RecordAgrees(E, r, no) ==
    /\ \A n \in Names : r.names[n] # "none" => E[n].rec = no
    /\ r.links = Cardinality(Named(r.names))
    /\ \A n \in Names : /\ r.names[n] = "win32" => n = Long
                        /\ r.names[n] = "dos" => n = Short
Agree(R, E) ==
    /\ \A n \in Names : E[n] # NoEntry => EntryAgrees(R, E[n], n)
    /\ \A r \in Rec : RecordAgrees(E, R[r], r)

(* An extent is the one the first file may have had; as long as it has its *)
(* number it is in use and has no names, and it is not the file that is    *)
(* open.  What is left to be freed has no names either.                    *)
IsExtent(x) ==
    /\ x = <<2, 1>>
    /\ rec[2].seq = 1 => rec[2].used /\ rec[2].names = NoName /\ rec[2].links = 0
    /\ pc \in Naming => ni.no # 2 \/ ni.rec.seq # 1
Extents ==
    /\ \A r \in Rec : rec[r].seq >= 1 /\ \A x \in rec[r].ext : IsExtent(x)
    /\ \A x \in ni.rec.ext : IsExtent(x)
    /\ pc \in Opened => ni.rec.seq >= 1
    /\ pc = "ext_bit" => ni.rec.ext # {} /\ ~rec[2].used
    /\ pc \in {"exts", "ext_bit"} /\ ni.rec.ext # {} => rec[2].names = NoName /\ rec[2].links = 0

(* A record in use has its bit.                                            *)
Bits ==
    /\ \A r \in Rec : rec[r].used => r \in mftbmp
    /\ pc \in Naming => ni.rec.used /\ rec[ni.no].used /\ ni.rec.seq = rec[ni.no].seq
    /\ pc = "bit" => ~rec[ni.no].used /\ rec[ni.no].names = NoName /\ rec[ni.no].links = 0

(* What differs from the disk is dirty, and is in the directory of the     *)
(* name the handler works on.                                              *)
Dirties ==
    /\ pc \in {"idle", "open"} => dirty = {} /\ call.want = "any"
    /\ pc \in Naming /\ "ni" \notin dirty => ni.rec = rec[ni.no]
    /\ "dir" \in dirty => DirOf[Target] \notin big
    /\ pc \in Opened \union {"close_dir"} =>
          \A n \in Names : ~Big(n) /\ dirm[n] # ents[n] =>
              "dir" \in dirty /\ DirOf[n] = DirOf[Target]
    /\ pc \in {"find", "unname"} /\ call.want # "any" => DirOf[Target] = DirOf[Long]

(* The stages of a call.                                                   *)
Adding ==
    /\ Agree(rec, View) /\ call.phase \in {"create", "link"}
    /\ call.phase = "create" =>
          /\ rec[ni.no].names = NoName /\ rec[ni.no].links = 0 /\ "ni" \in dirty
          /\ ni.rec = [rec[ni.no] EXCEPT !.names[call.new] = "posix"]
    /\ call.phase = "link" => ni.rec = rec[ni.no]
NameMissing ==
    /\ Agree(rec, [View EXCEPT ![call.new] = NoEntry]) /\ call.phase = "link"
    /\ View[call.new] = [rec |-> ni.no, seq |-> ni.rec.seq, ns |-> "posix"]
    /\ ni.rec = rec[ni.no]
    /\ ~Big(call.new) => "dir" \in dirty
Stages ==
    /\ pc \in {"idle", "open"} => Agree(rec, ents)
    /\ pc = "add" => Adding
    /\ pc \in {"name", "back"} => NameMissing
    /\ pc \in {"find", "close_ni"} => Agree(With(ni.rec), View)
    /\ pc = "unname" => Agree(With(Unnamed(ni.rec, call.victim)), View)
    /\ pc \in Freeing => Agree(With(Blank(0)), View)
    /\ pc = "close_dir" => Agree(rec, View)

Sound == Extents /\ Bits /\ Dirties /\ Stages
NamesInv == Types /\ (scars = {} => Sound)
-----------------------------------------------------------------------------
LEMMA Constants ==
    /\ IsFiniteSet(Names) /\ {1, 2} \subseteq Rec /\ Rec \subseteq Nat \ {0}
    /\ Short \in Names /\ Long \in Names
  BY DirAssumption

LEMMA BlankRecord ==
    /\ \A seq \in Nat : Blank(seq) \in Record /\ ~Blank(seq).full /\ ~Blank(seq).used
    /\ \A seq \in Nat : Blank(seq).ext = {} /\ Blank(seq).seq = seq /\ Blank(seq).links = 0
    /\ \A seq \in Nat : Blank(seq).names = NoName
    /\ NoName \in [Names -> NameKind] /\ \A n \in Names : NoName[n] = "none"
    /\ NoInode \in Inode /\ NoInode.no = 0 /\ NoInode.rec = Blank(0)
    /\ NoEntries \in [Names -> Entry] /\ \A n \in Names : NoEntries[n] = NoEntry
  BY DEF Blank, Record, NoName, NameKind, NameSpaces, NoInode, Inode, NoEntries, Entry

LEMMA EntryParts ==
    ASSUME NEW e \in Entry, e # NoEntry
    PROVE  e.rec \in Rec /\ e.seq \in Nat /\ e.ns \in NameSpaces
  BY DEF Entry

LEMMA NewEntry ==
    \A r \in Rec, q \in Nat, ns \in NameSpaces : [rec |-> r, seq |-> q, ns |-> ns] \in Entry
  BY DEF Entry

LEMMA InodeParts ==
    ASSUME ni \in Inode
    PROVE  /\ ni.rec \in Record /\ ni.rec.seq \in Nat /\ ni.rec.used \in BOOLEAN
           /\ ni.rec.names \in [Names -> NameKind]
           /\ ni.rec.links \in Int /\ ni.rec.ext \in SUBSET (Nat \X Nat)
           /\ ni.rec.map \in SUBSET Cluster
  BY DEF Inode, Record

LEMMA WholeRecord ==
    ASSUME NEW r \in Record
    PROVE  r.seq \in Nat /\ r.used \in BOOLEAN /\ r.names \in [Names -> NameKind]
           /\ r.links \in Int /\ r.ext \in SUBSET (Nat \X Nat) /\ r.full \in BOOLEAN
  BY DEF Record

(* What is changed in the open inode: a name, the link count or both, the  *)
(* extents.                                                                *)
SameBut(m, names, links, ext) ==
    /\ m \in Inode /\ m.no = ni.no
    /\ m.rec.used = ni.rec.used /\ m.rec.seq = ni.rec.seq /\ m.rec.full = ni.rec.full
    /\ m.rec.names = names /\ m.rec.links = links /\ m.rec.ext = ext
    /\ m.rec = [ni.rec EXCEPT !.names = names, !.links = links, !.ext = ext]

LEMMA SetName ==
    ASSUME ni \in Inode, NEW n \in Names, NEW k \in NameKind,
           NEW m, m = [ni EXCEPT !.rec.names[n] = k]
    PROVE  SameBut(m, [ni.rec.names EXCEPT ![n] = k], ni.rec.links, ni.rec.ext)
  BY DEF SameBut, Inode, Record

LEMMA SetNameAndLinks ==
    ASSUME ni \in Inode, NEW n \in Names, NEW k \in NameKind, NEW l \in Int,
           NEW m, m = [ni EXCEPT !.rec.names[n] = k, !.rec.links = l]
    PROVE  SameBut(m, [ni.rec.names EXCEPT ![n] = k], l, ni.rec.ext)
  BY DEF SameBut, Inode, Record

LEMMA SetLinks ==
    ASSUME ni \in Inode, NEW l \in Int, NEW m, m = [ni EXCEPT !.rec.links = l]
    PROVE  SameBut(m, ni.rec.names, l, ni.rec.ext)
  BY DEF SameBut, Inode, Record

LEMMA SetExt ==
    ASSUME ni \in Inode, NEW x \in SUBSET (Nat \X Nat), NEW m, m = [ni EXCEPT !.rec.ext = x]
    PROVE  SameBut(m, ni.rec.names, ni.rec.links, x)
  BY DEF SameBut, Inode, Record

LEMMA SetPlain ==
    ASSUME ni \in Inode, NEW n \in Names, NEW m, m = Plain(n)
    PROVE  /\ SameBut(m, m.rec.names, ni.rec.links, ni.rec.ext)
           /\ m.rec.names = [ni.rec.names EXCEPT ![n] = IF @ = "win32" THEN "posix" ELSE @]
  <1>1. CASE ni.rec.names[n] = "win32"
    <2>1. m = [ni EXCEPT !.rec.names[n] = "posix"] /\ "posix" \in NameKind
      BY <1>1 DEF Plain, NameKind, NameSpaces
    <2>2. SameBut(m, [ni.rec.names EXCEPT ![n] = "posix"], ni.rec.links, ni.rec.ext)
      BY <2>1, SetName
    <2>3. ni.rec.names[n] = "win32" /\ m.rec.names = [ni.rec.names EXCEPT ![n] = "posix"]
      BY <1>1, <2>2 DEF SameBut
    <2> QED
      BY <2>2, <2>3
  <1>2. CASE ni.rec.names[n] # "win32"
    BY <1>2 DEF Plain, SameBut, Inode, Record
  <1> QED
    BY <1>1, <1>2

LEMMA NextSeq == \A q \in Nat : q + 1 \in Nat
  OBVIOUS

-----------------------------------------------------------------------------
LEMMA CallParts ==
    ASSUME call \in Call
    PROVE  /\ call.old \in Names /\ call.new \in Names /\ call.victim \in Names
           /\ call.torn \in BOOLEAN /\ call.res \in {"ok", "fail"}
           /\ Target \in Names /\ Source \in Names /\ Torn \in BOOLEAN
  BY DEF Call, Target, Source, Torn

LEMMA CallChanges ==
    ASSUME call \in Call
    PROVE  /\ Fails \in Call
           /\ \A t \in BOOLEAN : [call EXCEPT !.torn = t] \in Call
           /\ \A t \in BOOLEAN : [Fails EXCEPT !.torn = t] \in Call
  BY DEF Fails, Call

LEMMA FirstCall == NoCall \in Call /\ NoCall.phase = "link"
  BY Constants, BlankRecord DEF NoCall, Call

LEMMA EndTypes ==
    ASSUME call \in Call, NEW res \in {"ok", "fail"}, NEW torn \in BOOLEAN,
           HandlerEnds(res, torn)
    PROVE  call' \in Call /\ pc' \in {"idle", "open"}
  <1>1. pc' \in {"idle", "open"}
    BY DEF HandlerEnds
  <1>2. (torn \/ (call.phase = "undo" /\ res = "fail")) \in BOOLEAN
    OBVIOUS
  <1>3. (IF Undoes(call.op, call.phase, res) THEN "ok"
         ELSE IF call.phase = "undo" THEN "fail" ELSE res) \in {"ok", "fail"}
    OBVIOUS
  <1>4. (IF Goes(call.op, call.phase, res) THEN "rm"
         ELSE IF Undoes(call.op, call.phase, res) THEN "undo" ELSE call.phase)
            \in {"create", "link", "rm", "undo"}
    BY DEF Call
  <1>5. call' = [call EXCEPT !.torn = torn \/ (call.phase = "undo" /\ res = "fail"),
                            !.res = IF Undoes(call.op, call.phase, res) THEN "ok"
                                    ELSE IF call.phase = "undo" THEN "fail" ELSE res,
                            !.want = "any",
                            !.phase = IF Goes(call.op, call.phase, res) THEN "rm"
                                      ELSE IF Undoes(call.op, call.phase, res) THEN "undo"
                                      ELSE call.phase]
    BY DEF HandlerEnds
  <1>6. \A t \in BOOLEAN, r \in {"ok", "fail"}, p \in {"create", "link", "rm", "undo"} :
           [call EXCEPT !.torn = t, !.res = r, !.want = "any", !.phase = p] \in Call
    BY DEF Call
  <1> QED
    BY <1>1, <1>2, <1>3, <1>4, <1>5, <1>6

LEMMA StartTypes ==
    ASSUME NEW op \in {"create", "link", "rename", "unlink"},
           NEW phase \in {"create", "link", "rm"}, NEW old \in Names, NEW new \in Names,
           Types, Start(op, phase, old, new)
    PROVE  Types'
  <1>1. AskedFor(old) \in SUBSET Names
    BY Constants DEF AskedFor, Asked
  <1>2. call' \in Call
    <2>1. \A as \in SUBSET Names, es \in [Names -> Entry] :
             [NoCall EXCEPT !.op = op, !.phase = phase, !.old = old, !.new = new,
                            !.asked = as, !.ents = es] \in Call
      BY FirstCall DEF Call
    <2> QED
      BY <1>1, <2>1 DEF Start, Types
  <1>3. UNCHANGED <<rec, ents, ni, dirm, dirty>> /\ pc' = "open"
    BY DEF Start, disks, mems
  <1>4. "open" \notin Opened
    BY DEF Opened, Naming, Freeing
  <1> QED
    BY <1>2, <1>3, <1>4 DEF Types

LEMMA PutTypes ==
    ASSUME Types, NEW n \in Names, NEW e \in Entry, PutEntry(n, e)
    PROVE  ents' \in [Names -> Entry] /\ dirm' \in [Names -> Entry]
  BY DEF PutEntry, Types

LEMMA SeenType == ASSUME Types, NEW n \in Names PROVE Seen(n) \in Entry
  BY DEF Types, Seen

LEMMA InitTypes == Init => Types
  <1> SUFFICES ASSUME Init PROVE Types
    OBVIOUS
  <1>1. PICK links \in InitLinks, kind \in {"file", "large_file", "full_dir"} :
          LET ext == IF kind = "large_file" THEN {2} ELSE {}
              map == IF kind = "large_file" THEN Cluster ELSE {} IN
          /\ rec = [r \in Rec |->
                    IF r = 1 THEN [used |-> TRUE, seq |-> 1, names |-> links,
                                   links |-> Cardinality(Named(links)), full |-> kind = "full_dir",
                                   ext |-> {<<e, 1>> : e \in ext}, map |-> map]
                    ELSE [Blank(1) EXCEPT !.used = r \in ext]]
          /\ ents = [n \in Names |-> IF links[n] = "none" THEN NoEntry
                                   ELSE [rec |-> 1, seq |-> 1, ns |-> links[n]]]
    BY DEF Init
  <1>2. links \in [Names -> NameKind]
    BY DirAssumption DEF NameKind
  <1>3. Cardinality(Named(links)) \in Int
    <2>1. IsFiniteSet(Named(links))
      BY Constants, FS_Subset DEF Named
    <2> QED
      BY <2>1, FS_CardinalityType
  <1>4. rec \in [Rec -> Record]
    <2> DEFINE ext == IF kind = "large_file" THEN {2} ELSE {}
               map == IF kind = "large_file" THEN Cluster ELSE {}
    <2>1. {<<e, 1>> : e \in ext} \in SUBSET (Nat \X Nat) /\ map \in SUBSET Cluster
      OBVIOUS
    <2>2. [used |-> TRUE, seq |-> 1, names |-> links, links |-> Cardinality(Named(links)),
           full |-> kind = "full_dir", ext |-> {<<e, 1>> : e \in ext}, map |-> map] \in Record
      BY <1>2, <1>3, <2>1 DEF Record
    <2>3. \A b \in BOOLEAN : [Blank(1) EXCEPT !.used = b] \in Record
      BY BlankRecord DEF Record
    <2>4. \A r \in Rec : (r \in ext) \in BOOLEAN
      OBVIOUS
    <2>5. rec = [r \in Rec |->
                    IF r = 1 THEN [used |-> TRUE, seq |-> 1, names |-> links,
                                   links |-> Cardinality(Named(links)), full |-> kind = "full_dir",
                                   ext |-> {<<e, 1>> : e \in ext}, map |-> map]
                    ELSE [Blank(1) EXCEPT !.used = r \in ext]]
      BY <1>1
    <2> HIDE DEF ext, map
    <2>6. \A r \in Rec : r # 1 => [Blank(1) EXCEPT !.used = r \in ext] \in Record
      BY <2>3, <2>4
    <2> QED
      BY <2>2, <2>5, <2>6
  <1>5. ents \in [Names -> Entry]
    BY <1>1, <1>2, Constants, NewEntry DEF Entry, NameKind
  <1>6. /\ ni = NoInode /\ dirm = NoEntries /\ dirty = {} /\ pc = "idle" /\ call = NoCall
    BY DEF Init
  <1> QED
    BY <1>4, <1>5, <1>6, FirstCall, BlankRecord DEF Types, Opened, Naming, Freeing

(* The actions that leave the records, the entries and the inodes alone    *)
(* and go from one stage of a call to another.                             *)
LEMMA QuietTypes ==
    ASSUME Types, UNCHANGED <<rec, ents, ni, dirm, dirty>>, call' \in Call,
           pc' \in {"idle", "open"} \/ (pc \in Opened /\ pc' \in Opened \union {"close_dir"})
    PROVE  Types'
  <1>1. "idle" \notin Opened \union {"close_dir"} /\ "open" \notin Opened \union {"close_dir"}
    BY DEF Opened, Naming, Freeing
  <1> QED
    BY <1>1 DEF Types

LEMMA StagesOpened ==
    /\ {"add", "name", "back", "find", "unname", "close_ni"} \subseteq Opened
    /\ {"clusters", "exts", "ext_bit", "base", "bit"} \subseteq Opened
    /\ {"idle", "open", "close_dir"} \intersect Opened = {}
    /\ Naming \subseteq Opened /\ Freeing \subseteq Opened /\ Naming \intersect Freeing = {}
    /\ Opened = Naming \union Freeing
  BY DEF Opened, Naming, Freeing

LEMMA StepTypes ==
    ASSUME Types, Step
    PROVE  Types'
  <1>a. call \in Call /\ ni \in Inode /\ rec \in [Rec -> Record] /\ ents \in [Names -> Entry]
        /\ dirm \in [Names -> Entry] /\ dirty \subseteq {"ni", "dir"}
    BY DEF Types
  <1>ni. ni \in Inode
    BY <1>a
  <1>b. /\ call.old \in Names /\ call.new \in Names /\ call.victim \in Names
        /\ call.torn \in BOOLEAN /\ call.res \in {"ok", "fail"}
        /\ Target \in Names /\ Source \in Names /\ Torn \in BOOLEAN
    BY <1>a, CallParts
  <1>c. /\ Fails \in Call
        /\ \A t \in BOOLEAN : [call EXCEPT !.torn = t] \in Call
        /\ \A t \in BOOLEAN : [Fails EXCEPT !.torn = t] \in Call
    BY <1>a, CallChanges
  <1>d. pc \in Opened \union {"close_dir"} => ni.no \in Rec
    BY DEF Types
  <1>1. CASE OpenBoth
    <2>1. /\ Found(Source) /\ pc' \in {"add", "find"} /\ dirm' = ents /\ dirty' = {}
          /\ ni' = [no |-> ents[Source].rec, rec |-> rec[ents[Source].rec]]
          /\ UNCHANGED <<rec, ents, call>>
      BY <1>1 DEF OpenBoth, disks
    <2>2. ents[Source].rec \in Rec
      BY <2>1, <1>a, <1>b, EntryParts DEF Found
    <2>3. ni' \in Inode /\ ni'.no \in Rec
      BY <2>1, <2>2, <1>a DEF Inode
    <2> QED
      BY <2>1, <2>3, <1>a, StagesOpened DEF Types
  <1>2. CASE OpenFails
    <2>1. HandlerEnds("fail", call.torn) /\ UNCHANGED <<rec, ents, ni, dirm, dirty>>
      BY <1>2 DEF OpenFails, disks, mems
    <2>2. call' \in Call /\ pc' \in {"idle", "open"}
      BY <2>1, <1>a, <1>b, EndTypes
    <2> QED
      BY <2>1, <2>2, QuietTypes
  <1>3. ASSUME NEW r \in Rec, AllocRecord(r) PROVE Types'
    <2>1. /\ rec' = [rec EXCEPT ![r] = [Blank(rec[r].seq) EXCEPT !.used = TRUE]]
          /\ ni' = [no |-> r, rec |-> [rec'[r] EXCEPT !.names[call.new] = "posix"]]
          /\ dirm' = ents /\ dirty' = {"ni"} /\ pc' = "add" /\ UNCHANGED <<ents, call>>
      BY <1>3 DEF AllocRecord
    <2>a. rec[r].seq \in Nat
      BY <1>a, WholeRecord
    <2>b. Blank(rec[r].seq) \in Record
      BY <2>a, BlankRecord
    <2>2. [Blank(rec[r].seq) EXCEPT !.used = TRUE] \in Record
      BY <2>b DEF Record
    <2>3. rec' \in [Rec -> Record] /\ rec'[r] \in Record
      BY <2>1, <2>2, <1>a
    <2>4. [rec'[r] EXCEPT !.names[call.new] = "posix"] \in Record
      BY <2>3, <1>b DEF Record, NameKind, NameSpaces
    <2>5. ni' \in Inode /\ ni'.no \in Rec
      BY <2>1, <2>4 DEF Inode
    <2> QED
      BY <2>1, <2>3, <2>5, <1>a, StagesOpened DEF Types
  <1>4. CASE AddRefused
    <2>1. pc = "add" /\ call' = Fails /\ pc' \in {"base", "close_ni"}
          /\ UNCHANGED <<rec, ents, ni, dirm, dirty>>
      BY <1>4 DEF AddRefused, disks, mems
    <2> QED
      BY <2>1, <1>c, QuietTypes, StagesOpened
  <1>5. CASE AddEntry
    <2>1. /\ PutEntry(call.new, [rec |-> ni.no, seq |-> ni.rec.seq, ns |-> "posix"])
          /\ pc = "add" /\ pc' \in {"close_ni", "name"} /\ UNCHANGED rec
          /\ ni' = ni \/ ni' = [ni EXCEPT !.rec.links = 1]
          /\ dirty' = dirty \union DirtyDir(call.new) /\ call' = [call EXCEPT !.torn = Torn]
      BY <1>5 DEF AddEntry
    <2>2. [rec |-> ni.no, seq |-> ni.rec.seq, ns |-> "posix"] \in Entry /\ ni.no \in Rec
      BY <2>1, <1>a, <1>d, NewEntry, InodeParts, StagesOpened DEF NameSpaces
    <2>3. ents' \in [Names -> Entry] /\ dirm' \in [Names -> Entry]
      BY <2>1, <2>2, <1>b, PutTypes
    <2>4. ni' \in Inode /\ ni'.no = ni.no
      <3>1. CASE ni' = ni
        BY <3>1, <1>ni
      <3>2. CASE ni' = [ni EXCEPT !.rec.links = 1]
        <4>1. SameBut(ni', ni.rec.names, 1, ni.rec.ext)
          BY <3>2, <1>ni, SetLinks
        <4> QED
          BY <4>1 DEF SameBut
      <3> QED
        BY <2>1, <3>1, <3>2
    <2>5. dirty' \subseteq {"ni", "dir"} /\ call' \in Call
      BY <2>1, <1>a, <1>b, <1>c DEF DirtyDir
    <2> QED
      BY <2>1, <2>2, <2>3, <2>4, <2>5, <1>a, StagesOpened DEF Types
  <1>6. CASE AddName
    <2>1. /\ ni' = [ni EXCEPT !.rec.names[call.new] = "posix", !.rec.links = ni.rec.links + 1]
          /\ dirty' = dirty \union {"ni"} /\ pc = "name" /\ pc' = "close_ni"
          /\ UNCHANGED <<rec, ents, dirm, call>>
      BY <1>6 DEF AddName, disks
    <2>2. ni' \in Inode /\ ni'.no = ni.no
      <3>1. ni.rec.links + 1 \in Int /\ "posix" \in NameKind
        BY <1>ni, InodeParts DEF NameKind, NameSpaces
      <3>2. SameBut(ni', [ni.rec.names EXCEPT ![call.new] = "posix"], ni.rec.links + 1, ni.rec.ext)
        BY <2>1, <3>1, <1>ni, <1>b, SetNameAndLinks
      <3> QED
        BY <3>2 DEF SameBut
    <2> QED
      BY <2>1, <2>2, <1>a, <1>d, StagesOpened DEF Types
  <1>7. CASE AddNameFails
    <2>1. pc = "name" /\ call' = Fails /\ pc' = "back" /\ UNCHANGED <<rec, ents, ni, dirm, dirty>>
      BY <1>7 DEF AddNameFails, disks, mems
    <2> QED
      BY <2>1, <1>c, QuietTypes, StagesOpened
  <1>8. CASE TakeBack
    <2>1. /\ pc = "back" /\ PutEntry(call.new, NoEntry) /\ call' = [call EXCEPT !.torn = Torn]
          /\ pc' = "close_ni" /\ UNCHANGED <<rec, ni, dirty>>
      BY <1>8 DEF TakeBack
    <2>2. ents' \in [Names -> Entry] /\ dirm' \in [Names -> Entry]
      BY <2>1, <1>b, PutTypes DEF Entry
    <2> QED
      BY <2>1, <2>2, <1>a, <1>b, <1>c, <1>d, StagesOpened DEF Types
  <1>9. CASE TakeBackFails
    <2>1. pc = "back" /\ call' = call /\ pc' = "close_ni" /\ UNCHANGED <<rec, ents, ni, dirm, dirty>>
      BY <1>9 DEF TakeBackFails, disks, mems
    <2> QED
      BY <2>1, <1>a, QuietTypes, StagesOpened
  <1>10. CASE RemoveRefused
    <2>1. pc = "find" /\ call' = Fails /\ pc' = "close_ni" /\ UNCHANGED <<rec, ents, ni, dirm, dirty>>
      BY <1>10 DEF RemoveRefused, disks, mems
    <2> QED
      BY <2>1, <1>c, QuietTypes, StagesOpened
  <1>11. CASE RemoveName
    <2>1. /\ ni' = [ni EXCEPT !.rec.names[call.victim] = "none", !.rec.links = ni.rec.links - 1]
          /\ dirty' = dirty \union {"ni"} /\ pc = "unname"
          /\ pc' \in {"find", "clusters", "close_ni"}
          /\ UNCHANGED <<rec, ents, dirm>>
          /\ call' = [call EXCEPT !.want = IF call.want = "dos" THEN "win32" ELSE call.want,
                            !.gone = call.want # "dos" /\ ni'.rec.links = 0]
      BY <1>11 DEF RemoveName, disks
    <2>2. ni' \in Inode /\ ni'.no = ni.no
      <3>1. ni.rec.links - 1 \in Int /\ "none" \in NameKind
        BY <1>ni, InodeParts DEF NameKind, NameSpaces
      <3>2. SameBut(ni', [ni.rec.names EXCEPT ![call.victim] = "none"], ni.rec.links - 1, ni.rec.ext)
        BY <2>1, <3>1, <1>ni, <1>b, SetNameAndLinks
      <3> QED
        BY <3>2 DEF SameBut
    <2>3. call' \in Call
      <3>1. \A w \in {"any"} \union NameSpaces, g \in BOOLEAN :
               [call EXCEPT !.want = w, !.gone = g] \in Call
        BY <1>a DEF Call
      <3>2. (IF call.want = "dos" THEN "win32" ELSE call.want) \in {"any"} \union NameSpaces
        BY <1>a DEF Call, NameSpaces
      <3>3. (call.want # "dos" /\ ni'.rec.links = 0) \in BOOLEAN
        OBVIOUS
      <3> QED
        BY <2>1, <3>1, <3>2, <3>3
    <2> QED
      BY <2>1, <2>2, <2>3, <1>a, <1>d, StagesOpened DEF Types
  <1>12. CASE RemoveNameFails
    <2>1. /\ ni' \in {ni, [ni EXCEPT !.rec.names[call.victim] = "none"]}
          /\ dirty' = dirty \union IF ni' = ni THEN {} ELSE {"ni"}
          /\ pc = "unname" /\ pc' = "close_ni" /\ UNCHANGED <<rec, ents, dirm>>
          /\ call' = [Fails EXCEPT !.torn = TRUE]
      BY <1>12 DEF RemoveNameFails, disks
    <2>2. ni' \in Inode /\ ni'.no = ni.no
      <3>1. "none" \in NameKind
        BY DEF NameKind
      <3>2. CASE ni' = ni
        BY <3>2, <1>ni
      <3>3. CASE ni' = [ni EXCEPT !.rec.names[call.victim] = "none"]
        <4>1. SameBut(ni', [ni.rec.names EXCEPT ![call.victim] = "none"], ni.rec.links, ni.rec.ext)
          BY <3>1, <3>3, <1>ni, <1>b, SetName
        <4> QED
          BY <4>1 DEF SameBut
      <3> QED
        BY <2>1, <3>2, <3>3
    <2>3. dirty' \subseteq {"ni", "dir"}
      BY <2>1, <1>a
    <2> QED
      BY <2>1, <2>2, <2>3, <1>a, <1>c, <1>d, StagesOpened DEF Types
  <1>13. ASSUME NEW n \in Names, RemoveEntry(n) PROVE Types'
    <2>1. /\ PutEntry(n, NoEntry) /\ ni' = Plain(n) /\ pc = "find" /\ pc' = "unname"
          /\ dirty' = dirty \union DirtyDir(n) \union IF ni' = ni THEN {} ELSE {"ni"}
          /\ call' = [call EXCEPT !.victim = n, !.torn = Torn,
                                  !.want = IF Pair(n) THEN ni.rec.names[n] ELSE call.want]
          /\ UNCHANGED rec
      BY <1>13 DEF RemoveEntry
    <2>2. ents' \in [Names -> Entry] /\ dirm' \in [Names -> Entry]
      BY <2>1, PutTypes DEF Entry
    <2>3. ni' \in Inode /\ ni'.no = ni.no
      BY <2>1, <1>a, SetPlain DEF SameBut
    <2>4. dirty' \subseteq {"ni", "dir"}
      BY <2>1, <1>a DEF DirtyDir
    <2>5. call' \in Call
      <3>1. \A w \in {"any"} \union NameSpaces, t \in BOOLEAN :
               [call EXCEPT !.victim = n, !.torn = t, !.want = w] \in Call
        BY <1>a DEF Call
      <3>2. (IF Pair(n) THEN ni.rec.names[n] ELSE call.want) \in {"any"} \union NameSpaces
        BY <1>a DEF Call, NameSpaces, Pair
      <3> QED
        BY <2>1, <3>1, <3>2, <1>b
    <2> QED
      BY <2>1, <2>2, <2>3, <2>4, <2>5, <1>a, <1>d, StagesOpened DEF Types
  <1>14. ASSUME NEW n \in Names, RemoveUnsupported(n) PROVE Types'
    <2>1. /\ PutEntry(n, [Seen(n) EXCEPT !.ns = Plain(n).rec.names[n]])
          /\ ni' = Plain(n) /\ pc = "find" /\ pc' = "close_ni" /\ MayRemove(n)
          /\ dirty' = dirty \union IF ni' = ni THEN {} ELSE {"ni"}
          /\ call' = [Fails EXCEPT !.torn = Torn] /\ UNCHANGED rec
      BY <1>14 DEF RemoveUnsupported
    <2>2. [Seen(n) EXCEPT !.ns = Plain(n).rec.names[n]] \in Entry
      <3>1. Seen(n) \in Entry /\ Seen(n) # NoEntry
        BY <2>1, SeenType DEF MayRemove
      <3>2. ni.rec.names[n] \in NameSpaces
        BY <2>1, <1>a, InodeParts DEF MayRemove, Wanted, NameSpaces
      <3>3. Plain(n).rec.names[n] \in NameSpaces
        BY <3>2, <1>a DEF Plain, Inode, Record, NameSpaces
      <3> QED
        BY <3>1, <3>3 DEF Entry
    <2>3. ents' \in [Names -> Entry] /\ dirm' \in [Names -> Entry]
      BY <2>1, <2>2, PutTypes
    <2>4. ni' \in Inode /\ ni'.no = ni.no
      BY <2>1, <1>a, SetPlain DEF SameBut
    <2>5. dirty' \subseteq {"ni", "dir"}
      BY <2>1, <1>a
    <2> QED
      BY <2>1, <2>3, <2>4, <2>5, <1>a, <1>b, <1>c, <1>d, StagesOpened DEF Types
  <1>15. ASSUME NEW n \in Names, RemoveEntryFails(n) PROVE Types'
    <2>1. /\ dirm' = [dirm EXCEPT ![n] = NoEntry] /\ ni' = Plain(n)
          /\ pc = "find" /\ pc' = "close_ni" /\ UNCHANGED <<rec, ents>>
          /\ dirty' = dirty \union {"dir"} \union IF ni' = ni THEN {} ELSE {"ni"}
          /\ call' = [Fails EXCEPT !.torn = TRUE]
      BY <1>15 DEF RemoveEntryFails, disks
    <2>2. dirm' \in [Names -> Entry]
      BY <2>1, <1>a DEF Entry
    <2>3. ni' \in Inode /\ ni'.no = ni.no
      BY <2>1, <1>a, SetPlain DEF SameBut
    <2>4. dirty' \subseteq {"ni", "dir"}
      BY <2>1, <1>a
    <2> QED
      BY <2>1, <2>2, <2>3, <2>4, <1>a, <1>c, <1>d, StagesOpened DEF Types
  <1>16. CASE FreeClusters
    <2>1. /\ ni' = [ni EXCEPT !.rec.ext = Attached] /\ pc = "clusters" /\ pc' = "exts"
          /\ call' \in {call, Fails} /\ UNCHANGED <<rec, ents, dirm, dirty>>
      BY <1>16 DEF FreeClusters
    <2>2. Attached \in SUBSET (Nat \X Nat)
      BY <1>a, InodeParts DEF Attached
    <2>s. SameBut(ni', ni.rec.names, ni.rec.links, Attached)
      BY <2>1, <2>2, <1>ni, SetExt
    <2>3. ni' \in Inode /\ ni'.no = ni.no
      BY <2>s DEF SameBut
    <2> QED
      BY <2>1, <2>3, <1>a, <1>c, <1>d, StagesOpened DEF Types
  <1>17. CASE FreeExtent
    <2>1. /\ rec' = [rec EXCEPT ![Extent[1]] = Blank(Extent[2] + 1)] /\ ni.rec.ext # {}
          /\ pc = "exts" /\ pc' = "ext_bit" /\ UNCHANGED <<ents, ni, dirm, dirty, call>>
      BY <1>17 DEF FreeExtent, mems
    <2>2. Extent \in ni.rec.ext
      BY <2>1 DEF Extent
    <2>3. Extent[2] \in Nat
      BY <2>2, <1>a, InodeParts
    <2>4. Blank(Extent[2] + 1) \in Record
      BY <2>3, NextSeq, BlankRecord
    <2>5. rec' \in [Rec -> Record]
      BY <2>1, <2>4, <1>a
    <2> QED
      BY <2>1, <2>5, <1>a, <1>d, StagesOpened DEF Types
  <1>18. CASE FreeExtentFails
    <2>1. pc \in {"exts", "ext_bit"} /\ call' = Fails /\ pc' = "exts"
          /\ UNCHANGED <<rec, ents, ni, dirm, dirty>>
      BY <1>18 DEF FreeExtentFails, disks, mems
    <2> QED
      BY <2>1, <1>c, QuietTypes, StagesOpened
  <1>19. CASE ClearExtentBit
    <2>1. /\ ni' = [ni EXCEPT !.rec.ext = ni.rec.ext \ {Extent}] /\ pc = "ext_bit" /\ pc' = "exts"
          /\ UNCHANGED <<rec, ents, dirm, dirty, call>>
      BY <1>19 DEF ClearExtentBit
    <2>2. ni.rec.ext \ {Extent} \in SUBSET (Nat \X Nat)
      BY <1>a, InodeParts
    <2>s. SameBut(ni', ni.rec.names, ni.rec.links, ni.rec.ext \ {Extent})
      BY <2>1, <2>2, <1>ni, SetExt
    <2>3. ni' \in Inode /\ ni'.no = ni.no
      BY <2>s DEF SameBut
    <2> QED
      BY <2>1, <2>3, <1>a, <1>d, StagesOpened DEF Types
  <1>20. CASE NoExtents
    <2>1. pc = "exts" /\ call' = call /\ pc' = "base" /\ UNCHANGED <<rec, ents, ni, dirm, dirty>>
      BY <1>20 DEF NoExtents, disks, mems
    <2> QED
      BY <2>1, <1>a, QuietTypes, StagesOpened
  <1>21. CASE FreeBase
    <2>1. /\ rec' = [rec EXCEPT ![ni.no] = Blank(ni.rec.seq + 1)]
          /\ pc = "base" /\ pc' = "bit" /\ UNCHANGED <<ents, ni, dirm, dirty, call>>
      BY <1>21 DEF FreeBase, mems
    <2>2. Blank(ni.rec.seq + 1) \in Record
      BY <1>a, InodeParts, NextSeq, BlankRecord
    <2>3. rec' \in [Rec -> Record]
      BY <2>1, <2>2, <1>a
    <2> QED
      BY <2>1, <2>3, <1>a, <1>d, StagesOpened DEF Types
  <1>22. CASE ClearBit
    <2>1. pc = "bit" /\ call' = call /\ pc' = "close_dir" /\ UNCHANGED <<rec, ents, ni, dirm, dirty>>
      BY <1>22 DEF ClearBit, mems
    <2> QED
      BY <2>1, <1>a, QuietTypes, StagesOpened
  <1>23. CASE FreeBaseFails
    <2>1. pc \in {"base", "bit"} /\ call' = Fails /\ pc' = "close_dir"
          /\ UNCHANGED <<rec, ents, ni, dirm, dirty>>
      BY <1>23 DEF FreeBaseFails, disks, mems
    <2> QED
      BY <2>1, <1>c, QuietTypes, StagesOpened
  <1>24. CASE CloseFile
    <2>1. /\ rec' = rec \/ rec' = [rec EXCEPT ![ni.no] = ni.rec]
          /\ call' = call \/ call' = [call EXCEPT !.torn = TRUE]
          /\ pc = "close_ni" /\ pc' = "close_dir" /\ UNCHANGED <<ents, ni, dirm, dirty>>
      BY <1>24 DEF CloseFile, mems
    <2>2. rec' \in [Rec -> Record]
      BY <2>1, <1>a, InodeParts
    <2> QED
      BY <2>1, <2>2, <1>a, <1>c, <1>d, StagesOpened DEF Types
  <1>25. CASE CloseDir
    <2>1. /\ \/ ents' = [n \in Names |-> IF "dir" \in dirty /\ DirOf[n] = DirOf[Target]
                                          THEN dirm[n] ELSE ents[n]]
             \/ ents' = ents
          /\ HandlerEnds(call.res, call.torn) \/ HandlerEnds(call.res, TRUE)
          /\ ni' = NoInode /\ dirm' = NoEntries /\ dirty' = {} /\ UNCHANGED rec
      BY <1>25 DEF CloseDir, Released
    <2>2. call' \in Call /\ pc' \in {"idle", "open"}
      BY <2>1, <1>a, <1>b, EndTypes
    <2>3. ents' \in [Names -> Entry]
      BY <2>1, <1>a
    <2> QED
      BY <2>1, <2>2, <2>3, <1>a, BlankRecord, StagesOpened DEF Types
  <1> QED
    BY <1>1, <1>2, <1>3, <1>4, <1>5, <1>6, <1>7, <1>8, <1>9, <1>10, <1>11, <1>12, <1>13, <1>14,
       <1>15, <1>16, <1>17, <1>18, <1>19, <1>20, <1>21, <1>22, <1>23, <1>24, <1>25 DEF Step

(* A write to the file gives its record a cluster and changes nothing else *)
(* of it.                                                                  *)
LEMMA Grown ==
    ASSUME Types, NEW r \in Rec, NEW c \in Cluster, Grow(r, c)
    PROVE  /\ rec' \in [Rec -> Record] /\ pc = "idle" /\ pc' = "idle" /\ call' = NoCall
           /\ UNCHANGED <<big, ents, mftbmp, ni, dirm, dirty, scars>>
           /\ \A q \in Rec :
                 /\ rec'[q].used = rec[q].used /\ rec'[q].seq = rec[q].seq
                 /\ rec'[q].names = rec[q].names /\ rec'[q].links = rec[q].links
                 /\ rec'[q].full = rec[q].full /\ rec'[q].ext = rec[q].ext
  <1>1. /\ rec' = [rec EXCEPT ![r].map = @ \union {c}] /\ pc = "idle" /\ pc' = "idle"
        /\ call' = NoCall /\ UNCHANGED <<big, ents, mftbmp, ni, dirm, dirty, scars>>
    BY DEF Grow, mems, ghosts
  <1>2. rec \in [Rec -> Record]
    BY DEF Types
  <1>3. rec[r] \in Record
    BY <1>2
  <1>4. /\ [rec[r] EXCEPT !.map = @ \union {c}] \in Record
        /\ LET m == [rec[r] EXCEPT !.map = @ \union {c}] IN
              /\ m.used = rec[r].used /\ m.seq = rec[r].seq /\ m.names = rec[r].names
              /\ m.links = rec[r].links /\ m.full = rec[r].full /\ m.ext = rec[r].ext
    BY <1>3 DEF Record
  <1> DEFINE m == [rec[r] EXCEPT !.map = @ \union {c}]
  <1>5. rec' = [rec EXCEPT ![r] = m]
    BY <1>1
  <1>6. /\ m \in Record
        /\ m.used = rec[r].used /\ m.seq = rec[r].seq /\ m.names = rec[r].names
        /\ m.links = rec[r].links /\ m.full = rec[r].full /\ m.ext = rec[r].ext
    BY <1>4
  <1> HIDE DEF m
  <1> QED
    BY <1>1, <1>2, <1>5, <1>6

LEMMA NextTypes == Types /\ [Next]_vars => Types'
  <1> SUFFICES ASSUME Types, [Next]_vars PROVE Types'
    OBVIOUS
  <1>a. \A n \in UserNames : n \in Names
    BY DEF UserNames
  <1>1. ASSUME NEW n \in UserNames, Create(n) PROVE Types'
    BY <1>1, <1>a, StartTypes DEF Create
  <1>2. ASSUME NEW o \in Names, NEW n \in UserNames, Link(o, n) PROVE Types'
    BY <1>2, <1>a, StartTypes DEF Link
  <1>3. ASSUME NEW o \in Names, NEW n \in UserNames, Rename(o, n) PROVE Types'
    BY <1>3, <1>a, StartTypes DEF Rename
  <1>4. ASSUME NEW n \in Names, Unlink(n) PROVE Types'
    BY <1>4, StartTypes DEF Unlink
  <1>5. ASSUME NEW r \in Rec, NEW c \in Cluster, Grow(r, c) PROVE Types'
    BY <1>5, Grown, FirstCall, StagesOpened DEF Types
  <1>6. CASE Step
    BY <1>6, StepTypes
  <1>7. CASE Crash
    BY <1>7, FirstCall, BlankRecord, StagesOpened DEF Crash, disks, Released, Types
  <1>8. CASE UNCHANGED vars
    BY <1>8 DEF vars, disks, mems, Types
  <1> QED
    BY <1>1, <1>2, <1>3, <1>4, <1>5, <1>6, <1>7, <1>8 DEF Next
-----------------------------------------------------------------------------
LEMMA InitFull == Init => OneFull /\ FullIsKnown
  <1> SUFFICES ASSUME Init PROVE OneFull /\ FullIsKnown
    OBVIOUS
  <1>1. \A r \in Rec : Numbers(r, rec[r])
    BY DEF Init, Numbers, Blank
  <1>2. ni = NoInode /\ pc = "idle"
    BY DEF Init
  <1> QED
    BY <1>1, <1>2, BlankRecord, StagesOpened DEF OneFull, Numbers, FullIsKnown

(* What keeps the invariant when neither the records nor the open inode    *)
(* change.                                                                 *)
LEMMA QuietFull ==
    ASSUME OneFull, FullIsKnown, UNCHANGED <<rec, ni>>,
           \/ pc' \in {"idle", "open", "close_dir", "bit"}
           \/ /\ pc \in Naming /\ pc' \in Naming \ {"add", "unname"}
           \/ /\ pc \in Freeing /\ pc # "bit" /\ pc' \in Freeing
    PROVE  OneFull' /\ FullIsKnown'
  <1>1. OneFull'
    BY DEF OneFull
  <1> QED
    BY <1>1, StagesOpened DEF FullIsKnown, Naming, Freeing

LEMMA StepFull ==
    ASSUME Types, OneFull, FullIsKnown, Step
    PROVE  OneFull' /\ FullIsKnown'
  <1>ni. ni \in Inode /\ rec \in [Rec -> Record] /\ call \in Call
    BY DEF Types
  <1>b. call.new \in Names /\ call.victim \in Names /\ ni.rec.links \in Int
    BY <1>ni, CallParts, InodeParts
  <1>n. pc \in Opened => ni.no \in Rec
    BY DEF Types
  <1>1. CASE OpenBoth
    <2>1. /\ Found(Source) /\ pc' \in {"add", "find"} /\ call.phase # "create"
          /\ ni' = [no |-> ents[Source].rec, rec |-> rec[ents[Source].rec]]
          /\ UNCHANGED <<rec, call>>
      BY <1>1 DEF OpenBoth, disks
    <2>2. ents[Source].rec \in Rec /\ rec[ents[Source].rec].used
      BY <2>1, <1>ni, CallParts, EntryParts DEF Found, Types
    <2>3. OneFull'
      BY <2>1, <2>2 DEF OneFull, Numbers
    <2>4. FullIsKnown'
      BY <2>1, <2>2 DEF FullIsKnown, Opened, Naming, Freeing
    <2> QED
      BY <2>3, <2>4
  <1>2. CASE OpenFails
    <2>1. HandlerEnds("fail", call.torn) /\ UNCHANGED <<rec, ni>>
      BY <1>2 DEF OpenFails, disks, mems
    <2>2. pc' \in {"idle", "open"}
      BY <2>1 DEF HandlerEnds
    <2> QED
      BY <2>1, <2>2, QuietFull
  <1>3. ASSUME NEW r \in Rec, AllocRecord(r) PROVE OneFull' /\ FullIsKnown'
    <2>1. /\ rec' = [rec EXCEPT ![r] = [Blank(rec[r].seq) EXCEPT !.used = TRUE]]
          /\ ni' = [no |-> r, rec |-> [rec'[r] EXCEPT !.names[call.new] = "posix"]]
          /\ pc' = "add"
      BY <1>3 DEF AllocRecord
    <2>2. /\ rec'[r].used /\ ~rec'[r].full /\ rec'[r].ext = {}
          /\ \A q \in Rec : q # r => rec'[q] = rec[q]
      BY <2>1, <1>ni DEF Blank
    <2>3. /\ ni'.no = r /\ ni'.rec.used = rec'[r].used /\ ni'.rec.full = rec'[r].full
          /\ ni'.rec.ext = rec'[r].ext
      <3>1. rec'[r] = [Blank(rec[r].seq) EXCEPT !.used = TRUE]
        BY <2>1, <1>ni
      <3> QED
        BY <2>1, <3>1 DEF Blank
    <2>4. OneFull'
      BY <2>2, <2>3 DEF OneFull, Numbers
    <2>5. FullIsKnown'
      BY <2>1, <2>2, <2>3 DEF FullIsKnown, Opened, Naming, Freeing
    <2> QED
      BY <2>4, <2>5
  <1>4. CASE AddRefused
    <2>1. /\ pc = "add" /\ pc' = IF call.phase = "create" THEN "base" ELSE "close_ni"
          /\ UNCHANGED <<rec, ni>>
      BY <1>4 DEF AddRefused, disks, mems
    <2>2. OneFull'
      BY <2>1 DEF OneFull
    <2>3. FullIsKnown'
      BY <2>1, StagesOpened DEF FullIsKnown, Freeing
    <2> QED
      BY <2>2, <2>3
  <1>5. CASE AddEntry
    <2>1. /\ ni' = ni \/ ni' = [ni EXCEPT !.rec.links = 1]
          /\ pc = "add" /\ pc' \in {"close_ni", "name"} /\ UNCHANGED rec
      BY <1>5 DEF AddEntry
    <2>2. /\ ni'.no = ni.no /\ ni'.rec.used = ni.rec.used /\ ni'.rec.full = ni.rec.full
          /\ ni'.rec.ext = ni.rec.ext
      <3>1. CASE ni' = [ni EXCEPT !.rec.links = 1]
        <4>1. SameBut(ni', ni.rec.names, 1, ni.rec.ext)
          BY <3>1, <1>ni, SetLinks
        <4> QED
          BY <4>1 DEF SameBut
      <3> QED
        BY <2>1, <3>1
    <2>3. OneFull'
      BY <2>1, <2>2 DEF OneFull, Numbers
    <2>4. FullIsKnown'
      BY <2>1, <2>2, StagesOpened DEF FullIsKnown, Freeing
    <2> QED
      BY <2>3, <2>4
  <1>6. CASE AddName
    <2>1. /\ ni' = [ni EXCEPT !.rec.names[call.new] = "posix", !.rec.links = ni.rec.links + 1]
          /\ pc = "name" /\ pc' = "close_ni" /\ UNCHANGED rec
      BY <1>6 DEF AddName, disks
    <2>2. SameBut(ni', [ni.rec.names EXCEPT ![call.new] = "posix"], ni.rec.links + 1, ni.rec.ext)
      <3>1. ni.rec.links + 1 \in Int /\ "posix" \in NameKind
        BY <1>b DEF NameKind, NameSpaces
      <3> QED
        BY <2>1, <3>1, <1>ni, <1>b, SetNameAndLinks
    <2>3. OneFull'
      BY <2>1, <2>2 DEF SameBut, OneFull, Numbers
    <2>4. FullIsKnown'
      BY <2>1, <2>2, StagesOpened DEF SameBut, FullIsKnown, Freeing
    <2> QED
      BY <2>3, <2>4
  <1>7. CASE AddNameFails \/ TakeBack \/ TakeBackFails \/ RemoveRefused
    <2>1. pc \in Naming /\ pc' \in {"back", "close_ni"} /\ UNCHANGED <<rec, ni>>
      BY <1>7 DEF AddNameFails, TakeBack, TakeBackFails, RemoveRefused, disks, mems, Naming
    <2>2. pc' \in Naming \ {"add", "unname"}
      BY <2>1 DEF Naming
    <2> QED
      BY <2>1, <2>2, QuietFull
  <1>8. CASE RemoveName
    <2>1. /\ ni' = [ni EXCEPT !.rec.names[call.victim] = "none", !.rec.links = ni.rec.links - 1]
          /\ pc = "unname" /\ UNCHANGED rec
          /\ pc' \in {"find", "clusters", "close_ni"}
          /\ pc' = "clusters" => ni'.rec.links = 0
      BY <1>8 DEF RemoveName, disks
    <2>2. SameBut(ni', [ni.rec.names EXCEPT ![call.victim] = "none"], ni.rec.links - 1, ni.rec.ext)
      <3>1. ni.rec.links - 1 \in Int /\ "none" \in NameKind
        BY <1>b DEF NameKind
      <3> QED
        BY <2>1, <3>1, <1>ni, <1>b, SetNameAndLinks
    <2>3. OneFull'
      BY <2>1, <2>2 DEF SameBut, OneFull, Numbers
    <2>4. pc' = "clusters" => ni.rec.links = 1
      <3>1. pc' = "clusters" => ni.rec.links - 1 = 0
        BY <2>1, <2>2 DEF SameBut
      <3> QED
        BY <3>1, <1>b
    <2>5. FullIsKnown'
      BY <2>1, <2>2, <2>4, StagesOpened DEF SameBut, FullIsKnown, Opened, Naming, Freeing
    <2> QED
      BY <2>3, <2>5
  <1>9. CASE RemoveNameFails
    <2>1. /\ ni' \in {ni, [ni EXCEPT !.rec.names[call.victim] = "none"]}
          /\ pc = "unname" /\ pc' = "close_ni" /\ UNCHANGED rec
      BY <1>9 DEF RemoveNameFails, disks
    <2>2. /\ ni'.no = ni.no /\ ni'.rec.used = ni.rec.used /\ ni'.rec.full = ni.rec.full
          /\ ni'.rec.ext = ni.rec.ext
      <3>1. CASE ni' = [ni EXCEPT !.rec.names[call.victim] = "none"]
        <4>1. SameBut(ni', [ni.rec.names EXCEPT ![call.victim] = "none"], ni.rec.links, ni.rec.ext)
          BY <3>1, <1>ni, <1>b, SetName DEF NameKind
        <4> QED
          BY <4>1 DEF SameBut
      <3> QED
        BY <2>1, <3>1
    <2>3. OneFull'
      BY <2>1, <2>2 DEF OneFull, Numbers
    <2>4. FullIsKnown'
      BY <2>1, <2>2, StagesOpened DEF FullIsKnown, Opened, Naming, Freeing
    <2> QED
      BY <2>3, <2>4
  <1>10. ASSUME NEW n \in Names, RemoveEntry(n) \/ RemoveUnsupported(n) \/ RemoveEntryFails(n)
         PROVE  OneFull' /\ FullIsKnown'
    <2>1. /\ ni' = Plain(n) /\ pc = "find" /\ pc' \in {"unname", "close_ni"} /\ MayRemove(n)
          /\ UNCHANGED rec
      BY <1>10 DEF RemoveEntry, RemoveUnsupported, RemoveEntryFails, disks
    <2>2. SameBut(ni', ni'.rec.names, ni.rec.links, ni.rec.ext)
      BY <2>1, <1>ni, SetPlain
    <2>3. OneFull'
      BY <2>1, <2>2 DEF SameBut, OneFull, Numbers
    <2>4. ni.rec.full => ni.rec.links # 1
      BY <2>1 DEF MayRemove, LastOfDirectory
    <2>5. FullIsKnown'
      BY <2>1, <2>2, <2>4, StagesOpened DEF SameBut, FullIsKnown, Opened, Naming, Freeing
    <2> QED
      BY <2>3, <2>5
  <1>11. CASE FreeClusters
    <2>1. /\ ni' = [ni EXCEPT !.rec.ext = Attached] /\ pc = "clusters" /\ pc' = "exts"
          /\ UNCHANGED rec
      BY <1>11 DEF FreeClusters
    <2>2. Attached \in SUBSET (Nat \X Nat) /\ Attached \subseteq ni.rec.ext
      BY <1>ni, InodeParts DEF Attached
    <2>3. SameBut(ni', ni.rec.names, ni.rec.links, Attached)
      BY <2>1, <2>2, <1>ni, SetExt
    <2>4. OneFull'
      BY <2>1, <2>2, <2>3 DEF SameBut, OneFull, Numbers
    <2>5. FullIsKnown'
      BY <2>1, <2>3, StagesOpened DEF SameBut, FullIsKnown, Opened, Naming, Freeing
    <2> QED
      BY <2>4, <2>5
  <1>12. CASE FreeExtent
    <2>1. /\ rec' = [rec EXCEPT ![Extent[1]] = Blank(Extent[2] + 1)] /\ ni.rec.ext # {}
          /\ pc = "exts" /\ pc' = "ext_bit" /\ UNCHANGED ni
      BY <1>12 DEF FreeExtent, mems
    <2>2. /\ \A q \in Rec : rec'[q] = rec[q] \/ (~rec'[q].full /\ rec'[q].ext = {})
      BY <2>1, <1>ni DEF Blank
    <2>3. OneFull'
      BY <2>1, <2>2 DEF OneFull, Numbers
    <2>4. FullIsKnown'
      BY <2>1, <2>2, <1>n, StagesOpened DEF FullIsKnown, Opened, Naming, Freeing
    <2> QED
      BY <2>3, <2>4
  <1>13. CASE ClearExtentBit
    <2>1. /\ ni' = [ni EXCEPT !.rec.ext = ni.rec.ext \ {Extent}] /\ pc = "ext_bit" /\ pc' = "exts"
          /\ UNCHANGED rec
      BY <1>13 DEF ClearExtentBit
    <2>2. ni.rec.ext \ {Extent} \in SUBSET (Nat \X Nat)
      BY <1>ni, InodeParts
    <2>3. SameBut(ni', ni.rec.names, ni.rec.links, ni.rec.ext \ {Extent})
      BY <2>1, <2>2, <1>ni, SetExt
    <2>4. OneFull'
      BY <2>1, <2>3 DEF SameBut, OneFull, Numbers
    <2>5. FullIsKnown'
      BY <2>1, <2>3, StagesOpened DEF SameBut, FullIsKnown, Opened, Naming, Freeing
    <2> QED
      BY <2>4, <2>5
  <1>14. CASE FreeExtentFails \/ NoExtents \/ ClearBit \/ FreeBaseFails
    <2>1. UNCHANGED <<rec, ni>>
      BY <1>14 DEF FreeExtentFails, NoExtents, ClearBit, FreeBaseFails, disks, mems
    <2>2. \/ pc' = "close_dir"
          \/ (pc \in Freeing /\ pc # "bit" /\ pc' \in Freeing)
      BY <1>14 DEF FreeExtentFails, NoExtents, ClearBit, FreeBaseFails, Freeing
    <2> QED
      BY <2>1, <2>2, QuietFull
  <1>15. CASE FreeBase
    <2>1. /\ rec' = [rec EXCEPT ![ni.no] = Blank(ni.rec.seq + 1)]
          /\ pc = "base" /\ pc' = "bit" /\ UNCHANGED ni
      BY <1>15 DEF FreeBase, mems
    <2>2. /\ \A q \in Rec : rec'[q] = rec[q] \/ (~rec'[q].full /\ rec'[q].ext = {})
      BY <2>1, <1>ni DEF Blank
    <2>3. OneFull'
      BY <2>1, <2>2 DEF OneFull, Numbers
    <2>4. FullIsKnown'
      BY <2>1, StagesOpened DEF FullIsKnown, Opened, Naming, Freeing
    <2> QED
      BY <2>3, <2>4
  <1>16. CASE CloseFile
    <2>1. /\ rec' = rec \/ rec' = [rec EXCEPT ![ni.no] = ni.rec]
          /\ UNCHANGED ni
      BY <1>16 DEF CloseFile, mems
    <2>2. \A q \in Rec : rec'[q] = rec[q] \/ (q = ni.no /\ rec'[q] = ni.rec)
      BY <2>1, <1>ni
    <2>3. OneFull'
      BY <2>1, <2>2 DEF OneFull
    <2>4. pc' = "close_dir"
      BY <1>16 DEF CloseFile
    <2>5. FullIsKnown'
      BY <2>4, StagesOpened DEF FullIsKnown
    <2> QED
      BY <2>3, <2>5
  <1>17. CASE CloseDir
    <2>1. /\ HandlerEnds(call.res, call.torn) \/ HandlerEnds(call.res, TRUE)
          /\ ni' = NoInode /\ UNCHANGED rec
      BY <1>17 DEF CloseDir, Released
    <2>2. pc' \in {"idle", "open"}
      BY <2>1 DEF HandlerEnds
    <2>3. OneFull'
      BY <2>1, BlankRecord DEF OneFull, Numbers
    <2>4. FullIsKnown'
      BY <2>2, StagesOpened DEF FullIsKnown
    <2> QED
      BY <2>3, <2>4
  <1> QED
    BY <1>1, <1>2, <1>3, <1>4, <1>5, <1>6, <1>7, <1>8, <1>9, <1>10, <1>11, <1>12, <1>13, <1>14,
       <1>15, <1>16, <1>17 DEF Step

LEMMA NextFull == Types /\ OneFull /\ FullIsKnown /\ [Next]_vars => OneFull' /\ FullIsKnown'
  <1> SUFFICES ASSUME Types, OneFull, FullIsKnown, [Next]_vars PROVE OneFull' /\ FullIsKnown'
    OBVIOUS
  <1>1. ASSUME NEW n \in UserNames, NEW o \in Names,
               Create(n) \/ Link(o, n) \/ Rename(o, n) \/ Unlink(o)
        PROVE  OneFull' /\ FullIsKnown'
    <2>1. pc' = "open" /\ UNCHANGED <<rec, ni>>
      BY <1>1 DEF Create, Link, Rename, Unlink, Start, disks, mems
    <2> QED
      BY <2>1, QuietFull
  <1>2. ASSUME NEW r \in Rec, NEW c \in Cluster, Grow(r, c) PROVE OneFull' /\ FullIsKnown'
    <2>1. /\ pc' = "idle" /\ ni' = ni
          /\ \A q \in Rec : rec'[q].full = rec[q].full /\ rec'[q].ext = rec[q].ext
      BY <1>2, Grown
    <2>2. OneFull'
      BY <2>1 DEF OneFull, Numbers
    <2>3. FullIsKnown'
      BY <2>1, StagesOpened DEF FullIsKnown
    <2> QED
      BY <2>2, <2>3
  <1>3. CASE Step
    BY <1>3, StepFull
  <1>4. CASE Crash
    <2>1. pc' = "idle" /\ ni' = NoInode /\ rec' = rec
      BY <1>4 DEF Crash, disks, Released
    <2>2. OneFull'
      BY <2>1, BlankRecord DEF OneFull, Numbers
    <2>3. FullIsKnown'
      BY <2>1, StagesOpened DEF FullIsKnown
    <2> QED
      BY <2>2, <2>3
  <1>5. CASE UNCHANGED vars
    BY <1>5 DEF vars, disks, mems, OneFull, FullIsKnown
  <1>6. \E n \in UserNames : TRUE
    BY Constants, DirAssumption DEF UserNames
  <1> QED
    BY <1>1, <1>2, <1>3, <1>4, <1>5, <1>6, Constants DEF Next

(* No step frees the record of a directory with something in it.           *)
LEMMA FullStay ==
    ASSUME Types, OneFull, FullIsKnown, [Next]_vars
    PROVE  \A r \in Rec : rec[r].used /\ rec[r].full => rec'[r].used
  <1> SUFFICES ASSUME NEW r \in Rec, rec[r].used, rec[r].full PROVE rec'[r].used
    OBVIOUS
  <1>a. rec \in [Rec -> Record] /\ (pc \in Opened => ni.no \in Rec)
    BY DEF Types
  <1>1. CASE UNCHANGED rec
    BY <1>1
  <1>2. ASSUME NEW q \in Rec, AllocRecord(q) PROVE rec'[r].used
    <2>1. rec' = [rec EXCEPT ![q] = [Blank(rec[q].seq) EXCEPT !.used = TRUE]]
      BY <1>2 DEF AllocRecord
    <2> QED
      BY <2>1, <1>a DEF Blank
  <1>3. CASE FreeExtent
    <2>1. rec' = [rec EXCEPT ![Extent[1]] = Blank(Extent[2] + 1)] /\ ni.rec.ext # {}
      BY <1>3 DEF FreeExtent
    <2>2. Extent \in ni.rec.ext
      BY <2>1 DEF Extent
    <2>3. Extent[1] = 2 /\ r = 1
      BY <2>2 DEF OneFull, Numbers
    <2> QED
      BY <2>1, <2>3, <1>a
  <1>4. CASE FreeBase
    <2>1. rec' = [rec EXCEPT ![ni.no] = Blank(ni.rec.seq + 1)] /\ pc = "base"
      BY <1>4 DEF FreeBase
    <2>2. ~rec[ni.no].full
      BY <2>1 DEF FullIsKnown, Opened, Freeing
    <2> QED
      BY <2>1, <2>2, <1>a
  <1>5. CASE CloseFile
    <2>1. /\ rec' = rec \/ rec' = [rec EXCEPT ![ni.no] = ni.rec]
          /\ pc = "close_ni"
      BY <1>5 DEF CloseFile
    <2>2. ni.rec.used
      BY <2>1 DEF FullIsKnown, Opened, Naming, Freeing
    <2> QED
      BY <2>1, <2>2, <1>a
  <1>6. ASSUME NEW q \in Rec, NEW c \in Cluster, Grow(q, c) PROVE rec'[r].used
    BY <1>6, Grown
  <1>7. CASE Step
    <2>1. UNCHANGED rec \/ (\E q \in Rec : AllocRecord(q))
          \/ FreeExtent \/ FreeBase \/ CloseFile
      BY <1>7 DEF Step, OpenBoth, OpenFails, AddRefused, AddEntry, AddName, AddNameFails, TakeBack,
           TakeBackFails, RemoveRefused, RemoveName, RemoveNameFails, RemoveEntry,
           RemoveUnsupported, RemoveEntryFails, FreeClusters, FreeExtentFails, ClearExtentBit,
           NoExtents, ClearBit, FreeBaseFails, CloseDir, disks
    <2> QED
      BY <2>1, <1>1, <1>2, <1>3, <1>4, <1>5
  <1>8. UNCHANGED rec \/ Step \/ (\E q \in Rec, c \in Cluster : Grow(q, c))
    BY DEF Next, Create, Link, Rename, Unlink, Start, Crash, vars, disks
  <1> QED
    BY <1>1, <1>6, <1>7, <1>8

(* A directory with something in it keeps its record, whatever the calls   *)
(* are, and whatever fails or stops in between: ntfs_delete refuses the    *)
(* last name of one before it removes the entry.                           *)
THEOREM NoFullDirectoryIsFreed == Spec => FullDirectoriesStay
  <1>1. Init => FullInv
    BY InitTypes, InitFull DEF FullInv
  <1>2. FullInv /\ [Next]_vars => FullInv'
    BY NextTypes, NextFull DEF FullInv
  <1>3. FullInv /\ [Next]_vars => [\A r \in Rec : rec[r].used /\ rec[r].full => rec'[r].used]_vars
    BY FullStay DEF FullInv
  <1> QED
    BY <1>1, <1>2, <1>3, PTL DEF Spec, FullDirectoriesStay
-----------------------------------------------------------------------------
(* What the agreement of names is kept by: changes to other parts of the   *)
(* records, and the end of records without names ...                       *)
LEMMA NoNamesNoCount == Named(NoName) = {} /\ Cardinality(Named(NoName)) = 0
  <1>1. Named(NoName) = {}
    BY BlankRecord DEF Named
  <1> QED
    BY <1>1, FS_EmptySet

LEMMA AgreeLike ==
    ASSUME NEW R, NEW S, NEW E \in [Names -> Entry], Agree(R, E),
           \A r \in Rec :
              \/ /\ S[r].used = R[r].used /\ S[r].seq = R[r].seq
                 /\ S[r].names = R[r].names /\ S[r].links = R[r].links
              \/ R[r].names = NoName /\ S[r].names = NoName /\ S[r].links = 0
    PROVE  Agree(S, E)
  <1>1. ASSUME NEW n \in Names, E[n] # NoEntry PROVE EntryAgrees(S, E[n], n)
    <2>1. E[n].rec \in Rec /\ E[n].ns # "none"
      BY <1>1, EntryParts DEF NameSpaces
    <2>2. EntryAgrees(R, E[n], n)
      BY <1>1 DEF Agree
    <2>3. R[E[n].rec].names # NoName
      BY <2>1, <2>2, BlankRecord DEF EntryAgrees
    <2> QED
      BY <2>1, <2>2, <2>3 DEF EntryAgrees
  <1>2. ASSUME NEW r \in Rec PROVE RecordAgrees(E, S[r], r)
    <2>1. CASE S[r].names = R[r].names /\ S[r].links = R[r].links
      BY <2>1 DEF Agree, RecordAgrees
    <2>2. CASE S[r].names = NoName /\ S[r].links = 0
      BY <2>2, BlankRecord, NoNamesNoCount DEF RecordAgrees
    <2> QED
      BY <2>1, <2>2
  <1> QED
    BY <1>1, <1>2 DEF Agree

(* One record and one entry change, those of a name: the FILE_NAME and the *)
(* entry come, or go, or become plain.                                     *)
Changes(R, S, D, E, n, q) ==
    /\ E \in [Names -> Entry] /\ n \in Names /\ q \in Rec
    /\ R[q].names \in [Names -> NameKind]
    /\ \A m \in Names : m # n => D[m] = E[m]
    /\ \A r \in Rec : r # q => S[r] = R[r]
    /\ S[q].used = R[q].used /\ S[q].seq = R[q].seq
    /\ \A m \in Names : m # n => S[q].names[m] = R[q].names[m]
AddsName(R, S, D, E, n, q) ==
    /\ Changes(R, S, D, E, n, q) /\ Agree(R, D) /\ D[n] = NoEntry
    /\ R[q].used /\ E[n].rec = q /\ E[n].seq = R[q].seq /\ E[n].ns = "posix"
    /\ S[q].names[n] = "posix" /\ S[q].links = R[q].links + 1
RemovesName(R, S, D, E, n, q) ==
    /\ Changes(R, S, D, E, n, q) /\ Agree(R, E) /\ D[n] = NoEntry
    /\ R[q].names[n] # "none" /\ S[q].names[n] = "none" /\ S[q].links = R[q].links - 1
MakesPlain(R, S, D, E, n, q) ==
    /\ Changes(R, S, D, E, n, q) /\ Agree(R, E) /\ R[q].names[n] # "none"
    /\ D[n].rec = E[n].rec /\ D[n].seq = E[n].seq /\ D[n].ns = S[q].names[n]
    /\ S[q].names[n] = IF R[q].names[n] = "win32" THEN "posix" ELSE R[q].names[n]
    /\ S[q].links = R[q].links

(* ... a name with its entry, ...                                          *)
LEMMA AgreeAdd ==
    ASSUME NEW R, NEW S, NEW D, NEW E, NEW n, NEW q, AddsName(R, S, D, E, n, q)
    PROVE  Agree(S, E)
  <1>0. /\ E \in [Names -> Entry] /\ n \in Names /\ q \in Rec
        /\ R[q].names \in [Names -> NameKind]
        /\ R[q].used /\ E[n].rec = q /\ E[n].seq = R[q].seq /\ E[n].ns = "posix"
        /\ \A r \in Rec : r # q => S[r] = R[r]
        /\ S[q].used = R[q].used /\ S[q].seq = R[q].seq /\ S[q].links = R[q].links + 1
        /\ S[q].names[n] = "posix"
        /\ \A m \in Names : m # n => S[q].names[m] = R[q].names[m]
    BY DEF AddsName, Changes
  <1>a. D[n] = NoEntry /\ \A m \in Names : m # n => D[m] = E[m]
    BY DEF AddsName, Changes
  <1>b. Agree(R, D)
    BY DEF AddsName
  <1>c. 0 \notin Rec
    BY <1>0, Constants
  <1>d. R[q].names[n] = "none"
    BY <1>0, <1>a, <1>b, <1>c DEF Agree, RecordAgrees, NoEntry
  <1>1. ASSUME NEW m \in Names, E[m] # NoEntry PROVE EntryAgrees(S, E[m], m)
    <2>1. CASE m = n
      <3>1. E[n].rec = q /\ E[n].seq = R[q].seq /\ E[n].ns = "posix"
        BY <1>0
      <3>2. S[q].names[n] = "posix"
        BY <1>0
      <3>3. S[q].used /\ S[q].seq = R[q].seq
        BY <1>0
      <3> QED
        BY <1>0, <2>1, <3>1, <3>2, <3>3 DEF EntryAgrees
    <2>2. CASE m # n
      <3>1. EntryAgrees(R, E[m], m) /\ E[m].rec \in Rec
        BY <1>0, <1>1, <2>2, <1>a, <1>b, EntryParts DEF Agree
      <3> QED
        BY <1>0, <3>1, <2>2 DEF EntryAgrees
    <2> QED
      BY <1>0, <2>1, <2>2
  <1>2. ASSUME NEW r \in Rec, r # q PROVE RecordAgrees(E, S[r], r)
    <2>1. RecordAgrees(D, S[r], r)
      BY <1>0, <1>2, <1>b DEF Agree
    <2>2. S[r].names[n] = "none"
      BY <1>0, <2>1, <1>a, <1>c DEF RecordAgrees, NoEntry
    <2> QED
      BY <1>0, <2>1, <2>2, <1>a DEF RecordAgrees
  <1>3. RecordAgrees(E, S[q], q)
    <2>1. RecordAgrees(D, R[q], q)
      BY <1>0, <1>b DEF Agree
    <2>2. \A m \in Names : S[q].names[m] # "none" => E[m].rec = q
      BY <1>0, <2>1, <1>a DEF RecordAgrees
    <2>3. \A m \in Names : /\ S[q].names[m] = "win32" => m = Long
                           /\ S[q].names[m] = "dos" => m = Short
      BY <1>0, <2>1 DEF RecordAgrees
    <2>4. S[q].links = Cardinality(Named(S[q].names))
      <3>1. Named(S[q].names) = Named(R[q].names) \union {n}
        BY <1>0 DEF Named
      <3>2. n \notin Named(R[q].names)
        BY <1>0, <1>d DEF Named
      <3>3. IsFiniteSet(Named(R[q].names))
        BY <1>0, Constants, FS_Subset DEF Named
      <3>4. Cardinality(Named(R[q].names) \union {n}) = Cardinality(Named(R[q].names)) + 1
        BY <1>0, <3>2, <3>3, FS_AddElement
      <3> QED
        BY <1>0, <3>1, <3>4, <2>1 DEF RecordAgrees
    <2> QED
      BY <1>0, <2>2, <2>3, <2>4 DEF RecordAgrees
  <1> QED
    BY <1>0, <1>1, <1>2, <1>3 DEF Agree

(* ... its removal, ...                                                    *)
LEMMA AgreeRemove ==
    ASSUME NEW R, NEW S, NEW D, NEW E, NEW n, NEW q, RemovesName(R, S, D, E, n, q)
    PROVE  Agree(S, D)
  <1>0. /\ E \in [Names -> Entry] /\ n \in Names /\ q \in Rec /\ Agree(R, E)
        /\ R[q].names \in [Names -> NameKind] /\ R[q].names[n] # "none"
        /\ \A r \in Rec : r # q => S[r] = R[r]
        /\ S[q].used = R[q].used /\ S[q].seq = R[q].seq /\ S[q].links = R[q].links - 1
        /\ S[q].names[n] = "none"
        /\ \A m \in Names : m # n => S[q].names[m] = R[q].names[m]
    BY DEF RemovesName, Changes
  <1>a. D[n] = NoEntry /\ \A m \in Names : m # n => D[m] = E[m]
    BY DEF RemovesName, Changes
  <1>b. E[n].rec = q
    BY <1>0 DEF Agree, RecordAgrees
  <1>1. ASSUME NEW m \in Names, D[m] # NoEntry PROVE EntryAgrees(S, D[m], m)
    <2>1. m # n /\ D[m] = E[m] /\ E[m] # NoEntry
      BY <1>0, <1>1, <1>a
    <2>2. EntryAgrees(R, E[m], m) /\ E[m].rec \in Rec
      BY <1>0, <2>1, EntryParts DEF Agree
    <2> QED
      BY <1>0, <2>1, <2>2 DEF EntryAgrees
  <1>2. ASSUME NEW r \in Rec, r # q PROVE RecordAgrees(D, S[r], r)
    <2>1. RecordAgrees(E, S[r], r)
      BY <1>0, <1>2 DEF Agree
    <2>2. S[r].names[n] = "none"
      BY <1>0, <2>1, <1>2, <1>b DEF RecordAgrees
    <2> QED
      BY <1>0, <2>1, <2>2, <1>a DEF RecordAgrees
  <1>3. RecordAgrees(D, S[q], q)
    <2>1. RecordAgrees(E, R[q], q)
      BY <1>0 DEF Agree
    <2>2. \A m \in Names : S[q].names[m] # "none" => D[m].rec = q
      BY <1>0, <2>1, <1>a DEF RecordAgrees
    <2>3. \A m \in Names : /\ S[q].names[m] = "win32" => m = Long
                           /\ S[q].names[m] = "dos" => m = Short
      BY <1>0, <2>1 DEF RecordAgrees
    <2>4. S[q].links = Cardinality(Named(S[q].names))
      <3>1. Named(S[q].names) = Named(R[q].names) \ {n}
        BY <1>0 DEF Named
      <3>2. n \in Named(R[q].names)
        BY <1>0 DEF Named
      <3>3. IsFiniteSet(Named(R[q].names))
        BY <1>0, Constants, FS_Subset DEF Named
      <3>4. Cardinality(Named(S[q].names)) = Cardinality(Named(R[q].names)) - 1
        BY <1>0, <3>1, <3>2, <3>3, FS_RemoveElement
      <3> QED
        BY <1>0, <3>4, <2>1 DEF RecordAgrees
    <2> QED
      BY <1>0, <2>2, <2>3, <2>4 DEF RecordAgrees
  <1> QED
    BY <1>0, <1>1, <1>2, <1>3 DEF Agree

(* ... and a WIN32 name that becomes a POSIX name with its entry.          *)
LEMMA AgreePlain ==
    ASSUME NEW R, NEW S, NEW D, NEW E, NEW n, NEW q, MakesPlain(R, S, D, E, n, q)
    PROVE  Agree(S, D)
  <1>0. /\ E \in [Names -> Entry] /\ n \in Names /\ q \in Rec /\ Agree(R, E)
        /\ R[q].names \in [Names -> NameKind] /\ R[q].names[n] # "none"
        /\ \A r \in Rec : r # q => S[r] = R[r]
        /\ S[q].used = R[q].used /\ S[q].seq = R[q].seq /\ S[q].links = R[q].links
        /\ S[q].names[n] = IF R[q].names[n] = "win32" THEN "posix" ELSE R[q].names[n]
        /\ \A m \in Names : m # n => S[q].names[m] = R[q].names[m]
    BY DEF MakesPlain, Changes
  <1>b. E[n].rec = q
    BY <1>0 DEF Agree, RecordAgrees
  <1>c. 0 \notin Rec
    BY <1>0, Constants
  <1>d. E[n] # NoEntry
    BY <1>0, <1>b, <1>c DEF NoEntry
  <1>a. /\ D[n].rec = q /\ D[n].seq = E[n].seq /\ D[n].ns = S[q].names[n]
        /\ \A m \in Names : m # n => D[m] = E[m]
    BY <1>b DEF MakesPlain, Changes
  <1>1. ASSUME NEW m \in Names, D[m] # NoEntry PROVE EntryAgrees(S, D[m], m)
    <2>1. CASE m = n
      <3>1. EntryAgrees(R, E[n], n)
        BY <1>0, <1>d DEF Agree
      <3> QED
        BY <1>0, <2>1, <3>1, <1>a, <1>b DEF EntryAgrees
    <2>2. CASE m # n
      <3>1. D[m] = E[m] /\ EntryAgrees(R, E[m], m) /\ E[m].rec \in Rec
        BY <1>0, <1>1, <2>2, <1>a, EntryParts DEF Agree
      <3> QED
        BY <1>0, <3>1, <2>2 DEF EntryAgrees
    <2> QED
      BY <1>0, <2>1, <2>2
  <1>2. ASSUME NEW r \in Rec, r # q PROVE RecordAgrees(D, S[r], r)
    <2>1. RecordAgrees(E, S[r], r)
      BY <1>0, <1>2 DEF Agree
    <2>2. S[r].names[n] = "none"
      BY <1>0, <2>1, <1>2, <1>b DEF RecordAgrees
    <2> QED
      BY <1>0, <2>1, <2>2, <1>a DEF RecordAgrees
  <1>3. RecordAgrees(D, S[q], q)
    <2>1. RecordAgrees(E, R[q], q)
      BY <1>0 DEF Agree
    <2>2. \A m \in Names : S[q].names[m] # "none" => D[m].rec = q
      BY <1>0, <2>1, <1>a DEF RecordAgrees
    <2>3. \A m \in Names : /\ S[q].names[m] = "win32" => m = Long
                           /\ S[q].names[m] = "dos" => m = Short
      BY <1>0, <2>1 DEF RecordAgrees
    <2>4. Named(S[q].names) = Named(R[q].names)
      BY <1>0 DEF Named
    <2> QED
      BY <1>0, <2>1, <2>2, <2>3, <2>4 DEF RecordAgrees
  <1> QED
    BY <1>0, <1>1, <1>2, <1>3 DEF Agree
-----------------------------------------------------------------------------
LEMMA ScarsStay == [Next]_vars /\ scars' = {} => scars = {}
  <1> SUFFICES ASSUME [Next]_vars, scars' = {} PROVE scars = {}
    OBVIOUS
  <1>1. \A n \in Names, e \in Entry : PutEntry(n, e) => scars = {}
    BY DEF PutEntry
  <1>2. CASE Step
    BY <1>2 DEF Step, OpenBoth, OpenFails, AllocRecord, AddRefused, AddEntry, AddName,
       AddNameFails, TakeBack, TakeBackFails, RemoveRefused, RemoveName, RemoveNameFails,
       RemoveEntry, RemoveUnsupported, RemoveEntryFails, FreeClusters, FreeExtent,
       FreeExtentFails, ClearExtentBit, NoExtents, FreeBase, ClearBit, FreeBaseFails, CloseFile,
       CloseDir, PutEntry, ghosts
  <1>3. UNCHANGED scars \/ Step \/ Crash
    BY DEF Next, Create, Link, Rename, Unlink, Start, Grow, vars, ghosts
  <1> QED
    BY <1>2, <1>3 DEF Crash

LEMMA ViewType == ASSUME Types PROVE View \in [Names -> Entry]
  BY SeenType DEF View

LEMMA ViewIs ==
    \A n \in Names : View[n] = Seen(n) /\ Seen(n) = IF Big(n) THEN ents[n] ELSE dirm[n]
  BY DEF View, Seen

(* An entry that is put is what the call sees, and nothing else changes.   *)
LEMMA PutView ==
    ASSUME Types, NEW n \in Names, NEW e, PutEntry(n, e), UNCHANGED big, scars' = {}
    PROVE  /\ View' = [View EXCEPT ![n] = e]
           /\ \A m \in Names : m # n => ents'[m] = ents[m] /\ dirm'[m] = dirm[m]
           /\ Big(n) => UNCHANGED dirm
           /\ ~Big(n) => UNCHANGED ents
           /\ UNCHANGED scars
  <1>a. ents \in [Names -> Entry] /\ dirm \in [Names -> Entry] /\ DirOf \in [Names -> Dirs]
    BY DirAssumption DEF Types
  <1>1. \/ ~Big(n) /\ dirm' = [dirm EXCEPT ![n] = e] /\ UNCHANGED <<ents, scars>>
        \/ Big(n) /\ ents' = [ents EXCEPT ![n] = e] /\ UNCHANGED <<dirm, scars>>
    BY DEF PutEntry
  <1>2. \A m \in Names : Big(m)' = Big(m)
    BY DEF Big
  <1>3. \A m \in Names : Seen(m)' = IF m = n THEN e ELSE Seen(m)
    <2>1. CASE ~Big(n) /\ dirm' = [dirm EXCEPT ![n] = e] /\ UNCHANGED <<ents, scars>>
      BY <2>1, <1>2, <1>a DEF Seen
    <2>2. CASE Big(n) /\ ents' = [ents EXCEPT ![n] = e] /\ UNCHANGED <<dirm, scars>>
      BY <2>2, <1>2, <1>a DEF Seen
    <2> QED
      BY <1>1, <2>1, <2>2
  <1>4. View' = [View EXCEPT ![n] = e]
    <2>1. View' = [m \in Names |-> Seen(m)']
      BY DEF View
    <2>2. View' = [m \in Names |-> IF m = n THEN e ELSE Seen(m)]
      BY <2>1, <1>3
    <2> QED
      BY <2>2 DEF View
  <1> QED
    BY <1>1, <1>4, <1>a

LEMMA ViewUnchanged == UNCHANGED <<big, ents, dirm>> => View' = View
  BY DEF View, Seen, Big

LEMMA InitSound == Init => Sound
  <1> SUFFICES ASSUME Init PROVE Sound
    OBVIOUS
  <1>t. Types
    BY InitTypes
  <1>0. /\ ni = NoInode /\ dirm = NoEntries /\ dirty = {} /\ pc = "idle" /\ call = NoCall
    BY DEF Init
  <1>1. PICK links \in InitLinks, kind \in {"file", "large_file", "full_dir"} :
          LET ext == IF kind = "large_file" THEN {2} ELSE {}
              map == IF kind = "large_file" THEN Cluster ELSE {} IN
          /\ rec = [r \in Rec |->
                    IF r = 1 THEN [used |-> TRUE, seq |-> 1, names |-> links,
                                   links |-> Cardinality(Named(links)), full |-> kind = "full_dir",
                                   ext |-> {<<e, 1>> : e \in ext}, map |-> map]
                    ELSE [Blank(1) EXCEPT !.used = r \in ext]]
          /\ ents = [n \in Names |-> IF links[n] = "none" THEN NoEntry
                                   ELSE [rec |-> 1, seq |-> 1, ns |-> links[n]]]
          /\ mftbmp = {1} \union ext
    BY DEF Init
  <1> DEFINE ext == IF kind = "large_file" THEN {2} ELSE {}
  <1>2. /\ rec[1].used /\ rec[1].seq = 1 /\ rec[1].names = links
        /\ rec[1].links = Cardinality(Named(links)) /\ rec[1].ext = {<<e, 1>> : e \in ext}
    BY <1>1, Constants
  <1>3. \A r \in Rec : r # 1 =>
          /\ rec[r].used = (r \in ext) /\ rec[r].seq = 1 /\ rec[r].names = NoName
          /\ rec[r].links = 0 /\ rec[r].ext = {}
    BY <1>1, Constants DEF Blank
  <1>4. links \in [Names -> NameKind]
    BY DirAssumption DEF NameKind
  <1>5. Extents
    <2>1. \A x \in rec[1].ext : x = <<2, 1>> /\ 2 \in ext
      BY <1>2
    <2>2. \A r \in Rec : rec[r].seq >= 1
      BY <1>2, <1>3
    <2>3. 2 \in ext => IsExtent(<<2, 1>>)
      <3>1. 2 \in Rec /\ 2 # 1 /\ pc \notin Naming
        BY <1>0, Constants DEF Naming
      <3> HIDE DEF ext
      <3>a. rec[2].used = (2 \in ext) /\ rec[2].names = NoName /\ rec[2].links = 0
        BY <1>3, <3>1
      <3>2. 2 \in ext => rec[2].used /\ rec[2].names = NoName /\ rec[2].links = 0
        BY <3>a
      <3> QED
        BY <3>1, <3>2 DEF IsExtent
    <2>4. \A r \in Rec : \A x \in rec[r].ext : IsExtent(x)
      BY <1>3, <2>1, <2>3
    <2> QED
      BY <1>0, <2>2, <2>4, BlankRecord, StagesOpened DEF Extents
  <1>6. Bits
    BY <1>0, <1>1, <1>3, StagesOpened DEF Bits
  <1>7. Dirties
    BY <1>0, StagesOpened DEF Dirties, NoCall
  <1>8. Agree(rec, ents)
    <2>1. ents = [n \in Names |-> IF links[n] = "none" THEN NoEntry
                                   ELSE [rec |-> 1, seq |-> 1, ns |-> links[n]]]
      BY <1>1
    <2>2. ASSUME NEW n \in Names, ents[n] # NoEntry PROVE EntryAgrees(rec, ents[n], n)
      <3>1. ents[n] = [rec |-> 1, seq |-> 1, ns |-> links[n]]
        BY <2>1, <2>2
      <3>2. ents[n].rec = 1 /\ ents[n].seq = 1 /\ ents[n].ns = links[n]
        BY <3>1
      <3> QED
        BY <1>2, <3>2 DEF EntryAgrees
    <2>3. RecordAgrees(ents, rec[1], 1)
      <3>1. \A n \in Names : links[n] # "none" => ents[n].rec = 1
        BY <2>1
      <3>2. \A n \in Names : /\ links[n] = "win32" => n = Long
                             /\ links[n] = "dos" => n = Short
        BY DirAssumption
      <3> QED
        BY <1>2, <3>1, <3>2 DEF RecordAgrees
    <2>4. ASSUME NEW r \in Rec, r # 1 PROVE RecordAgrees(ents, rec[r], r)
      BY <1>3, <2>4, BlankRecord, NoNamesNoCount DEF RecordAgrees
    <2> QED
      BY <2>2, <2>3, <2>4 DEF Agree
  <1>9. Stages
    BY <1>0, <1>8, StagesOpened DEF Stages
  <1> QED
    BY <1>5, <1>6, <1>7, <1>9 DEF Sound
-----------------------------------------------------------------------------
(* The invariants between one stage and the next when the inodes and the   *)
(* disk stay as they are.                                                  *)
SameTarget == Target' = Target /\ call'.want = call.want
Quiet == UNCHANGED <<big, rec, ents, mftbmp, ni, dirm, dirty>> /\ SameTarget

LEMMA QuietSound ==
    ASSUME Types, Extents, Bits, Dirties, Quiet,
           \/ pc \in Naming /\ pc' \in Naming \ {"find", "unname"}
           \/ pc \in Naming /\ pc' = "base"
           \/ pc \in {"exts", "ext_bit"} /\ pc' \in {"exts", "base"}
           \/ pc \in Opened /\ pc' = "close_dir"
    PROVE  Extents' /\ Bits' /\ Dirties' /\ View' = View
  <1>1. UNCHANGED <<big, rec, ents, mftbmp, ni, dirm, dirty>> /\ Target' = Target
        /\ call'.want = call.want
    BY DEF Quiet, SameTarget
  <1>2. Extents'
    BY <1>1 DEF Extents, IsExtent, Opened, Naming, Freeing
  <1>3. Bits'
    BY <1>1 DEF Bits, Naming, Opened, Freeing
  <1>4. Dirties'
    BY <1>1 DEF Dirties, Big, Opened, Naming, Freeing
  <1>5. View' = View
    BY <1>1, ViewUnchanged
  <1> QED
    BY <1>2, <1>3, <1>4, <1>5

LEMMA SameCall ==
    ASSUME call \in Call, \/ call' = call \/ call' = Fails
                          \/ \E t \in BOOLEAN : call' = [call EXCEPT !.torn = t]
                          \/ \E t \in BOOLEAN : call' = [Fails EXCEPT !.torn = t]
    PROVE  /\ SameTarget /\ call'.new = call.new /\ call'.phase = call.phase
           /\ call'.victim = call.victim
  <1>1. /\ call'.new = call.new /\ call'.old = call.old /\ call'.phase = call.phase
        /\ call'.want = call.want /\ call'.victim = call.victim
    BY DEF Call, Fails
  <1> QED
    BY <1>1 DEF SameTarget, Target

LEMMA WithIs ==
    ASSUME Types, pc \in Opened
    PROVE  /\ ni.no \in Rec
           /\ \A r : With(r)[ni.no] = r /\ \A q \in Rec : q # ni.no => With(r)[q] = rec[q]
           /\ With(rec[ni.no]) = rec
  BY DEF Types, With

(* A call starts, opens, and makes a record.                               *)
LEMMA StartSound ==
    ASSUME Types, Sound, NEW op, NEW phase, NEW old \in Names, NEW new \in Names,
           Start(op, phase, old, new)
    PROVE  Sound'
  <1>1. /\ pc = "idle" /\ pc' = "open" /\ UNCHANGED <<big, rec, ents, mftbmp, ni, dirm, dirty>>
    BY DEF Start, disks, mems
  <1>2. call'.want = "any"
    BY DEF Start, NoCall
  <1>3. Extents'
    BY <1>1 DEF Sound, Extents, IsExtent, Opened, Naming, Freeing
  <1>4. Bits'
    BY <1>1 DEF Sound, Bits, Naming, Freeing
  <1>5. Dirties'
    BY <1>1, <1>2, StagesOpened DEF Sound, Dirties
  <1>6. Stages'
    BY <1>1, StagesOpened DEF Sound, Stages
  <1> QED
    BY <1>3, <1>4, <1>5, <1>6 DEF Sound

LEMMA GrowSound ==
    ASSUME Types, Sound, NEW r \in Rec, NEW c \in Cluster, Grow(r, c)
    PROVE  Sound'
  <1>1. /\ pc = "idle" /\ pc' = "idle" /\ call' = NoCall
        /\ UNCHANGED <<big, ents, mftbmp, ni, dirm, dirty>>
        /\ \A q \in Rec :
              /\ rec'[q].used = rec[q].used /\ rec'[q].seq = rec[q].seq
              /\ rec'[q].names = rec[q].names /\ rec'[q].links = rec[q].links
              /\ rec'[q].ext = rec[q].ext
    BY Grown
  <1>2. Extents'
    BY <1>1, Constants DEF Sound, Extents, IsExtent, Opened, Naming, Freeing
  <1>3. Bits'
    BY <1>1, StagesOpened DEF Sound, Bits
  <1>4. Dirties'
    BY <1>1, StagesOpened DEF Sound, Dirties, NoCall
  <1>5. Agree(rec', ents)
    <2>1. Agree(rec, ents) /\ ents \in [Names -> Entry]
      BY <1>1 DEF Sound, Stages, Types
    <2> QED
      BY <1>1, <2>1, AgreeLike
  <1>6. Stages'
    BY <1>1, <1>5, StagesOpened DEF Stages
  <1> QED
    BY <1>2, <1>3, <1>4, <1>6 DEF Sound

LEMMA OpenBothSound ==
    ASSUME Types, Sound, OpenBoth
    PROVE  Sound'
  <1>1. /\ Found(Source) /\ pc = "open" /\ call.phase # "create"
        /\ pc' = IF call.phase = "link" THEN "add" ELSE "find"
        /\ ni' = [no |-> ents[Source].rec, rec |-> rec[ents[Source].rec]]
        /\ dirm' = ents /\ dirty' = {}
        /\ UNCHANGED <<big, rec, ents, mftbmp, call>>
    BY DEF OpenBoth, disks
  <1>a. rec \in [Rec -> Record] /\ ents \in [Names -> Entry] /\ call \in Call
    BY DEF Types
  <1>b. Source \in Names
    BY <1>a, CallParts
  <1>2. Agree(rec, ents) /\ dirty = {} /\ call.want = "any"
    BY <1>1 DEF Sound, Stages, Dirties
  <1>3. /\ ents[Source] # NoEntry /\ ni'.no \in Rec /\ ni'.rec = rec[ni'.no] /\ ni'.rec.used
        /\ ni'.no = ents[Source].rec /\ pc' \in Naming /\ pc' \in {"add", "find"}
    BY <1>1, <1>a, <1>b, EntryParts DEF Found, Naming
  <1>4. rec[ni'.no].names # NoName
    <2>1. EntryAgrees(rec, ents[Source], Source)
      BY <1>2, <1>3, <1>b DEF Agree
    <2> QED
      BY <2>1, <1>a, <1>b, <1>3, EntryParts, BlankRecord DEF EntryAgrees, NameSpaces
  <1>5. Extents'
    <2>1. \A r \in Rec : rec[r].seq >= 1 /\ \A x \in rec[r].ext : IsExtent(x)
      BY DEF Sound, Extents
    <2>2. \A x : IsExtent(x) => IsExtent(x)'
      BY <1>1, <1>3, <1>4 DEF IsExtent
    <2>3. pc' # "ext_bit" /\ pc' \notin {"exts", "ext_bit"}
      BY <1>3
    <2> QED
      BY <1>1, <1>3, <2>1, <2>2, <2>3 DEF Extents
  <1>6. Bits'
    BY <1>1, <1>3, StagesOpened DEF Sound, Bits
  <1>7. Dirties'
    BY <1>1, <1>2, <1>3, StagesOpened DEF Dirties
  <1>8. View' = ents /\ With(rec[ni.no])' = rec
    <2>1. View' = ents
      BY <1>1, <1>a DEF View, Seen
    <2>2. With(rec[ni.no])' = [rec EXCEPT ![ni'.no] = rec[ni'.no]]
      BY <1>1 DEF With
    <2> QED
      BY <2>1, <2>2, <1>3, <1>a
  <1>9. Stages'
    <2>1. pc' = "add" => Adding'
      BY <1>1, <1>2, <1>3, <1>8 DEF Adding
    <2>2. pc' = "find" => Agree(With(ni.rec), View)'
      <3>1. With(ni.rec)' = rec
        BY <1>1, <1>3, <1>8 DEF With
      <3> QED
        BY <3>1, <1>2, <1>8
    <2> QED
      BY <1>3, <2>1, <2>2, StagesOpened DEF Stages
  <1> QED
    BY <1>5, <1>6, <1>7, <1>9 DEF Sound

LEMMA AllocSound ==
    ASSUME Types, Sound, NEW r \in Rec, AllocRecord(r)
    PROVE  Sound'
  <1>1. /\ pc = "open" /\ call.phase = "create" /\ r \notin mftbmp /\ pc' = "add"
        /\ mftbmp' = mftbmp \union {r}
        /\ rec' = [rec EXCEPT ![r] = [Blank(rec[r].seq) EXCEPT !.used = TRUE]]
        /\ ni' = [no |-> r, rec |-> [rec'[r] EXCEPT !.names[call.new] = "posix"]]
        /\ dirm' = ents /\ dirty' = {"ni"}
        /\ UNCHANGED <<big, ents, call>>
    BY DEF AllocRecord
  <1>a. /\ rec \in [Rec -> Record] /\ ents \in [Names -> Entry] /\ call \in Call
        /\ rec[r].seq \in Nat /\ call.new \in Names
    BY CallParts, WholeRecord DEF Types
  <1>2. Agree(rec, ents) /\ dirty = {} /\ call.want = "any"
    BY <1>1 DEF Sound, Stages, Dirties
  <1>3. ~rec[r].used /\ rec[r].seq >= 1
    BY <1>1 DEF Sound, Bits, Extents
  <1>4. /\ rec'[r].used /\ rec'[r].seq = rec[r].seq /\ rec'[r].names = NoName
        /\ rec'[r].links = 0 /\ rec'[r].ext = {}
        /\ \A q \in Rec : q # r => rec'[q] = rec[q]
    BY <1>1, <1>a DEF Blank
  <1>5. /\ ni'.no = r /\ ni'.rec.used /\ ni'.rec.seq = rec[r].seq /\ ni'.rec.ext = {}
        /\ ni'.rec = [rec'[r] EXCEPT !.names[call.new] = "posix"]
    <2>1. rec'[r] \in [used : BOOLEAN, seq : Nat, names : {NoName}, links : {0},
                       full : BOOLEAN, ext : {{}}, map : {{}}]
      BY <1>1, <1>a DEF Blank
    <2> QED
      BY <1>1, <1>4, <2>1
  <1>6. Extents'
    <2>1. \A q \in Rec : \A x \in rec'[q].ext : IsExtent(x)
      BY <1>4 DEF Sound, Extents
    <2>2. \A x : IsExtent(x) => IsExtent(x)'
      <3>1. CASE r = 2
        BY <3>1, <1>1, <1>3, <1>4, <1>5 DEF IsExtent
      <3>2. CASE r # 2
        BY <3>2, <1>1, <1>4, <1>5, Constants DEF IsExtent
      <3> QED
        BY <3>1, <3>2
    <2>3. \A q \in Rec : rec'[q].seq >= 1
      BY <1>3, <1>4 DEF Sound, Extents
    <2> QED
      BY <1>1, <1>3, <1>5, <2>1, <2>2, <2>3 DEF Extents
  <1>7. Bits'
    BY <1>1, <1>4, <1>5 DEF Sound, Bits
  <1>8. Dirties'
    <2>1. "add" \notin {"idle", "open", "find", "unname"}
      OBVIOUS
    <2> QED
      BY <1>1, <2>1 DEF Dirties
  <1>9. Agree(rec', ents)
    <2>1. \A q \in Rec :
              \/ /\ rec'[q].used = rec[q].used /\ rec'[q].seq = rec[q].seq
                 /\ rec'[q].names = rec[q].names /\ rec'[q].links = rec[q].links
              \/ rec[q].names = NoName /\ rec'[q].names = NoName /\ rec'[q].links = 0
      <3>1. rec[r].names = NoName
        <4>1. \A n \in Names : rec[r].names[n] # "none" => ents[n].rec = r
          BY <1>2 DEF Agree, RecordAgrees
        <4>2. \A n \in Names : rec[r].names[n] = "none"
          <5> SUFFICES ASSUME NEW n \in Names, rec[r].names[n] # "none" PROVE FALSE
            OBVIOUS
          <5>1. ents[n].rec = r
            BY <4>1
          <5>2. ents[n] # NoEntry
            BY <5>1, Constants DEF NoEntry
          <5>3. EntryAgrees(rec, ents[n], n)
            BY <5>2, <1>2 DEF Agree
          <5> QED
            BY <5>1, <5>3, <1>3 DEF EntryAgrees
        <4>3. rec[r].names \in [Names -> NameKind]
          BY <1>a, WholeRecord
        <4> QED
          BY <4>2, <4>3 DEF NoName
      <3> QED
        BY <3>1, <1>4
    <2> QED
      BY <2>1, <1>a, <1>2, AgreeLike
  <1>10. View' = ents
    BY <1>1, <1>a DEF View, Seen
  <1>11. Adding'
    BY <1>1, <1>4, <1>5, <1>9, <1>10 DEF Adding
  <1>12. Stages'
    BY <1>1, <1>11, StagesOpened DEF Stages, Freeing
  <1> QED
    BY <1>6, <1>7, <1>8, <1>12 DEF Sound

LEMMA OpenFailsSound ==
    ASSUME Types, Sound, OpenFails
    PROVE  Sound'
  <1>1. HandlerEnds("fail", call.torn) /\ pc = "open"
        /\ UNCHANGED <<big, rec, ents, mftbmp, ni, dirm, dirty>>
    BY DEF OpenFails, disks, mems
  <1>2. pc' \in {"idle", "open"} /\ call'.want = "any"
    BY <1>1 DEF HandlerEnds, Types, Call
  <1>3. Extents'
    BY <1>1, <1>2 DEF Sound, Extents, IsExtent, Opened, Naming, Freeing
  <1>4. Bits'
    BY <1>1, <1>2, StagesOpened DEF Sound, Bits
  <1>5. Dirties'
    BY <1>1, <1>2, StagesOpened DEF Sound, Dirties
  <1>6. Stages'
    BY <1>1, <1>2, StagesOpened DEF Sound, Stages
  <1> QED
    BY <1>3, <1>4, <1>5, <1>6 DEF Sound
-----------------------------------------------------------------------------
(* A name is added.                                                        *)
LEMMA AddRefusedSound ==
    ASSUME Types, Sound, AddRefused
    PROVE  Sound'
  <1>1. /\ pc = "add" /\ call' = Fails
        /\ pc' = IF call.phase = "create" THEN "base" ELSE "close_ni"
        /\ UNCHANGED <<big, rec, ents, mftbmp, ni, dirm, dirty>>
    BY DEF AddRefused, disks, mems
  <1>2. Quiet /\ pc \in Naming /\ pc' \in {"base", "close_ni"}
    BY <1>1, SameCall DEF Quiet, Types, Naming
  <1>3. Extents' /\ Bits' /\ Dirties' /\ View' = View
    BY <1>2, QuietSound DEF Sound, Naming
  <1>4. Adding /\ View \in [Names -> Entry]
    BY <1>1, ViewType DEF Sound, Stages
  <1>w. /\ ni.no \in Rec
        /\ \A r : With(r)[ni.no] = r /\ \A q \in Rec : q # ni.no => With(r)[q] = rec[q]
        /\ With(rec[ni.no]) = rec
    BY <1>2, WithIs, StagesOpened
  <1>5. \A r : With(r)' = With(r)
    BY <1>1 DEF With
  <1>6. CASE call.phase = "create"
    <2>1. Agree(rec, View) /\ rec[ni.no].names = NoName
      BY <1>4, <1>6 DEF Adding
    <2>2. Agree(With(Blank(0)), View)
      BY <1>w, <1>4, <2>1, AgreeLike, BlankRecord
    <2>3. pc' = "base"
      BY <1>1, <1>6
    <2> QED
      BY <1>3, <1>5, <2>2, <2>3, StagesOpened DEF Sound, Stages, Naming
  <1>7. CASE call.phase # "create"
    <2>1. Agree(rec, View) /\ ni.rec = rec[ni.no]
      BY <1>4, <1>7 DEF Adding
    <2>2. Agree(With(ni.rec), View)
      BY <1>w, <2>1
    <2>3. pc' = "close_ni" /\ ni' = ni
      BY <1>1, <1>7
    <2> QED
      BY <1>3, <1>5, <2>2, <2>3, StagesOpened DEF Sound, Stages, Freeing
  <1> QED
    BY <1>6, <1>7

LEMMA AddEntrySound ==
    ASSUME Types, Sound, AddEntry, scars' = {}
    PROVE  Sound'
  <1> DEFINE e == [rec |-> ni.no, seq |-> ni.rec.seq, ns |-> "posix"]
  <1>1. /\ pc = "add" /\ Seen(call.new) = NoEntry /\ PutEntry(call.new, e)
        /\ dirty' = dirty \union DirtyDir(call.new) /\ call' = [call EXCEPT !.torn = Torn]
        /\ call.phase = "create" => ni' = [ni EXCEPT !.rec.links = 1] /\ pc' = "close_ni"
        /\ call.phase # "create" => ni' = ni /\ pc' = "name"
        /\ UNCHANGED <<big, rec, mftbmp>>
    BY DEF AddEntry
  <1>a. /\ rec \in [Rec -> Record] /\ ni \in Inode /\ call \in Call /\ call.new \in Names
        /\ Torn \in BOOLEAN
    BY CallParts DEF Types
  <1>b. SameTarget /\ call'.new = call.new /\ call'.phase = call.phase
    BY <1>1, <1>a, SameCall
  <1>c. Adding /\ View \in [Names -> Entry] /\ pc \in Naming /\ pc' \in {"close_ni", "name"}
    BY <1>1, ViewType DEF Sound, Stages, Naming
  <1>w. /\ ni.no \in Rec
        /\ \A r : With(r)[ni.no] = r /\ \A q \in Rec : q # ni.no => With(r)[q] = rec[q]
        /\ With(rec[ni.no]) = rec
    BY <1>c, WithIs, StagesOpened
  <1>v. /\ View' = [View EXCEPT ![call.new] = e] /\ View[call.new] = NoEntry
        /\ \A m \in Names : m # call.new => ents'[m] = ents[m] /\ dirm'[m] = dirm[m]
        /\ Big(call.new) => UNCHANGED dirm
        /\ ~Big(call.new) => UNCHANGED ents
    BY <1>1, <1>a, PutView, ViewIs
  <1>2. /\ ni' \in Inode /\ ni'.no = ni.no /\ ni'.rec.used = ni.rec.used
        /\ ni'.rec.seq = ni.rec.seq /\ ni'.rec.ext = ni.rec.ext /\ ni'.rec.names = ni.rec.names
        /\ call.phase = "create" => ni'.rec.links = 1
    <2>1. CASE call.phase = "create"
      <3>1. SameBut(ni', ni.rec.names, 1, ni.rec.ext)
        BY <2>1, <1>1, <1>a, SetLinks
      <3> QED
        BY <3>1 DEF SameBut
    <2>2. CASE call.phase # "create"
      BY <2>2, <1>1, <1>a
    <2> QED
      BY <2>1, <2>2
  <1>t. Target = call.new /\ Target' = call.new
    BY <1>b, <1>c DEF SameTarget, Target, Adding
  <1>3. Extents'
    BY <1>1, <1>2, <1>c, StagesOpened DEF Sound, Extents, IsExtent
  <1>4. Bits'
    BY <1>1, <1>2, <1>c DEF Sound, Bits
  <1>5. Dirties'
    <2>1. "ni" \notin dirty' => ni' = ni /\ ni.rec = rec[ni.no]
      BY <1>1, <1>c DEF Adding
    <2>2. "dir" \in dirty' => DirOf[Target] \notin big
      BY <1>1, <1>t DEF Sound, Dirties, DirtyDir, Big
    <2>3. ASSUME NEW n \in Names, ~Big(n), dirm'[n] # ents'[n]
          PROVE  "dir" \in dirty' /\ DirOf[n] = DirOf[Target]
      <3>1. CASE n = call.new
        BY <3>1, <2>3, <1>1, <1>t DEF DirtyDir
      <3>2. CASE n # call.new
        BY <3>2, <2>3, <1>1, <1>c, <1>v, StagesOpened DEF Sound, Dirties
      <3> QED
        BY <3>1, <3>2
    <2>4. \A n : Big(n)' = Big(n)
      BY <1>1 DEF Big
    <2>5. pc' \notin {"idle", "open", "find", "unname"}
      BY <1>c
    <2> QED
      BY <2>1, <2>2, <2>3, <2>4, <2>5, <1>1, <1>b, <1>t DEF Dirties
  <1>6. rec[ni.no].used /\ ni.rec.seq = rec[ni.no].seq /\ rec[ni.no].names \in [Names -> NameKind]
    BY <1>c, <1>a, <1>w, WholeRecord DEF Sound, Bits
  <1>7. [View' EXCEPT ![call.new] = NoEntry] = View /\ View' \in [Names -> Entry]
    <2>1. e \in Entry
      BY <1>a, <1>w, NewEntry, InodeParts DEF NameSpaces
    <2> HIDE DEF e
    <2> QED
      BY <2>1, <1>v, <1>c, <1>a
  <1>8. CASE call.phase = "create"
    <2>1. /\ Agree(rec, View) /\ rec[ni.no].names = NoName /\ rec[ni.no].links = 0
          /\ ni.rec = [rec[ni.no] EXCEPT !.names[call.new] = "posix"]
      BY <1>8, <1>c DEF Adding
    <2> DEFINE S == With(ni.rec)'
    <2>2. /\ S[ni.no] = ni'.rec /\ \A q \in Rec : q # ni.no => S[q] = rec[q]
      BY <1>1, <1>2, <1>w, <1>a DEF With
    <2>3. ni.rec.names = [rec[ni.no].names EXCEPT ![call.new] = "posix"]
          /\ ni.rec.used = rec[ni.no].used
      BY <2>1, <1>a, <1>w DEF Record
    <2>4. /\ View'[call.new].rec = ni.no /\ View'[call.new].seq = rec[ni.no].seq
          /\ View'[call.new].ns = "posix"
      BY <1>v, <1>c, <1>a, <1>6
    <2>5. /\ View[call.new] = NoEntry /\ \A m \in Names : m # call.new => View[m] = View'[m]
          /\ ni.no \in Rec
      BY <1>v, <1>c, <1>w
    <2>6. /\ S[ni.no].used = rec[ni.no].used /\ S[ni.no].seq = rec[ni.no].seq
          /\ S[ni.no].names[call.new] = "posix"
          /\ \A m \in Names : m # call.new => S[ni.no].names[m] = rec[ni.no].names[m]
          /\ S[ni.no].links = rec[ni.no].links + 1
      BY <2>1, <2>2, <2>3, <1>2, <1>6, <1>8, <1>a
    <2> HIDE DEF S
    <2>7. Agree(S, View')
      <3>1. AddsName(rec, S, View, View', call.new, ni.no)
        BY <2>1, <2>2, <2>4, <2>5, <2>6, <1>6, <1>7, <1>a DEF AddsName, Changes
      <3> QED
        BY <3>1, AgreeAdd
    <2>8. Agree(With(ni.rec), View)'
      BY <2>7 DEF S
    <2>9. pc' = "close_ni"
      BY <1>1, <1>8
    <2> QED
      BY <2>8, <2>9, <1>3, <1>4, <1>5, StagesOpened DEF Sound, Stages, Freeing
  <1>9. CASE call.phase # "create"
    <2>1. Agree(rec, View) /\ ni.rec = rec[ni.no] /\ call.phase = "link"
      BY <1>9, <1>c DEF Adding
    <2>2. View'[call.new] = e
      BY <1>v, <1>c, <1>a
    <2>3. ~Big(call.new) => "dir" \in dirty'
      BY <1>1 DEF DirtyDir
    <2>6. /\ ni' = ni /\ rec' = rec /\ call'.new = call.new /\ call'.phase = "link"
          /\ Big(call.new)' = Big(call.new)
      BY <2>1, <1>1, <1>9, <1>b DEF Big
    <2>7. Agree(rec, [View' EXCEPT ![call.new] = NoEntry])
      BY <2>1, <1>7
    <2>4. NameMissing'
      BY <2>1, <2>2, <2>3, <2>6, <2>7 DEF NameMissing
    <2>5. pc' = "name"
      BY <1>1, <1>9
    <2> QED
      BY <2>4, <2>5, <1>3, <1>4, <1>5, StagesOpened DEF Sound, Stages, Freeing
  <1> QED
    BY <1>8, <1>9

LEMMA AddNameSound ==
    ASSUME Types, Sound, AddName
    PROVE  Sound'
  <1>1. /\ pc = "name" /\ pc' = "close_ni" /\ dirty' = dirty \union {"ni"}
        /\ ni' = [ni EXCEPT !.rec.names[call.new] = "posix", !.rec.links = ni.rec.links + 1]
        /\ UNCHANGED <<big, rec, ents, mftbmp, dirm, call>>
    BY DEF AddName, disks
  <1>a. /\ rec \in [Rec -> Record] /\ ni \in Inode /\ call.new \in Names
        /\ ni.rec.links \in Int
    BY CallParts, InodeParts DEF Types
  <1>b. NameMissing /\ View \in [Names -> Entry] /\ pc \in Naming /\ pc' \in Naming
    BY <1>1, ViewType DEF Sound, Stages, Naming
  <1>2. /\ ni'.no = ni.no /\ ni'.rec.used = ni.rec.used
        /\ ni'.rec.seq = ni.rec.seq /\ ni'.rec.ext = ni.rec.ext
        /\ ni'.rec.names = [ni.rec.names EXCEPT ![call.new] = "posix"]
        /\ ni'.rec.links = ni.rec.links + 1
    <2>1. ni.rec.links + 1 \in Int /\ "posix" \in NameKind
      BY <1>a DEF NameKind, NameSpaces
    <2>2. SameBut(ni', [ni.rec.names EXCEPT ![call.new] = "posix"], ni.rec.links + 1, ni.rec.ext)
      BY <1>1, <1>a, <2>1, SetNameAndLinks
    <2> QED
      BY <2>2 DEF SameBut
  <1>w. /\ ni.no \in Rec
        /\ \A r : With(r)[ni.no] = r /\ \A q \in Rec : q # ni.no => With(r)[q] = rec[q]
        /\ With(rec[ni.no]) = rec
    BY <1>b, WithIs, StagesOpened
  <1>3. Extents'
    BY <1>1, <1>2, <1>b, StagesOpened DEF Sound, Extents, IsExtent
  <1>4. Bits'
    BY <1>1, <1>2, <1>b DEF Sound, Bits
  <1>5. Dirties'
    BY <1>1, <1>b, StagesOpened DEF Sound, Dirties, Target, Big
  <1>6. Agree(With(ni.rec), View)'
    <2> DEFINE S == With(ni.rec)'
    <2>1. /\ S[ni.no] = ni'.rec /\ \A q \in Rec : q # ni.no => S[q] = rec[q]
      BY <1>1, <1>2, <1>w, <1>a DEF With
    <2>2. /\ Agree(rec, [View EXCEPT ![call.new] = NoEntry]) /\ ni.rec = rec[ni.no]
          /\ View[call.new].rec = ni.no /\ View[call.new].seq = rec[ni.no].seq
          /\ View[call.new].ns = "posix"
      BY <1>b DEF NameMissing
    <2>3. rec[ni.no].used /\ rec[ni.no].names \in [Names -> NameKind]
      BY <1>b, <1>a, <1>w, WholeRecord DEF Sound, Bits
    <2>4. /\ S[ni.no].used = rec[ni.no].used /\ S[ni.no].seq = rec[ni.no].seq
          /\ S[ni.no].names = [rec[ni.no].names EXCEPT ![call.new] = "posix"]
          /\ S[ni.no].links = rec[ni.no].links + 1
      BY <2>1, <2>2, <1>2
    <2>n. /\ S[ni.no].names[call.new] = "posix"
          /\ \A m \in Names : m # call.new => S[ni.no].names[m] = rec[ni.no].names[m]
      BY <2>3, <2>4, <1>a
    <2> HIDE DEF S
    <2> DEFINE D == [View EXCEPT ![call.new] = NoEntry]
    <2>d. /\ D[call.new] = NoEntry /\ \A m \in Names : m # call.new => D[m] = View[m]
          /\ Agree(rec, D) /\ ni.no \in Rec
      BY <2>2, <1>a, <1>b, <1>w
    <2> HIDE DEF D
    <2>5. Agree(S, View)
      <3>1. AddsName(rec, S, D, View, call.new, ni.no)
        BY <2>1, <2>2, <2>d, <2>3, <2>4, <2>n, <1>a, <1>b DEF AddsName, Changes
      <3> QED
        BY <3>1, AgreeAdd
    <2>6. View' = View
      BY <1>1, ViewUnchanged
    <2> QED
      BY <2>5, <2>6 DEF S
  <1> QED
    BY <1>1, <1>3, <1>4, <1>5, <1>6, StagesOpened DEF Sound, Stages, Freeing

LEMMA AddNameFailsSound ==
    ASSUME Types, Sound, AddNameFails
    PROVE  Sound'
  <1>1. /\ pc = "name" /\ pc' = "back" /\ call' = Fails
        /\ UNCHANGED <<big, rec, ents, mftbmp, ni, dirm, dirty>>
    BY DEF AddNameFails, disks, mems
  <1>2. Quiet /\ call'.new = call.new /\ call'.phase = call.phase
    BY <1>1, SameCall DEF Quiet, Types
  <1>3. Extents' /\ Bits' /\ Dirties' /\ View' = View
    BY <1>1, <1>2, QuietSound DEF Sound, Naming
  <1>4. NameMissing'
    BY <1>1, <1>2, <1>3 DEF Sound, Stages, NameMissing, Big
  <1> QED
    BY <1>1, <1>3, <1>4, StagesOpened DEF Sound, Stages, Freeing

LEMMA TakeBackSound ==
    ASSUME Types, Sound, TakeBack, scars' = {}
    PROVE  Sound'
  <1>1. /\ pc = "back" /\ pc' = "close_ni" /\ PutEntry(call.new, NoEntry)
        /\ call' = [call EXCEPT !.torn = Torn] /\ UNCHANGED <<big, rec, mftbmp, ni, dirty>>
    BY DEF TakeBack
  <1>a. call \in Call /\ call.new \in Names /\ Torn \in BOOLEAN
    BY CallParts DEF Types
  <1>b. SameTarget
    BY <1>1, <1>a, SameCall
  <1>c. NameMissing /\ pc \in Naming /\ pc' \in Naming
    BY <1>1 DEF Sound, Stages, Naming
  <1>v. /\ View' = [View EXCEPT ![call.new] = NoEntry]
        /\ \A m \in Names : m # call.new => ents'[m] = ents[m] /\ dirm'[m] = dirm[m]
    BY <1>1, <1>a, PutView
  <1>w. With(rec[ni.no]) = rec
    BY <1>c, WithIs, StagesOpened
  <1>t. Target = call.new /\ Target' = Target
    BY <1>b, <1>c DEF SameTarget, Target, NameMissing
  <1>3. Extents'
    BY <1>1, <1>c, StagesOpened DEF Sound, Extents, IsExtent
  <1>4. Bits'
    BY <1>1, <1>c DEF Sound, Bits
  <1>5. Dirties'
    <2>1. ASSUME NEW n \in Names, ~Big(n), dirm'[n] # ents'[n]
          PROVE  "dir" \in dirty /\ DirOf[n] = DirOf[Target]
      <3>1. CASE n = call.new
        BY <3>1, <2>1, <1>c, <1>t DEF NameMissing
      <3>2. CASE n # call.new
        BY <3>2, <2>1, <1>c, <1>v, StagesOpened DEF Sound, Dirties
      <3> QED
        BY <3>1, <3>2
    <2>2. \A n : Big(n)' = Big(n)
      BY <1>1 DEF Big
    <2>3. "ni" \notin dirty => ni.rec = rec[ni.no]
      BY <1>c DEF NameMissing
    <2>4. "dir" \in dirty => DirOf[Target] \notin big
      BY DEF Sound, Dirties
    <2> QED
      BY <2>1, <2>2, <2>3, <2>4, <1>1, <1>t DEF Dirties
  <1>6. Agree(With(ni.rec), View)'
    <2>1. Agree(rec, [View EXCEPT ![call.new] = NoEntry]) /\ ni.rec = rec[ni.no]
      BY <1>c DEF NameMissing
    <2>2. With(ni.rec)' = rec
      BY <2>1, <1>1, <1>w DEF With
    <2> QED
      BY <2>1, <2>2, <1>v
  <1> QED
    BY <1>1, <1>3, <1>4, <1>5, <1>6, StagesOpened DEF Sound, Stages, Freeing
-----------------------------------------------------------------------------
(* A name is removed.                                                      *)
LEMMA RemoveRefusedSound ==
    ASSUME Types, Sound, RemoveRefused
    PROVE  Sound'
  <1>1. /\ pc = "find" /\ pc' = "close_ni" /\ call' = Fails
        /\ UNCHANGED <<big, rec, ents, mftbmp, ni, dirm, dirty>>
    BY DEF RemoveRefused, disks, mems
  <1>2. Quiet
    BY <1>1, SameCall DEF Quiet, Types
  <1>3. Extents' /\ Bits' /\ Dirties' /\ View' = View
    BY <1>1, <1>2, QuietSound DEF Sound, Naming
  <1>4. Agree(With(ni.rec), View)'
    BY <1>1, <1>3 DEF Sound, Stages, With
  <1> QED
    BY <1>1, <1>3, <1>4, StagesOpened DEF Sound, Stages, Freeing

(* A name found is in the directory of the name asked for.                 *)
LEMMA FoundName ==
    ASSUME Types, Sound, pc = "find", NEW n \in Wanted
    PROVE  /\ n \in Names /\ DirOf[n] = DirOf[Target] /\ ni.rec.names[n] # "none"
           /\ Pair(n) => DirOf[Target] = DirOf[Long]
           /\ call.want # "any" => DirOf[Target] = DirOf[Long]
  <1>a. ni.no \in Rec /\ Target \in Names /\ With(ni.rec)[ni.no] = ni.rec
    BY WithIs, CallParts, StagesOpened DEF Types
  <1>1. RecordAgrees(View, ni.rec, ni.no)
    BY <1>a DEF Sound, Stages, Agree
  <1>2. ASSUME NEW m \in Names, Pair(m) PROVE DirOf[m] = DirOf[Long]
    BY <1>1, <1>2, DirAssumption DEF RecordAgrees, Pair
  <1>3. call.want # "any" => DirOf[Target] = DirOf[Long]
    BY DEF Sound, Dirties
  <1>4. CASE call.want = "any" /\ ~Pair(Target)
    <2>1. n = Target /\ ni.rec.names[n] = "posix"
      BY <1>4 DEF Wanted
    <2> QED
      BY <2>1, <1>a, <1>3, <1>4
  <1>5. CASE ~(call.want = "any" /\ ~Pair(Target))
    <2>1. n \in Names /\ ni.rec.names[n] \in {"win32", "dos"}
      BY <1>5 DEF Wanted
    <2>2. DirOf[Target] = DirOf[Long]
      BY <1>5, <1>a, <1>2, <1>3
    <2> QED
      BY <2>1, <2>2, <1>2 DEF Pair
  <1> QED
    BY <1>4, <1>5

LEMMA RemoveEntrySound ==
    ASSUME Types, Sound, NEW n \in Names, RemoveEntry(n), scars' = {}
    PROVE  Sound'
  <1>1. /\ pc = "find" /\ pc' = "unname" /\ MayRemove(n) /\ PutEntry(n, NoEntry)
        /\ ni' = Plain(n)
        /\ dirty' = dirty \union DirtyDir(n) \union IF ni' = ni THEN {} ELSE {"ni"}
        /\ call' = [call EXCEPT !.victim = n, !.torn = Torn,
                                !.want = IF Pair(n) THEN ni.rec.names[n] ELSE call.want]
        /\ UNCHANGED <<big, rec, mftbmp>>
    BY DEF RemoveEntry
  <1>a. /\ rec \in [Rec -> Record] /\ ni \in Inode /\ call \in Call
        /\ ni.rec.names \in [Names -> NameKind] /\ ni.rec.links \in Int
    BY InodeParts DEF Types
  <1>b. /\ n \in Wanted /\ DirOf[n] = DirOf[Target] /\ ni.rec.names[n] # "none"
        /\ Pair(n) => DirOf[Target] = DirOf[Long]
        /\ call.want # "any" => DirOf[Target] = DirOf[Long]
    BY <1>1, FoundName DEF MayRemove
  <1>c. /\ call'.victim = n
        /\ call'.want = IF Pair(n) THEN ni.rec.names[n] ELSE call.want
        /\ Target' = Target
    <2>1. /\ call'.victim = n /\ call'.phase = call.phase /\ call'.old = call.old
          /\ call'.new = call.new
          /\ call'.want = IF Pair(n) THEN ni.rec.names[n] ELSE call.want
      BY <1>1, <1>a DEF Call
    <2> QED
      BY <2>1 DEF Target
  <1>d. pc \in Naming /\ pc' \in Naming
    BY <1>1 DEF Naming
  <1>w. /\ ni.no \in Rec
        /\ \A r : With(r)[ni.no] = r /\ \A q \in Rec : q # ni.no => With(r)[q] = rec[q]
    BY <1>d, WithIs, StagesOpened
  <1>v. /\ View' = [View EXCEPT ![n] = NoEntry] /\ View \in [Names -> Entry]
        /\ \A m \in Names : m # n => ents'[m] = ents[m] /\ dirm'[m] = dirm[m]
        /\ Big(n) => UNCHANGED dirm
    BY <1>1, PutView, ViewType
  <1>2. /\ ni'.no = ni.no /\ ni'.rec.used = ni.rec.used
        /\ ni'.rec.seq = ni.rec.seq /\ ni'.rec.ext = ni.rec.ext
        /\ ni'.rec.links = ni.rec.links
        /\ ni'.rec.names = [ni.rec.names EXCEPT ![n] = IF @ = "win32" THEN "posix" ELSE @]
        /\ ni'.rec \in Record
    <2>1. SameBut(ni', ni'.rec.names, ni.rec.links, ni.rec.ext)
      BY <1>1, <1>a, SetPlain
    <2>2. ni'.rec.names = [ni.rec.names EXCEPT ![n] = IF @ = "win32" THEN "posix" ELSE @]
      BY <1>1, <1>a, SetPlain
    <2> QED
      BY <2>1, <2>2 DEF SameBut, Inode
  <1>3. Extents'
    BY <1>1, <1>2, <1>d, StagesOpened DEF Sound, Extents, IsExtent
  <1>4. Bits'
    BY <1>1, <1>2, <1>d DEF Sound, Bits
  <1>5. Dirties'
    <2>1. "ni" \notin dirty' => ni'.rec = rec[ni'.no]
      BY <1>1, <1>2, <1>d DEF Sound, Dirties
    <2>2. "dir" \in dirty' => DirOf[Target] \notin big
      BY <1>1, <1>b DEF Sound, Dirties, DirtyDir, Big
    <2>3. ASSUME NEW m \in Names, ~Big(m), dirm'[m] # ents'[m]
          PROVE  "dir" \in dirty' /\ DirOf[m] = DirOf[Target]
      <3>1. CASE m = n
        BY <3>1, <2>3, <1>1, <1>b DEF DirtyDir
      <3>2. CASE m # n
        BY <3>2, <2>3, <1>1, <1>d, <1>v, StagesOpened DEF Sound, Dirties
      <3> QED
        BY <3>1, <3>2
    <2>4. \A m : Big(m)' = Big(m)
      BY <1>1 DEF Big
    <2>5. call'.want # "any" => DirOf[Target] = DirOf[Long]
      BY <1>b, <1>c
    <2>6. pc' \notin {"idle", "open"} /\ rec' = rec /\ big' = big
      BY <1>1
    <2> QED
      BY <2>1, <2>2, <2>3, <2>4, <2>5, <2>6, <1>c DEF Dirties
  <1>6. Agree(With(Unnamed(ni.rec, call.victim)), View)'
    <2> DEFINE R == With(ni.rec)
               S == With(Unnamed(ni.rec, call.victim))'
    <2>1. S[ni.no] = Unnamed(ni'.rec, n) /\ \A q \in Rec : q # ni.no => S[q] = rec[q]
      BY <1>1, <1>2, <1>c, <1>w, <1>a DEF With, Unnamed
    <2>2. R[ni.no] = ni.rec /\ \A q \in Rec : q # ni.no => R[q] = rec[q]
      BY <1>w
    <2>3. Agree(R, View)
      BY <1>1 DEF Sound, Stages
    <2> DEFINE U == Unnamed(ni'.rec, n)
    <2>4. /\ U.used = ni.rec.used /\ U.seq = ni.rec.seq /\ U.links = ni.rec.links - 1
          /\ U.names = [ni'.rec.names EXCEPT ![n] = "none"]
      BY <1>2 DEF Unnamed, Record
    <2>5. U.names[n] = "none" /\ \A m \in Names : m # n => U.names[m] = ni.rec.names[m]
      BY <2>4, <1>2, <1>a
    <2>6. View'[n] = NoEntry /\ \A m \in Names : m # n => View'[m] = View[m]
      BY <1>v
    <2> HIDE DEF R, S, U
    <2>7. RemovesName(R, S, View', View, n, ni.no)
      <3>1. S[ni.no] = U
        BY <2>1 DEF U
      <3> QED
        BY <3>1, <2>1, <2>2, <2>3, <2>4, <2>5, <2>6, <1>a, <1>b, <1>v, <1>w DEF RemovesName, Changes
    <2>8. Agree(S, View')
      BY <2>7, AgreeRemove
    <2> QED
      BY <2>8 DEF S
  <1>7. Stages'
    BY <1>1, <1>6, StagesOpened DEF Stages, Freeing
  <1> QED
    BY <1>3, <1>4, <1>5, <1>7 DEF Sound

LEMMA RemoveUnsupportedSound ==
    ASSUME Types, Sound, NEW n \in Names, RemoveUnsupported(n), scars' = {}
    PROVE  Sound'
  <1> DEFINE e == [Seen(n) EXCEPT !.ns = Plain(n).rec.names[n]]
  <1>1. /\ pc = "find" /\ pc' = "close_ni" /\ MayRemove(n) /\ Big(n) /\ PutEntry(n, e)
        /\ ni' = Plain(n) /\ dirty' = dirty \union IF ni' = ni THEN {} ELSE {"ni"}
        /\ call' = [Fails EXCEPT !.torn = Torn]
        /\ UNCHANGED <<big, rec, mftbmp>>
    BY DEF RemoveUnsupported
  <1>a. /\ rec \in [Rec -> Record] /\ ni \in Inode /\ call \in Call
        /\ ni.rec.names \in [Names -> NameKind] /\ Torn \in BOOLEAN
    BY InodeParts, CallParts DEF Types
  <1>b. n \in Wanted /\ ni.rec.names[n] # "none"
    BY <1>1, FoundName DEF MayRemove
  <1>c. Target' = Target
    BY <1>1, <1>a, SameCall DEF SameTarget
  <1>d. pc \in Naming /\ pc' \in Naming
    BY <1>1 DEF Naming
  <1>w. /\ ni.no \in Rec
        /\ \A r : With(r)[ni.no] = r /\ \A q \in Rec : q # ni.no => With(r)[q] = rec[q]
    BY <1>d, WithIs, StagesOpened
  <1>v. /\ View' = [View EXCEPT ![n] = e] /\ View \in [Names -> Entry]
        /\ \A m \in Names : m # n => ents'[m] = ents[m] /\ dirm'[m] = dirm[m]
        /\ UNCHANGED dirm
    BY <1>1, PutView, ViewType
  <1>2. /\ ni'.no = ni.no /\ ni'.rec.used = ni.rec.used
        /\ ni'.rec.seq = ni.rec.seq /\ ni'.rec.ext = ni.rec.ext
        /\ ni'.rec.links = ni.rec.links
        /\ ni'.rec.names = [ni.rec.names EXCEPT ![n] = IF @ = "win32" THEN "posix" ELSE @]
    <2>1. SameBut(ni', ni'.rec.names, ni.rec.links, ni.rec.ext)
      BY <1>1, <1>a, SetPlain
    <2>2. ni'.rec.names = [ni.rec.names EXCEPT ![n] = IF @ = "win32" THEN "posix" ELSE @]
      BY <1>1, <1>a, SetPlain
    <2> QED
      BY <2>1, <2>2 DEF SameBut
  <1>3. Extents'
    BY <1>1, <1>2, <1>d, StagesOpened DEF Sound, Extents, IsExtent
  <1>4. Bits'
    BY <1>1, <1>2, <1>d DEF Sound, Bits
  <1>5. Dirties'
    <2>1. "ni" \notin dirty' => ni'.rec = rec[ni'.no]
      BY <1>1, <1>2, <1>d DEF Sound, Dirties
    <2>2. "dir" \in dirty' => DirOf[Target] \notin big
      BY <1>1 DEF Sound, Dirties
    <2>3. ASSUME NEW m \in Names, ~Big(m), dirm'[m] # ents'[m]
          PROVE  "dir" \in dirty' /\ DirOf[m] = DirOf[Target]
      <3>1. m # n
        BY <2>3, <1>1
      <3> QED
        BY <3>1, <2>3, <1>1, <1>d, <1>v, StagesOpened DEF Sound, Dirties
    <2>4. \A m : Big(m)' = Big(m)
      BY <1>1 DEF Big
    <2>6. pc' \notin {"idle", "open", "find", "unname"} /\ rec' = rec /\ big' = big
      BY <1>1
    <2> QED
      BY <2>1, <2>2, <2>3, <2>4, <2>6, <1>c DEF Dirties
  <1>6. Agree(With(ni.rec), View)'
    <2> DEFINE R == With(ni.rec)
               S == With(ni.rec)'
    <2>1. S[ni.no] = ni'.rec /\ \A q \in Rec : q # ni.no => S[q] = rec[q]
      BY <1>1, <1>2, <1>w, <1>a DEF With
    <2>2. R[ni.no] = ni.rec /\ \A q \in Rec : q # ni.no => R[q] = rec[q]
      BY <1>w
    <2>3. Agree(R, View)
      BY <1>1 DEF Sound, Stages
    <2>4. /\ ni'.rec.names[n] = IF ni.rec.names[n] = "win32" THEN "posix" ELSE ni.rec.names[n]
          /\ \A m \in Names : m # n => ni'.rec.names[m] = ni.rec.names[m]
      BY <1>2, <1>a
    <2>5. /\ View'[n].rec = View[n].rec /\ View'[n].seq = View[n].seq
          /\ View'[n].ns = ni'.rec.names[n]
          /\ \A m \in Names : m # n => View'[m] = View[m]
      <3>1. View[n] = Seen(n) /\ Seen(n) \in Entry /\ Seen(n) # NoEntry
        BY <1>1, ViewIs, SeenType DEF MayRemove
      <3>2. Seen(n) \in [rec : Rec, seq : Nat, ns : NameSpaces]
        BY <3>1 DEF Entry
      <3>3. e.rec = Seen(n).rec /\ e.seq = Seen(n).seq /\ e.ns = ni'.rec.names[n]
        BY <3>2, <1>1
      <3> HIDE DEF e
      <3>4. View'[n] = e /\ \A m \in Names : m # n => View'[m] = View[m]
        BY <1>v
      <3> QED
        BY <3>1, <3>3, <3>4
    <2> HIDE DEF R, S
    <2>6. MakesPlain(R, S, View', View, n, ni.no)
      BY <2>1, <2>2, <2>3, <2>4, <2>5, <1>2, <1>a, <1>b, <1>v, <1>w DEF MakesPlain, Changes
    <2>7. Agree(S, View')
      BY <2>6, AgreePlain
    <2> QED
      BY <2>7 DEF S
  <1>7. Stages'
    BY <1>1, <1>6, StagesOpened DEF Stages, Freeing
  <1> QED
    BY <1>3, <1>4, <1>5, <1>7 DEF Sound

LEMMA RemoveNameSound ==
    ASSUME Types, Sound, RemoveName
    PROVE  Sound'
  <1>1. /\ pc = "unname" /\ dirty' = dirty \union {"ni"}
        /\ ni' = [ni EXCEPT !.rec.names[call.victim] = "none", !.rec.links = ni.rec.links - 1]
        /\ call' = [call EXCEPT !.want = IF call.want = "dos" THEN "win32" ELSE call.want,
                                !.gone = call.want # "dos" /\ ni'.rec.links = 0]
        /\ pc' \in {"find", "clusters", "close_ni"} /\ (pc' = "clusters" => ni'.rec.links = 0)
        /\ UNCHANGED <<big, rec, ents, mftbmp, dirm>>
    BY DEF RemoveName, disks
  <1>a. /\ rec \in [Rec -> Record] /\ ni \in Inode /\ call \in Call /\ call.victim \in Names
        /\ ni.rec.links \in Int /\ ni.rec.names \in [Names -> NameKind] /\ ni.rec \in Record
    BY InodeParts, CallParts DEF Types
  <1>c. Target' = Target /\ (call'.want # "any" => call.want # "any")
    <2>1. /\ call'.phase = call.phase /\ call'.old = call.old /\ call'.new = call.new
          /\ call'.want = IF call.want = "dos" THEN "win32" ELSE call.want
      BY <1>1, <1>a DEF Call
    <2> QED
      BY <2>1 DEF Target
  <1>d. pc \in Naming /\ pc \in Opened /\ pc' \in Opened
    BY <1>1 DEF Naming, Opened, Freeing
  <1>w. /\ ni.no \in Rec
        /\ \A r : With(r)[ni.no] = r /\ \A q \in Rec : q # ni.no => With(r)[q] = rec[q]
    BY <1>d, WithIs
  <1>2. /\ ni'.no = ni.no /\ ni'.rec.used = ni.rec.used
        /\ ni'.rec.seq = ni.rec.seq /\ ni'.rec.ext = ni.rec.ext
        /\ ni'.rec.names = [ni.rec.names EXCEPT ![call.victim] = "none"]
        /\ ni'.rec.links = ni.rec.links - 1 /\ ni' \in Inode
    <2>1. ni.rec.links - 1 \in Int /\ "none" \in NameKind
      BY <1>a DEF NameKind
    <2>2. SameBut(ni', [ni.rec.names EXCEPT ![call.victim] = "none"], ni.rec.links - 1, ni.rec.ext)
      BY <1>1, <1>a, <2>1, SetNameAndLinks
    <2> QED
      BY <2>2 DEF SameBut
  <1>3. Extents'
    <2>1. \A x : IsExtent(x) => IsExtent(x)'
      BY <1>1, <1>2, <1>d DEF IsExtent
    <2>2. pc' \notin {"exts", "ext_bit"}
      BY <1>1
    <2> QED
      BY <1>1, <1>2, <1>d, <2>1, <2>2 DEF Sound, Extents
  <1>4. Bits'
    BY <1>1, <1>2, <1>d DEF Sound, Bits
  <1>5. Dirties'
    <2>1. "ni" \in dirty' /\ ("dir" \in dirty' => "dir" \in dirty) /\ ("dir" \in dirty => "dir" \in dirty')
      BY <1>1
    <2>2. \A m : Big(m)' = Big(m)
      BY <1>1 DEF Big
    <2>3. pc' \notin {"idle", "open"}
      BY <1>1
    <2>4. call'.want # "any" => DirOf[Target] = DirOf[Long]
      BY <1>1, <1>c DEF Sound, Dirties
    <2> QED
      BY <2>1, <2>2, <2>3, <2>4, <1>1, <1>c, <1>d DEF Sound, Dirties
  <1> DEFINE R == With(Unnamed(ni.rec, call.victim))
             S == With(ni.rec)'
  <1>6. S[ni.no] = ni'.rec /\ \A q \in Rec : q # ni.no => S[q] = rec[q]
    BY <1>1, <1>2, <1>w, <1>a DEF With
  <1>7. /\ R[ni.no].used = ni.rec.used /\ R[ni.no].seq = ni.rec.seq
        /\ R[ni.no].names = [ni.rec.names EXCEPT ![call.victim] = "none"]
        /\ R[ni.no].links = ni.rec.links - 1
        /\ \A q \in Rec : q # ni.no => R[q] = rec[q]
    <2>1. R[ni.no] = Unnamed(ni.rec, call.victim)
      BY <1>w
    <2>2. LET U == Unnamed(ni.rec, call.victim) IN
          /\ U.used = ni.rec.used /\ U.seq = ni.rec.seq
          /\ U.names = [ni.rec.names EXCEPT ![call.victim] = "none"]
          /\ U.links = ni.rec.links - 1
      BY <1>a DEF Unnamed, Record
    <2> QED
      BY <2>1, <2>2, <1>w
  <1>8. Agree(R, View) /\ View' = View /\ View \in [Names -> Entry]
    BY <1>1, ViewUnchanged, ViewType DEF Sound, Stages
  <1> HIDE DEF R, S
  <1>9. Agree(S, View)
    BY <1>2, <1>6, <1>7, <1>8, AgreeLike
  <1>10. Agree(With(ni.rec), View)'
    BY <1>8, <1>9 DEF S
  <1>11. CASE pc' \in {"find", "close_ni"}
    BY <1>3, <1>4, <1>5, <1>10, <1>11, StagesOpened DEF Sound, Stages, Freeing
  <1>12. CASE pc' = "clusters"
    <2>1. S[ni.no].names = NoName
      <3>1. RecordAgrees(View, S[ni.no], ni.no)
        BY <1>9, <1>w DEF Agree
      <3>2. Cardinality(Named(S[ni.no].names)) = 0
        BY <3>1, <1>1, <1>6, <1>12 DEF RecordAgrees
      <3>3. IsFiniteSet(Named(S[ni.no].names))
        BY Constants, FS_Subset DEF Named
      <3>4. Named(S[ni.no].names) = {}
        BY <3>2, <3>3, FS_EmptySet
      <3>5. S[ni.no].names \in [Names -> NameKind]
        BY <1>2, <1>6, <1>a DEF Inode, Record
      <3> QED
        BY <3>4, <3>5 DEF Named, NoName
    <2> DEFINE T == With(Blank(0))'
    <2>2. T[ni.no] = Blank(0) /\ \A q \in Rec : q # ni.no => T[q] = rec[q]
      BY <1>1, <1>2, <1>w, <1>a DEF With
    <2> HIDE DEF T
    <2>3. Agree(T, View)
      BY <1>6, <1>8, <1>9, <2>1, <2>2, BlankRecord, AgreeLike
    <2>4. Agree(With(Blank(0)), View)'
      BY <1>8, <2>3 DEF T
    <2> QED
      BY <1>3, <1>4, <1>5, <1>12, <2>4, StagesOpened DEF Sound, Stages, Naming
  <1> QED
    BY <1>1, <1>11, <1>12
-----------------------------------------------------------------------------
(* The last name is gone, and the file is freed.                           *)
LEMMA FreeClustersSound ==
    ASSUME Types, Sound, FreeClusters
    PROVE  Sound'
  <1>1. /\ ni' = [ni EXCEPT !.rec.ext = Attached] /\ pc = "clusters" /\ pc' = "exts"
        /\ call' = call \/ call' = Fails
        /\ UNCHANGED <<big, rec, ents, mftbmp, dirm, dirty>>
    BY DEF FreeClusters
  <1>a. ni \in Inode /\ call \in Call
    BY DEF Types
  <1>b. Attached \in SUBSET (Nat \X Nat) /\ Attached \subseteq ni.rec.ext
    BY <1>a, InodeParts DEF Attached
  <1>2. /\ ni'.no = ni.no /\ ni'.rec.seq = ni.rec.seq /\ ni'.rec.ext = Attached
    <2>1. SameBut(ni', ni.rec.names, ni.rec.links, Attached)
      BY <1>1, <1>a, <1>b, SetExt
    <2> QED
      BY <2>1 DEF SameBut
  <1>c. Target' = Target /\ View' = View
    BY <1>1, <1>a, SameCall, ViewUnchanged DEF SameTarget
  <1>3. Extents'
    <2>1. \A x : IsExtent(x) => IsExtent(x)'
      BY <1>1 DEF IsExtent, Naming
    <2>2. Attached # {} => rec[2].names = NoName /\ rec[2].links = 0
      <3> SUFFICES ASSUME NEW x \in Attached PROVE rec[2].names = NoName /\ rec[2].links = 0
        OBVIOUS
      <3>1. IsExtent(x) /\ rec[x[1]].seq = x[2]
        BY <1>b DEF Attached, Sound, Extents
      <3>2. x[1] = 2 /\ x[2] = 1
        BY <3>1 DEF IsExtent
      <3> QED
        BY <3>1, <3>2 DEF IsExtent
    <2> QED
      BY <1>1, <1>2, <1>b, <2>1, <2>2, StagesOpened DEF Sound, Extents
  <1>4. Bits'
    BY <1>1, StagesOpened DEF Sound, Bits, Naming
  <1>5. Dirties'
    BY <1>1, <1>c, StagesOpened DEF Sound, Dirties, Big, Naming
  <1>6. Agree(With(Blank(0)), View)'
    <2>1. Agree(With(Blank(0)), View)
      BY <1>1 DEF Sound, Stages, Freeing
    <2>2. With(Blank(0))' = With(Blank(0))
      BY <1>1, <1>2 DEF With, Blank, NoName
    <2> QED
      BY <2>1, <2>2, <1>c
  <1> QED
    BY <1>1, <1>3, <1>4, <1>5, <1>6, StagesOpened DEF Sound, Stages, Naming

LEMMA FreeExtentSound ==
    ASSUME Types, Sound, FreeExtent
    PROVE  Sound'
  <1>1. /\ pc = "exts" /\ pc' = "ext_bit" /\ ni.rec.ext # {}
        /\ rec' = [rec EXCEPT ![Extent[1]] = Blank(Extent[2] + 1)]
        /\ UNCHANGED <<big, ents, mftbmp, ni, dirm, dirty, call>>
    BY DEF FreeExtent, mems
  <1>a. rec \in [Rec -> Record] /\ 2 \in Rec
    BY Constants DEF Types
  <1>2. Extent = <<2, 1>>
    <2>1. Extent \in ni.rec.ext
      BY <1>1 DEF Extent
    <2> QED
      BY <2>1 DEF Sound, Extents, IsExtent
  <1>3. /\ rec'[2].seq = 2 /\ ~rec'[2].used /\ rec'[2].names = NoName /\ rec'[2].links = 0
        /\ rec'[2].ext = {} /\ \A q \in Rec : q # 2 => rec'[q] = rec[q]
    <2>1. Extent[1] = 2 /\ Extent[2] + 1 = 2
      BY <1>2
    <2>2. rec' = [rec EXCEPT ![2] = Blank(2)]
      BY <1>1, <2>1
    <2> QED
      BY <2>2, <1>a, BlankRecord
  <1>4. Extents'
    <2>1. \A x : IsExtent(x) => IsExtent(x)'
      BY <1>1, <1>3 DEF IsExtent, Naming
    <2>2. \A q \in Rec : rec'[q].seq >= 1 /\ \A x \in rec'[q].ext : IsExtent(x)'
      BY <1>3, <2>1 DEF Sound, Extents
    <2>3. \A x \in ni'.rec.ext : IsExtent(x)'
      BY <1>1, <2>1 DEF Sound, Extents
    <2> QED
      BY <1>1, <1>3, <2>2, <2>3, StagesOpened DEF Sound, Extents
  <1>5. Bits'
    BY <1>1, <1>3, StagesOpened DEF Sound, Bits, Naming
  <1>6. Dirties'
    BY <1>1, StagesOpened DEF Sound, Dirties, Big, Target, Naming
  <1>7. Agree(With(Blank(0)), View)'
    <2>0. ni.no \in Rec
      BY <1>1, StagesOpened DEF Types
    <2> DEFINE R == With(Blank(0))
               S == With(Blank(0))'
    <2>1. R[ni.no] = Blank(0) /\ \A q \in Rec : q # ni.no => R[q] = rec[q]
      BY <2>0, <1>a DEF With
    <2>2. S[ni.no] = Blank(0) /\ \A q \in Rec : q # ni.no => S[q] = rec'[q]
      BY <1>1, <2>0, <1>a DEF With
    <2>3. Agree(R, View) /\ View \in [Names -> Entry] /\ View' = View
      BY <1>1, ViewType, ViewUnchanged DEF Sound, Stages, Freeing
    <2>4. rec[2].names = NoName
      BY <1>1 DEF Sound, Extents
    <2> HIDE DEF R, S
    <2>5. Agree(S, View)
      BY <1>3, <2>1, <2>2, <2>3, <2>4, AgreeLike
    <2> QED
      BY <2>3, <2>5 DEF S
  <1> QED
    BY <1>1, <1>4, <1>5, <1>6, <1>7, StagesOpened DEF Sound, Stages, Naming

LEMMA ClearExtentBitSound ==
    ASSUME Types, Sound, ClearExtentBit
    PROVE  Sound'
  <1>1. /\ pc = "ext_bit" /\ pc' = "exts" /\ mftbmp' = mftbmp \ {Extent[1]}
        /\ ni' = [ni EXCEPT !.rec.ext = ni.rec.ext \ {Extent}]
        /\ UNCHANGED <<big, rec, ents, dirm, dirty, call>>
    BY DEF ClearExtentBit
  <1>a. ni \in Inode
    BY DEF Types
  <1>b. ni.rec.ext \ {Extent} \in SUBSET (Nat \X Nat)
    BY <1>a, InodeParts
  <1>2. /\ ni'.no = ni.no /\ ni'.rec.seq = ni.rec.seq /\ ni'.rec.ext = ni.rec.ext \ {Extent}
    <2>1. SameBut(ni', ni.rec.names, ni.rec.links, ni.rec.ext \ {Extent})
      BY <1>1, <1>a, <1>b, SetExt
    <2> QED
      BY <2>1 DEF SameBut
  <1>c. View' = View
    BY <1>1, ViewUnchanged
  <1>3. Extents'
    <2>1. \A x : IsExtent(x) => IsExtent(x)'
      BY <1>1 DEF IsExtent, Naming
    <2> QED
      BY <1>1, <1>2, <2>1, StagesOpened DEF Sound, Extents
  <1>4. Bits'
    <2>1. Extent[1] = 2 /\ ~rec[2].used
      <3>1. Extent \in ni.rec.ext \/ ni.rec.ext = {}
        BY DEF Extent
      <3> QED
        BY <3>1, <1>1 DEF Sound, Extents, IsExtent
    <2> QED
      BY <1>1, <2>1, StagesOpened DEF Sound, Bits, Naming
  <1>5. Dirties'
    BY <1>1, StagesOpened DEF Sound, Dirties, Big, Target, Naming
  <1>6. Agree(With(Blank(0)), View)'
    <2>1. Agree(With(Blank(0)), View)
      BY <1>1 DEF Sound, Stages, Freeing
    <2>2. With(Blank(0))' = With(Blank(0))
      BY <1>1, <1>2 DEF With, Blank, NoName
    <2> QED
      BY <2>1, <2>2, <1>c
  <1> QED
    BY <1>1, <1>3, <1>4, <1>5, <1>6, StagesOpened DEF Sound, Stages, Naming

(* Nothing changes but the stage: an extent whose freeing fails, and none  *)
(* left.                                                                   *)
LEMMA ExtentsDoneSound ==
    ASSUME Types, Sound, FreeExtentFails \/ NoExtents
    PROVE  Sound'
  <1>1. /\ pc \in {"exts", "ext_bit"} /\ pc' \in {"exts", "base"}
        /\ call' = call \/ call' = Fails
        /\ UNCHANGED <<big, rec, ents, mftbmp, ni, dirm, dirty>>
    BY DEF FreeExtentFails, NoExtents, disks, mems
  <1>2. Quiet
    BY <1>1, SameCall DEF Quiet, Types
  <1>3. Extents' /\ Bits' /\ Dirties' /\ View' = View
    BY <1>1, <1>2, QuietSound DEF Sound
  <1>4. Agree(With(Blank(0)), View)'
    <2>1. Agree(With(Blank(0)), View)
      BY <1>1 DEF Sound, Stages, Freeing
    <2>2. With(Blank(0))' = With(Blank(0))
      BY <1>1 DEF With, Blank, NoName
    <2> QED
      BY <2>1, <2>2, <1>3
  <1> QED
    BY <1>1, <1>3, <1>4, StagesOpened DEF Sound, Stages, Naming

LEMMA FreeBaseSound ==
    ASSUME Types, Sound, FreeBase
    PROVE  Sound'
  <1>1. /\ pc = "base" /\ pc' = "bit" /\ rec' = [rec EXCEPT ![ni.no] = Blank(ni.rec.seq + 1)]
        /\ UNCHANGED <<big, ents, mftbmp, ni, dirm, dirty, call>>
    BY DEF FreeBase, mems
  <1>a. rec \in [Rec -> Record] /\ ni.no \in Rec /\ ni.rec.seq \in Nat /\ ni.rec.seq >= 1
    BY <1>1, InodeParts, StagesOpened DEF Types, Sound, Extents
  <1>2. /\ rec'[ni.no].seq = ni.rec.seq + 1 /\ ~rec'[ni.no].used /\ rec'[ni.no].names = NoName
        /\ rec'[ni.no].links = 0 /\ rec'[ni.no].ext = {}
        /\ \A q \in Rec : q # ni.no => rec'[q] = rec[q]
    <2>1. ni.rec.seq + 1 \in Nat
      BY <1>a
    <2> QED
      BY <1>1, <1>a, <2>1, BlankRecord
  <1>3. Extents'
    <2>1. \A x : IsExtent(x) => IsExtent(x)'
      <3>1. CASE ni.no = 2
        BY <3>1, <1>1, <1>2, <1>a DEF IsExtent, Naming
      <3>2. CASE ni.no # 2
        BY <3>2, <1>1, <1>2, Constants DEF IsExtent, Naming
      <3> QED
        BY <3>1, <3>2
    <2>2. \A q \in Rec : rec'[q].seq >= 1 /\ \A x \in rec'[q].ext : IsExtent(x)'
      BY <1>2, <1>a, <2>1 DEF Sound, Extents
    <2>3. \A x \in ni'.rec.ext : IsExtent(x)'
      BY <1>1, <2>1 DEF Sound, Extents
    <2> QED
      BY <1>1, <1>a, <2>2, <2>3 DEF Extents
  <1>4. Bits'
    BY <1>1, <1>2, StagesOpened DEF Sound, Bits, Naming
  <1>5. Dirties'
    BY <1>1, StagesOpened DEF Sound, Dirties, Big, Target, Naming
  <1>6. Agree(With(Blank(0)), View)'
    <2>1. Agree(With(Blank(0)), View) /\ View' = View
      BY <1>1, ViewUnchanged DEF Sound, Stages, Freeing
    <2>2. With(Blank(0))' = [rec' EXCEPT ![ni.no] = Blank(0)]
      BY <1>1 DEF With, Blank, NoName
    <2>3. [rec' EXCEPT ![ni.no] = Blank(0)] = With(Blank(0))
      BY <1>1, <1>a DEF With
    <2> QED
      BY <2>1, <2>2, <2>3
  <1> QED
    BY <1>1, <1>3, <1>4, <1>5, <1>6, StagesOpened DEF Sound, Stages, Naming

LEMMA ClearBitSound ==
    ASSUME Types, Sound, ClearBit \/ FreeBaseFails, scars' = {}
    PROVE  Sound'
  <1>1. /\ pc = "bit" /\ pc' = "close_dir" /\ call' \in {call, Fails}
        /\ UNCHANGED <<big, rec, ents, ni, dirm, dirty>>
        /\ mftbmp' \in {mftbmp, mftbmp \ {ni.no}}
    BY DEF ClearBit, FreeBaseFails, mems, disks
  <1>a. /\ rec \in [Rec -> Record] /\ ni.no \in Rec /\ call \in Call
        /\ ~rec[ni.no].used /\ rec[ni.no].names = NoName /\ rec[ni.no].links = 0
    BY <1>1, StagesOpened DEF Types, Sound, Bits
  <1>c. Target' = Target /\ View' = View
    BY <1>1, <1>a, SameCall, ViewUnchanged DEF SameTarget
  <1>3. Extents'
    <2>1. \A x : IsExtent(x) => IsExtent(x)'
      BY <1>1 DEF IsExtent, Naming
    <2> QED
      BY <1>1, <2>1, StagesOpened DEF Sound, Extents
  <1>4. Bits'
    BY <1>1, <1>a, StagesOpened DEF Sound, Bits
  <1>5. Dirties'
    BY <1>1, <1>c, StagesOpened DEF Sound, Dirties, Big, Naming
  <1>6. Agree(rec, View)'
    <2>1. Agree(With(Blank(0)), View) /\ View \in [Names -> Entry]
      BY <1>1, ViewType DEF Sound, Stages, Freeing
    <2> DEFINE R == With(Blank(0))
    <2>2. R[ni.no] = Blank(0) /\ \A q \in Rec : q # ni.no => R[q] = rec[q]
      BY <1>a DEF With
    <2> HIDE DEF R
    <2>3. Agree(R, View)
      BY <2>1 DEF R
    <2>4. Agree(rec, View)
      BY <2>1, <2>2, <2>3, <1>a, BlankRecord, AgreeLike
    <2> QED
      BY <2>4, <1>1, <1>c
  <1> QED
    BY <1>1, <1>3, <1>4, <1>5, <1>6, StagesOpened DEF Sound, Stages
-----------------------------------------------------------------------------
(* The inodes are closed.                                                  *)
LEMMA CloseFileSound ==
    ASSUME Types, Sound, CloseFile, scars' = {}
    PROVE  Sound'
  <1>1. /\ pc = "close_ni" /\ pc' = "close_dir"
        /\ rec' = IF "ni" \in dirty THEN [rec EXCEPT ![ni.no] = ni.rec] ELSE rec
        /\ UNCHANGED <<big, ents, mftbmp, ni, dirm, dirty, call>>
    BY DEF CloseFile, mems
  <1>a. /\ rec \in [Rec -> Record] /\ ni.no \in Rec /\ pc \in Naming /\ pc \in Opened
    BY <1>1, StagesOpened DEF Types, Naming
  <1>2. rec' = With(ni.rec)
    <2>1. CASE "ni" \in dirty
      BY <2>1, <1>1 DEF With
    <2>2. CASE "ni" \notin dirty
      <3>1. ni.rec = rec[ni.no]
        BY <2>2, <1>a DEF Sound, Dirties
      <3> QED
        BY <2>2, <3>1, <1>1, <1>a, WithIs
    <2> QED
      BY <2>1, <2>2
  <1>3. rec'[ni.no] = ni.rec /\ \A q \in Rec : q # ni.no => rec'[q] = rec[q]
    BY <1>2, <1>a, WithIs
  <1>4. Extents'
    <2>1. \A x : IsExtent(x) => IsExtent(x)'
      <3>1. CASE ni.no = 2
        BY <3>1, <1>1, <1>3, <1>a DEF IsExtent, Naming
      <3>2. CASE ni.no # 2
        BY <3>2, <1>1, <1>3, Constants DEF IsExtent, Naming
      <3> QED
        BY <3>1, <3>2
    <2>2. \A q \in Rec : rec'[q].seq >= 1 /\ \A x \in rec'[q].ext : IsExtent(x)'
      BY <1>3, <1>a, <2>1 DEF Sound, Extents
    <2>3. \A x \in ni'.rec.ext : IsExtent(x)'
      BY <1>1, <2>1 DEF Sound, Extents
    <2> QED
      BY <1>1, <2>2, <2>3, StagesOpened DEF Extents
  <1>5. Bits'
    <2>1. ni.no \in mftbmp
      BY <1>a DEF Sound, Bits
    <2> QED
      BY <1>1, <1>3, <2>1, StagesOpened DEF Sound, Bits
  <1>6. Dirties'
    BY <1>1, <1>a, StagesOpened DEF Sound, Dirties, Big, Target
  <1>7. Agree(rec, View)'
    <2>1. Agree(With(ni.rec), View) /\ View' = View
      BY <1>1, ViewUnchanged DEF Sound, Stages
    <2> QED
      BY <2>1, <1>2
  <1> QED
    BY <1>1, <1>4, <1>5, <1>6, <1>7, StagesOpened DEF Sound, Stages

LEMMA CloseDirSound ==
    ASSUME Types, Sound, CloseDir, scars' = {}
    PROVE  Sound'
  <1>1. /\ pc = "close_dir" /\ HandlerEnds(call.res, call.torn)
        /\ ents' = [n \in Names |-> IF "dir" \in dirty /\ DirOf[n] = DirOf[Target]
                                     THEN dirm[n] ELSE ents[n]]
        /\ ni' = NoInode /\ dirm' = NoEntries /\ dirty' = {}
        /\ UNCHANGED <<big, rec, mftbmp>>
    BY DEF CloseDir, Released
  <1>a. ents \in [Names -> Entry] /\ call \in Call
    BY DEF Types
  <1>2. pc' \in {"idle", "open"} /\ call'.want = "any"
    BY <1>1, <1>a DEF HandlerEnds, Call
  <1>3. ents' = View
    <2>1. "dir" \in dirty => DirOf[Target] \notin big
      BY DEF Sound, Dirties
    <2>2. \A n \in Names : ~Big(n) /\ dirm[n] # ents[n] =>
             "dir" \in dirty /\ DirOf[n] = DirOf[Target]
      BY <1>1 DEF Sound, Dirties
    <2>3. \A n \in Names : (IF "dir" \in dirty /\ DirOf[n] = DirOf[Target]
                            THEN dirm[n] ELSE ents[n]) = Seen(n)
      BY <2>1, <2>2 DEF Seen, Big
    <2> QED
      BY <1>1, <2>3 DEF View
  <1>4. Extents'
    <2>1. \A x : IsExtent(x) => IsExtent(x)'
      BY <1>1, <1>2, StagesOpened DEF IsExtent
    <2> QED
      BY <1>1, <1>2, <2>1, BlankRecord, StagesOpened DEF Sound, Extents
  <1>5. Bits'
    BY <1>1, <1>2, StagesOpened DEF Sound, Bits
  <1>6. Dirties'
    BY <1>1, <1>2, StagesOpened DEF Dirties
  <1>7. Agree(rec, ents)'
    BY <1>1, <1>3 DEF Sound, Stages
  <1> QED
    BY <1>2, <1>4, <1>5, <1>6, <1>7, StagesOpened DEF Sound, Stages
-----------------------------------------------------------------------------
LEMMA NextSound ==
    ASSUME Types, Sound, [Next]_vars, scars' = {}
    PROVE  Sound'
  <1>a. \A n \in UserNames : n \in Names
    BY DEF UserNames
  <1>1. ASSUME NEW n \in UserNames, Create(n) PROVE Sound'
    BY <1>1, <1>a, StartSound DEF Create
  <1>2. ASSUME NEW o \in Names, NEW n \in UserNames, Link(o, n) \/ Rename(o, n) PROVE Sound'
    BY <1>2, <1>a, StartSound DEF Link, Rename
  <1>3. ASSUME NEW n \in Names, Unlink(n) PROVE Sound'
    BY <1>3, StartSound DEF Unlink
  <1>4. ASSUME NEW r \in Rec, NEW c \in Cluster, Grow(r, c) PROVE Sound'
    BY <1>4, GrowSound
  <1>5. CASE Step
    <2>1. ASSUME NEW r \in Rec, AllocRecord(r) PROVE Sound'
      BY <2>1, AllocSound
    <2>2. ASSUME NEW n \in Names, RemoveEntry(n) PROVE Sound'
      BY <2>2, RemoveEntrySound
    <2>3. ASSUME NEW n \in Names, RemoveUnsupported(n) PROVE Sound'
      BY <2>3, RemoveUnsupportedSound
    <2>4. \A n \in Names : ~RemoveEntryFails(n)
      BY DEF RemoveEntryFails
    <2>5. ~RemoveNameFails /\ ~TakeBackFails
      BY DEF RemoveNameFails, TakeBackFails
    <2> QED
      BY <1>5, <2>1, <2>2, <2>3, <2>4, <2>5, OpenBothSound, OpenFailsSound, AddRefusedSound,
         AddEntrySound, AddNameSound, AddNameFailsSound, TakeBackSound, RemoveRefusedSound,
         RemoveNameSound, FreeClustersSound, FreeExtentSound, ClearExtentBitSound,
         ExtentsDoneSound, FreeBaseSound, ClearBitSound, CloseFileSound, CloseDirSound DEF Step
  <1>6. ~Crash
    BY DEF Crash
  <1>7. CASE UNCHANGED vars
    <2>1. UNCHANGED <<big, rec, ents, mftbmp, ni, dirm, dirty, pc, call>>
      BY <1>7 DEF vars, disks, mems
    <2>2. View' = View /\ Target' = Target /\ \A n : Big(n)' = Big(n)
      BY <2>1, ViewUnchanged DEF Target, Big
    <2>4. Extents' /\ Bits' /\ Dirties'
      BY <2>1, <2>2 DEF Sound, Extents, IsExtent, Bits, Dirties
    <2>5. Stages'
      BY <2>1, <2>2 DEF Sound, Stages, Adding, NameMissing, With, Unnamed, Blank, NoName
    <2> QED
      BY <2>4, <2>5 DEF Sound
  <1> QED
    BY <1>1, <1>2, <1>3, <1>4, <1>5, <1>6, <1>7 DEF Next

(* Between calls every entry has its FILE_NAME in the record it gives,     *)
(* every FILE_NAME its entry, and the link count is the number of names,   *)
(* whatever the calls were and whichever of them failed, unless a write    *)
(* failed, metadata was left inconsistent, or the machine stopped.         *)
THEOREM NamesAgree == Spec => []EntriesMatchNames
  <1>1. Init => NamesInv
    BY InitTypes, InitSound DEF NamesInv
  <1>2. NamesInv /\ [Next]_vars => NamesInv'
    BY NextTypes, NextSound, ScarsStay DEF NamesInv
  <1>3. NamesInv => EntriesMatchNames
    <2> SUFFICES ASSUME NamesInv, pc = "idle", scars = {}
                 PROVE  /\ \A n \in Names : ents[n] # NoEntry =>
                              /\ Leads(n, ents[n].rec, ents[n].seq)
                              /\ rec[ents[n].rec].names[n] = ents[n].ns
                        /\ \A r \in Rec :
                              /\ \A n \in Named(rec[r].names) : ents[n].rec = r
                              /\ rec[r].links = Cardinality(Named(rec[r].names))
      BY DEF EntriesMatchNames
    <2>1. Agree(rec, ents)
      BY DEF NamesInv, Sound, Stages
    <2> QED
      BY <2>1 DEF Agree, EntryAgrees, RecordAgrees, Leads, Named
  <1> QED
    BY <1>1, <1>2, <1>3, PTL DEF Spec
-----------------------------------------------------------------------------
(***************************************************************************)
(* Promises.  What follows holds after failures and stops as well.         *)
(***************************************************************************)
InHand == Opened \union {"close_dir"}
Making == pc = "add" /\ call.phase = "create"
Pairs == {Short, Long}

(* The link count of a record may be too high and is never too low: what   *)
(* has a name left is not freed.  A WIN32 name and a DOS name are those of *)
(* the pair.                                                               *)
Paired(names) ==
    \A n \in Names : (names[n] = "win32" => n = Long) /\ (names[n] = "dos" => n = Short)
Counted(names, links) == links >= Cardinality(Named(names))
Counts ==
    /\ \A r \in Rec : Paired(rec[r].names) /\ Counted(rec[r].names, rec[r].links)
    /\ pc \in Naming => Paired(ni.rec.names)
    /\ pc \in Naming /\ ~Making => Counted(ni.rec.names, ni.rec.links)
    /\ pc = "unname" => ni.rec.names[call.victim] # "none"
    /\ Making => Cardinality(Named(ni.rec.names)) <= 1

(* A record in use has its bit, and the open file is in use until it is    *)
(* freed.                                                                  *)
InUse ==
    /\ \A r \in Rec : rec[r].used => r \in mftbmp
    /\ pc \in Opened \ {"bit"} =>
          rec[ni.no].used /\ ni.rec.used /\ rec[ni.no].seq = ni.rec.seq
    /\ pc = "bit" => ~rec[ni.no].used
    /\ pc = "ext_bit" => ni.rec.ext # {} /\ ~rec[2].used

(* The only extent is record 2, of the first file, as long as it has the   *)
(* number it had at first; then nothing else leads to it.                  *)
HasExtent == rec[1].ext # {} \/ (pc \in Opened /\ ni.rec.ext # {})
Parts ==
    /\ \A r \in Rec : rec[r].seq >= 1
    /\ \A r \in Rec : rec[r].ext # {} => r = 1 /\ rec[r].ext = {<<2, 1>>}
    /\ pc \in Opened /\ ni.rec.ext # {} => ni.no = 1 /\ ni.rec.ext = {<<2, 1>>}
    /\ pc \in Naming \union {"clusters"} => ni.rec.ext = rec[ni.no].ext
    /\ pc \in {"exts", "ext_bit"} /\ ni.rec.ext # {} => rec[2].seq = 1 \/ ~rec[2].used
    /\ HasExtent =>
          /\ rec[2].seq = 1 => rec[2].used
          /\ \A n \in Names : ents[n].rec = 2 \/ dirm[n].rec = 2 => rec[2].seq # 1
          /\ pc \in Opened /\ ni.no = 2 => rec[2].seq # 1

(* The clusters of a record are in use, unless they are being freed or     *)
(* were left in it, and no two records have one.                           *)
Maps ==
    /\ pc \in Naming \union {"clusters"} => ni.rec.map = rec[ni.no].map
    /\ \A r \in Rec : \/ rec[r].map \subseteq bmp \union exposed
                      \/ pc \in {"exts", "ext_bit", "base"} /\ r = ni.no
    /\ \A r, q \in Rec : r # q => rec[r].map \intersect rec[q].map \subseteq exposed

(* The stages of a call.                                                   *)
Phases ==
    /\ call.op = "create" <=> call.phase = "create"
    /\ call.op = "link" => call.phase = "link"
    /\ call.op = "unlink" => call.phase = "rm"
    /\ call.op = "rename" => call.phase # "create"
    /\ call.op # "none"
    /\ call.op # "unlink" => call.new # Short
    /\ pc = "add" => call.phase \in {"create", "link"}
    /\ pc \in {"name", "back"} => call.phase = "link"
    /\ pc \in {"find", "unname"} => call.phase \in {"rm", "undo"}
    /\ pc \in Freeing => call.phase # "link"
    /\ pc \in Freeing /\ call.phase = "create" => pc \in {"base", "bit"} /\ call.res = "fail"
    /\ pc \in {"open", "add", "name", "find", "unname"} => call.res = "ok"
    /\ pc = "back" => call.res = "fail"
    /\ call.phase \in {"link", "create"} => ~call.gone
Victim ==
    /\ pc = "open" => call.want = "any"
    /\ pc \in {"find", "unname"} /\ call.want # "any" => Target \in Pairs
    /\ pc = "find" => call.want \in {"any", "win32"}
    /\ pc = "unname" => \/ call.want = "any" /\ call.victim = Target
                        \/ call.want = "dos" /\ call.victim = Short
                        \/ call.want = "win32" /\ call.victim = Long
Stage ==
    /\ pc # "idle" => Phases /\ Victim
    /\ pc \in {"idle", "open"} => dirty = {}
    /\ "dir" \in dirty => DirOf[Target] \notin big

(* What a caller asked to remove covers all that is removed for it.        *)
Covers(names) == call.old \in Pairs /\ names[Short] # "none" => Pairs \subseteq call.asked
Asking ==
    pc # "idle" /\ call.op \in {"unlink", "rename"} =>
      /\ call.old \in call.asked
      /\ call.phase # "undo" /\ pc = "open" /\ ents[call.old] # NoEntry =>
            Covers(rec[ents[call.old].rec].names)
      /\ call.phase = "link" /\ pc \in InHand =>
            /\ ents[call.old].rec = ni.no /\ Seen(call.old).rec = ni.no
            /\ Covers(rec[ni.no].names)
            /\ pc \in Naming => Covers(ni.rec.names)
            /\ pc \in {"name", "back"} => call.old # call.new
            /\ pc \in {"close_ni", "close_dir"} /\ call.res = "ok" => call.old # call.new
      /\ call.phase = "rm" =>
            /\ pc = "find" /\ call.want = "any" => Covers(ni.rec.names)
            /\ pc \in {"find", "unname"} /\ call.want # "any" => Pairs \subseteq call.asked
            /\ pc = "unname" => call.victim \in call.asked
            /\ pc \in InHand => \A n \in Names : Seen(n) # ents[n] => n \in call.asked

(* The new name of a call no write of which has failed is where it belongs.*)
LeadsTo(e, r, seq) == e.rec = r /\ e.seq = seq
Put == /\ LeadsTo(Seen(call.new), ni.no, ni.rec.seq)
       /\ Big(call.new) \/ "dir" \in dirty
Added ==
    /\ Making => ni.rec.names[call.new] = "posix" /\ "ni" \in dirty
    /\ pc = "name" /\ ~call.torn => Put
    /\ call.phase \in {"link", "create"} /\ call.res = "ok" /\ ~call.torn =>
          /\ pc = "close_ni" => Put /\ ni.rec.names[call.new] = "posix" /\ "ni" \in dirty
          /\ pc = "close_dir" => /\ Put /\ rec[ni.no].names[call.new] = "posix"
                                 /\ rec[ni.no].used /\ rec[ni.no].seq = ni.rec.seq
                                 /\ rec[ni.no].ext = ni.rec.ext

(* While the old name of a rename is removed, the new one leads to the     *)
(* file, as far as anything depends on it.                                 *)
Removing == pc # "idle" /\ call.op = "rename" /\ call.phase = "rm"
Counting == ~call.torn \/ Hit(call.asked) # {}
NewLeads(no) ==
    /\ LeadsTo(ents[call.new], no, rec[no].seq)
    /\ pc # "open" => LeadsTo(Seen(call.new), no, rec[no].seq)
    /\ rec[no].used /\ rec[no].names[call.new] = "posix"
    /\ \A p \in Hit(call.asked) : p.rec = no
NewThere ==
    Removing /\ Counting =>
      /\ call.old # call.new
      /\ pc = "open" => ents[call.old] # NoEntry /\ NewLeads(ents[call.old].rec)
      /\ pc \in InHand => pc \notin Freeing /\ NewLeads(ni.no)
      /\ pc \in Naming => ni.rec.names[call.new] = "posix"
      /\ pc = "unname" => call.victim # call.new
      /\ ~call.torn => ~call.gone

(* A name of a promise that leads to the file, on disk and as the call     *)
(* sees it, and has its FILE_NAME; and whether one is left if the call     *)
(* goes on to remove what it has in mind.                                  *)
Solid(p, n) ==
    /\ LeadsTo(ents[n], p.rec, p.seq)
    /\ pc \in InHand => LeadsTo(Seen(n), p.rec, p.seq)
    /\ rec[p.rec].names[n] # "none"
    /\ pc \in Naming /\ ni.no = p.rec => ni.rec.names[n] # "none"
Spared ==
    \/ /\ call.phase \in {"link", "create"}
       /\ pc \in {"name", "back"} \/ (pc \in {"close_ni", "close_dir"} /\ call.res = "ok")
    \/ pc # "idle" /\ call.phase = "undo"
NotYet ==
    \/ pc \in {"open", "find"} \/ (pc = "unname" /\ call.want = "dos")
    \/ pc \in {"close_ni", "close_dir"} /\ call.res = "fail" /\ ~call.torn
IsHit(p) == p.any \intersect call.asked # {}
Promise(p) ==
    /\ p \in [rec : Rec, seq : Nat, any : SUBSET (Names \ {Short})]
    /\ rec[p.rec].used /\ rec[p.rec].seq = p.seq
    /\ rec[p.rec].ext # {} => rec[2].used /\ rec[2].seq = 1
    /\ pc \in Freeing \/ Making => p.rec # ni.no
    /\ pc # "idle" /\ call.op = "unlink" => ~IsHit(p)
    /\ Removing /\ IsHit(p) => call.new \in p.any
Leading(p) ==
    /\ \E n \in p.any : Solid(p, n)
    /\ Spared \/ (Removing /\ (NotYet \/ ~IsHit(p))) => \E n \in p.any \ {call.new} : Solid(p, n)
Promises == \A p \in promise : Promise(p) /\ Leading(p)

Lead == Counts /\ InUse /\ Parts /\ Maps /\ Stage /\ Asking /\ Added /\ NewThere /\ Promises
-----------------------------------------------------------------------------
(* What a step does to the call, field by field: nothing to what was asked *)
(* for.                                                                    *)
GoesOn(res, torn) ==
    /\ call'.op = call.op /\ call'.phase = call.phase /\ call'.old = call.old
    /\ call'.new = call.new /\ call'.asked = call.asked /\ call'.ents = call.ents
    /\ Target' = Target
    /\ call'.want = call.want /\ call'.victim = call.victim /\ call'.gone = call.gone
    /\ call'.res = res /\ call'.torn = torn

LEMMA CallGoesOn ==
    ASSUME call \in Call
    PROVE  /\ call' = call => GoesOn(call.res, call.torn)
           /\ call' = Fails => GoesOn("fail", call.torn)
           /\ \A t \in BOOLEAN : call' = [call EXCEPT !.torn = t] => GoesOn(call.res, t)
           /\ \A t \in BOOLEAN : call' = [Fails EXCEPT !.torn = t] => GoesOn("fail", t)
  BY DEF GoesOn, Target, Fails, Call

(* An entry that is put is what the call sees from then on, unless the     *)
(* block is not written; no other entry changes.                           *)
Puts(n, e) ==
    /\ \A m \in Names : m # n => ents'[m] = ents[m] /\ dirm'[m] = dirm[m] /\ Seen(m)' = Seen(m)
    /\ \A m \in Names : Big(m)' = Big(m)
    /\ \/ /\ ~Big(n) /\ ents' = ents /\ dirm'[n] = e /\ Seen(n)' = e
          /\ UNCHANGED <<scars, bounds>>
       \/ /\ Big(n) /\ dirm' = dirm /\ ents'[n] = e /\ Seen(n)' = e
          /\ UNCHANGED <<scars, bounds>>
       \/ /\ Big(n) /\ ents' = ents /\ dirm' = dirm /\ Seen(n)' = Seen(n)
          /\ scars' = scars \union {"torn"} /\ troubles' # troubles

LEMMA PutDoes ==
    ASSUME Types, troubles \in Nat, NEW n \in Names, NEW e, PutEntry(n, e), UNCHANGED big
    PROVE  Puts(n, e)
  <1>a. ents \in [Names -> Entry] /\ dirm \in [Names -> Entry]
    BY DEF Types
  <1>1. \A m \in Names : Big(m)' = Big(m)
    BY DEF Big
  <1>2. CASE ~Big(n) /\ dirm' = [dirm EXCEPT ![n] = e] /\ UNCHANGED <<ents, scars>> /\ NoFault
    BY <1>1, <1>2, <1>a DEF Puts, Seen, NoFault
  <1>3. CASE Big(n) /\ ents' = [ents EXCEPT ![n] = e] /\ UNCHANGED <<dirm, scars>> /\ NoFault
    BY <1>1, <1>3, <1>a DEF Puts, Seen, NoFault
  <1>4. CASE Big(n) /\ Fault /\ scars' = scars \union {"torn"} /\ UNCHANGED <<dirm, ents>>
    <2>1. troubles' # troubles
      BY <1>4 DEF Fault
    <2> QED
      BY <2>1, <1>1, <1>4, <1>a DEF Puts, Seen
  <1> QED
    BY <1>2, <1>3, <1>4 DEF PutEntry

(* What a step leaves alone of the open inode.                             *)
Keeps(names, links) ==
    /\ ni'.no = ni.no
    /\ ni'.rec.used = ni.rec.used /\ ni'.rec.seq = ni.rec.seq
    /\ ni'.rec.ext = ni.rec.ext /\ ni'.rec.map = ni.rec.map
    /\ ni'.rec.names = names /\ ni'.rec.links = links

PlainNames(n) == [ni.rec.names EXCEPT ![n] = IF @ = "win32" THEN "posix" ELSE @]

LEMMA SameMap ==
    ASSUME NEW names, NEW links, NEW ext, SameBut(ni', names, links, ext), ni \in Inode
    PROVE  ni'.rec.map = ni.rec.map
  BY DEF SameBut, Inode, Record

LEMMA InodeKept ==
    ASSUME ni \in Inode, NEW names, NEW links, SameBut(ni', names, links, ni.rec.ext)
    PROVE  Keeps(names, links)
  BY SameMap DEF SameBut, Keeps
LEMMA HandStages ==
    /\ {"add", "name", "back", "find", "unname", "close_ni", "clusters", "exts", "ext_bit",
        "base", "bit", "close_dir"} \subseteq InHand
    /\ {"idle", "open"} \intersect InHand = {}
    /\ Opened \subseteq InHand /\ InHand = Opened \union {"close_dir"}
    /\ {"add", "name", "back", "find", "unname", "close_ni"} \intersect Freeing = {}
    /\ {"clusters", "exts", "ext_bit", "base", "bit"} \subseteq Freeing
    /\ {"clusters", "exts", "ext_bit", "base", "bit", "close_dir"} \intersect Naming = {}
    /\ {"add", "name", "back", "find", "unname", "close_ni"} \subseteq Naming
    /\ "close_dir" \notin Opened
    /\ Opened = Naming \union Freeing
  BY DEF InHand, Opened, Naming, Freeing

(* A step within a handler that writes no record: the question stays the   *)
(* same, and a name it does not touch leads where it led.                  *)
StepsOn ==
    /\ UNCHANGED <<big, rec, promise>> /\ ni'.no = ni.no
    /\ pc \in InHand /\ pc' \in InHand /\ pc # "idle" /\ pc' # "idle" /\ pc' # "open"
    /\ pc' \in Naming => pc \in Naming
    /\ call'.op = call.op /\ call'.phase = call.phase /\ call'.old = call.old
    /\ call'.new = call.new /\ call'.asked = call.asked /\ Target' = Target
    /\ call.torn => call'.torn
Like(e, f) == e.rec = f.rec /\ e.seq = f.seq
Untouched(n) ==
    /\ Like(ents'[n], ents[n]) /\ Like(Seen(n)', Seen(n))
    /\ pc' \in Naming /\ ni.rec.names[n] # "none" => ni'.rec.names[n] # "none"

LEMMA StaysSolid ==
    ASSUME StepsOn, NEW p, NEW n, Solid(p, n), Untouched(n)
    PROVE  Solid(p, n)'
  <1>1. LeadsTo(ents'[n], p.rec, p.seq) /\ LeadsTo(Seen(n)', p.rec, p.seq)
    BY DEF Solid, Untouched, Like, LeadsTo, StepsOn
  <1>2. rec'[p.rec].names[n] # "none"
    BY DEF StepsOn, Solid
  <1>3. pc' \in Naming /\ ni'.no = p.rec => ni'.rec.names[n] # "none"
    BY DEF StepsOn, Solid, Untouched
  <1> QED
    BY <1>1, <1>2, <1>3 DEF Solid, LeadsTo

LEMMA SameHits ==
    ASSUME StepsOn
    PROVE  /\ Hit(call.asked)' = Hit(call.asked) /\ (Counting' => Counting)
           /\ \A p : IsHit(p)' = IsHit(p)
           /\ Removing' = Removing
  BY DEF StepsOn, Hit, Counting, IsHit, Removing

LEMMA PromiseStays ==
    ASSUME StepsOn, NEW p, Promise(p), pc' \in Freeing \/ Making' => p.rec # ni.no
    PROVE  Promise(p)'
  <1>1. IsHit(p)' = IsHit(p) /\ Removing' = Removing
    BY SameHits
  <1> QED
    BY <1>1 DEF StepsOn, Promise

LEMMA LeadingStays ==
    ASSUME StepsOn, NEW p, Leading(p), \A n \in p.any : Solid(p, n) => Untouched(n),
           Spared' \/ (Removing' /\ (NotYet' \/ ~IsHit(p)')) =>
               Spared \/ (Removing /\ (NotYet \/ ~IsHit(p)))
    PROVE  Leading(p)'
  <1>1. \A n \in p.any : Solid(p, n) => Solid(p, n)'
    BY StaysSolid
  <1>2. call'.new = call.new
    BY DEF StepsOn
  <1>3. \E n \in p.any : Solid(p, n)'
    BY <1>1 DEF Leading
  <1>4. Spared' \/ (Removing' /\ (NotYet' \/ ~IsHit(p)')) => \E n \in p.any \ {call'.new} : Solid(p, n)'
    BY <1>1, <1>2 DEF Leading
  <1> QED
    BY <1>3, <1>4 DEF Leading

LEMMA NewStays ==
    ASSUME StepsOn, NewThere, NEW new, new = call.new,
           Removing /\ Counting =>
               /\ Untouched(new) /\ pc' \notin Freeing
               /\ pc' \in Naming => ni'.rec.names[new] = "posix"
               /\ pc' = "unname" => call'.victim # new
               /\ ~call'.torn => ~call'.gone
    PROVE  NewThere'
  <1>1. SUFFICES ASSUME Removing', Counting'
                 PROVE  /\ call'.old # new
                        /\ pc' \notin Freeing /\ NewLeads(ni.no)'
                        /\ pc' \in Naming => ni'.rec.names[new] = "posix"
                        /\ pc' = "unname" => call'.victim # new
                        /\ ~call'.torn => ~call'.gone
    <2>1. call'.new = new /\ pc' \in InHand /\ pc' # "open" /\ pc' # "idle"
      BY DEF StepsOn
    <2> QED
      BY <2>1 DEF NewThere
  <1>2. Removing /\ Counting /\ Hit(call.asked)' = Hit(call.asked)
    BY <1>1, SameHits
  <1>3. NewLeads(ni.no) /\ call.old # new
    BY <1>2 DEF NewThere, StepsOn
  <1>4. LeadsTo(ents[new], ni.no, rec[ni.no].seq) /\ LeadsTo(Seen(new), ni.no, rec[ni.no].seq)
    <2>1. pc # "open" /\ Seen(call.new) = Seen(new)
      BY HandStages DEF StepsOn, Seen, Big
    <2> QED
      BY <1>3, <2>1 DEF NewLeads
  <1>5. LeadsTo(Seen(new)', ni.no, rec[ni.no].seq) /\ LeadsTo(ents'[new], ni.no, rec[ni.no].seq)
    BY <1>2, <1>4 DEF Untouched, Like, LeadsTo
  <1>6. Seen(call.new)' = Seen(new)'
    BY DEF StepsOn, Seen, Big
  <1>7. NewLeads(ni.no)'
    BY <1>2, <1>3, <1>5, <1>6 DEF NewLeads, StepsOn, LeadsTo
  <1>8. call'.old # new
    BY <1>3 DEF StepsOn
  <1> QED
    BY <1>2, <1>7, <1>8
-----------------------------------------------------------------------------
(* The steps that go on to the next stage and leave records, entries and   *)
(* inodes as they are.                                                     *)
Move(from, to, res) == pc = from /\ pc' = to /\ GoesOn(res, call.torn)
Passes ==
    \/ Move("add", "close_ni", "fail") /\ call.phase # "create"
    \/ Move("add", "base", "fail") /\ call.phase = "create"
    \/ Move("name", "back", "fail")
    \/ Move("back", "close_ni", call.res)
    \/ Move("find", "close_ni", "fail")
    \/ Move("exts", "exts", "fail") \/ Move("ext_bit", "exts", "fail")
    \/ Move("exts", "base", call.res)
    \/ Move("bit", "close_dir", call.res) \/ Move("bit", "close_dir", "fail")
    \/ Move("base", "close_dir", "fail")

LEMMA PassDoes ==
    ASSUME Types, \/ AddRefused \/ AddNameFails \/ TakeBackFails \/ RemoveRefused
                  \/ FreeExtentFails \/ NoExtents \/ ClearBit \/ FreeBaseFails
    PROVE  /\ UNCHANGED <<big, rec, ents, bmp, ni, dirm, dirty, promise>> /\ Passes
           /\ mftbmp' = mftbmp \/ (pc = "bit" /\ mftbmp' = mftbmp \ {ni.no})
           /\ exposed \subseteq exposed'
           /\ pc = "base" /\ pc' = "close_dir" => rec[ni.no].map \ bmp \subseteq exposed'
  <1>a. call \in Call
    BY DEF Types
  <1>b. /\ call' = call => GoesOn(call.res, call.torn)
        /\ call' = Fails => GoesOn("fail", call.torn)
    BY <1>a, CallGoesOn
  <1>1. CASE AddRefused
    BY <1>1, <1>b DEF AddRefused, disks, mems, ghosts, Passes, Move
  <1>2. CASE AddNameFails
    BY <1>2, <1>b DEF AddNameFails, disks, mems, ghosts, Passes, Move
  <1>3. CASE TakeBackFails
    BY <1>3, <1>b DEF TakeBackFails, disks, mems, ghosts, Passes, Move
  <1>4. CASE RemoveRefused
    BY <1>4, <1>b DEF RemoveRefused, disks, mems, ghosts, Passes, Move
  <1>5. CASE FreeExtentFails
    BY <1>5, <1>b DEF FreeExtentFails, disks, mems, ghosts, Passes, Move
  <1>6. CASE NoExtents
    BY <1>6, <1>b DEF NoExtents, disks, mems, ghosts, Passes, Move
  <1>7. CASE ClearBit
    BY <1>7, <1>b DEF ClearBit, mems, ghosts, Passes, Move
  <1>8. CASE FreeBaseFails
    BY <1>8, <1>b DEF FreeBaseFails, disks, mems, Passes, Move
  <1> QED
    BY <1>1, <1>2, <1>3, <1>4, <1>5, <1>6, <1>7, <1>8

LEMMA PassLead ==
    ASSUME Types, Lead, \/ AddRefused \/ AddNameFails \/ TakeBackFails \/ RemoveRefused
                        \/ FreeExtentFails \/ NoExtents \/ ClearBit \/ FreeBaseFails
    PROVE  Lead'
  <1>1. /\ UNCHANGED <<big, rec, ents, bmp, ni, dirm, dirty, promise>> /\ Passes
        /\ mftbmp' = mftbmp \/ (pc = "bit" /\ mftbmp' = mftbmp \ {ni.no})
        /\ exposed \subseteq exposed'
        /\ pc = "base" /\ pc' = "close_dir" => rec[ni.no].map \ bmp \subseteq exposed'
    BY PassDoes
  <1>2. /\ pc # "idle" /\ call'.op = call.op /\ call'.phase = call.phase /\ call'.old = call.old
        /\ call'.new = call.new /\ call'.asked = call.asked /\ call'.want = call.want
        /\ call'.victim = call.victim /\ call'.gone = call.gone /\ call'.torn = call.torn
        /\ Target' = Target
    BY <1>1 DEF Passes, Move, GoesOn
  <1>3. /\ pc' \in {"back", "close_ni", "exts", "base", "close_dir"}
        /\ pc' \in {"back", "close_ni"} => pc \in {"add", "name", "back", "find"}
        /\ pc' \in {"back", "close_ni"} /\ pc = "add" => call.phase # "create"
        /\ pc' \in {"exts", "base"} => \/ pc \in {"exts", "ext_bit"}
                                       \/ pc = "add" /\ call.phase = "create"
        /\ pc' = "exts" => pc \in {"exts", "ext_bit"}
        /\ pc' = "close_dir" => pc \in {"base", "bit"}
        /\ pc' \in Naming => pc \in Naming
    BY <1>1, HandStages DEF Passes, Move
  <1>4. StepsOn
    BY <1>1, <1>2, <1>3, HandStages DEF StepsOn
  <1>5. \A n \in Names : Seen(n)' = Seen(n) /\ Big(n)' = Big(n)
    BY <1>1 DEF Seen, Big
  <1>6. \A n \in Names : Untouched(n)
    BY <1>1, <1>5 DEF Untouched, Like
  <1>c. Counts'
    BY <1>1, <1>3, HandStages DEF Lead, Counts, Making
  <1>i. InUse'
    BY <1>1, <1>3, HandStages DEF Lead, InUse
  <1>p. Parts'
    <2>1. HasExtent' => HasExtent
      BY <1>1, <1>3, HandStages DEF HasExtent
    <2> QED
      BY <1>1, <1>3, <2>1, HandStages DEF Lead, Parts
  <1>m. Maps'
    BY <1>1, <1>3, HandStages DEF Lead, Maps
  <1>s. Stage'
    <2>1. Phases /\ Victim
      BY <1>2 DEF Lead, Stage
    <2>2. Phases'
      BY <1>1, <2>1, HandStages DEF Phases, Passes, Move, GoesOn
    <2>3. Victim'
      BY <1>2, <1>3 DEF Victim
    <2> QED
      BY <1>1, <1>2, <1>3, <2>2, <2>3 DEF Lead, Stage
  <1>7. call'.res = "ok" /\ pc' \in {"close_ni", "close_dir"} => call.phase \in {"rm", "undo"}
    <2>1. Phases
      BY <1>2 DEF Lead, Stage
    <2>2. call.phase \in {"create", "link", "rm", "undo"}
      BY DEF Types, Call
    <2> QED
      BY <1>1, <2>1, <2>2, HandStages DEF Phases, Passes, Move, GoesOn
  <1>8. pc' \notin {"find", "unname", "open", "add", "name"}
    BY <1>3
  <1>a. Asking'
    <2>1. SUFFICES ASSUME call.op \in {"unlink", "rename"} PROVE Asking'
      BY <1>2 DEF Asking
    <2>2. Asking
      BY DEF Lead
    <2>3. pc \in InHand
      BY <1>4 DEF StepsOn
    <2>4. call.old \in call.asked
      BY <2>1, <2>2, <1>2 DEF Asking
    <2>5. call.phase = "link" =>
            /\ ents[call.old].rec = ni.no /\ Seen(call.old).rec = ni.no
            /\ Covers(rec[ni.no].names)
            /\ pc' \in Naming => Covers(ni.rec.names)
            /\ pc \in {"name", "back"} => call.old # call.new
      BY <2>1, <2>2, <2>3, <1>2, <1>3 DEF Asking
    <2>6. call.phase = "rm" => \A n \in Names : Seen(n) # ents[n] => n \in call.asked
      BY <2>1, <2>2, <2>3, <1>2 DEF Asking
    <2>7. pc' = "back" => pc \in {"name", "back"}
      BY <1>1 DEF Passes, Move
    <2>8. Seen(call.old)' = Seen(call.old)
      BY <1>1, <1>2 DEF Seen, Big
    <2> QED
      BY <2>4, <2>5, <2>6, <2>7, <2>8, <1>1, <1>2, <1>5, <1>7, <1>8 DEF Asking, Covers
  <1>d. Added'
    BY <1>2, <1>7, <1>8 DEF Added, Making
  <1>n. NewThere'
    <2>1. PICK new \in Names : new = call.new
      BY CallParts DEF Types
    <2>2. Removing /\ Counting => pc \notin Freeing /\ pc \in Naming
      BY <1>3, <1>4, HandStages DEF Lead, NewThere, StepsOn
    <2>3. Removing /\ Counting =>
            /\ pc' \notin Freeing
            /\ pc \in Naming => ni.rec.names[new] = "posix"
            /\ ~call.torn => ~call.gone
      BY <1>3, <2>1, <2>2, HandStages DEF Lead, NewThere, Removing
    <2> QED
      BY <1>1, <1>2, <1>3, <1>4, <1>6, <1>8, <2>1, <2>3, NewStays DEF Lead
  <1>r. Promises'
    <2>1. SUFFICES ASSUME NEW p \in promise PROVE Promise(p)' /\ Leading(p)'
      BY <1>1 DEF Promises
    <2>2. Promise(p) /\ Leading(p)
      BY DEF Lead, Promises
    <2>3. Promise(p)'
      <3>1. pc' \in Freeing => pc \in Freeing \/ Making
        BY <1>3, HandStages DEF Making
      <3>2. ~Making'
        BY <1>8 DEF Making
      <3> QED
        BY <2>2, <3>1, <3>2, <1>4, PromiseStays DEF Promise
    <2>4. Spared' => Spared
      <3>1. pc' = "back" => pc = "name"
        BY <1>1 DEF Passes, Move
      <3> QED
        BY <3>1, <1>2, <1>7, <1>8 DEF Spared
    <2>5. ASSUME Removing', NotYet', IsHit(p) PROVE NotYet
      <3>1. Removing /\ Hit(call.asked) # {}
        BY <2>5, <1>4, SameHits DEF IsHit, Hit
      <3>2. pc \notin Freeing
        BY <3>1, <1>4 DEF Lead, NewThere, Counting, StepsOn
      <3>3. pc' = "close_ni"
        BY <2>5, <3>2, <1>3, <1>8, HandStages DEF NotYet
      <3>4. pc \in {"add", "name", "back", "find"} /\ call.phase = "rm" /\ Phases
        BY <3>1, <3>3, <1>2, <1>3 DEF Removing, Lead, Stage
      <3> QED
        BY <3>4 DEF Phases, NotYet
    <2>6. Spared' \/ (Removing' /\ (NotYet' \/ ~IsHit(p)')) =>
               Spared \/ (Removing /\ (NotYet \/ ~IsHit(p)))
      BY <2>4, <2>5, <1>4, SameHits
    <2>7. \A n \in p.any : n \in Names
      BY <2>2 DEF Promise
    <2> QED
      BY <2>2, <2>3, <2>6, <2>7, <1>4, <1>6, LeadingStays
  <1> QED
    BY <1>c, <1>i, <1>p, <1>m, <1>s, <1>a, <1>d, <1>n, <1>r DEF Lead
-----------------------------------------------------------------------------
(* What is left of a promise when a name is removed.                       *)
LEMMA LeadingBy ==
    ASSUME StepsOn, NEW p, NEW n \in p.any, n # call.new, Solid(p, n), Untouched(n)
    PROVE  Leading(p)'
  <1>1. Solid(p, n)' /\ n # call'.new
    BY StaysSolid DEF StepsOn
  <1> QED
    BY <1>1 DEF Leading

RemovedIs(n) ==
    /\ n \in Names /\ pc \in {"find", "unname"} /\ call.phase \in {"rm", "undo"}
    /\ call.phase = "rm" => n \in call.asked
    /\ call.phase = "undo" => call.op = "rename" /\ n \in {call.new, Short}
    /\ Removing /\ Counting => n # call.new

LEMMA SomeStays ==
    ASSUME Types, Lead, NEW n, RemovedIs(n), NEW p \in promise
    PROVE  \E m \in p.any : /\ m # n /\ Solid(p, m)
                            /\ m = call.new => call.op = "unlink" \/ (Removing /\ IsHit(p))
  <1>1. Promise(p) /\ Leading(p) /\ Phases
    BY DEF Lead, Promises, Stage, RemovedIs
  <1>2. CASE call.phase = "undo"
    <2>1. Spared
      BY <1>2 DEF Spared, RemovedIs
    <2>2. PICK m \in p.any : m # call.new /\ Solid(p, m)
      BY <1>1, <2>1 DEF Leading
    <2>3. m # Short
      BY <1>1 DEF Promise
    <2> QED
      BY <1>2, <2>2, <2>3 DEF RemovedIs
  <1>3. CASE call.phase = "rm" /\ ~IsHit(p)
    <2>1. \A m \in p.any : m # n
      BY <1>3 DEF IsHit, RemovedIs
    <2>2. PICK m \in p.any : Solid(p, m) /\ (Removing => m # call.new)
      BY <1>1, <1>3 DEF Leading
    <2>3. call.op = "unlink" \/ Removing
      BY <1>1, <1>3 DEF Phases, Removing, RemovedIs, Types, Call
    <2> QED
      BY <2>1, <2>2, <2>3
  <1>4. CASE call.phase = "rm" /\ IsHit(p)
    <2>1. Removing
      BY <1>1, <1>4 DEF Removing, Promise, Phases, RemovedIs, Types, Call
    <2>2. Counting /\ p \in Hit(call.asked)
      BY <1>4 DEF Counting, Hit, IsHit
    <2>3. pc \in InHand /\ pc # "open"
      BY HandStages DEF RemovedIs
    <2>4. NewLeads(ni.no) /\ (pc \in Naming => ni.rec.names[call.new] = "posix")
      BY <2>1, <2>2, <2>3 DEF Lead, NewThere
    <2>5. p.rec = ni.no /\ p.seq = rec[ni.no].seq /\ call.new \in p.any
      BY <2>1, <2>2, <2>4, <1>1, <1>4 DEF NewLeads, Promise
    <2>6. Solid(p, call.new)
      BY <2>3, <2>4, <2>5 DEF NewLeads, Solid
    <2> QED
      BY <2>1, <2>2, <2>5, <2>6, <1>4 DEF RemovedIs
  <1> QED
    BY <1>2, <1>3, <1>4 DEF RemovedIs

LEMMA RemovesLead ==
    ASSUME Types, Lead, StepsOn, NEW n, RemovedIs(n), \A m \in Names : m # n => Untouched(m),
           ~Making', Removing' /\ NotYet' => NotYet /\ (n = Short \/ Untouched(n)),
           \A p \in promise : pc' \in Freeing => p.rec # ni.no
    PROVE  Promises'
  <1>1. SUFFICES ASSUME NEW p \in promise PROVE Promise(p)' /\ Leading(p)'
    BY DEF Promises, StepsOn
  <1>2. Promise(p) /\ Leading(p) /\ (p.any \subseteq Names \ {Short})
    BY DEF Lead, Promises, Promise
  <1>3. Promise(p)'
    BY <1>2, PromiseStays
  <1>4. PICK m \in p.any : /\ m # n /\ Solid(p, m)
                           /\ m = call.new => call.op = "unlink" \/ (Removing /\ IsHit(p))
    BY SomeStays
  <1>5. Untouched(m) /\ Solid(p, m)'
    BY <1>2, <1>4, StaysSolid
  <1>6. CASE Removing' /\ NotYet'
    <2>1. Removing /\ NotYet /\ (n = Short \/ Untouched(n))
      BY <1>6, SameHits
    <2>2. PICK q \in p.any : q # call.new /\ Solid(p, q)
      BY <1>2, <2>1 DEF Leading
    <2> QED
      BY <1>2, <1>3, <2>1, <2>2, LeadingBy
  <1>7. CASE ~(Removing' /\ NotYet')
    <2>1. CASE m # call.new
      BY <2>1, <1>3, <1>4, <1>5, LeadingBy
    <2>2. CASE m = call.new
      <3>1. ~Spared' /\ ~(Removing' /\ ~IsHit(p)')
        <4>1. call.phase = "rm"
          BY <2>2, <1>4 DEF Removing, RemovedIs, Lead, Stage, Phases
        <4>2. call'.phase = "rm" /\ call'.op = call.op /\ IsHit(p)' = IsHit(p) /\ Removing' = Removing
          BY <4>1, SameHits DEF StepsOn
        <4> QED
          BY <4>2, <2>2, <1>4 DEF Spared, Removing
      <3> QED
        BY <1>3, <1>4, <1>5, <1>7, <3>1 DEF Leading
    <2> QED
      BY <2>1, <2>2
  <1> QED
    BY <1>6, <1>7

-----------------------------------------------------------------------------
(* Counting names.                                                         *)
LEMMA NameCounts ==
    ASSUME NEW names \in [Names -> NameKind], NEW n \in Names
    PROVE  /\ Cardinality(Named(names)) \in Nat
           /\ names[n] # "none" => Cardinality(Named(names)) >= 1
           /\ \A k \in NameKind :
                 Cardinality(Named([names EXCEPT ![n] = k])) <= Cardinality(Named(names)) + 1
           /\ names[n] # "none" =>
                 Cardinality(Named([names EXCEPT ![n] = "none"])) = Cardinality(Named(names)) - 1
  <1>1. IsFiniteSet(Named(names))
    BY Constants, FS_Subset DEF Named
  <1>2. Cardinality(Named(names)) \in Nat
    BY <1>1, FS_CardinalityType
  <1>3. ASSUME names[n] # "none"
        PROVE  /\ Cardinality(Named(names)) >= 1
               /\ Cardinality(Named([names EXCEPT ![n] = "none"])) = Cardinality(Named(names)) - 1
    <2>1. n \in Named(names) /\ Named([names EXCEPT ![n] = "none"]) = Named(names) \ {n}
      BY <1>3 DEF Named
    <2>2. Cardinality(Named(names) \ {n}) = Cardinality(Named(names)) - 1
          /\ Cardinality(Named(names) \ {n}) \in Nat
      <3>1. IsFiniteSet(Named(names) \ {n})
        BY <1>1, FS_Subset
      <3> QED
        BY <1>1, <2>1, <3>1, FS_RemoveElement, FS_CardinalityType
    <2>3. Cardinality(Named([names EXCEPT ![n] = "none"])) = Cardinality(Named(names)) - 1
      BY <2>1, <2>2
    <2>4. Cardinality(Named(names)) >= 1
      BY <1>2, <2>2
    <2> QED
      BY <2>3, <2>4
  <1>4. ASSUME NEW k \in NameKind
        PROVE  Cardinality(Named([names EXCEPT ![n] = k])) <= Cardinality(Named(names)) + 1
    <2>1. Named([names EXCEPT ![n] = k]) \subseteq Named(names) \union {n}
      BY DEF Named
    <2>2. IsFiniteSet(Named(names) \union {n})
          /\ Cardinality(Named(names) \union {n}) \in {Cardinality(Named(names)), Cardinality(Named(names)) + 1}
      BY <1>1, FS_AddElement
    <2>3. Cardinality(Named([names EXCEPT ![n] = k])) <= Cardinality(Named(names) \union {n})
          /\ IsFiniteSet(Named([names EXCEPT ![n] = k]))
      BY <2>1, <2>2, FS_Subset
    <2>4. Cardinality(Named([names EXCEPT ![n] = k])) \in Nat
      BY <2>3, FS_CardinalityType
    <2> QED
      BY <1>2, <2>2, <2>3, <2>4
  <1> QED
    BY <1>2, <1>3, <1>4

LEMMA FewerNames ==
    ASSUME NEW names \in [Names -> NameKind], NEW less \in [Names -> NameKind],
           Named(less) \subseteq Named(names)
    PROVE  /\ Cardinality(Named(less)) <= Cardinality(Named(names))
           /\ Cardinality(Named(less)) \in Nat /\ Cardinality(Named(names)) \in Nat
  <1>1. IsFiniteSet(Named(names))
    BY Constants, FS_Subset DEF Named
  <1>2. Cardinality(Named(less)) <= Cardinality(Named(names)) /\ IsFiniteSet(Named(less))
    BY <1>1, FS_Subset
  <1> QED
    BY <1>1, <1>2, FS_CardinalityType

LEMMA PlainIs ==
    ASSUME Types, NEW n \in Names, ni' = Plain(n)
    PROVE  /\ Keeps(ni'.rec.names, ni.rec.links) /\ ni'.rec.names \in [Names -> NameKind]
           /\ Named(ni'.rec.names) = Named(ni.rec.names)
           /\ Paired(ni.rec.names) => Paired(ni'.rec.names)
           /\ \A m \in Names : /\ ni'.rec.names[m] = "none" <=> ni.rec.names[m] = "none"
                               /\ ni.rec.names[m] = "posix" => ni'.rec.names[m] = "posix"
  <1>1. /\ SameBut(ni', ni'.rec.names, ni.rec.links, ni.rec.ext)
        /\ ni'.rec.names = [ni.rec.names EXCEPT ![n] = IF @ = "win32" THEN "posix" ELSE @]
    BY SetPlain DEF Types
  <1>2. Keeps(ni'.rec.names, ni.rec.links)
    BY <1>1, InodeKept DEF Types
  <1>3. ni.rec.names \in [Names -> NameKind]
    BY InodeParts DEF Types
  <1>4. ni'.rec.names \in [Names -> NameKind]
    BY <1>1, <1>3 DEF NameKind, NameSpaces
  <1>5. \A m \in Names : /\ ni'.rec.names[m] = "none" <=> ni.rec.names[m] = "none"
                         /\ ni.rec.names[m] = "posix" => ni'.rec.names[m] = "posix"
                         /\ ni'.rec.names[m] \in {ni.rec.names[m], "posix"}
    BY <1>1, <1>3
  <1> HIDE DEF NameKind
  <1>6. Named(ni'.rec.names) = Named(ni.rec.names)
    BY <1>5 DEF Named
  <1>7. Paired(ni.rec.names) => Paired(ni'.rec.names)
    BY <1>5 DEF Paired
  <1> QED
    BY <1>2, <1>4, <1>5, <1>6, <1>7

(* The steps on names that leave records and bitmaps alone.                *)
LEMMA NamingStays ==
    ASSUME Types, Lead, StepsOn, pc \in Naming, pc' \in Naming \union {"clusters"},
           UNCHANGED <<mftbmp, bmp, exposed>>, Keeps(ni'.rec.names, ni'.rec.links),
           \A n \in Names : ents'[n].rec = 2 \/ dirm'[n].rec = 2 =>
                               ents[n].rec = 2 \/ dirm[n].rec = 2 \/ ni.no = 2
    PROVE  InUse' /\ Parts' /\ Maps'
  <1>1. pc \in Opened \ {"bit"} /\ pc' \in Opened /\ pc' \notin {"bit", "exts", "ext_bit", "base"}
    BY HandStages DEF Naming
  <1>2. InUse'
    BY <1>1 DEF Lead, InUse, StepsOn, Keeps
  <1>3. Maps'
    BY <1>1 DEF Lead, Maps, StepsOn, Keeps, Naming
  <1>4. Parts'
    <2>1. HasExtent' => HasExtent
      BY <1>1 DEF HasExtent, StepsOn, Keeps
    <2>2. Parts
      BY DEF Lead
    <2>3. UNCHANGED rec /\ ni'.no = ni.no /\ ni'.rec.ext = ni.rec.ext
      BY DEF StepsOn, Keeps
    <2>4. HasExtent' => \A n \in Names : ents'[n].rec = 2 \/ dirm'[n].rec = 2 => rec[2].seq # 1
      BY <1>1, <2>1, <2>2 DEF Parts
    <2> QED
      BY <1>1, <2>1, <2>2, <2>3, <2>4 DEF Parts
  <1> QED
    BY <1>2, <1>3, <1>4

-----------------------------------------------------------------------------
(* An entry is added: every name that leads somewhere is another one.      *)
LEMMA AddEntryLead ==
    ASSUME Types, troubles \in Nat, Lead, AddEntry
    PROVE  Lead'
  <1>0. PICK new \in Names : new = call.new
    BY CallParts DEF Types
  <1>1. /\ pc = "add" /\ Seen(new) = NoEntry /\ dirty' = dirty \union DirtyDir(new)
        /\ PutEntry(new, [rec |-> ni.no, seq |-> ni.rec.seq, ns |-> "posix"])
        /\ call' = [call EXCEPT !.torn = Torn]
        /\ \/ call.phase = "create" /\ ni' = [ni EXCEPT !.rec.links = 1] /\ pc' = "close_ni"
           \/ call.phase # "create" /\ ni' = ni /\ pc' = "name"
        /\ UNCHANGED <<big, rec, mftbmp, bmp, promise, exposed>>
    BY <1>0 DEF AddEntry
  <1>2. GoesOn(call.res, Torn) /\ Torn \in BOOLEAN
    BY <1>1, CallGoesOn, CallParts DEF Types
  <1>3. Puts(new, [rec |-> ni.no, seq |-> ni.rec.seq, ns |-> "posix"])
    BY <1>0, <1>1, PutDoes
  <1>4. \/ call.phase = "create" /\ Keeps(ni.rec.names, 1) /\ pc' = "close_ni"
        \/ call.phase # "create" /\ Keeps(ni.rec.names, ni.rec.links) /\ pc' = "name"
    <2>1. CASE call.phase = "create"
      <3>1. SameBut(ni', ni.rec.names, 1, ni.rec.ext)
        BY <1>1, <2>1, SetLinks DEF Types
      <3>2. Keeps(ni.rec.names, 1)
        BY <3>1, InodeKept DEF Types
      <3> QED
        BY <1>1, <2>1, <3>2
    <2>2. CASE call.phase # "create"
      BY <1>1, <2>2 DEF Keeps
    <2> QED
      BY <1>1, <2>1, <2>2
  <1>5. Keeps(ni.rec.names, ni'.rec.links)
    BY <1>4 DEF Keeps
  <1>6. /\ pc # "idle" /\ Phases /\ call.phase \in {"create", "link"} /\ call.res = "ok"
        /\ ni.no \in Rec /\ ni.rec.names \in [Names -> NameKind]
    BY <1>1, HandStages, InodeParts DEF Lead, Stage, Phases, Types, Opened
  <1>7. StepsOn
    BY <1>1, <1>2, <1>5, <1>6, HandStages DEF StepsOn, GoesOn, Keeps, Torn
  <1>8. \A n \in Names : n # new => Untouched(n)
    BY <1>3, <1>5 DEF Untouched, Like, Puts, Keeps
  <1>9. ASSUME NEW n \in Names, Seen(n).rec \in Rec PROVE n # new
    BY <1>1, <1>9, Constants DEF NoEntry
  <1>b. InUse' /\ Parts' /\ Maps'
    <2>1. ASSUME NEW n \in Names, ents'[n].rec = 2 \/ dirm'[n].rec = 2
          PROVE  ents[n].rec = 2 \/ dirm[n].rec = 2 \/ ni.no = 2
      BY <1>3, <2>1 DEF Puts
    <2> QED
      BY <1>1, <1>4, <1>5, <1>7, <2>1, NamingStays, HandStages DEF Keeps
  <1>c. Counts'
    <2>1. pc' \in {"close_ni", "name"} /\ ni'.rec.names = ni.rec.names
      BY <1>4 DEF Keeps
    <2>2. Counted(ni'.rec.names, ni'.rec.links)
      <3>1. CASE call.phase = "create"
        BY <3>1, <1>1, <1>4, <2>1 DEF Lead, Counts, Making, Keeps, Counted
      <3>2. CASE call.phase # "create"
        BY <3>2, <1>1, <1>4, HandStages DEF Lead, Counts, Making, Keeps
      <3> QED
        BY <3>1, <3>2
    <2> QED
      BY <1>1, <2>1, <2>2, HandStages DEF Lead, Counts, Making
  <1>s. Stage'
    <2>1. Phases'
      BY <1>2, <1>4, <1>6, HandStages DEF Phases, GoesOn
    <2>2. Victim'
      BY <1>4 DEF Victim
    <2>3. "dir" \in dirty' => DirOf[Target'] \notin big'
      <3>1. Target = new /\ Target' = Target
        BY <1>0, <1>2, <1>6 DEF Target, GoesOn
      <3> QED
        BY <1>1, <3>1 DEF Lead, Stage, DirtyDir, Big
    <2> QED
      BY <1>4, <2>1, <2>2, <2>3 DEF Stage
  <1>a. Asking'
    <2>1. SUFFICES ASSUME call.op \in {"unlink", "rename"} PROVE Asking'
      BY <1>2 DEF Asking, GoesOn
    <2>2. PICK old \in Names : old = call.old
      BY CallParts DEF Types
    <2>3. /\ call.phase = "link" /\ old \in call.asked
          /\ ents[old].rec = ni.no /\ Seen(old).rec = ni.no
          /\ Covers(rec[ni.no].names) /\ Covers(ni.rec.names)
      BY <2>1, <2>2, <1>1, <1>6, HandStages DEF Asking, Lead, Phases
    <2>4. old # new
      BY <2>3, <1>6, <1>9
    <2>5. ents'[old].rec = ni.no /\ Seen(old)'.rec = ni.no
      BY <2>3, <2>4, <1>8 DEF Untouched, Like
    <2>6. call'.old = old /\ call'.new = new /\ call'.phase = "link" /\ call'.asked = call.asked
      BY <2>2, <2>3, <1>0, <1>2 DEF GoesOn
    <2>7. Seen(call.old)' = Seen(old)'
      BY <2>6 DEF Seen, Big
    <2> QED
      BY <2>3, <2>4, <2>5, <2>6, <2>7, <1>1, <1>4 DEF Asking, Covers, Keeps
  <1>d. Added'
    <2>1. ASSUME ~call'.torn PROVE Put'
      <3>1. ~(troubles' # troubles)
        BY <2>1, <1>2 DEF GoesOn, Torn
      <3>2. Seen(new)' = [rec |-> ni.no, seq |-> ni.rec.seq, ns |-> "posix"]
            /\ Big(new)' = Big(new)
        BY <3>1, <1>3 DEF Puts
      <3>3. call'.new = new /\ Seen(call.new)' = Seen(new)' /\ Big(call.new)' = Big(new)'
        BY <1>0, <1>2 DEF GoesOn, Seen, Big
      <3>4. Big(new) \/ "dir" \in dirty'
        BY <1>1 DEF DirtyDir
      <3> QED
        BY <3>2, <3>3, <3>4, <1>5 DEF Put, LeadsTo, Keeps
    <2>2. call.phase = "create" => ni.rec.names[new] = "posix" /\ "ni" \in dirty
      BY <1>0, <1>1 DEF Lead, Added, Making
    <2> QED
      BY <2>1, <2>2, <1>0, <1>1, <1>2, <1>4 DEF Added, Making, Keeps, GoesOn
  <1>n. NewThere'
    <2>1. ~Removing'
      BY <1>6, <1>7, SameHits DEF Removing
    <2> QED
      BY <2>1 DEF NewThere
  <1>r. Promises'
    <2>1. SUFFICES ASSUME NEW p \in promise PROVE Promise(p)' /\ Leading(p)'
      BY <1>1 DEF Promises
    <2>2. Promise(p) /\ Leading(p)
      BY DEF Lead, Promises
    <2>3. Promise(p)'
      BY <2>2, <1>4, <1>7, PromiseStays, HandStages DEF Making
    <2>4. PICK n \in p.any : Solid(p, n)
      BY <2>2 DEF Leading
    <2>5. n \in Names /\ Seen(n).rec \in Rec
      BY <2>2, <2>4, <1>1, HandStages DEF Promise, Solid, LeadsTo
    <2> QED
      BY <2>3, <2>4, <2>5, <1>0, <1>7, <1>8, <1>9, LeadingBy
  <1> QED
    BY <1>b, <1>c, <1>s, <1>a, <1>d, <1>n, <1>r DEF Lead

(* The entry is taken back: every name that leads somewhere is still       *)
(* another one.                                                            *)
LEMMA TakeBackLead ==
    ASSUME Types, troubles \in Nat, Lead, TakeBack
    PROVE  Lead'
  <1>0. PICK new \in Names : new = call.new
    BY CallParts DEF Types
  <1>1. /\ pc = "back" /\ pc' = "close_ni" /\ PutEntry(new, NoEntry)
        /\ call' = [call EXCEPT !.torn = Torn]
        /\ UNCHANGED <<big, rec, mftbmp, bmp, ni, dirty, promise, exposed>>
    BY <1>0 DEF TakeBack
  <1>2. GoesOn(call.res, Torn) /\ Torn \in BOOLEAN
    BY <1>1, CallGoesOn, CallParts DEF Types
  <1>3. Puts(new, NoEntry)
    BY <1>1, PutDoes
  <1>4. Keeps(ni.rec.names, ni.rec.links) /\ ~Making'
    BY <1>1 DEF Keeps, Making
  <1>6. /\ pc # "idle" /\ Phases /\ call.phase = "link" /\ call.res = "fail"
    BY <1>1 DEF Lead, Stage, Phases
  <1>7. StepsOn
    BY <1>1, <1>2, <1>4, HandStages DEF StepsOn, GoesOn, Keeps, Torn
  <1>8. \A n \in Names : n # new => Untouched(n)
    BY <1>1, <1>3 DEF Untouched, Like, Puts
  <1>b. InUse' /\ Parts' /\ Maps'
    <2>1. ASSUME NEW n \in Names, ents'[n].rec = 2 \/ dirm'[n].rec = 2
          PROVE  ents[n].rec = 2 \/ dirm[n].rec = 2 \/ ni.no = 2
      BY <1>3, <2>1 DEF Puts, NoEntry
    <2> QED
      BY <1>1, <1>4, <1>7, <2>1, NamingStays, HandStages DEF Keeps
  <1>c. Counts'
    BY <1>1, <1>4, HandStages DEF Lead, Counts, Making
  <1>s. Stage'
    BY <1>1, <1>2, <1>6, HandStages DEF Lead, Stage, Phases, Victim, GoesOn
  <1>a. Asking'
    <2>1. SUFFICES ASSUME call.op \in {"unlink", "rename"} PROVE Asking'
      BY <1>2 DEF Asking, GoesOn
    <2>2. PICK old \in Names : old = call.old
      BY CallParts DEF Types
    <2>3. /\ old \in call.asked /\ old # new
          /\ ents[old].rec = ni.no /\ Seen(old).rec = ni.no
          /\ Covers(rec[ni.no].names) /\ Covers(ni.rec.names)
      BY <2>1, <2>2, <1>0, <1>1, <1>6, HandStages DEF Asking, Lead
    <2>5. ents'[old].rec = ni.no /\ Seen(old)'.rec = ni.no
      BY <2>3, <1>8 DEF Untouched, Like
    <2>6. call'.old = old /\ call'.new = new /\ call'.phase = "link" /\ call'.asked = call.asked
          /\ call'.res = "fail"
      BY <2>2, <1>0, <1>2, <1>6 DEF GoesOn
    <2>7. Seen(call.old)' = Seen(old)'
      BY <2>6 DEF Seen, Big
    <2> QED
      BY <2>3, <2>5, <2>6, <2>7, <1>1 DEF Asking, Covers
  <1>d. Added'
    BY <1>1, <1>2, <1>4, <1>6 DEF Added, GoesOn
  <1>n. NewThere'
    <2>1. ~Removing'
      BY <1>6, <1>7, SameHits DEF Removing
    <2> QED
      BY <2>1 DEF NewThere
  <1>r. Promises'
    <2>1. SUFFICES ASSUME NEW p \in promise PROVE Promise(p)' /\ Leading(p)'
      BY <1>1 DEF Promises
    <2>2. Promise(p) /\ Leading(p) /\ p.any \subseteq Names
      BY DEF Lead, Promises, Promise
    <2>3. Promise(p)'
      BY <2>2, <1>1, <1>4, <1>7, PromiseStays, HandStages
    <2>4. PICK n \in p.any : n # call.new /\ Solid(p, n)
      BY <2>2, <1>1, <1>6 DEF Leading, Spared
    <2> QED
      BY <2>2, <2>3, <2>4, <1>0, <1>7, <1>8, LeadingBy
  <1> QED
    BY <1>b, <1>c, <1>s, <1>a, <1>d, <1>n, <1>r DEF Lead

(* Name and count are added: nothing that leads somewhere is touched.      *)
LEMMA AddNameLead ==
    ASSUME Types, Lead, AddName
    PROVE  Lead'
  <1>0. PICK new \in Names : new = call.new
    BY CallParts DEF Types
  <1>1. /\ pc = "name" /\ pc' = "close_ni" /\ dirty' = dirty \union {"ni"}
        /\ ni' = [ni EXCEPT !.rec.names[new] = "posix", !.rec.links = ni.rec.links + 1]
        /\ UNCHANGED <<big, rec, ents, mftbmp, bmp, dirm, call, promise, exposed>>
    BY <1>0 DEF AddName, disks, ghosts
  <1>n. ni.rec.names \in [Names -> NameKind] /\ ni.rec.links \in Int /\ "posix" \in NameKind
    BY InodeParts DEF Types, NameKind, NameSpaces
  <1>4. Keeps([ni.rec.names EXCEPT ![new] = "posix"], ni.rec.links + 1)
    <2>1. SameBut(ni', [ni.rec.names EXCEPT ![new] = "posix"], ni.rec.links + 1, ni.rec.ext)
      <3>1. ni.rec.links + 1 \in Int
        BY <1>n
      <3> QED
        BY <1>1, <1>n, <3>1, SetNameAndLinks DEF Types
    <2> QED
      BY <2>1, InodeKept DEF Types
  <1>5. /\ Keeps(ni'.rec.names, ni'.rec.links) /\ ~Making'
        /\ ni'.rec.names[new] = "posix" /\ \A n \in Names : n # new => ni'.rec.names[n] = ni.rec.names[n]
    BY <1>1, <1>4, <1>n DEF Keeps, Making
  <1>6. /\ pc # "idle" /\ Phases /\ call.phase = "link" /\ call.new # Short
    BY <1>1 DEF Lead, Stage, Phases
  <1>7. StepsOn
    BY <1>1, <1>5, HandStages DEF StepsOn, Keeps, Target
  <1>e. \A n \in Names : Seen(n)' = Seen(n) /\ Big(n)' = Big(n)
    BY <1>1 DEF Seen, Big
  <1>8. \A n \in Names : Untouched(n)
    BY <1>1, <1>5, <1>e DEF Untouched, Like
  <1>b. InUse' /\ Parts' /\ Maps'
    BY <1>1, <1>5, <1>7, NamingStays, HandStages
  <1>c. Counts'
    <2>1. Paired(ni'.rec.names)
      BY <1>1, <1>5, HandStages DEF Lead, Counts, Paired
    <2>2. Counted(ni'.rec.names, ni'.rec.links)
      <3>1. Counted(ni.rec.names, ni.rec.links)
        BY <1>1, HandStages DEF Lead, Counts, Making
      <3>2. Cardinality(Named([ni.rec.names EXCEPT ![new] = "posix"]))
               <= Cardinality(Named(ni.rec.names)) + 1
        BY <1>n, NameCounts
      <3>3. /\ Cardinality(Named([ni.rec.names EXCEPT ![new] = "posix"])) \in Nat
            /\ Cardinality(Named(ni.rec.names)) \in Nat
        BY <1>n, NameCounts
      <3> QED
        BY <3>1, <3>2, <3>3, <1>4, <1>n DEF Counted, Keeps
    <2> QED
      BY <1>1, <1>5, <2>1, <2>2 DEF Lead, Counts
  <1>s. Stage'
    <2>1. Phases'
      BY <1>1, <1>6, HandStages DEF Phases
    <2> QED
      BY <1>1, <1>6, <1>7, <2>1 DEF Lead, Stage, Victim, StepsOn
  <1>a. Asking'
    <2>1. SUFFICES ASSUME call.op \in {"unlink", "rename"} PROVE Asking'
      BY <1>1 DEF Asking
    <2>3. /\ call.old \in call.asked /\ call.old # call.new
          /\ ents[call.old].rec = ni.no /\ Seen(call.old).rec = ni.no
          /\ Covers(rec[ni.no].names) /\ Covers(ni.rec.names)
      BY <2>1, <1>1, <1>6, HandStages DEF Asking, Lead
    <2>4. Covers(ni'.rec.names)
      BY <2>3, <1>0, <1>5, <1>6, Constants DEF Covers
    <2>5. Seen(call.old)' = Seen(call.old)
      BY <1>1 DEF Seen, Big
    <2> QED
      BY <2>3, <2>4, <2>5, <1>1, <1>5, <1>6 DEF Asking, Covers, Keeps
  <1>d. Added'
    <2>1. ~call.torn => Put
      BY <1>1 DEF Lead, Added
    <2>2. ~call.torn => Put'
      <3>1. Seen(call.new)' = Seen(call.new) /\ Big(call.new)' = Big(call.new)
        BY <1>1 DEF Seen, Big
      <3> QED
        BY <2>1, <3>1, <1>1, <1>5 DEF Put, LeadsTo, Keeps
    <2> QED
      BY <2>2, <1>0, <1>1, <1>5 DEF Added
  <1>t. NewThere'
    <2>1. ~Removing'
      BY <1>6, <1>7, SameHits DEF Removing
    <2> QED
      BY <2>1 DEF NewThere
  <1>r. Promises'
    <2>1. SUFFICES ASSUME NEW p \in promise PROVE Promise(p)' /\ Leading(p)'
      BY <1>1 DEF Promises
    <2>2. Promise(p) /\ Leading(p) /\ p.any \subseteq Names
      BY DEF Lead, Promises, Promise
    <2>3. Promise(p)'
      BY <2>2, <1>1, <1>5, <1>7, PromiseStays, HandStages
    <2>4. Spared
      BY <1>1, <1>6 DEF Spared
    <2> QED
      BY <2>2, <2>3, <2>4, <1>7, <1>8, LeadingStays
  <1> QED
    BY <1>b, <1>c, <1>s, <1>a, <1>d, <1>t, <1>r DEF Lead

-----------------------------------------------------------------------------
(* The name ntfs_delete removes next.                                      *)
OneOfPair(n) ==
    /\ Pair(n) /\ Target \in Pairs
    /\ call.phase = "rm" => Pairs \subseteq call.asked
    /\ \/ ni.rec.names[n] = "dos" /\ n = Short
       \/ ni.rec.names[n] = "win32" /\ n = Long /\ call.want = "win32"

LEMMA WantedIs ==
    ASSUME Types, Lead, pc = "find", NEW n \in Names, n \in Wanted
    PROVE  /\ RemovedIs(n) /\ ni.rec.names[n] # "none"
           /\ \/ ni.rec.names[n] = "posix" /\ ~Pair(n) /\ n = Target /\ call.want = "any"
              \/ OneOfPair(n)
  <1>1. /\ Phases /\ Victim /\ call.phase \in {"rm", "undo"} /\ Paired(ni.rec.names)
        /\ call.phase = "rm" => call.op \in {"unlink", "rename"}
        /\ call.phase = "undo" => call.op = "rename" /\ call.new # Short
    <2>1. Phases /\ Victim /\ call.phase \in {"rm", "undo"}
      BY DEF Lead, Stage, Phases
    <2> QED
      BY <2>1, HandStages DEF Phases, Lead, Counts, Types, Call
  <1>2. /\ call.phase = "rm" => Target = call.old
        /\ call.phase # "rm" => Target = call.new
        /\ Target \in Names
    BY CallParts DEF Target, Types
  <1>3. call.phase = "rm" =>
          /\ call.old \in call.asked
          /\ call.want = "any" => Covers(ni.rec.names)
          /\ call.want # "any" => Pairs \subseteq call.asked
    BY <1>1 DEF Lead, Asking
  <1>4. \/ ni.rec.names[n] = "posix" /\ ~Pair(n) /\ n = Target /\ call.want = "any"
        \/ OneOfPair(n)
    <2>1. CASE call.want = "any" /\ ~Pair(Target)
      BY <2>1 DEF Wanted, Pair
    <2>2. CASE call.want = "any" /\ Pair(Target)
      <3>1. ni.rec.names[n] = "dos" /\ n = Short /\ Pair(n)
        BY <2>2, <1>1 DEF Wanted, Paired, Pair
      <3>2. Target \in Pairs
        BY <2>2, <1>1, <1>2 DEF Paired, Pair, Pairs
      <3>3. call.phase = "rm" => Pairs \subseteq call.asked
        BY <2>2, <3>1, <3>2, <1>2, <1>3 DEF Covers
      <3> QED
        BY <3>1, <3>2, <3>3 DEF OneOfPair
    <2>3. CASE call.want # "any"
      <3>1. call.want = "win32" /\ Target \in Pairs
        BY <2>3, <1>1 DEF Victim
      <3>2. ni.rec.names[n] = "win32" /\ n = Long /\ Pair(n)
        BY <3>1, <1>1 DEF Wanted, Paired, Pair
      <3> QED
        BY <3>1, <3>2, <1>3 DEF OneOfPair
    <2> QED
      BY <2>1, <2>2, <2>3
  <1>5. ni.rec.names[n] # "none"
    BY <1>4 DEF OneOfPair
  <1>6. call.phase = "rm" => n \in call.asked
    BY <1>2, <1>3, <1>4 DEF OneOfPair, Pairs
  <1>7. call.phase = "undo" => n \in {call.new, Short}
    BY <1>1, <1>2, <1>4 DEF OneOfPair, Pairs
  <1>8. Removing /\ Counting => n # call.new
    <2>1. SUFFICES ASSUME Removing, Counting PROVE n # call.new
      OBVIOUS
    <2>2. ni.rec.names[call.new] = "posix" /\ call.old # call.new
      BY <2>1, HandStages DEF Lead, NewThere
    <2> QED
      BY <2>1, <2>2, <1>2, <1>4 DEF OneOfPair, Removing
  <1> QED
    BY <1>1, <1>4, <1>5, <1>6, <1>7, <1>8 DEF RemovedIs

(* An entry goes, or is left with a plain name, and with it the handler    *)
(* goes on to the FILE_NAME or gives up.                                   *)
Removal(n) ==
    /\ n \in Names /\ pc = "find" /\ n \in Wanted /\ StepsOn /\ ni' = Plain(n)
    /\ UNCHANGED <<mftbmp, bmp, exposed>>
    /\ \A m \in Names : m # n => ents'[m] = ents[m] /\ dirm'[m] = dirm[m] /\ Seen(m)' = Seen(m)
    /\ ents'[n].rec = 2 \/ dirm'[n].rec = 2 => ents[n].rec = 2 \/ dirm[n].rec = 2
    /\ "dir" \in dirty' => "dir" \in dirty \/ ~Big(n)
    /\ call'.gone = call.gone /\ call'.ents = call.ents
    /\ \/ /\ pc' = "unname" /\ call'.victim = n /\ call'.res = call.res
          /\ call'.want = IF Pair(n) THEN ni.rec.names[n] ELSE call.want
          /\ call'.torn \/ (Seen(n)' = NoEntry /\ (Big(n) \/ "dir" \in dirty'))
       \/ /\ pc' = "close_ni" /\ call'.res = "fail"
          /\ call'.torn \/ Untouched(n)

LEMMA RemovalLead ==
    ASSUME Types, Lead, NEW n, Removal(n)
    PROVE  Lead'
  <1>1. /\ n \in Names /\ pc = "find" /\ n \in Wanted /\ StepsOn /\ ni' = Plain(n)
        /\ pc' \in {"unname", "close_ni"} /\ ~Making'
    BY DEF Removal, Making
  <1>2. /\ RemovedIs(n) /\ ni.rec.names[n] # "none"
        /\ \/ ni.rec.names[n] = "posix" /\ ~Pair(n) /\ n = Target /\ call.want = "any"
           \/ OneOfPair(n)
    BY <1>1, WantedIs
  <1>3. /\ Keeps(ni'.rec.names, ni'.rec.links) /\ ni'.rec.names \in [Names -> NameKind]
        /\ Named(ni'.rec.names) = Named(ni.rec.names) /\ ni'.rec.links = ni.rec.links
        /\ Paired(ni.rec.names) => Paired(ni'.rec.names)
        /\ \A m \in Names : /\ ni'.rec.names[m] = "none" <=> ni.rec.names[m] = "none"
                            /\ ni.rec.names[m] = "posix" => ni'.rec.names[m] = "posix"
    BY <1>1, PlainIs DEF Keeps
  <1>4. \A m \in Names : m # n => Untouched(m)
    BY <1>3 DEF Removal, Untouched, Like
  <1>5. /\ pc # "idle" /\ Phases /\ Victim /\ call.phase \in {"rm", "undo"} /\ call.res = "ok"
        /\ call'.op = call.op /\ call'.phase = call.phase /\ call'.old = call.old
        /\ call'.new = call.new /\ call'.asked = call.asked /\ Target' = Target
        /\ UNCHANGED <<big, rec, promise>> /\ ni'.no = ni.no
        /\ call.torn => call'.torn
    BY <1>1, <1>2 DEF RemovedIs, Lead, Stage, Phases, StepsOn
  <1>b. InUse' /\ Parts' /\ Maps'
    <2>1. \A m \in Names : ents'[m].rec = 2 \/ dirm'[m].rec = 2 =>
                               ents[m].rec = 2 \/ dirm[m].rec = 2 \/ ni.no = 2
      BY DEF Removal
    <2>2. UNCHANGED <<mftbmp, bmp, exposed>>
      BY DEF Removal
    <2> QED
      BY <1>1, <1>3, <2>1, <2>2, NamingStays, HandStages
  <1>c. Counts'
    <2>1. Paired(ni'.rec.names) /\ Counted(ni'.rec.names, ni'.rec.links)
      BY <1>1, <1>3, HandStages DEF Lead, Counts, Making, Counted
    <2>2. pc' = "unname" => ni'.rec.names[call'.victim] # "none"
      BY <1>1, <1>2, <1>3 DEF Removal
    <2> QED
      BY <1>1, <1>5, <2>1, <2>2 DEF Lead, Counts
  <1>s. Stage'
    <2>1. Phases'
      BY <1>1, <1>5, HandStages DEF Removal, Phases
    <2>2. Victim'
      BY <1>1, <1>2, <1>5 DEF Removal, Victim, OneOfPair
    <2>3. "dir" \in dirty' => DirOf[Target] \notin big
      <3>1. DirOf[n] = DirOf[Target]
        BY <1>2, DirAssumption DEF OneOfPair, Pairs
      <3> QED
        BY <3>1 DEF Removal, Lead, Stage, Big
    <2> QED
      BY <1>1, <1>5, <2>1, <2>2, <2>3 DEF Stage
  <1>a. Asking'
    <2>0. call.old \in call.asked
      BY <1>1, <1>5 DEF Lead, Asking, Phases, Types, Call
    <2>1. SUFFICES ASSUME call.phase = "rm" PROVE Asking'
      BY <2>0, <1>1, <1>5 DEF Asking
    <2>2. /\ call.old \in call.asked /\ n \in call.asked
          /\ \A m \in Names : Seen(m) # ents[m] => m \in call.asked
      BY <2>1, <1>1, <1>2, <1>5, HandStages DEF Lead, Asking, RemovedIs, Phases, Types, Call
    <2>3. \A m \in Names : Seen(m)' # ents'[m] => m \in call.asked
      BY <2>2 DEF Removal
    <2>4. pc' = "unname" /\ call'.want # "any" => Pairs \subseteq call.asked
      BY <1>1, <1>2, <2>1 DEF Removal, OneOfPair
    <2>5. pc' = "unname" => call'.victim = n
      BY <1>1 DEF Removal
    <2> QED
      BY <1>1, <1>5, <2>1, <2>2, <2>3, <2>4, <2>5 DEF Asking
  <1>d. Added'
    BY <1>1, <1>5 DEF Added
  <1>n. NewThere'
    <2>1. PICK new \in Names : new = call.new
      BY CallParts DEF Types
    <2>2. Removing /\ Counting =>
            /\ n # new /\ ni.rec.names[new] = "posix"
            /\ ~call.torn => ~call.gone
      BY <1>1, <1>2, <2>1, HandStages DEF Lead, NewThere, RemovedIs
    <2>3. Removing /\ Counting =>
            /\ Untouched(new) /\ pc' \notin Freeing
            /\ pc' \in Naming => ni'.rec.names[new] = "posix"
            /\ pc' = "unname" => call'.victim # new
            /\ ~call'.torn => ~call'.gone
      BY <1>1, <1>3, <1>4, <1>5, <2>2, HandStages DEF Removal
    <2> QED
      BY <1>1, <2>1, <2>3, NewStays DEF Lead
  <1>r. Promises'
    <2>1. ASSUME Removing', NotYet' PROVE NotYet /\ (n = Short \/ Untouched(n))
      <3>1. NotYet
        BY <1>1 DEF NotYet
      <3>2. CASE pc' = "unname"
        <4>1. call'.want = "dos"
          BY <2>1, <3>2 DEF NotYet
        <4>2. n = Short
          BY <4>1, <3>2, <1>2 DEF Removal, OneOfPair, Pair
        <4> QED
          BY <3>1, <4>2
      <3>3. CASE pc' = "close_ni"
        BY <2>1, <3>1, <3>3 DEF NotYet, Removal
      <3> QED
        BY <3>2, <3>3, <1>1
    <2> QED
      BY <1>1, <1>2, <1>4, <2>1, RemovesLead, HandStages
  <1> QED
    BY <1>b, <1>c, <1>s, <1>a, <1>d, <1>n, <1>r DEF Lead

LEMMA EntryRemoval ==
    ASSUME Types, troubles \in Nat, Lead, NEW n \in Names,
           RemoveEntry(n) \/ RemoveUnsupported(n) \/ RemoveEntryFails(n)
    PROVE  Removal(n)
  <1>1. /\ pc = "find" /\ n \in Wanted /\ Seen(n) # NoEntry /\ ni' = Plain(n)
        /\ UNCHANGED <<big, rec, mftbmp, bmp, promise, exposed>>
        /\ pc' \in {"unname", "close_ni"}
    BY DEF RemoveEntry, RemoveUnsupported, RemoveEntryFails, MayRemove, disks
  <1>2. Keeps(ni'.rec.names, ni.rec.links)
        /\ \A m \in Names : ni'.rec.names[m] = "none" <=> ni.rec.names[m] = "none"
    BY <1>1, PlainIs
  <1>3. /\ call'.op = call.op /\ call'.phase = call.phase /\ call'.old = call.old
        /\ call'.new = call.new /\ call'.asked = call.asked /\ Target' = Target
        /\ call'.gone = call.gone /\ call'.ents = call.ents
        /\ call.torn => call'.torn
    <2>1. CASE RemoveEntry(n)
      <3>1. call' = [call EXCEPT !.victim = n, !.torn = Torn,
                                 !.want = IF Pair(n) THEN ni.rec.names[n] ELSE call.want]
        BY <2>1 DEF RemoveEntry
      <3> QED
        BY <3>1, CallParts DEF Types, Call, Target, Torn
    <2>2. CASE RemoveUnsupported(n)
      <3>1. call' = [Fails EXCEPT !.torn = Torn] /\ Torn \in BOOLEAN
        BY <2>2, CallParts DEF RemoveUnsupported, Types
      <3> QED
        BY <3>1, CallGoesOn DEF Types, GoesOn, Torn
    <2>3. CASE RemoveEntryFails(n)
      <3>1. call' = [Fails EXCEPT !.torn = TRUE]
        BY <2>3 DEF RemoveEntryFails
      <3> QED
        BY <3>1, CallGoesOn DEF Types, GoesOn
    <2> QED
      BY <2>1, <2>2, <2>3
  <1>4. StepsOn
    BY <1>1, <1>2, <1>3, HandStages DEF StepsOn, Keeps
  <1>5. CASE RemoveEntry(n)
    <2>1. Puts(n, NoEntry)
      BY <1>1, <1>5, PutDoes DEF RemoveEntry
    <2>2. /\ pc' = "unname"
          /\ "dir" \in dirty' => "dir" \in dirty \/ ~Big(n)
          /\ Big(n) \/ "dir" \in dirty'
      BY <1>5 DEF RemoveEntry, DirtyDir
    <2>3. /\ call'.victim = n /\ call'.res = call.res /\ call'.torn = Torn
          /\ call'.want = IF Pair(n) THEN ni.rec.names[n] ELSE call.want
      BY <1>5 DEF RemoveEntry, Types, Call
    <2>5. call'.torn \/ Seen(n)' = NoEntry
      BY <2>1, <2>3 DEF Puts, Torn
    <2>4. ents'[n].rec = 2 \/ dirm'[n].rec = 2 => ents[n].rec = 2 \/ dirm[n].rec = 2
      BY <2>1 DEF Puts, NoEntry
    <2> QED
      BY <1>1, <1>3, <1>4, <1>5, <2>1, <2>2, <2>3, <2>4, <2>5 DEF Removal, Puts, RemoveEntry
  <1>6. CASE RemoveUnsupported(n)
    <2>1. PICK e : e = [ents[n] EXCEPT !.ns = Plain(n).rec.names[n]]
      OBVIOUS
    <2>2. Big(n) /\ Seen(n) = ents[n] /\ Like(e, ents[n])
      BY <1>1, <1>6, <2>1, EntryParts DEF RemoveUnsupported, Seen, Types, Entry, Like
    <2>3. Puts(n, e)
      BY <1>1, <1>6, <2>1, <2>2, PutDoes DEF RemoveUnsupported
    <2>4. Like(ents'[n], ents[n]) /\ dirm'[n] = dirm[n] /\ Like(Seen(n)', Seen(n))
      BY <2>2, <2>3 DEF Puts, Like
    <2>5. Untouched(n)
      BY <1>2, <2>4 DEF Untouched
    <2>6. pc' = "close_ni" /\ ("dir" \in dirty' => "dir" \in dirty)
      BY <1>6 DEF RemoveUnsupported
    <2>7. call'.res = "fail"
      BY <1>6, CallParts, CallGoesOn DEF RemoveUnsupported, GoesOn, Types
    <2> QED
      BY <1>1, <1>3, <1>4, <2>3, <2>4, <2>5, <2>6, <2>7 DEF Removal, Puts, Like
  <1>7. CASE RemoveEntryFails(n)
    <2>1. /\ pc' = "close_ni" /\ ~Big(n) /\ dirm' = [dirm EXCEPT ![n] = NoEntry] /\ ents' = ents
          /\ call' = [Fails EXCEPT !.torn = TRUE]
      BY <1>7 DEF RemoveEntryFails, disks
    <2>2. call'.res = "fail" /\ call'.torn
      BY <2>1, CallGoesOn DEF GoesOn, Types
    <2>3. /\ \A m \in Names : m # n => dirm'[m] = dirm[m] /\ Seen(m)' = Seen(m)
          /\ dirm'[n] = NoEntry
      BY <1>1, <2>1 DEF Types, Seen, Big
    <2>4. dirm'[n].rec # 2
      BY <2>3 DEF NoEntry
    <2> QED
      BY <1>1, <1>3, <1>4, <2>1, <2>2, <2>3, <2>4 DEF Removal
  <1> QED
    BY <1>5, <1>6, <1>7

(* The FILE_NAME whose entry is gone.                                      *)
LEMMA VictimIs ==
    ASSUME Types, Lead, pc = "unname"
    PROVE  /\ RemovedIs(call.victim) /\ ni.rec.names[call.victim] # "none" /\ Phases /\ Victim
           /\ call.want # "any" => Target \in Pairs
           /\ call.want = "dos" => call.victim = Short
  <1>1. /\ Phases /\ Victim /\ call.phase \in {"rm", "undo"} /\ call.victim \in Names
        /\ call.phase = "undo" => call.op = "rename" /\ call.new # Short
        /\ call.phase = "rm" => call.op \in {"unlink", "rename"}
    <2>1. Phases /\ Victim /\ call.phase \in {"rm", "undo"} /\ call.victim \in Names
      BY CallParts DEF Lead, Stage, Phases, Types
    <2> QED
      BY <2>1 DEF Phases, Types, Call
  <1>2. call.phase = "rm" => call.victim \in call.asked
    BY <1>1 DEF Lead, Asking
  <1>3. call.phase = "undo" => call.victim \in {call.new, Short}
    <2>1. call.phase = "undo" => Target = call.new
      BY DEF Target
    <2> QED
      BY <1>1, <2>1 DEF Victim, Pairs
  <1>4. Removing /\ Counting => call.victim # call.new
    BY HandStages DEF Lead, NewThere
  <1>5. ni.rec.names[call.victim] # "none"
    BY DEF Lead, Counts
  <1> QED
    BY <1>1, <1>2, <1>3, <1>4, <1>5 DEF RemovedIs, Victim

LEMMA RemoveNameLead ==
    ASSUME Types, Lead, RemoveName
    PROVE  Lead'
  <1>0. PICK n \in Names : n = call.victim
    BY CallParts DEF Types
  <1>1. /\ pc = "unname" /\ pc' \in {"find", "clusters", "close_ni"}
        /\ dirty' = dirty \union {"ni"}
        /\ ni' = [ni EXCEPT !.rec.names[n] = "none", !.rec.links = ni.rec.links - 1]
        /\ pc' = IF call.want = "dos" THEN "find"
                 ELSE IF ni'.rec.links = 0 THEN "clusters" ELSE "close_ni"
        /\ UNCHANGED <<big, rec, ents, mftbmp, bmp, dirm, promise, exposed>>
    BY <1>0 DEF RemoveName, disks, ghosts
  <1>2. /\ call'.op = call.op /\ call'.phase = call.phase /\ call'.old = call.old
        /\ call'.new = call.new /\ call'.asked = call.asked /\ Target' = Target
        /\ call'.res = call.res /\ call'.torn = call.torn /\ call'.victim = call.victim
        /\ call'.want = (IF call.want = "dos" THEN "win32" ELSE call.want)
        /\ call'.gone => ni'.rec.links = 0
    <2>1. call' = [call EXCEPT !.want = IF call.want = "dos" THEN "win32" ELSE call.want,
                               !.gone = call.want # "dos" /\ ni'.rec.links = 0]
      BY DEF RemoveName
    <2> QED
      BY <2>1 DEF Types, Call, Target
  <1>n. ni.rec.names \in [Names -> NameKind] /\ ni.rec.links \in Int /\ "none" \in NameKind
    BY InodeParts DEF Types, NameKind
  <1>4. Keeps([ni.rec.names EXCEPT ![n] = "none"], ni.rec.links - 1)
    <2>1. SameBut(ni', [ni.rec.names EXCEPT ![n] = "none"], ni.rec.links - 1, ni.rec.ext)
      <3>1. ni.rec.links - 1 \in Int
        BY <1>n
      <3> QED
        BY <1>1, <1>n, <3>1, SetNameAndLinks DEF Types
    <2> QED
      BY <2>1, InodeKept DEF Types
  <1>5. /\ Keeps(ni'.rec.names, ni'.rec.links) /\ ~Making'
        /\ ni'.rec.names \in [Names -> NameKind] /\ ni'.rec.links = ni.rec.links - 1
        /\ ni'.rec.names[n] = "none" /\ \A m \in Names : m # n => ni'.rec.names[m] = ni.rec.names[m]
    BY <1>1, <1>4, <1>n DEF Keeps, Making
  <1>6. /\ RemovedIs(n) /\ ni.rec.names[n] # "none" /\ Phases /\ Victim
        /\ pc # "idle" /\ call.phase \in {"rm", "undo"}
        /\ call.want # "any" => Target \in Pairs
        /\ call.want = "dos" => n = Short
    BY <1>0, <1>1, VictimIs DEF RemovedIs
  <1>7. StepsOn
    BY <1>1, <1>2, <1>5, HandStages DEF StepsOn, Keeps
  <1>8. \A m \in Names : m # n => Untouched(m)
    BY <1>1, <1>5 DEF Untouched, Like, Seen, Big
  <1>9. Counted(ni'.rec.names, ni'.rec.links)
        /\ \A m \in Names : ni'.rec.names[m] # "none" => ni'.rec.links # 0
    <2>1. Counted(ni.rec.names, ni.rec.links)
      BY <1>1, HandStages DEF Lead, Counts, Making
    <2>2. /\ Cardinality(Named(ni.rec.names)) \in Nat
          /\ Cardinality(Named([ni.rec.names EXCEPT ![n] = "none"])) = Cardinality(Named(ni.rec.names)) - 1
      BY <1>6, <1>n, NameCounts
    <2>3. Counted(ni'.rec.names, ni'.rec.links)
      BY <2>1, <2>2, <1>4, <1>n DEF Counted, Keeps
    <2>4. ASSUME NEW m \in Names, ni'.rec.names[m] # "none" PROVE ni'.rec.links # 0
      <3>1. Cardinality(Named(ni'.rec.names)) \in Nat /\ Cardinality(Named(ni'.rec.names)) >= 1
        BY <2>4, <1>5, NameCounts
      <3> QED
        BY <2>3, <3>1, <1>5, <1>n DEF Counted
    <2> QED
      BY <2>3, <2>4
  <1>b. InUse' /\ Parts' /\ Maps'
    BY <1>1, <1>5, <1>7, NamingStays, HandStages
  <1>c. Counts'
    <2>1. pc' \in Naming => Paired(ni'.rec.names)
      BY <1>1, <1>5, HandStages DEF Lead, Counts, Paired
    <2> QED
      BY <1>1, <1>5, <1>9, <2>1, HandStages DEF Lead, Counts
  <1>s. Stage'
    <2>1. Phases'
      BY <1>1, <1>2, <1>6, HandStages DEF Phases
    <2>2. Victim'
      BY <1>1, <1>2, <1>6 DEF Victim
    <2> QED
      BY <1>1, <1>2, <2>1, <2>2 DEF Lead, Stage
  <1>a. Asking'
    <2>0. call.old \in call.asked
      BY <1>6 DEF Lead, Asking, Phases, Types, Call
    <2>1. SUFFICES ASSUME call.phase = "rm" PROVE Asking'
      BY <2>0, <1>1, <1>2, <1>6 DEF Asking
    <2>2. /\ call.want # "any" => Pairs \subseteq call.asked
          /\ \A m \in Names : Seen(m) # ents[m] => m \in call.asked
      BY <2>1, <1>1, <1>6, HandStages DEF Lead, Asking, Phases, Types, Call
    <2>3. \A m \in Names : Seen(m)' # ents'[m] => m \in call.asked
      BY <2>2, <1>1 DEF Seen, Big
    <2> QED
      BY <1>1, <1>2, <2>0, <2>1, <2>2, <2>3 DEF Asking
  <1>d. Added'
    BY <1>1, <1>2, <1>5, <1>6 DEF Added
  <1>t. NewThere'
    <2>1. PICK new \in Names : new = call.new
      BY CallParts DEF Types
    <2>2. Removing /\ Counting => n # new /\ ni.rec.names[new] = "posix"
      BY <1>1, <1>6, <2>1, HandStages DEF Lead, NewThere, RemovedIs
    <2>3. Removing /\ Counting => ni'.rec.names[new] = "posix" /\ ni'.rec.links # 0 /\ Untouched(new)
      BY <1>5, <1>8, <1>9, <2>2
    <2>4. Removing /\ Counting =>
            /\ Untouched(new) /\ pc' \notin Freeing
            /\ pc' \in Naming => ni'.rec.names[new] = "posix"
            /\ pc' = "unname" => call'.victim # new
            /\ ~call'.torn => ~call'.gone
      BY <1>1, <1>2, <2>3, HandStages
    <2> QED
      BY <1>7, <2>1, <2>4, NewStays DEF Lead
  <1>r. Promises'
    <2>1. ASSUME Removing', NotYet' PROVE NotYet /\ (n = Short \/ Untouched(n))
      <3>1. call.res = "ok"
        BY <1>1, <1>6 DEF Phases
      <3>2. call.want = "dos"
        BY <2>1, <3>1, <1>1, <1>2 DEF NotYet
      <3> QED
        BY <3>2, <1>1, <1>6 DEF NotYet
    <2>2. ASSUME NEW p \in promise, pc' \in Freeing PROVE p.rec # ni.no
      <3>1. PICK m \in p.any : m # n /\ Solid(p, m)
        BY <1>6, SomeStays
      <3>2. m \in Names
        BY DEF Lead, Promises, Promise
      <3>3. p.rec = ni.no => ni.rec.names[m] # "none"
        BY <3>1, <1>1, HandStages DEF Solid
      <3>4. ni'.rec.links = 0
        BY <2>2, <1>1, HandStages
      <3> QED
        BY <3>1, <3>2, <3>3, <3>4, <1>5, <1>9
    <2> QED
      BY <1>5, <1>6, <1>7, <1>8, <2>1, <2>2, RemovesLead
  <1> QED
    BY <1>b, <1>c, <1>s, <1>a, <1>d, <1>t, <1>r DEF Lead

(* The FILE_NAME cannot be removed, or its removal is not finished.        *)
LEMMA RemoveNameFailsLead ==
    ASSUME Types, Lead, RemoveNameFails
    PROVE  Lead'
  <1>0. PICK n \in Names : n = call.victim
    BY CallParts DEF Types
  <1>1. /\ pc = "unname" /\ pc' = "close_ni"
        /\ ni' \in {ni, [ni EXCEPT !.rec.names[n] = "none"]}
        /\ call' = [Fails EXCEPT !.torn = TRUE]
        /\ "dir" \in dirty' => "dir" \in dirty
    BY <1>0 DEF RemoveNameFails
  <1>u. UNCHANGED <<big, rec, ents, mftbmp, bmp, dirm, promise, exposed>>
    BY DEF RemoveNameFails, disks
  <1>2. GoesOn("fail", TRUE)
    BY <1>1, CallGoesOn DEF Types
  <1>n. ni.rec.names \in [Names -> NameKind] /\ ni.rec.links \in Int /\ "none" \in NameKind
    BY InodeParts DEF Types, NameKind
  <1>4. Keeps(ni.rec.names, ni.rec.links) \/ Keeps([ni.rec.names EXCEPT ![n] = "none"], ni.rec.links)
    <2>1. CASE ni' = ni
      BY <2>1 DEF Keeps
    <2>2. CASE ni' = [ni EXCEPT !.rec.names[n] = "none"]
      <3>1. SameBut(ni', [ni.rec.names EXCEPT ![n] = "none"], ni.rec.links, ni.rec.ext)
        BY <2>2, <1>n, SetName DEF Types
      <3> QED
        BY <3>1, InodeKept DEF Types
    <2> QED
      BY <1>1, <2>1, <2>2
  <1>5. /\ Keeps(ni'.rec.names, ni'.rec.links) /\ ~Making'
        /\ ni'.rec.names \in [Names -> NameKind] /\ ni'.rec.links = ni.rec.links
        /\ \A m \in Names : /\ m # n => ni'.rec.names[m] = ni.rec.names[m]
                            /\ ni'.rec.names[m] \in {ni.rec.names[m], "none"}
    BY <1>1, <1>4, <1>n DEF Keeps, Making
  <1>6. /\ RemovedIs(n) /\ Phases /\ Victim /\ pc # "idle" /\ call.phase \in {"rm", "undo"}
    BY <1>0, <1>1, VictimIs DEF RemovedIs
  <1>7. StepsOn
    BY <1>1, <1>u, <1>2, <1>5, HandStages DEF StepsOn, Keeps, GoesOn
  <1>8. \A m \in Names : m # n => Untouched(m)
    BY <1>u, <1>5 DEF Untouched, Like, Seen, Big
  <1>9. Counted(ni'.rec.names, ni'.rec.links)
    <2>1. Counted(ni.rec.names, ni.rec.links)
      BY <1>1, HandStages DEF Lead, Counts, Making
    <2>2. Named(ni'.rec.names) \subseteq Named(ni.rec.names)
      BY <1>5 DEF Named
    <2>3. /\ Cardinality(Named(ni'.rec.names)) <= Cardinality(Named(ni.rec.names))
          /\ Cardinality(Named(ni'.rec.names)) \in Nat /\ Cardinality(Named(ni.rec.names)) \in Nat
      BY <2>2, <1>5, <1>n, FewerNames
    <2> QED
      BY <2>1, <2>3, <1>5, <1>n DEF Counted
  <1>b. InUse' /\ Parts' /\ Maps'
    BY <1>1, <1>u, <1>5, <1>7, NamingStays, HandStages
  <1>c. Counts'
    <2>1. Paired(ni'.rec.names)
      BY <1>1, <1>5, HandStages DEF Lead, Counts, Paired
    <2> QED
      BY <1>1, <1>u, <1>5, <1>9, <2>1, HandStages DEF Lead, Counts
  <1>s. Stage'
    <2>1. Phases'
      BY <1>1, <1>2, <1>6, HandStages DEF Phases, GoesOn
    <2>2. Victim'
      BY <1>1 DEF Victim
    <2> QED
      BY <1>1, <1>u, <1>2, <2>1, <2>2 DEF Lead, Stage, GoesOn
  <1>a. Asking'
    <2>0. call.old \in call.asked
      BY <1>6 DEF Lead, Asking, Phases, Types, Call
    <2>1. SUFFICES ASSUME call.phase = "rm" PROVE Asking'
      BY <2>0, <1>1, <1>2, <1>6 DEF Asking, GoesOn
    <2>2. \A m \in Names : Seen(m) # ents[m] => m \in call.asked
      BY <2>1, <1>1, <1>6, HandStages DEF Lead, Asking, Phases, Types, Call
    <2>3. \A m \in Names : Seen(m)' # ents'[m] => m \in call.asked
      BY <2>2, <1>u DEF Seen, Big
    <2> QED
      BY <1>1, <1>2, <2>0, <2>1, <2>3 DEF Asking, GoesOn
  <1>d. Added'
    BY <1>1, <1>2, <1>5, <1>6 DEF Added, GoesOn
  <1>t. NewThere'
    <2>1. PICK new \in Names : new = call.new
      BY CallParts DEF Types
    <2>2. Removing /\ Counting => n # new /\ ni.rec.names[new] = "posix"
      BY <1>1, <1>6, <2>1, HandStages DEF Lead, NewThere, RemovedIs
    <2>3. Removing /\ Counting =>
            /\ Untouched(new) /\ pc' \notin Freeing
            /\ pc' \in Naming => ni'.rec.names[new] = "posix"
            /\ pc' = "unname" => call'.victim # new
            /\ ~call'.torn => ~call'.gone
      BY <1>1, <1>2, <1>5, <1>8, <2>2, HandStages DEF GoesOn
    <2> QED
      BY <1>7, <2>1, <2>3, NewStays DEF Lead
  <1>r. Promises'
    <2>1. ~NotYet'
      BY <1>1, <1>2 DEF NotYet, GoesOn
    <2>2. pc' \notin Freeing
      BY <1>1, HandStages
    <2> QED
      BY <1>5, <1>6, <1>7, <1>8, <2>1, <2>2, RemovesLead
  <1> QED
    BY <1>b, <1>c, <1>s, <1>a, <1>d, <1>t, <1>r DEF Lead

-----------------------------------------------------------------------------
(* Freeing.  What is freed is of no promise, and nothing but the call's    *)
(* own file is touched.                                                    *)
LEMMA WhileFreeing ==
    ASSUME Types, Lead, pc \in Freeing
    PROVE  /\ Phases /\ ~(Removing /\ Counting) /\ pc # "idle" /\ call.phase # "link"
           /\ pc \notin {"base", "bit"} => call.phase \in {"rm", "undo"}
           /\ \A p \in promise : p.rec # ni.no
  <1>1. pc # "idle" /\ pc \in InHand
    BY HandStages
  <1>2. Phases
    BY <1>1 DEF Lead, Stage
  <1>3. ~(Removing /\ Counting)
    BY <1>1 DEF Lead, NewThere
  <1>4. call.phase # "link" /\ (pc \notin {"base", "bit"} => call.phase \in {"rm", "undo"})
    BY <1>2 DEF Phases, Types, Call
  <1>5. \A p \in promise : p.rec # ni.no
    BY DEF Lead, Promises, Promise
  <1> QED
    BY <1>1, <1>2, <1>3, <1>4, <1>5

LEMMA ExtentStepLead ==
    ASSUME Types, Lead, StepsOn, pc \in {"clusters", "ext_bit"}, pc' = "exts",
           UNCHANGED <<ents, dirm, dirty>>, call'.gone = call.gone
    PROVE  Counts' /\ Stage' /\ Asking' /\ Added' /\ NewThere' /\ Promises'
  <1>1. /\ Phases /\ ~(Removing /\ Counting) /\ call.phase \in {"rm", "undo"}
        /\ \A p \in promise : p.rec # ni.no
        /\ pc \in Freeing
    BY WhileFreeing, HandStages
  <1>2. /\ UNCHANGED <<big, rec, promise>> /\ ni'.no = ni.no /\ pc # "idle"
        /\ call'.op = call.op /\ call'.phase = call.phase /\ call'.old = call.old
        /\ call'.new = call.new /\ call'.asked = call.asked /\ Target' = Target
        /\ ~Making'
    BY DEF StepsOn, Making
  <1>3. \A n \in Names : Seen(n)' = Seen(n)
    BY <1>2 DEF Seen, Big
  <1>4. \A n \in Names : Untouched(n)
    BY <1>3, HandStages DEF Untouched, Like
  <1>c. Counts'
    BY <1>2, HandStages DEF Lead, Counts
  <1>s. Stage'
    <2>1. Phases'
      BY <1>1, <1>2, HandStages DEF Phases
    <2> QED
      BY <1>2, <2>1 DEF Lead, Stage, Victim
  <1>a. Asking'
    <2>1. call.old \in call.asked
      BY <1>1, <1>2 DEF Lead, Asking, Phases, Types, Call
    <2>2. call.phase = "rm" => \A n \in Names : Seen(n) # ents[n] => n \in call.asked
      BY <1>1, <1>2, HandStages DEF Lead, Asking, Phases, Types, Call
    <2>3. call.phase = "rm" => \A n \in Names : Seen(n)' # ents'[n] => n \in call.asked
      BY <2>2, <1>3
    <2> QED
      BY <1>1, <1>2, <2>1, <2>3 DEF Asking
  <1>d. Added'
    BY <1>1, <1>2 DEF Added
  <1>n. NewThere'
    BY <1>1, SameHits DEF NewThere
  <1>r. Promises'
    <2>1. SUFFICES ASSUME NEW p \in promise PROVE Promise(p)' /\ Leading(p)'
      BY <1>2 DEF Promises
    <2>2. Promise(p) /\ Leading(p) /\ p.any \subseteq Names
      BY DEF Lead, Promises, Promise
    <2>3. Promise(p)'
      BY <1>1, <2>2, PromiseStays
    <2>4. Spared' => Spared
      BY <1>1, <1>2 DEF Spared
    <2>5. ~NotYet'
      BY DEF NotYet
    <2>6. Spared' \/ (Removing' /\ (NotYet' \/ ~IsHit(p)')) =>
               Spared \/ (Removing /\ (NotYet \/ ~IsHit(p)))
      BY <2>4, <2>5, SameHits
    <2> QED
      BY <2>2, <2>3, <2>6, <1>4, LeadingStays
  <1> QED
    BY <1>c, <1>s, <1>a, <1>d, <1>n, <1>r

LEMMA FreeClustersLead ==
    ASSUME Types, Lead, FreeClusters
    PROVE  Lead'
  <1>1. /\ pc = "clusters" /\ pc' = "exts" /\ call' \in {call, Fails}
        /\ bmp' \in {bmp, bmp \ ni.rec.map}
        /\ ni' = [ni EXCEPT !.rec.ext = Attached]
        /\ UNCHANGED <<big, rec, ents, mftbmp, dirm, dirty, promise, exposed, scars>>
    BY DEF FreeClusters, ghosts
  <1>2. GoesOn(call.res, call.torn) \/ GoesOn("fail", call.torn)
    BY <1>1, CallGoesOn DEF Types
  <1>3. /\ ni'.no = ni.no /\ ni'.rec.used = ni.rec.used /\ ni'.rec.seq = ni.rec.seq
        /\ ni'.rec.ext = Attached
    <2>1. Attached \in SUBSET (Nat \X Nat)
      BY InodeParts DEF Types, Attached
    <2>2. SameBut(ni', ni.rec.names, ni.rec.links, Attached)
      BY <1>1, <2>1, SetExt DEF Types
    <2> QED
      BY <2>2 DEF SameBut
  <1>4. StepsOn
    BY <1>1, <1>2, <1>3, HandStages DEF StepsOn, GoesOn
  <1>5. Counts' /\ Stage' /\ Asking' /\ Added' /\ NewThere' /\ Promises'
    BY <1>1, <1>2, <1>4, ExtentStepLead DEF GoesOn
  <1>6. Parts'
    <2>1. Parts /\ pc \in Opened
      BY <1>1, HandStages DEF Lead
    <2>2. \A x \in Attached : x \in ni.rec.ext /\ rec[x[1]].seq = x[2]
      BY DEF Attached
    <2>3. Attached # {} => ni.no = 1 /\ Attached = {<<2, 1>>} /\ rec[2].seq = 1
      BY <2>1, <2>2 DEF Parts
    <2>4. HasExtent' => HasExtent
      BY <1>1, <1>3, <2>1, <2>2 DEF HasExtent
    <2> QED
      BY <1>1, <1>3, <2>1, <2>3, <2>4, HandStages DEF Parts
  <1>7. InUse'
    BY <1>1, <1>3, HandStages DEF Lead, InUse
  <1>8. Maps'
    <2>1. ni.rec.map = rec[ni.no].map /\ ni.no \in Rec
      BY <1>1, HandStages DEF Lead, Maps, Types, Opened
    <2>2. ASSUME NEW r \in Rec, r # ni.no PROVE rec[r].map \subseteq bmp' \union exposed
      <3>1. rec[r].map \subseteq bmp \union exposed
        BY <2>2, <1>1 DEF Lead, Maps
      <3>2. rec[r].map \intersect rec[ni.no].map \subseteq exposed
        BY <2>1, <2>2 DEF Lead, Maps
      <3> QED
        BY <1>1, <2>1, <3>1, <3>2
    <2>3. \A r, q \in Rec : r # q => rec[r].map \intersect rec[q].map \subseteq exposed
      BY DEF Lead, Maps
    <2> QED
      BY <1>1, <1>3, <2>2, <2>3, HandStages DEF Maps
  <1> QED
    BY <1>5, <1>6, <1>7, <1>8 DEF Lead

LEMMA ExtentIs ==
    ASSUME Types, Lead, pc \in {"exts", "ext_bit"}, ni.rec.ext # {}
    PROVE  Extent = <<2, 1>> /\ ni.no = 1 /\ ni.rec.ext = {<<2, 1>>} /\ HasExtent
  <1>1. ni.no = 1 /\ ni.rec.ext = {<<2, 1>>}
    BY HandStages DEF Lead, Parts
  <1>2. HasExtent
    BY HandStages DEF HasExtent
  <1> QED
    BY <1>1, <1>2 DEF Extent

LEMMA ClearExtentBitLead ==
    ASSUME Types, Lead, ClearExtentBit
    PROVE  Lead'
  <1>1. /\ pc = "ext_bit" /\ pc' = "exts" /\ mftbmp' = mftbmp \ {Extent[1]}
        /\ ni' = [ni EXCEPT !.rec.ext = ni.rec.ext \ {Extent}]
        /\ UNCHANGED <<big, rec, ents, bmp, dirm, dirty, call, promise, exposed, scars>>
    BY DEF ClearExtentBit, ghosts
  <1>2. ni.rec.ext # {} /\ ~rec[2].used
    BY <1>1 DEF Lead, InUse
  <1>e. Extent = <<2, 1>> /\ ni.no = 1 /\ ni.rec.ext = {<<2, 1>>} /\ HasExtent
    BY <1>1, <1>2, ExtentIs
  <1>3. /\ ni'.no = ni.no /\ ni'.rec.used = ni.rec.used /\ ni'.rec.seq = ni.rec.seq
        /\ ni'.rec.ext = {} /\ mftbmp' = mftbmp \ {2}
    <2>1. ni.rec.ext \ {Extent} \in SUBSET (Nat \X Nat)
      BY InodeParts DEF Types
    <2>2. SameBut(ni', ni.rec.names, ni.rec.links, ni.rec.ext \ {Extent})
      BY <1>1, <2>1, SetExt DEF Types
    <2> QED
      BY <1>1, <1>e, <2>2 DEF SameBut
  <1>4. StepsOn
    BY <1>1, <1>3, HandStages DEF StepsOn, Target
  <1>5. Counts' /\ Stage' /\ Asking' /\ Added' /\ NewThere' /\ Promises'
    BY <1>1, <1>4, ExtentStepLead
  <1>6. Parts'
    <2>1. Parts /\ pc \in Opened /\ pc' \in Opened
      BY <1>1, HandStages DEF Lead
    <2> QED
      BY <1>1, <1>3, <1>e, <2>1, HandStages DEF Parts
  <1>7. InUse'
    BY <1>1, <1>2, <1>3, HandStages DEF Lead, InUse
  <1>8. Maps'
    BY <1>1, <1>3, HandStages DEF Lead, Maps
  <1> QED
    BY <1>5, <1>6, <1>7, <1>8 DEF Lead

(* A record is freed.                                                      *)
LEMMA RecordGoes ==
    ASSUME Types, Lead, NEW r \in Rec, NEW q \in Nat, rec' = [rec EXCEPT ![r] = Blank(q)],
           pc \in Freeing, pc' \in Freeing, pc' \in {"ext_bit", "bit"},
           pc' = "ext_bit" => pc = "exts", pc' = "bit" => pc = "base",
           UNCHANGED <<big, ents, mems, call, promise>>,
           \A p \in promise : p.rec # r /\ (rec[p.rec].ext # {} => r # 2)
    PROVE  Counts' /\ Stage' /\ Asking' /\ Added' /\ NewThere' /\ Promises'
  <1>1. /\ Phases /\ ~(Removing /\ Counting) /\ pc # "idle" /\ call.phase # "link"
        /\ pc \notin {"base", "bit"} => call.phase \in {"rm", "undo"}
        /\ \A p \in promise : p.rec # ni.no
    BY WhileFreeing
  <1>2. /\ \A s \in Rec : s # r => rec'[s] = rec[s]
        /\ rec'[r] = Blank(q)
    BY DEF Types
  <1>3. pc' \notin Naming /\ pc' # "idle" /\ ~Making'
    BY HandStages DEF Making
  <1>u. UNCHANGED <<big, ents, ni, dirm, dirty, call, promise>>
    BY DEF mems
  <1>4. \A n \in Names : Seen(n)' = Seen(n)
    BY <1>u DEF Seen, Big
  <1>c. Counts'
    <2>1. Paired(NoName) /\ Counted(NoName, 0)
      BY NoNamesNoCount DEF Paired, Counted, NoName
    <2>2. \A s \in Rec : Paired(rec'[s].names) /\ Counted(rec'[s].names, rec'[s].links)
      BY <1>2, <2>1, BlankRecord DEF Lead, Counts
    <2> QED
      BY <1>3, <2>2, HandStages DEF Counts
  <1>s. Stage'
    <2>1. Phases'
      BY <1>1, <1>u DEF Phases
    <2> QED
      BY <1>1, <1>u, <1>3, <2>1 DEF Lead, Stage, Victim, Target
  <1>a. Asking'
    <2>1. call.op \in {"unlink", "rename"} => call.old \in call.asked
      BY <1>1 DEF Lead, Asking
    <2>2. call.op \in {"unlink", "rename"} /\ call.phase = "rm" =>
             \A n \in Names : Seen(n) # ents[n] => n \in call.asked
      BY <1>1, HandStages DEF Lead, Asking
    <2>3. call.op \in {"unlink", "rename"} /\ call.phase = "rm" =>
             \A n \in Names : Seen(n)' # ents'[n] => n \in call.asked
      BY <2>2, <1>4, <1>u
    <2> QED
      BY <1>1, <1>u, <2>1, <2>3, HandStages DEF Asking
  <1>d. Added'
    BY <1>3, <1>u DEF Added
  <1>n. NewThere'
    <2>1. ~(Removing /\ Counting)'
      BY <1>1, <1>3, <1>u DEF Removing, Counting, Hit
    <2> QED
      BY <2>1 DEF NewThere
  <1>r. Promises'
    <2>1. SUFFICES ASSUME NEW p \in promise PROVE Promise(p)' /\ Leading(p)'
      BY <1>u DEF Promises
    <2>2. Promise(p) /\ Leading(p) /\ p.any \subseteq Names /\ p.rec \in Rec
      BY DEF Lead, Promises, Promise
    <2>3. rec'[p.rec] = rec[p.rec] /\ (rec[p.rec].ext # {} => rec'[2] = rec[2])
      BY <2>2, <1>2, Constants
    <2>4. Promise(p)'
      BY <2>2, <2>3, <1>1, <1>3, <1>u DEF Promise, Removing, IsHit
    <2>5. ASSUME NEW n \in p.any, Solid(p, n) PROVE Solid(p, n)'
      <3>1. n \in Names /\ pc \in InHand
        BY <2>2, HandStages
      <3> QED
        BY <2>3, <2>5, <3>1, <1>3, <1>4, <1>u DEF Solid, LeadsTo
    <2>6. Spared' => Spared
      BY <1>1, <1>u, <1>3 DEF Spared
    <2>7. ~NotYet'
      BY DEF NotYet
    <2>8. Leading(p)'
      BY <2>2, <2>5, <2>6, <2>7, <1>1, <1>u DEF Leading, Removing, IsHit
    <2> QED
      BY <2>4, <2>8
  <1> QED
    BY <1>c, <1>s, <1>a, <1>d, <1>n, <1>r

LEMMA FreeExtentLead ==
    ASSUME Types, Lead, FreeExtent
    PROVE  Lead'
  <1>1. /\ pc = "exts" /\ pc' = "ext_bit" /\ ni.rec.ext # {}
        /\ rec' = [rec EXCEPT ![Extent[1]] = Blank(Extent[2] + 1)]
        /\ UNCHANGED <<big, ents, mftbmp, bmp, mems, call, promise, exposed, scars>>
    BY DEF FreeExtent, ghosts
  <1>e. Extent = <<2, 1>> /\ ni.no = 1 /\ ni.rec.ext = {<<2, 1>>} /\ HasExtent
    BY <1>1, ExtentIs
  <1>2. rec' = [rec EXCEPT ![2] = Blank(2)] /\ 2 \in Rec
    BY <1>1, <1>e, Constants
  <1>3. \A p \in promise : p.rec # 2 /\ (rec[p.rec].ext # {} => 2 # 2)
    <2>1. SUFFICES ASSUME NEW p \in promise PROVE p.rec # 2 /\ rec[p.rec].ext = {}
      OBVIOUS
    <2>2. Promise(p) /\ Leading(p) /\ Parts /\ p.rec # ni.no /\ p.rec \in Rec
      BY <1>1, WhileFreeing, HandStages DEF Lead, Promises, Promise
    <2>3. rec[p.rec].ext = {}
      BY <2>2, <1>e DEF Parts
    <2>4. PICK n \in p.any : ents[n].rec = p.rec
      BY <2>2 DEF Leading, Solid, LeadsTo
    <2>5. n \in Names
      BY <2>2 DEF Promise
    <2>6. p.rec # 2
      BY <2>2, <2>4, <2>5, <1>1, <1>e DEF Parts, Promise
    <2> QED
      BY <2>3, <2>6
  <1>5. Counts' /\ Stage' /\ Asking' /\ Added' /\ NewThere' /\ Promises'
    BY <1>1, <1>2, <1>3, RecordGoes, HandStages
  <1>6. /\ rec'[2] = Blank(2) /\ \A r \in Rec : r # 2 => rec'[r] = rec[r]
        /\ UNCHANGED <<ni, ents, dirm>> /\ 1 \in Rec
    BY <1>1, <1>2, Constants DEF Types, mems
  <1>b. rec'[2].seq = 2 /\ rec'[2].ext = {} /\ ~rec'[2].used /\ rec'[2].map = {}
    BY <1>6 DEF Blank
  <1>7. Parts'
    <2>1. Parts /\ pc \in Opened /\ pc' \in Opened
      BY <1>1, HandStages DEF Lead
    <2> QED
      BY <1>1, <1>6, <1>b, <1>e, <2>1, HandStages DEF Parts
  <1>8. InUse'
    BY <1>1, <1>6, <1>b, <1>e, HandStages DEF Lead, InUse
  <1>9. Maps'
    <2>1. \A r \in Rec : rec'[r].map \in {rec[r].map, {}}
      BY <1>6, <1>b
    <2> QED
      BY <1>1, <1>6, <2>1, HandStages DEF Lead, Maps
  <1> QED
    BY <1>5, <1>7, <1>8, <1>9 DEF Lead

LEMMA FreeBaseLead ==
    ASSUME Types, Lead, FreeBase
    PROVE  Lead'
  <1>1. /\ pc = "base" /\ pc' = "bit"
        /\ rec' = [rec EXCEPT ![ni.no] = Blank(ni.rec.seq + 1)]
        /\ UNCHANGED <<big, ents, mftbmp, bmp, mems, call, promise, exposed, scars>>
    BY DEF FreeBase, ghosts
  <1>2. /\ ni.no \in Rec /\ ni.rec.seq \in Nat /\ ni.rec.seq + 1 \in Nat /\ ni.rec.seq >= 1 /\ Parts /\ pc \in Opened
        /\ pc' \in Opened
    <2>1. ni.no \in Rec /\ ni.rec.seq \in Nat /\ pc \in Opened \ {"bit"}
      BY <1>1, InodeParts, HandStages DEF Types
    <2>2. rec[ni.no].seq = ni.rec.seq /\ rec[ni.no].seq >= 1
      BY <2>1 DEF Lead, InUse, Parts
    <2> QED
      BY <1>1, <2>1, <2>2, HandStages DEF Lead
  <1>3. \A p \in promise : p.rec # ni.no /\ (rec[p.rec].ext # {} => ni.no # 2)
    <2>1. SUFFICES ASSUME NEW p \in promise, rec[p.rec].ext # {} PROVE ni.no # 2
      BY <1>1, WhileFreeing, HandStages
    <2>2. Promise(p) /\ p.rec \in Rec
      BY DEF Lead, Promises, Promise
    <2>3. rec[2].seq = 1 /\ rec[1].ext # {}
      BY <2>1, <2>2, <1>2 DEF Promise, Parts
    <2> QED
      BY <2>3, <1>2 DEF Parts, HasExtent
  <1>5. Counts' /\ Stage' /\ Asking' /\ Added' /\ NewThere' /\ Promises'
    BY <1>1, <1>2, <1>3, RecordGoes, HandStages
  <1>6. /\ rec'[ni.no] = Blank(ni.rec.seq + 1) /\ \A r \in Rec : r # ni.no => rec'[r] = rec[r]
        /\ UNCHANGED <<ni, ents, dirm>> /\ {1, 2} \subseteq Rec
    BY <1>1, <1>2, Constants DEF Types, mems
  <1>b. /\ rec'[ni.no].seq = ni.rec.seq + 1 /\ rec'[ni.no].ext = {} /\ ~rec'[ni.no].used
        /\ rec'[ni.no].map = {} /\ ni.rec.seq + 1 > 1
    BY <1>2, <1>6 DEF Blank
  <1>7. Parts'
    <2>1. HasExtent' => HasExtent
      BY <1>2, <1>6, <1>b DEF HasExtent
    <2>2. \A r \in Rec : rec'[r].seq = 1 => rec'[r] = rec[r]
      BY <1>6, <1>b
    <2>3. \A r \in Rec : rec'[r].seq >= 1
      BY <1>2, <1>6, <1>b DEF Parts
    <2>4. \A r \in Rec : rec'[r].ext # {} => rec'[r] = rec[r]
      BY <1>6, <1>b
    <2> QED
      BY <1>1, <1>2, <1>6, <2>1, <2>2, <2>3, <2>4, HandStages DEF Parts
  <1>8. InUse'
    BY <1>1, <1>2, <1>6, <1>b, HandStages DEF Lead, InUse
  <1>9. Maps'
    <2>1. \A r \in Rec : rec'[r].map \in {rec[r].map, {}}
      BY <1>6, <1>b
    <2>2. \A r \in Rec : rec'[r].map \subseteq bmp' \union exposed'
      <3>1. \A r \in Rec : r # ni.no => rec[r].map \subseteq bmp \union exposed
        BY DEF Lead, Maps
      <3> QED
        BY <1>1, <1>6, <1>b, <3>1
    <2> QED
      BY <1>1, <2>1, <2>2, HandStages DEF Lead, Maps
  <1> QED
    BY <1>5, <1>7, <1>8, <1>9 DEF Lead

-----------------------------------------------------------------------------
(* Between the calls and at their boundaries.  The names left of a promise *)
(* when some are asked to be removed lead to the file, and there is one if *)
(* the promise is not touched.                                             *)
LEMMA SolidLeads ==
    ASSUME NEW p, Promise(p), NEW n, Solid(p, n)
    PROVE  Leads(n, p.rec, p.seq)
  BY DEF Promise, Solid, LeadsTo, Leads

LEMMA WithoutIs ==
    ASSUME NEW ps, NEW ns, NEW p \in Without(ps, ns),
           \A q \in ps : q \in [rec : Rec, seq : Nat, any : SUBSET (Names \ {Short})]
    PROVE  \E q \in ps : /\ p = [q EXCEPT !.any = LeftOf(q, ns)]
                         /\ p.rec = q.rec /\ p.seq = q.seq /\ p.any = LeftOf(q, ns) /\ p.any # {}
                         /\ p.any = {n \in q.any \ ns : Leads(n, q.rec, q.seq)}
                         /\ q.any \intersect ns # {} => scars = {}
                         /\ p \in [rec : Rec, seq : Nat, any : SUBSET (Names \ {Short})]
  <1>1. PICK q \in ps : p = [q EXCEPT !.any = LeftOf(q, ns)] /\ LeftOf(q, ns) # {}
    BY DEF Without
  <1>2. LeftOf(q, ns) = {n \in q.any \ ns : Leads(n, q.rec, q.seq)}
        /\ (q.any \intersect ns # {} => scars = {})
    BY <1>1 DEF LeftOf
  <1>3. LeftOf(q, ns) \subseteq Names \ {Short}
    BY <1>2
  <1>4. /\ p.rec = q.rec /\ p.seq = q.seq /\ p.any = LeftOf(q, ns)
        /\ p \in [rec : Rec, seq : Nat, any : SUBSET (Names \ {Short})]
    BY <1>1, <1>3
  <1> QED
    BY <1>1, <1>2, <1>4

(* A name that leads has its FILE_NAME as long as nothing has gone wrong.  *)
LEMMA LeadsHasName ==
    ASSUME NEW R, NEW E \in [Names -> Entry], Agree(R, E), NEW n \in Names, NEW r \in Rec, NEW q,
           LeadsTo(E[n], r, q)
    PROVE  R[r].names[n] # "none"
  <1>1. E[n] # NoEntry
    BY Constants DEF LeadsTo, NoEntry
  <1>2. EntryAgrees(R, E[n], n) /\ E[n].ns \in NameSpaces
    BY <1>1, EntryParts DEF Agree
  <1> QED
    BY <1>2 DEF EntryAgrees, LeadsTo, NameSpaces

LEMMA StartLead ==
    ASSUME Types, NamesInv, Lead, NEW op, NEW phase, NEW old \in Names, NEW new \in Names,
           Start(op, phase, old, new),
           \/ op = "create" /\ phase = "create" /\ new # Short /\ promise' = promise
           \/ op \in {"link", "rename"} /\ phase = "link" /\ new # Short /\ promise' = promise
           \/ op = "unlink" /\ phase = "rm" /\ promise' = Without(promise, AskedFor(old))
    PROVE  Lead'
  <1>1. /\ pc = "idle" /\ pc' = "open"
        /\ UNCHANGED <<big, rec, ents, mftbmp, bmp, ni, dirm, dirty, exposed, scars>>
        /\ call' = [NoCall EXCEPT !.op = op, !.phase = phase, !.old = old, !.new = new,
                                  !.asked = AskedFor(old), !.ents = ents]
    BY DEF Start, disks, mems
  <1>2. /\ call'.op = op /\ call'.phase = phase /\ call'.old = old /\ call'.new = new
        /\ call'.asked = AskedFor(old) /\ call'.want = "any" /\ call'.res = "ok"
        /\ ~call'.torn /\ ~call'.gone
    BY <1>1 DEF NoCall
  <1>3. /\ pc' \notin InHand /\ pc' \notin Naming /\ pc' \notin Opened /\ pc' \notin Freeing /\ ~Making'
    BY <1>1, HandStages DEF Making
  <1>c. Counts'
    BY <1>1, <1>3 DEF Lead, Counts
  <1>i. InUse'
    BY <1>1, <1>3 DEF Lead, InUse
  <1>p. Parts'
    <2>1. HasExtent' => HasExtent
      BY <1>1, <1>3 DEF HasExtent
    <2> QED
      BY <1>1, <1>3, <2>1 DEF Lead, Parts
  <1>m. Maps'
    BY <1>1, <1>3 DEF Lead, Maps
  <1>s. Stage'
    <2>1. Phases'
      BY <1>1, <1>2, <1>3 DEF Phases
    <2>2. Victim'
      BY <1>1, <1>2 DEF Victim
    <2>3. dirty' = {}
      BY <1>1 DEF Lead, Stage
    <2> QED
      BY <1>1, <2>1, <2>2, <2>3 DEF Stage
  <1>a. Asking'
    <2>1. old \in AskedFor(old)
      BY DEF AskedFor, Asked
    <2>2. ents[old] # NoEntry /\ old \in Pairs /\ rec[ents[old].rec].names[Short] # "none" =>
              Pairs \subseteq AskedFor(old)
      BY DEF AskedFor, Asked, Pairs
    <2> QED
      BY <1>1, <1>2, <1>3, <2>1, <2>2 DEF Asking, Covers
  <1>d. Added'
    BY <1>1, <1>3 DEF Added
  <1>n. NewThere'
    BY <1>2 DEF NewThere, Removing
  <1>r. Promises'
    <2>1. ~Removing' /\ ~Spared'
      BY <1>1, <1>2 DEF Removing, Spared
    <2>2. \A p, n : LeadsTo(ents[n], p.rec, p.seq) /\ rec[p.rec].names[n] # "none" => Solid(p, n)'
      BY <1>1, <1>3 DEF Solid, LeadsTo
    <2>3. CASE promise' = promise /\ op # "unlink"
      <3>1. SUFFICES ASSUME NEW p \in promise PROVE Promise(p)' /\ Leading(p)'
        BY <2>3 DEF Promises
      <3>2. Promise(p) /\ Leading(p)
        BY DEF Lead, Promises
      <3>3. Promise(p)'
        BY <2>1, <2>3, <3>2, <1>1, <1>2, <1>3 DEF Promise
      <3>4. \E n \in p.any : Solid(p, n)'
        BY <2>2, <3>2 DEF Leading, Solid
      <3> QED
        BY <2>1, <3>3, <3>4 DEF Leading
    <2>4. CASE promise' = Without(promise, AskedFor(old))
      <3>1. SUFFICES ASSUME NEW p \in Without(promise, AskedFor(old)) PROVE Promise(p)' /\ Leading(p)'
        BY <2>4 DEF Promises
      <3>2. \A q \in promise : Promise(q) /\ Leading(q)
            /\ q \in [rec : Rec, seq : Nat, any : SUBSET (Names \ {Short})]
        BY DEF Lead, Promises, Promise
      <3>3. PICK q \in promise :
              /\ p.rec = q.rec /\ p.seq = q.seq /\ p.any # {}
              /\ p.any = {n \in q.any \ AskedFor(old) : Leads(n, q.rec, q.seq)}
              /\ q.any \intersect AskedFor(old) # {} => scars = {}
              /\ p \in [rec : Rec, seq : Nat, any : SUBSET (Names \ {Short})]
        BY <3>2, WithoutIs
      <3>4. Promise(q) /\ Leading(q) /\ q.any \subseteq Names /\ q.rec \in Rec
        BY <3>2 DEF Promise
      <3>5. p.any \intersect AskedFor(old) = {}
        BY <3>3
      <3>6. Promise(p)'
        BY <2>1, <3>3, <3>4, <3>5, <1>1, <1>2, <1>3 DEF Promise, IsHit
      <3>7. \E n \in p.any : Solid(p, n)'
        <4>1. CASE q.any \intersect AskedFor(old) = {}
          <5>1. PICK n \in q.any : Solid(q, n)
            BY <3>4 DEF Leading
          <5>2. n \in p.any
            BY <3>3, <3>4, <4>1, <5>1, SolidLeads
          <5> QED
            BY <2>2, <3>3, <5>1, <5>2 DEF Solid
        <4>2. CASE scars = {}
          <5>1. Agree(rec, ents) /\ ents \in [Names -> Entry]
            BY <4>2, <1>1 DEF NamesInv, Sound, Stages, Types
          <5>2. PICK n \in p.any : n \in Names /\ LeadsTo(ents[n], p.rec, p.seq)
            BY <3>3, <3>4 DEF Leads, LeadsTo
          <5>3. rec[p.rec].names[n] # "none"
            BY <3>3, <3>4, <5>1, <5>2, LeadsHasName
          <5> QED
            BY <2>2, <5>2, <5>3
        <4> QED
          BY <3>3, <4>1, <4>2
      <3> QED
        BY <2>1, <3>6, <3>7 DEF Leading
    <2> QED
      BY <2>3, <2>4
  <1> QED
    BY <1>c, <1>i, <1>p, <1>m, <1>s, <1>a, <1>d, <1>n, <1>r DEF Lead

LEMMA GrowLead ==
    ASSUME Types, Lead, NEW r \in Rec, NEW c \in Cluster, Grow(r, c)
    PROVE  Lead'
  <1>1. /\ pc = "idle" /\ pc' = "idle" /\ c \notin bmp /\ bmp' = bmp \union {c}
        /\ rec' = [rec EXCEPT ![r].map = rec[r].map \union {c}] /\ call' = NoCall
        /\ UNCHANGED <<big, ents, mftbmp, ni, dirm, dirty, promise, exposed, scars>>
    BY DEF Grow, mems, ghosts
  <1>2. \A s \in Rec : /\ rec'[s].used = rec[s].used /\ rec'[s].seq = rec[s].seq
                       /\ rec'[s].names = rec[s].names /\ rec'[s].links = rec[s].links
                       /\ rec'[s].ext = rec[s].ext
                       /\ s # r => rec'[s].map = rec[s].map
                       /\ s = r => rec'[s].map = rec[s].map \union {c}
    BY <1>1 DEF Types, Record
  <1>3. /\ pc' \notin InHand /\ pc' \notin Naming /\ pc' \notin Opened /\ pc' \notin Freeing /\ ~Making'
        /\ pc \notin InHand /\ pc \notin Naming /\ pc \notin Opened /\ pc \notin Freeing
    BY <1>1, HandStages DEF Making
  <1>k. {1, 2} \subseteq Rec
    BY Constants
  <1>c. Counts'
    BY <1>1, <1>2, <1>3 DEF Lead, Counts
  <1>i. InUse'
    BY <1>1, <1>2, <1>3 DEF Lead, InUse
  <1>p. Parts'
    <2>1. HasExtent' => HasExtent
      BY <1>2, <1>3, <1>k DEF HasExtent
    <2> QED
      BY <1>1, <1>2, <1>3, <1>k, <2>1 DEF Lead, Parts
  <1>m. Maps'
    <2>1. \A s \in Rec : rec[s].map \subseteq bmp \union exposed
      BY <1>1 DEF Lead, Maps
    <2>2. \A s, q \in Rec : s # q => rec[s].map \intersect rec[q].map \subseteq exposed
      BY DEF Lead, Maps
    <2>3. \A s \in Rec : rec'[s].map \subseteq bmp' \union exposed'
      BY <2>1, <1>1, <1>2
    <2>4. \A s \in Rec : c \in rec[s].map => c \in exposed
      BY <2>1, <1>1
    <2>5. ASSUME NEW s \in Rec, NEW q \in Rec, s # q
          PROVE  rec'[s].map \intersect rec'[q].map \subseteq exposed'
      BY <2>2, <2>4, <2>5, <1>1, <1>2
    <2> QED
      BY <1>1, <1>3, <2>3, <2>5 DEF Maps
  <1>s. Stage'
    BY <1>1 DEF Lead, Stage
  <1>a. Asking' /\ Added' /\ NewThere'
    BY <1>1 DEF Asking, Added, NewThere, NoCall, Removing, Making
  <1>r. Promises'
    <2>1. ~Removing' /\ ~Spared'
      BY <1>1 DEF Removing, Spared, NoCall
    <2>2. SUFFICES ASSUME NEW p \in promise PROVE Promise(p)' /\ Leading(p)'
      BY <1>1 DEF Promises
    <2>3. Promise(p) /\ Leading(p) /\ p.rec \in Rec
      BY DEF Lead, Promises, Promise
    <2>4. Promise(p)'
      BY <2>1, <2>3, <1>1, <1>2, <1>3, <1>k DEF Promise
    <2>5. \A n \in p.any : Solid(p, n) => Solid(p, n)'
      BY <2>3, <1>1, <1>2, <1>3 DEF Solid, LeadsTo
    <2> QED
      BY <2>1, <2>3, <2>4, <2>5 DEF Leading
  <1> QED
    BY <1>c, <1>i, <1>p, <1>m, <1>s, <1>a, <1>r DEF Lead

LEMMA OpenBothLead ==
    ASSUME Types, Lead, OpenBoth
    PROVE  Lead'
  <1>0. PICK s \in Names : s = Source
    BY CallParts DEF Types
  <1>1. /\ pc = "open" /\ call.phase # "create" /\ ents[s] # NoEntry /\ rec[ents[s].rec].used
        /\ ni' = [no |-> ents[s].rec, rec |-> rec[ents[s].rec]]
        /\ dirm' = ents /\ dirty' = {}
        /\ pc' = (IF call.phase = "link" THEN "add" ELSE "find")
        /\ UNCHANGED <<big, rec, ents, mftbmp, bmp, call, promise, exposed, scars>>
    BY <1>0 DEF OpenBoth, Found, disks, ghosts
  <1>2. ents[s].rec \in Rec /\ ni'.no = ents[s].rec /\ ni'.rec = rec[ni'.no]
    BY <1>1, EntryParts DEF Types
  <1>3. /\ pc' \in InHand /\ pc' \in Naming /\ pc' \in Opened /\ pc' \notin Freeing /\ ~Making'
        /\ pc \notin InHand /\ pc \notin Naming /\ pc \notin Opened /\ pc' # "bit" /\ pc' # "ext_bit"
        /\ pc' \in {"add", "find"}
    BY <1>1, HandStages DEF Making
  <1>4. \A n \in Names : Seen(n)' = ents[n]
    BY <1>1 DEF Seen, Big
  <1>5. /\ Phases /\ Victim /\ call.phase \in {"link", "rm", "undo"}
        /\ call.phase \in {"link", "rm"} => s = call.old
    BY <1>0, <1>1 DEF Lead, Stage, Types, Call, Source, Target
  <1>c. Counts'
    BY <1>1, <1>2, <1>3 DEF Lead, Counts
  <1>i. InUse'
    BY <1>1, <1>2, <1>3, HandStages DEF Lead, InUse
  <1>p. Parts'
    <2>1. Parts
      BY DEF Lead
    <2>2. ni'.rec.ext # {} => ni'.no = 1 /\ ni'.rec.ext = {<<2, 1>>}
      BY <2>1, <1>2 DEF Parts
    <2>3. HasExtent' => HasExtent
      BY <1>1, <1>2, <1>3, <2>2 DEF HasExtent
    <2>4. HasExtent' => /\ \A n \in Names : ents'[n].rec = 2 \/ dirm'[n].rec = 2 => rec[2].seq # 1
                        /\ ni'.no = 2 => rec[2].seq # 1
      BY <2>1, <2>3, <1>1, <1>2 DEF Parts
    <2> QED
      BY <2>1, <2>2, <2>3, <2>4, <1>1, <1>2, <1>3, HandStages DEF Parts
  <1>m. Maps'
    BY <1>1, <1>2, <1>3, HandStages DEF Lead, Maps
  <1>s. Stage'
    <2>1. Phases'
      BY <1>1, <1>3, <1>5 DEF Phases
    <2>2. Victim'
      BY <1>1, <1>3, <1>5 DEF Victim
    <2> QED
      BY <1>1, <1>3, <2>1, <2>2 DEF Stage
  <1>a. Asking'
    <2>1. SUFFICES ASSUME call.op \in {"unlink", "rename"} PROVE Asking'
      BY <1>1 DEF Asking
    <2>2. /\ call.old \in call.asked
          /\ call.phase # "undo" => Covers(rec[ni'.no].names)
      BY <2>1, <1>1, <1>2, <1>5 DEF Lead, Asking
    <2>3. PICK old \in Names : old = call.old
      BY CallParts DEF Types
    <2>4. call.phase = "link" => ents'[call.old].rec = ni'.no /\ Seen(old)'.rec = ni'.no
      BY <2>3, <1>1, <1>2, <1>4, <1>5
    <2>5. Seen(call.old)' = Seen(old)'
      BY <2>3, <1>1 DEF Seen, Big
    <2>6. pc' \in {"add", "find"} /\ call.want = "any" /\ (call.phase = "rm" => pc' # "add")
      BY <1>1, <1>3, <1>5 DEF Victim
    <2>7. ASSUME call.phase = "link"
          PROVE  /\ ents'[call.old].rec = ni'.no /\ Seen(call.old)'.rec = ni'.no
                 /\ Covers(rec[ni'.no].names) /\ pc' = "add"
      BY <2>2, <2>4, <2>5, <2>7, <1>1
    <2>8. \A n \in Names : Seen(n)' = ents'[n]
      BY <1>1, <1>4
    <2> QED
      BY <2>2, <2>6, <2>7, <2>8, <1>1, <1>2, <1>3 DEF Asking, Covers
  <1>d. Added'
    BY <1>1, <1>3 DEF Added
  <1>n. NewThere'
    <2>1. PICK new \in Names : new = call.new
      BY CallParts DEF Types
    <2>2. SUFFICES ASSUME Removing, Counting PROVE NewThere'
      BY <1>1, <1>3 DEF NewThere, Removing, Counting, Hit
    <2>3. s = call.old /\ call.phase = "rm"
      BY <2>2, <1>5 DEF Removing
    <2>4. /\ call.old # call.new /\ NewLeads(ni'.no)
          /\ ~call.torn => ~call.gone
      BY <2>2, <2>3, <1>1, <1>2 DEF Lead, NewThere
    <2>5. LeadsTo(Seen(new)', ni'.no, rec[ni'.no].seq)
      BY <2>1, <2>4, <1>4 DEF NewLeads
    <2>6. Seen(call.new)' = Seen(new)'
      BY <2>1, <1>1 DEF Seen, Big
    <2>7. NewLeads(ni.no)' /\ ni'.rec.names[call.new] = "posix"
      BY <2>4, <2>5, <2>6, <1>1, <1>2 DEF NewLeads, LeadsTo, Hit
    <2> QED
      BY <2>3, <2>4, <2>7, <1>1, <1>3 DEF NewThere
  <1>r. Promises'
    <2>1. SUFFICES ASSUME NEW p \in promise PROVE Promise(p)' /\ Leading(p)'
      BY <1>1 DEF Promises
    <2>2. Promise(p) /\ Leading(p) /\ p.any \subseteq Names
      BY DEF Lead, Promises, Promise
    <2>3. IsHit(p)' = IsHit(p) /\ Removing' = Removing
      BY <1>1, <1>3 DEF IsHit, Removing
    <2>4. Promise(p)'
      BY <2>2, <2>3, <1>1, <1>3 DEF Promise
    <2>5. \A n \in p.any : Solid(p, n) => Solid(p, n)'
      BY <2>2, <1>1, <1>2, <1>3, <1>4 DEF Solid, LeadsTo
    <2>6. Spared' \/ (Removing' /\ (NotYet' \/ ~IsHit(p)')) =>
               Spared \/ (Removing /\ (NotYet \/ ~IsHit(p)))
      BY <2>3, <1>1, <1>3 DEF Spared, NotYet
    <2> QED
      BY <2>2, <2>4, <2>5, <2>6, <1>1 DEF Leading
  <1> QED
    BY <1>c, <1>i, <1>p, <1>m, <1>s, <1>a, <1>d, <1>n, <1>r DEF Lead

(* The new record was free, so no promise is about it.                     *)
LEMMA AllocLead ==
    ASSUME Types, Lead, NEW r \in Rec, AllocRecord(r)
    PROVE  Lead'
  <1>0. PICK new \in Names : new = call.new
    BY CallParts DEF Types
  <1>1. /\ pc = "open" /\ pc' = "add" /\ call.phase = "create" /\ r \notin mftbmp
        /\ mftbmp' = mftbmp \union {r}
        /\ rec' = [rec EXCEPT ![r] = [Blank(rec[r].seq) EXCEPT !.used = TRUE]]
        /\ ni' = [no |-> r, rec |-> [rec'[r] EXCEPT !.names[new] = "posix"]]
        /\ dirm' = ents /\ dirty' = {"ni"}
        /\ UNCHANGED <<big, ents, bmp, call, promise, exposed, scars>>
    BY <1>0 DEF AllocRecord, ghosts
  <1>2. /\ \A q \in Rec : q # r => rec'[q] = rec[q]
        /\ rec'[r] = [Blank(rec[r].seq) EXCEPT !.used = TRUE]
    BY <1>1 DEF Types
  <1>3. /\ rec'[r].used /\ rec'[r].seq = rec[r].seq /\ rec'[r].names = NoName /\ rec'[r].links = 0
        /\ rec'[r].ext = {} /\ rec'[r].map = {}
    BY <1>2 DEF Blank
  <1>4. /\ ni'.no = r /\ ni'.rec.used /\ ni'.rec.seq = rec[r].seq
        /\ ni'.rec.names = [NoName EXCEPT ![new] = "posix"]
        /\ ni'.rec.ext = {} /\ ni'.rec.map = {}
    BY <1>1, <1>2 DEF Blank
  <1>5. ~rec[r].used
    BY <1>1 DEF Lead, InUse
  <1>6. /\ pc' \in InHand /\ pc' \in Naming /\ pc' \in Opened /\ pc' \notin Freeing /\ Making'
        /\ pc \notin InHand /\ pc \notin Naming /\ pc \notin Opened /\ pc \notin Freeing
    BY <1>1, HandStages DEF Making
  <1>7. \A n \in Names : Seen(n)' = ents[n]
    BY <1>1 DEF Seen, Big
  <1>8. Phases /\ Victim /\ call.op = "create"
    BY <1>1 DEF Lead, Stage, Phases
  <1>k. {1, 2} \subseteq Rec
    BY Constants
  <1>c. Counts'
    <2>1. Paired(NoName) /\ Counted(NoName, 0)
      BY NoNamesNoCount DEF Paired, Counted, NoName
    <2>2. \A q \in Rec : Paired(rec'[q].names) /\ Counted(rec'[q].names, rec'[q].links)
      BY <2>1, <1>2, <1>3 DEF Lead, Counts
    <2>3. Paired(ni'.rec.names)
      BY <1>4 DEF Paired, NoName
    <2>4. Cardinality(Named(ni'.rec.names)) <= 1
      <3>1. Named(ni'.rec.names) = {new}
        BY <1>4 DEF Named, NoName
      <3> QED
        BY <3>1, FS_Singleton
    <2> QED
      BY <1>1, <1>6, <2>2, <2>3, <2>4 DEF Counts
  <1>i. InUse'
    BY <1>1, <1>2, <1>3, <1>4, <1>6, HandStages DEF Lead, InUse
  <1>p. Parts'
    <2>1. Parts /\ (rec[2].used => 2 \in mftbmp)
      BY <1>k DEF Lead, InUse
    <2>2. HasExtent' => HasExtent
      BY <1>2, <1>3, <1>4, <1>k DEF HasExtent
    <2>3. \A q \in Rec : /\ rec'[q].seq = rec[q].seq
                         /\ rec[q].used => rec'[q].used
                         /\ rec'[q].ext # {} => rec'[q].ext = rec[q].ext
      BY <1>2, <1>3
    <2>4. HasExtent' => /\ rec'[2].seq = 1 => rec'[2].used
                        /\ \A n \in Names : ents'[n].rec = 2 \/ dirm'[n].rec = 2 => rec'[2].seq # 1
                        /\ ni'.no = 2 => rec'[2].seq # 1
      BY <2>1, <2>2, <2>3, <1>1, <1>4, <1>k DEF Parts
    <2>5. \A q \in Rec : rec'[q].seq >= 1 /\ (rec'[q].ext # {} => q = 1 /\ rec'[q].ext = {<<2, 1>>})
      BY <2>1, <2>3 DEF Parts
    <2> QED
      BY <2>4, <2>5, <1>1, <1>3, <1>4 DEF Parts
  <1>m. Maps'
    <2>1. \A q \in Rec : rec'[q].map \in {rec[q].map, {}}
      BY <1>2, <1>3
    <2> QED
      BY <2>1, <1>1, <1>3, <1>4, <1>6 DEF Lead, Maps
  <1>s. Stage'
    <2>1. Phases'
      BY <1>1, <1>6, <1>8 DEF Phases
    <2> QED
      BY <1>1, <1>8, <2>1 DEF Stage, Victim
  <1>a. Asking'
    BY <1>1, <1>8 DEF Asking
  <1>d. Added'
    <2>1. ni'.rec.names[new] = "posix"
      BY <1>4 DEF NoName
    <2> QED
      BY <2>1, <1>0, <1>1 DEF Added
  <1>n. NewThere'
    BY <1>1, <1>8 DEF NewThere, Removing
  <1>r. Promises'
    <2>1. SUFFICES ASSUME NEW p \in promise PROVE Promise(p)' /\ Leading(p)'
      BY <1>1 DEF Promises
    <2>2. Promise(p) /\ Leading(p) /\ p.any \subseteq Names /\ p.rec \in Rec
      BY DEF Lead, Promises, Promise
    <2>3. p.rec # r /\ rec'[p.rec] = rec[p.rec] /\ (rec[p.rec].ext # {} => rec'[2] = rec[2])
      BY <2>2, <1>2, <1>5, <1>k DEF Promise
    <2>4. ~Removing' /\ ~Spared'
      BY <1>1, <1>8 DEF Removing, Spared
    <2>5. Promise(p)'
      BY <2>2, <2>3, <2>4, <1>1, <1>4, <1>6, <1>8 DEF Promise
    <2>6. \A n \in p.any : Solid(p, n) => Solid(p, n)'
      BY <2>2, <2>3, <1>1, <1>4, <1>7 DEF Solid, LeadsTo
    <2> QED
      BY <2>2, <2>4, <2>5, <2>6 DEF Leading
  <1> QED
    BY <1>c, <1>i, <1>p, <1>m, <1>s, <1>a, <1>d, <1>n, <1>r DEF Lead

LEMMA CloseFileLead ==
    ASSUME Types, Lead, CloseFile
    PROVE  Lead'
  <1>1. /\ pc = "close_ni" /\ pc' = "close_dir"
        /\ \/ /\ rec' = IF "ni" \in dirty THEN [rec EXCEPT ![ni.no] = ni.rec] ELSE rec
              /\ call' = call
           \/ rec' = rec /\ call' = [call EXCEPT !.torn = TRUE]
        /\ UNCHANGED <<big, ents, mftbmp, bmp, mems, promise, exposed>>
    BY DEF CloseFile
  <1>u. UNCHANGED <<big, ents, mftbmp, bmp, ni, dirm, dirty, promise, exposed>>
    BY <1>1 DEF mems
  <1>2. /\ call'.op = call.op /\ call'.phase = call.phase /\ call'.old = call.old
        /\ call'.new = call.new /\ call'.asked = call.asked /\ Target' = Target
        /\ call'.res = call.res /\ call'.gone = call.gone
        /\ \/ call'.torn
           \/ call' = call /\ rec' = IF "ni" \in dirty THEN [rec EXCEPT ![ni.no] = ni.rec] ELSE rec
    BY <1>1 DEF Types, Call, Target
  <1>t. call.torn => call'.torn
    BY <1>1 DEF Types, Call
  <1>3. /\ pc \in InHand /\ pc \in Naming /\ pc \in Opened \ {"bit"} /\ ni.no \in Rec /\ ~Making
        /\ pc' \in InHand /\ pc' \notin Naming /\ pc' \notin Opened /\ pc' \notin Freeing /\ ~Making'
    BY <1>1, HandStages DEF Making, Types
  <1>4. \A r \in Rec : rec'[r] \in {rec[r], IF r = ni.no THEN ni.rec ELSE rec[r]}
    BY <1>1 DEF Types
  <1>5. rec[ni.no].used /\ ni.rec.used /\ rec[ni.no].seq = ni.rec.seq /\ ni.rec.ext = rec[ni.no].ext
        /\ ni.rec.map = rec[ni.no].map
    BY <1>3 DEF Lead, InUse, Parts, Maps
  <1>6. \A r \in Rec : /\ rec'[r].used = rec[r].used /\ rec'[r].seq = rec[r].seq
                       /\ rec'[r].ext = rec[r].ext /\ rec'[r].map = rec[r].map
    <2>1. rec[ni.no].used = ni.rec.used
      BY <1>3, <1>5, InodeParts, WholeRecord DEF Types
    <2> QED
      BY <2>1, <1>4, <1>5
  <1>7. \A n \in Names : Seen(n)' = Seen(n)
    BY <1>u DEF Seen, Big
  <1>8. Phases /\ Victim
    BY <1>1 DEF Lead, Stage
  <1>k. {1, 2} \subseteq Rec
    BY Constants
  <1>c. Counts'
    <2>1. Paired(ni.rec.names) /\ Counted(ni.rec.names, ni.rec.links)
      BY <1>3 DEF Lead, Counts
    <2>2. \A r \in Rec : Paired(rec'[r].names) /\ Counted(rec'[r].names, rec'[r].links)
      BY <2>1, <1>4 DEF Lead, Counts
    <2> QED
      BY <2>2, <1>1, <1>3 DEF Counts
  <1>i. InUse'
    BY <1>1, <1>3, <1>6 DEF Lead, InUse
  <1>p. Parts'
    <2>1. HasExtent' => HasExtent
      BY <1>3, <1>6, <1>k DEF HasExtent
    <2> QED
      BY <2>1, <1>1, <1>u, <1>3, <1>6, <1>k DEF Lead, Parts
  <1>m. Maps'
    <2>1. \A r \in Rec : rec[r].map \subseteq bmp \union exposed
      BY <1>1 DEF Lead, Maps
    <2> QED
      BY <2>1, <1>1, <1>u, <1>3, <1>6 DEF Lead, Maps
  <1>s. Stage'
    <2>1. Phases'
      BY <1>1, <1>2, <1>3, <1>8 DEF Phases
    <2> QED
      BY <1>1, <1>u, <1>2, <2>1 DEF Lead, Stage, Victim
  <1>a. Asking'
    <2>1. SUFFICES ASSUME call.op \in {"unlink", "rename"} PROVE Asking'
      BY <1>2 DEF Asking
    <2>2. PICK old \in Names : old = call.old
      BY CallParts DEF Types
    <2>3. /\ call.old \in call.asked
          /\ call.phase = "link" => /\ ents[old].rec = ni.no /\ Seen(old).rec = ni.no
                                    /\ Covers(rec[ni.no].names) /\ Covers(ni.rec.names)
                                    /\ call.res = "ok" => call.old # call.new
          /\ call.phase = "rm" => \A n \in Names : Seen(n) # ents[n] => n \in call.asked
      BY <2>1, <2>2, <1>1, <1>3 DEF Lead, Asking
    <2>4. call.phase = "link" => Covers(rec'[ni.no].names)
      BY <2>3, <1>3, <1>4
    <2>5. Seen(call.old)' = Seen(old)
      BY <2>2, <1>u, <1>2 DEF Seen, Big
    <2>6. call.phase = "rm" => \A n \in Names : Seen(n)' # ents'[n] => n \in call.asked
      BY <2>3, <1>7, <1>u
    <2> QED
      BY <2>2, <2>3, <2>4, <2>5, <2>6, <1>1, <1>u, <1>2, <1>3 DEF Asking, Covers
  <1>d. Added'
    <2>1. SUFFICES ASSUME call.phase \in {"link", "create"}, call.res = "ok", ~call'.torn
                   PROVE  /\ Put' /\ rec'[ni.no].names[call.new] = "posix"
                          /\ rec'[ni.no].used /\ rec'[ni.no].seq = ni.rec.seq
                          /\ rec'[ni.no].ext = ni.rec.ext
      BY <1>1, <1>u, <1>2 DEF Added, Making
    <2>2. Put /\ ni.rec.names[call.new] = "posix" /\ "ni" \in dirty
      BY <2>1, <1>1, <1>2 DEF Lead, Added
    <2>3. rec'[ni.no] = ni.rec
      BY <2>1, <2>2, <1>2, <1>3 DEF Types
    <2>4. Seen(call.new)' = Seen(call.new) /\ Big(call.new)' = Big(call.new)
      BY <1>u, <1>2 DEF Seen, Big
    <2> QED
      BY <2>2, <2>3, <2>4, <1>5, <1>u DEF Put, LeadsTo
  <1>n. NewThere'
    <2>1. SUFFICES ASSUME Removing, Counting PROVE NewThere'
      BY <1>1, <1>u, <1>2, <1>t DEF NewThere, Removing, Counting, Hit
    <2>2. /\ call.old # call.new /\ NewLeads(ni.no) /\ ni.rec.names[call.new] = "posix"
          /\ ~call.torn => ~call.gone
      BY <2>1, <1>3 DEF Lead, NewThere
    <2>3. Seen(call.new)' = Seen(call.new)
      BY <1>u, <1>2 DEF Seen, Big
    <2>4. rec'[ni.no].names[call.new] = "posix"
      BY <2>2, <1>3, <1>4 DEF NewLeads
    <2>5. LeadsTo(ents[call.new], ni.no, rec[ni.no].seq) /\ LeadsTo(Seen(call.new), ni.no, rec[ni.no].seq)
          /\ Hit(call.asked)' = Hit(call.asked) /\ \A p \in Hit(call.asked) : p.rec = ni.no
      BY <2>2, <1>1, <1>u, <1>2 DEF NewLeads, Hit
    <2>6. NewLeads(ni.no)'
      BY <2>3, <2>4, <2>5, <1>u, <1>2, <1>3, <1>5, <1>6 DEF NewLeads, LeadsTo
    <2> QED
      BY <2>2, <2>6, <1>1, <1>u, <1>2, <1>t, <1>3 DEF NewThere
  <1>r. Promises'
    <2>1. SUFFICES ASSUME NEW p \in promise PROVE Promise(p)' /\ Leading(p)'
      BY <1>u DEF Promises
    <2>2. Promise(p) /\ Leading(p) /\ p.any \subseteq Names /\ p.rec \in Rec
      BY DEF Lead, Promises, Promise
    <2>3. IsHit(p)' = IsHit(p) /\ Removing' = Removing
      BY <1>1, <1>2 DEF IsHit, Removing
    <2>4. Promise(p)'
      BY <2>2, <2>3, <1>1, <1>2, <1>3, <1>6, <1>k DEF Promise
    <2>5. ASSUME NEW n \in p.any, Solid(p, n) PROVE Solid(p, n)'
      <3>1. rec'[p.rec].names[n] # "none"
        BY <2>2, <2>5, <1>3, <1>4 DEF Solid
      <3>2. LeadsTo(ents[n], p.rec, p.seq) /\ LeadsTo(Seen(n), p.rec, p.seq) /\ n \in Names
        BY <2>2, <2>5, <1>3 DEF Solid
      <3> QED
        BY <3>1, <3>2, <1>u, <1>3, <1>7 DEF Solid, LeadsTo
    <2>6. Spared' \/ (Removing' /\ (NotYet' \/ ~IsHit(p)')) =>
               Spared \/ (Removing /\ (NotYet \/ ~IsHit(p)))
      BY <2>3, <1>1, <1>2, <1>t DEF Spared, NotYet
    <2> QED
      BY <2>2, <2>4, <2>5, <2>6, <1>2 DEF Leading
  <1> QED
    BY <1>c, <1>i, <1>p, <1>m, <1>s, <1>a, <1>d, <1>n, <1>r DEF Lead

LEMMA CrashLead ==
    ASSUME Types, Lead, Crash
    PROVE  Lead'
  <1>1. /\ pc' = "idle" /\ call' = NoCall /\ dirm' = NoEntries /\ dirty' = {}
        /\ exposed' = exposed \union UNION {rec[r].map \ bmp : r \in Rec}
        /\ UNCHANGED <<big, rec, ents, mftbmp, bmp, promise>>
    BY DEF Crash, Released, disks
  <1>3. /\ pc' \notin InHand /\ pc' \notin Naming /\ pc' \notin Opened /\ pc' \notin Freeing /\ ~Making'
    BY <1>1, HandStages DEF Making
  <1>c. Counts'
    BY <1>1, <1>3 DEF Lead, Counts
  <1>i. InUse'
    BY <1>1, <1>3 DEF Lead, InUse
  <1>p. Parts'
    <2>1. HasExtent' => HasExtent
      BY <1>1, <1>3 DEF HasExtent
    <2>2. \A n \in Names : dirm'[n].rec # 2
      BY <1>1 DEF NoEntries, NoEntry
    <2> QED
      BY <2>1, <2>2, <1>1, <1>3 DEF Lead, Parts
  <1>m. Maps'
    <2>1. \A r \in Rec : rec[r].map \subseteq bmp \union exposed'
      BY <1>1
    <2>2. \A r, q \in Rec : r # q => rec[r].map \intersect rec[q].map \subseteq exposed'
      BY <1>1 DEF Lead, Maps
    <2> QED
      BY <2>1, <2>2, <1>1, <1>3 DEF Maps
  <1>s. Stage'
    BY <1>1 DEF Stage
  <1>a. Asking' /\ Added' /\ NewThere'
    BY <1>1 DEF Asking, Added, NewThere, NoCall, Removing, Making
  <1>r. Promises'
    <2>1. ~Removing' /\ ~Spared'
      BY <1>1 DEF Removing, Spared, NoCall
    <2>2. SUFFICES ASSUME NEW p \in promise PROVE Promise(p)' /\ Leading(p)'
      BY <1>1 DEF Promises
    <2>3. Promise(p) /\ Leading(p)
      BY DEF Lead, Promises
    <2>4. Promise(p)'
      BY <2>1, <2>3, <1>1, <1>3 DEF Promise
    <2>5. \A n \in p.any : Solid(p, n) => Solid(p, n)'
      BY <1>1, <1>3 DEF Solid, LeadsTo
    <2> QED
      BY <2>1, <2>3, <2>4, <2>5 DEF Leading
  <1> QED
    BY <1>c, <1>i, <1>p, <1>m, <1>s, <1>a, <1>r DEF Lead

(* The end of a handler.  What is on disk of an entry then is what was     *)
(* there or what the call saw.                                             *)
Leaves(res, torn) ==
    /\ HandlerEnds(res, torn) /\ UNCHANGED <<big, rec, mftbmp, bmp, exposed>> /\ dirty' = {}
    /\ dirm' \in {dirm, NoEntries}
    /\ \A n \in Names : ents'[n] \in {ents[n], Seen(n)}
    /\ call.torn => torn
    /\ \/ pc = "open" /\ res = "fail" /\ ents' = ents
       \/ /\ pc = "close_dir" /\ res = call.res
          /\ ~torn => \A n \in Names : Big(n) \/ ("dir" \in dirty /\ n = Target) => ents'[n] = Seen(n)

LEMMA EndCall ==
    ASSUME Types, NEW res \in {"ok", "fail"}, NEW torn \in BOOLEAN, HandlerEnds(res, torn)
    PROVE  /\ call'.op = call.op /\ call'.old = call.old /\ call'.new = call.new
           /\ call'.asked = call.asked /\ call'.want = "any" /\ call'.gone = call.gone
           /\ promise' = Promised(res, torn)
           /\ \/ /\ pc' = "idle" /\ ~Goes(call.op, call.phase, res) /\ ~Undoes(call.op, call.phase, res)
              \/ /\ pc' = "open" /\ Goes(call.op, call.phase, res)
                 /\ call'.phase = "rm" /\ call'.res = "ok" /\ call'.torn = torn
              \/ /\ pc' = "open" /\ Undoes(call.op, call.phase, res)
                 /\ call'.phase = "undo" /\ call'.res = "ok" /\ call'.torn = torn
  <1>1. call' = [call EXCEPT !.torn = torn \/ (call.phase = "undo" /\ res = "fail"),
                            !.res = IF Undoes(call.op, call.phase, res) THEN "ok"
                                    ELSE IF call.phase = "undo" THEN "fail" ELSE res,
                            !.want = "any",
                            !.phase = IF Goes(call.op, call.phase, res) THEN "rm"
                                      ELSE IF Undoes(call.op, call.phase, res) THEN "undo"
                                      ELSE call.phase]
    BY DEF HandlerEnds
  <1>2. /\ call'.op = call.op /\ call'.old = call.old /\ call'.new = call.new
        /\ call'.asked = call.asked /\ call'.want = "any" /\ call'.gone = call.gone
        /\ call'.torn = (torn \/ (call.phase = "undo" /\ res = "fail"))
        /\ call'.res = (IF Undoes(call.op, call.phase, res) THEN "ok"
                        ELSE IF call.phase = "undo" THEN "fail" ELSE res)
        /\ call'.phase = (IF Goes(call.op, call.phase, res) THEN "rm"
                          ELSE IF Undoes(call.op, call.phase, res) THEN "undo" ELSE call.phase)
    BY <1>1 DEF Types, Call
  <1>3. promise' = Promised(res, torn)
        /\ pc' = IF Goes(call.op, call.phase, res) \/ Undoes(call.op, call.phase, res)
                 THEN "open" ELSE "idle"
    BY DEF HandlerEnds
  <1>4. CASE Goes(call.op, call.phase, res)
    BY <1>2, <1>3, <1>4 DEF Goes, Undoes
  <1>5. CASE Undoes(call.op, call.phase, res)
    BY <1>2, <1>3, <1>5 DEF Goes, Undoes
  <1> QED
    BY <1>2, <1>3, <1>4, <1>5

(* What is promised then, by the call that ends.                           *)
LEMMA PromisedIs ==
    ASSUME Phases, call \in Call, NEW res \in {"ok", "fail"}, NEW torn \in BOOLEAN
    PROVE  /\ Goes(call.op, call.phase, res) =>
                Promised(res, torn) = (promise \ Hit(call.asked)) \union
                     {[p EXCEPT !.any = @ \union {call.new}] :
                          p \in {q \in Hit(call.asked) : q.rec = ni.no /\ ~torn}}
           /\ call.op = "rename" /\ call.phase = "rm" /\ res = "ok" =>
                Promised(res, torn) = Without(promise, call.asked)
           /\ Undoes(call.op, call.phase, res) =>
                Promised(res, torn) = IF torn THEN promise \ Hit(call.asked) ELSE promise
           /\ \/ Goes(call.op, call.phase, res) \/ Undoes(call.op, call.phase, res)
              \/ call.op = "rename" /\ call.phase = "rm" /\ res = "ok"
              \/ /\ call.op \in {"link", "create"} /\ res = "ok" /\ ~torn /\ Attached = ni.rec.ext
                 /\ Promised(res, torn) =
                      promise \union {[rec |-> ni.no, seq |-> ni.rec.seq, any |-> {call.new}]}
              \/ Promised(res, torn) = promise
  <1>1. Goes(call.op, call.phase, res) =>
                Promised(res, torn) = (promise \ Hit(call.asked)) \union
                     {[p EXCEPT !.any = @ \union {call.new}] :
                          p \in {q \in Hit(call.asked) : q.rec = ni.no /\ ~torn}}
    BY DEF Goes, Promised
  <1>2. call.op = "rename" /\ call.phase = "rm" /\ res = "ok" =>
                Promised(res, torn) = Without(promise, call.asked)
    BY DEF Promised
  <1>3. Undoes(call.op, call.phase, res) =>
                Promised(res, torn) = IF torn THEN promise \ Hit(call.asked) ELSE promise
    BY DEF Undoes, Promised
  <1>4. CASE call.op \in {"link", "create"} /\ res = "ok" /\ ~torn /\ Attached = ni.rec.ext
    <2>1. Promised(res, torn) =
             promise \union {[rec |-> ni.no, seq |-> ni.rec.seq, any |-> {call.new}]}
      BY <1>4 DEF Promised
    <2> QED
      BY <2>1, <1>1, <1>2, <1>3, <1>4
  <1>5. CASE ~(call.op \in {"link", "create"} /\ res = "ok" /\ ~torn /\ Attached = ni.rec.ext)
             /\ call.op # "rename"
    <2>1. Promised(res, torn) = promise
      BY <1>5 DEF Promised
    <2> QED
      BY <2>1, <1>1, <1>2, <1>3
  <1>6. CASE call.op = "rename" /\ ~Goes(call.op, call.phase, res) /\ ~Undoes(call.op, call.phase, res)
             /\ ~(call.phase = "rm" /\ res = "ok")
    <2>1. Promised(res, torn) = promise
      BY <1>6 DEF Promised, Goes, Undoes
    <2> QED
      BY <2>1, <1>1, <1>2, <1>3
  <1> QED
    BY <1>1, <1>2, <1>3, <1>4, <1>5, <1>6

LEMMA EndIsOpen ==
    ASSUME Types, Lead, NEW res \in {"ok", "fail"}, NEW torn \in BOOLEAN, Leaves(res, torn)
    PROVE  /\ pc \in {"open", "close_dir"} /\ pc # "idle" /\ Phases /\ Victim
           /\ pc' \in {"idle", "open"} /\ pc' \notin InHand /\ pc' \notin Naming /\ pc' \notin Opened
           /\ pc' \notin Freeing /\ ~Making'
           /\ pc \notin Naming /\ pc \notin Opened /\ pc \notin Freeing
           /\ res = "ok" => pc = "close_dir"
           /\ pc = "close_dir" => pc \in InHand
  <1>1. pc \in {"open", "close_dir"} /\ pc' \in {"idle", "open"}
    BY DEF Leaves, HandlerEnds
  <1>2. Phases /\ Victim
    BY <1>1 DEF Lead, Stage
  <1> QED
    BY <1>1, <1>2, HandStages DEF Leaves, Making

LEMMA EndKeeps ==
    ASSUME Types, Lead, NEW res \in {"ok", "fail"}, NEW torn \in BOOLEAN, Leaves(res, torn)
    PROVE  Counts' /\ InUse' /\ Parts' /\ Maps' /\ Stage' /\ Asking' /\ Added'
  <1>1. /\ UNCHANGED <<big, rec, mftbmp, bmp, exposed>> /\ dirty' = {}
        /\ dirm' \in {dirm, NoEntries} /\ \A n \in Names : ents'[n] \in {ents[n], Seen(n)}
    BY DEF Leaves
  <1>2. /\ pc \in {"open", "close_dir"} /\ pc # "idle" /\ Phases /\ Victim
        /\ pc' \in {"idle", "open"} /\ pc' \notin InHand /\ pc' \notin Naming /\ pc' \notin Opened
        /\ pc' \notin Freeing /\ ~Making'
        /\ pc \notin Naming /\ pc \notin Opened /\ pc \notin Freeing
    BY EndIsOpen
  <1>3. /\ call'.op = call.op /\ call'.old = call.old /\ call'.new = call.new
        /\ call'.asked = call.asked /\ call'.want = "any" /\ call'.gone = call.gone
        /\ \/ pc' = "idle"
           \/ /\ pc' = "open" /\ Goes(call.op, call.phase, res)
              /\ call'.phase = "rm" /\ call'.res = "ok"
           \/ /\ pc' = "open" /\ Undoes(call.op, call.phase, res)
              /\ call'.phase = "undo" /\ call'.res = "ok"
    BY EndCall DEF Leaves
  <1>c. Counts'
    BY <1>1, <1>2 DEF Lead, Counts
  <1>i. InUse'
    BY <1>1, <1>2 DEF Lead, InUse
  <1>p. Parts'
    <2>1. HasExtent' => HasExtent
      BY <1>1, <1>2 DEF HasExtent
    <2>2. \A n \in Names : ents'[n].rec = 2 \/ dirm'[n].rec = 2 => ents[n].rec = 2 \/ dirm[n].rec = 2
      BY <1>1 DEF NoEntries, NoEntry, Seen
    <2> QED
      BY <2>1, <2>2, <1>1, <1>2 DEF Lead, Parts
  <1>m. Maps'
    BY <1>1, <1>2 DEF Lead, Maps
  <1>s. Stage'
    <2>1. pc' # "idle" => Phases'
      BY <1>2, <1>3 DEF Phases, Goes, Undoes
    <2>2. Victim'
      BY <1>2, <1>3 DEF Victim
    <2> QED
      BY <1>1, <2>1, <2>2 DEF Stage
  <1>a. Asking'
    <2>1. SUFFICES ASSUME pc' # "idle", call.op \in {"unlink", "rename"} PROVE Asking'
      BY <1>3 DEF Asking
    <2>2. PICK old \in Names : old = call.old
      BY CallParts DEF Types
    <2>3. call.old \in call.asked
      BY <2>1, <1>2 DEF Lead, Asking
    <2>4. Goes(call.op, call.phase, res) => ents'[old].rec = ni.no /\ Covers(rec[ni.no].names)
      <3>1. SUFFICES ASSUME Goes(call.op, call.phase, res)
                     PROVE  ents'[old].rec = ni.no /\ Covers(rec[ni.no].names)
        OBVIOUS
      <3>2. pc = "close_dir" /\ pc \in InHand /\ call.phase = "link"
        BY <3>1, EndIsOpen DEF Goes
      <3>3. ents[old].rec = ni.no /\ Seen(old).rec = ni.no /\ Covers(rec[ni.no].names)
        BY <3>2, <2>1, <2>2, <1>2 DEF Lead, Asking
      <3> QED
        BY <3>3, <1>1, <2>2
    <2>5. pc' = "open" /\ (Goes(call.op, call.phase, res) \/ call'.phase = "undo")
          /\ call'.phase \in {"rm", "undo"}
      BY <2>1, <1>3
    <2>6. Goes(call.op, call.phase, res) =>
             (call'.old \in Pairs /\ rec'[ents'[call'.old].rec].names[Short] # "none"
                => Pairs \subseteq call'.asked)
      BY <2>2, <2>4, <1>1, <1>3 DEF Covers
    <2> QED
      BY <2>3, <2>5, <2>6, <1>2, <1>3 DEF Asking, Covers
  <1>d. Added'
    BY <1>2 DEF Added
  <1> QED
    BY <1>c, <1>i, <1>p, <1>m, <1>s, <1>a, <1>d

(* A name that was added is on disk when the handler ends well.            *)
LEMMA EndAdded ==
    ASSUME Types, Lead, NEW torn \in BOOLEAN, Leaves("ok", torn), ~torn,
           call.phase \in {"link", "create"}, NEW new \in Names, new = call.new
    PROVE  /\ LeadsTo(ents'[new], ni.no, ni.rec.seq) /\ rec[ni.no].names[new] = "posix"
           /\ rec[ni.no].used /\ rec[ni.no].seq = ni.rec.seq /\ rec[ni.no].ext = ni.rec.ext
           /\ ni.no \in Rec /\ ni.rec.seq \in Nat
  <1>1. pc = "close_dir" /\ call.res = "ok" /\ ~call.torn
    BY EndIsOpen DEF Leaves
  <1>2. /\ Put /\ rec[ni.no].names[call.new] = "posix"
        /\ rec[ni.no].used /\ rec[ni.no].seq = ni.rec.seq /\ rec[ni.no].ext = ni.rec.ext
    BY <1>1 DEF Lead, Added
  <1>3. Target = new
    BY DEF Target
  <1>4. ents'[new] = Seen(new)
    BY <1>1, <1>2, <1>3 DEF Put, Leaves
  <1>5. LeadsTo(Seen(new), ni.no, ni.rec.seq)
    BY <1>2 DEF Put, Seen, Big
  <1> QED
    BY <1>1, <1>2, <1>4, <1>5, InodeParts DEF Types

LEMMA EndNew ==
    ASSUME Types, Lead, NEW res \in {"ok", "fail"}, NEW torn \in BOOLEAN, Leaves(res, torn)
    PROVE  NewThere'
  <1>1. /\ call'.op = call.op /\ call'.old = call.old /\ call'.new = call.new
        /\ call'.asked = call.asked /\ call'.gone = call.gone
        /\ promise' = Promised(res, torn)
        /\ \/ pc' = "idle"
           \/ /\ pc' = "open" /\ Goes(call.op, call.phase, res)
              /\ call'.phase = "rm" /\ call'.torn = torn
           \/ pc' = "open" /\ call'.phase = "undo"
    BY EndCall DEF Leaves
  <1>2. SUFFICES ASSUME Removing', Counting' PROVE NewThere'
    BY DEF NewThere
  <1>3. pc' = "open" /\ Goes(call.op, call.phase, res) /\ call'.phase = "rm" /\ call'.torn = torn
    BY <1>1, <1>2 DEF Removing
  <1>4. call.op = "rename" /\ call.phase = "link" /\ res = "ok"
    BY <1>3 DEF Goes
  <1>5. /\ pc = "close_dir" /\ pc \in InHand /\ pc # "idle" /\ Phases /\ UNCHANGED <<big, rec>>
        /\ call.res = "ok" /\ \A n \in Names : ents'[n] \in {ents[n], Seen(n)}
        /\ pc' \notin Naming /\ pc' \notin InHand
    BY <1>4, EndIsOpen DEF Leaves
  <1>6. promise' = (promise \ Hit(call.asked)) \union
                     {[p EXCEPT !.any = @ \union {call.new}] :
                          p \in {q \in Hit(call.asked) : q.rec = ni.no /\ ~torn}}
    BY <1>1, <1>3, <1>5, PromisedIs DEF Types
  <1>7. \A p \in promise : p \in [rec : Rec, seq : Nat, any : SUBSET (Names \ {Short})]
    BY DEF Lead, Promises, Promise
  <1>8. \A p \in Hit(call.asked)' : p.rec = ni.no /\ ~torn
    <2>1. SUFFICES ASSUME NEW p \in promise', p.any \intersect call.asked # {}
                   PROVE  p.rec = ni.no /\ ~torn
      BY <1>1 DEF Hit
    <2>2. p \notin promise \ Hit(call.asked)
      BY <2>1 DEF Hit
    <2>3. PICK q \in promise : /\ p = [q EXCEPT !.any = @ \union {call.new}]
                               /\ q.rec = ni.no /\ ~torn
      BY <2>1, <2>2, <1>6 DEF Hit
    <2> QED
      BY <2>3, <1>7
  <1>9. ~torn
    BY <1>2, <1>3, <1>8 DEF Counting
  <1>10. PICK new \in Names : new = call.new
    BY CallParts DEF Types
  <1>11. PICK old \in Names : old = call.old
    BY CallParts DEF Types
  <1>12. /\ LeadsTo(ents'[new], ni.no, rec[ni.no].seq) /\ rec[ni.no].names[new] = "posix"
         /\ rec[ni.no].used /\ ni.no \in Rec
    BY <1>4, <1>9, <1>10, EndAdded
  <1>13. old # new /\ ents'[old].rec = ni.no
    <2>1. ents[old].rec = ni.no /\ Seen(old).rec = ni.no /\ old # new
      BY <1>4, <1>5, <1>10, <1>11 DEF Lead, Asking
    <2> QED
      BY <2>1, <1>5
  <1>14. ~call.gone
    BY <1>4, <1>5 DEF Phases
  <1>15. ents'[old] # NoEntry
    BY <1>12, <1>13, Constants DEF NoEntry
  <1>16. /\ LeadsTo(ents'[call'.new], ents'[old].rec, rec'[ents'[old].rec].seq)
         /\ rec'[ents'[old].rec].used /\ rec'[ents'[old].rec].names[call'.new] = "posix"
         /\ \A p \in Hit(call.asked)' : p.rec = ents'[old].rec
    BY <1>1, <1>5, <1>8, <1>10, <1>12, <1>13
  <1> QED
    BY <1>1, <1>3, <1>5, <1>10, <1>11, <1>13, <1>14, <1>15, <1>16 DEF NewThere, NewLeads, LeadsTo

LEMMA EndPromises ==
    ASSUME NamesInv, Types, Lead, NEW res \in {"ok", "fail"}, NEW torn \in BOOLEAN, Leaves(res, torn)
    PROVE  Promises'
  <1> DEFINE Kept(p) == /\ p \in [rec : Rec, seq : Nat, any : SUBSET (Names \ {Short})]
                        /\ rec[p.rec].used /\ rec[p.rec].seq = p.seq
                        /\ rec[p.rec].ext # {} => rec[2].used /\ rec[2].seq = 1
             Led(p, n) == LeadsTo(ents'[n], p.rec, p.seq) /\ rec[p.rec].names[n] # "none"
             Unhit(p) == p.any \intersect call.asked = {}
  <1>1. /\ UNCHANGED <<big, rec, mftbmp, bmp, exposed>>
        /\ \A n \in Names : ents'[n] \in {ents[n], Seen(n)}
        /\ pc = "open" => ents' = ents /\ res = "fail"
        /\ call.torn => torn
        /\ pc = "close_dir" => res = call.res
    BY DEF Leaves
  <1>2. /\ pc \in {"open", "close_dir"} /\ pc # "idle" /\ Phases /\ Victim
        /\ pc' \in {"idle", "open"} /\ pc' \notin InHand /\ pc' \notin Naming /\ pc' \notin Freeing
        /\ ~Making'
        /\ res = "ok" => pc = "close_dir"
        /\ pc = "close_dir" => pc \in InHand
    BY EndIsOpen
  <1>3. /\ call'.op = call.op /\ call'.old = call.old /\ call'.new = call.new
        /\ call'.asked = call.asked
        /\ promise' = Promised(res, torn)
        /\ \/ pc' = "idle" /\ ~Goes(call.op, call.phase, res) /\ ~Undoes(call.op, call.phase, res)
           \/ pc' = "open" /\ Goes(call.op, call.phase, res) /\ call'.phase = "rm"
           \/ pc' = "open" /\ Undoes(call.op, call.phase, res) /\ call'.phase = "undo"
    BY EndCall DEF Leaves
  <1>4. \A p \in promise : Promise(p) /\ Leading(p) /\ Kept(p)
    BY DEF Lead, Promises, Promise
  <1>5. ASSUME NEW p \in promise, NEW n \in p.any, Solid(p, n) PROVE Led(p, n)
    <2>1. n \in Names
      BY <1>4
    <2>2. LeadsTo(ents[n], p.rec, p.seq) /\ (pc = "close_dir" => LeadsTo(Seen(n), p.rec, p.seq))
      BY <1>2, <1>5 DEF Solid
    <2>3. LeadsTo(ents'[n], p.rec, p.seq)
      BY <2>1, <2>2, <1>1, <1>2
    <2> QED
      BY <2>3, <1>5 DEF Solid
  <1>6. ASSUME NEW p, Kept(p), pc' = "idle" \/ call'.phase = "undo" \/ Unhit(p) \/ call.new \in p.any,
               \E n \in p.any : Led(p, n),
               pc' = "open" => \E n \in p.any \ {call.new} : Led(p, n)
        PROVE  Promise(p)' /\ Leading(p)'
    <2>1. Promise(p)'
      BY <1>1, <1>2, <1>3, <1>6 DEF Promise, IsHit, Removing, Goes, Undoes
    <2>2. \A n : Led(p, n) => Solid(p, n)'
      BY <1>1, <1>2 DEF Solid, LeadsTo
    <2>3. pc' = "idle" => ~Spared' /\ ~Removing'
      BY DEF Spared, Removing
    <2>4. Leading(p)'
      BY <2>2, <2>3, <1>2, <1>3, <1>6 DEF Leading
    <2> QED
      BY <2>1, <2>4
  <1> HIDE DEF Kept
  <1>7. CASE Goes(call.op, call.phase, res)
    <2>1. call.phase = "link" /\ pc = "close_dir" /\ call.res = "ok" /\ call.new # Short
          /\ call.new \in Names /\ pc' = "open"
      BY <1>1, <1>2, <1>3, <1>7, CallParts DEF Goes, Phases, Undoes, Types
    <2>2. promise' = (promise \ Hit(call.asked)) \union
                     {[p EXCEPT !.any = @ \union {call.new}] :
                          p \in {q \in Hit(call.asked) : q.rec = ni.no /\ ~torn}}
      BY <1>2, <1>3, <1>7, PromisedIs DEF Types
    <2>3. Spared
      BY <2>1 DEF Spared
    <2>4. ASSUME NEW p \in promise PROVE \E n \in p.any \ {call.new} : Led(p, n)
      BY <2>3, <1>4, <1>5 DEF Leading
    <2>5. SUFFICES ASSUME NEW p \in promise' PROVE Promise(p)' /\ Leading(p)'
      BY DEF Promises
    <2>6. CASE p \in promise \ Hit(call.asked)
      BY <2>4, <2>6, <1>4, <1>6 DEF Hit
    <2>7. CASE p \notin promise \ Hit(call.asked)
      <3>1. PICK q \in promise : p = [q EXCEPT !.any = @ \union {call.new}]
        BY <2>2, <2>5, <2>7 DEF Hit
      <3>2. q \in [rec : Rec, seq : Nat, any : SUBSET (Names \ {Short})] /\ Kept(q)
        BY <1>4 DEF Kept
      <3>3. /\ p.rec = q.rec /\ p.seq = q.seq /\ p.any = q.any \union {call.new}
            /\ p \in [rec : Rec, seq : Nat, any : SUBSET (Names \ {Short})]
        BY <2>1, <3>1, <3>2
      <3>4. Kept(p) /\ \A n : Led(q, n) => Led(p, n)
        BY <3>2, <3>3 DEF Kept
      <3>5. \E n \in p.any \ {call.new} : Led(p, n)
        BY <2>4, <3>3, <3>4
      <3> QED
        BY <3>3, <3>4, <3>5, <1>6
    <2> QED
      BY <2>6, <2>7
  <1>8. CASE Undoes(call.op, call.phase, res)
    <2>1. call.op = "rename" /\ call.phase = "rm" /\ res = "fail" /\ pc' = "open" /\ call'.phase = "undo"
      BY <1>3, <1>8 DEF Undoes, Goes
    <2>2. promise' = IF torn THEN promise \ Hit(call.asked) ELSE promise
      BY <1>2, <1>3, <1>8, PromisedIs DEF Types
    <2>3. SUFFICES ASSUME NEW p \in promise' PROVE Promise(p)' /\ Leading(p)'
      BY DEF Promises
    <2>4. p \in promise /\ (torn => ~IsHit(p))
      BY <2>2 DEF Hit, IsHit
    <2>5. Removing /\ (NotYet \/ ~IsHit(p))
      BY <2>1, <2>4, <1>1, <1>2 DEF Removing, NotYet
    <2>6. \E n \in p.any \ {call.new} : Led(p, n)
      BY <2>4, <2>5, <1>4, <1>5 DEF Leading
    <2> QED
      BY <2>1, <2>4, <2>6, <1>4, <1>6
  <1>9. CASE call.op = "rename" /\ call.phase = "rm" /\ res = "ok"
    <2>1. promise' = Without(promise, call.asked) /\ pc' = "idle" /\ pc = "close_dir"
      BY <1>2, <1>3, <1>9, PromisedIs DEF Types, Goes, Undoes
    <2>2. SUFFICES ASSUME NEW p \in Without(promise, call.asked) PROVE Promise(p)' /\ Leading(p)'
      BY <2>1 DEF Promises
    <2>3. \A q \in promise : q \in [rec : Rec, seq : Nat, any : SUBSET (Names \ {Short})]
      BY <1>4 DEF Kept
    <2>4. PICK q \in promise :
              /\ p.rec = q.rec /\ p.seq = q.seq /\ p.any # {}
              /\ p.any = {n \in q.any \ call.asked : Leads(n, q.rec, q.seq)}
              /\ q.any \intersect call.asked # {} => scars = {}
              /\ p \in [rec : Rec, seq : Nat, any : SUBSET (Names \ {Short})]
      BY <2>3, WithoutIs
    <2>5. Promise(q) /\ Leading(q) /\ q.any \subseteq Names /\ q.rec \in Rec /\ Kept(q)
      BY <1>4 DEF Kept
    <2>6. Kept(p)
      BY <2>4, <2>5 DEF Kept
    <2>7. \E n \in p.any : Led(p, n)
      <3>1. CASE q.any \intersect call.asked = {}
        <4>1. PICK n \in q.any : Solid(q, n) /\ Led(q, n)
          BY <2>5, <1>5 DEF Leading
        <4>2. n \in p.any
          BY <2>4, <2>5, <3>1, <4>1, SolidLeads
        <4> QED
          BY <2>4, <4>1, <4>2
      <3>2. CASE scars = {}
        <4>1. Agree(rec, View) /\ View \in [Names -> Entry]
          BY <2>1, <3>2, ViewType DEF NamesInv, Sound, Stages
        <4>2. PICK n \in p.any : n \in Names /\ n \notin call.asked /\ LeadsTo(ents[n], p.rec, p.seq)
          BY <2>4, <2>5 DEF Leads, LeadsTo
        <4>3. Seen(n) = ents[n]
          BY <4>2, <2>1, <1>2, <1>9 DEF Lead, Asking
        <4>4. ents'[n] = ents[n] /\ View[n] = ents[n]
          BY <4>2, <4>3, <1>1 DEF View
        <4>5. rec[p.rec].names[n] # "none"
          BY <2>4, <2>5, <4>1, <4>2, <4>4, LeadsHasName
        <4> QED
          BY <4>2, <4>4, <4>5
      <3> QED
        BY <2>4, <3>1, <3>2
    <2> QED
      BY <2>1, <2>6, <2>7, <1>6
  <1>10. CASE /\ call.op \in {"link", "create"} /\ res = "ok" /\ ~torn /\ Attached = ni.rec.ext
              /\ Promised(res, torn) =
                    promise \union {[rec |-> ni.no, seq |-> ni.rec.seq, any |-> {call.new}]}
    <2>1. call.phase \in {"link", "create"} /\ pc' = "idle" /\ call.new # Short
      BY <1>2, <1>3, <1>10 DEF Phases, Goes, Undoes
    <2>2. PICK new \in Names : new = call.new
      BY CallParts DEF Types
    <2>3. /\ LeadsTo(ents'[new], ni.no, ni.rec.seq) /\ rec[ni.no].names[new] = "posix"
          /\ rec[ni.no].used /\ rec[ni.no].seq = ni.rec.seq /\ rec[ni.no].ext = ni.rec.ext
          /\ ni.no \in Rec /\ ni.rec.seq \in Nat
      BY <2>1, <2>2, <1>10, EndAdded
    <2>4. rec[ni.no].ext # {} => rec[2].used /\ rec[2].seq = 1
      <3>1. rec[ni.no].ext # {} => rec[ni.no].ext = {<<2, 1>>}
        BY <2>3 DEF Lead, Parts
      <3> QED
        BY <3>1, <2>3, <1>10 DEF Attached
    <2>5. PICK p0 : p0 = [rec |-> ni.no, seq |-> ni.rec.seq, any |-> {new}]
      OBVIOUS
    <2>6. /\ p0.rec = ni.no /\ p0.seq = ni.rec.seq /\ p0.any = {new}
          /\ p0 \in [rec : Rec, seq : Nat, any : SUBSET (Names \ {Short})]
      BY <2>1, <2>2, <2>3, <2>5
    <2>7. Kept(p0) /\ Led(p0, new)
      BY <2>3, <2>4, <2>6 DEF Kept
    <2>8. Promise(p0)' /\ Leading(p0)'
      BY <2>1, <2>6, <2>7, <1>6
    <2>9. \A p \in promise : Promise(p)' /\ Leading(p)'
      BY <2>1, <1>4, <1>5, <1>6 DEF Leading
    <2> QED
      BY <2>2, <2>5, <2>8, <2>9, <1>3, <1>10 DEF Promises
  <1>11. CASE Promised(res, torn) = promise /\ pc' = "idle"
    <2>1. \A p \in promise : Promise(p)' /\ Leading(p)'
      BY <1>4, <1>5, <1>6, <1>11 DEF Leading
    <2> QED
      BY <2>1, <1>3, <1>11 DEF Promises
  <1> QED
    BY <1>2, <1>3, <1>7, <1>8, <1>9, <1>10, <1>11, PromisedIs DEF Types

LEMMA EndLeaves ==
    ASSUME Types, Lead, OpenFails \/ CloseDir
    PROVE  \E res \in {"ok", "fail"}, torn \in BOOLEAN : Leaves(res, torn)
  <1>1. CASE OpenFails
    <2>1. pc = "open" /\ dirty = {}
      BY <1>1 DEF OpenFails, Lead, Stage
    <2>2. Leaves("fail", call.torn) /\ call.torn \in BOOLEAN
      BY <1>1, <2>1, CallParts DEF OpenFails, Leaves, disks, mems, Types
    <2> QED
      BY <2>2
  <1>2. CASE CloseDir
    <2>1. pc = "close_dir" /\ call.torn \in BOOLEAN /\ call.res \in {"ok", "fail"}
          /\ ("dir" \in dirty => DirOf[Target] \notin big)
      BY <1>2, CallParts DEF CloseDir, Lead, Stage, Types
    <2>2. UNCHANGED <<big, rec, mftbmp, bmp, exposed>> /\ dirty' = {} /\ dirm' = NoEntries
      BY <1>2 DEF CloseDir, Released
    <2>3. CASE /\ ents' = [n \in Names |-> IF "dir" \in dirty /\ DirOf[n] = DirOf[Target]
                                           THEN dirm[n] ELSE ents[n]]
               /\ HandlerEnds(call.res, call.torn)
      <3>1. \A n \in Names : /\ ents'[n] \in {ents[n], Seen(n)}
                             /\ Big(n) \/ ("dir" \in dirty /\ n = Target) => ents'[n] = Seen(n)
        BY <2>1, <2>3 DEF Seen, Big
      <3>2. Leaves(call.res, call.torn)
        BY <2>1, <2>2, <2>3, <3>1 DEF Leaves
      <3> QED
        BY <2>1, <3>2
    <2>4. CASE HandlerEnds(call.res, TRUE) /\ ents' = ents
      <3>1. Leaves(call.res, TRUE)
        BY <2>1, <2>2, <2>4 DEF Leaves
      <3> QED
        BY <2>1, <3>1
    <2> QED
      BY <1>2, <2>3, <2>4 DEF CloseDir
  <1> QED
    BY <1>1, <1>2

LEMMA EndLead ==
    ASSUME NamesInv, Types, Lead, OpenFails \/ CloseDir
    PROVE  Lead'
  <1>1. PICK res \in {"ok", "fail"}, torn \in BOOLEAN : Leaves(res, torn)
    BY EndLeaves
  <1> QED
    BY <1>1, EndKeeps, EndNew, EndPromises DEF Lead

-----------------------------------------------------------------------------
LEMMA InitLead == Init => Lead
  <1> SUFFICES ASSUME Init PROVE Lead
    OBVIOUS
  <1>1. PICK links \in InitLinks, kind \in {"file", "large_file", "full_dir"} :
          LET ext == IF kind = "large_file" THEN {2} ELSE {}
              map == IF kind = "large_file" THEN Cluster ELSE {} IN
          /\ rec = [r \in Rec |->
                    IF r = 1 THEN [used |-> TRUE, seq |-> 1, names |-> links,
                                   links |-> Cardinality(Named(links)), full |-> kind = "full_dir",
                                   ext |-> {<<e, 1>> : e \in ext}, map |-> map]
                    ELSE [Blank(1) EXCEPT !.used = r \in ext]]
          /\ ents = [n \in Names |-> IF links[n] = "none" THEN NoEntry
                                   ELSE [rec |-> 1, seq |-> 1, ns |-> links[n]]]
          /\ mftbmp = {1} \union ext /\ bmp = map
          /\ promise = {[rec |-> 1, seq |-> 1, any |-> {n}] : n \in Named(links) \ {Short}}
    BY DEF Init
  <1>2. /\ ni = NoInode /\ dirm = NoEntries /\ dirty = {} /\ pc = "idle" /\ call = NoCall
        /\ exposed = {}
    BY DEF Init
  <1> DEFINE ext == IF kind = "large_file" THEN {2} ELSE {}
             map == IF kind = "large_file" THEN Cluster ELSE {}
             exts == {<<e, 1>> : e \in ext}
  <1>3. exts \in {{}, {<<2, 1>>}} /\ (exts # {} => ext = {2}) /\ ext \in {{}, {2}}
    OBVIOUS
  <1>4. /\ rec[1].used /\ rec[1].seq = 1 /\ rec[1].names = links
        /\ rec[1].links = Cardinality(Named(links)) /\ rec[1].ext = exts /\ rec[1].map = map
        /\ mftbmp = {1} \union ext /\ bmp = map
    BY <1>1, Constants
  <1> HIDE DEF exts, map
  <1>5. \A r \in Rec \ {1} : /\ rec[r].used = (r \in ext) /\ rec[r].seq = 1 /\ rec[r].names = NoName
                             /\ rec[r].links = 0 /\ rec[r].ext = {} /\ rec[r].map = {}
    BY <1>1 DEF Blank
  <1> HIDE DEF ext
  <1>6. \A n \in Names : /\ ents[n].rec \in {0, 1} /\ ents[n].rec # 2 /\ dirm[n].rec # 2
                         /\ links[n] # "none" => LeadsTo(ents[n], 1, 1)
    BY <1>1, <1>2 DEF NoEntry, NoEntries, LeadsTo
  <1>7. /\ pc \notin InHand /\ pc \notin Naming /\ pc \notin Opened /\ pc \notin Freeing /\ ~Making
        /\ {1, 2} \subseteq Rec
    BY <1>2, HandStages, Constants DEF Making
  <1>c. Counts
    <2>1. Paired(links) /\ Paired(NoName) /\ Counted(NoName, 0)
      BY DirAssumption, NoNamesNoCount DEF Paired, Counted, NoName
    <2>2. Cardinality(Named(links)) \in Nat
      <3>1. IsFiniteSet(Named(links))
        BY Constants, FS_Subset DEF Named
      <3> QED
        BY <3>1, FS_CardinalityType
    <2>3. Counted(links, Cardinality(Named(links)))
      BY <2>2 DEF Counted
    <2>4. \A r \in Rec : Paired(rec[r].names) /\ Counted(rec[r].names, rec[r].links)
      BY <2>1, <2>3, <1>4, <1>5
    <2> QED
      BY <2>4, <1>2, <1>7 DEF Counts
  <1>i. InUse
    BY <1>2, <1>4, <1>5, <1>7 DEF InUse
  <1>p. Parts
    <2>1. \A r \in Rec : /\ rec[r].seq = 1
                         /\ rec[r].ext # {} => r = 1 /\ rec[r].ext = {<<2, 1>>}
      BY <1>3, <1>4, <1>5
    <2>2. HasExtent => rec[2].used
      BY <1>3, <1>4, <1>5, <1>7 DEF HasExtent
    <2>3. ~HasExtent \/ \A n \in Names : ents[n].rec # 2 /\ dirm[n].rec # 2
      BY <1>6
    <2> QED
      BY <2>1, <2>2, <2>3, <1>2, <1>7 DEF Parts
  <1>m. Maps
    <2>1. \A r \in Rec : rec[r].map \subseteq bmp \union exposed
      BY <1>4, <1>5
    <2>2. \A r, q \in Rec : r # q => rec[r].map = {} \/ rec[q].map = {}
      BY <1>5
    <2> QED
      BY <2>1, <2>2, <1>2, <1>7 DEF Maps
  <1>s. Stage
    BY <1>2 DEF Stage
  <1>a. Asking /\ Added /\ NewThere
    BY <1>2 DEF Asking, Added, NewThere, NoCall, Removing, Making
  <1>r. Promises
    <2>1. ~Removing /\ ~Spared
      BY <1>2 DEF Removing, Spared, NoCall
    <2>2. SUFFICES ASSUME NEW n \in Named(links) \ {Short},
                          NEW p, p = [rec |-> 1, seq |-> 1, any |-> {n}]
                   PROVE  Promise(p) /\ Leading(p)
      BY <1>1 DEF Promises
    <2>3. n \in Names /\ links[n] # "none"
      BY DEF Named
    <2>4. p.rec = 1 /\ p.seq = 1 /\ p.any = {n}
          /\ p \in [rec : Rec, seq : Nat, any : SUBSET (Names \ {Short})]
      BY <2>2, <2>3, <1>7
    <2>5. rec[1].ext # {} => rec[2].used /\ rec[2].seq = 1
      BY <1>3, <1>4, <1>5, <1>7
    <2>6. Promise(p)
      BY <2>1, <2>4, <2>5, <1>2, <1>4, <1>7 DEF Promise
    <2>7. Solid(p, n)
      BY <2>3, <2>4, <1>4, <1>6, <1>7 DEF Solid
    <2> QED
      BY <2>1, <2>4, <2>6, <2>7 DEF Leading
  <1> QED
    BY <1>c, <1>i, <1>p, <1>m, <1>s, <1>a, <1>r DEF Lead

LEMMA LeadUnchanged == Lead /\ UNCHANGED vars => Lead'
  <1> SUFFICES ASSUME Lead, UNCHANGED vars PROVE Lead'
    OBVIOUS
  <1>1. UNCHANGED <<big, rec, ents, mftbmp, bmp, ni, dirm, dirty, pc, call, promise, exposed>>
    BY DEF vars, disks, mems, ghosts
  <1>2. \A n \in Names : Seen(n)' = Seen(n)
    BY <1>1 DEF Seen, Big
  <1>3. Seen(call.new)' = Seen(call.new) /\ Seen(call.old)' = Seen(call.old) /\ Big(call.new)' = Big(call.new)
    BY <1>1 DEF Seen, Big
  <1>4. Making' = Making /\ HasExtent' = HasExtent /\ Removing' = Removing /\ Counting' = Counting
        /\ Target' = Target
    BY <1>1 DEF Making, HasExtent, Removing, Counting, Hit, Target
  <1>c. Counts' /\ InUse' /\ Maps' /\ Stage'
    BY <1>1, <1>4 DEF Lead, Counts, InUse, Maps, Stage, Phases, Victim
  <1>p. Parts'
    BY <1>1, <1>4 DEF Lead, Parts
  <1>a. Asking'
    BY <1>1, <1>2, <1>3 DEF Lead, Asking, Covers
  <1>d. Added'
    BY <1>1, <1>3, <1>4 DEF Lead, Added, Put, LeadsTo
  <1>n. NewThere'
    BY <1>1, <1>3, <1>4 DEF Lead, NewThere, NewLeads, LeadsTo, Hit
  <1>r. Promises'
    <2>1. ASSUME NEW p \in promise PROVE Promise(p)' /\ Leading(p)'
      <3>1. Promise(p) /\ Leading(p) /\ p.any \subseteq Names
        BY DEF Lead, Promises, Promise
      <3>2. \A n \in p.any : Solid(p, n)' <=> Solid(p, n)
        BY <3>1, <1>1, <1>2 DEF Solid, LeadsTo
      <3>3. Promise(p)'
        BY <3>1, <1>1, <1>4 DEF Promise, IsHit
      <3> QED
        BY <3>1, <3>2, <3>3, <1>1, <1>4 DEF Leading, Spared, NotYet, IsHit
    <2> QED
      BY <2>1, <1>1 DEF Promises
  <1> QED
    BY <1>c, <1>p, <1>a, <1>d, <1>n, <1>r DEF Lead

LEMMA TroublesType == troubles \in Nat /\ [Next]_vars => troubles' \in Nat
  <1> SUFFICES ASSUME troubles \in Nat, [Next]_vars PROVE troubles' \in Nat
    OBVIOUS
  <1>1. CASE UNCHANGED vars
    BY <1>1 DEF vars, bounds
  <1>2. CASE troubles' = troubles
    BY <1>2
  <1>3. CASE troubles' = troubles + 1
    BY <1>3
  <1>4. Next => troubles' = troubles \/ troubles' = troubles + 1
    BY DEF Next, Step, Create, Link, Rename, Unlink, Start, Grow, Fault, NoFault, bounds, PutEntry,
           OpenBoth, OpenFails, AllocRecord, AddRefused, AddEntry, AddName, AddNameFails, TakeBack,
           TakeBackFails, RemoveRefused, RemoveName, RemoveNameFails, RemoveEntry,
           RemoveUnsupported, RemoveEntryFails, FreeClusters, FreeExtent, FreeExtentFails,
           ClearExtentBit, NoExtents, FreeBase, ClearBit, FreeBaseFails, CloseFile, CloseDir, Crash
  <1> QED
    BY <1>1, <1>2, <1>3, <1>4

LEMMA NextLead ==
    ASSUME NamesInv, Types, troubles \in Nat, Lead, [Next]_vars
    PROVE  Lead'
  <1>1. CASE UNCHANGED vars
    BY <1>1, LeadUnchanged
  <1>2. ASSUME NEW n \in UserNames, Create(n) PROVE Lead'
    <2>1. n \in Names /\ n # Short
      BY DEF UserNames
    <2>2. Start("create", "create", n, n) /\ promise' = promise
      BY <1>2 DEF Create
    <2> QED
      BY <2>1, <2>2, StartLead
  <1>3. ASSUME NEW o \in Names, NEW n \in UserNames, Link(o, n) PROVE Lead'
    <2>1. n \in Names /\ n # Short
      BY DEF UserNames
    <2>2. Start("link", "link", o, n) /\ promise' = promise
      BY <1>3 DEF Link
    <2> QED
      BY <2>1, <2>2, StartLead
  <1>4. ASSUME NEW o \in Names, NEW n \in UserNames, Rename(o, n) PROVE Lead'
    <2>1. n \in Names /\ n # Short
      BY DEF UserNames
    <2>2. Start("rename", "link", o, n) /\ promise' = promise
      BY <1>4 DEF Rename
    <2> QED
      BY <2>1, <2>2, StartLead
  <1>5. ASSUME NEW n \in Names, Unlink(n) PROVE Lead'
    <2>1. Start("unlink", "rm", n, n) /\ promise' = Without(promise, AskedFor(n))
      BY <1>5 DEF Unlink
    <2> QED
      BY <2>1, StartLead
  <1>6. ASSUME NEW r \in Rec, NEW c \in Cluster, Grow(r, c) PROVE Lead'
    BY <1>6, GrowLead
  <1>7. CASE \/ AddRefused \/ AddNameFails \/ TakeBackFails \/ RemoveRefused
             \/ FreeExtentFails \/ NoExtents \/ ClearBit \/ FreeBaseFails
    BY <1>7, PassLead
  <1>8. ASSUME NEW n \in Names, RemoveEntry(n) \/ RemoveUnsupported(n) \/ RemoveEntryFails(n)
        PROVE  Lead'
    <2>1. Removal(n)
      BY <1>8, EntryRemoval
    <2> QED
      BY <2>1, RemovalLead
  <1>9. ASSUME NEW r \in Rec, AllocRecord(r) PROVE Lead'
    BY <1>9, AllocLead
  <1>10. CASE OpenBoth
    BY <1>10, OpenBothLead
  <1>11. CASE OpenFails \/ CloseDir
    BY <1>11, EndLead
  <1>12. CASE AddEntry
    BY <1>12, AddEntryLead
  <1>13. CASE AddName
    BY <1>13, AddNameLead
  <1>14. CASE TakeBack
    BY <1>14, TakeBackLead
  <1>15. CASE RemoveName
    BY <1>15, RemoveNameLead
  <1>16. CASE RemoveNameFails
    BY <1>16, RemoveNameFailsLead
  <1>17. CASE FreeClusters
    BY <1>17, FreeClustersLead
  <1>18. CASE FreeExtent
    BY <1>18, FreeExtentLead
  <1>19. CASE ClearExtentBit
    BY <1>19, ClearExtentBitLead
  <1>20. CASE FreeBase
    BY <1>20, FreeBaseLead
  <1>21. CASE CloseFile
    BY <1>21, CloseFileLead
  <1>22. CASE Crash
    BY <1>22, CrashLead
  <1> QED
    BY <1>1, <1>2, <1>3, <1>4, <1>5, <1>6, <1>7, <1>8, <1>9, <1>10, <1>11, <1>12, <1>13, <1>14,
       <1>15, <1>16, <1>17, <1>18, <1>19, <1>20, <1>21, <1>22 DEF Next, Step

-----------------------------------------------------------------------------
LeadsInv == NamesInv /\ troubles \in Nat /\ Lead

LEMMA LeadsInvariant == Spec => []LeadsInv
  <1>1. Init => LeadsInv
    <2>1. Init => troubles \in Nat
      BY DEF Init
    <2> QED
      BY <2>1, InitTypes, InitSound, InitLead DEF LeadsInv, NamesInv
  <1>2. LeadsInv /\ [Next]_vars => LeadsInv'
    BY NextTypes, NextSound, ScarsStay, NextLead, TroublesType DEF LeadsInv, NamesInv
  <1> QED
    BY <1>1, <1>2, PTL DEF Spec

(* Of the names a caller was promised one leads to the file in every       *)
(* state, and the extents of the file are in use: after any failures and   *)
(* stops, and in the middle of a rename, whatever the names are.           *)
THEOREM PromisesLead == Spec => []PromisedNamesLead
  <1>1. LeadsInv => PromisedNamesLead
    <2> SUFFICES ASSUME LeadsInv, NEW p \in promise
                 PROVE  /\ \E n \in p.any : Leads(n, p.rec, p.seq)
                        /\ \A x \in rec[p.rec].ext : rec[x[1]].used /\ rec[x[1]].seq = x[2]
      BY DEF PromisedNamesLead
    <2>1. Promise(p) /\ Leading(p) /\ Parts
      BY DEF LeadsInv, Lead, Promises
    <2>2. \E n \in p.any : Leads(n, p.rec, p.seq)
      BY <2>1, SolidLeads DEF Leading
    <2>3. rec[p.rec].ext # {} => rec[p.rec].ext = {<<2, 1>>}
      BY <2>1 DEF Parts, Promise
    <2> QED
      BY <2>1, <2>2, <2>3 DEF Promise
  <1> QED
    BY <1>1, LeadsInvariant, PTL

(* The clusters of a promised file are marked in use and are no other      *)
(* such file's, but for those a stopped deletion left behind.              *)
THEOREM ClustersStay == Spec => []ClustersStayTheirs
  <1>1. LeadsInv => ClustersStayTheirs
    <2> SUFFICES ASSUME LeadsInv, NEW p \in promise
                 PROVE  /\ rec[p.rec].map \subseteq bmp \union exposed
                        /\ \A q \in promise : q.rec # p.rec =>
                              rec[p.rec].map \intersect rec[q.rec].map \subseteq exposed
      BY DEF ClustersStayTheirs
    <2>1. Maps /\ \A q \in promise : Promise(q)
      BY DEF LeadsInv, Lead, Promises
    <2>2. \A q \in promise : q.rec \in Rec /\ (pc \in Freeing => q.rec # ni.no)
      BY <2>1 DEF Promise
    <2>3. pc \in {"exts", "ext_bit", "base"} => p.rec # ni.no
      BY <2>2, HandStages
    <2> QED
      BY <2>1, <2>2, <2>3 DEF Maps
  <1> QED
    BY <1>1, LeadsInvariant, PTL
-----------------------------------------------------------------------------
(***************************************************************************)
(* Calls that fail.  Until something goes wrong on disk, a name of the     *)
(* user leads where it led when the call began, on disk and as the call    *)
(* sees it, but for the name that is being added or removed.               *)
(***************************************************************************)
Was(e, n) == Like(e, call.ents[n])
Were(n) == Was(ents[n], n) /\ (pc \in InHand => Was(Seen(n), n))
Clean == ~call.torn /\ "inconsistent" \notin scars

(* Whether the last name of the file has gone.                             *)
Alive ==
    /\ pc = "open" \/ pc \in Naming => ~call.gone
    /\ pc \in Freeing /\ call.phase # "create" => call.gone

(* The name a call adds was not there, and is as it was until it is added  *)
(* and after it has been taken back.                                       *)
NewKept(n) ==
    /\ pc \in {"open", "add"} \union Freeing => Were(n)
    /\ pc \in {"name", "back"} => Was(NoEntry, n) /\ (Big(n) \/ Was(ents[n], n))
    /\ pc \in {"close_ni", "close_dir"} => IF call.res = "fail" THEN Were(n) ELSE Was(NoEntry, n)

(* A rename that undoes its link removes the name again.                   *)
Unlinked == \/ pc \in Freeing \/ pc \in {"close_ni", "close_dir"}
            \/ pc = "unname" /\ call.want # "dos"
TakenBack(n) ==
    /\ call.op = "rename" /\ call.phase \in {"rm", "undo"} => Was(NoEntry, n)
    /\ call.phase = "undo" /\ call.res = "ok" /\ Unlinked =>
          Like(Seen(n), NoEntry) /\ (Big(n) \/ "dir" \in dirty)

Spares(n) == /\ call.phase # "rm" \/ (NotYet /\ ~call.gone)
             /\ n # call.new \/ call.op = "unlink"
NameKept(n) ==
    /\ pc # "idle" /\ Spares(n) => Were(n)
    /\ pc # "idle" /\ n = call.new /\ call.phase \in {"link", "create"} => NewKept(n)
    /\ pc # "idle" /\ n = call.new => TakenBack(n)
    /\ pc = "idle" /\ call.res = "fail" /\ ~call.gone => Was(ents[n], n)

Kept == Clean => Alive /\ \A n \in UserNames : NameKept(n)

(* A step within a handler, for a name it leaves alone.                    *)
HandStep ==
    /\ pc \in InHand /\ pc' \in InHand /\ pc # "idle" /\ pc' # "idle" /\ pc # "open" /\ pc' # "open"
    /\ UNCHANGED big /\ scars \subseteq scars'
    /\ call'.op = call.op /\ call'.phase = call.phase /\ call'.new = call.new
    /\ call'.ents = call.ents
    /\ call.torn => call'.torn
SameEntry(n) == Like(ents'[n], ents[n]) /\ Like(Seen(n)', Seen(n))
StillSpares == call.phase = "rm" /\ NotYet' /\ ~call'.gone => NotYet /\ ~call.gone
StillAdds ==
    call.phase \in {"link", "create"} =>
        /\ pc' # "add" /\ pc' # "name"
        /\ pc' \in Freeing => pc = "add" \/ pc \in Freeing
        /\ pc' = "back" => pc = "name"
        /\ pc' \in {"close_ni", "close_dir"} =>
              IF call'.res = "fail"
              THEN pc = "add" \/ pc \in Freeing \/ (pc = "close_ni" /\ call.res = "fail")
              ELSE pc = "name" \/ (pc = "close_ni" /\ call.res # "fail")
StillTakesBack ==
    call.phase = "undo" /\ call'.res = "ok" /\ Unlinked' =>
        call.res = "ok" /\ Unlinked /\ dirty \subseteq dirty'

LEMMA NameStaysKept ==
    ASSUME HandStep, NEW n, SameEntry(n) \/ (call.phase = "rm" /\ ~NotYet'), StillSpares,
           n = call.new => StillAdds /\ StillTakesBack, NameKept(n)
    PROVE  NameKept(n)'
  <1>1. /\ pc \in InHand /\ pc' \in InHand /\ pc # "idle" /\ pc' # "idle" /\ pc' # "open"
        /\ call'.op = call.op /\ call'.phase = call.phase /\ call'.new = call.new
        /\ call'.ents = call.ents
        /\ Big(n)' = Big(n)
    BY DEF HandStep, Big
  <1>2. Was(NoEntry, n)' <=> Was(NoEntry, n)
    BY <1>1 DEF Was, Like
  <1>3. SameEntry(n) => /\ Were(n) => Were(n)'
                        /\ Was(ents[n], n) => Was(ents[n], n)'
                        /\ Like(Seen(n), NoEntry) => Like(Seen(n), NoEntry)'
    BY <1>1 DEF SameEntry, Were, Was, Like
  <1>4. pc' # "idle" /\ Spares(n)' => Were(n)'
    BY <1>1, <1>3 DEF NameKept, Spares, StillSpares
  <1>5. ASSUME n = call'.new, call'.phase \in {"link", "create"} PROVE NewKept(n)'
    <2>1. NewKept(n) /\ SameEntry(n) /\ StillAdds
      BY <1>1, <1>5 DEF NameKept
    <2>2. pc' \in {"open", "add"} \union Freeing => Were(n)'
      BY <1>1, <1>3, <1>5, <2>1 DEF NewKept, StillAdds
    <2>3. pc' \in {"name", "back"} => Was(NoEntry, n)' /\ (Big(n)' \/ Was(ents[n], n)')
      BY <1>1, <1>2, <1>3, <1>5, <2>1 DEF NewKept, StillAdds
    <2>4. pc' \in {"close_ni", "close_dir"} =>
              IF call'.res = "fail" THEN Were(n)' ELSE Was(NoEntry, n)'
      BY <1>1, <1>2, <1>3, <1>5, <2>1 DEF NewKept, StillAdds
    <2> QED
      BY <2>2, <2>3, <2>4 DEF NewKept
  <1>6. ASSUME n = call'.new PROVE TakenBack(n)'
    <2>1. TakenBack(n) /\ StillTakesBack
      BY <1>1, <1>6 DEF NameKept
    <2>2. call'.op = "rename" /\ call'.phase \in {"rm", "undo"} => Was(NoEntry, n)'
      BY <1>1, <1>2, <2>1 DEF TakenBack
    <2>3. call'.phase = "undo" /\ call'.res = "ok" /\ Unlinked' =>
              Like(Seen(n), NoEntry)' /\ (Big(n)' \/ "dir" \in dirty')
      BY <1>1, <1>3, <2>1 DEF TakenBack, StillTakesBack
    <2> QED
      BY <2>2, <2>3 DEF TakenBack
  <1> QED
    BY <1>1, <1>4, <1>5, <1>6 DEF NameKept

LEMMA StaysKept ==
    ASSUME Kept, HandStep, Clean' => Alive',
           Clean /\ Clean' => \A n \in UserNames : NameKept(n) => NameKept(n)'
    PROVE  Kept'
  BY DEF Kept, HandStep, Clean
(* The steps that write no entry.                                          *)
QuietStep == /\ UNCHANGED <<ents, dirm>> /\ HandStep /\ StillSpares /\ StillAdds /\ StillTakesBack
         /\ Alive'

LEMMA QuietKeeps == ASSUME Kept, Clean' /\ Clean => QuietStep, HandStep PROVE Kept'
  <1>1. ASSUME QuietStep, NEW n PROVE SameEntry(n)
    BY <1>1 DEF QuietStep, HandStep, SameEntry, Like, Seen, Big
  <1>2. ASSUME QuietStep, NEW n, NameKept(n) PROVE NameKept(n)'
    BY <1>1, <1>2, NameStaysKept DEF QuietStep
  <1>3. Clean' => Clean
    BY DEF HandStep, Clean
  <1> QED
    BY <1>2, <1>3, StaysKept DEF QuietStep

LEMMA PassKept ==
    ASSUME Types, Lead, Kept, \/ AddRefused \/ AddNameFails \/ TakeBackFails \/ RemoveRefused
                              \/ FreeExtentFails \/ NoExtents \/ ClearBit \/ FreeBaseFails
    PROVE  Kept'
  <1>1. /\ UNCHANGED <<big, rec, ents, bmp, ni, dirm, dirty, promise>> /\ Passes
    BY PassDoes
  <1>2. scars \subseteq scars' /\ (pc = "back" => "inconsistent" \in scars')
    BY DEF AddRefused, AddNameFails, TakeBackFails, RemoveRefused, FreeExtentFails, NoExtents,
           ClearBit, FreeBaseFails, ghosts
  <1>3. call'.ents = call.ents
    BY CallGoesOn DEF Types, AddRefused, AddNameFails, TakeBackFails, RemoveRefused,
           FreeExtentFails, NoExtents, ClearBit, FreeBaseFails, GoesOn
  <1>4. /\ call'.op = call.op /\ call'.phase = call.phase /\ call'.new = call.new
        /\ call'.want = call.want /\ call'.gone = call.gone /\ call'.torn = call.torn
    BY <1>1 DEF Passes, Move, GoesOn
  <1>5. \/ pc = "add" /\ pc' = "close_ni" /\ call'.res = "fail" /\ call.phase # "create"
        \/ pc = "add" /\ pc' = "base" /\ call'.res = "fail" /\ call.phase = "create"
        \/ pc = "name" /\ pc' = "back" /\ call'.res = "fail"
        \/ pc = "back"
        \/ pc = "find" /\ pc' = "close_ni" /\ call'.res = "fail"
        \/ /\ pc \in Freeing /\ pc' \in Freeing \union {"close_dir"}
           /\ call'.res = "fail" \/ call'.res = call.res
    BY <1>1, HandStages DEF Passes, Move, GoesOn
  <1>6. pc \in InHand /\ pc' \in InHand
    BY <1>1, HandStages DEF Passes, Move
  <1>7. HandStep
    BY <1>1, <1>2, <1>3, <1>4, <1>6, HandStages DEF HandStep
  <1>8. Phases
    BY <1>6, HandStages DEF Lead, Stage
  <1>9. ASSUME Clean, Clean' PROVE QuietStep
    <2>1. pc # "back" /\ Alive
      BY <1>2, <1>9 DEF Clean, Kept
    <2>2. /\ pc \in {"add", "name", "find"} => ~call.gone
          /\ pc \in Freeing /\ call.phase # "create" => call.gone
      BY <2>1, HandStages DEF Alive
    <2>3. Alive'
      BY <1>4, <1>5, <1>7, <2>1, <2>2 DEF Alive, HandStep, Naming, Freeing
    <2>4. StillSpares
      BY <1>4, <1>5, <1>8, <2>1, <2>2, HandStages DEF StillSpares, NotYet, Phases
    <2>5. StillAdds
      BY <1>5, <1>8, <2>1, HandStages DEF StillAdds, Phases
    <2>6. StillTakesBack
      BY <1>1, <1>4, <1>5, <1>8, <2>1, HandStages DEF StillTakesBack, Unlinked, Phases
    <2> QED
      BY <1>1, <1>7, <2>3, <2>4, <2>5, <2>6 DEF QuietStep
  <1> QED
    BY <1>7, <1>9, QuietKeeps

(* The last FILE_NAME is gone or it is not; what is freed has none left.   *)
LEMMA RemoveNameKept == ASSUME Types, Lead, Kept, RemoveName PROVE Kept'
  <1>1. /\ pc = "unname" /\ UNCHANGED <<big, ents, dirm, scars>> /\ dirty' = dirty \union {"ni"}
        /\ pc' \in {"find", "clusters", "close_ni"}
        /\ pc' = "find" <=> call.want = "dos"
        /\ pc' = "clusters" <=> call.want # "dos" /\ ni'.rec.links = 0
    BY DEF RemoveName, disks, ghosts
  <1>2. /\ call'.op = call.op /\ call'.phase = call.phase /\ call'.new = call.new
        /\ call'.ents = call.ents /\ call'.torn = call.torn /\ call'.res = call.res
        /\ call'.gone = (call.want # "dos" /\ ni'.rec.links = 0)
    <2>1. call' = [call EXCEPT !.want = IF call.want = "dos" THEN "win32" ELSE call.want,
                               !.gone = call.want # "dos" /\ ni'.rec.links = 0]
      BY DEF RemoveName
    <2> QED
      BY <2>1 DEF Types, Call
  <1>3. HandStep
    BY <1>1, <1>2, HandStages DEF HandStep
  <1>4. Phases /\ call.phase \in {"rm", "undo"} /\ call.res = "ok"
    BY <1>1 DEF Lead, Stage, Phases
  <1>5. ASSUME Clean, Clean' PROVE QuietStep
    <2>1. ~call.gone
      BY <1>1, <1>5, HandStages DEF Kept, Alive
    <2>2. Alive'
      BY <1>1, <1>2, HandStages DEF Alive
    <2>3. StillSpares /\ StillAdds
      BY <1>1, <1>2, <1>4, <2>1 DEF StillSpares, StillAdds, NotYet
    <2>4. StillTakesBack
      BY <1>1, <1>2, <1>4, HandStages DEF StillTakesBack, Unlinked
    <2> QED
      BY <1>1, <1>3, <2>2, <2>3, <2>4 DEF QuietStep
  <1> QED
    BY <1>3, <1>5, QuietKeeps

LEMMA AddNameKept == ASSUME Types, Lead, Kept, AddName PROVE Kept'
  <1>1. /\ pc = "name" /\ pc' = "close_ni" /\ UNCHANGED <<big, ents, dirm, scars, call>>
        /\ dirty' = dirty \union {"ni"}
    BY DEF AddName, disks, ghosts
  <1>2. HandStep
    BY <1>1, HandStages DEF HandStep
  <1>3. call.phase = "link" /\ call.res = "ok"
    BY <1>1 DEF Lead, Stage, Phases
  <1>4. ASSUME Clean, Clean' PROVE QuietStep
    <2>1. Alive' /\ StillSpares /\ StillAdds /\ StillTakesBack
      BY <1>1, <1>3, <1>4, HandStages DEF Kept, Alive, StillSpares, StillAdds, StillTakesBack
    <2> QED
      BY <1>1, <1>2, <2>1 DEF QuietStep
  <1> QED
    BY <1>2, <1>4, QuietKeeps

(* What is being freed was without a name before, and the file is closed   *)
(* after what was to be done.                                              *)
LEMMA FreeingKept ==
    ASSUME Types, Lead, Kept, \/ FreeClusters \/ FreeExtent \/ ClearExtentBit \/ FreeBase
    PROVE  Kept'
  <1>1. /\ pc \in Freeing /\ pc' \in Freeing /\ UNCHANGED <<big, ents, dirm, dirty, scars>>
        /\ call' \in {call, Fails}
    BY HandStages DEF FreeClusters, FreeExtent, ClearExtentBit, FreeBase, mems, ghosts
  <1>2. /\ call'.op = call.op /\ call'.phase = call.phase /\ call'.new = call.new
        /\ call'.ents = call.ents /\ call'.torn = call.torn /\ call'.gone = call.gone
        /\ call'.res = "fail" \/ call'.res = call.res
    BY <1>1, CallGoesOn DEF Types, GoesOn
  <1>3. HandStep
    BY <1>1, <1>2, HandStages DEF HandStep, Freeing
  <1>4. pc' \notin Naming /\ pc' # "open" /\ pc' \notin {"find", "unname", "close_ni", "close_dir"}
    BY <1>1 DEF Freeing, Naming
  <1>5. ASSUME Clean, Clean' PROVE QuietStep
    <2>1. Alive'
      BY <1>1, <1>2, <1>4, <1>5 DEF Kept, Alive
    <2>2. StillSpares
      BY <1>2, <1>4 DEF StillSpares, NotYet
    <2>3. StillAdds
      BY <1>1 DEF StillAdds, Freeing
    <2>4. StillTakesBack
      BY <1>1, <1>2 DEF StillTakesBack, Unlinked
    <2> QED
      BY <1>1, <1>3, <2>1, <2>2, <2>3, <2>4 DEF QuietStep
  <1> QED
    BY <1>3, <1>5, QuietKeeps

LEMMA CloseFileKept == ASSUME Types, Lead, Kept, CloseFile PROVE Kept'
  <1>1. /\ pc = "close_ni" /\ pc' = "close_dir" /\ UNCHANGED <<big, ents, dirm, dirty>>
        /\ scars \subseteq scars'
        /\ call' = call \/ call' = [call EXCEPT !.torn = TRUE]
    BY DEF CloseFile, mems
  <1>2. HandStep
    BY <1>1, CallGoesOn, HandStages DEF HandStep, Types, GoesOn
  <1>3. ASSUME Clean, Clean' PROVE QuietStep
    <2>1. call' = call
      BY <1>1, <1>3 DEF Clean, Types, Call
    <2>2. Alive'
      BY <1>1, <1>3, HandStages DEF Alive, Freeing, Naming
    <2>3. StillSpares /\ StillAdds
      BY <1>1, <2>1 DEF StillSpares, StillAdds, NotYet, Freeing
    <2>4. StillTakesBack
      BY <1>1, <2>1 DEF StillTakesBack, Unlinked
    <2> QED
      BY <1>1, <1>2, <2>2, <2>3, <2>4 DEF QuietStep
  <1> QED
    BY <1>2, <1>3, QuietKeeps

LEMMA RemoveNameFailsKept == ASSUME RemoveNameFails PROVE Kept'
  BY DEF RemoveNameFails, Kept, Clean

(* An entry is put: the new one, or nothing again.                         *)
LEMMA AddEntryKept == ASSUME Types, troubles \in Nat, Lead, Kept, AddEntry PROVE Kept'
  <1>0. PICK new \in Names : new = call.new
    BY CallParts DEF Types
  <1>1. PICK e : e = [rec |-> ni.no, seq |-> ni.rec.seq, ns |-> "posix"]
    OBVIOUS
  <1>2. /\ pc = "add" /\ Seen(new) = NoEntry /\ Puts(new, e) /\ UNCHANGED big
        /\ call' = [call EXCEPT !.torn = Torn]
        /\ call.phase = "create" => pc' = "close_ni"
        /\ call.phase # "create" => pc' = "name"
    BY <1>0, <1>1, PutDoes DEF AddEntry
  <1>3. /\ call'.op = call.op /\ call'.phase = call.phase /\ call'.new = call.new
        /\ call'.ents = call.ents /\ call'.torn = Torn /\ call'.res = call.res
        /\ call'.gone = call.gone
    BY <1>2, CallParts, CallGoesOn DEF Types, GoesOn
  <1>4. /\ Phases /\ call.phase \in {"link", "create"} /\ call.res = "ok"
    BY <1>2 DEF Lead, Stage, Phases
  <1>5. HandStep
    BY <1>2, <1>3, HandStages DEF HandStep, Puts, Torn
  <1>6. Clean' => Alive'
    BY <1>2, <1>3, <1>4, <1>5, HandStages DEF Alive, Phases, Freeing
  <1>7. ASSUME Clean, Clean', NEW n \in UserNames, NameKept(n) PROVE NameKept(n)'
    <2>1. n \in Names /\ (new = n \/ (new # n /\ n # call.new))
      BY <1>0 DEF UserNames
    <2>2. CASE new # n
      <3>1. SameEntry(n)
        BY <1>2, <2>1, <2>2 DEF Puts, SameEntry, Like
      <3>2. StillSpares
        BY <1>4 DEF StillSpares
      <3> QED
        BY <1>5, <1>7, <2>1, <2>2, <3>1, <3>2, NameStaysKept
    <2>3. CASE new = n
      <3>1. NewKept(n)
        BY <1>0, <1>2, <1>4, <1>7, <2>3 DEF NameKept
      <3>2. Was(NoEntry, n) /\ Was(ents[n], n)
        BY <1>2, <2>3, <3>1, HandStages DEF NewKept, Were
      <3>3. Big(n)' \/ ents'[n] = ents[n]
        BY <1>2, <1>3, <1>7, <2>3 DEF Puts, Torn, Clean, Big
      <3>4. Was(NoEntry, n)' /\ (Big(n)' \/ Was(ents[n], n)')
        BY <1>3, <3>2, <3>3 DEF Was, Like
      <3>5. NewKept(n)'
        BY <1>2, <1>3, <1>4, <3>4, HandStages DEF NewKept, Freeing
      <3>6. TakenBack(n)'
        BY <1>3, <1>4 DEF TakenBack
      <3>7. ~Spares(n)'
        BY <1>0, <1>3, <1>4, <2>3 DEF Spares, Phases
      <3> QED
        BY <1>5, <3>5, <3>6, <3>7 DEF NameKept, HandStep
    <2> QED
      BY <2>2, <2>3
  <1> QED
    BY <1>5, <1>6, <1>7, StaysKept

LEMMA TakeBackKept == ASSUME Types, troubles \in Nat, Lead, Kept, TakeBack PROVE Kept'
  <1>0. PICK new \in Names : new = call.new
    BY CallParts DEF Types
  <1>2. /\ pc = "back" /\ pc' = "close_ni" /\ Puts(new, NoEntry) /\ UNCHANGED big
        /\ call' = [call EXCEPT !.torn = Torn]
    BY <1>0, PutDoes DEF TakeBack
  <1>3. /\ call'.op = call.op /\ call'.phase = call.phase /\ call'.new = call.new
        /\ call'.ents = call.ents /\ call'.torn = Torn /\ call'.res = call.res
        /\ call'.gone = call.gone
    BY <1>2, CallParts, CallGoesOn DEF Types, GoesOn
  <1>4. /\ Phases /\ call.phase = "link" /\ call.res = "fail"
    BY <1>2 DEF Lead, Stage, Phases
  <1>5. HandStep
    BY <1>2, <1>3, HandStages DEF HandStep, Puts, Torn
  <1>6. Clean' => Alive'
    BY <1>2, <1>3, <1>4, <1>5, HandStages DEF Alive, Phases, Freeing
  <1>7. ASSUME Clean, Clean', NEW n \in UserNames, NameKept(n) PROVE NameKept(n)'
    <2>1. n \in Names /\ (new = n \/ (new # n /\ n # call.new))
      BY <1>0 DEF UserNames
    <2>2. CASE new # n
      <3>1. SameEntry(n)
        BY <1>2, <2>1, <2>2 DEF Puts, SameEntry, Like
      <3>2. StillSpares
        BY <1>4 DEF StillSpares
      <3> QED
        BY <1>5, <1>7, <2>1, <2>2, <3>1, <3>2, NameStaysKept
    <2>3. CASE new = n
      <3>1. NewKept(n)
        BY <1>0, <1>2, <1>4, <1>7, <2>3 DEF NameKept
      <3>2. Was(NoEntry, n) /\ (Big(n) \/ Was(ents[n], n))
        BY <1>2, <2>3, <3>1, HandStages DEF NewKept
      <3>3. Seen(n)' = NoEntry /\ (ents'[n] = NoEntry \/ (~Big(n) /\ ents'[n] = ents[n]))
        BY <1>2, <1>3, <1>7, <2>3 DEF Puts, Torn, Clean
      <3>4. Were(n)'
        BY <1>3, <3>2, <3>3 DEF Was, Were, Like
      <3>5. NewKept(n)'
        BY <1>2, <1>3, <1>4, <3>4, HandStages DEF NewKept, Freeing
      <3>6. TakenBack(n)'
        BY <1>3, <1>4 DEF TakenBack
      <3>7. ~Spares(n)'
        BY <1>0, <1>3, <1>4, <2>3 DEF Spares, Phases
      <3> QED
        BY <1>5, <3>5, <3>6, <3>7 DEF NameKept, HandStep
    <2> QED
      BY <2>2, <2>3
  <1> QED
    BY <1>5, <1>6, <1>7, StaysKept

(* An entry is removed: that of the DOS name, or of the name asked for.    *)
LEMMA RemovalKept ==
    ASSUME Types, Lead, Kept, NEW r, Removal(r), scars \subseteq scars'
    PROVE  Kept'
  <1>1. /\ r \in Names /\ pc = "find" /\ r \in Wanted /\ StepsOn
        /\ \A m \in Names : m # r => ents'[m] = ents[m] /\ Seen(m)' = Seen(m)
        /\ call'.gone = call.gone /\ call'.ents = call.ents
        /\ \/ /\ pc' = "unname" /\ call'.res = call.res
              /\ call'.want = IF Pair(r) THEN ni.rec.names[r] ELSE call.want
              /\ call'.torn \/ (Seen(r)' = NoEntry /\ (Big(r) \/ "dir" \in dirty'))
           \/ /\ pc' = "close_ni" /\ call'.res = "fail"
              /\ call'.torn \/ Untouched(r)
    BY DEF Removal
  <1>2. HandStep
    BY <1>1 DEF HandStep, StepsOn
  <1>3. /\ RemovedIs(r)
        /\ \/ ~Pair(r) /\ r = Target /\ call.want = "any"
           \/ Pair(r) /\ ni.rec.names[r] = "dos" /\ r = Short
           \/ Pair(r) /\ ni.rec.names[r] = "win32" /\ r = Long
    BY <1>1, WantedIs DEF OneOfPair
  <1>4. /\ call.phase \in {"rm", "undo"}
        /\ call.phase = "undo" => call.op = "rename" /\ r \in {call.new, Short} /\ Target = call.new
    BY <1>3 DEF RemovedIs, Target
  <1>5. pc' = "unname" => (call'.want = "dos" <=> r = Short /\ Pair(r))
    BY <1>1, <1>3, DirAssumption
  <1>6. Clean' => Alive'
    BY <1>1, <1>2, HandStages DEF Alive, HandStep, Kept, Clean
  <1>7. StillSpares /\ StillAdds
    BY <1>1, <1>4 DEF StillSpares, StillAdds, NotYet
  <1>8. ASSUME Clean, Clean', NEW n \in UserNames, NameKept(n) PROVE NameKept(n)'
    <2>1. n \in Names /\ n # Short /\ ~call'.torn
      BY <1>8 DEF UserNames, Clean
    <2>2. CASE n # r
      <3>1. SameEntry(n)
        BY <1>1, <2>1, <2>2 DEF SameEntry, Like
      <3>2. n = call.new => StillTakesBack
        BY <1>1, <1>3, <1>4, <1>5, <2>1, <2>2, HandStages DEF StillTakesBack, Unlinked
      <3> QED
        BY <1>2, <1>7, <1>8, <3>1, <3>2, NameStaysKept
    <2>3. CASE n = r /\ pc' = "close_ni"
      <3>1. SameEntry(n)
        BY <1>1, <2>1, <2>3 DEF SameEntry, Untouched
      <3>2. StillTakesBack
        BY <1>1, <2>3 DEF StillTakesBack
      <3> QED
        BY <1>2, <1>7, <1>8, <3>1, <3>2, NameStaysKept
    <2>4. CASE n = r /\ pc' = "unname" /\ call.phase = "rm"
      <3>1. ~NotYet' /\ StillTakesBack
        BY <1>5, <2>1, <2>4 DEF NotYet, StillTakesBack
      <3> QED
        BY <1>2, <1>7, <1>8, <2>4, <3>1, NameStaysKept
    <2>5. CASE n = r /\ pc' = "unname" /\ call.phase = "undo"
      <3>1. n = call.new /\ call.op = "rename"
        BY <1>4, <2>1, <2>5
      <3>2. /\ pc # "idle" /\ pc' # "idle" /\ call'.op = call.op /\ call'.phase = call.phase
            /\ call'.new = call.new /\ call'.ents = call.ents /\ Big(n)' = Big(n)
        BY <1>2 DEF HandStep, Big
      <3>3. Was(NoEntry, n)'
        BY <1>8, <2>5, <3>1, <3>2 DEF NameKept, TakenBack, Was, Like
      <3>4. Like(Seen(n), NoEntry)' /\ (Big(n)' \/ "dir" \in dirty')
        BY <1>1, <2>1, <2>5, <3>2 DEF Like
      <3>5. TakenBack(n)'
        BY <3>3, <3>4 DEF TakenBack
      <3>6. ~Spares(n)'
        BY <3>1, <3>2 DEF Spares
      <3> QED
        BY <2>5, <3>2, <3>5, <3>6 DEF NameKept
    <2> QED
      BY <1>1, <1>4, <2>2, <2>3, <2>4, <2>5
  <1> QED
    BY <1>2, <1>6, <1>8, StaysKept

(* The file and the directory are opened, or a record is made.             *)
LEMMA OpenedKept ==
    ASSUME Types, Lead, Kept, OpenBoth \/ \E r \in Rec : AllocRecord(r)
    PROVE  Kept'
  <1>1. /\ pc = "open" /\ pc' \in {"add", "find"} /\ dirm' = ents
        /\ UNCHANGED <<big, ents, call, scars>>
        /\ pc' = "add" <=> call.phase \in {"link", "create"}
    BY DEF OpenBoth, AllocRecord, disks, ghosts
  <1>2. Clean' => Clean
    BY <1>1 DEF Clean
  <1>3. Clean => Alive'
    BY <1>1, HandStages DEF Kept, Alive
  <1>4. ASSUME NEW n \in UserNames, NameKept(n) PROVE NameKept(n)'
    <2>1. /\ Was(ents[n], n)' <=> Was(ents[n], n)
          /\ Was(NoEntry, n)' <=> Was(NoEntry, n)
          /\ Seen(n)' = ents'[n]
      BY <1>1 DEF Was, Like, Seen
    <2>2. Were(n) => Were(n)'
      BY <2>1 DEF Were
    <2>3. pc' # "idle" /\ Spares(n)' => Were(n)'
      BY <1>1, <1>4, <2>2 DEF NameKept, Spares, NotYet
    <2>4. n = call'.new /\ call'.phase \in {"link", "create"} => NewKept(n)'
      BY <1>1, <1>4, <2>2 DEF NameKept, NewKept
    <2>5. n = call'.new => TakenBack(n)'
      BY <1>1, <1>4, <2>1, HandStages DEF NameKept, TakenBack, Unlinked
    <2> QED
      BY <1>1, <2>3, <2>4, <2>5 DEF NameKept
  <1> QED
    BY <1>2, <1>3, <1>4 DEF Kept

(* A handler ends, and what was opened is closed.                          *)
LEMMA EndKept ==
    ASSUME Types, Lead, Kept, NEW res \in {"ok", "fail"}, NEW torn \in BOOLEAN, Leaves(res, torn),
           scars \subseteq scars'
    PROVE  Kept'
  <1>1. /\ call'.op = call.op /\ call'.new = call.new /\ call'.gone = call.gone
        /\ call'.ents = call.ents
        /\ call'.torn \/ (~torn /\ ~(call.phase = "undo" /\ res = "fail"))
        /\ call'.res = (IF Undoes(call.op, call.phase, res) THEN "ok"
                        ELSE IF call.phase = "undo" THEN "fail" ELSE res)
        /\ call'.phase = (IF Goes(call.op, call.phase, res) THEN "rm"
                          ELSE IF Undoes(call.op, call.phase, res) THEN "undo" ELSE call.phase)
        /\ pc' = IF Goes(call.op, call.phase, res) \/ Undoes(call.op, call.phase, res)
                 THEN "open" ELSE "idle"
    BY DEF Leaves, HandlerEnds, Types, Call
  <1>2. /\ pc \in {"open", "close_dir"} /\ pc # "idle" /\ Phases
        /\ pc' \in {"idle", "open"} /\ pc' \notin InHand /\ pc' \notin Naming /\ pc' \notin Freeing
        /\ res = "ok" => pc = "close_dir"
        /\ pc = "close_dir" => pc \in InHand
        /\ call.phase \in {"create", "link", "rm", "undo"}
    BY EndIsOpen DEF Types, Call
  <1>3. /\ UNCHANGED big
        /\ call.torn => torn
        /\ \/ pc = "open" /\ res = "fail" /\ ents' = ents
           \/ /\ pc = "close_dir" /\ res = call.res
              /\ ~torn => \A n \in Names : Big(n) \/ ("dir" \in dirty /\ n = Target) => ents'[n] = Seen(n)
        /\ \A n \in Names : ents'[n] \in {ents[n], Seen(n)}
    BY DEF Leaves
  <1>4. Clean' => Clean /\ ~torn /\ ~(call.phase = "undo" /\ res = "fail")
    <2>1. SUFFICES ASSUME Clean' PROVE Clean /\ ~torn /\ ~(call.phase = "undo" /\ res = "fail")
      OBVIOUS
    <2>2. ~call'.torn /\ "inconsistent" \notin scars'
      BY <2>1 DEF Clean
    <2>3. ~torn /\ ~(call.phase = "undo" /\ res = "fail")
      BY <1>1, <2>2
    <2>4. call.torn => torn
      BY <1>3
    <2>5. "inconsistent" \notin scars
      BY <2>2
    <2> QED
      BY <2>3, <2>4, <2>5 DEF Clean
  <1>5. Clean /\ ~torn /\ call.phase = "rm" /\ res = "fail" => NotYet
    BY <1>2, <1>3 DEF NotYet, Clean
  <1>6. Clean' /\ pc' = "open" => ~call.gone
    <2>1. SUFFICES ASSUME Clean', pc' = "open", pc = "close_dir" PROVE ~call.gone
      BY <1>2, <1>4 DEF Kept, Alive
    <2>2. CASE call.phase = "link"
      BY <2>2, <1>2 DEF Phases
    <2>3. CASE call.phase # "link"
      <3>1. Removing /\ Counting
        BY <1>1, <1>2, <1>4, <2>1, <2>3 DEF Goes, Undoes, Removing, Counting, Clean
      <3> QED
        BY <2>1, <3>1, <1>4 DEF Lead, NewThere, Clean
    <2> QED
      BY <2>2, <2>3
  <1>7. Clean' => Alive'
    BY <1>1, <1>2, <1>6 DEF Alive
  <1>8. ASSUME Clean', NEW n \in UserNames, NameKept(n) PROVE NameKept(n)'
    <2>1. n \in Names /\ Clean /\ ~torn
      BY <1>4, <1>8 DEF UserNames
    <2>2. Were(n) => Was(ents'[n], n)
      BY <1>2, <1>3, <2>1 DEF Were
    <2>3. Were(n)' <=> Was(ents'[n], n)
      BY <1>1, <1>2 DEF Were, Was, Like
    <2>4. Was(NoEntry, n)' <=> Was(NoEntry, n)
      BY <1>1 DEF Was, Like
    <2>5. CASE Goes(call.op, call.phase, res)
      <3>1. /\ pc' = "open" /\ call'.phase = "rm" /\ call.phase = "link" /\ call.op = "rename"
            /\ pc = "close_dir" /\ call.res = "ok"
        BY <1>1, <1>2, <1>3, <2>5 DEF Goes
      <3>2. Spares(n)' => Were(n)'
        BY <1>1, <1>2, <1>8, <2>2, <2>3, <3>1 DEF NameKept, Spares
      <3>3. n = call'.new => Was(NoEntry, n)'
        BY <1>1, <1>2, <1>8, <2>4, <3>1 DEF NameKept, NewKept
      <3> QED
        BY <1>2, <3>1, <3>2, <3>3 DEF NameKept, TakenBack
    <2>6. CASE Undoes(call.op, call.phase, res)
      <3>1. /\ pc' = "open" /\ call'.phase = "undo" /\ call.phase = "rm" /\ call.op = "rename"
            /\ NotYet /\ ~call.gone
        BY <1>1, <1>5, <1>6, <1>8, <2>1, <2>6 DEF Goes, Undoes
      <3>2. Spares(n)' => Were(n)'
        BY <1>1, <1>2, <1>8, <2>2, <2>3, <3>1 DEF NameKept, Spares
      <3>3. n = call'.new => Was(NoEntry, n)'
        BY <1>1, <1>2, <1>8, <2>4, <3>1 DEF NameKept, TakenBack
      <3>4. ~Unlinked'
        BY <1>2, <3>1 DEF Unlinked
      <3> QED
        BY <1>2, <3>1, <3>2, <3>3, <3>4 DEF NameKept, TakenBack
    <2>7. CASE ~Goes(call.op, call.phase, res) /\ ~Undoes(call.op, call.phase, res)
      <3>1. SUFFICES ASSUME call'.res = "fail", ~call.gone PROVE Was(ents'[n], n)
        <4>1. pc' = "idle"
          BY <1>1, <2>7
        <4>2. Was(ents[n], n)' <=> Was(ents'[n], n)
          BY <1>1 DEF Was, Like
        <4> QED
          BY <1>1, <3>1, <4>1, <4>2 DEF NameKept
      <3>2. CASE n # call.new \/ call.op = "unlink"
        <4>1. Spares(n)
          BY <1>1, <1>2, <1>5, <2>1, <2>7, <3>1, <3>2 DEF Spares
        <4> QED
          BY <4>1, <1>2, <1>8, <2>2 DEF NameKept
      <3>3. CASE n = call.new /\ call.phase \in {"link", "create"}
        <4>1. NewKept(n) /\ res = "fail"
          BY <1>1, <1>2, <1>8, <2>7, <3>1, <3>3 DEF NameKept
        <4>2. Were(n)
          BY <4>1, <1>2, <1>3 DEF NewKept
        <4> QED
          BY <4>2, <2>2
      <3>4. CASE n = call.new /\ call.phase = "undo"
        <4>1. res = "ok" /\ pc = "close_dir" /\ call.res = "ok" /\ call.op = "rename"
          BY <1>2, <1>3, <1>4, <1>8, <3>4 DEF Phases, Types, Call
        <4>2. Unlinked /\ TakenBack(n) /\ Target = n
          BY <1>2, <1>8, <3>4, <4>1 DEF NameKept, Unlinked, Target
        <4>3. Like(Seen(n), NoEntry) /\ (Big(n) \/ "dir" \in dirty) /\ Was(NoEntry, n)
          BY <3>4, <4>1, <4>2 DEF TakenBack
        <4>4. ents'[n] = Seen(n)
          BY <1>3, <2>1, <4>1, <4>2, <4>3
        <4> QED
          BY <4>3, <4>4 DEF Was, Like
      <3>5. call.op = "unlink" \/ call.phase # "rm"
        BY <1>1, <1>2, <2>7, <3>1 DEF Undoes, Phases, Types, Call
      <3> QED
        BY <1>2, <3>2, <3>3, <3>4, <3>5
    <2> QED
      BY <2>5, <2>6, <2>7
  <1> QED
    BY <1>4, <1>7, <1>8 DEF Kept

-----------------------------------------------------------------------------
LEMMA StartKept ==
    ASSUME call \in Call, NEW op \in {"create", "link", "rename", "unlink"},
           NEW phase \in {"create", "link", "rm"}, NEW old \in Names, NEW new \in Names,
           op = "rename" => phase = "link", Start(op, phase, old, new)
    PROVE  Kept'
  <1>1. /\ pc' = "open" /\ call'.gone = FALSE /\ call'.ents = ents /\ ents' = ents
        /\ call'.op = op /\ call'.phase = phase
    BY DEF Start, NoCall, disks
  <1>2. Alive'
    BY <1>1, HandStages DEF Alive, Freeing
  <1>3. ASSUME NEW n \in UserNames PROVE NameKept(n)'
    <2>1. Were(n)'
      BY <1>1, HandStages DEF Were, Was, Like
    <2>2. NewKept(n)'
      BY <1>1, <2>1 DEF NewKept
    <2>3. ~(call'.op = "rename" /\ call'.phase \in {"rm", "undo"}) /\ call'.phase # "undo"
      BY <1>1
    <2> QED
      BY <1>1, <2>1, <2>2, <2>3 DEF NameKept, TakenBack
  <1> QED
    BY <1>2, <1>3 DEF Kept

LEMMA NoCallKept == ASSUME pc' = "idle", call' = NoCall PROVE Kept'
  <1>1. pc' \notin Naming /\ pc' \notin Freeing /\ call'.res = "ok"
    BY DEF NoCall, Naming, Freeing
  <1> QED
    BY <1>1 DEF Kept, Alive, NameKept

LEMMA InitKept == Init => Kept
  <1>1. Init => pc = "idle" /\ call = NoCall
    BY DEF Init
  <1>2. pc = "idle" => pc \notin Naming /\ pc \notin Freeing
    BY DEF Naming, Freeing
  <1> QED
    BY <1>1, <1>2 DEF Kept, Alive, NameKept, NoCall

LEMMA KeptUnchanged == Kept /\ UNCHANGED vars => Kept'
  <1> SUFFICES ASSUME Kept, UNCHANGED vars PROVE Kept'
    OBVIOUS
  <1>1. UNCHANGED <<big, ents, dirm, dirty, pc, call, scars>>
    BY DEF vars, disks, mems, ghosts
  <1>2. (Clean' <=> Clean) /\ (Alive' <=> Alive)
    BY <1>1 DEF Clean, Alive
  <1>3. ASSUME NEW n PROVE NameKept(n)' <=> NameKept(n)
    <2>1. Seen(n)' = Seen(n) /\ (Big(n)' <=> Big(n)) /\ (Unlinked' <=> Unlinked) /\ (NotYet' <=> NotYet)
      BY <1>1 DEF Seen, Big, Unlinked, NotYet
    <2>2. (Were(n)' <=> Were(n)) /\ (Spares(n)' <=> Spares(n))
      BY <1>1, <2>1 DEF Were, Was, Like, Spares
    <2>3. (NewKept(n)' <=> NewKept(n)) /\ (TakenBack(n)' <=> TakenBack(n))
      BY <1>1, <2>1, <2>2 DEF NewKept, TakenBack, Was, Like
    <2> QED
      BY <1>1, <2>2, <2>3 DEF NameKept, Was, Like
  <1> QED
    BY <1>2, <1>3 DEF Kept

LEMMA NextKept ==
    ASSUME Types, troubles \in Nat, Lead, Kept, [Next]_vars
    PROVE  Kept'
  <1>1. CASE UNCHANGED vars
    BY <1>1, KeptUnchanged
  <1>2. ASSUME NEW n \in UserNames, Create(n) PROVE Kept'
    <2>1. Start("create", "create", n, n) /\ n \in Names
      BY <1>2 DEF Create, UserNames
    <2> QED
      BY <2>1, StartKept DEF Types
  <1>3. ASSUME NEW o \in Names, NEW n \in UserNames, Link(o, n) \/ Rename(o, n) PROVE Kept'
    <2>1. n \in Names /\ (Start("link", "link", o, n) \/ Start("rename", "link", o, n))
      BY <1>3 DEF Link, Rename, UserNames
    <2> QED
      BY <2>1, StartKept DEF Types
  <1>4. ASSUME NEW n \in Names, Unlink(n) PROVE Kept'
    BY <1>4, StartKept DEF Unlink, Types
  <1>5. CASE Crash
    BY <1>5, NoCallKept DEF Crash
  <1>6. ASSUME NEW r \in Rec, NEW c \in Cluster, Grow(r, c) PROVE Kept'
    <2>1. pc' = "idle" /\ call' = NoCall
      BY <1>6 DEF Grow
    <2> QED
      BY <2>1, NoCallKept
  <1>7. CASE \/ AddRefused \/ AddNameFails \/ TakeBackFails \/ RemoveRefused
             \/ FreeExtentFails \/ NoExtents \/ ClearBit \/ FreeBaseFails
    BY <1>7, PassKept
  <1>8. ASSUME NEW n \in Names, RemoveEntry(n) \/ RemoveUnsupported(n) \/ RemoveEntryFails(n)
        PROVE  Kept'
    <2>1. Removal(n)
      BY <1>8, EntryRemoval
    <2>2. scars \subseteq scars'
      BY <1>8 DEF RemoveEntry, RemoveUnsupported, RemoveEntryFails, PutEntry
    <2> QED
      BY <2>1, <2>2, RemovalKept
  <1>9. CASE OpenBoth \/ \E r \in Rec : AllocRecord(r)
    BY <1>9, OpenedKept
  <1>10. CASE OpenFails \/ CloseDir
    <2>1. scars \subseteq scars'
      BY <1>10 DEF OpenFails, CloseDir
    <2>2. PICK res \in {"ok", "fail"}, torn \in BOOLEAN : Leaves(res, torn)
      BY <1>10, EndLeaves
    <2> QED
      BY <2>1, <2>2, EndKept
  <1>11. CASE AddEntry \/ AddName \/ TakeBack \/ RemoveName \/ RemoveNameFails \/ CloseFile
    BY <1>11, AddEntryKept, AddNameKept, TakeBackKept, RemoveNameKept, RemoveNameFailsKept,
       CloseFileKept
  <1>12. CASE FreeClusters \/ FreeExtent \/ ClearExtentBit \/ FreeBase
    BY <1>12, FreeingKept
  <1> QED
    BY <1>1, <1>2, <1>3, <1>4, <1>5, <1>6, <1>7, <1>8, <1>9, <1>10, <1>11, <1>12 DEF Next, Step

KeptInv == LeadsInv /\ Kept

LEMMA KeptInvariant == Spec => []KeptInv
  <1>1. Init => Kept
    BY InitKept
  <1>2. LeadsInv /\ Kept /\ [Next]_vars => Kept'
    BY NextKept DEF LeadsInv, NamesInv
  <1>3. Spec => []LeadsInv
    BY LeadsInvariant
  <1> QED
    BY <1>1, <1>2, <1>3, PTL DEF Spec, KeptInv

(* A call that fails leaves every name of the user to the file it led to,  *)
(* as long as no write has failed, nothing was reported inconsistent and   *)
(* the last name was not already gone: a rename that is undone as well.    *)
THEOREM FailedCallsKeep == Spec => []FailedCallsKeepNames
  <1>1. KeptInv => FailedCallsKeepNames
    BY DEF KeptInv, Kept, Clean, NameKept, Was, Like, FailedCallsKeepNames
  <1> QED
    BY <1>1, KeptInvariant, PTL
=============================================================================
