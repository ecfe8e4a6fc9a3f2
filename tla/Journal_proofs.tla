--------------------------- MODULE Journal_proofs ---------------------------
(***************************************************************************)
(* For every size of the journal, of its pages and of the writes that fill *)
(* it, and for any number of failures and stops: a journal that Windows    *)
(* still needs is not touched before the volume is marked, what is mounted *)
(* for writing has nothing that only the journal can finish or is marked,  *)
(* and what ntfsfix reports as fixed mounts.                               *)
(***************************************************************************)
EXTENDS Journal, TLAPS

(* While Windows runs, its journal is set up; no program runs beside it;   *)
(* and a program that is about to fill the journal has marked the volume.  *)
Whole == \A b \in 0..Blocks - 1 : log[b] # Empty
IInv ==
    /\ log = [b \in 0..Blocks - 1 |-> log[b]]
    /\ win.state = "running" => Whole /\ pc = "off"
    /\ pc \in {"read", "fill"} => Dirty \in flags
    /\ LostJournalIsMarked
-----------------------------------------------------------------------------
(* Blocks that Windows writes are not taken for empty ones.                *)
LEMMA WrittenBlocks ==
    ASSUME NEW lsn, NEW used, NEW clean, NEW size, NEW other
    PROVE  /\ RestartPage("RSTR", lsn, used, clean, size) # Empty
           /\ [RestartPage("RSTR", lsn, used, clean, size) EXCEPT !.lsn = other] # Empty
           /\ Body(lsn) # Empty
           /\ Rcrd # Empty
<1>1. Empty.kind = "empty"
  BY DEF Empty
<1>2. RestartPage("RSTR", lsn, used, clean, size).kind = "RSTR"
  BY DEF RestartPage
<1>3. [RestartPage("RSTR", lsn, used, clean, size) EXCEPT !.lsn = other].kind = "RSTR"
  BY DEF RestartPage
<1>4. Body(lsn).kind = "body" /\ Rcrd.kind = "RCRD"
  BY DEF Body, Rcrd
<1> QED
  BY <1>1, <1>2, <1>3, <1>4

(* Whenever Windows writes a restart page the whole journal is set up.     *)
LEMMA PageSetsUp ==
    ASSUME NEW used, NEW clean
    PROVE  /\ WithPage(Restart(used, clean)) = [b \in 0..Blocks - 1 |-> WithPage(Restart(used, clean))[b]]
           /\ \A b \in 0..Blocks - 1 : WithPage(Restart(used, clean))[b] # Empty
<1> DEFINE head == Restart(used, clean)
           start == win.next * win.size
           other == (1 - win.next) * win.size
           new == Page(win.next, head)
           fresh == [b \in 0..Blocks - 1 |->
                       IF b \in start..start + win.size - 1 THEN new[b]
                       ELSE IF b = other THEN [head EXCEPT !.lsn = @ - 1]
                       ELSE IF b \in other..other + win.size - 1 THEN Body(head.lsn - 1)
                       ELSE Records[b]]
<1>1. WithPage(head) = IF \E b \in 0..Blocks - 1 : log[b] = Empty THEN fresh ELSE new
  BY DEF WithPage
<1>2. head # Empty /\ [head EXCEPT !.lsn = @ - 1] # Empty
  BY WrittenBlocks DEF Restart
<1>3. ASSUME NEW b \in 0..Blocks - 1 PROVE Records[b] # Empty
  BY WrittenBlocks DEF Records
<1>4. ASSUME NEW b \in 0..Blocks - 1
      PROVE  new[b] = head \/ new[b] = Body(head.lsn) \/ new[b] = log[b]
  BY DEF Page
<1>5. CASE \E b \in 0..Blocks - 1 : log[b] = Empty
  <2>1. ASSUME NEW b \in 0..Blocks - 1, b \in start..start + win.size - 1
        PROVE  new[b] # Empty
    <3>1. new[b] = head \/ new[b] = Body(head.lsn)
      BY <2>1 DEF Page
    <3> QED
      BY <3>1, <1>2, WrittenBlocks
  <2>2. ASSUME NEW b \in 0..Blocks - 1 PROVE fresh[b] # Empty
    BY <2>1, <1>2, <1>3, WrittenBlocks
  <2> QED
    BY <1>1, <1>5, <2>2
<1>6. CASE \A b \in 0..Blocks - 1 : log[b] # Empty
  <2>1. \A b \in 0..Blocks - 1 : new[b] # Empty
    BY <1>4, <1>6, <1>2, WrittenBlocks
  <2>2. new = [b \in 0..Blocks - 1 |-> new[b]]
    BY DEF Page
  <2> QED
    BY <1>1, <1>6, <2>1, <2>2
<1> QED
  BY <1>5, <1>6
-----------------------------------------------------------------------------
LEMMA InitHolds == Init => IInv
  BY DEF Init, IInv, LostJournalIsMarked

LEMMA NextHolds == IInv /\ [Next]_vars => IInv'
<1> SUFFICES ASSUME IInv, [Next]_vars PROVE IInv'
  OBVIOUS
<1> USE DEF IInv, disk
<1>1. CASE WinBoot
  BY <1>1, PageSetsUp DEF WinBoot, Windows, Wrote, Whole, LostJournalIsMarked
<1>2. CASE WinWork
  BY <1>2 DEF WinWork, Windows, Whole, LostJournalIsMarked
<1>3. CASE WinCheckpoint
  BY <1>3, PageSetsUp DEF WinCheckpoint, Windows, Wrote, Whole, LostJournalIsMarked
<1>4. CASE WinShutdown
  BY <1>4, PageSetsUp DEF WinShutdown, Windows, Wrote, Whole, LostJournalIsMarked
<1>5. CASE WinHibernate
  BY <1>5 DEF WinHibernate, Windows, Whole, LostJournalIsMarked
<1>6. CASE WinResume
  BY <1>6 DEF WinResume, Windows, Whole, LostJournalIsMarked
<1>7. CASE WinCrash
  <2>1. Whole /\ pc = "off" /\ pc' = "off" /\ flags' = flags /\ pending' = pending
    BY <1>7 DEF WinCrash, Windows
  <2>2. CASE log' = log /\ win' = [win EXCEPT !.state = "off"]
    BY <2>1, <2>2 DEF Whole, LostJournalIsMarked
  <2>3. CASE log' = [log EXCEPT ![win.next * win.size] = Restart(TRUE, FALSE)] /\ win' = Wrote("off")
    <3>1. \A b \in 0..Blocks - 1 : log'[b] = log[b] \/ log'[b] = Restart(TRUE, FALSE)
      BY <2>3
    <3>2. \A b \in 0..Blocks - 1 : log'[b] # Empty
      <4>1. Restart(TRUE, FALSE) # Empty
        BY WrittenBlocks DEF Restart
      <4> QED
        BY <3>1, <2>1, <4>1 DEF Whole
    <3>3. log' = [b \in 0..Blocks - 1 |-> log'[b]]
      BY <2>3
    <3> QED
      BY <2>1, <2>3, <3>2, <3>3 DEF Whole, LostJournalIsMarked
  <2> QED
    BY <1>7, <2>2, <2>3 DEF WinCrash
<1>8. CASE Chkdsk
  BY <1>8 DEF Chkdsk, Windows, LostJournalIsMarked
<1>9. CASE \E prog \in {"ntfsfix", "ntfsresize", "other"} : Start(prog)
  BY <1>9 DEF Start, LostJournalIsMarked
<1>10. CASE FixMounts
  BY <1>10 DEF FixMounts, LostJournalIsMarked
<1>11. CASE FixMirror
  BY <1>11 DEF FixMirror, After, LostJournalIsMarked
<1>12. CASE Remount
  BY <1>12 DEF Remount, LostJournalIsMarked
<1>13. CASE OtherMounts
  BY <1>13 DEF OtherMounts, LostJournalIsMarked
<1>14. CASE SetFlags
  BY <1>14 DEF SetFlags, Required, LostJournalIsMarked
<1>15. CASE ReadThrough
  BY <1>15 DEF ReadThrough, After, LostJournalIsMarked
<1>16. CASE Fill
  <2>1. PICK n \in 1..Count : log' = Filled(n)
    BY <1>16 DEF Fill
  <2>2. Dirty \in flags' /\ win' = win /\ win.state # "running"
    BY <1>16 DEF Fill
  <2> QED
    BY <2>1, <2>2 DEF Filled, LostJournalIsMarked
<1>17. CASE Stop
  <2>1. win.state # "running" /\ win' = win /\ pc' = "off" /\ pending' = pending
    BY <1>17 DEF Stop
  <2>2. CASE UNCHANGED disk
    BY <2>1, <2>2 DEF LostJournalIsMarked
  <2>3. CASE flags' = Required(vol) /\ UNCHANGED log
    BY <2>1, <2>3 DEF Required, LostJournalIsMarked
  <2>4. CASE pc = "fill" /\ (\E n \in 1..Count : log' = Filled(n)) /\ UNCHANGED <<flags, mirr>>
    BY <2>1, <2>4 DEF Filled, LostJournalIsMarked
  <2> QED
    BY <1>17, <2>2, <2>3, <2>4 DEF Stop
<1>18. CASE End
  BY <1>18 DEF End, LostJournalIsMarked
<1>19. CASE UNCHANGED vars
  BY <1>19 DEF vars, Whole, LostJournalIsMarked
<1> QED
  BY <1>1, <1>2, <1>3, <1>4, <1>5, <1>6, <1>7, <1>8, <1>9, <1>10, <1>11, <1>12, <1>13, <1>14,
     <1>15, <1>16, <1>17, <1>18, <1>19 DEF Next

(* ntfsfix and ntfsresize: wherever they stop, a volume whose journal has  *)
(* been filled while Windows had transactions in it is marked for a check. *)
THEOREM LostIsMarked == Spec => []LostJournalIsMarked
<1>1. IInv => LostJournalIsMarked
  BY DEF IInv
<1> QED
  BY <1>1, InitHolds, NextHolds, PTL DEF Spec
-----------------------------------------------------------------------------
(***************************************************************************)
(* What is mounted.  A journal that was not filled has two restart pages.  *)
(***************************************************************************)
At(k) == IF k = 0 THEN 0 ELSE win.size
BodyBlock == [kind : {"body"}, lsn : Int]
PageBlock == [kind : RestartKinds, lsn : Int, used : BOOLEAN, clean : BOOLEAN, size : {win.size}]
Block == {Empty, Rcrd} \union BodyBlock \union PageBlock

Types ==
    /\ win \in [state : {"off", "running", "hibernated"}, size : PageSizes, long : BOOLEAN,
               lsn : Int, next : {0, 1}]
    /\ log \in [0..Blocks - 1 -> Block]

Flags == {Dirty, Nt4, Resize}
VolType ==
    /\ flags \subseteq Flags /\ mirr \in BOOLEAN
    /\ pc \in {"off", "mount", "mirror", "flag", "read", "fill", "remount", "fixed", "work"}
    /\ vol \in [prog : {"none", "ntfsfix", "ntfsresize", "other"}, mounted : BOOLEAN,
               flags : SUBSET Flags, empty : BOOLEAN, pos : 0..Blocks - 1]

SetUpAt(k) ==
    /\ log[At(k)].kind \in RestartKinds /\ log[At(k)].lsn <= win.lsn
    /\ \A b \in At(k) + 1..At(k) + win.size - 1 : log[b].kind = "body"
SetUp == Whole => SetUpAt(0) /\ SetUpAt(1)

(* While there are transactions to finish, the page written last says that *)
(* the journal is in use, and if that page may be torn then so does the    *)
(* other, which is not.                                                    *)
Unclean(k) == log[At(k)].used /\ ~log[At(k)].clean
Last == 1 - win.next
LastPage ==
    Whole /\ (pending \/ win.state # "off") =>
        /\ Unclean(Last) /\ log[At(Last)].lsn = win.lsn /\ log[At(win.next)].lsn < win.lsn
        /\ \/ OneWrite(At(Last))
           \/ win.state = "off" /\ OneWrite(At(win.next)) /\ Unclean(win.next)


(* What a program knows at each step: the volume is marked when the        *)
(* journal is filled, up to pos; a volume mounted has a mirror that is     *)
(* right; and what the program takes for empty is so.                      *)
Stages ==
    /\ pc \in {"remount", "fixed"} => Dirty \in flags
    /\ pc \in {"mount", "mirror", "flag", "read"} => vol.pos = 0 /\ (vol.empty => SeenEmpty)
    /\ pc = "fill" => \A b \in 0..vol.pos - 1 : log[b] = Empty
    /\ pc \in {"flag", "read", "fill"} /\ vol.mounted => ~mirr
    /\ pc = "remount" => SeenEmpty

Restarts == Types /\ SetUp /\ LastPage
Promises == VolType /\ Stages /\ MountsForWritingAreSafe /\ FixedVolumesMount
JInv == IInv /\ Restarts /\ Promises
-----------------------------------------------------------------------------
LEMMA Sizes ==
    ASSUME Types
    PROVE  /\ win.size \in Nat /\ win.size >= 1 /\ 4 * win.size <= Blocks /\ Blocks \in Nat
           /\ win.size \in Positions /\ 0 \in Positions
           /\ At(0) = 0 /\ At(1) = win.size
           /\ \A k \in {0, 1} : /\ k * win.size = At(k) /\ At(k) \in 0..Blocks - 1
                                /\ At(k) + win.size - 1 \in 0..Blocks - 1
           /\ win.next \in {0, 1} /\ Last \in {0, 1} /\ win.next # Last
  <1>1. /\ win.size \in Nat /\ win.size >= 1 /\ 4 * win.size <= Blocks /\ Blocks \in Nat
        /\ \E k \in 0..Blocks : win.size = 2 ^ k
    BY JournalAssumption DEF Types
  <1>2. win.size \in Positions /\ 0 \in Positions
    <2>1. win.size \in 1..Blocks - 1
      BY <1>1
    <2> QED
      BY <1>1, <2>1 DEF Positions
  <1>3. At(0) = 0 /\ At(1) = win.size
    BY DEF At
  <1>4. 0 * win.size = 0 /\ 1 * win.size = win.size
    BY <1>1
  <1>5. \A k \in {0, 1} : /\ k * win.size = At(k) /\ At(k) \in 0..Blocks - 1
                          /\ At(k) + win.size - 1 \in 0..Blocks - 1
    BY <1>1, <1>3, <1>4
  <1>6. win.next \in {0, 1} /\ Last \in {0, 1} /\ win.next # Last
    BY DEF Types, Last
  <1> QED
    BY <1>1, <1>2, <1>3, <1>5, <1>6

LEMMA BlockIs ==
    ASSUME NEW x \in Block
    PROVE  /\ x.kind = "body" => x \in BodyBlock
           /\ x.kind \in RestartKinds =>
                 /\ x \in PageBlock /\ x.lsn \in Int /\ x.size = win.size
                 /\ x.used \in BOOLEAN /\ x.clean \in BOOLEAN
           /\ x.kind \in {"body"} \union RestartKinds => x # Empty /\ x # Rcrd
           /\ x.kind = "body" => x.kind \notin RestartKinds
  <1>1. Empty.kind = "empty" /\ Rcrd.kind = "RCRD"
    BY DEF Empty, Rcrd
  <1>2. \A y \in BodyBlock : y.kind = "body"
    BY DEF BodyBlock
  <1>3. \A y \in PageBlock : /\ y.kind \in RestartKinds /\ y.lsn \in Int /\ y.size = win.size
                             /\ y.used \in BOOLEAN /\ y.clean \in BOOLEAN
    BY DEF PageBlock
  <1> QED
    BY <1>1, <1>2, <1>3 DEF Block, RestartKinds

(* A journal with transactions to finish is not found clean.               *)
LEMMA PendingIsSeen ==
    ASSUME Types, SetUp, LastPage, Whole, pending
    PROVE  ~CheckLogfile
  <1>1. /\ win.size \in Nat /\ win.size >= 1 /\ 4 * win.size <= Blocks /\ Blocks \in Nat
        /\ win.size \in Positions /\ 0 \in Positions
        /\ At(0) = 0 /\ At(1) = win.size
        /\ win.next \in {0, 1} /\ Last \in {0, 1} /\ win.next # Last
    BY Sizes
  <1>2. SetUpAt(0) /\ SetUpAt(1)
    BY DEF SetUp
  <1>3. \A p \in Positions : p \in 0..Blocks - 1 /\ log[p] \in Block
    BY <1>1 DEF Positions, Types
  <1>4. /\ log[0].kind \in RestartKinds /\ log[win.size].kind \in RestartKinds
        /\ log[0].size = win.size /\ log[win.size].size = win.size
        /\ log[0].lsn \in Int /\ log[win.size].lsn \in Int
        /\ log[0] # Empty /\ log[0] # Rcrd
    BY <1>1, <1>2, <1>3, BlockIs DEF SetUpAt
  <1>5. ~SeenEmpty
    BY <1>1, <1>4 DEF SeenEmpty
  <1>6. \A p \in Pages : p \in {0, win.size}
    <2>1. SUFFICES ASSUME NEW p \in Pages PROVE p \in {0, win.size}
      OBVIOUS
    <2>2. p \in Positions /\ log[p].kind \in RestartKinds /\ p \in {0, log[p].size}
      BY <2>1 DEF Pages, Loads, Consistent
    <2> QED
      BY <2>2, <1>3, BlockIs
  <1>7. OneWrite(0) => 0 \in Pages
    BY <1>1, <1>3, <1>4 DEF Pages, Loads, Consistent
  <1>8. OneWrite(win.size) => win.size \in Pages
    <2>1. ASSUME NEW q \in Positions, q < win.size PROVE ~StopsAt(q)
      <3>1. CASE q = 0
        <4>1. \A r \in Positions : ~(r < 0)
          BY <1>3
        <4> QED
          BY <1>4, <3>1, <4>1 DEF StopsAt
      <3>2. CASE q # 0
        <4>1. q \in 1..win.size - 1
          BY <1>1, <1>3, <2>1, <3>2
        <4>2. log[q].kind = "body"
          BY <4>1, <1>1, <1>2 DEF SetUpAt
        <4>3. log[q] # Empty /\ log[q] # Rcrd /\ log[q].kind \notin RestartKinds
          BY <4>2, <1>3, BlockIs
        <4> QED
          BY <4>3 DEF StopsAt, Loads
      <3> QED
        BY <3>1, <3>2
    <2>2. OneWrite(win.size) => Loads(win.size)
      BY <1>4 DEF Loads, Consistent
    <2> QED
      BY <1>1, <2>1, <2>2 DEF Pages
  <1>9. \A p \in Pages : Newest(p) => ~Clean(log[p])
    <2>1. SUFFICES ASSUME NEW p \in Pages, Newest(p) PROVE log[p].used /\ ~log[p].clean
      BY DEF Clean
    <2>2. /\ Unclean(Last) /\ log[At(Last)].lsn = win.lsn /\ log[At(win.next)].lsn < win.lsn
          /\ \/ OneWrite(At(Last))
             \/ win.state = "off" /\ OneWrite(At(win.next)) /\ Unclean(win.next)
      BY DEF LastPage
    <2>3. p = At(Last) \/ p = At(win.next)
      BY <1>1, <1>6, <2>1
    <2>4. CASE p = At(Last)
      BY <2>2, <2>4 DEF Unclean
    <2>5. CASE p = At(win.next) /\ OneWrite(At(Last))
      <3>1. At(Last) \in Pages
        BY <1>1, <1>7, <1>8, <2>5
      <3>2. log[At(Last)].lsn < log[p].lsn \/ log[At(Last)].lsn = log[p].lsn
        BY <3>1, <2>1 DEF Newest
      <3>3. At(Last) \in {0, win.size} /\ At(win.next) \in {0, win.size}
        BY <1>1
      <3>4. log[At(Last)].lsn \in Int /\ log[At(win.next)].lsn \in Int
        BY <3>3, <1>4
      <3> QED
        BY <3>2, <3>4, <2>2, <2>5
    <2>6. CASE p = At(win.next) /\ Unclean(win.next)
      BY <2>6 DEF Unclean
    <2> QED
      BY <2>2, <2>3, <2>4, <2>5, <2>6
  <1> QED
    BY <1>5, <1>9 DEF CheckLogfile

(* What is in the journal when Windows has written a restart page.         *)
PageIn(l, k, head) ==
    /\ l[At(k)] = head
    /\ \A b \in At(k) + 1..At(k) + win.size - 1 : l[b] = Body(head.lsn)

LEMMA HeadIs ==
    ASSUME Types, NEW used \in BOOLEAN, NEW clean \in BOOLEAN, NEW head, head = Restart(used, clean)
    PROVE  LET older == [head EXCEPT !.lsn = @ - 1] IN
           /\ head.lsn = win.lsn + 1 /\ head.kind = "RSTR" /\ head.size = win.size
           /\ head.used = used /\ head.clean = clean
           /\ older.lsn = win.lsn /\ older.kind = "RSTR" /\ older.size = win.size
           /\ older.used = used /\ older.clean = clean
           /\ head \in Block /\ older \in Block
           /\ \A lsn \in Int : Body(lsn) \in Block /\ Body(lsn).kind = "body"
           /\ Rcrd \in Block /\ Empty \in Block
  <1>1. win.lsn \in Int
    BY DEF Types
  <1> DEFINE older == [head EXCEPT !.lsn = @ - 1]
  <1>2. /\ head.lsn = win.lsn + 1 /\ head.kind = "RSTR" /\ head.size = win.size
        /\ head.used = used /\ head.clean = clean
        /\ older.lsn = win.lsn /\ older.kind = "RSTR" /\ older.size = win.size
        /\ older.used = used /\ older.clean = clean
    BY <1>1 DEF Restart, RestartPage
  <1>3. head \in PageBlock /\ older \in PageBlock
    BY <1>1 DEF Restart, RestartPage, PageBlock, RestartKinds
  <1>4. \A lsn \in Int : Body(lsn) \in BodyBlock /\ Body(lsn).kind = "body"
    BY DEF Body, BodyBlock
  <1> QED
    BY <1>2, <1>3, <1>4 DEF Block

LEMMA PageWritten ==
    ASSUME Types, NEW used \in BOOLEAN, NEW clean \in BOOLEAN, NEW head, head = Restart(used, clean),
           NEW w, w = WithPage(head)
    PROVE  /\ w \in [0..Blocks - 1 -> Block] /\ PageIn(w, win.next, head)
           /\ Whole => \A b \in 0..Blocks - 1 :
                          b \notin At(win.next)..At(win.next) + win.size - 1 => w[b] = log[b]
           /\ ~Whole => PageIn(w, Last, [head EXCEPT !.lsn = @ - 1])
  <1> DEFINE older == [head EXCEPT !.lsn = @ - 1]
             start == At(win.next)
             other == At(Last)
             last == win.size - 1
             new == [b \in 0..Blocks - 1 |->
                       IF b = start THEN head
                       ELSE IF b \in start..start + last THEN Body(head.lsn) ELSE log[b]]
             fresh == [b \in 0..Blocks - 1 |->
                         IF b \in start..start + last THEN new[b]
                         ELSE IF b = other THEN older
                         ELSE IF b \in other..other + last THEN Body(head.lsn - 1)
                         ELSE Records[b]]
  <1>1. /\ win.size \in Nat /\ win.size >= 1 /\ 4 * win.size <= Blocks /\ Blocks \in Nat
        /\ win.next * win.size = start /\ (1 - win.next) * win.size = other
        /\ start \in {0, win.size} /\ other \in {0, win.size} /\ start # other
    BY Sizes DEF Last
  <1>2. new = Page(win.next, head)
    BY <1>1 DEF Page
  <1>3. w = IF Whole THEN new ELSE fresh
    BY <1>1, <1>2 DEF WithPage, Whole
  <1>4. /\ head.lsn = win.lsn + 1 /\ older.lsn = win.lsn /\ win.lsn \in Int
        /\ head \in Block /\ older \in Block /\ Rcrd \in Block
        /\ \A lsn \in Int : Body(lsn) \in Block
    BY HeadIs DEF Types
  <1>5. Body(head.lsn) \in Block /\ Body(head.lsn - 1) \in Block /\ head.lsn - 1 = older.lsn
    BY <1>4
  <1>6. \A b \in 0..Blocks - 1 : new[b] \in Block /\ Records[b] \in Block
    <2>1. \A b \in 0..Blocks - 1 : Records[b] = Rcrd \/ Records[b] = Body(0)
      BY DEF Records
    <2>2. \A b \in 0..Blocks - 1 : log[b] \in Block
      BY DEF Types
    <2> QED
      BY <2>1, <2>2, <1>4, <1>5
  <1>7. w \in [0..Blocks - 1 -> Block]
    <2>1. fresh \in [0..Blocks - 1 -> Block]
      BY <1>4, <1>5, <1>6
    <2>2. new \in [0..Blocks - 1 -> Block]
      BY <1>6
    <2> QED
      BY <1>3, <2>1, <2>2
  <1>8. PageIn(new, win.next, head) /\ PageIn(fresh, win.next, head)
    BY <1>1 DEF PageIn
  <1>9. PageIn(fresh, Last, older)
    BY <1>1, <1>5 DEF PageIn
  <1>10. \A b \in 0..Blocks - 1 : b \notin start..start + last => new[b] = log[b]
    BY <1>1
  <1> HIDE DEF new, fresh
  <1> QED
    BY <1>3, <1>7, <1>8, <1>9, <1>10

(* The page written is the more recent one, and the other is as it was, or *)
(* was set up with it.                                                     *)
LEMMA PageKeeps ==
    ASSUME Types, SetUp, NEW used \in BOOLEAN, NEW clean \in BOOLEAN,
           log' = WithPage(Restart(used, clean)),
           NEW state \in {"off", "running", "hibernated"}, win' = Wrote(state),
           (pending' \/ state # "off") => used /\ ~clean
    PROVE  Types' /\ SetUp' /\ LastPage'
  <1>1. PICK head : head = Restart(used, clean)
    OBVIOUS
  <1>2. PICK older : older = [head EXCEPT !.lsn = @ - 1]
    OBVIOUS
  <1>3. /\ log' \in [0..Blocks - 1 -> Block] /\ PageIn(log', win.next, head)
        /\ Whole => \A b \in 0..Blocks - 1 :
                       b \notin At(win.next)..At(win.next) + win.size - 1 => log'[b] = log[b]
        /\ ~Whole => PageIn(log', Last, older)
    BY <1>1, <1>2, PageWritten
  <1>4. /\ win'.state = state /\ win'.size = win.size /\ win'.long = win.long
        /\ win'.lsn = win.lsn + 1 /\ win'.next = Last /\ win.lsn \in Int
        /\ win' \in [state : {"off", "running", "hibernated"}, size : PageSizes, long : BOOLEAN,
                     lsn : Int, next : {0, 1}]
    <2>1. /\ win \in [state : {"off", "running", "hibernated"}, size : PageSizes, long : BOOLEAN,
                      lsn : Int, next : {0, 1}]
          /\ 1 - win.next \in {0, 1}
      BY DEF Types
    <2>2. win' = [win EXCEPT !.state = state, !.lsn = win.lsn + 1, !.next = 1 - win.next]
      BY DEF Wrote
    <2>3. win.size \in PageSizes /\ win.long \in BOOLEAN /\ win.lsn \in Int
      BY <2>1
    <2>4. win.lsn + 1 \in Int
      BY <2>3
    <2>5. win' = [state |-> state, size |-> win.size, long |-> win.long, lsn |-> win.lsn + 1,
                  next |-> 1 - win.next]
      BY <2>1, <2>2
    <2>6. win' \in [state : {"off", "running", "hibernated"}, size : PageSizes, long : BOOLEAN,
                    lsn : Int, next : {0, 1}]
      BY <2>1, <2>3, <2>4, <2>5
    <2> QED
      BY <2>3, <2>5, <2>6 DEF Last
  <1>0. PICK n \in {0, 1}, l \in {0, 1} : n = win.next /\ l = Last
    BY Sizes
  <1>5. /\ win.size \in Nat /\ win.size >= 1 /\ 4 * win.size <= Blocks /\ Blocks \in Nat
        /\ At(0) = 0 /\ At(1) = win.size
        /\ n # l
    BY <1>0, Sizes
  <1>6. /\ Block' = Block /\ Last' = n /\ win'.next = l
        /\ \A k : At(k)' = At(k)
    BY <1>0, <1>4, <1>5 DEF Block, PageBlock, BodyBlock, Last, At
  <1>7. Types'
    BY <1>3, <1>4, <1>6 DEF Types
  <1>8. /\ head.lsn = win.lsn + 1 /\ head.kind = "RSTR" /\ head.size = win.size
        /\ head.used = used /\ head.clean = clean
        /\ older.lsn = win.lsn /\ older.kind = "RSTR" /\ older.size = win.size
        /\ older.used = used /\ older.clean = clean
        /\ Body(head.lsn).kind = "body" /\ Body(older.lsn).kind = "body"
    BY <1>1, <1>2, <1>4, HeadIs
  <1>9. SetUpAt(n)'
    BY <1>0, <1>3, <1>4, <1>6, <1>8 DEF SetUpAt, PageIn, RestartKinds
  <1>10. SetUpAt(l)' /\ log'[At(l)].lsn <= win.lsn
    <2>1. CASE Whole
      <3>1. SetUpAt(l)
        BY <2>1, <1>5 DEF SetUp
      <3>2. \A b \in At(l)..At(l) + win.size - 1 : log'[b] = log[b]
        <4>1. \A b \in At(l)..At(l) + win.size - 1 :
                 b \in 0..Blocks - 1 /\ b \notin At(n)..At(n) + win.size - 1
          BY <1>5
        <4> QED
          BY <4>1, <2>1, <1>0, <1>3
      <3>3. /\ At(l) \in At(l)..At(l) + win.size - 1
            /\ \A b \in At(l) + 1..At(l) + win.size - 1 :
                  b \in At(l)..At(l) + win.size - 1
        BY <1>5
      <3>4. log'[At(l)] = log[At(l)] /\ log[At(l)].lsn \in Int
        <4>1. At(l) \in 0..Blocks - 1
          BY <1>5
        <4>2. log[At(l)] \in Block
          BY <4>1 DEF Types
        <4> QED
          BY <4>2, <3>1, <3>2, <3>3, BlockIs DEF SetUpAt
      <3>5. log'[At(l)].kind \in RestartKinds /\ log'[At(l)].lsn <= win.lsn
        BY <3>1, <3>4 DEF SetUpAt
      <3>6. \A b \in At(l) + 1..At(l) + win.size - 1 : log'[b].kind = "body"
        BY <3>1, <3>2, <3>3 DEF SetUpAt
      <3>7. log'[At(l)].lsn <= win'.lsn
        BY <3>4, <3>5, <1>4
      <3> QED
        BY <3>5, <3>6, <3>7, <1>4, <1>6 DEF SetUpAt
    <2>2. CASE ~Whole
      BY <2>2, <1>0, <1>3, <1>4, <1>6, <1>8 DEF SetUpAt, PageIn, RestartKinds
    <2> QED
      BY <2>1, <2>2
  <1>11. SetUp'
    BY <1>5, <1>9, <1>10 DEF SetUp
  <1>12. LastPage'
    <2>1. SUFFICES ASSUME pending' \/ state # "off" PROVE LastPage'
      BY <1>4 DEF LastPage
    <2>2. log'[At(n)] = head /\ used /\ ~clean
      BY <2>1, <1>0, <1>3 DEF PageIn
    <2>3. Unclean(n)'
      BY <2>2, <1>6, <1>8 DEF Unclean
    <2>4. OneWrite(At(n))'
      BY <2>2, <1>0, <1>3, <1>6, <1>8 DEF OneWrite, PageIn
    <2>5. log'[At(n)].lsn = win'.lsn /\ log'[At(l)].lsn < win'.lsn
      <3>1. log'[At(l)].lsn \in Int
        <4>1. At(l) \in 0..Blocks - 1 /\ log'[At(l)].kind \in RestartKinds
          BY <1>5, <1>6, <1>10 DEF SetUpAt
        <4> QED
          BY <4>1, <1>3, BlockIs
      <3>2. log'[At(l)].lsn <= win.lsn /\ win'.lsn = win.lsn + 1 /\ win.lsn \in Int
        BY <1>4, <1>10
      <3>3. log'[At(l)].lsn < win'.lsn
        BY <3>1, <3>2
      <3>4. log'[At(n)].lsn = win'.lsn
        BY <2>2, <1>4, <1>8
      <3> QED
        BY <3>3, <3>4
    <2> QED
      BY <2>3, <2>4, <2>5, <1>4, <1>6 DEF LastPage
  <1> QED
    BY <1>7, <1>11, <1>12

(* No page is written: Windows does some work, sleeps, wakes up or stops.  *)
LEMMA StateKeeps ==
    ASSUME Restarts, log' = log,
           NEW state \in {"off", "running", "hibernated"}, win' = [win EXCEPT !.state = state],
           win.state = "off" => state = "off", pending' => pending \/ win.state # "off"
    PROVE  Restarts'
  <1>1. win \in [state : {"off", "running", "hibernated"}, size : PageSizes, long : BOOLEAN,
                 lsn : Int, next : {0, 1}]
    BY DEF Restarts, Types
  <1>2. /\ win'.size = win.size /\ win'.lsn = win.lsn /\ win'.next = win.next
        /\ win'.state = state
        /\ win' \in [state : {"off", "running", "hibernated"}, size : PageSizes, long : BOOLEAN,
                     lsn : Int, next : {0, 1}]
    BY <1>1
  <1>3. Block' = Block /\ Last' = Last /\ \A k : At(k)' = At(k)
    BY <1>2 DEF Block, PageBlock, BodyBlock, Last, At
  <1>4. Types'
    BY <1>2, <1>3 DEF Restarts, Types
  <1>5. SetUp'
    BY <1>2, <1>3 DEF Restarts, SetUp, SetUpAt, Whole
  <1>6. LastPage'
    <2>1. Whole' = Whole
      BY DEF Whole
    <2>2. SUFFICES ASSUME Whole, pending' \/ state # "off" PROVE LastPage'
      BY <1>2, <2>1 DEF LastPage
    <2>3. /\ Unclean(Last) /\ log[At(Last)].lsn = win.lsn /\ log[At(win.next)].lsn < win.lsn
          /\ \/ OneWrite(At(Last))
             \/ win.state = "off" /\ OneWrite(At(win.next)) /\ Unclean(win.next)
      BY <2>2 DEF Restarts, LastPage
    <2>4. PICK l, n : l = Last /\ n = win.next
      OBVIOUS
    <2>5. Unclean(l)' = Unclean(l) /\ Unclean(n)' = Unclean(n)
      BY <1>3 DEF Unclean
    <2>6. OneWrite(At(l))' = OneWrite(At(l)) /\ OneWrite(At(n))' = OneWrite(At(n))
      BY <1>3 DEF OneWrite
    <2>7. log'[At(l)].lsn = win'.lsn /\ log'[At(n)].lsn < win'.lsn
      BY <1>2, <2>3, <2>4
    <2>8. Last' = l /\ win'.next = n
      BY <1>2, <1>3, <2>4
    <2> QED
      BY <1>2, <1>3, <2>3, <2>4, <2>5, <2>6, <2>7, <2>8 DEF LastPage
  <1> QED
    BY <1>4, <1>5, <1>6 DEF Restarts

(* A torn page: the other is of one write and says that the journal is in  *)
(* use.                                                                    *)
Torn ==
    /\ win.state = "running" /\ win' = Wrote("off") /\ pending' = pending
    /\ log' = [log EXCEPT ![win.next * win.size] = Restart(TRUE, FALSE)]

LEMMA TornKeeps ==
    ASSUME Restarts, Whole, Torn
    PROVE  Restarts'
  <1>0. Types /\ SetUp /\ LastPage
    BY DEF Restarts
  <1>1. PICK head : head = Restart(TRUE, FALSE)
    OBVIOUS
  <1>2. PICK n \in {0, 1}, l \in {0, 1} : n = win.next /\ l = Last
    BY <1>0, Sizes
  <1>3. /\ win.size \in Nat /\ win.size >= 1 /\ 4 * win.size <= Blocks /\ Blocks \in Nat
        /\ At(0) = 0 /\ At(1) = win.size /\ n # l /\ win.next * win.size = At(n)
    BY <1>0, <1>2, Sizes
  <1>4. win \in [state : {"off", "running", "hibernated"}, size : PageSizes, long : BOOLEAN,
                 lsn : Int, next : {0, 1}]
    BY <1>0 DEF Types
  <1>5. win.size \in PageSizes /\ win.long \in BOOLEAN /\ win.lsn \in Int /\ 1 - win.next \in {0, 1}
    BY <1>4
  <1>6. win' = [state |-> "off", size |-> win.size, long |-> win.long, lsn |-> win.lsn + 1,
                next |-> 1 - win.next]
    BY <1>4 DEF Torn, Wrote
  <1>7. win' \in [state : {"off", "running", "hibernated"}, size : PageSizes, long : BOOLEAN,
                  lsn : Int, next : {0, 1}]
    BY <1>5, <1>6
  <1>8. win'.size = win.size /\ win'.lsn = win.lsn + 1 /\ win'.next = l /\ win'.state = "off"
    BY <1>2, <1>6 DEF Last
  <1>9. Block' = Block /\ Last' = n /\ \A k : At(k)' = At(k)
    BY <1>2, <1>3, <1>8 DEF Block, PageBlock, BodyBlock, Last, At
  <1>10. /\ head.lsn = win.lsn + 1 /\ head.kind = "RSTR" /\ head.used /\ ~head.clean
         /\ head \in Block
    BY <1>0, <1>1, HeadIs
  <1>11. Types'
    BY <1>0, <1>1, <1>3, <1>7, <1>9, <1>10 DEF Torn, Types
  <1>12. /\ log'[At(n)] = head
         /\ \A b \in 0..Blocks - 1 : b # At(n) => log'[b] = log[b]
    <2>1. log' = [log EXCEPT ![At(n)] = head]
      BY <1>1, <1>3 DEF Torn
    <2>2. At(n) \in 0..Blocks - 1
      BY <1>2, <1>3
    <2>3. log \in [0..Blocks - 1 -> Block]
      BY <1>0 DEF Types
    <2> QED
      BY <2>1, <2>2, <2>3
  <1>13. SetUpAt(n) /\ SetUpAt(l)
    BY <1>0, <1>2 DEF SetUp
  <1>14. \A k \in {0, 1} : /\ At(k) \in 0..Blocks - 1
                           /\ \A b \in At(k) + 1..At(k) + win.size - 1 :
                                 b \in 0..Blocks - 1 /\ b # At(n)
    BY <1>2, <1>3
  <1>15. log'[At(l)] = log[At(l)] /\ At(l) # At(n)
    <2>1. At(l) # At(n)
      BY <1>2, <1>3
    <2>2. At(l) \in 0..Blocks - 1
      BY <1>2, <1>3
    <2> QED
      BY <2>1, <2>2, <1>12
  <1>16. \A k \in {0, 1} : \A b \in At(k) + 1..At(k) + win.size - 1 : log'[b] = log[b]
    BY <1>12, <1>14
  <1>17. log[At(l)] \in Block /\ log[At(l)].kind \in RestartKinds
    BY <1>0, <1>13, <1>14 DEF SetUpAt, Types
  <1>18. log[At(l)].lsn \in Int /\ log[At(l)].size = win.size
    BY <1>17, BlockIs
  <1>19. /\ Unclean(l) /\ log[At(l)].lsn = win.lsn /\ OneWrite(At(l))
    <2>1. Unclean(Last) /\ log[At(Last)].lsn = win.lsn /\ OneWrite(At(Last))
      BY <1>0 DEF Torn, LastPage
    <2> QED
      BY <1>2, <2>1
  <1>20. SetUp'
    <2>1. ASSUME NEW k \in {0, 1} PROVE \A b \in At(k) + 1..At(k) + win.size - 1 : log'[b].kind = "body"
      <3>1. SetUpAt(k)
        BY <1>2, <1>3, <1>13
      <3> QED
        BY <3>1, <1>16 DEF SetUpAt
    <2>2. log'[At(l)].lsn <= win'.lsn
      <3>1. log'[At(l)].lsn = win.lsn /\ win'.lsn = win.lsn + 1
        BY <1>5, <1>8, <1>15, <1>19
      <3> QED
        BY <1>5, <3>1
    <2>3. log'[At(n)].lsn <= win'.lsn
      <3>1. log'[At(n)].lsn = win.lsn + 1 /\ win'.lsn = win.lsn + 1
        BY <1>5, <1>8, <1>10, <1>12
      <3> QED
        BY <1>5, <3>1
    <2>4. log'[At(n)].kind \in RestartKinds /\ log'[At(l)].kind \in RestartKinds
      BY <1>10, <1>12, <1>15, <1>17 DEF RestartKinds
    <2>5. SetUpAt(n)' /\ SetUpAt(l)'
      BY <2>1, <2>2, <2>3, <2>4, <1>2, <1>8, <1>9 DEF SetUpAt
    <2> QED
      BY <2>5, <1>2, <1>3 DEF SetUp
  <1>21. LastPage'
    <2>1. Unclean(n)'
      BY <1>9, <1>10, <1>12 DEF Unclean
    <2>2. Unclean(l)'
      BY <1>9, <1>15, <1>19 DEF Unclean
    <2>3. OneWrite(At(l))'
      BY <1>9, <1>15, <1>16, <1>18, <1>19 DEF OneWrite
    <2>4. log'[At(n)].lsn = win'.lsn
      BY <1>8, <1>10, <1>12
    <2>5. log'[At(l)].lsn < win'.lsn
      <3>1. log'[At(l)].lsn = win.lsn /\ win'.lsn = win.lsn + 1
        BY <1>5, <1>8, <1>15, <1>19
      <3> QED
        BY <1>5, <3>1
    <2> QED
      BY <2>1, <2>2, <2>3, <2>4, <2>5, <1>8, <1>9 DEF LastPage
  <1> QED
    BY <1>11, <1>20, <1>21 DEF Restarts

(* chkdsk changes restart pages into its own and leaves nothing pending.   *)
LEMMA ChkdskKeeps == Restarts /\ Chkdsk => Restarts'
  <1> SUFFICES ASSUME Restarts, Chkdsk PROVE Restarts'
    OBVIOUS
  <1>0. Types /\ SetUp
    BY DEF Restarts
  <1>1. win' = win /\ ~pending' /\ win.state = "off" /\ Block' = Block /\ \A k : At(k)' = At(k)
    BY DEF Chkdsk, Windows, Block, PageBlock, BodyBlock, At
  <1>2. \A b \in 0..Blocks - 1 :
           log'[b] = IF log[b].kind = "RSTR"
                     THEN [log[b] EXCEPT !.kind = "CHKD", !.used = FALSE] ELSE log[b]
    BY DEF Chkdsk
  <1>3. ASSUME NEW x \in Block, x.kind = "RSTR", NEW y, y = [x EXCEPT !.kind = "CHKD", !.used = FALSE]
        PROVE  y \in Block /\ y.kind = "CHKD" /\ y.lsn = x.lsn
    <2>1. x \in PageBlock
      BY <1>3, BlockIs DEF RestartKinds
    <2>2. y \in PageBlock /\ y.kind = "CHKD" /\ y.lsn = x.lsn
      BY <2>1, <1>3 DEF PageBlock, RestartKinds
    <2> QED
      BY <2>2 DEF Block
  <1>4. \A b \in 0..Blocks - 1 : log[b] \in Block
    BY <1>0 DEF Types
  <1>5. \A b \in 0..Blocks - 1 :
           /\ log'[b] \in Block
           /\ log[b].kind # "RSTR" => log'[b] = log[b]
           /\ log[b].kind = "RSTR" => log'[b].kind = "CHKD"
           /\ log[b].kind = "RSTR" => log'[b].lsn = log[b].lsn
    BY <1>2, <1>3, <1>4
  <1>6. Types'
    <2>1. log' = [b \in 0..Blocks - 1 |-> log'[b]]
      BY DEF Chkdsk
    <2>2. \A b \in 0..Blocks - 1 : log'[b] \in Block
      BY <1>5
    <2>3. log' \in [0..Blocks - 1 -> Block]
      BY <2>1, <2>2
    <2> QED
      BY <2>3, <1>0, <1>1 DEF Types
  <1>7. SetUp'
    <2>1. Whole' => Whole
      <3>1. Empty.kind # "RSTR"
        BY DEF Empty
      <3>2. \A b \in 0..Blocks - 1 : log[b] = Empty => log'[b] = Empty
        BY <3>1, <1>5
      <3> QED
        BY <3>2 DEF Whole
    <2>2. SUFFICES ASSUME SetUpAt(0), SetUpAt(1) PROVE SetUpAt(0)' /\ SetUpAt(1)'
      BY <2>1, <1>0 DEF SetUp
    <2>3. \A k \in {0, 1} : /\ At(k) \in 0..Blocks - 1
                            /\ \A b \in At(k) + 1..At(k) + win.size - 1 : b \in 0..Blocks - 1
      BY <1>0, Sizes
    <2>4. ASSUME NEW k \in {0, 1}, SetUpAt(k) PROVE SetUpAt(k)'
      <3>1. log'[At(k)].kind \in RestartKinds /\ log'[At(k)].lsn <= win.lsn
        BY <2>3, <2>4, <1>5 DEF SetUpAt, RestartKinds
      <3>2. \A b \in At(k) + 1..At(k) + win.size - 1 : log'[b].kind = "body"
        BY <2>3, <2>4, <1>5 DEF SetUpAt
      <3> QED
        BY <3>1, <3>2, <1>1 DEF SetUpAt
    <2> QED
      BY <2>2, <2>4
  <1> QED
    BY <1>1, <1>6, <1>7 DEF Restarts, LastPage

(* What ntfs_empty_logfile has filled.                                     *)
LEMMA FilledIs ==
    ASSUME VolType, NEW n \in 1..Count
    PROVE  /\ n \in Nat /\ n >= 1 /\ vol.pos \in Nat /\ vol.pos + n <= Blocks
           /\ Filled(n)[vol.pos] = Empty
           /\ \A b \in 0..Blocks - 1 : Filled(n)[b] = Empty \/ Filled(n)[b] = log[b]
           /\ \A b \in 0..Blocks - 1 : b \in vol.pos..vol.pos + n - 1 => Filled(n)[b] = Empty
  <1>1. vol.pos \in 0..Blocks - 1 /\ Blocks \in Nat /\ Buf \in Nat \ {0}
    BY JournalAssumption DEF VolType
  <1>2. PICK left : left = Blocks - vol.pos
    OBVIOUS
  <1>3. left \in Nat /\ left >= 1
    BY <1>1, <1>2
  <1>4. \E x \in {Buf, left} : \A y \in {Buf, left} : x <= y
    <2>1. CASE Buf <= left
      BY <2>1, <1>1
    <2>2. CASE ~(Buf <= left)
      BY <2>2, <1>1, <1>3
    <2> QED
      BY <2>1, <2>2
  <1>5. Count \in {Buf, left} /\ Count <= left
    BY <1>2, <1>4 DEF Count, Min
  <1>6. Count \in Nat /\ n \in Nat /\ n >= 1 /\ n <= left
    BY <1>1, <1>3, <1>5
  <1> QED
    BY <1>1, <1>2, <1>6 DEF Filled

LEMMA FillKeeps ==
    ASSUME Restarts, VolType, NEW n \in 1..Count, log' = Filled(n), win' = win
    PROVE  Restarts'
  <1>1. Block' = Block
    BY DEF Block, PageBlock, BodyBlock
  <1>2. \A b \in 0..Blocks - 1 : log'[b] = Empty \/ log'[b] = log[b]
    BY FilledIs
  <1>3. log' = [b \in 0..Blocks - 1 |-> log'[b]]
    BY DEF Filled
  <1>4. \A b \in 0..Blocks - 1 : log'[b] \in Block
    BY <1>2 DEF Restarts, Types, Block
  <1>5. log' \in [0..Blocks - 1 -> Block]
    BY <1>3, <1>4
  <1>6. ~Whole'
    <2>1. vol.pos \in 0..Blocks - 1 /\ log'[vol.pos] = Empty
      BY FilledIs DEF VolType
    <2> QED
      BY <2>1 DEF Whole
  <1> QED
    BY <1>1, <1>5, <1>6 DEF Restarts, Types, SetUp, LastPage

(* No action of Windows or of a program spoils what the pages say.         *)
LEMMA LogKeeps ==
    ASSUME Restarts, log' = log, win' = win, pending' => pending \/ win.state # "off"
    PROVE  Restarts'
  <1>1. /\ win.state \in {"off", "running", "hibernated"}
        /\ win = [win EXCEPT !.state = win.state]
    BY DEF Restarts, Types
  <1>2. PICK state \in {"off", "running", "hibernated"} : state = win.state
    BY <1>1
  <1>3. win' = [win EXCEPT !.state = state]
    BY <1>1, <1>2
  <1> QED
    BY <1>2, <1>3, StateKeeps

LEMMA WindowsKeeps ==
    ASSUME IInv, Restarts,
           \/ WinBoot \/ WinWork \/ WinCheckpoint \/ WinShutdown \/ WinHibernate \/ WinResume
           \/ WinCrash \/ Chkdsk
    PROVE  Restarts'
  <1>0. Types /\ SetUp
    BY DEF Restarts
  <1>1. CASE WinBoot \/ WinCheckpoint
    <2>1. log' = WithPage(Restart(TRUE, FALSE)) /\ win' = Wrote("running")
      BY <1>1 DEF WinBoot, WinCheckpoint
    <2>2. Types' /\ SetUp' /\ LastPage'
      BY <1>0, <2>1, PageKeeps
    <2> QED
      BY <2>2 DEF Restarts
  <1>2. CASE WinWork
    <2>1. log' = log /\ win' = win /\ win.state = "running"
      BY <1>2 DEF WinWork, disk
    <2> QED
      BY <2>1, LogKeeps
  <1>3. CASE WinShutdown
    <2>1. PICK used \in BOOLEAN : log' = WithPage(Restart(used, used))
      BY <1>3 DEF WinShutdown
    <2>2. win' = Wrote("off") /\ ~pending'
      BY <1>3 DEF WinShutdown
    <2>3. Types' /\ SetUp' /\ LastPage'
      BY <1>0, <2>1, <2>2, PageKeeps
    <2> QED
      BY <2>3 DEF Restarts
  <1>4. CASE WinHibernate \/ WinResume
    <2>1. PICK state \in {"hibernated", "running"} :
             log' = log /\ win' = [win EXCEPT !.state = state] /\ win.state # "off"
      BY <1>4 DEF WinHibernate, WinResume, disk
    <2> QED
      BY <2>1, StateKeeps
  <1>5. CASE WinCrash
    <2>1. Whole /\ win.state = "running" /\ pending' = pending
      BY <1>5 DEF WinCrash, IInv
    <2>2. CASE log' = log /\ win' = [win EXCEPT !.state = "off"]
      BY <2>1, <2>2, StateKeeps
    <2>3. CASE /\ log' = [log EXCEPT ![win.next * win.size] = Restart(TRUE, FALSE)]
               /\ win' = Wrote("off")
      BY <2>1, <2>3, TornKeeps DEF Torn
    <2> QED
      BY <1>5, <2>2, <2>3 DEF WinCrash
  <1>6. CASE Chkdsk
    BY <1>6, ChkdskKeeps
  <1> QED
    BY <1>1, <1>2, <1>3, <1>4, <1>5, <1>6

LEMMA ProgramsKeep ==
    ASSUME Restarts, VolType,
           \/ \E prog \in {"ntfsfix", "ntfsresize", "other"} : Start(prog)
           \/ FixMounts \/ FixMirror \/ Remount \/ OtherMounts \/ SetFlags \/ ReadThrough
           \/ Fill \/ Stop \/ End
    PROVE  Restarts'
  <1>1. win' = win /\ pending' = pending
    BY DEF Start, FixMounts, FixMirror, Remount, OtherMounts, SetFlags, ReadThrough, Fill, Stop, End
  <1>2. log' = log \/ \E n \in 1..Count : log' = Filled(n)
    BY DEF Start, FixMounts, FixMirror, Remount, OtherMounts, SetFlags, ReadThrough, Fill, Stop,
           End, disk
  <1>3. CASE log' = log
    BY <1>1, <1>3, LogKeeps
  <1>4. CASE \E n \in 1..Count : log' = Filled(n)
    BY <1>1, <1>4, FillKeeps
  <1> QED
    BY <1>2, <1>3, <1>4
-----------------------------------------------------------------------------
(* With nothing running nothing is promised.                               *)
LEMMA IdlePromises ==
    ASSUME pc = "off", VolType
    PROVE  Promises
  BY DEF Promises, VolType, Stages, MountsForWritingAreSafe, Writing, FixedVolumesMount

(* What can be mounted for writing has no transactions to finish, or is    *)
(* marked.                                                                 *)
LEMMA MountableIsSafe ==
    ASSUME IInv, Restarts, Mountable, pc # "off"
    PROVE  ~mirr /\ win.state = "off" /\ (pending => Dirty \in flags)
  <1>1. win.state = "off"
    <2>1. win.state \in {"off", "running", "hibernated"}
      BY DEF Restarts, Types
    <2> QED
      BY <2>1 DEF IInv, Mountable
  <1>2. ASSUME pending PROVE Dirty \in flags
    <2>1. CASE Whole
      BY <1>2, <2>1, PendingIsSeen DEF Restarts, Mountable
    <2>2. CASE ~Whole
      BY <1>2, <2>2 DEF Whole, IInv, LostJournalIsMarked
    <2> QED
      BY <2>1, <2>2
  <1> QED
    BY <1>1, <1>2 DEF Mountable

LEMMA VolKeeps ==
    ASSUME Types, VolType, [Next]_vars
    PROVE  VolType'
  <1> DEFINE Volumes == [prog : {"none", "ntfsfix", "ntfsresize", "other"}, mounted : BOOLEAN,
                         flags : SUBSET Flags, empty : BOOLEAN, pos : 0..Blocks - 1]
             Steps == {"off", "mount", "mirror", "flag", "read", "fill", "remount", "fixed", "work"}
  <1>1. 0 \in 0..Blocks - 1 /\ Flags = {Dirty, Nt4, Resize}
    BY JournalAssumption DEF Flags
  <1>2. NoVol \in Volumes
    BY <1>1 DEF NoVol
  <1>3. SeenEmpty \in BOOLEAN /\ Mounted \in Volumes
    BY DEF VolType, Mounted, SeenEmpty
  <1>4. Required(vol) \subseteq Flags
    BY <1>1 DEF VolType, Required
  <1>5. \A step \in {"mirror", "flag", "fill"} : After(step) \in Steps
    BY DEF After
  <1>6. CASE \/ WinBoot \/ WinWork \/ WinCheckpoint \/ WinShutdown \/ WinHibernate \/ WinResume
             \/ WinCrash \/ Chkdsk \/ UNCHANGED vars
    <2>1. pc' = pc /\ vol' = vol
      BY <1>6 DEF WinBoot, WinWork, WinCheckpoint, WinShutdown, WinHibernate, WinResume, WinCrash,
                  Chkdsk, Windows, vars
    <2>2. flags' \in {flags, flags \ {Dirty, Nt4}} /\ mirr' \in {mirr, FALSE}
      BY <1>6 DEF WinBoot, WinWork, WinCheckpoint, WinShutdown, WinHibernate, WinResume, WinCrash,
                  Chkdsk, disk, vars
    <2> QED
      BY <2>1, <2>2 DEF VolType
  <1>7. CASE \E prog \in {"ntfsfix", "ntfsresize", "other"} : Start(prog)
    <2>1. PICK prog \in {"ntfsfix", "ntfsresize", "other"} :
             vol' = [NoVol EXCEPT !.prog = prog] /\ pc' = "mount" /\ flags' = flags /\ mirr' = mirr
      BY <1>7 DEF Start, disk
    <2>2. vol' \in Volumes
      BY <1>2, <2>1
    <2> QED
      BY <2>1, <2>2 DEF VolType
  <1>8. CASE FixMounts \/ OtherMounts \/ Remount \/ End
    <2>1. vol' \in {vol, NoVol, Mounted} /\ pc' \in Steps /\ flags' = flags /\ mirr' = mirr
      BY <1>8 DEF FixMounts, OtherMounts, Remount, End, disk
    <2> QED
      BY <2>1, <1>2, <1>3 DEF VolType
  <1>9. CASE FixMirror \/ ReadThrough
    <2>1. vol' = vol /\ pc' \in Steps /\ flags' = flags /\ mirr' \in {mirr, FALSE}
      BY <1>5, <1>9 DEF FixMirror, ReadThrough, disk
    <2> QED
      BY <2>1 DEF VolType
  <1>10. CASE SetFlags
    <2>1. /\ vol' = [vol EXCEPT !.flags = Required(vol)] /\ pc' \in Steps
          /\ flags' = Required(vol) /\ mirr' = mirr
      BY <1>5, <1>10 DEF SetFlags
    <2>2. vol' \in Volumes
      BY <2>1, <1>4 DEF VolType
    <2> QED
      BY <2>1, <2>2, <1>4 DEF VolType
  <1>11. CASE Fill
    <2>1. PICK n \in 1..Count :
             IF Advanced(n) = Blocks
             THEN pc' = After("fill") /\ vol' = [vol EXCEPT !.empty = TRUE, !.pos = 0]
             ELSE pc' = pc /\ vol' = [vol EXCEPT !.pos = Advanced(n)]
      BY <1>11 DEF Fill
    <2>2. Advanced(n) \in Nat /\ Advanced(n) <= Blocks /\ Blocks \in Nat
      BY FilledIs, JournalAssumption DEF Advanced
    <2>3. vol' \in Volumes /\ pc' \in Steps
      <3>1. CASE Advanced(n) = Blocks
        BY <2>1, <3>1, <1>1, <1>5 DEF VolType
      <3>2. CASE Advanced(n) # Blocks
        <4>1. Advanced(n) \in 0..Blocks - 1
          BY <2>2, <3>2
        <4>2. pc' = pc /\ vol' = [vol EXCEPT !.pos = Advanced(n)]
          BY <2>1, <3>2
        <4> QED
          BY <4>1, <4>2 DEF VolType
      <3> QED
        BY <3>1, <3>2
    <2>4. flags' = flags /\ mirr' = mirr
      BY <1>11 DEF Fill
    <2> QED
      BY <2>3, <2>4 DEF VolType
  <1>12. CASE Stop
    <2>1. pc' = "off" /\ vol' = NoVol /\ flags' \in {flags, Required(vol)} /\ mirr' \in {mirr, TRUE}
      BY <1>12 DEF Stop, disk
    <2> QED
      BY <2>1, <1>2, <1>4 DEF VolType
  <1> QED
    BY <1>6, <1>7, <1>8, <1>9, <1>10, <1>11, <1>12 DEF Next

(* Each step of a program keeps what the program knows and promises.       *)
LEMMA PromisesKeep ==
    ASSUME IInv, Restarts, Promises, IInv', VolType',
           \/ \E prog \in {"ntfsfix", "ntfsresize", "other"} : Start(prog)
           \/ FixMounts \/ FixMirror \/ Remount \/ OtherMounts \/ SetFlags \/ ReadThrough
           \/ Fill \/ Stop \/ End
    PROVE  Promises'
  <1>0. VolType /\ Stages /\ MountsForWritingAreSafe /\ FixedVolumesMount
    BY DEF Promises
  <1>1. win' = win /\ pending' = pending
    BY DEF Start, FixMounts, FixMirror, Remount, OtherMounts, SetFlags, ReadThrough, Fill, Stop, End
  <1> DEFINE Keep == Stages' /\ MountsForWritingAreSafe' /\ FixedVolumesMount'
  <1>2. ASSUME log' = log PROVE SeenEmpty' = SeenEmpty /\ CheckLogfile' = CheckLogfile
    BY <1>1, <1>2 DEF SeenEmpty, CheckLogfile, Pages, Newest, Clean, Loads, StopsAt, Consistent, OneWrite
  <1>3. ASSUME log' = log, mirr' = mirr PROVE Mountable' = Mountable
    BY <1>1, <1>2, <1>3 DEF Mountable
  <1>4. CASE \E prog \in {"ntfsfix", "ntfsresize", "other"} : Start(prog)
    <2>1. PICK prog : pc' = "mount" /\ vol' = [NoVol EXCEPT !.prog = prog]
      BY <1>4 DEF Start
    <2>2. vol'.pos = 0 /\ ~vol'.empty /\ ~vol'.mounted
      BY <2>1 DEF NoVol
    <2> QED
      BY <2>1, <2>2 DEF Stages, MountsForWritingAreSafe, Writing, FixedVolumesMount, Promises
  <1>5. ASSUME log' = log, flags' = flags, mirr' = mirr, vol' = Mounted, Mountable, pc # "off",
               pc' \in {"flag", "work", "fixed"}, pc' = "flag" => vol.pos = 0,
               pc' = "fixed" => Dirty \in flags /\ SeenEmpty
        PROVE  Promises'
    <2>1. vol'.mounted /\ vol'.empty = SeenEmpty /\ vol'.pos = vol.pos
      BY <1>0, <1>5 DEF Mounted, VolType
    <2>2. ~mirr /\ win.state = "off" /\ (pending => Dirty \in flags)
      BY <1>5, MountableIsSafe
    <2>3. Stages'
      BY <2>1, <2>2, <1>2, <1>5 DEF Stages
    <2>4. MountsForWritingAreSafe'
      BY <2>2, <1>1, <1>5 DEF MountsForWritingAreSafe
    <2>5. FixedVolumesMount'
      BY <1>2, <1>3, <1>5 DEF FixedVolumesMount
    <2> QED
      BY <2>3, <2>4, <2>5 DEF Promises
  <1>6. ASSUME pc' = "off" PROVE Promises'
    BY <1>6 DEF Promises, VolType, Stages, MountsForWritingAreSafe, Writing, FixedVolumesMount
  <1>7. CASE FixMounts \/ OtherMounts \/ Remount
    <2>1. log' = log /\ flags' = flags /\ mirr' = mirr
      BY <1>7 DEF FixMounts, OtherMounts, Remount, disk
    <2>2. CASE Mountable /\ vol' = Mounted /\ pc' # "off"
      <3>1. pc # "off" /\ pc' \in {"flag", "work", "fixed"}
        BY <1>7, <2>2 DEF FixMounts, OtherMounts, Remount
      <3>2. pc' = "flag" => vol.pos = 0
        BY <1>0, <1>7, <2>2 DEF FixMounts, OtherMounts, Remount, Stages
      <3>3. pc' = "fixed" => Dirty \in flags /\ SeenEmpty
        BY <1>0, <1>7, <2>2 DEF FixMounts, OtherMounts, Remount, Stages
      <3> QED
        BY <2>1, <2>2, <3>1, <3>2, <3>3, <1>5
    <2>3. CASE pc = "mount" /\ pc' = "mirror" /\ vol' = vol
      BY <2>1, <2>3, <1>0, <1>1, <1>2 DEF Promises, Stages, MountsForWritingAreSafe, Writing,
                                          FixedVolumesMount
    <2> QED
      BY <1>6, <1>7, <2>2, <2>3 DEF FixMounts, OtherMounts, Remount
  <1>8. CASE FixMirror
    <2>1. /\ pc = "mirror" /\ pc' = "flag" /\ log' = log /\ flags' = flags /\ vol' = vol
          /\ mirr' = FALSE
      BY <1>8 DEF FixMirror, After
    <2> QED
      BY <2>1, <1>0, <1>1, <1>2 DEF Promises, Stages, MountsForWritingAreSafe, Writing,
                                    FixedVolumesMount
  <1>9. CASE SetFlags
    <2>1. /\ pc = "flag" /\ pc' = "read" /\ log' = log /\ Dirty \in flags' /\ mirr' = mirr
          /\ vol' = [vol EXCEPT !.flags = Required(vol)]
      BY <1>9 DEF SetFlags, After, Required
    <2>2. vol'.mounted = vol.mounted /\ vol'.pos = vol.pos /\ vol'.empty = vol.empty
      BY <1>0, <2>1 DEF VolType
    <2> QED
      BY <2>1, <2>2, <1>0, <1>1, <1>2 DEF Promises, Stages, MountsForWritingAreSafe, Writing,
                                    FixedVolumesMount
  <1>10. ASSUME NEW step, step = After("fill"), pc' = step, pc \in {"read", "fill"},
                vol'.mounted = vol.mounted, flags' = flags, mirr' = mirr, SeenEmpty'
         PROVE  Promises'
    <2>1. Dirty \in flags
      BY <1>10 DEF IInv
    <2>2. \/ pc' = "remount" /\ ~vol.mounted
          \/ pc' \in {"fixed", "work"} /\ vol.mounted
      BY <1>10 DEF After
    <2>3. Stages'
      BY <2>1, <2>2, <1>10 DEF Stages
    <2>4. MountsForWritingAreSafe'
      BY <2>1, <1>0, <1>1, <1>10 DEF MountsForWritingAreSafe, Writing
    <2>5. FixedVolumesMount'
      <3>1. SUFFICES ASSUME pc' = "fixed" PROVE FixedVolumesMount'
        BY DEF FixedVolumesMount
      <3>2. vol.mounted /\ ~mirr
        BY <3>1, <2>2, <1>0, <1>10 DEF Stages
      <3>3. win.state = "off"
        BY <3>2, <1>0, <1>10 DEF MountsForWritingAreSafe, Writing
      <3> QED
        BY <2>1, <3>2, <3>3, <1>1, <1>10 DEF FixedVolumesMount, Mountable, CheckLogfile
    <2> QED
      BY <2>3, <2>4, <2>5 DEF Promises
  <1>11. CASE ReadThrough
    <2>1. /\ pc = "read" /\ vol' = vol /\ log' = log /\ flags' = flags /\ mirr' = mirr
          /\ pc' = IF vol.empty THEN After("fill") ELSE "fill"
      BY <1>11 DEF ReadThrough, disk
    <2>2. CASE vol.empty
      <3>1. SeenEmpty'
        BY <2>1, <2>2, <1>0, <1>2 DEF Stages
      <3> QED
        BY <2>1, <2>2, <3>1, <1>10
    <2>3. CASE ~vol.empty
      <3>1. \A b \in 0..vol.pos - 1 : log[b] = Empty
        BY <2>1, <1>0 DEF Stages
      <3> QED
        BY <2>1, <2>3, <3>1, <1>0, <1>1 DEF Promises, Stages, MountsForWritingAreSafe, Writing,
                                            FixedVolumesMount
    <2> QED
      BY <2>2, <2>3
  <1>12. CASE Fill
    <2>1. /\ pc = "fill" /\ flags' = flags /\ mirr' = mirr
      BY <1>12 DEF Fill
    <2>2. PICK n \in 1..Count :
             /\ log' = Filled(n)
             /\ IF Advanced(n) = Blocks
                THEN pc' = After("fill") /\ vol' = [vol EXCEPT !.empty = TRUE, !.pos = 0]
                ELSE pc' = pc /\ vol' = [vol EXCEPT !.pos = Advanced(n)]
      BY <1>12 DEF Fill
    <2>3. Blocks \in Nat /\ vol.pos \in 0..Blocks - 1 /\ n \in Nat /\ n >= 1 /\ vol.pos + n <= Blocks
      BY <1>0, FilledIs, JournalAssumption DEF VolType
    <2>4. PICK top \in 0..Blocks : top = vol.pos + n /\ Advanced(n) = top
      BY <2>3 DEF Advanced
    <2>7. \A b \in 0..top - 1 : log'[b] = Empty
      <3>1. ASSUME NEW b \in 0..top - 1 PROVE log'[b] = Empty
        <4>1. b \in 0..Blocks - 1
          BY <2>3, <3>1
        <4>2. b \in 0..vol.pos - 1 \/ b \in vol.pos..vol.pos + n - 1
          BY <2>3, <2>4, <3>1
        <4>3. \A c \in 0..vol.pos - 1 : log[c] = Empty
          BY <2>1, <1>0 DEF Stages
        <4> QED
          BY <4>1, <4>2, <4>3, <2>2, <1>0, FilledIs
      <3> QED
        BY <3>1
    <2>5. CASE Advanced(n) = Blocks
      <3>1. \A b \in 0..Blocks - 1 : log'[b] = Empty
        BY <2>4, <2>5, <2>7
      <3>2. SeenEmpty'
        <4>1. Positions \subseteq 0..Blocks - 1
          BY <2>3 DEF Positions
        <4> QED
          BY <3>1, <4>1 DEF SeenEmpty
      <3>3. vol'.mounted = vol.mounted /\ pc' = After("fill")
        BY <2>2, <2>5, <1>0 DEF VolType
      <3> QED
        BY <2>1, <3>2, <3>3, <1>10
    <2>6. CASE Advanced(n) # Blocks
      <3>1. pc' = "fill" /\ vol'.mounted = vol.mounted /\ vol'.pos = vol.pos + n
        BY <2>1, <2>2, <2>4, <2>6, <1>0 DEF VolType
      <3>2. \A b \in 0..vol'.pos - 1 : log'[b] = Empty
        BY <3>1, <2>4, <2>7
      <3> QED
        BY <2>1, <3>1, <3>2, <1>0, <1>1 DEF Promises, Stages, MountsForWritingAreSafe, Writing,
                                            FixedVolumesMount
    <2> QED
      BY <2>5, <2>6
  <1>13. CASE Stop \/ End
    BY <1>6, <1>13 DEF Stop, End
  <1> QED
    BY <1>4, <1>7, <1>8, <1>9, <1>11, <1>12, <1>13
-----------------------------------------------------------------------------
LEMMA JInit == Init => JInv
  <1> SUFFICES ASSUME Init PROVE JInv
    OBVIOUS
  <1>1. IInv
    BY InitHolds
  <1>2. Types
    BY DEF Init, Types, Block
  <1>3. ~Whole /\ Blocks \in Nat /\ 0 \in 0..Blocks - 1
    BY JournalAssumption DEF Init, Whole
  <1>4. VolType
    BY <1>3 DEF Init, VolType, NoVol, Flags
  <1>5. Promises
    BY <1>4, IdlePromises DEF Init
  <1> QED
    BY <1>1, <1>2, <1>3, <1>5 DEF JInv, Restarts, SetUp, LastPage

LEMMA JNext == JInv /\ [Next]_vars => JInv'
  <1> SUFFICES ASSUME JInv, [Next]_vars PROVE JInv'
    OBVIOUS
  <1>1. IInv /\ Restarts /\ Promises /\ Types /\ VolType
    BY DEF JInv, Restarts, Promises
  <1>2. IInv' /\ VolType'
    BY <1>1, NextHolds, VolKeeps
  <1>3. CASE \/ WinBoot \/ WinWork \/ WinCheckpoint \/ WinShutdown \/ WinHibernate \/ WinResume
             \/ WinCrash \/ Chkdsk
    <2>1. pc' = "off"
      BY <1>3 DEF WinBoot, WinWork, WinCheckpoint, WinShutdown, WinHibernate, WinResume, WinCrash,
                  Chkdsk, Windows
    <2>2. Promises'
      BY <2>1, <1>2 DEF Promises, VolType, Stages, MountsForWritingAreSafe, Writing,
                        FixedVolumesMount
    <2>3. Restarts'
      BY <1>1, <1>3, WindowsKeeps
    <2> QED
      BY <1>2, <2>2, <2>3 DEF JInv
  <1>4. CASE \/ \E prog \in {"ntfsfix", "ntfsresize", "other"} : Start(prog)
             \/ FixMounts \/ FixMirror \/ Remount \/ OtherMounts \/ SetFlags \/ ReadThrough
             \/ Fill \/ Stop \/ End
    <2>1. Restarts'
      BY <1>1, <1>4, ProgramsKeep
    <2>2. Promises'
      BY <1>1, <1>2, <1>4, PromisesKeep
    <2> QED
      BY <1>2, <2>1, <2>2 DEF JInv
  <1>5. CASE UNCHANGED vars
    <2>1. UNCHANGED <<log, flags, mirr, win, pending, pc, vol, troubles>>
      BY <1>5 DEF vars
    <2>2. Restarts'
      BY <1>1, <2>1, LogKeeps
    <2>3. SeenEmpty' = SeenEmpty /\ Mountable' = Mountable
      BY <2>1 DEF SeenEmpty, Mountable, CheckLogfile, Pages, Newest, Clean, Loads, StopsAt,
                  Consistent, OneWrite
    <2>4. Promises'
      BY <1>1, <1>2, <2>1, <2>3 DEF Promises, Stages, MountsForWritingAreSafe, Writing,
                                    FixedVolumesMount
    <2> QED
      BY <1>2, <2>2, <2>4 DEF JInv
  <1> QED
    BY <1>3, <1>4, <1>5 DEF Next

(* ntfs_device_mount: whatever is torn, old or filled in the journal, what *)
(* is mounted for writing has nothing that only the journal can finish, or *)
(* is marked, and no Windows sleeps on it.                                 *)
THEOREM MountsAreSafe == Spec => []MountsForWritingAreSafe
<1>1. JInv => MountsForWritingAreSafe
  BY DEF JInv, Promises
<1> QED
  BY <1>1, JInit, JNext, PTL DEF Spec

(* ntfsfix: what it reports as fixed is marked, and mounts.                *)
THEOREM FixedMount == Spec => []FixedVolumesMount
<1>1. JInv => FixedVolumesMount
  BY DEF JInv, Promises
<1> QED
  BY <1>1, JInit, JNext, PTL DEF Spec
=============================================================================
