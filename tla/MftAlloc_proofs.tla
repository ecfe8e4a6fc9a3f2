--------------------------- MODULE MftAlloc_proofs --------------------------
(***************************************************************************)
(* For every size of the mft, of its bitmap and of their steps, and for    *)
(* any number of calls, failures and crashes: a record in use has its bit, *)
(* a failed allocation keeps none, only a free record is handed out, and   *)
(* never twice in a row with the same sequence number.                     *)
(***************************************************************************)
EXTENDS MftAlloc, NatSetLemmas, TLAPS

SizesOK(s) ==
    /\ s \in [mft_init : Nat, mft_alloc : Nat, bmp_init : Nat, bmp_alloc : Nat]
    /\ s.mft_init <= s.mft_alloc /\ s.mft_alloc <= MaxRecord
    /\ s.mft_init <= s.bmp_init /\ FirstUser < s.bmp_init

(* The shapes of the variables, as far as the steps below need them.       *)
Shapes ==
    /\ SizesOK(na) /\ SizesOK(disk_na) /\ SizesOK(call.na)
    /\ disk_na.mft_init <= na.mft_init
    /\ disk.used \subseteq Record
    /\ disk = [used |-> disk.used, seq |-> disk.seq]
    /\ mem = [used |-> mem.used, seq |-> mem.seq]
    /\ call = [op |-> call.op, bit |-> call.bit, seq |-> call.seq, base |-> call.base,
               ret |-> call.ret, na |-> call.na, bmp |-> call.bmp]
    /\ call.bit \in Nat /\ data_pos \in Nat

BeforeBit == {"extend_bmp", "init_bmp", "set_bit"}
InAlloc == BeforeBit \union {"extend_mft", "format", "sizes", "read", "undo"}
InFree == {"free_sync", "free_clear", "free_undo"}

(* An inode that is open has a record inside the mft, in use but for the   *)
(* one that is being freed; what is dirty is open.                         *)
Inodes ==
    /\ open \subseteq Below(na.mft_init) /\ dirty \subseteq open
    /\ \A r \in open : r \in mem.used \/ (pc \in InFree /\ r = call.bit)

(* During an allocation the sizes have only grown, and no inode is in what *)
(* has been added.  The record is one for users; if it is in use already,  *)
(* it is one that a failed free has exposed.                               *)
Allocating ==
    pc \in InAlloc =>
        /\ disk_na.mft_init <= call.na.mft_init /\ call.na.mft_init <= na.mft_init
        /\ open \subseteq Below(call.na.mft_init)
        /\ FirstUser <= call.bit
        /\ pc \in BeforeBit => bmp = call.bmp
        /\ pc \in {"extend_bmp", "init_bmp"} => call.bit = na.bmp_init
        /\ pc \in {"set_bit", "extend_mft", "format"} => call.bit < na.bmp_init
        /\ pc \in {"extend_mft", "format"} => na.mft_init <= call.bit
        /\ pc = "format" => call.bit < na.mft_alloc
        /\ pc \in {"sizes", "read"} => call.bit < na.mft_init
        /\ pc \in {"extend_mft", "format", "sizes", "read"} => call.bit \in bmp
        /\ \A r \in disk.used : r < call.na.mft_init \/ na.mft_init <= r
        /\ call.bit < na.mft_init /\ (call.bit \in disk.used \/ call.bit \in open) => call.bit \in exposed

(* During a free the bit is set until the record has been written.         *)
Freeing ==
    pc \in InFree =>
        /\ call.op = "free" /\ call.bit \in open /\ call.bit \notin mem.used
        /\ pc = "free_sync" => call.bit \in bmp \/ call.bit \in exposed
        /\ pc \in {"free_clear", "free_undo"} => call.bit \notin disk.used
        /\ pc = "free_clear" => call.bit \notin dirty

IInv ==
    /\ Shapes /\ Inodes /\ Allocating /\ Freeing
    /\ pc \in {"idle"} \union InAlloc \union InFree
    /\ BitsFollowRecords

(* The number a record is handed out with: the one on disk, or 1.          *)
Number(r) == IF disk.seq[r] # 0 THEN disk.seq[r] ELSE 1

(* What the sequence numbers say.  A record outside the mft has not been   *)
(* handed out since the mft last lost it.  An open inode has the number    *)
(* its record was handed out with, until a free counts it up, in memory    *)
(* and then on disk.  So a record of the mft that would be handed out with *)
(* the same number again is in use, or keeps its bit and is not the one    *)
(* that is being allocated.                                                *)
NumberTypes ==
    /\ disk.seq \in [Record -> Nat] /\ mem.seq \in [Record -> Nat]
    /\ names \in [Record -> Nat]

Outside ==
    \A r \in Record :
       (na.mft_init <= r \/ (pc \in InAlloc /\ call.na.mft_init <= r))
           => names[r] = 0 \/ r \in lost

OpenNumbers ==
    /\ \A r \in open : mem.seq[r] = names[r] \/ (pc \in InFree /\ r = call.bit)
    /\ pc \in InFree => /\ call.seq = names[call.bit]
                        /\ mem.seq[call.bit] = NextSeq(call.seq)
                        /\ pc # "free_sync" => disk.seq[call.bit] = NextSeq(call.seq)

NotAgain ==
    \A r \in Record :
       (r < na.mft_init /\ r \notin disk.used \union lost
        /\ names[r] # 0 /\ Number(r) = names[r])
           => r \in bmp /\ ~(pc \in InAlloc /\ r = call.bit)

Numbers == NumberTypes /\ Outside /\ OpenNumbers /\ NotAgain
-----------------------------------------------------------------------------
(* A record that is found by the search is free and one for users.         *)
LEMMA FoundIsFree ==
    ASSUME MftAssumption, NEW start \in Nat, FirstUser <= start, na.bmp_init \in Nat,
           FreeRecs(start) # {}
    PROVE  /\ Smallest(FreeRecs(start)) \in Record \ bmp
           /\ FirstUser <= Smallest(FreeRecs(start))
           /\ Smallest(FreeRecs(start)) < na.bmp_init
<1>1. \A from \in Nat, end \in Nat : \A r \in FreeInPass(from, end) :
         r \in Record \ bmp /\ from <= r /\ r < na.bmp_init
  BY DEF FreeInPass, Below, Record
<1>2. \A r \in FreeRecs(start) : r \in Record \ bmp /\ FirstUser <= r /\ r < na.bmp_init
  <2> SUFFICES ASSUME NEW r \in FreeRecs(start)
               PROVE  r \in Record \ bmp /\ FirstUser <= r /\ r < na.bmp_init
    OBVIOUS
  <2>1. \/ r \in FreeInPass(FirstUser, PassEnd)
        \/ r \in FreeInPass(start, PassEnd)
        \/ r \in FreeInPass(FirstUser, start)
    BY DEF FreeRecs
  <2>2. \A from, end : FreeInPass(from, end) \subseteq {q \in Below(na.bmp_init) \ bmp : q >= from}
    BY DEF FreeInPass
  <2>3. r \in Below(na.bmp_init) \ bmp /\ (r >= FirstUser \/ r >= start)
    BY <2>1, <2>2
  <2> QED
    BY <2>3 DEF Below, Record, MftAssumption
<1>3. FreeRecs(start) \subseteq Nat
  BY <1>2 DEF Record, MftAssumption
<1> QED
  BY <1>2, <1>3, SmallestIsLeast

(* The record an allocation starts with is one for users: a free one, or   *)
(* one behind the end of the mft.                                          *)
LEMMA AllocChooses ==
    ASSUME MftAssumption, IInv, NEW base \in open \union {NoBase}, Alloc(base)
    PROVE  /\ call'.bit \in Nat /\ FirstUser <= call'.bit
           /\ call'.op = "alloc" /\ call'.na = na /\ call'.bmp = bmp
           /\ call' = [op |-> "alloc", bit |-> call'.bit, seq |-> 0, base |-> base,
                       ret |-> "none", na |-> na, bmp |-> bmp]
           /\ pc = "idle" /\ pc' \in BeforeBit
           /\ pc' = "set_bit" => call'.bit < na.bmp_init
           /\ pc' # "set_bit" => call'.bit = na.bmp_init
           /\ call'.bit < na.mft_init => call'.bit \in Record \ bmp
           /\ UNCHANGED <<bmp, disk, disk_na, na, data_pos, open, mem, dirty, ghosts>>
<1> DEFINE found == FreeRecs(SearchFrom(base))
           bit == IF found # {} THEN Smallest(found)
                  ELSE IF CoversNext THEN FirstUnused
                  ELSE na.bmp_init
<1> USE DEF IInv, Shapes, SizesOK, Inodes, Below, Record
<1>1. SearchFrom(base) \in Nat /\ FirstUser <= SearchFrom(base)
  BY DEF SearchFrom, Greater, NoBase, MftAssumption
<1>2. /\ bit \in Nat /\ FirstUser <= bit
      /\ found # {} \/ CoversNext => bit < na.bmp_init
      /\ ~(found # {} \/ CoversNext) => bit = na.bmp_init
      /\ bit < na.mft_init => bit \in Record \ bmp
  <2>1. CASE found # {}
    BY <1>1, <2>1, FoundIsFree DEF MftAssumption
  <2>2. CASE found = {} /\ CoversNext
    <3>1. bit = FirstUnused
      BY <2>2
    <3> QED
      BY <2>2, <3>1 DEF CoversNext, FirstUnused, Greater, MftAssumption
  <2>3. CASE found = {} /\ ~CoversNext
    BY <2>3 DEF MftAssumption
  <2> QED
    BY <2>1, <2>2, <2>3
<1>3. /\ call' = [op |-> "alloc", bit |-> bit, seq |-> 0, base |-> base,
                  ret |-> "none", na |-> na, bmp |-> bmp]
      /\ pc = "idle"
      /\ pc' = IF found # {} \/ CoversNext THEN "set_bit"
               ELSE IF na.bmp_init + BmpStep > na.bmp_alloc THEN "extend_bmp"
               ELSE "init_bmp"
      /\ UNCHANGED <<bmp, disk, disk_na, na, data_pos, open, mem, dirty, ghosts>>
  BY DEF Alloc, disks, vols, inodes
<1> HIDE DEF bit, found
<1> QED
  BY <1>2, <1>3 DEF BeforeBit

(* Every layout a volume starts with satisfies the invariant.              *)
LEMMA InitHolds == MftAssumption /\ Init => IInv
<1> SUFFICES ASSUME MftAssumption, Init PROVE IInv
  OBVIOUS
<1> PICK s \in Layouts : \E used \in SUBSET (Below(s.mft_init) \ Below(FirstUser)) :
        /\ na = s /\ disk_na = s
        /\ bmp = used \union Below(Lesser(FirstUser, s.mft_init))
        /\ disk = [used |-> bmp,
                   seq |-> [r \in Record |-> IF r < s.mft_init THEN 1 ELSE 0]]
        /\ mem = disk
        /\ open = {} /\ dirty = {}
        /\ data_pos = FirstUser
        /\ pc = "idle"
        /\ call = [op |-> "none", bit |-> 0, seq |-> 0, base |-> NoBase, ret |-> "ok",
                   na |-> s, bmp |-> bmp]
  BY DEF Init
<1>1. SizesOK(s)
  BY DEF MftAssumption, SizesOK, Sizes
<1>2. disk.used \subseteq Record
  BY DEF Below
<1>3. Shapes
  BY <1>1, <1>2 DEF Shapes, SizesOK, MftAssumption
<1> QED
  BY <1>2, <1>3 DEF IInv, Inodes, Allocating, Freeing, BitsFollowRecords, InAlloc, InFree, BeforeBit

(* Every step of a call, of a caller and every stop preserves it.          *)
LEMMA NextHolds == MftAssumption /\ IInv /\ [Next]_vars => IInv'
<1> SUFFICES ASSUME MftAssumption, IInv, [Next]_vars PROVE IInv'
  OBVIOUS
<1> USE DEF IInv, Shapes, SizesOK, Inodes, Allocating, Freeing, BitsFollowRecords, InAlloc, InFree, BeforeBit,
            disks, vols, inodes, ghosts, bounds, Below, Record
<1>1. CASE \E base \in open \union {NoBase} : Alloc(base)
  <2> PICK base \in open \union {NoBase} : Alloc(base)
    BY <1>1
  <2>1. /\ call'.bit \in Nat /\ FirstUser <= call'.bit
        /\ call'.op = "alloc" /\ call'.na = na /\ call'.bmp = bmp
        /\ call' = [op |-> "alloc", bit |-> call'.bit, seq |-> 0, base |-> base,
                    ret |-> "none", na |-> na, bmp |-> bmp]
        /\ pc = "idle" /\ pc' \in BeforeBit
        /\ pc' = "set_bit" => call'.bit < na.bmp_init
        /\ pc' # "set_bit" => call'.bit = na.bmp_init
        /\ call'.bit < na.mft_init => call'.bit \in Record \ bmp
        /\ UNCHANGED <<bmp, disk, disk_na, na, data_pos, open, mem, dirty, exposed, leaked>>
    BY AllocChooses
  <2>2. Shapes' /\ Inodes' /\ Freeing'
    BY <2>1
  <2>3. Allocating'
    BY <2>1
  <2>4. BitsFollowRecords'
    BY <2>1
  <2> QED
    BY <2>1, <2>2, <2>3, <2>4
<1>2. CASE AllocReadFails
  BY <1>2 DEF AllocReadFails
<1>3. CASE \E r \in Record : Free(r)
  BY <1>3 DEF Free, Freed, NextSeq
<1>4. CASE \E r \in Record : Open(r)
  BY <1>4 DEF Open, CopyTo
<1>5. CASE \E r \in Record : Sync(r)
  BY <1>5 DEF Sync, CopyTo, NoFault
<1>6. CASE \E r \in Record : SyncFails(r)
  BY <1>6 DEF SyncFails, CopyTo, Fault
<1>7. CASE \E r \in Record : Close(r)
  BY <1>7 DEF Close, NoFault
<1>8. CASE ExtendBmp
  BY <1>8 DEF ExtendBmp, NoFault
<1>9. CASE ExtendBmpFails
  BY <1>9 DEF ExtendBmpFails, ExtendFails, Return, NoFault
<1>10. CASE InitBmp
  BY <1>10 DEF InitBmp, NoFault, MftAssumption
<1>11. CASE InitBmpFails
  BY <1>11 DEF InitBmpFails, Fault, Return
<1>12. CASE SetBit
  BY <1>12 DEF SetBit, NoFault
<1>13. CASE SetBitFails
  BY <1>13 DEF SetBitFails, Fault, Return
<1>14. CASE ExtendMft
  BY <1>14 DEF ExtendMft, NoFault, MftAssumption
<1>15. CASE ExtendMftFails
  BY <1>15 DEF ExtendMftFails, ExtendFails, NoFault
<1>16. CASE Format
  BY <1>16 DEF Format, Blank, NoFault
<1>17. CASE FormatFails
  BY <1>17 DEF FormatFails, Blank, Fault
<1>18. CASE UpdateSizes
  BY <1>18 DEF UpdateSizes, NoFault
<1>19. CASE UpdateSizesFails
  BY <1>19 DEF UpdateSizesFails, Fault
<1>20. CASE OpenNew
  <2>1. /\ pc = "read" /\ pc' = "idle" /\ call.bit \notin disk.used
        /\ open' = open \union {call.bit} /\ dirty' = dirty \union {call.bit}
        /\ mem'.used = mem.used \union {call.bit}
        /\ mem' = [used |-> mem'.used, seq |-> mem'.seq]
        /\ data_pos' \in {call.bit + 1, data_pos}
        /\ call' = [call EXCEPT !.ret = "ok"]
        /\ UNCHANGED <<bmp, disk, disk_na, na, exposed>>
    BY <1>20 DEF OpenNew, Return, NoFault
  <2>2. call.bit < na.mft_init /\ call.bit \in bmp
    BY <2>1
  <2>3. Shapes'
    BY <2>1
  <2>4. Inodes'
    <3>1. call.bit \in Below(na.mft_init)
      BY <2>2 DEF MftAssumption
    <3> QED
      BY <2>1, <3>1
  <2>5. Allocating' /\ Freeing' /\ BitsFollowRecords'
    BY <2>1, <2>2
  <2> QED
    BY <2>1, <2>3, <2>4, <2>5
<1>21. CASE FoundInUse
  BY <1>21 DEF FoundInUse, NoFault
<1>22. CASE OpenNewFails
  BY <1>22 DEF OpenNewFails, Fault
<1>23. CASE Undo
  BY <1>23 DEF Undo, Return, NoFault
<1>24. CASE UndoFails
  BY <1>24 DEF UndoFails, Return, Fault
<1>25. CASE FreeSync
  BY <1>25 DEF FreeSync, CopyTo, NoFault
<1>26. CASE FreeSyncFails
  BY <1>26 DEF FreeSyncFails, CopyTo, Rollback, Return, Fault
<1>27. CASE FreeClear
  BY <1>27 DEF FreeClear, Return, NoFault
<1>28. CASE FreeClearFails
  BY <1>28 DEF FreeClearFails, Fault
<1>29. CASE FreeUndo
  BY <1>29 DEF FreeUndo, Rollback, Return, NoFault
<1>30. CASE FreeUndoFails
  BY <1>30 DEF FreeUndoFails, Rollback, Return, Fault
<1>31. CASE Remount
  BY <1>31 DEF Remount, Load, NoFault
<1>32. CASE Crash
  <2>1. /\ na' = disk_na /\ data_pos' = FirstUser
        /\ bmp' = bmp \intersect Below(disk_na.bmp_init)
        /\ open' = {} /\ dirty' = {} /\ pc' = "idle"
        /\ call' = [op |-> "none", bit |-> 0, seq |-> 0, base |-> NoBase, ret |-> "ok",
                    na |-> disk_na, bmp |-> bmp']
        /\ UNCHANGED <<disk, disk_na, mem, exposed>>
    BY <1>32 DEF Crash, Load
  <2>2. Shapes' /\ Inodes' /\ Allocating' /\ Freeing'
    BY <2>1 DEF MftAssumption
  <2>3. BitsFollowRecords'
    BY <2>1
  <2> QED
    BY <2>1, <2>2, <2>3
<1>33. CASE UNCHANGED vars
  BY <1>33 DEF vars
<1> QED
  BY <1>1, <1>2, <1>3, <1>4, <1>5, <1>6, <1>7, <1>8, <1>9, <1>10, <1>11, <1>12, <1>13, <1>14, <1>15, <1>16, <1>17, <1>18, <1>19, <1>20, <1>21, <1>22, <1>23, <1>24, <1>25, <1>26, <1>27, <1>28, <1>29, <1>30, <1>31, <1>32, <1>33 DEF Next, Step

(* Counting up leads to another number, never to the 0 of a record that    *)
(* has none.                                                               *)
LEMMA NextSeqDiffers ==
    ASSUME MftAssumption, NEW s \in Nat
    PROVE  /\ NextSeq(s) \in Nat
           /\ s # 0 => NextSeq(s) # s /\ NextSeq(s) # 0
BY DEF NextSeq, MftAssumption

LEMMA InitNumbers == MftAssumption /\ Init => Numbers
<1> SUFFICES ASSUME MftAssumption, Init PROVE Numbers
  OBVIOUS
<1>1. disk.seq \in [Record -> Nat]
  <2>1. PICK s \in Layouts : disk.seq = [r \in Record |-> IF r < s.mft_init THEN 1 ELSE 0]
    BY DEF Init
  <2> QED
    BY <2>1
<1>2. /\ mem.seq = disk.seq /\ names = [r \in Record |-> 0] /\ open = {} /\ pc = "idle"
  BY DEF Init
<1> QED
  BY <1>1, <1>2 DEF Numbers, NumberTypes, Outside, OpenNumbers, NotAgain, InAlloc, InFree, BeforeBit

(* What only moves an allocation on, or adds bits, leaves the numbers be.  *)
LEMMA NumbersStay ==
    ASSUME Numbers, pc \notin InFree, pc' \notin InFree,
           pc' \in InAlloc => pc \in InAlloc /\ call'.bit = call.bit /\ call'.na = call.na,
           UNCHANGED <<disk, mem, names, open, lost>>,
           na'.mft_init = na.mft_init, bmp \subseteq bmp'
    PROVE  Numbers'
<1>1. NumberTypes' /\ Outside' /\ OpenNumbers'
  BY DEF Numbers, NumberTypes, Outside, OpenNumbers
<1>2. NotAgain'
  BY DEF Numbers, NotAgain, Number
<1> QED
  BY <1>1, <1>2 DEF Numbers

LEMMA NextNumbers == IInv /\ Numbers /\ [Next]_vars => Numbers'
<1> SUFFICES ASSUME IInv, Numbers, [Next]_vars PROVE Numbers'
  OBVIOUS
<1> USE DEF InAlloc, InFree, BeforeBit
<1>a. NumberTypes /\ Outside /\ OpenNumbers /\ NotAgain
  BY DEF Numbers
<1>b. /\ na.mft_init \in Nat /\ disk_na.mft_init \in Nat /\ call.na.mft_init \in Nat
      /\ na.mft_init <= na.bmp_init /\ na.bmp_init \in Nat
      /\ disk_na.mft_init <= na.mft_init
      /\ disk_na.mft_init <= disk_na.bmp_init /\ disk_na.bmp_init \in Nat
      /\ call.bit \in Nat /\ na.mft_init <= MaxRecord /\ MaxRecord \in Nat
  <2>1. SizesOK(na) /\ SizesOK(disk_na) /\ SizesOK(call.na) /\ disk_na.mft_init <= na.mft_init /\ call.bit \in Nat
    BY DEF IInv, Shapes
  <2> QED
    BY <2>1, MftAssumption DEF SizesOK, MftAssumption
<1>c. pc \in InFree =>
        /\ call.bit \in Record /\ names[call.bit] \in Nat /\ mem.seq[call.bit] \in Nat
        /\ call.seq = names[call.bit] /\ mem.seq[call.bit] = NextSeq(call.seq)
        /\ names[call.bit] # 0 => /\ mem.seq[call.bit] # 0
                                 /\ mem.seq[call.bit] # names[call.bit]
        /\ pc # "free_sync" => disk.seq[call.bit] = mem.seq[call.bit]
  <2> SUFFICES ASSUME pc \in InFree
               PROVE  /\ call.bit \in Record /\ names[call.bit] \in Nat /\ mem.seq[call.bit] \in Nat
                      /\ call.seq = names[call.bit] /\ mem.seq[call.bit] = NextSeq(call.seq)
                      /\ names[call.bit] # 0 => /\ mem.seq[call.bit] # 0
                                               /\ mem.seq[call.bit] # names[call.bit]
                      /\ pc # "free_sync" => disk.seq[call.bit] = mem.seq[call.bit]
    OBVIOUS
  <2>1. call.bit \in open /\ open \subseteq Below(na.mft_init)
    BY DEF IInv, Freeing, Inodes
  <2>2. call.bit \in Record
    BY <2>1 DEF Below
  <2>3. /\ names[call.bit] \in Nat /\ mem.seq[call.bit] \in Nat
        /\ call.seq = names[call.bit] /\ mem.seq[call.bit] = NextSeq(call.seq)
        /\ pc # "free_sync" => disk.seq[call.bit] = mem.seq[call.bit]
    BY <2>2, <1>a DEF NumberTypes, OpenNumbers
  <2>4. names[call.bit] # 0 => /\ mem.seq[call.bit] # 0
                              /\ mem.seq[call.bit] # names[call.bit]
    BY <2>3, NextSeqDiffers, MftAssumption
  <2> QED
    BY <2>2, <2>3, <2>4
<1>d. /\ pc = "format" => call.na.mft_init <= na.mft_init /\ na.mft_init \in Record
      /\ pc \in InAlloc => call.na.mft_init <= na.mft_init
      /\ pc = "read" => call.bit \in Record /\ call.bit < na.mft_init /\ call.bit \in bmp
  <2>1. /\ pc \in InAlloc => call.na.mft_init <= na.mft_init
        /\ pc = "read" => call.bit < na.mft_init /\ call.bit \in bmp
        /\ pc = "format" => na.mft_init <= call.bit /\ call.bit < na.mft_alloc
        /\ na.mft_alloc \in Nat /\ na.mft_alloc <= MaxRecord
    BY DEF IInv, Allocating, Shapes, SizesOK
  <2> QED
    BY <2>1, <1>b DEF Record
<1>1. CASE \E base \in open \union {NoBase} : Alloc(base)
  <2> PICK base \in open \union {NoBase} : Alloc(base)
    BY <1>1
  <2>1. /\ call'.na = na /\ pc = "idle" /\ pc' \in BeforeBit
        /\ call'.bit < na.mft_init => call'.bit \notin bmp
        /\ UNCHANGED <<bmp, disk, na, open, mem, names, lost>>
    BY AllocChooses, MftAssumption DEF ghosts
  <2>2. NumberTypes' /\ Outside' /\ OpenNumbers'
    BY <1>a, <2>1 DEF NumberTypes, Outside, OpenNumbers
  <2>3. NotAgain'
    BY <1>a, <2>1 DEF NotAgain, Number
  <2> QED
    BY <2>2, <2>3 DEF Numbers
<1>2. CASE \E r \in Record : Free(r)
  <2> PICK r \in Record : Free(r)
    BY <1>2
  <2>1. /\ pc = "idle" /\ pc' = "free_sync" /\ r \in open
        /\ mem'.seq = [mem.seq EXCEPT ![r] = NextSeq(mem.seq[r])]
        /\ call'.bit = r /\ call'.seq = mem.seq[r]
        /\ UNCHANGED <<bmp, disk, na, open, names, lost>>
    BY DEF Free, Freed, disks, vols, ghosts
  <2>2. NextSeq(mem.seq[r]) \in Nat
    BY <1>a, NextSeqDiffers, MftAssumption DEF NumberTypes
  <2>3. NumberTypes'
    BY <1>a, <2>1, <2>2 DEF NumberTypes
  <2>4. Outside'
    BY <1>a, <2>1 DEF Outside
  <2>5. OpenNumbers'
    BY <1>a, <2>1, <2>2 DEF OpenNumbers, NumberTypes
  <2>6. NotAgain'
    BY <1>a, <2>1 DEF NotAgain, Number
  <2> QED
    BY <2>3, <2>4, <2>5, <2>6 DEF Numbers
<1>3. CASE \E r \in Record : Open(r)
  <2> PICK r \in Record : Open(r)
    BY <1>3
  <2>1. /\ pc = "idle" /\ pc' = "idle" /\ r \in disk.used /\ r < na.mft_init
        /\ open' = open \union {r}
        /\ mem'.seq = [mem.seq EXCEPT ![r] = disk.seq[r]]
        /\ names' = [names EXCEPT ![r] = disk.seq[r]]
        /\ UNCHANGED <<bmp, disk, na, lost>>
    BY DEF Open, CopyTo, disks, vols
  <2>2. disk.seq[r] \in Nat /\ open \subseteq Record
    BY <1>a DEF NumberTypes, IInv, Inodes, Below
  <2>3. NumberTypes'
    BY <1>a, <2>1, <2>2 DEF NumberTypes
  <2>4. Outside'
    BY <1>a, <1>b, <2>1, <2>2 DEF Outside, NumberTypes, Record
  <2>5. OpenNumbers'
    BY <1>a, <2>1, <2>2 DEF OpenNumbers, NumberTypes
  <2>6. NotAgain'
    BY <1>a, <2>1, <2>2 DEF NotAgain, Number, NumberTypes
  <2> QED
    BY <2>3, <2>4, <2>5, <2>6 DEF Numbers
<1>4. CASE \E r \in Record : Sync(r)
  <2> PICK r \in Record : Sync(r)
    BY <1>4
  <2>1. /\ pc = "idle" /\ pc' = "idle" /\ r \in dirty
        /\ disk' = CopyTo(disk, mem, r)
        /\ UNCHANGED <<bmp, na, open, mem, names, lost>>
    BY DEF Sync, NoFault, vols, ghosts
  <2>2. r \in open /\ r \in mem.used
    BY <2>1 DEF IInv, Inodes
  <2>3. /\ disk'.used = disk.used \union {r}
        /\ disk'.seq = [disk.seq EXCEPT ![r] = mem.seq[r]]
    BY <2>1, <2>2 DEF CopyTo
  <2>4. NumberTypes'
    BY <1>a, <2>1, <2>3 DEF NumberTypes
  <2>5. Outside'
    BY <1>a, <2>1 DEF Outside
  <2>6. OpenNumbers'
    BY <1>a, <2>1 DEF OpenNumbers
  <2>7. NotAgain'
    BY <1>a, <2>1, <2>3 DEF NotAgain, Number, NumberTypes
  <2> QED
    BY <2>4, <2>5, <2>6, <2>7 DEF Numbers
<1>5. CASE \E r \in Record : SyncFails(r)
  <2> PICK r \in Record : SyncFails(r)
    BY <1>5
  <2>1. /\ pc = "idle" /\ pc' = "idle" /\ r \in dirty
        /\ disk' \in {disk, CopyTo(disk, mem, r)}
        /\ UNCHANGED <<bmp, na, open, mem, names, lost>>
    BY DEF SyncFails, Fault, vols, inodes, ghosts
  <2>2. r \in open /\ r \in mem.used
    BY <2>1 DEF IInv, Inodes
  <2>3. \/ disk' = disk
        \/ /\ disk'.used = disk.used \union {r}
           /\ disk'.seq = [disk.seq EXCEPT ![r] = mem.seq[r]]
    BY <2>1, <2>2 DEF CopyTo
  <2>4. NumberTypes'
    BY <1>a, <2>1, <2>3 DEF NumberTypes
  <2>5. Outside'
    BY <1>a, <2>1 DEF Outside
  <2>6. OpenNumbers'
    BY <1>a, <2>1 DEF OpenNumbers
  <2>7. NotAgain'
    BY <1>a, <2>1, <2>3 DEF NotAgain, Number, NumberTypes
  <2> QED
    BY <2>4, <2>5, <2>6, <2>7 DEF Numbers
<1>6. CASE \E r \in Record : Close(r)
  <2> PICK r \in Record : Close(r)
    BY <1>6
  <2>1. /\ pc = "idle" /\ pc' = "idle" /\ open' = open \ {r}
        /\ UNCHANGED <<bmp, disk, na, mem, names, lost>>
    BY DEF Close, NoFault, disks, vols, ghosts
  <2>2. NumberTypes'
    BY <1>a, <2>1 DEF NumberTypes
  <2>3. Outside'
    BY <1>a, <2>1 DEF Outside
  <2>4. OpenNumbers'
    BY <1>a, <2>1 DEF OpenNumbers
  <2>5. NotAgain'
    BY <1>a, <2>1 DEF NotAgain, Number
  <2> QED
    BY <2>2, <2>3, <2>4, <2>5 DEF Numbers
<1>7. CASE AllocReadFails
  <2>1. /\ pc \notin InFree /\ pc' \notin InFree
        /\ pc' \in InAlloc => pc \in InAlloc /\ call'.bit = call.bit /\ call'.na = call.na
        /\ UNCHANGED <<disk, mem, names, open, lost>>
        /\ na'.mft_init = na.mft_init /\ bmp \subseteq bmp'
    BY <1>7 DEF AllocReadFails, IInv, Shapes, SizesOK, disks, vols, inodes, ghosts
  <2> QED
    BY <2>1, NumbersStay
<1>8. CASE ExtendBmp
  <2>1. /\ pc \notin InFree /\ pc' \notin InFree
        /\ pc' \in InAlloc => pc \in InAlloc /\ call'.bit = call.bit /\ call'.na = call.na
        /\ UNCHANGED <<disk, mem, names, open, lost>>
        /\ na'.mft_init = na.mft_init /\ bmp \subseteq bmp'
    BY <1>8 DEF ExtendBmp, NoFault, IInv, Shapes, SizesOK, disks, vols, inodes, ghosts
  <2> QED
    BY <2>1, NumbersStay
<1>9. CASE ExtendBmpFails
  <2>1. /\ pc \notin InFree /\ pc' \notin InFree
        /\ pc' \in InAlloc => pc \in InAlloc /\ call'.bit = call.bit /\ call'.na = call.na
        /\ UNCHANGED <<disk, mem, names, open, lost>>
        /\ na'.mft_init = na.mft_init /\ bmp \subseteq bmp'
    BY <1>9 DEF ExtendBmpFails, ExtendFails, Return, NoFault, IInv, Shapes, SizesOK, disks, vols, inodes, ghosts
  <2> QED
    BY <2>1, NumbersStay
<1>10. CASE InitBmp
  <2>1. /\ pc \notin InFree /\ pc' \notin InFree
        /\ pc' \in InAlloc => pc \in InAlloc /\ call'.bit = call.bit /\ call'.na = call.na
        /\ UNCHANGED <<disk, mem, names, open, lost>>
        /\ na'.mft_init = na.mft_init /\ bmp \subseteq bmp'
    BY <1>10 DEF InitBmp, NoFault, IInv, Shapes, SizesOK, disks, vols, inodes, ghosts
  <2> QED
    BY <2>1, NumbersStay
<1>11. CASE InitBmpFails
  <2>1. /\ pc \notin InFree /\ pc' \notin InFree
        /\ pc' \in InAlloc => pc \in InAlloc /\ call'.bit = call.bit /\ call'.na = call.na
        /\ UNCHANGED <<disk, mem, names, open, lost>>
        /\ na'.mft_init = na.mft_init /\ bmp \subseteq bmp'
    BY <1>11 DEF InitBmpFails, Fault, Return, IInv, Shapes, SizesOK, disks, vols, inodes, ghosts
  <2> QED
    BY <2>1, NumbersStay
<1>12. CASE SetBit
  <2>1. /\ pc \notin InFree /\ pc' \notin InFree
        /\ pc' \in InAlloc => pc \in InAlloc /\ call'.bit = call.bit /\ call'.na = call.na
        /\ UNCHANGED <<disk, mem, names, open, lost>>
        /\ na'.mft_init = na.mft_init /\ bmp \subseteq bmp'
    BY <1>12 DEF SetBit, NoFault, IInv, Shapes, SizesOK, disks, vols, inodes, ghosts
  <2> QED
    BY <2>1, NumbersStay
<1>13. CASE SetBitFails
  <2>1. /\ pc \notin InFree /\ pc' \notin InFree
        /\ pc' \in InAlloc => pc \in InAlloc /\ call'.bit = call.bit /\ call'.na = call.na
        /\ UNCHANGED <<disk, mem, names, open, lost>>
        /\ na'.mft_init = na.mft_init /\ bmp \subseteq bmp'
    BY <1>13 DEF SetBitFails, Fault, Return, IInv, Shapes, SizesOK, disks, vols, inodes, ghosts
  <2> QED
    BY <2>1, NumbersStay
<1>14. CASE ExtendMft
  <2>1. /\ pc \notin InFree /\ pc' \notin InFree
        /\ pc' \in InAlloc => pc \in InAlloc /\ call'.bit = call.bit /\ call'.na = call.na
        /\ UNCHANGED <<disk, mem, names, open, lost>>
        /\ na'.mft_init = na.mft_init /\ bmp \subseteq bmp'
    BY <1>14 DEF ExtendMft, NoFault, IInv, Shapes, SizesOK, disks, vols, inodes, ghosts
  <2> QED
    BY <2>1, NumbersStay
<1>15. CASE ExtendMftFails
  <2>1. /\ pc \notin InFree /\ pc' \notin InFree
        /\ pc' \in InAlloc => pc \in InAlloc /\ call'.bit = call.bit /\ call'.na = call.na
        /\ UNCHANGED <<disk, mem, names, open, lost>>
        /\ na'.mft_init = na.mft_init /\ bmp \subseteq bmp'
    BY <1>15 DEF ExtendMftFails, ExtendFails, NoFault, IInv, Shapes, SizesOK, disks, vols, inodes, ghosts
  <2> QED
    BY <2>1, NumbersStay
<1>16. CASE UpdateSizes
  <2>1. /\ pc \notin InFree /\ pc' \notin InFree
        /\ pc' \in InAlloc => pc \in InAlloc /\ call'.bit = call.bit /\ call'.na = call.na
        /\ UNCHANGED <<disk, mem, names, open, lost>>
        /\ na'.mft_init = na.mft_init /\ bmp \subseteq bmp'
    BY <1>16 DEF UpdateSizes, NoFault, IInv, Shapes, SizesOK, disks, vols, inodes, ghosts
  <2> QED
    BY <2>1, NumbersStay
<1>17. CASE FoundInUse
  <2>1. /\ pc \notin InFree /\ pc' \notin InFree
        /\ pc' \in InAlloc => pc \in InAlloc /\ call'.bit = call.bit /\ call'.na = call.na
        /\ UNCHANGED <<disk, mem, names, open, lost>>
        /\ na'.mft_init = na.mft_init /\ bmp \subseteq bmp'
    BY <1>17 DEF FoundInUse, NoFault, IInv, Shapes, SizesOK, disks, vols, inodes, ghosts
  <2> QED
    BY <2>1, NumbersStay
<1>18. CASE OpenNewFails
  <2>1. /\ pc \notin InFree /\ pc' \notin InFree
        /\ pc' \in InAlloc => pc \in InAlloc /\ call'.bit = call.bit /\ call'.na = call.na
        /\ UNCHANGED <<disk, mem, names, open, lost>>
        /\ na'.mft_init = na.mft_init /\ bmp \subseteq bmp'
    BY <1>18 DEF OpenNewFails, Fault, IInv, Shapes, SizesOK, disks, vols, inodes, ghosts
  <2> QED
    BY <2>1, NumbersStay
<1>19. CASE Format
  <2>1. /\ pc = "format" /\ pc' \in {"sizes", "format"}
        /\ disk' = Blank /\ na' = [na EXCEPT !.mft_init = @ + 1]
        /\ UNCHANGED <<bmp, open, mem, call, names, lost>>
    BY <1>19 DEF Format, NoFault, inodes, ghosts
  <2>2. /\ disk'.used = disk.used \ {na.mft_init}
        /\ disk'.seq = [disk.seq EXCEPT ![na.mft_init] = 1]
        /\ na'.mft_init = na.mft_init + 1
        /\ UNCHANGED <<bmp, mem, names, lost>>
    BY <2>1 DEF Blank, IInv, Shapes, SizesOK
  <2>3. NumberTypes'
    <3>1. disk'.seq = [disk.seq EXCEPT ![na.mft_init] = 1] /\ disk.seq \in [Record -> Nat]
      BY <1>a, <2>2 DEF NumberTypes
    <3>2. disk'.seq \in [Record -> Nat]
      <4>1. 1 \in Nat
        OBVIOUS
      <4> QED
        BY <3>1, <4>1, Zenon
    <3> QED
      BY <1>a, <2>2, <3>2 DEF NumberTypes
  <2>4. Outside'
    BY <1>a, <1>b, <1>d, <2>1, <2>2 DEF Outside, Record
  <2>5. OpenNumbers'
    BY <1>a, <2>1 DEF OpenNumbers
  <2>6. NotAgain'
    BY <1>a, <1>b, <1>d, <2>1, <2>2 DEF Outside, NotAgain, Number, NumberTypes, Record
  <2> QED
    BY <2>3, <2>4, <2>5, <2>6 DEF Numbers
<1>20. CASE FormatFails
  <2>1. /\ pc = "format" /\ pc' = "undo"
        /\ disk' \in {disk, Blank} /\ na' = [na EXCEPT !.mft_init = call.na.mft_init]
        /\ UNCHANGED <<bmp, open, mem, call, names, lost>>
    BY <1>20 DEF FormatFails, Fault, inodes, ghosts
  <2>2. \/ disk' = disk
        \/ /\ disk'.used = disk.used \ {na.mft_init}
           /\ disk'.seq = [disk.seq EXCEPT ![na.mft_init] = 1]
    BY <2>1 DEF Blank
  <2>3. na'.mft_init = call.na.mft_init
    BY <2>1 DEF IInv, Shapes, SizesOK
  <2>4. NumberTypes'
    BY <1>a, <2>1, <2>2 DEF NumberTypes
  <2>5. Outside'
    BY <1>a, <1>b, <1>d, <2>1, <2>3 DEF Outside, Record
  <2>6. OpenNumbers'
    BY <1>a, <2>1 DEF OpenNumbers
  <2>7. NotAgain'
    <3>1. \A r \in Record : r < call.na.mft_init =>
             /\ r < na.mft_init /\ disk'.seq[r] = disk.seq[r]
             /\ r \in disk.used => r \in disk'.used
      <4>1. \A r \in Record : r < call.na.mft_init => r < na.mft_init /\ r # na.mft_init
        BY <1>b, <1>d, <2>1 DEF Record
      <4> QED
        BY <1>a, <2>2, <4>1 DEF NumberTypes
    <3> QED
      BY <1>a, <2>1, <2>3, <3>1 DEF NotAgain, Number
  <2> QED
    BY <2>4, <2>5, <2>6, <2>7 DEF Numbers
<1>21. CASE UpdateSizesFails
  <2>1. /\ pc = "sizes" /\ pc' = "undo"
        /\ na' = [na EXCEPT !.mft_init = call.na.mft_init]
        /\ UNCHANGED <<bmp, disk, open, mem, call, names, lost>>
    BY <1>21 DEF UpdateSizesFails, Fault, disks, inodes, ghosts
  <2>2. na'.mft_init = call.na.mft_init
    BY <2>1 DEF IInv, Shapes, SizesOK
  <2>3. NumberTypes'
    BY <1>a, <2>1 DEF NumberTypes
  <2>4. Outside'
    BY <1>a, <1>b, <1>d, <2>1, <2>2 DEF Outside, Record
  <2>5. OpenNumbers'
    BY <1>a, <2>1 DEF OpenNumbers
  <2>6. NotAgain'
    BY <1>a, <1>b, <1>d, <2>1, <2>2 DEF NotAgain, Number, Record
  <2> QED
    BY <2>3, <2>4, <2>5, <2>6 DEF Numbers
<1>22. CASE OpenNew
  <2>1. /\ pc = "read" /\ pc' = "idle" /\ open' = open \union {call.bit}
        /\ mem'.seq = [mem.seq EXCEPT ![call.bit] = Number(call.bit)]
        /\ names' = [names EXCEPT ![call.bit] = Number(call.bit)]
        /\ lost' = lost \ {call.bit}
        /\ UNCHANGED <<bmp, disk, na>>
    BY <1>22 DEF OpenNew, Return, NoFault, disks, Number
  <2>2. Number(call.bit) \in Nat /\ open \subseteq Record
    BY <1>a, <1>d, <2>1 DEF Number, NumberTypes, IInv, Inodes, Below
  <2>3. NumberTypes'
    BY <1>a, <2>1, <2>2 DEF NumberTypes
  <2>4. Outside'
    BY <1>a, <1>b, <1>d, <2>1 DEF Outside, NumberTypes, Record
  <2>5. OpenNumbers'
    BY <1>a, <1>d, <2>1, <2>2 DEF OpenNumbers, NumberTypes
  <2>6. NotAgain'
    BY <1>a, <1>d, <2>1 DEF NotAgain, Number, NumberTypes
  <2> QED
    BY <2>3, <2>4, <2>5, <2>6 DEF Numbers
<1>23. CASE Undo
  <2>1. /\ pc = "undo" /\ pc' = "idle" /\ bmp' = bmp \ {call.bit}
        /\ UNCHANGED <<disk, na, open, mem, names, lost>>
    BY <1>23 DEF Undo, Return, NoFault, vols, inodes, ghosts
  <2>2. NumberTypes'
    BY <1>a, <2>1 DEF NumberTypes
  <2>3. Outside'
    BY <1>a, <2>1 DEF Outside
  <2>4. OpenNumbers'
    BY <1>a, <2>1 DEF OpenNumbers
  <2>5. NotAgain'
    BY <1>a, <2>1 DEF NotAgain, Number
  <2> QED
    BY <2>2, <2>3, <2>4, <2>5 DEF Numbers
<1>24. CASE UndoFails
  <2>1. /\ pc = "undo" /\ pc' = "idle" /\ bmp' \in {bmp, bmp \ {call.bit}}
        /\ UNCHANGED <<disk, na, open, mem, names, lost>>
    BY <1>24 DEF UndoFails, Return, Fault, vols, inodes
  <2>2. NumberTypes'
    BY <1>a, <2>1 DEF NumberTypes
  <2>3. Outside'
    BY <1>a, <2>1 DEF Outside
  <2>4. OpenNumbers'
    BY <1>a, <2>1 DEF OpenNumbers
  <2>5. NotAgain'
    BY <1>a, <2>1 DEF NotAgain, Number
  <2> QED
    BY <2>2, <2>3, <2>4, <2>5 DEF Numbers
<1>25. CASE FreeSync
  <2>1. /\ pc = "free_sync" /\ pc' = "free_clear" /\ disk' = CopyTo(disk, mem, call.bit)
        /\ UNCHANGED <<bmp, na, open, mem, call, names, lost>>
    BY <1>25 DEF FreeSync, NoFault, vols, ghosts
  <2>2. /\ disk'.used = disk.used \ {call.bit}
        /\ disk'.seq = [disk.seq EXCEPT ![call.bit] = mem.seq[call.bit]]
    BY <2>1 DEF CopyTo, IInv, Freeing
  <2>3. /\ call.bit \in Record /\ names[call.bit] \in Nat /\ mem.seq[call.bit] \in Nat
        /\ call.seq = names[call.bit]
        /\ mem.seq[call.bit] = NextSeq(call.seq)
        /\ names[call.bit] # 0 => mem.seq[call.bit] # 0 /\ mem.seq[call.bit] # names[call.bit]
    BY <1>c, <2>1
  <2>4. NumberTypes'
    BY <1>a, <2>1, <2>2, <2>3 DEF NumberTypes
  <2>5. Outside'
    BY <1>a, <2>1 DEF Outside
  <2>6. OpenNumbers'
    BY <1>a, <2>1, <2>2, <2>3 DEF OpenNumbers, NumberTypes
  <2>7. NotAgain'
    BY <1>a, <2>1, <2>2, <2>3 DEF NotAgain, Number, NumberTypes
  <2> QED
    BY <2>4, <2>5, <2>6, <2>7 DEF Numbers
<1>26. CASE FreeSyncFails
  <2>1. /\ pc = "free_sync" /\ pc' = "idle" /\ disk' \in {disk, CopyTo(disk, mem, call.bit)}
        /\ mem'.seq = [mem.seq EXCEPT ![call.bit] = call.seq]
        /\ UNCHANGED <<bmp, na, open, names, lost>>
    BY <1>26 DEF FreeSyncFails, Rollback, Return, Fault, vols
  <2>2. \/ disk' = disk
        \/ /\ disk'.used = disk.used \ {call.bit}
           /\ disk'.seq = [disk.seq EXCEPT ![call.bit] = mem.seq[call.bit]]
    BY <2>1 DEF CopyTo, IInv, Freeing
  <2>3. /\ call.bit \in Record /\ names[call.bit] \in Nat /\ mem.seq[call.bit] \in Nat
        /\ call.seq = names[call.bit]
        /\ names[call.bit] # 0 => mem.seq[call.bit] # 0 /\ mem.seq[call.bit] # names[call.bit]
    BY <1>c, <2>1
  <2>4. NumberTypes'
    BY <1>a, <2>1, <2>2, <2>3 DEF NumberTypes
  <2>5. Outside'
    BY <1>a, <2>1 DEF Outside
  <2>6. OpenNumbers'
    BY <1>a, <2>1, <2>3 DEF OpenNumbers, NumberTypes
  <2>7. NotAgain'
    BY <1>a, <2>1, <2>2, <2>3 DEF NotAgain, Number, NumberTypes
  <2> QED
    BY <2>4, <2>5, <2>6, <2>7 DEF Numbers
<1>27. CASE FreeClear
  <2>1. /\ pc = "free_clear" /\ pc' = "idle" /\ bmp' = bmp \ {call.bit} /\ open' = open \ {call.bit}
        /\ UNCHANGED <<disk, na, mem, names, lost>>
    BY <1>27 DEF FreeClear, Return, NoFault, vols
  <2>2. /\ call.bit \in Record
        /\ names[call.bit] # 0 => disk.seq[call.bit] # 0 /\ disk.seq[call.bit] # names[call.bit]
    BY <1>c, <2>1
  <2>3. NumberTypes'
    BY <1>a, <2>1 DEF NumberTypes
  <2>4. Outside'
    BY <1>a, <2>1 DEF Outside
  <2>5. OpenNumbers'
    BY <1>a, <2>1 DEF OpenNumbers
  <2>6. NotAgain'
    BY <1>a, <2>1, <2>2 DEF NotAgain, Number
  <2> QED
    BY <2>3, <2>4, <2>5, <2>6 DEF Numbers
<1>28. CASE FreeClearFails
  <2>1. /\ pc = "free_clear" /\ pc' = "free_undo" /\ bmp' \in {bmp, bmp \ {call.bit}}
        /\ UNCHANGED <<disk, na, open, mem, call, names, lost>>
    BY <1>28 DEF FreeClearFails, Fault, vols, inodes, ghosts
  <2>2. /\ call.bit \in Record
        /\ names[call.bit] # 0 => disk.seq[call.bit] # 0 /\ disk.seq[call.bit] # names[call.bit]
    BY <1>c, <2>1
  <2>3. NumberTypes'
    BY <1>a, <2>1 DEF NumberTypes
  <2>4. Outside'
    BY <1>a, <2>1 DEF Outside
  <2>5. OpenNumbers'
    BY <1>a, <2>1 DEF OpenNumbers
  <2>6. NotAgain'
    BY <1>a, <2>1, <2>2 DEF NotAgain, Number
  <2> QED
    BY <2>3, <2>4, <2>5, <2>6 DEF Numbers
<1>29. CASE FreeUndo
  <2>1. /\ pc = "free_undo" /\ pc' = "idle" /\ bmp \subseteq bmp'
        /\ mem'.seq = [mem.seq EXCEPT ![call.bit] = call.seq]
        /\ UNCHANGED <<disk, na, open, names, lost>>
    BY <1>29 DEF FreeUndo, Rollback, Return, NoFault, vols
  <2>2. /\ call.bit \in Record
        /\ names[call.bit] \in Nat /\ call.seq = names[call.bit]
    BY <1>c, <2>1
  <2>3. NumberTypes'
    BY <1>a, <2>1, <2>2 DEF NumberTypes
  <2>4. Outside'
    BY <1>a, <2>1 DEF Outside
  <2>5. OpenNumbers'
    BY <1>a, <2>1, <2>2 DEF OpenNumbers, NumberTypes
  <2>6. NotAgain'
    BY <1>a, <2>1 DEF NotAgain, Number
  <2> QED
    BY <2>3, <2>4, <2>5, <2>6 DEF Numbers
<1>30. CASE FreeUndoFails
  <2>1. /\ pc = "free_undo" /\ pc' = "idle" /\ bmp \subseteq bmp'
        /\ mem'.seq = [mem.seq EXCEPT ![call.bit] = call.seq]
        /\ UNCHANGED <<disk, na, open, names, lost>>
    BY <1>30 DEF FreeUndoFails, Rollback, Return, Fault, vols
  <2>2. /\ call.bit \in Record
        /\ names[call.bit] \in Nat /\ call.seq = names[call.bit]
    BY <1>c, <2>1
  <2>3. NumberTypes'
    BY <1>a, <2>1, <2>2 DEF NumberTypes
  <2>4. Outside'
    BY <1>a, <2>1 DEF Outside
  <2>5. OpenNumbers'
    BY <1>a, <2>1, <2>2 DEF OpenNumbers, NumberTypes
  <2>6. NotAgain'
    BY <1>a, <2>1 DEF NotAgain, Number
  <2> QED
    BY <2>3, <2>4, <2>5, <2>6 DEF Numbers
<1>31. CASE Remount
  <2>1. /\ pc = "idle" /\ pc' = "idle" /\ na' = na /\ open' = {}
        /\ bmp' = bmp \intersect Below(na.bmp_init)
        /\ UNCHANGED <<disk, mem, names, lost>>
    BY <1>31 DEF Remount, Load, NoFault, ghosts
  <2>2. NumberTypes'
    BY <1>a, <2>1 DEF NumberTypes
  <2>3. Outside'
    BY <1>a, <2>1 DEF Outside
  <2>4. OpenNumbers'
    BY <2>1 DEF OpenNumbers
  <2>5. NotAgain'
    BY <1>a, <1>b, <2>1 DEF NotAgain, Number, Below, Record
  <2> QED
    BY <2>2, <2>3, <2>4, <2>5 DEF Numbers
<1>32. CASE Crash
  <2>1. /\ pc' = "idle" /\ na' = disk_na /\ open' = {}
        /\ bmp' = bmp \intersect Below(disk_na.bmp_init)
        /\ lost' = lost \union (Below(na.mft_init) \ Below(disk_na.mft_init))
        /\ UNCHANGED <<disk, mem, names>>
    BY <1>32 DEF Crash, Load
  <2>2. NumberTypes'
    BY <1>a, <2>1 DEF NumberTypes
  <2>3. Outside'
    BY <1>a, <1>b, <2>1 DEF Outside, Below, Record
  <2>4. OpenNumbers'
    BY <2>1 DEF OpenNumbers
  <2>5. NotAgain'
    BY <1>a, <1>b, <2>1 DEF NotAgain, Number, Below, Record
  <2> QED
    BY <2>2, <2>3, <2>4, <2>5 DEF Numbers
<1>33. CASE UNCHANGED vars
  <2>1. UNCHANGED <<bmp, disk, na, open, mem, pc, call, names, lost>>
    BY <1>33 DEF vars, disks, vols, inodes, ghosts
  <2> QED
    BY <2>1 DEF Numbers, NumberTypes, Outside, OpenNumbers, NotAgain, Number
<1> QED
  BY <1>1, <1>2, <1>3, <1>4, <1>5, <1>6, <1>7, <1>8, <1>9, <1>10, <1>11, <1>12, <1>13, <1>14, <1>15, <1>16, <1>17, <1>18, <1>19, <1>20, <1>21, <1>22, <1>23, <1>24, <1>25, <1>26, <1>27, <1>28, <1>29, <1>30, <1>31, <1>32, <1>33 DEF Next, Step
-----------------------------------------------------------------------------
(* A record that is in use, on disk or in an open inode, has its bit,      *)
(* through every failure, roll back and crash of ntfs_mft_record_alloc,    *)
(* ntfs_mft_record_free, ntfs_inode_sync and ntfs_inode_close; and an      *)
(* allocation that fails keeps no bit.                                     *)
THEOREM UsedRecordsHaveBits == Spec => []BitsFollowRecords
<1>1. IInv => BitsFollowRecords
  BY DEF IInv
<1> QED
  BY <1>1, InitHolds, NextHolds, MftAssumption, PTL DEF Spec

(* The record ntfs_mft_record_alloc comes to format is one for users, and  *)
(* neither in use on disk nor open.                                        *)
THEOREM OnlyFreeRecords == Spec => []HandsOutFreeRecords
<1>1. IInv => HandsOutFreeRecords
  <2> SUFFICES ASSUME IInv, pc = "read"
               PROVE  /\ call.bit >= FirstUser
                      /\ call.bit \in open \union disk.used => call.bit \in exposed
    BY DEF HandsOutFreeRecords
  <2>1. Allocating /\ Shapes /\ open \subseteq Below(call.na.mft_init)
    BY DEF IInv, Allocating, InAlloc
  <2>2. call.bit >= FirstUser
    BY <2>1, MftAssumption DEF Allocating, InAlloc, Shapes, MftAssumption
  <2> QED
    BY <2>1, <2>2 DEF Allocating, InAlloc, Shapes, SizesOK, Below
<1> QED
  BY <1>1, InitHolds, NextHolds, MftAssumption, PTL DEF Spec

(* A record is never handed out twice in a row with the same sequence      *)
(* number, whatever failed between ntfs_mft_record_free and the next       *)
(* ntfs_mft_record_alloc: a reference to a deleted file does not come to   *)
(* name the file that gets its record.                                     *)
THEOREM OldReferencesDie == Spec => StaleReferencesDie
<1>1. IInv /\ Numbers /\ [Next]_vars
        => [\A r \in Record : r \in open' \ open /\ pc = "read" /\ names[r] # 0
              => names'[r] # names[r] \/ r \in lost]_vars
  <2> SUFFICES ASSUME IInv, Numbers, Next, NEW r \in Record,
                      r \in open' \ open, pc = "read", names[r] # 0, r \notin lost
               PROVE  names'[r] # names[r]
    OBVIOUS
  <2>1. OpenNew
    BY DEF Next, Step, Alloc, AllocReadFails, Free, Open, Sync, SyncFails, Close, ExtendBmp, ExtendBmpFails, ExtendFails,
           InitBmp, InitBmpFails, SetBit, SetBitFails, ExtendMft, ExtendMftFails, Format, FormatFails, UpdateSizes,
           UpdateSizesFails, FoundInUse, OpenNewFails, Undo, UndoFails, FreeSync, FreeSyncFails, FreeClear, FreeClearFails,
           FreeUndo, FreeUndoFails, Remount, Crash, Load, inodes
  <2>2. r = call.bit /\ r \notin disk.used /\ names'[r] = Number(r)
    <3>1. /\ open' = open \union {call.bit} /\ call.bit \notin disk.used
          /\ names' = [names EXCEPT ![call.bit] = Number(call.bit)]
      BY <2>1 DEF OpenNew, Number
    <3> QED
      BY <3>1 DEF Numbers, NumberTypes
  <2>3. r < na.mft_init
    BY <2>2 DEF IInv, Allocating, InAlloc
  <2>4. NotAgain
    BY DEF Numbers
  <2> QED
    BY <2>2, <2>3, <2>4 DEF NotAgain, InAlloc
<1> QED
  BY <1>1, InitHolds, NextHolds, InitNumbers, NextNumbers, MftAssumption, PTL DEF Spec, StaleReferencesDie
=============================================================================
