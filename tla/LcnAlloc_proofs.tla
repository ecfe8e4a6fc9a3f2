--------------------------- MODULE LcnAlloc_proofs ---------------------------
(***************************************************************************)
(* Theorems about the cluster allocator, for every volume, every window    *)
(* and any number of calls and faults: nothing is handed out twice, the    *)
(* bitmap accounts for every cluster, a refusal means that the volume is   *)
(* full, the mft zone is taken last, and the allocator is a cluster store. *)
(***************************************************************************)
EXTENDS LcnAlloc, NatSetLemmas

USE DEF NoHint

(* The loop that halves the mft zone ends with a zone inside the volume.   *)
LEMMA ZoneSize == MftZoneSize \in Nat /\ MftLcn + MftZoneSize < NrClusters
<1> DEFINE nominal == NrClusters \div 8
           halvings == {n \in 0 .. nominal :
                          n = 0 \/ \E k \in 0 .. NrClusters : n = nominal \div 2^k}
           F == {n \in halvings : MftLcn + n < NrClusters}
<1>1. nominal \in Nat
  BY VolumeAssumption
<1>2. F \in SUBSET Nat /\ \A l \in F : l <= nominal
  BY <1>1
<1>3. 0 \in F
  BY <1>1, VolumeAssumption
<1>5. MftZoneSize = Largest(F)
  BY DEF MftZoneSize
<1>6. \A x \in F : x \in Nat /\ MftLcn + x < NrClusters
  BY <1>2
<1> HIDE DEF nominal, halvings, F
<1>4. Largest(F) \in F
  BY <1>1, <1>2, <1>3, LargestIsGreatest
<1> QED
  BY <1>4, <1>5, <1>6

(* The window starts at or before the position and ends behind it, inside  *)
(* the bitmap.                                                             *)
LEMMA WindowBounds ==
    ASSUME bmp_pos \in Nat, bmp_pos < BitmapBits
    PROVE  /\ WindowStart \in Nat /\ WindowStart <= bmp_pos
           /\ WindowEnd \in Nat /\ bmp_pos < WindowEnd /\ WindowEnd <= BitmapBits
<1>1. WindowStart \in Nat /\ WindowStart <= bmp_pos /\ bmp_pos < WindowStart + 8
  BY DEF WindowStart
<1>2. 8 <= 8 * WindowBytes /\ 8 * WindowBytes \in Nat /\ BitmapBits \in Nat
  BY VolumeAssumption DEF BitmapBits
<1> QED
  BY <1>1, <1>2 DEF WindowEnd

(* What a call takes from a window are free clusters of its search range.  *)
LEMMA InWindowFree ==
    ASSUME TypeOK
    PROVE  /\ InWindow \subseteq Cluster
           /\ InWindow \intersect bmp = {}
           /\ \A l \in InWindow : bmp_pos <= l /\ l < zone_end
           /\ LastOf(InWindow) \in -1 .. NrClusters - 1
<1>1. \A l \in InWindow : l \in Window /\ l \notin bmp
  BY DEF InWindow, Lowest, FreeInWindow
<1>2. \A l \in Window : l \in Nat /\ bmp_pos <= l /\ l < zone_end
  BY DEF Window, TypeOK, SearchTypeOK
<1>3. zone_end \in 0 .. NrClusters /\ NrClusters \in Nat
  BY VolumeAssumption DEF TypeOK, SearchTypeOK
<1>4. InWindow \subseteq Cluster
  BY <1>1, <1>2, <1>3 DEF Cluster
<1>5. LastOf(InWindow) \in -1 .. NrClusters - 1
  <2>1. CASE InWindow = {}
    BY <2>1 DEF LastOf, TypeOK, SearchTypeOK
  <2>2. CASE InWindow # {}
    <3>1. \A l \in Cluster : l \in Nat /\ l <= NrClusters
      BY <1>3 DEF Cluster
    <3>2. Largest(InWindow) \in InWindow
      BY <1>3, <1>4, <2>2, <3>1, LargestIsGreatest
    <3>3. LastOf(InWindow) \in Cluster
      BY <1>4, <2>2, <3>2 DEF LastOf
    <3> QED
      BY <1>3, <3>3 DEF Cluster
  <2> QED
    BY <2>1, <2>2
<1> QED
  BY <1>1, <1>2, <1>4, <1>5
-----------------------------------------------------------------------------
LEMMA TypeInit == Init => TypeOK
<1> SUFFICES ASSUME Init PROVE TypeOK
  OBVIOUS
<1> USE VolumeAssumption, CallAssumption
<1>1. DiskTypeOK
  BY DEF Init, DiskTypeOK, Padding, Cluster, BitmapBits
<1>2. ZonesTypeOK
  BY ZoneSize DEF Init, InitZones, StartZone, ZonesTypeOK
<1>3. CallTypeOK
  BY DEF Init, CallTypeOK, NoRequest, AllocZones
<1>4. SearchTypeOK
  BY DEF Init, SearchTypeOK, Zones, BitmapBits
<1> QED
  BY <1>1, <1>2, <1>3, <1>4 DEF TypeOK

(* A call that returns leaves canonical locals behind.                     *)
LEMMA ReturnType ==
    ASSUME Return
    PROVE  /\ SearchTypeOK'
           /\ pc' = "idle" /\ err' = "none"
           /\ req' \in [zone : AllocZones, count : Nat, hint : Int]
BY VolumeAssumption DEF Return, SearchTypeOK, NoRequest, AllocZones, Zones, BitmapBits

LEMMA ZonePosType ==
    ASSUME ZonesTypeOK, NEW tc \in 0 .. NrClusters
    PROVE  /\ NextMftPos(tc) \in 0 .. NrClusters
           /\ NextData1Pos(tc) \in 0 .. NrClusters
           /\ NextData2Pos(tc) \in 0 .. NrClusters
           /\ UpdateZonePos(tc) => ZonesTypeOK'
<1> USE VolumeAssumption DEF ZonesTypeOK
<1>1. NextMftPos(tc) \in 0 .. NrClusters
  BY DEF NextMftPos
<1>2. NextData1Pos(tc) \in 0 .. NrClusters
  BY DEF NextData1Pos
<1>3. NextData2Pos(tc) \in 0 .. NrClusters
  BY DEF NextData2Pos
<1> QED
  BY <1>1, <1>2, <1>3 DEF UpdateZonePos

LEMMA RemountType == Remount => ZonesTypeOK'
BY VolumeAssumption, ZoneSize DEF Remount, StartZone, ZonesTypeOK

LEMMA TypeStep == TypeOK /\ [Next]_vars => TypeOK'
<1> SUFFICES ASSUME TypeOK, [Next]_vars PROVE TypeOK'
  OBVIOUS
<1> USE VolumeAssumption, CallAssumption
<1> USE DEF TypeOK
<1>a. ASSUME pc = "scan", bmp_pos < BitmapBits
      PROVE  /\ WindowStart \in 0 .. BitmapBits /\ WindowEnd \in 0 .. BitmapBits
  <2>1. bmp_pos \in Nat
    BY DEF SearchTypeOK
  <2> QED
    BY <1>a, <2>1, WindowBounds DEF BitmapBits
<1>b. /\ InWindow \subseteq Cluster
      /\ LastOf(InWindow) \in -1 .. NrClusters - 1
      /\ LastOf(InWindow) + 1 \in 0 .. NrClusters
  BY InWindowFree
<1>c. Cluster \subseteq 0 .. BitmapBits - 1
  BY DEF Cluster, BitmapBits
<1>d. last + 1 \in 0 .. NrClusters
  BY DEF SearchTypeOK
<1>e. \A x \in 0 .. NrClusters : x \in 0 .. BitmapBits
  BY DEF BitmapBits
<1>1. ASSUME NEW zone \in AllocZones, NEW count \in Counts, NEW hint \in Hints,
             Alloc(zone, count, hint)
      PROVE  TypeOK'
  <2>1. StartPos(zone, hint) \in 0 .. NrClusters
    BY DEF StartPos, ZonesTypeOK, AllocZones
  <2>2. \A z \in Zones : ZoneLimit(z) \in 0 .. NrClusters
    BY DEF ZoneLimit, ZonesTypeOK, Zones
  <2>3. \A z : StartSearch(zone, z) \in Zones /\ StartPass(zone, hint) \in {1, 2}
    BY DEF StartSearch, StartPass, Zones
  <2>4. DiskTypeOK' /\ ZonesTypeOK'
    BY <1>1 DEF Alloc, DiskTypeOK, ZonesTypeOK, disk, zones
  <2>5. CallTypeOK'
    BY <1>1 DEF Alloc, CallTypeOK
  <2>6. SearchTypeOK'
    BY <1>1, <1>e, <2>1, <2>2, <2>3 DEF Alloc, SearchTypeOK, Zones
  <2> QED
    BY <2>4, <2>5, <2>6
<1>2. CASE ScanPastEnd
  BY <1>2 DEF ScanPastEnd, disk, zones, search, DiskTypeOK, ZonesTypeOK,
              CallTypeOK, SearchTypeOK
<1>3. CASE ScanWindow
  BY <1>3, <1>a, <1>b, <1>c DEF ScanWindow, zones, DiskTypeOK, ZonesTypeOK,
              CallTypeOK, SearchTypeOK
<1>4. CASE ScanCompletes
  <2>1. ZonesTypeOK'
    BY <1>4, <1>b, ZonePosType DEF ScanCompletes
  <2>2. DiskTypeOK'
    BY <1>4, <1>b, <1>c DEF ScanCompletes, DiskTypeOK, SearchTypeOK
  <2> QED
    BY <1>4, <2>1, <2>2, ReturnType DEF ScanCompletes, CallTypeOK
<1>5. CASE ScanReadFails
  BY <1>5 DEF ScanReadFails, Fault, disk, zones, search, DiskTypeOK,
              ZonesTypeOK, CallTypeOK, SearchTypeOK
<1>6. CASE ScanWriteFails
  <2>1. ZonesTypeOK'
    <3>1. CASE Completes
      BY <1>6, <1>b, <3>1, ZonePosType DEF ScanWriteFails
    <3>2. CASE ~Completes
      BY <1>6, <3>2 DEF ScanWriteFails, zones, ZonesTypeOK
    <3> QED
      BY <3>1, <3>2
  <2>2. DiskTypeOK'
    BY <1>6, <1>b, <1>c DEF ScanWriteFails, DiskTypeOK
  <2>3. CallTypeOK'
    BY <1>6 DEF ScanWriteFails, Fault, CallTypeOK
  <2>4. SearchTypeOK'
    BY <1>6, <1>a, <1>b DEF ScanWriteFails, SearchTypeOK
  <2> QED
    BY <2>1, <2>2, <2>3, <2>4
<1>7. CASE ScanNoMemory
  <2>1. PICK full \in InWindow, byte \in 0 .. WindowBytes :
          LET before == {l \in InWindow : l < full}
              written == {l \in before : l < WindowStart + 8 * byte}
          IN  /\ bmp' = bmp \union written
              /\ taken' = taken \union before
              /\ last' = LastOf(before)
              /\ err' = IF written = before THEN "ENOMEM" ELSE "EIO"
    BY <1>7 DEF ScanNoMemory
  <2> DEFINE before == {l \in InWindow : l < full}
  <2>2. last' \in -1 .. NrClusters - 1
    <3>1. \A l \in Cluster : l \in Nat /\ l <= NrClusters
      BY DEF Cluster
    <3>2. before \subseteq Cluster
      BY <1>b
    <3>3. before # {} => Largest(before) \in before
      BY <3>1, <3>2, LargestIsGreatest
    <3>4. last \in -1 .. NrClusters - 1
      BY DEF SearchTypeOK
    <3> QED
      BY <2>1, <3>2, <3>3, <3>4 DEF LastOf, Cluster
  <2>3. DiskTypeOK'
    BY <1>7, <1>b, <1>c, <2>1 DEF ScanNoMemory, DiskTypeOK
  <2>4. ZonesTypeOK' /\ CallTypeOK'
    BY <1>7, <2>1 DEF ScanNoMemory, Fault, zones, ZonesTypeOK, CallTypeOK
  <2>5. SearchTypeOK'
    BY <1>7, <1>a, <1>b, <2>1, <2>2 DEF ScanNoMemory, SearchTypeOK
  <2> QED
    BY <2>3, <2>4, <2>5
<1>8. CASE SecondPass
  <2>1. ZoneBase(search_zone) \in 0 .. NrClusters
    BY DEF ZoneBase, ZonesTypeOK, SearchTypeOK, Zones
  <2> QED
    BY <1>8, <1>e, <2>1 DEF SecondPass, disk, zones, DiskTypeOK, ZonesTypeOK,
                      CallTypeOK, SearchTypeOK
<1>9. CASE EndOfZone
  BY <1>9 DEF EndOfZone, disk, zones, search, DiskTypeOK, ZonesTypeOK,
              CallTypeOK, SearchTypeOK
<1>10. CASE SwitchToData1
  <2>1. ZonesTypeOK'
    BY <1>10, <1>d, ZonePosType DEF SwitchToData1, Moved, ZonesTypeOK
  <2>2. SearchTypeOK'
    BY <1>10, <1>e DEF SwitchToData1, ZonesTypeOK, SearchTypeOK, Finished, Zones
  <2> QED
    BY <1>10, <2>1, <2>2 DEF SwitchToData1, disk, DiskTypeOK, CallTypeOK
<1>11. CASE SwitchToData2
  <2>1. ZonesTypeOK'
    BY <1>11, <1>d, ZonePosType DEF SwitchToData2, Moved, ZonesTypeOK
  <2>2. SearchTypeOK'
    BY <1>11, <1>e DEF SwitchToData2, ZonesTypeOK, SearchTypeOK, Finished, Zones
  <2> QED
    BY <1>11, <2>1, <2>2 DEF SwitchToData2, disk, DiskTypeOK, CallTypeOK
<1>12. CASE NoSpace
  BY <1>12 DEF NoSpace, Finished, disk, zones, DiskTypeOK, ZonesTypeOK,
               CallTypeOK, SearchTypeOK
<1>13. CASE ShrinkMftZone
  <2> DEFINE size == (mft_zone_end - mft_zone_start) \div 2
  <2>1. /\ size \in Nat /\ mft_zone_start + size \in 0 .. NrClusters
    BY <1>13 DEF ShrinkMftZone, ZonesTypeOK
  <2> HIDE DEF size
  <2>2. mft_zone_start' \in 0 .. NrClusters /\ mft_zone_end' \in 0 .. NrClusters
        /\ data1_zone_pos' = mft_zone_end' /\ data2_zone_pos' \in 0 .. NrClusters
        /\ mft_zone_pos' \in 0 .. NrClusters
    BY <1>13, <2>1 DEF ShrinkMftZone, ZonesTypeOK, size
  <2>3. ZonesTypeOK'
    BY <2>2 DEF ZonesTypeOK
  <2>4. SearchTypeOK'
    BY <1>13, <1>e, <2>2 DEF ShrinkMftZone, SearchTypeOK, ZonesTypeOK, Finished, Zones
  <2> QED
    BY <1>13, <2>3, <2>4 DEF ShrinkMftZone, disk, DiskTypeOK, CallTypeOK
<1>14. CASE Undo
  BY <1>14, ReturnType DEF Undo, zones, DiskTypeOK, ZonesTypeOK, CallTypeOK
<1>15. CASE UndoFails
  <2>1. DiskTypeOK'
    BY <1>15 DEF UndoFails, DiskTypeOK, SearchTypeOK
  <2> QED
    BY <1>15, <2>1, ReturnType DEF UndoFails, Fault, zones, ZonesTypeOK,
                                   CallTypeOK
<1>16. ASSUME NEW S \in Ranges, Free(S) PROVE TypeOK'
  <2>1. DiskTypeOK'
    BY <1>16 DEF Free, DiskTypeOK
  <2> QED
    BY <1>16, <2>1 DEF Free, zones, search, ZonesTypeOK, CallTypeOK, SearchTypeOK
<1>17. ASSUME NEW S \in Ranges, FreeFails(S) PROVE TypeOK'
  <2>1. S \subseteq owned /\ \A P \in Prefixes(S) : P \subseteq S
    BY DEF Ranges, Prefixes
  <2>2. DiskTypeOK'
    BY <1>17, <2>1 DEF FreeFails, DiskTypeOK
  <2> QED
    BY <1>17, <2>2 DEF FreeFails, Fault, zones, search, ZonesTypeOK,
                       CallTypeOK, SearchTypeOK
<1>18. CASE CrashInAlloc
  BY <1>18, ReturnType, RemountType DEF CrashInAlloc, Fault, DiskTypeOK,
                                        CallTypeOK, SearchTypeOK
<1>19. ASSUME NEW S \in Ranges, CrashInFree(S) PROVE TypeOK'
  <2>1. S \subseteq owned /\ \A P \in Prefixes(S) : P \subseteq S
    BY DEF Ranges, Prefixes
  <2>2. DiskTypeOK'
    BY <1>19, <2>1 DEF CrashInFree, DiskTypeOK
  <2> QED
    BY <1>19, <2>2, RemountType DEF CrashInFree, Fault, search,
                                    CallTypeOK, SearchTypeOK
<1>20. CASE UNCHANGED vars
  BY <1>20 DEF vars, disk, zones, search, DiskTypeOK, ZonesTypeOK, CallTypeOK,
               SearchTypeOK
<1> QED
  BY <1>1, <1>2, <1>3, <1>4, <1>5, <1>6, <1>7, <1>8, <1>9, <1>10, <1>11,
     <1>12, <1>13, <1>14, <1>15, <1>16, <1>17, <1>18, <1>19, <1>20
     DEF Next, AllocStep

(* In every reachable state the variables have their types: in particular  *)
(* no position of a zone or of a search leaves the volume.                 *)
THEOREM TypeCorrect == Spec => []TypeOK
<1> QED
  BY TypeInit, TypeStep, PTL DEF Spec
-----------------------------------------------------------------------------
(* What keeps $Bitmap and the owners in agreement: the runlist being built *)
(* is disjoint from what others own, its bits are on disk while the scan   *)
(* runs, and there is none between calls.                                  *)
Accounts == /\ NoDoubleAllocation
            /\ BitmapMatchesOwners
            /\ pc = "idle" => taken = {}

LEMMA AccountsInit == Init => Accounts
<1> SUFFICES ASSUME Init PROVE Accounts
  OBVIOUS
<1>1. /\ owned \subseteq Cluster /\ bmp = owned \union Padding
      /\ exposed = {} /\ lost = {} /\ taken = {}
  BY CallAssumption DEF Init
<1>2. Padding \intersect Cluster = {}
  BY VolumeAssumption DEF Padding, Cluster
<1> QED
  BY <1>1, <1>2 DEF Accounts, NoDoubleAllocation, BitmapMatchesOwners

(* Steps that leave the disk and the runlist alone.                        *)
LEMMA AccountsKept ==
    ASSUME Accounts, UNCHANGED <<disk, taken>>, pc # "idle", pc' # "idle",
           pc' = "undo" \/ pc # "undo"
    PROVE  Accounts'
BY DEF Accounts, NoDoubleAllocation, BitmapMatchesOwners, disk

(* Steps of the scan: free clusters are added to the runlist and some of   *)
(* their bits, all of them unless the call is about to be undone, reach    *)
(* the disk.                                                               *)
LEMMA AccountsScan ==
    ASSUME TypeOK, Accounts, pc = "scan", UNCHANGED <<owned, exposed, lost>>,
           NEW new \in SUBSET InWindow, NEW written \in SUBSET new,
           taken' = taken \union new, bmp' = bmp \union written,
           pc' \in {"scan", "pass_done", "undo"},
           pc' = "undo" \/ written = new
    PROVE  Accounts'
<1>1. new \subseteq Cluster /\ new \intersect bmp = {}
  BY InWindowFree
<1>2. new \intersect owned \subseteq exposed /\ new \intersect lost = {}
  BY <1>1 DEF Accounts, BitmapMatchesOwners
<1>3. NoDoubleAllocation'
  BY <1>2 DEF Accounts, NoDoubleAllocation
<1>4. taken \subseteq bmp
  BY DEF Accounts, BitmapMatchesOwners
<1>5. BitmapMatchesOwners'
  BY <1>1, <1>4 DEF Accounts, BitmapMatchesOwners
<1> QED
  BY <1>3, <1>5 DEF Accounts

LEMMA AccountsStep == TypeOK /\ Accounts /\ [Next]_vars => Accounts'
<1> SUFFICES ASSUME TypeOK, Accounts, [Next]_vars PROVE Accounts'
  OBVIOUS
<1>a. Padding \intersect Cluster = {}
  BY VolumeAssumption DEF Padding, Cluster
<1>b. taken \subseteq Cluster /\ exposed \subseteq owned /\ owned \subseteq Cluster
  BY DEF TypeOK, DiskTypeOK, SearchTypeOK
<1>c. ASSUME NEW S \in Ranges
      PROVE  S \subseteq owned /\ \A P \in Prefixes(S) : P \subseteq S
  BY DEF Ranges, Prefixes
<1>1. ASSUME NEW zone \in AllocZones, NEW count \in Counts, NEW hint \in Hints,
             Alloc(zone, count, hint)
      PROVE  Accounts'
  BY <1>1 DEF Alloc, Accounts, NoDoubleAllocation, BitmapMatchesOwners, disk
<1>2. CASE ScanPastEnd
  BY <1>2, AccountsKept DEF ScanPastEnd
<1>3. CASE ScanWindow
  BY <1>3, AccountsScan DEF ScanWindow
<1>4. CASE ScanCompletes
  <2>1. /\ pc = "scan" /\ pc' = "idle" /\ taken' = {}
        /\ bmp' = bmp \union InWindow /\ owned' = owned \union taken \union InWindow
        /\ UNCHANGED <<exposed, lost>>
    BY <1>4 DEF ScanCompletes, Return
  <2>2. InWindow \intersect bmp = {} /\ InWindow \subseteq Cluster
    BY InWindowFree
  <2> QED
    BY <1>a, <1>b, <2>1, <2>2 DEF Accounts, NoDoubleAllocation, BitmapMatchesOwners
<1>5. CASE ScanReadFails
  BY <1>5, AccountsKept DEF ScanReadFails
<1>6. CASE ScanWriteFails
  <2>1. PICK byte \in 0 .. WindowBytes :
          bmp' = bmp \union {l \in InWindow : l < WindowStart + 8 * byte}
    BY <1>6 DEF ScanWriteFails
  <2> DEFINE written == {l \in InWindow : l < WindowStart + 8 * byte}
  <2>2. written \in SUBSET InWindow /\ bmp' = bmp \union written
    BY <2>1
  <2> HIDE DEF written
  <2> QED
    BY <1>6, <2>2, AccountsScan DEF ScanWriteFails
<1>7. CASE ScanNoMemory
  <2>1. PICK full \in InWindow, byte \in 0 .. WindowBytes :
          LET before == {l \in InWindow : l < full}
              written == {l \in before : l < WindowStart + 8 * byte}
          IN  /\ bmp' = bmp \union written
              /\ taken' = taken \union before
    BY <1>7 DEF ScanNoMemory
  <2> QED
    BY <1>7, <2>1, AccountsScan DEF ScanNoMemory
<1>8. CASE SecondPass
  BY <1>8, AccountsKept DEF SecondPass
<1>9. CASE EndOfZone
  BY <1>9, AccountsKept DEF EndOfZone
<1>10. CASE SwitchToData1
  BY <1>10, AccountsKept DEF SwitchToData1
<1>11. CASE SwitchToData2
  BY <1>11, AccountsKept DEF SwitchToData2
<1>12. CASE NoSpace
  BY <1>12, AccountsKept DEF NoSpace
<1>13. CASE ShrinkMftZone
  BY <1>13, AccountsKept DEF ShrinkMftZone
<1>14. CASE Undo
  <2>1. /\ pc = "undo" /\ pc' = "idle" /\ taken' = {} /\ bmp' = bmp \ taken
        /\ UNCHANGED <<owned, exposed, lost>>
    BY <1>14 DEF Undo, Return
  <2> QED
    BY <1>a, <1>b, <2>1 DEF Accounts, NoDoubleAllocation, BitmapMatchesOwners
<1>15. CASE UndoFails
  <2>1. PICK cleared \in SUBSET taken :
          /\ bmp' = bmp \ cleared
          /\ lost' = lost \union ((bmp \intersect taken) \ (cleared \union owned))
    BY <1>15 DEF UndoFails
  <2>2. pc' = "idle" /\ taken' = {} /\ UNCHANGED <<owned, exposed>> /\ pc = "undo"
    BY <1>15 DEF UndoFails, Return
  <2> QED
    BY <1>a, <1>b, <2>1, <2>2 DEF Accounts, NoDoubleAllocation, BitmapMatchesOwners
<1>16. ASSUME NEW S \in Ranges, Free(S) PROVE Accounts'
  BY <1>16, <1>a, <1>b, <1>c
     DEF Free, Accounts, NoDoubleAllocation, BitmapMatchesOwners
<1>17. ASSUME NEW S \in Ranges, FreeFails(S) PROVE Accounts'
  <2>1. PICK cleared \in SUBSET S :
          /\ bmp' = bmp \ cleared
          /\ \/ exposed' = exposed \union cleared /\ UNCHANGED <<owned, lost>>
             \/ /\ owned' = owned \ (S \ exposed)
                /\ lost' = lost \union (S \ (cleared \union exposed))
                /\ UNCHANGED exposed
    BY <1>17, <1>c DEF FreeFails
  <2>2. pc = "idle" /\ UNCHANGED <<pc, taken>>
    BY <1>17 DEF FreeFails
  <2> QED
    BY <1>a, <1>b, <1>c, <2>1, <2>2
       DEF Accounts, NoDoubleAllocation, BitmapMatchesOwners
<1>18. CASE CrashInAlloc
  <2>1. /\ pc # "idle" /\ pc' = "idle" /\ taken' = {}
        /\ lost' = lost \union ((bmp \intersect taken) \ owned)
        /\ UNCHANGED <<bmp, owned, exposed>>
    BY <1>18 DEF CrashInAlloc, Return
  <2> QED
    BY <1>a, <1>b, <2>1 DEF Accounts, NoDoubleAllocation, BitmapMatchesOwners
<1>19. ASSUME NEW S \in Ranges, CrashInFree(S) PROVE Accounts'
  <2>1. PICK cleared \in SUBSET S :
          bmp' = bmp \ cleared /\ exposed' = exposed \union cleared
    BY <1>19, <1>c DEF CrashInFree
  <2>2. pc = "idle" /\ UNCHANGED <<pc, taken, owned, lost>>
    BY <1>19 DEF CrashInFree
  <2> QED
    BY <1>a, <1>b, <1>c, <2>1, <2>2
       DEF Accounts, NoDoubleAllocation, BitmapMatchesOwners
<1>20. CASE UNCHANGED vars
  BY <1>20 DEF vars, disk, Accounts, NoDoubleAllocation, BitmapMatchesOwners
<1> QED
  BY <1>1, <1>2, <1>3, <1>4, <1>5, <1>6, <1>7, <1>8, <1>9, <1>10, <1>11,
     <1>12, <1>13, <1>14, <1>15, <1>16, <1>17, <1>18, <1>19, <1>20
     DEF Next, AllocStep

(* No cluster is handed out twice: whatever ntfs_cluster_alloc is building *)
(* a runlist from belongs to no attribute and is not lost, unless an       *)
(* earlier free failed and marked it free under its owner.                 *)
THEOREM AllocationIsExclusive == Spec => []NoDoubleAllocation
<1>1. Accounts => NoDoubleAllocation
  BY DEF Accounts
<1> QED
  BY <1>1, TypeInit, TypeStep, AccountsInit, AccountsStep, PTL DEF Spec

(* $Bitmap accounts for every cluster at every step, through failed        *)
(* writes, failed undos and crashes: what is marked in use is mapped,      *)
(* known to be lost, or part of the call in progress.                      *)
THEOREM BitmapAccountsForClusters == Spec => []BitmapMatchesOwners
<1>1. Accounts => BitmapMatchesOwners
  BY DEF Accounts
<1> QED
  BY <1>1, TypeInit, TypeStep, AccountsInit, AccountsStep, PTL DEF Spec
-----------------------------------------------------------------------------
(* Refinement.  While a call searches, it needs more clusters than it has; *)
(* what it finally hands out is what it was asked for.                     *)
StillNeeds ==
    /\ pc # "idle" => req.count \in Counts
    /\ pc \in {"scan", "pass_done", "zone_done"} => Cardinality(taken) < req.count

LEMMA FiniteClusters ==
    ASSUME NEW S, S \subseteq Cluster
    PROVE  IsFiniteSet(S) /\ Cardinality(S) \in Nat
<1>1. IsFiniteSet(Cluster)
  BY VolumeAssumption, FS_Interval DEF Cluster
<1> QED
  BY <1>1, FS_Subset, FS_CardinalityType

LEMMA FreeInWindowType ==
    ASSUME TypeOK
    PROVE  FreeInWindow \subseteq Cluster /\ FreeInWindow \in SUBSET Nat
BY VolumeAssumption DEF FreeInWindow, Window, Cluster, TypeOK, SearchTypeOK

(* The clusters of a completed runlist are as many as were asked for; a    *)
(* window that does not complete it leaves something to be found.          *)
LEMMA WindowCount ==
    ASSUME TypeOK, Accounts, StillNeeds, pc = "scan"
    PROVE  /\ Completes => Cardinality(taken \union InWindow) = req.count
           /\ ~Completes => Cardinality(taken \union InWindow) < req.count
           /\ InWindow \intersect taken = {}
<1>1. InWindow \intersect taken = {}
  BY InWindowFree DEF Accounts, BitmapMatchesOwners
<1>2. IsFiniteSet(taken) /\ Cardinality(taken) \in Nat
  BY FiniteClusters DEF TypeOK, SearchTypeOK
<1>3. IsFiniteSet(InWindow) /\ Cardinality(InWindow) \in Nat
  BY FiniteClusters, InWindowFree
<1>4. Cardinality(taken \union InWindow) = Cardinality(taken) + Cardinality(InWindow)
  BY <1>1, <1>2, <1>3, FS_Union, FS_EmptySet
<1>5. req.count \in Nat /\ Cardinality(taken) < req.count
  BY DEF StillNeeds, TypeOK, CallTypeOK
<1>6. Needed \in Nat /\ Needed = req.count - Cardinality(taken)
  BY <1>2, <1>5 DEF Needed
<1>7. IsFiniteSet(FreeInWindow) /\ Cardinality(FreeInWindow) \in Nat
      /\ FreeInWindow \in SUBSET Nat
  BY FreeInWindowType, FiniteClusters
<1>8. CASE Completes
  <2>1. Cardinality(InWindow) = Needed
    BY <1>6, <1>7, <1>8, LowestCount DEF InWindow, Completes
  <2> QED
    BY <1>1, <1>2, <1>4, <1>5, <1>6, <1>8, <2>1
<1>9. CASE ~Completes
  <2>1. InWindow = FreeInWindow
    BY <1>6, <1>7, <1>9, LowestAll DEF InWindow, Completes
  <2> QED
    BY <1>1, <1>2, <1>4, <1>5, <1>6, <1>7, <1>9, <2>1 DEF Completes
<1> QED
  BY <1>8, <1>9

LEMMA StillNeedsInit == Init => StillNeeds
BY DEF Init, StillNeeds

LEMMA StillNeedsStep == TypeOK /\ Accounts /\ StillNeeds /\ [Next]_vars => StillNeeds'
<1> SUFFICES ASSUME TypeOK, Accounts, StillNeeds, [Next]_vars PROVE StillNeeds'
  OBVIOUS
<1>1. ASSUME NEW zone \in AllocZones, NEW count \in Counts, NEW hint \in Hints,
             Alloc(zone, count, hint)
      PROVE  StillNeeds'
  <2>1. Cardinality(taken') = 0
    BY <1>1, FS_EmptySet DEF Alloc, Accounts
  <2> QED
    BY <1>1, <2>1, CallAssumption DEF Alloc, StillNeeds
<1>2. CASE ScanWindow
  BY <1>2, WindowCount DEF ScanWindow, StillNeeds
<1>3. CASE \/ ScanPastEnd \/ SecondPass \/ EndOfZone
           \/ SwitchToData1 \/ SwitchToData2 \/ ShrinkMftZone \/ NoSpace
  BY <1>3 DEF ScanPastEnd, SecondPass, EndOfZone, SwitchToData1, SwitchToData2,
              ShrinkMftZone, NoSpace, StillNeeds
<1>4. CASE ScanReadFails \/ ScanWriteFails \/ ScanNoMemory
  BY <1>4 DEF ScanReadFails, ScanWriteFails, ScanNoMemory, StillNeeds
<1>5. CASE ScanCompletes \/ Undo \/ UndoFails \/ CrashInAlloc
  BY <1>5 DEF ScanCompletes, Undo, UndoFails, CrashInAlloc, Return, StillNeeds
<1>6. ASSUME NEW S \in Ranges, Free(S) \/ FreeFails(S) \/ CrashInFree(S)
      PROVE  StillNeeds'
  BY <1>6 DEF Free, FreeFails, CrashInFree, StillNeeds
<1>7. CASE UNCHANGED vars
  BY <1>7 DEF vars, StillNeeds
<1> QED
  BY <1>1, <1>2, <1>3, <1>4, <1>5, <1>6, <1>7 DEF Next, AllocStep

LEMMA StoreInitImplemented == Init => Store!StoreInit
BY CallAssumption DEF Init, Store!StoreInit

LEMMA StoreStep ==
    TypeOK /\ Accounts /\ StillNeeds /\ [Next]_vars => [Store!StoreNext]_Store!storeVars
<1> SUFFICES ASSUME TypeOK, Accounts, StillNeeds, [Next]_vars
             PROVE  Store!StoreNext \/ UNCHANGED Store!storeVars
  OBVIOUS
<1>a. pc # "idle" => req.count # 0
  BY CallAssumption DEF StillNeeds
<1>b. taken \subseteq Cluster /\ exposed \subseteq owned /\ owned \subseteq Cluster
      /\ lost \subseteq Cluster
  BY DEF TypeOK, DiskTypeOK, SearchTypeOK
<1>c. ASSUME NEW S \in Ranges
      PROVE  S \subseteq owned /\ \A P \in Prefixes(S) : P \subseteq S
  BY DEF Ranges, Prefixes
<1>1. ASSUME NEW zone \in AllocZones, NEW count \in Counts, NEW hint \in Hints,
             Alloc(zone, count, hint)
      PROVE  Store!Ask
  BY <1>1 DEF Alloc, Store!Ask, disk
<1>2. ASSUME \/ ScanPastEnd \/ ScanWindow \/ ScanReadFails \/ ScanWriteFails
             \/ ScanNoMemory \/ SecondPass \/ EndOfZone \/ SwitchToData1
             \/ SwitchToData2 \/ ShrinkMftZone \/ NoSpace
      PROVE  UNCHANGED Store!storeVars
  <2>1. pc # "idle" /\ pc' # "idle" /\ UNCHANGED <<owned, lost, exposed, req>>
    BY <1>2 DEF ScanPastEnd, ScanWindow, ScanReadFails, ScanWriteFails,
                ScanNoMemory, SecondPass, EndOfZone, SwitchToData1,
                SwitchToData2, ShrinkMftZone, NoSpace, disk
  <2> QED
    BY <2>1 DEF Store!storeVars
<1>3. ASSUME ScanCompletes PROVE Store!Grant
  <2>1. /\ pc = "scan" /\ pc' = "idle" /\ Completes
        /\ owned' = owned \union taken \union InWindow /\ UNCHANGED <<exposed, lost>>
    BY <1>3 DEF ScanCompletes, Return
  <2>2. InWindow \subseteq Cluster /\ InWindow \intersect bmp = {}
    BY InWindowFree
  <2>3. owned' \subseteq Cluster \ lost
    BY <1>b, <2>1, <2>2 DEF Accounts, NoDoubleAllocation, BitmapMatchesOwners
  <2>4. exposed = {} => owned' \ owned = taken \union InWindow
    BY <2>1, <2>2 DEF Accounts, NoDoubleAllocation, BitmapMatchesOwners
  <2>5. exposed = {} => Cardinality(owned' \ owned) = req.count
    BY <2>1, <2>4, WindowCount
  <2>6. req.count # 0 /\ owned \subseteq owned'
    BY <1>a, <2>1
  <2>7. \A S : Store!Cardinality(S) = Cardinality(S)
    BY DEF Store!Cardinality, Cardinality
  <2> QED
    BY <2>1, <2>3, <2>5, <2>6, <2>7 DEF Store!Grant
<1>4. ASSUME Undo PROVE Store!Refuse
  BY <1>4, <1>a, <1>b DEF Undo, Return, Store!Refuse, Accounts, BitmapMatchesOwners
<1>5. ASSUME UndoFails PROVE Store!Refuse
  BY <1>5, <1>a, <1>b DEF UndoFails, Return, Store!Refuse, Accounts, BitmapMatchesOwners
<1>6. ASSUME CrashInAlloc PROVE Store!Refuse
  BY <1>6, <1>a, <1>b DEF CrashInAlloc, Return, Store!Refuse, Accounts, BitmapMatchesOwners
<1>7. ASSUME NEW S \in Ranges, Free(S) PROVE Store!Release
  BY <1>7, <1>b, <1>c DEF Free, Store!Release
<1>8. ASSUME NEW S \in Ranges, FreeFails(S) PROVE Store!Release \/ Store!Expose
  <2>1. PICK cleared \in SUBSET S :
          \/ exposed' = exposed \union cleared /\ UNCHANGED <<owned, lost>>
          \/ /\ owned' = owned \ (S \ exposed)
             /\ lost' = lost \union (S \ (cleared \union exposed))
             /\ UNCHANGED exposed
    BY <1>8, <1>c DEF FreeFails
  <2>2. pc = "idle" /\ UNCHANGED <<pc, req>>
    BY <1>8 DEF FreeFails
  <2> QED
    BY <1>b, <1>c, <2>1, <2>2 DEF Store!Release, Store!Expose
<1>9. ASSUME NEW S \in Ranges, CrashInFree(S) PROVE Store!Expose
  BY <1>9, <1>b, <1>c DEF CrashInFree, Store!Expose
<1>10. CASE UNCHANGED vars
  BY <1>10 DEF vars, disk, Store!storeVars
<1> QED
  BY <1>1, <1>2, <1>3, <1>4, <1>5, <1>6, <1>7, <1>8, <1>9, <1>10
     DEF Next, AllocStep, Store!StoreNext

(* The allocator implements the cluster store: a granted request hands out *)
(* exactly the number of clusters asked for, none of them owned or lost, a *)
(* refused one changes nothing or loses clusters nobody owned, and only a  *)
(* failed free exposes clusters.                                           *)
THEOREM AllocatorImplementsStore == Spec => ImplementsStore
<1> QED
  BY StoreInitImplemented, StoreStep, TypeInit, TypeStep, AccountsInit,
     AccountsStep, StillNeedsInit, StillNeedsStep, PTL
     DEF Spec, ImplementsStore, Store!StoreSpec
-----------------------------------------------------------------------------
(* The search.  While a call runs, the clusters of every zone it has been  *)
(* through are in use, and those of the zone it is in are in use or still  *)
(* ahead of it, in this pass or the next.  The mft zone counts for mft     *)
(* requests only; a data request takes it over half by half.               *)
Searching == pc \in {"scan", "pass_done", "zone_done"}

InZone(z, l) ==
    \/ z = "mft" /\ InMftZone(l)
    \/ z = "data1" /\ mft_zone_end <= l
    \/ z = "data2" /\ l < mft_zone_start

ToScan(l) ==
    \/ pc = "scan" /\ bmp_pos <= l /\ l < zone_end
    \/ pc \in {"scan", "pass_done"} /\ pass = 1 /\ l < zone_start

Searched ==
    (Searching /\ ~HintOutsideZone) =>
        \A z \in done_zones \union {search_zone} : \A l \in Cluster :
            ((z = "mft" => req.zone = "MFT_ZONE") /\ InZone(z, l))
                => l \in bmp \/ (z = search_zone /\ ToScan(l))

RefusedWhenFull ==
    /\ err = "ENOSPC" => pc = "undo"
    /\ EnospcMeansFull

(* A data request stays out of the mft zone: where it searches, and where  *)
(* the next one will begin.                                                *)
KeepsOut ==
    /\ mft_zone_end <= data1_zone_pos
    /\ mft_zone_end <= MftLcn + MftZoneSize
    /\ (Searching /\ req.zone = "DATA_ZONE") =>
          /\ search_zone # "mft"
          /\ search_zone = "data1" => mft_zone_end <= zone_start /\ mft_zone_end <= bmp_pos
          /\ search_zone = "data2" => zone_start <= mft_zone_start /\ zone_end <= mft_zone_start

(* The types the steps below need, as plain facts.                         *)
LEMMA SearchNumbers ==
    ASSUME TypeOK
    PROVE  /\ NrClusters \in Nat /\ BitmapBits \in Nat /\ NrClusters <= BitmapBits
           /\ mft_zone_start \in Nat /\ mft_zone_start <= NrClusters
           /\ mft_zone_end \in Nat /\ mft_zone_end <= NrClusters
           /\ data1_zone_pos \in Nat /\ data2_zone_pos \in Nat /\ mft_zone_pos \in Nat
           /\ zone_start \in Nat /\ zone_end \in Nat /\ zone_end <= NrClusters
           /\ bmp_pos \in Nat /\ pass \in {1, 2} /\ search_zone \in Zones
           /\ done_zones \subseteq Zones /\ req.zone \in AllocZones /\ req.hint \in Int
           /\ \A l \in Cluster : l \in Nat /\ l < NrClusters
BY VolumeAssumption DEF TypeOK, ZonesTypeOK, SearchTypeOK, CallTypeOK, BitmapBits, Cluster

(* A window that does not complete the runlist is taken whole.             *)
LEMMA WindowTaken ==
    ASSUME TypeOK, StillNeeds, pc = "scan", ~Completes
    PROVE  \A l \in Window : l \in bmp \union InWindow
<1>1. IsFiniteSet(taken) /\ Cardinality(taken) \in Nat
  BY FiniteClusters DEF TypeOK, SearchTypeOK
<1>2. req.count \in Nat /\ Cardinality(taken) < req.count
  BY DEF StillNeeds, TypeOK, CallTypeOK
<1>3. Needed \in Nat
  BY <1>1, <1>2 DEF Needed
<1>4. IsFiniteSet(FreeInWindow) /\ Cardinality(FreeInWindow) \in Nat
      /\ FreeInWindow \in SUBSET Nat
  BY FreeInWindowType, FiniteClusters
<1>5. InWindow = FreeInWindow
  BY <1>3, <1>4, LowestAll DEF InWindow, Completes
<1> QED
  BY <1>5 DEF FreeInWindow

LEMMA SearchedInit == Init => Searched /\ RefusedWhenFull /\ KeepsOut
<1> SUFFICES ASSUME Init PROVE Searched /\ RefusedWhenFull /\ KeepsOut
  OBVIOUS
<1>1. /\ pc = "idle" /\ err = "none"
      /\ mft_zone_end = MftLcn + MftZoneSize /\ data1_zone_pos = MftLcn + MftZoneSize
  BY DEF Init, InitZones
<1>2. MftLcn + MftZoneSize \in Nat
  BY ZoneSize, VolumeAssumption
<1> QED
  BY <1>1, <1>2 DEF Searched, Searching, RefusedWhenFull, EnospcMeansFull, KeepsOut

(* Where a call starts: the zone it is in lies ahead of it in this pass,   *)
(* or ahead of and behind it in two.                                       *)
LEMMA SearchedAlloc ==
    ASSUME TypeOK, TypeOK', KeepsOut, NEW zone \in AllocZones, NEW count \in Counts,
           NEW hint \in Hints, Alloc(zone, count, hint)
    PROVE  Searched' /\ KeepsOut'
<1> DEFINE start == StartPos(zone, hint)
           first == StartSearch(zone, start)
<1>1. /\ pc' = "scan" /\ req'.zone = zone /\ req'.hint = hint
      /\ zone_start' = start /\ bmp_pos' = start /\ pass' = StartPass(zone, hint)
      /\ search_zone' = first /\ zone_end' = ZoneLimit(first)
      /\ done_zones' = IF zone = "DATA_ZONE" THEN {"mft"} ELSE {}
      /\ UNCHANGED <<bmp, mft_zone_start, mft_zone_end, data1_zone_pos>>
  BY DEF Alloc, disk, zones
<1>2. hint \in Int /\ (hint = -1 \/ hint \in Nat)
  BY CallAssumption, VolumeAssumption
<1>3. start \in Nat
  BY <1>1 DEF TypeOK, SearchTypeOK
<1>4. zone \in {"MFT_ZONE", "DATA_ZONE"}
  BY DEF AllocZones
<1>a. first = IF zone = "MFT_ZONE" THEN "mft"
              ELSE IF start >= mft_zone_end THEN "data1" ELSE "data2"
  BY DEF StartSearch
<1>b. /\ zone = "DATA_ZONE" => start = IF hint = -1 THEN data1_zone_pos
                                      ELSE IF InMftZone(hint) THEN mft_zone_end ELSE hint
      /\ StartPass(zone, hint) = 2 =>
            \/ start = 0
            \/ zone = "DATA_ZONE" /\ start = mft_zone_end
            \/ zone = "MFT_ZONE" /\ hint # -1 /\ ~InMftZone(hint)
      /\ StartPass(zone, hint) \in {1, 2}
  BY <1>4 DEF StartPos, StartPass
<1> HIDE DEF start, first
<1>5. Searched'
  <2> SUFFICES ASSUME ~HintOutsideZone',
                      NEW z \in done_zones' \union {search_zone'}, NEW l \in Cluster,
                      z = "mft" => zone = "MFT_ZONE", InZone(z, l)'
               PROVE  (l \in bmp \/ (z = search_zone /\ ToScan(l)))'
    BY <1>1 DEF Searched
  <2>1. z = first /\ search_zone' = first
    BY <1>1, <1>4
  <2>2. l < zone_end'
    <3>1. InZone(z, l)
      BY <1>1 DEF InZone, InMftZone
    <3>2. l \in Nat /\ l < NrClusters
      BY SearchNumbers
    <3> QED
      BY <1>1, <2>1, <3>1, <3>2 DEF InZone, ZoneLimit, InMftZone
  <2>3. CASE pass' = 1
    BY <1>1, <1>3, <2>1, <2>2, <2>3, SearchNumbers DEF ToScan
  <2>4. CASE pass' = 2
    <3>1. ~(zone = "MFT_ZONE" /\ hint # -1 /\ ~InMftZone(hint))
      BY <1>1 DEF HintOutsideZone, InMftZone
    <3>2. start = 0 \/ (zone = "DATA_ZONE" /\ start = mft_zone_end)
      BY <1>1, <1>b, <2>4, <3>1
    <3>3. start <= l
      <4>1. l \in Nat /\ mft_zone_end \in Nat
        BY SearchNumbers
      <4>2. CASE start = 0
        BY <4>1, <4>2
      <4>3. CASE zone = "DATA_ZONE" /\ start = mft_zone_end
        <5>1. first = "data1"
          BY <1>a, <4>1, <4>3
        <5> QED
          BY <1>1, <2>1, <4>3, <5>1 DEF InZone
      <4> QED
        BY <3>2, <4>2, <4>3
    <3> QED
      BY <1>1, <2>1, <2>2, <3>3 DEF ToScan
  <2> QED
    BY <1>1, <1>b, <2>3, <2>4
<1>6. KeepsOut'
  <2>1. mft_zone_end' <= data1_zone_pos' /\ mft_zone_end' <= MftLcn + MftZoneSize
    BY <1>1 DEF KeepsOut
  <2>2. ASSUME zone = "DATA_ZONE"
        PROVE  /\ first # "mft"
               /\ first = "data1" => mft_zone_end <= start
               /\ first = "data2" => start <= mft_zone_start /\ zone_end' <= mft_zone_start
    <3>1. first = "data1" => mft_zone_end <= start
      BY <1>3, <1>a, <2>2, SearchNumbers
    <3>2. first = "data2" => start < mft_zone_end
      BY <1>3, <1>a, <2>2, SearchNumbers
    <3>3. first = "data2" => start <= mft_zone_start
      <4> SUFFICES ASSUME first = "data2" PROVE start <= mft_zone_start
        OBVIOUS
      <4>1. hint # -1 /\ ~InMftZone(hint) /\ start = hint
        BY <1>3, <1>b, <2>2, <3>2, SearchNumbers DEF KeepsOut
      <4> QED
        BY <1>3, <3>2, <4>1, SearchNumbers DEF InMftZone
    <3>4. first = "data2" => zone_end' = mft_zone_start
      BY <1>1 DEF ZoneLimit
    <3> QED
      BY <1>a, <2>2, <3>1, <3>3, <3>4, SearchNumbers
  <2>3. (Searching /\ req.zone = "DATA_ZONE" =>
          /\ search_zone # "mft"
          /\ search_zone = "data1" => mft_zone_end <= zone_start /\ mft_zone_end <= bmp_pos
          /\ search_zone = "data2" => zone_start <= mft_zone_start /\ zone_end <= mft_zone_start)'
    BY <1>1, <2>2
  <2> QED
    BY <2>1, <2>3 DEF KeepsOut
<1> QED
  BY <1>5, <1>6

(* Steps of the search: the bits only grow, and what one of them leaves    *)
(* behind is in use.                                                       *)
LEMMA SearchedStep ==
    ASSUME TypeOK, StillNeeds, Searched, KeepsOut,
           \/ ScanPastEnd \/ ScanWindow \/ SecondPass \/ EndOfZone
           \/ SwitchToData1 \/ SwitchToData2
    PROVE  Searched' /\ KeepsOut'
<1>a. /\ Searching /\ UNCHANGED <<mft_zone_start, mft_zone_end, req>> /\ bmp \subseteq bmp'
  BY DEF ScanPastEnd, ScanWindow, SecondPass, EndOfZone, SwitchToData1, SwitchToData2,
         Searching, zones, disk
<1>b. HintOutsideZone' = HintOutsideZone /\ (\A z, l : InZone(z, l)' = InZone(z, l))
  BY <1>a DEF HintOutsideZone, InMftZone, InZone
<1>c. ASSUME Searching', ~HintOutsideZone,
             NEW z \in done_zones' \union {search_zone'}, NEW l \in Cluster,
             z = "mft" => req.zone = "MFT_ZONE", InZone(z, l),
             l \notin bmp
      PROVE  /\ z \in done_zones \union {search_zone} => z = search_zone /\ ToScan(l)
             /\ l \in Nat /\ l < NrClusters
  BY <1>a, <1>c, SearchNumbers DEF Searched
<1>n. Searching' => (Searched' <=>
        (~HintOutsideZone =>
           \A z \in done_zones' \union {search_zone'} : \A l \in Cluster :
             ((z = "mft" => req.zone = "MFT_ZONE") /\ InZone(z, l))
                => l \in bmp' \/ (z = search_zone' /\ ToScan(l)')))
  <2>1. req' = req
    BY <1>a
  <2> HIDE DEF HintOutsideZone, InZone, ToScan
  <2> QED
    BY <1>b, <2>1 DEF Searched
<1>1. CASE ScanPastEnd
  <2>1. /\ pc = "scan" /\ bmp_pos >= BitmapBits /\ pc' = "pass_done" /\ Searching'
        /\ UNCHANGED <<bmp, zone_start, zone_end, bmp_pos, pass, done_zones, search_zone, data1_zone_pos>>
    BY <1>1 DEF ScanPastEnd, search, zones, disk, Searching
  <2>2. \A l \in Cluster : ToScan(l) => ToScan(l)'
    BY <2>1, SearchNumbers DEF ToScan
  <2>3. Searched'
    BY <1>c, <1>n, <2>1, <2>2
  <2>4. KeepsOut'
    BY <1>a, <2>1 DEF KeepsOut
  <2> QED
    BY <2>3, <2>4
<1>2. CASE ScanWindow
  <2>1. /\ pc = "scan" /\ bmp_pos < BitmapBits /\ ~Completes /\ Searching'
        /\ bmp' = bmp \union InWindow /\ bmp_pos' = WindowEnd
        /\ pc' = IF WindowEnd < zone_end THEN "scan" ELSE "pass_done"
        /\ UNCHANGED <<zone_start, zone_end, pass, done_zones, search_zone, data1_zone_pos>>
    BY <1>2 DEF ScanWindow, zones, Searching
  <2>2. WindowEnd \in Nat /\ bmp_pos < WindowEnd
    BY <2>1, SearchNumbers, WindowBounds
  <2>3. \A l \in Cluster : ToScan(l) => l \in bmp' \/ ToScan(l)'
    <3> SUFFICES ASSUME NEW l \in Cluster, ToScan(l), l \notin bmp'
                 PROVE  ToScan(l)'
      OBVIOUS
    <3>1. l \notin Window
      BY <2>1, WindowTaken
    <3>2. (bmp_pos <= l /\ l < zone_end) => WindowEnd <= l /\ WindowEnd < zone_end
      BY <2>2, <3>1, SearchNumbers DEF Window
    <3> QED
      BY <2>1, <3>2 DEF ToScan
  <2>4. Searched'
    BY <1>c, <1>n, <2>1, <2>3
  <2>5. KeepsOut'
    BY <1>a, <2>1, <2>2, SearchNumbers DEF KeepsOut, Searching
  <2> QED
    BY <2>4, <2>5
<1>3. CASE SecondPass
  <2> DEFINE base == ZoneBase(search_zone)
  <2>1. /\ pc = "pass_done" /\ pass = 1 /\ pass' = 2 /\ pc' = "scan" /\ Searching'
        /\ zone_start' = base /\ bmp_pos' = base
        /\ zone_end' = IF zone_start < base THEN base ELSE zone_start
        /\ UNCHANGED <<bmp, done_zones, search_zone, data1_zone_pos>>
    BY <1>3 DEF SecondPass, disk, zones, Searching
  <2>2. /\ base \in Nat
        /\ search_zone = "data1" => base = mft_zone_end
        /\ search_zone = "data2" => base = 0
        /\ search_zone = "mft" => base = mft_zone_start
    BY SearchNumbers DEF ZoneBase, Zones
  <2> HIDE DEF base
  <2>3. \A l \in Cluster : (ToScan(l) /\ InZone(search_zone, l)) => ToScan(l)'
    <3> SUFFICES ASSUME NEW l \in Cluster, ToScan(l), InZone(search_zone, l)
                 PROVE  ToScan(l)'
      OBVIOUS
    <3>1. l < zone_start /\ l \in Nat
      BY <2>1, SearchNumbers DEF ToScan
    <3>2. base <= l
      BY <2>2, <3>1, SearchNumbers DEF InZone, InMftZone
    <3> QED
      BY <2>1, <2>2, <3>1, <3>2, SearchNumbers DEF ToScan
  <2>4. Searched'
    BY <1>c, <1>n, <2>1, <2>3
  <2>5. KeepsOut'
    BY <1>a, <2>1, <2>2, SearchNumbers DEF KeepsOut, Searching
  <2> QED
    BY <2>4, <2>5
<1>4. CASE EndOfZone
  <2>1. /\ pc = "pass_done" /\ pass = 2 /\ pc' = "zone_done" /\ Searching'
        /\ UNCHANGED <<bmp, zone_start, zone_end, bmp_pos, done_zones, search_zone, data1_zone_pos>>
    BY <1>4 DEF EndOfZone, search, disk, zones, Searching
  <2>2. \A l \in Cluster : ~ToScan(l)
    BY <2>1 DEF ToScan
  <2>3. Searched'
    BY <1>c, <1>n, <2>1, <2>2
  <2>4. KeepsOut'
    BY <1>a, <2>1 DEF KeepsOut
  <2> QED
    BY <2>3, <2>4
<1>5. CASE SwitchToData1
  <2> DEFINE start == IF data1_zone_pos >= NrClusters THEN mft_zone_end ELSE data1_zone_pos
  <2>1. /\ pc = "zone_done" /\ Searching'
        /\ zone_start' = start /\ bmp_pos' = start /\ zone_end' = NrClusters
        /\ pass' = IF start = mft_zone_end THEN 2 ELSE 1
        /\ search_zone' = "data1" /\ done_zones' = done_zones \union {search_zone}
        /\ pc' = IF start = NrClusters THEN "zone_done" ELSE "scan"
        /\ data1_zone_pos' = start /\ UNCHANGED bmp
    BY <1>5 DEF SwitchToData1, disk, Searching, Finished
  <2>2. start \in Nat /\ mft_zone_end <= start /\ (start = NrClusters => mft_zone_end = NrClusters)
    BY SearchNumbers DEF KeepsOut
  <2> HIDE DEF start
  <2>3. \A l \in Cluster : InZone("data1", l) => ToScan(l)'
    <3> SUFFICES ASSUME NEW l \in Cluster, mft_zone_end <= l PROVE ToScan(l)'
      BY DEF InZone
    <3> QED
      BY <2>1, <2>2, SearchNumbers DEF ToScan
  <2>4. \A l : ~ToScan(l)
    BY <2>1 DEF ToScan
  <2>5. Searched'
    BY <1>c, <1>n, <2>1, <2>3, <2>4
  <2>6. KeepsOut'
    BY <1>a, <2>1, <2>2, SearchNumbers DEF KeepsOut
  <2> QED
    BY <2>5, <2>6
<1>6. CASE SwitchToData2
  <2> DEFINE start == IF data2_zone_pos >= mft_zone_start THEN 0 ELSE data2_zone_pos
  <2>1. /\ pc = "zone_done" /\ Searching' /\ search_zone = "data1"
        /\ zone_start' = start /\ bmp_pos' = start /\ zone_end' = mft_zone_start
        /\ pass' = IF start = 0 THEN 2 ELSE 1
        /\ search_zone' = "data2" /\ done_zones' = done_zones \union {search_zone}
        /\ pc' = IF start = mft_zone_start THEN "zone_done" ELSE "scan"
        /\ data1_zone_pos' = Moved("data1", data1_zone_pos, NextData1Pos(last + 1))
        /\ UNCHANGED bmp
    BY <1>6 DEF SwitchToData2, disk, Searching, Finished
  <2>2. start \in Nat /\ start <= mft_zone_start /\ (start = mft_zone_start => mft_zone_start = 0)
    BY SearchNumbers
  <2> HIDE DEF start
  <2>3. \A l \in Cluster : InZone("data2", l) => ToScan(l)'
    <3> SUFFICES ASSUME NEW l \in Cluster, l < mft_zone_start PROVE ToScan(l)'
      BY DEF InZone
    <3> QED
      BY <2>1, <2>2, SearchNumbers DEF ToScan
  <2>4. \A l : ~ToScan(l)
    BY <2>1 DEF ToScan
  <2>5. Searched'
    BY <1>c, <1>n, <2>1, <2>3, <2>4
  <2>6. mft_zone_end <= data1_zone_pos'
    BY <2>1, SearchNumbers DEF KeepsOut, Moved, NextData1Pos
  <2>7. KeepsOut'
    BY <1>a, <2>1, <2>2, <2>6, SearchNumbers DEF KeepsOut
  <2> QED
    BY <2>5, <2>7
<1> QED
  BY <1>1, <1>2, <1>3, <1>4, <1>5, <1>6

(* All zones are done and the mft zone is halved, or given up: the half    *)
(* that goes to data zone 1 is what is left to scan.                       *)
LEMMA SearchedShrink ==
    ASSUME TypeOK, Searched, KeepsOut, ShrinkMftZone
    PROVE  /\ Searched' /\ KeepsOut'
           /\ Cluster \ (mft_zone_start .. mft_zone_end - 1) \subseteq bmp
<1> DEFINE size == (mft_zone_end - mft_zone_start) \div 2
           start == IF size > 0 THEN mft_zone_start ELSE 0
           end == IF size > 0 THEN mft_zone_start + size ELSE 0
<1>1. /\ pc = "zone_done" /\ Finished = Zones /\ req.zone = "DATA_ZONE"
      /\ mft_zone_end > mft_zone_start /\ UNCHANGED <<bmp, req>>
      /\ mft_zone_start' = start /\ mft_zone_end' = end /\ data1_zone_pos' = end
      /\ zone_end' = mft_zone_end /\ zone_start' = end /\ bmp_pos' = end
      /\ search_zone' = "data1" /\ pass' = 2 /\ done_zones' = Finished \ {"data1"}
      /\ pc' = "scan"
  BY DEF ShrinkMftZone, disk
<1>2. /\ start \in Nat /\ end \in Nat /\ start <= mft_zone_start /\ end <= mft_zone_end
  BY <1>1, SearchNumbers
<1> HIDE DEF size, start, end
<1>3. \A l \in Cluster : mft_zone_end <= l \/ l < mft_zone_start => l \in bmp
  <2> SUFFICES ASSUME NEW l \in Cluster, l \notin bmp
               PROVE  ~(mft_zone_end <= l) /\ ~(l < mft_zone_start)
    OBVIOUS
  <2>1. Zones = done_zones \union {search_zone} /\ ~ToScan(l) /\ ~HintOutsideZone /\ Searching
    BY <1>1 DEF Finished, ToScan, HintOutsideZone, Searching
  <2>2. ~InZone("data1", l) /\ ~InZone("data2", l)
    BY <2>1 DEF Searched, Zones
  <2> QED
    BY <2>2 DEF InZone
<1>4. Searched'
  <2> SUFFICES ASSUME NEW z \in done_zones' \union {search_zone'}, NEW l \in Cluster,
                      z # "mft", InZone(z, l)', l \notin bmp
               PROVE  z = "data1" /\ ToScan(l)'
    BY <1>1 DEF Searched
  <2>1. l \in Nat /\ mft_zone_start <= l /\ l < mft_zone_end
    BY <1>3, SearchNumbers
  <2>2. z = "data1" /\ end <= l
    BY <1>1, <1>2, <2>1, SearchNumbers DEF InZone
  <2> QED
    BY <1>1, <2>1, <2>2 DEF ToScan
<1>5. mft_zone_end <= MftLcn + MftZoneSize /\ MftLcn + MftZoneSize \in Nat
  BY ZoneSize, VolumeAssumption DEF KeepsOut
<1>6. KeepsOut'
  BY <1>1, <1>2, <1>5, SearchNumbers DEF KeepsOut
<1>7. Cluster \ (mft_zone_start .. mft_zone_end - 1) \subseteq bmp
  BY <1>3, SearchNumbers
<1> QED
  BY <1>4, <1>6, <1>7

(* A call that finds no space has been through every zone.                 *)
LEMMA NothingLeft ==
    ASSUME TypeOK, Searched, NoSpace, ~HintOutsideZone
    PROVE  Cluster \subseteq bmp
<1> SUFFICES ASSUME NEW l \in Cluster, l \notin bmp PROVE FALSE
  OBVIOUS
<1>1. /\ Zones = done_zones \union {search_zone} /\ ~ToScan(l) /\ Searching
      /\ req.zone = "MFT_ZONE" \/ mft_zone_end <= mft_zone_start
  BY DEF NoSpace, Finished, ToScan, Searching
<1>2. /\ ~InZone("data1", l) /\ ~InZone("data2", l)
      /\ req.zone = "MFT_ZONE" => ~InZone("mft", l)
  BY <1>1 DEF Searched, Zones
<1> QED
  BY <1>1, <1>2, SearchNumbers DEF InZone, InMftZone

LEMMA SearchedNext ==
    TypeOK /\ StillNeeds /\ Searched /\ RefusedWhenFull /\ KeepsOut /\ [Next]_vars /\ TypeOK'
        => Searched' /\ RefusedWhenFull' /\ KeepsOut'
<1> SUFFICES ASSUME TypeOK, TypeOK', StillNeeds, Searched, RefusedWhenFull, KeepsOut, [Next]_vars
             PROVE  Searched' /\ RefusedWhenFull' /\ KeepsOut'
  OBVIOUS
<1>a. err' # "ENOSPC" => RefusedWhenFull'
  BY DEF RefusedWhenFull, EnospcMeansFull
<1>b. pc # "undo" => err # "ENOSPC"
  BY DEF RefusedWhenFull
<1>c. ~Searching' => Searched'
  BY DEF Searched
<1>d. ~Searching' /\ UNCHANGED <<mft_zone_end, data1_zone_pos>> => KeepsOut'
  BY DEF KeepsOut
<1>e. MftLcn + MftZoneSize \in Nat
  BY ZoneSize, VolumeAssumption
<1>1. ASSUME NEW zone \in AllocZones, NEW count \in Counts, NEW hint \in Hints,
             Alloc(zone, count, hint)
      PROVE  Searched' /\ RefusedWhenFull' /\ KeepsOut'
  <2>1. Searched' /\ KeepsOut'
    BY <1>1, SearchedAlloc
  <2>2. err' # "ENOSPC"
    BY <1>1, <1>b DEF Alloc
  <2> QED
    BY <1>a, <2>1, <2>2
<1>2. CASE \/ ScanPastEnd \/ ScanWindow \/ SecondPass \/ EndOfZone
           \/ SwitchToData1 \/ SwitchToData2
  <2>1. Searched' /\ KeepsOut'
    BY <1>2, SearchedStep
  <2>2. err' # "ENOSPC"
    BY <1>2, <1>b DEF ScanPastEnd, ScanWindow, SecondPass, EndOfZone, SwitchToData1, SwitchToData2
  <2> QED
    BY <1>a, <2>1, <2>2
<1>3. CASE ShrinkMftZone
  <2>1. Searched' /\ KeepsOut'
    BY <1>3, SearchedShrink
  <2>2. err' # "ENOSPC"
    BY <1>3, <1>b DEF ShrinkMftZone
  <2> QED
    BY <1>a, <2>1, <2>2
<1>4. CASE NoSpace
  <2>1. /\ pc' = "undo" /\ UNCHANGED <<bmp, req, mft_zone_start, mft_zone_end, data1_zone_pos>>
    BY <1>4 DEF NoSpace, disk, zones
  <2>2. ~Searching'
    BY <2>1 DEF Searching
  <2>3. ~HintOutsideZone' => Cluster \subseteq bmp'
    BY <1>4, <2>1, NothingLeft DEF HintOutsideZone, InMftZone
  <2> QED
    BY <1>c, <1>d, <2>1, <2>2, <2>3 DEF RefusedWhenFull, EnospcMeansFull
<1>5. ASSUME NEW tc \in 0 .. NrClusters, UpdateZonePos(tc)
      PROVE  mft_zone_end' = mft_zone_end /\ mft_zone_end' <= data1_zone_pos'
  BY <1>5, SearchNumbers DEF UpdateZonePos, NextData1Pos, KeepsOut
<1>6. CASE ScanCompletes
  <2>1. LastOf(InWindow) + 1 \in 0 .. NrClusters
    BY InWindowFree, VolumeAssumption
  <2>2. /\ mft_zone_end' = mft_zone_end /\ mft_zone_end' <= data1_zone_pos'
        /\ pc' = "idle" /\ err' = "none"
    BY <1>5, <1>6, <2>1 DEF ScanCompletes, Return
  <2>3. ~Searching'
    BY <2>2 DEF Searching
  <2> QED
    BY <1>a, <1>c, <2>2, <2>3 DEF KeepsOut
<1>7. CASE ScanReadFails
  <2>1. pc' = "undo" /\ err' = "EIO" /\ UNCHANGED <<mft_zone_end, data1_zone_pos>>
    BY <1>7 DEF ScanReadFails, zones
  <2>2. ~Searching'
    BY <2>1 DEF Searching
  <2> QED
    BY <1>a, <1>c, <1>d, <2>1, <2>2
<1>8. CASE ScanWriteFails
  <2>1. LastOf(InWindow) + 1 \in 0 .. NrClusters
    BY InWindowFree, VolumeAssumption
  <2>2. pc' = "undo" /\ err' = "EIO"
    BY <1>8 DEF ScanWriteFails
  <2>3. mft_zone_end' = mft_zone_end /\ mft_zone_end' <= data1_zone_pos'
    <3>1. CASE Completes
      BY <1>5, <1>8, <2>1, <3>1 DEF ScanWriteFails
    <3>2. CASE ~Completes
      BY <1>8, <3>2 DEF ScanWriteFails, zones, KeepsOut
    <3> QED
      BY <3>1, <3>2
  <2>4. ~Searching'
    BY <2>2 DEF Searching
  <2> QED
    BY <1>a, <1>c, <2>2, <2>3, <2>4 DEF KeepsOut
<1>9. CASE ScanNoMemory
  <2>1. pc' = "undo" /\ UNCHANGED <<mft_zone_end, data1_zone_pos>>
    BY <1>9 DEF ScanNoMemory, zones
  <2>2. err' # "ENOSPC"
    BY <1>9 DEF ScanNoMemory
  <2>3. ~Searching'
    BY <2>1 DEF Searching
  <2> QED
    BY <1>a, <1>c, <1>d, <2>1, <2>2, <2>3
<1>10. CASE Undo \/ UndoFails
  <2>1. pc' = "idle" /\ err' = "none" /\ UNCHANGED <<mft_zone_end, data1_zone_pos>>
    BY <1>10 DEF Undo, UndoFails, Return, zones
  <2>2. ~Searching'
    BY <2>1 DEF Searching
  <2> QED
    BY <1>a, <1>c, <1>d, <2>1, <2>2
<1>11. ASSUME NEW S \in Ranges, Free(S) \/ FreeFails(S)
       PROVE  Searched' /\ RefusedWhenFull' /\ KeepsOut'
  <2>1. pc = "idle" /\ UNCHANGED <<pc, err, mft_zone_end, data1_zone_pos>>
    BY <1>11 DEF Free, FreeFails, zones
  <2>2. ~Searching' /\ err' # "ENOSPC"
    BY <1>b, <2>1 DEF Searching
  <2> QED
    BY <1>a, <1>c, <1>d, <2>1, <2>2
<1>12. ASSUME CrashInAlloc \/ \E S \in Ranges : CrashInFree(S)
       PROVE  Searched' /\ RefusedWhenFull' /\ KeepsOut'
  <2>1. /\ pc' = "idle" /\ err' # "ENOSPC"
        /\ mft_zone_end' = MftLcn + MftZoneSize /\ data1_zone_pos' = MftLcn + MftZoneSize
    BY <1>12, <1>b DEF CrashInAlloc, CrashInFree, Return, Remount
  <2>2. ~Searching'
    BY <2>1 DEF Searching
  <2> QED
    BY <1>a, <1>c, <1>e, <2>1, <2>2 DEF KeepsOut
<1>13. CASE UNCHANGED vars
  BY <1>13 DEF vars, disk, zones, search, Searched, Searching, HintOutsideZone, InMftZone, InZone,
               ToScan, RefusedWhenFull, EnospcMeansFull, KeepsOut
<1> QED
  BY <1>1, <1>2, <1>3, <1>4, <1>6, <1>7, <1>8, <1>9, <1>10, <1>11, <1>12, <1>13 DEF Next, AllocStep

(* ntfs_cluster_alloc refuses a data request, and an mft request that does *)
(* not start outside the mft zone, only when every cluster of the volume   *)
(* is in use: windows, passes and zones leave none unexamined, on every    *)
(* volume and from every position.                                         *)
THEOREM RefusalMeansFull == Spec => []EnospcMeansFull
<1>1. RefusedWhenFull => EnospcMeansFull
  BY DEF RefusedWhenFull
<1> QED
  BY <1>1, TypeInit, TypeStep, AccountsInit, AccountsStep, StillNeedsInit, StillNeedsStep,
     SearchedInit, SearchedNext, PTL DEF Spec

(* The mft zone is taken last: a data request allocates outside it, and it *)
(* is given up only when everything outside it is in use.                  *)
THEOREM MftZoneIsKept == Spec => MftZoneIsTakenLast
<1>1. TypeOK /\ Searched /\ KeepsOut /\ [Next]_vars =>
        [/\ mft_zone_end' < mft_zone_end =>
              Cluster \ (mft_zone_start .. mft_zone_end - 1) \subseteq bmp
         /\ req.zone = "DATA_ZONE" /\ pc = "scan" =>
              \A l \in taken' \union (owned' \ owned) :
                 l \in taken \/ ~InMftZone(l)]_vars
  <2> SUFFICES ASSUME TypeOK, Searched, KeepsOut, Next
               PROVE  /\ mft_zone_end' < mft_zone_end =>
                           Cluster \ (mft_zone_start .. mft_zone_end - 1) \subseteq bmp
                      /\ req.zone = "DATA_ZONE" /\ pc = "scan" =>
                           \A l \in taken' \union (owned' \ owned) :
                              l \in taken \/ ~InMftZone(l)
    OBVIOUS
  <2>1. mft_zone_end' < mft_zone_end => ShrinkMftZone
    <3>1. \/ ShrinkMftZone \/ mft_zone_end' = mft_zone_end
          \/ mft_zone_end' = MftLcn + MftZoneSize
      BY DEF Next, AllocStep, Alloc, ScanPastEnd, ScanWindow, ScanCompletes, ScanReadFails,
             ScanWriteFails, ScanNoMemory, SecondPass, EndOfZone, SwitchToData1, SwitchToData2,
             NoSpace, Undo, UndoFails, Free, FreeFails, CrashInAlloc, CrashInFree, Remount,
             UpdateZonePos, zones
    <3>2. mft_zone_end <= MftLcn + MftZoneSize /\ MftLcn + MftZoneSize \in Nat
      BY ZoneSize, VolumeAssumption DEF KeepsOut
    <3> QED
      BY <3>1, <3>2, SearchNumbers
  <2>2. ASSUME req.zone = "DATA_ZONE", pc = "scan"
        PROVE  taken' \union (owned' \ owned) \subseteq taken \union InWindow
    BY <2>2 DEF Next, AllocStep, Alloc, ScanPastEnd, ScanWindow, ScanCompletes, ScanReadFails,
             ScanWriteFails, ScanNoMemory, SecondPass, EndOfZone, SwitchToData1, SwitchToData2,
             NoSpace, ShrinkMftZone, Undo, UndoFails, Free, FreeFails, CrashInAlloc, CrashInFree,
             Return, disk
  <2>3. ASSUME req.zone = "DATA_ZONE", pc = "scan", NEW l \in InWindow
        PROVE  ~InMftZone(l)
    <3>1. bmp_pos <= l /\ l < zone_end /\ l \in Nat
      BY InWindowFree, SearchNumbers
    <3>2. search_zone \in {"data1", "data2"}
      BY <2>3, SearchNumbers DEF KeepsOut, Searching, Zones
    <3>3. CASE search_zone = "data1"
      BY <2>3, <3>1, <3>3, SearchNumbers DEF KeepsOut, Searching, InMftZone
    <3>4. CASE search_zone = "data2"
      BY <2>3, <3>1, <3>4, SearchNumbers DEF KeepsOut, Searching, InMftZone
    <3> QED
      BY <3>2, <3>3, <3>4
  <2> QED
    BY <2>1, <2>2, <2>3, SearchedShrink
<1> QED
  BY <1>1, TypeInit, TypeStep, AccountsInit, AccountsStep, StillNeedsInit, StillNeedsStep,
     SearchedInit, SearchedNext, PTL DEF Spec, MftZoneIsTakenLast
=============================================================================
