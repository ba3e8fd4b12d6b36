--------------------------- MODULE FirmwareProofs ---------------------------
(***************************************************************************)
(* Firmware updates survive power failures and failing flash operations,   *)
(* for every partition, every set of images and any number of faults. The  *)
(* two results about what start_application runs need Proviso: more than   *)
(* one sector, and no image that reaches the marks. Run FirmwareLarge      *)
(* shows what happens without the latter.                                  *)
(***************************************************************************)
EXTENDS FirmwareUpdate, TLAPS

Proviso ==
    /\ Sectors > 1
    /\ \A img \in Image : Reach[img] # "marks"

(* Parts are stored from the first on, each once. *)
StoredSoFar == stage = "data" => \A i \in 1..count : app[i] = Part(image, i)

StorageInv == TypeOK /\ StoredSoFar /\ EndsWhole

(* The marks hold the device in the boot code. *)
Held == Requested \/ Unfinished
MarksBlank == endMark = "blank" /\ startMark = "blank" /\ requestMark = "blank"

(* The inductive invariant while no mark is missing: the first sector is   *)
(* blank, or the marks hold the device, or what it would start is whole.   *)
(* An erase or a write that is cut off must find one of the three in place *)
(* already.                                                                *)
Safeguards ==
    /\ stage \in {"app", "request", "reset", "done"} => Whole
    /\ stage = "off" => app[1] = Blank \/ Held \/ Whole
    /\ stage \in {"idle", "erase"} => app[1] = Blank \/ Held
    /\ stage = "erase" /\ count > 0 => app[1] = Blank
    /\ stage \in {"marks", "copyB", "start"} => app[1] = Blank
    /\ stage \in {"copyB", "start"} => MarksBlank
    /\ stage \in {"data", "end"} => Unfinished /\ ~Requested
    /\ stage = "done" => ~Held

(* The erase loop begins with the first sector, whatever the marks say:    *)
(* this is where an erase of the marks finds its safeguard.                *)
FirstErased ==
    /\ stage = "erase" /\ count > 0 => app[1] = Blank
    /\ stage = "marks" => app[1] = Blank

BootInv == FirstErased /\ (unguarded \/ Safeguards)

IInv == StorageInv /\ BootInv

marks == <<endMark, startMark, requestMark>>

-----------------------------------------------------------------------------
LEMMA Contents ==
    /\ Blank \in Content /\ Torn \in Content
    /\ \A img \in Image : \A i \in Sector : Part(img, i) \in Content /\ Part(img, i) # Blank
  BY PartitionAssumption DEF Content, Blank, Torn, Part

LEMMA SectorBounds ==
    /\ Sectors \in Nat /\ Sectors > 0 /\ Sectors \in Sector /\ 1 \in Sector
    /\ \A img \in Image : ImageSize[img] \in Nat /\ ImageSize[img] >= 1 /\ ImageSize[img] <= Sectors
    /\ \A i : i \in Sector <=> i \in Nat /\ 1 <= i /\ i <= Sectors
  BY PartitionAssumption, SMT DEF Sector

(* The flash operations keep every value in its range. *)
LEMMA SectorErasedType ==
    ASSUME PartitionTypeOK, NEW s \in Sector, SectorErased(s) \/ SectorHalfErased(s)
    PROVE  PartitionTypeOK'
<1>1. app' \in [Sector -> Content]
  <2>1. \A c \in HalfContent(app[s]) : c \in Content
    BY Contents DEF PartitionTypeOK, HalfContent
  <2>2. QED
    BY <2>1, Contents DEF PartitionTypeOK, SectorErased, SectorHalfErased
<1>2. /\ endMark' \in Mark /\ startMark' \in Mark /\ requestMark' \in Mark
      /\ copyA' \in UserData /\ copyB' \in UserData
  BY DEF PartitionTypeOK, SectorErased, SectorHalfErased, trailer, Mark, UserData, HalfMark, HalfCopy
<1>3. QED
  BY <1>1, <1>2 DEF PartitionTypeOK

LEMMA PartType ==
    ASSUME PartitionTypeOK, NEW img \in Image, NEW i \in Sector,
           PartProgrammed(img, i) \/ PartHalfProgrammed(i) \/ PartRunsIntoTrailer(img, i)
    PROVE  PartitionTypeOK'
<1>1. app' \in [Sector -> Content]
  BY Contents DEF PartitionTypeOK, PartProgrammed, PartHalfProgrammed, PartRunsIntoTrailer
<1>2. /\ endMark' \in Mark /\ startMark' \in Mark /\ requestMark' \in Mark
      /\ copyA' \in UserData /\ copyB' \in UserData
  BY DEF PartitionTypeOK, PartProgrammed, PartHalfProgrammed, PartRunsIntoTrailer, trailer, Mark, UserData
<1>3. QED
  BY <1>1, <1>2 DEF PartitionTypeOK

(* The sector the pending erase or write is about. *)
LEMMA NextSector ==
    ASSUME TypeOK, stage \in {"erase", "data"}
    PROVE  /\ image \in Image /\ count \in Nat /\ count + 1 \in Sector
           /\ count < ImageSize[image] /\ ImageSize[image] \in Nat /\ ImageSize[image] <= Sectors
<1>1. image \in Image /\ count < ImageSize[image] /\ count \in 0..Sectors
  BY DEF TypeOK
<1>2. QED
  BY <1>1, SectorBounds, SMT

(* Whatever a power failure cuts off. *)
LEMMA CutOffType ==
    ASSUME TypeOK, CutOff
    PROVE  PartitionTypeOK'
<1>0. PartitionTypeOK
  BY DEF TypeOK
<1>1. CASE UNCHANGED flash
  BY <1>0, <1>1 DEF flash, trailer, PartitionTypeOK
<1>2. CASE stage = "erase" /\ SectorHalfErased(count + 1)
  BY <1>0, <1>2, NextSector, SectorErasedType
<1>3. CASE stage = "marks" /\ SectorHalfErased(Sectors)
  BY <1>0, <1>3, SectorBounds, SectorErasedType
<1>4. CASE stage = "data" /\ (PartHalfProgrammed(count + 1) \/ PartRunsIntoTrailer(image, count + 1))
  BY <1>0, <1>4, NextSector, PartType
<1>5. CASE /\ app' = app /\ endMark' \in Mark /\ startMark' \in Mark /\ requestMark' \in Mark
           /\ copyA' \in UserData /\ copyB' \in UserData
  BY <1>0, <1>5 DEF PartitionTypeOK
<1>6. QED
  BY <1>0, <1>1, <1>2, <1>3, <1>4, <1>5
     DEF CutOff, PartitionTypeOK, HalfMarked, HalfCopied, Mark, UserData

-----------------------------------------------------------------------------
LEMMA InitStorage == Init => StorageInv
<1> SUFFICES ASSUME Init PROVE StorageInv
  OBVIOUS
<1>1. PartitionTypeOK
  <2>1. app \in [Sector -> Content]
    BY Contents, SectorBounds, SMT DEF Init, PartitionInit
  <2>2. QED
    BY <2>1 DEF Init, PartitionInit, PartitionTypeOK, Mark, UserData
<1>2. 0 \in 0..Sectors /\ 0 \in 0..MaxFaults
  BY SectorBounds, FaultAssumption, SMT
<1>3. QED
  BY <1>1, <1>2 DEF Init, StorageInv, TypeOK, StoredSoFar, EndsWhole, Stage, UserData

(* A fault is counted and stays within the bound. *)
LEMMA FaultCounted ==
    ASSUME TypeOK, NEW kind, Fault(kind)
    PROVE  faults' \in 0..MaxFaults /\ kind \in FaultKinds
  BY FaultAssumption, SMT DEF Fault, TypeOK

LEMMA WrittenCounted ==
    ASSUME TypeOK, WriteCopyA \/ WriteRequest \/ WriteCopyB \/ WriteStart \/ EndToBoot
    PROVE  faults' \in 0..MaxFaults
<1>1. CASE UNCHANGED faults
  BY <1>1 DEF TypeOK
<1>2. CASE Fault("marks")
  BY <1>2, FaultCounted
<1>3. QED
  BY <1>1, <1>2 DEF WriteCopyA, WriteRequest, WriteCopyB, WriteStart, EndToBoot,
     CopyWritten, MarkWritten, Written

(* Marks and copies in their range whichever way their writes end. *)
LEMMA WrittenType ==
    ASSUME PartitionTypeOK, TypeOK, WriteCopyA \/ WriteRequest \/ WriteCopyB \/ WriteStart \/ EndToBoot
    PROVE  PartitionTypeOK' /\ app' = app
<1>1. CASE WriteCopyA
  BY <1>1 DEF WriteCopyA, CopyWritten, Written, Programmed, HalfCopied, PartitionTypeOK, UserData
<1>2. CASE WriteRequest
  BY <1>2 DEF WriteRequest, MarkWritten, Written, Zeroed, HalfMarked, PartitionTypeOK, Mark
<1>3. CASE WriteCopyB
  BY <1>3 DEF WriteCopyB, CopyWritten, Written, Programmed, HalfCopied, PartitionTypeOK, UserData, TypeOK
<1>4. CASE WriteStart
  BY <1>4 DEF WriteStart, MarkWritten, Written, Zeroed, HalfMarked, PartitionTypeOK, Mark
<1>5. CASE EndToBoot
  BY <1>5 DEF EndToBoot, MarkWritten, Written, Zeroed, HalfMarked, PartitionTypeOK, Mark
<1>6. QED
  BY <1>1, <1>2, <1>3, <1>4, <1>5

LEMMA StepUnguarded ==
    ASSUME TypeOK, [Next]_vars
    PROVE  unguarded' \in BOOLEAN
  BY DEF TypeOK, Next, Runs, vars, Boots, WriteCopyA, WriteRequest, Reset, FileNamed, FileRefused, EraseApp,
     EraseMarks, WriteCopyB, WriteStart, RecvFileData, EndToBoot, TransferFails, PowerFails, UnguardedIfItFails

(* A step that leaves the image and the partition's parts alone keeps what *)
(* they add up to.                                                         *)
LEMMA SameApp ==
    ASSUME app' = app
    PROVE  /\ Whole' = Whole
           /\ image' = image => Holds(image)' = Holds(image)
  BY DEF Whole, Holds

LEMMA StepStorage ==
    ASSUME StorageInv, [Next]_vars
    PROVE  StorageInv'
<1>0. TypeOK /\ PartitionTypeOK /\ unguarded' \in BOOLEAN
  BY StepUnguarded DEF StorageInv, TypeOK
<1>1. CASE UNCHANGED vars
  BY <1>1 DEF vars, flash, trailer, ram, StorageInv, TypeOK, PartitionTypeOK, StoredSoFar, EndsWhole, Holds
<1>2. CASE Boots
  BY <1>0, <1>2 DEF Boots, GoesTo, flash, trailer, TypeOK, PartitionTypeOK, Stage, UserData,
     StorageInv, StoredSoFar, EndsWhole
<1>3. CASE WriteCopyA \/ WriteRequest
  BY <1>0, <1>3, WrittenCounted, WrittenType
     DEF WriteCopyA, WriteRequest, GoesTo, TypeOK, Stage, UserData, StorageInv, StoredSoFar, EndsWhole
<1>4. CASE Reset
  <2>1. 0 \in 0..Sectors
    BY SectorBounds, SMT
  <2>2. QED
    BY <1>0, <1>4, <2>1 DEF Reset, ForgetsRam, flash, trailer, TypeOK, PartitionTypeOK, Stage, UserData,
       StorageInv, StoredSoFar, EndsWhole
<1>5. CASE FileNamed
  <2>1. 0 \in 0..Sectors /\ 0 < ImageSize[image'] /\ image' \in Image
    BY <1>5, SectorBounds, SMT DEF FileNamed
  <2>2. faults' \in 0..MaxFaults
    BY <1>0, <1>5, FaultCounted DEF FileNamed, TypeOK
  <2>3. QED
    BY <1>0, <1>5, <2>1, <2>2 DEF FileNamed, GoesTo, flash, trailer, TypeOK, PartitionTypeOK, Stage,
       UserData, StorageInv, StoredSoFar, EndsWhole
<1>6. CASE FileRefused
  BY <1>1, <1>6 DEF FileRefused
<1>7. CASE EraseApp
  <2>1. PartitionTypeOK'
    BY <1>0, <1>7, NextSector, SectorErasedType DEF EraseApp
  <2>2. /\ count' \in 0..Sectors /\ faults' \in 0..MaxFaults
        /\ stage' = "erase" => count' < ImageSize[image]
    BY <1>0, <1>7, NextSector, FaultCounted, SectorBounds, SMT
       DEF EraseApp, GoesTo, SectorsNeeded, TypeOK
  <2>3. stage' \in {"erase", "marks", "idle"} /\ image' = image /\ image \in Image
        /\ chUserData' = chUserData
    BY <1>0, <1>7, NextSector DEF EraseApp, GoesTo
  <2>4. QED
    BY <1>0, <2>1, <2>2, <2>3 DEF TypeOK, Stage, StorageInv, StoredSoFar, EndsWhole
<1>8. CASE EraseMarks
  <2>1. PartitionTypeOK'
    BY <1>0, <1>8, SectorBounds, SectorErasedType DEF EraseMarks
  <2>2. faults' \in 0..MaxFaults
    BY <1>0, <1>8, FaultCounted DEF EraseMarks, TypeOK
  <2>3. QED
    BY <1>0, <1>8, <2>1, <2>2 DEF EraseMarks, GoesTo, TypeOK, Stage, StorageInv, StoredSoFar, EndsWhole
<1>9. CASE WriteCopyB
  BY <1>0, <1>9, WrittenCounted, WrittenType DEF WriteCopyB, GoesTo, TypeOK, Stage, StorageInv, StoredSoFar, EndsWhole
<1>10. CASE WriteStart
  <2>1. image \in Image /\ 0 \in 0..Sectors /\ 0 < ImageSize[image]
    BY <1>0, <1>10, SectorBounds, SMT DEF WriteStart, TypeOK
  <2>2. \A i \in 1..0 : app[i] = Part(image, i)
    BY SMT
  <2>3. QED
    BY <1>0, <1>10, <2>1, <2>2, WrittenCounted, WrittenType
       DEF WriteStart, GoesTo, TypeOK, Stage, StorageInv, StoredSoFar, EndsWhole
<1>11. CASE RecvFileData
  <2>1. PartitionTypeOK'
    BY <1>0, <1>11, NextSector, PartType DEF RecvFileData
  <2>2. /\ count' \in 0..Sectors /\ faults' \in 0..MaxFaults
        /\ stage' = "data" => count' < ImageSize[image]
    BY <1>0, <1>11, NextSector, FaultCounted, SectorBounds, SMT DEF RecvFileData, GoesTo, TypeOK
  <2>3. stage' \in {"data", "end", "idle"} /\ image' = image /\ image \in Image
        /\ chUserData' = chUserData
    BY <1>0, <1>11, NextSector DEF RecvFileData, GoesTo
  <2>4. TypeOK'
    BY <1>0, <2>1, <2>2, <2>3 DEF TypeOK, Stage
  <2>5. ASSUME stage' \in {"data", "end"}
        PROVE  /\ count' = count + 1 /\ app' = [app EXCEPT ![count + 1] = Part(image, count + 1)]
               /\ stage' = "end" => ImageSize[image] = count + 1
    BY <1>0, <1>11, <2>5, NextSector, SMT DEF RecvFileData, PartProgrammed, GoesTo
  <2>6. ASSUME stage' \in {"data", "end"}, NEW i \in 1..(count + 1)
        PROVE  app'[i] = Part(image, i)
    <3>1. i \in Sector /\ (i = count + 1 \/ i \in 1..count)
      BY <1>0, <1>11, <2>6, NextSector, SectorBounds, SMT DEF RecvFileData
    <3>2. \A k \in 1..count : app[k] = Part(image, k)
      BY <1>11 DEF RecvFileData, StorageInv, StoredSoFar
    <3>3. QED
      BY <1>0, <2>5, <2>6, <3>1, <3>2 DEF PartitionTypeOK
  <2>7. StoredSoFar' /\ EndsWhole'
    BY <2>3, <2>5, <2>6 DEF StoredSoFar, EndsWhole, Holds
  <2>8. QED
    BY <2>4, <2>7 DEF StorageInv
<1>12. CASE EndToBoot
  BY <1>0, <1>12, WrittenCounted, WrittenType
     DEF EndToBoot, GoesTo, TypeOK, Stage, StorageInv, StoredSoFar, EndsWhole, Holds
<1>13. CASE TransferFails
  <2>1. faults' \in 0..MaxFaults
    BY <1>0, <1>13, FaultCounted DEF TransferFails
  <2>2. QED
    BY <1>0, <1>13, <2>1 DEF TransferFails, GoesTo, flash, trailer, TypeOK, PartitionTypeOK, Stage,
       StorageInv, StoredSoFar, EndsWhole
<1>14. CASE PowerFails
  <2>1. PartitionTypeOK'
    BY <1>0, <1>14, CutOffType DEF PowerFails
  <2>2. faults' \in 0..MaxFaults /\ 0 \in 0..Sectors
    BY <1>0, <1>14, FaultCounted, SectorBounds, SMT DEF PowerFails
  <2>3. QED
    BY <1>14, <2>1, <2>2 DEF PowerFails, ForgetsRam, TypeOK, Stage, UserData, StorageInv, StoredSoFar, EndsWhole
<1>15. QED
  BY <1>1, <1>2, <1>3, <1>4, <1>5, <1>6, <1>7, <1>8, <1>9, <1>10, <1>11, <1>12, <1>13, <1>14 DEF Next, Runs

-----------------------------------------------------------------------------
(* From here on the marks are written by the boot code alone.              *)
LEMMA ProvisoFacts ==
    ASSUME Proviso
    PROVE  /\ 1 \in Sector /\ 1 # Sectors /\ 1 < Sectors
           /\ image \in Image => Reach[image] # "marks"
  BY SectorBounds, SMT DEF Proviso

(* A mark whose failing write would leave the device unguarded, written.   *)
LEMMA Noticed ==
    ASSUME TypeOK, UnguardedIfItFails, ~unguarded'
    PROVE  ~Fault("marks")
<1>1. faults \in Nat
  BY FaultAssumption, SMT DEF TypeOK
<1>2. faults' = faults
  BY Zenon DEF UnguardedIfItFails
<1>3. Fault("marks") => faults' = faults + 1
  BY DEF Fault
<1>4. QED
  BY <1>1, <1>2, <1>3, SMT

(* Erasing, in full or in part, a sector before the last leaves the marks. *)
LEMMA ErasedEarly ==
    ASSUME NEW s, s < Sectors, SectorErased(s) \/ SectorHalfErased(s)
    PROVE  UNCHANGED marks
  BY DEF SectorErased, SectorHalfErased, trailer, marks

(* A blank first sector stays blank under any erase. *)
LEMMA BlankStays ==
    ASSUME TypeOK, NEW s \in Sector, app[1] = Blank, SectorErased(s) \/ SectorHalfErased(s)
    PROVE  app'[1] = Blank
  BY SectorBounds DEF TypeOK, PartitionTypeOK, SectorErased, SectorHalfErased, HalfContent

(* The marks hold the device as before while they are untouched.          *)
LEMMA HeldKept ==
    ASSUME UNCHANGED marks
    PROVE  Held' = Held /\ Unfinished' = Unfinished /\ Requested' = Requested /\ MarksBlank' = MarksBlank
  BY DEF marks, Held, Unfinished, Requested, MarksBlank

LEMMA StepFirstErased ==
    ASSUME TypeOK, FirstErased, [Next]_vars
    PROVE  FirstErased'
<1>1. CASE UNCHANGED vars
  BY <1>1 DEF vars, ram, flash, FirstErased
<1>2. CASE FileNamed
  <2>1. ~(0 > 0)
    BY SMT
  <2>2. QED
    BY <1>2, <2>1 DEF FileNamed, GoesTo, FirstErased
<1>3. CASE EraseApp
  <2>0. /\ stage = "erase" /\ (count > 0 => app[1] = Blank)
        /\ count \in Nat /\ count + 1 \in Sector
    BY <1>3, NextSector DEF EraseApp, FirstErased
  <2>1. CASE SectorErased(count + 1)
    <3>1. CASE count = 0
      BY <2>0, <2>1, <3>1, SectorBounds, SMT DEF SectorErased, TypeOK, PartitionTypeOK, FirstErased
    <3>2. CASE count > 0
      BY <2>0, <2>1, <3>2, BlankStays DEF FirstErased
    <3>3. QED
      BY <2>0, <3>1, <3>2, SMT
  <2>2. CASE stage' = "idle"
    BY <2>2 DEF FirstErased
  <2>3. QED
    BY <1>3, <2>1, <2>2 DEF EraseApp, GoesTo
<1>4. CASE stage' \notin {"erase", "marks"}
  BY <1>4 DEF FirstErased
<1>5. QED
  BY <1>1, <1>2, <1>3, <1>4
     DEF Next, Runs, Boots, WriteCopyA, WriteRequest, Reset, ForgetsRam, FileRefused, EraseMarks, WriteCopyB,
         WriteStart, RecvFileData, EndToBoot, TransferFails, PowerFails, GoesTo

LEMMA StepBootErase ==
    ASSUME Proviso, TypeOK, Safeguards, EraseApp
    PROVE  Safeguards'
<1>0. /\ stage = "erase" /\ (app[1] = Blank \/ Held) /\ (count > 0 => app[1] = Blank)
      /\ count \in Nat /\ count + 1 \in Sector
  BY NextSector DEF EraseApp, Safeguards
<1>1. CASE SectorErased(count + 1) /\ count' = count + 1 /\ stage' \in {"erase", "marks"}
  <2>1. app'[1] = Blank
    <3>1. CASE count = 0
      BY <1>0, <1>1, <3>1, SectorBounds, SMT DEF SectorErased, TypeOK, PartitionTypeOK
    <3>2. CASE count > 0
      BY <1>0, <1>1, <3>2, BlankStays
    <3>3. QED
      BY <1>0, <3>1, <3>2, SMT
  <2>2. QED
    BY <1>1, <2>1 DEF Safeguards
<1>2. CASE SectorHalfErased(count + 1) /\ stage' = "idle"
  <2>1. CASE count = 0
    <3>1. count + 1 = 1 /\ 1 < Sectors
      BY <2>1, ProvisoFacts, SMT
    <3>2. UNCHANGED marks
      BY <1>2, <3>1, ErasedEarly
    <3>3. app[1] = Blank => app'[1] = Blank
      BY <1>0, <1>2, BlankStays
    <3>4. QED
      BY <1>0, <1>2, <3>2, <3>3, HeldKept DEF Safeguards
  <2>2. CASE count > 0
    BY <1>0, <1>2, <2>2, BlankStays DEF Safeguards
  <2>3. QED
    BY <1>0, <2>1, <2>2, SMT
<1>3. QED
  BY <1>1, <1>2 DEF EraseApp, GoesTo

(* Power failures: each operation is cut off with one of the three         *)
(* safeguards in place before and after it.                                *)
LEMMA StepBootPower ==
    ASSUME Proviso, StorageInv, Safeguards, PowerFails
    PROVE  Safeguards'
<1>0. stage' = "off" /\ TypeOK
  BY DEF PowerFails, ForgetsRam, StorageInv
<1> SUFFICES app'[1] = Blank \/ Held' \/ Whole'
  BY <1>0 DEF Safeguards
<1>1. CASE UNCHANGED flash
  <2>1. app' = app /\ UNCHANGED marks
    BY <1>1 DEF flash, trailer, marks
  <2>2. app[1] = Blank \/ Held \/ Whole
    <3>1. CASE stage \in {"app", "request", "reset", "done"}
      BY <3>1 DEF Safeguards
    <3>2. CASE stage \in {"off", "idle", "erase", "marks", "copyB", "start"}
      BY <3>2 DEF Safeguards
    <3>3. CASE stage \in {"data", "end"}
      BY <3>3 DEF Safeguards, Held
    <3>4. QED
      BY <1>0, <3>1, <3>2, <3>3 DEF TypeOK, Stage
  <2>3. QED
    BY <2>1, <2>2, HeldKept, SameApp
<1>2. CASE stage = "erase" /\ SectorHalfErased(count + 1)
  <2>1. (app[1] = Blank \/ Held) /\ (count > 0 => app[1] = Blank) /\ count \in Nat /\ count + 1 \in Sector
    BY <1>0, <1>2, NextSector DEF Safeguards
  <2>2. app[1] = Blank => app'[1] = Blank
    BY <1>0, <1>2, <2>1, BlankStays
  <2>3. ~(count > 0) => count + 1 = 1 /\ 1 < Sectors
    BY <2>1, ProvisoFacts, SMT
  <2>4. ~(count > 0) => UNCHANGED marks
    BY <1>2, <2>3, ErasedEarly
  <2>5. QED
    BY <2>1, <2>2, <2>4, HeldKept
<1>3. CASE stage = "marks" /\ SectorHalfErased(Sectors)
  BY <1>0, <1>3, SectorBounds, BlankStays DEF Safeguards
<1>4. CASE stage = "data" /\ (PartHalfProgrammed(count + 1) \/ PartRunsIntoTrailer(image, count + 1))
  <2>1. UNCHANGED marks /\ Unfinished
    BY <1>4, ProvisoFacts, NextSector, <1>0
       DEF PartHalfProgrammed, PartRunsIntoTrailer, trailer, marks, Safeguards
  <2>2. QED
    BY <2>1, HeldKept DEF Held
<1>5. CASE app' = app /\ stage \in {"app", "request", "copyB", "start", "end"}
  <2>1. CASE stage \in {"app", "request"}
    BY <1>5, <2>1, SameApp DEF Safeguards
  <2>2. CASE stage \in {"copyB", "start"}
    BY <1>5, <2>2 DEF Safeguards
  <2>3. CASE stage = "end"
    <3>1. image \in Image /\ Holds(image)
      BY <1>0, <2>3 DEF StorageInv, EndsWhole, TypeOK
    <3>2. QED
      BY <1>5, <3>1, SameApp DEF Whole
  <2>4. QED
    BY <1>5, <2>1, <2>2, <2>3
<1>6. QED
  BY <1>1, <1>2, <1>3, <1>4, <1>5 DEF PowerFails, CutOff

LEMMA StepSafeguards ==
    ASSUME Proviso, StorageInv, Safeguards, [Next]_vars, ~unguarded'
    PROVE  Safeguards'
<1>0. TypeOK
  BY DEF StorageInv
<1>1. CASE UNCHANGED vars
  <2>1. app' = app /\ UNCHANGED marks /\ stage' = stage /\ count' = count
    BY <1>1 DEF vars, flash, trailer, marks, ram
  <2>2. QED
    BY <2>1, HeldKept, SameApp DEF Safeguards
<1>2. CASE Boots
  <2>1. app' = app /\ UNCHANGED marks /\ stage = "off"
    BY <1>2 DEF Boots, flash, trailer, marks
  <2>2. stage' = "app" => ~Held /\ app[1] # Blank
    BY <1>2 DEF Boots, GoesTo, Held, VectorsMayBeValid
  <2>3. stage' \in {"app", "idle"}
    BY <1>2 DEF Boots, GoesTo
  <2>4. stage' = "idle" => Held \/ app[1] \in {Blank, Torn}
    BY <1>2 DEF Boots, GoesTo, Held, VectorsMayBeInvalid
  <2>5. Whole => app[1] # Torn
    <3>1. \A img \in Image : 1 \in 1..ImageSize[img] /\ Part(img, 1) # Torn
      BY SectorBounds, PartitionAssumption, SMT DEF Part, Torn
    <3>2. QED
      BY <3>1 DEF Whole, Holds
  <2>6. Whole \/ Held \/ app[1] = Blank
    BY <2>1 DEF Safeguards
  <2>7. QED
    BY <2>1, <2>2, <2>3, <2>4, <2>5, <2>6, HeldKept, SameApp DEF Safeguards
<1>3. CASE WriteCopyA \/ WriteRequest
  <2>1. app' = app /\ stage \in {"app", "request"} /\ stage' \in {"request", "reset"}
    BY <1>3 DEF WriteCopyA, WriteRequest, GoesTo
  <2>2. QED
    BY <2>1, SameApp DEF Safeguards
<1>4. CASE Reset
  <2>1. app' = app /\ stage \in {"reset", "done"} /\ stage' = "off"
    BY <1>4 DEF Reset, ForgetsRam, flash
  <2>2. QED
    BY <2>1, SameApp DEF Safeguards
<1>5. CASE FileNamed
  <2>1. stage = "idle"
    BY <1>5 DEF FileNamed
  <2>2. app' = app /\ UNCHANGED marks /\ count' = 0 /\ stage' = "erase"
    BY <1>5 DEF FileNamed, GoesTo, flash, trailer, marks
  <2>3. ~(0 > 0)
    BY SMT
  <2>4. QED
    BY <2>1, <2>2, <2>3, HeldKept DEF Safeguards
<1>6. CASE FileRefused
  BY <1>1, <1>6 DEF FileRefused
<1>7. CASE EraseApp
  BY <1>0, <1>7, StepBootErase
<1>8. CASE EraseMarks
  <2>1. SectorErased(Sectors) /\ stage = "marks" /\ stage' = "copyB"
    BY <1>8 DEF EraseMarks, GoesTo
  <2>2. app'[1] = Blank /\ MarksBlank'
    BY <1>0, <2>1, SectorBounds, BlankStays DEF Safeguards, SectorErased, MarksBlank
  <2>3. QED
    BY <2>1, <2>2 DEF Safeguards
<1>9. CASE WriteCopyB
  <2>1. app' = app /\ stage = "copyB" /\ stage' = "start" /\ MarksBlank' = MarksBlank
    BY <1>9 DEF WriteCopyB, GoesTo, MarksBlank
  <2>2. QED
    BY <2>1 DEF Safeguards
<1>10. CASE WriteStart
  <2>1. MarksBlank /\ stage' = "data"
    BY <1>10 DEF WriteStart, GoesTo, Safeguards
  <2>2. Unfinished' /\ ~Requested'
    BY <1>0, <1>10, <2>1, Noticed DEF WriteStart, MarkWritten, Written, MarksBlank, Zeroed, Unfinished, Requested
  <2>3. QED
    BY <2>1, <2>2 DEF Safeguards
<1>11. CASE RecvFileData
  <2>1. UNCHANGED marks /\ Unfinished /\ ~Requested /\ stage' \in {"data", "end", "idle"}
    BY <1>0, <1>11, NextSector, ProvisoFacts
       DEF RecvFileData, PartProgrammed, PartHalfProgrammed, PartRunsIntoTrailer, trailer, marks, GoesTo, Safeguards
  <2>2. QED
    BY <2>1, HeldKept DEF Safeguards, Held
<1>12. CASE EndToBoot
  <2>1. app' = app /\ stage = "end" /\ stage' = "done" /\ Unfinished /\ ~Requested
    BY <1>12 DEF EndToBoot, GoesTo, Safeguards
  <2>2. ~Unfinished' /\ ~Requested'
    BY <1>0, <1>12, <2>1, Noticed DEF EndToBoot, MarkWritten, Written, Zeroed, Unfinished, Requested
  <2>3. Whole'
    <3>1. image \in Image /\ Holds(image)
      BY <1>0, <2>1 DEF StorageInv, EndsWhole, TypeOK
    <3>2. QED
      BY <2>1, <3>1, SameApp DEF Whole
  <2>4. QED
    BY <2>1, <2>2, <2>3 DEF Safeguards, Held
<1>13. CASE TransferFails
  <2>1. UNCHANGED marks /\ Unfinished /\ stage' = "idle"
    BY <1>13 DEF TransferFails, GoesTo, flash, trailer, marks, Safeguards
  <2>2. QED
    BY <2>1, HeldKept DEF Safeguards, Held
<1>14. CASE PowerFails
  BY <1>14, StepBootPower
<1>15. QED
  BY <1>1, <1>2, <1>3, <1>4, <1>5, <1>6, <1>7, <1>8, <1>9, <1>10, <1>11, <1>12, <1>13, <1>14 DEF Next, Runs

(* Once unguarded, it is a successful erase of the marks that puts the     *)
(* safeguards back: the first sector is blank by then.                     *)
LEMMA StepBoot ==
    ASSUME Proviso, StorageInv, BootInv, [Next]_vars
    PROVE  BootInv'
<1>0. TypeOK /\ FirstErased /\ FirstErased'
  BY StepFirstErased DEF StorageInv, BootInv
<1>1. CASE unguarded'
  BY <1>0, <1>1 DEF BootInv
<1>2. CASE ~unguarded' /\ Safeguards
  BY <1>0, <1>2, StepSafeguards DEF BootInv
<1>3. CASE ~unguarded' /\ unguarded
  <2>1. EraseMarks /\ SectorErased(Sectors)
    BY <1>3 DEF Next, Runs, vars, Boots, WriteCopyA, WriteRequest, Reset, FileNamed, FileRefused, EraseApp,
       EraseMarks, WriteCopyB, WriteStart, RecvFileData, EndToBoot, TransferFails, PowerFails, UnguardedIfItFails
  <2>2. app'[1] = Blank /\ MarksBlank' /\ stage' = "copyB"
    BY <1>0, <2>1, SectorBounds, BlankStays DEF FirstErased, EraseMarks, SectorErased, MarksBlank, GoesTo
  <2>3. Safeguards'
    BY <2>2 DEF Safeguards
  <2>4. QED
    BY <1>0, <2>3 DEF BootInv
<1>4. QED
  BY <1>1, <1>2, <1>3 DEF BootInv

LEMMA InitBoot == Init => BootInv
<1> SUFFICES ASSUME Init PROVE BootInv
  OBVIOUS
<1>1. app[1] = Blank \/ Whole
  <2>1. CASE app = [i \in Sector |-> Blank]
    BY <2>1, SectorBounds
  <2>2. ASSUME NEW img \in Image,
               app = [i \in Sector |-> IF i <= ImageSize[img] THEN Part(img, i) ELSE Blank]
        PROVE  Whole
    <3>1. \A i \in 1..ImageSize[img] : i \in Sector /\ i <= ImageSize[img]
      BY SectorBounds, SMT
    <3>2. QED
      BY <2>2, <3>1 DEF Whole, Holds
  <2>3. QED
    BY <2>1, <2>2 DEF Init, PartitionInit
<1>2. QED
  BY <1>1 DEF Init, BootInv, FirstErased, Safeguards

-----------------------------------------------------------------------------
(* Every mark, copy and sector keeps its range, the erase loop stays       *)
(* within the partition, and nothing is written before a file is named,    *)
(* whatever fails.                                                         *)
THEOREM FirmwareTypeOK == Spec => []TypeOK
<1>1. StorageInv => TypeOK
  BY DEF StorageInv
<1>2. StorageInv /\ [Next]_vars => StorageInv'
  BY StepStorage
<1>3. QED
  BY <1>1, <1>2, InitStorage, PTL DEF Spec

(* Whatever fails, end_to_boot runs only after every part of the announced *)
(* image has been stored.                                                  *)
THEOREM FirmwareEndsWhole == Spec => []EndsWhole
<1>1. StorageInv => EndsWhole
  BY DEF StorageInv
<1>2. StorageInv /\ [Next]_vars => StorageInv'
  BY StepStorage
<1>3. QED
  BY <1>1, <1>2, InitStorage, PTL DEF Spec

LEMMA StepIInv == ASSUME Proviso, IInv, [Next]_vars PROVE IInv'
  BY StepStorage, StepBoot DEF IInv

(* What start_application jumps to is whole, wherever the power failed and *)
(* whatever operation did, unless a mark that protects the update failed   *)
(* unnoticed and the marks have not been erased since (unguarded).         *)
THEOREM FirmwareRunsWhole == ASSUME Proviso PROVE Spec => []RunsWhole
<1>1. Init => IInv
  BY InitStorage, InitBoot DEF IInv
<1>2. IInv /\ [Next]_vars => IInv'
  BY StepIInv
<1>3. IInv => RunsWhole
  BY DEF IInv, BootInv, Safeguards, RunsWhole
<1>4. QED
  BY <1>1, <1>2, <1>3, PTL DEF Spec

(* Once end_to_boot has run, a reset starts the application and does not   *)
(* wait for another update, wherever the power fails from then on; again   *)
(* unless the update is unguarded.                                         *)
THEOREM FirmwareCompletedStarts == ASSUME Proviso PROVE Spec => []CompletedStarts
<1>1. Init => IInv
  BY InitStorage, InitBoot DEF IInv
<1>2. IInv /\ [Next]_vars => IInv'
  BY StepIInv
<1>3. IInv => CompletedStarts
  BY DEF IInv, StorageInv, BootInv, Safeguards, EndsWhole, CompletedStarts, Held
<1>4. QED
  BY <1>1, <1>2, <1>3, PTL DEF Spec
=============================================================================
