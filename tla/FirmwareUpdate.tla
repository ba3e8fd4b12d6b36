--------------------------- MODULE FirmwareUpdate ---------------------------
(***************************************************************************)
(* How firmware is replaced: bootloader/bootloader.c and the callbacks of  *)
(* example/check_ymodem_receive_agent.c that write what ymodem_receive     *)
(* delivers. Each flash operation is a step, and the power may fail in the *)
(* middle of any of them; RAM is then lost and start_application decides   *)
(* from the marks what runs.                                               *)
(***************************************************************************)
EXTENDS AppPartition

CONSTANTS
    FaultKinds,  \* which faults may occur, of "power", "erase" (a sector of the
                 \* application), "program", "marks" (an erase or a write of marks
                 \* and copies, whose result nobody looks at), "abort" (the
                 \* transfer), "another" (file after a complete one)
    MaxFaults    \* bound: how many

ASSUME FaultAssumption ==
    /\ FaultKinds \subseteq {"power", "erase", "marks", "program", "abort", "another"}
    /\ MaxFaults \in Nat

VARIABLES
    stage,       \* what runs: the application, the boot code waiting for a file
                 \* ("idle"), or the flash operation it does next
    image,       \* the file announced by the path packet
    count,       \* sectors erased or parts stored of it
    chUserData,  \* the user data in RAM
    faults,
    unguarded    \* history: a mark that protects the update may be missing or stale

ram == <<stage, image, count, chUserData>>
vars == <<flash, ram, faults, unguarded>>

Stage == {"off", "app", "request", "reset",
          "idle", "erase", "marks", "copyB", "start", "data", "end", "done"}

Init ==
    /\ PartitionInit
    /\ stage = "off" /\ image = NoImage /\ count = 0 /\ chUserData = "none"
    /\ faults = 0 /\ unguarded = FALSE

Fault(kind) == kind \in FaultKinds /\ faults < MaxFaults /\ faults' = faults + 1
GoesTo(next) == stage' = next

(* A write of a mark or a copy, by go_to_boot, start_to_boot or            *)
(* end_to_boot, none of which looks at the result: a failed one leaves     *)
(* nothing, or half of what it should, and the code goes on.               *)
HalfMarked(mark) == IF mark = "blank" THEN "other" ELSE mark
HalfCopied(copy) == IF copy = "blank" THEN "torn" ELSE copy

Written(old, done, half, new) ==
    \/ new = done /\ UNCHANGED faults
    \/ new \in {old, half} /\ Fault("marks")
MarkWritten(mark, new) == Written(mark, Zeroed(mark), HalfMarked(mark), new)
CopyWritten(copy, data, new) == Written(copy, Programmed(copy, data), HalfCopied(copy), new)

UnguardedIfItFails == unguarded' = (unguarded \/ faults' # faults)

-----------------------------------------------------------------------------
(* start_application, before main: the marks first, then the first words   *)
(* of the image. A torn first sector may or may not look like vectors.     *)
Requested == requestMark = "zero"
Unfinished == startMark = "zero" /\ endMark = "blank"
VectorsMayBeValid == app[1] # Blank
VectorsMayBeInvalid == app[1] \in {Blank, Torn}

Boots ==
    /\ stage = "off"
    /\ \/ /\ Requested
          /\ GoesTo("idle") /\ chUserData' = copyA
       \/ /\ ~Requested /\ Unfinished
          /\ GoesTo("idle") /\ chUserData' = copyB
       \/ /\ ~Requested /\ ~Unfinished
          /\ \/ VectorsMayBeValid /\ GoesTo("app")
             \/ VectorsMayBeInvalid /\ GoesTo("idle")
          /\ UNCHANGED chUserData
    /\ UNCHANGED <<flash, image, count, faults, unguarded>>

(* go_to_boot, called by the application: the user data (left out when     *)
(* they are USER_DATA_SIZE long or longer), then the request mark; the     *)
(* application then resets.                                                *)
WriteCopyA ==
    /\ stage = "app"
    /\ \E given \in {"ours", "none"} :
         /\ chUserData' = given
         /\ CopyWritten(copyA, given, copyA')
    /\ GoesTo("request")
    /\ UNCHANGED <<app, endMark, startMark, requestMark, copyB, image, count, unguarded>>

WriteRequest ==
    /\ stage = "request"
    /\ MarkWritten(requestMark, requestMark')
    /\ GoesTo("reset")
    /\ UNCHANGED <<app, endMark, startMark, copyA, copyB, image, count, chUserData, unguarded>>

ForgetsRam == stage' = "off" /\ image' = NoImage /\ count' = 0 /\ chUserData' = "none"

Reset ==
    /\ stage \in {"reset", "done"}
    /\ ForgetsRam
    /\ UNCHANGED <<flash, faults, unguarded>>

-----------------------------------------------------------------------------
(* ymodem_recv_file_name: the name must be that of the user data, if they  *)
(* have one; the sectors the file needs are erased, then start_to_boot.    *)
NameAgrees == chUserData \in {"none", "ours"}

FileNamed ==
    /\ \/ stage = "idle" /\ UNCHANGED <<faults, unguarded>>
       \/ stage = "done" /\ Fault("another") /\ unguarded' = TRUE
    /\ NameAgrees
    /\ image' \in Image /\ count' = 0
    /\ GoesTo("erase")
    /\ UNCHANGED <<flash, chUserData>>

FileRefused ==
    /\ stage \in {"idle", "done"}
    /\ ~NameAgrees
    /\ UNCHANGED vars

SectorsNeeded_OneMore == ImageSize[image] + 1  \* mutant: <= in the erase loop

SectorsNeeded == ImageSize[image]

EraseApp ==
    /\ stage = "erase"
    /\ \/ /\ SectorErased(count + 1)
          /\ count' = count + 1
          /\ GoesTo(IF count + 1 < SectorsNeeded THEN "erase" ELSE "marks")
          /\ UNCHANGED faults
       \/ /\ Fault("erase")
          /\ SectorHalfErased(count + 1)
          /\ GoesTo("idle")
          /\ UNCHANGED count
    /\ UNCHANGED <<image, chUserData, unguarded>>

EraseMarks_Skipped ==  \* mutant: start_to_boot does not erase
    /\ stage = "marks"
    /\ GoesTo("copyB")
    /\ UNCHANGED <<flash, image, count, chUserData, faults, unguarded>>

(* start_to_boot. The erase goes unlooked at as well; one that succeeds    *)
(* takes the marks of every earlier attempt away.                          *)
EraseMarks ==
    /\ stage = "marks"
    /\ \/ SectorErased(Sectors) /\ unguarded' = FALSE /\ UNCHANGED faults
       \/ SectorHalfErased(Sectors) /\ unguarded' = TRUE /\ Fault("marks")
    /\ GoesTo("copyB")
    /\ UNCHANGED <<image, count, chUserData>>

WriteCopyB ==
    /\ stage = "copyB"
    /\ CopyWritten(copyB, chUserData, copyB')
    /\ GoesTo("start")
    /\ UNCHANGED <<app, endMark, startMark, requestMark, copyA, image, count, chUserData, unguarded>>

WriteStart_Skipped ==  \* mutant: no start mark
    /\ stage = "start"
    /\ count' = 0
    /\ GoesTo("data")
    /\ UNCHANGED <<flash, image, chUserData, faults, unguarded>>

WriteStart ==
    /\ stage = "start"
    /\ MarkWritten(startMark, startMark') /\ UnguardedIfItFails
    /\ count' = 0
    /\ GoesTo("data")
    /\ UNCHANGED <<app, endMark, requestMark, copyA, copyB, image, chUserData>>

(* ymodem_recv_file_data: a part is written and read back; the last one is *)
(* followed by end_to_boot.                                                *)
RunsIntoTrailer == count + 1 = Sectors /\ Reach[image] # "body"

RecvFileData_Unchecked ==  \* mutant: the size written is not compared
    /\ stage = "data"
    /\ \/ PartProgrammed(image, count + 1) /\ UNCHANGED faults
       \/ Fault("program") /\ PartHalfProgrammed(count + 1)
    /\ count' = count + 1
    /\ GoesTo(IF count + 1 < ImageSize[image] THEN "data" ELSE "end")
    /\ UNCHANGED <<image, chUserData, unguarded>>

RecvFileData ==
    /\ stage = "data"
    /\ \/ /\ ~RunsIntoTrailer
          /\ PartProgrammed(image, count + 1)
          /\ count' = count + 1
          /\ GoesTo(IF count + 1 < ImageSize[image] THEN "data" ELSE "end")
          /\ UNCHANGED faults
       \/ /\ RunsIntoTrailer
          /\ PartRunsIntoTrailer(image, count + 1)
          /\ GoesTo("idle")
          /\ UNCHANGED <<count, faults>>
       \/ /\ Fault("program")
          /\ PartHalfProgrammed(count + 1)
          /\ GoesTo("idle")
          /\ UNCHANGED count
    /\ UNCHANGED <<image, chUserData, unguarded>>

EndToBoot_Skipped ==  \* mutant: no end mark
    /\ stage = "end"
    /\ GoesTo("done")
    /\ UNCHANGED <<flash, image, count, chUserData, faults, unguarded>>

EndToBoot ==
    /\ stage = "end"
    /\ MarkWritten(endMark, endMark') /\ UnguardedIfItFails
    /\ GoesTo("done")
    /\ UNCHANGED <<app, startMark, requestMark, copyA, copyB, image, count, chUserData>>

TransferFails ==
    /\ stage = "data"
    /\ Fault("abort")
    /\ GoesTo("idle")
    /\ UNCHANGED <<flash, image, count, chUserData, unguarded>>

-----------------------------------------------------------------------------
(* The operation of the stage, cut off by the power: it has not begun, or  *)
(* is half done.                                                           *)
CutOff ==
    \/ UNCHANGED flash
    \/ stage = "erase" /\ SectorHalfErased(count + 1)
    \/ stage = "marks" /\ SectorHalfErased(Sectors)
    \/ stage = "data" /\ ~RunsIntoTrailer /\ PartHalfProgrammed(count + 1)
    \/ stage = "data" /\ RunsIntoTrailer /\ PartRunsIntoTrailer(image, count + 1)
    \/ stage = "app" /\ copyA' = HalfCopied(copyA)
          /\ UNCHANGED <<app, endMark, startMark, requestMark, copyB>>
    \/ stage = "copyB" /\ copyB' = HalfCopied(copyB)
          /\ UNCHANGED <<app, endMark, startMark, requestMark, copyA>>
    \/ stage = "request" /\ requestMark' = HalfMarked(requestMark)
          /\ UNCHANGED <<app, endMark, startMark, copyA, copyB>>
    \/ stage = "start" /\ startMark' = HalfMarked(startMark)
          /\ UNCHANGED <<app, endMark, requestMark, copyA, copyB>>
    \/ stage = "end" /\ endMark' = HalfMarked(endMark)
          /\ UNCHANGED <<app, startMark, requestMark, copyA, copyB>>

PowerFails ==
    /\ stage # "off"
    /\ Fault("power")
    /\ CutOff
    /\ ForgetsRam
    /\ UNCHANGED unguarded

(* What the boot code and the sending end do of themselves; only the       *)
(* application decides whether to call go_to_boot.                         *)
Runs ==
    \/ Boots \/ WriteRequest \/ Reset
    \/ FileNamed \/ FileRefused \/ EraseApp \/ EraseMarks \/ WriteCopyB \/ WriteStart \/ RecvFileData \/ EndToBoot

Next == Runs \/ WriteCopyA \/ TransferFails \/ PowerFails

Spec == Init /\ [][Next]_vars

(* The boot code runs on, and somebody keeps sending files to it. *)
FairSpec == Spec /\ WF_vars(Runs)

-----------------------------------------------------------------------------
TypeOK ==
    /\ PartitionTypeOK
    /\ stage \in Stage
    /\ image \in Image \cup {NoImage}
    /\ count \in 0..Sectors
    /\ chUserData \in UserData
    /\ faults \in 0..MaxFaults
    /\ unguarded \in BOOLEAN
    /\ stage \in {"erase", "marks", "copyB", "start", "data", "end"} => image \in Image
    /\ stage = "erase" => count < ImageSize[image]
    /\ stage = "data" => count < ImageSize[image]

(* Wherever the power failed, what start_application jumps to is a whole   *)
(* image, with no sector erased, half written or left of another one:      *)
(* unless an erase of the marks or a write of a start or end mark failed   *)
(* unnoticed, or a file came after a complete one without a reset, and no  *)
(* erase of the marks has succeeded since.                                 *)
RunsWhole == stage = "app" /\ ~unguarded => Whole

(* Once end_to_boot has run, the next reset starts the file just received: *)
(* no mark of this or of an earlier attempt keeps the device in the boot   *)
(* code.                                                                   *)
CompletedStarts == stage = "done" /\ ~unguarded => ~Requested /\ ~Unfinished /\ Holds(image)

(* Whatever fails, the update is closed by end_to_boot only when every     *)
(* part of the announced image has been stored and read back.              *)
EndsWhole == stage \in {"end", "done"} => Holds(image)

(* A device in the boot code that is sent files gets back to an            *)
(* application, however often it was cut off before: unless the user data  *)
(* it restored were left half written or half erased, for then the name    *)
(* check refuses every file, or it keeps being sent images that run into   *)
(* its trailer.                                                            *)
TooLong == image \in Image /\ Reach[image] # "body"
BootReturns == <>[]~TooLong => (stage = "idle" ~> stage = "app" \/ ~NameAgrees)
=============================================================================
