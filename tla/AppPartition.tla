---------------------------- MODULE AppPartition ----------------------------
(***************************************************************************)
(* The application partition of bootloader/bootloader.c as the operations  *)
(* of flash_blob/wl_flash_blob.c leave it: erased sector by sector,        *)
(* programmed only where it is blank, and half done when the power fails   *)
(* or the driver reports an error.                                         *)
(*                                                                         *)
(* The image is written in one part per sector. At the end of the last     *)
(* sector lie the trailer's three marks and its two copies of the user     *)
(* data, erased with that sector.                                          *)
(***************************************************************************)
EXTENDS Integers

CONSTANTS
    Sectors,   \* sectors of the partition (APP_PART_SIZE)
    Image,     \* the files that may be uploaded, all no larger than the partition
    NoImage,
    ImageSize, \* the sectors each occupies
    Reach      \* how far into the last sector: "body", "copies" or "marks"

ASSUME PartitionAssumption ==
    /\ Sectors \in Nat \ {0}
    /\ NoImage \notin Image
    /\ ImageSize \in [Image -> 1..Sectors]
    /\ Reach \in [Image -> {"body", "copies", "marks"}]

VARIABLES
    app,          \* what each sector holds of an image
    endMark,      \* APP_PART_ADDR + APP_PART_SIZE - 96
    startMark,    \*                              - 64
    requestMark,  \*                              - 32
    copyA,        \* the user data go_to_boot leaves, below the marks
    copyB         \* and those start_to_boot leaves, below copyA

trailer == <<endMark, startMark, requestMark, copyA, copyB>>
flash == <<app, trailer>>

Sector == 1..Sectors

Part(img, i) == <<img, i>>
Blank == <<NoImage, 0>>
Torn  == <<NoImage, 1>>
Content == {Blank, Torn} \cup (Image \X Sector)

(* The first word of a mark is erased, zero, or anything else. *)
Mark == {"blank", "zero", "other"}
UserData == {"blank", "none", "ours", "torn"}

PartitionTypeOK ==
    /\ app \in [Sector -> Content]
    /\ endMark \in Mark /\ startMark \in Mark /\ requestMark \in Mark
    /\ copyA \in UserData /\ copyB \in UserData

Holds(img) == \A i \in 1..ImageSize[img] : app[i] = Part(img, i)
Whole == \E img \in Image : Holds(img)

(* A partition as delivered: empty, or with an application loaded by a     *)
(* programmer.                                                             *)
PartitionInit ==
    /\ \/ app = [i \in Sector |-> Blank]
       \/ \E img \in Image :
             app = [i \in Sector |-> IF i <= ImageSize[img] THEN Part(img, i) ELSE Blank]
    /\ endMark = "blank" /\ startMark = "blank" /\ requestMark = "blank"
    /\ copyA = "blank" /\ copyB = "blank"

-----------------------------------------------------------------------------
(* Programming a mark with zeros, and a copy with `data`. Flash that is    *)
(* not blank is not overwritten: it keeps a zero, and spoils the rest.     *)
Zeroed(mark) == IF mark = "blank" THEN "zero" ELSE mark
Programmed(copy, data) == IF copy \in {"blank", data} THEN data ELSE "torn"

(* What may be left of a value whose erase is cut off: erasing a blank     *)
(* leaves it blank.                                                        *)
HalfContent(c) == IF c = Blank THEN {Blank} ELSE {c, Torn, Blank}
HalfMark(m) == IF m = "blank" THEN {"blank"} ELSE {m, "other", "blank"}
HalfCopy(d) == IF d = "blank" THEN {"blank"} ELSE {d, "torn", "blank"}

(* One EraseSector of target_flash_erase. *)
SectorErased(s) ==
    /\ app' = [app EXCEPT ![s] = Blank]
    /\ IF s < Sectors
       THEN UNCHANGED trailer
       ELSE /\ endMark' = "blank" /\ startMark' = "blank" /\ requestMark' = "blank"
            /\ copyA' = "blank" /\ copyB' = "blank"

SectorHalfErased(s) ==
    /\ \E c \in HalfContent(app[s]) : app' = [app EXCEPT ![s] = c]
    /\ IF s < Sectors
       THEN UNCHANGED trailer
       ELSE /\ endMark' \in HalfMark(endMark)
            /\ startMark' \in HalfMark(startMark)
            /\ requestMark' \in HalfMark(requestMark)
            /\ copyA' \in HalfCopy(copyA) /\ copyB' \in HalfCopy(copyB)

PartProgrammed(img, i) ==
    /\ app' = [app EXCEPT ![i] = Part(img, i)]
    /\ UNCHANGED trailer

PartHalfProgrammed(i) ==
    /\ app' = [app EXCEPT ![i] = Torn]
    /\ UNCHANGED trailer

(* A last part that runs into the trailer: programming copyB fails its     *)
(* verification. The STM32 driver goes on to the end of the part all the   *)
(* same, the GD32 one stops.                                               *)
PartRunsIntoTrailer(img, i) ==
    /\ app' = [app EXCEPT ![i] = Torn]
    /\ startMark' = startMark
    /\ copyB' = "torn"
    /\ \/ UNCHANGED <<endMark, requestMark, copyA>>
       \/ /\ copyA' = "torn"
          /\ IF Reach[img] = "marks"
             THEN endMark' \in Mark /\ requestMark' \in Mark
             ELSE UNCHANGED <<endMark, requestMark>>
=============================================================================
