----------------------------- MODULE MCFirmware -----------------------------
(* The images TLC checks: v1 is small, v2 ends in the sector of the        *)
(* trailer but before it, v3 runs into the copies of the user data and     *)
(* large into the marks as well. All of them fit APP_PART_SIZE.            *)
EXTENDS FirmwareUpdate

MCImageSize == [img \in Image |-> IF img = "v1" THEN 1 ELSE Sectors]
MCReach == [img \in Image |-> CASE img = "v3" -> "copies" [] img = "large" -> "marks" [] OTHER -> "body"]
=============================================================================
