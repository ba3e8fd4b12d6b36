------------------------------ MODULE MCYmodem ------------------------------
(* The files of the sessions TLC checks: numbers of 1K data packets. *)
EXTENDS YmodemTransfer

TwoFiles == <<2, 1>>
ThreeFiles == <<5, 2, 1>>
=============================================================================
