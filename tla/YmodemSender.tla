---------------------------- MODULE YmodemSender ----------------------------
(***************************************************************************)
(* ymodem_send of communication/ymodem/wl_ymodem.c, one action per state   *)
(* of its switch, with callbacks that offer the files of a session one     *)
(* after the other and then the empty name, as those of                    *)
(* example/check_ymodem_send_agent.c do. A refused write changes nothing   *)
(* and is retried by the next call.                                        *)
(***************************************************************************)
EXTENDS SerialLine

CONSTANTS
    STicks,     \* ticks a read of the sender waits for its byte (10 s)
    EmptySizes  \* what the path callback may report as the size of the empty name:
                \* 128, as ymodem_send_file_name does, or the 0 that ymodem_send
                \* looks for

ASSUME SenderAssumption == STicks \in Nat \ {0} /\ EmptySizes \subseteq {0, 128} /\ EmptySizes # {}

VARIABLES
    sState,    \* chState
    sTry,      \* chTryCount
    sNum,      \* chPacketNum
    sFile,     \* the file the path callback named last, 0 for the empty name
    sPart,     \* the part of it that is in the buffer
    sWait,     \* ticks the current read has waited
    sVerdict   \* what ymodem_transfer_completed was last told in this file

sender == <<sState, sTry, sNum, sFile, sPart, sWait, sVerdict>>

SenderInit ==
    /\ sState = "START" /\ sTry = 0 /\ sNum = 0
    /\ sFile = 0 /\ sPart = 0 /\ sWait = 0 /\ sVerdict = "none"

-----------------------------------------------------------------------------
NextFile == IF sFile = Len(Files) THEN 0 ELSE sFile + 1

SenderTimesOut == toSender = <<>> /\ sWait = STicks

(* A read of one byte in `state`: `byte` is "TIMEOUT" when none came. *)
Reads(state, byte) ==
    /\ sState = state
    /\ \/ /\ SenderTimesOut
          /\ byte = "TIMEOUT"
          /\ UNCHANGED toSender
       \/ /\ toSender # <<>>
          /\ byte = Head(toSender)
          /\ toSender' = Tail(toSender)
    /\ sWait' = 0
    /\ UNCHANGED toReceiver

Heard == Reply \cup {"TIMEOUT"}

SenderGoesTo(state) == sState' = state /\ UNCHANGED sVerdict
SenderEnds(verdict) == sState' = "START" /\ sVerdict' = verdict
Stays == UNCHANGED <<sState, sVerdict>>

SenderBegins ==
    /\ sState = "START"
    /\ sTry' = 0 /\ sNum' = 0 /\ sVerdict' = "none"
    /\ sState' = "RECEIVE_C1"
    /\ sWait' = 0
    /\ UNCHANGED <<line, sFile, sPart>>

(* The path callback moves on to the next file each time it is asked, also *)
(* after a failed attempt; it may itself fail.                             *)
ReceiveC1 ==
    /\ \E byte \in Heard :
         /\ Reads("RECEIVE_C1", byte)
         /\ \/ /\ byte = "C"
               /\ sFile' = NextFile /\ sPart' = 0
               /\ \/ SenderGoesTo("SEND_PACK_PATH") /\ UNCHANGED faults
                  \/ SenderEnds("failed") /\ Fault("app")
            \/ /\ byte = "TIMEOUT"
               /\ SenderGoesTo("START")
               /\ UNCHANGED <<faults, sFile, sPart>>
            \/ /\ byte \notin {"C", "TIMEOUT"}
               /\ Stays
               /\ UNCHANGED <<faults, sFile, sPart>>
    /\ UNCHANGED <<sTry, sNum>>

(* ymodem_send_package, for the path packet and for a data packet. *)
SendPackage ==
    /\ \/ /\ sState = "SEND_PACK_PATH"
          /\ WriteToReceiver(Packet(0, [file |-> sFile, part |-> 0]))
          /\ SenderGoesTo("RECEIVE_ACK1")
       \/ /\ sState = "SEND_PACK_DATA"
          /\ WriteToReceiver(Packet(sNum, [file |-> sFile, part |-> sPart]))
          /\ SenderGoesTo("RECEIVE_ANSWER")
    /\ sWait' = 0
    /\ UNCHANGED <<toSender, sTry, sNum, sFile, sPart>>

SizeMayBeZero == sFile = 0 /\ 0 \in EmptySizes
SizeMayBeMore == sFile # 0 \/ 128 \in EmptySizes

ReceiveAck1 ==
    /\ \E byte \in Heard :
         /\ Reads("RECEIVE_ACK1", byte)
         /\ \/ byte = "ACK" /\ SizeMayBeZero /\ SenderEnds("ok") /\ UNCHANGED sNum
            \/ byte = "ACK" /\ SizeMayBeMore /\ SenderGoesTo("RECEIVE_C2") /\ sNum' = (sNum + 1) % Blocks
            \/ byte = "TIMEOUT" /\ SenderEnds("failed") /\ UNCHANGED sNum
            \/ byte \notin {"ACK", "TIMEOUT"} /\ Stays /\ UNCHANGED sNum
    /\ UNCHANGED <<faults, sTry, sFile, sPart>>

(* The data callback fills the buffer with the next part, or fails. *)
FillsBuffer ==
    /\ sPart' = sPart + 1
    /\ \/ SenderGoesTo("SEND_PACK_DATA") /\ UNCHANGED faults
       \/ SenderEnds("failed") /\ Fault("app")

ReceiveC2 ==
    /\ \E byte \in Heard :
         /\ Reads("RECEIVE_C2", byte)
         /\ \/ byte = "C" /\ FillsBuffer
            \/ byte = "TIMEOUT" /\ SenderEnds("failed") /\ UNCHANGED <<faults, sPart>>
            \/ byte \notin {"C", "TIMEOUT"} /\ Stays /\ UNCHANGED <<faults, sPart>>
    /\ UNCHANGED <<sTry, sNum, sFile>>

(* A short part ends the file; after a last full part the data callback    *)
(* does, by filling in nothing (or it fails).                              *)
ReceiveAnswer ==
    /\ \E byte \in Heard :
         /\ Reads("RECEIVE_ANSWER", byte)
         /\ \/ /\ byte = "ACK"
               /\ sTry' = 0
               /\ sNum' = (sNum + 1) % Blocks
               /\ \/ sPart < Parts(sFile) /\ FillsBuffer
                  \/ /\ sPart >= Parts(sFile)
                     /\ \/ SenderGoesTo("SEND_EOT1") /\ UNCHANGED faults
                        \/ SenderEnds("failed") /\ Fault("app")
                     /\ UNCHANGED sPart
            \/ /\ byte = "NAK"
               /\ sTry' = sTry + 1
               /\ \/ sTry + 1 > MaxTry /\ SenderEnds("failed")
                  \/ sTry + 1 <= MaxTry /\ SenderGoesTo("SEND_PACK_DATA")
               /\ UNCHANGED <<faults, sNum, sPart>>
            \/ /\ byte \in {"CAN", "TIMEOUT"}
               /\ SenderEnds("failed")
               /\ UNCHANGED <<faults, sTry, sNum, sPart>>
            \/ /\ byte \in {"C", "NOISE"}
               /\ Stays
               /\ UNCHANGED <<faults, sTry, sNum, sPart>>
    /\ UNCHANGED sFile

SendEot ==
    /\ \/ sState = "SEND_EOT1" /\ SenderGoesTo("RECEIVE_NAK")
       \/ sState = "SEND_EOT2" /\ SenderGoesTo("RECEIVE_ACK2")
    /\ WriteToReceiver(Control("EOT"))
    /\ sWait' = 0
    /\ UNCHANGED <<toSender, sTry, sNum, sFile, sPart>>

ReceiveNak ==
    /\ \E byte \in Heard :
         /\ Reads("RECEIVE_NAK", byte)
         /\ \/ byte = "NAK" /\ SenderGoesTo("SEND_EOT2")
            \/ byte = "TIMEOUT" /\ SenderEnds("failed")
            \/ byte \notin {"NAK", "TIMEOUT"} /\ Stays
    /\ UNCHANGED <<faults, sTry, sNum, sFile, sPart>>

ReceiveAck2 ==
    /\ \E byte \in Heard :
         /\ Reads("RECEIVE_ACK2", byte)
         /\ \/ byte = "ACK" /\ SenderGoesTo("START")
            \/ byte = "TIMEOUT" /\ SenderEnds("failed")
            \/ byte \notin {"ACK", "TIMEOUT"} /\ Stays
    /\ UNCHANGED <<faults, sTry, sNum, sFile, sPart>>

SenderNext ==
    \/ SenderBegins \/ ReceiveC1 \/ SendPackage \/ ReceiveAck1 \/ ReceiveC2
    \/ ReceiveAnswer \/ SendEot \/ ReceiveNak \/ ReceiveAck2

SenderReads ==
    sState \in {"RECEIVE_C1", "RECEIVE_ACK1", "RECEIVE_C2", "RECEIVE_ANSWER", "RECEIVE_NAK", "RECEIVE_ACK2"}

SenderTypeOK ==
    /\ sState \in {"START", "RECEIVE_C1", "SEND_PACK_PATH", "RECEIVE_ACK1", "RECEIVE_C2",
                   "SEND_PACK_DATA", "RECEIVE_ANSWER", "SEND_EOT1", "RECEIVE_NAK",
                   "SEND_EOT2", "RECEIVE_ACK2", "GONE"}
    /\ sTry \in 0..MaxTry + 1
    /\ sNum \in 0..Blocks - 1
    /\ sFile \in FileId /\ sPart \in 0..Parts(sFile) + 1
    /\ sWait \in 0..STicks
    /\ sVerdict \in {"none", "ok", "failed"}
=============================================================================
