--------------------------- MODULE YmodemReceiver ---------------------------
(***************************************************************************)
(* ymodem_receive of communication/ymodem/wl_ymodem.c with the callbacks   *)
(* of example/check_ymodem_receive_agent.c, one action per state of its    *)
(* switch and outcome of ymodem_receive_package. The states keep the       *)
(* source's names (RECIVE_EOT included).                                   *)
(*                                                                         *)
(* A package is read off the line in one step: the bytes of one packet     *)
(* come from one call of the sender, and what a delay or a loss within it  *)
(* does is in the kinds of arrival SerialLine lists.                       *)
(***************************************************************************)
EXTENDS SerialLine

CONSTANT RTicks  \* ticks a read of the receiver waits for its first byte (3 s)

ASSUME RTicksAssumption == RTicks \in Nat \ {0}

VARIABLES
    rState,    \* chState
    rByte,     \* chByte
    rTry,      \* chTryCount
    rNum,      \* chPacketNum
    rBlk,      \* chBlk of the package last checked
    rLast,     \* what ymodem_receive_package returned last
    rEmpty,    \* hwSize = 0: the file path packet was the empty one
    rWait,     \* ticks the current read has waited
    rFile,     \* the file whose path packet was accepted last
    rGot,      \* the data packets stored since
    rEnd,      \* end_to_boot has marked the stored image complete
    rVerdict   \* what ymodem_transfer_completed was last told in this file

receiver == <<rState, rByte, rTry, rNum, rBlk, rLast, rEmpty, rWait, rFile, rGot, rEnd, rVerdict>>

Outcome == {"CPL", "DUPLICATE", "EOT", "CAN", "TIMEOUT", "INCORRECT_HEADER",
            "INCORRECT_NBlk", "INCORRECT_CHECKOUT", "INCORRECT_PACKET_NUMBER"}

ReceiverInit ==
    /\ rState = "START" /\ rByte = "C" /\ rTry = 0 /\ rNum = 0
    /\ rBlk = 0 /\ rLast = "NONE" /\ rEmpty = FALSE /\ rWait = 0
    /\ rFile = 0 /\ rGot = <<>> /\ rEnd = FALSE /\ rVerdict = "none"

-----------------------------------------------------------------------------
(* What is left of a queue once bytes were taken out of its first packet,  *)
(* and of `left` unparsable bytes once one is taken.                       *)
Broken(queue) ==
    IF queue = <<>> THEN <<>>
    ELSE IF Head(queue).kind \in {"EOT", "CAN"} THEN Tail(queue)
    ELSE <<Residue(MaxResidue)>> \o Tail(queue)
Unread(left) == IF left = 1 THEN <<>> ELSE <<Residue(left - 1)>>

(* The read of a first byte has waited its time and found nothing. *)
ReceiverTimesOut == toReceiver = <<>> /\ rWait = RTicks

(* CHECK_PACKAGE. The two comparisons are made in int, so the predecessor  *)
(* of block 0 is -1, which no block number equals.                         *)
Checked(num) ==
    IF num = rNum THEN "CPL"
    ELSE IF num = rNum - 1 THEN "DUPLICATE"
    ELSE "INCORRECT_PACKET_NUMBER"

(* ymodem_receive_package: what it may return, and what it leaves queued.  *)
(* An unparsable byte reads as anything; when it reads as SOH or STX the   *)
(* packet it seems to open swallows the residue and what follows it.       *)
Package(as, rest) == [as |-> as, rest |-> rest]
Packages ==
    IF toReceiver = <<>>
    THEN IF ReceiverTimesOut THEN {Package("TIMEOUT", <<>>)} ELSE {}
    ELSE LET head    == Head(toReceiver)
             after   == Tail(toReceiver)
             swallow == Broken(after)
             starved == after = <<>>
         IN  CASE head.kind = "PACKET"  -> {Package(Checked(head.num), after)}
               [] head.kind = "BADCRC"  -> {Package("INCORRECT_CHECKOUT", after)}
               [] head.kind = "SHORT"   ->
                    {Package(IF starved THEN "TIMEOUT" ELSE "INCORRECT_CHECKOUT", swallow)}
               [] head.kind = "RESIDUE" ->
                    {Package(as, Unread(head.left) \o after) : as \in {"INCORRECT_HEADER", "EOT", "CAN"}}
                    \cup {Package(IF starved THEN "TIMEOUT" ELSE "INCORRECT_NBlk", swallow)}
               [] OTHER                 -> {Package(head.kind, after)}

(* A read of one raw byte, as RECIVE_EOT makes it. *)
Raw(byte, rest) == [byte |-> byte, rest |-> rest]
RawBytes ==
    IF toReceiver = <<>>
    THEN IF ReceiverTimesOut THEN {Raw("TIMEOUT", <<>>)} ELSE {}
    ELSE LET head  == Head(toReceiver)
             after == Tail(toReceiver)
         IN  CASE head.kind = "RESIDUE" ->
                    {Raw(byte, Unread(head.left) \o after) : byte \in {"EOT", "CAN", "OTHER"}}
               [] head.kind \in {"EOT", "CAN"} -> {Raw(head.kind, after)}
               [] OTHER -> {Raw("OTHER", Broken(toReceiver))}

ReadPackage(package) ==
    /\ package \in Packages
    /\ toReceiver' = package.rest
    /\ rLast' = package.as
    /\ rBlk' = IF toReceiver # <<>> /\ Head(toReceiver).kind = "PACKET"
               THEN Head(toReceiver).num ELSE rBlk
    /\ rWait' = 0
    /\ UNCHANGED <<toSender, faults>>

GoesTo(state) == rState' = state
Restarts(verdict) == rState' = "START" /\ rVerdict' = verdict
Writes(byte) ==
    /\ WriteToSender(IF byte \in Reply THEN byte ELSE "NOISE")
    /\ UNCHANGED toReceiver
    /\ rWait' = 0

store == <<rFile, rGot, rEnd>>
keepPackage == <<rBlk, rLast>>

-----------------------------------------------------------------------------
(* START *)
ReceiverBegins ==
    /\ rState = "START"
    /\ rTry' = 0 /\ rNum' = 0 /\ rByte' = "C"
    /\ rLast' = "NONE" /\ rVerdict' = "none"
    /\ GoesTo("SEND_C1")
    /\ UNCHANGED <<line, rBlk, rEmpty, rWait, store>>

(* SEND_C1 and SEND_C2. A refused write changes nothing and is retried by  *)
(* the next call, here and in SEND_ACK1 and SEND_ACK2.                     *)
SendC ==
    /\ \/ rState = "SEND_C1" /\ GoesTo("RECEIVE_PACK_PATH")
       \/ rState = "SEND_C2" /\ GoesTo("RECEIVE_PACK_DATA")
    /\ Writes(rByte)
    /\ UNCHANGED <<rByte, rTry, rNum, keepPackage, rEmpty, store, rVerdict>>

FilePathTaken_KeepsOffset(item) ==  \* mutant: wOffSet is not reset
    \/ /\ item.part = 0 /\ item.file # 0
       /\ rEmpty' = FALSE
       /\ rFile' = item.file /\ rEnd' = FALSE
       /\ UNCHANGED rGot
    \/ /\ item.part # 0 \/ item.file = 0
       /\ rEmpty' = TRUE
       /\ UNCHANGED store

(* __file_path, that is ymodem_recv_file_name. The empty name, or data     *)
(* that does not read as a size, ends the session; a file that passes the  *)
(* name and size checks has its flash erased and its end mark withdrawn.   *)
FilePathTaken(item) ==
    \/ /\ item.part = 0 /\ item.file # 0
       /\ rEmpty' = FALSE
       /\ rFile' = item.file /\ rGot' = <<>> /\ rEnd' = FALSE
    \/ /\ item.part # 0 \/ item.file = 0
       /\ rEmpty' = TRUE
       /\ UNCHANGED store

ReceivePackPath ==
    /\ rState = "RECEIVE_PACK_PATH"
    /\ \E package \in Packages :
         /\ ReadPackage(package)
         /\ \/ /\ package.as = "CPL"
               /\ FilePathTaken(Head(toReceiver).item)
               /\ rByte' = "ACK"
               /\ GoesTo("SEND_ACK1")
               /\ UNCHANGED rVerdict
            \/ /\ package.as = "TIMEOUT"
               /\ GoesTo("START")
               /\ UNCHANGED <<rByte, rEmpty, store, rVerdict>>
            \/ /\ package.as \notin {"CPL", "TIMEOUT"}
               /\ UNCHANGED <<rState, rByte, rEmpty, store, rVerdict>>
    /\ UNCHANGED <<rTry, rNum>>

(* ymodem_recv_file_name refuses the file: its name is not this project's  *)
(* or it is larger than the application partition.                         *)
FilePathRefused ==
    /\ rState = "RECEIVE_PACK_PATH"
    /\ toReceiver # <<>> /\ Head(toReceiver).kind = "PACKET"
    /\ Head(toReceiver).num = 0
    /\ Head(toReceiver).item.part = 0 /\ Head(toReceiver).item.file # 0
    /\ Fault("app")
    /\ toReceiver' = Tail(toReceiver)
    /\ rLast' = "CPL" /\ rBlk' = 0 /\ rWait' = 0
    /\ Restarts("failed")
    /\ UNCHANGED <<toSender, rByte, rTry, rNum, rEmpty, store>>

SendAck1 ==
    /\ rState = "SEND_ACK1"
    /\ Writes(rByte)
    /\ \/ /\ rEmpty
          /\ Restarts("ok")
          /\ UNCHANGED <<rNum, rByte>>
       \/ /\ ~rEmpty
          /\ rNum' = (rNum + 1) % Blocks
          /\ rByte' = "C"
          /\ GoesTo("SEND_C2")
          /\ UNCHANGED rVerdict
    /\ UNCHANGED <<rTry, keepPackage, rEmpty, store>>

FileDataStored_CutShort(item) ==  \* mutant: the last packet is cut off as surplus
    /\ rGot' = IF Len(rGot) + 1 < Parts(rFile) THEN Append(rGot, item) ELSE rGot
    /\ rEnd' = (rEnd \/ Len(rGot') = Parts(rFile))
    /\ UNCHANGED rFile

FileDataStored_EndTestFirst(item) ==  \* mutant: the end test precedes wOffSet += wWriteLen
    /\ rGot' = IF Len(rGot) < Parts(rFile) THEN Append(rGot, item) ELSE rGot
    /\ rEnd' = (rEnd \/ Len(rGot) = Parts(rFile))
    /\ UNCHANGED rFile

(* __file_data, that is ymodem_recv_file_data: what exceeds the announced  *)
(* size is cut off, and the packet that completes it sets the end mark.    *)
FileDataStored(item) ==
    /\ rGot' = IF Len(rGot) < Parts(rFile) THEN Append(rGot, item) ELSE rGot
    /\ rEnd' = (rEnd \/ Len(rGot') = Parts(rFile))
    /\ UNCHANGED rFile

Retry_Uncounted(answer) ==  \* mutant: chTryCount is not advanced
    /\ rTry' = rTry
    /\ rByte' = IF rTry + 1 >= MaxTry THEN "CAN" ELSE answer
    /\ GoesTo("SEND_ANSWER")

(* An answer that counts against the retries: CAN once they are used up. *)
Retry(answer) ==
    /\ rTry' = rTry + 1
    /\ rByte' = IF rTry + 1 >= MaxTry THEN "CAN" ELSE answer
    /\ GoesTo("SEND_ANSWER")

ReceivePackData ==
    /\ rState = "RECEIVE_PACK_DATA"
    /\ \E package \in Packages :
         /\ ReadPackage(package)
         /\ \/ /\ package.as = "CPL"
               /\ FileDataStored(Head(toReceiver).item)
               /\ rNum' = (rNum + 1) % Blocks
               /\ rByte' = "ACK" /\ rTry' = 0
               /\ GoesTo("SEND_ANSWER")
            \/ /\ package.as = "CAN"
               /\ rByte' = "ACK"
               /\ GoesTo("SEND_ANSWER")
               /\ UNCHANGED <<store, rNum, rTry>>
            \/ /\ package.as = "EOT"
               /\ rByte' = "NAK"
               /\ GoesTo("SEND_NAK")
               /\ UNCHANGED <<store, rNum, rTry>>
            \/ /\ package.as = "DUPLICATE"
               /\ Retry("ACK")
               /\ UNCHANGED <<store, rNum>>
            \/ /\ package.as \notin {"CPL", "CAN", "EOT", "DUPLICATE"}
               /\ Retry("NAK")
               /\ UNCHANGED <<store, rNum>>
    /\ UNCHANGED <<rEmpty, rVerdict>>

(* ymodem_recv_file_data fails: the flash refuses the write or reads back  *)
(* something else.                                                         *)
FileDataFails ==
    /\ rState = "RECEIVE_PACK_DATA"
    /\ toReceiver # <<>> /\ Head(toReceiver).kind = "PACKET"
    /\ Head(toReceiver).num = rNum
    /\ Fault("app")
    /\ toReceiver' = Tail(toReceiver)
    /\ rLast' = "CPL" /\ rBlk' = rNum /\ rWait' = 0
    /\ rByte' = "CAN"
    /\ GoesTo("SEND_ANSWER")
    /\ UNCHANGED <<toSender, rTry, rNum, rEmpty, store, rVerdict>>

SendAnswer ==
    /\ rState = "SEND_ANSWER"
    /\ Writes(rByte)
    /\ \/ rByte = "CAN" /\ Restarts("failed")
       \/ rByte # "CAN" /\ GoesTo("RECEIVE_PACK_DATA") /\ UNCHANGED rVerdict
    /\ UNCHANGED <<rByte, rTry, rNum, keepPackage, rEmpty, store>>

SendNak ==
    /\ rState = "SEND_NAK"
    /\ Writes(rByte)
    /\ GoesTo("RECIVE_EOT")
    /\ UNCHANGED <<rByte, rTry, rNum, keepPackage, rEmpty, store, rVerdict>>

(* The body of RECIVE_EOT; `stay` is the state chState holds meanwhile. *)
ReadsEot(stay) ==
    /\ \E raw \in RawBytes :
         /\ toReceiver' = raw.rest
         /\ \/ /\ raw.byte = "TIMEOUT"
               /\ Restarts("failed")
               /\ UNCHANGED rByte
            \/ /\ raw.byte = "EOT"
               /\ rByte' = "EOT"
               /\ GoesTo("SEND_ACK2")
               /\ UNCHANGED rVerdict
            \/ /\ raw.byte \notin {"TIMEOUT", "EOT"}
               /\ rByte' = raw.byte
               /\ GoesTo(stay)
               /\ UNCHANGED rVerdict
    /\ rWait' = 0
    /\ UNCHANGED <<toSender, rTry, rNum, keepPackage, rEmpty, store>>

ReciveEot ==
    /\ rState = "RECIVE_EOT"
    /\ ReadsEot("RECIVE_EOT")
    /\ UNCHANGED faults

(* Neither SEND_ANSWER nor SEND_NAK leaves the switch when its write is    *)
(* refused: SEND_ANSWER runs on into SEND_NAK, which writes the answer     *)
(* again, and SEND_NAK runs on into RECIVE_EOT, which reads a byte.        *)
SendAnswerRefused ==
    /\ rState = "SEND_ANSWER"
    /\ Fault("write")
    /\ toSender' = Fits(toSender, IF rByte \in Reply THEN rByte ELSE "NOISE", ReplyCap)
    /\ rWait' = 0
    /\ GoesTo("RECIVE_EOT")
    /\ UNCHANGED <<toReceiver, rByte, rTry, rNum, keepPackage, rEmpty, store, rVerdict>>

SendAnswerRefusedTwice ==
    /\ rState = "SEND_ANSWER"
    /\ "write" \in FaultKinds /\ faults >= 2 /\ faults' = faults - 2
    /\ ReadsEot("SEND_ANSWER")

SendNakRefused ==
    /\ rState = "SEND_NAK"
    /\ Fault("write")
    /\ ReadsEot("SEND_NAK")

SendAck2 ==
    /\ rState = "SEND_ACK2"
    /\ Writes("ACK")
    /\ rByte' = "ACK"
    /\ GoesTo("START")
    /\ UNCHANGED <<rTry, rNum, keepPackage, rEmpty, store, rVerdict>>

ReceiverNext ==
    \/ ReceiverBegins \/ SendC \/ ReceivePackPath \/ FilePathRefused \/ SendAck1
    \/ ReceivePackData \/ FileDataFails \/ SendAnswer \/ SendNak \/ ReciveEot
    \/ SendAnswerRefused \/ SendAnswerRefusedTwice \/ SendNakRefused \/ SendAck2

ReceiverReads == rState \in {"RECEIVE_PACK_PATH", "RECEIVE_PACK_DATA", "RECIVE_EOT"}

ReceiverTypeOK ==
    /\ rState \in {"START", "SEND_C1", "RECEIVE_PACK_PATH", "SEND_ACK1", "SEND_C2",
                   "RECEIVE_PACK_DATA", "SEND_ANSWER", "SEND_NAK", "RECIVE_EOT", "SEND_ACK2"}
    /\ rByte \in {"C", "ACK", "NAK", "CAN", "EOT", "OTHER"}
    /\ rTry \in Nat
    /\ rNum \in 0..Blocks - 1 /\ rBlk \in 0..Blocks - 1
    /\ rLast \in Outcome \cup {"NONE"}
    /\ rEmpty \in BOOLEAN /\ rEnd \in BOOLEAN
    /\ rWait \in 0..RTicks
    /\ rFile \in FileId
    /\ rGot \in Seq(Item) /\ Len(rGot) <= Parts(rFile)
    /\ rVerdict \in {"none", "ok", "failed"}
=============================================================================
