--------------------------- MODULE YmodemTransfer ---------------------------
(***************************************************************************)
(* A ymodem_send and a ymodem_receive talking over the serial line. The    *)
(* two run on different machines, each called again and again by its main  *)
(* loop; an interrupt handler fills each queue meanwhile.                  *)
(***************************************************************************)
EXTENDS YmodemReceiver, YmodemSender

CONSTANT Slow  \* the sides whose callbacks may take longer than the other side's timeout

ASSUME SlowAssumption == Slow \subseteq {"receiver", "sender"}

vars == <<line, receiver, sender>>

Init == LineInit /\ ReceiverInit /\ SenderInit

(* One second goes by. The line and the two main loops are fast against    *)
(* the timeouts, so it does only while each side waits for a byte, or runs *)
(* a callback that may take that long: an erase or a write of the flash, a *)
(* read of the file.                                                       *)
ReceiverWaits == ReceiverReads /\ toReceiver = <<>> /\ rWait < RTicks
SenderWaits == SenderReads /\ toSender = <<>> /\ sWait < STicks
ReceiverCallsBack ==
    /\ "receiver" \in Slow
    /\ rState \in {"SEND_ACK1", "SEND_ANSWER"} /\ rLast = "CPL"
SenderCallsBack == "sender" \in Slow /\ sState \in {"START", "SEND_PACK_PATH", "SEND_PACK_DATA"}

Tick ==
    /\ ReceiverWaits \/ ReceiverCallsBack
    /\ SenderWaits \/ SenderCallsBack \/ sState = "GONE"
    /\ rWait' = IF ReceiverWaits THEN rWait + 1 ELSE rWait
    /\ sWait' = IF SenderWaits THEN sWait + 1 ELSE sWait
    /\ UNCHANGED <<line, rState, rByte, rTry, rNum, rBlk, rLast, rEmpty, rFile, rGot, rEnd, rVerdict,
                   sState, sTry, sNum, sFile, sPart, sVerdict>>

(* The far end is a terminal program whose user cancels: CAN comes down    *)
(* the line and that end falls silent. (ymodem_send itself never cancels;  *)
(* ymodem_receive provides for it.)                                        *)
PeerCancels ==
    /\ SenderReads
    /\ Fault("cancel")
    /\ toReceiver' = Fits(toReceiver, Control("CAN"), LineCap)
    /\ sState' = "GONE"
    /\ UNCHANGED <<toSender, receiver, sTry, sNum, sFile, sPart, sWait, sVerdict>>

Next ==
    \/ ReceiverNext /\ UNCHANGED sender
    \/ SenderNext /\ UNCHANGED receiver
    \/ PeerCancels
    \/ Tick

Spec == Init /\ [][Next]_vars

(* Each main loop calls its side for ever, and time goes on. *)
FairReceiver == WF_vars(ReceiverNext /\ UNCHANGED sender)
FairSender == WF_vars(SenderNext /\ UNCHANGED receiver)
FairSpec == Spec /\ FairReceiver /\ FairSender /\ WF_vars(Tick)

-----------------------------------------------------------------------------
TypeOK == LineTypeOK /\ ReceiverTypeOK /\ SenderTypeOK

(* Whatever the line loses, garbles or delays, the parts the receiver      *)
(* stores are those of the announced file, in order and without gap, and   *)
(* the end mark is set on a whole file only.                               *)
Delivery == INSTANCE FileDelivery WITH file <- rFile, stored <- rGot, complete <- rEnd
DeliverySpec == Delivery!Spec

(* When the sender closes a file, having had an ACK for each packet, the   *)
(* receiver has stored all of it: an ACK answers the packet just sent.     *)
AckMeansStored == sState = "SEND_EOT1" => rFile = sFile /\ Len(rGot) = Parts(sFile)

(* Each file whose path packet is sent is stored whole and marked complete. *)
EveryFileArrives ==
    \A f \in 1..Len(Files) : sFile = f ~> rFile = f /\ rEnd

(* A sender that has sent the empty name gets to "No more data to send;    *)
(* transfer complete" (line 809).                                          *)
SessionConcludes == sFile = 0 /\ sState = "RECEIVE_ACK1" ~> sVerdict = "ok"

(* Whatever happens on the line, and when the far end falls silent, the    *)
(* receiver leaves what it is waiting for and starts again.                *)
ReceiverReturns == []<>(rState = "START")

(* Any byte that is not the one awaited starts the sender's wait anew, so  *)
(* a sender can wait for ever; but only on a receiver that has gone back   *)
(* to asking for a path packet, and never on one in the middle of a file.  *)
SenderHeldByIdleReceiver ==
    <>[](sState \notin {"START", "GONE"})
        => <>[](rState \in {"START", "SEND_C1", "RECEIVE_PACK_PATH"})
=============================================================================
