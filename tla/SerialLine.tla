----------------------------- MODULE SerialLine -----------------------------
(***************************************************************************)
(* The serial line between a ymodem_send and a ymodem_receive, with the    *)
(* byte queue each side's interrupt handler fills (example/).               *)
(* Nothing is reordered or duplicated; bytes can be lost or garbled.       *)
(*                                                                         *)
(* Towards the receiver travel whole packets, EOT and CAN bytes, and what  *)
(* noise makes of them:                                                    *)
(*   PACKET   a packet that arrives intact: its block number and content   *)
(*   BADCRC   a packet whose data or CRC was garbled                       *)
(*   SHORT    a packet some of whose bytes are missing                     *)
(*   RESIDUE  `left` bytes nobody can parse any more (a garbled header or  *)
(*            block number): each reads as any byte at all                 *)
(* Towards the sender travel single control bytes; NOISE stands for a byte *)
(* that is none of them.                                                   *)
(***************************************************************************)
EXTENDS Integers, Sequences

CONSTANTS
    Files,       \* Files[f] = number of data packets of the f-th file of a session
    Blocks,      \* how many block numbers there are (256: chBlk is a uint8_t)
    MaxTry,      \* MODEM_MAX_TRY_AGAN (10), the retries of both sides
    LineCap,     \* how many packets fit the receiver's queue
    ReplyCap,    \* how many bytes fit the sender's queue (8)
    MaxResidue,  \* bound: bytes of a garbled packet that are read one by one
    FaultKinds,  \* which faults a run may see
    MaxFaults    \* bound: how many of them

ASSUME FilesAssumption == Files \in Seq(Nat \ {0}) /\ Len(Files) > 0
ASSUME BlocksAssumption == Blocks \in Nat /\ Blocks > 2
ASSUME TryAssumption == MaxTry \in Nat \ {0}
ASSUME LineAssumption ==
    /\ LineCap \in Nat \ {0} /\ ReplyCap \in Nat \ {0}
    /\ MaxResidue \in Nat \ {0} /\ MaxFaults \in Nat
ASSUME FaultAssumption ==
    FaultKinds \subseteq {"lose", "garble", "short", "residue", "write", "app", "cancel"}

VARIABLES
    toReceiver,  \* the receiver's queue, oldest first
    toSender,    \* the sender's queue
    faults       \* faults that can still happen

line == <<toReceiver, toSender, faults>>

(* A file path packet carries part 0 of its file; file 0 is the empty name *)
(* that ends a session.                                                    *)
FileId == 0..Len(Files)
Parts(f) == IF f = 0 THEN 0 ELSE Files[f]
Item == [file : FileId, part : Nat]

Packet(num, item) == [kind |-> "PACKET", num |-> num, item |-> item]
Residue(left) == [kind |-> "RESIDUE", left |-> left]
Control(kind) == [kind |-> kind]

Reply == {"C", "ACK", "NAK", "CAN", "NOISE"}
Arrival == [kind : {"PACKET"}, num : 0..Blocks - 1, item : Item]
           \cup [kind : {"RESIDUE"}, left : 1..MaxResidue]
           \cup [kind : {"BADCRC", "SHORT", "EOT", "CAN"}]

LineTypeOK ==
    /\ toReceiver \in Seq(Arrival) /\ Len(toReceiver) <= LineCap
    /\ toSender \in Seq(Reply) /\ Len(toSender) <= ReplyCap
    /\ faults \in 0..MaxFaults

LineInit ==
    /\ toReceiver = <<>>
    /\ toSender = <<>>
    /\ faults = MaxFaults

Fault(kind) ==
    /\ kind \in FaultKinds
    /\ faults > 0
    /\ faults' = faults - 1

Fits_Unrefused(queue, x, cap) == Append(queue, x)  \* mutant: a full queue takes more

(* An enqueue into a full queue is refused: what does not fit is gone. *)
Fits(queue, x, cap) == IF Len(queue) < cap THEN Append(queue, x) ELSE queue

(* The sender writes `what`: it arrives intact, or as one of the things    *)
(* noise can make of it.                                                   *)
WriteToReceiver(what) ==
    \/ /\ toReceiver' = Fits(toReceiver, what, LineCap)
       /\ UNCHANGED faults
    \/ /\ Fault("lose")
       /\ UNCHANGED toReceiver
    \/ /\ Fault("garble")
       /\ toReceiver' = Fits(toReceiver, IF what.kind = "PACKET" THEN Control("BADCRC")
                                                                 ELSE Residue(1), LineCap)
    \/ /\ what.kind = "PACKET"
       /\ Fault("short")
       /\ toReceiver' = Fits(toReceiver, Control("SHORT"), LineCap)
    \/ /\ what.kind = "PACKET"
       /\ Fault("residue")
       /\ \E left \in 1..MaxResidue : toReceiver' = Fits(toReceiver, Residue(left), LineCap)

(* The receiver writes one control byte. *)
WriteToSender(byte) ==
    \/ /\ toSender' = Fits(toSender, byte, ReplyCap)
       /\ UNCHANGED faults
    \/ /\ Fault("lose")
       /\ UNCHANGED toSender
    \/ /\ Fault("garble")
       /\ toSender' = Fits(toSender, "NOISE", ReplyCap)
=============================================================================
