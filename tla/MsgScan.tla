------------------------------ MODULE MsgScan ------------------------------
(***************************************************************************)
(* communication/msg_map: search_msg_map with check_string and check_arg.  *)
(* The scan tries the names of a table against the front of a byte queue,  *)
(* reads the arguments behind the name that fits, calls its handler and    *)
(* removes what it has looked at. One action is at most one call into the  *)
(* queue: interrupt handlers enqueue between any two.                      *)
(*                                                                         *)
(* The queue is the one of PeekFifo, overwriting: what ByteQueue is shown  *)
(* to be (for blocks that do not spill over the head near the ring's end). *)
(***************************************************************************)
EXTENDS Integers, Sequences

CONSTANTS
    Byte,
    NameTable,  \* the names of the message table: one table for binary, one for text arguments
    QSize,      \* the queue's size
    ArgLen      \* MSG_ARG_LEN

Space == 32
Cr == 13  \* the end of a line, \r or \n

ASSUME ScanAssumption ==
    /\ Byte \subseteq Nat
    /\ NameTable \in [BOOLEAN -> Seq(Seq(Byte))]
    /\ QSize \in Nat \ {0} /\ ArgLen \in Nat

VARIABLES
    queue,           \* its bytes, oldest first
    cursor,          \* how many of them the peeks have passed
    bArgIsString,    \* arguments are words, not counted bytes
    chState,         \* "START" is also: the scan is not being called
    hwIndex,         \* the name being tried, from 1
    matched,         \* how much of it has been found
    bIsRequestDrop,  \* no message may still be completed by more bytes
    arg,             \* check_arg: how many, bytes taken, the current one's length, those read
    undisturbed      \* history: no byte the scan has seen was overwritten since it rewound the cursor

queueState == <<queue, cursor>>
scan == <<queueState, bArgIsString, chState, hwIndex, matched, bIsRequestDrop, arg, undisturbed>>

Fewer(m, n) == IF m < n THEN m ELSE n
Names == NameTable[bArgIsString]
Name == Names[hwIndex]
NoArgs == [nums |-> 0, index |-> 0, len |-> 0, read |-> <<>>, word |-> <<>>]

ScanInit ==
    /\ queue = <<>> /\ cursor = 0
    /\ bArgIsString \in BOOLEAN
    /\ chState = "START" /\ hwIndex = 1 /\ matched = 0 /\ bIsRequestDrop = FALSE
    /\ arg = NoArgs /\ undisturbed = TRUE

(* The bytes are put behind the others; the oldest give way, and then the  *)
(* cursor goes back to the front.                                          *)
Enqueue(bytes) ==
    LET all == queue \o bytes
        lost == Len(all) - Fewer(Len(all), QSize)
    IN  /\ queue' = SubSeq(all, lost + 1, Len(all))
        /\ cursor' = IF lost > 0 THEN 0 ELSE cursor
        /\ undisturbed' = (undisturbed /\ lost = 0)
        /\ UNCHANGED <<bArgIsString, chState, hwIndex, matched, bIsRequestDrop, arg>>

-----------------------------------------------------------------------------
Starts ==
    /\ chState = "START"
    /\ bIsRequestDrop' = TRUE /\ hwIndex' = 1
    /\ chState' = "IS_END_OF_MSG"
    /\ UNCHANGED <<queueState, bArgIsString, matched, arg, undisturbed>>

TableEnds_Kept ==  \* mutant: nothing is dequeued
    /\ chState = "IS_END_OF_MSG" /\ hwIndex > Len(Names)
    /\ chState' = "START"
    /\ UNCHANGED <<queueState, bArgIsString, hwIndex, matched, bIsRequestDrop, arg, undisturbed>>

(* The table is through: a byte no message can begin with is dropped.      *)
TableEnds ==
    /\ chState = "IS_END_OF_MSG" /\ hwIndex > Len(Names)
    /\ IF bIsRequestDrop /\ queue # <<>>
       THEN queue' = Tail(queue) /\ cursor' = 0
       ELSE UNCHANGED queueState
    /\ chState' = "START"
    /\ UNCHANGED <<bArgIsString, hwIndex, matched, bIsRequestDrop, arg, undisturbed>>

TriesName_CursorKept ==  \* mutant: no reset_peek
    /\ chState = "IS_END_OF_MSG" /\ hwIndex <= Len(Names)
    /\ cursor' = cursor /\ matched' = 0 /\ undisturbed' = TRUE
    /\ chState' = "MSG"
    /\ UNCHANGED <<queue, bArgIsString, hwIndex, bIsRequestDrop, arg>>

TriesName ==
    /\ chState = "IS_END_OF_MSG" /\ hwIndex <= Len(Names)
    /\ cursor' = 0 /\ matched' = 0 /\ undisturbed' = TRUE
    /\ chState' = "MSG"
    /\ UNCHANGED <<queue, bArgIsString, hwIndex, bIsRequestDrop, arg>>

(* The next name: this one does not fit, or its message is not all there.  *)
NextName_MayDrop(awaited) ==  \* mutant: an incomplete message does not keep its first byte
    /\ hwIndex' = hwIndex + 1
    /\ bIsRequestDrop' = bIsRequestDrop
    /\ chState' = "IS_END_OF_MSG"

NextName(awaited) ==
    /\ hwIndex' = hwIndex + 1
    /\ bIsRequestDrop' = (bIsRequestDrop /\ ~awaited)
    /\ chState' = "IS_END_OF_MSG"

AtEnd == cursor = Len(queue)
Shown == queue[cursor + 1]

(* check_string *)
ComparesByte ==
    /\ chState = "MSG" /\ matched < Len(Name) /\ ~AtEnd
    /\ cursor' = cursor + 1 /\ matched' = matched + 1
    /\ IF Shown = Name[matched + 1]
       THEN UNCHANGED <<chState, hwIndex, bIsRequestDrop>>
       ELSE NextName(FALSE)
    /\ UNCHANGED <<queue, bArgIsString, arg, undisturbed>>

AwaitsName ==
    /\ chState = "MSG" /\ matched < Len(Name) /\ AtEnd
    /\ NextName(TRUE)
    /\ UNCHANGED <<queueState, bArgIsString, matched, arg, undisturbed>>

NameFits ==
    /\ chState = "MSG" /\ matched = Len(Name)
    /\ chState' = "IS_START_OF_ARG"
    /\ arg' = [NoArgs EXCEPT !.len = arg.len, !.nums = arg.nums]
    /\ UNCHANGED <<queueState, bArgIsString, hwIndex, matched, bIsRequestDrop, undisturbed>>

-----------------------------------------------------------------------------
(* check_arg *)
ArgStates == {"IS_START_OF_ARG", "ARG_LENGTH", "ARG_BYTES", "ARG_TEXT"}

AwaitsArgs ==
    /\ chState \in ArgStates
    /\ AtEnd \/ (chState = "ARG_BYTES" /\ arg.len = 0)
    /\ NextName(TRUE)
    /\ UNCHANGED <<queueState, bArgIsString, matched, arg, undisturbed>>

(* A count, or a space; none, or the end of the line; or a longer name. *)
StartsArgs ==
    /\ chState = "IS_START_OF_ARG" /\ ~AtEnd
    /\ cursor' = cursor + 1
    /\ \/ /\ ~bArgIsString /\ Shown # 0
          /\ arg' = [arg EXCEPT !.nums = Shown]
          /\ chState' = "ARG_LENGTH"
          /\ UNCHANGED <<hwIndex, bIsRequestDrop>>
       \/ /\ bArgIsString /\ Shown = Space
          /\ chState' = "ARG_TEXT"
          /\ UNCHANGED <<arg, hwIndex, bIsRequestDrop>>
       \/ /\ Shown = IF bArgIsString THEN Cr ELSE 0
          /\ chState' = "HANDLER"
          /\ UNCHANGED <<arg, hwIndex, bIsRequestDrop>>
       \/ /\ bArgIsString /\ Shown \notin {Space, Cr}
          /\ NextName(FALSE)
          /\ UNCHANGED arg
    /\ UNCHANGED <<queue, bArgIsString, matched, undisturbed>>

(* Two bytes of length are asked for; if one is there, it replaces the     *)
(* lower half of what the last length was.                                 *)
ReadsLength ==
    /\ chState = "ARG_LENGTH" /\ ~AtEnd
    /\ LET got == Fewer(2, Len(queue) - cursor)
           upper == IF got = 2 THEN queue[cursor + 2] ELSE arg.len \div 256
       IN  /\ cursor' = cursor + got
           /\ arg' = [arg EXCEPT !.len = Shown + 256 * upper]
    /\ chState' = "ARG_BYTES"
    /\ UNCHANGED <<queue, bArgIsString, hwIndex, matched, bIsRequestDrop, undisturbed>>

(* Any part of an argument is taken for all of it. *)
ReadsBytes ==
    /\ chState = "ARG_BYTES" /\ ~AtEnd /\ arg.len > 0
    /\ LET got == Fewer(arg.len, Len(queue) - cursor)
       IN  /\ cursor' = cursor + got
           /\ arg' = [arg EXCEPT !.index = @ + arg.len,
                                 !.read = Append(@, SubSeq(queue, cursor + 1, cursor + got))]
    /\ chState' = IF Len(arg'.read) >= arg.nums \/ arg'.index >= ArgLen - 1 THEN "HANDLER" ELSE "ARG_LENGTH"
    /\ UNCHANGED <<queue, bArgIsString, hwIndex, matched, bIsRequestDrop, undisturbed>>

(* A word ends at a space or at the end of the line; where the buffer is   *)
(* full the last byte is given up for the zero that ends the word.         *)
ReadsText ==
    /\ chState = "ARG_TEXT" /\ ~AtEnd
    /\ cursor' = cursor + 1
    /\ LET last == Shown = Cr \/ arg.index + 1 >= ArgLen - 1
           word == IF Shown = Space THEN <<>> ELSE IF last THEN arg.word ELSE Append(arg.word, Shown)
           words == IF Shown = Space THEN Append(arg.read, arg.word) ELSE arg.read
       IN  /\ arg' = [arg EXCEPT !.index = @ + 1, !.word = word,
                                 !.read = IF last THEN Append(words, word) ELSE words]
           /\ chState' = IF last THEN "HANDLER" ELSE "ARG_TEXT"
    /\ UNCHANGED <<queue, bArgIsString, hwIndex, matched, bIsRequestDrop, undisturbed>>

(* mutant: get_all_peeked leaves the cursor *)
HandlerReturns_CursorKept ==
    /\ chState = "HANDLER"
    /\ queue' = SubSeq(queue, cursor + 1, Len(queue)) /\ cursor' = cursor
    /\ chState' = "START"
    /\ UNCHANGED <<bArgIsString, hwIndex, matched, bIsRequestDrop, arg, undisturbed>>

(* The handler has returned. *)
HandlerReturns ==
    /\ chState = "HANDLER"
    /\ queue' = SubSeq(queue, cursor + 1, Len(queue)) /\ cursor' = 0
    /\ chState' = "START"
    /\ UNCHANGED <<bArgIsString, hwIndex, matched, bIsRequestDrop, arg, undisturbed>>

Scans ==
    \/ Starts \/ TableEnds \/ TriesName
    \/ ComparesByte \/ AwaitsName \/ NameFits
    \/ AwaitsArgs \/ StartsArgs \/ ReadsLength \/ ReadsBytes \/ ReadsText
    \/ HandlerReturns

ScanSpec == ScanInit /\ [][Scans \/ \E bytes \in Seq(Byte) : Enqueue(bytes)]_scan

ScanTypeOK ==
    /\ queue \in Seq(Byte) /\ Len(queue) <= QSize /\ cursor \in 0..Len(queue)
    /\ bArgIsString \in BOOLEAN /\ bIsRequestDrop \in BOOLEAN /\ undisturbed \in BOOLEAN
    /\ chState \in {"START", "IS_END_OF_MSG", "MSG", "HANDLER"} \cup ArgStates
    /\ hwIndex \in 1..Len(Names) + 1 /\ matched \in Nat
    /\ arg.nums \in Nat /\ arg.index \in Nat /\ arg.len \in Nat

(* While the scan reads arguments, while the handler runs and when its     *)
(* message is removed, the front of the queue is the name of the message,  *)
(* whatever is enqueued meanwhile, unless a full queue overwrote it.       *)
NameInFront ==
    undisturbed /\ chState \in ArgStates \cup {"HANDLER"} =>
        /\ Len(Name) <= cursor
        /\ SubSeq(queue, 1, Len(Name)) = Name
=============================================================================
