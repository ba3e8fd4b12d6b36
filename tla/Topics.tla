------------------------------- MODULE Topics -------------------------------
(***************************************************************************)
(* Messages on their way to search_msg_map.                                *)
(*                                                                         *)
(* Binary arguments (communication/subscribe_publish): publish enqueues a  *)
(* message block by block, from the main loop between two calls of the     *)
(* scan or from the handler of another message; an interrupt handler       *)
(* publishes at any time, all its blocks before anything else runs.        *)
(*                                                                         *)
(* Text arguments: an interrupt handler enqueues lines as they are         *)
(* received, byte by byte, while the scan runs.                            *)
(***************************************************************************)
EXTENDS MsgScan, SequencesExt

CONSTANTS
    Message,    \* what is published in each mode: [id |-> the place of its name in the table, args |-> ...]
    Prefix,     \* what SIGNAL() puts before a name: "sig_"
    MaxPublish  \* bound: messages in a behaviour, in each mode

(* The number of binary arguments and the size of each are sent in a byte. *)
ASSUME MessageAssumption ==
    /\ Prefix \in Seq(Byte) /\ {0, Space, Cr} \subseteq Byte
    /\ \A text \in BOOLEAN : \A m \in Message[text] :
          /\ m.id \in DOMAIN NameTable[text] /\ m.args \in Seq(Seq(Byte) \ {<<>>})
          /\ text \/ (Len(m.args) \in Byte /\ \A k \in DOMAIN m.args : Len(m.args[k]) \in Byte)

VARIABLES
    arriving,    \* the blocks of the message being enqueued that are still to come
    published,   \* history: the messages
    handled,     \* history: the calls of handlers
    overwritten, \* history: the queue has overflowed, and
    clean        \* not in the middle of a scan, and no message was published inside another

vars == <<scan, arriving, published, handled, overwritten, clean>>

Init ==
    /\ ScanInit
    /\ arriving = <<>> /\ published = <<>> /\ handled = <<>>
    /\ overwritten = FALSE /\ clean = TRUE

(* __PUBLISH_TOPIC_n: the name, the number of arguments, and for each its  *)
(* size, two bytes, and its bytes. *)
TopicBlocks(m) ==
    <<Prefix \o NameTable[FALSE][m.id], <<Len(m.args)>>>>
    \o FlattenSeq([k \in DOMAIN m.args |-> <<<<Len(m.args[k]), 0>>, m.args[k]>>])
LineBytes(m) ==
    LET line == NameTable[TRUE][m.id] \o FlattenSeq([k \in DOMAIN m.args |-> <<Space>> \o m.args[k]]) \o <<Cr>>
    IN  [k \in DOMAIN line |-> <<line[k]>>]
Blocks(m) == IF bArgIsString THEN LineBytes(m) ELSE TopicBlocks(m)

Calling == chState \notin {"START", "HANDLER"}
InterruptOnly == bArgIsString

Enters(bytes, whole) ==
    LET overflows == Len(queue) + Len(bytes) > QSize
    IN  /\ Enqueue(bytes)
        /\ overwritten' = (overwritten \/ overflows)
        /\ clean' = (clean /\ whole /\ (overflows => chState = "START"))

publish(m) ==
    /\ arriving = <<>> /\ Len(published) < MaxPublish[bArgIsString]
    /\ InterruptOnly \/ ~Calling
    /\ Enters(Head(Blocks(m)), TRUE)
    /\ arriving' = Tail(Blocks(m))
    /\ published' = Append(published, m)
    /\ UNCHANGED handled

Arrives ==
    /\ arriving # <<>>
    /\ Enters(Head(arriving), TRUE)
    /\ arriving' = Tail(arriving)
    /\ UNCHANGED <<published, handled>>

InterruptPublishes(m) ==
    /\ ~bArgIsString /\ Len(published) < MaxPublish[bArgIsString]
    /\ Enters(FlattenSeq(TopicBlocks(m)), arriving = <<>>)
    /\ published' = Append(published, m)
    /\ UNCHANGED <<arriving, handled>>

(* The main loop is either publishing or scanning. *)
ScanGoesOn ==
    /\ InterruptOnly \/ arriving = <<>>
    /\ Scans
    /\ handled' = IF chState' = "HANDLER" /\ chState # "HANDLER"
                  THEN Append(handled, [id |-> hwIndex, args |-> arg'.read])
                  ELSE handled
    /\ UNCHANGED <<arriving, published, overwritten, clean>>

Next ==
    \/ \E m \in Message[bArgIsString] : publish(m)
    \/ Arrives
    \/ \E m \in Message[FALSE] : InterruptPublishes(m)
    \/ ScanGoesOn

(* wl_subscribe_publish_exec calls the scan again and again, and a publish *)
(* in progress and a line being received go on.                            *)
Spec == Init /\ [][Next]_vars /\ WF_vars(ScanGoesOn) /\ WF_vars(Arrives)

TypeOK ==
    /\ ScanTypeOK
    /\ published \in Seq(Message[bArgIsString])
    /\ arriving \in Seq(Seq(Byte))
    /\ overwritten \in BOOLEAN /\ clean \in BOOLEAN

(* What a handler is called with for m: text that does not fit MSG_ARG_LEN *)
(* is cut off.                                                             *)
Fits(m) == Len(FlattenSeq(m.args)) + Len(m.args) < ArgLen - 1
Answers(h, m) == h.id = m.id /\ (Fits(m) => h.args = m.args)

(* All that is enqueued for m, and where in it its name begins.            *)
Sent(text, m) == FlattenSeq(IF text THEN LineBytes(m) ELSE TopicBlocks(m))
NameAt(text) == IF text THEN 0 ELSE Len(Prefix)

(* A scan that begins behind k bytes of s passes over the i-th name: a     *)
(* byte differs, or a longer word begins with the name.                    *)
Misfits(text, i, s, k) ==
    LET name == NameTable[text][i]
    IN  \/ \E x \in 1..Len(name) : k + x <= Len(s) /\ s[k + x] # name[x]
        \/ text /\ k + Len(name) < Len(s) /\ s[k + Len(name) + 1] \notin {Space, Cr}

(* A name fits in its own messages only, at its place, and no space or end *)
(* of a line is in the middle of a word: no other bytes tell where a       *)
(* message begins.                                                         *)
NamesApart ==
    \A text \in BOOLEAN : \A m \in Message[text] :
        /\ \A i \in DOMAIN NameTable[text], k \in 0..Len(Sent(text, m)) - 1 :
              (i = m.id /\ k = NameAt(text)) \/ Misfits(text, i, Sent(text, m), k)
        /\ text => \A k \in DOMAIN m.args : \A x \in DOMAIN m.args[k] : m.args[k][x] \notin {Space, Cr}

(* Handlers are called for the published messages, in order and once each, *)
(* with their arguments, and a message is passed over only when the queue  *)
(* has overflowed.                                                         *)
HandledInOrder ==
    clean =>
        /\ \E place \in [DOMAIN handled -> DOMAIN published] :
              /\ \A i, j \in DOMAIN handled : i < j => place[i] < place[j]
              /\ \A i \in DOMAIN handled : Answers(handled[i], published[place[i]])
        /\ overwritten \/ \A i \in DOMAIN handled : Answers(handled[i], published[i])

(* The newest message is handled in the end, and every one of them unless  *)
(* the queue has overflowed.                                               *)
NewestHandled ==
    <>[](clean /\ published # <<>> =>
            /\ handled # <<>> /\ Answers(Last(handled), Last(published))
            /\ overwritten \/ Len(handled) = Len(published))
=============================================================================
