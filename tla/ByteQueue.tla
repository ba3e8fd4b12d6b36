------------------------------ MODULE ByteQueue ------------------------------
(***************************************************************************)
(* The byte queue of generic/queue/wl_queue.c: a ring of Size bytes with a *)
(* second read cursor (hwPeek) that looks ahead without consuming.         *)
(*                                                                         *)
(* Every operation that writes runs inside safe_atom_code() (interrupts    *)
(* masked), so interrupt handlers and the main loop interleave between     *)
(* operations and never inside one: an operation is one action. All index  *)
(* arithmetic is done on uint16_t fields, hence U16 at each assignment.    *)
(* ret is what the last call was given and returned, as in PeekFifo.       *)
(***************************************************************************)
EXTENDS Integers, Sequences

CONSTANTS
    Byte,          \* the values of a byte
    Size,          \* hwItemSize given to queue_init_byte
    MaxBlock,      \* bound: the longest block a caller enqueues,
    MaxCoverBlock  \* and the longest in a queue that overwrites

Word == 65536   \* the fields are uint16_t

ASSUME SizeAssumption == Size \in Nat /\ 0 < Size /\ Size < Word
ASSUME MaxBlockAssumption ==
    MaxBlock \in Nat /\ MaxBlock < Word /\ MaxCoverBlock \in 0..MaxBlock

VARIABLES
    pchBuffer,     \* the ring
    hwHead,        \* next byte to dequeue
    hwTail,        \* next free slot
    hwLength,      \* bytes queued
    hwPeek,        \* next byte to peek
    hwPeekLength,  \* bytes not peeked yet
    bIsCover,      \* a full queue overwrites its oldest bytes
    ret

ring == <<pchBuffer, hwHead, hwTail, hwLength, hwPeek, hwPeekLength>>
vars == <<pchBuffer, hwHead, hwTail, hwLength, hwPeek, hwPeekLength, bIsCover, ret>>

Index == 0..Size - 1
Block == UNION {[1..n -> Byte] : n \in 0..(IF bIsCover THEN MaxCoverBlock ELSE MaxBlock)}

U16(x) == x % Word

Shorter(a, b) == IF a < b THEN a ELSE b

(* hwHead and hwTail meet both when the queue is empty and when it is full. *)
Full  == hwHead = hwTail /\ hwLength # 0
Empty == hwHead = hwTail /\ hwLength = 0
PeekEmpty == hwPeek = hwTail /\ hwPeekLength = 0

Following_Unwrapped(pos) == U16(pos + 1)  \* mutant: the index runs off the ring

(* An index moved on by one, and by n, round the ring. *)
Following(pos) == IF pos + 1 >= Size THEN 0 ELSE U16(pos + 1)
Advance(pos, n) == IF n < Size - pos THEN U16(pos + n) ELSE U16(n - (Size - pos))

(* The two memcpy of a block copy: into the ring from slot `from` on, and  *)
(* out of it.                                                              *)
Slot(from, k) == IF from + k < Size THEN from + k ELSE from + k - Size
Distance(from, i) == IF i >= from THEN i - from ELSE i - from + Size
Stored_Restarted(from, block, n) ==  \* mutant: the second memcpy starts at block[0] again
    [i \in Index |-> IF Distance(from, i) >= n THEN pchBuffer[i]
                     ELSE IF i >= from THEN block[Distance(from, i) + 1] ELSE block[i + 1]]
Stored(from, block, n) ==
    [i \in Index |-> IF Distance(from, i) < n THEN block[Distance(from, i) + 1]
                                              ELSE pchBuffer[i]]
Loaded(from, n) == [k \in 1..n |-> pchBuffer[Slot(from, k - 1)]]

(* The end of every call: its answer, and the mode as it was. *)
Returns(call, asked, n, bytes) ==
    /\ ret' = [call |-> call, asked |-> asked, count |-> n, bytes |-> bytes]
    /\ UNCHANGED bIsCover

-----------------------------------------------------------------------------
(* queue_init_byte: the caller's buffer holds whatever it held before. *)
Init ==
    /\ pchBuffer \in [Index -> Byte]
    /\ hwHead = 0 /\ hwTail = 0 /\ hwLength = 0
    /\ hwPeek = 0 /\ hwPeekLength = 0
    /\ bIsCover \in BOOLEAN
    /\ ret = [call |-> "init", asked |-> 0, count |-> 1, bytes |-> <<>>]

reset_queue ==
    /\ hwHead' = 0 /\ hwTail' = 0 /\ hwLength' = 0
    /\ hwPeek' = 0 /\ hwPeekLength' = 0
    /\ pchBuffer' = pchBuffer
    /\ Returns("clear", 0, 1, <<>>)

enqueue_byte(byte) ==
    \/ /\ Full /\ ~bIsCover
       /\ Returns("put", 0, 0, <<byte>>)
       /\ UNCHANGED ring
    \/ /\ Full => bIsCover
       /\ LET head == IF Full THEN Following(hwHead) ELSE hwHead
              kept == IF Full THEN U16(hwLength - 1) ELSE hwLength
          IN  /\ hwHead' = head
              /\ hwLength' = U16(kept + 1)
              /\ hwPeek' = IF Full THEN head ELSE hwPeek
              /\ hwPeekLength' = U16((IF Full THEN kept ELSE hwPeekLength) + 1)
       /\ pchBuffer' = [pchBuffer EXCEPT ![hwTail] = byte]
       /\ hwTail' = Following(hwTail)
       /\ Returns("put", 0, 1, <<byte>>)

(* Where a block that overflows the free room leaves the head: `spill`     *)
(* bytes of the `n` overwrite queued ones.                                 *)
SpilledHead(head, spill, n) ==
    IF spill < Size - head THEN U16(head + spill) ELSE U16(n - (Size - head))

enqueue_bytes(block) ==
    LET asked    == Shorter(Len(block), Size)
        replace  == Full /\ bIsCover
        head     == IF replace THEN Advance(hwHead, asked) ELSE hwHead
        kept     == IF replace THEN U16(hwLength - asked) ELSE hwLength
        room     == Size - kept
        overflow == bIsCover /\ asked > room
        spill    == asked - room
        n        == IF ~bIsCover /\ asked > room THEN room ELSE asked
    IN  \/ /\ Full /\ ~bIsCover
           /\ Returns("put", 0, 0, block)
           /\ UNCHANGED ring
        \/ /\ Full => bIsCover
           /\ LET first == IF overflow THEN SpilledHead(head, spill, asked) ELSE head
                  left  == IF overflow THEN U16(kept - spill) ELSE kept
                  drops == replace \/ overflow
              IN  /\ hwHead' = first
                  /\ hwLength' = U16(left + n)
                  /\ hwPeek' = IF drops THEN first ELSE hwPeek
                  /\ hwPeekLength' = U16((IF drops THEN left ELSE hwPeekLength) + n)
           /\ pchBuffer' = Stored(hwTail, block, n)
           /\ hwTail' = Advance(hwTail, n)
           /\ Returns("put", 0, n, block)

Dequeued_StalePeek(asked, n, head) ==  \* mutant: the peek cursor stays behind
    /\ hwHead' = head
    /\ hwLength' = U16(hwLength - n)
    /\ UNCHANGED <<pchBuffer, hwTail, hwPeek, hwPeekLength>>
    /\ Returns("get", asked, n, Loaded(hwHead, n))

Dequeued_LateCopy(asked, n, head) ==  \* mutant: the bytes are copied after the head moved on
    /\ hwHead' = head
    /\ hwLength' = U16(hwLength - n)
    /\ hwPeek' = head
    /\ hwPeekLength' = U16(hwLength - n)
    /\ UNCHANGED <<pchBuffer, hwTail>>
    /\ Returns("get", asked, n, Loaded(head, n))

(* What both dequeues do to the indices once the bytes are copied out. *)
Dequeued(asked, n, head) ==
    /\ hwHead' = head
    /\ hwLength' = U16(hwLength - n)
    /\ hwPeek' = head
    /\ hwPeekLength' = U16(hwLength - n)
    /\ UNCHANGED <<pchBuffer, hwTail>>
    /\ Returns("get", asked, n, Loaded(hwHead, n))

dequeue_byte ==
    \/ /\ Empty
       /\ Returns("get", 1, 0, <<>>)
       /\ UNCHANGED ring
    \/ ~Empty /\ Dequeued(1, 1, Following(hwHead))

dequeue_bytes(asked) ==
    \/ /\ Empty
       /\ Returns("get", asked, 0, <<>>)
       /\ UNCHANGED ring
    \/ LET n == Shorter(asked, hwLength)
       IN  ~Empty /\ Dequeued(asked, n, Advance(hwHead, n))

Peeked(asked, n, next) ==
    /\ hwPeek' = next
    /\ hwPeekLength' = U16(hwPeekLength - n)
    /\ UNCHANGED <<pchBuffer, hwHead, hwTail, hwLength>>
    /\ Returns("look", asked, n, Loaded(hwPeek, n))

peek_byte_queue ==
    \/ /\ PeekEmpty
       /\ Returns("look", 1, 0, <<>>)
       /\ UNCHANGED ring
    \/ ~PeekEmpty /\ Peeked(1, 1, Following(hwPeek))

peek_bytes_queue(asked) ==
    \/ /\ PeekEmpty
       /\ Returns("look", asked, 0, <<>>)
       /\ UNCHANGED ring
    \/ LET n == Shorter(asked, hwPeekLength)
       IN  ~PeekEmpty /\ Peeked(asked, n, Advance(hwPeek, n))

reset_peek ==
    /\ hwPeek' = hwHead
    /\ hwPeekLength' = hwLength
    /\ UNCHANGED <<pchBuffer, hwHead, hwTail, hwLength>>
    /\ Returns("rewind", 0, 1, <<>>)

get_all_peeked ==
    /\ hwHead' = hwPeek
    /\ hwLength' = hwPeekLength
    /\ UNCHANGED <<pchBuffer, hwTail, hwPeek, hwPeekLength>>
    /\ Returns("take", 0, 1, <<>>)

PeekStatus == IF hwPeek >= hwHead THEN U16(hwPeek - hwHead)
                                  ELSE U16(Size - hwHead + hwPeek)

restore_peek_status(count) ==
    /\ hwPeek' = IF hwHead + count < Size THEN U16(hwHead + count)
                                          ELSE U16(count - (Size - hwHead))
    /\ hwPeekLength' = U16(hwPeekLength - count)
    /\ UNCHANGED <<pchBuffer, hwHead, hwTail, hwLength>>
    /\ Returns("move", count, 1, <<>>)

(* The read-only calls. *)
Truth(b) == IF b THEN 1 ELSE 0
Getter ==
    /\ UNCHANGED ring
    /\ \/ Returns("count", 0, hwLength, <<>>)              \* get_queue_count
       \/ Returns("room", 0, U16(Size - hwLength), <<>>)   \* get_queue_available_count
       \/ Returns("empty", 0, Truth(Empty), <<>>)          \* is_queue_empty
       \/ Returns("shown", 0, Truth(PeekEmpty), <<>>)      \* is_peek_empty
       \/ Returns("cursor", 0, PeekStatus, <<>>)           \* get_peek_status

(* The counts given to restore_peek_status: any up to the length while the *)
(* cursor is rewound. (No caller in the repository uses it; its arithmetic *)
(* takes the count from hwPeekLength, so it is right only there.)          *)
SavedStatus == IF hwPeekLength = hwLength THEN 0..hwLength ELSE {}

Next ==
    \/ reset_queue
    \/ \E byte \in Byte : enqueue_byte(byte)
    \/ \E block \in Block : enqueue_bytes(block)
    \/ dequeue_byte
    \/ \E asked \in 0..Size + 1 : dequeue_bytes(asked)
    \/ peek_byte_queue
    \/ \E asked \in 0..Size + 1 : peek_bytes_queue(asked)
    \/ reset_peek
    \/ get_all_peeked
    \/ \E count \in SavedStatus : restore_peek_status(count)
    \/ Getter

Spec == Init /\ [][Next]_vars

-----------------------------------------------------------------------------
(* Every field keeps its range: the indices name slots of the buffer and   *)
(* neither count exceeds the size, so no memcpy leaves the buffer and      *)
(* get_queue_available_count never wraps below zero.                       *)
Ranges ==
    /\ pchBuffer \in [Index -> Byte]
    /\ hwHead \in Index /\ hwTail \in Index /\ hwPeek \in Index
    /\ hwLength \in 0..Size
    /\ hwPeekLength \in 0..Size
    /\ ret.count \in 0..Size + 1
TypeOK == Ranges /\ bIsCover \in BOOLEAN

(* hwLength counts the bytes from hwHead to hwTail: the one redundancy     *)
(* that tells a full queue from an empty one never drifts.                 *)
LengthInStep == hwTail = Slot(hwHead, hwLength)

(* The look-ahead cursor stays inside the queued bytes and hwPeekLength    *)
(* counts those still ahead of it, whatever enqueues, dequeues, overwrites *)
(* and commits come between two peeks.                                     *)
PeekInStep ==
    /\ hwPeekLength <= hwLength
    /\ hwPeek = Slot(hwHead, hwLength - hwPeekLength)

RingConsistent == LengthInStep /\ PeekInStep

(* The queue behaves, call by call and byte by byte, as a bounded FIFO     *)
(* with a look-ahead cursor: no byte is lost, repeated or reordered by     *)
(* wrapping, by truncation or by a commit of peeked bytes.                 *)
Fifo == INSTANCE PeekFifo WITH
            Capacity <- Size,
            items    <- Loaded(hwHead, hwLength),
            cover    <- bIsCover,
            cursor   <- hwLength - hwPeekLength
FifoSpec == Fifo!Spec
=============================================================================
