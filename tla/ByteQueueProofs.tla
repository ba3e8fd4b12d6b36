-------------------------- MODULE ByteQueueProofs --------------------------
(***************************************************************************)
(* The byte queue keeps its bookkeeping consistent for every size below    *)
(* 65536, every set of bytes and every block length, provided a queue that *)
(* overwrites is fed byte by byte (the counterexample of run               *)
(* QueueCoverBlock shows that the proviso cannot be dropped).              *)
(* Under the same proviso it implements PeekFifo. The queued bytes are     *)
(* read out of the ring slot by slot (Taken), and each call is matched     *)
(* with the abstract one: first what it does to the contents, then what it *)
(* answers.                                                                *)
(***************************************************************************)
EXTENDS ByteQueue, SequenceTheorems, TLAPS

Proviso == MaxCoverBlock <= 1

(* The inductive invariant: the ranges and both redundancies together. *)
IInv == Ranges /\ RingConsistent

(* A value that already fits in 16 bits is left alone by the assignment. *)
LEMMA U16Fits == ASSUME NEW x \in Int, 0 <= x, x < Word PROVE U16(x) = x
<1>1. Word \in Nat /\ Word > 0
  BY SMT DEF Word
<1>2. QED
  BY <1>1, SMT DEF U16

(* What the assumption on Size says of an index. *)
LEMMA IndexBounds ==
    ASSUME NEW pos
    PROVE  pos \in Index <=> pos \in Nat /\ pos < Size
  BY SizeAssumption, SMT DEF Index

(* Moving an index by one, or by up to Size, is taking a slot. *)
LEMMA FollowingSlot ==
    ASSUME NEW pos \in Index
    PROVE  Following(pos) = Slot(pos, 1) /\ Following(pos) \in Index
<1>1. pos \in Nat /\ pos < Size /\ Size \in Nat /\ Size < Word /\ 0 < Size
  BY IndexBounds, SizeAssumption, SMT
<1>2. Word \in Nat
  BY SMT DEF Word
<1>3. pos + 1 < Size => U16(pos + 1) = pos + 1
  BY <1>1, <1>2, U16Fits, SMT
<1>4. QED
  BY <1>1, <1>3, IndexBounds, SMT DEF Following, Slot

LEMMA AdvanceSlot ==
    ASSUME NEW pos \in Index, NEW n \in 0..Size
    PROVE  Advance(pos, n) = Slot(pos, n) /\ Advance(pos, n) \in Index
<1>1. pos \in Nat /\ pos < Size /\ Size \in Nat /\ Size < Word /\ n \in Nat /\ n <= Size
  BY IndexBounds, SizeAssumption, SMT
<1>2. Word \in Nat
  BY SMT DEF Word
<1>3. pos + n < Size => U16(pos + n) = pos + n
  BY <1>1, <1>2, U16Fits, SMT
<1>4. pos + n >= Size => U16(n - (Size - pos)) = pos + n - Size
  BY <1>1, <1>2, U16Fits, SMT
<1>5. QED
  BY <1>1, <1>3, <1>4, IndexBounds, SMT DEF Advance, Slot

(* Slots compose: going a steps and then b is going a + b steps. *)
LEMMA SlotSum ==
    ASSUME NEW pos \in Index, NEW a \in Nat, NEW b \in Nat, a + b <= Size
    PROVE  Slot(Slot(pos, a), b) = Slot(pos, a + b)
  BY SizeAssumption, IndexBounds, SMT DEF Slot

(* The test on the indices and the count tells full from empty. *)
LEMMA FullEmpty ==
    ASSUME Ranges, LengthInStep
    PROVE  /\ Full <=> hwLength = Size
           /\ Empty <=> hwLength = 0
  BY SizeAssumption, IndexBounds, SMT DEF Ranges, LengthInStep, Full, Empty, Slot

(* The cursor's own test tells that nothing is left to peek. *)
LEMMA PeekEnd ==
    ASSUME Ranges, RingConsistent
    PROVE  PeekEmpty <=> hwPeekLength = 0
<1>1. hwPeekLength = 0 => hwPeek = hwTail
  BY SizeAssumption, SMT DEF Ranges, RingConsistent, LengthInStep, PeekInStep
<1>2. QED
  BY <1>1 DEF PeekEmpty

(* A block is a sequence of bytes no longer than the bound of the mode. *)
LEMMA BlockLength ==
    ASSUME NEW block \in Block
    PROVE  /\ Len(block) \in Nat /\ block \in [1..Len(block) -> Byte]
           /\ Len(block) <= MaxBlock
           /\ bIsCover => Len(block) <= MaxCoverBlock
<1> DEFINE longest == IF bIsCover THEN MaxCoverBlock ELSE MaxBlock
<1>1. PICK n \in 0..longest : block \in [1..n -> Byte]
  BY DEF Block
<1>2. n \in Nat /\ n <= MaxBlock /\ (bIsCover => n <= MaxCoverBlock)
  BY <1>1, MaxBlockAssumption, SMT
<1>3. block \in Seq(Byte) /\ Len(block) = n
  BY <1>1, <1>2, SMT
<1>4. QED
  BY <1>1, <1>2, <1>3

(* Copying n bytes of a block into the ring leaves a ring of bytes. *)
LEMMA StoredType ==
    ASSUME pchBuffer \in [Index -> Byte], NEW from \in Index,
           NEW block \in Block, NEW n \in Nat, n <= Len(block)
    PROVE  Stored(from, block, n) \in [Index -> Byte]
<1>1. ASSUME NEW i \in Index, Distance(from, i) < n
      PROVE  block[Distance(from, i) + 1] \in Byte
  <2>1. Distance(from, i) \in Nat
    BY IndexBounds, SizeAssumption, SMT DEF Distance
  <2>2. QED
    BY <1>1, <2>1, BlockLength, SMT
<1>2. QED
  BY <1>1, SMT DEF Stored

LEMMA InitIInv == Init => IInv
  BY SizeAssumption, IndexBounds, SMT DEF Init, IInv, Ranges, RingConsistent, LengthInStep, PeekInStep, Slot

-----------------------------------------------------------------------------
(* What the indices amount to once the invariant holds, without modulo. *)
LEMMA Unfold ==
    ASSUME IInv
    PROVE  /\ pchBuffer \in [Index -> Byte]
           /\ hwHead \in Index /\ hwTail \in Index /\ hwPeek \in Index
           /\ hwLength \in Nat /\ hwLength <= Size
           /\ hwPeekLength \in Nat /\ hwPeekLength <= hwLength
           /\ hwTail = Slot(hwHead, hwLength)
           /\ hwPeek = Slot(hwHead, hwLength - hwPeekLength)
           /\ ret.count \in 0..Size + 1
           /\ Full <=> hwLength = Size
           /\ Empty <=> hwLength = 0
  BY FullEmpty, SizeAssumption, SMT
     DEF IInv, Ranges, RingConsistent, LengthInStep, PeekInStep

(* And what must be shown of the next state. *)
LEMMA Fold ==
    ASSUME pchBuffer' \in [Index -> Byte],
           hwHead' \in Index, hwLength' \in Nat, hwLength' <= Size,
           hwPeekLength' \in Nat, hwPeekLength' <= hwLength',
           hwTail' \in Index, hwTail' = Slot(hwHead', hwLength'),
           hwPeek' \in Index, hwPeek' = Slot(hwHead', hwLength' - hwPeekLength'),
           ret'.count \in Nat, ret'.count <= Size + 1
    PROVE  IInv'
<1>1. Ranges'
  <2>1. /\ hwLength' \in 0..Size
        /\ hwPeekLength' \in 0..Size
        /\ ret'.count \in 0..Size + 1
    BY SizeAssumption, SMT
  <2>2. QED
    BY <2>1 DEF Ranges
<1>2. RingConsistent'
  BY DEF RingConsistent, LengthInStep, PeekInStep
<1>3. QED
  BY <1>1, <1>2 DEF IInv

(* Appending n bytes at the tail when no queued byte is overwritten. *)
LEMMA AppendStep ==
    ASSUME IInv, NEW n \in Nat, n <= Size - hwLength,
           hwHead' = hwHead, hwPeek' = hwPeek,
           hwTail' = Slot(hwTail, n),
           hwLength' = hwLength + n, hwPeekLength' = hwPeekLength + n,
           pchBuffer' \in [Index -> Byte],
           ret'.count \in Nat, ret'.count <= Size + 1
    PROVE  IInv'
<1>1. hwTail' = Slot(hwHead, hwLength + n)
  BY Unfold, SlotSum, SizeAssumption, IndexBounds, SMT
<1>2. hwTail' \in Index
  BY Unfold, SizeAssumption, IndexBounds, SMT DEF Slot
<1>3. hwLength' - hwPeekLength' = hwLength - hwPeekLength
  BY Unfold, SMT
<1>4. hwPeek' = Slot(hwHead', hwLength' - hwPeekLength')
  BY <1>3, Unfold
<1>5. hwLength' \in Nat /\ hwLength' <= Size /\ hwPeekLength' \in Nat /\ hwPeekLength' <= hwLength'
  BY Unfold, SizeAssumption, SMT
<1>6. QED
  BY <1>1, <1>2, <1>4, <1>5, Unfold, Fold

(* Replacing the n oldest bytes of a full queue: the tail moves with the  *)
(* head, and everything is ahead of the cursor again.                     *)
LEMMA ReplaceStep ==
    ASSUME IInv, NEW n \in Nat, n <= Size, hwLength = Size,
           hwHead' = Slot(hwHead, n), hwTail' = Slot(hwTail, n),
           hwLength' = Size, hwPeek' = hwHead', hwPeekLength' = Size,
           pchBuffer' \in [Index -> Byte],
           ret'.count \in Nat, ret'.count <= Size + 1
    PROVE  IInv'
<1>1. hwTail = hwHead
  BY Unfold, SizeAssumption, IndexBounds, SMT DEF Slot
<1>2. hwHead' \in Index
  BY Unfold, SizeAssumption, IndexBounds, SMT DEF Slot
<1>3. hwTail' = hwHead' /\ hwTail' \in Index
  BY <1>1, <1>2
<1>4. Slot(hwHead', Size) = hwHead' /\ Slot(hwHead', Size - Size) = hwHead'
  BY <1>2, SizeAssumption, IndexBounds, SMT DEF Slot
<1>5. QED
  BY <1>2, <1>3, <1>4, SizeAssumption, Fold, SMT

(* Giving up the n oldest bytes, cursor rewound to what is left. *)
LEMMA DropStep ==
    ASSUME IInv, NEW n \in Nat, n <= hwLength,
           NEW asked, Dequeued(asked, n, Slot(hwHead, n))
    PROVE  IInv'
<1>1. /\ hwHead' = Slot(hwHead, n) /\ hwPeek' = hwHead' /\ hwTail' = hwTail
      /\ hwLength' = U16(hwLength - n) /\ hwPeekLength' = hwLength'
      /\ pchBuffer' = pchBuffer /\ ret'.count = n
  BY SMT DEF Dequeued, Returns
<1>2. Word \in Nat
  BY SMT DEF Word
<1>3. hwLength' = hwLength - n
  BY <1>1, <1>2, Unfold, U16Fits, SizeAssumption, SMT
<1>4. hwHead' \in Index
  BY <1>1, Unfold, SizeAssumption, IndexBounds, SMT DEF Slot
<1>5. hwTail' = Slot(hwHead', hwLength')
  <2>1. hwLength - n \in Nat /\ n + (hwLength - n) = hwLength
    BY Unfold, SMT
  <2>2. Slot(Slot(hwHead, n), hwLength - n) = Slot(hwHead, hwLength)
    BY <2>1, Unfold, SlotSum, SMT
  <2>3. QED
    BY <1>1, <1>3, <2>2, Unfold
<1>6. hwPeek' = Slot(hwHead', hwLength' - hwPeekLength')
  BY <1>1, <1>3, <1>4, Unfold, IndexBounds, SizeAssumption, SMT DEF Slot
<1>7. hwLength' \in Nat /\ hwLength' <= Size /\ n <= Size + 1
  BY <1>3, Unfold, SizeAssumption, SMT
<1>8. QED
  BY <1>1, <1>4, <1>5, <1>6, <1>7, Unfold, Fold, SMT

(* Showing n bytes more to the caller. *)
LEMMA LookStep ==
    ASSUME IInv, NEW n \in Nat, n <= hwPeekLength,
           NEW asked, Peeked(asked, n, Slot(hwPeek, n))
    PROVE  IInv'
<1>1. /\ hwPeek' = Slot(hwPeek, n) /\ hwPeekLength' = U16(hwPeekLength - n)
      /\ UNCHANGED <<pchBuffer, hwHead, hwTail, hwLength>> /\ ret'.count = n
  BY SMT DEF Peeked, Returns
<1>2. Word \in Nat
  BY SMT DEF Word
<1>3. hwPeekLength' = hwPeekLength - n
  BY <1>1, <1>2, Unfold, U16Fits, SizeAssumption, SMT
<1>4. hwPeek' \in Index
  BY <1>1, Unfold, SizeAssumption, IndexBounds, SMT DEF Slot
<1>5. hwPeek' = Slot(hwHead', hwLength' - hwPeekLength')
  <2>1. /\ hwLength - hwPeekLength \in Nat
        /\ (hwLength - hwPeekLength) + n <= Size
        /\ (hwLength - hwPeekLength) + n = hwLength - (hwPeekLength - n)
    BY Unfold, SizeAssumption, SMT
  <2>2. Slot(Slot(hwHead, hwLength - hwPeekLength), n) = Slot(hwHead, (hwLength - hwPeekLength) + n)
    BY <2>1, Unfold, SlotSum, SMT
  <2>3. QED
    BY <1>1, <1>3, <2>1, <2>2, Unfold
<1>6. hwPeekLength' \in Nat /\ hwPeekLength' <= hwLength /\ n <= Size + 1
  BY <1>3, Unfold, SizeAssumption, SMT
<1>7. QED
  BY <1>1, <1>4, <1>5, <1>6, Unfold, Fold, SMT

(* A call that only answers. *)
LEMMA AnswerStep ==
    ASSUME IInv, UNCHANGED ring, ret'.count \in Nat, ret'.count <= Size + 1
    PROVE  IInv'
  BY Unfold, Fold, SMT DEF ring

-----------------------------------------------------------------------------
(* The operations, one by one. *)
LEMMA StepClear == IInv /\ reset_queue => IInv'
  <1> SUFFICES ASSUME IInv, reset_queue PROVE IInv'
    OBVIOUS
  <1>1. /\ hwHead' = 0 /\ hwTail' = 0 /\ hwLength' = 0 /\ hwPeek' = 0 /\ hwPeekLength' = 0
        /\ pchBuffer' = pchBuffer /\ ret'.count = 1
    BY SMT DEF reset_queue, Returns
  <1>2. 0 \in Index /\ Slot(0, 0) = 0 /\ 0 - 0 = 0 /\ 1 <= Size + 1
    BY SizeAssumption, IndexBounds, SMT DEF Slot
  <1>3. QED
    BY <1>1, <1>2, Unfold, Fold, SizeAssumption, SMT

LEMMA StepEnqueueByte ==
    ASSUME IInv, NEW byte \in Byte, enqueue_byte(byte)
    PROVE  IInv'
<1>0. Word \in Nat /\ Size \in Nat /\ 0 < Size /\ Size < Word
  BY SizeAssumption, SMT DEF Word
<1>1. CASE Full /\ ~bIsCover /\ Returns("put", 0, 0, <<byte>>) /\ UNCHANGED ring
  BY <1>1, <1>0, AnswerStep, SMT DEF Returns
<1>2. ASSUME Full => bIsCover,
             pchBuffer' = [pchBuffer EXCEPT ![hwTail] = byte],
             hwTail' = Following(hwTail), Returns("put", 0, 1, <<byte>>)
      PROVE  /\ pchBuffer' \in [Index -> Byte] /\ hwTail' = Slot(hwTail, 1)
             /\ ret'.count = 1 /\ 1 <= Size + 1
  BY <1>2, <1>0, Unfold, FollowingSlot, SMT DEF Returns
<1>3. CASE ~Full /\ enqueue_byte(byte)
  <2>1. /\ hwHead' = hwHead /\ hwPeek' = hwPeek
        /\ hwLength' = U16(hwLength + 1) /\ hwPeekLength' = U16(hwPeekLength + 1)
        /\ hwTail' = Slot(hwTail, 1)
        /\ pchBuffer' \in [Index -> Byte] /\ ret'.count = 1 /\ 1 <= Size + 1
    BY <1>2, <1>3 DEF enqueue_byte
  <2>2. 1 <= Size - hwLength
    BY <1>3, <1>0, Unfold, SMT
  <2>3. hwLength' = hwLength + 1 /\ hwPeekLength' = hwPeekLength + 1
    BY <2>1, <2>2, <1>0, Unfold, U16Fits, SMT
  <2>4. QED
    BY <2>1, <2>2, <2>3, AppendStep, SMT
<1>4. CASE Full /\ bIsCover /\ enqueue_byte(byte)
  <2>1. /\ hwHead' = Following(hwHead) /\ hwPeek' = hwHead'
        /\ hwLength' = U16(U16(hwLength - 1) + 1) /\ hwPeekLength' = hwLength'
        /\ hwTail' = Slot(hwTail, 1)
        /\ pchBuffer' \in [Index -> Byte] /\ ret'.count = 1 /\ 1 <= Size + 1
    BY <1>2, <1>4 DEF enqueue_byte
  <2>2. hwHead' = Slot(hwHead, 1)
    BY <2>1, Unfold, FollowingSlot
  <2>3. hwLength = Size
    BY <1>4, Unfold
  <2>4. U16(Size - 1) = Size - 1 /\ U16((Size - 1) + 1) = Size
    BY <1>0, U16Fits, SMT
  <2>5. QED
    BY <2>1, <2>2, <2>3, <2>4, <1>0, ReplaceStep, SMT
<1>5. QED
  BY <1>1, <1>3, <1>4 DEF enqueue_byte

(* With a queue that keeps its bytes the block is cut to the room; with    *)
(* one that overwrites the block is one byte at most, so that it overflows *)
(* only a full queue and the head moves as far as the tail.                *)
LEMMA StepEnqueueBytes ==
    ASSUME IInv, Proviso, NEW block \in Block, enqueue_bytes(block)
    PROVE  IInv'
<1> DEFINE asked == Shorter(Len(block), Size)
           room  == Size - hwLength
           n     == IF ~bIsCover /\ asked > room THEN room ELSE asked
<1>0. Word \in Nat /\ Size \in Nat /\ 0 < Size /\ Size < Word
  BY SizeAssumption, SMT DEF Word
<1>1. /\ asked \in Nat /\ asked <= Size /\ asked <= Len(block)
      /\ bIsCover => asked <= 1
      /\ Len(block) \in Nat
  BY <1>0, BlockLength, MaxBlockAssumption, SMT DEF Shorter, Proviso
<1>2. CASE Full /\ ~bIsCover /\ Returns("put", 0, 0, block) /\ UNCHANGED ring
  BY <1>2, <1>0, AnswerStep, SMT DEF Returns
<1>3. CASE ~Full /\ enqueue_bytes(block)
  <2>1. room \in Nat /\ room >= 1 /\ ~(bIsCover /\ asked > room)
    BY <1>0, <1>1, <1>3, Unfold, SMT
  <2>2. n \in Nat /\ n <= room /\ n <= Size /\ n <= Len(block)
    BY <2>1, <1>0, <1>1, SMT
  <2>3. /\ hwHead' = hwHead /\ hwPeek' = hwPeek
        /\ hwLength' = U16(hwLength + n) /\ hwPeekLength' = U16(hwPeekLength + n)
        /\ hwTail' = Advance(hwTail, n)
        /\ pchBuffer' = Stored(hwTail, block, n)
        /\ Returns("put", 0, n, block)
    BY <2>1, <1>3 DEF enqueue_bytes
  <2>4. hwLength' = hwLength + n /\ hwPeekLength' = hwPeekLength + n
    BY <2>2, <2>3, <1>0, Unfold, U16Fits, SMT
  <2>5. hwTail' = Slot(hwTail, n)
    BY <2>2, <2>3, <1>0, Unfold, AdvanceSlot, SMT
  <2>6. pchBuffer' \in [Index -> Byte]
    BY <2>2, <2>3, Unfold, StoredType
  <2>7. ret'.count \in Nat /\ ret'.count <= Size + 1
    BY <2>2, <2>3, <1>0, SMT DEF Returns
  <2>8. QED
    BY <2>2, <2>3, <2>4, <2>5, <2>6, <2>7, AppendStep
<1>4. CASE Full /\ bIsCover /\ enqueue_bytes(block)
  <2>1. hwLength = Size
    BY <1>4, Unfold
  <2>2. U16(Size - asked) = Size - asked /\ U16((Size - asked) + asked) = Size
        /\ Size - (Size - asked) = asked /\ ~(asked > asked)
    BY <1>0, <1>1, U16Fits, SMT
  <2>3. /\ hwHead' = Advance(hwHead, asked) /\ hwPeek' = hwHead'
        /\ hwLength' = Size /\ hwPeekLength' = Size
        /\ hwTail' = Advance(hwTail, asked)
        /\ pchBuffer' = Stored(hwTail, block, asked)
        /\ Returns("put", 0, asked, block)
    BY <2>1, <2>2, <1>4 DEF enqueue_bytes
  <2>4. hwHead' = Slot(hwHead, asked) /\ hwTail' = Slot(hwTail, asked)
    BY <2>3, <1>0, <1>1, Unfold, AdvanceSlot, SMT
  <2>5. pchBuffer' \in [Index -> Byte]
    BY <2>3, <1>1, Unfold, StoredType
  <2>6. ret'.count \in Nat /\ ret'.count <= Size + 1
    BY <2>3, <1>0, <1>1, SMT DEF Returns
  <2>7. QED
    BY <1>1, <2>1, <2>3, <2>4, <2>5, <2>6, ReplaceStep
<1>5. QED
  BY <1>2, <1>3, <1>4 DEF enqueue_bytes

LEMMA StepDequeueByte == IInv /\ dequeue_byte => IInv'
  <1> SUFFICES ASSUME IInv, dequeue_byte PROVE IInv'
    OBVIOUS
  <1>1. CASE Empty /\ Returns("get", 1, 0, <<>>) /\ UNCHANGED ring
    BY <1>1, SizeAssumption, AnswerStep, SMT DEF Returns
  <1>2. CASE ~Empty /\ Dequeued(1, 1, Following(hwHead))
    <2>1. 1 <= hwLength
      BY <1>2, Unfold, SMT
    <2>2. Dequeued(1, 1, Slot(hwHead, 1))
      BY <1>2, Unfold, FollowingSlot
    <2>3. QED
      BY <2>1, <2>2, DropStep, SMT
  <1>3. QED
    BY <1>1, <1>2 DEF dequeue_byte

LEMMA StepDequeueBytes ==
    ASSUME IInv, NEW asked \in 0..Size + 1, dequeue_bytes(asked)
    PROVE  IInv'
<1> DEFINE n == Shorter(asked, hwLength)
<1>1. CASE Empty /\ Returns("get", asked, 0, <<>>) /\ UNCHANGED ring
  BY <1>1, SizeAssumption, AnswerStep, SMT DEF Returns
<1>2. CASE ~Empty /\ Dequeued(asked, n, Advance(hwHead, n))
  <2>1. n \in Nat /\ n <= hwLength /\ n \in 0..Size
    BY Unfold, SizeAssumption, SMT DEF Shorter
  <2>2. Dequeued(asked, n, Slot(hwHead, n))
    BY <1>2, <2>1, Unfold, AdvanceSlot
  <2>3. QED
    BY <2>1, <2>2, DropStep
<1>3. QED
  BY <1>1, <1>2 DEF dequeue_bytes

LEMMA StepPeekByte == IInv /\ peek_byte_queue => IInv'
  <1> SUFFICES ASSUME IInv, peek_byte_queue PROVE IInv'
    OBVIOUS
  <1>1. CASE PeekEmpty /\ Returns("look", 1, 0, <<>>) /\ UNCHANGED ring
    BY <1>1, SizeAssumption, AnswerStep, SMT DEF Returns
  <1>2. CASE ~PeekEmpty /\ Peeked(1, 1, Following(hwPeek))
    <2>1. 1 <= hwPeekLength
      BY <1>2, PeekEnd, Unfold, SMT DEF IInv
    <2>2. Peeked(1, 1, Slot(hwPeek, 1))
      BY <1>2, Unfold, FollowingSlot
    <2>3. QED
      BY <2>1, <2>2, LookStep, SMT
  <1>3. QED
    BY <1>1, <1>2 DEF peek_byte_queue

LEMMA StepPeekBytes ==
    ASSUME IInv, NEW asked \in 0..Size + 1, peek_bytes_queue(asked)
    PROVE  IInv'
<1> DEFINE n == Shorter(asked, hwPeekLength)
<1>1. CASE PeekEmpty /\ Returns("look", asked, 0, <<>>) /\ UNCHANGED ring
  BY <1>1, SizeAssumption, AnswerStep, SMT DEF Returns
<1>2. CASE ~PeekEmpty /\ Peeked(asked, n, Advance(hwPeek, n))
  <2>1. n \in Nat /\ n <= hwPeekLength /\ n \in 0..Size
    BY Unfold, SizeAssumption, SMT DEF Shorter
  <2>2. Peeked(asked, n, Slot(hwPeek, n))
    BY <1>2, <2>1, Unfold, AdvanceSlot
  <2>3. QED
    BY <2>1, <2>2, LookStep
<1>3. QED
  BY <1>1, <1>2 DEF peek_bytes_queue

LEMMA StepResetPeek == IInv /\ reset_peek => IInv'
  <1> SUFFICES ASSUME IInv, reset_peek PROVE IInv'
    OBVIOUS
  <1>1. /\ hwPeek' = hwHead /\ hwPeekLength' = hwLength /\ ret'.count = 1
        /\ UNCHANGED <<pchBuffer, hwHead, hwTail, hwLength>>
    BY SMT DEF reset_peek, Returns
  <1>2. hwHead = Slot(hwHead, hwLength - hwLength)
    BY Unfold, IndexBounds, SizeAssumption, SMT DEF Slot
  <1>3. QED
    BY <1>1, <1>2, Unfold, Fold, SizeAssumption, SMT

LEMMA StepGetAllPeeked == IInv /\ get_all_peeked => IInv'
  <1> SUFFICES ASSUME IInv, get_all_peeked PROVE IInv'
    OBVIOUS
  <1>1. /\ hwHead' = hwPeek /\ hwLength' = hwPeekLength /\ ret'.count = 1
        /\ UNCHANGED <<pchBuffer, hwTail, hwPeek, hwPeekLength>>
    BY SMT DEF get_all_peeked, Returns
  <1>2. /\ hwLength - hwPeekLength \in Nat
        /\ (hwLength - hwPeekLength) + hwPeekLength = hwLength
    BY Unfold, SMT
  <1>3. hwTail = Slot(hwPeek, hwPeekLength)
    BY <1>2, Unfold, SlotSum, SMT
  <1>4. hwPeek = Slot(hwPeek, hwPeekLength - hwPeekLength)
    BY Unfold, IndexBounds, SizeAssumption, SMT DEF Slot
  <1>5. QED
    BY <1>1, <1>3, <1>4, Unfold, Fold, SizeAssumption, SMT

LEMMA StepRestore ==
    ASSUME IInv, NEW count \in SavedStatus, restore_peek_status(count)
    PROVE  IInv'
<1>0. Word \in Nat /\ Size \in Nat /\ 0 < Size /\ Size < Word
  BY SizeAssumption, SMT DEF Word
<1>1. hwPeekLength = hwLength /\ count \in 0..hwLength
  BY DEF SavedStatus
<1>2. count \in Nat /\ count <= hwLength /\ count <= Size /\ count \in 0..Size
  BY <1>0, <1>1, Unfold, SMT
<1>3. /\ hwPeek' = Advance(hwHead, count) /\ hwPeekLength' = U16(hwLength - count)
      /\ UNCHANGED <<pchBuffer, hwHead, hwTail, hwLength>> /\ ret'.count = 1
  BY <1>0, <1>1, <1>2, Unfold, IndexBounds, SMT DEF restore_peek_status, Returns, Advance
<1>4. hwPeekLength' = hwLength - count
  BY <1>0, <1>2, <1>3, Unfold, U16Fits, SMT
<1>5. hwPeek' = Slot(hwHead, count) /\ hwPeek' \in Index
  BY <1>2, <1>3, Unfold, AdvanceSlot
<1>6. hwPeekLength' \in Nat /\ hwPeekLength' <= hwLength /\ hwLength - hwPeekLength' = count
  BY <1>2, <1>4, Unfold, SMT
<1>7. QED
  BY <1>0, <1>3, <1>5, <1>6, Unfold, Fold, SMT

LEMMA StepGetter == IInv /\ Getter => IInv'
  <1> SUFFICES ASSUME IInv, Getter PROVE IInv'
    OBVIOUS
  <1>0. Word \in Nat /\ Size \in Nat /\ 0 < Size /\ Size < Word
    BY SizeAssumption, SMT DEF Word
  <1>1. /\ U16(Size - hwLength) \in Nat /\ U16(Size - hwLength) <= Size + 1
        /\ hwLength <= Size + 1
    BY <1>0, Unfold, U16Fits, SMT
  <1>2. PeekStatus \in Nat /\ PeekStatus <= Size + 1
    <2>1. CASE hwPeek >= hwHead
      BY <1>0, <2>1, Unfold, IndexBounds, U16Fits, SMT DEF PeekStatus
    <2>2. CASE ~(hwPeek >= hwHead)
      <3>1. Size - hwHead + hwPeek \in Nat /\ Size - hwHead + hwPeek <= Size
        BY <1>0, <2>2, Unfold, IndexBounds, SMT
      <3>2. QED
        BY <1>0, <2>2, <3>1, U16Fits, SMT DEF PeekStatus
    <2>3. QED
      BY <2>1, <2>2
  <1>3. ret'.count \in Nat /\ ret'.count <= Size + 1
    BY <1>0, <1>1, <1>2, Unfold, SMT DEF Getter, Returns, Truth
  <1>4. QED
    BY <1>3, AnswerStep DEF Getter

LEMMA StepIInv == Proviso /\ IInv /\ [Next]_vars => IInv'
  <1> SUFFICES ASSUME Proviso, IInv, [Next]_vars PROVE IInv'
    OBVIOUS
  <1>1. CASE UNCHANGED vars
    BY <1>1, Unfold, AnswerStep, SMT DEF vars, ring
  <1>2. CASE Next
    BY <1>2, StepClear, StepEnqueueByte, StepEnqueueBytes, StepDequeueByte, StepDequeueBytes,
       StepPeekByte, StepPeekBytes, StepResetPeek, StepGetAllPeeked, StepRestore, StepGetter
       DEF Next
  <1>3. QED
    BY <1>1, <1>2

(* No call changes the mode the queue was created in. *)
LEMMA ModeKept == [Next]_vars => UNCHANGED bIsCover
<1>1. ASSUME NEW byte \in Byte, enqueue_byte(byte) PROVE UNCHANGED bIsCover
  BY <1>1 DEF enqueue_byte, Returns
<1>2. ASSUME NEW block \in Block, enqueue_bytes(block) PROVE UNCHANGED bIsCover
  BY <1>2 DEF enqueue_bytes, Returns
<1>3. dequeue_byte \/ peek_byte_queue => UNCHANGED bIsCover
  BY DEF dequeue_byte, peek_byte_queue, Dequeued, Peeked, Returns
<1>4. ASSUME NEW asked \in 0..Size + 1, dequeue_bytes(asked) \/ peek_bytes_queue(asked)
      PROVE  UNCHANGED bIsCover
  BY <1>4 DEF dequeue_bytes, peek_bytes_queue, Dequeued, Peeked, Returns
<1>5. ASSUME NEW count \in SavedStatus, restore_peek_status(count) PROVE UNCHANGED bIsCover
  BY <1>5 DEF restore_peek_status, Returns
<1>6. reset_queue \/ reset_peek \/ get_all_peeked \/ Getter => UNCHANGED bIsCover
  BY DEF reset_queue, reset_peek, get_all_peeked, Getter, Returns
<1>7. QED
  BY <1>1, <1>2, <1>3, <1>4, <1>5, <1>6 DEF Next, vars

-----------------------------------------------------------------------------
(* Every index names a slot of the buffer and both counts stay within the  *)
(* size after any sequence of calls, for every size.                       *)
THEOREM QueueTypeOK ==
    ASSUME Proviso PROVE Spec => []TypeOK
<1>1. IInv /\ [Next]_vars => IInv'
  BY StepIInv
<1>2. IInv /\ bIsCover \in BOOLEAN => TypeOK
  BY DEF IInv, TypeOK
<1>3. Init => bIsCover \in BOOLEAN
  BY DEF Init
<1>4. bIsCover \in BOOLEAN /\ [Next]_vars => (bIsCover \in BOOLEAN)'
  BY ModeKept
<1>5. QED
  BY <1>1, <1>2, <1>3, <1>4, InitIInv, PTL DEF Spec

(* hwLength counts the bytes between head and tail and hwPeekLength those  *)
(* ahead of the look-ahead cursor, after any sequence of calls.            *)
THEOREM QueueConsistent ==
    ASSUME Proviso PROVE Spec => []RingConsistent
<1>1. IInv /\ [Next]_vars => IInv'
  BY StepIInv
<1>2. IInv => RingConsistent
  BY DEF IInv
<1>3. QED
  BY <1>1, <1>2, InitIInv, PTL DEF Spec
-----------------------------------------------------------------------------
(* The refinement. *)
(* What Loaded reads, of any ring. *)
Taken(buf, from, n) == [k \in 1..n |-> buf[Slot(from, k - 1)]]

LEMMA LoadedTaken ==
    /\ \A from, n : Loaded(from, n) = Taken(pchBuffer, from, n)
    /\ Loaded(hwHead, hwLength)' = Taken(pchBuffer', hwHead', hwLength')
  BY DEF Loaded, Taken

(* What is assumed of the size, and what the word is. *)
LEMMA Sizes == Size \in Nat /\ 0 < Size /\ Size < Word /\ Word \in Nat
  BY SizeAssumption, SMT DEF Word

(* Up to a whole turn round the ring ends on a slot of it. *)
LEMMA SlotIndex ==
    ASSUME NEW pos \in Index, NEW k \in Nat, k <= Size
    PROVE  Slot(pos, k) \in Index
  BY Sizes, IndexBounds, SMT DEF Slot

(* Bytes are bytes in a sequence. *)
LEMMA TakenSeq ==
    ASSUME NEW buf \in [Index -> Byte], NEW from \in Index, NEW n \in Nat, n <= Size
    PROVE  /\ Taken(buf, from, n) \in Seq(Byte)
           /\ Len(Taken(buf, from, n)) = n
           /\ \A k \in 1..n : Taken(buf, from, n)[k] = buf[Slot(from, k - 1)]
<1>1. ASSUME NEW k \in 1..n
      PROVE  buf[Slot(from, k - 1)] \in Byte
  <2>1. k - 1 \in Nat /\ k - 1 <= Size
    BY Sizes, SMT
  <2>2. Slot(from, k - 1) \in Index
    BY <2>1, SlotIndex
  <2>3. QED
    BY <2>2
<1>2. Taken(buf, from, n) \in [1..n -> Byte]
  BY <1>1 DEF Taken
<1>3. Taken(buf, from, n) \in Seq(Byte) /\ Len(Taken(buf, from, n)) = n
  BY <1>2, SMT
<1>4. QED
  BY <1>3 DEF Taken

(* A stretch of a sequence of bytes, and two of them one behind the other. *)
LEMMA Stretch ==
    ASSUME NEW s \in Seq(Byte), NEW a \in Nat, NEW k \in Nat, a + k <= Len(s)
    PROVE  /\ SubSeq(s, a + 1, a + k) \in Seq(Byte)
           /\ Len(SubSeq(s, a + 1, a + k)) = k
           /\ \A i \in 1..k : SubSeq(s, a + 1, a + k)[i] = s[a + i]
  BY SMTT(30)

LEMMA Joined ==
    ASSUME NEW s \in Seq(Byte), NEW t \in Seq(Byte), NEW p, NEW q, Len(s) = p, Len(t) = q
    PROVE  /\ s \o t \in Seq(Byte)
           /\ Len(s \o t) = p + q
           /\ \A i \in 1..p + q : (s \o t)[i] = IF i <= p THEN s[i] ELSE t[i - p]
  BY SMT

(* A stretch of what is taken is what is taken from further on. *)
LEMMA TakenPart ==
    ASSUME NEW buf \in [Index -> Byte], NEW from \in Index, NEW n \in Nat, n <= Size,
           NEW a \in Nat, NEW k \in Nat, a + k <= n
    PROVE  SubSeq(Taken(buf, from, n), a + 1, a + k) = Taken(buf, Slot(from, a), k)
<1> DEFINE all == Taken(buf, from, n)
           part == SubSeq(all, a + 1, a + k)
<1>1. /\ all \in Seq(Byte) /\ Len(all) = n
      /\ \A i \in 1..n : all[i] = buf[Slot(from, i - 1)]
  BY TakenSeq
<1>2. Slot(from, a) \in Index /\ k <= Size
  BY SlotIndex, Sizes, SMT
<1>3. /\ Taken(buf, Slot(from, a), k) \in Seq(Byte) /\ Len(Taken(buf, Slot(from, a), k)) = k
      /\ \A i \in 1..k : Taken(buf, Slot(from, a), k)[i] = buf[Slot(Slot(from, a), i - 1)]
  BY <1>2, TakenSeq
<1>4. /\ part \in Seq(Byte) /\ Len(part) = k
      /\ \A i \in 1..k : part[i] = all[a + i]
  BY <1>1, Stretch
<1>5. ASSUME NEW i \in 1..k
      PROVE  part[i] = Taken(buf, Slot(from, a), k)[i]
  <2>1. a + i \in 1..n /\ i - 1 \in Nat /\ a + (i - 1) <= Size /\ (a + i) - 1 = a + (i - 1)
    BY Sizes, SMT
  <2>2. Slot(Slot(from, a), i - 1) = Slot(from, a + (i - 1))
    BY <2>1, SlotSum
  <2>3. part[i] = all[a + i]
    BY <1>4
  <2>4. all[a + i] = buf[Slot(from, a + (i - 1))]
    BY <1>1, <2>1
  <2>5. Taken(buf, Slot(from, a), k)[i] = buf[Slot(Slot(from, a), i - 1)]
    BY <1>3
  <2>6. QED
    BY <2>2, <2>3, <2>4, <2>5
<1>6. QED
  BY <1>3, <1>4, <1>5, SeqEqual

(* How far round the ring one slot is from another.                        *)
LEMMA DistanceSlot ==
    ASSUME NEW from \in Index, NEW k \in Nat, k < Size
    PROVE  Distance(from, Slot(from, k)) = k
  BY Sizes, IndexBounds, SMT DEF Distance, Slot

(* The bytes behind the first `len` slots are not reached by n more.       *)
LEMMA DistanceBehind ==
    ASSUME NEW from \in Index, NEW len \in Nat, NEW n \in Nat, len + n <= Size,
           NEW k \in Nat, k < len
    PROVE  ~(Distance(Slot(from, len), Slot(from, k)) < n)
  BY Sizes, IndexBounds, SMT DEF Distance, Slot

(* The front of a block of bytes. *)
LEMMA FrontOfBlock ==
    ASSUME NEW block \in Seq(Byte), NEW n \in Nat, n <= Len(block)
    PROVE  /\ SubSeq(block, 1, n) \in Seq(Byte)
           /\ Len(SubSeq(block, 1, n)) = n
           /\ \A i \in 1..n : SubSeq(block, 1, n)[i] = block[i]
<1>1. 0 \in Nat /\ 0 + n <= Len(block) /\ 0 + 1 = 1 /\ 0 + n = n
  BY SMT
<1>2. \A i \in 1..n : 0 + i = i
  BY SMT
<1>3. QED
  BY <1>1, <1>2, Stretch

(* Bytes stored at the tail come behind the ones that are queued. *)
LEMMA StoredBehind ==
    ASSUME pchBuffer \in [Index -> Byte], NEW head \in Index, NEW len \in Nat, NEW n \in Nat,
           len + n <= Size, NEW block \in Seq(Byte), n <= Len(block),
           Stored(Slot(head, len), block, n) \in [Index -> Byte]
    PROVE  Taken(Stored(Slot(head, len), block, n), head, len + n)
             = Taken(pchBuffer, head, len) \o SubSeq(block, 1, n)
<1> DEFINE tail == Slot(head, len)
           new  == Taken(Stored(tail, block, n), head, len + n)
           old  == Taken(pchBuffer, head, len)
           add  == SubSeq(block, 1, n)
<1>1. /\ new \in Seq(Byte) /\ Len(new) = len + n
      /\ \A i \in 1..len + n : new[i] = Stored(tail, block, n)[Slot(head, i - 1)]
  BY TakenSeq
<1>2. /\ old \in Seq(Byte) /\ Len(old) = len
      /\ \A i \in 1..len : old[i] = pchBuffer[Slot(head, i - 1)]
  <2>1. len <= Size
    BY Sizes, SMT
  <2> QED
    BY <2>1, TakenSeq
<1>3. /\ add \in Seq(Byte) /\ Len(add) = n
      /\ \A i \in 1..n : add[i] = block[i]
  BY FrontOfBlock
<1>4. /\ old \o add \in Seq(Byte) /\ Len(old \o add) = len + n
      /\ \A i \in 1..len + n : (old \o add)[i] = IF i <= len THEN old[i] ELSE add[i - len]
  <2>1. old \in Seq(Byte) /\ Len(old) = len /\ add \in Seq(Byte) /\ Len(add) = n
    BY <1>2, <1>3
  <2> HIDE DEF old, add
  <2>2. /\ old \o add \in Seq(Byte) /\ Len(old \o add) = Len(old) + Len(add)
        /\ \A i \in 1..Len(old) + Len(add) : (old \o add)[i] = IF i <= Len(old) THEN old[i] ELSE add[i - Len(old)]
    BY <2>1, ConcatProperties
  <2>3. QED
    BY <2>1, <2>2, Zenon
<1>5. ASSUME NEW i \in 1..len + n
      PROVE  new[i] = (old \o add)[i]
  <2>1. i - 1 \in Nat /\ i - 1 <= Size
    BY Sizes, SMT
  <2>2. Slot(head, i - 1) \in Index
    BY <2>1, SlotIndex
  <2>3. CASE i <= len
    <3>1. i - 1 < len /\ i \in 1..len
      BY <2>1, <2>3, SMT
    <3>2. ~(Distance(tail, Slot(head, i - 1)) < n)
      BY <2>1, <3>1, DistanceBehind
    <3>3. QED
      BY <1>1, <1>2, <1>4, <2>2, <2>3, <3>1, <3>2 DEF Stored
  <2>4. CASE ~(i <= len)
    <3>1. /\ i - 1 = len + ((i - len) - 1) /\ (i - len) - 1 \in Nat
          /\ (i - len) - 1 < Size /\ (i - len) - 1 < n /\ i - len \in 1..n
          /\ len + ((i - len) - 1) <= Size /\ ((i - len) - 1) + 1 = i - len
      BY <2>4, Sizes, SMT
    <3>2. tail \in Index
      BY SlotIndex, Sizes, SMT
    <3>3. Slot(head, i - 1) = Slot(tail, (i - len) - 1)
      BY <3>1, SlotSum
    <3>4. Distance(tail, Slot(head, i - 1)) = (i - len) - 1
      BY <3>1, <3>2, <3>3, DistanceSlot
    <3>5. Stored(tail, block, n)[Slot(head, i - 1)] = block[i - len]
      BY <2>2, <3>1, <3>4 DEF Stored
    <3>6. QED
      BY <1>1, <1>3, <1>4, <2>4, <3>1, <3>5
  <2>5. QED
    BY <2>3, <2>4
<1>6. QED
  BY <1>1, <1>4, <1>5, SeqEqual

(* Bytes stored over the oldest of a full ring push those out. *)
LEMMA StoredOver ==
    ASSUME pchBuffer \in [Index -> Byte], NEW head \in Index, NEW n \in Nat, n <= Size,
           NEW block \in Seq(Byte), n <= Len(block), Stored(head, block, n) \in [Index -> Byte]
    PROVE  Taken(Stored(head, block, n), Slot(head, n), Size)
             = SubSeq(Taken(pchBuffer, head, Size) \o SubSeq(block, 1, n), n + 1, n + Size)
<1> DEFINE new == Taken(Stored(head, block, n), Slot(head, n), Size)
           all == Taken(pchBuffer, head, Size) \o SubSeq(block, 1, n)
<1>0. Slot(head, n) \in Index /\ Size \in Nat /\ Size <= Size
  BY SlotIndex, Sizes, SMT
<1>1. /\ new \in Seq(Byte) /\ Len(new) = Size
      /\ \A i \in 1..Size : new[i] = Stored(head, block, n)[Slot(Slot(head, n), i - 1)]
  BY <1>0, TakenSeq
<1>2. /\ all \in Seq(Byte) /\ Len(all) = Size + n
      /\ \A i \in 1..Size + n : all[i] = IF i <= Size THEN pchBuffer[Slot(head, i - 1)] ELSE block[i - Size]
  <2>1. /\ Taken(pchBuffer, head, Size) \in Seq(Byte) /\ Len(Taken(pchBuffer, head, Size)) = Size
        /\ \A i \in 1..Size : Taken(pchBuffer, head, Size)[i] = pchBuffer[Slot(head, i - 1)]
    BY <1>0, TakenSeq
  <2>2. /\ SubSeq(block, 1, n) \in Seq(Byte) /\ Len(SubSeq(block, 1, n)) = n
        /\ \A i \in 1..n : SubSeq(block, 1, n)[i] = block[i]
    BY FrontOfBlock
  <2>3. /\ all \in Seq(Byte) /\ Len(all) = Size + n
        /\ \A i \in 1..Size + n : all[i] = IF i <= Size THEN Taken(pchBuffer, head, Size)[i]
                                           ELSE SubSeq(block, 1, n)[i - Size]
    <3>1. /\ Taken(pchBuffer, head, Size) \in Seq(Byte) /\ Len(Taken(pchBuffer, head, Size)) = Size
          /\ SubSeq(block, 1, n) \in Seq(Byte) /\ Len(SubSeq(block, 1, n)) = n
      BY <2>1, <2>2
    <3>2. QED
      BY <3>1, Joined
  <2>4. \A i \in 1..Size + n : (i <= Size => i \in 1..Size) /\ (~(i <= Size) => i - Size \in 1..n)
    BY Sizes, SMT
  <2>5. QED
    BY <2>1, <2>2, <2>3, <2>4
<1>3. /\ SubSeq(all, n + 1, n + Size) \in Seq(Byte) /\ Len(SubSeq(all, n + 1, n + Size)) = Size
      /\ \A i \in 1..Size : SubSeq(all, n + 1, n + Size)[i] = all[n + i]
  <2>1. n + Size <= Len(all)
    BY <1>0, <1>2, SMT
  <2> HIDE DEF all
  <2>2. QED
    BY <1>0, <1>2, <2>1, Stretch
<1>4. ASSUME NEW i \in 1..Size
      PROVE  new[i] = SubSeq(all, n + 1, n + Size)[i]
  <2>1. i - 1 \in Nat /\ i - 1 <= Size /\ n + i \in 1..Size + n
    BY Sizes, SMT
  <2>2. Slot(Slot(head, n), i - 1) \in Index
    BY <1>0, <2>1, SlotIndex
  <2>3. CASE n + i <= Size
    <3>1. n + (i - 1) \in Nat /\ n + (i - 1) < Size /\ n + (i - 1) <= Size
          /\ ~(n + (i - 1) < n) /\ (n + i) - 1 = n + (i - 1)
      BY <2>1, <2>3, Sizes, SMT
    <3>2. Slot(Slot(head, n), i - 1) = Slot(head, n + (i - 1))
      BY <2>1, <3>1, SlotSum
    <3>3. Distance(head, Slot(head, n + (i - 1))) = n + (i - 1)
      BY <3>1, DistanceSlot
    <3>4. Stored(head, block, n)[Slot(Slot(head, n), i - 1)] = pchBuffer[Slot(head, n + (i - 1))]
      BY <2>2, <3>1, <3>2, <3>3 DEF Stored
    <3>5. QED
      BY <1>1, <1>2, <1>3, <2>1, <2>3, <3>1, <3>4
  <2>4. CASE ~(n + i <= Size)
    <3>1. /\ (n + i) - Size - 1 \in Nat /\ (n + i) - Size - 1 < Size /\ (n + i) - Size - 1 < n
          /\ ((n + i) - Size - 1) + 1 = (n + i) - Size
      BY <2>1, <2>4, Sizes, SMT
    <3>2. Slot(Slot(head, n), i - 1) = Slot(head, (n + i) - Size - 1)
      BY <2>1, <2>4, Sizes, IndexBounds, SMT DEF Slot
    <3>3. Distance(head, Slot(head, (n + i) - Size - 1)) = (n + i) - Size - 1
      BY <3>1, DistanceSlot
    <3>4. Stored(head, block, n)[Slot(Slot(head, n), i - 1)] = block[(n + i) - Size]
      BY <2>2, <3>1, <3>2, <3>3 DEF Stored
    <3>5. QED
      BY <1>1, <1>2, <1>3, <2>1, <2>4, <3>4
  <2>5. QED
    BY <2>3, <2>4
<1>5. QED
  BY <1>1, <1>3, <1>4, SeqEqual

-----------------------------------------------------------------------------
(* The abstract state that a consistent ring stands for. *)
Items == Taken(pchBuffer, hwHead, hwLength)

(* The refinement mapping of ByteQueue reads them, now and afterwards. *)
LEMMA ItemsLoaded ==
    Loaded(hwHead, hwLength) = Items /\ Loaded(hwHead, hwLength)' = Items'
  BY LoadedTaken DEF Items

(* They are as many bytes as hwLength says. *)
LEMMA ItemsSeq ==
    ASSUME IInv
    PROVE  Items \in Seq(Byte) /\ Len(Items) = hwLength
  BY Unfold, TakenSeq DEF Items

(* What is left of the contents without the first n bytes, and those n. *)
LEMMA ItemsCut ==
    ASSUME IInv, NEW n \in Nat, n <= hwLength
    PROVE  /\ Taken(pchBuffer, Slot(hwHead, n), hwLength - n) = SubSeq(Items, n + 1, hwLength)
           /\ Taken(pchBuffer, hwHead, n) = SubSeq(Items, 1, n)
<1>1. /\ pchBuffer \in [Index -> Byte] /\ hwHead \in Index
      /\ hwLength \in Nat /\ hwLength <= Size
  BY Unfold
<1>2. /\ hwLength - n \in Nat /\ n + (hwLength - n) = hwLength /\ n + (hwLength - n) <= hwLength
      /\ 0 \in Nat /\ 0 + n = n /\ 0 + 1 = 1 /\ 0 + n <= hwLength
  BY <1>1, SMT
<1>3. Slot(hwHead, 0) = hwHead
  BY <1>1, IndexBounds, Sizes, SMT DEF Slot
<1>4. SubSeq(Items, n + 1, n + (hwLength - n)) = Taken(pchBuffer, Slot(hwHead, n), hwLength - n)
  BY <1>1, <1>2, TakenPart DEF Items
<1>5. SubSeq(Items, 0 + 1, 0 + n) = Taken(pchBuffer, Slot(hwHead, 0), n)
  BY <1>1, <1>2, TakenPart DEF Items
<1>6. QED
  BY <1>2, <1>3, <1>4, <1>5

(* A dequeue takes the oldest bytes and hands them out in order. *)
LEMMA RefineGet ==
    ASSUME IInv, NEW asked \in Nat, NEW n, n = Shorter(asked, hwLength),
           Dequeued(asked, n, Slot(hwHead, n))
    PROVE  Fifo!Get(asked)
<1>1. n \in Nat /\ n <= hwLength
  BY Unfold, SMT DEF Shorter
<1>2. /\ hwHead' = Slot(hwHead, n) /\ hwLength' = U16(hwLength - n)
      /\ hwPeekLength' = hwLength' /\ pchBuffer' = pchBuffer /\ UNCHANGED bIsCover
      /\ ret' = [call |-> "get", asked |-> asked, count |-> n, bytes |-> Loaded(hwHead, n)]
  BY DEF Dequeued, Returns
<1>3. hwLength' = hwLength - n /\ hwLength' - hwPeekLength' = 0
  BY <1>1, <1>2, Unfold, Sizes, U16Fits, SMT
<1>4. Items' = SubSeq(Items, n + 1, hwLength)
  BY <1>1, <1>2, <1>3, ItemsCut DEF Items
<1>5. Loaded(hwHead, n) = SubSeq(Items, 1, n)
  BY <1>1, ItemsCut, LoadedTaken
<1>6. Fifo!Shorter(asked, Len(Items)) = n
  BY ItemsSeq DEF Fifo!Shorter, Shorter
<1>7. QED
  BY <1>2, <1>3, <1>4, <1>5, <1>6, ItemsSeq, ItemsLoaded DEF Fifo!Get, Fifo!Gives

(* A peek shows the bytes under the cursor and moves it behind them. *)
LEMMA RefineLook ==
    ASSUME IInv, NEW asked \in Nat, NEW n, n = Shorter(asked, hwPeekLength),
           Peeked(asked, n, Slot(hwPeek, n))
    PROVE  Fifo!Look(asked)
<1> DEFINE shown == hwLength - hwPeekLength
<1>1. /\ n \in Nat /\ n <= hwPeekLength /\ shown \in Nat /\ shown + n <= hwLength
      /\ hwLength \in Nat /\ hwLength <= Size /\ hwLength - shown = hwPeekLength
  BY Unfold, SMT DEF Shorter
<1>2. /\ hwPeekLength' = U16(hwPeekLength - n)
      /\ UNCHANGED <<pchBuffer, hwHead, hwLength, bIsCover>>
      /\ ret' = [call |-> "look", asked |-> asked, count |-> n, bytes |-> Loaded(hwPeek, n)]
  BY DEF Peeked, Returns
<1>3. hwLength' - hwPeekLength' = shown + n
  BY <1>1, <1>2, Unfold, Sizes, U16Fits, SMT
<1>4. Items' = Items
  BY <1>2 DEF Items
<1>5. Loaded(hwPeek, n) = SubSeq(Items, shown + 1, shown + n)
  <2>1. Loaded(hwPeek, n) = Taken(pchBuffer, Slot(hwHead, shown), n)
    BY Unfold, LoadedTaken
  <2>2. pchBuffer \in [Index -> Byte] /\ hwHead \in Index
    BY Unfold
  <2>3. SubSeq(Items, shown + 1, shown + n) = Taken(pchBuffer, Slot(hwHead, shown), n)
    BY <1>1, <2>2, TakenPart DEF Items
  <2>4. QED
    BY <2>1, <2>3
<1>6. Fifo!Shorter(asked, Len(Items) - shown) = n
  BY <1>1, ItemsSeq DEF Fifo!Shorter, Shorter
<1>7. Fifo!Shorter(asked, Len(Loaded(hwHead, hwLength)) - shown) = n
  BY <1>6, ItemsLoaded
<1>8. Loaded(hwPeek, n) = SubSeq(Loaded(hwHead, hwLength), shown + 1, shown + n)
  BY <1>5, ItemsLoaded
<1>9. Loaded(hwHead, hwLength)' = Loaded(hwHead, hwLength)
  BY <1>4, ItemsLoaded
<1>10. QED
  BY <1>2, <1>3, <1>7, <1>8, <1>9 DEF Fifo!Look, Fifo!Gives

(* Where the cursor is put, and what is committed. *)
LEMMA RefineRewind == ASSUME IInv, reset_peek PROVE Fifo!Rewind
<1>1. /\ hwPeekLength' = hwLength /\ UNCHANGED <<pchBuffer, hwHead, hwLength, bIsCover>>
      /\ ret' = [call |-> "rewind", asked |-> 0, count |-> 1, bytes |-> <<>>]
  BY DEF reset_peek, Returns
<1>2. hwLength' - hwPeekLength' = 0
  BY <1>1, Unfold, SMT
<1>3. Loaded(hwHead, hwLength)' = Loaded(hwHead, hwLength)
  BY <1>1, ItemsLoaded DEF Items
<1>4. QED
  BY <1>1, <1>2, <1>3 DEF Fifo!Rewind, Fifo!Gives

(* A saved position is restored. *)
LEMMA RefineMove ==
    ASSUME IInv, NEW count \in SavedStatus, restore_peek_status(count)
    PROVE  count \in 0..Size /\ Fifo!MoveCursor(count)
<1>0. hwPeekLength = hwLength /\ count \in 0..hwLength
  BY DEF SavedStatus
<1>1. /\ hwPeekLength' = U16(hwPeekLength - count)
      /\ UNCHANGED <<pchBuffer, hwHead, hwLength, bIsCover>>
      /\ ret' = [call |-> "move", asked |-> count, count |-> 1, bytes |-> <<>>]
  BY DEF restore_peek_status, Returns
<1>2. count \in 0..Size /\ count <= hwLength /\ hwLength' - hwPeekLength' = count
  BY <1>0, <1>1, Unfold, Sizes, U16Fits, SMT
<1>3. /\ Loaded(hwHead, hwLength)' = Loaded(hwHead, hwLength)
      /\ Len(Loaded(hwHead, hwLength)) = hwLength
  BY <1>1, ItemsLoaded, ItemsSeq DEF Items
<1>4. QED
  BY <1>1, <1>2, <1>3 DEF Fifo!MoveCursor, Fifo!Gives

(* get_all_peeked drops what the cursor has passed, and nothing else. *)
LEMMA RefineTake == ASSUME IInv, get_all_peeked PROVE Fifo!TakeShown
<1> DEFINE shown == hwLength - hwPeekLength
<1>1. /\ hwHead' = hwPeek /\ hwLength' = hwPeekLength /\ UNCHANGED <<pchBuffer, hwPeekLength, bIsCover>>
      /\ ret' = [call |-> "take", asked |-> 0, count |-> 1, bytes |-> <<>>]
  BY DEF get_all_peeked, Returns
<1>2. /\ shown \in Nat /\ shown <= hwLength /\ hwLength - shown = hwPeekLength
      /\ hwLength' - hwPeekLength' = 0
  BY <1>1, Unfold, SMT
<1>3. Items' = Taken(pchBuffer, Slot(hwHead, shown), hwLength - shown)
  BY <1>1, <1>2, Unfold DEF Items
<1>4. Loaded(hwHead, hwLength)' = SubSeq(Loaded(hwHead, hwLength), shown + 1, Len(Loaded(hwHead, hwLength)))
  BY <1>2, <1>3, ItemsCut, ItemsLoaded, ItemsSeq
<1>5. QED
  BY <1>1, <1>2, <1>4 DEF Fifo!TakeShown, Fifo!Gives

(* reset_queue leaves nothing. *)
LEMMA RefineClear == ASSUME IInv, reset_queue PROVE Fifo!Clear
<1>1. /\ hwLength' = 0 /\ hwPeekLength' = 0 /\ UNCHANGED bIsCover
      /\ ret' = [call |-> "clear", asked |-> 0, count |-> 1, bytes |-> <<>>]
  BY DEF reset_queue, Returns
<1>2. hwLength' - hwPeekLength' = 0
  BY <1>1, SMT
<1>3. Items' = <<>>
  BY <1>1, SMT DEF Items, Taken
<1>4. QED
  BY <1>1, <1>2, <1>3, ItemsLoaded DEF Fifo!Clear, Fifo!Gives

(* A question is answered from the abstract contents; the position of the  *)
(* cursor only modulo the size.                                            *)
LEMMA RefineAsk == ASSUME IInv, Getter PROVE Fifo!Ask
<1> DEFINE items == Loaded(hwHead, hwLength)
           shown == hwLength - hwPeekLength
<1>1. items \in Seq(Byte) /\ Len(items) = hwLength
  BY ItemsSeq, ItemsLoaded
<1>2. items' = items /\ UNCHANGED <<hwLength, hwPeekLength, bIsCover>>
  BY ItemsLoaded DEF Getter, ring, Items, Returns
<1>3. U16(Size - hwLength) = Size - Len(items)
  BY <1>1, Unfold, Sizes, U16Fits, SMT
<1>4. Empty <=> items = <<>>
  <2>1. Empty <=> Len(items) = 0
    BY <1>1, Unfold
  <2> HIDE DEF items
  <2>2. QED
    BY <1>1, <2>1, SMT
<1>5. PeekEmpty <=> shown = Len(items)
  <2>1. PeekEmpty <=> hwPeekLength = 0
    BY PeekEnd DEF IInv
  <2>2. QED
    BY <1>1, <2>1, Unfold, SMT
<1>6. PeekStatus = shown % Size
  <2>1. shown \in Nat /\ shown <= Size /\ hwPeek = Slot(hwHead, shown)
    <3>1. shown \in Nat /\ shown <= Size
      BY Unfold, Sizes, SMT
    <3>2. QED
      BY <3>1, Unfold
  <2>2. CASE shown < Size
    <3>1. PeekStatus = shown
      BY <2>1, <2>2, Unfold, Sizes, IndexBounds, U16Fits, SMT DEF PeekStatus, Slot
    <3>2. shown % Size = shown
      BY <2>1, <2>2, Sizes, SMT
    <3>3. QED
      BY <3>1, <3>2
  <2>3. CASE shown = Size
    <3>1. PeekStatus = 0
      BY <2>1, <2>3, Unfold, Sizes, IndexBounds, U16Fits, SMT DEF PeekStatus, Slot
    <3>2. shown % Size = 0
      BY <2>3, Sizes, SMT
    <3>3. QED
      BY <3>1, <3>2
  <2>4. QED
    BY <2>1, <2>2, <2>3, Sizes, SMT
<1>7. /\ UNCHANGED bIsCover
      /\ \/ ret' = [call |-> "count", asked |-> 0, count |-> Len(items), bytes |-> <<>>]
         \/ ret' = [call |-> "room", asked |-> 0, count |-> Size - Len(items), bytes |-> <<>>]
         \/ ret' = [call |-> "empty", asked |-> 0, count |-> IF items = <<>> THEN 1 ELSE 0, bytes |-> <<>>]
         \/ ret' = [call |-> "shown", asked |-> 0, count |-> IF shown = Len(items) THEN 1 ELSE 0, bytes |-> <<>>]
         \/ ret' = [call |-> "cursor", asked |-> 0, count |-> shown % Size, bytes |-> <<>>]
  BY <1>1, <1>3, <1>4, <1>5, <1>6 DEF Getter, Returns, Truth
<1>8. (hwLength - hwPeekLength)' = hwLength - hwPeekLength
  BY <1>2
<1>9. UNCHANGED items /\ (hwLength - hwPeekLength)' = hwLength - hwPeekLength
  BY <1>2, <1>8
<1>10. QED
  BY <1>7, <1>9, Zenon DEF Fifo!Ask, Fifo!Gives

-----------------------------------------------------------------------------
(* Bytes enter. A queue that keeps its bytes takes what fits. *)
LEMMA RefinePutWhatFits ==
    ASSUME IInv, ~bIsCover, NEW block \in Seq(Byte), NEW n \in Nat,
           n = Shorter(Len(block), Size - hwLength),
           pchBuffer' = Stored(hwTail, block, n), pchBuffer' \in [Index -> Byte],
           hwHead' = hwHead, hwLength' = hwLength + n, hwPeekLength' = hwPeekLength + n,
           Returns("put", 0, n, block)
    PROVE  Fifo!PutWhatFits(block)
<1>1. /\ Len(block) \in Nat /\ n <= Len(block) /\ hwLength + n <= Size
      /\ hwLength' - hwPeekLength' = hwLength - hwPeekLength
  <2>1. hwLength \in Nat /\ hwLength <= Size /\ hwPeekLength \in Nat
    BY Unfold
  <2>2. Len(block) \in Nat
    BY SMT
  <2>3. QED
    BY <2>1, <2>2, Sizes, SMT DEF Shorter
<1>2. /\ pchBuffer \in [Index -> Byte] /\ hwHead \in Index /\ hwLength \in Nat
      /\ Stored(Slot(hwHead, hwLength), block, n) \in [Index -> Byte]
      /\ pchBuffer' = Stored(Slot(hwHead, hwLength), block, n)
  BY Unfold
<1>3. Items' = Items \o SubSeq(block, 1, n)
  <2>1. Taken(Stored(Slot(hwHead, hwLength), block, n), hwHead, hwLength + n)
          = Taken(pchBuffer, hwHead, hwLength) \o SubSeq(block, 1, n)
    BY <1>1, <1>2, StoredBehind
  <2>2. QED
    BY <1>2, <2>1 DEF Items
<1>4. Fifo!Shorter(Len(block), Size - Len(Items)) = n
  BY ItemsSeq DEF Fifo!Shorter, Shorter
<1>5. /\ Loaded(hwHead, hwLength)' = Loaded(hwHead, hwLength) \o SubSeq(block, 1, n)
      /\ Fifo!Shorter(Len(block), Size - Len(Loaded(hwHead, hwLength))) = n
  BY <1>3, <1>4, ItemsLoaded
<1>6. UNCHANGED bIsCover /\ ret' = [call |-> "put", asked |-> 0, count |-> n, bytes |-> block]
  BY DEF Returns
<1>7. QED
  BY <1>1, <1>5, <1>6 DEF Fifo!PutWhatFits, Fifo!Gives

(* A full one refuses. *)
LEMMA RefinePutNothing ==
    ASSUME IInv, ~bIsCover, Full, NEW block \in Seq(Byte),
           UNCHANGED ring, Returns("put", 0, 0, block)
    PROVE  Fifo!PutWhatFits(block)
<1>1. hwLength = Size /\ Len(block) \in Nat
  BY Unfold, SMT
<1>2. Fifo!Shorter(Len(block), Size - Len(Items)) = 0
  BY <1>1, ItemsSeq, Sizes, SMT DEF Fifo!Shorter
<1>3. Items' = Items /\ Items \o SubSeq(block, 1, 0) = Items
  <2>1. Items' = Items
    BY DEF ring, Items
  <2>2. Items \in Seq(Byte)
    BY ItemsSeq
  <2> HIDE DEF Items
  <2>3. Items \o SubSeq(block, 1, 0) = Items
    BY <2>2, SMT
  <2>4. QED
    BY <2>1, <2>3
<1>4. (hwLength - hwPeekLength)' = hwLength - hwPeekLength
  BY DEF ring
<1>5. /\ Loaded(hwHead, hwLength)' = Loaded(hwHead, hwLength) \o SubSeq(block, 1, 0)
      /\ Fifo!Shorter(Len(block), Size - Len(Loaded(hwHead, hwLength))) = 0
  BY <1>2, <1>3, ItemsLoaded
<1>6. UNCHANGED bIsCover /\ ret' = [call |-> "put", asked |-> 0, count |-> 0, bytes |-> block]
  BY DEF Returns
<1>7. QED
  BY <1>4, <1>5, <1>6 DEF Fifo!PutWhatFits, Fifo!Gives

(* A queue that overwrites appends while there is room. *)
LEMMA RefinePutAppending ==
    ASSUME IInv, bIsCover, NEW block \in Seq(Byte), NEW n \in Nat,
           n = Shorter(Len(block), Size), hwLength # Size, hwLength + n <= Size,
           pchBuffer' = Stored(hwTail, block, n), pchBuffer' \in [Index -> Byte],
           hwHead' = hwHead, hwLength' = hwLength + n, hwPeekLength' = hwPeekLength + n,
           Returns("put", 0, n, block)
    PROVE  Fifo!PutOverwriting(block)
<1> DEFINE old == Loaded(hwHead, hwLength)
           add == SubSeq(block, 1, n)
<1>1. /\ Len(block) \in Nat /\ n <= Len(block) /\ 0 + 1 = 1
      /\ hwLength' - hwPeekLength' = hwLength - hwPeekLength
  BY Unfold, Sizes, SMT DEF Shorter
<1>2. /\ pchBuffer \in [Index -> Byte] /\ hwHead \in Index /\ hwLength \in Nat
      /\ Stored(Slot(hwHead, hwLength), block, n) \in [Index -> Byte]
      /\ pchBuffer' = Stored(Slot(hwHead, hwLength), block, n)
  BY Unfold
<1>3. Items' = Items \o add
  <2>1. Taken(Stored(Slot(hwHead, hwLength), block, n), hwHead, hwLength + n)
          = Taken(pchBuffer, hwHead, hwLength) \o SubSeq(block, 1, n)
    BY <1>1, <1>2, StoredBehind
  <2>2. QED
    BY <1>2, <2>1 DEF Items
<1>4. /\ Fifo!Shorter(Len(block), Size) = n
      /\ old' = old \o add /\ old \in Seq(Byte) /\ Len(old) = hwLength
      /\ add \in Seq(Byte) /\ Len(add) = n
  BY <1>1, <1>3, ItemsLoaded, ItemsSeq, FrontOfBlock DEF Fifo!Shorter, Shorter
<1>5. /\ Len(old \o add) = hwLength + n
      /\ SubSeq(old \o add, 1, Len(old \o add)) = old \o add
      /\ Len(old) # Size
  <2>1. old \in Seq(Byte) /\ Len(old) = hwLength /\ add \in Seq(Byte) /\ Len(add) = n
    BY <1>4
  <2> HIDE DEF old, add
  <2>2. old \o add \in Seq(Byte) /\ Len(old \o add) = hwLength + n
    BY <2>1, SMT
  <2>3. QED
    BY <2>1, <2>2, SubSeqFull
<1>6. Fifo!Shorter(Len(old \o add), Size) = Len(old \o add)
      /\ Len(old \o add) - Len(old \o add) = 0 /\ ~(0 > 0)
  <2> HIDE DEF old, add
  <2>1. QED
    BY <1>2, <1>5, Sizes, SMT DEF Fifo!Shorter
<1>7. UNCHANGED bIsCover /\ ret' = [call |-> "put", asked |-> 0, count |-> n, bytes |-> block]
  BY DEF Returns
<1>8. QED
  BY <1>1, <1>4, <1>5, <1>6, <1>7 DEF Fifo!PutOverwriting, Fifo!Gives

(* A full one gives up as many of its oldest bytes. *)
LEMMA RefinePutReplacing ==
    ASSUME IInv, bIsCover, NEW block \in Seq(Byte), NEW n \in Nat,
           n = Shorter(Len(block), Size), hwLength = Size,
           pchBuffer' = Stored(hwTail, block, n), pchBuffer' \in [Index -> Byte],
           hwHead' = Slot(hwHead, n), hwLength' = Size, hwPeekLength' = Size,
           Returns("put", 0, n, block)
    PROVE  Fifo!PutOverwriting(block)
<1> DEFINE old == Loaded(hwHead, hwLength)
           add == SubSeq(block, 1, n)
           all == old \o add
<1>1. Len(block) \in Nat /\ n <= Len(block) /\ n <= Size /\ hwLength' - hwPeekLength' = 0
  BY Sizes, SMT DEF Shorter
<1>2. /\ pchBuffer \in [Index -> Byte] /\ hwHead \in Index /\ hwTail = hwHead
      /\ Stored(hwHead, block, n) \in [Index -> Byte] /\ pchBuffer' = Stored(hwHead, block, n)
  <2>1. hwTail = hwHead
    BY Unfold, Sizes, IndexBounds, SMT DEF Slot
  <2>2. QED
    BY <2>1, Unfold
<1>3. old' = SubSeq(all, n + 1, n + Size)
  <2>1. Taken(Stored(hwHead, block, n), Slot(hwHead, n), Size)
          = SubSeq(Taken(pchBuffer, hwHead, Size) \o add, n + 1, n + Size)
    BY <1>1, <1>2, StoredOver
  <2>2. Items' = SubSeq(Items \o add, n + 1, n + Size)
    BY <1>2, <2>1 DEF Items
  <2>3. QED
    BY <2>2, ItemsLoaded
<1>4. /\ Fifo!Shorter(Len(block), Size) = n
      /\ old \in Seq(Byte) /\ Len(old) = Size /\ add \in Seq(Byte) /\ Len(add) = n
  BY <1>1, ItemsLoaded, ItemsSeq, FrontOfBlock DEF Fifo!Shorter, Shorter
<1>5. Len(all) = n + Size
  <2> HIDE DEF old, add
  <2>1. QED
    BY <1>4, Sizes, SMTT(30)
<1>6. Fifo!Shorter(Len(all), Size) = Size /\ Len(all) - Size = n
  <2> HIDE DEF all
  <2>1. QED
    BY <1>5, Sizes, SMT DEF Fifo!Shorter
<1>7. UNCHANGED bIsCover /\ ret' = [call |-> "put", asked |-> 0, count |-> n, bytes |-> block]
  BY DEF Returns
<1>8. QED
  BY <1>1, <1>3, <1>4, <1>5, <1>6, <1>7 DEF Fifo!PutOverwriting, Fifo!Gives

(* A byte is stored as a block of one. *)
LEMMA OneStored ==
    ASSUME NEW byte \in Byte, pchBuffer \in [Index -> Byte], NEW pos \in Index
    PROVE  /\ [pchBuffer EXCEPT ![pos] = byte] = Stored(pos, <<byte>>, 1)
           /\ [pchBuffer EXCEPT ![pos] = byte] \in [Index -> Byte]
           /\ <<byte>> \in Seq(Byte) /\ Len(<<byte>>) = 1
<1>1. ASSUME NEW i \in Index
      PROVE  (Distance(pos, i) < 1 <=> i = pos) /\ Distance(pos, pos) + 1 = 1
  BY Sizes, IndexBounds, SMT DEF Distance
<1>2. Stored(pos, <<byte>>, 1) = [i \in Index |-> IF i = pos THEN byte ELSE pchBuffer[i]]
  BY <1>1, SMT DEF Stored
<1>3. /\ [pchBuffer EXCEPT ![pos] = byte] \in [Index -> Byte]
      /\ \A i \in Index : [pchBuffer EXCEPT ![pos] = byte][i] = IF i = pos THEN byte ELSE pchBuffer[i]
  OBVIOUS
<1>4. [pchBuffer EXCEPT ![pos] = byte] = [i \in Index |-> IF i = pos THEN byte ELSE pchBuffer[i]]
  BY <1>3
<1>5. <<byte>> \in Seq(Byte) /\ Len(<<byte>>) = 1
  OBVIOUS
<1>6. QED
  BY <1>2, <1>3, <1>4, <1>5

(* enqueue_byte is the enqueue of a block of one. *)
LEMMA RefineEnqueueByte ==
    ASSUME IInv, NEW byte \in Byte, enqueue_byte(byte)
    PROVE  Fifo!PutWhatFits(<<byte>>) \/ Fifo!PutOverwriting(<<byte>>)
<1>0. /\ <<byte>> \in Seq(Byte) /\ Len(<<byte>>) = 1
      /\ hwLength \in Nat /\ hwLength <= Size /\ hwPeekLength \in Nat /\ hwPeekLength <= hwLength
      /\ Word \in Nat /\ Size \in Nat /\ 0 < Size /\ Size < Word
  BY Unfold, OneStored, Sizes, SMT
<1>1. CASE Full /\ ~bIsCover /\ Returns("put", 0, 0, <<byte>>) /\ UNCHANGED ring
  BY <1>0, <1>1, RefinePutNothing
<1>2. ASSUME pchBuffer' = [pchBuffer EXCEPT ![hwTail] = byte]
      PROVE  pchBuffer' = Stored(hwTail, <<byte>>, 1) /\ pchBuffer' \in [Index -> Byte]
  BY <1>2, Unfold, OneStored
<1>3. CASE ~Full /\ enqueue_byte(byte)
  <2>1. /\ hwHead' = hwHead /\ Returns("put", 0, 1, <<byte>>)
        /\ hwLength' = U16(hwLength + 1) /\ hwPeekLength' = U16(hwPeekLength + 1)
        /\ pchBuffer' = [pchBuffer EXCEPT ![hwTail] = byte]
    BY <1>3 DEF enqueue_byte
  <2>2. hwLength # Size
    BY <1>3, Unfold
  <2>3. /\ hwLength + 1 <= Size /\ hwPeekLength + 1 <= Size
        /\ 1 = Shorter(1, Size) /\ 1 = Shorter(1, Size - hwLength)
    BY <1>0, <2>2, SMT DEF Shorter
  <2>4. hwLength' = hwLength + 1 /\ hwPeekLength' = hwPeekLength + 1
    BY <1>0, <2>1, <2>3, U16Fits, SMT
  <2>5. pchBuffer' = Stored(hwTail, <<byte>>, 1) /\ pchBuffer' \in [Index -> Byte]
    BY <1>2, <2>1
  <2>6. CASE bIsCover
    BY <1>0, <2>1, <2>2, <2>3, <2>4, <2>5, <2>6, RefinePutAppending
  <2>7. CASE ~bIsCover
    BY <1>0, <2>1, <2>2, <2>3, <2>4, <2>5, <2>7, RefinePutWhatFits
  <2>8. QED
    BY <2>6, <2>7
<1>4. CASE Full /\ bIsCover /\ enqueue_byte(byte)
  <2>1. /\ hwHead' = Following(hwHead) /\ Returns("put", 0, 1, <<byte>>)
        /\ hwLength' = U16(U16(hwLength - 1) + 1) /\ hwPeekLength' = hwLength'
        /\ pchBuffer' = [pchBuffer EXCEPT ![hwTail] = byte]
    BY <1>4 DEF enqueue_byte
  <2>2. hwHead' = Slot(hwHead, 1) /\ hwLength = Size
    BY <1>4, <2>1, Unfold, FollowingSlot
  <2>3. U16(Size - 1) = Size - 1 /\ U16((Size - 1) + 1) = Size /\ 1 = Shorter(1, Size)
    BY <1>0, U16Fits, SMT DEF Shorter
  <2>4. hwLength' = Size /\ hwPeekLength' = Size
    BY <2>1, <2>2, <2>3
  <2>5. pchBuffer' = Stored(hwTail, <<byte>>, 1) /\ pchBuffer' \in [Index -> Byte]
    BY <1>2, <2>1
  <2>6. QED
    BY <1>0, <1>4, <2>1, <2>2, <2>3, <2>4, <2>5, RefinePutReplacing
<1>5. QED
  BY <1>1, <1>3, <1>4 DEF enqueue_byte

(* A block that does not fit is cut to the room where bytes are kept; the  *)
(* proviso leaves an overwriting queue one byte at a time.                 *)
LEMMA RefineEnqueueBytes ==
    ASSUME IInv, Proviso, NEW block \in Block, enqueue_bytes(block)
    PROVE  Fifo!PutWhatFits(block) \/ Fifo!PutOverwriting(block)
<1> DEFINE asked == Shorter(Len(block), Size)
           room  == Size - hwLength
           n     == IF ~bIsCover /\ asked > room THEN room ELSE asked
<1>0. /\ block \in Seq(Byte)
      /\ hwLength \in Nat /\ hwLength <= Size /\ hwPeekLength \in Nat /\ hwPeekLength <= hwLength
      /\ Word \in Nat /\ Size \in Nat /\ 0 < Size /\ Size < Word
  <2>1. block \in Seq(Byte)
    BY BlockLength, SMT
  <2>2. QED
    BY <2>1, Unfold, Sizes
<1>1. /\ asked \in Nat /\ asked <= Size /\ asked <= Len(block)
      /\ bIsCover => asked <= 1
      /\ Len(block) \in Nat
  BY <1>0, BlockLength, MaxBlockAssumption, SMT DEF Shorter, Proviso
<1>2. CASE Full /\ ~bIsCover /\ Returns("put", 0, 0, block) /\ UNCHANGED ring
  BY <1>0, <1>2, RefinePutNothing
<1>3. CASE ~Full /\ enqueue_bytes(block)
  <2>1. hwLength # Size
    BY <1>3, Unfold
  <2>2. room \in Nat /\ room >= 1 /\ ~(bIsCover /\ asked > room)
    BY <1>0, <1>1, <2>1, SMT
  <2>3. n \in Nat /\ n <= room /\ n <= Len(block)
    BY <2>2, <1>0, <1>1, SMT
  <2>4. /\ hwHead' = hwHead
        /\ hwLength' = U16(hwLength + n) /\ hwPeekLength' = U16(hwPeekLength + n)
        /\ pchBuffer' = Stored(hwTail, block, n)
        /\ Returns("put", 0, n, block)
    BY <2>2, <1>3 DEF enqueue_bytes
  <2>5. hwLength' = hwLength + n /\ hwPeekLength' = hwPeekLength + n /\ hwLength + n <= Size
    BY <2>3, <2>4, <1>0, U16Fits, SMT
  <2>6. pchBuffer' \in [Index -> Byte]
    BY <2>3, <2>4, Unfold, StoredType
  <2>7. CASE bIsCover
    <3>1. n = Shorter(Len(block), Size)
      BY <2>7
    <3>2. QED
      BY <1>0, <2>1, <2>3, <2>4, <2>5, <2>6, <2>7, <3>1, RefinePutAppending
  <2>8. CASE ~bIsCover
    <3>1. n = Shorter(Len(block), Size - hwLength)
      BY <1>0, <1>1, <2>8, SMT DEF Shorter
    <3>2. QED
      BY <1>0, <2>3, <2>4, <2>5, <2>6, <2>8, <3>1, RefinePutWhatFits
  <2>9. QED
    BY <2>7, <2>8
<1>4. CASE Full /\ bIsCover /\ enqueue_bytes(block)
  <2>1. hwLength = Size
    BY <1>4, Unfold
  <2>2. U16(Size - asked) = Size - asked /\ U16((Size - asked) + asked) = Size
        /\ Size - (Size - asked) = asked /\ ~(asked > asked)
    BY <1>0, <1>1, U16Fits, SMT
  <2>3. /\ hwHead' = Advance(hwHead, asked)
        /\ hwLength' = Size /\ hwPeekLength' = Size
        /\ pchBuffer' = Stored(hwTail, block, asked)
        /\ Returns("put", 0, asked, block)
    BY <2>1, <2>2, <1>4 DEF enqueue_bytes
  <2>4. hwHead' = Slot(hwHead, asked)
    BY <2>3, <1>0, <1>1, Unfold, AdvanceSlot, SMT
  <2>5. pchBuffer' \in [Index -> Byte]
    BY <2>3, <1>1, Unfold, StoredType
  <2>6. QED
    BY <1>0, <1>1, <1>4, <2>1, <2>3, <2>4, <2>5, RefinePutReplacing
<1>5. QED
  BY <1>2, <1>3, <1>4 DEF enqueue_bytes

(* Bytes leave, or are shown. *)
LEMMA RefineDequeues ==
    ASSUME IInv, NEW asked \in Nat,
           (asked = 1 /\ dequeue_byte) \/ dequeue_bytes(asked)
    PROVE  Fifo!Get(asked)
<1> DEFINE n == Shorter(asked, hwLength)
<1>0. hwLength \in Nat /\ hwLength <= Size /\ n \in Nat /\ n <= hwLength /\ n \in 0..Size
  BY Unfold, Sizes, SMT DEF Shorter
<1>1. CASE Empty /\ Returns("get", asked, 0, <<>>) /\ UNCHANGED ring
  <2>1. hwLength = 0 /\ hwPeekLength = 0
    BY <1>1, Unfold, SMT
  <2>2. /\ (hwLength - hwPeekLength)' = 0 /\ UNCHANGED bIsCover
        /\ ret' = [call |-> "get", asked |-> asked, count |-> 0, bytes |-> <<>>]
    BY <1>1, <2>1, SMT DEF ring, Returns
  <2>3. Items = <<>> /\ Items' = Items
    <3>1. Items' = Items
      BY <1>1 DEF ring, Items
    <3>2. QED
      BY <2>1, <3>1, SMT DEF Items, Taken
  <2>4. Loaded(hwHead, hwLength) = <<>> /\ Loaded(hwHead, hwLength)' = <<>>
    BY <2>3, ItemsLoaded
  <2>5. Fifo!Shorter(asked, Len(<<>>)) = 0 /\ SubSeq(<<>>, 0 + 1, Len(<<>>)) = <<>>
        /\ SubSeq(<<>>, 1, 0) = <<>>
    BY SMT DEF Fifo!Shorter
  <2>6. QED
    BY <2>2, <2>4, <2>5 DEF Fifo!Get, Fifo!Gives
<1>2. CASE ~Empty /\ Dequeued(asked, n, Advance(hwHead, n))
  <2>1. Dequeued(asked, n, Slot(hwHead, n))
    BY <1>0, <1>2, Unfold, AdvanceSlot
  <2>2. QED
    BY <2>1, RefineGet
<1>3. CASE asked = 1 /\ ~Empty /\ Dequeued(1, 1, Following(hwHead))
  <2>1. n = 1
    <3>1. hwLength # 0
      BY <1>3, Unfold
    <3>2. QED
      BY <1>0, <1>3, <3>1, SMT DEF Shorter
  <2>2. Dequeued(asked, n, Slot(hwHead, n))
    BY <1>3, <2>1, Unfold, FollowingSlot
  <2>3. QED
    BY <2>2, RefineGet
<1>4. QED
  BY <1>1, <1>2, <1>3 DEF dequeue_byte, dequeue_bytes

(* A peek on a cursor at the end shows nothing; another shows what is next. *)
LEMMA RefinePeeks ==
    ASSUME IInv, NEW asked \in Nat,
           (asked = 1 /\ peek_byte_queue) \/ peek_bytes_queue(asked)
    PROVE  Fifo!Look(asked)
<1> DEFINE n == Shorter(asked, hwPeekLength)
<1>0. /\ hwPeekLength \in Nat /\ hwPeekLength <= hwLength /\ hwLength \in Nat /\ hwLength <= Size
      /\ n \in Nat /\ n <= hwPeekLength /\ n \in 0..Size
  BY Unfold, Sizes, SMT DEF Shorter
<1>e. PeekEmpty <=> hwPeekLength = 0
  BY PeekEnd DEF IInv
<1>1. CASE PeekEmpty /\ Returns("look", asked, 0, <<>>) /\ UNCHANGED ring
  <2>1. hwPeekLength = 0
    BY <1>e, <1>1
  <2>2. /\ (hwLength - hwPeekLength)' = hwLength - hwPeekLength /\ UNCHANGED bIsCover
        /\ ret' = [call |-> "look", asked |-> asked, count |-> 0, bytes |-> <<>>]
        /\ hwLength - hwPeekLength = hwLength /\ hwLength + 0 = hwLength
    BY <1>0, <1>1, <2>1, SMT DEF ring, Returns
  <2>3. Items' = Items
    BY <1>1 DEF ring, Items
  <2>4. Fifo!Shorter(asked, Len(Items) - hwLength) = 0 /\ SubSeq(Items, hwLength + 1, hwLength) = <<>>
    <3>1. Items \in Seq(Byte) /\ Len(Items) = hwLength
      BY ItemsSeq
    <3> HIDE DEF Items
    <3>2. QED
      BY <1>0, <3>1, SMT DEF Fifo!Shorter
  <2>5. /\ Loaded(hwHead, hwLength)' = Loaded(hwHead, hwLength)
        /\ Fifo!Shorter(asked, Len(Loaded(hwHead, hwLength)) - hwLength) = 0
        /\ SubSeq(Loaded(hwHead, hwLength), hwLength + 1, hwLength) = <<>>
    BY <2>3, <2>4, ItemsLoaded
  <2>6. QED
    BY <2>2, <2>5 DEF Fifo!Look, Fifo!Gives
<1>2. CASE ~PeekEmpty /\ Peeked(asked, n, Advance(hwPeek, n))
  <2>1. Peeked(asked, n, Slot(hwPeek, n))
    BY <1>0, <1>2, Unfold, AdvanceSlot
  <2>2. QED
    BY <2>1, RefineLook
<1>3. CASE asked = 1 /\ ~PeekEmpty /\ Peeked(1, 1, Following(hwPeek))
  <2>1. n = 1
    BY <1>0, <1>e, <1>3, SMT DEF Shorter
  <2>2. Peeked(asked, n, Slot(hwPeek, n))
    BY <1>3, <2>1, Unfold, FollowingSlot
  <2>3. QED
    BY <2>2, RefineLook
<1>4. QED
  BY <1>1, <1>2, <1>3 DEF peek_byte_queue, peek_bytes_queue

-----------------------------------------------------------------------------
(* A new ring stands for the empty queue. *)
LEMMA InitRefines == Init => Fifo!Init
<1> SUFFICES ASSUME Init PROVE Fifo!Init
  OBVIOUS
<1>1. hwLength = 0 /\ hwLength - hwPeekLength = 0
  BY SMT DEF Init
<1>2. Loaded(hwHead, hwLength) = <<>>
  BY <1>1, SMT DEF Loaded
<1>3. QED
  BY <1>1, <1>2 DEF Init, Fifo!Init

(* The blocks a caller hands over are blocks of the abstract queue; a byte *)
(* is one if blocks may have a byte at all.                                *)
LEMMA BlocksMatch ==
    ASSUME 1 <= MaxBlock
    PROVE  /\ \A block \in Block : block \in Fifo!Block
           /\ \A byte \in Byte : <<byte>> \in Fifo!Block
<1>1. ASSUME NEW block \in Block PROVE block \in Fifo!Block
  <2>1. Len(block) \in 0..MaxBlock /\ block \in [1..Len(block) -> Byte]
    BY BlockLength, MaxBlockAssumption, SMT
  <2>2. QED
    BY <2>1 DEF Fifo!Block
<1>2. ASSUME NEW byte \in Byte PROVE <<byte>> \in Fifo!Block
  <2>1. 1 \in 0..MaxBlock /\ <<byte>> \in [1..1 -> Byte]
    BY MaxBlockAssumption, SMT
  <2>2. QED
    BY <2>1 DEF Fifo!Block
<1>3. QED
  BY <1>1, <1>2

(* Every call of the ring is a call of the abstract queue. *)
LEMMA StepRefines ==
    ASSUME Proviso, 1 <= MaxBlock, IInv, [Next]_vars
    PROVE  [Fifo!Next]_Fifo!vars
<1>1. CASE UNCHANGED vars
  <2>1. Items' = Items
    BY <1>1 DEF vars, Items
  <2>2. Loaded(hwHead, hwLength)' = Loaded(hwHead, hwLength)
    BY <2>1, ItemsLoaded
  <2>3. QED
    BY <1>1, <2>2 DEF vars, Fifo!vars
<1>2. CASE reset_queue
  BY <1>2, RefineClear DEF Fifo!Next
<1>3. ASSUME NEW byte \in Byte, enqueue_byte(byte) PROVE Fifo!Next
  BY <1>3, RefineEnqueueByte, BlocksMatch DEF Fifo!Next
<1>4. ASSUME NEW block \in Block, enqueue_bytes(block) PROVE Fifo!Next
  BY <1>4, RefineEnqueueBytes, BlocksMatch DEF Fifo!Next
<1>5. CASE dequeue_byte \/ peek_byte_queue
  <2>1. 1 \in Nat /\ 1 \in 0..Size + 1
    BY Sizes, SMT
  <2>2. Fifo!Get(1) \/ Fifo!Look(1)
    BY <1>5, <2>1, RefineDequeues, RefinePeeks
  <2>3. QED
    BY <2>1, <2>2 DEF Fifo!Next
<1>6. ASSUME NEW asked \in 0..Size + 1, dequeue_bytes(asked) \/ peek_bytes_queue(asked)
      PROVE  Fifo!Next
  <2>1. asked \in Nat
    BY Sizes, SMT
  <2>2. Fifo!Get(asked) \/ Fifo!Look(asked)
    BY <1>6, <2>1, RefineDequeues, RefinePeeks
  <2>3. QED
    BY <2>2 DEF Fifo!Next
<1>7. CASE reset_peek
  BY <1>7, RefineRewind DEF Fifo!Next
<1>8. CASE get_all_peeked
  BY <1>8, RefineTake DEF Fifo!Next
<1>9. ASSUME NEW count \in SavedStatus, restore_peek_status(count) PROVE Fifo!Next
  BY <1>9, RefineMove DEF Fifo!Next
<1>10. CASE Getter
  BY <1>10, RefineAsk DEF Fifo!Next
<1>11. QED
  BY <1>1, <1>2, <1>3, <1>4, <1>5, <1>6, <1>7, <1>8, <1>9, <1>10 DEF Next

(* Call by call and byte by byte the ring of wl_queue.c is a bounded FIFO  *)
(* with a look-ahead cursor: what enqueue, dequeue, peek, commit and their *)
(* block forms answer is what the abstract queue answers.                  *)
THEOREM QueueImplementsFifo ==
    ASSUME Proviso, 1 <= MaxBlock PROVE Spec => FifoSpec
<1>1. IInv /\ [Next]_vars => IInv'
  BY StepIInv
<1>2. IInv /\ [Next]_vars => [Fifo!Next]_Fifo!vars
  BY StepRefines
<1>3. QED
  BY <1>1, <1>2, InitIInv, InitRefines, PTL DEF Spec, FifoSpec, Fifo!Spec
=============================================================================
