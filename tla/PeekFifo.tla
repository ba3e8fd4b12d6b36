------------------------------ MODULE PeekFifo ------------------------------
(***************************************************************************)
(* What the byte queue of generic/queue promises its callers, with neither *)
(* indices nor a ring: a bounded FIFO of bytes with a look-ahead cursor.   *)
(*                                                                         *)
(* items  are the queued bytes, oldest first.                              *)
(* cursor is how many of them the look-ahead has already shown.            *)
(* ret    is the last call: which it was, the number of bytes it asked for *)
(*        (0 where it asks for none), the number it gave back (a boolean   *)
(*        is 0 or 1) and the bytes it was given or copied out.             *)
(*                                                                         *)
(* cover  is the mode, chosen once: a block that does not fit pushes the   *)
(*        oldest bytes out and rewinds the cursor, or is cut to the room   *)
(*        that is left.                                                    *)
(***************************************************************************)
EXTENDS Integers, Sequences

CONSTANTS
    Byte,        \* the values of a byte
    Capacity,    \* how many bytes fit
    MaxBlock     \* the longest block a caller enqueues

VARIABLES items, cursor, cover, ret

vars == <<items, cursor, cover, ret>>

Block == UNION {[1..n -> Byte] : n \in 0..MaxBlock}

Shorter(a, b) == IF a < b THEN a ELSE b

(* The end of every call: its answer, and the mode as it was. *)
Gives(call, asked, n, bytes) ==
    /\ ret' = [call |-> call, asked |-> asked, count |-> n, bytes |-> bytes]
    /\ UNCHANGED cover

Init ==
    /\ items = <<>>
    /\ cursor = 0
    /\ cover \in BOOLEAN
    /\ ret = [call |-> "init", asked |-> 0, count |-> 1, bytes |-> <<>>]

(* A block enters: as much of it as there is room for. *)
PutWhatFits(block) ==
    LET n == Shorter(Len(block), Capacity - Len(items))
    IN  /\ ~cover
        /\ items' = items \o SubSeq(block, 1, n)
        /\ cursor' = cursor
        /\ Gives("put", 0, n, block)

(* A block enters and the newest Capacity bytes stay. *)
PutOverwriting(block) ==
    LET n     == Shorter(Len(block), Capacity)
        all   == items \o SubSeq(block, 1, n)
        spill == Len(all) - Shorter(Len(all), Capacity)
    IN  /\ cover
        /\ items' = SubSeq(all, spill + 1, Len(all))
        /\ cursor' = IF Len(items) = Capacity \/ spill > 0 THEN 0 ELSE cursor
        /\ Gives("put", 0, n, block)

(* The n oldest bytes leave; the cursor goes back to the new front. *)
Get(n) ==
    LET k == Shorter(n, Len(items))
    IN  /\ items' = SubSeq(items, k + 1, Len(items))
        /\ cursor' = 0
        /\ Gives("get", n, k, SubSeq(items, 1, k))

(* The next n bytes under the cursor are shown and stay queued. *)
Look(n) ==
    LET k == Shorter(n, Len(items) - cursor)
    IN  /\ cursor' = cursor + k
        /\ Gives("look", n, k, SubSeq(items, cursor + 1, cursor + k))
        /\ UNCHANGED items

(* The cursor is put after the first n bytes. *)
MoveCursor(n) ==
    /\ n <= Len(items)
    /\ cursor' = n
    /\ Gives("move", n, 1, <<>>)
    /\ UNCHANGED items

(* The cursor goes back to the front. *)
Rewind ==
    /\ cursor' = 0
    /\ Gives("rewind", 0, 1, <<>>)
    /\ UNCHANGED items

(* Every byte shown so far is consumed. *)
TakeShown ==
    /\ items' = SubSeq(items, cursor + 1, Len(items))
    /\ cursor' = 0
    /\ Gives("take", 0, 1, <<>>)

Clear ==
    /\ items' = <<>>
    /\ cursor' = 0
    /\ Gives("clear", 0, 1, <<>>)

(* A question about the queue changes nothing but the answer. The position *)
(* of the cursor is told modulo the capacity.                              *)
Ask ==
    /\ UNCHANGED <<items, cursor>>
    /\ \/ Gives("count", 0, Len(items), <<>>)
       \/ Gives("room", 0, Capacity - Len(items), <<>>)
       \/ Gives("empty", 0, IF items = <<>> THEN 1 ELSE 0, <<>>)
       \/ Gives("shown", 0, IF cursor = Len(items) THEN 1 ELSE 0, <<>>)
       \/ Gives("cursor", 0, cursor % Capacity, <<>>)

Next ==
    \/ \E block \in Block : PutWhatFits(block) \/ PutOverwriting(block)
    \/ \E n \in 0..Capacity + 1 : Get(n) \/ Look(n)
    \/ \E n \in 0..Capacity : MoveCursor(n)
    \/ Rewind
    \/ TakeShown
    \/ Clear
    \/ Ask

Spec == Init /\ [][Next]_vars
=============================================================================
