--------------------------- MODULE MsgScanProofs ---------------------------
(***************************************************************************)
(* The scan of search_msg_map calls a handler for what is in the queue,    *)
(* for every table of names, every size of the queue and whatever is       *)
(* enqueued between any two of its steps.                                  *)
(*                                                                         *)
(* NameInFront says nothing of the time before a name fits, so it is not   *)
(* inductive. FrontMatched does: the part found so far is the front of the *)
(* queue, and the cursor stands behind it.                                 *)
(*                                                                         *)
(* Messages published into that queue, whole or block by block, are        *)
(* handled in order (HandledInOrder). The queue is a window of the bytes   *)
(* of all messages ever published, one behind the other: message j begins  *)
(* behind st[j] of them, pos of them are gone, and the names of p messages *)
(* begin in what is gone or being handled. TopicsInv relates the queue,    *)
(* the blocks still to come, the scan and the calls made so far to those   *)
(* three.                                                                  *)
(***************************************************************************)
EXTENDS Topics, SequenceTheorems, WellFoundedInduction, TLAPS

ScanTypes ==
    /\ queue \in Seq(Byte) /\ Len(queue) <= QSize /\ cursor \in 0..Len(queue)
    /\ bArgIsString \in BOOLEAN /\ bIsRequestDrop \in BOOLEAN /\ undisturbed \in BOOLEAN
    /\ chState \in {"START", "IS_END_OF_MSG", "MSG", "HANDLER"} \cup ArgStates
    /\ hwIndex \in 1..Len(Names) + 1 /\ matched \in Nat
    /\ arg \in [nums : Nat, index : Nat, len : Nat, read : Seq(Seq(Byte)), word : Seq(Byte)]

(* The name being tried is one of the table. *)
NameOfTable == chState \in {"MSG", "HANDLER"} \cup ArgStates => hwIndex <= Len(Names)

FrontMatched ==
    undisturbed /\ chState = "MSG" =>
        /\ cursor = matched /\ matched <= Len(Name)
        /\ \A k \in 1..matched : queue[k] = Name[k]

FrontIsName ==
    undisturbed /\ chState \in ArgStates \cup {"HANDLER"} =>
        /\ Len(Name) <= cursor
        /\ \A k \in 1..Len(Name) : queue[k] = Name[k]

ScanInv == ScanTypes /\ NameOfTable /\ FrontMatched /\ FrontIsName

-----------------------------------------------------------------------------
(* Arithmetic, and a sequence that grows. *)
LEMMA GotWithin ==
    ASSUME NEW c \in Nat, NEW l \in Nat, c <= l, NEW g \in Int, g = 2 \/ g = l - c, g <= 2, g <= l - c
    PROVE  c + g \in c..l /\ (g = 2 => c + 2 \in 1..l)
OBVIOUS

LEMMA SumBelow ==
    ASSUME NEW a \in Nat, NEW b \in Nat, NEW l \in Nat, a <= b, NEW c, c = b + l
    PROVE  a <= c
OBVIOUS

LEMMA WithinSum ==
    ASSUME NEW a \in Nat, NEW l \in Nat, NEW i \in Nat, i <= l, NEW c \in Nat, a + l <= c
    PROVE  a + i <= c
OBVIOUS

LEMMA LineSize ==
    ASSUME NEW b \in Nat, NEW n \in Nat, NEW e \in Nat, NEW w, w = n + e, NEW h, h = b + w, NEW l, l = h + 1
    PROVE  l = b + n + e + 1 /\ h = b + n + e
OBVIOUS

LEMMA WordWithin ==
    ASSUME NEW n \in Nat, NEW r \in 1..n, NEW a \in Nat, NEW l \in Nat, NEW e \in Nat, a + l <= e,
           NEW o, o = (r - 1) + a, NEW w, w = n + e, NEW i \in Nat, 1 <= i, i <= 1 + l
    PROVE  o + i \in 1..w
OBVIOUS

LEMMA PlaceInFront ==
    ASSUME NEW a \in Nat, NEW b \in Nat, NEW l \in Nat, NEW x \in Nat, 1 <= x, x <= l, NEW pos, pos = a + b
    PROVE  pos < a + (b + x) /\ a + (b + x) <= pos + l /\ (a + (b + x)) - pos = x
OBVIOUS

LEMMA PassedBefore ==
    ASSUME NEW a \in Nat, NEW b \in Nat, NEW at \in Nat, NEW pos, pos = b + at, a <= b, NEW c \in Nat, c >= 1
    PROVE  a + at < pos + c
OBVIOUS

LEMMA EndsWithin ==
    ASSUME NEW a \in Nat, NEW at \in Nat, NEW l \in Nat, NEW c \in Nat, at + c <= l, NEW pos, pos = a + at,
           NEW b, b = a + l
    PROVE  pos + c <= b
OBVIOUS

LEMMA EndsBehind ==
    ASSUME NEW a \in Nat, NEW at \in Nat, NEW l \in Nat, NEW c \in Nat, c >= 1, at + c <= l, NEW b, b = a + l
    PROVE  a < b
OBVIOUS

LEMMA Joined ==
    ASSUME NEW S, NEW s \in Seq(S), NEW t \in Seq(S)
    PROVE  /\ s \o t \in Seq(S) /\ Len(s \o t) = Len(s) + Len(t) /\ Len(s) \in Nat /\ Len(t) \in Nat
           /\ \A i \in 1..Len(s) : (s \o t)[i] = s[i]
           /\ \A i \in 1..Len(t) : (s \o t)[Len(s) + i] = t[i]
OBVIOUS

LEMMA OneMore ==
    ASSUME NEW S, NEW s \in Seq(S), NEW k, k = Len(s), NEW x \in S
    PROVE  /\ Append(s, x) \in Seq(S) /\ Len(Append(s, x)) = k + 1 /\ k \in Nat
           /\ Append(s, x)[k + 1] = x /\ \A i \in 1..k : Append(s, x)[i] = s[i]
OBVIOUS

LEMMA SameLonger ==
    ASSUME NEW S, NEW s \in Seq(S), NEW k, k = Len(s), NEW t, \A i \in 1..k : s[i] = t[i], NEW x \in S, x = t[k + 1]
    PROVE  \A i \in 1..k + 1 : Append(s, x)[i] = t[i]
<1>1. /\ k \in Nat /\ Append(s, x)[k + 1] = x /\ \A i \in 1..k : Append(s, x)[i] = s[i]
  BY OneMore
<1> SUFFICES ASSUME NEW i \in 1..k + 1 PROVE Append(s, x)[i] = t[i]
  OBVIOUS
<1>2. CASE i = k + 1
  BY <1>1, <1>2
<1>3. CASE i # k + 1
  <2>1. i \in 1..k
    BY <1>1, <1>3
  <2> QED BY <1>1, <2>1
<1> QED BY <1>2, <1>3

-----------------------------------------------------------------------------
(* What a queue holds after more bytes came: what it held, unless bytes    *)
(* were lost.                                                              *)
LEMMA EnqueueKeepsFront ==
    ASSUME ScanTypes, NEW bytes \in Seq(Byte), Enqueue(bytes)
    PROVE  /\ queue' \in Seq(Byte) /\ Len(queue') <= QSize /\ cursor' \in 0..Len(queue')
           /\ undisturbed' \in BOOLEAN /\ (undisturbed' => undisturbed)
           /\ undisturbed' => cursor' = cursor /\ \A k \in 1..Len(queue) : queue'[k] = queue[k]
<1> DEFINE all == queue \o bytes
           lost == Len(all) - Fewer(Len(all), QSize)
<1>1. /\ all \in Seq(Byte) /\ Len(all) = Len(queue) + Len(bytes)
      /\ \A k \in 1..Len(queue) : all[k] = queue[k]
      /\ Len(queue) \in Nat /\ Len(bytes) \in Nat
  BY DEF ScanTypes
<1>2. lost \in Nat /\ Len(all) - lost <= QSize /\ Len(all) - lost \in Nat
  <2>1. Len(all) \in Nat /\ QSize \in Nat
    BY <1>1, ScanAssumption
  <2> HIDE DEF all
  <2> QED
    BY <2>1 DEF Fewer
<1>3. /\ queue' = SubSeq(all, lost + 1, Len(all))
      /\ cursor' = IF lost > 0 THEN 0 ELSE cursor
      /\ undisturbed' = (undisturbed /\ lost = 0)
  BY DEF Enqueue
<1> HIDE DEF lost, all
<1>4. /\ queue' \in Seq(Byte) /\ Len(queue') = Len(all) - lost
      /\ \A k \in 1..Len(all) - lost : queue'[k] = all[lost + k]
  BY <1>1, <1>2, <1>3
<1>5. cursor' \in 0..Len(queue')
  <2>1. CASE lost > 0
    BY <1>2, <1>3, <1>4, <2>1
  <2>2. CASE ~(lost > 0)
    <3>1. lost = 0 /\ cursor' = cursor
      BY <1>2, <1>3, <2>2
    <3>2. cursor \in 0..Len(queue) /\ Len(queue') = Len(queue) + Len(bytes)
      BY <1>1, <1>4, <3>1 DEF ScanTypes
    <3> QED
      BY <1>1, <3>1, <3>2
  <2> QED
    BY <2>1, <2>2
<1>6. undisturbed' \in BOOLEAN /\ (undisturbed' => undisturbed /\ lost = 0)
  BY <1>3
<1>7. lost = 0 => cursor' = cursor /\ \A k \in 1..Len(queue) : queue'[k] = queue[k]
  BY <1>1, <1>2, <1>3, <1>4
<1> QED
  BY <1>2, <1>4, <1>5, <1>6, <1>7

LEMMA EnqueueKeepsScan ==
    ASSUME ScanInv, NEW bytes \in Seq(Byte), Enqueue(bytes)
    PROVE  ScanInv'
<1>1. UNCHANGED <<bArgIsString, chState, hwIndex, matched, bIsRequestDrop, arg>>
  BY DEF Enqueue
<1>2. /\ queue' \in Seq(Byte) /\ Len(queue') <= QSize /\ cursor' \in 0..Len(queue')
      /\ undisturbed' \in BOOLEAN /\ (undisturbed' => undisturbed)
      /\ undisturbed' => cursor' = cursor /\ \A k \in 1..Len(queue) : queue'[k] = queue[k]
  BY EnqueueKeepsFront DEF ScanInv
<1>3. ScanTypes' /\ NameOfTable'
  BY <1>1, <1>2 DEF ScanInv, ScanTypes, NameOfTable, Names
<1>4. cursor \in 0..Len(queue) /\ Len(queue) \in Nat
  BY DEF ScanInv, ScanTypes
<1>5. FrontMatched'
  <2> SUFFICES ASSUME undisturbed', chState' = "MSG"
               PROVE  (cursor = matched /\ matched <= Len(Name) /\ \A k \in 1..matched : queue[k] = Name[k])'
    BY DEF FrontMatched
  <2>1. cursor = matched /\ matched <= Len(Name) /\ \A k \in 1..matched : queue[k] = Name[k]
    BY <1>1, <1>2 DEF ScanInv, FrontMatched
  <2> QED
    BY <1>1, <1>2, <1>4, <2>1 DEF Name, Names
<1>6. FrontIsName'
  <2> SUFFICES ASSUME undisturbed', chState' \in ArgStates \cup {"HANDLER"}
               PROVE  (Len(Name) <= cursor /\ \A k \in 1..Len(Name) : queue[k] = Name[k])'
    BY DEF FrontIsName
  <2>1. Len(Name) <= cursor /\ \A k \in 1..Len(Name) : queue[k] = Name[k]
    BY <1>1, <1>2 DEF ScanInv, FrontIsName
  <2>2. Len(Name) \in Nat
    <3>1. hwIndex \in 1..Len(Names) /\ Names \in Seq(Seq(Byte))
      BY <1>1, ScanAssumption DEF ScanInv, ScanTypes, NameOfTable, Names
    <3> QED
      BY <3>1 DEF Name
  <2> QED
    BY <1>1, <1>2, <1>4, <2>1, <2>2 DEF Name, Names
<1> QED
  BY <1>3, <1>5, <1>6 DEF ScanInv

-----------------------------------------------------------------------------
(* Steps of the scan, those first that look at the queue without a name.   *)
LEMMA BetweenNamesKeeps ==
    ASSUME ScanInv, Starts \/ TableEnds \/ TriesName
    PROVE  ScanInv'
<1>1. queue \in Seq(Byte) /\ Len(queue) \in Nat /\ Len(queue) <= QSize
  BY DEF ScanInv, ScanTypes
<1>2. CASE Starts
  <2>1. /\ UNCHANGED <<queue, cursor, bArgIsString, matched, arg, undisturbed>>
        /\ bIsRequestDrop' = TRUE /\ hwIndex' = 1 /\ chState' = "IS_END_OF_MSG"
    BY <1>2 DEF Starts, queueState
  <2>2. Len(Names) \in Nat /\ Names' = Names
    BY <2>1, ScanAssumption DEF ScanInv, ScanTypes, Names
  <2>3. bIsRequestDrop' \in BOOLEAN /\ undisturbed' \in BOOLEAN /\ bArgIsString' \in BOOLEAN
    BY <2>1 DEF ScanInv, ScanTypes
  <2>4. ScanTypes'
    BY <2>1, <2>2, <2>3 DEF ScanInv, ScanTypes
  <2> QED
    BY <2>1, <2>4 DEF ScanInv, NameOfTable, FrontMatched, FrontIsName, ArgStates
<1>3. CASE TableEnds
  <2>1. /\ UNCHANGED <<bArgIsString, hwIndex, matched, bIsRequestDrop, arg, undisturbed>>
        /\ chState' = "START"
        /\ \/ queue' = queue /\ cursor' = cursor
           \/ queue # <<>> /\ queue' = Tail(queue) /\ cursor' = 0
    BY <1>3 DEF TableEnds, queueState
  <2>2. queue' \in Seq(Byte) /\ Len(queue') <= QSize /\ cursor' \in 0..Len(queue')
    <3>1. CASE queue' = queue /\ cursor' = cursor
      BY <3>1 DEF ScanInv, ScanTypes
    <3>2. CASE queue # <<>> /\ queue' = Tail(queue) /\ cursor' = 0
      <4>1. Tail(queue) \in Seq(Byte) /\ Len(Tail(queue)) = Len(queue) - 1 /\ Len(Tail(queue)) \in Nat
        BY <1>1, <3>2
      <4> QED
        BY <1>1, <3>2, <4>1, ScanAssumption
    <3> QED
      BY <2>1, <3>1, <3>2
  <2>3. ScanTypes'
    BY <2>1, <2>2 DEF ScanInv, ScanTypes, Names
  <2> QED
    BY <2>1, <2>3 DEF ScanInv, NameOfTable, FrontMatched, FrontIsName, ArgStates
<1>4. CASE TriesName
  <2>1. /\ UNCHANGED <<queue, bArgIsString, hwIndex, bIsRequestDrop, arg>>
        /\ chState' = "MSG" /\ cursor' = 0 /\ matched' = 0 /\ undisturbed' = TRUE
        /\ hwIndex <= Len(Names) /\ Names' = Names /\ Name' = Name
    BY <1>4 DEF TriesName, Names, Name
  <2>2. undisturbed' \in BOOLEAN
    BY <2>1
  <2>3. ScanTypes'
    BY <1>1, <2>1, <2>2 DEF ScanInv, ScanTypes
  <2>4. NameOfTable' /\ FrontIsName'
    BY <2>1 DEF NameOfTable, FrontIsName, ArgStates
  <2>5. Len(Name) \in Nat
    <3>1. hwIndex \in 1..Len(Names) /\ Names \in Seq(Seq(Byte))
      BY <2>1, ScanAssumption DEF ScanInv, ScanTypes, Names
    <3> QED
      BY <3>1 DEF Name
  <2>6. FrontMatched'
    BY <2>1, <2>5 DEF FrontMatched
  <2> QED
    BY <2>3, <2>4, <2>6 DEF ScanInv
<1> QED
  BY <1>2, <1>3, <1>4

(* Giving a name up. *)
LEMMA NextNameKeeps ==
    ASSUME ScanInv, NEW awaited \in BOOLEAN, NextName(awaited), hwIndex <= Len(Names),
           UNCHANGED <<queue, bArgIsString, arg, undisturbed>>,
           cursor' \in 0..Len(queue), matched' \in Nat
    PROVE  ScanInv'
<1>1. hwIndex' = hwIndex + 1 /\ chState' = "IS_END_OF_MSG" /\ Names' = Names
  BY DEF NextName, Names
<1>2. bIsRequestDrop' \in BOOLEAN
  BY DEF NextName
<1>3. hwIndex' \in 1..Len(Names') + 1
  <2>1. Len(Names) \in Nat
    BY ScanAssumption DEF ScanInv, ScanTypes, Names
  <2> QED
    BY <1>1, <2>1 DEF ScanInv, ScanTypes
<1>4. ScanTypes'
  BY <1>1, <1>2, <1>3 DEF ScanInv, ScanTypes
<1> QED
  BY <1>1, <1>4 DEF ScanInv, NameOfTable, FrontMatched, FrontIsName, ArgStates

(* What the steps that read share: the queue, the table and the name stay. *)
LEMMA NameInTable ==
    ASSUME ScanInv, chState \in {"MSG", "HANDLER"} \cup ArgStates
    PROVE  hwIndex <= Len(Names) /\ Name \in Seq(Byte) /\ Len(Name) \in Nat
<1>1. hwIndex \in 1..Len(Names) /\ Names \in Seq(Seq(Byte))
  BY ScanAssumption DEF ScanInv, ScanTypes, NameOfTable, Names
<1>2. Name \in Seq(Byte)
  BY <1>1 DEF Name
<1> QED
  BY <1>1, <1>2

LEMMA NameStepsKeep ==
    ASSUME ScanInv, ComparesByte \/ AwaitsName \/ NameFits
    PROVE  ScanInv'
<1>1. chState = "MSG"
  BY DEF ComparesByte, AwaitsName, NameFits
<1>2. hwIndex <= Len(Names) /\ Name \in Seq(Byte) /\ Len(Name) \in Nat
  BY <1>1, NameInTable
<1>3. cursor \in 0..Len(queue) /\ Len(queue) \in Nat /\ matched \in Nat /\ queue \in Seq(Byte)
  BY DEF ScanInv, ScanTypes
<1>4. CASE ComparesByte
  <2>1. /\ matched < Len(Name) /\ cursor # Len(queue)
        /\ cursor' = cursor + 1 /\ matched' = matched + 1
        /\ UNCHANGED <<queue, bArgIsString, arg, undisturbed>>
    BY <1>4 DEF ComparesByte, AtEnd
  <2>2. cursor' \in 0..Len(queue) /\ matched' \in Nat
    BY <1>3, <2>1
  <2>3. CASE Shown = Name[matched + 1]
    <3>1. UNCHANGED <<chState, hwIndex, bIsRequestDrop>> /\ Names' = Names /\ Name' = Name
      BY <1>4, <2>1, <2>3 DEF ComparesByte, Names, Name
    <3>2. ScanTypes'
      BY <2>1, <2>2, <3>1 DEF ScanInv, ScanTypes
    <3>3. NameOfTable' /\ FrontIsName'
      BY <1>1, <3>1 DEF ScanInv, NameOfTable, FrontIsName, ArgStates
    <3>4. ASSUME undisturbed' PROVE cursor' = matched' /\ \A k \in 1..matched' : queue'[k] = Name[k]
      <4>1. cursor = matched /\ \A k \in 1..matched : queue[k] = Name[k]
        BY <1>1, <2>1, <3>4 DEF ScanInv, FrontMatched
      <4>2. queue[matched + 1] = Name[matched + 1]
        BY <2>3, <4>1 DEF Shown
      <4> QED
        BY <1>3, <2>1, <4>1, <4>2
    <3>5. FrontMatched'
      BY <1>2, <1>3, <2>1, <3>1, <3>4 DEF FrontMatched
    <3> QED
      BY <3>2, <3>3, <3>5 DEF ScanInv
  <2>4. CASE Shown # Name[matched + 1]
    <3>1. NextName(FALSE)
      BY <1>4, <2>4 DEF ComparesByte
    <3> QED
      BY <1>2, <2>1, <2>2, <3>1, NextNameKeeps
  <2> QED
    BY <2>3, <2>4
<1>5. CASE AwaitsName
  BY <1>2, <1>3, <1>5, NextNameKeeps DEF AwaitsName, queueState
<1>6. CASE NameFits
  <2>1. /\ matched = Len(Name) /\ chState' = "IS_START_OF_ARG"
        /\ arg' = [NoArgs EXCEPT !.len = arg.len, !.nums = arg.nums]
        /\ UNCHANGED <<queue, cursor, bArgIsString, hwIndex, matched, bIsRequestDrop, undisturbed>>
        /\ Names' = Names /\ Name' = Name
    BY <1>6 DEF NameFits, queueState, Names, Name
  <2>2. arg' \in [nums : Nat, index : Nat, len : Nat, read : Seq(Seq(Byte)), word : Seq(Byte)]
    <3>1. arg' = [nums |-> arg.nums, index |-> 0, len |-> arg.len, read |-> <<>>, word |-> <<>>]
      BY <2>1 DEF NoArgs
    <3>2. arg.nums \in Nat /\ arg.len \in Nat
      BY DEF ScanInv, ScanTypes
    <3> QED
      BY <3>1, <3>2
  <2>3. ScanTypes'
    BY <2>1, <2>2 DEF ScanInv, ScanTypes, ArgStates
  <2>4. NameOfTable' /\ FrontMatched'
    BY <1>2, <2>1 DEF NameOfTable, FrontMatched
  <2>5. FrontIsName'
    <3> SUFFICES ASSUME undisturbed'
                 PROVE  Len(Name) <= cursor /\ \A k \in 1..Len(Name) : queue[k] = Name[k]
      BY <2>1 DEF FrontIsName
    <3>1. cursor = matched /\ \A k \in 1..matched : queue[k] = Name[k]
      BY <1>1, <2>1 DEF ScanInv, FrontMatched
    <3> QED
      BY <1>2, <2>1, <3>1
  <2> QED
    BY <2>3, <2>4, <2>5 DEF ScanInv
<1> QED
  BY <1>4, <1>5, <1>6

(* Reading on, from one state of check_arg to another or to the handler.   *)
LEMMA ReadingOnKeeps ==
    ASSUME ScanInv, chState \in ArgStates, chState' \in ArgStates \cup {"HANDLER"},
           UNCHANGED <<queue, bArgIsString, hwIndex, matched, bIsRequestDrop, undisturbed>>,
           cursor' \in cursor..Len(queue),
           arg' \in [nums : Nat, index : Nat, len : Nat, read : Seq(Seq(Byte)), word : Seq(Byte)]
    PROVE  ScanInv'
<1>1. Names' = Names /\ Name' = Name
  BY DEF Names, Name
<1>2. cursor \in 0..Len(queue) /\ Len(queue) \in Nat
  BY DEF ScanInv, ScanTypes
<1>3. cursor' \in 0..Len(queue) /\ cursor <= cursor'
  BY <1>2
<1>4. hwIndex <= Len(Names) /\ Len(Name) \in Nat
  BY NameInTable
<1>5. ScanTypes'
  BY <1>1, <1>3 DEF ScanInv, ScanTypes
<1>6. NameOfTable'
  BY <1>1, <1>4 DEF NameOfTable
<1>7. FrontMatched'
  BY DEF FrontMatched, ArgStates
<1>8. FrontIsName'
  BY <1>1, <1>2, <1>3, <1>4 DEF ScanInv, FrontIsName
<1> QED
  BY <1>5, <1>6, <1>7, <1>8 DEF ScanInv

LEMMA ArgStepsKeep ==
    ASSUME ScanInv, AwaitsArgs \/ StartsArgs \/ ReadsLength \/ ReadsBytes \/ ReadsText
    PROVE  ScanInv'
<1> DEFINE Args == [nums : Nat, index : Nat, len : Nat, read : Seq(Seq(Byte)), word : Seq(Byte)]
<1>1. chState \in ArgStates
  BY DEF AwaitsArgs, StartsArgs, ReadsLength, ReadsBytes, ReadsText, ArgStates
<1>2. hwIndex <= Len(Names)
  BY <1>1, NameInTable
<1>3. /\ cursor \in 0..Len(queue) /\ Len(queue) \in Nat /\ matched \in Nat
      /\ queue \in Seq(Byte) /\ arg \in Args
  BY DEF ScanInv, ScanTypes
<1>4. ~AtEnd => cursor + 1 \in cursor..Len(queue) /\ Shown \in Byte /\ Shown \in Nat
  <2> SUFFICES ASSUME ~AtEnd PROVE cursor + 1 \in cursor..Len(queue) /\ Shown \in Byte /\ Shown \in Nat
    OBVIOUS
  <2>1. cursor + 1 \in 1..Len(queue) /\ cursor + 1 \in cursor..Len(queue)
    BY <1>3 DEF AtEnd
  <2>2. Shown \in Byte
    BY <1>3, <2>1 DEF Shown
  <2> QED
    BY <2>1, <2>2, ScanAssumption
<1>5. CASE AwaitsArgs
  BY <1>2, <1>3, <1>5, NextNameKeeps DEF AwaitsArgs, queueState
<1>6. CASE StartsArgs
  <2>1. /\ ~AtEnd /\ cursor' = cursor + 1
        /\ UNCHANGED <<queue, bArgIsString, matched, undisturbed>>
    BY <1>6 DEF StartsArgs
  <2>2. CASE NextName(FALSE) /\ UNCHANGED arg
    <3>1. cursor' \in 0..Len(queue)
      BY <1>3, <1>4, <2>1
    <3> QED
      BY <1>2, <1>3, <2>1, <2>2, <3>1, NextNameKeeps
  <2>3. CASE /\ arg' = arg \/ arg' = [arg EXCEPT !.nums = Shown]
             /\ chState' \in ArgStates \cup {"HANDLER"}
             /\ UNCHANGED <<hwIndex, bIsRequestDrop>>
    <3>1. arg' \in Args
      BY <1>3, <1>4, <2>1, <2>3
    <3> QED
      BY <1>1, <1>4, <2>1, <2>3, <3>1, ReadingOnKeeps
  <2> QED
    BY <1>6, <2>2, <2>3 DEF StartsArgs, ArgStates
<1>7. CASE ReadsLength
  <2> DEFINE got == Fewer(2, Len(queue) - cursor)
             upper == IF got = 2 THEN queue[cursor + 2] ELSE arg.len \div 256
  <2>1. /\ ~AtEnd /\ cursor' = cursor + got
        /\ arg' = [arg EXCEPT !.len = Shown + 256 * upper]
        /\ chState' = "ARG_BYTES"
        /\ UNCHANGED <<queue, bArgIsString, hwIndex, matched, bIsRequestDrop, undisturbed>>
    BY <1>7 DEF ReadsLength
  <2>2. cursor + got \in cursor..Len(queue) /\ (got = 2 => cursor + 2 \in 1..Len(queue))
    <3>1. cursor # Len(queue) /\ (got = 2 \/ got = Len(queue) - cursor)
          /\ got <= 2 /\ got <= Len(queue) - cursor /\ got \in Int
      BY <1>3, <2>1 DEF AtEnd, Fewer
    <3>2. cursor \in Nat /\ Len(queue) \in Nat /\ cursor <= Len(queue)
      BY <1>3
    <3> HIDE DEF got
    <3> QED
      BY <3>1, <3>2, GotWithin
  <2>3. upper \in Nat
    <3>1. CASE got = 2
      <4>1. queue[cursor + 2] \in Byte
        BY <1>3, <2>2, <3>1
      <4> QED
        BY <3>1, <4>1, ScanAssumption
    <3>2. CASE got # 2
      <4>1. arg.len \in Nat
        BY <1>3
      <4> QED
        BY <3>2, <4>1
    <3> QED
      BY <3>1, <3>2
  <2> HIDE DEF got, upper
  <2>4. Shown + 256 * upper \in Nat
    BY <1>4, <2>1, <2>3
  <2>5. arg' \in Args
    <3> DEFINE l == Shown + 256 * upper
    <3>1. l \in Nat /\ arg' = [arg EXCEPT !.len = l]
      BY <2>1, <2>4
    <3> HIDE DEF l
    <3> QED
      BY <1>3, <3>1
  <2> QED
    BY <1>1, <2>1, <2>2, <2>5, ReadingOnKeeps DEF ArgStates
<1>8. CASE ReadsBytes
  <2> DEFINE got == Fewer(arg.len, Len(queue) - cursor)
  <2>1. /\ ~AtEnd /\ arg.len > 0 /\ cursor' = cursor + got
        /\ arg' = [arg EXCEPT !.index = @ + arg.len,
                              !.read = Append(@, SubSeq(queue, cursor + 1, cursor + got))]
        /\ chState' \in ArgStates \cup {"HANDLER"}
        /\ UNCHANGED <<queue, bArgIsString, hwIndex, matched, bIsRequestDrop, undisturbed>>
    BY <1>8 DEF ReadsBytes, ArgStates
  <2>2. arg.len \in Nat /\ arg.index \in Nat /\ arg.read \in Seq(Seq(Byte))
    BY <1>3
  <2>3. cursor + got \in cursor..Len(queue)
    BY <1>3, <2>1, <2>2 DEF AtEnd, Fewer
  <2> HIDE DEF got
  <2>4. SubSeq(queue, cursor + 1, cursor + got) \in Seq(Byte)
    BY <1>3, <2>3
  <2>5. Append(arg.read, SubSeq(queue, cursor + 1, cursor + got)) \in Seq(Seq(Byte))
    BY <2>2, <2>4
  <2>6. arg' \in Args
    <3> DEFINE read == Append(arg.read, SubSeq(queue, cursor + 1, cursor + got))
    <3> HIDE DEF read
    <3>1. arg' = [arg EXCEPT !.index = arg.index + arg.len, !.read = read]
      BY <2>1 DEF read
    <3>2. arg' = [nums |-> arg.nums, index |-> arg.index + arg.len, len |-> arg.len, read |-> read, word |-> arg.word]
      BY <1>3, <3>1
    <3>3. arg.nums \in Nat /\ arg.index + arg.len \in Nat /\ read \in Seq(Seq(Byte)) /\ arg.word \in Seq(Byte)
      BY <1>3, <2>2, <2>5 DEF read
    <3> QED
      BY <2>2, <3>2, <3>3
  <2> QED
    BY <1>1, <2>1, <2>3, <2>6, ReadingOnKeeps
<1>9. CASE ReadsText
  <2> DEFINE last == Shown = Cr \/ arg.index + 1 >= ArgLen - 1
             word == IF Shown = Space THEN <<>> ELSE IF last THEN arg.word ELSE Append(arg.word, Shown)
             words == IF Shown = Space THEN Append(arg.read, arg.word) ELSE arg.read
             read == IF last THEN Append(words, word) ELSE words
  <2>1. /\ ~AtEnd /\ cursor' = cursor + 1
        /\ arg' = [arg EXCEPT !.index = @ + 1, !.word = word, !.read = read]
        /\ chState' \in ArgStates \cup {"HANDLER"}
        /\ UNCHANGED <<queue, bArgIsString, hwIndex, matched, bIsRequestDrop, undisturbed>>
    BY <1>9 DEF ReadsText, ArgStates
  <2>2. arg.index \in Nat /\ arg.read \in Seq(Seq(Byte)) /\ arg.word \in Seq(Byte)
    BY <1>3
  <2> HIDE DEF last
  <2>3. word \in Seq(Byte) /\ words \in Seq(Seq(Byte))
    BY <1>4, <2>1, <2>2
  <2> HIDE DEF word, words
  <2>4. read \in Seq(Seq(Byte))
    BY <2>3
  <2> HIDE DEF read
  <2>5. arg' \in Args
    <3>1. arg' = [nums |-> arg.nums, index |-> arg.index + 1, len |-> arg.len, read |-> read, word |-> word]
      BY <1>3, <2>1
    <3>2. arg.nums \in Nat /\ arg.index + 1 \in Nat /\ arg.len \in Nat
      BY <1>3
    <3> QED
      BY <2>3, <2>4, <3>1, <3>2
  <2> QED
    BY <1>1, <1>4, <2>1, <2>5, ReadingOnKeeps
<1> QED
  BY <1>5, <1>6, <1>7, <1>8, <1>9

LEMMA HandlerReturnsKeeps ==
    ASSUME ScanInv, HandlerReturns
    PROVE  ScanInv'
<1>1. /\ queue' = SubSeq(queue, cursor + 1, Len(queue)) /\ cursor' = 0 /\ chState' = "START"
      /\ UNCHANGED <<bArgIsString, hwIndex, matched, bIsRequestDrop, arg, undisturbed>>
  BY DEF HandlerReturns
<1>2. queue \in Seq(Byte) /\ cursor \in 0..Len(queue) /\ Len(queue) \in Nat /\ Len(queue) <= QSize
  BY DEF ScanInv, ScanTypes
<1>3. queue' \in Seq(Byte) /\ Len(queue') = Len(queue) - cursor
  BY <1>1, <1>2
<1>4. Len(queue') <= QSize /\ cursor' \in 0..Len(queue')
  BY <1>1, <1>2, <1>3, ScanAssumption
<1>5. ScanTypes'
  BY <1>1, <1>3, <1>4 DEF ScanInv, ScanTypes, Names
<1> QED
  BY <1>1, <1>5 DEF ScanInv, NameOfTable, FrontMatched, FrontIsName, ArgStates

-----------------------------------------------------------------------------
LEMMA ScanInvInit == ScanInit => ScanInv
<1> SUFFICES ASSUME ScanInit PROVE ScanInv
  OBVIOUS
<1>1. /\ queue = <<>> /\ cursor = 0 /\ chState = "START" /\ hwIndex = 1 /\ matched = 0
      /\ bArgIsString \in BOOLEAN /\ bIsRequestDrop \in BOOLEAN /\ undisturbed \in BOOLEAN
  BY DEF ScanInit
<1>2. Len(Names) \in Nat
  BY <1>1, ScanAssumption DEF Names
<1>3. arg \in [nums : Nat, index : Nat, len : Nat, read : Seq(Seq(Byte)), word : Seq(Byte)]
  BY DEF ScanInit, NoArgs
<1>4. ScanTypes
  BY <1>1, <1>2, <1>3, ScanAssumption DEF ScanTypes
<1> QED
  BY <1>1, <1>4 DEF ScanInv, NameOfTable, FrontMatched, FrontIsName, ArgStates

LEMMA ScanInvNext == ScanInv /\ [Scans \/ \E bytes \in Seq(Byte) : Enqueue(bytes)]_scan => ScanInv'
<1> SUFFICES ASSUME ScanInv, [Scans \/ \E bytes \in Seq(Byte) : Enqueue(bytes)]_scan PROVE ScanInv'
  OBVIOUS
<1>1. CASE Scans
  BY <1>1, BetweenNamesKeeps, NameStepsKeep, ArgStepsKeep, HandlerReturnsKeeps DEF Scans
<1>2. ASSUME NEW bytes \in Seq(Byte), Enqueue(bytes) PROVE ScanInv'
  BY <1>2, EnqueueKeepsScan
<1>3. CASE UNCHANGED scan
  BY <1>3 DEF scan, queueState, ScanInv, ScanTypes, NameOfTable, FrontMatched, FrontIsName, Names, Name
<1> QED
  BY <1>1, <1>2, <1>3

LEMMA ScanInvHolds == ScanSpec => []ScanInv
BY ScanInvInit, ScanInvNext, PTL DEF ScanSpec

(* The cursor never passes the bytes there are, nor the queue its size,    *)
(* nor the scan the end of its table.                                      *)
THEOREM ScanTypesHold == ScanSpec => []ScanTypeOK
<1>1. ScanInv => ScanTypeOK
  BY DEF ScanInv, ScanTypes, ScanTypeOK
<1> QED
  BY <1>1, ScanInvHolds, PTL

(* Arguments are read, handlers called and messages removed only behind    *)
(* the name in front of the queue: whatever the table, the queue's size    *)
(* and the interrupts' bytes, as long as they overwrite nothing.           *)
THEOREM ScanNameInFront == ScanSpec => []NameInFront
<1>1. ScanInv => NameInFront
  <2> SUFFICES ASSUME ScanInv, undisturbed, chState \in ArgStates \cup {"HANDLER"}
               PROVE  Len(Name) <= cursor /\ SubSeq(queue, 1, Len(Name)) = Name
    BY DEF NameInFront
  <2>1. Name \in Seq(Byte) /\ Len(Name) \in Nat
    BY NameInTable
  <2>2. Len(Name) <= cursor /\ \A k \in 1..Len(Name) : queue[k] = Name[k]
    BY DEF ScanInv, FrontIsName
  <2>3. queue \in Seq(Byte) /\ Len(queue) \in Nat /\ Len(Name) <= Len(queue)
    BY <2>1, <2>2 DEF ScanInv, ScanTypes
  <2>4. /\ SubSeq(queue, 1, Len(Name)) \in Seq(Byte)
        /\ Len(SubSeq(queue, 1, Len(Name))) = Len(Name)
        /\ \A k \in 1..Len(Name) : SubSeq(queue, 1, Len(Name))[k] = Name[k]
    BY <2>1, <2>2, <2>3
  <2> QED
    BY <2>1, <2>2, <2>4, SeqEqual
<1> QED
  BY <1>1, ScanInvHolds, PTL

-----------------------------------------------------------------------------
(* Numbers, sequences and sequences of sequences, as the arguments of a    *)
(* message and the messages of a queue need them.                          *)
LEMMA NatLess == IsWellFoundedOn({ss \in Nat \X Nat : ss[1] < ss[2]}, Nat)
BY NatLessThanWellFounded DEF OpToRel

LEMMA Least ==
    ASSUME NEW T, T \subseteq Nat, T # {}
    PROVE  \E x \in T : \A y \in T : x <= y
<1> DEFINE R == {ss \in Nat \X Nat : ss[1] < ss[2]}
<1>1. PICK x \in T : \A y \in T : <<y, x>> \notin R
  <2> HIDE DEF R
  <2> QED BY NatLess, WFMin DEF R
<1>2. \A y \in T : ~(y < x)
  BY <1>1
<1> QED BY <1>2

(* A set that holds 1 and with each number the next. *)
LEMMA Counted ==
    ASSUME NEW n \in Nat \ {0}, NEW T, 1 \in T, \A k \in 1..n : k \in T /\ k < n => k + 1 \in T
    PROVE  \A k \in 1..n : k \in T
<1> DEFINE U == {k \in 1..n : k \notin T}
<1>1. SUFFICES ASSUME U # {} PROVE FALSE
  OBVIOUS
<1>2. U \subseteq Nat
  OBVIOUS
<1>3. PICK k \in U : \A y \in U : k <= y
  <2> HIDE DEF U
  <2> QED BY <1>1, <1>2, Least
<1>4. k \in 1..n /\ k \notin T /\ k # 1
  BY <1>3
<1>5. k - 1 \in 1..n /\ k - 1 < n /\ (k - 1) + 1 = k
  BY <1>4
<1>6. k - 1 \in T
  BY <1>3, <1>5
<1> QED BY <1>4, <1>5, <1>6

Flattens(seqs, n, f) ==
    /\ DOMAIN f = 1..n
    /\ \A i \in 1..n : f[i] = IF i = 1 THEN seqs[i] ELSE f[i - 1] \o seqs[i]

LEMMA FlattensExists ==
    ASSUME NEW seqs, NEW n \in Nat \ {0}
    PROVE  \E f : f = [i \in 1..n |-> IF i = 1 THEN seqs[i] ELSE f[i - 1] \o seqs[i]]
<1> DEFINE T == {k \in 1..n : \E f : Flattens(seqs, k, f)}
<1>1. 1 \in T
  <2>1. Flattens(seqs, 1, [i \in 1..1 |-> seqs[i]])
    BY DEF Flattens
  <2> QED BY <2>1
<1>2. ASSUME NEW k \in 1..n, k \in T, k < n PROVE k + 1 \in T
  <2>1. PICK f : Flattens(seqs, k, f)
    BY <1>2
  <2> DEFINE g == [i \in 1..k + 1 |-> IF i <= k THEN f[i] ELSE f[k] \o seqs[i]]
  <2>2. ASSUME NEW i \in 1..k + 1 PROVE g[i] = IF i = 1 THEN seqs[i] ELSE g[i - 1] \o seqs[i]
    <3>1. CASE i <= k
      <4>1. g[i] = f[i] /\ (i # 1 => g[i - 1] = f[i - 1])
        BY <3>1
      <4>2. i \in 1..k
        BY <3>1
      <4> QED BY <2>1, <4>1, <4>2 DEF Flattens
    <3>2. CASE ~(i <= k)
      <4>1. i = k + 1 /\ i # 1 /\ i - 1 = k /\ k \in 1..k + 1 /\ k <= k
        BY <3>2
      <4>2. g[i] = f[k] \o seqs[i] /\ g[k] = f[k]
        BY <3>2, <4>1
      <4> HIDE DEF g
      <4> QED BY <4>1, <4>2
    <3> QED BY <3>1, <3>2
  <2>3. DOMAIN g = 1..k + 1
    OBVIOUS
  <2> HIDE DEF g
  <2>4. Flattens(seqs, k + 1, g)
    BY <2>2, <2>3 DEF Flattens
  <2> QED BY <2>4, <1>2
<1> HIDE DEF T
<1>3. n \in T
  BY <1>1, <1>2, Counted
<1>4. PICK f : Flattens(seqs, n, f)
  BY <1>3 DEF T
<1> DEFINE h == [i \in 1..n |-> f[i]]
<1>5. h = [i \in 1..n |-> IF i = 1 THEN seqs[i] ELSE h[i - 1] \o seqs[i]]
  <2>1. \A i \in 1..n : h[i] = f[i] /\ (i # 1 => i - 1 \in 1..n /\ h[i - 1] = f[i - 1])
    OBVIOUS
  <2>2. h = [i \in 1..n |-> h[i]]
    OBVIOUS
  <2> HIDE DEF h
  <2>3. \A i \in 1..n : h[i] = IF i = 1 THEN seqs[i] ELSE h[i - 1] \o seqs[i]
    BY <1>4, <2>1 DEF Flattens
  <2>4. \A i \in 1..n : (IF i = 1 THEN seqs[i] ELSE h[i - 1] \o seqs[i]) = h[i]
    BY <2>3
  <2>5. [i \in 1..n |-> IF i = 1 THEN seqs[i] ELSE h[i - 1] \o seqs[i]] = [i \in 1..n |-> h[i]]
    BY <2>4
  <2> QED BY <2>2, <2>5
<1> HIDE DEF h
<1> QED BY <1>5

LEMMA FlattenUnfolds ==
    ASSUME NEW seqs, Len(seqs) \in Nat \ {0}
    PROVE  \E f : /\ \A i \in 1..Len(seqs) : f[i] = IF i = 1 THEN seqs[i] ELSE f[i - 1] \o seqs[i]
                  /\ FlattenSeq(seqs) = f[Len(seqs)]
<1> DEFINE n == Len(seqs)
           G(f) == [i \in 1..n |-> IF i = 1 THEN seqs[i] ELSE f[i - 1] \o seqs[i]]
           f0 == CHOOSE f : f = G(f)
<1>1. f0 = G(f0)
  <2>1. \E f : f = G(f)
    BY FlattensExists
  <2> QED BY <2>1
<1>2. FlattenSeq(seqs) = f0[n]
  BY DEF FlattenSeq
<1> QED BY <1>1, <1>2
(* Where the parts of a sequence of sequences begin when they are put one  *)
(* behind the other.                                                       *)
Layout(seqs, o) ==
    /\ o \in [1..Len(seqs) + 1 -> Nat] /\ o[1] = 0
    /\ \A k \in 1..Len(seqs) : o[k + 1] = o[k] + Len(seqs[k])

Flattened(seqs, o, flat) ==
    /\ Layout(seqs, o) /\ Len(flat) = o[Len(seqs) + 1]
    /\ \A k \in 1..Len(seqs) : \A i \in 1..Len(seqs[k]) : flat[o[k] + i] = seqs[k][i]

LEMMA WithinPart ==
    ASSUME NEW a \in Nat, NEW l \in Nat, NEW c \in Nat, NEW i \in Nat, 1 <= i, i <= l, a + l <= c
    PROVE  a + i \in 1..c
OBVIOUS

(* The first k parts in flat. *)
FlatTo(S, seqs, o, k, flat) ==
    /\ flat \in Seq(S) /\ o \in [1..k + 1 -> Nat] /\ o[1] = 0 /\ Len(flat) = o[k + 1]
    /\ \A j \in 1..k : o[j + 1] = o[j] + Len(seqs[j])
    /\ \A j \in 1..k : o[j + 1] <= o[k + 1] /\ \A i \in 1..Len(seqs[j]) : flat[o[j] + i] = seqs[j][i]

LEMMA FlatNext ==
    ASSUME NEW S, NEW seqs \in Seq(Seq(S)), NEW k \in Nat, k + 1 \in 1..Len(seqs),
           NEW o, NEW flat, FlatTo(S, seqs, o, k, flat)
    PROVE  \E q : FlatTo(S, seqs, q, k + 1, flat \o seqs[k + 1])
<1> DEFINE part == seqs[k + 1]
           q == [j \in 1..k + 2 |-> IF j <= k + 1 THEN o[j] ELSE o[k + 1] + Len(part)]
           both == flat \o part
<1>1. part \in Seq(S) /\ Len(part) \in Nat /\ k + 1 \in 1..k + 1 /\ k + 2 \in 1..k + 2 /\ 1 \in 1..k + 1
  OBVIOUS
<1>2. /\ flat \in Seq(S) /\ o \in [1..k + 1 -> Nat] /\ o[1] = 0 /\ Len(flat) = o[k + 1]
      /\ \A j \in 1..k : o[j + 1] = o[j] + Len(seqs[j])
      /\ \A j \in 1..k : o[j + 1] <= o[k + 1] /\ \A i \in 1..Len(seqs[j]) : flat[o[j] + i] = seqs[j][i]
  BY DEF FlatTo
<1>3. o[k + 1] \in Nat
  BY <1>1, <1>2
<1>4. /\ both \in Seq(S) /\ Len(both) = o[k + 1] + Len(part)
      /\ \A i \in 1..o[k + 1] : both[i] = flat[i]
      /\ \A i \in 1..Len(part) : both[o[k + 1] + i] = part[i]
  <2> HIDE DEF part
  <2>1. both \in Seq(S) /\ Len(both) = Len(flat) + Len(part)
    <3>1. flat \in Seq(S) /\ part \in Seq(S)
      BY <1>1, <1>2
    <3> QED BY <3>1, ConcatProperties
  <2>2. \A i \in 1..Len(flat) : both[i] = flat[i]
    BY <1>1, <1>2
  <2>3. \A i \in 1..Len(part) : both[Len(flat) + i] = part[i]
    <3>1. flat \in Seq(S) /\ part \in Seq(S)
      BY <1>1, <1>2
    <3> QED BY <3>1, Joined
  <2> HIDE DEF both
  <2> QED BY <1>2, <2>1, <2>2, <2>3
<1>5. /\ q \in [1..k + 2 -> Nat] /\ q[1] = 0 /\ q[k + 2] = o[k + 1] + Len(part)
      /\ \A j \in 1..k + 1 : q[j] = o[j]
  <2> HIDE DEF part
  <2>1. \A j \in 1..k + 2 : j <= k + 1 => j \in 1..k + 1
    OBVIOUS
  <2>2. \A j \in 1..k + 1 : j \in 1..k + 2 /\ j <= k + 1
    OBVIOUS
  <2>3. ~(k + 2 <= k + 1)
    OBVIOUS
  <2> QED BY <1>1, <1>2, <1>3, <2>1, <2>2, <2>3
<1> HIDE DEF q, both
<1>6. ASSUME NEW j \in 1..k + 1
      PROVE  /\ q[j + 1] = q[j] + Len(seqs[j]) /\ q[j + 1] <= q[k + 2]
             /\ \A i \in 1..Len(seqs[j]) : both[q[j] + i] = seqs[j][i]
  <2>1. CASE j = k + 1
    <3>1. j + 1 = k + 2 /\ seqs[j] = part /\ q[j] = o[k + 1]
      BY <1>1, <1>5, <2>1
    <3>2. q[j + 1] \in Nat
      BY <1>1, <1>5, <3>1
    <3>3. q[j + 1] = q[j] + Len(seqs[j])
      BY <1>5, <3>1
    <3>4. q[j + 1] <= q[k + 2]
      BY <3>1, <3>2
    <3>5. \A i \in 1..Len(seqs[j]) : both[q[j] + i] = seqs[j][i]
      BY <1>4, <3>1
    <3> QED BY <3>3, <3>4, <3>5
  <2>2. CASE j # k + 1
    <3>1. j \in 1..k /\ j + 1 \in 1..k + 1
      BY <2>2
    <3>2. q[j + 1] = o[j + 1] /\ q[j] = o[j] /\ o[j] \in Nat /\ o[j + 1] \in Nat
      BY <1>2, <1>5, <3>1
    <3>3. o[j + 1] = o[j] + Len(seqs[j]) /\ o[j + 1] <= o[k + 1]
      BY <1>2, <3>1
    <3>4. Len(seqs[j]) \in Nat
      BY <3>1
    <3>5. o[j + 1] <= q[k + 2]
      <4> DEFINE a == o[j + 1]
                 b == o[k + 1]
                 l == Len(part)
                 c == q[k + 2]
      <4>1. a \in Nat /\ b \in Nat /\ l \in Nat /\ a <= b /\ c = b + l
        BY <1>1, <1>3, <1>5, <3>2, <3>3
      <4> HIDE DEF a, b, l, c
      <4>2. a <= c
        BY <4>1, SumBelow
      <4> QED BY <4>2 DEF a, c
    <3>6. ASSUME NEW i \in 1..Len(seqs[j]) PROVE both[q[j] + i] = seqs[j][i]
      <4>1. i \in Nat /\ 1 <= i /\ i <= Len(seqs[j])
        BY <3>4
      <4>2. o[j] + Len(seqs[j]) <= o[k + 1]
        BY <3>3
      <4>3. o[j] + i \in 1..o[k + 1]
        BY <1>3, <3>2, <3>4, <4>1, <4>2, WithinPart
      <4> QED BY <1>2, <1>4, <3>1, <3>2, <4>3
    <3> QED BY <3>2, <3>3, <3>5, <3>6
  <2> QED BY <2>1, <2>2
<1>7. FlatTo(S, seqs, q, k + 1, both)
  <2>1. (k + 1) + 1 = k + 2
    OBVIOUS
  <2> QED BY <1>4, <1>5, <1>6, <2>1 DEF FlatTo
<1> QED BY <1>7 DEF both

LEMMA FlattenSeqLayout ==
    ASSUME NEW S, NEW seqs \in Seq(Seq(S))
    PROVE  FlattenSeq(seqs) \in Seq(S) /\ \E o : Flattened(seqs, o, FlattenSeq(seqs))
<1>1. Len(seqs) \in Nat /\ \A i \in 1..Len(seqs) : seqs[i] \in Seq(S)
  OBVIOUS
<1>2. CASE Len(seqs) = 0
  <2>1. seqs = <<>> /\ FlattenSeq(seqs) = <<>>
    BY <1>2 DEF FlattenSeq
  <2> DEFINE o == [k \in 1..1 |-> 0]
  <2>2. o \in [1..1 -> Nat] /\ o[1] = 0
    OBVIOUS
  <2> HIDE DEF o
  <2>3. Len(seqs) + 1 = 1 /\ Len(<<>>) = 0 /\ 1..Len(seqs) = {}
    BY <1>2
  <2>4. Layout(seqs, o) /\ o[Len(seqs) + 1] = 0
    BY <2>2, <2>3 DEF Layout
  <2>5. Len(FlattenSeq(seqs)) = o[Len(seqs) + 1]
    BY <2>1, <2>3, <2>4
  <2>6. Flattened(seqs, o, FlattenSeq(seqs))
    BY <2>3, <2>4, <2>5 DEF Flattened
  <2>7. FlattenSeq(seqs) \in Seq(S)
    <3>1. <<>> \in Seq(S)
      BY EmptySeq
    <3>2. FlattenSeq(seqs) = <<>>
      BY <2>1
    <3> QED BY <3>1, <3>2
  <2> QED BY <2>6, <2>7
<1>3. CASE Len(seqs) # 0
  <2>1. PICK f : /\ \A i \in 1..Len(seqs) : f[i] = IF i = 1 THEN seqs[i] ELSE f[i - 1] \o seqs[i]
                 /\ FlattenSeq(seqs) = f[Len(seqs)]
    BY <1>1, <1>3, FlattenUnfolds
  <2> DEFINE T == {k \in 1..Len(seqs) : \E o : FlatTo(S, seqs, o, k, f[k])}
  <2>2. 1 \in T
    <3>1. 1 \in 1..Len(seqs) /\ f[1] = seqs[1] /\ seqs[1] \in Seq(S)
      BY <1>1, <1>3, <2>1
    <3> DEFINE o == [j \in 1..2 |-> IF j = 1 THEN 0 ELSE Len(seqs[1])]
    <3>2. o \in [1..2 -> Nat] /\ o[1] = 0 /\ o[2] = Len(seqs[1]) /\ Len(seqs[1]) \in Nat
      BY <3>1
    <3> HIDE DEF o
    <3>3. FlatTo(S, seqs, o, 1, f[1])
      <4>1. ASSUME NEW j \in 1..1 PROVE j = 1
        OBVIOUS
      <4>2. \A i \in 1..Len(seqs[1]) : 0 + i = i
        OBVIOUS
      <4> QED BY <3>1, <3>2, <4>1, <4>2 DEF FlatTo
    <3> QED BY <3>1, <3>3
  <2>3. ASSUME NEW k \in 1..Len(seqs), k \in T, k < Len(seqs) PROVE k + 1 \in T
    <3>1. k + 1 \in 1..Len(seqs) /\ k + 1 # 1 /\ (k + 1) - 1 = k /\ k \in Nat
      BY <1>1, <2>3
    <3>2. f[k + 1] = f[k] \o seqs[k + 1]
      BY <2>1, <3>1
    <3>3. PICK o : FlatTo(S, seqs, o, k, f[k])
      BY <2>3
    <3>4. \E q : FlatTo(S, seqs, q, k + 1, f[k] \o seqs[k + 1])
      BY <3>1, <3>3, FlatNext
    <3> QED BY <3>1, <3>2, <3>4
  <2> HIDE DEF T
  <2>4. Len(seqs) \in T
    <3>1. Len(seqs) \in Nat \ {0} /\ Len(seqs) \in 1..Len(seqs)
      BY <1>1, <1>3
    <3> QED BY <2>2, <2>3, <3>1, Counted
  <2>5. PICK o : FlatTo(S, seqs, o, Len(seqs), f[Len(seqs)])
    BY <2>4 DEF T
  <2>6. Flattened(seqs, o, FlattenSeq(seqs)) /\ FlattenSeq(seqs) \in Seq(S)
    BY <2>1, <2>5 DEF FlatTo, Flattened, Layout
  <2> QED BY <2>6
<1> QED BY <1>2, <1>3

-----------------------------------------------------------------------------
(* Sums, and the parts of a sum: o adds up d.                              *)
Sums(n, d, o) ==
    /\ n \in Nat /\ d \in [1..n -> Nat]
    /\ o \in [1..n + 1 -> Nat] /\ o[1] = 0
    /\ \A k \in 1..n : o[k + 1] = o[k] + d[k]

LEMMA SumsGrow ==
    ASSUME NEW n, NEW d, NEW o, Sums(n, d, o), NEW j \in 1..n + 1, NEW k \in 1..n + 1, j <= k
    PROVE  o[j] <= o[k] /\ o[j] \in Nat /\ o[k] \in Nat
<1>1. n \in Nat /\ \A i \in 1..n + 1 : o[i] \in Nat
  BY DEF Sums
<1> DEFINE T == {i \in 1..n + 1 : j <= i => o[j] <= o[i]}
<1>2. 1 \in T
  <2>1. 1 \in 1..n + 1 /\ (j <= 1 => j = 1)
    BY <1>1
  <2>2. o[1] <= o[1]
    BY <1>1, <2>1
  <2> QED BY <2>1, <2>2
<1>3. ASSUME NEW i \in 1..n + 1, i \in T, i < n + 1 PROVE i + 1 \in T
  <2>1. i \in 1..n /\ i + 1 \in 1..n + 1
    BY <1>1, <1>3
  <2>2. o[i + 1] = o[i] + d[i] /\ d[i] \in Nat
    BY <2>1 DEF Sums
  <2>3. o[i] \in Nat /\ o[i + 1] \in Nat /\ o[j] \in Nat
    BY <1>1, <2>1
  <2>4. CASE j <= i
    <3>1. o[j] <= o[i]
      BY <1>3, <2>4
    <3>2. o[j] <= o[i + 1]
      BY <2>2, <2>3, <3>1
    <3> QED BY <2>1, <3>2
  <2>5. CASE ~(j <= i)
    <3>1. j <= i + 1 => j = i + 1
      BY <1>1, <2>1, <2>5
    <3>2. o[i + 1] <= o[i + 1]
      BY <2>3
    <3> QED BY <2>1, <3>1, <3>2
  <2> QED BY <2>4, <2>5
<1> HIDE DEF T
<1>4. k \in T
  <2>1. n + 1 \in Nat \ {0}
    BY <1>1
  <2> DEFINE q == n + 1
  <2>2. \A i \in 1..q : i \in T /\ i < q => i + 1 \in T
    BY <1>3
  <2> HIDE DEF q
  <2>3. \A i \in 1..q : i \in T
    BY <1>2, <2>1, <2>2, Counted DEF q
  <2> QED BY <2>3 DEF q
<1> QED BY <1>1, <1>4 DEF T

LEMMA SumsUnique ==
    ASSUME NEW n, NEW d, NEW o, NEW q, Sums(n, d, o), Sums(n, d, q)
    PROVE  \A k \in 1..n + 1 : o[k] = q[k]
<1>1. n \in Nat
  BY DEF Sums
<1> DEFINE T == {i \in 1..n + 1 : o[i] = q[i]}
           z == n + 1
<1>2. 1 \in T
  BY <1>1 DEF Sums
<1>3. ASSUME NEW i \in 1..z, i \in T, i < z PROVE i + 1 \in T
  <2>1. i \in 1..n /\ i + 1 \in 1..n + 1
    BY <1>1, <1>3
  <2>2. o[i + 1] = o[i] + d[i] /\ q[i + 1] = q[i] + d[i]
    BY <2>1 DEF Sums
  <2>3. o[i] = q[i]
    BY <1>3
  <2> QED BY <2>1, <2>2, <2>3
<1>4. z \in Nat \ {0}
  BY <1>1
<1> HIDE DEF T, z
<1>5. \A k \in 1..z : k \in T
  BY <1>2, <1>3, <1>4, Counted
<1> QED BY <1>5 DEF T, z

(* Each number up to the sum lies in one of the parts. *)
LEMMA SumsLocate ==
    ASSUME NEW n, NEW d, NEW o, Sums(n, d, o), NEW x \in Nat, x < o[n + 1]
    PROVE  \E k \in 1..n : \E i \in 0..d[k] - 1 : x = o[k] + i
<1>1. n \in Nat /\ (\A i \in 1..n + 1 : o[i] \in Nat) /\ n + 1 \in 1..n + 1
  BY DEF Sums
<1> DEFINE T == {i \in 1..n + 1 : x < o[i]}
<1>2. T \subseteq Nat /\ T # {}
  BY <1>1
<1>3. PICK k \in T : \A y \in T : k <= y
  <2> HIDE DEF T
  <2> QED BY <1>2, Least
<1>4. k \in 1..n + 1 /\ x < o[k]
  OBVIOUS
<1>5. k # 1
  <2>1. o[1] = 0
    BY DEF Sums
  <2> QED BY <1>4, <2>1
<1>6. k - 1 \in 1..n /\ (k - 1) + 1 = k /\ k - 1 \in 1..n + 1
  BY <1>1, <1>4, <1>5
<1>7. k - 1 \notin T
  <2>1. ~(k <= k - 1)
    BY <1>6
  <2> QED BY <1>3, <2>1
<1>8. o[k - 1] <= x /\ o[k - 1] \in Nat
  BY <1>1, <1>6, <1>7
<1>9. o[k] = o[k - 1] + d[k - 1] /\ d[k - 1] \in Nat
  BY <1>6 DEF Sums
<1> DEFINE i == x - o[k - 1]
<1>10. i \in 0..d[k - 1] - 1 /\ x = o[k - 1] + i
  BY <1>4, <1>8, <1>9
<1> HIDE DEF i
<1> QED BY <1>6, <1>10

LEMMA LayoutSums ==
    ASSUME NEW S, NEW seqs \in Seq(Seq(S)), NEW o, Layout(seqs, o)
    PROVE  Sums(Len(seqs), [k \in 1..Len(seqs) |-> Len(seqs[k])], o)
<1>1. Len(seqs) \in Nat /\ \A k \in 1..Len(seqs) : Len(seqs[k]) \in Nat
  OBVIOUS
<1> QED BY <1>1 DEF Sums, Layout

-----------------------------------------------------------------------------
(* The bytes of a message. *)
LEMMA FunctionSeq ==
    ASSUME NEW S, NEW n \in Nat, NEW f \in [1..n -> S]
    PROVE  f \in Seq(S) /\ Len(f) = n
OBVIOUS

LEMMA ByteFacts == /\ Prefix \in Seq(Byte) /\ 0 \in Byte /\ Space \in Byte /\ Cr \in Byte /\ Byte \subseteq Nat
BY MessageAssumption, ScanAssumption

LEMMA MessageFacts ==
    ASSUME NEW text \in BOOLEAN, NEW m \in Message[text]
    PROVE  /\ NameTable[text] \in Seq(Seq(Byte)) /\ m.id \in 1..Len(NameTable[text])
           /\ NameTable[text][m.id] \in Seq(Byte) /\ Len(NameTable[text][m.id]) \in Nat
           /\ m.args \in Seq(Seq(Byte)) /\ Len(m.args) \in Nat /\ DOMAIN m.args = 1..Len(m.args)
           /\ \A k \in 1..Len(m.args) : m.args[k] \in Seq(Byte) /\ Len(m.args[k]) \in Nat \ {0}
           /\ ~text => Len(m.args) \in Byte /\ \A k \in 1..Len(m.args) : Len(m.args[k]) \in Byte
<1>1. NameTable[text] \in Seq(Seq(Byte))
  BY ScanAssumption
<1>2. m.id \in DOMAIN NameTable[text] /\ m.args \in Seq(Seq(Byte) \ {<<>>})
      /\ (text \/ (Len(m.args) \in Byte /\ \A k \in DOMAIN m.args : Len(m.args[k]) \in Byte))
  BY MessageAssumption
<1>3. m.id \in 1..Len(NameTable[text])
  BY <1>1, <1>2
<1>4. NameTable[text][m.id] \in Seq(Byte)
  BY <1>1, <1>3
<1>5. m.args \in Seq(Seq(Byte)) /\ Len(m.args) \in Nat /\ DOMAIN m.args = 1..Len(m.args)
  BY <1>2
<1>6. ASSUME NEW k \in 1..Len(m.args) PROVE m.args[k] \in Seq(Byte) /\ Len(m.args[k]) \in Nat \ {0}
  <2>1. m.args[k] \in Seq(Byte) \ {<<>>}
    BY <1>2
  <2> QED BY <2>1
<1>7. ~text => Len(m.args) \in Byte /\ \A k \in 1..Len(m.args) : Len(m.args[k]) \in Byte
  BY <1>2, <1>5
<1>8. Len(NameTable[text][m.id]) \in Nat
  BY <1>4
<1> QED BY <1>1, <1>3, <1>4, <1>5, <1>6, <1>7, <1>8

(* What is enqueued for a message, byte by byte; arguments begin where oa  *)
(* has it, not counting what is sent in between.                           *)
ArgsAt(m, oa) == Flattened(m.args, oa, FlattenSeq(m.args))

TopicShape(m, s, oa) ==
    LET name == NameTable[FALSE][m.id]
        base == Len(Prefix) + Len(name) + 1
    IN  /\ s \in Seq(Byte) /\ Len(s) = base + 2 * Len(m.args) + oa[Len(m.args) + 1]
        /\ \A i \in 1..Len(name) : s[Len(Prefix) + i] = name[i]
        /\ s[base] = Len(m.args)
        /\ \A r \in 1..Len(m.args) :
              /\ s[base + 2 * (r - 1) + oa[r] + 1] = Len(m.args[r])
              /\ s[base + 2 * (r - 1) + oa[r] + 2] = 0
              /\ \A i \in 1..Len(m.args[r]) : s[base + 2 * (r - 1) + oa[r] + 2 + i] = m.args[r][i]

LineShape(m, s, oa) ==
    LET name == NameTable[TRUE][m.id]
        base == Len(name)
    IN  /\ s \in Seq(Byte) /\ Len(s) = base + Len(m.args) + oa[Len(m.args) + 1] + 1
        /\ \A i \in 1..Len(name) : s[i] = name[i]
        /\ \A r \in 1..Len(m.args) :
              /\ s[base + (r - 1) + oa[r] + 1] = Space
              /\ \A i \in 1..Len(m.args[r]) : s[base + r + oa[r] + i] = m.args[r][i]
        /\ s[Len(s)] = Cr

Paired(S, n, x, y, flat) ==
    /\ flat \in Seq(S) /\ Len(flat) = 2 * n
    /\ \A k \in 1..n : flat[2 * k - 1] = x[k] /\ flat[2 * k] = y[k]

LEMMA PairsFlatten ==
    ASSUME NEW S, NEW n \in Nat, NEW x \in [1..n -> S], NEW y \in [1..n -> S]
    PROVE  Paired(S, n, x, y, FlattenSeq([k \in 1..n |-> <<x[k], y[k]>>]))
<1> DEFINE P == [k \in 1..n |-> <<x[k], y[k]>>]
           flat == FlattenSeq(P)
<1>1. \A k \in 1..n : P[k] \in Seq(S) /\ Len(P[k]) = 2 /\ P[k][1] = x[k] /\ P[k][2] = y[k]
  OBVIOUS
<1>2. P \in [1..n -> Seq(S)]
  BY <1>1
<1> HIDE DEF P
<1>3. P \in Seq(Seq(S)) /\ Len(P) = n
  BY <1>2, FunctionSeq
<1>4. flat \in Seq(S) /\ \E o : Flattened(P, o, flat)
  BY <1>3, FlattenSeqLayout
<1>5. PICK o : Flattened(P, o, flat)
  BY <1>4
<1> HIDE DEF flat
<1> DEFINE d == [k \in 1..n |-> 2]
           q == [k \in 1..n + 1 |-> 2 * k - 2]
<1>6. Sums(n, d, o)
  <2>1. Layout(P, o)
    BY <1>5 DEF Flattened
  <2>2. o \in [1..n + 1 -> Nat] /\ o[1] = 0 /\ \A k \in 1..n : o[k + 1] = o[k] + 2
    BY <1>1, <1>3, <2>1 DEF Layout
  <2> QED BY <2>2 DEF Sums
<1>7. Sums(n, d, q)
  <2>1. q \in [1..n + 1 -> Nat] /\ q[1] = 0
    OBVIOUS
  <2>2. ASSUME NEW k \in 1..n PROVE q[k + 1] = q[k] + d[k]
    OBVIOUS
  <2>3. d \in [1..n -> Nat]
    OBVIOUS
  <2> HIDE DEF d, q
  <2> QED BY <2>1, <2>2, <2>3 DEF Sums
<1>8. \A k \in 1..n + 1 : o[k] = 2 * k - 2
  <2> HIDE DEF d
  <2>1. \A k \in 1..n + 1 : q[k] = 2 * k - 2
    OBVIOUS
  <2> HIDE DEF q
  <2>2. \A k \in 1..n + 1 : o[k] = q[k]
    BY <1>6, <1>7, SumsUnique
  <2> QED BY <2>1, <2>2
<1>9. Len(flat) = 2 * n
  <2>1. Len(flat) = o[n + 1] /\ n + 1 \in 1..n + 1
    BY <1>3, <1>5 DEF Flattened
  <2> QED BY <1>8, <2>1
<1>10. ASSUME NEW k \in 1..n PROVE flat[2 * k - 1] = x[k] /\ flat[2 * k] = y[k]
  <2>1. \A i \in 1..Len(P[k]) : flat[o[k] + i] = P[k][i]
    BY <1>3, <1>5 DEF Flattened
  <2>2. flat[o[k] + 1] = x[k] /\ flat[o[k] + 2] = y[k]
    <3>1. Len(P[k]) = 2 /\ P[k][1] = x[k] /\ P[k][2] = y[k]
      BY <1>1
    <3>2. 1 \in 1..2 /\ 2 \in 1..2
      OBVIOUS
    <3>3. flat[o[k] + 1] = P[k][1] /\ flat[o[k] + 2] = P[k][2]
      BY <2>1, <3>1, <3>2
    <3> QED BY <3>1, <3>3
  <2>3. o[k] + 1 = 2 * k - 1 /\ o[k] + 2 = 2 * k
    BY <1>8
  <2> QED BY <2>2, <2>3
<1>11. flat \in Seq(S)
  BY <1>4
<1> QED BY <1>9, <1>10, <1>11 DEF flat, P, Paired

LEMMA SingletonsFlatten ==
    ASSUME NEW S, NEW s \in Seq(S)
    PROVE  FlattenSeq([k \in DOMAIN s |-> <<s[k]>>]) = s
<1> DEFINE P == [k \in DOMAIN s |-> <<s[k]>>]
           flat == FlattenSeq(P)
           n == Len(s)
<1>0. n \in Nat /\ DOMAIN s = 1..n
  OBVIOUS
<1>1. \A k \in 1..n : P[k] \in Seq(S) /\ Len(P[k]) = 1 /\ P[k][1] = s[k]
  BY <1>0
<1>2. P \in [1..n -> Seq(S)]
  BY <1>0, <1>1
<1> HIDE DEF P, n
<1>3. P \in Seq(Seq(S)) /\ Len(P) = n
  BY <1>0, <1>2, FunctionSeq
<1>4. flat \in Seq(S) /\ \E o : Flattened(P, o, flat)
  BY <1>3, FlattenSeqLayout
<1>5. PICK o : Flattened(P, o, flat)
  BY <1>4
<1> HIDE DEF flat
<1> DEFINE d == [k \in 1..n |-> 1]
           q == [k \in 1..n + 1 |-> k - 1]
<1>6. Sums(n, d, o)
  <2>1. Layout(P, o)
    BY <1>5 DEF Flattened
  <2>2. o \in [1..n + 1 -> Nat] /\ o[1] = 0 /\ \A k \in 1..n : o[k + 1] = o[k] + 1
    BY <1>1, <1>3, <2>1 DEF Layout
  <2> QED BY <1>0, <2>2 DEF Sums
<1>7. Sums(n, d, q)
  <2>1. q \in [1..n + 1 -> Nat] /\ q[1] = 0
    BY <1>0
  <2>2. ASSUME NEW k \in 1..n PROVE q[k + 1] = q[k] + d[k]
    BY <1>0
  <2>3. d \in [1..n -> Nat]
    OBVIOUS
  <2> HIDE DEF d, q
  <2> QED BY <1>0, <2>1, <2>2, <2>3 DEF Sums
<1>8. \A k \in 1..n + 1 : o[k] = k - 1
  <2> HIDE DEF d
  <2>1. \A k \in 1..n + 1 : q[k] = k - 1
    OBVIOUS
  <2> HIDE DEF q
  <2>2. \A k \in 1..n + 1 : o[k] = q[k]
    BY <1>6, <1>7, SumsUnique
  <2> QED BY <2>1, <2>2
<1>9. Len(flat) = n
  <2>1. Len(flat) = o[n + 1] /\ n + 1 \in 1..n + 1
    BY <1>0, <1>3, <1>5 DEF Flattened
  <2> QED BY <1>0, <1>8, <2>1
<1>10. ASSUME NEW k \in 1..n PROVE flat[k] = s[k]
  <2>1. \A i \in 1..Len(P[k]) : flat[o[k] + i] = P[k][i]
    BY <1>3, <1>5 DEF Flattened
  <2>2. flat[o[k] + 1] = s[k]
    BY <1>1, <2>1
  <2>3. o[k] + 1 = k
    BY <1>0, <1>8
  <2> QED BY <2>2, <2>3
<1>11. flat \in Seq(S)
  BY <1>4
<1>12. flat = s
  BY <1>9, <1>10, <1>11, SeqEqual DEF n
<1> QED BY <1>12 DEF flat, P

LEMMA ArgsSums ==
    ASSUME NEW text \in BOOLEAN, NEW m \in Message[text], NEW oa, ArgsAt(m, oa)
    PROVE  /\ Sums(Len(m.args), [k \in 1..Len(m.args) |-> Len(m.args[k])], oa)
           /\ oa \in [1..Len(m.args) + 1 -> Nat] /\ oa[1] = 0
           /\ \A k \in 1..Len(m.args) : oa[k + 1] = oa[k] + Len(m.args[k])
           /\ Len(FlattenSeq(m.args)) = oa[Len(m.args) + 1]
<1>1. m.args \in Seq(Seq(Byte))
  BY MessageFacts
<1>2. Layout(m.args, oa) /\ Len(FlattenSeq(m.args)) = oa[Len(m.args) + 1]
  BY DEF ArgsAt, Flattened
<1>3. Sums(Len(m.args), [k \in 1..Len(m.args) |-> Len(m.args[k])], oa)
  BY <1>1, <1>2, LayoutSums
<1> QED BY <1>2, <1>3 DEF Layout

LEMMA TopicSent ==
    ASSUME NEW m \in Message[FALSE]
    PROVE  /\ TopicBlocks(m) \in Seq(Seq(Byte)) /\ Len(TopicBlocks(m)) > 0
           /\ \E oa : ArgsAt(m, oa) /\ TopicShape(m, Sent(FALSE, m), oa)
<1> DEFINE name == NameTable[FALSE][m.id]
           args == m.args
           n == Len(args)
           x == [k \in 1..n |-> <<Len(args[k]), 0>>]
           y == [k \in 1..n |-> args[k]]
           pairs == FlattenSeq([k \in 1..n |-> <<x[k], y[k]>>])
           B == TopicBlocks(m)
           s == Sent(FALSE, m)
           base == Len(Prefix) + Len(name) + 1
<1>1. /\ name \in Seq(Byte) /\ Len(name) \in Nat /\ n \in Nat /\ n \in Byte /\ DOMAIN args = 1..n
      /\ args \in Seq(Seq(Byte))
      /\ \A k \in 1..n : args[k] \in Seq(Byte) /\ Len(args[k]) \in Nat /\ Len(args[k]) \in Byte
  BY MessageFacts
<1>2. Prefix \in Seq(Byte) /\ Len(Prefix) \in Nat /\ 0 \in Byte
  BY ByteFacts
<1>3. /\ pairs \in Seq(Seq(Byte)) /\ Len(pairs) = 2 * n
      /\ \A k \in 1..n : pairs[2 * k - 1] = <<Len(args[k]), 0>> /\ pairs[2 * k] = args[k]
  <2>1. x \in [1..n -> Seq(Byte)] /\ y \in [1..n -> Seq(Byte)]
    BY <1>1, <1>2
  <2>2. \A k \in 1..n : x[k] = <<Len(args[k]), 0>> /\ y[k] = args[k]
    OBVIOUS
  <2> HIDE DEF x, y
  <2>3. /\ pairs \in Seq(Seq(Byte)) /\ Len(pairs) = 2 * n
        /\ \A k \in 1..n : pairs[2 * k - 1] = x[k] /\ pairs[2 * k] = y[k]
    <3>1. n \in Nat
      BY <1>1
    <3> HIDE DEF n
    <3>2. Paired(Seq(Byte), n, x, y, pairs)
      BY <2>1, <3>1, PairsFlatten
    <3> QED BY <3>2 DEF Paired
  <2> QED BY <2>2, <2>3
<1>4. B = <<Prefix \o name, <<n>>>> \o pairs
  <2>1. \A k \in 1..n : <<x[k], y[k]>> = <<<<Len(m.args[k]), 0>>, m.args[k]>>
    OBVIOUS
  <2> HIDE DEF x, y
  <2>2. [k \in 1..n |-> <<x[k], y[k]>>] = [k \in DOMAIN m.args |-> <<<<Len(m.args[k]), 0>>, m.args[k]>>]
    BY <1>1, <2>1
  <2> QED BY <2>2 DEF TopicBlocks
<1> HIDE DEF pairs, B, name
<1> DEFINE two == <<Prefix \o name, <<n>>>>
<1>5. two \in Seq(Seq(Byte)) /\ Len(two) = 2 /\ two[1] = Prefix \o name /\ two[2] = <<n>>
  <2> DEFINE a == Prefix \o name
             b == <<n>>
  <2>1. a \in Seq(Byte)
    BY <1>1, <1>2, Joined
  <2>2. b \in Seq(Byte)
    <3> HIDE DEF n
    <3> QED BY <1>1
  <2> HIDE DEF a, b
  <2>3. <<a, b>> \in Seq(Seq(Byte)) /\ Len(<<a, b>>) = 2
    BY <2>1, <2>2
  <2> QED BY <2>3 DEF a, b
<1> HIDE DEF two
<1>6. /\ B \in Seq(Seq(Byte)) /\ Len(B) = 2 + 2 * n
      /\ B[1] = Prefix \o name /\ B[2] = <<n>>
      /\ \A i \in 1..2 * n : B[2 + i] = pairs[i]
  <2>1. B = two \o pairs
    BY <1>4 DEF two
  <2>2. B \in Seq(Seq(Byte)) /\ Len(B) = Len(two) + Len(pairs) /\ \A i \in 1..Len(two) : B[i] = two[i]
    <3> DEFINE S == Seq(Byte)
    <3>1. two \in Seq(S) /\ pairs \in Seq(S)
      BY <1>3, <1>5
    <3> HIDE DEF S
    <3>2. /\ two \o pairs \in Seq(S) /\ Len(two \o pairs) = Len(two) + Len(pairs)
          /\ \A i \in 1..Len(two) : (two \o pairs)[i] = two[i]
      BY <3>1, Joined
    <3> QED BY <2>1, <3>2 DEF S
  <2>4. \A i \in 1..Len(pairs) : B[Len(two) + i] = pairs[i]
    <3>1. \A i \in 1..Len(pairs) : (two \o pairs)[Len(two) + i] = pairs[i]
      <4> DEFINE S == Seq(Byte)
      <4>1. two \in Seq(S) /\ pairs \in Seq(S)
        BY <1>3, <1>5
      <4> HIDE DEF S
      <4> QED BY <4>1, Joined
    <3> QED BY <2>1, <3>1
  <2>5. 1 \in 1..Len(two) /\ 2 \in 1..Len(two)
    BY <1>5
  <2> QED BY <1>3, <1>5, <2>2, <2>4, <2>5
<1>7. \A k \in 1..n : B[2 * k + 1] = <<Len(args[k]), 0>> /\ B[2 * k + 2] = args[k]
  <2> TAKE k \in 1..n
  <2>1. 2 * k - 1 \in 1..2 * n /\ 2 * k \in 1..2 * n /\ 2 + (2 * k - 1) = 2 * k + 1 /\ 2 + 2 * k = 2 * k + 2
    BY <1>1
  <2>2. B[2 + (2 * k - 1)] = pairs[2 * k - 1] /\ B[2 + 2 * k] = pairs[2 * k]
    BY <1>6, <2>1
  <2> QED BY <1>3, <2>1, <2>2
<1>8. s \in Seq(Byte) /\ \E ob : Flattened(B, ob, s)
  <2>1. s = FlattenSeq(B)
    BY DEF Sent, B
  <2> QED BY <1>6, <2>1, FlattenSeqLayout
<1> HIDE DEF s
<1>9. PICK ob : Flattened(B, ob, s)
  BY <1>8
<1>10. /\ ob \in [1..2 * n + 3 -> Nat] /\ ob[1] = 0 /\ Len(s) = ob[2 * n + 3]
       /\ \A k \in 1..2 * n + 2 : ob[k + 1] = ob[k] + Len(B[k])
       /\ \A k \in 1..2 * n + 2 : \A i \in 1..Len(B[k]) : s[ob[k] + i] = B[k][i]
  <2>1. Len(B) + 1 = 2 * n + 3 /\ Len(B) = 2 * n + 2
    BY <1>1, <1>6
  <2> QED BY <1>9, <2>1 DEF Flattened, Layout
<1>11. PICK oa : ArgsAt(m, oa)
  BY <1>1, FlattenSeqLayout DEF ArgsAt
<1>12. /\ oa \in [1..n + 1 -> Nat] /\ oa[1] = 0
       /\ \A k \in 1..n : oa[k + 1] = oa[k] + Len(args[k])
  BY <1>11, ArgsSums
<1> HIDE DEF n
<1>13. ob[2] = Len(Prefix) + Len(name) /\ ob[3] = base
  <2>1. 1 \in 1..2 * n + 2 /\ 2 \in 1..2 * n + 2
    BY <1>1
  <2>2. ob[1 + 1] = ob[1] + Len(B[1]) /\ ob[2 + 1] = ob[2] + Len(B[2])
    BY <1>10, <2>1
  <2>3. Len(B[1]) = Len(Prefix) + Len(name) /\ Len(B[2]) = 1
    BY <1>1, <1>2, <1>6, Joined
  <2>4. ob[1] = 0
    BY <1>10
  <2>5. ob[2] = ob[1] + Len(B[1]) /\ ob[3] = ob[2] + Len(B[2])
    BY <2>2
  <2> QED BY <1>1, <1>2, <2>3, <2>4, <2>5
<1>14. base \in Nat
  <2>1. Len(Prefix) \in Nat /\ Len(name) \in Nat
    BY <1>1, <1>2
  <2> QED BY <2>1
<1> HIDE DEF base
<1>15. ASSUME NEW k \in 1..n PROVE ob[2 * k + 2] = ob[2 * k + 1] + 2 /\ ob[2 * k + 3] = ob[2 * k + 2] + Len(args[k])
  <2>1. 2 * k + 1 \in 1..2 * n + 2 /\ 2 * k + 2 \in 1..2 * n + 2
        /\ (2 * k + 1) + 1 = 2 * k + 2 /\ (2 * k + 2) + 1 = 2 * k + 3
    BY <1>1
  <2>2. Len(B[2 * k + 1]) = 2 /\ B[2 * k + 2] = args[k]
    <3>1. Len(<<Len(args[k]), 0>>) = 2
      OBVIOUS
    <3> HIDE DEF args
    <3> QED BY <1>7, <3>1
  <2>3. ob[(2 * k + 1) + 1] = ob[2 * k + 1] + Len(B[2 * k + 1]) /\ ob[(2 * k + 2) + 1] = ob[2 * k + 2] + Len(B[2 * k + 2])
    BY <1>10, <2>1
  <2> QED BY <2>1, <2>2, <2>3
<1> DEFINE T == {k \in 1..n + 1 : ob[2 * k + 1] = base + 2 * (k - 1) + oa[k]}
           z == n + 1
<1>16. 1 \in T
  <2>1. 1 \in 1..n + 1 /\ 2 * 1 + 1 = 3 /\ base + 2 * (1 - 1) + 0 = base
    BY <1>1, <1>14
  <2> QED BY <1>12, <1>13, <2>1
<1>17. ASSUME NEW k \in 1..z, k \in T, k < z PROVE k + 1 \in T
  <2>1. k \in 1..n /\ k + 1 \in 1..n + 1 /\ 2 * (k + 1) + 1 = 2 * k + 3
    BY <1>1, <1>17
  <2>2. ob[2 * k + 1] = base + 2 * (k - 1) + oa[k]
    BY <1>17
  <2>3. ob[2 * k + 3] = ob[2 * k + 1] + 2 + Len(args[k])
    <3>1. ob[2 * k + 1] \in Nat /\ Len(args[k]) \in Nat
      <4>1. 2 * k + 1 \in 1..2 * n + 3
        BY <1>1, <2>1
      <4> QED BY <1>1, <1>10, <2>1, <4>1
    <3> QED BY <1>15, <2>1, <3>1
  <2>4. oa[k + 1] = oa[k] + Len(args[k]) /\ oa[k] \in Nat /\ Len(args[k]) \in Nat
    BY <1>1, <1>12, <2>1
  <2>5. ob[2 * k + 3] = base + 2 * ((k + 1) - 1) + oa[k + 1]
    <3> DEFINE l == Len(args[k])
               a == oa[k]
    <3>1. l \in Nat /\ a \in Nat /\ ob[2 * k + 3] = base + 2 * (k - 1) + a + 2 + l /\ oa[k + 1] = a + l
      BY <2>2, <2>3, <2>4
    <3> HIDE DEF l, a
    <3> QED BY <1>14, <2>1, <3>1
  <2> QED BY <2>1, <2>5
<1>18. \A k \in 1..n + 1 : ob[2 * k + 1] = base + 2 * (k - 1) + oa[k]
  <2>1. z \in Nat \ {0}
    BY <1>1
  <2> HIDE DEF T, z
  <2>2. \A k \in 1..z : k \in T
    BY <1>16, <1>17, <2>1, Counted
  <2> QED BY <2>2 DEF T, z
<1>19. Len(s) = base + 2 * n + oa[n + 1]
  <2>1. n + 1 \in 1..n + 1 /\ 2 * (n + 1) + 1 = 2 * n + 3 /\ 2 * ((n + 1) - 1) = 2 * n
    BY <1>1
  <2> QED BY <1>10, <1>18, <2>1
<1>20. ASSUME NEW i \in 1..Len(name) PROVE s[Len(Prefix) + i] = name[i]
  <2>1. 1 \in 1..2 * n + 2
    BY <1>1
  <2>2. B[1] = Prefix \o name /\ Len(B[1]) = Len(Prefix) + Len(name)
    BY <1>1, <1>2, <1>6, Joined
  <2>3. Len(Prefix) + i \in 1..Len(B[1])
    <3>1. Len(Prefix) \in Nat /\ Len(name) \in Nat
      BY <1>1, <1>2
    <3> QED BY <2>2, <3>1
  <2>4. s[ob[1] + (Len(Prefix) + i)] = B[1][Len(Prefix) + i]
    BY <1>10, <2>1, <2>3
  <2>5. B[1][Len(Prefix) + i] = name[i]
    BY <1>1, <1>2, <2>2, Joined
  <2>6. ob[1] = 0 /\ Len(Prefix) + i \in Nat /\ 0 + (Len(Prefix) + i) = Len(Prefix) + i
    BY <1>2, <1>10
  <2> QED BY <2>4, <2>5, <2>6
<1>21. s[base] = n
  <2>1. 2 \in 1..2 * n + 2 /\ B[2] = <<n>> /\ 1 \in 1..Len(B[2])
    BY <1>1, <1>6
  <2>2. s[ob[2] + 1] = B[2][1]
    BY <1>10, <2>1
  <2>3. ob[2] + 1 = base
    BY <1>13 DEF base
  <2> QED BY <2>1, <2>2, <2>3
<1>22. ASSUME NEW r \in 1..n
       PROVE  /\ s[base + 2 * (r - 1) + oa[r] + 1] = Len(args[r])
              /\ s[base + 2 * (r - 1) + oa[r] + 2] = 0
              /\ \A i \in 1..Len(args[r]) : s[base + 2 * (r - 1) + oa[r] + 2 + i] = args[r][i]
  <2>1. 2 * r + 1 \in 1..2 * n + 2 /\ 2 * r + 2 \in 1..2 * n + 2 /\ r \in 1..n + 1
    BY <1>1
  <2>2. B[2 * r + 1] = <<Len(args[r]), 0>> /\ B[2 * r + 2] = args[r]
    BY <1>7
  <2> DEFINE at == base + 2 * (r - 1) + oa[r]
  <2>3. ob[2 * r + 1] = at /\ ob[2 * r + 2] = at + 2 /\ at \in Nat
    <3>1. oa[r] \in Nat
      BY <1>12, <2>1
    <3> QED BY <1>14, <1>15, <1>18, <2>1, <3>1
  <2> HIDE DEF at
  <2>4. s[at + 1] = Len(args[r]) /\ s[at + 2] = 0
    <3>1. \A i \in 1..Len(B[2 * r + 1]) : s[at + i] = B[2 * r + 1][i]
      BY <1>10, <2>1, <2>3
    <3>2. 1 \in 1..Len(B[2 * r + 1]) /\ 2 \in 1..Len(B[2 * r + 1])
      BY <2>2
    <3>3. s[at + 1] = B[2 * r + 1][1] /\ s[at + 2] = B[2 * r + 1][2]
      BY <3>1, <3>2
    <3> QED BY <2>2, <3>3
  <2>5. \A i \in 1..Len(args[r]) : s[at + 2 + i] = args[r][i]
    BY <1>10, <2>1, <2>2, <2>3
  <2> QED BY <2>4, <2>5 DEF at
<1>23. TopicShape(m, s, oa)
  BY <1>8, <1>19, <1>20, <1>21, <1>22 DEF TopicShape, n, base, name
<1>24. Len(B) > 0
  BY <1>1, <1>6
<1> QED BY <1>6, <1>11, <1>23, <1>24 DEF B, s

LEMMA LineSent ==
    ASSUME NEW m \in Message[TRUE]
    PROVE  /\ LineBytes(m) \in Seq(Seq(Byte)) /\ Len(LineBytes(m)) > 0
           /\ \E oa : ArgsAt(m, oa) /\ LineShape(m, Sent(TRUE, m), oa)
<1> DEFINE name == NameTable[TRUE][m.id]
           args == m.args
           n == Len(args)
           W == [k \in DOMAIN args |-> <<Space>> \o args[k]]
           words == FlattenSeq(W)
           line == name \o words \o <<Cr>>
           s == Sent(TRUE, m)
           base == Len(name)
<1>1. /\ name \in Seq(Byte) /\ base \in Nat /\ n \in Nat /\ DOMAIN args = 1..n
      /\ args \in Seq(Seq(Byte))
      /\ \A k \in 1..n : args[k] \in Seq(Byte) /\ Len(args[k]) \in Nat
  BY MessageFacts
<1>2. Space \in Byte /\ Cr \in Byte /\ <<Space>> \in Seq(Byte) /\ <<Cr>> \in Seq(Byte)
      /\ Len(<<Space>>) = 1 /\ Len(<<Cr>>) = 1 /\ <<Space>>[1] = Space /\ <<Cr>>[1] = Cr
  BY ByteFacts
<1>3. \A k \in 1..n : /\ W[k] \in Seq(Byte) /\ Len(W[k]) = 1 + Len(args[k]) /\ W[k][1] = Space
                      /\ \A i \in 1..Len(args[k]) : W[k][1 + i] = args[k][i]
  <2> TAKE k \in 1..n
  <2>1. W[k] = <<Space>> \o args[k]
    BY <1>1
  <2> DEFINE sp == <<Space>>
  <2>2. sp \in Seq(Byte) /\ Len(sp) = 1 /\ sp[1] = Space /\ W[k] = sp \o args[k]
    BY <1>2, <2>1
  <2> HIDE DEF sp, W, args, n
  <2> DEFINE w == W[k]
             t == args[k]
  <2>3. t \in Seq(Byte) /\ 1 \in 1..1 /\ w = sp \o t
    BY <1>1, <2>2
  <2> HIDE DEF w, t
  <2>4. /\ w \in Seq(Byte) /\ Len(w) = 1 + Len(t) /\ w[1] = sp[1]
        /\ \A i \in 1..Len(t) : w[1 + i] = t[i]
    <3>1. /\ w \in Seq(Byte) /\ Len(w) = Len(sp) + Len(t)
          /\ \A i \in 1..Len(sp) : w[i] = sp[i]
          /\ \A i \in 1..Len(t) : w[Len(sp) + i] = t[i]
      <4>1. sp \in Seq(Byte) /\ t \in Seq(Byte)
        BY <2>2, <2>3
      <4>2. /\ sp \o t \in Seq(Byte) /\ Len(sp \o t) = Len(sp) + Len(t)
            /\ \A i \in 1..Len(sp) : (sp \o t)[i] = sp[i]
            /\ \A i \in 1..Len(t) : (sp \o t)[Len(sp) + i] = t[i]
        BY <4>1, Joined
      <4> QED BY <2>3, <4>2
    <3> QED BY <2>2, <2>3, <3>1
  <2> QED BY <2>2, <2>4 DEF w, t
<1>4. W \in [1..n -> Seq(Byte)]
  BY <1>1, <1>3
<1> HIDE DEF W
<1>5. W \in Seq(Seq(Byte)) /\ Len(W) = n
  <2> HIDE DEF n
  <2> QED BY <1>1, <1>4, FunctionSeq
<1>6. words \in Seq(Byte) /\ \E o : Flattened(W, o, words)
  BY <1>5, FlattenSeqLayout
<1>7. PICK ow : Flattened(W, ow, words)
  BY <1>6
<1> HIDE DEF words
<1>8. PICK oa : ArgsAt(m, oa)
  BY <1>1, FlattenSeqLayout DEF ArgsAt
<1>9. /\ oa \in [1..n + 1 -> Nat] /\ oa[1] = 0
      /\ \A k \in 1..n : oa[k + 1] = oa[k] + Len(args[k])
  BY <1>8, ArgsSums
<1> HIDE DEF n, name, args
<1>10. /\ ow \in [1..n + 1 -> Nat] /\ ow[1] = 0 /\ Len(words) = ow[n + 1]
       /\ \A k \in 1..n : ow[k + 1] = ow[k] + (1 + Len(args[k]))
       /\ \A k \in 1..n : \A i \in 1..1 + Len(args[k]) : words[ow[k] + i] = W[k][i]
  BY <1>3, <1>5, <1>7 DEF Flattened, Layout
<1> DEFINE T == {k \in 1..n + 1 : ow[k] = (k - 1) + oa[k]}
           z == n + 1
<1>11. 1 \in T
  <2>1. 1 \in 1..n + 1 /\ (1 - 1) + 0 = 0
    BY <1>1
  <2> QED BY <1>9, <1>10, <2>1
<1>12. ASSUME NEW k \in 1..z, k \in T, k < z PROVE k + 1 \in T
  <2>1. k \in 1..n /\ k + 1 \in 1..n + 1
    BY <1>1, <1>12
  <2>2. ow[k] = (k - 1) + oa[k]
    BY <1>12
  <2> DEFINE l == Len(args[k])
             a == oa[k]
  <2>3. l \in Nat /\ a \in Nat /\ oa[k + 1] = a + l /\ ow[k + 1] = (k - 1) + a + (1 + l)
    BY <1>1, <1>9, <1>10, <2>1, <2>2
  <2> HIDE DEF l, a
  <2>4. ow[k + 1] = ((k + 1) - 1) + oa[k + 1]
    BY <2>1, <2>3
  <2> QED BY <2>1, <2>4
<1>13. \A k \in 1..n + 1 : ow[k] = (k - 1) + oa[k]
  <2>1. z \in Nat \ {0}
    BY <1>1
  <2> HIDE DEF T, z
  <2>2. \A k \in 1..z : k \in T
    BY <1>11, <1>12, <2>1, Counted
  <2> QED BY <2>2 DEF T, z
<1>14. Len(words) = n + oa[n + 1] /\ oa[n + 1] \in Nat
  <2>1. n + 1 \in 1..n + 1 /\ (n + 1) - 1 = n
    BY <1>1
  <2>2. ow[n + 1] = n + oa[n + 1]
    BY <1>13, <2>1
  <2> QED BY <1>9, <1>10, <2>1, <2>2
<1> DEFINE head == name \o words
           cr == <<Cr>>
<1>15. /\ head \in Seq(Byte) /\ Len(head) = base + Len(words)
       /\ \A i \in 1..base : head[i] = name[i]
       /\ \A i \in 1..Len(words) : head[base + i] = words[i]
  BY <1>1, <1>6, Joined
<1>16. cr \in Seq(Byte) /\ Len(cr) = 1 /\ cr[1] = Cr
  BY <1>2
<1>17. line = head \o cr
  OBVIOUS
<1> HIDE DEF head, cr, line
<1>18. /\ line \in Seq(Byte) /\ Len(line) = Len(head) + 1 /\ Len(head) \in Nat
       /\ \A i \in 1..Len(head) : line[i] = head[i]
       /\ line[Len(head) + 1] = Cr
  <2>1. 1 \in 1..Len(cr)
    BY <1>16
  <2>2. /\ line \in Seq(Byte) /\ Len(line) = Len(head) + Len(cr) /\ Len(head) \in Nat
        /\ \A i \in 1..Len(head) : line[i] = head[i]
    <3>1. head \in Seq(Byte) /\ cr \in Seq(Byte)
      BY <1>15, <1>16
    <3> QED BY <1>17, <3>1, Joined
  <2>3. \A i \in 1..Len(cr) : (head \o cr)[Len(head) + i] = cr[i]
    <3>1. head \in Seq(Byte) /\ cr \in Seq(Byte)
      BY <1>15, <1>16
    <3> QED BY <3>1, Joined
  <2>4. line[Len(head) + 1] = cr[1]
    BY <1>17, <2>1, <2>3
  <2> QED BY <1>16, <2>2, <2>4
<1>19. LineBytes(m) = [k \in DOMAIN line |-> <<line[k]>>]
  BY DEF LineBytes, line, head, cr, words, W, name, args
<1>20. s = line
  BY <1>18, <1>19, SingletonsFlatten DEF Sent
<1>21. LineBytes(m) \in Seq(Seq(Byte)) /\ Len(LineBytes(m)) = Len(line)
  <2> DEFINE q == Len(line)
  <2>1. q \in Nat /\ DOMAIN line = 1..q
    BY <1>18
  <2>2. \A k \in 1..q : <<line[k]>> \in Seq(Byte)
    BY <1>18
  <2>3. LineBytes(m) \in [1..q -> Seq(Byte)]
    <3> HIDE DEF q
    <3> QED BY <1>19, <2>1, <2>2
  <2> HIDE DEF q
  <2>4. LineBytes(m) \in Seq(Seq(Byte)) /\ Len(LineBytes(m)) = q
    BY <2>1, <2>3, FunctionSeq
  <2> QED BY <2>4 DEF q
<1> HIDE DEF s
<1>22. Len(line) = base + n + oa[n + 1] + 1 /\ Len(head) = base + n + oa[n + 1]
  <2>1. base \in Nat /\ n \in Nat
    BY <1>1 DEF base
  <2>2. Len(head) = base + Len(words) /\ Len(line) = Len(head) + 1
    BY <1>15, <1>18 DEF base
  <2> DEFINE w == Len(words)
             h == Len(head)
             l == Len(line)
             e == oa[n + 1]
  <2>3. w = n + e /\ e \in Nat /\ h = base + w /\ l = h + 1
    BY <1>14, <2>2
  <2> HIDE DEF base, w, h, l, e
  <2>4. l = base + n + e + 1 /\ h = base + n + e
    BY <2>1, <2>3, LineSize
  <2> QED BY <2>4 DEF l, h, e
<1>base. base \in Nat
  BY <1>1
<1> HIDE DEF base
<1>23. \A i \in 1..base : line[i] = name[i]
  <2>1. \A i \in 1..base : i \in 1..Len(head)
    BY <1>1, <1>base, <1>14, <1>22
  <2> QED BY <1>15, <1>18, <2>1
<1>24. \A i \in 1..Len(words) : line[base + i] = words[i]
  <2>1. \A i \in 1..Len(words) : base + i \in 1..Len(head)
    BY <1>1, <1>base, <1>14, <1>15
  <2> QED BY <1>15, <1>18, <2>1
<1>25. ASSUME NEW r \in 1..n
       PROVE  /\ line[base + (r - 1) + oa[r] + 1] = Space
              /\ \A i \in 1..Len(args[r]) : line[base + r + oa[r] + i] = args[r][i]
  <2> DEFINE l == Len(args[r])
             a == oa[r]
  <2>1. r \in 1..n + 1 /\ r + 1 \in 1..n + 1 /\ n + 1 \in 1..n + 1 /\ r + 1 <= n + 1
    BY <1>1
  <2>2. l \in Nat /\ a \in Nat /\ oa[r + 1] = a + l /\ oa[r + 1] \in Nat
    BY <1>1, <1>base, <1>9, <2>1
  <2>3. oa[r + 1] <= oa[n + 1]
    <3>1. Sums(n, [k \in 1..n |-> Len(args[k])], oa)
      BY <1>8, ArgsSums DEF n, args
    <3> QED BY <2>1, <3>1, SumsGrow
  <2>4. ow[r] = (r - 1) + a
    BY <1>13, <2>1
  <2> HIDE DEF l, a
  <2>5. \A i \in 1..1 + l : line[base + ow[r] + i] = W[r][i]
    <3> TAKE i \in 1..1 + l
    <3>1. ow[r] + i \in 1..Len(words)
      <4> DEFINE e == oa[n + 1]
                 o == ow[r]
                 w == Len(words)
      <4>1. i \in Nat /\ 1 <= i /\ i <= 1 + l
        BY <2>2
      <4>2. e \in Nat /\ a + l <= e /\ w = n + e /\ o = (r - 1) + a /\ n \in Nat
        BY <1>1, <1>14, <2>2, <2>3, <2>4
      <4> HIDE DEF e, o, w
      <4>3. o + i \in 1..w
        BY <2>2, <4>1, <4>2, WordWithin
      <4> QED BY <4>3 DEF o, w
    <3>2. words[ow[r] + i] = W[r][i]
      BY <1>10 DEF l
    <3>3. base + (ow[r] + i) = base + ow[r] + i
      BY <1>1, <1>base, <2>2, <2>4
    <3> QED BY <1>24, <3>1, <3>2, <3>3
  <2>6. line[base + (r - 1) + a + 1] = Space
    <3>1. 1 \in 1..1 + l /\ base + ow[r] + 1 = base + (r - 1) + a + 1
      BY <1>1, <1>base, <2>2, <2>4
    <3>2. W[r][1] = Space
      BY <1>3
    <3> QED BY <2>5, <3>1, <3>2
  <2>7. ASSUME NEW i \in 1..l PROVE line[base + r + a + i] = args[r][i]
    <3>1. 1 + i \in 1..1 + l /\ base + ow[r] + (1 + i) = base + r + a + i
      BY <1>1, <1>base, <2>2, <2>4
    <3>2. W[r][1 + i] = args[r][i]
      BY <1>3 DEF l
    <3>3. line[base + ow[r] + (1 + i)] = W[r][1 + i]
      BY <2>5, <3>1
    <3> QED BY <3>1, <3>2, <3>3
  <2> QED BY <2>6, <2>7 DEF a, l
<1>26. line[Len(line)] = Cr
  BY <1>18
<1>27. LineShape(m, line, oa)
  BY <1>18, <1>22, <1>23, <1>25, <1>26 DEF LineShape, n, base, name, args
<1>28. Len(line) > 0
  BY <1>18
<1>29. LineShape(m, s, oa)
  BY <1>20, <1>27
<1> QED BY <1>8, <1>21, <1>28, <1>29 DEF s

-----------------------------------------------------------------------------
(* The messages one behind the other, and what of them the queue holds.    *)
LEMMA Within ==
    ASSUME NEW a \in Nat, NEW b \in Nat, NEW l \in Nat, b < a, a <= b + l
    PROVE  a - b \in 1..l
OBVIOUS

LEMMA LongEnough ==
    ASSUME NEW a \in Nat, NEW b \in Nat, NEW c \in Nat, NEW d \in Nat, NEW l, l = a + b + 1 + 2 * c + d
    PROVE  l \in Nat /\ a + b + 1 <= l
OBVIOUS

LEMMA WithinRest ==
    ASSUME NEW a \in Nat, NEW b \in Nat, NEW l \in Nat, NEW c \in Nat, b + c < a, a <= b + c + (l - c)
    PROVE  a - (b + c) \in 1..l - c /\ c + (a - (b + c)) = a - b
OBVIOUS

LEMMA WithinMore ==
    ASSUME NEW a \in Nat, NEW i \in Nat, NEW b \in Nat, NEW l \in Nat, NEW e \in Nat, NEW c \in Nat,
           b + l = a + e, ~(a + i <= b + l), a + i <= b + (l + c)
    PROVE  i - e \in 1..c /\ e + (i - e) = i /\ (a + i) - b = l + (i - e)
OBVIOUS

BlocksOf(text, m) == IF text THEN LineBytes(m) ELSE TopicBlocks(m)

(* A message as the scan sees it: its name, and what is behind the name.   *)
LEMMA SentShape ==
    ASSUME NEW text \in BOOLEAN, NEW m \in Message[text]
    PROVE  /\ Sent(text, m) \in Seq(Byte) /\ Len(Sent(text, m)) \in Nat /\ NameAt(text) \in Nat
           /\ BlocksOf(text, m) \in Seq(Seq(Byte)) /\ Len(BlocksOf(text, m)) > 0
           /\ NameAt(text) + Len(NameTable[text][m.id]) + 1 <= Len(Sent(text, m))
           /\ \A i \in 1..Len(NameTable[text][m.id]) : Sent(text, m)[NameAt(text) + i] = NameTable[text][m.id][i]
<1> DEFINE s == Sent(text, m)
           name == NameTable[text][m.id]
<1>1. name \in Seq(Byte) /\ Len(name) \in Nat /\ Len(m.args) \in Nat
  BY MessageFacts
<1>2. Len(m.args) + 1 \in 1..Len(m.args) + 1
  BY <1>1
<1>3. CASE text
  <2>1. m \in Message[TRUE] /\ text = TRUE
    BY <1>3
  <2>2. PICK oa : ArgsAt(m, oa) /\ LineShape(m, Sent(TRUE, m), oa)
    BY <2>1, LineSent
  <2>3. oa[Len(m.args) + 1] \in Nat
    BY <1>2, <2>2, ArgsSums
  <2>4. NameAt(text) = 0
    BY <1>3 DEF NameAt
  <2>5. /\ s \in Seq(Byte) /\ Len(s) = Len(name) + Len(m.args) + oa[Len(m.args) + 1] + 1
        /\ \A i \in 1..Len(name) : s[i] = name[i]
    BY <2>1, <2>2 DEF LineShape
  <2> HIDE DEF s, name
  <2>6. Len(s) \in Nat /\ 0 + Len(name) + 1 <= Len(s)
    BY <1>1, <2>3, <2>5
  <2>8. \A i \in 1..Len(name) : NameAt(text) + i = i
    BY <1>1, <2>4
  <2>9. \A i \in 1..Len(name) : s[NameAt(text) + i] = name[i]
    BY <2>5, <2>8
  <2>10. NameAt(text) + Len(name) + 1 <= Len(s) /\ NameAt(text) \in Nat
    BY <2>4, <2>6
  <2>7. BlocksOf(text, m) \in Seq(Seq(Byte)) /\ Len(BlocksOf(text, m)) > 0
    BY <2>1, LineSent DEF BlocksOf
  <2> QED BY <2>5, <2>6, <2>7, <2>9, <2>10 DEF s, name
<1>4. CASE ~text
  <2>1. m \in Message[FALSE] /\ text = FALSE
    BY <1>4
  <2>2. PICK oa : ArgsAt(m, oa) /\ TopicShape(m, Sent(FALSE, m), oa)
    BY <2>1, TopicSent
  <2>3. oa[Len(m.args) + 1] \in Nat
    BY <1>2, <2>2, ArgsSums
  <2>4. NameAt(text) = Len(Prefix) /\ Len(Prefix) \in Nat
    BY <1>4, ByteFacts DEF NameAt
  <2>5. /\ s \in Seq(Byte) /\ Len(s) = Len(Prefix) + Len(name) + 1 + 2 * Len(m.args) + oa[Len(m.args) + 1]
        /\ \A i \in 1..Len(name) : s[Len(Prefix) + i] = name[i]
    BY <2>1, <2>2 DEF TopicShape
  <2> HIDE DEF s, name
  <2>6. Len(s) \in Nat /\ Len(Prefix) + Len(name) + 1 <= Len(s)
    <3> DEFINE a == Len(Prefix)
               b == Len(name)
               c == Len(m.args)
               d == oa[Len(m.args) + 1]
               l == Len(s)
    <3>1. a \in Nat /\ b \in Nat /\ c \in Nat /\ d \in Nat /\ l = a + b + 1 + 2 * c + d
      BY <1>1, <1>2, <2>3, <2>4, <2>5
    <3> HIDE DEF a, b, c, d, l
    <3>2. l \in Nat /\ a + b + 1 <= l
      BY <3>1, LongEnough
    <3> QED BY <3>2 DEF a, b, l
  <2>7. BlocksOf(text, m) \in Seq(Seq(Byte)) /\ Len(BlocksOf(text, m)) > 0
    BY <2>1, TopicSent DEF BlocksOf
  <2> QED BY <2>4, <2>5, <2>6, <2>7 DEF s, name
<1> QED BY <1>3, <1>4

LEMMA BlocksFlatten ==
    ASSUME NEW text \in BOOLEAN, NEW m \in Message[text]
    PROVE  /\ Sent(text, m) = FlattenSeq(BlocksOf(text, m))
           /\ \E ob : Flattened(BlocksOf(text, m), ob, Sent(text, m))
<1>1. Sent(text, m) = FlattenSeq(BlocksOf(text, m))
  BY DEF Sent, BlocksOf
<1> QED BY <1>1, SentShape, FlattenSeqLayout

Lengths(text, msgs) == [j \in 1..Len(msgs) |-> Len(Sent(text, msgs[j]))]

(* Message j begins behind st[j] bytes. *)
Stream(text, msgs, st) ==
    text \in BOOLEAN /\ msgs \in Seq(Message[text]) /\ Sums(Len(msgs), Lengths(text, msgs), st)

(* q holds what is behind the first pos bytes, as far as it reaches. *)
Holds(text, msgs, st, pos, q) ==
    \A j \in 1..Len(msgs) : \A i \in 1..Len(Sent(text, msgs[j])) :
        pos < st[j] + i /\ st[j] + i <= pos + Len(q) => q[(st[j] + i) - pos] = Sent(text, msgs[j])[i]

LEMMA StreamFacts ==
    ASSUME NEW text, NEW msgs, NEW st, Stream(text, msgs, st)
    PROVE  /\ text \in BOOLEAN /\ Len(msgs) \in Nat /\ st \in [1..Len(msgs) + 1 -> Nat] /\ st[1] = 0
           /\ \A j \in 1..Len(msgs) :
                 /\ msgs[j] \in Message[text] /\ Sent(text, msgs[j]) \in Seq(Byte)
                 /\ Len(Sent(text, msgs[j])) \in Nat /\ st[j] \in Nat /\ j + 1 \in 1..Len(msgs) + 1
                 /\ st[j + 1] = st[j] + Len(Sent(text, msgs[j]))
           /\ \A j, k \in 1..Len(msgs) + 1 : j <= k => st[j] <= st[k]
<1>1. text \in BOOLEAN /\ msgs \in Seq(Message[text]) /\ Len(msgs) \in Nat /\ Sums(Len(msgs), Lengths(text, msgs), st)
  BY DEF Stream
<1>2. st \in [1..Len(msgs) + 1 -> Nat] /\ st[1] = 0
      /\ \A j \in 1..Len(msgs) : st[j + 1] = st[j] + Lengths(text, msgs)[j]
  BY <1>1 DEF Sums
<1>3. ASSUME NEW j \in 1..Len(msgs)
      PROVE  /\ msgs[j] \in Message[text] /\ Sent(text, msgs[j]) \in Seq(Byte)
             /\ Len(Sent(text, msgs[j])) \in Nat /\ st[j] \in Nat /\ j + 1 \in 1..Len(msgs) + 1
             /\ st[j + 1] = st[j] + Len(Sent(text, msgs[j]))
  <2>1. msgs[j] \in Message[text]
    BY <1>1
  <2>2. Sent(text, msgs[j]) \in Seq(Byte) /\ Len(Sent(text, msgs[j])) \in Nat
    BY <1>1, <2>1, SentShape
  <2>3. Lengths(text, msgs)[j] = Len(Sent(text, msgs[j]))
    BY DEF Lengths
  <2>4. j \in 1..Len(msgs) + 1 /\ j + 1 \in 1..Len(msgs) + 1
    BY <1>1
  <2>5. st[j] \in Nat
    BY <1>2, <2>4
  <2> QED BY <1>2, <2>1, <2>2, <2>3, <2>4, <2>5
<1>4. \A j, k \in 1..Len(msgs) + 1 : j <= k => st[j] <= st[k]
  BY <1>1, SumsGrow
<1> QED BY <1>1, <1>2, <1>3, <1>4

LEMMA LengthsType ==
    ASSUME NEW text \in BOOLEAN, NEW msgs \in Seq(Message[text])
    PROVE  Lengths(text, msgs) \in [1..Len(msgs) -> Nat]
<1>1. ASSUME NEW j \in 1..Len(msgs) PROVE Len(Sent(text, msgs[j])) \in Nat
  <2>1. msgs[j] \in Message[text]
    OBVIOUS
  <2> QED BY <2>1, SentShape
<1> QED BY <1>1 DEF Lengths

(* One message more. *)
LEMMA StreamLonger ==
    ASSUME NEW text, NEW msgs, NEW st, Stream(text, msgs, st), NEW m \in Message[text],
           NEW pos \in Nat, NEW q \in Seq(Byte), Holds(text, msgs, st, pos, q), pos + Len(q) <= st[Len(msgs) + 1]
    PROVE  \E ts : /\ Stream(text, Append(msgs, m), ts) /\ Holds(text, Append(msgs, m), ts, pos, q)
                   /\ \A j \in 1..Len(msgs) + 1 : ts[j] = st[j]
<1> DEFINE n == Len(msgs)
           more == Append(msgs, m)
           ts == [j \in 1..n + 2 |-> IF j <= n + 1 THEN st[j] ELSE st[n + 1] + Len(Sent(text, m))]
<1>1. msgs \in Seq(Message[text]) /\ text \in BOOLEAN /\ n \in Nat
  BY DEF Stream
<1>2. /\ more \in Seq(Message[text]) /\ Len(more) = n + 1 /\ more[n + 1] = m
      /\ \A j \in 1..n : more[j] = msgs[j]
  BY <1>1
<1>3. Len(Sent(text, m)) \in Nat
  BY <1>1, SentShape
<1>4. st \in [1..n + 1 -> Nat] /\ st[1] = 0 /\ \A j \in 1..n : st[j + 1] = st[j] + Len(Sent(text, msgs[j]))
  BY StreamFacts
<1> HIDE DEF more
<1>5. /\ ts \in [1..n + 2 -> Nat] /\ ts[n + 2] = st[n + 1] + Len(Sent(text, m))
      /\ \A j \in 1..n + 1 : ts[j] = st[j]
  <2> HIDE DEF n
  <2>1. n + 1 \in 1..n + 1 /\ n + 2 \in 1..n + 2 /\ ~(n + 2 <= n + 1)
    BY <1>1
  <2>2. \A j \in 1..n + 2 : j <= n + 1 => j \in 1..n + 1
    BY <1>1
  <2>3. \A j \in 1..n + 1 : j \in 1..n + 2 /\ j <= n + 1
    BY <1>1
  <2> QED BY <1>3, <1>4, <2>1, <2>2, <2>3
<1> HIDE DEF ts
<1>6. Sums(n + 1, Lengths(text, more), ts)
  <2>1. Lengths(text, more) \in [1..n + 1 -> Nat]
    BY <1>1, <1>2, LengthsType
  <2>2. ASSUME NEW j \in 1..n + 1 PROVE ts[j + 1] = ts[j] + Lengths(text, more)[j]
    <3>1. Lengths(text, more)[j] = Len(Sent(text, more[j]))
      BY <1>2 DEF Lengths
    <3>2. CASE j = n + 1
      <4>1. j + 1 = n + 2
        BY <1>1, <3>2
      <4> QED BY <1>2, <1>5, <3>1, <3>2, <4>1
    <3>3. CASE j # n + 1
      <4>1. j \in 1..n /\ j + 1 \in 1..n + 1
        BY <1>1, <3>3
      <4> QED BY <1>2, <1>4, <1>5, <3>1, <4>1
    <3> QED BY <3>2, <3>3
  <2>3. ts \in [1..(n + 1) + 1 -> Nat] /\ ts[1] = 0 /\ n + 1 \in Nat
    BY <1>1, <1>4, <1>5
  <2> QED BY <2>1, <2>2, <2>3 DEF Sums
<1>7. Stream(text, more, ts)
  BY <1>1, <1>2, <1>6 DEF Stream
<1>8. Holds(text, more, ts, pos, q)
  <2> SUFFICES ASSUME NEW j \in 1..n + 1, NEW i \in 1..Len(Sent(text, more[j])),
                      pos < ts[j] + i, ts[j] + i <= pos + Len(q)
               PROVE  q[(ts[j] + i) - pos] = Sent(text, more[j])[i]
    BY <1>2 DEF Holds
  <2>1. j # n + 1
    <3> SUFFICES ASSUME j = n + 1 PROVE FALSE
      OBVIOUS
    <3>1. ts[j] = st[n + 1] /\ st[n + 1] \in Nat /\ i \in Nat /\ i > 0
      BY <1>2, <1>3, <1>4, <1>5
    <3>2. Len(q) \in Nat
      OBVIOUS
    <3> QED BY <3>1, <3>2
  <2>2. j \in 1..n
    BY <1>1, <2>1
  <2>3. ts[j] = st[j] /\ more[j] = msgs[j]
    BY <1>2, <1>5, <2>2
  <2>4. q[(st[j] + i) - pos] = Sent(text, msgs[j])[i]
    BY <2>2, <2>3 DEF Holds
  <2> QED BY <2>3, <2>4
<1> QED BY <1>5, <1>7, <1>8 DEF more

(* bytes are the part of s behind its first e bytes. *)
PartOf(bytes, s, e) == \A x \in 1..Len(bytes) : e + x <= Len(s) /\ bytes[x] = s[e + x]

LEMMA HoldsMore ==
    ASSUME NEW text, NEW msgs, NEW st, Stream(text, msgs, st), Len(msgs) > 0,
           NEW pos \in Nat, NEW q \in Seq(Byte), Holds(text, msgs, st, pos, q),
           NEW bytes \in Seq(Byte), NEW e \in Nat, PartOf(bytes, Sent(text, msgs[Len(msgs)]), e),
           pos + Len(q) = st[Len(msgs)] + e
    PROVE  Holds(text, msgs, st, pos, q \o bytes)
<1> DEFINE n == Len(msgs)
           all == q \o bytes
<1>1. n \in Nat /\ n \in 1..n /\ st[n] \in Nat
  BY StreamFacts
<1>2. /\ Len(all) = Len(q) + Len(bytes) /\ Len(q) \in Nat /\ Len(bytes) \in Nat
      /\ \A x \in 1..Len(q) : all[x] = q[x]
      /\ \A x \in 1..Len(bytes) : all[Len(q) + x] = bytes[x]
  BY Joined
<1> HIDE DEF all
<1> SUFFICES ASSUME NEW j \in 1..n, NEW i \in 1..Len(Sent(text, msgs[j])),
                    pos < st[j] + i, st[j] + i <= pos + Len(all)
             PROVE  all[(st[j] + i) - pos] = Sent(text, msgs[j])[i]
  BY DEF Holds, all
<1>3. st[j] \in Nat /\ i \in Nat /\ i >= 1 /\ i <= Len(Sent(text, msgs[j])) /\ Len(Sent(text, msgs[j])) \in Nat
  BY StreamFacts
<1>4. CASE st[j] + i <= pos + Len(q)
  <2>1. (st[j] + i) - pos \in 1..Len(q)
    <3> DEFINE a == st[j] + i
    <3>1. a \in Nat /\ pos < a /\ a <= pos + Len(q)
      <4>1. st[j] \in Nat /\ i \in Nat
        BY <1>3
      <4> QED BY <1>4, <4>1
    <3> HIDE DEF a
    <3>2. a - pos \in 1..Len(q)
      BY <1>2, <3>1, Within
    <3> QED BY <3>2 DEF a
  <2>2. q[(st[j] + i) - pos] = Sent(text, msgs[j])[i]
    BY <1>4 DEF Holds
  <2> QED BY <1>2, <2>1, <2>2
<1>5. CASE ~(st[j] + i <= pos + Len(q))
  <2>1. j = n
    <3> SUFFICES ASSUME j # n PROVE FALSE
      OBVIOUS
    <3>1. j + 1 \in 1..n + 1 /\ n \in 1..n + 1 /\ j + 1 <= n
      <4>1. n \in Nat
        BY <1>1
      <4> HIDE DEF n
      <4> QED BY <4>1
    <3>2. st[j + 1] <= st[n]
      BY <3>1, StreamFacts
    <3>4. st[j + 1] = st[j] + Len(Sent(text, msgs[j]))
      BY StreamFacts
    <3> DEFINE a == st[j]
               l == Len(Sent(text, msgs[j]))
               c == st[n]
               f == Len(q)
    <3>3. a \in Nat /\ l \in Nat /\ i \in Nat /\ i <= l /\ c \in Nat /\ a + l <= c /\ f \in Nat
          /\ pos + f = c + e /\ ~(a + i <= pos + f)
      BY <1>1, <1>2, <1>3, <1>5, <3>2, <3>4
    <3> HIDE DEF a, l, c, f
    <3>5. a + i <= c
      BY <3>3, WithinSum
    <3> QED BY <3>3, <3>5
  <2> DEFINE x == i - e
  <2>4. /\ i \in Nat /\ Len(q) \in Nat /\ Len(bytes) \in Nat /\ st[n] \in Nat
        /\ pos + Len(q) = st[n] + e /\ ~(st[n] + i <= pos + Len(q))
        /\ st[n] + i <= pos + (Len(q) + Len(bytes))
    BY <1>1, <1>2, <1>3, <1>5, <2>1
  <2>2. x \in 1..Len(bytes) /\ (st[j] + i) - pos = Len(q) + x /\ e + x = i
    <3> DEFINE a == st[n]
               c == Len(bytes)
               l == Len(q)
    <3>1. a \in Nat /\ c \in Nat /\ l \in Nat /\ i \in Nat /\ pos + l = a + e
          /\ ~(a + i <= pos + l) /\ a + i <= pos + (l + c)
      BY <2>4
    <3>2. st[j] = a
      BY <2>1
    <3> HIDE DEF a, c, l
    <3>3. i - e \in 1..c /\ e + (i - e) = i /\ (a + i) - pos = l + (i - e)
      BY <3>1, WithinMore
    <3> QED BY <3>2, <3>3 DEF c, l
  <2> HIDE DEF x
  <2>3. bytes[x] = Sent(text, msgs[j])[i]
    BY <2>1, <2>2 DEF PartOf
  <2> QED BY <1>2, <2>2, <2>3
<1> QED BY <1>4, <1>5

LEMMA HoldsLess ==
    ASSUME NEW text, NEW msgs, NEW st, Stream(text, msgs, st),
           NEW pos \in Nat, NEW q \in Seq(Byte), Holds(text, msgs, st, pos, q),
           NEW lost \in 0..Len(q)
    PROVE  Holds(text, msgs, st, pos + lost, SubSeq(q, lost + 1, Len(q)))
<1> DEFINE rest == SubSeq(q, lost + 1, Len(q))
<1>1. Len(q) \in Nat /\ lost \in Nat /\ lost <= Len(q)
  OBVIOUS
<1>2. Len(rest) = Len(q) - lost /\ \A x \in 1..Len(q) - lost : rest[x] = q[lost + x]
  BY <1>1
<1> HIDE DEF rest
<1> SUFFICES ASSUME NEW j \in 1..Len(msgs), NEW i \in 1..Len(Sent(text, msgs[j])),
                    pos + lost < st[j] + i, st[j] + i <= pos + lost + Len(rest)
             PROVE  rest[(st[j] + i) - (pos + lost)] = Sent(text, msgs[j])[i]
  BY DEF Holds, rest
<1>3. st[j] \in Nat /\ i \in Nat
  BY StreamFacts
<1>4. pos < st[j] + i /\ st[j] + i <= pos + Len(q)
  BY <1>1, <1>2, <1>3
<1>5. q[(st[j] + i) - pos] = Sent(text, msgs[j])[i]
  BY <1>4 DEF Holds
<1> DEFINE x == (st[j] + i) - (pos + lost)
<1>6. x \in 1..Len(q) - lost /\ lost + x = (st[j] + i) - pos
  <2> DEFINE a == st[j] + i
             l == Len(q)
  <2>1. a \in Nat /\ l \in Nat /\ lost \in Nat /\ lost <= l /\ pos + lost < a /\ a <= pos + lost + (l - lost)
    BY <1>1, <1>2, <1>3
  <2> HIDE DEF a, l
  <2>2. a - (pos + lost) \in 1..l - lost /\ lost + (a - (pos + lost)) = a - pos
    BY <2>1, WithinRest
  <2> QED BY <2>2 DEF a, l
<1> HIDE DEF x
<1>7. rest[x] = q[lost + x]
  BY <1>2, <1>6
<1> QED BY <1>5, <1>6, <1>7 DEF x

(* here bytes have been enqueued, and the blocks coming are still to come. *)
Coming(text, msgs, coming, st, here) ==
    \/ coming = <<>> /\ here = st[Len(msgs) + 1]
    \/ /\ Len(msgs) > 0
       /\ \E ob : \E b \in 1..Len(BlocksOf(text, msgs[Len(msgs)])) - 1 :
             /\ Flattened(BlocksOf(text, msgs[Len(msgs)]), ob, Sent(text, msgs[Len(msgs)]))
             /\ coming = SubSeq(BlocksOf(text, msgs[Len(msgs)]), b + 1, Len(BlocksOf(text, msgs[Len(msgs)])))
             /\ here = st[Len(msgs)] + ob[b + 1]

LEMMA BlocksAt ==
    ASSUME NEW text \in BOOLEAN, NEW m \in Message[text], NEW ob,
           Flattened(BlocksOf(text, m), ob, Sent(text, m))
    PROVE  /\ ob[1] = 0 /\ ob[Len(BlocksOf(text, m)) + 1] = Len(Sent(text, m))
           /\ \A b \in 1..Len(BlocksOf(text, m)) :
                 /\ BlocksOf(text, m)[b] \in Seq(Byte) /\ ob[b] \in Nat
                 /\ ob[b + 1] = ob[b] + Len(BlocksOf(text, m)[b]) /\ ob[b + 1] \in Nat
                 /\ ob[b + 1] <= Len(Sent(text, m))
                 /\ PartOf(BlocksOf(text, m)[b], Sent(text, m), ob[b])
<1> DEFINE blocks == BlocksOf(text, m)
           s == Sent(text, m)
           n == Len(blocks)
<1>1. blocks \in Seq(Seq(Byte)) /\ n \in Nat /\ n > 0 /\ Len(s) \in Nat
  BY SentShape
<1> HIDE DEF blocks, s
<1>2. /\ Layout(blocks, ob) /\ Len(s) = ob[n + 1]
      /\ \A k \in 1..n : \A i \in 1..Len(blocks[k]) : s[ob[k] + i] = blocks[k][i]
  BY DEF Flattened, blocks, s
<1>3. Sums(n, [k \in 1..n |-> Len(blocks[k])], ob)
  BY <1>1, <1>2, LayoutSums
<1>4. ob \in [1..n + 1 -> Nat] /\ ob[1] = 0 /\ \A k \in 1..n : ob[k + 1] = ob[k] + Len(blocks[k])
  BY <1>2 DEF Layout
<1>5. ASSUME NEW b \in 1..n
      PROVE  /\ blocks[b] \in Seq(Byte) /\ ob[b] \in Nat
             /\ ob[b + 1] = ob[b] + Len(blocks[b]) /\ ob[b + 1] \in Nat
             /\ ob[b + 1] <= Len(s) /\ PartOf(blocks[b], s, ob[b])
  <2>1. b \in 1..n + 1 /\ b + 1 \in 1..n + 1 /\ n + 1 \in 1..n + 1 /\ b + 1 <= n + 1
    BY <1>1
  <2>2. ob[b] \in Nat /\ ob[b + 1] \in Nat /\ blocks[b] \in Seq(Byte) /\ Len(blocks[b]) \in Nat
    BY <1>1, <1>4, <2>1
  <2>3. ob[b + 1] <= Len(s)
    <3> HIDE DEF n
    <3>1. ob[b + 1] <= ob[n + 1]
      BY <1>3, <2>1, SumsGrow
    <3> QED BY <1>2, <3>1
  <2>4. PartOf(blocks[b], s, ob[b])
    <3> SUFFICES ASSUME NEW x \in 1..Len(blocks[b]) PROVE ob[b] + x <= Len(s) /\ blocks[b][x] = s[ob[b] + x]
      BY DEF PartOf
    <3>1. x \in Nat /\ x <= Len(blocks[b]) /\ x >= 1
      BY <2>2
    <3>2. ob[b + 1] = ob[b] + Len(blocks[b])
      BY <1>4
    <3>3. ob[b] + x <= Len(s)
      BY <1>1, <2>2, <2>3, <3>1, <3>2
    <3> QED BY <1>2, <3>3
  <2> QED BY <1>4, <2>2, <2>3, <2>4
<1> QED BY <1>2, <1>4, <1>5 DEF blocks, s

LEMMA ComingHere ==
    ASSUME NEW text, NEW msgs, NEW st, Stream(text, msgs, st), NEW coming, NEW here,
           Coming(text, msgs, coming, st, here)
    PROVE  here \in Nat /\ here <= st[Len(msgs) + 1]
<1>1. text \in BOOLEAN /\ Len(msgs) \in Nat /\ Len(msgs) + 1 \in 1..Len(msgs) + 1 /\ st[Len(msgs) + 1] \in Nat
  BY StreamFacts
<1>2. CASE coming = <<>> /\ here = st[Len(msgs) + 1]
  BY <1>1, <1>2
<1>3. CASE Len(msgs) > 0 /\ ~(coming = <<>> /\ here = st[Len(msgs) + 1])
  <2> DEFINE n == Len(msgs)
             m == msgs[n]
             blocks == BlocksOf(text, m)
             s == Sent(text, m)
  <2>1. n \in 1..n /\ m \in Message[text] /\ st[n] \in Nat /\ st[n + 1] = st[n] + Len(s) /\ Len(s) \in Nat
    BY <1>1, <1>3, StreamFacts
  <2> HIDE DEF n, m, s, blocks
  <2>6. \E ob : \E b \in 1..Len(blocks) - 1 :
           Flattened(blocks, ob, s) /\ coming = SubSeq(blocks, b + 1, Len(blocks)) /\ here = st[n] + ob[b + 1]
    BY <1>3 DEF Coming, blocks, s, m, n
  <2>2. PICK ob : \E b \in 1..Len(blocks) - 1 : Flattened(blocks, ob, s) /\ here = st[n] + ob[b + 1]
    BY <2>6
  <2>7. PICK b \in 1..Len(blocks) - 1 : Flattened(blocks, ob, s) /\ here = st[n] + ob[b + 1]
    BY <2>2
  <2>3. b \in 1..Len(blocks)
    <3>1. Len(blocks) \in Nat
      BY <1>1, <2>1, SentShape DEF blocks
    <3> QED BY <3>1
  <2>4. ob[b + 1] \in Nat /\ ob[b + 1] <= Len(s)
    BY <1>1, <2>1, <2>7, <2>3, BlocksAt DEF blocks, s
  <2>5. here \in Nat /\ here <= st[n + 1]
    BY <2>1, <2>7, <2>4
  <2> QED BY <2>5 DEF n
<1> QED BY <1>2, <1>3 DEF Coming

LEMMA RestOf ==
    ASSUME NEW S, NEW s \in Seq(S), NEW b \in 1..Len(s), NEW t, t = SubSeq(s, b, Len(s))
    PROVE  t # <<>> /\ Head(t) = s[b] /\ Tail(t) = SubSeq(s, b + 1, Len(s))
<1> DEFINE l == Len(s)
           rest == SubSeq(s, b + 1, l)
<1>1. l \in Nat /\ b \in Nat /\ 1 <= b /\ b <= l
  OBVIOUS
<1>2. t \in Seq(S) /\ Len(t) = (l - b) + 1
  BY <1>1
<1>3. ASSUME NEW x \in 1..(l - b) + 1 PROVE t[x] = s[(b + x) - 1]
  <2>1. x \in 1..(l - b) + 1 /\ (b + x) - 1 = b + (x - 1)
    BY <1>1
  <2> QED BY <1>1, <2>1
<1>4. t # <<>>
  <2> SUFFICES ASSUME t = <<>> PROVE FALSE
    OBVIOUS
  <2>1. Len(t) = 0
    OBVIOUS
  <2>2. Len(t) = (l - b) + 1
    BY <1>2
  <2> HIDE DEF l
  <2> QED BY <1>1, <2>1, <2>2
<1>5. Head(t) = t[1] /\ Tail(t) \in Seq(S) /\ Len(Tail(t)) = l - b
  BY <1>1, <1>2, <1>4
<1>6. ASSUME NEW x \in 1..l - b PROVE Tail(t)[x] = t[x + 1]
  BY <1>1, <1>2, <1>4
<1>7. t[1] = s[b]
  <2>1. 1 \in 1..(l - b) + 1 /\ (b + 1) - 1 = b
    BY <1>1
  <2> QED BY <1>3, <2>1
<1>8. rest \in Seq(S) /\ Len(rest) = l - b
  BY <1>1
<1>9. ASSUME NEW x \in 1..l - b PROVE rest[x] = s[b + x]
  <2>1. rest[x] = s[((b + 1) + x) - 1]
    BY <1>1
  <2>2. ((b + 1) + x) - 1 = b + x
    BY <1>1
  <2> QED BY <2>1, <2>2
<1>10. ASSUME NEW x \in 1..l - b PROVE Tail(t)[x] = rest[x]
  <2>1. x + 1 \in 1..(l - b) + 1 /\ (b + (x + 1)) - 1 = b + x
    BY <1>1
  <2> QED BY <1>3, <1>6, <1>9, <2>1
<1> HIDE DEF rest
<1>11. Tail(t) = rest
  BY <1>5, <1>8, <1>10, SeqEqual
<1> QED BY <1>4, <1>5, <1>7, <1>11 DEF rest

(* The next block comes. *)
LEMMA BlockComes ==
    ASSUME NEW text, NEW msgs, NEW st, Stream(text, msgs, st), Len(msgs) > 0, NEW ob,
           Flattened(BlocksOf(text, msgs[Len(msgs)]), ob, Sent(text, msgs[Len(msgs)])),
           NEW b \in 1..Len(BlocksOf(text, msgs[Len(msgs)])), NEW coming,
           coming = SubSeq(BlocksOf(text, msgs[Len(msgs)]), b, Len(BlocksOf(text, msgs[Len(msgs)])))
    PROVE  /\ coming # <<>> /\ Head(coming) \in Seq(Byte) /\ ob[b] \in Nat
           /\ PartOf(Head(coming), Sent(text, msgs[Len(msgs)]), ob[b])
           /\ Coming(text, msgs, Tail(coming), st, (st[Len(msgs)] + ob[b]) + Len(Head(coming)))
<1> DEFINE n == Len(msgs)
           m == msgs[n]
           blocks == BlocksOf(text, m)
           s == Sent(text, m)
           l == Len(blocks)
<1>1. text \in BOOLEAN /\ n \in Nat /\ n \in 1..n /\ m \in Message[text] /\ st[n] \in Nat /\ st[n + 1] = st[n] + Len(s)
  BY StreamFacts
<1>2. blocks \in Seq(Seq(Byte)) /\ l \in Nat /\ b \in 1..l
  BY <1>1, SentShape
<1> HIDE DEF m, blocks, s
<1>3. coming = SubSeq(blocks, b, l) /\ Flattened(blocks, ob, s)
  BY DEF blocks, s, m
<1>4. /\ blocks[b] \in Seq(Byte) /\ Len(blocks[b]) \in Nat /\ ob[b] \in Nat /\ ob[b + 1] = ob[b] + Len(blocks[b])
      /\ PartOf(blocks[b], s, ob[b]) /\ ob[l + 1] = Len(s)
  <2>1. Flattened(BlocksOf(text, m), ob, Sent(text, m))
    BY <1>3 DEF blocks, s
  <2>2. /\ blocks[b] \in Seq(Byte) /\ ob[b] \in Nat /\ ob[b + 1] = ob[b] + Len(blocks[b])
        /\ PartOf(blocks[b], s, ob[b]) /\ ob[l + 1] = Len(s)
    BY <1>1, <1>2, <2>1, BlocksAt DEF blocks, s
  <2>3. Len(blocks[b]) \in Nat
    BY <2>2
  <2> QED BY <2>2, <2>3
<1> HIDE DEF l
<1>5. l = Len(blocks)
  BY DEF l
<1>6. coming # <<>> /\ Head(coming) = blocks[b] /\ Tail(coming) = SubSeq(blocks, b + 1, l)
  <2> DEFINE S == Seq(Byte)
  <2> HIDE DEF S
  <2>1. blocks \in Seq(S)
    BY <1>2 DEF S
  <2>2. coming = SubSeq(blocks, b, Len(blocks)) /\ b \in 1..Len(blocks)
    BY <1>2, <1>3, <1>5
  <2> QED BY <1>5, <2>1, <2>2, RestOf
<1> DEFINE here == (st[n] + ob[b]) + Len(blocks[b])
<1>7. here = st[n] + ob[b + 1]
  BY <1>1, <1>4
<1> HIDE DEF here
<1>8. Coming(text, msgs, Tail(coming), st, here)
  <2>1. CASE b = l
    <3>1. SubSeq(blocks, b + 1, l) = <<>>
      <4>1. Len(SubSeq(blocks, b + 1, l)) = 0 /\ SubSeq(blocks, b + 1, l) \in Seq(Seq(Byte))
        BY <1>2, <1>5, <2>1
      <4> QED BY <4>1
    <3>2. here = st[n + 1]
      BY <1>1, <1>4, <1>7, <2>1
    <3> QED BY <1>6, <3>1, <3>2 DEF Coming
  <2>2. CASE b # l
    <3>1. b \in 1..Len(blocks) - 1
      BY <1>2, <1>5, <2>2
    <3>2. n > 0
      BY <1>1
    <3> QED BY <1>3, <1>5, <1>6, <1>7, <3>1, <3>2 DEF Coming, blocks, s, m
  <2> QED BY <2>1, <2>2
<1> QED BY <1>4, <1>6, <1>8 DEF here, s, m

-----------------------------------------------------------------------------
(* How many messages' names begin before x. *)
Behind(text, msgs, st, x, p) ==
    /\ p \in 0..Len(msgs)
    /\ \A j \in 1..Len(msgs) : j <= p <=> st[j] + NameAt(text) < x

LEMMA BehindExists ==
    ASSUME NEW text, NEW msgs, NEW st, Stream(text, msgs, st), NEW x \in Nat
    PROVE  \E p : Behind(text, msgs, st, x, p)
<1> DEFINE n == Len(msgs)
           at == NameAt(text)
           T == {j \in 1..n + 1 : j = n + 1 \/ ~(st[j] + at < x)}
<1>1. n \in Nat /\ \A j \in 1..n + 1 : st[j] \in Nat
  BY StreamFacts
<1>2. at \in Nat
  BY ByteFacts DEF NameAt
<1> HIDE DEF at
<1>3. T \subseteq Nat /\ T # {}
  BY <1>1
<1>4. PICK k \in T : \A y \in T : k <= y
  <2> HIDE DEF T
  <2> QED BY <1>3, Least
<1>5. k \in 1..n + 1 /\ k - 1 \in 0..n
  BY <1>1
<1>6. ASSUME NEW j \in 1..n PROVE j <= k - 1 <=> st[j] + at < x
  <2>1. CASE j <= k - 1
    <3>1. ~(k <= j) /\ j \in 1..n + 1
      BY <1>1, <1>5, <2>1
    <3>2. j \notin T
      BY <1>4, <3>1
    <3> QED BY <2>1, <3>1, <3>2
  <2>2. CASE ~(j <= k - 1)
    <3>1. k <= j /\ k # n + 1 /\ j \in 1..n + 1
      BY <1>1, <1>5, <2>2
    <3>2. st[k] <= st[j] /\ st[k] \in Nat /\ st[j] \in Nat
      BY <1>1, <1>5, <3>1, StreamFacts
    <3>3. ~(st[k] + at < x)
      BY <3>1
    <3>4. ~(st[j] + at < x)
      BY <1>2, <3>2, <3>3
    <3> QED BY <2>2, <3>4
  <2> QED BY <2>1, <2>2
<1> HIDE DEF T
<1>7. Behind(text, msgs, st, x, k - 1)
  BY <1>5, <1>6 DEF Behind, at
<1> QED BY <1>7

LEMMA BehindGrows ==
    ASSUME NEW text, NEW msgs, NEW st, Stream(text, msgs, st), NEW x \in Nat, NEW y \in Nat, x <= y,
           NEW p, NEW q, Behind(text, msgs, st, x, p), Behind(text, msgs, st, y, q)
    PROVE  p <= q /\ p \in Nat /\ q \in Nat
<1>1. p \in 0..Len(msgs) /\ q \in 0..Len(msgs) /\ Len(msgs) \in Nat
  BY StreamFacts DEF Behind
<1>2. CASE p = 0
  BY <1>1, <1>2
<1>3. CASE p # 0
  <2>1. p \in 1..Len(msgs) /\ p <= p
    BY <1>1, <1>3
  <2>2. st[p] + NameAt(text) < x
    BY <2>1 DEF Behind
  <2>3. st[p] \in Nat /\ NameAt(text) \in Nat
    BY <2>1, StreamFacts, ByteFacts DEF NameAt
  <2>4. st[p] + NameAt(text) < y
    BY <2>2, <2>3
  <2>5. p <= q
    BY <2>1, <2>4 DEF Behind
  <2> QED BY <1>1, <2>5
<1> QED BY <1>2, <1>3

LEMMA BehindLonger ==
    ASSUME NEW text, NEW msgs, NEW st, Stream(text, msgs, st), NEW m \in Message[text], NEW ts,
           \A j \in 1..Len(msgs) + 1 : ts[j] = st[j],
           NEW x \in Nat, NEW p, Behind(text, msgs, st, x, p), x <= st[Len(msgs) + 1] + NameAt(text)
    PROVE  Behind(text, Append(msgs, m), ts, x, p)
<1> DEFINE n == Len(msgs)
           more == Append(msgs, m)
           at == NameAt(text)
<1>1. msgs \in Seq(Message[text]) /\ text \in BOOLEAN /\ n \in Nat /\ \A j \in 1..n + 1 : st[j] \in Nat
  BY StreamFacts DEF Stream
<1>2. Len(more) = n + 1
  BY <1>1
<1>3. at \in Nat
  BY ByteFacts DEF NameAt
<1>4. p \in 0..n /\ \A j \in 1..n : j <= p <=> st[j] + at < x
  BY DEF Behind
<1> HIDE DEF n, more, at
<1>5. ASSUME NEW j \in 1..n + 1 PROVE j <= p <=> ts[j] + at < x
  <2>1. ts[j] = st[j] /\ st[j] \in Nat
    BY <1>1 DEF n
  <2>2. CASE j = n + 1
    <3>1. ~(j <= p)
      BY <1>1, <1>4, <2>2
    <3>2. x <= st[j] + at
      BY <2>2 DEF n, at
    <3>3. ~(ts[j] + at < x)
      BY <1>3, <2>1, <3>2
    <3> QED BY <3>1, <3>3
  <2>3. CASE j # n + 1
    <3>1. j \in 1..n
      BY <1>1, <2>3
    <3> QED BY <1>4, <2>1, <3>1
  <2> QED BY <2>2, <2>3
<1>6. p \in 0..n + 1
  BY <1>1, <1>4
<1>7. Behind(text, more, ts, x, p)
  BY <1>2, <1>5, <1>6 DEF Behind, at
<1> QED BY <1>7 DEF more

-----------------------------------------------------------------------------
(* The inductive invariant.                                                *)

Handled == [id : Nat, args : Seq(Seq(Byte))]

TopicsTypes ==
    /\ ScanInv
    /\ published \in Seq(Message[bArgIsString])
    /\ arriving \in Seq(Seq(Byte))
    /\ handled \in Seq(Handled)
    /\ overwritten \in BOOLEAN /\ clean \in BOOLEAN

At == NameAt(bArgIsString)

(* The queue holds what has been enqueued, but for pos bytes.              *)
Kept(st, pos) ==
    /\ Stream(bArgIsString, published, st) /\ pos \in Nat
    /\ Holds(bArgIsString, published, st, pos, queue)
    /\ Coming(bArgIsString, published, arriving, st, pos + Len(queue))

(* The scan has passed p messages, the one being handled among them.       *)
Seen(pos) == IF chState = "HANDLER" THEN pos + 1 ELSE pos
Passed(st, pos, p) == Behind(bArgIsString, published, st, Seen(pos), p)

InOrder(p) ==
    /\ \E place \in [DOMAIN handled -> 1..p] :
          /\ \A i, j \in DOMAIN handled : i < j => place[i] < place[j]
          /\ \A i \in DOMAIN handled : Answers(handled[i], published[place[i]])
    /\ overwritten \/ (Len(handled) = p /\ \A i \in DOMAIN handled : Answers(handled[i], published[i]))

Undisturbed == chState \in {"MSG", "HANDLER"} \cup ArgStates => undisturbed

(* The main loop is either publishing or scanning. *)
OneAtATime == ~bArgIsString /\ Calling => arriving = <<>>

(* The first byte of a message not yet passed is not dropped. *)
FirstKept(st, pos, p) ==
    Calling =>
        /\ queue = <<>> /\ hwIndex > 1 => ~bIsRequestDrop
        /\ \A j \in p + 1..Len(published) :
              pos = st[j] + At /\ hwIndex > published[j].id => ~bIsRequestDrop

MessageArgs(text, m, oa) ==
    /\ ArgsAt(m, oa)
    /\ IF text THEN LineShape(m, Sent(TRUE, m), oa) ELSE TopicShape(m, Sent(FALSE, m), oa)

ReadSame(m) ==
    /\ arg.read \in Seq(Seq(Byte)) /\ Len(arg.read) < Len(m.args)
    /\ \A k \in 1..Len(arg.read) : arg.read[k] = m.args[k]

BinaryRead(m, oa) ==
    /\ ~bArgIsString /\ arg.nums = Len(m.args) /\ arg.index = oa[Len(arg.read) + 1]
    /\ chState = "ARG_LENGTH" => cursor = Len(Name) + 1 + 2 * Len(arg.read) + oa[Len(arg.read) + 1]
    /\ chState = "ARG_BYTES" =>
          /\ cursor = Len(Name) + 1 + 2 * Len(arg.read) + oa[Len(arg.read) + 1] + 2
          /\ arg.len = Len(m.args[Len(arg.read) + 1])

TextRead(m, oa) ==
    /\ bArgIsString /\ Len(arg.word) <= Len(m.args[Len(arg.read) + 1])
    /\ \A x \in 1..Len(arg.word) : arg.word[x] = m.args[Len(arg.read) + 1][x]
    /\ arg.index = Len(arg.read) + oa[Len(arg.read) + 1] + Len(arg.word)
    /\ cursor = Len(Name) + Len(arg.read) + 1 + oa[Len(arg.read) + 1] + Len(arg.word)

AtMessage(st, pos, p) ==
    p + 1 \in 1..Len(published) /\ pos = st[p + 1] + At /\ hwIndex = published[p + 1].id

Reading(st, pos, p) ==
    /\ chState = "IS_START_OF_ARG" =>
          cursor = Len(Name) /\ arg.index = 0 /\ arg.read = <<>> /\ arg.word = <<>>
    /\ chState \in {"ARG_LENGTH", "ARG_BYTES", "ARG_TEXT"} =>
          /\ AtMessage(st, pos, p)
          /\ ReadSame(published[p + 1])
          /\ \E oa : /\ MessageArgs(bArgIsString, published[p + 1], oa)
                     /\ chState \in {"ARG_LENGTH", "ARG_BYTES"} => BinaryRead(published[p + 1], oa)
                     /\ chState = "ARG_TEXT" => TextRead(published[p + 1], oa)
    /\ chState = "HANDLER" =>
          p \in 1..Len(published) /\ pos = st[p] + At /\ cursor >= 1 /\ pos + cursor <= st[p + 1]

Ordered(st, pos, p) ==
    /\ Kept(st, pos) /\ Passed(st, pos, p) /\ InOrder(p)
    /\ Undisturbed /\ FirstKept(st, pos, p) /\ Reading(st, pos, p)

TopicsInv == TopicsTypes /\ (clean => OneAtATime /\ \E st, pos, p : Ordered(st, pos, p))

-----------------------------------------------------------------------------
(* It holds in the beginning, and the property follows from it.            *)
LEMMA TopicsInvInit == Init => TopicsInv
<1> SUFFICES ASSUME Init PROVE TopicsInv
  OBVIOUS
<1>1. /\ ScanInit /\ arriving = <<>> /\ published = <<>> /\ handled = <<>>
      /\ overwritten = FALSE /\ clean = TRUE
  BY DEF Init
<1>2. queue = <<>> /\ cursor = 0 /\ chState = "START" /\ bArgIsString \in BOOLEAN
  BY <1>1 DEF ScanInit
<1>3. TopicsTypes
  <2>1. published \in Seq(Message[bArgIsString]) /\ arriving \in Seq(Seq(Byte)) /\ handled \in Seq(Handled)
    BY <1>1, EmptySeq
  <2> QED BY <1>1, <2>1, ScanInvInit DEF TopicsTypes
<1> DEFINE st == [j \in 1..1 |-> 0]
<1>4. st \in [1..1 -> Nat] /\ st[1] = 0
  OBVIOUS
<1> HIDE DEF st
<1>5. Len(published) = 0 /\ DOMAIN handled = {} /\ Len(handled) = 0 /\ Len(queue) = 0
  BY <1>1, <1>2
<1>6. Stream(bArgIsString, published, st)
  <2>1. published \in Seq(Message[bArgIsString])
    BY <1>3 DEF TopicsTypes
  <2>2. Lengths(bArgIsString, published) \in [1..Len(published) -> Nat]
    BY <1>2, <2>1, LengthsType
  <2>3. st \in [1..Len(published) + 1 -> Nat] /\ st[1] = 0 /\ 1..Len(published) = {}
    BY <1>4, <1>5
  <2> QED BY <1>2, <1>5, <2>1, <2>2, <2>3 DEF Stream, Sums
<1>7. Kept(st, 0)
  <2>1. Holds(bArgIsString, published, st, 0, queue)
    BY <1>5 DEF Holds
  <2>2. Coming(bArgIsString, published, arriving, st, 0 + Len(queue))
    BY <1>1, <1>4, <1>5 DEF Coming
  <2> QED BY <1>6, <2>1, <2>2 DEF Kept
<1>8. Passed(st, 0, 0)
  BY <1>5 DEF Passed, Behind
<1>9. InOrder(0)
  <2> DEFINE place == [i \in DOMAIN handled |-> 1]
  <2>1. place \in [DOMAIN handled -> 1..0]
    BY <1>5
  <2> HIDE DEF place
  <2> QED BY <1>5, <2>1 DEF InOrder
<1>10. Undisturbed /\ OneAtATime /\ FirstKept(st, 0, 0) /\ Reading(st, 0, 0)
  BY <1>1, <1>2 DEF Undisturbed, OneAtATime, FirstKept, Reading, ArgStates, Calling
<1> QED BY <1>3, <1>7, <1>8, <1>9, <1>10 DEF TopicsInv, Ordered

LEMMA TopicsOrder ==
    ASSUME TopicsInv PROVE HandledInOrder
<1> SUFFICES ASSUME clean
             PROVE  /\ \E place \in [DOMAIN handled -> DOMAIN published] :
                          /\ \A i, j \in DOMAIN handled : i < j => place[i] < place[j]
                          /\ \A i \in DOMAIN handled : Answers(handled[i], published[place[i]])
                    /\ overwritten \/ \A i \in DOMAIN handled : Answers(handled[i], published[i])
  BY DEF HandledInOrder
<1>1. PICK st, pos, p : Ordered(st, pos, p)
  BY DEF TopicsInv
<1>2. PICK place \in [DOMAIN handled -> 1..p] :
          /\ \A i, j \in DOMAIN handled : i < j => place[i] < place[j]
          /\ \A i \in DOMAIN handled : Answers(handled[i], published[place[i]])
  BY <1>1 DEF Ordered, InOrder
<1>3. overwritten \/ \A i \in DOMAIN handled : Answers(handled[i], published[i])
  BY <1>1 DEF Ordered, InOrder
<1>4. place \in [DOMAIN handled -> DOMAIN published]
  <2>1. published \in Seq(Message[bArgIsString])
    BY DEF TopicsInv, TopicsTypes
  <2>2. DOMAIN published = 1..Len(published) /\ Len(published) \in Nat
    BY <2>1
  <2>3. p \in 0..Len(published)
    BY <1>1 DEF Ordered, Passed, Behind
  <2>4. 1..p \subseteq DOMAIN published
    BY <2>2, <2>3
  <2> QED BY <1>2, <2>4
<1> QED BY <1>2, <1>3, <1>4

-----------------------------------------------------------------------------
(* What publishes: bytes enter the queue, and lost of the oldest go.       *)
Entered(msgs, ts, pos, bytes, whole, lost) ==
    /\ UNCHANGED <<bArgIsString, chState, hwIndex, matched, bIsRequestDrop, arg>>
    /\ Holds(bArgIsString, msgs, ts, pos + lost, queue')
    /\ (pos + lost) + Len(queue') = (pos + Len(queue)) + Len(bytes)
    /\ lost = 0 => /\ cursor' = cursor /\ undisturbed' = undisturbed /\ overwritten' = overwritten
                   /\ Len(queue) <= Len(queue')
    /\ lost # 0 => overwritten' = TRUE
    /\ clean' => clean /\ whole /\ (lost = 0 \/ chState = "START")
    /\ overwritten' \in BOOLEAN /\ clean' \in BOOLEAN

LEMMA EntersBytes ==
    ASSUME ScanInv, NEW bytes \in Seq(Byte), NEW whole \in BOOLEAN, Enters(bytes, whole),
           overwritten \in BOOLEAN, clean \in BOOLEAN,
           NEW msgs, NEW ts, Stream(bArgIsString, msgs, ts), Len(msgs) > 0,
           NEW pos \in Nat, Holds(bArgIsString, msgs, ts, pos, queue),
           NEW e \in Nat, PartOf(bytes, Sent(bArgIsString, msgs[Len(msgs)]), e),
           pos + Len(queue) = ts[Len(msgs)] + e
    PROVE  \E lost \in Nat : Entered(msgs, ts, pos, bytes, whole, lost)
<1> DEFINE all == queue \o bytes
           lost == Len(all) - Fewer(Len(all), QSize)
           overflows == Len(queue) + Len(bytes) > QSize
<1>1. queue \in Seq(Byte) /\ Len(queue) \in Nat /\ Len(bytes) \in Nat /\ QSize \in Nat /\ undisturbed \in BOOLEAN
  <2>1. queue \in Seq(Byte) /\ undisturbed \in BOOLEAN
    BY DEF ScanInv, ScanTypes
  <2>2. QSize \in Nat
    BY ScanAssumption
  <2>3. Len(queue) \in Nat /\ Len(bytes) \in Nat
    BY <2>1
  <2> QED BY <2>1, <2>2, <2>3
<1>2. all \in Seq(Byte) /\ Len(all) = Len(queue) + Len(bytes)
  BY <1>1, Joined
<1>3. /\ UNCHANGED <<bArgIsString, chState, hwIndex, matched, bIsRequestDrop, arg>>
      /\ queue' = SubSeq(all, lost + 1, Len(all))
      /\ cursor' = IF lost > 0 THEN 0 ELSE cursor
      /\ undisturbed' = (undisturbed /\ lost = 0)
      /\ overwritten' = (overwritten \/ overflows)
      /\ clean' = (clean /\ whole /\ (overflows => chState = "START"))
  BY DEF Enters, Enqueue
<1>4. Holds(bArgIsString, msgs, ts, pos, all)
  BY <1>1, HoldsMore
<1> HIDE DEF all
<1>5. lost \in 0..Len(all) /\ lost \in Nat /\ (overflows <=> lost # 0)
  <2>1. Len(all) \in Nat
    BY <1>2
  <2> DEFINE l == Len(all)
  <2>2. l \in Nat /\ l = Len(queue) + Len(bytes)
    BY <1>2, <2>1
  <2> HIDE DEF l
  <2>3. /\ l - Fewer(l, QSize) \in 0..l
        /\ (l > QSize <=> l - Fewer(l, QSize) # 0)
    <3>1. QSize \in Nat /\ l \in Nat
      BY <1>1, <2>2
    <3> QED BY <3>1 DEF Fewer
  <2>4. overflows <=> l > QSize
    BY <2>2
  <2> QED BY <2>2, <2>3, <2>4 DEF l
<1> HIDE DEF lost, overflows
<1>6. Holds(bArgIsString, msgs, ts, pos + lost, queue')
  BY <1>2, <1>3, <1>4, <1>5, HoldsLess
<1>7. Len(queue') = Len(all) - lost
  BY <1>2, <1>3, <1>5
<1>8. (pos + lost) + Len(queue') = (pos + Len(queue)) + Len(bytes)
  BY <1>1, <1>2, <1>5, <1>7
<1>9. lost = 0 => /\ cursor' = cursor /\ undisturbed' = undisturbed /\ overwritten' = overwritten
                  /\ Len(queue) <= Len(queue')
  <2> SUFFICES ASSUME lost = 0
               PROVE /\ cursor' = cursor /\ undisturbed' = undisturbed /\ overwritten' = overwritten
                     /\ Len(queue) <= Len(queue')
    OBVIOUS
  <2>1. cursor' = cursor /\ ~overflows
    BY <1>3, <1>5
  <2>2. Len(queue) <= Len(queue')
    BY <1>1, <1>2, <1>7
  <2>3. undisturbed' = undisturbed
    BY <1>1, <1>3
  <2>4. overwritten' = overwritten
    BY <1>3, <2>1
  <2> QED BY <2>1, <2>2, <2>3, <2>4
<1>10. lost # 0 => overwritten' = TRUE
  BY <1>3, <1>5
<1>11. clean' => clean /\ whole /\ (lost = 0 \/ chState = "START")
  BY <1>3, <1>5
<1>12. overwritten' \in BOOLEAN /\ clean' \in BOOLEAN
  BY <1>3
<1>13. Entered(msgs, ts, pos, bytes, whole, lost)
  BY <1>3, <1>6, <1>8, <1>9, <1>10, <1>11, <1>12 DEF Entered
<1> QED BY <1>5, <1>13

(* No name begins behind what the scan has before it. *)
LEMMA SeenWithin ==
    ASSUME TopicsTypes, NEW st, NEW pos, NEW p, Ordered(st, pos, p)
    PROVE  Seen(pos) \in Nat /\ pos \in Nat /\ Len(queue) \in Nat /\ Seen(pos) <= st[Len(published) + 1]
           /\ pos + Len(queue) <= st[Len(published) + 1] /\ st[Len(published) + 1] \in Nat
<1> DEFINE n == Len(published)
<1>1. Stream(bArgIsString, published, st) /\ pos \in Nat
      /\ Coming(bArgIsString, published, arriving, st, pos + Len(queue))
  BY DEF Ordered, Kept
<1>2. n \in Nat /\ n + 1 \in 1..n + 1 /\ st[n + 1] \in Nat /\ \A j \in 1..n + 1 : st[j] \in Nat
  BY <1>1, StreamFacts
<1>3. queue \in Seq(Byte) /\ Len(queue) \in Nat /\ cursor \in 0..Len(queue)
  BY DEF TopicsTypes, ScanInv, ScanTypes
<1>4. pos + Len(queue) <= st[n + 1]
  BY <1>1, ComingHere
<1>5. CASE chState = "HANDLER"
  <2>1. p \in 1..n /\ cursor >= 1 /\ pos + cursor <= st[p + 1]
    BY <1>5 DEF Ordered, Reading
  <2>2. p + 1 \in 1..n + 1 /\ p + 1 <= n + 1
    BY <1>2, <2>1
  <2>3. st[p + 1] <= st[n + 1]
    BY <1>1, <1>2, <2>2, StreamFacts
  <2>4. pos + 1 <= st[n + 1]
    BY <1>1, <1>2, <1>3, <2>1, <2>2, <2>3
  <2> QED BY <1>1, <1>2, <1>3, <1>4, <1>5, <2>4 DEF Seen
<1>6. CASE chState # "HANDLER"
  <2>1. pos <= st[n + 1]
    BY <1>1, <1>2, <1>3, <1>4
  <2> QED BY <1>1, <1>2, <1>3, <1>4, <1>6, <2>1 DEF Seen
<1> QED BY <1>5, <1>6

(* What has been handled stays in order while messages are published.      *)
LEMMA OrderLasts ==
    ASSUME TopicsTypes, NEW p \in 0..Len(published), InOrder(p), handled' = handled,
           published' \in Seq(Message[bArgIsString]), Len(published) <= Len(published'),
           \A j \in 1..Len(published) : published'[j] = published[j],
           NEW q \in Nat, p <= q, overwritten' \in BOOLEAN, overwritten' \/ (q = p /\ ~overwritten)
    PROVE  InOrder(q)'
<1>1. PICK place \in [DOMAIN handled -> 1..p] :
          /\ \A i, j \in DOMAIN handled : i < j => place[i] < place[j]
          /\ \A i \in DOMAIN handled : Answers(handled[i], published[place[i]])
  BY DEF InOrder
<1>2. published \in Seq(Message[bArgIsString]) /\ Len(published) \in Nat /\ handled \in Seq(Handled)
      /\ DOMAIN handled = 1..Len(handled) /\ Len(handled) \in Nat
  BY DEF TopicsTypes
<1>3. 1..p \subseteq 1..q /\ 1..p \subseteq 1..Len(published)
  BY <1>2
<1>4. place \in [DOMAIN handled -> 1..q]
  BY <1>3
<1>5. \A i \in DOMAIN handled : published'[place[i]] = published[place[i]]
  BY <1>3
<1>6. \A i \in DOMAIN handled : Answers(handled[i], published'[place[i]])
  BY <1>1, <1>5
<1>7. overwritten' \/ (Len(handled) = q /\ \A i \in DOMAIN handled : Answers(handled[i], published'[i]))
  <2> SUFFICES ASSUME ~overwritten'
               PROVE  Len(handled) = q /\ \A i \in DOMAIN handled : Answers(handled[i], published'[i])
    OBVIOUS
  <2>1. q = p /\ ~overwritten
    OBVIOUS
  <2>2. Len(handled) = p /\ \A i \in DOMAIN handled : Answers(handled[i], published[i])
    BY <2>1 DEF InOrder
  <2>3. \A i \in DOMAIN handled : published'[i] = published[i]
    BY <1>2, <1>3, <2>2
  <2> QED BY <2>1, <2>2, <2>3
<1> DEFINE G(f) == /\ \A i, j \in DOMAIN handled : i < j => f[i] < f[j]
                   /\ \A i \in DOMAIN handled : Answers(handled[i], published'[f[i]])
<1>8. G(place)
  BY <1>1, <1>6
<1> HIDE DEF G
<1>9. \E f \in [DOMAIN handled -> 1..q] : G(f)
  BY <1>4, <1>8
<1> QED BY <1>7, <1>9 DEF InOrder, G

(* More bytes, perhaps of a new message; the oldest are lost only where    *)
(* the scan is not being called.                                           *)
Grows(st, ts, pos, lost) ==
    /\ UNCHANGED <<bArgIsString, chState, hwIndex, matched, bIsRequestDrop, arg, handled>>
    /\ \/ published' = published
       \/ \E m \in Message[bArgIsString] : published' = Append(published, m)
    /\ \A j \in 1..Len(published) + 1 : ts[j] = st[j]
    /\ lost = 0 => /\ cursor' = cursor /\ undisturbed' = undisturbed /\ overwritten' = overwritten
                   /\ Len(queue) <= Len(queue')
    /\ lost # 0 => overwritten' = TRUE /\ chState = "START"

LEMMA GrownPublished ==
    ASSUME TopicsTypes, NEW st, NEW ts, NEW pos, NEW lost, Grows(st, ts, pos, lost)
    PROVE  /\ published \in Seq(Message[bArgIsString]) /\ Len(published) \in Nat
           /\ published' \in Seq(Message[bArgIsString]) /\ Len(published') \in Nat
           /\ Len(published) <= Len(published') /\ Len(published') <= Len(published) + 1
           /\ \A j \in 1..Len(published) : published'[j] = published[j]
<1>1. published \in Seq(Message[bArgIsString]) /\ Len(published) \in Nat
  BY DEF TopicsTypes
<1>2. CASE published' = published
  BY <1>1, <1>2
<1>3. ASSUME NEW m \in Message[bArgIsString], published' = Append(published, m)
      PROVE  /\ published' \in Seq(Message[bArgIsString]) /\ Len(published') \in Nat
             /\ Len(published) <= Len(published') /\ Len(published') <= Len(published) + 1
             /\ \A j \in 1..Len(published) : published'[j] = published[j]
  BY <1>1, <1>3
<1> QED BY <1>1, <1>2, <1>3 DEF Grows

LEMMA GrowsPassed ==
    ASSUME TopicsTypes, TopicsTypes', NEW st, NEW ts, NEW pos, NEW p, NEW lost \in Nat, Ordered(st, pos, p),
           Grows(st, ts, pos, lost), Kept(ts, pos + lost)'
    PROVE  \E q : /\ Passed(ts, pos + lost, q)' /\ InOrder(q)' /\ (lost = 0 => q = p)
<1>1. /\ Stream(bArgIsString, published, st) /\ Passed(st, pos, p) /\ InOrder(p)
      /\ Stream(bArgIsString, published', ts)
  <2>1. bArgIsString' = bArgIsString
    BY DEF Grows
  <2> QED BY <2>1 DEF Ordered, Kept
<1>2. Seen(pos) \in Nat /\ pos \in Nat /\ Seen(pos) <= st[Len(published) + 1] /\ st[Len(published) + 1] \in Nat
  BY SeenWithin
<1>3. p \in 0..Len(published)
  BY <1>1 DEF Passed, Behind
<1>4. Behind(bArgIsString, published', ts, Seen(pos), p)
  <2>1. CASE published' = published
    <3>1. \A j \in 1..Len(published) : ts[j] = st[j]
      <4>1. \A j \in 1..Len(published) : j \in 1..Len(published) + 1
        BY GrownPublished
      <4> QED BY <4>1 DEF Grows
    <3> QED BY <1>1, <2>1, <3>1 DEF Passed, Behind
  <2>2. ASSUME NEW m \in Message[bArgIsString], published' = Append(published, m)
        PROVE  Behind(bArgIsString, published', ts, Seen(pos), p)
    <3>1. NameAt(bArgIsString) \in Nat
      BY ByteFacts DEF NameAt
    <3>2. Seen(pos) <= st[Len(published) + 1] + NameAt(bArgIsString)
      BY <1>2, <3>1
    <3>3. \A j \in 1..Len(published) + 1 : ts[j] = st[j]
      BY DEF Grows
    <3>4. Behind(bArgIsString, published, st, Seen(pos), p)
      BY <1>1 DEF Passed
    <3>5. Behind(bArgIsString, Append(published, m), ts, Seen(pos), p)
      BY <1>1, <1>2, <3>2, <3>3, <3>4, BehindLonger
    <3> QED BY <2>2, <3>5
  <2> QED BY <2>1, <2>2 DEF Grows
<1>5. chState' = chState /\ bArgIsString' = bArgIsString
  BY DEF Grows
<1>6. CASE lost = 0
  <2>1. pos + lost = pos
    BY <1>2, <1>6
  <2>2. Passed(ts, pos, p)'
    BY <1>4, <1>5 DEF Passed, Seen
  <2>3. InOrder(p)'
    <3>1. overwritten' = overwritten /\ handled' = handled
      BY <1>6 DEF Grows
    <3>2. overwritten \in BOOLEAN /\ overwritten' \in BOOLEAN /\ (overwritten' \/ (p = p /\ ~overwritten))
      BY <3>1 DEF TopicsTypes
    <3>3. p \in Nat /\ p <= p
      BY <1>3
    <3> HIDE DEF InOrder
    <3> QED BY <1>1, <1>3, <3>1, <3>2, <3>3, GrownPublished, OrderLasts
  <2> QED BY <2>1, <2>2, <2>3
<1>7. CASE lost # 0
  <2>1. overwritten' = TRUE /\ chState = "START" /\ handled' = handled
    BY <1>7 DEF Grows
  <2>2. Seen(pos) = pos /\ pos + lost \in Nat /\ pos <= pos + lost
    BY <1>2, <2>1 DEF Seen
  <2>3. PICK q : Behind(bArgIsString, published', ts, pos + lost, q)
    BY <1>1, <2>2, BehindExists
  <2>4. Behind(bArgIsString, published', ts, pos, p)
    BY <1>4, <2>2
  <2>5. p <= q /\ q \in Nat
    BY <1>1, <1>2, <2>2, <2>3, <2>4, BehindGrows
  <2>6. Passed(ts, pos + lost, q)'
    BY <1>5, <2>1, <2>3 DEF Passed, Seen
  <2>7. InOrder(q)'
    <3>1. overwritten' \in BOOLEAN /\ (overwritten' \/ (q = p /\ ~overwritten))
      BY <2>1
    <3> QED BY <1>1, <1>3, <2>1, <2>5, <3>1, GrownPublished, OrderLasts
  <2> QED BY <1>7, <2>6, <2>7
<1> QED BY <1>6, <1>7

LEMMA GrowsOrdered ==
    ASSUME TopicsTypes, TopicsTypes', NEW st, NEW ts, NEW pos, NEW p, NEW lost \in Nat, Ordered(st, pos, p),
           Grows(st, ts, pos, lost), Kept(ts, pos + lost)'
    PROVE  \E q : Ordered(ts, pos + lost, q)'
<1>1. PICK q : Passed(ts, pos + lost, q)' /\ InOrder(q)' /\ (lost = 0 => q = p)
  BY GrowsPassed
<1>2. UNCHANGED <<bArgIsString, chState, hwIndex, matched, bIsRequestDrop, arg, handled>>
  BY DEF Grows
<1>3. /\ Len(published) \in Nat /\ Len(published') \in Nat
      /\ Len(published) <= Len(published') /\ Len(published') <= Len(published) + 1
      /\ published' \in Seq(Message[bArgIsString])
      /\ \A j \in 1..Len(published) : published'[j] = published[j]
  BY GrownPublished
<1>4. Undisturbed /\ FirstKept(st, pos, p) /\ Reading(st, pos, p) /\ p \in 0..Len(published)
  BY DEF Ordered, Passed, Behind
<1>5. CASE chState = "START"
  <2>1. chState' = "START"
    BY <1>2, <1>5
  <2>2. Undisturbed' /\ FirstKept(ts, pos + lost, q)' /\ Reading(ts, pos + lost, q)'
    BY <2>1 DEF Undisturbed, FirstKept, Reading, ArgStates, Calling
  <2> QED BY <1>1, <2>2 DEF Ordered
<1>6. CASE chState # "START"
  <2>1. lost = 0
    BY <1>6 DEF Grows
  <2>2. /\ cursor' = cursor /\ undisturbed' = undisturbed /\ Len(queue) <= Len(queue')
        /\ \A j \in 1..Len(published) + 1 : ts[j] = st[j]
    BY <2>1 DEF Grows
  <2>3. q = p
    BY <1>1, <2>1
  <2>4. pos \in Nat /\ Len(queue) \in Nat /\ pos + Len(queue) <= st[Len(published) + 1] /\ st[Len(published) + 1] \in Nat
        /\ pos + lost = pos
    BY <2>1, SeenWithin
  <2>5. Undisturbed'
    BY <1>2, <1>4, <2>2 DEF Undisturbed
  <2>6. FirstKept(ts, pos, p)'
    <3> SUFFICES ASSUME Calling'
                 PROVE  /\ queue' = <<>> /\ hwIndex' > 1 => ~bIsRequestDrop'
                        /\ \A j \in p + 1..Len(published') :
                              pos = ts[j] + At' /\ hwIndex' > published'[j].id => ~bIsRequestDrop'
      BY DEF FirstKept
    <3>1. Calling /\ At' = At
      BY <1>2 DEF Calling, At
    <3>2. /\ queue = <<>> /\ hwIndex > 1 => ~bIsRequestDrop
          /\ \A j \in p + 1..Len(published) :
                pos = st[j] + At /\ hwIndex > published[j].id => ~bIsRequestDrop
      BY <1>4, <3>1 DEF FirstKept
    <3>3. queue \in Seq(Byte) /\ queue' \in Seq(Byte)
      BY DEF TopicsTypes, ScanInv, ScanTypes
    <3>4. queue' = <<>> => queue = <<>>
      <4> SUFFICES ASSUME queue' = <<>> PROVE queue = <<>>
        OBVIOUS
      <4>1. Len(queue') = 0
        OBVIOUS
      <4>2. Len(queue) = 0
        BY <2>2, <2>4, <4>1
      <4> QED BY <3>3, <4>2
    <3>5. ASSUME NEW j \in p + 1..Len(published'), pos = ts[j] + At, hwIndex > published'[j].id
          PROVE  ~bIsRequestDrop
      <4>1. CASE j \in 1..Len(published)
        <5>1. j \in 1..Len(published) + 1 /\ j \in p + 1..Len(published)
          BY <1>3, <1>4, <4>1
        <5> QED BY <1>3, <2>2, <3>2, <3>5, <4>1, <5>1
      <4>2. CASE j \notin 1..Len(published)
        <5>1. j = Len(published) + 1 /\ j \in 1..Len(published) + 1 /\ j \in 1..Len(published')
          BY <1>3, <1>4, <4>2
        <5>2. At \in Nat
          BY ByteFacts DEF At, NameAt
        <5>3. ts[j] = st[Len(published) + 1]
          BY <2>2, <5>1
        <5>4. Len(queue) = 0
          <6> DEFINE a == st[Len(published) + 1]
                     l == Len(queue)
          <6>1. a \in Nat /\ l \in Nat /\ pos + l <= a /\ pos = a + At
            BY <2>4, <3>5, <5>3
          <6> HIDE DEF a, l
          <6>2. l = 0
            BY <2>4, <5>2, <6>1
          <6> QED BY <6>2 DEF l
        <5>5. queue = <<>>
          BY <3>3, <5>4
        <5>6. published'[j].id \in Nat /\ published'[j].id >= 1 /\ hwIndex \in Nat
          <6>1. published'[j] \in Message[bArgIsString] /\ bArgIsString \in BOOLEAN
            <7>1. bArgIsString \in BOOLEAN
              BY DEF TopicsTypes, ScanInv, ScanTypes
            <7> QED BY <1>3, <5>1, <7>1
          <6>2. published'[j].id \in 1..Len(NameTable[bArgIsString]) /\ Len(NameTable[bArgIsString]) \in Nat
            BY <6>1, MessageFacts
          <6>3. hwIndex \in Nat
            BY DEF TopicsTypes, ScanInv, ScanTypes
          <6> QED BY <6>2, <6>3
        <5>7. hwIndex > 1
          BY <3>5, <5>6
        <5> QED BY <3>2, <5>5, <5>7
      <4> QED BY <4>1, <4>2
    <3> QED BY <1>2, <3>1, <3>2, <3>4, <3>5
  <2>7. Reading(ts, pos, p)'
    <3>1. At' = At /\ Name' = Name
      BY <1>2 DEF At, Name, Names
    <3>2. /\ chState = "IS_START_OF_ARG" =>
                cursor = Len(Name) /\ arg.index = 0 /\ arg.read = <<>> /\ arg.word = <<>>
          /\ chState \in {"ARG_LENGTH", "ARG_BYTES", "ARG_TEXT"} =>
                /\ AtMessage(st, pos, p)
                /\ ReadSame(published[p + 1])
                /\ \E oa : /\ MessageArgs(bArgIsString, published[p + 1], oa)
                           /\ chState \in {"ARG_LENGTH", "ARG_BYTES"} => BinaryRead(published[p + 1], oa)
                           /\ chState = "ARG_TEXT" => TextRead(published[p + 1], oa)
          /\ chState = "HANDLER" =>
                p \in 1..Len(published) /\ pos = st[p] + At /\ cursor >= 1 /\ pos + cursor <= st[p + 1]
      BY <1>4 DEF Reading
    <3>3. (chState = "IS_START_OF_ARG" =>
                cursor = Len(Name) /\ arg.index = 0 /\ arg.read = <<>> /\ arg.word = <<>>)'
      BY <1>2, <2>2, <3>1, <3>2
    <3>4. ASSUME chState' \in {"ARG_LENGTH", "ARG_BYTES", "ARG_TEXT"}
          PROVE  (/\ AtMessage(ts, pos, p)
                  /\ ReadSame(published[p + 1])
                  /\ \E oa : /\ MessageArgs(bArgIsString, published[p + 1], oa)
                             /\ chState \in {"ARG_LENGTH", "ARG_BYTES"} => BinaryRead(published[p + 1], oa)
                             /\ chState = "ARG_TEXT" => TextRead(published[p + 1], oa))'
      <4>1. AtMessage(st, pos, p) /\ ReadSame(published[p + 1])
        BY <1>2, <3>2, <3>4
      <4>2. p + 1 \in 1..Len(published) /\ p + 1 \in 1..Len(published') /\ p + 1 \in 1..Len(published) + 1
        BY <1>3, <1>4, <4>1 DEF AtMessage
      <4>3. published'[p + 1] = published[p + 1] /\ ts[p + 1] = st[p + 1]
        BY <1>3, <2>2, <4>2
      <4>4. AtMessage(ts, pos, p)'
        BY <1>2, <3>1, <4>1, <4>2, <4>3 DEF AtMessage
      <4>5. ReadSame(published[p + 1])'
        BY <1>2, <4>1, <4>3 DEF ReadSame
      <4>6. PICK oa : /\ MessageArgs(bArgIsString, published[p + 1], oa)
                      /\ chState \in {"ARG_LENGTH", "ARG_BYTES"} => BinaryRead(published[p + 1], oa)
                      /\ chState = "ARG_TEXT" => TextRead(published[p + 1], oa)
        BY <1>2, <3>2, <3>4
      <4>7. MessageArgs(bArgIsString, published[p + 1], oa)'
        BY <1>2, <4>3, <4>6
      <4>8. (chState \in {"ARG_LENGTH", "ARG_BYTES"} => BinaryRead(published[p + 1], oa))'
        BY <1>2, <2>2, <3>1, <4>3, <4>6 DEF BinaryRead
      <4>9. (chState = "ARG_TEXT" => TextRead(published[p + 1], oa))'
        BY <1>2, <2>2, <3>1, <4>3, <4>6 DEF TextRead
      <4> QED BY <4>4, <4>5, <4>7, <4>8, <4>9
    <3>5. (chState = "HANDLER" =>
                p \in 1..Len(published) /\ pos = ts[p] + At /\ cursor >= 1 /\ pos + cursor <= ts[p + 1])'
      <4> SUFFICES ASSUME chState' = "HANDLER"
                   PROVE  p \in 1..Len(published') /\ pos = ts[p] + At' /\ cursor' >= 1 /\ pos + cursor' <= ts[p + 1]
        OBVIOUS
      <4>1. p \in 1..Len(published) /\ pos = st[p] + At /\ cursor >= 1 /\ pos + cursor <= st[p + 1]
        BY <1>2, <3>2
      <4>2. p \in 1..Len(published') /\ p \in 1..Len(published) + 1 /\ p + 1 \in 1..Len(published) + 1
        BY <1>3, <4>1
      <4>3. ts[p] = st[p] /\ ts[p + 1] = st[p + 1]
        BY <2>2, <4>2
      <4> QED BY <2>2, <3>1, <4>1, <4>2, <4>3
    <3> QED BY <3>3, <3>4, <3>5 DEF Reading
  <2> QED BY <1>1, <2>3, <2>4, <2>5, <2>6, <2>7 DEF Ordered
<1> QED BY <1>5, <1>6

SomeCome(text, msgs, coming, st, here) ==
    /\ coming # <<>> /\ Len(msgs) > 0
    /\ \E ob : \E b \in 1..Len(BlocksOf(text, msgs[Len(msgs)])) :
          /\ Flattened(BlocksOf(text, msgs[Len(msgs)]), ob, Sent(text, msgs[Len(msgs)]))
          /\ coming = SubSeq(BlocksOf(text, msgs[Len(msgs)]), b, Len(BlocksOf(text, msgs[Len(msgs)])))
          /\ here = st[Len(msgs)] + ob[b]

(* No blocks are to come exactly where the last message has come. *)
LEMMA AllCome ==
    ASSUME NEW text, NEW msgs, NEW st, Stream(text, msgs, st), NEW coming, NEW here,
           Coming(text, msgs, coming, st, here)
    PROVE  (coming = <<>> /\ here = st[Len(msgs) + 1]) \/ SomeCome(text, msgs, coming, st, here)
<1> SUFFICES ASSUME ~(coming = <<>> /\ here = st[Len(msgs) + 1])
             PROVE  /\ coming # <<>> /\ Len(msgs) > 0
                    /\ \E ob : \E b \in 1..Len(BlocksOf(text, msgs[Len(msgs)])) :
                          /\ Flattened(BlocksOf(text, msgs[Len(msgs)]), ob, Sent(text, msgs[Len(msgs)]))
                          /\ coming = SubSeq(BlocksOf(text, msgs[Len(msgs)]), b, Len(BlocksOf(text, msgs[Len(msgs)])))
                          /\ here = st[Len(msgs)] + ob[b]
  BY DEF SomeCome
<1> DEFINE n == Len(msgs)
           m == msgs[n]
           blocks == BlocksOf(text, m)
           s == Sent(text, m)
<1>1. n > 0 /\ \E ob : \E b \in 1..Len(blocks) - 1 :
        Flattened(blocks, ob, s) /\ coming = SubSeq(blocks, b + 1, Len(blocks)) /\ here = st[n] + ob[b + 1]
  BY DEF Coming
<1>2. text \in BOOLEAN /\ n \in Nat /\ n \in 1..n /\ m \in Message[text]
  BY <1>1, StreamFacts
<1>3. blocks \in Seq(Seq(Byte)) /\ Len(blocks) \in Nat
  BY <1>2, SentShape
<1> HIDE DEF m, blocks, s, n
<1>4. PICK ob : \E b \in 1..Len(blocks) - 1 :
        Flattened(blocks, ob, s) /\ coming = SubSeq(blocks, b + 1, Len(blocks)) /\ here = st[n] + ob[b + 1]
  BY <1>1
<1>5. PICK b \in 1..Len(blocks) - 1 :
        Flattened(blocks, ob, s) /\ coming = SubSeq(blocks, b + 1, Len(blocks)) /\ here = st[n] + ob[b + 1]
  BY <1>4
<1>6. b + 1 \in 1..Len(blocks)
  BY <1>3
<1>7. coming # <<>>
  BY <1>3, <1>5, <1>6, RestOf
<1> QED BY <1>1, <1>5, <1>6, <1>7 DEF s, blocks, m, n

LEMMA WholeSeq ==
    ASSUME NEW S, NEW s \in Seq(S)
    PROVE  SubSeq(s, 1, Len(s)) = s
OBVIOUS

(* A message, and the first of its blocks. *)
LEMMA FirstBlock ==
    ASSUME NEW text, NEW msgs, NEW st, Stream(text, msgs, st), Len(msgs) > 0, NEW blocks,
           blocks = BlocksOf(text, msgs[Len(msgs)])
    PROVE  /\ Head(blocks) \in Seq(Byte) /\ Tail(blocks) \in Seq(Seq(Byte))
           /\ PartOf(Head(blocks), Sent(text, msgs[Len(msgs)]), 0)
           /\ Coming(text, msgs, Tail(blocks), st, (st[Len(msgs)] + 0) + Len(Head(blocks)))
<1> DEFINE m == msgs[Len(msgs)]
<1>1. text \in BOOLEAN /\ Len(msgs) \in 1..Len(msgs) /\ m \in Message[text]
  BY StreamFacts
<1>2. blocks \in Seq(Seq(Byte)) /\ Len(blocks) > 0 /\ Len(blocks) \in Nat
  BY <1>1, SentShape
<1>3. PICK ob : Flattened(BlocksOf(text, m), ob, Sent(text, m))
  BY <1>1, BlocksFlatten
<1>4. ob[1] = 0
  BY <1>1, <1>3, BlocksAt
<1>5. 1 \in 1..Len(BlocksOf(text, m))
  BY <1>2
<1>6. blocks = SubSeq(BlocksOf(text, m), 1, Len(BlocksOf(text, m)))
  BY <1>2, WholeSeq
<1> HIDE DEF m
<1>7. /\ Head(blocks) \in Seq(Byte)
      /\ PartOf(Head(blocks), Sent(text, m), ob[1])
      /\ Coming(text, msgs, Tail(blocks), st, (st[Len(msgs)] + ob[1]) + Len(Head(blocks)))
  BY <1>3, <1>5, <1>6, BlockComes DEF m
<1>8. Tail(blocks) \in Seq(Seq(Byte))
  <2> DEFINE S == Seq(Byte)
  <2>1. blocks \in Seq(S) /\ Len(blocks) > 0
    BY <1>2
  <2> HIDE DEF S
  <2>2. blocks # <<>>
    BY <2>1
  <2>3. Tail(blocks) \in Seq(S)
    BY <2>1, <2>2
  <2> QED BY <2>3 DEF S
<1> QED BY <1>4, <1>7, <1>8 DEF m

LEMMA EntersTypes ==
    ASSUME TopicsTypes, NEW bytes \in Seq(Byte), NEW whole \in BOOLEAN, Enters(bytes, whole), handled' = handled,
           published' \in Seq(Message[bArgIsString]), arriving' \in Seq(Seq(Byte))
    PROVE  TopicsTypes'
<1>1. ScanInv' /\ bArgIsString' = bArgIsString
  BY EnqueueKeepsScan DEF Enters, TopicsTypes, Enqueue
<1>2. overwritten' \in BOOLEAN /\ clean' \in BOOLEAN
  BY DEF Enters
<1> QED BY <1>1, <1>2 DEF TopicsTypes

(* Any bytes of the newest message, as they come. *)
LEMMA EntersOrdered ==
    ASSUME TopicsTypes, clean', NEW bytes \in Seq(Byte), NEW whole \in BOOLEAN, Enters(bytes, whole),
           handled' = handled, TopicsTypes', NEW st, NEW pos, NEW p, Ordered(st, pos, p),
           published' = published \/ \E m \in Message[bArgIsString] : published' = Append(published, m),
           NEW ts, Stream(bArgIsString, published', ts), Len(published') > 0,
           \A j \in 1..Len(published) + 1 : ts[j] = st[j],
           Holds(bArgIsString, published', ts, pos, queue),
           NEW e \in Nat, PartOf(bytes, Sent(bArgIsString, published'[Len(published')]), e),
           pos + Len(queue) = ts[Len(published')] + e,
           Coming(bArgIsString, published', arriving', ts, (ts[Len(published')] + e) + Len(bytes))
    PROVE  \E qs, qos, q : Ordered(qs, qos, q)'
<1>1. ScanInv /\ overwritten \in BOOLEAN /\ clean \in BOOLEAN /\ pos \in Nat
  BY DEF TopicsTypes, Ordered, Kept
<1> DEFINE E(l) == Entered(published', ts, pos, bytes, whole, l)
<1>7. \E l \in Nat : E(l)
  BY <1>1, EntersBytes
<1> HIDE DEF E
<1>8. PICK lost \in Nat : E(lost)
  BY <1>7
<1>2. /\ UNCHANGED <<bArgIsString, chState, hwIndex, matched, bIsRequestDrop, arg>>
      /\ Holds(bArgIsString, published', ts, pos + lost, queue')
      /\ (pos + lost) + Len(queue') = (pos + Len(queue)) + Len(bytes)
      /\ lost = 0 => /\ cursor' = cursor /\ undisturbed' = undisturbed /\ overwritten' = overwritten
                     /\ Len(queue) <= Len(queue')
      /\ lost # 0 => overwritten' = TRUE
      /\ clean' => clean /\ whole /\ (lost = 0 \/ chState = "START")
      /\ overwritten' \in BOOLEAN /\ clean' \in BOOLEAN
  BY <1>8 DEF E, Entered
<1>3. Grows(st, ts, pos, lost)
  BY <1>2 DEF Grows
<1>4. Coming(bArgIsString, published', arriving', ts, (pos + lost) + Len(queue'))
  BY <1>2
<1>5. Kept(ts, pos + lost)'
  <2>1. pos + lost \in Nat
    BY <1>1
  <2> QED BY <1>2, <1>4, <2>1 DEF Kept
<1>6. \E q : Ordered(ts, pos + lost, q)'
  BY <1>3, <1>5, GrowsOrdered
<1> QED BY <1>6

LEMMA publishKeeps ==
    ASSUME TopicsInv, NEW m \in Message[bArgIsString], publish(m)
    PROVE  TopicsInv'
<1> DEFINE blocks == BlocksOf(bArgIsString, m)
           more == Append(published, m)
           n == Len(published)
<1>1. /\ arriving = <<>> /\ (bArgIsString \/ ~Calling) /\ Enters(Head(blocks), TRUE)
      /\ arriving' = Tail(blocks) /\ published' = more /\ handled' = handled
  BY DEF publish, Blocks, BlocksOf, InterruptOnly
<1>2. /\ bArgIsString \in BOOLEAN /\ published \in Seq(Message[bArgIsString]) /\ n \in Nat /\ TopicsTypes
      /\ clean \in BOOLEAN
  BY DEF TopicsInv, TopicsTypes, ScanInv, ScanTypes
<1>3. more \in Seq(Message[bArgIsString]) /\ Len(more) = n + 1 /\ more[n + 1] = m
  BY <1>2
<1>4. bArgIsString' = bArgIsString /\ chState' = chState /\ (clean' => clean)
  BY <1>1 DEF Enters, Enqueue
<1> HIDE DEF blocks, more
<1>5. Head(blocks) \in Seq(Byte) /\ Tail(blocks) \in Seq(Seq(Byte))
  <2>1. blocks \in Seq(Seq(Byte)) /\ Len(blocks) > 0
    BY <1>2, SentShape DEF blocks
  <2> DEFINE S == Seq(Byte)
  <2>2. blocks \in Seq(S)
    BY <2>1
  <2> HIDE DEF S
  <2>3. blocks # <<>>
    BY <2>1, <2>2
  <2>4. Head(blocks) \in S /\ Tail(blocks) \in Seq(S)
    BY <2>1, <2>2, <2>3
  <2> QED BY <2>4 DEF S
<1>6. TopicsTypes'
  BY <1>1, <1>2, <1>3, <1>5, EntersTypes
<1>7. OneAtATime'
  BY <1>1, <1>4 DEF OneAtATime, Calling
<1>8. ASSUME clean' PROVE \E qs, qos, q : Ordered(qs, qos, q)'
  <2>1. PICK st, pos, p : Ordered(st, pos, p)
    BY <1>4, <1>8 DEF TopicsInv
  <2>2. /\ Stream(bArgIsString, published, st) /\ pos \in Nat /\ queue \in Seq(Byte) /\ Len(queue) \in Nat
        /\ Holds(bArgIsString, published, st, pos, queue)
        /\ Coming(bArgIsString, published, arriving, st, pos + Len(queue))
    <3>1. queue \in Seq(Byte)
      BY <1>2 DEF TopicsTypes, ScanInv, ScanTypes
    <3> QED BY <2>1, <3>1 DEF Ordered, Kept
  <2>3. pos + Len(queue) = st[n + 1] /\ pos + Len(queue) \in Nat
    BY <1>1, <2>2, AllCome DEF SomeCome
  <2>4. pos + Len(queue) <= st[n + 1]
    BY <2>3
  <2>5. PICK ts : /\ Stream(bArgIsString, more, ts) /\ Holds(bArgIsString, more, ts, pos, queue)
                  /\ \A j \in 1..n + 1 : ts[j] = st[j]
    BY <2>2, <2>4, StreamLonger DEF more
  <2>6. ts[n + 1] = st[n + 1] /\ n + 1 \in 1..n + 1 /\ ts[n + 1] + 0 = pos + Len(queue) /\ n + 1 > 0
    <3>1. n + 1 \in 1..n + 1 /\ n + 1 > 0
      BY <1>2
    <3>2. ts[n + 1] = st[n + 1]
      BY <2>5, <3>1
    <3> QED BY <2>3, <3>1, <3>2
  <2>7. /\ PartOf(Head(blocks), Sent(bArgIsString, more[Len(more)]), 0)
        /\ Coming(bArgIsString, more, Tail(blocks), ts, (ts[Len(more)] + 0) + Len(Head(blocks)))
    <3>1. blocks = BlocksOf(bArgIsString, more[Len(more)])
      BY <1>3 DEF blocks
    <3>2. Len(more) > 0
      BY <1>3, <2>6
    <3> QED BY <2>5, <3>1, <3>2, FirstBlock
  <2>8. pos + Len(queue) = ts[Len(more)] + 0 /\ Len(more) > 0 /\ 0 \in Nat
    BY <1>3, <2>6
  <2>9. published' = published \/ \E mm \in Message[bArgIsString] : published' = Append(published, mm)
    BY <1>1 DEF more
  <2> HIDE DEF n
  <2>10. \A j \in 1..Len(published) + 1 : ts[j] = st[j]
    BY <2>5 DEF n
  <2> QED BY <1>1, <1>2, <1>5, <1>6, <1>8, <2>1, <2>5, <2>7, <2>8, <2>9, <2>10, EntersOrdered
<1> QED BY <1>6, <1>7, <1>8 DEF TopicsInv

LEMMA ArrivesKeeps ==
    ASSUME TopicsInv, Arrives
    PROVE  TopicsInv'
<1>1. /\ arriving # <<>> /\ Enters(Head(arriving), TRUE) /\ arriving' = Tail(arriving)
      /\ published' = published /\ handled' = handled
  BY DEF Arrives
<1>2. /\ bArgIsString \in BOOLEAN /\ published \in Seq(Message[bArgIsString]) /\ Len(published) \in Nat /\ TopicsTypes
      /\ clean \in BOOLEAN /\ arriving \in Seq(Seq(Byte))
  BY DEF TopicsInv, TopicsTypes, ScanInv, ScanTypes
<1>3. bArgIsString' = bArgIsString /\ chState' = chState /\ (clean' => clean)
  BY <1>1 DEF Enters, Enqueue
<1>4. Head(arriving) \in Seq(Byte) /\ Tail(arriving) \in Seq(Seq(Byte))
  <2> DEFINE S == Seq(Byte)
  <2>1. arriving \in Seq(S)
    BY <1>2
  <2> HIDE DEF S
  <2>2. Head(arriving) \in S /\ Tail(arriving) \in Seq(S)
    BY <1>1, <2>1
  <2> QED BY <2>2 DEF S
<1>5. TopicsTypes'
  BY <1>1, <1>2, <1>4, EntersTypes
<1>6. ASSUME clean' PROVE OneAtATime' /\ \E qs, qos, q : Ordered(qs, qos, q)'
  <2>1. OneAtATime /\ \E st, pos, p : Ordered(st, pos, p)
    BY <1>3, <1>6 DEF TopicsInv
  <2>2. OneAtATime'
    BY <1>1, <1>3, <2>1 DEF OneAtATime, Calling
  <2>3. PICK st, pos, p : Ordered(st, pos, p)
    BY <2>1
  <2>4. /\ Stream(bArgIsString, published, st) /\ pos \in Nat
        /\ Holds(bArgIsString, published, st, pos, queue)
        /\ Coming(bArgIsString, published, arriving, st, pos + Len(queue))
    BY <2>3 DEF Ordered, Kept
  <2> DEFINE m == published[Len(published)]
             blocks == BlocksOf(bArgIsString, m)
             s == Sent(bArgIsString, m)
  <2>5. /\ Len(published) > 0
        /\ \E ob : \E b \in 1..Len(blocks) :
              /\ Flattened(blocks, ob, s)
              /\ arriving = SubSeq(blocks, b, Len(blocks))
              /\ pos + Len(queue) = st[Len(published)] + ob[b]
    <3>1. SomeCome(bArgIsString, published, arriving, st, pos + Len(queue))
      BY <1>1, <2>4, AllCome
    <3> QED BY <3>1 DEF SomeCome, m, blocks, s
  <2> HIDE DEF m, blocks, s
  <2>6. PICK ob : \E b \in 1..Len(blocks) :
              /\ Flattened(blocks, ob, s)
              /\ arriving = SubSeq(blocks, b, Len(blocks))
              /\ pos + Len(queue) = st[Len(published)] + ob[b]
    BY <2>5
  <2>7. PICK b \in 1..Len(blocks) :
              /\ Flattened(blocks, ob, s)
              /\ arriving = SubSeq(blocks, b, Len(blocks))
              /\ pos + Len(queue) = st[Len(published)] + ob[b]
    BY <2>6
  <2>8. /\ ob[b] \in Nat /\ PartOf(Head(arriving), Sent(bArgIsString, published[Len(published)]), ob[b])
        /\ Coming(bArgIsString, published, Tail(arriving), st, (st[Len(published)] + ob[b]) + Len(Head(arriving)))
    BY <2>4, <2>5, <2>7, BlockComes DEF m, blocks, s
  <2> DEFINE e == ob[b]
  <2>9. e \in Nat /\ PartOf(Head(arriving), Sent(bArgIsString, published'[Len(published')]), e)
        /\ Coming(bArgIsString, published', arriving', st, (st[Len(published')] + e) + Len(Head(arriving)))
        /\ pos + Len(queue) = st[Len(published')] + e
    BY <1>1, <2>7, <2>8
  <2> HIDE DEF e
  <2>10. /\ published' = published \/ \E mm \in Message[bArgIsString] : published' = Append(published, mm)
         /\ Stream(bArgIsString, published', st) /\ Len(published') > 0
         /\ \A j \in 1..Len(published) + 1 : st[j] = st[j]
         /\ Holds(bArgIsString, published', st, pos, queue)
    BY <1>1, <2>4, <2>5
  <2>11. \E qs, qos, q : Ordered(qs, qos, q)'
    BY <1>1, <1>2, <1>4, <1>5, <1>6, <2>3, <2>9, <2>10, EntersOrdered
  <2> QED BY <2>2, <2>11
<1> QED BY <1>5, <1>6 DEF TopicsInv

LEMMA InterruptKeeps ==
    ASSUME TopicsInv, NEW m \in Message[FALSE], InterruptPublishes(m)
    PROVE  TopicsInv'
<1> DEFINE s == Sent(FALSE, m)
           more == Append(published, m)
           n == Len(published)
<1>1. /\ ~bArgIsString /\ Enters(s, arriving = <<>>)
      /\ arriving' = arriving /\ published' = more /\ handled' = handled
  BY DEF InterruptPublishes, Sent
<1>2. /\ bArgIsString = FALSE /\ published \in Seq(Message[bArgIsString]) /\ n \in Nat /\ TopicsTypes
      /\ clean \in BOOLEAN /\ arriving \in Seq(Seq(Byte))
  BY <1>1 DEF TopicsInv, TopicsTypes, ScanInv, ScanTypes
<1>3. more \in Seq(Message[bArgIsString]) /\ Len(more) = n + 1 /\ more[n + 1] = m
  <2>1. m \in Message[bArgIsString]
    BY <1>2
  <2> HIDE DEF n
  <2>2. published \in Seq(Message[bArgIsString]) /\ n = Len(published)
    BY <1>2 DEF n
  <2> QED BY <2>1, <2>2
<1>4. bArgIsString' = bArgIsString /\ chState' = chState /\ (clean' => clean /\ arriving = <<>>)
  BY <1>1 DEF Enters, Enqueue
<1>5. s \in Seq(Byte) /\ Len(s) \in Nat
  BY SentShape
<1> HIDE DEF s, more
<1>6. TopicsTypes'
  <2> DEFINE w == arriving = <<>>
  <2>1. w \in BOOLEAN /\ Enters(s, w)
    BY <1>1
  <2> HIDE DEF w
  <2> QED BY <1>1, <1>2, <1>3, <1>5, <2>1, EntersTypes
<1>7. ASSUME clean' PROVE OneAtATime' /\ \E qs, qos, q : Ordered(qs, qos, q)'
  <2>1. OneAtATime /\ (\E st, pos, p : Ordered(st, pos, p)) /\ arriving = <<>>
    BY <1>4, <1>7 DEF TopicsInv
  <2>2. OneAtATime'
    BY <1>1, <2>1 DEF OneAtATime
  <2>3. PICK st, pos, p : Ordered(st, pos, p)
    BY <2>1
  <2>4. /\ Stream(bArgIsString, published, st) /\ pos \in Nat /\ queue \in Seq(Byte) /\ Len(queue) \in Nat
        /\ Holds(bArgIsString, published, st, pos, queue)
        /\ Coming(bArgIsString, published, arriving, st, pos + Len(queue))
    <3>1. queue \in Seq(Byte)
      BY <1>2 DEF TopicsTypes, ScanInv, ScanTypes
    <3> QED BY <2>3, <3>1 DEF Ordered, Kept
  <2>5. pos + Len(queue) = st[n + 1] /\ pos + Len(queue) \in Nat /\ pos + Len(queue) <= st[n + 1]
    BY <2>1, <2>4, AllCome DEF SomeCome
  <2>6. m \in Message[bArgIsString]
    BY <1>2
  <2>7. PICK ts : /\ Stream(bArgIsString, more, ts) /\ Holds(bArgIsString, more, ts, pos, queue)
                  /\ \A j \in 1..n + 1 : ts[j] = st[j]
    <3>1. pos + Len(queue) <= st[Len(published) + 1]
      BY <2>5
    <3> QED BY <2>4, <2>6, <3>1, StreamLonger DEF more
  <2>8. n + 1 \in 1..n + 1 /\ n + 1 > 0 /\ ts[n + 1] = st[n + 1]
    BY <1>2, <2>7
  <2>9. ts[Len(more) + 1] = ts[Len(more)] + Len(s) /\ ts[Len(more)] \in Nat
    <3>1. Len(more) \in 1..Len(more) /\ more[Len(more)] = m
      BY <1>2, <1>3
    <3>2. ts[Len(more) + 1] = ts[Len(more)] + Len(Sent(bArgIsString, more[Len(more)])) /\ ts[Len(more)] \in Nat
      BY <2>7, <3>1, StreamFacts
    <3> QED BY <1>2, <3>1, <3>2 DEF s
  <2>10. PartOf(s, Sent(bArgIsString, more[Len(more)]), 0)
    <3>1. Sent(bArgIsString, more[Len(more)]) = s
      BY <1>2, <1>3 DEF s
    <3>2. \A x \in 1..Len(s) : 0 + x = x /\ x <= Len(s)
      BY <1>5
    <3> QED BY <3>1, <3>2 DEF PartOf
  <2>11. Coming(bArgIsString, more, arriving, ts, (ts[Len(more)] + 0) + Len(s))
    <3>1. (ts[Len(more)] + 0) + Len(s) = ts[Len(more) + 1]
      BY <1>5, <2>9
    <3> QED BY <2>1, <3>1 DEF Coming
  <2>12. pos + Len(queue) = ts[Len(more)] + 0 /\ Len(more) > 0 /\ 0 \in Nat
    BY <1>2, <1>3, <2>5, <2>8
  <2>13. published' = published \/ \E mm \in Message[bArgIsString] : published' = Append(published, mm)
    BY <1>1, <2>6 DEF more
  <2>14. Enters(s, TRUE)
    BY <1>1, <2>1
  <2> HIDE DEF n
  <2>15. \A j \in 1..Len(published) + 1 : ts[j] = st[j]
    BY <2>7 DEF n
  <2>16. \E qs, qos, q : Ordered(qs, qos, q)'
    BY <1>1, <1>2, <1>5, <1>6, <1>7, <2>3, <2>7, <2>10, <2>11, <2>12, <2>13, <2>14, <2>15, EntersOrdered
  <2> QED BY <2>2, <2>16
<1> QED BY <1>6, <1>7 DEF TopicsInv

-----------------------------------------------------------------------------
(* The types alone, whatever the names. *)
LEMMA publishTypes ==
    ASSUME TopicsTypes, NEW m \in Message[bArgIsString], publish(m)
    PROVE  TopicsTypes'
<1> DEFINE blocks == BlocksOf(bArgIsString, m)
           S == Seq(Byte)
<1>1. /\ Enters(Head(blocks), TRUE) /\ arriving' = Tail(blocks)
      /\ published' = Append(published, m) /\ handled' = handled
  BY DEF publish, Blocks, BlocksOf
<1>2. bArgIsString \in BOOLEAN /\ published \in Seq(Message[bArgIsString])
  BY DEF TopicsTypes, ScanInv, ScanTypes
<1>3. blocks \in Seq(S) /\ Len(blocks) > 0
  BY <1>2, SentShape
<1> HIDE DEF blocks, S
<1>4. blocks # <<>>
  BY <1>3
<1>5. Head(blocks) \in S /\ Tail(blocks) \in Seq(S)
  BY <1>3, <1>4
<1>6. published' \in Seq(Message[bArgIsString])
  BY <1>1, <1>2
<1> QED BY <1>1, <1>5, <1>6, EntersTypes DEF S

LEMMA ArrivesTypes ==
    ASSUME TopicsTypes, Arrives
    PROVE  TopicsTypes'
<1> DEFINE S == Seq(Byte)
<1>1. /\ arriving # <<>> /\ Enters(Head(arriving), TRUE) /\ arriving' = Tail(arriving)
      /\ published' = published /\ handled' = handled
  BY DEF Arrives
<1>2. published \in Seq(Message[bArgIsString]) /\ arriving \in Seq(S)
  BY DEF TopicsTypes
<1> HIDE DEF S
<1>3. Head(arriving) \in S /\ Tail(arriving) \in Seq(S)
  BY <1>1, <1>2
<1> QED BY <1>1, <1>2, <1>3, EntersTypes DEF S

LEMMA InterruptTypes ==
    ASSUME TopicsTypes, NEW m \in Message[FALSE], InterruptPublishes(m)
    PROVE  TopicsTypes'
<1> DEFINE s == Sent(FALSE, m)
           w == arriving = <<>>
<1>1. /\ ~bArgIsString /\ Enters(s, w) /\ w \in BOOLEAN
      /\ arriving' = arriving /\ published' = Append(published, m) /\ handled' = handled
  BY DEF InterruptPublishes, Sent
<1>2. /\ m \in Message[bArgIsString] /\ published \in Seq(Message[bArgIsString])
      /\ arriving \in Seq(Seq(Byte))
  <2>1. bArgIsString = FALSE
    BY <1>1 DEF TopicsTypes, ScanInv, ScanTypes
  <2> QED BY <2>1 DEF TopicsTypes
<1>3. s \in Seq(Byte)
  BY SentShape
<1> HIDE DEF s, w
<1>4. published' \in Seq(Message[bArgIsString])
  BY <1>1, <1>2
<1> QED BY <1>1, <1>2, <1>3, <1>4, EntersTypes

LEMMA ScanTypesKept ==
    ASSUME TopicsTypes, ScanGoesOn
    PROVE  TopicsTypes' /\ bArgIsString' = bArgIsString
<1>1. Scans /\ UNCHANGED <<arriving, published, overwritten, clean>> /\ ScanInv
  BY DEF ScanGoesOn, TopicsTypes
<1>2. ScanInv'
  BY <1>1, BetweenNamesKeeps, NameStepsKeep, ArgStepsKeep, HandlerReturnsKeeps DEF Scans
<1>3. bArgIsString' = bArgIsString
  BY <1>1 DEF Scans, Starts, TableEnds, TriesName, ComparesByte, AwaitsName, NameFits, AwaitsArgs, StartsArgs,
              ReadsLength, ReadsBytes, ReadsText, HandlerReturns
<1> DEFINE call == [id |-> hwIndex, args |-> arg'.read]
<1>4. call \in Handled
  <2>1. hwIndex \in Nat
    BY <1>1, ScanAssumption DEF ScanInv, ScanTypes
  <2>2. arg'.read \in Seq(Seq(Byte))
    BY <1>2 DEF ScanInv, ScanTypes
  <2> QED BY <2>1, <2>2 DEF Handled
<1>5. handled' = handled \/ handled' = Append(handled, call)
  BY DEF ScanGoesOn
<1> HIDE DEF call
<1>6. handled' \in Seq(Handled)
  <2> DEFINE S == Handled
  <2>1. handled \in Seq(S) /\ call \in S
    BY <1>4 DEF TopicsTypes
  <2> HIDE DEF S
  <2>2. handled' \in Seq(S)
    BY <1>5, <2>1
  <2> QED BY <2>2 DEF S
<1>7. published' \in Seq(Message[bArgIsString']) /\ arriving' \in Seq(Seq(Byte))
      /\ overwritten' \in BOOLEAN /\ clean' \in BOOLEAN
  BY <1>1, <1>3 DEF TopicsTypes
<1> QED BY <1>2, <1>3, <1>6, <1>7 DEF TopicsTypes

(* Queue, messages and scan have their types in every behaviour, whatever  *)
(* the messages and the names.                                             *)
THEOREM TopicsTypeOK == Spec => []TypeOK
<1>1. Init => TopicsTypes
  BY TopicsInvInit DEF TopicsInv
<1>2. TopicsTypes /\ [Next]_vars => TopicsTypes'
  <2> SUFFICES ASSUME TopicsTypes, [Next]_vars PROVE TopicsTypes'
    OBVIOUS
  <2>1. ASSUME NEW m \in Message[bArgIsString], publish(m) PROVE TopicsTypes'
    BY <2>1, publishTypes
  <2>2. CASE Arrives
    BY <2>2, ArrivesTypes
  <2>3. ASSUME NEW m \in Message[FALSE], InterruptPublishes(m) PROVE TopicsTypes'
    BY <2>3, InterruptTypes
  <2>4. CASE ScanGoesOn
    BY <2>4, ScanTypesKept
  <2>5. CASE UNCHANGED vars
    <3>1. ScanInv'
      BY <2>5 DEF vars, scan, queueState, TopicsTypes, ScanInv, ScanTypes, NameOfTable, FrontMatched, FrontIsName, Names, Name
    <3> QED BY <2>5, <3>1 DEF vars, scan, TopicsTypes
  <2> QED BY <2>1, <2>2, <2>3, <2>4, <2>5 DEF Next
<1>3. TopicsTypes => TypeOK
  BY DEF TopicsTypes, TypeOK, ScanInv, ScanTypes, ScanTypeOK
<1> QED BY <1>1, <1>2, <1>3, PTL DEF Spec

-----------------------------------------------------------------------------
(* Steps of the scan that neither call a handler nor return from one nor   *)
(* remove anything.                                                        *)
LEMMA OrderedFacts ==
    ASSUME TopicsTypes, NEW st, NEW pos, NEW p, Ordered(st, pos, p)
    PROVE  /\ bArgIsString \in BOOLEAN /\ queue \in Seq(Byte) /\ Len(queue) \in Nat /\ cursor \in 0..Len(queue)
           /\ hwIndex \in 1..Len(Names) + 1 /\ Len(Names) \in Nat /\ matched \in Nat /\ At \in Nat /\ pos \in Nat
           /\ Stream(bArgIsString, published, st) /\ Holds(bArgIsString, published, st, pos, queue)
           /\ p \in 0..Len(published) /\ Len(published) \in Nat
<1>1. bArgIsString \in BOOLEAN /\ queue \in Seq(Byte) /\ Len(queue) \in Nat /\ cursor \in 0..Len(queue)
      /\ hwIndex \in 1..Len(Names) + 1 /\ matched \in Nat
  BY DEF TopicsTypes, ScanInv, ScanTypes
<1>2. Len(Names) \in Nat
  BY <1>1, ScanAssumption DEF Names
<1>3. At \in Nat
  BY ByteFacts DEF At, NameAt
<1>4. Stream(bArgIsString, published, st) /\ Holds(bArgIsString, published, st, pos, queue) /\ pos \in Nat
  BY DEF Ordered, Kept
<1>5. p \in 0..Len(published)
  BY DEF Ordered, Passed, Behind
<1>6. Len(published) \in Nat
  BY <1>4, StreamFacts
<1> QED BY <1>1, <1>2, <1>3, <1>4, <1>5, <1>6

LEMMA StillOrdered ==
    ASSUME NEW st, NEW pos, NEW p, Ordered(st, pos, p),
           UNCHANGED <<queue, bArgIsString, published, arriving, overwritten, handled>>,
           chState # "HANDLER", chState' # "HANDLER",
           Undisturbed', FirstKept(st, pos, p)', Reading(st, pos, p)'
    PROVE  Ordered(st, pos, p)'
<1>1. Kept(st, pos)'
  BY DEF Ordered, Kept
<1>2. Passed(st, pos, p)'
  BY DEF Ordered, Passed, Seen
<1>3. InOrder(p)'
  BY DEF Ordered, InOrder
<1> QED BY <1>1, <1>2, <1>3 DEF Ordered

(* The scan goes on with the same name. *)
LEMMA SameNameKept ==
    ASSUME NEW st, NEW pos, NEW p, FirstKept(st, pos, p), Calling,
           UNCHANGED <<queue, bArgIsString, published, hwIndex, bIsRequestDrop>>
    PROVE  FirstKept(st, pos, p)'
BY DEF FirstKept, At

(* A name is given up that is not the one of a message in front.           *)
LEMMA NextNameKept ==
    ASSUME TopicsTypes, NEW st, NEW pos, NEW p, Ordered(st, pos, p), Calling,
           NEW awaited \in BOOLEAN, NextName(awaited), UNCHANGED <<queue, bArgIsString, published>>,
           \/ awaited
           \/ /\ queue # <<>>
              /\ \A j \in p + 1..Len(published) : pos = st[j] + At => hwIndex # published[j].id
    PROVE  FirstKept(st, pos, p)'
<1>1. hwIndex' = hwIndex + 1 /\ bIsRequestDrop' = (bIsRequestDrop /\ ~awaited) /\ hwIndex \in Nat
  BY OrderedFacts DEF NextName
<1>2. CASE awaited
  BY <1>1, <1>2 DEF FirstKept
<1>3. CASE ~awaited
  <2>1. /\ queue # <<>>
        /\ \A j \in p + 1..Len(published) : pos = st[j] + At => hwIndex # published[j].id
    BY <1>3
  <2>2. ASSUME NEW j \in p + 1..Len(published), pos = st[j] + At, hwIndex' > published[j].id
        PROVE  ~bIsRequestDrop'
    <3>1. hwIndex # published[j].id
      BY <2>1, <2>2
    <3>2. published[j].id \in Nat
      <4>1. j \in 1..Len(published)
        BY OrderedFacts
      <4>2. published[j] \in Message[bArgIsString] /\ bArgIsString \in BOOLEAN
        BY <4>1, OrderedFacts, StreamFacts
      <4>3. published[j].id \in 1..Len(NameTable[bArgIsString])
        BY <4>2, MessageFacts
      <4> QED BY <4>3
    <3>3. hwIndex > published[j].id
      BY <1>1, <2>2, <3>1, <3>2
    <3>4. ~bIsRequestDrop
      BY <2>2, <3>3 DEF Ordered, FirstKept
    <3> QED BY <1>1, <3>4
  <2>3. At' = At
    BY DEF At
  <2> QED BY <2>1, <2>2, <2>3 DEF FirstKept
<1> QED BY <1>2, <1>3

LEMMA StartsKeeps ==
    ASSUME TopicsTypes, NEW st, NEW pos, NEW p, Ordered(st, pos, p), ScanGoesOn, Starts
    PROVE  Ordered(st, pos, p)'
<1>1. /\ UNCHANGED <<queue, bArgIsString, published, arriving, overwritten, handled>>
      /\ chState = "START" /\ chState' = "IS_END_OF_MSG" /\ hwIndex' = 1
  BY DEF ScanGoesOn, Starts, queueState
<1>2. FirstKept(st, pos, p)'
  <2>1. ASSUME NEW j \in p + 1..Len(published) PROVE ~(1 > published[j].id)
    <3>1. j \in 1..Len(published)
      BY OrderedFacts
    <3>2. published[j] \in Message[bArgIsString] /\ bArgIsString \in BOOLEAN
      BY <3>1, OrderedFacts, StreamFacts
    <3>3. published[j].id \in 1..Len(NameTable[bArgIsString])
      BY <3>2, MessageFacts
    <3> QED BY <3>3
  <2> QED BY <1>1, <2>1 DEF FirstKept
<1>3. Undisturbed' /\ Reading(st, pos, p)'
  BY <1>1 DEF Undisturbed, Reading, ArgStates
<1> QED BY <1>1, <1>2, <1>3, StillOrdered

LEMMA TriesNameKeeps ==
    ASSUME TopicsTypes, NEW st, NEW pos, NEW p, Ordered(st, pos, p), ScanGoesOn, TriesName
    PROVE  Ordered(st, pos, p)'
<1>1. /\ UNCHANGED <<queue, bArgIsString, published, arriving, overwritten, handled, hwIndex, bIsRequestDrop>>
      /\ chState = "IS_END_OF_MSG" /\ chState' = "MSG" /\ undisturbed' = TRUE
  BY DEF ScanGoesOn, TriesName
<1>2. FirstKept(st, pos, p)'
  BY <1>1, SameNameKept DEF Ordered, Calling
<1>3. Undisturbed' /\ Reading(st, pos, p)'
  BY <1>1 DEF Undisturbed, Reading, ArgStates
<1> QED BY <1>1, <1>2, <1>3, StillOrdered

(* Part of the message, arguments or name, is not there yet. *)
LEMMA AwaitsKeeps ==
    ASSUME TopicsTypes, NEW st, NEW pos, NEW p, Ordered(st, pos, p), ScanGoesOn, AwaitsName \/ AwaitsArgs
    PROVE  Ordered(st, pos, p)'
<1>1. /\ UNCHANGED <<queue, bArgIsString, published, arriving, overwritten, handled>>
      /\ chState \in {"MSG"} \cup ArgStates /\ chState' = "IS_END_OF_MSG" /\ NextName(TRUE)
  BY DEF ScanGoesOn, AwaitsName, AwaitsArgs, queueState, NextName
<1>2. FirstKept(st, pos, p)'
  BY <1>1, NextNameKept DEF Calling, ArgStates
<1>3. Undisturbed' /\ Reading(st, pos, p)'
  BY <1>1 DEF Undisturbed, Reading, ArgStates
<1> QED BY <1>1, <1>2, <1>3, StillOrdered DEF ArgStates

(* A byte of the queue behind the name's place of the message there.       *)
LEMMA FrontByte ==
    ASSUME TopicsTypes, NEW st, NEW pos, NEW p, Ordered(st, pos, p),
           NEW j \in 1..Len(published), pos = st[j] + At,
           NEW x \in 1..Len(queue), At + x <= Len(Sent(bArgIsString, published[j]))
    PROVE  queue[x] = Sent(bArgIsString, published[j])[At + x]
<1> DEFINE s == Sent(bArgIsString, published[j])
<1>1. /\ Stream(bArgIsString, published, st) /\ Holds(bArgIsString, published, st, pos, queue)
      /\ At \in Nat /\ pos \in Nat /\ Len(queue) \in Nat
  BY OrderedFacts
<1>2. Len(s) \in Nat /\ st[j] \in Nat
  BY <1>1, StreamFacts
<1>3. At + x \in 1..Len(s)
  BY <1>1, <1>2
<1>4. pos < st[j] + (At + x) /\ st[j] + (At + x) <= pos + Len(queue) /\ (st[j] + (At + x)) - pos = x
  <2>1. x \in Nat /\ 1 <= x /\ x <= Len(queue)
    BY <1>1
  <2> QED BY <1>1, <1>2, <2>1, PlaceInFront
<1>5. queue[(st[j] + (At + x)) - pos] = s[At + x]
  BY <1>1, <1>3, <1>4 DEF Holds
<1> QED BY <1>4, <1>5

LEMMA ComparesByteKeeps ==
    ASSUME TopicsTypes, NEW st, NEW pos, NEW p, Ordered(st, pos, p), ScanGoesOn, ComparesByte
    PROVE  Ordered(st, pos, p)'
<1>1. /\ UNCHANGED <<queue, bArgIsString, published, arriving, overwritten, undisturbed>>
      /\ chState = "MSG" /\ matched < Len(Name) /\ cursor # Len(queue)
      /\ \/ Shown = Name[matched + 1] /\ UNCHANGED <<chState, hwIndex, bIsRequestDrop>>
         \/ Shown # Name[matched + 1] /\ NextName(FALSE) /\ chState' = "IS_END_OF_MSG"
  BY DEF ScanGoesOn, ComparesByte, AtEnd, NextName
<1>2. handled' = handled /\ chState' \in {"MSG", "IS_END_OF_MSG"}
  BY <1>1 DEF ScanGoesOn
<1>3. Undisturbed' /\ Reading(st, pos, p)' /\ Calling
  <2>1. Undisturbed
    BY DEF Ordered
  <2> QED BY <1>1, <1>2, <2>1 DEF Undisturbed, Reading, ArgStates, Calling
<1>4. CASE Shown = Name[matched + 1] /\ UNCHANGED <<chState, hwIndex, bIsRequestDrop>>
  <2>1. FirstKept(st, pos, p)'
    BY <1>1, <1>3, <1>4, SameNameKept DEF Ordered
  <2> QED BY <1>1, <1>2, <1>3, <2>1, StillOrdered
<1>5. CASE Shown # Name[matched + 1] /\ NextName(FALSE)
  <2>1. /\ cursor = matched /\ Len(Name) \in Nat /\ cursor \in 0..Len(queue) /\ Len(queue) \in Nat
        /\ queue \in Seq(Byte)
    <3>1. undisturbed
      BY <1>1 DEF Ordered, Undisturbed
    <3>2. cursor = matched
      BY <1>1, <3>1 DEF TopicsTypes, ScanInv, FrontMatched
    <3>3. Len(Name) \in Nat
      BY <1>1, NameInTable DEF TopicsTypes
    <3> QED BY <3>2, <3>3, OrderedFacts
  <2>2. queue # <<>>
    <3> SUFFICES ASSUME queue = <<>> PROVE FALSE
      OBVIOUS
    <3>1. Len(queue) = 0
      OBVIOUS
    <3> QED BY <1>1, <2>1, <3>1
  <2>3. ASSUME NEW j \in p + 1..Len(published), pos = st[j] + At, hwIndex = published[j].id
        PROVE  FALSE
    <3>1. j \in 1..Len(published) /\ Stream(bArgIsString, published, st) /\ bArgIsString \in BOOLEAN /\ At \in Nat
      BY OrderedFacts
    <3>2. published[j] \in Message[bArgIsString]
      BY <3>1, StreamFacts
    <3>3. Name = NameTable[bArgIsString][published[j].id]
      BY <2>3 DEF Name, Names
    <3>4. /\ At + Len(Name) + 1 <= Len(Sent(bArgIsString, published[j]))
          /\ Len(Sent(bArgIsString, published[j])) \in Nat
          /\ \A i \in 1..Len(Name) : Sent(bArgIsString, published[j])[At + i] = Name[i]
      BY <3>1, <3>2, <3>3, SentShape DEF At
    <3>5. matched + 1 \in 1..Len(Name) /\ matched + 1 \in 1..Len(queue)
          /\ At + (matched + 1) <= Len(Sent(bArgIsString, published[j]))
      BY <1>1, <2>1, <3>1, <3>4
    <3>6. queue[matched + 1] = Sent(bArgIsString, published[j])[At + (matched + 1)]
      BY <2>3, <3>1, <3>5, FrontByte
    <3>7. queue[matched + 1] = Name[matched + 1]
      BY <3>4, <3>5, <3>6
    <3> QED BY <1>5, <2>1, <3>7 DEF Shown
  <2>4. FirstKept(st, pos, p)'
    <3> DEFINE awaited == FALSE
    <3>1. /\ queue # <<>>
          /\ \A j \in p + 1..Len(published) : pos = st[j] + At => hwIndex # published[j].id
      BY <2>2, <2>3
    <3> QED BY <1>1, <1>3, <1>5, <3>1, NextNameKept
  <2> QED BY <1>1, <1>2, <1>3, <2>4, StillOrdered
<1> QED BY <1>1, <1>4, <1>5

LEMMA NameFitsKeeps ==
    ASSUME TopicsTypes, NEW st, NEW pos, NEW p, Ordered(st, pos, p), ScanGoesOn, NameFits
    PROVE  Ordered(st, pos, p)'
<1>1. /\ UNCHANGED <<queue, cursor, bArgIsString, published, arriving, overwritten, hwIndex, bIsRequestDrop, undisturbed>>
      /\ chState = "MSG" /\ matched = Len(Name) /\ chState' = "IS_START_OF_ARG"
      /\ arg' = [NoArgs EXCEPT !.len = arg.len, !.nums = arg.nums]
  BY DEF ScanGoesOn, NameFits, queueState
<1>2. handled' = handled
  BY <1>1 DEF ScanGoesOn
<1>3. undisturbed
  BY <1>1 DEF Ordered, Undisturbed
<1>4. cursor = matched
  BY <1>1, <1>3 DEF TopicsTypes, ScanInv, FrontMatched
<1>5. Undisturbed' /\ Calling
  BY <1>1, <1>3 DEF Undisturbed, Calling
<1>6. Reading(st, pos, p)'
  <2>1. arg'.index = 0 /\ arg'.read = <<>> /\ arg'.word = <<>>
    BY <1>1 DEF NoArgs
  <2>2. Name' = Name
    BY <1>1 DEF Name, Names
  <2> QED BY <1>1, <1>4, <2>1, <2>2 DEF Reading
<1>7. FirstKept(st, pos, p)'
  BY <1>1, <1>5, SameNameKept DEF Ordered
<1> QED BY <1>1, <1>2, <1>5, <1>6, <1>7, StillOrdered

-----------------------------------------------------------------------------
(* Bytes in front are removed, and no name begins in them but those the    *)
(* scan has passed.                                                        *)
LEMMA RemovedOrdered ==
    ASSUME TopicsTypes, NEW st, NEW pos, NEW p, Ordered(st, pos, p), NEW lost \in 0..Len(queue),
           UNCHANGED <<bArgIsString, published, arriving, overwritten, handled>>, chState' = "START",
           queue' = SubSeq(queue, lost + 1, Len(queue)),
           \A j \in 1..Len(published) : j <= p <=> st[j] + At < pos + lost
    PROVE  Ordered(st, pos + lost, p)'
<1>1. /\ queue \in Seq(Byte) /\ Len(queue) \in Nat /\ lost \in Nat /\ pos \in Nat /\ p \in 0..Len(published)
      /\ Stream(bArgIsString, published, st) /\ Holds(bArgIsString, published, st, pos, queue)
  BY OrderedFacts
<1>2. Holds(bArgIsString, published, st, pos + lost, queue')
  BY <1>1, HoldsLess
<1>3. Len(queue') = Len(queue) - lost
  BY <1>1
<1>4. (pos + lost) + Len(queue') = pos + Len(queue) /\ pos + lost \in Nat
  <2> DEFINE l == Len(queue)
             k == Len(queue')
  <2>1. l \in Nat /\ lost \in Nat /\ pos \in Nat /\ k = l - lost
    BY <1>1, <1>3
  <2> HIDE DEF l, k
  <2>2. (pos + lost) + k = pos + l /\ pos + lost \in Nat
    BY <2>1
  <2> QED BY <2>2 DEF l, k
<1>5. Coming(bArgIsString, published, arriving, st, pos + Len(queue))
  BY DEF Ordered, Kept
<1>6. Kept(st, pos + lost)'
  <2> DEFINE here == (pos + lost) + Len(queue')
  <2>1. here = pos + Len(queue)
    BY <1>4
  <2> HIDE DEF here
  <2>2. Coming(bArgIsString, published, arriving, st, here)
    BY <1>5, <2>1
  <2> QED BY <1>1, <1>2, <1>4, <2>2 DEF Kept, here
<1>7. Passed(st, pos + lost, p)'
  BY <1>1 DEF Passed, Behind, Seen, At
<1>8. InOrder(p)'
  BY DEF Ordered, InOrder
<1>9. Undisturbed' /\ FirstKept(st, pos + lost, p)' /\ Reading(st, pos + lost, p)'
  BY DEF Undisturbed, FirstKept, Reading, ArgStates, Calling
<1> QED BY <1>6, <1>7, <1>8, <1>9 DEF Ordered

LEMMA TableEndsKeeps ==
    ASSUME TopicsTypes, NEW st, NEW pos, NEW p, Ordered(st, pos, p), ScanGoesOn, TableEnds
    PROVE  \E qos : Ordered(st, qos, p)'
<1>1. /\ UNCHANGED <<bArgIsString, published, arriving, overwritten>>
      /\ chState = "IS_END_OF_MSG" /\ chState' = "START" /\ hwIndex > Len(Names)
      /\ \/ queue' = queue
         \/ bIsRequestDrop /\ queue # <<>> /\ queue' = Tail(queue)
  BY DEF ScanGoesOn, TableEnds, queueState
<1>2. handled' = handled
  BY <1>1 DEF ScanGoesOn
<1>3. /\ queue \in Seq(Byte) /\ Len(queue) \in Nat /\ pos \in Nat /\ p \in 0..Len(published) /\ At \in Nat
      /\ Stream(bArgIsString, published, st) /\ bArgIsString \in BOOLEAN /\ hwIndex \in Nat /\ Len(Names) \in Nat
      /\ Len(published) \in Nat
  BY OrderedFacts
<1>4. \A j \in 1..Len(published) : j <= p <=> st[j] + At < pos
  BY <1>1 DEF Ordered, Passed, Behind, Seen, At
<1>5. CASE queue' = queue
  <2>1. queue' = SubSeq(queue, 0 + 1, Len(queue)) /\ 0 \in 0..Len(queue) /\ pos + 0 = pos
    BY <1>3, <1>5, WholeSeq
  <2>2. Ordered(st, pos + 0, p)'
    BY <1>1, <1>2, <1>4, <2>1, RemovedOrdered
  <2> QED BY <2>2
<1>6. CASE bIsRequestDrop /\ queue # <<>> /\ queue' = Tail(queue)
  <2>1. 1 \in 0..Len(queue) /\ queue' = SubSeq(queue, 1 + 1, Len(queue))
    <3>1. Len(queue) # 0
      BY <1>3, <1>6
    <3>2. 1 \in 1..Len(queue)
      BY <1>3, <3>1
    <3>3. queue = SubSeq(queue, 1, Len(queue))
      BY <1>3, WholeSeq
    <3>4. Tail(queue) = SubSeq(queue, 1 + 1, Len(queue))
      BY <1>3, <3>2, <3>3, RestOf
    <3> QED BY <1>3, <1>6, <3>2, <3>4
  <2>2. ASSUME NEW j \in 1..Len(published) PROVE j <= p <=> st[j] + At < pos + 1
    <3>1. st[j] \in Nat /\ published[j] \in Message[bArgIsString]
      BY <1>3, StreamFacts
    <3>2. CASE j <= p
      BY <1>3, <1>4, <3>1, <3>2
    <3>3. CASE ~(j <= p)
      <4>1. j \in p + 1..Len(published)
        BY <1>3, <3>3
      <4>2. published[j].id \in 1..Len(Names)
        BY <1>3, <3>1, MessageFacts DEF Names
      <4>3. hwIndex > published[j].id
        BY <1>1, <1>3, <4>2
      <4>4. pos # st[j] + At
        BY <1>1, <1>6, <4>1, <4>3 DEF Ordered, FirstKept, Calling
      <4>5. ~(st[j] + At < pos)
        BY <1>4, <3>3
      <4> QED BY <1>3, <3>1, <3>3, <4>4, <4>5
    <3> QED BY <3>2, <3>3
  <2>3. Ordered(st, pos + 1, p)'
    BY <1>1, <1>2, <2>1, <2>2, RemovedOrdered
  <2> QED BY <2>3
<1> QED BY <1>1, <1>5, <1>6

LEMMA HandlerReturnsOrdered ==
    ASSUME TopicsTypes, NEW st, NEW pos, NEW p, Ordered(st, pos, p), ScanGoesOn, HandlerReturns
    PROVE  \E qos : Ordered(st, qos, p)'
<1>1. /\ UNCHANGED <<bArgIsString, published, arriving, overwritten>>
      /\ chState = "HANDLER" /\ chState' = "START"
      /\ queue' = SubSeq(queue, cursor + 1, Len(queue))
  BY DEF ScanGoesOn, HandlerReturns
<1>2. handled' = handled
  BY <1>1 DEF ScanGoesOn
<1>3. /\ cursor \in 0..Len(queue) /\ cursor \in Nat /\ Len(queue) \in Nat /\ pos \in Nat /\ At \in Nat
      /\ Stream(bArgIsString, published, st) /\ Len(published) \in Nat
  BY OrderedFacts
<1>4. /\ p \in 1..Len(published) /\ pos = st[p] + At /\ cursor >= 1 /\ pos + cursor <= st[p + 1]
  BY <1>1 DEF Ordered, Reading
<1>5. ASSUME NEW j \in 1..Len(published) PROVE j <= p <=> st[j] + At < pos + cursor
  <2>1. st[j] \in Nat /\ st[p] \in Nat /\ st[p + 1] \in Nat /\ p + 1 \in 1..Len(published) + 1
    <3>1. p + 1 \in 1..Len(published) + 1
      BY <1>3, <1>4
    <3>2. st \in [1..Len(published) + 1 -> Nat] /\ st[j] \in Nat /\ st[p] \in Nat
      BY <1>3, <1>4, StreamFacts
    <3> QED BY <3>1, <3>2
  <2>2. CASE j <= p
    <3>1. j \in 1..Len(published) + 1 /\ p \in 1..Len(published) + 1
      BY <1>3, <1>4
    <3>2. st[j] <= st[p]
      BY <1>3, <2>2, <3>1, StreamFacts
    <3>3. st[j] + At < pos + cursor
      BY <1>3, <1>4, <2>1, <3>2, PassedBefore
    <3> QED BY <2>2, <3>3
  <2>3. CASE ~(j <= p)
    <3>1. j \in 1..Len(published) + 1 /\ p + 1 <= j
      BY <1>3, <1>4, <2>3
    <3>2. st[p + 1] <= st[j]
      BY <1>3, <2>1, <3>1, StreamFacts
    <3>4. pos + cursor <= st[p + 1]
      BY <1>4
    <3>3. ~(st[j] + At < pos + cursor)
      BY <1>3, <2>1, <3>2, <3>4
    <3> QED BY <2>3, <3>3
  <2> QED BY <2>2, <2>3
<1>6. PICK c \in 0..Len(queue) : c = cursor
  BY <1>3
<1>7. Ordered(st, pos + c, p)'
  BY <1>1, <1>2, <1>3, <1>5, <1>6, RemovedOrdered
<1> QED BY <1>7

-----------------------------------------------------------------------------
(* Where a name fits there is one of its messages, and it is the next one. *)
LEMMA WhereNameFits ==
    ASSUME NamesApart, TopicsTypes, NEW st, NEW pos, NEW p, Ordered(st, pos, p),
           chState = "IS_START_OF_ARG", ~AtEnd, bArgIsString => Shown \in {Space, Cr}
    PROVE  AtMessage(st, pos, p)
<1> DEFINE text == bArgIsString
           n == Len(published)
<1>1. /\ queue \in Seq(Byte) /\ Len(queue) \in Nat /\ cursor \in 0..Len(queue) /\ pos \in Nat /\ p \in 0..n /\ At \in Nat
      /\ Stream(text, published, st) /\ Holds(text, published, st, pos, queue)
      /\ text \in BOOLEAN /\ hwIndex \in Nat /\ n \in Nat
  BY OrderedFacts
<1>2. hwIndex \in 1..Len(Names) /\ DOMAIN Names = 1..Len(Names) /\ Len(Name) \in Nat
  <2>1. hwIndex <= Len(Names) /\ Len(Name) \in Nat
    BY NameInTable DEF TopicsTypes, ArgStates
  <2>2. DOMAIN Names = 1..Len(Names)
    BY <1>1, ScanAssumption DEF Names
  <2>3. hwIndex \in 1..Len(Names) + 1 /\ Len(Names) \in Nat
    BY OrderedFacts
  <2> QED BY <2>1, <2>2, <2>3
<1>3. cursor = Len(Name) /\ cursor # Len(queue)
  BY DEF Ordered, Reading, AtEnd
<1>4. \A k \in 1..Len(Name) : queue[k] = Name[k]
  <2>1. undisturbed
    BY DEF Ordered, Undisturbed, ArgStates
  <2> QED BY <2>1 DEF TopicsTypes, ScanInv, FrontIsName, ArgStates
<1>5. pos < st[n + 1]
  <2>1. pos + Len(queue) <= st[n + 1] /\ st[n + 1] \in Nat
    BY SeenWithin
  <2> QED BY <1>1, <1>3, <2>1
<1>6. Sums(n, Lengths(text, published), st)
  BY <1>1 DEF Stream
<1>7. PICK j \in 1..n : \E i \in 0..Lengths(text, published)[j] - 1 : pos = st[j] + i
  BY <1>1, <1>5, <1>6, SumsLocate
<1> DEFINE s == Sent(text, published[j])
<1>8. /\ published[j] \in Message[text] /\ Len(s) \in Nat /\ st[j] \in Nat
      /\ Lengths(text, published)[j] = Len(s)
  BY <1>1, StreamFacts DEF Lengths
<1>9. PICK i \in 0..Len(s) - 1 : pos = st[j] + i
  BY <1>7, <1>8
<1>10. i \in Nat
  BY <1>8
<1> HIDE DEF s, n
<1>11. ASSUME NEW x \in 1..Len(queue), i + x <= Len(s) PROVE queue[x] = s[i + x]
  <2>1. x \in Nat /\ x >= 1 /\ x <= Len(queue) /\ i + x \in 1..Len(s)
    BY <1>1, <1>8, <1>10, <1>11
  <2>2. pos < st[j] + (i + x) /\ st[j] + (i + x) <= pos + Len(queue) /\ (st[j] + (i + x)) - pos = x
    <3> DEFINE a == st[j]
    <3>1. a \in Nat /\ i \in Nat /\ Len(queue) \in Nat /\ pos = a + i
      BY <1>1, <1>8, <1>9, <1>10
    <3> HIDE DEF a
    <3>2. pos < a + (i + x) /\ a + (i + x) <= pos + Len(queue) /\ (a + (i + x)) - pos = x
      BY <2>1, <3>1, PlaceInFront
    <3> QED BY <3>2 DEF a
  <2>3. queue[(st[j] + (i + x)) - pos] = s[i + x]
    BY <1>1, <2>1, <2>2 DEF Holds, s, n
  <2> QED BY <2>2, <2>3
<1>12. ~Misfits(text, hwIndex, s, i)
  <2> SUFFICES ASSUME Misfits(text, hwIndex, s, i) PROVE FALSE
    OBVIOUS
  <2>1. NameTable[text][hwIndex] = Name
    BY DEF Name, Names
  <2>2. CASE \E x \in 1..Len(Name) : i + x <= Len(s) /\ s[i + x] # Name[x]
    <3>1. PICK x \in 1..Len(Name) : i + x <= Len(s) /\ s[i + x] # Name[x]
      BY <2>2
    <3>2. x \in 1..Len(queue)
      BY <1>1, <1>2, <1>3
    <3> QED BY <1>4, <1>11, <3>1, <3>2
  <2>3. CASE text /\ i + Len(Name) < Len(s) /\ s[i + Len(Name) + 1] \notin {Space, Cr}
    <3>1. Len(Name) + 1 \in 1..Len(queue) /\ i + (Len(Name) + 1) <= Len(s) /\ i + (Len(Name) + 1) = i + Len(Name) + 1
      BY <1>1, <1>2, <1>3, <1>8, <1>10, <2>3
    <3>2. queue[Len(Name) + 1] = s[i + Len(Name) + 1]
      BY <1>11, <3>1
    <3> QED BY <1>3, <2>3, <3>2 DEF Shown
  <2> QED BY <2>1, <2>2, <2>3 DEF Misfits
<1>13. hwIndex = published[j].id /\ i = At
  <2>1. hwIndex \in DOMAIN NameTable[text]
    BY <1>2 DEF Names
  <2>2. i \in 0..Len(Sent(text, published[j])) - 1
    BY <1>9 DEF s
  <2>3. (hwIndex = published[j].id /\ i = NameAt(text)) \/ Misfits(text, hwIndex, Sent(text, published[j]), i)
    BY <1>1, <1>8, <2>1, <2>2 DEF NamesApart
  <2> QED BY <1>12, <2>3 DEF s, At
<1>14. j = p + 1
  <2>1. ~(j <= p)
    <3>1. j <= p <=> st[j] + At < pos
      BY DEF Ordered, Passed, Behind, Seen, At, n
    <3> QED BY <1>1, <1>8, <1>9, <1>13, <3>1
  <2> SUFFICES ASSUME j # p + 1 PROVE FALSE
    OBVIOUS
  <2>2. p + 1 \in 1..n /\ ~(p + 1 <= p) /\ p + 2 \in 1..n + 1 /\ p + 2 <= j /\ j \in 1..n + 1
    BY <1>1, <2>1
  <2>3. ~(st[p + 1] + At < pos)
    BY <2>2 DEF Ordered, Passed, Behind, Seen, At, n
  <2>4. st[p + 2] <= st[j]
    BY <1>1, <2>2, StreamFacts DEF n
  <2>5. /\ st[(p + 1) + 1] = st[p + 1] + Len(Sent(text, published[p + 1])) /\ st[p + 1] \in Nat
        /\ published[p + 1] \in Message[text]
    BY <1>1, <2>2, StreamFacts DEF n
  <2>6. Len(Sent(text, published[p + 1])) \in Nat /\ Len(Sent(text, published[p + 1])) > 0
    <3> DEFINE a == NameAt(text)
               b == Len(NameTable[text][published[p + 1].id])
               l == Len(Sent(text, published[p + 1]))
    <3>1. a \in Nat /\ l \in Nat /\ a + b + 1 <= l /\ b \in Nat
      BY <1>1, <2>5, SentShape, MessageFacts
    <3> HIDE DEF a, b, l
    <3>2. l > 0
      BY <3>1
    <3> QED BY <3>1, <3>2 DEF l
  <2>7. (p + 1) + 1 = p + 2
    BY <1>1
  <2>8. st[p + 1] < st[j]
    BY <1>8, <2>4, <2>5, <2>6, <2>7
  <2> DEFINE a == st[p + 1]
             c == st[j]
  <2>9. a \in Nat /\ c \in Nat /\ At \in Nat /\ pos = c + At /\ ~(a + At < pos) /\ a < c
    BY <1>1, <1>8, <1>9, <1>13, <2>3, <2>5, <2>8
  <2> HIDE DEF a, c
  <2> QED BY <2>9
<1> QED BY <1>9, <1>13, <1>14 DEF AtMessage, n

(* One message more has been handled: the next one. *)
LEMMA HandledNext ==
    ASSUME TopicsTypes, TopicsTypes', NEW st, NEW pos, NEW p, Ordered(st, pos, p), AtMessage(st, pos, p),
           NEW call, handled' = Append(handled, call), Answers(call, published[p + 1]),
           UNCHANGED <<bArgIsString, published, overwritten>>
    PROVE  InOrder(p + 1)'
<1> DEFINE l == Len(handled)
           n == Len(published)
<1>1. /\ handled \in Seq(Handled) /\ l \in Nat /\ DOMAIN handled = 1..l
      /\ handled' \in Seq(Handled) /\ published \in Seq(Message[bArgIsString]) /\ overwritten \in BOOLEAN
  BY DEF TopicsTypes
<1>2. p + 1 \in 1..n /\ p \in Nat /\ n \in Nat /\ p \in 0..n
  BY OrderedFacts DEF AtMessage
<1>3. DOMAIN handled' = 1..l + 1 /\ handled'[l + 1] = call /\ \A i \in 1..l : handled'[i] = handled[i]
  <2>1. Len(handled') = l + 1 /\ DOMAIN handled' = 1..Len(handled')
    BY <1>1
  <2>2. handled'[l + 1] = call /\ \A i \in 1..l : handled'[i] = handled[i]
    BY <1>1
  <2> QED BY <2>1, <2>2
<1>4. PICK place \in [DOMAIN handled -> 1..p] :
          /\ \A i, j \in DOMAIN handled : i < j => place[i] < place[j]
          /\ \A i \in DOMAIN handled : Answers(handled[i], published[place[i]])
  BY DEF Ordered, InOrder
<1> DEFINE more == [i \in 1..l + 1 |-> IF i = l + 1 THEN p + 1 ELSE place[i]]
<1>5. \A i \in 1..l + 1 : i # l + 1 => i \in 1..l /\ place[i] \in 1..p
  BY <1>1, <1>4
<1>6. more \in [1..l + 1 -> 1..p + 1] /\ more[l + 1] = p + 1 /\ \A i \in 1..l : more[i] = place[i]
  <2>1. \A i \in 1..l + 1 : more[i] \in 1..p + 1
    BY <1>2, <1>5
  <2>2. l + 1 \in 1..l + 1 /\ \A i \in 1..l : i \in 1..l + 1 /\ i # l + 1
    BY <1>1
  <2> QED BY <2>1, <2>2
<1> HIDE DEF more, l
<1>7. ASSUME NEW i \in 1..l + 1, NEW j \in 1..l + 1, i < j PROVE more[i] < more[j]
  <2>1. i # l + 1
    BY <1>1, <1>7
  <2>2. i \in 1..l /\ place[i] \in 1..p /\ more[i] = place[i]
    BY <1>5, <1>6, <2>1
  <2>3. CASE j = l + 1
    BY <1>2, <1>6, <2>2, <2>3
  <2>4. CASE j # l + 1
    <3>1. j \in 1..l /\ more[j] = place[j]
      BY <1>5, <1>6, <2>4
    <3> QED BY <1>1, <1>4, <1>7, <2>2, <3>1
  <2> QED BY <2>3, <2>4
<1>8. ASSUME NEW i \in 1..l + 1 PROVE Answers(handled'[i], published[more[i]])
  <2>1. CASE i = l + 1
    BY <1>3, <1>6, <2>1
  <2>2. CASE i # l + 1
    BY <1>1, <1>3, <1>4, <1>5, <1>6, <2>2
  <2> QED BY <2>1, <2>2
<1>9. overwritten \/ (Len(handled') = p + 1 /\ \A i \in 1..l + 1 : Answers(handled'[i], published[i]))
  <2> SUFFICES ASSUME ~overwritten
               PROVE  Len(handled') = p + 1 /\ \A i \in 1..l + 1 : Answers(handled'[i], published[i])
    OBVIOUS
  <2>1. l = p /\ \A i \in 1..l : Answers(handled[i], published[i])
    BY <1>1 DEF Ordered, InOrder, l
  <2>2. Len(handled') = l + 1
    BY <1>1 DEF l
  <2>3. ASSUME NEW i \in 1..l + 1 PROVE Answers(handled'[i], published[i])
    <3>1. CASE i = l + 1
      BY <1>3, <2>1, <3>1
    <3>2. CASE i # l + 1
      BY <1>3, <1>5, <2>1, <3>2
    <3> QED BY <3>1, <3>2
  <2> QED BY <2>1, <2>2, <2>3
<1> DEFINE G(f) == /\ \A i, j \in 1..l + 1 : i < j => f[i] < f[j]
                   /\ \A i \in 1..l + 1 : Answers(handled'[i], published[f[i]])
<1>10. G(more)
  BY <1>7, <1>8
<1> HIDE DEF G
<1>11. \E f \in [1..l + 1 -> 1..p + 1] : G(f)
  BY <1>6, <1>10
<1> QED BY <1>3, <1>9, <1>11 DEF InOrder, G

LEMMA BeginsBefore ==
    ASSUME NEW a \in Nat, NEW b \in Nat, NEW at \in Nat, NEW pos, pos = b + at, a <= b
    PROVE  a + at < pos + 1
OBVIOUS

LEMMA BeginsBehind ==
    ASSUME NEW a \in Nat, NEW b \in Nat, NEW at \in Nat, NEW pos, pos = b + at, b < a
    PROVE  ~(a + at < pos + 1)
OBVIOUS

LEMMA EntersHandler ==
    ASSUME TopicsTypes, TopicsTypes', NEW st, NEW pos, NEW p, Ordered(st, pos, p), AtMessage(st, pos, p),
           ScanGoesOn, chState \in ArgStates, chState' = "HANDLER", hwIndex' = hwIndex,
           UNCHANGED <<queue, bArgIsString, undisturbed>>,
           Fits(published[p + 1]) => arg'.read = published[p + 1].args,
           cursor' \in Nat, cursor' >= 1, At + cursor' <= Len(Sent(bArgIsString, published[p + 1]))
    PROVE  Ordered(st, pos, p + 1)'
<1> DEFINE n == Len(published)
<1>1. /\ UNCHANGED <<arriving, published, overwritten>>
      /\ handled' = Append(handled, [id |-> hwIndex, args |-> arg'.read])
  BY DEF ScanGoesOn, ArgStates
<1>2. /\ p + 1 \in 1..n /\ pos = st[p + 1] + At /\ hwIndex = published[p + 1].id
      /\ p \in Nat /\ n \in Nat /\ p \in 0..n /\ At \in Nat /\ pos \in Nat
      /\ Stream(bArgIsString, published, st)
  <2>1. p \in 0..n /\ n \in Nat /\ At \in Nat /\ pos \in Nat /\ Stream(bArgIsString, published, st)
    BY OrderedFacts
  <2>2. p + 1 \in 1..n /\ pos = st[p + 1] + At /\ hwIndex = published[p + 1].id
    BY DEF AtMessage
  <2> HIDE DEF n
  <2>3. p \in Nat
    BY <2>1
  <2> QED BY <2>1, <2>2, <2>3 DEF n
<1>3. Kept(st, pos)'
  BY <1>1 DEF Ordered, Kept
<1>4. InOrder(p + 1)'
  <2> DEFINE call == [id |-> hwIndex, args |-> arg'.read]
  <2>1. Answers(call, published[p + 1])
    BY <1>2 DEF Answers
  <2>2. handled' = Append(handled, call)
    BY <1>1
  <2> HIDE DEF call
  <2> QED BY <1>1, <2>1, <2>2, HandledNext
<1>5. /\ st[p + 1] \in Nat /\ st[p + 2] \in Nat /\ p + 2 \in 1..n + 1 /\ p + 1 \in 1..n + 1
      /\ st[p + 2] = st[p + 1] + Len(Sent(bArgIsString, published[p + 1]))
      /\ Len(Sent(bArgIsString, published[p + 1])) \in Nat
  <2>1. (p + 1) + 1 = p + 2 /\ p + 1 \in 1..n + 1 /\ p + 2 \in 1..n + 1
    BY <1>2
  <2>2. /\ st[(p + 1) + 1] = st[p + 1] + Len(Sent(bArgIsString, published[p + 1]))
        /\ st[p + 1] \in Nat /\ Len(Sent(bArgIsString, published[p + 1])) \in Nat
        /\ st \in [1..n + 1 -> Nat]
    BY <1>2, StreamFacts
  <2> QED BY <2>1, <2>2
<1> DEFINE a == st[p + 1]
           l == Len(Sent(bArgIsString, published[p + 1]))
           c == cursor'
<1>12. /\ a \in Nat /\ At \in Nat /\ l \in Nat /\ c \in Nat /\ c >= 1 /\ At + c <= l
       /\ pos = a + At /\ st[p + 2] = a + l
  BY <1>2, <1>5
<1> HIDE DEF a, l, c
<1>13. pos + c <= st[p + 2]
  BY <1>12, EndsWithin
<1>14. a < st[p + 2]
  BY <1>12, EndsBehind
<1>6. pos + cursor' <= st[p + 2]
  BY <1>13 DEF c
<1>7. st[p + 1] < st[p + 2]
  BY <1>14 DEF a
<1>8. ASSUME NEW j \in 1..n PROVE j <= p + 1 <=> st[j] + At < pos + 1
  <2>1. st[j] \in Nat /\ j \in 1..n + 1
    BY <1>2, StreamFacts
  <2>2. CASE j <= p + 1
    <3>1. st[j] <= st[p + 1]
      BY <1>2, <1>5, <2>1, <2>2, StreamFacts
    <3>2. st[j] + At < pos + 1
      BY <1>2, <1>5, <2>1, <3>1, BeginsBefore
    <3> QED BY <2>2, <3>2
  <2>3. CASE ~(j <= p + 1)
    <3>1. p + 2 <= j
      BY <1>2, <2>3
    <3>2. st[p + 2] <= st[j]
      BY <1>2, <1>5, <2>1, <3>1, StreamFacts
    <3>4. st[p + 1] < st[j]
      BY <1>5, <1>7, <2>1, <3>2
    <3>3. ~(st[j] + At < pos + 1)
      BY <1>2, <1>5, <2>1, <3>4, BeginsBehind
    <3> QED BY <2>3, <3>3
  <2> QED BY <2>2, <2>3
<1>9. Passed(st, pos, p + 1)'
  <2>1. p + 1 \in 0..n
    BY <1>2
  <2> QED BY <1>1, <1>8, <2>1 DEF Passed, Behind, Seen, At
<1>10. Undisturbed' /\ FirstKept(st, pos, p + 1)'
  <2>1. undisturbed
    BY DEF Ordered, Undisturbed
  <2> QED BY <2>1 DEF Undisturbed, FirstKept, Calling
<1>11. Reading(st, pos, p + 1)'
  <2>1. (p + 1) + 1 = p + 2 /\ At' = At
    BY <1>2 DEF At
  <2> QED BY <1>1, <1>2, <1>6, <2>1 DEF Reading
<1> QED BY <1>3, <1>4, <1>9, <1>10, <1>11 DEF Ordered

(* The byte behind a name is a space or the end of the line, or how many   *)
(* arguments follow.                                                       *)
AfterName(text, m) == Sent(text, m)[NameAt(text) + (Len(NameTable[text][m.id]) + 1)]

LEMMA BehindTopicName ==
    ASSUME NEW m \in Message[FALSE]
    PROVE  AfterName(FALSE, m) = Len(m.args)
<1> DEFINE name == NameTable[FALSE][m.id]
<1>1. PICK oa : ArgsAt(m, oa) /\ TopicShape(m, Sent(FALSE, m), oa)
  BY TopicSent
<1>2. Sent(FALSE, m)[Len(Prefix) + Len(name) + 1] = Len(m.args)
  BY <1>1 DEF TopicShape
<1>3. Len(name) \in Nat /\ Len(Prefix) \in Nat
  <2>1. Len(name) \in Nat
    BY MessageFacts
  <2>2. Len(Prefix) \in Nat
    BY ByteFacts
  <2> QED BY <2>1, <2>2
<1>4. NameAt(FALSE) + (Len(name) + 1) = Len(Prefix) + Len(name) + 1
  <2> DEFINE a == Len(Prefix)
             b == Len(name)
             c == NameAt(FALSE)
  <2>1. a \in Nat /\ b \in Nat /\ c = a
    BY <1>3 DEF NameAt
  <2> HIDE DEF a, b, c
  <2>2. c + (b + 1) = a + b + 1
    BY <2>1
  <2> QED BY <2>2 DEF a, b, c
<1> QED BY <1>2, <1>4 DEF AfterName

LEMMA BehindLineName ==
    ASSUME NEW m \in Message[TRUE]
    PROVE  AfterName(TRUE, m) = IF Len(m.args) = 0 THEN Cr ELSE Space
<1> DEFINE name == NameTable[TRUE][m.id]
           n == Len(m.args)
           s == Sent(TRUE, m)
<1>1. PICK oa : ArgsAt(m, oa) /\ LineShape(m, s, oa)
  BY LineSent
<1>2. Len(name) \in Nat /\ n \in Nat
  BY MessageFacts
<1>3. oa[1] = 0
  BY <1>1, ArgsSums
<1>4. NameAt(TRUE) + (Len(name) + 1) = Len(name) + 1
  BY <1>2 DEF NameAt
<1>5. CASE n = 0
  <2>1. Len(s) = Len(name) + n + oa[n + 1] + 1 /\ s[Len(s)] = Cr
    BY <1>1 DEF LineShape
  <2>2. n + 1 = 1
    BY <1>5
  <2>3. Len(s) = Len(name) + 1
    <3>1. oa[n + 1] = 0
      BY <1>3, <2>2
    <3>2. Len(s) = Len(name) + 0 + 0 + 1
      BY <1>5, <2>1, <3>1
    <3> DEFINE a == Len(name)
               b == Len(s)
    <3>3. a \in Nat /\ b = a + 0 + 0 + 1
      BY <1>2, <3>2
    <3> HIDE DEF a, b
    <3>4. b = a + 1
      BY <3>3
    <3> QED BY <3>4 DEF a, b
  <2> QED BY <1>4, <1>5, <2>1, <2>3 DEF AfterName
<1>6. CASE n # 0
  <2>1. 1 \in 1..n
    BY <1>2, <1>6
  <2>2. s[Len(name) + (1 - 1) + oa[1] + 1] = Space
    BY <1>1, <2>1 DEF LineShape
  <2>3. Len(name) + (1 - 1) + oa[1] + 1 = Len(name) + 1
    BY <1>2, <1>3
  <2> QED BY <1>4, <1>6, <2>2, <2>3 DEF AfterName
<1> QED BY <1>5, <1>6

(* What the scan sees behind the name where a message is in front. *)
LEMMA ShownBehindName ==
    ASSUME TopicsTypes, NEW st, NEW pos, NEW p, Ordered(st, pos, p), chState = "IS_START_OF_ARG", ~AtEnd,
           NEW j \in 1..Len(published), pos = st[j] + At, hwIndex = published[j].id
    PROVE  /\ published[j] \in Message[bArgIsString] /\ bArgIsString \in BOOLEAN
           /\ Shown = AfterName(bArgIsString, published[j])
           /\ Name = NameTable[bArgIsString][published[j].id] /\ cursor = Len(Name) /\ Len(Name) \in Nat
           /\ At + (cursor + 1) <= Len(Sent(bArgIsString, published[j]))
<1>1. /\ bArgIsString \in BOOLEAN /\ Stream(bArgIsString, published, st)
      /\ cursor \in 0..Len(queue) /\ Len(queue) \in Nat /\ At \in Nat
  BY OrderedFacts
<1>2. published[j] \in Message[bArgIsString]
  BY <1>1, StreamFacts
<1>3. Name = NameTable[bArgIsString][published[j].id]
  BY DEF Name, Names
<1>4. cursor = Len(Name) /\ cursor # Len(queue)
  BY DEF Ordered, Reading, AtEnd
<1>5. At + Len(Name) + 1 <= Len(Sent(bArgIsString, published[j])) /\ Len(Name) \in Nat
  BY <1>1, <1>2, <1>3, SentShape, MessageFacts DEF At
<1>6. Len(Name) + 1 \in 1..Len(queue) /\ At + (Len(Name) + 1) <= Len(Sent(bArgIsString, published[j]))
  <2>1. At + (Len(Name) + 1) = At + Len(Name) + 1
    BY <1>1, <1>5
  <2> QED BY <1>1, <1>4, <1>5, <2>1
<1>7. queue[Len(Name) + 1] = Sent(bArgIsString, published[j])[At + (Len(Name) + 1)]
  BY <1>6, FrontByte
<1> QED BY <1>1, <1>2, <1>3, <1>4, <1>5, <1>6, <1>7 DEF Shown, AfterName, At

LEMMA StartsArgsKeeps ==
    ASSUME NamesApart, TopicsTypes, TopicsTypes', NEW st, NEW pos, NEW p, Ordered(st, pos, p), ScanGoesOn, StartsArgs
    PROVE  Ordered(st, pos, p)' \/ Ordered(st, pos, p + 1)'
<1> DEFINE text == bArgIsString
           m == published[p + 1]
<1>1. /\ UNCHANGED <<queue, bArgIsString, published, arriving, overwritten, undisturbed>>
      /\ chState = "IS_START_OF_ARG" /\ ~AtEnd /\ cursor' = cursor + 1
  BY DEF ScanGoesOn, StartsArgs
<1>2. Calling /\ chState \in ArgStates /\ text \in BOOLEAN
  BY <1>1, OrderedFacts DEF Calling, ArgStates
<1>3. arg.read = <<>> /\ arg.word = <<>> /\ arg.index = 0
  BY <1>1 DEF Ordered, Reading
<1>4. undisturbed
  BY <1>2 DEF Ordered, Undisturbed
<1>5. CASE text /\ Shown \notin {Space, Cr} /\ NextName(FALSE)
  <2>1. chState' = "IS_END_OF_MSG" /\ handled' = handled
    BY <1>5 DEF NextName, ScanGoesOn
  <2>2. queue # <<>>
    <3> SUFFICES ASSUME queue = <<>> PROVE FALSE
      OBVIOUS
    <3>1. Len(queue) = 0
      OBVIOUS
    <3>2. cursor \in 0..Len(queue)
      BY OrderedFacts
    <3> QED BY <1>1, <3>1, <3>2 DEF AtEnd
  <2>3. ASSUME NEW j \in p + 1..Len(published), pos = st[j] + At, hwIndex = published[j].id
        PROVE  FALSE
    <3>1. j \in 1..Len(published)
      BY OrderedFacts
    <3>2. published[j] \in Message[text] /\ Shown = AfterName(text, published[j])
      BY <1>1, <2>3, <3>1, ShownBehindName
    <3>3. text = TRUE
      BY <1>5
    <3>4. Shown \in {Space, Cr}
      BY <3>2, <3>3, BehindLineName
    <3> QED BY <1>5, <3>4
  <2>4. FirstKept(st, pos, p)'
    <3>1. /\ queue # <<>>
          /\ \A j \in p + 1..Len(published) : pos = st[j] + At => hwIndex # published[j].id
      BY <2>2, <2>3
    <3> QED BY <1>1, <1>2, <1>5, <3>1, NextNameKept
  <2>5. Undisturbed' /\ Reading(st, pos, p)'
    BY <2>1 DEF Undisturbed, Reading, ArgStates
  <2>6. Ordered(st, pos, p)'
    BY <1>1, <2>1, <2>4, <2>5, StillOrdered
  <2> QED BY <2>6
<1>6. CASE ~(text /\ Shown \notin {Space, Cr})
  <2>1. AtMessage(st, pos, p)
    BY <1>1, <1>6, WhereNameFits
  <2>2. p + 1 \in 1..Len(published) /\ pos = st[p + 1] + At /\ hwIndex = m.id
    BY <2>1 DEF AtMessage
  <2>3. /\ m \in Message[text] /\ Shown = AfterName(text, m) /\ cursor = Len(Name) /\ Len(Name) \in Nat
        /\ Name = NameTable[text][m.id]
        /\ At + (cursor + 1) <= Len(Sent(text, m))
    BY <1>1, <2>2, ShownBehindName
  <2>4. Len(m.args) \in Nat /\ m.args \in Seq(Seq(Byte))
    BY <1>2, <2>3, MessageFacts
  <2>5. CASE ~text /\ Shown # 0 /\ arg' = [arg EXCEPT !.nums = Shown] /\ chState' = "ARG_LENGTH" /\ UNCHANGED <<hwIndex, bIsRequestDrop>>
    <3>1. m \in Message[FALSE] /\ Shown = Len(m.args) /\ text = FALSE
      BY <1>2, <2>3, <2>5, BehindTopicName
    <3>2. PICK oa : ArgsAt(m, oa) /\ TopicShape(m, Sent(FALSE, m), oa)
      BY <3>1, TopicSent
    <3>3. oa[1] = 0
      BY <3>1, <3>2, ArgsSums
    <3>4. /\ arg'.nums = Len(m.args) /\ arg'.index = 0 /\ arg'.read = <<>>
      <4>1. arg'.nums = Shown /\ arg'.index = arg.index /\ arg'.read = arg.read
        BY <2>5 DEF TopicsTypes, ScanInv, ScanTypes
      <4> QED BY <1>3, <3>1, <4>1
    <3>5. Len(arg'.read) = 0 /\ arg'.read \in Seq(Seq(Byte)) /\ 0 < Len(m.args)
      <4>1. Len(m.args) # 0
        BY <2>5, <3>1
      <4> QED BY <2>4, <3>4, <4>1, EmptySeq
    <3>6. MessageArgs(text, m, oa) /\ AtMessage(st, pos, p)' /\ ReadSame(m)'
      <4>1. MessageArgs(text, m, oa)
        BY <3>1, <3>2 DEF MessageArgs
      <4>2. AtMessage(st, pos, p)'
        BY <1>1, <2>1, <2>5 DEF AtMessage, At
      <4>3. ReadSame(m)'
        BY <1>1, <3>5 DEF ReadSame
      <4> QED BY <4>1, <4>2, <4>3
    <3>7. BinaryRead(m, oa)'
      <4>1. cursor' = Len(Name) + 1 + 2 * Len(arg'.read) + oa[Len(arg'.read) + 1]
        <5>1. Len(arg'.read) + 1 = 1
          BY <3>5
        <5>2. Len(Name) + 1 + 2 * 0 + 0 = cursor + 1
          BY <2>3
        <5> QED BY <1>1, <3>3, <3>5, <5>1, <5>2
      <4>2. oa[Len(arg'.read) + 1] = 0
        BY <3>3, <3>5
      <4>3. Name' = Name /\ m' = m /\ bArgIsString' = FALSE
        BY <1>1, <2>5, <3>1 DEF Name, Names
      <4> QED BY <2>5, <3>4, <4>1, <4>2, <4>3 DEF BinaryRead
    <3>8. Reading(st, pos, p)'
      <4>1. bArgIsString' = text /\ m' = m
        BY <1>1
      <4> HIDE DEF AtMessage, ReadSame, MessageArgs, BinaryRead
      <4> QED BY <2>5, <3>6, <3>7, <4>1 DEF Reading
    <3>9. Undisturbed' /\ FirstKept(st, pos, p)'
      <4>1. FirstKept(st, pos, p)'
        BY <1>1, <1>2, <2>5, SameNameKept DEF Ordered
      <4> QED BY <1>1, <1>4, <4>1 DEF Undisturbed
    <3>10. handled' = handled
      BY <2>5 DEF ScanGoesOn
    <3>11. Ordered(st, pos, p)'
      BY <1>1, <2>5, <3>8, <3>9, <3>10, StillOrdered
    <3> QED BY <3>11
  <2>6. CASE text /\ Shown = Space /\ chState' = "ARG_TEXT" /\ UNCHANGED <<arg, hwIndex, bIsRequestDrop>>
    <3>1. m \in Message[TRUE] /\ text = TRUE /\ Len(m.args) # 0
      <4>1. m \in Message[TRUE] /\ text = TRUE
        BY <1>2, <2>3, <2>6
      <4>2. Shown = IF Len(m.args) = 0 THEN Cr ELSE Space
        BY <2>3, <4>1, BehindLineName
      <4>3. Cr # Space
        BY DEF Cr, Space
      <4> QED BY <2>6, <4>1, <4>2, <4>3
    <3>2. PICK oa : ArgsAt(m, oa) /\ LineShape(m, Sent(TRUE, m), oa)
      BY <3>1, LineSent
    <3>3. oa[1] = 0
      BY <3>1, <3>2, ArgsSums
    <3>4. Len(arg.read) = 0 /\ Len(arg.word) = 0 /\ arg.read \in Seq(Seq(Byte)) /\ 0 < Len(m.args)
          /\ 1 \in 1..Len(m.args)
      BY <1>3, <2>4, <3>1, EmptySeq
    <3>5. MessageArgs(text, m, oa) /\ AtMessage(st, pos, p)' /\ ReadSame(m)'
      <4>1. MessageArgs(text, m, oa)
        BY <3>1, <3>2 DEF MessageArgs
      <4>2. AtMessage(st, pos, p)'
        BY <1>1, <2>1, <2>6 DEF AtMessage, At
      <4>3. ReadSame(m)'
        BY <1>1, <2>6, <3>4 DEF ReadSame
      <4> QED BY <4>1, <4>2, <4>3
    <3>6. TextRead(m, oa)'
      <4>1. cursor' = Len(Name) + Len(arg.read) + 1 + oa[Len(arg.read) + 1] + Len(arg.word)
        <5>1. Len(arg.read) + 1 = 1
          BY <3>4
        <5>2. Len(Name) + 0 + 1 + 0 + 0 = cursor + 1
          BY <2>3
        <5> QED BY <1>1, <3>3, <3>4, <5>1, <5>2
      <4>2. arg.index = Len(arg.read) + oa[Len(arg.read) + 1] + Len(arg.word)
        <5>1. Len(arg.read) + 1 = 1
          BY <3>4
        <5> QED BY <1>3, <3>3, <3>4, <5>1
      <4>3. Name' = Name /\ m' = m /\ bArgIsString' = TRUE /\ arg' = arg
        BY <1>1, <2>6, <3>1 DEF Name, Names
      <4>4. Len(arg.word) <= Len(m.args[Len(arg.read) + 1])
        <5>1. Len(m.args[1]) \in Nat
          BY <3>1, <3>4, MessageFacts
        <5>2. Len(arg.read) + 1 = 1
          BY <3>4
        <5> QED BY <3>4, <5>1, <5>2
      <4> QED BY <3>4, <4>1, <4>2, <4>3, <4>4 DEF TextRead
    <3>7. Reading(st, pos, p)'
      <4>1. bArgIsString' = text /\ m' = m
        BY <1>1
      <4> HIDE DEF AtMessage, ReadSame, MessageArgs, TextRead
      <4> QED BY <2>6, <3>5, <3>6, <4>1 DEF Reading
    <3>8. Undisturbed' /\ FirstKept(st, pos, p)'
      <4>1. FirstKept(st, pos, p)'
        BY <1>1, <1>2, <2>6, SameNameKept DEF Ordered
      <4> QED BY <1>1, <1>4, <4>1 DEF Undisturbed
    <3>9. handled' = handled
      BY <2>6 DEF ScanGoesOn
    <3>10. Ordered(st, pos, p)'
      BY <1>1, <2>6, <3>7, <3>8, <3>9, StillOrdered
    <3> QED BY <3>10
  <2>7. CASE (Shown = IF text THEN Cr ELSE 0) /\ chState' = "HANDLER" /\ UNCHANGED <<arg, hwIndex, bIsRequestDrop>>
    <3>1. Len(m.args) = 0
      <4>1. CASE text
        <5>1. m \in Message[TRUE] /\ text = TRUE
          BY <1>2, <2>3, <4>1
        <5>2. Cr # Space
          BY DEF Cr, Space
        <5> QED BY <2>3, <2>7, <5>1, <5>2, BehindLineName
      <4>2. CASE ~text
        <5>1. m \in Message[FALSE] /\ text = FALSE
          BY <1>2, <2>3, <4>2
        <5> QED BY <2>3, <2>7, <5>1, BehindTopicName
      <4> QED BY <4>1, <4>2
    <3>2. m.args = <<>>
      BY <2>4, <3>1, EmptySeq
    <3>3. arg'.read = m.args
      BY <1>3, <2>7, <3>2
    <3>4. cursor' \in Nat /\ cursor' >= 1 /\ At + cursor' <= Len(Sent(bArgIsString, published[p + 1]))
      BY <1>1, <2>3
    <3>5. Ordered(st, pos, p + 1)'
      BY <1>1, <1>2, <2>1, <2>7, <3>3, <3>4, EntersHandler
    <3> QED BY <3>5
  <2> QED BY <1>6, <2>5, <2>6, <2>7 DEF StartsArgs
<1> QED BY <1>5, <1>6 DEF StartsArgs

-----------------------------------------------------------------------------
(* The arguments of the message in front, as the scan finds them behind    *)
(* the name: b bytes, the name and what follows it directly, come first.   *)
ArgsSized(args, oa) ==
    /\ args \in Seq(Seq(Byte)) /\ Len(args) \in Nat
    /\ oa \in [1..Len(args) + 1 -> Nat] /\ oa[1] = 0
    /\ \A r \in 1..Len(args) :
          /\ Len(args[r]) \in Nat /\ Len(args[r]) > 0 /\ args[r] \in Seq(Byte)
          /\ oa[r] \in Nat /\ oa[r + 1] \in Nat /\ oa[r + 1] = oa[r] + Len(args[r])
          /\ oa[r + 1] <= oa[Len(args) + 1]

ArgBegins(oa, r, b) == b + 2 * (r - 1) + oa[r]

TopicArgsInFront(args, oa, b, s) ==
    /\ ArgsSized(args, oa)
    /\ \A r \in 1..Len(args) :
          /\ ArgBegins(oa, r, b) \in Nat
          /\ ArgBegins(oa, r, b) + 2 + Len(args[r]) <= Len(queue)
          /\ At + (ArgBegins(oa, r, b) + 2 + Len(args[r])) <= Len(s)
          /\ queue[ArgBegins(oa, r, b) + 1] = Len(args[r])
          /\ queue[ArgBegins(oa, r, b) + 2] = 0
          /\ \A i \in 1..Len(args[r]) : queue[ArgBegins(oa, r, b) + 2 + i] = args[r][i]

LEMMA ArgsAreSized ==
    ASSUME NEW text \in BOOLEAN, NEW m \in Message[text], NEW oa, ArgsAt(m, oa)
    PROVE  ArgsSized(m.args, oa)
<1> DEFINE n == Len(m.args)
<1>1. /\ m.args \in Seq(Seq(Byte)) /\ n \in Nat
      /\ \A k \in 1..n : m.args[k] \in Seq(Byte) /\ Len(m.args[k]) \in Nat \ {0}
  BY MessageFacts
<1>2. /\ Sums(n, [k \in 1..n |-> Len(m.args[k])], oa)
      /\ oa \in [1..n + 1 -> Nat] /\ oa[1] = 0
      /\ \A k \in 1..n : oa[k + 1] = oa[k] + Len(m.args[k])
  BY ArgsSums
<1>3. ASSUME NEW r \in 1..n
      PROVE  /\ oa[r] \in Nat /\ oa[r + 1] \in Nat /\ oa[r + 1] <= oa[n + 1]
  <2>1. r \in 1..n + 1 /\ r + 1 \in 1..n + 1 /\ n + 1 \in 1..n + 1 /\ r + 1 <= n + 1
    BY <1>1
  <2>2. oa[r + 1] <= oa[n + 1]
    BY <1>2, <2>1, SumsGrow
  <2> QED BY <1>2, <2>1, <2>2
<1>4. ASSUME NEW r \in 1..n
      PROVE  /\ m.args[r] \in Seq(Byte) /\ Len(m.args[r]) \in Nat /\ Len(m.args[r]) > 0
             /\ oa[r + 1] = oa[r] + Len(m.args[r])
  BY <1>1, <1>2
<1> QED BY <1>1, <1>2, <1>3, <1>4 DEF ArgsSized

LEMMA ArgWithin ==
    ASSUME NEW at \in Nat, NEW b \in Nat, NEW r \in Nat, NEW n \in Nat, NEW a \in Nat, NEW l \in Nat, NEW e \in Nat,
           r >= 1, r <= n, a + l <= e, NEW L, L = at + b + 2 * n + e
    PROVE  at + ((b + 2 * (r - 1) + a) + 2 + l) <= L /\ b + 2 * (r - 1) + a \in Nat
OBVIOUS

LEMMA ArgPlace ==
    ASSUME NEW at \in Nat, NEW b \in Nat, NEW r \in Nat, NEW a \in Nat, NEW i \in Nat, r >= 1
    PROVE  /\ at + ((b + 2 * (r - 1) + a) + i) = (at + b) + 2 * (r - 1) + a + i
           /\ at + ((b + 2 * (r - 1) + a) + 2 + i) = (at + b) + 2 * (r - 1) + a + 2 + i
OBVIOUS

LEMMA ArgPart ==
    ASSUME NEW at \in Nat, NEW o \in Nat, NEW l \in Nat, NEW i \in Nat, i <= l, NEW L \in Nat, at + (o + 2 + l) <= L,
           NEW q \in Nat, L <= at + q
    PROVE  /\ o + 2 + l <= q
           /\ o + 1 \in 1..q /\ o + 2 \in 1..q /\ o + 2 + i \in 1..q
           /\ at + (o + 1) <= L /\ at + (o + 2) <= L /\ at + (o + 2 + i) <= L
OBVIOUS

(* A message with binary arguments is all there when the scan looks at it. *)
LEMMA AllThere ==
    ASSUME TopicsTypes, NEW st, NEW pos, NEW p, Ordered(st, pos, p), AtMessage(st, pos, p), arriving = <<>>
    PROVE  /\ Len(Sent(bArgIsString, published[p + 1])) \in Nat
           /\ Len(Sent(bArgIsString, published[p + 1])) <= At + Len(queue)
<1> DEFINE n == Len(published)
           l == Len(Sent(bArgIsString, published[p + 1]))
<1>1. /\ Stream(bArgIsString, published, st) /\ At \in Nat /\ n \in Nat /\ pos \in Nat /\ Len(queue) \in Nat
      /\ p \in 0..n
  BY OrderedFacts
<1>2. p + 1 \in 1..n /\ pos = st[p + 1] + At
  BY DEF AtMessage
<1>3. l \in Nat /\ st[p + 1] \in Nat /\ st[(p + 1) + 1] = st[p + 1] + l
  BY <1>1, <1>2, StreamFacts
<1>4. Coming(bArgIsString, published, arriving, st, pos + Len(queue))
  BY DEF Ordered, Kept
<1>5. pos + Len(queue) = st[n + 1]
  BY <1>1, <1>4, AllCome DEF SomeCome
<1>6. st[(p + 1) + 1] <= st[n + 1]
  <2>1. (p + 1) + 1 \in 1..n + 1 /\ n + 1 \in 1..n + 1 /\ (p + 1) + 1 <= n + 1
    BY <1>1, <1>2
  <2> QED BY <1>1, <2>1, StreamFacts
<1> HIDE DEF l
<1>7. l <= At + Len(queue)
  <2> DEFINE a == st[p + 1]
             c == st[(p + 1) + 1]
             q == Len(queue)
  <2>1. a \in Nat /\ l \in Nat /\ q \in Nat /\ At \in Nat /\ pos = a + At /\ c = a + l /\ c <= pos + q
    BY <1>1, <1>2, <1>3, <1>5, <1>6
  <2> HIDE DEF a, c, q
  <2>2. l <= At + q
    BY <2>1
  <2> QED BY <2>2 DEF q
<1> QED BY <1>3, <1>7 DEF l

LEMMA TopicFront ==
    ASSUME TopicsTypes, NEW st, NEW pos, NEW p, Ordered(st, pos, p), AtMessage(st, pos, p), arriving = <<>>,
           ~bArgIsString, NEW oa, MessageArgs(bArgIsString, published[p + 1], oa)
    PROVE  /\ TopicArgsInFront(published[p + 1].args, oa, Len(Name) + 1, Sent(bArgIsString, published[p + 1]))
           /\ Len(Name) \in Nat
<1> DEFINE text == bArgIsString
           m == published[p + 1]
           s == Sent(text, m)
           b == Len(Name) + 1
           n == Len(m.args)
<1>1. /\ Stream(text, published, st) /\ At \in Nat /\ pos \in Nat /\ Len(queue) \in Nat /\ text \in BOOLEAN
      /\ p \in 0..Len(published)
  BY OrderedFacts
<1>2. p + 1 \in 1..Len(published) /\ pos = st[p + 1] + At /\ hwIndex = m.id
  BY DEF AtMessage
<1>3. m \in Message[text] /\ Len(s) \in Nat
  BY <1>1, <1>2, StreamFacts
<1>4. text = FALSE /\ m \in Message[FALSE]
  BY <1>1, <1>3
<1>5. ArgsAt(m, oa) /\ TopicShape(m, s, oa)
  BY <1>4 DEF MessageArgs
<1>6. Name = NameTable[text][m.id] /\ Len(Name) \in Nat
  <2>1. Name = NameTable[text][m.id]
    BY <1>2 DEF Name, Names
  <2> QED BY <1>1, <1>3, <2>1, MessageFacts
<1>7. At = Len(Prefix)
  BY DEF At, NameAt
<1>8. ArgsSized(m.args, oa)
  BY <1>1, <1>3, <1>5, ArgsAreSized
<1>9. /\ Len(s) = (At + b) + 2 * n + oa[n + 1]
      /\ \A r \in 1..n :
            /\ s[(At + b) + 2 * (r - 1) + oa[r] + 1] = Len(m.args[r])
            /\ s[(At + b) + 2 * (r - 1) + oa[r] + 2] = 0
            /\ \A i \in 1..Len(m.args[r]) : s[(At + b) + 2 * (r - 1) + oa[r] + 2 + i] = m.args[r][i]
  <2> DEFINE base == Len(Prefix) + Len(NameTable[FALSE][m.id]) + 1
  <2>1. /\ Len(s) = base + 2 * n + oa[n + 1]
        /\ \A r \in 1..n :
              /\ s[base + 2 * (r - 1) + oa[r] + 1] = Len(m.args[r])
              /\ s[base + 2 * (r - 1) + oa[r] + 2] = 0
              /\ \A i \in 1..Len(m.args[r]) : s[base + 2 * (r - 1) + oa[r] + 2 + i] = m.args[r][i]
    BY <1>5 DEF TopicShape
  <2>2. base = At + b
    <3> DEFINE l == Len(Name)
               a == Len(Prefix)
    <3>1. base = a + l + 1 /\ At = a /\ a \in Nat /\ l \in Nat
      BY <1>1, <1>4, <1>6, <1>7
    <3> HIDE DEF base, l, a
    <3>2. base = At + (l + 1)
      BY <3>1
    <3> QED BY <3>2 DEF l
  <2> HIDE DEF base, b
  <2> QED BY <2>1, <2>2
<1>10. Len(s) <= At + Len(queue)
  BY AllThere
<1>11. b \in Nat
  BY <1>6
<1>12. n \in Nat
  BY <1>8 DEF ArgsSized
<1>14. ASSUME NEW x \in 1..Len(queue), At + x <= Len(s) PROVE queue[x] = s[At + x]
  BY <1>2, <1>14, FrontByte
<1> HIDE DEF b, s, m, n
<1>13. ASSUME NEW r \in 1..n
       PROVE  /\ ArgBegins(oa, r, b) \in Nat
              /\ ArgBegins(oa, r, b) + 2 + Len(m.args[r]) <= Len(queue)
              /\ At + (ArgBegins(oa, r, b) + 2 + Len(m.args[r])) <= Len(s)
              /\ queue[ArgBegins(oa, r, b) + 1] = Len(m.args[r])
              /\ queue[ArgBegins(oa, r, b) + 2] = 0
              /\ \A i \in 1..Len(m.args[r]) : queue[ArgBegins(oa, r, b) + 2 + i] = m.args[r][i]
  <2> DEFINE a == oa[r]
             l == Len(m.args[r])
             e == oa[n + 1]
             o == ArgBegins(oa, r, b)
  <2>1. r \in Nat /\ r >= 1 /\ r <= n /\ n \in Nat
    BY <1>12
  <2>2. a \in Nat /\ l \in Nat /\ l > 0 /\ e \in Nat /\ a + l <= e
    <3>1. /\ oa[r + 1] = oa[r] + Len(m.args[r]) /\ oa[r] \in Nat /\ Len(m.args[r]) \in Nat /\ Len(m.args[r]) > 0
          /\ oa[r + 1] <= oa[n + 1]
      BY <1>8 DEF ArgsSized, n
    <3>2. oa[n + 1] \in Nat
      <4>1. n + 1 \in 1..n + 1 /\ oa \in [1..n + 1 -> Nat]
        BY <1>8, <1>12 DEF ArgsSized, n
      <4> QED BY <4>1
    <3> QED BY <3>1, <3>2
  <2>3. o = b + 2 * (r - 1) + a
    BY DEF ArgBegins
  <2>4. Len(s) = At + b + 2 * n + e
    BY <1>9
  <2>5. /\ s[(At + b) + 2 * (r - 1) + a + 1] = l
        /\ s[(At + b) + 2 * (r - 1) + a + 2] = 0
        /\ \A i \in 1..l : s[(At + b) + 2 * (r - 1) + a + 2 + i] = m.args[r][i]
    BY <1>9
  <2> HIDE DEF a, e, o, l
  <2>6. At + (o + 2 + l) <= Len(s) /\ o \in Nat
    BY <1>1, <1>11, <2>1, <2>2, <2>3, <2>4, ArgWithin
  <2>7. At + (o + 1) = (At + b) + 2 * (r - 1) + a + 1 /\ At + (o + 2) = (At + b) + 2 * (r - 1) + a + 2
    BY <1>1, <1>11, <2>1, <2>2, <2>3, ArgPlace
  <2>8. o + 2 + l <= Len(queue) /\ o + 1 \in 1..Len(queue) /\ o + 2 \in 1..Len(queue)
        /\ At + (o + 1) <= Len(s) /\ At + (o + 2) <= Len(s)
    <3>1. l <= l
      BY <2>2
    <3> QED BY <1>1, <1>3, <1>10, <2>2, <2>6, <3>1, ArgPart DEF s
  <2>9. queue[o + 1] = l /\ queue[o + 2] = 0
    <3>1. queue[o + 1] = s[At + (o + 1)] /\ queue[o + 2] = s[At + (o + 2)]
      BY <1>14, <2>8
    <3> QED BY <2>5, <2>7, <3>1
  <2>10. ASSUME NEW i \in 1..l PROVE queue[o + 2 + i] = m.args[r][i]
    <3>1. i \in Nat /\ i <= l
      BY <2>2
    <3>2. o + 2 + i \in 1..Len(queue) /\ At + (o + 2 + i) <= Len(s)
      BY <1>1, <1>3, <1>10, <2>2, <2>6, <3>1, ArgPart DEF s
    <3>3. At + (o + 2 + i) = (At + b) + 2 * (r - 1) + a + 2 + i
      BY <1>1, <1>11, <2>1, <2>2, <2>3, <3>1, ArgPlace
    <3>4. queue[o + 2 + i] = s[At + (o + 2 + i)]
      BY <1>14, <3>2
    <3> QED BY <2>5, <3>3, <3>4
  <2> QED BY <2>6, <2>8, <2>9, <2>10 DEF o, l
<1>15. TopicArgsInFront(m.args, oa, b, s)
  BY <1>8, <1>13 DEF TopicArgsInFront, n
<1> QED BY <1>6, <1>15 DEF m, b, s

(* What is known in the states of check_arg that read binary arguments. *)
TopicReading(st, pos, p, oa) ==
    /\ AtMessage(st, pos, p) /\ ~bArgIsString /\ MessageArgs(bArgIsString, published[p + 1], oa)
    /\ ReadSame(published[p + 1]) /\ BinaryRead(published[p + 1], oa)
    /\ TopicArgsInFront(published[p + 1].args, oa, Len(Name) + 1, Sent(bArgIsString, published[p + 1]))
    /\ Len(Name) \in Nat

LEMMA TopicIsRead ==
    ASSUME TopicsTypes, OneAtATime, NEW st, NEW pos, NEW p, Ordered(st, pos, p), chState \in {"ARG_LENGTH", "ARG_BYTES"}
    PROVE  \E oa : TopicReading(st, pos, p, oa)
<1>1. AtMessage(st, pos, p) /\ ReadSame(published[p + 1])
  BY DEF Ordered, Reading
<1>2. PICK oa : MessageArgs(bArgIsString, published[p + 1], oa) /\ BinaryRead(published[p + 1], oa)
  BY DEF Ordered, Reading
<1>3. ~bArgIsString
  BY <1>2 DEF BinaryRead
<1>4. arriving = <<>>
  BY <1>3 DEF OneAtATime, Calling
<1>5. /\ TopicArgsInFront(published[p + 1].args, oa, Len(Name) + 1, Sent(bArgIsString, published[p + 1]))
      /\ Len(Name) \in Nat
  BY <1>1, <1>2, <1>3, <1>4, TopicFront
<1> QED BY <1>1, <1>2, <1>3, <1>5 DEF TopicReading

LEMMA LengthThere ==
    ASSUME NEW c \in Nat, NEW q \in Nat, NEW l \in Nat, c + 2 + l <= q
    PROVE  Fewer(2, q - c) = 2
BY DEF Fewer

LEMMA BytesThere ==
    ASSUME NEW c \in Nat, NEW q \in Nat, NEW l \in Nat, c + l <= q
    PROVE  Fewer(l, q - c) = l
BY DEF Fewer

LEMMA ReadsLengthKeeps ==
    ASSUME TopicsTypes, OneAtATime, NEW st, NEW pos, NEW p, Ordered(st, pos, p), ScanGoesOn, ReadsLength
    PROVE  Ordered(st, pos, p)'
<1> DEFINE m == published[p + 1]
           got == Fewer(2, Len(queue) - cursor)
           upper == IF got = 2 THEN queue[cursor + 2] ELSE arg.len \div 256
           r == Len(arg.read) + 1
           b == Len(Name) + 1
<1>1. /\ UNCHANGED <<queue, bArgIsString, published, arriving, overwritten, undisturbed, hwIndex, bIsRequestDrop>>
      /\ chState = "ARG_LENGTH" /\ chState' = "ARG_BYTES"
      /\ cursor' = cursor + got /\ arg' = [arg EXCEPT !.len = Shown + 256 * upper]
  BY DEF ScanGoesOn, ReadsLength
<1>2. handled' = handled
  BY <1>1 DEF ScanGoesOn
<1>3. PICK oa : TopicReading(st, pos, p, oa)
  BY <1>1, TopicIsRead
<1>4. /\ AtMessage(st, pos, p) /\ bArgIsString = FALSE /\ MessageArgs(bArgIsString, m, oa)
      /\ ReadSame(m) /\ BinaryRead(m, oa) /\ Len(Name) \in Nat
  BY <1>3, OrderedFacts DEF TopicReading
<1>5. r \in 1..Len(m.args) /\ Len(arg.read) \in Nat
  <2>1. arg.read \in Seq(Seq(Byte)) /\ Len(arg.read) < Len(m.args)
    BY <1>4 DEF ReadSame
  <2>2. Len(m.args) \in Nat
    BY <1>3 DEF TopicReading, TopicArgsInFront, ArgsSized
  <2> QED BY <2>1, <2>2
<1>6. cursor = ArgBegins(oa, r, b)
  <2>1. cursor = Len(Name) + 1 + 2 * Len(arg.read) + oa[r]
    BY <1>1, <1>4 DEF BinaryRead
  <2>2. r - 1 = Len(arg.read)
    BY <1>5
  <2> QED BY <2>1, <2>2 DEF ArgBegins
<1> DEFINE l == Len(m.args[r])
<1>7. /\ cursor \in Nat /\ cursor + 2 + l <= Len(queue) /\ queue[cursor + 1] = l /\ queue[cursor + 2] = 0
      /\ l \in Nat /\ Len(queue) \in Nat
  <2>1. TopicArgsInFront(m.args, oa, b, Sent(bArgIsString, m))
    BY <1>3 DEF TopicReading
  <2>2. l \in Nat
    BY <1>5, <2>1 DEF TopicArgsInFront, ArgsSized
  <2> QED BY <1>5, <1>6, <2>1, <2>2, OrderedFacts DEF TopicArgsInFront
<1>8. got = 2
  BY <1>7, LengthThere
<1>9. upper = 0 /\ Shown = l
  BY <1>7, <1>8 DEF Shown
<1> HIDE DEF got, upper, l
<1>10. /\ arg'.nums = arg.nums /\ arg'.index = arg.index /\ arg'.read = arg.read /\ arg'.len = l
       /\ cursor' = cursor + 2
  <2>1. Shown + 256 * upper = l
    BY <1>7, <1>9 DEF l
  <2>2. arg' = [arg EXCEPT !.len = l]
    BY <1>1, <2>1
  <2> QED BY <1>1, <1>8, <2>2 DEF TopicsTypes, ScanInv, ScanTypes
<1>11. MessageArgs(bArgIsString, m, oa) /\ AtMessage(st, pos, p)' /\ ReadSame(m)'
  <2>1. AtMessage(st, pos, p)'
    BY <1>1, <1>4 DEF AtMessage, At
  <2>2. ReadSame(m)'
    BY <1>1, <1>4, <1>10 DEF ReadSame
  <2> QED BY <1>4, <2>1, <2>2
<1>12. BinaryRead(m, oa)'
  <2>1. cursor' = Len(Name) + 1 + 2 * Len(arg.read) + oa[Len(arg.read) + 1] + 2
    BY <1>1, <1>4, <1>10 DEF BinaryRead
  <2>2. Name' = Name /\ m' = m /\ bArgIsString' = FALSE
    BY <1>1, <1>4 DEF Name, Names
  <2>3. ~bArgIsString /\ arg.nums = Len(m.args) /\ arg.index = oa[Len(arg.read) + 1]
    BY <1>4 DEF BinaryRead
  <2> QED BY <1>1, <1>10, <2>1, <2>2, <2>3 DEF BinaryRead, l
<1>13. Reading(st, pos, p)'
  <2>1. bArgIsString' = bArgIsString /\ m' = m
    BY <1>1
  <2> HIDE DEF AtMessage, ReadSame, MessageArgs, BinaryRead
  <2> QED BY <1>1, <1>11, <1>12, <2>1 DEF Reading
<1>14. Undisturbed' /\ FirstKept(st, pos, p)'
  <2>1. FirstKept(st, pos, p)'
    BY <1>1, SameNameKept DEF Ordered, Calling
  <2>2. undisturbed
    BY <1>1 DEF Ordered, Undisturbed, ArgStates
  <2> QED BY <1>1, <2>1, <2>2 DEF Undisturbed
<1> QED BY <1>1, <1>2, <1>13, <1>14, StillOrdered

LEMMA NextArgBegins ==
    ASSUME NEW c \in Nat, NEW k \in Nat, NEW a \in Nat, NEW l \in Nat, NEW b \in Nat, c = b + 1 + 2 * k + a + 2
    PROVE  c + l = b + 1 + 2 * (k + 1) + (a + l)
OBVIOUS

LEMMA SamePart ==
    ASSUME NEW S, NEW q \in Seq(S), NEW c \in Nat, NEW l \in Nat, c + l <= Len(q),
           NEW t \in Seq(S), Len(t) = l, \A i \in 1..l : q[c + i] = t[i]
    PROVE  SubSeq(q, c + 1, c + l) = t
<1> DEFINE u == SubSeq(q, c + 1, c + l)
           n == Len(q)
<1>0. n \in Nat /\ c + l <= n
  OBVIOUS
<1>1. (c + 1) + l - 1 = c + l /\ \A i \in 1..l : c + i \in 1..n /\ (c + 1) + i - 1 = c + i
  <2> HIDE DEF n
  <2> QED BY <1>0
<1>2. \A i \in c + 1..c + l : i \in 1..Len(q)
  OBVIOUS
<1>3. Len(u) = l
  <2>1. Len(u) = IF c + 1 <= c + l THEN (c + l) - (c + 1) + 1 ELSE 0
    BY <1>2
  <2> QED BY <2>1
<1>4. u \in Seq(S)
  BY <1>2
<1>5. ASSUME NEW i \in 1..l PROVE u[i] = q[c + i]
  <2>1. u[i] = q[(c + 1) + i - 1]
    BY <1>1, <1>3
  <2> QED BY <1>1, <2>1
<1> HIDE DEF u
<1>6. u = t
  BY <1>3, <1>4, <1>5, SeqEqual
<1> QED BY <1>6 DEF u

LEMMA BelowLimit ==
    ASSUME NEW a \in Nat, NEW e \in Nat, NEW n \in Nat, NEW L \in Nat, a <= e, e + n < L - 1
    PROVE  ~(a >= L - 1)
OBVIOUS

LEMMA Beyond ==
    ASSUME NEW c \in Nat, NEW l \in Nat, l > 0, NEW d, d = c + l
    PROVE  d \in Nat /\ d >= 1
OBVIOUS

LEMMA ReadsBytesKeeps ==
    ASSUME TopicsTypes, TopicsTypes', OneAtATime, NEW st, NEW pos, NEW p, Ordered(st, pos, p), ScanGoesOn, ReadsBytes
    PROVE  Ordered(st, pos, p)' \/ Ordered(st, pos, p + 1)'
<1> DEFINE m == published[p + 1]
           args == m.args
           got == Fewer(arg.len, Len(queue) - cursor)
           part == SubSeq(queue, cursor + 1, cursor + got)
           k == Len(arg.read)
           r == k + 1
           b == Len(Name) + 1
<1>1. /\ UNCHANGED <<queue, bArgIsString, published, arriving, overwritten, undisturbed, hwIndex, bIsRequestDrop>>
      /\ chState = "ARG_BYTES"
      /\ chState' = IF Len(arg'.read) >= arg.nums \/ arg'.index >= ArgLen - 1 THEN "HANDLER" ELSE "ARG_LENGTH"
      /\ cursor' = cursor + got
      /\ arg' = [arg EXCEPT !.index = @ + arg.len, !.read = Append(@, part)]
  BY DEF ScanGoesOn, ReadsBytes
<1>2. PICK oa : TopicReading(st, pos, p, oa)
  BY <1>1, TopicIsRead
<1>3. /\ AtMessage(st, pos, p) /\ bArgIsString = FALSE /\ MessageArgs(bArgIsString, m, oa)
      /\ ReadSame(m) /\ BinaryRead(m, oa) /\ Len(Name) \in Nat /\ ArgsSized(args, oa)
  BY <1>2, OrderedFacts DEF TopicReading, TopicArgsInFront
<1>4. /\ arg.read \in Seq(Seq(Byte)) /\ k < Len(args) /\ k \in Nat /\ Len(args) \in Nat
      /\ \A x \in 1..k : arg.read[x] = args[x]
      /\ args \in Seq(Seq(Byte))
  BY <1>3 DEF ReadSame, ArgsSized
<1>5. r \in 1..Len(args) /\ r - 1 = k
  BY <1>4
<1> DEFINE l == Len(args[r])
           o == ArgBegins(oa, r, b)
<1>6. cursor = o + 2 /\ arg.len = l /\ arg.nums = Len(args) /\ arg.index = oa[r]
      /\ cursor = Len(Name) + 1 + 2 * k + oa[r] + 2
  <2>1. /\ cursor = Len(Name) + 1 + 2 * k + oa[r] + 2
        /\ arg.len = l /\ arg.nums = Len(args) /\ arg.index = oa[r]
    BY <1>1, <1>3 DEF BinaryRead
  <2> QED BY <1>5, <2>1 DEF ArgBegins
<1>7. /\ o \in Nat /\ cursor \in Nat /\ cursor + l <= Len(queue) /\ l \in Nat /\ l > 0 /\ Len(queue) \in Nat
      /\ \A i \in 1..l : queue[cursor + i] = args[r][i]
      /\ At + (cursor + l) <= Len(Sent(bArgIsString, m))
      /\ args[r] \in Seq(Byte) /\ queue \in Seq(Byte)
      /\ oa[r] \in Nat /\ oa[r + 1] = oa[r] + l /\ oa[r + 1] \in Nat /\ oa[r + 1] <= oa[Len(args) + 1]
  <2>1. TopicArgsInFront(args, oa, b, Sent(bArgIsString, m))
    BY <1>2 DEF TopicReading
  <2>2. /\ l \in Nat /\ l > 0 /\ args[r] \in Seq(Byte)
        /\ oa[r] \in Nat /\ oa[r + 1] = oa[r] + l /\ oa[r + 1] \in Nat /\ oa[r + 1] <= oa[Len(args) + 1]
    BY <1>5, <2>1 DEF TopicArgsInFront, ArgsSized
  <2>3. /\ o \in Nat /\ o + 2 + l <= Len(queue) /\ At + (o + 2 + l) <= Len(Sent(bArgIsString, m))
        /\ \A i \in 1..l : queue[o + 2 + i] = args[r][i]
    BY <1>5, <2>1 DEF TopicArgsInFront
  <2> HIDE DEF o
  <2>4. cursor \in Nat
    BY <1>6, <2>3
  <2> QED BY <1>6, <2>2, <2>3, <2>4, OrderedFacts
<1> HIDE DEF o
<1>8. got = l
  <2>1. cursor \in Nat /\ l \in Nat /\ cursor + l <= Len(queue) /\ Len(queue) \in Nat
    BY <1>7
  <2> HIDE DEF l
  <2>2. Fewer(l, Len(queue) - cursor) = l
    BY <2>1, BytesThere
  <2> QED BY <1>6, <2>2
<1>9. part = args[r]
  <2> HIDE DEF args, r, l
  <2>1. part = SubSeq(queue, cursor + 1, cursor + l)
    BY <1>8
  <2>3. args[r] \in Seq(Byte) /\ Len(args[r]) = l
    BY <1>7 DEF l
  <2> DEFINE t == args[r]
  <2>4. /\ queue \in Seq(Byte) /\ cursor \in Nat /\ l \in Nat /\ cursor + l <= Len(queue)
        /\ t \in Seq(Byte) /\ Len(t) = l /\ \A i \in 1..l : queue[cursor + i] = t[i]
    BY <1>7, <2>3
  <2> HIDE DEF t
  <2>5. SubSeq(queue, cursor + 1, cursor + l) = t
    BY <2>4, SamePart
  <2> QED BY <2>1, <2>5 DEF t
<1> HIDE DEF part, got
<1> DEFINE read == Append(arg.read, args[r])
<1>10. /\ read \in Seq(Seq(Byte)) /\ Len(read) = r
       /\ \A x \in 1..r : read[x] = args[x]
  <2> DEFINE S == Seq(Byte)
  <2>1. arg.read \in Seq(S) /\ args[r] \in S
    BY <1>4, <1>7
  <2> HIDE DEF S, args
  <2>2. \A x \in 1..k : arg.read[x] = args[x]
    BY <1>4
  <2> DEFINE x == args[r]
  <2>3. x \in S /\ x = args[k + 1] /\ k = Len(arg.read)
    BY <2>1
  <2> HIDE DEF k, x
  <2>4. Append(arg.read, x) \in Seq(S) /\ Len(Append(arg.read, x)) = k + 1
    BY <2>1, <2>3, OneMore
  <2>5. \A i \in 1..k + 1 : Append(arg.read, x)[i] = args[i]
    BY <2>1, <2>2, <2>3, SameLonger
  <2> QED BY <2>4, <2>5 DEF S, x
<1>11. arg'.read = read /\ arg'.index = oa[r + 1] /\ arg'.nums = Len(args) /\ cursor' = cursor + l
  <2>1. arg'.read = Append(arg.read, part) /\ arg'.index = arg.index + arg.len /\ arg'.nums = arg.nums
    BY <1>1 DEF TopicsTypes, ScanInv, ScanTypes
  <2> QED BY <1>1, <1>6, <1>7, <1>8, <1>9, <2>1
<1> HIDE DEF read
<1>12. CASE chState' = "HANDLER"
  <2>1. ASSUME Fits(m) PROVE arg'.read = args
    <3>1. Len(FlattenSeq(args)) = oa[Len(args) + 1]
      <4>1. ArgsAt(m, oa)
        BY <1>3 DEF MessageArgs
      <4> QED BY <4>1 DEF ArgsAt, Flattened
    <3>2. oa[Len(args) + 1] + Len(args) < ArgLen - 1
      BY <2>1, <3>1 DEF Fits
    <3>3. oa[Len(args) + 1] \in Nat
      <4>1. Len(args) + 1 \in 1..Len(args) + 1 /\ oa \in [1..Len(args) + 1 -> Nat]
        BY <1>3, <1>4 DEF ArgsSized
      <4> QED BY <4>1
    <3>4. ~(oa[r + 1] >= ArgLen - 1)
      <4> DEFINE a == oa[r + 1]
                 e == oa[Len(args) + 1]
                 n == Len(args)
      <4>1. a \in Nat /\ e \in Nat /\ n \in Nat /\ ArgLen \in Nat /\ a <= e /\ e + n < ArgLen - 1
        BY <1>4, <1>7, <3>2, <3>3, ScanAssumption
      <4> HIDE DEF a, e, n
      <4>2. ~(a >= ArgLen - 1)
        BY <4>1, BelowLimit
      <4> QED BY <4>2 DEF a
    <3>5. Len(arg'.read) >= arg.nums
      BY <1>1, <1>11, <1>12, <3>4
    <3>6. r = Len(args)
      <4>1. Len(arg'.read) = r /\ arg.nums = Len(args) /\ r >= Len(args)
        BY <1>6, <1>10, <1>11, <3>5
      <4>2. r <= Len(args)
        BY <1>5
      <4> HIDE DEF args, r
      <4>3. r \in Nat /\ Len(args) \in Nat
        BY <1>4 DEF r
      <4> QED BY <4>1, <4>2, <4>3
    <3>7. read = args
      <4> DEFINE S == Seq(Byte)
      <4>1. read \in Seq(S) /\ args \in Seq(S) /\ Len(read) = Len(args) /\ \A x \in 1..Len(read) : read[x] = args[x]
        BY <1>4, <1>10, <3>6
      <4> HIDE DEF S, args
      <4> QED BY <4>1, SeqEqual
    <3> QED BY <1>11, <3>7
  <2>2. cursor' \in Nat /\ cursor' >= 1 /\ At + cursor' <= Len(Sent(bArgIsString, m))
    <3>1. cursor' \in Nat /\ cursor' >= 1
      BY <1>7, <1>11, Beyond
    <3> QED BY <1>7, <1>11, <3>1
  <2>3. chState \in ArgStates
    BY <1>1 DEF ArgStates
  <2>4. Ordered(st, pos, p + 1)'
    BY <1>1, <1>3, <1>12, <2>1, <2>2, <2>3, EntersHandler
  <2> QED BY <2>4
<1>13. CASE chState' # "HANDLER"
  <2>1. chState' = "ARG_LENGTH" /\ ~(Len(arg'.read) >= arg.nums)
    BY <1>1, <1>13
  <2>2. handled' = handled
    BY <1>13 DEF ScanGoesOn
  <2>3. r < Len(args)
    <3> DEFINE n == Len(args)
    <3>1. r \in 1..n /\ n \in Nat
      BY <1>4, <1>5
    <3>2. Len(arg'.read) = r /\ arg.nums = n
      BY <1>6, <1>10, <1>11
    <3> HIDE DEF r, n
    <3>3. r < n
      BY <2>1, <3>1, <3>2
    <3> QED BY <3>3 DEF n
  <2>4. AtMessage(st, pos, p)'
    BY <1>1, <1>3 DEF AtMessage, At
  <2>5. ReadSame(m)'
    BY <1>1, <1>10, <1>11, <2>3 DEF ReadSame
  <2>6. BinaryRead(m, oa)'
    <3>1. Len(arg'.read) = k + 1 /\ Len(arg'.read) = r
      BY <1>10, <1>11
    <3>2. cursor' = Len(Name) + 1 + 2 * (k + 1) + oa[r + 1]
      <4>1. cursor + l = Len(Name) + 1 + 2 * (k + 1) + (oa[r] + l)
        <5> DEFINE a == oa[r]
        <5>1. a \in Nat /\ k \in Nat /\ l \in Nat /\ Len(Name) \in Nat /\ cursor \in Nat
              /\ cursor = Len(Name) + 1 + 2 * k + a + 2
          BY <1>3, <1>4, <1>6, <1>7
        <5> HIDE DEF a, k, l
        <5>2. cursor + l = Len(Name) + 1 + 2 * (k + 1) + (a + l)
          BY <5>1, NextArgBegins
        <5> QED BY <5>2 DEF a
      <4> QED BY <1>7, <1>11, <4>1
    <3>3. Name' = Name /\ m' = m /\ bArgIsString' = FALSE
      BY <1>1, <1>3 DEF Name, Names
    <3> HIDE DEF r, k
    <3> QED BY <1>11, <2>1, <3>1, <3>2, <3>3 DEF BinaryRead
  <2>7. Reading(st, pos, p)'
    <3>1. bArgIsString' = bArgIsString /\ m' = m
      BY <1>1
    <3> HIDE DEF AtMessage, ReadSame, MessageArgs, BinaryRead
    <3> QED BY <1>3, <2>1, <2>4, <2>5, <2>6, <3>1 DEF Reading
  <2>8. Undisturbed' /\ FirstKept(st, pos, p)'
    <3>1. FirstKept(st, pos, p)'
      BY <1>1, SameNameKept DEF Ordered, Calling
    <3>2. undisturbed
      BY <1>1 DEF Ordered, Undisturbed, ArgStates
    <3> QED BY <1>1, <3>1, <3>2 DEF Undisturbed
  <2>9. Ordered(st, pos, p)'
    BY <1>1, <2>1, <2>2, <2>7, <2>8, StillOrdered
  <2> QED BY <2>9
<1> QED BY <1>12, <1>13

LEMMA WordPlaces ==
    ASSUME NEW b \in Nat, NEW k \in Nat, NEW j \in Nat, NEW a \in Nat, NEW l \in Nat, NEW e \in Nat, NEW n \in Nat,
           NEW c, c = b + j + 1 + a + k, k <= l, a + l <= e, j + 1 <= n, NEW L, L = b + n + e + 1
    PROVE  /\ c \in Nat /\ c + 1 <= L /\ c + 1 >= 1 /\ L \in Nat
           /\ b + (j + 1) + a + (k + 1) = c + 1
OBVIOUS

LEMMA WordEnds ==
    ASSUME NEW b \in Nat, NEW k \in Nat, NEW j \in Nat, NEW a \in Nat,
           NEW c, c = b + j + 1 + a + k
    PROVE  /\ b + ((j + 2) - 1) + (a + k) + 1 = c + 1
           /\ b + (j + 1) + (a + k) + 1 = c + 1
           /\ c + 1 = b + (j + 1) + 1 + (a + k) + 0
           /\ c + 1 = b + j + 1 + a + (k + 1)
OBVIOUS

(* What is known in the state of check_arg that reads words. *)
WordReading(st, pos, p, oa) ==
    /\ AtMessage(st, pos, p) /\ bArgIsString = TRUE /\ MessageArgs(bArgIsString, published[p + 1], oa)
    /\ ReadSame(published[p + 1]) /\ TextRead(published[p + 1], oa)
    /\ published[p + 1] \in Message[TRUE] /\ Len(Name) \in Nat
    /\ Name = NameTable[bArgIsString][published[p + 1].id]
    /\ ArgsSized(published[p + 1].args, oa)

LEMMA WordIsRead ==
    ASSUME TopicsTypes, NEW st, NEW pos, NEW p, Ordered(st, pos, p), chState = "ARG_TEXT"
    PROVE  \E oa : WordReading(st, pos, p, oa)
<1> DEFINE m == published[p + 1]
<1>1. AtMessage(st, pos, p) /\ ReadSame(m)
  BY DEF Ordered, Reading
<1>2. PICK oa : MessageArgs(bArgIsString, m, oa) /\ TextRead(m, oa)
  BY DEF Ordered, Reading
<1>3. bArgIsString = TRUE
  BY <1>2, OrderedFacts DEF TextRead
<1>4. p + 1 \in 1..Len(published) /\ hwIndex = m.id
  BY <1>1 DEF AtMessage
<1>5. m \in Message[bArgIsString] /\ m \in Message[TRUE]
  BY <1>3, <1>4, OrderedFacts, StreamFacts
<1>6. Name = NameTable[bArgIsString][m.id]
  BY <1>4 DEF Name, Names
<1>7. Len(Name) \in Nat
  BY <1>5, <1>6, OrderedFacts, MessageFacts
<1>8. ArgsAt(m, oa)
  BY <1>2 DEF MessageArgs
<1>9. ArgsSized(m.args, oa)
  BY <1>5, <1>8, OrderedFacts, ArgsAreSized
<1> QED BY <1>1, <1>2, <1>3, <1>5, <1>6, <1>7, <1>9 DEF WordReading

(* The next byte of the line: of the word, or behind it. *)
NextOfLine(m, r, k) ==
    /\ k < Len(m.args[r]) => Shown = m.args[r][k + 1] /\ Shown \notin {Space, Cr}
    /\ k = Len(m.args[r]) /\ r < Len(m.args) => Shown = Space
    /\ k = Len(m.args[r]) /\ r = Len(m.args) => Shown = Cr

LEMMA NextByteOfLine ==
    ASSUME NamesApart, TopicsTypes, NEW st, NEW pos, NEW p, Ordered(st, pos, p), chState = "ARG_TEXT", ~AtEnd,
           NEW oa, WordReading(st, pos, p, oa)
    PROVE  /\ Len(arg.read) + 1 \in 1..Len(published[p + 1].args)
           /\ NextOfLine(published[p + 1], Len(arg.read) + 1, Len(arg.word))
           /\ At = 0 /\ cursor \in Nat /\ cursor + 1 >= 1
           /\ cursor + 1 <= Len(Sent(bArgIsString, published[p + 1]))
<1> DEFINE m == published[p + 1]
           args == m.args
           n == Len(args)
           s == Sent(bArgIsString, m)
           j == Len(arg.read)
           r == j + 1
           k == Len(arg.word)
           b == Len(Name)
           a == oa[r]
           l == Len(args[r])
           e == oa[n + 1]
<1>1. /\ AtMessage(st, pos, p) /\ bArgIsString = TRUE /\ MessageArgs(bArgIsString, m, oa)
      /\ ReadSame(m) /\ TextRead(m, oa) /\ m \in Message[TRUE] /\ b \in Nat
      /\ Name = NameTable[bArgIsString][m.id] /\ ArgsSized(args, oa)
  BY DEF WordReading
<1>2. At = 0
  BY <1>1 DEF At, NameAt
<1>3. j \in Nat /\ n \in Nat /\ j < n /\ r \in 1..n /\ r <= n
  <2>1. arg.read \in Seq(Seq(Byte)) /\ j < n
    BY <1>1 DEF ReadSame
  <2>2. n \in Nat
    BY <1>1 DEF ArgsSized
  <2>3. j \in Nat
    BY <2>1
  <2> HIDE DEF j, n
  <2> QED BY <2>1, <2>2, <2>3
<1>4. /\ a \in Nat /\ l \in Nat /\ e \in Nat /\ a + l <= e /\ oa[r + 1] = a + l /\ args[r] \in Seq(Byte)
  <2>1. /\ l \in Nat /\ a \in Nat /\ oa[r + 1] = a + l /\ oa[r + 1] <= e /\ args[r] \in Seq(Byte)
    BY <1>1, <1>3 DEF ArgsSized
  <2>2. n + 1 \in 1..n + 1 /\ oa \in [1..n + 1 -> Nat]
    BY <1>1, <1>3 DEF ArgsSized
  <2> QED BY <2>1, <2>2
<1>5. k \in Nat /\ k <= l /\ cursor = b + j + 1 + a + k
  <2>1. k <= l /\ cursor = b + j + 1 + a + k
    BY <1>1 DEF TextRead
  <2>2. arg.word \in Seq(Byte)
    BY DEF TopicsTypes, ScanInv, ScanTypes
  <2> QED BY <2>1, <2>2
<1>6. ArgsAt(m, oa) /\ LineShape(m, s, oa)
  BY <1>1 DEF MessageArgs
<1>7. /\ Len(s) = b + n + e + 1
      /\ \A x \in 1..n : /\ s[b + (x - 1) + oa[x] + 1] = Space
                         /\ \A i \in 1..Len(args[x]) : s[b + x + oa[x] + i] = args[x][i]
      /\ s[Len(s)] = Cr
  BY <1>1, <1>6 DEF LineShape
<1>8. /\ cursor \in Nat /\ cursor + 1 <= Len(s) /\ cursor + 1 >= 1 /\ Len(s) \in Nat
      /\ b + r + a + (k + 1) = cursor + 1
  <2> DEFINE L == Len(s)
  <2>1. /\ b \in Nat /\ k \in Nat /\ j \in Nat /\ a \in Nat /\ l \in Nat /\ e \in Nat /\ n \in Nat
        /\ cursor = b + j + 1 + a + k /\ k <= l /\ a + l <= e /\ j + 1 <= n /\ L = b + n + e + 1
    BY <1>1, <1>3, <1>4, <1>5, <1>7
  <2> HIDE DEF b, k, j, a, l, e, n, L
  <2>2. /\ cursor \in Nat /\ cursor + 1 <= L /\ cursor + 1 >= 1 /\ L \in Nat
        /\ b + (j + 1) + a + (k + 1) = cursor + 1
    BY <2>1, WordPlaces
  <2> QED BY <2>2 DEF L
<1>9. Shown = s[cursor + 1]
  <2>1. p + 1 \in 1..Len(published) /\ pos = st[p + 1] + At
    BY <1>1 DEF AtMessage
  <2>2. cursor + 1 \in 1..Len(queue)
    BY <1>8, OrderedFacts DEF AtEnd
  <2>3. At + (cursor + 1) = cursor + 1
    BY <1>2, <1>8
  <2>4. queue[cursor + 1] = s[At + (cursor + 1)]
    BY <1>8, <2>1, <2>2, <2>3, FrontByte
  <2> QED BY <2>3, <2>4 DEF Shown
<1>10. NextOfLine(m, r, k)
  <2>1. CASE k < l
    <3>1. k + 1 \in 1..l
      <4>1. k \in Nat /\ l \in Nat /\ k < l
        BY <1>4, <1>5, <2>1
      <4> HIDE DEF k, l
      <4> QED BY <4>1
    <3>2. s[b + r + a + (k + 1)] = args[r][k + 1]
      BY <1>3, <1>7, <3>1
    <3>3. Shown = args[r][k + 1]
      BY <1>8, <1>9, <3>2
    <3>4. args[r][k + 1] \notin {Space, Cr}
      <4>1. r \in DOMAIN args
        BY <1>1, <1>3 DEF ArgsSized
      <4>2. DOMAIN args[r] = 1..l
        BY <1>4
      <4>3. \A kk \in DOMAIN args : \A x \in DOMAIN args[kk] : args[kk][x] \notin {Space, Cr}
        BY <1>1 DEF NamesApart
      <4> QED BY <3>1, <4>1, <4>2, <4>3
    <3>5. k # l
      BY <1>4, <1>5, <2>1
    <3> QED BY <3>3, <3>4, <3>5 DEF NextOfLine
  <2>2. CASE k = l
    <3>1. ~(k < l)
      BY <1>4, <2>2
    <3>2. b + ((j + 2) - 1) + (a + k) + 1 = cursor + 1 /\ b + (j + 1) + (a + k) + 1 = cursor + 1
      <4>1. b \in Nat /\ k \in Nat /\ j \in Nat /\ a \in Nat /\ cursor = b + j + 1 + a + k
        BY <1>1, <1>3, <1>4, <1>5
      <4> HIDE DEF b, k, j, a
      <4> QED BY <4>1, WordEnds
    <3>3. r < n => Shown = Space
      <4> SUFFICES ASSUME r < n PROVE Shown = Space
        OBVIOUS
      <4>1. j + 2 \in 1..n /\ j + 2 = r + 1
        BY <1>3
      <4>2. oa[j + 2] = a + k
        BY <1>4, <2>2, <4>1
      <4>3. s[b + ((j + 2) - 1) + oa[j + 2] + 1] = Space
        BY <1>7, <4>1
      <4> QED BY <1>9, <3>2, <4>2, <4>3
    <3>4. r = n => Shown = Cr
      <4> SUFFICES ASSUME r = n PROVE Shown = Cr
        OBVIOUS
      <4>1. e = a + k
        BY <1>4, <2>2
      <4>2. Len(s) = b + (j + 1) + (a + k) + 1
        BY <1>7, <4>1
      <4> QED BY <1>7, <1>9, <3>2, <4>2
    <3> QED BY <3>1, <3>3, <3>4 DEF NextOfLine
  <2>3. k < l \/ k = l
    <3>1. k \in Nat /\ l \in Nat /\ k <= l
      BY <1>4, <1>5
    <3> HIDE DEF k, l
    <3> QED BY <3>1
  <2> QED BY <2>1, <2>2, <2>3
<1> QED BY <1>2, <1>3, <1>8, <1>10

LEMMA LastOfLine ==
    ASSUME NEW j \in Nat, NEW a \in Nat, NEW k \in Nat, NEW l \in Nat, NEW e \in Nat, NEW n \in Nat, NEW L \in Nat,
           k <= l, a + l <= e, j + 1 <= n, e + n < L - 1
    PROVE  ~(j + a + k + 1 >= L - 1)
OBVIOUS

LEMMA ReadsTextKeeps ==
    ASSUME NamesApart, TopicsTypes, TopicsTypes', NEW st, NEW pos, NEW p, Ordered(st, pos, p), ScanGoesOn, ReadsText
    PROVE  Ordered(st, pos, p)' \/ Ordered(st, pos, p + 1)'
<1> DEFINE m == published[p + 1]
           args == m.args
           n == Len(args)
           j == Len(arg.read)
           r == j + 1
           k == Len(arg.word)
           b == Len(Name)
           last == Shown = Cr \/ arg.index + 1 >= ArgLen - 1
           word == IF Shown = Space THEN <<>> ELSE IF last THEN arg.word ELSE Append(arg.word, Shown)
           words == IF Shown = Space THEN Append(arg.read, arg.word) ELSE arg.read
           read == IF last THEN Append(words, word) ELSE words
<1>1. /\ UNCHANGED <<queue, bArgIsString, published, arriving, overwritten, undisturbed, hwIndex, bIsRequestDrop>>
      /\ chState = "ARG_TEXT" /\ ~AtEnd /\ cursor' = cursor + 1
      /\ arg' = [arg EXCEPT !.index = @ + 1, !.word = word, !.read = read]
      /\ chState' = IF last THEN "HANDLER" ELSE "ARG_TEXT"
  BY DEF ScanGoesOn, ReadsText
<1>2. PICK oa : WordReading(st, pos, p, oa)
  BY <1>1, WordIsRead
<1>3. /\ AtMessage(st, pos, p) /\ bArgIsString = TRUE /\ MessageArgs(bArgIsString, m, oa)
      /\ ReadSame(m) /\ TextRead(m, oa) /\ b \in Nat /\ ArgsSized(args, oa)
  BY <1>2 DEF WordReading
<1>4. /\ r \in 1..n /\ NextOfLine(m, r, k) /\ At = 0 /\ cursor \in Nat /\ cursor + 1 >= 1
      /\ cursor + 1 <= Len(Sent(bArgIsString, m))
  BY <1>1, <1>2, NextByteOfLine
<1> DEFINE a == oa[r]
           l == Len(args[r])
           e == oa[n + 1]
<1>5. /\ a \in Nat /\ l \in Nat /\ l > 0 /\ e \in Nat /\ a + l <= e /\ oa[r + 1] = a + l /\ n \in Nat
      /\ args \in Seq(Seq(Byte)) /\ args[r] \in Seq(Byte)
  <2>1. /\ l \in Nat /\ l > 0 /\ a \in Nat /\ oa[r + 1] = a + l /\ oa[r + 1] <= e /\ n \in Nat
        /\ args \in Seq(Seq(Byte)) /\ args[r] \in Seq(Byte)
    BY <1>3, <1>4 DEF ArgsSized
  <2>2. n + 1 \in 1..n + 1 /\ oa \in [1..n + 1 -> Nat]
    BY <1>3, <2>1 DEF ArgsSized
  <2> QED BY <2>1, <2>2
<1>6. /\ arg.read \in Seq(Seq(Byte)) /\ j \in Nat /\ \A x \in 1..j : arg.read[x] = args[x]
      /\ arg.word \in Seq(Byte) /\ k \in Nat
  <2>1. arg.read \in Seq(Seq(Byte)) /\ \A x \in 1..j : arg.read[x] = args[x]
    BY <1>3 DEF ReadSame
  <2>2. arg.word \in Seq(Byte)
    BY DEF TopicsTypes, ScanInv, ScanTypes
  <2> QED BY <2>1, <2>2
<1>7. /\ k <= l /\ (\A x \in 1..k : arg.word[x] = args[r][x])
      /\ arg.index = j + a + k /\ cursor = b + j + 1 + a + k
  BY <1>3 DEF TextRead
<1>8. arg'.read = read /\ arg'.word = word /\ arg'.index = arg.index + 1
  <2> HIDE DEF read, word
  <2> QED BY <1>1 DEF TopicsTypes, ScanInv, ScanTypes
<1>9. Cr # Space
  BY DEF Cr, Space
<1>10. k = l => arg.word = args[r]
  <2> HIDE DEF k, l, r, args
  <2> SUFFICES ASSUME k = l PROVE arg.word = args[r]
    OBVIOUS
  <2>1. Len(arg.word) = Len(args[r]) /\ \A x \in 1..Len(arg.word) : arg.word[x] = args[r][x]
    BY <1>7 DEF k, l
  <2> QED BY <1>5, <1>6, <2>1, SeqEqual
<1>16. r \in 1..n /\ n \in Nat /\ (r < n \/ r = n) /\ ~(r < n /\ r = n)
  <2>1. r \in 1..n /\ n \in Nat
    BY <1>4, <1>5
  <2> HIDE DEF r, n
  <2> QED BY <2>1
<1>11. Shown = Space => k = l /\ r < n
  <2> SUFFICES ASSUME Shown = Space PROVE k = l /\ r < n
    OBVIOUS
  <2>1. ~(k < l)
    BY <1>4 DEF NextOfLine
  <2>2. k = l
    <3> HIDE DEF k, l
    <3> QED BY <1>5, <1>6, <1>7, <2>1
  <2>3. r # n
    BY <1>4, <1>9, <2>2 DEF NextOfLine
  <2> QED BY <1>16, <2>2, <2>3
<1>12. Shown = Cr => k = l /\ r = n
  <2> SUFFICES ASSUME Shown = Cr PROVE k = l /\ r = n
    OBVIOUS
  <2>1. ~(k < l)
    BY <1>4 DEF NextOfLine
  <2>2. k = l
    <3> HIDE DEF k, l
    <3> QED BY <1>5, <1>6, <1>7, <2>1
  <2>3. ~(r < n)
    BY <1>4, <1>9, <2>2 DEF NextOfLine
  <2> QED BY <1>16, <2>2, <2>3
<1>13. Shown \notin {Space, Cr} => k < l /\ Shown = args[r][k + 1] /\ Shown \in Byte
  <2> SUFFICES ASSUME Shown \notin {Space, Cr} PROVE k < l /\ Shown = args[r][k + 1] /\ Shown \in Byte
    OBVIOUS
  <2>1. k # l
    <3> SUFFICES ASSUME k = l PROVE FALSE
      OBVIOUS
    <3>1. r < n \/ r = n
      BY <1>16
    <3> QED BY <1>4, <3>1 DEF NextOfLine
  <2>2. k < l /\ k + 1 \in 1..l
    <3>1. k \in Nat /\ l \in Nat /\ k <= l
      BY <1>5, <1>6, <1>7
    <3> HIDE DEF k, l
    <3> QED BY <2>1, <3>1
  <2>3. Shown = args[r][k + 1]
    BY <1>4, <2>2 DEF NextOfLine
  <2>4. args[r][k + 1] \in Byte
    <3> DEFINE t == args[r]
               x == k + 1
    <3>1. t \in Seq(Byte) /\ x \in 1..Len(t)
      BY <1>5, <2>2
    <3> HIDE DEF t, x
    <3>2. t[x] \in Byte
      BY <3>1
    <3> QED BY <3>2 DEF t, x
  <2> QED BY <2>2, <2>3, <2>4
<1> HIDE DEF word, words, read, k, l, a, e
<1>14. CASE chState' = "HANDLER"
  <2>1. last
    BY <1>1, <1>14
  <2>2. ASSUME Fits(m) PROVE arg'.read = args
    <3>1. Len(FlattenSeq(args)) = e
      <4>1. ArgsAt(m, oa)
        BY <1>3 DEF MessageArgs
      <4> QED BY <4>1 DEF ArgsAt, Flattened, e
    <3>2. e + n < ArgLen - 1
      BY <2>2, <3>1 DEF Fits
    <3>3. ~(arg.index + 1 >= ArgLen - 1)
      <4>1. j + 1 <= n
        BY <1>4
      <4>2. arg.index + 1 = j + a + k + 1
        BY <1>7
      <4> HIDE DEF j, n
      <4>3. ~(j + a + k + 1 >= ArgLen - 1)
        BY <1>5, <1>6, <1>7, <3>2, <4>1, ScanAssumption, LastOfLine
      <4> QED BY <4>2, <4>3
    <3>4. Shown = Cr
      BY <2>1, <3>3
    <3>5. r = n /\ arg.word = args[r]
      BY <1>10, <1>12, <3>4
    <3>6. read = Append(arg.read, args[r])
      BY <1>9, <2>1, <3>4, <3>5 DEF read, words, word
    <3>7. Append(arg.read, args[r]) = args
      <4> DEFINE S == Seq(Byte)
                 x == args[r]
                 both == Append(arg.read, x)
      <4>1. arg.read \in Seq(S) /\ x \in S /\ args \in Seq(S) /\ j = Len(arg.read) /\ x = args[j + 1]
            /\ \A i \in 1..j : arg.read[i] = args[i]
        BY <1>5, <1>6
      <4>2. Len(args) = j + 1
        BY <3>5
      <4> HIDE DEF S, x, args, j
      <4>3. both \in Seq(S) /\ Len(both) = j + 1
        BY <4>1, OneMore
      <4>4. \A i \in 1..j + 1 : both[i] = args[i]
        BY <4>1, SameLonger
      <4> HIDE DEF both
      <4>5. both = args
        BY <4>1, <4>2, <4>3, <4>4, SeqEqual
      <4> QED BY <4>5 DEF both, x
    <3> QED BY <1>8, <3>6, <3>7
  <2>3. cursor' \in Nat /\ cursor' >= 1 /\ At + cursor' <= Len(Sent(bArgIsString, m))
    <3>1. cursor' = cursor + 1 /\ At + (cursor + 1) = cursor + 1 /\ cursor + 1 \in Nat
      BY <1>1, <1>4
    <3> QED BY <1>4, <3>1
  <2>4. chState \in ArgStates
    BY <1>1 DEF ArgStates
  <2>5. Ordered(st, pos, p + 1)'
    BY <1>1, <1>3, <1>14, <2>2, <2>3, <2>4, EntersHandler
  <2> QED BY <2>5
<1>15. CASE chState' # "HANDLER"
  <2>1. chState' = "ARG_TEXT" /\ ~last
    BY <1>1, <1>15
  <2>2. handled' = handled
    BY <1>15 DEF ScanGoesOn
  <2>3. AtMessage(st, pos, p)'
    BY <1>1, <1>3 DEF AtMessage, At
  <2>4. Name' = Name /\ m' = m /\ bArgIsString' = TRUE
    BY <1>1, <1>3 DEF Name, Names
  <2>5. ReadSame(m)' /\ TextRead(m, oa)'
    <3>1. CASE Shown = Space
      <4>1. word = <<>> /\ read = Append(arg.read, args[r])
        BY <1>10, <1>11, <2>1, <3>1 DEF word, words, read
      <4>2. k = l /\ r < n
        BY <1>11, <3>1
      <4> DEFINE S == Seq(Byte)
                 x == args[r]
      <4>3. arg.read \in Seq(S) /\ x \in S /\ j = Len(arg.read) /\ x = args[j + 1]
            /\ \A i \in 1..j : arg.read[i] = args[i]
        BY <1>5, <1>6
      <4>4. Len(word) = 0
        BY <4>1
      <4> HIDE DEF S, x, args, j, r
      <4>5. Append(arg.read, x) \in Seq(S) /\ Len(Append(arg.read, x)) = j + 1
        BY <4>3, OneMore
      <4>6. \A i \in 1..j + 1 : Append(arg.read, x)[i] = args[i]
        BY <4>3, SameLonger
      <4>7. arg'.read = Append(arg.read, x) /\ arg'.word = word
        BY <1>8, <4>1 DEF x
      <4>8. ReadSame(m)'
        <5>1. r = j + 1
          BY DEF r, j
        <5> QED BY <2>4, <4>2, <4>5, <4>6, <4>7, <5>1 DEF ReadSame, S, args
      <4>9. /\ cursor' = b + Len(arg'.read) + 1 + oa[Len(arg'.read) + 1] + Len(arg'.word)
            /\ arg'.index = Len(arg'.read) + oa[Len(arg'.read) + 1] + Len(arg'.word)
        <5>1. Len(arg'.read) = j + 1 /\ oa[(j + 1) + 1] = a + k /\ Len(arg'.word) = 0
          <6>1. r = j + 1
            BY DEF r, j
          <6> QED BY <1>5, <4>2, <4>4, <4>5, <4>7, <6>1
        <5>2. cursor + 1 = b + (j + 1) + 1 + (a + k) + 0
          <6>1. j \in Nat /\ cursor = b + j + 1 + a + k
            BY <1>6, <1>7 DEF j
          <6> HIDE DEF b
          <6>2. b \in Nat
            BY <1>3
          <6> QED BY <1>5, <1>6, <6>1, <6>2, WordEnds
        <5>3. arg.index + 1 = (j + 1) + (a + k) + 0
          <6>1. j \in Nat /\ arg.index = j + a + k
            BY <1>6, <1>7 DEF j
          <6> QED BY <1>5, <1>6, <6>1
        <5> QED BY <1>1, <1>8, <5>1, <5>2, <5>3
      <4>10. Len(arg'.word) <= Len(args[Len(arg'.read) + 1])
        <5>1. Len(arg'.read) + 1 \in 1..n
          <6>1. Len(arg'.read) = r
            BY <4>5, <4>7 DEF r, j
          <6>2. r \in Nat /\ n \in Nat /\ r >= 1
            BY <1>4, <1>5
          <6> QED BY <4>2, <6>1, <6>2
        <5>2. Len(args[Len(arg'.read) + 1]) \in Nat
          BY <1>3, <5>1 DEF ArgsSized
        <5> QED BY <4>4, <4>7, <5>2
      <4>11. \A i \in 1..Len(arg'.word) : arg'.word[i] = args[Len(arg'.read) + 1][i]
        BY <4>4, <4>7
      <4> QED BY <2>4, <4>8, <4>9, <4>10, <4>11 DEF TextRead, args
    <3>2. CASE Shown # Space
      <4>1. Shown \notin {Space, Cr}
        BY <2>1, <3>2
      <4>2. word = Append(arg.word, Shown) /\ read = arg.read
        BY <2>1, <3>2 DEF word, words, read
      <4>3. k < l /\ Shown = args[r][k + 1] /\ Shown \in Byte
        BY <1>13, <4>1
      <4>4. arg'.word = Append(arg.word, Shown) /\ arg'.read = arg.read
        BY <1>8, <4>2
      <4>5. ReadSame(m)'
        BY <1>3, <2>4, <4>4 DEF ReadSame
      <4>6. /\ Len(arg'.word) = k + 1
            /\ \A i \in 1..k + 1 : arg'.word[i] = args[r][i]
        <5> DEFINE t == args[r]
                   x == Shown
        <5>1. arg.word \in Seq(Byte) /\ k = Len(arg.word) /\ x \in Byte /\ x = t[k + 1]
              /\ \A i \in 1..k : arg.word[i] = t[i]
          BY <1>6, <1>7, <4>3 DEF k
        <5>2. arg'.word = Append(arg.word, x)
          BY <4>4
        <5> HIDE DEF t, x
        <5>3. Len(Append(arg.word, x)) = k + 1
          BY <5>1, OneMore
        <5>4. \A i \in 1..k + 1 : Append(arg.word, x)[i] = t[i]
          BY <5>1, SameLonger
        <5> QED BY <5>2, <5>3, <5>4 DEF t
      <4>7. Len(arg'.read) = j /\ Len(arg'.read) + 1 = r
        BY <4>4
      <4>8. k + 1 <= l
        BY <1>5, <1>6, <4>3
      <4>9. /\ cursor' = b + j + 1 + a + (k + 1)
            /\ arg'.index = j + a + (k + 1)
        <5>1. cursor + 1 = b + j + 1 + a + (k + 1)
          <6>1. j \in Nat /\ cursor = b + j + 1 + a + k /\ b \in Nat
            BY <1>3, <1>6, <1>7
          <6> HIDE DEF b, j
          <6> QED BY <1>5, <1>6, <6>1, WordEnds
        <5>2. arg.index + 1 = j + a + (k + 1)
          <6>1. j \in Nat /\ arg.index = j + a + k
            BY <1>6, <1>7
          <6> HIDE DEF j
          <6> QED BY <1>5, <1>6, <6>1
        <5> QED BY <1>1, <1>8, <5>1, <5>2
      <4> HIDE DEF r, j
      <4>10. TextRead(m, oa)'
        BY <2>4, <4>6, <4>7, <4>8, <4>9 DEF TextRead, l, a
      <4> QED BY <4>5, <4>10
    <3> QED BY <3>1, <3>2
  <2>6. Reading(st, pos, p)'
    <3> HIDE DEF AtMessage, ReadSame, MessageArgs, TextRead
    <3> QED BY <1>1, <1>3, <2>1, <2>3, <2>4, <2>5 DEF Reading
  <2>7. Undisturbed' /\ FirstKept(st, pos, p)'
    <3>1. FirstKept(st, pos, p)'
      BY <1>1, SameNameKept DEF Ordered, Calling
    <3>2. undisturbed
      BY <1>1 DEF Ordered, Undisturbed, ArgStates
    <3> QED BY <1>1, <3>1, <3>2 DEF Undisturbed
  <2>8. Ordered(st, pos, p)'
    BY <1>1, <2>1, <2>2, <2>6, <2>7, StillOrdered
  <2> QED BY <2>8
<1> QED BY <1>14, <1>15

-----------------------------------------------------------------------------
(* All steps together.                                                     *)
LEMMA ScanKeeps ==
    ASSUME NamesApart, TopicsInv, ScanGoesOn
    PROVE  TopicsInv'
<1>1. TopicsTypes /\ Scans /\ clean' = clean /\ arriving' = arriving /\ (bArgIsString \/ arriving = <<>>)
  BY DEF TopicsInv, ScanGoesOn, InterruptOnly
<1>2. TopicsTypes' /\ bArgIsString' = bArgIsString
  BY <1>1, ScanTypesKept
<1>3. OneAtATime'
  BY <1>1, <1>2 DEF OneAtATime
<1>4. ASSUME clean PROVE \E st, pos, p : Ordered(st, pos, p)'
  <2>1. OneAtATime /\ \E st, pos, p : Ordered(st, pos, p)
    BY <1>4 DEF TopicsInv
  <2>2. PICK st, pos, p : Ordered(st, pos, p)
    BY <2>1
  <2>3. CASE Starts
    BY <1>1, <2>2, <2>3, StartsKeeps
  <2>4. CASE TableEnds
    BY <1>1, <2>2, <2>4, TableEndsKeeps
  <2>5. CASE TriesName
    BY <1>1, <2>2, <2>5, TriesNameKeeps
  <2>6. CASE ComparesByte
    BY <1>1, <2>2, <2>6, ComparesByteKeeps
  <2>7. CASE AwaitsName \/ AwaitsArgs
    BY <1>1, <2>2, <2>7, AwaitsKeeps
  <2>8. CASE NameFits
    BY <1>1, <2>2, <2>8, NameFitsKeeps
  <2>9. CASE StartsArgs
    <3>1. Ordered(st, pos, p)' \/ Ordered(st, pos, p + 1)'
      BY <1>1, <1>2, <2>2, <2>9, StartsArgsKeeps
    <3> QED BY <3>1
  <2>10. CASE ReadsLength
    BY <1>1, <2>1, <2>2, <2>10, ReadsLengthKeeps
  <2>11. CASE ReadsBytes
    <3>1. Ordered(st, pos, p)' \/ Ordered(st, pos, p + 1)'
      BY <1>1, <1>2, <2>1, <2>2, <2>11, ReadsBytesKeeps
    <3> QED BY <3>1
  <2>12. CASE ReadsText
    <3>1. Ordered(st, pos, p)' \/ Ordered(st, pos, p + 1)'
      BY <1>1, <1>2, <2>2, <2>12, ReadsTextKeeps
    <3> QED BY <3>1
  <2>13. CASE HandlerReturns
    BY <1>1, <2>2, <2>13, HandlerReturnsOrdered
  <2> QED BY <1>1, <2>3, <2>4, <2>5, <2>6, <2>7, <2>8, <2>9, <2>10, <2>11, <2>12, <2>13 DEF Scans
<1> QED BY <1>1, <1>2, <1>3, <1>4 DEF TopicsInv

LEMMA NothingKeeps ==
    ASSUME TopicsInv, UNCHANGED vars
    PROVE  TopicsInv'
<1>1. /\ UNCHANGED <<queue, cursor, bArgIsString, chState, hwIndex, matched, arg, bIsRequestDrop, undisturbed>>
      /\ UNCHANGED <<arriving, published, handled, overwritten, clean>>
  BY DEF vars, scan, queueState
<1>2. TopicsTypes'
  <2>1. ScanInv'
    BY <1>1 DEF TopicsInv, TopicsTypes, ScanInv, ScanTypes, NameOfTable, FrontMatched, FrontIsName, Names, Name
  <2> QED BY <1>1, <2>1 DEF TopicsInv, TopicsTypes
<1>3. OneAtATime' = OneAtATime
  BY <1>1 DEF OneAtATime, Calling
<1>4. ASSUME NEW st, NEW pos, NEW p, Ordered(st, pos, p) PROVE Ordered(st, pos, p)'
  <2>1. Kept(st, pos)'
    BY <1>1, <1>4 DEF Ordered, Kept
  <2>2. Passed(st, pos, p)'
    BY <1>1, <1>4 DEF Ordered, Passed, Seen
  <2>3. InOrder(p)'
    BY <1>1, <1>4 DEF Ordered, InOrder
  <2>4. Undisturbed' /\ FirstKept(st, pos, p)'
    BY <1>1, <1>4 DEF Ordered, Undisturbed, FirstKept, Calling, At
  <2>5. Reading(st, pos, p)'
    <3>1. AtMessage(st, pos, p)' = AtMessage(st, pos, p)
      BY <1>1 DEF AtMessage, At
    <3>2. Name' = Name
      BY <1>1 DEF Name, Names
    <3>3. ReadSame(published[p + 1])' = ReadSame(published[p + 1])
      BY <1>1 DEF ReadSame
    <3>4. ASSUME NEW oa PROVE /\ BinaryRead(published[p + 1], oa)' = BinaryRead(published[p + 1], oa)
                              /\ TextRead(published[p + 1], oa)' = TextRead(published[p + 1], oa)
      BY <1>1, <3>2 DEF BinaryRead, TextRead
    <3>5. Reading(st, pos, p)
      BY <1>4 DEF Ordered
    <3> QED BY <1>1, <3>1, <3>2, <3>3, <3>4, <3>5 DEF Reading, At
  <2> QED BY <2>1, <2>2, <2>3, <2>4, <2>5 DEF Ordered
<1> QED BY <1>1, <1>2, <1>3, <1>4 DEF TopicsInv

LEMMA TopicsInvNext ==
    ASSUME NamesApart, TopicsInv, [Next]_vars
    PROVE  TopicsInv'
<1>1. ASSUME NEW m \in Message[bArgIsString], publish(m) PROVE TopicsInv'
  BY <1>1, publishKeeps
<1>2. CASE Arrives
  BY <1>2, ArrivesKeeps
<1>3. ASSUME NEW m \in Message[FALSE], InterruptPublishes(m) PROVE TopicsInv'
  BY <1>3, InterruptKeeps
<1>4. CASE ScanGoesOn
  BY <1>4, ScanKeeps
<1>5. CASE UNCHANGED vars
  BY <1>5, NothingKeeps
<1> QED BY <1>1, <1>2, <1>3, <1>4, <1>5 DEF Next

(* Handlers are called for the published messages, in order and once each, *)
(* with the arguments they were published with, as long as no message was  *)
(* published inside another and no overflow hit the middle of a scan:      *)
(* whatever is in the queue when a name is tried, dropped or handed over,  *)
(* nothing else is taken for a message, and none is passed over unless the *)
(* queue has overflowed. The messages are any whose bytes hold a name only *)
(* where they begin (NamesApart).                                          *)
THEOREM TopicsHandledInOrder == NamesApart => (Spec => []HandledInOrder)
<1> SUFFICES ASSUME NamesApart PROVE Spec => []HandledInOrder
  OBVIOUS
<1>1. Init => TopicsInv
  BY TopicsInvInit
<1>2. TopicsInv /\ [Next]_vars => TopicsInv'
  BY TopicsInvNext
<1>3. TopicsInv => HandledInOrder
  BY TopicsOrder
<1> QED BY <1>1, <1>2, <1>3, PTL DEF Spec
=============================================================================
