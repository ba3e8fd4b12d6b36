---------------------------- MODULE ShellProofs ----------------------------
(***************************************************************************)
(* Proofs about Shell: line buffers keep their final zero, the history,    *)
(* the order in which lines run, and the cursor of the echo.               *)
(***************************************************************************)
EXTENDS Shell, SequenceTheorems, WellFoundedInduction, TLAPS

Buffers == [0..ArgLen - 1 -> Char \cup {Nul}]
Ended == {buf \in Buffers : buf[ArgLen - 1] = Nul}

-----------------------------------------------------------------------------
(* Numbers, lines and queues. *)

LEMMA NatLess == IsWellFoundedOn({ss \in Nat \X Nat : ss[1] < ss[2]}, Nat)
BY NatLessThanWellFounded DEF OpToRel

(* The least number of a set. *)
LEMMA Smallest ==
    ASSUME NEW T, T \subseteq Nat, T # {}
    PROVE  \E x \in T : \A y \in T : x <= y
<1> DEFINE R == {ss \in Nat \X Nat : ss[1] < ss[2]}
<1>1. PICK x \in T : \A y \in T : <<y, x>> \notin R
  <2> HIDE DEF R
  <2> QED BY NatLess, WFMin DEF R
<1>2. \A y \in T : ~(y < x)
  BY <1>1
<1> QED BY <1>2

LEMMA ElementOf == \A S, s, k : s \in Seq(S) /\ k \in 1..Len(s) => s[k] \in S
OBVIOUS

(* A buffer with its final zero has a line end, behind which it has not    *)
(* been looked at.                                                         *)
LEMMA LineEnd ==
    ASSUME NEW buf \in Ended
    PROVE  /\ strlen(buf) \in 0..ArgLen - 1
           /\ buf[strlen(buf)] = Nul
           /\ \A i \in 0..strlen(buf) - 1 : buf[i] # Nul
<1> DEFINE P(n) == (n = ArgLen \/ buf[n] = Nul) /\ \A i \in 0..n - 1 : buf[i] # Nul
           T == {i \in 0..ArgLen - 1 : buf[i] = Nul}
<1>1. ArgLen \in Nat /\ ArgLen - 1 \in T
  BY ShellAssumption DEF Ended, Buffers
<1>2. T \subseteq Nat /\ T # {}
  BY <1>1
<1>3. PICK n \in T : \A y \in T : n <= y
  <2> HIDE DEF T
  <2> QED BY <1>2, Smallest
<1>4. n \in 0..ArgLen /\ P(n)
  BY <1>1, <1>3
<1>5. strlen(buf) = CHOOSE k \in 0..ArgLen : P(k)
  BY DEF strlen
<1> HIDE DEF P
<1>6. strlen(buf) \in 0..ArgLen /\ P(strlen(buf))
  BY <1>4, <1>5
<1> QED
  <2>1. ~(strlen(buf) = ArgLen)
    BY <1>1, <1>6 DEF P
  <2> QED BY <2>1, <1>1, <1>6 DEF P

(* And it is the only one. *)
LEMMA LineEndUnique ==
    ASSUME NEW buf \in Ended, NEW n \in 0..ArgLen - 1, buf[n] = Nul, \A i \in 0..n - 1 : buf[i] # Nul
    PROVE  strlen(buf) = n
<1> DEFINE k == strlen(buf)
<1>1. k \in 0..ArgLen - 1 /\ buf[k] = Nul /\ \A i \in 0..k - 1 : buf[i] # Nul
  BY LineEnd
<1> HIDE DEF k
<1>2. ArgLen \in Nat
  BY ShellAssumption
<1>3. ~(k < n) /\ ~(n < k)
  BY <1>1, <1>2
<1>4. k = n
  BY <1>1, <1>2, <1>3
<1> QED BY <1>4 DEF k

LEMMA TextOfLine ==
    ASSUME NEW buf \in Ended
    PROVE  /\ Text(buf) \in Seq(Char)
           /\ Len(Text(buf)) = strlen(buf)
           /\ \A i \in 1..strlen(buf) : Text(buf)[i] = buf[i - 1]
<1> DEFINE n == strlen(buf)
<1>1. n \in 0..ArgLen - 1 /\ \A i \in 0..n - 1 : buf[i] # Nul
  BY LineEnd
<1>2. Text(buf) = [i \in 1..n |-> buf[i - 1]]
  BY DEF Text
<1> HIDE DEF n
<1>3. n \in Nat /\ ArgLen \in Nat
  BY <1>1, ShellAssumption
<1>4. \A i \in 1..n : buf[i - 1] \in Char
  BY <1>1, <1>3 DEF Ended, Buffers
<1>5. Text(buf) \in Seq(Char) /\ Len(Text(buf)) = n
  BY <1>2, <1>3, <1>4
<1> QED BY <1>2, <1>5 DEF n

(* What a queue of n elements keeps: the last ones. *)
LEMMA NewestKept ==
    ASSUME NEW S, NEW s \in Seq(S), NEW n \in Nat
    PROVE  /\ Newest(s, n) \in Seq(S)
           /\ Len(Newest(s, n)) = Smaller(Len(s), n)
           /\ Len(Newest(s, n)) <= n
           /\ \A i \in 1..Len(Newest(s, n)) : Newest(s, n)[i] = s[Len(s) - Len(Newest(s, n)) + i]
           /\ Len(s) <= n => Newest(s, n) = s
<1> DEFINE m == Smaller(Len(s), n)
           a == Len(s) - m + 1
<1>0. Len(s) \in Nat
  BY LenProperties
<1>1. m \in Nat /\ m <= n /\ m <= Len(s) /\ (Len(s) <= n => m = Len(s)) /\ a \in 1..Len(s) + 1
  <2>1. m = IF Len(s) < n THEN Len(s) ELSE n
    BY DEF Smaller
  <2> HIDE DEF m
  <2>2. m \in Nat /\ m <= n /\ m <= Len(s) /\ (Len(s) <= n => m = Len(s))
    BY <1>0, <2>1
  <2> QED BY <1>0, <2>2
<1>2. Newest(s, n) = SubSeq(s, a, Len(s))
  BY DEF Newest
<1> HIDE DEF m
<1>3. a \in Int /\ Len(s) \in Int /\ \A i \in a..Len(s) : s[i] \in S
  BY <1>0, <1>1, ElementOf
<1> HIDE DEF a
<1>4. /\ SubSeq(s, a, Len(s)) \in Seq(S)
      /\ Len(SubSeq(s, a, Len(s))) = IF a <= Len(s) THEN Len(s) - a + 1 ELSE 0
      /\ \A i \in 1..Len(s) - a + 1 : SubSeq(s, a, Len(s))[i] = s[a + i - 1]
  BY <1>3, SubSeqProperties
<1>5. Len(Newest(s, n)) = m
  BY <1>0, <1>1, <1>2, <1>4 DEF a
<1>6. \A i \in 1..m : Newest(s, n)[i] = s[Len(s) - m + i]
  BY <1>0, <1>1, <1>2, <1>4 DEF a
<1>7. Len(s) <= n => Newest(s, n) = s
  <2>1. SubSeq(s, 1, Len(s)) = s
    BY SubSeqFull
  <2>2. Len(s) <= n => a = 1
    BY <1>0, <1>1 DEF a
  <2> QED BY <1>2, <2>1, <2>2
<1>8. m = Smaller(Len(s), n)
  BY DEF m
<1>9. Newest(s, n) \in Seq(S)
  BY <1>2, <1>4
<1>10. Len(Newest(s, n)) <= n
  BY <1>1, <1>5
<1>11. \A i \in 1..Len(Newest(s, n)) : Newest(s, n)[i] = s[Len(s) - Len(Newest(s, n)) + i]
  BY <1>5, <1>6
<1> QED BY <1>5, <1>7, <1>8, <1>9, <1>10, <1>11

-----------------------------------------------------------------------------
(* Ranges. The command queue ends with the end of a line, so that what is  *)
(* left of a line is still ended for wl_shell_exec.                        *)
Stats == {"NORMAL", "SPEC_KEY", "FUNC_KEY"}
Names == {"shell_topic", "echo_topic"}

LineOK == chLineBuf \in Ended /\ hwLinePosition \in 0..ArgLen - 1 /\ hwLineLen \in 0..ArgLen - 1
PastOK ==
    /\ cHistoryCmdBuf \in [0..HistoryLines - 1 -> Ended]
    /\ hwHistoryCount \in 0..HistoryLines /\ hwCurrenthistory \in 0..hwHistoryCount
    /\ pushed \in Seq(Seq(Char))
QueueOK ==
    /\ tByteInQueue \in Seq(Char \cup {Cr}) /\ Len(tByteInQueue) <= ArgLen
    /\ tByteInQueue # <<>> => tByteInQueue[Len(tByteInQueue)] = Cr
    /\ entered \in Seq(Seq(Char) \ {<<>>})
RanOK == ran \in Seq(Seq(Char \cup {Cr}))
TopicsOK == topics \in Seq(Names) /\ Len(topics) <= TopicRoom
EchoOK == hwCurposPosition \in Nat /\ buffer \in Keys \cup {Nul} /\ s_tEchoStat \in Stats
FlagsOK == bEchoMode \in BOOLEAN /\ overflowed \in BOOLEAN /\ astray \in BOOLEAN /\ s_tInputStat \in Stats
Ranges == LineOK /\ PastOK /\ QueueOK /\ RanOK /\ TopicsOK /\ EchoOK /\ FlagsOK

LEMMA Sizes == ArgLen \in Nat /\ ArgLen > 1 /\ HistoryLines \in Nat /\ HistoryLines > 0 /\ TopicRoom \in Nat /\ TopicRoom > 0
BY ShellAssumption

LEMMA RangesSuffice == Ranges => TypeOK /\ LinesEnd
<1> SUFFICES ASSUME Ranges PROVE TypeOK /\ LinesEnd
  OBVIOUS
<1> USE DEF Ranges
<1>1. Ended \subseteq [0..ArgLen - 1 -> Char \cup {Nul}]
  BY DEF Ended, Buffers
<1>2. cHistoryCmdBuf \in [0..HistoryLines - 1 -> [0..ArgLen - 1 -> Char \cup {Nul}]]
  BY <1>1 DEF PastOK
<1>3. TypeOK
  BY <1>1, <1>2 DEF LineOK, PastOK, QueueOK, TopicsOK, EchoOK, FlagsOK, TypeOK, Stats, Names
<1>4. LinesEnd
  BY DEF LineOK, PastOK, Ended, LinesEnd
<1> QED BY <1>3, <1>4

LEMMA RangesInit == Init => Ranges
<1> SUFFICES ASSUME Init PROVE Ranges
  OBVIOUS
<1> USE Sizes DEF Init
<1>1. Blank \in Ended
  BY DEF Blank, Ended, Buffers
<1>2. LineOK /\ PastOK
  BY <1>1 DEF LineOK, PastOK
<1>3. QueueOK /\ RanOK
  BY DEF QueueOK, RanOK
<1>4. TopicsOK /\ EchoOK /\ FlagsOK
  BY DEF TopicsOK, EchoOK, FlagsOK, Stats
<1> QED BY <1>2, <1>3, <1>4 DEF Ranges

(* The end of every read. *)
LEMMA PublishesRanges ==
    ASSUME Ranges, NEW key \in Keys, NEW news \in Seq(Names), NEW unseen \in BOOLEAN, Publishes(key, news, unseen)
    PROVE  TopicsOK' /\ EchoOK' /\ overflowed' \in BOOLEAN /\ astray' \in BOOLEAN
<1> USE DEF Ranges
<1> DEFINE all == topics \o news \o EchoTopic
<1>1. EchoTopic \in Seq(Names)
  <2>1. <<>> \in Seq(Names) /\ <<"echo_topic">> \in Seq(Names)
    BY DEF Names
  <2> QED BY <2>1 DEF EchoTopic
<1>2. topics \o news \in Seq(Names)
  <2>1. topics \in Seq(Names)
    BY DEF TopicsOK
  <2> QED BY <2>1, ConcatProperties
<1>3. all \in Seq(Names)
  BY <1>1, <1>2, ConcatProperties
<1>4. topics' = Newest(all, TopicRoom)
  BY DEF Publishes
<1> HIDE DEF all
<1>5. TopicsOK'
  BY <1>3, <1>4, Sizes, NewestKept DEF TopicsOK
<1>6. EchoOK'
  BY DEF Publishes, EchoOK, echo, Stats
<1>7. overflowed' \in BOOLEAN /\ astray' \in BOOLEAN
  BY DEF Publishes, FlagsOK
<1> QED BY <1>5, <1>6, <1>7

LEMMA EditsRanges ==
    ASSUME Ranges, NEW key \in Keys, NEW unseen \in BOOLEAN, Edits(key, unseen)
    PROVE  QueueOK' /\ TopicsOK' /\ EchoOK' /\ overflowed' \in BOOLEAN /\ astray' \in BOOLEAN
<1>1. Publishes(key, <<>>, unseen) /\ UNCHANGED <<tByteInQueue, entered>>
  BY DEF Edits
<1>2. <<>> \in Seq(Names)
  OBVIOUS
<1>3. QueueOK'
  BY <1>1 DEF Ranges, QueueOK
<1> QED BY <1>1, <1>2, <1>3, PublishesRanges

Edited == LineOK' /\ PastOK' /\ QueueOK' /\ TopicsOK' /\ EchoOK' /\ overflowed' \in BOOLEAN /\ astray' \in BOOLEAN

LEMMA NoEffectRanges ==
    ASSUME Ranges, NEW key \in Keys, NoEffect(key)
    PROVE  Edited
<1>1. LineOK' /\ PastOK'
  BY DEF Ranges, NoEffect, LineOK, PastOK, line, past
<1> QED BY <1>1, EditsRanges DEF NoEffect, Edited

LEMMA RecallsRanges ==
    ASSUME Ranges, NEW key \in Keys, NEW h \in 0..hwHistoryCount - 1, Recalls(key, h)
    PROVE  Edited
<1>1. hwHistoryCount \in 0..HistoryLines
  BY DEF Ranges, PastOK
<1>2. h \in 0..HistoryLines - 1 /\ h \in 0..hwHistoryCount
  BY <1>1, Sizes
<1>3. cHistoryCmdBuf[h] \in Ended
  BY <1>2 DEF Ranges, PastOK
<1>4. LineOK'
  BY <1>3, LineEnd DEF Recalls, LineOK
<1>5. PastOK'
  BY <1>2 DEF Ranges, Recalls, PastOK
<1> QED BY <1>4, <1>5, EditsRanges DEF Recalls, Edited

LEMMA MovesToRanges ==
    ASSUME Ranges, NEW key \in Keys, NEW position \in 0..ArgLen - 1, MovesTo(key, position)
    PROVE  Edited
<1>1. LineOK' /\ PastOK'
  BY DEF Ranges, MovesTo, LineOK, PastOK, past
<1> QED BY <1>1, EditsRanges DEF MovesTo, Edited

LEMMA FunctionKeyRanges ==
    ASSUME Ranges, NEW key \in Keys, FunctionKey(key)
    PROVE  Edited
<1> DEFINE R == IF hwLinePosition < hwLineLen THEN hwLinePosition + 1 ELSE hwLinePosition
           L == IF hwLinePosition # 0 THEN hwLinePosition - 1 ELSE 0
           D == Smaller(hwCurrenthistory + 1, hwHistoryCount - 1)
<1>0. {"up", "down"} \subseteq Keys
  BY DEF Keys, Control
<1>1. CASE Up
  <2>1. hwCurrenthistory - 1 \in 0..hwHistoryCount - 1
    BY <1>1 DEF Up, Ranges, PastOK
  <2> QED BY <1>0, <1>1, <2>1, RecallsRanges DEF Up
<1>2. CASE Down
  <2>1. D \in 0..hwHistoryCount - 1
    BY <1>2 DEF Down, Ranges, PastOK, Smaller
  <2>2. Recalls("down", D)
    BY <1>2 DEF Down
  <2> HIDE DEF D
  <2> QED BY <1>0, <2>1, <2>2, RecallsRanges
<1>3. CASE NoEffect(key)
  BY <1>3, NoEffectRanges
<1>4. CASE MovesTo(key, R)
  <2>1. R \in 0..ArgLen - 1
    BY Sizes DEF Ranges, LineOK
  <2> HIDE DEF R
  <2> QED BY <1>4, <2>1, MovesToRanges
<1>5. CASE MovesTo(key, L)
  <2>1. L \in 0..ArgLen - 1
    BY Sizes DEF Ranges, LineOK
  <2> HIDE DEF L
  <2> QED BY <1>5, <2>1, MovesToRanges
<1> QED BY <1>1, <1>2, <1>3, <1>4, <1>5 DEF FunctionKey

(* Enter, and what it pushes and queues.                                   *)
LEMMA SavedEnded == Ranges => Saved \in Ended
<1> SUFFICES ASSUME Ranges PROVE Saved \in Ended
  OBVIOUS
<1>1. chLineBuf \in Buffers /\ hwLinePosition \in 0..ArgLen - 1 /\ ArgLen - 1 \in 0..ArgLen - 1
  BY Sizes DEF Ranges, LineOK, Ended
<1> QED BY <1>1, Sizes DEF Saved, Ended, Buffers

LEMMA PushRanges ==
    ASSUME Ranges, push_history, pushed' \in Seq(Seq(Char))
    PROVE  PastOK'
<1> USE Sizes DEF Ranges, PastOK
<1>1. CASE Repeats
  BY <1>1 DEF push_history
<1>2. CASE ~Repeats
  <2> DEFINE full == hwHistoryCount >= HistoryLines
             slot == IF full THEN HistoryLines - 1 ELSE hwHistoryCount
  <2>1. /\ cHistoryCmdBuf' = [h \in 0..HistoryLines - 1 |->
              IF h = slot THEN Saved ELSE cHistoryCmdBuf[IF full THEN h + 1 ELSE h]]
        /\ hwHistoryCount' = slot + 1 /\ hwCurrenthistory' = slot + 1
    BY <1>2 DEF push_history
  <2>2. slot \in 0..HistoryLines - 1
    OBVIOUS
  <2>3. \A h \in 0..HistoryLines - 1 : h # slot => (IF full THEN h + 1 ELSE h) \in 0..HistoryLines - 1
    OBVIOUS
  <2>4. cHistoryCmdBuf \in [0..HistoryLines - 1 -> Ended] /\ Saved \in Ended
    BY SavedEnded
  <2> HIDE DEF slot, full, Ranges, PastOK
  <2>5. cHistoryCmdBuf' \in [0..HistoryLines - 1 -> Ended]
    BY <2>1, <2>3, <2>4
  <2>6. slot + 1 \in 0..HistoryLines /\ slot + 1 \in 0..slot + 1
    BY <2>2
  <2> QED BY <2>1, <2>5, <2>6 DEF PastOK
<1> QED BY <1>1, <1>2

(* The bytes of a line with its end. *)
LEMMA LineBytes ==
    ASSUME Ranges, hwLinePosition = strlen(chLineBuf), hwLinePosition # 0,
           NEW bytes, bytes = Append(Text(chLineBuf), Cr)
    PROVE  /\ Text(chLineBuf) \in Seq(Char) \ {<<>>}
           /\ bytes \in Seq(Char \cup {Cr})
           /\ Len(bytes) = Len(Text(chLineBuf)) + 1
           /\ Len(Text(chLineBuf)) = hwLinePosition
           /\ \A i \in 1..Len(Text(chLineBuf)) : bytes[i] = Text(chLineBuf)[i]
           /\ bytes[Len(bytes)] = Cr
<1> DEFINE text == Text(chLineBuf)
<1>1. text \in Seq(Char) /\ Len(text) = hwLinePosition
  BY TextOfLine DEF Ranges, LineOK
<1>2. hwLinePosition \in Nat /\ bytes = Append(text, Cr)
  BY DEF Ranges, LineOK
<1> HIDE DEF text
<1>3. text \in Seq(Char) \ {<<>>} /\ text \in Seq(Char \cup {Cr})
  BY <1>1, <1>2
<1>4. /\ bytes \in Seq(Char \cup {Cr})
      /\ Len(bytes) = Len(text) + 1
      /\ \A i \in 1..Len(text) : bytes[i] = text[i]
      /\ bytes[Len(text) + 1] = Cr
  BY <1>2, <1>3, AppendProperties
<1> QED BY <1>1, <1>3, <1>4 DEF text

LEMMA QueuedRanges ==
    ASSUME Ranges, NEW bytes \in Seq(Char \cup {Cr}), Len(bytes) > 0, bytes[Len(bytes)] = Cr
    PROVE  /\ Queued(bytes) \in Seq(Char \cup {Cr}) /\ Len(Queued(bytes)) <= ArgLen
           /\ Queued(bytes) # <<>> => Queued(bytes)[Len(Queued(bytes))] = Cr
<1> DEFINE all == tByteInQueue \o bytes
           q == Newest(all, ArgLen)
           S == Char \cup {Cr}
<1>1. tByteInQueue \in Seq(S) /\ bytes \in Seq(S)
  BY DEF Ranges, QueueOK
<1>2. Queued(bytes) = q
  BY DEF Queued
<1> HIDE DEF S
<1>3. all \in Seq(S) /\ Len(all) = Len(tByteInQueue) + Len(bytes)
      /\ \A i \in 1..Len(tByteInQueue) + Len(bytes) :
            all[i] = IF i <= Len(tByteInQueue) THEN tByteInQueue[i] ELSE bytes[i - Len(tByteInQueue)]
  BY <1>1, ConcatProperties
<1>4. Len(tByteInQueue) \in Nat /\ Len(bytes) \in Nat
  BY <1>1, LenProperties
<1>5. all[Len(all)] = Cr
  BY <1>3, <1>4
<1> HIDE DEF all
<1>6. /\ q \in Seq(S) /\ Len(q) <= ArgLen
      /\ \A i \in 1..Len(q) : q[i] = all[Len(all) - Len(q) + i]
  <2>1. all \in Seq(S)
    BY <1>3
  <2>2. ArgLen \in Nat
    BY Sizes
  <2> QED BY <2>1, <2>2, NewestKept
<1> HIDE DEF q
<1>7. q # <<>> => q[Len(q)] = Cr
  <2>1. Len(q) \in Nat /\ Len(all) \in Nat
    BY <1>3, <1>6, LenProperties
  <2>2. q # <<>> => Len(q) \in 1..Len(q)
    BY <1>6, <2>1, EmptySeq
  <2>3. Len(all) - Len(q) + Len(q) = Len(all)
    BY <2>1
  <2> QED BY <1>5, <1>6, <2>2, <2>3
<1> QED BY <1>2, <1>6, <1>7 DEF S

LEMMA AcceptsRanges ==
    ASSUME Ranges, Accepts
    PROVE  PastOK' /\ QueueOK' /\ TopicsOK' /\ EchoOK' /\ overflowed' \in BOOLEAN /\ astray' \in BOOLEAN
<1> DEFINE text == Text(chLineBuf)
           bytes == Append(text, Cr)
<1>1. /\ hwLinePosition = strlen(chLineBuf) /\ hwLinePosition # 0
      /\ push_history
      /\ tByteInQueue' = Queued(bytes)
      /\ entered' = Append(entered, text)
      /\ Publishes("enter", <<"shell_topic">>, FALSE)
      /\ pushed' = IF pushed # <<>> /\ pushed[Len(pushed)] = text /\ chLineBuf = Saved
                     THEN pushed ELSE Append(pushed, text)
  BY DEF Accepts
<1>2. /\ text \in Seq(Char) \ {<<>>}
      /\ bytes \in Seq(Char \cup {Cr})
      /\ Len(bytes) > 0
      /\ bytes[Len(bytes)] = Cr
  <2> HIDE DEF bytes
  <2>1. bytes = Append(Text(chLineBuf), Cr)
    BY DEF bytes
  <2>2. /\ text \in Seq(Char) \ {<<>>} /\ bytes \in Seq(Char \cup {Cr})
        /\ Len(bytes) = Len(text) + 1 /\ bytes[Len(bytes)] = Cr
    BY <1>1, <2>1, LineBytes
  <2>3. Len(text) \in Nat
    BY <2>2, LenProperties
  <2> QED BY <2>2, <2>3
<1> HIDE DEF bytes, text
<1>3. QueueOK'
  <2>1. entered' \in Seq(Seq(Char) \ {<<>>})
    BY <1>1, <1>2 DEF Ranges, QueueOK
  <2> QED BY <1>1, <1>2, <2>1, QueuedRanges DEF QueueOK
<1>4. pushed' \in Seq(Seq(Char))
  BY <1>1, <1>2 DEF Ranges, PastOK
<1>5. PastOK'
  BY <1>1, <1>4, PushRanges
<1>6. "enter" \in Keys /\ <<"shell_topic">> \in Seq(Names)
  BY DEF Keys, Control, Names
<1> QED BY <1>1, <1>3, <1>5, <1>6, PublishesRanges

LEMMA EnterRanges == ASSUME Ranges, Enter PROVE Edited
<1>0. "enter" \in Keys /\ Blank \in Ended
  BY Sizes DEF Keys, Control, Blank, Ended, Buffers
<1>1. LineOK'
  BY <1>0, Sizes DEF Ranges, Enter, LineOK
<1>2. CASE Accepts
  BY <1>1, <1>2, AcceptsRanges DEF Edited
<1>3. CASE UNCHANGED past /\ Edits("enter", FALSE)
  <2>1. PastOK'
    BY <1>3 DEF Ranges, PastOK, past
  <2> QED BY <1>0, <1>1, <1>3, <2>1, EditsRanges DEF Edited
<1> QED BY <1>2, <1>3 DEF Enter

LEMMA BackspaceRanges == ASSUME Ranges, Backspace PROVE Edited
<1> USE DEF Ranges
<1> DEFINE position == IF hwLinePosition # 0 THEN hwLinePosition - 1 ELSE 0
<1>0. "back" \in Keys
  BY DEF Keys, Control
<1>1. position \in 0..ArgLen - 1 /\ ArgLen - 1 \in 0..ArgLen - 1
  BY Sizes DEF LineOK
<1>2. LineOK'
  <2>1. [chLineBuf EXCEPT ![position] = Nul] \in Ended
    BY <1>1 DEF LineOK, Ended, Buffers
  <2> HIDE DEF position
  <2> QED BY <1>1, <2>1 DEF Backspace, LineOK, position
<1>3. PastOK'
  BY DEF PastOK, Backspace, past
<1> QED BY <1>0, <1>2, <1>3, EditsRanges DEF Backspace, Edited

LEMMA TypeRanges == ASSUME Ranges, NEW c \in Char, Type(c) PROVE Edited
<1> USE DEF Ranges
<1>0. c \in Keys
  BY DEF Keys
<1>1. LineOK'
  <2>1. CASE hwLinePosition < ArgLen - 1
    <3>0. /\ chLineBuf \in Buffers /\ chLineBuf[ArgLen - 1] = Nul
          /\ hwLinePosition \in 0..ArgLen - 1 /\ hwLinePosition # ArgLen - 1 /\ ArgLen - 1 \in 0..ArgLen - 1
      BY <2>1, Sizes DEF LineOK, Ended
    <3>1. [chLineBuf EXCEPT ![hwLinePosition] = c] \in Ended
      BY <3>0 DEF Ended, Buffers
    <3>2. hwLinePosition + 1 \in 0..ArgLen - 1
      BY <2>1, Sizes DEF LineOK
    <3> QED BY <2>1, <3>1, <3>2 DEF Type, LineOK
  <2>2. CASE ~(hwLinePosition < ArgLen - 1)
    BY <2>2, Sizes DEF Type, LineOK
  <2> QED BY <2>1, <2>2
<1>2. PastOK'
  BY DEF PastOK, Type, past
<1>3. Edits(c, FALSE) \/ Edits(c, TRUE)
  BY DEF Type
<1> QED BY <1>0, <1>1, <1>2, <1>3, EditsRanges DEF Edited

(* What a read does to the line, the history and the queues. *)
LEMMA ReadEdits ==
    ASSUME Ranges, NEW key \in Keys, wl_shell_read(key)
    PROVE  Edited
<1>1. CASE NoEffect(key)
  BY <1>1, NoEffectRanges
<1>2. CASE FunctionKey(key)
  BY <1>2, FunctionKeyRanges
<1>3. CASE Enter
  BY <1>3, EnterRanges
<1>4. CASE Backspace
  BY <1>4, BackspaceRanges
<1>5. CASE key \in Char /\ Type(key)
  BY <1>5, TypeRanges
<1> QED BY <1>1, <1>2, <1>3, <1>4, <1>5 DEF wl_shell_read

LEMMA ReadRanges ==
    ASSUME Ranges, NEW key \in Keys, wl_shell_read(key)
    PROVE  Ranges'
<1>1. UNCHANGED <<bEchoMode, ran>> /\ s_tInputStat' = Escape(s_tInputStat, key)
  BY DEF wl_shell_read
<1>2. RanOK' /\ bEchoMode' \in BOOLEAN /\ s_tInputStat' \in Stats
  BY <1>1 DEF Ranges, RanOK, FlagsOK, Escape, Stats
<1> QED BY <1>2, ReadEdits DEF Ranges, Edited, FlagsOK

LEMMA SetEchoRanges ==
    ASSUME Ranges, NEW on \in BOOLEAN, wl_shell_set_echo(on)
    PROVE  Ranges'
BY DEF Ranges, wl_shell_set_echo, LineOK, PastOK, QueueOK, RanOK, TopicsOK, EchoOK, FlagsOK, line, past, echo

(* The first line of a queue: the first byte that is no line end, and the  *)
(* first line end behind it.                                               *)
FirstLine(q, first, last) ==
    /\ first \in DOMAIN q /\ q[first] # Cr
    /\ \A i \in DOMAIN q : q[i] # Cr => first <= i
    /\ last \in DOMAIN q /\ last > first /\ q[last] = Cr
    /\ \A i \in DOMAIN q : i > first /\ q[i] = Cr => last <= i

LEMMA ExecTakes ==
    ASSUME Ranges, wl_shell_exec
    PROVE  \/ /\ \A b \in DOMAIN tByteInQueue : tByteInQueue[b] = Cr
              /\ tByteInQueue' = <<>> /\ ran' = ran
           \/ \E first, last \in Nat :
              /\ FirstLine(tByteInQueue, first, last)
              /\ tByteInQueue' = SubSeq(tByteInQueue, last + 1, Len(tByteInQueue))
              /\ ran' = Append(ran, SubSeq(tByteInQueue, first, last - 1))
<1> DEFINE starts == {b \in DOMAIN tByteInQueue : tByteInQueue[b] # Cr}
           first == CHOOSE b \in starts : \A i \in starts : b <= i
           ends == {e \in DOMAIN tByteInQueue : e > first /\ tByteInQueue[e] = Cr}
           last == CHOOSE e \in ends : \A i \in ends : e <= i
<1>1. IF starts = {}
      THEN tByteInQueue' = <<>> /\ ran' = ran
      ELSE /\ tByteInQueue' = SubSeq(tByteInQueue, last + 1, Len(tByteInQueue))
           /\ ran' = Append(ran, SubSeq(tByteInQueue, first, last - 1))
  BY DEF wl_shell_exec
<1>2. DOMAIN tByteInQueue = 1..Len(tByteInQueue) /\ Len(tByteInQueue) \in Nat
  BY DEF Ranges, QueueOK
<1>3. CASE starts = {}
  BY <1>1, <1>3
<1>4. CASE starts # {}
  <2>1. starts \subseteq Nat
    BY <1>2
  <2>2. \E b \in starts : \A i \in starts : b <= i
    <3> HIDE DEF starts
    <3> QED BY <1>4, <2>1, Smallest
  <2>3. first \in starts /\ \A i \in starts : first <= i
    <3> HIDE DEF starts
    <3> QED BY <2>2
  <2> HIDE DEF first
  <2>4. tByteInQueue[Len(tByteInQueue)] = Cr /\ first # Len(tByteInQueue) /\ first \in 1..Len(tByteInQueue)
    <3>1. first \in 1..Len(tByteInQueue)
      BY <1>2, <2>3
    <3>2. tByteInQueue # <<>>
      BY <1>2, <3>1
    <3> QED BY <2>3, <3>1, <3>2 DEF Ranges, QueueOK
  <2>5. Len(tByteInQueue) \in ends /\ ends \subseteq Nat
    <3>1. \A k \in Nat : \A j \in 1..k : j # k => k \in 1..k /\ k > j
      OBVIOUS
    <3>2. Len(tByteInQueue) \in 1..Len(tByteInQueue) /\ Len(tByteInQueue) > first
      BY <1>2, <2>4, <3>1
    <3>3. ends \subseteq Nat
      <4>1. \A k \in Nat : 1..k \subseteq Nat
        OBVIOUS
      <4>2. DOMAIN tByteInQueue \subseteq Nat
        BY <1>2, <4>1
      <4> QED BY <4>2
    <3>4. Len(tByteInQueue) \in DOMAIN tByteInQueue
      BY <1>2, <3>2
    <3> QED BY <2>4, <3>2, <3>3, <3>4
  <2>6. \E e \in ends : \A i \in ends : e <= i
    <3> HIDE DEF ends
    <3> QED BY <2>5, Smallest
  <2>7. last \in ends /\ \A i \in ends : last <= i
    <3> HIDE DEF ends
    <3> QED BY <2>6
  <2> HIDE DEF last
  <2>8. FirstLine(tByteInQueue, first, last) /\ first \in Nat /\ last \in Nat
    BY <1>2, <2>3, <2>7 DEF FirstLine
  <2>9. /\ tByteInQueue' = SubSeq(tByteInQueue, last + 1, Len(tByteInQueue))
        /\ ran' = Append(ran, SubSeq(tByteInQueue, first, last - 1))
    BY <1>1, <1>4
  <2> HIDE DEF starts, ends
  <2> QED BY <2>8, <2>9
<1> QED BY <1>3, <1>4

LEMMA ExecRanges == ASSUME Ranges, wl_shell_exec PROVE Ranges'
<1> DEFINE S == Char \cup {Cr}
<1>1. LineOK' /\ PastOK' /\ EchoOK' /\ FlagsOK'
  BY DEF Ranges, wl_shell_exec, LineOK, PastOK, EchoOK, FlagsOK, line, past, echo
<1>2. TopicsOK'
  <2>1. topics \in Seq(Names) /\ topics # <<>> /\ topics' = Tail(topics) /\ Len(topics) <= TopicRoom
    BY DEF Ranges, wl_shell_exec, TopicsOK
  <2>2. topics' \in Seq(Names) /\ Len(topics') = Len(topics) - 1 /\ Len(topics) \in Nat
    BY <2>1, HeadTailProperties, LenProperties
  <2> QED BY <2>1, <2>2, Sizes DEF TopicsOK
<1>3. tByteInQueue \in Seq(S) /\ Len(tByteInQueue) \in Nat /\ DOMAIN tByteInQueue = 1..Len(tByteInQueue)
  BY DEF Ranges, QueueOK
<1>4. entered' = entered
  BY DEF wl_shell_exec
<1> HIDE DEF S
<1>5. CASE tByteInQueue' = <<>> /\ ran' = ran
  <2>1. QueueOK' /\ RanOK'
    BY <1>4, <1>5, Sizes DEF Ranges, QueueOK, RanOK
  <2> QED BY <1>1, <1>2, <2>1 DEF Ranges
<1>6. ASSUME NEW first \in Nat, NEW last \in Nat, FirstLine(tByteInQueue, first, last),
             tByteInQueue' = SubSeq(tByteInQueue, last + 1, Len(tByteInQueue)),
             ran' = Append(ran, SubSeq(tByteInQueue, first, last - 1))
      PROVE  Ranges'
  <2> DEFINE q == SubSeq(tByteInQueue, last + 1, Len(tByteInQueue))
             n == Len(tByteInQueue)
  <2>1. first \in 1..n /\ last \in 1..n /\ last > first
    BY <1>3, <1>6 DEF FirstLine
  <2>2. \A i \in last + 1..n : tByteInQueue[i] \in S
    BY <1>3, <2>1, ElementOf
  <2>3. /\ q \in Seq(S)
        /\ Len(q) = IF last + 1 <= n THEN n - (last + 1) + 1 ELSE 0
        /\ \A i \in 1..n - (last + 1) + 1 : q[i] = tByteInQueue[last + 1 + i - 1]
    <3> HIDE DEF n
    <3>1. last + 1 \in Int /\ n \in Int
      BY <1>3 DEF n
    <3>2. q = SubSeq(tByteInQueue, last + 1, n)
      BY DEF n
    <3> HIDE DEF q
    <3> QED BY <2>2, <3>1, <3>2, SubSeqProperties
  <2>0. n \in Nat /\ n <= ArgLen /\ n = Len(tByteInQueue)
    BY <1>3 DEF Ranges, QueueOK
  <2> HIDE DEF q, n
  <2>4. Len(q) <= ArgLen
    BY <2>0, <2>1, <2>3, Sizes
  <2>5. q # <<>> => q[Len(q)] = Cr
    <3> SUFFICES ASSUME q # <<>> PROVE q[Len(q)] = Cr
      OBVIOUS
    <3>1. Len(q) \in Nat /\ Len(q) # 0
      BY <2>3, EmptySeq
    <3>2. Len(q) = n - last /\ q[Len(q)] = tByteInQueue[n]
      <4>1. last + 1 <= n /\ Len(q) = n - last
        BY <2>0, <2>1, <2>3, <3>1
      <4>2. Len(q) \in 1..n - (last + 1) + 1 /\ last + 1 + Len(q) - 1 = n
        BY <2>0, <2>1, <4>1
      <4> QED BY <2>3, <4>1, <4>2
    <3>3. tByteInQueue # <<>>
      BY <2>0, <2>1, EmptySeq
    <3> QED BY <2>0, <3>2, <3>3 DEF Ranges, QueueOK
  <2>6. QueueOK'
    BY <1>4, <1>6, <2>3, <2>4, <2>5 DEF Ranges, QueueOK, q, S
  <2>7. SubSeq(tByteInQueue, first, last - 1) \in Seq(S)
    <3>1. first \in Int /\ last - 1 \in Int /\ \A i \in first..last - 1 : i \in 1..n
      BY <2>0, <2>1
    <3>2. \A i \in first..last - 1 : tByteInQueue[i] \in S
      BY <1>3, <2>0, <3>1, ElementOf
    <3> QED BY <3>1, <3>2, SubSeqProperties
  <2>8. RanOK'
    BY <1>6, <2>7, AppendProperties DEF Ranges, RanOK, S
  <2> QED BY <1>1, <1>2, <2>6, <2>8 DEF Ranges
<1> QED BY <1>5, <1>6, ExecTakes

LEMMA EchoRanges == ASSUME Ranges, wl_shell_echo PROVE Ranges'
<1>1. LineOK' /\ PastOK' /\ FlagsOK' /\ QueueOK' /\ RanOK'
  BY DEF Ranges, wl_shell_echo, LineOK, PastOK, QueueOK, RanOK, FlagsOK, line, past
<1>2. TopicsOK'
  <2>1. topics \in Seq(Names) /\ topics # <<>> /\ topics' = Tail(topics) /\ Len(topics) <= TopicRoom
    BY DEF Ranges, wl_shell_echo, TopicsOK
  <2>2. topics' \in Seq(Names) /\ Len(topics') = Len(topics) - 1 /\ Len(topics) \in Nat
    BY <2>1, HeadTailProperties, LenProperties
  <2> QED BY <2>1, <2>2, Sizes DEF TopicsOK
<1>3. EchoedAt \in Nat
  BY DEF EchoedAt, Ranges, EchoOK
<1>4. EchoOK'
  BY <1>3 DEF Ranges, EchoOK, wl_shell_echo, Escape, Stats
<1> QED BY <1>1, <1>2, <1>4 DEF Ranges

LEMMA RangesNext == Ranges /\ [Next]_vars => Ranges'
<1> SUFFICES ASSUME Ranges, [Next]_vars PROVE Ranges'
  OBVIOUS
<1>1. ASSUME NEW key \in Keys, wl_shell_read(key) PROVE Ranges'
  BY <1>1, ReadRanges
<1>2. ASSUME NEW on \in BOOLEAN, wl_shell_set_echo(on) PROVE Ranges'
  BY <1>2, SetEchoRanges
<1>3. CASE wl_shell_exec
  BY <1>3, ExecRanges
<1>4. CASE wl_shell_echo
  BY <1>4, EchoRanges
<1>5. CASE UNCHANGED vars
  BY <1>5 DEF Ranges, vars, LineOK, PastOK, QueueOK, RanOK, TopicsOK, EchoOK, FlagsOK, line, past, echo
<1> QED BY <1>1, <1>2, <1>3, <1>4, <1>5 DEF Next, TopicAgent

LEMMA ShellRanges == Spec => []Ranges
<1> QED BY RangesInit, RangesNext, PTL DEF Spec

(* For every set of bytes and every size of the buffers and queues, each   *)
(* variable of the shell keeps its range: no position leaves the line and  *)
(* no history index leaves the history.                                    *)
THEOREM ShellTypeOK == Spec => []TypeOK
<1> QED BY ShellRanges, RangesSuffice, PTL

(* Whatever is typed, deleted, recalled and moved over, the line and every *)
(* line of the history end inside their buffers.                           *)
THEOREM ShellLinesEnd == Spec => []LinesEnd
<1> QED BY ShellRanges, RangesSuffice, PTL

-----------------------------------------------------------------------------
(* The echo. While an echo_topic is in the queue, and there is at most one *)
(* then, the cursor of the line is where that echo will take the cursor of *)
(* the echo.                                                               *)
EchoPending == \E i \in DOMAIN topics : topics[i] = "echo_topic"
EchoFollows ==
    ~astray =>
        /\ \A i, j \in DOMAIN topics : topics[i] = "echo_topic" /\ topics[j] = "echo_topic" => i = j
        /\ EchoPending => hwLinePosition = EchoedAt /\ s_tInputStat = Escape(s_tEchoStat, buffer)
        /\ ~EchoPending => hwLinePosition = hwCurposPosition /\ s_tInputStat = s_tEchoStat

(* EchoedAt with its inputs named. *)
Goes(key, stat, position, len) ==
    CASE key = "esc" \/ (key = "[" /\ stat = "SPEC_KEY") -> position
      [] key = "right" /\ stat = "FUNC_KEY" -> IF position < len THEN position + 1 ELSE position
      [] key = "left" /\ stat = "FUNC_KEY" -> IF position # 0 THEN position - 1 ELSE 0
      [] key \notin {"right", "left", "esc"} /\ stat = "FUNC_KEY" -> position
      [] key = "enter" /\ stat # "FUNC_KEY" -> 0
      [] key = "back" /\ stat # "FUNC_KEY" -> IF position # 0 THEN position - 1 ELSE 0
      [] OTHER -> position + 1

(* A read that leaves the echo in step finds nothing to echo, and leaves   *)
(* its byte as the only one.                                               *)
LEMMA PublishesEcho ==
    ASSUME Ranges, NEW key \in Keys, NEW news \in Seq({"shell_topic"}), NEW unseen \in BOOLEAN,
           Publishes(key, news, unseen), ~astray'
    PROVE  /\ ~unseen /\ ~astray /\ ~EchoPending
           /\ buffer' = key /\ hwCurposPosition' = hwCurposPosition /\ s_tEchoStat' = s_tEchoStat
           /\ EchoPending'
           /\ \A i, j \in DOMAIN topics' : topics'[i] = "echo_topic" /\ topics'[j] = "echo_topic" => i = j
<1> DEFINE before == topics \o news
           all == before \o <<"echo_topic">>
<1>1. /\ ~unseen /\ ~astray /\ bEchoMode /\ ~EchoPending
      /\ buffer' = key /\ UNCHANGED echo
      /\ topics' = Newest(topics \o news \o EchoTopic, TopicRoom)
  BY DEF Publishes, EchoPending
<1>2. EchoTopic = <<"echo_topic">>
  BY <1>1 DEF EchoTopic
<1>3. topics \in Seq(Names) /\ news \in Seq(Names)
  BY DEF Ranges, TopicsOK, Names
<1>4. Len(topics) \in Nat /\ Len(news) \in Nat
  BY <1>3, LenProperties
<1>5. /\ before \in Seq(Names) /\ Len(before) = Len(topics) + Len(news)
      /\ \A i \in 1..Len(topics) + Len(news) :
            before[i] = IF i <= Len(topics) THEN topics[i] ELSE news[i - Len(topics)]
  BY <1>3, ConcatProperties
<1> HIDE DEF before
<1>6. \A i \in 1..Len(before) : before[i] # "echo_topic"
  <2> TAKE i \in 1..Len(before)
  <2>1. CASE i <= Len(topics)
    <3>1. i \in DOMAIN topics
      BY <1>3, <1>4, <2>1
    <3> QED BY <1>1, <1>4, <1>5, <2>1, <3>1 DEF EchoPending
  <2>2. CASE ~(i <= Len(topics))
    <3>1. i - Len(topics) \in 1..Len(news)
      BY <1>4, <1>5, <2>2
    <3>2. news[i - Len(topics)] \in {"shell_topic"}
      BY <3>1, ElementOf
    <3> QED BY <1>4, <1>5, <2>2, <3>2
  <2> QED BY <2>1, <2>2
<1>7. /\ all \in Seq(Names) /\ Len(all) = Len(before) + 1
      /\ \A i \in 1..Len(before) + 1 : all[i] = IF i <= Len(before) THEN before[i] ELSE "echo_topic"
  <2>1. <<"echo_topic">> \in Seq(Names) /\ Len(<<"echo_topic">>) = 1 /\ <<"echo_topic">>[1] = "echo_topic"
    BY DEF Names
  <2>2. /\ all \in Seq(Names) /\ Len(all) = Len(before) + Len(<<"echo_topic">>)
        /\ \A i \in 1..Len(before) + Len(<<"echo_topic">>) :
              all[i] = IF i <= Len(before) THEN before[i] ELSE <<"echo_topic">>[i - Len(before)]
    BY <1>5, <2>1, ConcatProperties
  <2>3. Len(before) \in Nat
    BY <1>5, LenProperties
  <2> HIDE DEF all
  <2>4. ASSUME NEW i \in 1..Len(before) + 1
        PROVE  all[i] = IF i <= Len(before) THEN before[i] ELSE "echo_topic"
    BY <2>1, <2>2, <2>3
  <2> QED BY <2>1, <2>2, <2>4
<1>8. topics' = Newest(all, TopicRoom)
  BY <1>1, <1>2 DEF before
<1> HIDE DEF all
<1>9. Len(before) \in Nat /\ Len(all) \in Nat
  BY <1>5, <1>7, LenProperties
<1>10. /\ topics' \in Seq(Names) /\ Len(topics') = Smaller(Len(all), TopicRoom)
       /\ \A i \in 1..Len(topics') : topics'[i] = all[Len(all) - Len(topics') + i]
  BY <1>7, <1>8, Sizes, NewestKept
<1>11. Len(topics') \in Nat /\ Len(topics') >= 1 /\ Len(topics') <= Len(all)
  BY <1>7, <1>9, <1>10, Sizes DEF Smaller
<1>12. DOMAIN topics' = 1..Len(topics')
  BY <1>10
<1>13. \A i \in 1..Len(topics') : topics'[i] = "echo_topic" <=> i = Len(topics')
  <2> TAKE i \in 1..Len(topics')
  <2> DEFINE k == Len(all) - Len(topics') + i
  <2>1. k \in 1..Len(before) + 1 /\ (k <= Len(before) <=> i # Len(topics'))
    BY <1>7, <1>9, <1>11
  <2>2. topics'[i] = all[k]
    BY <1>10
  <2> HIDE DEF k
  <2>3. k <= Len(before) => k \in 1..Len(before)
    BY <1>9, <2>1
  <2> QED BY <1>6, <1>7, <2>1, <2>2, <2>3
<1>14. EchoPending'
  <2>1. \A k \in Nat : k >= 1 => k \in 1..k
    OBVIOUS
  <2>2. Len(topics') \in 1..Len(topics')
    BY <1>11, <2>1
  <2>3. Len(topics') \in DOMAIN topics' /\ topics'[Len(topics')] = "echo_topic"
    BY <1>12, <1>13, <2>2
  <2> QED BY <2>3 DEF EchoPending
<1>15. \A i, j \in DOMAIN topics' : topics'[i] = "echo_topic" /\ topics'[j] = "echo_topic" => i = j
  <2> TAKE i, j \in DOMAIN topics'
  <2>1. i \in 1..Len(topics') /\ j \in 1..Len(topics')
    BY <1>12
  <2> QED BY <1>13, <2>1
<1> QED BY <1>1, <1>14, <1>15 DEF echo

LEMMA EditsEcho ==
    ASSUME Ranges, NEW key \in Keys, NEW unseen \in BOOLEAN, Edits(key, unseen), ~astray'
    PROVE  ~unseen
<1>1. <<>> \in Seq({"shell_topic"})
  OBVIOUS
<1> QED BY <1>1, PublishesEcho DEF Edits

(* Every read publishes. *)
LEMMA ReadPublishes ==
    ASSUME Ranges, NEW key \in Keys, wl_shell_read(key)
    PROVE  \E news \in Seq({"shell_topic"}), unseen \in BOOLEAN : Publishes(key, news, unseen)
<1>0. <<>> \in Seq({"shell_topic"}) /\ <<"shell_topic">> \in Seq({"shell_topic"})
  OBVIOUS
<1>1. ASSUME NEW unseen \in BOOLEAN, Edits(key, unseen)
      PROVE  \E news \in Seq({"shell_topic"}), u \in BOOLEAN : Publishes(key, news, u)
  BY <1>0, <1>1 DEF Edits
<1>2. CASE NoEffect(key)
  BY <1>1, <1>2 DEF NoEffect
<1>3. CASE FunctionKey(key)
  BY <1>1, <1>3 DEF FunctionKey, Up, Down, Recalls, MovesTo, NoEffect
<1>4. CASE key = "enter" /\ Enter
  <2>1. CASE Accepts
    BY <1>0, <1>4, <2>1 DEF Accepts
  <2>2. CASE Edits("enter", FALSE)
    BY <1>1, <1>4, <2>2
  <2> QED BY <1>4, <2>1, <2>2 DEF Enter
<1>5. CASE key = "back" /\ Backspace
  BY <1>1, <1>5 DEF Backspace
<1>6. CASE Type(key)
  BY <1>1, <1>6 DEF Type
<1> QED BY <1>2, <1>3, <1>4, <1>5, <1>6 DEF wl_shell_read

(* Where the cursor of the line goes is where the echo will go. *)
LEMMA ReadGoes ==
    ASSUME Ranges, NEW key \in Keys, wl_shell_read(key), ~astray'
    PROVE  hwLinePosition' = Goes(key, s_tInputStat, hwLinePosition, hwLineLen')
<1>0. hwLinePosition \in Nat /\ {"up", "down"} \subseteq Keys
  BY DEF Ranges, LineOK, Keys, Control
<1>1. CASE key \in {"esc", "["} /\ NoEffect(key)
  BY <1>1 DEF wl_shell_read, Sent, NoEffect, line, Goes
<1>2. CASE key # "esc" /\ s_tInputStat = "FUNC_KEY" /\ FunctionKey(key)
  <2>1. key # "["
    BY <1>2 DEF wl_shell_read, Sent
  <2>2. CASE Up
    BY <1>0, <2>2, EditsEcho DEF Up, Recalls
  <2>3. CASE Down
    BY <1>0, <2>3, EditsEcho DEF Down, Recalls
  <2>4. CASE key \notin {"right", "left"} /\ NoEffect(key)
    BY <1>2, <2>1, <2>4 DEF NoEffect, line, Goes
  <2>5. CASE key = "right" /\ MovesTo(key, IF hwLinePosition < hwLineLen THEN hwLinePosition + 1 ELSE hwLinePosition)
    BY <1>2, <2>5 DEF MovesTo, Goes
  <2>6. CASE key = "left" /\ MovesTo(key, IF hwLinePosition # 0 THEN hwLinePosition - 1 ELSE 0)
    BY <1>2, <2>6 DEF MovesTo, Goes
  <2> QED BY <1>2, <2>2, <2>3, <2>4, <2>5, <2>6 DEF FunctionKey
<1>3. CASE Plain(s_tInputStat, key) /\ key = "enter" /\ Enter
  BY <1>3 DEF Plain, Enter, Goes
<1>4. CASE Plain(s_tInputStat, key) /\ key = "back" /\ Backspace
  BY <1>4 DEF Plain, Backspace, Goes
<1>5. CASE Plain(s_tInputStat, key) /\ key \in Char /\ Type(key)
  <2>1. key \notin Control
    BY <1>5, CharAssumption
  <2>2. Goes(key, s_tInputStat, hwLinePosition, hwLineLen') = hwLinePosition + 1
    BY <1>5, <2>1 DEF Goes, Plain, Control
  <2>3. CASE hwLinePosition < ArgLen - 1
    BY <1>5, <2>2, <2>3 DEF Type
  <2>4. CASE ~(hwLinePosition < ArgLen - 1)
    BY <1>5, <2>4, EditsEcho DEF Type
  <2> QED BY <2>3, <2>4
<1> QED BY <1>1, <1>2, <1>3, <1>4, <1>5 DEF wl_shell_read

LEMMA ReadEcho ==
    ASSUME Ranges, EchoFollows, NEW key \in Keys, wl_shell_read(key)
    PROVE  EchoFollows'
<1> SUFFICES ASSUME ~astray' PROVE EchoFollows'
  BY DEF EchoFollows
<1>1. /\ ~astray /\ ~EchoPending
      /\ buffer' = key /\ hwCurposPosition' = hwCurposPosition /\ s_tEchoStat' = s_tEchoStat
      /\ EchoPending'
      /\ \A i, j \in DOMAIN topics' : topics'[i] = "echo_topic" /\ topics'[j] = "echo_topic" => i = j
  BY ReadPublishes, PublishesEcho
<1>2. hwLinePosition = hwCurposPosition /\ s_tInputStat = s_tEchoStat
  BY <1>1 DEF EchoFollows
<1>3. s_tInputStat' = Escape(s_tEchoStat', buffer')
  BY <1>1, <1>2 DEF wl_shell_read
<1>4. EchoedAt' = Goes(buffer', s_tEchoStat', hwCurposPosition', hwLineLen')
  BY DEF EchoedAt, Goes
<1>5. hwLinePosition' = EchoedAt'
  BY <1>1, <1>2, <1>4, ReadGoes
<1> QED BY <1>1, <1>3, <1>5 DEF EchoFollows

(* The front of the topic queue goes. *)
LEMMA TopicGoes ==
    ASSUME Ranges, topics # <<>>, topics' = Tail(topics)
    PROVE  /\ DOMAIN topics = 1..Len(topics) /\ Len(topics) \in Nat \ {0} /\ Head(topics) = topics[1]
           /\ DOMAIN topics' = 1..Len(topics) - 1 /\ \A i \in 1..Len(topics) - 1 : topics'[i] = topics[i + 1]
<1>1. topics \in Seq(Names)
  BY DEF Ranges, TopicsOK
<1>2. Tail(topics) \in Seq(Names) /\ Len(Tail(topics)) = Len(topics) - 1
      /\ \A i \in 1..Len(Tail(topics)) : Tail(topics)[i] = topics[i + 1]
  BY <1>1, HeadTailProperties
<1> QED BY <1>1, <1>2, EmptySeq, LenProperties

LEMMA ExecEcho == ASSUME Ranges, EchoFollows, wl_shell_exec PROVE EchoFollows'
<1>1. /\ DOMAIN topics = 1..Len(topics) /\ Len(topics) \in Nat \ {0} /\ topics[1] = "shell_topic"
      /\ DOMAIN topics' = 1..Len(topics) - 1 /\ \A i \in 1..Len(topics) - 1 : topics'[i] = topics[i + 1]
  BY TopicGoes DEF wl_shell_exec
<1>2. EchoPending' <=> EchoPending
  <2>1. ASSUME NEW i \in DOMAIN topics, topics[i] = "echo_topic" PROVE EchoPending'
    <3>1. i - 1 \in 1..Len(topics) - 1 /\ i = i - 1 + 1
      BY <1>1, <2>1
    <3> QED BY <1>1, <2>1, <3>1 DEF EchoPending
  <2>2. ASSUME NEW i \in DOMAIN topics', topics'[i] = "echo_topic" PROVE EchoPending
    <3>1. i + 1 \in 1..Len(topics)
      BY <1>1
    <3> QED BY <1>1, <2>2, <3>1 DEF EchoPending
  <2> QED BY <2>1, <2>2 DEF EchoPending
<1>3. ASSUME ~astray,
             NEW i \in DOMAIN topics', NEW j \in DOMAIN topics', topics'[i] = "echo_topic", topics'[j] = "echo_topic"
      PROVE  i = j
  <2>1. i + 1 \in 1..Len(topics) /\ j + 1 \in 1..Len(topics)
    BY <1>1
  <2>2. i + 1 = j + 1
    BY <1>1, <1>3, <2>1 DEF EchoFollows
  <2> QED BY <1>1, <2>2
<1>4. UNCHANGED <<astray, hwLinePosition, hwLineLen, s_tInputStat, s_tEchoStat, buffer, hwCurposPosition>>
  BY DEF wl_shell_exec, line, echo
<1>5. EchoedAt' = EchoedAt /\ Escape(s_tEchoStat, buffer)' = Escape(s_tEchoStat, buffer)
  BY <1>4 DEF EchoedAt, Escape
<1> QED BY <1>2, <1>3, <1>4, <1>5 DEF EchoFollows

LEMMA EchoEcho == ASSUME Ranges, EchoFollows, wl_shell_echo PROVE EchoFollows'
<1> SUFFICES ASSUME ~astray' PROVE EchoFollows'
  BY DEF EchoFollows
<1>1. /\ DOMAIN topics = 1..Len(topics) /\ Len(topics) \in Nat \ {0} /\ topics[1] = "echo_topic"
      /\ DOMAIN topics' = 1..Len(topics) - 1 /\ \A i \in 1..Len(topics) - 1 : topics'[i] = topics[i + 1]
  BY TopicGoes DEF wl_shell_echo
<1>2. ~astray /\ UNCHANGED <<hwLinePosition, s_tInputStat>>
  BY DEF wl_shell_echo, line
<1>3. EchoPending /\ 1 \in DOMAIN topics
  BY <1>1 DEF EchoPending
<1>4. ~EchoPending'
  <2> SUFFICES ASSUME NEW i \in DOMAIN topics', topics'[i] = "echo_topic" PROVE FALSE
    BY DEF EchoPending
  <2>1. i + 1 \in DOMAIN topics /\ topics[i + 1] = "echo_topic" /\ i + 1 # 1
    BY <1>1
  <2> QED BY <1>1, <1>2, <1>3, <2>1 DEF EchoFollows
<1>5. hwCurposPosition' = EchoedAt /\ s_tEchoStat' = Escape(s_tEchoStat, buffer)
  BY <1>2 DEF wl_shell_echo
<1>6. hwLinePosition' = hwCurposPosition' /\ s_tInputStat' = s_tEchoStat'
  BY <1>2, <1>3, <1>5 DEF EchoFollows
<1> QED BY <1>4, <1>6 DEF EchoFollows, EchoPending

LEMMA EchoNext == Ranges /\ EchoFollows /\ [Next]_vars => EchoFollows'
<1> SUFFICES ASSUME Ranges, EchoFollows, [Next]_vars PROVE EchoFollows'
  OBVIOUS
<1>1. ASSUME NEW key \in Keys, wl_shell_read(key) PROVE EchoFollows'
  BY <1>1, ReadEcho
<1>2. CASE UNCHANGED <<line, s_tInputStat, topics, buffer, echo, astray>>
  BY <1>2 DEF EchoFollows, EchoPending, EchoedAt, line, echo
<1>3. CASE wl_shell_exec
  BY <1>3, ExecEcho
<1>4. CASE wl_shell_echo
  BY <1>4, EchoEcho
<1> QED BY <1>1, <1>2, <1>3, <1>4 DEF Next, TopicAgent, wl_shell_set_echo, vars

(* For every size of the line and of the queues, once the echo has caught  *)
(* up its cursor and its escape state are those of the line, unless it has *)
(* missed a byte, a line was recalled or a line has become too long.       *)
THEOREM ShellEchoInStep == Spec => []EchoInStep
<1>1. Init => EchoFollows
  BY DEF Init, EchoFollows, EchoPending
<1>2. EchoFollows => EchoInStep
  BY DEF EchoFollows, EchoInStep, EchoPending
<1> QED BY <1>1, <1>2, ShellRanges, EchoNext, PTL DEF Spec

-----------------------------------------------------------------------------
(* Lines through the command queue. As long as nothing has overflowed, the *)
(* queue holds the lines entered and not yet run, one behind the other,    *)
(* each with its line end; ends says where.                                *)
Lines == Seq(Char) \ {<<>>}
Ends(q, done, n) == [done..n -> 0..Len(q)]
Laid(q, done, lines, ends) ==
    /\ ends[done] = 0 /\ ends[Len(lines)] = Len(q)
    /\ \A i \in done + 1..Len(lines) :
          /\ ends[i] = ends[i - 1] + Len(lines[i]) + 1
          /\ q[ends[i]] = Cr
          /\ \A j \in 1..Len(lines[i]) : q[ends[i - 1] + j] = lines[i][j]
    /\ \A i, j \in done..Len(lines) : i <= j => ends[i] <= ends[j]

FrontRan == Len(ran) <= Len(entered) /\ \A i \in 1..Len(ran) : ran[i] = entered[i]
RestQueued == \E ends \in Ends(tByteInQueue, Len(ran), Len(entered)) : Laid(tByteInQueue, Len(ran), entered, ends)
LinesInOrder == ~overflowed => FrontRan /\ RestQueued

OneMore(lines, text, lines2) ==
    /\ Len(lines2) = Len(lines) + 1 /\ lines2[Len(lines) + 1] = text
    /\ \A i \in 1..Len(lines) : lines2[i] = lines[i]
Behind(q, text, q2) ==
    /\ Len(q2) = Len(q) + Len(text) + 1 /\ q2[Len(q) + Len(text) + 1] = Cr
    /\ \A i \in 1..Len(q) : q2[i] = q[i]
    /\ \A j \in 1..Len(text) : q2[Len(q) + j] = text[j]
Without(q, k, q2) == Len(q2) = Len(q) - k /\ \A i \in 1..Len(q) - k : q2[i] = q[k + i]

(* A byte j of a line of l bytes between a and b, and what is left of both *)
(* when k bytes in front of them go.                                       *)
LEMMA WithinLine ==
    \A a, b, m \in Int : \A l \in Nat : \A j \in 1..l :
        a >= 0 /\ b = a + l + 1 /\ b <= m => a + j \in 1..m
OBVIOUS

LEMMA Moved ==
    \A k, m, a, b, x, y \in Int : \A l \in Nat :
        0 <= k /\ k <= a /\ b <= m /\ b = a + l + 1 /\ x = a - k /\ y = b - k =>
            /\ y = x + l + 1
            /\ \A j \in 1..l : x + j \in 1..m - k /\ k + (x + j) = a + j
OBVIOUS

(* A line goes in behind the others. *)
LEMMA LineGoesIn ==
    ASSUME NEW lines \in Seq(Lines), NEW done \in 0..Len(lines), NEW q \in Seq(Char \cup {Cr}),
           NEW ends \in Ends(q, done, Len(lines)), Laid(q, done, lines, ends),
           NEW text \in Lines, NEW lines2 \in Seq(Lines), NEW q2 \in Seq(Char \cup {Cr}),
           OneMore(lines, text, lines2), Behind(q, text, q2)
    PROVE  \E e \in Ends(q2, done, Len(lines2)) : Laid(q2, done, lines2, e)
<1> DEFINE n == Len(lines)
           e == [i \in done..n + 1 |-> IF i <= n THEN ends[i] ELSE Len(q2)]
<1>1. n \in Nat /\ Len(q) \in Nat /\ Len(q2) \in Nat /\ Len(text) \in Nat /\ done \in 0..n
  BY LenProperties DEF Lines
<1>2. /\ \A i \in done..n : ends[i] \in 0..Len(q)
      /\ ends[done] = 0 /\ ends[n] = Len(q)
      /\ \A i \in done + 1..n :
            /\ ends[i] = ends[i - 1] + Len(lines[i]) + 1
            /\ q[ends[i]] = Cr
            /\ \A j \in 1..Len(lines[i]) : q[ends[i - 1] + j] = lines[i][j]
      /\ \A i, j \in done..n : i <= j => ends[i] <= ends[j]
  BY DEF Ends, Laid
<1>3. /\ Len(lines2) = n + 1 /\ \A i \in 1..n : lines2[i] = lines[i]
      /\ lines2[n + 1] = text
  BY DEF OneMore
<1>31. /\ Len(q2) = Len(q) + Len(text) + 1 /\ q2[Len(q2)] = Cr
       /\ \A i \in 1..Len(q) : q2[i] = q[i]
       /\ \A j \in 1..Len(text) : q2[Len(q) + j] = text[j]
  BY DEF Behind
<1>4. \A i \in 1..n : Len(lines[i]) \in Nat
  BY ElementOf, LenProperties DEF Lines
<1> HIDE DEF n
<1>5. e \in Ends(q2, done, Len(lines2))
  BY <1>1, <1>2, <1>3, <1>31 DEF Ends
<1>6. /\ \A i \in done..n : e[i] = ends[i]
      /\ e[n + 1] = Len(q2)
  BY <1>1
<1> HIDE DEF e
<1>7. e[done] = 0 /\ e[n + 1] = Len(q2)
  <2>1. done \in done..n
    BY <1>1
  <2> QED BY <1>2, <1>6, <2>1
<1>8. \A i, j \in done..n + 1 : i <= j => e[i] <= e[j]
  <2> TAKE i, j \in done..n + 1
  <2> HAVE i <= j
  <2>1. CASE j = n + 1
    <3>1. CASE i = n + 1
      BY <1>1, <1>6, <2>1, <3>1
    <3>2. CASE i # n + 1
      <4>1. i \in done..n
        BY <1>1, <3>2
      <4>2. e[i] \in 0..Len(q)
        BY <1>2, <1>6, <4>1
      <4> QED BY <1>1, <1>6, <1>31, <2>1, <4>2
    <3> QED BY <3>1, <3>2
  <2>2. CASE j # n + 1
    <3>1. i \in done..n /\ j \in done..n
      BY <1>1, <2>2
    <3> QED BY <1>2, <1>6, <3>1
  <2> QED BY <2>1, <2>2
<1>9. ASSUME NEW i \in done + 1..n + 1
      PROVE  /\ e[i] = e[i - 1] + Len(lines2[i]) + 1
             /\ q2[e[i]] = Cr
             /\ \A j \in 1..Len(lines2[i]) : q2[e[i - 1] + j] = lines2[i][j]
  <2>1. CASE i = n + 1
    <3>1. e[i - 1] = Len(q) /\ lines2[i] = text
      BY <1>1, <1>2, <1>3, <1>6, <2>1
    <3> QED BY <1>1, <1>6, <1>31, <2>1, <3>1
  <2>2. CASE i # n + 1
    <3>1. i \in done + 1..n /\ i - 1 \in done..n /\ i \in done..n /\ i \in 1..n
      BY <1>1, <2>2
    <3>2. e[i] = ends[i] /\ e[i - 1] = ends[i - 1] /\ lines2[i] = lines[i]
      BY <1>3, <1>6, <3>1
    <3>3. /\ ends[i] = ends[i - 1] + Len(lines[i]) + 1
          /\ q[ends[i]] = Cr
          /\ \A j \in 1..Len(lines[i]) : q[ends[i - 1] + j] = lines[i][j]
      BY <1>2, <3>1
    <3>4. ends[i] \in 0..Len(q) /\ ends[i - 1] \in 0..Len(q) /\ Len(lines[i]) \in Nat
      BY <1>2, <1>4, <3>1
    <3>5. q2[ends[i]] = Cr
      <4>1. ends[i] \in 1..Len(q)
        BY <1>1, <3>3, <3>4
      <4> QED BY <1>31, <3>3, <4>1
    <3>6. ASSUME NEW j \in 1..Len(lines[i]) PROVE q2[ends[i - 1] + j] = lines[i][j]
      <4> DEFINE a == ends[i - 1]
                 b == ends[i]
                 l == Len(lines[i])
                 m == Len(q)
      <4>1. a \in Int /\ b \in Int /\ m \in Int /\ l \in Nat /\ j \in 1..l /\ a >= 0 /\ b = a + l + 1 /\ b <= m
        BY <1>1, <3>3, <3>4
      <4> HIDE DEF a, b, l, m
      <4>2. a + j \in 1..m
        BY <4>1, WithinLine
      <4> USE DEF a, m
      <4> QED BY <1>31, <3>3, <4>2
    <3> QED BY <3>2, <3>3, <3>5, <3>6
  <2> QED BY <2>1, <2>2
<1>10. Laid(q2, done, lines2, e)
  BY <1>3, <1>7, <1>8, <1>9 DEF Laid
<1> QED BY <1>5, <1>10

(* The first line goes. *)
LEMMA LineGoes ==
    ASSUME NEW lines \in Seq(Lines), NEW done \in Nat, done < Len(lines), NEW q \in Seq(Char \cup {Cr}),
           NEW ends \in Ends(q, done, Len(lines)), Laid(q, done, lines, ends),
           NEW q2 \in Seq(Char \cup {Cr}), Without(q, ends[done + 1], q2)
    PROVE  \E e \in Ends(q2, done + 1, Len(lines)) : Laid(q2, done + 1, lines, e)
<1> DEFINE n == Len(lines)
           k == ends[done + 1]
           e == [i \in done + 1..n |-> ends[i] - k]
<1>1. n \in Nat /\ Len(q) \in Nat /\ Len(q2) \in Nat /\ done + 1 \in done..n /\ n \in done..n
  BY LenProperties
<1>2. /\ \A i \in done..n : ends[i] \in 0..Len(q)
      /\ ends[done] = 0 /\ ends[n] = Len(q)
      /\ \A i \in done + 1..n :
            /\ ends[i] = ends[i - 1] + Len(lines[i]) + 1
            /\ q[ends[i]] = Cr
            /\ \A j \in 1..Len(lines[i]) : q[ends[i - 1] + j] = lines[i][j]
      /\ \A i, j \in done..n : i <= j => ends[i] <= ends[j]
  BY DEF Ends, Laid
<1>4. \A i \in 1..n : Len(lines[i]) \in Nat
  BY ElementOf, LenProperties DEF Lines
<1> HIDE DEF n
<1>5. k \in 0..Len(q) /\ k = ends[done + 1]
  BY <1>1, <1>2
<1> HIDE DEF k
<1>51. Len(q2) = Len(q) - k /\ \A i \in 1..Len(q) - k : q2[i] = q[k + i]
  BY <1>5 DEF Without
<1>6. \A i \in done + 1..n : ends[i] \in k..Len(q) /\ e[i] = ends[i] - k
  <2> TAKE i \in done + 1..n
  <2>1. i \in done..n /\ done + 1 <= i
    BY <1>1
  <2> QED BY <1>1, <1>2, <1>5, <2>1
<1>7. e \in Ends(q2, done + 1, n)
  <2>1. \A i \in done + 1..n : ends[i] - k \in 0..Len(q2)
    <3>1. \A x \in k..Len(q) : x - k \in 0..Len(q2)
      BY <1>1, <1>5, <1>51
    <3> QED BY <1>6, <3>1
  <2> QED BY <2>1 DEF Ends, e
<1> HIDE DEF e
<1>8. e[done + 1] = 0 /\ e[n] = Len(q2)
  BY <1>1, <1>2, <1>5, <1>51, <1>6
<1>9. \A i, j \in done + 1..n : i <= j => e[i] <= e[j]
  <2> TAKE i, j \in done + 1..n
  <2> HAVE i <= j
  <2>1. i \in done..n /\ j \in done..n
    BY <1>1
  <2>2. ends[i] <= ends[j]
    BY <1>2, <2>1
  <2>3. e[i] = ends[i] - k /\ e[j] = ends[j] - k /\ ends[i] \in k..Len(q) /\ ends[j] \in k..Len(q)
    BY <1>6
  <2> QED BY <1>1, <1>5, <2>2, <2>3
<1>10. ASSUME NEW i \in done + 2..n
       PROVE  /\ e[i] = e[i - 1] + Len(lines[i]) + 1
              /\ q2[e[i]] = Cr
              /\ \A j \in 1..Len(lines[i]) : q2[e[i - 1] + j] = lines[i][j]
  <2>1. i \in done + 1..n /\ i - 1 \in done + 1..n /\ i \in 1..n
    BY <1>1
  <2>2. /\ ends[i] = ends[i - 1] + Len(lines[i]) + 1
        /\ q[ends[i]] = Cr
        /\ \A j \in 1..Len(lines[i]) : q[ends[i - 1] + j] = lines[i][j]
    BY <1>2, <2>1
  <2>3. /\ e[i] = ends[i] - k /\ e[i - 1] = ends[i - 1] - k
        /\ ends[i] \in k..Len(q) /\ ends[i - 1] \in k..Len(q) /\ Len(lines[i]) \in Nat
    BY <1>4, <1>6, <2>1
  <2> DEFINE a == ends[i - 1]
             b == ends[i]
             l == Len(lines[i])
             m == Len(q)
  <2>0. /\ m \in Nat /\ k \in 0..m /\ a \in k..m /\ b \in k..m /\ l \in Nat /\ b = a + l + 1
        /\ e[i] = b - k /\ e[i - 1] = a - k /\ e[i] \in Int /\ e[i - 1] \in Int
    <3>1. /\ m \in Nat /\ k \in 0..m /\ l \in Nat
          /\ a \in k..m /\ b \in k..m /\ b = a + l + 1
          /\ e[i] = b - k /\ e[i - 1] = a - k
      BY <1>1, <1>5, <2>2, <2>3
    <3> HIDE DEF a, b, l, m
    <3> QED BY <3>1
  <2> HIDE DEF a, b, l, m
  <2>4. e[i] = e[i - 1] + l + 1
    BY <2>0, Moved
  <2>5. q2[e[i]] = Cr
    <3>1. e[i] \in 1..m - k /\ k + e[i] = b
      BY <2>0
    <3>2. q2[e[i]] = q[b]
      BY <1>51, <3>1 DEF m
    <3> QED BY <2>2, <3>2 DEF b
  <2>6. ASSUME NEW j \in 1..l PROVE q2[e[i - 1] + j] = lines[i][j]
    <3>1. e[i - 1] + j \in 1..m - k /\ k + (e[i - 1] + j) = a + j
      BY <2>0, Moved
    <3>2. q2[e[i - 1] + j] = q[a + j]
      BY <1>51, <3>1 DEF m
    <3> QED BY <2>2, <3>2 DEF a, l
  <2> USE DEF l
  <2> QED BY <2>4, <2>5, <2>6
<1>11. \A i \in (done + 1) + 1..n : i \in done + 2..n
  BY <1>1
<1>12. Laid(q2, done + 1, lines, e)
  BY <1>8, <1>9, <1>10, <1>11 DEF Laid, n
<1> QED BY <1>7, <1>12 DEF n

(* wl_shell_exec finds it where it is. *)
LEMMA FirstLineIs ==
    ASSUME NEW lines \in Seq(Lines), NEW done \in Nat, done < Len(lines), NEW q \in Seq(Char \cup {Cr}),
           NEW ends \in Ends(q, done, Len(lines)), Laid(q, done, lines, ends)
    PROVE  /\ lines[done + 1] \in Lines /\ Len(lines[done + 1]) \in Nat \ {0}
           /\ ends[done + 1] = Len(lines[done + 1]) + 1
           /\ Len(lines[done + 1]) + 1 \in 1..Len(q)
           /\ q[Len(lines[done + 1]) + 1] = Cr
           /\ \A j \in 1..Len(lines[done + 1]) : q[j] = lines[done + 1][j] /\ q[j] \in Char
<1> DEFINE l == lines[done + 1]
<1>1. done + 1 \in done + 1..Len(lines) /\ done + 1 \in 1..Len(lines) /\ done + 1 - 1 = done
      /\ done + 1 \in done..Len(lines)
  BY LenProperties
<1>2. l \in Lines
  BY <1>1, ElementOf
<1>3. Len(l) \in Nat \ {0}
  BY <1>2, EmptySeq DEF Lines
<1>4. /\ ends[done] = 0 /\ ends[done + 1] = ends[done] + Len(l) + 1
      /\ q[ends[done + 1]] = Cr
      /\ \A j \in 1..Len(l) : q[ends[done] + j] = l[j]
  BY <1>1 DEF Laid
<1>5. ends[done + 1] \in 0..Len(q)
  BY <1>1 DEF Ends
<1>6. \A j \in 1..Len(l) : l[j] \in Char
  BY <1>2, ElementOf DEF Lines
<1> HIDE DEF l
<1>7. Len(q) \in Nat
  BY LenProperties
<1>8. ends[done + 1] = Len(l) + 1 /\ Len(l) + 1 \in 1..Len(q)
  BY <1>3, <1>4, <1>5, <1>7
<1>9. \A j \in 1..Len(l) : q[j] = l[j] /\ q[j] \in Char
  BY <1>3, <1>4, <1>6
<1> QED BY <1>2, <1>3, <1>4, <1>8, <1>9 DEF l

LEMMA OrderUnchanged ==
    ASSUME LinesInOrder, UNCHANGED <<tByteInQueue, entered, ran>>, overflowed => overflowed'
    PROVE  LinesInOrder'
<1>1. FrontRan => FrontRan'
  BY DEF FrontRan
<1>2. RestQueued => RestQueued'
  BY DEF RestQueued
<1> QED BY <1>1, <1>2 DEF LinesInOrder

LEMMA AcceptsOrder ==
    ASSUME Ranges, LinesInOrder, Accepts, ran' = ran
    PROVE  LinesInOrder'
<1> SUFFICES ASSUME ~overflowed' PROVE FrontRan' /\ RestQueued'
  BY DEF LinesInOrder
<1> DEFINE text == Text(chLineBuf)
           bytes == Append(text, Cr)
           S == Char \cup {Cr}
           all == tByteInQueue \o bytes
<1>1. hwLinePosition = strlen(chLineBuf) /\ hwLinePosition # 0 /\ bytes = Append(text, Cr)
  BY DEF Accepts
<1>2. tByteInQueue' = Newest(all, ArgLen) /\ entered' = Append(entered, text)
  BY DEF Accepts, Queued
<1>3. tByteInQueue \in Seq(S) /\ entered \in Seq(Lines)
  BY DEF Ranges, QueueOK, Lines
<1>4. /\ text \in Lines /\ bytes \in Seq(S) /\ Len(bytes) = Len(text) + 1 /\ Len(text) = hwLinePosition
      /\ \A i \in 1..Len(text) : bytes[i] = text[i]
      /\ bytes[Len(bytes)] = Cr
  BY <1>1, LineBytes DEF Lines
<1> HIDE DEF bytes, text, S
<1>5. Len(entered) \in Nat /\ Len(tByteInQueue) \in Nat /\ Len(text) \in Nat
  BY <1>3, <1>4, LenProperties DEF Lines
<1>6. /\ entered' \in Seq(Lines) /\ Len(entered') = Len(entered) + 1 /\ entered'[Len(entered) + 1] = text
      /\ \A i \in 1..Len(entered) : entered'[i] = entered[i]
  BY <1>2, <1>3, <1>4, AppendProperties
<1>7. entered' # entered
  BY <1>5, <1>6
<1>8. ~overflowed /\ Len(tByteInQueue) + hwLinePosition + 1 <= ArgLen
  <2> DEFINE k == Len(tByteInQueue) + hwLinePosition + 1
  <2>1. Publishes("enter", <<"shell_topic">>, FALSE)
    BY DEF Accepts
  <2>2. ~overflowed /\ ~(k > ArgLen)
    BY <1>7, <2>1 DEF Publishes
  <2>3. k \in Int
    BY <1>5 DEF Ranges, LineOK
  <2> HIDE DEF k
  <2>4. k <= ArgLen
    BY <2>2, <2>3, Sizes
  <2> QED BY <2>2, <2>4 DEF k
<1>9. /\ all \in Seq(S) /\ Len(all) = Len(tByteInQueue) + Len(bytes)
      /\ \A i \in 1..Len(tByteInQueue) + Len(bytes) :
            all[i] = IF i <= Len(tByteInQueue) THEN tByteInQueue[i] ELSE bytes[i - Len(tByteInQueue)]
  BY <1>3, <1>4, ConcatProperties
<1> HIDE DEF all
<1>10. tByteInQueue' = all
  <2>1. Len(all) <= ArgLen
    BY <1>4, <1>5, <1>8, <1>9, Sizes
  <2> QED BY <1>2, <1>9, <2>1, NewestKept, Sizes
<1>11. OneMore(entered, text, entered')
  BY <1>6 DEF OneMore
<1>12. Behind(tByteInQueue, text, all)
  <2>1. Len(all) = Len(tByteInQueue) + Len(text) + 1
    <3>1. Len(all) = Len(tByteInQueue) + Len(bytes) /\ Len(bytes) = Len(text) + 1
      BY <1>4, <1>9
    <3> QED BY <1>5, <3>1
  <2>2. \A i \in 1..Len(tByteInQueue) : all[i] = tByteInQueue[i]
    BY <1>4, <1>5, <1>9
  <2>3. ASSUME NEW j \in 1..Len(text) + 1 PROVE all[Len(tByteInQueue) + j] = bytes[j]
    <3>1. Len(tByteInQueue) + j \in 1..Len(tByteInQueue) + Len(bytes) /\ ~(Len(tByteInQueue) + j <= Len(tByteInQueue))
          /\ Len(tByteInQueue) + j - Len(tByteInQueue) = j
      BY <1>4, <1>5
    <3> QED BY <1>9, <3>1
  <2>4. \A j \in 1..Len(text) : j \in 1..Len(text) + 1 /\ all[Len(tByteInQueue) + j] = text[j]
    BY <1>4, <1>5, <2>3
  <2>5. Len(text) + 1 \in 1..Len(text) + 1 /\ Len(tByteInQueue) + (Len(text) + 1) = Len(tByteInQueue) + Len(text) + 1
    BY <1>5
  <2>6. all[Len(tByteInQueue) + Len(text) + 1] = Cr
    BY <1>4, <2>3, <2>5
  <2> QED BY <2>1, <2>2, <2>4, <2>6 DEF Behind
<1>13. FrontRan /\ RestQueued /\ Len(ran) \in Nat
  BY <1>8, LenProperties DEF LinesInOrder, Ranges, RanOK
<1>14. FrontRan'
  <2>1. Len(ran) <= Len(entered')
    BY <1>5, <1>6, <1>13 DEF FrontRan
  <2>2. \A i \in 1..Len(ran) : ran[i] = entered'[i]
    <3> TAKE i \in 1..Len(ran)
    <3>1. i \in 1..Len(entered)
      BY <1>5, <1>13 DEF FrontRan
    <3> QED BY <1>6, <1>13, <3>1 DEF FrontRan
  <2> QED BY <2>1, <2>2 DEF FrontRan
<1>15. RestQueued'
  <2>1. PICK ends \in Ends(tByteInQueue, Len(ran), Len(entered)) : Laid(tByteInQueue, Len(ran), entered, ends)
    BY <1>13 DEF RestQueued
  <2>2. Len(ran) \in 0..Len(entered)
    BY <1>5, <1>13 DEF FrontRan
  <2>3. \E e \in Ends(all, Len(ran), Len(entered')) : Laid(all, Len(ran), entered', e)
    BY <1>3, <1>4, <1>6, <1>9, <1>11, <1>12, <2>1, <2>2, LineGoesIn DEF S
  <2> QED BY <1>10, <2>3 DEF RestQueued
<1> QED BY <1>14, <1>15

LEMMA ReadOrder ==
    ASSUME Ranges, LinesInOrder, NEW key \in Keys, wl_shell_read(key)
    PROVE  LinesInOrder'
<1>1. ran' = ran /\ (overflowed => overflowed')
  BY ReadPublishes DEF wl_shell_read, Publishes
<1>2. CASE UNCHANGED <<tByteInQueue, entered>>
  BY <1>1, <1>2, OrderUnchanged
<1>3. CASE Accepts
  BY <1>1, <1>3, AcceptsOrder
<1>4. UNCHANGED <<tByteInQueue, entered>> \/ Accepts
  BY DEF wl_shell_read, NoEffect, FunctionKey, Up, Down, Recalls, MovesTo, Enter, Backspace, Type, Edits
<1> QED BY <1>2, <1>3, <1>4

LEMMA ExecOrder ==
    ASSUME Ranges, LinesInOrder, wl_shell_exec
    PROVE  LinesInOrder'
<1> SUFFICES ASSUME ~overflowed' PROVE FrontRan' /\ RestQueued'
  BY DEF LinesInOrder
<1> DEFINE S == Char \cup {Cr}
           q == tByteInQueue
           done == Len(ran)
<1>1. ~overflowed /\ entered' = entered
  BY DEF wl_shell_exec
<1>2. FrontRan /\ RestQueued
  BY <1>1 DEF LinesInOrder
<1>3. q \in Seq(S) /\ entered \in Seq(Lines) /\ ran \in Seq(Seq(S)) /\ S = Char \cup {Cr}
  BY DEF Ranges, QueueOK, RanOK, Lines
<1>4. Len(q) \in Nat /\ Len(entered) \in Nat /\ done \in Nat /\ DOMAIN q = 1..Len(q)
  BY <1>3, LenProperties
<1>5. PICK ends \in Ends(q, done, Len(entered)) : Laid(q, done, entered, ends)
  BY <1>2 DEF RestQueued
<1>6. done <= Len(entered) /\ \A i \in 1..done : ran[i] = entered[i]
  BY <1>2 DEF FrontRan
<1> HIDE DEF S, q, done
<1>7. CASE done = Len(entered)
  <2>1. Len(q) = 0 /\ q = <<>>
    BY <1>3, <1>5, <1>7, EmptySeq DEF Laid
  <2>2. ~\E first, last \in Nat : FirstLine(q, first, last)
    BY <1>4, <2>1 DEF FirstLine
  <2>3. tByteInQueue' = q /\ ran' = ran
    BY <2>1, <2>2, ExecTakes DEF q
  <2> QED BY <1>1, <1>2, <2>3 DEF FrontRan, RestQueued, q
<1>8. CASE done # Len(entered)
  <2> DEFINE l == entered[done + 1]
             k == ends[done + 1]
  <2>1. done < Len(entered)
    BY <1>4, <1>6, <1>8
  <2>2. /\ l \in Lines /\ Len(l) \in Nat \ {0} /\ k = Len(l) + 1 /\ Len(l) + 1 \in 1..Len(q)
        /\ q[Len(l) + 1] = Cr
        /\ \A j \in 1..Len(l) : q[j] = l[j] /\ q[j] \in Char
    <3>1. q \in Seq(Char \cup {Cr})
      BY <1>3
    <3> HIDE DEF l, k
    <3>2. /\ entered[done + 1] \in Lines /\ Len(entered[done + 1]) \in Nat \ {0}
          /\ ends[done + 1] = Len(entered[done + 1]) + 1
          /\ Len(entered[done + 1]) + 1 \in 1..Len(q)
          /\ q[Len(entered[done + 1]) + 1] = Cr
          /\ \A j \in 1..Len(entered[done + 1]) : q[j] = entered[done + 1][j] /\ q[j] \in Char
      BY <1>3, <1>4, <1>5, <2>1, <3>1, FirstLineIs
    <3> QED BY <3>2 DEF l, k
  <2> HIDE DEF l
  <2>3. Cr \notin Char
    BY CharAssumption
  <2>4. 1 \in DOMAIN q /\ q[1] # Cr
    <3>1. 1 \in 1..Len(l) /\ 1 \in 1..Len(q)
      BY <1>4, <2>2
    <3> QED BY <1>4, <2>2, <2>3, <3>1
  <2>5. PICK first \in Nat, last \in Nat :
          /\ FirstLine(q, first, last)
          /\ tByteInQueue' = SubSeq(q, last + 1, Len(q))
          /\ ran' = Append(ran, SubSeq(q, first, last - 1))
    BY <2>4, ExecTakes DEF q
  <2>6. first = 1 /\ last = Len(l) + 1
    <3>0. FirstLine(q, first, last)
      BY <2>5
    <3>1. first = 1
      <4>1. first \in 1..Len(q) /\ first <= 1
        BY <1>4, <2>4, <3>0 DEF FirstLine
      <4> QED BY <1>4, <4>1
    <3>2. last <= Len(l) + 1
      <4>1. Len(l) + 1 \in DOMAIN q /\ Len(l) + 1 > first
        BY <1>4, <2>2, <3>1
      <4> QED BY <2>2, <3>0, <4>1 DEF FirstLine
    <3>3. ~(last < Len(l) + 1)
      <4>1. last \in 1..Len(q) /\ q[last] = Cr
        BY <1>4, <3>0 DEF FirstLine
      <4>2. last < Len(l) + 1 => last \in 1..Len(l)
        BY <2>2, <4>1
      <4> QED BY <2>2, <2>3, <4>1, <4>2
    <3> QED BY <2>2, <3>1, <3>2, <3>3
  <2>7. SubSeq(q, first, last - 1) = l
    <3> DEFINE part == SubSeq(q, first, last - 1)
    <3>1. first = 1 /\ last - 1 = Len(l) /\ l \in Seq(S)
      BY <2>2, <2>6, <1>3 DEF Lines
    <3>2. \A i \in 1..Len(l) : q[i] \in S
      BY <2>2, <1>3
    <3>3. /\ SubSeq(q, 1, Len(l)) \in Seq(S)
          /\ Len(SubSeq(q, 1, Len(l))) = IF 1 <= Len(l) THEN Len(l) - 1 + 1 ELSE 0
          /\ \A i \in 1..Len(l) - 1 + 1 : SubSeq(q, 1, Len(l))[i] = q[1 + i - 1]
      <4>1. 1 \in Int /\ Len(l) \in Int
        BY <2>2
      <4> QED BY <3>2, <4>1, SubSeqProperties
    <3>4. part = SubSeq(q, 1, Len(l))
      BY <3>1
    <3> HIDE DEF part
    <3>5. part \in Seq(S) /\ Len(part) = Len(l)
      BY <2>2, <3>3, <3>4
    <3>6. \A i \in 1..Len(l) : part[i] = l[i]
      <4> TAKE i \in 1..Len(l)
      <4>1. i \in 1..Len(l) - 1 + 1 /\ 1 + i - 1 = i
        BY <2>2
      <4> QED BY <2>2, <3>3, <3>4, <4>1
    <3>7. part = l
      BY <3>1, <3>5, <3>6, SeqEqual
    <3> QED BY <3>7 DEF part
  <2>8. ran' = Append(ran, l)
    BY <2>5, <2>7
  <2>9. Len(ran') = done + 1 /\ (\A i \in 1..done : ran'[i] = ran[i]) /\ ran'[done + 1] = l
    <3>1. l \in Seq(S)
      BY <2>2, <1>3 DEF Lines
    <3> QED BY <1>3, <2>8, <3>1, AppendProperties DEF done
  <2>10. FrontRan'
    <3>1. \A i \in 1..done + 1 : ran'[i] = entered[i]
      <4> TAKE i \in 1..done + 1
      <4>1. CASE i = done + 1
        BY <2>9, <4>1 DEF l
      <4>2. CASE i # done + 1
        <5>1. i \in 1..done
          BY <1>4, <4>2
        <5> QED BY <1>6, <2>9, <5>1
      <4> QED BY <4>1, <4>2
    <3>2. done + 1 <= Len(entered)
      BY <1>4, <2>1
    <3> QED BY <1>1, <2>9, <3>1, <3>2 DEF FrontRan
  <2>11. RestQueued'
    <3> DEFINE q2 == SubSeq(q, last + 1, Len(q))
    <3>1. last \in 1..Len(q) /\ last = k
      BY <2>2, <2>6
    <3>2. /\ q2 \in Seq(S) /\ Len(q2) = Len(q) - last
          /\ \A i \in 1..Len(q) - last : q2[i] = q[last + i]
      <4>1. last + 1 \in Int /\ Len(q) \in Int /\ \A i \in last + 1..Len(q) : i \in 1..Len(q)
        BY <1>4, <3>1
      <4>2. \A i \in last + 1..Len(q) : q[i] \in S
        BY <1>3, <4>1, ElementOf
      <4>3. /\ q2 \in Seq(S)
            /\ Len(q2) = IF last + 1 <= Len(q) THEN Len(q) - (last + 1) + 1 ELSE 0
            /\ \A i \in 1..Len(q) - (last + 1) + 1 : q2[i] = q[last + 1 + i - 1]
        BY <4>1, <4>2, SubSeqProperties
      <4> HIDE DEF q2
      <4>4. Len(q2) = Len(q) - last
        BY <1>4, <3>1, <4>3
      <4>5. \A i \in 1..Len(q) - last : q2[i] = q[last + i]
        <5> TAKE i \in 1..Len(q) - last
        <5>1. i \in 1..Len(q) - (last + 1) + 1 /\ last + 1 + i - 1 = last + i
          BY <1>4, <3>1
        <5> QED BY <4>3, <5>1
      <4> QED BY <4>3, <4>4, <4>5
    <3> HIDE DEF q2
    <3>3. Without(q, k, q2)
      BY <3>1, <3>2 DEF Without
    <3>4. \E e \in Ends(q2, done + 1, Len(entered)) : Laid(q2, done + 1, entered, e)
      BY <1>3, <1>4, <1>5, <2>1, <3>2, <3>3, LineGoes
    <3>5. tByteInQueue' = q2
      BY <2>5 DEF q2
    <3> QED BY <1>1, <2>9, <3>4, <3>5 DEF RestQueued
  <2> QED BY <2>10, <2>11
<1> QED BY <1>7, <1>8

LEMMA OrderNext == Ranges /\ LinesInOrder /\ [Next]_vars => LinesInOrder'
<1> SUFFICES ASSUME Ranges, LinesInOrder, [Next]_vars PROVE LinesInOrder'
  OBVIOUS
<1>1. ASSUME NEW key \in Keys, wl_shell_read(key) PROVE LinesInOrder'
  BY <1>1, ReadOrder
<1>2. CASE UNCHANGED <<tByteInQueue, entered, ran, overflowed>>
  BY <1>2, OrderUnchanged
<1>3. CASE wl_shell_exec
  BY <1>3, ExecOrder
<1> QED BY <1>1, <1>2, <1>3 DEF Next, TopicAgent, wl_shell_set_echo, wl_shell_echo, vars

(* For every size of the line and of the queues, lines are run in the      *)
(* order they were entered, each once and unaltered, unless the command    *)
(* queue or the topic queue has overflowed.                                *)
THEOREM ShellRunsInOrder == Spec => []RunsInOrder
<1>1. Init => LinesInOrder
  <2> SUFFICES ASSUME Init PROVE LinesInOrder
    OBVIOUS
  <2>1. tByteInQueue = <<>> /\ entered = <<>> /\ ran = <<>>
    BY DEF Init
  <2>2. Len(<<>>) = 0
    OBVIOUS
  <2> DEFINE e == [i \in 0..0 |-> 0]
  <2>3. e \in Ends(<<>>, 0, 0) /\ Laid(<<>>, 0, <<>>, e)
    BY <2>2 DEF Ends, Laid
  <2> HIDE DEF e
  <2> QED BY <2>1, <2>2, <2>3 DEF LinesInOrder, FrontRan, RestQueued
<1>2. Ranges /\ LinesInOrder => RunsInOrder
  <2> SUFFICES ASSUME Ranges, LinesInOrder, ~overflowed PROVE ran = SubSeq(entered, 1, Len(ran))
    BY DEF RunsInOrder
  <2> DEFINE S == Seq(Char \cup {Cr})
             n == Len(ran)
             part == SubSeq(entered, 1, n)
  <2>1. ran \in Seq(S) /\ entered \in Seq(S) /\ n \in Nat /\ Len(entered) \in Nat
    BY LenProperties DEF Ranges, RanOK, QueueOK
  <2>2. n <= Len(entered) /\ \A i \in 1..n : ran[i] = entered[i]
    BY DEF LinesInOrder, FrontRan
  <2> HIDE DEF S
  <2>3. \A i \in 1..n : entered[i] \in S
    BY <2>1, <2>2, ElementOf
  <2>4. /\ part \in Seq(S) /\ Len(part) = IF 1 <= n THEN n - 1 + 1 ELSE 0
        /\ \A i \in 1..n - 1 + 1 : part[i] = entered[1 + i - 1]
    <3>1. 1 \in Int /\ n \in Int
      BY <2>1
    <3> QED BY <2>3, <3>1, SubSeqProperties
  <2> HIDE DEF part, n
  <2>5. Len(part) = n /\ \A i \in 1..n : part[i] = ran[i]
    BY <2>1, <2>2, <2>4
  <2>6. ran = part
    BY <2>1, <2>4, <2>5, SeqEqual DEF n
  <2> QED BY <2>6 DEF part, n
<1> QED BY <1>1, <1>2, ShellRanges, OrderNext, PTL DEF Spec

-----------------------------------------------------------------------------
(* The history. Behind the end of a pushed line there are zeros only, so   *)
(* that two pushed lines with the same text are the same byte for byte,    *)
(* which is what shell_push_history compares.                              *)
Clean(buf) == \A i \in strlen(buf)..ArgLen - 1 : buf[i] = Nul
HistoryFollows ==
    /\ \A h \in 0..hwHistoryCount - 1 : Clean(cHistoryCmdBuf[h])
    /\ hwHistoryCount = Smaller(Len(pushed), HistoryLines)
    /\ \A i \in 1..hwHistoryCount : Text(cHistoryCmdBuf[i - 1]) = pushed[Len(pushed) - hwHistoryCount + i]

LEMMA SameText ==
    ASSUME NEW a \in Ended, NEW b \in Ended, Clean(a), Clean(b), Text(a) = Text(b)
    PROVE  a = b
<1> DEFINE n == strlen(a)
<1>1. n \in 0..ArgLen - 1 /\ n = strlen(b)
  BY LineEnd, TextOfLine
<1>2. \A i \in 1..n : a[i - 1] = b[i - 1]
  BY <1>1, TextOfLine
<1>3. \A i \in n..ArgLen - 1 : a[i] = Nul /\ b[i] = Nul
  BY <1>1 DEF Clean
<1>4. a \in Buffers /\ b \in Buffers
  BY DEF Ended
<1> HIDE DEF n
<1>5. ASSUME NEW i \in 0..ArgLen - 1 PROVE a[i] = b[i]
  <2>1. CASE i < n
    <3>1. i + 1 \in 1..n /\ i + 1 - 1 = i
      BY <1>1, <2>1, Sizes
    <3> QED BY <1>2, <3>1
  <2>2. CASE ~(i < n)
    <3>1. i \in n..ArgLen - 1
      BY <1>1, <2>2, Sizes
    <3> QED BY <1>3, <3>1
  <2> QED BY <2>1, <2>2
<1>6. a = [i \in 0..ArgLen - 1 |-> a[i]] /\ b = [i \in 0..ArgLen - 1 |-> b[i]]
  BY <1>4 DEF Buffers
<1>7. [i \in 0..ArgLen - 1 |-> a[i]] = [i \in 0..ArgLen - 1 |-> b[i]]
  BY <1>5
<1> QED BY <1>6, <1>7

LEMMA SavedLine ==
    ASSUME Ranges, hwLinePosition = strlen(chLineBuf)
    PROVE  Clean(Saved) /\ Text(Saved) = Text(chLineBuf) /\ (Clean(chLineBuf) => chLineBuf = Saved)
<1> DEFINE n == hwLinePosition
           s == Saved
<1>1. s \in Ended /\ chLineBuf \in Ended
  BY SavedEnded DEF Ranges, LineOK
<1>2. n = strlen(chLineBuf) /\ n \in 0..ArgLen - 1 /\ \A i \in 0..n - 1 : chLineBuf[i] # Nul
  BY <1>1, LineEnd
<1>3. \A i \in 0..ArgLen - 1 : s[i] = IF i < n THEN chLineBuf[i] ELSE Nul
  BY DEF Saved
<1> HIDE DEF s, n
<1>4. \A i \in 0..n - 1 : i \in 0..ArgLen - 1 /\ s[i] = chLineBuf[i]
  BY <1>2, <1>3, Sizes
<1>5. \A i \in n..ArgLen - 1 : s[i] = Nul
  BY <1>2, <1>3, Sizes
<1>6. s[n] = Nul
  BY <1>2, <1>5, Sizes
<1>7. strlen(s) = n
  BY <1>1, <1>2, <1>4, <1>6, LineEndUnique
<1>8. Clean(s)
  BY <1>5, <1>7 DEF Clean
<1>9. Text(s) = Text(chLineBuf)
  <2>1. \A i \in 1..n : s[i - 1] = chLineBuf[i - 1]
    BY <1>2, <1>4, Sizes
  <2> QED BY <1>2, <1>7, <2>1 DEF Text
<1>10. Clean(chLineBuf) => chLineBuf = s
  BY <1>1, <1>8, <1>9, SameText
<1> QED BY <1>8, <1>9, <1>10 DEF s

(* What shell_push_history compares is what it means to compare.           *)
LEMMA RepeatsWhen ==
    ASSUME Ranges, HistoryFollows, hwLinePosition = strlen(chLineBuf)
    PROVE  Repeats <=> pushed # <<>> /\ pushed[Len(pushed)] = Text(chLineBuf) /\ chLineBuf = Saved
<1> DEFINE n == Len(pushed)
           newest == cHistoryCmdBuf[hwHistoryCount - 1]
<1>1. n \in Nat /\ hwHistoryCount = Smaller(n, HistoryLines) /\ hwHistoryCount \in Nat /\ (n = 0 <=> pushed = <<>>)
  BY EmptySeq, LenProperties DEF Ranges, PastOK, HistoryFollows
<1>2. hwHistoryCount # 0 <=> pushed # <<>>
  BY <1>1, Sizes DEF Smaller
<1>3. CASE hwHistoryCount = 0
  BY <1>2, <1>3 DEF Repeats
<1>4. CASE hwHistoryCount # 0
  <2>1. hwHistoryCount - 1 \in 0..hwHistoryCount - 1 /\ hwHistoryCount - 1 \in 0..HistoryLines - 1
        /\ hwHistoryCount \in 1..hwHistoryCount /\ n - hwHistoryCount + hwHistoryCount = n
    <3>1. \A c \in 0..HistoryLines : \A k \in Nat :
            c # 0 => c - 1 \in 0..c - 1 /\ c - 1 \in 0..HistoryLines - 1 /\ c \in 1..c /\ k - c + c = k
      BY Sizes
    <3>2. hwHistoryCount \in 0..HistoryLines
      BY DEF Ranges, PastOK
    <3> HIDE DEF n
    <3> QED BY <1>1, <1>4, <3>1, <3>2
  <2>2. newest \in Ended /\ Clean(newest) /\ Text(newest) = pushed[n]
    BY <2>1 DEF Ranges, PastOK, HistoryFollows
  <2>3. Saved \in Ended /\ Clean(Saved) /\ Text(Saved) = Text(chLineBuf) /\ (Clean(chLineBuf) => chLineBuf = Saved)
    BY SavedEnded, SavedLine
  <2>4. Repeats <=> newest = chLineBuf
    BY <1>4 DEF Repeats
  <2> HIDE DEF newest, n
  <2>5. newest = chLineBuf => pushed[n] = Text(chLineBuf) /\ chLineBuf = Saved
    BY <2>2, <2>3
  <2>6. pushed[n] = Text(chLineBuf) /\ chLineBuf = Saved => newest = Saved
    BY <2>2, <2>3, SameText
  <2> QED BY <1>2, <1>4, <2>4, <2>5, <2>6 DEF n
<1> QED BY <1>3, <1>4

LEMMA AcceptsHistory ==
    ASSUME Ranges, HistoryFollows, Accepts
    PROVE  HistoryFollows'
<1> DEFINE text == Text(chLineBuf)
           n == Len(pushed)
           full == hwHistoryCount >= HistoryLines
           slot == IF full THEN HistoryLines - 1 ELSE hwHistoryCount
           from(h) == IF full THEN h + 1 ELSE h
<1>1. hwLinePosition = strlen(chLineBuf) /\ push_history
      /\ pushed' = IF pushed # <<>> /\ pushed[Len(pushed)] = text /\ chLineBuf = Saved
                   THEN pushed ELSE Append(pushed, text)
  BY DEF Accepts
<1>2. CASE Repeats
  <2>1. UNCHANGED <<cHistoryCmdBuf, hwHistoryCount, pushed>>
    BY <1>1, <1>2, RepeatsWhen DEF push_history
  <2> QED BY <2>1 DEF HistoryFollows
<1>3. CASE ~Repeats
  <2>1. pushed' = Append(pushed, text)
    BY <1>1, <1>3, RepeatsWhen
  <2>2. /\ cHistoryCmdBuf' = [h \in 0..HistoryLines - 1 |-> IF h = slot THEN Saved ELSE cHistoryCmdBuf[from(h)]]
        /\ hwHistoryCount' = slot + 1
    BY <1>1, <1>3 DEF push_history
  <2>3. pushed \in Seq(Seq(Char)) /\ text \in Seq(Char) /\ n \in Nat
    BY TextOfLine, LenProperties DEF Ranges, PastOK, LineOK
  <2>4. hwHistoryCount \in 0..HistoryLines /\ hwHistoryCount = Smaller(n, HistoryLines)
    BY DEF Ranges, PastOK, HistoryFollows
  <2>5. Clean(Saved) /\ Text(Saved) = text
    BY <1>1, SavedLine
  <2>6. /\ Len(pushed') = n + 1 /\ pushed'[n + 1] = text
        /\ \A i \in 1..n : pushed'[i] = pushed[i]
    <3> HIDE DEF text, n
    <3> QED BY <2>1, <2>3, AppendProperties DEF n
  <2>7. \A h \in 0..HistoryLines - 1 : cHistoryCmdBuf'[h] = IF h = slot THEN Saved ELSE cHistoryCmdBuf[from(h)]
    <3> HIDE DEF slot, from
    <3> QED BY <2>2
  <2>8. /\ slot \in 0..HistoryLines - 1 /\ slot + 1 = Smaller(n + 1, HistoryLines)
        /\ \A h \in 0..slot - 1 : from(h) \in 0..hwHistoryCount - 1 /\ h \in 0..HistoryLines - 1
        /\ \A h \in 0..slot - 1 : n - hwHistoryCount + (from(h) + 1) = n + 1 - (slot + 1) + (h + 1)
                                /\ n - hwHistoryCount + (from(h) + 1) \in 1..n
    <3> DEFINE c == hwHistoryCount
    <3>1. n \in Nat /\ c \in 0..HistoryLines /\ c = IF n < HistoryLines THEN n ELSE HistoryLines
      BY <2>3, <2>4 DEF Smaller
    <3> HIDE DEF n, c
    <3>2. CASE c >= HistoryLines
      <4>1. slot = HistoryLines - 1 /\ (\A h \in 0..slot - 1 : from(h) = h + 1) /\ c = HistoryLines /\ n >= HistoryLines
        BY <3>1, <3>2, Sizes DEF c
      <4> HIDE DEF slot, from
      <4> QED BY <3>1, <4>1, Sizes DEF c, Smaller
    <3>3. CASE ~(c >= HistoryLines)
      <4>1. slot = c /\ (\A h \in 0..slot - 1 : from(h) = h) /\ c = n /\ n < HistoryLines
        BY <3>1, <3>3, Sizes DEF c
      <4> HIDE DEF slot, from
      <4> QED BY <3>1, <4>1, Sizes DEF c, Smaller
    <3> QED BY <3>2, <3>3
  <2> DEFINE count == slot + 1
  <2>9. hwHistoryCount' = count /\ count = Smaller(n + 1, HistoryLines)
    BY <2>2, <2>8
  <2> HIDE DEF text, n, full, slot, from, count
  <2>10. ASSUME NEW h \in 0..slot
         PROVE  Clean(cHistoryCmdBuf'[h]) /\ Text(cHistoryCmdBuf'[h]) = pushed'[n + 1 - count + (h + 1)]
    <3>1. CASE h = slot
      <4>1. cHistoryCmdBuf'[h] = Saved
        BY <2>7, <2>8, <3>1
      <4>2. n + 1 - count + (h + 1) = n + 1
        BY <2>3, <2>8, <3>1, Sizes DEF count
      <4> QED BY <2>5, <2>6, <4>1, <4>2
    <3>2. CASE h # slot
      <4>1. h \in 0..slot - 1
        BY <2>8, <3>2, Sizes
      <4>2. cHistoryCmdBuf'[h] = cHistoryCmdBuf[from(h)] /\ from(h) \in 0..hwHistoryCount - 1
        BY <2>7, <2>8, <3>2, <4>1
      <4>3. Clean(cHistoryCmdBuf[from(h)])
        BY <4>2 DEF HistoryFollows
      <4>4. Text(cHistoryCmdBuf[from(h)]) = pushed[n - hwHistoryCount + (from(h) + 1)]
        <5>1. from(h) + 1 \in 1..hwHistoryCount /\ from(h) + 1 - 1 = from(h)
          BY <2>4, <4>2
        <5>2. \A i \in 1..hwHistoryCount : Text(cHistoryCmdBuf[i - 1]) = pushed[n - hwHistoryCount + i]
          BY DEF HistoryFollows, n
        <5>3. PICK g \in 1..hwHistoryCount : g = from(h) + 1 /\ g - 1 = from(h)
          BY <2>4, <4>2, <5>1
        <5>4. Text(cHistoryCmdBuf[g - 1]) = pushed[n - hwHistoryCount + g]
          BY <5>2
        <5> QED BY <2>3, <2>4, <4>2, <5>3, <5>4
      <4>5. pushed'[n + 1 - count + (h + 1)] = pushed[n - hwHistoryCount + (from(h) + 1)]
        BY <2>6, <2>8, <4>1 DEF count
      <4> QED BY <4>2, <4>3, <4>4, <4>5
    <3> QED BY <3>1, <3>2
  <2>11. \A h \in 0..count - 1 : h \in 0..slot
    BY <2>8, Sizes DEF count
  <2>12. \A i \in 1..count : i - 1 \in 0..slot /\ i - 1 + 1 = i
    BY <2>8, Sizes DEF count
  <2>13. \A h \in 0..hwHistoryCount' - 1 : Clean(cHistoryCmdBuf'[h])
    BY <2>9, <2>10, <2>11
  <2>14. hwHistoryCount' = Smaller(Len(pushed'), HistoryLines)
    BY <2>6, <2>9
  <2>15. ASSUME NEW i \in 1..hwHistoryCount'
         PROVE  Text(cHistoryCmdBuf'[i - 1]) = pushed'[Len(pushed') - hwHistoryCount' + i]
    <3>0. Len(pushed') = n + 1 /\ hwHistoryCount' = count /\ n \in Nat /\ count \in Int
      BY <2>3, <2>6, <2>8, <2>9 DEF count
    <3>1. i \in 1..count /\ Len(pushed') - hwHistoryCount' + i = n + 1 - count + i
      BY <3>0
    <3>2. i - 1 \in 0..slot /\ i - 1 + 1 = i
      BY <2>12, <3>1
    <3>3. Text(cHistoryCmdBuf'[i - 1]) = pushed'[n + 1 - count + (i - 1 + 1)]
      BY <2>10, <3>2
    <3> QED BY <3>1, <3>2, <3>3
  <2> QED BY <2>13, <2>14, <2>15 DEF HistoryFollows
<1> QED BY <1>2, <1>3

LEMMA HistoryNext == Ranges /\ HistoryFollows /\ [Next]_vars => HistoryFollows'
<1> SUFFICES ASSUME Ranges, HistoryFollows, [Next]_vars PROVE HistoryFollows'
  OBVIOUS
<1>1. CASE UNCHANGED <<cHistoryCmdBuf, hwHistoryCount, pushed>>
  BY <1>1 DEF HistoryFollows
<1>2. CASE Accepts
  BY <1>2, AcceptsHistory
<1>3. ASSUME NEW key \in Keys, wl_shell_read(key)
      PROVE  UNCHANGED <<cHistoryCmdBuf, hwHistoryCount, pushed>> \/ Accepts
  BY <1>3 DEF wl_shell_read, NoEffect, FunctionKey, Up, Down, Recalls, MovesTo, Enter, Backspace, Type, past
<1> QED BY <1>1, <1>2, <1>3 DEF Next, TopicAgent, wl_shell_set_echo, wl_shell_exec, wl_shell_echo, vars, past

(* For every size of the line and of the history, it holds the newest      *)
(* lines pushed, oldest first: shifting it loses the oldest and no other,  *)
(* and a line is left out when and only when it is the one pushed last and *)
(* the line buffer holds no bytes behind its end.                          *)
THEOREM ShellHistoryKept == Spec => []HistoryKept
<1>1. Init => HistoryFollows
  BY Sizes DEF Init, HistoryFollows, Smaller
<1>2. Ranges /\ HistoryFollows => HistoryKept
  <2> SUFFICES ASSUME Ranges, HistoryFollows PROVE HistoryKept
    OBVIOUS
  <2> DEFINE kept == Newest(pushed, HistoryLines)
             n == hwHistoryCount
  <2>1. pushed \in Seq(Seq(Char)) /\ n = Smaller(Len(pushed), HistoryLines)
    BY DEF Ranges, PastOK, HistoryFollows
  <2> HIDE DEF n
  <2>2. /\ kept \in Seq(Seq(Char)) /\ Len(kept) = n
        /\ \A i \in 1..n : kept[i] = pushed[Len(pushed) - n + i]
    <3>1. HistoryLines \in Nat
      BY Sizes
    <3>2. /\ Newest(pushed, HistoryLines) \in Seq(Seq(Char))
          /\ Len(Newest(pushed, HistoryLines)) = Smaller(Len(pushed), HistoryLines)
          /\ \A i \in 1..Len(Newest(pushed, HistoryLines)) :
                Newest(pushed, HistoryLines)[i] = pushed[Len(pushed) - Len(Newest(pushed, HistoryLines)) + i]
      BY <2>1, <3>1, NewestKept
    <3> HIDE DEF kept
    <3>3. kept = Newest(pushed, HistoryLines)
      BY DEF kept
    <3> QED BY <2>1, <3>2, <3>3
  <2> HIDE DEF kept
  <2>3. kept = [i \in 1..n |-> kept[i]]
    BY <2>2
  <2>4. \A i \in 1..n : kept[i] = Text(cHistoryCmdBuf[i - 1])
    BY <2>2 DEF HistoryFollows, n
  <2> QED BY <2>3, <2>4 DEF HistoryKept, n, kept
<1> QED BY <1>1, <1>2, ShellRanges, HistoryNext, PTL DEF Spec
=============================================================================
