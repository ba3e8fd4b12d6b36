--------------------------- MODULE TransferProofs ---------------------------
(***************************************************************************)
(* Proofs about YmodemTransfer, for every list of files, every number of   *)
(* block numbers, retries and faults, and all kinds of faults.             *)
(***************************************************************************)
EXTENDS YmodemTransfer, SequenceTheorems, TLAPS

-----------------------------------------------------------------------------
(* In which order the answers stand in a queue, gaps allowed. *)
Has(q, a) == \E i \in 1..Len(q) : q[i] = a
Two(q, a, b) == \E i, j \in 1..Len(q) : i < j /\ q[i] = a /\ q[j] = b
Three(q, a, b, c) == \E i, j, k \in 1..Len(q) : i < j /\ j < k /\ q[i] = a /\ q[j] = b /\ q[k] = c

LEMMA OrderEmpty == \A a, b, c : ~Has(<<>>, a) /\ ~Two(<<>>, a, b) /\ ~Three(<<>>, a, b, c)
<1>1. Len(<<>>) = 0 /\ 1..0 = {}
  BY EmptySeq
<1> QED BY <1>1 DEF Has, Two, Three

LEMMA OrderBehind ==
    ASSUME NEW S, NEW q \in Seq(S), NEW x \in S
    PROVE  \A a, b, c :
             /\ Has(Append(q, x), a) => Has(q, a) \/ x = a
             /\ Two(Append(q, x), a, b) => Two(q, a, b) \/ (x = b /\ Has(q, a))
             /\ Three(Append(q, x), a, b, c) => Three(q, a, b, c) \/ (x = c /\ Two(q, a, b))
<1> DEFINE p == Append(q, x)
           n == Len(q)
<1>1. /\ Len(p) = n + 1 /\ n \in Nat
      /\ \A i \in 1..n : p[i] = q[i]
      /\ p[n + 1] = x
  BY AppendProperties, LenProperties
<1> HIDE DEF p
<1>2. \A i \in 1..n + 1 : i \in 1..n \/ i = n + 1
  BY <1>1
<1>3. \A i, j \in 1..n + 1 : i < j => i \in 1..n
  BY <1>1
<1> HIDE DEF n
<1> TAKE a, b, c
<1>4. Has(p, a) => Has(q, a) \/ x = a
  BY <1>1, <1>2 DEF Has, n
<1>5. Two(p, a, b) => Two(q, a, b) \/ (x = b /\ Has(q, a))
  BY <1>1, <1>2, <1>3 DEF Has, Two, n
<1>6. Three(p, a, b, c) => Three(q, a, b, c) \/ (x = c /\ Two(q, a, b))
  BY <1>1, <1>2, <1>3 DEF Two, Three, n
<1> QED BY <1>4, <1>5, <1>6 DEF p

LEMMA OrderTaken ==
    ASSUME NEW S, NEW q \in Seq(S), q # <<>>
    PROVE  \A a, b, c :
             /\ Has(Tail(q), a) => Has(q, a)
             /\ Two(Tail(q), a, b) => Two(q, a, b)
             /\ Three(Tail(q), a, b, c) => Three(q, a, b, c)
             /\ Head(q) = a => Has(q, a)
             /\ Head(q) = a /\ Has(Tail(q), b) => Two(q, a, b)
             /\ Head(q) = a /\ Two(Tail(q), b, c) => Three(q, a, b, c)
<1> DEFINE p == Tail(q)
           n == Len(q)
<1>1. /\ Len(p) = n - 1 /\ n \in Nat \ {0}
      /\ \A i \in 1..Len(p) : p[i] = q[i + 1]
      /\ Head(q) = q[1]
  BY HeadTailProperties, EmptySeq
<1> HIDE DEF p
<1>2. 1 \in 1..n /\ \A i \in 1..Len(p) : i + 1 \in 1..n /\ 1 < i + 1
  BY <1>1
<1>3. \A i, j \in 1..Len(p) : i < j => i + 1 < j + 1
  OBVIOUS
<1> HIDE DEF n
<1> TAKE a, b, c
<1>4. Has(p, a) => Has(q, a)
  BY <1>1, <1>2 DEF Has, n
<1>5. Two(p, a, b) => Two(q, a, b)
  BY <1>1, <1>2, <1>3 DEF Two, n
<1>6. Three(p, a, b, c) => Three(q, a, b, c)
  <2> HAVE Three(p, a, b, c)
  <2>1. PICK i, j, k \in 1..Len(p) : i < j /\ j < k /\ p[i] = a /\ p[j] = b /\ p[k] = c
    BY DEF Three
  <2>2. i + 1 < j + 1 /\ j + 1 < k + 1 /\ q[i + 1] = a /\ q[j + 1] = b /\ q[k + 1] = c
    BY <1>1, <1>3, <2>1
  <2>3. i + 1 \in 1..n /\ j + 1 \in 1..n /\ k + 1 \in 1..n
    BY <1>2
  <2> QED BY <2>2, <2>3 DEF Three, n
<1>7. Head(q) = a => Has(q, a)
  BY <1>1, <1>2 DEF Has, n
<1>8. Head(q) = a /\ Has(p, b) => Two(q, a, b)
  BY <1>1, <1>2 DEF Has, Two, n
<1>9. Head(q) = a /\ Two(p, b, c) => Three(q, a, b, c)
  <2> HAVE Head(q) = a /\ Two(p, b, c)
  <2>1. PICK i, j \in 1..Len(p) : i < j /\ p[i] = b /\ p[j] = c
    BY DEF Two
  <2>2. i + 1 < j + 1 /\ 1 < i + 1 /\ q[1] = a /\ q[i + 1] = b /\ q[j + 1] = c
    BY <1>1, <1>2, <1>3, <2>1
  <2>3. i + 1 \in 1..n /\ j + 1 \in 1..n /\ 1 \in 1..n
    BY <1>2
  <2> QED BY <2>2, <2>3 DEF Three, n
<1> QED BY <1>4, <1>5, <1>6, <1>7, <1>8, <1>9 DEF p

-----------------------------------------------------------------------------
(* What the sender is going to read: the queue q, then an ACK if ack, then *)
(* a C if c, which the receiver has decided on and not yet written.        *)
NoAck(q, ack) == ~Has(q, "ACK") /\ ~ack
NoC(q, c) == ~Has(q, "C") /\ ~c
NoCThenAck(q, ack) == ~Two(q, "C", "ACK") /\ (Has(q, "C") => ~ack)
NoCThenC(q, c) == ~Two(q, "C", "C") /\ (Has(q, "C") => ~c)
NoAckThenC(q, ack, c) == ~Two(q, "ACK", "C") /\ (Has(q, "ACK") => ~c) /\ ~(ack /\ c)
NoAckCAck(q, ack) == ~Three(q, "ACK", "C", "ACK") /\ (Two(q, "ACK", "C") => ~ack)
NoAckCC(q, c) == ~Three(q, "ACK", "C", "C") /\ (Two(q, "ACK", "C") => ~c)

(* Nothing is added to it that was not there. *)
AcksKept(q, ack, q2, ack2) ==
    /\ NoAck(q, ack) => NoAck(q2, ack2)
    /\ NoCThenAck(q, ack) => NoCThenAck(q2, ack2)
    /\ NoAckCAck(q, ack) => NoAckCAck(q2, ack2)
CsKept(q, ack, c, q2, ack2, c2) ==
    /\ NoC(q, c) => NoC(q2, c2)
    /\ NoCThenC(q, c) => NoCThenC(q2, c2)
    /\ NoAckThenC(q, ack, c) => NoAckThenC(q2, ack2, c2)
    /\ NoAckCC(q, c) => NoAckCC(q2, c2)

Written(q, x, q2) == q2 = q \/ q2 = Append(q, x) \/ q2 = Append(q, "NOISE")

LEMMA WrittenOrder ==
    ASSUME NEW q \in Seq(Reply), NEW x \in Reply, NEW q2, Written(q, x, q2)
    PROVE  \A a, b, e \in {"C", "ACK"} :
             /\ Has(q2, a) => Has(q, a) \/ x = a
             /\ Two(q2, a, b) => Two(q, a, b) \/ (x = b /\ Has(q, a))
             /\ Three(q2, a, b, e) => Three(q, a, b, e) \/ (x = e /\ Two(q, a, b))
<1>1. CASE q2 = q
  BY <1>1
<1>2. CASE q2 = Append(q, x)
  BY <1>2, OrderBehind
<1>3. CASE q2 = Append(q, "NOISE")
  <2>1. "NOISE" \in Reply
    BY DEF Reply
  <2> QED BY <1>3, <2>1, OrderBehind
<1> QED BY <1>1, <1>2, <1>3 DEF Written

(* What was decided on is written. *)
LEMMA AcksWritten ==
    ASSUME NEW q \in Seq(Reply), NEW x \in Reply, NEW q2, Written(q, x, q2),
           NEW ack \in BOOLEAN, NEW ack2 \in BOOLEAN, x = "ACK" => ack, ~ack2
    PROVE  AcksKept(q, ack, q2, ack2)
BY WrittenOrder DEF AcksKept, NoAck, NoCThenAck, NoAckCAck

LEMMA CsWritten ==
    ASSUME NEW q \in Seq(Reply), NEW x \in Reply, NEW q2, Written(q, x, q2),
           NEW ack \in BOOLEAN, NEW ack2 \in BOOLEAN, x = "ACK" => ack, ~ack2,
           NEW c \in BOOLEAN, NEW c2 \in BOOLEAN, x = "C" => c /\ ~ack, c2 => c /\ x # "C"
    PROVE  CsKept(q, ack, c, q2, ack2, c2)
BY WrittenOrder DEF CsKept, NoC, NoCThenC, NoAckThenC, NoAckCC

(* The sender reads one byte of it. *)
LEMMA ReadKeeps ==
    ASSUME NEW q \in Seq(Reply), q # <<>>, NEW ack \in BOOLEAN, NEW c \in BOOLEAN
    PROVE  AcksKept(q, ack, Tail(q), ack) /\ CsKept(q, ack, c, Tail(q), ack, c)
BY OrderTaken DEF AcksKept, CsKept, NoAck, NoC, NoCThenAck, NoCThenC, NoAckThenC, NoAckCAck, NoAckCC

LEMMA CTaken ==
    ASSUME NEW q \in Seq(Reply), q # <<>>, Head(q) = "C", NEW ack \in BOOLEAN, NEW c \in BOOLEAN
    PROVE  /\ ~NoC(q, c)
           /\ NoCThenAck(q, ack) => NoAck(Tail(q), ack)
           /\ NoCThenC(q, c) => NoC(Tail(q), c)
BY OrderTaken DEF NoAck, NoC, NoCThenAck, NoCThenC

LEMMA AckTaken ==
    ASSUME NEW q \in Seq(Reply), q # <<>>, Head(q) = "ACK", NEW ack \in BOOLEAN, NEW c \in BOOLEAN
    PROVE  /\ ~NoAck(q, ack)
           /\ NoAckCAck(q, ack) => NoCThenAck(Tail(q), ack)
           /\ NoAckCC(q, c) => NoCThenC(Tail(q), c)
           /\ NoAckThenC(q, ack, c) => NoC(Tail(q), c)
BY OrderTaken DEF NoAck, NoC, NoCThenAck, NoCThenC, NoAckThenC, NoAckCAck, NoAckCC

LEMMA NothingToRead ==
    ASSUME NEW ack, NEW c
    PROVE  NoCThenAck(<<>>, ack) /\ NoCThenC(<<>>, c) /\ NoAckCAck(<<>>, ack) /\ NoAckCC(<<>>, c)
BY OrderEmpty DEF NoCThenAck, NoCThenC, NoAckCAck, NoAckCC

(* Without a C no ACK comes behind one. *)
LEMMA WithoutC ==
    ASSUME NEW q, NEW c, NoC(q, c), NEW ack \in BOOLEAN
    PROVE  NoCThenAck(q, ack) /\ NoCThenC(q, c) /\ NoAckThenC(q, ack, c) /\ NoAckCAck(q, ack) /\ NoAckCC(q, c)
BY DEF NoC, NoCThenAck, NoCThenC, NoAckThenC, NoAckCAck, NoAckCC, Has, Two, Three

LEMMA WithoutAck ==
    ASSUME NEW q, NEW ack, NoAck(q, ack)
    PROVE  /\ \A ack2 \in BOOLEAN : NoAckCAck(q, ack2)
           /\ \A c \in BOOLEAN : NoAckCC(q, c)
           /\ NoCThenAck(q, ack) /\ NoAckThenC(q, ack, FALSE)
BY DEF NoAck, NoC, NoCThenAck, NoAckThenC, NoAckCAck, NoAckCC, Has, Two, Three

-----------------------------------------------------------------------------
(* What a read of the receiver leaves in its queue: the packets that are   *)
(* in it are packets that were, in their order, and not the first arrival. *)
ReadsOff(q, q2) ==
    /\ q # <<>> /\ q2 \in Seq(Arrival) /\ Len(q2) <= Len(q)
    /\ \A i \in 1..Len(q2) : q2[i].kind = "PACKET" =>
          Len(q) - Len(q2) + i \in 2..Len(q) /\ q2[i] = q[Len(q) - Len(q2) + i]

LEMMA ArrivalKinds ==
    /\ \A x \in Arrival : /\ x.kind = "PACKET" => x.num \in 0..Blocks - 1 /\ x.item \in Item /\ x = Packet(x.num, x.item)
                          /\ x.kind = "RESIDUE" => x.left \in 1..MaxResidue
                          /\ x.kind \in {"PACKET", "RESIDUE", "BADCRC", "SHORT", "EOT", "CAN"}
    /\ \A left \in 1..MaxResidue : Residue(left) \in Arrival /\ Residue(left).kind = "RESIDUE"
    /\ \A num \in 0..Blocks - 1, item \in Item :
          Packet(num, item) \in Arrival /\ Packet(num, item).kind = "PACKET"
    /\ \A kind \in {"BADCRC", "SHORT", "EOT", "CAN"} : Control(kind) \in Arrival /\ Control(kind).kind = kind
<1>1. ASSUME NEW x \in Arrival
      PROVE  /\ x.kind = "PACKET" => x.num \in 0..Blocks - 1 /\ x.item \in Item /\ x = Packet(x.num, x.item)
             /\ x.kind = "RESIDUE" => x.left \in 1..MaxResidue
             /\ x.kind \in {"PACKET", "RESIDUE", "BADCRC", "SHORT", "EOT", "CAN"}
  <2>1. CASE x \in [kind : {"PACKET"}, num : 0..Blocks - 1, item : Item]
    BY <2>1 DEF Packet
  <2>2. CASE x \in [kind : {"RESIDUE"}, left : 1..MaxResidue]
    BY <2>2
  <2>3. CASE x \in [kind : {"BADCRC", "SHORT", "EOT", "CAN"}]
    BY <2>3
  <2> QED BY <2>1, <2>2, <2>3 DEF Arrival
<1>2. \A left \in 1..MaxResidue : Residue(left) \in Arrival /\ Residue(left).kind = "RESIDUE"
  BY DEF Residue, Arrival
<1>3. \A num \in 0..Blocks - 1, item \in Item : Packet(num, item) \in Arrival /\ Packet(num, item).kind = "PACKET"
  BY DEF Packet, Arrival
<1>4. \A kind \in {"BADCRC", "SHORT", "EOT", "CAN"} : Control(kind) \in Arrival /\ Control(kind).kind = kind
  BY DEF Control, Arrival
<1> QED BY <1>1, <1>2, <1>3, <1>4

LEMMA TailOff ==
    ASSUME NEW q \in Seq(Arrival), q # <<>>
    PROVE  ReadsOff(q, Tail(q))
<1> DEFINE t == Tail(q)
<1>1. t \in Seq(Arrival) /\ Len(t) = Len(q) - 1 /\ Len(q) \in Nat /\ \A i \in 1..Len(t) : t[i] = q[i + 1]
  BY HeadTailProperties, LenProperties
<1> HIDE DEF t
<1>2. \A i \in 1..Len(t) : Len(q) - Len(t) + i = i + 1 /\ i + 1 \in 2..Len(q)
  BY <1>1
<1>3. Len(t) <= Len(q)
  BY <1>1
<1> QED BY <1>1, <1>2, <1>3 DEF ReadsOff, t

LEMMA ResidueOff ==
    ASSUME NEW q \in Seq(Arrival), q # <<>>, NEW left \in 1..MaxResidue
    PROVE  ReadsOff(q, <<Residue(left)>> \o Tail(q))
<1> DEFINE t == Tail(q)
           r == <<Residue(left)>> \o t
<1>1. t \in Seq(Arrival) /\ Len(t) = Len(q) - 1 /\ Len(q) \in Nat \ {0} /\ \A i \in 1..Len(t) : t[i] = q[i + 1]
  BY HeadTailProperties, EmptySeq
<1> HIDE DEF t
<1>2. /\ <<Residue(left)>> \in Seq(Arrival) /\ Len(<<Residue(left)>>) = 1
      /\ <<Residue(left)>>[1] = Residue(left)
  BY ArrivalKinds
<1>3. /\ r \in Seq(Arrival) /\ Len(r) = 1 + Len(t)
      /\ \A i \in 1..1 + Len(t) : r[i] = IF i <= 1 THEN <<Residue(left)>>[i] ELSE t[i - 1]
  BY <1>1, <1>2, ConcatProperties
<1> HIDE DEF r
<1>4. Len(r) = Len(q)
  BY <1>1, <1>3
<1>5. ASSUME NEW i \in 1..Len(r), r[i].kind = "PACKET"
      PROVE  Len(q) - Len(r) + i \in 2..Len(q) /\ r[i] = q[Len(q) - Len(r) + i]
  <2>1. Len(q) - Len(r) + i = i /\ i \in 1..Len(q)
    BY <1>1, <1>4
  <2>2. i # 1
    <3> SUFFICES ASSUME i = 1 PROVE FALSE
      OBVIOUS
    <3>1. r[1] = Residue(left)
      BY <1>1, <1>2, <1>3
    <3> QED BY <1>5, <3>1, ArrivalKinds
  <2>3. r[i] = t[i - 1] /\ i - 1 \in 1..Len(t) /\ (i - 1) + 1 = i
    BY <1>1, <1>3, <2>1, <2>2
  <2>4. t[i - 1] = q[i]
    BY <1>1, <2>3
  <2> QED BY <1>1, <2>1, <2>2, <2>3, <2>4
<1>6. Len(r) <= Len(q)
  BY <1>1, <1>4
<1> QED BY <1>3, <1>5, <1>6 DEF ReadsOff, r, t

LEMMA BrokenOff ==
    ASSUME NEW q \in Seq(Arrival), q # <<>>
    PROVE  ReadsOff(q, Broken(q))
<1>1. MaxResidue \in 1..MaxResidue
  BY LineAssumption
<1> QED BY <1>1, TailOff, ResidueOff DEF Broken

LEMMA SwallowOff ==
    ASSUME NEW q \in Seq(Arrival), q # <<>>
    PROVE  ReadsOff(q, Broken(Tail(q)))
<1> DEFINE t == Tail(q)
           b == Broken(t)
<1>1. t \in Seq(Arrival) /\ Len(t) = Len(q) - 1 /\ Len(q) \in Nat \ {0} /\ \A i \in 1..Len(t) : t[i] = q[i + 1]
  BY HeadTailProperties, EmptySeq
<1> HIDE DEF t
<1>2. CASE t = <<>>
  <2>1. b = <<>>
    BY <1>2 DEF Broken
  <2>2. Len(b) = 0 /\ 1..0 = {} /\ b \in Seq(Arrival)
    BY <2>1, EmptySeq
  <2> QED BY <1>1, <2>1, <2>2 DEF ReadsOff, t
<1>3. CASE t # <<>>
  <2>1. ReadsOff(t, b)
    BY <1>1, <1>3, BrokenOff
  <2> HIDE DEF b
  <2>2. b \in Seq(Arrival) /\ Len(b) \in Nat /\ Len(b) <= Len(t)
    BY <2>1, LenProperties DEF ReadsOff
  <2>3. ASSUME NEW i \in 1..Len(b), b[i].kind = "PACKET"
        PROVE  Len(q) - Len(b) + i \in 2..Len(q) /\ b[i] = q[Len(q) - Len(b) + i]
    <3> DEFINE k == Len(t) - Len(b) + i
    <3>1. k \in 2..Len(t) /\ b[i] = t[k]
      BY <2>1, <2>3 DEF ReadsOff
    <3>2. Len(q) - Len(b) + i = k + 1
      BY <1>1, <2>2
    <3> HIDE DEF k
    <3>3. k \in 1..Len(t) /\ k + 1 \in 2..Len(q)
      BY <1>1, <3>1
    <3> QED BY <1>1, <3>1, <3>2, <3>3
  <2>4. Len(b) <= Len(q)
    BY <1>1, <2>2
  <2> QED BY <2>2, <2>3, <2>4 DEF ReadsOff, b, t
<1> QED BY <1>2, <1>3

LEMMA UnreadOff ==
    ASSUME NEW q \in Seq(Arrival), q # <<>>, NEW left \in 1..MaxResidue
    PROVE  ReadsOff(q, Unread(left) \o Tail(q))
<1>1. CASE left = 1
  <2>1. Tail(q) \in Seq(Arrival)
    BY HeadTailProperties
  <2>2. <<>> \o Tail(q) = Tail(q)
    BY <2>1, ConcatEmptySeq
  <2> QED BY <1>1, <2>2, TailOff DEF Unread
<1>2. CASE left # 1
  <2>1. left - 1 \in 1..MaxResidue
    BY <1>2, LineAssumption
  <2> QED BY <1>2, <2>1, ResidueOff DEF Unread
<1> QED BY <1>1, <1>2

LEMMA PackageFacts ==
    ASSUME toReceiver \in Seq(Arrival), NEW package \in Packages
    PROVE  /\ package.as \in Outcome
           /\ toReceiver = <<>> => package.as = "TIMEOUT" /\ package.rest = <<>>
           /\ toReceiver # <<>> => ReadsOff(toReceiver, package.rest)
           /\ package.as \in {"CPL", "DUPLICATE", "INCORRECT_PACKET_NUMBER"} =>
                toReceiver # <<>> /\ Head(toReceiver).kind = "PACKET"
           /\ package.as = "CPL" => Head(toReceiver).num = rNum /\ package.rest = Tail(toReceiver)
<1> USE DEF Package, Outcome
<1>1. CASE toReceiver = <<>>
  BY <1>1 DEF Packages
<1>2. CASE toReceiver # <<>>
  <2> DEFINE head == Head(toReceiver)
             after == Tail(toReceiver)
  <2>1. /\ head \in Arrival
        /\ ReadsOff(toReceiver, after) /\ ReadsOff(toReceiver, Broken(after))
    BY <1>2, HeadTailProperties, TailOff, SwallowOff
  <2>2. CASE head.kind = "PACKET"
    <3>1. package = Package(Checked(head.num), after)
      BY <1>2, <2>2 DEF Packages
    <3>2. /\ Checked(head.num) \in {"CPL", "DUPLICATE", "INCORRECT_PACKET_NUMBER"}
          /\ Checked(head.num) = "CPL" => head.num = rNum
      BY DEF Checked
    <3> QED BY <1>2, <2>1, <2>2, <3>1, <3>2
  <2>3. CASE head.kind = "BADCRC"
    <3>1. package = Package("INCORRECT_CHECKOUT", after)
      BY <1>2, <2>3 DEF Packages
    <3> QED BY <1>2, <2>1, <3>1
  <2>4. CASE head.kind = "SHORT"
    <3>1. PICK as \in {"TIMEOUT", "INCORRECT_CHECKOUT"} : package = Package(as, Broken(after))
      BY <1>2, <2>4 DEF Packages
    <3>2. package.as = as /\ package.rest = Broken(after)
      BY <3>1
    <3> QED BY <1>2, <2>1, <3>2
  <2>5. CASE head.kind = "RESIDUE"
    <3>1. PICK as \in {"INCORRECT_HEADER", "EOT", "CAN", "TIMEOUT", "INCORRECT_NBlk"} :
             \/ package = Package(as, Unread(head.left) \o after)
             \/ package = Package(as, Broken(after))
      BY <1>2, <2>5 DEF Packages
    <3>3. package.as = as /\ (package.rest = Unread(head.left) \o after \/ package.rest = Broken(after))
      <4>1. CASE package = Package(as, Unread(head.left) \o after)
        BY <4>1
      <4>2. CASE package = Package(as, Broken(after))
        BY <4>2
      <4> QED BY <3>1, <4>1, <4>2
    <3>2. ReadsOff(toReceiver, Unread(head.left) \o after)
      BY <1>2, <2>1, <2>5, ArrivalKinds, UnreadOff
    <3> QED BY <1>2, <2>1, <3>2, <3>3
  <2>6. CASE head.kind \in {"EOT", "CAN"}
    <3>1. package = Package(head.kind, after)
      BY <1>2, <2>6 DEF Packages
    <3> QED BY <1>2, <2>1, <2>6, <3>1
  <2> QED BY <2>1, <2>2, <2>3, <2>4, <2>5, <2>6, ArrivalKinds
<1> QED BY <1>1, <1>2

LEMMA RawFacts ==
    ASSUME toReceiver \in Seq(Arrival), NEW raw \in RawBytes
    PROVE  /\ raw.byte \in {"TIMEOUT", "EOT", "CAN", "OTHER"}
           /\ toReceiver = <<>> => raw.byte = "TIMEOUT" /\ raw.rest = <<>>
           /\ toReceiver # <<>> => ReadsOff(toReceiver, raw.rest) /\ raw.byte # "TIMEOUT"
<1> USE DEF Raw
<1>1. CASE toReceiver = <<>>
  BY <1>1 DEF RawBytes
<1>2. CASE toReceiver # <<>>
  <2> DEFINE head == Head(toReceiver)
             after == Tail(toReceiver)
  <2>1. /\ head \in Arrival
        /\ ReadsOff(toReceiver, after) /\ ReadsOff(toReceiver, Broken(toReceiver))
    BY <1>2, HeadTailProperties, TailOff, BrokenOff
  <2>2. CASE head.kind = "RESIDUE"
    <3>1. \E byte \in {"EOT", "CAN", "OTHER"} : raw = Raw(byte, Unread(head.left) \o after)
      BY <1>2, <2>2 DEF RawBytes
    <3>2. ReadsOff(toReceiver, Unread(head.left) \o after)
      BY <1>2, <2>1, <2>2, ArrivalKinds, UnreadOff
    <3> QED BY <1>2, <3>1, <3>2
  <2>3. CASE head.kind \in {"EOT", "CAN"}
    <3>1. raw = Raw(head.kind, after)
      BY <1>2, <2>3 DEF RawBytes
    <3> QED BY <1>2, <2>1, <2>3, <3>1
  <2>4. CASE head.kind \notin {"RESIDUE", "EOT", "CAN"}
    <3>1. raw = Raw("OTHER", Broken(toReceiver))
      BY <1>2, <2>4 DEF RawBytes
    <3> QED BY <1>2, <2>1, <3>1
  <2> QED BY <2>2, <2>3, <2>4
<1> QED BY <1>1, <1>2

-----------------------------------------------------------------------------
(* The line. *)
Arrives(q, what, q2) ==
    q2 = q \/ \E x \in Arrival : (x = what \/ x.kind # "PACKET") /\ q2 = Append(q, x)

LEMMA FitsLine ==
    ASSUME NEW S, NEW q \in Seq(S), NEW x \in S, NEW cap \in Nat, Len(q) <= cap
    PROVE  /\ Fits(q, x, cap) \in Seq(S) /\ Len(Fits(q, x, cap)) <= cap
           /\ Fits(q, x, cap) = q \/ Fits(q, x, cap) = Append(q, x)
<1>1. Len(q) \in Nat /\ Append(q, x) \in Seq(S) /\ Len(Append(q, x)) = Len(q) + 1
  BY AppendProperties, LenProperties
<1>2. Len(q) < cap => Len(Append(q, x)) <= cap
  BY <1>1
<1> QED BY <1>1, <1>2 DEF Fits

LEMMA FaultCounts ==
    ASSUME faults \in 0..MaxFaults, NEW kind, Fault(kind) PROVE faults' \in 0..MaxFaults
BY LineAssumption DEF Fault

LEMMA ToReceiverWritten ==
    ASSUME LineTypeOK, NEW what \in Arrival, WriteToReceiver(what)
    PROVE  /\ toReceiver' \in Seq(Arrival) /\ Len(toReceiver') <= LineCap
           /\ faults' \in 0..MaxFaults
           /\ Arrives(toReceiver, what, toReceiver')
<1>1. /\ toReceiver \in Seq(Arrival) /\ Len(toReceiver) <= LineCap
      /\ faults \in 0..MaxFaults /\ LineCap \in Nat
  BY LineAssumption DEF LineTypeOK
<1>2. faults' \in 0..MaxFaults
  BY <1>1, FaultCounts DEF WriteToReceiver
<1>3. ASSUME NEW x \in Arrival, x = what \/ x.kind # "PACKET", toReceiver' = Fits(toReceiver, x, LineCap)
      PROVE  toReceiver' \in Seq(Arrival) /\ Len(toReceiver') <= LineCap /\ Arrives(toReceiver, what, toReceiver')
  BY <1>1, <1>3, FitsLine DEF Arrives
<1>4. /\ Control("BADCRC") \in Arrival /\ Control("BADCRC").kind # "PACKET"
      /\ Control("SHORT") \in Arrival /\ Control("SHORT").kind # "PACKET"
      /\ \A left \in 1..MaxResidue : Residue(left) \in Arrival /\ Residue(left).kind # "PACKET"
  BY ArrivalKinds
<1>5. 1 \in 1..MaxResidue
  BY LineAssumption
<1>6. CASE toReceiver' = toReceiver
  BY <1>1, <1>2, <1>6 DEF Arrives
<1>7. CASE toReceiver' # toReceiver
  <2>1. \E x \in Arrival : (x = what \/ x.kind # "PACKET") /\ toReceiver' = Fits(toReceiver, x, LineCap)
    BY <1>4, <1>5, <1>7 DEF WriteToReceiver
  <2> QED BY <1>2, <1>3, <2>1
<1> QED BY <1>6, <1>7

LEMMA ToSenderWritten ==
    ASSUME LineTypeOK, NEW byte \in Reply, WriteToSender(byte)
    PROVE  /\ toSender' \in Seq(Reply) /\ Len(toSender') <= ReplyCap
           /\ faults' \in 0..MaxFaults
           /\ Written(toSender, byte, toSender')
<1>1. /\ toSender \in Seq(Reply) /\ Len(toSender) <= ReplyCap
      /\ faults \in 0..MaxFaults /\ ReplyCap \in Nat
  BY LineAssumption DEF LineTypeOK
<1>2. faults' \in 0..MaxFaults
  BY <1>1, FaultCounts DEF WriteToSender
<1>3. "NOISE" \in Reply
  BY DEF Reply
<1>4. toSender' = toSender \/ toSender' = Fits(toSender, byte, ReplyCap) \/ toSender' = Fits(toSender, "NOISE", ReplyCap)
  BY DEF WriteToSender
<1> QED BY <1>1, <1>2, <1>3, <1>4, FitsLine DEF Written

-----------------------------------------------------------------------------
(* Type correctness. What a side's next write can be depends on its state, *)
(* and so does how far its counters have come.                             *)
ReceiverTypes ==
    /\ ReceiverTypeOK
    /\ rState \in {"SEND_C1", "SEND_C2"} => rByte = "C"
    /\ rState = "SEND_ACK1" => rByte = "ACK"
    /\ rState = "SEND_NAK" => rByte \in {"NAK", "CAN", "OTHER"}
    /\ rState = "SEND_ANSWER" => rByte \in {"ACK", "NAK", "CAN", "OTHER"}

SenderTypes ==
    /\ SenderTypeOK
    /\ sState \notin {"START", "GONE"} => sTry <= MaxTry
    /\ sState \in {"SEND_PACK_PATH", "RECEIVE_ACK1", "RECEIVE_C2"} => sPart = 0

Types == LineTypeOK /\ ReceiverTypes /\ SenderTypes

LEMMA PartsType == \A f \in FileId : Parts(f) \in Nat /\ (f # 0 => Parts(f) > 0)
<1>1. \A f \in 1..Len(Files) : Files[f] \in Nat \ {0}
  BY FilesAssumption, ElementOfSeq
<1> QED BY <1>1, FilesAssumption DEF Parts, FileId

(* A block number goes on to the next, or around. *)
LEMMA NextNumber == \A n \in 0..Blocks - 1 : (n + 1) % Blocks \in 0..Blocks - 1
BY BlocksAssumption

LEMMA HeadPacket ==
    ASSUME toReceiver \in Seq(Arrival), toReceiver # <<>>, Head(toReceiver).kind = "PACKET"
    PROVE  Head(toReceiver).num \in 0..Blocks - 1 /\ Head(toReceiver).item \in Item
<1>1. Head(toReceiver) \in Arrival
  BY HeadTailProperties
<1> QED BY <1>1, ArrivalKinds

LEMMA WritesTypes ==
    ASSUME LineTypeOK, ReceiverTypeOK, NEW byte \in Reply, WriteToSender(byte), UNCHANGED toReceiver
    PROVE  LineTypeOK'
BY ToSenderWritten DEF LineTypeOK

LEMMA ReadTypes ==
    ASSUME LineTypeOK, ReceiverTypeOK, NEW package \in Packages, ReadPackage(package)
    PROVE  /\ LineTypeOK'
           /\ rLast' = package.as /\ rLast' \in Outcome
           /\ rBlk' \in 0..Blocks - 1 /\ rWait' \in 0..RTicks
           /\ package.as = "CPL" => Head(toReceiver).item \in Item
<1>1. toReceiver \in Seq(Arrival) /\ Len(toReceiver) \in Nat /\ Len(toReceiver) <= LineCap /\ LineCap \in Nat
  BY LenProperties, LineAssumption DEF LineTypeOK
<1>2. /\ package.as \in Outcome
      /\ toReceiver = <<>> => package.rest = <<>>
      /\ toReceiver # <<>> => ReadsOff(toReceiver, package.rest)
      /\ package.as = "CPL" => toReceiver # <<>> /\ Head(toReceiver).kind = "PACKET"
  BY <1>1, PackageFacts
<1>3. package.rest \in Seq(Arrival) /\ Len(package.rest) <= Len(toReceiver)
  <2>1. CASE toReceiver = <<>>
    <3>1. package.rest = toReceiver
      BY <1>2, <2>1
    <3> QED BY <1>1, <3>1
  <2>2. CASE toReceiver # <<>>
    BY <1>2, <2>2 DEF ReadsOff
  <2> QED BY <2>1, <2>2
<1>4. LineTypeOK'
  <2>1. Len(package.rest) \in Nat
    BY <1>3, LenProperties
  <2>2. Len(package.rest) <= LineCap
    BY <1>1, <1>3, <2>1
  <2> QED BY <1>3, <2>2 DEF LineTypeOK, ReadPackage
<1>5. rBlk' \in 0..Blocks - 1
  BY <1>1, HeadPacket DEF ReadPackage, ReceiverTypeOK
<1>6. rWait' \in 0..RTicks
  BY RTicksAssumption DEF ReadPackage
<1>7. package.as = "CPL" => Head(toReceiver).item \in Item
  BY <1>1, <1>2, HeadPacket
<1> QED BY <1>2, <1>4, <1>5, <1>6, <1>7 DEF ReadPackage

LEMMA TailTypes ==
    ASSUME LineTypeOK, toReceiver # <<>>, toReceiver' = Tail(toReceiver), UNCHANGED toSender,
           NEW kind, Fault(kind)
    PROVE  LineTypeOK'
<1>1. toReceiver \in Seq(Arrival) /\ Len(toReceiver) \in Nat /\ Len(toReceiver) <= LineCap /\ LineCap \in Nat
  BY LenProperties, LineAssumption DEF LineTypeOK
<1>2. Tail(toReceiver) \in Seq(Arrival) /\ Len(Tail(toReceiver)) = Len(toReceiver) - 1
  BY <1>1, HeadTailProperties
<1>3. Len(Tail(toReceiver)) <= LineCap
  BY <1>1, <1>2
<1> QED BY <1>2, <1>3, FaultCounts DEF LineTypeOK

LEMMA StoredTypes ==
    ASSUME ReceiverTypeOK, NEW item \in Item, FileDataStored(item)
    PROVE  rGot' \in Seq(Item) /\ Len(rGot') <= Parts(rFile') /\ rFile' \in FileId /\ rEnd' \in BOOLEAN
<1>1. /\ rGot \in Seq(Item) /\ Len(rGot) \in Nat /\ Len(rGot) <= Parts(rFile)
      /\ Parts(rFile) \in Nat /\ rFile \in FileId /\ rEnd \in BOOLEAN
  BY LenProperties, PartsType DEF ReceiverTypeOK
<1>2. rFile' = rFile /\ rEnd' \in BOOLEAN
  BY <1>1 DEF FileDataStored
<1>3. CASE Len(rGot) < Parts(rFile)
  <2>1. rGot' = Append(rGot, item)
    BY <1>3 DEF FileDataStored
  <2>2. rGot' \in Seq(Item) /\ Len(rGot') = Len(rGot) + 1
    BY <1>1, <2>1, AppendProperties
  <2> QED BY <1>1, <1>2, <1>3, <2>2
<1>4. CASE ~(Len(rGot) < Parts(rFile))
  BY <1>1, <1>2, <1>4 DEF FileDataStored
<1> QED BY <1>3, <1>4

LEMMA PathTypes ==
    ASSUME ReceiverTypeOK, NEW item \in Item, FilePathTaken(item)
    PROVE  /\ rGot' \in Seq(Item) /\ Len(rGot') <= Parts(rFile') /\ rFile' \in FileId /\ rEnd' \in BOOLEAN
           /\ rEmpty' \in BOOLEAN
<1>1. CASE item.part = 0 /\ item.file # 0
  <2>1. rFile' \in FileId /\ rGot' = <<>> /\ rEnd' = FALSE /\ rEmpty' = FALSE
    BY <1>1 DEF FilePathTaken, Item
  <2>2. rGot' \in Seq(Item) /\ Len(rGot') = 0
    BY <2>1, EmptySeq
  <2>3. Parts(rFile') \in Nat
    BY <2>1, PartsType
  <2>4. Len(rGot') <= Parts(rFile')
    BY <2>2, <2>3
  <2> QED BY <2>1, <2>2, <2>4
<1>2. CASE ~(item.part = 0 /\ item.file # 0)
  <2>1. UNCHANGED <<rFile, rGot, rEnd>> /\ rEmpty' = TRUE
    BY <1>2 DEF FilePathTaken, store
  <2> QED BY <2>1 DEF ReceiverTypeOK
<1> QED BY <1>1, <1>2

LEMMA ReceiverTypesKept ==
    ASSUME LineTypeOK, ReceiverTypes, ReceiverNext
    PROVE  LineTypeOK' /\ ReceiverTypes'
<1> USE DEF ReceiverTypes, GoesTo, Restarts, keepPackage, store
<1>1. CASE ReceiverBegins
  <2>1. UNCHANGED line
    BY <1>1 DEF ReceiverBegins
  <2>2. LineTypeOK'
    BY <2>1 DEF line, LineTypeOK
  <2>3. ReceiverTypes'
    BY <1>1, BlocksAssumption DEF ReceiverBegins, ReceiverTypeOK
  <2> QED BY <2>2, <2>3
<1>2. CASE SendC
  <2>1. rByte = "C" /\ rByte \in Reply
    BY <1>2 DEF SendC, Reply
  <2>2. LineTypeOK'
    BY <1>2, <2>1, WritesTypes DEF SendC, Writes
  <2>3. ReceiverTypes'
    BY <1>2, RTicksAssumption DEF SendC, Writes, ReceiverTypeOK
  <2> QED BY <2>2, <2>3
<1>3. CASE ReceivePackPath
  <2>1. PICK package \in Packages :
          /\ ReadPackage(package)
          /\ \/ /\ package.as = "CPL"
                /\ FilePathTaken(Head(toReceiver).item)
                /\ rByte' = "ACK" /\ rState' = "SEND_ACK1"
                /\ UNCHANGED rVerdict
             \/ /\ package.as # "CPL"
                /\ rState' \in {"START", "RECEIVE_PACK_PATH"}
                /\ UNCHANGED <<rByte, rEmpty, store, rVerdict>>
    BY <1>3 DEF ReceivePackPath
  <2>2. /\ LineTypeOK'
        /\ rLast' \in Outcome /\ rBlk' \in 0..Blocks - 1 /\ rWait' \in 0..RTicks
        /\ package.as = "CPL" => Head(toReceiver).item \in Item
    BY <2>1, ReadTypes
  <2>3. UNCHANGED <<rTry, rNum>>
    BY <1>3 DEF ReceivePackPath
  <2>4. CASE package.as = "CPL"
    <3>1. /\ rGot' \in Seq(Item) /\ Len(rGot') <= Parts(rFile') /\ rFile' \in FileId
          /\ rEnd' \in BOOLEAN /\ rEmpty' \in BOOLEAN
      BY <2>1, <2>2, <2>4, PathTypes
    <3> QED BY <2>1, <2>2, <2>3, <2>4, <3>1 DEF ReceiverTypeOK
  <2>5. CASE package.as # "CPL"
    BY <2>1, <2>2, <2>3, <2>5 DEF ReceiverTypeOK
  <2> QED BY <2>4, <2>5
<1>4. CASE FilePathRefused
  <2>1. LineTypeOK'
    BY <1>4, TailTypes DEF FilePathRefused
  <2>2. ReceiverTypes'
    BY <1>4, BlocksAssumption, RTicksAssumption DEF FilePathRefused, ReceiverTypeOK, Outcome
  <2> QED BY <2>1, <2>2
<1>5. CASE SendAck1
  <2>1. rByte = "ACK" /\ rByte \in Reply
    BY <1>5 DEF SendAck1, Reply
  <2>2. LineTypeOK'
    BY <1>5, <2>1, WritesTypes DEF SendAck1, Writes
  <2>3. (rNum + 1) % Blocks \in 0..Blocks - 1
    BY NextNumber DEF ReceiverTypeOK
  <2>4. ReceiverTypes'
    BY <1>5, <2>3, RTicksAssumption DEF SendAck1, Writes, ReceiverTypeOK
  <2> QED BY <2>2, <2>4
<1>6. CASE ReceivePackData
  <2>1. PICK package \in Packages :
          /\ ReadPackage(package)
          /\ \/ /\ package.as = "CPL"
                /\ FileDataStored(Head(toReceiver).item)
                /\ rNum' = (rNum + 1) % Blocks
                /\ rByte' = "ACK" /\ rTry' = 0 /\ rState' = "SEND_ANSWER"
             \/ /\ package.as = "CAN"
                /\ rByte' = "ACK" /\ rState' = "SEND_ANSWER"
                /\ UNCHANGED <<store, rNum, rTry>>
             \/ /\ package.as = "EOT"
                /\ rByte' = "NAK" /\ rState' = "SEND_NAK"
                /\ UNCHANGED <<store, rNum, rTry>>
             \/ /\ package.as \notin {"CPL", "CAN", "EOT"}
                /\ rTry' = rTry + 1 /\ rByte' \in {"ACK", "NAK", "CAN"} /\ rState' = "SEND_ANSWER"
                /\ UNCHANGED <<store, rNum>>
    BY <1>6 DEF ReceivePackData, Retry
  <2>2. /\ LineTypeOK'
        /\ rLast' \in Outcome /\ rBlk' \in 0..Blocks - 1 /\ rWait' \in 0..RTicks
        /\ package.as = "CPL" => Head(toReceiver).item \in Item
    BY <2>1, ReadTypes
  <2>3. UNCHANGED <<rEmpty, rVerdict>>
    BY <1>6 DEF ReceivePackData
  <2>4. CASE package.as = "CPL"
    <3>1. rGot' \in Seq(Item) /\ Len(rGot') <= Parts(rFile') /\ rFile' \in FileId /\ rEnd' \in BOOLEAN
      BY <2>1, <2>2, <2>4, StoredTypes
    <3>2. (rNum + 1) % Blocks \in 0..Blocks - 1
      BY NextNumber DEF ReceiverTypeOK
    <3> QED BY <2>1, <2>2, <2>3, <2>4, <3>1, <3>2 DEF ReceiverTypeOK
  <2>5. CASE package.as # "CPL"
    <3>1. UNCHANGED <<rFile, rGot, rEnd, rNum>> /\ rTry' \in Nat
      BY <2>1, <2>5 DEF ReceiverTypeOK
    <3>2. \/ rState' = "SEND_NAK" /\ rByte' = "NAK"
          \/ rState' = "SEND_ANSWER" /\ rByte' \in {"ACK", "NAK", "CAN"}
      BY <2>1, <2>5
    <3> QED BY <2>2, <2>3, <3>1, <3>2 DEF ReceiverTypeOK
  <2> QED BY <2>4, <2>5
<1>7. CASE FileDataFails
  <2>1. LineTypeOK'
    BY <1>7, TailTypes DEF FileDataFails
  <2>2. ReceiverTypes'
    BY <1>7, RTicksAssumption DEF FileDataFails, ReceiverTypeOK, Outcome
  <2> QED BY <2>1, <2>2
<1>8. CASE SendAnswer
  <2>1. LineTypeOK'
    BY <1>8, WritesTypes DEF SendAnswer, Writes, Reply
  <2>2. ReceiverTypes'
    BY <1>8, RTicksAssumption DEF SendAnswer, Writes, ReceiverTypeOK
  <2> QED BY <2>1, <2>2
<1>9. CASE SendNak
  <2>1. LineTypeOK'
    BY <1>9, WritesTypes DEF SendNak, Writes, Reply
  <2>2. ReceiverTypes'
    BY <1>9, RTicksAssumption DEF SendNak, Writes, ReceiverTypeOK
  <2> QED BY <2>1, <2>2
<1>10. ASSUME NEW stay \in {"RECIVE_EOT", "SEND_ANSWER", "SEND_NAK"}, ReadsEot(stay), faults' \in 0..MaxFaults
       PROVE  LineTypeOK' /\ ReceiverTypes'
  <2>1. PICK raw \in RawBytes :
          /\ toReceiver' = raw.rest
          /\ \/ /\ raw.byte = "TIMEOUT"
                /\ rState' = "START" /\ rVerdict' = "failed"
                /\ UNCHANGED rByte
             \/ /\ raw.byte = "EOT"
                /\ rByte' = "EOT" /\ rState' = "SEND_ACK2"
                /\ UNCHANGED rVerdict
             \/ /\ raw.byte \notin {"TIMEOUT", "EOT"}
                /\ rByte' = raw.byte /\ rState' = stay
                /\ UNCHANGED rVerdict
    BY <1>10 DEF ReadsEot
  <2>2. rWait' = 0 /\ UNCHANGED <<toSender, rTry, rNum, rBlk, rLast, rEmpty, rFile, rGot, rEnd>>
    BY <1>10 DEF ReadsEot
  <2>3. toReceiver \in Seq(Arrival) /\ Len(toReceiver) \in Nat /\ Len(toReceiver) <= LineCap /\ LineCap \in Nat
    BY LenProperties, LineAssumption DEF LineTypeOK
  <2>4. /\ raw.byte \in {"TIMEOUT", "EOT", "CAN", "OTHER"}
        /\ toReceiver = <<>> => raw.rest = toReceiver
        /\ toReceiver # <<>> => ReadsOff(toReceiver, raw.rest)
    BY <2>3, RawFacts
  <2>5. raw.rest \in Seq(Arrival) /\ Len(raw.rest) <= Len(toReceiver)
    <3>1. CASE toReceiver = <<>>
      <4>1. raw.rest = toReceiver
        BY <2>4, <3>1
      <4> QED BY <2>3, <4>1
    <3>2. CASE toReceiver # <<>>
      BY <2>4, <3>2 DEF ReadsOff
    <3> QED BY <3>1, <3>2
  <2>6. Len(raw.rest) \in Nat
    BY <2>5, LenProperties
  <2>7. Len(raw.rest) <= LineCap
    BY <2>3, <2>5, <2>6
  <2>8. LineTypeOK'
    BY <1>10, <2>1, <2>2, <2>5, <2>7 DEF LineTypeOK
  <2>9. \/ rState' = "START" /\ rByte' = rByte
        \/ rState' = "SEND_ACK2" /\ rByte' = "EOT"
        \/ rState' \in {"RECIVE_EOT", "SEND_ANSWER", "SEND_NAK"} /\ rByte' \in {"CAN", "OTHER"}
    BY <2>1, <2>4
  <2>10. rVerdict' \in {"none", "ok", "failed"}
    BY <2>1 DEF ReceiverTypeOK
  <2>11. ReceiverTypes'
    BY <2>2, <2>9, <2>10, RTicksAssumption DEF ReceiverTypeOK
  <2> QED BY <2>8, <2>11
<1>11. CASE ReciveEot
  BY <1>10, <1>11 DEF ReciveEot, LineTypeOK
<1>12. CASE SendAnswerRefused
  <2>1. toSender \in Seq(Reply) /\ Len(toSender) <= ReplyCap /\ ReplyCap \in Nat
    BY LineAssumption DEF LineTypeOK
  <2>2. rByte \in Reply \cup {"OTHER"} /\ "NOISE" \in Reply
    BY <1>12 DEF SendAnswerRefused, Reply
  <2>3. toSender' \in Seq(Reply) /\ Len(toSender') <= ReplyCap
    BY <1>12, <2>1, <2>2, FitsLine DEF SendAnswerRefused
  <2>4. LineTypeOK'
    BY <1>12, <2>3, FaultCounts DEF SendAnswerRefused, LineTypeOK
  <2>5. ReceiverTypes'
    BY <1>12, RTicksAssumption DEF SendAnswerRefused, ReceiverTypeOK
  <2> QED BY <2>4, <2>5
<1>13. CASE SendAnswerRefusedTwice
  <2>1. faults' \in 0..MaxFaults
    BY <1>13, LineAssumption DEF SendAnswerRefusedTwice, LineTypeOK
  <2> QED BY <1>10, <1>13, <2>1 DEF SendAnswerRefusedTwice
<1>14. CASE SendNakRefused
  <2>1. faults' \in 0..MaxFaults
    BY <1>14, FaultCounts DEF SendNakRefused, LineTypeOK
  <2> QED BY <1>10, <1>14, <2>1 DEF SendNakRefused
<1>15. CASE SendAck2
  <2>1. LineTypeOK'
    BY <1>15, WritesTypes DEF SendAck2, Writes, Reply
  <2>2. ReceiverTypes'
    BY <1>15, RTicksAssumption DEF SendAck2, Writes, ReceiverTypeOK
  <2> QED BY <2>1, <2>2
<1> QED BY <1>1, <1>2, <1>3, <1>4, <1>5, <1>6, <1>7, <1>8, <1>9, <1>11, <1>12, <1>13, <1>14, <1>15 DEF ReceiverNext

LEMMA SenderReadTypes ==
    ASSUME LineTypeOK, NEW state, NEW byte \in Heard, Reads(state, byte), UNCHANGED faults \/ Fault("app")
    PROVE  LineTypeOK' /\ sState = state /\ sWait' = 0
<1>1. toSender \in Seq(Reply) /\ Len(toSender) \in Nat /\ Len(toSender) <= ReplyCap /\ ReplyCap \in Nat
  BY LenProperties, LineAssumption DEF LineTypeOK
<1>2. CASE UNCHANGED toSender
  BY <1>2, FaultCounts DEF Reads, LineTypeOK
<1>3. CASE toSender # <<>> /\ toSender' = Tail(toSender)
  <2>1. Tail(toSender) \in Seq(Reply) /\ Len(Tail(toSender)) = Len(toSender) - 1
    BY <1>1, <1>3, HeadTailProperties
  <2>2. Len(Tail(toSender)) <= ReplyCap
    BY <1>1, <2>1
  <2> QED BY <1>3, <2>1, <2>2, FaultCounts DEF Reads, LineTypeOK
<1> QED BY <1>2, <1>3 DEF Reads

LEMMA SenderTypesKept ==
    ASSUME LineTypeOK, SenderTypes, SenderNext
    PROVE  LineTypeOK' /\ SenderTypes'
<1> USE DEF SenderGoesTo, SenderEnds, Stays
<1>a. /\ sTry \in 0..MaxTry + 1 /\ MaxTry \in Nat \ {0}
      /\ sFile \in FileId /\ Parts(sFile) \in Nat /\ sPart \in 0..Parts(sFile) + 1
      /\ sNum \in 0..Blocks - 1 /\ (sNum + 1) % Blocks \in 0..Blocks - 1
      /\ 0 \in 0..Blocks - 1 /\ 0 \in 0..STicks /\ sWait \in 0..STicks
      /\ sVerdict \in {"none", "ok", "failed"}
  BY TryAssumption, PartsType, NextNumber, BlocksAssumption, SenderAssumption DEF SenderTypes, SenderTypeOK
<1>1. CASE SenderBegins
  <2>1. UNCHANGED line
    BY <1>1 DEF SenderBegins
  <2>2. LineTypeOK'
    BY <2>1 DEF line, LineTypeOK
  <2>3. SenderTypes'
    BY <1>1, <1>a DEF SenderBegins, SenderTypeOK, SenderTypes
  <2> QED BY <2>2, <2>3
<1>2. CASE ReceiveC1
  <2>1. PICK byte \in Heard :
          /\ Reads("RECEIVE_C1", byte)
          /\ \/ /\ sFile' = NextFile /\ sPart' = 0
                /\ \/ sState' = "SEND_PACK_PATH" /\ UNCHANGED <<faults, sVerdict>>
                   \/ sState' = "START" /\ sVerdict' = "failed" /\ Fault("app")
             \/ /\ sState' \in {"START", "RECEIVE_C1"}
                /\ UNCHANGED <<faults, sVerdict, sFile, sPart>>
    BY <1>2 DEF ReceiveC1, Reads
  <2>2. LineTypeOK' /\ sState = "RECEIVE_C1" /\ sWait' = 0
    BY <2>1, SenderReadTypes
  <2>3. UNCHANGED <<sTry, sNum>>
    BY <1>2 DEF ReceiveC1
  <2>4. sTry <= MaxTry
    BY <2>2 DEF SenderTypes
  <2>5. sFile' \in FileId /\ sPart' \in 0..Parts(sFile') + 1
    <3>1. NextFile \in FileId
      BY <1>a, FilesAssumption DEF NextFile, FileId
    <3>2. Parts(NextFile) \in Nat
      BY <3>1, PartsType
    <3>3. CASE sFile' = NextFile /\ sPart' = 0
      BY <3>1, <3>2, <3>3
    <3>4. CASE UNCHANGED <<sFile, sPart>>
      BY <1>a, <3>4
    <3> QED BY <2>1, <3>3, <3>4
  <2>6. /\ sState' \in {"SEND_PACK_PATH", "START", "RECEIVE_C1"}
        /\ sState' = "SEND_PACK_PATH" => sPart' = 0
        /\ sVerdict' \in {"none", "ok", "failed"}
    BY <1>a, <2>1
  <2> QED BY <1>a, <2>2, <2>3, <2>4, <2>5, <2>6 DEF SenderTypes, SenderTypeOK
<1>3. CASE SendPackage
  <2>1. sState \in {"SEND_PACK_PATH", "SEND_PACK_DATA"}
    BY <1>3 DEF SendPackage
  <2>2. \E what \in Arrival : WriteToReceiver(what)
    <3>1. [file |-> sFile, part |-> 0] \in Item /\ [file |-> sFile, part |-> sPart] \in Item
      BY <1>a DEF Item
    <3>2. /\ Packet(0, [file |-> sFile, part |-> 0]) \in Arrival
          /\ Packet(sNum, [file |-> sFile, part |-> sPart]) \in Arrival
      BY <1>a, <3>1, ArrivalKinds
    <3> QED BY <1>3, <3>2 DEF SendPackage
  <2>3. LineTypeOK'
    BY <1>3, <2>2, ToReceiverWritten DEF SendPackage, LineTypeOK
  <2>4. SenderTypes'
    BY <1>3, <1>a DEF SendPackage, SenderTypes, SenderTypeOK
  <2> QED BY <2>3, <2>4
<1>4. CASE ReceiveAck1
  <2>1. PICK byte \in Heard : Reads("RECEIVE_ACK1", byte)
    BY <1>4 DEF ReceiveAck1
  <2>2. /\ UNCHANGED <<faults, sTry, sFile, sPart>>
        /\ sNum' \in {sNum, (sNum + 1) % Blocks}
    BY <1>4 DEF ReceiveAck1
  <2>3. LineTypeOK' /\ sState = "RECEIVE_ACK1" /\ sWait' = 0
    BY <2>1, <2>2, SenderReadTypes
  <2>4. \/ sState' \in {"RECEIVE_ACK1", "RECEIVE_C2"} /\ sVerdict' = sVerdict
        \/ sState' = "START" /\ sVerdict' \in {"ok", "failed"}
    BY <1>4, <2>3 DEF ReceiveAck1
  <2>5. sTry <= MaxTry /\ sPart = 0
    BY <2>3 DEF SenderTypes
  <2> QED BY <1>a, <2>2, <2>3, <2>4, <2>5 DEF SenderTypes, SenderTypeOK
<1>5. CASE ReceiveC2
  <2>1. PICK byte \in Heard :
          /\ Reads("RECEIVE_C2", byte)
          /\ \/ /\ sPart' = sPart + 1
                /\ \/ sState' = "SEND_PACK_DATA" /\ UNCHANGED <<faults, sVerdict>>
                   \/ sState' = "START" /\ sVerdict' = "failed" /\ Fault("app")
             \/ sState' = "START" /\ sVerdict' = "failed" /\ UNCHANGED <<faults, sPart>>
             \/ sState' = sState /\ UNCHANGED <<faults, sPart, sVerdict>>
    BY <1>5 DEF ReceiveC2, FillsBuffer
  <2>2. LineTypeOK' /\ sState = "RECEIVE_C2" /\ sWait' = 0
    BY <2>1, SenderReadTypes
  <2>3. sTry <= MaxTry /\ sPart = 0 /\ UNCHANGED <<sTry, sNum, sFile>>
    BY <1>5, <2>2 DEF SenderTypes, ReceiveC2
  <2>4. sPart' \in 0..Parts(sFile) + 1 /\ (sState' = "RECEIVE_C2" => sPart' = 0)
    BY <1>a, <2>1, <2>2, <2>3
  <2>5. sState' \in {"SEND_PACK_DATA", "START", "RECEIVE_C2"} /\ sVerdict' \in {"none", "ok", "failed"}
    BY <1>a, <2>1, <2>2
  <2> QED BY <1>a, <2>2, <2>3, <2>4, <2>5 DEF SenderTypes, SenderTypeOK
<1>6. CASE ReceiveAnswer
  <2>1. PICK byte \in Heard :
          /\ Reads("RECEIVE_ANSWER", byte)
          /\ \/ /\ sTry' = 0
                /\ sNum' = (sNum + 1) % Blocks
                /\ \/ sPart < Parts(sFile) /\ sPart' = sPart + 1
                   \/ UNCHANGED sPart
                /\ \/ sState' \in {"SEND_PACK_DATA", "SEND_EOT1"} /\ UNCHANGED <<faults, sVerdict>>
                   \/ sState' = "START" /\ sVerdict' = "failed" /\ Fault("app")
             \/ /\ sTry' = sTry + 1
                /\ \/ sState' = "START" /\ sVerdict' = "failed"
                   \/ sTry + 1 <= MaxTry /\ sState' = "SEND_PACK_DATA" /\ UNCHANGED sVerdict
                /\ UNCHANGED <<faults, sNum, sPart>>
             \/ /\ \/ sState' = "START" /\ sVerdict' = "failed"
                   \/ sState' = sState /\ UNCHANGED sVerdict
                /\ UNCHANGED <<faults, sTry, sNum, sPart>>
    BY <1>6 DEF ReceiveAnswer, FillsBuffer
  <2>2. LineTypeOK' /\ sState = "RECEIVE_ANSWER" /\ sWait' = 0
    BY <2>1, SenderReadTypes
  <2>3. sTry <= MaxTry /\ UNCHANGED sFile
    BY <1>6, <2>2 DEF SenderTypes, ReceiveAnswer
  <2>4. sPart' \in 0..Parts(sFile) + 1
    <3>1. CASE sPart < Parts(sFile) /\ sPart' = sPart + 1
      BY <1>a, <3>1
    <3>2. CASE UNCHANGED sPart
      BY <1>a, <3>2
    <3> QED BY <2>1, <3>1, <3>2
  <2>5. /\ sState' \in {"SEND_PACK_DATA", "SEND_EOT1", "START", "RECEIVE_ANSWER"}
        /\ sVerdict' \in {"none", "ok", "failed"}
    BY <1>a, <2>1, <2>2
  <2>6. sNum' \in 0..Blocks - 1
    BY <1>a, <2>1
  <2>7. sTry' \in 0..MaxTry + 1 /\ (sState' # "START" => sTry' <= MaxTry)
    <3>1. CASE sTry' = 0
      BY <1>a, <3>1
    <3>2. CASE sTry' = sTry + 1 /\ (sState' = "START" \/ sTry + 1 <= MaxTry)
      BY <1>a, <2>3, <3>2
    <3>3. CASE UNCHANGED sTry
      BY <1>a, <2>3, <3>3
    <3> QED BY <2>1, <3>1, <3>2, <3>3
  <2> QED BY <1>a, <2>2, <2>3, <2>4, <2>5, <2>6, <2>7 DEF SenderTypes, SenderTypeOK
<1>7. CASE SendEot
  <2>1. Control("EOT") \in Arrival
    BY ArrivalKinds
  <2>2. LineTypeOK'
    BY <1>7, <2>1, ToReceiverWritten DEF SendEot, LineTypeOK
  <2>3. SenderTypes'
    BY <1>7, <1>a DEF SendEot, SenderTypes, SenderTypeOK
  <2> QED BY <2>2, <2>3
<1>8. CASE ReceiveNak
  <2>1. PICK byte \in Heard : Reads("RECEIVE_NAK", byte)
    BY <1>8 DEF ReceiveNak
  <2>2. UNCHANGED <<faults, sTry, sNum, sFile, sPart>>
    BY <1>8 DEF ReceiveNak
  <2>3. LineTypeOK' /\ sState = "RECEIVE_NAK" /\ sWait' = 0
    BY <2>1, <2>2, SenderReadTypes
  <2>4. sState' \in {"SEND_EOT2", "START", "RECEIVE_NAK"} /\ sVerdict' \in {sVerdict, "failed"}
    BY <1>8, <2>3 DEF ReceiveNak
  <2> QED BY <1>a, <2>2, <2>3, <2>4 DEF SenderTypes, SenderTypeOK
<1>9. CASE ReceiveAck2
  <2>1. PICK byte \in Heard : Reads("RECEIVE_ACK2", byte)
    BY <1>9 DEF ReceiveAck2
  <2>2. UNCHANGED <<faults, sTry, sNum, sFile, sPart>>
    BY <1>9 DEF ReceiveAck2
  <2>3. LineTypeOK' /\ sState = "RECEIVE_ACK2" /\ sWait' = 0
    BY <2>1, <2>2, SenderReadTypes
  <2>4. sState' \in {"START", "RECEIVE_ACK2"} /\ sVerdict' \in {sVerdict, "failed"}
    BY <1>9, <2>3 DEF ReceiveAck2
  <2> QED BY <1>a, <2>2, <2>3, <2>4 DEF SenderTypes, SenderTypeOK
<1> QED BY <1>1, <1>2, <1>3, <1>4, <1>5, <1>6, <1>7, <1>8, <1>9 DEF SenderNext

LEMMA TickTypes ==
    ASSUME Types, Tick
    PROVE  Types'
<1>1. LineTypeOK'
  BY DEF Types, Tick, line, LineTypeOK
<1>2. rWait' \in 0..RTicks
  BY RTicksAssumption DEF Types, Tick, ReceiverWaits, ReceiverTypes, ReceiverTypeOK
<1>3. sWait' \in 0..STicks
  BY SenderAssumption DEF Types, Tick, SenderWaits, SenderTypes, SenderTypeOK
<1>4. ReceiverTypes'
  BY <1>2 DEF Types, Tick, ReceiverTypes, ReceiverTypeOK
<1>5. SenderTypes'
  BY <1>3 DEF Types, Tick, SenderTypes, SenderTypeOK
<1> QED BY <1>1, <1>4, <1>5 DEF Types

LEMMA CancelTypes ==
    ASSUME Types, PeerCancels
    PROVE  Types'
<1>1. LineTypeOK'
  <2>1. Control("CAN") \in Arrival
    BY ArrivalKinds
  <2>2. toReceiver' \in Seq(Arrival) /\ Len(toReceiver') <= LineCap
    BY <2>1, FitsLine, LineAssumption DEF Types, PeerCancels, LineTypeOK
  <2> QED BY <2>2, FaultCounts DEF Types, PeerCancels, LineTypeOK
<1>2. ReceiverTypes'
  BY DEF Types, PeerCancels, receiver, ReceiverTypes, ReceiverTypeOK
<1>3. SenderTypes'
  BY DEF Types, PeerCancels, SenderTypes, SenderTypeOK
<1> QED BY <1>1, <1>2, <1>3 DEF Types

LEMMA TypesHold == Init => Types
<1> SUFFICES ASSUME Init PROVE Types
  OBVIOUS
<1>1. <<>> \in Seq(Arrival) /\ <<>> \in Seq(Reply) /\ <<>> \in Seq(Item) /\ Len(<<>>) = 0
  BY EmptySeq
<1>2. LineTypeOK
  BY <1>1, LineAssumption DEF Init, LineInit, LineTypeOK
<1>3. 0 \in FileId /\ Parts(0) = 0
  BY FilesAssumption DEF FileId, Parts
<1>4. ReceiverTypes
  <2>1. rGot \in Seq(Item) /\ Len(rGot) <= Parts(rFile) /\ rFile \in FileId
    BY <1>1, <1>3 DEF Init, ReceiverInit
  <2>2. 0 \in 0..Blocks - 1 /\ 0 \in 0..RTicks
    BY BlocksAssumption, RTicksAssumption
  <2> QED BY <2>1, <2>2 DEF Init, ReceiverInit, ReceiverTypes, ReceiverTypeOK
<1>5. SenderTypes
  BY <1>3, BlocksAssumption, TryAssumption, SenderAssumption
  DEF Init, SenderInit, SenderTypes, SenderTypeOK
<1> QED BY <1>2, <1>4, <1>5 DEF Types

LEMMA TypesKept == Types /\ [Next]_vars => Types'
<1> SUFFICES ASSUME Types, [Next]_vars PROVE Types'
  OBVIOUS
<1>1. CASE ReceiverNext /\ UNCHANGED sender
  <2>1. LineTypeOK' /\ ReceiverTypes'
    BY <1>1, ReceiverTypesKept DEF Types
  <2>2. SenderTypes'
    BY <1>1 DEF Types, sender, SenderTypes, SenderTypeOK
  <2> QED BY <2>1, <2>2 DEF Types
<1>2. CASE SenderNext /\ UNCHANGED receiver
  <2>1. LineTypeOK' /\ SenderTypes'
    BY <1>2, SenderTypesKept DEF Types
  <2>2. ReceiverTypes'
    BY <1>2 DEF Types, receiver, ReceiverTypes, ReceiverTypeOK
  <2> QED BY <2>1, <2>2 DEF Types
<1>3. CASE PeerCancels
  BY <1>3, CancelTypes
<1>4. CASE Tick
  BY <1>4, TickTypes
<1>5. CASE UNCHANGED vars
  BY <1>5 DEF vars, line, receiver, sender, Types, LineTypeOK,
     ReceiverTypes, ReceiverTypeOK, SenderTypes, SenderTypeOK
<1> QED BY <1>1, <1>2, <1>3, <1>4, <1>5 DEF Next

(* Whatever the line, the callbacks and the timeouts do, neither queue     *)
(* takes more than it holds, no counter, block number or part leaves its   *)
(* range, and the receiver never stores more parts than were announced.    *)
THEOREM TransferTypeOK == Spec => []TypeOK
<1>1. Types => TypeOK
  BY DEF Types, ReceiverTypes, SenderTypes, TypeOK
<1> QED BY <1>1, TypesHold, TypesKept, PTL DEF Spec

-----------------------------------------------------------------------------
(* Delivery. The receiver stores a part only into an open file, and what   *)
(* keeps the parts of another file out is the order of the answers the     *)
(* sender has yet to read: it takes an ACK and then a C before it sends    *)
(* the first data packet, and a C and then an ACK before it sends the next *)
(* path packet.                                                            *)
Path(x) == x.kind = "PACKET" /\ x.item.part = 0
Data(x) == x.kind = "PACKET" /\ x.item.part # 0
HasPath(q) == \E i \in 1..Len(q) : Path(q[i])

(* No packet is queued behind a path packet. *)
PathFinal(q) == \A i, j \in 1..Len(q) : Path(q[i]) /\ i < j => q[j].kind # "PACKET"
(* A path packet is the last arrival, and names file f. *)
PathAwaited(q, f) == \A i \in 1..Len(q) : Path(q[i]) => i = Len(q) /\ q[i].item.file = f
(* All data packets are of file f. *)
OfFile(q, f) == \A i \in 1..Len(q) : Data(q[i]) => q[i].item.file = f
(* Block numbers have not gone around: a packet's is that of its part. *)
Numbered(q) == \A i \in 1..Len(q) : q[i].kind = "PACKET" => q[i].num = q[i].item.part

(* The receiver is in a file; what it is about to write; it has a part to  *)
(* acknowledge.                                                            *)
Open ==
    \/ rState \in {"SEND_C2", "RECEIVE_PACK_DATA", "SEND_ANSWER", "SEND_NAK", "RECIVE_EOT", "SEND_ACK2"}
    \/ rState = "SEND_ACK1" /\ ~rEmpty
AckComes == rState \in {"SEND_ACK1", "SEND_ACK2"} \/ (rState = "SEND_ANSWER" /\ rByte = "ACK")
CComes == rState = "SEND_C2" \/ (rState = "SEND_ACK1" /\ ~rEmpty)
Storing == rState = "SEND_ANSWER" /\ rLast = "CPL"

Between == {"START", "RECEIVE_C1"}                   \* the sender is between two files,
Sending == {"SEND_PACK_DATA", "RECEIVE_ANSWER"}      \* in the data of one
Closing == {"SEND_EOT1", "RECEIVE_NAK", "SEND_EOT2", "RECEIVE_ACK2"}  \* or at its end

(* Block numbers count parts, on the line and on both sides. *)
SenderNumbers ==
    /\ sState \in {"RECEIVE_C1", "SEND_PACK_PATH", "RECEIVE_ACK1"} => sNum = 0
    /\ sState = "RECEIVE_C2" => sNum = 1
    /\ sState \in Sending => sNum = sPart /\ sPart > 0 /\ (sPart <= Parts(sFile) \/ sPart = 1)
ReceiverNumbers ==
    /\ rState \in {"SEND_C1", "RECEIVE_PACK_PATH", "SEND_ACK1"} => rNum = 0
    /\ Open => rFile # 0
    /\ rState = "SEND_ACK1" /\ ~rEmpty => rGot = <<>>
    /\ Open /\ rState # "SEND_ACK1" => rNum = Len(rGot) + 1 \/ Len(rGot) = Parts(rFile)
    /\ rEnd <=> rFile # 0 /\ Len(rGot) = Parts(rFile)
Numbers == Numbered(toReceiver) /\ SenderNumbers /\ ReceiverNumbers

(* A path packet is on its way only while the sender waits for its ACK,    *)
(* and then no other ACK is.                                               *)
PathTalk ==
    /\ PathFinal(toReceiver)
    /\ HasPath(toReceiver) => sState \in {"RECEIVE_ACK1", "GONE"}
    /\ sState = "RECEIVE_ACK1" => PathAwaited(toReceiver, sFile)
    /\ sState = "RECEIVE_ACK1" /\ HasPath(toReceiver) => sWait = 0
    /\ sState = "SEND_PACK_PATH" \/ (sState = "RECEIVE_ACK1" /\ HasPath(toReceiver))
          => NoAck(toSender, AckComes) /\ ~Storing

(* No ACK comes behind the C that would make the sender start a file. *)
AckTalk ==
    /\ sState \in Between \cup {"RECEIVE_C2"} \cup Sending \cup Closing => NoCThenAck(toSender, AckComes)
    /\ sState = "RECEIVE_ACK1" => NoAckCAck(toSender, AckComes)

(* While the receiver is in a file, the sender is in that very one or will *)
(* not find the answers that lead it to send data of another.              *)
FileTalk ==
    Open =>
      /\ OfFile(toReceiver, rFile)
      /\ sState \in Sending => sFile = rFile
      /\ sState # "GONE" /\ (toReceiver # <<>> \/ Storing) => NoC(toSender, CComes)
      /\ sState \in {"SEND_PACK_PATH"} \cup Sending \cup Closing => NoC(toSender, CComes)
      /\ sState = "SEND_PACK_PATH" => toReceiver = <<>>
      /\ sState = "RECEIVE_ACK1" /\ HasPath(toReceiver) => Len(toReceiver) = 1
      /\ sState \in Between \cup {"RECEIVE_C2"} => NoCThenC(toSender, CComes)
      /\ sState = "RECEIVE_ACK1" => NoAckCC(toSender, CComes)
      /\ sState = "RECEIVE_ACK1" => NoAckThenC(toSender, AckComes, CComes) \/ sFile = rFile
      /\ sState = "RECEIVE_C2" => NoC(toSender, CComes) \/ sFile = rFile

Talk == PathTalk /\ AckTalk /\ FileTalk
DeliveryInv == Types /\ Numbers /\ Talk

(* What a read of the receiver does to the packets in its queue. *)
PacketsKept(q, q2) ==
    /\ Numbered(q) => Numbered(q2)
    /\ PathFinal(q) => PathFinal(q2)
    /\ HasPath(q2) => HasPath(q)
    /\ \A f : (OfFile(q, f) => OfFile(q2, f)) /\ (PathAwaited(q, f) => PathAwaited(q2, f))
    /\ q = <<>> => q2 = <<>>
    /\ HasPath(q2) /\ Len(q) = 1 => Len(q2) = 1

LEMMA ReadKeepsPackets ==
    ASSUME NEW q \in Seq(Arrival), NEW q2, ReadsOff(q, q2)
    PROVE  PacketsKept(q, q2) /\ (Len(q) = 1 => ~HasPath(q2))
<1> DEFINE n == Len(q)
           d == n - Len(q2)
<1>1. q # <<>> /\ q2 \in Seq(Arrival) /\ n \in Nat /\ Len(q2) \in Nat /\ d \in Nat /\ Len(q2) + d = n
  BY LenProperties DEF ReadsOff
<1>2. \A i \in 1..Len(q2) : q2[i].kind = "PACKET" => d + i \in 2..n /\ q2[i] = q[d + i]
  BY DEF ReadsOff
<1> HIDE DEF d
<1>3. /\ \A i \in 1..Len(q2) : d + i \in 1..n /\ (d + i = n => i = Len(q2))
      /\ \A i, j \in 1..Len(q2) : i < j => d + i < d + j
  BY <1>1
<1> HIDE DEF n
<1>4. Numbered(q) => Numbered(q2)
  BY <1>2, <1>3 DEF Numbered, n
<1>5. PathFinal(q) => PathFinal(q2)
  <2> SUFFICES ASSUME PathFinal(q), NEW i \in 1..Len(q2), NEW j \in 1..Len(q2), Path(q2[i]), i < j,
                      q2[j].kind = "PACKET"
               PROVE  FALSE
    BY DEF PathFinal
  <2>1. d + i \in 1..n /\ d + j \in 1..n /\ d + i < d + j
    BY <1>3
  <2>2. q2[i] = q[d + i] /\ q2[j] = q[d + j]
    BY <1>2 DEF Path
  <2> QED BY <2>1, <2>2 DEF PathFinal, n
<1>6. HasPath(q2) => HasPath(q)
  BY <1>2, <1>3 DEF HasPath, Path, n
<1>7. ASSUME NEW f PROVE (OfFile(q, f) => OfFile(q2, f)) /\ (PathAwaited(q, f) => PathAwaited(q2, f))
  BY <1>2, <1>3 DEF OfFile, PathAwaited, Path, Data, n
<1>8. Len(q) = 1 => ~HasPath(q2)
  <2>1. n = 1 => \A i : i \notin 2..n
    BY <1>1
  <2> QED BY <1>2, <2>1 DEF HasPath, Path, n
<1> QED BY <1>1, <1>4, <1>5, <1>6, <1>7, <1>8 DEF PacketsKept

LEMMA SamePackets == \A q : PacketsKept(q, q)
BY DEF PacketsKept

(* The receiver takes a path packet. *)
LEMMA PathTaken ==
    ASSUME NEW q \in Seq(Arrival), q # <<>>, Path(Head(q)), PathFinal(q)
    PROVE  /\ ~HasPath(Tail(q)) /\ PathFinal(Tail(q)) /\ Numbered(Tail(q))
           /\ \A f : OfFile(Tail(q), f) /\ PathAwaited(Tail(q), f)
           /\ \A f : PathAwaited(q, f) => Tail(q) = <<>> /\ Head(q).item.file = f
           /\ HasPath(q)
<1> DEFINE t == Tail(q)
<1>1. /\ t \in Seq(Arrival) /\ Len(q) \in Nat \ {0} /\ Len(t) = Len(q) - 1 /\ Head(q) = q[1]
      /\ \A i \in 1..Len(t) : t[i] = q[i + 1]
  BY HeadTailProperties, EmptySeq
<1> HIDE DEF t
<1>2. \A i \in 1..Len(t) : i + 1 \in 1..Len(q) /\ 1 < i + 1
  BY <1>1
<1>3. 1 \in 1..Len(q) /\ Path(q[1])
  BY <1>1
<1>4. \A i \in 1..Len(t) : t[i].kind # "PACKET"
  BY <1>1, <1>2, <1>3 DEF PathFinal
<1>5. /\ ~HasPath(t) /\ PathFinal(t) /\ Numbered(t)
      /\ \A f : OfFile(t, f) /\ PathAwaited(t, f)
  BY <1>4 DEF HasPath, PathFinal, Numbered, OfFile, PathAwaited, Path, Data
<1>6. ASSUME NEW f, PathAwaited(q, f) PROVE t = <<>> /\ Head(q).item.file = f
  <2>1. Len(q) = 1 /\ q[1].item.file = f
    BY <1>3, <1>6 DEF PathAwaited
  <2>2. Len(t) = 0
    BY <1>1, <2>1
  <2> QED BY <1>1, <2>1, <2>2, EmptySeq
<1> QED BY <1>3, <1>5, <1>6 DEF t, HasPath

(* The sender writes: an EOT or a CAN, *)
LEMMA NoPacketArrives ==
    ASSUME NEW q \in Seq(Arrival), NEW what, what.kind # "PACKET", NEW q2, Arrives(q, what, q2)
    PROVE  /\ Numbered(q) => Numbered(q2)
           /\ PathFinal(q) => PathFinal(q2)
           /\ HasPath(q2) => HasPath(q)
           /\ \A f : OfFile(q, f) => OfFile(q2, f)
<1>1. CASE q2 = q
  BY <1>1
<1>2. ASSUME NEW x \in Arrival, x.kind # "PACKET", q2 = Append(q, x)
      PROVE  /\ Numbered(q) => Numbered(q2)
             /\ PathFinal(q) => PathFinal(q2)
             /\ HasPath(q2) => HasPath(q)
             /\ \A f : OfFile(q, f) => OfFile(q2, f)
  <2>1. /\ Len(q) \in Nat /\ Len(q2) = Len(q) + 1 /\ q2[Len(q) + 1] = x
        /\ \A i \in 1..Len(q) : q2[i] = q[i]
    BY <1>2, AppendProperties, LenProperties
  <2>2. \A i \in 1..Len(q2) : q2[i].kind = "PACKET" => i \in 1..Len(q)
    BY <1>2, <2>1
  <2> QED BY <2>1, <2>2 DEF Numbered, PathFinal, HasPath, OfFile, Path, Data
<1> QED BY <1>1, <1>2 DEF Arrives

(* or a packet, with nothing behind a path packet before. *)
LEMMA PacketArrives ==
    ASSUME NEW q \in Seq(Arrival), ~HasPath(q),
           NEW num \in 0..Blocks - 1, NEW item \in Item, NEW q2, Arrives(q, Packet(num, item), q2)
    PROVE  /\ Numbered(q) /\ num = item.part => Numbered(q2)
           /\ PathFinal(q2) /\ PathAwaited(q2, item.file)
           /\ item.part # 0 => ~HasPath(q2)
           /\ \A f : OfFile(q, f) /\ (item.part = 0 \/ item.file = f) => OfFile(q2, f)
           /\ q = <<>> /\ HasPath(q2) => Len(q2) = 1
<1>1. CASE q2 = q
  BY <1>1 DEF HasPath, PathFinal, PathAwaited
<1>2. ASSUME NEW x \in Arrival, x = Packet(num, item) \/ x.kind # "PACKET", q2 = Append(q, x)
      PROVE  /\ Numbered(q) /\ num = item.part => Numbered(q2)
             /\ PathFinal(q2) /\ PathAwaited(q2, item.file)
             /\ item.part # 0 => ~HasPath(q2)
             /\ \A f : OfFile(q, f) /\ (item.part = 0 \/ item.file = f) => OfFile(q2, f)
             /\ q = <<>> /\ HasPath(q2) => Len(q2) = 1
  <2>1. /\ Len(q) \in Nat /\ Len(q2) = Len(q) + 1 /\ q2[Len(q) + 1] = x
        /\ \A i \in 1..Len(q) : q2[i] = q[i]
    BY <1>2, AppendProperties, LenProperties
  <2>2. \A i \in 1..Len(q2) : i \in 1..Len(q) \/ (i = Len(q2) /\ q2[i] = x)
    BY <2>1
  <2>3. x.kind = "PACKET" => x.num = num /\ x.item = item
    BY <1>2 DEF Packet
  <2>4. \A i \in 1..Len(q) : ~Path(q2[i])
    BY <2>1 DEF HasPath
  <2>5. Numbered(q) /\ num = item.part => Numbered(q2)
    BY <2>1, <2>2, <2>3 DEF Numbered
  <2>6. \A i \in 1..Len(q2) : Path(q2[i]) => i = Len(q2) /\ q2[i] = x
    BY <2>2, <2>4
  <2>7. PathFinal(q2)
    <3>1. \A j \in 1..Len(q2) : ~(Len(q2) < j)
      BY <2>1
    <3> QED BY <2>6, <3>1 DEF PathFinal
  <2>8. PathAwaited(q2, item.file) /\ (item.part # 0 => ~HasPath(q2))
    BY <2>3, <2>6 DEF PathAwaited, HasPath, Path
  <2>9. \A f : OfFile(q, f) /\ (item.part = 0 \/ item.file = f) => OfFile(q2, f)
    BY <2>1, <2>2, <2>3 DEF OfFile, Data
  <2>10. q = <<>> => Len(q2) = 1
    BY <2>1, EmptySeq
  <2> QED BY <2>5, <2>7, <2>8, <2>9, <2>10
<1> QED BY <1>1, <1>2 DEF Arrives

-----------------------------------------------------------------------------
(* The steps of the receiver, by what they mean to the sender: it goes on  *)
(* with what it had decided to say, or says less; it decides on an answer  *)
(* to something it read; it accepts a path packet.                         *)
GoesOn ==
    /\ toReceiver' = toReceiver \/ ReadsOff(toReceiver, toReceiver')
    /\ AcksKept(toSender, AckComes, toSender', AckComes')
    /\ Open' => /\ Open /\ rFile' = rFile
                /\ CsKept(toSender, AckComes, CComes, toSender', AckComes', CComes')
    /\ Storing' => Storing

Answers ==
    /\ Open /\ ~CComes /\ ~CComes'
    /\ ReadsOff(toReceiver, toReceiver')
    /\ UNCHANGED <<toSender, rFile>>

Accepts ==
    /\ toReceiver # <<>> /\ Path(Head(toReceiver)) /\ toReceiver' = Tail(toReceiver)
    /\ UNCHANGED toSender
    /\ ~Storing'
    /\ Open' => rFile' = Head(toReceiver).item.file

LEMMA Unsaid ==
    ASSUME NEW q, NEW ack \in BOOLEAN, NEW ack2 \in BOOLEAN, NEW c \in BOOLEAN, NEW c2 \in BOOLEAN,
           ack2 => ack, c2 => c
    PROVE  AcksKept(q, ack, q, ack2) /\ CsKept(q, ack, c, q, ack2, c2)
BY DEF AcksKept, CsKept, NoAck, NoC, NoCThenAck, NoCThenC, NoAckThenC, NoAckCAck, NoAckCC

LEMMA SaidBooleans ==
    /\ AckComes \in BOOLEAN /\ CComes \in BOOLEAN
    /\ AckComes' \in BOOLEAN /\ CComes' \in BOOLEAN
BY DEF AckComes, CComes

(* The receiver writes x and is then about to write no ACK. *)
LEMMA GoesOnWriting ==
    ASSUME LineTypeOK, UNCHANGED toReceiver, NEW x \in Reply, Written(toSender, x, toSender'),
           x = "ACK" => AckComes, ~AckComes', ~Storing',
           Open' => Open /\ rFile' = rFile /\ (x = "C" => CComes /\ ~AckComes) /\ (CComes' => CComes /\ x # "C")
    PROVE  GoesOn
<1>1. toSender \in Seq(Reply)
  BY DEF LineTypeOK
<1>2. AcksKept(toSender, AckComes, toSender', AckComes')
  BY <1>1, SaidBooleans, AcksWritten
<1>3. Open' => CsKept(toSender, AckComes, CComes, toSender', AckComes', CComes')
  BY <1>1, SaidBooleans, CsWritten
<1> QED BY <1>2, <1>3 DEF GoesOn

(* The receiver writes nothing, and is then about to write no ACK. *)
LEMMA GoesOnSilent ==
    ASSUME UNCHANGED toSender, toReceiver' = toReceiver \/ ReadsOff(toReceiver, toReceiver'),
           ~AckComes', ~Storing', Open' => Open /\ rFile' = rFile /\ ~CComes'
    PROVE  GoesOn
<1>1. AcksKept(toSender, AckComes, toSender', AckComes')
  BY SaidBooleans, Unsaid
<1>2. Open' => CsKept(toSender, AckComes, CComes, toSender', AckComes', CComes')
  BY SaidBooleans, Unsaid
<1> QED BY <1>1, <1>2 DEF GoesOn

LEMMA ReceiverWrites ==
    ASSUME LineTypeOK, NEW byte, Writes(byte)
    PROVE  \E x \in Reply : /\ x = IF byte \in Reply THEN byte ELSE "NOISE"
                            /\ Written(toSender, x, toSender')
                            /\ UNCHANGED toReceiver
<1> DEFINE x == IF byte \in Reply THEN byte ELSE "NOISE"
<1>1. x \in Reply
  BY DEF Reply
<1>2. WriteToSender(x) /\ UNCHANGED toReceiver
  BY DEF Writes
<1> HIDE DEF x
<1>3. Written(toSender, x, toSender')
  BY <1>1, <1>2, ToSenderWritten
<1> QED BY <1>1, <1>2, <1>3 DEF x

LEMMA ReceiverStepKinds ==
    ASSUME LineTypeOK, ReceiverTypes, Numbers, ReceiverNext
    PROVE  GoesOn \/ Answers \/ Accepts
<1> USE DEF GoesTo, Restarts, keepPackage, store
<1>a. toReceiver \in Seq(Arrival) /\ toSender \in Seq(Reply)
  BY DEF LineTypeOK
<1>1. CASE ReceiverBegins
  <2>1. UNCHANGED <<toSender, toReceiver>>
    BY <1>1 DEF ReceiverBegins, line
  <2>2. ~Open' /\ ~AckComes' /\ ~Storing'
    BY <1>1 DEF ReceiverBegins, Open, AckComes, Storing
  <2> QED BY <2>1, <2>2, GoesOnSilent
<1>2. CASE SendC
  <2>1. rByte = "C" /\ UNCHANGED rFile
    BY <1>2 DEF SendC, ReceiverTypes
  <2>2. "C" \in Reply /\ Written(toSender, "C", toSender') /\ UNCHANGED toReceiver
    BY <1>2, <2>1, ReceiverWrites DEF SendC, Reply
  <2>3. ~AckComes' /\ ~Storing' /\ ~CComes'
    BY <1>2 DEF SendC, AckComes, CComes, Storing
  <2>4. Open' => Open /\ CComes /\ ~AckComes
    BY <1>2 DEF SendC, Open, AckComes, CComes
  <2> QED BY <2>1, <2>2, <2>3, <2>4, GoesOnWriting
<1>3. CASE ReceivePackPath
  <2>1. PICK package \in Packages :
          /\ ReadPackage(package)
          /\ \/ /\ package.as = "CPL"
                /\ FilePathTaken(Head(toReceiver).item)
                /\ rState' = "SEND_ACK1"
             \/ /\ package.as # "CPL"
                /\ rState' \in {"START", "RECEIVE_PACK_PATH"}
    BY <1>3 DEF ReceivePackPath
  <2>2. toReceiver' = package.rest /\ UNCHANGED toSender /\ rState = "RECEIVE_PACK_PATH"
    BY <1>3, <2>1 DEF ReceivePackPath, ReadPackage
  <2>3. CASE package.as = "CPL"
    <3>1. /\ toReceiver # <<>> /\ Head(toReceiver).kind = "PACKET" /\ Head(toReceiver).num = rNum
          /\ toReceiver' = Tail(toReceiver)
      BY <1>a, <2>2, <2>3, PackageFacts
    <3>2. rNum = 0
      BY <2>2 DEF Numbers, ReceiverNumbers
    <3>3. Head(toReceiver) = toReceiver[1] /\ 1 \in 1..Len(toReceiver)
      BY <1>a, <3>1, HeadTailProperties, EmptySeq
    <3>4. Path(Head(toReceiver))
      BY <3>1, <3>2, <3>3 DEF Numbers, Numbered, Path
    <3>5. ~Storing'
      BY <2>1, <2>3 DEF Storing
    <3>6. Open' => rFile' = Head(toReceiver).item.file
      BY <2>1, <2>3 DEF Open, FilePathTaken
    <3> QED BY <2>2, <3>1, <3>4, <3>5, <3>6 DEF Accepts
  <2>4. CASE package.as # "CPL"
    <3>1. ~Open' /\ ~AckComes' /\ ~Storing'
      BY <2>1, <2>4 DEF Open, AckComes, Storing
    <3>2. toReceiver' = toReceiver \/ ReadsOff(toReceiver, toReceiver')
      BY <1>a, <2>2, PackageFacts
    <3> QED BY <2>2, <3>1, <3>2, GoesOnSilent
  <2> QED BY <2>3, <2>4
<1>4. CASE FilePathRefused
  <2>1. UNCHANGED toSender /\ ReadsOff(toReceiver, toReceiver')
    BY <1>a, <1>4, TailOff DEF FilePathRefused
  <2>2. ~Open' /\ ~AckComes' /\ ~Storing'
    BY <1>4 DEF FilePathRefused, Open, AckComes, Storing
  <2> QED BY <2>1, <2>2, GoesOnSilent
<1>5. CASE SendAck1
  <2>1. rByte = "ACK" /\ UNCHANGED rFile
    BY <1>5 DEF SendAck1, ReceiverTypes
  <2>2. "ACK" \in Reply /\ Written(toSender, "ACK", toSender') /\ UNCHANGED toReceiver
    BY <1>5, <2>1, ReceiverWrites DEF SendAck1, Reply
  <2>3. ~AckComes' /\ ~Storing' /\ AckComes
    BY <1>5 DEF SendAck1, AckComes, Storing
  <2>4. Open' => Open /\ CComes
    BY <1>5 DEF SendAck1, Open, CComes
  <2> QED BY <2>1, <2>2, <2>3, <2>4, GoesOnWriting
<1>6. CASE ReceivePackData
  <2>1. PICK package \in Packages :
          /\ ReadPackage(package)
          /\ \/ rState' \in {"SEND_ANSWER", "SEND_NAK"} /\ package.as # "TIMEOUT"
             \/ rState' = "SEND_ANSWER" /\ rByte' \in {"NAK", "CAN"}
    BY <1>6 DEF ReceivePackData, Retry
  <2>2. /\ toReceiver' = package.rest /\ UNCHANGED <<toSender, rFile>> /\ rState = "RECEIVE_PACK_DATA"
        /\ rLast' = package.as
    BY <1>6, <2>1 DEF ReceivePackData, ReadPackage, FileDataStored
  <2>3. Open /\ ~CComes /\ ~CComes'
    BY <2>1, <2>2 DEF Open, CComes
  <2>4. CASE toReceiver = <<>>
    <3>1. package.as = "TIMEOUT" /\ toReceiver' = toReceiver
      BY <1>a, <2>2, <2>4, PackageFacts
    <3>2. rState' = "SEND_ANSWER" /\ rByte' \in {"NAK", "CAN"} /\ rLast' = "TIMEOUT"
      BY <2>1, <2>2, <3>1
    <3>3. ~AckComes' /\ ~Storing'
      BY <3>2 DEF AckComes, Storing
    <3> QED BY <2>2, <2>3, <3>1, <3>3, GoesOnSilent
  <2>5. CASE toReceiver # <<>>
    <3>1. ReadsOff(toReceiver, toReceiver')
      BY <1>a, <2>2, <2>5, PackageFacts
    <3> QED BY <2>2, <2>3, <3>1 DEF Answers
  <2> QED BY <2>4, <2>5
<1>7. CASE FileDataFails
  <2>1. UNCHANGED <<toSender, rFile>> /\ ReadsOff(toReceiver, toReceiver')
    BY <1>a, <1>7, TailOff DEF FileDataFails
  <2>2. Open /\ ~CComes /\ ~CComes'
    BY <1>7 DEF FileDataFails, Open, CComes
  <2> QED BY <2>1, <2>2 DEF Answers
<1>8. CASE SendAnswer
  <2>1. PICK x \in Reply : /\ x = IF rByte \in Reply THEN rByte ELSE "NOISE"
                           /\ Written(toSender, x, toSender')
                           /\ UNCHANGED toReceiver
    BY <1>8, ReceiverWrites DEF SendAnswer
  <2>2. rState = "SEND_ANSWER" /\ rByte \in {"ACK", "NAK", "CAN", "OTHER"} /\ UNCHANGED rFile
    BY <1>8 DEF SendAnswer, ReceiverTypes
  <2>3. x # "C" /\ (x = "ACK" => AckComes)
    BY <2>1, <2>2 DEF AckComes
  <2>4. Open /\ ~AckComes' /\ ~CComes' /\ ~Storing'
    BY <1>8 DEF SendAnswer, Open, AckComes, CComes, Storing
  <2> QED BY <2>1, <2>2, <2>3, <2>4, GoesOnWriting
<1>9. CASE SendNak
  <2>1. PICK x \in Reply : /\ x = IF rByte \in Reply THEN rByte ELSE "NOISE"
                           /\ Written(toSender, x, toSender')
                           /\ UNCHANGED toReceiver
    BY <1>9, ReceiverWrites DEF SendNak
  <2>2. rState = "SEND_NAK" /\ rByte \in {"NAK", "CAN", "OTHER"} /\ UNCHANGED rFile
    BY <1>9 DEF SendNak, ReceiverTypes
  <2>3. x # "C" /\ x # "ACK"
    BY <2>1, <2>2
  <2>4. Open /\ ~AckComes' /\ ~CComes' /\ ~Storing'
    BY <1>9 DEF SendNak, Open, AckComes, CComes, Storing
  <2> QED BY <2>1, <2>2, <2>3, <2>4, GoesOnWriting
<1>10. ASSUME NEW stay \in {"RECIVE_EOT", "SEND_ANSWER", "SEND_NAK"}, ReadsEot(stay),
              rState \in {"RECIVE_EOT", "SEND_ANSWER", "SEND_NAK"}
       PROVE  GoesOn \/ Answers
  <2>1. PICK raw \in RawBytes :
          /\ toReceiver' = raw.rest
          /\ \/ raw.byte = "TIMEOUT" /\ rState' = "START"
             \/ raw.byte # "TIMEOUT" /\ rState' \in {"SEND_ACK2", "RECIVE_EOT", "SEND_ANSWER", "SEND_NAK"}
    BY <1>10 DEF ReadsEot
  <2>2. UNCHANGED <<toSender, rFile>>
    BY <1>10 DEF ReadsEot
  <2>3. Open /\ ~CComes /\ ~CComes'
    BY <1>10, <2>1 DEF Open, CComes
  <2>4. CASE toReceiver = <<>>
    <3>1. raw.byte = "TIMEOUT" /\ toReceiver' = toReceiver
      BY <1>a, <2>1, <2>4, RawFacts
    <3>2. ~Open' /\ ~AckComes' /\ ~Storing'
      BY <2>1, <3>1 DEF Open, AckComes, Storing
    <3> QED BY <2>2, <3>1, <3>2, GoesOnSilent
  <2>5. CASE toReceiver # <<>>
    <3>1. ReadsOff(toReceiver, toReceiver')
      BY <1>a, <2>1, <2>5, RawFacts
    <3> QED BY <2>2, <2>3, <3>1 DEF Answers
  <2> QED BY <2>4, <2>5
<1>11. CASE ReciveEot
  BY <1>10, <1>11 DEF ReciveEot
<1>12. CASE SendAnswerRefused
  <2>1. PICK x \in Reply : /\ x = IF rByte \in Reply THEN rByte ELSE "NOISE"
                           /\ toSender' = Fits(toSender, x, ReplyCap)
    BY <1>12 DEF SendAnswerRefused, Reply
  <2>2. Written(toSender, x, toSender')
    BY <2>1 DEF Written, Fits
  <2>3. rByte \in {"ACK", "NAK", "CAN", "OTHER"} /\ UNCHANGED <<toReceiver, rFile>>
    BY <1>12 DEF SendAnswerRefused, ReceiverTypes
  <2>4. x # "C" /\ (x = "ACK" => AckComes)
    BY <1>12, <2>1, <2>3 DEF SendAnswerRefused, AckComes
  <2>5. Open /\ ~AckComes' /\ ~CComes' /\ ~Storing'
    BY <1>12 DEF SendAnswerRefused, Open, AckComes, CComes, Storing
  <2> QED BY <2>2, <2>3, <2>4, <2>5, GoesOnWriting
<1>13. CASE SendAnswerRefusedTwice
  BY <1>10, <1>13 DEF SendAnswerRefusedTwice
<1>14. CASE SendNakRefused
  BY <1>10, <1>14 DEF SendNakRefused
<1>15. CASE SendAck2
  <2>1. "ACK" \in Reply /\ Written(toSender, "ACK", toSender') /\ UNCHANGED toReceiver
    BY <1>15, ReceiverWrites DEF SendAck2, Reply
  <2>2. AckComes /\ ~AckComes' /\ ~Storing' /\ ~Open'
    BY <1>15 DEF SendAck2, Open, AckComes, Storing
  <2> QED BY <2>1, <2>2, GoesOnWriting
<1> QED BY <1>1, <1>2, <1>3, <1>4, <1>5, <1>6, <1>7, <1>8, <1>9, <1>11, <1>12, <1>13, <1>14, <1>15 DEF ReceiverNext

LEMMA GoesOnKeepsTalk ==
    ASSUME LineTypeOK, Talk, UNCHANGED sender, GoesOn
    PROVE  Talk'
<1>1. UNCHANGED <<sState, sFile, sWait>>
  BY DEF sender
<1>2. PacketsKept(toReceiver, toReceiver')
  BY SamePackets, ReadKeepsPackets DEF GoesOn, LineTypeOK
<1>3. AcksKept(toSender, AckComes, toSender', AckComes') /\ (Storing' => Storing)
  BY DEF GoesOn
<1>4. PathTalk'
  BY <1>1, <1>2, <1>3 DEF Talk, PathTalk, PacketsKept, AcksKept
<1>5. AckTalk'
  BY <1>1, <1>3 DEF Talk, AckTalk, AcksKept
<1>6. FileTalk'
  <2> SUFFICES ASSUME Open' PROVE FileTalk'
    BY DEF FileTalk
  <2>1. /\ Open /\ rFile' = rFile
        /\ CsKept(toSender, AckComes, CComes, toSender', AckComes', CComes')
    BY DEF GoesOn
  <2> QED BY <1>1, <1>2, <1>3, <2>1 DEF Talk, FileTalk, PacketsKept, CsKept
<1> QED BY <1>4, <1>5, <1>6 DEF Talk

LEMMA AnswersKeepsTalk ==
    ASSUME LineTypeOK, SenderTypeOK, Talk, UNCHANGED sender, Answers
    PROVE  Talk'
<1>1. UNCHANGED <<sState, sFile, sWait, toSender, rFile>>
  BY DEF sender, Answers
<1>2. /\ PacketsKept(toReceiver, toReceiver') /\ toReceiver # <<>>
      /\ Len(toReceiver) = 1 => ~HasPath(toReceiver')
  BY ReadKeepsPackets DEF Answers, ReadsOff, LineTypeOK
<1>3. Open /\ CComes = FALSE /\ CComes' = FALSE
  BY SaidBooleans DEF Answers
<1>4. sState # "GONE" => NoC(toSender, FALSE)
  BY <1>2, <1>3 DEF Talk, FileTalk
<1>5. sState # "GONE" => /\ NoCThenAck(toSender', AckComes') /\ NoCThenC(toSender', CComes')
                         /\ NoAckThenC(toSender', AckComes', CComes')
                         /\ NoAckCAck(toSender', AckComes') /\ NoAckCC(toSender', CComes')
                         /\ NoC(toSender', CComes')
  BY <1>1, <1>3, <1>4, SaidBooleans, WithoutC
<1>6. sState # "SEND_PACK_PATH" /\ (sState = "RECEIVE_ACK1" => ~HasPath(toReceiver'))
  BY <1>2, <1>3 DEF Talk, FileTalk, PacketsKept
<1>7. PathTalk'
  BY <1>1, <1>2, <1>6 DEF Talk, PathTalk, PacketsKept
<1>8. AckTalk'
  BY <1>1, <1>5 DEF AckTalk, Between, Sending, Closing
<1>9. FileTalk'
  <2>1. OfFile(toReceiver', rFile') /\ (sState' \in Sending => sFile' = rFile')
    BY <1>1, <1>2, <1>3 DEF Talk, FileTalk, PacketsKept
  <2>2. "GONE" \notin {"SEND_PACK_PATH"} \cup Sending \cup Closing
        /\ "GONE" \notin Between \cup {"RECEIVE_C2"}
    BY DEF Between, Sending, Closing
  <2> QED BY <1>1, <1>5, <1>6, <2>1, <2>2 DEF FileTalk
<1> QED BY <1>7, <1>8, <1>9 DEF Talk

LEMMA AcceptsKeepsTalk ==
    ASSUME LineTypeOK, Talk, UNCHANGED sender, Accepts
    PROVE  Talk'
<1>1. UNCHANGED <<sState, sFile, sWait, toSender>>
  BY DEF sender, Accepts
<1>2. /\ HasPath(toReceiver)
      /\ ~HasPath(toReceiver') /\ PathFinal(toReceiver')
      /\ \A f : OfFile(toReceiver', f) /\ PathAwaited(toReceiver', f)
      /\ \A f : PathAwaited(toReceiver, f) => toReceiver' = <<>> /\ Head(toReceiver).item.file = f
  BY PathTaken DEF Accepts, LineTypeOK, Talk, PathTalk
<1>3. CASE sState = "GONE"
  BY <1>1, <1>2, <1>3 DEF Talk, PathTalk, AckTalk, FileTalk, Between, Sending, Closing
<1>4. CASE sState = "RECEIVE_ACK1"
  <2>1. NoAck(toSender, AckComes) /\ PathAwaited(toReceiver, sFile)
    BY <1>2, <1>4 DEF Talk, PathTalk
  <2>2. toReceiver' = <<>> /\ (Open' => rFile' = sFile)
    BY <1>2, <2>1 DEF Accepts
  <2>3. NoAckCAck(toSender, AckComes') /\ NoAckCC(toSender, CComes')
    BY <2>1, SaidBooleans, WithoutAck
  <2>4. PathTalk'
    BY <1>1, <1>2, <1>4 DEF PathTalk
  <2>5. AckTalk'
    BY <1>1, <1>4, <2>3 DEF AckTalk, Between, Sending, Closing
  <2>6. ~Storing'
    BY DEF Accepts
  <2>7. FileTalk'
    BY <1>1, <1>2, <1>4, <2>2, <2>3, <2>6 DEF FileTalk, Between, Sending, Closing
  <2> QED BY <2>4, <2>5, <2>7 DEF Talk
<1>5. sState \in {"RECEIVE_ACK1", "GONE"}
  BY <1>2 DEF Talk, PathTalk
<1> QED BY <1>3, <1>4, <1>5

-----------------------------------------------------------------------------
(* The steps of the sender. *)
LEMMA ReceiverSame ==
    ASSUME UNCHANGED receiver
    PROVE  /\ rFile' = rFile /\ Open' = Open /\ Storing' = Storing
           /\ AckComes' = AckComes /\ CComes' = CComes
BY DEF receiver, Open, Storing, AckComes, CComes

LEMMA SenderHears ==
    ASSUME LineTypeOK, NEW state, NEW byte \in Heard, Reads(state, byte), UNCHANGED receiver
    PROVE  /\ sState = state /\ sWait' = 0 /\ UNCHANGED toReceiver
           /\ AcksKept(toSender, AckComes, toSender', AckComes')
           /\ CsKept(toSender, AckComes, CComes, toSender', AckComes', CComes')
           /\ byte = "TIMEOUT" => toSender = <<>> /\ toSender' = <<>> /\ sWait # 0
           /\ byte = "C" => /\ ~NoC(toSender, CComes)
                            /\ NoCThenAck(toSender, AckComes) => NoAck(toSender', AckComes')
                            /\ NoCThenC(toSender, CComes) => NoC(toSender', CComes')
           /\ byte = "ACK" => /\ ~NoAck(toSender, AckComes)
                              /\ NoAckCAck(toSender, AckComes) => NoCThenAck(toSender', AckComes')
                              /\ NoAckCC(toSender, CComes) => NoCThenC(toSender', CComes')
                              /\ NoAckThenC(toSender, AckComes, CComes) => NoC(toSender', CComes')
<1>1. /\ sState = state /\ sWait' = 0 /\ UNCHANGED toReceiver
      /\ toSender \in Seq(Reply) /\ AckComes' = AckComes /\ CComes' = CComes
  BY ReceiverSame DEF Reads, LineTypeOK
<1>2. AckComes \in BOOLEAN /\ CComes \in BOOLEAN
  BY SaidBooleans
<1> HIDE DEF AckComes, CComes
<1>3. CASE SenderTimesOut /\ byte = "TIMEOUT" /\ UNCHANGED toSender
  <2>1. AcksKept(toSender, AckComes, toSender, AckComes) /\ CsKept(toSender, AckComes, CComes, toSender, AckComes, CComes)
    BY <1>2, Unsaid
  <2> QED BY <1>1, <1>3, <2>1, SenderAssumption DEF SenderTimesOut
<1>4. CASE toSender # <<>> /\ byte = Head(toSender) /\ toSender' = Tail(toSender)
  <2>1. AcksKept(toSender, AckComes, toSender', AckComes') /\ CsKept(toSender, AckComes, CComes, toSender', AckComes', CComes')
    BY <1>1, <1>2, <1>4, ReadKeeps
  <2>2. byte # "TIMEOUT"
    BY <1>1, <1>4, HeadTailProperties DEF Reply
  <2>3. byte = "C" => /\ ~NoC(toSender, CComes)
                      /\ NoCThenAck(toSender, AckComes) => NoAck(toSender', AckComes')
                      /\ NoCThenC(toSender, CComes) => NoC(toSender', CComes')
    BY <1>1, <1>2, <1>4, CTaken
  <2>4. byte = "ACK" => /\ ~NoAck(toSender, AckComes)
                        /\ NoAckCAck(toSender, AckComes) => NoCThenAck(toSender', AckComes')
                        /\ NoAckCC(toSender, CComes) => NoCThenC(toSender', CComes')
                        /\ NoAckThenC(toSender, AckComes, CComes) => NoC(toSender', CComes')
    BY <1>1, <1>2, <1>4, AckTaken
  <2> QED BY <1>1, <2>1, <2>2, <2>3, <2>4
<1> QED BY <1>3, <1>4 DEF Reads

(* The sender's states outside the exchange of a path packet. *)
LEMMA StateGroups ==
    ASSUME NEW s \in Between \cup {"RECEIVE_C2"} \cup Sending \cup Closing
    PROVE  s # "RECEIVE_ACK1" /\ s # "SEND_PACK_PATH" /\ s # "GONE"
BY DEF Between, Sending, Closing

(* It reads, stays out of that exchange, and goes no further in the file   *)
(* than it may: the answers it has yet to read allow what they did.        *)
LEMMA ReadKeepsTalk ==
    ASSUME LineTypeOK, Talk, NEW state, NEW byte \in Heard, Reads(state, byte), UNCHANGED receiver,
           UNCHANGED sFile,
           \/ sState \in Between /\ sState' \in Between
           \/ sState = "RECEIVE_C2" /\ sState' \in Between \cup {"RECEIVE_C2"}
           \/ sState \in Sending /\ sState' \in Between \cup Sending \cup Closing
           \/ sState \in Closing /\ sState' \in Between \cup Closing
    PROVE  Talk'
<1>1. /\ UNCHANGED toReceiver
      /\ AcksKept(toSender, AckComes, toSender', AckComes')
      /\ CsKept(toSender, AckComes, CComes, toSender', AckComes', CComes')
      /\ rFile' = rFile /\ Open' = Open /\ Storing' = Storing
  BY SenderHears, ReceiverSame
<1>2. /\ sState \in Between \cup {"RECEIVE_C2"} \cup Sending \cup Closing
      /\ sState' \in Between \cup {"RECEIVE_C2"} \cup Sending \cup Closing
  OBVIOUS
<1>3. /\ sState # "RECEIVE_ACK1" /\ sState # "SEND_PACK_PATH" /\ sState # "GONE"
      /\ sState' # "RECEIVE_ACK1" /\ sState' # "SEND_PACK_PATH" /\ sState' # "GONE"
  BY <1>2, StateGroups
<1>4. PathTalk'
  BY <1>1, <1>3 DEF Talk, PathTalk
<1>5. AckTalk'
  BY <1>1, <1>2, <1>3 DEF Talk, AckTalk, AcksKept
<1>6. FileTalk'
  <2> SUFFICES ASSUME Open' PROVE FileTalk'
    BY DEF FileTalk
  <2>1. /\ OfFile(toReceiver', rFile')
        /\ toReceiver' # <<>> \/ Storing' => NoC(toSender', CComes')
    BY <1>1, <1>3 DEF Talk, FileTalk, CsKept
  <2>2. sState' \in Sending => sFile' = rFile' /\ NoC(toSender', CComes')
    BY <1>1 DEF Talk, FileTalk, CsKept, Between, Sending, Closing
  <2>3. sState' \in Closing => NoC(toSender', CComes')
    BY <1>1 DEF Talk, FileTalk, CsKept, Between, Sending, Closing
  <2>4. sState' \in Between \cup {"RECEIVE_C2"} => NoCThenC(toSender', CComes')
    <3>1. CASE sState \in Sending \cup Closing
      <4>1. NoC(toSender', CComes')
        BY <1>1, <3>1 DEF Talk, FileTalk, CsKept
      <4> QED BY <4>1, SaidBooleans, WithoutC
    <3>2. CASE sState \in Between \cup {"RECEIVE_C2"}
      BY <1>1, <3>2 DEF Talk, FileTalk, CsKept
    <3> QED BY <1>2, <3>1, <3>2
  <2>5. sState' = "RECEIVE_C2" => NoC(toSender', CComes') \/ sFile' = rFile'
    BY <1>1 DEF Talk, FileTalk, CsKept, Between, Sending, Closing
  <2> QED BY <1>3, <2>1, <2>2, <2>3, <2>4, <2>5 DEF FileTalk
<1> QED BY <1>4, <1>5, <1>6 DEF Talk

(* It takes the C that starts a file: no ACK is left to read. *)
LEMMA NextFileKeepsTalk ==
    ASSUME LineTypeOK, Talk, Reads("RECEIVE_C1", "C"), UNCHANGED receiver,
           sState' \in {"SEND_PACK_PATH", "START"}
    PROVE  Talk'
<1>1. /\ sState = "RECEIVE_C1" /\ UNCHANGED toReceiver
      /\ AcksKept(toSender, AckComes, toSender', AckComes')
      /\ ~NoC(toSender, CComes)
      /\ NoCThenAck(toSender, AckComes) => NoAck(toSender', AckComes')
      /\ NoCThenC(toSender, CComes) => NoC(toSender', CComes')
      /\ rFile' = rFile /\ Open' = Open /\ Storing' = Storing
  BY SenderHears, ReceiverSame DEF Heard, Reply
<1>2. NoAck(toSender', AckComes') /\ NoCThenAck(toSender', AckComes')
  BY <1>1 DEF Talk, AckTalk, AcksKept, Between
<1>3. Open => NoC(toSender', CComes') /\ toReceiver' = <<>> /\ ~Storing'
  BY <1>1 DEF Talk, FileTalk, Between
<1>4. ~Storing'
  BY <1>1, <1>3 DEF Open, Storing
<1>5. ~HasPath(toReceiver')
  BY <1>1 DEF Talk, PathTalk
<1>6. PathTalk'
  BY <1>1, <1>2, <1>4, <1>5 DEF Talk, PathTalk
<1>7. AckTalk'
  BY <1>2 DEF AckTalk
<1>8. Open => NoCThenC(toSender', CComes') /\ OfFile(toReceiver', rFile')
  BY <1>1, <1>3, SaidBooleans, WithoutC DEF Talk, FileTalk
<1>9. FileTalk'
  BY <1>1, <1>3, <1>8 DEF FileTalk, Between, Sending, Closing
<1> QED BY <1>6, <1>7, <1>9 DEF Talk

(* It sends a path packet. *)
LEMMA PathSentKeepsTalk ==
    ASSUME LineTypeOK, SenderTypes, Talk, UNCHANGED receiver, UNCHANGED toSender,
           sState = "SEND_PACK_PATH", sState' = "RECEIVE_ACK1", sWait' = 0, UNCHANGED sFile,
           WriteToReceiver(Packet(0, [file |-> sFile, part |-> 0]))
    PROVE  Talk'
<1>1. /\ rFile' = rFile /\ Open' = Open /\ Storing' = Storing
      /\ AckComes' = AckComes /\ CComes' = CComes
  BY ReceiverSame
<1> DEFINE item == [file |-> sFile, part |-> 0]
<1>2. item \in Item /\ item.file = sFile /\ item.part = 0 /\ 0 \in 0..Blocks - 1
  BY BlocksAssumption DEF SenderTypes, SenderTypeOK, Item
<1> HIDE DEF item
<1>3. Arrives(toReceiver, Packet(0, item), toReceiver')
  BY <1>2, ArrivalKinds, ToReceiverWritten DEF item
<1>4. ~HasPath(toReceiver) /\ NoAck(toSender, AckComes) /\ ~Storing
      /\ (Open => NoC(toSender, CComes) /\ toReceiver = <<>> /\ OfFile(toReceiver, rFile))
  BY DEF Talk, PathTalk, FileTalk
<1>5. /\ PathFinal(toReceiver') /\ PathAwaited(toReceiver', sFile)
      /\ \A f : OfFile(toReceiver, f) => OfFile(toReceiver', f)
      /\ toReceiver = <<>> /\ HasPath(toReceiver') => Len(toReceiver') = 1
  BY <1>2, <1>3, <1>4, PacketArrives DEF LineTypeOK
<1>6. PathTalk'
  BY <1>1, <1>4, <1>5 DEF PathTalk
<1>7. NoAckCAck(toSender, AckComes)
  BY <1>4, SaidBooleans, WithoutAck
<1>8. AckTalk'
  BY <1>1, <1>7 DEF AckTalk, Between, Sending, Closing
<1>9. Open => NoAckCC(toSender, CComes) /\ NoAckThenC(toSender, AckComes, CComes)
  BY <1>4, SaidBooleans, WithoutC
<1>10. FileTalk'
  BY <1>1, <1>4, <1>5, <1>9 DEF FileTalk, Between, Sending, Closing
<1> QED BY <1>6, <1>8, <1>10 DEF Talk

(* It waits for the ACK of its path packet, and takes it or gives up. *)
LEMMA Ack1KeepsTalk ==
    ASSUME LineTypeOK, Talk, UNCHANGED receiver, UNCHANGED sFile,
           NEW byte \in Heard, Reads("RECEIVE_ACK1", byte),
           \/ byte = "ACK" /\ sState' \in {"START", "RECEIVE_C2"}
           \/ byte = "TIMEOUT" /\ sState' = "START"
           \/ sState' = "RECEIVE_ACK1"
    PROVE  Talk'
<1>1. /\ sState = "RECEIVE_ACK1" /\ sWait' = 0 /\ UNCHANGED toReceiver
      /\ AcksKept(toSender, AckComes, toSender', AckComes')
      /\ CsKept(toSender, AckComes, CComes, toSender', AckComes', CComes')
      /\ byte = "TIMEOUT" => toSender' = <<>> /\ sWait # 0
      /\ byte = "ACK" => /\ ~NoAck(toSender, AckComes)
                         /\ NoAckCAck(toSender, AckComes) => NoCThenAck(toSender', AckComes')
                         /\ NoAckCC(toSender, CComes) => NoCThenC(toSender', CComes')
                         /\ NoAckThenC(toSender, AckComes, CComes) => NoC(toSender', CComes')
      /\ rFile' = rFile /\ Open' = Open /\ Storing' = Storing
  BY SenderHears, ReceiverSame
<1>2. CASE sState' = "RECEIVE_ACK1"
  <2>1. PathTalk'
    BY <1>1, <1>2 DEF Talk, PathTalk, AcksKept
  <2>2. AckTalk'
    BY <1>1, <1>2 DEF Talk, AckTalk, AcksKept, Between, Sending, Closing
  <2>3. FileTalk'
    BY <1>1, <1>2 DEF Talk, FileTalk, CsKept, Between, Sending, Closing
  <2> QED BY <2>1, <2>2, <2>3 DEF Talk
<1>3. CASE byte \in {"ACK", "TIMEOUT"} /\ sState' \in {"START", "RECEIVE_C2"}
  <2>1. ~HasPath(toReceiver')
    BY <1>1, <1>3 DEF Talk, PathTalk
  <2>2. PathTalk'
    BY <1>1, <1>3, <2>1 DEF Talk, PathTalk
  <2>3. NoCThenAck(toSender', AckComes') /\ (Open => NoCThenC(toSender', CComes'))
    <3>1. CASE byte = "TIMEOUT"
      BY <1>1, <3>1, NothingToRead
    <3>2. CASE byte = "ACK"
      BY <1>1, <3>2 DEF Talk, AckTalk, FileTalk
    <3> QED BY <1>3, <3>1, <3>2
  <2>4. AckTalk'
    BY <1>3, <2>3 DEF AckTalk
  <2>5. Open => (sState' = "RECEIVE_C2" => NoC(toSender', CComes') \/ sFile' = rFile')
    BY <1>1, <1>3 DEF Talk, FileTalk
  <2>6. FileTalk'
    BY <1>1, <1>3, <2>3, <2>5 DEF Talk, FileTalk, CsKept, Between, Sending, Closing
  <2> QED BY <2>2, <2>4, <2>6 DEF Talk
<1> QED BY <1>2, <1>3

(* It takes the C that asks for data. *)
LEMMA DataAskedKeepsTalk ==
    ASSUME LineTypeOK, Talk, Reads("RECEIVE_C2", "C"), UNCHANGED receiver, UNCHANGED sFile,
           sState' = "SEND_PACK_DATA"
    PROVE  Talk'
<1>1. /\ sState = "RECEIVE_C2" /\ UNCHANGED toReceiver
      /\ AcksKept(toSender, AckComes, toSender', AckComes')
      /\ CsKept(toSender, AckComes, CComes, toSender', AckComes', CComes')
      /\ ~NoC(toSender, CComes)
      /\ NoCThenC(toSender, CComes) => NoC(toSender', CComes')
      /\ rFile' = rFile /\ Open' = Open /\ Storing' = Storing
  BY SenderHears, ReceiverSame DEF Heard, Reply
<1>2. PathTalk'
  BY <1>1 DEF Talk, PathTalk
<1>3. AckTalk'
  BY <1>1 DEF Talk, AckTalk, AcksKept, Sending
<1>4. FileTalk'
  BY <1>1 DEF Talk, FileTalk, CsKept, Between, Sending, Closing
<1> QED BY <1>2, <1>3, <1>4 DEF Talk

(* It sends a data packet or an EOT. *)
LEMMA DataSentKeepsTalk ==
    ASSUME LineTypeOK, SenderTypes, Talk, UNCHANGED receiver, UNCHANGED toSender, UNCHANGED sFile,
           sState \in Sending, sState' \in Sending, sPart > 0,
           WriteToReceiver(Packet(sNum, [file |-> sFile, part |-> sPart]))
    PROVE  Talk'
<1>1. /\ rFile' = rFile /\ Open' = Open /\ Storing' = Storing
      /\ AckComes' = AckComes /\ CComes' = CComes
  BY ReceiverSame
<1> DEFINE item == [file |-> sFile, part |-> sPart]
<1>2. item \in Item /\ item.file = sFile /\ item.part # 0 /\ sNum \in 0..Blocks - 1
  BY PartsType DEF SenderTypes, SenderTypeOK, Item
<1>3. Packet(sNum, item) \in Arrival
  BY <1>2, ArrivalKinds
<1> HIDE DEF item
<1>4. Arrives(toReceiver, Packet(sNum, item), toReceiver')
  BY <1>3, ToReceiverWritten DEF item
<1>5. /\ \A s \in {sState, sState'} : s # "RECEIVE_ACK1" /\ s # "SEND_PACK_PATH" /\ s # "GONE"
      /\ sState' \notin Between \cup {"RECEIVE_C2"} \cup Closing
  BY DEF Between, Sending, Closing
<1>6. ~HasPath(toReceiver)
  BY <1>5 DEF Talk, PathTalk
<1>7. /\ PathFinal(toReceiver') /\ ~HasPath(toReceiver')
      /\ \A f : OfFile(toReceiver, f) /\ f = sFile => OfFile(toReceiver', f)
  BY <1>2, <1>4, <1>6, PacketArrives DEF LineTypeOK
<1>8. PathTalk'
  BY <1>5, <1>7 DEF PathTalk
<1>9. AckTalk'
  BY <1>1, <1>5 DEF Talk, AckTalk
<1>10. FileTalk'
  BY <1>1, <1>5, <1>7 DEF Talk, FileTalk
<1> QED BY <1>8, <1>9, <1>10 DEF Talk

LEMMA EotSentKeepsTalk ==
    ASSUME LineTypeOK, Talk, UNCHANGED receiver, UNCHANGED toSender, UNCHANGED sFile,
           sState \in Closing, sState' \in Closing, WriteToReceiver(Control("EOT"))
    PROVE  Talk'
<1>1. /\ rFile' = rFile /\ Open' = Open /\ Storing' = Storing
      /\ AckComes' = AckComes /\ CComes' = CComes
  BY ReceiverSame
<1>2. Arrives(toReceiver, Control("EOT"), toReceiver') /\ Control("EOT").kind # "PACKET"
  BY ArrivalKinds, ToReceiverWritten
<1>3. /\ \A s \in {sState, sState'} : s # "RECEIVE_ACK1" /\ s # "SEND_PACK_PATH" /\ s # "GONE"
      /\ sState' \notin Between \cup {"RECEIVE_C2"} \cup Sending
  BY DEF Between, Sending, Closing
<1>4. /\ PathFinal(toReceiver') /\ ~HasPath(toReceiver')
      /\ OfFile(toReceiver, rFile) => OfFile(toReceiver', rFile)
  BY <1>2, <1>3, NoPacketArrives DEF LineTypeOK, Talk, PathTalk
<1>5. PathTalk'
  BY <1>3, <1>4 DEF PathTalk
<1>6. AckTalk'
  BY <1>1, <1>3 DEF Talk, AckTalk
<1>7. FileTalk'
  BY <1>1, <1>3, <1>4 DEF Talk, FileTalk
<1> QED BY <1>5, <1>6, <1>7 DEF Talk

LEMMA SenderKeepsTalk ==
    ASSUME LineTypeOK, SenderTypes, SenderNumbers, Talk, SenderNext, UNCHANGED receiver
    PROVE  Talk'
<1> USE DEF SenderGoesTo, SenderEnds, Stays
<1>1. CASE SenderBegins
  <2>1. /\ sState = "START" /\ sState' = "RECEIVE_C1"
        /\ UNCHANGED <<toReceiver, toSender, sFile>>
        /\ rFile' = rFile /\ Open' = Open /\ Storing' = Storing
        /\ AckComes' = AckComes /\ CComes' = CComes
    BY <1>1, ReceiverSame DEF SenderBegins, line
  <2>2. PathTalk'
    BY <2>1 DEF Talk, PathTalk
  <2>3. AckTalk'
    BY <2>1 DEF Talk, AckTalk, Between
  <2>4. FileTalk'
    BY <2>1 DEF Talk, FileTalk, Between, Sending, Closing
  <2> QED BY <2>2, <2>3, <2>4 DEF Talk
<1>2. CASE ReceiveC1
  <2>1. PICK byte \in Heard :
          /\ Reads("RECEIVE_C1", byte)
          /\ \/ byte = "C" /\ sState' \in {"SEND_PACK_PATH", "START"}
             \/ sState' \in Between /\ UNCHANGED sFile
    BY <1>2 DEF ReceiveC1, Reads, Between
  <2>2. sState \in Between
    BY <2>1 DEF Reads, Between
  <2> QED BY <2>1, <2>2, NextFileKeepsTalk, ReadKeepsTalk
<1>3. CASE SendPackage
  <2>1. UNCHANGED <<toSender, sFile>> /\ sWait' = 0
    BY <1>3 DEF SendPackage
  <2>2. CASE sState = "SEND_PACK_PATH"
    BY <1>3, <2>1, <2>2, PathSentKeepsTalk DEF SendPackage
  <2>3. CASE sState = "SEND_PACK_DATA"
    <3>1. sState \in Sending /\ sState' \in Sending /\ sPart > 0
      BY <1>3, <2>3 DEF SendPackage, Sending, SenderNumbers
    <3> QED BY <1>3, <2>1, <2>3, <3>1, DataSentKeepsTalk DEF SendPackage
  <2> QED BY <1>3, <2>2, <2>3 DEF SendPackage
<1>4. CASE ReceiveAck1
  <2>1. PICK byte \in Heard :
          /\ Reads("RECEIVE_ACK1", byte)
          /\ \/ byte = "ACK" /\ sState' \in {"START", "RECEIVE_C2"}
             \/ byte = "TIMEOUT" /\ sState' = "START"
             \/ sState' = "RECEIVE_ACK1"
    BY <1>4 DEF ReceiveAck1, Reads
  <2>2. UNCHANGED sFile
    BY <1>4 DEF ReceiveAck1
  <2> QED BY <2>1, <2>2, Ack1KeepsTalk
<1>5. CASE ReceiveC2
  <2>1. PICK byte \in Heard :
          /\ Reads("RECEIVE_C2", byte)
          /\ \/ byte = "C" /\ sState' = "SEND_PACK_DATA"
             \/ sState' \in Between \cup {"RECEIVE_C2"}
    BY <1>5 DEF ReceiveC2, FillsBuffer, Reads, Between
  <2>2. UNCHANGED sFile /\ sState = "RECEIVE_C2"
    BY <1>5, <2>1 DEF ReceiveC2, Reads
  <2> QED BY <2>1, <2>2, DataAskedKeepsTalk, ReadKeepsTalk
<1>6. CASE ReceiveAnswer
  <2>1. PICK byte \in Heard :
          /\ Reads("RECEIVE_ANSWER", byte)
          /\ sState' \in {"SEND_PACK_DATA", "SEND_EOT1", "START", "RECEIVE_ANSWER"}
    BY <1>6 DEF ReceiveAnswer, FillsBuffer, Reads
  <2>2. UNCHANGED sFile /\ sState \in Sending
    BY <1>6, <2>1 DEF ReceiveAnswer, Reads, Sending
  <2>3. sState' \in Between \cup Sending \cup Closing
    BY <2>1 DEF Between, Sending, Closing
  <2> QED BY <2>1, <2>2, <2>3, ReadKeepsTalk
<1>7. CASE SendEot
  <2>1. UNCHANGED <<toSender, sFile>> /\ sState \in Closing /\ sState' \in Closing
    BY <1>7 DEF SendEot, Closing
  <2> QED BY <1>7, <2>1, EotSentKeepsTalk DEF SendEot
<1>8. CASE ReceiveNak
  <2>1. PICK byte \in Heard :
          /\ Reads("RECEIVE_NAK", byte)
          /\ sState' \in {"SEND_EOT2", "START", "RECEIVE_NAK"}
    BY <1>8 DEF ReceiveNak, Reads
  <2>2. UNCHANGED sFile /\ sState \in Closing /\ sState' \in Between \cup Closing
    BY <1>8, <2>1 DEF ReceiveNak, Reads, Between, Closing
  <2> QED BY <2>1, <2>2, ReadKeepsTalk
<1>9. CASE ReceiveAck2
  <2>1. PICK byte \in Heard :
          /\ Reads("RECEIVE_ACK2", byte)
          /\ sState' \in {"START", "RECEIVE_ACK2"}
    BY <1>9 DEF ReceiveAck2, Reads
  <2>2. UNCHANGED sFile /\ sState \in Closing /\ sState' \in Between \cup Closing
    BY <1>9, <2>1 DEF ReceiveAck2, Reads, Between, Closing
  <2> QED BY <2>1, <2>2, ReadKeepsTalk
<1> QED BY <1>1, <1>2, <1>3, <1>4, <1>5, <1>6, <1>7, <1>8, <1>9 DEF SenderNext

(* The user cancels, and nobody reads the answers any more. *)
LEMMA CancelKeepsTalk ==
    ASSUME LineTypeOK, Talk, PeerCancels
    PROVE  Talk'
<1>1. /\ sState' = "GONE" /\ UNCHANGED receiver
      /\ rFile' = rFile /\ Open' = Open
  BY ReceiverSame DEF PeerCancels
<1>2. /\ Control("CAN") \in Arrival /\ Control("CAN").kind # "PACKET"
      /\ toReceiver \in Seq(Arrival) /\ Len(toReceiver) <= LineCap /\ LineCap \in Nat
  BY ArrivalKinds, LineAssumption DEF LineTypeOK
<1>3. Arrives(toReceiver, Control("CAN"), toReceiver')
  BY <1>2, FitsLine DEF PeerCancels, Arrives
<1>4. PathFinal(toReceiver') /\ (OfFile(toReceiver, rFile) => OfFile(toReceiver', rFile))
  BY <1>2, <1>3, NoPacketArrives DEF Talk, PathTalk
<1>5. PathTalk' /\ AckTalk'
  BY <1>1, <1>4 DEF PathTalk, AckTalk, Between, Sending, Closing
<1>6. FileTalk'
  BY <1>1, <1>4 DEF Talk, FileTalk, Between, Sending, Closing
<1> QED BY <1>5, <1>6 DEF Talk

(* No time goes by while a path packet is on its way: the receiver has it  *)
(* to read, and no callback to come back from.                             *)
LEMMA TickKeepsTalk ==
    ASSUME LineTypeOK, Talk, Tick
    PROVE  Talk'
<1>1. /\ UNCHANGED <<sState, sFile, toReceiver, toSender>>
      /\ rFile' = rFile /\ Open' = Open /\ Storing' = Storing
      /\ AckComes' = AckComes /\ CComes' = CComes
  BY DEF Tick, line, Open, Storing, AckComes, CComes
<1>2. ~(sState = "RECEIVE_ACK1" /\ HasPath(toReceiver))
  <2> SUFFICES ASSUME sState = "RECEIVE_ACK1", HasPath(toReceiver) PROVE FALSE
    OBVIOUS
  <2>1. toReceiver # <<>>
    BY EmptySeq DEF HasPath
  <2>2. ~AckComes /\ ~Storing
    BY DEF Talk, PathTalk, NoAck
  <2> QED BY <2>1, <2>2 DEF Tick, ReceiverWaits, ReceiverCallsBack, AckComes, Storing
<1>3. PathTalk'
  BY <1>1, <1>2 DEF Talk, PathTalk
<1>4. AckTalk'
  BY <1>1 DEF Talk, AckTalk
<1>5. FileTalk'
  BY <1>1 DEF Talk, FileTalk
<1> QED BY <1>3, <1>4, <1>5 DEF Talk

-----------------------------------------------------------------------------
(* Block numbers count the parts of a file that has fewer of them than     *)
(* there are block numbers.                                                *)
FewParts == \A f \in 1..Len(Files) : Files[f] < Blocks

LEMMA FewPartsBound == ASSUME FewParts PROVE \A f \in FileId : Parts(f) < Blocks
BY BlocksAssumption, FilesAssumption DEF FewParts, FileId, Parts

LEMMA SenderNumbersKept ==
    ASSUME FewParts, SenderTypes, SenderNumbers, SenderNext
    PROVE  SenderNumbers'
<1> USE DEF SenderGoesTo, SenderEnds, Stays
<1>a. /\ sNum \in 0..Blocks - 1 /\ Blocks \in Nat /\ Blocks > 2
      /\ sFile \in FileId /\ Parts(sFile) \in Nat /\ Parts(sFile) < Blocks /\ sPart \in 0..Parts(sFile) + 1
  BY BlocksAssumption, PartsType, FewPartsBound DEF SenderTypes, SenderTypeOK
<1>1. CASE SenderBegins
  BY <1>1 DEF SenderBegins, SenderNumbers, Sending
<1>2. CASE ReceiveC1
  <2>1. /\ sState = "RECEIVE_C1" /\ sState' \in {"SEND_PACK_PATH", "START", "RECEIVE_C1"}
        /\ sNum' = sNum
    BY <1>2 DEF ReceiveC1, Reads
  <2> QED BY <2>1 DEF SenderNumbers, Sending
<1>3. CASE SendPackage
  BY <1>3 DEF SendPackage, SenderNumbers, Sending
<1>4. CASE ReceiveAck1
  <2>1. /\ sState = "RECEIVE_ACK1"
        /\ \/ sState' \in {"START", "RECEIVE_ACK1"} /\ sNum' = sNum
           \/ sState' = "START"
           \/ sState' = "RECEIVE_C2" /\ sNum' = (sNum + 1) % Blocks
    BY <1>4 DEF ReceiveAck1, Reads
  <2>2. sNum = 0 /\ (0 + 1) % Blocks = 1
    BY <1>a, <2>1 DEF SenderNumbers
  <2> QED BY <2>1, <2>2 DEF SenderNumbers, Sending
<1>5. CASE ReceiveC2
  <2>1. /\ sState = "RECEIVE_C2" /\ sNum' = sNum
        /\ \/ sState' = "SEND_PACK_DATA" /\ sPart' = sPart + 1
           \/ sState' \in {"START", "RECEIVE_C2"}
    BY <1>5 DEF ReceiveC2, FillsBuffer, Reads
  <2>2. sNum = 1 /\ sPart = 0
    BY <2>1 DEF SenderNumbers, SenderTypes
  <2> QED BY <2>1, <2>2 DEF SenderNumbers, Sending
<1>6. CASE ReceiveAnswer
  <2>1. /\ sState = "RECEIVE_ANSWER" /\ sFile' = sFile
        /\ \/ /\ sState' = "SEND_PACK_DATA" /\ sPart < Parts(sFile)
              /\ sPart' = sPart + 1 /\ sNum' = (sNum + 1) % Blocks
           \/ sState' \in {"START", "SEND_EOT1"}
           \/ sState' \in {"SEND_PACK_DATA", "RECEIVE_ANSWER"} /\ sPart' = sPart /\ sNum' = sNum
    BY <1>6 DEF ReceiveAnswer, FillsBuffer, Reads
  <2>2. sNum = sPart /\ sPart > 0 /\ (sPart <= Parts(sFile) \/ sPart = 1)
    BY <2>1 DEF SenderNumbers, Sending
  <2>3. CASE /\ sState' = "SEND_PACK_DATA" /\ sPart < Parts(sFile)
             /\ sPart' = sPart + 1 /\ sNum' = (sNum + 1) % Blocks
    <3>1. sPart + 1 < Blocks /\ sPart + 1 <= Parts(sFile) /\ sPart + 1 > 0
      BY <1>a, <2>3
    <3>2. (sNum + 1) % Blocks = sPart + 1
      BY <1>a, <2>2, <3>1
    <3> QED BY <2>1, <2>3, <3>1, <3>2 DEF SenderNumbers
  <2>4. CASE sState' \in {"START", "SEND_EOT1"}
    BY <2>4 DEF SenderNumbers, Sending
  <2>5. CASE sState' \in {"SEND_PACK_DATA", "RECEIVE_ANSWER"} /\ sPart' = sPart /\ sNum' = sNum
    BY <2>1, <2>2, <2>5 DEF SenderNumbers
  <2> QED BY <2>1, <2>3, <2>4, <2>5
<1>7. CASE SendEot
  BY <1>7 DEF SendEot, SenderNumbers, Sending
<1>8. CASE ReceiveNak
  <2>1. sState' \in {"SEND_EOT2", "START", "RECEIVE_NAK"}
    BY <1>8 DEF ReceiveNak, Reads
  <2> QED BY <2>1 DEF SenderNumbers, Sending
<1>9. CASE ReceiveAck2
  <2>1. sState' \in {"START", "RECEIVE_ACK2"}
    BY <1>9 DEF ReceiveAck2, Reads
  <2> QED BY <2>1 DEF SenderNumbers, Sending
<1> QED BY <1>1, <1>2, <1>3, <1>4, <1>5, <1>6, <1>7, <1>8, <1>9 DEF SenderNext

LEMMA SentNumbered ==
    ASSUME LineTypeOK, SenderTypes, SenderNumbers, Numbered(toReceiver), Talk, SenderNext
    PROVE  Numbered(toReceiver')
<1>1. CASE SendPackage
  <2>1. ~HasPath(toReceiver)
    BY <1>1 DEF SendPackage, Talk, PathTalk
  <2>2. PICK num \in 0..Blocks - 1, item \in Item :
          WriteToReceiver(Packet(num, item)) /\ num = item.part
    <3>1. CASE sState = "SEND_PACK_PATH"
      <4>1. [file |-> sFile, part |-> 0] \in Item /\ 0 \in 0..Blocks - 1
        BY BlocksAssumption DEF SenderTypes, SenderTypeOK, Item
      <4> QED BY <1>1, <3>1, <4>1 DEF SendPackage
    <3>2. CASE sState = "SEND_PACK_DATA"
      <4>1. [file |-> sFile, part |-> sPart] \in Item /\ sNum \in 0..Blocks - 1
        BY PartsType DEF SenderTypes, SenderTypeOK, Item
      <4>2. sNum = sPart
        BY <3>2 DEF SenderNumbers, Sending
      <4> QED BY <1>1, <3>2, <4>1, <4>2 DEF SendPackage
    <3> QED BY <1>1, <3>1, <3>2 DEF SendPackage
  <2>3. Packet(num, item) \in Arrival
    BY ArrivalKinds
  <2>4. Arrives(toReceiver, Packet(num, item), toReceiver')
    BY <2>2, <2>3, ToReceiverWritten
  <2> QED BY <2>1, <2>2, <2>4, PacketArrives DEF LineTypeOK
<1>2. CASE SendEot
  <2>1. Control("EOT") \in Arrival /\ Control("EOT").kind # "PACKET"
    BY ArrivalKinds
  <2>2. Arrives(toReceiver, Control("EOT"), toReceiver')
    BY <1>2, <2>1, ToReceiverWritten DEF SendEot
  <2> QED BY <2>1, <2>2, NoPacketArrives DEF LineTypeOK
<1>3. CASE SenderBegins \/ ReceiveC1 \/ ReceiveAck1 \/ ReceiveC2 \/ ReceiveAnswer \/ ReceiveNak \/ ReceiveAck2
  <2>1. toReceiver' = toReceiver
    BY <1>3 DEF SenderBegins, line, ReceiveC1, ReceiveAck1, ReceiveC2, ReceiveAnswer, ReceiveNak, ReceiveAck2, Reads
  <2> QED BY <2>1
<1> QED BY <1>1, <1>2, <1>3 DEF SenderNext

LEMMA ReadNumbered ==
    ASSUME LineTypeOK, Numbered(toReceiver), Talk, GoesOn \/ Answers \/ Accepts
    PROVE  Numbered(toReceiver')
<1>1. CASE GoesOn \/ Answers
  BY <1>1, ReadKeepsPackets DEF GoesOn, Answers, PacketsKept, LineTypeOK
<1>2. CASE Accepts
  BY <1>2, PathTaken DEF Accepts, LineTypeOK, Talk, PathTalk
<1> QED BY <1>1, <1>2

(* What the receiver stores is the next part of the file it is in. *)
LEMMA PartStored ==
    ASSUME FewParts, LineTypeOK, ReceiverTypes, Numbered(toReceiver), ReceiverNumbers, Talk,
           rState = "RECEIVE_PACK_DATA", toReceiver # <<>>, Head(toReceiver).kind = "PACKET",
           Head(toReceiver).num = rNum, FileDataStored(Head(toReceiver).item),
           rNum' = (rNum + 1) % Blocks, rState' = "SEND_ANSWER"
    PROVE  ReceiverNumbers' /\ (Delivery!Store \/ UNCHANGED <<rFile, rGot, rEnd>>)
<1>1. Open /\ Open'
  BY DEF Open
<1>2. /\ rFile \in FileId /\ rFile # 0 /\ rFile' = rFile
      /\ Parts(rFile) \in Nat /\ Parts(rFile) < Blocks /\ Parts(rFile) = Files[rFile]
  BY <1>1, PartsType, FewPartsBound DEF ReceiverTypes, ReceiverTypeOK, ReceiverNumbers, FileDataStored, Parts
<1>3. /\ rGot \in Seq(Item) /\ Len(rGot) \in Nat /\ Len(rGot) <= Parts(rFile)
      /\ rNum \in 0..Blocks - 1 /\ Blocks \in Nat /\ Blocks > 2
  BY LenProperties, BlocksAssumption DEF ReceiverTypes, ReceiverTypeOK
<1>4. /\ rEnd <=> Len(rGot) = Parts(rFile)
      /\ rNum = Len(rGot) + 1 \/ Len(rGot) = Parts(rFile)
  BY <1>1, <1>2 DEF ReceiverNumbers
<1>5. CASE Len(rGot) = Parts(rFile)
  <2>1. rGot' = rGot
    BY <1>3, <1>5 DEF FileDataStored
  <2>2. rEnd' = TRUE /\ rEnd = TRUE
    BY <1>4, <1>5, <2>1 DEF FileDataStored, ReceiverTypes, ReceiverTypeOK
  <2>3. ReceiverNumbers'
    BY <1>2, <1>5, <2>1, <2>2 DEF ReceiverNumbers
  <2> QED BY <1>2, <2>1, <2>2, <2>3
<1>6. CASE Len(rGot) # Parts(rFile)
  <2> DEFINE item == Head(toReceiver).item
             n == Len(rGot)
  <2>1. Head(toReceiver) = toReceiver[1] /\ 1 \in 1..Len(toReceiver) /\ Head(toReceiver) \in Arrival
    BY HeadTailProperties, EmptySeq DEF LineTypeOK
  <2>2. item.part = rNum /\ rNum = n + 1 /\ item \in Item
    BY <1>4, <1>6, <2>1, ArrivalKinds DEF Numbered
  <2>3. item.file = rFile
    <3>1. Data(toReceiver[1])
      BY <1>3, <2>1, <2>2 DEF Data
    <3> QED BY <1>1, <2>1, <3>1 DEF Talk, FileTalk, OfFile
  <2>4. item = [file |-> rFile, part |-> n + 1]
    BY <2>2, <2>3 DEF Item
  <2>5. n < Parts(rFile)
    BY <1>2, <1>3, <1>6
  <2>6. rGot' = Append(rGot, item)
    BY <2>5 DEF FileDataStored
  <2> HIDE DEF item
  <2>7. Len(rGot') = n + 1
    BY <1>3, <2>2, <2>6, AppendProperties
  <2>8. rEnd' <=> n + 1 = Parts(rFile)
    BY <1>4, <1>6, <2>7 DEF FileDataStored
  <2>9. rEnd' = (n + 1 = Parts(rFile))
    <3>1. rEnd' \in BOOLEAN
      BY DEF FileDataStored, ReceiverTypes, ReceiverTypeOK
    <3> QED BY <2>8, <3>1
  <2>10. Delivery!Store
    <3>1. n + 1 <= Files[rFile]
      BY <1>2, <1>3, <2>5
    <3> QED BY <1>2, <2>4, <2>6, <2>9, <3>1 DEF Delivery!Store
  <2> HIDE DEF n
  <2>11. rNum' = n + 2 \/ n + 1 = Parts(rFile)
    <3>1. CASE n + 2 < Blocks
      BY <1>3, <2>2, <3>1 DEF n
    <3>2. CASE ~(n + 2 < Blocks)
      BY <1>2, <1>3, <2>5, <3>2 DEF n
    <3> QED BY <3>1, <3>2
  <2>12. rNum' = Len(rGot') + 1 \/ Len(rGot') = Parts(rFile)
    BY <1>3, <2>7, <2>11 DEF n
  <2>13. rEnd' <=> Len(rGot') = Parts(rFile)
    BY <2>7, <2>8
  <2>14. ReceiverNumbers'
    BY <1>2, <2>12, <2>13 DEF ReceiverNumbers
  <2> QED BY <2>10, <2>14
<1> QED BY <1>5, <1>6

(* A path packet that is accepted announces its file, the empty one none. *)
LEMMA FileAnnounced ==
    ASSUME LineTypeOK, ReceiverTypes, ReceiverNumbers,
           rState = "RECEIVE_PACK_PATH", NEW item \in Item, FilePathTaken(item),
           UNCHANGED rNum, rState' = "SEND_ACK1"
    PROVE  ReceiverNumbers' /\ ((\E f \in 1..Len(Files) : Delivery!Announce(f)) \/ UNCHANGED <<rFile, rGot, rEnd>>)
<1>1. rNum' = 0
  BY DEF ReceiverNumbers
<1>2. CASE item.part = 0 /\ item.file # 0
  <2>1. rEmpty' = FALSE /\ rFile' = item.file /\ rGot' = <<>> /\ rEnd' = FALSE
    BY <1>2 DEF FilePathTaken
  <2>2. rFile' \in 1..Len(Files) /\ Parts(rFile') # 0 /\ Len(rGot') = 0
    BY <1>2, <2>1, PartsType, FilesAssumption, EmptySeq DEF Item, FileId
  <2>3. Delivery!Announce(rFile')
    BY <2>1 DEF Delivery!Announce
  <2>4. ReceiverNumbers'
    BY <1>1, <2>1, <2>2 DEF ReceiverNumbers, Open
  <2> QED BY <2>2, <2>3, <2>4
<1>3. CASE ~(item.part = 0 /\ item.file # 0)
  <2>1. rEmpty' = TRUE /\ UNCHANGED <<rFile, rGot, rEnd>>
    BY <1>3 DEF FilePathTaken, store
  <2>2. ReceiverNumbers'
    BY <1>1, <2>1 DEF ReceiverNumbers, Open
  <2> QED BY <2>1, <2>2
<1> QED BY <1>2, <1>3

LEMMA ReceiverDelivers ==
    ASSUME FewParts, LineTypeOK, ReceiverTypes, Numbered(toReceiver), ReceiverNumbers, Talk, ReceiverNext
    PROVE  ReceiverNumbers' /\ (Delivery!Next \/ UNCHANGED <<rFile, rGot, rEnd>>)
<1> USE DEF GoesTo, Restarts, keepPackage, store
<1>a. toReceiver \in Seq(Arrival)
  BY DEF LineTypeOK
<1>b. ASSUME UNCHANGED <<rFile, rGot, rEnd>>,
             rState' \in {"SEND_C1", "RECEIVE_PACK_PATH", "SEND_ACK1"} => rNum' = 0,
             rState' # "SEND_ACK1",
             Open' => Open /\ rState # "SEND_ACK1" /\ rNum' = rNum
      PROVE  ReceiverNumbers' /\ (Delivery!Next \/ UNCHANGED <<rFile, rGot, rEnd>>)
  BY <1>b DEF ReceiverNumbers
<1>1. CASE ReceiverBegins
  BY <1>1, <1>b DEF ReceiverBegins, Open
<1>2. CASE SendC
  BY <1>2, <1>b DEF SendC, Open, ReceiverNumbers
<1>3. CASE ReceivePackPath
  <2>1. PICK package \in Packages :
          /\ ReadPackage(package)
          /\ \/ /\ package.as = "CPL"
                /\ FilePathTaken(Head(toReceiver).item)
                /\ rState' = "SEND_ACK1"
             \/ /\ package.as # "CPL"
                /\ rState' \in {"START", "RECEIVE_PACK_PATH"}
                /\ UNCHANGED store
    BY <1>3 DEF ReceivePackPath
  <2>2. rState = "RECEIVE_PACK_PATH" /\ UNCHANGED rNum /\ rNum = 0
    BY <1>3 DEF ReceivePackPath, ReceiverNumbers
  <2>3. CASE package.as = "CPL"
    <3>1. toReceiver # <<>> /\ Head(toReceiver).kind = "PACKET"
      BY <1>a, <2>3, PackageFacts
    <3>2. Head(toReceiver).item \in Item
      BY <1>a, <3>1, HeadPacket
    <3> QED BY <2>1, <2>2, <2>3, <3>2, FileAnnounced DEF Delivery!Next
  <2>4. CASE package.as # "CPL"
    BY <1>b, <2>1, <2>2, <2>4 DEF Open
  <2> QED BY <2>3, <2>4
<1>4. CASE FilePathRefused
  BY <1>4, <1>b DEF FilePathRefused, Open
<1>5. CASE SendAck1
  <2>1. UNCHANGED <<rFile, rGot, rEnd>> /\ rState = "SEND_ACK1"
    BY <1>5 DEF SendAck1
  <2>2. CASE rEmpty
    <3>1. rState' = "START"
      BY <1>5, <2>2 DEF SendAck1
    <3> QED BY <1>b, <2>1, <3>1 DEF Open
  <2>3. CASE ~rEmpty
    <3>1. rState' = "SEND_C2" /\ rNum' = (rNum + 1) % Blocks
      BY <1>5, <2>3 DEF SendAck1
    <3>2. rNum = 0 /\ rGot = <<>> /\ Len(rGot) = 0 /\ Open
      BY <2>1, <2>3, EmptySeq DEF ReceiverNumbers, Open
    <3>3. rNum' = 1
      BY <3>1, <3>2, BlocksAssumption
    <3>4. rNum' = Len(rGot') + 1
      BY <2>1, <3>2, <3>3
    <3> QED BY <2>1, <3>1, <3>2, <3>4 DEF ReceiverNumbers
  <2> QED BY <2>2, <2>3
<1>6. CASE ReceivePackData
  <2>1. PICK package \in Packages :
          /\ ReadPackage(package)
          /\ \/ /\ package.as = "CPL"
                /\ FileDataStored(Head(toReceiver).item)
                /\ rNum' = (rNum + 1) % Blocks
                /\ rState' = "SEND_ANSWER"
             \/ /\ rState' \in {"SEND_ANSWER", "SEND_NAK"}
                /\ UNCHANGED <<store, rNum>>
    BY <1>6 DEF ReceivePackData, Retry
  <2>2. rState = "RECEIVE_PACK_DATA"
    BY <1>6 DEF ReceivePackData
  <2>3. CASE /\ package.as = "CPL"
             /\ FileDataStored(Head(toReceiver).item)
             /\ rNum' = (rNum + 1) % Blocks
             /\ rState' = "SEND_ANSWER"
    <3>1. toReceiver # <<>> /\ Head(toReceiver).kind = "PACKET" /\ Head(toReceiver).num = rNum
      BY <1>a, <2>3, PackageFacts
    <3> QED BY <2>2, <2>3, <3>1, PartStored DEF Delivery!Next
  <2>4. CASE rState' \in {"SEND_ANSWER", "SEND_NAK"} /\ UNCHANGED <<store, rNum>>
    BY <1>b, <2>2, <2>4 DEF Open
  <2> QED BY <2>1, <2>3, <2>4
<1>7. CASE FileDataFails
  BY <1>7, <1>b DEF FileDataFails, Open
<1>8. CASE SendAnswer
  BY <1>8, <1>b DEF SendAnswer, Open
<1>9. CASE SendNak
  BY <1>9, <1>b DEF SendNak, Open
<1>10. ASSUME NEW stay \in {"RECIVE_EOT", "SEND_ANSWER", "SEND_NAK"}, ReadsEot(stay),
              rState \in {"RECIVE_EOT", "SEND_ANSWER", "SEND_NAK"}
       PROVE  ReceiverNumbers' /\ (Delivery!Next \/ UNCHANGED <<rFile, rGot, rEnd>>)
  <2>1. /\ UNCHANGED <<rFile, rGot, rEnd, rNum>>
        /\ rState' \in {"START", "SEND_ACK2", "RECIVE_EOT", "SEND_ANSWER", "SEND_NAK"}
    BY <1>10 DEF ReadsEot
  <2> QED BY <1>10, <1>b, <2>1 DEF Open
<1>11. CASE ReciveEot
  BY <1>10, <1>11 DEF ReciveEot
<1>12. CASE SendAnswerRefused
  BY <1>12, <1>b DEF SendAnswerRefused, Open
<1>13. CASE SendAnswerRefusedTwice
  BY <1>10, <1>13 DEF SendAnswerRefusedTwice
<1>14. CASE SendNakRefused
  BY <1>10, <1>14 DEF SendNakRefused
<1>15. CASE SendAck2
  BY <1>15, <1>b DEF SendAck2, Open
<1> QED BY <1>1, <1>2, <1>3, <1>4, <1>5, <1>6, <1>7, <1>8, <1>9, <1>11, <1>12, <1>13, <1>14, <1>15 DEF ReceiverNext

-----------------------------------------------------------------------------
LEMMA DeliveryInvHolds == Init => DeliveryInv
<1> SUFFICES ASSUME Init PROVE DeliveryInv
  OBVIOUS
<1>1. /\ toReceiver = <<>> /\ toSender = <<>> /\ rState = "START" /\ sState = "START"
      /\ rFile = 0 /\ rEnd = FALSE
  BY DEF Init, LineInit, ReceiverInit, SenderInit
<1>2. Len(<<>>) = 0 /\ 1..0 = {}
  BY EmptySeq
<1>3. Numbered(toReceiver) /\ PathFinal(toReceiver) /\ ~HasPath(toReceiver)
  BY <1>1, <1>2 DEF Numbered, PathFinal, HasPath
<1>4. ~Open /\ ~AckComes
  BY <1>1 DEF Open, AckComes
<1>5. Numbers
  BY <1>1, <1>3, <1>4 DEF Numbers, SenderNumbers, ReceiverNumbers, Sending
<1>6. PathTalk
  BY <1>1, <1>3 DEF PathTalk
<1>7. AckTalk
  BY <1>1, <1>4, NothingToRead DEF AckTalk
<1>8. FileTalk
  BY <1>4 DEF FileTalk
<1> QED BY <1>5, <1>6, <1>7, <1>8, TypesHold DEF DeliveryInv, Talk

(* A step keeps the invariant, and is one of FileDelivery or none. *)
LEMMA DeliveryStep ==
    ASSUME FewParts, DeliveryInv, [Next]_vars
    PROVE  DeliveryInv' /\ (Delivery!Next \/ UNCHANGED <<rFile, rGot, rEnd>>)
<1>a. /\ Types /\ LineTypeOK /\ ReceiverTypes /\ SenderTypes /\ SenderTypeOK
      /\ Numbered(toReceiver) /\ SenderNumbers /\ ReceiverNumbers /\ Numbers /\ Talk
  BY DEF DeliveryInv, Types, Numbers, SenderTypes
<1>b. Types'
  BY <1>a, TypesKept
<1>1. CASE ReceiverNext /\ UNCHANGED sender
  <2>1. GoesOn \/ Answers \/ Accepts
    BY <1>a, <1>1, ReceiverStepKinds
  <2>2. Talk'
    BY <1>a, <1>1, <2>1, GoesOnKeepsTalk, AnswersKeepsTalk, AcceptsKeepsTalk
  <2>3. Numbered(toReceiver')
    BY <1>a, <2>1, ReadNumbered
  <2>4. ReceiverNumbers' /\ (Delivery!Next \/ UNCHANGED <<rFile, rGot, rEnd>>)
    BY <1>a, <1>1, ReceiverDelivers
  <2>5. SenderNumbers'
    BY <1>a, <1>1 DEF sender, SenderNumbers
  <2> QED BY <1>b, <2>2, <2>3, <2>4, <2>5 DEF DeliveryInv, Numbers
<1>2. CASE SenderNext /\ UNCHANGED receiver
  <2>1. Talk'
    BY <1>a, <1>2, SenderKeepsTalk
  <2>2. Numbered(toReceiver')
    BY <1>a, <1>2, SentNumbered
  <2>3. SenderNumbers'
    BY <1>a, <1>2, SenderNumbersKept
  <2>4. ReceiverNumbers' /\ UNCHANGED <<rFile, rGot, rEnd>>
    BY <1>a, <1>2 DEF receiver, ReceiverNumbers, Open
  <2> QED BY <1>b, <2>1, <2>2, <2>3, <2>4 DEF DeliveryInv, Numbers
<1>3. CASE PeerCancels
  <2>1. Talk'
    BY <1>a, <1>3, CancelKeepsTalk
  <2>2. Numbered(toReceiver')
    <3>1. /\ Control("CAN") \in Arrival /\ Control("CAN").kind # "PACKET"
          /\ toReceiver \in Seq(Arrival) /\ Len(toReceiver) <= LineCap /\ LineCap \in Nat
      BY <1>a, ArrivalKinds, LineAssumption DEF LineTypeOK
    <3>2. Arrives(toReceiver, Control("CAN"), toReceiver')
      BY <1>3, <3>1, FitsLine DEF PeerCancels, Arrives
    <3> QED BY <1>a, <3>1, <3>2, NoPacketArrives
  <2>3. SenderNumbers'
    BY <1>3 DEF PeerCancels, SenderNumbers, Sending
  <2>4. ReceiverNumbers' /\ UNCHANGED <<rFile, rGot, rEnd>>
    BY <1>a, <1>3 DEF PeerCancels, receiver, ReceiverNumbers, Open
  <2> QED BY <1>b, <2>1, <2>2, <2>3, <2>4 DEF DeliveryInv, Numbers
<1>4. CASE Tick
  <2>1. Talk'
    BY <1>a, <1>4, TickKeepsTalk
  <2>2. Numbers' /\ UNCHANGED <<rFile, rGot, rEnd>>
    BY <1>a, <1>4 DEF Tick, line, Numbers, SenderNumbers, ReceiverNumbers, Open
  <2> QED BY <1>b, <2>1, <2>2 DEF DeliveryInv
<1>5. CASE UNCHANGED vars
  <2>1. UNCHANGED <<line, receiver, sender>>
    BY <1>5 DEF vars
  <2>2. /\ UNCHANGED <<toReceiver, toSender, sState, sFile, sWait>>
        /\ rFile' = rFile /\ Open' = Open /\ Storing' = Storing
        /\ AckComes' = AckComes /\ CComes' = CComes
    BY <2>1, ReceiverSame DEF line, sender
  <2>3. Talk'
    BY <1>a, <2>2 DEF Talk, PathTalk, AckTalk, FileTalk
  <2>4. Numbers' /\ UNCHANGED <<rFile, rGot, rEnd>>
    BY <1>a, <2>1 DEF line, receiver, sender, Numbers, SenderNumbers, ReceiverNumbers, Open
  <2> QED BY <1>b, <2>3, <2>4 DEF DeliveryInv
<1> QED BY <1>1, <1>2, <1>3, <1>4, <1>5 DEF Next

(* Block numbers agree with parts, and the answers queued for the sender   *)
(* stand in an order that cannot make it send data of another file than    *)
(* the one the receiver has open.                                          *)
THEOREM TransferOrderly == FewParts => (Spec => []DeliveryInv)
<1> SUFFICES ASSUME FewParts PROVE Spec => []DeliveryInv
  OBVIOUS
<1>1. DeliveryInv /\ [Next]_vars => DeliveryInv'
  BY DeliveryStep
<1> QED BY <1>1, DeliveryInvHolds, PTL DEF Spec

(* Whatever the line loses, garbles, delays or invents, whichever write is *)
(* refused and however long a callback takes: the parts ymodem_receive     *)
(* hands to the flash are those of the announced file, in order and        *)
(* without gap, and the end mark is set with the last of them; if no file  *)
(* has as many parts as there are block numbers.                           *)
THEOREM TransferDelivers == FewParts => (Spec => DeliverySpec)
<1> SUFFICES ASSUME FewParts PROVE Spec => DeliverySpec
  OBVIOUS
<1>1. Init => Delivery!Init
  BY DEF Init, ReceiverInit, Delivery!Init
<1>2. DeliveryInv /\ [Next]_vars => DeliveryInv'
  BY DeliveryStep
<1>3. DeliveryInv /\ [Next]_vars => [Delivery!Next]_(Delivery!vars)
  BY DeliveryStep DEF Delivery!vars
<1> QED BY <1>1, <1>2, <1>3, DeliveryInvHolds, PTL DEF Spec, DeliverySpec, Delivery!Spec
-----------------------------------------------------------------------------
(* When the sender's callbacks take less than the receiver's timeout, no    *)
(* byte is made up and no write is refused, the two sides take turns on    *)
(* the line: whoever writes has nothing to read, and the other one waits   *)
(* for it.                                                                 *)
TurnsTaken == "sender" \notin Slow /\ FaultKinds \cap {"write", "residue"} = {}

Sends == sState \in {"SEND_PACK_PATH", "SEND_PACK_DATA", "SEND_EOT1", "SEND_EOT2"}

OneTurn ==
    /\ Sends \/ toReceiver # <<>> => toSender = <<>> /\ ReceiverReads /\ rWait = 0
    /\ rWait > 0 => toSender = <<>> /\ ReceiverReads

(* What the sender can have to read: the last answer of a file, and the    *)
(* C's that ask for the next.                                              *)
LastWord == {<<>>} \cup {<<x>> : x \in {"ACK", "CAN", "NOISE"}}
Word == {<<x>> : x \in Reply}
LastWordAndC == {<<x, y>> : x \in {"ACK", "CAN", "NOISE"}, y \in {"C", "NOISE"}}
Replied ==
    /\ rState \in {"SEND_ANSWER", "SEND_NAK", "SEND_ACK1", "SEND_ACK2"} => toSender = <<>>
    /\ rState \in {"START", "SEND_C1", "SEND_C2"} => toSender \in LastWord
    /\ rState \in {"RECEIVE_PACK_PATH", "RECEIVE_PACK_DATA"} => toSender \in LastWord \cup Word \cup LastWordAndC
    /\ rState = "RECIVE_EOT" => toSender \in {<<>>, <<"NAK">>, <<"NOISE">>}
    /\ rState = "SEND_NAK" => rByte = "NAK"

(* One arrival at most is on its way, and while the sender waits for the   *)
(* answer to a data packet it is that packet or what noise made of it.     *)
DataSent(x) ==
    \/ x = Packet(sNum, [file |-> sFile, part |-> sPart])
    \/ x.kind \in {"BADCRC", "SHORT"}
InFlight ==
    toReceiver # <<>> => LET x == Head(toReceiver) IN
        /\ toReceiver = <<x>>
        /\ ~Sends
        /\ x.kind = "RESIDUE" => x.left = 1
        /\ rState = "RECIVE_EOT" => x.kind \in {"EOT", "RESIDUE"}
        /\ sState = "RECEIVE_ANSWER" => DataSent(x)

(* An ACK the sender is going to read answers the packet it has sent last. *)
RightAck ==
    /\ rState \in {"START", "SEND_C1", "RECEIVE_PACK_PATH", "RECEIVE_PACK_DATA", "SEND_ANSWER"}
    /\ Has(toSender, "ACK") => rState = "RECEIVE_PACK_DATA" /\ toSender = <<"ACK">>
    /\ Has(toSender, "ACK") \/ AckComes => rFile = sFile /\ Len(rGot) >= sPart
Answered ==
    /\ sState = "SEND_PACK_PATH" => rState # "RECIVE_EOT"
    /\ sState = "SEND_PACK_DATA" => rState \in {"RECEIVE_PACK_PATH", "RECEIVE_PACK_DATA"}
    /\ sState = "RECEIVE_ANSWER" => RightAck
    /\ AckMeansStored

TurnInv == sState # "GONE" => OneTurn /\ Replied /\ InFlight /\ Answered

LEMMA Words ==
    /\ \A x : /\ <<x>> # <<>> /\ Head(<<x>>) = x /\ Tail(<<x>>) = <<>>
              /\ \A a : Has(<<x>>, a) <=> x = a
    /\ \A x, y : /\ <<x, y>> # <<>> /\ Head(<<x, y>>) = x /\ Tail(<<x, y>>) = <<y>>
                 /\ \A a : Has(<<x, y>>, a) <=> x = a \/ y = a
    /\ \A x : Append(<<>>, x) = <<x>>
    /\ \A x, y : Append(<<x>>, y) = <<x, y>>
<1>1. \A x : /\ <<x>> # <<>> /\ Head(<<x>>) = x /\ Tail(<<x>>) = <<>>
             /\ Len(<<x>>) = 1 /\ <<x>>[1] = x
  OBVIOUS
<1>2. \A x, y : /\ <<x, y>> # <<>> /\ Head(<<x, y>>) = x /\ Tail(<<x, y>>) = <<y>>
                /\ Len(<<x, y>>) = 2 /\ <<x, y>>[1] = x /\ <<x, y>>[2] = y
  OBVIOUS
<1>3. 1..1 = {1} /\ 1..2 = {1, 2}
  OBVIOUS
<1>4. \A x, a : Has(<<x>>, a) <=> x = a
  BY <1>1, <1>3 DEF Has
<1>5. \A x, y, a : Has(<<x, y>>, a) <=> x = a \/ y = a
  BY <1>2, <1>3 DEF Has
<1>6. \A x : Append(<<>>, x) = <<x>>
  OBVIOUS
<1>7. ASSUME NEW x, NEW y PROVE Append(<<x>>, y) = <<x, y>>
  <2> DEFINE S == {x, y}
  <2>1. <<x>> \in Seq(S) /\ <<x, y>> \in Seq(S) /\ y \in S
    OBVIOUS
  <2> HIDE DEF S
  <2>2. /\ Append(<<x>>, y) \in Seq(S) /\ Len(Append(<<x>>, y)) = 2
        /\ Append(<<x>>, y)[1] = x /\ Append(<<x>>, y)[2] = y
    BY <1>1, <1>3, <2>1, AppendProperties
  <2>3. \A i \in 1..2 : Append(<<x>>, y)[i] = <<x, y>>[i]
    BY <1>2, <1>3, <2>2
  <2> QED BY <1>2, <2>1, <2>2, <2>3, SeqEqual
<1> QED BY <1>1, <1>2, <1>4, <1>5, <1>6, <1>7

(* What is left to read when the first word is taken. *)
LEMMA WordTaken ==
    ASSUME NEW q \in LastWord \cup Word \cup LastWordAndC, q # <<>>
    PROVE  /\ Tail(q) \in LastWord \cup Word
           /\ Head(q) \in {"C", "NAK"} => Tail(q) = <<>> /\ q \notin LastWord
           /\ q \in LastWord => Tail(q) = <<>>
           /\ \A a : Has(Tail(q), a) => Has(q, a)
<1>1. CASE q \in LastWord \cup Word
  <2>1. PICK x \in Reply : q = <<x>>
    BY <1>1 DEF LastWord, Word, Reply
  <2>2. Head(q) = x /\ Tail(q) = <<>> /\ ~\E a : Has(<<>>, a)
    BY <2>1, Words, OrderEmpty
  <2>3. q \in LastWord => x \in {"ACK", "CAN", "NOISE"}
    <3> HAVE q \in LastWord
    <3>1. PICK y \in {"ACK", "CAN", "NOISE"} : q = <<y>>
      BY DEF LastWord
    <3> QED BY <2>2, <3>1, Words
  <2>4. <<>> \in LastWord
    BY DEF LastWord
  <2> QED BY <2>2, <2>3, <2>4
<1>2. CASE q \in LastWordAndC
  <2>1. PICK x \in {"ACK", "CAN", "NOISE"}, y \in {"C", "NOISE"} : q = <<x, y>>
    BY <1>2 DEF LastWordAndC
  <2>2. Head(q) = x /\ Tail(q) = <<y>>
    BY <2>1, Words
  <2>3. <<y>> \in Word
    BY DEF Word, Reply
  <2>4. q \notin LastWord
    <3> SUFFICES ASSUME q \in LastWord PROVE FALSE
      OBVIOUS
    <3>1. PICK z : q = <<z>>
      BY DEF LastWord
    <3>2. Tail(q) = <<>> /\ <<y>> # <<>>
      BY <3>1, Words
    <3> QED BY <2>2, <3>2
  <2>5. \A a : Has(Tail(q), a) => Has(q, a)
    BY <2>1, <2>2, Words
  <2> QED BY <2>2, <2>3, <2>4, <2>5
<1> QED BY <1>1, <1>2

(* The receiver takes the one arrival there is. *)
LEMMA OnePackage ==
    ASSUME LineTypeOK, InFlight, rState # "RECIVE_EOT", toReceiver # <<>>, NEW package \in Packages
    PROVE  /\ package.rest = <<>>
           /\ Head(toReceiver).kind = "PACKET" => package.as = Checked(Head(toReceiver).num)
           /\ Head(toReceiver).kind \in {"BADCRC", "SHORT"} => package.as \in {"INCORRECT_CHECKOUT", "TIMEOUT"}
<1> USE DEF Package
<1> DEFINE head == Head(toReceiver)
           after == Tail(toReceiver)
<1>1. head \in Arrival /\ after = <<>> /\ (head.kind = "RESIDUE" => head.left = 1)
  BY Words, HeadTailProperties DEF LineTypeOK, InFlight
<1>2. Broken(after) = <<>> /\ Unread(1) \o after = <<>>
  BY <1>1 DEF Broken, Unread
<1>3. CASE head.kind = "PACKET"
  <2>1. package = Package(Checked(head.num), after)
    BY <1>3 DEF Packages
  <2> QED BY <1>1, <1>3, <2>1
<1>4. CASE head.kind = "BADCRC"
  <2>1. package = Package("INCORRECT_CHECKOUT", after)
    BY <1>4 DEF Packages
  <2> QED BY <1>1, <1>4, <2>1
<1>5. CASE head.kind = "SHORT"
  <2>1. package = Package("TIMEOUT", Broken(after))
    BY <1>1, <1>5 DEF Packages
  <2> QED BY <1>2, <1>5, <2>1
<1>6. CASE head.kind = "RESIDUE"
  <2>1. PICK as \in {"INCORRECT_HEADER", "EOT", "CAN", "TIMEOUT", "INCORRECT_NBlk"} :
           \/ package = Package(as, Unread(head.left) \o after)
           \/ package = Package(as, Broken(after))
    BY <1>6 DEF Packages
  <2>2. package = Package(as, <<>>)
    BY <1>1, <1>2, <1>6, <2>1
  <2> QED BY <1>6, <2>2
<1>7. CASE head.kind \in {"EOT", "CAN"}
  <2>1. package = Package(head.kind, after)
    BY <1>7 DEF Packages
  <2> QED BY <1>1, <1>7, <2>1
<1> QED BY <1>1, <1>3, <1>4, <1>5, <1>6, <1>7, ArrivalKinds

LEMMA OneRaw ==
    ASSUME LineTypeOK, InFlight, rState = "RECIVE_EOT", toReceiver # <<>>, NEW raw \in RawBytes
    PROVE  raw.rest = <<>>
<1> USE DEF Raw
<1> DEFINE head == Head(toReceiver)
           after == Tail(toReceiver)
<1>1. head.kind \in {"EOT", "RESIDUE"} /\ after = <<>> /\ (head.kind = "RESIDUE" => head.left = 1)
  BY Words DEF InFlight
<1>2. Unread(1) \o after = <<>>
  BY <1>1 DEF Unread
<1>3. CASE head.kind = "EOT"
  <2>1. raw = Raw("EOT", after)
    BY <1>3 DEF RawBytes
  <2> QED BY <1>1, <2>1
<1>4. CASE head.kind = "RESIDUE"
  <2>1. PICK byte \in {"EOT", "CAN", "OTHER"} : raw = Raw(byte, Unread(head.left) \o after)
    BY <1>4 DEF RawBytes
  <2> QED BY <1>1, <1>2, <1>4, <2>1
<1> QED BY <1>1, <1>3, <1>4

-----------------------------------------------------------------------------
(* The receiver moves. *)
LEMMA ReadingNow ==
    ASSUME TurnInv, sState # "GONE", toReceiver # <<>> \/ ReceiverTimesOut
    PROVE  ~Sends /\ toSender = <<>> /\ ReceiverReads
<1>1. OneTurn /\ InFlight
  BY DEF TurnInv
<1>2. CASE toReceiver # <<>>
  BY <1>1, <1>2 DEF OneTurn, InFlight
<1>3. CASE ReceiverTimesOut
  <2>1. rWait > 0
    BY <1>3, RTicksAssumption DEF ReceiverTimesOut
  <2>2. rWait # 0
    BY <2>1
  <2> QED BY <1>1, <2>1, <2>2 DEF OneTurn
<1> QED BY <1>2, <1>3

LEMMA WritingNow ==
    ASSUME TurnInv, sState # "GONE", ReceiverTypes, ~ReceiverReads
    PROVE  ~Sends /\ toReceiver = <<>> /\ rWait = 0
<1>1. OneTurn
  BY DEF TurnInv
<1>2. rWait \in Nat
  BY RTicksAssumption DEF ReceiverTypes, ReceiverTypeOK
<1> QED BY <1>1, <1>2 DEF OneTurn

LEMMA TurnPassed ==
    ASSUME sState # "GONE", ~Sends, UNCHANGED sender, toReceiver' = <<>>, rWait' = 0, Replied',
           sState = "RECEIVE_ANSWER" => RightAck'
    PROVE  TurnInv'
<1>1. UNCHANGED <<sState, sPart, sFile>> /\ ~Sends'
  BY DEF sender, Sends
<1>2. OneTurn'
  BY <1>1 DEF OneTurn
<1>3. InFlight'
  BY DEF InFlight
<1>4. Answered'
  BY <1>1 DEF Answered, AckMeansStored, Sends
<1> QED BY <1>2, <1>3, <1>4 DEF TurnInv

LEMMA TurnRead ==
    ASSUME sState # "GONE", ~Sends, UNCHANGED sender, toReceiver' = <<>>, rWait' = 0, toSender' = <<>>,
           rState' = "SEND_NAK" => rByte' = "NAK",
           sState = "RECEIVE_ANSWER" =>
             /\ rState' \in {"START", "RECEIVE_PACK_PATH", "RECEIVE_PACK_DATA", "SEND_ANSWER"}
             /\ AckComes' => rFile' = sFile /\ Len(rGot') >= sPart
    PROVE  TurnInv'
<1>1. UNCHANGED <<sState, sPart, sFile>>
  BY DEF sender
<1>2. <<>> \in LastWord
  BY DEF LastWord
<1>3. Replied'
  BY <1>1, <1>2 DEF Replied, Sends
<1>4. ~Has(toSender', "ACK")
  BY OrderEmpty
<1>5. sState = "RECEIVE_ANSWER" => RightAck'
  BY <1>1, <1>4 DEF RightAck
<1> QED BY <1>3, <1>5, TurnPassed

(* An answer is written into an empty queue, a C behind the last one. *)
LEMMA FirstWritten ==
    ASSUME toSender = <<>>, NEW x, Written(toSender, x, toSender')
    PROVE  /\ toSender' \in {<<>>, <<x>>, <<"NOISE">>}
           /\ Has(toSender', "ACK") => x = "ACK" /\ toSender' = <<"ACK">>
<1>1. toSender' \in {<<>>, <<x>>, <<"NOISE">>}
  BY Words DEF Written
<1> QED BY <1>1, Words, OrderEmpty

LEMMA CWritten ==
    ASSUME toSender \in LastWord, Written(toSender, "C", toSender')
    PROVE  /\ toSender' \in LastWord \cup Word \cup LastWordAndC
           /\ Has(toSender', "ACK") => Has(toSender, "ACK")
<1>1. CASE toSender = <<>>
  <2>1. toSender' \in {<<>>, <<"C">>, <<"NOISE">>} /\ ~Has(toSender', "ACK")
    BY <1>1, FirstWritten
  <2>2. <<>> \in LastWord /\ <<"C">> \in Word /\ <<"NOISE">> \in Word
    BY DEF LastWord, Word, Reply
  <2> QED BY <2>1, <2>2
<1>2. CASE toSender # <<>>
  <2>1. PICK x \in {"ACK", "CAN", "NOISE"} : toSender = <<x>>
    BY <1>2 DEF LastWord
  <2>2. toSender' \in {<<x>>, <<x, "C">>, <<x, "NOISE">>}
    BY <2>1, Words DEF Written
  <2>3. <<x, "C">> \in LastWordAndC /\ <<x, "NOISE">> \in LastWordAndC
    BY <2>1 DEF LastWordAndC
  <2>4. Has(toSender', "ACK") => x = "ACK"
    BY <2>2, Words
  <2> QED BY <1>2, <2>1, <2>2, <2>3, <2>4, Words
<1> QED BY <1>1, <1>2

(* The ACK that follows a stored part, or a repeated one. *)
LEMMA PartAcknowledged ==
    ASSUME FewParts, DeliveryInv, sState = "RECEIVE_ANSWER", rState = "RECEIVE_PACK_DATA",
           \/ sNum = rNum /\ \E item \in Item : FileDataStored(item)
           \/ sNum = rNum - 1 /\ UNCHANGED <<rFile, rGot>>
    PROVE  rFile' = sFile /\ Len(rGot') >= sPart
<1> DEFINE n == Len(rGot)
           m == Parts(rFile)
<1>1. /\ sFile = rFile /\ rFile # 0 /\ sNum = sPart
      /\ sPart <= Parts(sFile) \/ sPart = 1
      /\ rNum = n + 1 \/ n = m
  BY DEF DeliveryInv, Talk, FileTalk, Numbers, SenderNumbers, ReceiverNumbers, Open, Sending
<1>2. /\ rGot \in Seq(Item) /\ n \in Nat /\ n <= m /\ m \in Nat /\ m > 0
      /\ sNum \in Nat /\ rNum \in Nat
  BY <1>1, PartsType, LenProperties, BlocksAssumption
     DEF DeliveryInv, Types, ReceiverTypes, ReceiverTypeOK, SenderTypes, SenderTypeOK
<1>3. sPart <= m /\ sPart \in Nat
  BY <1>1, <1>2
<1>4. CASE sNum = rNum - 1 /\ UNCHANGED <<rFile, rGot>>
  <2> HIDE DEF n, m
  <2>1. n >= sPart
    BY <1>1, <1>2, <1>3, <1>4
  <2> QED BY <1>1, <1>4, <2>1 DEF n
<1>5. CASE sNum = rNum /\ \E item \in Item : FileDataStored(item)
  <2>1. PICK item \in Item : FileDataStored(item)
    BY <1>5
  <2>2. CASE n < m
    <3>1. rGot' = Append(rGot, item)
      BY <2>1, <2>2 DEF FileDataStored
    <3>2. Len(rGot') = n + 1
      BY <1>2, <3>1, AppendProperties
    <3> HIDE DEF n, m
    <3>3. n + 1 >= sPart
      BY <1>1, <1>2, <1>5, <2>2
    <3> QED BY <1>1, <2>1, <3>2, <3>3 DEF FileDataStored
  <2>3. CASE ~(n < m)
    <3>1. rGot' = rGot
      BY <2>1, <2>3 DEF FileDataStored
    <3> HIDE DEF n, m
    <3>2. n >= sPart
      BY <1>2, <1>3, <2>3
    <3> QED BY <1>1, <2>1, <3>1, <3>2 DEF FileDataStored, n
  <2> QED BY <2>2, <2>3
<1> QED BY <1>4, <1>5

LEMMA PathReadTurn ==
    ASSUME DeliveryInv, TurnInv, sState # "GONE", UNCHANGED sender, ReceivePackPath
    PROVE  TurnInv'
<1> USE DEF GoesTo
<1>1. LineTypeOK /\ InFlight /\ rState = "RECEIVE_PACK_PATH" /\ Answered
  BY DEF DeliveryInv, Types, TurnInv, ReceivePackPath
<1>2. PICK package \in Packages :
        /\ ReadPackage(package)
        /\ rState' = IF package.as = "CPL" THEN "SEND_ACK1"
                     ELSE IF package.as = "TIMEOUT" THEN "START" ELSE "RECEIVE_PACK_PATH"
  BY <1>1 DEF ReceivePackPath
<1>3. toReceiver' = package.rest /\ UNCHANGED toSender /\ rWait' = 0
  BY <1>2 DEF ReadPackage
<1>4. toReceiver # <<>> \/ ReceiverTimesOut
  BY <1>2 DEF Packages
<1>5. ~Sends /\ toSender = <<>>
  BY <1>4, ReadingNow
<1>6. toReceiver' = <<>>
  BY <1>1, <1>2, <1>3, OnePackage, PackageFacts DEF LineTypeOK
<1>7. sState = "RECEIVE_ANSWER" => package.as # "CPL"
  <2> SUFFICES ASSUME sState = "RECEIVE_ANSWER", package.as = "CPL" PROVE FALSE
    OBVIOUS
  <2>1. toReceiver # <<>> /\ Head(toReceiver).kind = "PACKET" /\ Head(toReceiver).num = rNum
    BY <1>1, PackageFacts DEF LineTypeOK
  <2>2. Head(toReceiver) = Packet(sNum, [file |-> sFile, part |-> sPart])
    BY <1>1, <2>1 DEF InFlight, DataSent
  <2>3. Head(toReceiver).num = sNum
    BY <2>2 DEF Packet
  <2>4. sNum = sPart /\ sPart > 0 /\ rNum = 0
    BY <1>1 DEF DeliveryInv, Numbers, SenderNumbers, ReceiverNumbers, Sending
  <2> QED BY <2>1, <2>3, <2>4
<1>8. sState = "RECEIVE_ANSWER" => rState' \in {"START", "RECEIVE_PACK_PATH"}
  BY <1>2, <1>7
<1> QED BY <1>2, <1>3, <1>5, <1>6, <1>8, TurnRead DEF AckComes

LEMMA DataReadTurn ==
    ASSUME FewParts, DeliveryInv, TurnInv, sState # "GONE", UNCHANGED sender, ReceivePackData
    PROVE  TurnInv'
<1> USE DEF GoesTo
<1>1. LineTypeOK /\ InFlight /\ rState = "RECEIVE_PACK_DATA" /\ Answered
  BY DEF DeliveryInv, Types, TurnInv, ReceivePackData
<1>2. PICK package \in Packages :
        /\ ReadPackage(package)
        /\ \/ /\ package.as = "CPL"
              /\ FileDataStored(Head(toReceiver).item)
              /\ rState' = "SEND_ANSWER"
           \/ /\ package.as = "EOT"
              /\ rState' = "SEND_NAK" /\ rByte' = "NAK"
           \/ /\ package.as \in {"CAN", "DUPLICATE"}
              /\ rState' = "SEND_ANSWER"
              /\ UNCHANGED store
           \/ /\ package.as \notin {"CPL", "CAN", "EOT", "DUPLICATE"}
              /\ rState' = "SEND_ANSWER" /\ rByte' # "ACK"
  BY DEF ReceivePackData, Retry
<1>3. toReceiver' = package.rest /\ UNCHANGED toSender /\ rWait' = 0
  BY <1>2 DEF ReadPackage
<1>4. toReceiver # <<>> \/ ReceiverTimesOut
  BY <1>2 DEF Packages
<1>5. ~Sends /\ toSender = <<>>
  BY <1>4, ReadingNow
<1>6. toReceiver' = <<>>
  BY <1>1, <1>2, <1>3, OnePackage, PackageFacts DEF LineTypeOK
<1>7. ASSUME sState = "RECEIVE_ANSWER"
      PROVE  /\ rState' = "SEND_ANSWER"
             /\ AckComes' => rFile' = sFile /\ Len(rGot') >= sPart
  <2>1. package.as \in {"CPL", "DUPLICATE"} => toReceiver # <<>> /\ Head(toReceiver).kind = "PACKET"
    BY <1>1, PackageFacts DEF LineTypeOK
  <2>2. toReceiver = <<>> => package.as = "TIMEOUT"
    BY <1>1, PackageFacts DEF LineTypeOK
  <2>3. toReceiver # <<>> => DataSent(Head(toReceiver))
    BY <1>1, <1>7 DEF InFlight
  <2>4. toReceiver # <<>> /\ Head(toReceiver).kind = "PACKET" => package.as = Checked(sNum)
    <3> HAVE toReceiver # <<>> /\ Head(toReceiver).kind = "PACKET"
    <3>1. Head(toReceiver).num = sNum
      BY <2>3 DEF DataSent, Packet
    <3> QED BY <1>1, <3>1, OnePackage
  <2>5. toReceiver # <<>> /\ Head(toReceiver).kind # "PACKET" => package.as \in {"INCORRECT_CHECKOUT", "TIMEOUT"}
    <3> HAVE toReceiver # <<>> /\ Head(toReceiver).kind # "PACKET"
    <3>1. Head(toReceiver).kind \in {"BADCRC", "SHORT"}
      BY <2>3 DEF DataSent, Packet
    <3> QED BY <1>1, <3>1, OnePackage
  <2>6. Checked(sNum) \in {"CPL", "DUPLICATE", "INCORRECT_PACKET_NUMBER"}
    BY DEF Checked
  <2>7. package.as \notin {"EOT", "CAN"}
    BY <2>2, <2>4, <2>5, <2>6
  <2>8. package.as = "CPL" => sNum = rNum /\ Head(toReceiver).item \in Item
    BY <1>1, <2>1, <2>4, HeadPacket DEF Checked, LineTypeOK
  <2>9. package.as = "DUPLICATE" => sNum = rNum - 1
    BY <2>1, <2>4 DEF Checked
  <2>10. package.as \in {"CPL", "DUPLICATE"} => rFile' = sFile /\ Len(rGot') >= sPart
    BY <1>1, <1>2, <1>7, <2>8, <2>9, PartAcknowledged DEF store
  <2> QED BY <1>2, <2>7, <2>10 DEF AckComes
<1> QED BY <1>2, <1>3, <1>5, <1>6, <1>7, TurnRead

LEMMA RefusedTurn ==
    ASSUME DeliveryInv, TurnInv, sState # "GONE", UNCHANGED sender, FilePathRefused \/ FileDataFails
    PROVE  TurnInv'
<1>1. /\ toReceiver # <<>> /\ toReceiver' = Tail(toReceiver) /\ UNCHANGED toSender /\ rWait' = 0
      /\ rState' = "START" \/ (rState' = "SEND_ANSWER" /\ rByte' = "CAN")
  BY DEF FilePathRefused, FileDataFails, Restarts, GoesTo
<1>2. ~Sends /\ toSender = <<>> /\ InFlight
  BY <1>1, ReadingNow DEF TurnInv
<1>3. toReceiver' = <<>>
  BY <1>1, <1>2, Words DEF InFlight
<1> QED BY <1>1, <1>2, <1>3, TurnRead DEF AckComes

LEMMA EotReadTurn ==
    ASSUME DeliveryInv, TurnInv, sState # "GONE", UNCHANGED sender, ReciveEot
    PROVE  TurnInv'
<1> USE DEF GoesTo, Restarts
<1>1. LineTypeOK /\ InFlight /\ rState = "RECIVE_EOT" /\ Answered
  BY DEF DeliveryInv, Types, TurnInv, ReciveEot
<1>2. PICK raw \in RawBytes : toReceiver' = raw.rest /\ rState' \in {"START", "SEND_ACK2", "RECIVE_EOT"}
  BY DEF ReciveEot, ReadsEot
<1>3. UNCHANGED toSender /\ rWait' = 0
  BY DEF ReciveEot, ReadsEot
<1>4. toReceiver # <<>> \/ ReceiverTimesOut
  BY <1>2 DEF RawBytes
<1>5. ~Sends /\ toSender = <<>>
  BY <1>4, ReadingNow
<1>6. toReceiver' = <<>>
  BY <1>1, <1>2, OneRaw, RawFacts DEF LineTypeOK
<1>7. sState # "RECEIVE_ANSWER"
  BY <1>1 DEF Answered, RightAck
<1> QED BY <1>2, <1>3, <1>5, <1>6, <1>7, TurnRead

LEMMA WriteTurn ==
    ASSUME DeliveryInv, TurnInv, sState # "GONE", UNCHANGED sender,
           ReceiverBegins \/ SendC \/ SendAck1 \/ SendAnswer \/ SendNak \/ SendAck2
    PROVE  TurnInv'
<1> USE DEF GoesTo, Restarts
<1>1. LineTypeOK /\ ReceiverTypes /\ Replied /\ Answered
  BY DEF DeliveryInv, Types, TurnInv
<1>2. rState \in {"START", "SEND_C1", "SEND_C2", "SEND_ACK1", "SEND_ANSWER", "SEND_NAK", "SEND_ACK2"}
  BY DEF ReceiverBegins, SendC, SendAck1, SendAnswer, SendNak, SendAck2
<1>3. ~Sends /\ toReceiver = <<>> /\ rWait = 0
  BY <1>1, <1>2, WritingNow DEF ReceiverReads
<1>4. UNCHANGED <<sState, sPart, sFile, sNum>>
  BY DEF sender
<1>5. sState = "RECEIVE_ANSWER" => RightAck
  BY <1>1 DEF Answered
<1>6. sState \notin {"SEND_PACK_PATH", "SEND_PACK_DATA"}
  BY <1>3 DEF Sends
<1>7. CASE ReceiverBegins
  <2>1. rState = "START" /\ rState' = "SEND_C1" /\ UNCHANGED <<toReceiver, toSender, rWait, rFile, rGot>>
    BY <1>7 DEF ReceiverBegins, line, store
  <2>2. Replied'
    BY <1>1, <2>1 DEF Replied
  <2>3. sState = "RECEIVE_ANSWER" => RightAck'
    BY <1>4, <1>5, <2>1 DEF RightAck, AckComes
  <2> QED BY <1>3, <2>1, <2>2, <2>3, TurnPassed
<1>8. CASE SendC
  <2>1. /\ \/ rState = "SEND_C1" /\ rState' = "RECEIVE_PACK_PATH"
           \/ rState = "SEND_C2" /\ rState' = "RECEIVE_PACK_DATA"
        /\ Writes(rByte) /\ rByte = "C" /\ rWait' = 0 /\ UNCHANGED <<rFile, rGot>>
    BY <1>1, <1>8 DEF SendC, Writes, store, ReceiverTypes
  <2>2. Written(toSender, "C", toSender') /\ UNCHANGED toReceiver
    BY <1>1, <2>1, ReceiverWrites DEF Reply
  <2>3. toSender \in LastWord
    BY <1>1, <2>1 DEF Replied
  <2>4. /\ toSender' \in LastWord \cup Word \cup LastWordAndC
        /\ Has(toSender', "ACK") => Has(toSender, "ACK")
    BY <2>2, <2>3, CWritten
  <2>5. Replied'
    BY <2>1, <2>4 DEF Replied
  <2>6. sState = "RECEIVE_ANSWER" => RightAck'
    BY <1>4, <1>5, <2>1, <2>4 DEF RightAck, AckComes
  <2> QED BY <1>3, <2>1, <2>2, <2>5, <2>6, TurnPassed
<1>9. CASE SendAck1 \/ SendAck2
  <2>1. /\ rState \in {"SEND_ACK1", "SEND_ACK2"} /\ rState' \in {"START", "SEND_C2"}
        /\ Writes("ACK") /\ rWait' = 0
    BY <1>1, <1>9 DEF SendAck1, SendAck2, Writes, ReceiverTypes
  <2>2. Written(toSender, "ACK", toSender') /\ UNCHANGED toReceiver
    BY <1>1, <2>1, ReceiverWrites DEF Reply
  <2>3. toSender = <<>>
    BY <1>1, <2>1 DEF Replied
  <2>4. toSender' \in LastWord
    BY <2>2, <2>3, FirstWritten DEF LastWord
  <2>5. Replied'
    BY <2>1, <2>4 DEF Replied
  <2>6. sState # "RECEIVE_ANSWER"
    BY <1>5, <2>1 DEF RightAck
  <2> QED BY <1>3, <2>1, <2>2, <2>5, <2>6, TurnPassed
<1>10. CASE SendAnswer
  <2>1. /\ rState = "SEND_ANSWER" /\ Writes(rByte) /\ rWait' = 0
        /\ \/ rByte = "CAN" /\ rState' = "START"
           \/ rByte # "CAN" /\ rState' = "RECEIVE_PACK_DATA"
        /\ UNCHANGED <<rFile, rGot>>
    BY <1>10 DEF SendAnswer, Writes, store
  <2>2. PICK x \in Reply : /\ x = IF rByte \in Reply THEN rByte ELSE "NOISE"
                           /\ Written(toSender, x, toSender')
                           /\ UNCHANGED toReceiver
    BY <1>1, <2>1, ReceiverWrites
  <2>3. toSender = <<>>
    BY <1>1, <2>1 DEF Replied
  <2>4. /\ toSender' \in {<<>>, <<x>>, <<"NOISE">>}
        /\ Has(toSender', "ACK") => x = "ACK" /\ toSender' = <<"ACK">>
    BY <2>2, <2>3, FirstWritten
  <2>5. /\ <<>> \in LastWord /\ <<"NOISE">> \in LastWord /\ <<x>> \in Word
        /\ x = "CAN" => <<x>> \in LastWord
    BY DEF LastWord, Word
  <2>6. rByte = "CAN" => x = "CAN"
    BY <2>2 DEF Reply
  <2>7. x = "ACK" => rByte = "ACK"
    BY <2>2
  <2>8. Replied'
    BY <2>1, <2>4, <2>5, <2>6 DEF Replied
  <2>9. sState = "RECEIVE_ANSWER" => RightAck'
    BY <1>4, <1>5, <2>1, <2>4, <2>7 DEF RightAck, AckComes
  <2> QED BY <1>3, <2>1, <2>2, <2>8, <2>9, TurnPassed
<1>11. CASE SendNak
  <2>1. /\ rState = "SEND_NAK" /\ rState' = "RECIVE_EOT" /\ rByte = "NAK"
        /\ Writes(rByte) /\ rWait' = 0
    BY <1>1, <1>11 DEF SendNak, Writes, Replied
  <2>2. Written(toSender, "NAK", toSender') /\ UNCHANGED toReceiver
    BY <1>1, <2>1, ReceiverWrites DEF Reply
  <2>3. toSender = <<>>
    BY <1>1, <2>1 DEF Replied
  <2>4. toSender' \in {<<>>, <<"NAK">>, <<"NOISE">>}
    BY <2>2, <2>3, FirstWritten
  <2>5. Replied'
    BY <1>4, <1>6, <2>1, <2>4 DEF Replied
  <2>6. sState # "RECEIVE_ANSWER"
    BY <1>5, <2>1 DEF RightAck
  <2> QED BY <1>3, <2>1, <2>2, <2>5, <2>6, TurnPassed
<1> QED BY <1>7, <1>8, <1>9, <1>10, <1>11

LEMMA ReceiverTurn ==
    ASSUME FewParts, TurnsTaken, DeliveryInv, TurnInv, sState # "GONE", ReceiverNext, UNCHANGED sender
    PROVE  TurnInv'
<1>1. ~SendAnswerRefused /\ ~SendAnswerRefusedTwice /\ ~SendNakRefused
  BY DEF TurnsTaken, SendAnswerRefused, SendAnswerRefusedTwice, SendNakRefused, Fault
<1> QED BY <1>1, PathReadTurn, DataReadTurn, RefusedTurn, EotReadTurn, WriteTurn DEF ReceiverNext

-----------------------------------------------------------------------------
(* The sender moves. *)
LEMMA SpokenTo ==
    ASSUME ReceiverTypes, OneTurn, InFlight, Replied, toSender # <<>>
    PROVE  /\ toReceiver = <<>> /\ rWait = 0 /\ ~Sends
           /\ Head(toSender) \in {"C", "NAK"} => ReceiverReads /\ Tail(toSender) = <<>>
           /\ Head(toSender) = "C" => rState \in {"RECEIVE_PACK_PATH", "RECEIVE_PACK_DATA"}
           /\ \A a : Has(Tail(toSender), a) => Has(toSender, a)
           /\ rState \in {"START", "SEND_C1", "SEND_C2"} => Tail(toSender) \in LastWord
           /\ rState \in {"RECEIVE_PACK_PATH", "RECEIVE_PACK_DATA"} => Tail(toSender) \in LastWord \cup Word
           /\ rState = "RECIVE_EOT" => Tail(toSender) = <<>>
           /\ rState \notin {"SEND_ANSWER", "SEND_NAK", "SEND_ACK1", "SEND_ACK2"}
<1>1. rWait \in Nat /\ rState \in {"START", "SEND_C1", "RECEIVE_PACK_PATH", "SEND_ACK1", "SEND_C2",
                   "RECEIVE_PACK_DATA", "SEND_ANSWER", "SEND_NAK", "RECIVE_EOT", "SEND_ACK2"}
  BY RTicksAssumption DEF ReceiverTypes, ReceiverTypeOK
<1>2. toReceiver = <<>> /\ rWait = 0 /\ ~Sends
  BY <1>1 DEF OneTurn
<1>3. rState \notin {"SEND_ANSWER", "SEND_NAK", "SEND_ACK1", "SEND_ACK2"}
  BY DEF Replied
<1>4. <<>> \in LastWord
  BY DEF LastWord
<1>5. CASE rState \in {"START", "SEND_C1", "SEND_C2"}
  <2>1. toSender \in LastWord
    BY <1>5 DEF Replied
  <2>2. /\ Tail(toSender) = <<>> /\ Head(toSender) \notin {"C", "NAK"}
        /\ \A a : Has(Tail(toSender), a) => Has(toSender, a)
    BY <2>1, WordTaken
  <2> QED BY <1>2, <1>4, <1>5, <2>2
<1>6. CASE rState \in {"RECEIVE_PACK_PATH", "RECEIVE_PACK_DATA"}
  <2>1. toSender \in LastWord \cup Word \cup LastWordAndC
    BY <1>6 DEF Replied
  <2> QED BY <1>2, <1>6, <2>1, WordTaken DEF ReceiverReads
<1>7. CASE rState = "RECIVE_EOT"
  <2>1. PICK x \in {"NAK", "NOISE"} : toSender = <<x>>
    BY <1>7 DEF Replied
  <2>2. Tail(toSender) = <<>> /\ Head(toSender) # "C" /\ \A a : ~Has(<<>>, a)
    BY <2>1, Words, OrderEmpty
  <2> QED BY <1>2, <1>7, <2>2 DEF ReceiverReads
<1> QED BY <1>1, <1>3, <1>5, <1>6, <1>7

(* It reads, or begins anew, and does not get to write yet. *)
LEMMA StillListens ==
    ASSUME DeliveryInv, TurnInv, sState # "GONE", UNCHANGED <<toReceiver, receiver>>, ~Sends', ~Sends,
           \/ UNCHANGED toSender
           \/ toSender # <<>> /\ toSender' = Tail(toSender) /\ Head(toSender) # "ACK"
           \/ toSender # <<>> /\ toSender' = Tail(toSender) /\ sState' # "RECEIVE_ANSWER",
           sState' = "RECEIVE_ANSWER" => UNCHANGED <<sState, sNum, sFile, sPart>>
    PROVE  TurnInv'
<1>1. ReceiverTypes /\ OneTurn /\ InFlight /\ Replied /\ Answered
  BY DEF DeliveryInv, Types, TurnInv
<1>2. UNCHANGED <<rState, rByte, rWait, rFile, rGot>> /\ AckComes' = AckComes
      /\ ReceiverReads' = ReceiverReads
  BY DEF receiver, AckComes, ReceiverReads
<1>3. CASE UNCHANGED toSender
  <2>1. OneTurn' /\ Replied'
    BY <1>1, <1>2, <1>3 DEF OneTurn, Replied
  <2>2. InFlight'
    BY <1>1, <1>2 DEF InFlight, DataSent
  <2>3. sState' = "RECEIVE_ANSWER" => RightAck'
    BY <1>1, <1>2, <1>3 DEF Answered, RightAck
  <2>4. Answered'
    BY <2>3 DEF Answered, AckMeansStored, Sends
  <2> QED BY <2>1, <2>2, <2>4 DEF TurnInv
<1>4. CASE toSender # <<>> /\ toSender' = Tail(toSender)
  <2>1. /\ toReceiver = <<>> /\ rWait = 0
        /\ \A a : Has(toSender', a) => Has(toSender, a)
        /\ rState \in {"START", "SEND_C1", "SEND_C2"} => toSender' \in LastWord
        /\ rState \in {"RECEIVE_PACK_PATH", "RECEIVE_PACK_DATA"} => toSender' \in LastWord \cup Word
        /\ rState = "RECIVE_EOT" => toSender' = <<>>
        /\ rState \notin {"SEND_ANSWER", "SEND_NAK", "SEND_ACK1", "SEND_ACK2"}
    BY <1>1, <1>4, SpokenTo
  <2>2. OneTurn' /\ Replied' /\ InFlight'
    BY <1>2, <2>1 DEF OneTurn, Replied, InFlight
  <2>3. sState' = "RECEIVE_ANSWER" => RightAck'
    <3> SUFFICES ASSUME sState' = "RECEIVE_ANSWER" PROVE RightAck'
      OBVIOUS
    <3>1. RightAck /\ Head(toSender) # "ACK"
      BY <1>1, <1>4 DEF Answered
    <3>2. ~Has(toSender, "ACK")
      <4> SUFFICES ASSUME Has(toSender, "ACK") PROVE FALSE
        OBVIOUS
      <4>1. toSender = <<"ACK">>
        BY <3>1 DEF RightAck
      <4> QED BY <3>1, <4>1, Words
    <3>3. ~Has(toSender', "ACK")
      BY <2>1, <3>2
    <3> QED BY <1>2, <3>1, <3>3 DEF RightAck
  <2>4. Answered'
    BY <2>3 DEF Answered, AckMeansStored, Sends
  <2> QED BY <2>2, <2>4 DEF TurnInv
<1> QED BY <1>3, <1>4

(* It reads what it was waiting for, and is to write next. *)
LEMMA TakesTurn ==
    ASSUME TurnInv, sState # "GONE", UNCHANGED receiver, toReceiver' = <<>>, toSender' = <<>>,
           rWait = 0, ReceiverReads, Sends',
           sState' \in {"SEND_PACK_PATH", "SEND_PACK_DATA"} => rState \in {"RECEIVE_PACK_PATH", "RECEIVE_PACK_DATA"},
           AckMeansStored'
    PROVE  TurnInv'
<1>1. /\ UNCHANGED <<rState, rByte, rWait, rFile, rGot>>
      /\ ReceiverReads' = ReceiverReads
  BY DEF receiver, ReceiverReads
<1>2. <<>> \in LastWord
  BY DEF LastWord
<1>3. OneTurn' /\ InFlight'
  BY <1>1 DEF OneTurn, InFlight
<1>4. Replied'
  BY <1>1, <1>2 DEF Replied, ReceiverReads
<1>5. Answered'
  BY <1>1 DEF Answered, Sends
<1> QED BY <1>3, <1>4, <1>5 DEF TurnInv

(* What a write into an empty line leaves there. *)
LEMMA OneWritten ==
    ASSUME TurnsTaken, LineTypeOK, toReceiver = <<>>, NEW what \in Arrival, what.kind \in {"PACKET", "EOT"},
           WriteToReceiver(what)
    PROVE  toReceiver' # <<>> =>
             LET x == Head(toReceiver') IN
             /\ toReceiver' = <<x>>
             /\ \/ x = what
                \/ what.kind = "PACKET" /\ x.kind \in {"BADCRC", "SHORT"}
                \/ what.kind = "EOT" /\ x = Residue(1)
<1>1. \A x : Fits(toReceiver, x, LineCap) = <<x>>
  <2>1. 0 < LineCap
    BY LineAssumption
  <2>2. Len(toReceiver) = 0
    BY EmptySeq
  <2>3. \A x : Fits(toReceiver, x, LineCap) = Append(<<>>, x)
    BY <2>1, <2>2 DEF Fits
  <2> QED BY <2>3, Words
<1>2. ~Fault("residue")
  BY DEF TurnsTaken, Fault
<1>3. \/ toReceiver' = <<>>
      \/ toReceiver' = <<what>>
      \/ what.kind = "PACKET" /\ toReceiver' = <<Control("BADCRC")>>
      \/ what.kind = "PACKET" /\ toReceiver' = <<Control("SHORT")>>
      \/ what.kind = "EOT" /\ toReceiver' = <<Residue(1)>>
  BY <1>1, <1>2 DEF WriteToReceiver
<1>4. Control("BADCRC").kind = "BADCRC" /\ Control("SHORT").kind = "SHORT"
  BY DEF Control
<1> QED BY <1>3, <1>4, Words

LEMMA WritesTurn ==
    ASSUME TurnsTaken, DeliveryInv, TurnInv, SendPackage \/ SendEot, UNCHANGED receiver
    PROVE  TurnInv'
<1> USE DEF SenderGoesTo
<1>1. /\ Sends /\ sState # "GONE" /\ UNCHANGED <<toSender, sNum, sFile, sPart>>
      /\ sState' \in {"RECEIVE_ACK1", "RECEIVE_ANSWER", "RECEIVE_NAK", "RECEIVE_ACK2"}
  BY DEF SendPackage, SendEot, Sends
<1>2. LineTypeOK /\ ReceiverTypes /\ SenderTypeOK /\ OneTurn /\ InFlight /\ Replied /\ Answered
  BY <1>1 DEF DeliveryInv, Types, TurnInv, SenderTypes
<1>3. toReceiver = <<>> /\ toSender = <<>> /\ ReceiverReads /\ rWait = 0
  BY <1>1, <1>2 DEF OneTurn, InFlight
<1>4. UNCHANGED <<rState, rByte, rWait, rFile, rGot>> /\ ReceiverReads' = ReceiverReads /\ AckComes' = AckComes
  BY DEF receiver, ReceiverReads, AckComes
<1>5. ~Sends'
  BY <1>1 DEF Sends
<1>6. OneTurn' /\ Replied'
  BY <1>1, <1>2, <1>3, <1>4 DEF OneTurn, Replied
<1>7. Answered'
  <2>1. sState' = "RECEIVE_ANSWER" => rState \in {"RECEIVE_PACK_PATH", "RECEIVE_PACK_DATA"}
    BY <1>2 DEF SendPackage, SendEot, Answered
  <2>2. ~Has(toSender', "ACK")
    BY <1>1, <1>3, OrderEmpty
  <2>3. sState' = "RECEIVE_ANSWER" => RightAck'
    BY <1>4, <2>1, <2>2 DEF RightAck, AckComes
  <2> QED BY <1>5, <2>3 DEF Answered, AckMeansStored, Sends
<1>8. InFlight'
  <2> DEFINE path == Packet(0, [file |-> sFile, part |-> 0])
             data == Packet(sNum, [file |-> sFile, part |-> sPart])
             x == Head(toReceiver')
  <2> SUFFICES ASSUME toReceiver' # <<>>
               PROVE  /\ toReceiver' = <<x>>
                      /\ x.kind = "RESIDUE" => x.left = 1
                      /\ rState = "RECIVE_EOT" => x.kind \in {"EOT", "RESIDUE"}
                      /\ sState' = "RECEIVE_ANSWER" => DataSent(x)
    BY <1>1, <1>4, <1>5 DEF InFlight, DataSent
  <2>1. CASE SendPackage
    <3>1. rState # "RECIVE_EOT"
      BY <1>2, <2>1 DEF SendPackage, Answered
    <3>2. path \in Arrival /\ path.kind = "PACKET" /\ data \in Arrival /\ data.kind = "PACKET"
      <4>1. /\ 0 \in 0..Blocks - 1 /\ sNum \in 0..Blocks - 1
            /\ [file |-> sFile, part |-> 0] \in Item /\ [file |-> sFile, part |-> sPart] \in Item
        BY <1>2, PartsType, BlocksAssumption DEF SenderTypeOK, Item
      <4> QED BY <4>1, ArrivalKinds
    <3>3. PICK what \in {path, data} : WriteToReceiver(what) /\ (sState' = "RECEIVE_ANSWER" => what = data)
      BY <2>1 DEF SendPackage
    <3> HIDE DEF path
    <3>4. toReceiver' = <<x>> /\ (x = what \/ x.kind \in {"BADCRC", "SHORT"})
      BY <1>2, <1>3, <3>2, <3>3, OneWritten
    <3>5. x.kind # "RESIDUE"
      BY <3>2, <3>3, <3>4
    <3> QED BY <3>1, <3>3, <3>4, <3>5 DEF DataSent
  <2>2. CASE SendEot
    <3> DEFINE eot == Control("EOT")
    <3>1. eot \in Arrival /\ eot.kind = "EOT" /\ WriteToReceiver(eot) /\ sState' # "RECEIVE_ANSWER"
      BY <2>2, ArrivalKinds DEF SendEot
    <3> HIDE DEF eot
    <3>2. toReceiver' = <<x>> /\ (x = eot \/ x = Residue(1))
      BY <1>2, <1>3, <3>1, OneWritten
    <3>3. Residue(1).kind = "RESIDUE" /\ Residue(1).left = 1
      BY DEF Residue
    <3> QED BY <3>1, <3>2, <3>3
  <2> QED BY <2>1, <2>2
<1> QED BY <1>6, <1>7, <1>8 DEF TurnInv

LEMMA Hears ==
    ASSUME DeliveryInv, TurnInv, sState # "GONE", NEW state, NEW byte, Reads(state, byte)
    PROVE  /\ sState = state /\ UNCHANGED toReceiver
           /\ byte = "TIMEOUT" => UNCHANGED toSender
           /\ byte # "TIMEOUT" => toSender # <<>> /\ byte = Head(toSender) /\ toSender' = Tail(toSender)
           /\ byte \in {"C", "NAK"} => toSender' = <<>> /\ toReceiver' = <<>> /\ rWait = 0 /\ ReceiverReads
           /\ byte = "C" => rState \in {"RECEIVE_PACK_PATH", "RECEIVE_PACK_DATA"}
<1>1. ReceiverTypes /\ OneTurn /\ InFlight /\ Replied /\ toSender \in Seq(Reply)
  BY DEF DeliveryInv, Types, TurnInv, LineTypeOK
<1>2. CASE SenderTimesOut /\ byte = "TIMEOUT" /\ UNCHANGED toSender
  BY <1>2 DEF Reads
<1>3. CASE toSender # <<>> /\ byte = Head(toSender) /\ toSender' = Tail(toSender)
  <2>1. byte # "TIMEOUT"
    BY <1>1, <1>3, HeadTailProperties DEF Reply
  <2> QED BY <1>1, <1>3, <2>1, SpokenTo DEF Reads
<1> QED BY <1>2, <1>3 DEF Reads

(* The ACK of a data packet: nothing is on its way behind it, and the file *)
(* has been stored as far as it was sent.                                  *)
LEMMA HearsAck ==
    ASSUME DeliveryInv, TurnInv, NEW byte, byte = "ACK", Reads("RECEIVE_ANSWER", byte)
    PROVE  /\ toSender' = <<>> /\ toReceiver' = <<>> /\ rWait = 0 /\ rState = "RECEIVE_PACK_DATA"
           /\ rFile = sFile /\ Len(rGot) >= sPart
<1>1. sState = "RECEIVE_ANSWER"
  BY DEF Reads
<1>2. ReceiverTypes /\ OneTurn /\ InFlight /\ Replied /\ RightAck /\ toSender \in Seq(Reply)
  BY <1>1 DEF DeliveryInv, Types, TurnInv, LineTypeOK, Answered
<1>3. toSender # <<>> /\ Head(toSender) = "ACK" /\ toSender' = Tail(toSender) /\ UNCHANGED toReceiver
  BY DEF Reads
<1>4. Has(toSender, "ACK")
  BY <1>2, <1>3, OrderTaken
<1>5. toSender = <<"ACK">>
  BY <1>2, <1>4 DEF RightAck
<1> QED BY <1>2, <1>3, <1>4, <1>5, Words, SpokenTo DEF RightAck

LEMMA AnswerTurn ==
    ASSUME DeliveryInv, TurnInv, ReceiveAnswer, UNCHANGED receiver
    PROVE  TurnInv'
<1> USE DEF SenderGoesTo, SenderEnds, Stays
<1>1. PICK byte \in Heard :
        /\ Reads("RECEIVE_ANSWER", byte)
        /\ \/ /\ byte = "ACK"
              /\ \/ sState' \in {"START", "SEND_PACK_DATA"}
                 \/ sState' = "SEND_EOT1" /\ sPart >= Parts(sFile)
           \/ byte = "NAK" /\ sState' \in {"START", "SEND_PACK_DATA"}
           \/ byte \in {"CAN", "TIMEOUT"} /\ sState' = "START"
           \/ byte \in {"C", "NOISE"} /\ UNCHANGED <<sState, sNum, sPart>>
        /\ UNCHANGED sFile
  BY DEF ReceiveAnswer, FillsBuffer
<1>2. /\ sState = "RECEIVE_ANSWER" /\ UNCHANGED toReceiver
      /\ byte = "TIMEOUT" => UNCHANGED toSender
      /\ byte # "TIMEOUT" => toSender # <<>> /\ byte = Head(toSender) /\ toSender' = Tail(toSender)
      /\ byte = "NAK" => toSender' = <<>> /\ toReceiver' = <<>> /\ rWait = 0 /\ ReceiverReads
  <2>1. sState = "RECEIVE_ANSWER"
    BY <1>1 DEF Reads
  <2>2. sState # "GONE"
    BY <2>1
  <2> QED BY <1>1, <2>2, Hears
<1>3. sState # "GONE" /\ ~Sends
  BY <1>2 DEF Sends
<1>4. CASE sState' \in {"START", "RECEIVE_ANSWER"}
  <2>1. ~Sends'
    BY <1>4 DEF Sends
  <2>2. sState' = "RECEIVE_ANSWER" => byte \in {"C", "NOISE"} /\ UNCHANGED <<sState, sNum, sFile, sPart>>
    BY <1>1
  <2>3. \/ UNCHANGED toSender
        \/ toSender # <<>> /\ toSender' = Tail(toSender) /\ Head(toSender) # "ACK"
        \/ toSender # <<>> /\ toSender' = Tail(toSender) /\ sState' # "RECEIVE_ANSWER"
    BY <1>2, <2>2
  <2> QED BY <1>2, <1>3, <2>1, <2>2, <2>3, StillListens
<1>5. CASE byte = "ACK" /\ sState' \in {"SEND_PACK_DATA", "SEND_EOT1"}
  <2>1. /\ toSender' = <<>> /\ toReceiver' = <<>> /\ rWait = 0 /\ rState = "RECEIVE_PACK_DATA"
        /\ rFile = sFile /\ Len(rGot) >= sPart
    BY <1>1, <1>5, HearsAck
  <2>2. AckMeansStored'
    <3> SUFFICES ASSUME sState' = "SEND_EOT1" PROVE rFile = sFile /\ Len(rGot) = Parts(sFile)
      BY <1>1 DEF AckMeansStored, receiver
    <3>1. sPart >= Parts(sFile)
      BY <1>1, <1>5
    <3>2. Len(rGot) <= Parts(rFile) /\ Len(rGot) \in Nat /\ Parts(rFile) \in Nat /\ sPart \in Nat
      <4>1. rGot \in Seq(Item) /\ rFile \in FileId /\ sFile \in FileId /\ sPart \in 0..Parts(sFile) + 1
        BY DEF DeliveryInv, Types, ReceiverTypes, ReceiverTypeOK, SenderTypes, SenderTypeOK
      <4>2. Len(rGot) <= Parts(rFile)
        BY DEF DeliveryInv, Types, ReceiverTypes, ReceiverTypeOK
      <4> QED BY <4>1, <4>2, PartsType, LenProperties
    <3> QED BY <2>1, <3>1, <3>2
  <2> QED BY <1>3, <1>5, <2>1, <2>2, TakesTurn DEF ReceiverReads, Sends
<1>6. CASE byte = "NAK" /\ sState' = "SEND_PACK_DATA"
  <2>1. rState \in {"RECEIVE_PACK_PATH", "RECEIVE_PACK_DATA"}
    BY <1>2, <1>6 DEF TurnInv, Answered, RightAck, ReceiverReads
  <2>2. AckMeansStored'
    BY <1>6 DEF AckMeansStored
  <2> QED BY <1>2, <1>3, <1>6, <2>1, <2>2, TakesTurn DEF Sends
<1> QED BY <1>1, <1>2, <1>4, <1>5, <1>6

LEMMA SenderTurn ==
    ASSUME TurnsTaken, DeliveryInv, TurnInv, SenderNext, UNCHANGED receiver
    PROVE  TurnInv'
<1> USE DEF SenderGoesTo, SenderEnds, Stays
<1>1. CASE SenderBegins
  <2>1. /\ sState = "START" /\ sState' = "RECEIVE_C1" /\ UNCHANGED <<toReceiver, toSender>>
    BY <1>1 DEF SenderBegins, line
  <2>2. ~Sends /\ ~Sends' /\ sState # "GONE"
    BY <2>1 DEF Sends
  <2> QED BY <2>1, <2>2, StillListens
<1>2. CASE ReceiveC1 \/ ReceiveAck1 \/ ReceiveC2 \/ ReceiveNak \/ ReceiveAck2
  <2>1. PICK state \in {"RECEIVE_C1", "RECEIVE_ACK1", "RECEIVE_C2", "RECEIVE_NAK", "RECEIVE_ACK2"}, byte \in Heard :
          /\ Reads(state, byte)
          /\ \/ sState' \in {"START", "RECEIVE_C1", "RECEIVE_ACK1", "RECEIVE_C2", "RECEIVE_NAK", "RECEIVE_ACK2"}
             \/ byte = "C" /\ sState' \in {"SEND_PACK_PATH", "SEND_PACK_DATA"}
             \/ byte = "NAK" /\ sState' = "SEND_EOT2"
    <3>1. CASE ReceiveC1
      BY <3>1 DEF ReceiveC1, Reads
    <3>2. CASE ReceiveAck1
      BY <3>2 DEF ReceiveAck1, Reads
    <3>3. CASE ReceiveC2
      BY <3>3 DEF ReceiveC2, FillsBuffer, Reads
    <3>4. CASE ReceiveNak
      BY <3>4 DEF ReceiveNak, Reads
    <3>5. CASE ReceiveAck2
      BY <3>5 DEF ReceiveAck2, Reads
    <3> QED BY <1>2, <3>1, <3>2, <3>3, <3>4, <3>5
  <2>2. sState = state
    BY <2>1 DEF Reads
  <2>3. sState # "GONE" /\ ~Sends
    BY <2>2 DEF Sends
  <2>4. /\ UNCHANGED toReceiver
        /\ byte = "TIMEOUT" => UNCHANGED toSender
        /\ byte # "TIMEOUT" => toSender # <<>> /\ byte = Head(toSender) /\ toSender' = Tail(toSender)
        /\ byte \in {"C", "NAK"} => toSender' = <<>> /\ toReceiver' = <<>> /\ rWait = 0 /\ ReceiverReads
        /\ byte = "C" => rState \in {"RECEIVE_PACK_PATH", "RECEIVE_PACK_DATA"}
    BY <2>1, <2>3, Hears
  <2>5. CASE sState' \in {"START", "RECEIVE_C1", "RECEIVE_ACK1", "RECEIVE_C2", "RECEIVE_NAK", "RECEIVE_ACK2"}
    <3>1. ~Sends' /\ sState' # "RECEIVE_ANSWER"
      BY <2>5 DEF Sends
    <3> QED BY <2>3, <2>4, <3>1, StillListens
  <2>6. CASE byte = "C" /\ sState' \in {"SEND_PACK_PATH", "SEND_PACK_DATA"}
    BY <2>3, <2>4, <2>6, TakesTurn DEF Sends, AckMeansStored
  <2>7. CASE byte = "NAK" /\ sState' = "SEND_EOT2"
    BY <2>3, <2>4, <2>7, TakesTurn DEF Sends, AckMeansStored
  <2> QED BY <2>1, <2>5, <2>6, <2>7
<1>3. CASE SendPackage \/ SendEot
  BY <1>3, WritesTurn
<1>4. CASE ReceiveAnswer
  BY <1>4, AnswerTurn
<1> QED BY <1>1, <1>2, <1>3, <1>4 DEF SenderNext

(* A second goes by only while the sender waits and has nothing to read.   *)
LEMMA TickTurn ==
    ASSUME TurnsTaken, DeliveryInv, TurnInv, sState # "GONE", Tick
    PROVE  TurnInv'
<1>1. /\ OneTurn /\ InFlight /\ Replied /\ Answered
  BY DEF TurnInv
<1>2. SenderWaits /\ (ReceiverWaits \/ rWait' = rWait)
  BY DEF TurnsTaken, Tick, SenderCallsBack
<1>3. /\ toSender = <<>> /\ ~Sends
      /\ (toReceiver = <<>> /\ ReceiverReads) \/ rWait' = rWait
  BY <1>2 DEF ReceiverWaits, SenderWaits, SenderReads, Sends
<1>4. /\ UNCHANGED <<toReceiver, toSender, rState, rByte, rFile, rGot, sState, sNum, sFile, sPart>>
      /\ ReceiverReads' = ReceiverReads /\ Sends' = Sends /\ AckComes' = AckComes
  BY DEF Tick, line, ReceiverReads, Sends, AckComes
<1>5. OneTurn'
  BY <1>1, <1>3, <1>4 DEF OneTurn
<1>6. Replied' /\ InFlight'
  BY <1>1, <1>4 DEF Replied, InFlight, DataSent
<1>7. Answered'
  BY <1>1, <1>4 DEF Answered, RightAck, AckMeansStored
<1> QED BY <1>5, <1>6, <1>7 DEF TurnInv

(* A far end that has fallen silent stays silent. *)
LEMMA GoneStays ==
    ASSUME sState = "GONE", [Next]_vars
    PROVE  sState' = "GONE"
<1>1. ~SenderNext
  BY DEF SenderNext, SenderBegins, ReceiveC1, SendPackage, ReceiveAck1, ReceiveC2, ReceiveAnswer,
         SendEot, ReceiveNak, ReceiveAck2, Reads
<1>2. ~PeerCancels
  BY DEF PeerCancels, SenderReads
<1> QED BY <1>1, <1>2 DEF Next, vars, sender, Tick

LEMMA TurnStep ==
    ASSUME FewParts, TurnsTaken, DeliveryInv, TurnInv, [Next]_vars
    PROVE  TurnInv'
<1>1. CASE sState = "GONE"
  BY <1>1, GoneStays DEF TurnInv
<1>2. CASE sState # "GONE"
  <2>1. CASE ReceiverNext /\ UNCHANGED sender
    BY <1>2, <2>1, ReceiverTurn
  <2>2. CASE SenderNext /\ UNCHANGED receiver
    BY <2>2, SenderTurn
  <2>3. CASE PeerCancels
    BY <2>3 DEF PeerCancels, TurnInv
  <2>4. CASE Tick
    BY <1>2, <2>4, TickTurn
  <2>5. CASE UNCHANGED vars
    <3>1. UNCHANGED <<toReceiver, toSender, rState, rByte, rWait, rFile, rGot, sState, sNum, sFile, sPart>>
      BY <2>5 DEF vars, line, receiver, sender
    <3> QED BY <3>1 DEF TurnInv, OneTurn, Replied, InFlight, Answered, RightAck, AckMeansStored, DataSent,
                        Sends, ReceiverReads, AckComes
  <2> QED BY <2>1, <2>2, <2>3, <2>4, <2>5 DEF Next
<1> QED BY <1>1, <1>2

LEMMA TurnHolds == Init => TurnInv
<1> SUFFICES ASSUME Init PROVE TurnInv
  OBVIOUS
<1>1. /\ toReceiver = <<>> /\ toSender = <<>> /\ rState = "START" /\ sState = "START" /\ rWait = 0
  BY DEF Init, LineInit, ReceiverInit, SenderInit
<1>2. <<>> \in LastWord
  BY DEF LastWord
<1> QED BY <1>1, <1>2 DEF TurnInv, OneTurn, Replied, InFlight, Answered, AckMeansStored, Sends

(* If the sender's callbacks take less than the receiver's timeout, no     *)
(* byte is made up and no write is refused, then whatever else the line    *)
(* loses or garbles and whichever callback fails: when ymodem_send closes  *)
(* a file, having had an ACK for each packet, ymodem_receive has stored    *)
(* all of it.                                                              *)
THEOREM TransferAcknowledged == FewParts /\ TurnsTaken => (Spec => []AckMeansStored)
<1> SUFFICES ASSUME FewParts, TurnsTaken PROVE Spec => []AckMeansStored
  OBVIOUS
<1>1. DeliveryInv /\ [Next]_vars => DeliveryInv'
  BY DeliveryStep
<1>2. DeliveryInv /\ TurnInv /\ [Next]_vars => TurnInv'
  BY TurnStep
<1>3. TurnInv => AckMeansStored
  BY DEF TurnInv, Answered, AckMeansStored
<1> QED BY <1>1, <1>2, <1>3, DeliveryInvHolds, TurnHolds, PTL DEF Spec
=============================================================================
