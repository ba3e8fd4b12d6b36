--------------------------- MODULE MemPoolProofs ---------------------------
(***************************************************************************)
(* The free lists of MemPool stay lists, and an item is in one of them or  *)
(* held, for any number of pools and items.                                *)
(*                                                                         *)
(* Neither half is inductive alone: that a pointer is followed to the next *)
(* free item needs each item to be in a list at most once, and an item     *)
(* leaves the list it is in only if the list's front is the one the        *)
(* pointers give. PoolInv is their conjunction with the types.             *)
(***************************************************************************)
EXTENDS MemPool, TLAPS

PoolInv == PoolTypeOK /\ ListFollowsOrder /\ FreeOrHeld

(* Adding at the front: what is where in <<x>> \o s. *)
LEMMA PushPlaces ==
    ASSUME NEW S, NEW s \in Seq(S), NEW x \in S
    PROVE  /\ <<x>> \o s \in Seq(S)
           /\ Len(<<x>> \o s) = Len(s) + 1
           /\ (<<x>> \o s)[1] = x
           /\ \A k \in 1..Len(s) : (<<x>> \o s)[k + 1] = s[k]
           /\ \A k \in 2..Len(s) + 1 : (<<x>> \o s)[k] = s[k - 1]
OBVIOUS

(* Removing the front: what is where in Tail(s). *)
LEMMA TailPlaces ==
    ASSUME NEW S, NEW s \in Seq(S), s # <<>>
    PROVE  /\ Tail(s) \in Seq(S)
           /\ Len(Tail(s)) = Len(s) - 1
           /\ \A k \in 1..Len(s) - 1 : Tail(s)[k] = s[k + 1]
OBVIOUS

(* The empty list is the one of length 0. *)
LEMMA EmptyLength ==
    ASSUME NEW S, NEW s \in Seq(S)
    PROVE  (s = <<>> <=> Len(s) = 0) /\ Len(s) \in Nat
OBVIOUS

(* An item that is not free keeps every list and comes to the front of one *)
(* of them: pool_free and pool_add_heap, which both call slist_push.       *)
LEMMA PushKeepsLists ==
    ASSUME PoolTypeOK, ListFollowsOrder,
           NEW p \in Pool, NEW i \in Item, slist_push(p, i),
           \A q \in Pool : \A k \in 1..Len(order[q]) : order[q][k] # i
    PROVE  ListFollowsOrder'
<1> USE PoolAssumption DEF PoolTypeOK
<1> SUFFICES ASSUME NEW q \in Pool
             PROVE  /\ ptFreeList'[q] = IF order'[q] = <<>> THEN NULL ELSE order'[q][1]
                    /\ \A k \in 1..Len(order'[q]) :
                          ptNext'[order'[q][k]] = IF k = Len(order'[q]) THEN NULL ELSE order'[q][k + 1]
  BY DEF ListFollowsOrder
<1>1. /\ ptFreeList[q] = IF order[q] = <<>> THEN NULL ELSE order[q][1]
      /\ \A k \in 1..Len(order[q]) :
            ptNext[order[q][k]] = IF k = Len(order[q]) THEN NULL ELSE order[q][k + 1]
      /\ order[q] \in Seq(Item)
  BY DEF ListFollowsOrder
<1>2. \A k \in 1..Len(order[q]) : order[q][k] \in Item
  BY <1>1
<1>3. ASSUME q # p
      PROVE  /\ ptFreeList'[q] = ptFreeList[q] /\ order'[q] = order[q]
             /\ \A k \in 1..Len(order[q]) : ptNext'[order[q][k]] = ptNext[order[q][k]]
  BY <1>2, <1>3 DEF slist_push
<1>4. CASE q # p
  BY <1>1, <1>3, <1>4
<1>5. CASE q = p
  <2> DEFINE s == order[p]
             n == <<i>> \o s
  <2>1. order'[p] = n /\ ptFreeList'[p] = i /\ ptNext'[i] = ptFreeList[p]
    BY DEF slist_push
  <2>2. /\ n \in Seq(Item) /\ Len(n) = Len(s) + 1 /\ n[1] = i
        /\ \A k \in 2..Len(s) + 1 : n[k] = s[k - 1]
    BY <1>1, <1>5, PushPlaces
  <2>3. Len(s) \in Nat /\ (s = <<>> <=> Len(s) = 0) /\ (n = <<>> <=> Len(n) = 0)
    BY <1>1, <1>5, <2>2, EmptyLength
  <2>4. ptFreeList'[p] = IF n = <<>> THEN NULL ELSE n[1]
    BY <2>1, <2>2, <2>3
  <2>5. ASSUME NEW k \in 1..Len(n)
        PROVE  ptNext'[n[k]] = IF k = Len(n) THEN NULL ELSE n[k + 1]
    <3> HIDE DEF s, n
    <3>1. CASE k = 1
      <4>1. CASE s = <<>>
        BY <1>1, <1>5, <2>1, <2>2, <2>3, <3>1, <4>1 DEF s
      <4>2. CASE s # <<>>
        <5>1. n[2] = s[1] /\ Len(n) # 1
          BY <2>2, <2>3, <4>2
        <5> QED
          BY <1>1, <1>5, <2>1, <2>2, <3>1, <4>2, <5>1 DEF s
      <4> QED
        BY <4>1, <4>2
    <3>2. CASE k # 1
      <4>1. k - 1 \in 1..Len(s) /\ n[k] = s[k - 1]
        BY <2>2, <2>3, <3>2
      <4>2. s[k - 1] \in Item /\ s[k - 1] # i
        BY <1>2, <1>5, <4>1 DEF s
      <4>3. ptNext'[n[k]] = ptNext[s[k - 1]]
        BY <4>1, <4>2 DEF slist_push
      <4>4. ptNext[s[k - 1]] = IF k - 1 = Len(s) THEN NULL ELSE s[(k - 1) + 1]
        BY <1>1, <1>5, <4>1 DEF s
      <4>5. CASE k = Len(n)
        BY <2>2, <2>3, <4>3, <4>4, <4>5
      <4>6. CASE k # Len(n)
        <5>1. k + 1 \in 2..Len(s) + 1 /\ (k + 1) - 1 = k /\ (k - 1) + 1 = k /\ k - 1 # Len(s)
          BY <2>2, <2>3, <3>2, <4>6
        <5>2. n[k + 1] = s[(k + 1) - 1]
          BY <2>2, <5>1
        <5> QED
          BY <4>3, <4>4, <4>6, <5>1, <5>2
      <4> QED
        BY <4>5, <4>6
    <3> QED
      BY <3>1, <3>2
  <2> QED
    BY <1>5, <2>1, <2>4, <2>5
<1> QED
  BY <1>4, <1>5

(* Taking the front of a list leaves the rest of it a list, and the others *)
(* as they are: pool_allocate.                                             *)
LEMMA PopKeepsLists ==
    ASSUME PoolInv, NEW p \in Pool, pool_allocate(p)
    PROVE  ListFollowsOrder'
<1> USE PoolAssumption DEF PoolTypeOK
<1> SUFFICES ASSUME NEW q \in Pool
             PROVE  /\ ptFreeList'[q] = IF order'[q] = <<>> THEN NULL ELSE order'[q][1]
                    /\ \A k \in 1..Len(order'[q]) :
                          ptNext'[order'[q][k]] = IF k = Len(order'[q]) THEN NULL ELSE order'[q][k + 1]
  BY DEF ListFollowsOrder
<1> DEFINE f == ptFreeList[p]
<1>1. \A r \in Pool :
        /\ ptFreeList[r] = IF order[r] = <<>> THEN NULL ELSE order[r][1]
        /\ \A k \in 1..Len(order[r]) :
              ptNext[order[r][k]] = IF k = Len(order[r]) THEN NULL ELSE order[r][k + 1]
        /\ order[r] \in Seq(Item)
        /\ \A k \in 1..Len(order[r]) : order[r][k] \in Item
  BY DEF PoolInv, ListFollowsOrder
<1>2. order[p] # <<>> /\ f = order[p][1] /\ f \in Item
  BY <1>1 DEF pool_allocate, PoolInv
<1>3. Len(order[p]) \in Nat \ {0}
  BY <1>1, <1>2, EmptyLength
<1>4. /\ order' = [order EXCEPT ![p] = Tail(order[p])]
      /\ ptFreeList' = [ptFreeList EXCEPT ![p] = ptNext[f]]
      /\ ptNext' = [ptNext EXCEPT ![f] = NULL]
  BY DEF pool_allocate, slist_pop
<1>5. CASE q # p
  <2>1. \A k \in 1..Len(order[q]) : order[q][k] # f
    <3>1. \E k \in 1..Len(order[p]) : order[p][k] = f
      BY <1>2, <1>3
    <3>2. wKey[f] = p
      BY <1>2, <3>1 DEF PoolInv, FreeOrHeld
    <3>3. (\E k \in 1..Len(order[q]) : order[q][k] = f) => wKey[f] = q
      BY <1>2 DEF PoolInv, FreeOrHeld
    <3> QED
      BY <1>5, <3>2, <3>3
  <2>2. ptFreeList'[q] = ptFreeList[q] /\ order'[q] = order[q]
    BY <1>4, <1>5 DEF PoolInv
  <2>3. \A k \in 1..Len(order[q]) : ptNext'[order[q][k]] = ptNext[order[q][k]]
    BY <1>1, <1>2, <1>4, <2>1 DEF PoolInv
  <2> QED
    BY <1>1, <2>2, <2>3
<1>6. CASE q = p
  <2> DEFINE s == order[p]
             n == Tail(s)
  <2>1. order'[p] = n /\ ptFreeList'[p] = ptNext[f]
    BY <1>2, <1>4 DEF PoolInv
  <2>2. /\ n \in Seq(Item) /\ Len(n) = Len(s) - 1
        /\ \A k \in 1..Len(s) - 1 : n[k] = s[k + 1]
    BY <1>1, <1>2, TailPlaces
  <2>3. Len(n) \in Nat /\ (n = <<>> <=> Len(n) = 0)
    BY <2>2, EmptyLength
  <2>4. ptFreeList'[p] = IF n = <<>> THEN NULL ELSE n[1]
    <3>1. ptNext[f] = IF 1 = Len(s) THEN NULL ELSE s[2]
      <4>1. 1 \in 1..Len(order[p]) /\ 1 + 1 = 2
        BY <1>3
      <4>2. ptNext[order[p][1]] = IF 1 = Len(order[p]) THEN NULL ELSE order[p][1 + 1]
        BY <1>1, <4>1
      <4> QED
        BY <1>2, <4>1, <4>2
    <3> HIDE DEF s, n
    <3>2. n # <<>> => n[1] = s[2] /\ 1 # Len(s)
      BY <2>2, <2>3
    <3>3. n = <<>> => 1 = Len(s)
      BY <1>3, <2>2, <2>3 DEF s
    <3> QED
      BY <2>1, <3>1, <3>2, <3>3
  <2>5. ASSUME NEW k \in 1..Len(n)
        PROVE  ptNext'[n[k]] = IF k = Len(n) THEN NULL ELSE n[k + 1]
    <3>1. k + 1 \in 1..Len(s) /\ n[k] = s[k + 1] /\ k + 1 # 1
      BY <1>3, <2>2
    <3>2. s[k + 1] # f /\ s[k + 1] \in Item
      <4>1. s[k + 1] \in Item
        BY <1>1, <3>1
      <4>2. \A l \in 1..Len(s) : s[l] = s[1] => l = 1
        BY <1>3 DEF PoolInv, FreeOrHeld
      <4> QED
        BY <1>2, <3>1, <4>1, <4>2
    <3>3. ptNext'[n[k]] = ptNext[s[k + 1]]
      BY <1>4, <3>1, <3>2 DEF PoolInv
    <3>4. ptNext[s[k + 1]] = IF k + 1 = Len(s) THEN NULL ELSE s[(k + 1) + 1]
      BY <1>1, <3>1
    <3> HIDE DEF s, n
    <3>5. CASE k = Len(n)
      BY <1>3, <2>2, <3>3, <3>4, <3>5 DEF s
    <3>6. CASE k # Len(n)
      <4>1. k + 1 # Len(s) /\ k + 1 \in 1..Len(s) - 1
        BY <2>2, <2>3, <3>6, <1>3 DEF s
      <4> QED
        BY <2>2, <3>3, <3>4, <3>6, <4>1
    <3> QED
      BY <3>5, <3>6
  <2> QED
    BY <1>6, <2>1, <2>4, <2>5
<1> QED
  BY <1>5, <1>6

-----------------------------------------------------------------------------
(* The three calls keep the conjunction. *)
LEMMA AllocateKeepsPools ==
    ASSUME PoolInv, NEW p \in Pool, pool_allocate(p)
    PROVE  PoolInv'
<1> USE PoolAssumption DEF PoolTypeOK
<1> DEFINE f == ptFreeList[p]
           s == order[p]
<1>1. s \in Seq(Item) /\ s # <<>> /\ f = s[1] /\ f \in Item
  BY DEF PoolInv, pool_allocate, ListFollowsOrder
<1>2. Len(s) \in Nat \ {0}
  BY <1>1, EmptyLength
<1>3. /\ Tail(s) \in Seq(Item) /\ Len(Tail(s)) = Len(s) - 1
      /\ \A k \in 1..Len(s) - 1 : Tail(s)[k] = s[k + 1]
  BY <1>1, TailPlaces
<1>4. /\ order' = [order EXCEPT ![p] = Tail(s)]
      /\ ptFreeList' = [ptFreeList EXCEPT ![p] = ptNext[f]]
      /\ ptNext' = [ptNext EXCEPT ![f] = NULL]
      /\ held' = held \cup {f} /\ wKey' = wKey
  BY DEF pool_allocate, slist_pop
<1>5. PoolTypeOK'
  BY <1>1, <1>3, <1>4 DEF PoolInv
<1>6. FreeOrHeld'
  <2>1. ASSUME NEW r \in Pool, NEW k \in 1..Len(order'[r]), NEW l \in 1..Len(order'[r]),
               order'[r][k] = order'[r][l]
        PROVE  k = l
    <3>1. CASE r = p
      <4>1. order'[p] = Tail(s)
        BY <1>4 DEF PoolInv
      <4>2. k + 1 \in 1..Len(s) /\ l + 1 \in 1..Len(s) /\ s[k + 1] = s[l + 1]
        BY <1>2, <1>3, <2>1, <3>1, <4>1
      <4>3. k + 1 = l + 1
        BY <4>2 DEF PoolInv, FreeOrHeld
      <4> QED
        BY <4>3
    <3>2. CASE r # p
      BY <1>4, <2>1, <3>2 DEF PoolInv, FreeOrHeld
    <3> QED
      BY <3>1, <3>2
  <2>2. ASSUME NEW r \in Pool, NEW i \in Item
        PROVE  (wKey'[i] = r /\ i \notin held') <=> \E k \in 1..Len(order'[r]) : order'[r][k] = i
    <3>1. (wKey[i] = r /\ i \notin held) <=> \E k \in 1..Len(order[r]) : order[r][k] = i
      BY DEF PoolInv, FreeOrHeld
    <3>2. wKey[f] = p /\ f \notin held
      BY <1>1, <1>2 DEF PoolInv, FreeOrHeld
    <3>3. CASE r # p
      BY <1>4, <3>1, <3>2, <3>3 DEF PoolInv
    <3>4. CASE r = p
      <4>1. order'[p] = Tail(s)
        BY <1>4 DEF PoolInv
      <4>2. CASE i = f
        <5>1. \A k \in 1..Len(s) - 1 : s[k + 1] # s[1]
          <6>1. \A k \in 1..Len(s) : s[k] = s[1] => k = 1
            BY <1>2 DEF PoolInv, FreeOrHeld
          <6> QED
            BY <1>2, <6>1
        <5>2. ~ \E k \in 1..Len(Tail(s)) : Tail(s)[k] = i
          BY <1>1, <1>2, <1>3, <4>2, <5>1
        <5> QED
          BY <1>4, <3>4, <4>1, <4>2, <5>2
      <4>3. CASE i # f
        <5>1. ASSUME NEW k \in 1..Len(s), s[k] = i
              PROVE  \E l \in 1..Len(Tail(s)) : Tail(s)[l] = i
          <6>1. k - 1 \in 1..Len(s) - 1 /\ (k - 1) + 1 = k
            BY <1>1, <1>2, <4>3, <5>1
          <6>2. Tail(s)[k - 1] = i /\ k - 1 \in 1..Len(Tail(s))
            BY <1>3, <5>1, <6>1
          <6> QED
            BY <6>2
        <5>2. ASSUME NEW l \in 1..Len(Tail(s)), Tail(s)[l] = i
              PROVE  \E k \in 1..Len(s) : s[k] = i
          <6>1. l + 1 \in 1..Len(s) /\ s[l + 1] = i
            BY <1>2, <1>3, <5>2
          <6> QED
            BY <6>1
        <5> QED
          BY <1>4, <3>1, <3>4, <4>1, <4>3, <5>1, <5>2
      <4> QED
        BY <4>2, <4>3
    <3> QED
      BY <3>3, <3>4
  <2>3. \A i \in held' : wKey'[i] # NULL
    <3>1. wKey[f] = p
      BY <1>1, <1>2 DEF PoolInv, FreeOrHeld
    <3> QED
      BY <1>4, <3>1 DEF PoolInv, FreeOrHeld
  <2> QED
    BY <2>1, <2>2, <2>3 DEF FreeOrHeld
<1>7. ListFollowsOrder'
  BY PopKeepsLists
<1> QED
  BY <1>5, <1>6, <1>7 DEF PoolInv

(* pool_free and pool_add_heap of an item no list has: what becomes of the *)
(* key and of held decides that it is now free in the pool it goes to.     *)
LEMMA PushKeepsPools ==
    ASSUME PoolInv, NEW p \in Pool, NEW i \in Item, slist_push(p, i),
           \A q \in Pool : \A k \in 1..Len(order[q]) : order[q][k] # i,
           wKey' \in [Item -> Pool \cup {NULL}],
           \A j \in Item : j # i => wKey'[j] = wKey[j],
           wKey'[i] = p, held' = held \ {i}
    PROVE  PoolInv'
<1> USE PoolAssumption DEF PoolTypeOK
<1> DEFINE s == order[p]
           n == <<i>> \o s
<1>1. s \in Seq(Item) /\ Len(s) \in Nat
  BY EmptyLength DEF PoolInv
<1>2. /\ n \in Seq(Item) /\ Len(n) = Len(s) + 1 /\ n[1] = i
      /\ \A k \in 1..Len(s) : n[k + 1] = s[k]
      /\ \A k \in 2..Len(s) + 1 : n[k] = s[k - 1]
  BY <1>1, PushPlaces
<1>3. /\ order' = [order EXCEPT ![p] = n]
      /\ ptFreeList' = [ptFreeList EXCEPT ![p] = i]
      /\ ptNext' = [ptNext EXCEPT ![i] = ptFreeList[p]]
  BY DEF slist_push
<1>4. PoolTypeOK'
  BY <1>2, <1>3 DEF PoolInv
<1>5. ASSUME NEW r \in Pool, NEW k \in 1..Len(order'[r]), NEW l \in 1..Len(order'[r]),
             order'[r][k] = order'[r][l]
      PROVE  k = l
  <2>1. CASE r # p
    BY <1>3, <1>5, <2>1 DEF PoolInv, FreeOrHeld
  <2>2. CASE r = p
    <3>1. order'[p] = n /\ k \in 1..Len(s) + 1 /\ l \in 1..Len(s) + 1 /\ n[k] = n[l]
      BY <1>2, <1>3, <1>5, <2>2 DEF PoolInv
    <3>2. \A m \in 2..Len(s) + 1 : m - 1 \in 1..Len(s) /\ n[m] = s[m - 1] /\ n[m] # i
      BY <1>1, <1>2
    <3>3. CASE k = 1 \/ l = 1
      BY <1>1, <1>2, <3>1, <3>2, <3>3
    <3>4. CASE k # 1 /\ l # 1
      <4>1. k - 1 \in 1..Len(s) /\ l - 1 \in 1..Len(s) /\ s[k - 1] = s[l - 1]
        BY <1>1, <3>1, <3>2, <3>4
      <4>2. \A a, b \in 1..Len(s) : s[a] = s[b] => a = b
        BY DEF PoolInv, FreeOrHeld
      <4>3. k - 1 = l - 1
        BY <4>1, <4>2
      <4> QED
        BY <3>1, <4>3, <1>1
    <3> QED
      BY <3>3, <3>4
  <2> QED
    BY <2>1, <2>2
<1>6. ASSUME NEW r \in Pool, NEW j \in Item
      PROVE  (wKey'[j] = r /\ j \notin held') <=> \E k \in 1..Len(order'[r]) : order'[r][k] = j
  <2>1. (wKey[j] = r /\ j \notin held) <=> \E k \in 1..Len(order[r]) : order[r][k] = j
    BY DEF PoolInv, FreeOrHeld
  <2>2. CASE r # p
    BY <1>3, <2>1, <2>2 DEF PoolInv
  <2>3. CASE r = p
    <3>1. order'[p] = n
      BY <1>3 DEF PoolInv
    <3>2. CASE j = i
      <4>1. 1 \in 1..Len(n) /\ n[1] = j
        BY <1>1, <1>2, <3>2
      <4> QED
        BY <2>3, <3>1, <3>2, <4>1
    <3>3. CASE j # i
      <4>1. ASSUME NEW k \in 1..Len(s), s[k] = j
            PROVE  \E l \in 1..Len(n) : n[l] = j
        <5>1. k + 1 \in 1..Len(n) /\ n[k + 1] = j
          BY <1>1, <1>2, <4>1
        <5> QED
          BY <5>1
      <4>2. ASSUME NEW l \in 1..Len(n), n[l] = j
            PROVE  \E k \in 1..Len(s) : s[k] = j
        <5>1. l \in 2..Len(s) + 1 /\ l - 1 \in 1..Len(s) /\ s[l - 1] = j
          <6>1. l \in 2..Len(s) + 1
            BY <1>1, <1>2, <3>3, <4>2
          <6>2. l - 1 \in 1..Len(s)
            BY <1>1, <6>1
          <6> QED
            BY <1>2, <4>2, <6>1, <6>2
        <5> QED
          BY <5>1
      <4> QED
        BY <2>1, <2>3, <3>1, <3>3, <4>1, <4>2
    <3> QED
      BY <3>2, <3>3
  <2> QED
    BY <2>2, <2>3
<1>7. \A j \in held' : wKey'[j] # NULL
  BY DEF PoolInv, FreeOrHeld
<1>8. ListFollowsOrder'
  BY PushKeepsLists DEF PoolInv
<1> QED
  BY <1>4, <1>5, <1>6, <1>7, <1>8 DEF PoolInv, FreeOrHeld

LEMMA AddHeapKeepsPools ==
    ASSUME PoolInv, NEW p \in Pool, NEW i \in Item, pool_add_heap(p, i)
    PROVE  PoolInv'
<1>1. \A q \in Pool : \A k \in 1..Len(order[q]) : order[q][k] # i
  BY PoolAssumption DEF PoolInv, FreeOrHeld, pool_add_heap
<1>2. /\ wKey' \in [Item -> Pool \cup {NULL}] /\ wKey'[i] = p
      /\ \A j \in Item : j # i => wKey'[j] = wKey[j]
  BY DEF PoolInv, PoolTypeOK, pool_add_heap
<1>3. held' = held \ {i}
  BY DEF PoolInv, FreeOrHeld, pool_add_heap
<1>4. slist_push(p, i)
  BY DEF pool_add_heap
<1> QED
  BY <1>1, <1>2, <1>3, <1>4, PushKeepsPools

LEMMA FreeKeepsPools ==
    ASSUME PoolInv, NEW p \in Pool, NEW i \in held, pool_free(p, i)
    PROVE  PoolInv'
<1>1. CASE wKey[i] # p /\ UNCHANGED pools
  BY <1>1 DEF pools, PoolInv, PoolTypeOK, ListFollowsOrder, FreeOrHeld
<1>2. CASE wKey[i] = p /\ slist_push(p, i) /\ held' = held \ {i} /\ UNCHANGED wKey
  <2>1. \A q \in Pool : \A k \in 1..Len(order[q]) : order[q][k] # i
    BY DEF PoolInv, PoolTypeOK, FreeOrHeld
  <2>2. wKey' \in [Item -> Pool \cup {NULL}] /\ \A j \in Item : j # i => wKey'[j] = wKey[j]
    BY <1>2 DEF PoolInv, PoolTypeOK
  <2>3. i \in Item
    BY DEF PoolInv, PoolTypeOK
  <2> QED
    BY <1>2, <2>1, <2>2, <2>3, PushKeepsPools
<1> QED
  BY <1>1, <1>2 DEF pool_free

-----------------------------------------------------------------------------
LEMMA PoolInvInit == PoolInit => PoolInv
BY PoolAssumption DEF PoolInit, PoolInv, PoolTypeOK, ListFollowsOrder, FreeOrHeld

LEMMA PoolInvNext == PoolInv /\ [PoolNext]_pools => PoolInv'
<1> SUFFICES ASSUME PoolInv, [PoolNext]_pools PROVE PoolInv'
  OBVIOUS
<1>1. CASE UNCHANGED pools
  BY <1>1 DEF pools, PoolInv, PoolTypeOK, ListFollowsOrder, FreeOrHeld
<1>2. ASSUME NEW p \in Pool, pool_allocate(p) PROVE PoolInv'
  BY <1>2, AllocateKeepsPools
<1>3. ASSUME NEW p \in Pool, NEW i \in Item, pool_add_heap(p, i) PROVE PoolInv'
  BY <1>3, AddHeapKeepsPools
<1>4. ASSUME NEW p \in Pool, NEW i \in Item, i \in held, pool_free(p, i) PROVE PoolInv'
  BY <1>4, FreeKeepsPools
<1> QED
  BY <1>1, <1>2, <1>3, <1>4 DEF PoolNext

(* However the calls of mem_pool.c follow each other, the pointers of each *)
(* pool lead through its free items to the end of its list.                *)
THEOREM PoolListsFollow == PoolSpec => []ListFollowsOrder
<1>1. PoolInv => ListFollowsOrder
  BY DEF PoolInv
<1> QED
  BY <1>1, PoolInvInit, PoolInvNext, PTL DEF PoolSpec

(* However the calls of mem_pool.c follow each other, an item is in one    *)
(* free list, once, or held: it is never given to two holders.             *)
THEOREM PoolItemsFreeOrHeld == PoolSpec => []FreeOrHeld
<1>1. PoolInv => FreeOrHeld
  BY DEF PoolInv
<1> QED
  BY <1>1, PoolInvInit, PoolInvNext, PTL DEF PoolSpec
=============================================================================
