--------------------------- MODULE PrintingProofs ---------------------------
(***************************************************************************)
(* What the pool, the mutex and the print_strings of Printing guarantee    *)
(* together, for any number of tasks, pools and items.                     *)
(*                                                                         *)
(* OutputWhole needs the mutex: it is taken exactly while one task prints. *)
(* And it needs the pool: the place in the string is kept in the item, so  *)
(* what was written is the string up to that place only as long as no one  *)
(* else has the item. PrintInv joins the two.                              *)
(***************************************************************************)
EXTENDS Printing, MemPoolProofs

(* The ranges of the variables the pool does not have. *)
TaskTypes ==
    /\ at \in [Task -> {"WAIT_EVENT", "RESET_EVENT", "TAKES", "ALLOCATE", "ENTER", "PRINT", "FREE"}]
    /\ item \in [Task -> Item \cup {NULL}]
    /\ pchStr \in [Item -> Task \cup {NULL}]
    /\ hwIndex \in [Item -> Nat]
    /\ output \in Seq([by : Task, place : Nat])
    /\ bLocked \in BOOLEAN

(* A task has an item from its allocation to its release. *)
HasItem == \A t \in Task : item[t] # NULL <=> at[t] \in {"ENTER", "PRINT", "FREE"}

(* The mutex is taken exactly while a task prints, and by one task only. *)
LockedByOne ==
    /\ bLocked <=> \E t \in Task : at[t] = "PRINT"
    /\ \A t, u \in Task : at[t] = "PRINT" /\ at[u] = "PRINT" => t = u

(* What was written is the printing task's string up to its place. *)
OutputUpToPlace ==
    /\ ~bLocked => output = <<>>
    /\ \A t \in Task :
          /\ at[t] = "ENTER" => hwIndex[item[t]] = 0
          /\ at[t] = "PRINT" =>
                /\ Len(output) = hwIndex[item[t]]
                /\ \A k \in 1..Len(output) : output[k] = [by |-> t, place |-> k - 1]

PrintInv == PoolInv /\ TaskTypes /\ ItemsOwned /\ HasItem /\ LockedByOne /\ OutputUpToPlace

-----------------------------------------------------------------------------
LEMMA AllocatedWasFree ==
    ASSUME PoolInv, NEW p \in Pool, pool_allocate(p)
    PROVE  ptFreeList[p] \in Item /\ ptFreeList[p] \notin held /\ held' = held \cup {ptFreeList[p]}
<1>1. order[p] \in Seq(Item) /\ order[p] # <<>> /\ ptFreeList[p] = order[p][1] /\ ptFreeList[p] \in Item
  BY DEF PoolInv, PoolTypeOK, pool_allocate, ListFollowsOrder
<1>2. 1 \in 1..Len(order[p])
  BY <1>1, EmptyLength
<1>3. ptFreeList[p] \notin held
  BY <1>1, <1>2 DEF PoolInv, FreeOrHeld
<1> QED
  BY <1>1, <1>3 DEF pool_allocate

LEMMA PrintInvInit == Init => PrintInv
<1> SUFFICES ASSUME Init PROVE PrintInv
  OBVIOUS
<1>1. PoolInv
  BY PoolInvInit DEF Init
<1>2. TaskTypes
  <2>1. output \in Seq([by : Task, place : Nat])
    BY DEF Init
  <2>2. bLocked \in BOOLEAN
    BY DEF Init
  <2>3. /\ at \in [Task -> {"WAIT_EVENT", "RESET_EVENT", "TAKES", "ALLOCATE", "ENTER", "PRINT", "FREE"}]
        /\ item \in [Task -> Item \cup {NULL}]
        /\ pchStr \in [Item -> Task \cup {NULL}]
        /\ hwIndex \in [Item -> Nat]
    BY DEF Init
  <2> QED
    BY <2>1, <2>2, <2>3 DEF TaskTypes
<1> QED
  BY <1>1, <1>2 DEF Init, PrintInv, ItemsOwned, HasItem, LockedByOne, OutputUpToPlace

(* A step of the pool is a step of its specification: a task that gives an *)
(* item back holds it.                                                     *)
LEMMA StepsOfPool == PrintInv /\ [Next]_vars => [PoolNext]_pools
<1> SUFFICES ASSUME PrintInv, [Next]_vars PROVE [PoolNext]_pools
  OBVIOUS
<1>1. CASE AddsHeap
  BY <1>1, TaskAssumption DEF AddsHeap, PoolNext
<1>2. ASSUME NEW t \in Task, Allocates(t) PROVE [PoolNext]_pools
  BY <1>2, TaskAssumption DEF Allocates, PoolNext
<1>3. ASSUME NEW t \in Task, Frees(t) PROVE [PoolNext]_pools
  <2>1. PICK p \in Pool : pool_free(p, item[t])
    BY <1>3 DEF Frees
  <2>2. item[t] \in held /\ item[t] \in Item
    BY <1>3 DEF Frees, PrintInv, HasItem, ItemsOwned, PoolInv, PoolTypeOK
  <2> QED
    BY <2>1, <2>2 DEF PoolNext
<1>4. ASSUME NEW t \in Task, set_event(t) PROVE [PoolNext]_pools
  BY <1>4 DEF set_event
<1>5. ASSUME NEW t \in Task,
             TestsEvent(t) \/ ResetsEvent(t) \/ Takes(t) \/ enter_critical_sector(t)
             \/ print_string(t) \/ leave_critical_sector(t)
      PROVE  [PoolNext]_pools
  BY <1>5 DEF TestsEvent, ResetsEvent, Takes, enter_critical_sector, print_string, leave_critical_sector
<1>6. CASE UNCHANGED vars
  BY <1>6 DEF vars, pools
<1> QED
  BY <1>1, <1>2, <1>3, <1>4, <1>5, <1>6 DEF Next, Runs
-----------------------------------------------------------------------------
(* The steps that only move a task between places without an item. *)
LEMMA MovesKeep ==
    ASSUME PrintInv, NEW t \in Task, NEW place \in {"RESET_EVENT", "TAKES", "ALLOCATE"},
           at[t] \in {"WAIT_EVENT", "RESET_EVENT", "TAKES"}, GoesTo(t, place),
           UNCHANGED <<pools, item, fsm, bLocked, output>>
    PROVE  TaskTypes' /\ ItemsOwned' /\ HasItem' /\ LockedByOne' /\ OutputUpToPlace'
<1>1. /\ held' = held /\ item' = item /\ pchStr' = pchStr /\ hwIndex' = hwIndex
      /\ bLocked' = bLocked /\ output' = output
      /\ at' = [at EXCEPT ![t] = place]
  BY DEF pools, fsm, GoesTo
<1>2. TaskTypes'
  BY <1>1 DEF PrintInv, TaskTypes
<1>3. ItemsOwned'
  BY <1>1 DEF PrintInv, ItemsOwned
<1>4. HasItem'
  BY <1>1 DEF PrintInv, HasItem, TaskTypes
<1>5. \A u \in Task : (at'[u] = "PRINT" <=> at[u] = "PRINT") /\ (at'[u] = "ENTER" <=> at[u] = "ENTER")
  BY <1>1 DEF PrintInv, TaskTypes
<1>6. LockedByOne'
  BY <1>1, <1>5 DEF PrintInv, LockedByOne
<1>7. OutputUpToPlace'
  BY <1>1, <1>5 DEF PrintInv, OutputUpToPlace
<1> QED
  BY <1>2, <1>3, <1>4, <1>6, <1>7

LEMMA AllocatesKeeps ==
    ASSUME PrintInv, NEW t \in Task, Allocates(t)
    PROVE  TaskTypes' /\ ItemsOwned' /\ HasItem' /\ LockedByOne' /\ OutputUpToPlace'
<1> DEFINE f == ptFreeList[PoolOf[t]]
<1>1. f \in Item /\ f \notin held /\ held' = held \cup {f} /\ f # NULL
  BY AllocatedWasFree, TaskAssumption, PoolAssumption DEF Allocates, PrintInv
<1>2. /\ at[t] = "ALLOCATE" /\ at' = [at EXCEPT ![t] = "ENTER"]
      /\ item' = [item EXCEPT ![t] = f]
      /\ pchStr' = [pchStr EXCEPT ![f] = t]
      /\ hwIndex' = [hwIndex EXCEPT ![f] = 0]
      /\ bLocked' = bLocked /\ output' = output
  BY DEF Allocates, GoesTo
<1> HIDE DEF f
<1>3. \A u \in Task : item[u] # NULL => item[u] # f /\ item[u] \in Item
  BY <1>1 DEF PrintInv, ItemsOwned, TaskTypes
<1>4. TaskTypes'
  BY <1>1, <1>2 DEF PrintInv, TaskTypes
<1>5. /\ item'[t] = f /\ pchStr'[f] = t /\ hwIndex'[f] = 0 /\ at'[t] = "ENTER"
      /\ \A u \in Task : u # t => item'[u] = item[u] /\ at'[u] = at[u]
      /\ \A i \in Item : i # f => pchStr'[i] = pchStr[i] /\ hwIndex'[i] = hwIndex[i]
  BY <1>1, <1>2 DEF PrintInv, TaskTypes
<1>6. ItemsOwned'
  BY <1>1, <1>3, <1>5 DEF PrintInv, ItemsOwned
<1>7. HasItem'
  BY <1>1, <1>5 DEF PrintInv, HasItem
<1>8. \A u \in Task : at'[u] = "PRINT" <=> at[u] = "PRINT"
  BY <1>2, <1>5
<1>9. LockedByOne'
  BY <1>2, <1>8 DEF PrintInv, LockedByOne
<1>10. \A u \in Task : u # t /\ at[u] \in {"ENTER", "PRINT"} => hwIndex'[item'[u]] = hwIndex[item[u]]
  BY <1>3, <1>5 DEF PrintInv, HasItem
<1>11. OutputUpToPlace'
  BY <1>2, <1>5, <1>8, <1>10 DEF PrintInv, OutputUpToPlace
<1> QED
  BY <1>4, <1>6, <1>7, <1>9, <1>11

LEMMA EntersKeeps ==
    ASSUME PrintInv, NEW t \in Task, enter_critical_sector(t)
    PROVE  TaskTypes' /\ ItemsOwned' /\ HasItem' /\ LockedByOne' /\ OutputUpToPlace'
<1>1. /\ at[t] = "ENTER" /\ ~bLocked /\ bLocked' = TRUE
      /\ at' = [at EXCEPT ![t] = "PRINT"]
      /\ held' = held /\ item' = item /\ pchStr' = pchStr /\ hwIndex' = hwIndex /\ output' = output
  BY DEF enter_critical_sector, GoesTo, pools, fsm
<1>2. TaskTypes'
  <2>1. bLocked' \in BOOLEAN
    BY <1>1
  <2>2. at' \in [Task -> {"WAIT_EVENT", "RESET_EVENT", "TAKES", "ALLOCATE", "ENTER", "PRINT", "FREE"}]
    BY <1>1 DEF PrintInv, TaskTypes
  <2> QED
    BY <1>1, <2>1, <2>2 DEF PrintInv, TaskTypes
<1>3. at'[t] = "PRINT" /\ \A u \in Task : u # t => at'[u] = at[u]
  BY <1>1 DEF PrintInv, TaskTypes
<1>4. ItemsOwned'
  BY <1>1 DEF PrintInv, ItemsOwned
<1>5. HasItem'
  BY <1>1, <1>3 DEF PrintInv, HasItem
<1>6. \A u \in Task : at[u] # "PRINT"
  BY <1>1 DEF PrintInv, LockedByOne
<1>7. LockedByOne'
  BY <1>1, <1>3, <1>6 DEF LockedByOne
<1>8. output' = <<>> /\ hwIndex'[item'[t]] = 0 /\ Len(output') = 0
  BY <1>1 DEF PrintInv, OutputUpToPlace
<1>9. OutputUpToPlace'
  BY <1>1, <1>3, <1>6, <1>8 DEF PrintInv, OutputUpToPlace
<1> QED
  BY <1>2, <1>4, <1>5, <1>7, <1>9

LEMMA PrintsKeeps ==
    ASSUME PrintInv, NEW t \in Task, print_string(t)
    PROVE  TaskTypes' /\ ItemsOwned' /\ HasItem' /\ LockedByOne' /\ OutputUpToPlace'
<1> DEFINE i == item[t]
           byte == [by |-> t, place |-> hwIndex[i]]
<1>1. i \in Item /\ pchStr[i] = t /\ hwIndex[i] \in Nat /\ at[t] = "PRINT" /\ bLocked
  BY DEF print_string, PrintInv, HasItem, ItemsOwned, TaskTypes, LockedByOne
<1>2. /\ hwIndex' = [hwIndex EXCEPT ![i] = @ + 1]
      /\ output' = Append(output, byte)
      /\ held' = held /\ at' = at /\ item' = item /\ pchStr' = pchStr /\ bLocked' = bLocked
  BY <1>1 DEF print_string, pools
<1> HIDE DEF i
<1>3. output' \in Seq([by : Task, place : Nat]) /\ hwIndex' \in [Item -> Nat]
  BY <1>1, <1>2 DEF PrintInv, TaskTypes
<1>4. TaskTypes'
  BY <1>2, <1>3 DEF PrintInv, TaskTypes
<1>5. ItemsOwned' /\ HasItem' /\ LockedByOne'
  BY <1>2 DEF PrintInv, ItemsOwned, HasItem, LockedByOne
<1>6. \A u \in Task : at[u] = "PRINT" => u = t
  BY <1>1 DEF PrintInv, LockedByOne
<1>7. \A u \in Task : at[u] = "ENTER" => hwIndex'[item'[u]] = hwIndex[item[u]]
  <2> SUFFICES ASSUME NEW u \in Task, at[u] = "ENTER" PROVE hwIndex'[item'[u]] = hwIndex[item[u]]
    OBVIOUS
  <2>1. u # t /\ item[u] # NULL /\ item[t] # NULL
    BY <1>1 DEF PrintInv, HasItem
  <2>2. item[u] # i /\ item[u] \in Item
    BY <2>1 DEF PrintInv, ItemsOwned, TaskTypes, i
  <2> QED
    BY <1>1, <1>2, <2>2 DEF PrintInv, TaskTypes
<1>8. Len(output') = hwIndex'[item'[t]] /\ Len(output) = hwIndex[i]
  BY <1>1, <1>2 DEF PrintInv, OutputUpToPlace, TaskTypes, i
<1>9. \A k \in 1..Len(output') : output'[k] = [by |-> t, place |-> k - 1]
  <2> SUFFICES ASSUME NEW k \in 1..Len(output') PROVE output'[k] = [by |-> t, place |-> k - 1]
    OBVIOUS
  <2>1. output \in Seq([by : Task, place : Nat]) /\ byte \in [by : Task, place : Nat]
    BY <1>1 DEF PrintInv, TaskTypes
  <2>2. CASE k \in 1..Len(output)
    <3>1. output'[k] = output[k]
      BY <1>2, <2>1, <2>2
    <3> QED
      BY <1>1, <2>2, <3>1 DEF PrintInv, OutputUpToPlace
  <2>3. CASE k = Len(output) + 1
    <3>1. output'[k] = byte
      BY <1>2, <2>1, <2>3
    <3>2. k - 1 = hwIndex[i]
      BY <1>1, <1>8, <2>3
    <3> QED
      BY <3>1, <3>2
  <2> QED
    BY <1>2, <2>1, <2>2, <2>3
<1>10. OutputUpToPlace'
  BY <1>1, <1>2, <1>6, <1>7, <1>8, <1>9 DEF PrintInv, OutputUpToPlace
<1> QED
  BY <1>4, <1>5, <1>10

LEMMA LeavesKeeps ==
    ASSUME PrintInv, NEW t \in Task, leave_critical_sector(t)
    PROVE  TaskTypes' /\ ItemsOwned' /\ HasItem' /\ LockedByOne' /\ OutputUpToPlace'
<1>1. /\ at[t] = "PRINT" /\ bLocked' = FALSE /\ output' = <<>>
      /\ at' = [at EXCEPT ![t] = "FREE"]
      /\ held' = held /\ item' = item /\ pchStr' = pchStr /\ hwIndex' = hwIndex
  BY DEF leave_critical_sector, GoesTo, pools, fsm
<1>2. TaskTypes'
  <2>1. bLocked' \in BOOLEAN
    BY <1>1
  <2>2. output' \in Seq([by : Task, place : Nat])
    BY <1>1
  <2>3. at' \in [Task -> {"WAIT_EVENT", "RESET_EVENT", "TAKES", "ALLOCATE", "ENTER", "PRINT", "FREE"}]
    BY <1>1 DEF PrintInv, TaskTypes
  <2> QED
    BY <1>1, <2>1, <2>2, <2>3 DEF PrintInv, TaskTypes
<1>3. at'[t] = "FREE" /\ \A u \in Task : u # t => at'[u] = at[u]
  BY <1>1 DEF PrintInv, TaskTypes
<1>4. ItemsOwned'
  BY <1>1 DEF PrintInv, ItemsOwned
<1>5. HasItem'
  BY <1>1, <1>3 DEF PrintInv, HasItem
<1>6. \A u \in Task : at'[u] # "PRINT"
  BY <1>1, <1>3 DEF PrintInv, LockedByOne
<1>7. LockedByOne'
  BY <1>1, <1>6 DEF LockedByOne
<1>8. OutputUpToPlace'
  BY <1>1, <1>3, <1>6 DEF PrintInv, OutputUpToPlace
<1> QED
  BY <1>2, <1>4, <1>5, <1>7, <1>8

LEMMA FreesKeeps ==
    ASSUME PrintInv, NEW t \in Task, Frees(t)
    PROVE  TaskTypes' /\ ItemsOwned' /\ HasItem' /\ LockedByOne' /\ OutputUpToPlace'
<1>1. PICK p \in Pool : pool_free(p, item[t])
  BY DEF Frees
<1>2. /\ at[t] = "FREE" /\ pchStr' = pchStr /\ hwIndex' = hwIndex
      /\ bLocked' = bLocked /\ output' = output
  BY DEF Frees, fsm
<1>3. CASE item[t] \in held'
  <2>1. at' = at /\ item' = item
    BY <1>3 DEF Frees
  <2>2. held' = held
    BY <1>1, <1>3 DEF pool_free, pools
  <2> QED
    BY <1>2, <2>1, <2>2 DEF PrintInv, TaskTypes, ItemsOwned, HasItem, LockedByOne, OutputUpToPlace
<1>4. CASE item[t] \notin held'
  <2>1. at' = [at EXCEPT ![t] = "WAIT_EVENT"] /\ item' = [item EXCEPT ![t] = NULL]
    BY <1>4 DEF Frees, GoesTo
  <2>2. held' = held \ {item[t]}
    BY <1>1, <1>4 DEF pool_free, pools
  <2>3. TaskTypes'
    BY <1>2, <2>1 DEF PrintInv, TaskTypes
  <2>4. /\ at'[t] = "WAIT_EVENT" /\ item'[t] = NULL
        /\ \A u \in Task : u # t => at'[u] = at[u] /\ item'[u] = item[u]
    BY <2>1 DEF PrintInv, TaskTypes
  <2>5. item[t] # NULL
    BY <1>2 DEF PrintInv, HasItem
  <2>6. ItemsOwned'
    BY <1>2, <2>2, <2>4, <2>5 DEF PrintInv, ItemsOwned
  <2>7. HasItem'
    BY <2>4 DEF PrintInv, HasItem
  <2>8. \A u \in Task : at'[u] = "PRINT" <=> at[u] = "PRINT"
    BY <1>2, <2>4
  <2>9. LockedByOne'
    BY <1>2, <2>8 DEF PrintInv, LockedByOne
  <2>10. \A u \in Task : (at'[u] = "ENTER" <=> at[u] = "ENTER")
    BY <1>2, <2>4
  <2>11. \A u \in Task : at[u] \in {"ENTER", "PRINT"} => hwIndex'[item'[u]] = hwIndex[item[u]]
    BY <1>2, <2>4
  <2>12. OutputUpToPlace'
    BY <1>2, <2>8, <2>10, <2>11 DEF PrintInv, OutputUpToPlace
  <2> QED
    BY <2>3, <2>6, <2>7, <2>9, <2>12
<1> QED
  BY <1>3, <1>4

(* Steps that touch nothing the invariant is about but the pools: start-up *)
(* while nobody holds what is added, and the interrupt handler.            *)
LEMMA OthersKeep ==
    ASSUME PrintInv, held' = held, UNCHANGED <<at, item, fsm, bLocked, output>>
    PROVE  TaskTypes' /\ ItemsOwned' /\ HasItem' /\ LockedByOne' /\ OutputUpToPlace'
BY DEF PrintInv, TaskTypes, ItemsOwned, HasItem, LockedByOne, OutputUpToPlace, fsm

LEMMA PrintInvNext == PrintInv /\ [Next]_vars => PrintInv'
<1> SUFFICES ASSUME PrintInv, [Next]_vars PROVE PrintInv'
  OBVIOUS
<1>1. PoolInv'
  BY StepsOfPool, PoolInvNext DEF PrintInv
<1> SUFFICES TaskTypes' /\ ItemsOwned' /\ HasItem' /\ LockedByOne' /\ OutputUpToPlace'
  BY <1>1 DEF PrintInv
<1>2. CASE AddsHeap
  <2>1. held' = held
    BY <1>2 DEF AddsHeap, pool_add_heap
  <2> QED
    BY <1>2, <2>1, OthersKeep DEF AddsHeap
<1>3. ASSUME NEW t \in Task, set_event(t)
      PROVE  TaskTypes' /\ ItemsOwned' /\ HasItem' /\ LockedByOne' /\ OutputUpToPlace'
  BY <1>3, OthersKeep DEF set_event, pools
<1>4. ASSUME NEW t \in Task, TestsEvent(t) \/ ResetsEvent(t) \/ Takes(t)
      PROVE  TaskTypes' /\ ItemsOwned' /\ HasItem' /\ LockedByOne' /\ OutputUpToPlace'
  BY <1>4, MovesKeep DEF TestsEvent, ResetsEvent, Takes
<1>5. ASSUME NEW t \in Task,
             Allocates(t) \/ enter_critical_sector(t) \/ print_string(t) \/ leave_critical_sector(t) \/ Frees(t)
      PROVE  TaskTypes' /\ ItemsOwned' /\ HasItem' /\ LockedByOne' /\ OutputUpToPlace'
  BY <1>5, AllocatesKeeps, EntersKeeps, PrintsKeeps, LeavesKeeps, FreesKeeps
<1>6. CASE UNCHANGED vars
  BY <1>6, OthersKeep DEF vars, pools
<1> QED
  BY <1>2, <1>3, <1>4, <1>5, <1>6 DEF Next, Runs

LEMMA PrintInvHolds == Spec => []PrintInv
BY PrintInvInit, PrintInvNext, PTL DEF Spec

-----------------------------------------------------------------------------
(* Two tasks never work in the same print_string. *)
THEOREM PrintingItemsOwned == Spec => []ItemsOwned
<1>1. PrintInv => ItemsOwned
  BY DEF PrintInv
<1> QED
  BY <1>1, PrintInvHolds, PTL

(* Under the tasks and interrupts of Printing, too, no item is lost or     *)
(* given out twice, and every free list stays a list.                      *)
THEOREM PrintingPools == Spec => [](FreeOrHeld /\ ListFollowsOrder)
<1>1. PrintInv => FreeOrHeld /\ ListFollowsOrder
  BY DEF PrintInv, PoolInv
<1> QED
  BY <1>1, PrintInvHolds, PTL

(* However tasks and interrupts interleave, the port writes one string at  *)
(* a time, whole and in order, and none is unfinished while it is free.    *)
THEOREM PrintingOutputWhole == Spec => []OutputWhole
<1>1. PrintInv => OutputWhole
  <2> SUFFICES ASSUME PrintInv PROVE OutputWhole
    OBVIOUS
  <2>1. CASE ~bLocked
    <3>1. output = <<>> /\ Len(output) = 0
      BY <2>1 DEF PrintInv, OutputUpToPlace
    <3> QED
      BY <3>1 DEF OutputWhole
  <2>2. CASE bLocked
    <3>1. PICK t \in Task : at[t] = "PRINT"
      BY <2>2 DEF PrintInv, LockedByOne
    <3>2. \A k \in 1..Len(output) : output[k] = [by |-> t, place |-> k - 1]
      BY <3>1 DEF PrintInv, OutputUpToPlace
    <3>3. Len(output) \in Nat
      BY DEF PrintInv, TaskTypes
    <3>4. ASSUME NEW k \in 1..Len(output) PROVE output[1].by = t
      <4>1. 1 \in 1..Len(output)
        BY <3>3
      <4>2. output[1] = [by |-> t, place |-> 1 - 1]
        BY <3>2, <4>1
      <4> QED
        BY <4>2
    <3> QED
      BY <2>2, <3>2, <3>4 DEF OutputWhole
  <2> QED
    BY <2>1, <2>2
<1> QED
  BY <1>1, PrintInvHolds, PTL
-----------------------------------------------------------------------------
(* The place in a print_string is never behind the end of its string: the  *)
(* byte at the end is not printed, and whose string it is does not change  *)
(* but where the place is set to 0.                                        *)
InString(i) == hwIndex[i] \in 0..(IF pchStr[i] = NULL THEN 0 ELSE StringLen[pchStr[i]])
Ranges ==
    /\ \A i \in Item : InString(i)
    /\ bIsSet \in [Task -> BOOLEAN] /\ asked \in [Task -> BOOLEAN]
    /\ requests \in 0..MaxRequests

LEMMA PlaceKeeps ==
    ASSUME PrintInv, Ranges, [Next]_vars
    PROVE  \A i \in Item : InString(i)'
<1>1. /\ pchStr \in [Item -> Task \cup {NULL}] /\ hwIndex \in [Item -> Nat] /\ item \in [Task -> Item \cup {NULL}]
      /\ \A i \in Item : InString(i)
  BY DEF PrintInv, TaskTypes, Ranges
<1>2. ASSUME UNCHANGED fsm PROVE \A i \in Item : InString(i)'
  BY <1>1, <1>2 DEF fsm, InString
<1>3. ASSUME NEW t \in Task, Allocates(t) PROVE \A i \in Item : InString(i)'
  <2>1. PICK k \in Item : pchStr' = [pchStr EXCEPT ![k] = t] /\ hwIndex' = [hwIndex EXCEPT ![k] = 0]
    BY <1>3, AllocatedWasFree, TaskAssumption DEF Allocates, PrintInv
  <2>2. pchStr'[k] = t /\ hwIndex'[k] = 0 /\ StringLen[t] \in Nat
        /\ \A i \in Item : i # k => pchStr'[i] = pchStr[i] /\ hwIndex'[i] = hwIndex[i]
    BY <1>1, <2>1, TaskAssumption
  <2> QED BY <1>1, <2>2 DEF InString
<1>4. ASSUME NEW t \in Task, print_string(t) PROVE \A i \in Item : InString(i)'
  <2> DEFINE k == item[t]
  <2>1. k \in Item /\ pchStr[k] = t /\ t # NULL
    BY <1>1, <1>4, TaskAssumption DEF print_string, PrintInv, HasItem, ItemsOwned
  <2>2. pchStr' = pchStr /\ hwIndex' = [hwIndex EXCEPT ![k] = @ + 1] /\ hwIndex[k] # StringLen[t]
    BY <1>4, <2>1 DEF print_string, AtEnd
  <2> HIDE DEF k
  <2>3. hwIndex'[k] = hwIndex[k] + 1 /\ hwIndex[k] \in 0..StringLen[t] /\ StringLen[t] \in Nat
        /\ \A i \in Item : i # k => hwIndex'[i] = hwIndex[i]
    BY <1>1, <2>1, <2>2, TaskAssumption DEF InString
  <2> QED BY <1>1, <2>1, <2>2, <2>3 DEF InString
<1>5. ASSUME NEW t \in Task,
             TestsEvent(t) \/ ResetsEvent(t) \/ Takes(t) \/ enter_critical_sector(t)
             \/ leave_critical_sector(t) \/ Frees(t) \/ set_event(t)
      PROVE  UNCHANGED fsm
  BY <1>5 DEF TestsEvent, ResetsEvent, Takes, enter_critical_sector, leave_critical_sector, Frees, set_event
<1>6. CASE AddsHeap \/ UNCHANGED vars
  BY <1>2, <1>6 DEF AddsHeap, vars
<1> QED BY <1>2, <1>3, <1>4, <1>5, <1>6 DEF Next, Runs

LEMMA RangesNext == PrintInv /\ Ranges /\ [Next]_vars => Ranges'
<1> SUFFICES ASSUME PrintInv, Ranges, [Next]_vars PROVE Ranges'
  OBVIOUS
<1>1. \A i \in Item : InString(i)'
  BY PlaceKeeps
<1>2. requests' \in 0..MaxRequests
  <2>1. ASSUME NEW t \in Task, set_event(t) PROVE requests' \in 0..MaxRequests
    BY <2>1, TaskAssumption DEF set_event, Ranges
  <2> QED BY <2>1 DEF Ranges, Next, Runs, AddsHeap, vars
<1>3. bIsSet' \in [Task -> BOOLEAN] /\ asked' \in [Task -> BOOLEAN]
  <2>1. bIsSet \in [Task -> BOOLEAN] /\ asked \in [Task -> BOOLEAN]
    BY DEF Ranges
  <2>2. \/ bIsSet' = bIsSet
        \/ \E t \in Task, b \in BOOLEAN : bIsSet' = [bIsSet EXCEPT ![t] = b]
    BY DEF Next, Runs, AddsHeap, vars, TestsEvent, ResetsEvent, Takes, Allocates, enter_critical_sector,
           print_string, leave_critical_sector, Frees, set_event
  <2>3. \/ asked' = asked
        \/ \E t \in Task, b \in BOOLEAN : asked' = [asked EXCEPT ![t] = b]
    BY DEF Next, Runs, AddsHeap, vars, TestsEvent, ResetsEvent, Takes, Allocates, enter_critical_sector,
           print_string, leave_critical_sector, Frees, set_event
  <2> QED BY <2>1, <2>2, <2>3
<1> QED BY <1>1, <1>2, <1>3 DEF Ranges

(* Every variable keeps its type: no task reads behind the end of its      *)
(* string.                                                                 *)
THEOREM PrintingTypeOK == Spec => []TypeOK
<1>1. Init => Ranges
  BY TaskAssumption DEF Init, Ranges, InString
<1>2. PrintInv /\ Ranges => TypeOK
  <2> SUFFICES ASSUME PrintInv, Ranges PROVE TypeOK
    OBVIOUS
  <2>1. \A k \in 1..Len(output) : output[k].by \in Task /\ output[k].place \in Nat
    <3>1. output \in Seq([by : Task, place : Nat])
      BY DEF PrintInv, TaskTypes
    <3>2. \A S, s, k : s \in Seq(S) /\ k \in 1..Len(s) => s[k] \in S
      OBVIOUS
    <3> QED BY <3>1, <3>2
  <2> QED BY <2>1 DEF PrintInv, TaskTypes, PoolInv, Ranges, InString, TypeOK
<1> QED BY <1>1, <1>2, RangesNext, PrintInvHolds, PTL DEF Spec
=============================================================================
