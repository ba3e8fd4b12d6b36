------------------------------ MODULE MemPool ------------------------------
(***************************************************************************)
(* generic/pool/mem_pool.c: pools of items, each a list of free ones. An   *)
(* item is known to belong to a pool by its key, its address xor the       *)
(* pool's; the key stays while the item is free. No call is interrupted by *)
(* another, so a pool is used from the main loop only.                     *)
(***************************************************************************)
EXTENDS Integers, Sequences

CONSTANTS Pool, Item, NULL

ASSUME PoolAssumption == NULL \notin Pool /\ NULL \notin Item

VARIABLES
    ptFreeList,  \* the first free item of each pool
    ptNext,      \* the next one, in each item
    wKey,        \* the pool an item's key names; NULL before it is added to one
    held,        \* history: the items given out and not taken back
    order        \* history: the free items of each pool, the one freed last in front

pools == <<ptFreeList, ptNext, wKey, held, order>>

(* pool_init *)
PoolInit ==
    /\ ptFreeList = [p \in Pool |-> NULL]
    /\ ptNext = [i \in Item |-> NULL]
    /\ wKey = [i \in Item |-> NULL]
    /\ held = {}
    /\ order = [p \in Pool |-> <<>>]

(* Item i comes to the front of the free list of p. *)
slist_push(p, i) ==
    /\ ptNext' = [ptNext EXCEPT ![i] = ptFreeList[p]]
    /\ ptFreeList' = [ptFreeList EXCEPT ![p] = i]
    /\ order' = [order EXCEPT ![p] = <<i>> \o @]

(* One round of pool_add_heap's loop: the next item of the heap. *)
pool_add_heap(p, i) ==
    /\ wKey[i] = NULL
    /\ slist_push(p, i)
    /\ wKey' = [wKey EXCEPT ![i] = p]
    /\ UNCHANGED held

slist_pop_Kept(p) ==  \* mutant: the list keeps its front
    /\ UNCHANGED ptFreeList
    /\ ptNext' = [ptNext EXCEPT ![ptFreeList[p]] = NULL]
    /\ order' = [order EXCEPT ![p] = Tail(@)]

slist_pop(p) ==
    /\ ptFreeList' = [ptFreeList EXCEPT ![p] = ptNext[ptFreeList[p]]]
    /\ ptNext' = [ptNext EXCEPT ![ptFreeList[p]] = NULL]
    /\ order' = [order EXCEPT ![p] = Tail(@)]

(* The item given out; where none is free, the caller gets NULL. *)
pool_allocate(p) ==
    /\ ptFreeList[p] # NULL
    /\ slist_pop(p)
    /\ held' = held \cup {ptFreeList[p]}
    /\ UNCHANGED wKey

(* An item comes back to its pool; given to another pool by mistake, which *)
(* the key tells, nothing happens. That it was out is for the caller to    *)
(* know: the key of a free item is still the pool's.                       *)
pool_free_AnyKey(p, i) ==  \* mutant: the key is not looked at
    /\ slist_push(p, i) /\ held' = held \ {i} /\ UNCHANGED wKey

pool_free(p, i) ==
    \/ wKey[i] = p /\ slist_push(p, i) /\ held' = held \ {i} /\ UNCHANGED wKey
    \/ wKey[i] # p /\ UNCHANGED pools

(* The calls of users that give back what they hold, and that only. *)
PoolNext ==
    \E p \in Pool :
        \/ pool_allocate(p)
        \/ \E i \in Item : pool_add_heap(p, i) \/ (i \in held /\ pool_free(p, i))
PoolSpec == PoolInit /\ [][PoolNext]_pools

PoolTypeOK ==
    /\ ptFreeList \in [Pool -> Item \cup {NULL}]
    /\ ptNext \in [Item -> Item \cup {NULL}]
    /\ wKey \in [Item -> Pool \cup {NULL}]
    /\ held \subseteq Item
    /\ order \in [Pool -> Seq(Item)]

(* The free list of a pool is what the pointers say, to its end. *)
ListFollowsOrder ==
    \A p \in Pool :
        /\ ptFreeList[p] = IF order[p] = <<>> THEN NULL ELSE order[p][1]
        /\ \A k \in 1..Len(order[p]) :
              ptNext[order[p][k]] = IF k = Len(order[p]) THEN NULL ELSE order[p][k + 1]

(* An item is free in the pool its key names, once, or it is held, never   *)
(* both; so two holders never have the same item, nor do two lists.        *)
FreeOrHeld ==
    /\ \A p \in Pool :
          /\ \A k, l \in 1..Len(order[p]) : order[p][k] = order[p][l] => k = l
          /\ \A i \in Item : (wKey[i] = p /\ i \notin held) <=> \E k \in 1..Len(order[p]) : order[p][k] = i
    /\ \A i \in held : wKey[i] # NULL
=============================================================================
