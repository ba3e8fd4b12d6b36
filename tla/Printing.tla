------------------------------ MODULE Printing ------------------------------
(***************************************************************************)
(* print_str/print_str.c with the pool its header defines for it, and the  *)
(* mutex and events of IPC/, composed by tasks of a main loop: a task      *)
(* waits for its event, allocates a print_string, enters the critical      *)
(* section of the port, prints its string, leaves, and frees. The tasks    *)
(* are the application's, in the form the four interfaces ask for.         *)
(*                                                                         *)
(* Tasks take turns, a call at a time. An interrupt handler runs between   *)
(* any two steps, also between what wait_event tests and what it resets:   *)
(* it asks a task to print and sets its event. A handler that enters the   *)
(* critical section leaves it before it returns, so a task only ever sees  *)
(* the mutex as another task left it, and enter_critical_sector is one     *)
(* step.                                                                   *)
(***************************************************************************)
EXTENDS MemPool, FiniteSets

CONSTANTS
    Task,
    StringLen,   \* bytes of each task's string
    Heap,        \* which pool each item is added to
    PoolOf,      \* which pool each task allocates from
    MaxRequests  \* bound: requests in a behaviour

ASSUME TaskAssumption ==
    /\ StringLen \in [Task -> Nat] /\ Heap \in [Item -> Pool] /\ PoolOf \in [Task -> Pool]
    /\ NULL \notin Task /\ MaxRequests \in Nat

VARIABLES
    at,          \* what each task does next
    item,        \* the print_string it has; NULL for none
    pchStr,      \* in each print_string: whose string it is to print
    hwIndex,     \*   and the place it is at
    bIsSet,      \* each task's event
    bLocked,     \* the mutex of the port
    asked,       \* what a task is asked to do and has not begun
    requests,
    output       \* history: what the port wrote since the mutex was free: [by, place]

fsm == <<pchStr, hwIndex>>
vars == <<pools, at, item, fsm, bIsSet, bLocked, asked, requests, output>>

Init ==
    /\ PoolInit
    /\ at = [t \in Task |-> "WAIT_EVENT"]
    /\ item = [t \in Task |-> NULL]
    /\ pchStr = [i \in Item |-> NULL] /\ hwIndex = [i \in Item |-> 0]
    /\ bIsSet = [t \in Task |-> FALSE]
    /\ bLocked = FALSE
    /\ asked = [t \in Task |-> FALSE] /\ requests = 0
    /\ output = <<>>

(* Start-up: the heaps are added before the first task is called. *)
Ready == \A i \in Item : wKey[i] # NULL
AddsHeap ==
    /\ \E i \in Item : pool_add_heap(Heap[i], i)
    /\ UNCHANGED <<at, item, fsm, bIsSet, bLocked, asked, requests, output>>

GoesTo(t, place) == at' = [at EXCEPT ![t] = place]

-----------------------------------------------------------------------------
(* wait_event: tests, and if the event is set resets it and returns true   *)
(* (with manual reset its caller does). The caller then takes what it is   *)
(* asked to do.                                                            *)
TestsEvent(t) ==
    /\ at[t] = "WAIT_EVENT" /\ bIsSet[t]
    /\ GoesTo(t, "RESET_EVENT")
    /\ UNCHANGED <<pools, item, fsm, bIsSet, bLocked, asked, output>>

ResetsEvent_Late(t) ==  \* mutant: the event is reset once the work was taken
    /\ at[t] \in {"RESET_EVENT", "TAKEN"}
    /\ asked' = [asked EXCEPT ![t] = @ /\ at[t] = "TAKEN"]
    /\ bIsSet' = [bIsSet EXCEPT ![t] = @ /\ at[t] # "TAKEN"]
    /\ GoesTo(t, IF at[t] = "TAKEN" THEN "ALLOCATE" ELSE "TAKEN")
    /\ UNCHANGED <<pools, item, fsm, bLocked, output>>

ResetsEvent(t) ==
    /\ at[t] = "RESET_EVENT"
    /\ bIsSet' = [bIsSet EXCEPT ![t] = FALSE]
    /\ GoesTo(t, "TAKES")
    /\ UNCHANGED <<pools, item, fsm, bLocked, asked, output>>

Takes(t) ==
    /\ at[t] = "TAKES"
    /\ asked' = [asked EXCEPT ![t] = FALSE]
    /\ GoesTo(t, "ALLOCATE")
    /\ UNCHANGED <<pools, item, fsm, bIsSet, bLocked, output>>

(* pool_allocate from its pool, and the initialiser of print_string. A task  *)
(* that gets NULL tries again in its next turn.                            *)
Allocates_NoStart(t) ==  \* mutant: the place is left from the string before
    /\ at[t] = "ALLOCATE"
    /\ pool_allocate(PoolOf[t])
    /\ LET i == ptFreeList[PoolOf[t]] IN
          /\ item' = [item EXCEPT ![t] = i]
          /\ pchStr' = [pchStr EXCEPT ![i] = t]
    /\ GoesTo(t, "ENTER")
    /\ UNCHANGED <<hwIndex, bIsSet, bLocked, asked, output>>

Allocates(t) ==
    /\ at[t] = "ALLOCATE"
    /\ pool_allocate(PoolOf[t])
    /\ LET i == ptFreeList[PoolOf[t]] IN
          /\ item' = [item EXCEPT ![t] = i]
          /\ pchStr' = [pchStr EXCEPT ![i] = t]
          /\ hwIndex' = [hwIndex EXCEPT ![i] = 0]
    /\ GoesTo(t, "ENTER")
    /\ UNCHANGED <<bIsSet, bLocked, asked, output>>

(* A task that is not let in tries again. *)
enter_critical_sector_Open(t) ==  \* mutant: the mutex is not tested
    /\ at[t] = "ENTER"
    /\ bLocked' = TRUE
    /\ GoesTo(t, "PRINT")
    /\ UNCHANGED <<pools, item, fsm, bIsSet, asked, output>>

enter_critical_sector(t) ==
    /\ at[t] = "ENTER" /\ ~bLocked
    /\ bLocked' = TRUE
    /\ GoesTo(t, "PRINT")
    /\ UNCHANGED <<pools, item, fsm, bIsSet, asked, output>>

AtEnd(i) == hwIndex[i] = StringLen[pchStr[i]]

(* print_string: a byte a call; one the port does not take is tried again. *)
print_string(t) ==
    /\ at[t] = "PRINT" /\ ~AtEnd(item[t])
    /\ hwIndex' = [hwIndex EXCEPT ![item[t]] = @ + 1]
    /\ output' = Append(output, [by |-> pchStr[item[t]], place |-> hwIndex[item[t]]])
    /\ UNCHANGED <<pools, at, item, pchStr, bIsSet, bLocked, asked>>

(* It completes; leave_critical_sector. *)
leave_critical_sector_Kept(t) ==  \* mutant: the mutex is not given back
    /\ at[t] = "PRINT" /\ AtEnd(item[t])
    /\ output' = <<>>
    /\ GoesTo(t, "FREE")
    /\ UNCHANGED <<pools, item, fsm, bIsSet, bLocked, asked>>

leave_critical_sector(t) ==
    /\ at[t] = "PRINT" /\ AtEnd(item[t])
    /\ bLocked' = FALSE
    /\ output' = <<>>
    /\ GoesTo(t, "FREE")
    /\ UNCHANGED <<pools, item, fsm, bIsSet, asked>>

(* pool_free: a task that names the wrong pool keeps what it has; one that *)
(* gave its item back is done with it and starts over.                     *)
Frees_Again(t) ==  \* mutant: a task stays where it frees the item it has freed
    /\ at[t] = "FREE"
    /\ \E p \in Pool : pool_free(p, item[t])
    /\ UNCHANGED <<at, item, fsm, bIsSet, bLocked, asked, output>>

Frees(t) ==
    /\ at[t] = "FREE"
    /\ \E p \in Pool : pool_free(p, item[t])
    /\ IF item[t] \notin held'
       THEN GoesTo(t, "WAIT_EVENT") /\ item' = [item EXCEPT ![t] = NULL]
       ELSE UNCHANGED <<at, item>>
    /\ UNCHANGED <<fsm, bIsSet, bLocked, asked, output>>

-----------------------------------------------------------------------------
(* The interrupt handler: set_event, after what it is about was posted.    *)
set_event(t) ==
    /\ requests < MaxRequests
    /\ requests' = requests + 1
    /\ asked' = [asked EXCEPT ![t] = TRUE]
    /\ bIsSet' = [bIsSet EXCEPT ![t] = TRUE]
    /\ UNCHANGED <<pools, at, item, fsm, bLocked, output>>

Runs(t) ==
    /\ Ready /\ UNCHANGED requests
    /\ TestsEvent(t) \/ ResetsEvent(t) \/ Takes(t) \/ Allocates(t) \/ enter_critical_sector(t)
       \/ print_string(t) \/ leave_critical_sector(t) \/ Frees(t)

Next == AddsHeap \/ \E t \in Task : Runs(t) \/ set_event(t)

(* The main loop calls every task again and again, and a task whose turn   *)
(* comes while the mutex is free, an item is free or the port takes a      *)
(* byte is not kept from it for ever: the others do not hold these things  *)
(* at its every turn. A free with the wrong pool is corrected some time.   *)
Fairness ==
    /\ WF_vars(AddsHeap)
    /\ \A t \in Task :
          /\ WF_vars(Runs(t))
          /\ SF_vars(Ready /\ UNCHANGED requests /\ enter_critical_sector(t))
          /\ SF_vars(Ready /\ UNCHANGED requests /\ Allocates(t))

Spec == Init /\ [][Next]_vars /\ Fairness

-----------------------------------------------------------------------------
(* Every variable holds what its C declaration and its use allow. *)
TypeOK ==
    /\ PoolTypeOK
    /\ at \in [Task -> {"WAIT_EVENT", "RESET_EVENT", "TAKES", "ALLOCATE", "ENTER", "PRINT", "FREE"}]
    /\ item \in [Task -> Item \cup {NULL}]
    /\ pchStr \in [Item -> Task \cup {NULL}]
    /\ \A i \in Item : hwIndex[i] \in 0..(IF pchStr[i] = NULL THEN 0 ELSE StringLen[pchStr[i]])
    /\ bIsSet \in [Task -> BOOLEAN] /\ bLocked \in BOOLEAN
    /\ asked \in [Task -> BOOLEAN] /\ requests \in 0..MaxRequests
    /\ \A k \in 1..Len(output) : output[k].by \in Task /\ output[k].place \in Nat

(* Two tasks never work in the same print_string: what a task has is held, *)
(* and nobody else has it.                                                 *)
ItemsOwned ==
    \A t \in Task : item[t] # NULL =>
        /\ item[t] \in held /\ pchStr[item[t]] = t
        /\ \A u \in Task : item[u] = item[t] => u = t

(* While the mutex is taken the port writes the string of one task, from   *)
(* its first byte and in order; while it is free no string is unfinished,  *)
(* so an interrupt handler that is let in does not cut into one.           *)
OutputWhole ==
    /\ \A k \in 1..Len(output) : output[k] = [by |-> output[1].by, place |-> k - 1]
    /\ ~bLocked => output = <<>>

(* No request is lost: what a task is asked to do it begins, however the   *)
(* interrupt falls between the test and the reset in wait_event.           *)
RequestBegun == \A t \in Task : asked[t] ~> ~asked[t]

(* A task that began gets its item and its turn at the port, and is back   *)
(* waiting for its event with nothing left in hand.                        *)
TaskReturns == \A t \in Task : (at[t] = "ALLOCATE") ~> (at[t] = "WAIT_EVENT" /\ item[t] = NULL)
=============================================================================
