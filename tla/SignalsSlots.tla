---------------------------- MODULE SignalsSlots ----------------------------
(***************************************************************************)
(* communication/signals_slots: a sender's list of connections, each a     *)
(* node from malloc with a signal name, a receiver and a method.           *)
(*                                                                         *)
(* The main loop connects and disconnects, field by field where an emit    *)
(* from an interrupt handler could tell. Its own emit calls slots, which   *)
(* connect and disconnect in turn. An interrupt handler's emit runs to its *)
(* end at whatever point the main loop was, as in the CAN reception of     *)
(* docs/signals_slots/signals_slots.md.                                    *)
(***************************************************************************)
EXTENDS Integers, FiniteSets, LinkedList

CONSTANTS
    Connection,  \* what may be connected: a signal, a receiver and a method each
    Emitted,     \* those of them that are for the signal emitted
    Node,        \* bound: the memory malloc has
    Sender,      \* the list's own first node, the object itself
    NIL          \* the null pointer

ASSUME NodeAssumption ==
    /\ Emitted \subseteq Connection /\ IsFiniteSet(Node)
    /\ Sender \notin Node /\ NIL \notin Node \cup {Sender} \cup Connection

VARIABLES
    next, prev,               \* ptNext and ptPrev of each node
    pMethod, pReceiver, name, \* whose method, receiver and name the node holds
    allocated,                \* what malloc has given out
    leaked,                   \* history: nodes allocated and forgotten
    doing,                    \* the connect or disconnect in progress: [what, which, node]
    connected,                \* history: the connections made and not unmade
    emitAt,                   \* the node whose slot the main loop's emit is calling
    called,                   \* history: connections called in this emit, and
    steady,                   \* those connected throughout it
    cutShort                  \* history: a slot freed the node emit stood on

nodes == <<next, prev, pMethod, pReceiver, name, allocated>>
walk == <<emitAt, called, cutShort>>
signals == <<nodes, leaked, doing, connected, walk, steady>>

Idle == [what |-> "nothing", which |-> NIL, node |-> NIL]

SignalsInit ==
    /\ next = [n \in Node \cup {Sender} |-> NIL]
    /\ prev = [n \in Node \cup {Sender} |-> NIL]
    /\ pMethod = [n \in Node \cup {Sender} |-> NIL]
    /\ pReceiver = pMethod /\ name = pMethod
    /\ allocated = {} /\ leaked = {}
    /\ doing = Idle /\ connected = {}
    /\ emitAt = NIL /\ called = {} /\ steady = {} /\ cutShort = FALSE

(* The nodes a walk from m meets, m itself left out. *)
From(m) == Met(next, NIL, next[m])
Linked == From(Sender)
Last == CHOOSE n \in Linked \cup {Sender} : next[n] = NIL
Holder(c) == {n \in Linked : pMethod[n] = c /\ pReceiver[n] = c /\ name[n] = c}

-----------------------------------------------------------------------------
(* direct_connect: the node is linked first, blank; then the method, the   *)
(* receiver and, last, the name are written. A duplicate is found after    *)
(* its node was allocated. (The very first node is allocated and linked    *)
(* before the comparison, with the same result.)                           *)
Refused(c) ==
    /\ Holder(c) # {}
    /\ \/ \E n \in Node \ allocated :
             /\ allocated' = allocated \cup {n}
             /\ leaked' = leaked \cup {n}
       \/ Node \subseteq allocated /\ UNCHANGED <<allocated, leaked>>
    /\ UNCHANGED <<next, prev, pMethod, pReceiver, name, doing, connected, walk, steady>>

NoMemory(c) ==
    /\ Holder(c) = {} /\ Node \subseteq allocated
    /\ UNCHANGED signals

Links(c) ==
    /\ Holder(c) = {}
    /\ \E n \in Node \ allocated :
         /\ allocated' = allocated \cup {n}
         /\ next' = [next EXCEPT ![Last] = n]
         /\ prev' = [prev EXCEPT ![n] = Last]
         /\ doing' = [what |-> "method", which |-> c, node |-> n]
    /\ UNCHANGED <<pMethod, pReceiver, name, leaked, connected, walk, steady>>

direct_connect(c) == doing = Idle /\ (Refused(c) \/ NoMemory(c) \/ Links(c))

(* mutant: the name is written first, as in a memcpy before the assignments *)
WritesMethod_NameFirst ==
    /\ doing.what = "method"
    /\ pMethod' = [pMethod EXCEPT ![doing.node] = doing.which]
    /\ name' = [name EXCEPT ![doing.node] = doing.which]
    /\ doing' = [doing EXCEPT !.what = "receiver"]
    /\ UNCHANGED <<next, prev, pReceiver, allocated, leaked, connected, walk, steady>>

WritesMethod ==
    /\ doing.what = "method"
    /\ pMethod' = [pMethod EXCEPT ![doing.node] = doing.which]
    /\ doing' = [doing EXCEPT !.what = "receiver"]
    /\ UNCHANGED <<next, prev, pReceiver, name, allocated, leaked, connected, walk, steady>>

WritesReceiver ==
    /\ doing.what = "receiver"
    /\ pReceiver' = [pReceiver EXCEPT ![doing.node] = doing.which]
    /\ doing' = [doing EXCEPT !.what = "name"]
    /\ UNCHANGED <<next, prev, pMethod, name, allocated, leaked, connected, walk, steady>>

WritesName ==
    /\ doing.what = "name"
    /\ name' = [name EXCEPT ![doing.node] = doing.which]
    /\ connected' = connected \cup {doing.which}
    /\ doing' = Idle
    /\ UNCHANGED <<next, prev, pMethod, pReceiver, allocated, leaked, walk, steady>>

-----------------------------------------------------------------------------
Unlinked_ClearedFirst(n) ==  \* mutant: the node is cleared before its neighbours are joined
    next' = [next EXCEPT ![prev[n]] = NIL] /\ prev' = prev

Unlinked_Swapped(n) ==  \* mutant: ptPrev where ptNext is meant
    next' = [next EXCEPT ![prev[n]] = prev[n]] /\ prev' = prev

Unlinked(n) ==
    /\ next' = [next EXCEPT ![prev[n]] = next[n]]
    /\ prev' = IF next[n] = NIL THEN prev ELSE [prev EXCEPT ![next[n]] = prev[n]]

(* auto_disconnect: the node is unlinked, then cleared and freed. *)
auto_disconnect(c) ==
    /\ doing = Idle
    /\ \/ /\ Holder(c) = {}
          /\ UNCHANGED signals
       \/ \E n \in Holder(c) :
             /\ Unlinked(n)
             /\ connected' = connected \ {c}
             /\ steady' = steady \ {c}
             /\ doing' = [what |-> "free", which |-> c, node |-> n]
             /\ UNCHANGED <<pMethod, pReceiver, name, allocated, leaked, walk>>

(* mutant: the node is cleared and not freed *)
Frees_Clears ==
    /\ doing.what = "free"
    /\ LET n == doing.node
       IN  /\ next' = [next EXCEPT ![n] = NIL] /\ prev' = [prev EXCEPT ![n] = NIL]
           /\ pMethod' = [pMethod EXCEPT ![n] = NIL]
           /\ pReceiver' = [pReceiver EXCEPT ![n] = NIL]
           /\ name' = [name EXCEPT ![n] = NIL]
           /\ cutShort' = (cutShort \/ emitAt = n)
    /\ doing' = Idle
    /\ UNCHANGED <<allocated, leaked, connected, emitAt, called, steady>>

Frees ==
    /\ doing.what = "free"
    /\ LET n == doing.node
       IN  /\ next' = [next EXCEPT ![n] = NIL] /\ prev' = [prev EXCEPT ![n] = NIL]
           /\ pMethod' = [pMethod EXCEPT ![n] = NIL]
           /\ pReceiver' = [pReceiver EXCEPT ![n] = NIL]
           /\ name' = [name EXCEPT ![n] = NIL]
           /\ allocated' = allocated \ {n}
           /\ cutShort' = (cutShort \/ emitAt = n)
    /\ doing' = Idle
    /\ UNCHANGED <<leaked, connected, emitAt, called, steady>>

-----------------------------------------------------------------------------
(* emit by the main loop: a node's slot is called when the node has a      *)
(* method and the name is that of the signal. A step takes it from one     *)
(* slot to the next.                                                       *)
Calls(n) == pMethod[n] # NIL /\ name[n] \in Emitted

NextCalled(m) ==
    LET met == {n \in From(m) : Calls(n)}
    IN  IF met = {} THEN NIL ELSE CHOOSE n \in met : met \subseteq {n} \cup From(n)

ArrivesAt(n) ==
    /\ emitAt' = n
    /\ called' = (IF emitAt = NIL THEN {} ELSE called) \cup (IF n = NIL THEN {} ELSE {pReceiver[n]})

emit ==
    /\ doing = Idle /\ emitAt = NIL
    /\ ArrivesAt(NextCalled(Sender))
    /\ steady' = connected \cap Emitted /\ cutShort' = FALSE
    /\ UNCHANGED <<nodes, leaked, doing, connected>>

(* The slot has returned: emit reads ptNext of the node it called. Of a    *)
(* node freed meanwhile that is undefined: cleared memory ends the walk,   *)
(* memory given out anew leads on to what it holds now.                    *)
SlotReturns ==
    /\ doing = Idle /\ emitAt # NIL
    /\ ArrivesAt(NextCalled(emitAt))
    /\ UNCHANGED <<nodes, leaked, doing, connected, steady, cutShort>>

Continues == WritesMethod \/ WritesReceiver \/ WritesName \/ Frees

SignalsTypeOK ==
    /\ next \in [Node \cup {Sender} -> Node \cup {NIL}]
    /\ prev \in [Node \cup {Sender} -> Node \cup {Sender, NIL}]
    /\ \A field \in {pMethod, pReceiver, name} : field \in [Node \cup {Sender} -> Connection \cup {NIL}]
    /\ allocated \subseteq Node /\ leaked \subseteq allocated
    /\ connected \subseteq Connection /\ steady \subseteq Connection /\ called \subseteq Connection \cup {NIL}
    /\ emitAt \in Node \cup {NIL} /\ cutShort \in BOOLEAN

(* At whatever point an interrupt handler's emit finds the list, what it   *)
(* would call has its own method and receiver, and every connection that   *)
(* is made and not being unmade is found, once.                            *)
InterruptFindsConnected ==
    /\ \A n \in Linked : n \in allocated \ leaked
    /\ \A n \in Linked : pMethod[n] # NIL /\ name[n] # NIL => name[n] \in connected /\ n \in Holder(name[n])
    /\ \A c \in connected : Cardinality(Holder(c)) = 1

(* No memory is lost but by connecting what is connected already.          *)
NothingElseLeaks ==
    allocated = Linked \cup leaked \cup (IF doing.what = "free" THEN {doing.node} ELSE {})

(* An emit calls every connection that lasts throughout it, whatever its   *)
(* slots connect and disconnect, unless a slot disconnects the connection  *)
(* it is called for, which frees the node the walk stands on.              *)
EmitMissesNone == emitAt = NIL /\ ~cutShort => steady \subseteq called
=============================================================================
