--------------------------- MODULE DispatchProofs ---------------------------
(***************************************************************************)
(* Proofs about Dispatch: the list of agents and the list of connections   *)
(* stay sound whatever the callbacks and the slots do to them.             *)
(***************************************************************************)
EXTENDS Dispatch, FiniteSetTheorems, TLAPS

-----------------------------------------------------------------------------
(* What a walk meets: none of it is left by following the links, and it is *)
(* the least such set.                                                     *)
LEMMA MetClosed ==
    ASSUME NEW D, NEW null, null \notin D, NEW f \in [D -> D \cup {null}], NEW first \in D \cup {null}
    PROVE  /\ Met(f, null, first) \subseteq D
           /\ first # null => first \in Met(f, null, first)
           /\ \A n \in Met(f, null, first) : f[n] # null => f[n] \in Met(f, null, first)
BY DEF Met, Closed

LEMMA MetLeast ==
    ASSUME NEW D, NEW null, NEW f \in [D -> D \cup {null}], NEW first \in D \cup {null},
           NEW S, first # null => first \in S,
           \A n \in Met(f, null, first) \cap S : f[n] # null => f[n] \in S,
           null \notin D
    PROVE  Met(f, null, first) \subseteq S
<1> DEFINE T == Met(f, null, first) \cap S
<1>1. T \in SUBSET D /\ Closed(f, null, T) /\ (first # null => first \in T)
  BY MetClosed DEF Closed
<1>2. \A n \in Met(f, null, first) : n \in T
  BY <1>1 DEF Met
<1> QED BY <1>2

(* From nothing nothing is met. *)
LEMMA MetNone ==
    ASSUME NEW D, NEW null, null \notin D, NEW f \in [D -> D \cup {null}]
    PROVE  Met(f, null, null) = {}
<1>1. {} \in SUBSET D /\ Closed(f, null, {})
  BY DEF Closed
<1> QED BY <1>1 DEF Met

(* What the next one meets, the one before it meets. *)
LEMMA MetAfter ==
    ASSUME NEW D, NEW null, null \notin D, NEW f \in [D -> D \cup {null}], NEW first \in D \cup {null},
           NEW n \in Met(f, null, first)
    PROVE  Met(f, null, f[n]) \subseteq Met(f, null, first)
<1>1. n \in D /\ f[n] \in D \cup {null}
  BY MetClosed
<1> QED BY <1>1, MetClosed, MetLeast

(* And all it meets but itself, the next one meets. *)
LEMMA MetRest ==
    ASSUME NEW D, NEW null, null \notin D, NEW f \in [D -> D \cup {null}], NEW first \in D
    PROVE  Met(f, null, first) \subseteq {first} \cup Met(f, null, f[first])
<1> DEFINE S == {first} \cup Met(f, null, f[first])
<1>1. f[first] \in D \cup {null}
  OBVIOUS
<1>2. \A n \in S : f[n] # null => f[n] \in S
  BY <1>1, MetClosed
<1>3. first # null => first \in S
  OBVIOUS
<1>4. first \in D \cup {null} /\ \A n \in Met(f, null, first) \cap S : f[n] # null => f[n] \in S
  BY <1>2
<1> HIDE DEF S
<1>5. Met(f, null, first) \subseteq S
  BY <1>3, <1>4, MetLeast
<1> QED BY <1>5 DEF S

(* Links that agree on all that is met lead to the same. *)
LEMMA MetSame ==
    ASSUME NEW D, NEW null, null \notin D, NEW f \in [D -> D \cup {null}], NEW g \in [D -> D \cup {null}],
           NEW first \in D \cup {null}, \A n \in Met(f, null, first) : g[n] = f[n]
    PROVE  Met(g, null, first) = Met(f, null, first)
<1> DEFINE F == Met(f, null, first)
           G == Met(g, null, first)
<1>1. /\ F \subseteq D /\ (first # null => first \in F) /\ (\A n \in F : f[n] # null => f[n] \in F)
      /\ G \subseteq D /\ (first # null => first \in G) /\ (\A n \in G : g[n] # null => g[n] \in G)
  BY MetClosed
<1>2. \A n \in F : g[n] = f[n]
  OBVIOUS
<1>3. G \subseteq F
  <2>1. \A n \in G \cap F : g[n] # null => g[n] \in F
    BY <1>1, <1>2
  <2> HIDE DEF F
  <2> QED BY <1>1, <2>1, MetLeast
<1>4. F \subseteq G
  <2>1. \A n \in F \cap G : f[n] # null => f[n] \in G
    BY <1>1, <1>2
  <2> HIDE DEF G
  <2> QED BY <1>1, <2>1, MetLeast
<1> QED BY <1>3, <1>4

(* Put in front of the first one, a new one is met before the others. *)
LEMMA MetPrepended ==
    ASSUME NEW D, NEW null, null \notin D, NEW f \in [D -> D \cup {null}], NEW first \in D \cup {null},
           NEW n \in D, n \notin Met(f, null, first),
           NEW g \in [D -> D \cup {null}], g[n] = first, \A m \in D : m # n => g[m] = f[m]
    PROVE  Met(g, null, n) = Met(f, null, first) \cup {n}
<1>1. g \in [D -> D \cup {null}] /\ g[n] = first /\ \A m \in D : m # n => g[m] = f[m]
  OBVIOUS
<1>2. Met(f, null, first) \subseteq D
  BY MetClosed
<1>3. Met(g, null, first) = Met(f, null, first)
  <2>1. \A m \in Met(f, null, first) : g[m] = f[m]
    BY <1>1, <1>2
  <2> QED BY <1>1, <2>1, MetSame
<1>4. Met(g, null, n) \subseteq {n} \cup Met(g, null, first)
  BY <1>1, MetRest
<1>5. n \in Met(g, null, n)
  BY <1>1, MetClosed
<1>6. Met(g, null, first) \subseteq Met(g, null, n)
  BY <1>1, <1>5, MetAfter
<1> QED BY <1>3, <1>4, <1>5, <1>6

(* Joined to a node that has no next one, a new one is met after it. *)
LEMMA MetJoined ==
    ASSUME NEW D, NEW null, null \notin D, NEW f \in [D -> D \cup {null}], NEW first \in D \cup {null},
           NEW p \in D, f[p] = null, NEW n \in D, f[n] = null,
           NEW g \in [D -> D \cup {null}], g[p] = n, \A m \in D : m # p => g[m] = f[m]
    PROVE  /\ Met(f, null, first) \subseteq Met(g, null, first)
           /\ p \in Met(f, null, first) => Met(g, null, first) = Met(f, null, first) \cup {n}
<1>1. g \in [D -> D \cup {null}] /\ g[p] = n /\ \A m \in D : m # p => g[m] = f[m]
  OBVIOUS
<1>2. Met(f, null, first) \subseteq Met(g, null, first)
  <2> DEFINE T == Met(g, null, first)
  <2>1. /\ T \subseteq D /\ (first # null => first \in T)
        /\ \A m \in T : g[m] # null => g[m] \in T
    BY <1>1, MetClosed
  <2> HIDE DEF T
  <2>2. \A m \in T : f[m] # null => f[m] \in T
    BY <1>1, <2>1
  <2>3. Met(f, null, first) \subseteq T
    BY <2>1, <2>2, MetLeast
  <2> QED BY <2>3 DEF T
<1>3. ASSUME p \in Met(f, null, first)
      PROVE  Met(g, null, first) = Met(f, null, first) \cup {n}
  <2> DEFINE S == Met(f, null, first) \cup {n}
  <2>1. Met(g, null, first) \subseteq S
    <3>1. first # null => first \in S
      BY MetClosed
    <3>2. \A m \in Met(g, null, first) \cap S : g[m] # null => g[m] \in S
      BY <1>1, MetClosed
    <3> HIDE DEF S
    <3> QED BY <1>1, <3>1, <3>2, MetLeast
  <2>2. n \in Met(g, null, first)
    BY <1>1, <1>2, <1>3, MetClosed
  <2> QED BY <1>2, <2>1, <2>2
<1> QED BY <1>2, <1>3

(* The first one left out: the others are met from the second on. *)
LEMMA MetTail ==
    ASSUME NEW D, NEW null, null \notin D, NEW f \in [D -> D \cup {null}], NEW first \in D,
           \A m \in Met(f, null, first) : f[m] # first
    PROVE  Met(f, null, f[first]) = Met(f, null, first) \ {first}
<1>1. f[first] \in D \cup {null} /\ first \in Met(f, null, first)
  BY MetClosed
<1>2. Met(f, null, f[first]) \subseteq Met(f, null, first)
  BY <1>1, MetAfter
<1>3. Met(f, null, f[first]) \subseteq D \ {first}
  <2> DEFINE S == D \ {first}
  <2>1. f[first] # null => f[first] \in S
    BY <1>1
  <2>2. \A n \in Met(f, null, f[first]) \cap S : f[n] # null => f[n] \in S
    BY <1>2
  <2> HIDE DEF S
  <2>3. Met(f, null, f[first]) \subseteq S
    BY <1>1, <2>1, <2>2, MetLeast
  <2> QED BY <2>3 DEF S
<1> QED BY <1>2, <1>3, MetRest

(* The link of p led past the next one: those before and behind it are met *)
(* still. If it was the first a walk met, the walk starts with the one     *)
(* behind it.                                                              *)
Skips(D, null, f, first, p, g, start) ==
    /\ null \notin D /\ f \in [D -> D \cup {null}] /\ first \in D \cup {null}
    /\ p \in D /\ f[p] \in Met(f, null, first) /\ f[p] # p
    /\ \A m \in Met(f, null, first) : f[m] = f[p] => m = p
    /\ g \in [D -> D \cup {null}] /\ g[p] = f[f[p]]
    /\ \A m \in D : m # p => g[m] = f[m]
    /\ first = f[p] => start = f[f[p]]
    /\ first # f[p] => start = first

LEMMA MetSkipped ==
    ASSUME NEW D, NEW null, NEW f, NEW first, NEW p, NEW g, NEW start, Skips(D, null, f, first, p, g, start)
    PROVE  Met(g, null, start) = Met(f, null, first) \ {f[p]}
<1> DEFINE n == f[p]
           old == Met(f, null, first)
           new == Met(g, null, start)
<1>0. /\ null \notin D /\ f \in [D -> D \cup {null}] /\ g \in [D -> D \cup {null}] /\ first \in D \cup {null}
      /\ p \in D /\ f[p] = n /\ p # n /\ n \in old /\ g[p] = f[n]
      /\ \A m \in old : f[m] = n => m = p
      /\ \A m \in D : m # p => g[m] = f[m]
      /\ first = n => start = f[n]
      /\ first # n => start = first
  BY DEF Skips
<1> HIDE DEF n
<1>1. n \in D /\ old \subseteq D /\ start \in D \cup {null}
  BY <1>0, MetClosed
<1>2. g \in [D -> D \cup {null}] /\ g[p] = f[n] /\ \A m \in D : m # p => g[m] = f[m]
  BY <1>0, <1>1
<1>3. f[n] # n
  BY <1>0
<1>4. new \subseteq old \ {n}
  <2>1. start # null => start \in old \ {n}
    BY <1>0, <1>3, MetClosed
  <2>2. \A m \in old \ {n} : g[m] # null => g[m] \in old \ {n}
    BY <1>0, <1>1, <1>2, <1>3, MetClosed
  <2> DEFINE S == old \ {n}
  <2>3. (start # null => start \in S) /\ \A m \in new \cap S : g[m] # null => g[m] \in S
    BY <1>0, <2>1, <2>2
  <2> HIDE DEF S
  <2>4. new \subseteq S
    BY <1>0, <1>1, <1>2, <2>3, MetLeast DEF new
  <2> QED BY <1>0, <2>4 DEF S
<1>5. CASE first = n \/ p \in new
  <2>1. new \subseteq D /\ (start # null => start \in new) /\ \A m \in new : g[m] # null => g[m] \in new
    <3> QED BY <1>0, <1>1, <1>2, MetClosed
  <2>2. f[n] # null => f[n] \in new \cup {n}
    BY <1>0, <1>2, <1>5, <2>1
  <2>3. \A m \in new \cup {n} : f[m] # null => f[m] \in new \cup {n}
    BY <1>0, <1>2, <2>1, <2>2
  <2>4. first # null => first \in new \cup {n}
    BY <1>0, <2>1
  <2>5. old \subseteq new \cup {n}
    <3> DEFINE S == new \cup {n}
    <3>1. (first # null => first \in S) /\ \A m \in old \cap S : f[m] # null => f[m] \in S
      BY <1>0, <2>3, <2>4
    <3> HIDE DEF S
    <3>2. old \subseteq S
      BY <1>0, <3>1, MetLeast
    <3> QED BY <1>0, <3>2 DEF S
  <2> QED BY <1>0, <1>4, <2>5
<1>6. CASE first # n /\ p \notin new
  <2>1. new \subseteq D /\ (first # null => first \in new) /\ \A m \in new : g[m] # null => g[m] \in new
    <3>1. start = first
      BY <1>0, <1>6
    <3> QED BY <1>0, <1>1, <1>2, <3>1, MetClosed
  <2>2. \A m \in old \cap (new \ {n}) : f[m] # null => f[m] \in new \ {n}
    <3>1. \A m \in old : f[m] = n => m = p
      BY <1>0
    <3> HIDE DEF old, new
    <3> QED BY <1>0, <1>1, <1>2, <1>6, <2>1, <3>1
  <2>3. old \subseteq new \ {n}
    <3> DEFINE S == new \ {n}
    <3>1. (first # null => first \in S) /\ \A m \in old \cap S : f[m] # null => f[m] \in S
      BY <1>0, <1>6, <2>1, <2>2
    <3> HIDE DEF S
    <3>2. old \subseteq S
      BY <1>0, <3>1, MetLeast
    <3> QED BY <1>0, <3>2 DEF S
  <2> QED BY <1>0, <2>3
<1> QED BY <1>5, <1>6 DEF n

-----------------------------------------------------------------------------
(* The inductive invariants. On the list of agents no two have the same    *)
(* ptNext, and none points back to the first one.                          *)
AgentsInv ==
    /\ AgentsTypeOK
    /\ ListSound
    /\ CursorOnList
    /\ CursorKept
    /\ \A b, c \in Listed : ptNext[b] = ptNext[c] /\ ptNext[b] # NULL => b = c
    /\ \A b \in Listed : ptNext[b] # ptCheckList

Freed == IF doing.what = "free" THEN {doing.node} ELSE {}

(* ptPrev is the inverse of ptNext as far as the list goes. *)
ChainSound ==
    /\ \E n \in Linked \cup {Sender} : next[n] = NIL
    /\ \A n \in Linked \cup {Sender} : next[n] # NIL => prev[next[n]] = n

(* A node on the list that has a name is that connection's, complete.      *)
NamesSound ==
    /\ \A n \in Linked : name[n] # NIL =>
         name[n] \in connected /\ pMethod[n] = name[n] /\ pReceiver[n] = name[n]
    /\ \A n, m \in Linked : name[n] # NIL /\ name[n] = name[m] => n = m
    /\ \A c \in connected : \E n \in Linked : name[n] = c

(* A node that is not on the list is blank, but for the one being freed.   *)
MemorySound ==
    /\ allocated = Linked \cup leaked \cup Freed
    /\ Linked \cap leaked = {} /\ Freed \cap (Linked \cup leaked) = {}
    /\ \A n \in Node \ (Linked \cup Freed) : next[n] = NIL /\ name[n] = NIL

(* What the connect or the disconnect in progress has done so far. *)
DoingSound ==
    \/ doing = Idle
    \/ /\ doing \in [what : {"free"}, which : Connection, node : Node]
    \/ /\ doing \in [what : {"method", "receiver", "name"}, which : Connection, node : Linked]
       /\ doing.which \notin connected
       /\ name[doing.node] = NIL
       /\ doing.what \in {"receiver", "name"} => pMethod[doing.node] = doing.which
       /\ doing.what = "name" => pReceiver[doing.node] = doing.which

(* The walk of the main loop's emit has every connection that lasts and    *)
(* was not called yet in front of it, until its own node is freed.         *)
WalkSound ==
    /\ steady \subseteq connected \cap Emitted
    /\ EmitMissesNone
    /\ ~cutShort /\ emitAt # NIL =>
         \/ emitAt \in Linked /\ \A c \in steady \ called : \E n \in From(emitAt) : name[n] = c
         \/ doing.what = "free" /\ doing.node = emitAt

SignalsInv == SignalsTypeOK /\ ChainSound /\ NamesSound /\ MemorySound /\ DoingSound /\ WalkSound
-----------------------------------------------------------------------------
(* The list of agents. *)
LEMMA ListedClosed ==
    ASSUME AgentsTypeOK
    PROVE  /\ Listed \subseteq Agent
           /\ ptCheckList # NULL => ptCheckList \in Listed
           /\ \A b \in Listed : ptNext[b] # NULL => ptNext[b] \in Listed
           /\ ptCheckList = NULL => Listed = {}
<1>1. ptNext \in [Agent -> Agent \cup {NULL}] /\ ptCheckList \in Agent \cup {NULL} /\ NULL \notin Agent
  BY AgentAssumption DEF AgentsTypeOK
<1>2. ptCheckList = NULL => Listed = {}
  BY <1>1, MetNone DEF Listed
<1> QED BY <1>1, <1>2, MetClosed DEF Listed

LEMMA AgentsInitially == AgentsInit => AgentsInv
<1> SUFFICES ASSUME AgentsInit PROVE AgentsInv
  OBVIOUS
<1>1. AgentsTypeOK
  BY AgentAssumption DEF AgentsInit, AgentsTypeOK
<1>2. Listed = {}
  BY <1>1, ListedClosed DEF AgentsInit
<1> QED BY <1>1, <1>2 DEF AgentsInit, AgentsInv, ListSound, CursorOnList, CursorKept

LEMMA AgentsStutter == AgentsInv /\ UNCHANGED agents => AgentsInv'
BY DEF AgentsInv, agents, AgentsTypeOK, ListSound, CursorOnList, CursorKept, Listed

(* The engine moves the cursor along the list and leaves the list alone.   *)
LEMMA EngineKeeps == AgentsInv /\ Engine => AgentsInv'
<1> SUFFICES ASSUME AgentsInv, Engine PROVE AgentsInv'
  OBVIOUS
<1>1. UNCHANGED list
  BY DEF Engine, ScanEnds, CallsAgent, AgentOnGoing, AgentOnGoingNowhere, AgentEnds
<1>2. Listed' = Listed
  BY <1>1 DEF list, Listed
<1>3. AgentsTypeOK
  BY DEF AgentsInv
<1>4. ListSound' /\ (\A b, c \in Listed : ptNext[b] = ptNext[c] /\ ptNext[b] # NULL => b = c)'
                 /\ (\A b \in Listed : ptNext[b] # ptCheckList)'
  BY <1>1, <1>2 DEF list, AgentsInv, ListSound
<1>5. ptFreeList' \in Listed \cup {NULL} /\ (calling' # NULL => ptFreeList' # NULL)
      /\ chState' \in {"START", "IS_END_OF_AGENT", "CHECK_AGENT", "LOST"}
      /\ calling' \in Agent \cup {NULL} /\ mistaken' \in BOOLEAN
  <2>1. CASE ScanEnds
    BY <2>1, <1>3 DEF ScanEnds, AgentsTypeOK
  <2>2. CASE CallsAgent
    BY <2>2, <1>3, ListedClosed DEF CallsAgent, AgentsTypeOK, AgentsInv, CursorOnList
  <2>3. CASE AgentOnGoing
    BY <2>3, <1>3, ListedClosed DEF AgentOnGoing, AgentsTypeOK, AgentsInv, CursorOnList
  <2>4. CASE AgentOnGoingNowhere
    BY <2>4, <1>3 DEF AgentOnGoingNowhere, AgentsTypeOK, AgentsInv, CursorOnList
  <2>5. CASE AgentEnds
    BY <2>5, <1>3 DEF AgentEnds, AgentsTypeOK, AgentsInv, CursorOnList
  <2> QED BY <2>1, <2>2, <2>3, <2>4, <2>5 DEF Engine
<1>6. AgentsTypeOK' /\ CursorOnList' /\ CursorKept'
  BY <1>1, <1>2, <1>3, <1>5, ListedClosed DEF list, AgentsTypeOK, CursorOnList, CursorKept
<1> QED BY <1>4, <1>6 DEF AgentsInv

LEMMA RegisterKeeps == \A a \in Agent : AgentsInv /\ agent_register(a) => AgentsInv'
<1> SUFFICES ASSUME NEW a \in Agent, AgentsInv, agent_register(a) PROVE AgentsInv'
  OBVIOUS
<1>1. CASE UNCHANGED agents
  BY <1>1, AgentsStutter
<1>2. CASE a \notin Listed /\ Prepended(a)
  <2>1. /\ ptNext \in [Agent -> Agent \cup {NULL}] /\ ptCheckList \in Agent \cup {NULL} /\ NULL \notin Agent
        /\ AgentsTypeOK
    BY AgentAssumption DEF AgentsInv, AgentsTypeOK
  <2>2. Listed' = Listed \cup {a}
    <3>1. a \notin Met(ptNext, NULL, ptCheckList)
      BY <1>2 DEF Listed
    <3>2. /\ ptCheckList' = a /\ ptNext' \in [Agent -> Agent \cup {NULL}] /\ ptNext'[a] = ptCheckList
          /\ \A b \in Agent : b # a => ptNext'[b] = ptNext[b]
      BY <1>2, <2>1 DEF Prepended
    <3>3. Met(ptNext', NULL, a) = Met(ptNext, NULL, ptCheckList) \cup {a}
      BY <2>1, <3>1, <3>2, MetPrepended
    <3> QED BY <3>2, <3>3 DEF Listed
  <2>3. /\ ptNext' \in [Agent -> Agent \cup {NULL}] /\ ptNext'[a] = ptCheckList
        /\ \A b \in Listed : b # a /\ b \in Agent /\ ptNext'[b] = ptNext[b]
    BY <1>2, <2>1, ListedClosed DEF Prepended
  <2>4. AgentsTypeOK'
    BY <1>2, <2>1, <2>3 DEF Prepended, AgentsTypeOK
  <2>5. ListSound'
    <3>1. Listed' = registered'
      BY <1>2, <2>2 DEF Prepended, AgentsInv, ListSound
    <3>2. \E b \in Listed' : ptNext'[b] = NULL
      BY <2>1, <2>2, <2>3, ListedClosed DEF AgentsInv, ListSound
    <3> QED BY <3>1, <3>2 DEF ListSound
  <2>6. CursorOnList' /\ CursorKept'
    BY <1>2, <2>1, <2>2 DEF Prepended, CursorOnList, CursorKept
  <2>7. \A b, c \in Listed' : ptNext'[b] = ptNext'[c] /\ ptNext'[b] # NULL => b = c
    BY <2>2, <2>3 DEF AgentsInv
  <2>8. \A b \in Listed' : ptNext'[b] # ptCheckList'
    BY <1>2, <2>1, <2>2, <2>3, ListedClosed DEF Prepended
  <2> QED BY <2>4, <2>5, <2>6, <2>7, <2>8 DEF AgentsInv
<1> QED BY <1>1, <1>2 DEF agent_register

LEMMA UnregisterKeeps == \A a \in Agent : AgentsInv /\ agent_unregister(a) => AgentsInv'
<1> SUFFICES ASSUME NEW a \in Agent, AgentsInv, agent_unregister(a) PROVE AgentsInv'
  OBVIOUS
<1>1. /\ ptNext \in [Agent -> Agent \cup {NULL}] /\ ptCheckList \in Agent \cup {NULL} /\ NULL \notin Agent
      /\ AgentsTypeOK
  BY AgentAssumption DEF AgentsInv, AgentsTypeOK
<1>2. /\ Listed \subseteq Agent
      /\ \A b \in Listed : ptNext[b] # NULL => ptNext[b] \in Listed
      /\ \A b, c \in Listed : ptNext[b] = ptNext[c] /\ ptNext[b] # NULL => b = c
      /\ \A b \in Listed : ptNext[b] # ptCheckList
      /\ Listed = registered
      /\ Listed # {} => \E b \in Listed : ptNext[b] = NULL
  BY <1>1, ListedClosed DEF AgentsInv, ListSound
<1>3. ASSUME ptCheckList = a, ptCheckList' = ptNext[a], ptFreeList' = ptNext[a], registered' = registered \ {a},
             UNCHANGED <<ptNext, chState, calling, mistaken>>
      PROVE  AgentsInv'
  <2>1. \A b \in Met(ptNext, NULL, a) : ptNext[b] # a
    BY <1>2, <1>3 DEF Listed
  <2>2. Met(ptNext, NULL, ptNext[a]) = Met(ptNext, NULL, a) \ {a}
    BY <1>1, <2>1, MetTail
  <2>3. Listed' = Listed \ {a} /\ a \in Listed
    BY <1>1, <1>3, <2>2, ListedClosed DEF Listed
  <2>4. AgentsTypeOK'
    BY <1>1, <1>2, <1>3 DEF AgentsTypeOK
  <2>5. ptNext[a] # NULL => ptNext[a] \in Listed'
    BY <1>2, <1>3, <2>3
  <2>6. ptNext[a] = NULL => Listed' = {}
    BY <1>1, <1>3, <2>4, ListedClosed, MetNone DEF Listed
  <2>7. ListSound'
    BY <1>2, <1>3, <2>1, <2>3, <2>5, <2>6 DEF ListSound
  <2>8. CursorOnList' /\ CursorKept'
    BY <1>3, <2>5, <2>6, <2>7 DEF CursorOnList, CursorKept, ListSound
  <2>9. /\ \A b, c \in Listed' : ptNext'[b] = ptNext'[c] /\ ptNext'[b] # NULL => b = c
        /\ \A b \in Listed' : ptNext'[b] # ptCheckList'
    BY <1>1, <1>2, <1>3, <2>3, <2>5, <2>6
  <2> QED BY <2>4, <2>7, <2>8, <2>9 DEF AgentsInv
<1>4. ASSUME NEW b \in Listed, ptCheckList # a, ptNext[b] = a,
             ptNext' = [ptNext EXCEPT ![b] = ptNext[a]], ptFreeList' = b, registered' = registered \ {a},
             UNCHANGED <<ptCheckList, chState, calling, mistaken>>
      PROVE  AgentsInv'
  <2>1. a \in Listed /\ \A c \in Listed : ptNext[c] = a => c = b
    BY <1>1, <1>2, <1>4
  <2>2. b # a
    <3> SUFFICES ASSUME b = a PROVE FALSE
      OBVIOUS
    <3> DEFINE S == Listed \ {a}
    <3>1. /\ ptCheckList # NULL => ptCheckList \in S
          /\ \A c \in Listed \cap S : ptNext[c] # NULL => ptNext[c] \in S
      BY <1>1, <1>2, <1>4, <2>1, ListedClosed
    <3> HIDE DEF S
    <3>2. Listed \subseteq S
      BY <1>1, <3>1, MetLeast DEF Listed
    <3> QED BY <2>1, <3>2 DEF S
  <2>3. Listed' = Listed \ {a}
    <3>1. \A c \in Met(ptNext, NULL, ptCheckList) : ptNext[c] = a => c = b
      BY <2>1 DEF Listed
    <3>2. a \in Met(ptNext, NULL, ptCheckList) /\ b \in Agent /\ ptNext[b] = a /\ ptCheckList # a
      BY <1>2, <1>4, <2>1 DEF Listed
    <3>3. /\ ptNext' \in [Agent -> Agent \cup {NULL}] /\ ptNext'[b] = ptNext[a]
          /\ \A c \in Agent : c # b => ptNext'[c] = ptNext[c]
      BY <1>1, <1>4, <3>2
    <3>4. Met(ptNext', NULL, ptCheckList) = Met(ptNext, NULL, ptCheckList) \ {a}
      <4>1. Skips(Agent, NULL, ptNext, ptCheckList, b, ptNext', ptCheckList)
        BY <1>1, <2>2, <3>1, <3>2, <3>3 DEF Skips
      <4> QED BY <3>2, <4>1, MetSkipped
    <3> QED BY <1>4, <3>4 DEF Listed
  <2>4. /\ ptNext' \in [Agent -> Agent \cup {NULL}] /\ ptNext'[b] = ptNext[a] /\ b \in Listed'
        /\ \A c \in Listed' : c # b => ptNext'[c] = ptNext[c]
    BY <1>1, <1>2, <1>4, <2>2, <2>3
  <2>5. AgentsTypeOK'
    BY <1>1, <1>2, <1>4, <2>4 DEF AgentsTypeOK
  <2>6. ListSound'
    <3>1. Listed' = registered'
      BY <1>2, <1>4, <2>3
    <3>2. PICK e \in Listed : ptNext[e] = NULL
      BY <1>2, <2>1
    <3>3. \E c \in Listed' : ptNext'[c] = NULL
      <4>1. CASE e = a
        BY <2>4, <3>2, <4>1
      <4>2. CASE e # a
        BY <1>1, <1>4, <2>3, <2>4, <3>2, <4>2
      <4> QED BY <4>1, <4>2
    <3> QED BY <3>1, <3>3 DEF ListSound
  <2>7. CursorOnList' /\ CursorKept'
    BY <1>1, <1>2, <1>4, <2>4 DEF CursorOnList, CursorKept
  <2>8. \A c, d \in Listed' : ptNext'[c] = ptNext'[d] /\ ptNext'[c] # NULL => c = d
    BY <1>2, <2>1, <2>3, <2>4
  <2>9. \A c \in Listed' : ptNext'[c] # ptCheckList'
    BY <1>2, <1>4, <2>1, <2>3, <2>4
  <2> QED BY <2>5, <2>6, <2>7, <2>8, <2>9 DEF AgentsInv
<1>5. ASSUME a \notin Listed, ptFreeList' = NULL, mistaken' = TRUE, UNCHANGED <<list, chState, calling>>
      PROVE  AgentsInv'
  <2>1. Listed' = Listed /\ UNCHANGED <<ptNext, ptCheckList, registered>>
    BY <1>5 DEF list, Listed
  <2> QED BY <1>1, <1>2, <1>5, <2>1 DEF AgentsInv, AgentsTypeOK, ListSound, CursorOnList, CursorKept
<1> QED BY <1>3, <1>4, <1>5 DEF agent_unregister
-----------------------------------------------------------------------------
(* The list of connections. *)
LEMMA NodeFacts ==
    ASSUME SignalsTypeOK
    PROVE  /\ NIL \notin Node \cup {Sender} /\ Sender \notin Node /\ NIL \notin Connection
           /\ next \in [Node \cup {Sender} -> (Node \cup {Sender}) \cup {NIL}]
           /\ next \in [Node \cup {Sender} -> Node \cup {NIL}]
           /\ prev \in [Node \cup {Sender} -> Node \cup {Sender, NIL}]
<1>1. next \in [Node \cup {Sender} -> Node \cup {NIL}] /\ prev \in [Node \cup {Sender} -> Node \cup {Sender, NIL}]
  BY DEF SignalsTypeOK
<1> QED BY <1>1, NodeAssumption

LEMMA FromFacts ==
    ASSUME SignalsTypeOK, NEW m \in Node \cup {Sender}
    PROVE  /\ From(m) \subseteq Node
           /\ next[m] # NIL => next[m] \in From(m)
           /\ \A n \in From(m) : next[n] # NIL => next[n] \in From(m)
<1> DEFINE D == Node \cup {Sender}
<1>1. NIL \notin D /\ next \in [D -> D \cup {NIL}] /\ next[m] \in D \cup {NIL} /\ next[m] \in Node \cup {NIL}
      /\ \A n \in D : next[n] \in Node \cup {NIL}
  BY NodeFacts
<1> HIDE DEF D
<1>2. /\ Met(next, NIL, next[m]) \subseteq D
      /\ next[m] # NIL => next[m] \in Met(next, NIL, next[m])
      /\ \A n \in Met(next, NIL, next[m]) : next[n] # NIL => next[n] \in Met(next, NIL, next[m])
  BY <1>1, MetClosed
<1>3. Met(next, NIL, next[m]) \subseteq Node
  <2>1. (next[m] # NIL => next[m] \in Node)
        /\ \A n \in Met(next, NIL, next[m]) \cap Node : next[n] # NIL => next[n] \in Node
    BY <1>1, <1>2
  <2> QED BY <1>1, <2>1, MetLeast
<1> QED BY <1>2, <1>3 DEF From

LEMMA LinkedFacts ==
    ASSUME SignalsTypeOK
    PROVE  /\ Linked \subseteq Node /\ Sender \notin Linked /\ NIL \notin Linked
           /\ \A n \in Linked \cup {Sender} : next[n] # NIL => next[n] \in Linked
           /\ \A n \in Linked \cup {Sender} : From(n) \subseteq Linked
<1>1. Linked \subseteq Node /\ \A n \in Linked \cup {Sender} : next[n] # NIL => next[n] \in Linked
  BY FromFacts DEF Linked
<1>2. ASSUME NEW n \in Linked
      PROVE  From(n) \subseteq Linked
  <2> DEFINE D == Node \cup {Sender}
  <2>1. NIL \notin D /\ next \in [D -> D \cup {NIL}] /\ next[Sender] \in D \cup {NIL}
    BY NodeFacts
  <2> HIDE DEF D
  <2>2. n \in Met(next, NIL, next[Sender])
    BY <1>2 DEF Linked, From
  <2>3. Met(next, NIL, next[n]) \subseteq Met(next, NIL, next[Sender])
    BY <2>1, <2>2, MetAfter
  <2> QED BY <2>3 DEF Linked, From
<1> QED BY <1>1, <1>2, NodeFacts DEF Linked

(* What a walk goes through before it gets to n, it meets. *)
LEMMA PrevFacts ==
    ASSUME SignalsTypeOK, ChainSound, NEW n \in Linked
    PROVE  /\ prev[n] \in Linked \cup {Sender} /\ next[prev[n]] = n /\ prev[n] # n /\ next[n] # n
           /\ \A k \in Linked \cup {Sender} : next[k] = n => k = prev[n]
<1> DEFINE D == Node \cup {Sender}
<1>1. NIL \notin D /\ next \in [D -> D \cup {NIL}] /\ next[Sender] \in D \cup {NIL} /\ n # NIL
  BY NodeFacts, LinkedFacts
<1>2. \A k \in Linked \cup {Sender} : next[k] = n => k = prev[n]
  BY <1>1 DEF ChainSound
<1>3. \E k \in Linked \cup {Sender} : next[k] = n /\ k # n
  <2> SUFFICES ASSUME \A k \in Linked \cup {Sender} : next[k] = n => k = n PROVE FALSE
    OBVIOUS
  <2> DEFINE S == Linked \ {n}
  <2>1. next[Sender] # NIL => next[Sender] \in S
    BY LinkedFacts
  <2>2. \A k \in Linked \cap S : next[k] # NIL => next[k] \in S
    BY LinkedFacts
  <2> HIDE DEF S, D
  <2>3. Linked \subseteq S
    BY <1>1, <2>1, <2>2, MetLeast DEF Linked, From
  <2> QED BY <2>3 DEF S
<1>4. prev[n] \in Linked \cup {Sender} /\ next[prev[n]] = n /\ prev[n] # n
  BY <1>2, <1>3
<1>5. next[n] # n
  BY <1>2, <1>4
<1> QED BY <1>2, <1>4, <1>5

LEMMA NodesUnchanged ==
    ASSUME next' = next
    PROVE  Linked' = Linked /\ \A m : From(m)' = From(m)
BY DEF Linked, From

(* Taking n off the list takes it out of every walk, and nothing else.     *)
LEMMA UnlinkedFacts ==
    ASSUME SignalsTypeOK, ChainSound, NEW n \in Linked, Unlinked(n)
    PROVE  /\ next' \in [Node \cup {Sender} -> Node \cup {NIL}]
           /\ prev' \in [Node \cup {Sender} -> Node \cup {Sender, NIL}]
           /\ \A k \in Node \ Linked : next'[k] = next[k]
           /\ \A m \in (Linked \cup {Sender}) \ {n} : From(m)' = From(m) \ {n}
           /\ Linked' = Linked \ {n}
           /\ ChainSound'
<1> DEFINE D == Node \cup {Sender}
           p == prev[n]
<1>1. /\ p \in Linked \cup {Sender} /\ next[p] = n /\ p # n /\ next[n] # n
      /\ \A k \in Linked \cup {Sender} : next[k] = n => k = p
  BY PrevFacts
<1>2. /\ NIL \notin D /\ Sender \notin Node /\ next \in [D -> D \cup {NIL}] /\ next \in [D -> Node \cup {NIL}]
      /\ prev \in [D -> Node \cup {Sender, NIL}] /\ Linked \subseteq Node
  BY NodeFacts, LinkedFacts
<1>3. p \in D /\ n \in D /\ n # NIL
  BY <1>1, <1>2
<1>4. next' \in [D -> Node \cup {NIL}] /\ next'[p] = next[n] /\ \A k \in D : k # p => next'[k] = next[k]
  BY <1>2, <1>3 DEF Unlinked
<1>5. prev' \in [D -> Node \cup {Sender, NIL}] /\ (next[n] # NIL => prev'[next[n]] = p)
      /\ \A k \in D : k # next[n] => prev'[k] = prev[k]
  BY <1>2, <1>3 DEF Unlinked
<1>6. ASSUME NEW m \in (Linked \cup {Sender}) \ {n}
      PROVE  From(m)' = From(m) \ {n}
  <2>1. m \in D /\ From(m) \subseteq Linked /\ From(m) \subseteq D
    BY <1>2, LinkedFacts
  <2>2. next' \in [D -> D \cup {NIL}]
    BY <1>4
  <2>3. CASE n \in From(m)
    <3>1. /\ next[p] \in Met(next, NIL, next[m]) /\ (next[m] = next[p] => m = p)
          /\ next[m] \in D \cup {NIL} /\ (next[m] # next[p] => m # p)
          /\ \A k \in Met(next, NIL, next[m]) : next[k] = next[p] => k = p
      BY <1>1, <1>2, <1>6, <2>1, <2>3 DEF From
    <3>2. next[p] # p /\ next'[p] = next[next[p]]
      BY <1>1, <1>4
    <3> HIDE DEF D, p
    <3>3. Skips(D, NIL, next, next[m], p, next', next'[m])
      BY <1>2, <1>3, <1>4, <2>1, <2>2, <3>1, <3>2 DEF Skips
    <3>4. Met(next', NIL, next'[m]) = Met(next, NIL, next[m]) \ {next[p]}
      BY <3>3, MetSkipped
    <3> QED BY <1>1, <3>4 DEF From
  <2>4. CASE n \notin From(m)
    <3>1. m # p /\ p \notin From(m)
      BY <1>1, <1>3, <2>1, <2>4, FromFacts
    <3>2. next'[m] = next[m] /\ next[m] \in D \cup {NIL} /\ \A k \in Met(next, NIL, next[m]) : next'[k] = next[k]
      BY <1>2, <1>4, <2>1, <3>1 DEF From
    <3> HIDE DEF D, p
    <3>3. Met(next', NIL, next[m]) = Met(next, NIL, next[m])
      BY <1>2, <2>2, <3>2, MetSame
    <3> QED BY <2>4, <3>2, <3>3 DEF From
  <2> QED BY <2>3, <2>4
<1>7. Linked' = Linked \ {n}
  BY <1>2, <1>6 DEF Linked
<1>8. \E e \in Linked' \cup {Sender} : next'[e] = NIL
  <2>1. PICK e \in Linked \cup {Sender} : next[e] = NIL
    BY DEF ChainSound
  <2>2. CASE e = n
    BY <1>1, <1>4, <1>7, <2>1, <2>2
  <2>3. CASE e # n
    BY <1>1, <1>2, <1>3, <1>4, <1>7, <2>1, <2>3
  <2> QED BY <2>2, <2>3
<1>9. ASSUME NEW k \in Linked' \cup {Sender}, next'[k] # NIL
      PROVE  prev'[next'[k]] = k
  <2>1. k \in Linked \cup {Sender} /\ k # n /\ k \in D
    BY <1>2, <1>3, <1>7
  <2>2. CASE k = p
    BY <1>4, <1>5, <1>9, <2>2
  <2>3. CASE k # p
    <3>1. next'[k] = next[k] /\ prev[next[k]] = k /\ next[k] \in D
      BY <1>2, <1>4, <1>9, <2>1, <2>3 DEF ChainSound
    <3>2. next[k] # next[n]
      BY <1>9, <2>1, <3>1 DEF ChainSound
    <3> QED BY <1>5, <3>1, <3>2
  <2> QED BY <2>2, <2>3
<1>10. \A k \in Node \ Linked : next'[k] = next[k]
  BY <1>1, <1>2, <1>4
<1> QED BY <1>4, <1>5, <1>6, <1>7, <1>8, <1>9, <1>10 DEF ChainSound
(* A node joined to the last one is on the list, and in every walk that    *)
(* goes as far.                                                            *)
Joined(n) == next' = [next EXCEPT ![Last] = n] /\ prev' = [prev EXCEPT ![n] = Last]

LEMMA JoinedFacts ==
    ASSUME SignalsTypeOK, ChainSound, NEW n \in Node \ Linked, next[n] = NIL, Joined(n)
    PROVE  /\ next' \in [Node \cup {Sender} -> Node \cup {NIL}]
           /\ prev' \in [Node \cup {Sender} -> Node \cup {Sender, NIL}]
           /\ \A k \in Node \ Linked : next'[k] = next[k]
           /\ \A m \in Linked : From(m) \subseteq From(m)'
           /\ Linked' = Linked \cup {n}
           /\ ChainSound'
<1> DEFINE D == Node \cup {Sender}
           p == Last
<1>1. p \in Linked \cup {Sender} /\ next[p] = NIL
  BY DEF Last, ChainSound
<1>2. /\ NIL \notin D /\ Sender \notin Node /\ next \in [D -> D \cup {NIL}] /\ next \in [D -> Node \cup {NIL}]
      /\ prev \in [D -> Node \cup {Sender, NIL}] /\ Linked \subseteq Node
  BY NodeFacts, LinkedFacts
<1>3. p \in D /\ n \in D /\ n # NIL /\ n # p
  BY <1>1, <1>2
<1>4. next' \in [D -> Node \cup {NIL}] /\ next'[p] = n /\ \A k \in D : k # p => next'[k] = next[k]
  <2> HIDE DEF p
  <2>1. next' = [next EXCEPT ![p] = n]
    BY DEF p, Joined
  <2> QED BY <1>2, <1>3, <2>1
<1>5. prev' \in [D -> Node \cup {Sender, NIL}] /\ prev'[n] = p /\ \A k \in D : k # n => prev'[k] = prev[k]
  <2> HIDE DEF p
  <2>1. prev' = [prev EXCEPT ![n] = p]
    BY DEF p, Joined
  <2> QED BY <1>1, <1>2, <1>3, <2>1
<1>6. next' \in [D -> D \cup {NIL}]
  BY <1>4
<1> HIDE DEF D, p
<1>7. ASSUME NEW m \in Linked
      PROVE  From(m) \subseteq From(m)'
  <2>1. m \in D
    BY <1>2, <1>7 DEF D
  <2>2. CASE m = p
    <3>1. Met(next, NIL, NIL) = {}
      BY <1>2, MetNone
    <3> QED BY <1>1, <2>2, <3>1 DEF From
  <2>3. CASE m # p
    <3>1. next'[m] = next[m] /\ next[m] \in D \cup {NIL}
      BY <1>2, <1>4, <2>1, <2>3
    <3>2. Met(next, NIL, next[m]) \subseteq Met(next', NIL, next[m])
      BY <1>1, <1>2, <1>3, <1>4, <1>6, <3>1, MetJoined
    <3> QED BY <3>1, <3>2 DEF From
  <2> QED BY <2>2, <2>3
<1>8. Linked' = Linked \cup {n}
  <2>1. Sender \in D /\ next[n] = NIL
    BY DEF D
  <2>2. CASE p = Sender
    <3>1. Met(next, NIL, NIL) = {}
      BY <1>2, MetNone
    <3>2. Met(next', NIL, n) \subseteq {n} \cup Met(next', NIL, next'[n])
      BY <1>2, <1>3, <1>6, MetRest
    <3>3. next'[n] = NIL /\ Met(next', NIL, NIL) = {}
      BY <1>2, <1>3, <1>4, <1>6, <2>1, MetNone
    <3>4. n \in Met(next', NIL, n)
      BY <1>2, <1>3, <1>6, MetClosed
    <3>5. Met(next', NIL, n) = {n}
      BY <3>2, <3>3, <3>4
    <3> QED BY <1>1, <1>4, <2>2, <3>1, <3>5 DEF Linked, From
  <2>3. CASE p # Sender
    <3>1. next'[Sender] = next[Sender] /\ next[Sender] \in D \cup {NIL}
      BY <1>2, <1>4, <2>1, <2>3
    <3>2. p \in Met(next, NIL, next[Sender])
      BY <1>1, <2>3 DEF Linked, From
    <3>3. /\ NIL \notin D /\ next \in [D -> D \cup {NIL}] /\ p \in D /\ n \in D
          /\ next[p] = NIL /\ next[n] = NIL
          /\ next' \in [D -> D \cup {NIL}] /\ next'[p] = n /\ \A m \in D : m # p => next'[m] = next[m]
      BY <1>1, <1>2, <1>3, <1>4, <1>6, <2>1
    <3>4. Met(next', NIL, next[Sender]) = Met(next, NIL, next[Sender]) \cup {n}
      BY <3>1, <3>2, <3>3, MetJoined
    <3> QED BY <3>1, <3>4 DEF Linked, From
  <2> QED BY <2>2, <2>3
<1>9. n \in Linked' /\ next'[n] = NIL
  BY <1>3, <1>4, <1>8
<1>10. ASSUME NEW k \in Linked' \cup {Sender}, next'[k] # NIL
       PROVE  prev'[next'[k]] = k
  <2>1. k # n /\ k \in Linked \cup {Sender} /\ k \in D
    BY <1>2, <1>8, <1>9, <1>10 DEF D
  <2>2. CASE k = p
    BY <1>4, <1>5, <2>2
  <2>3. CASE k # p
    <3>1. next'[k] = next[k] /\ next[k] \in Linked /\ prev[next[k]] = k
      BY <1>4, <1>10, <2>1, <2>3, LinkedFacts DEF ChainSound
    <3> QED BY <1>2, <1>5, <3>1 DEF D
  <2> QED BY <2>2, <2>3
<1>11. \A k \in Node \ Linked : next'[k] = next[k]
  BY <1>1, <1>2, <1>4 DEF D
<1> QED BY <1>4, <1>5, <1>7, <1>8, <1>9, <1>10, <1>11 DEF ChainSound, D

(* What is done to a node that is not on the list, no walk along the list  *)
(* notices.                                                                *)
Cleared(n) == next' = [next EXCEPT ![n] = NIL] /\ prev' = [prev EXCEPT ![n] = NIL]

LEMMA ClearedFacts ==
    ASSUME SignalsTypeOK, ChainSound, NEW n \in Node \ Linked, Cleared(n)
    PROVE  /\ next' \in [Node \cup {Sender} -> Node \cup {NIL}]
           /\ prev' \in [Node \cup {Sender} -> Node \cup {Sender, NIL}]
           /\ \A k \in (Node \cup {Sender}) \ {n} : next'[k] = next[k]
           /\ next'[n] = NIL
           /\ \A m \in Linked \cup {Sender} : From(m)' = From(m)
           /\ Linked' = Linked
           /\ ChainSound'
<1> DEFINE D == Node \cup {Sender}
<1>1. /\ NIL \notin D /\ Sender \notin Node /\ next \in [D -> D \cup {NIL}] /\ next \in [D -> Node \cup {NIL}]
      /\ prev \in [D -> Node \cup {Sender, NIL}] /\ Linked \subseteq Node /\ n \in D /\ n # Sender
  BY NodeFacts, LinkedFacts
<1>2. /\ next' \in [D -> Node \cup {NIL}] /\ next'[n] = NIL /\ next' \in [D -> D \cup {NIL}]
      /\ prev' \in [D -> Node \cup {Sender, NIL}]
      /\ \A k \in D : k # n => next'[k] = next[k] /\ prev'[k] = prev[k]
  BY <1>1 DEF Cleared
<1>3. ASSUME NEW m \in Linked \cup {Sender}
      PROVE  From(m)' = From(m)
  <2>1. m \in D /\ m # n /\ n \notin From(m) /\ From(m) \subseteq D
    BY <1>1, LinkedFacts
  <2>2. next'[m] = next[m] /\ next[m] \in D \cup {NIL} /\ \A k \in Met(next, NIL, next[m]) : next'[k] = next[k]
    BY <1>1, <1>2, <2>1 DEF From
  <2> HIDE DEF D
  <2>3. Met(next', NIL, next[m]) = Met(next, NIL, next[m])
    BY <1>1, <1>2, <2>2, MetSame
  <2> QED BY <2>2, <2>3 DEF From
<1>4. Linked' = Linked
  BY <1>3 DEF Linked
<1>5. ChainSound'
  <2>1. \A k \in Linked \cup {Sender} : k \in D /\ k # n /\ (next[k] # NIL => next[k] \in Linked)
    BY <1>1, LinkedFacts
  <2> QED BY <1>1, <1>2, <1>4, <2>1 DEF ChainSound
<1> QED BY <1>2, <1>3, <1>4, <1>5
-----------------------------------------------------------------------------
(* Connecting, disconnecting and emitting. *)
LEMMA FieldTypes ==
    SignalsTypeOK <=>
      /\ next \in [Node \cup {Sender} -> Node \cup {NIL}]
      /\ prev \in [Node \cup {Sender} -> Node \cup {Sender, NIL}]
      /\ pMethod \in [Node \cup {Sender} -> Connection \cup {NIL}]
      /\ pReceiver \in [Node \cup {Sender} -> Connection \cup {NIL}]
      /\ name \in [Node \cup {Sender} -> Connection \cup {NIL}]
      /\ allocated \subseteq Node /\ leaked \subseteq allocated
      /\ connected \subseteq Connection /\ steady \subseteq Connection /\ called \subseteq Connection \cup {NIL}
      /\ emitAt \in Node \cup {NIL} /\ cutShort \in BOOLEAN
BY DEF SignalsTypeOK

LEMMA IdleFacts ==
    ASSUME doing = Idle
    PROVE  Freed = {} /\ doing.what = "nothing"
BY DEF Freed, Idle

LEMMA SignalsInitially == SignalsInit => SignalsInv
<1> SUFFICES ASSUME SignalsInit PROVE SignalsInv
  OBVIOUS
<1>1. SignalsTypeOK
  BY FieldTypes DEF SignalsInit
<1>2. next[Sender] = NIL /\ Linked = {}
  <2>1. NIL \notin Node \cup {Sender} /\ next \in [Node \cup {Sender} -> (Node \cup {Sender}) \cup {NIL}]
    BY <1>1, NodeFacts
  <2>2. next[Sender] = NIL
    BY DEF SignalsInit
  <2>3. Met(next, NIL, NIL) = {}
    BY <2>1, MetNone
  <2> QED BY <2>2, <2>3 DEF Linked, From
<1>3. Freed = {}
  BY IdleFacts DEF SignalsInit
<1>4. ChainSound /\ NamesSound /\ MemorySound
  BY <1>2, <1>3 DEF SignalsInit, ChainSound, NamesSound, MemorySound
<1>5. DoingSound /\ WalkSound
  BY DEF SignalsInit, DoingSound, WalkSound, EmitMissesNone
<1> QED BY <1>1, <1>4, <1>5 DEF SignalsInv

LEMMA SignalsStutter == SignalsInv /\ UNCHANGED signals => SignalsInv'
<1> SUFFICES ASSUME SignalsInv, UNCHANGED signals PROVE SignalsInv'
  OBVIOUS
<1>1. UNCHANGED <<next, prev, pMethod, pReceiver, name, allocated, leaked, doing, connected, emitAt, called,
                  cutShort, steady>>
  BY DEF signals, nodes, walk
<1>2. Linked' = Linked /\ \A m : From(m)' = From(m)
  BY <1>1, NodesUnchanged
<1> QED BY <1>1, <1>2 DEF SignalsInv, SignalsTypeOK, ChainSound, NamesSound, MemorySound, Freed, DoingSound,
           WalkSound, EmitMissesNone

(* A connection that no node on the list holds is not connected. *)
LEMMA HolderFacts ==
    ASSUME SignalsInv, NEW c \in Connection
    PROVE  /\ Holder(c) = {} => c \notin connected
           /\ \A n \in Holder(c) : n \in Linked /\ name[n] = c /\ c \in connected
           /\ \A n \in Linked : name[n] = c => n \in Holder(c)
<1>1. c # NIL
  BY NodeAssumption
<1> QED BY <1>1 DEF SignalsInv, NamesSound, Holder

LEMMA RefusedKeeps == \A c \in Connection : SignalsInv /\ doing = Idle /\ Refused(c) => SignalsInv'
<1> SUFFICES ASSUME NEW c \in Connection, SignalsInv, doing = Idle, Refused(c) PROVE SignalsInv'
  OBVIOUS
<1>1. UNCHANGED <<next, prev, pMethod, pReceiver, name, doing, connected, emitAt, called, cutShort, steady>>
  BY DEF Refused, walk
<1>2. Linked' = Linked /\ (\A m : From(m)' = From(m)) /\ Freed = {} /\ Freed' = {}
  BY <1>1, NodesUnchanged, IdleFacts DEF Freed
<1>3. \/ UNCHANGED <<allocated, leaked>>
      \/ \E n \in Node \ allocated : allocated' = allocated \cup {n} /\ leaked' = leaked \cup {n}
  BY DEF Refused
<1>4. SignalsTypeOK'
  BY <1>1, <1>3 DEF SignalsInv, SignalsTypeOK
<1>5. MemorySound'
  BY <1>1, <1>2, <1>3 DEF SignalsInv, MemorySound
<1>6. ChainSound' /\ NamesSound' /\ DoingSound' /\ WalkSound'
  BY <1>1, <1>2 DEF SignalsInv, ChainSound, NamesSound, DoingSound, WalkSound, EmitMissesNone
<1> QED BY <1>4, <1>5, <1>6 DEF SignalsInv

LEMMA LinksKeeps == \A c \in Connection : SignalsInv /\ doing = Idle /\ Links(c) => SignalsInv'
<1> SUFFICES ASSUME NEW c \in Connection, SignalsInv, doing = Idle, Links(c) PROVE SignalsInv'
  OBVIOUS
<1>1. PICK n \in Node \ allocated :
        /\ allocated' = allocated \cup {n}
        /\ Joined(n)
        /\ doing' = [what |-> "method", which |-> c, node |-> n]
  BY DEF Links, Joined
<1>2. UNCHANGED <<pMethod, pReceiver, name, leaked, connected, emitAt, called, cutShort, steady>> /\ c \notin connected
  BY HolderFacts DEF Links, walk
<1>3. SignalsTypeOK /\ ChainSound /\ NamesSound /\ MemorySound /\ WalkSound
  BY DEF SignalsInv
<1>4. n \notin Linked /\ n \notin Freed /\ n \notin leaked /\ next[n] = NIL /\ name[n] = NIL /\ Freed = {} /\ Freed' = {}
  BY <1>1, <1>3, IdleFacts DEF MemorySound, Freed
<1>5. /\ next' \in [Node \cup {Sender} -> Node \cup {NIL}]
      /\ prev' \in [Node \cup {Sender} -> Node \cup {Sender, NIL}]
      /\ \A k \in Node \ Linked : next'[k] = next[k]
      /\ \A m \in Linked : From(m) \subseteq From(m)'
      /\ Linked' = Linked \cup {n}
      /\ ChainSound'
  BY <1>1, <1>3, <1>4, JoinedFacts
<1>6. SignalsTypeOK'
  BY <1>1, <1>2, <1>3, <1>5 DEF SignalsTypeOK
<1>7. NamesSound'
  BY <1>2, <1>3, <1>4, <1>5 DEF NamesSound
<1>8. MemorySound'
  BY <1>1, <1>2, <1>3, <1>4, <1>5 DEF MemorySound
<1>9. DoingSound'
  BY <1>1, <1>2, <1>4, <1>5 DEF DoingSound
<1>10. WalkSound'
  BY <1>2, <1>3, <1>5, IdleFacts DEF WalkSound, EmitMissesNone
<1> QED BY <1>5, <1>6, <1>7, <1>8, <1>9, <1>10 DEF SignalsInv

LEMMA WritesKeep == SignalsInv /\ (WritesMethod \/ WritesReceiver \/ WritesName) => SignalsInv'
<1> SUFFICES ASSUME SignalsInv, WritesMethod \/ WritesReceiver \/ WritesName PROVE SignalsInv'
  OBVIOUS
<1> DEFINE n == doing.node
           c == doing.which
<1>1. UNCHANGED <<next, prev, allocated, leaked, emitAt, called, cutShort, steady>>
  BY DEF WritesMethod, WritesReceiver, WritesName, walk
<1>2. Linked' = Linked /\ (\A m : From(m)' = From(m))
  BY <1>1, NodesUnchanged
<1>3. SignalsTypeOK /\ ChainSound /\ NamesSound /\ MemorySound /\ WalkSound
  BY DEF SignalsInv
<1>4. /\ doing \in [what : {"method", "receiver", "name"}, which : Connection, node : Linked]
      /\ c \in Connection \ connected /\ n \in Linked /\ name[n] = NIL
      /\ doing.what \in {"receiver", "name"} => pMethod[n] = c
      /\ doing.what = "name" => pReceiver[n] = c
  BY DEF SignalsInv, DoingSound, WritesMethod, WritesReceiver, WritesName, Idle
<1>5. Freed = {} /\ Freed' = {}
  BY <1>4 DEF WritesMethod, WritesReceiver, WritesName, Freed, Idle
<1>6. n \in Node /\ c # NIL /\ Linked \subseteq Node
  BY <1>3, <1>4, LinkedFacts, NodeFacts
<1>7. ChainSound'
  BY <1>1, <1>2, <1>3 DEF ChainSound
<1> HIDE DEF n, c
<1>8. CASE WritesMethod
  <2>1. /\ pMethod' = [pMethod EXCEPT ![n] = c] /\ doing.what = "method"
        /\ doing' = [doing EXCEPT !.what = "receiver"]
        /\ UNCHANGED <<pReceiver, name, connected>>
    BY <1>8 DEF WritesMethod, n, c
  <2>2. /\ pMethod' \in [Node \cup {Sender} -> Connection \cup {NIL}] /\ pMethod'[n] = c
        /\ \A k \in Linked : k # n => pMethod'[k] = pMethod[k]
    BY <1>3, <1>4, <1>6, <2>1, FieldTypes
  <2>3. SignalsTypeOK'
    BY <1>1, <1>3, <2>1, <2>2 DEF SignalsTypeOK
  <2>4. NamesSound'
    BY <1>2, <1>3, <1>4, <2>1, <2>2 DEF NamesSound
  <2>5. MemorySound' /\ WalkSound'
    BY <1>1, <1>2, <1>3, <1>5, <2>1 DEF MemorySound, WalkSound, EmitMissesNone
  <2>6. DoingSound'
    <3>1. /\ doing' \in [what : {"method", "receiver", "name"}, which : Connection, node : Linked]
          /\ doing'.what = "receiver" /\ doing'.node = n /\ doing'.which = c
      BY <1>4, <2>1 DEF n, c
    <3> QED BY <1>2, <1>4, <2>1, <2>2, <3>1 DEF DoingSound
  <2> QED BY <1>7, <2>3, <2>4, <2>5, <2>6 DEF SignalsInv
<1>9. CASE WritesReceiver
  <2>1. /\ pReceiver' = [pReceiver EXCEPT ![n] = c] /\ doing.what = "receiver"
        /\ doing' = [doing EXCEPT !.what = "name"]
        /\ UNCHANGED <<pMethod, name, connected>>
    BY <1>9 DEF WritesReceiver, n, c
  <2>2. /\ pReceiver' \in [Node \cup {Sender} -> Connection \cup {NIL}] /\ pReceiver'[n] = c
        /\ \A k \in Linked : k # n => pReceiver'[k] = pReceiver[k]
    BY <1>3, <1>4, <1>6, <2>1, FieldTypes
  <2>3. SignalsTypeOK'
    BY <1>1, <1>3, <2>1, <2>2 DEF SignalsTypeOK
  <2>4. NamesSound'
    BY <1>2, <1>3, <1>4, <2>1, <2>2 DEF NamesSound
  <2>5. MemorySound' /\ WalkSound'
    BY <1>1, <1>2, <1>3, <1>5, <2>1 DEF MemorySound, WalkSound, EmitMissesNone
  <2>6. DoingSound'
    <3>1. /\ doing' \in [what : {"method", "receiver", "name"}, which : Connection, node : Linked]
          /\ doing'.what = "name" /\ doing'.node = n /\ doing'.which = c
      BY <1>4, <2>1 DEF n, c
    <3> QED BY <1>2, <1>4, <2>1, <2>2, <3>1 DEF DoingSound
  <2> QED BY <1>7, <2>3, <2>4, <2>5, <2>6 DEF SignalsInv
<1>10. CASE WritesName
  <2>1. /\ name' = [name EXCEPT ![n] = c] /\ doing.what = "name" /\ doing' = Idle
        /\ connected' = connected \cup {c}
        /\ UNCHANGED <<pMethod, pReceiver>>
    BY <1>10 DEF WritesName, n, c
  <2>2. /\ name' \in [Node \cup {Sender} -> Connection \cup {NIL}] /\ name'[n] = c
        /\ \A k \in Node : k # n => name'[k] = name[k]
    BY <1>3, <1>4, <1>6, <2>1, FieldTypes
  <2>3. SignalsTypeOK'
    BY <1>1, <1>3, <1>4, <2>1, <2>2 DEF SignalsTypeOK
  <2>4. NamesSound'
    <3>1. \A k \in Linked : k # n => name'[k] # c
      BY <1>3, <1>4, <1>6, <2>2 DEF NamesSound
    <3>2. \A k \in Linked : name'[k] # NIL =>
            name'[k] \in connected' /\ pMethod'[k] = name'[k] /\ pReceiver'[k] = name'[k]
      BY <1>3, <1>4, <1>6, <2>1, <2>2 DEF NamesSound
    <3>3. \A k, m \in Linked : name'[k] # NIL /\ name'[k] = name'[m] => k = m
      BY <1>3, <1>6, <2>2, <3>1 DEF NamesSound
    <3>4. \A d \in connected' : \E k \in Linked : name'[k] = d
      <4>1. \A d \in connected : \E k \in Linked : name[k] = d /\ k # n
        BY <1>3, <1>4, NodeFacts DEF NamesSound, SignalsTypeOK
      <4> QED BY <1>4, <1>6, <2>1, <2>2, <4>1
    <3> QED BY <1>2, <3>2, <3>3, <3>4 DEF NamesSound
  <2>5. MemorySound'
    BY <1>1, <1>2, <1>3, <1>4, <1>5, <2>1, <2>2 DEF MemorySound
  <2>6. WalkSound'
    <3>1. \A k \in Linked : name[k] \in steady => name'[k] = name[k]
      BY <1>3, <1>4, <1>6, <2>2, NodeFacts DEF SignalsTypeOK
    <3>2. emitAt \in Linked => From(emitAt) \subseteq Linked
      BY <1>3, LinkedFacts
    <3>3. doing.what # "free"
      BY <2>1
    <3> QED BY <1>1, <1>2, <1>3, <2>1, <3>1, <3>2, <3>3 DEF WalkSound, EmitMissesNone
  <2>7. DoingSound'
    BY <2>1 DEF DoingSound
  <2> QED BY <1>7, <2>3, <2>4, <2>5, <2>6, <2>7 DEF SignalsInv
<1> QED BY <1>8, <1>9, <1>10

LEMMA DisconnectKeeps == \A c \in Connection : SignalsInv /\ auto_disconnect(c) => SignalsInv'
<1> SUFFICES ASSUME NEW c \in Connection, SignalsInv, auto_disconnect(c) PROVE SignalsInv'
  OBVIOUS
<1>1. doing = Idle
  BY DEF auto_disconnect
<1>2. CASE UNCHANGED signals
  BY <1>2, SignalsStutter
<1>3. ASSUME NEW n \in Holder(c), Unlinked(n), connected' = connected \ {c}, steady' = steady \ {c},
             doing' = [what |-> "free", which |-> c, node |-> n],
             UNCHANGED <<pMethod, pReceiver, name, allocated, leaked, walk>>
      PROVE  SignalsInv'
  <2>1. SignalsTypeOK /\ ChainSound /\ NamesSound /\ MemorySound /\ WalkSound
    BY DEF SignalsInv
  <2>2. n \in Linked /\ name[n] = c /\ c \in connected /\ c # NIL /\ Linked \subseteq Node /\ n \in Node
    BY <2>1, HolderFacts, NodeFacts, LinkedFacts
  <2>3. /\ next' \in [Node \cup {Sender} -> Node \cup {NIL}]
        /\ prev' \in [Node \cup {Sender} -> Node \cup {Sender, NIL}]
        /\ \A k \in Node \ Linked : next'[k] = next[k]
        /\ \A m \in (Linked \cup {Sender}) \ {n} : From(m)' = From(m) \ {n}
        /\ Linked' = Linked \ {n}
        /\ ChainSound'
    BY <1>3, <2>1, <2>2, UnlinkedFacts
  <2>4. Freed = {} /\ Freed' = {n} /\ doing'.what = "free" /\ doing'.node = n
    BY <1>1, <1>3, IdleFacts DEF Freed
  <2>5. UNCHANGED <<pMethod, pReceiver, name, allocated, leaked, emitAt, called, cutShort>>
    BY <1>3 DEF walk
  <2>6. connected' = connected \ {c} /\ steady' = steady \ {c}
    BY <1>3
  <2>7. SignalsTypeOK'
    BY <2>1, <2>3, <2>5, <2>6 DEF SignalsTypeOK
  <2>8. NamesSound'
    BY <2>1, <2>2, <2>3, <2>5, <2>6 DEF NamesSound
  <2>9. MemorySound'
    BY <2>1, <2>2, <2>3, <2>4, <2>5 DEF MemorySound
  <2>10. DoingSound'
    BY <1>3, <2>2 DEF DoingSound
  <2>11. WalkSound'
    <3>1. steady' \subseteq connected' \cap Emitted /\ EmitMissesNone'
      BY <2>1, <2>5, <2>6 DEF WalkSound, EmitMissesNone
    <3>2. ASSUME ~cutShort', emitAt' # NIL, emitAt' # n
          PROVE  emitAt' \in Linked' /\ \A d \in steady' \ called' : \E k \in From(emitAt)' : name'[k] = d
      <4>1. emitAt \in Linked /\ \A d \in steady \ called : \E k \in From(emitAt) : name[k] = d
        BY <1>1, <2>1, <2>5, <3>2, IdleFacts DEF WalkSound
      <4>2. From(emitAt)' = From(emitAt) \ {n}
        BY <2>3, <2>5, <3>2, <4>1 DEF From
      <4> QED BY <2>2, <2>3, <2>5, <2>6, <3>2, <4>1, <4>2
    <3> QED BY <2>4, <3>1, <3>2 DEF WalkSound
  <2> QED BY <2>3, <2>7, <2>8, <2>9, <2>10, <2>11 DEF SignalsInv
<1> QED BY <1>2, <1>3 DEF auto_disconnect

LEMMA FreesKeeps == SignalsInv /\ Frees => SignalsInv'
<1> SUFFICES ASSUME SignalsInv, Frees PROVE SignalsInv'
  OBVIOUS
<1> DEFINE n == doing.node
<1>1. SignalsTypeOK /\ ChainSound /\ NamesSound /\ MemorySound /\ WalkSound
  BY DEF SignalsInv
<1>2. doing.what = "free" /\ n \in Node /\ Freed = {n} /\ n \notin Linked /\ n \notin leaked /\ n \in allocated
  BY <1>1 DEF Frees, SignalsInv, DoingSound, Idle, Freed, MemorySound
<1>3. /\ Cleared(n)
      /\ pMethod' = [pMethod EXCEPT ![n] = NIL] /\ pReceiver' = [pReceiver EXCEPT ![n] = NIL]
      /\ name' = [name EXCEPT ![n] = NIL]
      /\ allocated' = allocated \ {n} /\ cutShort' = (cutShort \/ emitAt = n) /\ doing' = Idle
      /\ UNCHANGED <<leaked, connected, emitAt, called, steady>>
  BY DEF Frees, Cleared
<1> HIDE DEF n
<1>4. /\ next' \in [Node \cup {Sender} -> Node \cup {NIL}]
      /\ prev' \in [Node \cup {Sender} -> Node \cup {Sender, NIL}]
      /\ \A k \in (Node \cup {Sender}) \ {n} : next'[k] = next[k]
      /\ next'[n] = NIL
      /\ \A m \in Linked \cup {Sender} : From(m)' = From(m)
      /\ Linked' = Linked
      /\ ChainSound'
  BY <1>1, <1>2, <1>3, ClearedFacts
<1>5. /\ pMethod' \in [Node \cup {Sender} -> Connection \cup {NIL}]
      /\ pReceiver' \in [Node \cup {Sender} -> Connection \cup {NIL}]
      /\ name' \in [Node \cup {Sender} -> Connection \cup {NIL}] /\ name'[n] = NIL
      /\ \A k \in Node : k # n => pMethod'[k] = pMethod[k] /\ pReceiver'[k] = pReceiver[k] /\ name'[k] = name[k]
  BY <1>1, <1>2, <1>3, FieldTypes
<1>6. Linked \subseteq Node /\ \A k \in Linked : k # n /\ From(k) \subseteq Linked
  BY <1>1, <1>2, LinkedFacts
<1>7. SignalsTypeOK'
  <2>1. cutShort' \in BOOLEAN
    BY <1>3
  <2> QED BY <1>1, <1>2, <1>3, <1>4, <1>5, <2>1 DEF SignalsTypeOK
<1>8. NamesSound'
  BY <1>1, <1>3, <1>4, <1>5, <1>6 DEF NamesSound
<1>9. Freed' = {}
  BY <1>3, IdleFacts DEF Freed, Idle
<1>10. MemorySound'
  BY <1>1, <1>2, <1>3, <1>4, <1>5, <1>9 DEF MemorySound
<1>11. WalkSound'
  <2>1. steady' \subseteq connected' \cap Emitted /\ EmitMissesNone'
    BY <1>1, <1>3 DEF WalkSound, EmitMissesNone
  <2>2. ASSUME ~cutShort', emitAt' # NIL
        PROVE  emitAt' \in Linked' /\ \A d \in steady' \ called' : \E k \in From(emitAt)' : name'[k] = d
    <3>1. emitAt \in Linked /\ \A d \in steady \ called : \E k \in From(emitAt) : name[k] = d
      BY <1>1, <1>3, <2>2 DEF WalkSound, n
    <3>2. From(emitAt)' = From(emitAt)
      BY <1>3, <1>4, <3>1 DEF From
    <3> QED BY <1>3, <1>4, <1>5, <1>6, <3>1, <3>2
  <2> QED BY <2>1, <2>2 DEF WalkSound
<1>12. DoingSound'
  BY <1>3 DEF DoingSound
<1> QED BY <1>4, <1>7, <1>8, <1>10, <1>11, <1>12 DEF SignalsInv
(* Where emit goes on from m: to the first node met that is called, all    *)
(* the others that are called being behind it, or nowhere when none is.    *)
LEMMA NextCalledFacts ==
    ASSUME SignalsTypeOK, NEW m \in Node \cup {Sender}
    PROVE  \/ NextCalled(m) = NIL /\ \A k \in From(m) : ~Calls(k)
           \/ /\ NextCalled(m) \in From(m)
              /\ \A k \in From(m) : Calls(k) => k = NextCalled(m) \/ k \in From(NextCalled(m))
<1> DEFINE D == Node \cup {Sender}
           met == {k \in From(m) : Calls(k)}
           first == CHOOSE n \in met : met \subseteq {n} \cup From(n)
<1>1. NextCalled(m) = IF met = {} THEN NIL ELSE first
  BY DEF NextCalled
<1>2. CASE met = {}
  BY <1>1, <1>2
<1>3. CASE met # {}
  <2>1. NIL \notin D /\ next \in [D -> D \cup {NIL}] /\ m \in D /\ From(m) \subseteq D
        /\ \A k \in D : next[k] \in D \cup {NIL}
    BY NodeFacts, FromFacts
  <2>2. \E n \in met : met \subseteq {n} \cup From(n)
    <3> SUFFICES ASSUME \A n \in met : ~(met \subseteq {n} \cup From(n)) PROVE FALSE
      OBVIOUS
    <3> DEFINE S == {x \in From(m) : ~Calls(x) /\ met \subseteq From(x)}
    <3>1. ASSUME NEW x \in D, met \subseteq From(x), next[x] # NIL => next[x] \in From(m)
          PROVE  next[x] \in S
      <4>1. next[x] # NIL
        <5>1. Met(next, NIL, NIL) = {}
          BY <2>1, MetNone
        <5> QED BY <1>3, <3>1, <5>1 DEF From
      <4>2. next[x] \in D
        BY <2>1, <3>1, <4>1
      <4>3. Met(next, NIL, next[x]) \subseteq {next[x]} \cup Met(next, NIL, next[next[x]])
        BY <2>1, <4>2, MetRest
      <4>4. met \subseteq {next[x]} \cup From(next[x])
        BY <3>1, <4>3 DEF From
      <4>5. next[x] \notin met
        BY <4>4
      <4> QED BY <3>1, <4>1, <4>4, <4>5
    <3>2. next[m] \in S
      <4>1. met \subseteq From(m) /\ (next[m] # NIL => next[m] \in From(m))
        BY FromFacts
      <4> QED BY <2>1, <3>1, <4>1
    <3>3. \A x \in S : next[x] \in S
      <4> SUFFICES ASSUME NEW x \in S PROVE next[x] \in S
        OBVIOUS
      <4>1. x \in D /\ met \subseteq From(x) /\ (next[x] # NIL => next[x] \in From(m))
        BY <2>1, FromFacts
      <4> QED BY <3>1, <4>1
    <3>4. Met(next, NIL, next[m]) \subseteq S
      <4> HIDE DEF S, D
      <4>1. next[m] \in D \cup {NIL}
        BY <2>1
      <4>2. \A x \in Met(next, NIL, next[m]) \cap S : next[x] # NIL => next[x] \in S
        BY <3>3
      <4> QED BY <2>1, <3>2, <4>1, <4>2, MetLeast
    <3> QED BY <1>3, <3>4 DEF From
  <2>3. first \in met /\ met \subseteq {first} \cup From(first)
    <3> HIDE DEF met
    <3> QED BY <2>2
  <2> HIDE DEF first
  <2> QED BY <1>1, <1>3, <2>3
<1> QED BY <1>2, <1>3

(* Emit has m behind it and goes on to the next one. *)
LEMMA ArrivesKeeps ==
    ASSUME SignalsInv, doing = Idle, NEW m \in Node \cup {Sender},
           UNCHANGED <<nodes, leaked, doing, connected>>, ArrivesAt(NextCalled(m)),
           steady' \subseteq connected \cap Emitted, cutShort' \in BOOLEAN,
           ~cutShort' => /\ m \in Linked \cup {Sender}
                         /\ \A c \in steady' \ (IF emitAt = NIL THEN {} ELSE called) : \E k \in From(m) : name[k] = c
    PROVE  SignalsInv'
<1> DEFINE n == NextCalled(m)
           before == IF emitAt = NIL THEN {} ELSE called
<1>1. UNCHANGED <<next, prev, pMethod, pReceiver, name, allocated, leaked, doing, connected>>
  BY DEF nodes
<1>2. Linked' = Linked /\ (\A k : From(k)' = From(k)) /\ Freed' = Freed
  BY <1>1, NodesUnchanged DEF Freed
<1>3. SignalsTypeOK /\ NamesSound
  BY DEF SignalsInv
<1>4. \/ n = NIL /\ \A k \in From(m) : ~Calls(k)
      \/ n \in From(m) /\ \A k \in From(m) : Calls(k) => k = n \/ k \in From(n)
  BY <1>3, NextCalledFacts
<1>5. emitAt' = n /\ called' = before \cup (IF n = NIL THEN {} ELSE {pReceiver[n]})
  BY DEF ArrivesAt
<1>6. From(m) \subseteq Node /\ NIL \notin Node /\ NIL \notin Connection /\ before \subseteq Connection \cup {NIL}
  BY <1>3, FromFacts, NodeFacts DEF SignalsTypeOK
<1> HIDE DEF n, before
<1>7. SignalsTypeOK'
  <2>1. called' \subseteq Connection \cup {NIL} /\ emitAt' \in Node \cup {NIL}
    BY <1>3, <1>4, <1>5, <1>6, FieldTypes
  <2>2. steady' \subseteq Connection
    BY <1>3 DEF SignalsTypeOK
  <2> QED BY <1>1, <1>3, <2>1, <2>2 DEF SignalsTypeOK
<1>8. ChainSound' /\ NamesSound' /\ MemorySound' /\ DoingSound'
  BY <1>1, <1>2 DEF SignalsInv, ChainSound, NamesSound, MemorySound, DoingSound
<1>9. ASSUME ~cutShort', NEW c \in steady' \ called'
      PROVE  n # NIL /\ \E k \in From(n) : name[k] = c
  <2>1. c \notin before /\ c \in Emitted /\ c # NIL
    BY <1>5, <1>6, <1>9, NodeAssumption
  <2>2. m \in Linked \cup {Sender} /\ \E k \in From(m) : name[k] = c
    BY <1>9, <2>1 DEF before
  <2>3. PICK k \in From(m) : name[k] = c
    BY <2>2
  <2>4. k \in Linked
    BY <1>3, <2>2, LinkedFacts
  <2>5. Calls(k) /\ pReceiver[k] = c
    BY <1>3, <2>1, <2>3, <2>4 DEF NamesSound, Calls
  <2>6. k # n
    BY <1>4, <1>5, <1>6, <1>9, <2>5
  <2> QED BY <1>4, <1>6, <2>3, <2>5, <2>6
<1>10. ~cutShort' /\ n # NIL => n \in Linked
  BY <1>3, <1>4, LinkedFacts
<1>11. WalkSound'
  <2>1. emitAt' = NIL /\ ~cutShort' => steady' \subseteq called'
    BY <1>5, <1>9
  <2>2. ~cutShort' /\ emitAt' # NIL =>
           emitAt' \in Linked' /\ \A c \in steady' \ called' : \E k \in From(emitAt)' : name'[k] = c
    <3>1. From(emitAt)' = From(n)
      BY <1>1, <1>5 DEF From
    <3> QED BY <1>1, <1>2, <1>5, <1>9, <1>10, <3>1
  <2>3. steady' \subseteq connected' \cap Emitted
    BY <1>1
  <2> QED BY <2>1, <2>2, <2>3 DEF WalkSound, EmitMissesNone
<1> QED BY <1>7, <1>8, <1>11 DEF SignalsInv

LEMMA EmitKeeps == SignalsInv /\ (emit \/ SlotReturns) => SignalsInv'
<1> SUFFICES ASSUME SignalsInv, emit \/ SlotReturns PROVE SignalsInv'
  OBVIOUS
<1>1. doing = Idle /\ UNCHANGED <<nodes, leaked, doing, connected>>
  BY DEF emit, SlotReturns
<1>2. SignalsTypeOK /\ NamesSound /\ WalkSound
  BY DEF SignalsInv
<1>3. CASE emit
  <2>1. emitAt = NIL /\ ArrivesAt(NextCalled(Sender)) /\ steady' = connected \cap Emitted /\ cutShort' = FALSE
    BY <1>3 DEF emit
  <2>2. \A c \in connected : \E k \in From(Sender) : name[k] = c
    BY <1>2 DEF NamesSound, Linked
  <2> QED BY <1>1, <2>1, <2>2, ArrivesKeeps
<1>4. CASE SlotReturns
  <2>1. emitAt # NIL /\ ArrivesAt(NextCalled(emitAt)) /\ steady' = steady /\ cutShort' = cutShort
    BY <1>4 DEF SlotReturns
  <2>2. emitAt \in Node /\ steady \subseteq connected \cap Emitted /\ cutShort \in BOOLEAN
    BY <1>2, <2>1 DEF SignalsTypeOK, WalkSound
  <2>3. ~cutShort => emitAt \in Linked /\ \A c \in steady \ called : \E k \in From(emitAt) : name[k] = c
    BY <1>1, <1>2, <2>1, IdleFacts DEF WalkSound
  <2> QED BY <1>1, <2>1, <2>2, <2>3, ArrivesKeeps
<1> QED BY <1>3, <1>4

-----------------------------------------------------------------------------
(* What is on the list is found by an interrupt handler, once.             *)
LEMMA FindsConnected == SignalsInv => InterruptFindsConnected /\ NothingElseLeaks
<1> SUFFICES ASSUME SignalsInv PROVE InterruptFindsConnected /\ NothingElseLeaks
  OBVIOUS
<1>1. SignalsTypeOK /\ NamesSound /\ MemorySound
  BY DEF SignalsInv
<1>2. \A n \in Linked : n \in allocated \ leaked
  BY <1>1 DEF MemorySound
<1>3. \A n \in Linked : pMethod[n] # NIL /\ name[n] # NIL => name[n] \in connected /\ n \in Holder(name[n])
  BY <1>1 DEF NamesSound, Holder
<1>4. ASSUME NEW c \in connected
      PROVE  Cardinality(Holder(c)) = 1
  <2>1. c \in Connection
    BY <1>1 DEF SignalsTypeOK
  <2>2. c # NIL
    BY <2>1, NodeAssumption
  <2>3. PICK n \in Linked : name[n] = c
    BY <1>1, <1>4 DEF NamesSound
  <2>4. Holder(c) = {n}
    <3>1. n \in Holder(c)
      BY <2>1, <2>3, HolderFacts
    <3>2. \A k \in Holder(c) : k = n
      BY <1>1, <2>1, <2>2, <2>3, HolderFacts DEF NamesSound
    <3> QED BY <3>1, <3>2
  <2> QED BY <2>4, FS_Singleton
<1>5. NothingElseLeaks
  BY <1>1 DEF MemorySound, NothingElseLeaks, Freed
<1> QED BY <1>2, <1>3, <1>4, <1>5 DEF InterruptFindsConnected

-----------------------------------------------------------------------------
(* The two parts share the main loop: a step of one leaves the other alone. *)
DispatchInv == AgentsInv /\ SignalsInv /\ changes \in 0..MaxChanges

LEMMA DispatchInvariant == Spec => []DispatchInv
<1>1. Init => DispatchInv
  BY AgentsInitially, SignalsInitially, ChangesAssumption DEF Init, DispatchInv
<1>2. DispatchInv /\ [Next]_vars => DispatchInv'
  <2> SUFFICES ASSUME DispatchInv, [Next]_vars PROVE DispatchInv'
    OBVIOUS
  <2> USE DEF DispatchInv
  <2>1. CASE EngineGoesOn
    BY <2>1, EngineKeeps, SignalsStutter DEF EngineGoesOn
  <2>2. CASE EmitGoesOn
    BY <2>2, EmitKeeps, AgentsStutter DEF EmitGoesOn
  <2>3. CASE ConnectGoesOn
    BY <2>3, WritesKeep, FreesKeeps, AgentsStutter DEF ConnectGoesOn, Continues
  <2>4. CASE ChangesAgents
    <3>1. changes' \in 0..MaxChanges
      BY <2>4, ChangesAssumption DEF ChangesAgents, MayChange
    <3> QED BY <2>4, <3>1, RegisterKeeps, UnregisterKeeps, SignalsStutter DEF ChangesAgents
  <2>5. CASE ChangesConnections
    <3>1. changes' \in 0..MaxChanges
      BY <2>5, ChangesAssumption DEF ChangesConnections, MayChange
    <3>2. ASSUME NEW c \in Connection, direct_connect(c)
          PROVE  SignalsInv'
      BY <3>2, RefusedKeeps, LinksKeeps, SignalsStutter DEF direct_connect, NoMemory
    <3> QED BY <2>5, <3>1, <3>2, DisconnectKeeps, EmitKeeps, AgentsStutter DEF ChangesConnections
  <2>6. CASE UNCHANGED vars
    BY <2>6, AgentsStutter, SignalsStutter DEF vars
  <2> QED BY <2>1, <2>2, <2>3, <2>4, <2>5, <2>6 DEF Next
<1> QED BY <1>1, <1>2, PTL DEF Spec

(* Every variable keeps its type. *)
THEOREM DispatchTypes == Spec => []TypeOK
<1>1. DispatchInv => TypeOK
  BY DEF DispatchInv, AgentsInv, SignalsInv, TypeOK
<1> QED BY <1>1, DispatchInvariant, PTL

(* Whatever callbacks register and unregister in the middle of a scan, the *)
(* list of agents has an end and its members are the registered agents.    *)
THEOREM AgentListSound == Spec => []ListSound
<1>1. DispatchInv => ListSound
  BY DEF DispatchInv, AgentsInv
<1> QED BY <1>1, DispatchInvariant, PTL

(* The cursor of check_use_peek is never left on an agent that has been    *)
(* unregistered.                                                           *)
THEOREM AgentCursorOnList == Spec => []CursorOnList
<1>1. DispatchInv => CursorOnList
  BY DEF DispatchInv, AgentsInv
<1> QED BY <1>1, DispatchInvariant, PTL

(* The scan goes on from NULL only when a callback has emptied the list or *)
(* unregistered an agent that is not on it.                                *)
THEOREM AgentCursorKept == Spec => []CursorKept
<1>1. DispatchInv => CursorKept
  BY DEF DispatchInv, AgentsInv
<1> QED BY <1>1, DispatchInvariant, PTL

(* An emit from an interrupt handler finds every connection that is made   *)
(* and not being unmade, once, complete, at whatever point of a connect or *)
(* a disconnect it comes.                                                  *)
THEOREM SignalsInterruptFinds == Spec => []InterruptFindsConnected
<1>1. DispatchInv => InterruptFindsConnected
  BY FindsConnected DEF DispatchInv
<1> QED BY <1>1, DispatchInvariant, PTL

(* Memory is lost by connecting what is connected already and by nothing   *)
(* else.                                                                   *)
THEOREM SignalsNothingElseLeaks == Spec => []NothingElseLeaks
<1>1. DispatchInv => NothingElseLeaks
  BY FindsConnected DEF DispatchInv
<1> QED BY <1>1, DispatchInvariant, PTL

(* The main loop's emit calls every connection that lasts throughout it,   *)
(* unless a slot disconnects the connection it is called for.              *)
THEOREM SignalsEmitMissesNone == Spec => []EmitMissesNone
<1>1. DispatchInv => EmitMissesNone
  BY DEF DispatchInv, SignalsInv, WalkSound
<1> QED BY <1>1, DispatchInvariant, PTL
=============================================================================
