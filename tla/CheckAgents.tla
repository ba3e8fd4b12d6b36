---------------------------- MODULE CheckAgents ----------------------------
(***************************************************************************)
(* check_agent_engine/wl_check_agent_engine.c: a list of agents, and a     *)
(* state machine that calls one of them each time the main loop calls it.  *)
(* The cursor of the scan, ptFreeList, is a field of the object, and       *)
(* agent_register and agent_unregister move it too, also when they are     *)
(* called from the callback of the agent the scan is calling.              *)
(***************************************************************************)
EXTENDS LinkedList

CONSTANTS
    Agent,
    Enders,  \* the agents that may answer other than fsm_rt_on_going, as search_msg_map does when idle
    NULL

ASSUME AgentAssumption == Enders \subseteq Agent /\ NULL \notin Agent

VARIABLES
    ptCheckList,  \* the first agent
    ptNext,       \* the next one, in each agent
    ptFreeList,   \* the cursor
    chState,      \* as in the code, and "LOST" once the cursor was read through NULL
    calling,      \* the agent whose fnCheck is running
    registered,   \* history: the agents registered and not unregistered since
    mistaken      \* history: this callback has unregistered an agent that is not on the list

agents == <<ptCheckList, ptNext, ptFreeList, chState, calling, registered, mistaken>>
list == <<ptCheckList, ptNext, registered>>

AgentsInit ==
    /\ ptCheckList = NULL /\ ptFreeList = NULL
    /\ ptNext = [a \in Agent |-> NULL]
    /\ chState = "START" /\ calling = NULL
    /\ registered = {} /\ mistaken = FALSE

(* The agents a walk along ptNext meets, and those of them in front of a. *)
Listed == Met(ptNext, NULL, ptCheckList)
Ahead(a) == Listed \ Met(ptNext, NULL, a)

-----------------------------------------------------------------------------
(* A call of check_use_peek by the main loop, up to the callback. *)
ScanEnds ==
    /\ calling = NULL
    /\ \/ chState = "START" /\ ptCheckList = NULL
       \/ chState = "IS_END_OF_AGENT" /\ ptFreeList = NULL
    /\ ptFreeList' = NULL
    /\ chState' = "START"
    /\ UNCHANGED <<list, calling, mistaken>>

CallsAgent ==
    /\ calling = NULL
    /\ \/ chState = "START" /\ calling' = ptCheckList
       \/ chState = "IS_END_OF_AGENT" /\ calling' = ptFreeList
    /\ calling' # NULL
    /\ ptFreeList' = calling'
    /\ chState' = "CHECK_AGENT"
    /\ mistaken' = FALSE
    /\ UNCHANGED list

(* The callback returns. *)
AgentOnGoing_Stays ==  \* mutant: the cursor stays on the agent
    /\ calling # NULL /\ ptFreeList # NULL
    /\ chState' = "IS_END_OF_AGENT"
    /\ calling' = NULL
    /\ UNCHANGED <<ptFreeList, list, mistaken>>

AgentOnGoing ==
    /\ calling # NULL /\ ptFreeList # NULL
    /\ ptFreeList' = ptNext[ptFreeList]
    /\ chState' = "IS_END_OF_AGENT"
    /\ calling' = NULL
    /\ UNCHANGED <<list, mistaken>>

AgentOnGoingNowhere ==
    /\ calling # NULL /\ ptFreeList = NULL
    /\ chState' = "LOST"
    /\ calling' = NULL
    /\ UNCHANGED <<ptFreeList, list, mistaken>>

AgentEnds ==
    /\ calling \in Enders
    /\ chState' = "START"
    /\ calling' = NULL
    /\ UNCHANGED <<ptFreeList, list, mistaken>>

-----------------------------------------------------------------------------
Prepended(a) ==
    /\ ptNext' = [ptNext EXCEPT ![a] = ptCheckList]
    /\ ptCheckList' = a
    /\ ptFreeList' = a
    /\ registered' = registered \cup {a}
    /\ UNCHANGED <<chState, calling, mistaken>>

agent_register_Unchecked(a) == Prepended(a)  \* mutant: a duplicate is not looked for

agent_register(a) ==
    \/ a \in Listed /\ UNCHANGED agents
    \/ a \notin Listed /\ Prepended(a)

agent_unregister_OwnCursor(a) ==  \* mutant: the cursor of the scan is left alone
    \/ /\ ptCheckList = a
       /\ ptCheckList' = ptNext[a]
       /\ registered' = registered \ {a}
       /\ UNCHANGED <<ptNext, ptFreeList, chState, calling, mistaken>>
    \/ \E b \in Listed :
          /\ ptCheckList # a /\ ptNext[b] = a
          /\ ptNext' = [ptNext EXCEPT ![b] = ptNext[a]]
          /\ registered' = registered \ {a}
          /\ UNCHANGED <<ptCheckList, ptFreeList, chState, calling, mistaken>>

agent_unregister_Successor(a) ==  \* mutant: the cursor goes to the successor of the agent taken out
    \/ /\ ptCheckList = a
       /\ ptCheckList' = ptNext[a]
       /\ ptFreeList' = ptNext[a]
       /\ registered' = registered \ {a}
       /\ UNCHANGED <<ptNext, chState, calling, mistaken>>
    \/ \E b \in Listed :
          /\ ptCheckList # a /\ ptNext[b] = a
          /\ ptNext' = [ptNext EXCEPT ![b] = ptNext[a]]
          /\ ptFreeList' = ptNext[a]
          /\ registered' = registered \ {a}
          /\ UNCHANGED <<ptCheckList, chState, calling, mistaken>>

(* The head: the cursor goes to the new head. Another: the cursor runs     *)
(* along the list and stays on the predecessor. None: it has run off.      *)
agent_unregister(a) ==
    \/ /\ ptCheckList = a
       /\ ptCheckList' = ptNext[a]
       /\ ptFreeList' = ptNext[a]
       /\ registered' = registered \ {a}
       /\ UNCHANGED <<ptNext, chState, calling, mistaken>>
    \/ \E b \in Listed :
          /\ ptCheckList # a /\ ptNext[b] = a
          /\ ptNext' = [ptNext EXCEPT ![b] = ptNext[a]]
          /\ ptFreeList' = b
          /\ registered' = registered \ {a}
          /\ UNCHANGED <<ptCheckList, chState, calling, mistaken>>
    \/ /\ a \notin Listed
       /\ ptFreeList' = NULL
       /\ mistaken' = TRUE
       /\ UNCHANGED <<list, chState, calling>>

Engine == ScanEnds \/ CallsAgent \/ AgentOnGoing \/ AgentOnGoingNowhere \/ AgentEnds

AgentsTypeOK ==
    /\ ptCheckList \in Agent \cup {NULL} /\ ptFreeList \in Agent \cup {NULL}
    /\ ptNext \in [Agent -> Agent \cup {NULL}]
    /\ chState \in {"START", "IS_END_OF_AGENT", "CHECK_AGENT", "LOST"}
    /\ calling \in Agent \cup {NULL}
    /\ registered \subseteq Agent /\ mistaken \in BOOLEAN

(* Whatever is registered and unregistered in the middle of a scan, the    *)
(* list has an end and its members are the registered agents; a walk that  *)
(* comes to an end has met each of them once.                              *)
ListSound ==
    /\ Listed # {} => \E b \in Listed : ptNext[b] = NULL
    /\ Listed = registered

(* The cursor is never left on an agent that has been unregistered: what   *)
(* the scan calls next is registered, and its ptNext leads along the list. *)
CursorOnList == ptFreeList \in Listed \cup {NULL}

(* The scan goes on from NULL only when the callback has emptied the list  *)
(* or unregistered an agent that is not on it: a callback that unregisters *)
(* its own agent while there are others does no harm.                      *)
CursorKept == calling # NULL /\ ptFreeList = NULL => registered = {} \/ mistaken

(* Every agent gets its turn again and again once the list stays as it is, *)
(* unless one in front of it ends the round.                               *)
EveryAgentTurns ==
    \A a \in Agent :
        <>[](a \in Listed /\ Ahead(a) \cap Enders = {}) => []<>(calling = a \/ chState = "LOST")
=============================================================================
