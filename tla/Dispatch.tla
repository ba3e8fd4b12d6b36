------------------------------ MODULE Dispatch ------------------------------
(***************************************************************************)
(* The main loop calls the agent engine and emits signals; agents' checks  *)
(* and slots register and unregister agents, connect and disconnect. The   *)
(* engine and the emit go on only when the callback they are in is done.   *)
(***************************************************************************)
EXTENDS CheckAgents, SignalsSlots

CONSTANT MaxChanges  \* bound: registrations, connections and emits, and their undoing, in a behaviour

ASSUME ChangesAssumption == MaxChanges \in Nat

VARIABLE changes
vars == <<agents, signals, changes>>

Init == AgentsInit /\ SignalsInit /\ changes = 0

Runs == chState # "LOST"
MayChange == Runs /\ doing = Idle /\ changes < MaxChanges /\ changes' = changes + 1

EngineGoesOn == Runs /\ doing = Idle /\ emitAt = NIL /\ Engine /\ UNCHANGED <<signals, changes>>
EmitGoesOn == Runs /\ SlotReturns /\ UNCHANGED <<agents, changes>>
ConnectGoesOn == Runs /\ Continues /\ UNCHANGED <<agents, changes>>
ChangesAgents ==
    /\ MayChange
    /\ \E a \in Agent : agent_register(a) \/ agent_unregister(a)
    /\ UNCHANGED signals
ChangesConnections ==
    /\ MayChange
    /\ (\E c \in Connection : direct_connect(c) \/ auto_disconnect(c)) \/ emit
    /\ UNCHANGED agents

Next == EngineGoesOn \/ EmitGoesOn \/ ConnectGoesOn \/ ChangesAgents \/ ChangesConnections

(* Callbacks and library calls return, and the main loop does nothing else *)
(* for ever: it comes back to the engine.                                  *)
Spec == Init /\ [][Next]_vars /\ WF_vars(EngineGoesOn) /\ WF_vars(EmitGoesOn) /\ WF_vars(ConnectGoesOn)

TypeOK == AgentsTypeOK /\ SignalsTypeOK /\ changes \in 0..MaxChanges
=============================================================================
