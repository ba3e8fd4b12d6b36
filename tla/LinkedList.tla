----------------------------- MODULE LinkedList -----------------------------
(***************************************************************************)
(* The lists of check_agent_engine and signals_slots: a function gives of  *)
(* each object the one its link field points to, or the null pointer.      *)
(***************************************************************************)

(* S is not left by following the links. *)
Closed(link, null, S) == \A n \in S : link[n] # null => link[n] \in S

(* What a walk from first meets: the least set that has first in it and is *)
(* not left by following the links.                                        *)
Met(link, null, first) ==
    LET kept == {S \in SUBSET DOMAIN link : Closed(link, null, S) /\ (first # null => first \in S)}
    IN  {n \in DOMAIN link : \A S \in kept : n \in S}
=============================================================================
