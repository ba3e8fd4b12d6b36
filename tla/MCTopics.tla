------------------------------ MODULE MCTopics ------------------------------
(***************************************************************************)
(* Topics with two names that begin alike, and in the text table one that  *)
(* begins the other. The prefix and a word also begin like a name.         *)
(***************************************************************************)
EXTENDS Topics

Bytes == 0..13 \cup {32}
Table == [text \in BOOLEAN |-> IF text THEN <<<<10>>, <<10, 11>>>> ELSE <<<<10, 11>>, <<10, 12>>>>]
Messages == [text \in BOOLEAN |->
    IF text
    THEN {[id |-> 1, args |-> <<>>], [id |-> 2, args |-> <<<<7>>, <<8>>>>], [id |-> 1, args |-> <<<<5, 10, 7, 8, 9>>>>]}
    ELSE {[id |-> 1, args |-> <<>>], [id |-> 2, args |-> <<<<7>>>>], [id |-> 1, args |-> <<<<7>>, <<8, 9>>>>]}]
SigPrefix == <<10>>
MostMessages == [text \in BOOLEAN |-> IF text THEN 2 ELSE 4]

ASSUME NamesApart
=============================================================================
