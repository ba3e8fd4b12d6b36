---------------------------- MODULE FileDelivery ----------------------------
(***************************************************************************)
(* What a file transfer promises whoever uses the receiving side: a file   *)
(* is announced, its parts are stored one after the other from the first,  *)
(* each of that very file, and it is marked complete exactly when its last *)
(* part is stored. Nothing is promised about how far a transfer gets.      *)
(***************************************************************************)
EXTENDS Integers, Sequences

CONSTANTS Files    \* Files[f] = number of parts of file f

VARIABLES file, stored, complete

vars == <<file, stored, complete>>

Init == file = 0 /\ stored = <<>> /\ complete = FALSE

Announce(f) ==
    /\ file' = f
    /\ stored' = <<>>
    /\ complete' = FALSE

Store ==
    LET part == Len(stored) + 1
    IN  /\ file # 0
        /\ part <= Files[file]
        /\ stored' = Append(stored, [file |-> file, part |-> part])
        /\ complete' = (part = Files[file])
        /\ file' = file

Next == Store \/ \E f \in 1..Len(Files) : Announce(f)

Spec == Init /\ [][Next]_vars
=============================================================================
