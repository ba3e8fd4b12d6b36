----------------------------- MODULE MCPrinting -----------------------------
(***************************************************************************)
(* Three tasks on the two items of one pool, and an item of another; one   *)
(* of the strings is empty.                                                *)
(***************************************************************************)
EXTENDS Printing, TLC

CONSTANTS t1, t2, t3, p, q, i1, i2, i3

Strings == (t1 :> 0) @@ (t2 :> 1) @@ (t3 :> 2)
Heaps == (i1 :> p) @@ (i2 :> p) @@ (i3 :> q)
OnePool == [t \in {t1, t2, t3} |-> p]
=============================================================================
