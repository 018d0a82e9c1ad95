--------------------------- MODULE MCOrderService ---------------------------
(* Small instances of OrderService for TLC.                                *)
EXTENDS OrderService, TLC

CONSTANTS bread, milk, BREAD

(* BREAD is bread in upper case, milk is not in the catalog of some runs.  *)
Letters == [id \in Ids |-> IF id = BREAD THEN bread ELSE id]
OneProduct  == [id \in {bread} |-> 1]
TwoProducts == (bread :> 3) @@ (milk :> 4)

Item(id, n) == [id |-> id, quantity |-> n]

(* A plain request, and one whose amount int64 turns negative              *)
(* (MCRequestPath has others).                                             *)
PlainOrNegative == {<<Item(bread, 1)>>, <<Item(bread, Half)>>}
Quantities == {<<Item(bread, n), Item(milk, k)>> : n \in 1 .. 3, k \in 1 .. 3}
=============================================================================
