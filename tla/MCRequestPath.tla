---------------------------- MODULE MCRequestPath ----------------------------
(* Small instances of RequestPath for TLC.                                 *)
EXTENDS RequestPath, TLC

CONSTANTS bread, milk, BREAD, salt

(* BREAD is bread in upper case; salt is not in the catalog.               *)
Letters == [id \in Ids |-> IF id = BREAD THEN bread ELSE id]
Catalogue == (bread :> 1) @@ (milk :> 1)

Item(id, n) == [id |-> id, quantity |-> n]
OneBread    == <<Item(bread, 1)>>

Order(user, address, items) == [json |-> TRUE, user |-> user, address |-> address, items |-> items]

(* A plain request and one for each thing that may be wrong with it.       *)
AnyRequest ==
    {Order("", "home", OneBread),                       Order("bob", "away", OneBread),
     Order("none", "home", OneBread),                   Order("ada", "none", OneBread),
     Order("ada", "home", <<>>),                        Order("ada", "home", <<Item(bread, 0)>>),
     Order("ada", "home", <<Item("none", 1)>>),         Order("ada", "home", <<Item(BREAD, 1)>>),
     Order("ada", "home", <<Item(salt, 1)>>),           Order("ada", "home", <<Item(bread, Half)>>),
     Order("ada", "home", <<Item(bread, 1), Item(bread, 1)>>),
     Order("ada", "home", <<Item(bread, 1), Item(milk, 1)>>),
     [Order("ada", "home", OneBread) EXCEPT !.json = FALSE]}

(* The items that reach the order service.                                 *)
AnyItems == {r.items : r \in AnyRequest} \ {<<Item("none", 1)>>}
=============================================================================
