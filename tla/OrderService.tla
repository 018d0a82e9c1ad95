---------------------------- MODULE OrderService ----------------------------
(***************************************************************************)
(* CreateOrder of the order service, for every call it serves at once: the *)
(* validation of the request, the three lookups of resolve running in      *)
(* parallel under an errgroup, the order built from the catalog, and the   *)
(* transaction that inserts the order, its items and its outbox event on a *)
(* connection of the pool.                                                 *)
(*                                                                         *)
(* The user and product services answer, fail, or see their context        *)
(* cancelled; the caller may go away at any time; Postgres may fail a      *)
(* statement, or apply a commit whose acknowledgement is lost.             *)
(***************************************************************************)
EXTENDS Integers, Sequences, FiniteSets, Functions

CONSTANTS
    Calls,       \* CreateOrder calls
    Requests,    \* items a caller may ask for: sequences of Items
    Ids,         \* product identifiers as a caller may write them
    Canonical,   \* Canonical[id]: how Postgres writes the same uuid
    Price,       \* Price[id]: price of a product of the catalog
    Half,        \* int64 holds -Half .. Half - 1
    PoolSize     \* connections of the Postgres pool

Items == [id : Ids, quantity : Int]

ASSUME RequestsAssumption  == Requests \subseteq Seq(Items)
ASSUME CanonicalAssumption == /\ Canonical \in [Ids -> Ids]
                              /\ \A id \in Ids : Canonical[Canonical[id]] = Canonical[id]
ASSUME PriceAssumption     == /\ DOMAIN Price \subseteq {Canonical[id] : id \in Ids}
                              /\ \A id \in DOMAIN Price : Price[id] \in Nat
ASSUME SizesAssumption     == Half \in Nat \ {0} /\ PoolSize \in Nat \ {0}

VARIABLES
    request,   \* request[c]: the items asked for
    stage,     \* stage[c]: where the call stands
    gone,      \* gone[c]: its caller has gone, its context is done
    lookup,    \* lookup[c][d]: state of the call to dependency d, while resolve runs
    failure,   \* failure[c]: the error the errgroup of resolve holds
    total,     \* total[c]: TotalAmount of the order built
    tx,        \* tx[c]: tables its open transaction has inserted into
    rows,      \* rows[t]: calls whose order has its rows committed in t
    answer     \* answer[c]: what the caller is told

call  == <<request, stage, gone, lookup, failure, total, tx, answer>>
ovars == <<call, rows>>

Dependencies == {"user", "address", "products"}
Tables       == {"orders", "order_items", "outbox_events"}
TxStages     == {"order", "items", "event", "commit"}
Stages       == {"none", "resolve", "begin", "ended"} \cup TxStages

None    == "none"
Errors  == {"INVALID_ARGUMENT", "NOT_FOUND", "CANCELED", "UNAVAILABLE", "INTERNAL"}
Answers == {None, "OK", "LOST"} \cup Errors
Lookups == {"idle", "pending", "ok", "failed"}

(* A total is a number whatever the request; no other variable depends on  *)
(* which, except that a negative one is refused.                           *)
OrderTypeOK ==
    /\ request \in [Calls -> Requests \cup {<<>>}]
    /\ stage   \in [Calls -> Stages]
    /\ gone    \in [Calls -> BOOLEAN]
    /\ lookup  \in [Calls -> [Dependencies -> Lookups]]
    /\ failure \in [Calls -> Errors \cup {None}]
    /\ DOMAIN total = Calls
    /\ tx      \in [Calls -> SUBSET Tables]
    /\ rows    \in [Tables -> SUBSET Calls]
    /\ answer  \in [Calls -> Answers]

OrderInit ==
    /\ request = [c \in Calls |-> <<>>]
    /\ stage   = [c \in Calls |-> "none"]
    /\ gone    = [c \in Calls |-> FALSE]
    /\ lookup  = [c \in Calls |-> [d \in Dependencies |-> "idle"]]
    /\ failure = [c \in Calls |-> None]
    /\ total   = [c \in Calls |-> 0]
    /\ tx      = [c \in Calls |-> {}]
    /\ rows    = [t \in Tables |-> {}]
    /\ answer  = [c \in Calls |-> None]

Advance(c, s) == stage' = [stage EXCEPT ![c] = s]

(* The call is over; an open transaction is closed and its connection goes *)
(* back to the pool (the deferred Rollback of WithinTx).                   *)
End(c, result) ==
    /\ Advance(c, "ended")
    /\ answer' = [answer EXCEPT ![c] = result]
    /\ tx' = [tx EXCEPT ![c] = {}]

-----------------------------------------------------------------------------
(* The validation interceptor, and the start of resolve.                   *)

Valid(items) == items # <<>> /\ \A i \in DOMAIN items : items[i].quantity > 0

Validated(c, items, valid) ==
    /\ stage[c] = "none"
    /\ request' = [request EXCEPT ![c] = items]
    /\ \/ /\ valid
          /\ Advance(c, "resolve")
          /\ lookup' = [lookup EXCEPT ![c] = [d \in Dependencies |-> "pending"]]
          /\ UNCHANGED <<answer, tx>>
       \/ /\ ~valid
          /\ End(c, "INVALID_ARGUMENT")
          /\ UNCHANGED lookup
    /\ UNCHANGED <<gone, failure, total, rows>>

(* The identifiers of the user and the address may be no uuids.            *)
Receive(c, items) == \E uuids \in BOOLEAN : Validated(c, items, uuids /\ Valid(items))

(* The caller disconnects or its deadline passes.                          *)
CallerGone(c) ==
    /\ stage[c] \notin {"none", "ended"} /\ ~gone[c]
    /\ gone' = [gone EXCEPT ![c] = TRUE]
    /\ UNCHANGED <<request, stage, lookup, failure, total, tx, answer, rows>>

(* GetProducts refuses a list in which an id occurs twice.                 *)
Distinct(items) == IsInjective([i \in DOMAIN items |-> items[i].id])

(* What a lookup may come back with; UNAVAILABLE stands for every failure  *)
(* of a service.  The context of the lookup is done when the caller has    *)
(* gone or another lookup has failed, and CANCELED (or DEADLINE_EXCEEDED)  *)
(* is then an outcome, whoever notices first.                              *)
Outcomes(c, d) ==
    {"UNAVAILABLE", IF d = "products" /\ ~Distinct(request[c]) THEN "INVALID_ARGUMENT" ELSE "ok"}
        \cup (IF d = "products" THEN {} ELSE {"NOT_FOUND"})

Cancelled(c) == gone[c] \/ failure[c] # None

Lookup(c, d, outcome) ==
    /\ stage[c] = "resolve" /\ lookup[c][d] = "pending"
    /\ outcome \in Outcomes(c, d) \cup (IF Cancelled(c) THEN {"CANCELED"} ELSE {})
    /\ lookup' = [lookup EXCEPT ![c][d] = IF outcome = "ok" THEN "ok" ELSE "failed"]
    /\ UNCHANGED <<request, stage, gone, total, tx, answer, rows>>

(* Mutant: the error of the lookup that comes back last is kept.           *)
Answered_LastError(c, d, outcome) ==
    /\ Lookup(c, d, outcome)
    /\ failure' = IF outcome # "ok" THEN [failure EXCEPT ![c] = outcome] ELSE failure

(* A lookup of resolve returns: the errgroup keeps the first error and     *)
(* cancels the other lookups with it.                                      *)
Answered(c, d, outcome) ==
    /\ Lookup(c, d, outcome)
    /\ failure' = IF outcome # "ok" /\ failure[c] = None
                  THEN [failure EXCEPT ![c] = outcome]
                  ELSE failure

Answer(c, d) == \E outcome \in {"ok"} \cup Errors : Answered(c, d, outcome)

-----------------------------------------------------------------------------
(* The order.                                                              *)

(* GetProducts returns the rows of the catalog, whose ids are canonical;   *)
(* CreateOrder looks every id of the request up in them as it was written. *)
Catalog(items) == {Canonical[items[i].id] : i \in DOMAIN items} \cap DOMAIN Price
AllFound(items) == \A i \in DOMAIN items : items[i].id \in Catalog(items)

(* int64 arithmetic.  Subtotal and NewOrder wrap at every operation, which *)
(* comes to the same as wrapping the sum once.                             *)
Wrap(n) == ((n + Half) % (2 * Half)) - Half
Sum(items) ==
    SumFunctionOnSet([i \in DOMAIN items |-> Price[Canonical[items[i].id]] * items[i].quantity],
                     DOMAIN items)
TotalAmount(items) == Wrap(Sum(items))

(* The results of the lookups that have ended go with the errgroup.        *)
Forget(c) ==
    /\ lookup' = [lookup EXCEPT ![c] =
           [d \in Dependencies |-> IF lookup[c][d] = "pending" THEN "pending" ELSE "idle"]]
    /\ failure' = [failure EXCEPT ![c] = None]

(* Mutant: resolve returns with the first error, the others still running. *)
Resolved_AtFirstError(c) ==
    /\ stage[c] = "resolve"
    /\ \/ failure[c] # None /\ End(c, failure[c]) /\ UNCHANGED total
       \/ /\ \A d \in Dependencies : lookup[c][d] = "ok"
          /\ AllFound(request[c])
          /\ total' = [total EXCEPT ![c] = TotalAmount(request[c])]
          /\ Advance(c, "begin")
          /\ UNCHANGED <<answer, tx>>
    /\ Forget(c)
    /\ UNCHANGED <<request, gone, rows>>

(* Wait returns once all lookups have; then the order is built.            *)
Resolved(c) ==
    /\ stage[c] = "resolve"
    /\ \A d \in Dependencies : lookup[c][d] # "pending"
    /\ \/ failure[c] # None /\ End(c, failure[c]) /\ UNCHANGED total
       \/ /\ failure[c] = None /\ ~AllFound(request[c])
          /\ End(c, "NOT_FOUND") /\ UNCHANGED total
       \/ /\ failure[c] = None /\ AllFound(request[c])
          /\ total' = [total EXCEPT ![c] = TotalAmount(request[c])]
          /\ Advance(c, "begin")
          /\ UNCHANGED <<answer, tx>>
    /\ Forget(c)
    /\ UNCHANGED <<request, gone, rows>>

-----------------------------------------------------------------------------
(* The transaction.                                                        *)

Connections == {c \in Calls : stage[c] \in TxStages}

(* WithinTx: Begin takes a connection of the pool, or waits for one.       *)
Begin(c) ==
    /\ stage[c] = "begin"
    /\ Cardinality(Connections) < PoolSize
    /\ Advance(c, "order")
    /\ UNCHANGED <<request, gone, lookup, failure, total, tx, answer, rows>>

Insert(c, t, s) ==
    /\ tx' = [tx EXCEPT ![c] = @ \cup {t}]
    /\ Advance(c, s)
    /\ UNCHANGED <<request, gone, lookup, failure, total, answer, rows>>

(* insertOrder; a CHECK of orders refuses a negative amount.               *)
InsertOrder(c) == stage[c] = "order" /\ total[c] >= 0 /\ Insert(c, "orders", "items")

RefuseOrder(c) ==
    /\ stage[c] = "order" /\ total[c] < 0
    /\ End(c, "INVALID_ARGUMENT")
    /\ UNCHANGED <<request, gone, lookup, failure, total, rows>>

InsertItems(c) == stage[c] = "items" /\ Insert(c, "order_items", "event")

(* Mutant: the repository uses the pool, not the transaction of ctx.       *)
SaveEvent_OutsideTx(c) ==
    /\ stage[c] = "event"
    /\ Cardinality(Connections) < PoolSize
    /\ rows' = [rows EXCEPT !["outbox_events"] = @ \cup {c}]
    /\ Advance(c, "commit")
    /\ UNCHANGED <<request, gone, lookup, failure, total, tx, answer>>

(* OutboxRepo.Save, on the connection of the transaction.                  *)
SaveEvent(c) == stage[c] = "event" /\ Insert(c, "outbox_events", "commit")

Apply(c) == rows' = [t \in Tables |-> IF t \in tx[c] THEN rows[t] \cup {c} ELSE rows[t]]

Commit(c) ==
    /\ stage[c] = "commit"
    /\ Apply(c) /\ End(c, "OK")
    /\ UNCHANGED <<request, gone, lookup, failure, total>>

(* The commit takes effect and WithinTx does not learn of it.              *)
CommitUnacknowledged(c) ==
    /\ stage[c] = "commit"
    /\ \E err \in {"INTERNAL", "UNAVAILABLE"} \cup (IF gone[c] THEN {"CANCELED"} ELSE {}) :
           End(c, err)
    /\ Apply(c)
    /\ UNCHANGED <<request, gone, lookup, failure, total>>

(* Mutant: what the deferred call ends is committed, not rolled back.      *)
TxFails_Committed(c) ==
    /\ stage[c] \in {"begin"} \cup TxStages
    /\ \E err \in {"INTERNAL", "UNAVAILABLE"} : End(c, err)
    /\ Apply(c)
    /\ UNCHANGED <<request, gone, lookup, failure, total>>

(* Begin, a statement or the commit fails: everything is rolled back.      *)
TxFails(c) ==
    /\ stage[c] \in {"begin"} \cup TxStages
    /\ \E err \in {"INTERNAL", "UNAVAILABLE"} \cup (IF gone[c] THEN {"CANCELED"} ELSE {}) :
           End(c, err)
    /\ UNCHANGED <<request, gone, lookup, failure, total, rows>>

(* The process dies: its open transactions are rolled back, no call gets   *)
(* an answer, and the lookups in flight die with it.                       *)
Crash ==
    /\ \E c \in Calls : stage[c] \notin {"none", "ended"}
    /\ LET live == {c \in Calls : stage[c] \notin {"none", "ended"}} IN
          /\ stage'  = [c \in Calls |-> IF c \in live THEN "ended" ELSE stage[c]]
          /\ answer' = [c \in Calls |-> IF c \in live THEN "LOST" ELSE answer[c]]
          /\ tx'     = [c \in Calls |-> {}]
          /\ lookup' = [c \in Calls |-> IF c \in live THEN [d \in Dependencies |-> "idle"]
                                        ELSE lookup[c]]
    /\ UNCHANGED <<request, gone, failure, total, rows>>

TxStep(c) ==
    \/ InsertOrder(c)
    \/ RefuseOrder(c)
    \/ InsertItems(c)
    \/ SaveEvent(c)
    \/ Commit(c)

OrderNext ==
    \/ \E c \in Calls :
          \/ \E items \in Requests : Receive(c, items)
          \/ CallerGone(c)
          \/ \E d \in Dependencies : Answer(c, d)
          \/ Resolved(c)
          \/ Begin(c)
          \/ TxStep(c)
          \/ CommitUnacknowledged(c)
          \/ TxFails(c)
    \/ Crash

OrderSpec == OrderInit /\ [][OrderNext]_ovars

(* Fairness: the user and product services answer (the code sets no        *)
(* deadline of its own), the goroutines run, Postgres executes statements, *)
(* and a call that waits for a connection gets one that is free again and  *)
(* again, because pgxpool serves waiters in turn.                          *)
OrderFairness ==
    \A c \in Calls :
        /\ \A d \in Dependencies : WF_ovars(Answer(c, d))
        /\ WF_ovars(Resolved(c))
        /\ SF_ovars(Begin(c))
        /\ WF_ovars(TxStep(c))

FairOrderSpec == OrderSpec /\ OrderFairness

-----------------------------------------------------------------------------
(* Safety.                                                                 *)

(* An order is committed with its items and its event or not at all, so no *)
(* order goes unannounced and no event speaks of an order that is not      *)
(* there, whichever statement fails and whenever the process dies.         *)
StoredTogether == \A t \in Tables : rows[t] = rows["orders"]

(* An order whose creation was confirmed to the caller is stored.          *)
ConfirmedIsStored == \A c \in Calls : answer[c] = "OK" => \A t \in Tables : c \in rows[t]

(* A request that was refused (a 4xx of the gateway other than 499) has    *)
(* left no order behind; only an answer that leaves the outcome open may   *)
(* hide a stored one.                                                      *)
RefusedIsNotStored ==
    \A c \in Calls : answer[c] \in {"INVALID_ARGUMENT", "NOT_FOUND"} =>
        \A t \in Tables : c \notin rows[t]

(* The cancellation that the first failed lookup spreads to the others     *)
(* never becomes the answer: a caller that waits is told the error of a    *)
(* dependency, not CANCELED (resolve: the first error is returned).        *)
CanceledOnlyIfGone == \A c \in Calls : answer[c] = "CANCELED" => gone[c]

(* A call that has ended has left no lookup running.                       *)
NoLookupOutlives ==
    \A c \in Calls : stage[c] # "resolve" => \A d \in Dependencies : lookup[c][d] # "pending"

(* What the e2e specification says of a created order: its amount is the   *)
(* sum of unit price times quantity.                                       *)
TotalIsSum == \A c \in Calls : c \in rows["orders"] => total[c] = Sum(request[c])

(* What does hold of every stored order, however large the quantities: its *)
(* amount is never negative, and it is the sum unless no int64 is.         *)
AmountExactIfFits ==
    \A c \in Calls : c \in rows["orders"] =>
        /\ total[c] \in 0 .. Half - 1
        /\ Sum(request[c]) < Half => total[c] = Sum(request[c])

(* Every call ends, although it may have to wait for a connection that     *)
(* other calls hold.                                                       *)
CallsEnd == \A c \in Calls : stage[c] # "none" ~> stage[c] = "ended"

-----------------------------------------------------------------------------
(* The inductive invariant.                                                *)

(* What an open transaction has inserted follows from how far it is.       *)
TxMatchesStage ==
    \A c \in Calls :
        /\ "orders" \in tx[c]        <=> stage[c] \in {"items", "event", "commit"}
        /\ "order_items" \in tx[c]   <=> stage[c] \in {"event", "commit"}
        /\ "outbox_events" \in tx[c] <=> stage[c] = "commit"

(* Only a call that has ended has rows, or an answer.                      *)
OpenIsNotStored ==
    \A c \in Calls : stage[c] # "ended" => answer[c] = None /\ \A t \in Tables : c \notin rows[t]

(* The error the errgroup holds is a CANCELED only when the caller left.   *)
FirstErrorIsReal == \A c \in Calls : failure[c] = "CANCELED" => gone[c]

(* From its validation on a call has a valid request.                      *)
RequestsValid ==
    \A c \in Calls : stage[c] \notin {"none", "ended"} =>
        request[c] \in Requests /\ Valid(request[c])

(* An order that is built has the amount int64 makes of its request, and   *)
(* past insertOrder one that is not negative.                              *)
Billed(c) == Sum(request[c]) \in Nat /\ total[c] = TotalAmount(request[c])
OrdersBilled ==
    \A c \in Calls :
        /\ stage[c] \in {"begin"} \cup TxStages => Billed(c)
        /\ "orders" \in tx[c] => total[c] >= 0
        /\ c \in rows["orders"] => Billed(c) /\ total[c] >= 0

OrderInv ==
    /\ OrderTypeOK
    /\ TxMatchesStage
    /\ OpenIsNotStored
    /\ FirstErrorIsReal
    /\ StoredTogether
    /\ ConfirmedIsStored
    /\ RefusedIsNotStored
    /\ CanceledOnlyIfGone
    /\ NoLookupOutlives
    /\ RequestsValid
    /\ OrdersBilled
    /\ AmountExactIfFits
=============================================================================
