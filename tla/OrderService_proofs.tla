------------------------ MODULE OrderService_proofs ------------------------
(***************************************************************************)
(* Proofs about OrderService for every set of calls, requests, catalog,    *)
(* integer width and pool size: OrderInv is inductive, and the atomicity   *)
(* of an order with its event, the meaning of the answers and the end of   *)
(* the lookups follow from it.                                             *)
(***************************************************************************)
EXTENDS OrderService, SumTheorems

(* The steps of OrderNext, one disjunct each.                              *)
LEMMA OrderCases ==
    ASSUME [OrderNext]_ovars
    PROVE  \/ \E c \in Calls : \E items \in Requests : Receive(c, items)
           \/ \E c \in Calls : CallerGone(c)
           \/ \E c \in Calls : \E d \in Dependencies : Answer(c, d)
           \/ \E c \in Calls : Resolved(c)
           \/ \E c \in Calls : Begin(c)
           \/ \E c \in Calls : InsertOrder(c)
           \/ \E c \in Calls : RefuseOrder(c)
           \/ \E c \in Calls : InsertItems(c)
           \/ \E c \in Calls : SaveEvent(c)
           \/ \E c \in Calls : Commit(c)
           \/ \E c \in Calls : CommitUnacknowledged(c)
           \/ \E c \in Calls : TxFails(c)
           \/ Crash
           \/ UNCHANGED ovars
  BY DEF OrderNext, TxStep

LEMMA OrderInvInit == OrderInit => OrderInv
<1> SUFFICES ASSUME OrderInit PROVE OrderInv
  OBVIOUS
<1>1. OrderTypeOK
  BY DEF OrderInit, OrderTypeOK, Stages, Lookups, Answers
<1>2. TxMatchesStage /\ OpenIsNotStored /\ FirstErrorIsReal
  BY DEF OrderInit, TxMatchesStage, OpenIsNotStored, FirstErrorIsReal, None
<1>3. StoredTogether /\ ConfirmedIsStored /\ RefusedIsNotStored
  BY DEF OrderInit, StoredTogether, ConfirmedIsStored, RefusedIsNotStored, None, Tables
<1>4. CanceledOnlyIfGone /\ NoLookupOutlives
  BY DEF OrderInit, CanceledOnlyIfGone, NoLookupOutlives, None
<1>5. RequestsValid /\ OrdersBilled /\ AmountExactIfFits
  BY DEF OrderInit, RequestsValid, OrdersBilled, AmountExactIfFits, TxStages, Tables
<1>6. QED
  BY <1>1, <1>2, <1>3, <1>4, <1>5 DEF OrderInv

-----------------------------------------------------------------------------
(* A call that ends, by Commit or otherwise: what End and Apply do.        *)

(* Ending a call with any answer keeps the types.                          *)
LEMMA EndTypes ==
    ASSUME OrderTypeOK, NEW c \in Calls, NEW r \in Answers, End(c, r)
    PROVE  /\ stage' \in [Calls -> Stages]
           /\ answer' \in [Calls -> Answers]
           /\ tx' \in [Calls -> SUBSET Tables]
  BY DEF OrderTypeOK, End, Advance, Stages

(* What a lookup may come back with.                                       *)
LEMMA OutcomeTypes ==
    ASSUME NEW c \in Calls, NEW d \in Dependencies, NEW outcome, Lookup(c, d, outcome)
    PROVE  outcome = "ok" \/ outcome \in Errors
  BY DEF Lookup, Outcomes, Errors

(* The rows of a call in the commit stage enter all tables together.       *)
LEMMA ApplyAll ==
    ASSUME OrderTypeOK, TxMatchesStage, NEW c \in Calls, stage[c] = "commit", Apply(c)
    PROVE  rows' = [t \in Tables |-> rows[t] \cup {c}]
<1>1. \A t \in Tables : t \in tx[c]
  BY DEF TxMatchesStage, Tables
<1>2. QED
  BY <1>1 DEF Apply

-----------------------------------------------------------------------------
LEMMA OrderTypeStep ==
    OrderTypeOK /\ TxMatchesStage /\ [OrderNext]_ovars => OrderTypeOK'
<1> SUFFICES ASSUME OrderTypeOK, TxMatchesStage, [OrderNext]_ovars PROVE OrderTypeOK'
  OBVIOUS
<1> USE DEF OrderTypeOK
<1>1. ASSUME NEW c \in Calls, NEW items \in Requests, Receive(c, items) PROVE OrderTypeOK'
  <2>1. request' \in [Calls -> Requests \cup {<<>>}]
    BY <1>1 DEF Receive, Validated
  <2>2. CASE End(c, "INVALID_ARGUMENT") /\ UNCHANGED lookup
    BY <1>1, <2>1, <2>2, EndTypes DEF Receive, Validated, Answers, Errors
  <2>3. CASE /\ Advance(c, "resolve")
             /\ lookup' = [lookup EXCEPT ![c] = [d \in Dependencies |-> "pending"]]
             /\ UNCHANGED <<answer, tx>>
    <3>1. stage' \in [Calls -> Stages]
      BY <2>3 DEF Advance, Stages
    <3>2. lookup' \in [Calls -> [Dependencies -> Lookups]]
      BY <2>3 DEF Lookups
    <3>3. QED
      BY <1>1, <2>1, <2>3, <3>1, <3>2 DEF Receive, Validated
  <2>4. QED
    BY <1>1, <2>2, <2>3 DEF Receive, Validated
<1>2. ASSUME NEW c \in Calls, CallerGone(c) PROVE OrderTypeOK'
  BY <1>2 DEF CallerGone
<1>3. ASSUME NEW c \in Calls, NEW d \in Dependencies, Answer(c, d) PROVE OrderTypeOK'
  <2>1. PICK outcome \in {"ok"} \cup Errors :
             /\ Lookup(c, d, outcome)
             /\ failure' = IF outcome # "ok" /\ failure[c] = None
                           THEN [failure EXCEPT ![c] = outcome] ELSE failure
    BY <1>3 DEF Answer, Answered
  <2>2. failure' \in [Calls -> Errors \cup {None}]
    BY <2>1, OutcomeTypes
  <2>3. lookup' \in [Calls -> [Dependencies -> Lookups]]
    BY <2>1 DEF Lookup, Lookups
  <2>4. QED
    BY <2>1, <2>2, <2>3 DEF Lookup
<1>4. ASSUME NEW c \in Calls, Resolved(c) PROVE OrderTypeOK'
  <2>1. /\ lookup' \in [Calls -> [Dependencies -> Lookups]]
        /\ failure' \in [Calls -> Errors \cup {None}]
    BY <1>4 DEF Resolved, Forget, Lookups
  <2>2. CASE Advance(c, "begin") /\ UNCHANGED <<answer, tx>>
    <3>1. stage' \in [Calls -> Stages]
      BY <2>2 DEF Advance, Stages
    <3>2. QED
      BY <1>4, <2>1, <2>2, <3>1 DEF Resolved
  <2>3. ASSUME NEW r \in Answers, End(c, r) PROVE OrderTypeOK'
    BY <1>4, <2>1, <2>3, EndTypes DEF Resolved
  <2>4. failure[c] \in Answers /\ "NOT_FOUND" \in Answers
    BY DEF Answers, Errors
  <2>5. QED
    BY <1>4, <2>2, <2>3, <2>4 DEF Resolved
<1>5. ASSUME NEW c \in Calls, NEW s \in TxStages, Advance(c, s) PROVE stage' \in [Calls -> Stages]
  BY <1>5 DEF Advance, Stages
<1>6. ASSUME NEW c \in Calls, Begin(c) PROVE OrderTypeOK'
  BY <1>5, <1>6 DEF Begin, TxStages
<1>7. ASSUME NEW c \in Calls, InsertOrder(c) \/ InsertItems(c) \/ SaveEvent(c) PROVE OrderTypeOK'
  <2>1. PICK t \in Tables, s \in TxStages : Insert(c, t, s)
    BY <1>7 DEF InsertOrder, InsertItems, SaveEvent, Tables, TxStages
  <2>2. tx' \in [Calls -> SUBSET Tables]
    BY <2>1 DEF Insert
  <2>3. QED
    BY <1>5, <2>1, <2>2 DEF Insert
<1>8. ASSUME NEW c \in Calls, RefuseOrder(c) PROVE OrderTypeOK'
  BY <1>8, EndTypes DEF RefuseOrder, Answers, Errors
<1>9. ASSUME NEW c \in Calls, Commit(c) \/ CommitUnacknowledged(c) PROVE OrderTypeOK'
  <2>1. PICK r \in Answers : End(c, r)
    BY <1>9 DEF Commit, CommitUnacknowledged, Answers, Errors
  <2>2. rows' \in [Tables -> SUBSET Calls]
    BY <1>9, ApplyAll DEF Commit, CommitUnacknowledged
  <2>3. QED
    BY <1>9, <2>1, <2>2, EndTypes DEF Commit, CommitUnacknowledged
<1>10. ASSUME NEW c \in Calls, TxFails(c) PROVE OrderTypeOK'
  <2>1. PICK r \in Answers : End(c, r)
    BY <1>10 DEF TxFails, Answers, Errors
  <2>2. QED
    BY <1>10, <2>1, EndTypes DEF TxFails
<1>11. ASSUME Crash PROVE OrderTypeOK'
  <2>1. stage' \in [Calls -> Stages]
    BY <1>11 DEF Crash, Stages
  <2>2. answer' \in [Calls -> Answers]
    BY <1>11 DEF Crash, Answers
  <2>3. tx' \in [Calls -> SUBSET Tables]
    BY <1>11 DEF Crash
  <2>4. lookup' \in [Calls -> [Dependencies -> Lookups]]
    BY <1>11 DEF Crash, Lookups
  <2>5. QED
    BY <1>11, <2>1, <2>2, <2>3, <2>4 DEF Crash
<1>12. CASE UNCHANGED ovars
  BY <1>12 DEF ovars, call
<1>13. QED
  BY <1>1, <1>2, <1>3, <1>4, <1>6, <1>7, <1>8, <1>9, <1>10, <1>11, <1>12, OrderCases

-----------------------------------------------------------------------------
(* What an open transaction has inserted, action by action.                *)

(* A call that ends has no transaction; the others keep theirs.            *)
LEMMA EndTx ==
    ASSUME OrderTypeOK, TxMatchesStage, NEW c \in Calls, NEW r, End(c, r)
    PROVE  TxMatchesStage'
  BY DEF OrderTypeOK, TxMatchesStage, End, Advance

LEMMA TxStageStep ==
    OrderTypeOK /\ TxMatchesStage /\ [OrderNext]_ovars => TxMatchesStage'
<1> SUFFICES ASSUME OrderTypeOK, TxMatchesStage, [OrderNext]_ovars PROVE TxMatchesStage'
  OBVIOUS
<1> USE DEF OrderTypeOK
<1>1. ASSUME NEW c \in Calls, NEW items \in Requests, Receive(c, items) PROVE TxMatchesStage'
  BY <1>1, EndTx DEF Receive, Validated, Advance, TxMatchesStage
<1>2. ASSUME NEW c \in Calls, CallerGone(c) PROVE TxMatchesStage'
  BY <1>2 DEF CallerGone, TxMatchesStage
<1>3. ASSUME NEW c \in Calls, NEW d \in Dependencies, Answer(c, d) PROVE TxMatchesStage'
  BY <1>3 DEF Answer, Answered, Lookup, TxMatchesStage
<1>4. ASSUME NEW c \in Calls, Resolved(c) PROVE TxMatchesStage'
  BY <1>4, EndTx DEF Resolved, Advance, TxMatchesStage
<1>5. ASSUME NEW c \in Calls, Begin(c) PROVE TxMatchesStage'
  BY <1>5 DEF Begin, Advance, TxMatchesStage
<1>6. ASSUME NEW c \in Calls, InsertOrder(c) PROVE TxMatchesStage'
  BY <1>6 DEF InsertOrder, Insert, Advance, TxMatchesStage
<1>7. ASSUME NEW c \in Calls, InsertItems(c) PROVE TxMatchesStage'
  BY <1>7 DEF InsertItems, Insert, Advance, TxMatchesStage
<1>8. ASSUME NEW c \in Calls, SaveEvent(c) PROVE TxMatchesStage'
  BY <1>8 DEF SaveEvent, Insert, Advance, TxMatchesStage
<1>9. ASSUME NEW c \in Calls,
             RefuseOrder(c) \/ Commit(c) \/ CommitUnacknowledged(c) \/ TxFails(c)
      PROVE  TxMatchesStage'
  BY <1>9, EndTx DEF RefuseOrder, Commit, CommitUnacknowledged, TxFails
<1>10. ASSUME Crash PROVE TxMatchesStage'
  BY <1>10 DEF Crash, Stages, TxStages, TxMatchesStage
<1>11. CASE UNCHANGED ovars
  BY <1>11 DEF ovars, call, TxMatchesStage
<1>12. QED
  BY <1>1, <1>2, <1>3, <1>4, <1>5, <1>6, <1>7, <1>8, <1>9, <1>10, <1>11, OrderCases

-----------------------------------------------------------------------------
(* The committed rows, and the answers they have to agree with.            *)

StoredInv ==
    /\ OpenIsNotStored
    /\ StoredTogether
    /\ ConfirmedIsStored
    /\ RefusedIsNotStored

(* A call that ends with no row inserted may be told any error.            *)
LEMMA EndUnstored ==
    ASSUME OrderTypeOK, StoredInv, NEW c \in Calls, stage[c] # "ended",
           NEW r, r # "OK", End(c, r), UNCHANGED rows
    PROVE  StoredInv'
<1> USE DEF OrderTypeOK, StoredInv, End, Advance
<1>1. \A t \in Tables : c \notin rows[t]
  BY DEF OpenIsNotStored
<1>2. OpenIsNotStored'
  BY DEF OpenIsNotStored
<1>3. StoredTogether' /\ ConfirmedIsStored' /\ RefusedIsNotStored'
  BY <1>1 DEF StoredTogether, ConfirmedIsStored, RefusedIsNotStored
<1>4. QED
  BY <1>2, <1>3

(* A call that commits is stored whole; it is told OK or that the outcome  *)
(* is open.                                                                *)
LEMMA EndStored ==
    ASSUME OrderTypeOK, TxMatchesStage, StoredInv, NEW c \in Calls, stage[c] = "commit",
           NEW r, r \notin {"INVALID_ARGUMENT", "NOT_FOUND"}, End(c, r), Apply(c)
    PROVE  StoredInv'
<1> USE DEF OrderTypeOK, StoredInv, End, Advance
<1>1. rows' = [t \in Tables |-> rows[t] \cup {c}]
  BY ApplyAll
<1>2. OpenIsNotStored'
  BY <1>1 DEF OpenIsNotStored
<1>3. StoredTogether'
  BY <1>1 DEF StoredTogether, Tables
<1>4. ConfirmedIsStored' /\ RefusedIsNotStored'
  BY <1>1 DEF ConfirmedIsStored, RefusedIsNotStored
<1>5. QED
  BY <1>2, <1>3, <1>4

(* A call that goes on, its answer and the rows as they were.              *)
LEMMA GoesOn ==
    ASSUME OrderTypeOK, StoredInv, UNCHANGED <<answer, rows>>,
           \A c \in Calls : stage[c] = "ended" => stage'[c] = "ended"
    PROVE  StoredInv'
  BY DEF StoredInv, OpenIsNotStored, StoredTogether, ConfirmedIsStored, RefusedIsNotStored

LEMMA StoredStep ==
    OrderTypeOK /\ TxMatchesStage /\ StoredInv /\ [OrderNext]_ovars => StoredInv'
<1> SUFFICES ASSUME OrderTypeOK, TxMatchesStage, StoredInv, [OrderNext]_ovars PROVE StoredInv'
  OBVIOUS
<1>1. ASSUME NEW c \in Calls, NEW items \in Requests, Receive(c, items) PROVE StoredInv'
  <2>1. CASE Advance(c, "resolve") /\ UNCHANGED answer
    BY <1>1, <2>1, GoesOn DEF Receive, Validated, Advance, OrderTypeOK
  <2>2. QED
    BY <1>1, <2>1, EndUnstored DEF Receive, Validated
<1>2. ASSUME NEW c \in Calls, CallerGone(c) PROVE StoredInv'
  BY <1>2, GoesOn DEF CallerGone
<1>3. ASSUME NEW c \in Calls, NEW d \in Dependencies, Answer(c, d) PROVE StoredInv'
  BY <1>3, GoesOn DEF Answer, Answered, Lookup
<1>4. ASSUME NEW c \in Calls, Resolved(c) PROVE StoredInv'
  <2>1. CASE Advance(c, "begin") /\ UNCHANGED answer
    BY <1>4, <2>1, GoesOn DEF Resolved, Advance, OrderTypeOK
  <2>2. CASE failure[c] # None /\ End(c, failure[c])
    <3>1. failure[c] # "OK"
      BY <2>2 DEF OrderTypeOK, Errors, None
    <3>2. QED
      BY <1>4, <2>2, <3>1, EndUnstored DEF Resolved
  <2>3. CASE End(c, "NOT_FOUND")
    BY <1>4, <2>3, EndUnstored DEF Resolved
  <2>4. QED
    BY <1>4, <2>1, <2>2, <2>3 DEF Resolved
<1>5. ASSUME NEW c \in Calls, Begin(c) \/ InsertOrder(c) \/ InsertItems(c) \/ SaveEvent(c)
      PROVE  StoredInv'
  BY <1>5, GoesOn DEF Begin, InsertOrder, InsertItems, SaveEvent, Insert, Advance, OrderTypeOK
<1>6. ASSUME NEW c \in Calls, RefuseOrder(c) PROVE StoredInv'
  BY <1>6, EndUnstored DEF RefuseOrder
<1>7. ASSUME NEW c \in Calls, Commit(c) PROVE StoredInv'
  BY <1>7, EndStored DEF Commit
<1>8. ASSUME NEW c \in Calls, CommitUnacknowledged(c) PROVE StoredInv'
  BY <1>8, EndStored DEF CommitUnacknowledged
<1>9. ASSUME NEW c \in Calls, TxFails(c) PROVE StoredInv'
  BY <1>9, EndUnstored DEF TxFails, TxStages
<1>10. ASSUME Crash PROVE StoredInv'
  <2> USE <1>10 DEF OrderTypeOK, Crash
  <2>1. OpenIsNotStored'
    BY DEF StoredInv, OpenIsNotStored
  <2>2. StoredTogether' /\ ConfirmedIsStored' /\ RefusedIsNotStored'
    BY DEF StoredInv, StoredTogether, ConfirmedIsStored, RefusedIsNotStored
  <2>3. QED
    BY <2>1, <2>2 DEF StoredInv
<1>11. CASE UNCHANGED ovars
  BY <1>11, GoesOn DEF ovars, call
<1>12. QED
  BY <1>1, <1>2, <1>3, <1>4, <1>5, <1>6, <1>7, <1>8, <1>9, <1>10, <1>11, OrderCases

-----------------------------------------------------------------------------
(* Cancellation: the error of the errgroup and the answer made of it.      *)

Honest == FirstErrorIsReal /\ CanceledOnlyIfGone

(* No caller comes back, and failure and answer become CANCELED only for a *)
(* caller that has gone.                                                   *)
LEMMA HonestFrame ==
    ASSUME OrderTypeOK, Honest, \A c \in Calls : gone[c] => gone'[c],
           \A c \in Calls : failure'[c] = "CANCELED" => failure[c] = "CANCELED" \/ gone[c],
           \A c \in Calls : answer'[c] = "CANCELED" => answer[c] = "CANCELED" \/ gone[c]
    PROVE  Honest'
  BY DEF Honest, FirstErrorIsReal, CanceledOnlyIfGone

LEMMA HonestStep == OrderTypeOK /\ Honest /\ [OrderNext]_ovars => Honest'
<1> SUFFICES ASSUME OrderTypeOK, Honest, [OrderNext]_ovars PROVE Honest'
  OBVIOUS
<1> USE DEF OrderTypeOK
<1>1. ASSUME NEW c \in Calls, NEW items \in Requests, Receive(c, items) PROVE Honest'
  BY <1>1, HonestFrame DEF Receive, Validated, End
<1>2. ASSUME NEW c \in Calls, CallerGone(c) PROVE Honest'
  BY <1>2, HonestFrame DEF CallerGone
<1>3. ASSUME NEW c \in Calls, NEW d \in Dependencies, Answer(c, d) PROVE Honest'
  <2>1. PICK outcome \in {"ok"} \cup Errors :
             /\ Lookup(c, d, outcome)
             /\ failure' = IF outcome # "ok" /\ failure[c] = None
                           THEN [failure EXCEPT ![c] = outcome] ELSE failure
    BY <1>3 DEF Answer, Answered
  <2>2. outcome = "CANCELED" => Cancelled(c)
    BY <2>1 DEF Lookup, Outcomes
  <2>3. failure'[c] = "CANCELED" => failure[c] = "CANCELED" \/ gone[c]
    BY <2>1, <2>2 DEF Cancelled
  <2>4. UNCHANGED <<gone, answer>> /\ \A b \in Calls \ {c} : failure'[b] = failure[b]
    BY <2>1 DEF Lookup
  <2>5. QED
    BY <2>3, <2>4, HonestFrame
<1>4. ASSUME NEW c \in Calls, Resolved(c) PROVE Honest'
  <2>1. failure[c] = "CANCELED" => gone[c]
    BY DEF Honest, FirstErrorIsReal
  <2>2. QED
    BY <1>4, <2>1, HonestFrame DEF Resolved, Forget, End, None
<1>5. ASSUME NEW c \in Calls, Begin(c) PROVE Honest'
  BY <1>5, HonestFrame DEF Begin
<1>6. ASSUME NEW c \in Calls, InsertOrder(c) \/ InsertItems(c) \/ SaveEvent(c) PROVE Honest'
  BY <1>6, HonestFrame DEF InsertOrder, InsertItems, SaveEvent, Insert
<1>7. ASSUME NEW c \in Calls, RefuseOrder(c) \/ Commit(c) PROVE Honest'
  BY <1>7, HonestFrame DEF RefuseOrder, Commit, End
<1>8. ASSUME NEW c \in Calls, CommitUnacknowledged(c) PROVE Honest'
  BY <1>8, HonestFrame DEF CommitUnacknowledged, End
<1>9. ASSUME NEW c \in Calls, TxFails(c) PROVE Honest'
  BY <1>9, HonestFrame DEF TxFails, End
<1>10. ASSUME Crash PROVE Honest'
  BY <1>10, HonestFrame DEF Crash
<1>11. CASE UNCHANGED ovars
  BY <1>11, HonestFrame DEF ovars, call
<1>12. QED
  BY <1>1, <1>2, <1>3, <1>4, <1>5, <1>6, <1>7, <1>8, <1>9, <1>10, <1>11, OrderCases

-----------------------------------------------------------------------------
(* The lookups end before the call leaves resolve.                         *)

LEMMA LookupStep == OrderTypeOK /\ NoLookupOutlives /\ [OrderNext]_ovars => NoLookupOutlives'
<1> SUFFICES ASSUME OrderTypeOK, NoLookupOutlives, [OrderNext]_ovars PROVE NoLookupOutlives'
  OBVIOUS
<1> USE DEF OrderTypeOK, NoLookupOutlives, Advance
<1>1. ASSUME NEW c \in Calls, NEW items \in Requests, Receive(c, items) PROVE NoLookupOutlives'
  BY <1>1 DEF Receive, Validated, End
<1>2. ASSUME NEW c \in Calls, CallerGone(c) PROVE NoLookupOutlives'
  BY <1>2 DEF CallerGone
<1>3. ASSUME NEW c \in Calls, NEW d \in Dependencies, Answer(c, d) PROVE NoLookupOutlives'
  BY <1>3 DEF Answer, Answered, Lookup
<1>4. ASSUME NEW c \in Calls, Resolved(c) PROVE NoLookupOutlives'
  BY <1>4 DEF Resolved, Forget, End
<1>5. ASSUME NEW c \in Calls, Begin(c) PROVE NoLookupOutlives'
  BY <1>5 DEF Begin
<1>6. ASSUME NEW c \in Calls, InsertOrder(c) \/ InsertItems(c) \/ SaveEvent(c)
      PROVE  NoLookupOutlives'
  BY <1>6 DEF InsertOrder, InsertItems, SaveEvent, Insert
<1>7. ASSUME NEW c \in Calls,
             RefuseOrder(c) \/ Commit(c) \/ CommitUnacknowledged(c) \/ TxFails(c)
      PROVE  NoLookupOutlives'
  BY <1>7 DEF RefuseOrder, Commit, CommitUnacknowledged, TxFails, TxStages, End
<1>8. ASSUME Crash PROVE NoLookupOutlives'
  BY <1>8 DEF Crash
<1>9. CASE UNCHANGED ovars
  BY <1>9 DEF ovars, call
<1>10. QED
  BY <1>1, <1>2, <1>3, <1>4, <1>5, <1>6, <1>7, <1>8, <1>9, OrderCases

-----------------------------------------------------------------------------
(* The amount of an order.                                                 *)

-----------------------------------------------------------------------------
(* The arithmetic of int64.                                                *)

(* Division with remainder, and what it leaves of a multiple.              *)
LEMMA Quotient ==
    ASSUME NEW m \in Nat, m > 0, NEW a \in Int
    PROVE  \E k \in Int : a = k * m + (a % m) /\ a % m \in 0 .. m - 1
<1>1. a \div m \in Int /\ a = m * (a \div m) + (a % m) /\ a % m \in 0 .. m - 1
  OBVIOUS
<1>2. PICK k \in Int : k = a \div m
  BY <1>1
<1>3. a = m * k + (a % m)
  BY <1>1, <1>2
<1>4. m * k = k * m
  OBVIOUS
<1>5. QED
  BY <1>1, <1>3, <1>4

LEMMA Multiple ==
    ASSUME NEW m \in Nat, NEW k \in Int, NEW r \in Int, r = k * m, r > - m, r < m
    PROVE  r = 0
<1>1. CASE k >= 1
  <2>1. (k - 1) * m >= 0
    BY <1>1
  <2>2. QED
    BY <2>1
<1>2. CASE k <= -1
  <2>1. (- k - 1) * m >= 0
    BY <1>2
  <2>2. QED
    BY <2>1
<1>3. QED
  BY <1>1, <1>2

LEMMA ModSame ==
    ASSUME NEW m \in Nat, m > 0, NEW a \in Int, NEW b \in Int, NEW k \in Int, b = a + k * m
    PROVE  b % m = a % m
<1>1. PICK p \in Int : a = p * m + (a % m) /\ a % m \in 0 .. m - 1
  BY Quotient
<1>2. PICK q \in Int : b = q * m + (b % m) /\ b % m \in 0 .. m - 1
  BY Quotient
<1>3. PICK r \in Int : r = (b % m) - (a % m)
  BY <1>1, <1>2
<1>4. r > - m /\ r < m
  BY <1>1, <1>2, <1>3
<1>5. r = (p + k - q) * m
  BY <1>1, <1>2, <1>3
<1>6. p + k - q \in Int
  OBVIOUS
<1>7. r = 0
  BY <1>4, <1>5, <1>6, Multiple
<1>8. QED
  BY <1>1, <1>2, <1>3, <1>7

(* Wrapping may wait until the end of a sum.                               *)
LEMMA WrapAdds ==
    ASSUME NEW a \in Int, NEW b \in Int
    PROVE  Wrap(Wrap(a) + Wrap(b)) = Wrap(a + b)
<1>1. PICK m \in Nat : m = 2 * Half /\ m > 0 /\ Half \in Nat
  BY SizesAssumption
<1>2. ASSUME NEW n \in Int PROVE \E k \in Int : Wrap(n) = n + k * m
  <2>1. PICK k \in Int : n + Half = k * m + ((n + Half) % m) /\ (n + Half) % m \in 0 .. m - 1
    BY <1>1, Quotient
  <2>2. Wrap(n) = n + (- k) * m
    BY <1>1, <2>1 DEF Wrap
  <2>3. QED
    BY <2>2
<1>3. PICK k \in Int : Wrap(a) = a + k * m
  BY <1>2
<1>4. PICK l \in Int : Wrap(b) = b + l * m
  BY <1>2
<1>5. k * m \in Int /\ l * m \in Int
  BY <1>1
<1>6. PICK c \in Int : c = Wrap(a)
  BY <1>3, <1>5
<1>7. PICK d \in Int : d = Wrap(b)
  BY <1>4, <1>5
<1>8. (c + d + Half) % m = (a + b + Half) % m
  <2>1. PICK x \in Int : x = a + b + Half
    BY <1>1
  <2>2. PICK y \in Int : y = c + d + Half
    BY <1>1
  <2>3. PICK turns \in Int : turns = k + l
    OBVIOUS
  <2>4. y = x + k * m + l * m
    BY <1>1, <1>3, <1>4, <1>5, <1>6, <1>7, <2>1, <2>2
  <2>5. turns * m = k * m + l * m
    BY <1>1, <2>3
  <2>6. y = x + turns * m
    BY <1>5, <2>4, <2>5
  <2>7. y % m = x % m
    BY <1>1, <2>6, ModSame
  <2>8. QED
    BY <2>1, <2>2, <2>7
<1>9. Wrap(c + d) = Wrap(a + b)
  BY <1>1, <1>8 DEF Wrap
<1>10. QED
  BY <1>6, <1>7, <1>9

(* What a wrapped number is: one that int64 holds, and the number itself   *)
(* if int64 holds it.                                                      *)
LEMMA WrapFits ==
    ASSUME NEW n \in Int
    PROVE  /\ Wrap(n) \in -Half .. Half - 1
           /\ n \in -Half .. Half - 1 => Wrap(n) = n
<1>1. Half \in Nat /\ Half > 0 /\ 2 * Half \in Nat /\ 2 * Half > 0 /\ n + Half \in Int
  BY SizesAssumption
<1>2. PICK b \in Nat : b = 2 * Half
  BY <1>1
<1>3. PICK a \in Int : a = n + Half
  BY <1>1
<1>4. a % b \in 0 .. b - 1 /\ (a \in 0 .. b - 1 => a % b = a)
  BY <1>1, <1>2
<1>5. Wrap(n) = (a % b) - Half
  BY <1>2, <1>3 DEF Wrap
<1>6. QED
  BY <1>1, <1>2, <1>3, <1>4, <1>5

(* A valid request for products of the catalog has a sum.                  *)
Subtotals(items) == [i \in DOMAIN items |-> Price[Canonical[items[i].id]] * items[i].quantity]

LEMMA SubtotalType ==
    ASSUME NEW items \in Requests, Valid(items), AllFound(items)
    PROVE  /\ Len(items) \in Nat /\ DOMAIN items = 1 .. Len(items) /\ IsFiniteSet(DOMAIN items)
           /\ \A i \in DOMAIN items : Subtotals(items)[i] \in Nat
<1>1. items \in Seq(Items)
  BY RequestsAssumption
<1>2. Len(items) \in Nat /\ DOMAIN items = 1 .. Len(items)
  BY <1>1
<1>3. IsFiniteSet(DOMAIN items)
  BY <1>2, FS_Interval
<1>4. ASSUME NEW i \in DOMAIN items PROVE Subtotals(items)[i] \in Nat
  <2>0. \A k \in DOMAIN items : items[k] \in Items
    BY <1>1, <1>2
  <2>1. items[i].quantity \in Nat
    BY <2>0 DEF Items, Valid
  <2>2. PICK j \in DOMAIN items :
             items[i].id = Canonical[items[j].id] /\ items[i].id \in DOMAIN Price
    BY DEF AllFound, Catalog
  <2>3. items[j].id \in Ids
    BY <2>0 DEF Items
  <2>4. Canonical[items[i].id] = items[i].id
    BY <2>2, <2>3, CanonicalAssumption
  <2>5. Price[Canonical[items[i].id]] \in Nat
    BY <2>2, <2>4, PriceAssumption
  <2>6. QED
    BY <2>1, <2>5 DEF Subtotals
<1>5. QED
  BY <1>2, <1>3, <1>4

LEMMA SumOfRequest ==
    ASSUME NEW items \in Requests, Valid(items), AllFound(items)
    PROVE  Sum(items) \in Nat
<1>1. SumFunctionOnSet(Subtotals(items), DOMAIN items) \in Nat
  BY SubtotalType, SumType
<1>2. QED
  BY <1>1 DEF Sum, Subtotals

(* The loop of NewOrder: amount[i] is the total after i items, with the    *)
(* product of Subtotal and the addition each wrapped to int64.             *)
Accumulates(items, amount) ==
    /\ amount[0] = 0
    /\ \A i \in DOMAIN items : amount[i] = Wrap(amount[i - 1] + Wrap(Subtotals(items)[i]))

(* NewOrder wraps at every operation and TotalAmount once, at the end: for *)
(* every request that reaches NewOrder the two agree, so the model's total *)
(* is the one of the code.                                                 *)
THEOREM WrapsOnce ==
    ASSUME NEW items \in Requests, Valid(items), AllFound(items),
           NEW amount, Accumulates(items, amount)
    PROVE  amount[Len(items)] = TotalAmount(items)
<1>0. PICK n \in Nat : n = Len(items) /\ DOMAIN items = 1 .. n /\ IsFiniteSet(DOMAIN items)
  BY SubtotalType
<1>1. PICK S : S = 1 .. n /\ S = DOMAIN items /\ IsFiniteSet(S)
  BY <1>0
<1>2. PICK cost : cost = Subtotals(items)
  OBVIOUS
<1>3. \A i \in S : cost[i] \in Nat
  BY <1>1, <1>2, SubtotalType
<1> DEFINE Prefix(k) == [i \in S |-> IF i <= k THEN cost[i] ELSE 0]
           Sofar(k) == SumFunctionOnSet(Prefix(k), S)
           Agrees   == {k \in Nat : k <= n => amount[k] = Wrap(Sofar(k))}
<1>4. \A k \in Nat : (\A i \in S : Prefix(k)[i] \in Nat) /\ Sofar(k) \in Nat
  <2>1. \A k \in Nat : \A i \in S : Prefix(k)[i] \in Nat
    BY <1>3
  <2>2. QED
    BY <1>1, <2>1, SumType
<1>5. 0 \in Agrees
  <2>1. \A i \in S : Prefix(0)[i] = 0
    BY <1>1
  <2>2. Sofar(0) = 0
    BY <1>1, <2>1, SumOfZeros
  <2>3. Wrap(0) = 0
    BY WrapFits, SizesAssumption
  <2>4. amount[0] = 0
    BY DEF Accumulates
  <2>5. QED
    BY <2>2, <2>3, <2>4
<1>6. ASSUME NEW k \in Nat, k \in Agrees PROVE k + 1 \in Agrees
  <2> SUFFICES ASSUME k + 1 <= n PROVE amount[k + 1] = Wrap(Sofar(k + 1))
    OBVIOUS
  <2>1. k + 1 \in S /\ k <= n /\ (k + 1) - 1 = k
    BY <1>1
  <2>2. PICK z \in S : z = k + 1
    BY <2>1
  <2>3. amount[z] = Wrap(Wrap(Sofar(k)) + Wrap(cost[z]))
    BY <1>1, <1>2, <1>6, <2>1, <2>2 DEF Accumulates
  <2>4. Prefix(z)[z] = cost[z] /\ Prefix(k)[z] = 0 /\ \A i \in S \ {z} : Prefix(z)[i] = Prefix(k)[i]
    BY <1>1, <2>2
  <2>5. Sofar(z) = Sofar(k) + Prefix(z)[z] - Prefix(k)[z]
    <3>1. PICK f, g : f = Prefix(k) /\ g = Prefix(z)
      OBVIOUS
    <3>2. (\A i \in S : f[i] \in Nat) /\ (\A i \in S : g[i] \in Nat)
      BY <1>4, <2>2, <3>1
    <3>3. \A i \in S \ {z} : g[i] = f[i]
      BY <2>4, <3>1
    <3>4. IsFiniteSet(S)
      BY <1>1
    <3>5. SumFunctionOnSet(g, S) = SumFunctionOnSet(f, S) + g[z] - f[z]
      BY <3>2, <3>3, <3>4, SumChange
    <3>6. SumFunctionOnSet(f, S) = Sofar(k) /\ SumFunctionOnSet(g, S) = Sofar(z)
      BY <3>1
    <3>7. f[z] = Prefix(k)[z] /\ g[z] = Prefix(z)[z]
      BY <3>1
    <3> HIDE DEF Prefix, Sofar
    <3>8. QED
      BY <3>5, <3>6, <3>7
  <2>6. Sofar(z) = Sofar(k) + cost[z] /\ Sofar(k) \in Int /\ cost[z] \in Int
    BY <1>3, <1>4, <2>4, <2>5
  <2>7. Wrap(Wrap(Sofar(k)) + Wrap(cost[z])) = Wrap(Sofar(z))
    BY <2>6, WrapAdds
  <2>8. QED
    BY <2>2, <2>3, <2>7
<1>7. n \in Agrees
  BY <1>5, <1>6, SetInduction
<1>8. Prefix(n) = cost
  BY <1>1, <1>2 DEF Subtotals
<1>9. QED
  BY <1>0, <1>1, <1>2, <1>7, <1>8 DEF TotalAmount, Sum, Subtotals

(* The amount of a call stays what it was while its request, its total and *)
(* its rows do.                                                            *)
LEMMA ValidStep ==
    OrderTypeOK /\ RequestsValid /\ [OrderNext]_ovars => RequestsValid'
<1> SUFFICES ASSUME OrderTypeOK, RequestsValid, [OrderNext]_ovars PROVE RequestsValid'
  OBVIOUS
<1> USE DEF OrderTypeOK, RequestsValid, Advance
<1>1. ASSUME NEW c \in Calls, NEW items \in Requests, Receive(c, items) PROVE RequestsValid'
  <2>1. /\ request' = [request EXCEPT ![c] = items]
        /\ stage'[c] = "ended" \/ Valid(items)
        /\ \A b \in Calls \ {c} : stage'[b] = stage[b]
    BY <1>1 DEF Receive, Validated, End
  <2>2. QED
    BY <2>1
<1>2. ASSUME UNCHANGED request,
             \A c \in Calls :
                stage'[c] \notin {"none", "ended"} => stage[c] \notin {"none", "ended"}
      PROVE  RequestsValid'
  BY <1>2
<1>3. ASSUME NEW c \in Calls, CallerGone(c) PROVE RequestsValid'
  BY <1>2, <1>3 DEF CallerGone
<1>4. ASSUME NEW c \in Calls, NEW d \in Dependencies, Answer(c, d) PROVE RequestsValid'
  BY <1>2, <1>4 DEF Answer, Answered, Lookup
<1>5. ASSUME NEW c \in Calls, Resolved(c) PROVE RequestsValid'
  BY <1>2, <1>5 DEF Resolved, End
<1>6. ASSUME NEW c \in Calls, Begin(c) \/ InsertOrder(c) \/ InsertItems(c) \/ SaveEvent(c)
      PROVE  RequestsValid'
  BY <1>2, <1>6 DEF Begin, InsertOrder, InsertItems, SaveEvent, Insert
<1>7. ASSUME NEW c \in Calls,
             RefuseOrder(c) \/ Commit(c) \/ CommitUnacknowledged(c) \/ TxFails(c)
      PROVE  RequestsValid'
  BY <1>2, <1>7 DEF RefuseOrder, Commit, CommitUnacknowledged, TxFails, End
<1>8. ASSUME Crash PROVE RequestsValid'
  BY <1>2, <1>8 DEF Crash
<1>9. CASE UNCHANGED ovars
  BY <1>2, <1>9 DEF ovars, call
<1>10. QED
  BY <1>1, <1>3, <1>4, <1>5, <1>6, <1>7, <1>8, <1>9, OrderCases

(* Only a call that builds its order, or inserts it, needs a reason for    *)
(* its amount.                                                             *)
LEMMA BilledFrame ==
    ASSUME OrdersBilled, UNCHANGED <<request, total>>,
           \A c \in Calls :
              stage'[c] \in {"begin"} \cup TxStages => stage[c] \in {"begin"} \cup TxStages,
           \A c \in Calls : "orders" \in tx'[c] => "orders" \in tx[c] \/ total[c] >= 0,
           \A c \in Calls : c \in rows'["orders"] => c \in rows["orders"] \/ "orders" \in tx[c],
           OrderTypeOK, TxMatchesStage
    PROVE  OrdersBilled'
<1>1. \A c \in Calls : Billed(c) => Billed(c)'
  BY DEF Billed
<1>2. \A c \in Calls : "orders" \in tx[c] => stage[c] \in {"begin"} \cup TxStages
  BY DEF TxMatchesStage, TxStages
<1>3. QED
  BY <1>1, <1>2 DEF OrdersBilled

LEMMA EndBilled ==
    ASSUME OrdersBilled, OrderTypeOK, TxMatchesStage, NEW c \in Calls, NEW r, End(c, r),
           UNCHANGED <<request, total>>,
           \/ UNCHANGED rows
           \/ rows'["orders"] = rows["orders"] \cup {c} /\ "orders" \in tx[c]
    PROVE  OrdersBilled'
<1>1. /\ stage'[c] = "ended" /\ tx'[c] = {}
      /\ \A b \in Calls \ {c} : stage'[b] = stage[b] /\ tx'[b] = tx[b]
  BY DEF End, Advance, OrderTypeOK
<1>2. \A b \in Calls :
         stage'[b] \in {"begin"} \cup TxStages => stage[b] \in {"begin"} \cup TxStages
  BY <1>1 DEF TxStages
<1>3. \A b \in Calls : "orders" \in tx'[b] => "orders" \in tx[b]
  BY <1>1
<1>4. QED
  BY <1>2, <1>3, BilledFrame

LEMMA BilledStep ==
    ASSUME OrderTypeOK, TxMatchesStage, OpenIsNotStored, RequestsValid, OrdersBilled,
           [OrderNext]_ovars
    PROVE  OrdersBilled'
<1> USE DEF OrderTypeOK, Advance
<1>1. ASSUME NEW c \in Calls, NEW items \in Requests, Receive(c, items) PROVE OrdersBilled'
  <2>1. /\ request' = [request EXCEPT ![c] = items]
        /\ stage[c] = "none" /\ stage'[c] \in {"resolve", "ended"} /\ UNCHANGED <<total, rows>>
        /\ \A b \in Calls \ {c} : stage'[b] = stage[b] /\ tx'[b] = tx[b]
        /\ tx'[c] \in {{}, tx[c]}
    BY <1>1 DEF Receive, Validated, End
  <2>2. c \notin rows["orders"] /\ "orders" \notin tx[c]
    BY <2>1 DEF OpenIsNotStored, TxMatchesStage, Tables
  <2>3. \A b \in Calls \ {c} : Billed(b) => Billed(b)'
    BY <2>1 DEF Billed
  <2>4. QED
    BY <2>1, <2>2, <2>3 DEF OrdersBilled, TxStages
<1>2. ASSUME NEW c \in Calls, CallerGone(c) PROVE OrdersBilled'
  BY <1>2, BilledFrame DEF CallerGone
<1>3. ASSUME NEW c \in Calls, NEW d \in Dependencies, Answer(c, d) PROVE OrdersBilled'
  BY <1>3, BilledFrame DEF Answer, Answered, Lookup
<1>4. ASSUME NEW c \in Calls, Resolved(c) PROVE OrdersBilled'
  <2>1. ASSUME NEW r, End(c, r), UNCHANGED total PROVE OrdersBilled'
    BY <1>4, <2>1, EndBilled DEF Resolved
  <2>2. CASE /\ AllFound(request[c])
             /\ total' = [total EXCEPT ![c] = TotalAmount(request[c])]
             /\ Advance(c, "begin")
             /\ UNCHANGED <<answer, tx>>
    <3>1. stage[c] = "resolve" /\ UNCHANGED <<request, rows>>
      BY <1>4 DEF Resolved
    <3>2. Sum(request[c]) \in Nat
      BY <2>2, <3>1, SumOfRequest DEF RequestsValid
    <3>3. Billed(c)'
      BY <2>2, <3>1, <3>2 DEF Billed
    <3>4. \A b \in Calls \ {c} : Billed(b) => Billed(b)'
      BY <2>2, <3>1 DEF Billed
    <3>5. "orders" \notin tx[c] /\ c \notin rows["orders"]
      BY <3>1 DEF TxMatchesStage, OpenIsNotStored, Tables
    <3>6. \A b \in Calls \ {c} : total'[b] = total[b] /\ stage'[b] = stage[b]
      BY <2>2
    <3>7. QED
      BY <2>2, <3>1, <3>3, <3>4, <3>5, <3>6 DEF OrdersBilled
  <2>3. QED
    BY <1>4, <2>1, <2>2 DEF Resolved
<1>5. ASSUME NEW c \in Calls, Begin(c) PROVE OrdersBilled'
  BY <1>5, BilledFrame DEF Begin
<1>6. ASSUME NEW c \in Calls, InsertOrder(c) PROVE OrdersBilled'
  BY <1>6, BilledFrame DEF InsertOrder, Insert, TxStages
<1>7. ASSUME NEW c \in Calls, InsertItems(c) \/ SaveEvent(c) PROVE OrdersBilled'
  BY <1>7, BilledFrame DEF InsertItems, SaveEvent, Insert, TxStages
<1>8. ASSUME NEW c \in Calls, Commit(c) \/ CommitUnacknowledged(c) PROVE OrdersBilled'
  <2>1. rows' = [t \in Tables |-> rows[t] \cup {c}] /\ "orders" \in tx[c]
    BY <1>8, ApplyAll DEF Commit, CommitUnacknowledged, TxMatchesStage
  <2>2. rows'["orders"] = rows["orders"] \cup {c}
    BY <2>1 DEF Tables
  <2>3. PICK r : End(c, r)
    BY <1>8 DEF Commit, CommitUnacknowledged
  <2>4. QED
    BY <1>8, <2>1, <2>2, <2>3, EndBilled DEF Commit, CommitUnacknowledged
<1>9. ASSUME NEW c \in Calls, RefuseOrder(c) \/ TxFails(c) PROVE OrdersBilled'
  <2>1. PICK r : End(c, r)
    BY <1>9 DEF RefuseOrder, TxFails
  <2>2. QED
    BY <1>9, <2>1, EndBilled DEF RefuseOrder, TxFails
<1>10. ASSUME Crash PROVE OrdersBilled'
  BY <1>10, BilledFrame DEF Crash, TxStages
<1>11. CASE UNCHANGED ovars
  BY <1>11, BilledFrame DEF ovars, call
<1>12. QED
  BY <1>1, <1>2, <1>3, <1>4, <1>5, <1>6, <1>7, <1>8, <1>9, <1>10, <1>11, OrderCases

LEMMA BilledIsExact == OrdersBilled => AmountExactIfFits
<1> SUFFICES ASSUME OrdersBilled, NEW c \in Calls, c \in rows["orders"]
             PROVE  /\ total[c] \in 0 .. Half - 1
                    /\ Sum(request[c]) < Half => total[c] = Sum(request[c])
  BY DEF AmountExactIfFits
<1>1. Sum(request[c]) \in Nat /\ total[c] = Wrap(Sum(request[c])) /\ total[c] >= 0
  BY DEF OrdersBilled, Billed, TotalAmount
<1>2. Half \in Nat
  BY SizesAssumption
<1>3. total[c] \in -Half .. Half - 1
  BY <1>1, WrapFits
<1>4. Sum(request[c]) < Half => total[c] = Sum(request[c])
  BY <1>1, <1>2, WrapFits
<1>5. QED
  BY <1>1, <1>2, <1>3, <1>4

-----------------------------------------------------------------------------
(* OrderInv is inductive.                                                  *)
LEMMA OrderInvStep == OrderInv /\ [OrderNext]_ovars => OrderInv'
<1>0. OrdersBilled' => AmountExactIfFits'
  BY BilledIsExact, PTL
<1> SUFFICES ASSUME OrderInv, [OrderNext]_ovars PROVE OrderInv'
  OBVIOUS
<1>1. /\ OrderTypeOK /\ TxMatchesStage /\ OpenIsNotStored /\ RequestsValid /\ OrdersBilled
      /\ StoredInv /\ Honest /\ NoLookupOutlives
  BY DEF OrderInv, StoredInv, Honest
<1>2. OrderTypeOK' /\ TxMatchesStage' /\ StoredInv' /\ Honest' /\ NoLookupOutlives'
  BY <1>1, OrderTypeStep, TxStageStep, StoredStep, HonestStep, LookupStep
<1>3. RequestsValid' /\ OrdersBilled'
  BY <1>1, ValidStep, BilledStep
<1>4. QED
  BY <1>0, <1>2, <1>3 DEF OrderInv, StoredInv, Honest

THEOREM OrderInvariance == OrderSpec => []OrderInv
  BY OrderInvInit, OrderInvStep, PTL DEF OrderSpec

(* Atomicity: an order, its items and its outbox event are committed       *)
(* together or not at all, for any number of calls, whatever fails and     *)
(* whenever the process dies.                                              *)
THEOREM OutboxAtomicity == OrderSpec => []StoredTogether
<1>1. OrderInv => StoredTogether
  BY DEF OrderInv
<1>2. QED
  BY <1>1, OrderInvariance, PTL

(* The answers of CreateOrder mean what they say: OK that the order is     *)
(* stored, a refusal that it is not.                                       *)
THEOREM TruthfulAnswers == OrderSpec => [](ConfirmedIsStored /\ RefusedIsNotStored)
<1>1. OrderInv => ConfirmedIsStored /\ RefusedIsNotStored
  BY DEF OrderInv
<1>2. QED
  BY <1>1, OrderInvariance, PTL

(* A caller that waits is never told CANCELED: the error of resolve is the *)
(* one that caused the cancellation of the other lookups.                  *)
THEOREM CausalError == OrderSpec => []CanceledOnlyIfGone
<1>1. OrderInv => CanceledOnlyIfGone
  BY DEF OrderInv
<1>2. QED
  BY <1>1, OrderInvariance, PTL

(* The amount of a stored order is never negative, and it is the sum of    *)
(* price times quantity unless that sum exceeds int64: what is left of     *)
(* TotalIsSum, for every catalog and request (Subtotal and NewOrder,       *)
(* domain/order.go:31-65; chk_orders_total_amount).                          *)
THEOREM AmountsExact == OrderSpec => []AmountExactIfFits
<1>1. OrderInv => AmountExactIfFits
  BY DEF OrderInv
<1>2. QED
  BY <1>1, OrderInvariance, PTL

(* resolve leaves no lookup behind.                                        *)
THEOREM NoOrphanLookups == OrderSpec => []NoLookupOutlives
<1>1. OrderInv => NoLookupOutlives
  BY DEF OrderInv
<1>2. QED
  BY <1>1, OrderInvariance, PTL

-----------------------------------------------------------------------------
(* The outbox as the pipeline sees it.                                     *)

(* Of the promise of EventDelivery the order service keeps the first part: *)
(* accepted events, one for each call whose order is stored.               *)
Outbox == INSTANCE EventDelivery
              WITH Events <- Calls, accepted <- rows["outbox_events"], delivered <- {}, lost <- {}

LEMMA CommitAccepts ==
    ASSUME OrderInv, NEW c \in Calls, Commit(c) \/ CommitUnacknowledged(c)
    PROVE  Outbox!Accept(c)
<1>1. stage[c] = "commit" /\ Apply(c)
  BY DEF Commit, CommitUnacknowledged
<1>2. rows' = [t \in Tables |-> rows[t] \cup {c}]
  BY <1>1, ApplyAll DEF OrderInv
<1>3. c \notin rows["outbox_events"] /\ rows'["outbox_events"] = rows["outbox_events"] \cup {c}
  BY <1>1, <1>2 DEF OrderInv, OpenIsNotStored, Tables
<1>4. QED
  BY <1>3 DEF Outbox!Accept

(* CreateOrder implements OrderCommitted of NotificationPipeline: an event *)
(* joins the outbox in one step, once, and none ever leaves it, whatever   *)
(* fails, goes unacknowledged or dies.                                     *)
THEOREM OutboxAccepts == OrderSpec => Outbox!Delivery
<1>1. OrderInit => Outbox!DeliveryInit
  BY DEF OrderInit, Tables, Outbox!DeliveryInit
<1>2. OrderInv /\ [OrderNext]_ovars => [Outbox!DeliveryNext]_(Outbox!dvars)
  <2> SUFFICES ASSUME OrderInv, [OrderNext]_ovars
               PROVE  [Outbox!DeliveryNext]_(Outbox!dvars)
    OBVIOUS
  <2>1. ASSUME NEW c \in Calls, Commit(c) \/ CommitUnacknowledged(c)
        PROVE  Outbox!DeliveryNext
    BY <2>1, CommitAccepts DEF Outbox!DeliveryNext
  <2>2. CASE rows' = rows
    BY <2>2 DEF Outbox!dvars
  <2>3. \/ rows' = rows
        \/ \E c \in Calls : Commit(c) \/ CommitUnacknowledged(c)
    <3>1. ASSUME NEW c \in Calls, NEW items \in Requests, Receive(c, items) PROVE rows' = rows
      BY <3>1 DEF Receive, Validated
    <3>2. ASSUME NEW c \in Calls, NEW d \in Dependencies, Answer(c, d) PROVE rows' = rows
      BY <3>2 DEF Answer, Answered, Lookup
    <3>3. ASSUME NEW c \in Calls, CallerGone(c) \/ Resolved(c) \/ Begin(c) PROVE rows' = rows
      BY <3>3 DEF CallerGone, Resolved, Begin
    <3>4. ASSUME NEW c \in Calls, \/ InsertOrder(c) \/ RefuseOrder(c) \/ InsertItems(c)
                                 \/ SaveEvent(c) \/ TxFails(c)
          PROVE  rows' = rows
      BY <3>4 DEF InsertOrder, RefuseOrder, InsertItems, SaveEvent, Insert, TxFails
    <3>5. CASE Crash \/ UNCHANGED ovars
      BY <3>5 DEF Crash, ovars
    <3>6. QED
      BY <3>1, <3>2, <3>3, <3>4, <3>5, OrderCases
  <2>4. QED
    BY <2>1, <2>2, <2>3
<1>3. QED
  BY <1>1, <1>2, OrderInvariance, PTL DEF OrderSpec, Outbox!Delivery
=============================================================================
