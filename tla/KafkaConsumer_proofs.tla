------------------------ MODULE KafkaConsumer_proofs ------------------------
(***************************************************************************)
(* Proofs about KafkaConsumer for every set of members and partitions and  *)
(* every log length and batch size.  The typing of the state comes first,  *)
(* then the inductive invariant IndInv, and from it the properties that    *)
(* TLC checks on small instances.                                          *)
(***************************************************************************)
EXTENDS KafkaConsumer, TLAPS

(* The steps of Next, one disjunct each, with the parameters typed.        *)
LEMMA NextCases ==
    ASSUME [Next]_vars
    PROVE  \/ \E m \in Members : \E end \in Ends : PollRecords(m, end)
           \/ \E m \in Members : \E end \in Ends : FetchError(m, end)
           \/ \E m \in Members : \E p \in Partitions : HandlerOk(m, p)
           \/ \E m \in Members : \E p \in Partitions : HandlerError(m, p)
           \/ \E m \in Members : ProcessEnd(m)
           \/ \E m \in Members : BackoffElapsed(m)
           \/ \E m \in Members : RunReturns(m)
           \/ \E m \in Members : Start(m)
           \/ \E m \in Members : Cancel(m)
           \/ \E m \in Members : Close(m)
           \/ \E m \in Members : Crash(m)
           \/ \E m \in Members : Evict(m)
           \/ \E m \in Members : LosePartitions(m)
           \/ \E J \in SUBSET Members : \E newOwner \in [Partitions -> J] : Rebalance(J, newOwner)
           \/ \E p \in Partitions : Produce(p)
           \/ FaultsStop
           \/ UNCHANGED vars
  BY DEF Next, MemberStep

-----------------------------------------------------------------------------
(* Type correctness.                                                       *)

LEMMA TypeInit == Init => TypeOK
<1> SUFFICES ASSUME Init PROVE TypeOK
  OBVIOUS
<1>1. Zero \in [Partitions -> Nat]
  BY DEF Zero
<1>2. /\ from \in [Members -> [Partitions -> Nat]]
      /\ next \in [Members -> [Partitions -> Nat]]
      /\ position \in [Members -> [Partitions -> Nat]]
  BY <1>1 DEF Init
<1>3. /\ handled \in [Partitions -> SUBSET Nat]
      /\ dropped \in [Partitions -> SUBSET Nat]
      /\ assigned \in [Members -> SUBSET Partitions]
      /\ rewind \in [Members -> SUBSET Partitions]
  BY DEF Init
<1>4. QED
  BY <1>1, <1>2, <1>3 DEF Init, TypeOK, Locations

LEMMA TypeStep == TypeOK /\ [Next]_vars => TypeOK'
<1> SUFFICES ASSUME TypeOK, [Next]_vars PROVE TypeOK'
  OBVIOUS
<1> USE DEF TypeOK, Locations, Zero, Ends, broker, group, client, history
<1>1. ASSUME NEW m \in Members, NEW end \in Ends, PollRecords(m, end) PROVE TypeOK'
  BY <1>1, BoundsAssumption DEF PollRecords
<1>2. ASSUME NEW m \in Members, NEW end \in Ends, FetchError(m, end) PROVE TypeOK'
  <2>1. end \in [Partitions -> Nat]
    BY BoundsAssumption
  <2>2. dropped' \in [Partitions -> SUBSET Nat]
    <3>1. \A p \in Partitions :
             dropped[p] \cup {o \in 0 .. (end[p] - 1) : position[m][p] <= o} \in SUBSET Nat
      BY <2>1
    <3>2. QED
      BY <1>2, <3>1 DEF FetchError
  <2>3. QED
    BY <1>2, <2>1, <2>2 DEF FetchError
<1>3. ASSUME NEW m \in Members, NEW p \in Partitions, HandlerOk(m, p) PROVE TypeOK'
  BY <1>3 DEF HandlerOk, HandlerAccepts
<1>4. ASSUME NEW m \in Members, NEW p \in Partitions, HandlerError(m, p) PROVE TypeOK'
  BY <1>4 DEF HandlerError, HandlerFails
<1>5. ASSUME NEW m \in Members, ProcessEnd(m) PROVE TypeOK'
  <2>1. committed' \in [Partitions -> Nat] /\ SetOffsets(m) \in [Partitions -> Nat]
    BY <1>5 DEF ProcessEnd, CommitRecords, SetOffsets
  <2>2. /\ from' \in [Members -> [Partitions -> Nat]]
        /\ next' \in [Members -> [Partitions -> Nat]]
        /\ position' \in [Members -> [Partitions -> Nat]]
        /\ rewind' \in [Members -> SUBSET Partitions]
        /\ pc' \in [Members -> Locations]
    BY <1>5, <2>1 DEF ProcessEnd
  <2>3. QED
    BY <1>5, <2>1, <2>2 DEF ProcessEnd
<1>6. ASSUME NEW m \in Members, BackoffElapsed(m) PROVE TypeOK'
  BY <1>6 DEF BackoffElapsed
<1>7. ASSUME NEW m \in Members, RunReturns(m) PROVE TypeOK'
  BY <1>7 DEF RunReturns
<1>8. ASSUME NEW m \in Members, Start(m) PROVE TypeOK'
  BY <1>8 DEF Start
<1>9. ASSUME NEW m \in Members, Cancel(m) PROVE TypeOK'
  BY <1>9 DEF Cancel
<1>10. ASSUME NEW m \in Members, Close(m) PROVE TypeOK'
  BY <1>10 DEF Close, ForgetClient, RemoveFromGroup
<1>11. ASSUME NEW m \in Members, Crash(m) PROVE TypeOK'
  BY <1>11 DEF Crash, ForgetClient
<1>12. ASSUME NEW m \in Members, Evict(m) PROVE TypeOK'
  BY <1>12 DEF Evict, RemoveFromGroup
<1>13. ASSUME NEW m \in Members, LosePartitions(m) PROVE TypeOK'
  BY <1>13 DEF LosePartitions
<1>14. ASSUME NEW J \in SUBSET Members, NEW newOwner \in [Partitions -> J],
              Rebalance(J, newOwner)
       PROVE  TypeOK'
  <2>1. /\ Reassigned(J, newOwner, from) \in [Members -> [Partitions -> Nat]]
        /\ Reassigned(J, newOwner, next) \in [Members -> [Partitions -> Nat]]
        /\ Reassigned(J, newOwner, position) \in [Members -> [Partitions -> Nat]]
    BY DEF Reassigned
  <2>2. QED
    BY <1>14, <2>1 DEF Rebalance
<1>15. ASSUME NEW p \in Partitions, Produce(p) PROVE TypeOK'
  BY <1>15 DEF Produce
<1>16. CASE FaultsStop
  BY <1>16 DEF FaultsStop
<1>17. CASE UNCHANGED vars
  BY <1>17 DEF vars
<1>18. QED
  BY <1>1, <1>2, <1>3, <1>4, <1>5, <1>6, <1>7, <1>8, <1>9, <1>10, <1>11, <1>12,
     <1>13, <1>14, <1>15, <1>16, <1>17, NextCases

(* The state of the consumers, the coordinator and the logs stays within   *)
(* its types whatever steps the system takes.                              *)
THEOREM TypeCorrect == Spec => []TypeOK
  BY TypeInit, TypeStep, PTL DEF Spec

-----------------------------------------------------------------------------
(* The inductive invariant.                                                *)

LEMMA IndInit == Init => IndInv
<1> SUFFICES ASSUME Init PROVE IndInv
  OBVIOUS
<1>1. \A m \in Members : \A p \in Partitions :
          from[m][p] = 0 /\ next[m][p] = 0 /\ position[m][p] = 0
  BY DEF Init, Zero
<1>2. BatchBounds /\ IdleAtNext
  BY <1>1 DEF BatchBounds, IdleAtNext, Init
<1>3. ReadCovered /\ CommitCovered
  BY <1>1 DEF ReadCovered, CommitCovered, Covered, Init, Zero
<1>4. AssignedOwned /\ CommitBehind /\ HandledInOrder
  BY DEF AssignedOwned, CommitBehind, HandledInOrder, Init
<1>5. QED
  BY <1>2, <1>3, <1>4, TypeInit DEF IndInv

(* Steps that leave the offsets, the assignment and the history alone and  *)
(* take no member out of process keep the invariant.                       *)
LEMMA FrameStep ==
    ASSUME IndInv, TypeOK',
           UNCHANGED <<committed, joined, owner, assigned, from, next, position, handled, dropped>>,
           \A m \in Members : pc'[m] # "process" => pc[m] # "process"
    PROVE  IndInv'
<1>1. BatchBounds' /\ IdleAtNext'
  BY DEF IndInv, BatchBounds, IdleAtNext
<1>2. ReadCovered' /\ CommitCovered' /\ HandledInOrder'
  BY DEF IndInv, ReadCovered, CommitCovered, HandledInOrder, Covered
<1>3. AssignedOwned' /\ CommitBehind'
  BY DEF IndInv, AssignedOwned, CommitBehind
<1>4. QED
  BY <1>1, <1>2, <1>3 DEF IndInv

(* What is covered stays covered: the history only grows.                  *)
LEMMA CoveredGrows ==
    ASSUME NEW p \in Partitions, NEW n,
           handled[p] \subseteq handled'[p], dropped[p] \subseteq dropped'[p],
           Covered(p, n)
    PROVE  \A o \in 0 .. (n - 1) : o \in handled'[p] \cup dropped'[p]
  BY DEF Covered

(* The client of m forgets its partitions, and the members of the group    *)
(* stay or become fewer.                                                   *)
LEMMA ForgetStep ==
    ASSUME IndInv, TypeOK', NEW m \in Members,
           assigned' = [assigned EXCEPT ![m] = {}],
           from' = [from EXCEPT ![m] = Zero],
           next' = [next EXCEPT ![m] = Zero],
           position' = [position EXCEPT ![m] = Zero],
           UNCHANGED <<committed, handled, dropped>>,
           \A n \in Members \ {m} : pc'[n] = pc[n],
           joined' \subseteq joined,
           \A p \in Partitions : owner[p] # m => owner'[p] = owner[p]
    PROVE  IndInv'
<1> USE DEF IndInv, TypeOK
<1>1. \A p \in Partitions : Zero[p] = 0
  BY DEF Zero
<1>2. BatchBounds'
  BY <1>1 DEF BatchBounds
<1>3. IdleAtNext'
  BY DEF IdleAtNext
<1>4. ReadCovered'
  BY <1>1 DEF ReadCovered, Covered
<1>5. CommitCovered' /\ HandledInOrder'
  BY DEF CommitCovered, HandledInOrder, Covered
<1>6. AssignedOwned'
  BY DEF AssignedOwned
<1>7. CommitBehind'
  BY DEF CommitBehind
<1>8. QED
  BY <1>2, <1>3, <1>4, <1>5, <1>6, <1>7

(* A poll with records: only the end of the batch moves.                   *)
LEMMA PollStep ==
    ASSUME IndInv, TypeOK', NEW m \in Members, NEW end \in Ends, PollRecords(m, end)
    PROVE  IndInv'
<1> USE DEF IndInv, TypeOK, PollRecords, broker, group, history
<1>1. end \in [Partitions -> Nat]
  BY BoundsAssumption DEF Ends
<1>2. BatchBounds'
  <2>1. \A p \in Partitions : /\ position[m][p] <= end[p]
                              /\ p \notin assigned[m] => end[p] = position[m][p]
    BY <1>1 DEF CanFetch
  <2>2. QED
    BY <1>1, <2>1 DEF BatchBounds
<1>3. IdleAtNext'
  BY DEF IdleAtNext
<1>4. ReadCovered' /\ CommitCovered' /\ HandledInOrder'
  BY DEF ReadCovered, CommitCovered, HandledInOrder, Covered
<1>5. AssignedOwned' /\ CommitBehind'
  BY DEF AssignedOwned, CommitBehind
<1>6. QED
  BY <1>2, <1>3, <1>4, <1>5

(* A fetch error: the records the client moves past become dropped ones.   *)
LEMMA FetchErrorStep ==
    ASSUME IndInv, TypeOK', NEW m \in Members, NEW end \in Ends, FetchError(m, end)
    PROVE  IndInv'
<1> USE DEF IndInv, TypeOK, FetchError, broker, group
<1>1. end \in [Partitions -> Nat]
  BY BoundsAssumption DEF Ends
<1>2. \A p \in Partitions : /\ position[m][p] <= end[p]
                            /\ p \notin assigned[m] => end[p] = position[m][p]
  BY <1>1 DEF CanFetch
<1>3. \A p \in Partitions : handled[p] \subseteq handled'[p] /\ dropped[p] \subseteq dropped'[p]
  OBVIOUS
<1>4. BatchBounds'
  BY <1>1, <1>2 DEF BatchBounds
<1>5. IdleAtNext'
  BY DEF IdleAtNext
<1>6. ReadCovered'
  <2>1. ASSUME NEW p \in Partitions, NEW o \in 0 .. (end[p] - 1)
        PROVE  o \in handled'[p] \cup dropped'[p]
    <3>1. next[m] = position[m]
      BY DEF IdleAtNext
    <3>2. CASE o < position[m][p]
      <4>1. Covered(p, position[m][p])
        BY <3>1 DEF ReadCovered
      <4>2. o \in 0 .. (position[m][p] - 1)
        BY <1>1, <3>2
      <4>3. QED
        BY <1>3, <4>1, <4>2 DEF Covered
    <3>3. CASE position[m][p] <= o
      <4>1. dropped'[p] = dropped[p] \cup {x \in 0 .. (end[p] - 1) : position[m][p] <= x}
        OBVIOUS
      <4>2. QED
        BY <3>3, <4>1
    <3>4. QED
      BY <1>1, <3>2, <3>3
  <2>2. ASSUME NEW n \in Members \ {m}, NEW p \in Partitions
        PROVE  \A o \in 0 .. (next[n][p] - 1) : o \in handled'[p] \cup dropped'[p]
    BY <1>3, CoveredGrows DEF ReadCovered
  <2>3. QED
    BY <2>1, <2>2 DEF ReadCovered, Covered
<1>7. CommitCovered'
  BY <1>3, CoveredGrows DEF CommitCovered, Covered
<1>8. HandledInOrder'
  BY <1>3, CoveredGrows DEF HandledInOrder, Covered
<1>9. AssignedOwned'
  BY DEF AssignedOwned
<1>10. CommitBehind'
  <2>1. \A p \in Partitions : from[m][p] <= end[p]
    BY <1>1, <1>2 DEF BatchBounds
  <2>2. QED
    BY <1>1, <2>1 DEF CommitBehind
<1>11. QED
  BY <1>4, <1>5, <1>6, <1>7, <1>8, <1>9, <1>10

LEMMA BelowBound ==
    ASSUME NEW n \in Nat, NEW o \in 0 .. n, o # n
    PROVE  o \in 0 .. (n - 1)
  OBVIOUS

(* The handler accepts a record: it is covered from now on.                *)
LEMMA HandlerOkStep ==
    ASSUME IndInv, TypeOK', NEW m \in Members, NEW p \in Partitions, HandlerOk(m, p)
    PROVE  IndInv'
<1> USE DEF IndInv, TypeOK, HandlerOk, HandlerAccepts, broker, group
<1>1. next[m][p] < position[m][p] /\ pc[m] = "process"
  BY DEF AtRecord, Pending
<1>2. \A q \in Partitions : handled[q] \subseteq handled'[q] /\ dropped[q] \subseteq dropped'[q]
  OBVIOUS
<1>3. BatchBounds'
  BY <1>1 DEF BatchBounds
<1>4. IdleAtNext'
  BY <1>1 DEF IdleAtNext
<1>5. Covered(p, next[m][p])
  BY DEF ReadCovered
<1>6. ReadCovered'
  <2>1. \A o \in 0 .. next[m][p] : o \in handled'[p] \cup dropped'[p]
    <3>1. SUFFICES ASSUME NEW o \in 0 .. next[m][p]
                   PROVE  o \in handled'[p] \cup dropped'[p]
      OBVIOUS
    <3>2. CASE o = next[m][p]
      BY <3>2
    <3>3. CASE o # next[m][p]
      <4>0. next[m][p] \in Nat
        OBVIOUS
      <4>1. o \in 0 .. (next[m][p] - 1)
        BY <3>3, <4>0, BelowBound
      <4>2. o \in handled[p] \cup dropped[p]
        BY <4>1, <1>5 DEF Covered
      <4>3. QED
        BY <4>2, <1>2
    <3>4. QED
      BY <3>2, <3>3
  <2>2. ASSUME NEW n \in Members, NEW q \in Partitions, ~(n = m /\ q = p)
        PROVE  \A o \in 0 .. (next'[n][q] - 1) : o \in handled'[q] \cup dropped'[q]
    <3>1. next'[n][q] = next[n][q]
      BY <2>2
    <3>2. QED
      BY <3>1, <1>2, CoveredGrows DEF ReadCovered
  <2>3. next'[m][p] - 1 = next[m][p]
    OBVIOUS
  <2>4. QED
    BY <2>1, <2>2, <2>3 DEF ReadCovered, Covered
<1>7. CommitCovered'
  BY <1>2, CoveredGrows DEF CommitCovered, Covered
<1>8. HandledInOrder'
  <2>1. \A q \in Partitions : \A o \in handled'[q] : Covered(q, o)
    BY <1>5 DEF HandledInOrder
  <2>2. QED
    BY <2>1, <1>2, CoveredGrows DEF HandledInOrder, Covered
<1>9. AssignedOwned' /\ CommitBehind'
  BY DEF AssignedOwned, CommitBehind
<1>10. QED
  BY <1>3, <1>4, <1>6, <1>7, <1>8, <1>9

LEMMA EqualBounds ==
    ASSUME NEW a \in Nat, NEW b \in Nat, a <= b, ~(a < b)
    PROVE  b = a
  OBVIOUS

LEMMA Transitive ==
    ASSUME NEW a \in Nat, NEW b \in Nat, NEW c \in Nat, a <= b, b <= c
    PROVE  a <= c
  OBVIOUS

(* The end of process: what is committed was handled by this member, and   *)
(* a member of the group that processed records of p is the owner of p, so *)
(* no other member of the group falls behind the commit.                   *)
LEMMA ProcessEndStep ==
    ASSUME IndInv, TypeOK', NEW m \in Members, ProcessEnd(m)
    PROVE  IndInv'
<1> USE DEF IndInv, TypeOK, ProcessEnd, group, history
<1>0. \A p \in Partitions : SetOffsets(m)[p] = next[m][p]
  <2>1. SUFFICES ASSUME NEW p \in Partitions, p \notin rewind[m]
                 PROVE  position[m][p] = next[m][p]
    BY DEF SetOffsets
  <2>2. next[m][p] \in Nat /\ position[m][p] \in Nat
    OBVIOUS
  <2>3. ~(next[m][p] < position[m][p])
    BY <2>1 DEF Pending
  <2>4. next[m][p] <= position[m][p]
    BY DEF BatchBounds
  <2>5. QED
    BY <2>2, <2>3, <2>4, EqualBounds
<1>a. ASSUME NEW n \in Members, NEW p \in Partitions
      PROVE  /\ next'[n][p] = next[n][p]
             /\ from'[n][p] = (IF n = m THEN next[m][p] ELSE from[n][p])
             /\ position'[n][p] = (IF n = m THEN next[m][p] ELSE position[n][p])
  BY <1>0
<1>1. BatchBounds'
  BY <1>a DEF BatchBounds
<1>2. IdleAtNext'
  BY DEF IdleAtNext
<1>3. ReadCovered' /\ HandledInOrder'
  BY <1>a DEF ReadCovered, HandledInOrder, Covered
<1>4. ASSUME NEW p \in Partitions
      PROVE  \/ committed'[p] = committed[p]
             \/ /\ committed'[p] = next[m][p] /\ from[m][p] < next[m][p]
                /\ m \in joined
  BY DEF CommitRecords
<1>5. CommitCovered'
  BY <1>4 DEF CommitCovered, ReadCovered, Covered
<1>6. AssignedOwned'
  BY DEF AssignedOwned
<1>7. CommitBehind'
  <2>1. SUFFICES ASSUME NEW n \in joined, NEW p \in assigned[n]
                 PROVE  committed'[p] <= from'[n][p]
    BY DEF CommitBehind
  <2>2. n \in Members /\ p \in Partitions
    OBVIOUS
  <2>3. committed[p] <= from[n][p] /\ from[n][p] <= next[n][p]
    BY <2>2 DEF CommitBehind, BatchBounds
  <2>4. CASE n = m
    <3>1. from'[n][p] = next[m][p] /\ committed[p] <= next[m][p]
      <4>1. /\ committed[p] \in Nat /\ from[n][p] \in Nat /\ next[n][p] \in Nat
        BY <2>2
      <4>2. committed[p] <= next[n][p]
        BY <4>1, <2>3, Transitive
      <4>3. QED
        BY <1>a, <2>2, <2>4, <4>2
    <3>2. next[m][p] \in Nat
      BY <2>2
    <3>3. committed'[p] = committed[p] \/ committed'[p] = next[m][p]
      BY <1>4, <2>2
    <3>4. CASE committed'[p] = committed[p]
      BY <3>1, <3>4
    <3>5. CASE committed'[p] = next[m][p]
      <4>1. next[m][p] <= next[m][p]
        BY <3>2
      <4>2. QED
        BY <3>1, <3>5, <4>1
    <3>6. QED
      BY <3>3, <3>4, <3>5
  <2>5. CASE n # m
    <3>1. owner[p] = n
      BY DEF AssignedOwned
    <3>2. ~(m \in joined /\ p \in assigned[m])
      BY <2>5, <3>1 DEF AssignedOwned
    <3>3. ~(m \in joined /\ from[m][p] < next[m][p])
      BY <2>2, <3>2 DEF BatchBounds
    <3>4. committed'[p] = committed[p]
      BY <1>4, <2>2, <3>3
    <3>5. QED
      BY <1>a, <2>2, <2>3, <2>5, <3>4
  <2>6. QED
    BY <2>4, <2>5
<1>8. QED
  BY <1>1, <1>2, <1>3, <1>5, <1>6, <1>7

(* An eviction only makes the group smaller.                               *)
LEMMA EvictStep ==
    ASSUME IndInv, TypeOK', NEW m \in Members, Evict(m)
    PROVE  IndInv'
<1> USE DEF IndInv, TypeOK, Evict, RemoveFromGroup, broker, client, history
<1>1. BatchBounds' /\ IdleAtNext'
  BY DEF BatchBounds, IdleAtNext
<1>2. ReadCovered' /\ CommitCovered' /\ HandledInOrder'
  BY DEF ReadCovered, CommitCovered, HandledInOrder, Covered
<1>3. AssignedOwned' /\ CommitBehind'
  BY DEF AssignedOwned, CommitBehind
<1>4. QED
  BY <1>1, <1>2, <1>3

(* A rebalance: a member keeps its offsets where it keeps the partition    *)
(* and takes the committed offset, which is covered, everywhere else.      *)
LEMMA RebalanceStep ==
    ASSUME IndInv, TypeOK', NEW J \in SUBSET Members, NEW newOwner \in [Partitions -> J],
           Rebalance(J, newOwner)
    PROVE  IndInv'
<1> USE DEF IndInv, TypeOK, Rebalance, broker, history
<1>1. ASSUME NEW m \in Members, NEW p \in Partitions
      PROVE  /\ from'[m][p] = Reassigned(J, newOwner, from)[m][p]
             /\ next'[m][p] = Reassigned(J, newOwner, next)[m][p]
             /\ position'[m][p] = Reassigned(J, newOwner, position)[m][p]
             /\ p \in assigned'[m] <=> IF m \in J THEN newOwner[p] = m ELSE p \in assigned[m]
  OBVIOUS
<1>2. BatchBounds'
  BY <1>1 DEF BatchBounds, Reassigned
<1>3. IdleAtNext'
  BY DEF IdleAtNext, Reassigned
<1>4. ReadCovered'
  BY <1>1 DEF ReadCovered, CommitCovered, Covered, Reassigned
<1>5. CommitCovered' /\ HandledInOrder'
  BY DEF CommitCovered, HandledInOrder, Covered
<1>6. AssignedOwned'
  BY DEF AssignedOwned
<1>7. CommitBehind'
  <2>1. SUFFICES ASSUME NEW m \in J, NEW p \in assigned'[m]
                 PROVE  committed[p] <= from'[m][p]
    BY DEF CommitBehind
  <2>2. p \in Partitions /\ newOwner[p] = m
    BY <1>1
  <2>3. CASE p \in assigned[m]
    <3>1. m \in joined
      BY <2>3
    <3>2. QED
      BY <1>1, <2>2, <2>3, <3>1 DEF Reassigned, CommitBehind
  <2>4. CASE p \notin assigned[m]
    BY <1>1, <2>2, <2>4 DEF Reassigned
  <2>5. QED
    BY <2>3, <2>4
<1>8. QED
  BY <1>2, <1>3, <1>4, <1>5, <1>6, <1>7

LEMMA IndStep == IndInv /\ [Next]_vars => IndInv'
<1> SUFFICES ASSUME IndInv, [Next]_vars PROVE IndInv'
  OBVIOUS
<1>1. TypeOK'
  BY TypeStep DEF IndInv
<1> USE DEF broker, group, client, history
<1>2. TypeOK
  BY DEF IndInv
<1>3. ASSUME NEW m \in Members, NEW end \in Ends, PollRecords(m, end) PROVE IndInv'
  BY <1>1, <1>3, PollStep
<1>4. ASSUME NEW m \in Members, NEW end \in Ends, FetchError(m, end) PROVE IndInv'
  BY <1>1, <1>4, FetchErrorStep
<1>5. ASSUME NEW m \in Members, NEW p \in Partitions, HandlerOk(m, p) PROVE IndInv'
  BY <1>1, <1>5, HandlerOkStep
<1>6. ASSUME NEW m \in Members, NEW p \in Partitions, HandlerError(m, p) PROVE IndInv'
  BY <1>1, <1>6, FrameStep DEF HandlerError, HandlerFails
<1>7. ASSUME NEW m \in Members, ProcessEnd(m) PROVE IndInv'
  BY <1>1, <1>7, ProcessEndStep
<1>8. ASSUME NEW m \in Members, BackoffElapsed(m) PROVE IndInv'
  BY <1>1, <1>2, <1>8, FrameStep DEF BackoffElapsed, TypeOK
<1>9. ASSUME NEW m \in Members, RunReturns(m) PROVE IndInv'
  BY <1>1, <1>2, <1>9, FrameStep DEF RunReturns, TypeOK
<1>10. ASSUME NEW m \in Members, Start(m) PROVE IndInv'
  BY <1>1, <1>2, <1>10, FrameStep DEF Start, TypeOK
<1>11. ASSUME NEW m \in Members, Cancel(m) PROVE IndInv'
  BY <1>1, <1>11, FrameStep DEF Cancel
<1>12. ASSUME NEW m \in Members, Close(m) PROVE IndInv'
  BY <1>1, <1>2, <1>12, ForgetStep DEF Close, ForgetClient, RemoveFromGroup, TypeOK
<1>13. ASSUME NEW m \in Members, Crash(m) PROVE IndInv'
  BY <1>1, <1>2, <1>13, ForgetStep DEF Crash, ForgetClient, TypeOK
<1>14. ASSUME NEW m \in Members, Evict(m) PROVE IndInv'
  BY <1>1, <1>14, EvictStep
<1>15. ASSUME NEW m \in Members, LosePartitions(m) PROVE IndInv'
  BY <1>1, <1>15, ForgetStep DEF LosePartitions
<1>16. ASSUME NEW J \in SUBSET Members, NEW newOwner \in [Partitions -> J],
              Rebalance(J, newOwner)
       PROVE  IndInv'
  BY <1>1, <1>16, RebalanceStep
<1>17. ASSUME NEW p \in Partitions, Produce(p) PROVE IndInv'
  BY <1>1, <1>17, FrameStep DEF Produce
<1>18. CASE FaultsStop
  BY <1>1, <1>18, FrameStep DEF FaultsStop
<1>19. CASE UNCHANGED vars
  BY <1>1, <1>19, FrameStep DEF vars
<1>20. QED
  BY <1>3, <1>4, <1>5, <1>6, <1>7, <1>8, <1>9, <1>10, <1>11, <1>12, <1>13, <1>14,
     <1>15, <1>16, <1>17, <1>18, <1>19, NextCases

(* The inductive invariant holds in every reachable state.                 *)
THEOREM Invariance == Spec => []IndInv
  BY IndInit, IndStep, PTL DEF Spec

-----------------------------------------------------------------------------
(* The properties.                                                         *)

(* Delivery: whatever the schedule of crashes, evictions, rebalances,      *)
(* failed commits and handler failures, the group never commits past a     *)
(* record that was neither handled nor discarded with a fetch error.       *)
THEOREM NoSilentSkip == Spec => []CommitCovered
<1>1. IndInv => CommitCovered
  BY DEF IndInv
<1>2. QED
  BY <1>1, Invariance, PTL

(* Order: the handler accepts the records of a partition in log order.     *)
THEOREM PartitionOrder == Spec => []HandledInOrder
<1>1. IndInv => HandledInOrder
  BY DEF IndInv
<1>2. QED
  BY <1>1, Invariance, PTL

(* Blocked rebalances: a member the group counts owns every partition of   *)
(* the batch it is processing.                                             *)
LEMMA BatchesOwned == IndInv => BatchOwned
  BY DEF IndInv, TypeOK, BatchBounds, AssignedOwned, BatchOwned

THEOREM BatchOwnership == Spec => []BatchOwned
  BY BatchesOwned, Invariance, PTL

(* A commit never moves the group's offset back: the member that commits   *)
(* is still in the group, so it owns the partition and started its batch   *)
(* at or after the committed offset.                                       *)
LEMMA CommitForward ==
    ASSUME IndInv, NEW m \in Members, ProcessEnd(m), NEW p \in Partitions
    PROVE  committed'[p] >= committed[p]
<1>1. TypeOK
  BY DEF IndInv
<1>2. CASE committed'[p] = committed[p]
  BY <1>1, <1>2 DEF TypeOK
<1>3. CASE committed'[p] # committed[p]
  <2>1. /\ m \in joined /\ from[m][p] < next[m][p]
        /\ committed'[p] = next[m][p]
    BY <1>1, <1>3 DEF ProcessEnd, CommitRecords, TypeOK, broker, group, client, history
  <2>2. p \in assigned[m]
    BY <1>1, <2>1 DEF IndInv, BatchBounds, TypeOK
  <2>3. committed[p] <= from[m][p]
    BY <2>1, <2>2 DEF IndInv, CommitBehind
  <2>4. QED
    BY <1>1, <2>1, <2>3 DEF TypeOK
<1>4. QED
  BY <1>2, <1>3

THEOREM MonotoneCommits == Spec => CommittedNeverRewinds
<1> DEFINE Forward == \A p \in Partitions : committed'[p] >= committed[p]
<1>1. IndInv /\ [Next]_vars => [Forward]_vars
  <2> SUFFICES ASSUME IndInv, [Next]_vars PROVE Forward
    OBVIOUS
  <2>1. CASE committed' = committed
    BY <2>1 DEF IndInv, TypeOK
  <2>2. committed' = committed \/ \E m \in Members : ProcessEnd(m)
    BY NextCases DEF PollRecords, FetchError, HandlerOk, HandlerAccepts, HandlerError,
       HandlerFails, BackoffElapsed, RunReturns, Start, Cancel, Close, Crash, Evict,
       LosePartitions, Rebalance, Produce, FaultsStop, vars, broker
  <2>3. QED
    BY <2>1, <2>2, CommitForward
<1>2. QED
  BY <1>1, Invariance, PTL DEF Spec, CommittedNeverRewinds
=============================================================================
