---------------------------- MODULE KafkaConsumer ----------------------------
(***************************************************************************)
(* The consumer loop of platform/kafka/kafkaconsumer, run by every         *)
(* instance of the notification service, together with what it needs of    *)
(* the broker: the partition logs, the offsets committed by the group and  *)
(* the group coordinator.                                                  *)
(*                                                                         *)
(* An instance ("member") polls a batch, hands its records one by one to   *)
(* the handler, partition after partition, commits the records that        *)
(* succeeded, rewinds the partitions where one failed, lets the group      *)
(* rebalance and backs off after a failure.  Offsets are numbers from 0;   *)
(* committed[p] = n says that the group has committed records 0 .. n-1.    *)
(*                                                                         *)
(* The broker side is external to the repository (franz-go and Redpanda).  *)
(* It is modelled as far as the options given in New make it visible: no   *)
(* auto commit, rebalances blocked between a poll and AllowRebalance, a    *)
(* new owner starts at the committed offset or else at the start, the      *)
(* default cooperative balancer keeps the position of a retained           *)
(* partition, and a member the coordinator evicted learns of it late.      *)
(***************************************************************************)
EXTENDS Naturals, FiniteSets

CONSTANTS
    Members,          \* instances of the service, one kgo client each
    Partitions,       \* partitions of the consumed topics
    NoOne,            \* the owner of a partition nobody is assigned
    MaxOffset,        \* bound: records a partition's log may come to hold
    MaxPollRecords,   \* maxPollRecords of the Consumer
    Poison            \* records <<p, o>> the handler rejects for ever

ASSUME MembersAssumption == NoOne \notin Members
ASSUME BoundsAssumption  == MaxOffset \in Nat /\ MaxPollRecords \in Nat \ {0}
ASSUME PoisonAssumption  == Poison \subseteq Partitions \X Nat

VARIABLES
    logEnd,      \* logEnd[p]: number of records in the log of p
    committed,   \* committed[p]: offset the group committed for p
    joined,      \* members the coordinator counts in the group
    owner,       \* owner[p]: the member the coordinator assigned p to
    pc,          \* pc[m]: where the Run of m stands
    cancelled,   \* cancelled[m]: the context of Run is done
    assigned,    \* assigned[m]: partitions the client of m believes it owns
    from,        \* from[m][p]: first offset of the batch being processed
    next,        \* next[m][p]: next offset of p to hand to the handler
    position,    \* position[m][p]: next offset of p the client will fetch
    rewind,      \* rewind[m]: partitions of the batch whose record failed
    handled,     \* handled[p]: offsets the handler accepted (history)
    dropped,     \* dropped[p]: offsets polled beside a fetch error (history)
    calm         \* TRUE once the environment has stopped causing faults

broker  == <<logEnd, committed>>
group   == <<joined, owner>>
client  == <<assigned, from, next, position, rewind>>
history == <<handled, dropped>>
vars    == <<broker, group, pc, cancelled, client, history, calm>>

(* Where Run stands: in PollRecords, in process, in wait, or back from Run. *)
Locations == {"down", "poll", "process", "wait", "returned"}

Zero == [p \in Partitions |-> 0]

TypeOK ==
    /\ logEnd    \in [Partitions -> Nat]
    /\ committed \in [Partitions -> Nat]
    /\ joined    \in SUBSET Members
    /\ owner     \in [Partitions -> Members \cup {NoOne}]
    /\ pc        \in [Members -> Locations]
    /\ cancelled \in [Members -> BOOLEAN]
    /\ assigned  \in [Members -> SUBSET Partitions]
    /\ from      \in [Members -> [Partitions -> Nat]]
    /\ next      \in [Members -> [Partitions -> Nat]]
    /\ position  \in [Members -> [Partitions -> Nat]]
    /\ rewind    \in [Members -> SUBSET Partitions]
    /\ handled   \in [Partitions -> SUBSET Nat]
    /\ dropped   \in [Partitions -> SUBSET Nat]
    /\ calm      \in BOOLEAN

Init ==
    /\ logEnd    = Zero
    /\ committed = Zero
    /\ joined    = {}
    /\ owner     = [p \in Partitions |-> NoOne]
    /\ pc        = [m \in Members |-> "down"]
    /\ cancelled = [m \in Members |-> FALSE]
    /\ assigned  = [m \in Members |-> {}]
    /\ from      = [m \in Members |-> Zero]
    /\ next      = [m \in Members |-> Zero]
    /\ position  = [m \in Members |-> Zero]
    /\ rewind    = [m \in Members |-> {}]
    /\ handled   = [p \in Partitions |-> {}]
    /\ dropped   = [p \in Partitions |-> {}]
    /\ calm      = FALSE

-----------------------------------------------------------------------------
(* The loop of Run.                                                        *)

(* The records a poll returns when it moves the client of m up to end.     *)
Fetched(m, end) ==
    UNION {{p} \X {o \in 0 .. (end[p] - 1) : position[m][p] <= o} : p \in Partitions}

(* A poll takes what is fetched of the assigned partitions, in order and   *)
(* at most MaxPollRecords records in all.                                  *)
CanFetch(m, end) ==
    /\ \A p \in Partitions : IF p \in assigned[m]
                             THEN position[m][p] <= end[p] /\ end[p] <= logEnd[p]
                             ELSE end[p] = position[m][p]
    /\ Cardinality(Fetched(m, end)) <= MaxPollRecords

(* PollRecords returns records and no error: the batch is end past the     *)
(* position.  From here to AllowRebalance the member blocks rebalances.    *)
PollRecords(m, end) ==
    /\ pc[m] = "poll" /\ ~cancelled[m]
    /\ CanFetch(m, end) /\ end # position[m]
    /\ pc' = [pc EXCEPT ![m] = "process"]
    /\ position' = [position EXCEPT ![m] = end]
    /\ UNCHANGED <<broker, group, cancelled, assigned, from, next, rewind, history, calm>>

(* PollRecords returns an error, of one partition or of the client, and    *)
(* possibly records of healthy partitions with it.  Run reports the error, *)
(* allows the rebalance and waits; it looks at none of the records, and    *)
(* the client has moved past them.                                         *)
FetchError(m, end) ==
    /\ pc[m] = "poll" /\ ~cancelled[m] /\ ~calm
    /\ CanFetch(m, end)
    /\ pc' = [pc EXCEPT ![m] = "wait"]
    /\ position' = [position EXCEPT ![m] = end]
    /\ next' = [next EXCEPT ![m] = end]
    /\ from' = [from EXCEPT ![m] = end]
    /\ dropped' = [p \in Partitions |->
                      dropped[p] \cup {o \in 0 .. (end[p] - 1) : position[m][p] <= o}]
    /\ UNCHANGED <<broker, group, cancelled, assigned, rewind, handled, calm>>

(* The record of p the loop of process is at.  EachPartition finishes a    *)
(* partition, or stops at its first failure, before it starts another.     *)
Pending(m, p) == next[m][p] < position[m][p] /\ p \notin rewind[m]
Begun(m, p)   == from[m][p] < next[m][p] /\ Pending(m, p)
AtRecord(m, p) ==
    /\ pc[m] = "process"
    /\ Pending(m, p)
    /\ \A q \in Partitions \ {p} : ~Begun(m, q)

(* The handler accepts the record: it joins the processed ones.            *)
HandlerAccepts(m, p) ==
    /\ AtRecord(m, p)
    /\ next' = [next EXCEPT ![m][p] = @ + 1]
    /\ handled' = [handled EXCEPT ![p] = @ \cup {next[m][p]}]
    /\ UNCHANGED <<broker, group, pc, cancelled, assigned, from, position, rewind, dropped, calm>>

(* Mutant: the loop goes on with the next record of the partition.         *)
HandlerFails_GoesOn(m, p) ==
    /\ AtRecord(m, p)
    /\ next' = [next EXCEPT ![m][p] = @ + 1]
    /\ UNCHANGED <<broker, group, pc, cancelled, assigned, from, position, rewind, history, calm>>

(* The handler returns an error: the offset of the record is noted for     *)
(* the rewind and the rest of the partition's batch is left alone.         *)
HandlerFails(m, p) ==
    /\ AtRecord(m, p)
    /\ rewind' = [rewind EXCEPT ![m] = @ \cup {p}]
    /\ UNCHANGED <<broker, group, pc, cancelled, assigned, from, next, position, history, calm>>

(* processRecord with a handler that rejects poison always, and any other  *)
(* record now and then.                                                    *)
HandlerOk(m, p) == <<p, next[m][p]>> \notin Poison /\ HandlerAccepts(m, p)
HandlerError(m, p) == (calm => <<p, next[m][p]>> \in Poison) /\ HandlerFails(m, p)

(* Where the client fetches next after process: the failed record of a     *)
(* stopped partition, the end of the batch in the others.                  *)
SetOffsets_NoRewind(m) == position[m]   \* mutant: SetOffsets is not called
SetOffsets(m) ==
    [p \in Partitions |-> IF p \in rewind[m] THEN next[m][p] ELSE position[m][p]]

(* The offsets the group has after a commit by m: one past the last        *)
(* processed record of every partition that has one.                       *)
CommitRecords(m) ==
    [p \in Partitions |-> IF from[m][p] < next[m][p] THEN next[m][p] ELSE committed[p]]

(* The rest of process once every partition is done or stopped, and the    *)
(* AllowRebalance after it.  One commit carries the processed records of   *)
(* every partition; it is rejected when the coordinator has evicted m and  *)
(* may fail otherwise, which is only reported.  SetOffsets then takes the  *)
(* stopped partitions back to their failed record.  A crash between the    *)
(* commit and SetOffsets is a crash after this step: both lose the client. *)
ProcessEnd(m) ==
    /\ pc[m] = "process"
    /\ \A p \in Partitions : ~Pending(m, p)
    /\ \/ /\ m \in joined
          /\ committed' = CommitRecords(m)
       \/ /\ m \notin joined \/ ~calm
          /\ UNCHANGED committed
    /\ position' = [position EXCEPT ![m] = SetOffsets(m)]
    /\ next' = [next EXCEPT ![m] = SetOffsets(m)]
    /\ from' = [from EXCEPT ![m] = SetOffsets(m)]
    /\ rewind' = [rewind EXCEPT ![m] = {}]
    /\ pc' = [pc EXCEPT ![m] = IF rewind[m] = {} THEN "poll" ELSE "wait"]
    /\ UNCHANGED <<logEnd, group, cancelled, assigned, history, calm>>

(* wait: the backoff elapses.  When the context is done as well, select    *)
(* may still choose the timer, and the next poll then ends Run.            *)
BackoffElapsed(m) ==
    /\ pc[m] = "wait"
    /\ pc' = [pc EXCEPT ![m] = "poll"]
    /\ UNCHANGED <<broker, group, cancelled, client, history, calm>>

(* Mutant: the context is not looked at after the poll.                    *)
RunReturns_FromWait(m) ==
    /\ pc[m] = "wait" /\ cancelled[m]
    /\ pc' = [pc EXCEPT ![m] = "returned"]
    /\ UNCHANGED <<broker, group, cancelled, client, history, calm>>

(* Run returns on a done context, from the poll or from the wait.          *)
RunReturns(m) ==
    /\ pc[m] \in {"poll", "wait"} /\ cancelled[m]
    /\ pc' = [pc EXCEPT ![m] = "returned"]
    /\ UNCHANGED <<broker, group, cancelled, client, history, calm>>

-----------------------------------------------------------------------------
(* The life of an instance.                                                *)

(* The client of m is gone, and with it everything it kept in memory.      *)
ForgetClient(m) ==
    /\ pc'        = [pc EXCEPT ![m] = "down"]
    /\ cancelled' = [cancelled EXCEPT ![m] = FALSE]
    /\ assigned'  = [assigned EXCEPT ![m] = {}]
    /\ from'      = [from EXCEPT ![m] = Zero]
    /\ next'      = [next EXCEPT ![m] = Zero]
    /\ position'  = [position EXCEPT ![m] = Zero]
    /\ rewind'    = [rewind EXCEPT ![m] = {}]

(* The coordinator takes m out of the group.                               *)
RemoveFromGroup(m) ==
    /\ joined' = joined \ {m}
    /\ owner'  = [p \in Partitions |-> IF owner[p] = m THEN NoOne ELSE owner[p]]

(* New and Run: the client has no partition until the group rebalances.    *)
Start(m) ==
    /\ pc[m] = "down" /\ m \notin joined
    /\ pc' = [pc EXCEPT ![m] = "poll"]
    /\ UNCHANGED <<broker, group, cancelled, client, history, calm>>

(* SIGTERM, or the failure of another server of the process: the context   *)
(* of Run is done.  It may happen at any point of the loop.                *)
Cancel(m) ==
    /\ pc[m] \in {"poll", "process", "wait"} /\ ~cancelled[m] /\ ~calm
    /\ cancelled' = [cancelled EXCEPT ![m] = TRUE]
    /\ UNCHANGED <<broker, group, pc, client, history, calm>>

(* Close after Run: the client leaves the group.                           *)
Close(m) ==
    /\ pc[m] = "returned"
    /\ ForgetClient(m)
    /\ RemoveFromGroup(m)
    /\ UNCHANGED <<broker, history, calm>>

(* The process dies, at any point; the coordinator has not noticed.        *)
Crash(m) ==
    /\ pc[m] # "down" /\ ~calm
    /\ ForgetClient(m)
    /\ UNCHANGED <<broker, group, history, calm>>

-----------------------------------------------------------------------------
(* The group coordinator and the producers: external.                      *)

(* A session or rebalance timeout evicts m: a dead member, one cut off     *)
(* from the broker, or one whose handler ran longer than the timeout.      *)
Evict(m) ==
    /\ m \in joined
    /\ calm => pc[m] = "down"
    /\ RemoveFromGroup(m)
    /\ UNCHANGED <<broker, pc, cancelled, client, history, calm>>

(* An evicted client finds out and drops its partitions.  While it         *)
(* processes a batch it blocks this, so it goes on with what it has.       *)
LosePartitions(m) ==
    /\ pc[m] \notin {"down", "process"}
    /\ m \notin joined /\ assigned[m] # {}
    /\ assigned' = [assigned EXCEPT ![m] = {}]
    /\ from'     = [from EXCEPT ![m] = Zero]
    /\ next'     = [next EXCEPT ![m] = Zero]
    /\ position' = [position EXCEPT ![m] = Zero]
    /\ UNCHANGED <<broker, group, pc, cancelled, rewind, history, calm>>

(* Mutants: a new owner starts at the start of the log, or at its end when *)
(* the group has committed nothing.                                        *)
Reassigned_AtStart(J, newOwner, offsets) ==
    [m \in Members |->
        IF m \in J
        THEN [p \in Partitions |->
                 IF newOwner[p] = m /\ p \in assigned[m] THEN offsets[m][p] ELSE 0]
        ELSE offsets[m]]
Reassigned_AtEnd(J, newOwner, offsets) ==
    [m \in Members |->
        IF m \in J
        THEN [p \in Partitions |->
                 IF newOwner[p] # m THEN 0
                 ELSE IF p \in assigned[m] THEN offsets[m][p]
                 ELSE IF committed[p] = 0 THEN logEnd[p] ELSE committed[p]]
        ELSE offsets[m]]

(* Offsets of a client after a rebalance: a retained partition keeps its   *)
(* offset, a new one starts where the group committed.                     *)
Reassigned(J, newOwner, offsets) ==
    [m \in Members |->
        IF m \in J
        THEN [p \in Partitions |->
                 IF newOwner[p] # m THEN 0
                 ELSE IF p \in assigned[m] THEN offsets[m][p]
                 ELSE committed[p]]
        ELSE offsets[m]]

(* Mutant: BlockRebalanceOnPoll is not set.  A member keeps the batch it   *)
(* is processing while its partitions go to others.                        *)
Rebalance_Unblocked(J, newOwner) ==
    /\ joined \subseteq J
    /\ J # joined \/ \E p \in Partitions : owner[p] = NoOne
    /\ \A m \in J : pc[m] # "down"
    /\ \A m \in J \ joined : assigned[m] = {}
    /\ joined'   = J
    /\ owner'    = newOwner
    /\ assigned' = [m \in Members |->
                       IF m \in J THEN {p \in Partitions : newOwner[p] = m} ELSE assigned[m]]
    /\ LET idle == {m \in J : pc[m] # "process"} IN
          /\ from'     = Reassigned(idle, newOwner, from)
          /\ next'     = Reassigned(idle, newOwner, next)
          /\ position' = Reassigned(idle, newOwner, position)
    /\ UNCHANGED <<broker, pc, cancelled, rewind, history, calm>>

(* Members J form the next generation.  A member that is between a poll    *)
(* and AllowRebalance holds the rebalance back; a dead one does until its  *)
(* session ends.                                                           *)
Rebalance(J, newOwner) ==
    /\ joined \subseteq J
    /\ J # joined \/ \E p \in Partitions : owner[p] = NoOne
    /\ \A m \in J : pc[m] \notin {"down", "process"}
    /\ \A m \in J \ joined : assigned[m] = {}
    /\ joined'   = J
    /\ owner'    = newOwner
    /\ assigned' = [m \in Members |->
                       IF m \in J THEN {p \in Partitions : newOwner[p] = m} ELSE assigned[m]]
    /\ from'     = Reassigned(J, newOwner, from)
    /\ next'     = Reassigned(J, newOwner, next)
    /\ position' = Reassigned(J, newOwner, position)
    /\ UNCHANGED <<broker, pc, cancelled, rewind, history, calm>>

(* A producer (Debezium) appends a record.                                 *)
Produce(p) ==
    /\ logEnd[p] < MaxOffset
    /\ logEnd' = [logEnd EXCEPT ![p] = @ + 1]
    /\ UNCHANGED <<committed, group, pc, cancelled, client, history, calm>>

(* From here on the environment causes no fault: no crash, no shutdown,    *)
(* no eviction of a live member, no failed fetch or commit, and the        *)
(* handler fails only on poison.                                           *)
FaultsStop ==
    /\ ~calm
    /\ calm' = TRUE
    /\ UNCHANGED <<broker, group, pc, cancelled, client, history>>

Ends == [Partitions -> 0 .. MaxOffset]

MemberStep(m) ==
    \/ \E end \in Ends : PollRecords(m, end)
    \/ \E end \in Ends : FetchError(m, end)
    \/ \E p \in Partitions : HandlerOk(m, p)
    \/ \E p \in Partitions : HandlerError(m, p)
    \/ ProcessEnd(m)
    \/ BackoffElapsed(m)
    \/ RunReturns(m)
    \/ Start(m)
    \/ Cancel(m)
    \/ Close(m)
    \/ Crash(m)
    \/ Evict(m)
    \/ LosePartitions(m)

Next ==
    \/ \E m \in Members : MemberStep(m)
    \/ \E J \in SUBSET Members : \E newOwner \in [Partitions -> J] : Rebalance(J, newOwner)
    \/ \E p \in Partitions : Produce(p)
    \/ FaultsStop

Spec == Init /\ [][Next]_vars

-----------------------------------------------------------------------------
(* Fairness.  The Go scheduler runs the loop, so every step of it that     *)
(* stays possible is taken; a handler call returns.  The environment stops *)
(* causing faults, instances are started again, sessions of dead members   *)
(* time out, the client tells an evicted member.  A rebalance gets its     *)
(* turn although members keep polling, because a poll waits for a pending  *)
(* rebalance, and no partition with records is left out by the client's    *)
(* polls for ever: both are recurrent, hence strong, conditions.           *)
Fairness ==
    /\ WF_vars(FaultsStop)
    /\ SF_vars(\E J \in SUBSET Members : \E newOwner \in [Partitions -> J] : Rebalance(J, newOwner))
    /\ \A m \in Members :
          /\ \A p \in Partitions :
                SF_vars(\E end \in Ends : end[p] # position[m][p] /\ PollRecords(m, end))
          /\ WF_vars(\E p \in Partitions : HandlerOk(m, p) \/ HandlerError(m, p))
          /\ WF_vars(ProcessEnd(m))
          /\ WF_vars(BackoffElapsed(m) \/ RunReturns(m))
          /\ WF_vars(Close(m))
          /\ WF_vars(Start(m))
          /\ WF_vars(pc[m] = "down" /\ Evict(m))
          /\ WF_vars(LosePartitions(m))

FairSpec == Spec /\ Fairness

-----------------------------------------------------------------------------
(* Safety.                                                                 *)

(* Every record of p before offset n was accepted by the handler or was    *)
(* discarded with a fetch error.                                           *)
Covered(p, n) == \A o \in 0 .. (n - 1) : o \in handled[p] \cup dropped[p]

(* The offset the group commits never passes a record nobody handled,      *)
(* whatever the crashes, evictions, failed commits and rewinds: what the   *)
(* at-least-once delivery of the notification service rests on.  The only  *)
(* records it may pass are those a failed poll discarded.                  *)
CommitCovered == \A p \in Partitions : Covered(p, committed[p])

(* Order within a partition: the handler accepts a record only after all   *)
(* the records before it, even when a failure rewinds the batch or a       *)
(* partition changes hands (TestConsumer_Run_HandlerErrorRewindsAndRetries *)
(* BeforeNextRecord tests one consumer and one failure).                   *)
HandledInOrder == \A p \in Partitions : \A o \in handled[p] : Covered(p, o)

(* Rebalances are held back while a batch is processed: a member the group *)
(* still counts owns every partition of the batch it is working on, so two *)
(* members work on the same record only if one of them has been evicted.   *)
BatchOwned ==
    \A m \in joined : \A p \in Partitions :
        pc[m] = "process" /\ from[m][p] < position[m][p] => owner[p] = m

(* The offsets the group commits never go back, so a commit by a member    *)
(* with an old view of its partitions cannot undo the work of a new owner. *)
CommittedNeverRewinds == [][\A p \in Partitions : committed'[p] >= committed[p]]_vars

(* The inductive invariant behind these properties, in named parts.        *)

(* A batch runs from from to position with next in between, and a          *)
(* partition the client does not believe it owns has no offsets.           *)
BatchBounds ==
    \A m \in Members : \A p \in Partitions :
        /\ from[m][p] <= next[m][p] /\ next[m][p] <= position[m][p]
        /\ p \notin assigned[m] => position[m][p] = 0

(* Outside process the client fetches on from the next unhandled record.   *)
IdleAtNext == \A m \in Members : pc[m] # "process" => position[m] = next[m]

(* No member, evicted or not, has gone past a record that is not covered.  *)
ReadCovered == \A m \in Members : \A p \in Partitions : Covered(p, next[m][p])

(* A member of the group believes it owns only what the coordinator gave   *)
(* it, and works at or after the committed offset there.                   *)
AssignedOwned == \A m \in joined : \A p \in assigned[m] : owner[p] = m
CommitBehind  == \A m \in joined : \A p \in assigned[m] : committed[p] <= from[m][p]

IndInv ==
    /\ TypeOK
    /\ BatchBounds
    /\ IdleAtNext
    /\ ReadCovered
    /\ AssignedOwned
    /\ CommitBehind
    /\ CommitCovered
    /\ HandledInOrder

(* What the group promises without the exception: everything below the     *)
(* committed offset was handled (the comment on process says it commits    *)
(* the successful records).                                                *)
OnlyHandledCommitted ==
    \A p \in Partitions : \A o \in 0 .. (committed[p] - 1) : o \in handled[p]

-----------------------------------------------------------------------------
(* Liveness.                                                               *)

Healthy(p, o) == \A q \in 0 .. o : <<p, q>> \notin Poison

(* Every produced record with no poison at or before it in its partition   *)
(* is handled, or was discarded with a fetch error: retries end, members   *)
(* come back, and poison in one partition does not stop another.           *)
HealthyRecordsHandled ==
    \A p \in Partitions : []<>(\A o \in 0 .. (MaxOffset - 1) :
        Healthy(p, o) /\ o < logEnd[p] => o \in handled[p] \cup dropped[p])

(* Shutdown is not held up: once its context is done, Run returns (or the  *)
(* process dies first), whatever the batch still holds.                    *)
CancelEndsRun == \A m \in Members : cancelled[m] ~> pc[m] \in {"returned", "down"}
=============================================================================
