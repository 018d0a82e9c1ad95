------------------------ MODULE NotificationPipeline ------------------------
(***************************************************************************)
(* From the committed order to the stored notification: the outbox table,  *)
(* Debezium, the topic, the consumer loop of every notification instance   *)
(* (KafkaConsumer) and the handler with its transaction                    *)
(* (NotificationHandler).  A consumer hands a record to the handler, the   *)
(* transaction runs step by step while other members, the group and the    *)
(* database move on, and its result is what the consumer sees.             *)
(*                                                                         *)
(* Debezium and the broker are external.  Debezium reads the outbox in     *)
(* commit order, publishes each row to the partition of its order          *)
(* (EventRouter, key aggregate_id) and remembers how far it got; after a   *)
(* restart it publishes again what it had not yet remembered.              *)
(***************************************************************************)
EXTENDS Sequences, Functions, KafkaConsumer, NotificationHandler

CONSTANTS
    PartitionOf,    \* partition of the order an event belongs to
    OtherKinds      \* kinds of the messages other producers publish

ASSUME PartitionOfAssumption == PartitionOf \in [Events -> Partitions]
ASSUME OtherKindsAssumption  == OtherKinds \subseteq {"invalid", "unknown", "foreign"}

(* The members of the group are the workers of the handler, which alone    *)
(* decides what it rejects; NoOne stands for no partition as well.         *)
ASSUME CompositionAssumption ==
    Workers = Members /\ Poison = {} /\ NoOne \notin Partitions

(* Bound: the modelled log of a partition has room for every event.        *)
ASSUME RoomAssumption == IsFiniteSet(Events) /\ Cardinality(Events) <= MaxOffset

VARIABLES
    outbox,      \* rows of outbox_events in commit order
    sent,        \* rows Debezium has published since its start
    confirmed,   \* rows Debezium resumes after
    log,         \* log[p]: the messages of partition p, logEnd[p] of them
    serving      \* serving[m]: partition of the record in the handler

source   == <<outbox, sent, confirmed>>
topic    == <<log, logEnd>>
consumer == <<committed, group, pc, cancelled, client, history, calm>>
handler  == <<tables, calls, orphans>>
pvars    == <<source, topic, serving, consumer, handler>>

PipelineTypeOK ==
    /\ TypeOK
    /\ HandlerTypeOK
    /\ outbox \in Seq(Events)
    /\ sent \in Nat /\ confirmed \in Nat
    /\ confirmed <= sent /\ sent <= Len(outbox)
    /\ log \in [Partitions -> Seq(Messages)]
    /\ \A p \in Partitions : logEnd[p] = Len(log[p])
    /\ serving \in [Members -> Partitions \cup {NoOne}]

PipelineInit ==
    /\ Init
    /\ HandlerInit
    /\ outbox = <<>> /\ sent = 0 /\ confirmed = 0
    /\ log = [p \in Partitions |-> <<>>]
    /\ serving = [m \in Members |-> NoOne]

-----------------------------------------------------------------------------
(* The order service and Debezium.                                         *)

Publish(p, msg) ==
    /\ log' = [log EXCEPT ![p] = Append(@, msg)]
    /\ logEnd' = [logEnd EXCEPT ![p] = @ + 1]
Created(e) == [kind |-> "created", event |-> e]

(* Mutant: the event goes to the topic, the transaction is rolled back.    *)
OrderCommitted_DualWrite(e) ==
    /\ e \notin Range(outbox)
    /\ logEnd[PartitionOf[e]] < MaxOffset
    /\ Publish(PartitionOf[e], Created(e))
    /\ UNCHANGED <<source, serving, consumer, handler>>

(* CreateOrder commits an order and its outbox row.                        *)
OrderCommitted(e) ==
    /\ e \notin Range(outbox)
    /\ outbox' = Append(outbox, e)
    /\ UNCHANGED <<sent, confirmed, topic, serving, consumer, handler>>

(* Debezium publishes the next row of the outbox.                          *)
CdcPublish ==
    /\ sent < Len(outbox)
    /\ LET e == outbox[sent + 1] IN Publish(PartitionOf[e], Created(e))
    /\ sent' = sent + 1
    /\ UNCHANGED <<outbox, confirmed, serving, consumer, handler>>

(* Mutant: the position is remembered before the row is published.         *)
CdcConfirm_Early ==
    /\ confirmed < Len(outbox)
    /\ confirmed' = confirmed + 1
    /\ sent' = confirmed + 1
    /\ UNCHANGED <<outbox, topic, serving, consumer, handler>>

(* Mutant: it remembers the position of the next row.                      *)
CdcConfirm_OneMore ==
    /\ confirmed < sent
    /\ confirmed' = sent + 1
    /\ UNCHANGED <<outbox, sent, topic, serving, consumer, handler>>

(* Debezium remembers that the rows it has published are done.             *)
CdcConfirm ==
    /\ confirmed < sent
    /\ confirmed' = sent
    /\ UNCHANGED <<outbox, sent, topic, serving, consumer, handler>>

(* Bound: p can take n more messages and still every row not confirmed, so *)
(* that the end of the modelled log never stops Debezium.                  *)
Room(p, n) == logEnd[p] + n + Cardinality(Events) - confirmed <= MaxOffset

(* After a restart Debezium resumes after the last row it remembered.      *)
CdcRestart ==
    /\ ~calm /\ confirmed < sent
    /\ \A p \in Partitions : Room(p, 0)
    /\ sent' = confirmed
    /\ UNCHANGED <<outbox, confirmed, topic, serving, consumer, handler>>

(* A message that is not an order event the service can read.              *)
OtherMessage(p) ==
    /\ ~calm /\ Room(p, 1) /\ sent = confirmed
    /\ \E kind \in OtherKinds : \E e \in Events : Publish(p, [kind |-> kind, event |-> e])
    /\ UNCHANGED <<source, serving, consumer, handler>>

-----------------------------------------------------------------------------
(* A notification instance.                                                *)

(* processRecord calls the handler with the record of p.                   *)
CallHandler(m, p) ==
    /\ serving[m] = NoOne
    /\ AtRecord(m, p)
    /\ Handle(m, log[p][next[m][p] + 1])
    /\ serving' = [serving EXCEPT ![m] = p]
    /\ UNCHANGED <<source, topic, consumer>>

HandlerProgress(m) ==
    /\ CallProgress(m)
    /\ UNCHANGED <<source, topic, serving, consumer>>

HandlerFault(m) ==
    /\ ~calm
    /\ CallFault(m)
    /\ UNCHANGED <<source, topic, serving, consumer>>

(* Mutant: the error of the handler is only logged.                        *)
HandlerReturns_AnyResult(m, p) ==
    /\ serving[m] = p
    /\ UNCHANGED <<source, log>>
    /\ HandlerAccepts(m, p)
    /\ Return(m)
    /\ serving' = [serving EXCEPT ![m] = NoOne]

(* The handler returns, and processRecord with it.                         *)
HandlerReturns(m, p) ==
    /\ serving[m] = p
    /\ UNCHANGED <<source, log>>
    /\ \/ at[m] = "ok" /\ HandlerAccepts(m, p)
       \/ at[m] = "failed" /\ HandlerFails(m, p)
    /\ Return(m)
    /\ serving' = [serving EXCEPT ![m] = NoOne]

(* The process dies, in the handler or outside it.                         *)
ProcessDies(m) ==
    /\ UNCHANGED <<source, log>>
    /\ Crash(m)
    /\ IF at[m] = "idle" THEN UNCHANGED handler ELSE Die(m)
    /\ serving' = [serving EXCEPT ![m] = NoOne]

(* A step of the loop around the handler, or of the consumer group.        *)
Loop(A) == UNCHANGED <<source, log, serving, handler>> /\ A

LoopStep(m) ==
    \/ \E end \in Ends : Loop(PollRecords(m, end)) \/ Loop(FetchError(m, end))
    \/ Loop(ProcessEnd(m))
    \/ Loop(BackoffElapsed(m))
    \/ Loop(RunReturns(m))
    \/ Loop(Start(m))
    \/ Loop(Cancel(m))
    \/ Loop(Close(m))
    \/ Loop(Evict(m))
    \/ Loop(LosePartitions(m))

GroupStep ==
    \E J \in SUBSET Members : \E newOwner \in [Partitions -> J] : Loop(Rebalance(J, newOwner))

FaultsEnd == Loop(FaultsStop)

SessionEnds(e) ==
    /\ ServerRollback(e)
    /\ UNCHANGED <<source, topic, serving, consumer>>

PipelineNext ==
    \/ \E e \in Events : OrderCommitted(e) \/ SessionEnds(e)
    \/ CdcPublish \/ CdcConfirm \/ CdcRestart
    \/ \E p \in Partitions : OtherMessage(p)
    \/ \E m \in Members :
          \/ \E p \in Partitions : CallHandler(m, p) \/ HandlerReturns(m, p)
          \/ HandlerProgress(m)
          \/ HandlerFault(m)
          \/ ProcessDies(m)
          \/ LoopStep(m)
    \/ GroupStep
    \/ FaultsEnd

PipelineSpec == PipelineInit /\ [][PipelineNext]_pvars

(* Fairness: that of KafkaConsumer and of NotificationHandler, except that *)
(* the progress of a call is one strongly fair action, and Debezium keeps  *)
(* publishing and remembering.                                             *)
PipelineFairness ==
    /\ WF_pvars(CdcPublish) /\ WF_pvars(CdcConfirm)
    /\ WF_pvars(FaultsEnd)
    /\ SF_pvars(GroupStep)
    /\ \A e \in Events : WF_pvars(SessionEnds(e))
    /\ \A m \in Members :
          /\ \A p \in Partitions :
                SF_pvars(\E end \in Ends : end[p] # position[m][p] /\ Loop(PollRecords(m, end)))
          /\ WF_pvars(\E p \in Partitions : CallHandler(m, p) \/ HandlerReturns(m, p))
          /\ SF_pvars(HandlerProgress(m))
          /\ WF_pvars(Loop(ProcessEnd(m)))
          /\ WF_pvars(Loop(BackoffElapsed(m)) \/ Loop(RunReturns(m)))
          /\ WF_pvars(Loop(Close(m)))
          /\ WF_pvars(Loop(Start(m)))
          /\ WF_pvars(pc[m] = "down" /\ Loop(Evict(m)))
          /\ WF_pvars(Loop(LosePartitions(m)))

FairPipelineSpec == PipelineSpec /\ PipelineFairness

-----------------------------------------------------------------------------
(* End to end safety.                                                      *)

(* The message at offset o of p has had its effect: it is no order event,  *)
(* or the notifications of its event are stored.                           *)
Notified(e) == {e} \X Channels \subseteq notes
Done(p, o) ==
    LET msg == log[p][o + 1] IN
    CASE msg.kind = "created" -> Notified(msg.event)
      [] msg.kind = "invalid" -> FALSE
      [] OTHER -> TRUE

(* The group commits past an order event only when its notifications are   *)
(* in the database (or the record was discarded with a fetch error), and   *)
(* never past a message that cannot be parsed: a crash or a new owner      *)
(* right after the commit misses nothing.                                  *)
CommittedMeansNotified ==
    \A p \in Partitions : \A o \in 0 .. (committed[p] - 1) :
        Done(p, o) \/ o \in dropped[p]

(* While a message that does not parse stands in a partition, the group's  *)
(* offset stays before it and no later message of the partition is handled *)
(* (consumer integration test, "an invalid message blocks the partition"), *)
(* unless a failed poll has discarded it.                                  *)
InvalidBlocks ==
    \A p \in Partitions : \A o \in 0 .. (Len(log[p]) - 1) :
        log[p][o + 1].kind = "invalid" =>
            /\ o \notin handled[p]
            /\ o \in dropped[p] \/ (committed[p] <= o /\ \A later \in handled[p] : later < o)

(* The events that a failed poll may have lost.                            *)
LostEvents ==
    {e \in Range(outbox) : \E o \in dropped[PartitionOf[e]] :
        LET msg == log[PartitionOf[e]][o + 1] IN msg.kind = "created" /\ msg.event = e}

(* The orders of a partition are notified in the order they were           *)
(* committed: Debezium publishes by aggregate_id, and no restart of it or  *)
(* of a member, failure of the handler or new owner lets a later event     *)
(* overtake an earlier one.  Only one that may be lost can be missing.     *)
NotifiedInOrder ==
    \A i, j \in DOMAIN outbox :
        /\ i < j /\ PartitionOf[outbox[i]] = PartitionOf[outbox[j]]
        /\ Notified(outbox[j])
        => Notified(outbox[i]) \/ outbox[i] \in LostEvents

-----------------------------------------------------------------------------
(* What makes these inductive, beside the invariants of the consumer and   *)
(* of the handler.                                                         *)

(* The group and its members stay within the log.                          *)
WithinLog ==
    \A p \in Partitions :
        /\ committed[p] <= logEnd[p]
        /\ \A m \in Members : position[m][p] <= logEnd[p]
        /\ \A o \in handled[p] \cup dropped[p] : o < logEnd[p]

(* A member is in the handler exactly while it serves a record, and the    *)
(* call is the one that this record leads to.                              *)
Record(m) == log[serving[m]][next[m][serving[m]] + 1]
Serves(m) ==
    /\ serving[m] = NoOne <=> at[m] = "idle"
    /\ serving[m] # NoOne =>
          /\ AtRecord(m, serving[m])
          /\ Record(m).kind = "created" => event[m] = Record(m).event
          /\ at[m] \in {"begin", "claim", "create"} => Record(m).kind = "created"
          /\ at[m] = "ok" => Record(m).kind # "invalid"
ServesRecord == \A m \in Members : Serves(m)

(* What was accepted has had its effect, and order events are in the topic *)
(* only if they were committed with their order.                           *)
HandledDone == \A p \in Partitions : \A o \in handled[p] : Done(p, o)
LogFromOutbox ==
    \A p \in Partitions : \A i \in DOMAIN log[p] :
        log[p][i].kind = "created" => log[p][i].event \in Range(outbox)

(* Order, from the outbox to the notifications.  Debezium has published    *)
(* what it has passed; a row enters its partition only behind every        *)
(* earlier row of that partition, when it is published again as well; and  *)
(* a notified event stands in its partition behind messages that are all   *)
(* done or discarded.                                                      *)
SentPublished ==
    \A i \in 1 .. sent : Created(outbox[i]) \in Range(log[PartitionOf[outbox[i]]])
Behind(p, k, j) ==
    \A i \in 1 .. (j - 1) :
        PartitionOf[outbox[i]] = p => \E l \in 1 .. (k - 1) : log[p][l] = Created(outbox[i])
LogInOutboxOrder ==
    \A p \in Partitions : \A k \in DOMAIN log[p] : log[p][k].kind = "created" =>
        \E j \in DOMAIN outbox :
            /\ log[p][k] = Created(outbox[j]) /\ PartitionOf[outbox[j]] = p
            /\ Behind(p, k, j)
Passed(p, k) == \A o \in 0 .. (k - 2) : Done(p, o) \/ o \in dropped[p]
NotifiedFromLog ==
    \A e \in Events : Notified(e) =>
        \E k \in DOMAIN log[PartitionOf[e]] :
            log[PartitionOf[e]][k] = Created(e) /\ Passed(PartitionOf[e], k)
OutboxOrder ==
    IsInjective(outbox) /\ SentPublished /\ LogInOutboxOrder /\ NotifiedFromLog

(* The bound on the log never stops Debezium.                              *)
EventsFit == \A p \in Partitions : logEnd[p] + Cardinality(Events) - sent <= MaxOffset

(* The inductive invariant.                                                *)
PipelineInv ==
    /\ PipelineTypeOK
    /\ IndInv
    /\ HandlerInv
    /\ WithinLog /\ ServesRecord /\ HandledDone /\ LogFromOutbox
    /\ OutboxOrder /\ EventsFit

-----------------------------------------------------------------------------
(* The promise to the rest of the backend: EventDelivery, with an event    *)
(* lost at worst when a poll that read it failed.                          *)
D == INSTANCE EventDelivery
         WITH accepted <- Range(outbox),
              delivered <- {e \in Events : Notified(e)},
              lost <- LostEvents

(* The consumers see of the handler only whether it accepts a record and   *)
(* of Debezium only that the log grows, so they do what KafkaConsumer      *)
(* lets them do.  There calm bounds the failures of a handler without      *)
(* poison; here the handler's own faults do, hence FALSE for calm.         *)
K == INSTANCE KafkaConsumer WITH calm <- FALSE

DeliveryRefined == D!Delivery
ConsumersRefined == K!Spec
EveryOrderNotified == D!EventuallyDelivered
=============================================================================
