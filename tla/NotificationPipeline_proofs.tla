--------------------- MODULE NotificationPipeline_proofs ---------------------
(***************************************************************************)
(* Proofs about NotificationPipeline for every set of members, partitions, *)
(* events and channels: a committed offset means stored notifications, an  *)
(* event is notified once, an invalid message blocks its partition, and    *)
(* the pipeline keeps the promise of EventDelivery.  The invariants of the *)
(* consumer and of the handler hold of the composition by the lemmas of    *)
(* their own proofs.                                                       *)
(***************************************************************************)
EXTENDS NotificationPipeline, KafkaConsumer_proofs, NotificationHandler_proofs,
        FiniteSetTheorems

-----------------------------------------------------------------------------
(* The steps, by what they change.                                         *)

(* A step of the loop, of the group or of the environment of the members.  *)
ConsumerMove ==
    \/ \E m \in Members :
          \/ \E end \in Ends : PollRecords(m, end) \/ FetchError(m, end)
          \/ ProcessEnd(m) \/ BackoffElapsed(m) \/ RunReturns(m) \/ Start(m) \/ Cancel(m)
          \/ Close(m) \/ Evict(m) \/ LosePartitions(m)
    \/ \E J \in SUBSET Members : \E newOwner \in [Partitions -> J] : Rebalance(J, newOwner)
    \/ FaultsStop

ConsumerStep == ConsumerMove /\ UNCHANGED <<source, log, serving, handler>>

(* A step of the order service or of Debezium that publishes nothing.      *)
SourceStep == (\E e \in Events : OrderCommitted(e)) \/ CdcConfirm \/ CdcRestart

(* A message joins the topic.                                              *)
PublishStep == CdcPublish \/ \E p \in Partitions : OtherMessage(p)

(* A step within a call of the handler, or of the database.                *)
CallStep ==
    \/ \E m \in Members : HandlerProgress(m) \/ HandlerFault(m)
    \/ \E e \in Events : SessionEnds(e)

LEMMA PipelineCases ==
    ASSUME [PipelineNext]_pvars
    PROVE  \/ ConsumerStep \/ SourceStep \/ PublishStep \/ CallStep
           \/ \E m \in Members, p \in Partitions : CallHandler(m, p)
           \/ \E m \in Members, p \in Partitions : HandlerReturns(m, p)
           \/ \E m \in Members : ProcessDies(m)
           \/ UNCHANGED pvars
<1>1. CASE \E m \in Members : LoopStep(m)
  BY <1>1 DEF LoopStep, Loop, ConsumerStep, ConsumerMove
<1>2. CASE GroupStep \/ FaultsEnd
  BY <1>2 DEF GroupStep, FaultsEnd, Loop, ConsumerStep, ConsumerMove
<1>3. QED
  BY <1>1, <1>2 DEF PipelineNext, SourceStep, PublishStep, CallStep

(* What the consumer and the handler see of the steps.                     *)
LEMMA ConsumerMoves == ConsumerMove => Next
  BY DEF ConsumerMove, Next, MemberStep

LEMMA HandlerMoves ==
    ASSUME [PipelineNext]_pvars, PipelineInv
    PROVE  [HandlerNext]_hvars
<1>0. Workers = Members
  BY CompositionAssumption
<1>1. CASE CallStep
  BY <1>0, <1>1 DEF CallStep, HandlerProgress, HandlerFault, SessionEnds, HandlerNext
<1>2. ASSUME NEW m \in Members, NEW p \in Partitions, CallHandler(m, p)
      PROVE  [HandlerNext]_hvars
  <2>1. next[m][p] + 1 \in DOMAIN log[p]
    <3>1. next[m][p] < position[m][p] /\ position[m][p] <= logEnd[p] /\ logEnd[p] = Len(log[p])
      BY <1>2 DEF CallHandler, AtRecord, Pending, PipelineInv, WithinLog, PipelineTypeOK
    <3>2. /\ next[m][p] \in Nat /\ position[m][p] \in Nat /\ logEnd[p] \in Nat
          /\ log[p] \in Seq(Messages)
      BY DEF PipelineInv, PipelineTypeOK, TypeOK
    <3>3. QED
      BY <3>1, <3>2
  <2>2. log[p][next[m][p] + 1] \in Messages
    BY <2>1 DEF PipelineInv, PipelineTypeOK
  <2>3. Handle(m, log[p][next[m][p] + 1])
    BY <1>2 DEF CallHandler
  <2>4. QED
    BY <1>0, <2>2, <2>3 DEF HandlerNext
<1>3. ASSUME NEW m \in Members, NEW p \in Partitions, HandlerReturns(m, p)
      PROVE  [HandlerNext]_hvars
  BY <1>0, <1>3 DEF HandlerReturns, HandlerNext
<1>4. ASSUME NEW m \in Members, ProcessDies(m) PROVE [HandlerNext]_hvars
  BY <1>0, <1>4 DEF ProcessDies, HandlerNext, handler, hvars
<1>5. CASE ConsumerStep \/ SourceStep \/ PublishStep \/ UNCHANGED pvars
  <2>1. UNCHANGED handler
    BY <1>5 DEF ConsumerStep, SourceStep, PublishStep, OrderCommitted, CdcConfirm, CdcRestart,
           CdcPublish, OtherMessage, pvars
  <2>2. QED
    BY <2>1 DEF handler, hvars
<1>6. QED
  BY <1>1, <1>2, <1>3, <1>4, <1>5, PipelineCases

(* A publication appends one message, and an order event only from the     *)
(* outbox.                                                                 *)
LEMMA Publication ==
    ASSUME PipelineInv, PublishStep
    PROVE  /\ \E p \in Partitions : \E msg \in Messages :
                 /\ Publish(p, msg)
                 /\ msg.kind = "created" => msg.event \in Range(outbox)
           /\ UNCHANGED <<outbox, confirmed, serving, consumer, handler>>
           /\ sent' \in Nat /\ confirmed <= sent' /\ sent' <= Len(outbox)
<1>1. /\ outbox \in Seq(Events) /\ sent \in Nat /\ confirmed \in Nat
      /\ confirmed <= sent /\ sent <= Len(outbox)
  BY DEF PipelineInv, PipelineTypeOK
<1>2. CASE CdcPublish
  <2>1. sent + 1 \in DOMAIN outbox /\ sent < Len(outbox) /\ Len(outbox) \in Nat
    BY <1>1, <1>2 DEF CdcPublish
  <2>2. outbox[sent + 1] \in Events /\ outbox[sent + 1] \in Range(outbox)
    BY <1>1, <2>1 DEF Range
  <2>3. PICK e \in Events : e = outbox[sent + 1]
    BY <2>2
  <2>4. PartitionOf[e] \in Partitions /\ Created(e) \in Messages /\ Created(e).event = e
    BY PartitionOfAssumption DEF Created, Messages, Kinds
  <2>5. /\ Publish(PartitionOf[e], Created(e)) /\ sent' = sent + 1
        /\ UNCHANGED <<outbox, confirmed, serving, consumer, handler>>
    BY <1>2, <2>3 DEF CdcPublish
  <2>6. QED
    BY <1>1, <2>1, <2>2, <2>3, <2>4, <2>5
<1>3. ASSUME NEW p \in Partitions, OtherMessage(p)
      PROVE  /\ \E msg \in Messages :
                   /\ Publish(p, msg)
                   /\ msg.kind = "created" => msg.event \in Range(outbox)
             /\ UNCHANGED <<source, serving, consumer, handler>>
  <2>1. PICK kind \in OtherKinds, e \in Events : Publish(p, [kind |-> kind, event |-> e])
    BY <1>3 DEF OtherMessage
  <2>2. [kind |-> kind, event |-> e] \in Messages /\ kind # "created"
    BY OtherKindsAssumption DEF Messages, Kinds
  <2>3. UNCHANGED <<source, serving, consumer, handler>>
    BY <1>3 DEF OtherMessage
  <2>4. [kind |-> kind, event |-> e].kind # "created"
    BY <2>2
  <2>5. QED
    BY <2>1, <2>2, <2>3, <2>4
<1>4. QED
  BY <1>1, <1>2, <1>3 DEF PublishStep, source


-----------------------------------------------------------------------------
(* The invariants of the parts.                                            *)

(* There is a channel to notify on, so that no event is notified at first. *)
LEMMA NothingNotified ==
    ASSUME PipelineInit, NEW e \in Events
    PROVE  ~Notified(e)
<1>1. PICK c \in Channels : TRUE
  BY ChannelsAssumption
<1>2. notes = {} /\ <<e, c>> \in {e} \X Channels
  BY DEF PipelineInit, HandlerInit
<1>3. QED
  BY <1>2 DEF Notified

LEMMA PipelineInvInit == PipelineInit => PipelineInv
<1> SUFFICES ASSUME PipelineInit PROVE PipelineInv
  OBVIOUS
<1>1. TypeOK /\ IndInv /\ HandlerTypeOK /\ HandlerInv
  BY TypeInit, IndInit, HandlerInvInit DEF PipelineInit, HandlerInv
<1>2. /\ outbox = <<>> /\ sent = 0 /\ confirmed = 0 /\ logEnd = Zero
      /\ log = [p \in Partitions |-> <<>>] /\ serving = [m \in Members |-> NoOne]
      /\ \A p \in Partitions : Len(log[p]) = 0 /\ logEnd[p] = 0 /\ DOMAIN log[p] = {}
  BY DEF PipelineInit, Init, Zero
<1>3. PipelineTypeOK
  BY <1>1, <1>2 DEF PipelineTypeOK
<1>4. WithinLog /\ HandledDone
  BY <1>2 DEF PipelineInit, Init, Zero, WithinLog, HandledDone
<1>5. ServesRecord
  BY <1>2, CompositionAssumption DEF PipelineInit, HandlerInit, ServesRecord, Serves
<1>6. LogFromOutbox
  BY <1>2 DEF LogFromOutbox
<1>7. OutboxOrder
  <2>1. NotifiedFromLog
    BY NothingNotified DEF NotifiedFromLog
  <2>2. IsInjective(outbox) /\ SentPublished /\ LogInOutboxOrder
    BY <1>2 DEF IsInjective, SentPublished, LogInOutboxOrder
  <2>3. QED
    BY <2>1, <2>2 DEF OutboxOrder
<1>8. EventsFit
  BY <1>2, RoomAssumption, BoundsAssumption, FS_CardinalityType DEF EventsFit
<1>9. QED
  BY <1>1, <1>3, <1>4, <1>5, <1>6, <1>7, <1>8 DEF PipelineInv

(* A publication is a Produce as far as the consumers go.                  *)
LEMMA ProduceStep ==
    ASSUME IndInv, NEW p \in Partitions, NEW msg, Publish(p, msg), UNCHANGED consumer
    PROVE  IndInv'
<1>1. TypeOK'
  BY DEF IndInv, TypeOK, Publish, consumer, group, client, history
<1>2. QED
  BY <1>1, FrameStep DEF consumer, group, client, history

(* The handler's error, whether or not faults have stopped.                *)
LEMMA FailureStep ==
    ASSUME IndInv, NEW m \in Members, NEW p \in Partitions, HandlerFails(m, p)
    PROVE  IndInv'
<1>1. TypeOK'
  BY DEF IndInv, TypeOK, HandlerFails, broker, group, history
<1>2. QED
  BY <1>1, FrameStep DEF HandlerFails, broker, group, history

LEMMA ConsumerKept ==
    ASSUME PipelineInv, [PipelineNext]_pvars
    PROVE  IndInv'
<1>0. IndInv
  BY DEF PipelineInv
<1>1. CASE ConsumerStep
  BY <1>0, <1>1, ConsumerMoves, IndStep DEF ConsumerStep
<1>2. CASE PublishStep
  BY <1>0, <1>2, Publication, ProduceStep
<1>3. ASSUME NEW m \in Members, NEW p \in Partitions, HandlerReturns(m, p)
      PROVE  IndInv'
  <2>1. CASE HandlerAccepts(m, p)
    <3>1. HandlerOk(m, p)
      BY <2>1, CompositionAssumption DEF HandlerOk
    <3>2. Next
      BY <3>1 DEF Next, MemberStep
    <3>3. QED
      BY <1>0, <3>2, IndStep
  <2>2. CASE HandlerFails(m, p)
    BY <1>0, <2>2, FailureStep
  <2>3. QED
    BY <1>3, <2>1, <2>2 DEF HandlerReturns
<1>4. ASSUME NEW m \in Members, ProcessDies(m) PROVE IndInv'
  <2>1. Next
    BY <1>4 DEF ProcessDies, Next, MemberStep
  <2>2. QED
    BY <1>0, <2>1, IndStep
<1>5. CASE \/ SourceStep \/ CallStep \/ UNCHANGED pvars
           \/ \E m \in Members, p \in Partitions : CallHandler(m, p)
  <2>1. UNCHANGED <<topic, consumer>>
    BY <1>5 DEF SourceStep, CallStep, CallHandler, OrderCommitted, CdcConfirm, CdcRestart,
       HandlerProgress, HandlerFault, SessionEnds, pvars
  <2>2. UNCHANGED vars
    BY <2>1 DEF topic, consumer, vars, broker
  <2>3. QED
    BY <1>0, <2>2, IndStep
<1>6. QED
  BY <1>1, <1>2, <1>3, <1>4, <1>5, PipelineCases

LEMMA HandlerKept ==
    ASSUME PipelineInv, [PipelineNext]_pvars
    PROVE  HandlerInv'
  BY HandlerMoves, HandlerInvStep DEF PipelineInv

-----------------------------------------------------------------------------
(* What only grows, and what the loop leaves alone.                        *)

(* A message appended to a partition changes none of the others.           *)
LEMMA AppendKeeps ==
    ASSUME PipelineTypeOK, NEW q \in Partitions, NEW msg \in Messages, Publish(q, msg),
           NEW p \in Partitions
    PROVE  /\ log' \in [Partitions -> Seq(Messages)]
           /\ logEnd'[p] = Len(log'[p]) /\ logEnd[p] <= logEnd'[p]
           /\ \A i \in 1 .. logEnd[p] : log'[p][i] = log[p][i]
           /\ \A i \in DOMAIN log'[p] : i \in DOMAIN log[p] \/ log'[p][i] = msg
<1> USE DEF PipelineTypeOK, TypeOK
<1>1. log[q] \in Seq(Messages) /\ log[p] \in Seq(Messages) /\ Len(log[p]) \in Nat
  OBVIOUS
<1>2. /\ Append(log[q], msg) \in Seq(Messages)
      /\ Len(Append(log[q], msg)) = Len(log[q]) + 1
      /\ DOMAIN Append(log[q], msg) = 1 .. Len(log[q]) + 1
      /\ \A i \in 1 .. Len(log[q]) : Append(log[q], msg)[i] = log[q][i]
      /\ Append(log[q], msg)[Len(log[q]) + 1] = msg
  BY <1>1
<1>3. PICK longer \in Seq(Messages) : longer = Append(log[q], msg)
  BY <1>2
<1>4. log' = [log EXCEPT ![q] = longer] /\ logEnd' = [logEnd EXCEPT ![q] = @ + 1]
  BY <1>3 DEF Publish
<1>5. log' \in [Partitions -> Seq(Messages)]
  BY <1>4
<1>6. CASE p = q
  <2>1. log'[p] = longer /\ logEnd'[p] = logEnd[p] + 1
    BY <1>4, <1>6
  <2>2. logEnd[p] = Len(log[p]) /\ logEnd[p] \in Nat
    OBVIOUS
  <2>3. Len(longer) = Len(log[p]) + 1
    BY <1>2, <1>3, <1>6
  <2>4. \A i \in 1 .. Len(log[p]) : longer[i] = log[p][i]
    BY <1>2, <1>3, <1>6
  <2>5. \A i \in DOMAIN longer : i \in DOMAIN log[p] \/ longer[i] = msg
    <3>1. DOMAIN longer = 1 .. Len(log[p]) + 1 /\ longer[Len(log[p]) + 1] = msg
      BY <1>2, <1>3, <1>6
    <3>2. DOMAIN log[p] = 1 .. Len(log[p])
      BY <1>1
    <3>3. QED
      BY <1>1, <3>1, <3>2
  <2>6. QED
    BY <1>5, <2>1, <2>2, <2>3, <2>4, <2>5
<1>7. CASE p # q
  <2>1. log'[p] = log[p] /\ logEnd'[p] = logEnd[p]
    BY <1>4, <1>7
  <2>2. QED
    BY <1>1, <1>5, <2>1
<1>8. QED
  BY <1>6, <1>7

(* The outbox, the topic and the stored notifications never shrink, and a  *)
(* message keeps its offset.                                               *)
LEMMA Growth ==
    ASSUME PipelineInv, [PipelineNext]_pvars
    PROVE  /\ Range(outbox) \subseteq Range(outbox')
           /\ \A p \in Partitions : \A i \in 1 .. logEnd[p] : log'[p][i] = log[p][i]
           /\ \A p \in Partitions : logEnd[p] <= logEnd'[p]
           /\ notes \subseteq notes'
<1>0. PipelineTypeOK /\ TypeOK
  BY DEF PipelineInv, PipelineTypeOK
<1>1. Range(outbox) \subseteq Range(outbox')
  <2>1. CASE outbox' = outbox
    BY <2>1
  <2>2. ASSUME NEW e \in Events, OrderCommitted(e) PROVE Range(outbox) \subseteq Range(outbox')
    <3>1. outbox \in Seq(Events) /\ outbox' = Append(outbox, e)
      BY <1>0, <2>2 DEF PipelineTypeOK, OrderCommitted
    <3>2. \A i \in DOMAIN outbox : i \in DOMAIN outbox' /\ outbox'[i] = outbox[i]
      BY <3>1
    <3>3. QED
      BY <3>2 DEF Range
  <2>3. outbox' = outbox \/ \E e \in Events : OrderCommitted(e)
    BY PipelineCases, Publication DEF ConsumerStep, SourceStep, CallStep, CallHandler,
       HandlerReturns, ProcessDies, CdcConfirm, CdcRestart, HandlerProgress, HandlerFault,
       SessionEnds, pvars, source
  <2>4. QED
    BY <2>1, <2>2, <2>3
<1>2. \A p \in Partitions : /\ \A i \in 1 .. logEnd[p] : log'[p][i] = log[p][i]
                            /\ logEnd[p] <= logEnd'[p]
  <2>1. CASE PublishStep
    BY <1>0, <2>1, Publication, AppendKeeps
  <2>2. CASE ~PublishStep
    <3>1. log' = log /\ logEnd' = logEnd
      BY <2>2, PipelineCases DEF ConsumerStep, SourceStep, CallStep, CallHandler,
         HandlerReturns, ProcessDies, OrderCommitted, CdcConfirm, CdcRestart, HandlerProgress,
         HandlerFault, SessionEnds, pvars, topic, ConsumerMove, PollRecords, FetchError,
         ProcessEnd, BackoffElapsed, RunReturns, Start, Cancel, Close, Evict, LosePartitions,
         Rebalance, FaultsStop, Crash, HandlerAccepts, HandlerFails, broker
    <3>2. QED
      BY <1>0, <3>1 DEF TypeOK
  <2>3. QED
    BY <2>1, <2>2
<1>3. notes \subseteq notes'
  BY HandlerMoves, HandlerCases DEF Handle, Begin, Claim, CreateForChannel, Commit,
     CommitUnacknowledged, Apply, Fail, Return, Die, ServerRollback, hvars, tables
<1>4. QED
  BY <1>1, <1>2, <1>3

LEMMA DoneStays ==
    ASSUME PipelineInv, [PipelineNext]_pvars, NEW p \in Partitions, NEW o \in Nat,
           o < logEnd[p], Done(p, o)
    PROVE  Done(p, o)'
<1>1. o + 1 \in 1 .. logEnd[p]
  BY DEF PipelineInv, PipelineTypeOK, TypeOK
<1>2. log'[p][o + 1] = log[p][o + 1] /\ notes \subseteq notes'
  BY <1>1, Growth
<1>3. QED
  BY <1>2 DEF Done, Notified

(* The loop and the group stay within the log: a client moves to the end   *)
(* of what was fetched, back to a record it has read, or to an offset the  *)
(* group committed.                                                        *)
LEMMA ConsumerWithin ==
    ASSUME PipelineInv, ConsumerMove
    PROVE  /\ logEnd' = logEnd /\ handled' = handled
           /\ \A p \in Partitions : /\ committed'[p] <= logEnd[p]
                                    /\ \A m \in Members : position'[m][p] <= logEnd[p]
                                    /\ \A o \in dropped'[p] : o < logEnd[p]
<1> USE DEF broker, group, client, history
<1>0. /\ logEnd \in [Partitions -> Nat] /\ committed \in [Partitions -> Nat]
      /\ position \in [Members -> [Partitions -> Nat]]
      /\ next \in [Members -> [Partitions -> Nat]]
      /\ dropped \in [Partitions -> SUBSET Nat] /\ handled \in [Partitions -> SUBSET Nat]
  BY DEF PipelineInv, PipelineTypeOK, TypeOK
<1>1. \A m \in Members : \A p \in Partitions :
          /\ next[m][p] \in Nat /\ position[m][p] \in Nat /\ logEnd[p] \in Nat
          /\ next[m][p] <= position[m][p] /\ position[m][p] <= logEnd[p]
          /\ next[m][p] <= logEnd[p]
  BY <1>0 DEF PipelineInv, IndInv, BatchBounds, WithinLog
<1>2. \A p \in Partitions : /\ committed[p] \in Nat /\ committed[p] <= logEnd[p]
                            /\ \A o \in dropped[p] : o < logEnd[p]
                            /\ logEnd[p] \in Nat /\ 0 <= logEnd[p]
  BY <1>0 DEF PipelineInv, WithinLog
<1>3. ASSUME NEW m \in Members, NEW end \in Ends, CanFetch(m, end), NEW p \in Partitions
      PROVE  end[p] \in Nat /\ end[p] <= logEnd[p]
  BY <1>1, <1>2, <1>3, BoundsAssumption DEF CanFetch, Ends
<1>4. ASSUME NEW m \in Members, NEW end \in Ends, PollRecords(m, end) \/ FetchError(m, end)
      PROVE  /\ logEnd' = logEnd /\ handled' = handled
             /\ \A p \in Partitions : /\ committed'[p] <= logEnd[p]
                                      /\ \A n \in Members : position'[n][p] <= logEnd[p]
                                      /\ \A o \in dropped'[p] : o < logEnd[p]
  <2>1. CanFetch(m, end)
    BY <1>4 DEF PollRecords, FetchError
  <2>2. /\ logEnd' = logEnd /\ handled' = handled /\ committed' = committed
        /\ position' = [position EXCEPT ![m] = end]
    BY <1>4 DEF PollRecords, FetchError
  <2>3. ASSUME NEW p \in Partitions, NEW o \in dropped'[p] PROVE o < logEnd[p]
    <3>1. o \in dropped[p] \/ (o \in Nat /\ o < end[p])
      <4>1. CASE dropped' = dropped
        BY <4>1
      <4>2. CASE FetchError(m, end)
        BY <1>0, <1>3, <2>1, <4>2 DEF FetchError
      <4>3. QED
        BY <1>4, <4>1, <4>2 DEF PollRecords
    <3>2. QED
      BY <1>0, <1>1, <1>2, <1>3, <2>1, <3>1
  <2>4. \A p \in Partitions : \A n \in Members : position'[n][p] <= logEnd[p]
    BY <1>0, <1>1, <1>2, <1>3, <2>1, <2>2
  <2>5. QED
    BY <1>1, <1>2, <2>2, <2>3, <2>4
<1>5. ASSUME NEW m \in Members, ProcessEnd(m)
      PROVE  /\ logEnd' = logEnd /\ handled' = handled
             /\ \A p \in Partitions : /\ committed'[p] <= logEnd[p]
                                      /\ \A n \in Members : position'[n][p] <= logEnd[p]
                                      /\ \A o \in dropped'[p] : o < logEnd[p]
  <2>1. \A p \in Partitions : committed'[p] \in {committed[p], next[m][p]}
    BY <1>0, <1>5 DEF ProcessEnd, CommitRecords
  <2>2. \A p \in Partitions : \A n \in Members :
            position'[n][p] \in {position[n][p], next[n][p]}
    BY <1>0, <1>5 DEF ProcessEnd, SetOffsets
  <2>3. logEnd' = logEnd /\ handled' = handled /\ dropped' = dropped
    BY <1>0, <1>5 DEF ProcessEnd
  <2>4. QED
    BY <1>1, <1>2, <2>1, <2>2, <2>3
<1>6. ASSUME NEW J \in SUBSET Members, NEW newOwner \in [Partitions -> J],
             Rebalance(J, newOwner)
      PROVE  /\ logEnd' = logEnd /\ handled' = handled
             /\ \A p \in Partitions : /\ committed'[p] <= logEnd[p]
                                      /\ \A n \in Members : position'[n][p] <= logEnd[p]
                                      /\ \A o \in dropped'[p] : o < logEnd[p]
  <2>1. \A p \in Partitions : \A n \in Members :
            position'[n][p] \in {position[n][p], committed[p], 0}
    BY <1>0, <1>6 DEF Rebalance, Reassigned
  <2>2. logEnd' = logEnd /\ handled' = handled /\ dropped' = dropped /\ committed' = committed
    BY <1>0, <1>6 DEF Rebalance
  <2>3. ASSUME NEW p \in Partitions, NEW n \in Members PROVE position'[n][p] <= logEnd[p]
    BY <1>1, <1>2, <2>1
  <2>4. QED
    BY <1>1, <1>2, <2>2, <2>3
<1>7. CASE \E m \in Members : \/ BackoffElapsed(m) \/ RunReturns(m) \/ Start(m) \/ Cancel(m)
                              \/ Close(m) \/ Evict(m) \/ LosePartitions(m)
  <2>1. /\ logEnd' = logEnd /\ handled' = handled /\ dropped' = dropped
        /\ committed' = committed
    BY <1>7 DEF BackoffElapsed, RunReturns, Start, Cancel, Close, Evict, LosePartitions
  <2>2. \/ position' = position
        \/ \E m \in Members : position' = [position EXCEPT ![m] = Zero]
    BY <1>7 DEF BackoffElapsed, RunReturns, Start, Cancel, Close, ForgetClient, Evict,
       LosePartitions
  <2>3. ASSUME NEW p \in Partitions, NEW n \in Members
        PROVE  position'[n][p] = position[n][p] \/ position'[n][p] = 0
    BY <1>0, <2>2 DEF Zero
  <2>4. ASSUME NEW p \in Partitions, NEW n \in Members PROVE position'[n][p] <= logEnd[p]
    BY <1>1, <1>2, <2>3
  <2>5. QED
    BY <1>1, <1>2, <2>1, <2>4
<1>8. CASE FaultsStop
  <2>1. /\ logEnd' = logEnd /\ handled' = handled /\ dropped' = dropped
        /\ committed' = committed /\ position' = position
    BY <1>8 DEF FaultsStop
  <2>2. QED
    BY <1>1, <1>2, <2>1
<1>9. QED
  BY <1>4, <1>5, <1>6, <1>7, <1>8 DEF ConsumerMove

(* What else happens, a member that is at a record stays at it: it is in   *)
(* process, so it takes no step of the loop and no rebalance touches it.   *)
LEMMA BusyStays ==
    ASSUME PipelineInv, ConsumerMove, NEW n \in Members, NEW p \in Partitions, AtRecord(n, p)
    PROVE  AtRecord(n, p)' /\ next'[n] = next[n]
<1> USE DEF PipelineInv, TypeOK, broker, group, client, history
<1>1. pc[n] = "process" /\ Pending(n, p)
  BY DEF AtRecord
<1>2. /\ pc'[n] = pc[n] /\ next'[n] = next[n] /\ position'[n] = position[n]
      /\ rewind'[n] = rewind[n] /\ from'[n] = from[n]
  <2> USE DEF PipelineTypeOK
  <2>1. ASSUME NEW m \in Members, NEW end \in Ends, PollRecords(m, end) \/ FetchError(m, end)
        PROVE  /\ pc'[n] = pc[n] /\ next'[n] = next[n] /\ position'[n] = position[n]
               /\ rewind'[n] = rewind[n] /\ from'[n] = from[n]
    BY <1>1, <2>1 DEF PollRecords, FetchError
  <2>2. ASSUME NEW m \in Members, ProcessEnd(m)
        PROVE  /\ pc'[n] = pc[n] /\ next'[n] = next[n] /\ position'[n] = position[n]
               /\ rewind'[n] = rewind[n] /\ from'[n] = from[n]
    BY <1>1, <2>2 DEF ProcessEnd
  <2>3. ASSUME NEW m \in Members, \/ BackoffElapsed(m) \/ RunReturns(m) \/ Start(m) \/ Cancel(m)
                                  \/ Close(m) \/ Evict(m) \/ LosePartitions(m)
        PROVE  /\ pc'[n] = pc[n] /\ next'[n] = next[n] /\ position'[n] = position[n]
               /\ rewind'[n] = rewind[n] /\ from'[n] = from[n]
    BY <1>1, <2>3 DEF BackoffElapsed, RunReturns, Start, Cancel, Close, ForgetClient, Evict,
       LosePartitions
  <2>4. ASSUME NEW J \in SUBSET Members, NEW newOwner \in [Partitions -> J],
               Rebalance(J, newOwner)
        PROVE  /\ pc'[n] = pc[n] /\ next'[n] = next[n] /\ position'[n] = position[n]
               /\ rewind'[n] = rewind[n] /\ from'[n] = from[n]
    BY <1>1, <2>4 DEF Rebalance, Reassigned
  <2>5. CASE FaultsStop
    BY <2>5 DEF FaultsStop
  <2>6. QED
    BY <2>1, <2>2, <2>3, <2>4, <2>5 DEF ConsumerMove
<1>3. QED
  BY <1>2 DEF AtRecord, Pending, Begun

-----------------------------------------------------------------------------
(* The parts of PipelineInv that relate the consumers, the handler and the *)
(* topic.                                                                  *)

LEMMA PipelineTypeKept ==
    ASSUME PipelineInv, [PipelineNext]_pvars
    PROVE  PipelineTypeOK'
<1>0. PipelineTypeOK /\ TypeOK
  BY DEF PipelineInv, PipelineTypeOK
<1>1. TypeOK' /\ HandlerTypeOK'
  BY ConsumerKept, HandlerKept DEF IndInv, HandlerInv
<1>2. CASE PublishStep
  <2>1. /\ outbox' \in Seq(Events) /\ sent' \in Nat /\ confirmed' \in Nat
        /\ confirmed' <= sent' /\ sent' <= Len(outbox')
        /\ serving' \in [Members -> Partitions \cup {NoOne}]
    BY <1>0, <1>2, Publication DEF PipelineTypeOK
  <2>2. log' \in [Partitions -> Seq(Messages)] /\ \A p \in Partitions : logEnd'[p] = Len(log'[p])
    <3>1. PICK q \in Partitions, msg \in Messages : Publish(q, msg)
      BY <1>2, Publication
    <3>2. QED
      BY <1>0, <3>1, AppendKeeps
  <2>3. QED
    BY <1>1, <2>1, <2>2 DEF PipelineTypeOK
<1>3. CASE ~PublishStep
  <2>1. log' = log /\ logEnd' = logEnd
    <3>1. CASE ConsumerStep
      BY <3>1, ConsumerWithin DEF ConsumerStep
    <3>2. CASE ~ConsumerStep
      BY <1>3, <3>2, PipelineCases DEF SourceStep, CallStep, CallHandler, HandlerReturns,
         ProcessDies, OrderCommitted, CdcConfirm, CdcRestart, HandlerProgress, HandlerFault,
         SessionEnds, pvars, topic, Crash, HandlerAccepts, HandlerFails, broker
    <3>3. QED
      BY <3>1, <3>2
  <2>2. /\ outbox' \in Seq(Events) /\ sent' \in Nat /\ confirmed' \in Nat
        /\ confirmed' <= sent' /\ sent' <= Len(outbox')
    <3>0. /\ outbox \in Seq(Events) /\ sent \in Nat /\ confirmed \in Nat
          /\ confirmed <= sent /\ sent <= Len(outbox) /\ Len(outbox) \in Nat
      BY <1>0 DEF PipelineTypeOK
    <3>1. CASE UNCHANGED source
      BY <3>0, <3>1 DEF source
    <3>2. ASSUME NEW e \in Events, OrderCommitted(e)
          PROVE  /\ outbox' \in Seq(Events) /\ Len(outbox') = Len(outbox) + 1
                 /\ sent' = sent /\ confirmed' = confirmed
      BY <3>0, <3>2 DEF OrderCommitted
    <3>3. CASE CdcConfirm \/ CdcRestart
      BY <3>0, <3>3 DEF CdcConfirm, CdcRestart
    <3>4. UNCHANGED source \/ SourceStep
      BY <1>3, PipelineCases DEF ConsumerStep, CallStep, CallHandler, HandlerReturns,
         ProcessDies, HandlerProgress, HandlerFault, SessionEnds, pvars
    <3>5. QED
      BY <3>0, <3>1, <3>2, <3>3, <3>4 DEF SourceStep
  <2>3. serving' \in [Members -> Partitions \cup {NoOne}]
    <3>1. serving \in [Members -> Partitions \cup {NoOne}]
      BY <1>0 DEF PipelineTypeOK
    <3>2. \/ serving' = serving
          \/ \E m \in Members : \E p \in Partitions \cup {NoOne} :
                serving' = [serving EXCEPT ![m] = p]
      BY <1>3, PipelineCases DEF ConsumerStep, SourceStep, CallStep, CallHandler,
         HandlerReturns, ProcessDies, OrderCommitted, CdcConfirm, CdcRestart, HandlerProgress,
         HandlerFault, SessionEnds, pvars
    <3>3. QED
      BY <3>1, <3>2
  <2>4. QED
    BY <1>0, <1>1, <2>1, <2>2, <2>3 DEF PipelineTypeOK
<1>4. QED
  BY <1>2, <1>3

LEMMA WithinLogKept ==
    ASSUME PipelineInv, [PipelineNext]_pvars
    PROVE  WithinLog'
<1>0. TypeOK /\ WithinLog
  BY DEF PipelineInv, PipelineTypeOK
<1>1. CASE ConsumerStep
  <2>1. handled' = handled /\ logEnd' = logEnd
    BY <1>1, ConsumerWithin DEF ConsumerStep
  <2>2. QED
    BY <1>0, <1>1, <2>1, ConsumerWithin DEF ConsumerStep, WithinLog
<1>2. CASE PublishStep
  <2>1. UNCHANGED consumer
    BY <1>2, Publication
  <2>2. \A p \in Partitions : logEnd[p] <= logEnd'[p] /\ logEnd'[p] \in Nat
    BY Growth, ConsumerKept DEF IndInv, TypeOK
  <2>3. /\ committed' = committed /\ position' = position
        /\ handled' = handled /\ dropped' = dropped
    BY <2>1 DEF consumer, client, history
  <2>4. \A p \in Partitions :
            /\ committed[p] \in Nat /\ logEnd[p] \in Nat
            /\ \A m \in Members : position[m][p] \in Nat
            /\ \A o \in handled[p] \cup dropped[p] : o \in Nat
    BY <1>0 DEF TypeOK
  <2>5. QED
    BY <1>0, <2>2, <2>3, <2>4 DEF WithinLog
<1>3. ASSUME NEW m \in Members, NEW p \in Partitions, HandlerReturns(m, p)
      PROVE  WithinLog'
  <2>1. /\ committed' = committed /\ position' = position /\ dropped' = dropped
        /\ logEnd' = logEnd
    BY <1>3 DEF HandlerReturns, HandlerAccepts, HandlerFails, broker, history
  <2>2. AtRecord(m, p) /\ (handled' = handled \/ handled' = [handled EXCEPT ![p] = @ \cup {next[m][p]}])
    BY <1>3 DEF HandlerReturns, HandlerAccepts, HandlerFails, history
  <2>3. next[m][p] < logEnd[p]
    BY <1>0, <2>2 DEF AtRecord, Pending, WithinLog, TypeOK
  <2>4. \A q \in Partitions : \A o \in handled'[q] : o \in handled[q] \/ (q = p /\ o = next[m][p])
    BY <1>0, <2>2 DEF TypeOK
  <2>5. QED
    BY <1>0, <2>1, <2>3, <2>4 DEF WithinLog
<1>4. ASSUME NEW m \in Members, ProcessDies(m) PROVE WithinLog'
  <2>1. /\ committed' = committed /\ dropped' = dropped /\ handled' = handled
        /\ logEnd' = logEnd /\ position' = [position EXCEPT ![m] = Zero]
    BY <1>4 DEF ProcessDies, Crash, ForgetClient, broker, history
  <2>2. ASSUME NEW n \in Members, NEW p \in Partitions PROVE position'[n][p] <= logEnd[p]
    BY <1>0, <2>1 DEF WithinLog, TypeOK, Zero
  <2>3. QED
    BY <1>0, <2>1, <2>2 DEF WithinLog
<1>5. CASE \/ SourceStep \/ CallStep \/ UNCHANGED pvars
           \/ \E m \in Members, p \in Partitions : CallHandler(m, p)
  <2>1. UNCHANGED <<topic, consumer>>
    BY <1>5 DEF SourceStep, CallStep, CallHandler, OrderCommitted, CdcConfirm, CdcRestart,
       HandlerProgress, HandlerFault, SessionEnds, pvars
  <2>2. QED
    BY <1>0, <2>1 DEF topic, consumer, client, history, WithinLog
<1>6. QED
  BY <1>1, <1>2, <1>3, <1>4, <1>5, PipelineCases

(* The record that n serves keeps its offset, whatever joins the topic.    *)
LEMMA RecordStays ==
    ASSUME PipelineInv, [PipelineNext]_pvars, NEW n \in Members, serving[n] # NoOne,
           serving'[n] = serving[n], next'[n] = next[n]
    PROVE  Record(n)' = Record(n)
<1>1. /\ serving[n] \in Partitions /\ AtRecord(n, serving[n])
  BY DEF PipelineInv, PipelineTypeOK, ServesRecord, Serves
<1>2. PICK p \in Partitions : p = serving[n]
  BY <1>1
<1>3. /\ next[n][p] \in Nat /\ position[n][p] \in Nat /\ logEnd[p] \in Nat
      /\ next[n][p] < position[n][p] /\ position[n][p] <= logEnd[p]
  BY <1>1, <1>2 DEF PipelineInv, PipelineTypeOK, TypeOK, WithinLog, AtRecord, Pending
<1>4. next[n][p] + 1 \in 1 .. logEnd[p]
  BY <1>3
<1>5. log'[p][next[n][p] + 1] = log[p][next[n][p] + 1]
  BY <1>4, Growth
<1>6. QED
  BY <1>2, <1>5 DEF Record

(* A member keeps serving its record through every step that leaves its    *)
(* place in the loop and its call alone.                                   *)
LEMMA ServesStays ==
    ASSUME PipelineInv, [PipelineNext]_pvars, NEW n \in Members,
           serving'[n] = serving[n], at'[n] = at[n], event'[n] = event[n],
           \A p \in Partitions : AtRecord(n, p) => AtRecord(n, p)' /\ next'[n] = next[n]
    PROVE  Serves(n)'
<1>1. Serves(n) /\ serving[n] \in Partitions \cup {NoOne}
  BY DEF PipelineInv, ServesRecord, PipelineTypeOK
<1>2. CASE serving[n] = NoOne
  BY <1>1, <1>2 DEF Serves
<1>3. CASE serving[n] # NoOne
  <2>1. serving[n] \in Partitions /\ AtRecord(n, serving[n])
    BY <1>1, <1>3 DEF Serves
  <2>2. PICK p \in Partitions : p = serving[n]
    BY <2>1
  <2>3. AtRecord(n, p)' /\ next'[n] = next[n]
    BY <2>1, <2>2
  <2>4. Record(n)' = Record(n)
    BY <1>3, <2>3, RecordStays
  <2>5. AtRecord(n, serving[n])'
    BY <2>2, <2>3 DEF AtRecord, Pending, Begun
  <2>6. QED
    BY <1>1, <1>3, <2>4, <2>5 DEF Serves
<1>4. QED
  BY <1>2, <1>3

(* A member that no step of another member moves.                          *)
LEMMA OthersStay ==
    ASSUME NEW n \in Members, NEW p \in Partitions, AtRecord(n, p),
           pc'[n] = pc[n], next'[n] = next[n], position'[n] = position[n],
           rewind'[n] = rewind[n], from'[n] = from[n]
    PROVE  AtRecord(n, p)' /\ next'[n] = next[n]
  BY DEF AtRecord, Pending, Begun

LEMMA ServesKept ==
    ASSUME PipelineInv, [PipelineNext]_pvars
    PROVE  ServesRecord'
<1> SUFFICES ASSUME NEW n \in Members PROVE Serves(n)'
  BY DEF ServesRecord
<1>0. /\ TypeOK /\ HandlerTypeOK /\ Serves(n) /\ Workers = Members /\ NoOne \notin Partitions
      /\ serving \in [Members -> Partitions \cup {NoOne}]
  BY CompositionAssumption DEF PipelineInv, PipelineTypeOK, ServesRecord
<1>1. CASE ConsumerStep
  BY <1>1, BusyStays, ServesStays DEF ConsumerStep, handler, calls
<1>2. CASE PublishStep \/ SourceStep \/ UNCHANGED pvars
  <2>1. UNCHANGED <<serving, consumer, handler>>
    BY <1>2, Publication DEF SourceStep, OrderCommitted, CdcConfirm, CdcRestart, pvars
  <2>2. /\ serving'[n] = serving[n] /\ at'[n] = at[n] /\ event'[n] = event[n]
        /\ pc'[n] = pc[n] /\ next'[n] = next[n] /\ position'[n] = position[n]
        /\ rewind'[n] = rewind[n] /\ from'[n] = from[n]
    BY <2>1 DEF consumer, client, handler, calls
  <2>3. QED
    BY <2>2, OthersStay, ServesStays
<1>3. CASE CallStep
  <2>1. UNCHANGED <<serving, consumer, topic>>
    BY <1>3 DEF CallStep, HandlerProgress, HandlerFault, SessionEnds
  <2>2. /\ serving' = serving /\ pc' = pc /\ next' = next /\ position' = position
        /\ rewind' = rewind /\ from' = from /\ log' = log
    BY <2>1 DEF consumer, client, topic
  <2>3. event' = event
    BY <1>3 DEF CallStep, HandlerProgress, HandlerFault, SessionEnds, CallProgress, CallFault,
       Begin, Claim, CreateForChannel, Commit, CommitUnacknowledged, Fail, ServerRollback, calls
  <2>4. CASE at'[n] = at[n]
    BY <2>2, <2>3, <2>4, OthersStay, ServesStays
  <2>5. CASE at'[n] # at[n]
    <3>1. at[n] \in {"begin", "claim", "create"} /\ at'[n] \in {"claim", "create", "ok", "failed"}
      BY <1>0, <1>3, <2>5 DEF CallStep, HandlerProgress, HandlerFault, SessionEnds, HandlerTypeOK,
         CallProgress, CallFault, Begin, Claim, CreateForChannel, Commit, CommitUnacknowledged,
         EndCall, Fail, ServerRollback, calls
    <3>2. serving[n] # NoOne /\ Record(n).kind = "created"
      BY <1>0, <3>1 DEF Serves
    <3>3. Record(n)' = Record(n) /\ (AtRecord(n, serving[n]) => AtRecord(n, serving[n])')
      BY <2>2 DEF Record, AtRecord, Pending, Begun
    <3>4. QED
      BY <1>0, <2>2, <2>3, <3>1, <3>2, <3>3 DEF Serves
  <2>6. QED
    BY <2>4, <2>5
<1>4. ASSUME NEW m \in Members, NEW p \in Partitions, CallHandler(m, p) PROVE Serves(n)'
  <2>1. /\ Handle(m, log[p][next[m][p] + 1]) /\ AtRecord(m, p) /\ UNCHANGED <<topic, consumer>>
        /\ serving' = [serving EXCEPT ![m] = p]
    BY <1>4 DEF CallHandler
  <2>2. /\ pc' = pc /\ next' = next /\ position' = position
        /\ rewind' = rewind /\ from' = from /\ log' = log
    BY <2>1 DEF consumer, client, topic
  <2>3. CASE n # m
    <3>1. serving'[n] = serving[n] /\ at'[n] = at[n] /\ event'[n] = event[n]
      BY <1>0, <2>1, <2>3 DEF Handle, HandlerTypeOK
    <3>2. QED
      BY <2>2, <3>1, OthersStay, ServesStays
  <2>4. CASE n = m
    <3>1. PICK msg : msg = log[p][next[m][p] + 1]
      OBVIOUS
    <3>2. serving'[n] = p /\ p # NoOne
      BY <1>0, <2>1, <2>4
    <3>3. Record(n)' = msg /\ AtRecord(n, serving[n])'
      BY <2>1, <2>2, <2>4, <3>1, <3>2 DEF Record, AtRecord, Pending, Begun
    <3>4. /\ at'[n] = (IF msg.kind = "created" THEN "begin"
                       ELSE IF msg.kind = "invalid" THEN "failed" ELSE "ok")
          /\ msg.kind = "created" => event'[n] = msg.event
      BY <1>0, <2>1, <2>4, <3>1 DEF Handle, HandlerTypeOK
    <3>5. QED
      BY <3>2, <3>3, <3>4 DEF Serves
  <2>5. QED
    BY <2>3, <2>4
<1>5. ASSUME NEW m \in Members,
             \/ \E p \in Partitions : HandlerReturns(m, p)
             \/ ProcessDies(m)
      PROVE  Serves(n)'
  <2>1. CASE n = m
    <3>1. serving'[n] = NoOne
      BY <1>0, <1>5, <2>1 DEF HandlerReturns, ProcessDies
    <3>2. at'[n] = "idle"
      BY <1>0, <1>5, <2>1 DEF HandlerReturns, ProcessDies, Return, Die, EndCall, handler, calls,
         HandlerTypeOK
    <3>3. QED
      BY <3>1, <3>2 DEF Serves
  <2>2. CASE n # m
    <3>1. serving'[n] = serving[n] /\ at'[n] = at[n] /\ event'[n] = event[n]
      BY <1>0, <1>5, <2>2 DEF HandlerReturns, ProcessDies, Return, Die, EndCall, handler, calls,
         HandlerTypeOK
    <3>2. /\ pc'[n] = pc[n] /\ next'[n] = next[n] /\ position'[n] = position[n]
          /\ rewind'[n] = rewind[n] /\ from'[n] = from[n]
      BY <1>0, <1>5, <2>2 DEF HandlerReturns, ProcessDies, Crash, ForgetClient, HandlerAccepts,
         HandlerFails, TypeOK
    <3>3. QED
      BY <3>1, <3>2, OthersStay, ServesStays
  <2>3. QED
    BY <2>1, <2>2
<1>6. QED
  BY <1>1, <1>2, <1>3, <1>4, <1>5, PipelineCases

(* What the handler accepts has had its effect, and an effect stays.       *)
LEMMA HandledDoneKept ==
    ASSUME PipelineInv, [PipelineNext]_pvars
    PROVE  HandledDone'
<1> SUFFICES ASSUME NEW p \in Partitions, NEW o \in handled'[p] PROVE Done(p, o)'
  BY DEF HandledDone
<1>0. TypeOK /\ HandlerTypeOK /\ Workers = Members
  BY CompositionAssumption DEF PipelineInv, PipelineTypeOK
<1>1. CASE o \in handled[p]
  <2>1. o \in Nat /\ o < logEnd[p] /\ Done(p, o)
    BY <1>0, <1>1 DEF PipelineInv, WithinLog, HandledDone, TypeOK
  <2>2. QED
    BY <2>1, DoneStays
<1>2. CASE o \notin handled[p]
  <2>1. PICK m \in Members, q \in Partitions : HandlerReturns(m, q) /\ HandlerAccepts(m, q)
    <3>1. handled'[p] # handled[p]
      BY <1>2
    <3>2. handled' # handled
      BY <3>1
    <3>3. ~ConsumerStep
      BY <3>2, ConsumerWithin DEF ConsumerStep
    <3>4. ~PublishStep
      BY <3>2, Publication DEF consumer, history
    <3>5. \E m \in Members, q \in Partitions : HandlerReturns(m, q)
      BY <3>2, <3>3, <3>4, PipelineCases DEF SourceStep, CallStep, CallHandler, OrderCommitted,
         CdcConfirm, CdcRestart, HandlerProgress, HandlerFault, SessionEnds, ProcessDies, Crash,
         pvars, consumer, history
    <3>6. QED
      BY <3>2, <3>5 DEF HandlerReturns, HandlerFails, history
  <2>2. /\ serving[m] = q /\ handled' = [handled EXCEPT ![q] = @ \cup {next[m][q]}]
        /\ q # NoOne
    BY <2>1, CompositionAssumption DEF HandlerReturns, HandlerAccepts
  <2>3. at[m] = "ok"
    BY <2>1, <2>2, <1>0, <1>2 DEF HandlerReturns, HandlerFails, history
  <2>4. p = q /\ o = next[m][q]
    BY <1>0, <1>2, <2>2 DEF TypeOK
  <2>5. Serves(m)
    BY DEF PipelineInv, ServesRecord
  <2>6. /\ Record(m) = log[p][o + 1] /\ Record(m).kind # "invalid"
        /\ Record(m).kind = "created" => event[m] = Record(m).event
        /\ AtRecord(m, p)
    BY <2>2, <2>3, <2>4, <2>5 DEF Serves, Record
  <2>7. o \in Nat /\ o < logEnd[p]
    BY <1>0, <2>4, <2>6 DEF PipelineInv, WithinLog, AtRecord, Pending, TypeOK
  <2>8. CASE Record(m).kind = "created"
    <3>1. Record(m) \in Messages
      <4>1. o + 1 \in DOMAIN log[p] /\ log[p] \in Seq(Messages)
        BY <1>0, <2>7 DEF PipelineInv, PipelineTypeOK, TypeOK
      <4>2. QED
        BY <2>6, <4>1
    <3>2. event[m] \in Events /\ event[m] # NoEvent
      BY <2>6, <2>8, <3>1, NoEventAssumption DEF Messages
    <3>3. Notified(event[m])
      BY <1>0, <2>3, <3>2 DEF PipelineInv, HandlerInv, SuccessMeansStored, Notified
    <3>4. Done(p, o)
      BY <2>6, <2>8, <3>3 DEF Done
    <3>5. QED
      BY <2>7, <3>4, DoneStays
  <2>9. CASE Record(m).kind # "created"
    <3>1. Done(p, o)
      BY <2>6, <2>9 DEF Done
    <3>2. QED
      BY <2>7, <3>1, DoneStays
  <2>10. QED
    BY <2>8, <2>9
<1>3. QED
  BY <1>1, <1>2

(* Order events reach the topic from the outbox alone.                     *)
LEMMA LogFromOutboxKept ==
    ASSUME PipelineInv, [PipelineNext]_pvars
    PROVE  LogFromOutbox'
<1>0. PipelineTypeOK /\ LogFromOutbox
  BY DEF PipelineInv
<1>1. Range(outbox) \subseteq Range(outbox')
  BY Growth
<1>2. CASE PublishStep
  <2>1. PICK q \in Partitions, msg \in Messages :
            Publish(q, msg) /\ (msg.kind = "created" => msg.event \in Range(outbox))
    BY <1>2, Publication
  <2>2. ASSUME NEW p \in Partitions, NEW i \in DOMAIN log'[p], log'[p][i].kind = "created"
        PROVE  log'[p][i].event \in Range(outbox')
    <3>1. CASE log'[p][i] = msg
      BY <1>1, <2>1, <2>2, <3>1
    <3>2. CASE i \in DOMAIN log[p]
      <4>1. i \in 1 .. logEnd[p]
        BY <1>0, <3>2 DEF PipelineTypeOK
      <4>2. log'[p][i] = log[p][i]
        BY <4>1, Growth
      <4>3. QED
        BY <1>0, <1>1, <2>2, <3>2, <4>2 DEF LogFromOutbox
    <3>3. QED
      BY <1>0, <2>1, <3>1, <3>2, AppendKeeps
  <2>3. QED
    BY <2>2 DEF LogFromOutbox
<1>3. CASE ~PublishStep
  <2>1. log' = log
    BY <1>3, PipelineCases DEF ConsumerStep, SourceStep, CallStep, CallHandler, HandlerReturns,
       ProcessDies, OrderCommitted, CdcConfirm, CdcRestart, HandlerProgress, HandlerFault,
       SessionEnds, pvars, topic
  <2>2. QED
    BY <1>0, <1>1, <2>1 DEF LogFromOutbox
<1>4. QED
  BY <1>2, <1>3

-----------------------------------------------------------------------------
(* The order of the events, from the outbox to the notifications.          *)

(* What moves the outbox, Debezium's position and the topic.               *)
LEMMA SourceCases ==
    ASSUME PipelineInv, [PipelineNext]_pvars
    PROVE  \/ CdcPublish
           \/ \E p \in Partitions : OtherMessage(p)
           \/ log' = log /\ sent' = sent /\ \E e \in Events : OrderCommitted(e)
           \/ log' = log /\ outbox' = outbox /\ sent' <= sent
<1>0. confirmed \in Nat /\ sent \in Nat /\ confirmed <= sent
  BY DEF PipelineInv, PipelineTypeOK
<1>1. CASE SourceStep
  BY <1>0, <1>1 DEF SourceStep, OrderCommitted, CdcConfirm, CdcRestart, topic
<1>2. CASE ~SourceStep /\ ~PublishStep
  <2>1. log' = log /\ outbox' = outbox /\ sent' = sent
    BY <1>2, PipelineCases DEF ConsumerStep, CallStep, CallHandler, HandlerReturns, ProcessDies,
       HandlerProgress, HandlerFault, SessionEnds, pvars, source, topic
  <2>2. QED
    BY <1>0, <2>1
<1>3. QED
  BY <1>1, <1>2 DEF PublishStep

(* A row of the outbox keeps its place.                                    *)
LEMMA RowsStay ==
    ASSUME PipelineInv, [PipelineNext]_pvars, NEW i \in DOMAIN outbox
    PROVE  i \in DOMAIN outbox' /\ outbox'[i] = outbox[i]
<1>1. outbox \in Seq(Events)
  BY DEF PipelineInv, PipelineTypeOK
<1>2. ASSUME NEW e \in Events, OrderCommitted(e)
      PROVE  i \in DOMAIN outbox' /\ outbox'[i] = outbox[i]
  BY <1>1, <1>2 DEF OrderCommitted
<1>3. outbox' = outbox \/ \E e \in Events : OrderCommitted(e)
  BY SourceCases DEF CdcPublish, OtherMessage, source
<1>4. QED
  BY <1>2, <1>3

(* A message of the topic keeps its place.                                 *)
LEMMA MessagesStay ==
    ASSUME PipelineInv, [PipelineNext]_pvars, NEW p \in Partitions, NEW k \in DOMAIN log[p]
    PROVE  k \in DOMAIN log'[p] /\ log'[p][k] = log[p][k]
<1>1. /\ DOMAIN log[p] = 1 .. logEnd[p] /\ DOMAIN log'[p] = 1 .. logEnd'[p]
      /\ logEnd[p] \in Nat /\ logEnd'[p] \in Nat
  BY PipelineTypeKept DEF PipelineInv, PipelineTypeOK, TypeOK
<1>2. QED
  BY <1>1, Growth

(* A publication puts its message behind those of its partition and moves  *)
(* no other.                                                               *)
LEMMA Appended ==
    ASSUME PipelineTypeOK, NEW q \in Partitions, NEW msg \in Messages, Publish(q, msg)
    PROVE  /\ logEnd[q] + 1 \in DOMAIN log'[q] /\ log'[q][logEnd[q] + 1] = msg
           /\ \A p \in Partitions : \A k \in DOMAIN log'[p] :
                 k \in DOMAIN log[p] \/ (p = q /\ k = logEnd[q] + 1)
<1> USE DEF PipelineTypeOK, TypeOK
<1>1. log[q] \in Seq(Messages) /\ Len(log[q]) \in Nat /\ logEnd[q] = Len(log[q])
  OBVIOUS
<1>2. /\ DOMAIN Append(log[q], msg) = 1 .. Len(log[q]) + 1
      /\ Append(log[q], msg)[Len(log[q]) + 1] = msg
      /\ DOMAIN log[q] = 1 .. Len(log[q])
  BY <1>1
<1>3. PICK longer : longer = Append(log[q], msg)
  OBVIOUS
<1>4. log' = [log EXCEPT ![q] = longer]
  BY <1>3 DEF Publish
<1>5. log'[q] = longer /\ \A p \in Partitions : p # q => log'[p] = log[p]
  BY <1>4
<1>6. QED
  BY <1>1, <1>2, <1>3, <1>5

(* The message that CdcPublish appends is the next row of the outbox.      *)
LEMMA NextRow ==
    ASSUME PipelineInv, CdcPublish
    PROVE  /\ sent + 1 \in DOMAIN outbox /\ outbox[sent + 1] \in Events
           /\ sent' = sent + 1 /\ outbox' = outbox
           /\ Publish(PartitionOf[outbox[sent + 1]], Created(outbox[sent + 1]))
           /\ PartitionOf[outbox[sent + 1]] \in Partitions
           /\ Created(outbox[sent + 1]) \in Messages
<1>1. outbox \in Seq(Events) /\ sent \in Nat /\ Len(outbox) \in Nat /\ sent < Len(outbox)
  BY DEF PipelineInv, PipelineTypeOK, CdcPublish
<1>2. sent + 1 \in DOMAIN outbox /\ outbox[sent + 1] \in Events
  BY <1>1
<1>3. PICK e \in Events : e = outbox[sent + 1]
  BY <1>2
<1>4. PartitionOf[e] \in Partitions /\ Created(e) \in Messages
  BY PartitionOfAssumption DEF Created, Messages, Kinds
<1>5. QED
  BY <1>2, <1>3, <1>4 DEF CdcPublish

LEMMA OutboxRowsKept ==
    ASSUME PipelineInv, [PipelineNext]_pvars
    PROVE  IsInjective(outbox')
<1>1. outbox \in Seq(Events) /\ IsInjective(outbox)
  BY DEF PipelineInv, PipelineTypeOK, OutboxOrder
<1>2. ASSUME NEW e \in Events, OrderCommitted(e) PROVE IsInjective(outbox')
  <2>1. e \notin Range(outbox) /\ outbox' = Append(outbox, e)
    BY <1>2 DEF OrderCommitted
  <2>2. /\ DOMAIN outbox' = 1 .. Len(outbox) + 1 /\ outbox'[Len(outbox) + 1] = e
        /\ \A i \in DOMAIN outbox : outbox'[i] = outbox[i]
        /\ DOMAIN outbox = 1 .. Len(outbox) /\ Len(outbox) \in Nat
    BY <1>1, <2>1
  <2>3. \A i \in DOMAIN outbox' : i \in DOMAIN outbox \/ i = Len(outbox) + 1
    BY <2>2
  <2>4. \A i \in DOMAIN outbox : outbox[i] # e
    BY <2>1 DEF Range
  <2>5. QED
    BY <1>1, <2>2, <2>3, <2>4 DEF IsInjective
<1>3. outbox' = outbox \/ \E e \in Events : OrderCommitted(e)
  BY SourceCases DEF CdcPublish, OtherMessage, source
<1>4. QED
  BY <1>1, <1>2, <1>3 DEF IsInjective

LEMMA SentPublishedKept ==
    ASSUME PipelineInv, [PipelineNext]_pvars
    PROVE  SentPublished'
<1>0. /\ outbox \in Seq(Events) /\ sent \in Nat /\ sent <= Len(outbox) /\ Len(outbox) \in Nat
      /\ SentPublished
  BY DEF PipelineInv, PipelineTypeOK, OutboxOrder
<1>1. ASSUME NEW i \in 1 .. sent
      PROVE  Created(outbox'[i]) \in Range(log'[PartitionOf[outbox'[i]]])
  <2>1. i \in DOMAIN outbox /\ outbox[i] \in Events
    BY <1>0
  <2>2. PICK e \in Events : e = outbox[i] /\ e = outbox'[i]
    BY <2>1, RowsStay
  <2>3. PICK p \in Partitions : p = PartitionOf[e]
    BY PartitionOfAssumption
  <2>4. PICK k \in DOMAIN log[p] : log[p][k] = Created(e)
    BY <1>0, <2>2, <2>3 DEF SentPublished, Range
  <2>5. k \in DOMAIN log'[p] /\ log'[p][k] = Created(e)
    BY <2>4, MessagesStay
  <2>6. QED
    BY <2>2, <2>3, <2>5 DEF Range
<1>2. CASE CdcPublish
  <2>1. PICK e \in Events : e = outbox[sent + 1] /\ e = outbox'[sent + 1]
    BY <1>2, NextRow
  <2>2. PICK p \in Partitions : p = PartitionOf[e]
    BY PartitionOfAssumption
  <2>3. Publish(p, Created(e)) /\ Created(e) \in Messages /\ sent' = sent + 1
    BY <1>2, <2>1, <2>2, NextRow
  <2>4. logEnd[p] + 1 \in DOMAIN log'[p] /\ log'[p][logEnd[p] + 1] = Created(e)
    BY <2>3, Appended DEF PipelineInv
  <2>5. Created(outbox'[sent + 1]) \in Range(log'[PartitionOf[outbox'[sent + 1]]])
    BY <2>1, <2>2, <2>4 DEF Range
  <2>6. \A i \in 1 .. sent' : i \in 1 .. sent \/ i = sent + 1
    BY <1>0, <2>3
  <2>7. QED
    BY <1>1, <2>5, <2>6 DEF SentPublished, Created
<1>3. CASE ~CdcPublish
  <2>1. sent' <= sent
    BY <1>0, <1>3, SourceCases DEF OtherMessage, source
  <2>2. \A i \in 1 .. sent' : i \in 1 .. sent
    <3>1. sent' \in Nat
      BY PipelineTypeKept DEF PipelineTypeOK
    <3>2. QED
      BY <1>0, <2>1, <3>1
  <2>3. QED
    BY <1>1, <2>2 DEF SentPublished, Created
<1>4. QED
  BY <1>2, <1>3

LEMMA LogInOutboxOrderKept ==
    ASSUME PipelineInv, [PipelineNext]_pvars
    PROVE  LogInOutboxOrder'
<1> SUFFICES ASSUME NEW p \in Partitions, NEW k \in DOMAIN log'[p], log'[p][k].kind = "created"
             PROVE  \E j \in DOMAIN outbox' :
                       /\ log'[p][k] = Created(outbox'[j]) /\ PartitionOf[outbox'[j]] = p
                       /\ \A i \in 1 .. (j - 1) : PartitionOf[outbox'[i]] = p =>
                             \E l \in 1 .. (k - 1) : log'[p][l] = Created(outbox'[i])
  BY DEF LogInOutboxOrder, Behind, Created
<1>0. /\ PipelineTypeOK /\ outbox \in Seq(Events) /\ DOMAIN outbox = 1 .. Len(outbox)
      /\ Len(outbox) \in Nat /\ sent \in Nat /\ sent <= Len(outbox)
      /\ DOMAIN log[p] = 1 .. logEnd[p] /\ logEnd[p] \in Nat
      /\ SentPublished /\ LogInOutboxOrder
  BY DEF PipelineInv, PipelineTypeOK, TypeOK, OutboxOrder
<1>1. CASE k \in DOMAIN log[p]
  <2>1. log'[p][k] = log[p][k]
    BY <1>1, MessagesStay
  <2>2. PICK j \in DOMAIN outbox :
            /\ log[p][k] = Created(outbox[j]) /\ PartitionOf[outbox[j]] = p /\ Behind(p, k, j)
    BY <1>0, <1>1, <2>1 DEF LogInOutboxOrder
  <2>3. j \in DOMAIN outbox' /\ outbox'[j] = outbox[j]
    BY RowsStay
  <2>4. ASSUME NEW i \in 1 .. (j - 1), PartitionOf[outbox'[i]] = p
        PROVE  \E l \in 1 .. (k - 1) : log'[p][l] = Created(outbox'[i])
    <3>1. i \in DOMAIN outbox
      BY <1>0
    <3>2. outbox'[i] = outbox[i]
      BY <3>1, RowsStay
    <3>3. PICK l \in 1 .. (k - 1) : log[p][l] = Created(outbox[i])
      BY <2>2, <2>4, <3>2 DEF Behind
    <3>4. l \in DOMAIN log[p]
      BY <1>0, <1>1
    <3>5. QED
      BY <3>2, <3>3, <3>4, MessagesStay
  <2>5. QED
    BY <2>1, <2>2, <2>3, <2>4
<1>2. CASE k \notin DOMAIN log[p]
  <2>1. CASE CdcPublish
    <3>1. PICK e \in Events : e = outbox[sent + 1]
      BY <2>1, NextRow
    <3>2. PICK q \in Partitions : q = PartitionOf[e]
      BY PartitionOfAssumption
    <3>3. /\ Publish(q, Created(e)) /\ Created(e) \in Messages /\ outbox' = outbox
          /\ sent + 1 \in DOMAIN outbox
      BY <2>1, <3>1, <3>2, NextRow
    <3>4. p = q /\ k = logEnd[q] + 1 /\ log'[p][k] = Created(e)
      BY <1>0, <1>2, <3>3, Appended
    <3>5. ASSUME NEW i \in 1 .. sent, PartitionOf[outbox[i]] = p
          PROVE  \E l \in 1 .. (k - 1) : log'[p][l] = Created(outbox[i])
      <4>1. PICK l \in DOMAIN log[p] : log[p][l] = Created(outbox[i])
        BY <1>0, <3>5 DEF SentPublished, Range
      <4>2. log'[p][l] = log[p][l] /\ l \in 1 .. (k - 1)
        BY <1>0, <3>4, MessagesStay
      <4>3. QED
        BY <4>1, <4>2
    <3>6. PICK j \in DOMAIN outbox : j = sent + 1
      BY <3>3
    <3>7. /\ log'[p][k] = Created(outbox'[j]) /\ PartitionOf[outbox'[j]] = p
          /\ 1 .. (j - 1) = 1 .. sent /\ j \in DOMAIN outbox'
      BY <1>0, <3>1, <3>2, <3>3, <3>4, <3>6
    <3>8. QED
      BY <3>3, <3>5, <3>7
  <2>2. ASSUME NEW q \in Partitions, OtherMessage(q) PROVE FALSE
    <3>1. PICK kind \in OtherKinds, e \in Events : Publish(q, [kind |-> kind, event |-> e])
      BY <2>2 DEF OtherMessage
    <3>2. PICK msg \in Messages : msg = [kind |-> kind, event |-> e] /\ msg.kind # "created"
      <4>1. [kind |-> kind, event |-> e] \in Messages /\ kind # "created"
        BY OtherKindsAssumption DEF Messages, Kinds
      <4>2. [kind |-> kind, event |-> e].kind = kind
        OBVIOUS
      <4>3. QED
        BY <4>1, <4>2
    <3>3. log'[p][k] = msg
      BY <1>0, <1>2, <3>1, <3>2, Appended
    <3>4. QED
      BY <3>2, <3>3
  <2>3. log' # log
    BY <1>2
  <2>4. QED
    BY <2>1, <2>2, <2>3, SourceCases
<1>3. QED
  BY <1>1, <1>2

(* What a failed poll discarded stays discarded.                           *)
LEMMA DroppedGrows ==
    ASSUME PipelineInv, [PipelineNext]_pvars, NEW p \in Partitions
    PROVE  dropped[p] \subseteq dropped'[p]
<1>1. CASE ConsumerStep
  BY <1>1 DEF ConsumerStep, ConsumerMove, PollRecords, FetchError, ProcessEnd, BackoffElapsed,
     RunReturns, Start, Cancel, Close, Evict, LosePartitions, Rebalance, FaultsStop, history
<1>2. CASE PublishStep
  BY <1>2, Publication DEF consumer, history
<1>3. CASE ~ConsumerStep /\ ~PublishStep
  BY <1>3, PipelineCases DEF SourceStep, CallStep, CallHandler, HandlerReturns, ProcessDies,
     OrderCommitted, CdcConfirm, CdcRestart, HandlerProgress, HandlerFault, SessionEnds, pvars,
     consumer, history, HandlerAccepts, HandlerFails, Crash
<1>4. QED
  BY <1>1, <1>2, <1>3

LEMMA PassedStays ==
    ASSUME PipelineInv, [PipelineNext]_pvars, NEW p \in Partitions, NEW k \in DOMAIN log[p],
           Passed(p, k)
    PROVE  Passed(p, k)'
<1>1. k \in 1 .. logEnd[p] /\ logEnd[p] \in Nat
  BY DEF PipelineInv, PipelineTypeOK, TypeOK
<1>2. ASSUME NEW o \in 0 .. (k - 2) PROVE Done(p, o)' \/ o \in dropped'[p]
  <2>1. o \in Nat /\ o < logEnd[p]
    BY <1>1
  <2>2. Done(p, o) \/ o \in dropped[p]
    BY DEF Passed
  <2>3. QED
    BY <2>1, <2>2, DoneStays, DroppedGrows
<1>3. QED
  BY <1>2 DEF Passed

(* Only a transaction that commits stores notifications, those of the      *)
(* event whose record its member serves; the member has come to that       *)
(* record past messages that are done or discarded.                        *)
LEMMA CommitsInOrder ==
    ASSUME PipelineInv, NEW m \in Members, Commit(m) \/ CommitUnacknowledged(m)
    PROVE  /\ event[m] \in Events /\ notes' = notes \cup ({event[m]} \X Channels)
           /\ \E k \in DOMAIN log[PartitionOf[event[m]]] :
                 /\ log[PartitionOf[event[m]]][k] = Created(event[m])
                 /\ Passed(PartitionOf[event[m]], k)
<1>1. at[m] = "create" /\ done[m] = Channels /\ Apply(m) /\ m \in Workers
  BY CompositionAssumption DEF Commit, CommitUnacknowledged
<1>2. event[m] \in Events /\ notes' = notes \cup ({event[m]} \X Channels)
  BY <1>1, ApplyStep DEF PipelineInv
<1>3. /\ serving[m] \in Partitions /\ AtRecord(m, serving[m])
      /\ Record(m).kind = "created" /\ Record(m).event = event[m]
  BY <1>1 DEF PipelineInv, PipelineTypeOK, ServesRecord, Serves
<1>4. PICK p \in Partitions : p = serving[m]
  BY <1>3
<1>5. /\ next[m][p] \in Nat /\ position[m][p] \in Nat /\ logEnd[p] \in Nat
      /\ next[m][p] < position[m][p] /\ position[m][p] <= logEnd[p]
      /\ DOMAIN log[p] = 1 .. logEnd[p]
  BY <1>3, <1>4 DEF PipelineInv, PipelineTypeOK, TypeOK, WithinLog, AtRecord, Pending
<1>6. PICK k \in DOMAIN log[p] : k = next[m][p] + 1
  BY <1>5
<1>7. log[p][k].kind = "created" /\ log[p][k].event = event[m]
  BY <1>3, <1>4, <1>6 DEF Record
<1>8. PICK j \in DOMAIN outbox : log[p][k] = Created(outbox[j]) /\ PartitionOf[outbox[j]] = p
  BY <1>7 DEF PipelineInv, OutboxOrder, LogInOutboxOrder
<1>9. outbox[j] = event[m]
  BY <1>7, <1>8 DEF Created
<1>10. Passed(p, k)
  <2>1. Covered(p, next[m][p])
    BY DEF PipelineInv, IndInv, ReadCovered
  <2>2. \A o \in 0 .. (k - 2) : o \in 0 .. (next[m][p] - 1)
    BY <1>5, <1>6
  <2>3. QED
    BY <2>1, <2>2 DEF Passed, Covered, PipelineInv, HandledDone
<1>11. QED
  BY <1>2, <1>8, <1>9, <1>10

LEMMA NotifiedFromLogKept ==
    ASSUME PipelineInv, [PipelineNext]_pvars
    PROVE  NotifiedFromLog'
<1> SUFFICES ASSUME NEW e \in Events, Notified(e)'
             PROVE  \E k \in DOMAIN log'[PartitionOf[e]] :
                       log'[PartitionOf[e]][k] = Created(e) /\ Passed(PartitionOf[e], k)'
  BY DEF NotifiedFromLog, Created
<1>1. PICK p \in Partitions : p = PartitionOf[e]
  BY PartitionOfAssumption
<1>2. PICK k \in DOMAIN log[p] : log[p][k] = Created(e) /\ Passed(p, k)
  <2>1. CASE Notified(e)
    BY <1>1, <2>1 DEF PipelineInv, OutboxOrder, NotifiedFromLog
  <2>2. CASE ~Notified(e)
    <3>1. notes' # notes
      BY <2>2 DEF Notified
    <3>2. PICK m \in Members : Commit(m) \/ CommitUnacknowledged(m)
      BY <3>1, HandlerMoves, HandlerCases, CompositionAssumption
      DEF Handle, Begin, Claim, CreateForChannel, Fail, Return, Die, ServerRollback, hvars, tables
    <3>3. event[m] \in Events /\ notes' = notes \cup ({event[m]} \X Channels)
      BY <3>2, CommitsInOrder
    <3>4. event[m] = e
      BY <2>2, <3>3 DEF Notified
    <3>5. QED
      BY <1>1, <3>2, <3>4, CommitsInOrder
  <2>3. QED
    BY <2>1, <2>2
<1>3. k \in DOMAIN log'[p] /\ log'[p][k] = Created(e) /\ Passed(p, k)'
  BY <1>2, MessagesStay, PassedStays
<1>4. QED
  BY <1>1, <1>3 DEF Passed, Done, Notified

LEMMA OutboxOrderKept ==
    ASSUME PipelineInv, [PipelineNext]_pvars
    PROVE  OutboxOrder'
  BY OutboxRowsKept, SentPublishedKept, LogInOutboxOrderKept, NotifiedFromLogKept
  DEF OutboxOrder, IsInjective

-----------------------------------------------------------------------------
(* The consumers of the pipeline do what KafkaConsumer lets them do.       *)

(* The bound on the log never holds a publication back.                    *)
LEMMA EventsFitKept ==
    ASSUME PipelineInv, [PipelineNext]_pvars
    PROVE  EventsFit'
<1> DEFINE n == Cardinality(Events)
<1> SUFFICES ASSUME NEW p \in Partitions PROVE logEnd'[p] + n - sent' <= MaxOffset
  BY DEF EventsFit
<1>0. /\ n \in Nat /\ MaxOffset \in Nat /\ sent \in Nat /\ confirmed \in Nat
      /\ confirmed <= sent /\ logEnd \in [Partitions -> Nat] /\ logEnd[p] + n - sent <= MaxOffset
      /\ logEnd[p] \in Nat
  BY RoomAssumption, BoundsAssumption, FS_CardinalityType
  DEF PipelineInv, PipelineTypeOK, TypeOK, EventsFit
<1> HIDE DEF n
<1>1. CASE CdcPublish
  <2>1. PICK q, msg : Publish(q, msg) /\ sent' = sent + 1
    BY <1>1 DEF CdcPublish
  <2>2. logEnd'[p] \in {logEnd[p], logEnd[p] + 1}
    BY <1>0, <2>1 DEF Publish
  <2>3. QED
    BY <1>0, <2>1, <2>2
<1>2. ASSUME NEW q \in Partitions, OtherMessage(q)
      PROVE  logEnd'[p] + n - sent' <= MaxOffset
  <2>1. Room(q, 1) /\ sent = confirmed /\ sent' = sent
    BY <1>2 DEF OtherMessage, source
  <2>2. logEnd' = [logEnd EXCEPT ![q] = @ + 1]
    BY <1>2 DEF OtherMessage, Publish
  <2>3. logEnd[q] \in Nat /\ logEnd[q] + 1 + n - confirmed <= MaxOffset
    BY <1>0, <2>1 DEF Room, n
  <2>4. CASE p = q
    BY <1>0, <2>1, <2>2, <2>3, <2>4
  <2>5. CASE p # q
    BY <1>0, <2>1, <2>2, <2>5
  <2>6. QED
    BY <2>4, <2>5
<1>3. CASE CdcRestart
  <2>1. logEnd[p] + 0 + n - confirmed <= MaxOffset /\ sent' = confirmed /\ logEnd' = logEnd
    BY <1>3 DEF CdcRestart, Room, topic, n
  <2>2. QED
    BY <1>0, <2>1
<1>4. CASE ~PublishStep /\ ~CdcRestart
  <2>1. sent' = sent /\ log' = log
    BY <1>4, PipelineCases DEF ConsumerStep, SourceStep, CallStep, CallHandler, HandlerReturns,
       ProcessDies, OrderCommitted, CdcConfirm, HandlerProgress, HandlerFault, SessionEnds,
       pvars, source, topic
  <2>2. logEnd'[p] = logEnd[p]
    BY <2>1, PipelineTypeKept DEF PipelineInv, PipelineTypeOK
  <2>3. QED
    BY <1>0, <2>1, <2>2
<1>5. QED
  BY <1>1, <1>2, <1>3, <1>4 DEF PublishStep

(* The outbox has no more rows than there are events.                      *)
LEMMA OutboxFits ==
    ASSUME PipelineInv
    PROVE  Len(outbox) \in Nat /\ Len(outbox) <= Cardinality(Events)
<1>1. outbox \in Seq(Events) /\ Len(outbox) \in Nat /\ IsInjective(outbox)
  BY DEF PipelineInv, PipelineTypeOK, OutboxOrder
<1>2. outbox \in Injection(1 .. Len(outbox), Events)
  BY <1>1 DEF Injection, IsInjective
<1>3. Cardinality(1 .. Len(outbox)) <= Cardinality(Events)
  BY <1>2, RoomAssumption, FS_Injection
<1>4. Cardinality(1 .. Len(outbox)) = Len(outbox)
  BY <1>1, FS_Interval
<1>5. QED
  BY <1>1, <1>3, <1>4

(* A row that Debezium has still to publish finds room in its partition.   *)
LEMMA RowHasRoom ==
    ASSUME PipelineInv, sent < Len(outbox), NEW p \in Partitions
    PROVE  logEnd[p] < MaxOffset
<1>1. /\ sent \in Nat /\ logEnd[p] \in Nat /\ Cardinality(Events) \in Nat /\ MaxOffset \in Nat
      /\ logEnd[p] + Cardinality(Events) - sent <= MaxOffset
  BY RoomAssumption, BoundsAssumption, FS_CardinalityType
  DEF PipelineInv, PipelineTypeOK, TypeOK, EventsFit
<1>2. QED
  BY <1>1, OutboxFits

LEMMA PipelineInvStep == PipelineInv /\ [PipelineNext]_pvars => PipelineInv'
  BY PipelineTypeKept, ConsumerKept, HandlerKept, WithinLogKept, ServesKept, HandledDoneKept,
     LogFromOutboxKept, OutboxOrderKept, EventsFitKept DEF PipelineInv

(* The invariants of the consumer and of the handler, and the parts that   *)
(* tie them to the topic, hold in every reachable state of the pipeline.   *)
THEOREM PipelineInvariance == PipelineSpec => []PipelineInv
  BY PipelineInvInit, PipelineInvStep, PTL DEF PipelineSpec

(* In the pipeline the handler does what it does alone, so whatever is     *)
(* proved of NotificationHandler holds here as well.                       *)
THEOREM HandlerInPipeline == PipelineSpec => HandlerSafetySpec
<1>1. PipelineInit => HandlerInit
  BY DEF PipelineInit
<1>2. PipelineInv /\ [PipelineNext]_pvars => [HandlerNext]_hvars
  BY HandlerMoves
<1>3. QED
  BY <1>1, <1>2, PipelineInvariance, PTL DEF PipelineSpec, HandlerSafetySpec

-----------------------------------------------------------------------------
(* The properties.                                                         *)

(* End to end: what the group has committed was handled or discarded with  *)
(* a fetch error, and what was handled has its notifications stored.       *)
THEOREM CommitsAreNotified == PipelineSpec => []CommittedMeansNotified
<1>1. ASSUME PipelineInv, NEW p \in Partitions, NEW o \in 0 .. (committed[p] - 1)
      PROVE  Done(p, o) \/ o \in dropped[p]
  <2>1. o \in handled[p] \cup dropped[p]
    BY <1>1 DEF PipelineInv, IndInv, CommitCovered, Covered
  <2>2. QED
    BY <1>1, <2>1 DEF PipelineInv, HandledDone
<1>2. PipelineInv => CommittedMeansNotified
  BY <1>1 DEF CommittedMeansNotified
<1>3. QED
  BY <1>2, PipelineInvariance, PTL

(* One transaction at most stores the notifications of an event, with any  *)
(* number of publications, redeliveries and members.                       *)
THEOREM NotifiedAtMostOnce == PipelineSpec => []NotifiedOnce
<1>1. PipelineInv => NotifiedOnce
  BY DEF PipelineInv, HandlerInv, StoredMatchesInbox, NotifiedOnce
<1>2. QED
  BY <1>1, PipelineInvariance, PTL

(* A message that does not parse holds its partition: the group's offset   *)
(* stays before it, and nothing after it is handled.                       *)
THEOREM InvalidHolds == PipelineSpec => []InvalidBlocks
<1>1. ASSUME PipelineInv, NEW p \in Partitions, NEW o \in 0 .. (Len(log[p]) - 1),
             log[p][o + 1].kind = "invalid"
      PROVE  /\ o \notin handled[p]
             /\ o \in dropped[p] \/ (committed[p] <= o /\ \A later \in handled[p] : later < o)
  <2>1. o \notin handled[p]
    BY <1>1 DEF PipelineInv, HandledDone, Done
  <2>2. SUFFICES ASSUME o \notin dropped[p]
                 PROVE  committed[p] <= o /\ \A later \in handled[p] : later < o
    BY <2>1
  <2>3. committed[p] \in Nat /\ handled[p] \in SUBSET Nat /\ o \in Nat
    BY <1>1 DEF PipelineInv, PipelineTypeOK, TypeOK
  <2>4. ASSUME NEW n \in Nat, Covered(p, n) PROVE n <= o
    BY <2>1, <2>2, <2>3, <2>4 DEF Covered
  <2>5. committed[p] <= o
    BY <1>1, <2>3, <2>4 DEF PipelineInv, IndInv, CommitCovered
  <2>6. ASSUME NEW later \in handled[p] PROVE later < o
    <3>1. later <= o
      BY <1>1, <2>3, <2>4 DEF PipelineInv, IndInv, HandledInOrder
    <3>2. QED
      BY <2>1, <2>3, <3>1
  <2>7. QED
    BY <2>5, <2>6
<1>2. PipelineInv => InvalidBlocks
  BY <1>1 DEF InvalidBlocks
<1>3. QED
  BY <1>2, PipelineInvariance, PTL

(* Order end to end: within a partition an order is notified after all     *)
(* those that committed before it, but for the ones a failed poll lost.    *)
(* The notified event stands in its partition behind all the earlier rows  *)
(* of the outbox and behind nothing that is not done or discarded.         *)
THEOREM NotificationOrder == PipelineSpec => []NotifiedInOrder
<1>1. ASSUME PipelineInv, NEW i \in DOMAIN outbox, NEW j \in DOMAIN outbox, i < j,
             PartitionOf[outbox[i]] = PartitionOf[outbox[j]], Notified(outbox[j])
      PROVE  Notified(outbox[i]) \/ outbox[i] \in LostEvents
  <2>1. /\ outbox \in Seq(Events) /\ DOMAIN outbox = 1 .. Len(outbox) /\ Len(outbox) \in Nat
        /\ outbox[i] \in Events /\ outbox[j] \in Events /\ outbox[i] \in Range(outbox)
    BY <1>1 DEF PipelineInv, PipelineTypeOK, Range
  <2>2. PICK p \in Partitions : p = PartitionOf[outbox[i]] /\ p = PartitionOf[outbox[j]]
    BY <1>1, <2>1, PartitionOfAssumption
  <2>3. PICK k \in DOMAIN log[p] : log[p][k] = Created(outbox[j]) /\ Passed(p, k)
    BY <1>1, <2>1, <2>2 DEF PipelineInv, OutboxOrder, NotifiedFromLog
  <2>4. log[p][k].kind = "created" /\ log[p][k].event = outbox[j]
    BY <2>3 DEF Created
  <2>5. PICK r \in DOMAIN outbox : log[p][k] = Created(outbox[r]) /\ Behind(p, k, r)
    BY <1>1, <2>4 DEF PipelineInv, OutboxOrder, LogInOutboxOrder
  <2>6. r = j
    BY <1>1, <2>4, <2>5 DEF PipelineInv, OutboxOrder, IsInjective, Created
  <2>7. PICK l \in 1 .. (k - 1) : log[p][l] = Created(outbox[i])
    BY <1>1, <2>1, <2>2, <2>5, <2>6 DEF Behind
  <2>8. log[p][l].kind = "created" /\ log[p][l].event = outbox[i]
    BY <2>7 DEF Created
  <2>9. PICK o \in 0 .. (k - 2) : o + 1 = l
    <3>1. k \in Nat
      BY <1>1, <2>3 DEF PipelineInv, PipelineTypeOK
    <3>2. l - 1 \in 0 .. (k - 2) /\ (l - 1) + 1 = l
      BY <3>1
    <3>3. QED
      BY <3>2
  <2>10. CASE Done(p, o)
    BY <2>8, <2>9, <2>10 DEF Done
  <2>11. CASE o \in dropped[p]
    BY <2>1, <2>2, <2>8, <2>9, <2>11 DEF LostEvents
  <2>12. QED
    BY <2>3, <2>10, <2>11 DEF Passed
<1>2. PipelineInv => NotifiedInOrder
  BY <1>1 DEF NotifiedInOrder
<1>3. QED
  BY <1>2, PipelineInvariance, PTL

-----------------------------------------------------------------------------
(* The consumers, in the pipeline as alone.                                *)

LEMMA ConsumerMoveRefined == ConsumerMove => [K!Next]_(K!vars)
<1> USE DEF broker, group, client, history, K!broker, K!group, K!client, K!history
<1>1. ASSUME NEW m \in Members, NEW end \in Ends, PollRecords(m, end) \/ FetchError(m, end)
      PROVE  K!Next
  <2>1. CanFetch(m, end) => K!CanFetch(m, end)
    BY DEF CanFetch, Fetched, Cardinality, K!CanFetch, K!Fetched, K!Cardinality
  <2>2. CASE PollRecords(m, end)
    <3>1. K!PollRecords(m, end)
      BY <2>1, <2>2 DEF PollRecords, K!PollRecords
    <3>2. QED
      BY <3>1 DEF K!Next, K!MemberStep, Ends, K!Ends
  <2>3. CASE FetchError(m, end)
    <3>1. K!FetchError(m, end)
      BY <2>1, <2>3 DEF FetchError, K!FetchError
    <3>2. QED
      BY <3>1 DEF K!Next, K!MemberStep, Ends, K!Ends
  <2>4. QED
    BY <1>1, <2>2, <2>3
<1>2. ASSUME NEW m \in Members, ProcessEnd(m) PROVE K!Next
  <2>1. K!ProcessEnd(m)
    BY <1>2 DEF ProcessEnd, K!ProcessEnd, Pending, K!Pending, CommitRecords, K!CommitRecords,
       SetOffsets, K!SetOffsets
  <2>2. QED
    BY <2>1 DEF K!Next, K!MemberStep
<1>3. ASSUME NEW m \in Members, \/ BackoffElapsed(m) \/ RunReturns(m) \/ Start(m) \/ Cancel(m)
                                \/ Close(m) \/ Evict(m) \/ LosePartitions(m)
      PROVE  K!Next
  <2>1. \/ K!BackoffElapsed(m) \/ K!RunReturns(m) \/ K!Start(m) \/ K!Cancel(m)
        \/ K!Close(m) \/ K!Evict(m) \/ K!LosePartitions(m)
    BY <1>3 DEF BackoffElapsed, RunReturns, Start, Cancel, Close, Evict, LosePartitions,
       ForgetClient, RemoveFromGroup, Zero, K!BackoffElapsed, K!RunReturns, K!Start, K!Cancel,
       K!Close, K!Evict, K!LosePartitions, K!ForgetClient, K!RemoveFromGroup, K!Zero
  <2>2. QED
    BY <2>1 DEF K!Next, K!MemberStep
<1>4. ASSUME NEW J \in SUBSET Members, NEW newOwner \in [Partitions -> J],
             Rebalance(J, newOwner)
      PROVE  K!Next
  <2>1. K!Rebalance(J, newOwner)
    BY <1>4 DEF Rebalance, K!Rebalance, Reassigned, K!Reassigned
  <2>2. QED
    BY <2>1 DEF K!Next
<1>5. CASE FaultsStop
  BY <1>5 DEF FaultsStop, K!vars
<1>6. QED
  BY <1>1, <1>2, <1>3, <1>4, <1>5 DEF ConsumerMove

LEMMA ConsumersStepRefined ==
    ASSUME PipelineInv, [PipelineNext]_pvars
    PROVE  [K!Next]_(K!vars)
<1> USE DEF broker, group, client, history, K!broker, K!group, K!client, K!history
<1>1. CASE ConsumerStep
  BY <1>1, ConsumerMoveRefined DEF ConsumerStep
<1>2. CASE CdcPublish
  <2>1. sent < Len(outbox)
    BY <1>2 DEF CdcPublish
  <2>2. PICK p \in Partitions : p = PartitionOf[outbox[sent + 1]]
    BY <1>2, NextRow
  <2>3. logEnd[p] < MaxOffset
    BY <2>1, RowHasRoom
  <2>4. K!Produce(p)
    BY <1>2, <2>2, <2>3 DEF CdcPublish, Publish, consumer, K!Produce
  <2>5. QED
    BY <2>4 DEF K!Next
<1>3. ASSUME NEW p \in Partitions, OtherMessage(p) PROVE K!Next
  <2>1. logEnd[p] < MaxOffset
    <3>1. /\ logEnd[p] \in Nat /\ sent \in Nat /\ MaxOffset \in Nat /\ Cardinality(Events) \in Nat
          /\ logEnd[p] + 1 + Cardinality(Events) - sent <= MaxOffset
      BY <1>3, RoomAssumption, BoundsAssumption, FS_CardinalityType
      DEF PipelineInv, PipelineTypeOK, TypeOK, OtherMessage, Room
    <3>2. Len(outbox) \in Nat /\ Len(outbox) <= Cardinality(Events)
      BY OutboxFits
    <3>3. sent <= Len(outbox)
      BY DEF PipelineInv, PipelineTypeOK
    <3>4. QED
      BY <3>1, <3>2, <3>3
  <2>2. K!Produce(p)
    BY <1>3, <2>1 DEF OtherMessage, Publish, consumer, K!Produce
  <2>3. QED
    BY <2>2 DEF K!Next
<1>4. ASSUME NEW m \in Members, NEW p \in Partitions, HandlerReturns(m, p)
      PROVE  K!Next
  <2>1. HandlerAccepts(m, p) \/ HandlerFails(m, p)
    BY <1>4 DEF HandlerReturns
  <2>2. K!HandlerOk(m, p) \/ K!HandlerError(m, p)
    BY <2>1, CompositionAssumption
    DEF HandlerAccepts, HandlerFails, AtRecord, Pending, Begun, K!HandlerOk, K!HandlerError,
        K!HandlerAccepts, K!HandlerFails, K!AtRecord, K!Pending, K!Begun
  <2>3. QED
    BY <2>2 DEF K!Next, K!MemberStep
<1>5. ASSUME NEW m \in Members, ProcessDies(m) PROVE K!Next
  <2>1. K!Crash(m)
    BY <1>5 DEF ProcessDies, Crash, K!Crash, ForgetClient, K!ForgetClient, Zero, K!Zero
  <2>2. QED
    BY <2>1 DEF K!Next, K!MemberStep
<1>6. CASE \/ SourceStep \/ CallStep \/ UNCHANGED pvars
           \/ \E m \in Members, p \in Partitions : CallHandler(m, p)
  <2>1. UNCHANGED <<topic, consumer>>
    BY <1>6 DEF SourceStep, CallStep, CallHandler, OrderCommitted, CdcConfirm, CdcRestart,
       HandlerProgress, HandlerFault, SessionEnds, pvars
  <2>2. QED
    BY <2>1 DEF topic, consumer, K!vars
<1>7. QED
  BY <1>1, <1>2, <1>3, <1>4, <1>5, <1>6, PipelineCases DEF PublishStep

(* The composition gives the consumer loop and the group no behaviour that *)
(* KafkaConsumer, with its abstract handler and producer, does not have.   *)
THEOREM ConsumersInPipeline == PipelineSpec => ConsumersRefined
<1>1. PipelineInit => K!Init
  BY DEF PipelineInit, Init, K!Init, Zero, K!Zero
<1>2. PipelineInv /\ [PipelineNext]_pvars => [K!Next]_(K!vars)
  BY ConsumersStepRefined
<1>3. QED
  BY <1>1, <1>2, PipelineInvariance, PTL DEF PipelineSpec, ConsumersRefined, K!Spec

(* What is proved of the group alone holds with the real handler, its      *)
(* transactions and Debezium around it.                                    *)
THEOREM GroupInPipeline == PipelineSpec => [](CommitCovered /\ HandledInOrder /\ BatchOwned)
<1>1. PipelineInv => CommitCovered /\ HandledInOrder /\ BatchOwned
  BY BatchesOwned DEF PipelineInv, IndInv
<1>2. QED
  BY <1>1, PipelineInvariance, PTL

(* The group's offsets never go back, whatever the handlers do.            *)
THEOREM CommitsInPipeline == PipelineSpec => CommittedNeverRewinds
<1> DEFINE Forward == \A p \in Partitions : committed'[p] >= committed[p]
<1>1. PipelineInv /\ [PipelineNext]_pvars => [Forward]_vars
  <2> SUFFICES ASSUME PipelineInv, [PipelineNext]_pvars, NEW p \in Partitions
               PROVE  committed'[p] >= committed[p]
    OBVIOUS
  <2>1. IndInv /\ committed[p] \in Nat
    BY DEF PipelineInv, IndInv, TypeOK
  <2>2. committed' = committed \/ \E m \in Members : ProcessEnd(m)
    BY PipelineCases, Publication
    DEF ConsumerStep, ConsumerMove, PollRecords, FetchError, BackoffElapsed, RunReturns, Start,
        Cancel, Close, Evict, LosePartitions, Rebalance, FaultsStop, SourceStep, OrderCommitted,
        CdcConfirm, CdcRestart, CallStep, HandlerProgress, HandlerFault, SessionEnds,
        CallHandler, HandlerReturns, HandlerAccepts, HandlerFails, ProcessDies, Crash, pvars,
        consumer, broker
  <2>3. QED
    BY <2>1, <2>2, CommitForward
<1>2. QED
  BY <1>1, PipelineInvariance, PTL DEF PipelineSpec, CommittedNeverRewinds

-----------------------------------------------------------------------------
(* The refinement.  Only four kinds of steps show: an order that commits   *)
(* accepts its event, a transaction that commits delivers one, a failed    *)
(* poll may lose some; all the others stutter.                             *)

Delivered == {e \in Events : Notified(e)}

LEMMA DeliveryInitRefined == PipelineInit => D!DeliveryInit
<1> SUFFICES ASSUME PipelineInit PROVE D!DeliveryInit
  OBVIOUS
<1>1. Range(outbox) = {}
  BY DEF PipelineInit, Range
<1>2. LostEvents = {}
  BY <1>1 DEF LostEvents
<1>3. Delivered = {}
  BY NothingNotified DEF Delivered
<1>4. QED
  BY <1>1, <1>2, <1>3 DEF D!DeliveryInit, Delivered

(* What a failed poll discarded lies in the log and stays what it was.     *)
LEMMA DroppedStays ==
    ASSUME PipelineInv, [PipelineNext]_pvars, NEW p \in Partitions, NEW o \in dropped[p]
    PROVE  /\ o + 1 \in DOMAIN log[p]
           /\ log'[p][o + 1] = log[p][o + 1]
<1>1. o \in Nat /\ o < logEnd[p] /\ logEnd[p] \in Nat
  BY DEF PipelineInv, PipelineTypeOK, TypeOK, WithinLog
<1>2. o + 1 \in 1 .. logEnd[p]
  BY <1>1
<1>3. DOMAIN log[p] = 1 .. logEnd[p]
  BY DEF PipelineInv, PipelineTypeOK
<1>4. QED
  BY <1>2, <1>3, Growth

LEMMA OrderAccepts ==
    ASSUME PipelineInv, [PipelineNext]_pvars, NEW e \in Events, OrderCommitted(e)
    PROVE  D!Accept(e)
<1>1. /\ e \notin Range(outbox) /\ outbox' = Append(outbox, e) /\ outbox \in Seq(Events)
      /\ UNCHANGED <<topic, consumer, handler>>
  BY DEF PipelineInv, PipelineTypeOK, OrderCommitted
<1>2. Range(outbox') = Range(outbox) \cup {e}
  <2>1. Len(outbox) \in Nat /\ DOMAIN outbox' = 1 .. Len(outbox) + 1 /\ outbox'[Len(outbox) + 1] = e
    BY <1>1
  <2>2. DOMAIN outbox = 1 .. Len(outbox) /\ \A i \in DOMAIN outbox : outbox'[i] = outbox[i]
    BY <1>1
  <2>3. DOMAIN outbox' = DOMAIN outbox \cup {Len(outbox) + 1}
    BY <2>1, <2>2
  <2>4. QED
    BY <2>1, <2>2, <2>3 DEF Range
<1>3. log' = log /\ dropped' = dropped /\ notes' = notes
  BY <1>1 DEF topic, consumer, history, handler, tables
<1>4. LostEvents' = LostEvents
  <2>1. ASSUME NEW p \in Partitions, NEW o \in dropped[p], log[p][o + 1].kind = "created"
        PROVE  log[p][o + 1].event # e
    <3>1. o + 1 \in DOMAIN log[p]
      BY DroppedStays
    <3>2. log[p][o + 1].event \in Range(outbox)
      BY <2>1, <3>1 DEF PipelineInv, LogFromOutbox
    <3>3. QED
      BY <1>1, <3>2
  <2>2. PartitionOf[e] \in Partitions
    BY PartitionOfAssumption
  <2>3. QED
    BY <1>2, <1>3, <2>1, <2>2 DEF LostEvents
<1>5. Delivered' = Delivered
  BY <1>3 DEF Delivered, Notified
<1>6. QED
  BY <1>1, <1>2, <1>4, <1>5 DEF D!Accept, Delivered

LEMMA CommitDelivers ==
    ASSUME PipelineInv, [PipelineNext]_pvars, NEW m \in Members,
           Commit(m) \/ CommitUnacknowledged(m), UNCHANGED <<source, topic, consumer>>
    PROVE  D!Deliver(event[m]) \/ UNCHANGED D!dvars
<1>0. m \in Workers
  BY CompositionAssumption
<1>1. at[m] = "create" /\ done[m] = Channels /\ Apply(m)
  BY DEF Commit, CommitUnacknowledged
<1>2. event[m] \in Events /\ notes' = notes \cup ({event[m]} \X Channels)
  BY <1>0, <1>1, ApplyStep DEF PipelineInv
<1>3. PICK e \in Events : e = event[m]
  BY <1>2
<1>4. Delivered' = Delivered \cup {e}
  BY <1>2, <1>3, ChannelsAssumption DEF Delivered, Notified
<1>5. e \in Range(outbox)
  <2>1. /\ serving[m] \in Partitions /\ AtRecord(m, serving[m])
        /\ Record(m).kind = "created" /\ Record(m).event = e
    BY <1>1, <1>3 DEF PipelineInv, PipelineTypeOK, ServesRecord, Serves
  <2>2. PICK p \in Partitions : p = serving[m]
    BY <2>1
  <2>3. next[m][p] + 1 \in DOMAIN log[p]
    BY <2>1, <2>2 DEF PipelineInv, PipelineTypeOK, TypeOK, WithinLog, AtRecord, Pending
  <2>4. QED
    BY <2>1, <2>2, <2>3 DEF PipelineInv, LogFromOutbox, Record
<1>6. outbox' = outbox /\ LostEvents' = LostEvents
  BY DEF source, topic, consumer, history, LostEvents
<1>7. CASE e \in Delivered
  BY <1>4, <1>6, <1>7 DEF D!dvars, Delivered
<1>8. CASE e \notin Delivered
  BY <1>3, <1>4, <1>5, <1>6, <1>8 DEF D!Deliver, Delivered
<1>9. QED
  BY <1>7, <1>8

LEMMA PollLoses ==
    ASSUME PipelineInv, NEW m \in Members, NEW end \in Ends, FetchError(m, end),
           UNCHANGED <<source, log, handler>>
    PROVE  (\E S \in SUBSET Events : D!Lose(S)) \/ UNCHANGED D!dvars
<1>1. /\ outbox' = outbox /\ log' = log /\ notes' = notes
      /\ \A p \in Partitions : dropped[p] \subseteq dropped'[p]
  BY DEF source, handler, tables, FetchError
<1>2. Range(outbox) \subseteq Events
  BY DEF PipelineInv, PipelineTypeOK, Range
<1>3. /\ LostEvents \subseteq LostEvents' /\ LostEvents' \subseteq Range(outbox)
      /\ Delivered' = Delivered
  BY <1>1, <1>2, PartitionOfAssumption DEF LostEvents, Delivered, Notified
<1>4. CASE LostEvents' = LostEvents
  BY <1>1, <1>3, <1>4 DEF D!dvars, Delivered
<1>5. CASE LostEvents' # LostEvents
  <2>1. PICK S : S = LostEvents' \ LostEvents
    OBVIOUS
  <2>2. S # {} /\ S \in SUBSET Events /\ S \subseteq Range(outbox) \ LostEvents
    BY <1>2, <1>3, <1>5, <2>1
  <2>3. LostEvents' = LostEvents \cup S
    BY <1>3, <2>1
  <2>4. D!Lose(S)
    BY <1>1, <1>3, <2>2, <2>3 DEF D!Lose, Delivered
  <2>5. QED
    BY <2>2, <2>4
<1>6. QED
  BY <1>4, <1>5

LEMMA DeliveryStepRefined ==
    ASSUME PipelineInv, [PipelineNext]_pvars
    PROVE  [D!DeliveryNext]_(D!dvars)
<1>1. ASSUME NEW e \in Events, OrderCommitted(e) PROVE [D!DeliveryNext]_(D!dvars)
  BY <1>1, OrderAccepts DEF D!DeliveryNext
<1>2. ASSUME NEW m \in Members, Commit(m) \/ CommitUnacknowledged(m),
             HandlerProgress(m) \/ HandlerFault(m)
      PROVE  [D!DeliveryNext]_(D!dvars)
  <2>1. UNCHANGED <<source, topic, consumer>>
    BY <1>2 DEF HandlerProgress, HandlerFault
  <2>2. event[m] \in Events
    BY <1>2, CompositionAssumption, ApplyStep DEF Commit, CommitUnacknowledged, PipelineInv
  <2>3. QED
    BY <1>2, <2>1, <2>2, CommitDelivers DEF D!DeliveryNext
<1>3. ASSUME NEW m \in Members, NEW end \in Ends, FetchError(m, end), ConsumerStep
      PROVE  [D!DeliveryNext]_(D!dvars)
  BY <1>3, PollLoses DEF ConsumerStep, D!DeliveryNext
<1>4. ASSUME outbox' = outbox, notes' = notes, dropped' = dropped
      PROVE  [D!DeliveryNext]_(D!dvars)
  <2>1. LostEvents' = LostEvents
    <3>1. \A p \in Partitions : \A o \in dropped[p] : log'[p][o + 1] = log[p][o + 1]
      BY DroppedStays
    <3>2. \A e \in Range(outbox) : PartitionOf[e] \in Partitions
      BY PartitionOfAssumption DEF PipelineInv, PipelineTypeOK, Range
    <3>3. QED
      BY <1>4, <3>1, <3>2 DEF LostEvents
  <2>2. Delivered' = Delivered
    BY <1>4 DEF Delivered, Notified
  <2>3. QED
    BY <1>4, <2>1, <2>2 DEF D!dvars, Delivered
<1>5. CASE ConsumerStep
  <2>1. outbox' = outbox /\ notes' = notes
    BY <1>5 DEF ConsumerStep, source, handler, tables
  <2>2. dropped' = dropped \/ \E m \in Members : \E end \in Ends : FetchError(m, end)
    BY <1>5 DEF ConsumerStep, ConsumerMove, PollRecords, ProcessEnd, BackoffElapsed, RunReturns,
       Start, Cancel, Close, Evict, LosePartitions, Rebalance, FaultsStop, history
  <2>3. QED
    BY <1>3, <1>4, <1>5, <2>1, <2>2
<1>6. CASE PublishStep
  BY <1>4, <1>6, Publication DEF consumer, history, handler, tables
<1>7. CASE CallStep
  <2>1. outbox' = outbox /\ dropped' = dropped
    BY <1>7 DEF CallStep, HandlerProgress, HandlerFault, SessionEnds, source, consumer, history
  <2>2. \/ notes' = notes
        \/ \E m \in Members : /\ Commit(m) \/ CommitUnacknowledged(m)
                              /\ HandlerProgress(m) \/ HandlerFault(m)
    BY <1>7 DEF CallStep, HandlerProgress, HandlerFault, SessionEnds, CallProgress, CallFault,
       Begin, Claim, CreateForChannel, Fail, ServerRollback, tables
  <2>3. QED
    BY <1>2, <1>4, <2>1, <2>2
<1>8. CASE \/ CdcConfirm \/ CdcRestart \/ UNCHANGED pvars
           \/ \E m \in Members, p \in Partitions : CallHandler(m, p) \/ HandlerReturns(m, p)
           \/ \E m \in Members : ProcessDies(m)
  <2>1. outbox' = outbox /\ notes' = notes /\ dropped' = dropped
    BY <1>8 DEF CdcConfirm, CdcRestart, pvars, CallHandler, HandlerReturns, ProcessDies, source,
       consumer, history, handler, tables, Handle, HandlerAccepts, HandlerFails, Return, Crash,
       Die
  <2>2. QED
    BY <1>4, <2>1
<1>9. QED
  BY <1>1, <1>5, <1>6, <1>7, <1>8, PipelineCases DEF SourceStep

(* The pipeline implements EventDelivery: an event is delivered at most    *)
(* once and only after its order committed, and what may be lost was in a  *)
(* poll that failed.                                                       *)
THEOREM PipelineDelivers == PipelineSpec => DeliveryRefined
<1>1. PipelineInit => D!DeliveryInit
  BY DeliveryInitRefined
<1>2. PipelineInv /\ [PipelineNext]_pvars => [D!DeliveryNext]_(D!dvars)
  BY DeliveryStepRefined
<1>3. QED
  BY <1>1, <1>2, PipelineInvariance, PTL DEF PipelineSpec, DeliveryRefined, D!Delivery
=============================================================================
