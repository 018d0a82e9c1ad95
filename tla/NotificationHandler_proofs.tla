-------------------- MODULE NotificationHandler_proofs --------------------
(***************************************************************************)
(* Proofs about NotificationHandler for every set of instances, events and *)
(* channels: HandlerInv is inductive, and the agreement of the two tables, *)
(* the single storing transaction, the meaning of a reported success and   *)
(* the absence of a wait past the claim follow from it.                    *)
(***************************************************************************)
EXTENDS NotificationHandler, TLAPS

(* The steps of HandlerNext, one disjunct each.                            *)
LEMMA HandlerCases ==
    ASSUME [HandlerNext]_hvars
    PROVE  \/ \E w \in Workers : \E msg \in Messages : Handle(w, msg)
           \/ \E w \in Workers : Begin(w)
           \/ \E w \in Workers : Claim(w)
           \/ \E w \in Workers : \E c \in Channels : CreateForChannel(w, c)
           \/ \E w \in Workers : Commit(w)
           \/ \E w \in Workers : CommitUnacknowledged(w)
           \/ \E w \in Workers : Fail(w)
           \/ \E w \in Workers : Return(w)
           \/ \E w \in Workers : Die(w)
           \/ \E e \in Events : ServerRollback(e)
           \/ UNCHANGED hvars
  BY DEF HandlerNext, CallProgress, CallFault

LEMMA HandlerInvInit == HandlerInit => HandlerInv
<1> SUFFICES ASSUME HandlerInit PROVE HandlerInv
  OBVIOUS
<1>1. HandlerTypeOK
  BY DEF HandlerInit, HandlerTypeOK, Stages
<1>2. HeldInCreate /\ HolderAlone /\ PastClaim
  BY DEF HandlerInit, HeldInCreate, HolderAlone, PastClaim
<1>3. StoredMatchesInbox /\ InboxMatchesNotifications /\ SuccessMeansStored
  BY DEF HandlerInit, StoredMatchesInbox, InboxMatchesNotifications, SuccessMeansStored
<1>4. QED
  BY <1>1, <1>2, <1>3 DEF HandlerInv

-----------------------------------------------------------------------------
(* Type correctness.                                                       *)

LEMMA HandlerTypeStep == HandlerTypeOK /\ HeldInCreate /\ [HandlerNext]_hvars => HandlerTypeOK'
<1> SUFFICES ASSUME HandlerTypeOK, HeldInCreate, [HandlerNext]_hvars PROVE HandlerTypeOK'
  OBVIOUS
<1> USE DEF HandlerTypeOK, Stages, tables, calls
<1>1. ASSUME NEW w \in Workers, NEW msg \in Messages, Handle(w, msg) PROVE HandlerTypeOK'
  BY <1>1 DEF Handle, Messages
<1>2. ASSUME NEW w \in Workers, Begin(w) PROVE HandlerTypeOK'
  BY <1>2 DEF Begin
<1>3. ASSUME NEW w \in Workers, Claim(w) PROVE HandlerTypeOK'
  BY <1>3 DEF Claim
<1>4. ASSUME NEW w \in Workers, NEW c \in Channels, CreateForChannel(w, c) PROVE HandlerTypeOK'
  BY <1>4 DEF CreateForChannel
<1>5. ASSUME NEW w \in Workers, at[w] = "create", Apply(w)
      PROVE  /\ inbox' \in SUBSET Events
             /\ notes' \in SUBSET (Events \X Channels)
             /\ stored' \in [Events -> Nat]
  <2>1. event[w] \in Events
    BY <1>5 DEF HeldInCreate
  <2>2. inbox' \in SUBSET Events /\ notes' \in SUBSET (Events \X Channels)
    BY <1>5, <2>1 DEF Apply
  <2>3. stored' \in [Events -> Nat]
    BY <1>5, <2>1 DEF Apply
  <2>4. QED
    BY <2>2, <2>3
<1>6. ASSUME NEW w \in Workers, Commit(w) PROVE HandlerTypeOK'
  BY <1>5, <1>6 DEF Commit, EndCall
<1>7. ASSUME NEW w \in Workers, CommitUnacknowledged(w) PROVE HandlerTypeOK'
  BY <1>5, <1>7 DEF CommitUnacknowledged, EndCall
<1>8. ASSUME NEW w \in Workers, Fail(w) PROVE HandlerTypeOK'
  <2>1. newInbox[w] => event[w] \in Events
    BY DEF HeldInCreate
  <2>2. QED
    BY <1>8, <2>1 DEF Fail, EndCall
<1>9. ASSUME NEW w \in Workers, Return(w) PROVE HandlerTypeOK'
  BY <1>9 DEF Return
<1>10. ASSUME NEW w \in Workers, Die(w) PROVE HandlerTypeOK'
  <2>1. newInbox[w] => event[w] \in Events
    BY DEF HeldInCreate
  <2>2. QED
    BY <1>10, <2>1 DEF Die, EndCall
<1>11. ASSUME NEW e \in Events, ServerRollback(e) PROVE HandlerTypeOK'
  BY <1>11 DEF ServerRollback
<1>12. CASE UNCHANGED hvars
  BY <1>12 DEF hvars
<1>13. QED
  BY <1>1, <1>2, <1>3, <1>4, <1>6, <1>7, <1>8, <1>9, <1>10, <1>11, <1>12, HandlerCases

-----------------------------------------------------------------------------
(* The inductive invariant.                                                *)

(* The parts that speak of the tables alone.                               *)
TablesAgree == StoredMatchesInbox /\ InboxMatchesNotifications

(* What a commit does to the tables: either the transaction holds the      *)
(* event, and the inbox, all its notifications and the counter change      *)
(* together, or the event is stored already and nothing changes.           *)
LEMMA ApplyStep ==
    ASSUME HandlerInv, NEW w \in Workers, at[w] = "create", done[w] = Channels, Apply(w)
    PROVE  /\ event[w] \in Events
           /\ inbox' = inbox \cup {event[w]}
           /\ notes' = notes \cup ({event[w]} \X Channels)
           /\ stored' = [stored EXCEPT ![event[w]] = 1]
           /\ TablesAgree'
<1> USE DEF HandlerInv, HandlerTypeOK
<1>1. event[w] \in Events
  BY DEF HeldInCreate
<1>2. CASE newInbox[w]
  <2>1. newNotes[w] = Channels /\ event[w] \notin inbox
    BY <1>2 DEF PastClaim
  <2>2. newNotes[w] # {} /\ stored[event[w]] = 0
    BY <1>1, <2>1, ChannelsAssumption DEF StoredMatchesInbox
  <2>3. /\ inbox' = inbox \cup {event[w]}
        /\ notes' = notes \cup ({event[w]} \X Channels)
    BY <1>2, <2>1 DEF Apply
  <2>4. stored' = [stored EXCEPT ![event[w]] = 1]
    BY <2>2 DEF Apply
  <2>5. StoredMatchesInbox'
    BY <1>1, <2>3, <2>4 DEF StoredMatchesInbox
  <2>6. InboxMatchesNotifications'
    BY <1>1, <2>3 DEF InboxMatchesNotifications
  <2>7. QED
    BY <1>1, <2>3, <2>4, <2>5, <2>6 DEF TablesAgree
<1>3. CASE ~newInbox[w]
  <2>1. newNotes[w] = {} /\ event[w] \in inbox
    BY <1>3 DEF PastClaim
  <2>2. inbox' = inbox /\ notes' = notes /\ stored' = stored
    BY <1>3, <2>1 DEF Apply
  <2>3. {event[w]} \X Channels \subseteq notes /\ stored[event[w]] = 1
    BY <1>1, <2>1 DEF InboxMatchesNotifications, StoredMatchesInbox
  <2>4. StoredMatchesInbox' /\ InboxMatchesNotifications'
    BY <2>2 DEF StoredMatchesInbox, InboxMatchesNotifications
  <2>5. QED
    BY <1>1, <2>1, <2>2, <2>3, <2>4 DEF TablesAgree
<1>4. QED
  BY <1>2, <1>3

(* A transaction of w that commits: the other calls keep their parts of    *)
(* the invariant, because no other transaction holds the event of w.       *)
LEMMA CommitStep ==
    ASSUME HandlerInv, NEW w \in Workers, Commit(w) \/ CommitUnacknowledged(w)
    PROVE  HandlerInv'
<1> USE DEF HandlerInv
<1>1. /\ at[w] = "create" /\ done[w] = Channels /\ Apply(w)
      /\ EndCall(w, "ok") \/ EndCall(w, "failed")
      /\ event' = event /\ orphans' = orphans
  BY DEF Commit, CommitUnacknowledged
<1>2. /\ event[w] \in Events
      /\ inbox' = inbox \cup {event[w]}
      /\ notes' = notes \cup ({event[w]} \X Channels)
      /\ TablesAgree'
  BY <1>1, ApplyStep
<1>3. HandlerTypeOK'
  BY HandlerTypeStep DEF HandlerNext, CallProgress, CallFault
<1>4. HeldInCreate'
  BY <1>1 DEF HandlerTypeOK, HeldInCreate, EndCall
<1>5. ASSUME NEW v \in Workers \ {w}, newInbox[v] PROVE event[v] # event[w]
  BY <1>1, <1>5 DEF HandlerTypeOK, HolderAlone, PastClaim
<1>6. HolderAlone'
  BY <1>1, <1>2, <1>5 DEF HandlerTypeOK, HolderAlone, EndCall
<1>7. PastClaim'
  BY <1>1, <1>2, <1>5 DEF HandlerTypeOK, PastClaim, EndCall
<1>8. SuccessMeansStored'
  BY <1>1, <1>2 DEF HandlerTypeOK, SuccessMeansStored, EndCall
<1>9. QED
  BY <1>2, <1>3, <1>4, <1>6, <1>7, <1>8 DEF TablesAgree

(* The end of a transaction of w that is rolled back, now or later.        *)
LEMMA RollbackStep ==
    ASSUME HandlerInv, NEW w \in Workers, Fail(w) \/ Die(w)
    PROVE  HandlerInv'
<1> USE DEF HandlerInv
<1>1. /\ EndCall(w, "failed") \/ EndCall(w, "idle")
      /\ event' \in {event, [event EXCEPT ![w] = NoEvent]}
      /\ inbox' = inbox /\ notes' = notes /\ stored' = stored
      /\ orphans' = orphans \/ (newInbox[w] /\ orphans' = orphans \cup {event[w]})
  BY DEF Fail, Die, tables
<1>2. HandlerTypeOK'
  BY HandlerTypeStep DEF HandlerNext, CallProgress, CallFault
<1>3. HeldInCreate'
  BY <1>1 DEF HandlerTypeOK, HeldInCreate, EndCall
<1>4. HolderAlone'
  BY <1>1 DEF HandlerTypeOK, HolderAlone, EndCall
<1>5. PastClaim'
  BY <1>1 DEF HandlerTypeOK, PastClaim, EndCall
<1>6. SuccessMeansStored'
  BY <1>1 DEF HandlerTypeOK, SuccessMeansStored, EndCall
<1>7. StoredMatchesInbox' /\ InboxMatchesNotifications'
  BY <1>1 DEF StoredMatchesInbox, InboxMatchesNotifications
<1>8. QED
  BY <1>2, <1>3, <1>4, <1>5, <1>6, <1>7

(* The claim: nobody else holds the event, so w becomes its only holder,   *)
(* or finds it stored.                                                     *)
LEMMA ClaimStep ==
    ASSUME HandlerInv, NEW w \in Workers, Claim(w)
    PROVE  HandlerInv'
<1> USE DEF HandlerInv
<1>1. /\ inbox' = inbox /\ notes' = notes /\ stored' = stored
      /\ event' = event /\ orphans' = orphans /\ newNotes' = newNotes /\ done' = done
      /\ at[w] = "claim" /\ at' = [at EXCEPT ![w] = "create"]
      /\ newInbox' = [newInbox EXCEPT ![w] = event[w] \notin inbox]
      /\ event[w] \notin orphans
      /\ \A v \in Workers \ {w} : ~(event[v] = event[w] /\ newInbox[v])
  BY DEF Claim, InboxHeld, tables
<1>2. HandlerTypeOK'
  BY HandlerTypeStep DEF HandlerNext, CallProgress
<1>3. newNotes[w] = {} /\ done[w] = {}
  BY <1>1 DEF HeldInCreate
<1>4. HeldInCreate'
  BY <1>1 DEF HandlerTypeOK, HeldInCreate
<1>5. HolderAlone'
  BY <1>1 DEF HandlerTypeOK, HolderAlone
<1>6. PastClaim'
  BY <1>1, <1>3 DEF HandlerTypeOK, PastClaim
<1>7. SuccessMeansStored'
  BY <1>1 DEF HandlerTypeOK, SuccessMeansStored
<1>8. StoredMatchesInbox' /\ InboxMatchesNotifications'
  BY <1>1 DEF StoredMatchesInbox, InboxMatchesNotifications
<1>9. QED
  BY <1>2, <1>4, <1>5, <1>6, <1>7, <1>8

(* One INSERT of the batch: its row is new exactly when w holds the event. *)
LEMMA CreateStep ==
    ASSUME HandlerInv, NEW w \in Workers, NEW c \in Channels, CreateForChannel(w, c)
    PROVE  HandlerInv'
<1> USE DEF HandlerInv
<1>1. /\ inbox' = inbox /\ notes' = notes /\ stored' = stored
      /\ event' = event /\ orphans' = orphans /\ newInbox' = newInbox /\ at' = at
      /\ at[w] = "create"
      /\ done' = [done EXCEPT ![w] = @ \cup {c}]
      /\ newNotes' = [newNotes EXCEPT ![w] = IF <<event[w], c>> \in notes THEN @ ELSE @ \cup {c}]
  BY DEF CreateForChannel, tables
<1>2. HandlerTypeOK'
  BY HandlerTypeStep DEF HandlerNext, CallProgress
<1>3. <<event[w], c>> \in notes <=> ~newInbox[w]
  BY <1>1 DEF HeldInCreate, PastClaim, InboxMatchesNotifications
<1>4. HeldInCreate' /\ HolderAlone'
  BY <1>1 DEF HandlerTypeOK, HeldInCreate, HolderAlone
<1>5. PastClaim'
  BY <1>1, <1>3 DEF HandlerTypeOK, PastClaim
<1>6. SuccessMeansStored'
  BY <1>1 DEF SuccessMeansStored
<1>7. StoredMatchesInbox' /\ InboxMatchesNotifications'
  BY <1>1 DEF StoredMatchesInbox, InboxMatchesNotifications
<1>8. QED
  BY <1>2, <1>4, <1>5, <1>6, <1>7

LEMMA HandlerInvStep == HandlerInv /\ [HandlerNext]_hvars => HandlerInv'
<1> SUFFICES ASSUME HandlerInv, [HandlerNext]_hvars PROVE HandlerInv'
  OBVIOUS
<1> USE DEF HandlerInv, tables, calls
<1>1. HandlerTypeOK'
  BY HandlerTypeStep
(* Steps that touch neither the tables nor the rows a transaction holds.   *)
<1>2. ASSUME tables' = tables, newInbox' = newInbox, newNotes' = newNotes, done' = done,
             orphans' \subseteq orphans,
             NEW w \in Workers, NEW s \in Stages, NEW e \in Events \cup {NoEvent},
             at' = [at EXCEPT ![w] = s], event' = [event EXCEPT ![w] = e],
             at[w] # "create", s # "create",
             s \in {"begin", "claim"} => e \in Events,
             s = "ok" => e = NoEvent
      PROVE  HandlerInv'
  <2>1. ~newInbox[w] /\ newNotes[w] = {} /\ done[w] = {}
    BY <1>2 DEF HeldInCreate
  <2>2. HeldInCreate'
    BY <1>2, <2>1 DEF HandlerTypeOK, HeldInCreate
  <2>3. HolderAlone'
    BY <1>2, <2>1 DEF HandlerTypeOK, HolderAlone
  <2>4. PastClaim' /\ SuccessMeansStored'
    BY <1>2, <2>1 DEF HandlerTypeOK, PastClaim, SuccessMeansStored
  <2>5. StoredMatchesInbox' /\ InboxMatchesNotifications'
    BY <1>2 DEF StoredMatchesInbox, InboxMatchesNotifications
  <2>6. QED
    BY <1>1, <2>2, <2>3, <2>4, <2>5
<1>3. ASSUME NEW w \in Workers, NEW msg \in Messages, Handle(w, msg) PROVE HandlerInv'
  <2>1. at'[w] \in {"begin", "failed", "ok"} /\ msg.event \in Events
    BY <1>3 DEF Handle, Messages, HandlerTypeOK
  <2>2. QED
    BY <1>2, <1>3, <2>1 DEF Handle, HandlerTypeOK, Stages
<1>4. ASSUME NEW w \in Workers, Begin(w) PROVE HandlerInv'
  <2>1. event[w] \in Events /\ event' = [event EXCEPT ![w] = event[w]]
    BY <1>4 DEF Begin, HandlerTypeOK, HeldInCreate
  <2>2. QED
    BY <1>2, <1>4, <2>1 DEF Begin, HandlerTypeOK, Stages
<1>5. ASSUME NEW w \in Workers, Return(w) PROVE HandlerInv'
  BY <1>2, <1>5 DEF Return, HandlerTypeOK, Stages
<1>6. ASSUME NEW w \in Workers, Claim(w) PROVE HandlerInv'
  BY <1>6, ClaimStep
<1>7. ASSUME NEW w \in Workers, NEW c \in Channels, CreateForChannel(w, c) PROVE HandlerInv'
  BY <1>7, CreateStep
<1>8. ASSUME NEW w \in Workers, Commit(w) \/ CommitUnacknowledged(w) PROVE HandlerInv'
  BY <1>8, CommitStep
<1>9. ASSUME NEW w \in Workers, Fail(w) \/ Die(w) PROVE HandlerInv'
  BY <1>9, RollbackStep
<1>10. CASE \/ UNCHANGED hvars
            \/ \E e \in Events : ServerRollback(e)
  <2>1. /\ tables' = tables /\ calls' = calls /\ orphans' \subseteq orphans
    BY <1>10 DEF hvars, ServerRollback
  <2>2. HeldInCreate' /\ PastClaim' /\ SuccessMeansStored' /\ HolderAlone'
    BY <2>1 DEF HeldInCreate, PastClaim, SuccessMeansStored, HolderAlone
  <2>3. StoredMatchesInbox' /\ InboxMatchesNotifications'
    BY <2>1 DEF StoredMatchesInbox, InboxMatchesNotifications
  <2>4. QED
    BY <1>1, <2>2, <2>3
<1>11. QED
  BY <1>3, <1>4, <1>5, <1>6, <1>7, <1>8, <1>9, <1>10, HandlerCases

(* HandlerInv holds in every reachable state.                              *)
THEOREM HandlerInvariance == HandlerSafetySpec => []HandlerInv
  BY HandlerInvInit, HandlerInvStep, PTL DEF HandlerSafetySpec

-----------------------------------------------------------------------------
(* The properties.                                                         *)

(* Whatever fails, dies or is handled twice, an event is in the inbox if   *)
(* and only if every channel has its notification.                         *)
THEOREM InboxAgreement == HandlerSafetySpec => []InboxMatchesNotifications
<1>1. HandlerInv => InboxMatchesNotifications
  BY DEF HandlerInv
<1>2. QED
  BY <1>1, HandlerInvariance, PTL

(* Idempotence: one transaction at most stores the notifications of an     *)
(* event, for any number of instances and redeliveries.                    *)
THEOREM Idempotence == HandlerSafetySpec => []NotifiedOnce
<1>1. HandlerInv => NotifiedOnce
  BY DEF HandlerInv, StoredMatchesInbox, NotifiedOnce
<1>2. QED
  BY <1>1, HandlerInvariance, PTL

(* A success the handler reports for an event is durable.                  *)
THEOREM DurableSuccess == HandlerSafetySpec => []SuccessMeansStored
<1>1. HandlerInv => SuccessMeansStored
  BY DEF HandlerInv
<1>2. QED
  BY <1>1, HandlerInvariance, PTL

(* The claim serialises the handlers of an event: past it no INSERT waits  *)
(* for another transaction.                                                *)
LEMMA NeverHeld == HandlerInv => HolderNeverWaits
<1> SUFFICES ASSUME HandlerInv,
                    NEW w \in Workers, NEW c \in Channels, at[w] = "create",
                    NEW v \in Workers \ {w}, event[v] = event[w], c \in newNotes[v]
             PROVE  FALSE
  BY DEF HolderNeverWaits, NoteHeld
<1> USE DEF HandlerInv
<1>1. at[v] = "create"
  BY DEF HeldInCreate
<1>2. newInbox[v]
  BY <1>1 DEF PastClaim
<1>3. event[w] \notin inbox /\ ~newInbox[w]
  BY <1>2 DEF HolderAlone
<1>4. QED
  BY <1>3 DEF PastClaim

THEOREM NoWaitPastClaim == HandlerSafetySpec => []HolderNeverWaits
  BY NeverHeld, HandlerInvariance, PTL

(* No session that is waited for waits, so the transactions of the handler *)
(* never deadlock.                                                         *)
THEOREM NoDeadlock == HandlerSafetySpec => []NoWaitChains
<1>1. ASSUME HandlerInv, NEW u \in Workers, NEW v \in Workers, NEW w \in Workers,
             WaitsFor(u, v), WaitsFor(v, w)
      PROVE  FALSE
  <2> USE DEF HandlerInv
  <2>1. at[v] = "create"
    BY <1>1 DEF WaitsFor, HeldInCreate
  <2>2. PICK c \in Channels : c \in newNotes[w] /\ w # v /\ event[w] = event[v]
    BY <1>1, <2>1 DEF WaitsFor
  <2>3. ~NoteHeld(v, event[v], c)
    BY <1>1, <2>1, NeverHeld DEF HolderNeverWaits
  <2>4. QED
    BY <2>2, <2>3 DEF NoteHeld
<1>2. HandlerInv => NoWaitChains
  BY <1>1 DEF NoWaitChains
<1>3. QED
  BY <1>2, HandlerInvariance, PTL

-----------------------------------------------------------------------------
(* The refinement.  Only the ends of a call show: what it does in between  *)
(* is its own business.                                                    *)

LEMMA AtomicStepRefined ==
    ASSUME HandlerInv, [HandlerNext]_hvars
    PROVE  [Atomic!AtomicNext]_(Atomic!avars)
<1> DEFINE call == [w \in Workers |-> IF at[w] \in {"begin", "claim", "create"}
                                      THEN "running" ELSE at[w]]
<1>0. at \in [Workers -> Stages] /\ event \in [Workers -> Events \cup {NoEvent}]
  BY DEF HandlerInv, HandlerTypeOK
<1>1. ASSUME NEW w \in Workers, NEW msg \in Messages, Handle(w, msg)
      PROVE  Atomic!AtomicNext
  <2>1. at[w] = "idle" /\ notes' = notes
    BY <1>1 DEF Handle, tables
  <2>2. CASE msg.kind = "created"
    <3>1. PICK e \in Events : e = msg.event
      BY DEF Messages
    <3>2. at' = [at EXCEPT ![w] = "begin"] /\ event' = [event EXCEPT ![w] = e]
      BY <1>1, <2>2, <3>1 DEF Handle
    <3>3. call' = [call EXCEPT ![w] = "running"]
      BY <1>0, <3>2
    <3>4. Atomic!Receive(w, e)
      BY <2>1, <3>2, <3>3 DEF Atomic!Receive
    <3>5. QED
      BY <3>4 DEF Atomic!AtomicNext
  <2>3. CASE msg.kind # "created"
    <3>1. PICK result \in {"ok", "failed"} :
              /\ at' = [at EXCEPT ![w] = result]
              /\ event' = [event EXCEPT ![w] = NoEvent]
      BY <1>1, <2>3 DEF Handle
    <3>2. call' = [call EXCEPT ![w] = result]
      BY <1>0, <3>1
    <3>3. Atomic!Dismiss(w, result)
      BY <2>1, <3>1, <3>2 DEF Atomic!Dismiss
    <3>4. QED
      BY <3>3 DEF Atomic!AtomicNext
  <2>4. QED
    BY <2>2, <2>3
<1>2. ASSUME NEW w \in Workers, Commit(w) \/ CommitUnacknowledged(w)
      PROVE  Atomic!AtomicNext
  <2>1. at[w] = "create" /\ done[w] = Channels /\ Apply(w) /\ event' = event
    BY <1>2 DEF Commit, CommitUnacknowledged
  <2>2. notes' = notes \cup ({event[w]} \X Channels)
    BY <2>1, ApplyStep
  <2>3. call[w] = "running"
    BY <2>1
  <2>4. CASE Commit(w)
    <3>1. at' = [at EXCEPT ![w] = "ok"]
      BY <2>4 DEF Commit, EndCall
    <3>2. call' = [call EXCEPT ![w] = "ok"]
      BY <1>0, <3>1
    <3>3. Atomic!Succeed(w)
      BY <2>1, <2>2, <2>3, <3>2 DEF Atomic!Succeed, Atomic!Store
    <3>4. QED
      BY <3>3 DEF Atomic!AtomicNext
  <2>5. CASE CommitUnacknowledged(w)
    <3>1. at' = [at EXCEPT ![w] = "failed"]
      BY <2>5 DEF CommitUnacknowledged, EndCall
    <3>2. call' = [call EXCEPT ![w] = "failed"]
      BY <1>0, <3>1
    <3>3. Atomic!GiveUp(w)
      BY <2>1, <2>2, <2>3, <3>2 DEF Atomic!GiveUp, Atomic!Store
    <3>4. QED
      BY <3>3 DEF Atomic!AtomicNext
  <2>6. QED
    BY <1>2, <2>4, <2>5
<1>3. ASSUME NEW w \in Workers, Fail(w) PROVE Atomic!AtomicNext
  <2>1. /\ at[w] \in {"begin", "claim", "create"} /\ at' = [at EXCEPT ![w] = "failed"]
        /\ notes' = notes /\ event' = event
    BY <1>3 DEF Fail, EndCall, tables
  <2>2. call[w] = "running" /\ call' = [call EXCEPT ![w] = "failed"]
    BY <1>0, <2>1
  <2>3. Atomic!GiveUp(w)
    BY <2>1, <2>2 DEF Atomic!GiveUp
  <2>4. QED
    BY <2>3 DEF Atomic!AtomicNext
<1>4. ASSUME NEW w \in Workers, Return(w) \/ Die(w) PROVE Atomic!AtomicNext
  <2>1. /\ at[w] # "idle" /\ at' = [at EXCEPT ![w] = "idle"]
        /\ event' = [event EXCEPT ![w] = NoEvent] /\ notes' = notes
    BY <1>4 DEF Return, Die, EndCall, tables
  <2>2. call[w] # "idle" /\ call' = [call EXCEPT ![w] = "idle"]
    BY <1>0, <2>1
  <2>3. Atomic!Leave(w)
    BY <2>1, <2>2 DEF Atomic!Leave
  <2>4. QED
    BY <2>3 DEF Atomic!AtomicNext
<1>5. ASSUME NEW w \in Workers,
             Begin(w) \/ Claim(w) \/ \E c \in Channels : CreateForChannel(w, c)
      PROVE  UNCHANGED Atomic!avars
  <2>1. notes' = notes /\ event' = event
    BY <1>5 DEF Begin, Claim, CreateForChannel, tables
  <2>2. /\ at[w] \in {"begin", "claim", "create"}
        /\ \/ at' = at
           \/ \E s \in {"claim", "create"} : at' = [at EXCEPT ![w] = s]
    BY <1>5 DEF Begin, Claim, CreateForChannel
  <2>3. call' = call
    BY <1>0, <2>2
  <2>4. QED
    BY <2>1, <2>3 DEF Atomic!avars
<1>6. CASE UNCHANGED hvars \/ \E e \in Events : ServerRollback(e)
  <2>1. notes' = notes /\ event' = event /\ at' = at
    BY <1>6 DEF ServerRollback, hvars, tables, calls
  <2>2. QED
    BY <2>1 DEF Atomic!avars
<1>7. QED
  BY <1>1, <1>2, <1>3, <1>4, <1>5, <1>6, HandlerCases

(* With any number of instances, redeliveries and faults, the calls of the *)
(* handler are atomic: all the notifications of an event at one step, and  *)
(* a result that never says more than the database.                        *)
THEOREM AtomicCalls == HandlerSafetySpec => HandledAtomically
<1>1. HandlerInit => Atomic!AtomicInit
  <2> SUFFICES ASSUME HandlerInit PROVE Atomic!AtomicInit
    OBVIOUS
  <2>1. \A w \in Workers : at[w] = "idle"
    BY DEF HandlerInit
  <2>2. QED
    BY <2>1 DEF HandlerInit, Atomic!AtomicInit
<1>2. HandlerInv /\ [HandlerNext]_hvars => [Atomic!AtomicNext]_(Atomic!avars)
  BY AtomicStepRefined
<1>3. QED
  BY <1>1, <1>2, HandlerInvariance, PTL DEF HandlerSafetySpec, HandledAtomically,
     Atomic!AtomicSpec
=============================================================================
