------------------------- MODULE NotificationHandler -------------------------
(***************************************************************************)
(* What the notification service does with one message: the Router, the    *)
(* handler of the order topic and CreateNotification, which claims the     *)
(* event in inbox_events and inserts one row per channel in notifications  *)
(* within one transaction of TxManager.                                    *)
(*                                                                         *)
(* Workers are the instances of the service; several may handle the same   *)
(* event at once, because the topic redelivers and an evicted instance     *)
(* goes on with its batch.  The statements of a transaction are separate   *)
(* steps.  Postgres (external) runs at READ COMMITTED: an INSERT ... ON    *)
(* CONFLICT DO NOTHING inserts nothing when the key is committed, and      *)
(* waits while another open transaction holds an uncommitted row with it.  *)
(***************************************************************************)
EXTENDS Naturals, FiniteSets

CONSTANTS
    Workers,    \* instances of the service
    Events,     \* event identifiers, in canonical form
    Channels,   \* input.Channels of CreateNotification
    NoEvent     \* event of a worker that has no transaction

ASSUME NoEventAssumption  == NoEvent \notin Events
ASSUME ChannelsAssumption == Channels # {}

(* What the headers and the body of a message amount to: an order.created  *)
(* event, one whose body or identifiers do not parse, a type the handler   *)
(* does not know, a topic without a handler.                               *)
Kinds == {"created", "invalid", "unknown", "foreign"}
Messages == [kind : Kinds, event : Events]

VARIABLES
    inbox,      \* committed rows of inbox_events, by event_id
    notes,      \* committed rows of notifications, as <<event_id, channel>>
    at,         \* at[w]: where the handler call of w stands
    event,      \* event[w]: the event of that call
    newInbox,   \* newInbox[w]: its transaction has inserted the inbox row
    newNotes,   \* newNotes[w]: channels it has inserted a notification for
    done,       \* done[w]: channels whose INSERT has been executed
    orphans,    \* inbox rows held by sessions whose client is gone
    stored      \* stored[e]: transactions that stored a notification of e

tables == <<inbox, notes, stored>>
calls  == <<at, event, newInbox, newNotes, done>>
hvars  == <<tables, calls, orphans>>

Stages == {"idle", "begin", "claim", "create", "ok", "failed"}

HandlerTypeOK ==
    /\ inbox    \in SUBSET Events
    /\ notes    \in SUBSET (Events \X Channels)
    /\ at       \in [Workers -> Stages]
    /\ event    \in [Workers -> Events \cup {NoEvent}]
    /\ newInbox \in [Workers -> BOOLEAN]
    /\ newNotes \in [Workers -> SUBSET Channels]
    /\ done     \in [Workers -> SUBSET Channels]
    /\ orphans  \in SUBSET Events
    /\ stored   \in [Events -> Nat]

HandlerInit ==
    /\ inbox    = {}
    /\ notes    = {}
    /\ at       = [w \in Workers |-> "idle"]
    /\ event    = [w \in Workers |-> NoEvent]
    /\ newInbox = [w \in Workers |-> FALSE]
    /\ newNotes = [w \in Workers |-> {}]
    /\ done     = [w \in Workers |-> {}]
    /\ orphans  = {}
    /\ stored   = [e \in Events |-> 0]

-----------------------------------------------------------------------------
(* The call comes to an end at stage s: its transaction, if any, is over.  *)
EndCall(w, s) ==
    /\ at'       = [at EXCEPT ![w] = s]
    /\ newInbox' = [newInbox EXCEPT ![w] = FALSE]
    /\ newNotes' = [newNotes EXCEPT ![w] = {}]
    /\ done'     = [done EXCEPT ![w] = {}]

(* Router.Handle and Handler.route.  A topic without a handler and an      *)
(* unknown type are skipped with success; a message that does not parse    *)
(* fails, each time it is delivered.                                       *)
Handle(w, msg) ==
    /\ at[w] = "idle"
    /\ at' = [at EXCEPT ![w] = IF msg.kind = "created" THEN "begin"
                               ELSE IF msg.kind = "invalid" THEN "failed" ELSE "ok"]
    /\ event' = [event EXCEPT ![w] = IF msg.kind = "created" THEN msg.event ELSE NoEvent]
    /\ UNCHANGED <<tables, newInbox, newNotes, done, orphans>>

(* WithinTx: Begin.                                                        *)
Begin(w) ==
    /\ at[w] = "begin"
    /\ at' = [at EXCEPT ![w] = "claim"]
    /\ UNCHANGED <<tables, event, newInbox, newNotes, done, orphans>>

(* Another session holds an uncommitted inbox row of e.                    *)
InboxHeld(w, e) ==
    e \in orphans \/ \E v \in Workers \ {w} : event[v] = e /\ newInbox[v]

(* InboxRepo.Claim.  A conflict is not an error: the call goes on as if it *)
(* had claimed the event.                                                  *)
Claim(w) ==
    /\ at[w] = "claim"
    /\ ~InboxHeld(w, event[w])
    /\ newInbox' = [newInbox EXCEPT ![w] = event[w] \notin inbox]
    /\ at' = [at EXCEPT ![w] = "create"]
    /\ UNCHANGED <<tables, event, newNotes, done, orphans>>

(* Another session holds an uncommitted notification of e for channel c.   *)
NoteHeld(w, e, c) == \E v \in Workers \ {w} : event[v] = e /\ c \in newNotes[v]

(* Mutant: ON CONFLICT DO UPDATE, which writes the row again.              *)
CreateForChannel_Upsert(w, c) ==
    /\ at[w] = "create" /\ c \in Channels \ done[w]
    /\ ~NoteHeld(w, event[w], c)
    /\ newNotes' = [newNotes EXCEPT ![w] = @ \cup {c}]
    /\ done' = [done EXCEPT ![w] = @ \cup {c}]
    /\ UNCHANGED <<tables, at, event, newInbox, orphans>>

(* Mutant: a channel that conflicts yields no result the batch can read.   *)
CreateForChannel_NoResult(w, c) ==
    /\ at[w] = "create" /\ c \in Channels \ done[w]
    /\ ~NoteHeld(w, event[w], c) /\ <<event[w], c>> \notin notes
    /\ newNotes' = [newNotes EXCEPT ![w] = @ \cup {c}]
    /\ done' = [done EXCEPT ![w] = @ \cup {c}]
    /\ UNCHANGED <<tables, at, event, newInbox, orphans>>

(* CreateForChannels: the INSERT of one channel of the batch.              *)
CreateForChannel(w, c) ==
    /\ at[w] = "create" /\ c \in Channels \ done[w]
    /\ ~NoteHeld(w, event[w], c)
    /\ newNotes' = [newNotes EXCEPT ![w] = IF <<event[w], c>> \in notes THEN @ ELSE @ \cup {c}]
    /\ done' = [done EXCEPT ![w] = @ \cup {c}]
    /\ UNCHANGED <<tables, at, event, newInbox, orphans>>

(* The rows of the transaction of w become visible together.               *)
Apply(w) ==
    /\ inbox'  = IF newInbox[w] THEN inbox \cup {event[w]} ELSE inbox
    /\ notes'  = notes \cup ({event[w]} \X newNotes[w])
    /\ stored' = IF newNotes[w] = {} THEN stored ELSE [stored EXCEPT ![event[w]] = @ + 1]

(* Mutant: the commit is sent before the batch is read to its end.         *)
Commit_Early(w) ==
    /\ at[w] = "create"
    /\ Apply(w) /\ EndCall(w, "ok")
    /\ UNCHANGED <<event, orphans>>

(* WithinTx: Commit, once fn has returned without an error.                *)
Commit(w) ==
    /\ at[w] = "create" /\ done[w] = Channels
    /\ Apply(w) /\ EndCall(w, "ok")
    /\ UNCHANGED <<event, orphans>>

(* The commit takes effect and its acknowledgement is lost: WithinTx       *)
(* returns the error and the message is handled again later.               *)
CommitUnacknowledged(w) ==
    /\ at[w] = "create" /\ done[w] = Channels
    /\ Apply(w) /\ EndCall(w, "failed")
    /\ UNCHANGED <<event, orphans>>

(* Mutant: the error of the commit is dropped.                             *)
Fail_Ignored(w) ==
    /\ at[w] \in {"begin", "claim", "create"}
    /\ EndCall(w, IF at[w] = "create" /\ done[w] = Channels THEN "ok" ELSE "failed")
    /\ UNCHANGED <<tables, event, orphans>>

(* Mutant: a failed statement rolls nothing back, as without a transaction.*)
Fail_NoRollback(w) ==
    /\ at[w] \in {"begin", "claim", "create"}
    /\ Apply(w) /\ EndCall(w, "failed")
    /\ UNCHANGED <<event, orphans>>

(* Begin, a statement or the commit fails, and WithinTx rolls back: a      *)
(* lost connection, a cancelled context, a full pool.  The rollback may    *)
(* not reach the server, whose session then lives on for a while.          *)
Fail(w) ==
    /\ at[w] \in {"begin", "claim", "create"}
    /\ EndCall(w, "failed")
    /\ \/ UNCHANGED orphans
       \/ newInbox[w] /\ orphans' = orphans \cup {event[w]}
    /\ UNCHANGED <<tables, event>>

(* The handler returns to the consumer.                                    *)
Return(w) ==
    /\ at[w] \in {"ok", "failed"}
    /\ at' = [at EXCEPT ![w] = "idle"]
    /\ event' = [event EXCEPT ![w] = NoEvent]
    /\ UNCHANGED <<tables, newInbox, newNotes, done, orphans>>

(* The process dies during the call; the server still holds its session.   *)
Die(w) ==
    /\ at[w] # "idle"
    /\ EndCall(w, "idle")
    /\ event' = [event EXCEPT ![w] = NoEvent]
    /\ orphans' = IF newInbox[w] THEN orphans \cup {event[w]} ELSE orphans
    /\ UNCHANGED tables

(* Postgres notices that the client of a session is gone and rolls back.   *)
ServerRollback(e) ==
    /\ e \in orphans
    /\ orphans' = orphans \ {e}
    /\ UNCHANGED <<tables, calls>>

(* The steps of a call that has begun: those that go well, and faults.     *)
CallProgress(w) ==
    \/ Begin(w)
    \/ Claim(w)
    \/ \E c \in Channels : CreateForChannel(w, c)
    \/ Commit(w)

CallFault(w) == CommitUnacknowledged(w) \/ Fail(w)

HandlerNext ==
    \/ \E w \in Workers :
          \/ \E msg \in Messages : Handle(w, msg)
          \/ CallProgress(w)
          \/ CallFault(w)
          \/ Return(w)
          \/ Die(w)
    \/ \E e \in Events : ServerRollback(e)

(* A call runs on, nothing is assumed to fail.  Postgres queues the        *)
(* sessions that wait for a key, so a claim that can recurrently proceed   *)
(* does (strong fairness); a session without a client does not last.       *)
HandlerFairness ==
    /\ \A w \in Workers :
          /\ WF_hvars(Begin(w))
          /\ SF_hvars(Claim(w))
          /\ WF_hvars(\E c \in Channels : CreateForChannel(w, c))
          /\ WF_hvars(Commit(w))
          /\ WF_hvars(Return(w))
    /\ \A e \in Events : WF_hvars(ServerRollback(e))

HandlerSafetySpec == HandlerInit /\ [][HandlerNext]_hvars
HandlerSpec == HandlerSafetySpec /\ HandlerFairness

-----------------------------------------------------------------------------
(* Inbox and notifications agree in every committed state: an event is in  *)
(* the inbox exactly when it has its notification on every channel, even   *)
(* when a statement fails, a commit goes unacknowledged or a process dies  *)
(* between the two INSERTs.                                                *)
InboxMatchesNotifications ==
    \A e \in Events : \A c \in Channels : e \in inbox <=> <<e, c>> \in notes

(* At most one transaction stores the notifications of an event, however   *)
(* often it is delivered and whoever else is handling it at the time.      *)
NotifiedOnce == \A e \in Events : stored[e] <= 1

(* A handler that reports success for an event has it stored: the offset   *)
(* the consumer commits after it cannot lose the event.                    *)
SuccessMeansStored ==
    \A w \in Workers :
        at[w] = "ok" /\ event[w] # NoEvent =>
            event[w] \in inbox /\ {event[w]} \X Channels \subseteq notes

(* A transaction that holds its inbox row is the only one past the claim   *)
(* that could insert the notifications, so the batch never waits for       *)
(* another session and two handlers cannot deadlock on the two tables.     *)
HolderNeverWaits ==
    \A w \in Workers : \A c \in Channels :
        at[w] = "create" => ~NoteHeld(w, event[w], c)

(* The session of w waits in Postgres for that of v to end: in its claim   *)
(* for an inbox row, in its batch for a notification.  No session that     *)
(* another one waits for waits itself, so none ever wait in a circle,      *)
(* whatever the order in which calls claim and insert.                     *)
WaitsFor(w, v) ==
    /\ v # w /\ event[v] = event[w]
    /\ \/ at[w] = "claim" /\ newInbox[v]
       \/ at[w] = "create" /\ \E c \in Channels \ done[w] : c \in newNotes[v]
NoWaitChains == \A u, v, w \in Workers : ~(WaitsFor(u, v) /\ WaitsFor(v, w))

(* A call of the handler comes to an end although it may have to wait for  *)
(* the claim of another session, or of one whose client has died.          *)
CallsEnd == \A w \in Workers : at[w] # "idle" ~> at[w] = "idle"

-----------------------------------------------------------------------------
(* What the consumer and the readers of the database see of a call: the    *)
(* statements, claims, waits and rollbacks of its transaction in between   *)
(* do not show, however the calls of several instances interleave.         *)
Atomic == INSTANCE AtomicHandling
              WITH call <- [w \in Workers |-> IF at[w] \in {"begin", "claim", "create"}
                                              THEN "running" ELSE at[w]]

HandledAtomically == Atomic!AtomicSpec

-----------------------------------------------------------------------------
(* The inductive invariant.                                                *)

(* Rows are held only between the claim and the end of the call.           *)
HeldInCreate ==
    \A w \in Workers :
        /\ newInbox[w] => at[w] = "create"
        /\ newNotes[w] # {} => at[w] = "create"
        /\ done[w] # {} => at[w] = "create"
        /\ at[w] \in {"begin", "claim", "create"} => event[w] \in Events

(* The holder of an inbox row is alone, and the event is not stored yet.   *)
HolderAlone ==
    \A w \in Workers : newInbox[w] =>
        /\ event[w] \notin inbox
        /\ event[w] \notin orphans
        /\ \A v \in Workers \ {w} : ~(newInbox[v] /\ event[v] = event[w])

(* Past the claim either the event is stored or this transaction holds it, *)
(* and then the channels done are the rows it is going to add.             *)
PastClaim ==
    \A w \in Workers : at[w] = "create" =>
        /\ newInbox[w] <=> event[w] \notin inbox
        /\ newNotes[w] = IF newInbox[w] THEN done[w] ELSE {}

(* The history counter agrees with the inbox.                              *)
StoredMatchesInbox == \A e \in Events : stored[e] = IF e \in inbox THEN 1 ELSE 0

HandlerInv ==
    /\ HandlerTypeOK
    /\ HeldInCreate
    /\ HolderAlone
    /\ PastClaim
    /\ StoredMatchesInbox
    /\ InboxMatchesNotifications
    /\ SuccessMeansStored
=============================================================================
