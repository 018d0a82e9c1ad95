---------------------------- MODULE AtomicHandling ----------------------------
(***************************************************************************)
(* What a call of the notification handler promises, as if it were one     *)
(* step: the notifications of an event appear on all the channels at once, *)
(* when the call succeeds; a call that fails has stored all of them (its   *)
(* commit was not acknowledged) or none; one that dies adds nothing.       *)
(***************************************************************************)
CONSTANTS Workers, Events, Channels, NoEvent

VARIABLES
    notes,    \* rows of notifications, as <<event, channel>>
    call,     \* call[w]: "idle", "running", "ok" or "failed"
    event     \* event[w]: the event of the call of w

avars == <<notes, call, event>>

AtomicInit ==
    /\ notes = {}
    /\ call = [w \in Workers |-> "idle"]
    /\ event = [w \in Workers |-> NoEvent]

Receive(w, e) ==
    /\ call[w] = "idle"
    /\ call' = [call EXCEPT ![w] = "running"]
    /\ event' = [event EXCEPT ![w] = e]
    /\ UNCHANGED notes

(* A message that is skipped, or that does not parse.                      *)
Dismiss(w, result) ==
    /\ call[w] = "idle"
    /\ call' = [call EXCEPT ![w] = result]
    /\ event' = [event EXCEPT ![w] = NoEvent]
    /\ UNCHANGED notes

Store(w) == notes' = notes \cup ({event[w]} \X Channels)

Succeed(w) ==
    /\ call[w] = "running"
    /\ call' = [call EXCEPT ![w] = "ok"]
    /\ Store(w)
    /\ UNCHANGED event

GiveUp(w) ==
    /\ call[w] = "running"
    /\ call' = [call EXCEPT ![w] = "failed"]
    /\ Store(w) \/ UNCHANGED notes
    /\ UNCHANGED event

(* The call returns, or its process dies.                                  *)
Leave(w) ==
    /\ call[w] # "idle"
    /\ call' = [call EXCEPT ![w] = "idle"]
    /\ event' = [event EXCEPT ![w] = NoEvent]
    /\ UNCHANGED notes

AtomicNext ==
    \E w \in Workers :
        \/ \E e \in Events : Receive(w, e)
        \/ \E result \in {"ok", "failed"} : Dismiss(w, result)
        \/ Succeed(w)
        \/ GiveUp(w)
        \/ Leave(w)

AtomicSpec == AtomicInit /\ [][AtomicNext]_avars
=============================================================================
