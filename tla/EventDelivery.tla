---------------------------- MODULE EventDelivery ----------------------------
(***************************************************************************)
(* What the backend promises about the events of committed orders (README, *)
(* "reliable delivery of events"): the notification of an event appears at *)
(* most once, only for an event that was accepted, and it does appear in   *)
(* the end.  The one exception the code leaves open is explicit: an event  *)
(* read in the same poll as a fetch error may be lost.                     *)
(***************************************************************************)
CONSTANT Events

VARIABLES
    accepted,    \* events committed together with their order
    delivered,   \* events whose notifications are stored
    lost         \* events that may never be delivered

dvars == <<accepted, delivered, lost>>

DeliveryInit == accepted = {} /\ delivered = {} /\ lost = {}

Accept(e) ==
    /\ e \notin accepted
    /\ accepted' = accepted \cup {e}
    /\ UNCHANGED <<delivered, lost>>

Deliver(e) ==
    /\ e \in accepted \ delivered
    /\ delivered' = delivered \cup {e}
    /\ UNCHANGED <<accepted, lost>>

(* One failed poll may lose several events.                                *)
Lose(S) ==
    /\ S # {} /\ S \subseteq accepted \ lost
    /\ lost' = lost \cup S
    /\ UNCHANGED <<accepted, delivered>>

DeliveryNext ==
    \/ \E e \in Events : Accept(e) \/ Deliver(e)
    \/ \E S \in SUBSET Events : Lose(S)

Delivery == DeliveryInit /\ [][DeliveryNext]_dvars

(* Every accepted event is delivered unless it has been lost.              *)
EventuallyDelivered == \A e \in Events : e \in accepted ~> e \in delivered \cup lost
=============================================================================
