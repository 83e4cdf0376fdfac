----------------------------- MODULE OnceFuture -----------------------------
(***************************************************************************)
(* What a ChannelFuture promises (include/cetty/channel/ChannelFuture.h):  *)
(* it is completed once, with one outcome, and every subscription stays    *)
(* until it is taken back before the completion or told, exactly once,     *)
(* after it.  Subscribing takes nothing away from anybody else.            *)
(***************************************************************************)
CONSTANT Subscriptions

Outcomes == {"success", "failure", "cancelled"}

VARIABLES outcome,     \* "pending" or the outcome of the operation
          subscribed,  \* the subscriptions made and not taken back
          delivered    \* the subscriptions that have been told the outcome

vars == <<outcome, subscribed, delivered>>

Init ==
    /\ outcome = "pending"
    /\ subscribed = {}
    /\ delivered = {}

Complete(o) ==
    /\ outcome = "pending"
    /\ outcome' = o
    /\ UNCHANGED <<subscribed, delivered>>

Subscribe(s) ==
    /\ s \notin subscribed \cup delivered
    /\ subscribed' = subscribed \cup {s}
    /\ UNCHANGED <<outcome, delivered>>

(* Subscriptions may be taken back only while nothing has been decided. *)
Unsubscribe(gone) ==
    /\ outcome = "pending"
    /\ subscribed' = subscribed \ gone
    /\ UNCHANGED <<outcome, delivered>>

Deliver(s) ==
    /\ outcome # "pending"
    /\ s \in subscribed \ delivered
    /\ delivered' = delivered \cup {s}
    /\ UNCHANGED <<outcome, subscribed>>

Next ==
    \/ \E o \in Outcomes : Complete(o)
    \/ \E gone \in SUBSET Subscriptions : Unsubscribe(gone)
    \/ \E s \in Subscriptions : Subscribe(s) \/ Deliver(s)

Spec == Init /\ [][Next]_vars
=============================================================================
