-------------------------- MODULE AtomicDelivery --------------------------
(***************************************************************************)
(* What a discover run promises its caller: everything the plugin offered, *)
(* once, at the end, or nothing.  Nothing is offered after a delivery.     *)
(***************************************************************************)
EXTENDS Sequences

CONSTANT Item

VARIABLES offered, outcome, delivered

absVars == <<offered, outcome, delivered>>

AbsInit == offered = <<>> /\ outcome = "open" /\ delivered = <<>>

Offer ==
    /\ outcome # "delivered"
    /\ \E i \in Item : offered' = Append(offered, i)
    /\ UNCHANGED <<outcome, delivered>>

Deliver ==
    /\ outcome = "open"
    /\ outcome' = "delivered"
    /\ delivered' = offered
    /\ UNCHANGED offered

Discard ==
    /\ outcome = "open"
    /\ outcome' = "discarded"
    /\ UNCHANGED <<offered, delivered>>

AbsNext == Offer \/ Deliver \/ Discard

AbsSpec == AbsInit /\ [][AbsNext]_absVars
============================================================================
