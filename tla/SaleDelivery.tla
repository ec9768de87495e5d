----------------------------- MODULE SaleDelivery -----------------------------
(***************************************************************************)
(* What the offline mode promises of a sale: it is posted at most once; it *)
(* is never posted when it was refused for good before, nor refused for    *)
(* good when it is posted; and the device learns that a sale is posted only*)
(* when it is.  What it learned it may doubt again: another tab that got no*)
(* answer writes over it.  How queue, loops, requests and transactions keep*)
(* this is in OfflineSync, which implements this specification.            *)
(***************************************************************************)
EXTENDS Naturals

CONSTANT Sales

VARIABLES
    made,       \* the sales of the device
    refused,    \* those that are refused for good
    posted,     \* sale -> how often it was posted
    known       \* the sales that the device takes for posted

deliveryVars == <<made, refused, posted, known>>

DeliveryInit ==
    /\ made = {}
    /\ refused = {}
    /\ posted = [s \in Sales |-> 0]
    /\ known = {}

Make(s) ==
    /\ s \in Sales \ made
    /\ made' = made \union {s}
    /\ refused' \in {refused, refused \union {s}}
    /\ UNCHANGED <<posted, known>>

Post(s) ==
    /\ s \in made \ refused
    /\ posted[s] = 0
    /\ posted' = [posted EXCEPT ![s] = 1]
    /\ UNCHANGED <<made, refused, known>>

Refuse(s) ==
    /\ s \in made
    /\ posted[s] = 0
    /\ refused' = refused \union {s}
    /\ UNCHANGED <<made, posted, known>>

Learn(s) ==
    /\ s \in made
    /\ posted[s] = 1
    /\ known' = known \union {s}
    /\ UNCHANGED <<made, refused, posted>>

Doubt(s) ==
    /\ known' = known \ {s}
    /\ UNCHANGED <<made, refused, posted>>

DeliveryNext == \E s \in Sales: Make(s) \/ Post(s) \/ Refuse(s) \/ Learn(s) \/ Doubt(s)

DeliverySpec == DeliveryInit /\ [][DeliveryNext]_deliveryVars
=============================================================================
