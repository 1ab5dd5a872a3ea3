------------------------- MODULE MCDeliveryPipeline -------------------------
(* A small instance of DeliveryPipeline.                                   *)
EXTENDS DeliveryPipeline

FourDeliveries == 1..4

\* Emails and pushes take turns, so that a notification of the members may be
\* one of each, one alone, or none.
Emails == {1, 3}
Pushes == [d \in Devices |-> FourDeliveries \ Emails]
=============================================================================
