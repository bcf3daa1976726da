------------------------- MODULE MCDeliveryRuntime -------------------------
(***************************************************************************)
(* Instances of DeliveryRuntime for TLC.                                   *)
(***************************************************************************)
EXTENDS DeliveryRuntime

=============================================================================
