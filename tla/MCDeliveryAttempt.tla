-------------------------- MODULE MCDeliveryAttempt -------------------------
(***************************************************************************)
(* Instances of DeliveryAttempt for TLC.                                   *)
(***************************************************************************)
EXTENDS DeliveryAttempt

=============================================================================
