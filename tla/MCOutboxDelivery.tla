-------------------------- MODULE MCOutboxDelivery --------------------------
(***************************************************************************)
(* Instances of OutboxDelivery for TLC.                                    *)
(***************************************************************************)
EXTENDS OutboxInvariant

=============================================================================
