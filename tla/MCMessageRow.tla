---------------------------- MODULE MCMessageRow ----------------------------
(***************************************************************************)
(* Instances of MessageRow for TLC.                                        *)
(***************************************************************************)
EXTENDS MessageRow

=============================================================================
