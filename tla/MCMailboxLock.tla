--------------------------- MODULE MCMailboxLock ---------------------------
(***************************************************************************)
(* Instances of MailboxLock for TLC.                                       *)
(***************************************************************************)
EXTENDS MailboxLock

=============================================================================
