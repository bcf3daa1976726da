--------------------------- MODULE MCAccountSync ---------------------------
(***************************************************************************)
(* Instances of AccountSync for TLC: INBOX, a folder the allowlist leaves  *)
(* out, and Review, the folder Exchange owns and IMAP may have as well.    *)
(***************************************************************************)
EXTENDS AccountSync

CONSTANTS Inbox, Other, Review

\* The server lists the plain folders before INBOX.
MCPosition == [f \in Folders |-> CASE f = Review -> 1 [] f = Other -> 2 [] OTHER -> 3]

MCPriority == [f \in Folders |-> IF f = Inbox THEN 0 ELSE 4]

=============================================================================
