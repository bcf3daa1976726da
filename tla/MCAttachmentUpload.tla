------------------------- MODULE MCAttachmentUpload -------------------------
(***************************************************************************)
(* Instances of AttachmentUpload for TLC: parts of two lengths whose type  *)
(* some answers give as the generic one, and what an earlier version of    *)
(* the connector may have stored.                                          *)
(***************************************************************************)
EXTENDS AttachmentUpload, TLC

MCTypes == {"pdf", "html", "octet-stream"}

Part == [size: {1, 2}, type: {"pdf", "octet-stream"}]

Anything == [size: {1, 2}, type: MCTypes] \cup {None}

CallSymmetry == Permutations(Calls)

=============================================================================
