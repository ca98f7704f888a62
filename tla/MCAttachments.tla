--------------------------- MODULE MCAttachments ---------------------------
(* A small instance of Attachments for TLC. *)
EXTENDS Attachments, TLC

Alike == Permutations(Workers)
=============================================================================
