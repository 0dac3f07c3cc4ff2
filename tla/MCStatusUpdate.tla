--------------------------- MODULE MCStatusUpdate ---------------------------
(* Small instances of StatusUpdate for TLC. *)
EXTENDS StatusUpdate, TLC
=============================================================================
