--------------------------- MODULE MCNonBlocking ---------------------------
(* Instances of NonBlocking for TLC. *)
EXTENDS NonBlocking
=============================================================================
