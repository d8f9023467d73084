--------------------------- MODULE MCSharedMutex ---------------------------
(* SharedMutex for TLC; the configuration gives the threads and the bounds. *)
EXTENDS SharedMutex
=============================================================================
