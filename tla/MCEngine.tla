----------------------------- MODULE MCEngine -----------------------------
(* Engine for TLC; the configuration gives the bounds. *)
EXTENDS Engine
=============================================================================
