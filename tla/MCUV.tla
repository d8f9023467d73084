-------------------------------- MODULE MCUV --------------------------------
(* Instances of UVWorker for TLC. *)
EXTENDS UVWorker, TLC
=============================================================================
