----------------------------- MODULE MCBlocking -----------------------------
(* Instances of BlockingServer for TLC. *)
EXTENDS BlockingServer

(* The pool's threads differ in name only: of the orders in which the        *)
(* constructor may have filled `threads', one is enough.                     *)
MCInit == BInit /\ threads[1] = CHOOSE w \in Worker : TRUE

MCFairSpec == MCInit /\ [][BNext]_bvars /\ BFairness
=============================================================================
