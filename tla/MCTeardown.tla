------------------------------ MODULE MCTeardown ------------------------------
(* Teardown on one session, with two calls of the renderer.                *)
EXTENDS Teardown
==============================================================================
