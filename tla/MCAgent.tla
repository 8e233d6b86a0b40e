------------------------------ MODULE MCAgent ------------------------------
(* One session, two or three prompts, and a Clear that detaches a run.     *)
EXTENDS Agent

CONSTANT s1

MCSess == {s1}
=============================================================================
