----------------------------- MODULE MCSessions -----------------------------
(* One session with everybody who may end it, and shutdown.  What is said  *)
(* of several sessions is proved in SessionsProofs.                        *)
EXTENDS Sessions

CONSTANT s1

MCSess == {s1}

(* The end of the remote side, or a Disconnect, ends the session, and a    *)
(* fault that was recorded before is reported unless it is disposed of.    *)
EndsAreTold == SessionsEnd /\ FaultSurfaces
=============================================================================
