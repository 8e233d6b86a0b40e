--------------------------- MODULE MCTransferLive ---------------------------
(* Two tasks of one session over one slot, the second of which may retry   *)
(* the first, for the liveness of the queue; its safety, with three tasks  *)
(* of two sessions, is part of MCFiles.                                    *)
EXTENDS TransferManager

CONSTANTS a1, a2, sa, u1, u2

MCTasks        == {a1, a2}
MCSessions     == {sa}
MCCallers      == {u1, u2}
MCSessionOf(t) == sa
=============================================================================
