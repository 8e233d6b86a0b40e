--------------------------- MODULE MCOutputBatcher ---------------------------
(* Small instances of OutputBatcher: two pumps, two callers of teardown,   *)
(* batches of at most four bytes and a queue of two batches.               *)
EXTENDS OutputBatcher

CONSTANTS p1, p2, t1, t2, c1, c2

MCPumps   == {p1, p2}
MCTimers  == {t1, t2}
MCClosers == {c1, c2}

(* Well-formed UTF-8: runes of one to three bytes, cut by reads of 1..2.   *)
MCStreams == { <<"ascii", "lead3", "cont", "cont", "lead2", "cont", "ascii">> }
=============================================================================
