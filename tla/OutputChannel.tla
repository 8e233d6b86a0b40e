---------------------------- MODULE OutputChannel ----------------------------
(***************************************************************************)
(* What the output batcher of a session promises to its users, without its *)
(* lock, queue, worker and timers: a channel that accepts the bytes the    *)
(* remote side writes until it is closed or dropped, and delivers them in  *)
(* order in pieces of bounded size that end where a character ends.        *)
(* Dropping it lets at most the piece on its way be delivered; no call of  *)
(* its users returns before the last delivery.  Closing it should deliver  *)
(* everything accepted first: the batcher may leave the end out, so the    *)
(* channel may end early (see CloseDelivers in OutputBatcher).             *)
(***************************************************************************)
EXTENDS Integers, Sequences

CONSTANTS Streams,    \* what the remote side may write, as classes of bytes
          Callers,    \* who closes or drops the channel
          MaxRead,    \* the most bytes accepted at once
          MaxPiece    \* the most bytes delivered at once

VARIABLES stream,     \* what the remote side writes
          accepted,   \* how many of its bytes were taken in
          delivered,  \* how many of its bytes have come out
          phase,      \* "open", "closed" or "dropped"
          limit,      \* how far delivery goes once the channel is dropped
          ended,      \* nothing more is delivered
          returned    \* callers whose calls have returned

vars == <<stream, accepted, delivered, phase, limit, ended, returned>>

Init ==
    /\ stream \in Streams
    /\ accepted = 0 /\ delivered = 0 /\ limit = 0
    /\ phase = "open" /\ ended = FALSE /\ returned = {}

Accept(n) ==
    /\ phase = "open" /\ accepted + n <= Len(stream)
    /\ accepted' = accepted + n
    /\ UNCHANGED <<stream, delivered, phase, limit, ended, returned>>

(* A piece may end after byte i: the next one begins a character, or no    *)
(* byte will follow.                                                       *)
Boundary(i) ==
    \/ i = Len(stream) \/ stream[i + 1] # "cont"
    \/ phase # "open" /\ i = accepted

Deliver(n) ==
    /\ ~ended
    /\ delivered + n <= (IF phase = "dropped" THEN limit ELSE accepted)
    /\ Boundary(delivered + n)
    /\ delivered' = delivered + n
    /\ UNCHANGED <<stream, accepted, phase, limit, ended, returned>>

Close ==
    /\ phase = "open" /\ phase' = "closed"
    /\ UNCHANGED <<stream, accepted, delivered, limit, ended, returned>>

(* The piece on its way is still delivered, and nothing is once it ended.  *)
Drop ==
    /\ phase # "dropped" /\ phase' = "dropped"
    /\ \E n \in 0 .. MaxPiece :
         /\ delivered + n <= accepted /\ (ended => n = 0)
         /\ limit' = delivered + n
    /\ UNCHANGED <<stream, accepted, delivered, ended, returned>>

End ==
    /\ ~ended /\ phase # "open"
    /\ phase = "dropped" => delivered = limit
    /\ ended' = TRUE
    /\ UNCHANGED <<stream, accepted, delivered, phase, limit, returned>>

Return(c) ==
    /\ ended /\ c \notin returned
    /\ returned' = returned \cup {c}
    /\ UNCHANGED <<stream, accepted, delivered, phase, limit, ended>>

Next ==
    \/ \E n \in 1 .. MaxRead : Accept(n)
    \/ \E n \in 1 .. MaxPiece : Deliver(n)
    \/ Close \/ Drop \/ End
    \/ \E c \in Callers : Return(c)

Spec == Init /\ [][Next]_vars
==============================================================================
