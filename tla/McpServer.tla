------------------------------- MODULE McpServer -------------------------------
(***************************************************************************)
(* The stdio transport of the MCP mode, src/internal/mcpcli/server.go: a   *)
(* goroutine reads the client's lines and hands them over one by one to a  *)
(* loop that answers them; a tools/call blocks that loop, while the reader *)
(* goes on to hear cancellations and the end of the input.  A line is an   *)
(* action of the client at any time, and is named by its number.           *)
(***************************************************************************)
EXTENDS Naturals, Sequences, SequencesExt, FiniteSets

CONSTANT MaxLines      \* lines a client sends (bound)

VARIABLES sent,        \* the lines of the client, with their kinds
          end,         \* how the input ends, or "open"
          heard,       \* how many lines the reader has taken
          reader,      \* where the reader is, with the line it offers
          main,        \* where the loop is, with the line it handles
          inflight,    \* the line of the call that runs, or 0
          cancelled,   \* the context of that call is cancelled
          aborted,     \* serveCtx was cancelled from outside the loop
          cut,         \* the call that ran when the end of the input did so, or 0 (history)
          answers      \* what was written, by line

vars == <<sent, end, heard, reader, main, inflight, cancelled, aborted, cut, answers>>

Lines == 1 .. MaxLines

(* A request is whatever is answered at once, an error included; a note is *)
(* a notification or a blank line.  A cancel names a request by its id.    *)
Kinds == [is : {"call", "request", "note"}, of : {0}] \cup [is : {"cancel"}, of : Lines]

Is(i, kind) == sent[i].is = kind

(* The deferred cancelServe of a Serve that returned lets the reader go.   *)
Stopped == aborted \/ main.at \in {"over", "error"}

Waiting(r) == [at |-> r, line |-> 0, eof |-> FALSE, bad |-> FALSE]

-----------------------------------------------------------------------------
(* The client.                                                             *)

Send == /\ end = "open" /\ Len(sent) < MaxLines
        /\ \E k \in Kinds : sent' = Append(sent, k)
        /\ UNCHANGED <<end, heard, reader, main, inflight, cancelled, aborted, cut, answers>>

(* The input closes, after a last line without a newline perhaps, or turns *)
(* out to be a record that is too long or cannot be read.                  *)
EndInput == /\ end = "open"
            /\ end' \in {"eof", "broken"} \cup (IF heard < Len(sent) THEN {"partial"} ELSE {})
            /\ UNCHANGED <<sent, heard, reader, main, inflight, cancelled, aborted, cut, answers>>

(* SIGINT cancels the context of Serve.                                    *)
Interrupted == /\ ~aborted /\ aborted' = TRUE
               /\ UNCHANGED <<sent, end, heard, reader, main, inflight, cancelled, cut, answers>>

-----------------------------------------------------------------------------
(* The reader.                                                             *)

Busy == inflight # 0

(* readLine returns the last record together with the end of the input.    *)
AtTheEnd == Len(sent) - heard = IF end = "partial" THEN 1 ELSE 0

(* Mutant: a cancellation waits for its turn like any other line.          *)
OffersAll ==
    /\ reader.at = "read" /\ heard < Len(sent) /\ (end = "partial" => ~AtTheEnd)
    /\ heard' = heard + 1
    /\ reader' = [Waiting("offer") EXCEPT !.line = heard + 1]
    /\ UNCHANGED <<sent, end, main, inflight, cancelled, aborted, cut, answers>>

(* A cancellation is handled here; whatever else is offered to the loop.   *)
ReadLine ==
    /\ reader.at = "read" /\ heard < Len(sent) /\ (end = "partial" => ~AtTheEnd)
    /\ heard' = heard + 1
    /\ IF Is(heard + 1, "cancel")
       THEN cancelled' = (cancelled \/ (Busy /\ inflight = sent[heard + 1].of)) /\ UNCHANGED reader
       ELSE reader' = [Waiting("offer") EXCEPT !.line = heard + 1] /\ UNCHANGED cancelled
    /\ UNCHANGED <<sent, end, main, inflight, aborted, cut, answers>>

(* Mutant: the call goes on.                                               *)
StopsNever == aborted

(* The end of the input stops the server when a call is in flight.         *)
StopsAtEnd == aborted \/ Busy

ReadEnd ==
    /\ reader.at = "read" /\ end # "open" /\ AtTheEnd
    /\ heard' = Len(sent)
    /\ reader' = [at |-> "offer", line |-> IF end = "partial" THEN Len(sent) ELSE 0,
                  eof |-> end # "broken", bad |-> end = "broken"]
    /\ aborted' = StopsAtEnd /\ cut' = IF aborted THEN cut ELSE inflight
    /\ UNCHANGED <<sent, end, main, inflight, cancelled, answers>>

ReaderGivesUp ==
    /\ reader.at = "offer" /\ Stopped
    /\ reader' = Waiting("done")
    /\ UNCHANGED <<sent, end, heard, main, inflight, cancelled, aborted, cut, answers>>

-----------------------------------------------------------------------------
(* The loop of Serve.                                                      *)

(* Mutant: the line that came with the end is dropped.                     *)
DropsLast(r) == IF r.bad \/ r.eof THEN Waiting(IF r.bad THEN "error" ELSE "over")
                ELSE [r EXCEPT !.at = "handle"]

(* The last line is handled before the end.                                *)
Take(r) == IF r.bad THEN Waiting("error")
           ELSE IF r.line # 0 THEN [r EXCEPT !.at = "handle"]
           ELSE Waiting("over")

(* The channel has no buffer: offer and receive are one step.              *)
Receive ==
    /\ main.at = "wait" /\ reader.at = "offer"
    /\ main' = Take(reader)
    /\ reader' = Waiting(IF reader.eof \/ reader.bad THEN "done" ELSE "read")
    /\ UNCHANGED <<sent, end, heard, inflight, cancelled, aborted, cut, answers>>

Stop ==
    /\ main.at = "wait" /\ aborted
    /\ main' = Waiting("over")
    /\ UNCHANGED <<sent, end, heard, reader, inflight, cancelled, aborted, cut, answers>>

NextLine == main' = Waiting(IF main.eof THEN "over" ELSE "wait")

Ignore ==
    /\ main.at = "handle" /\ (Is(main.line, "note") \/ Is(main.line, "cancel"))
    /\ NextLine
    /\ UNCHANGED <<sent, end, heard, reader, inflight, cancelled, aborted, cut, answers>>

Written == answers' = Append(answers, main.line)

(* A response that cannot be written ends Serve.                           *)
Answer ==
    /\ main.at = "handle" /\ Is(main.line, "request")
    /\ \/ Written /\ NextLine
       \/ main' = Waiting("error") /\ UNCHANGED answers
    /\ UNCHANGED <<sent, end, heard, reader, inflight, cancelled, aborted, cut>>

Register ==
    /\ main.at = "handle" /\ Is(main.line, "call")
    /\ inflight' = main.line /\ cancelled' = FALSE
    /\ main' = [main EXCEPT !.at = "run"]
    /\ UNCHANGED <<sent, end, heard, reader, aborted, cut, answers>>

Unregister == inflight' = 0 /\ cancelled' = FALSE

Silenced == cancelled \/ aborted

(* Runtime.Call returns when it is done or when its context is cancelled;  *)
(* a cancelled call is not answered.                                       *)
CallReturns ==
    /\ main.at = "run"
    /\ IF Silenced THEN Unregister /\ NextLine
                   ELSE main' = [main EXCEPT !.at = "write"] /\ UNCHANGED <<inflight, cancelled>>
    /\ UNCHANGED <<sent, end, heard, reader, aborted, cut, answers>>

CancelledReturns == Silenced /\ CallReturns

Respond ==
    /\ main.at = "write"
    /\ Unregister
    /\ \/ Written /\ NextLine
       \/ main' = Waiting("error") /\ UNCHANGED answers
    /\ UNCHANGED <<sent, end, heard, reader, aborted, cut>>

-----------------------------------------------------------------------------
Init ==
    /\ sent = <<>> /\ end = "open" /\ heard = 0
    /\ reader = Waiting("read") /\ main = Waiting("wait")
    /\ inflight = 0 /\ cancelled = FALSE /\ aborted = FALSE /\ cut = 0
    /\ answers = <<>>

Reads == ReadLine \/ ReadEnd \/ ReaderGivesUp

Loops == Receive \/ Stop \/ Ignore \/ Answer \/ Register \/ Respond

Next == Send \/ EndInput \/ Interrupted \/ Reads \/ Loops \/ CallReturns

Spec == Init /\ [][Next]_vars

(* The goroutines run, and a cancelled call returns; nothing says how long *)
(* another call takes, or that the client says anything.                   *)
Fairness == WF_vars(Reads) /\ WF_vars(Loops) /\ WF_vars(CancelledReturns)

FairSpec == Spec /\ Fairness

-----------------------------------------------------------------------------
(* Every variable has its type.                                            *)
TypeOK ==
    LET Place(ats) == [at : ats, line : Lines \cup {0}, eof : BOOLEAN, bad : BOOLEAN]
    IN  /\ sent \in Seq(Kinds) /\ heard \in 0 .. Len(sent)
        /\ end \in {"open", "eof", "partial", "broken"}
        /\ reader \in Place({"read", "offer", "done"})
        /\ main \in Place({"wait", "handle", "run", "write", "over", "error"})
        /\ inflight \in Lines \cup {0}
        /\ cancelled \in BOOLEAN /\ aborted \in BOOLEAN /\ cut \in Lines \cup {0}
        /\ answers \in Seq(Lines)

Expects(i) == Is(i, "call") \/ Is(i, "request")

Heard(i) == \E j \in 1 .. heard : Is(j, "cancel") /\ sent[j].of = i

(* The line the loop is at; those before it are done with.                 *)
Turn == IF main.line # 0 THEN main.line
        ELSE IF reader.line # 0 THEN reader.line ELSE heard + 1

LastLine(i) == end = "partial" /\ i = Len(sent)

AfterInterrupt == aborted /\ cut = 0

(* What may go without its answer: a call that its client cancelled; the   *)
(* call that ran when the input ended, and a last line without a newline   *)
(* that came with that end; and after an interrupt any call, and the line  *)
(* the reader was left with.                                               *)
Excused(i) ==
    \/ Is(i, "call") /\ Heard(i)
    \/ cut # 0 /\ (i = cut \/ LastLine(i))
    \/ AfterInterrupt /\ (Is(i, "call") \/ (reader.at = "done" /\ i = heard))

(* Every request is answered once, in the order of the requests, unless it *)
(* is excused or the output breaks.  The last line that Excused lets go,   *)
(* of server.go:119-134, is one that lines 179-180 promise to process      *)
(* (server.go:105-151, 373-383).                                           *)
EachAnsweredOnce ==
    /\ TypeOK
    /\ \A i \in 1 .. Len(answers) - 1 : answers[i] < answers[i + 1]
    /\ \A i \in 1 .. Len(answers) : Expects(answers[i])
    /\ main.at # "error" =>
         \A i \in 1 .. Turn - 1 : Expects(i) => Contains(answers, i) \/ Excused(i)

(* A cancellation that is next in the input of an idle reader while its    *)
(* call runs ends the call.  Nothing else may be in front of it: a reader  *)
(* that offers another line hears nothing (server.go:66-70, 105-127).      *)
NextUp(i) == \E j \in heard + 1 .. Len(sent) :
               /\ Is(j, "cancel") /\ sent[j].of = i
               /\ \A k \in heard + 1 .. j : Is(k, "cancel")
               /\ end = "partial" => j < Len(sent)

CancelEndsCall ==
    \A i \in Lines : (inflight = i /\ reader.at = "read" /\ NextUp(i)) ~> inflight # i

(* So does the end of the input, and Serve returns, unless a last request  *)
(* came with it.                                                           *)
EndIsUp == /\ end # "open" /\ reader.at = "read"
           /\ \A k \in heard + 1 .. Len(sent) : Is(k, "cancel") \/ (end = "partial" /\ k = Len(sent))

EndEndsServe ==
    /\ \A i \in Lines : (inflight = i /\ EndIsUp) ~> inflight # i
    /\ (Busy /\ EndIsUp /\ end # "partial") ~> main.at \in {"over", "error"}

(* A call that is cancelled, or whose client has gone, does not go on.     *)
CallsEnd == CancelEndsCall /\ EndEndsServe
================================================================================
