-------------------------------- MODULE MCMcp --------------------------------
(* The --mcp process: the session table (two connects where one session is *)
(* allowed, a reaper, one tool operation at a time, the end of the         *)
(* process), and the server that answers its client.  A behaviour          *)
(* exercises one of the two; the other stays as it was, with nothing to do.*)
EXTENDS McpRuntime

CONSTANT MaxLines

ASSUME LinesAssumption == MaxLines \in Nat

VARIABLES focus, sent, end, heard, reader, main, inflight, cancelled, aborted, cut, answers

serverVars == <<sent, end, heard, reader, main, inflight, cancelled, aborted, cut, answers>>
allVars    == <<focus, vars, serverVars>>

S == INSTANCE McpServer

McpInit == focus \in {"table", "server"} /\ Init /\ S!Init

Table == focus = "table" /\ Next /\ UNCHANGED <<focus, serverVars>>

Server == focus = "server" /\ S!Next /\ UNCHANGED <<focus, vars>>

(* In its initial state neither has a step that is due, so that fairness   *)
(* does not forbid to leave it there.                                      *)
McpSpec == McpInit /\ [][Table \/ Server]_allVars /\ Fairness /\ S!Fairness

-----------------------------------------------------------------------------
(* Of McpServer: every request is answered once, in order.                 *)
EachAnsweredOnce == S!EachAnsweredOnce

(* Of McpServer: cancellation and the end of the input stop a call.        *)
CallsEnd == S!CallsEnd
==============================================================================
