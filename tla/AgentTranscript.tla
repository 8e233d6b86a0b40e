----------------------------- MODULE AgentTranscript -----------------------------
(***************************************************************************)
(* The transcript of one conversation of the assistant, as                 *)
(* src/internal/agent keeps it: prompts and what runs produced are         *)
(* appended, the front is cut at a cap, a run that was stopped has its     *)
(* open tool calls answered, and a transcript that outgrows the context    *)
(* window is compacted.  A message has a role, a size, and either a number *)
(* of tool calls or the call it answers.  The runs themselves, with their  *)
(* cancellation and disposal, are Agent; a detached run writes to a        *)
(* conversation nobody reads, so that Clear simply ends it here.           *)
(***************************************************************************)
EXTENDS Naturals, Sequences, FiniteSets, SequencesExt, FiniteSetsExt, Ordered

CONSTANTS MaxHistory,     \* MaxHistoryMessages
          KeepMessages,   \* keepRecentMessages
          KeepRounds,     \* keepToolRounds
          Threshold,      \* what may be sent before the transcript is compacted
          Summary,        \* the size of a summary
          NoteSize,       \* the size of the note that stands for a dropped round
          Sizes,          \* sizes of a tool result; other messages count 1
          MaxCalls,       \* tool calls of one answer (bound)
          MaxTurns,       \* answers of the model in one run
          MaxPrompts      \* prompts (bound)

VARIABLES messages,       \* conversation.messages
          produced,       \* what the run has produced so far
          phase,          \* of the run: "idle", "prepare", "model", "tools", "end"
          compression,    \* compressionEnabled, for this prompt
          prompts         \* prompts so far

vars == <<messages, produced, phase, compression, prompts>>

Message(role, calls, call, size) ==
    [role |-> role, calls |-> calls, call |-> call, size |-> size]

UserMessage == Message("user", 0, 0, 1)

Answer(calls) == Message("assistant", calls, 0, 1)

Result(call, size) == Message("tool", 0, call, size)

SummaryMessage == Message("system", 0, 0, Summary)

Note == Message("assistant", 0, 0, NoteSize)

IsTool(m) == m.role = "tool"

Calls(m) == m.role = "assistant" /\ m.calls > 0

(* The sum of the sizes: how many units its messages take together.        *)
Units(msgs) == UNION {{i} \X (1 .. msgs[i].size) : i \in DOMAIN msgs}

Total(msgs) == Cardinality(Units(msgs))

overBudget(msgs) == Total(msgs) > Threshold

-----------------------------------------------------------------------------
(* Cuts.                                                                   *)

After(msgs, n) == SubSeq(msgs, n + 1, Len(msgs))

Capped(msgs) == IF Len(msgs) > MaxHistory THEN After(msgs, Len(msgs) - MaxHistory) ELSE msgs

(* How many tool results a transcript begins with.                         *)
LeadingTools(msgs) == Max({n \in 0 .. Len(msgs) : \A k \in 1 .. n : IsTool(msgs[k])})

(* Mutant: the cap alone.                                                  *)
trimToCap(msgs) == Capped(msgs)

trimHistory(msgs) == After(Capped(msgs), LeadingTools(Capped(msgs)))

(* The calls whose results follow them directly and in full.               *)
ToolsAfter(msgs, i) == LeadingTools(After(msgs, i))

toolRounds(msgs) == {i \in DOMAIN msgs : Calls(msgs[i]) /\ ToolsAfter(msgs, i) = msgs[i].calls}

Later(rounds, i) == Cardinality({j \in rounds : j > i})

(* Mutant: the last messages are kept, and no rounds.                      *)
splitAtMessages(msgs, keep, keepRounds) ==
    LET start == Len(msgs) - Min({keep, Len(msgs)})
    IN  Max({n \in 0 .. start : n = 0 \/ ~IsTool(msgs[n + 1])})

(* How many messages splitForCompression compacts.                         *)
splitForCompression(msgs, keep, keepRounds) ==
    LET start  == Len(msgs) - Min({keep, Len(msgs)})
        back   == Max({n \in 0 .. start : n = 0 \/ ~IsTool(msgs[n + 1])})
        rounds == toolRounds(msgs)
    IN  Min({back} \cup {i - 1 : i \in {j \in rounds : Later(rounds, j) < keepRounds}})

dropOldToolResults(msgs, keepRounds) ==
    LET rounds == toolRounds(msgs)
        old    == {i \in rounds : Later(rounds, i) >= keepRounds}
        gone   == UNION {i + 1 .. i + msgs[i].calls : i \in old}
        kept   == Ascending(DOMAIN msgs \ gone)
    IN  [n \in DOMAIN kept |-> IF kept[n] \in old THEN Note ELSE msgs[kept[n]]]

Compacted(msgs, n) == <<SummaryMessage>> \o After(msgs, n)

(* compress: once, again and harder, without the older results, capped.    *)
compress(history) ==
    LET first  == splitForCompression(history, KeepMessages, KeepRounds)
        once   == Compacted(history, first)
        second == splitForCompression(once, KeepMessages \div 2, 1)
        twice  == IF second > 0 THEN Compacted(once, second) ELSE once
        less   == dropOldToolResults(twice, 1)
    IN  CASE first = 0          -> trimHistory(history)
          [] first > 0 /\ ~overBudget(once) -> once
          [] first > 0 /\ overBudget(once) /\ ~overBudget(twice) -> twice
          [] OTHER -> IF overBudget(less) THEN trimHistory(less) ELSE less

(* reconcile answers what the last calls left open.                        *)
reconcile(msgs) ==
    LET asking == {i \in DOMAIN msgs : Calls(msgs[i])}
        last   == Max(asking)
        done   == {m.call : m \in {msgs[i] : i \in {j \in last + 1 .. Len(msgs) : IsTool(msgs[j])}}}
        open   == Ascending(1 .. msgs[last].calls \ done)
    IN  IF asking = {} THEN msgs
        ELSE trimHistory(msgs \o [n \in DOMAIN open |-> Result(open[n], 1)])

-----------------------------------------------------------------------------
Prompt ==
    /\ phase = "idle" /\ prompts < MaxPrompts /\ prompts' = prompts + 1
    /\ messages' = trimHistory(Append(messages, UserMessage))
    /\ compression' \in BOOLEAN
    /\ phase' = "prepare" /\ UNCHANGED produced

prepareContext ==
    /\ phase = "prepare"
    /\ messages' = IF compression /\ overBudget(messages) THEN compress(messages) ELSE messages
    /\ phase' = "model" /\ UNCHANGED <<produced, compression, prompts>>

Turns == Cardinality({i \in DOMAIN produced : produced[i].role = "assistant"})

(* The model answers, or asks for tools, until its turns are used up.      *)
ModelAnswers ==
    /\ phase = "model" /\ Turns < MaxTurns
    /\ \E n \in 0 .. MaxCalls :
         /\ produced' = Append(produced, Answer(n))
         /\ phase' = IF n = 0 THEN "end" ELSE "tools"
    /\ UNCHANGED <<messages, compression, prompts>>

(* The tools run one after the other.                                      *)
ToolAnswers ==
    /\ phase = "tools"
    /\ LET asked == Max({i \in DOMAIN produced : Calls(produced[i])})
           call  == Len(produced) - asked + 1
       IN  /\ \E size \in Sizes : produced' = Append(produced, Result(call, size))
           /\ phase' = IF call = produced[asked].calls THEN "model" ELSE "tools"
    /\ UNCHANGED <<messages, compression, prompts>>

(* An abort, a failure of the provider or of the stream, the last turn.    *)
Stops == /\ phase \in {"model", "tools"} /\ phase' = "end"
         /\ UNCHANGED <<messages, produced, compression, prompts>>

(* appendAll, then reconcile.                                              *)
Folds == /\ phase = "end"
         /\ messages' = reconcile(IF produced = <<>> THEN messages ELSE trimHistory(messages \o produced))
         /\ produced' = <<>> /\ phase' = "idle" /\ UNCHANGED <<compression, prompts>>

Clear == /\ messages' = <<>> /\ produced' = <<>> /\ phase' = "idle"
         /\ UNCHANGED <<compression, prompts>>

Init == /\ messages = <<>> /\ produced = <<>> /\ phase = "idle"
        /\ compression = FALSE /\ prompts = 0

Next == Prompt \/ prepareContext \/ ModelAnswers \/ ToolAnswers \/ Stops \/ Folds \/ Clear

Spec == Init /\ [][Next]_vars

-----------------------------------------------------------------------------
(* modelInput: a summary goes into the instruction.                        *)
Spoken(msgs) == IF msgs # <<>> /\ msgs[1].role = "system" THEN Tail(msgs) ELSE msgs

(* What a call of the model sees; trimStateMessages caps it again.         *)
View ==
    LET all == Spoken(messages) \o produced
    IN  IF Len(all) <= MaxHistory THEN all ELSE trimHistory(all)

(* Every variable has its type.                                            *)
TypeOK ==
    /\ \A msgs \in {messages, produced} :
         msgs \in Seq([role: {"system", "user", "assistant", "tool"}, calls: 0 .. MaxCalls,
                       call: 0 .. MaxCalls, size: Sizes \cup {1, Summary, NoteSize}])
    /\ Len(messages) <= MaxHistory
    /\ phase \in {"idle", "prepare", "model", "tools", "end"}
    /\ compression \in BOOLEAN /\ prompts \in 0 .. MaxPrompts

Answered(msgs, i) ==
    /\ ToolsAfter(msgs, i) = msgs[i].calls
    /\ {msgs[j].call : j \in i + 1 .. i + msgs[i].calls} = 1 .. msgs[i].calls

Accepted(msgs) ==
    /\ \A i \in DOMAIN msgs :
         /\ msgs[i].role # "system"
         /\ Calls(msgs[i]) => Answered(msgs, i)
         /\ IsTool(msgs[i]) => i > 1 /\ (Calls(msgs[i - 1]) \/ IsTool(msgs[i - 1]))

(* Whatever was cut, compacted, dropped or stopped before, no provider is  *)
(* sent a tool result without its call, or a call without its results,     *)
(* which it would reject (agent.go:458-462, 494-496, context.go:404-407).  *)
RequestsAccepted == TypeOK /\ (phase = "model" => Accepted(View))

(* A compaction keeps the prompt it was made for and the last complete     *)
(* tool round before it as they are, and leaves no more messages than      *)
(* there were (context.go:169-175).  It may leave more text: a summary may *)
(* be longer than a short prefix (269, 372), a note than the round it      *)
(* stands for (431-435).  More than that, the text of one summary and of   *)
(* the notes the transcript holds, it never adds.                          *)
Within(part, msgs) == \E n \in 0 .. Len(msgs) - Len(part) : SubSeq(msgs, n + 1, n + Len(part)) = part

LastRound(msgs) ==
    IF toolRounds(msgs) = {} THEN <<>>
    ELSE LET i == Max(toolRounds(msgs)) IN SubSeq(msgs, i, i + msgs[i].calls)

Notes(msgs) == {i \in DOMAIN msgs : msgs[i] = Note}

Compacts == phase = "prepare" /\ phase' = "model"

KeepsLast ==
    Compacts => /\ Last(messages') = Last(messages)
                /\ Within(LastRound(messages), messages')
                /\ Len(messages') <= Len(messages)
                /\ Total(messages') <= Total(messages) + Summary + NoteSize * Cardinality(Notes(messages'))

CompactionKeeps == [][KeepsLast]_vars
================================================================================
