-------------------------------- MODULE Agent --------------------------------
(***************************************************************************)
(* The sidebar assistant of src/internal/agent/agent.go together with the  *)
(* consent gate of src/internal/permission and the part of                 *)
(* src/internal/app/app.go that disposes both when a session closes.  A    *)
(* run is the goroutine of one accepted prompt; it belongs to the          *)
(* conversation object it was started on, which Clear and Dispose detach   *)
(* from the session while the run goes on.  Runs and conversations are     *)
(* numbered in the order they are made; 0 is nil.                          *)
(***************************************************************************)
EXTENDS Integers, FiniteSets

CONSTANTS Sess,        \* SSH sessions
          MaxRuns,     \* prompts accepted (bound)
          MaxConvs,    \* conversation objects made (bound)
          Policies,    \* values settings.permissionPolicy may have
          Tools,       \* tools that need consent
          Patient      \* no prompt comes in before the last run has returned

ASSUME BoundsAssumption == MaxRuns \in Nat /\ MaxConvs \in Nat /\ Patient \in BOOLEAN
ASSUME PoliciesAssumption == Policies \subseteq {"ask", "allow", "deny"}
ASSUME ToolsAssumption == Tools # {}

Runs  == 1..MaxRuns
Convs == 1..MaxConvs

VARIABLES
    convs, closed,               \* Service.convs and Service.closed
    made,                        \* conversations made so far
    running, cancelOf, doneOf,   \* their fields running, cancel and done
    runs, pc, of, sess,          \* the runs: how many, where, on what
    cancelled, clearing,         \* runs that are cancelled, and that a Clear will cancel
    closing, shut,               \* done channels about to be closed, and closed
    pending, answer,             \* ChannelGate.pending, and the buffered decision
    asks,                        \* prompts the renderer shows
    tool,                        \* the tool each run last asked consent for
    allowed,                     \* Service.allowed: session and tool, and whose ask it was
    ending, joining,             \* disposeSession of each session
    quit, toJoin, at,            \* Service.DisposeAll, and the one it waits for
    joined,                      \* conversations joinRun returned for (history)
    settled                      \* runs over when their session's grants went (history)

service == <<convs, closed, made, running, cancelOf, doneOf>>
run     == <<runs, pc, of, sess, closing, shut>>
cancels == <<cancelled, clearing>>
consent == <<pending, answer, asks, tool, allowed>>
dispose == <<ending, joining, quit, toJoin, at, joined, settled>>
vars    == <<service, run, cancels, consent, dispose>>

-----------------------------------------------------------------------------
(* Calls from the frontend.                                                *)

ConvOf(s) == IF convs[s] = 0 THEN made + 1 ELSE convs[s]

(* Mutant: a prompt is accepted while the conversation has a run.          *)
AlwaysFree(c) == TRUE

Free(c) == c \notin running

Returned(c) == \A r \in 1..runs : of[r] = c => pc[r] = "returned"

(* A run of c takes prompts again, but has not closed its channel.         *)
Lingers(c) == \E r \in 1..runs : of[r] = c /\ pc[r] \in {"leaving", "closing"}

DoneMade(c, r) == [doneOf EXCEPT ![c] = r]

Prompt(s) ==
    /\ ~closed /\ runs < MaxRuns
    /\ LET c == ConvOf(s)
           r == runs + 1
       IN  /\ c \in Convs /\ Free(c)
           /\ Patient => ~Lingers(c)
           /\ convs' = [convs EXCEPT ![s] = c]
           /\ made' = IF convs[s] = 0 THEN made + 1 ELSE made
           /\ running' = running \cup {c}
           /\ cancelOf' = [cancelOf EXCEPT ![c] = r]
           /\ doneOf' = DoneMade(c, r)
           /\ runs' = r
           /\ pc' = [pc EXCEPT ![r] = "model"]
           /\ of' = [of EXCEPT ![r] = c]
           /\ sess' = [sess EXCEPT ![r] = s]
    /\ UNCHANGED <<closed, closing, shut, cancels, consent, dispose>>

(* Mutant: nobody calls the cancel function.                               *)
NoCancel(c) == {}

(* The run that the cancel function of conversation c cancels, if any.     *)
Cancel(c) == IF c = 0 \/ cancelOf[c] = 0 THEN {} ELSE {cancelOf[c]}

Abort(s) ==
    /\ cancelled' = cancelled \cup Cancel(convs[s])
    /\ UNCHANGED <<service, run, clearing, consent, dispose>>

Clear(s) ==
    /\ convs[s] # 0 /\ made < MaxConvs
    /\ convs' = [convs EXCEPT ![s] = made + 1]
    /\ made' = made + 1
    /\ clearing' = clearing \cup Cancel(convs[s])
    /\ UNCHANGED <<closed, running, cancelOf, doneOf, run, cancelled, consent, dispose>>

(* Clear calls the cancel function once it has released the lock.          *)
ClearCancels(r) ==
    /\ r \in clearing
    /\ clearing' = clearing \ {r} /\ cancelled' = cancelled \cup {r}
    /\ UNCHANGED <<service, run, consent, dispose>>

(* The user answers a prompt, which leaves the screen at once; Decide is   *)
(* ignored when the ask is over, or answered already.                      *)
Decide(r, d) ==
    /\ r \in asks
    /\ asks' = asks \ {r}
    /\ answer' = IF r \in pending /\ answer[r] = "none"
                   THEN [answer EXCEPT ![r] = d] ELSE answer
    /\ UNCHANGED <<service, run, cancels, pending, tool, allowed, dispose>>

-----------------------------------------------------------------------------
(* A run.                                                                  *)

At(r, here, next) == pc[r] = here /\ pc' = [pc EXCEPT ![r] = next]

stay == <<service, runs, of, sess, closing, shut, cancels, dispose>>

(* The model calls a tool: one that needs consent, or one that does not.   *)
CallsTool(r) ==
    /\ r \notin cancelled
    /\ \/ /\ At(r, "model", "authorize")
          /\ \E t \in Tools : tool' = [tool EXCEPT ![r] = t]
       \/ At(r, "model", "tool") /\ UNCHANGED tool
    /\ UNCHANGED <<stay, pending, answer, asks, allowed>>

(* The run has its answer, has failed, or was cancelled; what it produced  *)
(* is folded into the conversation and reconciled.                         *)
LoopEnds(r) ==
    /\ At(r, "model", "folded")
    /\ UNCHANGED <<stay, consent>>

Remembered(r) == \E q \in Runs : <<sess[r], tool[r], q>> \in allowed

Authorize(r) ==
    /\ \/ r \in cancelled /\ At(r, "authorize", "model")
       \/ /\ r \notin cancelled
          /\ \E p \in Policies :
               \/ p = "allow" /\ At(r, "authorize", "tool")
               \/ p = "deny" /\ At(r, "authorize", "model")
               \/ p = "ask" /\ Remembered(r) /\ At(r, "authorize", "tool")
               \/ p = "ask" /\ ~Remembered(r) /\ At(r, "authorize", "ask")
    /\ UNCHANGED <<stay, consent>>

Ask(r) ==
    /\ r \notin cancelled /\ At(r, "ask", "show")
    /\ pending' = pending \cup {r}
    /\ UNCHANGED <<stay, answer, asks, tool, allowed>>

AskTooLate(r) ==
    /\ r \in cancelled /\ At(r, "ask", "model")
    /\ UNCHANGED <<stay, consent>>

Show(r) ==
    /\ At(r, "show", "wait")
    /\ asks' = asks \cup {r}
    /\ UNCHANGED <<stay, pending, answer, tool, allowed>>

AskEnds(r) == pending \ {r}

(* The two cases of the select: with both ready either may be taken.       *)
Decided(r) ==
    /\ \/ answer[r] = "deny" /\ At(r, "wait", "model")
       \/ answer[r] = "allow" /\ At(r, "wait", "tool")
       \/ answer[r] = "session" /\ At(r, "wait", "remember")
    /\ pending' = AskEnds(r) /\ answer' = [answer EXCEPT ![r] = "none"]
    /\ UNCHANGED <<stay, asks, tool, allowed>>

(* Mutant: the renderer is not told that a cancelled ask is over.          *)
NotWithdrawn(r) == asks

Withdrawn(r) == asks \ {r}

(* Mutant: a cancelled ask still waits for the user.                       *)
OnlyAnswered(r) == answer[r] # "none" /\ r \in cancelled

CancelSeen(r) == r \in cancelled

GivesUp(r) ==
    /\ CancelSeen(r) /\ At(r, "wait", "model")
    /\ asks' = Withdrawn(r)
    /\ pending' = AskEnds(r) /\ answer' = [answer EXCEPT ![r] = "none"]
    /\ UNCHANGED <<stay, tool, allowed>>

Remember(r) ==
    /\ At(r, "remember", "tool")
    /\ allowed' = allowed \cup {<<sess[r], tool[r], r>>}
    /\ UNCHANGED <<stay, pending, answer, asks, tool>>

(* A tool returns in the end, at the latest when its context is cancelled. *)
ToolReturns(r) ==
    /\ At(r, "tool", "model")
    /\ UNCHANGED <<stay, consent>>

(* The conversation takes prompts again, unless it is detached.            *)
Release(r) ==
    /\ At(r, "folded", "leaving")
    /\ IF convs[sess[r]] = of[r]
         THEN /\ running' = running \ {of[r]}
              /\ cancelOf' = [cancelOf EXCEPT ![of[r]] = 0]
         ELSE UNCHANGED <<running, cancelOf>>
    /\ UNCHANGED <<convs, closed, made, doneOf, runs, of, sess, closing, shut,
                   cancels, consent, dispose>>

(* After the agent:done event the deferred function reads the channel the  *)
(* conversation has now ...                                                *)
Leave(r) ==
    /\ At(r, "leaving", "closing")
    /\ cancelled' = cancelled \cup {r}
    /\ closing' = [closing EXCEPT ![r] = doneOf[of[r]]]
    /\ UNCHANGED <<service, runs, of, sess, shut, clearing, consent, dispose>>

(* ... and closes it.  A channel that is closed already is a panic: the    *)
(* run never returns, and the program ends.                                *)
Return(r) ==
    /\ closing[r] \notin shut
    /\ At(r, "closing", "returned")
    /\ shut' = shut \cup {closing[r]}
    /\ UNCHANGED <<service, runs, of, sess, closing, cancels, consent, dispose>>

RunStep(r) ==
    \/ CallsTool(r) \/ LoopEnds(r) \/ Authorize(r) \/ Ask(r) \/ AskTooLate(r) \/ Show(r)
    \/ Decided(r) \/ GivesUp(r) \/ Remember(r) \/ ToolReturns(r)
    \/ Release(r) \/ Leave(r) \/ Return(r)

-----------------------------------------------------------------------------
(* joinRun waits until the conversation's done channel is closed.          *)
(* Mutant: it only cancels.                                                *)
JoinedEarly(c) == TRUE

CanJoin(c) == IF c = 0 THEN TRUE ELSE doneOf[c] \in shut \cup {0}

(* disposeSession, in session:closed: agent.Dispose detaches the           *)
(* conversation and joins its run ...                                      *)
SessionCloses(s) ==
    /\ ending[s] = "open"
    /\ ending' = [ending EXCEPT ![s] = "detached"]
    /\ joining' = [joining EXCEPT ![s] = convs[s]]
    /\ convs' = [convs EXCEPT ![s] = 0]
    /\ UNCHANGED <<closed, made, running, cancelOf, doneOf, run, cancels, consent,
                   quit, toJoin, at, joined, settled>>

JoinCancels(s) ==
    /\ ending[s] = "detached"
    /\ ending' = [ending EXCEPT ![s] = "joining"]
    /\ cancelled' = cancelled \cup Cancel(joining[s])
    /\ UNCHANGED <<service, run, clearing, consent, joining, quit, toJoin, at, joined, settled>>

Joined(s) ==
    /\ ending[s] = "joining" /\ CanJoin(joining[s])
    /\ ending' = [ending EXCEPT ![s] = "joined"]
    /\ joined' = joined \cup ({joining[s]} \ {0})
    /\ UNCHANGED <<service, run, cancels, consent, joining, quit, toJoin, at, settled>>

(* ... then permission.ForgetSession: the grants, and the pending asks.    *)
(* Mutant: the grants are forgotten before the runs are joined.            *)
WhileJoining == {"joining"}

AfterJoining == {"joined"}

ForgetGrants(s) ==
    /\ ending[s] \in AfterJoining
    /\ ending' = [ending EXCEPT ![s] = "forgotten"]
    /\ allowed' = {g \in allowed : g[1] # s}
    /\ settled' = settled \cup {r \in 1..runs : sess[r] = s /\ pc[r] = "returned"}
    /\ UNCHANGED <<service, run, cancels, pending, answer, asks, tool,
                   joining, quit, toJoin, at, joined>>

ForgetAsks(s) ==
    /\ ending[s] = "forgotten"
    /\ ending' = [ending EXCEPT ![s] = "closed"]
    /\ LET own == {r \in pending : sess[r] = s}
       IN  /\ answer' = [r \in Runs |-> IF r \in own /\ answer[r] = "none"
                                           THEN "deny" ELSE answer[r]]
           /\ asks' = asks \ own
    /\ UNCHANGED <<service, run, cancels, pending, tool, allowed,
                   joining, quit, toJoin, at, joined, settled>>

SessionEnds(s) == JoinCancels(s) \/ Joined(s) \/ ForgetGrants(s) \/ ForgetAsks(s)

(* Shutdown: agent.DisposeAll, before anything else is torn down.          *)
DisposeAll ==
    /\ quit = "no"
    /\ quit' = "joining" /\ closed' = TRUE
    /\ toJoin' = {convs[s] : s \in Sess} \ {0}
    /\ convs' = [s \in Sess |-> 0]
    /\ UNCHANGED <<made, running, cancelOf, doneOf, run, cancels, consent, ending,
                   joining, at, joined, settled>>

(* joinRun of one conversation after another: cancelled, and waited for.   *)
CancelNext(c) ==
    /\ quit = "joining" /\ at = 0 /\ c \in toJoin
    /\ at' = c /\ toJoin' = toJoin \ {c}
    /\ cancelled' = cancelled \cup Cancel(c)
    /\ UNCHANGED <<service, run, clearing, consent, ending, joining, quit, joined, settled>>

JoinNext ==
    /\ at # 0 /\ CanJoin(at)
    /\ at' = 0 /\ joined' = joined \cup {at}
    /\ UNCHANGED <<service, run, cancels, consent, ending, joining, quit, toJoin, settled>>

DisposeAllReturns ==
    /\ quit = "joining" /\ toJoin = {} /\ at = 0
    /\ quit' = "returned"
    /\ UNCHANGED <<service, run, cancels, consent, ending, joining, toJoin, at, joined, settled>>

QuitStep == JoinNext \/ DisposeAllReturns \/ \E c \in Convs : CancelNext(c)

-----------------------------------------------------------------------------
Init ==
    /\ convs = [s \in Sess |-> 0] /\ closed = FALSE /\ made = 0
    /\ running = {} /\ cancelOf = [c \in Convs |-> 0] /\ doneOf = [c \in Convs |-> 0]
    /\ runs = 0 /\ pc = [r \in Runs |-> "none"]
    /\ of = [r \in Runs |-> 0] /\ sess \in [Runs -> Sess]
    /\ cancelled = {} /\ clearing = {} /\ closing = [r \in Runs |-> 0] /\ shut = {}
    /\ pending = {} /\ answer = [r \in Runs |-> "none"] /\ asks = {} /\ allowed = {}
    /\ tool = [r \in Runs |-> CHOOSE t \in Tools : TRUE]
    /\ ending = [s \in Sess |-> "open"] /\ joining = [s \in Sess |-> 0]
    /\ quit = "no" /\ toJoin = {} /\ at = 0 /\ joined = {} /\ settled = {}

Next ==
    \/ \E s \in Sess : Prompt(s) \/ Abort(s) \/ Clear(s) \/ SessionCloses(s) \/ SessionEnds(s)
    \/ \E r \in Runs : RunStep(r) \/ ClearCancels(r) \/ \E d \in {"deny", "allow", "session"} : Decide(r, d)
    \/ DisposeAll \/ QuitStep

Spec == Init /\ [][Next]_vars

(* Goroutines run; model requests and tools end by their deadlines.  The   *)
(* user need not answer.                                                   *)
Fairness ==
    /\ \A r \in Runs : WF_vars(RunStep(r))
    /\ \A s \in Sess : WF_vars(SessionEnds(s))
    /\ WF_vars(QuitStep)
    /\ \A r \in Runs : WF_vars(ClearCancels(r))

FairSpec == Spec /\ Fairness

-----------------------------------------------------------------------------
InLoop  == {"model", "authorize", "ask", "show", "wait", "remember", "tool", "folded"}
Places  == InLoop \cup {"none", "leaving", "closing", "returned"}

(* The types of the fields; an ask is registered while its run is in Ask.  *)
TypeOK ==
    /\ convs \in [Sess -> 0..MaxConvs] /\ closed \in BOOLEAN /\ made \in 0..MaxConvs
    /\ running \subseteq Convs
    /\ cancelOf \in [Convs -> 0..MaxRuns] /\ doneOf \in [Convs -> 0..MaxRuns]
    /\ runs \in 0..MaxRuns /\ pc \in [Runs -> Places]
    /\ of \in [Runs -> 0..MaxConvs] /\ sess \in [Runs -> Sess]
    /\ cancelled \subseteq Runs /\ clearing \subseteq Runs
    /\ closing \in [Runs -> 0..MaxRuns] /\ shut \subseteq Runs
    /\ pending = {r \in Runs : pc[r] \in {"show", "wait"}}
    /\ answer \in [Runs -> {"none", "deny", "allow", "session"}]
    /\ asks \subseteq Runs /\ tool \in [Runs -> Tools]
    /\ allowed \subseteq Sess \X Tools \X Runs
    /\ ending \in [Sess -> {"open", "detached", "joining", "joined", "forgotten", "closed"}]
    /\ joining \in [Sess -> 0..MaxConvs]
    /\ quit \in {"no", "joining", "returned"} /\ toJoin \subseteq Convs
    /\ at \in 0..MaxConvs
    /\ joined \subseteq Convs /\ settled \subseteq Runs

(* Two loops never append to one conversation.                             *)
OneLoop ==
    \A q, r \in 1..runs : q # r /\ of[q] = of[r] => ~(pc[q] \in InLoop /\ pc[r] \in InLoop)

(* Once a conversation is joined, by Dispose or DisposeAll, none of its    *)
(* runs is still going, so that no tool call meets a torn down session.    *)
JoinedHaveReturned == \A c \in joined : Returned(c)

(* The run goes on although its session has closed: its conversation was   *)
(* taken from the session before, by a Clear or by the shutdown, or the    *)
(* prompt came later.  No end of a session waits for such a run.           *)
Outlives(r) == ending[sess[r]] = "closed" /\ r \notin settled

(* A prompt on screen has its run waiting behind it, however that run and  *)
(* its session ended, unless the run outlives its session.                 *)
NoDanglingAsk == \A r \in asks : pc[r] = "wait" \/ Outlives(r)

(* A run that was over when the grants of its session were forgotten has   *)
(* left none, not even one that its last answer was recording at the time. *)
GrantsForgotten == \A g \in allowed : g[3] \notin settled

(* The grants of a session are forgotten when the runs of its conversation *)
(* are over, so that only the runs of Outlives can leave one behind.       *)
JoinedFirst ==
    \A s \in Sess : ending[s] \in {"forgotten", "closed"} =>
      \A r \in 1..runs : of[r] = joining[s] => r \in settled

(* Consent is asked for and remembered no longer than its session lasts,   *)
(* by every run but those that outlive it, which may still show a prompt   *)
(* and record a grant (permission.go, 240, does not look at the context).  *)
ConsentSound ==
    TypeOK /\ NoDanglingAsk /\ GrantsForgotten /\ (Patient => JoinedFirst)

(* A cancelled run returns: neither an ask nobody answers nor a tool holds *)
(* it, nor does it panic over a channel that is closed already, and so an  *)
(* Abort always stops and a disposal always gets through.                  *)
CancelEnds == \A r \in Runs : r \in cancelled ~> pc[r] = "returned"

(* Disposal, of a session and of all of them, comes to its end.            *)
DisposalEnds ==
    /\ \A s \in Sess : ending[s] = "detached" ~> ending[s] = "closed"
    /\ quit = "joining" ~> quit = "returned"

(* Whoever waits for a run, an abort or a disposal, does so to an end.     *)
WaitsEnd == CancelEnds /\ DisposalEnds
=============================================================================
