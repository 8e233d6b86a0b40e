---------------------------- MODULE AgentProofs ----------------------------
(***************************************************************************)
(* Proofs about the sidebar assistant of Agent: any number of sessions,    *)
(* prompts and conversations, any set of policies and of tools.  What the  *)
(* joins promise, and that the grants of a session are forgotten only when *)
(* its joined runs are over, needs that no prompt comes in before the run  *)
(* before it has returned: a conversation that takes a prompt while its    *)
(* last run still leaves mixes up their done channels.                     *)
(***************************************************************************)
EXTENDS Agent, TLAPS

(* Runs and conversations are what has been numbered so far.               *)
Numbered ==
    /\ running \subseteq 1 .. made /\ joined \subseteq 1 .. made /\ toJoin \subseteq 1 .. made
    /\ at <= made
    /\ \A s \in Sess : convs[s] <= made /\ joining[s] <= made
    /\ \A r \in Runs : IF r <= runs THEN pc[r] # "none" /\ of[r] \in 1 .. made
                                    ELSE pc[r] = "none" /\ of[r] = 0

(* A conversation belongs to one session, and to none once a disposal has  *)
(* taken it.                                                               *)
Detached(c) == c \in joined \cup toJoin \/ c = at \/ \E s \in Sess : c = joining[s]

Owned ==
    /\ \A s, t \in Sess : convs[s] = convs[t] /\ convs[s] # 0 => s = t
    /\ \A s \in Sess : convs[s] # 0 => ~Detached(convs[s])

Marked == \A r \in Runs : pc[r] \in InLoop => of[r] \in running

(* A conversation that has had a run has a channel.                        *)
Channels == \A r \in Runs : /\ pc[r] # "none" => doneOf[of[r]] # 0
                            /\ pc[r] = "closing" => closing[r] # 0

(* The channel of a conversation is that of its last run, the only one     *)
(* that may still be going.                                                *)
LastOnly ==
    /\ \A r \in 1 .. runs : pc[r] # "returned" => doneOf[of[r]] = r
    /\ \A r \in Runs : pc[r] = "closing" => closing[r] = r
    /\ shut = {r \in Runs : pc[r] = "returned"}

Waited == \A s \in Sess : /\ ending[s] \in {"joined", "forgotten", "closed"} => joining[s] \in joined \cup {0}
                          /\ ending[s] = "open" => joining[s] = 0

Core ==
    /\ Numbered /\ Owned /\ Marked /\ OneLoop /\ Channels
    /\ Patient => LastOnly /\ Waited /\ JoinedHaveReturned

(* A run that has been answered, or has its prompt on screen, still waits, *)
(* unless it outlives its session.                                         *)
Asks ==
    \A r \in Runs :
      /\ r \in asks => pc[r] = "wait" \/ Outlives(r)
      /\ answer[r] # "none" => pc[r] \in {"show", "wait"}
      /\ answer[r] # "none" /\ (pc[r] = "show" \/ r \in asks) => Outlives(r)

(* A run that has a prompt or a grant has begun, and that the end of its   *)
(* session found over is over.                                             *)
Begun == /\ \A r \in Runs : r \in asks => r <= runs
         /\ \A g \in allowed : g[3] <= runs /\ sess[g[3]] = g[1]
         /\ \A r \in settled : r <= runs /\ pc[r] = "returned"

(* The runs of a session's conversation, and of the one its end waits for, *)
(* are runs of the session.                                                *)
Belongs ==
    \A s \in Sess, r \in Runs :
      r <= runs /\ (of[r] = convs[s] \/ of[r] = joining[s]) => sess[r] = s

ConsentInv == Begun /\ Asks /\ GrantsForgotten /\ Belongs /\ (Patient => JoinedFirst)

Inv == TypeOK /\ Core /\ ConsentInv

(* What Core and the consent parts read.                                   *)
coreVars == <<convs, made, running, doneOf, run, dispose>>

LEMMA CoreStays ==
    ASSUME Core, UNCHANGED coreVars
    PROVE  Core'
<1>1. /\ UNCHANGED <<convs, made, running, doneOf, runs, pc, of, sess, closing, shut>>
      /\ UNCHANGED <<ending, joining, quit, toJoin, at, joined>>
  BY DEF coreVars, run, dispose
<1>2. Numbered' /\ Marked' /\ OneLoop' /\ Channels'
  BY <1>1 DEF Core, Numbered, Marked, OneLoop, Channels
<1>3. Owned'
  BY <1>1 DEF Core, Owned, Detached
<1>4. Patient => LastOnly' /\ Waited' /\ JoinedHaveReturned'
  BY <1>1 DEF Core, LastOnly, Waited, JoinedHaveReturned, Returned
<1>. QED BY <1>2, <1>3, <1>4 DEF Core

LEMMA AsksStay ==
    ASSUME ConsentInv, UNCHANGED <<consent, coreVars>>
    PROVE  ConsentInv'
BY DEF ConsentInv, Begun, Asks, GrantsForgotten, Belongs, JoinedFirst, Outlives, consent, coreVars, run, dispose

(* A step that only cancels.                                               *)
LEMMA CancelKeeps ==
    ASSUME Inv, UNCHANGED <<service, run, consent, dispose>>,
           cancelled' \subseteq Runs, clearing' \subseteq Runs
    PROVE  Inv'
<1>1. UNCHANGED <<consent, coreVars>>
  BY DEF service, run, dispose, coreVars
<1>2. TypeOK'
  BY DEF Inv, TypeOK, service, run, consent, dispose
<1>3. Core' /\ ConsentInv'
  BY <1>1, CoreStays, AsksStay DEF Inv
<1>. QED BY <1>2, <1>3 DEF Inv

LEMMA CancelTyped ==
    ASSUME TypeOK, NEW c \in 0 .. MaxConvs
    PROVE  Cancel(c) \subseteq Runs
<1>1. CASE c = 0 \/ cancelOf[c] = 0
  BY <1>1 DEF Cancel
<1>2. CASE c # 0 /\ cancelOf[c] # 0
  <2>1. c \in Convs
    BY <1>2, BoundsAssumption DEF Convs
  <2>2. cancelOf[c] \in 0 .. MaxRuns
    BY <2>1 DEF TypeOK
  <2>3. cancelOf[c] \in Runs
    BY <1>2, <2>2, BoundsAssumption DEF Runs
  <2>. QED BY <1>2, <2>3 DEF Cancel
<1>. QED BY <1>1, <1>2

LEMMA AbortKeeps ==
    ASSUME Inv, NEW s \in Sess, Abort(s)
    PROVE  Inv'
<1>1. /\ cancelled' = cancelled \cup Cancel(convs[s])
      /\ UNCHANGED <<service, run, clearing, consent, dispose>>
  BY DEF Abort
<1>2. convs[s] \in 0 .. MaxConvs /\ cancelled \subseteq Runs /\ clearing \subseteq Runs
  BY DEF Inv, TypeOK
<1>3. Cancel(convs[s]) \subseteq Runs
  BY <1>2, CancelTyped DEF Inv
<1>. QED BY <1>1, <1>2, <1>3, CancelKeeps

LEMMA ClearCancelsKeeps ==
    ASSUME Inv, NEW r \in Runs, ClearCancels(r)
    PROVE  Inv'
<1>1. /\ cancelled' = cancelled \cup {r} /\ clearing' = clearing \ {r}
      /\ UNCHANGED <<service, run, consent, dispose>>
  BY DEF ClearCancels
<1>2. cancelled \subseteq Runs /\ clearing \subseteq Runs
  BY DEF Inv, TypeOK
<1>. QED BY <1>1, <1>2, CancelKeeps

(* A run moves on, but not to an ask or from one.                          *)
LEMMA ConsentAside ==
    ASSUME Inv, NEW r \in Runs, pc[r] \notin {"show", "wait", "returned"},
           NEW next \in Places \ {"show", "wait"}, pc' = [pc EXCEPT ![r] = next],
           UNCHANGED <<pending, answer, asks, allowed, convs, runs, of, sess, dispose>>
    PROVE  /\ pc' \in [Runs -> Places] /\ pending' = {q \in Runs : pc'[q] \in {"show", "wait"}}
           /\ ConsentInv'
<1>1. UNCHANGED <<pending, answer, asks, allowed, convs, runs, of, sess, ending, joining, settled>>
  BY DEF dispose
<1>2. /\ pc \in [Runs -> Places] /\ pending = {q \in Runs : pc[q] \in {"show", "wait"}}
  BY DEF Inv, TypeOK
<1>3. /\ pc' \in [Runs -> Places] /\ pc'[r] = next
      /\ \A q \in Runs : q # r => pc'[q] = pc[q]
  BY <1>2
<1>4. \A q \in Runs : pc'[q] \in {"show", "wait"} <=> pc[q] \in {"show", "wait"}
  BY <1>3
<1>5. pending' = {q \in Runs : pc'[q] \in {"show", "wait"}}
  BY <1>1, <1>2, <1>4
<1>6. Begun'
  <2>1. settled \subseteq Runs
    BY DEF Inv, TypeOK
  <2>2. \A q \in settled : q <= runs /\ pc'[q] = "returned"
    BY <1>3, <2>1 DEF Inv, ConsentInv, Begun
  <2>. QED BY <1>1, <2>2 DEF Inv, ConsentInv, Begun
<1>8. GrantsForgotten' /\ Belongs' /\ (Patient => JoinedFirst')
  BY <1>1 DEF Inv, ConsentInv, GrantsForgotten, Belongs, JoinedFirst
<1>7. Asks'
  <2>1. ASSUME NEW q \in Runs
        PROVE  /\ q \in asks => pc'[q] = "wait" \/ Outlives(q)
               /\ answer[q] # "none" => pc'[q] \in {"show", "wait"}
               /\ answer[q] # "none" /\ (pc'[q] = "show" \/ q \in asks) => Outlives(q)
    BY <1>3 DEF Inv, ConsentInv, Asks
  <2>. QED BY <1>1, <2>1 DEF Asks, Outlives
<1>. QED BY <1>3, <1>5, <1>6, <1>7, <1>8 DEF ConsentInv

(* A run moves within its loop.                                            *)
LEMMA CoreInLoop ==
    ASSUME Inv, NEW r \in Runs, pc[r] \in InLoop, NEW next \in InLoop, pc' = [pc EXCEPT ![r] = next],
           UNCHANGED stay
    PROVE  Core'
<1>1. /\ UNCHANGED <<convs, made, running, doneOf, runs, of, closing, shut>>
      /\ UNCHANGED <<ending, joining, toJoin, at, joined>>
  BY DEF stay, service, dispose
<1>2. /\ pc \in [Runs -> Places] /\ pc'[r] \in InLoop
      /\ \A q \in Runs : q # r => pc'[q] = pc[q]
  BY DEF Inv, TypeOK
<1>3. /\ \A q \in Runs : pc'[q] \in InLoop <=> pc[q] \in InLoop
      /\ \A q \in Runs : \A p \in {"none", "leaving", "closing", "returned"} : pc'[q] = p <=> pc[q] = p
  BY <1>2 DEF InLoop
<1>4. Numbered'
  BY <1>1, <1>3 DEF Inv, Core, Numbered
<1>5. Owned'
  BY <1>1 DEF Inv, Core, Owned, Detached
<1>6. Marked' /\ Channels'
  BY <1>1, <1>3 DEF Inv, Core, Marked, Channels
<1>7. \A q \in 1 .. runs : q \in Runs
  BY BoundsAssumption DEF Inv, TypeOK, Runs
<1>8. OneLoop'
  BY <1>1, <1>3, <1>7 DEF Inv, Core, OneLoop
<1>9. Patient => LastOnly' /\ Waited' /\ JoinedHaveReturned'
  <2>1. Patient => LastOnly'
    BY <1>1, <1>3, <1>7 DEF Inv, Core, LastOnly
  <2>2. Patient => Waited'
    BY <1>1 DEF Inv, Core, Waited
  <2>3. Patient => JoinedHaveReturned'
    BY <1>1, <1>3, <1>7 DEF Inv, Core, JoinedHaveReturned, Returned
  <2>. QED BY <2>1, <2>2, <2>3
<1>. QED BY <1>4, <1>5, <1>6, <1>8, <1>9 DEF Core

(* A run moves within its loop, with what an ask of its own changes.       *)
LEMMA LoopTyped ==
    ASSUME Inv, UNCHANGED stay, pc' \in [Runs -> Places],
           pending' = {q \in Runs : pc'[q] \in {"show", "wait"}},
           answer' \in [Runs -> {"none", "deny", "allow", "session"}],
           asks' \subseteq Runs, tool' \in [Runs -> Tools], allowed' \subseteq Sess \X Tools \X Runs
    PROVE  TypeOK'
<1>1. /\ UNCHANGED <<convs, closed, made, running, cancelOf, doneOf, runs, of, sess, closing, shut>>
      /\ UNCHANGED <<cancelled, clearing, ending, joining, quit, toJoin, at, joined, settled>>
  BY DEF stay, service, cancels, dispose
<1>. QED BY <1>1 DEF Inv, TypeOK

PlainStep(r) == CallsTool(r) \/ LoopEnds(r) \/ Authorize(r) \/ AskTooLate(r) \/ ToolReturns(r)

LEMMA PlainKeeps ==
    ASSUME Inv, NEW r \in Runs, PlainStep(r)
    PROVE  Inv'
<1>0. UNCHANGED <<stay, pending, answer, asks, allowed>>
  BY DEF PlainStep, CallsTool, LoopEnds, Authorize, AskTooLate, ToolReturns, consent
<1>1. PICK next \in {"model", "authorize", "tool", "folded", "ask"} : pc' = [pc EXCEPT ![r] = next]
  BY DEF PlainStep, CallsTool, LoopEnds, Authorize, AskTooLate, ToolReturns, At
<1>2. pc[r] \in {"model", "authorize", "ask", "tool"}
  BY DEF PlainStep, CallsTool, LoopEnds, Authorize, AskTooLate, ToolReturns, At
<1>3. UNCHANGED <<pending, answer, asks, allowed, convs, runs, of, sess, dispose>>
  BY <1>0 DEF stay, service
<1>4. /\ pc' \in [Runs -> Places] /\ pending' = {q \in Runs : pc'[q] \in {"show", "wait"}}
      /\ ConsentInv'
  <2>1. next \in Places \ {"show", "wait"} /\ pc[r] \notin {"show", "wait", "returned"}
    BY <1>2 DEF Places, InLoop
  <2>. QED BY <1>1, <1>3, <2>1, ConsentAside
<1>5. Core'
  <2>1. next \in InLoop /\ pc[r] \in InLoop
    BY <1>2 DEF InLoop
  <2>. QED BY <1>0, <1>1, <2>1, CoreInLoop
<1>6. TypeOK'
  <2>1. tool' = tool \/ \E t \in Tools : tool' = [tool EXCEPT ![r] = t]
    BY DEF PlainStep, CallsTool, LoopEnds, Authorize, AskTooLate, ToolReturns, consent
  <2>2. /\ answer' \in [Runs -> {"none", "deny", "allow", "session"}]
        /\ asks' \subseteq Runs /\ tool' \in [Runs -> Tools] /\ allowed' \subseteq Sess \X Tools \X Runs
    BY <1>0, <2>1 DEF Inv, TypeOK
  <2>. QED BY <1>0, <1>4, <2>2, LoopTyped
<1>. QED BY <1>4, <1>5, <1>6 DEF Inv

(* The steps of an ask; they leave the other runs' asks alone.             *)
LEMMA AskStepKeeps ==
    ASSUME Inv, NEW r \in Runs, pc[r] \in InLoop, NEW next \in InLoop, pc' = [pc EXCEPT ![r] = next],
           UNCHANGED stay,
           pending' = {q \in Runs : pc'[q] \in {"show", "wait"}},
           answer' \in [Runs -> {"none", "deny", "allow", "session"}], asks' \subseteq Runs,
           \A q \in Runs : q # r => answer'[q] = answer[q] /\ (q \in asks' <=> q \in asks),
           UNCHANGED <<tool, allowed>>,
           /\ r \in asks' => next = "wait" \/ Outlives(r)
           /\ answer'[r] # "none" => next \in {"show", "wait"}
           /\ answer'[r] # "none" /\ (next = "show" \/ r \in asks') => Outlives(r)
    PROVE  Inv'
<1>1. /\ pc' \in [Runs -> Places] /\ pc'[r] = next /\ \A q \in Runs : q # r => pc'[q] = pc[q]
  BY DEF Inv, TypeOK, Places
<1>2. TypeOK'
  <2>1. tool' \in [Runs -> Tools] /\ allowed' \subseteq Sess \X Tools \X Runs
    BY DEF Inv, TypeOK
  <2>. QED BY <1>1, <2>1, LoopTyped
<1>3. Core'
  BY CoreInLoop
<1>4. UNCHANGED <<convs, runs, of, sess, ending, joining, settled, allowed>>
  BY DEF stay, service, dispose
<1>5. Begun'
  <2>1. r <= runs
    <3>1. pc[r] # "none"
      BY DEF InLoop
    <3>. QED BY <3>1 DEF Inv, Core, Numbered
  <2>2. settled \subseteq Runs /\ r \notin settled
    BY DEF Inv, TypeOK, ConsentInv, Begun, InLoop
  <2>. QED BY <1>1, <1>4, <2>1, <2>2 DEF Inv, ConsentInv, Begun
<1>7. GrantsForgotten' /\ Belongs' /\ (Patient => JoinedFirst')
  BY <1>4 DEF Inv, ConsentInv, GrantsForgotten, Belongs, JoinedFirst
<1>6. Asks'
  <2>1. ASSUME NEW q \in Runs
        PROVE  /\ q \in asks' => pc'[q] = "wait" \/ Outlives(q)
               /\ answer'[q] # "none" => pc'[q] \in {"show", "wait"}
               /\ answer'[q] # "none" /\ (pc'[q] = "show" \/ q \in asks') => Outlives(q)
    <3>1. CASE q = r
      BY <1>1, <2>1, <3>1
    <3>2. CASE q # r
      BY <1>1, <3>2 DEF Inv, ConsentInv, Asks
    <3>. QED BY <3>1, <3>2
  <2>. QED BY <1>4, <2>1 DEF Asks, Outlives
<1>. QED BY <1>2, <1>3, <1>5, <1>6, <1>7 DEF Inv, ConsentInv

LEMMA AskFacts ==
    ASSUME Inv
    PROVE  /\ pc \in [Runs -> Places] /\ pending = {q \in Runs : pc[q] \in {"show", "wait"}}
           /\ answer \in [Runs -> {"none", "deny", "allow", "session"}] /\ asks \subseteq Runs
           /\ \A r \in Runs :
                /\ r \in asks => pc[r] = "wait" \/ Outlives(r)
                /\ answer[r] # "none" => pc[r] \in {"show", "wait"}
                /\ answer[r] # "none" /\ (pc[r] = "show" \/ r \in asks) => Outlives(r)
BY DEF Inv, TypeOK, ConsentInv, Asks

LEMMA AskKeeps ==
    ASSUME Inv, NEW r \in Runs, Ask(r)
    PROVE  Inv'
<1>1. /\ pc[r] = "ask" /\ pc' = [pc EXCEPT ![r] = "show"] /\ pending' = pending \cup {r}
      /\ UNCHANGED <<stay, answer, asks, tool, allowed>>
  BY DEF Ask, At
<1>2. pending' = {q \in Runs : pc'[q] \in {"show", "wait"}}
  BY <1>1, AskFacts
<1>3. "show" \in InLoop /\ pc[r] \in InLoop
  BY <1>1 DEF InLoop
<1>. QED BY <1>1, <1>2, <1>3, AskFacts, AskStepKeeps

LEMMA ShowKeeps ==
    ASSUME Inv, NEW r \in Runs, Show(r)
    PROVE  Inv'
<1>1. /\ pc[r] = "show" /\ pc' = [pc EXCEPT ![r] = "wait"] /\ asks' = asks \cup {r}
      /\ UNCHANGED <<stay, pending, answer, tool, allowed>>
  BY DEF Show, At
<1>2. pending' = {q \in Runs : pc'[q] \in {"show", "wait"}}
  BY <1>1, AskFacts
<1>3. "wait" \in InLoop /\ pc[r] \in InLoop
  BY <1>1 DEF InLoop
<1>. QED BY <1>1, <1>2, <1>3, AskFacts, AskStepKeeps

(* The ask is over: the prompt is answered, or withdrawn.                  *)
LEMMA AskEndKeeps ==
    ASSUME Inv, NEW r \in Runs, Decided(r) \/ GivesUp(r)
    PROVE  Inv'
<1>1. /\ pc[r] = "wait" /\ pending' = pending \ {r} /\ answer' = [answer EXCEPT ![r] = "none"]
      /\ UNCHANGED <<stay, tool, allowed>>
      /\ asks' = asks \/ asks' = asks \ {r}
      /\ asks' = asks => answer[r] # "none" \/ r \notin asks
  BY DEF Decided, GivesUp, At, AskEnds, Withdrawn
<1>2. PICK next \in {"model", "tool", "remember"} : pc' = [pc EXCEPT ![r] = next]
  BY DEF Decided, GivesUp, At
<1>3. next \in InLoop /\ pc[r] \in InLoop
  BY <1>1 DEF InLoop
<1>4. pending' = {q \in Runs : pc'[q] \in {"show", "wait"}}
  BY <1>1, <1>2, AskFacts
<1>5. /\ answer' \in [Runs -> {"none", "deny", "allow", "session"}] /\ asks' \subseteq Runs
      /\ answer'[r] = "none" /\ \A q \in Runs : q # r => answer'[q] = answer[q] /\ (q \in asks' <=> q \in asks)
  BY <1>1, AskFacts
<1>6. r \in asks' => Outlives(r)
  BY <1>1, AskFacts
<1>. QED BY <1>1, <1>2, <1>3, <1>4, <1>5, <1>6, AskStepKeeps

LEMMA RememberKeeps ==
    ASSUME Inv, NEW r \in Runs, Remember(r)
    PROVE  Inv'
<1>1. /\ pc[r] = "remember" /\ pc' = [pc EXCEPT ![r] = "tool"] /\ allowed' = allowed \cup {<<sess[r], tool[r], r>>}
      /\ UNCHANGED <<stay, pending, answer, asks, tool>>
  BY DEF Remember, At
<1>2. UNCHANGED <<convs, runs, of, sess, ending, joining, settled, pending, answer, asks>>
  BY <1>1 DEF stay, service, dispose
<1>3. "tool" \in InLoop /\ pc[r] \in InLoop
  BY <1>1 DEF InLoop
<1>4. /\ pc' \in [Runs -> Places] /\ \A q \in Runs : q # r => pc'[q] = pc[q]
      /\ pc'[r] = "tool" /\ pending' = {q \in Runs : pc'[q] \in {"show", "wait"}}
  BY <1>1, AskFacts, <1>3 DEF Places
<1>5. sess[r] \in Sess /\ r <= runs /\ r \in 1 .. runs
  <2>1. sess[r] \in Sess /\ runs \in Nat
    BY BoundsAssumption DEF Inv, TypeOK
  <2>2. r <= runs /\ r \in Nat /\ r >= 1
    BY <1>1, BoundsAssumption DEF Inv, Core, Numbered, Runs
  <2>. QED BY <2>1, <2>2
<1>6. TypeOK'
  <2>1. /\ answer' \in [Runs -> {"none", "deny", "allow", "session"}] /\ asks' \subseteq Runs
        /\ tool' \in [Runs -> Tools] /\ allowed' \subseteq Sess \X Tools \X Runs
    BY <1>1, <1>5 DEF Inv, TypeOK
  <2>. QED BY <1>1, <1>4, <2>1, LoopTyped
<1>7. Core'
  BY <1>1, <1>3, CoreInLoop
<1>10. settled \subseteq Runs /\ r \notin settled
  BY <1>1 DEF Inv, TypeOK, ConsentInv, Begun
<1>8. Begun'
  <2>1. ASSUME NEW g \in allowed' PROVE g[3] <= runs /\ sess[g[3]] = g[1]
    BY <1>1, <1>5 DEF Inv, ConsentInv, Begun
  <2>2. \A q \in settled : q <= runs /\ pc'[q] = "returned"
    BY <1>4, <1>10 DEF Inv, ConsentInv, Begun
  <2>. QED BY <1>2, <2>1, <2>2 DEF Inv, ConsentInv, Begun
<1>9. Asks'
  <2>1. ASSUME NEW q \in Runs
        PROVE  /\ q \in asks => pc'[q] = "wait" \/ Outlives(q)
               /\ answer[q] # "none" => pc'[q] \in {"show", "wait"}
               /\ answer[q] # "none" /\ (pc'[q] = "show" \/ q \in asks) => Outlives(q)
    BY <1>1, <1>4, AskFacts
  <2>. QED BY <1>2, <2>1 DEF Asks, Outlives
<1>11. GrantsForgotten'
  BY <1>1, <1>2, <1>10 DEF Inv, ConsentInv, GrantsForgotten
<1>12. Belongs' /\ (Patient => JoinedFirst')
  BY <1>2 DEF Inv, ConsentInv, Belongs, JoinedFirst
<1>. QED BY <1>6, <1>7, <1>8, <1>9, <1>11, <1>12 DEF Inv, ConsentInv

LEMMA DecideKeeps ==
    ASSUME Inv, NEW r \in Runs, NEW d \in {"deny", "allow", "session"}, Decide(r, d)
    PROVE  Inv'
<1>1. /\ r \in asks /\ asks' = asks \ {r}
      /\ answer' = IF r \in pending /\ answer[r] = "none" THEN [answer EXCEPT ![r] = d] ELSE answer
      /\ UNCHANGED <<service, run, cancels, pending, tool, allowed, dispose>>
  BY DEF Decide
<1>2. UNCHANGED coreVars /\ UNCHANGED <<convs, runs, of, sess, pc, ending, joining, settled, allowed, pending>>
  BY <1>1 DEF service, run, dispose, coreVars
<1>3. /\ answer' \in [Runs -> {"none", "deny", "allow", "session"}] /\ asks' \subseteq Runs
      /\ \A q \in Runs : q # r => answer'[q] = answer[q]
      /\ answer'[r] # answer[r] => r \in pending
  BY <1>1, AskFacts
<1>4. TypeOK'
  BY <1>1, <1>3 DEF Inv, TypeOK, service, run, cancels, dispose
<1>5. Core'
  BY <1>2, CoreStays DEF Inv
<1>6. Begun' /\ GrantsForgotten' /\ Belongs' /\ (Patient => JoinedFirst')
  BY <1>1, <1>2 DEF Inv, ConsentInv, Begun, GrantsForgotten, Belongs, JoinedFirst
<1>7. Asks'
  <2>1. ASSUME NEW q \in Runs
        PROVE  /\ q \in asks' => pc[q] = "wait" \/ Outlives(q)
               /\ answer'[q] # "none" => pc[q] \in {"show", "wait"}
               /\ answer'[q] # "none" /\ (pc[q] = "show" \/ q \in asks') => Outlives(q)
    <3>1. CASE q # r
      BY <1>1, <1>3, <3>1, AskFacts
    <3>2. CASE q = r
      <4>1. answer'[r] # "none" => pc[r] \in {"show", "wait"}
        BY <1>3, AskFacts
      <4>2. r \notin asks' /\ (pc[r] = "show" => Outlives(r))
        BY <1>1, AskFacts
      <4>. QED BY <3>2, <4>1, <4>2
    <3>. QED BY <3>1, <3>2
  <2>. QED BY <1>2, <2>1 DEF Asks, Outlives
<1>. QED BY <1>4, <1>5, <1>6, <1>7 DEF Inv, ConsentInv

LEMMA Numbers ==
    ASSUME Inv
    PROVE  /\ runs \in Nat /\ made \in Nat /\ Runs = 1 .. MaxRuns /\ Convs = 1 .. MaxConvs /\ MaxRuns \in Nat /\ MaxConvs \in Nat
           /\ runs <= MaxRuns /\ made <= MaxConvs
           /\ \A r \in 1 .. runs : r \in Runs /\ of[r] \in 1 .. made /\ of[r] \in Convs /\ pc[r] # "none"
           /\ \A r \in Runs : pc[r] # "none" => r \in 1 .. runs
           /\ \A r \in Runs : r \notin 1 .. runs => of[r] = 0
<1>1. /\ runs \in Nat /\ made \in Nat /\ Runs = 1 .. MaxRuns /\ Convs = 1 .. MaxConvs /\ MaxRuns \in Nat /\ MaxConvs \in Nat
      /\ runs <= MaxRuns /\ made <= MaxConvs
  BY BoundsAssumption DEF Inv, TypeOK, Runs, Convs
<1>2. \A r \in Runs : IF r <= runs THEN pc[r] # "none" /\ of[r] \in 1 .. made
                                    ELSE pc[r] = "none" /\ of[r] = 0
  BY DEF Inv, Core, Numbered
<1>. QED BY <1>1, <1>2

LEMMA ChannelFacts ==
    ASSUME Inv
    PROVE  /\ closing \in [Runs -> 0 .. MaxRuns]
           /\ \A r \in Runs : /\ pc[r] # "none" => doneOf[of[r]] # 0
                              /\ pc[r] = "closing" => closing[r] # 0
BY DEF Inv, TypeOK, Core, Channels

(* The end of a run.                                                       *)
LEMMA LeaveStepTyped ==
    ASSUME Inv, UNCHANGED <<convs, closed, made, doneOf, runs, of, sess, clearing, consent, dispose>>,
           pc' \in [Runs -> Places], pending' = {q \in Runs : pc'[q] \in {"show", "wait"}},
           running' \subseteq Convs, cancelOf' \in [Convs -> 0 .. MaxRuns], cancelled' \subseteq Runs,
           closing' \in [Runs -> 0 .. MaxRuns], shut' \subseteq Runs
    PROVE  TypeOK'
BY DEF Inv, TypeOK, consent, dispose

LEMMA ReleaseKeeps ==
    ASSUME Inv, NEW r \in Runs, Release(r)
    PROVE  Inv'
<1>1. /\ pc[r] = "folded" /\ pc' = [pc EXCEPT ![r] = "leaving"]
      /\ UNCHANGED <<convs, closed, made, doneOf, runs, of, sess, closing, shut, cancels, consent, dispose>>
      /\ running' \subseteq running /\ running \subseteq running' \cup {of[r]}
      /\ cancelOf' = cancelOf \/ cancelOf' = [cancelOf EXCEPT ![of[r]] = 0]
  BY DEF Release, At
<1>2. /\ pc' \in [Runs -> Places] /\ pending' = {q \in Runs : pc'[q] \in {"show", "wait"}}
      /\ ConsentInv'
  <2>1. pc[r] \notin {"show", "wait", "returned"} /\ "leaving" \in Places \ {"show", "wait"}
    BY <1>1 DEF Places, InLoop
  <2>2. UNCHANGED <<pending, answer, asks, allowed, convs, runs, of, sess, dispose>>
    BY <1>1 DEF consent, service
  <2>. QED BY <1>1, <2>1, <2>2, ConsentAside
<1>3. /\ pc'[r] = "leaving" /\ \A q \in Runs : q # r => pc'[q] = pc[q]
      /\ \A q \in Runs : pc'[q] = "none" <=> pc[q] = "none"
      /\ \A q \in Runs : pc'[q] = "returned" <=> pc[q] = "returned"
      /\ \A q \in Runs : pc'[q] = "closing" <=> pc[q] = "closing"
      /\ \A q \in Runs : pc'[q] \in InLoop => pc[q] \in InLoop /\ q # r
  <2>1. pc \in [Runs -> Places]
    BY AskFacts
  <2>2. pc'[r] = "leaving" /\ \A q \in Runs : q # r => pc'[q] = pc[q]
    BY <1>1, <2>1
  <2>. QED BY <1>1, <2>2 DEF InLoop
<1>4. TypeOK'
  <2>1. /\ running' \subseteq Convs /\ cancelOf' \in [Convs -> 0 .. MaxRuns] /\ cancelled' \subseteq Runs
        /\ closing' \in [Runs -> 0 .. MaxRuns] /\ shut' \subseteq Runs /\ clearing' = clearing
    <3>1. /\ running \subseteq Convs /\ cancelOf \in [Convs -> 0 .. MaxRuns] /\ cancelled \subseteq Runs
          /\ clearing \subseteq Runs /\ closing \in [Runs -> 0 .. MaxRuns] /\ shut \subseteq Runs /\ MaxRuns \in Nat
      BY Numbers DEF Inv, TypeOK
    <3>2. UNCHANGED <<cancelled, clearing>>
      BY <1>1 DEF cancels
    <3>. QED BY <1>1, <3>1, <3>2
  <2>. QED BY <1>1, <1>2, <2>1, LeaveStepTyped
<1>5. /\ UNCHANGED <<ending, joining, toJoin, at, joined>>
  BY <1>1 DEF dispose
<1>6. Numbered' /\ Owned'
  <2>1. Numbered'
    BY <1>1, <1>3, <1>5 DEF Inv, Core, Numbered
  <2>. QED BY <2>1, <1>1, <1>5 DEF Inv, Core, Owned, Detached
<1>7. Marked'
  <2>1. ASSUME NEW q \in Runs, pc'[q] \in InLoop PROVE of[q] \in running'
    <3>1. pc[q] \in InLoop /\ q # r
      BY <1>3, <2>1
    <3>2. of[q] \in running
      BY <3>1 DEF Inv, Core, Marked
    <3>3. q \in 1 .. runs /\ r \in 1 .. runs /\ pc[r] \in InLoop
      BY <1>1, <3>1, Numbers DEF InLoop
    <3>4. of[q] # of[r]
      BY <3>1, <3>3 DEF Inv, Core, OneLoop
    <3>. QED BY <1>1, <3>2, <3>4
  <2>. QED BY <1>1, <2>1 DEF Marked
<1>8. OneLoop' /\ Channels'
  BY <1>1, <1>3, Numbers DEF Inv, Core, OneLoop, Channels
<1>9. Patient => LastOnly' /\ Waited' /\ JoinedHaveReturned'
  <2>1. Patient => LastOnly'
    BY <1>1, <1>3, Numbers DEF Inv, Core, LastOnly
  <2>2. Patient => Waited' /\ JoinedHaveReturned'
    BY <1>1, <1>3, <1>5, Numbers DEF Inv, Core, Waited, JoinedHaveReturned, Returned
  <2>. QED BY <2>1, <2>2
<1>. QED BY <1>2, <1>4, <1>6, <1>7, <1>8, <1>9 DEF Inv, Core

LEMMA LeaveKeeps ==
    ASSUME Inv, NEW r \in Runs, Leave(r)
    PROVE  Inv'
<1>1. /\ pc[r] = "leaving" /\ pc' = [pc EXCEPT ![r] = "closing"] /\ cancelled' = cancelled \cup {r}
      /\ closing' = [closing EXCEPT ![r] = doneOf[of[r]]]
      /\ UNCHANGED <<service, runs, of, sess, shut, clearing, consent, dispose>>
  BY DEF Leave, At
<1>2. /\ pc' \in [Runs -> Places] /\ pending' = {q \in Runs : pc'[q] \in {"show", "wait"}}
      /\ ConsentInv'
  <2>1. pc[r] \notin {"show", "wait", "returned"} /\ "closing" \in Places \ {"show", "wait"}
    BY <1>1 DEF Places, InLoop
  <2>2. UNCHANGED <<pending, answer, asks, allowed, convs, runs, of, sess, dispose>>
    BY <1>1 DEF consent, service
  <2>. QED BY <1>1, <2>1, <2>2, ConsentAside
<1>3. /\ pc'[r] = "closing" /\ \A q \in Runs : q # r => pc'[q] = pc[q]
      /\ \A q \in Runs : pc'[q] = "none" <=> pc[q] = "none"
      /\ \A q \in Runs : pc'[q] = "returned" <=> pc[q] = "returned"
      /\ \A q \in Runs : pc'[q] \in InLoop <=> pc[q] \in InLoop
  <2>1. pc \in [Runs -> Places]
    BY AskFacts
  <2>2. pc'[r] = "closing" /\ \A q \in Runs : q # r => pc'[q] = pc[q]
    BY <1>1, <2>1
  <2>. QED BY <1>1, <2>2 DEF InLoop
<1>4. /\ UNCHANGED <<convs, closed, made, running, cancelOf, doneOf, ending, joining, toJoin, at, joined>>
      /\ r \in 1 .. runs /\ of[r] \in Convs /\ doneOf[of[r]] \in 0 .. MaxRuns
      /\ closing \in [Runs -> 0 .. MaxRuns]
  BY <1>1, Numbers DEF service, dispose, Inv, TypeOK
<1>5. TypeOK'
  <2>1. /\ running' \subseteq Convs /\ cancelOf' \in [Convs -> 0 .. MaxRuns] /\ cancelled' \subseteq Runs
        /\ closing' \in [Runs -> 0 .. MaxRuns] /\ shut' \subseteq Runs
    BY <1>1, <1>4 DEF Inv, TypeOK
  <2>. QED BY <1>1, <1>2, <1>4, <2>1, LeaveStepTyped
<1>6. Numbered' /\ Owned' /\ Marked'
  <2>1. Numbered'
    BY <1>1, <1>3, <1>4 DEF Inv, Core, Numbered
  <2>2. Owned'
    BY <1>4 DEF Inv, Core, Owned, Detached
  <2>. QED BY <2>1, <2>2, <1>1, <1>3, <1>4 DEF Inv, Core, Marked
<1>7. OneLoop' /\ Channels'
  <2>1. OneLoop'
    BY <1>1, <1>3, Numbers DEF Inv, Core, OneLoop
  <2>2. doneOf[of[r]] # 0
    BY <1>1, ChannelFacts
  <2>3. ASSUME NEW q \in Runs, pc'[q] = "closing" PROVE closing'[q] # 0
    <3>1. CASE q = r
      BY <1>1, <1>4, <2>2, <3>1
    <3>2. CASE q # r
      BY <1>1, <1>3, <2>3, <3>2, ChannelFacts
    <3>. QED BY <3>1, <3>2
  <2>. QED BY <1>1, <1>3, <1>4, <2>1, <2>3 DEF Inv, Core, Channels
<1>8. ASSUME Patient PROVE LastOnly' /\ Waited' /\ JoinedHaveReturned'
  <2>1. doneOf[of[r]] = r
    BY <1>1, <1>4, <1>8 DEF Inv, Core, LastOnly
  <2>2. \A q \in Runs : pc'[q] = "closing" => closing'[q] = q
    <3>1. ASSUME NEW q \in Runs, pc'[q] = "closing" PROVE closing'[q] = q
      <4>1. CASE q = r
        BY <1>1, <1>4, <2>1, <4>1
      <4>2. CASE q # r
        BY <1>1, <1>3, <1>4, <1>8, <3>1, <4>2 DEF Inv, Core, LastOnly
      <4>. QED BY <4>1, <4>2
    <3>. QED BY <3>1
  <2>3. LastOnly'
    BY <1>1, <1>3, <1>4, <1>8, <2>2, Numbers DEF Inv, Core, LastOnly
  <2>4. Waited' /\ JoinedHaveReturned'
    BY <1>1, <1>3, <1>4, <1>8, Numbers DEF Inv, Core, Waited, JoinedHaveReturned, Returned
  <2>. QED BY <2>3, <2>4
<1>. QED BY <1>2, <1>5, <1>6, <1>7, <1>8 DEF Inv, Core

LEMMA ReturnKeeps ==
    ASSUME Inv, NEW r \in Runs, Return(r)
    PROVE  Inv'
<1>1. /\ pc[r] = "closing" /\ pc' = [pc EXCEPT ![r] = "returned"] /\ shut' = shut \cup {closing[r]}
      /\ closing[r] \notin shut
      /\ UNCHANGED <<service, runs, of, sess, closing, cancels, consent, dispose>>
  BY DEF Return, At
<1>2. /\ pc' \in [Runs -> Places] /\ pending' = {q \in Runs : pc'[q] \in {"show", "wait"}}
      /\ ConsentInv'
  <2>1. pc[r] \notin {"show", "wait", "returned"} /\ "returned" \in Places \ {"show", "wait"}
    BY <1>1 DEF Places, InLoop
  <2>2. UNCHANGED <<pending, answer, asks, allowed, convs, runs, of, sess, dispose>>
    BY <1>1 DEF consent, service
  <2>. QED BY <1>1, <2>1, <2>2, ConsentAside
<1>3. /\ pc'[r] = "returned" /\ \A q \in Runs : q # r => pc'[q] = pc[q]
      /\ \A q \in Runs : pc'[q] = "none" <=> pc[q] = "none"
      /\ \A q \in Runs : pc'[q] \in InLoop <=> pc[q] \in InLoop
      /\ \A q \in Runs : pc'[q] = "returned" <=> pc[q] = "returned" \/ q = r
  <2>1. pc \in [Runs -> Places]
    BY AskFacts
  <2>2. pc'[r] = "returned" /\ \A q \in Runs : q # r => pc'[q] = pc[q]
    BY <1>1, <2>1
  <2>. QED BY <1>1, <2>2 DEF InLoop
<1>4. /\ UNCHANGED <<convs, closed, made, running, cancelOf, doneOf, ending, joining, toJoin, at, joined>>
      /\ r \in 1 .. runs
  BY <1>1, Numbers DEF service, dispose
<1>5. Numbered' /\ Owned' /\ Marked'
  <2>1. Numbered'
    BY <1>1, <1>3, <1>4 DEF Inv, Core, Numbered
  <2>2. Owned'
    BY <1>4 DEF Inv, Core, Owned, Detached
  <2>. QED BY <2>1, <2>2, <1>1, <1>3, <1>4 DEF Inv, Core, Marked
<1>6. OneLoop' /\ Channels'
  BY <1>1, <1>3, <1>4, Numbers DEF Inv, Core, OneLoop, Channels
<1>7. ASSUME Patient PROVE LastOnly' /\ Waited' /\ JoinedHaveReturned'
  <2>1. closing[r] = r
    BY <1>1, <1>7 DEF Inv, Core, LastOnly
  <2>2. shut' = {q \in Runs : pc'[q] = "returned"}
    BY <1>1, <1>3, <1>7, <2>1 DEF Inv, Core, LastOnly
  <2>3. \A q \in Runs : pc'[q] = "closing" => closing'[q] = q
    BY <1>1, <1>3, <1>7 DEF Inv, Core, LastOnly
  <2>4. LastOnly'
    BY <1>1, <1>3, <1>4, <1>7, <2>2, <2>3, Numbers DEF Inv, Core, LastOnly
  <2>5. Waited' /\ JoinedHaveReturned'
    BY <1>1, <1>3, <1>4, <1>7, Numbers DEF Inv, Core, Waited, JoinedHaveReturned, Returned
  <2>. QED BY <2>4, <2>5
<1>8. TypeOK'
  <2>1. closing[r] \in 0 .. MaxRuns /\ closing[r] # 0
    BY <1>1, ChannelFacts
  <2>2. closing[r] \in Runs
    BY <2>1, Numbers
  <2>3. /\ running' \subseteq Convs /\ cancelOf' \in [Convs -> 0 .. MaxRuns] /\ cancelled' \subseteq Runs
        /\ closing' \in [Runs -> 0 .. MaxRuns] /\ shut' \subseteq Runs /\ clearing' = clearing
    BY <1>1, <1>4, <2>2 DEF Inv, TypeOK, cancels
  <2>. QED BY <1>1, <1>2, <1>4, <2>3, LeaveStepTyped
<1>. QED BY <1>2, <1>5, <1>6, <1>7, <1>8 DEF Inv, Core

(* Prompts and Clear.                                                      *)
LEMMA DetachedFrom ==
    ASSUME NEW c, ~Detached(c), NEW s \in Sess
    PROVE  joining[s] # c
BY DEF Detached

LEMMA PromptKeeps ==
    ASSUME Inv, NEW s \in Sess, Prompt(s)
    PROVE  Inv'
<1>1. PICK c, r : /\ c = ConvOf(s) /\ r = runs + 1
  OBVIOUS
<1>2. /\ runs < MaxRuns /\ c \in Convs /\ c \notin running /\ (Patient => ~Lingers(c))
      /\ convs' = [convs EXCEPT ![s] = c] /\ made' = (IF convs[s] = 0 THEN made + 1 ELSE made)
      /\ running' = running \cup {c} /\ cancelOf' = [cancelOf EXCEPT ![c] = r]
      /\ doneOf' = [doneOf EXCEPT ![c] = r] /\ runs' = r
      /\ pc' = [pc EXCEPT ![r] = "model"] /\ of' = [of EXCEPT ![r] = c] /\ sess' = [sess EXCEPT ![r] = s]
      /\ UNCHANGED <<closed, closing, shut, cancels, consent, dispose>>
  BY <1>1 DEF Prompt, Free, DoneMade
<1>3. /\ r \in Runs /\ r \in Nat /\ r = runs + 1 /\ r \notin 1 .. runs /\ of[r] = 0 /\ pc[r] = "none"
  <2>1. r \in Runs /\ r \in Nat /\ r = runs + 1 /\ r \notin 1 .. runs
    BY <1>1, <1>2, Numbers
  <2>. QED BY <2>1, Numbers
<1>4. c \in 1 .. made' /\ made' \in Nat /\ made' <= MaxConvs /\ made <= made' /\ (convs[s] = 0 => c = made + 1) /\ (convs[s] # 0 => c = convs[s])
  <2>1. made \in Nat /\ made <= MaxConvs /\ MaxConvs \in Nat /\ Convs = 1 .. MaxConvs
    BY Numbers
  <2>2. convs[s] \in 0 .. MaxConvs /\ convs[s] <= made
    BY DEF Inv, TypeOK, Core, Numbered
  <2>3. CASE convs[s] = 0
    BY <1>1, <1>2, <2>1, <2>3 DEF ConvOf
  <2>4. CASE convs[s] # 0
    BY <1>1, <1>2, <2>1, <2>2, <2>4 DEF ConvOf
  <2>. QED BY <2>3, <2>4
<1>5. /\ UNCHANGED <<pending, answer, asks, tool, allowed, ending, joining, quit, toJoin, at, joined, settled, cancelled, clearing>>
  BY <1>2 DEF consent, dispose, cancels
<1>6. /\ pc' \in [Runs -> Places] /\ pc'[r] = "model" /\ \A q \in Runs : q # r => pc'[q] = pc[q]
      /\ of' \in [Runs -> 0 .. MaxConvs] /\ of'[r] = c /\ \A q \in Runs : q # r => of'[q] = of[q]
      /\ sess' \in [Runs -> Sess] /\ \A q \in Runs : q # r => sess'[q] = sess[q]
      /\ convs' \in [Sess -> 0 .. MaxConvs] /\ convs'[s] = c /\ \A t \in Sess : t # s => convs'[t] = convs[t]
      /\ doneOf' \in [Convs -> 0 .. MaxRuns] /\ doneOf'[c] = r /\ \A d \in Convs : d # c => doneOf'[d] = doneOf[d]
      /\ cancelOf' \in [Convs -> 0 .. MaxRuns]
  <2>1. /\ pc \in [Runs -> Places] /\ of \in [Runs -> 0 .. MaxConvs] /\ sess \in [Runs -> Sess]
        /\ convs \in [Sess -> 0 .. MaxConvs] /\ doneOf \in [Convs -> 0 .. MaxRuns]
        /\ cancelOf \in [Convs -> 0 .. MaxRuns]
    BY DEF Inv, TypeOK
  <2>2. "model" \in Places /\ c \in 0 .. MaxConvs /\ r \in 0 .. MaxRuns
    BY <1>2, <1>3, Numbers DEF Places, InLoop
  <2>. QED BY <1>2, <1>3, <2>1, <2>2
<1>7. \A q \in Runs : q \in 1 .. runs' <=> q = r \/ q \in 1 .. runs
  BY <1>1, <1>2, <1>3, Numbers
<1>8. TypeOK'
  <2>1. pending' = {q \in Runs : pc'[q] \in {"show", "wait"}}
    BY <1>3, <1>5, <1>6, AskFacts
  <2>2. runs' \in 0 .. MaxRuns /\ made' \in 0 .. MaxConvs /\ running' \subseteq Convs
    <3>1. running \subseteq Convs
      BY DEF Inv, TypeOK
    <3>. QED BY <1>2, <1>3, <1>4, <3>1, Numbers
  <2>. QED BY <1>2, <1>5, <1>6, <2>1, <2>2 DEF Inv, TypeOK
<1>9. Numbered'
  <2>1. /\ running' \subseteq 1 .. made' /\ joined' \subseteq 1 .. made' /\ toJoin' \subseteq 1 .. made'
        /\ at' <= made' /\ \A t \in Sess : joining'[t] <= made'
    <3>1. /\ running \subseteq 1 .. made /\ joined \subseteq 1 .. made /\ toJoin \subseteq 1 .. made
          /\ at \in Int /\ at <= made /\ \A t \in Sess : joining[t] \in Int /\ joining[t] <= made
      BY DEF Inv, TypeOK, Core, Numbered
    <3>. QED BY <1>2, <1>4, <1>5, <3>1, Numbers
  <2>2. ASSUME NEW t \in Sess PROVE convs'[t] <= made'
    <3>1. convs[t] \in 0 .. MaxConvs /\ convs[t] <= made
      BY DEF Inv, TypeOK, Core, Numbered
    <3>2. made \in Nat /\ made' \in Nat /\ made <= made' /\ c \in Nat /\ c <= made'
      BY <1>4, Numbers
    <3>3. convs'[t] = c \/ convs'[t] = convs[t]
      BY <1>6
    <3>. QED BY <3>1, <3>2, <3>3, Numbers
  <2>3. ASSUME NEW q \in Runs
        PROVE  IF q <= runs' THEN pc'[q] # "none" /\ of'[q] \in 1 .. made' ELSE pc'[q] = "none" /\ of'[q] = 0
    <3>1. CASE q = r
      BY <1>2, <1>4, <1>6, <1>3, <3>1
    <3>2. CASE q # r
      <4>1. IF q <= runs THEN pc[q] # "none" /\ of[q] \in 1 .. made ELSE pc[q] = "none" /\ of[q] = 0
        BY DEF Inv, Core, Numbered
      <4>2. q \in Nat /\ (q <= runs' <=> q <= runs)
        BY <1>2, <1>3, <3>2, Numbers
      <4>. QED BY <1>4, <1>6, <3>2, <4>1, <4>2, Numbers
    <3>. QED BY <3>1, <3>2
  <2>. QED BY <2>1, <2>2, <2>3 DEF Numbered
<1>10. /\ \A t \in Sess : t # s => convs[t] # c
       /\ ~Detached(c)
  <2>1. CASE convs[s] # 0
    BY <1>4, <2>1 DEF Inv, Core, Owned
  <2>2. CASE convs[s] = 0
    <3>1. c = made + 1
      BY <1>4, <2>2
    <3>2. /\ joined \subseteq 1 .. made /\ toJoin \subseteq 1 .. made /\ at \in Int /\ at <= made
          /\ \A t \in Sess : joining[t] \in Int /\ joining[t] <= made /\ convs[t] \in Int /\ convs[t] <= made
      BY DEF Inv, TypeOK, Core, Numbered
    <3>. QED BY <3>1, <3>2, Numbers DEF Detached
  <2>. QED BY <2>1, <2>2
<1>11. Owned'
  <2>1. \A d : Detached(d)' <=> Detached(d)
    BY <1>5 DEF Detached
  <2>2. ASSUME NEW t \in Sess, convs'[t] # 0 PROVE ~Detached(convs'[t])
    <3>1. CASE t = s
      BY <1>6, <1>10, <3>1
    <3>2. CASE t # s
      BY <1>6, <2>2, <3>2 DEF Inv, Core, Owned
    <3>. QED BY <3>1, <3>2
  <2>3. ASSUME NEW t \in Sess, NEW u \in Sess, convs'[t] = convs'[u], convs'[t] # 0 PROVE t = u
    BY <1>6, <1>10, <2>3 DEF Inv, Core, Owned
  <2>4. \A t \in Sess : convs'[t] # 0 => ~Detached(convs[t])'
    <3>1. ASSUME NEW t \in Sess, convs'[t] # 0 PROVE ~Detached(convs[t])'
      <4>1. PICK d : d = convs'[t]
        OBVIOUS
      <4>2. ~Detached(d)'
        BY <2>1, <2>2, <3>1, <4>1
      <4>. QED BY <4>1, <4>2 DEF Detached
    <3>. QED BY <3>1
  <2>. QED BY <2>3, <2>4 DEF Owned
<1>12. \A q \in 1 .. runs : pc[q] \in InLoop => of[q] # c
  BY <1>2, Numbers DEF Inv, Core, Marked
<1>13. Marked' /\ OneLoop' /\ Channels'
  <2>1. Marked'
    <3>1. ASSUME NEW q \in Runs, pc'[q] \in InLoop PROVE of'[q] \in running'
      BY <1>2, <1>6, <3>1 DEF Inv, Core, Marked
    <3>. QED BY <3>1 DEF Marked
  <2>2. OneLoop'
    <3>1. ASSUME NEW p \in 1 .. runs', NEW q \in 1 .. runs', p # q, of'[p] = of'[q],
                 pc'[p] \in InLoop, pc'[q] \in InLoop
          PROVE  FALSE
      <4>1. p \in Runs /\ q \in Runs
        BY <1>2, <1>3, Numbers
      <4>2. CASE p # r /\ q # r
        <5>1. p \in 1 .. runs /\ q \in 1 .. runs
          BY <1>7, <4>1, <4>2
        <5>. QED BY <1>6, <3>1, <4>1, <4>2, <5>1 DEF Inv, Core, OneLoop
      <4>3. CASE p = r
        <5>1. q \in 1 .. runs /\ q # r
          BY <1>7, <3>1, <4>1, <4>3
        <5>. QED BY <1>6, <1>12, <3>1, <4>1, <4>3, <5>1
      <4>4. CASE q = r
        <5>1. p \in 1 .. runs /\ p # r
          BY <1>7, <3>1, <4>1, <4>4
        <5>. QED BY <1>6, <1>12, <3>1, <4>1, <4>4, <5>1
      <4>. QED BY <4>2, <4>3, <4>4
    <3>. QED BY <3>1 DEF OneLoop
  <2>3. Channels'
    <3>1. ASSUME NEW q \in Runs
          PROVE  /\ pc'[q] # "none" => doneOf'[of'[q]] # 0
                 /\ pc'[q] = "closing" => closing'[q] # 0
      <4>1. CASE q = r
        BY <1>3, <1>6, <4>1, Numbers
      <4>2. CASE q # r
        <5>1. pc[q] # "none" => of[q] \in Convs
          BY Numbers
        <5>2. r # 0
          BY <1>3, Numbers
        <5>. QED BY <1>2, <1>6, <4>2, <5>1, <5>2, ChannelFacts
      <4>. QED BY <4>1, <4>2
    <3>. QED BY <3>1 DEF Channels
  <2>. QED BY <2>1, <2>2, <2>3
<1>14. ASSUME Patient PROVE LastOnly' /\ Waited' /\ JoinedHaveReturned'
  <2>1. \A q \in 1 .. runs : of[q] = c => pc[q] = "returned"
    <3>1. ASSUME NEW q \in 1 .. runs, of[q] = c PROVE pc[q] = "returned"
      <4>1. pc[q] \in Places /\ pc[q] # "none" /\ pc[q] \notin InLoop
        BY <1>12, <3>1, Numbers, AskFacts
      <4>2. pc[q] \notin {"leaving", "closing"}
        BY <1>2, <1>14, <3>1 DEF Lingers
      <4>. QED BY <4>1, <4>2 DEF Places
    <3>. QED BY <3>1
  <2>2. ASSUME NEW q \in 1 .. runs', pc'[q] # "returned" PROVE doneOf'[of'[q]] = q
    <3>0. q \in Runs
      BY <1>2, <1>3, Numbers
    <3>1. CASE q = r
      BY <1>6, <3>1
    <3>2. CASE q # r
      <4>1. q \in 1 .. runs /\ of[q] \in Convs
        BY <1>7, <3>0, <3>2, Numbers
      <4>2. pc[q] # "returned" /\ of[q] # c
        BY <1>6, <2>1, <2>2, <3>0, <3>2, <4>1
      <4>3. doneOf[of[q]] = q
        BY <1>14, <4>1, <4>2 DEF Inv, Core, LastOnly
      <4>. QED BY <1>6, <3>0, <3>2, <4>1, <4>2, <4>3
    <3>. QED BY <3>1, <3>2
  <2>3. LastOnly'
    <3>1. \A q \in Runs : pc'[q] = "closing" => closing'[q] = q
      BY <1>2, <1>6, <1>14 DEF Inv, Core, LastOnly
    <3>2. shut' = {q \in Runs : pc'[q] = "returned"}
      BY <1>2, <1>3, <1>6, <1>14 DEF Inv, Core, LastOnly
    <3>. QED BY <2>2, <3>1, <3>2 DEF LastOnly
  <2>4. Waited'
    BY <1>5, <1>14 DEF Inv, Core, Waited
  <2>5. JoinedHaveReturned'
    <3>1. ASSUME NEW d \in joined, NEW q \in 1 .. runs', of'[q] = d PROVE pc'[q] = "returned"
      <4>0. q \in Runs
        BY <1>2, <1>3, Numbers
      <4>1. d # c
        BY <1>10 DEF Detached
      <4>2. q # r
        BY <1>6, <3>1, <4>1
      <4>3. q \in 1 .. runs
        BY <1>7, <4>0, <4>2
      <4>. QED BY <1>6, <1>14, <3>1, <4>0, <4>2, <4>3 DEF Inv, Core, JoinedHaveReturned, Returned
    <3>. QED BY <1>5, <3>1 DEF JoinedHaveReturned, Returned
  <2>. QED BY <2>3, <2>4, <2>5
<1>15. /\ r \notin asks /\ r \notin settled /\ (\A g \in allowed : g[3] # r) /\ runs \in Nat /\ ~(r <= runs)
       /\ asks \subseteq Runs /\ settled \subseteq Runs /\ (\A g \in allowed : g[3] \in Runs)
  <2>1. runs \in Nat /\ ~(r <= runs)
    BY <1>3, Numbers
  <2>2. asks \subseteq Runs /\ settled \subseteq Runs /\ \A g \in allowed : g[3] \in Runs
    BY DEF Inv, TypeOK
  <2>. QED BY <2>1, <2>2, <1>3 DEF Inv, ConsentInv, Begun
<1>16. Begun'
  <2>1. ASSUME NEW q \in Runs, q <= runs PROVE q <= runs'
    BY <1>2, <1>3, <2>1, Numbers
  <2>2. /\ \A q \in Runs : q \in asks => q <= runs
        /\ \A g \in allowed : g[3] <= runs /\ sess[g[3]] = g[1]
        /\ \A q \in settled : q <= runs /\ pc[q] = "returned"
    BY DEF Inv, ConsentInv, Begun
  <2>. QED BY <1>5, <1>6, <1>15, <2>1, <2>2 DEF Begun
<1>17. Asks' /\ GrantsForgotten'
  <2>1. ASSUME NEW q \in Runs
        PROVE  /\ q \in asks => pc'[q] = "wait" \/ (ending[sess'[q]] = "closed" /\ q \notin settled)
               /\ answer[q] # "none" => pc'[q] \in {"show", "wait"}
               /\ answer[q] # "none" /\ (pc'[q] = "show" \/ q \in asks)
                    => ending[sess'[q]] = "closed" /\ q \notin settled
    <3>1. CASE q = r
      <4>1. answer[r] = "none"
        BY <1>3, AskFacts
      <4>. QED BY <1>15, <3>1, <4>1
    <3>2. CASE q # r
      BY <1>6, <3>2, AskFacts DEF Outlives
    <3>. QED BY <3>1, <3>2
  <2>2. Asks'
    BY <1>5, <2>1 DEF Asks, Outlives
  <2>. QED BY <1>5, <2>2 DEF Inv, ConsentInv, GrantsForgotten
<1>18. Belongs'
  <2>1. ASSUME NEW t \in Sess, NEW q \in Runs, q <= runs', of'[q] = convs'[t] \/ of'[q] = joining[t]
        PROVE  sess'[q] = t
    <3>0. joining[t] # c
      BY <1>10, DetachedFrom
    <3>1. CASE q = r
      <4>1. of'[q] = convs'[t]
        BY <1>6, <2>1, <3>0, <3>1
      <4>2. t = s
        BY <1>6, <1>10, <3>1, <4>1
      <4>3. sess'[r] = s
        <5>1. sess \in [Runs -> Sess]
          BY DEF Inv, TypeOK
        <5>. QED BY <1>2, <1>3, <5>1
      <4>. QED BY <3>1, <4>2, <4>3
    <3>2. CASE q # r
      <4>0. q \in 1 .. runs' /\ q \in Nat
        BY <2>1, Numbers
      <4>1. q <= runs
        BY <1>3, <1>7, <3>2, <4>0, Numbers
      <4>2. of'[q] = of[q] /\ sess'[q] = sess[q]
        BY <1>6, <3>2
      <4>3. CASE of[q] = joining[t]
        BY <4>1, <4>2, <4>3 DEF Inv, ConsentInv, Belongs
      <4>4. CASE of[q] = convs'[t] /\ t # s
        BY <1>6, <4>1, <4>2, <4>4 DEF Inv, ConsentInv, Belongs
      <4>5. CASE of[q] = convs'[t] /\ t = s
        <5>1. of[q] = c /\ q \in 1 .. runs
          BY <1>6, <1>7, <3>2, <4>0, <4>5
        <5>2. of[q] \in 1 .. made
          BY <5>1, Numbers
        <5>3. convs[s] # 0
          BY <1>4, <5>1, <5>2, Numbers
        <5>4. of[q] = convs[s]
          BY <1>4, <5>1, <5>3
        <5>. QED BY <4>1, <4>2, <4>5, <5>4 DEF Inv, ConsentInv, Belongs
      <4>. QED BY <2>1, <4>2, <4>3, <4>4, <4>5
    <3>. QED BY <3>1, <3>2
  <2>. QED BY <1>5, <2>1 DEF Belongs
<1>19. Patient => JoinedFirst'
  <2>1. ASSUME Patient, NEW t \in Sess, ending[t] \in {"forgotten", "closed"},
               NEW q \in 1 .. runs', of'[q] = joining[t]
        PROVE  q \in settled
    <3>0. q \in Runs
      BY <1>2, <1>3, Numbers
    <3>1. q # r
      BY <1>6, <1>10, <2>1, DetachedFrom
    <3>2. q \in 1 .. runs
      BY <1>7, <3>0, <3>1
    <3>. QED BY <1>6, <2>1, <3>0, <3>1, <3>2 DEF Inv, ConsentInv, JoinedFirst
  <2>. QED BY <1>5, <2>1 DEF JoinedFirst
<1>20. ConsentInv'
  BY <1>16, <1>17, <1>18, <1>19 DEF ConsentInv
<1>. QED BY <1>8, <1>9, <1>11, <1>13, <1>14, <1>20 DEF Inv, Core

(* A new conversation replaces the one of the session.                     *)
LEMMA ClearKeeps ==
    ASSUME Inv, NEW s \in Sess, Clear(s)
    PROVE  Inv'
<1>1. /\ convs[s] # 0 /\ made < MaxConvs /\ convs' = [convs EXCEPT ![s] = made + 1] /\ made' = made + 1
      /\ clearing' = clearing \cup Cancel(convs[s])
      /\ UNCHANGED <<closed, running, cancelOf, doneOf, run, cancelled, consent, dispose>>
  BY DEF Clear
<1>2. /\ UNCHANGED <<runs, pc, of, sess, closing, shut, pending, answer, asks, tool, allowed, settled>>
      /\ UNCHANGED <<ending, joining, quit, toJoin, at, joined>>
  BY <1>1 DEF run, consent, dispose
<1>3. /\ convs \in [Sess -> 0 .. MaxConvs] /\ made + 1 \in 0 .. MaxConvs /\ made \in Nat
      /\ clearing \subseteq Runs /\ Cancel(convs[s]) \subseteq Runs
  <2>1. convs \in [Sess -> 0 .. MaxConvs] /\ clearing \subseteq Runs
    BY DEF Inv, TypeOK
  <2>. QED BY <1>1, <2>1, Numbers, CancelTyped DEF Inv
<1>4. /\ convs' \in [Sess -> 0 .. MaxConvs] /\ convs'[s] = made + 1
      /\ \A t \in Sess : t # s => convs'[t] = convs[t]
  BY <1>1, <1>3
<1>5. TypeOK'
  BY <1>1, <1>2, <1>3, <1>4 DEF Inv, TypeOK
<1>6. /\ running \subseteq 1 .. made /\ joined \subseteq 1 .. made /\ toJoin \subseteq 1 .. made
      /\ at \in Int /\ at <= made
      /\ \A t \in Sess : joining[t] \in Int /\ joining[t] <= made /\ convs[t] \in Int /\ convs[t] <= made
      /\ \A r \in Runs : IF r <= runs THEN pc[r] # "none" /\ of[r] \in 1 .. made ELSE pc[r] = "none" /\ of[r] = 0
  BY DEF Inv, TypeOK, Core, Numbered
<1>7. Numbered'
  BY <1>1, <1>2, <1>3, <1>4, <1>6 DEF Numbered
<1>8. Owned'
  <2>1. ~Detached(made + 1)
    BY <1>3, <1>6 DEF Detached
  <2>2. \A t, u \in Sess : convs'[t] = convs'[u] /\ convs'[t] # 0 => t = u
    BY <1>3, <1>4, <1>6 DEF Inv, Core, Owned
  <2>3. ASSUME NEW t \in Sess, convs'[t] # 0 PROVE ~Detached(convs'[t])
    <3>1. CASE t = s
      BY <1>4, <2>1, <3>1
    <3>2. CASE t # s
      BY <1>4, <2>3, <3>2 DEF Inv, Core, Owned
    <3>. QED BY <3>1, <3>2
  <2>. QED BY <1>2, <2>2, <2>3 DEF Owned, Detached
<1>9. Marked' /\ OneLoop' /\ Channels'
  BY <1>1, <1>2 DEF Inv, Core, Marked, OneLoop, Channels
<1>10. Patient => LastOnly' /\ Waited' /\ JoinedHaveReturned'
  BY <1>1, <1>2 DEF Inv, Core, LastOnly, Waited, JoinedHaveReturned, Returned
<1>11. Begun' /\ Asks' /\ GrantsForgotten' /\ (Patient => JoinedFirst')
  BY <1>2 DEF Inv, ConsentInv, Begun, Asks, Outlives, GrantsForgotten, JoinedFirst
<1>12. Belongs'
  <2>1. ASSUME NEW t \in Sess, NEW r \in Runs, r <= runs, of[r] = convs'[t]
        PROVE  sess[r] = t
    <3>1. of[r] \in 1 .. made
      BY <1>6, <2>1
    <3>2. t # s
      BY <1>3, <1>4, <2>1, <3>1
    <3>. QED BY <1>4, <2>1, <3>2 DEF Inv, ConsentInv, Belongs
  <2>. QED BY <1>2, <2>1 DEF Inv, ConsentInv, Belongs
<1>. QED BY <1>5, <1>7, <1>8, <1>9, <1>10, <1>11, <1>12 DEF Inv, Core, ConsentInv

(* A disposal takes conversations from their sessions, or goes on.         *)
LEMMA DisposalKeeps ==
    ASSUME Inv, UNCHANGED <<made, running, cancelOf, doneOf, run, clearing, consent, settled>>,
           convs' \in [Sess -> 0 .. MaxConvs], closed' \in BOOLEAN, cancelled' \subseteq Runs,
           \A s \in Sess : convs'[s] \in {convs[s], 0},
           ending' \in [Sess -> {"open", "detached", "joining", "joined", "forgotten", "closed"}],
           \A s \in Sess : ending'[s] \in {"forgotten", "closed"} <=> ending[s] \in {"forgotten", "closed"},
           \A s \in Sess : ending'[s] = "closed" <=> ending[s] = "closed",
           joining' \in [Sess -> 0 .. MaxConvs], \A s \in Sess : joining'[s] <= made,
           \A s \in Sess : joining'[s] \in {joining[s], convs[s]},
           \A s \in Sess : ending[s] # "open" => joining'[s] = joining[s],
           quit' \in {"no", "joining", "returned"}, toJoin' \subseteq 1 .. made,
           at' \in 0 .. made, joined' \subseteq 1 .. made,
           \A s \in Sess : convs'[s] # 0 => ~Detached(convs[s])',
           Patient => Waited' /\ JoinedHaveReturned'
    PROVE  Inv'
<1>1. UNCHANGED <<runs, pc, of, sess, closing, shut, pending, answer, asks, tool, allowed>>
  BY DEF run, consent
<1>2. TypeOK'
  <2>1. toJoin' \subseteq Convs /\ joined' \subseteq Convs /\ at' \in 0 .. MaxConvs
    BY Numbers
  <2>. QED BY <1>1, <2>1 DEF Inv, TypeOK
<1>3. Numbered'
  <2>1. \A s \in Sess : convs'[s] <= made
    <3>1. (\A s \in Sess : convs[s] <= made) /\ 0 <= made
      BY Numbers DEF Inv, Core, Numbered
    <3>. QED BY <3>1
  <2>2. at' <= made
    BY Numbers
  <2>. QED BY <1>1, <2>1, <2>2 DEF Inv, Core, Numbered
<1>4. Owned'
  BY DEF Inv, Core, Owned
<1>5. Marked' /\ OneLoop' /\ Channels' /\ (Patient => LastOnly')
  BY <1>1 DEF Inv, Core, Marked, OneLoop, Channels, LastOnly
<1>6. Begun' /\ GrantsForgotten'
  BY <1>1 DEF Inv, ConsentInv, Begun, GrantsForgotten
<1>7. Asks'
  <2>1. \A r \in Runs : Outlives(r) => Outlives(r)'
    <3>1. \A r \in Runs : sess[r] \in Sess
      BY DEF Inv, TypeOK
    <3>. QED BY <1>1, <3>1 DEF Outlives
  <2>. QED BY <1>1, <2>1 DEF Inv, ConsentInv, Asks
<1>8. Belongs'
  <2>1. ASSUME NEW s \in Sess, NEW r \in Runs, r <= runs, of[r] = convs'[s] \/ of[r] = joining'[s]
        PROVE  sess[r] = s
    <3>1. of[r] # 0
      BY <2>1 DEF Inv, Core, Numbered
    <3>2. of[r] = convs[s] \/ of[r] = joining[s]
      BY <2>1, <3>1
    <3>. QED BY <2>1, <3>2 DEF Inv, ConsentInv, Belongs
  <2>. QED BY <1>1, <2>1 DEF Belongs
<1>9. Patient => JoinedFirst'
  BY <1>1 DEF Inv, ConsentInv, JoinedFirst
<1>. QED BY <1>2, <1>3, <1>4, <1>5, <1>6, <1>7, <1>8, <1>9 DEF Inv, Core, ConsentInv

(* What is known before a step of a disposal.                              *)
LEMMA DisposalFacts ==
    ASSUME Inv
    PROVE  /\ convs \in [Sess -> 0 .. MaxConvs] /\ closed \in BOOLEAN /\ cancelled \subseteq Runs
           /\ ending \in [Sess -> {"open", "detached", "joining", "joined", "forgotten", "closed"}]
           /\ joining \in [Sess -> 0 .. MaxConvs] /\ quit \in {"no", "joining", "returned"}
           /\ toJoin \subseteq 1 .. made /\ joined \subseteq 1 .. made /\ at \in 0 .. made
           /\ \A s \in Sess : convs[s] <= made /\ joining[s] <= made
           /\ \A s, t \in Sess : convs[s] = convs[t] /\ convs[s] # 0 => s = t
           /\ \A s \in Sess : convs[s] # 0 => ~Detached(convs[s])
           /\ Patient => Waited /\ JoinedHaveReturned
<1>1. at \in 0 .. made
  BY Numbers DEF Inv, TypeOK, Core, Numbered
<1>. QED BY <1>1 DEF Inv, TypeOK, Core, Numbered, Owned

LEMMA SessionClosesKeeps ==
    ASSUME Inv, NEW s \in Sess, SessionCloses(s)
    PROVE  Inv'
<1>1. /\ ending[s] = "open" /\ ending' = [ending EXCEPT ![s] = "detached"]
      /\ joining' = [joining EXCEPT ![s] = convs[s]] /\ convs' = [convs EXCEPT ![s] = 0]
      /\ UNCHANGED <<closed, made, running, cancelOf, doneOf, run, cancels, consent, quit, toJoin, at, joined, settled>>
      /\ UNCHANGED <<runs, of, pc, clearing, cancelled>>
  BY DEF SessionCloses, run, cancels
<1>2. /\ convs' \in [Sess -> 0 .. MaxConvs] /\ convs'[s] = 0 /\ \A t \in Sess : t # s => convs'[t] = convs[t]
      /\ ending' \in [Sess -> {"open", "detached", "joining", "joined", "forgotten", "closed"}]
      /\ ending'[s] = "detached" /\ \A t \in Sess : t # s => ending'[t] = ending[t]
      /\ joining' \in [Sess -> 0 .. MaxConvs] /\ joining'[s] = convs[s]
      /\ \A t \in Sess : t # s => joining'[t] = joining[t]
  <2>1. 0 \in 0 .. MaxConvs
    BY Numbers
  <2>. QED BY <1>1, <2>1, DisposalFacts
<1>3. ASSUME NEW t \in Sess, convs'[t] # 0 PROVE ~Detached(convs[t])'
  <2>1. t # s /\ convs'[t] = convs[t] /\ convs[t] # 0
    BY <1>2, <1>3
  <2>2. ~Detached(convs[t]) /\ convs[t] # convs[s]
    BY <2>1, DisposalFacts
  <2>3. \A u \in Sess : joining'[u] = joining[u] \/ joining'[u] = convs[s]
    BY <1>2
  <2>. QED BY <1>1, <2>1, <2>2, <2>3 DEF Detached
<1>4. Patient => Waited' /\ JoinedHaveReturned'
  BY <1>1, <1>2, DisposalFacts DEF Waited, JoinedHaveReturned, Returned
<1>5. \A t \in Sess : /\ convs'[t] \in {convs[t], 0} /\ joining'[t] <= made
                      /\ joining'[t] \in {joining[t], convs[t]}
  BY <1>2, DisposalFacts
<1>6. \A t \in Sess : /\ ending'[t] \in {"forgotten", "closed"} <=> ending[t] \in {"forgotten", "closed"}
                      /\ ending'[t] = "closed" <=> ending[t] = "closed"
                      /\ ending[t] # "open" => joining'[t] = joining[t]
  BY <1>1, <1>2
<1>. QED BY <1>1, <1>2, <1>3, <1>4, <1>5, <1>6, DisposalFacts, DisposalKeeps

(* The channel of a conversation is closed only when all of its runs have  *)
(* returned.                                                               *)
LEMMA JoinWaits ==
    ASSUME Inv, Patient, NEW c \in Convs, CanJoin(c)
    PROVE  Returned(c)
<1>1. doneOf[c] \in shut \cup {0}
  BY Numbers DEF CanJoin
<1>2. ASSUME NEW r \in 1 .. runs, of[r] = c, pc[r] # "returned" PROVE FALSE
  <2>1. r \in Runs /\ r # 0
    BY Numbers
  <2>2. doneOf[c] = r /\ r \notin shut
    BY <1>2, <2>1 DEF Inv, Core, LastOnly
  <2>. QED BY <1>1, <2>1, <2>2
<1>. QED BY <1>2 DEF Returned

LEMMA JoinCancelsKeeps ==
    ASSUME Inv, NEW s \in Sess, JoinCancels(s)
    PROVE  Inv'
<1>1. /\ ending[s] = "detached" /\ ending' = [ending EXCEPT ![s] = "joining"]
      /\ cancelled' = cancelled \cup Cancel(joining[s])
      /\ UNCHANGED <<service, run, clearing, consent, joining, quit, toJoin, at, joined, settled>>
      /\ UNCHANGED <<convs, closed, made, running, cancelOf, doneOf, runs, of, pc>>
  BY DEF JoinCancels, service, run
<1>2. /\ ending' \in [Sess -> {"open", "detached", "joining", "joined", "forgotten", "closed"}]
      /\ ending'[s] = "joining" /\ \A t \in Sess : t # s => ending'[t] = ending[t]
  BY <1>1, DisposalFacts
<1>3. cancelled' \subseteq Runs
  BY <1>1, DisposalFacts, CancelTyped DEF Inv
<1>4. \A t \in Sess : convs'[t] # 0 => ~Detached(convs[t])'
  BY <1>1, DisposalFacts DEF Detached
<1>5. Patient => Waited' /\ JoinedHaveReturned'
  BY <1>1, <1>2, DisposalFacts DEF Waited, JoinedHaveReturned, Returned
<1>6. \A t \in Sess : /\ ending'[t] \in {"forgotten", "closed"} <=> ending[t] \in {"forgotten", "closed"}
                      /\ ending'[t] = "closed" <=> ending[t] = "closed"
  BY <1>1, <1>2
<1>. QED BY <1>1, <1>2, <1>3, <1>4, <1>5, <1>6, DisposalFacts, DisposalKeeps

LEMMA JoinedKeeps ==
    ASSUME Inv, NEW s \in Sess, Joined(s)
    PROVE  Inv'
<1>1. /\ ending[s] = "joining" /\ ending' = [ending EXCEPT ![s] = "joined"] /\ CanJoin(joining[s])
      /\ joined' = joined \cup ({joining[s]} \ {0})
      /\ UNCHANGED <<service, run, cancels, consent, joining, quit, toJoin, at, settled>>
      /\ UNCHANGED <<convs, closed, made, running, cancelOf, doneOf, runs, of, pc, clearing, cancelled>>
  BY DEF Joined, service, run, cancels
<1>2. /\ ending' \in [Sess -> {"open", "detached", "joining", "joined", "forgotten", "closed"}]
      /\ ending'[s] = "joined" /\ \A t \in Sess : t # s => ending'[t] = ending[t]
  BY <1>1, DisposalFacts
<1>3. joined' \subseteq 1 .. made /\ (joining[s] # 0 => joining[s] \in Convs)
  BY <1>1, DisposalFacts, Numbers
<1>4. \A t \in Sess : convs'[t] # 0 => ~Detached(convs[t])'
  BY <1>1, DisposalFacts DEF Detached
<1>5. ASSUME Patient PROVE Waited' /\ JoinedHaveReturned'
  <2>1. joining[s] # 0 => Returned(joining[s])
    BY <1>1, <1>3, <1>5, JoinWaits
  <2>2. JoinedHaveReturned'
    BY <1>1, <1>5, <2>1, DisposalFacts DEF JoinedHaveReturned, Returned
  <2>3. Waited'
    BY <1>1, <1>2, <1>5, DisposalFacts DEF Waited
  <2>. QED BY <2>2, <2>3
<1>6. \A t \in Sess : /\ ending'[t] \in {"forgotten", "closed"} <=> ending[t] \in {"forgotten", "closed"}
                      /\ ending'[t] = "closed" <=> ending[t] = "closed"
  BY <1>1, <1>2
<1>. QED BY <1>1, <1>2, <1>3, <1>4, <1>5, <1>6, DisposalFacts, DisposalKeeps

(* ForgetSession: the runs that were joined record no grant any more ...   *)
LEMMA ForgetGrantsKeeps ==
    ASSUME Inv, NEW s \in Sess, ForgetGrants(s)
    PROVE  Inv'
<1>1. /\ ending[s] = "joined" /\ ending' = [ending EXCEPT ![s] = "forgotten"]
      /\ allowed' = {g \in allowed : g[1] # s}
      /\ settled' = settled \cup {r \in 1 .. runs : sess[r] = s /\ pc[r] = "returned"}
      /\ UNCHANGED <<service, run, cancels, pending, answer, asks, tool, joining, quit, toJoin, at, joined>>
  BY DEF ForgetGrants, AfterJoining
<1>2. /\ UNCHANGED <<convs, closed, made, running, cancelOf, doneOf, runs, pc, of, sess, closing, shut>>
      /\ UNCHANGED <<cancelled, clearing>>
  BY <1>1 DEF service, run, cancels
<1>3. /\ ending' \in [Sess -> {"open", "detached", "joining", "joined", "forgotten", "closed"}]
      /\ ending'[s] = "forgotten" /\ \A t \in Sess : t # s => ending'[t] = ending[t]
  BY <1>1, DisposalFacts
<1>4. TypeOK'
  <2>1. settled' \subseteq Runs
    <3>1. settled \subseteq Runs
      BY DEF Inv, TypeOK
    <3>. QED BY <1>1, <3>1, Numbers
  <2>2. allowed' \subseteq Sess \X Tools \X Runs
    BY <1>1 DEF Inv, TypeOK
  <2>. QED BY <1>1, <1>2, <1>3, <2>1, <2>2 DEF Inv, TypeOK
<1>5. Core'
  <2>1. Numbered' /\ Owned' /\ Marked' /\ OneLoop' /\ Channels'
    BY <1>1, <1>2 DEF Inv, Core, Numbered, Owned, Detached, Marked, OneLoop, Channels
  <2>2. Patient => LastOnly' /\ JoinedHaveReturned'
    BY <1>1, <1>2 DEF Inv, Core, LastOnly, JoinedHaveReturned, Returned
  <2>3. Patient => Waited'
    BY <1>1, <1>3, DisposalFacts DEF Waited
  <2>. QED BY <2>1, <2>2, <2>3 DEF Core
<1>6. Begun'
  <2>1. ASSUME NEW r \in settled' PROVE r <= runs /\ pc[r] = "returned"
    BY <1>1, Numbers DEF Inv, ConsentInv, Begun
  <2>. QED BY <1>1, <1>2, <2>1 DEF Inv, ConsentInv, Begun
<1>7. Asks'
  <2>1. \A r \in Runs : Outlives(r) => Outlives(r)'
    <3>1. \A r \in Runs : sess[r] \in Sess
      BY DEF Inv, TypeOK
    <3>. QED BY <1>1, <1>2, <1>3, <3>1 DEF Outlives
  <2>. QED BY <1>1, <1>2, <2>1 DEF Inv, ConsentInv, Asks
<1>8. GrantsForgotten'
  <2>1. ASSUME NEW g \in allowed' PROVE g[3] \notin settled'
    <3>1. g \in allowed /\ g[1] # s /\ sess[g[3]] = g[1] /\ g[3] \notin settled
      BY <1>1, <2>1 DEF Inv, ConsentInv, Begun, GrantsForgotten
    <3>. QED BY <1>1, <3>1
  <2>. QED BY <2>1 DEF GrantsForgotten
<1>9. Belongs'
  BY <1>1, <1>2 DEF Inv, ConsentInv, Belongs
<1>10. ASSUME Patient PROVE JoinedFirst'
  <2>1. ASSUME NEW t \in Sess, NEW r \in 1 .. runs, ending'[t] \in {"forgotten", "closed"}, of[r] = joining[t]
        PROVE  r \in settled'
    <3>1. CASE t = s
      <4>1. joining[s] \in joined
        <5>1. joining[s] \in joined \cup {0}
          BY <1>1, <1>10, DisposalFacts DEF Waited
        <5>. QED BY <2>1, <3>1, <5>1, Numbers
      <4>2. pc[r] = "returned"
        BY <1>10, <2>1, <3>1, <4>1, DisposalFacts DEF JoinedHaveReturned, Returned
      <4>3. sess[r] = s
        <5>1. r \in Runs /\ r <= runs
          BY Numbers
        <5>. QED BY <2>1, <3>1, <5>1 DEF Inv, ConsentInv, Belongs
      <4>. QED BY <1>1, <4>2, <4>3
    <3>2. CASE t # s
      BY <1>1, <1>3, <1>10, <2>1, <3>2 DEF Inv, ConsentInv, JoinedFirst
    <3>. QED BY <3>1, <3>2
  <2>. QED BY <1>1, <1>2, <2>1 DEF JoinedFirst
<1>. QED BY <1>4, <1>5, <1>6, <1>7, <1>8, <1>9, <1>10 DEF Inv, ConsentInv

(* ... and ask no more; whatever else of the session still asks is told    *)
(* that it may not.                                                        *)
LEMMA ForgetAsksKeeps ==
    ASSUME Inv, NEW s \in Sess, ForgetAsks(s)
    PROVE  Inv'
<1>1. PICK own : own = {r \in pending : sess[r] = s}
  OBVIOUS
<1>2. /\ ending[s] = "forgotten" /\ ending' = [ending EXCEPT ![s] = "closed"]
      /\ answer' = [r \in Runs |-> IF r \in own /\ answer[r] = "none" THEN "deny" ELSE answer[r]]
      /\ asks' = asks \ own
      /\ UNCHANGED <<service, run, cancels, pending, tool, allowed, joining, quit, toJoin, at, joined, settled>>
  BY <1>1 DEF ForgetAsks
<1>3. /\ UNCHANGED <<convs, closed, made, running, cancelOf, doneOf, runs, pc, of, sess, closing, shut>>
      /\ UNCHANGED <<cancelled, clearing>>
  BY <1>2 DEF service, run, cancels
<1>4. /\ ending' \in [Sess -> {"open", "detached", "joining", "joined", "forgotten", "closed"}]
      /\ ending'[s] = "closed" /\ \A t \in Sess : t # s => ending'[t] = ending[t]
  BY <1>2, DisposalFacts
<1>5. /\ answer' \in [Runs -> {"none", "deny", "allow", "session"}] /\ asks' \subseteq Runs
      /\ \A r \in Runs : answer'[r] = IF r \in own /\ answer[r] = "none" THEN "deny" ELSE answer[r]
      /\ \A r \in Runs : r \in own <=> pc[r] \in {"show", "wait"} /\ sess[r] = s
  BY <1>1, <1>2, AskFacts
<1>6. TypeOK'
  BY <1>2, <1>3, <1>4, <1>5 DEF Inv, TypeOK
<1>7. Core'
  <2>1. Numbered' /\ Owned' /\ Marked' /\ OneLoop' /\ Channels'
    BY <1>2, <1>3 DEF Inv, Core, Numbered, Owned, Detached, Marked, OneLoop, Channels
  <2>2. Patient => LastOnly' /\ JoinedHaveReturned'
    BY <1>2, <1>3 DEF Inv, Core, LastOnly, JoinedHaveReturned, Returned
  <2>3. Patient => Waited'
    BY <1>2, <1>4, DisposalFacts DEF Waited
  <2>. QED BY <2>1, <2>2, <2>3 DEF Core
<1>8. Begun' /\ GrantsForgotten' /\ Belongs'
  BY <1>2, <1>3 DEF Inv, ConsentInv, Begun, GrantsForgotten, Belongs
<1>9. Asks'
  <2>1. \A r \in Runs : Outlives(r) => Outlives(r)'
    <3>1. \A r \in Runs : sess[r] \in Sess
      BY DEF Inv, TypeOK
    <3>. QED BY <1>2, <1>3, <1>4, <3>1 DEF Outlives
  <2>2. ASSUME NEW r \in own PROVE Outlives(r)'
    <3>1. r \in Runs /\ pc[r] \in {"show", "wait"} /\ sess[r] = s
      BY <1>1, AskFacts
    <3>2. r \notin settled
      BY <3>1 DEF Inv, ConsentInv, Begun
    <3>. QED BY <1>2, <1>3, <1>4, <3>1, <3>2 DEF Outlives
  <2>3. ASSUME NEW r \in Runs
        PROVE  /\ r \in asks' => pc[r] = "wait" \/ Outlives(r)'
               /\ answer'[r] # "none" => pc[r] \in {"show", "wait"}
               /\ answer'[r] # "none" /\ (pc[r] = "show" \/ r \in asks') => Outlives(r)'
    BY <1>2, <1>5, <2>1, <2>2, AskFacts
  <2>. QED BY <1>3, <2>3 DEF Asks
<1>10. Patient => JoinedFirst'
  BY <1>2, <1>3, <1>4 DEF Inv, ConsentInv, JoinedFirst
<1>. QED BY <1>6, <1>7, <1>8, <1>9, <1>10 DEF Inv, ConsentInv

LEMMA DisposeAllKeeps ==
    ASSUME Inv, DisposeAll
    PROVE  Inv'
<1>1. /\ quit' = "joining" /\ closed' = TRUE /\ toJoin' = {convs[s] : s \in Sess} \ {0}
      /\ convs' = [s \in Sess |-> 0]
      /\ UNCHANGED <<made, running, cancelOf, doneOf, run, cancels, consent, ending, joining, at, joined, settled>>
      /\ UNCHANGED <<runs, of, pc, clearing, cancelled>>
  BY DEF DisposeAll, run, cancels
<1>2. /\ convs' \in [Sess -> 0 .. MaxConvs] /\ \A t \in Sess : convs'[t] = 0
      /\ toJoin' \subseteq 1 .. made
  <2>1. 0 \in 0 .. MaxConvs
    BY Numbers
  <2>. QED BY <1>1, <2>1, DisposalFacts, Numbers
<1>3. Patient => Waited' /\ JoinedHaveReturned'
  BY <1>1, DisposalFacts DEF Waited, JoinedHaveReturned, Returned
<1>. QED BY <1>1, <1>2, <1>3, DisposalFacts, DisposalKeeps

LEMMA CancelNextKeeps ==
    ASSUME Inv, NEW c \in Convs, CancelNext(c)
    PROVE  Inv'
<1>1. /\ at = 0 /\ c \in toJoin /\ at' = c /\ toJoin' = toJoin \ {c} /\ cancelled' = cancelled \cup Cancel(c)
      /\ UNCHANGED <<service, run, clearing, consent, ending, joining, quit, joined, settled>>
      /\ UNCHANGED <<convs, closed, made, running, cancelOf, doneOf, runs, of, pc>>
  BY DEF CancelNext, service, run
<1>2. at' \in 0 .. made /\ c \in 0 .. MaxConvs
  BY <1>1, DisposalFacts, Numbers
<1>3. cancelled' \subseteq Runs
  BY <1>1, <1>2, DisposalFacts, CancelTyped DEF Inv
<1>4. \A t \in Sess : convs'[t] # 0 => ~Detached(convs[t])'
  BY <1>1, DisposalFacts DEF Detached
<1>5. Patient => Waited' /\ JoinedHaveReturned'
  BY <1>1, DisposalFacts DEF Waited, JoinedHaveReturned, Returned
<1>. QED BY <1>1, <1>2, <1>3, <1>4, <1>5, DisposalFacts, DisposalKeeps

LEMMA JoinNextKeeps ==
    ASSUME Inv, JoinNext
    PROVE  Inv'
<1>1. /\ at # 0 /\ CanJoin(at) /\ at' = 0 /\ joined' = joined \cup {at}
      /\ UNCHANGED <<service, run, cancels, consent, ending, joining, quit, toJoin, settled>>
      /\ UNCHANGED <<convs, closed, made, running, cancelOf, doneOf, runs, of, pc, clearing, cancelled>>
  BY DEF JoinNext, service, run, cancels
<1>2. at' \in 0 .. made /\ joined' \subseteq 1 .. made /\ at \in Convs
  BY <1>1, DisposalFacts, Numbers
<1>3. \A t \in Sess : convs'[t] # 0 => ~Detached(convs[t])'
  BY <1>1, DisposalFacts DEF Detached
<1>4. Patient => Waited' /\ JoinedHaveReturned'
  <2>1. Patient => Returned(at)
    BY <1>1, <1>2, JoinWaits
  <2>. QED BY <1>1, <2>1, DisposalFacts DEF Waited, JoinedHaveReturned, Returned
<1>. QED BY <1>1, <1>2, <1>3, <1>4, DisposalFacts, DisposalKeeps

LEMMA DisposeAllReturnsKeeps ==
    ASSUME Inv, DisposeAllReturns
    PROVE  Inv'
<1>1. /\ quit' = "returned"
      /\ UNCHANGED <<service, run, cancels, consent, ending, joining, toJoin, at, joined, settled>>
      /\ UNCHANGED <<convs, closed, made, running, cancelOf, doneOf, runs, of, pc, clearing, cancelled>>
  BY DEF DisposeAllReturns, service, run, cancels
<1>2. \A t \in Sess : convs'[t] # 0 => ~Detached(convs[t])'
  BY <1>1, DisposalFacts DEF Detached
<1>3. Patient => Waited' /\ JoinedHaveReturned'
  BY <1>1, DisposalFacts DEF Waited, JoinedHaveReturned, Returned
<1>. QED BY <1>1, <1>2, <1>3, DisposalFacts, DisposalKeeps

LEMMA Initial ==
    ASSUME Init
    PROVE  Inv
<1>1. MaxRuns \in Nat /\ MaxConvs \in Nat /\ Runs = 1 .. MaxRuns /\ Convs = 1 .. MaxConvs
  BY BoundsAssumption DEF Runs, Convs
<1>2. TypeOK
  <2>1. 0 \in 0 .. MaxRuns /\ 0 \in 0 .. MaxConvs
    BY <1>1
  <2>2. (CHOOSE t \in Tools : TRUE) \in Tools
    BY ToolsAssumption
  <2>. QED BY <2>1, <2>2 DEF Init, TypeOK, Places
<1>3. Numbered /\ Owned /\ Marked /\ OneLoop /\ Channels
  BY <1>1 DEF Init, Numbered, Owned, Detached, Marked, OneLoop, Channels, InLoop
<1>4. LastOnly /\ Waited /\ JoinedHaveReturned
  BY <1>1 DEF Init, LastOnly, Waited, JoinedHaveReturned
<1>5. Begun /\ Asks /\ GrantsForgotten
  BY DEF Init, Begun, Asks, GrantsForgotten
<1>6. Belongs /\ JoinedFirst
  BY <1>1 DEF Init, Belongs, JoinedFirst
<1>. QED BY <1>2, <1>3, <1>4, <1>5, <1>6 DEF Inv, Core, ConsentInv

LEMMA Stays ==
    ASSUME Inv, Next
    PROVE  Inv'
<1>1. ASSUME NEW s \in Sess, Prompt(s) \/ Abort(s) \/ Clear(s) \/ SessionCloses(s) \/ SessionEnds(s) PROVE Inv'
  BY <1>1, PromptKeeps, AbortKeeps, ClearKeeps, SessionClosesKeeps, JoinCancelsKeeps, JoinedKeeps,
     ForgetGrantsKeeps, ForgetAsksKeeps DEF SessionEnds
<1>2. ASSUME NEW r \in Runs, RunStep(r) PROVE Inv'
  BY <1>2, PlainKeeps, AskKeeps, ShowKeeps, AskEndKeeps, RememberKeeps, ReleaseKeeps, LeaveKeeps, ReturnKeeps
     DEF RunStep, PlainStep
<1>3. ASSUME NEW r \in Runs, ClearCancels(r) \/ \E d \in {"deny", "allow", "session"} : Decide(r, d) PROVE Inv'
  BY <1>3, ClearCancelsKeeps, DecideKeeps
<1>4. CASE DisposeAll \/ QuitStep
  BY <1>4, DisposeAllKeeps, CancelNextKeeps, JoinNextKeeps, DisposeAllReturnsKeeps DEF QuitStep
<1>. QED BY <1>1, <1>2, <1>3, <1>4 DEF Next

LEMMA Stutters ==
    ASSUME Inv, UNCHANGED vars
    PROVE  Inv'
<1>1. UNCHANGED <<service, run, consent, dispose, cancelled, clearing>>
  BY DEF vars, cancels
<1>2. cancelled \subseteq Runs /\ clearing \subseteq Runs
  BY DEF Inv, TypeOK
<1>. QED BY <1>1, <1>2, CancelKeeps

(* The inductive invariant of the assistant, of its service as well as of  *)
(* the consent gate.                                                       *)
THEOREM Invariant == Spec => []Inv
<1>1. Init => Inv
  BY Initial
<1>2. Inv /\ [Next]_vars => Inv'
  BY Stays, Stutters
<1>. QED BY <1>1, <1>2, PTL DEF Spec

(* Two loops never work on one conversation, whatever prompts, clears and  *)
(* disposals come, and when (agent.go, Prompt and the end of run).         *)
THEOREM LoopsAreAlone == Spec => []OneLoop
<1>1. Inv => OneLoop
  BY DEF Inv, Core
<1>. QED BY <1>1, Invariant, PTL

(* When a disposal has joined a conversation all its runs have returned,   *)
(* as long as no prompt comes in before the last run has returned          *)
(* (joinRun, Dispose and DisposeAll).                                      *)
THEOREM JoinsAreComplete == Spec => [](Patient => JoinedHaveReturned)
<1>1. Inv => (Patient => JoinedHaveReturned)
  BY DEF Inv, Core
<1>. QED BY <1>1, Invariant, PTL

(* Consent is asked for and remembered no longer than the session lasts    *)
(* (permission.Service and ChannelGate, disposed by app.disposeSession),   *)
(* by every run that is over when the session's grants are forgotten; and, *)
(* as long as no prompt comes in before the last run has returned, every   *)
(* run of the conversation that the end joins is.  A run that a Clear or   *)
(* the shutdown had detached before may still ask, and record a grant.     *)
THEOREM ConsentEnds == Spec => []ConsentSound
<1>1. Inv => ConsentSound
  <2>1. ASSUME Inv, NEW r \in asks
        PROVE  pc[r] = "wait" \/ Outlives(r)
    BY <2>1, AskFacts
  <2>. QED BY <2>1 DEF Inv, ConsentInv, ConsentSound, NoDanglingAsk
<1>. QED BY <1>1, Invariant, PTL

================================================================================
