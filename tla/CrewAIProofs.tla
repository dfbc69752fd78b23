---------------------------- MODULE CrewAIProofs ----------------------------
(***************************************************************************)
(* Theorems about the CrewAI hooks and their executor around the calls of a  *)
(* crew's agents, for any agents, prompts, selections of hooks and severity  *)
(* policies.                                                                *)
(***************************************************************************)
EXTENDS CrewAIHooks, ExecutorProofs

Phases == Hook \cup {"llm", "answer", "tool", "result", "ended", "raised"}

Errors == {"none", "AgentGuardViolation", "AgentGuardHookError"}

Agents == [phase : Phases, at : {"rest", "check", "enforce"}, place : Nat, item : Item,
           error : Errors]

\* A hook that runs knows its content, and its place among n messages.
Sound(a, n) ==
  /\ a \in Agents /\ a.place <= n
  /\ a.at # "rest" => a.phase \in Hook
  /\ a.at # "rest" /\ a.phase = "before_llm_call" => a.place \in 1..n

\* A conversation begins with a prompt.
TypeInv ==
  /\ TypeOK
  /\ \A c \in Caller : Len(messages[c]) >= 1 /\ Sound(agent[c], Len(messages[c]))
-----------------------------------------------------------------------------
(* One agent moves, with its own conversation *)

LEMMA StepLeavesSettings ==
  ASSUME [Next]_vars
  PROVE  settings' = settings /\ executor' = executor /\ config' = config
<1>1. ASSUME NEW c \in Caller, CrewStep(c)
      PROVE  settings' = settings /\ executor' = executor /\ config' = config
  BY <1>1 DEF CrewStep
<1>2. ASSUME NEW c \in Caller, HookStep(c)
      PROVE  settings' = settings /\ executor' = executor /\ config' = config
  BY <1>2 DEF HookStep, EnterHook, Checked, CheckRaises, Violation, RewriteMessage,
     RewriteContext, RewriteArguments, Returns, EnforcementEnds
<1>3. ASSUME NEW c \in Caller, ExecutorStep(c)
      PROVE  settings' = settings /\ executor' = executor /\ config' = config
  BY <1>3 DEF ExecutorStep, EnforceStep, Passes, Redacts, RedactionFails, Stops, Notify,
     HandlerReturns, HandlerRaises, Done, Step
<1>4. CASE UNCHANGED vars
  BY <1>4 DEF vars
<1> QED
  BY <1>1, <1>2, <1>3, <1>4 DEF Next

LEMMA AgentMoves ==
  ASSUME TypeInv, NEW c \in Caller, NEW next, Agent(c, next)
  PROVE  /\ agent' = [d \in Caller |-> agent'[d]] /\ agent'[c] = next
         /\ \A d \in Caller : d # c => agent'[d] = agent[d]
BY DEF TypeInv, TypeOK, Agent

\* Where an agent may enter a phase.
LEMMA Entering ==
  ASSUME TypeInv, NEW c \in Caller, NEW phase, NEW item
  PROVE  /\ Enter(c, phase, item).phase = phase /\ Enter(c, phase, item).at = "rest"
         /\ Enter(c, phase, item).item = item
         /\ phase \in Phases /\ item \in Item => Sound(Enter(c, phase, item), Len(messages[c]))
<1> DEFINE next == Enter(c, phase, item)
<1>1. agent[c] \in Agents /\ Len(messages[c]) \in Nat
  BY LenProperties DEF TypeInv, TypeOK, Sound
<1>2. next = [phase |-> phase, at |-> "rest", place |-> 0, item |-> item, error |-> agent[c].error]
  <2> DEFINE resting == [agent[c] EXCEPT !.at = "rest"]
             start == [resting EXCEPT !.place = 0]
             entered == [start EXCEPT !.phase = phase]
  <2>1. next = [entered EXCEPT !.item = item]
    BY DEF Enter
  <2>2. resting \in Agents /\ resting.at = "rest" /\ resting.error = agent[c].error
    BY <1>1 DEF Agents
  <2>3. /\ start \in Agents /\ start.at = "rest" /\ start.error = agent[c].error
        /\ start.place = 0
    <3> HIDE DEF resting
    <3> QED
      BY <2>2 DEF Agents
  <2>4. entered = [phase |-> phase, at |-> "rest", place |-> 0, item |-> start.item,
                   error |-> agent[c].error]
    <3> HIDE DEF start
    <3> QED
      BY <2>3 DEF Agents
  <2> HIDE DEF entered
  <2> QED
    BY <2>1, <2>4
<1> HIDE DEF next
<1>3. next.phase = phase /\ next.at = "rest" /\ next.item = item /\ next.place = 0
  BY <1>2
<1>4. phase \in Phases /\ item \in Item => next \in Agents
  BY <1>1, <1>2 DEF Agents
<1>5. phase \in Phases /\ item \in Item => Sound(next, Len(messages[c]))
  BY <1>1, <1>3, <1>4 DEF Sound
<1> QED
  BY <1>3, <1>5 DEF next

LEMMA AfterIs ==
  /\ After["before_llm_call"] = "llm" /\ After["after_llm_call"] = "answer"
  /\ After["before_tool_call"] = "tool" /\ After["after_tool_call"] = "result"
  /\ \A h \in Hook : After[h] \in {"llm", "answer", "tool", "result"}
<1>1. ASSUME NEW h \in Hook
      PROVE  /\ h = "before_llm_call" => After[h] = "llm"
             /\ h = "after_llm_call" => After[h] = "answer"
             /\ h = "before_tool_call" => After[h] = "tool"
             /\ h = "after_tool_call" => After[h] = "result"
  BY <1>1 DEF After, Hook
<1>2. /\ "before_llm_call" \in Hook /\ "after_llm_call" \in Hook
      /\ "before_tool_call" \in Hook /\ "after_tool_call" \in Hook
  BY DEF Hook
<1> QED
  BY <1>1, <1>2 DEF Hook

Raised(c, error) == [Enter(c, "raised", Fresh) EXCEPT !.error = error]

\* Where a hook may go.
LEMMA Hooking ==
  ASSUME TypeInv, NEW c \in Caller
  PROVE  /\ \A place \in 1..Len(messages[c]) :
              /\ Scan(c, place).at = "check" /\ Scan(c, place).place = place
              /\ Scan(c, place).phase = agent[c].phase /\ Scan(c, place).item = messages[c][place]
              /\ agent[c].phase \in Hook => Sound(Scan(c, place), Len(messages[c]))
         /\ \A error \in Errors :
              /\ Raised(c, error).phase = "raised" /\ Raised(c, error).at = "rest"
              /\ Raised(c, error).item = Fresh /\ Sound(Raised(c, error), Len(messages[c]))
<1>1. /\ agent[c] \in Agents /\ messages[c] \in Seq(Item) /\ Len(messages[c]) \in Nat
      /\ \A i \in 1..Len(messages[c]) : messages[c][i] \in Item
  BY LenProperties, ElementOfSeq DEF TypeInv, TypeOK, Sound
<1>2. ASSUME NEW place \in 1..Len(messages[c])
      PROVE  /\ Scan(c, place).at = "check" /\ Scan(c, place).place = place
             /\ Scan(c, place).phase = agent[c].phase /\ Scan(c, place).item = messages[c][place]
             /\ agent[c].phase \in Hook => Sound(Scan(c, place), Len(messages[c]))
  <2> DEFINE checking == [agent[c] EXCEPT !.at = "check"]
             there == [checking EXCEPT !.place = place]
             scan == [there EXCEPT !.item = messages[c][place]]
  <2>1. checking \in Agents /\ checking.at = "check" /\ checking.phase = agent[c].phase
    BY <1>1 DEF Agents
  <2>2. /\ there \in Agents /\ there.at = "check" /\ there.phase = agent[c].phase
        /\ there.place = place
    <3> HIDE DEF checking
    <3> QED
      BY <1>1, <2>1 DEF Agents
  <2>3. /\ scan \in Agents /\ scan.at = "check" /\ scan.phase = agent[c].phase
        /\ scan.place = place /\ scan.item = messages[c][place]
    <3> HIDE DEF there
    <3> QED
      BY <1>1, <2>2 DEF Agents
  <2>4. Scan(c, place) = scan
    BY DEF Scan
  <2> HIDE DEF scan
  <2> QED
    BY <1>1, <2>3, <2>4 DEF Sound
<1>3. ASSUME NEW error \in Errors
      PROVE  /\ Raised(c, error).phase = "raised" /\ Raised(c, error).at = "rest"
             /\ Raised(c, error).item = Fresh /\ Sound(Raised(c, error), Len(messages[c]))
  <2> DEFINE raised == Enter(c, "raised", Fresh)
             next == [raised EXCEPT !.error = error]
  <2>1. "raised" \in Phases /\ Fresh \in Item
    BY ItemsTyped DEF Phases
  <2>2. /\ raised \in Agents /\ raised.phase = "raised" /\ raised.at = "rest"
        /\ raised.item = Fresh /\ raised.place <= Len(messages[c])
    BY <2>1, Entering DEF Sound
  <2> HIDE DEF raised
  <2>3. /\ next.phase = "raised" /\ next.at = "rest" /\ next.item = Fresh
        /\ next.place = raised.place /\ next \in Agents
    BY <2>2 DEF Agents
  <2> HIDE DEF next
  <2>4. Sound(next, Len(messages[c]))
    BY <2>2, <2>3 DEF Sound
  <2> QED
    BY <2>3, <2>4 DEF next, raised, Raised
<1> QED
  BY <1>2, <1>3

\* The agent adds to its conversation what it has in hand.
LEMMA Says ==
  ASSUME TypeInv, NEW c \in Caller, Say(c)
  PROVE  /\ messages' \in [Caller -> Seq(Item)] /\ Len(messages'[c]) = Len(messages[c]) + 1
         /\ \A i \in 1..Len(messages[c]) : messages'[c][i] = messages[c][i]
         /\ messages'[c][Len(messages[c]) + 1] = agent[c].item
         /\ \A d \in Caller : d # c => messages'[d] = messages[d]
<1>1. messages \in [Caller -> Seq(Item)] /\ messages[c] \in Seq(Item) /\ agent[c].item \in Item
  BY DEF TypeInv, TypeOK, Sound, Agents
<1> DEFINE longer == Append(messages[c], agent[c].item)
<1>2. /\ longer \in Seq(Item) /\ Len(longer) = Len(messages[c]) + 1
      /\ \A i \in 1..Len(messages[c]) : longer[i] = messages[c][i]
      /\ longer[Len(messages[c]) + 1] = agent[c].item
  BY <1>1, AppendProperties
<1>3. messages' = [messages EXCEPT ![c] = longer]
  BY DEF Say
<1> HIDE DEF longer
<1> QED
  BY <1>1, <1>2, <1>3

LEMMA EnforcedTyped ==
  ASSUME TypeInv, NEW c \in Caller
  PROVE  /\ Enforced(c) \in Item /\ Enforced(c).verdict = agent[c].item.verdict
         /\ work[c].result = "redacted" => Enforced(c).text = "masked"
         /\ \A item \in Written(c) : item \in Item /\ item.verdict = agent[c].item.verdict
<1>1. agent[c].item \in Item
  BY DEF TypeInv, TypeOK, Sound, Agents
<1>2. Enforced(c) \in Item /\ Enforced(c).verdict = agent[c].item.verdict
  BY <1>1 DEF Enforced, Item
<1>3. work[c].result = "redacted" => Enforced(c).text = "masked"
  BY <1>1 DEF Enforced, Item
<1> QED
  BY <1>1, <1>2, <1>3 DEF Written

\* before_llm_call writes the message it is at.
LEMMA Rewrites ==
  ASSUME TypeInv, NEW c \in Caller, RewriteMessage(c)
  PROVE  /\ messages' \in [Caller -> Seq(Item)] /\ Len(messages'[c]) = Len(messages[c])
         /\ agent[c].phase = "before_llm_call" /\ agent[c].at = "enforce"
         /\ agent[c].place \in 1..Len(messages[c])
         /\ messages'[c][agent[c].place] \in Written(c)
         /\ \A i \in 1..Len(messages[c]) : i # agent[c].place => messages'[c][i] = messages[c][i]
         /\ \A d \in Caller : d # c => messages'[d] = messages[d]
<1> PICK item \in Written(c) : messages' = [messages EXCEPT ![c][agent[c].place] = item]
  BY DEF RewriteMessage
<1>1. messages \in [Caller -> Seq(Item)] /\ messages[c] \in Seq(Item) /\ item \in Item
  BY EnforcedTyped DEF TypeInv, TypeOK
<1>2. agent[c].phase = "before_llm_call" /\ agent[c].at = "enforce"
  BY DEF RewriteMessage, Returns, EnforcementEnds
<1>3. agent[c].place \in 1..Len(messages[c])
  BY <1>2 DEF TypeInv, Sound
<1> DEFINE place == agent[c].place
           written == [messages[c] EXCEPT ![place] = item]
<1>4. messages' = [messages EXCEPT ![c] = written]
  OBVIOUS
<1>5. /\ written \in Seq(Item) /\ Len(written) = Len(messages[c])
      /\ \A j \in 1..Len(messages[c]) : written[j] = IF j = place THEN item ELSE messages[c][j]
  <2> HIDE DEF place
  <2> QED
    BY <1>1, <1>3, ExceptSeq DEF place
<1> HIDE DEF written
<1> QED
  BY <1>1, <1>2, <1>3, <1>4, <1>5
-----------------------------------------------------------------------------
(* Every step keeps the types *)

LEMMA TypeInvFrom ==
  ASSUME TypeInv, NEW c \in Caller, NEW next, Agent(c, next), Sound(next, Len(messages[c])),
         settings' = settings, config' = config, ExecutorTypeOK',
         messages' \in [Caller -> Seq(Item)], Len(messages'[c]) >= Len(messages[c]),
         \A d \in Caller : d # c => messages'[d] = messages[d]
  PROVE  TypeInv'
<1>1. /\ agent' = [d \in Caller |-> agent'[d]] /\ agent'[c] = next
      /\ \A d \in Caller : d # c => agent'[d] = agent[d]
  BY AgentMoves
<1>2. \A d \in Caller : Len(messages[d]) \in Nat /\ Len(messages'[d]) \in Nat
  BY LenProperties DEF TypeInv, TypeOK
<1>3. Sound(next, Len(messages'[c])) /\ Len(messages'[c]) >= 1
  <2>1. Len(messages[c]) \in Nat /\ Len(messages'[c]) \in Nat /\ Len(messages[c]) >= 1
    BY <1>2 DEF TypeInv
  <2> QED
    BY <2>1 DEF Sound, Agents
<1>4. \A d \in Caller : Len(messages'[d]) >= 1 /\ Sound(agent'[d], Len(messages'[d]))
  BY <1>1, <1>3 DEF TypeInv
<1>5. agent' \in [Caller -> Agents] /\ \A d \in Caller : agent'[d].place <= Len(messages'[d])
  BY <1>1, <1>4 DEF Sound
<1>6. TypeOK'
  BY <1>5 DEF TypeOK, TypeInv, Agents, Phases, Errors
<1> QED
  BY <1>4, <1>6 DEF TypeInv

LEMMA CrewKeepsTypes ==
  ASSUME TypeInv, NEW c \in Caller, CrewStep(c)
  PROVE  TypeInv'
<1>1. /\ settings' = settings /\ executor' = executor /\ violations' = violations
      /\ work' = work /\ config' = config
  BY DEF CrewStep
<1>2. ExecutorTypeOK'
  BY <1>1 DEF TypeInv, TypeOK, ExecutorTypeOK, At
<1>3. ASSUME NEW phase \in Phases, NEW item \in Item, Agent(c, Enter(c, phase, item)),
             messages' = messages \/ Say(c)
      PROVE  TypeInv'
  <2>1. /\ messages' \in [Caller -> Seq(Item)] /\ Len(messages'[c]) >= Len(messages[c])
        /\ \A d \in Caller : d # c => messages'[d] = messages[d]
    BY <1>3, Says, LenProperties DEF TypeInv, TypeOK
  <2>2. Sound(Enter(c, phase, item), Len(messages[c]))
    BY Entering
  <2> QED
    BY <1>1, <1>2, <1>3, <2>1, <2>2, TypeInvFrom
<1>4. Fresh \in Item /\ agent[c].item \in Item
  BY ItemsTyped DEF TypeInv, Sound, Agents
<1>5. /\ \A h \in Hook : h \in Phases /\ After[h] \in Phases
      /\ "after_llm_call" \in Phases /\ "ended" \in Phases /\ "before_tool_call" \in Phases
      /\ "after_tool_call" \in Phases /\ "before_llm_call" \in Phases
  BY AfterIs DEF Phases, Hook
<1>6. CASE Unhooked(c)
  BY <1>3, <1>4, <1>5, <1>6 DEF Unhooked, Leave, Resting
<1>7. CASE LLMAnswers(c)
  BY <1>3, <1>4, <1>5, <1>7 DEF LLMAnswers
<1>8. CASE TakeAnswer(c)
  BY <1>3, <1>4, <1>5, <1>8 DEF TakeAnswer
<1>9. CASE ToolRuns(c)
  BY <1>3, <1>4, <1>5, <1>9 DEF ToolRuns
<1>10. CASE TakeResult(c)
  BY <1>3, <1>4, <1>5, <1>10 DEF TakeResult
<1> QED
  BY <1>6, <1>7, <1>8, <1>9, <1>10 DEF CrewStep

\* The hook begins with the first or the latest message, or with what is in hand.
LEMMA Begins ==
  ASSUME TypeInv, NEW c \in Caller, EnterHook(c)
  PROVE  \E next :
           /\ Agent(c, next) /\ Sound(next, Len(messages[c]))
           /\ next.at = "check" /\ next.phase = agent[c].phase /\ agent[c].at = "rest"
           /\ next.phase = "before_llm_call" =>
                /\ next.place = IF config.all THEN 1 ELSE Len(messages[c])
                /\ next.item = messages[c][next.place]
           /\ next.phase # "before_llm_call" => next.item = agent[c].item
<1>1. /\ agent[c] \in Agents /\ agent[c].at = "rest" /\ agent[c].phase \in config.hooks
      /\ agent[c].place <= Len(messages[c])
      /\ Len(messages[c]) \in Nat /\ Len(messages[c]) >= 1 /\ config.hooks \subseteq Hook
  BY LenProperties DEF EnterHook, Resting, TypeInv, TypeOK, Sound
<1>2. CASE agent[c].phase = "before_llm_call"
  <2> DEFINE place == IF config.all THEN 1 ELSE Len(messages[c])
  <2>1. place \in 1..Len(messages[c])
    BY <1>1
  <2>2. Agent(c, Scan(c, place))
    BY <1>2 DEF EnterHook
  <2> HIDE DEF place
  <2>3. Sound(Scan(c, place), Len(messages[c])) /\ Scan(c, place).at = "check"
        /\ Scan(c, place).phase = agent[c].phase /\ Scan(c, place).place = place
        /\ Scan(c, place).item = messages[c][place]
    BY <1>1, <2>1, Hooking
  <2> QED
    BY <1>1, <1>2, <2>2, <2>3 DEF place
<1>3. CASE agent[c].phase # "before_llm_call"
  <2> DEFINE next == [agent[c] EXCEPT !.at = "check"]
  <2>1. /\ next \in Agents /\ next.at = "check" /\ next.phase = agent[c].phase
        /\ next.item = agent[c].item /\ next.place = agent[c].place
    BY <1>1 DEF Agents
  <2>2. Agent(c, next)
    BY <1>3 DEF EnterHook
  <2> HIDE DEF next
  <2>3. Sound(next, Len(messages[c]))
    BY <1>1, <1>3, <2>1 DEF Sound
  <2> QED
    BY <1>1, <1>3, <2>1, <2>2, <2>3
<1> QED
  BY <1>2, <1>3

\* A verdict is there, and its enforcement begins.
LEMMA Judges ==
  ASSUME TypeInv, NEW c \in Caller, Checked(c)
  PROVE  \E next \in Agents, w \in Works :
           /\ Agent(c, next) /\ Sound(next, Len(messages[c]))
           /\ next.at = "enforce" /\ agent[c].at = "check" /\ next.phase = agent[c].phase
           /\ next.place = agent[c].place
           /\ work' = [work EXCEPT ![c] = w] /\ w.at = "enforce" /\ Enforces(w, next.item)
<1>1. Sound(agent[c], Len(messages[c])) /\ agent[c].at = "check" /\ agent[c] \in Agents
      /\ agent[c].item \in Item
  BY DEF TypeInv, Checked, Sound, Agents
<1>2. PICK a \in InspectAnswers(settings) :
           /\ a.outcome = "returned"
           /\ Agent(c, [agent[c] EXCEPT !.at = "enforce", !.item = Judged(agent[c].item, a)])
           /\ work' = [work EXCEPT ![c] = Enforcing(a.decision, a.detected)]
  BY DEF Checked
<1>3. a.decision \in Action /\ a.detected \in BOOLEAN
  <2>1. settings \in GuardSettings(SeverityPolicies)
    BY SettingsAssumption DEF TypeInv, TypeOK
  <2> QED
    BY <1>2, <2>1, InspectTyped
<1>4. /\ Enforcing(a.decision, a.detected) \in Works
      /\ Enforcing(a.decision, a.detected).at = "enforce"
      /\ Judged(agent[c].item, a) \in Item
      /\ Enforces(Enforcing(a.decision, a.detected), Judged(agent[c].item, a))
  BY <1>1, <1>3, EnforcingFits
<1> DEFINE enforcing == [agent[c] EXCEPT !.at = "enforce"]
           next == [enforcing EXCEPT !.item = Judged(agent[c].item, a)]
<1>5. /\ enforcing \in Agents /\ enforcing.at = "enforce" /\ enforcing.phase = agent[c].phase
      /\ enforcing.place = agent[c].place
  BY <1>1 DEF Agents
<1>6. /\ next \in Agents /\ next.at = "enforce" /\ next.phase = agent[c].phase
      /\ next.place = agent[c].place /\ next.item = Judged(agent[c].item, a)
  <2> HIDE DEF enforcing
  <2> QED
    BY <1>4, <1>5 DEF Agents
<1>7. Agent(c, next)
  BY <1>2
<1> HIDE DEF next, enforcing
<1>8. Sound(next, Len(messages[c]))
  BY <1>1, <1>6 DEF Sound
<1> QED
  BY <1>1, <1>2, <1>4, <1>6, <1>7, <1>8

\* A hook raises, goes on to the next message, or leaves what it made of the
\* content to the call it stands before or to the agent.
LEMMA HookEnds ==
  ASSUME TypeInv, NEW c \in Caller,
         CheckRaises(c) \/ Violation(c) \/ RewriteMessage(c) \/ RewriteContext(c) \/ RewriteArguments(c)
  PROVE  \E next :
           /\ Agent(c, next) /\ Sound(next, Len(messages[c]))
           /\ \/ /\ Violation(c) \/ (CheckRaises(c) /\ ~config.failOpen)
                 /\ next.phase = "raised" /\ next.at = "rest" /\ next.item = Fresh
              \/ /\ RewriteMessage(c) /\ agent[c].place < Len(messages[c])
                 /\ next.phase = "before_llm_call" /\ next.at = "check"
                 /\ next.place = agent[c].place + 1 /\ next.item = messages[c][next.place]
              \/ /\ next.phase = After[agent[c].phase] /\ next.at = "rest"
                 /\ \/ CheckRaises(c) /\ config.failOpen /\ next.item = agent[c].item
                    \/ RewriteMessage(c) /\ agent[c].place = Len(messages[c]) /\ next.item = Fresh
                    \/ /\ RewriteContext(c)
                       /\ next.item = IF config.context = "object" THEN Enforced(c) ELSE agent[c].item
                    \/ RewriteArguments(c) /\ next.item.verdict = agent[c].item.verdict
<1>1. /\ Sound(agent[c], Len(messages[c])) /\ agent[c].item \in Item
      /\ Len(messages[c]) \in Nat
  BY LenProperties DEF TypeInv, TypeOK, Sound, Agents
<1>2. agent[c].at \in {"check", "enforce"}
  BY DEF CheckRaises, Violation, RewriteMessage, RewriteContext, RewriteArguments, Returns,
     EnforcementEnds
<1>3. agent[c].phase \in Hook /\ After[agent[c].phase] \in Phases
  BY <1>1, <1>2, AfterIs DEF Sound, Phases
<1>4. ASSUME NEW item \in Item
      PROVE  /\ Sound(Leave(c, item), Len(messages[c])) /\ Leave(c, item).at = "rest"
             /\ Leave(c, item).phase = After[agent[c].phase] /\ Leave(c, item).item = item
  BY <1>3, Entering DEF Leave
<1>5. ASSUME NEW error \in Errors, Raise(c, error)
      PROVE  \E next : /\ Agent(c, next) /\ Sound(next, Len(messages[c]))
                       /\ next.phase = "raised" /\ next.at = "rest" /\ next.item = Fresh
  <2>1. Agent(c, Raised(c, error))
    BY <1>5 DEF Raise, Raised
  <2> QED
    BY <1>5, <2>1, Hooking
<1>6. CASE CheckRaises(c)
  <2>1. CASE config.failOpen
    <3>1. Agent(c, Leave(c, agent[c].item))
      BY <1>6, <2>1 DEF CheckRaises, Unexpected
    <3> QED
      BY <1>1, <1>4, <1>6, <2>1, <3>1
  <2>2. CASE ~config.failOpen
    <3>1. Raise(c, "AgentGuardHookError") /\ "AgentGuardHookError" \in Errors
      BY <1>6, <2>2 DEF CheckRaises, Unexpected, Errors
    <3> QED
      BY <1>5, <1>6, <2>2, <3>1
  <2> QED
    BY <2>1, <2>2
<1>7. CASE Violation(c)
  <2>1. Raise(c, "AgentGuardViolation") /\ "AgentGuardViolation" \in Errors
    BY <1>7 DEF Violation, Errors
  <2> QED
    BY <1>5, <1>7, <2>1
<1>8. CASE RewriteMessage(c)
  <2>1. /\ agent[c].phase = "before_llm_call" /\ agent[c].place \in 1..Len(messages[c])
        /\ agent[c].place \in Int
    BY <1>1, <1>8, Rewrites
  <2>2. CASE agent[c].place < Len(messages[c])
    <3>1. Agent(c, Scan(c, agent[c].place + 1))
      BY <1>8, <2>2 DEF RewriteMessage, NextMessage
    <3>2. agent[c].place + 1 \in 1..Len(messages[c])
      BY <1>1, <2>1, <2>2
    <3> DEFINE place == agent[c].place + 1
               next == Scan(c, place)
    <3>3. /\ Sound(next, Len(messages[c])) /\ next.at = "check" /\ next.place = place
          /\ next.phase = "before_llm_call" /\ next.item = messages[c][place]
      <4> HIDE DEF place
      <4> QED
        BY <1>3, <2>1, <3>2, Hooking DEF place
    <3> HIDE DEF next
    <3> QED
      BY <1>8, <2>2, <3>1, <3>3 DEF next
  <2>3. CASE ~(agent[c].place < Len(messages[c]))
    <3>1. agent[c].place = Len(messages[c])
      BY <1>1, <2>1, <2>3
    <3>2. Agent(c, Leave(c, Fresh))
      BY <1>8, <2>3 DEF RewriteMessage, NextMessage
    <3> QED
      BY <1>4, <1>8, <3>1, <3>2, ItemsTyped
  <2> QED
    BY <2>2, <2>3
<1>9. CASE RewriteContext(c)
  <2> DEFINE item == IF config.context = "object" THEN Enforced(c) ELSE agent[c].item
  <2>1. Agent(c, Leave(c, item)) /\ item \in Item
    BY <1>1, <1>9, EnforcedTyped DEF RewriteContext
  <2> HIDE DEF item
  <2> QED
    BY <1>4, <1>9, <2>1 DEF item
<1>10. CASE RewriteArguments(c)
  <2>1. PICK item : /\ Agent(c, Leave(c, item))
                    /\ \/ item \in {agent[c].item, Enforced(c)}
                       \/ item = [agent[c].item EXCEPT !.text = "gone"]
    BY <1>10 DEF RewriteArguments
  <2>2. item \in Item /\ item.verdict = agent[c].item.verdict
    BY <1>1, <2>1, EnforcedTyped DEF Item
  <2> QED
    BY <1>4, <1>10, <2>1, <2>2
<1> QED
  BY <1>6, <1>7, <1>8, <1>9, <1>10

LEMMA HookKeepsTypes ==
  ASSUME TypeInv, NEW c \in Caller, HookStep(c)
  PROVE  TypeInv'
<1>1. /\ ExecutorTypeOK /\ violations \in Nat /\ messages \in [Caller -> Seq(Item)]
      /\ Len(messages[c]) \in Nat
  BY LenProperties DEF TypeInv, TypeOK, ExecutorTypeOK
<1>2. settings' = settings /\ executor' = executor /\ config' = config
  BY StepLeavesSettings DEF Next
<1>3. CASE EnterHook(c)
  <2>1. messages' = messages /\ ExecutorTypeOK'
    BY <1>1, <1>3 DEF EnterHook, ExecutorTypeOK, At
  <2> QED
    BY <1>1, <1>2, <1>3, <2>1, Begins, TypeInvFrom
<1>4. CASE Checked(c)
  <2>1. PICK next \in Agents, w \in Works :
           /\ Agent(c, next) /\ Sound(next, Len(messages[c]))
           /\ work' = [work EXCEPT ![c] = w] /\ w.at = "enforce"
    BY <1>4, Judges
  <2>2. messages' = messages /\ violations' \in Nat
    BY <1>1, <1>4 DEF Checked
  <2>3. ExecutorTypeOK'
    BY <1>1, <1>2, <2>1, <2>2, WorkMoves
  <2> QED
    BY <1>1, <1>2, <2>1, <2>2, <2>3, TypeInvFrom
<1>5. CASE ~EnterHook(c) /\ ~Checked(c)
  <2>1. PICK next : Agent(c, next) /\ Sound(next, Len(messages[c]))
    BY <1>5, HookEnds DEF HookStep
  <2>2. ExecutorTypeOK'
    <3>1. CASE CheckRaises(c)
      BY <1>1, <3>1 DEF CheckRaises, ExecutorTypeOK, At
    <3>2. CASE EnforcementEnds(c)
      <4>1. work' = [work EXCEPT ![c] = NoWork] /\ violations' = violations
        BY <3>2 DEF EnforcementEnds
      <4>2. NoWork \in Works /\ NoWork.at # "done"
        BY DEF NoWork, Works
      <4> QED
        BY <1>1, <1>2, <4>1, <4>2, WorkMoves
    <3> QED
      BY <1>5, <3>1, <3>2 DEF HookStep, Violation, RewriteMessage, RewriteContext,
         RewriteArguments, Returns
  <2>3. /\ messages' \in [Caller -> Seq(Item)] /\ Len(messages'[c]) >= Len(messages[c])
        /\ \A d \in Caller : d # c => messages'[d] = messages[d]
    <3>1. CASE RewriteMessage(c)
      BY <1>1, <3>1, Rewrites
    <3>2. CASE messages' = messages
      BY <1>1, <3>2
    <3> QED
      BY <1>5, <3>1, <3>2 DEF HookStep, CheckRaises, Violation, RewriteContext, RewriteArguments
  <2> QED
    BY <1>2, <2>1, <2>2, <2>3, TypeInvFrom
<1> QED
  BY <1>3, <1>4, <1>5

LEMMA TypesKept ==
  ASSUME TypeInv, [Next]_vars
  PROVE  TypeInv'
<1>1. ASSUME NEW c \in Caller, CrewStep(c)
      PROVE  TypeInv'
  BY <1>1, CrewKeepsTypes
<1>2. ASSUME NEW c \in Caller, HookStep(c)
      PROVE  TypeInv'
  BY <1>2, HookKeepsTypes
<1>3. ASSUME NEW c \in Caller, ExecutorStep(c)
      PROVE  TypeInv'
  <2>1. /\ settings' = settings /\ config' = config /\ messages' = messages /\ agent' = agent
    BY <1>3, StepLeavesSettings DEF ExecutorStep, Next
  <2>2. ExecutorTypeOK'
    BY <1>3, EnforceTyped DEF ExecutorStep, TypeInv, TypeOK
  <2> QED
    BY <2>1, <2>2 DEF TypeInv, TypeOK
<1>4. CASE UNCHANGED vars
  BY <1>4 DEF vars, TypeInv, TypeOK, ExecutorTypeOK, At
<1> QED
  BY <1>1, <1>2, <1>3, <1>4 DEF Next

LEMMA TypesAtFirst ==
  ASSUME Init
  PROVE  TypeInv
<1>1. ASSUME NEW c \in Caller
      PROVE  \E n \in Prompts : messages[c] = [i \in 1..n |-> Fresh]
  BY <1>1 DEF Init
<1>2. ASSUME NEW c \in Caller
      PROVE  messages[c] \in Seq(Item) /\ Len(messages[c]) >= 1 /\ Len(messages[c]) \in Nat
  <2>1. PICK n \in Prompts : messages[c] = [i \in 1..n |-> Fresh]
    BY <1>1
  <2>2. n \in Nat /\ n >= 1
    BY PromptsAssumption
  <2> QED
    BY <2>1, <2>2, ItemsTyped
<1>3. messages \in [Caller -> Seq(Item)]
  BY <1>2 DEF Init
<1>4. /\ Start \in Agents /\ Start.place = 0 /\ Start.at = "rest"
  BY ItemsTyped DEF Start, Agents, Phases, Errors, Hook
<1>5. agent = [c \in Caller |-> Start]
  BY DEF Init
<1>6. \A c \in Caller : Sound(agent[c], Len(messages[c]))
  BY <1>2, <1>4, <1>5 DEF Sound
<1>7. NoWork \in Works /\ NoWork.at # "done"
  BY DEF NoWork, Works
<1>8. ExecutorTypeOK
  BY <1>7 DEF Init, ExecutorInit, ExecutorTypeOK, Works, At
<1>9. config \in [hooks : SUBSET Hook, failOpen : BOOLEAN, all : BOOLEAN,
                  context : {"object", "dict"}, message : {"object", "dict"}]
  BY SelectionsAssumption DEF Init
<1>10. TypeOK
  BY <1>3, <1>4, <1>5, <1>6, <1>8, <1>9 DEF TypeOK, Init, Sound, Agents, Phases, Errors
<1> QED
  BY <1>2, <1>6, <1>10 DEF TypeInv

\* Every reachable state of agents, hooks and executor is well typed: a hook that
\* rewrites a message always has one of the agent's conversation in hand.
THEOREM TypeCorrect == Spec => []TypeOK
<1>1. Init => TypeInv
  BY TypesAtFirst
<1>2. TypeInv /\ [Next]_vars => TypeInv'
  BY TypesKept
<1>3. TypeInv => TypeOK
  BY DEF TypeInv
<1> QED
  BY <1>1, <1>2, <1>3, PTL DEF Spec
-----------------------------------------------------------------------------
(* What was to be stopped is not used *)

\* The steps of the crew: past a hook that is not there, to new content, or with
\* what the agent has in hand into the conversation.
LEMMA CrewMoves ==
  ASSUME TypeInv, NEW c \in Caller, CrewStep(c)
  PROVE  \E next :
           /\ Agent(c, next) /\ next.at = "rest" /\ agent[c].at = "rest"
           /\ \/ /\ messages' = messages /\ agent[c].phase \in Hook \ config.hooks
                 /\ next.phase = After[agent[c].phase] /\ next.item = agent[c].item
              \/ /\ messages' = messages /\ next.item = Fresh
                 /\ next.phase \in {"after_llm_call", "after_tool_call"}
              \/ /\ Say(c) /\ next.item = Fresh /\ agent[c].phase \in {"answer", "result"}
                 /\ next.phase \in {"ended", "before_tool_call", "before_llm_call"}
<1>1. CASE Unhooked(c)
  BY <1>1, Entering DEF Unhooked, Leave, Resting
<1>2. CASE LLMAnswers(c)
  BY <1>2, Entering DEF LLMAnswers, Resting
<1>3. CASE TakeAnswer(c)
  BY <1>3, Entering DEF TakeAnswer, Resting
<1>4. CASE ToolRuns(c)
  BY <1>4, Entering DEF ToolRuns, Resting
<1>5. CASE TakeResult(c)
  BY <1>5, Entering DEF TakeResult, Resting
<1> QED
  BY <1>1, <1>2, <1>3, <1>4, <1>5 DEF CrewStep

\* The executor's work is the agent's content.
Enforcements ==
  \A c \in Caller : agent[c].at = "enforce" =>
                      work[c].at # "rest" /\ Enforces(work[c], agent[c].item)

LEMMA EnforcementsKept ==
  ASSUME TypeInv, Enforcements, [Next]_vars
  PROVE  Enforcements'
<1>1. settings' = settings /\ executor' = executor
  BY StepLeavesSettings
<1>2. work \in [Caller -> Works]
  BY DEF TypeInv, TypeOK, ExecutorTypeOK, Works
<1>3. ASSUME NEW c \in Caller,
             \A d \in Caller : d # c => work'[d] = work[d] /\ agent'[d] = agent[d],
             agent'[c].at = "enforce" =>
                  work'[c].at # "rest" /\ Enforces(work'[c], agent'[c].item)
      PROVE  Enforcements'
  BY <1>1, <1>3 DEF Enforcements, Enforces
<1>4. ASSUME NEW c \in Caller, CrewStep(c)
      PROVE  Enforcements'
  <2>1. PICK next : Agent(c, next) /\ next.at = "rest"
    BY <1>4, CrewMoves
  <2>2. work' = work
    BY <1>4 DEF CrewStep
  <2> QED
    BY <1>3, <2>1, <2>2, AgentMoves
<1>5. ASSUME NEW c \in Caller, HookStep(c)
      PROVE  Enforcements'
  <2>1. CASE EnterHook(c)
    <3>1. PICK next : Agent(c, next) /\ next.at = "check"
      BY <2>1, Begins
    <3>2. work' = work
      BY <2>1 DEF EnterHook
    <3> QED
      BY <1>3, <3>1, <3>2, AgentMoves
  <2>2. CASE Checked(c)
    <3>1. PICK next, w :
             /\ Agent(c, next) /\ work' = [work EXCEPT ![c] = w] /\ w.at = "enforce"
             /\ Enforces(w, next.item)
      BY <2>2, Judges
    <3>2. work'[c] = w /\ \A d \in Caller : d # c => work'[d] = work[d]
      BY <1>2, <3>1
    <3> QED
      BY <1>1, <1>3, <3>1, <3>2, AgentMoves DEF Enforces
  <2>3. CASE ~EnterHook(c) /\ ~Checked(c)
    <3>1. PICK next : Agent(c, next) /\ next.at # "enforce"
      BY <1>5, <2>3, HookEnds DEF HookStep
    <3>2. \A d \in Caller : d # c => work'[d] = work[d]
      <4>1. work' = work \/ work' = [work EXCEPT ![c] = NoWork]
        BY <1>5, <2>3 DEF HookStep, CheckRaises, Violation, RewriteMessage, RewriteContext,
           RewriteArguments, Returns, EnforcementEnds
      <4> QED
        BY <1>2, <4>1
    <3> QED
      BY <1>3, <3>1, <3>2, AgentMoves
  <2> QED
    BY <2>1, <2>2, <2>3
<1>6. ASSUME NEW c \in Caller, ExecutorStep(c)
      PROVE  Enforcements'
  <2>1. EnforceStep(c) /\ agent' = agent
    BY <1>6 DEF ExecutorStep
  <2>2. CASE agent[c].at = "enforce"
    <3>1. PICK w \in Works :
             work' = [work EXCEPT ![c] = w] /\ w.at # "rest" /\ Enforces(w, agent[c].item)
      BY <2>1, <2>2, EnforceFits DEF Enforcements, TypeInv, TypeOK
    <3>2. work'[c] = w /\ \A d \in Caller : d # c => work'[d] = work[d]
      BY <1>2, <3>1
    <3> QED
      BY <1>1, <1>3, <2>1, <3>1, <3>2 DEF Enforces
  <2>3. CASE agent[c].at # "enforce"
    <3>1. \A d \in Caller : d # c => work'[d] = work[d]
      BY <1>2, <2>1 DEF EnforceStep, Passes, Redacts, RedactionFails, Stops, Notify,
         HandlerReturns, HandlerRaises, Done, Step
    <3> QED
      BY <1>3, <2>1, <2>3, <3>1
  <2> QED
    BY <2>2, <2>3
<1>7. CASE UNCHANGED vars
  BY <1>7 DEF vars, Enforcements, Enforces
<1> QED
  BY <1>4, <1>5, <1>6, <1>7 DEF Next

\* Every message may be used, and so may what an agent has in hand unless a
\* decision on it is about to be enforced.
Usable ==
  \A c \in Caller :
    /\ \A i \in 1..Len(messages[c]) : ~Unusable(messages[c][i])
    /\ agent[c].at # "enforce" => ~Unusable(agent[c].item)

\* A hook that goes on had content in hand that may be used.
LEMMA GoesOnUsable ==
  ASSUME TypeInv, Enforcements, NEW c \in Caller,
         RewriteMessage(c) \/ RewriteContext(c) \/ RewriteArguments(c)
  PROVE  /\ ~Unusable(agent[c].item) /\ ~Unusable(Enforced(c))
         /\ \A item \in Written(c) : ~Unusable(item)
<1>1. agent[c].at = "enforce" /\ work[c].at = "done" /\ work[c].result # "violation"
  BY DEF RewriteMessage, RewriteContext, RewriteArguments, Returns, EnforcementEnds, At
<1>2. ~Unusable(agent[c].item)
  BY <1>1, EndsUsable DEF Enforcements
<1>3. /\ Enforced(c).verdict = agent[c].item.verdict
      /\ \A item \in Written(c) : item.verdict = agent[c].item.verdict
  BY EnforcedTyped
<1> QED
  BY <1>2, <1>3 DEF Unusable

LEMMA UsableKept ==
  ASSUME TypeInv, Enforcements, Usable, [Next]_vars
  PROVE  Usable'
<1>1. executor' = executor
  BY StepLeavesSettings
<1>2. ASSUME NEW c \in Caller, NEW next, Agent(c, next),
             \A d \in Caller : d # c => messages'[d] = messages[d],
             \A i \in 1..Len(messages'[c]) : ~Unusable(messages'[c][i]),
             next.at # "enforce" => ~Unusable(next.item)
      PROVE  Usable'
  BY <1>1, <1>2, AgentMoves DEF Usable, Unusable
<1>3. ~Unusable(Fresh)
  BY DEF Unusable, Fresh
<1>4. ASSUME NEW c \in Caller
      PROVE  Len(messages[c]) \in Nat
  BY <1>4, LenProperties DEF TypeInv, TypeOK
<1>5. ASSUME NEW c \in Caller, CrewStep(c)
      PROVE  Usable'
  <2>1. PICK next :
          /\ Agent(c, next) /\ (next.item = agent[c].item \/ next.item = Fresh)
          /\ agent[c].at = "rest" /\ (messages' = messages \/ Say(c))
    BY <1>5, CrewMoves
  <2>2. ~Unusable(agent[c].item) /\ ~Unusable(next.item)
    BY <1>3, <2>1 DEF Usable
  <2>3. /\ \A d \in Caller : d # c => messages'[d] = messages[d]
        /\ \A i \in 1..Len(messages'[c]) : ~Unusable(messages'[c][i])
    <3>1. CASE messages' = messages
      BY <3>1 DEF Usable
    <3>2. CASE Say(c)
      <4>1. ASSUME NEW i \in 1..(Len(messages[c]) + 1)
            PROVE  i \in 1..Len(messages[c]) \/ i = Len(messages[c]) + 1
        BY <1>4
      <4> QED
        BY <2>2, <3>2, <4>1, Says DEF Usable
    <3> QED
      BY <2>1, <3>1, <3>2
  <2> QED
    BY <1>2, <2>1, <2>2, <2>3
<1>6. ASSUME NEW c \in Caller, HookStep(c)
      PROVE  Usable'
  <2>1. CASE EnterHook(c)
    <3>1. PICK next :
            /\ Agent(c, next) /\ Sound(next, Len(messages[c]))
            /\ next.at = "check" /\ agent[c].at = "rest"
            /\ next.phase = "before_llm_call" => next.item = messages[c][next.place]
            /\ next.phase # "before_llm_call" => next.item = agent[c].item
      <4>1. PICK next :
              /\ Agent(c, next) /\ Sound(next, Len(messages[c]))
              /\ next.at = "check" /\ agent[c].at = "rest"
              /\ next.phase = "before_llm_call" =>
                   /\ next.place = IF config.all THEN 1 ELSE Len(messages[c])
                   /\ next.item = messages[c][next.place]
              /\ next.phase # "before_llm_call" => next.item = agent[c].item
        BY <2>1, Begins
      <4> QED
        BY <4>1
    <3>2. ~Unusable(next.item)
      BY <3>1 DEF Usable, Sound
    <3>3. messages' = messages
      BY <2>1 DEF EnterHook
    <3> QED
      BY <1>2, <3>1, <3>2, <3>3 DEF Usable
  <2>2. CASE Checked(c)
    <3>1. PICK next : Agent(c, next) /\ next.at = "enforce"
      BY <2>2, Judges
    <3>2. messages' = messages
      BY <2>2 DEF Checked
    <3> QED
      BY <1>2, <3>1, <3>2 DEF Usable
  <2>3. CASE ~EnterHook(c) /\ ~Checked(c)
    <3>1. PICK next :
            /\ Agent(c, next)
            /\ \/ next.item = Fresh
               \/ CheckRaises(c) /\ next.item = agent[c].item
               \/ /\ RewriteMessage(c) /\ agent[c].place < Len(messages[c])
                  /\ next.place = agent[c].place + 1 /\ next.item = messages[c][next.place]
               \/ /\ RewriteContext(c)
                  /\ next.item = IF config.context = "object" THEN Enforced(c) ELSE agent[c].item
               \/ RewriteArguments(c) /\ next.item.verdict = agent[c].item.verdict
      <4>1. CheckRaises(c) \/ Violation(c) \/ RewriteMessage(c) \/ RewriteContext(c) \/ RewriteArguments(c)
        BY <1>6, <2>3 DEF HookStep
      <4> QED
        BY <4>1, HookEnds
    <3>2. ~Unusable(next.item)
      <4>1. CASE CheckRaises(c) /\ next.item = agent[c].item
        BY <4>1 DEF CheckRaises, Usable
      <4>2. CASE /\ RewriteMessage(c) /\ agent[c].place < Len(messages[c])
                 /\ next.place = agent[c].place + 1 /\ next.item = messages[c][next.place]
        <5>1. agent[c].place + 1 \in 1..Len(messages[c])
          BY <1>4, <4>2, Rewrites
        <5> QED
          BY <4>2, <5>1 DEF Usable
      <4>3. CASE /\ RewriteContext(c)
                 /\ next.item = IF config.context = "object" THEN Enforced(c) ELSE agent[c].item
        BY <4>3, GoesOnUsable
      <4>4. CASE RewriteArguments(c) /\ next.item.verdict = agent[c].item.verdict
        BY <4>4, GoesOnUsable DEF Unusable
      <4> QED
        BY <1>3, <3>1, <4>1, <4>2, <4>3, <4>4
    <3>3. /\ \A d \in Caller : d # c => messages'[d] = messages[d]
          /\ \A i \in 1..Len(messages'[c]) : ~Unusable(messages'[c][i])
      <4>1. CASE RewriteMessage(c)
        BY <4>1, GoesOnUsable, Rewrites DEF Usable
      <4>2. CASE messages' = messages
        BY <4>2 DEF Usable
      <4> QED
        BY <1>6, <2>3, <4>1, <4>2 DEF HookStep, CheckRaises, Violation, RewriteContext,
           RewriteArguments
    <3> QED
      BY <1>2, <3>1, <3>2, <3>3
  <2> QED
    BY <2>1, <2>2, <2>3
<1>7. ASSUME NEW c \in Caller, ExecutorStep(c)
      PROVE  Usable'
  BY <1>1, <1>7 DEF ExecutorStep, Usable, Unusable
<1>8. CASE UNCHANGED vars
  BY <1>8 DEF vars, Usable, Unusable
<1> QED
  BY <1>5, <1>6, <1>7, <1>8 DEF Next

LEMMA UsableAtFirst ==
  ASSUME Init
  PROVE  Enforcements /\ Usable
<1>1. Start.at = "rest" /\ Start.item = Fresh /\ ~Unusable(Fresh)
  BY DEF Start, Unusable, Fresh
<1>2. Enforcements
  BY <1>1 DEF Init, Enforcements
<1>3. ASSUME NEW c \in Caller
      PROVE  \A i \in 1..Len(messages[c]) : messages[c][i] = Fresh
  <2>1. PICK n \in Prompts : messages[c] = [i \in 1..n |-> Fresh]
    BY DEF Init
  <2>2. n \in Nat
    BY PromptsAssumption
  <2> QED
    BY <2>1, <2>2
<1> QED
  BY <1>1, <1>2, <1>3 DEF Init, Usable

\* What a hook decided to block, or to quarantine where no handler takes it, is not
\* read by an LLM and no tool runs on it once refusals raise: whatever the hooks
\* selected, the guard's errors, fail_open and what the other agents do.
THEOREM StoppedStaysUnused == Spec => []StoppedIsNotUsed
<1> DEFINE Inv == TypeInv /\ Enforcements /\ Usable
<1>1. Init => Inv
  BY TypesAtFirst, UsableAtFirst
<1>2. Inv /\ [Next]_vars => Inv'
  BY TypesKept, EnforcementsKept, UsableKept
<1>3. Inv => StoppedIsNotUsed
  <2> SUFFICES ASSUME Inv, NEW c \in Caller
               PROVE  /\ Resting(c, "llm") => \A i \in DOMAIN messages[c] : ~Unusable(messages[c][i])
                      /\ Resting(c, "tool") => ~Unusable(agent[c].item)
    BY DEF StoppedIsNotUsed
  <2>1. DOMAIN messages[c] = 1..Len(messages[c])
    BY LenProperties DEF TypeInv, TypeOK
  <2> QED
    BY <2>1 DEF Usable, Resting
<1> HIDE DEF Inv
<1> QED
  BY <1>1, <1>2, <1>3, PTL DEF Spec
-----------------------------------------------------------------------------
(* The conversation is cleared *)

\* Guard, executor and hooks let nothing through on an error.
Closed == Strict /\ ~config.failOpen /\ "before_llm_call" \in config.hooks

\* Responses and results are scanned.
Vetted == {"after_llm_call", "after_tool_call"} \subseteq config.hooks

\* An item that a rewrite may have left as it is, if there is what refuses one.
Passable(item, refusal) == Cleared(item) \/ (refusal /\ item.verdict = "redact")

\* What may refuse new content: a message, and what a response or a result is
\* assigned to.
MessageRefuses == config.message = "object"
SomethingRefuses == MessageRefuses \/ config.context = "dict"

Later(i) == \E n \in Prompts : i > n /\ \A m \in Prompts : m <= n

\* What is cleared of conversation m when its agent is at a: what has joined the
\* prompt and is about to join it, what before_llm_call has passed, and what it
\* answers for once it lets the LLM be called; except what refused its redaction,
\* which for a message passed by before_llm_call only the message itself can do.
Screens(a, m) ==
  /\ Vetted => \A i \in 1..Len(m) : Later(i) => Passable(m[i], SomethingRefuses)
  /\ Vetted /\ a.phase \in {"answer", "result"} => Passable(a.item, SomethingRefuses)
  /\ a.phase = "before_llm_call" /\ a.at # "rest" =>
       /\ config.all => \A i \in 1..Len(m) : i < a.place => Passable(m[i], MessageRefuses)
       /\ ~config.all => a.place = Len(m)
  /\ a.phase = "llm" =>
       /\ config.all => \A i \in 1..Len(m) : Passable(m[i], MessageRefuses)
       /\ Passable(m[Len(m)], MessageRefuses)

Screened == \A c \in Caller : Screens(agent[c], messages[c])

\* What was to be redacted is, unless the object it is part of refuses.
LEMMA EnforcedCleared ==
  ASSUME TypeInv, Enforcements, Closed, NEW c \in Caller,
         RewriteMessage(c) \/ RewriteContext(c)
  PROVE  /\ Cleared(Enforced(c)) /\ Passable(agent[c].item, TRUE)
         /\ \A item \in Written(c) : Passable(item, MessageRefuses)
<1>1. agent[c].at = "enforce" /\ work[c].at = "done" /\ work[c].result # "violation"
  BY DEF RewriteMessage, RewriteContext, Returns, EnforcementEnds, At
<1>2. \/ work[c].result = "passed" /\ agent[c].item.verdict = "clear"
      \/ work[c].result = "redacted" /\ agent[c].item.verdict = "redact"
  BY <1>1, EndsCleared DEF Enforcements, Closed
<1>3. /\ Enforced(c).verdict = agent[c].item.verdict
      /\ work[c].result = "redacted" => Enforced(c).text = "masked"
  BY EnforcedTyped
<1>4. Cleared(Enforced(c)) /\ Passable(agent[c].item, TRUE)
  BY <1>2, <1>3 DEF Cleared, Passable
<1> QED
  BY <1>4 DEF Written, Passable, MessageRefuses

LEMMA ScreenedFrom ==
  ASSUME TypeInv, Screened, NEW c \in Caller, NEW next, Agent(c, next), config' = config,
         \A d \in Caller : d # c => messages'[d] = messages[d],
         Screens(next, messages'[c])
  PROVE  Screened'
<1>1. agent'[c] = next /\ \A d \in Caller : d # c => agent'[d] = agent[d]
  BY AgentMoves
<1>2. ASSUME NEW d \in Caller
      PROVE  Screens(agent'[d], messages'[d])
  BY <1>1 DEF Screened
<1>3. ASSUME NEW d \in Caller
      PROVE  Screens(agent[d], messages[d])'
  BY <1>2 DEF Screens, Vetted, Later, Passable, Cleared, SomethingRefuses, MessageRefuses
<1> QED
  BY <1>3 DEF Screened

LEMMA CrewKeepsScreened ==
  ASSUME TypeInv, Closed, Screened, NEW c \in Caller, CrewStep(c)
  PROVE  Screened'
<1>1. PICK next :
        /\ Agent(c, next) /\ next.at = "rest" /\ agent[c].at = "rest"
        /\ \/ /\ messages' = messages /\ agent[c].phase \in Hook \ config.hooks
              /\ next.phase = After[agent[c].phase] /\ next.item = agent[c].item
           \/ /\ messages' = messages /\ next.item = Fresh
              /\ next.phase \in {"after_llm_call", "after_tool_call"}
           \/ /\ Say(c) /\ next.item = Fresh /\ agent[c].phase \in {"answer", "result"}
              /\ next.phase \in {"ended", "before_tool_call", "before_llm_call"}
  BY CrewMoves
<1>2. config' = config /\ Screens(agent[c], messages[c]) /\ Len(messages[c]) \in Nat
  BY LenProperties DEF CrewStep, Screened, TypeInv, TypeOK
<1>3. CASE messages' = messages
  <2>1. next.phase # "llm" /\ (Vetted => next.phase \notin {"answer", "result"})
    BY <1>1, AfterIs DEF Closed, Vetted, Hook, Say
  <2>2. Screens(next, messages'[c])
    BY <1>1, <1>2, <1>3, <2>1 DEF Screens
  <2> QED
    BY <1>1, <1>2, <1>3, <2>2, ScreenedFrom
<1>4. CASE Say(c) /\ agent[c].phase \in {"answer", "result"}
           /\ next.phase \in {"ended", "before_tool_call", "before_llm_call"}
  <2>1. ASSUME NEW i \in 1..(Len(messages[c]) + 1)
        PROVE  i \in 1..Len(messages[c]) \/ i = Len(messages[c]) + 1
    BY <1>2
  <2>2. Vetted => \A i \in 1..Len(messages'[c]) :
                    Later(i) => Passable(messages'[c][i], SomethingRefuses)
    BY <1>2, <1>4, <2>1, Says DEF Screens
  <2>3. Screens(next, messages'[c])
    BY <1>1, <1>4, <2>2 DEF Screens
  <2> QED
    BY <1>1, <1>2, <1>4, <2>3, Says, ScreenedFrom
<1> QED
  BY <1>1, <1>3, <1>4

LEMMA HookKeepsScreened ==
  ASSUME TypeInv, Enforcements, Closed, Screened, NEW c \in Caller, HookStep(c)
  PROVE  Screened'
<1>1. /\ config' = config /\ Screens(agent[c], messages[c]) /\ Len(messages[c]) \in Nat
      /\ Sound(agent[c], Len(messages[c])) /\ config.hooks \subseteq Hook
  BY StepLeavesSettings, LenProperties DEF Screened, TypeInv, TypeOK, Next
<1>2. \A h \in Hook : h \notin {"llm", "answer", "result"}
  BY DEF Hook
<1>3. CASE EnterHook(c)
  <2>1. PICK next :
           /\ Agent(c, next) /\ Sound(next, Len(messages[c]))
           /\ next.at = "check" /\ next.phase = agent[c].phase /\ agent[c].at = "rest"
           /\ next.phase = "before_llm_call" =>
                /\ next.place = IF config.all THEN 1 ELSE Len(messages[c])
                /\ next.item = messages[c][next.place]
           /\ next.phase # "before_llm_call" => next.item = agent[c].item
    BY <1>3, Begins
  <2>2. next.phase \in Hook /\ messages' = messages
    BY <1>3, <2>1 DEF Sound, EnterHook
  <2>3. Screens(next, messages'[c])
    BY <1>1, <1>2, <2>1, <2>2 DEF Screens
  <2> QED
    BY <1>1, <2>1, <2>2, <2>3, ScreenedFrom
<1>4. CASE Checked(c)
  <2>1. PICK next :
           /\ Agent(c, next) /\ Sound(next, Len(messages[c]))
           /\ next.at = "enforce" /\ agent[c].at = "check" /\ next.phase = agent[c].phase
           /\ next.place = agent[c].place
    BY <1>4, Judges
  <2>2. next.phase \in Hook /\ messages' = messages
    BY <1>4, <2>1 DEF Sound, Checked
  <2>3. Screens(next, messages'[c])
    BY <1>1, <1>2, <2>1, <2>2 DEF Screens
  <2> QED
    BY <1>1, <2>1, <2>2, <2>3, ScreenedFrom
<1>5. CASE ~EnterHook(c) /\ ~Checked(c)
  <2>1. CheckRaises(c) \/ Violation(c) \/ RewriteMessage(c) \/ RewriteContext(c) \/ RewriteArguments(c)
    BY <1>5 DEF HookStep
  <2>2. PICK next :
           /\ Agent(c, next) /\ Sound(next, Len(messages[c]))
           /\ \/ /\ Violation(c) \/ (CheckRaises(c) /\ ~config.failOpen)
                 /\ next.phase = "raised" /\ next.at = "rest" /\ next.item = Fresh
              \/ /\ RewriteMessage(c) /\ agent[c].place < Len(messages[c])
                 /\ next.phase = "before_llm_call" /\ next.at = "check"
                 /\ next.place = agent[c].place + 1 /\ next.item = messages[c][next.place]
              \/ /\ next.phase = After[agent[c].phase] /\ next.at = "rest"
                 /\ \/ CheckRaises(c) /\ config.failOpen /\ next.item = agent[c].item
                    \/ RewriteMessage(c) /\ agent[c].place = Len(messages[c]) /\ next.item = Fresh
                    \/ /\ RewriteContext(c)
                       /\ next.item = IF config.context = "object" THEN Enforced(c) ELSE agent[c].item
                    \/ RewriteArguments(c) /\ next.item.verdict = agent[c].item.verdict
    BY <2>1, HookEnds
  <2>3. ~config.failOpen
    BY DEF Closed
  <2>4. CASE RewriteMessage(c)
    <3> DEFINE place == agent[c].place
    <3>1. /\ Len(messages'[c]) = Len(messages[c])
          /\ agent[c].phase = "before_llm_call" /\ agent[c].at = "enforce"
          /\ place \in 1..Len(messages[c]) /\ Passable(messages'[c][place], MessageRefuses)
          /\ \A i \in 1..Len(messages[c]) : i # place => messages'[c][i] = messages[c][i]
          /\ \A d \in Caller : d # c => messages'[d] = messages[d]
      BY <2>4, Rewrites, EnforcedCleared
    <3>2. Vetted => \A i \in 1..Len(messages'[c]) :
                      Later(i) => Passable(messages'[c][i], SomethingRefuses)
      <4>1. Passable(messages'[c][place], SomethingRefuses)
        BY <3>1 DEF Passable, SomethingRefuses
      <4> QED
        BY <1>1, <3>1, <4>1 DEF Screens
    <3>3. config.all => \A i \in 1..Len(messages'[c]) :
                          i <= place => Passable(messages'[c][i], MessageRefuses)
      <4> SUFFICES ASSUME config.all, NEW i \in 1..Len(messages'[c]), i <= place
                   PROVE  Passable(messages'[c][i], MessageRefuses)
        OBVIOUS
      <4>1. CASE i = place
        BY <3>1, <4>1
      <4>2. CASE i < place
        BY <1>1, <3>1, <4>2 DEF Screens
      <4> QED
        BY <3>1, <4>1, <4>2
    <3>4. ~config.all => place = Len(messages[c])
      BY <1>1, <3>1 DEF Screens
    <3>5. CASE next.phase = "before_llm_call" /\ place < Len(messages[c]) /\ next.place = place + 1
      <4>1. config.all
        BY <1>1, <3>1, <3>4, <3>5
      <4>2. \A i \in 1..Len(messages'[c]) :
              i < next.place => Passable(messages'[c][i], MessageRefuses)
        BY <1>1, <3>1, <3>3, <3>5, <4>1
      <4>3. Screens(next, messages'[c])
        BY <3>2, <3>5, <4>1, <4>2 DEF Screens
      <4> QED
        BY <1>1, <2>2, <3>1, <4>3, ScreenedFrom
    <3>6. CASE next.phase = "llm" /\ place = Len(messages[c])
      <4>1. config.all => \A i \in 1..Len(messages'[c]) : Passable(messages'[c][i], MessageRefuses)
        BY <1>1, <3>1, <3>3, <3>6
      <4>2. Screens(next, messages'[c])
        BY <3>1, <3>2, <3>6, <4>1 DEF Screens
      <4> QED
        BY <1>1, <2>2, <3>1, <4>2, ScreenedFrom
    <3>7. ~Violation(c) /\ ~CheckRaises(c) /\ ~RewriteContext(c) /\ ~RewriteArguments(c)
      BY <2>4, <3>1 DEF RewriteMessage, Violation, CheckRaises, RewriteContext, RewriteArguments,
         Returns
    <3> QED
      BY <2>2, <3>1, <3>5, <3>6, <3>7, AfterIs
  <2>5. CASE ~RewriteMessage(c)
    <3>1. messages' = messages
      BY <2>1, <2>5 DEF CheckRaises, Violation, RewriteContext, RewriteArguments
    <3>2. CASE next.phase = "raised"
      <4>1. Screens(next, messages'[c])
        BY <1>1, <3>1, <3>2 DEF Screens
      <4> QED
        BY <1>1, <2>2, <3>1, <4>1, ScreenedFrom
    <3>3. CASE next.at = "rest" /\ RewriteContext(c) /\ next.phase = After[agent[c].phase]
               /\ next.item = IF config.context = "object" THEN Enforced(c) ELSE agent[c].item
      <4>1. Passable(next.item, SomethingRefuses)
        <5>1. config.context \in {"object", "dict"}
          BY DEF TypeInv, TypeOK
        <5> QED
          BY <3>3, <5>1, EnforcedCleared DEF Passable, SomethingRefuses
      <4>2. next.phase \in {"answer", "result"}
        BY <3>3, AfterIs DEF RewriteContext, Returns
      <4>3. Screens(next, messages'[c])
        BY <1>1, <3>1, <4>1, <4>2 DEF Screens
      <4> QED
        BY <1>1, <2>2, <3>1, <4>3, ScreenedFrom
    <3>4. CASE RewriteArguments(c) /\ next.phase = After[agent[c].phase]
      <4>1. next.phase = "tool"
        BY <3>4, AfterIs DEF RewriteArguments, Returns
      <4>2. Screens(next, messages'[c])
        BY <1>1, <3>1, <4>1 DEF Screens
      <4> QED
        BY <1>1, <2>2, <3>1, <4>2, ScreenedFrom
    <3> QED
      BY <2>2, <2>3, <2>5, <3>2, <3>3, <3>4
  <2> QED
    BY <2>4, <2>5
<1> QED
  BY <1>3, <1>4, <1>5

LEMMA ScreenedKept ==
  ASSUME TypeInv, Enforcements, Closed => Screened, [Next]_vars
  PROVE  (Closed => Screened)'
<1>1. Closed' => Closed
  BY StepLeavesSettings DEF Closed, Strict
<1>2. ASSUME Closed
      PROVE  Screened'
  <2>1. ASSUME NEW c \in Caller, CrewStep(c)
        PROVE  Screened'
    BY <1>2, <2>1, CrewKeepsScreened
  <2>2. ASSUME NEW c \in Caller, HookStep(c)
        PROVE  Screened'
    BY <1>2, <2>2, HookKeepsScreened
  <2>3. CASE messages' = messages /\ agent' = agent
    <3>1. config' = config
      BY StepLeavesSettings
    <3> QED
      BY <1>2, <2>3, <3>1 DEF Screened, Screens, Vetted, Later, Passable, Cleared,
         SomethingRefuses, MessageRefuses
  <2> QED
    BY <2>1, <2>2, <2>3 DEF Next, ExecutorStep, vars
<1> QED
  BY <1>1, <1>2

\* No message of the prompt has joined it.
LEMMA ScreenedAtFirst ==
  ASSUME Init
  PROVE  Screened
<1> SUFFICES ASSUME NEW c \in Caller
             PROVE  Screens(agent[c], messages[c])
  BY DEF Screened
<1>1. agent[c].phase = "before_llm_call" /\ agent[c].at = "rest"
  BY DEF Init, Start
<1>2. PICK n \in Prompts : messages[c] = [i \in 1..n |-> Fresh]
  BY DEF Init
<1>3. n \in Nat /\ Len(messages[c]) = n
  <2>1. n \in Nat
    BY PromptsAssumption
  <2> QED
    BY <1>2, <2>1
<1>4. \A i \in 1..Len(messages[c]) : ~Later(i)
  BY <1>3 DEF Later
<1> QED
  BY <1>1, <1>4 DEF Screens

\* Where guard and hooks fail closed, every LLM call reads a conversation in which
\* each message the integration answers for was allowed or is redacted, though most
\* were scanned only by the hook that saw them first: all but those that were
\* scanned, were to be redacted, and could not be rewritten.
THEOREM ClearedConversations == Spec => []ConversationCleared
<1> DEFINE Inv == TypeInv /\ Enforcements /\ (Closed => Screened)
<1>1. Init => Inv
  BY TypesAtFirst, UsableAtFirst, ScreenedAtFirst
<1>2. Inv /\ [Next]_vars => Inv'
  BY TypesKept, EnforcementsKept, ScreenedKept
<1>3. Inv => ConversationCleared
  <2> SUFFICES ASSUME Inv, Closed, NEW c \in Caller, Resting(c, "llm"),
                      NEW i \in DOMAIN messages[c], AnswersFor(c, i)
               PROVE  Cleared(messages[c][i]) \/ Refused(c, i)
    BY DEF ConversationCleared, Closed
  <2>1. DOMAIN messages[c] = 1..Len(messages[c])
    BY LenProperties DEF TypeInv, TypeOK
  <2>2. Screens(agent[c], messages[c]) /\ agent[c].phase = "llm"
    BY DEF Screened, Resting
  <2>3. CASE Rescanned(c, i)
    <3>1. Passable(messages[c][i], MessageRefuses)
      BY <2>1, <2>2, <2>3 DEF Screens, Rescanned
    <3> QED
      BY <3>1 DEF Passable, MessageRefuses, Refused
  <2>4. CASE ~Rescanned(c, i)
    <3>1. Vetted /\ Later(i)
      BY <2>4 DEF AnswersFor, Vetted, Later
    <3>2. Passable(messages[c][i], SomethingRefuses)
      BY <2>1, <2>2, <3>1 DEF Screens
    <3> QED
      BY <2>4, <3>2 DEF Passable, SomethingRefuses, MessageRefuses, Refused
  <2> QED
    BY <2>3, <2>4
<1> HIDE DEF Inv
<1> QED
  BY <1>1, <1>2, <1>3, PTL DEF Spec
=============================================================================
