--------------------------- MODULE LangChainProofs ---------------------------
(***************************************************************************)
(* Theorems about the LangChain middleware and its executor in an agent's    *)
(* loop, for any number of tools and messages, any severity policies and     *)
(* any choice of scanned points.                                            *)
(***************************************************************************)
EXTENDS LangChainMiddleware, ExecutorProofs

Hooks(n) == [at : {"rest", "check", "enforce", "run", "done"}, point : Point \cup {"none"},
             place : 0..n, item : Item]

Agents == [phase : {"input", "scanning", "model", "output", "route", "tools", "ended", "raised"},
           calls : SUBSET Tool,
           error : {"none", "AgentGuardViolation", "AgentGuardMiddlewareError"}]

\* With n messages, a hook that scans knows what it scans: the point and, in the
\* conversation, the place.
Sound(h, n) ==
  /\ h \in Hooks(n)
  /\ h.at \in {"check", "enforce"} => h.point \in Point
  /\ h.at \in {"check", "enforce"} /\ h.point \in {"input", "output"} => h.place \in 1..n

Moved(h, label, item) == [h EXCEPT !.at = label, !.item = item]

\* The conversation begins with the user's message.
TypeInv ==
  /\ TypeOK
  /\ Len(messages) >= 1
  /\ \A c \in Caller : Sound(hook[c], Len(messages))
-----------------------------------------------------------------------------
(* What never changes *)

LEMMA StepLeavesSettings ==
  ASSUME [Next]_vars
  PROVE  settings' = settings /\ executor' = executor /\ middleware' = middleware
<1>1. CASE AgentStep
  BY <1>1 DEF AgentStep, BeforeModel, ModelAnswers, AfterModel, Route, ToolRuns, ToolsReturn
<1>2. ASSUME NEW c \in Caller, HookStep(c)
      PROVE  settings' = settings /\ executor' = executor /\ middleware' = middleware
  BY <1>2 DEF HookStep, Checked, CheckRaises, Violation, WriteBack, Answered, EnforcementEnds
<1>3. ASSUME NEW c \in Caller, ExecutorStep(c)
      PROVE  settings' = settings /\ executor' = executor /\ middleware' = middleware
  BY <1>3 DEF ExecutorStep, EnforceStep, Passes, Redacts, RedactionFails, Stops, Notify,
     HandlerReturns, HandlerRaises, Done, Step
<1>4. CASE UNCHANGED vars
  BY <1>4 DEF vars
<1> QED
  BY <1>1, <1>2, <1>3, <1>4 DEF Next
-----------------------------------------------------------------------------
(* Types *)

LEMMA EndTyped ==
  ASSUME TypeOK, NEW c \in Caller, EnforcementEnds(c)
  PROVE  ExecutorTypeOK' /\ stopped' \in Nat
<1>1. NoWork \in Works /\ NoWork.at # "done"
  BY DEF NoWork, Works
<1>2. ExecutorTypeOK /\ violations \in Nat /\ stopped \in Nat
  BY DEF TypeOK, ExecutorTypeOK
<1>3. work' = [work EXCEPT ![c] = NoWork] /\ executor' = executor /\ violations' = violations
      /\ stopped' \in Nat
  BY <1>2 DEF EnforcementEnds
<1> QED
  BY <1>1, <1>2, <1>3, WorkMoves

\* A sound hook stays sound while the conversation grows.
LEMMA SoundGrows ==
  ASSUME NEW n \in Nat, NEW m \in Nat, n <= m, NEW h, Sound(h, n)
  PROVE  Sound(h, m)
<1>1. h \in Hooks(m)
  <2>1. 0..n \subseteq 0..m
    OBVIOUS
  <2> QED
    BY <2>1 DEF Sound, Hooks
<1>2. 1..n \subseteq 1..m
  OBVIOUS
<1> QED
  BY <1>1, <1>2 DEF Sound

LEMMA HookMoves ==
  ASSUME TypeInv, NEW c \in Caller, NEW next, Sound(next, Len(messages)), Hooked(c, next)
  PROVE  /\ DOMAIN hook' = Caller /\ hook' = [d \in Caller |-> hook'[d]]
         /\ \A d \in Caller : Sound(hook'[d], Len(messages))
<1>1. hook = [d \in Caller |-> hook[d]]
  BY DEF TypeInv, TypeOK
<1> QED
  BY <1>1 DEF TypeInv, Hooked

\* What a state with sound hooks still has to have to be well typed.
LEMMA TypeInvFrom ==
  ASSUME TypeInv, settings' = settings, middleware' = middleware, ExecutorTypeOK',
         messages' \in Seq(Item), Len(messages') >= Len(messages), stopped' \in Nat,
         agent' \in Agents, hook' = [d \in Caller |-> hook'[d]],
         \A d \in Caller : Sound(hook'[d], Len(messages')) 
  PROVE  TypeInv'
<1>1. TypeOK'
  <2>1. \A d \in Caller : hook'[d] \in Hooks(Len(messages'))
    BY DEF Sound
  <2>2. hook' \in [Caller -> Hooks(Len(messages'))]
    BY <2>1
  <2> QED
    BY <2>2 DEF TypeOK, TypeInv, Hooks, Agents
<1>2. Len(messages') >= 1
  BY LenProperties DEF TypeInv, TypeOK
<1> QED
  BY <1>1, <1>2 DEF TypeInv

LEMMA AgentsTyped ==
  ASSUME TypeInv
  PROVE  /\ agent \in Agents
         /\ \A phase \in {"input", "scanning", "model", "output", "route", "tools", "ended"} :
              Enter(phase) \in Agents
         /\ \A error \in {"AgentGuardViolation", "AgentGuardMiddlewareError"} :
              Failed(error) \in Agents
<1>1. agent \in Agents
  BY DEF TypeInv, TypeOK, Agents
<1> QED
  BY <1>1 DEF Agents, Enter, Failed

LEMMA HooksTyped ==
  ASSUME TypeInv
  PROVE  /\ Sound(NoHook, Len(messages))
         /\ \A point \in {"input", "output"}, k \in 1..Len(messages), item \in Item :
              Sound(Scanning(point, k, item), Len(messages))
         /\ \A point \in {"tool_call", "tool_result"} :
              Sound(Scanning(point, 0, Fresh), Len(messages))
         /\ \A h : \A item \in Item :
              Sound(h, Len(messages)) =>
                /\ Sound(Moved(h, "run", item), Len(messages))
                /\ Sound(Moved(h, "done", item), Len(messages))
<1>1. Len(messages) \in Nat /\ Fresh \in Item
  BY LenProperties, ItemsTyped DEF TypeInv, TypeOK
<1>2. NoHook \in Hooks(Len(messages))
  BY <1>1 DEF NoHook, Hooks
<1>3. Sound(NoHook, Len(messages))
  BY <1>2 DEF NoHook, Sound
<1>4. ASSUME NEW point \in {"input", "output"}, NEW k \in 1..Len(messages), NEW item \in Item
      PROVE  Sound(Scanning(point, k, item), Len(messages))
  <2>1. k \in 0..Len(messages) /\ point \in Point
    BY <1>1, <1>4 DEF Point
  <2>2. Scanning(point, k, item) \in Hooks(Len(messages))
    BY <2>1 DEF Scanning, Hooks
  <2> QED
    BY <2>1, <2>2 DEF Scanning, Sound
<1>5. ASSUME NEW point \in {"tool_call", "tool_result"}
      PROVE  Sound(Scanning(point, 0, Fresh), Len(messages))
  <2>1. 0 \in 0..Len(messages) /\ point \in Point
    BY <1>1, <1>5 DEF Point
  <2>2. Scanning(point, 0, Fresh) \in Hooks(Len(messages))
    BY <1>1, <2>1 DEF Scanning, Hooks
  <2> QED
    BY <1>5, <2>1, <2>2 DEF Scanning, Sound
<1>6. ASSUME NEW h, NEW item \in Item, NEW label \in {"run", "done"}, Sound(h, Len(messages))
      PROVE  Sound(Moved(h, label, item), Len(messages))
  <2>1. Moved(h, label, item) \in Hooks(Len(messages))
    BY <1>6 DEF Sound, Hooks, Moved
  <2>2. Moved(h, label, item).at \notin {"check", "enforce"}
    BY <1>6 DEF Sound, Hooks, Moved
  <2> QED
    BY <2>1, <2>2 DEF Sound
<1> QED
  BY <1>3, <1>4, <1>5, <1>6

\* Where a hook goes that is done with one piece of content.
LEMMA GoesOn ==
  ASSUME TypeInv, NEW c \in Caller, NEW item, GoOn(c, item), hook[c].at \in {"check", "enforce"}
  PROVE  \/ /\ hook[c].point = "input" /\ hook[c].place + 1 \in 1..Len(messages)
            /\ Hooked(c, Scanning("input", hook[c].place + 1, messages[hook[c].place + 1]))
            /\ agent' = agent
         \/ /\ hook[c].point = "input" /\ hook[c].place = Len(messages)
            /\ Hooked(c, NoHook) /\ agent' = Enter("model")
         \/ hook[c].point = "output" /\ Hooked(c, NoHook) /\ agent' = Enter("route")
         \/ /\ hook[c].point = "tool_call"
            /\ Hooked(c, Moved(hook[c], "run", item)) /\ agent' = agent
         \/ /\ hook[c].point = "tool_result"
            /\ Hooked(c, Moved(hook[c], "done", item)) /\ agent' = agent
<1>1. Sound(hook[c], Len(messages)) /\ Len(messages) \in Nat
  BY LenProperties DEF TypeInv, TypeOK
<1>2. hook[c].point \in Point
  BY <1>1 DEF Sound
<1>3. CASE hook[c].point = "input"
  <2>1. hook[c].place \in 1..Len(messages)
    BY <1>1, <1>3 DEF Sound
  <2>2. CASE hook[c].place < Len(messages)
    BY <1>1, <1>3, <2>1, <2>2 DEF GoOn
  <2>3. CASE ~(hook[c].place < Len(messages))
    BY <1>1, <1>3, <2>1, <2>3 DEF GoOn
  <2> QED
    BY <2>2, <2>3
<1>4. CASE hook[c].point = "output"
  BY <1>4 DEF GoOn
<1>5. CASE hook[c].point = "tool_call"
  BY <1>5 DEF GoOn, Moved
<1>6. CASE hook[c].point = "tool_result"
  BY <1>6 DEF GoOn, Moved
<1> QED
  BY <1>2, <1>3, <1>4, <1>5, <1>6 DEF Point

LEMMA GoOnTyped ==
  ASSUME TypeInv, NEW c \in Caller, NEW item \in Item, GoOn(c, item),
         hook[c].at \in {"check", "enforce"}
  PROVE  agent' \in Agents /\ \E next : Sound(next, Len(messages)) /\ Hooked(c, next)
<1>1. Sound(hook[c], Len(messages))
  BY DEF TypeInv
<1>2. \A k \in 1..Len(messages) : messages[k] \in Item
  BY ElementOfSeq DEF TypeInv, TypeOK
<1>3. ASSUME hook[c].place + 1 \in 1..Len(messages)
      PROVE  Sound(Scanning("input", hook[c].place + 1, messages[hook[c].place + 1]), Len(messages))
  BY <1>2, <1>3, HooksTyped
<1>4. Sound(NoHook, Len(messages)) /\ Sound(Moved(hook[c], "run", item), Len(messages))
      /\ Sound(Moved(hook[c], "done", item), Len(messages))
  BY <1>1, HooksTyped
<1>5. agent \in Agents /\ Enter("model") \in Agents /\ Enter("route") \in Agents
  BY AgentsTyped
<1> QED
  BY <1>3, <1>4, <1>5, GoesOn
-----------------------------------------------------------------------------
(* What becomes of the conversation *)

\* The model has read all messages, and its answer is not scanned yet.
LEMMA ModelReads ==
  ASSUME TypeInv, ModelAnswers
  PROVE  /\ messages' \in Seq(Item) /\ Len(messages') = Len(messages) + 1
         /\ \A i \in 1..Len(messages') : messages'[i].verdict = "unscanned"
<1> DEFINE read == [i \in DOMAIN messages |-> [messages[i] EXCEPT !.verdict = "unscanned"]]
<1>1. messages \in Seq(Item) /\ Len(messages) \in Nat /\ DOMAIN messages = 1..Len(messages)
      /\ \A i \in 1..Len(messages) : messages[i] \in Item
  BY LenProperties, ElementOfSeq DEF TypeInv, TypeOK
<1>2. /\ \A i \in 1..Len(messages) : read[i] \in Item
      /\ \A i \in 1..Len(messages) : read[i].verdict = "unscanned"
  BY <1>1 DEF Item
<1>3. read \in Seq(Item) /\ Len(read) = Len(messages)
  BY <1>1, <1>2
<1>4. Fresh \in Item /\ Fresh.verdict = "unscanned"
  BY DEF Fresh, Item
<1>5. messages' = Append(read, Fresh)
  BY DEF ModelAnswers
<1> HIDE DEF read
<1>6. /\ messages' \in Seq(Item) /\ Len(messages') = Len(messages) + 1
      /\ \A i \in 1..Len(messages) : messages'[i] = read[i]
      /\ messages'[Len(messages) + 1] = Fresh
  BY <1>3, <1>4, <1>5, AppendProperties
<1>7. ASSUME NEW i \in 1..Len(messages')
      PROVE  i \in 1..Len(messages) \/ i = Len(messages) + 1
  BY <1>1, <1>6, <1>7
<1> QED
  BY <1>2, <1>4, <1>6, <1>7

\* The results of the tool calls are added to the messages there are.
LEMMA ToolsAnswer ==
  ASSUME TypeInv, ToolsReturn
  PROVE  /\ messages' \in Seq(Item) /\ Len(messages') >= Len(messages)
         /\ \A i \in 1..Len(messages') :
              \/ i \in 1..Len(messages) /\ messages'[i] = messages[i]
              \/ \E t \in agent.calls : messages'[i] = hook[t].item
<1> DEFINE Answers(order) == [i \in DOMAIN order |-> hook[order[i]].item]
<1>1. messages \in Seq(Item) /\ Len(messages) \in Nat
  BY LenProperties DEF TypeInv, TypeOK
<1>2. agent.calls \in SUBSET Tool /\ agent.calls \subseteq Caller
  BY CallerAssumption DEF TypeInv, TypeOK
<1>3. Cardinality(agent.calls) \in Nat
  BY <1>2, ToolAssumption, FS_Subset, FS_CardinalityType
<1>4. \A t \in agent.calls : hook[t].item \in Item
  BY <1>2 DEF TypeInv, Sound, Hooks
<1>5. PICK order \in SetToSeqs(agent.calls) : messages' = messages \o Answers(order)
  BY DEF ToolsReturn
<1>6. order \in [1..Cardinality(agent.calls) -> agent.calls]
  BY DEF SetToSeqs
<1> DEFINE answers == Answers(order)
<1>7. /\ answers \in Seq(Item) /\ Len(answers) = Cardinality(agent.calls)
      /\ \A i \in 1..Len(answers) : \E t \in agent.calls : answers[i] = hook[t].item
  <2>1. \A i \in 1..Cardinality(agent.calls) :
          order[i] \in agent.calls /\ answers[i] = hook[order[i]].item
    BY <1>6
  <2>2. answers \in [1..Cardinality(agent.calls) -> Item]
    BY <1>4, <1>6
  <2> HIDE DEF answers
  <2>3. answers \in Seq(Item) /\ Len(answers) = Cardinality(agent.calls)
    BY <1>3, <2>2
  <2> QED
    BY <2>1, <2>3
<1>8. messages' = messages \o answers
  BY <1>5
<1> HIDE DEF answers
<1>9. /\ messages' \in Seq(Item) /\ Len(messages') = Len(messages) + Len(answers)
      /\ \A i \in 1..Len(messages) + Len(answers) :
           messages'[i] = IF i <= Len(messages) THEN messages[i] ELSE answers[i - Len(messages)]
  BY <1>1, <1>7, <1>8, ConcatProperties
<1>10. ASSUME NEW i \in 1..Len(messages')
       PROVE  \/ i \in 1..Len(messages) /\ messages'[i] = messages[i]
              \/ \E t \in agent.calls : messages'[i] = hook[t].item
  <2>1. i \in 1..Len(messages) + Len(answers) /\ i \in Int /\ Len(answers) \in Nat
    BY <1>1, <1>3, <1>7, <1>9, <1>10
  <2>2. CASE i <= Len(messages)
    BY <1>1, <1>9, <2>1, <2>2
  <2>3. CASE ~(i <= Len(messages))
    <3>1. i - Len(messages) \in 1..Len(answers)
      BY <1>1, <2>1, <2>3
    <3> QED
      BY <1>7, <1>9, <2>1, <2>3, <3>1
  <2> QED
    BY <2>2, <2>3
<1> QED
  BY <1>1, <1>3, <1>7, <1>9, <1>10

\* A hook writes one message or none, or adds one: the enforced content.
LEMMA EnforcedWritten ==
  ASSUME TypeInv, NEW c \in Caller, WriteBack(c) \/ Answered(c)
  PROVE  /\ Enforced(c) \in Item /\ messages' \in Seq(Item) /\ Len(messages') >= Len(messages)
         /\ \A i \in 1..Len(messages') :
              messages'[i] = Enforced(c) \/ (i \in 1..Len(messages) /\ messages'[i] = messages[i])
         /\ WriteBack(c) => Len(messages') = Len(messages)
         /\ WriteBack(c) /\ hook[c].point # "input" => messages' = messages
         /\ WriteBack(c) /\ hook[c].point = "input" =>
              /\ hook[c].place \in 1..Len(messages) /\ messages'[hook[c].place] = Enforced(c)
              /\ \A i \in 1..Len(messages) : i # hook[c].place => messages'[i] = messages[i]
<1> DEFINE item == Enforced(c)
           place == hook[c].place
           written == [messages EXCEPT ![place] = item]
<1>1. messages \in Seq(Item) /\ Len(messages) \in Nat
  BY LenProperties DEF TypeInv, TypeOK
<1>2. Sound(hook[c], Len(messages)) /\ hook[c].at = "enforce"
  BY DEF TypeInv, WriteBack, Answered, EnforcementEnds
<1>3. item \in Item
  BY <1>2, ItemsTyped DEF Enforced, Sound, Hooks
<1>4. ASSUME hook[c].point \in {"input", "output"}
      PROVE  /\ place \in 1..Len(messages) /\ written \in Seq(Item)
             /\ Len(written) = Len(messages)
             /\ \A i \in 1..Len(messages) : written[i] = IF i = place THEN item ELSE messages[i]
  <2>1. place \in 1..Len(messages)
    BY <1>2, <1>4 DEF Sound
  <2> HIDE DEF item, place
  <2> QED
    BY <1>1, <1>3, <2>1, ExceptSeq
<1>5. CASE WriteBack(c) /\ hook[c].point = "input"
  <2>1. messages' = written
    BY <1>5 DEF WriteBack
  <2>2. ~Answered(c)
    BY <1>5 DEF Answered
  <2> HIDE DEF item, written, place
  <2> QED
    BY <1>1, <1>3, <1>4, <1>5, <2>1 DEF item, place
<1>6. CASE WriteBack(c) /\ hook[c].point # "input"
  <2>1. messages' = messages
    BY <1>6 DEF WriteBack
  <2> QED
    BY <1>1, <1>3, <1>6, <2>1
<1>7. CASE Answered(c)
  <2>1. hook[c].point = "output" /\ ~WriteBack(c)
    BY <1>7 DEF Answered, WriteBack
  <2>2. CASE messages' = Append(messages, item)
    <3> HIDE DEF item
    <3>1. /\ messages' \in Seq(Item) /\ Len(messages') = Len(messages) + 1
          /\ \A i \in 1..Len(messages) : messages'[i] = messages[i]
          /\ messages'[Len(messages) + 1] = item
      BY <1>1, <1>3, <2>2, AppendProperties
    <3>2. \A i \in 1..Len(messages) + 1 : i \in 1..Len(messages) \/ i = Len(messages) + 1
      BY <1>1
    <3> QED
      BY <1>1, <1>3, <2>1, <3>1, <3>2 DEF item
  <2>3. CASE messages' = written
    <3> HIDE DEF item, written, place
    <3> QED
      BY <1>1, <1>3, <1>4, <2>1, <2>3 DEF item
  <2> QED
    BY <1>7, <2>2, <2>3 DEF Answered, AddMessage
<1> QED
  BY <1>5, <1>6, <1>7
-----------------------------------------------------------------------------
(* Every step keeps the types *)

LEMMA AgentKeepsTypes ==
  ASSUME TypeInv, AgentStep
  PROVE  TypeInv'
<1> DEFINE Same == /\ settings' = settings /\ executor' = executor /\ violations' = violations
                   /\ work' = work /\ middleware' = middleware /\ stopped' = stopped
<1>1. /\ messages \in Seq(Item) /\ Len(messages) \in Nat /\ 1 <= Len(messages)
      /\ \A i \in 1..Len(messages) : messages[i] \in Item
  BY LenProperties, ElementOfSeq DEF TypeInv, TypeOK
<1>2. /\ hook = [d \in Caller |-> hook[d]]
      /\ \A d \in Caller : Sound(hook[d], Len(messages))
  BY DEF TypeInv, TypeOK
<1>3. Fresh \in Item
  BY ItemsTyped
<1>4. ASSUME Same, messages' \in Seq(Item), Len(messages') >= Len(messages), agent' \in Agents,
             hook' = [d \in Caller |-> hook'[d]], \A d \in Caller : Sound(hook'[d], Len(messages))
      PROVE  TypeInv'
  <2>1. \A d \in Caller : Sound(hook'[d], Len(messages'))
    BY <1>1, <1>4, LenProperties, SoundGrows
  <2>2. ExecutorTypeOK' /\ stopped' \in Nat
    BY <1>4 DEF TypeInv, TypeOK, ExecutorTypeOK, At
  <2> QED
    BY <1>4, <2>1, <2>2, TypeInvFrom
<1>5. ASSUME Same, messages' = messages, agent' \in Agents, NEW c \in Caller, NEW next,
             Sound(next, Len(messages)), Hooked(c, next)
      PROVE  TypeInv'
  BY <1>1, <1>4, <1>5, HookMoves
<1>6. ASSUME Same, messages' \in Seq(Item), Len(messages') >= Len(messages), agent' \in Agents,
             hook' = hook
      PROVE  TypeInv'
  BY <1>2, <1>4, <1>6
<1>7. Loop \in Caller /\ Tool \subseteq Caller
  BY CallerAssumption
<1>8. CASE BeforeModel
  <2>1. Sound(Scanning("input", 1, messages[1]), Len(messages))
    <3>1. 1 \in 1..Len(messages)
      BY <1>1
    <3> QED
      BY <1>1, <3>1, HooksTyped
  <2>2. Enter("scanning") \in Agents /\ Enter("model") \in Agents
    BY AgentsTyped
  <2>3. Same /\ messages' = messages
    BY <1>8 DEF BeforeModel
  <2>4. CASE Hooked(Loop, Scanning("input", 1, messages[1])) /\ agent' = Enter("scanning")
    BY <1>5, <1>7, <2>1, <2>2, <2>3, <2>4
  <2>5. CASE UNCHANGED hook /\ agent' = Enter("model")
    BY <1>1, <1>6, <2>2, <2>3, <2>5
  <2> QED
    BY <1>8, <2>4, <2>5 DEF BeforeModel
<1>9. CASE ModelAnswers
  <2>1. Same /\ hook' = hook
    BY <1>9 DEF ModelAnswers
  <2>2. agent' \in Agents
    BY <1>9, AgentsTyped DEF ModelAnswers, Agents
  <2> QED
    BY <1>1, <1>6, <1>9, <2>1, <2>2, ModelReads
<1>10. CASE AfterModel
  <2>1. Sound(Scanning("output", Len(messages), messages[Len(messages)]), Len(messages))
    <3>1. Len(messages) \in 1..Len(messages)
      BY <1>1
    <3> QED
      BY <1>1, <3>1, HooksTyped
  <2>2. Enter("scanning") \in Agents /\ Enter("route") \in Agents
    BY AgentsTyped
  <2>3. Same /\ messages' = messages
    BY <1>10 DEF AfterModel
  <2>4. CASE /\ Hooked(Loop, Scanning("output", Len(messages), messages[Len(messages)]))
             /\ agent' = Enter("scanning")
    BY <1>5, <1>7, <2>1, <2>2, <2>3, <2>4
  <2>5. CASE UNCHANGED hook /\ agent' = Enter("route")
    BY <1>1, <1>6, <2>2, <2>3, <2>5
  <2> QED
    BY <1>10, <2>4, <2>5 DEF AfterModel
<1>11. CASE Route
  <2> DEFINE next == Scanning("tool_call", 0, Fresh)
             run == [Scanning("tool_call", 0, Fresh) EXCEPT !.at = "run"]
  <2>1. Sound(next, Len(messages))
    BY HooksTyped
  <2>2. Sound(run, Len(messages))
    <3>1. run = [at |-> "run", point |-> "tool_call", place |-> 0, item |-> Fresh]
      BY DEF Scanning
    <3>2. 0 \in 0..Len(messages) /\ "tool_call" \in Point
      BY <1>1 DEF Point
    <3> HIDE DEF run
    <3>3. run \in Hooks(Len(messages))
      BY <1>3, <3>1, <3>2 DEF Hooks
    <3> QED
      BY <3>1, <3>3 DEF Sound
  <2>3. Enter("ended") \in Agents /\ Enter("tools") \in Agents
    BY AgentsTyped
  <2>4. Same /\ messages' = messages /\ agent' \in Agents
    BY <1>11, <2>3 DEF Route
  <2>5. hook' = [d \in Caller |-> IF d \notin agent.calls THEN hook[d]
                                  ELSE IF Scanned("tool_call") THEN next ELSE run]
    BY <1>11 DEF Route
  <2> HIDE DEF next, run
  <2> QED
    BY <1>1, <1>2, <1>4, <2>1, <2>2, <2>4, <2>5
<1>12. ASSUME NEW t \in Tool, ToolRuns(t)
       PROVE  TypeInv'
  <2> DEFINE next == Scanning("tool_result", 0, Fresh)
             done == [NoHook EXCEPT !.at = "done"]
  <2>1. Sound(next, Len(messages))
    BY HooksTyped
  <2>2. Sound(done, Len(messages))
    <3>1. done \in Hooks(Len(messages))
      BY <1>1, <1>3 DEF NoHook, Hooks
    <3> QED
      BY <3>1 DEF Sound, NoHook
  <2>3. Same /\ messages' = messages /\ agent' \in Agents
    BY <1>12, AgentsTyped DEF ToolRuns
  <2>4. Hooked(t, IF Scanned("tool_result") THEN next ELSE done)
    BY <1>12 DEF ToolRuns
  <2> HIDE DEF next, done
  <2> QED
    BY <1>5, <1>7, <2>1, <2>2, <2>3, <2>4
<1>13. CASE ToolsReturn
  <2>1. Same /\ hook' = [d \in Caller |-> NoHook]
    BY <1>13 DEF ToolsReturn
  <2>2. Sound(NoHook, Len(messages))
    BY HooksTyped
  <2>3. agent' \in Agents
    BY <1>13, AgentsTyped DEF ToolsReturn, Agents
  <2> QED
    BY <1>4, <1>13, <2>1, <2>2, <2>3, ToolsAnswer
<1> QED
  BY <1>8, <1>9, <1>10, <1>11, <1>12, <1>13 DEF AgentStep

\* A verdict is there, and its enforcement begins.
LEMMA Judges ==
  ASSUME TypeInv, NEW c \in Caller, Checked(c)
  PROVE  \E a \in InspectAnswers(settings) :
           /\ a.outcome = "returned" /\ a.decision \in Action /\ a.detected \in BOOLEAN
           /\ Hooked(c, Moved(hook[c], "enforce", Judged(hook[c].item, a)))
           /\ work' = [work EXCEPT ![c] = Enforcing(a.decision, a.detected)]
           /\ Enforcing(a.decision, a.detected) \in Works
           /\ Enforcing(a.decision, a.detected).at = "enforce"
           /\ Enforces(Enforcing(a.decision, a.detected), Judged(hook[c].item, a))
           /\ Sound(Moved(hook[c], "enforce", Judged(hook[c].item, a)), Len(messages))
<1>1. Sound(hook[c], Len(messages)) /\ hook[c].at = "check"
  BY DEF TypeInv, Checked
<1>2. PICK a \in InspectAnswers(settings) :
           /\ a.outcome = "returned"
           /\ Hooked(c, Moved(hook[c], "enforce", Judged(hook[c].item, a)))
           /\ work' = [work EXCEPT ![c] = Enforcing(a.decision, a.detected)]
  BY DEF Checked, Moved
<1>3. a.decision \in Action /\ a.detected \in BOOLEAN
  <2>1. settings \in GuardSettings(SeverityPolicies)
    BY SettingsAssumption DEF TypeInv, TypeOK
  <2> QED
    BY <1>2, <2>1, InspectTyped
<1>4. hook[c].item \in Item
  BY <1>1 DEF Sound, Hooks
<1>5. /\ Enforcing(a.decision, a.detected) \in Works
      /\ Enforcing(a.decision, a.detected).at = "enforce"
      /\ Judged(hook[c].item, a) \in Item
      /\ Enforces(Enforcing(a.decision, a.detected), Judged(hook[c].item, a))
  BY <1>3, <1>4, EnforcingFits
<1>6. ASSUME NEW item \in Item
      PROVE  Sound(Moved(hook[c], "enforce", item), Len(messages))
  <2>1. Moved(hook[c], "enforce", item) \in Hooks(Len(messages))
    BY <1>1 DEF Sound, Hooks, Moved
  <2>2. /\ Moved(hook[c], "enforce", item).point = hook[c].point
        /\ Moved(hook[c], "enforce", item).place = hook[c].place
    BY <1>1 DEF Sound, Hooks, Moved
  <2> QED
    BY <1>1, <2>1, <2>2 DEF Sound
<1> QED
  BY <1>2, <1>3, <1>4, <1>5, <1>6

\* An error that fail_open does not swallow ends the hook and the invocation.
LEMMA UnexpectedTyped ==
  ASSUME TypeInv, NEW c \in Caller, hook[c].at \in {"check", "enforce"}, Unexpected(c)
  PROVE  agent' \in Agents /\ \E next : Sound(next, Len(messages)) /\ Hooked(c, next)
<1>1. hook[c].item \in Item
  BY DEF TypeInv, Sound, Hooks
<1>2. /\ Sound(NoHook, Len(messages)) /\ Enter("model") \in Agents
      /\ Failed("AgentGuardMiddlewareError") \in Agents
  BY HooksTyped, AgentsTyped
<1>3. CASE Raises(c, "AgentGuardMiddlewareError")
  BY <1>2, <1>3 DEF Raises
<1>4. CASE Hooked(c, NoHook) /\ agent' = Enter("model")
  BY <1>2, <1>4
<1>5. CASE GoOn(c, hook[c].item)
  BY <1>1, <1>5, GoOnTyped
<1> QED
  BY <1>3, <1>4, <1>5 DEF Unexpected, Abandon

LEMMA HookKeepsTypes ==
  ASSUME TypeInv, NEW c \in Caller, HookStep(c)
  PROVE  TypeInv'
<1>1. messages \in Seq(Item) /\ Len(messages) \in Nat
  BY LenProperties DEF TypeInv, TypeOK
<1>2. ASSUME settings' = settings, middleware' = middleware, ExecutorTypeOK', stopped' \in Nat,
             messages' \in Seq(Item), Len(messages') >= Len(messages), agent' \in Agents,
             NEW next, Sound(next, Len(messages)), Hooked(c, next)
      PROVE  TypeInv'
  <2>1. hook' = [d \in Caller |-> hook'[d]] /\ \A d \in Caller : Sound(hook'[d], Len(messages))
    BY <1>2, HookMoves
  <2>2. \A d \in Caller : Sound(hook'[d], Len(messages'))
    BY <1>1, <1>2, <2>1, LenProperties, SoundGrows
  <2> QED
    BY <1>2, <2>1, <2>2, TypeInvFrom
<1>3. CASE Checked(c)
  <2>1. /\ settings' = settings /\ executor' = executor /\ violations' = violations
        /\ middleware' = middleware /\ agent' = agent /\ messages' = messages /\ stopped' = stopped
    BY <1>3 DEF Checked
  <2>2. agent' \in Agents
    BY <2>1, AgentsTyped
  <2>3. ExecutorTypeOK /\ violations \in Nat /\ stopped \in Nat
    BY DEF TypeInv, TypeOK, ExecutorTypeOK
  <2>4. PICK a \in InspectAnswers(settings) :
           /\ Hooked(c, Moved(hook[c], "enforce", Judged(hook[c].item, a)))
           /\ work' = [work EXCEPT ![c] = Enforcing(a.decision, a.detected)]
           /\ Enforcing(a.decision, a.detected) \in Works
           /\ Sound(Moved(hook[c], "enforce", Judged(hook[c].item, a)), Len(messages))
    BY <1>3, Judges
  <2>5. Enforcing(a.decision, a.detected).at # "done"
    BY DEF Enforcing, NoWork
  <2>6. ExecutorTypeOK'
    BY <2>1, <2>3, <2>4, <2>5, WorkMoves
  <2> QED
    BY <1>1, <1>2, <2>1, <2>2, <2>3, <2>4, <2>6
<1>4. CASE CheckRaises(c)
  <2>1. /\ settings' = settings /\ executor' = executor /\ violations' = violations
        /\ work' = work /\ middleware' = middleware /\ messages' = messages /\ stopped' = stopped
    BY <1>4 DEF CheckRaises
  <2>2. hook[c].at = "check" /\ Unexpected(c)
    BY <1>4 DEF CheckRaises
  <2>3. ExecutorTypeOK' /\ stopped' \in Nat
    BY <2>1 DEF TypeInv, TypeOK, ExecutorTypeOK, At
  <2> QED
    BY <1>1, <1>2, <2>1, <2>2, <2>3, UnexpectedTyped
<1>5. ASSUME EnforcementEnds(c)
      PROVE  /\ settings' = settings /\ middleware' = middleware /\ ExecutorTypeOK'
             /\ stopped' \in Nat /\ hook[c].at = "enforce"
  BY <1>5, EndTyped DEF TypeInv, EnforcementEnds
<1>6. CASE Violation(c)
  <2>1. EnforcementEnds(c) /\ messages' = messages /\ Hooked(c, NoHook)
        /\ agent' = Failed("AgentGuardViolation")
    BY <1>6 DEF Violation, Raises
  <2>2. Sound(NoHook, Len(messages)) /\ Failed("AgentGuardViolation") \in Agents
    BY HooksTyped, AgentsTyped
  <2> QED
    BY <1>1, <1>2, <1>5, <2>1, <2>2
<1>7. CASE WriteBack(c)
  <2>1. EnforcementEnds(c) /\ GoOn(c, Enforced(c))
    BY <1>7 DEF WriteBack
  <2>2. Enforced(c) \in Item /\ messages' \in Seq(Item) /\ Len(messages') >= Len(messages)
    BY <1>7, EnforcedWritten
  <2> QED
    BY <1>2, <1>5, <2>1, <2>2, GoOnTyped
<1>8. CASE Answered(c)
  <2>1. EnforcementEnds(c) /\ Hooked(c, NoHook)
    BY <1>8 DEF Answered
  <2>2. messages' \in Seq(Item) /\ Len(messages') >= Len(messages)
    BY <1>8, EnforcedWritten
  <2>3. Sound(NoHook, Len(messages)) /\ Enter("route") \in Agents
    BY HooksTyped, AgentsTyped
  <2>4. [agent EXCEPT !.phase = "route", !.calls = {}] \in Agents
    BY AgentsTyped DEF Agents
  <2>5. agent' \in Agents
    BY <1>8, <2>3, <2>4 DEF Answered
  <2> QED
    BY <1>2, <1>5, <2>1, <2>2, <2>3, <2>5
<1> QED
  BY <1>3, <1>4, <1>6, <1>7, <1>8 DEF HookStep

LEMMA TypesKept ==
  ASSUME TypeInv, [Next]_vars
  PROVE  TypeInv'
<1>1. CASE AgentStep
  BY <1>1, AgentKeepsTypes
<1>2. ASSUME NEW c \in Caller, HookStep(c)
      PROVE  TypeInv'
  BY <1>2, HookKeepsTypes
<1>3. ASSUME NEW c \in Caller, ExecutorStep(c)
      PROVE  TypeInv'
  <2>1. /\ settings' = settings /\ middleware' = middleware /\ agent' = agent
        /\ messages' = messages /\ hook' = hook /\ stopped' = stopped
    BY <1>3, StepLeavesSettings DEF ExecutorStep, Next
  <2>2. ExecutorTypeOK'
    BY <1>3, EnforceTyped DEF ExecutorStep, TypeInv, TypeOK
  <2> QED
    BY <2>1, <2>2 DEF TypeInv, TypeOK
<1>4. CASE UNCHANGED vars
  BY <1>4 DEF vars, TypeInv, TypeOK, ExecutorTypeOK, At
<1> QED
  BY <1>1, <1>2, <1>3, <1>4 DEF Next

LEMMA TypesAtFirst ==
  ASSUME Init
  PROVE  TypeInv
<1>1. messages = <<Fresh>> /\ Fresh \in Item
  BY ItemsTyped DEF Init
<1>2. messages \in Seq(Item) /\ Len(messages) = 1
  BY <1>1
<1>3. NoHook \in Hooks(Len(messages)) /\ Sound(NoHook, Len(messages))
  BY <1>1, <1>2 DEF NoHook, Hooks, Sound
<1>4. hook = [c \in Caller |-> NoHook]
  BY DEF Init
<1>5. NoWork \in Works /\ NoWork.at # "done"
  BY DEF NoWork, Works
<1>6. ExecutorTypeOK
  BY <1>5 DEF Init, ExecutorInit, ExecutorTypeOK, Works, At
<1>7. agent \in Agents
  BY DEF Init, Agents
<1>8. middleware \in [failOpen : BOOLEAN, scan : SUBSET Point]
  BY ScansAssumption DEF Init
<1>9. hook \in [Caller -> Hooks(Len(messages))]
  BY <1>3, <1>4
<1>10. TypeOK
  BY <1>2, <1>6, <1>7, <1>8, <1>9 DEF TypeOK, Init, Agents, Hooks
<1> QED
  BY <1>2, <1>3, <1>4, <1>10 DEF TypeInv

\* Every reachable state of agent, hooks and executor is well typed: whatever the
\* hooks do to the conversation, each scan is of a message that is there.
THEOREM TypeCorrect == Spec => []TypeOK
<1>1. Init => TypeInv
  BY TypesAtFirst
<1>2. TypeInv /\ [Next]_vars => TypeInv'
  BY TypesKept
<1>3. TypeInv => TypeOK
  BY DEF TypeInv
<1> QED
  BY <1>1, <1>2, <1>3, PTL DEF Spec
-----------------------------------------------------------------------------
(* Whose turn it is, and what enforcements have to do with verdicts *)

\* The loop's hooks run while it scans, the hooks of tool calls while tools run.
Turns ==
  /\ hook[Loop].at \in {"rest", "check", "enforce"}
  /\ hook[Loop].at # "rest" =>
       agent.phase = "scanning" /\ hook[Loop].point \in {"input", "output"}
  /\ \A t \in Tool : hook[t].at # "rest" =>
       /\ agent.phase \in {"tools", "raised"}
       /\ agent.phase = "tools" => t \in agent.calls
       /\ hook[t].at \in {"check", "enforce"} => hook[t].point \in {"tool_call", "tool_result"}

Enforcements ==
  \A c \in Caller :
    /\ hook[c].at # "enforce" => work[c] = NoWork
    /\ hook[c].at = "enforce" => work[c].at # "rest" /\ Enforces(work[c], hook[c].item)

\* Where a hook goes that leaves the content it has.
LeavesTo(c, next, item) ==
  \/ next = NoHook /\ agent'.phase = "raised" /\ agent'.calls = agent.calls
  \/ hook[c].point = "input" /\ next = NoHook /\ agent'.phase = "model"
  \/ /\ hook[c].point = "input" /\ hook[c].place + 1 \in 1..Len(messages)
     /\ next = Scanning("input", hook[c].place + 1, messages[hook[c].place + 1])
     /\ agent' = agent
  \/ hook[c].point = "output" /\ next = NoHook /\ agent'.phase = "route"
  \/ hook[c].point = "tool_call" /\ next = Moved(hook[c], "run", item) /\ agent' = agent
  \/ hook[c].point = "tool_result" /\ next = Moved(hook[c], "done", item) /\ agent' = agent

LEMMA PhasesEntered ==
  ASSUME TypeInv
  PROVE  /\ \A phase : Enter(phase).phase = phase /\ Enter(phase).calls = agent.calls
         /\ \A error : Failed(error).phase = "raised" /\ Failed(error).calls = agent.calls
<1>1. agent \in Agents
  BY AgentsTyped
<1> QED
  BY <1>1 DEF Agents, Enter, Failed

LEMMA GoOnLeaves ==
  ASSUME TypeInv, NEW c \in Caller, NEW item, GoOn(c, item), hook[c].at \in {"check", "enforce"}
  PROVE  \E next : Hooked(c, next) /\ LeavesTo(c, next, item)
BY GoesOn, PhasesEntered DEF LeavesTo

LEMMA UnexpectedLeaves ==
  ASSUME TypeInv, NEW c \in Caller, Unexpected(c), hook[c].at \in {"check", "enforce"}
  PROVE  \E next : Hooked(c, next) /\ LeavesTo(c, next, hook[c].item)
<1>1. CASE Raises(c, "AgentGuardMiddlewareError")
  BY <1>1, PhasesEntered DEF Raises, LeavesTo
<1>2. CASE hook[c].point = "input" /\ Hooked(c, NoHook) /\ agent' = Enter("model")
  BY <1>2, PhasesEntered DEF LeavesTo
<1>3. CASE GoOn(c, hook[c].item)
  BY <1>3, GoOnLeaves
<1> QED
  BY <1>1, <1>2, <1>3 DEF Unexpected, Abandon

LEMMA HookLeaves ==
  ASSUME TypeInv, NEW c \in Caller, HookStep(c), ~Checked(c)
  PROVE  /\ \/ hook[c].at = "check" /\ work' = work
            \/ hook[c].at = "enforce" /\ work[c].at = "done" /\ work' = [work EXCEPT ![c] = NoWork]
         /\ \E next, item :
              /\ Hooked(c, next) /\ LeavesTo(c, next, item)
              /\ \/ CheckRaises(c) /\ item = hook[c].item
                 \/ /\ WriteBack(c) /\ item = Enforced(c)
                    /\ work[c].result # "violation"
                 \/ next = NoHook /\ ~CheckRaises(c) /\ ~WriteBack(c)
<1>1. CASE CheckRaises(c)
  BY <1>1, UnexpectedLeaves DEF CheckRaises
<1>2. ASSUME EnforcementEnds(c)
      PROVE  /\ hook[c].at = "enforce" /\ work[c].at = "done" /\ ~CheckRaises(c)
             /\ work' = [work EXCEPT ![c] = NoWork]
  BY <1>2 DEF EnforcementEnds, CheckRaises, At
<1>3. CASE Violation(c)
  <2>1. EnforcementEnds(c) /\ ~WriteBack(c)
    BY <1>3 DEF Violation, WriteBack
  <2>2. Hooked(c, NoHook) /\ agent' = Failed("AgentGuardViolation")
    BY <1>3 DEF Violation, Raises
  <2>3. LeavesTo(c, NoHook, hook[c].item)
    BY <2>2, PhasesEntered DEF LeavesTo
  <2> QED
    BY <1>2, <2>1, <2>2, <2>3
<1>4. CASE WriteBack(c)
  <2>1. EnforcementEnds(c) /\ GoOn(c, Enforced(c)) /\ work[c].result # "violation"
    BY <1>4 DEF WriteBack
  <2> QED
    BY <1>2, <1>4, <2>1, GoOnLeaves
<1>5. CASE Answered(c)
  <2>1. EnforcementEnds(c) /\ ~WriteBack(c) /\ hook[c].point = "output" /\ Hooked(c, NoHook)
    BY <1>5 DEF Answered, WriteBack
  <2>2. agent \in Agents
    BY AgentsTyped
  <2>3. [agent EXCEPT !.phase = "route", !.calls = {}].phase = "route"
    BY <2>2 DEF Agents
  <2>4. agent'.phase = "route"
    BY <1>5, <2>3, PhasesEntered DEF Answered
  <2>5. LeavesTo(c, NoHook, hook[c].item)
    BY <2>1, <2>4 DEF LeavesTo
  <2> QED
    BY <1>2, <2>1, <2>5
<1> QED
  BY <1>1, <1>3, <1>4, <1>5 DEF HookStep

LEMMA Fields ==
  /\ NoHook.at = "rest"
  /\ \A point, k, item :
       /\ Scanning(point, k, item).at = "check" /\ Scanning(point, k, item).point = point
       /\ Scanning(point, k, item).place = k /\ Scanning(point, k, item).item = item
  /\ \A n, h, label, item : Sound(h, n) =>
       /\ Moved(h, label, item).at = label /\ Moved(h, label, item).point = h.point
       /\ Moved(h, label, item).place = h.place /\ Moved(h, label, item).item = item
<1>1. ASSUME NEW n, NEW h, NEW label, NEW item, Sound(h, n)
      PROVE  /\ Moved(h, label, item).at = label /\ Moved(h, label, item).point = h.point
             /\ Moved(h, label, item).place = h.place /\ Moved(h, label, item).item = item
  BY <1>1 DEF Sound, Hooks, Moved
<1> QED
  BY <1>1 DEF NoHook, Scanning

LEMMA AgentKeepsTurns ==
  ASSUME TypeInv, Turns, AgentStep
  PROVE  Turns'
<1>1. Loop \in Caller /\ Tool \subseteq Caller /\ Loop \notin Tool /\ agent \in Agents
  BY CallerAssumption, AgentsTyped
<1>2. /\ hook = [d \in Caller |-> hook[d]] /\ agent.calls \subseteq Tool
      /\ \A d \in Caller : Sound(hook[d], Len(messages))
  BY DEF TypeInv, TypeOK
<1>3. CASE BeforeModel
  <2>1. \A d \in Caller : hook[d].at = "rest"
    BY <1>3 DEF BeforeModel, AtRest
  <2>2. CASE Hooked(Loop, Scanning("input", 1, messages[1])) /\ agent' = Enter("scanning")
    <3>1. hook'[Loop].at = "check" /\ hook'[Loop].point = "input" /\ agent'.phase = "scanning"
      BY <1>1, <1>2, <2>2, Fields, PhasesEntered DEF Hooked
    <3>2. \A t \in Tool : hook'[t].at = "rest"
      BY <1>1, <1>2, <2>1, <2>2 DEF Hooked
    <3> QED
      BY <3>1, <3>2 DEF Turns
  <2>3. CASE hook' = hook
    BY <1>1, <2>1, <2>3 DEF Turns
  <2> QED
    BY <1>3, <2>2, <2>3 DEF BeforeModel
<1>4. CASE AfterModel
  <2>1. \A d \in Caller : hook[d].at = "rest"
    BY <1>4 DEF AfterModel, AtRest
  <2>2. CASE /\ Hooked(Loop, Scanning("output", Len(messages), messages[Len(messages)]))
             /\ agent' = Enter("scanning")
    <3>1. hook'[Loop].at = "check" /\ hook'[Loop].point = "output" /\ agent'.phase = "scanning"
      BY <1>1, <1>2, <2>2, Fields, PhasesEntered DEF Hooked
    <3>2. \A t \in Tool : hook'[t].at = "rest"
      BY <1>1, <1>2, <2>1, <2>2 DEF Hooked
    <3> QED
      BY <3>1, <3>2 DEF Turns
  <2>3. CASE hook' = hook
    BY <1>1, <2>1, <2>3 DEF Turns
  <2> QED
    BY <1>4, <2>2, <2>3 DEF AfterModel
<1>5. CASE ModelAnswers
  <2>1. agent.phase = "model" /\ hook' = hook
    BY <1>5 DEF ModelAnswers
  <2>2. hook[Loop].at = "rest" /\ \A t \in Tool : hook[t].at = "rest"
    BY <2>1 DEF Turns
  <2> QED
    BY <2>1, <2>2 DEF Turns
<1>6. CASE Route
  <2>1. agent.phase = "route"
    BY <1>6 DEF Route
  <2>2. hook[Loop].at = "rest" /\ \A t \in Tool : hook[t].at = "rest"
    BY <2>1 DEF Turns
  <2> DEFINE next == Scanning("tool_call", 0, Fresh)
             run == [Scanning("tool_call", 0, Fresh) EXCEPT !.at = "run"]
  <2>3. hook' = [d \in Caller |-> IF d \notin agent.calls THEN hook[d]
                                  ELSE IF Scanned("tool_call") THEN next ELSE run]
    BY <1>6 DEF Route
  <2>4. next.at = "check" /\ next.point = "tool_call" /\ run.at = "run"
    BY DEF Scanning
  <2> HIDE DEF next, run
  <2>5. hook'[Loop].at = "rest"
    BY <1>1, <1>2, <2>2, <2>3
  <2>6. CASE agent.calls = {}
    <3>1. \A t \in Tool : hook'[t].at = "rest"
      BY <1>1, <2>2, <2>3, <2>6
    <3> QED
      BY <2>5, <3>1 DEF Turns
  <2>7. CASE agent.calls # {}
    <3>1. agent'.phase = "tools" /\ agent'.calls = agent.calls
      BY <1>6, <2>7, PhasesEntered DEF Route
    <3>2. \A t \in Tool : hook'[t].at # "rest" => t \in agent.calls
      BY <1>1, <2>2, <2>3
    <3>3. \A t \in agent.calls : hook'[t] = next \/ hook'[t] = run
      BY <1>1, <1>2, <2>3
    <3>4. \A t \in Tool : hook'[t].at \in {"check", "enforce"} =>
            hook'[t].point \in {"tool_call", "tool_result"}
      BY <2>4, <3>2, <3>3
    <3> QED
      BY <2>5, <3>1, <3>2, <3>4 DEF Turns
  <2> QED
    BY <2>6, <2>7
<1>7. ASSUME NEW t \in Tool, ToolRuns(t)
      PROVE  Turns'
  <2> DEFINE next == Scanning("tool_result", 0, Fresh)
             done == [NoHook EXCEPT !.at = "done"]
  <2>1. next.at = "check" /\ next.point = "tool_result" /\ done.at = "done"
    BY DEF Scanning, NoHook
  <2>2. hook[t].at = "run" /\ agent' = agent
    BY <1>7 DEF ToolRuns
  <2>3. \E h : Hooked(t, h) /\ h \in {next, done}
    BY <1>7 DEF ToolRuns
  <2> HIDE DEF next, done
  <2>4. PICK h \in {next, done} : Hooked(t, h)
    BY <2>3
  <2>5. hook'[t] = h /\ \A d \in Caller : d # t => hook'[d] = hook[d]
    BY <1>1, <1>2, <2>4 DEF Hooked
  <2>6. h.at \in {"check", "done"} /\ (h.at = "check" => h.point = "tool_result")
    BY <2>1, <2>4
  <2>7. hook[t].at # "rest"
    BY <2>2
  <2> QED
    BY <1>1, <2>2, <2>5, <2>6, <2>7 DEF Turns
<1>8. CASE ToolsReturn
  <2>1. \A d \in Caller : hook'[d].at = "rest"
    BY <1>8, Fields DEF ToolsReturn
  <2> QED
    BY <1>1, <2>1 DEF Turns
<1> QED
  BY <1>3, <1>4, <1>5, <1>6, <1>7, <1>8 DEF AgentStep

LEMMA TurnsKept ==
  ASSUME TypeInv, Turns, [Next]_vars
  PROVE  Turns'
<1>1. Loop \in Caller /\ Tool \subseteq Caller /\ Loop \notin Tool /\ Caller = Tool \cup {Loop}
  BY CallerAssumption
<1>2. \A d \in Caller : Sound(hook[d], Len(messages))
  BY DEF TypeInv
<1>3. CASE AgentStep
  BY <1>3, AgentKeepsTurns
<1>4. ASSUME NEW c \in Caller, HookStep(c)
      PROVE  Turns'
  <2>1. ASSUME NEW next, Hooked(c, next)
        PROVE  hook'[c] = next /\ \A d \in Caller : d # c => hook'[d] = hook[d]
    BY <2>1 DEF Hooked, TypeInv, TypeOK
  <2>2. CASE Checked(c)
    <3>1. PICK item : Hooked(c, Moved(hook[c], "enforce", item))
      BY <2>2, Judges
    <3>2. hook'[c] = Moved(hook[c], "enforce", item) /\ \A d \in Caller : d # c => hook'[d] = hook[d]
      BY <2>1, <3>1
    <3>3. hook'[c].at = "enforce" /\ hook'[c].point = hook[c].point
      BY <1>2, <3>2, Fields
    <3>4. hook[c].at = "check" /\ agent' = agent
      BY <2>2 DEF Checked
    <3> QED
      BY <1>1, <3>2, <3>3, <3>4 DEF Turns
  <2>3. CASE ~Checked(c)
    <3>1. hook[c].at \in {"check", "enforce"}
      BY <1>4, <2>3, HookLeaves
    <3>2. PICK next, item : Hooked(c, next) /\ LeavesTo(c, next, item)
      BY <1>4, <2>3, HookLeaves
    <3>3. hook'[c] = next /\ \A d \in Caller : d # c => hook'[d] = hook[d]
      BY <2>1, <3>2
    <3>4. CASE c = Loop
      <4>1. agent.phase = "scanning" /\ hook[c].point \in {"input", "output"}
        BY <3>1, <3>4 DEF Turns
      <4>2. \A t \in Tool : hook'[t].at = "rest"
        BY <1>1, <3>3, <3>4, <4>1 DEF Turns
      <4>3. next.at = "rest" \/ (next.at = "check" /\ next.point = "input" /\ agent' = agent)
        BY <3>2, <4>1, Fields DEF LeavesTo
      <4> QED
        BY <3>3, <3>4, <4>1, <4>2, <4>3 DEF Turns
    <3>5. CASE c \in Tool
      <4>1. /\ agent.phase \in {"tools", "raised"} /\ hook[c].point \in {"tool_call", "tool_result"}
            /\ agent.phase = "tools" => c \in agent.calls
            /\ hook[Loop].at = "rest"
        BY <3>1, <3>5 DEF Turns
      <4>2. next.at \in {"rest", "run", "done"} /\ (agent' = agent \/ agent'.phase = "raised")
        BY <1>2, <3>2, <4>1, Fields DEF LeavesTo
      <4>3. hook'[Loop].at = "rest"
        BY <1>1, <3>3, <3>5, <4>1
      <4>4. \A t \in Tool : hook'[t].at # "rest" =>
              /\ agent'.phase \in {"tools", "raised"}
              /\ agent'.phase = "tools" => t \in agent'.calls
              /\ hook'[t].at \in {"check", "enforce"} => hook'[t].point \in {"tool_call", "tool_result"}
        BY <1>1, <3>3, <4>1, <4>2 DEF Turns
      <4> QED
        BY <4>3, <4>4 DEF Turns
    <3> QED
      BY <1>1, <3>4, <3>5
  <2> QED
    BY <2>2, <2>3
<1>5. ASSUME NEW c \in Caller, ExecutorStep(c)
      PROVE  Turns'
  BY <1>5 DEF ExecutorStep, Turns
<1>6. CASE UNCHANGED vars
  BY <1>6 DEF vars, Turns
<1> QED
  BY <1>3, <1>4, <1>5, <1>6 DEF Next

\* The loop moves hooks that have nothing under scan, to content as it came.
LEMMA AgentHooks ==
  ASSUME TypeInv, Turns, AgentStep, NEW d \in Caller
  PROVE  \/ hook'[d] = hook[d]
         \/ /\ hook[d].at \notin {"check", "enforce"} /\ hook'[d].at # "enforce"
            /\ hook'[d].item = Fresh \/ \E i \in 1..Len(messages) : hook'[d].item = messages[i]
            /\ hook'[d].at = "run" => ~Scanned("tool_call")
            /\ hook'[d].at = "check" /\ hook'[d].point = "input" =>
                 hook'[d].place = 1 /\ agent'.phase = "scanning"
<1>1. Loop \in Caller /\ Tool \subseteq Caller /\ Loop \notin Tool /\ Caller = Tool \cup {Loop}
  BY CallerAssumption
<1>2. /\ hook = [e \in Caller |-> hook[e]] /\ Len(messages) \in Nat /\ 1 <= Len(messages)
      /\ \A e \in Caller : Sound(hook[e], Len(messages))
  BY LenProperties DEF TypeInv, TypeOK
<1>3. CASE BeforeModel
  <2>1. CASE Hooked(Loop, Scanning("input", 1, messages[1])) /\ agent' = Enter("scanning")
    <3>1. 1 \in 1..Len(messages) /\ agent'.phase = "scanning"
      BY <1>2, <2>1, PhasesEntered
    <3>2. CASE d = Loop
      <4>1. /\ hook'[d].at = "check" /\ hook'[d].place = 1 /\ hook'[d].item = messages[1]
        BY <1>1, <1>2, <2>1, <3>2, Fields DEF Hooked
      <4>2. hook[d].at = "rest"
        BY <1>3 DEF BeforeModel, AtRest
      <4> QED
        BY <3>1, <4>1, <4>2
    <3>3. CASE d # Loop
      BY <1>1, <1>2, <2>1, <3>3 DEF Hooked
    <3> QED
      BY <3>2, <3>3
  <2> QED
    BY <1>3, <2>1 DEF BeforeModel
<1>4. CASE AfterModel
  <2>1. CASE Hooked(Loop, Scanning("output", Len(messages), messages[Len(messages)]))
    <3>1. Len(messages) \in 1..Len(messages)
      BY <1>2
    <3>2. CASE d = Loop
      <4>1. /\ hook'[d].at = "check" /\ hook'[d].point = "output"
            /\ hook'[d].item = messages[Len(messages)]
        BY <1>1, <1>2, <2>1, <3>2, Fields DEF Hooked
      <4>2. hook[d].at = "rest"
        BY <1>4 DEF AfterModel, AtRest
      <4> QED
        BY <3>1, <4>1, <4>2
    <3>3. CASE d # Loop
      BY <1>1, <1>2, <2>1, <3>3 DEF Hooked
    <3> QED
      BY <3>2, <3>3
  <2> QED
    BY <1>4, <2>1 DEF AfterModel
<1>5. CASE ModelAnswers
  BY <1>5 DEF ModelAnswers
<1>6. CASE Route
  <2>1. hook[d].at = "rest"
    BY <1>1, <1>6 DEF Route, Turns
  <2> DEFINE next == Scanning("tool_call", 0, Fresh)
             run == [Scanning("tool_call", 0, Fresh) EXCEPT !.at = "run"]
  <2>2. hook'[d] = IF d \notin agent.calls THEN hook[d]
                   ELSE IF Scanned("tool_call") THEN next ELSE run
    BY <1>6 DEF Route
  <2>3. next.at = "check" /\ next.point = "tool_call" /\ run.at = "run" /\ next.item = Fresh
        /\ run.item = Fresh
    BY DEF Scanning
  <2> HIDE DEF next, run
  <2> QED
    BY <2>1, <2>2, <2>3
<1>7. ASSUME NEW t \in Tool, ToolRuns(t)
      PROVE  \/ hook'[d] = hook[d]
             \/ /\ hook[d].at = "run" /\ hook'[d].at \in {"check", "done"}
                /\ hook'[d].item = Fresh /\ (hook'[d].at = "check" => hook'[d].point = "tool_result")
  <2> DEFINE next == Scanning("tool_result", 0, Fresh)
             done == [NoHook EXCEPT !.at = "done"]
  <2>1. /\ next.at = "check" /\ next.point = "tool_result" /\ done.at = "done"
        /\ next.item = Fresh /\ done.item = Fresh
    BY DEF Scanning, NoHook
  <2>2. hook[t].at = "run" /\ \E h \in {next, done} : Hooked(t, h)
    BY <1>7 DEF ToolRuns
  <2> HIDE DEF next, done
  <2>3. CASE d = t
    BY <1>1, <1>2, <2>1, <2>2, <2>3 DEF Hooked
  <2>4. CASE d # t
    BY <1>1, <1>2, <2>2, <2>4 DEF Hooked
  <2> QED
    BY <2>3, <2>4
<1>8. CASE ToolsReturn
  <2>1. hook'[d].at = "rest" /\ hook'[d].item = Fresh
    BY <1>8 DEF ToolsReturn, NoHook
  <2>2. CASE d = Loop
    BY <1>8, <2>1, <2>2 DEF ToolsReturn, Turns
  <2>3. CASE d \in Tool
    BY <1>8, <2>1, <2>3 DEF ToolsReturn, Turns
  <2> QED
    BY <1>1, <2>2, <2>3
<1> QED
  BY <1>3, <1>4, <1>5, <1>6, <1>7, <1>8 DEF AgentStep

LEMMA EnforcementsKept ==
  ASSUME TypeInv, Turns, Enforcements, [Next]_vars
  PROVE  Enforcements'
<1>1. settings' = settings /\ executor' = executor
  BY StepLeavesSettings
<1>2. /\ work = [d \in Caller |-> work[d]] /\ hook = [d \in Caller |-> hook[d]]
      /\ \A d \in Caller : Sound(hook[d], Len(messages))
  BY DEF TypeInv, TypeOK, ExecutorTypeOK
<1>3. ASSUME NEW d \in Caller, work'[d] = work[d],
             hook'[d] = hook[d] \/ (hook[d].at # "enforce" /\ hook'[d].at # "enforce")
      PROVE  /\ hook'[d].at # "enforce" => work'[d] = NoWork
             /\ hook'[d].at = "enforce" =>
                  work'[d].at # "rest" /\ Enforces(work'[d], hook'[d].item)
  BY <1>3 DEF Enforcements
<1>4. ASSUME NEW c \in Caller,
             \A d \in Caller : d # c => work'[d] = work[d] /\ hook'[d] = hook[d],
             hook'[c].at # "enforce" => work'[c] = NoWork,
             hook'[c].at = "enforce" =>
                  work'[c].at # "rest" /\ Enforces(work'[c], hook'[c].item)
      PROVE  Enforcements'
  BY <1>1, <1>3, <1>4 DEF Enforcements, Enforces
<1>5. CASE AgentStep
  <2>1. work' = work
    BY <1>5 DEF AgentStep, BeforeModel, ModelAnswers, AfterModel, Route, ToolRuns, ToolsReturn
  <2>2. \A d \in Caller : hook'[d] = hook[d] \/ (hook[d].at # "enforce" /\ hook'[d].at # "enforce")
    BY <1>5, AgentHooks
  <2> QED
    BY <1>1, <1>3, <2>1, <2>2 DEF Enforcements, Enforces
<1>6. ASSUME NEW c \in Caller, HookStep(c)
      PROVE  Enforcements'
  <2>1. ASSUME NEW next, Hooked(c, next)
        PROVE  hook'[c] = next /\ \A d \in Caller : d # c => hook'[d] = hook[d]
    BY <1>2, <2>1 DEF Hooked
  <2>2. CASE Checked(c)
    <3>1. PICK a \in InspectAnswers(settings) :
             /\ Hooked(c, Moved(hook[c], "enforce", Judged(hook[c].item, a)))
             /\ work' = [work EXCEPT ![c] = Enforcing(a.decision, a.detected)]
             /\ Enforcing(a.decision, a.detected).at = "enforce"
             /\ Enforces(Enforcing(a.decision, a.detected), Judged(hook[c].item, a))
      BY <2>2, Judges
    <3> DEFINE w == Enforcing(a.decision, a.detected)
               item == Judged(hook[c].item, a)
    <3>2. hook'[c].at = "enforce" /\ hook'[c].item = item
      BY <1>2, <2>1, <3>1, Fields
    <3>3. work'[c] = w /\ \A d \in Caller : d # c => work'[d] = work[d] /\ hook'[d] = hook[d]
      BY <1>2, <2>1, <3>1
    <3>4. w.at # "rest" /\ Enforces(w, item)
      BY <3>1
    <3> HIDE DEF w, item
    <3> QED
      BY <1>4, <3>2, <3>3, <3>4
  <2>3. CASE ~Checked(c)
    <3>1. PICK next, item : Hooked(c, next) /\ LeavesTo(c, next, item)
      BY <1>6, <2>3, HookLeaves
    <3>2. next.at # "enforce"
      BY <1>2, <3>1, Fields DEF LeavesTo
    <3>3. work'[c] = NoWork /\ \A d \in Caller : d # c => work'[d] = work[d]
      <4>1. CASE hook[c].at = "check" /\ work' = work
        BY <4>1 DEF Enforcements
      <4>2. CASE work' = [work EXCEPT ![c] = NoWork]
        BY <1>2, <4>2
      <4> QED
        BY <1>6, <2>3, <4>1, <4>2, HookLeaves
    <3> QED
      BY <1>4, <2>1, <3>1, <3>2, <3>3
  <2> QED
    BY <2>2, <2>3
<1>7. ASSUME NEW c \in Caller, ExecutorStep(c)
      PROVE  Enforcements'
  <2>1. EnforceStep(c) /\ hook' = hook
    BY <1>7 DEF ExecutorStep
  <2>2. work[c].at # "rest"
    BY <2>1 DEF EnforceStep, Passes, Redacts, RedactionFails, Stops, Notify, HandlerReturns,
       HandlerRaises, At
  <2>3. hook[c].at = "enforce" /\ Enforces(work[c], hook[c].item)
    BY <2>2 DEF Enforcements, NoWork
  <2>4. PICK w \in Works :
          work' = [work EXCEPT ![c] = w] /\ w.at # "rest" /\ Enforces(w, hook[c].item)
    BY <2>1, <2>3, EnforceFits DEF TypeInv, TypeOK
  <2>5. work'[c] = w /\ \A d \in Caller : d # c => work'[d] = work[d]
    BY <1>2, <2>4
  <2> QED
    BY <1>4, <2>1, <2>3, <2>4, <2>5
<1>8. CASE UNCHANGED vars
  BY <1>8 DEF vars, Enforcements, Enforces
<1> QED
  BY <1>5, <1>6, <1>7, <1>8 DEF Next

LEMMA AtFirst ==
  ASSUME Init
  PROVE  Turns /\ Enforcements
<1>1. Loop \in Caller /\ Tool \subseteq Caller
  BY CallerAssumption
<1> QED
  BY <1>1, Fields DEF Init, ExecutorInit, Turns, Enforcements
-----------------------------------------------------------------------------
(* What was to be stopped is not used *)

\* The content of every message, and of every hook that is not about to have a
\* decision on it enforced, may be used.
Usable ==
  /\ \A i \in 1..Len(messages) : ~Unusable(messages[i])
  /\ \A c \in Caller : hook[c].at \in {"check", "run", "done"} => ~Unusable(hook[c].item)

LEMMA EnforcedUsable ==
  ASSUME TypeInv, Enforcements, NEW c \in Caller, EnforcementEnds(c),
         work[c].result # "violation"
  PROVE  ~Unusable(Enforced(c))
<1>1. Enforces(work[c], hook[c].item) /\ work[c].at = "done"
  BY DEF Enforcements, EnforcementEnds, At
<1>2. ~Unusable(hook[c].item)
  BY <1>1, EndsUsable
<1>3. hook[c].item \in Item
  BY DEF TypeInv, Sound, Hooks
<1>4. Enforced(c).verdict = hook[c].item.verdict
  BY <1>3 DEF Enforced, Item
<1> QED
  BY <1>2, <1>4 DEF Unusable

LEMMA UsableKept ==
  ASSUME TypeInv, Turns, Enforcements, Usable, [Next]_vars
  PROVE  Usable'
<1>1. executor' = executor
  BY StepLeavesSettings
<1>2. ASSUME \A i \in 1..Len(messages') : ~Unusable(messages'[i]),
             \A c \in Caller : hook'[c].at \in {"check", "run", "done"} => ~Unusable(hook'[c].item)
      PROVE  Usable'
  BY <1>1, <1>2 DEF Usable, Unusable
<1>3. \A item : item.verdict = "unscanned" => ~Unusable(item)
  BY DEF Unusable
<1>4. CASE AgentStep
  <2>1. \A i \in 1..Len(messages') : ~Unusable(messages'[i])
    <3>1. CASE ModelAnswers
      BY <1>3, <3>1, ModelReads
    <3>2. CASE ToolsReturn
      <4>1. \A t \in agent.calls : t \in Caller /\ hook[t].at = "done"
        BY <3>2, CallerAssumption DEF ToolsReturn, TypeInv, TypeOK
      <4> QED
        BY <3>2, <4>1, ToolsAnswer DEF Usable
    <3>3. CASE messages' = messages
      BY <3>3 DEF Usable
    <3> QED
      BY <1>4, <3>1, <3>2, <3>3 DEF AgentStep, BeforeModel, AfterModel, Route, ToolRuns
  <2>2. ~Unusable(Fresh)
    BY <1>3 DEF Fresh
  <2>3. ASSUME NEW c \in Caller, hook'[c].at \in {"check", "run", "done"}
        PROVE  ~Unusable(hook'[c].item)
    BY <1>4, <2>2, <2>3, AgentHooks DEF Usable
  <2> QED
    BY <1>2, <2>1, <2>3
<1>5. ASSUME NEW c \in Caller, HookStep(c)
      PROVE  Usable'
  <2>1. ASSUME NEW next, Hooked(c, next)
        PROVE  hook'[c] = next /\ \A d \in Caller : d # c => hook'[d] = hook[d]
    BY <2>1 DEF Hooked, TypeInv, TypeOK
  <2>2. \A i \in 1..Len(messages') : ~Unusable(messages'[i])
    <3>1. CASE WriteBack(c) \/ Answered(c)
      <4>1. EnforcementEnds(c) /\ work[c].result # "violation"
        BY <3>1 DEF WriteBack, Answered
      <4> QED
        BY <3>1, <4>1, EnforcedUsable, EnforcedWritten DEF Usable
    <3>2. CASE messages' = messages
      BY <3>2 DEF Usable
    <3> QED
      BY <1>5, <3>1, <3>2 DEF HookStep, Checked, CheckRaises, Violation
  <2>3. hook'[c].at \in {"check", "run", "done"} => ~Unusable(hook'[c].item)
    <3>1. CASE Checked(c)
      <4>1. PICK item : Hooked(c, Moved(hook[c], "enforce", item))
        BY <3>1, Judges
      <4>2. hook'[c].at = "enforce"
        BY <2>1, <4>1, Fields DEF TypeInv
      <4> QED
        BY <4>2
    <3>2. CASE ~Checked(c)
      <4>1. PICK next, item :
              /\ Hooked(c, next) /\ LeavesTo(c, next, item)
              /\ \/ CheckRaises(c) /\ item = hook[c].item
                 \/ /\ WriteBack(c) /\ item = Enforced(c)
                    /\ work[c].result # "violation"
                 \/ next = NoHook
        BY <1>5, <3>2, HookLeaves
      <4>2. hook'[c] = next /\ Sound(hook[c], Len(messages))
        BY <2>1, <4>1 DEF TypeInv
      <4>3. CASE next = NoHook
        BY <4>2, <4>3, Fields
      <4>4. CASE next # NoHook
        <5>1. ~Unusable(item)
          <6>1. CASE CheckRaises(c) /\ item = hook[c].item
            BY <6>1 DEF CheckRaises, Usable
          <6>2. CASE WriteBack(c) /\ item = Enforced(c) /\ work[c].result # "violation"
            BY <6>2, EnforcedUsable DEF WriteBack
          <6> QED
            BY <4>1, <4>4, <6>1, <6>2
        <5>2. next.item = item \/ \E i \in 1..Len(messages) : next.item = messages[i]
          BY <4>1, <4>2, <4>4, Fields DEF LeavesTo
        <5> QED
          BY <4>2, <5>1, <5>2 DEF Usable
      <4> QED
        BY <4>3, <4>4
    <3> QED
      BY <3>1, <3>2
  <2>4. PICK next : Hooked(c, next)
    BY <1>5, Judges, HookLeaves
  <2>5. \A d \in Caller : d # c /\ hook'[d].at \in {"check", "run", "done"} =>
          ~Unusable(hook'[d].item)
    BY <2>1, <2>4 DEF Usable
  <2> QED
    BY <1>2, <2>2, <2>3, <2>5
<1>6. ASSUME NEW c \in Caller, ExecutorStep(c)
      PROVE  Usable'
  BY <1>1, <1>6 DEF ExecutorStep, Usable, Unusable
<1>7. CASE UNCHANGED vars
  BY <1>7 DEF vars, Usable, Unusable
<1> QED
  BY <1>4, <1>5, <1>6, <1>7 DEF Next

LEMMA UsableAtFirst ==
  ASSUME Init
  PROVE  Usable
<1>1. messages = <<Fresh>> /\ ~Unusable(Fresh)
  BY DEF Init, Unusable, Fresh
<1>2. Len(messages) = 1 /\ messages[1] = Fresh
  BY <1>1
<1> QED
  BY <1>1, <1>2, Fields DEF Init, Usable

\* No model and no tool gets content that was decided to be blocked, or to be
\* quarantined where no handler takes it, once refusals raise: whatever the guard's
\* errors, fail_open and the order in which the tool calls are enforced.
THEOREM StoppedStaysUnused == Spec => []StoppedIsNotUsed
<1> DEFINE Inv == TypeInv /\ Turns /\ Enforcements /\ Usable
<1>1. Init => Inv
  BY TypesAtFirst, AtFirst, UsableAtFirst
<1>2. Inv /\ [Next]_vars => Inv'
  BY TypesKept, TurnsKept, EnforcementsKept, UsableKept
<1>3. Inv => StoppedIsNotUsed
  <2> SUFFICES ASSUME Inv, NEW item \in InUse
               PROVE  ~Unusable(item)
    BY DEF StoppedIsNotUsed
  <2>1. CASE agent.phase = "model" /\ item \in ToSet(messages)
    <3>1. DOMAIN messages = 1..Len(messages)
      BY LenProperties DEF TypeInv, TypeOK
    <3> QED
      BY <2>1, <3>1 DEF ToSet, Usable
  <2>2. CASE \E t \in Tool : hook[t].at = "run" /\ item = hook[t].item
    BY <2>2, CallerAssumption DEF Usable
  <2> QED
    BY <2>1, <2>2 DEF InUse
<1> HIDE DEF Inv
<1> QED
  BY <1>1, <1>2, <1>3, PTL DEF Spec
-----------------------------------------------------------------------------
(* Nothing slips through *)

\* before_model has cleared the messages before the one it is at, and the hooks
\* of tool calls let nothing else on to the tool.
Screened ==
  /\ hook[Loop].at # "rest" /\ hook[Loop].point = "input" =>
       \A i \in 1..Len(messages) : i < hook[Loop].place => Cleared(messages[i])
  /\ agent.phase = "model" /\ Scanned("input") =>
       \A i \in 1..Len(messages) : Cleared(messages[i])
  /\ Scanned("tool_call") => \A t \in Tool : hook[t].at = "run" => Cleared(hook[t].item)

Closed == Strict /\ ~middleware.failOpen

LEMMA EnforcedCleared ==
  ASSUME TypeInv, Enforcements, Strict, NEW c \in Caller, EnforcementEnds(c),
         work[c].result # "violation"
  PROVE  Cleared(Enforced(c))
<1>1. Enforces(work[c], hook[c].item) /\ work[c].at = "done"
  BY DEF Enforcements, EnforcementEnds, At
<1>2. \/ work[c].result = "passed" /\ hook[c].item.verdict = "clear"
      \/ work[c].result = "redacted" /\ hook[c].item.verdict = "redact"
  BY <1>1, EndsCleared
<1>3. hook[c].item \in Item
  BY DEF TypeInv, Sound, Hooks
<1> QED
  BY <1>2, <1>3 DEF Enforced, Cleared, Item

LEMMA AgentKeepsScreened ==
  ASSUME TypeInv, Turns, Screened, AgentStep
  PROVE  Screened'
<1>1. Loop \in Caller /\ Tool \subseteq Caller /\ middleware' = middleware
  BY CallerAssumption, StepLeavesSettings DEF Next
<1>2. Len(messages) \in Nat
  BY LenProperties DEF TypeInv, TypeOK
<1>3. Scanned("tool_call")' => \A t \in Tool : hook'[t].at = "run" => Cleared(hook'[t].item)
  BY <1>1, AgentHooks DEF Screened, Scanned
<1>4. ASSUME messages' = messages
      PROVE  hook'[Loop].at # "rest" /\ hook'[Loop].point = "input" =>
               \A i \in 1..Len(messages') : i < hook'[Loop].place => Cleared(messages'[i])
  <2>1. CASE hook'[Loop] = hook[Loop]
    BY <1>4, <2>1 DEF Screened
  <2>2. CASE hook'[Loop].at = "check" /\ hook'[Loop].point = "input" => hook'[Loop].place = 1
    <3>1. hook'[Loop].at \in {"rest", "check"} \/ hook'[Loop] = hook[Loop]
      <4>1. Turns'
        BY AgentKeepsTurns
      <4> QED
        BY <1>1, <4>1, AgentHooks DEF Turns
    <3> QED
      BY <1>2, <1>4, <2>1, <2>2, <3>1
  <2> QED
    BY <1>1, <2>1, <2>2, AgentHooks
<1>5. CASE ModelAnswers
  <2>1. hook'[Loop].at = "rest" /\ agent'.phase = "output"
    BY <1>5, AgentsTyped DEF ModelAnswers, Turns, Agents
  <2> QED
    BY <1>3, <2>1 DEF Screened
<1>6. CASE ToolsReturn
  <2>1. hook'[Loop].at = "rest" /\ agent'.phase = "input"
    BY <1>1, <1>6, AgentsTyped, Fields DEF ToolsReturn, Agents
  <2> QED
    BY <1>3, <2>1 DEF Screened
<1>7. ASSUME messages' = messages, agent'.phase # "model" \/ ~Scanned("input")
      PROVE  Screened'
  BY <1>1, <1>3, <1>4, <1>7 DEF Screened, Scanned
<1>8. CASE BeforeModel
  <2>1. messages' = messages
    BY <1>8 DEF BeforeModel
  <2>2. agent'.phase # "model" \/ ~Scanned("input")
    BY <1>8, PhasesEntered DEF BeforeModel
  <2> QED
    BY <1>7, <2>1, <2>2
<1>9. CASE AfterModel
  <2>1. messages' = messages
    BY <1>9 DEF AfterModel
  <2>2. agent'.phase # "model"
    BY <1>9, PhasesEntered DEF AfterModel
  <2> QED
    BY <1>7, <2>1, <2>2
<1>10. CASE Route
  <2>1. messages' = messages
    BY <1>10 DEF Route
  <2>2. agent'.phase # "model"
    BY <1>10, PhasesEntered DEF Route
  <2> QED
    BY <1>7, <2>1, <2>2
<1>11. ASSUME NEW t \in Tool, ToolRuns(t)
       PROVE  Screened'
  <2>1. messages' = messages /\ agent' = agent /\ hook[t].at # "rest"
    BY <1>11 DEF ToolRuns
  <2>2. agent'.phase # "model"
    BY <2>1 DEF Turns
  <2> QED
    BY <1>7, <2>1, <2>2
<1> QED
  BY <1>5, <1>6, <1>8, <1>9, <1>10, <1>11 DEF AgentStep

LEMMA HookKeepsScreened ==
  ASSUME TypeInv, Turns, Enforcements, Screened, Closed, NEW c \in Caller, HookStep(c)
  PROVE  Screened'
<1>1. Loop \in Caller /\ Tool \subseteq Caller /\ Loop \notin Tool /\ Caller = Tool \cup {Loop}
  BY CallerAssumption
<1>2. middleware' = middleware
  BY StepLeavesSettings DEF Next
<1>3. Len(messages) \in Nat /\ agent \in Agents /\ \A d \in Caller : Sound(hook[d], Len(messages))
  BY LenProperties, AgentsTyped DEF TypeInv, TypeOK
<1>4. ASSUME NEW next, Hooked(c, next)
      PROVE  hook'[c] = next /\ \A d \in Caller : d # c => hook'[d] = hook[d]
  BY <1>4 DEF Hooked, TypeInv, TypeOK
<1>5. ASSUME Hooked(c, NoHook), agent'.phase # "model",
             messages' = messages \/ c = Loop
      PROVE  Screened'
  <2>1. hook'[c].at = "rest" /\ \A d \in Caller : d # c => hook'[d] = hook[d]
    BY <1>4, <1>5, Fields
  <2> QED
    BY <1>1, <1>2, <1>5, <2>1 DEF Screened, Scanned
<1>6. CASE Checked(c)
  <2>1. PICK item : Hooked(c, Moved(hook[c], "enforce", item))
    BY <1>6, Judges
  <2>2. /\ hook'[c].at = "enforce" /\ hook'[c].point = hook[c].point
        /\ hook'[c].place = hook[c].place
        /\ \A d \in Caller : d # c => hook'[d] = hook[d]
    BY <1>3, <1>4, <2>1, Fields
  <2>3. messages' = messages /\ agent' = agent /\ hook[c].at = "check"
    BY <1>6 DEF Checked
  <2> QED
    BY <1>1, <1>2, <2>2, <2>3 DEF Screened, Scanned
<1>7. CASE CheckRaises(c)
  <2>1. messages' = messages /\ Raises(c, "AgentGuardMiddlewareError")
    BY <1>7 DEF CheckRaises, Unexpected, Closed
  <2> QED
    BY <1>5, <2>1, PhasesEntered DEF Raises
<1>8. CASE Violation(c)
  <2>1. messages' = messages /\ Raises(c, "AgentGuardViolation")
    BY <1>8 DEF Violation
  <2> QED
    BY <1>5, <2>1, PhasesEntered DEF Raises
<1>9. CASE Answered(c)
  <2>1. Hooked(c, NoHook) /\ hook[c].at = "enforce" /\ hook[c].point = "output"
    BY <1>9 DEF Answered, EnforcementEnds
  <2>2. c = Loop
    BY <1>1, <2>1 DEF Turns
  <2>3. [agent EXCEPT !.phase = "route", !.calls = {}].phase = "route"
    BY <1>3 DEF Agents
  <2>4. agent'.phase = "route"
    BY <1>9, <2>3, PhasesEntered DEF Answered
  <2> QED
    BY <1>5, <2>1, <2>2, <2>4
<1>10. CASE WriteBack(c)
  <2>1. /\ EnforcementEnds(c) /\ work[c].result # "violation" /\ hook[c].at = "enforce"
        /\ GoOn(c, Enforced(c)) /\ hook[c].point # "output"
    BY <1>10 DEF WriteBack, EnforcementEnds
  <2>2. Cleared(Enforced(c))
    BY <2>1, EnforcedCleared DEF Closed
  <2>3. CASE c \in Tool
    <3>1. /\ hook[c].point \in {"tool_call", "tool_result"} /\ agent.phase # "model"
          /\ hook[Loop].at = "rest"
      BY <2>1, <2>3 DEF Turns
    <3>2. messages' = messages
      BY <1>10, <3>1, EnforcedWritten
    <3>3. PICK label \in {"run", "done"} :
            Hooked(c, Moved(hook[c], label, Enforced(c))) /\ agent' = agent
      BY <2>1, <3>1, GoesOn
    <3>4. hook'[c].item = Enforced(c) /\ \A d \in Caller : d # c => hook'[d] = hook[d]
      BY <1>3, <1>4, <3>3, Fields
    <3> QED
      BY <1>1, <1>2, <2>2, <2>3, <3>1, <3>2, <3>3, <3>4 DEF Screened, Scanned
  <2>4. CASE c = Loop
    <3>1. hook[c].point = "input" /\ agent.phase = "scanning"
      BY <2>1, <2>4 DEF Turns
    <3>2. \A t \in Tool : hook[t].at = "rest"
      BY <3>1 DEF Turns
    <3>3. /\ hook[c].place \in 1..Len(messages) /\ messages'[hook[c].place] = Enforced(c)
          /\ \A i \in 1..Len(messages) : i # hook[c].place => messages'[i] = messages[i]
          /\ Len(messages') = Len(messages)
      BY <1>10, <3>1, EnforcedWritten
    <3>4. \A i \in 1..Len(messages) : i <= hook[c].place => Cleared(messages'[i])
      BY <1>3, <2>1, <2>2, <2>4, <3>1, <3>3 DEF Screened
    <3>5. \/ /\ Hooked(c, Scanning("input", hook[c].place + 1, messages[hook[c].place + 1]))
             /\ agent' = agent
          \/ hook[c].place = Len(messages) /\ Hooked(c, NoHook)
      BY <2>1, <3>1, GoesOn
    <3>6. \A t \in Tool : hook'[t].at = "rest"
      BY <1>1, <1>4, <2>4, <3>2, <3>5
    <3>7. CASE /\ Hooked(c, Scanning("input", hook[c].place + 1, messages[hook[c].place + 1]))
               /\ agent' = agent
      <4>1. hook'[c].place = hook[c].place + 1
        BY <1>4, <3>7, Fields
      <4>2. \A i \in 1..Len(messages') : i < hook'[c].place => Cleared(messages'[i])
        BY <1>3, <3>3, <3>4, <4>1
      <4> QED
        BY <2>4, <3>1, <3>6, <3>7, <4>2 DEF Screened
    <3>8. CASE hook[c].place = Len(messages) /\ Hooked(c, NoHook)
      <4>1. hook'[c].at = "rest"
        BY <1>4, <3>8, Fields
      <4>2. \A i \in 1..Len(messages') : Cleared(messages'[i])
        BY <1>3, <3>3, <3>4, <3>8
      <4> QED
        BY <2>4, <3>6, <4>1, <4>2 DEF Screened
    <3> QED
      BY <3>5, <3>7, <3>8
  <2> QED
    BY <1>1, <2>3, <2>4
<1> QED
  BY <1>6, <1>7, <1>8, <1>9, <1>10 DEF HookStep

LEMMA ScreenedKept ==
  ASSUME TypeInv, Turns, Enforcements, Closed => Screened, [Next]_vars
  PROVE  Closed' => Screened'
<1> SUFFICES ASSUME Closed' PROVE Screened'
  OBVIOUS
<1>1. Closed
  BY StepLeavesSettings DEF Closed, Strict
<1>2. CASE AgentStep
  BY <1>1, <1>2, AgentKeepsScreened
<1>3. ASSUME NEW c \in Caller, HookStep(c)
      PROVE  Screened'
  BY <1>1, <1>3, HookKeepsScreened
<1>4. ASSUME NEW c \in Caller, ExecutorStep(c)
      PROVE  Screened'
  BY <1>1, <1>4 DEF ExecutorStep, Screened, Scanned
<1>5. CASE UNCHANGED vars
  BY <1>1, <1>5 DEF vars, Screened, Scanned
<1> QED
  BY <1>2, <1>3, <1>4, <1>5 DEF Next

\* With a guard and a middleware that fail closed and refusals that raise, the model
\* and the tools only get content that the scan of it cleared: no error of a
\* detector, of the policy, of a redaction or of the hook lets a message or a tool's
\* arguments past a scan that is switched on.
THEOREM ScansAreNotPassed == Spec => []NothingSlipsThrough
<1> DEFINE Inv == TypeInv /\ Turns /\ Enforcements /\ (Closed => Screened)
<1>1. Init => Inv
  <2> SUFFICES ASSUME Init PROVE Inv
    OBVIOUS
  <2>1. hook[Loop].at = "rest" /\ \A t \in Tool : hook[t].at = "rest"
    BY CallerAssumption, Fields DEF Init
  <2>2. Screened
    BY <2>1 DEF Init, Screened
  <2> QED
    BY <2>2, TypesAtFirst, AtFirst
<1>2. Inv /\ [Next]_vars => Inv'
  BY TypesKept, TurnsKept, EnforcementsKept, ScreenedKept
<1>3. Inv => NothingSlipsThrough
  <2> SUFFICES ASSUME Inv PROVE NothingSlipsThrough
    OBVIOUS
  <2>1. DOMAIN messages = 1..Len(messages)
    BY LenProperties DEF TypeInv, TypeOK
  <2> QED
    BY <2>1 DEF NothingSlipsThrough, Closed, Screened
<1> HIDE DEF Inv
<1> QED
  BY <1>1, <1>2, <1>3, PTL DEF Spec
-----------------------------------------------------------------------------
(* Refusals are counted *)

Refusing == {c \in Caller : Refused(c)}

\* When one enforcement moves on, only its caller comes or goes.
LEMMA RefusingMoves ==
  ASSUME TypeInv, NEW c \in Caller, NEW w, work' = [work EXCEPT ![c] = w]
  PROVE  /\ IsFiniteSet(Refusing) /\ Cardinality(Refusing) \in Nat
         /\ Refusing' = IF w.at = "hand" \/ w.result \in {"blocked", "violation"}
                        THEN Refusing \cup {c} ELSE Refusing \ {c}
<1>1. IsFiniteSet(Caller)
  BY CallerAssumption, ToolAssumption, FS_AddElement
<1>2. Refusing \in SUBSET Caller
  BY DEF Refusing
<1>3. IsFiniteSet(Refusing) /\ Cardinality(Refusing) \in Nat
  BY <1>1, <1>2, FS_Subset, FS_CardinalityType
<1>4. work'[c] = w /\ \A d \in Caller : d # c => work'[d] = work[d]
  BY DEF TypeInv, TypeOK, ExecutorTypeOK
<1>5. CASE w.at = "hand" \/ w.result \in {"blocked", "violation"}
  BY <1>3, <1>4, <1>5 DEF Refusing, Refused, At
<1>6. CASE ~(w.at = "hand" \/ w.result \in {"blocked", "violation"})
  BY <1>3, <1>4, <1>6 DEF Refusing, Refused, At
<1> QED
  BY <1>5, <1>6

Counted == violations = stopped + Cardinality(Refusing)

\* A step of the executor counts what it makes a refusal, and only that.
LEMMA ExecutorCounts ==
  ASSUME TypeInv, Enforcements, Counted, NEW c \in Caller, ExecutorStep(c)
  PROVE  Counted'
<1>1. violations \in Nat /\ stopped \in Nat /\ stopped' = stopped /\ work[c] \in Works
  BY DEF TypeInv, TypeOK, ExecutorTypeOK, Works, ExecutorStep
<1>2. work[c].at \in {"enforce", "notify", "hand"}
  BY DEF ExecutorStep, EnforceStep, Passes, Redacts, RedactionFails, Stops, Notify,
     HandlerReturns, HandlerRaises, At
<1>3. work[c].result = "none"
  <2>1. hook[c].at = "enforce"
    BY <1>2 DEF Enforcements, NoWork
  <2> QED
    BY <1>2, <2>1 DEF Enforcements, Enforces
<1>4. c \in Refusing <=> work[c].at = "hand"
  BY <1>3 DEF Refusing, Refused, At
<1>5. ASSUME NEW w, work' = [work EXCEPT ![c] = w],
             w.at # "hand" /\ w.result \notin {"blocked", "violation"},
             work[c].at # "hand", violations' = violations
      PROVE  Counted'
  <2>1. Refusing' = Refusing
    BY <1>4, <1>5, RefusingMoves
  <2> QED
    BY <1>1, <1>5, <2>1 DEF Counted
<1>6. ASSUME NEW w, work' = [work EXCEPT ![c] = w],
             w.at = "hand" \/ w.result \in {"blocked", "violation"},
             violations' = violations + (IF work[c].at = "hand" THEN 0 ELSE 1)
      PROVE  Counted'
  <2>1. Refusing' = Refusing \cup {c} /\ IsFiniteSet(Refusing) /\ Cardinality(Refusing) \in Nat
    BY <1>6, RefusingMoves
  <2>2. Cardinality(Refusing') = IF c \in Refusing THEN Cardinality(Refusing)
                                 ELSE Cardinality(Refusing) + 1
    BY <2>1, FS_AddElement
  <2>3. Cardinality(Refusing') = Cardinality(Refusing) + (IF work[c].at = "hand" THEN 0 ELSE 1)
    BY <1>4, <2>1, <2>2
  <2> QED
    BY <1>1, <1>6, <2>1, <2>3 DEF Counted
<1>7. ASSUME NEW result, Done(c, result)
      PROVE  \E w : work' = [work EXCEPT ![c] = w] /\ w.at = "done" /\ w.result = result
  <2> DEFINE w == [work[c] EXCEPT !.at = "done", !.result = result]
  <2>1. w.at = "done" /\ w.result = result
    BY <1>1 DEF Works
  <2> QED
    BY <1>7, <2>1 DEF Done, Step
<1>8. ASSUME NEW label \in {"notify", "hand"}, Step(c, [work[c] EXCEPT !.at = label])
      PROVE  \E w : work' = [work EXCEPT ![c] = w] /\ w.at = label /\ w.result = "none"
  <2> DEFINE w == [work[c] EXCEPT !.at = label]
  <2>1. w.at = label /\ w.result = "none"
    BY <1>1, <1>3 DEF Works
  <2> QED
    BY <1>8, <2>1 DEF Step
<1>9. Refusal \in {"violation", "blocked"}
  BY DEF Refusal
<1>10. CASE Passes(c)
  BY <1>5, <1>7, <1>10 DEF Passes, At
<1>11. CASE Redacts(c)
  BY <1>5, <1>7, <1>11 DEF Redacts, At
<1>12. CASE RedactionFails(c)
  BY <1>5, <1>8, <1>12 DEF RedactionFails, At
<1>13. CASE Stops(c)
  BY <1>5, <1>8, <1>13 DEF Stops, At
<1>14. CASE Notify(c)
  <2>1. work[c].at = "notify" /\ violations' = violations + 1
    BY <1>14 DEF Notify, At
  <2>2. CASE Step(c, [work[c] EXCEPT !.at = "hand"])
    BY <1>6, <1>8, <2>1, <2>2
  <2>3. CASE Done(c, Refusal)
    <3> HIDE DEF Refusal
    <3> QED
      BY <1>6, <1>7, <1>9, <2>1, <2>3
  <2> QED
    BY <1>14, <2>2, <2>3 DEF Notify
<1>15. CASE HandlerReturns(c)
  BY <1>1, <1>6, <1>7, <1>15 DEF HandlerReturns, At
<1>16. CASE HandlerRaises(c)
  <2>1. work[c].at = "hand" /\ violations' = violations + 0 /\ Done(c, Refusal)
    BY <1>1, <1>16 DEF HandlerRaises, At
  <2> HIDE DEF Refusal
  <2> QED
    BY <1>6, <1>7, <1>9, <2>1
<1> QED
  BY <1>10, <1>11, <1>12, <1>13, <1>14, <1>15, <1>16 DEF ExecutorStep, EnforceStep

LEMMA CountedKept ==
  ASSUME TypeInv, Turns, Enforcements, Counted, [Next]_vars
  PROVE  Counted'
<1>1. ASSUME work' = work, violations' = violations, stopped' = stopped
      PROVE  Counted'
  BY <1>1 DEF Counted, Refusing, Refused, At
<1>2. CASE AgentStep
  BY <1>1, <1>2 DEF AgentStep, BeforeModel, ModelAnswers, AfterModel, Route, ToolRuns, ToolsReturn
<1>3. ASSUME NEW c \in Caller, HookStep(c)
      PROVE  Counted'
  <2>1. CASE Checked(c)
    <3>1. PICK a \in InspectAnswers(settings) :
            work' = [work EXCEPT ![c] = Enforcing(a.decision, a.detected)]
      BY <2>1, Judges
    <3>2. violations' = violations /\ stopped' = stopped /\ hook[c].at = "check"
      BY <2>1 DEF Checked
    <3>3. work[c] = NoWork
      BY <3>2 DEF Enforcements
    <3>4. c \notin Refusing
      BY <3>3 DEF Refusing, Refused, At, NoWork
    <3>5. /\ Enforcing(a.decision, a.detected).at = "enforce"
          /\ Enforcing(a.decision, a.detected).result = "none"
      BY DEF Enforcing, NoWork
    <3>6. Refusing' = Refusing
      BY <3>1, <3>4, <3>5, RefusingMoves
    <3> QED
      BY <3>2, <3>6 DEF Counted
  <2>2. CASE CheckRaises(c)
    BY <1>1, <2>2 DEF CheckRaises
  <2>3. CASE EnforcementEnds(c)
    <3>1. /\ violations \in Nat /\ stopped \in Nat /\ violations' = violations
          /\ work' = [work EXCEPT ![c] = NoWork] /\ work[c].at = "done"
          /\ stopped' = stopped + (IF work[c].result \in {"blocked", "violation"} THEN 1 ELSE 0)
      BY <2>3 DEF EnforcementEnds, At, TypeInv, TypeOK, ExecutorTypeOK
    <3>2. Refusing' = Refusing \ {c} /\ IsFiniteSet(Refusing) /\ Cardinality(Refusing) \in Nat
      BY <3>1, RefusingMoves DEF NoWork
    <3>3. c \in Refusing <=> work[c].result \in {"blocked", "violation"}
      BY <3>1 DEF Refusing, Refused, At
    <3>4. Cardinality(Refusing') = IF c \in Refusing THEN Cardinality(Refusing) - 1
                                   ELSE Cardinality(Refusing)
      BY <3>2, FS_RemoveElement
    <3> QED
      BY <3>1, <3>2, <3>3, <3>4 DEF Counted
  <2> QED
    BY <1>3, <2>1, <2>2, <2>3 DEF HookStep, Violation, WriteBack, Answered
<1>4. ASSUME NEW c \in Caller, ExecutorStep(c)
      PROVE  Counted'
  BY <1>4, ExecutorCounts
<1>5. CASE UNCHANGED vars
  BY <1>1, <1>5 DEF vars
<1> QED
  BY <1>2, <1>3, <1>4, <1>5 DEF Next

\* The counter of violations is exact at every moment: each refusal is counted once,
\* before the user's handler runs, whatever the handler does and however many tool
\* calls are enforced at a time.
THEOREM RefusalsAreCounted == Spec => []ViolationsCounted
<1> DEFINE Inv == TypeInv /\ Turns /\ Enforcements /\ Counted
<1>1. Init => Inv
  <2> SUFFICES ASSUME Init PROVE Inv
    OBVIOUS
  <2>1. Refusing = {}
    BY DEF Init, ExecutorInit, Refusing, Refused, At, NoWork
  <2>2. Counted
    BY <2>1, FS_EmptySet DEF Counted, Init, ExecutorInit
  <2> QED
    BY <2>2, TypesAtFirst, AtFirst
<1>2. Inv /\ [Next]_vars => Inv'
  BY TypesKept, TurnsKept, EnforcementsKept, CountedKept
<1>3. Inv => ViolationsCounted
  BY DEF Counted, Refusing, ViolationsCounted
<1> HIDE DEF Inv
<1> QED
  BY <1>1, <1>2, <1>3, PTL DEF Spec
-----------------------------------------------------------------------------
(* What escapes *)

\* An invocation fails for a violation, or for an error fail_open does not keep in.
LEMMA ErrorsOfStep ==
  ASSUME TypeInv, [Next]_vars, agent'.error # agent.error
  PROVE  \/ agent'.error = "AgentGuardViolation" /\ \E c \in Caller : Violation(c)
         \/ agent'.error = "AgentGuardMiddlewareError" /\ ~middleware.failOpen
<1>1. agent \in Agents
  BY AgentsTyped
<1>2. /\ \A phase : Enter(phase).error = agent.error
      /\ \A error : Failed(error).error = error
  BY <1>1 DEF Enter, Failed, Agents
<1>3. CASE AgentStep
  BY <1>1, <1>2, <1>3 DEF AgentStep, BeforeModel, ModelAnswers, AfterModel, Route, ToolRuns,
     ToolsReturn, Agents
<1>4. ASSUME NEW c \in Caller, NEW item, GoOn(c, item), hook[c].at \in {"check", "enforce"}
      PROVE  FALSE
  BY <1>2, <1>4, GoesOn
<1>5. ASSUME NEW c \in Caller, CheckRaises(c)
      PROVE  agent'.error = "AgentGuardMiddlewareError" /\ ~middleware.failOpen
  <2>1. CASE Raises(c, "AgentGuardMiddlewareError") /\ ~middleware.failOpen
    BY <1>2, <2>1 DEF Raises
  <2>2. CASE agent' = Enter("model")
    BY <1>2, <2>2
  <2>3. CASE GoOn(c, hook[c].item)
    BY <1>4, <1>5, <2>3 DEF CheckRaises
  <2> QED
    BY <1>5, <2>1, <2>2, <2>3 DEF CheckRaises, Unexpected, Abandon
<1>6. ASSUME NEW c \in Caller, Violation(c)
      PROVE  agent'.error = "AgentGuardViolation"
  BY <1>2, <1>6 DEF Violation, Raises
<1>7. ASSUME NEW c \in Caller, WriteBack(c)
      PROVE  FALSE
  BY <1>4, <1>7 DEF WriteBack, EnforcementEnds
<1>8. ASSUME NEW c \in Caller, Answered(c)
      PROVE  FALSE
  <2>1. [agent EXCEPT !.phase = "route", !.calls = {}].error = agent.error
    BY <1>1 DEF Agents
  <2> QED
    BY <1>2, <1>8, <2>1 DEF Answered
<1>9. ASSUME NEW c \in Caller, Checked(c) \/ ExecutorStep(c)
      PROVE  FALSE
  BY <1>9 DEF Checked, ExecutorStep
<1>10. CASE UNCHANGED vars
  BY <1>10 DEF vars
<1> QED
  BY <1>3, <1>5, <1>6, <1>7, <1>8, <1>9, <1>10 DEF Next, HookStep

\* fail_open keeps every error but the violations in the hooks: none of a guard's
\* errors, in any hook, ends the invocation.
THEOREM ErrorsStayInside == Spec => []OnlyViolationsEscape
<1>1. Init => OnlyViolationsEscape
  BY DEF Init, OnlyViolationsEscape
<1>2. ASSUME TypeInv, OnlyViolationsEscape, [Next]_vars
      PROVE  OnlyViolationsEscape'
  <2>1. middleware' = middleware
    BY <1>2, StepLeavesSettings
  <2> QED
    BY <1>2, <2>1, ErrorsOfStep DEF OnlyViolationsEscape
<1> QED
  BY <1>1, <1>2, TypesAtFirst, TypesKept, PTL DEF Spec
-----------------------------------------------------------------------------
(* Monitor mode *)

Watching ==
  /\ settings.mode = "monitor" /\ settings.fail = "open"
  /\ "quarantine" \notin Decidable(settings, TRUE)

\* An enforcement with nothing to do but to let the content pass.
Calm(w) ==
  /\ w.decision \notin {"redact", "block", "quarantine"}
  /\ w.at \in {"rest", "enforce", "done"} /\ w.result \in {"none", "passed"}

Watched ==
  Watching => agent.error # "AgentGuardViolation" /\ \A c \in Caller : Calm(work[c])

\* A guard that only watches allows or warns.
LEMMA WatchersAnswer ==
  ASSUME TypeInv, Watching, NEW a \in InspectAnswers(settings), a.outcome = "returned"
  PROVE  a.decision \notin {"redact", "block", "quarantine"}
<1>1. settings.policy \in SeverityPolicies \cup {Custom}
  BY SettingsAssumption DEF TypeInv, TypeOK, GuardSettings
<1>2. ASSUME NEW detected \in BOOLEAN
      PROVE  Decidable(settings, detected) \subseteq {"allow", "warn", "redact", "block"}
  <2>1. Decidable(settings, detected) \subseteq Decidable(settings, TRUE)
    BY DEF Decidable
  <2>2. Decidable(settings, TRUE) \subseteq Action
    BY <1>1, DecideTyped DEF Decidable, Action
  <2> QED
    BY <2>1, <2>2 DEF Watching, Action
<1>3. \A d \in {"allow", "warn", "redact", "block"} : UnderMode(settings, d) \in {"allow", "warn"}
  BY DEF UnderMode, Watching
<1>4. PICK detected \in BOOLEAN, flawless \in BOOLEAN :
        a \in PolicyAnswers(settings, detected, flawless)
  <2>1. \A detected, flawless : Answer("inspect", "ValueError", "none", detected, flawless).outcome
                                  = "ValueError"
    BY DEF Answer
  <2>2. settings.fail # "closed"
    BY DEF Watching
  <2> QED
    BY <2>1, <2>2 DEF InspectAnswers
<1>5. PICK d \in Decidable(settings, detected) :
        a = Answer("inspect", "returned", UnderMode(settings, d), detected, flawless)
  BY <1>4 DEF PolicyAnswers
<1>6. a.decision = UnderMode(settings, d)
  BY <1>5 DEF Answer
<1>7. a.decision \in {"allow", "warn"}
  BY <1>2, <1>3, <1>5, <1>6
<1> QED
  BY <1>7

LEMMA WatchedKept ==
  ASSUME TypeInv, Watched, [Next]_vars
  PROVE  Watched'
<1> SUFFICES ASSUME Watching'
             PROVE  agent'.error # "AgentGuardViolation" /\ \A c \in Caller : Calm(work'[c])
  BY DEF Watched, Calm
<1>1. Watching
  BY StepLeavesSettings DEF Watching, Decidable
<1>2. /\ agent.error # "AgentGuardViolation" /\ \A c \in Caller : Calm(work[c])
      /\ work \in [Caller -> Works]
  BY <1>1 DEF Watched, TypeInv, TypeOK, ExecutorTypeOK, Works
<1>3. agent'.error # "AgentGuardViolation"
  <2>1. ASSUME NEW c \in Caller, Violation(c)
        PROVE  FALSE
    BY <1>2, <2>1 DEF Violation, Calm
  <2> QED
    BY <1>2, <2>1, ErrorsOfStep
<1>4. ASSUME NEW c \in Caller, NEW w, work' = [work EXCEPT ![c] = w], Calm(w)
      PROVE  \A d \in Caller : Calm(work'[d])
  BY <1>2, <1>4
<1>5. ASSUME NEW c \in Caller, HookStep(c)
      PROVE  \A d \in Caller : Calm(work'[d])
  <2>1. CASE Checked(c)
    <3>1. PICK a \in InspectAnswers(settings) :
            /\ a.outcome = "returned"
            /\ work' = [work EXCEPT ![c] = Enforcing(a.decision, a.detected)]
      BY <2>1, Judges
    <3>2. Calm(Enforcing(a.decision, a.detected))
      BY <1>1, <3>1, WatchersAnswer DEF Calm, Enforcing, NoWork
    <3> QED
      BY <1>4, <3>1, <3>2
  <2>2. CASE CheckRaises(c)
    BY <1>2, <2>2 DEF CheckRaises
  <2>3. CASE EnforcementEnds(c)
    <3>1. Calm(NoWork)
      BY DEF Calm, NoWork
    <3> QED
      BY <1>4, <2>3, <3>1 DEF EnforcementEnds
  <2> QED
    BY <1>5, <2>1, <2>2, <2>3 DEF HookStep, Violation, WriteBack, Answered
<1>6. ASSUME NEW c \in Caller, ExecutorStep(c)
      PROVE  \A d \in Caller : Calm(work'[d])
  <2>1. work[c] \in Works /\ Calm(work[c])
    BY <1>2
  <2>2. Passes(c)
    BY <1>6, <2>1 DEF ExecutorStep, EnforceStep, Redacts, RedactionFails, Stops, Notify,
       HandlerReturns, HandlerRaises, NeedsRedaction, At, Calm
  <2> DEFINE w == [work[c] EXCEPT !.at = "done", !.result = "passed"]
  <2>3. work' = [work EXCEPT ![c] = w]
    BY <2>2 DEF Passes, Done, Step
  <2>4. w.at = "done" /\ w.result = "passed" /\ w.decision = work[c].decision
    BY <2>1 DEF Works
  <2> HIDE DEF w
  <2>5. Calm(w)
    BY <2>1, <2>4 DEF Calm
  <2> QED
    BY <1>4, <2>3, <2>5
<1>7. CASE AgentStep \/ UNCHANGED vars
  <2>1. work' = work
    BY <1>7 DEF AgentStep, BeforeModel, ModelAnswers, AfterModel, Route, ToolRuns, ToolsReturn,
       vars
  <2>2. \A c \in Caller : Calm(work'[c])
    BY <1>2, <2>1
  <2> QED
    BY <1>3, <2>2
<1> QED
  BY <1>3, <1>5, <1>6, <1>7 DEF Next

\* In monitor mode the middleware never raises AgentGuardViolation, whatever is
\* scanned and however its own executor and fail_open are set, if the guard fails
\* open and its policy never quarantines.
THEOREM MonitorsOnlyWatch == Spec => []MonitorOnlyWatches
<1> DEFINE Inv == TypeInv /\ Watched
<1>1. Init => Inv
  <2>1. Init => Watched
    <3>1. Calm(NoWork)
      BY DEF Calm, NoWork
    <3> QED
      BY <3>1 DEF Init, ExecutorInit, Watched
  <2> QED
    BY <2>1, TypesAtFirst
<1>2. Inv /\ [Next]_vars => Inv'
  BY TypesKept, WatchedKept
<1>3. Inv => MonitorOnlyWatches
  BY DEF Watched, Watching, MonitorOnlyWatches
<1> HIDE DEF Inv
<1> QED
  BY <1>1, <1>2, <1>3, PTL DEF Spec
=============================================================================
