------------------------- MODULE LangChainMiddleware -------------------------
(***************************************************************************)
(* AgentGuardMiddleware of qarai_agent_guard_langchain/middleware.py in an   *)
(* agent: before_model, after_model and wrap_tool_call, around a loop of     *)
(* model calls and tool calls.  The loop is LangChain's, modelled from how   *)
(* the hooks use it: the hooks run on one thread, tool calls each on their   *)
(* own, and all share one middleware, with its guard and executor.          *)
(*                                                                         *)
(* The guard answers as GuardAnswers says.  A verdict on a message lasts      *)
(* until the model has read it: before_model scans all messages every time.  *)
(***************************************************************************)
EXTENDS PolicyExecutor, SequencesExt

CONSTANTS
  Loop,         \* the thread that runs the agent's loop
  Tool,         \* the threads that run tool calls
  Settings,     \* the settings of the guards
  Scans,        \* which of the four points are scanned, as sets of points
  MaxMessages   \* bound: the conversation does not go on beyond that length

ASSUME CallerAssumption == Loop \notin Tool /\ Caller = Tool \cup {Loop}
ASSUME ToolAssumption == IsFiniteSet(Tool)
ASSUME SettingsAssumption == Settings \subseteq GuardSettings(SeverityPolicies)

Point == {"input", "output", "tool_call", "tool_result"}

ASSUME ScansAssumption == Scans \subseteq SUBSET Point

VARIABLES
  middleware,  \* [failOpen, scan]: fail_open and the scan_* options
  agent,       \* [phase, calls, error]: where the loop is, the tool calls of the
               \* last model message, the exception the invocation ended with
  messages,    \* the conversation
  hook,        \* hook[c]: the hook that c runs
  stopped      \* how many enforcements ended in a refusal (history)

vars == <<settings, executor, violations, work, middleware, agent, messages, hook, stopped>>

\* item: the content under scan; at: where the hook is with it.
NoHook == [at |-> "rest", point |-> "none", place |-> 0, item |-> Fresh]

Scanning(point, place, item) ==
  [at |-> "check", point |-> point, place |-> place, item |-> item]

Scanned(point) == point \in middleware.scan

Init ==
  /\ settings \in Settings
  /\ ExecutorInit
  /\ middleware \in [failOpen : BOOLEAN, scan : Scans]
  /\ agent = [phase |-> "input", calls |-> {}, error |-> "none"]
  /\ messages = <<Fresh>>
  /\ hook = [c \in Caller |-> NoHook]
  /\ stopped = 0

Enter(phase) == [agent EXCEPT !.phase = phase]

\* The invocation raises: nothing runs any more but tool calls under way.
Failed(error) == [agent EXCEPT !.phase = "raised", !.error = error]

Hooked(c, next) == hook' = [hook EXCEPT ![c] = next]

AtRest == \A c \in Caller : hook[c].at = "rest"
-----------------------------------------------------------------------------
(* The loop around the hooks (LangChain) *)

\* before_model, or straight to the model.
BeforeModel ==
  /\ agent.phase = "input"
  /\ Len(messages) <= MaxMessages
  /\ AtRest
  /\ IF Scanned("input")
     THEN Hooked(Loop, Scanning("input", 1, messages[1])) /\ agent' = Enter("scanning")
     ELSE UNCHANGED hook /\ agent' = Enter("model")
  /\ UNCHANGED <<settings, executor, violations, work, middleware, messages, stopped>>

\* The model reads all messages and answers, with tool calls or without.
ModelAnswers ==
  /\ agent.phase = "model"
  /\ Len(messages) < MaxMessages
  /\ messages' = Append([i \in DOMAIN messages |->
                           [messages[i] EXCEPT !.verdict = "unscanned"]], Fresh)
  /\ \E calls \in SUBSET Tool : agent' = [agent EXCEPT !.phase = "output", !.calls = calls]
  /\ UNCHANGED <<settings, executor, violations, work, middleware, hook, stopped>>

\* after_model: the last message, which is the model's.
AfterModel ==
  /\ agent.phase = "output"
  /\ AtRest
  /\ IF Scanned("output")
     THEN /\ Hooked(Loop, Scanning("output", Len(messages), messages[Len(messages)]))
          /\ agent' = Enter("scanning")
     ELSE UNCHANGED hook /\ agent' = Enter("route")
  /\ UNCHANGED <<settings, executor, violations, work, middleware, messages, stopped>>

\* The tool calls run in parallel, each through wrap_tool_call; without any the
\* invocation returns.
Route ==
  /\ agent.phase = "route"
  /\ hook' = [c \in Caller |->
                IF c \notin agent.calls THEN hook[c]
                ELSE IF Scanned("tool_call") THEN Scanning("tool_call", 0, Fresh)
                ELSE [Scanning("tool_call", 0, Fresh) EXCEPT !.at = "run"]]
  /\ agent' = Enter(IF agent.calls = {} THEN "ended" ELSE "tools")
  /\ UNCHANGED <<settings, executor, violations, work, middleware, messages, stopped>>

\* handler(request): the tool runs on the arguments and returns a result.
ToolRuns(t) ==
  /\ hook[t].at = "run"
  /\ Hooked(t, IF Scanned("tool_result") THEN Scanning("tool_result", 0, Fresh)
               ELSE [NoHook EXCEPT !.at = "done"])
  /\ UNCHANGED <<settings, executor, violations, work, middleware, agent, messages, stopped>>

\* All tool calls returned: their messages are the next input.
ToolsReturn ==
  /\ agent.phase = "tools"
  /\ \A t \in agent.calls : hook[t].at = "done"
  /\ \E order \in SetToSeqs(agent.calls) :
       messages' = messages \o [i \in DOMAIN order |-> hook[order[i]].item]
  /\ hook' = [c \in Caller |-> NoHook]
  /\ agent' = [agent EXCEPT !.phase = "input", !.calls = {}]
  /\ UNCHANGED <<settings, executor, violations, work, middleware, stopped>>
-----------------------------------------------------------------------------
(* The hooks *)

\* Where a hook goes on when it is done with one piece of content: the next
\* message, the model, the tool, or back to the caller.
GoOn(c, item) ==
  LET h == hook[c] IN
  CASE h.point = "input" ->
         IF h.place < Len(messages)
         THEN /\ Hooked(c, Scanning("input", h.place + 1, messages[h.place + 1]))
              /\ UNCHANGED agent
         ELSE Hooked(c, NoHook) /\ agent' = Enter("model")
    [] h.point = "output" -> Hooked(c, NoHook) /\ agent' = Enter("route")
    [] h.point = "tool_call" ->
         Hooked(c, [h EXCEPT !.at = "run", !.item = item]) /\ UNCHANGED agent
    [] h.point = "tool_result" ->
         Hooked(c, [h EXCEPT !.at = "done", !.item = item]) /\ UNCHANGED agent

\* The hook is over and the invocation fails.
Raises(c, error) ==
  /\ Hooked(c, NoHook)
  /\ agent' = Failed(error)

\* Where a hook goes on after an error that fail_open swallows: before_model
\* leaves its loop, the other hooks go on with the content as it is.
Abandon(c) ==
  IF hook[c].point = "input" THEN Hooked(c, NoHook) /\ agent' = Enter("model")
  ELSE GoOn(c, hook[c].item)

\* guard.check returns a decision, which the executor is to enforce.
Checked(c) ==
  /\ hook[c].at = "check"
  /\ \E a \in InspectAnswers(settings) :
       /\ a.outcome = "returned"
       /\ Hooked(c, [hook[c] EXCEPT !.at = "enforce", !.item = Judged(@, a)])
       /\ work' = [work EXCEPT ![c] = Enforcing(a.decision, a.detected)]
  /\ UNCHANGED <<settings, executor, violations, middleware, agent, messages, stopped>>

\* _handle_unexpected.
Unexpected(c) ==
  IF middleware.failOpen THEN Abandon(c) ELSE Raises(c, "AgentGuardMiddlewareError")

\* Slip: an error is handled by the fail_open of the hook only where it happens
\* before the tool, and let out as it is after it.
CheckRaises_Escapes(c) ==
  /\ hook[c].at = "check"
  /\ \E a \in InspectAnswers(settings) :
       /\ a.outcome # "returned"
       /\ IF hook[c].point = "tool_result" THEN Raises(c, a.outcome) ELSE Unexpected(c)
  /\ UNCHANGED <<settings, executor, violations, work, middleware, messages, stopped>>

\* guard.check raises.
CheckRaises(c) ==
  /\ hook[c].at = "check"
  /\ \E a \in InspectAnswers(settings) : a.outcome # "returned" /\ Unexpected(c)
  /\ UNCHANGED <<settings, executor, violations, work, middleware, messages, stopped>>

EnforcementEnds(c) ==
  /\ hook[c].at = "enforce"
  /\ At(c, "done")
  /\ work' = [work EXCEPT ![c] = NoWork]
  /\ stopped' = stopped + (IF work[c].result \in {"blocked", "violation"} THEN 1 ELSE 0)
  /\ UNCHANGED <<settings, executor, violations, middleware>>

\* Slip: the handler for unexpected errors comes first and takes them all.
Violation_Unexpected(c) ==
  /\ EnforcementEnds(c)
  /\ work[c].result = "violation"
  /\ Unexpected(c)
  /\ UNCHANGED messages

\* except AgentGuardViolation: raise
Violation(c) ==
  /\ EnforcementEnds(c)
  /\ work[c].result = "violation"
  /\ Raises(c, "AgentGuardViolation")
  /\ UNCHANGED messages

\* What the hook makes of the content: result.content where it differs.  The
\* flag `blocked` of the result is not looked at.
Enforced(c) ==
  IF work[c].result = "redacted" THEN [hook[c].item EXCEPT !.text = "masked"]
  ELSE hook[c].item

\* before_model and wrap_tool_call: the message, the arguments or the result
\* becomes the enforced content.
WriteBack(c) ==
  /\ EnforcementEnds(c)
  /\ work[c].result # "violation"
  /\ hook[c].point # "output"
  /\ messages' = IF hook[c].point = "input"
                 THEN [messages EXCEPT ![hook[c].place] = Enforced(c)] ELSE messages
  /\ GoOn(c, Enforced(c))

\* LangGraph's add_messages: a message without the id of an older one is new.
AddMessage(item) == messages' = Append(messages, item)

\* after_model: a redacted answer comes back as a new AIMessage, without the id
\* and without the tool calls of the model's.
Answered(c) ==
  /\ EnforcementEnds(c)
  /\ work[c].result # "violation"
  /\ hook[c].point = "output"
  /\ Hooked(c, NoHook)
  /\ IF work[c].result = "redacted"
     THEN /\ AddMessage(Enforced(c))
          /\ agent' = [agent EXCEPT !.phase = "route", !.calls = {}]
     ELSE /\ messages' = [messages EXCEPT ![hook[c].place] = Enforced(c)]
          /\ agent' = Enter("route")

HookStep(c) ==
  \/ Checked(c)
  \/ CheckRaises(c)
  \/ Violation(c)
  \/ WriteBack(c)
  \/ Answered(c)

ExecutorStep(c) ==
  /\ EnforceStep(c)
  /\ UNCHANGED <<middleware, agent, messages, hook, stopped>>

AgentStep ==
  \/ BeforeModel
  \/ ModelAnswers
  \/ AfterModel
  \/ Route
  \/ \E t \in Tool : ToolRuns(t)
  \/ ToolsReturn

Next ==
  \/ AgentStep
  \/ \E c \in Caller : HookStep(c) \/ ExecutorStep(c)

Spec == Init /\ [][Next]_vars
-----------------------------------------------------------------------------
(* What must hold *)

TypeOK ==
  /\ settings \in Settings
  /\ ExecutorTypeOK
  /\ middleware \in [failOpen : BOOLEAN, scan : SUBSET Point]
  /\ agent \in [phase : {"input", "scanning", "model", "output", "route", "tools",
                         "ended", "raised"},
                calls : SUBSET Tool,
                error : {"none", "AgentGuardViolation", "AgentGuardMiddlewareError"}]
  /\ messages \in Seq(Item)
  /\ hook \in [Caller -> [at : {"rest", "check", "enforce", "run", "done"},
                          point : Point \cup {"none"}, place : 0..Len(messages),
                          item : Item]]
  /\ stopped \in Nat

\* What the agent is about to use: the messages the model is going to read, and
\* the arguments a tool is going to run on.
InUse ==
  (IF agent.phase = "model" THEN ToSet(messages) ELSE {})
  \cup {hook[t].item : t \in {u \in Tool : hook[u].at = "run"}}

\* What was to be stopped is stopped: with raise_on_violation, and no quarantine
\* handler to take the content away, no model and no tool gets content that was
\* decided to be blocked or quarantined; a swallowed error is no way round.
StoppedIsNotUsed ==
  \A item \in InUse : ~Unusable(item)

\* With a guard and a middleware that both fail closed, and violations raised,
\* nothing that is scanned is used unless the scan came to its end: each
\* message and each argument was allowed, or is redacted if it had to be.
NothingSlipsThrough ==
  Strict /\ ~middleware.failOpen =>
    /\ agent.phase = "model" /\ Scanned("input") =>
         \A i \in DOMAIN messages : Cleared(messages[i])
    /\ Scanned("tool_call") =>
         \A t \in Tool : hook[t].at = "run" => Cleared(hook[t].item)

\* An enforcement that is counted and has not ended yet.
Refused(c) == At(c, "hand") \/ work[c].result \in {"blocked", "violation"}

\* Each refusal is counted, once, whatever the user's callbacks and handlers do
\* and however many tool calls are enforced at the same time.
ViolationsCounted ==
  violations = stopped + Cardinality({c \in Caller : Refused(c)})

\* fail_open keeps the agent running: the hooks let AgentGuardViolation out and
\* no other exception.
OnlyViolationsEscape ==
  middleware.failOpen => agent.error \in {"none", "AgentGuardViolation"}

\* docs/langchain.md:196 says of monitor mode: "the middleware never raises
\* `AgentGuardViolation`".  That is so for a guard that fails open and has a
\* policy that never quarantines, as the built-in ones; a fail-closed BLOCK and a
\* QUARANTINE are not converted.
MonitorOnlyWatches ==
  (/\ settings.mode = "monitor" /\ settings.fail = "open"
   /\ "quarantine" \notin Decidable(settings, TRUE)) =>
    agent.error # "AgentGuardViolation"

\* docs/langchain.md:79: "Send the content to the quarantine handler and stop
\* execution."
QuarantineStops ==
  executor.raises => \A item \in InUse : item.verdict # "quarantine"
=============================================================================
