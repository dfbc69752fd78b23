----------------------------- MODULE CrewAIHooks -----------------------------
(***************************************************************************)
(* enable_guard of qarai_agent_guard_crewai/global_hooks.py: the four hooks  *)
(* it registers with CrewAI, around the calls of a crew's agents.  The calls *)
(* are CrewAI's, modelled from what the hooks read of their contexts; the    *)
(* hooks are global, so all agents share one guard and one executor.        *)
(*                                                                         *)
(* A hook returns None: what it makes of the content, it writes into the     *)
(* context it was called with.  The guard answers as GuardAnswers says.  A   *)
(* message, response or result that is empty is not scanned; content here    *)
(* is never empty.                                                          *)
(***************************************************************************)
EXTENDS PolicyExecutor, Sequences

CONSTANTS
  Settings,     \* the settings of the guards
  Selections,   \* the sets of hooks enable_guard is asked for
  Prompts,      \* with how many messages an agent begins
  MaxMessages   \* bound: an agent's conversation does not go on beyond that

Hook == {"before_llm_call", "after_llm_call", "before_tool_call", "after_tool_call"}

ASSUME SettingsAssumption == Settings \subseteq GuardSettings(SeverityPolicies)
ASSUME SelectionsAssumption == Selections \subseteq SUBSET Hook
ASSUME PromptsAssumption == Prompts \subseteq Nat \ {0}

VARIABLES
  config,    \* [hooks, failOpen, all, context, message]: the hooks selected, fail_open,
             \* scan_all_messages; are contexts, and messages, objects or dictionaries?
  messages,  \* messages[c]: the conversation of agent c
  agent      \* agent[c]: where agent c is, and the content it has in hand

vars == <<settings, executor, violations, work, config, messages, agent>>

\* at: how far the hook of this phase is with the content, or with the message
\* at a place of the conversation.
Start == [phase |-> "before_llm_call", at |-> "rest", place |-> 0, item |-> Fresh,
          error |-> "none"]

Init ==
  /\ settings \in Settings
  /\ ExecutorInit
  /\ config \in [hooks : Selections, failOpen : BOOLEAN, all : BOOLEAN,
                 context : {"object", "dict"}, message : {"object", "dict"}]
  /\ messages \in [Caller -> {[i \in 1..n |-> Fresh] : n \in Prompts}]
  /\ agent = [c \in Caller |-> Start]

Agent(c, next) == agent' = [agent EXCEPT ![c] = next]

Resting(c, phase) == agent[c].at = "rest" /\ agent[c].phase = phase

\* The agent has something in hand and is about to enter a phase.
Enter(c, phase, item) == [agent[c] EXCEPT !.at = "rest", !.place = 0,
                                          !.phase = phase, !.item = item]

\* What comes after the hooks of a phase.
After == [h \in Hook |->
            CASE h = "before_llm_call" -> "llm"
              [] h = "after_llm_call" -> "answer"
              [] h = "before_tool_call" -> "tool"
              [] h = "after_tool_call" -> "result"]

Leave(c, item) == Enter(c, After[agent[c].phase], item)
-----------------------------------------------------------------------------
(* What CrewAI does between the hooks *)

\* A hook that is not registered is not there.
Unhooked(c) ==
  /\ \E h \in Hook \ config.hooks : Resting(c, h)
  /\ Agent(c, Leave(c, agent[c].item))
  /\ UNCHANGED messages

LLMAnswers(c) ==
  /\ Resting(c, "llm")
  /\ Len(messages[c]) < MaxMessages
  /\ Agent(c, Enter(c, "after_llm_call", Fresh))
  /\ UNCHANGED messages

Say(c) == messages' = [messages EXCEPT ![c] = Append(@, agent[c].item)]

\* The response joins the conversation; it ends the task or asks for a tool.
TakeAnswer(c) ==
  /\ Resting(c, "answer")
  /\ Say(c)
  /\ \E phase \in {"ended", "before_tool_call"} : Agent(c, Enter(c, phase, Fresh))

ToolRuns(c) ==
  /\ Resting(c, "tool")
  /\ Agent(c, Enter(c, "after_tool_call", Fresh))
  /\ UNCHANGED messages

TakeResult(c) ==
  /\ Resting(c, "result")
  /\ Say(c)
  /\ Agent(c, Enter(c, "before_llm_call", Fresh))

CrewStep(c) ==
  /\ \/ Unhooked(c)
     \/ LLMAnswers(c)
     \/ TakeAnswer(c)
     \/ ToolRuns(c)
     \/ TakeResult(c)
  /\ UNCHANGED <<settings, executor, violations, work, config>>
-----------------------------------------------------------------------------
(* The hooks *)

Scan(c, place) ==
  [agent[c] EXCEPT !.at = "check", !.place = place, !.item = messages[c][place]]

\* The messages to scan: all, or the latest.
EnterHook(c) ==
  /\ \E h \in config.hooks : Resting(c, h)
  /\ Agent(c, IF agent[c].phase = "before_llm_call"
              THEN Scan(c, IF config.all THEN 1 ELSE Len(messages[c]))
              ELSE [agent[c] EXCEPT !.at = "check"])
  /\ UNCHANGED <<settings, executor, violations, work, config, messages>>

\* guard.check returns a decision, which the executor is to enforce.
Checked(c) ==
  /\ agent[c].at = "check"
  /\ \E a \in InspectAnswers(settings) :
       /\ a.outcome = "returned"
       /\ Agent(c, [agent[c] EXCEPT !.at = "enforce", !.item = Judged(@, a)])
       /\ work' = [work EXCEPT ![c] = Enforcing(a.decision, a.detected)]
  /\ UNCHANGED <<settings, executor, violations, config, messages>>

Raise(c, error) == Agent(c, [Enter(c, "raised", Fresh) EXCEPT !.error = error])

\* _handle_unexpected: the hook ends here, before_llm_call's with the messages
\* that follow unscanned; on_error's own errors are swallowed.
Unexpected(c) ==
  IF config.failOpen THEN Agent(c, Leave(c, agent[c].item)) ELSE Raise(c, "AgentGuardHookError")

\* guard.check raises.
CheckRaises(c) ==
  /\ agent[c].at = "check"
  /\ \E a \in InspectAnswers(settings) : a.outcome # "returned"
  /\ Unexpected(c)
  /\ UNCHANGED <<settings, executor, violations, work, config, messages>>

EnforcementEnds(c) ==
  /\ agent[c].at = "enforce"
  /\ At(c, "done")
  /\ work' = [work EXCEPT ![c] = NoWork]
  /\ UNCHANGED <<settings, executor, violations, config>>

\* Slip: the handler for unexpected errors comes first and takes them all.
Violation_Unexpected(c) ==
  /\ EnforcementEnds(c)
  /\ work[c].result = "violation"
  /\ Unexpected(c)
  /\ UNCHANGED messages

\* except AgentGuardViolation: raise
Violation(c) ==
  /\ EnforcementEnds(c)
  /\ work[c].result = "violation"
  /\ Raise(c, "AgentGuardViolation")
  /\ UNCHANGED messages

\* What enforce returned without raising, as a text: "redacted" and "tried" are
\* the results with the flag `redacted`.
Enforced(c) ==
  [agent[c].item EXCEPT !.text = IF work[c].result = "redacted" THEN "masked" ELSE @]

\* A result that is not to be blocked is all the hooks look for: result.blocked
\* is not looked at.
Returns(c, h) ==
  /\ EnforcementEnds(c)
  /\ agent[c].phase = h
  /\ work[c].result # "violation"

\* Slip: the hook returns after the first message it has scanned.
NextMessage_Returns(c) == Agent(c, Leave(c, Fresh))

\* for message in messages_to_scan: the next one, or the LLM.
NextMessage(c) ==
  Agent(c, IF agent[c].place < Len(messages[c]) THEN Scan(c, agent[c].place + 1)
           ELSE Leave(c, Fresh))

\* What becomes of a message: a dictionary gets its new content; an object may
\* refuse the assignment, which is logged, and stays as it is.
Written(c) ==
  {Enforced(c)} \cup (IF config.message = "object" THEN {agent[c].item} ELSE {})

\* before_llm_call rewrites the message itself (_set_message_content).
RewriteMessage(c) ==
  /\ Returns(c, "before_llm_call")
  /\ \E item \in Written(c) : messages' = [messages EXCEPT ![c][agent[c].place] = item]
  /\ NextMessage(c)

\* after_llm_call and after_tool_call assign an attribute of the context.  On a
\* dictionary (which stands for whatever refuses that) it raises, which is
\* logged: the content stays as it is.
RewriteContext(c) ==
  /\ \E h \in {"after_llm_call", "after_tool_call"} : Returns(c, h)
  /\ Agent(c, Leave(c, IF config.context = "object" THEN Enforced(c) ELSE agent[c].item))
  /\ UNCHANGED messages

\* before_tool_call rewrites the arguments if what they were redacted to is a
\* dictionary.  The library's detector returns a string, so they stay as they are;
\* one of the user's own may return a dictionary.  When every redaction failed in
\* a fail-open guard, it is the arguments themselves, which are then cleared and
\* updated from what is left of them.
RewriteArguments(c) ==
  /\ Returns(c, "before_tool_call")
  /\ \/ Agent(c, Leave(c, agent[c].item))
     \/ /\ work[c].result = "redacted"
        /\ Agent(c, Leave(c, Enforced(c)))
     \/ /\ work[c].result = "tried"
        /\ Agent(c, Leave(c, [agent[c].item EXCEPT !.text = "gone"]))
  /\ UNCHANGED messages

HookStep(c) ==
  \/ EnterHook(c)
  \/ Checked(c)
  \/ CheckRaises(c)
  \/ Violation(c)
  \/ RewriteMessage(c)
  \/ RewriteContext(c)
  \/ RewriteArguments(c)

ExecutorStep(c) ==
  /\ EnforceStep(c)
  /\ UNCHANGED <<config, messages, agent>>

Next == \E c \in Caller : CrewStep(c) \/ HookStep(c) \/ ExecutorStep(c)

Spec == Init /\ [][Next]_vars
-----------------------------------------------------------------------------
(* What must hold *)

TypeOK ==
  /\ settings \in Settings
  /\ ExecutorTypeOK
  /\ config \in [hooks : SUBSET Hook, failOpen : BOOLEAN, all : BOOLEAN,
                 context : {"object", "dict"}, message : {"object", "dict"}]
  /\ messages \in [Caller -> Seq(Item)]
  /\ agent \in [Caller -> [phase : Hook \cup {"llm", "answer", "tool", "result",
                                              "ended", "raised"},
                           at : {"rest", "check", "enforce"},
                           place : Nat,
                           item : Item,
                           error : {"none", "AgentGuardViolation", "AgentGuardHookError"}]]
  /\ \A c \in Caller : agent[c].place <= Len(messages[c])

\* docs/crewai.md:152 says that policy decisions "do not follow `fail_open`": what
\* a hook decided to block or to quarantine is not read by the LLM and no tool
\* runs on it, whichever errors are swallowed before or after.
StoppedIsNotUsed ==
  \A c \in Caller :
    /\ Resting(c, "llm") => \A i \in DOMAIN messages[c] : ~Unusable(messages[c][i])
    /\ Resting(c, "tool") => ~Unusable(agent[c].item)

\* What before_llm_call scans of the conversation at every LLM call.
Rescanned(c, i) == config.all \/ i = Len(messages[c])

\* The messages the integration answers for before an LLM call: what it has just
\* scanned, and with the hooks that scan responses and results, everything but
\* the older part of the agent's prompt.
AnswersFor(c, i) ==
  \/ Rescanned(c, i)
  \/ /\ {"after_llm_call", "after_tool_call"} \subseteq config.hooks
     /\ \E n \in Prompts : i > n /\ \A m \in Prompts : m <= n

\* The one way for content that was to be redacted to stay as it is: the object
\* it is part of refused its new content, which is logged and nothing else.  What
\* a context refused is written into the message if that is scanned again.
Refused(c, i) ==
  /\ messages[c][i].verdict = "redact"
  /\ \/ config.message = "object"
     \/ config.context = "dict" /\ ~Rescanned(c, i)

\* "The default avoids repeatedly scanning messages that were already inspected"
\* (enable_guard's docstring): when guard and hooks fail closed, each of these was
\* allowed or is redacted, though most were scanned by an earlier hook only; no
\* error leads past a scan, and what is left unredacted is no more than the
\* objects that take no new content.
ConversationCleared ==
  Strict /\ ~config.failOpen /\ "before_llm_call" \in config.hooks =>
    \A c \in Caller :
      Resting(c, "llm") =>
        \A i \in DOMAIN messages[c] :
          AnswersFor(c, i) => Cleared(messages[c][i]) \/ Refused(c, i)

\* docs/crewai.md:90, of REDACT: "Redact the content and write the result back to
\* the context."
ArgumentsRedacted ==
  \A c \in Caller :
    Strict /\ Resting(c, "tool") /\ agent[c].item.verdict = "redact" =>
      agent[c].item.text = "masked"
=============================================================================
