# A verification project for qarai-agent-guard

This directory holds TLA+ models of `qarai-agent-guard`, a Python library that
inspects what an LLM agent reads and writes, and of its LangChain and CrewAI
integrations. TLC checks the models on small instances; TLAPS proves every
invariant and every refinement those checks are about, for all instances. Only
liveness is left to TLC alone. Paths below are relative to the repository root;
`src/` is the library, `core/` stands for `src/qarai_agent_guard/core/`.

- [The system](#the-system)
- [The modules](#the-modules)
- [The runs](#the-runs)
- [What is proved](#what-is-proved)
- [Where code and documentation disagree](#where-code-and-documentation-disagree)
- [What is assumed and what is left out](#what-is-assumed-and-what-is-left-out)
- [Plan](#plan)

To check everything: `tlc -workers 2 -config <run>.cfg <module>.tla` for each
line of the table under *The runs*, and `tlapm ModelLoaderProofs.tla`,
`tlapm SeverityPolicyProofs.tla`, `tlapm GuardProofs.tla`,
`tlapm GuardRefinementProofs.tla`, `tlapm RedactionProofs.tla`,
`tlapm ExecutorProofs.tla`, `tlapm LangChainProofs.tla`, `tlapm CrewAIProofs.tla`.

## The system

An agent (LangChain, CrewAI, or code of one's own) hands each piece of content,
prompts, model answers, tool arguments, tool results, to an `AgentGuard`. The
guard runs its detectors, asks its policy what the findings call for, and
answers with a decision. A `PolicyExecutor` turns the decision into what
happens: the content passes, is redacted, or is stopped. Detectors may ask a
machine-learning model; providers for these are shared through a process-wide
`ModelLoader`.

    agent loop ── hooks ──► AgentGuardMiddleware / CrewAI hooks
                              │ check            │ enforce
                              ▼                  ▼
                          AgentGuard ◄──── PolicyExecutor ──► on_violation,
                            │   │  apply_redactions           on_warn,
            event callbacks │   │                             quarantine handler
            (may call back) ▼   ▼
                          Detector ──► InferenceEngine ──► ModelLoader ──► providers

| Component | State it keeps | Operations | What is hard | What makes it correct |
| --- | --- | --- | --- | --- |
| `ModelLoader` with the providers (`core/models/loader.py`, `providers/`) | the cache, its lock, each provider's client or pipeline | `get`, `release`, `clear`; `load`, `predict`, `unload` | threads share it; the lock is held over a load that may fail, but neither over `unload` nor over `predict` | one provider per key; what is cached is usable; what is removed is unloaded once; no HTTP client is forgotten; the lock is never left taken |
| Detector registry (`core/guards/agent_guard.py:186-262`) | `detectors`, `_disabled`, `event_callbacks` | `register_detector`, `unregister_detector`, `disable_detector`, `enable_detector`, `register_callback` | no lock; each operation looks and then writes | names stay unique; a removed name leaves nothing behind |
| `AgentGuard` calls (`core/guards/agent_guard.py:264-640`) | `events`, the settings, and the progress of each call | `inspect`, `inspect_with_results`, `check`, `apply_redactions` | walks live lists that other threads and its own callbacks change; detectors, policy and callbacks may raise at any point; two fail behaviours × two modes × two strategies | fail-closed is never weakened; no finding hides another; every failure is reported; every callback hears everything; each call ends |
| Severity policies (`core/policies/base.py`, `defaults.py`, `core/helpers/detection_utils.py`) | none | `evaluate`, `highest_*_severity` | bad labels raise, absent model severities do not | the action is the one for the highest severity reported |
| `PolicyExecutor` (`core/policies/enforcement.py`) | the violation counter | `enforce` | user callbacks and the redaction may raise; tool calls run in parallel | raw content never leaves it when it had to be redacted or stopped; each refusal is counted once |
| `AgentGuardMiddleware` (LangChain, `integrations/qarai-agent-guard-langchain/`) | none of its own; it rewrites the agent's messages | `before_model`, `after_model`, `wrap_tool_call` and their async twins | four settings decide together; errors and violations are both exceptions; parallel tool calls | what was to be stopped is not used; a fail-closed set-up lets nothing past; a fail-open one keeps running |
| CrewAI hooks (`integrations/qarai-agent-guard-crewai/`) | none of its own; it rewrites CrewAI's contexts | the hooks before and after an LLM call and a tool call | each kind of content is written back in another way; messages are scanned once, by whichever hook saw them first | what was to be stopped is not used; what the LLM reads was cleared; what the tool gets is what was decided |
| `Detector` (`core/detectors/detector.py`), with the formatters of model outputs (`core/models/engine.py`, `core/models/config.py`) | its rules and its model, since construction | the constructor, `inspect`, `redact` | rules come from three sources under three strategies; rules and model are combined in three ways, and the model may fail, or answer what no formatter reads; a text is rewritten rule by rule and entity by entity, by several detectors, while the offsets refer to the text that was inspected | what was found and must not go on does not; a failing model is no clean one; what is redacted stays redacted, even where a later detector fails; nothing else is lost |
| Loaders of patterns and policies, configuration, text helpers, schemas, logger | none after construction | pure functions | – | Not modelled, but for which pattern files the constructor accepts; see below |

The hazards, each with its line in the source and the properties that would
catch it, are listed in `PROJECT.json` under `hazards`.

## The modules

| Module | Models | Uses |
| --- | --- | --- |
| `ProviderCache` | abstract: what the loader promises, a cache whose lookups, fills and removals are atomic | |
| `ModelLoader` | `ModelLoader`, `APIProvider`, `HuggingFaceProvider`, `InferenceEngine.predict` | `INSTANCE ProviderCache` |
| `ModelLoaderProofs` | the theorems about `ModelLoader` | `EXTENDS ModelLoader, TLAPS` |
| `SeverityPolicy` | severities, policies, the guard's settings; operators only | |
| `SeverityPolicyProofs` | facts about severities and policies for the other proofs | `EXTENDS SeverityPolicy`, TLAPS and its library |
| `GuardAnswers` | which answers a guard may give, from its settings; operators only | `SeverityPolicy` |
| `GuardService` | abstract: what the guard promises its callers | `GuardAnswers` |
| `DetectorRegistry` | what changes on a guard at runtime | |
| `AgentGuard` | inspections, redactions and events on a live registry | `EXTENDS DetectorRegistry, SeverityPolicy`; `INSTANCE GuardService` |
| `GuardProofs` | the theorems about the registry and the guard's calls | `EXTENDS AgentGuard, SeverityPolicyProofs` |
| `GuardRefinementProofs` | the theorem that `AgentGuard` implements `GuardService` | `EXTENDS GuardProofs` |
| `PolicyExecutor` | `enforce`, and the content the integrations hand to it | `EXTENDS GuardAnswers` |
| `ExecutorProofs` | facts about the executor both integrations rest on | `EXTENDS PolicyExecutor, SeverityPolicyProofs` |
| `LangChainMiddleware` | the hooks in an agent loop, with executor and guard | `EXTENDS PolicyExecutor` |
| `LangChainProofs` | the theorems about the middleware | `EXTENDS LangChainMiddleware, ExecutorProofs` |
| `CrewAIHooks` | the four hooks of `enable_guard` around an agent's calls, with executor and guard | `EXTENDS PolicyExecutor` |
| `CrewAIProofs` | the theorems about the CrewAI hooks | `EXTENDS CrewAIHooks, ExecutorProofs` |
| `ModelOutput` | `InferenceEngine.predict`: what the formatters make of a raw output; operators only | |
| `Detector` | the constructor and `inspect` of the library's detector; operators only | `EXTENDS ModelOutput, SeverityPolicy` |
| `Masking` | abstract: what a redaction promises about the characters of a content | |
| `Redaction` | one content from the detectors' options to the rewritten text | `EXTENDS Detector`; `INSTANCE Masking` |
| `RedactionProofs` | the theorems about the rewriting | `EXTENDS Redaction, TLAPS` |
| `MCModelLoader`, `MCAgentGuard`, `MCLangChain`, `MCCrewAI`, `MCRedaction` | the small instances TLC checks | |

The guard is looked at from two sides. `AgentGuard` follows its calls over lists
that change under them, with detectors that may do anything; `Redaction` follows
one content through detectors that do what the library's do, over lists that
stand still.

The guard's calls are specified twice. `AgentGuard` is the code; `GuardService` with
`GuardAnswers` is what callers may rely on, and the first implements
the second: TLC checks `ServiceRefined`, and `GuardImplementsService` proves it.
The integrations are composed with the second only. What they are checked for therefore holds on top of the real guard,
without the guard's whole state in the product.

Definitions whose name ends in `_Something` and whose comment begins with
*Slip:* are plausible mistakes in the operation above or below them. No
specification uses them; each is there to show that a property notices it.

### ModelLoader

A step is what happens under one acquisition of the lock, or one read or write
of a provider's attribute outside of it.

| Code | Model |
| --- | --- |
| `self._cache`, `self._lock` (`loader.py`) | `cache`, `lock` (its owner) |
| `provider._client` / `provider._pipeline` | `handle[p]`; `closing` is a client that is closed while the attribute still refers to it |
| `get`, hit | `GetCached` |
| `get`, miss: create, `load`, store | `GetCreate`, `LoadSucceeds` or `LoadFails`, `GetStore`, under the lock |
| `predict`: the check of the client, and its use | `PredictCheck`, `PredictSend`, without the lock; `ReloadSucceeds` and `ReloadFails` for the HuggingFace provider that loads itself again |
| `release`, `clear`: pop under the lock | `ReleasePop`, `ClearPop` |
| `unload`: `close()`, then `= None`, or a `close()` that raises | `CloseClient`, `DropHandle`, `UnloadFails` |

A provider no variable refers to is garbage; its identity may come back as a new
object (`Fresh`). This makes the state space finite without a bound on calls.
The order in which `clear` unloads is left open; no property depends on it.

### DetectorRegistry and AgentGuard

Python promises no atomicity for these methods, so each is as many steps as it
has reads and writes of the shared state. `unregister_detector` is the finest:
it finds the index, pops *whatever is there by then*, and discards the name.
`callbacks` is the length of the callback list, since the code tells callbacks
apart by position only.

`call[c]` is the local state of the latest call of thread `c`: the loop's
`cursor` into the live list, `results`, `errors`, the `pending` events, how far
the present event went (`listener`), and the events so far (`trail`). The fields
`steady`, `shrunk`, `audience`, `ran` and `heard` are history; no step reads
them.

| Code (`agent_guard.py`) | Model |
| --- | --- |
| `for detector in self.detectors` | `NextDetector`, `EndOfDetectors`, by position in the list as it is at that step |
| `if detector.name in self._disabled: continue` | `SkipDisabled` |
| `detector.inspect(...)` | `NoMatch`, `Matches`, `DetectorFails` |
| failure events, `FAIL_CLOSED` before any policy | `ReportErrors`, `BlockOnError` |
| `policy.evaluate` and the security mode | `PolicyDecides`, `PolicyFails`, `AllowOnPolicyError`, `RaiseOnError` |
| detection events, each of which reads its severity again | `EmitDetections`, `RaiseValueError` |
| `apply_redactions` | `BeginRedact`, `NotSelected`, `Redacts`, `RedactionFails` |
| `_emit_event` | `EmitEvent`, `CallbackReturns`, `CallbackRaises`, `CallbackManages`, `EventDone` |

What a detector finds, and whether a redaction succeeds, is nondeterministic.

### PolicyExecutor and LangChainMiddleware

`enforce` is split where it calls code of the user's: `Redacts`,
`RedactionFails`, `Notify` (the counter, then `on_violation`), `HandlerReturns`,
`HandlerRaises`. Exceptions of `on_warn` and `on_violation` are swallowed by the
code and so have no action of their own.

In the composition a piece of content is its text, `raw` or `masked`, and the
`verdict` of the last scan. No action reads the verdict; it is what the
properties compare with the use that is made of the content. The loop
(`BeforeModel`, `ModelAnswers`, `AfterModel`, `Route`, `ToolRuns`,
`ToolsReturn`) is LangChain's and external: it is modelled from what the hooks
rely on, with tool calls in parallel threads. The hooks are `Checked`,
`CheckRaises`, `Violation`, `WriteBack` and `Answered`, shared by the points
where content is scanned; the executor's steps run in between. `after_model`
returns a new message, which LangGraph's `add_messages` (external) appends,
because it replaces messages by their id and the new one has none.

### CrewAIHooks

`enable_guard` registers up to four global hooks, which return `None` and write
what they make of the content into the context they were called with. `config`
is what the hooks were enabled with and whether CrewAI's contexts, and its messages,
are objects or dictionaries (the code handles both), `messages[c]` the conversation of agent
`c`, and `agent[c]` says which phase the agent is in, how far the hook of that
phase is, and which content is in hand.

| Code (`global_hooks.py`) | Model |
| --- | --- |
| choice of the messages to scan, start of a hook | `EnterHook` |
| `guard.check` returns, or raises | `Checked`, `CheckRaises` |
| `except AgentGuardViolation: raise` | `Violation` |
| `_handle_unexpected` | `Unexpected` |
| the message gets its new content, and the next is scanned | `RewriteMessage` |
| `_set_message_content`: a dictionary is rewritten; on an object a failing `setattr` is logged and nothing else | `Written` |
| `setattr` of the response or the tool result | `RewriteContext` |
| `tool_input.clear()`, `tool_input.update(...)` | `RewriteArguments` |

The calls themselves, `LLMAnswers`, `TakeAnswer`, `ToolRuns`, `TakeResult`, and
the missing hook `Unhooked` are CrewAI's and external. An exception out of a hook
is taken to end the agent's task.

### ModelOutput, Detector, Redaction and Masking

`ModelOutput` and `Detector` are functions: a raw output has a shape, and a
score that is under the threshold, over it, not a number, or missing; a
detector's options are a record. `Construct` answers the detector or the exception
the constructor raises, `Inspect` the detection result or the exception
`inspect` raises.

In `Redaction` a text is a sequence of cells. The characters of the content are
numbered, and every cell of a marker is `Mark`: which text a cell came from
is never lost, and a replacement of another length shifts what is behind it, as in
the code. What the regular expressions find is part of the content (`finds`):
`pattern.sub` replaces those spans that still stand together, wherever they
stand by then.

| Code | Model |
| --- | --- |
| `DefaultOutputFormatter.format` (`engine.py`), `_format_default_*` (`config.py`) | `DefaultFormat`, `DefaultInjection`, `DefaultPii`, `DefaultApi`, `CustomFormat` |
| `InferenceEngine.predict`; `ModelDetectionResult.__post_init__` | `Predict`; `BySeverityDefault` |
| `Detector.__init__`, `_validate_config`, `_resolve_rules`, `_compile_pattern_rules`, `resolve_default_model` | `Construct`, `Consistent`, `ResolveRules`, `Compiles`, `ResolveDefaultModel` |
| `Detector.inspect`, `_combine_results` | `Inspect`, `Combine` |
| the guard gets its detectors; `run_detectors`; policy and executor | `BuildGuard`; `InspectNext`; `Enforce` |
| `text = pattern.sub(...)`, one match at a time; the next rule | `ReplaceMatch`; `NextRule` |
| `_validate_entities` passes, or raises into `apply_redactions` | `CheckEntities`, `RedactionFails` |
| `for entity in sorted(..., reverse=True)` | `ReplaceEntity`, `LastOf` |
| `redacted = detector.redact(...)` and the next detector; the text goes on | `NextDetector`; `HandOn` |

`Masking` is the promise, in terms of characters: a detector's turn is one step
that breaks all findings of its rules and, where its entities' offsets hold,
hides its entities, as far as they lie in the content, and nothing but what it
found; one that fails leaves no trace; nothing that is hidden comes back. `MaskingRefined` maps its `hidden` to the
characters that are missing in `before`, the text the present detector was
given, so that the steps inside of a `redact` are stutters.

## The runs

| Run | Instance | Result |
| --- | --- | --- |
| `loader` | two threads; two API keys and a HuggingFace key; three providers; no symmetry | `TypeOK`, `LockOwner`, `CachedIsOpen`, `RetiredOnce`, `NoOrphanClient` hold; the loader implements `ProviderCache` (`CacheRefined`); calls end (`CallsEnd`) |
| `loader_unload_race` | two threads, one API key | `FailuresAreProviderErrors` is violated (finding 1) |
| `guard_calls` | one caller; two detectors; one or two callbacks that return, raise or manage the guard; all 32 settings; findings with good and bad labels | `FailClosedHolds`, `NothingMasked`, `FailuresReported`, `EveryoneIsTold`, `TypeOK` hold; the guard implements `GuardService` (`ServiceRefined`); calls end although callbacks remove, disable and enable detectors in their loops (`CallsEnd`) |
| `guard_registry` | one caller and one managing thread; three detector objects, two of which have the same name | `UniqueNames`, `DisabledAreRegistered`, `EachRunsOnce` hold; calls end although another thread removes, disables and enables detectors (`CallsEnd`) |
| `guard_skipped_redaction` | as `guard_calls` | `RunsAllActive` is violated (finding 2) |
| `guard_open_raises` | as `guard_calls` | `FailOpenAllows` is violated (finding 3) |
| `langchain_agent` | two parallel tool calls; up to three messages; all settings of guard, executor and middleware; three choices of what is scanned | `StoppedIsNotUsed`, `NothingSlipsThrough`, `ViolationsCounted`, `OnlyViolationsEscape`, `MonitorOnlyWatches`, `TypeOK` hold |
| `langchain_quarantine` | as `langchain_agent` | `QuarantineStops` is violated (finding 4) |
| `crewai_crew` | one agent whose LLM is called twice with a tool call in between; all settings of executor and hooks; contexts and messages that are objects or dictionaries; all four hooks or those before a call | `StoppedIsNotUsed`, `ConversationCleared`, `TypeOK` hold |
| `crewai_tool_input` | as `crewai_crew` | `ArgumentsRedacted` is violated (finding 5) |
| `redaction` | guards of one or two detectors of every type, with rules from every source and every kind of model; contents of four characters with findings that touch, repeat and overlap; 18 raw outputs, among them entities that overlap, end before they begin or end past the text; markers of one and two characters; two policies, both fail behaviours | `RuleFindingsBroken`, `EntitiesGoneIfExact`, `NothingElseLost`, `FoundIsHandled`, `QuietModelIsNeutral`, `FailureIsNoAllClear`, `TypeOK` hold; the rewriting implements `Masking` (`MaskingRefined`) |
| `redaction_offsets` | as `redaction` | `EntitiesGone` is violated (finding 6) |

### Why the bounds are enough

- *Loader.* Every hazard is a race of two calls for one entry, so two threads
  are the least, and two API keys let `clear` fail on one client with another
  to go. The number of providers bounds how many are alive at a time; where the
  three run out, a `get` waits for an unload to end. The theorems hold for any
  number of each, so nothing but liveness depends on that.
- *Guard.* Two detectors give every combination of matching, failing and
  disabled with a loop that has a next place; the third object, of the same name
  as the first, is what `register_detector` must refuse. Two callbacks
  (`MaxCallbacks`) are one that misbehaves and one that must not notice. The
  lists are as long as unique names allow. There is no bound on calls: a
  caller's next call forgets the former one's events.
- *Middleware.* `MaxMessages` bounds the conversation: the model reads up to
  three messages, so that one message may fail between two others and so that a
  second round starts with the tool messages of the first. Two tools are the
  least that share the violation counter. The execution strategy is fixed
  there, because `GuardAnswers` does not depend on it, and the built-in policy is
  the default one, which uses every action the three tables do.
- *Crew.* `MaxMessages` = 3 and a prompt of one message: the LLM reads the
  prompt, and then the prompt, its answer and a tool result, which three
  different hooks have seen. Agents share nothing but the violation counter, which
  `langchain_agent` checks with two actors, so one agent is enough. The guards are
  those that enforce a policy of the user's own: what a guard with any other
  setting answers, these may answer as well.

- *Redaction.* Four characters hold two findings with something before, between
  or behind them, or two that overlap; a marker of two replaces findings
  of one, two and three characters, so texts shrink, grow and keep their length.
  A second detector is what sees a text rewritten by another; its model always
  reports an entity, the first one's any raw output. The empty content is there
  for the early return of `inspect`. Each behaviour is a straight line, for every
  choice is made in the initial state: a guard, a content and the models' outputs.

### Fairness

`ModelLoader` and `AgentGuard` assume weak fairness of each thread's steps inside
a call: loads, requests, detectors, policies and callbacks return or raise. Both
are run by threads the operating system schedules, and httpx requests have a
timeout. Nothing is assumed about starting calls or about managing threads.
`threading.Lock` is not fair, so `CallsEnd` of the loader says that calls end
once no new ones are started; a waiting thread may be overtaken for as long as
others keep calling. `CallsEnd` of the guard says that calls end once nothing is
registered any more, whatever is removed, disabled and enabled all the while. It
takes that condition: names are unbounded in the code, so a thread that goes on
registering detectors keeps `for d in self.detectors` (`agent_guard.py:290`) going,
and a callback that registers one at every event keeps the loop over the
callbacks going. TLC's few names and `MaxCallbacks` would hide both, so that the
property is stated for behaviours in which the lists stop growing. The integrations have no liveness property:
an agent may loop for as long as its model asks for tools.

`Redaction` has none either: it is one thread's loops over finite lists, and
ends in `Terminated`.

`langchain_*` and `crewai_*` runs do not check deadlock: an invocation or a task
returns or raises, and the bounded conversation stops.

## What is proved

`ModelLoaderProofs` proves, for all sets of threads, keys and providers:

| Theorem | States |
| --- | --- |
| `TypeCorrect` | `Spec => []TypeOK` |
| `LockReleased` | `Spec => []LockOwner` |
| `CachedUsable` | `Spec => []CachedIsOpen` |
| `UnloadedOnce` | `Spec => []RetiredOnce` |
| `NoClientForgotten` | `Spec => []NoOrphanClient` |
| `Refinement` | `Spec => CacheRefined`: the loader implements `ProviderCache` |

Assumptions: `NoneAssumption` (Python's `None` is no thread, key or provider) and
`BackendAssumption` (the factory gives each key an API or a HuggingFace
provider). TLC evaluates both in every loader run.

The argument has two layers. `CoreInv` is the type invariant with what types
alone lack: an argument is bound wherever the code reads one (`ArgInv`), and the
local `provider` and the list of providers to unload are bound exactly at the
labels where the code has them (`LocalsInv`). `LoaderInv` then carries the safety
properties together. They are not inductive one by one: that a stored provider
is open (`CachedIsOpen`) rests on its having been private to its thread since it
was created, in nobody's queue and not in the cache, and open once `load`
returned (`LoadingInv`), and that in turn rests on the lock (`LockOwner`), since
only one thread may be between `GetCreate` and `GetStore`. `RetiredOnce` and
`NoOrphanClient` need that what is removed leaves the cache, and that only a
HuggingFace provider reopens itself (`ReloadInv`). The refinement maps `held` to
the abstract answer at the labels of `predict`; each action is one abstract
action or a stutter, given `LoaderInv`.

The first part of `GuardProofs` is about the registry inside the whole guard, with
inspections, redactions and callbacks going on, for all sets of detectors, names,
callers and settings:

| Theorem | States |
| --- | --- |
| `NamesStayUnique` | `OneManager => (Spec => []UniqueNames)` |
| `NoLeftoverDisabled` | `OneManager => (Spec => []DisabledAreRegistered)` |

`OneManager` says that whoever manages the guard does so alone: at most one
managing thread, or the callbacks of at most one caller and no such thread. The
theorems are false without it, since two threads could both find a name unused
before either appends. Of the constants they use `NameOfAssumption`,
`InitialDetectorsAssumption` and `CallbacksAssumption`, which TLC evaluates in
every guard run.

Neither property is inductive: whether `append` keeps names apart depends on a
look-up some steps ago. `RegistryInv` therefore adds `TaskInv`, that what the
manager found out still holds when it acts on it: the name to append is not
registered, the place to pop still holds the detector of that name, the name to
disable is registered. `DisabledAreRegistered` rests on the last two: a detector popped
from the wrong place, or a name disabled after its removal, would leave a flag
behind that nobody discards. `StepOfRegistry` first reduces each step of the guard to one of the
manager, one of a callback, or none; `AppendKeeps`, `PopKeeps` and
`PositionFound` are the facts about lists the other lemmas rest on.

The rest of `GuardProofs` and `GuardRefinementProofs` are about the calls, for all sets of
detectors, names, callers, managing threads, findings and settings, and for any
policies but where a condition is named; only for `EachDetectorRunsOnce` one
manager has to be alone:

| Theorem | States |
| --- | --- |
| `TypeCorrect` | `Spec => []TypeOK` |
| `NothingPassesAFailure` | `Spec => []FailClosedHolds` |
| `EachDetectorRunsOnce` | `OneManager => (Spec => []EachRunsOnce)` |
| `NoFindingIsMasked` | `Spec => []NothingMasked` |
| `EveryFailureIsReported` | `Spec => []FailuresReported` |
| `EveryCallbackIsTold` | `Spec => []EveryoneIsTold` |
| `GuardImplementsService` | `Spec => ServiceRefined` |

Assumptions: `NameOfAssumption`, `InitialDetectorsAssumption` and
`CallbacksAssumption` of the registry, `SettingsAssumption`, `FindingAssumption`,
`EmitEventsAssumption` and `BuiltInAssumption` (what counts as built in are
severity policies) of the guard.

`TypeInv` is the type invariant with what types alone lack (`Sound`): a detector
is bound while it runs, an event while the callbacks are told of it, an action
once the policy has decided. The other invariants speak of one call at a
time. `Closed` follows a failure from the events that are due into the trail:
while either has one, what comes `after` the events is `block` or `raise`, and
beyond the events the trail has none, unless the call is over. It is what makes
`FailClosedHolds` inductive, which by itself speaks of finished calls only.
`Answering` says what each place in a call owes its end: with errors on the way, a
fail-closed guard is heading for BLOCK or an exception; a decision that was
taken is one the policy may take of these results (`EvaluateDecided`, through
`HighestIsOne`); a redaction has no results. Each step then keeps the call under
way, which is a stutter of `GuardService`, or gives one of its answers (`Serves`);
changes of the registry, and callbacks that make them, show in no answer
(`ManagedUnshown`).

`RunsInv` is about the loop over the live list. `EachRunsOnce` speaks of
finished calls; what makes it inductive is `Visited`, for a call under way: what has
run stands at places the loop is done with (`Behind`), nothing has run twice, and
each detector at such a place that has been active all the time, and that a
redaction selected, has run. `Stage` says the same of an inspection past its loop,
where fail-fast may have cut it short. A step of another thread keeps all that
because the list only grows at its end unless a detector is removed (`ListGrows`),
which the call remembers as `shrunk`; that nothing runs twice needs the names to
be unique, hence `OneManager` by way of `NamesStayUnique`.

The last three theorems are about what a call tells. They share `EveryCallMoves`: a
step of the guard moves each call in one of twelve ways (`Moves`), told apart by
what they add to the results, the errors, the pending events, the trail and what the
callbacks heard. Each invariant is then kept by twelve short cases instead of by all
actions of three modules. `Heeds` says that a decision on its way to the caller
is what the policy said, or a policy failure is in the trail or about to be;
`EvaluateIsStrict` gives the rest: the highest of a set of severities is at least
each of them, and a policy that is `Monotone` answers it at least as strictly.
`Monotone` is a hypothesis of `NothingMasked`, which is false of a policy that
redacts a medium finding and lets a high one pass; `BuiltInPolicies` proves it of
the policies the library ships. `Accounts` counts: of the failures `n` of a call,
`m` are in the trail and the pending events are the other `n - m`, in order.
`Hears` says of a callback that it has heard the trail, and of one that
`_emit_event` has not come to yet, that it will have when the present event is
added. Both are about the list of the events of some types in a trail, which
`Lists` describes by position and number instead of by `SelectSeq`: that one is
recursive, and what it does to a longer list would take an induction.

`RedactionProofs` is about the rewriting, for all guards, options, contents,
findings and marker lengths:

| Theorem | States |
| --- | --- |
| `FindingsStayBroken` | `Spec => []RuleFindingsBroken` |
| `ExactEntitiesStayGone` | `Spec => []EntitiesGoneIfExact` |
| `TypeCorrect` | `Spec => []TypeOK` |
| `NothingElseIsLost` | `Spec => []NothingElseLost` |
| `HandedOverIsHandled` | `Spec => []FoundIsHandled` |
| `QuietModelsDoNotCount` | `Spec => []QuietModelIsNeutral` |
| `FailuresBlock` | `Spec => []FailureIsNoAllClear` |
| `RedactionMasks` | `Spec => MaskingRefined`: the rewriting implements `Masking` |

Assumptions: `NoneAssumption` (Python's `None` is no pattern and no exception),
`MarkerAssumption` (a marker has at least one character; in the code it is
`[REDACTED:...]`), `SetupsAssumption` (a guard has a severity policy, and options
give a detector patterns), `ContentsAssumption` (findings are spans of at least
one character of the content, no two of a rule's begin at the same place, and an
entity's `start` is not its `end`; it may well be behind it, and may be past the
content) and those of `Detector`. TLC evaluates them in the redaction runs.

`SpliceProperties` says what one replacement does to a text, and
`SpliceBringsNothing` what it cannot do: put a finding together that did not stand
there before, since markers have a character that belongs to no finding. The
invariant `IInv` says for every place in the loops what is gone already: what
earlier detectors found (`GoneBehind`), what earlier rules of the present one
found (`GoneAbove`), and what the present rule found left of the place it has come
to (`GoneLeft`). `GoneBehind` has to speak of `before` as well as of `text`:
that is what the guard falls back to when a detector fails after half of its
work. For the entities, `EInv` adds that the text is the content until something
is rewritten (`NotYet`), that the entities still to come are where their offsets
say (`HalfWay`), and that those of earlier detectors are in neither text
(`HiddenBehind`). `HalfWay` is where the order of the code counts:
`LastBeginsBehind` and `StaysInPlace` show that of entities that do not overlap,
replacing the last one moves none of the others.

`WInv` has what the other theorems need. `Settled` says that what was decided was
decided on what the configured detectors answer to this content, so that
`FoundIsHandled`, `QuietModelIsNeutral` and `FailureIsNoAllClear`, which compare
the options with the end of a call, become facts about `Construct`, `Inspect`
and `Evaluate`; `HandedOverIsHandled` then rests on `RuleFindingsBroken` for what
is redacted. `Progress` says how far the call has come. `Writing` says that
a text is made of the content's characters in their order, where what is side
by side was so in the content (`Ordered`); that a finding occurs in a text
if all of its characters are there (`AllThereIsOccurring`) rests on that, and so
can `Masking` speak of sets of characters. `NoneLost` says for the text, and for the
one to fall back to, that each character missing was found by a detector, and
`OnlyEntities` that a detector's entities take nothing else. `MaskingStep` shows that
a `redact` that ends is one masking, that a failing one leaves what there was, and that
every step between is a stutter.

`SeverityPolicyProofs` has what `Evaluate` does with a set of severities, for the
proofs of the guard, of the redaction and of the integrations; and

| Theorem | States |
| --- | --- |
| `BuiltInPolicies` | `DefaultPolicy`, `StrictPolicy` and `PermissivePolicy` are `Monotone` and treat low and info alike |

so that the hypotheses on policies in `NothingMasked`, `FoundIsHandled` and
`QuietModelIsNeutral` are met by what the library ships.

`LangChainProofs` is about an agent loop with any number of parallel tool calls and
conversations of any length, for all settings, selections of scans and severity
policies:

| Theorem | States |
| --- | --- |
| `TypeCorrect` | `Spec => []TypeOK` |
| `StoppedStaysUnused` | `Spec => []StoppedIsNotUsed` |
| `ScansAreNotPassed` | `Spec => []NothingSlipsThrough` |
| `RefusalsAreCounted` | `Spec => []ViolationsCounted` |
| `ErrorsStayInside` | `Spec => []OnlyViolationsEscape` |
| `MonitorsOnlyWatch` | `Spec => []MonitorOnlyWatches` |

Assumptions: `CallerAssumption` (the loop and its tool calls are the threads that have
decisions enforced), `ToolAssumption` (they are finitely many),
`ScansAssumption`, and `SettingsAssumption`: the guard's policy is a custom one or a
`SeverityPolicy`, not only one of the three the library ships.

`CrewAIProofs` is about any number of agents that share one guard and one executor,
with prompts and conversations of any length, for all selections of hooks:

| Theorem | States |
| --- | --- |
| `TypeCorrect` | `Spec => []TypeOK` |
| `StoppedStaysUnused` | `Spec => []StoppedIsNotUsed` |
| `ClearedConversations` | `Spec => []ConversationCleared` |

Assumptions: `SettingsAssumption`, `SelectionsAssumption` and `PromptsAssumption` (an
agent begins with at least one message). `ConversationCleared` has one exception,
`Refused`: a message that was to be redacted, and is part of an object that did
not take its new content. That is an object message, on which the assignment
may fail, or a response or result whose context was a dictionary, unless
`before_llm_call` scans it again. TLC evaluates all of these in the runs of
the integrations.

Both rest on `ExecutorProofs`. `Enforces` relates an enforcement to the verdict on
the content it is about: the decision is the verdict's, content ends as
`passed` only if it was clear and as `redacted` only if it was to be, and
`blocked` without an exception only where nothing raises or a handler took it.
`EnforceFits` shows that each step of `enforce` keeps that, a failing redaction, a
failing handler and all, and `EndsUsable` and `EndsCleared` what follows for content
whose enforcement raised nothing. The invariant of an integration has these parts:

- `TypeInv` adds to the types that a hook at work is at a message that exists
  (`Sound`). `Turns` says for LangChain that the loop's hooks run while it scans and
  those of the tools while tools run; otherwise a tool could come back with a
  message while `before_model` walks the list.
- `Enforcements`: who is in `enforce` has `Enforces` for the content in hand.
  Neither safety property is inductive without it, because the decision and the
  use of the content are several steps apart.
- `Usable`: no message, and nothing in hand that is past its enforcement, is to be
  stopped. The properties speak of the moment of use only; content gets there
  from messages that other hooks wrote.
- `Screened`, where everything fails closed: `before_model` and
  `before_llm_call` have cleared the messages before the one they are at. For
  CrewAI it also says that what joined the prompt was cleared by the hook that
  saw it first, and that what is about to join it is; all of it `Passable`, that
  is, cleared or refused. This is the claim that `scan_all_messages = False` need
  not scan twice.
- `Counted`, for LangChain: the counter is the number of refusals the agent was
  told of and of those that are under way.
- `Watched`, for LangChain: under a guard that only watches (`Watching`) each
  enforcement has nothing to do but to let its content pass (`Calm`), because the
  guard then allows or warns (`WatchersAnswer`); a guard that raises ends the
  invocation with another error, if at all (`ErrorsOfStep`).

Only model-checked: liveness, `CallsEnd` of the loader and of the guard, since
fairness and ENABLED are out of the prover's reach. The properties of the runs that
end in a violation are false, and are there for that.

## Where code and documentation disagree

1. **An unload under a predict lets a foreign exception out**
   (`loader_unload_race`). `APIProvider.predict` checks `self._client` and reads
   it again for the request, with no lock. If a `release` has closed or dropped
   the client in between, `RuntimeError` or `AttributeError` passes `except
   httpx.HTTPError`. `docs/models.md:574`: "The provider maps every failure to
   one exception type:".
2. **A callback that removes a failing detector makes the next one be skipped**
   (`guard_skipped_redaction`). The loop walks the live list; removing an element
   at or before the cursor shifts the next one under it. `docs/runtime.md:359`:
   "The guard runs all active detectors".
3. **A fail-open guard raises on a bad severity label** (`guard_open_raises`).
   The policy's `ValueError` is turned into `ALLOW`, and then the detection
   events read the same label again outside any `try`. `docs/exceptions.md:226`:
   "`fail_open` (default): The guard returns an `ALLOW` decision."
4. **Quarantine does not stop execution** (`langchain_quarantine`). With a
   handler that returns, `enforce` answers `blocked=True`; the hooks look at
   `result.content` only and go on. `docs/langchain.md:79`: "Send the content to
   the quarantine handler and stop execution."
5. **A tool runs on the arguments that were redacted** (`crewai_tool_input`).
   `before_tool_call` writes arguments back if the redacted content is a
   dictionary (`global_hooks.py:213`), but a detector's `redact` returns a string.
   `docs/crewai.md:90`: "Redact the content and write the result back to the
   context."
6. **An entity behind a rewritten finding stays in the text**
   (`redaction_offsets`). `redact` applies its rules first and then the model's
   entities, whose offsets refer to the text before (`detector.py:477`). If a
   rule's marker has another length than what it replaced, the entity is cut in
   the wrong place; the same happens behind another detector's rewriting.
   `detector.py:404`: "Regex-based rules are applied first. Replace
   model-detected entities in reverse positional order. Earlier replacements do
   not invalidate the offsets of later entities." `EntitiesGoneIfExact` states,
   and `ExactEntitiesStayGone` proves, what is true of it.

Three more were read in the code and have no run. LangGraph's `add_messages` appends
the redacted answer of `after_model`, where `docs/langchain.md:147` says that it
replaces the last message: what the library does is not in this repository. And
when every redaction fails in a fail-open guard, the redacted arguments of a CrewAI
tool are the very dictionary that was passed in, which `clear()` empties before
`update` reads it (`RewriteArguments` models it). Third, what a message object or a
context refuses is not redacted: `_set_message_content` (`utils.py:54-57`) and the
hooks log a warning and go on, with `fail_open=False` too, and the LLM reads the raw
text (`Written` and `RewriteContext` model it), where `docs/crewai.md:252` says that
"the integration writes the sanitized value back into the relevant CrewAI context".
Whether any CrewAI object refuses is not in this repository.

`MonitorOnlyWatches` states the part of `docs/langchain.md:196` that does hold:
in monitor mode no violation is raised *if* the guard fails open and has a
severity policy without a rule that quarantines, as the built-in ones. A fail-closed
`BLOCK` and a policy's `QUARANTINE` are not converted by the mode.

## What is assumed and what is left out

- One thread manages a guard at a time. `UniqueNames` and
  `DisabledAreRegistered` are false for two: the check and the append are two
  steps. The code claims no more. The theorems name this assumption `OneManager`.
- A managing callback runs its operation at once. It runs on the inspecting
  thread, and `guard_calls` has no second thread.
- In the compositions with the integrations nobody manages the guard.
- `self._violations += 1` is one step. That is so under the interpreter's lock,
  which does not switch threads between the load and the store of that
  statement in CPython 3.11 and later.
- `SYSTEM_FAILURE` events carry `"error"` as detector in the code and name the
  failing detector in the message; the model's field has the name.
- Left out of `enforce`: an executor without a guard, an action outside the
  enum (no integration produces either), and the second, positional call of a
  quarantine handler that raises `TypeError`.
- Exceptions of a tool itself pass the hooks unseen and end the invocation; the
  model's tools return.
- In CrewAI, content is never empty (the hooks skip what is), and one
  `enable_guard` is in force; a second one registers a second set of hooks.
- A redaction of tool arguments that answers another dictionary comes from a
  detector of the user's own; `RewriteArguments` has it as an outcome, and the
  finding about the arguments does not need it.
- Payloads, prompts, options and response bodies are left out of the providers; so
  is what goes into a cache key (`_key`): a key is a value two configurations
  share or not.
- Regular expressions are opaque. What a rule finds in the content is an input,
  the same for `search` and `sub`; in a rewritten text it finds those of its
  findings that still stand there. That a marker, or the text around it, makes a
  rule match something new is left out, and so are empty matches.
- Entities have non-negative offsets and do not end where they begin. Offsets the
  wrong way round are there: `_validate_entities` rejects them.
- In `apply_redactions`, `EntitiesOf` leaves out `metadata["entities"]`, which is
  read if the result has no entities of its own (`agent_guard.py:532-537`), and
  the second `redact`, without entities, of a detector that does not know the
  argument (`agent_guard.py:554-557`). The library's formatters put nothing there,
  and its detector knows the argument; what a detector of the user's own does is
  nondeterministic in `AgentGuard`.
- `Redaction` has the `exhaustive` strategy and the `enforce` mode, inline rules
  with valid labels, and no detectors of the user's own: `AgentGuard` has the
  other settings. `severity_threshold` is left out.
- The type checks and enum coercions of a detector's options, and `redact` called
  by a user with entities of their own, are left out.
- Not modelled: the YAML and path handling of the pattern loader and all of the
  policy loader (file and schema checks at construction, no state afterwards),
  the checks of `ModelConfig.__post_init__` and its deprecated options, which
  build an immutable value, `stringify` and the other value helpers, the API
  option and response helpers (pure conversions no property is about), dataclass
  validation and logging.

## Plan

Done: 1 `ModelLoader` with `ProviderCache` and its proofs; 2 `DetectorRegistry`
and `AgentGuard`; 3 `GuardService`, `PolicyExecutor`, `LangChainMiddleware`;
4 `CrewAIHooks`; 5 the proofs of the registry; 6 `ModelOutput`, `Detector`,
`Redaction` with `Masking`, and the proofs of the rewriting; 7 the proofs of the
guard's calls; 8 the proofs of the executor and of both integrations; 9 the
remaining proofs of `Redaction`, its refinement of `Masking`, and what a guard's
call tells its caller and the callbacks.

Next, in this order:

10. **Shared parts**: one detector list given to two guards; one provider met by
    two configurations whose cache key leaves out what differs between them.
11. **Proofs about the operators**: which detectors `Construct` answers, and what
    `Combine` makes of rules and model, stated once for every option.
