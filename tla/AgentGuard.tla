----------------------------- MODULE AgentGuard -----------------------------
(***************************************************************************)
(* core/guards/agent_guard.py: inspections (run_detectors, inspect,          *)
(* inspect_with_results, check) and redactions (apply_redactions), with the  *)
(* events they emit, on a guard whose detectors and callbacks others change  *)
(* meanwhile (DetectorRegistry).                                            *)
(*                                                                         *)
(* Python iterates the detector list by position over the live list, and     *)
(* reads the disabled set afresh for every detector.  A call reads that      *)
(* shared state only; its own progress is call[c].  guard.events only ever   *)
(* grows and nothing in the guard reads it: the model keeps, as trail, the   *)
(* events of a caller's latest call.                                        *)
(***************************************************************************)
EXTENDS DetectorRegistry, SeverityPolicy

CONSTANTS
  Caller,            \* threads that inspect and redact
  Finding,           \* what matching detectors report: [matches, model] records
  BuiltIn,           \* the severity policies a guard is given
  Settings,          \* the settings guards are constructed with
  Threshold,         \* the severity thresholds apply_redactions is given
  EmitEvents,        \* the values callers pass for emit_events
  CallbacksManage    \* do event callbacks call the guard's own operations?

AllSettings == GuardSettings(BuiltIn)

ASSUME BuiltInAssumption == BuiltIn \subseteq SeverityPolicies
ASSUME SettingsAssumption == Settings \subseteq AllSettings
ASSUME FindingAssumption ==
  Finding \subseteq [matches : SUBSET Label, model : Severity \cup {"none"}]
ASSUME EmitEventsAssumption == EmitEvents \subseteq BOOLEAN
ASSUME ThresholdAssumption == Threshold \subseteq Severity

VARIABLES
  settings,  \* the guard's fail_behavior, security_mode, execution_strategy, policy
  call       \* call[c]: the latest call of c, under way or over

vars == <<detectors, disabled, callbacks, task, settings, call>>

FailClosed == settings.fail = "closed"
FailFast == settings.strategy = "fail_fast"

\* In the code a SYSTEM_FAILURE event has detector "error" and names the failing
\* detector in its message; here the field has the name itself.
EventType == {"detection", "system_failure", "policy_failure", "callback_failure"}

Event(type, action, detector) == [type |-> type, action |-> action, detector |-> detector]

FailAction == IF FailClosed THEN "block" ELSE "allow"

\* A call that has not started.  pc says where it is; after, where it goes once
\* its pending events are out; listener, how many callbacks the current event
\* has been given to; heard, the events each callback has been given.
\* steady, shrunk, audience and ran are what the properties need to know of
\* the past: the detectors active since the call began, whether any detector
\* was removed meanwhile, the callbacks there were, and the detectors run.
NoCall ==
  [op |-> "none", pc |-> "over", outcome |-> "none", emit |-> FALSE,
   cursor |-> 1, current |-> NoDetector, results |-> <<>>, errors |-> <<>>,
   allowed |-> Name, pending |-> <<>>, after |-> "none", listener |-> 0,
   trail |-> <<>>, heard |-> [n \in 1..MaxCallbacks |-> <<>>], decision |-> "none",
   steady |-> {}, shrunk |-> FALSE, audience |-> 0, ran |-> <<>>]

NewCall(op) ==
  [NoCall EXCEPT !.op = op, !.pc = "scan", !.steady = Active, !.audience = callbacks]

Init ==
  /\ RegistryInit
  /\ settings \in Settings
  /\ call = [c \in Caller |-> NoCall]

\* A step of c's own call that leaves the guard alone.
Progress(c, next) ==
  /\ call' = [call EXCEPT ![c] = next]
  /\ UNCHANGED <<detectors, disabled, callbacks, task, settings>>

Over(c) == call[c].pc = "over"

\* The call is over: it returned or raised, and its loop variables are gone.
Ended(now, outcome, decision) ==
  [now EXCEPT !.pc = "over", !.after = "none", !.cursor = 1, !.emit = FALSE,
              !.outcome = outcome, !.decision = decision]

\* What a call under way remembers of a change of the registry.
Witness(now) ==
  IF now.pc = "over" THEN now
  ELSE [now EXCEPT !.steady = @ \cap Active',
                   !.shrunk = @ \/ Len(detectors') < Len(detectors)]
-----------------------------------------------------------------------------
(* inspect_with_results *)

BeginInspect(c) ==
  /\ Over(c)
  /\ \E emit \in EmitEvents : Progress(c, [NewCall("inspect") EXCEPT !.emit = emit])

\* for detector in self.detectors: the next place of the live list.
NextDetector(c) ==
  /\ call[c].pc = "scan"
  /\ call[c].cursor <= Len(detectors)
  /\ Progress(c, [call[c] EXCEPT !.pc = "run",
                                 !.current = detectors[call[c].cursor],
                                 !.cursor = @ + 1])

EndOfDetectors(c) ==
  /\ call[c].pc = "scan"
  /\ call[c].cursor > Len(detectors)
  /\ Progress(c, IF call[c].op = "inspect" THEN [call[c] EXCEPT !.pc = "report"]
                 ELSE Ended(call[c], "returned", "none"))

\* Slip: a loop by index that goes on to the next detector without counting.
SkipDisabled_SamePlace(c) ==
  /\ call[c].pc = "run"
  /\ NameOf[call[c].current] \in disabled
  /\ Progress(c, [call[c] EXCEPT !.pc = "scan", !.current = NoDetector, !.cursor = @ - 1])

SkipDisabled(c) ==
  /\ call[c].pc = "run"
  /\ NameOf[call[c].current] \in disabled
  /\ Progress(c, [call[c] EXCEPT !.pc = "scan", !.current = NoDetector])

\* The detector that is up: not disabled when it is looked at.
Up(c, op) ==
  /\ call[c].pc = "run"
  /\ call[c].op = op
  /\ NameOf[call[c].current] \notin disabled

Ran(c, label) ==
  [call[c] EXCEPT !.pc = label, !.current = NoDetector, !.ran = Append(@, call[c].current)]

NoMatch(c) ==
  /\ Up(c, "inspect")
  /\ Progress(c, Ran(c, "scan"))

Matches(c) ==
  /\ Up(c, "inspect")
  /\ \E f \in Finding :
       Progress(c, [Ran(c, IF FailFast THEN "report" ELSE "scan") EXCEPT
                      !.results = Append(@, [detector |-> NameOf[call[c].current],
                                             matches |-> f.matches, model |-> f.model])])

\* Slip: an error ends the loop whatever the strategy.
DetectorFails_Stops(c) ==
  /\ Up(c, "inspect")
  /\ Progress(c, [Ran(c, "report") EXCEPT !.errors = Append(@, call[c].current)])

DetectorFails(c) ==
  /\ Up(c, "inspect")
  /\ Progress(c, [Ran(c, IF FailFast THEN "report" ELSE "scan") EXCEPT
                    !.errors = Append(@, call[c].current)])

\* Slip: failure events, like detection events, wait for emit_events.
ReportErrors_IfEmitting(c) ==
  /\ call[c].pc = "report"
  /\ Progress(c, [call[c] EXCEPT
       !.pc = "emit",
       !.pending = IF call[c].emit
                   THEN [i \in DOMAIN call[c].errors |->
                          Event("system_failure", FailAction, NameOf[call[c].errors[i]])]
                   ELSE <<>>,
       !.after = IF FailClosed /\ call[c].errors # <<>> THEN "block" ELSE "policy"])

\* Slip: an error is answered with FAIL_OPEN's ALLOW before the policy is asked.
ReportErrors_SkipsPolicy(c) ==
  /\ call[c].pc = "report"
  /\ Progress(c, [call[c] EXCEPT
       !.pc = "emit",
       !.pending = [i \in DOMAIN call[c].errors |->
                      Event("system_failure", FailAction, NameOf[call[c].errors[i]])],
       !.after = IF call[c].errors = <<>> THEN "policy"
                 ELSE IF FailClosed THEN "block" ELSE "allow"])

\* One SYSTEM_FAILURE event per error, whatever emit_events says.
ReportErrors(c) ==
  /\ call[c].pc = "report"
  /\ Progress(c, [call[c] EXCEPT
       !.pc = "emit",
       !.pending = [i \in DOMAIN call[c].errors |->
                      Event("system_failure", FailAction, NameOf[call[c].errors[i]])],
       !.after = IF FailClosed /\ call[c].errors # <<>> THEN "block" ELSE "policy"])

\* self.policy.evaluate(detections), then the security mode.
Verdicts(c) ==
  IF settings.policy = Custom THEN Action \cup {"ValueError"}
  ELSE {Evaluate(settings.policy, call[c].results)}

\* Slip: the security mode is left to BLOCK alone.
PolicyDecides_StillRedacts(c) ==
  /\ call[c].pc = "policy"
  /\ \E action \in Verdicts(c) \cap Action :
       Progress(c, [call[c] EXCEPT !.pc = "decided",
         !.decision = IF action = "redact" THEN action ELSE UnderMode(settings, action)])

PolicyDecides(c) ==
  /\ call[c].pc = "policy"
  /\ \E action \in Verdicts(c) \cap Action :
       Progress(c, [call[c] EXCEPT !.pc = "decided", !.decision = UnderMode(settings, action)])

PolicyFails(c) ==
  /\ call[c].pc = "policy"
  /\ "ValueError" \in Verdicts(c)
  /\ Progress(c, [call[c] EXCEPT
       !.pc = "emit",
       !.pending = <<Event("policy_failure", FailAction, "policy")>>,
       !.after = IF FailClosed THEN "raise" ELSE "allow"])

\* One DETECTION event per result when emit_events is set.  Building the event of
\* a result reads its highest severity again, which raises for a bad label.
EmitDetections(c) ==
  LET results == call[c].results
      bad == {i \in DOMAIN results : HighestResultSeverity(results[i]) = "ValueError"}
      sound == IF bad = {} THEN results
               ELSE SubSeq(results, 1, (CHOOSE i \in bad : \A j \in bad : i <= j) - 1)
  IN  /\ call[c].pc = "decided"
      /\ Progress(c, [call[c] EXCEPT
           !.pc = "emit",
           !.pending = IF call[c].emit
                       THEN [i \in DOMAIN sound |->
                              Event("detection", call[c].decision, sound[i].detector)]
                       ELSE <<>>,
           !.after = IF call[c].emit /\ bad # {} THEN "ValueError" ELSE "return"])
-----------------------------------------------------------------------------
(* apply_redactions *)

\* Which detectors take part: with a threshold and the detections of an earlier
\* inspection, those whose result reaches it.  A bad label raises here as well.
BeginRedact(c) ==
  /\ Over(c)
  /\ \/ Progress(c, NewCall("redact"))
     \/ /\ call[c].op = "inspect" /\ call[c].outcome = "returned"
        /\ \E threshold \in Threshold :
             LET results == call[c].results
                 level(i) == HighestResultSeverity(results[i])
             IN  Progress(c,
                   IF \E i \in DOMAIN results : level(i) = "ValueError"
                   THEN Ended(NewCall("redact"), "ValueError", "none")
                   ELSE [NewCall("redact") EXCEPT !.allowed =
                          {results[i].detector : i \in
                             {j \in DOMAIN results :
                                level(j) \in Severity /\ Rank[level(j)] >= Rank[threshold]}}])

NotSelected(c) ==
  /\ Up(c, "redact")
  /\ NameOf[call[c].current] \notin call[c].allowed
  /\ Progress(c, [call[c] EXCEPT !.pc = "scan", !.current = NoDetector])

Redacts(c) ==
  /\ Up(c, "redact")
  /\ NameOf[call[c].current] \in call[c].allowed
  /\ Progress(c, Ran(c, "scan"))

RedactionFails(c) ==
  /\ Up(c, "redact")
  /\ NameOf[call[c].current] \in call[c].allowed
  /\ Progress(c, [Ran(c, "emit") EXCEPT
       !.errors = Append(@, call[c].current),
       !.pending = <<Event("system_failure", FailAction, NameOf[call[c].current])>>,
       !.after = IF FailClosed THEN "raise" ELSE "scan"])
-----------------------------------------------------------------------------
(* _emit_event *)

\* self.events.append(event); the callbacks are next.
EmitEvent(c) ==
  /\ call[c].pc = "emit"
  /\ call[c].pending # <<>>
  /\ Progress(c, [call[c] EXCEPT !.pc = "notify",
                                 !.trail = Append(@, Head(call[c].pending)),
                                 !.listener = 0])

\* for callback in self.event_callbacks: the next place of the live list.
Given(c) ==
  [call[c] EXCEPT !.listener = @ + 1,
                  !.heard[call[c].listener + 1] = Append(@, Head(call[c].pending))]

CallbackReturns(c) ==
  /\ call[c].pc = "notify"
  /\ call[c].listener < callbacks
  /\ Progress(c, Given(c))

\* Slip: the handler is around the loop, so the other callbacks are left out.
CallbackRaises_EndsLoop(c) ==
  /\ call[c].pc = "notify"
  /\ call[c].listener < callbacks
  /\ Progress(c, [Given(c) EXCEPT
       !.trail = Append(@, Event("callback_failure", "warn", "callback")),
       !.pc = "emit", !.pending = Tail(@)])

\* The failure is stored as an event no callback is told of.
CallbackRaises(c) ==
  /\ call[c].pc = "notify"
  /\ call[c].listener < callbacks
  /\ Progress(c, [Given(c) EXCEPT
       !.trail = Append(@, Event("callback_failure", "warn", "callback"))])

\* The callback calls one of the guard's operations before it returns.
CallbackManages(c) ==
  /\ CallbacksManage
  /\ call[c].pc = "notify"
  /\ call[c].listener < callbacks
  /\ ManageAtOnce
  /\ call' = [d \in Caller |->
                IF d = c THEN Witness(Given(c)) ELSE Witness(call[d])]
  /\ UNCHANGED <<task, settings>>

EventDone(c) ==
  /\ call[c].pc = "notify"
  /\ call[c].listener >= callbacks
  /\ Progress(c, [call[c] EXCEPT !.pc = "emit", !.pending = Tail(@), !.listener = 0])
-----------------------------------------------------------------------------
(* What follows the events *)

EventsOut(c, label) ==
  /\ call[c].pc = "emit"
  /\ call[c].pending = <<>>
  /\ call[c].after = label

Finish(c, outcome, decision) == Progress(c, Ended(call[c], outcome, decision))

GoOn(c) ==
  /\ \/ EventsOut(c, "policy")
     \/ EventsOut(c, "scan")
  /\ Progress(c, [call[c] EXCEPT !.pc = call[c].after, !.after = "none"])

\* Slip: the security mode has the last word over the fail behavior too.
BlockOnError_UnderMode(c) ==
  /\ EventsOut(c, "block")
  /\ Finish(c, "returned", UnderMode(settings, "block"))

\* FAIL_CLOSED after a detector error: BLOCK, before any policy or mode.
BlockOnError(c) ==
  /\ EventsOut(c, "block")
  /\ Finish(c, "returned", "block")

\* Slip: no decision is made on the way from the failure event to the end.
AllowOnPolicyError_Undecided(c) ==
  /\ EventsOut(c, "allow")
  /\ Progress(c, [call[c] EXCEPT !.pc = "decided", !.after = "none"])

\* FAIL_OPEN after a policy error; the security mode leaves ALLOW as it is.
AllowOnPolicyError(c) ==
  /\ EventsOut(c, "allow")
  /\ Progress(c, [call[c] EXCEPT !.pc = "decided", !.after = "none", !.decision = "allow"])

\* FAIL_CLOSED after a policy error or a redaction error.
RaiseOnError(c) ==
  /\ EventsOut(c, "raise")
  /\ Finish(c, IF call[c].op = "inspect" THEN "PolicyEvaluationError" ELSE "RedactionError",
            "none")

\* highest_result_severity raised while the detection events were being built.
RaiseValueError(c) ==
  /\ EventsOut(c, "ValueError")
  /\ Finish(c, "ValueError", "none")

Return(c) ==
  /\ EventsOut(c, "return")
  /\ Finish(c, "returned", call[c].decision)
-----------------------------------------------------------------------------
InspectStep(c) ==
  \/ NextDetector(c)
  \/ EndOfDetectors(c)
  \/ SkipDisabled(c)
  \/ NoMatch(c)
  \/ Matches(c)
  \/ DetectorFails(c)
  \/ ReportErrors(c)
  \/ PolicyDecides(c)
  \/ PolicyFails(c)
  \/ EmitDetections(c)

RedactStep(c) ==
  \/ NotSelected(c)
  \/ Redacts(c)
  \/ RedactionFails(c)

EventStep(c) ==
  \/ EmitEvent(c)
  \/ CallbackReturns(c)
  \/ CallbackRaises(c)
  \/ CallbackManages(c)
  \/ EventDone(c)

EndStep(c) ==
  \/ GoOn(c)
  \/ BlockOnError(c)
  \/ AllowOnPolicyError(c)
  \/ RaiseOnError(c)
  \/ RaiseValueError(c)
  \/ Return(c)

\* What a caller does once it is in a call.
CallStep(c) == InspectStep(c) \/ RedactStep(c) \/ EventStep(c) \/ EndStep(c)

\* An admin thread's step, as the calls under way see it.
Manage ==
  /\ AdminStep
  /\ call' = [c \in Caller |-> Witness(call[c])]
  /\ UNCHANGED settings

Next ==
  \/ \E c \in Caller : BeginInspect(c) \/ BeginRedact(c) \/ CallStep(c)
  \/ Manage

Spec == Init /\ [][Next]_vars

\* A call keeps running: detectors, policies and callbacks come back.
FairSpec == Spec /\ \A c \in Caller : WF_vars(CallStep(c))
-----------------------------------------------------------------------------
(* What must hold *)

Events == [type : EventType, action : Action, detector : Name \cup {"policy", "callback"}]

Call ==
  [op : {"none", "inspect", "redact"},
   pc : {"over", "scan", "run", "report", "policy", "decided", "emit", "notify"},
   outcome : {"none", "returned", "PolicyEvaluationError", "RedactionError", "ValueError"},
   emit : BOOLEAN,
   cursor : Nat \ {0},
   current : Detector \cup {NoDetector},
   results : Seq([detector : Name, matches : SUBSET Label, model : Severity \cup {"none"}]),
   errors : Seq(Detector),
   allowed : SUBSET Name,
   pending : Seq(Events),
   after : {"none", "scan", "policy", "block", "allow", "raise", "ValueError", "return"},
   listener : 0..MaxCallbacks,
   trail : Seq(Events),
   heard : [1..MaxCallbacks -> Seq(Events)],
   decision : Action \cup {"none"},
   steady : SUBSET Detector,
   shrunk : BOOLEAN,
   audience : 0..MaxCallbacks,
   ran : Seq(Detector)]

TypeOK ==
  /\ RegistryTypeOK
  /\ settings \in AllSettings
  /\ call \in [Caller -> Call]

\* What was told is the events of these types, each one once and in their order.
Lists(told, events, types) ==
  LET places == {i \in DOMAIN events : events[i].type \in types} IN
  /\ Len(told) = Cardinality(places)
  /\ \A i \in places : told[Cardinality({j \in places : j <= i})] = events[i]

Tells(events, types) == \E i \in DOMAIN events : events[i].type \in types

\* A fail-closed guard lets nothing through after an error.  Whatever failed on
\* the way, a detector, the policy or a redaction, the call ends with BLOCK or
\* an exception: not even MONITOR turns that into ALLOW.
FailClosedHolds ==
  \A c \in Caller :
    FailClosed /\ Over(c) /\ Tells(call[c].trail, {"system_failure", "policy_failure"}) =>
      \/ call[c].decision = "block"
      \/ call[c].outcome \in {"PolicyEvaluationError", "RedactionError"}

\* No detection hides behind another one or behind a failing detector: under
\* enforcement, a severity policy that could be evaluated, and that is no milder to
\* a severer finding, answers at least as strictly as it would for any single
\* severity that was reported.
NothingMasked ==
  \A c \in Caller :
    (/\ Over(c) /\ call[c].op = "inspect"
     /\ settings.mode = "enforce" /\ settings.policy \in BuiltIn /\ Monotone(settings.policy)
     /\ call[c].outcome = "returned"
     /\ ~Tells(call[c].trail, {"policy_failure"})) =>
      \A i \in DOMAIN call[c].results :
        LET r == call[c].results[i] IN
        \A s \in (r.matches \cup {r.model}) \cap Severity :
          Strength[call[c].decision] >= Strength[Decide(settings.policy, s)]

\* The detectors a finished call owes a run, and was not stopped from running.
Owed(c) ==
  IF call[c].op = "inspect"
  THEN IF FailFast /\ (call[c].results # <<>> \/ call[c].errors # <<>>)
       THEN {} ELSE call[c].steady
  ELSE IF call[c].outcome = "returned"
       THEN {d \in call[c].steady : NameOf[d] \in call[c].allowed} ELSE {}

\* Every detector that was active from the beginning of a call to its end is
\* run, once, however the list grows and detectors are switched on and off
\* meanwhile.  (No detector may be removed: see RunsAllActive.)
EachRunsOnce ==
  \A c \in Caller :
    Over(c) /\ ~call[c].shrunk =>
      /\ Owed(c) \subseteq ToSet(call[c].ran)
      /\ Cardinality(ToSet(call[c].ran)) = Len(call[c].ran)

\* Each failing detector has its SYSTEM_FAILURE event, whether or not the caller
\* asked for events, and the event says what the fail behavior does about it.
FailuresReported ==
  \A c \in Caller :
    Over(c) =>
      Lists([i \in DOMAIN call[c].errors |->
              Event("system_failure", FailAction, NameOf[call[c].errors[i]])],
            call[c].trail, {"system_failure"})

\* A callback that was registered before the call is given every event of the
\* call, once and in order, no matter which callbacks raise; only the events
\* about raising callbacks are not passed on.
EveryoneIsTold ==
  \A c \in Caller :
    Over(c) =>
      \A n \in 1..call[c].audience :
        Lists(call[c].heard[n], call[c].trail, EventType \ {"callback_failure"})

\* The guard implements what its callers rely on: each call is answered as the
\* settings allow, whatever happens to detectors and callbacks on the way.
Service == INSTANCE GuardService WITH
  answer <- [c \in Caller |->
    LET now == call[c] IN
    [op |-> now.op,
     outcome |-> IF Over(c) THEN now.outcome ELSE "waiting",
     decision |-> IF Over(c) THEN now.decision ELSE "none",
     detected |-> Over(c) /\ now.results # <<>>,
     flawless |-> Over(c) => now.errors = <<>>]]

ServiceRefined == Service!ServiceSpec

\* What the loops of a call go through gets longer.
Registers == Len(detectors') > Len(detectors) \/ callbacks' > callbacks

\* Every call ends once nothing is registered any more, however the list was
\* changed before and whatever is removed, disabled and enabled all the while.  It
\* takes that: the loops go through live lists, so that a thread, or a callback,
\* that goes on registering detectors of new names or callbacks keeps a call going.
CallsEnd ==
  <>[][~Registers]_<<detectors, callbacks>> => \A c \in Caller : []<>Over(c)

\* docs/runtime.md:359: "The guard runs all active detectors."; the docstring of
\* apply_redactions: "Apply redaction transforms from all active detectors."
RunsAllActive ==
  \A c \in Caller : Over(c) => Owed(c) \subseteq ToSet(call[c].ran)

\* docs/exceptions.md:226, of a policy that raises: "`fail_open` (default): The
\* guard returns an `ALLOW` decision."
FailOpenAllows ==
  \A c \in Caller :
    ~FailClosed /\ Over(c) /\ Tells(call[c].trail, {"policy_failure"}) =>
      call[c].outcome = "returned" /\ call[c].decision = "allow"
=============================================================================
