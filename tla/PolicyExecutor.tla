--------------------------- MODULE PolicyExecutor ---------------------------
(***************************************************************************)
(* core/policies/enforcement.py: PolicyExecutor.enforce turns a guard's      *)
(* decision into what happens to a piece of content.  One executor serves    *)
(* all threads of an agent; they share its violation counter.               *)
(*                                                                         *)
(* enforce is split where it runs code of the user's (the redaction, the     *)
(* on_violation callback with the counter before it, the quarantine          *)
(* handler).  What on_warn and on_violation do or raise has no effect, and   *)
(* neither has the event of a WARN.  The integrations always give the        *)
(* executor a guard, so its answer to having none is left out.               *)
(***************************************************************************)
EXTENDS GuardAnswers

CONSTANTS
  Caller  \* threads that have decisions enforced

VARIABLES
  settings,    \* the settings of the executor's guard
  executor,    \* [raises, handler]: raise_on_violation; is there a quarantine handler?
  violations,  \* self._violations
  work         \* work[c]: the enforcement of c

executorVars == <<settings, executor, violations, work>>

NoWork == [at |-> "rest", decision |-> "none", detected |-> FALSE, result |-> "none"]

Enforcing(decision, detected) ==
  [NoWork EXCEPT !.at = "enforce", !.decision = decision, !.detected = detected]

\* "passed": the content as it came.  "redacted": every detector redacted it.
\* "tried": a redaction failed and a fail-open guard went on without it.
\* "blocked": a result with blocked set.  "violation": AgentGuardViolation.
Result == {"passed", "redacted", "tried", "blocked", "violation"}

ExecutorInit ==
  /\ executor \in [raises : BOOLEAN, handler : BOOLEAN]
  /\ violations = 0
  /\ work = [c \in Caller |-> NoWork]

At(c, label) == work[c].at = label

Step(c, next) ==
  /\ work' = [work EXCEPT ![c] = next]
  /\ UNCHANGED <<settings, executor>>

Done(c, result) == Step(c, [work[c] EXCEPT !.at = "done", !.result = result])

NeedsRedaction(c) == work[c].decision = "redact" /\ work[c].detected

\* raise AgentGuardViolation, or a blocked result.
Refusal == IF executor.raises THEN "violation" ELSE "blocked"

\* ALLOW, WARN, and REDACT without detections.
Passes(c) ==
  /\ At(c, "enforce")
  /\ work[c].decision \notin {"block", "quarantine"}
  /\ ~NeedsRedaction(c)
  /\ Done(c, "passed")
  /\ UNCHANGED violations

Redacts(c) ==
  /\ At(c, "enforce")
  /\ NeedsRedaction(c)
  /\ \E a \in RedactAnswers(settings) :
       /\ a.outcome = "returned"
       /\ Done(c, IF a.flawless THEN "redacted" ELSE "tried")
  /\ UNCHANGED violations

\* Slip: the content is let through as it came when it cannot be redacted.
RedactionFails_Passes(c) ==
  /\ At(c, "enforce")
  /\ NeedsRedaction(c)
  /\ \E a \in RedactAnswers(settings) : a.outcome # "returned"
  /\ Done(c, "passed")
  /\ UNCHANGED violations

\* Slip: the error is reported and enforce ends without a return.
RedactionFails_NoReturn(c) ==
  /\ At(c, "enforce")
  /\ NeedsRedaction(c)
  /\ \E a \in RedactAnswers(settings) : a.outcome # "returned"
  /\ violations' = violations + 1
  /\ Done(c, "none")

\* apply_redactions raised: what cannot be redacted is blocked.
RedactionFails(c) ==
  /\ At(c, "enforce")
  /\ NeedsRedaction(c)
  /\ \E a \in RedactAnswers(settings) : a.outcome # "returned"
  /\ Step(c, [work[c] EXCEPT !.at = "notify"])
  /\ UNCHANGED violations

Stops(c) ==
  /\ At(c, "enforce")
  /\ work[c].decision \in {"block", "quarantine"}
  /\ Step(c, [work[c] EXCEPT !.at = "notify"])
  /\ UNCHANGED violations

\* _notify_violation: the counter, then on_violation.
Notify(c) ==
  /\ At(c, "notify")
  /\ violations' = violations + 1
  /\ IF work[c].decision = "quarantine" /\ executor.handler
     THEN Step(c, [work[c] EXCEPT !.at = "hand"])
     ELSE Done(c, Refusal)

\* A handler that returns has dealt with the content: nothing is raised.
HandlerReturns(c) ==
  /\ At(c, "hand")
  /\ Done(c, "blocked")
  /\ UNCHANGED violations

\* Slip: a failing handler is counted as a violation of its own.
HandlerRaises_Counts(c) ==
  /\ At(c, "hand")
  /\ Done(c, Refusal)
  /\ violations' = violations + 1

HandlerRaises(c) ==
  /\ At(c, "hand")
  /\ Done(c, Refusal)
  /\ UNCHANGED violations

EnforceStep(c) ==
  \/ Passes(c)
  \/ Redacts(c)
  \/ RedactionFails(c)
  \/ Stops(c)
  \/ Notify(c)
  \/ HandlerReturns(c)
  \/ HandlerRaises(c)
-----------------------------------------------------------------------------
(* A piece of content on its way through an agent: its text, and the verdict  *)
(* of the latest scan.  No code reads a verdict; the properties do.          *)

Item == [text : {"raw", "masked", "gone"},
         verdict : {"unscanned", "clear", "redact", "block", "quarantine"}]

Fresh == [text |-> "raw", verdict |-> "unscanned"]

\* The verdict is "clear" when the text may stay as it is: ALLOW, WARN, and a
\* REDACT without detections.
Judged(item, a) ==
  [item EXCEPT !.verdict =
     IF a.decision \in {"allow", "warn"} \/ (a.decision = "redact" /\ ~a.detected)
     THEN "clear" ELSE a.decision]

Cleared(item) ==
  \/ item.verdict = "clear"
  \/ item.verdict = "redact" /\ item.text = "masked"

\* With raise_on_violation, content that was to be stopped; a quarantine handler
\* takes content away without raising.
Unusable(item) ==
  /\ executor.raises
  /\ \/ item.verdict = "block"
     \/ item.verdict = "quarantine" /\ ~executor.handler

\* A guard that fails closed, and violations raised whatever the decision.
Strict == settings.fail = "closed" /\ executor = [raises |-> TRUE, handler |-> FALSE]
-----------------------------------------------------------------------------
ExecutorTypeOK ==
  /\ executor \in [raises : BOOLEAN, handler : BOOLEAN]
  /\ violations \in Nat
  /\ work \in [Caller -> [at : {"rest", "enforce", "notify", "hand", "done"},
                          decision : Action \cup {"none"}, detected : BOOLEAN,
                          result : Result \cup {"none"}]]
  /\ \A c \in Caller : At(c, "done") => work[c].result \in Result
=============================================================================
