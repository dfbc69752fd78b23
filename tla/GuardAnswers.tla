---------------------------- MODULE GuardAnswers ----------------------------
(***************************************************************************)
(* The answers of AgentGuard.inspect_with_results and apply_redactions, as   *)
(* far as their callers depend on them, from the guard's settings alone.     *)
(***************************************************************************)
EXTENDS SeverityPolicy

\* detected: are there results?  flawless: did every detector do its work?
Answer(op, outcome, decision, detected, flawless) ==
  [op |-> op, outcome |-> outcome, decision |-> decision,
   detected |-> detected, flawless |-> flawless]

NoAnswer == Answer("none", "none", "none", FALSE, TRUE)

\* A call that has begun and is not answered yet.
Waiting(op) == Answer(op, "waiting", "none", FALSE, TRUE)

\* What a policy may decide.  Without results, a severity policy allows.
Decidable(s, detected) ==
  IF s.policy = Custom THEN Action
  ELSE {"allow"} \cup (IF detected THEN {Decide(s.policy, l) : l \in Severity} ELSE {})

\* The answers with a decision of the policy in them, as the mode leaves it.
PolicyAnswers(s, detected, flawless) ==
  {Answer("inspect", "returned", UnderMode(s, d), detected, flawless) :
     d \in Decidable(s, detected)}

\* inspect: what it may answer.  The policy decided, or a fail-open guard allowed
\* for a policy that raised; a fail-closed guard blocks when a detector raised,
\* and raises when the policy did.  ValueError is for a severity label that cannot
\* be read when the events are built.
InspectAnswers(s) ==
  PolicyAnswers(s, TRUE, TRUE) \cup PolicyAnswers(s, FALSE, TRUE)
  \cup {Answer("inspect", "ValueError", "none", TRUE, TRUE)}
  \cup IF s.fail = "closed"
       THEN {Answer("inspect", "returned", "block", detected, FALSE) : detected \in BOOLEAN}
            \cup {Answer("inspect", "PolicyEvaluationError", "none", detected, TRUE) :
                    detected \in BOOLEAN}
       ELSE PolicyAnswers(s, TRUE, FALSE) \cup PolicyAnswers(s, FALSE, FALSE)
            \cup {Answer("inspect", "ValueError", "none", TRUE, FALSE)}

\* apply_redactions: what it may answer.
RedactAnswers(s) ==
  { Answer("redact", "returned", "none", FALSE, TRUE),
    IF s.fail = "closed" THEN Answer("redact", "RedactionError", "none", FALSE, FALSE)
    ELSE Answer("redact", "returned", "none", FALSE, FALSE) }

\* apply_redactions with a threshold, on detections with a bad severity label.
RedactRefused == Answer("redact", "ValueError", "none", FALSE, TRUE)
=============================================================================
