--------------------------- MODULE SeverityPolicy ---------------------------
(***************************************************************************)
(* What a guard makes of its detections: core/helpers/detection_utils.py     *)
(* (the highest severity of one result and of all of them),                  *)
(* SeverityPolicy.evaluate with the built-in rule tables                     *)
(* (core/policies/base.py, core/policies/defaults.py), and the guard's       *)
(* security mode.                                                           *)
(*                                                                         *)
(* A detection result is reduced to what these functions read: the detector  *)
(* it names, the severity labels of its matches and the severity its model   *)
(* reported.  Messages, metadata and reasons are left out.                   *)
(***************************************************************************)
EXTENDS Naturals, Sequences

\* The enum Severity, in its declaration order.
Severity == {"info", "low", "medium", "high", "critical"}

Rank == [s \in Severity |->
           CASE s = "info" -> 0
             [] s = "low" -> 1
             [] s = "medium" -> 2
             [] s = "high" -> 3
             [] s = "critical" -> 4]

Action == {"allow", "warn", "redact", "block", "quarantine"}

\* How much each action of a severity rule takes away from its caller.
Strength == [a \in Action |->
               CASE a = "allow" -> 0
                 [] a = "warn" -> 1
                 [] a = "redact" -> 2
                 [] a = "block" -> 3
                 [] a = "quarantine" -> 3]

\* A label parse_severity rejects.  A match may carry one: Match.severity is a
\* plain string, and inline rules only have to have the field.
Label == Severity \cup {"invalid"}

\* What the highest_*_severity functions answer: a severity, None, or ValueError.
Level == Severity \cup {"none", "ValueError"}

Highest(S) == CHOOSE s \in S : \A u \in S : Rank[u] <= Rank[s]
-----------------------------------------------------------------------------
(* helpers/detection_utils.py *)

\* The match labels are parsed first, and a bad one raises; a model severity
\* that cannot be parsed counts as absent.
HighestResultSeverity(r) ==
  LET candidates == r.matches \cup ({r.model} \cap Severity)
  IN  IF "invalid" \in r.matches THEN "ValueError"
      ELSE IF candidates = {} THEN "none"
      ELSE Highest(candidates)

HighestResultsSeverity(results) ==
  LET levels == {HighestResultSeverity(results[i]) : i \in DOMAIN results}
  IN  IF "ValueError" \in levels THEN "ValueError"
      ELSE IF levels \subseteq {"none"} THEN "none"
      ELSE Highest(levels \ {"none"})
-----------------------------------------------------------------------------
(* policies/base.py: a policy is [rules, default], the rules in their order *)

Rule(severities, action) == [severities |-> severities, action |-> action]

\* What the constructor accepts: at least one rule.
SeverityPolicies ==
  [rules : Seq([severities : SUBSET Severity, action : Action]) \ {<<>>}, default : Action]

\* The first rule that lists the severity; the default action if none does.
Decide(policy, level) ==
  LET hits == {i \in DOMAIN policy.rules : level \in policy.rules[i].severities}
  IN  IF hits = {} THEN policy.default
      ELSE policy.rules[CHOOSE i \in hits : \A j \in hits : i <= j].action

\* SeverityPolicy.evaluate: the action, or "ValueError" when it raises.
Evaluate(policy, results) ==
  LET level == HighestResultsSeverity(results)
  IN  IF level = "ValueError" THEN "ValueError"
      ELSE IF level = "none" THEN "allow"
      ELSE Decide(policy, level)

\* A severer finding is not treated more leniently.
Monotone(policy) ==
  \A s, u \in Severity :
    Rank[s] <= Rank[u] => Strength[Decide(policy, s)] <= Strength[Decide(policy, u)]

DefaultPolicy ==
  [rules |-> << Rule({"critical", "high"}, "block"),
                Rule({"medium"}, "redact"),
                Rule({"low", "info"}, "warn") >>,
   default |-> "allow"]

StrictPolicy ==
  [rules |-> << Rule({"critical", "high", "medium"}, "block"),
                Rule({"low", "info"}, "warn") >>,
   default |-> "allow"]

PermissivePolicy ==
  [rules |-> << Rule({"critical"}, "block"),
                Rule({"high", "medium"}, "warn") >>,
   default |-> "allow"]
-----------------------------------------------------------------------------
(* guards/agent_guard.py: what becomes of a policy's decision in a guard *)

\* A policy of the user's own may answer anything, or raise.
Custom == [rules |-> <<>>, default |-> "custom"]

GuardSettings(policies) ==
  [fail : {"open", "closed"}, mode : {"enforce", "monitor"},
   strategy : {"exhaustive", "fail_fast"}, policy : policies \cup {Custom}]

\* Slip: only REDACT is turned into ALLOW.
UnderMode_Blocks(settings, action) ==
  IF settings.mode = "monitor" /\ action = "redact" THEN "allow" ELSE action

\* MONITOR turns BLOCK and REDACT into ALLOW, and only those.
UnderMode(settings, action) ==
  IF settings.mode = "monitor" /\ action \in {"block", "redact"} THEN "allow" ELSE action
=============================================================================
