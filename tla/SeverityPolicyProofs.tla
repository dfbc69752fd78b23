------------------------- MODULE SeverityPolicyProofs -------------------------
(***************************************************************************)
(* Facts about severities and policies, which the proofs of all modules that *)
(* decide by them rest on.                                                  *)
(***************************************************************************)
EXTENDS SeverityPolicy, WellFoundedInduction, SequenceTheorems, FiniteSetTheorems, TLAPS

\* A set of numbers has a least one.
LEMMA LeastNumber ==
  ASSUME NEW T, T \subseteq Nat, T # {}
  PROVE  \E x \in T : \A y \in T : x <= y
<1>1. IsWellFoundedOn(OpToRel(<, Nat), Nat)
  BY NatLessThanWellFounded
<1>2. PICK x \in T : \A y \in T : <<y, x>> \notin OpToRel(<, Nat)
  BY <1>1, WFMin
<1>3. ASSUME NEW y \in T
      PROVE  x <= y
  <2>1. x \in Nat /\ y \in Nat /\ ~(y < x)
    BY <1>2 DEF OpToRel
  <2> QED
    BY <2>1
<1> QED
  BY <1>3

-----------------------------------------------------------------------------
(* Severities *)

\* The order of the severities is total.
LEMMA Ranked ==
  /\ \A s \in Severity : Rank[s] \in 0..4
  /\ \A s, u \in Severity : Rank[s] = Rank[u] => s = u
BY DEF Rank, Severity

\* The highest severity of a set is one of them.
LEMMA HighestIsOne ==
  ASSUME NEW S \in SUBSET Severity, S # {}
  PROVE  Highest(S) \in S /\ \A s \in S : Rank[s] <= Rank[Highest(S)]
<1>1. /\ Rank["info"] = 0 /\ Rank["low"] = 1 /\ Rank["medium"] = 2
      /\ Rank["high"] = 3 /\ Rank["critical"] = 4
  BY DEF Rank, Severity
<1>2. \E s \in S : \A u \in S : Rank[u] <= Rank[s]
  <2>1. CASE "critical" \in S
    BY <1>1, <2>1 DEF Severity
  <2>2. CASE "critical" \notin S /\ "high" \in S
    BY <1>1, <2>2 DEF Severity
  <2>3. CASE S \cap {"critical", "high"} = {} /\ "medium" \in S
    BY <1>1, <2>3 DEF Severity
  <2>4. CASE S \cap {"critical", "high", "medium"} = {} /\ "low" \in S
    BY <1>1, <2>4 DEF Severity
  <2>5. CASE S \cap {"critical", "high", "medium", "low"} = {}
    <3>1. S = {"info"}
      BY <2>5 DEF Severity
    <3> QED
      BY <1>1, <3>1
  <2> QED
    BY <2>1, <2>2, <2>3, <2>4, <2>5
<1> QED
  BY <1>2 DEF Highest

\* The severities that count for the highest of a result.
Candidates(r) == r.matches \cup ({r.model} \cap Severity)

\* The level of a result without a bad label is the highest of them, if any.
LEMMA LevelOfResult ==
  ASSUME NEW r, r.matches \subseteq Severity
  PROVE  /\ Candidates(r) = {} => HighestResultSeverity(r) = "none"
         /\ Candidates(r) # {} =>
              /\ HighestResultSeverity(r) \in Candidates(r)
              /\ HighestResultSeverity(r) \in Severity
              /\ \A s \in Candidates(r) : Rank[s] <= Rank[HighestResultSeverity(r)]
<1>1. "invalid" \notin r.matches
  BY DEF Severity
<1>2. Candidates(r) \in SUBSET Severity
  BY DEF Candidates
<1>3. HighestResultSeverity(r) = IF Candidates(r) = {} THEN "none" ELSE Highest(Candidates(r))
  BY <1>1 DEF HighestResultSeverity, Candidates
<1> QED
  BY <1>2, <1>3, HighestIsOne

\* The level of a set of detections is the highest of what counts in any of them.
LEMMA LevelOfResults ==
  ASSUME NEW d, \A k \in DOMAIN d : d[k].matches \subseteq Severity
  PROVE  /\ (\A k \in DOMAIN d : Candidates(d[k]) = {}) =>
              HighestResultsSeverity(d) = "none"
         /\ \A k \in DOMAIN d : \A s \in Candidates(d[k]) :
              /\ HighestResultsSeverity(d) \in Severity
              /\ Rank[s] <= Rank[HighestResultsSeverity(d)]
              /\ \E l \in DOMAIN d : HighestResultsSeverity(d) \in Candidates(d[l])
<1> DEFINE levels == {HighestResultSeverity(d[k]) : k \in DOMAIN d}
           top == HighestResultsSeverity(d)
<1>1. ASSUME NEW k \in DOMAIN d
      PROVE  /\ Candidates(d[k]) \subseteq Severity
             /\ Candidates(d[k]) = {} => HighestResultSeverity(d[k]) = "none"
             /\ Candidates(d[k]) # {} =>
                  /\ HighestResultSeverity(d[k]) \in Candidates(d[k])
                  /\ \A s \in Candidates(d[k]) : Rank[s] <= Rank[HighestResultSeverity(d[k])]
  BY LevelOfResult DEF Candidates
<1>2. levels \subseteq Severity \cup {"none"}
  BY <1>1
<1>3. "ValueError" \notin levels /\ "none" \notin Severity
  BY <1>2 DEF Severity
<1>4. top = IF levels \subseteq {"none"} THEN "none" ELSE Highest(levels \ {"none"})
  BY <1>3 DEF HighestResultsSeverity
<1>5. ASSUME \A k \in DOMAIN d : Candidates(d[k]) = {}
      PROVE  top = "none"
  <2>1. levels \subseteq {"none"}
    BY <1>1, <1>5
  <2> QED
    BY <1>4, <2>1
<1>6. ASSUME NEW k \in DOMAIN d, NEW s \in Candidates(d[k])
      PROVE  /\ top \in Severity
             /\ Rank[s] <= Rank[top]
             /\ \E l \in DOMAIN d : top \in Candidates(d[l])
  <2> DEFINE own == HighestResultSeverity(d[k])
  <2>1. own \in Severity /\ Rank[s] <= Rank[own] /\ s \in Severity
    BY <1>1, <1>6
  <2>2. own \in levels \ {"none"}
    BY <1>3, <2>1
  <2>3. levels \ {"none"} \in SUBSET Severity
    BY <1>2
  <2> HIDE DEF levels, own
  <2>4. /\ Highest(levels \ {"none"}) \in levels \ {"none"}
        /\ Rank[own] <= Rank[Highest(levels \ {"none"})]
    BY <2>2, <2>3, HighestIsOne
  <2>5. top = Highest(levels \ {"none"})
    BY <1>4, <2>2
  <2> HIDE DEF top
  <2>6. top \in Severity /\ Rank[own] <= Rank[top] /\ top \in levels /\ top # "none"
    BY <2>3, <2>4, <2>5
  <2>7. PICK l \in DOMAIN d : top = HighestResultSeverity(d[l])
    BY <2>6 DEF levels
  <2>8. Rank[s] <= Rank[top]
    BY <2>1, <2>6, Ranked
  <2>9. top \in Candidates(d[l])
    BY <1>1, <2>6, <2>7
  <2> QED
    BY <2>6, <2>8, <2>9
<1> HIDE DEF top
<1> QED
  BY <1>5, <1>6 DEF top
-----------------------------------------------------------------------------
(* Policies *)

\* A policy decides on one of the actions, whatever the level.
LEMMA DecideTyped ==
  ASSUME NEW policy \in SeverityPolicies, NEW level
  PROVE  Decide(policy, level) \in Action
<1> DEFINE hits == {i \in DOMAIN policy.rules : level \in policy.rules[i].severities}
           Rules == [severities : SUBSET Severity, action : Action]
<1>1. policy.rules \in Seq(Rules) /\ policy.default \in Action
  BY DEF SeverityPolicies
<1>2. DOMAIN policy.rules = 1..Len(policy.rules)
      /\ \A i \in DOMAIN policy.rules : policy.rules[i] \in Rules
  BY <1>1, LenProperties, ElementOfSeq
<1>3. CASE hits = {}
  BY <1>1, <1>3 DEF Decide
<1>4. CASE hits # {}
  <2> DEFINE first == CHOOSE i \in hits : \A j \in hits : i <= j
  <2>1. hits \subseteq Nat
    BY <1>1, <1>2, LenProperties
  <2>2. first \in hits
    <3>1. \E i \in hits : \A j \in hits : i <= j
      BY <1>4, <2>1, LeastNumber
    <3> QED
      BY <3>1
  <2>3. policy.rules[first] \in Rules
    BY <1>2, <2>2
  <2>4. Decide(policy, level) = policy.rules[first].action
    BY <1>4 DEF Decide
  <2> HIDE DEF first
  <2> QED
    BY <2>3, <2>4
<1> QED
  BY <1>3, <1>4

\* What a policy makes of detections without a bad label.
LEMMA EvaluateByLevel ==
  ASSUME NEW policy, NEW d, \A k \in DOMAIN d : d[k].matches \subseteq Severity
  PROVE  /\ (\A k \in DOMAIN d : Candidates(d[k]) = {}) => Evaluate(policy, d) = "allow"
         /\ \A k \in DOMAIN d : Candidates(d[k]) # {} =>
              Evaluate(policy, d) = Decide(policy, HighestResultsSeverity(d))
<1>1. ASSUME \A k \in DOMAIN d : Candidates(d[k]) = {}
      PROVE  Evaluate(policy, d) = "allow"
  <2>1. HighestResultsSeverity(d) = "none"
    BY <1>1, LevelOfResults
  <2> QED
    BY <2>1 DEF Evaluate
<1>2. ASSUME NEW k \in DOMAIN d, NEW s \in Candidates(d[k])
      PROVE  Evaluate(policy, d) = Decide(policy, HighestResultsSeverity(d))
  <2>1. HighestResultsSeverity(d) \in Severity
    BY <1>2, LevelOfResults
  <2>2. HighestResultsSeverity(d) # "ValueError" /\ HighestResultsSeverity(d) # "none"
    BY <2>1 DEF Severity
  <2> QED
    BY <2>2 DEF Evaluate
<1> QED
  BY <1>1, <1>2

\* It does not fail, ...
LEMMA EvaluateActs ==
  ASSUME NEW policy \in SeverityPolicies, NEW d,
         \A k \in DOMAIN d : d[k].matches \subseteq Severity
  PROVE  Evaluate(policy, d) \in Action
<1>1. "allow" \in Action
  BY DEF Action
<1> QED
  BY <1>1, EvaluateByLevel, DecideTyped

\* ... and no finding is masked by another one, if a severer one is not treated
\* more leniently.
LEMMA EvaluateIsStrict ==
  ASSUME NEW policy \in SeverityPolicies, Monotone(policy), NEW d,
         \A k \in DOMAIN d : d[k].matches \subseteq Severity,
         NEW k \in DOMAIN d, NEW s \in Candidates(d[k])
  PROVE  Strength[Decide(policy, s)] <= Strength[Evaluate(policy, d)]
<1>1. s \in Severity
  BY DEF Candidates
<1>2. HighestResultsSeverity(d) \in Severity /\ Rank[s] <= Rank[HighestResultsSeverity(d)]
  BY LevelOfResults
<1>3. Evaluate(policy, d) = Decide(policy, HighestResultsSeverity(d))
  BY EvaluateByLevel
<1> QED
  BY <1>1, <1>2, <1>3 DEF Monotone

\* A LOW that a model adds to the labels of a result does not change what is
\* decided, if low is treated like info.
LEMMA LowDoesNotCount ==
  ASSUME NEW policy, Decide(policy, "low") = Decide(policy, "info"), NEW d, NEW e,
         DOMAIN e = DOMAIN d,
         \A k \in DOMAIN d :
           /\ d[k].matches \subseteq Severity
           /\ e[k].matches = d[k].matches
           /\ \/ e[k].model = d[k].model
              \/ e[k].model \notin Severity /\ d[k].model = "low" /\ d[k].matches # {}
  PROVE  Evaluate(policy, e) = Evaluate(policy, d)
<1> DEFINE high == HighestResultsSeverity(d)
           less == HighestResultsSeverity(e)
<1>1. \A k \in DOMAIN d :
        /\ Candidates(e[k]) \subseteq Candidates(d[k])
        /\ Candidates(d[k]) \subseteq Candidates(e[k]) \cup {"low"}
        /\ Candidates(d[k]) # {} => Candidates(e[k]) # {}
  BY DEF Candidates
<1>2. \A k \in DOMAIN e : e[k].matches \subseteq Severity
  OBVIOUS
<1>3. CASE \A k \in DOMAIN d : Candidates(d[k]) = {}
  <2>1. \A k \in DOMAIN e : Candidates(e[k]) = {}
    BY <1>1, <1>3
  <2> QED
    BY <1>2, <1>3, <2>1, EvaluateByLevel
<1>4. ASSUME NEW k \in DOMAIN d, Candidates(d[k]) # {}
      PROVE  Evaluate(policy, e) = Evaluate(policy, d)
  <2>1. Candidates(e[k]) # {}
    BY <1>1, <1>4
  <2>2. /\ high \in Severity
        /\ \A l \in DOMAIN d : \A s \in Candidates(d[l]) : Rank[s] <= Rank[high]
        /\ \E l \in DOMAIN d : high \in Candidates(d[l])
    BY <1>4, LevelOfResults
  <2>3. /\ less \in Severity
        /\ \A l \in DOMAIN d : \A s \in Candidates(e[l]) : Rank[s] <= Rank[less]
        /\ \E l \in DOMAIN d : less \in Candidates(e[l])
    BY <1>2, <2>1, LevelOfResults
  <2>4. Evaluate(policy, d) = Decide(policy, high) /\ Evaluate(policy, e) = Decide(policy, less)
    BY <1>2, <1>4, <2>1, EvaluateByLevel
  <2> HIDE DEF high, less
  <2>5. Rank[less] <= Rank[high]
    BY <1>1, <2>2, <2>3
  <2>6. CASE \E l \in DOMAIN d : high \in Candidates(e[l])
    <3>1. Rank[high] <= Rank[less]
      BY <2>3, <2>6
    <3>2. high = less
      BY <2>2, <2>3, <2>5, <3>1, Ranked
    <3> QED
      BY <2>4, <3>2
  <2>7. CASE high = "low"
    <3>1. less \in {"low", "info"}
      <4>1. Rank[less] <= 1
        BY <2>5, <2>7 DEF Rank, Severity
      <4> QED
        BY <2>3, <4>1 DEF Rank, Severity
    <3> QED
      BY <2>4, <2>7, <3>1
  <2> QED
    BY <1>1, <2>2, <2>6, <2>7
<1> QED
  BY <1>3, <1>4

\* The first rule that lists a severity decides.
LEMMA FirstRuleDecides ==
  ASSUME NEW policy, NEW level, DOMAIN policy.rules \subseteq Nat,
         NEW i \in DOMAIN policy.rules, level \in policy.rules[i].severities,
         \A j \in DOMAIN policy.rules : level \in policy.rules[j].severities => i <= j
  PROVE  Decide(policy, level) = policy.rules[i].action
<1> DEFINE hits == {j \in DOMAIN policy.rules : level \in policy.rules[j].severities}
           first == CHOOSE j \in hits : \A k \in hits : j <= k
<1>1. i \in hits /\ \A k \in hits : i <= k
  OBVIOUS
<1>2. first \in hits /\ \A k \in hits : first <= k
  BY <1>1
<1>3. first \in Nat /\ i \in Nat /\ first <= i /\ i <= first
  BY <1>1, <1>2
<1>4. first = i
  BY <1>3
<1> QED
  BY <1>1, <1>4 DEF Decide

\* The built-in policies are stricter with a severer finding, and treat low and
\* info alike.
THEOREM BuiltInPolicies ==
  ASSUME NEW policy \in {DefaultPolicy, StrictPolicy, PermissivePolicy}
  PROVE  Monotone(policy) /\ Decide(policy, "low") = Decide(policy, "info")
<1>1. CASE policy = DefaultPolicy
  <2>1. /\ DOMAIN policy.rules = 1..3
        /\ policy.rules[1].severities = {"critical", "high"} /\ policy.rules[1].action = "block"
        /\ policy.rules[2].severities = {"medium"} /\ policy.rules[2].action = "redact"
        /\ policy.rules[3].severities = {"low", "info"} /\ policy.rules[3].action = "warn"
    BY <1>1 DEF DefaultPolicy, Rule
  <2>2. /\ Decide(policy, "critical") = "block" /\ Decide(policy, "high") = "block"
        /\ Decide(policy, "medium") = "redact"
        /\ Decide(policy, "low") = "warn" /\ Decide(policy, "info") = "warn"
    BY <2>1, FirstRuleDecides
  <2> QED
    BY <2>2 DEF Monotone, Severity, Rank, Strength, Action
<1>2. CASE policy = StrictPolicy
  <2>1. /\ DOMAIN policy.rules = 1..2
        /\ policy.rules[1].severities = {"critical", "high", "medium"}
        /\ policy.rules[1].action = "block"
        /\ policy.rules[2].severities = {"low", "info"} /\ policy.rules[2].action = "warn"
    BY <1>2 DEF StrictPolicy, Rule
  <2>2. /\ Decide(policy, "critical") = "block" /\ Decide(policy, "high") = "block"
        /\ Decide(policy, "medium") = "block"
        /\ Decide(policy, "low") = "warn" /\ Decide(policy, "info") = "warn"
    BY <2>1, FirstRuleDecides
  <2> QED
    BY <2>2 DEF Monotone, Severity, Rank, Strength, Action
<1>3. CASE policy = PermissivePolicy
  <2>1. /\ DOMAIN policy.rules = 1..2 /\ policy.default = "allow"
        /\ policy.rules[1].severities = {"critical"} /\ policy.rules[1].action = "block"
        /\ policy.rules[2].severities = {"high", "medium"} /\ policy.rules[2].action = "warn"
    BY <1>3 DEF PermissivePolicy, Rule
  <2>2. /\ Decide(policy, "critical") = "block" /\ Decide(policy, "high") = "warn"
        /\ Decide(policy, "medium") = "warn"
    BY <2>1, FirstRuleDecides
  <2>3. Decide(policy, "low") = "allow" /\ Decide(policy, "info") = "allow"
    BY <2>1 DEF Decide
  <2> QED
    BY <2>2, <2>3 DEF Monotone, Severity, Rank, Strength, Action
<1> QED
  BY <1>1, <1>2, <1>3
=============================================================================
