--------------------------- MODULE ExecutorProofs ---------------------------
(***************************************************************************)
(* Facts about the policy executor, whichever integration runs it: what its  *)
(* enforcements have to do with the verdicts on the content.                *)
(***************************************************************************)
EXTENDS PolicyExecutor, SeverityPolicyProofs

Works == [at : {"rest", "enforce", "notify", "hand", "done"}, decision : Action \cup {"none"},
          detected : BOOLEAN, result : Result \cup {"none"}]

-----------------------------------------------------------------------------
(* Answers of the guard *)

LEMMA InspectTyped ==
  ASSUME settings \in GuardSettings(SeverityPolicies), NEW a \in InspectAnswers(settings), a.outcome = "returned"
  PROVE  a.decision \in Action /\ a.detected \in BOOLEAN
<1>1. settings.policy \in SeverityPolicies \cup {Custom}
  BY DEF GuardSettings
<1>2. ASSUME NEW detected \in BOOLEAN
      PROVE  Decidable(settings, detected) \subseteq Action
  <2>1. "allow" \in Action
    BY DEF Action
  <2> QED
    BY <1>1, <2>1, DecideTyped DEF Decidable
<1>3. \A d \in Action : UnderMode(settings, d) \in Action
  BY DEF UnderMode, Action
<1>4. ASSUME NEW detected \in BOOLEAN, NEW flawless, a \in PolicyAnswers(settings, detected, flawless)
      PROVE  a.decision \in Action /\ a.detected \in BOOLEAN
  BY <1>2, <1>3, <1>4 DEF PolicyAnswers, Answer
<1>5. ASSUME NEW detected \in BOOLEAN, a = Answer("inspect", "returned", "block", detected, FALSE)
      PROVE  a.decision \in Action /\ a.detected \in BOOLEAN
  BY <1>5 DEF Answer, Action
<1>6. ASSUME NEW outcome, outcome # "returned", NEW detected, NEW flawless
      PROVE  a # Answer("inspect", outcome, "none", detected, flawless)
  BY <1>6 DEF Answer
<1>7. \/ \E detected \in BOOLEAN, flawless \in BOOLEAN :
           a \in PolicyAnswers(settings, detected, flawless)
      \/ \E detected \in BOOLEAN : a = Answer("inspect", "returned", "block", detected, FALSE)
  BY <1>6 DEF InspectAnswers
<1> QED
  BY <1>4, <1>5, <1>7

\* A fail-closed redaction that returns has done all of its work.
LEMMA RedactTyped ==
  ASSUME NEW a \in RedactAnswers(settings), a.outcome = "returned", ~a.flawless
  PROVE  settings.fail # "closed"
BY DEF RedactAnswers, Answer
-----------------------------------------------------------------------------
(* Types *)
\* One enforcement moves on.
LEMMA WorkMoves ==
  ASSUME ExecutorTypeOK, NEW c \in Caller, NEW next \in Works,
         next.at = "done" => next.result \in Result,
         work' = [work EXCEPT ![c] = next], executor' = executor, violations' \in Nat
  PROVE  ExecutorTypeOK'
<1>1. work \in [Caller -> Works]
  BY DEF ExecutorTypeOK, Works
<1>2. work' \in [Caller -> Works]
  BY <1>1
<1>3. \A d \in Caller : work'[d].at = "done" => work'[d].result \in Result
  BY <1>1 DEF ExecutorTypeOK, At
<1> QED
  BY <1>2, <1>3 DEF ExecutorTypeOK, Works, At

LEMMA EnforceTyped ==
  ASSUME ExecutorTypeOK, NEW c \in Caller, EnforceStep(c)
  PROVE  ExecutorTypeOK'
<1>1. work[c] \in Works /\ violations \in Nat
  BY DEF ExecutorTypeOK, Works
<1>2. ASSUME NEW result \in Result, Done(c, result), violations' \in Nat
      PROVE  ExecutorTypeOK'
  <2> DEFINE next == [work[c] EXCEPT !.at = "done", !.result = result]
  <2>1. next \in Works /\ next.result \in Result
    BY <1>1 DEF Works
  <2>2. work' = [work EXCEPT ![c] = next] /\ executor' = executor
    BY <1>2 DEF Done, Step
  <2> HIDE DEF next
  <2> QED
    BY <1>2, <2>1, <2>2, WorkMoves
<1>3. ASSUME NEW label \in {"notify", "hand"}, Step(c, [work[c] EXCEPT !.at = label]),
             violations' \in Nat
      PROVE  ExecutorTypeOK'
  <2> DEFINE next == [work[c] EXCEPT !.at = label]
  <2>1. next \in Works /\ next.at # "done"
    BY <1>1 DEF Works
  <2>2. work' = [work EXCEPT ![c] = next] /\ executor' = executor
    BY <1>3 DEF Step
  <2> HIDE DEF next
  <2> QED
    BY <1>3, <2>1, <2>2, WorkMoves
<1>4. {"passed", "redacted", "tried", "blocked"} \subseteq Result /\ Refusal \in Result
  BY DEF Result, Refusal
<1>5. CASE Passes(c)
  BY <1>1, <1>2, <1>4, <1>5 DEF Passes
<1>6. CASE Redacts(c)
  BY <1>1, <1>2, <1>4, <1>6 DEF Redacts
<1>7. CASE RedactionFails(c)
  BY <1>1, <1>3, <1>7 DEF RedactionFails
<1>8. CASE Stops(c)
  BY <1>1, <1>3, <1>8 DEF Stops
<1>9. CASE Notify(c)
  BY <1>1, <1>2, <1>3, <1>4, <1>9 DEF Notify
<1>10. CASE HandlerReturns(c)
  BY <1>1, <1>2, <1>4, <1>10 DEF HandlerReturns
<1>11. CASE HandlerRaises(c)
  BY <1>1, <1>2, <1>4, <1>11 DEF HandlerRaises
<1> QED
  BY <1>5, <1>6, <1>7, <1>8, <1>9, <1>10, <1>11 DEF EnforceStep

\* Items a hook makes of another.
LEMMA ItemsTyped ==
  /\ Fresh \in Item
  /\ \A item \in Item : [item EXCEPT !.text = "masked"] \in Item
  /\ \A item \in Item : [item EXCEPT !.verdict = "unscanned"] \in Item
  /\ \A item \in Item : \A a : a.decision \in Action => Judged(item, a) \in Item
<1>1. /\ Fresh \in Item
      /\ \A item \in Item : [item EXCEPT !.text = "masked"] \in Item
      /\ \A item \in Item : [item EXCEPT !.verdict = "unscanned"] \in Item
  BY DEF Fresh, Item
<1>2. ASSUME NEW item \in Item, NEW a, a.decision \in Action
      PROVE  Judged(item, a) \in Item
  BY <1>2 DEF Judged, Item, Action
<1> QED
  BY <1>1, <1>2

-----------------------------------------------------------------------------
(* Decisions, verdicts and results *)

\* The verdict that goes with a decision.
Verdict(w) ==
  IF w.decision \in {"allow", "warn"} \/ (w.decision = "redact" /\ ~w.detected)
  THEN "clear" ELSE w.decision

\* An enforcement in progress and the verdict on the content.
Enforces(w, item) ==
  /\ w.decision \in Action /\ item.verdict = Verdict(w)
  /\ w.at \in {"enforce", "notify", "hand"} => w.result = "none"
  /\ w.at = "hand" => w.decision = "quarantine" /\ executor.handler
  /\ w.at = "done" =>
       /\ w.result \in {"passed", "redacted", "tried", "blocked", "violation"}
       /\ w.result = "passed" => item.verdict = "clear"
       /\ w.result \in {"redacted", "tried"} => item.verdict = "redact"
       /\ w.result = "tried" => settings.fail # "closed"
       /\ w.result = "blocked" =>
            ~executor.raises \/ (item.verdict = "quarantine" /\ executor.handler)

\* An enforcement does to the content what the verdict asks for.
LEMMA EnforceFits ==
  ASSUME ExecutorTypeOK, NEW c \in Caller, EnforceStep(c), NEW item, Enforces(work[c], item)
  PROVE  \E w \in Works :
           /\ work' = [work EXCEPT ![c] = w] /\ w.at # "rest" /\ Enforces(w, item)
<1>1. work[c] \in Works
  BY DEF ExecutorTypeOK, Works
<1>2. ASSUME NEW result \in Result, Done(c, result),
             result = "passed" => item.verdict = "clear",
             result \in {"redacted", "tried"} => item.verdict = "redact",
             result = "tried" => settings.fail # "closed",
             result = "blocked" =>
               ~executor.raises \/ (item.verdict = "quarantine" /\ executor.handler)
      PROVE  \E w \in Works :
               /\ work' = [work EXCEPT ![c] = w] /\ w.at # "rest" /\ Enforces(w, item)
  <2> DEFINE w == [work[c] EXCEPT !.at = "done", !.result = result]
  <2>1. /\ w \in Works /\ w.at = "done" /\ w.result = result
        /\ w.decision = work[c].decision /\ w.detected = work[c].detected
    BY <1>1 DEF Works
  <2>2. work' = [work EXCEPT ![c] = w]
    BY <1>2 DEF Done, Step
  <2> HIDE DEF w
  <2>3. Verdict(w) = Verdict(work[c])
    BY <2>1 DEF Verdict
  <2>4. Enforces(w, item)
    BY <1>2, <2>1, <2>3 DEF Enforces, Result
  <2> QED
    BY <2>1, <2>2, <2>4
<1>3. ASSUME NEW label \in {"notify", "hand"}, Step(c, [work[c] EXCEPT !.at = label]),
             work[c].at \in {"enforce", "notify"},
             label = "hand" => work[c].decision = "quarantine" /\ executor.handler
      PROVE  \E w \in Works :
               /\ work' = [work EXCEPT ![c] = w] /\ w.at # "rest" /\ Enforces(w, item)
  <2> DEFINE w == [work[c] EXCEPT !.at = label]
  <2>1. /\ w \in Works /\ w.at = label /\ w.result = work[c].result
        /\ w.decision = work[c].decision /\ w.detected = work[c].detected
    BY <1>1 DEF Works
  <2>2. work' = [work EXCEPT ![c] = w]
    BY <1>3 DEF Step
  <2> HIDE DEF w
  <2>3. Verdict(w) = Verdict(work[c])
    BY <2>1 DEF Verdict
  <2>4. w.at # "rest" /\ w.at # "done" /\ w.result = "none"
    BY <1>3, <2>1 DEF Enforces
  <2>5. Enforces(w, item)
    BY <1>3, <2>1, <2>3, <2>4 DEF Enforces
  <2> QED
    BY <2>1, <2>2, <2>4, <2>5
<1>4. {"passed", "redacted", "tried", "blocked", "violation"} \subseteq Result
      /\ Refusal \in {"violation", "blocked"} /\ (Refusal = "blocked" => ~executor.raises)
  BY DEF Result, Refusal
<1>5. work[c].decision \in Action /\ item.verdict = Verdict(work[c])
  BY DEF Enforces
<1>6. NeedsRedaction(c) => item.verdict = "redact"
  BY <1>1, <1>5 DEF NeedsRedaction, Verdict, Works
<1>7. CASE Passes(c)
  <2>1. item.verdict = "clear"
    BY <1>1, <1>5, <1>7 DEF Passes, NeedsRedaction, Verdict, Action, Works
  <2> QED
    BY <1>2, <1>4, <1>7, <2>1 DEF Passes
<1>8. CASE Redacts(c)
  <2>1. PICK a \in RedactAnswers(settings) :
          a.outcome = "returned" /\ Done(c, IF a.flawless THEN "redacted" ELSE "tried")
    BY <1>8 DEF Redacts
  <2>2. item.verdict = "redact"
    BY <1>6, <1>8 DEF Redacts
  <2>3. CASE a.flawless
    <3>1. Done(c, "redacted")
      BY <2>1, <2>3
    <3> QED
      BY <1>2, <1>4, <2>2, <3>1
  <2>4. CASE ~a.flawless
    <3>1. Done(c, "tried") /\ settings.fail # "closed"
      BY <2>1, <2>4, RedactTyped
    <3> QED
      BY <1>2, <1>4, <2>2, <3>1
  <2> QED
    BY <2>3, <2>4
<1>9. CASE RedactionFails(c)
  BY <1>3, <1>9 DEF RedactionFails, At
<1>10. CASE Stops(c)
  BY <1>3, <1>10 DEF Stops, At
<1>11. CASE Notify(c)
  <2>1. CASE work[c].decision = "quarantine" /\ executor.handler
    BY <1>3, <1>11, <2>1 DEF Notify, At
  <2>2. CASE ~(work[c].decision = "quarantine" /\ executor.handler)
    <3>1. Done(c, Refusal)
      BY <1>11, <2>2 DEF Notify
    <3> HIDE DEF Refusal
    <3> QED
      BY <1>2, <1>4, <3>1
  <2> QED
    BY <2>1, <2>2
<1>12. CASE HandlerReturns(c)
  <2>1. work[c].decision = "quarantine" /\ executor.handler
    BY <1>12 DEF HandlerReturns, At, Enforces
  <2>2. item.verdict = "quarantine"
    BY <1>5, <2>1 DEF Verdict
  <2> QED
    BY <1>2, <1>4, <1>12, <2>1, <2>2 DEF HandlerReturns
<1>13. CASE HandlerRaises(c)
  BY <1>2, <1>4, <1>13 DEF HandlerRaises
<1> QED
  BY <1>7, <1>8, <1>9, <1>10, <1>11, <1>12, <1>13 DEF EnforceStep

\* A verdict is there, and its enforcement begins.
LEMMA EnforcingFits ==
  ASSUME NEW item \in Item, NEW a, a.decision \in Action, a.detected \in BOOLEAN
  PROVE  /\ Enforcing(a.decision, a.detected) \in Works
         /\ Enforcing(a.decision, a.detected).at = "enforce"
         /\ Judged(item, a) \in Item
         /\ Enforces(Enforcing(a.decision, a.detected), Judged(item, a))
<1> DEFINE w == Enforcing(a.decision, a.detected)
<1>1. /\ w \in Works /\ w.at = "enforce" /\ w.result = "none"
      /\ w.decision = a.decision /\ w.detected = a.detected
  BY DEF Enforcing, NoWork, Works
<1>2. Judged(item, a) \in Item
  BY ItemsTyped
<1>3. Judged(item, a).verdict = Verdict(w)
  BY <1>1 DEF Judged, Verdict, Item
<1> HIDE DEF w
<1>4. Enforces(w, Judged(item, a))
  BY <1>1, <1>3 DEF Enforces
<1> QED
  BY <1>1, <1>2, <1>4 DEF w

\* An enforcement that raises nothing was of content that may be used ...
LEMMA EndsUsable ==
  ASSUME NEW w, NEW item, Enforces(w, item), w.at = "done", w.result # "violation"
  PROVE  ~Unusable(item)
BY DEF Enforces, Unusable

\* ... and where guard and executor are strict, of content it has cleared.
LEMMA EndsCleared ==
  ASSUME NEW w, NEW item, Enforces(w, item), w.at = "done", w.result # "violation", Strict
  PROVE  \/ w.result = "passed" /\ item.verdict = "clear"
         \/ w.result = "redacted" /\ item.verdict = "redact"
<1>1. executor.raises /\ ~executor.handler /\ settings.fail = "closed"
  BY DEF Strict
<1> QED
  BY <1>1 DEF Enforces
=============================================================================
