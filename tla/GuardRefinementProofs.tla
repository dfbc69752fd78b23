------------------------ MODULE GuardRefinementProofs ------------------------
(***************************************************************************)
(* The guard implements what its callers rely on (GuardService), for every   *)
(* set of detectors, names, callers, managing threads, policies and          *)
(* settings.                                                                *)
(***************************************************************************)
EXTENDS GuardProofs

\* What the callers see of a call: the refinement mapping of AgentGuard.
Shown(now) ==
  [op |-> now.op,
   outcome |-> IF now.pc = "over" THEN now.outcome ELSE "waiting",
   decision |-> IF now.pc = "over" THEN now.decision ELSE "none",
   detected |-> now.pc = "over" /\ now.results # <<>>,
   flawless |-> now.pc = "over" => now.errors = <<>>]

\* What a policy may have decided of these results, and the mode made of it.
Decided(results) ==
  {UnderMode(settings, d) : d \in
     IF settings.policy = Custom THEN Action
     ELSE {"allow"}
          \cup (IF results # <<>> THEN {Decide(settings.policy, l) : l \in Severity} ELSE {})}

Answers(op) ==
  IF op = "inspect" THEN Service!InspectAnswers(settings) ELSE Service!RedactAnswers(settings)
-----------------------------------------------------------------------------
(* Severities *)

LEMMA ResultLevel ==
  ASSUME NEW r \in Result
  PROVE  HighestResultSeverity(r) \in Severity \cup {"none", "ValueError"}
<1> DEFINE candidates == r.matches \cup ({r.model} \cap Severity)
<1>1. CASE "invalid" \in r.matches
  BY <1>1 DEF HighestResultSeverity
<1>2. CASE "invalid" \notin r.matches /\ candidates = {}
  BY <1>2 DEF HighestResultSeverity
<1>3. CASE "invalid" \notin r.matches /\ candidates # {}
  <2>1. candidates \in SUBSET Severity
    BY <1>3 DEF Result, Label
  <2>2. Highest(candidates) \in Severity
    BY <1>3, <2>1, HighestIsOne
  <2> QED
    BY <1>3, <2>2 DEF HighestResultSeverity
<1> QED
  BY <1>1, <1>2, <1>3

\* A severity policy decides by a severity that was reported, or allows.
LEMMA EvaluateDecided ==
  ASSUME NEW results \in Seq(Result), NEW policy, Evaluate(policy, results) # "ValueError"
  PROVE  Evaluate(policy, results) \in
           {"allow"} \cup (IF results # <<>> THEN {Decide(policy, l) : l \in Severity} ELSE {})
<1> DEFINE levels == {HighestResultSeverity(results[i]) : i \in DOMAIN results}
<1>1. levels \subseteq Severity \cup {"none", "ValueError"}
  <2>1. \A i \in DOMAIN results : results[i] \in Result
    BY LenProperties, ElementOfSeq
  <2> QED
    BY <2>1, ResultLevel
<1>2. results = <<>> => levels = {}
  OBVIOUS
<1>3. CASE "ValueError" \in levels
  BY <1>3 DEF Evaluate, HighestResultsSeverity
<1>4. CASE "ValueError" \notin levels /\ levels \subseteq {"none"}
  <2>1. HighestResultsSeverity(results) = "none"
    BY <1>4 DEF HighestResultsSeverity
  <2> QED
    BY <2>1 DEF Evaluate
<1>5. CASE "ValueError" \notin levels /\ ~(levels \subseteq {"none"})
  <2>1. levels \ {"none"} \in SUBSET Severity /\ levels \ {"none"} # {}
    BY <1>1, <1>5
  <2>2. Highest(levels \ {"none"}) \in Severity
    BY <2>1, HighestIsOne
  <2>3. HighestResultsSeverity(results) = Highest(levels \ {"none"})
    BY <1>5 DEF HighestResultsSeverity
  <2>4. HighestResultsSeverity(results) \in Severity
    BY <2>2, <2>3
  <2>5. Evaluate(policy, results) = Decide(policy, HighestResultsSeverity(results))
    BY <2>4 DEF Evaluate, Severity
  <2>6. results # <<>>
    BY <1>2, <1>5
  <2> QED
    BY <2>4, <2>5, <2>6
<1> QED
  BY <1>3, <1>4, <1>5
-----------------------------------------------------------------------------
(* The answers *)

LEMMA AnswerReturned ==
  ASSUME NEW results, NEW decision \in Decided(results),
         NEW flawless \in BOOLEAN, FailClosed => flawless, settings \in AllSettings
  PROVE  [op |-> "inspect", outcome |-> "returned", decision |-> decision,
          detected |-> results # <<>>, flawless |-> flawless] \in Answers("inspect")
<1> DEFINE detected == results # <<>>
<1>1. decision \in {Service!UnderMode(settings, d) : d \in Service!Decidable(settings, detected)}
  BY DEF Decided, Service!Decidable, Service!UnderMode, UnderMode, Service!Decide, Decide,
     Service!Severity, Severity, Service!Custom, Custom, Service!Action, Action
<1>2. detected \in BOOLEAN
  OBVIOUS
<1> HIDE DEF detected
<1>3. Service!Answer("inspect", "returned", decision, detected, flawless)
        \in Service!PolicyAnswers(settings, detected, flawless)
  BY <1>1 DEF Service!PolicyAnswers
<1>4. ASSUME NEW t \in BOOLEAN, NEW u \in BOOLEAN, FailClosed => u
      PROVE  Service!PolicyAnswers(settings, t, u) \subseteq Service!InspectAnswers(settings)
  <2>1. CASE u = TRUE
    BY <2>1 DEF Service!InspectAnswers
  <2>2. CASE u = FALSE
    BY <1>4, <2>2 DEF Service!InspectAnswers, FailClosed
  <2> QED
    BY <2>1, <2>2
<1> QED
  BY <1>2, <1>3, <1>4 DEF Answers, Service!Answer, detected

\* The other answers of an inspection.
LEMMA AnswerOtherwise ==
  ASSUME NEW detected \in BOOLEAN, NEW flawless \in BOOLEAN, FailClosed => flawless
  PROVE  /\ FailClosed =>
              /\ [op |-> "inspect", outcome |-> "returned", decision |-> "block",
                  detected |-> detected, flawless |-> FALSE] \in Answers("inspect")
              /\ [op |-> "inspect", outcome |-> "PolicyEvaluationError", decision |-> "none",
                  detected |-> detected, flawless |-> TRUE] \in Answers("inspect")
         /\ [op |-> "inspect", outcome |-> "ValueError", decision |-> "none",
             detected |-> TRUE, flawless |-> flawless] \in Answers("inspect")
<1>1. CASE FailClosed
  <2>1. flawless = TRUE
    BY <1>1
  <2> QED
    BY <1>1, <2>1 DEF Answers, Service!InspectAnswers, Service!Answer, FailClosed
<1>2. CASE ~FailClosed
  <2>1. CASE flawless = TRUE
    BY <1>2, <2>1 DEF Answers, Service!InspectAnswers, Service!Answer, FailClosed
  <2>2. CASE flawless = FALSE
    BY <1>2, <2>2 DEF Answers, Service!InspectAnswers, Service!Answer, FailClosed
  <2> QED
    BY <2>1, <2>2
<1> QED
  BY <1>1, <1>2

LEMMA AnswerRedaction ==
  ASSUME NEW flawless \in BOOLEAN
  PROVE  /\ (FailClosed => flawless) =>
              [op |-> "redact", outcome |-> "returned", decision |-> "none",
               detected |-> FALSE, flawless |-> flawless] \in Answers("redact")
         /\ FailClosed =>
              [op |-> "redact", outcome |-> "RedactionError", decision |-> "none",
               detected |-> FALSE, flawless |-> FALSE] \in Answers("redact")
<1>1. CASE flawless = TRUE
  BY <1>1 DEF Answers, Service!RedactAnswers, Service!Answer, FailClosed
<1>2. CASE flawless = FALSE
  BY <1>2 DEF Answers, Service!RedactAnswers, Service!Answer, FailClosed
<1> QED
  BY <1>1, <1>2
-----------------------------------------------------------------------------
(* Under way to an answer *)

\* A call under way can only end with an answer it may give: what its place, its
\* errors and its results allow for.
Answering(now) ==
  /\ now.op = "redact" => now.results = <<>>
  /\ now.pc # "over" => now.op \in {"inspect", "redact"}
  /\ now.pc \in {"report", "policy", "decided"} => now.op = "inspect"
  /\ FailClosed /\ now.pc # "over" /\ now.errors # <<>> =>
       \/ now.op = "inspect" /\ now.pc \in {"scan", "run", "report"}
       \/ now.pc \in {"emit", "notify"} /\ now.op = "inspect" /\ now.after = "block"
       \/ now.pc \in {"emit", "notify"} /\ now.op = "redact" /\ now.after = "raise"
  /\ now.pc = "decided" => now.decision \in Decided(now.results)
  /\ now.pc \in {"emit", "notify"} =>
       /\ now.after \in IF now.op = "inspect"
                         THEN {"policy", "block", "allow", "raise", "ValueError", "return"}
                         ELSE {"scan", "raise"}
       /\ now.after \in {"block", "raise"} => FailClosed
       /\ now.after = "block" => now.errors # <<>>
       /\ now.after = "raise" /\ now.op = "redact" => now.errors # <<>>
       /\ now.after = "ValueError" => now.results # <<>>
       /\ now.after = "return" => now.decision \in Decided(now.results)

AnswerInv == \A c \in Caller : Answering(call[c])

\* A step of a call: it stays under way, or it is answered.
Serves(now, next) ==
  /\ now.pc # "over"
  /\ next.op = now.op
  /\ Answering(next)
  /\ next.pc = "over" => Shown(next) \in Answers(next.op)

\* A step that only goes on with the loop, or decides.
LEMMA LoopServes ==
  ASSUME NEW now, NEW next, Answering(now), now.pc \in {"scan", "run"},
         next.pc \in {"scan", "run"}, next.op = now.op, next.results = now.results,
         next.errors = now.errors
  PROVE  Serves(now, next)
BY DEF Serves, Answering

LEMMA ScanServes ==
  ASSUME TypeInv, AnswerInv, NEW c \in Caller,
         NextDetector(c) \/ EndOfDetectors(c) \/ SkipDisabled(c) \/ NotSelected(c)
  PROVE  \E next : Progress(c, next) /\ Serves(call[c], next)
<1>0. call[c] \in Call /\ Answering(call[c])
  BY DEF TypeInv, Sound, AnswerInv
<1>1. CASE NextDetector(c)
  <2> DEFINE next == [call[c] EXCEPT !.pc = "run", !.current = detectors[call[c].cursor],
                                     !.cursor = @ + 1]
  <2>1. Progress(c, next) /\ call[c].pc = "scan"
    BY <1>1 DEF NextDetector
  <2>2. /\ next.pc = "run" /\ next.op = call[c].op /\ next.results = call[c].results
        /\ next.errors = call[c].errors
    BY <1>0 DEF Call
  <2> HIDE DEF next
  <2> QED
    BY <1>0, <2>1, <2>2, LoopServes
<1>2. CASE EndOfDetectors(c) /\ call[c].op = "inspect"
  <2> DEFINE next == [call[c] EXCEPT !.pc = "report"]
  <2>1. Progress(c, next) /\ call[c].pc = "scan"
    BY <1>2 DEF EndOfDetectors
  <2>2. /\ next.pc = "report" /\ next.op = call[c].op /\ next.results = call[c].results
        /\ next.errors = call[c].errors
    BY <1>0 DEF Call
  <2> HIDE DEF next
  <2>3. Serves(call[c], next)
    BY <1>0, <1>2, <2>1, <2>2 DEF Serves, Answering
  <2> QED
    BY <2>1, <2>3
<1>3. CASE EndOfDetectors(c) /\ call[c].op # "inspect"
  <2> DEFINE next == Ended(call[c], "returned", "none")
  <2>1. Progress(c, next) /\ call[c].pc = "scan" /\ call[c].op = "redact"
    BY <1>0, <1>3 DEF EndOfDetectors, Answering
  <2>2. /\ next.pc = "over" /\ next.op = call[c].op /\ next.results = call[c].results
        /\ next.errors = call[c].errors /\ next.outcome = "returned"
        /\ next.decision = "none"
    BY <1>0 DEF Ended, Call
  <2> HIDE DEF next
  <2>3. Shown(next) = [op |-> "redact", outcome |-> "returned", decision |-> "none",
                       detected |-> FALSE, flawless |-> (call[c].errors = <<>>)]
    BY <1>0, <2>1, <2>2 DEF Shown, Answering
  <2>4. FailClosed => call[c].errors = <<>>
    BY <1>0, <2>1 DEF Answering
  <2>5. (call[c].errors = <<>>) \in BOOLEAN
    OBVIOUS
  <2>6. Shown(next) \in Answers("redact")
    BY <2>3, <2>4, <2>5, AnswerRedaction
  <2>7. Serves(call[c], next)
    BY <1>0, <2>1, <2>2, <2>6 DEF Serves, Answering
  <2> QED
    BY <2>1, <2>7
<1>4. CASE SkipDisabled(c) \/ NotSelected(c)
  <2> DEFINE next == [call[c] EXCEPT !.pc = "scan", !.current = NoDetector]
  <2>1. Progress(c, next) /\ call[c].pc = "run"
    BY <1>4 DEF SkipDisabled, NotSelected, Up
  <2>2. /\ next.pc = "scan" /\ next.op = call[c].op /\ next.results = call[c].results
        /\ next.errors = call[c].errors
    BY <1>0 DEF Call
  <2> HIDE DEF next
  <2> QED
    BY <1>0, <2>1, <2>2, LoopServes
<1> QED
  BY <1>1, <1>2, <1>3, <1>4

LEMMA RunServes ==
  ASSUME TypeInv, AnswerInv, NEW c \in Caller,
         NoMatch(c) \/ Matches(c) \/ DetectorFails(c) \/ Redacts(c) \/ RedactionFails(c)
  PROVE  \E next : Progress(c, next) /\ Serves(call[c], next)
<1>0. call[c] \in Call /\ Answering(call[c]) /\ call[c].pc = "run"
  BY DEF TypeInv, Sound, AnswerInv, NoMatch, Matches, DetectorFails, Redacts, RedactionFails, Up
<1>1. ASSUME NEW label \in {"scan", "report", "emit"}
      PROVE  /\ Ran(c, label) \in Call /\ Ran(c, label).pc = label
             /\ Ran(c, label).op = call[c].op /\ Ran(c, label).results = call[c].results
             /\ Ran(c, label).errors = call[c].errors
  <2>1. Ran(c, label) \in Call /\ Ran(c, label).pc = label
    BY <1>0, RanSound DEF Sound
  <2>2. /\ Ran(c, label).op = call[c].op /\ Ran(c, label).results = call[c].results
        /\ Ran(c, label).errors = call[c].errors
    BY <1>0 DEF Ran, Call
  <2> QED
    BY <2>1, <2>2
<1>2. CASE NoMatch(c) \/ Redacts(c)
  <2>1. Progress(c, Ran(c, "scan"))
    BY <1>2 DEF NoMatch, Redacts
  <2> QED
    BY <1>0, <1>1, <2>1, LoopServes
<1> DEFINE label == IF FailFast THEN "report" ELSE "scan"
<1>3. label \in {"report", "scan"}
  OBVIOUS
<1>4. CASE Matches(c)
  <2>1. PICK f \in Finding :
          Progress(c, [Ran(c, label) EXCEPT
                         !.results = Append(@, [detector |-> NameOf[call[c].current],
                                                matches |-> f.matches, model |-> f.model])])
    BY <1>4 DEF Matches
  <2> DEFINE next == [Ran(c, label) EXCEPT
                        !.results = Append(@, [detector |-> NameOf[call[c].current],
                                               matches |-> f.matches, model |-> f.model])]
  <2>2. call[c].op = "inspect"
    BY <1>4 DEF Matches, Up
  <2> HIDE DEF label
  <2>3. /\ next.pc = label /\ next.op = "inspect" /\ next.errors = call[c].errors
    BY <1>1, <1>3, <2>2 DEF Call
  <2>4. Progress(c, next)
    BY <2>1
  <2> HIDE DEF next
  <2>5. Serves(call[c], next)
    BY <1>0, <1>3, <2>2, <2>3 DEF Serves, Answering
  <2> QED
    BY <2>4, <2>5
<1>5. CASE DetectorFails(c)
  <2> DEFINE next == [Ran(c, label) EXCEPT !.errors = Append(@, call[c].current)]
  <2>1. Progress(c, next) /\ call[c].op = "inspect"
    BY <1>5 DEF DetectorFails, Up
  <2> HIDE DEF label
  <2>2. next.pc = label /\ next.op = "inspect"
    BY <1>1, <1>3, <2>1 DEF Call
  <2> HIDE DEF next
  <2>3. Serves(call[c], next)
    BY <1>0, <1>3, <2>1, <2>2 DEF Serves, Answering
  <2> QED
    BY <2>1, <2>3
<1>6. CASE RedactionFails(c)
  <2> DEFINE pending == <<Event("system_failure", FailAction, NameOf[call[c].current])>>
             after == IF FailClosed THEN "raise" ELSE "scan"
             next == [Ran(c, "emit") EXCEPT !.errors = Append(@, call[c].current),
                                            !.pending = pending, !.after = after]
  <2>1. Progress(c, next) /\ call[c].op = "redact"
    BY <1>6 DEF RedactionFails, Up
  <2>2. after \in {"raise", "scan"} /\ (after = "raise" <=> FailClosed)
    OBVIOUS
  <2> HIDE DEF pending, after
  <2>3. /\ next.pc = "emit" /\ next.op = "redact" /\ next.results = call[c].results
        /\ next.errors = Append(call[c].errors, call[c].current) /\ next.after = after
    BY <1>1, <2>1 DEF Call
  <2>4. next.errors # <<>>
    <3>1. call[c].errors \in Seq(Detector) /\ call[c].current \in Detector
      BY <1>0 DEF Call, TypeInv, Sound
    <3> QED
      BY <2>3, <3>1, AppendProperties
  <2> HIDE DEF next
  <2>5. Serves(call[c], next)
    BY <1>0, <2>1, <2>2, <2>3, <2>4 DEF Serves, Answering
  <2> QED
    BY <2>1, <2>5
<1> QED
  BY <1>2, <1>4, <1>5, <1>6

\* The policy's verdict, as the mode leaves it, is one of those it may give.
LEMMA VerdictDecided ==
  ASSUME TypeInv, NEW c \in Caller, NEW action \in Verdicts(c) \cap Action
  PROVE  UnderMode(settings, action) \in Decided(call[c].results)
<1>1. call[c].results \in Seq(Result)
  BY DEF TypeInv, Sound, Call, Result
<1>2. CASE settings.policy = Custom
  BY <1>2 DEF Decided
<1>3. CASE settings.policy # Custom
  <2>1. action = Evaluate(settings.policy, call[c].results) /\ action # "ValueError"
    BY <1>3 DEF Verdicts, Action
  <2>2. action \in {"allow"} \cup (IF call[c].results # <<>>
                                  THEN {Decide(settings.policy, l) : l \in Severity} ELSE {})
    BY <1>1, <2>1, EvaluateDecided
  <2> QED
    BY <1>3, <2>2 DEF Decided
<1> QED
  BY <1>2, <1>3

\* ALLOW is always one of them: a fail-open guard's answer to a failing policy.
LEMMA AllowDecided ==
  ASSUME NEW results
  PROVE  "allow" \in Decided(results)
<1>1. UnderMode(settings, "allow") = "allow" /\ "allow" \in Action
  BY DEF UnderMode, Action
<1> QED
  BY <1>1 DEF Decided

LEMMA DecisionServes ==
  ASSUME TypeInv, AnswerInv, NEW c \in Caller,
         ReportErrors(c) \/ PolicyDecides(c) \/ PolicyFails(c) \/ EmitDetections(c)
  PROVE  \E next : Progress(c, next) /\ Serves(call[c], next)
<1>0. /\ call[c] \in Call /\ Answering(call[c])
      /\ call[c].pc \in {"report", "policy", "decided"} /\ call[c].op = "inspect"
  BY DEF TypeInv, Sound, AnswerInv, Answering, ReportErrors, PolicyDecides, PolicyFails,
     EmitDetections
<1>1. ASSUME NEW pending, NEW after,
             Progress(c, [call[c] EXCEPT !.pc = "emit", !.pending = pending, !.after = after]),
             after \in {"policy", "block", "allow", "raise", "ValueError", "return"},
             after \in {"block", "raise"} => FailClosed,
             FailClosed /\ call[c].errors # <<>> => after = "block",
             after = "block" => call[c].errors # <<>>,
             after = "ValueError" => call[c].results # <<>>,
             after = "return" => call[c].decision \in Decided(call[c].results)
      PROVE  \E next : Progress(c, next) /\ Serves(call[c], next)
  <2> DEFINE next == [call[c] EXCEPT !.pc = "emit", !.pending = pending, !.after = after]
  <2>1. Progress(c, next)
    BY <1>1
  <2>2. /\ next.pc = "emit" /\ next.op = "inspect" /\ next.results = call[c].results
        /\ next.errors = call[c].errors /\ next.after = after
        /\ next.decision = call[c].decision
    BY <1>0 DEF Call
  <2> HIDE DEF next
  <2>3. Serves(call[c], next)
    BY <1>0, <1>1, <2>2 DEF Serves, Answering
  <2> QED
    BY <2>1, <2>3
<1>2. CASE ReportErrors(c)
  <2> DEFINE pending == [i \in DOMAIN call[c].errors |->
                           Event("system_failure", FailAction, NameOf[call[c].errors[i]])]
             after == IF FailClosed /\ call[c].errors # <<>> THEN "block" ELSE "policy"
  <2>1. /\ Progress(c, [call[c] EXCEPT !.pc = "emit", !.pending = pending, !.after = after])
        /\ after \in {"policy", "block"}
        /\ after = "block" <=> FailClosed /\ call[c].errors # <<>>
    BY <1>2 DEF ReportErrors
  <2> HIDE DEF pending, after
  <2> QED
    BY <1>1, <2>1
<1>3. ASSUME call[c].pc \in {"policy", "decided"}
      PROVE  FailClosed => call[c].errors = <<>>
  BY <1>0, <1>3 DEF Answering
<1>4. CASE PolicyDecides(c)
  <2>1. PICK action \in Verdicts(c) \cap Action :
          Progress(c, [call[c] EXCEPT !.pc = "decided", !.decision = UnderMode(settings, action)])
    BY <1>4 DEF PolicyDecides
  <2> DEFINE decision == UnderMode(settings, action)
             next == [call[c] EXCEPT !.pc = "decided", !.decision = decision]
  <2>2. decision \in Decided(call[c].results)
    BY VerdictDecided
  <2>3. call[c].pc = "policy" /\ Progress(c, next)
    BY <1>4, <2>1 DEF PolicyDecides
  <2> HIDE DEF decision
  <2>4. /\ next.pc = "decided" /\ next.op = "inspect" /\ next.results = call[c].results
        /\ next.errors = call[c].errors /\ next.decision = decision
    BY <1>0 DEF Call
  <2> HIDE DEF next
  <2>5. Serves(call[c], next)
    BY <1>0, <1>3, <2>2, <2>3, <2>4 DEF Serves, Answering
  <2> QED
    BY <2>3, <2>5
<1>5. CASE PolicyFails(c)
  <2> DEFINE pending == <<Event("policy_failure", FailAction, "policy")>>
             after == IF FailClosed THEN "raise" ELSE "allow"
  <2>1. /\ Progress(c, [call[c] EXCEPT !.pc = "emit", !.pending = pending, !.after = after])
        /\ after \in {"raise", "allow"} /\ (after = "raise" <=> FailClosed)
        /\ call[c].pc = "policy"
    BY <1>5 DEF PolicyFails
  <2> HIDE DEF pending, after
  <2> QED
    BY <1>1, <1>3, <2>1
<1>6. CASE EmitDetections(c)
  <2> DEFINE results == call[c].results
             bad == {i \in DOMAIN results : HighestResultSeverity(results[i]) = "ValueError"}
             sound == IF bad = {} THEN results
                      ELSE SubSeq(results, 1, (CHOOSE i \in bad : \A j \in bad : i <= j) - 1)
             pending == IF call[c].emit
                        THEN [i \in DOMAIN sound |->
                               Event("detection", call[c].decision, sound[i].detector)]
                        ELSE <<>>
             after == IF call[c].emit /\ bad # {} THEN "ValueError" ELSE "return"
  <2>1. /\ Progress(c, [call[c] EXCEPT !.pc = "emit", !.pending = pending, !.after = after])
        /\ after \in {"ValueError", "return"} /\ call[c].pc = "decided"
    BY <1>6 DEF EmitDetections
  <2>2. call[c].results = <<>> => bad = {}
    OBVIOUS
  <2>3. after = "ValueError" => call[c].results # <<>>
    BY <2>2
  <2>4. call[c].decision \in Decided(call[c].results)
    BY <1>0, <2>1 DEF Answering
  <2> HIDE DEF pending, after
  <2> QED
    BY <1>1, <1>3, <2>1, <2>3, <2>4
<1> QED
  BY <1>2, <1>4, <1>5, <1>6

\* Telling of the events is no progress to an answer, and no obstacle.
LEMMA TellServes ==
  ASSUME NEW now, NEW next, Answering(now), now.pc \in {"emit", "notify"},
         next.pc \in {"emit", "notify"}, next.op = now.op, next.results = now.results,
         next.errors = now.errors, next.after = now.after, next.decision = now.decision
  PROVE  Serves(now, next)
BY DEF Serves, Answering

LEMMA GivenServes ==
  ASSUME TypeInv, AnswerInv, NEW c \in Caller, call[c].pc = "notify",
         call[c].listener < callbacks
  PROVE  /\ Given(c) \in Call /\ Given(c).pc = "notify" /\ Given(c).op = call[c].op
         /\ Given(c).results = call[c].results /\ Given(c).errors = call[c].errors
         /\ Given(c).after = call[c].after /\ Given(c).decision = call[c].decision
<1>1. call[c] \in Call /\ Given(c) \in Call /\ Given(c).pc = "notify"
  BY GivenSound DEF TypeInv, Sound
<1>2. /\ Given(c).op = call[c].op
      /\ Given(c).results = call[c].results /\ Given(c).errors = call[c].errors
      /\ Given(c).after = call[c].after /\ Given(c).decision = call[c].decision
  BY <1>1 DEF Given, Call
<1> QED
  BY <1>1, <1>2

LEMMA NotifyServes ==
  ASSUME TypeInv, AnswerInv, NEW c \in Caller,
         EmitEvent(c) \/ CallbackReturns(c) \/ CallbackRaises(c) \/ EventDone(c)
  PROVE  \E next : Progress(c, next) /\ Serves(call[c], next)
<1>0. call[c] \in Call /\ Answering(call[c])
  BY DEF TypeInv, Sound, AnswerInv
<1>1. CASE EmitEvent(c)
  <2> DEFINE next == [call[c] EXCEPT !.pc = "notify",
                                     !.trail = Append(@, Head(call[c].pending)), !.listener = 0]
  <2>1. Progress(c, next) /\ call[c].pc = "emit"
    BY <1>1 DEF EmitEvent
  <2>2. /\ next.pc = "notify" /\ next.op = call[c].op /\ next.results = call[c].results
        /\ next.errors = call[c].errors /\ next.after = call[c].after
        /\ next.decision = call[c].decision
    BY <1>0 DEF Call
  <2> HIDE DEF next
  <2> QED
    BY <1>0, <2>1, <2>2, TellServes
<1>2. CASE CallbackReturns(c)
  <2>1. Progress(c, Given(c)) /\ call[c].pc = "notify" /\ call[c].listener < callbacks
    BY <1>2 DEF CallbackReturns
  <2> QED
    BY <1>0, <2>1, GivenServes, TellServes
<1>3. CASE CallbackRaises(c)
  <2> DEFINE e == Event("callback_failure", "warn", "callback")
             next == [Given(c) EXCEPT !.trail = Append(@, e)]
  <2>1. Progress(c, next) /\ call[c].pc = "notify" /\ call[c].listener < callbacks
    BY <1>3 DEF CallbackRaises
  <2> HIDE DEF e
  <2>2. Given(c) \in Call
    BY <2>1, GivenServes
  <2>3. /\ next.pc = Given(c).pc /\ next.op = Given(c).op
        /\ next.results = Given(c).results /\ next.errors = Given(c).errors
        /\ next.after = Given(c).after /\ next.decision = Given(c).decision
    BY <2>2 DEF Call
  <2> HIDE DEF next
  <2>4. /\ next.pc = "notify" /\ next.op = call[c].op
        /\ next.results = call[c].results /\ next.errors = call[c].errors
        /\ next.after = call[c].after /\ next.decision = call[c].decision
    BY <2>1, <2>3, GivenServes
  <2> QED
    BY <1>0, <2>1, <2>4, TellServes
<1>4. CASE EventDone(c)
  <2> DEFINE next == [call[c] EXCEPT !.pc = "emit", !.pending = Tail(@), !.listener = 0]
  <2>1. Progress(c, next) /\ call[c].pc = "notify"
    BY <1>4 DEF EventDone
  <2>2. /\ next.pc = "emit" /\ next.op = call[c].op /\ next.results = call[c].results
        /\ next.errors = call[c].errors /\ next.after = call[c].after
        /\ next.decision = call[c].decision
    BY <1>0 DEF Call
  <2> HIDE DEF next
  <2> QED
    BY <1>0, <2>1, <2>2, TellServes
<1> QED
  BY <1>1, <1>2, <1>3, <1>4

LEMMA EndServes ==
  ASSUME TypeInv, AnswerInv, NEW c \in Caller, EndStep(c)
  PROVE  \E next : Progress(c, next) /\ Serves(call[c], next)
<1>0. /\ call[c] \in Call /\ Answering(call[c]) /\ call[c].pc = "emit"
      /\ call[c].op \in {"inspect", "redact"} /\ settings \in AllSettings
  BY DEF TypeInv, TypeOK, Sound, AnswerInv, Answering, EndStep, GoOn, BlockOnError,
     AllowOnPolicyError, RaiseOnError, RaiseValueError, Return, EventsOut
<1>1. ASSUME NEW outcome, NEW decision
      PROVE  /\ Ended(call[c], outcome, decision).pc = "over"
             /\ Ended(call[c], outcome, decision).op = call[c].op
             /\ Ended(call[c], outcome, decision).results = call[c].results
             /\ Ended(call[c], outcome, decision).errors = call[c].errors
             /\ Ended(call[c], outcome, decision).outcome = outcome
             /\ Ended(call[c], outcome, decision).decision = decision
  BY <1>0 DEF Ended, Call
<1>2. ASSUME NEW outcome, NEW decision, Progress(c, Ended(call[c], outcome, decision)),
             [op |-> call[c].op, outcome |-> outcome, decision |-> decision,
              detected |-> call[c].results # <<>>, flawless |-> call[c].errors = <<>>]
               \in Answers(call[c].op)
      PROVE  \E next : Progress(c, next) /\ Serves(call[c], next)
  <2> DEFINE next == Ended(call[c], outcome, decision)
  <2>1. Progress(c, next)
    BY <1>2
  <2>2. /\ next.pc = "over" /\ next.op = call[c].op /\ next.results = call[c].results
        /\ next.errors = call[c].errors /\ next.outcome = outcome /\ next.decision = decision
    BY <1>1
  <2> HIDE DEF next
  <2>3. Shown(next) = [op |-> call[c].op, outcome |-> outcome, decision |-> decision,
                       detected |-> call[c].results # <<>>, flawless |-> call[c].errors = <<>>]
    BY <2>2 DEF Shown
  <2>4. Serves(call[c], next)
    BY <1>0, <1>2, <2>2, <2>3 DEF Serves, Answering
  <2> QED
    BY <2>1, <2>4
<1>3. CASE GoOn(c)
  <2> DEFINE next == [call[c] EXCEPT !.pc = call[c].after, !.after = "none"]
  <2>1. Progress(c, next) /\ call[c].after \in {"policy", "scan"}
    BY <1>3 DEF GoOn, EventsOut
  <2>2. /\ next.pc = call[c].after /\ next.op = call[c].op /\ next.results = call[c].results
        /\ next.errors = call[c].errors
    BY <1>0 DEF Call
  <2> HIDE DEF next
  <2>3. Serves(call[c], next)
    BY <1>0, <2>1, <2>2 DEF Serves, Answering
  <2> QED
    BY <2>1, <2>3
<1>4. CASE BlockOnError(c)
  <2>1. call[c].after = "block"
    BY <1>4 DEF BlockOnError, EventsOut
  <2>2. call[c].op = "inspect" /\ FailClosed /\ call[c].errors # <<>>
    BY <1>0, <2>1 DEF Answering
  <2>3. [op |-> "inspect", outcome |-> "returned", decision |-> "block",
         detected |-> call[c].results # <<>>, flawless |-> FALSE] \in Answers("inspect")
    BY <2>2, AnswerOtherwise
  <2>4. Progress(c, Ended(call[c], "returned", "block"))
    BY <1>4 DEF BlockOnError, Finish
  <2> QED
    BY <1>2, <2>2, <2>3, <2>4
<1>5. CASE AllowOnPolicyError(c)
  <2> DEFINE next == [call[c] EXCEPT !.pc = "decided", !.after = "none", !.decision = "allow"]
  <2>1. Progress(c, next) /\ call[c].after = "allow"
    BY <1>5 DEF AllowOnPolicyError, EventsOut
  <2>2. /\ next.pc = "decided" /\ next.op = call[c].op /\ next.results = call[c].results
        /\ next.errors = call[c].errors /\ next.decision = "allow"
    BY <1>0 DEF Call
  <2> HIDE DEF next
  <2>3. Serves(call[c], next)
    BY <1>0, <2>1, <2>2, AllowDecided DEF Serves, Answering
  <2> QED
    BY <2>1, <2>3
<1>6. CASE RaiseOnError(c) /\ call[c].op = "inspect"
  <2>1. call[c].after = "raise" /\ Progress(c, Ended(call[c], "PolicyEvaluationError", "none"))
    BY <1>6 DEF RaiseOnError, EventsOut, Finish
  <2>2. FailClosed /\ call[c].errors = <<>>
    BY <1>0, <1>6, <2>1 DEF Answering
  <2>3. [op |-> "inspect", outcome |-> "PolicyEvaluationError", decision |-> "none",
         detected |-> call[c].results # <<>>, flawless |-> TRUE] \in Answers("inspect")
    BY <2>2, AnswerOtherwise
  <2> QED
    BY <1>2, <1>6, <2>1, <2>2, <2>3
<1>7. CASE RaiseOnError(c) /\ call[c].op = "redact"
  <2>1. call[c].after = "raise" /\ Progress(c, Ended(call[c], "RedactionError", "none"))
    BY <1>7 DEF RaiseOnError, EventsOut, Finish
  <2>2. FailClosed /\ call[c].errors # <<>> /\ call[c].results = <<>>
    BY <1>0, <1>7, <2>1 DEF Answering
  <2>3. [op |-> "redact", outcome |-> "RedactionError", decision |-> "none",
         detected |-> FALSE, flawless |-> FALSE] \in Answers("redact")
    BY <2>2, AnswerRedaction
  <2> QED
    BY <1>2, <1>7, <2>1, <2>2, <2>3
<1>8. ASSUME call[c].op = "inspect", call[c].after \in {"ValueError", "return"}
      PROVE  FailClosed => call[c].errors = <<>>
  BY <1>0, <1>8 DEF Answering
<1>9. CASE RaiseValueError(c)
  <2>1. call[c].after = "ValueError" /\ Progress(c, Ended(call[c], "ValueError", "none"))
    BY <1>9 DEF RaiseValueError, EventsOut, Finish
  <2>2. call[c].op = "inspect" /\ call[c].results # <<>>
    BY <1>0, <2>1 DEF Answering
  <2>3. [op |-> "inspect", outcome |-> "ValueError", decision |-> "none",
         detected |-> TRUE, flawless |-> call[c].errors = <<>>] \in Answers("inspect")
    BY <1>8, <2>1, <2>2, AnswerOtherwise
  <2> QED
    BY <1>2, <2>1, <2>2, <2>3
<1>10. CASE Return(c)
  <2>1. call[c].after = "return" /\ Progress(c, Ended(call[c], "returned", call[c].decision))
    BY <1>10 DEF Return, EventsOut, Finish
  <2>2. call[c].op = "inspect" /\ call[c].decision \in Decided(call[c].results)
    BY <1>0, <2>1 DEF Answering
  <2>3. [op |-> "inspect", outcome |-> "returned", decision |-> call[c].decision,
         detected |-> call[c].results # <<>>, flawless |-> call[c].errors = <<>>]
           \in Answers("inspect")
    BY <1>0, <1>8, <2>1, <2>2, AnswerReturned
  <2> QED
    BY <1>2, <2>1, <2>2, <2>3
<1> QED
  BY <1>0, <1>3, <1>4, <1>5, <1>6, <1>7, <1>9, <1>10 DEF EndStep, RaiseOnError

LEMMA BeginServes ==
  ASSUME TypeInv, NEW c \in Caller, BeginInspect(c) \/ BeginRedact(c)
  PROVE  /\ call[c].pc = "over"
         /\ \E next :
              /\ Progress(c, next) /\ Answering(next)
              /\ \/ next.pc = "scan" /\ next.op \in {"inspect", "redact"}
                 \/ Shown(next) = Service!RedactRefused
<1>0. call[c].pc = "over"
  BY DEF BeginInspect, BeginRedact, Over
<1>1. ASSUME NEW op \in {"inspect", "redact"}
      PROVE  /\ NewCall(op) \in Call /\ NewCall(op).pc = "scan" /\ NewCall(op).op = op
             /\ NewCall(op).results = <<>> /\ NewCall(op).errors = <<>>
  <2>1. NewCall(op) \in Call /\ NewCall(op).pc = "scan"
    BY NewCallSound DEF Sound
  <2>2. NewCall(op).op = op /\ NewCall(op).results = <<>> /\ NewCall(op).errors = <<>>
    BY DEF NewCall, NoCall
  <2> QED
    BY <2>1, <2>2
<1>2. ASSUME NEW next, Progress(c, next), next.pc = "scan", next.op \in {"inspect", "redact"},
             next.results = <<>>, next.errors = <<>>
      PROVE  \E n : /\ Progress(c, n) /\ Answering(n)
                    /\ \/ n.pc = "scan" /\ n.op \in {"inspect", "redact"}
                       \/ Shown(n) = Service!RedactRefused
  <2>1. Answering(next)
    BY <1>2 DEF Answering
  <2> QED
    BY <1>2, <2>1
<1>3. CASE BeginInspect(c)
  <2>1. PICK emit \in EmitEvents : Progress(c, [NewCall("inspect") EXCEPT !.emit = emit])
    BY <1>3 DEF BeginInspect
  <2> DEFINE next == [NewCall("inspect") EXCEPT !.emit = emit]
  <2>2. /\ next.pc = "scan" /\ next.op = "inspect" /\ next.results = <<>>
        /\ next.errors = <<>>
    BY <1>1 DEF Call
  <2>3. Progress(c, next)
    BY <2>1
  <2> HIDE DEF next
  <2> QED
    BY <1>0, <1>2, <2>2, <2>3
<1>4. CASE BeginRedact(c)
  <2>1. \/ Progress(c, NewCall("redact"))
        \/ Progress(c, Ended(NewCall("redact"), "ValueError", "none"))
        \/ \E allowed : Progress(c, [NewCall("redact") EXCEPT !.allowed = allowed])
    BY <1>4, Zenon DEF BeginRedact
  <2>2. CASE Progress(c, NewCall("redact"))
    BY <1>0, <1>1, <1>2, <2>2
  <2>3. CASE Progress(c, Ended(NewCall("redact"), "ValueError", "none"))
    <3> DEFINE next == Ended(NewCall("redact"), "ValueError", "none")
    <3>1. /\ next.pc = "over" /\ next.op = "redact" /\ next.results = <<>>
          /\ next.errors = <<>> /\ next.outcome = "ValueError" /\ next.decision = "none"
      BY <1>1 DEF Ended, Call
    <3>2. Progress(c, next)
      BY <2>3
    <3> HIDE DEF next
    <3>3. Answering(next)
      BY <3>1 DEF Answering
    <3>4. Shown(next) = Service!RedactRefused
      BY <3>1 DEF Shown, Service!RedactRefused, Service!Answer
    <3> QED
      BY <1>0, <3>2, <3>3, <3>4
  <2>4. ASSUME NEW allowed, Progress(c, [NewCall("redact") EXCEPT !.allowed = allowed])
        PROVE  \E n : /\ Progress(c, n) /\ Answering(n)
                      /\ \/ n.pc = "scan" /\ n.op \in {"inspect", "redact"}
                         \/ Shown(n) = Service!RedactRefused
    <3> DEFINE next == [NewCall("redact") EXCEPT !.allowed = allowed]
    <3>1. /\ next.pc = "scan" /\ next.op = "redact" /\ next.results = <<>>
          /\ next.errors = <<>>
      BY <1>1 DEF Call
    <3>2. Progress(c, next)
      BY <2>4
    <3> HIDE DEF next
    <3> QED
      BY <1>2, <3>1, <3>2
  <2> QED
    BY <1>0, <2>1, <2>2, <2>3, <2>4
<1> QED
  BY <1>3, <1>4

LEMMA CallServes ==
  ASSUME TypeInv, AnswerInv, NEW c \in Caller, CallStep(c), ~CallbackManages(c)
  PROVE  \E next : Progress(c, next) /\ Serves(call[c], next)
BY ScanServes, RunServes, DecisionServes, NotifyServes, EndServes
   DEF CallStep, InspectStep, RedactStep, EventStep
-----------------------------------------------------------------------------
(* The refinement *)

\* A change of the registry shows in no answer.
LEMMA WitnessShown ==
  ASSUME NEW now, now \in Call, Answering(now)
  PROVE  Answering(Witness(now)) /\ Shown(Witness(now)) = Shown(now)
<1>1. CASE now.pc = "over"
  BY <1>1 DEF Witness
<1>2. ASSUME NEW steady, NEW shrunk
      PROVE  LET next == [now EXCEPT !.steady = steady, !.shrunk = shrunk]
             IN  Answering(next) /\ Shown(next) = Shown(now)
  <2> DEFINE next == [now EXCEPT !.steady = steady, !.shrunk = shrunk]
  <2>1. /\ next.pc = now.pc /\ next.op = now.op /\ next.results = now.results
        /\ next.errors = now.errors /\ next.after = now.after
        /\ next.outcome = now.outcome /\ next.decision = now.decision
    BY DEF Call
  <2> HIDE DEF next
  <2>2. Answering(next) /\ Shown(next) = Shown(now)
    BY <2>1 DEF Answering, Shown
  <2> QED
    BY <2>2 DEF next
<1> QED
  BY <1>1, <1>2, Zenon DEF Witness

\* What every step does to the calls: it changes none of their answers, or one.
Unshown == \A d \in Caller : Answering(call'[d]) /\ Shown(call'[d]) = Shown(call[d])

LEMMA ManagedUnshown ==
  ASSUME TypeInv, AnswerInv, Manage \/ \E c \in Caller : CallbackManages(c)
  PROVE  Unshown /\ settings' = settings
<1>0. \A d \in Caller : call[d] \in Call /\ Answering(call[d])
  BY DEF TypeInv, Sound, AnswerInv
<1>1. CASE Manage
  <2>1. settings' = settings /\ \A d \in Caller : call'[d] = Witness(call[d])
    BY <1>1 DEF Manage
  <2> QED
    BY <1>0, <2>1, WitnessShown DEF Unshown
<1>2. ASSUME NEW c \in Caller, CallbackManages(c)
      PROVE  Unshown /\ settings' = settings
  <2>1. call[c].pc = "notify" /\ call[c].listener < callbacks /\ settings' = settings
    BY <1>2 DEF CallbackManages
  <2>2. /\ Given(c) \in Call /\ Given(c).pc = "notify" /\ Given(c).op = call[c].op
        /\ Given(c).results = call[c].results /\ Given(c).errors = call[c].errors
        /\ Given(c).after = call[c].after /\ Given(c).decision = call[c].decision
    BY <2>1, GivenServes
  <2>3. Answering(Given(c)) /\ Shown(Given(c)) = Shown(call[c])
    BY <1>0, <2>1, <2>2 DEF Answering, Shown
  <2>4. \A d \in Caller : call'[d] = IF d = c THEN Witness(Given(c)) ELSE Witness(call[d])
    BY <1>2 DEF CallbackManages
  <2> QED
    BY <1>0, <2>1, <2>2, <2>3, <2>4, WitnessShown DEF Unshown
<1> QED
  BY <1>1, <1>2

\* One caller's answer changes, or the call that owes it goes on.
LEMMA AnsweredStep ==
  ASSUME call \in [Caller -> Call], NEW c \in Caller, NEW next, Progress(c, next)
  PROVE  /\ call[c].pc = "over" /\ call[c].outcome # "waiting" =>
              /\ \A op \in {"inspect", "redact"} :
                   Shown(next) = Service!Waiting(op) => Service!Ask(c, op)
              /\ Shown(next) = Service!RedactRefused => Service!Refuse(c)
         /\ \A op \in {"inspect", "redact"} :
              Shown(call[c]) = Service!Waiting(op) /\ Shown(next) \in Answers(op)
                => Service!Reply(c)
         /\ Shown(next) = Shown(call[c]) => UNCHANGED Service!serviceVars
<1> DEFINE answer == [d \in Caller |-> Shown(call[d])]
<1>1. settings' = settings /\ \A d \in Caller : call'[d] = IF d = c THEN next ELSE call[d]
  BY DEF Progress
<1>2. [d \in Caller |-> Shown(call'[d])] = [answer EXCEPT ![c] = Shown(next)]
  BY <1>1
<1>3. ASSUME call[c].pc = "over", call[c].outcome # "waiting"
      PROVE  /\ \A op \in {"inspect", "redact"} :
                  Shown(next) = Service!Waiting(op) => Service!Ask(c, op)
             /\ Shown(next) = Service!RedactRefused => Service!Refuse(c)
  BY <1>1, <1>2, <1>3 DEF Service!Ask, Service!Refuse, Service!Idle, Shown, Over
<1>4. ASSUME NEW op \in {"inspect", "redact"}, Shown(call[c]) = Service!Waiting(op),
             Shown(next) \in Answers(op)
      PROVE  Service!Reply(c)
  BY <1>1, <1>2, <1>4 DEF Service!Reply, Answers, Shown, Over
<1>5. ASSUME Shown(next) = Shown(call[c])
      PROVE  UNCHANGED Service!serviceVars
  BY <1>1, <1>2, <1>5 DEF Service!serviceVars, Shown, Over
<1> QED
  BY <1>3, <1>4, <1>5

LEMMA AnswerStep ==
  ASSUME TypeInv, AnswerInv, [Next]_vars
  PROVE  AnswerInv' /\ [Service!ServiceNext]_(Service!serviceVars)
<1>0. /\ call \in [Caller -> Call]
      /\ \A d \in Caller : Answering(call[d]) /\ call[d].outcome # "waiting"
  BY DEF TypeInv, TypeOK, AnswerInv, Call
<1>1. ASSUME settings' = settings, \A d \in Caller : Answering(call'[d])
      PROVE  AnswerInv'
  BY <1>1 DEF AnswerInv, Answering, FailClosed, Decided
<1>2. ASSUME NEW c \in Caller, NEW next, Progress(c, next), Answering(next)
      PROVE  AnswerInv'
  <2>1. \A d \in Caller : call'[d] = IF d = c THEN next ELSE call[d]
    BY <1>0, <1>2 DEF Progress
  <2>2. settings' = settings
    BY <1>2 DEF Progress
  <2> QED
    BY <1>0, <1>1, <1>2, <2>1, <2>2
<1>3. ASSUME NEW c \in Caller, BeginInspect(c) \/ BeginRedact(c)
      PROVE  AnswerInv' /\ Service!ServiceNext
  <2>1. call[c].pc = "over"
    BY <1>3, BeginServes
  <2>2. PICK next :
          /\ Progress(c, next) /\ Answering(next)
          /\ \/ next.pc = "scan" /\ next.op \in {"inspect", "redact"}
             \/ Shown(next) = Service!RedactRefused
    BY <1>3, BeginServes
  <2>3. CASE next.pc = "scan" /\ next.op \in {"inspect", "redact"}
    <3>1. Shown(next) = Service!Waiting(next.op)
      BY <2>3 DEF Shown, Service!Waiting, Service!Answer
    <3>2. Service!Ask(c, next.op)
      BY <1>0, <2>1, <2>2, <2>3, <3>1, AnsweredStep
    <3> QED
      BY <1>2, <2>2, <2>3, <3>2 DEF Service!ServiceNext
  <2>4. CASE Shown(next) = Service!RedactRefused
    <3>1. Service!Refuse(c)
      BY <1>0, <2>1, <2>2, <2>4, AnsweredStep
    <3> QED
      BY <1>2, <2>2, <3>1 DEF Service!ServiceNext
  <2> QED
    BY <2>2, <2>3, <2>4
<1>4. ASSUME NEW c \in Caller, CallStep(c), ~CallbackManages(c)
      PROVE  AnswerInv' /\ [Service!ServiceNext]_(Service!serviceVars)
  <2>1. PICK next : Progress(c, next) /\ Serves(call[c], next)
    BY <1>4, CallServes
  <2>2. /\ call[c].pc # "over" /\ next.op = call[c].op /\ Answering(next)
        /\ call[c].op \in {"inspect", "redact"}
        /\ next.pc = "over" => Shown(next) \in Answers(next.op)
    BY <1>0, <2>1 DEF Serves, Answering
  <2>3. Shown(call[c]) = Service!Waiting(call[c].op)
    BY <2>2 DEF Shown, Service!Waiting, Service!Answer
  <2>4. CASE next.pc = "over"
    <3>1. Shown(next) \in Answers(call[c].op)
      BY <2>2, <2>4
    <3>2. Service!Reply(c)
      BY <1>0, <2>1, <2>2, <2>3, <3>1, AnsweredStep
    <3> QED
      BY <1>2, <2>1, <2>2, <3>2 DEF Service!ServiceNext
  <2>5. CASE next.pc # "over"
    <3>1. Shown(next) = Shown(call[c])
      BY <2>2, <2>5 DEF Shown
    <3>2. UNCHANGED Service!serviceVars
      BY <1>0, <2>1, <3>1, AnsweredStep
    <3> QED
      BY <1>2, <2>1, <2>2, <3>2
  <2> QED
    BY <2>4, <2>5
<1>5. CASE Manage \/ \E c \in Caller : CallbackManages(c)
  <2>1. Unshown /\ settings' = settings
    BY <1>5, ManagedUnshown
  <2>2. UNCHANGED Service!serviceVars
    BY <2>1 DEF Unshown, Service!serviceVars, Shown, Over
  <2> QED
    BY <1>1, <2>1, <2>2 DEF Unshown
<1>6. CASE UNCHANGED vars
  <2>1. settings' = settings /\ call' = call
    BY <1>6 DEF vars
  <2>2. AnswerInv'
    BY <1>0, <1>1, <2>1
  <2>3. UNCHANGED Service!serviceVars
    BY <2>1 DEF Service!serviceVars, Over
  <2> QED
    BY <2>2, <2>3
<1> QED
  BY <1>3, <1>4, <1>5, <1>6 DEF Next

\* The guard implements its service: whatever is registered, removed, switched
\* off or raises on the way, each call that ends is answered as the guard's
\* settings allow, and an answer stays until its caller asks again.
THEOREM GuardImplementsService == Spec => ServiceRefined
<1> DEFINE Inv == TypeInv /\ AnswerInv
<1>1. Init => Inv
  <2>1. Init => AnswerInv
    BY DEF Init, AnswerInv, Answering, NoCall
  <2> QED
    BY <2>1, TypeInit
<1>2. Inv /\ [Next]_vars => Inv'
  BY TypeStep, AnswerStep
<1>3. Init => Service!ServiceInit
  <2> SUFFICES ASSUME Init
               PROVE  Service!ServiceInit
    OBVIOUS
  <2>1. settings \in Service!GuardSettings(BuiltIn)
    BY SettingsAssumption
       DEF Init, AllSettings, GuardSettings, Service!GuardSettings, Custom, Service!Custom
  <2>2. \A c \in Caller : Shown(call[c]) = Service!NoAnswer
    BY DEF Init, NoCall, Shown, Service!NoAnswer, Service!Answer
  <2> QED
    BY <2>1, <2>2 DEF Service!ServiceInit, Shown, Over
<1>4. Inv /\ [Next]_vars => [Service!ServiceNext]_(Service!serviceVars)
  BY AnswerStep
<1> QED
  BY <1>1, <1>2, <1>3, <1>4, PTL DEF Spec, ServiceRefined, Service!ServiceSpec
=============================================================================
