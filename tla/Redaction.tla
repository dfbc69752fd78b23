------------------------------ MODULE Redaction ------------------------------
(***************************************************************************)
(* One content on its way through a guard whose detectors are the library's: *)
(* construction, inspection, decision and, if that is REDACT, the rewriting  *)
(* by AgentGuard.apply_redactions and Detector.redact, one replacement per   *)
(* step.  AgentGuard models the same calls over lists that change and with   *)
(* whatever detectors; here the lists stand still and the text is real.      *)
(*                                                                         *)
(* A text is a sequence of cells: the characters 1, 2, ... of the content,   *)
(* and Mark for every character of a marker.  What a rule finds is a set of  *)
(* spans of the content; re.sub replaces those that are still there, each    *)
(* with all its characters side by side.                                    *)
(***************************************************************************)
EXTENDS Detector

CONSTANTS
  Setups,        \* guards: [options, fail, policy], the options of each detector
  Contents,      \* [length, finds, raws]: finds[r] what rule r finds in the text,
                 \* raws[i] what the model of detector i puts out for it
  MarkerLength   \* MarkerLength[r]: characters of the marker of rule r, and of
                 \* that of an entity for r = None

Span == [start : Nat, end : Nat]  \* text[start:end], the characters start+1..end
Cells(span) == span.start + 1 .. span.end
Width(span) == span.end - span.start

ASSUME NoneAssumption == None \notin Pattern /\ \A f \in Failure : Failed(f) # None
ASSUME MarkerAssumption == MarkerLength \in [Pattern \cup {None} -> Nat \ {0}]
\* A guard has a severity policy, and the options of a detector give it rules.
ASSUME SetupsAssumption ==
  \A s \in Setups :
    /\ s.policy \in SeverityPolicies
    /\ s.options \in Seq(ToSet(s.options))
    /\ \A i \in DOMAIN s.options :
         LET o == s.options[i]
         IN  /\ OrEmpty(o.patterns) \in Seq(Pattern)
             /\ AllLoad(o) => FlattenSeq(OrEmpty(o.paths)) \in Seq(Pattern)
             /\ o.defaults \in RuleSet \cup {None}
             /\ o.ruleStrategy \in {"precedence", "extend"}
             /\ o.combine \in {"any", "all", "precedence"}
\* Every rule finds at most one span from any place, and never an empty one; nor
\* does a model report one.  Offsets are not negative.
ASSUME ContentsAssumption ==
  \A c \in Contents :
    /\ c.length \in Nat
    /\ \A r \in Pattern : \A f \in c.finds[r] :
         /\ f \in Span
         /\ f.start < f.end
         /\ f.end <= c.length
         /\ \A g \in c.finds[r] : f.start = g.start => f = g
    /\ \A i \in DOMAIN c.raws :
         /\ \A e \in SpansOf(c.raws[i]) : e \in Span /\ e.start # e.end
         /\ c.raws[i].shape = "classification" => c.raws[i].score \in Score
    /\ \A s \in Setups : DOMAIN s.options \subseteq DOMAIN c.raws

VARIABLES
  setup,      \* the guard's configuration, never changed
  content,    \* what is inspected, never changed
  phase,      \* "construct", "inspect", "rules", "entities" or "done"
  detectors,  \* the detectors that were constructed
  results,    \* results[i]: what detector i answered, or raised
  decision,   \* the action decided, "none" until then
  outcome,    \* "none", "refused" by a constructor, "stopped", or "passed"
  text,       \* the text as rewritten so far
  before,     \* `redacted` in apply_redactions: the text before this detector
  turn,       \* the detector that is inspecting or redacting
  rule, at,   \* redact: the rule being substituted, and from where
  todo,       \* redact: the entities that are not replaced yet
  spoiled     \* the detectors whose redaction raised

vars == <<setup, content, phase, detectors, results, decision, outcome,
          text, before, turn, rule, at, todo, spoiled>>

fixed == <<setup, content>>
inspected == <<detectors, results, decision>>

Mark == 0
Original == [i \in 1..content.length |-> i]

Init ==
  /\ setup \in Setups
  /\ content \in Contents
  /\ phase = "construct"
  /\ detectors = <<>>
  /\ results = <<>>
  /\ decision = "none"
  /\ outcome = "none"
  /\ text = Original
  /\ before = Original
  /\ turn = 1
  /\ rule = 1
  /\ at = 1
  /\ todo = {}
  /\ spoiled = {}
-----------------------------------------------------------------------------
(* Construction, inspection and decision *)

End(result) == phase' = "done" /\ outcome' = result

BuildGuard ==
  LET built == [i \in DOMAIN setup.options |-> Construct(setup.options[i])]
  IN  /\ phase = "construct"
      /\ detectors' = built
      /\ IF \A i \in DOMAIN built : built[i].status = "built"
         THEN phase' = "inspect" /\ UNCHANGED outcome
         ELSE End("refused")
      /\ UNCHANGED <<fixed, results, decision, text, before, turn, rule, at, todo, spoiled>>

\* run_detectors, detector by detector.
InspectNext ==
  /\ phase = "inspect"
  /\ turn \in DOMAIN detectors
  /\ results' = Append(results, Inspect(detectors[turn], content.length,
                                        content.finds, content.raws[turn]))
  /\ turn' = turn + 1
  /\ UNCHANGED <<fixed, phase, detectors, decision, outcome,
                 text, before, rule, at, todo, spoiled>>

Answered(i) == i \in DOMAIN results /\ results[i].status = "result"
Matched(i) == Answered(i) /\ results[i].matched

\* What run_detectors hands on: the results that matched, each at its place.
Detections == Restrict(results, {i \in DOMAIN results : Matched(i)})

\* inspect: a failed detector blocks a fail-closed guard; otherwise the policy
\* decides on what the others found.
Decided ==
  IF setup.fail = "closed" /\ \E i \in DOMAIN results : ~Answered(i)
  THEN "block"
  ELSE Evaluate(setup.policy, Detections)

\* ... and PolicyExecutor.enforce acts on it.
Enforce ==
  /\ phase = "inspect"
  /\ turn \notin DOMAIN detectors
  /\ decision' = Decided
  /\ turn' = 1
  /\ CASE Decided = "redact" -> phase' = "rules" /\ UNCHANGED outcome
       [] Decided \in {"block", "quarantine"} -> End("stopped")
       [] OTHER -> End("passed")
  /\ UNCHANGED <<fixed, detectors, results, text, before, rule, at, todo, spoiled>>
-----------------------------------------------------------------------------
(* Redaction *)

\* Slip: the end of a span is taken for its last character.
Splice_Inclusive(t, start, end, marker) ==
  SubSeq(t, 1, IF start < Len(t) THEN start ELSE Len(t))
    \o [i \in 1..marker |-> Mark]
    \o SubSeq(t, end + 2, Len(t))

\* text[:start] + marker + text[end:]; a slice ends where the text does.
Splice(t, start, end, marker) ==
  SubSeq(t, 1, IF start < Len(t) THEN start ELSE Len(t))
    \o [i \in 1..marker |-> Mark]
    \o SubSeq(t, end + 1, Len(t))

\* All of a span's characters stand side by side from place k on.
OccursAt(span, t, k) ==
  /\ k + Width(span) <= Len(t) + 1
  /\ \A i \in 0..Width(span) - 1 : t[k + i] = span.start + 1 + i

Occurs(span, t) == \E k \in 1..Len(t) : OccursAt(span, t, k)

\* The entities apply_redactions hands to a detector: those of its detection.
NoEntities == [i \in {} |-> None]
EntitiesOf(i) == IF Matched(i) THEN results[i].entities ELSE NoEntities

Redacting == turn \in DOMAIN detectors
Rules == detectors[turn].rules

\* pattern.sub looks from the end of the last match on.
Starts ==
  {k \in at..Len(text) : \E f \in content.finds[Rules[rule]] : OccursAt(f, text, k)}

\* Slip: the search goes on where the match ended before it was replaced.
ReplaceMatch_OldOffset ==
  /\ phase = "rules"
  /\ Redacting
  /\ rule \in DOMAIN Rules
  /\ \E k \in Starts, f \in content.finds[Rules[rule]] :
       /\ \A l \in Starts : k <= l
       /\ OccursAt(f, text, k)
       /\ text' = Splice(text, k - 1, k - 1 + Width(f), MarkerLength[Rules[rule]])
       /\ at' = k + Width(f)
  /\ UNCHANGED <<fixed, inspected, phase, outcome, before, turn, rule, todo, spoiled>>

ReplaceMatch ==
  /\ phase = "rules"
  /\ Redacting
  /\ rule \in DOMAIN Rules
  /\ \E k \in Starts, f \in content.finds[Rules[rule]] :
       /\ \A l \in Starts : k <= l
       /\ OccursAt(f, text, k)
       /\ text' = Splice(text, k - 1, k - 1 + Width(f), MarkerLength[Rules[rule]])
       /\ at' = k + MarkerLength[Rules[rule]]
  /\ UNCHANGED <<fixed, inspected, phase, outcome, before, turn, rule, todo, spoiled>>

\* Slip: only the first match of a rule is replaced.
NextRule_FirstOnly ==
  /\ phase = "rules"
  /\ Redacting
  /\ rule \in DOMAIN Rules
  /\ Starts = {} \/ at > 1
  /\ rule' = rule + 1
  /\ at' = 1
  /\ UNCHANGED <<fixed, inspected, phase, outcome, text, before, turn, todo, spoiled>>

NextRule ==
  /\ phase = "rules"
  /\ Redacting
  /\ rule \in DOMAIN Rules
  /\ Starts = {}
  /\ rule' = rule + 1
  /\ at' = 1
  /\ UNCHANGED <<fixed, inspected, phase, outcome, text, before, turn, todo, spoiled>>

\* _validate_entities
Valid(entities) == \A i \in DOMAIN entities : entities[i].start <= entities[i].end

CheckEntities ==
  /\ phase = "rules"
  /\ Redacting
  /\ rule \notin DOMAIN Rules
  /\ Valid(EntitiesOf(turn))
  /\ phase' = "entities"
  /\ todo' = DOMAIN EntitiesOf(turn)
  /\ UNCHANGED <<fixed, inspected, outcome, text, before, turn, rule, at, spoiled>>

\* redact raises: what its rules replaced is lost with it.  A fail-open guard
\* goes on with the next detector; a fail-closed one raises RedactionError, which
\* makes the executor block.
RedactionFails ==
  /\ phase = "rules"
  /\ Redacting
  /\ rule \notin DOMAIN Rules
  /\ ~Valid(EntitiesOf(turn))
  /\ text' = before
  /\ spoiled' = spoiled \cup {turn}
  /\ IF setup.fail = "open"
     THEN turn' = turn + 1 /\ rule' = 1 /\ at' = 1 /\ UNCHANGED <<phase, outcome>>
     ELSE End("stopped") /\ UNCHANGED <<turn, rule, at>>
  /\ UNCHANGED <<fixed, inspected, before, todo>>

\* Slip: from the front to the back.
LastOf_First(entities, set) ==
  {i \in set : \A j \in set :
     \/ entities[j].start > entities[i].start
     \/ entities[j].start = entities[i].start /\ i <= j}

\* sorted(..., reverse=True) is stable: of two that start together the first of
\* the list comes first.
LastOf(entities, set) ==
  {i \in set : \A j \in set :
     \/ entities[j].start < entities[i].start
     \/ entities[j].start = entities[i].start /\ i <= j}

ReplaceEntity ==
  /\ phase = "entities"
  /\ \E i \in LastOf(EntitiesOf(turn), todo) :
       /\ text' = Splice(text, EntitiesOf(turn)[i].start, EntitiesOf(turn)[i].end,
                         MarkerLength[None])
       /\ todo' = todo \ {i}
  /\ UNCHANGED <<fixed, inspected, phase, outcome, before, turn, rule, at, spoiled>>

\* Slip: the next detector is given the original value.
NextDetector_Original ==
  /\ phase = "entities"
  /\ todo = {}
  /\ phase' = "rules"
  /\ before' = Original
  /\ text' = Original
  /\ turn' = turn + 1
  /\ rule' = 1
  /\ at' = 1
  /\ UNCHANGED <<fixed, inspected, outcome, todo, spoiled>>

NextDetector ==
  /\ phase = "entities"
  /\ todo = {}
  /\ phase' = "rules"
  /\ before' = text
  /\ turn' = turn + 1
  /\ rule' = 1
  /\ at' = 1
  /\ UNCHANGED <<fixed, inspected, outcome, text, todo, spoiled>>

HandOn ==
  /\ phase = "rules"
  /\ ~Redacting
  /\ End("passed")
  /\ UNCHANGED <<fixed, inspected, text, before, turn, rule, at, todo, spoiled>>

Terminated == phase = "done" /\ UNCHANGED vars

Next ==
  \/ BuildGuard
  \/ InspectNext
  \/ Enforce
  \/ ReplaceMatch
  \/ NextRule
  \/ CheckEntities
  \/ RedactionFails
  \/ ReplaceEntity
  \/ NextDetector
  \/ HandOn
  \/ Terminated

Spec == Init /\ [][Next]_vars
-----------------------------------------------------------------------------
(* What must hold *)

EntityCells(i) == UNION {Cells(EntitiesOf(i)[k]) : k \in DOMAIN EntitiesOf(i)}
Finds(i) == UNION {content.finds[r] : r \in ToSet(detectors[i].rules)}
Redacted(i) == decision = "redact" /\ i \in DOMAIN detectors /\ i < turn /\ i \notin spoiled

Disjoint(entities) ==
  \A k, l \in DOMAIN entities : k # l => Cells(entities[k]) \cap Cells(entities[l]) = {}

\* Detector i's entities are applied to the text their offsets refer to: nobody
\* has rewritten it before, and no two of them overlap.
ExactAt(i, F(_), E(_)) ==
  /\ \A j \in 1..i : F(j) = {}
  /\ \A j \in 1..i - 1 : DOMAIN E(j) = {}
  /\ Disjoint(E(i))

OffsetsHold(i) == ExactAt(i, Finds, EntitiesOf)

Phase == {"construct", "inspect", "rules", "entities", "done"}

TypeOK ==
  /\ phase \in Phase
  /\ decision \in Action \cup {"none"}
  /\ outcome \in {"none", "refused", "stopped", "passed"}
  /\ text \in Seq(0..content.length)
  /\ before \in Seq(0..content.length)
  /\ turn \in 1..Len(setup.options) + 1
  /\ rule \in Nat \ {0}
  /\ at \in 1..Len(text) + 1
  /\ todo \subseteq (IF phase = "entities" THEN DOMAIN EntitiesOf(turn) ELSE {})
  /\ spoiled \subseteq DOMAIN detectors

\* What a rule of a redacting detector found in the content does not stand in
\* the text any more once that detector is through, and nothing that follows,
\* other rules, entities wherever they are put, or the undoing of a detector
\* that fails, brings it back (detector.py: redact; agent_guard.py:
\* apply_redactions).
RuleFindingsBroken ==
  \A i \in DOMAIN detectors :
    Redacted(i) => \A f \in Finds(i) : ~Occurs(f, text)

\* Redaction hides every character of every entity a model reported, none of which
\* overlap (Detector.redact: regex rules are applied first, and "Earlier
\* replacements do not invalidate the offsets of later entities").
EntitiesGone ==
  \A i \in DOMAIN detectors :
    Redacted(i) /\ Disjoint(EntitiesOf(i)) => EntityCells(i) \cap ToSet(text) = {}

\* They are where the offsets refer to the text that is rewritten: replacing
\* from the back keeps each offset valid until its turn comes.
EntitiesGoneIfExact ==
  \A i \in DOMAIN detectors :
    Redacted(i) /\ OffsetsHold(i) => EntityCells(i) \cap ToSet(text) = {}

\* Redaction takes away what was found and nothing else, and does not move what
\* is left: every other character is still there, in its order.
NothingElseLost ==
  (\A i \in DOMAIN detectors : DOMAIN EntitiesOf(i) = {} \/ OffsetsHold(i)) =>
    /\ \A c \in 1..content.length :
         c \in ToSet(text) \/ \E i \in DOMAIN detectors :
           c \in EntityCells(i) \/ \E f \in Finds(i) : c \in Cells(f)
    /\ \A k, l \in DOMAIN text : k < l /\ text[l] # Mark => text[k] < text[l]

\* A rule handed to the constructor is in force whatever else is configured: if
\* the policy redacts or stops its severity, and is not more lenient with a severer
\* one, what it finds does not go on, unless its detector failed in a fail-open
\* guard, or needs its model's agreement (_resolve_rules, inspect, _combine_results,
\* evaluate, apply_redactions).
FoundIsHandled ==
  outcome = "passed" /\ Monotone(setup.policy) =>
    \A i \in DOMAIN setup.options :
      LET o == setup.options[i]
      IN  /\ Searches(o)
          /\ o.patterns # None
          /\ o.type = "mixed" => o.combine # "all"
          /\ Answered(i)
          /\ i \notin spoiled
          => \A r \in ToSet(o.patterns) :
               Strength[Decide(setup.policy, SeverityOf[r])] >= Strength["redact"] =>
                 \A f \in content.finds[r] : ~Occurs(f, text)

\* A model that detects nothing does not change what is decided about the findings
\* of the rules, although highest_result_severity counts the LOW it reports: the
\* built-in policies treat low and info alike.  It takes such a policy, a score that
\* is a number, and no severity of a custom formatter's own.
QuietModelIsNeutral ==
  LET quiet(r) == r.status = "result" /\ ~r.detected
      Unsaid == [k \in DOMAIN Detections |->
                   IF quiet(Detections[k]) THEN [Detections[k] EXCEPT !.model = "none"]
                                           ELSE Detections[k]]
  IN  /\ decision # "none"
      /\ Decide(setup.policy, "low") = Decide(setup.policy, "info")
      /\ \A i \in DOMAIN results : Ordinary(content.raws[i])
      /\ \A i \in DOMAIN results : Answered(i) \/ setup.fail = "open"
      => decision = Evaluate(setup.policy, Unsaid)

\* An asked model that fails, or whose output no formatter can read, is never
\* taken for one that found nothing: a fail-closed guard does not let the content
\* pass (InferenceEngine.predict, inspect).
FailureIsNoAllClear ==
  outcome = "passed" /\ setup.fail = "closed" /\ content.length > 0 =>
    \A i \in DOMAIN detectors :
      Asks(detectors[i]) => content.raws[i].shape \notin {"failure", "noise"}

\* The redaction, seen one detector at a time.
Built(i) == Construct(setup.options[i])
Guarding == IF \A i \in DOMAIN setup.options : Built(i).status = "built"
            THEN DOMAIN setup.options ELSE {}
Reply(i) == Inspect(Built(i), content.length, content.finds, content.raws[i])
ReplyEntities(i) ==
  IF Reply(i).status = "result" /\ Reply(i).matched THEN Reply(i).entities ELSE NoEntities
ReplyFinds(i) == UNION {content.finds[r] : r \in ToSet(Built(i).rules)}
ReplyCells(i) == UNION {Cells(ReplyEntities(i)[k]) : k \in DOMAIN ReplyEntities(i)}

M == INSTANCE Masking WITH
  findings <- [i \in Guarding |-> {Cells(f) : f \in ReplyFinds(i)}],
  entities <- [i \in Guarding |-> ReplyCells(i) \cap 1..content.length],
  failing <- {i \in Guarding : ~Valid(ReplyEntities(i))},
  exact <- {i \in Guarding : ExactAt(i, ReplyFinds, ReplyEntities)},
  mode <- CASE outcome = "passed" -> "passed"
            [] outcome \in {"refused", "stopped"} -> "stopped"
            [] outcome = "none" -> IF decision = "redact" THEN "masking" ELSE "deciding",
  next <- IF decision = "redact" THEN turn ELSE 1,
  hidden <- 1..content.length \ ToSet(before)

\* The detectors' rewriting, rule by rule and entity by entity, is the masking of
\* whole detectors: no half of a failing one is seen, nothing comes back.
MaskingRefined == M!MaskingSpec
=============================================================================
