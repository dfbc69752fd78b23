------------------------------ MODULE Detector ------------------------------
(***************************************************************************)
(* The library's Detector (core/detectors/detector.py): which rules and      *)
(* which model its options give it, and what inspect answers for a text.     *)
(* The rewriting of a text, redact, is in module Redaction.                  *)
(*                                                                         *)
(* A detector's regular expressions are opaque: what each of them finds in a *)
(* text is part of the text.  Enum coercion and type checks of the options,  *)
(* messages and metadata are left out.                                       *)
(***************************************************************************)
EXTENDS ModelOutput, SeverityPolicy

CONSTANTS
  Pattern,         \* regex rules
  SeverityOf,      \* SeverityOf[r]: the label of rule r
  Unusable,        \* rules without a required field, or that re.compile rejects
  DefaultRulesOf,  \* DefaultRulesOf[s]: the rules the library has for rule set s
  None

RuleSet == {"prompt_injection", "pii", "secrets"}

\* Labels of inline rules are not checked; what follows from a bad one is
\* AgentGuard's subject.
ASSUME SeverityOfAssumption == SeverityOf \in [Pattern -> Severity]
ASSUME UnusableAssumption == Unusable \subseteq Pattern
ASSUME DefaultRulesAssumption == DefaultRulesOf \in [RuleSet -> Seq(Pattern)]

ModelConfig(provider, task, formatter) ==
  [provider |-> provider, task |-> task, formatter |-> formatter]

\* resolve_default_model: no model of the library finds secrets, and none of an
\* API's finds personal data.
ResolveDefaultModel(defaults, provider) ==
  CASE defaults = "prompt_injection" /\ provider = "api" ->
         ModelConfig("api", "text-generation", "api")
    [] defaults = "prompt_injection" /\ provider # "api" ->
         ModelConfig("huggingface", "text-classification", "injection")
    [] defaults = "pii" /\ provider # "api" ->
         ModelConfig("huggingface", "token-classification", "pii")
    [] OTHER -> None

Asks(d) == d.type \in {"model", "mixed"}
Searches(d) == d.type \in {"regex", "mixed"}

\* PatternLoader.load_patterns on a file: None is one that cannot be read or has
\* a malformed rule; one without rules is rejected as well.
Loads(file) == file # None /\ file # <<>>

OrEmpty(list) == IF list = None THEN <<>> ELSE list

AllLoad(o) == \A i \in DOMAIN OrEmpty(o.paths) : Loads(o.paths[i])

\* _resolve_rules.  By precedence the first source that is given wins, an empty
\* one included; all of them are loaded whichever wins.
ResolveRules(o) ==
  LET loaded == FlattenSeq(OrEmpty(o.paths))
      defaults == IF o.defaults = None THEN <<>> ELSE DefaultRulesOf[o.defaults]
  IN  CASE o.ruleStrategy = "extend" -> defaults \o loaded \o OrEmpty(o.patterns)
        [] o.ruleStrategy = "precedence" /\ o.patterns # None -> o.patterns
        [] o.ruleStrategy = "precedence" /\ o.patterns = None /\ o.paths # None -> loaded
        [] OTHER -> defaults

\* _validate_config: a provider that is given must be the model's.
Consistent(o) ==
  o.model = None \/ o.provider = None \/ o.model.provider = o.provider

\* _compile_pattern_rules
Compiles(rules) == ToSet(rules) \cap Unusable = {}

\* __init__: the detector that comes of its options, or what the constructor
\* raises, in the order of its checks.
Construct(o) ==
  LET model == IF o.model # None THEN o.model ELSE ResolveDefaultModel(o.defaults, o.provider)
  IN  IF ~Consistent(o)
      THEN Failed("ConfigurationError")
      ELSE IF Asks(o) /\ model = None
      THEN Failed("ConfigurationError")
      ELSE IF Searches(o) /\ o.patterns = None /\ o.paths = None /\ o.defaults = None
      THEN Failed("ConfigurationError")
      ELSE IF Searches(o) /\ ~AllLoad(o)
      THEN Failed("PatternLoaderError")
      ELSE IF Searches(o) /\ ~Compiles(ResolveRules(o))
      THEN Failed("RuleError")
      ELSE [status |-> "built", type |-> o.type, combine |-> o.combine,
            model |-> IF Asks(o) THEN model ELSE None,
            rules |-> IF Searches(o) THEN ResolveRules(o) ELSE <<>>]
-----------------------------------------------------------------------------
(* inspect *)

\* Slip: where there is a model, it has the last word.
Combine_ModelDecides(d, regex, model) ==
  IF d.type = "regex" THEN regex ELSE model

\* _combine_results
Combine(d, regex, model) ==
  CASE d.type = "regex" -> regex
    [] d.type = "model" -> model
    [] d.type = "mixed" /\ d.combine = "any" -> regex \/ model
    [] d.type = "mixed" /\ d.combine = "all" -> regex /\ model
    [] d.type = "mixed" /\ d.combine = "precedence" -> regex

Answer(matched, hits, model) ==
  [status |-> "result", matched |-> matched,
   matches |-> {SeverityOf[r] : r \in hits},
   model |-> IF model = None THEN "none" ELSE model.severity,
   detected |-> model # None /\ model.detected,
   entities |-> IF model = None THEN <<>> ELSE model.entities]

\* Slip: a model that fails has found nothing.
Inspect_FailureIsMiss(d, length, finds, raw) ==
  LET hits == {r \in ToSet(d.rules) : finds[r] # {}}
      model == IF Asks(d) THEN Predict(d.model, raw) ELSE None
  IN  IF length = 0 THEN Answer(FALSE, {}, None)
      ELSE IF model # None /\ model.status # "result"
      THEN Answer(Combine(d, hits # {}, FALSE), hits, None)
      ELSE Answer(Combine(d, hits # {}, model # None /\ model.detected), hits, model)

\* Every rule is searched, then the model is asked; if that raises, inspect
\* raises and what the rules found is lost.  Nothing is searched in no text.
Inspect(d, length, finds, raw) ==
  LET hits == {r \in ToSet(d.rules) : finds[r] # {}}
      model == IF Asks(d) THEN Predict(d.model, raw) ELSE None
  IN  IF length = 0 THEN Answer(FALSE, {}, None)
      ELSE IF model # None /\ model.status # "result" THEN model
      ELSE Answer(Combine(d, hits # {}, model # None /\ model.detected), hits, model)
=============================================================================
