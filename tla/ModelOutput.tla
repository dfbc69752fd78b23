----------------------------- MODULE ModelOutput -----------------------------
(***************************************************************************)
(* What InferenceEngine.predict makes of a model's raw output                *)
(* (core/models/engine.py) with the default formatter, the formatters of the *)
(* library's default models (core/models/config.py) or one of the user's.    *)
(*                                                                         *)
(* A raw output is a record whose shape the formatters tell apart.  A score  *)
(* is only ever compared with config.threshold, so it is "under" it, at or   *)
(* "over" it, not a number at all ("NaN", for which every comparison is      *)
(* false), or something float() and .item() cannot convert ("none").         *)
(***************************************************************************)
EXTENDS SequencesExt

\* ModelDetectionResult.  Its entities are spans of the text, each at its place in
\* the model's list, of which a formatter may have left out some.
Found(detected, severity, entities) ==
  [status |-> "result", detected |-> detected, severity |-> severity, entities |-> entities]

Failure == {"ModelProviderError", "ModelOutputError", "ModelFormatterError"}

Failed(failure) == [status |-> failure]

Score == {"under", "over", "NaN", "none"}

\* Slip: a severity that is not given is the highest, whatever was detected.
BySeverityDefault_Always(detected) == "critical"

\* ModelDetectionResult.__post_init__, when no severity is given.
BySeverityDefault(detected) == IF detected THEN "critical" ELSE "low"

Verdict(detected) == Found(detected, BySeverityDefault(detected), <<>>)

\* score >= threshold detects; _severity_for_score says LOW if score < threshold.
ByScore(score) ==
  Found(score = "over", IF score = "under" THEN "low" ELSE "critical", <<>>)

\* max() keeps the first item unless a later one compares greater: NaN stays
\* when it comes first and is never taken when it comes later.
TopScore(items) ==
  LET scores == SelectSeq([i \in DOMAIN items |-> items[i].score], LAMBDA s : s # "none")
  IN  IF scores = <<>> THEN "none"
      ELSE IF scores[1] = "NaN" THEN "NaN"
      ELSE IF Contains(scores, "over") THEN "over" ELSE "under"
-----------------------------------------------------------------------------
(* The formatters *)

\* DefaultOutputFormatter.format.  "flag" is a bool, 0 or 1; "number" a scalar,
\* which must lie in [0, 1]; the other shapes are those of the pipelines.  The
\* entities of a token classification are not carried over.
DefaultFormat(task, raw) ==
  CASE raw.shape = "flag" -> Verdict(raw.yes)
    [] raw.shape = "number" /\ raw.score \in {"under", "over"} -> ByScore(raw.score)
    [] raw.shape = "classification" /\ raw.score # "none" -> ByScore(raw.score)
    [] raw.shape = "tokens" /\ raw.items = <<>> /\ task = "token-classification" ->
         Verdict(FALSE)
    [] raw.shape = "tokens" /\ raw.items # <<>> ->
         IF TopScore(raw.items) = "none" THEN Verdict(FALSE)
                                         ELSE ByScore(TopScore(raw.items))
    [] raw.shape = "generation" /\ "positive" \in raw.words -> Verdict(TRUE)
    [] raw.shape = "generation" /\ raw.words = {"negative"} -> Verdict(FALSE)
    [] OTHER -> Failed("ModelOutputError")

\* _format_default_injection: the label counts as well as the score.  A wrong
\* shape or score raises ValueError or TypeError, which predict wraps.
DefaultInjection(raw) ==
  IF raw.shape = "classification" /\ raw.score # "none"
  THEN Verdict(raw.injection /\ raw.score = "over")
  ELSE Failed("ModelFormatterError")

\* _format_default_pii: the labelled items at or over the threshold are entities.
DefaultPii(raw) ==
  LET labelled == {i \in DOMAIN raw.items : raw.items[i].label # "O"}
      kept == {i \in labelled : raw.items[i].score = "over"}
  IN  IF raw.shape # "tokens" \/ \E i \in labelled : raw.items[i].score = "none"
      THEN Failed("ModelFormatterError")
      ELSE Found(kept # {}, BySeverityDefault(kept # {}),
                 [i \in kept |-> raw.items[i].span])

\* _format_default_api: exactly one of the two words.
DefaultApi(raw) ==
  IF raw.shape = "answer" /\ raw.word \in {"safe", "unsafe"}
  THEN Verdict(raw.word = "unsafe")
  ELSE Failed("ModelOutputError")

\* A formatter of the user's answers what it likes; "given" is its result with
\* the severity __post_init__ fills in.  Anything else it returns or raises
\* becomes ModelFormatterError, unless it is a ModelOutputError already.
CustomFormat(raw) ==
  IF raw.shape = "given"
  THEN Found(raw.detected,
             IF raw.severity = "none" THEN BySeverityDefault(raw.detected) ELSE raw.severity,
             raw.entities)
  ELSE Failed("ModelFormatterError")

\* InferenceEngine.predict for a configuration [provider, task, formatter].
Predict(config, raw) ==
  IF raw.shape = "failure" THEN Failed("ModelProviderError")
  ELSE CASE config.formatter = "default" -> DefaultFormat(config.task, raw)
         [] config.formatter = "injection" -> DefaultInjection(raw)
         [] config.formatter = "pii" -> DefaultPii(raw)
         [] config.formatter = "api" -> DefaultApi(raw)
         [] OTHER -> CustomFormat(raw)

\* The spans a raw output holds, whatever its formatter makes of them.
SpansOf(raw) ==
  CASE raw.shape = "given" -> {raw.entities[i] : i \in DOMAIN raw.entities}
    [] raw.shape = "tokens" -> {raw.items[i].span : i \in DOMAIN raw.items}
    [] OTHER -> {}

\* Its score is a number, and its severity the default one.
Ordinary(raw) ==
  /\ raw.shape \in {"number", "classification"} => raw.score # "NaN"
  /\ raw.shape = "tokens" => TopScore(raw.items) # "NaN"
  /\ raw.shape = "given" => raw.severity = "none"
=============================================================================
