---------------------------- MODULE MCRedaction ----------------------------
(***************************************************************************)
(* Guards and contents small enough for TLC: contents of four characters,    *)
(* guards of one or two detectors of every type.                            *)
(***************************************************************************)
EXTENDS Redaction

CONSTANTS email, phone, note, broken  \* patterns

MCSeverityOf == [r \in Pattern |-> CASE r = email -> "medium"
                                     [] r = phone -> "high"
                                     [] OTHER -> "info"]

MCDefaultRulesOf == [s \in RuleSet |-> CASE s = "pii" -> <<phone, email>>
                                         [] s = "secrets" -> <<phone>>
                                         [] s = "prompt_injection" -> <<note>>]

\* Shorter than what it replaces, or longer.
MCMarkerLength == [r \in Pattern \cup {None} |-> IF r = phone THEN 1 ELSE 2]

Regex == [type |-> "regex", combine |-> "any", ruleStrategy |-> "precedence",
          patterns |-> <<email>>, paths |-> None, defaults |-> None,
          provider |-> None, model |-> None]

Own == ModelConfig("huggingface", "token-classification", "custom")
Plain(task) == ModelConfig("huggingface", task, "default")

\* Rules from everywhere; files that cannot be loaded, rules that do not compile.
RegexOptions ==
  { Regex,
    [Regex EXCEPT !.ruleStrategy = "extend", !.defaults = "pii",
                  !.paths = << <<note>> >>, !.patterns = <<email>>],
    [Regex EXCEPT !.patterns = None, !.defaults = "pii"],
    [Regex EXCEPT !.patterns = None, !.paths = << <<note>>, <<phone>> >>],
    [Regex EXCEPT !.patterns = None],
    [Regex EXCEPT !.paths = <<None>>],
    [Regex EXCEPT !.patterns = <<broken>>] }

Mixed == [Regex EXCEPT !.type = "mixed", !.model = Own]

ModelOptions ==
  { [Regex EXCEPT !.type = "model", !.model = Own],
    [Regex EXCEPT !.type = "model", !.model = Own, !.provider = "api"],
    [Regex EXCEPT !.type = "model", !.defaults = "pii", !.patterns = None],
    [Regex EXCEPT !.type = "model", !.defaults = "pii", !.provider = "api"],
    [Regex EXCEPT !.type = "mixed", !.model = Plain("text-classification")],
    [Regex EXCEPT !.type = "mixed", !.model = Plain("token-classification")],
    [Regex EXCEPT !.type = "mixed", !.defaults = "prompt_injection", !.patterns = None],
    [Regex EXCEPT !.type = "mixed", !.defaults = "prompt_injection", !.patterns = None,
                  !.provider = "api"],
    Mixed,
    [Mixed EXCEPT !.combine = "all"],
    [Mixed EXCEPT !.combine = "precedence"] }

\* A policy of the user's that would rather redact than block.
RedactingPolicy == [rules |-> << Rule({"critical", "high", "medium"}, "redact"),
                            Rule({"low", "info"}, "warn") >>,
               default |-> "allow"]

MCSetups ==
  [options : {<<o>> : o \in RegexOptions \cup ModelOptions}
             \cup {<<o, Regex>> : o \in ModelOptions \cup {[Regex EXCEPT !.patterns = <<phone>>]}}
             \cup {<<Regex, Mixed>>, <<Regex, [Mixed EXCEPT !.type = "model"]>>},
   fail : {"open", "closed"},
   policy : {DefaultPolicy, RedactingPolicy}]

At(start, end) == [start |-> start, end |-> end]

MCFinds ==
  { [r \in Pattern |-> {}],
    [r \in Pattern |-> IF r = email THEN {At(0, 1), At(2, 4)} ELSE {}],
    [r \in Pattern |-> CASE r = email -> {At(0, 1), At(1, 3)}
                         [] r = phone -> {At(1, 4)}
                         [] OTHER -> {At(3, 4)}],
    [r \in Pattern |-> IF r = note THEN {At(1, 2)} ELSE {}] }

Given(detected, severity, entities) ==
  [shape |-> "given", detected |-> detected, severity |-> severity, entities |-> entities]

Item(label, score, span) == [label |-> label, score |-> score, span |-> span]

MCRaws ==
  { [shape |-> "failure"],
    [shape |-> "noise"],
    [shape |-> "flag", yes |-> TRUE],
    [shape |-> "number", score |-> "NaN"],
    [shape |-> "number", score |-> "under"],
    [shape |-> "classification", injection |-> TRUE, score |-> "over"],
    [shape |-> "classification", injection |-> FALSE, score |-> "NaN"],
    [shape |-> "tokens", items |-> <<>>],
    [shape |-> "tokens", items |-> << Item("name", "over", At(0, 1)), Item("O", "over", At(1, 2)),
                                      Item("name", "under", At(2, 3)), Item("name", "over", At(3, 4)) >>],
    [shape |-> "tokens", items |-> << Item("name", "NaN", At(0, 1)), Item("name", "over", At(1, 2)) >>],
    [shape |-> "generation", words |-> {"positive", "negative"}],
    [shape |-> "answer", word |-> "safe"],
    [shape |-> "answer", word |-> "unsafe"],
    Given(FALSE, "none", <<>>),
    Given(TRUE, "medium", << At(0, 1), At(2, 4) >>),
    Given(TRUE, "none", << At(2, 3), At(0, 3) >>),
    Given(TRUE, "medium", << At(3, 6), At(5, 7) >>),
    Given(TRUE, "medium", << At(1, 2), At(3, 2) >>) }

\* The model of the second detector, where it has one, always reports an entity.
MCContents ==
  [length : {4}, finds : MCFinds,
   raws : {<<raw, Given(TRUE, "medium", << At(1, 3) >>)>> : raw \in MCRaws}]
  \cup [length : {0}, finds : {[r \in Pattern |-> {}]},
        raws : {<<[shape |-> "noise"], [shape |-> "noise"]>>}]
=============================================================================
