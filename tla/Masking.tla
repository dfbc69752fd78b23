------------------------------- MODULE Masking -------------------------------
(***************************************************************************)
(* What the redaction of a content promises about its characters.  Once it   *)
(* is decided that the content must be redacted, the guard's detectors take  *)
(* their turns.  Each one, in one step, breaks every finding of its rules    *)
(* and hides every entity of its model; only one that was given an impossible*)
(* entity fails, and leaves no trace.                                        *)
(* Nothing that is hidden comes back, and nothing is hidden that nobody      *)
(* found.                                                                   *)
(***************************************************************************)
EXTENDS Naturals

VARIABLES
  findings,  \* findings[d]: the sets of characters the rules of detector d find
  entities,  \* entities[d]: the set of those its model finds
  failing,   \* the detectors that are given an impossible entity
  exact,     \* the detectors whose entities are where their offsets say
  mode,      \* "deciding", "masking", "passed" or "stopped"
  next,      \* the detector whose turn it is
  hidden     \* the characters that are gone

maskingVars == <<findings, entities, failing, exact, mode, next, hidden>>
found == <<findings, entities, failing, exact>>

MaskingInit ==
  /\ mode = "deciding"
  /\ next = 1
  /\ hidden = {}

Decide ==
  /\ mode = "deciding"
  /\ mode' \in {"masking", "passed", "stopped"}
  /\ UNCHANGED <<found, next, hidden>>

MaskOne ==
  /\ mode = "masking"
  /\ next \in DOMAIN findings \ failing
  /\ hidden \subseteq hidden'
  /\ \A f \in findings[next] : f \cap hidden' # {}
  /\ next \in exact =>
       /\ entities[next] \subseteq hidden'
       /\ hidden' \subseteq hidden \cup (UNION findings[next]) \cup entities[next]
  /\ next' = next + 1
  /\ UNCHANGED <<found, mode>>

\* A redaction that fails in a fail-open guard ...
Skip ==
  /\ mode = "masking"
  /\ next \in DOMAIN findings \cap failing
  /\ next' = next + 1
  /\ UNCHANGED <<found, mode, hidden>>

\* ... and in a fail-closed one.
Refuse ==
  /\ mode = "masking"
  /\ next \in DOMAIN findings \cap failing
  /\ mode' = "stopped"
  /\ UNCHANGED <<found, next, hidden>>

Finish ==
  /\ mode = "masking"
  /\ next \notin DOMAIN findings
  /\ mode' = "passed"
  /\ UNCHANGED <<found, next, hidden>>

MaskingNext == Decide \/ MaskOne \/ Skip \/ Refuse \/ Finish

MaskingSpec == MaskingInit /\ [][MaskingNext]_maskingVars
=============================================================================
