---------------------------- MODULE MCAgentGuard ----------------------------
(***************************************************************************)
(* Instances of AgentGuard small enough for TLC.                            *)
(***************************************************************************)
EXTENDS AgentGuard

CONSTANTS pii, otherPii, secrets  \* detector objects; the first two share a name

MCNameOf == [d \in Detector |-> IF d = secrets THEN "secrets" ELSE "pii"]

\* Guards constructed with one detector, or with two.
OneDetector == {<<pii>>}
TwoDetectors == {<<pii, secrets>>}

MCBuiltIn == {DefaultPolicy, StrictPolicy, PermissivePolicy}

\* A model that sees less than the pattern it comes with, and a lone pattern.
MCFinding ==
  { [matches |-> {"low"}, model |-> "critical"],
    [matches |-> {"medium"}, model |-> "none"] }

OneFinding == { [matches |-> {"medium"}, model |-> "none"] }

\* A rule with a severity label no enum member has.
MCBadFinding == MCFinding \cup { [matches |-> {"invalid"}, model |-> "none"] }

Enforcing == [fail |-> "open", mode |-> "enforce",
              strategy |-> "exhaustive", policy |-> DefaultPolicy]
OpenOnly == {Enforcing}
=============================================================================
