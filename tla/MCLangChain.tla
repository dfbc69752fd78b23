---------------------------- MODULE MCLangChain ----------------------------
(***************************************************************************)
(* Instances of LangChainMiddleware small enough for TLC.                   *)
(***************************************************************************)
EXTENDS LangChainMiddleware, TLC

CONSTANTS loop

MCCaller == Tool \cup {Loop}

\* The execution strategy makes no difference to the guard's answers.
MCSettings ==
  {s \in GuardSettings({DefaultPolicy}) : s.strategy = "exhaustive"}

\* Everything is scanned, or only one side of the model, or one side of tools.
MCScans == {Point, {"input", "tool_result"}, {"output", "tool_call"}}

Symmetry == Permutations(Tool)
=============================================================================
