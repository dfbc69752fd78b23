------------------------------ MODULE MCCrewAI ------------------------------
(***************************************************************************)
(* Instances of CrewAIHooks small enough for TLC.                           *)
(***************************************************************************)
EXTENDS CrewAIHooks

\* What any guard may answer, one with a policy of the user's own that enforces
\* may answer as well (GuardAnswers): the other settings add no behaviour.
MCSettings ==
  {s \in GuardSettings({}) : s.strategy = "exhaustive" /\ s.mode = "enforce"}

\* All hooks, or those before a call alone.
MCSelections == { Hook, {"before_llm_call", "before_tool_call"} }
=============================================================================
