\* One agent; the LLM reads the prompt, then the prompt, its answer and a result.
SPECIFICATION Spec
CONSTANTS
  Caller = {a}
  Settings <- MCSettings
  Selections <- MCSelections
  Prompts = {1}
  MaxMessages = 3
\* The task ends or fails.
CHECK_DEADLOCK FALSE
INVARIANTS
  TypeOK
  StoppedIsNotUsed
  ConversationCleared
