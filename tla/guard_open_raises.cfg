\* All settings; two detectors, up to two callbacks that may manage the guard.
SPECIFICATION Spec
CONSTANTS
  pii = pii
  otherPii = otherPii
  secrets = secrets
  Detector = {pii, secrets}
  Name = {"pii", "secrets"}
  NameOf <- MCNameOf
  NoDetector = NoDetector
  Admin = {}
  InitialDetectors <- TwoDetectors
  InitialCallbacks = {1,2}
  MaxCallbacks = 2
  Caller = {c}
  Finding <- MCBadFinding
  BuiltIn <- MCBuiltIn
  Settings <- AllSettings
  Threshold = {"high"}
  EmitEvents = {TRUE, FALSE}
  CallbacksManage = TRUE
INVARIANT FailOpenAllows
