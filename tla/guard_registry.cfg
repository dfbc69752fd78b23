\* One thread manages the guard while another inspects and redacts.
SPECIFICATION FairSpec
CONSTANTS
  pii = pii
  otherPii = otherPii
  secrets = secrets
  Detector = {pii, otherPii, secrets}
  Name = {"pii", "secrets"}
  NameOf <- MCNameOf
  NoDetector = NoDetector
  Admin = {admin}
  InitialDetectors <- OneDetector
  InitialCallbacks = {0}
  MaxCallbacks = 1
  Caller = {c}
  Finding <- OneFinding
  BuiltIn <- MCBuiltIn
  Settings <- OpenOnly
  Threshold = {"medium"}
  EmitEvents = {FALSE}
  CallbacksManage = FALSE
INVARIANTS
  UniqueNames
  DisabledAreRegistered
  EachRunsOnce
PROPERTY CallsEnd
