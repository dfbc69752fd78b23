\* Two tool calls at a time; the hooks and the model see up to three messages.
SPECIFICATION Spec
CONSTANTS
  loop = loop
  Loop = loop
  Tool = {t1, t2}
  Caller <- MCCaller
  Settings <- MCSettings
  Scans <- MCScans
  MaxMessages = 3
SYMMETRY Symmetry
\* The invocation returns or raises in the end.
CHECK_DEADLOCK FALSE
INVARIANT QuarantineStops
