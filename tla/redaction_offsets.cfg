\* A mixed detector's entities, applied after its rules have rewritten the text.
SPECIFICATION Spec
CONSTANTS
  email = email
  phone = phone
  note = note
  broken = broken
  Pattern = {email, phone, note, broken}
  SeverityOf <- MCSeverityOf
  Unusable = {broken}
  DefaultRulesOf <- MCDefaultRulesOf
  None = None
  Setups <- MCSetups
  Contents <- MCContents
  MarkerLength <- MCMarkerLength
INVARIANT EntitiesGone
