\* Guards of one or two detectors, all types, contents of four characters.
SPECIFICATION Spec
CONSTANTS
  email = email
  phone = phone
  note = note
  broken = broken
  Pattern = {email, phone, note, broken}
  SeverityOf <- MCSeverityOf
  Unusable = {broken}
  DefaultRulesOf <- MCDefaultRulesOf
  None = None
  Setups <- MCSetups
  Contents <- MCContents
  MarkerLength <- MCMarkerLength
INVARIANTS
  TypeOK
  RuleFindingsBroken
  EntitiesGoneIfExact
  NothingElseLost
  FoundIsHandled
  QuietModelIsNeutral
  FailureIsNoAllClear
PROPERTY MaskingRefined
