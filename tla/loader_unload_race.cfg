\* One API key; a predict and a release are enough.
SPECIFICATION Spec
CONSTANTS
  apiKey = apiKey
  otherApiKey = otherApiKey
  hfKey = hfKey
  Thread = {t1, t2}
  Key = {apiKey}
  Provider = {p1, p2}
  Backend <- MCBackend
  None = None
INVARIANT FailuresAreProviderErrors
