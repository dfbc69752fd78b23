\* Two threads; two API keys, so that clear has two clients to close, and a
\* HuggingFace key.  Where the three providers run out, a get waits for an unload.
SPECIFICATION FairSpec
CONSTANTS
  apiKey = apiKey
  otherApiKey = otherApiKey
  hfKey = hfKey
  Thread = {t1, t2}
  Key = {apiKey, otherApiKey, hfKey}
  Provider = {p1, p2, p3}
  Backend <- MCBackend
  None = None
INVARIANTS
  TypeOK
  LockOwner
  CachedIsOpen
  RetiredOnce
  NoOrphanClient
PROPERTIES
  CacheRefined
  CallsEnd
