---------------------------- MODULE ProviderCache ----------------------------
(***************************************************************************)
(* What ModelLoader promises to the detectors that share it, whatever the   *)
(* locking inside: a cache of model providers whose lookups, fills and      *)
(* removals each happen at one instant.                                     *)
(*                                                                         *)
(*   - a fill only goes into an empty entry, with a provider nobody uses;   *)
(*   - a lookup answers with the provider installed at that instant;        *)
(*   - a removal takes providers out of the cache for good: what left it is *)
(*     retired, by one caller, until that caller has unloaded it.           *)
(*                                                                         *)
(* ModelLoader.tla implements this module (its Cache instance).             *)
(***************************************************************************)
CONSTANTS
  Thread,    \* the callers
  Key,       \* the cache keys, one per runtime model configuration
  Provider,  \* the identities of provider objects
  None       \* "no provider"

VARIABLES
  entry,    \* entry[k]: the provider installed for k, or None
  retired,  \* retired[t]: providers t took out of the cache and must unload
  answer    \* answer[t]: the provider t was last answered with and still uses

cacheVars == <<entry, retired, answer>>

Installed == {entry[k] : k \in Key} \ {None}
Retired == UNION {retired[t] : t \in Thread}
InUse == {answer[t] : t \in Thread} \ {None}

CacheTypeOK ==
  /\ entry \in [Key -> Provider \cup {None}]
  /\ retired \in [Thread -> SUBSET Provider]
  /\ answer \in [Thread -> Provider \cup {None}]

CacheInit ==
  /\ entry = [k \in Key |-> None]
  /\ retired = [t \in Thread |-> {}]
  /\ answer = [t \in Thread |-> None]

Install(t, k, p) ==
  /\ entry[k] = None
  /\ p \notin Installed \cup Retired \cup InUse
  /\ entry' = [entry EXCEPT ![k] = p]
  /\ answer' = [answer EXCEPT ![t] = p]
  /\ UNCHANGED retired

Reuse(t, k) ==
  /\ entry[k] # None
  /\ answer' = [answer EXCEPT ![t] = entry[k]]
  /\ UNCHANGED <<entry, retired>>

\* Take the entries of K out of the cache at once; t becomes responsible for
\* unloading exactly what it took out.
Retire(t, K) ==
  /\ entry' = [k \in Key |-> IF k \in K THEN None ELSE entry[k]]
  /\ retired' = [retired EXCEPT ![t] = {entry[k] : k \in K} \ {None}]
  /\ UNCHANGED answer

Unloaded(t, p) ==
  /\ p \in retired[t]
  /\ retired' = [retired EXCEPT ![t] = @ \ {p}]
  /\ UNCHANGED <<entry, answer>>

Forget(t) ==
  /\ answer' = [answer EXCEPT ![t] = None]
  /\ UNCHANGED <<entry, retired>>

CacheNext ==
  \E t \in Thread :
    \/ \E k \in Key : Reuse(t, k) \/ \E p \in Provider : Install(t, k, p)
    \/ \E K \in SUBSET Key : Retire(t, K)
    \/ \E p \in Provider : Unloaded(t, p)
    \/ Forget(t)

CacheSpec == CacheInit /\ [][CacheNext]_cacheVars
=============================================================================
