----------------------------- MODULE ModelLoader -----------------------------
(***************************************************************************)
(* core/models/loader.py with the provider lifecycle it drives              *)
(* (core/models/providers/{api,huggingface}.py) and the one call that uses   *)
(* it, InferenceEngine.predict (core/models/engine.py).                     *)
(*                                                                         *)
(* One loader is shared by threads.  get holds the loader's lock for the    *)
(* whole lookup-create-load-store sequence; release and clear only take it   *)
(* to remove entries and unload outside of it; predict uses the provider it  *)
(* got without any lock, so an unload may happen under it.                   *)
(*                                                                         *)
(* A provider object nobody refers to any more is garbage-collected: its     *)
(* identity may come back as a new object (Fresh), which keeps the model     *)
(* finite without a bound on the number of calls.                           *)
(***************************************************************************)
EXTENDS FiniteSets

CONSTANTS
  Thread,    \* threads that call the loader
  Key,       \* cache keys: the configurations _key tells apart
  Provider,  \* identities of provider objects; their number is a bound
  Backend,   \* Backend[k]: the provider class the factory creates for k
  None       \* Python's None

ASSUME NoneAssumption == None \notin Thread \cup Key \cup Provider
ASSUME BackendAssumption == Backend \in [Key -> {"api", "huggingface"}]

VARIABLES
  cache,    \* self._cache: [Key -> Provider or None]
  lock,     \* the thread that holds self._lock, or None
  handle,   \* the client (api) or pipeline (huggingface) of each provider
  config,   \* self.config of each provider, as the key it was created for
  pc,       \* where each thread is in its call
  arg,      \* the key its call is about, or None
  held,     \* the local variable `provider` of get and predict
  queue,    \* the providers its release or clear removed and has yet to unload
  outcome   \* how its last call ended, or its present one so far

vars == <<cache, lock, handle, config, pc, arg, held, queue, outcome>>

\* "new": created, not loaded; "open": usable; "closing": an API client that is
\* closed while the attribute still refers to it; "closed": the attribute is None.
Handle == {"new", "open", "closing", "closed"}

PC == {"idle", "get", "load", "store", "have", "reload", "post",
       "release", "clear", "unload"}

\* "escaped": an exception that is none of the library's ModelProviderError.
Outcome == {"ok", "ModelLoadError", "ModelInferenceError", "escaped"}

Cached == {cache[k] : k \in Key} \ {None}

\* A provider object that does not exist yet, or was garbage-collected.
Fresh(p) ==
  /\ p \notin Cached
  /\ \A t \in Thread : p # held[t] /\ p \notin queue[t]

Begin(t, label, k) ==
  /\ pc[t] = "idle"
  /\ pc' = [pc EXCEPT ![t] = label]
  /\ arg' = [arg EXCEPT ![t] = k]
  /\ outcome' = [outcome EXCEPT ![t] = "ok"]
  /\ UNCHANGED <<cache, lock, handle, config, held, queue>>

Goto(t, label) == pc' = [pc EXCEPT ![t] = label]

\* The call of t is over: it returned (result "ok") or raised.
Return(t, result) ==
  /\ pc' = [pc EXCEPT ![t] = "idle"]
  /\ arg' = [arg EXCEPT ![t] = None]
  /\ held' = [held EXCEPT ![t] = None]
  /\ outcome' = [outcome EXCEPT ![t] = result]

Init ==
  /\ cache = [k \in Key |-> None]
  /\ lock = None
  /\ handle = [p \in Provider |-> "new"]
  /\ config \in [Provider -> Key]
  /\ pc = [t \in Thread |-> "idle"]
  /\ arg = [t \in Thread |-> None]
  /\ held = [t \in Thread |-> None]
  /\ queue = [t \in Thread |-> {}]
  /\ outcome = [t \in Thread |-> "ok"]
-----------------------------------------------------------------------------
(* ModelLoader.get, called by InferenceEngine.predict *)

BeginPredict(t, k) == Begin(t, "get", k)

\* with self._lock: the key is cached; return the provider, release the lock.
GetCached(t) ==
  /\ pc[t] = "get"
  /\ lock = None
  /\ cache[arg[t]] # None
  /\ held' = [held EXCEPT ![t] = cache[arg[t]]]
  /\ Goto(t, "have")
  /\ UNCHANGED <<cache, lock, handle, config, arg, queue, outcome>>

\* Slip: the provider is put into the cache before it is loaded.
GetCreate_StoresFirst(t) ==
  /\ pc[t] = "get"
  /\ lock = None
  /\ cache[arg[t]] = None
  /\ lock' = t
  /\ \E p \in Provider :
       /\ Fresh(p)
       /\ held' = [held EXCEPT ![t] = p]
       /\ cache' = [cache EXCEPT ![arg[t]] = p]
       /\ handle' = [handle EXCEPT ![p] = "new"]
       /\ config' = [config EXCEPT ![p] = arg[t]]
  /\ Goto(t, "load")
  /\ UNCHANGED <<arg, queue, outcome>>

\* Slip: the lookup is done before the lock is taken and not repeated under it.
GetCreate_Unlocked(t) ==
  /\ pc[t] = "get"
  /\ cache[arg[t]] = None
  /\ lock' = t
  /\ \E p \in Provider :
       /\ Fresh(p)
       /\ held' = [held EXCEPT ![t] = p]
       /\ handle' = [handle EXCEPT ![p] = "new"]
       /\ config' = [config EXCEPT ![p] = arg[t]]
  /\ Goto(t, "load")
  /\ UNCHANGED <<cache, arg, queue, outcome>>

\* with self._lock: the key is missing; create a provider, keep the lock.
GetCreate(t) ==
  /\ pc[t] = "get"
  /\ lock = None
  /\ cache[arg[t]] = None
  /\ lock' = t
  /\ \E p \in Provider :
       /\ Fresh(p)
       /\ held' = [held EXCEPT ![t] = p]
       /\ handle' = [handle EXCEPT ![p] = "new"]
       /\ config' = [config EXCEPT ![p] = arg[t]]
  /\ Goto(t, "load")
  /\ UNCHANGED <<cache, arg, queue, outcome>>

\* provider.load() under the lock: a client or a pipeline is built.
LoadSucceeds(t) ==
  /\ pc[t] = "load"
  /\ handle' = [handle EXCEPT ![held[t]] = "open"]
  /\ Goto(t, "store")
  /\ UNCHANGED <<cache, lock, config, arg, held, queue, outcome>>

\* Slip: acquire and release instead of a with statement, no finally.
LoadFails_KeepsLock(t) ==
  /\ pc[t] = "load"
  /\ Return(t, "ModelLoadError")
  /\ UNCHANGED <<cache, lock, handle, config, queue>>

\* create() or load() raised: nothing is cached, the lock is released by the
\* with statement, and get raises ModelLoadError.
LoadFails(t) ==
  /\ pc[t] = "load"
  /\ lock' = None
  /\ Return(t, "ModelLoadError")
  /\ UNCHANGED <<cache, handle, config, queue>>

GetStore(t) ==
  /\ pc[t] = "store"
  /\ cache' = [cache EXCEPT ![arg[t]] = held[t]]
  /\ lock' = None
  /\ Goto(t, "have")
  /\ UNCHANGED <<handle, config, arg, held, queue, outcome>>
-----------------------------------------------------------------------------
(* ModelProvider.predict, on the provider get returned, without a lock *)

IsApi(p) == Backend[config[p]] = "api"

\* The state the provider reads first: a client or a pipeline it can see.
\* APIProvider raises when it sees none; HuggingFaceProvider loads one.
PredictCheck(t) ==
  LET p == held[t] IN
  /\ pc[t] = "have"
  /\ \/ /\ handle[p] \in {"open", "closing"}
        /\ Goto(t, "post")
        /\ UNCHANGED <<arg, held, outcome>>
     \/ /\ handle[p] = "closed"
        /\ IsApi(p)
        /\ Return(t, "ModelInferenceError")
     \/ /\ handle[p] = "closed"
        /\ ~IsApi(p)
        /\ Goto(t, "reload")
        /\ UNCHANGED <<arg, held, outcome>>
  /\ UNCHANGED <<cache, lock, handle, config, queue>>

ReloadSucceeds(t) ==
  /\ pc[t] = "reload"
  /\ handle' = [handle EXCEPT ![held[t]] = "open"]
  /\ Goto(t, "post")
  /\ UNCHANGED <<cache, lock, config, arg, held, queue, outcome>>

ReloadFails(t) ==
  /\ pc[t] = "reload"
  /\ Return(t, "ModelLoadError")
  /\ UNCHANGED <<cache, lock, handle, config, queue>>

\* self._client.post(...) or self._pipeline(...), reading the attribute again.
\* The request itself succeeds or fails; on a client closed or dropped since the
\* check, post raises RuntimeError or AttributeError, which except httpx.HTTPError
\* does not catch; a dropped pipeline's TypeError becomes ModelInferenceError.
PredictSend(t) ==
  LET p == held[t] IN
  /\ pc[t] = "post"
  /\ \/ /\ handle[p] = "open"
        /\ \E r \in {"ok", "ModelInferenceError"} : Return(t, r)
     \/ /\ handle[p] # "open"
        /\ Return(t, IF IsApi(p) THEN "escaped" ELSE "ModelInferenceError")
  /\ UNCHANGED <<cache, lock, handle, config, queue>>
-----------------------------------------------------------------------------
(* ModelLoader.release and ModelLoader.clear *)

BeginRelease(t, k) == Begin(t, "release", k)

BeginClear(t) == Begin(t, "clear", None)

\* Slip: no return when nothing was cached, so unload is called on None.
ReleasePop_NoNoneTest(t) ==
  /\ pc[t] = "release"
  /\ lock = None
  /\ queue' = [queue EXCEPT ![t] = {cache[arg[t]]}]
  /\ cache' = [cache EXCEPT ![arg[t]] = None]
  /\ Goto(t, "unload")
  /\ UNCHANGED <<lock, handle, config, arg, held, outcome>>

\* Slip: the entry is looked up, not popped.
ReleasePop_KeepsEntry(t) ==
  /\ pc[t] = "release"
  /\ lock = None
  /\ queue' = [queue EXCEPT ![t] = {cache[arg[t]]} \ {None}]
  /\ Goto(t, "unload")
  /\ UNCHANGED <<cache, lock, handle, config, arg, held, outcome>>

\* with self._lock: provider = self._cache.pop(key, None)
ReleasePop(t) ==
  /\ pc[t] = "release"
  /\ lock = None
  /\ queue' = [queue EXCEPT ![t] = {cache[arg[t]]} \ {None}]
  /\ cache' = [cache EXCEPT ![arg[t]] = None]
  /\ Goto(t, "unload")
  /\ UNCHANGED <<lock, handle, config, arg, held, outcome>>

\* with self._lock: providers = list(self._cache.values()); self._cache.clear()
ClearPop(t) ==
  /\ pc[t] = "clear"
  /\ lock = None
  /\ queue' = [queue EXCEPT ![t] = Cached]
  /\ cache' = [k \in Key |-> None]
  /\ Goto(t, "unload")
  /\ UNCHANGED <<lock, handle, config, arg, held, outcome>>

\* APIProvider.unload, first half: self._client.close().
CloseClient(t, p) ==
  /\ pc[t] = "unload"
  /\ p \in queue[t]
  /\ IsApi(p)
  /\ \A q \in queue[t] : handle[q] # "closing"
  /\ handle' = [handle EXCEPT ![p] = "closing"]
  /\ UNCHANGED <<cache, lock, config, pc, arg, held, queue, outcome>>

\* The attribute becomes None: the second half of APIProvider.unload, or the
\* whole of HuggingFaceProvider.unload.
DropHandle(t, p) ==
  /\ pc[t] = "unload"
  /\ p \in queue[t]
  /\ IsApi(p) => handle[p] = "closing"
  /\ handle' = [handle EXCEPT ![p] = "closed"]
  /\ queue' = [queue EXCEPT ![t] = @ \ {p}]
  /\ UNCHANGED <<cache, lock, config, pc, arg, held, outcome>>

\* Slip: clear lets the first failure out and forgets the other providers.
UnloadFails_StopsClear(t, p) ==
  /\ pc[t] = "unload"
  /\ p \in queue[t]
  /\ handle[p] = "closing"
  /\ queue' = [queue EXCEPT ![t] = {}]
  /\ outcome' = [outcome EXCEPT ![t] = "ModelLoadError"]
  /\ UNCHANGED <<cache, lock, handle, config, pc, arg, held>>

\* close() raised: the client stays as it is; release raises ModelLoadError,
\* clear remembers the error and goes on with the next provider.
UnloadFails(t, p) ==
  /\ pc[t] = "unload"
  /\ p \in queue[t]
  /\ handle[p] = "closing"
  /\ queue' = [queue EXCEPT ![t] = @ \ {p}]
  /\ outcome' = [outcome EXCEPT ![t] = "ModelLoadError"]
  /\ UNCHANGED <<cache, lock, handle, config, pc, arg, held>>

UnloadReturn(t) ==
  /\ pc[t] = "unload"
  /\ queue[t] = {}
  /\ Return(t, outcome[t])
  /\ UNCHANGED <<cache, lock, handle, config, queue>>
-----------------------------------------------------------------------------
GetStep(t) ==
  \/ GetCached(t)
  \/ GetCreate(t)
  \/ LoadSucceeds(t)
  \/ LoadFails(t)
  \/ GetStore(t)

PredictStep(t) ==
  \/ PredictCheck(t)
  \/ ReloadSucceeds(t)
  \/ ReloadFails(t)
  \/ PredictSend(t)

UnloadStep(t) ==
  \/ ReleasePop(t)
  \/ ClearPop(t)
  \/ \E p \in Provider : CloseClient(t, p) \/ DropHandle(t, p) \/ UnloadFails(t, p)
  \/ UnloadReturn(t)

\* What a thread does once it is in a call; starting one is its caller's choice.
Step(t) == GetStep(t) \/ PredictStep(t) \/ UnloadStep(t)

Call(t) ==
  \/ \E k \in Key : BeginPredict(t, k) \/ BeginRelease(t, k)
  \/ BeginClear(t)

Next == \E t \in Thread : Call(t) \/ Step(t)

Spec == Init /\ [][Next]_vars

\* A thread inside a call keeps running: loads, requests and unloads end.
FairSpec == Spec /\ \A t \in Thread : WF_vars(Step(t))
-----------------------------------------------------------------------------
(* What must hold *)

TypeOK ==
  /\ cache \in [Key -> Provider \cup {None}]
  /\ lock \in Thread \cup {None}
  /\ handle \in [Provider -> Handle]
  /\ config \in [Provider -> Key]
  /\ pc \in [Thread -> PC]
  /\ arg \in [Thread -> Key \cup {None}]
  /\ held \in [Thread -> Provider \cup {None}]
  /\ queue \in [Thread -> SUBSET Provider]
  /\ outcome \in [Thread -> Outcome]

\* Exactly the thread that is creating, loading or storing a provider holds the
\* loader's lock: two threads never load at the same time, and no way out of
\* get, the failing one included, leaves the lock taken behind it.
LockOwner ==
  \A t \in Thread : lock = t <=> pc[t] \in {"load", "store"}

\* What get hands out is usable at that moment: a cached provider has a client
\* or a pipeline, and was created for the configuration it is cached under.
CachedIsOpen ==
  \A k \in Key : cache[k] # None =>
    handle[cache[k]] = "open" /\ config[cache[k]] = k

\* One removal, one unload: a provider that a release or a clear has removed and
\* has yet to unload is in nobody else's hands, neither another release's or
\* clear's nor the cache's.
RetiredOnce ==
  \A t \in Thread :
    /\ queue[t] \cap Cached = {}
    /\ \A u \in Thread : t # u => queue[t] \cap queue[u] = {}

\* Every open HTTP client will be closed by somebody: it is cached, or about to
\* be, or a release or clear still has to unload it.  A failed unload of one
\* provider must not make clear forget the others.  (HuggingFace is left out:
\* a predict that reloads an unloaded pipeline drops it to the collector.)
NoOrphanClient ==
  \A p \in Provider :
    handle[p] = "open" /\ IsApi(p) =>
      \/ p \in Cached
      \/ \E t \in Thread : p \in queue[t]
      \/ \E t \in Thread : held[t] = p /\ pc[t] = "store"

\* The loader implements the atomic cache: each get, release and clear takes
\* effect at one step, whatever the others are doing in between.
Cache == INSTANCE ProviderCache WITH
  entry <- cache,
  retired <- queue,
  answer <- [t \in Thread |->
               IF pc[t] \in {"have", "reload", "post"} THEN held[t] ELSE None]

CacheRefined == Cache!CacheSpec

\* Nobody waits for ever: once callers stop starting new calls, every call that
\* has begun ends.  (threading.Lock is not fair, so nothing is promised to a
\* caller that others keep overtaking.)
CallsEnd ==
  <>[][\A t \in Thread : ~Call(t)]_vars => <>[](\A t \in Thread : pc[t] = "idle")

\* docs/models.md:574: "The provider maps every failure to one exception type".
FailuresAreProviderErrors ==
  \A t \in Thread : outcome[t] # "escaped"
=============================================================================
