-------------------------- MODULE ModelLoaderProofs --------------------------
(***************************************************************************)
(* Theorems about ModelLoader, for every set of threads, keys and providers *)
(* and every assignment of backends.                                        *)
(*                                                                         *)
(* The safety properties are not inductive one by one: that a stored        *)
(* provider is open needs what holds while it is being loaded, and that a    *)
(* removed provider is unloaded once needs who may refer to a provider in    *)
(* every state of a call.  LoaderInv collects what is needed.               *)
(***************************************************************************)
EXTENDS ModelLoader, TLAPS

\* A call has a key exactly where its code reads one.
ArgInv ==
  \A t \in Thread : pc[t] \notin {"idle", "clear", "unload"} => arg[t] \in Key

\* The local variable is bound exactly inside get's miss path and predict, and
\* only a release or clear past its lock has providers to unload.
LocalsInv ==
  \A t \in Thread :
    /\ held[t] # None <=> pc[t] \in {"load", "store", "have", "reload", "post"}
    /\ pc[t] # "unload" => queue[t] = {}

\* The provider being loaded is private to its thread and its key is missing
\* from the cache; it is open once load has returned and not before.
LoadingInv ==
  \A t \in Thread : pc[t] \in {"load", "store"} =>
    /\ cache[arg[t]] = None
    /\ held[t] \notin Cached
    /\ config[held[t]] = arg[t]
    /\ handle[held[t]] = IF pc[t] = "load" THEN "new" ELSE "open"
    /\ \A u \in Thread :
         /\ held[t] \notin queue[u]
         /\ u # t => held[u] # held[t]

\* Only a HuggingFace provider reloads itself inside predict.
ReloadInv ==
  \A t \in Thread : pc[t] = "reload" => ~IsApi(held[t])

CoreInv ==
  /\ TypeOK
  /\ ArgInv
  /\ LocalsInv

LoaderInv ==
  /\ LockOwner
  /\ LoadingInv
  /\ ReloadInv
  /\ CachedIsOpen
  /\ RetiredOnce
  /\ NoOrphanClient
-----------------------------------------------------------------------------
(* Type correctness *)

\* Types alone are not inductive: get indexes the cache by its argument and
\* predict reads its provider, so both must be bound where they are read.
LEMMA CoreStep == CoreInv /\ [Next]_vars => CoreInv'
<1> SUFFICES ASSUME CoreInv, [Next]_vars
             PROVE  CoreInv'
  OBVIOUS
<1> USE NoneAssumption
<1> USE DEF CoreInv, TypeOK, ArgInv, LocalsInv, Handle, PC, Outcome
<1>1. ASSUME NEW t \in Thread, Call(t)
      PROVE  CoreInv'
  BY <1>1 DEF Call, BeginPredict, BeginRelease, BeginClear, Begin
<1>2. ASSUME NEW t \in Thread, GetCached(t)
      PROVE  CoreInv'
  BY <1>2 DEF GetCached, Goto
<1>3. ASSUME NEW t \in Thread, GetCreate(t)
      PROVE  CoreInv'
  BY <1>3 DEF GetCreate, Goto
<1>4. ASSUME NEW t \in Thread, LoadSucceeds(t)
      PROVE  CoreInv'
  BY <1>4 DEF LoadSucceeds, Goto
<1>5. ASSUME NEW t \in Thread, LoadFails(t)
      PROVE  CoreInv'
  BY <1>5 DEF LoadFails, Return
<1>6. ASSUME NEW t \in Thread, GetStore(t)
      PROVE  CoreInv'
  BY <1>6 DEF GetStore, Goto
<1>7. ASSUME NEW t \in Thread, PredictCheck(t)
      PROVE  CoreInv'
  BY <1>7 DEF PredictCheck, Goto, Return
<1>8. ASSUME NEW t \in Thread, ReloadSucceeds(t)
      PROVE  CoreInv'
  BY <1>8 DEF ReloadSucceeds, Goto
<1>9. ASSUME NEW t \in Thread, ReloadFails(t)
      PROVE  CoreInv'
  BY <1>9 DEF ReloadFails, Return
<1>10. ASSUME NEW t \in Thread, PredictSend(t)
      PROVE  CoreInv'
  BY <1>10 DEF PredictSend, Return
<1>11. ASSUME NEW t \in Thread, ReleasePop(t)
      PROVE  CoreInv'
  BY <1>11 DEF ReleasePop, Goto
<1>12. ASSUME NEW t \in Thread, ClearPop(t)
      PROVE  CoreInv'
  BY <1>12 DEF ClearPop, Goto, Cached
<1>13. ASSUME NEW t \in Thread, UnloadReturn(t)
      PROVE  CoreInv'
  BY <1>13 DEF UnloadReturn, Return
<1>14. ASSUME NEW t \in Thread, NEW p \in Provider, CloseClient(t, p)
      PROVE  CoreInv'
  BY <1>14 DEF CloseClient
<1>15. ASSUME NEW t \in Thread, NEW p \in Provider, DropHandle(t, p)
      PROVE  CoreInv'
  BY <1>15 DEF DropHandle
<1>16. ASSUME NEW t \in Thread, NEW p \in Provider, UnloadFails(t, p)
      PROVE  CoreInv'
  BY <1>16 DEF UnloadFails
<1>17. CASE UNCHANGED vars
  BY <1>17 DEF vars
<1> QED
  BY <1>1, <1>2, <1>3, <1>4, <1>5, <1>6, <1>7, <1>8, <1>9, <1>10, <1>11, <1>12, <1>13, <1>14, <1>15, <1>16, <1>17
  DEF Next, Step, GetStep, PredictStep, UnloadStep

LEMMA CoreCorrect == Spec => []CoreInv
<1>1. Init => CoreInv
  BY NoneAssumption
  DEF Init, CoreInv, TypeOK, ArgInv, LocalsInv, Handle, PC, Outcome
<1> QED
  BY <1>1, CoreStep, PTL DEF Spec

\* Every variable keeps its type, whatever the callers do.
THEOREM TypeCorrect == Spec => []TypeOK
<1>1. CoreInv => TypeOK
  BY DEF CoreInv
<1> QED
  BY <1>1, CoreCorrect, PTL
-----------------------------------------------------------------------------
(* Safety *)

LEMMA LoaderStep == CoreInv /\ LoaderInv /\ [Next]_vars => LoaderInv'
<1> SUFFICES ASSUME CoreInv, LoaderInv, [Next]_vars
             PROVE  LoaderInv'
  OBVIOUS
<1> USE NoneAssumption
<1> USE DEF CoreInv, TypeOK, ArgInv, LocalsInv, Cached, IsApi, LoaderInv,
        LockOwner, LoadingInv, ReloadInv, CachedIsOpen, RetiredOnce, NoOrphanClient
<1>1. ASSUME NEW t \in Thread, Call(t)
      PROVE  LoaderInv'
  BY <1>1 DEF Call, BeginPredict, BeginRelease, BeginClear, Begin
<1>2. ASSUME NEW t \in Thread, GetCached(t)
      PROVE  LoaderInv'
  <2>1. LoadingInv'
    BY <1>2 DEF GetCached, Goto
  <2>2. (LockOwner /\ ReloadInv /\ CachedIsOpen /\ RetiredOnce /\ NoOrphanClient)'
    BY <1>2 DEF GetCached, Goto
  <2> QED
    BY <2>1, <2>2
<1>3. ASSUME NEW t \in Thread, GetCreate(t)
      PROVE  LoaderInv'
  <2>1. LockOwner'
    BY <1>3 DEF GetCreate, Goto, Fresh
  <2>2. LoadingInv'
    BY <1>3 DEF GetCreate, Goto, Fresh
  <2>3. CachedIsOpen'
    BY <1>3 DEF GetCreate, Goto, Fresh
  <2>4. NoOrphanClient'
    BY <1>3 DEF GetCreate, Goto, Fresh
  <2>5. (ReloadInv /\ RetiredOnce)'
    BY <1>3 DEF GetCreate, Goto, Fresh
  <2> QED
    BY <2>1, <2>2, <2>3, <2>4, <2>5
<1>4. ASSUME NEW t \in Thread, LoadSucceeds(t)
      PROVE  LoaderInv'
  <2>1. LockOwner'
    BY <1>4 DEF LoadSucceeds, Goto
  <2>2. LoadingInv'
    BY <1>4 DEF LoadSucceeds, Goto
  <2>3. CachedIsOpen'
    BY <1>4 DEF LoadSucceeds, Goto
  <2>4. NoOrphanClient'
    BY <1>4 DEF LoadSucceeds, Goto
  <2>5. (ReloadInv /\ RetiredOnce)'
    BY <1>4 DEF LoadSucceeds, Goto
  <2> QED
    BY <2>1, <2>2, <2>3, <2>4, <2>5
<1>5. ASSUME NEW t \in Thread, LoadFails(t)
      PROVE  LoaderInv'
  <2>1. LockOwner'
    BY <1>5 DEF LoadFails, Return
  <2>2. LoadingInv'
    BY <1>5 DEF LoadFails, Return
  <2>3. NoOrphanClient'
    BY <1>5 DEF LoadFails, Return
  <2>4. (ReloadInv /\ CachedIsOpen /\ RetiredOnce)'
    BY <1>5 DEF LoadFails, Return
  <2> QED
    BY <2>1, <2>2, <2>3, <2>4
<1>6. ASSUME NEW t \in Thread, GetStore(t)
      PROVE  LoaderInv'
  <2>1. LockOwner'
    BY <1>6 DEF GetStore, Goto
  <2>2. LoadingInv'
    BY <1>6 DEF GetStore, Goto
  <2>3. CachedIsOpen'
    BY <1>6 DEF GetStore, Goto
  <2>4. RetiredOnce'
    BY <1>6 DEF GetStore, Goto
  <2>5. NoOrphanClient'
    BY <1>6 DEF GetStore, Goto
  <2>6. ReloadInv'
    BY <1>6 DEF GetStore, Goto
  <2> QED
    BY <2>1, <2>2, <2>3, <2>4, <2>5, <2>6
<1>7. ASSUME NEW t \in Thread, PredictCheck(t)
      PROVE  LoaderInv'
  <2>1. LoadingInv'
    BY <1>7 DEF PredictCheck, Goto, Return
  <2>2. ReloadInv'
    BY <1>7 DEF PredictCheck, Goto, Return
  <2>3. (LockOwner /\ CachedIsOpen /\ RetiredOnce /\ NoOrphanClient)'
    BY <1>7 DEF PredictCheck, Goto, Return
  <2> QED
    BY <2>1, <2>2, <2>3
<1>8. ASSUME NEW t \in Thread, ReloadSucceeds(t)
      PROVE  LoaderInv'
  <2>1. LoadingInv'
    BY <1>8 DEF ReloadSucceeds, Goto
  <2>2. CachedIsOpen'
    BY <1>8 DEF ReloadSucceeds, Goto
  <2>3. NoOrphanClient'
    BY <1>8 DEF ReloadSucceeds, Goto
  <2>4. (LockOwner /\ ReloadInv /\ RetiredOnce)'
    BY <1>8 DEF ReloadSucceeds, Goto
  <2> QED
    BY <2>1, <2>2, <2>3, <2>4
<1>9. ASSUME NEW t \in Thread, ReloadFails(t)
      PROVE  LoaderInv'
  BY <1>9 DEF ReloadFails, Return
<1>10. ASSUME NEW t \in Thread, PredictSend(t)
      PROVE  LoaderInv'
  BY <1>10 DEF PredictSend, Return
<1>11. ASSUME NEW t \in Thread, ReleasePop(t)
      PROVE  LoaderInv'
  <2>1. LoadingInv'
    BY <1>11 DEF ReleasePop, Goto
  <2>2. CachedIsOpen'
    BY <1>11 DEF ReleasePop, Goto
  <2>3. RetiredOnce'
    BY <1>11 DEF ReleasePop, Goto
  <2>4. NoOrphanClient'
    BY <1>11 DEF ReleasePop, Goto
  <2>5. (LockOwner /\ ReloadInv)'
    BY <1>11 DEF ReleasePop, Goto
  <2> QED
    BY <2>1, <2>2, <2>3, <2>4, <2>5
<1>12. ASSUME NEW t \in Thread, ClearPop(t)
      PROVE  LoaderInv'
  <2>1. LoadingInv'
    BY <1>12 DEF ClearPop, Goto
  <2>2. CachedIsOpen'
    BY <1>12 DEF ClearPop, Goto
  <2>3. RetiredOnce'
    BY <1>12 DEF ClearPop, Goto
  <2>4. NoOrphanClient'
    BY <1>12 DEF ClearPop, Goto
  <2>5. (LockOwner /\ ReloadInv)'
    BY <1>12 DEF ClearPop, Goto
  <2> QED
    BY <2>1, <2>2, <2>3, <2>4, <2>5
<1>13. ASSUME NEW t \in Thread, UnloadReturn(t)
      PROVE  LoaderInv'
  BY <1>13 DEF UnloadReturn, Return
<1>14. ASSUME NEW t \in Thread, NEW p \in Provider, CloseClient(t, p)
      PROVE  LoaderInv'
  <2>1. LoadingInv'
    BY <1>14 DEF CloseClient
  <2>2. CachedIsOpen'
    BY <1>14 DEF CloseClient
  <2>3. NoOrphanClient'
    BY <1>14 DEF CloseClient
  <2>4. (LockOwner /\ ReloadInv /\ RetiredOnce)'
    BY <1>14 DEF CloseClient
  <2> QED
    BY <2>1, <2>2, <2>3, <2>4
<1>15. ASSUME NEW t \in Thread, NEW p \in Provider, DropHandle(t, p)
      PROVE  LoaderInv'
  <2>1. LoadingInv'
    BY <1>15 DEF DropHandle
  <2>2. CachedIsOpen'
    BY <1>15 DEF DropHandle
  <2>3. RetiredOnce'
    BY <1>15 DEF DropHandle
  <2>4. NoOrphanClient'
    BY <1>15 DEF DropHandle
  <2>5. (LockOwner /\ ReloadInv)'
    BY <1>15 DEF DropHandle
  <2> QED
    BY <2>1, <2>2, <2>3, <2>4, <2>5
<1>16. ASSUME NEW t \in Thread, NEW p \in Provider, UnloadFails(t, p)
      PROVE  LoaderInv'
  <2>1. RetiredOnce'
    BY <1>16 DEF UnloadFails
  <2>2. NoOrphanClient'
    BY <1>16 DEF UnloadFails
  <2>3. (LockOwner /\ LoadingInv /\ ReloadInv /\ CachedIsOpen)'
    BY <1>16 DEF UnloadFails
  <2> QED
    BY <2>1, <2>2, <2>3
<1>17. CASE UNCHANGED vars
  BY <1>17 DEF vars
<1> QED
  BY <1>1, <1>2, <1>3, <1>4, <1>5, <1>6, <1>7, <1>8, <1>9, <1>10, <1>11, <1>12, <1>13, <1>14, <1>15, <1>16, <1>17
  DEF Next, Step, GetStep, PredictStep, UnloadStep

LEMMA LoaderCorrect == Spec => [](CoreInv /\ LoaderInv)
<1>1. Init => LoaderInv
  BY NoneAssumption
  DEF Init, LoaderInv, LockOwner, LoadingInv, ReloadInv, CachedIsOpen,
      RetiredOnce, NoOrphanClient
<1> QED
  BY <1>1, LoaderStep, CoreCorrect, PTL DEF Spec

\* The lock is held by the loading thread and by nobody else: it is released on
\* every way out of get, also when a load raises.
THEOREM LockReleased == Spec => []LockOwner
<1>1. LoaderInv => LockOwner
  BY DEF LoaderInv
<1> QED
  BY <1>1, LoaderCorrect, PTL

\* get never hands out a cached provider that is not loaded, or that belongs to
\* another configuration, whatever is released, cleared or loaded meanwhile.
THEOREM CachedUsable == Spec => []CachedIsOpen
<1>1. LoaderInv => CachedIsOpen
  BY DEF LoaderInv
<1> QED
  BY <1>1, LoaderCorrect, PTL

\* No provider is unloaded by two callers, and none that the cache still serves.
THEOREM UnloadedOnce == Spec => []RetiredOnce
<1>1. LoaderInv => RetiredOnce
  BY DEF LoaderInv
<1> QED
  BY <1>1, LoaderCorrect, PTL

\* No open HTTP client is ever left without somebody to close it.
THEOREM NoClientForgotten == Spec => []NoOrphanClient
<1>1. LoaderInv => NoOrphanClient
  BY DEF LoaderInv
<1> QED
  BY <1>1, LoaderCorrect, PTL
-----------------------------------------------------------------------------
(* Refinement *)

\* A step of the loader is one step of the atomic cache, or none: storing and
\* reusing answer a get, the pops retire, the ends of unload and predict let go.
LEMMA CacheStep ==
  CoreInv /\ LoaderInv /\ [Next]_vars => [Cache!CacheNext]_(Cache!cacheVars)
<1> SUFFICES ASSUME CoreInv, LoaderInv, [Next]_vars
             PROVE  [Cache!CacheNext]_(Cache!cacheVars)
  OBVIOUS
<1> USE NoneAssumption
<1> USE DEF CoreInv, TypeOK, ArgInv, LocalsInv
<1>1. ASSUME NEW t \in Thread, Call(t)
      PROVE  UNCHANGED Cache!cacheVars
  BY <1>1 DEF Call, BeginPredict, BeginRelease, BeginClear, Begin, Cache!cacheVars
<1>2. ASSUME NEW t \in Thread, GetCached(t)
      PROVE  \E k \in Key : Cache!Reuse(t, k)
  <2>1. PICK k \in Key : k = arg[t]
    BY <1>2 DEF GetCached
  <2>2. Cache!Reuse(t, k)
    BY <1>2, <2>1 DEF GetCached, Goto, Cache!Reuse
  <2> QED
    BY <2>2
<1>3. ASSUME NEW t \in Thread, GetCreate(t)
      PROVE  UNCHANGED Cache!cacheVars
  BY <1>3 DEF GetCreate, Goto, Cache!cacheVars
<1>4. ASSUME NEW t \in Thread, LoadSucceeds(t)
      PROVE  UNCHANGED Cache!cacheVars
  BY <1>4 DEF LoadSucceeds, Goto, Cache!cacheVars
<1>5. ASSUME NEW t \in Thread, LoadFails(t)
      PROVE  UNCHANGED Cache!cacheVars
  BY <1>5 DEF LoadFails, Return, Cache!cacheVars
<1>6. ASSUME NEW t \in Thread, GetStore(t)
      PROVE  \E k \in Key : \E p \in Provider : Cache!Install(t, k, p)
  <2>1. cache[arg[t]] = None /\ held[t] \in Provider
    BY <1>6 DEF GetStore, LoaderInv, LoadingInv
  <2>2. held[t] \notin Cache!Installed \cup Cache!Retired
    BY <1>6 DEF GetStore, LoaderInv, LoadingInv, Cached, Cache!Installed, Cache!Retired
  <2>3. held[t] \notin Cache!InUse
    BY <1>6, <2>1 DEF GetStore, LoaderInv, LoadingInv, Cache!InUse
  <2>4. PICK k \in Key, p \in Provider : k = arg[t] /\ p = held[t]
    BY <1>6, <2>1 DEF GetStore
  <2>5. Cache!Install(t, k, p)
    BY <1>6, <2>1, <2>2, <2>3, <2>4 DEF GetStore, Goto, Cache!Install
  <2> QED
    BY <2>5
<1>7. ASSUME NEW t \in Thread, PredictCheck(t)
      PROVE  Cache!Forget(t) \/ UNCHANGED Cache!cacheVars
  <2>1. CASE Return(t, "ModelInferenceError")
    BY <1>7, <2>1 DEF PredictCheck, Return, Cache!Forget
  <2>2. CASE (Goto(t, "post") \/ Goto(t, "reload")) /\ UNCHANGED held
    BY <1>7, <2>2 DEF PredictCheck, Goto, Cache!cacheVars
  <2> QED
    BY <1>7, <2>1, <2>2 DEF PredictCheck
<1>8. ASSUME NEW t \in Thread, ReloadSucceeds(t)
      PROVE  UNCHANGED Cache!cacheVars
  BY <1>8 DEF ReloadSucceeds, Goto, Cache!cacheVars
<1>9. ASSUME NEW t \in Thread, ReloadFails(t)
      PROVE  Cache!Forget(t)
  BY <1>9 DEF ReloadFails, Return, Cache!Forget
<1>10. ASSUME NEW t \in Thread, PredictSend(t)
      PROVE  Cache!Forget(t)
  BY <1>10 DEF PredictSend, Return, Cache!Forget
<1>11. ASSUME NEW t \in Thread, ReleasePop(t)
      PROVE  \E K \in SUBSET Key : Cache!Retire(t, K)
  <2>1. {cache[k] : k \in {arg[t]}} = {cache[arg[t]]}
    OBVIOUS
  <2>2. cache' = [k \in Key |-> IF k \in {arg[t]} THEN None ELSE cache[k]]
    BY <1>11 DEF ReleasePop
  <2>3. queue' = [queue EXCEPT ![t] = {cache[k] : k \in {arg[t]}} \ {None}]
    BY <1>11, <2>1 DEF ReleasePop
  <2>4. arg[t] \in Key
    BY <1>11 DEF ReleasePop
  <2>5. Cache!Retire(t, {arg[t]})
    BY <1>11, <2>2, <2>3, <2>4 DEF ReleasePop, Goto, Cache!Retire
  <2> QED
    BY <2>4, <2>5, Zenon
<1>12. ASSUME NEW t \in Thread, ClearPop(t)
      PROVE  \E K \in SUBSET Key : Cache!Retire(t, K)
  <2>1. Cache!Retire(t, Key)
    BY <1>12 DEF ClearPop, Goto, Cached, Cache!Retire
  <2> QED
    BY <2>1, Zenon
<1>13. ASSUME NEW t \in Thread, NEW p \in Provider, CloseClient(t, p)
      PROVE  UNCHANGED Cache!cacheVars
  BY <1>13 DEF CloseClient, Cache!cacheVars
<1>14. ASSUME NEW t \in Thread, NEW p \in Provider, DropHandle(t, p)
      PROVE  Cache!Unloaded(t, p)
  BY <1>14 DEF DropHandle, Cache!Unloaded
<1>15. ASSUME NEW t \in Thread, NEW p \in Provider, UnloadFails(t, p)
      PROVE  Cache!Unloaded(t, p)
  BY <1>15 DEF UnloadFails, Cache!Unloaded
<1>16. ASSUME NEW t \in Thread, UnloadReturn(t)
      PROVE  UNCHANGED Cache!cacheVars
  BY <1>16 DEF UnloadReturn, Return, Cache!cacheVars
<1>17. ASSUME UNCHANGED vars
      PROVE  UNCHANGED Cache!cacheVars
  BY <1>17 DEF vars, Cache!cacheVars
<1> HIDE DEF CoreInv
<1> QED
  <2>1. ASSUME NEW t \in Thread, Call(t) \/ GetStep(t)
        PROVE  Cache!CacheNext \/ UNCHANGED Cache!cacheVars
    <3>1. CASE GetCached(t)
      <4>1. \E k \in Key : Cache!Reuse(t, k)
        BY <3>1, <1>2
      <4> QED
        BY <4>1, Zenon DEF Cache!CacheNext
    <3>2. CASE GetStore(t)
      <4>1. \E k \in Key : \E p \in Provider : Cache!Install(t, k, p)
        BY <3>2, <1>6
      <4> QED
        BY <4>1, Zenon DEF Cache!CacheNext
    <3> QED
      BY <2>1, <3>1, <3>2, <1>1, <1>3, <1>4, <1>5 DEF GetStep
  <2>2. ASSUME NEW t \in Thread, PredictStep(t)
        PROVE  Cache!CacheNext \/ UNCHANGED Cache!cacheVars
    BY <2>2, <1>7, <1>8, <1>9, <1>10 DEF PredictStep, Cache!CacheNext
  <2>3. ASSUME NEW t \in Thread, UnloadStep(t)
        PROVE  Cache!CacheNext \/ UNCHANGED Cache!cacheVars
    <3>1. CASE ReleasePop(t) \/ ClearPop(t)
      <4>1. \E K \in SUBSET Key : Cache!Retire(t, K)
        BY <3>1, <1>11, <1>12
      <4> QED
        BY <4>1, Zenon DEF Cache!CacheNext
    <3>2. CASE \E p \in Provider : CloseClient(t, p) \/ DropHandle(t, p) \/ UnloadFails(t, p)
      <4>1. (\E p \in Provider : Cache!Unloaded(t, p)) \/ UNCHANGED Cache!cacheVars
        BY <3>2, <1>13, <1>14, <1>15
      <4> QED
        BY <4>1, Zenon DEF Cache!CacheNext
    <3> QED
      BY <2>3, <3>1, <3>2, <1>16 DEF UnloadStep
  <2> QED
    BY <2>1, <2>2, <2>3, <1>17 DEF Next, Step

\* The loader implements the atomic cache.
THEOREM Refinement == Spec => CacheRefined
<1>1. Init => Cache!CacheInit
  BY DEF Init, Cache!CacheInit
<1> QED
  BY <1>1, CacheStep, LoaderCorrect, PTL DEF Spec, CacheRefined, Cache!CacheSpec
=============================================================================
