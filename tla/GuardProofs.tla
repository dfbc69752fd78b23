------------------------------ MODULE GuardProofs ------------------------------
(***************************************************************************)
(* Theorems about a guard, for every set of detectors, names, callers,       *)
(* managing threads and settings: about its registry, managed by one thread  *)
(* at a time in the midst of the calls, and about the calls, whatever is      *)
(* registered, removed and switched off meanwhile.                          *)
(***************************************************************************)
EXTENDS AgentGuard, SeverityPolicyProofs
-----------------------------------------------------------------------------
(* The registry, in the midst of inspections and redactions *)

\* Whoever manages the guard does so alone: one thread, or the callbacks of one
\* caller's events.  Two could both pass a check before either acts on it.
OneManager ==
  /\ \A a, b \in Admin : a = b
  /\ CallbacksManage => Admin = {} /\ \A c, d \in Caller : c = d

\* What a managing thread has found out still holds when it acts on it.
TaskInv ==
  \A a \in Admin :
    /\ task[a].do = "append" => ~Registered(NameOf[task[a].detector])
    /\ task[a].do = "pop" =>
         /\ task[a].at \in DOMAIN detectors
         /\ NameOf[detectors[task[a].at]] = task[a].name
    /\ task[a].do \in {"disable", "enable"} => Registered(task[a].name)

RegistryInv ==
  /\ RegistryTypeOK
  /\ UniqueNames
  /\ DisabledAreRegistered
  /\ TaskInv
-----------------------------------------------------------------------------
(* The list operations the registry is built from *)

\* Removing a place moves what follows it one place to the front.
LEMMA RemoveAtProperties ==
  ASSUME NEW S, NEW s \in Seq(S), NEW i \in 1..Len(s)
  PROVE  /\ RemoveAt(s, i) \in Seq(S)
         /\ Len(RemoveAt(s, i)) = Len(s) - 1
         /\ \A j \in 1..Len(s) - 1 :
              RemoveAt(s, i)[j] = IF j < i THEN s[j] ELSE s[j + 1]
<1> DEFINE front == SubSeq(s, 1, i - 1)
           back == SubSeq(s, i + 1, Len(s))
<1>0. Len(s) \in Nat /\ \A j \in 1..Len(s) : s[j] \in S
  BY ElementOfSeq, LenProperties
<1>1. /\ front \in Seq(S)
      /\ Len(front) = i - 1
      /\ \A j \in 1..i - 1 : front[j] = s[j]
  <2>1. \A j \in 1..i - 1 : s[j] \in S
    BY <1>0
  <2>2. /\ front \in Seq(S)
        /\ Len(front) = IF 1 <= i - 1 THEN (i - 1) - 1 + 1 ELSE 0
        /\ \A j \in 1..(i - 1) - 1 + 1 : front[j] = s[1 + j - 1]
    BY <1>0, <2>1, SubSeqProperties, 1 \in Int, i - 1 \in Int
  <2> QED
    BY <1>0, <2>2
<1>2. /\ back \in Seq(S)
      /\ Len(back) = Len(s) - i
      /\ \A j \in 1..Len(s) - i : back[j] = s[i + j]
  <2>1. \A j \in i + 1..Len(s) : s[j] \in S
    BY <1>0
  <2>2. /\ back \in Seq(S)
        /\ Len(back) = IF i + 1 <= Len(s) THEN Len(s) - (i + 1) + 1 ELSE 0
        /\ \A j \in 1..Len(s) - (i + 1) + 1 : back[j] = s[i + 1 + j - 1]
    BY <1>0, <2>1, SubSeqProperties, i + 1 \in Int, Len(s) \in Int
  <2> QED
    BY <1>0, <2>2
<1>3. RemoveAt(s, i) = front \o back
  BY DEF RemoveAt
<1> HIDE DEF front, back
<1>4. /\ front \o back \in Seq(S)
      /\ Len(front \o back) = Len(front) + Len(back)
      /\ \A j \in 1..Len(front) + Len(back) :
           (front \o back)[j] = IF j <= Len(front) THEN front[j] ELSE back[j - Len(front)]
  BY <1>1, <1>2, ConcatProperties
<1> QED
  BY <1>0, <1>1, <1>2, <1>3, <1>4

\* Where unregister_detector finds a name that is registered: the names being
\* unique, there is one place.
LEMMA PositionFound ==
  ASSUME detectors \in Seq(Detector), UniqueNames, NEW n, Registered(n)
  PROVE  /\ Position(n) \in DOMAIN detectors
         /\ NameOf[detectors[Position(n)]] = n
<1> DEFINE I == {i \in 1..Len(detectors) : NameOf[detectors[i]] = n}
<1>1. I # {} /\ I \subseteq Nat /\ DOMAIN detectors = 1..Len(detectors)
  BY LenProperties DEF Registered
<1>2. Position(n) = Min(I)
  BY <1>1 DEF Position, SelectInSeq
<1>3. \E x \in I : \A y \in I : x <= y
  <2>1. PICK x : x \in I
    BY <1>1
  <2>2. \A y \in I : y = x
    BY <1>1, <2>1 DEF UniqueNames, Unique
  <2> QED
    BY <1>1, <2>1, <2>2
<1>4. Min(I) \in I
  BY <1>3 DEF Min
<1> QED
  BY <1>1, <1>2, <1>4
-----------------------------------------------------------------------------
(* Each write keeps the types and the names apart *)

\* Appending a detector whose name is not registered adds that name alone.
LEMMA AppendKeeps ==
  ASSUME detectors \in Seq(Detector), UniqueNames,
         NEW d \in Detector, ~Registered(NameOf[d]), AppendDetector(d)
  PROVE  /\ detectors' \in Seq(Detector)
         /\ UniqueNames'
         /\ \A n : Registered(n)' <=> Registered(n) \/ n = NameOf[d]
<1>1. /\ detectors' \in Seq(Detector)
      /\ Len(detectors') = Len(detectors) + 1
      /\ \A i \in 1..Len(detectors) : detectors'[i] = detectors[i]
      /\ detectors'[Len(detectors) + 1] = d
  BY AppendProperties DEF AppendDetector
<1>2. /\ Len(detectors) \in Nat
      /\ DOMAIN detectors = 1..Len(detectors)
      /\ DOMAIN detectors' = 1..Len(detectors) + 1
  BY <1>1, LenProperties
<1>3. \A i \in DOMAIN detectors : NameOf[detectors[i]] # NameOf[d]
  BY DEF Registered
<1>4. UniqueNames'
  BY <1>1, <1>2, <1>3 DEF UniqueNames, Unique
<1>5. ASSUME NEW n
      PROVE  Registered(n)' <=> Registered(n) \/ n = NameOf[d]
  BY <1>1, <1>2 DEF Registered
<1> QED
  BY <1>1, <1>4, <1>5

\* Popping a detector takes its name away and no other.
LEMMA PopKeeps ==
  ASSUME detectors \in Seq(Detector), UniqueNames,
         NEW i \in DOMAIN detectors, detectors' = RemoveAt(detectors, i)
  PROVE  /\ detectors' \in Seq(Detector)
         /\ UniqueNames'
         /\ \A n : Registered(n)' <=> Registered(n) /\ n # NameOf[detectors[i]]
<1>1. Len(detectors) \in Nat /\ DOMAIN detectors = 1..Len(detectors)
  BY LenProperties
<1>2. /\ detectors' \in Seq(Detector)
      /\ Len(detectors') = Len(detectors) - 1
      /\ \A j \in 1..Len(detectors) - 1 :
           detectors'[j] = IF j < i THEN detectors[j] ELSE detectors[j + 1]
  BY <1>1, RemoveAtProperties
<1>3. DOMAIN detectors' = 1..Len(detectors) - 1
  BY <1>2, LenProperties
<1>4. UniqueNames'
  <2> SUFFICES ASSUME NEW j \in DOMAIN detectors', NEW k \in DOMAIN detectors',
                      NameOf[detectors'[j]] = NameOf[detectors'[k]]
               PROVE  j = k
    BY DEF UniqueNames, Unique
  <2>1. PICK a \in DOMAIN detectors :
          detectors'[j] = detectors[a] /\ a = IF j < i THEN j ELSE j + 1
    BY <1>1, <1>2, <1>3
  <2>2. PICK b \in DOMAIN detectors :
          detectors'[k] = detectors[b] /\ b = IF k < i THEN k ELSE k + 1
    BY <1>1, <1>2, <1>3
  <2>3. a = b
    BY <2>1, <2>2 DEF UniqueNames, Unique
  <2> QED
    BY <1>1, <1>3, <2>1, <2>2, <2>3
<1>5. ASSUME NEW n
      PROVE  Registered(n)' <=> Registered(n) /\ n # NameOf[detectors[i]]
  <2>1. ASSUME NEW j \in DOMAIN detectors', NameOf[detectors'[j]] = n
        PROVE  Registered(n) /\ n # NameOf[detectors[i]]
    <3>1. PICK a \in DOMAIN detectors : a # i /\ detectors'[j] = detectors[a]
      BY <1>1, <1>2, <1>3
    <3> QED
      BY <2>1, <3>1 DEF Registered, UniqueNames, Unique
  <2>2. ASSUME NEW a \in DOMAIN detectors, NameOf[detectors[a]] = n,
               n # NameOf[detectors[i]]
        PROVE  Registered(n)'
    <3>1. a # i
      BY <2>2
    <3>2. \E j \in DOMAIN detectors' : detectors'[j] = detectors[a]
      <4>1. CASE a < i
        BY <1>1, <1>2, <1>3, <4>1
      <4>2. CASE a > i
        <5>1. a - 1 \in DOMAIN detectors' /\ ~(a - 1 < i) /\ a - 1 + 1 = a
          BY <1>1, <1>3, <4>2
        <5> QED
          BY <1>2, <1>3, <5>1
      <4> QED
        BY <1>1, <3>1, <4>1, <4>2
    <3> QED
      BY <2>2, <3>2 DEF Registered
  <2> QED
    BY <2>1, <2>2 DEF Registered
<1> QED
  BY <1>2, <1>4, <1>5
-----------------------------------------------------------------------------
(* Steps of the whole guard, as the registry sees them *)

CallbackStep ==
  /\ CallbacksManage
  /\ ManageAtOnce
  /\ UNCHANGED task

RegistryStep == AdminStep \/ CallbackStep \/ UNCHANGED registryVars

\* Inspections and redactions leave the registry alone, but for their callbacks.
LEMMA StepOfRegistry == [Next]_vars => RegistryStep
<1> SUFFICES ASSUME [Next]_vars
             PROVE  RegistryStep
  OBVIOUS
<1> USE DEF RegistryStep, registryVars
<1>1. ASSUME NEW c \in Caller, BeginInspect(c) \/ BeginRedact(c)
      PROVE  RegistryStep
  BY <1>1 DEF BeginInspect, BeginRedact, Progress
<1>2. ASSUME NEW c \in Caller, InspectStep(c)
      PROVE  RegistryStep
  BY <1>2 DEF InspectStep, NextDetector, EndOfDetectors, SkipDisabled, NoMatch, Matches,
     DetectorFails, ReportErrors, PolicyDecides, PolicyFails, EmitDetections, Progress
<1>3. ASSUME NEW c \in Caller, RedactStep(c)
      PROVE  RegistryStep
  BY <1>3 DEF RedactStep, NotSelected, Redacts, RedactionFails, Progress
<1>4. ASSUME NEW c \in Caller, EventStep(c)
      PROVE  RegistryStep
  BY <1>4 DEF EventStep, EmitEvent, CallbackReturns, CallbackRaises, CallbackManages,
     EventDone, Progress, CallbackStep
<1>5. ASSUME NEW c \in Caller, EndStep(c)
      PROVE  RegistryStep
  BY <1>5 DEF EndStep, GoOn, BlockOnError, AllowOnPolicyError, RaiseOnError,
     RaiseValueError, Return, Finish, Progress
<1>6. CASE Manage
  BY <1>6 DEF Manage
<1>7. CASE UNCHANGED vars
  BY <1>7 DEF vars
<1> QED
  BY <1>1, <1>2, <1>3, <1>4, <1>5, <1>6, <1>7 DEF Next, CallStep
-----------------------------------------------------------------------------
(* The invariant *)

\* What a manager looks up as it begins is what it may rely on when it acts.
LEMMA BeginKeeps ==
  ASSUME RegistryInv, OneManager, NEW a \in Admin, AdminBegins(a)
  PROVE  RegistryInv'
<1> USE NameOfAssumption, CallbacksAssumption DEF RegistryInv, RegistryTypeOK
<1>0. \A b \in Admin : b = a
  BY DEF OneManager
<1>1. ASSUME NEW next \in Task, Start(a, next),
             next.do = "append" => ~Registered(NameOf[next.detector]),
             next.do = "pop" => /\ next.at \in DOMAIN detectors
                                /\ NameOf[detectors[next.at]] = next.name,
             next.do \in {"disable", "enable"} => Registered(next.name),
             next.do # "discard"
      PROVE  RegistryInv'
  <2>1. task' = [task EXCEPT ![a] = next] /\ task[a] = Idle
        /\ UNCHANGED <<detectors, disabled, callbacks>>
    BY <1>1 DEF Start
  <2>2. RegistryTypeOK'
    BY <2>1
  <2>3. UniqueNames'
    BY <2>1 DEF UniqueNames, Unique
  <2>4. DisabledAreRegistered'
    BY <1>0, <2>1 DEF DisabledAreRegistered, Registered, Idle
  <2>5. TaskInv'
    BY <1>0, <1>1, <2>1 DEF TaskInv, Registered
  <2> QED
    BY <2>2, <2>3, <2>4, <2>5
<1>2. ASSUME NEW d \in Detector, RegisterDetector(a, d)
      PROVE  RegistryInv'
  <2>1. [do |-> "append", detector |-> d] \in Task
    BY DEF Task
  <2> QED
    BY <1>1, <1>2, <2>1 DEF RegisterDetector
<1>3. ASSUME NEW n \in Name, UnregisterDetector(a, n)
      PROVE  RegistryInv'
  <2>1. /\ Position(n) \in DOMAIN detectors
        /\ NameOf[detectors[Position(n)]] = n
    BY <1>3, PositionFound DEF UnregisterDetector
  <2>2. [do |-> "pop", name |-> n, at |-> Position(n)] \in Task
    <3>1. Position(n) \in Nat \ {0}
      BY <2>1, LenProperties
    <3> QED
      BY <3>1 DEF Task
  <2> QED
    BY <1>1, <1>3, <2>1, <2>2 DEF UnregisterDetector
<1>4. ASSUME NEW n \in Name, DisableDetector(a, n) \/ EnableDetector(a, n)
      PROVE  RegistryInv'
  <2>1. /\ [do |-> "disable", name |-> n] \in Task
        /\ [do |-> "enable", name |-> n] \in Task
    BY DEF Task
  <2> QED
    BY <1>1, <1>4, <2>1 DEF DisableDetector, EnableDetector
<1>5. CASE RegisterCallback(a)
  <2>1. /\ UNCHANGED <<detectors, disabled, task>>
        /\ callbacks' \in 0..MaxCallbacks
    BY <1>5 DEF RegisterCallback, AddCallback
  <2> QED
    BY <2>1 DEF UniqueNames, Unique, DisabledAreRegistered, TaskInv, Registered
<1> QED
  BY <1>2, <1>3, <1>4, <1>5 DEF AdminBegins

\* A manager that acts on what it found leaves the registry in order.
LEMMA FinishKeeps ==
  ASSUME RegistryInv, OneManager, NEW a \in Admin, AdminFinishes(a)
  PROVE  RegistryInv'
<1> USE NameOfAssumption, CallbacksAssumption DEF RegistryInv, RegistryTypeOK
<1>0. /\ \A b \in Admin : b = a
      /\ task[a] \in Task
      /\ Idle \in Task
      /\ \A n \in Name : [do |-> "discard", name |-> n] \in Task
  BY DEF OneManager, Task
\* A name that is disabled without a detector is the one a has just removed.
<1>1. \A m \in disabled : Registered(m) \/ (task[a].do = "discard" /\ task[a].name = m)
  <2> SUFFICES ASSUME NEW m \in disabled, ~Registered(m)
               PROVE  task[a].do = "discard" /\ task[a].name = m
    OBVIOUS
  <2>1. task[a] = [do |-> "discard", name |-> m]
    BY <1>0 DEF DisabledAreRegistered
  <2> QED
    BY <2>1
<1>2. CASE FinishRegister(a)
  <2> DEFINE d == task[a].detector
  <2>1. d \in Detector /\ ~Registered(NameOf[d]) /\ AppendDetector(d) /\ Then(a, Idle)
    BY <1>0, <1>2 DEF FinishRegister, TaskInv, Task, Idle
  <2>2. /\ detectors' \in Seq(Detector)
        /\ UniqueNames'
        /\ \A n : Registered(n)' <=> Registered(n) \/ n = NameOf[d]
    BY <2>1, AppendKeeps
  <2>3. /\ task' = [task EXCEPT ![a] = Idle]
        /\ UNCHANGED <<disabled, callbacks>>
    BY <2>1 DEF AppendDetector, Then
  <2>4. DisabledAreRegistered'
    BY <1>2, <1>1, <2>2, <2>3 DEF DisabledAreRegistered, FinishRegister
  <2>5. TaskInv'
    BY <1>0, <2>3 DEF TaskInv, Idle
  <2> QED
    BY <1>0, <2>2, <2>3, <2>4, <2>5
<1>3. CASE PopFound(a)
  <2> DEFINE n == task[a].name
             i == task[a].at
  <2>1. /\ n \in Name
        /\ i \in DOMAIN detectors
        /\ NameOf[detectors[i]] = n
        /\ DOMAIN detectors = 1..Len(detectors)
        /\ task[a].do = "pop"
    BY <1>0, <1>3, LenProperties DEF PopFound, TaskInv, Task, Idle
  <2>2. PopDetector(i) /\ task' = [task EXCEPT ![a] = [do |-> "discard", name |-> n]]
    BY <1>3, <2>1, LenProperties DEF PopFound, Then
  <2>3. /\ detectors' \in Seq(Detector)
        /\ UniqueNames'
        /\ \A m : Registered(m)' <=> Registered(m) /\ m # n
    BY <2>1, <2>2, PopKeeps DEF PopDetector
  <2>4. UNCHANGED <<disabled, callbacks>>
    BY <2>2 DEF PopDetector
  <2>5. DisabledAreRegistered'
    <3>1. task'[a] = [do |-> "discard", name |-> n]
      BY <2>2
    <3>2. \A m \in disabled : Registered(m)
      BY <1>1, <2>1
    <3> QED
      BY <2>3, <2>4, <3>1, <3>2 DEF DisabledAreRegistered
  <2>6. TaskInv'
    BY <1>0, <2>2 DEF TaskInv
  <2> QED
    BY <1>0, <2>1, <2>2, <2>3, <2>4, <2>5, <2>6
<1>4. CASE FinishUnregister(a)
  <2>1. /\ disabled' = disabled \ {task[a].name}
        /\ task' = [task EXCEPT ![a] = Idle]
        /\ UNCHANGED <<detectors, callbacks>>
        /\ task[a].do = "discard"
    BY <1>4 DEF FinishUnregister, DiscardDisabled, Then
  <2>2. \A n : Registered(n)' <=> Registered(n)
    BY <2>1 DEF Registered
  <2>3. DisabledAreRegistered'
    BY <1>1, <2>1, <2>2 DEF DisabledAreRegistered
  <2>4. TaskInv'
    BY <1>0, <2>1 DEF TaskInv, Idle
  <2> QED
    BY <1>0, <2>1, <2>4, <2>3 DEF UniqueNames, Unique
<1>5. CASE FinishToggle(a)
  <2>1. /\ \/ task[a].do = "disable" /\ disabled' = disabled \cup {task[a].name}
           \/ task[a].do = "enable" /\ disabled' = disabled \ {task[a].name}
        /\ task' = [task EXCEPT ![a] = Idle]
        /\ UNCHANGED <<detectors, callbacks>>
    BY <1>5 DEF FinishToggle, AddDisabled, DiscardDisabled, Then
  <2>2. task[a].name \in Name /\ Registered(task[a].name)
    BY <1>0, <2>1 DEF TaskInv, Task, Idle
  <2>3. \A n : Registered(n)' <=> Registered(n)
    BY <2>1 DEF Registered
  <2>4. DisabledAreRegistered'
    BY <1>1, <2>1, <2>2, <2>3 DEF DisabledAreRegistered
  <2>5. TaskInv'
    BY <1>0, <2>1 DEF TaskInv, Idle
  <2> QED
    BY <1>0, <2>1, <2>2, <2>4, <2>5 DEF UniqueNames, Unique
<1> QED
  BY <1>2, <1>3, <1>4, <1>5 DEF AdminFinishes

\* So does a callback, which does at once what a manager does in steps.
LEMMA CallbackKeeps ==
  ASSUME RegistryInv, OneManager, CallbackStep
  PROVE  RegistryInv'
<1> USE NameOfAssumption, CallbacksAssumption DEF RegistryInv, RegistryTypeOK
<1>0. /\ Admin = {}
      /\ ManageAtOnce
      /\ UNCHANGED task
      /\ \A m \in disabled : Registered(m)
  BY DEF OneManager, CallbackStep, DisabledAreRegistered
<1>1. TaskInv'
  BY <1>0 DEF TaskInv
<1>2. ASSUME NEW d \in Detector, ~Registered(NameOf[d]), AppendDetector(d)
      PROVE  RegistryInv'
  <2>1. /\ detectors' \in Seq(Detector)
        /\ UniqueNames'
        /\ \A n : Registered(n)' <=> Registered(n) \/ n = NameOf[d]
    BY <1>2, AppendKeeps
  <2>2. UNCHANGED <<disabled, callbacks>>
    BY <1>2 DEF AppendDetector
  <2> QED
    BY <1>0, <1>1, <2>1, <2>2 DEF DisabledAreRegistered
<1>3. ASSUME NEW n \in Name, Registered(n),
             detectors' = RemoveAt(detectors, Position(n)),
             disabled' = disabled \ {n},
             UNCHANGED callbacks
      PROVE  RegistryInv'
  <2>1. /\ Position(n) \in DOMAIN detectors
        /\ NameOf[detectors[Position(n)]] = n
    BY <1>3, PositionFound
  <2>2. /\ detectors' \in Seq(Detector)
        /\ UniqueNames'
        /\ \A m : Registered(m)' <=> Registered(m) /\ m # n
    BY <1>3, <2>1, PopKeeps
  <2> QED
    BY <1>0, <1>1, <1>3, <2>2 DEF DisabledAreRegistered
<1>4. ASSUME NEW n \in Name, Registered(n), AddDisabled(n) \/ DiscardDisabled(n)
      PROVE  RegistryInv'
  <2>1. /\ disabled' \in SUBSET (disabled \cup {n})
        /\ UNCHANGED <<detectors, callbacks>>
    BY <1>4 DEF AddDisabled, DiscardDisabled
  <2>2. \A m : Registered(m)' <=> Registered(m)
    BY <2>1 DEF Registered
  <2> QED
    BY <1>0, <1>1, <1>4, <2>1, <2>2 DEF DisabledAreRegistered, UniqueNames, Unique
<1>5. CASE AddCallback
  <2>1. /\ UNCHANGED <<detectors, disabled>>
        /\ callbacks' \in 0..MaxCallbacks
    BY <1>5 DEF AddCallback
  <2> QED
    BY <1>0, <1>1, <2>1 DEF DisabledAreRegistered, UniqueNames, Unique, Registered
<1> QED
  BY <1>0, <1>2, <1>3, <1>4, <1>5 DEF ManageAtOnce

\* All of it holds whatever inspections, redactions and the manager do.
LEMMA RegistryInvariant == OneManager => (Spec => []RegistryInv)
<1> SUFFICES ASSUME OneManager
             PROVE  Spec => []RegistryInv
  OBVIOUS
<1>1. Init => RegistryInv
  <2> SUFFICES ASSUME Init
               PROVE  RegistryInv
    OBVIOUS
  <2>1. /\ detectors \in InitialDetectors
        /\ disabled = {}
        /\ callbacks \in InitialCallbacks
        /\ task = [a \in Admin |-> Idle]
    BY DEF Init, RegistryInit
  <2>2. RegistryTypeOK
    BY <2>1, InitialDetectorsAssumption, CallbacksAssumption DEF RegistryTypeOK, Task
  <2>3. UniqueNames /\ DisabledAreRegistered
    BY <2>1, InitialDetectorsAssumption DEF UniqueNames, DisabledAreRegistered
  <2>4. TaskInv
    BY <2>1 DEF TaskInv, Idle
  <2> QED
    BY <2>2, <2>3, <2>4 DEF RegistryInv
<1>2. RegistryInv /\ [Next]_vars => RegistryInv'
  <2> SUFFICES ASSUME RegistryInv, RegistryStep
               PROVE  RegistryInv'
    BY StepOfRegistry
  <2>1. ASSUME NEW a \in Admin, AdminBegins(a)
        PROVE  RegistryInv'
    BY <2>1, BeginKeeps
  <2>2. ASSUME NEW a \in Admin, AdminFinishes(a)
        PROVE  RegistryInv'
    BY <2>2, FinishKeeps
  <2>3. CASE CallbackStep
    BY <2>3, CallbackKeeps
  <2>4. CASE UNCHANGED registryVars
    BY <2>4 DEF registryVars, RegistryInv, RegistryTypeOK, UniqueNames, Unique,
       DisabledAreRegistered, TaskInv, Registered
  <2> QED
    BY <2>1, <2>2, <2>3, <2>4 DEF RegistryStep, AdminStep
<1> QED
  BY <1>1, <1>2, PTL DEF Spec
-----------------------------------------------------------------------------
\* Two detectors of a guard never have the same name, whatever its one manager
\* does while inspections and redactions go on.
THEOREM NamesStayUnique == OneManager => (Spec => []UniqueNames)
<1> SUFFICES ASSUME OneManager
             PROVE  Spec => []UniqueNames
  OBVIOUS
<1>1. RegistryInv => UniqueNames
  BY DEF RegistryInv
<1> QED
  BY <1>1, RegistryInvariant, PTL

\* The disabled set has no leftovers: a detector that is registered under a name
\* that was used before is switched on.
THEOREM NoLeftoverDisabled == OneManager => (Spec => []DisabledAreRegistered)
<1> SUFFICES ASSUME OneManager
             PROVE  Spec => []DisabledAreRegistered
  OBVIOUS
<1>1. RegistryInv => DisabledAreRegistered
  BY DEF RegistryInv
<1> QED
  BY <1>1, RegistryInvariant, PTL
-----------------------------------------------------------------------------
(* The calls *)

Result == [detector : Name, matches : SUBSET Label, model : Severity \cup {"none"}]
-----------------------------------------------------------------------------
(* Sequences and numbers *)

\* A registered name has a place in the list, whether or not others share it.
LEMMA PositionTyped ==
  ASSUME detectors \in Seq(Detector), NEW n, Registered(n)
  PROVE  Position(n) \in 1..Len(detectors)
<1> DEFINE I == {i \in 1..Len(detectors) : NameOf[detectors[i]] = n}
<1>1. I # {} /\ I \subseteq Nat /\ DOMAIN detectors = 1..Len(detectors)
  BY LenProperties DEF Registered
<1>2. Position(n) = Min(I)
  BY <1>1 DEF Position, SelectInSeq
<1>3. \E x \in I : \A y \in I : x <= y
  BY <1>1, LeastNumber
<1>4. Min(I) \in I
  BY <1>3 DEF Min
<1> QED
  BY <1>2, <1>4

\* What is appended to a list, and what is taken from its front.
LEMMA AppendTyped ==
  ASSUME NEW S, NEW s \in Seq(S), NEW e \in S
  PROVE  Append(s, e) \in Seq(S)
BY AppendProperties

-----------------------------------------------------------------------------
(* Types *)

\* The registry keeps its types whoever manages it.
LEMMA RegistryTyped ==
  ASSUME RegistryTypeOK, RegistryStep
  PROVE  RegistryTypeOK'
<1> USE NameOfAssumption, CallbacksAssumption DEF RegistryTypeOK
<1>0. Len(detectors) \in Nat /\ DOMAIN detectors = 1..Len(detectors)
  BY LenProperties
<1>1. ASSUME NEW a \in Admin, AdminBegins(a)
      PROVE  RegistryTypeOK'
  <2>1. ASSUME NEW d \in Detector, RegisterDetector(a, d)
        PROVE  RegistryTypeOK'
    BY <2>1 DEF RegisterDetector, Start, Task
  <2>2. ASSUME NEW n \in Name, UnregisterDetector(a, n)
        PROVE  RegistryTypeOK'
    <3>1. Position(n) \in Nat \ {0}
      BY <1>0, <2>2, PositionTyped DEF UnregisterDetector
    <3> QED
      BY <2>2, <3>1 DEF UnregisterDetector, Start, Task
  <2>3. ASSUME NEW n \in Name, DisableDetector(a, n) \/ EnableDetector(a, n)
        PROVE  RegistryTypeOK'
    BY <2>3 DEF DisableDetector, EnableDetector, Start, Task
  <2>4. CASE RegisterCallback(a)
    BY <2>4 DEF RegisterCallback, AddCallback
  <2> QED
    BY <1>1, <2>1, <2>2, <2>3, <2>4 DEF AdminBegins
<1>2. ASSUME NEW a \in Admin, AdminFinishes(a)
      PROVE  RegistryTypeOK'
  <2>0. task[a] \in Task
    OBVIOUS
  <2>1. CASE FinishRegister(a)
    <3>1. task[a].detector \in Detector
      BY <2>0, <2>1 DEF FinishRegister, Task, Idle
    <3>2. detectors' \in Seq(Detector)
      BY <2>1, <3>1, AppendTyped DEF FinishRegister, AppendDetector
    <3> QED
      BY <2>1, <3>2 DEF FinishRegister, AppendDetector, Then, Task
  <2>2. CASE PopFound(a)
    <3>1. task[a].name \in Name /\ task[a].at \in Nat \ {0}
      BY <2>0, <2>2 DEF PopFound, Task, Idle
    <3>2. CASE task[a].at <= Len(detectors) /\ PopDetector(task[a].at)
                 /\ Then(a, [do |-> "discard", name |-> task[a].name])
      <4>1. detectors' \in Seq(Detector)
        BY <1>0, <3>1, <3>2, RemoveAtProperties DEF PopDetector
      <4> QED
        BY <3>1, <3>2, <4>1 DEF PopDetector, Then, Task
    <3>3. CASE Then(a, Idle) /\ UNCHANGED <<detectors, disabled, callbacks>>
      BY <3>3 DEF Then, Task
    <3> QED
      BY <2>2, <3>2, <3>3 DEF PopFound
  <2>3. CASE FinishUnregister(a)
    BY <2>3 DEF FinishUnregister, DiscardDisabled, Then, Task
  <2>4. CASE FinishToggle(a)
    <3>1. task[a].do \in {"disable", "enable"}
      BY <2>4 DEF FinishToggle
    <3>2. task[a].name \in Name
      BY <2>0, <3>1 DEF Task, Idle
    <3> QED
      BY <2>4, <3>2 DEF FinishToggle, AddDisabled, DiscardDisabled, Then, Task
  <2> QED
    BY <1>2, <2>1, <2>2, <2>3, <2>4 DEF AdminFinishes
<1>3. CASE CallbackStep
  <2>0. ManageAtOnce /\ UNCHANGED task
    BY <1>3 DEF CallbackStep
  <2>1. ASSUME NEW d \in Detector, AppendDetector(d)
        PROVE  RegistryTypeOK'
    BY <2>0, <2>1, AppendTyped DEF AppendDetector
  <2>2. ASSUME NEW n \in Name, Registered(n), detectors' = RemoveAt(detectors, Position(n)),
               disabled' = disabled \ {n}, UNCHANGED callbacks
        PROVE  RegistryTypeOK'
    <3>1. detectors' \in Seq(Detector)
      BY <2>2, PositionTyped, RemoveAtProperties
    <3> QED
      BY <2>0, <2>2, <3>1
  <2>3. ASSUME NEW n \in Name, AddDisabled(n) \/ DiscardDisabled(n)
        PROVE  RegistryTypeOK'
    BY <2>0, <2>3 DEF AddDisabled, DiscardDisabled
  <2>4. CASE AddCallback
    BY <2>0, <2>4 DEF AddCallback
  <2> QED
    BY <2>0, <2>1, <2>2, <2>3, <2>4 DEF ManageAtOnce
<1>4. CASE UNCHANGED registryVars
  BY <1>4 DEF registryVars
<1> QED
  BY <1>1, <1>2, <1>3, <1>4 DEF RegistryStep, AdminStep

\* What types alone lack: a detector is bound while it runs, an action once the
\* policy has decided, an event while the callbacks are told of it.
Sound(now) ==
  /\ now \in Call
  /\ now.pc = "run" => now.current \in Detector
  /\ now.pc = "decided" => now.decision \in Action
  /\ now.pc = "notify" => now.pending # <<>>

TypeInv == TypeOK /\ \A c \in Caller : Sound(call[c])

\* All the calls of a new state are sound.
CallsSound ==
  /\ call \in [Caller -> Call]
  /\ \A c \in Caller : Sound(call[c])

LEMMA ProgressSound ==
  ASSUME TypeInv, NEW c \in Caller, NEW next, Sound(next), Progress(c, next)
  PROVE  CallsSound'
<1>1. call \in [Caller -> Call] /\ call' = [call EXCEPT ![c] = next] /\ next \in Call
  BY DEF TypeInv, TypeOK, Progress, Sound
<1>2. \A d \in Caller : call'[d] = IF d = c THEN next ELSE call[d]
  BY <1>1
<1>3. \A d \in Caller : Sound(call'[d])
  BY <1>2 DEF TypeInv
<1>4. CallsSound' <=> call' \in [Caller -> Call] /\ \A d \in Caller : Sound(call'[d])
  BY DEF CallsSound, Sound, Call, Events
<1> QED
  BY <1>1, <1>3, <1>4

\* Ending a call, remembering a run and witnessing a change keep it a call.
LEMMA EndedSound ==
  ASSUME NEW now \in Call,
         NEW outcome \in {"none", "returned", "PolicyEvaluationError", "RedactionError",
                          "ValueError"},
         NEW decision \in Action \cup {"none"}
  PROVE  Sound(Ended(now, outcome, decision))
<1>1. ASSUME NEW emit \in BOOLEAN, NEW cursor \in Nat \ {0}
      PROVE  [now EXCEPT !.pc = "over", !.after = "none", !.cursor = cursor, !.emit = emit,
                         !.outcome = outcome, !.decision = decision] \in Call
  BY DEF Call
<1>2. FALSE \in BOOLEAN /\ 1 \in Nat \ {0}
  OBVIOUS
<1>3. Ended(now, outcome, decision) \in Call
  BY <1>1, <1>2, Zenon DEF Ended
<1>4. Ended(now, outcome, decision).pc = "over"
  BY DEF Ended, Call
<1> QED
  BY <1>3, <1>4 DEF Sound

LEMMA NewCallSound ==
  ASSUME TypeInv, NEW op \in {"inspect", "redact"}
  PROVE  Sound(NewCall(op)) /\ NewCall(op).pc = "scan"
<1>1. NoCall \in Call
  BY CallbacksAssumption, EmptySeq DEF NoCall, Call
<1>2. Active \in SUBSET Detector
  <2>1. DOMAIN detectors = 1..Len(detectors) /\ \A i \in 1..Len(detectors) : detectors[i] \in Detector
    BY LenProperties, ElementOfSeq DEF TypeInv, TypeOK, RegistryTypeOK
  <2> QED
    BY <2>1 DEF Active, ToSet
<1>3. callbacks \in 0..MaxCallbacks
  BY DEF TypeInv, TypeOK, RegistryTypeOK
<1>4. NewCall(op) \in Call /\ NewCall(op).pc = "scan"
  BY <1>1, <1>2, <1>3 DEF NewCall, Call
<1> QED
  BY <1>4 DEF Sound

LEMMA WitnessSound ==
  ASSUME NEW now, Sound(now)
  PROVE  Sound(Witness(now))
<1>1. now.steady \cap Active' \in SUBSET Detector
  BY DEF Sound, Call
<1>2. (now.shrunk \/ Len(detectors') < Len(detectors)) \in BOOLEAN
  BY Zenon DEF Sound, Call
<1>3. ASSUME NEW steady \in SUBSET Detector, NEW shrunk \in BOOLEAN
      PROVE  Sound([now EXCEPT !.steady = steady, !.shrunk = shrunk])
  <2> DEFINE next == [now EXCEPT !.steady = steady, !.shrunk = shrunk]
  <2>1. next \in Call
    BY DEF Sound, Call
  <2>2. /\ next.pc = now.pc /\ next.current = now.current
        /\ next.pending = now.pending /\ next.decision = now.decision
    BY DEF Sound, Call
  <2> QED
    BY <2>1, <2>2 DEF Sound
<1>4. CASE now.pc = "over"
  BY <1>4 DEF Witness
<1>5. CASE now.pc # "over"
  BY <1>1, <1>2, <1>3, <1>5, Zenon DEF Witness
<1> QED
  BY <1>4, <1>5

LEMMA EventTyped ==
  ASSUME NEW type \in EventType, NEW action \in Action,
         NEW detector \in Name \cup {"policy", "callback"}
  PROVE  Event(type, action, detector) \in Events
BY DEF Event, Events

LEMMA FailActionTyped == FailAction \in Action
BY DEF FailAction, Action

LEMMA BeginSound ==
  ASSUME TypeInv, NEW c \in Caller, BeginInspect(c) \/ BeginRedact(c)
  PROVE  CallsSound'
<1>1. ASSUME NEW emit \in EmitEvents, Progress(c, [NewCall("inspect") EXCEPT !.emit = emit])
      PROVE  CallsSound'
  <2>1. /\ NewCall("inspect") \in Call /\ NewCall("inspect").pc = "scan"
        /\ emit \in BOOLEAN
    BY NewCallSound, EmitEventsAssumption DEF Sound
  <2>2. Sound([NewCall("inspect") EXCEPT !.emit = emit])
    BY <2>1 DEF Sound, Call
  <2> QED
    BY <1>1, <2>2, ProgressSound
<1>2. Sound(NewCall("redact")) /\ NewCall("redact").pc = "scan"
  BY NewCallSound
<1>3. Sound(Ended(NewCall("redact"), "ValueError", "none"))
  BY <1>2, EndedSound DEF Sound
<1>4. ASSUME NEW allowed \in SUBSET Name
      PROVE  Sound([NewCall("redact") EXCEPT !.allowed = allowed])
  BY <1>2 DEF Sound, Call
<1>5. ASSUME NEW threshold \in Threshold
      PROVE  LET results == call[c].results
                 level(i) == HighestResultSeverity(results[i])
             IN  {results[i].detector : i \in
                   {j \in DOMAIN results :
                      level(j) \in Severity /\ Rank[level(j)] >= Rank[threshold]}}
                   \in SUBSET Name
  <2>1. call[c].results \in Seq(Result)
    BY DEF TypeInv, TypeOK, Call, Result
  <2>2. \A i \in DOMAIN call[c].results : call[c].results[i] \in Result
    BY <2>1, LenProperties, ElementOfSeq
  <2> QED
    BY <2>2 DEF Result
<1>6. ASSUME NEW threshold \in Threshold,
             LET results == call[c].results
                 level(i) == HighestResultSeverity(results[i])
             IN  Progress(c,
                   IF \E i \in DOMAIN results : level(i) = "ValueError"
                   THEN Ended(NewCall("redact"), "ValueError", "none")
                   ELSE [NewCall("redact") EXCEPT !.allowed =
                          {results[i].detector : i \in
                             {j \in DOMAIN results :
                                level(j) \in Severity /\ Rank[level(j)] >= Rank[threshold]}}])
      PROVE  CallsSound'
  <2> DEFINE results == call[c].results
             level(i) == HighestResultSeverity(results[i])
             allowed == {results[i].detector : i \in
                           {j \in DOMAIN results :
                              level(j) \in Severity /\ Rank[level(j)] >= Rank[threshold]}}
  <2>1. allowed \in SUBSET Name
    BY <1>5
  <2>2. \/ Progress(c, Ended(NewCall("redact"), "ValueError", "none"))
        \/ Progress(c, [NewCall("redact") EXCEPT !.allowed = allowed])
    BY <1>6, Zenon
  <2> HIDE DEF allowed
  <2> QED
    BY <1>3, <1>4, <2>1, <2>2, ProgressSound
<1>7. CASE BeginInspect(c)
  BY <1>1, <1>7 DEF BeginInspect
<1>8. CASE BeginRedact(c)
  BY <1>2, <1>6, <1>8, ProgressSound DEF BeginRedact
<1> QED
  BY <1>7, <1>8

\* What a detector does, and what it leaves.
LEMMA RanSound ==
  ASSUME TypeInv, NEW c \in Caller, call[c].pc = "run",
         NEW label \in {"scan", "report", "emit"}
  PROVE  Sound(Ran(c, label)) /\ Ran(c, label).pc = label
<1>1. call[c] \in Call /\ call[c].current \in Detector
  BY DEF TypeInv, Sound
<1>2. Append(call[c].ran, call[c].current) \in Seq(Detector)
  BY <1>1, AppendTyped DEF Call
<1>3. Ran(c, label) \in Call /\ Ran(c, label).pc = label
  BY <1>1, <1>2 DEF Ran, Call
<1> QED
  BY <1>3 DEF Sound

LEMMA ScanSound ==
  ASSUME TypeInv, NEW c \in Caller, NextDetector(c) \/ EndOfDetectors(c) \/ SkipDisabled(c)
  PROVE  CallsSound'
<1>0. call[c] \in Call /\ detectors \in Seq(Detector)
  BY DEF TypeInv, TypeOK, RegistryTypeOK
<1>1. CASE NextDetector(c)
  <2>1. detectors[call[c].cursor] \in Detector /\ call[c].cursor + 1 \in Nat \ {0}
    <3>1. call[c].cursor \in Nat \ {0}
      BY <1>0 DEF Call
    <3> QED
      BY <1>0, <1>1, <3>1, ElementOfSeq, LenProperties DEF NextDetector
  <2>2. ASSUME NEW d \in Detector, NEW k \in Nat \ {0}
        PROVE  Sound([call[c] EXCEPT !.pc = "run", !.current = d, !.cursor = k])
    BY <1>0 DEF Sound, Call
  <2>3. Sound([call[c] EXCEPT !.pc = "run", !.current = detectors[call[c].cursor],
                              !.cursor = @ + 1])
    BY <2>1, <2>2
  <2> QED
    BY <1>1, <2>3, ProgressSound DEF NextDetector
<1>2. CASE EndOfDetectors(c)
  <2>1. Sound([call[c] EXCEPT !.pc = "report"])
    BY <1>0 DEF Sound, Call
  <2>2. Sound(Ended(call[c], "returned", "none"))
    BY <1>0, EndedSound
  <2> QED
    BY <1>2, <2>1, <2>2, ProgressSound DEF EndOfDetectors
<1>3. CASE SkipDisabled(c)
  <2>1. Sound([call[c] EXCEPT !.pc = "scan", !.current = NoDetector])
    BY <1>0 DEF Sound, Call
  <2> QED
    BY <1>3, <2>1, ProgressSound DEF SkipDisabled
<1> QED
  BY <1>1, <1>2, <1>3

LEMMA RunSound ==
  ASSUME TypeInv, NEW c \in Caller, NoMatch(c) \/ Matches(c) \/ DetectorFails(c)
  PROVE  CallsSound'
<1>0. call[c].pc = "run" /\ call[c] \in Call /\ call[c].current \in Detector
  BY DEF NoMatch, Matches, DetectorFails, Up, TypeInv, Sound
<1>1. CASE NoMatch(c)
  BY <1>0, <1>1, RanSound, ProgressSound DEF NoMatch
<1> DEFINE label == IF FailFast THEN "report" ELSE "scan"
<1>2. Ran(c, label) \in Call /\ Ran(c, label).pc \in {"report", "scan"}
  BY <1>0, RanSound DEF Sound
<1>3. Ran(c, label).results = call[c].results /\ Ran(c, label).errors = call[c].errors
  BY <1>0 DEF Ran, Call
<1>4. CASE Matches(c)
  <2>1. PICK f \in Finding :
          Progress(c, [Ran(c, label) EXCEPT
                         !.results = Append(@, [detector |-> NameOf[call[c].current],
                                                matches |-> f.matches, model |-> f.model])])
    BY <1>4 DEF Matches
  <2> DEFINE r == [detector |-> NameOf[call[c].current],
                   matches |-> f.matches, model |-> f.model]
  <2>2. r \in Result
    BY <1>0, FindingAssumption, NameOfAssumption DEF Result
  <2>3. Append(call[c].results, r) \in Seq(Result)
    BY <1>0, <2>2, AppendTyped DEF Call, Result
  <2> HIDE DEF r, label
  <2>4. ASSUME NEW results \in Seq(Result)
        PROVE  Sound([Ran(c, label) EXCEPT !.results = results])
    BY <1>2 DEF Sound, Call, Result
  <2>5. Sound([Ran(c, label) EXCEPT !.results = Append(@, r)])
    BY <1>2, <1>3, <2>3, <2>4
  <2> QED
    BY <2>1, <2>5, ProgressSound DEF r
<1>5. CASE DetectorFails(c)
  <2>1. Append(call[c].errors, call[c].current) \in Seq(Detector)
    BY <1>0, AppendTyped DEF Call
  <2>2. Progress(c, [Ran(c, label) EXCEPT !.errors = Append(@, call[c].current)])
    BY <1>5 DEF DetectorFails
  <2> HIDE DEF label
  <2>3. ASSUME NEW errors \in Seq(Detector)
        PROVE  Sound([Ran(c, label) EXCEPT !.errors = errors])
    BY <1>2 DEF Sound, Call
  <2>4. Sound([Ran(c, label) EXCEPT !.errors = Append(@, call[c].current)])
    BY <1>2, <1>3, <2>1, <2>3
  <2> QED
    BY <2>2, <2>4, ProgressSound
<1> QED
  BY <1>1, <1>4, <1>5

\* Going on to the events that are due, and to what follows them.
LEMMA EmitSound ==
  ASSUME NEW now \in Call, NEW pending \in Seq(Events),
         NEW after \in {"scan", "policy", "block", "allow", "raise", "ValueError", "return"}
  PROVE  Sound([now EXCEPT !.pc = "emit", !.pending = pending, !.after = after])
<1> DEFINE next == [now EXCEPT !.pc = "emit", !.pending = pending, !.after = after]
<1>1. next \in Call
  BY DEF Call
<1>2. next.pc = "emit"
  BY DEF Call
<1> QED
  BY <1>1, <1>2 DEF Sound

\* Each error of a call has a typed SYSTEM_FAILURE event.
LEMMA FailuresTyped ==
  ASSUME NEW errors \in Seq(Detector)
  PROVE  [i \in DOMAIN errors |-> Event("system_failure", FailAction, NameOf[errors[i]])]
           \in Seq(Events)
<1>1. DOMAIN errors = 1..Len(errors) /\ Len(errors) \in Nat
  BY LenProperties
<1>2. ASSUME NEW i \in 1..Len(errors)
      PROVE  Event("system_failure", FailAction, NameOf[errors[i]]) \in Events
  <2>1. NameOf[errors[i]] \in Name
    BY ElementOfSeq, NameOfAssumption
  <2>2. "system_failure" \in EventType
    BY DEF EventType
  <2> QED
    BY <2>1, <2>2, FailActionTyped, EventTyped
<1> QED
  BY <1>1, <1>2, IsASeq

LEMMA ReportSound ==
  ASSUME TypeInv, NEW c \in Caller, ReportErrors(c)
  PROVE  CallsSound'
<1> DEFINE pending == [i \in DOMAIN call[c].errors |->
                         Event("system_failure", FailAction, NameOf[call[c].errors[i]])]
           after == IF FailClosed /\ call[c].errors # <<>> THEN "block" ELSE "policy"
<1>1. call[c] \in Call
  BY DEF TypeInv, Sound
<1>2. pending \in Seq(Events)
  BY <1>1, FailuresTyped DEF Call
<1>3. after \in {"block", "policy"}
  OBVIOUS
<1>4. Progress(c, [call[c] EXCEPT !.pc = "emit", !.pending = pending, !.after = after])
  BY DEF ReportErrors
<1> HIDE DEF pending, after
<1>5. Sound([call[c] EXCEPT !.pc = "emit", !.pending = pending, !.after = after])
  BY <1>1, <1>2, <1>3, EmitSound
<1> QED
  BY <1>4, <1>5, ProgressSound

LEMMA PolicySound ==
  ASSUME TypeInv, NEW c \in Caller, PolicyDecides(c) \/ PolicyFails(c)
  PROVE  CallsSound'
<1>1. call[c] \in Call
  BY DEF TypeInv, Sound
<1>2. CASE PolicyDecides(c)
  <2>1. PICK action \in Action :
          Progress(c, [call[c] EXCEPT !.pc = "decided", !.decision = UnderMode(settings, action)])
    BY <1>2 DEF PolicyDecides
  <2>2. UnderMode(settings, action) \in Action
    BY DEF UnderMode, Action
  <2>3. ASSUME NEW decision \in Action
        PROVE  Sound([call[c] EXCEPT !.pc = "decided", !.decision = decision])
    <3> DEFINE next == [call[c] EXCEPT !.pc = "decided", !.decision = decision]
    <3>1. next \in Call
      BY <1>1 DEF Call
    <3>2. next.pc = "decided" /\ next.decision = decision
      BY <1>1 DEF Call
    <3> QED
      BY <3>1, <3>2 DEF Sound
  <2> QED
    BY <2>1, <2>2, <2>3, ProgressSound
<1>3. CASE PolicyFails(c)
  <2> DEFINE e == Event("policy_failure", FailAction, "policy")
             after == IF FailClosed THEN "raise" ELSE "allow"
  <2>1. e \in Events
    BY FailActionTyped, EventTyped DEF EventType
  <2>2. after \in {"raise", "allow"}
    OBVIOUS
  <2>3. Progress(c, [call[c] EXCEPT !.pc = "emit", !.pending = <<e>>, !.after = after])
    BY <1>3 DEF PolicyFails
  <2> HIDE DEF e, after
  <2>4. <<e>> \in Seq(Events)
    BY <2>1
  <2>5. Sound([call[c] EXCEPT !.pc = "emit", !.pending = <<e>>, !.after = after])
    BY <1>1, <2>2, <2>4, EmitSound
  <2> QED
    BY <2>3, <2>5, ProgressSound
<1> QED
  BY <1>2, <1>3

\* The results whose event can be built: those before the first bad label.
LEMMA PrefixTyped ==
  ASSUME NEW results \in Seq(Result), NEW bad \in SUBSET DOMAIN results, bad # {}
  PROVE  SubSeq(results, 1, (CHOOSE i \in bad : \A j \in bad : i <= j) - 1) \in Seq(Result)
<1> DEFINE first == CHOOSE i \in bad : \A j \in bad : i <= j
<1>1. Len(results) \in Nat /\ DOMAIN results = 1..Len(results)
  BY LenProperties
<1>2. \E i \in bad : \A j \in bad : i <= j
  BY <1>1, LeastNumber
<1>3. first \in 1..Len(results)
  BY <1>1, <1>2
<1> HIDE DEF first
<1>4. 1 \in Int /\ first - 1 \in Int /\ 1..(first - 1) \subseteq 1..Len(results)
  BY <1>1, <1>3
<1>5. \A i \in 1..(first - 1) : results[i] \in Result
  BY <1>4, ElementOfSeq
<1>6. SubSeq(results, 1, first - 1) \in Seq(Result)
  BY <1>4, <1>5, SubSeqProperties
<1> QED
  BY <1>6 DEF first

LEMMA DetectionsTyped ==
  ASSUME NEW results \in Seq(Result), NEW action \in Action
  PROVE  [i \in DOMAIN results |-> Event("detection", action, results[i].detector)]
           \in Seq(Events)
<1>1. DOMAIN results = 1..Len(results) /\ Len(results) \in Nat
  BY LenProperties
<1>2. ASSUME NEW i \in 1..Len(results)
      PROVE  Event("detection", action, results[i].detector) \in Events
  <2>1. results[i] \in Result
    BY ElementOfSeq
  <2>2. results[i].detector \in Name
    BY <2>1 DEF Result
  <2> QED
    BY <2>2, EventTyped DEF EventType
<1> QED
  BY <1>1, <1>2, IsASeq

LEMMA DetectionsSound ==
  ASSUME TypeInv, NEW c \in Caller, EmitDetections(c)
  PROVE  CallsSound'
<1> DEFINE results == call[c].results
           bad == {i \in DOMAIN results : HighestResultSeverity(results[i]) = "ValueError"}
           sound == IF bad = {} THEN results
                    ELSE SubSeq(results, 1, (CHOOSE i \in bad : \A j \in bad : i <= j) - 1)
           pending == IF call[c].emit
                      THEN [i \in DOMAIN sound |->
                             Event("detection", call[c].decision, sound[i].detector)]
                      ELSE <<>>
           after == IF call[c].emit /\ bad # {} THEN "ValueError" ELSE "return"
<1>1. /\ call[c] \in Call /\ call[c].decision \in Action
      /\ Progress(c, [call[c] EXCEPT !.pc = "emit", !.pending = pending, !.after = after])
  BY DEF EmitDetections, TypeInv, Sound
<1>2. results \in Seq(Result) /\ bad \in SUBSET DOMAIN results
  BY <1>1 DEF Call, Result
<1>3. sound \in Seq(Result)
  <2> HIDE DEF results, bad
  <2> QED
    BY <1>2, PrefixTyped
<1>4. pending \in Seq(Events)
  <2> HIDE DEF sound
  <2>1. [i \in DOMAIN sound |-> Event("detection", call[c].decision, sound[i].detector)]
          \in Seq(Events)
    BY <1>1, <1>3, DetectionsTyped
  <2>2. <<>> \in Seq(Events)
    BY EmptySeq
  <2> QED
    BY <2>1, <2>2
<1>5. after \in {"ValueError", "return"}
  OBVIOUS
<1> HIDE DEF pending, after
<1>6. Sound([call[c] EXCEPT !.pc = "emit", !.pending = pending, !.after = after])
  BY <1>1, <1>4, <1>5, EmitSound
<1> QED
  BY <1>1, <1>6, ProgressSound

LEMMA RedactSound ==
  ASSUME TypeInv, NEW c \in Caller, RedactStep(c)
  PROVE  CallsSound'
<1>0. call[c].pc = "run" /\ call[c] \in Call /\ call[c].current \in Detector
  BY DEF RedactStep, NotSelected, Redacts, RedactionFails, Up, TypeInv, Sound
<1>1. CASE NotSelected(c)
  <2>1. Sound([call[c] EXCEPT !.pc = "scan", !.current = NoDetector])
    BY <1>0 DEF Sound, Call
  <2> QED
    BY <1>1, <2>1, ProgressSound DEF NotSelected
<1>2. CASE Redacts(c)
  BY <1>0, <1>2, RanSound, ProgressSound DEF Redacts
<1>3. CASE RedactionFails(c)
  <2> DEFINE e == Event("system_failure", FailAction, NameOf[call[c].current])
             after == IF FailClosed THEN "raise" ELSE "scan"
  <2>1. Ran(c, "emit") \in Call /\ Ran(c, "emit").pc = "emit"
    BY <1>0, RanSound DEF Sound
  <2>2. Ran(c, "emit").errors = call[c].errors
    BY <1>0 DEF Ran, Call
  <2>3. Append(call[c].errors, call[c].current) \in Seq(Detector)
    BY <1>0, AppendTyped DEF Call
  <2>4. <<e>> \in Seq(Events)
    <3>1. NameOf[call[c].current] \in Name
      BY <1>0, NameOfAssumption
    <3>2. e \in Events
      BY <3>1, FailActionTyped, EventTyped DEF EventType
    <3> HIDE DEF e
    <3> QED
      BY <3>2
  <2>5. after \in {"raise", "scan"}
    OBVIOUS
  <2>6. Progress(c, [Ran(c, "emit") EXCEPT !.errors = Append(@, call[c].current),
                                           !.pending = <<e>>, !.after = after])
    BY <1>3 DEF RedactionFails
  <2>7. ASSUME NEW errors \in Seq(Detector), NEW pending \in Seq(Events),
               NEW label \in {"raise", "scan"}
        PROVE  Sound([Ran(c, "emit") EXCEPT !.errors = errors, !.pending = pending,
                                            !.after = label])
    BY <2>1 DEF Sound, Call
  <2> HIDE DEF e, after
  <2>8. Sound([Ran(c, "emit") EXCEPT !.errors = Append(@, call[c].current),
                                     !.pending = <<e>>, !.after = after])
    BY <2>1, <2>2, <2>3, <2>4, <2>5, <2>7
  <2> QED
    BY <2>6, <2>8, ProgressSound
<1> QED
  BY <1>1, <1>2, <1>3 DEF RedactStep

\* A callback is given the event that is up.
LEMMA GivenSound ==
  ASSUME TypeInv, NEW c \in Caller, call[c].pc = "notify", call[c].listener < callbacks
  PROVE  Sound(Given(c)) /\ Given(c).pc = "notify" /\ Given(c).pending = call[c].pending
<1> DEFINE now == call[c]
           n == now.listener + 1
           row == Append(now.heard[n], Head(now.pending))
<1>1. now \in Call /\ now.pending # <<>> /\ callbacks \in 0..MaxCallbacks
  BY DEF TypeInv, TypeOK, RegistryTypeOK, Sound
<1>2. n \in 1..MaxCallbacks /\ n \in 0..MaxCallbacks
  <2>1. now.listener \in 0..MaxCallbacks
    BY <1>1 DEF Call
  <2> QED
    BY <1>1, <2>1, CallbacksAssumption
<1>3. Head(now.pending) \in Events
  BY <1>1, HeadTailProperties DEF Call
<1>4. row \in Seq(Events)
  BY <1>1, <1>2, <1>3, AppendTyped DEF Call
<1>5. ASSUME NEW listener \in 0..MaxCallbacks, NEW k \in 1..MaxCallbacks,
             NEW events \in Seq(Events)
      PROVE  /\ [now EXCEPT !.listener = listener,
                             !.heard = [now.heard EXCEPT ![k] = events]] \in Call
             /\ [now EXCEPT !.listener = listener,
                             !.heard = [now.heard EXCEPT ![k] = events]].pc = now.pc
             /\ [now EXCEPT !.listener = listener,
                             !.heard = [now.heard EXCEPT ![k] = events]].pending = now.pending
  <2> DEFINE heard == [now.heard EXCEPT ![k] = events]
             next == [now EXCEPT !.listener = listener, !.heard = heard]
  <2>1. heard \in [1..MaxCallbacks -> Seq(Events)]
    BY <1>1 DEF Call
  <2> HIDE DEF heard
  <2>2. next \in Call /\ next.pc = now.pc /\ next.pending = now.pending
    BY <1>1, <2>1 DEF Call
  <2> QED
    BY <2>2 DEF heard
<1>6. Given(c) = [now EXCEPT !.listener = n, !.heard = [now.heard EXCEPT ![n] = row]]
  BY <1>1 DEF Given, Call
<1> HIDE DEF n, row
<1>7. /\ [now EXCEPT !.listener = n, !.heard = [now.heard EXCEPT ![n] = row]] \in Call
      /\ [now EXCEPT !.listener = n, !.heard = [now.heard EXCEPT ![n] = row]].pc = now.pc
      /\ [now EXCEPT !.listener = n,
                     !.heard = [now.heard EXCEPT ![n] = row]].pending = now.pending
  BY <1>2, <1>4, <1>5, Zenon
<1>8. Given(c) \in Call /\ Given(c).pc = now.pc /\ Given(c).pending = now.pending
  BY <1>6, <1>7, Zenon
<1> QED
  BY <1>1, <1>8 DEF Sound

\* What a change of the registry leaves of all the calls.
LEMMA WitnessedSound ==
  ASSUME TypeInv, NEW next \in [Caller -> Call], \A d \in Caller : Sound(next[d]),
         call' = [d \in Caller |-> Witness(next[d])]
  PROVE  CallsSound'
<1>1. \A d \in Caller : Sound(Witness(next[d]))
  BY WitnessSound
<1>2. \A d \in Caller : Sound(call'[d])
  BY <1>1
<1>3. call' \in [Caller -> Call]
  BY <1>1 DEF Sound
<1>4. CallsSound' <=> call' \in [Caller -> Call] /\ \A d \in Caller : Sound(call'[d])
  BY DEF CallsSound, Sound, Call, Events
<1> QED
  BY <1>2, <1>3, <1>4

LEMMA NotifySound ==
  ASSUME TypeInv, NEW c \in Caller, EventStep(c)
  PROVE  CallsSound'
<1>0. /\ call \in [Caller -> Call] /\ call[c] \in Call /\ 0 \in 0..MaxCallbacks
      /\ call[c].pending # <<>>
         => Head(call[c].pending) \in Events /\ Tail(call[c].pending) \in Seq(Events)
  <2>1. call \in [Caller -> Call] /\ call[c] \in Call
    BY DEF TypeInv, TypeOK
  <2>2. call[c].pending \in Seq(Events)
    BY <2>1 DEF Call
  <2>3. 0 \in 0..MaxCallbacks
    BY CallbacksAssumption
  <2> QED
    BY <2>1, <2>2, <2>3, HeadTailProperties
<1>1. CASE EmitEvent(c)
  <2>1. Append(call[c].trail, Head(call[c].pending)) \in Seq(Events)
    BY <1>0, <1>1, AppendTyped DEF EmitEvent, Call
  <2>2. ASSUME NEW trail \in Seq(Events), NEW k \in 0..MaxCallbacks
        PROVE  Sound([call[c] EXCEPT !.pc = "notify", !.trail = trail, !.listener = k])
    <3> DEFINE next == [call[c] EXCEPT !.pc = "notify", !.trail = trail, !.listener = k]
    <3>1. next \in Call
      BY <1>0 DEF Call
    <3>2. next.pc = "notify" /\ next.pending # <<>>
      BY <1>0, <1>1 DEF EmitEvent, Call
    <3> QED
      BY <3>1, <3>2 DEF Sound
  <2>3. Sound([call[c] EXCEPT !.pc = "notify",
                              !.trail = Append(@, Head(call[c].pending)), !.listener = 0])
    BY <1>0, <2>1, <2>2, Zenon
  <2> QED
    BY <1>1, <2>3, ProgressSound DEF EmitEvent
<1>2. ASSUME call[c].pc = "notify", call[c].listener < callbacks
      PROVE  Sound(Given(c)) /\ Given(c).pc = "notify" /\ Given(c).pending # <<>>
  <2>1. call[c].pending # <<>>
    BY <1>2 DEF TypeInv, Sound
  <2> QED
    BY <1>2, <2>1, GivenSound
<1>3. CASE CallbackReturns(c)
  BY <1>2, <1>3, ProgressSound DEF CallbackReturns
<1>4. CASE CallbackRaises(c)
  <2> DEFINE e == Event("callback_failure", "warn", "callback")
  <2>1. Sound(Given(c)) /\ Given(c).pc = "notify" /\ Given(c).pending # <<>>
    BY <1>2, <1>4 DEF CallbackRaises
  <2>2. e \in Events
    BY EventTyped DEF EventType, Action
  <2>3. Progress(c, [Given(c) EXCEPT !.trail = Append(@, e)])
    BY <1>4 DEF CallbackRaises
  <2> HIDE DEF e
  <2>4. Append(Given(c).trail, e) \in Seq(Events)
    BY <2>1, <2>2, AppendTyped DEF Sound, Call
  <2>5. ASSUME NEW trail \in Seq(Events)
        PROVE  Sound([Given(c) EXCEPT !.trail = trail])
    <3> DEFINE next == [Given(c) EXCEPT !.trail = trail]
    <3>1. next \in Call /\ next.pc = "notify" /\ next.pending # <<>>
      BY <2>1 DEF Sound, Call
    <3> QED
      BY <3>1 DEF Sound
  <2> QED
    BY <2>3, <2>4, <2>5, ProgressSound
<1>5. CASE CallbackManages(c)
  <2> DEFINE next == [d \in Caller |-> IF d = c THEN Given(c) ELSE call[d]]
  <2>1. \A d \in Caller : Sound(next[d])
    BY <1>2, <1>5 DEF CallbackManages, TypeInv
  <2>2. next \in [Caller -> Call]
    BY <2>1 DEF Sound
  <2>3. call' = [d \in Caller |-> Witness(next[d])]
    BY <1>5 DEF CallbackManages
  <2> QED
    BY <2>1, <2>2, <2>3, WitnessedSound
<1>6. CASE EventDone(c)
  <2>1. call[c].pending # <<>>
    BY <1>6 DEF EventDone, TypeInv, Sound
  <2>2. ASSUME NEW pending \in Seq(Events), NEW k \in 0..MaxCallbacks
        PROVE  Sound([call[c] EXCEPT !.pc = "emit", !.pending = pending, !.listener = k])
    <3> DEFINE next == [call[c] EXCEPT !.pc = "emit", !.pending = pending, !.listener = k]
    <3>1. next \in Call /\ next.pc = "emit"
      BY <1>0 DEF Call
    <3> QED
      BY <3>1 DEF Sound
  <2>3. Sound([call[c] EXCEPT !.pc = "emit", !.pending = Tail(@), !.listener = 0])
    BY <1>0, <2>1, <2>2, Zenon
  <2> QED
    BY <1>6, <2>3, ProgressSound DEF EventDone
<1> QED
  BY <1>1, <1>3, <1>4, <1>5, <1>6 DEF EventStep

LEMMA FinishSound ==
  ASSUME TypeInv, NEW c \in Caller, EndStep(c)
  PROVE  CallsSound'
<1>0. call[c] \in Call
  BY DEF TypeInv, Sound
<1>1. CASE GoOn(c)
  <2>1. ASSUME NEW label \in {"policy", "scan"}
        PROVE  Sound([call[c] EXCEPT !.pc = label, !.after = "none"])
    BY <1>0 DEF Sound, Call
  <2>2. call[c].after \in {"policy", "scan"}
    BY <1>1 DEF GoOn, EventsOut
  <2> QED
    BY <1>1, <2>1, <2>2, ProgressSound DEF GoOn
<1>2. CASE BlockOnError(c)
  <2>1. Sound(Ended(call[c], "returned", "block"))
    BY <1>0, EndedSound DEF Action
  <2> QED
    BY <1>2, <2>1, ProgressSound DEF BlockOnError, Finish
<1>3. CASE AllowOnPolicyError(c)
  <2>1. ASSUME NEW action \in Action
        PROVE  Sound([call[c] EXCEPT !.pc = "decided", !.after = "none", !.decision = action])
    <3> DEFINE next == [call[c] EXCEPT !.pc = "decided", !.after = "none", !.decision = action]
    <3>1. next \in Call
      BY <1>0 DEF Call
    <3>2. next.pc = "decided" /\ next.decision = action
      BY <1>0 DEF Call
    <3> QED
      BY <3>1, <3>2 DEF Sound
  <2>2. "allow" \in Action
    BY DEF Action
  <2>3. Sound([call[c] EXCEPT !.pc = "decided", !.after = "none", !.decision = "allow"])
    BY <2>1, <2>2
  <2> QED
    BY <1>3, <2>3, ProgressSound DEF AllowOnPolicyError
<1>4. CASE RaiseOnError(c)
  <2> DEFINE outcome == IF call[c].op = "inspect" THEN "PolicyEvaluationError"
                        ELSE "RedactionError"
  <2>1. outcome \in {"PolicyEvaluationError", "RedactionError"}
    OBVIOUS
  <2> HIDE DEF outcome
  <2>2. Sound(Ended(call[c], outcome, "none"))
    BY <1>0, <2>1, EndedSound
  <2> QED
    BY <1>4, <2>2, ProgressSound DEF RaiseOnError, Finish, outcome
<1>5. CASE RaiseValueError(c)
  <2>1. Sound(Ended(call[c], "ValueError", "none"))
    BY <1>0, EndedSound
  <2> QED
    BY <1>5, <2>1, ProgressSound DEF RaiseValueError, Finish
<1>6. CASE Return(c)
  <2>1. Sound(Ended(call[c], "returned", call[c].decision))
    BY <1>0, EndedSound DEF Call
  <2> QED
    BY <1>6, <2>1, ProgressSound DEF Return, Finish
<1> QED
  BY <1>1, <1>2, <1>3, <1>4, <1>5, <1>6 DEF EndStep

\* A guard's settings are never changed.
LEMMA StepLeavesSettings ==
  ASSUME [Next]_vars
  PROVE  settings' = settings
<1>1. ASSUME NEW c \in Caller, BeginInspect(c) \/ BeginRedact(c)
      PROVE  settings' = settings
  BY <1>1 DEF BeginInspect, BeginRedact, Progress
<1>2. ASSUME NEW c \in Caller, InspectStep(c)
      PROVE  settings' = settings
  BY <1>2 DEF InspectStep, NextDetector, EndOfDetectors, SkipDisabled, NoMatch, Matches,
     DetectorFails, ReportErrors, PolicyDecides, PolicyFails, EmitDetections, Progress
<1>3. ASSUME NEW c \in Caller, RedactStep(c) \/ EventStep(c)
      PROVE  settings' = settings
  BY <1>3 DEF RedactStep, NotSelected, Redacts, RedactionFails, EventStep, EmitEvent,
     CallbackReturns, CallbackRaises, CallbackManages, EventDone, Progress
<1>4. ASSUME NEW c \in Caller, EndStep(c)
      PROVE  settings' = settings
  BY <1>4 DEF EndStep, GoOn, BlockOnError, AllowOnPolicyError, RaiseOnError, RaiseValueError,
     Return, Finish, Progress
<1>5. CASE Manage \/ UNCHANGED vars
  BY <1>5 DEF Manage, vars
<1> QED
  BY <1>1, <1>2, <1>3, <1>4, <1>5 DEF Next, CallStep

\* A call's steps and the managing threads' keep every type.
LEMMA TypeStep ==
  ASSUME TypeInv, [Next]_vars
  PROVE  TypeInv'
<1>1. CallsSound'
  <2>1. ASSUME NEW c \in Caller, BeginInspect(c) \/ BeginRedact(c)
        PROVE  CallsSound'
    BY <2>1, BeginSound
  <2>2. ASSUME NEW c \in Caller, InspectStep(c)
        PROVE  CallsSound'
    BY <2>2, ScanSound, RunSound, ReportSound, PolicySound, DetectionsSound DEF InspectStep
  <2>3. ASSUME NEW c \in Caller, CallStep(c)
        PROVE  CallsSound'
    BY <2>2, <2>3, RedactSound, NotifySound, FinishSound DEF CallStep
  <2>4. CASE Manage
    <3>1. call \in [Caller -> Call] /\ \A d \in Caller : Sound(call[d])
      BY DEF TypeInv, TypeOK
    <3> QED
      BY <2>4, <3>1, WitnessedSound DEF Manage
  <2>5. CASE UNCHANGED vars
    BY <2>5 DEF vars, CallsSound, TypeInv, TypeOK, Sound, Call, Events
  <2> QED
    BY <2>1, <2>3, <2>4, <2>5 DEF Next
<1>2. settings' = settings
  BY StepLeavesSettings
<1>3. RegistryTypeOK'
  BY StepOfRegistry, RegistryTyped DEF TypeInv, TypeOK
<1>4. (settings \in AllSettings)'
  BY <1>2 DEF TypeInv, TypeOK, AllSettings
<1> QED
  BY <1>1, <1>3, <1>4 DEF TypeInv, TypeOK, CallsSound

LEMMA TypeInit == Init => TypeInv
<1> SUFFICES ASSUME Init
             PROVE  TypeInv
  OBVIOUS
<1>1. RegistryTypeOK
  BY InitialDetectorsAssumption, CallbacksAssumption
     DEF Init, RegistryInit, RegistryTypeOK, Task
<1>2. settings \in AllSettings
  BY SettingsAssumption DEF Init
<1>3. NoCall \in Call /\ NoCall.pc = "over"
  BY CallbacksAssumption, EmptySeq DEF NoCall, Call
<1>4. \A c \in Caller : Sound(call[c])
  BY <1>3 DEF Init, Sound
<1>5. call \in [Caller -> Call]
  BY <1>3 DEF Init
<1> QED
  BY <1>1, <1>2, <1>4, <1>5 DEF TypeInv, TypeOK

\* The registry, the settings and every call keep their types, however the guard
\* is managed meanwhile: no thread has to be alone.
THEOREM TypeCorrect == Spec => []TypeOK
<1>1. Init => TypeInv
  BY TypeInit
<1>2. TypeInv /\ [Next]_vars => TypeInv'
  BY TypeStep
<1>3. TypeInv => TypeOK
  BY DEF TypeInv
<1> QED
  BY <1>1, <1>2, <1>3, PTL DEF Spec
-----------------------------------------------------------------------------
(* Fail closed *)

Failures == {"system_failure", "policy_failure"}

\* Once a failure is, or is about to be, in a call's trail, the only ways on are
\* BLOCK and an exception; until then nothing is known of a failure.
Closed(now) ==
  /\ now.pc \in {"emit", "notify"} /\ (Tells(now.trail, Failures) \/ Tells(now.pending, Failures))
       => now.after \in {"block", "raise"}
  /\ now.pc \notin {"emit", "notify", "over"} => ~Tells(now.trail, Failures)
  /\ now.pc = "over" /\ Tells(now.trail, Failures)
       => \/ now.decision = "block"
          \/ now.outcome \in {"PolicyEvaluationError", "RedactionError"}

ClosedInv == FailClosed => \A c \in Caller : Closed(call[c])

LEMMA TellsAppended ==
  ASSUME NEW s \in Seq(Events), NEW e \in Events, NEW types, Tells(Append(s, e), types)
  PROVE  Tells(s, types) \/ e.type \in types
<1>1. PICK i \in DOMAIN Append(s, e) : Append(s, e)[i].type \in types
  BY DEF Tells
<1>2. /\ Len(s) \in Nat /\ DOMAIN s = 1..Len(s)
      /\ DOMAIN Append(s, e) = 1..(Len(s) + 1)
      /\ \A j \in 1..Len(s) : Append(s, e)[j] = s[j]
      /\ Append(s, e)[Len(s) + 1] = e
  BY AppendProperties, LenProperties
<1>3. i \in 1..Len(s) \/ i = Len(s) + 1
  BY <1>2
<1> QED
  BY <1>1, <1>2, <1>3 DEF Tells

LEMMA TellsSplit ==
  ASSUME NEW s \in Seq(Events), s # <<>>, NEW types,
         Head(s).type \in types \/ Tells(Tail(s), types)
  PROVE  Tells(s, types)
<1>1. /\ Len(s) \in Nat \ {0} /\ DOMAIN s = 1..Len(s) /\ Head(s) = s[1]
      /\ Tail(s) \in Seq(Events) /\ Len(Tail(s)) = Len(s) - 1
      /\ \A i \in 1..Len(Tail(s)) : Tail(s)[i] = s[i + 1]
  BY HeadTailProperties, LenProperties, EmptySeq
<1>2. DOMAIN Tail(s) = 1..(Len(s) - 1)
  BY <1>1, LenProperties
<1>3. CASE Head(s).type \in types
  BY <1>1, <1>3 DEF Tells
<1>4. CASE Tells(Tail(s), types)
  <2>1. PICK i \in 1..(Len(s) - 1) : Tail(s)[i].type \in types
    BY <1>2, <1>4 DEF Tells
  <2>2. i + 1 \in 1..Len(s) /\ s[i + 1].type \in types
    BY <1>1, <2>1
  <2> QED
    BY <1>1, <2>2 DEF Tells
<1> QED
  BY <1>3, <1>4

LEMMA ProgressClosed ==
  ASSUME TypeInv, FailClosed, ClosedInv, NEW c \in Caller, NEW next, Closed(next),
         Progress(c, next)
  PROVE  ClosedInv'
<1>1. call' = [call EXCEPT ![c] = next] /\ call \in [Caller -> Call] /\ settings' = settings
  BY DEF TypeInv, TypeOK, Progress
<1>2. \A d \in Caller : call'[d] = IF d = c THEN next ELSE call[d]
  BY <1>1
<1>3. \A d \in Caller : Closed(call'[d])
  BY <1>2 DEF ClosedInv
<1> QED
  BY <1>3 DEF ClosedInv, Closed, Tells, Failures

\* A change of the registry is nothing to a call's failures.
LEMMA WitnessClosed ==
  ASSUME NEW now, now \in Call, Closed(now)
  PROVE  Closed(Witness(now))
<1>1. CASE now.pc = "over"
  BY <1>1 DEF Witness
<1>2. ASSUME NEW steady, NEW shrunk
      PROVE  Closed([now EXCEPT !.steady = steady, !.shrunk = shrunk])
  <2> DEFINE next == [now EXCEPT !.steady = steady, !.shrunk = shrunk]
  <2>1. /\ next.pc = now.pc /\ next.trail = now.trail /\ next.pending = now.pending
        /\ next.after = now.after /\ next.decision = now.decision
        /\ next.outcome = now.outcome
    BY DEF Call
  <2> HIDE DEF next
  <2>2. Closed(next)
    BY <2>1 DEF Closed
  <2> QED
    BY <2>2 DEF next
<1> QED
  BY <1>1, <1>2, Zenon DEF Witness

\* A step that emits nothing, of a call nothing has failed in.
LEMMA QuietClosed ==
  ASSUME TypeInv, FailClosed, ClosedInv, NEW c \in Caller, NEW next, Progress(c, next),
         call[c].pc \notin {"emit", "notify", "over"},
         next.pc \notin {"emit", "notify"}, next.trail = call[c].trail
  PROVE  ClosedInv'
<1>1. ~Tells(call[c].trail, Failures)
  BY DEF ClosedInv, Closed
<1>2. Closed(next)
  BY <1>1 DEF Closed
<1> QED
  BY <1>2, ProgressClosed

LEMMA RunClosed ==
  ASSUME TypeInv, FailClosed, ClosedInv, NEW c \in Caller,
         \/ NextDetector(c) \/ EndOfDetectors(c) \/ SkipDisabled(c)
         \/ NoMatch(c) \/ Matches(c) \/ DetectorFails(c) \/ PolicyDecides(c)
         \/ NotSelected(c) \/ Redacts(c)
  PROVE  ClosedInv'
<1>0. call[c] \in Call
  BY DEF TypeInv, Sound
<1>1. CASE NextDetector(c)
  <2> DEFINE next == [call[c] EXCEPT !.pc = "run", !.current = detectors[call[c].cursor],
                                     !.cursor = @ + 1]
  <2>1. next.pc = "run" /\ next.trail = call[c].trail
    BY <1>0 DEF Call
  <2> QED
    BY <1>1, <2>1, QuietClosed DEF NextDetector
<1>2. ASSUME NEW outcome, NEW decision
      PROVE  /\ Ended(call[c], outcome, decision).pc = "over"
             /\ Ended(call[c], outcome, decision).trail = call[c].trail
  BY <1>0 DEF Ended, Call
<1>3. ASSUME NEW label \in {"report", "scan"}, NEW current
      PROVE  /\ [call[c] EXCEPT !.pc = label].pc = label
             /\ [call[c] EXCEPT !.pc = label].trail = call[c].trail
             /\ [call[c] EXCEPT !.pc = label, !.current = current].pc = label
             /\ [call[c] EXCEPT !.pc = label, !.current = current].trail = call[c].trail
             /\ Ran(c, label).pc = label
             /\ Ran(c, label).trail = call[c].trail
  BY <1>0 DEF Ran, Call
<1>4. CASE EndOfDetectors(c)
  <2>1. call[c].pc = "scan"
    BY <1>4 DEF EndOfDetectors
  <2>2. CASE Progress(c, [call[c] EXCEPT !.pc = "report"])
    BY <1>3, <2>1, <2>2, QuietClosed
  <2>3. CASE Progress(c, Ended(call[c], "returned", "none"))
    BY <1>2, <2>1, <2>3, QuietClosed
  <2> QED
    BY <1>4, <2>2, <2>3 DEF EndOfDetectors
<1>5. CASE SkipDisabled(c)
  BY <1>3, <1>5, QuietClosed DEF SkipDisabled
<1>6. CASE NoMatch(c)
  BY <1>3, <1>6, QuietClosed DEF NoMatch, Up
<1> DEFINE label == IF FailFast THEN "report" ELSE "scan"
<1>7. /\ Ran(c, label).pc \in {"report", "scan"} /\ Ran(c, label).trail = call[c].trail
      /\ label \in {"report", "scan"}
  BY <1>3
<1>8. ASSUME NEW next, call[c].pc = "run",
             \/ \E results : next = [Ran(c, label) EXCEPT !.results = results]
             \/ \E errors : next = [Ran(c, label) EXCEPT !.errors = errors]
      PROVE  next.pc = Ran(c, label).pc /\ next.trail = Ran(c, label).trail
  <2>1. Ran(c, label) \in Call
    BY <1>7, <1>8, RanSound DEF Sound
  <2> HIDE DEF label
  <2> QED
    BY <1>8, <2>1 DEF Call
<1>9. CASE Matches(c)
  <2>1. PICK f \in Finding :
          Progress(c, [Ran(c, label) EXCEPT
                         !.results = Append(@, [detector |-> NameOf[call[c].current],
                                                matches |-> f.matches, model |-> f.model])])
    BY <1>9 DEF Matches
  <2> DEFINE next == [Ran(c, label) EXCEPT
                        !.results = Append(@, [detector |-> NameOf[call[c].current],
                                               matches |-> f.matches, model |-> f.model])]
  <2>2. call[c].pc = "run"
    BY <1>9 DEF Matches, Up
  <2>3. next.pc = Ran(c, label).pc /\ next.trail = Ran(c, label).trail
    BY <1>8, <2>2
  <2> HIDE DEF label, next
  <2> QED
    BY <1>7, <2>1, <2>2, <2>3, QuietClosed DEF next
<1>10. CASE DetectorFails(c)
  <2> DEFINE next == [Ran(c, label) EXCEPT !.errors = Append(@, call[c].current)]
  <2>1. Progress(c, next) /\ call[c].pc = "run"
    BY <1>10 DEF DetectorFails, Up
  <2>2. next.pc = Ran(c, label).pc /\ next.trail = Ran(c, label).trail
    BY <1>8, <2>1
  <2> HIDE DEF label, next
  <2> QED
    BY <1>7, <2>1, <2>2, QuietClosed
<1>11. CASE PolicyDecides(c)
  <2>1. PICK action \in Action :
          Progress(c, [call[c] EXCEPT !.pc = "decided", !.decision = UnderMode(settings, action)])
    BY <1>11 DEF PolicyDecides
  <2>2. ASSUME NEW decision
        PROVE  /\ [call[c] EXCEPT !.pc = "decided", !.decision = decision].pc = "decided"
               /\ [call[c] EXCEPT !.pc = "decided", !.decision = decision].trail = call[c].trail
    BY <1>0 DEF Call
  <2> QED
    BY <1>11, <2>1, <2>2, QuietClosed DEF PolicyDecides
<1>12. CASE NotSelected(c)
  BY <1>3, <1>12, QuietClosed DEF NotSelected, Up
<1>13. CASE Redacts(c)
  BY <1>3, <1>13, QuietClosed DEF Redacts, Up
<1> QED
  BY <1>1, <1>4, <1>5, <1>6, <1>9, <1>10, <1>11, <1>12, <1>13

\* A step that emits: what it emits may be a failure if it ends the call.
LEMMA EmitClosed ==
  ASSUME TypeInv, FailClosed, ClosedInv, NEW c \in Caller,
         call[c].pc \notin {"emit", "notify", "over"}, NEW next, Progress(c, next),
         next.pc = "emit", next.trail = call[c].trail,
         Tells(next.pending, Failures) => next.after \in {"block", "raise"}
  PROVE  ClosedInv'
<1>1. ~Tells(call[c].trail, Failures)
  BY DEF ClosedInv, Closed
<1>2. Closed(next)
  BY <1>1 DEF Closed
<1> QED
  BY <1>2, ProgressClosed

LEMMA FailureClosed ==
  ASSUME TypeInv, FailClosed, ClosedInv, NEW c \in Caller,
         ReportErrors(c) \/ PolicyFails(c) \/ EmitDetections(c) \/ RedactionFails(c)
  PROVE  ClosedInv'
<1>0. call[c] \in Call
  BY DEF TypeInv, Sound
<1>1. ASSUME NEW pending, NEW after
      PROVE  LET next == [call[c] EXCEPT !.pc = "emit", !.pending = pending, !.after = after]
             IN  /\ next.pc = "emit" /\ next.pending = pending /\ next.after = after
                 /\ next.trail = call[c].trail
  BY <1>0 DEF Call
<1>2. ASSUME NEW pending, NEW after, Tells(pending, Failures) => after \in {"block", "raise"},
             call[c].pc \notin {"emit", "notify", "over"},
             Progress(c, [call[c] EXCEPT !.pc = "emit", !.pending = pending, !.after = after])
      PROVE  ClosedInv'
  <2> DEFINE next == [call[c] EXCEPT !.pc = "emit", !.pending = pending, !.after = after]
  <2>1. /\ next.pc = "emit" /\ next.pending = pending /\ next.after = after
        /\ next.trail = call[c].trail
    BY <1>1
  <2>2. Progress(c, next)
    BY <1>2
  <2> HIDE DEF next
  <2> QED
    BY <1>2, <2>1, <2>2, EmitClosed
<1>3. CASE ReportErrors(c)
  <2> DEFINE pending == [i \in DOMAIN call[c].errors |->
                           Event("system_failure", FailAction, NameOf[call[c].errors[i]])]
             after == IF FailClosed /\ call[c].errors # <<>> THEN "block" ELSE "policy"
  <2>1. call[c].errors = <<>> => DOMAIN call[c].errors = {}
    OBVIOUS
  <2>2. Tells(pending, Failures) => after = "block"
    BY <2>1 DEF Tells
  <2>3. /\ Progress(c, [call[c] EXCEPT !.pc = "emit", !.pending = pending, !.after = after])
        /\ call[c].pc = "report"
    BY <1>3 DEF ReportErrors
  <2> HIDE DEF pending, after
  <2> QED
    BY <1>2, <2>2, <2>3
<1>4. CASE PolicyFails(c)
  <2> DEFINE pending == <<Event("policy_failure", FailAction, "policy")>>
  <2>1. /\ Progress(c, [call[c] EXCEPT !.pc = "emit", !.pending = pending, !.after = "raise"])
        /\ call[c].pc = "policy"
    BY <1>4 DEF PolicyFails
  <2> HIDE DEF pending
  <2> QED
    BY <1>2, <2>1
<1>5. CASE EmitDetections(c)
  <2> DEFINE results == call[c].results
             bad == {i \in DOMAIN results : HighestResultSeverity(results[i]) = "ValueError"}
             sound == IF bad = {} THEN results
                      ELSE SubSeq(results, 1, (CHOOSE i \in bad : \A j \in bad : i <= j) - 1)
             pending == IF call[c].emit
                        THEN [i \in DOMAIN sound |->
                               Event("detection", call[c].decision, sound[i].detector)]
                        ELSE <<>>
             after == IF call[c].emit /\ bad # {} THEN "ValueError" ELSE "return"
  <2>1. /\ Progress(c, [call[c] EXCEPT !.pc = "emit", !.pending = pending, !.after = after])
        /\ call[c].pc = "decided"
    BY <1>5 DEF EmitDetections
  <2> HIDE DEF sound
  <2>2. ~Tells(pending, Failures)
    <3>1. CASE call[c].emit
      <4>1. DOMAIN pending = DOMAIN sound
        BY <3>1
      <4>2. \A i \in DOMAIN sound : pending[i].type = "detection"
        BY <3>1 DEF Event
      <4> QED
        BY <4>1, <4>2 DEF Tells, Failures
    <3>2. CASE ~call[c].emit
      BY <3>2 DEF Tells
    <3> QED
      BY <3>1, <3>2
  <2> HIDE DEF pending, after
  <2> QED
    BY <1>2, <2>1, <2>2
<1>6. CASE RedactionFails(c)
  <2> DEFINE pending == <<Event("system_failure", FailAction, NameOf[call[c].current])>>
             next == [Ran(c, "emit") EXCEPT !.errors = Append(@, call[c].current),
                                            !.pending = pending, !.after = "raise"]
  <2>1. Progress(c, next) /\ call[c].pc = "run"
    BY <1>6 DEF RedactionFails, Up
  <2>2. Ran(c, "emit").pc = "emit" /\ Ran(c, "emit").trail = call[c].trail
    BY <1>0 DEF Ran, Call
  <2>3. Ran(c, "emit") \in Call
    BY <2>1, RanSound DEF Sound
  <2> HIDE DEF pending
  <2>4. next.pc = "emit" /\ next.trail = call[c].trail /\ next.after = "raise"
    BY <2>2, <2>3 DEF Call
  <2> HIDE DEF next
  <2> QED
    BY <2>1, <2>4, EmitClosed
<1> QED
  BY <1>3, <1>4, <1>5, <1>6

LEMMA NotifyClosed ==
  ASSUME TypeInv, FailClosed, ClosedInv, NEW c \in Caller, EventStep(c)
  PROVE  ClosedInv'
<1>0. /\ call[c] \in Call /\ Closed(call[c]) /\ call[c].trail \in Seq(Events)
      /\ call[c].pending \in Seq(Events)
  BY DEF TypeInv, Sound, ClosedInv, Call
<1>1. call[c].pending # <<>>
        => Head(call[c].pending) \in Events
  BY <1>0, HeadTailProperties
\* A step that only moves events, or adds one that is about no failure.
<1>2. ASSUME NEW next, Progress(c, next), next.pc \in {"emit", "notify"},
             call[c].pc \in {"emit", "notify"}, next.after = call[c].after,
             Tells(next.trail, Failures) \/ Tells(next.pending, Failures)
               => Tells(call[c].trail, Failures) \/ Tells(call[c].pending, Failures)
      PROVE  ClosedInv'
  <2>1. Closed(next)
    BY <1>0, <1>2 DEF Closed
  <2> QED
    BY <1>2, <2>1, ProgressClosed
<1>3. CASE EmitEvent(c)
  <2> DEFINE next == [call[c] EXCEPT !.pc = "notify",
                                     !.trail = Append(@, Head(call[c].pending)), !.listener = 0]
  <2>1. Progress(c, next) /\ call[c].pc = "emit" /\ call[c].pending # <<>>
    BY <1>3 DEF EmitEvent
  <2>2. /\ next.pc = "notify" /\ next.after = call[c].after
        /\ next.pending = call[c].pending
        /\ next.trail = Append(call[c].trail, Head(call[c].pending))
    BY <1>0 DEF Call
  <2> HIDE DEF next
  <2>3. Tells(next.trail, Failures)
          => Tells(call[c].trail, Failures) \/ Tells(call[c].pending, Failures)
    BY <1>0, <1>1, <2>1, <2>2, TellsAppended, TellsSplit
  <2> QED
    BY <1>2, <2>1, <2>2, <2>3
<1>4. ASSUME call[c].pc = "notify", call[c].listener < callbacks
      PROVE  /\ Sound(Given(c)) /\ Given(c).pc = "notify" /\ Given(c).after = call[c].after
             /\ Given(c).trail = call[c].trail /\ Given(c).pending = call[c].pending
  <2>1. Sound(Given(c)) /\ Given(c).pc = "notify"
    BY <1>4, GivenSound
  <2>2. /\ Given(c).trail = call[c].trail /\ Given(c).pending = call[c].pending
        /\ Given(c).after = call[c].after
    BY <1>0 DEF Given, Call
  <2> QED
    BY <2>1, <2>2
<1>5. CASE CallbackReturns(c)
  BY <1>2, <1>4, <1>5 DEF CallbackReturns
<1>6. CASE CallbackRaises(c)
  <2> DEFINE e == Event("callback_failure", "warn", "callback")
             next == [Given(c) EXCEPT !.trail = Append(@, e)]
  <2>1. Progress(c, next) /\ call[c].pc = "notify" /\ call[c].listener < callbacks
    BY <1>6 DEF CallbackRaises
  <2>2. Given(c) \in Call
    BY <1>4, <2>1 DEF Sound
  <2>3. e \in Events /\ e.type \notin Failures
    <3>1. e \in Events
      BY EventTyped DEF EventType, Action
    <3>2. e.type = "callback_failure"
      BY DEF Event
    <3> QED
      BY <3>1, <3>2 DEF Failures
  <2> HIDE DEF e
  <2>4. /\ next.pc = "notify" /\ next.after = call[c].after
        /\ next.pending = call[c].pending /\ next.trail = Append(call[c].trail, e)
    BY <1>4, <2>1, <2>2 DEF Call
  <2> HIDE DEF next
  <2>5. Tells(next.trail, Failures) => Tells(call[c].trail, Failures)
    BY <1>0, <2>3, <2>4, TellsAppended
  <2> QED
    BY <1>2, <2>1, <2>4, <2>5
<1>7. CASE CallbackManages(c)
  <2> DEFINE given == [d \in Caller |-> IF d = c THEN Given(c) ELSE call[d]]
  <2>1. \A d \in Caller : given[d] \in Call /\ Closed(given[d])
    <3>1. Given(c) \in Call /\ Closed(Given(c))
      BY <1>0, <1>4, <1>7 DEF CallbackManages, Closed, Sound
    <3>2. ASSUME NEW d \in Caller
          PROVE  call[d] \in Call /\ Closed(call[d])
      BY DEF TypeInv, Sound, ClosedInv
    <3> QED
      BY <3>1, <3>2
  <2>2. \A d \in Caller : call'[d] = Witness(given[d])
    BY <1>7 DEF CallbackManages
  <2> HIDE DEF given
  <2>3. \A d \in Caller : Closed(call'[d])
    BY <2>1, <2>2, WitnessClosed
  <2> QED
    BY <2>3 DEF ClosedInv, Closed, Tells, Failures
<1>8. CASE EventDone(c)
  <2> DEFINE next == [call[c] EXCEPT !.pc = "emit", !.pending = Tail(@), !.listener = 0]
  <2>1. Progress(c, next) /\ call[c].pc = "notify" /\ call[c].pending # <<>>
    BY <1>8 DEF EventDone, TypeInv, Sound
  <2>2. /\ next.pc = "emit" /\ next.after = call[c].after
        /\ next.trail = call[c].trail /\ next.pending = Tail(call[c].pending)
    BY <1>0 DEF Call
  <2> HIDE DEF next
  <2>3. Tells(next.pending, Failures) => Tells(call[c].pending, Failures)
    BY <1>0, <2>1, <2>2, TellsSplit
  <2> QED
    BY <1>2, <2>1, <2>2, <2>3
<1> QED
  BY <1>3, <1>5, <1>6, <1>7, <1>8 DEF EventStep

LEMMA EndClosed ==
  ASSUME TypeInv, FailClosed, ClosedInv, NEW c \in Caller, EndStep(c)
  PROVE  ClosedInv'
<1>0. call[c] \in Call /\ Closed(call[c])
  BY DEF TypeInv, Sound, ClosedInv
<1>1. ASSUME NEW outcome, NEW decision
      PROVE  /\ Ended(call[c], outcome, decision).pc = "over"
             /\ Ended(call[c], outcome, decision).trail = call[c].trail
             /\ Ended(call[c], outcome, decision).outcome = outcome
             /\ Ended(call[c], outcome, decision).decision = decision
  BY <1>0 DEF Ended, Call
<1>2. ASSUME call[c].pc = "emit", call[c].after \notin {"block", "raise"}
      PROVE  ~Tells(call[c].trail, Failures)
  BY <1>0, <1>2 DEF Closed
<1>3. CASE GoOn(c)
  <2> DEFINE next == [call[c] EXCEPT !.pc = call[c].after, !.after = "none"]
  <2>1. Progress(c, next) /\ call[c].pc = "emit" /\ call[c].after \in {"policy", "scan"}
    BY <1>3 DEF GoOn, EventsOut
  <2>2. next.pc = call[c].after /\ next.trail = call[c].trail
    BY <1>0 DEF Call
  <2> HIDE DEF next
  <2>3. Closed(next)
    BY <1>2, <2>1, <2>2 DEF Closed
  <2> QED
    BY <2>1, <2>3, ProgressClosed
<1>4. CASE BlockOnError(c)
  <2>1. Closed(Ended(call[c], "returned", "block"))
    BY <1>1 DEF Closed
  <2> QED
    BY <1>4, <2>1, ProgressClosed DEF BlockOnError, Finish
<1>5. CASE AllowOnPolicyError(c)
  <2> DEFINE next == [call[c] EXCEPT !.pc = "decided", !.after = "none", !.decision = "allow"]
  <2>1. Progress(c, next) /\ call[c].pc = "emit" /\ call[c].after = "allow"
    BY <1>5 DEF AllowOnPolicyError, EventsOut
  <2>2. next.pc = "decided" /\ next.trail = call[c].trail
    BY <1>0 DEF Call
  <2> HIDE DEF next
  <2>3. Closed(next)
    BY <1>2, <2>1, <2>2 DEF Closed
  <2> QED
    BY <2>1, <2>3, ProgressClosed
<1>6. CASE RaiseOnError(c)
  <2> DEFINE outcome == IF call[c].op = "inspect" THEN "PolicyEvaluationError"
                        ELSE "RedactionError"
  <2>1. outcome \in {"PolicyEvaluationError", "RedactionError"}
    OBVIOUS
  <2>2. Progress(c, Ended(call[c], outcome, "none"))
    BY <1>6 DEF RaiseOnError, Finish
  <2> HIDE DEF outcome
  <2>3. Closed(Ended(call[c], outcome, "none"))
    BY <1>1, <2>1 DEF Closed
  <2> QED
    BY <2>2, <2>3, ProgressClosed
<1>7. CASE RaiseValueError(c) \/ Return(c)
  <2>1. ASSUME NEW outcome, NEW decision, Progress(c, Ended(call[c], outcome, decision))
        PROVE  ClosedInv'
    <3>1. ~Tells(call[c].trail, Failures)
      BY <1>2, <1>7 DEF RaiseValueError, Return, EventsOut
    <3>2. Closed(Ended(call[c], outcome, decision))
      BY <1>1, <3>1 DEF Closed
    <3> QED
      BY <2>1, <3>2, ProgressClosed
  <2> QED
    BY <1>7, <2>1 DEF RaiseValueError, Return, Finish
<1> QED
  BY <1>3, <1>4, <1>5, <1>6, <1>7 DEF EndStep

LEMMA BeginClosed ==
  ASSUME TypeInv, FailClosed, ClosedInv, NEW c \in Caller, BeginInspect(c) \/ BeginRedact(c)
  PROVE  ClosedInv'
<1>1. ASSUME NEW op \in {"inspect", "redact"}
      PROVE  NewCall(op) \in Call /\ NewCall(op).pc = "scan" /\ NewCall(op).trail = <<>>
  <2>1. NewCall(op) \in Call /\ NewCall(op).pc = "scan"
    BY NewCallSound DEF Sound
  <2>2. NewCall(op).trail = <<>>
    BY DEF NewCall, NoCall
  <2> QED
    BY <2>1, <2>2
<1>2. ASSUME NEW next, Progress(c, next), next.pc \notin {"emit", "notify"}, next.trail = <<>>
      PROVE  ClosedInv'
  <2>1. Closed(next)
    BY <1>2 DEF Closed, Tells
  <2> QED
    BY <1>2, <2>1, ProgressClosed
<1>3. CASE BeginInspect(c)
  <2>1. PICK emit \in EmitEvents : Progress(c, [NewCall("inspect") EXCEPT !.emit = emit])
    BY <1>3 DEF BeginInspect
  <2> DEFINE next == [NewCall("inspect") EXCEPT !.emit = emit]
  <2>2. next.pc = "scan" /\ next.trail = <<>>
    BY <1>1 DEF Call
  <2> HIDE DEF next
  <2> QED
    BY <1>2, <2>1, <2>2 DEF next
<1>4. CASE BeginRedact(c)
  <2>1. /\ Ended(NewCall("redact"), "ValueError", "none").pc = "over"
        /\ Ended(NewCall("redact"), "ValueError", "none").trail = <<>>
    BY <1>1 DEF Ended, Call
  <2>2. ASSUME NEW allowed
        PROVE  /\ [NewCall("redact") EXCEPT !.allowed = allowed].pc = "scan"
               /\ [NewCall("redact") EXCEPT !.allowed = allowed].trail = <<>>
    BY <1>1 DEF Call
  <2>3. \/ Progress(c, NewCall("redact"))
        \/ Progress(c, Ended(NewCall("redact"), "ValueError", "none"))
        \/ \E allowed : Progress(c, [NewCall("redact") EXCEPT !.allowed = allowed])
    BY <1>4, Zenon DEF BeginRedact
  <2> QED
    BY <1>1, <1>2, <2>1, <2>2, <2>3
<1> QED
  BY <1>3, <1>4

\* The invariant behind FailClosedHolds survives every step of a fail-closed guard.
LEMMA ClosedStep ==
  ASSUME TypeInv, ClosedInv, [Next]_vars
  PROVE  ClosedInv'
<1>1. CASE ~FailClosed
  <2>1. ~FailClosed'
    BY <1>1, StepLeavesSettings DEF FailClosed
  <2> QED
    BY <2>1 DEF ClosedInv
<1>2. CASE FailClosed
  <2>1. ASSUME NEW c \in Caller, BeginInspect(c) \/ BeginRedact(c) \/ CallStep(c)
        PROVE  ClosedInv'
    BY <1>2, <2>1, BeginClosed, RunClosed, FailureClosed, NotifyClosed, EndClosed
       DEF CallStep, InspectStep, RedactStep
  <2>2. CASE Manage
    <3>1. \A d \in Caller : call[d] \in Call /\ Closed(call[d])
      BY <1>2 DEF TypeInv, Sound, ClosedInv
    <3>2. \A d \in Caller : Closed(call'[d])
      BY <2>2, <3>1, WitnessClosed DEF Manage
    <3> QED
      BY <3>2 DEF ClosedInv, Closed, Tells, Failures
  <2>3. CASE UNCHANGED vars
    BY <2>3 DEF vars, ClosedInv, FailClosed, Closed, Tells, Failures
  <2> QED
    BY <2>1, <2>2, <2>3 DEF Next
<1> QED
  BY <1>1, <1>2

\* A fail-closed guard lets nothing through after a failure: a call whose trail
\* tells of a failed detector, policy or redaction ends with BLOCK or an
\* exception, whatever the mode, the strategy and the policy, and whatever the
\* managing threads and the callbacks do on the way.
THEOREM NothingPassesAFailure == Spec => []FailClosedHolds
<1> DEFINE Inv == TypeInv /\ ClosedInv
<1>1. Init => Inv
  <2>1. Init => ClosedInv
    BY DEF Init, ClosedInv, Closed, Tells, NoCall
  <2> QED
    BY <2>1, TypeInit
<1>2. Inv /\ [Next]_vars => Inv'
  BY TypeStep, ClosedStep
<1>3. Inv => FailClosedHolds
  BY DEF ClosedInv, Closed, Failures, FailClosedHolds, Over
<1> QED
  BY <1>1, <1>2, <1>3, PTL DEF Spec
-----------------------------------------------------------------------------
(* Each detector runs once *)

LEMMA Members ==
  ASSUME NEW S, NEW list \in Seq(S)
  PROVE  /\ \A d : d \in ToSet(list) <=> \E i \in 1..Len(list) : list[i] = d
         /\ Len(list) \in Nat /\ \A i \in 1..Len(list) : list[i] \in S
<1>1. DOMAIN list = 1..Len(list) /\ Len(list) \in Nat /\ \A i \in 1..Len(list) : list[i] \in S
  BY LenProperties, ElementOfSeq
<1> QED
  BY <1>1 DEF ToSet

\* A list without repetitions has as many members as places.
LEMMA DistinctCounted ==
  ASSUME NEW S, NEW list \in Seq(S),
         \A i, j \in 1..Len(list) : list[i] = list[j] => i = j
  PROVE  Cardinality(ToSet(list)) = Len(list)
<1>1. DOMAIN list = 1..Len(list) /\ Len(list) \in Nat /\ ToSet(list) = {list[i] : i \in 1..Len(list)}
  BY LenProperties DEF ToSet
<1>2. list \in [1..Len(list) -> ToSet(list)]
  BY <1>1, SeqDef
<1>3. list \in Bijection(1..Len(list), ToSet(list))
  BY <1>1, <1>2 DEF Bijection, Injection, Surjection, IsInjective
<1>4. ExistsBijection(1..Len(list), ToSet(list))
  BY <1>3 DEF ExistsBijection
<1>5. IsFiniteSet(1..Len(list)) /\ Cardinality(1..Len(list)) = Len(list)
  BY <1>1, FS_Interval
<1> QED
  BY <1>4, <1>5, FS_Bijection

\* Without a removal the list only grows at its end.
Grows ==
  \/ Len(detectors') < Len(detectors)
  \/ /\ Len(detectors') >= Len(detectors)
     /\ \A i \in 1..Len(detectors) : detectors'[i] = detectors[i]

LEMMA ListGrows ==
  ASSUME RegistryTypeOK, RegistryStep
  PROVE  Grows
<1>1. detectors \in Seq(Detector) /\ Len(detectors) \in Nat
  BY LenProperties DEF RegistryTypeOK
<1>2. ASSUME NEW d \in Detector, AppendDetector(d)
      PROVE  Grows
  BY <1>1, <1>2, AppendProperties DEF AppendDetector, Grows
<1>3. ASSUME NEW i \in 1..Len(detectors), detectors' = RemoveAt(detectors, i)
      PROVE  Grows
  BY <1>1, <1>3, RemoveAtProperties DEF Grows
<1>4. CASE UNCHANGED detectors
  BY <1>1, <1>4 DEF Grows
<1>5. ASSUME NEW a \in Admin, AdminBegins(a)
      PROVE  Grows
  BY <1>4, <1>5 DEF AdminBegins, RegisterDetector, UnregisterDetector, DisableDetector,
     EnableDetector, RegisterCallback, Start, AddCallback
<1>6. ASSUME NEW a \in Admin, AdminFinishes(a)
      PROVE  Grows
  <2>0. task[a] \in Task
    BY DEF RegistryTypeOK
  <2>1. CASE FinishRegister(a)
    <3>1. task[a].detector \in Detector
      BY <2>0, <2>1 DEF FinishRegister, Task, Idle
    <3> QED
      BY <1>2, <2>1, <3>1 DEF FinishRegister
  <2>2. CASE PopFound(a)
    <3>1. task[a].at \in Nat \ {0}
      BY <2>0, <2>2 DEF PopFound, Task, Idle
    <3>2. CASE task[a].at <= Len(detectors) /\ PopDetector(task[a].at)
      <4>1. task[a].at \in 1..Len(detectors)
        BY <1>1, <3>1, <3>2
      <4> QED
        BY <1>3, <3>2, <4>1 DEF PopDetector
    <3> QED
      BY <1>4, <2>2, <3>2 DEF PopFound
  <2>3. CASE FinishUnregister(a) \/ FinishToggle(a)
    BY <1>4, <2>3 DEF FinishUnregister, FinishToggle, AddDisabled, DiscardDisabled
  <2> QED
    BY <1>6, <2>1, <2>2, <2>3 DEF AdminFinishes
<1>7. CASE CallbackStep
  <2>1. ASSUME NEW n \in Name, Registered(n), detectors' = RemoveAt(detectors, Position(n))
        PROVE  Grows
    BY <1>1, <1>3, <2>1, PositionTyped
  <2> QED
    BY <1>2, <1>4, <1>7, <2>1 DEF CallbackStep, ManageAtOnce, AddDisabled, DiscardDisabled,
       AddCallback
<1>8. CASE UNCHANGED registryVars
  BY <1>4, <1>8 DEF registryVars
<1> QED
  BY <1>5, <1>6, <1>7, <1>8 DEF RegistryStep, AdminStep

\* The call has run detector d.
Did(now, d) == \E j \in 1..Len(now.ran) : now.ran[j] = d

\* A redaction is to run the detectors it selected.
Wanted(now, d) == now.op # "inspect" => NameOf[d] \in now.allowed

Distinct(now) ==
  \A i, j \in 1..Len(now.ran) : now.ran[i] = now.ran[j] => i = j

\* The last place the loop is done with.
Behind(now) == IF now.pc = "run" THEN now.cursor - 2 ELSE now.cursor - 1

\* While a call is under way and no detector is removed, what has run stands at
\* places the loop is done with, and of these each detector that has been active
\* all the time has run.
Visited(now) ==
  /\ now.cursor - 1 <= Len(detectors)
  /\ now.pc = "run" => now.cursor >= 2 /\ now.current = detectors[now.cursor - 1]
  /\ \A j \in 1..Len(now.ran) : \E i \in 1..Behind(now) : now.ran[j] = detectors[i]
  /\ Distinct(now)
  /\ \A i \in 1..Behind(now) :
       detectors[i] \in now.steady /\ Wanted(now, detectors[i]) => Did(now, detectors[i])
  /\ now.steady \subseteq Active

\* The loop of an inspection is over: it owes no run.
Covered(now) ==
  \/ FailFast /\ (now.results # <<>> \/ now.errors # <<>>)
  \/ \A d \in now.steady : Did(now, d)

Stage(now) ==
  /\ now.op = "inspect" /\ now.pc \notin {"scan", "run"} =>
       Covered(now) /\ (now.pc \in {"emit", "notify"} => now.after # "scan")
  /\ now.op # "inspect" =>
       /\ now.pc \in {"scan", "run", "emit", "notify"}
       /\ now.pc \in {"emit", "notify"} => now.after \in {"scan", "raise"}

Finished(now) ==
  /\ Distinct(now)
  /\ now.op = "inspect" => Covered(now)
  /\ now.op # "inspect" /\ now.outcome = "returned" =>
       \A d \in now.steady : NameOf[d] \in now.allowed => Did(now, d)

Runs(now) ==
  now.shrunk \/ IF now.pc = "over" THEN Finished(now) ELSE Visited(now) /\ Stage(now)

RunsInv == \A c \in Caller : Runs(call[c])

LEMMA ProgressRuns ==
  ASSUME TypeInv, RunsInv, NEW c \in Caller, NEW next, Progress(c, next), Runs(next)
  PROVE  RunsInv'
<1>1. call' = [call EXCEPT ![c] = next] /\ call \in [Caller -> Call]
      /\ UNCHANGED <<detectors, disabled, settings>>
  BY DEF Progress, TypeInv, TypeOK
<1>2. \A d \in Caller : Runs(call'[d])
  BY <1>1 DEF RunsInv
<1>3. Active' = Active /\ (FailFast <=> FailFast')
  BY <1>1 DEF Active, FailFast
<1> QED
  BY <1>2, <1>3, <1>1 DEF RunsInv, Runs, Finished, Visited, Stage, Covered, Did, Wanted,
     Distinct, Behind

\* What a step leaves alone that neither runs a detector nor begins a call.
SameRuns(now, next) ==
  /\ next.op = now.op /\ next.ran = now.ran /\ next.allowed = now.allowed
  /\ next.steady = now.steady /\ next.shrunk = now.shrunk
  /\ next.results = now.results /\ next.errors = now.errors

\* A step between two runs, or after the last one.
LEMMA KeepRuns ==
  ASSUME TypeInv, RunsInv, NEW c \in Caller, NEW next, Progress(c, next),
         call[c].pc \notin {"scan", "run", "over"}, next.pc \notin {"run", "over"},
         SameRuns(call[c], next), next.cursor = call[c].cursor,
         Stage(call[c]) => Stage(next)
  PROVE  RunsInv'
<1>1. Runs(call[c])
  BY DEF RunsInv
<1>2. Visited(call[c]) => Visited(next)
  BY DEF Visited, SameRuns, Behind, Distinct, Did, Wanted
<1>3. Runs(next)
  BY <1>1, <1>2 DEF Runs, SameRuns
<1> QED
  BY <1>3, ProgressRuns

\* The end of a call that has gone through its detectors, or gives up.
LEMMA EndRuns ==
  ASSUME TypeInv, RunsInv, NEW c \in Caller, NEW outcome, NEW decision,
         Finish(c, outcome, decision), call[c].pc = "emit",
         Stage(call[c]) /\ call[c].op # "inspect" => outcome # "returned"
  PROVE  RunsInv'
<1> DEFINE next == Ended(call[c], outcome, decision)
<1>0. call[c] \in Call /\ Runs(call[c])
  BY DEF TypeInv, Sound, RunsInv
<1>1. next.pc = "over" /\ next.outcome = outcome /\ SameRuns(call[c], next)
  BY <1>0 DEF Ended, Call, SameRuns
<1>2. Progress(c, next)
  BY DEF Finish
<1> HIDE DEF next
<1>3. Runs(next)
  BY <1>0, <1>1 DEF Runs, SameRuns, Visited, Stage, Finished, Covered, Did, Distinct
<1> QED
  BY <1>2, <1>3, ProgressRuns

LEMMA NextRuns ==
  ASSUME TypeInv, RunsInv, NEW c \in Caller, NextDetector(c)
  PROVE  RunsInv'
<1> DEFINE next == [call[c] EXCEPT !.pc = "run", !.current = detectors[call[c].cursor],
                                   !.cursor = @ + 1]
<1>0. call[c] \in Call /\ Runs(call[c]) /\ call[c].cursor \in Nat \ {0}
  BY DEF TypeInv, Sound, RunsInv, Call
<1>1. /\ next.pc = "run" /\ next.current = detectors[call[c].cursor]
      /\ next.cursor = call[c].cursor + 1 /\ SameRuns(call[c], next)
  BY <1>0 DEF Call, SameRuns
<1>2. Progress(c, next) /\ call[c].pc = "scan" /\ call[c].cursor <= Len(detectors)
  BY DEF NextDetector
<1> HIDE DEF next
<1>3. Behind(next) = Behind(call[c])
  BY <1>0, <1>1, <1>2 DEF Behind
<1>4. Visited(call[c]) => Visited(next)
  BY <1>0, <1>1, <1>2, <1>3 DEF Visited, SameRuns, Distinct, Did, Wanted
<1>5. Stage(call[c]) => Stage(next)
  BY <1>1, <1>2 DEF Stage, SameRuns
<1>6. Runs(next)
  BY <1>0, <1>1, <1>2, <1>4, <1>5 DEF Runs, SameRuns
<1> QED
  BY <1>2, <1>6, ProgressRuns

\* At the end of the list each detector that has been active all the time has
\* been come by.
LEMMA AllVisited ==
  ASSUME TypeInv, NEW now \in Call, Visited(now), now.pc = "scan",
         now.cursor > Len(detectors)
  PROVE  \A d \in now.steady : Wanted(now, d) => Did(now, d)
<1>1. Len(detectors) \in Nat /\ now.cursor \in Nat \ {0} /\ detectors \in Seq(Detector)
  BY LenProperties DEF TypeInv, TypeOK, RegistryTypeOK, Call
<1>2. Behind(now) = Len(detectors)
  BY <1>1 DEF Behind, Visited
<1>3. \A d \in Active : \E i \in 1..Len(detectors) : detectors[i] = d
  BY <1>1, Members DEF Active
<1> QED
  BY <1>2, <1>3 DEF Visited

LEMMA EndOfRuns ==
  ASSUME TypeInv, RunsInv, NEW c \in Caller, EndOfDetectors(c)
  PROVE  RunsInv'
<1>0. call[c] \in Call /\ Runs(call[c])
  BY DEF TypeInv, Sound, RunsInv
<1>1. call[c].pc = "scan" /\ call[c].cursor > Len(detectors)
  BY DEF EndOfDetectors
<1>2. Visited(call[c]) => \A d \in call[c].steady : Wanted(call[c], d) => Did(call[c], d)
  BY <1>0, <1>1, AllVisited
<1>3. CASE call[c].op = "inspect"
  <2> DEFINE next == [call[c] EXCEPT !.pc = "report"]
  <2>1. next.pc = "report" /\ next.cursor = call[c].cursor /\ SameRuns(call[c], next)
    BY <1>0 DEF Call, SameRuns
  <2>2. Progress(c, next)
    BY <1>3 DEF EndOfDetectors
  <2> HIDE DEF next
  <2>3. Visited(call[c]) => Visited(next) /\ Stage(next)
    <3>1. Visited(call[c]) => Visited(next)
      BY <1>1, <2>1 DEF Visited, SameRuns, Behind, Distinct, Did, Wanted
    <3>2. Visited(call[c]) => Stage(next)
      BY <1>2, <1>3, <2>1 DEF Stage, Covered, SameRuns, Did, Wanted
    <3> QED
      BY <3>1, <3>2
  <2>4. Runs(next)
    BY <1>0, <1>1, <2>1, <2>3 DEF Runs, SameRuns
  <2> QED
    BY <2>2, <2>4, ProgressRuns
<1>4. CASE call[c].op # "inspect"
  <2> DEFINE next == Ended(call[c], "returned", "none")
  <2>1. next.pc = "over" /\ SameRuns(call[c], next)
    BY <1>0 DEF Ended, Call, SameRuns
  <2>2. Progress(c, next)
    BY <1>4 DEF EndOfDetectors
  <2> HIDE DEF next
  <2>3. Visited(call[c]) => Finished(next)
    BY <1>2, <1>4, <2>1 DEF Visited, Finished, SameRuns, Distinct, Did, Wanted
  <2>4. Runs(next)
    BY <1>0, <1>1, <2>1, <2>3 DEF Runs, SameRuns
  <2> QED
    BY <2>2, <2>4, ProgressRuns
<1> QED
  BY <1>3, <1>4

\* A detector that is passed over is switched off, or not selected.
LEMMA SkipRuns ==
  ASSUME TypeInv, RunsInv, NEW c \in Caller, SkipDisabled(c) \/ NotSelected(c)
  PROVE  RunsInv'
<1> DEFINE next == [call[c] EXCEPT !.pc = "scan", !.current = NoDetector]
<1>0. /\ call[c] \in Call /\ Runs(call[c]) /\ call[c].cursor \in Nat \ {0}
      /\ call[c].pc = "run"
  BY DEF TypeInv, Sound, RunsInv, Call, SkipDisabled, NotSelected, Up
<1>1. next.pc = "scan" /\ next.cursor = call[c].cursor /\ SameRuns(call[c], next)
  BY <1>0 DEF Call, SameRuns
<1>2. Progress(c, next)
  BY DEF SkipDisabled, NotSelected
<1> HIDE DEF next
<1>3. Visited(call[c]) =>
        ~(call[c].current \in call[c].steady /\ Wanted(call[c], call[c].current))
  BY DEF SkipDisabled, NotSelected, Up, Visited, Active, Wanted
<1>4. Behind(next) = Behind(call[c]) + 1 /\ Behind(next) = call[c].cursor - 1
  BY <1>0, <1>1 DEF Behind
<1>5. ASSUME Visited(call[c])
      PROVE  Visited(next)
  <2>1. call[c].current = detectors[Behind(next)] /\ Behind(call[c]) \in Nat
    BY <1>0, <1>4, <1>5 DEF Visited, Behind
  <2>2. \A i \in 1..Behind(next) : i \in 1..Behind(call[c]) \/ i = Behind(next)
    BY <1>4, <2>1
  <2>3. \A i \in 1..Behind(next) :
          detectors[i] \in call[c].steady /\ Wanted(call[c], detectors[i])
            => Did(call[c], detectors[i])
    BY <1>3, <1>5, <2>1, <2>2 DEF Visited
  <2>4. 1..Behind(call[c]) \subseteq 1..Behind(next)
    BY <1>4, <2>1
  <2> QED
    BY <1>1, <1>5, <2>3, <2>4 DEF Visited, SameRuns, Distinct, Did, Wanted
<1>6. Stage(call[c]) => Stage(next)
  BY <1>1 DEF Stage, SameRuns
<1>7. Runs(next)
  BY <1>0, <1>1, <1>5, <1>6 DEF Runs, SameRuns
<1> QED
  BY <1>2, <1>7, ProgressRuns

\* A detector that runs stands at the last place the loop has come to, and no
\* other place has it.
LEMMA RanRuns ==
  ASSUME TypeInv, RunsInv, UniqueNames, NEW c \in Caller, NEW next, Progress(c, next),
         call[c].pc = "run", next.pc \notin {"run", "over"},
         next.ran = Append(call[c].ran, call[c].current),
         next.op = call[c].op, next.cursor = call[c].cursor, next.allowed = call[c].allowed,
         next.steady = call[c].steady, next.shrunk = call[c].shrunk,
         Stage(call[c]) => Stage(next)
  PROVE  RunsInv'
<1> DEFINE now == call[c]
           k == Len(now.ran)
<1>0. /\ now \in Call /\ Runs(now) /\ now.cursor \in Nat \ {0} /\ now.current \in Detector
      /\ now.ran \in Seq(Detector) /\ detectors \in Seq(Detector)
  BY DEF TypeInv, TypeOK, RegistryTypeOK, Sound, RunsInv, Call
<1>1. /\ k \in Nat /\ Len(next.ran) = k + 1 /\ next.ran[k + 1] = now.current
      /\ \A j \in 1..k : next.ran[j] = now.ran[j]
  BY <1>0, LenProperties, AppendProperties
<1>2. Len(detectors) \in Nat /\ DOMAIN detectors = 1..Len(detectors)
  BY <1>0, LenProperties
<1>3. Behind(next) = now.cursor - 1 /\ Behind(now) = now.cursor - 2
  BY DEF Behind
<1> HIDE DEF k
<1>4. ASSUME Visited(now)
      PROVE  Visited(next)
  <2>1. /\ now.cursor - 1 \in 1..Len(detectors) /\ now.current = detectors[now.cursor - 1]
        /\ now.cursor - 2 \in Nat
    BY <1>0, <1>2, <1>4 DEF Visited
  <2>2. \A i \in 1..Behind(next) : i \in 1..Behind(now) \/ i = now.cursor - 1
    BY <1>0, <1>3
  <2>3. 1..Behind(now) \subseteq 1..Behind(next) /\ now.cursor - 1 \in 1..Behind(next)
    BY <1>0, <1>3, <2>1
  <2>4. \A d : Did(next, d) <=> Did(now, d) \/ d = now.current
    <3>1. \A j \in 1..k + 1 : j \in 1..k \/ j = k + 1
      BY <1>1
    <3>2. 1..k \subseteq 1..k + 1 /\ k + 1 \in 1..k + 1
      BY <1>1
    <3> QED
      BY <1>1, <3>1, <3>2 DEF Did, k
  <2>5. \A j \in 1..Len(next.ran) : \E i \in 1..Behind(next) : next.ran[j] = detectors[i]
    <3>1. \A j \in 1..k : \E i \in 1..Behind(now) : now.ran[j] = detectors[i]
      BY <1>4 DEF Visited, k
    <3>2. \A j \in 1..k + 1 : j \in 1..k \/ j = k + 1
      BY <1>1
    <3> QED
      BY <1>1, <2>1, <2>3, <3>1, <3>2
  <2>6. \A i \in 1..Behind(now) : detectors[i] # now.current
    <3>1. ASSUME NEW i \in 1..Behind(now)
          PROVE  detectors[i] # now.current
      <4>1. i \in DOMAIN detectors /\ now.cursor - 1 \in DOMAIN detectors /\ i # now.cursor - 1
        BY <1>0, <1>2, <1>3, <2>1
      <4> QED
        BY <2>1, <4>1 DEF UniqueNames, Unique
    <3> QED
      BY <3>1
  <2>7. \A j \in 1..k : now.ran[j] # now.current
    BY <1>4, <2>6 DEF Visited, k
  <2>8. Distinct(next)
    <3>1. \A i, j \in 1..k : now.ran[i] = now.ran[j] => i = j
      BY <1>4 DEF Visited, Distinct, k
    <3>2. \A j \in 1..k + 1 : j \in 1..k \/ j = k + 1
      BY <1>1
    <3> QED
      BY <1>1, <2>7, <3>1, <3>2 DEF Distinct
  <2>9. \A i \in 1..Behind(next) :
          detectors[i] \in now.steady /\ Wanted(now, detectors[i]) => Did(next, detectors[i])
    BY <1>4, <2>1, <2>2, <2>4 DEF Visited
  <2> QED
    BY <1>4, <2>5, <2>8, <2>9 DEF Visited, Wanted
<1>5. Runs(next)
  BY <1>0, <1>4 DEF Runs
<1> QED
  BY <1>5, ProgressRuns

LEMMA AppendNotEmpty ==
  ASSUME NEW S, NEW s \in Seq(S), NEW e
  PROVE  Append(s, e) # <<>>
<1>1. Len(s) \in Nat /\ s \in [1..Len(s) -> S]
  BY LenProperties
<1>2. s \in [1..Len(s) -> S \cup {e}]
  BY <1>1
<1>3. s \in Seq(S \cup {e})
  BY <1>1, <1>2, SeqDef
<1>4. Append(s, e) \in Seq(S \cup {e}) /\ Len(Append(s, e)) = Len(s) + 1
  BY <1>3, AppendProperties
<1>5. Len(Append(s, e)) # 0
  BY <1>1, <1>4
<1> QED
  BY <1>4, <1>5, EmptySeq

LEMMA DetectorRuns ==
  ASSUME TypeInv, RunsInv, UniqueNames, NEW c \in Caller,
         NoMatch(c) \/ Matches(c) \/ DetectorFails(c) \/ Redacts(c) \/ RedactionFails(c)
  PROVE  RunsInv'
<1> DEFINE label == IF FailFast THEN "report" ELSE "scan"
<1>0. /\ call[c] \in Call /\ call[c].pc = "run"
      /\ call[c].results \in Seq(Result) /\ call[c].errors \in Seq(Detector)
  BY DEF TypeInv, Sound, Call, Result, NoMatch, Matches, DetectorFails, Redacts,
     RedactionFails, Up
\* What a run leaves, apart from what the detector reports.
<1>1. ASSUME NEW pc \in {"scan", "report", "emit"}
      PROVE  /\ Ran(c, pc) \in Call /\ Ran(c, pc).pc = pc
             /\ Ran(c, pc).ran = Append(call[c].ran, call[c].current)
             /\ Ran(c, pc).op = call[c].op /\ Ran(c, pc).cursor = call[c].cursor
             /\ Ran(c, pc).allowed = call[c].allowed
             /\ Ran(c, pc).steady = call[c].steady /\ Ran(c, pc).shrunk = call[c].shrunk
             /\ Ran(c, pc).results = call[c].results /\ Ran(c, pc).errors = call[c].errors
  <2>1. Ran(c, pc) \in Call
    BY <1>0, RanSound DEF Sound
  <2> QED
    BY <1>0, <2>1 DEF Ran, Call
<1>2. \A e : Append(call[c].results, e) # <<>> /\ Append(call[c].errors, e) # <<>>
  BY <1>0, AppendNotEmpty
<1>3. CASE NoMatch(c)
  <2>1. Progress(c, Ran(c, "scan"))
    BY <1>3 DEF NoMatch
  <2>2. Stage(call[c]) => Stage(Ran(c, "scan"))
    BY <1>1 DEF Stage
  <2> QED
    BY <1>0, <1>1, <2>1, <2>2, RanRuns
<1>4. CASE Redacts(c)
  <2>1. Progress(c, Ran(c, "scan"))
    BY <1>4 DEF Redacts
  <2>2. Stage(call[c]) => Stage(Ran(c, "scan"))
    BY <1>1 DEF Stage
  <2> QED
    BY <1>0, <1>1, <2>1, <2>2, RanRuns
<1>5. label \in {"report", "scan"} /\ (label = "report" => FailFast)
  OBVIOUS
<1> HIDE DEF label
<1>6. /\ Ran(c, label) \in Call /\ Ran(c, label).pc = label
      /\ Ran(c, label).ran = Append(call[c].ran, call[c].current)
      /\ Ran(c, label).op = call[c].op /\ Ran(c, label).cursor = call[c].cursor
      /\ Ran(c, label).allowed = call[c].allowed
      /\ Ran(c, label).steady = call[c].steady /\ Ran(c, label).shrunk = call[c].shrunk
      /\ Ran(c, label).results = call[c].results /\ Ran(c, label).errors = call[c].errors
  BY <1>1, <1>5
<1>7. CASE Matches(c)
  <2>0. call[c].op = "inspect"
    BY <1>7 DEF Matches, Up
  <2>1. PICK r : Progress(c, [Ran(c, label) EXCEPT !.results = Append(@, r)])
    BY <1>7 DEF Matches, label
  <2> DEFINE next == [Ran(c, label) EXCEPT !.results = Append(@, r)]
  <2>2. /\ next.pc = label /\ next.ran = Append(call[c].ran, call[c].current)
        /\ next.op = call[c].op /\ next.cursor = call[c].cursor
        /\ next.allowed = call[c].allowed
        /\ next.steady = call[c].steady /\ next.shrunk = call[c].shrunk
        /\ next.results = Append(call[c].results, r)
    BY <1>6 DEF Call
  <2>3. Progress(c, next)
    BY <2>1
  <2> HIDE DEF next
  <2>4. Stage(next)
    <3>1. next.results # <<>>
      BY <1>2, <2>2
    <3> QED
      BY <1>5, <2>0, <2>2, <3>1 DEF Stage, Covered
  <2> QED
    BY <1>0, <1>5, <2>2, <2>3, <2>4, RanRuns
<1>8. CASE DetectorFails(c)
  <2>0. call[c].op = "inspect"
    BY <1>8 DEF DetectorFails, Up
  <2> DEFINE next == [Ran(c, label) EXCEPT !.errors = Append(@, call[c].current)]
  <2>1. Progress(c, next)
    BY <1>8 DEF DetectorFails, label
  <2>2. /\ next.pc = label /\ next.ran = Append(call[c].ran, call[c].current)
        /\ next.op = call[c].op /\ next.cursor = call[c].cursor
        /\ next.allowed = call[c].allowed
        /\ next.steady = call[c].steady /\ next.shrunk = call[c].shrunk
        /\ next.errors = Append(call[c].errors, call[c].current)
    BY <1>6 DEF Call
  <2> HIDE DEF next
  <2>4. Stage(next)
    <3>1. next.errors # <<>>
      BY <1>2, <2>2
    <3> QED
      BY <1>5, <2>0, <2>2, <3>1 DEF Stage, Covered
  <2> QED
    BY <1>0, <1>5, <2>1, <2>2, <2>4, RanRuns
<1>9. CASE RedactionFails(c)
  <2>0. call[c].op = "redact"
    BY <1>9 DEF RedactionFails, Up
  <2> DEFINE pending == <<Event("system_failure", FailAction, NameOf[call[c].current])>>
             after == IF FailClosed THEN "raise" ELSE "scan"
             next == [Ran(c, "emit") EXCEPT !.errors = Append(@, call[c].current),
                                            !.pending = pending, !.after = after]
  <2>1. Progress(c, next) /\ after \in {"raise", "scan"}
    BY <1>9 DEF RedactionFails
  <2> HIDE DEF pending, after
  <2>2. /\ next.pc = "emit" /\ next.ran = Append(call[c].ran, call[c].current)
        /\ next.op = call[c].op /\ next.cursor = call[c].cursor
        /\ next.allowed = call[c].allowed /\ next.after = after
        /\ next.steady = call[c].steady /\ next.shrunk = call[c].shrunk
    BY <1>1 DEF Call
  <2> HIDE DEF next
  <2>3. Stage(next)
    BY <2>0, <2>1, <2>2 DEF Stage
  <2> QED
    BY <1>0, <2>1, <2>2, <2>3, RanRuns
<1> QED
  BY <1>3, <1>4, <1>7, <1>8, <1>9

\* Policies, events and callbacks that return or raise leave the runs alone.
LEMMA QuietRuns ==
  ASSUME TypeInv, RunsInv, NEW c \in Caller,
         \/ ReportErrors(c) \/ PolicyDecides(c) \/ PolicyFails(c) \/ EmitDetections(c)
         \/ EmitEvent(c) \/ CallbackReturns(c) \/ CallbackRaises(c) \/ EventDone(c)
         \/ GoOn(c) \/ AllowOnPolicyError(c)
  PROVE  RunsInv'
<1>0. call[c] \in Call
  BY DEF TypeInv, Sound
\* From a place of an inspection after its loop to another such place.
<1>1. ASSUME NEW next, Progress(c, next), SameRuns(call[c], next),
             next.cursor = call[c].cursor,
             call[c].pc \in {"report", "policy", "decided"},
             next.pc \in {"policy", "decided", "emit"},
             next.pc = "emit" => next.after # "scan"
      PROVE  RunsInv'
  <2>1. Stage(call[c]) => Stage(next)
    BY <1>1 DEF Stage, SameRuns, Covered, Did
  <2> QED
    BY <1>1, <2>1, KeepRuns
\* From one place among the events of a call to another.
<1>2. ASSUME NEW next, Progress(c, next), SameRuns(call[c], next),
             next.cursor = call[c].cursor, next.after = call[c].after,
             call[c].pc \in {"emit", "notify"}, next.pc \in {"emit", "notify"}
      PROVE  RunsInv'
  <2>1. Stage(call[c]) => Stage(next)
    BY <1>2 DEF Stage, SameRuns, Covered, Did
  <2> QED
    BY <1>2, <2>1, KeepRuns
<1>3. ASSUME NEW pending, NEW after
      PROVE  LET next == [call[c] EXCEPT !.pc = "emit", !.pending = pending, !.after = after]
             IN  /\ next.pc = "emit" /\ next.after = after
                 /\ next.cursor = call[c].cursor /\ SameRuns(call[c], next)
  BY <1>0 DEF Call, SameRuns
<1>4. ASSUME NEW pending, NEW after, after # "scan",
             call[c].pc \in {"report", "policy", "decided"},
             Progress(c, [call[c] EXCEPT !.pc = "emit", !.pending = pending, !.after = after])
      PROVE  RunsInv'
  <2> DEFINE next == [call[c] EXCEPT !.pc = "emit", !.pending = pending, !.after = after]
  <2>1. /\ next.pc = "emit" /\ next.after = after
        /\ next.cursor = call[c].cursor /\ SameRuns(call[c], next)
    BY <1>3
  <2>2. Progress(c, next)
    BY <1>4
  <2> HIDE DEF next
  <2> QED
    BY <1>1, <1>4, <2>1, <2>2
<1>5. CASE ReportErrors(c)
  <2> DEFINE after == IF FailClosed /\ call[c].errors # <<>> THEN "block" ELSE "policy"
  <2>1. PICK pending : Progress(c, [call[c] EXCEPT !.pc = "emit", !.pending = pending,
                                                   !.after = after])
    BY <1>5 DEF ReportErrors
  <2>2. after # "scan" /\ call[c].pc = "report"
    BY <1>5 DEF ReportErrors
  <2> HIDE DEF after
  <2> QED
    BY <1>4, <2>1, <2>2
<1>6. CASE PolicyFails(c)
  <2> DEFINE after == IF FailClosed THEN "raise" ELSE "allow"
  <2>1. PICK pending : Progress(c, [call[c] EXCEPT !.pc = "emit", !.pending = pending,
                                                   !.after = after])
    BY <1>6 DEF PolicyFails
  <2>2. after # "scan" /\ call[c].pc = "policy"
    BY <1>6 DEF PolicyFails
  <2> HIDE DEF after
  <2> QED
    BY <1>4, <2>1, <2>2
<1>7. CASE EmitDetections(c)
  <2>1. PICK pending, after :
          /\ Progress(c, [call[c] EXCEPT !.pc = "emit", !.pending = pending, !.after = after])
          /\ after \in {"ValueError", "return"}
    BY <1>7, Zenon DEF EmitDetections
  <2>2. after # "scan" /\ call[c].pc = "decided"
    BY <1>7, <2>1 DEF EmitDetections
  <2> QED
    BY <1>4, <2>1, <2>2
<1>8. CASE PolicyDecides(c)
  <2>1. PICK decision : Progress(c, [call[c] EXCEPT !.pc = "decided", !.decision = decision])
    BY <1>8 DEF PolicyDecides
  <2> DEFINE next == [call[c] EXCEPT !.pc = "decided", !.decision = decision]
  <2>2. next.pc = "decided" /\ next.cursor = call[c].cursor /\ SameRuns(call[c], next)
    BY <1>0 DEF Call, SameRuns
  <2>3. Progress(c, next) /\ call[c].pc = "policy"
    BY <1>8, <2>1 DEF PolicyDecides
  <2> HIDE DEF next
  <2> QED
    BY <1>1, <2>2, <2>3
<1>9. CASE EmitEvent(c)
  <2> DEFINE next == [call[c] EXCEPT !.pc = "notify",
                                     !.trail = Append(@, Head(call[c].pending)), !.listener = 0]
  <2>1. Progress(c, next) /\ call[c].pc = "emit"
    BY <1>9 DEF EmitEvent
  <2>2. /\ next.pc = "notify" /\ next.after = call[c].after
        /\ next.cursor = call[c].cursor /\ SameRuns(call[c], next)
    BY <1>0 DEF Call, SameRuns
  <2> HIDE DEF next
  <2> QED
    BY <1>2, <2>1, <2>2
<1>10. CASE CallbackReturns(c)
  <2>1. /\ Given(c).pc = call[c].pc /\ Given(c).after = call[c].after
        /\ Given(c).cursor = call[c].cursor /\ SameRuns(call[c], Given(c))
    BY <1>0 DEF Given, Call, SameRuns
  <2> QED
    BY <1>2, <1>10, <2>1 DEF CallbackReturns
<1>11. CASE CallbackRaises(c)
  <2> DEFINE next == [Given(c) EXCEPT
                        !.trail = Append(@, Event("callback_failure", "warn", "callback"))]
  <2>1. Progress(c, next) /\ call[c].pc = "notify"
    BY <1>11 DEF CallbackRaises
  <2>2. /\ next.pc = call[c].pc /\ next.after = call[c].after
        /\ next.cursor = call[c].cursor /\ SameRuns(call[c], next)
    BY <1>0 DEF Given, Call, SameRuns
  <2> HIDE DEF next
  <2> QED
    BY <1>2, <2>1, <2>2
<1>12. CASE EventDone(c)
  <2> DEFINE next == [call[c] EXCEPT !.pc = "emit", !.pending = Tail(@), !.listener = 0]
  <2>1. Progress(c, next) /\ call[c].pc = "notify"
    BY <1>12 DEF EventDone
  <2>2. /\ next.pc = "emit" /\ next.after = call[c].after
        /\ next.cursor = call[c].cursor /\ SameRuns(call[c], next)
    BY <1>0 DEF Call, SameRuns
  <2> HIDE DEF next
  <2> QED
    BY <1>2, <2>1, <2>2
<1>13. CASE GoOn(c)
  <2> DEFINE next == [call[c] EXCEPT !.pc = call[c].after, !.after = "none"]
  <2>1. Progress(c, next) /\ call[c].pc = "emit" /\ call[c].after \in {"policy", "scan"}
    BY <1>13 DEF GoOn, EventsOut
  <2>2. /\ next.pc = call[c].after
        /\ next.cursor = call[c].cursor /\ SameRuns(call[c], next)
    BY <1>0 DEF Call, SameRuns
  <2> HIDE DEF next
  <2>3. Stage(call[c]) => Stage(next)
    BY <2>1, <2>2 DEF Stage, SameRuns, Covered, Did
  <2> QED
    BY <2>1, <2>2, <2>3, KeepRuns
<1>14. CASE AllowOnPolicyError(c)
  <2> DEFINE next == [call[c] EXCEPT !.pc = "decided", !.after = "none", !.decision = "allow"]
  <2>1. Progress(c, next) /\ call[c].pc = "emit" /\ call[c].after = "allow"
    BY <1>14 DEF AllowOnPolicyError, EventsOut
  <2>2. next.pc = "decided" /\ next.cursor = call[c].cursor /\ SameRuns(call[c], next)
    BY <1>0 DEF Call, SameRuns
  <2> HIDE DEF next
  <2>3. Stage(call[c]) => Stage(next)
    BY <2>1, <2>2 DEF Stage, SameRuns, Covered, Did
  <2> QED
    BY <2>1, <2>2, <2>3, KeepRuns
<1> QED
  BY <1>5, <1>6, <1>7, <1>8, <1>9, <1>10, <1>11, <1>12, <1>13, <1>14

LEMMA FinishRuns ==
  ASSUME TypeInv, RunsInv, NEW c \in Caller,
         BlockOnError(c) \/ RaiseOnError(c) \/ RaiseValueError(c) \/ Return(c)
  PROVE  RunsInv'
<1>1. CASE BlockOnError(c) \/ Return(c)
  <2>1. call[c].pc = "emit" /\ call[c].after \in {"block", "return"}
    BY <1>1 DEF BlockOnError, Return, EventsOut
  <2>2. ~(Stage(call[c]) /\ call[c].op # "inspect")
    BY <2>1 DEF Stage
  <2> QED
    BY <1>1, <2>1, <2>2, EndRuns DEF BlockOnError, Return
<1>2. CASE RaiseOnError(c) \/ RaiseValueError(c)
  <2>1. call[c].pc = "emit"
    BY <1>2 DEF RaiseOnError, RaiseValueError, EventsOut
  <2>2. PICK outcome : Finish(c, outcome, "none") /\ outcome # "returned"
    BY <1>2 DEF RaiseOnError, RaiseValueError
  <2> QED
    BY <2>1, <2>2, EndRuns
<1> QED
  BY <1>1, <1>2

LEMMA BeginRuns ==
  ASSUME TypeInv, RunsInv, NEW c \in Caller, BeginInspect(c) \/ BeginRedact(c)
  PROVE  RunsInv'
<1>0. Len(detectors) \in Nat
  BY LenProperties DEF TypeInv, TypeOK, RegistryTypeOK
<1>1. ASSUME NEW op \in {"inspect", "redact"}
      PROVE  /\ NewCall(op) \in Call /\ NewCall(op).pc = "scan" /\ NewCall(op).cursor = 1
             /\ NewCall(op).ran = <<>> /\ NewCall(op).op = op
             /\ NewCall(op).steady = Active
  <2>1. NewCall(op) \in Call /\ NewCall(op).pc = "scan"
    BY NewCallSound DEF Sound
  <2>2. /\ NewCall(op).cursor = 1 /\ NewCall(op).ran = <<>> /\ NewCall(op).op = op
        /\ NewCall(op).steady = Active
    BY DEF NewCall, NoCall
  <2> QED
    BY <2>1, <2>2
<1>2. ASSUME NEW next, Progress(c, next), next.pc = "scan", next.cursor = 1,
             next.ran = <<>>, next.steady = Active
      PROVE  RunsInv'
  <2>1. Behind(next) = 0
    BY <1>2 DEF Behind
  <2>2. Runs(next)
    BY <1>0, <1>2, <2>1 DEF Runs, Visited, Stage, Distinct
  <2> QED
    BY <1>2, <2>2, ProgressRuns
<1>3. CASE BeginInspect(c)
  <2>1. PICK emit \in EmitEvents : Progress(c, [NewCall("inspect") EXCEPT !.emit = emit])
    BY <1>3 DEF BeginInspect
  <2> DEFINE next == [NewCall("inspect") EXCEPT !.emit = emit]
  <2>2. next.pc = "scan" /\ next.cursor = 1 /\ next.ran = <<>> /\ next.steady = Active
    BY <1>1 DEF Call
  <2> HIDE DEF next
  <2> QED
    BY <1>2, <2>1, <2>2 DEF next
<1>4. CASE BeginRedact(c)
  <2> DEFINE rejected == Ended(NewCall("redact"), "ValueError", "none")
  <2>1. ASSUME Progress(c, rejected)
        PROVE  RunsInv'
    <3>1. /\ rejected.pc = "over" /\ rejected.outcome = "ValueError"
          /\ rejected.ran = <<>> /\ rejected.op = "redact"
      BY <1>1 DEF Ended, Call
    <3> HIDE DEF rejected
    <3>2. Runs(rejected)
      BY <3>1 DEF Runs, Finished, Distinct
    <3> QED
      BY <2>1, <3>2, ProgressRuns
  <2>2. ASSUME NEW allowed
        PROVE  LET next == [NewCall("redact") EXCEPT !.allowed = allowed]
               IN  /\ next.pc = "scan" /\ next.cursor = 1
                   /\ next.ran = <<>> /\ next.steady = Active
    BY <1>1 DEF Call
  <2>3. \/ Progress(c, NewCall("redact"))
        \/ Progress(c, rejected)
        \/ \E allowed : Progress(c, [NewCall("redact") EXCEPT !.allowed = allowed])
    BY <1>4, Zenon DEF BeginRedact
  <2> HIDE DEF rejected
  <2> QED
    BY <1>1, <1>2, <2>1, <2>2, <2>3
<1> QED
  BY <1>3, <1>4

\* Runs, of what a call is after a step, over the list there is after it.
StillRuns(next) ==
  \/ next.shrunk
  \/ next.pc = "over" /\ Finished(next)
  \/ /\ next.pc # "over" /\ Stage(next)
     /\ next.cursor - 1 <= Len(detectors')
     /\ next.pc = "run" => next.cursor >= 2 /\ next.current = detectors'[next.cursor - 1]
     /\ \A j \in 1..Len(next.ran) : \E i \in 1..Behind(next) : next.ran[j] = detectors'[i]
     /\ Distinct(next)
     /\ \A i \in 1..Behind(next) :
          detectors'[i] \in next.steady /\ Wanted(next, detectors'[i])
            => Did(next, detectors'[i])
     /\ next.steady \subseteq Active'

\* A change of the registry moves no detector that a call has come by, unless it
\* removes one; and the call remembers that.
LEMMA WitnessRuns ==
  ASSUME TypeInv, RegistryStep, NEW now \in Call, Runs(now)
  PROVE  StillRuns(Witness(now))
<1> DEFINE next == Witness(now)
<1>0. Grows
  BY ListGrows DEF TypeInv, TypeOK
<1>1. CASE now.pc = "over"
  BY <1>1 DEF Witness, Runs, StillRuns
<1>2. CASE now.pc # "over"
  <2>1. /\ next.pc = now.pc /\ next.cursor = now.cursor /\ next.current = now.current
        /\ next.op = now.op /\ next.ran = now.ran /\ next.allowed = now.allowed
        /\ next.after = now.after /\ next.results = now.results /\ next.errors = now.errors
        /\ next.steady = now.steady \cap Active'
        /\ next.shrunk <=> now.shrunk \/ Len(detectors') < Len(detectors)
    BY <1>2 DEF Witness, Call
  <2> HIDE DEF next
  <2>2. CASE next.shrunk
    BY <2>2 DEF StillRuns, next
  <2>3. CASE ~next.shrunk
    <3>1. /\ Visited(now) /\ Stage(now)
          /\ Len(detectors') >= Len(detectors)
          /\ \A i \in 1..Len(detectors) : detectors'[i] = detectors[i]
      BY <1>0, <1>2, <2>1, <2>3 DEF Runs, Grows
    <3>2. /\ Len(detectors) \in Nat /\ Len(detectors') \in Nat
          /\ now.cursor \in Nat \ {0}
      <4>1. detectors \in Seq(Detector)
        BY DEF TypeInv, TypeOK, RegistryTypeOK
      <4>2. detectors' \in Seq(Detector)
        BY RegistryTyped DEF TypeInv, TypeOK, RegistryTypeOK
      <4> QED
        BY <4>1, <4>2, LenProperties DEF Call
    <3>3. Stage(next)
      BY <2>1, <3>1 DEF Stage, Covered, Did
    <3>4. Behind(next) = Behind(now) /\ 1..Behind(now) \subseteq 1..Len(detectors)
      BY <2>1, <3>1, <3>2 DEF Behind, Visited
    <3>5. /\ next.cursor - 1 <= Len(detectors')
          /\ next.pc = "run" => /\ next.cursor >= 2
                                /\ next.current = detectors'[next.cursor - 1]
      BY <2>1, <3>1, <3>2 DEF Visited
    <3>6. \A i \in 1..Behind(next) : detectors'[i] = detectors[i]
      BY <3>1, <3>4
    <3>7. \A j \in 1..Len(next.ran) : \E i \in 1..Behind(next) : next.ran[j] = detectors'[i]
      BY <2>1, <3>1, <3>4, <3>6 DEF Visited
    <3>8. /\ Distinct(next)
          /\ \A i \in 1..Behind(next) :
               detectors'[i] \in next.steady /\ Wanted(next, detectors'[i])
                 => Did(next, detectors'[i])
          /\ next.steady \subseteq Active'
      BY <2>1, <3>1, <3>4, <3>6 DEF Visited, Distinct, Did, Wanted
    <3> QED
      BY <1>2, <2>1, <3>3, <3>5, <3>7, <3>8 DEF next, StillRuns
  <2> QED
    BY <2>2, <2>3
<1> QED
  BY <1>1, <1>2

LEMMA ManageRuns ==
  ASSUME TypeInv, RunsInv, NEW c \in Caller, [Next]_vars, Manage \/ CallbackManages(c)
  PROVE  RunsInv'
<1>0. RegistryStep /\ UNCHANGED settings
  BY StepOfRegistry DEF Manage, CallbackManages
<1>1. CASE Manage
  <2>1. \A d \in Caller : call'[d] = Witness(call[d]) /\ call[d] \in Call /\ Runs(call[d])
    BY <1>1 DEF Manage, TypeInv, Sound, RunsInv
  <2>2. \A d \in Caller : StillRuns(call'[d])
    BY <1>0, <2>1, WitnessRuns
  <2> QED
    BY <1>0, <2>2 DEF StillRuns, RunsInv, Runs, Finished, Visited, Stage, Covered, FailFast,
       Did, Wanted, Distinct, Behind
<1>2. CASE CallbackManages(c)
  <2>1. Given(c) \in Call
    BY <1>2, GivenSound DEF CallbackManages, Sound
  <2>2. Runs(Given(c))
    <3>1. call[c] \in Call /\ Runs(call[c]) /\ call[c].pc = "notify"
      BY <1>2 DEF TypeInv, Sound, RunsInv, CallbackManages
    <3>2. /\ Given(c).pc = call[c].pc /\ Given(c).after = call[c].after
          /\ Given(c).cursor = call[c].cursor /\ SameRuns(call[c], Given(c))
      BY <3>1 DEF Given, Call, SameRuns
    <3> QED
      BY <3>1, <3>2 DEF Runs, Visited, Stage, Covered, SameRuns, Did, Wanted, Distinct, Behind
  <2>3. ASSUME NEW d \in Caller
        PROVE  StillRuns(call'[d])
    <3>1. call'[d] = IF d = c THEN Witness(Given(c)) ELSE Witness(call[d])
      BY <1>2 DEF CallbackManages
    <3>2. call[d] \in Call /\ Runs(call[d])
      BY DEF TypeInv, Sound, RunsInv
    <3> QED
      BY <1>0, <2>1, <2>2, <3>1, <3>2, WitnessRuns
  <2> QED
    BY <1>0, <2>3 DEF StillRuns, RunsInv, Runs, Finished, Visited, Stage, Covered, FailFast,
       Did, Wanted, Distinct, Behind
<1> QED
  BY <1>1, <1>2

LEMMA RunsStep ==
  ASSUME TypeInv, UniqueNames, RunsInv, [Next]_vars
  PROVE  RunsInv'
<1>1. ASSUME NEW c \in Caller, BeginInspect(c) \/ BeginRedact(c)
      PROVE  RunsInv'
  BY <1>1, BeginRuns
<1>2. ASSUME NEW c \in Caller, InspectStep(c) \/ RedactStep(c)
      PROVE  RunsInv'
  BY <1>2, NextRuns, EndOfRuns, SkipRuns, DetectorRuns, QuietRuns DEF InspectStep, RedactStep
<1>3. ASSUME NEW c \in Caller, EventStep(c)
      PROVE  RunsInv'
  BY <1>3, QuietRuns, ManageRuns DEF EventStep
<1>4. ASSUME NEW c \in Caller, EndStep(c)
      PROVE  RunsInv'
  BY <1>4, QuietRuns, FinishRuns DEF EndStep
<1>5. CASE Manage
  <2>1. CASE Caller = {}
    BY <2>1 DEF RunsInv
  <2>2. CASE Caller # {}
    BY <1>5, <2>2, ManageRuns
  <2> QED
    BY <2>1, <2>2
<1>6. CASE UNCHANGED vars
  BY <1>6 DEF vars, RunsInv, Runs, Finished, Visited, Stage, Covered, FailFast, Did, Wanted,
     Distinct, Behind, Active
<1> QED
  BY <1>1, <1>2, <1>3, <1>4, <1>5, <1>6 DEF Next, CallStep

\* Each detector that is active from the beginning of a call to its end is run by
\* it, exactly once, however the list grows and detectors are switched on and off
\* meanwhile: on any guard that one thread manages at a time, for any number of
\* detectors and of callers at once.
THEOREM EachDetectorRunsOnce == OneManager => (Spec => []EachRunsOnce)
<1> SUFFICES ASSUME OneManager
             PROVE  Spec => []EachRunsOnce
  OBVIOUS
<1>1. Init => TypeInv /\ RunsInv
  <2>1. Init => RunsInv
    BY DEF Init, RunsInv, Runs, Finished, Distinct, NoCall
  <2> QED
    BY <2>1, TypeInit
<1>2. (TypeInv /\ RunsInv) /\ UniqueNames /\ [Next]_vars => (TypeInv /\ RunsInv)'
  BY TypeStep, RunsStep
<1>3. TypeInv /\ RunsInv => EachRunsOnce
  <2> SUFFICES ASSUME TypeInv, RunsInv, NEW c \in Caller, Over(c), ~call[c].shrunk
               PROVE  /\ Owed(c) \subseteq ToSet(call[c].ran)
                      /\ Cardinality(ToSet(call[c].ran)) = Len(call[c].ran)
    BY DEF EachRunsOnce
  <2>1. call[c].ran \in Seq(Detector) /\ Finished(call[c])
    BY DEF TypeInv, Sound, Call, RunsInv, Runs, Over
  <2>2. \A d : d \in ToSet(call[c].ran) <=> Did(call[c], d)
    BY <2>1, Members DEF Did
  <2>3. Cardinality(ToSet(call[c].ran)) = Len(call[c].ran)
    BY <2>1, DistinctCounted DEF Finished, Distinct
  <2>4. Owed(c) \subseteq ToSet(call[c].ran)
    BY <2>1, <2>2 DEF Owed, Finished, Covered
  <2> QED
    BY <2>3, <2>4
<1> QED
  BY <1>1, <1>2, <1>3, NamesStayUnique, PTL DEF Spec
-----------------------------------------------------------------------------
(* What a call's step does to what it has to tell *)

\* The SYSTEM_FAILURE events a call owes its failing detectors.
Fails(now) ==
  [i \in DOMAIN now.errors |-> Event("system_failure", FailAction, NameOf[now.errors[i]])]

\* Two records of a call that differ in its place in the list and in what the
\* registry did meanwhile, at most.
Alike(now, next) ==
  /\ next.op = now.op /\ next.pc = now.pc /\ next.outcome = now.outcome
  /\ next.results = now.results /\ next.errors = now.errors
  /\ next.pending = now.pending /\ next.after = now.after
  /\ next.listener = now.listener /\ next.trail = now.trail /\ next.heard = now.heard
  /\ next.decision = now.decision /\ next.audience = now.audience

\* A step that tells nobody anything.
Silent(now, next) ==
  /\ next.op = now.op /\ next.audience = now.audience
  /\ next.trail = now.trail /\ next.heard = now.heard

Starts(next) ==
  /\ next.op \in {"inspect", "redact"} /\ next.audience = callbacks
  /\ next.pc \in {"scan", "over"} /\ (next.pc = "over" => next.op = "redact")
  /\ next.errors = <<>> /\ next.trail = <<>>
  /\ next.heard = [n \in 1..MaxCallbacks |-> <<>>]

Looks(now, next) ==
  /\ Silent(now, next)
  /\ now.pc \in {"scan", "run"} /\ next.pc \in {"scan", "run", "report"}
  /\ next.pc = "report" => now.op = "inspect"
  /\ now.op # "inspect" => next.errors = now.errors

Leaves(now, next) ==
  /\ Silent(now, next)
  /\ now.pc = "scan" /\ now.op # "inspect" /\ next.pc = "over"
  /\ next.errors = now.errors

\* A step that leaves what was found as it is.
Holds(now, next) == next.errors = now.errors /\ next.results = now.results

Reports(now, next) ==
  /\ Silent(now, next) /\ Holds(now, next)
  /\ now.pc = "report" /\ next.pc = "emit"
  /\ next.pending = Fails(now) /\ next.after \in {"block", "policy"}

Decides(now, next) ==
  /\ Silent(now, next) /\ Holds(now, next)
  /\ now.pc = "policy" /\ next.pc = "decided"
  /\ \E action \in Action :
       /\ settings.policy = Custom \/ action = Evaluate(settings.policy, now.results)
       /\ next.decision = UnderMode(settings, action)

Objects(now, next) ==
  /\ Silent(now, next) /\ Holds(now, next)
  /\ now.pc = "policy" /\ next.pc = "emit"
  /\ next.pending = <<Event("policy_failure", FailAction, "policy")>>
  /\ next.after \in {"raise", "allow"}

Announces(now, next) ==
  /\ Silent(now, next) /\ Holds(now, next)
  /\ now.pc = "decided" /\ next.pc = "emit" /\ next.decision = now.decision
  /\ \A i \in DOMAIN next.pending : next.pending[i].type = "detection"
  /\ next.after \in {"ValueError", "return"}

Spoils(now, next) ==
  /\ Silent(now, next)
  /\ now.pc = "run" /\ now.op = "redact" /\ next.pc = "emit"
  /\ \E d \in Detector :
       /\ next.errors = Append(now.errors, d)
       /\ next.pending = <<Event("system_failure", FailAction, NameOf[d])>>
  /\ next.after \in {"raise", "scan"}

\* A step that leaves a call's end as it is.
Bound(now, next) ==
  /\ next.op = now.op /\ next.audience = now.audience /\ Holds(now, next)
  /\ next.after = now.after /\ next.decision = now.decision

Stores(now, next) ==
  /\ Bound(now, next)
  /\ now.pc = "emit" /\ now.pending # <<>> /\ next.pc = "notify"
  /\ next.pending = now.pending /\ next.trail = Append(now.trail, Head(now.pending))
  /\ next.listener = 0 /\ next.heard = now.heard

Passes(now, next) ==
  /\ Bound(now, next)
  /\ now.pc = "notify" /\ next.pc = "notify" /\ next.pending = now.pending
  /\ now.listener < callbacks /\ next.listener = now.listener + 1
  /\ next.heard = [now.heard EXCEPT ![now.listener + 1] = Append(@, Head(now.pending))]
  /\ \/ next.trail = now.trail
     \/ next.trail = Append(now.trail, Event("callback_failure", "warn", "callback"))

Advances(now, next) ==
  /\ Bound(now, next)
  /\ now.pc = "notify" /\ next.pc = "emit" /\ now.pending # <<>>
  /\ now.listener >= callbacks
  /\ next.pending = Tail(now.pending)
  /\ next.trail = now.trail /\ next.heard = now.heard

Concludes(now, next) ==
  /\ Silent(now, next) /\ Holds(now, next)
  /\ now.pc = "emit" /\ now.pending = <<>>
  /\ \/ now.after \in {"policy", "scan"} /\ next.pc = now.after
     \/ now.after = "allow" /\ next.pc = "decided"
     \/ now.after = "block" /\ next.pc = "over" /\ next.decision = "block"
     \/ now.after = "return" /\ next.pc = "over" /\ next.decision = now.decision
     \/ next.pc = "over" /\ next.outcome # "returned"

Moves(now, next) ==
  \/ Starts(next) \/ Looks(now, next) \/ Leaves(now, next) \/ Reports(now, next)
  \/ Decides(now, next) \/ Objects(now, next) \/ Announces(now, next)
  \/ Spoils(now, next) \/ Stores(now, next) \/ Passes(now, next)
  \/ Advances(now, next) \/ Concludes(now, next)

LEMMA WitnessAlike ==
  ASSUME NEW now \in Call
  PROVE  Alike(now, Witness(now))
<1>1. CASE now.pc = "over"
  BY <1>1 DEF Witness, Alike
<1>2. ASSUME NEW steady, NEW shrunk
      PROVE  Alike(now, [now EXCEPT !.steady = steady, !.shrunk = shrunk])
  BY DEF Alike, Call
<1> QED
  BY <1>1, <1>2, Zenon DEF Witness

LEMMA BeginMoves ==
  ASSUME TypeInv, NEW c \in Caller, BeginInspect(c) \/ BeginRedact(c)
  PROVE  \E next : Progress(c, next) /\ Starts(next)
<1>1. ASSUME NEW op \in {"inspect", "redact"}
      PROVE  /\ NewCall(op) \in Call /\ NewCall(op).pc = "scan" /\ NewCall(op).op = op
             /\ NewCall(op).audience = callbacks
             /\ NewCall(op).errors = <<>> /\ NewCall(op).trail = <<>>
             /\ NewCall(op).heard = [n \in 1..MaxCallbacks |-> <<>>]
  <2>1. NewCall(op) \in Call /\ NewCall(op).pc = "scan"
    BY NewCallSound DEF Sound
  <2>2. /\ NewCall(op).op = op /\ NewCall(op).audience = callbacks
        /\ NewCall(op).errors = <<>> /\ NewCall(op).trail = <<>>
        /\ NewCall(op).heard = [n \in 1..MaxCallbacks |-> <<>>]
    BY DEF NewCall, NoCall
  <2> QED
    BY <2>1, <2>2
<1>2. ASSUME NEW emit
      PROVE  Starts([NewCall("inspect") EXCEPT !.emit = emit])
  BY <1>1 DEF Starts, Call
<1>3. Starts(NewCall("redact"))
  BY <1>1 DEF Starts
<1>4. ASSUME NEW allowed
      PROVE  Starts([NewCall("redact") EXCEPT !.allowed = allowed])
  BY <1>1 DEF Starts, Call
<1>5. Starts(Ended(NewCall("redact"), "ValueError", "none"))
  <2> DEFINE now == NewCall("redact")
  <2>1. now \in Call /\ Starts(now) /\ now.op = "redact"
    BY <1>1, <1>3
  <2> HIDE DEF now
  <2> DEFINE next == Ended(now, "ValueError", "none")
  <2>2. /\ next.pc = "over" /\ next.op = now.op /\ next.audience = now.audience
        /\ next.errors = now.errors /\ next.trail = now.trail /\ next.heard = now.heard
    BY <2>1 DEF Ended, Call
  <2> HIDE DEF next
  <2>3. Starts(next)
    BY <2>1, <2>2 DEF Starts
  <2> QED
    BY <2>3 DEF now, next
<1>6. CASE BeginInspect(c)
  BY <1>2, <1>6 DEF BeginInspect
<1>7. CASE BeginRedact(c)
  <2>1. \/ Progress(c, NewCall("redact"))
        \/ Progress(c, Ended(NewCall("redact"), "ValueError", "none"))
        \/ \E allowed : Progress(c, [NewCall("redact") EXCEPT !.allowed = allowed])
    BY <1>7, Zenon DEF BeginRedact
  <2> QED
    BY <1>3, <1>4, <1>5, <2>1
<1> QED
  BY <1>6, <1>7

LEMMA RunMoves ==
  ASSUME TypeInv, NEW c \in Caller,
         \/ NextDetector(c) \/ EndOfDetectors(c) \/ SkipDisabled(c)
         \/ NoMatch(c) \/ Matches(c) \/ DetectorFails(c)
         \/ NotSelected(c) \/ Redacts(c)
  PROVE  \E next : Progress(c, next) /\ (Looks(call[c], next) \/ Leaves(call[c], next))
<1>0. call[c] \in Call
  BY DEF TypeInv, Sound
\* A step that goes on with the list, or has been through it.
<1>1. ASSUME NEW next, Progress(c, next), call[c].pc \in {"scan", "run"},
             next.pc \in {"scan", "run", "report"}, next.pc = "report" => call[c].op = "inspect",
             Silent(call[c], next), call[c].op # "inspect" => next.errors = call[c].errors
      PROVE  \E mid : Progress(c, mid) /\ (Looks(call[c], mid) \/ Leaves(call[c], mid))
  BY <1>1 DEF Looks
<1>2. ASSUME Progress(c, [call[c] EXCEPT !.pc = "scan", !.current = NoDetector]),
             call[c].pc = "run"
      PROVE  \E mid : Progress(c, mid) /\ (Looks(call[c], mid) \/ Leaves(call[c], mid))
  <2> DEFINE next == [call[c] EXCEPT !.pc = "scan", !.current = NoDetector]
  <2>1. Progress(c, next)
    BY <1>2
  <2>2. next.pc = "scan" /\ Silent(call[c], next) /\ next.errors = call[c].errors
    BY <1>0 DEF Silent, Call
  <2> HIDE DEF next
  <2> QED
    BY <1>1, <1>2, <2>1, <2>2
<1>3. ASSUME NEW label
      PROVE  /\ Ran(c, label).pc = label /\ Silent(call[c], Ran(c, label))
             /\ Ran(c, label).errors = call[c].errors
  BY <1>0 DEF Silent, Ran, Call
<1>4. CASE NextDetector(c)
  <2> DEFINE next == [call[c] EXCEPT !.pc = "run", !.current = detectors[call[c].cursor],
                                     !.cursor = call[c].cursor + 1]
  <2>1. Progress(c, next) /\ call[c].pc = "scan"
    BY <1>4 DEF NextDetector
  <2>2. next.pc = "run" /\ Silent(call[c], next) /\ next.errors = call[c].errors
    BY <1>0 DEF Silent, Call
  <2> HIDE DEF next
  <2> QED
    BY <1>1, <2>1, <2>2
<1>5. CASE EndOfDetectors(c)
  <2>1. ASSUME call[c].op = "inspect"
        PROVE  \E next : Progress(c, next) /\ Looks(call[c], next)
    <3> DEFINE next == [call[c] EXCEPT !.pc = "report"]
    <3>1. Progress(c, next)
      BY <1>5, <2>1 DEF EndOfDetectors
    <3>2. next.pc = "report" /\ Silent(call[c], next)
      BY <1>0 DEF Silent, Call
    <3> HIDE DEF next
    <3> QED
      BY <1>5, <2>1, <3>1, <3>2 DEF Looks, EndOfDetectors
  <2>2. ASSUME call[c].op # "inspect"
        PROVE  \E next : Progress(c, next) /\ Leaves(call[c], next)
    <3> DEFINE next == Ended(call[c], "returned", "none")
    <3>1. Progress(c, next)
      BY <1>5, <2>2 DEF EndOfDetectors
    <3>2. next.pc = "over" /\ Silent(call[c], next) /\ next.errors = call[c].errors
      BY <1>0 DEF Silent, Ended, Call
    <3> HIDE DEF next
    <3> QED
      BY <1>5, <2>2, <3>1, <3>2 DEF Leaves, EndOfDetectors
  <2> QED
    BY <2>1, <2>2
<1>6. CASE SkipDisabled(c)
  BY <1>2, <1>6 DEF SkipDisabled
<1>7. CASE NoMatch(c)
  BY <1>1, <1>3, <1>7 DEF NoMatch, Up
<1>8. CASE NotSelected(c)
  BY <1>2, <1>8 DEF NotSelected, Up
<1>9. CASE Redacts(c)
  BY <1>1, <1>3, <1>9 DEF Redacts, Up
<1> DEFINE label == IF FailFast THEN "report" ELSE "scan"
<1>10. label \in {"report", "scan"}
  OBVIOUS
<1>11. ASSUME NEW next, Up(c, "inspect"), Progress(c, next),
              \/ \E results : next = [Ran(c, label) EXCEPT !.results = results]
              \/ \E errors : next = [Ran(c, label) EXCEPT !.errors = errors]
       PROVE  \E mid : Progress(c, mid) /\ Looks(call[c], mid)
  <2>1. Ran(c, label) \in Call
    BY <1>10, <1>11, RanSound DEF Sound, Up
  <2>2. Ran(c, label).pc = label /\ Silent(call[c], Ran(c, label))
    BY <1>3
  <2> DEFINE ran == Ran(c, label)
  <2> HIDE DEF label, ran
  <2>3. /\ next.op = ran.op /\ next.audience = ran.audience /\ next.pc = ran.pc
        /\ next.trail = ran.trail /\ next.heard = ran.heard
    BY <1>11, <2>1 DEF Call, ran
  <2>4. Looks(call[c], next)
    BY <1>10, <1>11, <2>2, <2>3 DEF Looks, Silent, Up, ran
  <2> QED
    BY <1>11, <2>4
<1>12. CASE Matches(c)
  <2>1. PICK f \in Finding :
          Progress(c, [Ran(c, label) EXCEPT
                         !.results = Append(@, [detector |-> NameOf[call[c].current],
                                                matches |-> f.matches, model |-> f.model])])
    BY <1>12 DEF Matches
  <2>2. Up(c, "inspect")
    BY <1>12 DEF Matches
  <2> HIDE DEF label
  <2> QED
    BY <1>11, <2>1, <2>2
<1>13. CASE DetectorFails(c)
  <2>1. Progress(c, [Ran(c, label) EXCEPT !.errors = Append(@, call[c].current)])
        /\ Up(c, "inspect")
    BY <1>13 DEF DetectorFails
  <2> HIDE DEF label
  <2> QED
    BY <1>11, <2>1
<1> QED
  BY <1>4, <1>5, <1>6, <1>7, <1>8, <1>9, <1>12, <1>13

LEMMA ReportMoves ==
  ASSUME TypeInv, NEW c \in Caller,
         \/ ReportErrors(c) \/ PolicyDecides(c) \/ PolicyFails(c)
         \/ EmitDetections(c) \/ RedactionFails(c)
  PROVE  \E next : Progress(c, next) /\ Moves(call[c], next)
<1>0. call[c] \in Call
  BY DEF TypeInv, Sound
<1>1. CASE ReportErrors(c)
  <2> DEFINE after == IF FailClosed /\ call[c].errors # <<>> THEN "block" ELSE "policy"
             next == [call[c] EXCEPT !.pc = "emit", !.pending = Fails(call[c]),
                                     !.after = after]
  <2>1. Progress(c, next) /\ call[c].pc = "report"
    BY <1>1 DEF ReportErrors, Fails
  <2>2. after \in {"block", "policy"}
    OBVIOUS
  <2> HIDE DEF after
  <2>3. /\ next.pc = "emit" /\ next.pending = Fails(call[c]) /\ next.after = after
        /\ Silent(call[c], next) /\ Holds(call[c], next)
    BY <1>0 DEF Silent, Holds, Call
  <2> HIDE DEF next
  <2> QED
    BY <2>1, <2>2, <2>3 DEF Moves, Reports
<1>2. CASE PolicyDecides(c)
  <2>1. PICK action \in Verdicts(c) \cap Action :
          Progress(c, [call[c] EXCEPT !.pc = "decided", !.decision = UnderMode(settings, action)])
    BY <1>2 DEF PolicyDecides
  <2> DEFINE decision == UnderMode(settings, action)
             next == [call[c] EXCEPT !.pc = "decided", !.decision = decision]
  <2>2. settings.policy = Custom \/ action = Evaluate(settings.policy, call[c].results)
    BY DEF Verdicts
  <2>3. Progress(c, next) /\ call[c].pc = "policy"
    BY <1>2, <2>1 DEF PolicyDecides
  <2> HIDE DEF decision
  <2>4. /\ next.pc = "decided" /\ next.decision = decision
        /\ Silent(call[c], next) /\ Holds(call[c], next)
    BY <1>0 DEF Silent, Holds, Call
  <2> HIDE DEF next
  <2>5. Decides(call[c], next)
    BY <2>2, <2>3, <2>4 DEF Decides, decision
  <2> QED
    BY <2>3, <2>5 DEF Moves
<1>3. CASE PolicyFails(c)
  <2> DEFINE after == IF FailClosed THEN "raise" ELSE "allow"
             pending == <<Event("policy_failure", FailAction, "policy")>>
             next == [call[c] EXCEPT !.pc = "emit", !.pending = pending, !.after = after]
  <2>1. Progress(c, next) /\ call[c].pc = "policy"
    BY <1>3 DEF PolicyFails
  <2>2. after \in {"raise", "allow"}
    OBVIOUS
  <2> HIDE DEF after
  <2>3. /\ next.pc = "emit" /\ next.pending = pending /\ next.after = after
        /\ Silent(call[c], next) /\ Holds(call[c], next)
    BY <1>0 DEF Silent, Holds, Call
  <2> HIDE DEF next
  <2> QED
    BY <2>1, <2>2, <2>3 DEF Moves, Objects
<1>4. CASE EmitDetections(c)
  <2> DEFINE results == call[c].results
             bad == {i \in DOMAIN results : HighestResultSeverity(results[i]) = "ValueError"}
             sound == IF bad = {} THEN results
                      ELSE SubSeq(results, 1, (CHOOSE i \in bad : \A j \in bad : i <= j) - 1)
             pending == IF call[c].emit
                        THEN [i \in DOMAIN sound |->
                               Event("detection", call[c].decision, sound[i].detector)]
                        ELSE <<>>
             after == IF call[c].emit /\ bad # {} THEN "ValueError" ELSE "return"
             next == [call[c] EXCEPT !.pc = "emit", !.pending = pending, !.after = after]
  <2>1. Progress(c, next) /\ call[c].pc = "decided"
    BY <1>4 DEF EmitDetections
  <2> HIDE DEF sound
  <2>2. \A i \in DOMAIN pending : pending[i].type = "detection"
    BY DEF Event
  <2>3. after \in {"ValueError", "return"}
    OBVIOUS
  <2> HIDE DEF pending, after
  <2>4. /\ next.pc = "emit" /\ next.pending = pending /\ next.after = after
        /\ Silent(call[c], next) /\ Holds(call[c], next) /\ next.decision = call[c].decision
    BY <1>0 DEF Silent, Holds, Call
  <2> HIDE DEF next
  <2>5. Announces(call[c], next)
    BY <2>1, <2>2, <2>3, <2>4 DEF Announces
  <2> QED
    BY <2>1, <2>5 DEF Moves
<1>5. CASE RedactionFails(c)
  <2> DEFINE d == call[c].current
             after == IF FailClosed THEN "raise" ELSE "scan"
             pending == <<Event("system_failure", FailAction, NameOf[d])>>
             errors == Append(Ran(c, "emit").errors, d)
             next == [Ran(c, "emit") EXCEPT !.errors = errors, !.pending = pending,
                                            !.after = after]
  <2>1. Progress(c, next) /\ call[c].pc = "run" /\ call[c].op = "redact"
    BY <1>5 DEF RedactionFails, Up
  <2>2. /\ Ran(c, "emit").pc = "emit" /\ Ran(c, "emit").errors = call[c].errors
        /\ Silent(call[c], Ran(c, "emit"))
    BY <1>0 DEF Silent, Ran, Call
  <2>3. Ran(c, "emit") \in Call /\ d \in Detector
    BY <2>1, RanSound DEF Sound, TypeInv
  <2>4. after \in {"raise", "scan"} /\ errors = Append(call[c].errors, d)
    BY <2>2
  <2> DEFINE ran == Ran(c, "emit")
  <2> HIDE DEF pending, after, errors, d, ran
  <2>5. /\ next.pc = ran.pc /\ next.op = ran.op /\ next.audience = ran.audience
        /\ next.trail = ran.trail /\ next.heard = ran.heard
        /\ next.errors = errors /\ next.pending = pending /\ next.after = after
    BY <2>3 DEF Call, ran
  <2> HIDE DEF next
  <2>6. Spoils(call[c], next)
    BY <2>1, <2>2, <2>3, <2>4, <2>5 DEF Spoils, Silent, ran, pending
  <2> QED
    BY <2>1, <2>6 DEF Moves
<1> QED
  BY <1>1, <1>2, <1>3, <1>4, <1>5

\* A callback is given the event: whether it raises or not, or manages the guard.
LEMMA GivenMoves ==
  ASSUME TypeInv, NEW c \in Caller, call[c].pc = "notify", call[c].listener < callbacks
  PROVE  /\ Given(c) \in Call /\ Passes(call[c], Given(c))
         /\ LET next == [Given(c) EXCEPT
                           !.trail = Append(@, Event("callback_failure", "warn", "callback"))]
            IN  Passes(call[c], next)
<1>0. call[c] \in Call
  BY DEF TypeInv, Sound
<1>1. Given(c) \in Call /\ Given(c).pc = "notify" /\ Given(c).pending = call[c].pending
  BY GivenSound DEF Sound
<1> DEFINE n == call[c].listener + 1
           heard == [call[c].heard EXCEPT ![n] = Append(@, Head(call[c].pending))]
           given == [call[c] EXCEPT !.listener = n, !.heard = heard]
<1>2. Given(c) = given
  BY <1>0 DEF Given, Call
<1> HIDE DEF n, heard
<1>3. /\ given.op = call[c].op /\ given.audience = call[c].audience
      /\ Holds(call[c], given) /\ given.after = call[c].after
      /\ given.decision = call[c].decision /\ given.trail = call[c].trail
      /\ given.listener = n /\ given.heard = heard
  BY <1>0 DEF Holds, Call
<1>4. Passes(call[c], given)
  <2> HIDE DEF given
  <2> QED
    BY <1>1, <1>2, <1>3 DEF Passes, Bound, n, heard
<1> DEFINE next == [given EXCEPT
                      !.trail = Append(@, Event("callback_failure", "warn", "callback"))]
<1> HIDE DEF given
<1>5. given \in Call
  BY <1>1, <1>2
<1>6. /\ next.op = given.op /\ next.audience = given.audience
      /\ next.errors = given.errors /\ next.results = given.results
      /\ next.after = given.after /\ next.decision = given.decision
      /\ next.pc = given.pc /\ next.pending = given.pending
      /\ next.listener = given.listener /\ next.heard = given.heard
      /\ next.trail = Append(given.trail, Event("callback_failure", "warn", "callback"))
  BY <1>5 DEF Call
<1>7. Passes(call[c], next)
  <2> HIDE DEF next
  <2> QED
    BY <1>3, <1>4, <1>6 DEF Passes, Bound, Holds
<1> QED
  BY <1>1, <1>2, <1>4, <1>7

LEMMA EventMoves ==
  ASSUME TypeInv, NEW c \in Caller,
         EmitEvent(c) \/ CallbackReturns(c) \/ CallbackRaises(c) \/ EventDone(c)
  PROVE  \E next : Progress(c, next) /\ Moves(call[c], next)
<1>0. call[c] \in Call
  BY DEF TypeInv, Sound
<1>1. CASE EmitEvent(c)
  <2> DEFINE next == [call[c] EXCEPT !.pc = "notify",
                                     !.trail = Append(@, Head(call[c].pending)), !.listener = 0]
  <2>1. Progress(c, next) /\ call[c].pc = "emit" /\ call[c].pending # <<>>
    BY <1>1 DEF EmitEvent
  <2>2. /\ next.op = call[c].op /\ next.audience = call[c].audience
        /\ next.errors = call[c].errors /\ next.results = call[c].results
        /\ next.after = call[c].after /\ next.decision = call[c].decision
        /\ next.pc = "notify" /\ next.pending = call[c].pending
        /\ next.trail = Append(call[c].trail, Head(call[c].pending))
        /\ next.listener = 0 /\ next.heard = call[c].heard
    BY <1>0 DEF Call
  <2> HIDE DEF next
  <2> QED
    BY <2>1, <2>2 DEF Moves, Stores, Bound, Holds
<1>2. CASE CallbackReturns(c)
  BY <1>2, GivenMoves DEF CallbackReturns, Moves
<1>3. CASE CallbackRaises(c)
  BY <1>3, GivenMoves DEF CallbackRaises, Moves
<1>4. CASE EventDone(c)
  <2> DEFINE next == [call[c] EXCEPT !.pc = "emit", !.pending = Tail(@), !.listener = 0]
  <2>1. /\ Progress(c, next) /\ call[c].pc = "notify" /\ call[c].pending # <<>>
        /\ call[c].listener >= callbacks
    BY <1>4 DEF EventDone, TypeInv, Sound
  <2>2. /\ next.op = call[c].op /\ next.audience = call[c].audience
        /\ next.errors = call[c].errors /\ next.results = call[c].results
        /\ next.after = call[c].after /\ next.decision = call[c].decision
        /\ next.pc = "emit" /\ next.pending = Tail(call[c].pending)
        /\ next.trail = call[c].trail /\ next.heard = call[c].heard
    BY <1>0 DEF Call
  <2> HIDE DEF next
  <2> QED
    BY <2>1, <2>2 DEF Moves, Advances, Bound, Holds
<1> QED
  BY <1>1, <1>2, <1>3, <1>4

LEMMA EndMoves ==
  ASSUME TypeInv, NEW c \in Caller, EndStep(c)
  PROVE  \E next : Progress(c, next) /\ Concludes(call[c], next)
<1>0. call[c] \in Call
  BY DEF TypeInv, Sound
<1>1. ASSUME NEW outcome, NEW decision, EventsOut(c, call[c].after),
             Progress(c, Ended(call[c], outcome, decision)),
             \/ call[c].after = "block" /\ decision = "block"
             \/ call[c].after = "return" /\ decision = call[c].decision
             \/ outcome # "returned"
      PROVE  \E next : Progress(c, next) /\ Concludes(call[c], next)
  <2> DEFINE next == Ended(call[c], outcome, decision)
  <2>1. /\ next.pc = "over" /\ next.outcome = outcome /\ next.decision = decision
        /\ Silent(call[c], next) /\ Holds(call[c], next)
    BY <1>0 DEF Ended, Silent, Holds, Call
  <2> HIDE DEF next
  <2>2. Concludes(call[c], next)
    BY <1>1, <2>1 DEF Concludes, EventsOut
  <2> QED
    BY <1>1, <2>2 DEF next
<1>2. CASE GoOn(c)
  <2> DEFINE next == [call[c] EXCEPT !.pc = call[c].after, !.after = "none"]
  <2>1. /\ Progress(c, next) /\ call[c].pc = "emit" /\ call[c].pending = <<>>
        /\ call[c].after \in {"policy", "scan"}
    BY <1>2 DEF GoOn, EventsOut
  <2>2. next.pc = call[c].after /\ Silent(call[c], next) /\ Holds(call[c], next)
    BY <1>0 DEF Silent, Holds, Call
  <2> HIDE DEF next
  <2> QED
    BY <2>1, <2>2 DEF Concludes
<1>3. CASE AllowOnPolicyError(c)
  <2> DEFINE next == [call[c] EXCEPT !.pc = "decided", !.after = "none", !.decision = "allow"]
  <2>1. /\ Progress(c, next) /\ call[c].pc = "emit" /\ call[c].pending = <<>>
        /\ call[c].after = "allow"
    BY <1>3 DEF AllowOnPolicyError, EventsOut
  <2>2. next.pc = "decided" /\ Silent(call[c], next) /\ Holds(call[c], next)
    BY <1>0 DEF Silent, Holds, Call
  <2> HIDE DEF next
  <2> QED
    BY <2>1, <2>2 DEF Concludes
<1>4. CASE BlockOnError(c)
  BY <1>1, <1>4 DEF BlockOnError, Finish, EventsOut
<1>5. CASE RaiseOnError(c)
  <2> DEFINE outcome == IF call[c].op = "inspect" THEN "PolicyEvaluationError"
                        ELSE "RedactionError"
  <2>1. outcome # "returned"
    OBVIOUS
  <2>2. Progress(c, Ended(call[c], outcome, "none")) /\ EventsOut(c, call[c].after)
    BY <1>5 DEF RaiseOnError, Finish, EventsOut
  <2> HIDE DEF outcome
  <2> QED
    BY <1>1, <2>1, <2>2
<1>6. CASE RaiseValueError(c)
  BY <1>1, <1>6 DEF RaiseValueError, Finish, EventsOut
<1>7. CASE Return(c)
  BY <1>1, <1>7 DEF Return, Finish, EventsOut
<1> QED
  BY <1>2, <1>3, <1>4, <1>5, <1>6, <1>7 DEF EndStep

\* Every step leaves a call as it is or moves it on, and may change the registry.
LEMMA EveryCallMoves ==
  ASSUME TypeInv, [Next]_vars, NEW d \in Caller
  PROVE  \E mid : (mid = call[d] \/ Moves(call[d], mid)) /\ Alike(mid, call'[d])
<1>0. call \in [Caller -> Call]
  BY DEF TypeInv, TypeOK
<1>1. ASSUME NEW now
      PROVE  Alike(now, now)
  BY DEF Alike
<1>2. ASSUME NEW c \in Caller, NEW next, Progress(c, next), Moves(call[c], next)
      PROVE  \E mid : (mid = call[d] \/ Moves(call[d], mid)) /\ Alike(mid, call'[d])
  <2>1. call'[d] = IF d = c THEN next ELSE call[d]
    BY <1>0, <1>2 DEF Progress
  <2> QED
    BY <1>1, <1>2, <2>1, Zenon
<1>3. ASSUME NEW c \in Caller, BeginInspect(c) \/ BeginRedact(c)
      PROVE  \E mid : (mid = call[d] \/ Moves(call[d], mid)) /\ Alike(mid, call'[d])
  <2>1. PICK next : Progress(c, next) /\ Starts(next)
    BY <1>3, BeginMoves
  <2> QED
    BY <1>2, <2>1 DEF Moves
<1>4. ASSUME NEW c \in Caller, CallStep(c), ~CallbackManages(c)
      PROVE  \E next : Progress(c, next) /\ Moves(call[c], next)
  <2>1. CASE InspectStep(c) \/ RedactStep(c)
    <3>1. CASE \/ NextDetector(c) \/ EndOfDetectors(c) \/ SkipDisabled(c)
               \/ NoMatch(c) \/ Matches(c) \/ DetectorFails(c)
               \/ NotSelected(c) \/ Redacts(c)
      <4>1. PICK next : Progress(c, next) /\ (Looks(call[c], next) \/ Leaves(call[c], next))
        BY <3>1, RunMoves
      <4> QED
        BY <4>1 DEF Moves
    <3>2. CASE \/ ReportErrors(c) \/ PolicyDecides(c) \/ PolicyFails(c)
               \/ EmitDetections(c) \/ RedactionFails(c)
      BY <3>2, ReportMoves
    <3> QED
      BY <2>1, <3>1, <3>2 DEF InspectStep, RedactStep
  <2>2. CASE EventStep(c)
    BY <1>4, <2>2, EventMoves DEF EventStep
  <2>3. CASE EndStep(c)
    <3>1. PICK next : Progress(c, next) /\ Concludes(call[c], next)
      BY <2>3, EndMoves
    <3> QED
      BY <3>1 DEF Moves
  <2> QED
    BY <1>4, <2>1, <2>2, <2>3 DEF CallStep
<1>5. ASSUME NEW c \in Caller, CallbackManages(c)
      PROVE  \E mid : (mid = call[d] \/ Moves(call[d], mid)) /\ Alike(mid, call'[d])
  <2>1. Given(c) \in Call /\ Passes(call[c], Given(c))
    BY <1>5, GivenMoves DEF CallbackManages
  <2> DEFINE mid == IF d = c THEN Given(c) ELSE call[d]
  <2>2. call'[d] = Witness(mid)
    BY <1>5 DEF CallbackManages
  <2>3. mid \in Call /\ (mid = call[d] \/ Moves(call[d], mid))
    <3>1. CASE d = c
      BY <2>1, <3>1 DEF Moves
    <3>2. CASE d # c
      BY <1>0, <3>2
    <3> QED
      BY <3>1, <3>2
  <2> HIDE DEF mid
  <2>4. Alike(mid, Witness(mid))
    BY <2>3, WitnessAlike
  <2> QED
    BY <2>2, <2>3, <2>4
<1>6. CASE Manage
  <2>1. call'[d] = Witness(call[d]) /\ call[d] \in Call
    BY <1>0, <1>6 DEF Manage
  <2> QED
    BY <2>1, WitnessAlike
<1>7. CASE UNCHANGED vars
  BY <1>1, <1>7 DEF vars
<1> QED
  BY <1>2, <1>3, <1>4, <1>5, <1>6, <1>7 DEF Next

\* Callbacks are never taken out.
LEMMA CallbacksGrow ==
  ASSUME TypeInv, [Next]_vars
  PROVE  callbacks \in Nat /\ callbacks' \in Nat /\ callbacks <= callbacks'
<1>1. callbacks \in Nat
  BY CallbacksAssumption DEF TypeInv, TypeOK, RegistryTypeOK
<1>2. callbacks' = callbacks \/ callbacks' = callbacks + 1
  <2>1. ASSUME NEW a \in Admin, AdminBegins(a) \/ AdminFinishes(a)
        PROVE  callbacks' = callbacks \/ callbacks' = callbacks + 1
    BY <2>1 DEF AdminBegins, AdminFinishes, RegisterDetector, UnregisterDetector,
       DisableDetector, EnableDetector, Start, RegisterCallback, AddCallback, FinishRegister,
       AppendDetector, PopFound, PopDetector, FinishUnregister, FinishToggle, AddDisabled,
       DiscardDisabled
  <2>2. CASE CallbackStep
    BY <2>2 DEF CallbackStep, ManageAtOnce, AppendDetector, AddDisabled, DiscardDisabled,
       AddCallback
  <2>3. CASE UNCHANGED registryVars
    BY <2>3 DEF registryVars
  <2> QED
    BY <2>1, <2>2, <2>3, StepOfRegistry DEF RegistryStep, AdminStep
<1> QED
  BY <1>1, <1>2
-----------------------------------------------------------------------------
(* No finding is masked *)

\* The events a call has announced and not stored yet.
Coming(now) ==
  IF now.pc = "emit" THEN now.pending
  ELSE IF now.pc = "notify" THEN Tail(now.pending) ELSE <<>>

PolicyError == {"policy_failure"}

\* The policy was asked and its answer stands, unless a failure of it is on record
\* or on its way there; BLOCK is the only other decision of a call that returns.
Heeds(now) ==
  LET heeded == \/ now.decision = Evaluate(settings.policy, now.results)
                \/ Tells(now.trail, PolicyError)
  IN  /\ now.pc = "decided" => heeded
      /\ now.pc \in {"emit", "notify"} /\ now.after = "return" => heeded
      /\ now.pc \in {"emit", "notify"} /\ now.after = "allow"
           => Tells(now.trail, PolicyError) \/ Tells(Coming(now), PolicyError)
      /\ now.pc = "over" /\ now.op = "inspect" /\ now.outcome = "returned"
           => heeded \/ now.decision = "block"

Asks == settings.mode = "enforce" /\ settings.policy # Custom

HeedInv == Asks => \A c \in Caller : Heeds(call[c])

\* What a list of events tells it still tells when it is longer.
LEMMA TellsMore ==
  ASSUME NEW s \in Seq(Events), NEW e \in Events, NEW types
  PROVE  Tells(s, types) \/ e.type \in types => Tells(Append(s, e), types)
<1>1. /\ Len(s) \in Nat /\ DOMAIN s = 1..Len(s)
      /\ DOMAIN Append(s, e) = 1..(Len(s) + 1)
      /\ \A j \in 1..Len(s) : Append(s, e)[j] = s[j]
      /\ Append(s, e)[Len(s) + 1] = e
  BY AppendProperties, LenProperties
<1> QED
  BY <1>1 DEF Tells

\* ... and what it tells is told first or later.
LEMMA TellsFirst ==
  ASSUME NEW s \in Seq(Events), s # <<>>, NEW types, Tells(s, types)
  PROVE  Head(s).type \in types \/ Tells(Tail(s), types)
<1>1. /\ Len(s) \in Nat \ {0} /\ DOMAIN s = 1..Len(s) /\ Head(s) = s[1]
      /\ Tail(s) \in Seq(Events) /\ Len(Tail(s)) = Len(s) - 1
      /\ \A i \in 1..Len(Tail(s)) : Tail(s)[i] = s[i + 1]
  BY HeadTailProperties, LenProperties, EmptySeq
<1>2. DOMAIN Tail(s) = 1..(Len(s) - 1)
  BY <1>1, LenProperties
<1>3. PICK i \in 1..Len(s) : s[i].type \in types
  BY <1>1 DEF Tells
<1>4. CASE i = 1
  BY <1>1, <1>3, <1>4
<1>5. CASE i # 1
  <2>1. i - 1 \in DOMAIN Tail(s) /\ Tail(s)[i - 1] = s[i]
    BY <1>1, <1>2, <1>5
  <2> QED
    BY <1>3, <2>1 DEF Tells
<1> QED
  BY <1>4, <1>5

\* The lists a call keeps, and the event it is about to tell of.
LEMMA ListsOfCall ==
  ASSUME TypeInv, NEW c \in Caller
  PROVE  /\ call[c].trail \in Seq(Events) /\ call[c].pending \in Seq(Events)
         /\ call[c].pending # <<>> =>
              Head(call[c].pending) \in Events /\ Tail(call[c].pending) \in Seq(Events)
         /\ call[c].errors \in Seq(Detector)
         /\ call[c].heard \in [1..MaxCallbacks -> Seq(Events)]
         /\ Event("callback_failure", "warn", "callback") \in Events
<1>1. /\ call[c].trail \in Seq(Events) /\ call[c].pending \in Seq(Events)
      /\ call[c].errors \in Seq(Detector)
      /\ call[c].heard \in [1..MaxCallbacks -> Seq(Events)]
  BY DEF TypeInv, Sound, Call
<1>2. Event("callback_failure", "warn", "callback") \in Events
  BY EventTyped DEF EventType, Action
<1> QED
  BY <1>1, <1>2, HeadTailProperties

LEMMA HeedMoves ==
  ASSUME TypeInv, Asks, NEW c \in Caller, Heeds(call[c]), NEW next, Moves(call[c], next)
  PROVE  Heeds(next)
<1> DEFINE now == call[c]
<1>0. /\ now.trail \in Seq(Events) /\ now.pending \in Seq(Events)
      /\ now.pending # <<>> => Head(now.pending) \in Events /\ Tail(now.pending) \in Seq(Events)
      /\ Event("callback_failure", "warn", "callback") \in Events
  BY ListsOfCall
<1>1. CASE Starts(next)
  BY <1>1 DEF Starts, Heeds
<1>2. CASE Looks(now, next) \/ Leaves(now, next)
  BY <1>2 DEF Looks, Leaves, Silent, Heeds
<1>3. CASE Reports(now, next)
  BY <1>3 DEF Reports, Heeds
<1>4. CASE Decides(now, next)
  <2>1. PICK action \in Action :
          /\ action = Evaluate(settings.policy, now.results)
          /\ next.decision = UnderMode(settings, action)
    BY <1>4 DEF Decides, Asks
  <2>2. next.decision = action
    BY <2>1 DEF UnderMode, Asks
  <2>3. next.decision = Evaluate(settings.policy, next.results) /\ next.pc = "decided"
    BY <1>4, <2>1, <2>2 DEF Decides, Holds
  <2> QED
    BY <2>3 DEF Heeds
<1>5. CASE Objects(now, next)
  <2>1. Tells(next.pending, PolicyError)
    BY <1>5 DEF Objects, Event, Tells, PolicyError
  <2> QED
    BY <1>5, <2>1 DEF Objects, Heeds, Coming
<1>6. CASE Announces(now, next)
  BY <1>6 DEF Announces, Silent, Holds, Heeds
<1>7. CASE Spoils(now, next)
  BY <1>7 DEF Spoils, Heeds
<1>8. CASE Stores(now, next)
  <2>1. Tells(now.trail, PolicyError) => Tells(next.trail, PolicyError)
    BY <1>0, <1>8, TellsMore DEF Stores
  <2>2. Tells(Coming(now), PolicyError)
          => Tells(next.trail, PolicyError) \/ Tells(Coming(next), PolicyError)
    BY <1>0, <1>8, TellsMore, TellsFirst DEF Stores, Coming
  <2> QED
    BY <1>8, <2>1, <2>2 DEF Stores, Bound, Holds, Heeds
<1>9. CASE Passes(now, next)
  <2>1. Tells(now.trail, PolicyError) => Tells(next.trail, PolicyError)
    BY <1>0, <1>9, TellsMore DEF Passes
  <2>2. Coming(next) = Coming(now)
    BY <1>9 DEF Passes, Coming
  <2> QED
    BY <1>9, <2>1, <2>2 DEF Passes, Bound, Holds, Heeds
<1>10. CASE Advances(now, next)
  <2>1. Coming(next) = Coming(now)
    BY <1>10 DEF Advances, Coming
  <2> QED
    BY <1>10, <2>1 DEF Advances, Bound, Holds, Heeds
<1>11. CASE Concludes(now, next)
  <2>1. ~Tells(Coming(now), PolicyError)
    BY <1>11 DEF Concludes, Coming, Tells
  <2> QED
    BY <1>11, <2>1 DEF Concludes, Silent, Holds, Heeds
<1> QED
  BY <1>1, <1>2, <1>3, <1>4, <1>5, <1>6, <1>7, <1>8, <1>9, <1>10, <1>11 DEF Moves

LEMMA HeedStep ==
  ASSUME TypeInv, HeedInv, [Next]_vars
  PROVE  HeedInv'
<1>1. settings' = settings
  BY StepLeavesSettings
<1>2. ASSUME Asks, NEW d \in Caller
      PROVE  Heeds(call'[d])
  <2>1. PICK mid : (mid = call[d] \/ Moves(call[d], mid)) /\ Alike(mid, call'[d])
    BY EveryCallMoves
  <2>2. Heeds(mid)
    BY <1>2, <2>1, HeedMoves DEF HeedInv
  <2> QED
    BY <2>1, <2>2 DEF Alike, Heeds, Coming
<1>3. Asks' => Asks
  BY <1>1 DEF Asks
<1> QED
  BY <1>1, <1>2, <1>3 DEF HeedInv, Heeds, Tells, Coming, PolicyError

\* No detection hides behind another one or behind a failing detector: under
\* enforcement a returned inspection is at least as strict as the policy is with
\* any one severity reported, whatever the strategy, the detectors that failed
\* and the callbacks, for every policy that is no milder to a severer finding.
THEOREM NoFindingIsMasked == Spec => []NothingMasked
<1> DEFINE Inv == TypeInv /\ HeedInv
<1>1. Init => Inv
  <2>1. Init => HeedInv
    BY DEF Init, HeedInv, Heeds, NoCall
  <2> QED
    BY <2>1, TypeInit
<1>2. Inv /\ [Next]_vars => Inv'
  BY TypeStep, HeedStep
<1>3. Inv => NothingMasked
  <2> SUFFICES ASSUME Inv, NEW c \in Caller,
                      Over(c), call[c].op = "inspect",
                      settings.mode = "enforce", settings.policy \in BuiltIn,
                      Monotone(settings.policy),
                      call[c].outcome = "returned",
                      ~Tells(call[c].trail, PolicyError),
                      NEW i \in DOMAIN call[c].results,
                      NEW s \in (call[c].results[i].matches \cup {call[c].results[i].model})
                                  \cap Severity
               PROVE  Strength[call[c].decision] >= Strength[Decide(settings.policy, s)]
    BY DEF NothingMasked, PolicyError
  <2> DEFINE policy == settings.policy
             results == call[c].results
  <2>1. policy \in SeverityPolicies /\ policy # Custom
    <3>1. policy \in SeverityPolicies
      BY BuiltInAssumption
    <3>2. Custom \notin SeverityPolicies
      BY DEF Custom, SeverityPolicies
    <3> QED
      BY <3>1, <3>2
  <2>2. Heeds(call[c])
    BY <2>1 DEF HeedInv, Asks
  <2>3. call[c].decision = Evaluate(policy, results) \/ call[c].decision = "block"
    BY <2>2 DEF Heeds, Over
  <2>4. Decide(policy, s) \in Action
    BY <2>1, DecideTyped
  <2>5. \A a \in Action : Strength[a] \in 0..3
    BY DEF Strength, Action
  <2>6. CASE call[c].decision = "block"
    <3>1. Strength[call[c].decision] = 3
      BY <2>6 DEF Strength, Action
    <3> QED
      BY <2>4, <2>5, <3>1
  <2>7. CASE call[c].decision = Evaluate(policy, results)
    <3>1. results \in Seq(Result) /\ call[c].decision \in Action \cup {"none"}
      BY DEF TypeInv, Sound, Call, Result
    <3>2. \A k \in DOMAIN results : results[k] \in Result
      BY <3>1, LenProperties, ElementOfSeq
    <3>3. ASSUME NEW k \in DOMAIN results, ~(results[k].matches \subseteq Severity)
          PROVE  FALSE
      <4>1. "invalid" \in results[k].matches
        BY <3>2, <3>3 DEF Result, Label
      <4>2. HighestResultSeverity(results[k]) = "ValueError"
        BY <4>1 DEF HighestResultSeverity
      <4>3. Evaluate(policy, results) = "ValueError"
        BY <4>2 DEF Evaluate, HighestResultsSeverity
      <4> QED
        BY <2>7, <3>1, <4>3 DEF Action
    <3>4. s \in Candidates(results[i])
      BY DEF Candidates
    <3>5. Strength[Decide(policy, s)] <= Strength[Evaluate(policy, results)]
      <4> HIDE DEF policy, results
      <4> QED
        BY <2>1, <3>3, <3>4, EvaluateIsStrict DEF policy, results
    <3>6. Evaluate(policy, results) \in Action
      BY <2>1, <3>3, EvaluateActs
    <3> QED
      BY <2>4, <2>5, <2>7, <3>5, <3>6
  <2> QED
    BY <2>3, <2>6, <2>7
<1> QED
  BY <1>1, <1>2, <1>3, PTL DEF Spec
-----------------------------------------------------------------------------
(* Lists of the events of some types *)

\* The first n of what was told are the events of these types, in their order.
Upto(told, n, events, types) ==
  LET places == {i \in DOMAIN events : events[i].type \in types} IN
  /\ Cardinality(places) = n
  /\ \A i \in places : told[Cardinality({j \in places : j <= i})] = events[i]

\* Nothing but the first n counts.
LEMMA UptoBound ==
  ASSUME NEW events \in Seq(Events), NEW types, NEW told, NEW other, NEW n \in Nat,
         Upto(told, n, events, types), \A k \in 1..n : other[k] = told[k]
  PROVE  Upto(other, n, events, types)
<1> DEFINE places == {i \in DOMAIN events : events[i].type \in types}
<1>1. DOMAIN events = 1..Len(events) /\ Len(events) \in Nat
  BY LenProperties
<1>2. IsFiniteSet(1..Len(events))
  BY <1>1, FS_Interval
<1>3. IsFiniteSet(places) /\ Cardinality(places) = n
  <2>1. places \subseteq 1..Len(events)
    BY <1>1
  <2> QED
    BY <1>2, <2>1, FS_Subset DEF Upto
<1>4. ASSUME NEW i \in places
      PROVE  Cardinality({j \in places : j <= i}) \in 1..n
  <2> DEFINE upto == {j \in places : j <= i}
  <2>1. upto \subseteq places
    OBVIOUS
  <2>2. IsFiniteSet(upto) /\ Cardinality(upto) <= n
    BY <1>3, <2>1, FS_Subset
  <2>3. i \in upto
    BY <1>1
  <2>4. Cardinality(upto) \in Nat /\ Cardinality(upto) # 0
    BY <2>2, <2>3, FS_CardinalityType, FS_EmptySet
  <2> QED
    BY <2>2, <2>4
<1>5. ASSUME NEW i \in places
      PROVE  told[Cardinality({j \in places : j <= i})] = events[i]
  BY DEF Upto
<1>6. ASSUME NEW i \in places
      PROVE  other[Cardinality({j \in places : j <= i})] = events[i]
  BY <1>4, <1>5
<1> QED
  BY <1>3, <1>6 DEF Upto

\* An event of another type is not listed, ...
LEMMA UptoKept ==
  ASSUME NEW events \in Seq(Events), NEW types, NEW e \in Events, e.type \notin types,
         NEW told, NEW n, Upto(told, n, events, types)
  PROVE  Upto(told, n, Append(events, e), types)
<1> DEFINE more == Append(events, e)
           places == {i \in DOMAIN events : events[i].type \in types}
<1>1. /\ Len(events) \in Nat /\ DOMAIN events = 1..Len(events)
      /\ DOMAIN more = 1..(Len(events) + 1)
      /\ \A j \in 1..Len(events) : more[j] = events[j]
      /\ more[Len(events) + 1] = e
  BY AppendProperties, LenProperties
<1>2. {i \in DOMAIN more : more[i].type \in types} = places
  <2> HIDE DEF more
  <2> QED
    BY <1>1
<1>3. Cardinality(places) = n
  BY DEF Upto
<1>4. ASSUME NEW i \in places
      PROVE  told[Cardinality({j \in places : j <= i})] = more[i]
  <2>1. told[Cardinality({j \in places : j <= i})] = events[i]
    BY DEF Upto
  <2>2. more[i] = events[i]
    BY <1>1
  <2> QED
    BY <2>1, <2>2
<1> HIDE DEF more, places
<1> QED
  BY <1>2, <1>3, <1>4 DEF Upto, more

\* ... and one of them is the next of the list.
LEMMA UptoMore ==
  ASSUME NEW events \in Seq(Events), NEW types, NEW e \in Events, e.type \in types,
         NEW told, NEW n \in Nat, Upto(told, n, events, types), told[n + 1] = e
  PROVE  Upto(told, n + 1, Append(events, e), types)
<1> DEFINE more == Append(events, e)
           last == Len(events) + 1
           places == {i \in DOMAIN events : events[i].type \in types}
           all == {i \in DOMAIN more : more[i].type \in types}
<1>1. /\ Len(events) \in Nat /\ DOMAIN events = 1..Len(events)
      /\ DOMAIN more = 1..last
      /\ \A j \in 1..Len(events) : more[j] = events[j]
      /\ more[last] = e
  BY AppendProperties, LenProperties
<1>2. all = places \cup {last} /\ last \notin places
  <2> HIDE DEF more
  <2> QED
    BY <1>1
<1>3. IsFiniteSet(places) /\ Cardinality(places) = n
  <2>1. places \subseteq 1..Len(events) /\ IsFiniteSet(1..Len(events))
    BY <1>1, FS_Interval
  <2> QED
    BY <2>1, FS_Subset DEF Upto
<1>4. Cardinality(all) = n + 1
  BY <1>2, <1>3, FS_AddElement
<1>5. ASSUME NEW i \in places
      PROVE  told[Cardinality({j \in all : j <= i})] = more[i]
  <2>1. told[Cardinality({j \in places : j <= i})] = events[i] /\ more[i] = events[i]
    BY <1>1 DEF Upto
  <2>2. {j \in all : j <= i} = {j \in places : j <= i}
    <3>1. i \in 1..Len(events) /\ ~(last <= i)
      BY <1>1
    <3> HIDE DEF all, places, last
    <3> QED
      BY <1>2, <3>1
  <2> QED
    BY <2>1, <2>2
<1>6. told[Cardinality({j \in all : j <= last})] = more[last]
  <2>1. {j \in all : j <= last} = all
    <3>1. \A j \in places \cup {last} : j <= last
      BY <1>1
    <3> HIDE DEF all, places, last
    <3> QED
      BY <1>2, <3>1
  <2> QED
    BY <1>1, <1>4, <2>1
<1>7. \A i \in all : told[Cardinality({j \in all : j <= i})] = more[i]
  <2> HIDE DEF all, places, more, last
  <2> QED
    BY <1>2, <1>5, <1>6
<1> QED
  BY <1>4, <1>7 DEF Upto

\* At first there is nothing to list.
LEMMA UptoNone ==
  ASSUME NEW types, NEW told
  PROVE  Upto(told, 0, <<>>, types)
<1>1. {i \in DOMAIN <<>> : <<>>[i].type \in types} = {}
  OBVIOUS
<1> QED
  BY <1>1, FS_EmptySet DEF Upto
-----------------------------------------------------------------------------
(* Every failure is reported *)

SystemFailure == {"system_failure"}

\* Nothing is reported while the detectors of an inspection run; then each failing
\* detector's event is on record or about to be, in the order they failed.
Accounts(now) ==
  LET own == Fails(now)
      n == Len(now.errors)
      rest == Coming(now)
  IN  /\ now.pc = "report" \/ (now.op = "inspect" /\ now.pc \in {"scan", "run"})
           => Upto(own, 0, now.trail, SystemFailure)
      /\ (\/ now.pc \in {"policy", "decided", "over"}
          \/ now.op # "inspect" /\ now.pc \in {"scan", "run"})
           => Upto(own, n, now.trail, SystemFailure)
      /\ now.pc \in {"emit", "notify"} =>
           /\ now.after = "scan" => now.op # "inspect"
           /\ \/ Upto(own, n, now.trail, SystemFailure) /\ ~Tells(rest, SystemFailure)
              \/ \E m \in Nat :
                   /\ m + Len(rest) = n
                   /\ Upto(own, m, now.trail, SystemFailure)
                   /\ \A i \in 1..Len(rest) : rest[i] = own[m + i]

AccountInv == \A c \in Caller : Accounts(call[c])

\* The events a call owes are as many as its failing detectors.
LEMMA FailsListed ==
  ASSUME NEW now, now.errors \in Seq(Detector)
  PROVE  /\ Fails(now) \in Seq(Events) /\ Len(Fails(now)) = Len(now.errors)
         /\ \A i \in 1..Len(now.errors) :
              /\ Fails(now)[i] = Event("system_failure", FailAction, NameOf[now.errors[i]])
              /\ Fails(now)[i].type = "system_failure"
<1>1. DOMAIN now.errors = 1..Len(now.errors) /\ Len(now.errors) \in Nat
  BY LenProperties
<1>2. Fails(now) = [i \in 1..Len(now.errors) |->
                      Event("system_failure", FailAction, NameOf[now.errors[i]])]
  BY <1>1 DEF Fails
<1>3. Fails(now) \in Seq(Events)
  BY FailuresTyped DEF Fails
<1>4. Len(Fails(now)) = Len(now.errors)
  <2>1. DOMAIN Fails(now) = 1..Len(now.errors)
    BY <1>2
  <2> QED
    BY <1>1, <1>3, <2>1, LenProperties
<1>5. ASSUME NEW i \in 1..Len(now.errors)
      PROVE  /\ Fails(now)[i] = Event("system_failure", FailAction, NameOf[now.errors[i]])
             /\ Fails(now)[i].type = "system_failure"
  BY <1>2 DEF Event
<1> QED
  BY <1>3, <1>4, <1>5

LEMMA AccountMoves ==
  ASSUME TypeInv, NEW c \in Caller, Accounts(call[c]), NEW next, Moves(call[c], next)
  PROVE  Accounts(next)
<1> DEFINE now == call[c]
           own == Fails(now)
           n == Len(now.errors)
<1>0. /\ now.trail \in Seq(Events) /\ now.pending \in Seq(Events)
      /\ now.errors \in Seq(Detector)
      /\ now.pending # <<>> => Head(now.pending) \in Events /\ Tail(now.pending) \in Seq(Events)
      /\ Event("callback_failure", "warn", "callback") \in Events
  BY ListsOfCall
<1>a. n \in Nat /\ own \in Seq(Events) /\ Len(own) = n
      /\ \A i \in 1..n : own[i].type = "system_failure"
  BY <1>0, FailsListed, LenProperties
<1>b. next.errors = now.errors => Fails(next) = own
  BY DEF Fails
<1>1. CASE Starts(next)
  <2>1. Upto(Fails(next), 0, next.trail, SystemFailure) /\ Len(next.errors) = 0
    BY <1>1, UptoNone, EmptySeq DEF Starts
  <2> QED
    BY <1>1, <2>1 DEF Starts, Accounts
<1>2. CASE Looks(now, next)
  <2>1. CASE now.op = "inspect"
    <3>1. Upto(own, 0, now.trail, SystemFailure)
      BY <1>2, <2>1 DEF Looks, Accounts
    <3>2. Upto(Fails(next), 0, now.trail, SystemFailure)
      BY <1>0, <3>1, UptoBound
    <3> QED
      BY <1>2, <2>1, <3>2 DEF Looks, Silent, Accounts
  <2>2. CASE now.op # "inspect"
    BY <1>2, <1>b, <2>2 DEF Looks, Silent, Accounts
  <2> QED
    BY <2>1, <2>2
<1>3. CASE Leaves(now, next)
  BY <1>3, <1>b DEF Leaves, Silent, Accounts
<1>4. CASE Reports(now, next)
  <2>1. Upto(own, 0, now.trail, SystemFailure)
    BY <1>4 DEF Reports, Accounts
  <2>2. /\ Fails(next) = own /\ Coming(next) = own /\ next.trail = now.trail
        /\ Len(next.errors) = n /\ next.pc = "emit" /\ next.after # "scan"
    BY <1>4, <1>b DEF Reports, Silent, Holds, Coming
  <2>3. 0 + Len(own) = n /\ \A i \in 1..Len(own) : own[i] = own[0 + i]
    BY <1>a
  <2> HIDE DEF own, n
  <2> QED
    BY <2>1, <2>2, <2>3 DEF Accounts
<1>5. CASE Decides(now, next)
  BY <1>5, <1>b DEF Decides, Silent, Holds, Accounts
<1>6. CASE Objects(now, next) \/ Announces(now, next)
  <2>1. \A i \in DOMAIN next.pending : next.pending[i].type # "system_failure"
    BY <1>6 DEF Objects, Announces, Event
  <2>2. ~Tells(Coming(next), SystemFailure)
    BY <1>6, <2>1 DEF Objects, Announces, Coming, Tells, SystemFailure
  <2>3. Upto(own, n, now.trail, SystemFailure)
    BY <1>6 DEF Objects, Announces, Accounts
  <2> QED
    BY <1>6, <1>b, <2>2, <2>3 DEF Objects, Announces, Silent, Holds, Accounts
<1>7. CASE Spoils(now, next)
  <2>1. PICK d \in Detector :
          /\ next.errors = Append(now.errors, d)
          /\ next.pending = <<Event("system_failure", FailAction, NameOf[d])>>
    BY <1>7 DEF Spoils
  <2>2. /\ next.errors \in Seq(Detector) /\ Len(next.errors) = n + 1
        /\ \A i \in 1..n : next.errors[i] = now.errors[i]
        /\ next.errors[n + 1] = d
    BY <1>0, <2>1, AppendProperties
  <2>3. /\ \A i \in 1..n : Fails(next)[i] = own[i]
        /\ Fails(next)[n + 1] = Event("system_failure", FailAction, NameOf[d])
    <3>1. \A i \in 1..n : Fails(next)[i] = Event("system_failure", FailAction,
                                                 NameOf[next.errors[i]])
      BY <1>a, <2>2, FailsListed
    <3>2. Fails(next)[n + 1] = Event("system_failure", FailAction, NameOf[next.errors[n + 1]])
      BY <1>a, <2>2, FailsListed
    <3>3. \A i \in 1..n : own[i] = Event("system_failure", FailAction, NameOf[now.errors[i]])
      BY <1>0, FailsListed
    <3> HIDE DEF own, n
    <3> QED
      BY <2>2, <3>1, <3>2, <3>3
  <2>4. Upto(own, n, now.trail, SystemFailure)
    BY <1>7 DEF Spoils, Accounts
  <2>5. Upto(Fails(next), n, now.trail, SystemFailure)
    BY <1>0, <1>a, <2>3, <2>4, UptoBound
  <2>6. /\ Len(Coming(next)) = 1
        /\ \A i \in 1..Len(Coming(next)) : Coming(next)[i] = Fails(next)[n + i]
    BY <1>7, <2>1, <2>3 DEF Spoils, Coming
  <2>7. n \in Nat /\ n + Len(Coming(next)) = Len(next.errors)
    BY <1>a, <2>2, <2>6
  <2> HIDE DEF n
  <2> QED
    BY <1>7, <2>5, <2>6, <2>7 DEF Spoils, Silent, Accounts
<1>8. CASE Stores(now, next)
  <2> DEFINE rest == now.pending
  <2>1. /\ Coming(now) = rest /\ Coming(next) = Tail(rest) /\ rest # <<>>
        /\ next.trail = Append(now.trail, Head(rest))
        /\ Fails(next) = own /\ next.errors = now.errors /\ next.op = now.op
        /\ next.after = now.after /\ next.pc = "notify" /\ now.pc = "emit"
    BY <1>8, <1>b DEF Stores, Bound, Holds, Coming
  <2>2. ASSUME Upto(own, n, now.trail, SystemFailure), ~Tells(rest, SystemFailure)
        PROVE  Accounts(next)
    <3>1. Head(rest).type \notin SystemFailure /\ ~Tells(Tail(rest), SystemFailure)
      BY <1>0, <2>1, <2>2, TellsSplit
    <3>2. Upto(own, n, next.trail, SystemFailure)
      BY <1>0, <2>1, <2>2, <3>1, UptoKept
    <3> QED
      BY <2>1, <3>1, <3>2 DEF Accounts
  <2>3. ASSUME NEW m \in Nat, m + Len(rest) = n, Upto(own, m, now.trail, SystemFailure),
               \A i \in 1..Len(rest) : rest[i] = own[m + i]
        PROVE  Accounts(next)
    <3>1. /\ Len(rest) \in Nat \ {0} /\ Head(rest) = rest[1]
          /\ Len(Tail(rest)) = Len(rest) - 1
          /\ \A i \in 1..Len(Tail(rest)) : Tail(rest)[i] = rest[i + 1]
      BY <1>0, <2>1, HeadTailProperties, LenProperties, EmptySeq
    <3>2. Head(rest) = own[m + 1] /\ m + 1 \in 1..n
      BY <1>a, <2>3, <3>1
    <3>3. Head(rest).type \in SystemFailure
      BY <1>a, <3>2 DEF SystemFailure
    <3>4. Upto(own, m + 1, next.trail, SystemFailure)
      BY <1>0, <2>1, <2>3, <3>2, <3>3, UptoMore
    <3>5. m + 1 \in Nat /\ (m + 1) + Len(Tail(rest)) = n
      <4> DEFINE a == Len(rest)
                 b == Len(Tail(rest))
      <4>1. a \in Nat /\ b = a - 1 /\ m + a = n /\ m \in Nat
        BY <2>3, <3>1
      <4> HIDE DEF a, b, n
      <4>2. m + 1 \in Nat /\ (m + 1) + b = n
        BY <4>1
      <4> QED
        BY <4>2 DEF b
    <3>6. ASSUME NEW i \in 1..Len(Tail(rest))
          PROVE  Tail(rest)[i] = own[(m + 1) + i]
      <4>1. i + 1 \in 1..Len(rest) /\ m + (i + 1) = (m + 1) + i
        BY <3>1
      <4> QED
        BY <2>3, <3>1, <4>1
    <3> HIDE DEF own, n, rest
    <3> QED
      BY <2>1, <3>4, <3>5, <3>6 DEF Accounts, n
  <2>4. \/ Upto(own, n, now.trail, SystemFailure) /\ ~Tells(rest, SystemFailure)
        \/ \E m \in Nat :
             /\ m + Len(rest) = n
             /\ Upto(own, m, now.trail, SystemFailure)
             /\ \A i \in 1..Len(rest) : rest[i] = own[m + i]
    BY <2>1 DEF Accounts
  <2> QED
    BY <2>2, <2>3, <2>4
<1>9. CASE Passes(now, next)
  <2>1. /\ Coming(next) = Coming(now) /\ Fails(next) = own /\ next.errors = now.errors
        /\ next.op = now.op /\ next.after = now.after
        /\ next.pc = "notify" /\ now.pc = "notify"
    BY <1>9, <1>b DEF Passes, Bound, Holds, Coming
  <2>2. \A m : Upto(own, m, now.trail, SystemFailure) => Upto(own, m, next.trail, SystemFailure)
    <3>1. Event("callback_failure", "warn", "callback").type \notin SystemFailure
      BY DEF Event, SystemFailure
    <3>2. ASSUME NEW m, Upto(own, m, now.trail, SystemFailure)
          PROVE  Upto(own, m, Append(now.trail, Event("callback_failure", "warn", "callback")),
                      SystemFailure)
      <4> HIDE DEF own
      <4> QED
        BY <1>0, <3>1, <3>2, UptoKept
    <3> QED
      BY <1>9, <3>2 DEF Passes
  <2> QED
    BY <2>1, <2>2 DEF Accounts
<1>10. CASE Advances(now, next)
  <2>1. /\ Coming(next) = Coming(now) /\ Fails(next) = own /\ next.errors = now.errors
        /\ next.op = now.op /\ next.after = now.after /\ next.trail = now.trail
        /\ next.pc = "emit" /\ now.pc = "notify"
    BY <1>10, <1>b DEF Advances, Bound, Holds, Coming
  <2> QED
    BY <2>1 DEF Accounts
<1>11. CASE Concludes(now, next)
  <2>1. Coming(now) = <<>> /\ now.pc = "emit"
    BY <1>11 DEF Concludes, Coming
  <2>2. Upto(own, n, now.trail, SystemFailure)
    <3>1. ASSUME NEW m \in Nat, m + Len(<<>>) = n
          PROVE  m = n
      BY <1>a, <3>1
    <3> QED
      BY <2>1, <3>1 DEF Accounts
  <2>3. now.after = "scan" => now.op # "inspect"
    BY <2>1 DEF Accounts
  <2> QED
    BY <1>11, <1>b, <2>2, <2>3 DEF Concludes, Silent, Holds, Accounts
<1> QED
  BY <1>1, <1>2, <1>3, <1>4, <1>5, <1>6, <1>7, <1>8, <1>9, <1>10, <1>11 DEF Moves

LEMMA AccountStep ==
  ASSUME TypeInv, AccountInv, [Next]_vars
  PROVE  AccountInv'
<1>1. FailAction' = FailAction
  BY StepLeavesSettings DEF FailAction, FailClosed
<1>2. ASSUME NEW d \in Caller
      PROVE  Accounts(call'[d])
  <2>1. PICK mid : (mid = call[d] \/ Moves(call[d], mid)) /\ Alike(mid, call'[d])
    BY EveryCallMoves
  <2>2. Accounts(mid)
    BY <2>1, AccountMoves DEF AccountInv
  <2>3. Fails(call'[d]) = Fails(mid)
    BY <2>1 DEF Alike, Fails
  <2> QED
    BY <2>1, <2>2, <2>3 DEF Alike, Accounts, Coming
<1> QED
  BY <1>1, <1>2 DEF AccountInv, Accounts, Fails

\* Each failing detector has its SYSTEM_FAILURE event, whether or not the caller
\* asked for events, once and in the order they failed: in an inspection and in
\* a redaction, whatever the callbacks do and whatever becomes of the policy.
THEOREM EveryFailureIsReported == Spec => []FailuresReported
<1> DEFINE Inv == TypeInv /\ AccountInv
<1>1. Init => Inv
  <2>1. Init => AccountInv
    <3> SUFFICES ASSUME Init, NEW c \in Caller
                 PROVE  Accounts(NoCall)
      BY DEF Init, AccountInv
    <3>1. NoCall.pc = "over" /\ NoCall.errors = <<>> /\ NoCall.trail = <<>> /\ Len(<<>>) = 0
      BY DEF NoCall
    <3> QED
      BY <3>1, UptoNone DEF Accounts
  <2> QED
    BY <2>1, TypeInit
<1>2. Inv /\ [Next]_vars => Inv'
  BY TypeStep, AccountStep
<1>3. Inv => FailuresReported
  <2> SUFFICES ASSUME Inv, NEW c \in Caller, Over(c)
               PROVE  Lists(Fails(call[c]), call[c].trail, SystemFailure)
    BY DEF FailuresReported, Fails, SystemFailure
  <2>1. Upto(Fails(call[c]), Len(call[c].errors), call[c].trail, SystemFailure)
    BY DEF AccountInv, Accounts, Over
  <2>2. Len(Fails(call[c])) = Len(call[c].errors)
    BY ListsOfCall, FailsListed
  <2> QED
    BY <2>1, <2>2 DEF Upto, Lists
<1> QED
  BY <1>1, <1>2, <1>3, PTL DEF Spec
-----------------------------------------------------------------------------
(* Everyone is told *)

\* The types of the events callbacks are given.
Told == EventType \ {"callback_failure"}

\* Nobody has heard of anything but what is on record; of the event that is being
\* passed on, those who had their turn have heard, and nobody else.
Hears(now, size) ==
  /\ now.audience <= size
  /\ \A k \in 1..now.audience :
       /\ now.pc # "notify" \/ k <= now.listener => Lists(now.heard[k], now.trail, Told)
       /\ now.pc = "notify" /\ k > now.listener =>
            Lists(Append(now.heard[k], Head(now.pending)), now.trail, Told)
  /\ now.pc \in {"emit", "notify"} =>
       \A i \in DOMAIN now.pending : now.pending[i].type \in Told

HearInv == \A c \in Caller : Hears(call[c], callbacks)

LEMMA ListsKept ==
  ASSUME NEW told, NEW events \in Seq(Events), NEW types, NEW e \in Events,
         e.type \notin types, Lists(told, events, types)
  PROVE  Lists(told, Append(events, e), types)
<1>1. Upto(told, Len(told), events, types)
  BY DEF Upto, Lists
<1>2. Upto(told, Len(told), Append(events, e), types)
  BY <1>1, UptoKept
<1> QED
  BY <1>2 DEF Upto, Lists

LEMMA ListsMore ==
  ASSUME NEW told \in Seq(Events), NEW events \in Seq(Events), NEW types, NEW e \in Events,
         e.type \in types, Lists(told, events, types)
  PROVE  Lists(Append(told, e), Append(events, e), types)
<1> DEFINE more == Append(told, e)
           n == Len(told)
<1>1. /\ n \in Nat /\ Len(more) = n + 1 /\ more[n + 1] = e
      /\ \A k \in 1..n : more[k] = told[k]
  BY AppendProperties, LenProperties
<1>2. Upto(told, n, events, types)
  BY DEF Upto, Lists
<1> HIDE DEF more, n
<1>3. Upto(more, n, events, types)
  BY <1>1, <1>2, UptoBound
<1>4. Upto(more, n + 1, Append(events, e), types)
  BY <1>1, <1>3, UptoMore
<1>5. Lists(more, Append(events, e), types)
  BY <1>1, <1>4 DEF Upto, Lists
<1> QED
  BY <1>5 DEF more

LEMMA ListsNone ==
  ASSUME NEW types
  PROVE  Lists(<<>>, <<>>, types)
<1>1. Upto(<<>>, 0, <<>>, types) /\ Len(<<>>) = 0
  BY UptoNone
<1> QED
  BY <1>1 DEF Upto, Lists

\* A step that tells nobody anything, at a time nobody is being told.
LEMMA SilentHears ==
  ASSUME NEW now, Hears(now, callbacks), NEW next, Silent(now, next),
         now.pc # "notify", next.pc # "notify",
         next.pc = "emit" => \A i \in DOMAIN next.pending : next.pending[i].type \in Told
  PROVE  Hears(next, callbacks)
BY DEF Hears, Silent

LEMMA HearMoves ==
  ASSUME TypeInv, NEW c \in Caller, Hears(call[c], callbacks), NEW next, Moves(call[c], next)
  PROVE  Hears(next, callbacks)
<1> DEFINE now == call[c]
           size == now.audience
           cf == Event("callback_failure", "warn", "callback")
<1>0. /\ now.trail \in Seq(Events) /\ now.pending \in Seq(Events)
      /\ now.pending # <<>> => Head(now.pending) \in Events /\ Tail(now.pending) \in Seq(Events)
      /\ now.heard \in [1..MaxCallbacks -> Seq(Events)]
      /\ cf \in Events
  BY ListsOfCall
<1>a. /\ callbacks \in 0..MaxCallbacks /\ MaxCallbacks \in Nat /\ size \in 0..MaxCallbacks
      /\ now.listener \in 0..MaxCallbacks /\ size <= callbacks
      /\ now.pc = "notify" => now.pending # <<>>
  BY CallbacksAssumption DEF TypeInv, TypeOK, RegistryTypeOK, Sound, Call, Hears
<1>b. cf.type \notin Told
  BY DEF Event, Told
<1>c. {"system_failure", "policy_failure", "detection"} \subseteq Told
  BY DEF Told, EventType
<1>d. now.pc \in {"emit", "notify"} /\ now.pending # <<>>
        => Head(now.pending).type \in Told
  <2> SUFFICES ASSUME now.pc \in {"emit", "notify"}, now.pending # <<>>
               PROVE  Head(now.pending).type \in Told
    OBVIOUS
  <2>1. 1 \in DOMAIN now.pending /\ Head(now.pending) = now.pending[1]
    BY <1>0, HeadTailProperties, LenProperties, EmptySeq
  <2> QED
    BY <2>1 DEF Hears
<1>1. CASE Starts(next)
  <2>1. next.trail = <<>> /\ next.audience = callbacks /\ next.pc \in {"scan", "over"}
    BY <1>1 DEF Starts
  <2>2. \A k \in 1..callbacks : next.heard[k] = <<>>
    BY <1>1, <1>a DEF Starts
  <2> QED
    BY <1>a, <2>1, <2>2, ListsNone DEF Hears
<1>2. CASE Looks(now, next) \/ Leaves(now, next) \/ Decides(now, next)
  BY <1>2, SilentHears DEF Looks, Leaves, Decides
<1>3. CASE Reports(now, next)
  <2>1. \A i \in DOMAIN next.pending : next.pending[i].type = "system_failure"
    BY <1>3 DEF Reports, Fails, Event
  <2> QED
    BY <1>3, <1>c, <2>1, SilentHears DEF Reports
<1>4. CASE Objects(now, next) \/ Announces(now, next) \/ Spoils(now, next)
  <2>1. \A i \in DOMAIN next.pending :
          next.pending[i].type \in {"system_failure", "policy_failure", "detection"}
    <3>1. CASE Objects(now, next)
      BY <3>1 DEF Objects, Event
    <3>2. CASE Announces(now, next)
      BY <3>2 DEF Announces
    <3>3. CASE Spoils(now, next)
      <4>1. PICK d \in Detector :
              next.pending = <<Event("system_failure", FailAction, NameOf[d])>>
        BY <3>3 DEF Spoils
      <4> QED
        BY <4>1 DEF Event
    <3> QED
      BY <1>4, <3>1, <3>2, <3>3
  <2>2. Silent(now, next) /\ now.pc # "notify" /\ next.pc = "emit"
    BY <1>4 DEF Objects, Announces, Spoils
  <2> QED
    BY <1>c, <2>1, <2>2, SilentHears
<1>5. CASE Stores(now, next)
  <2>1. /\ now.pc = "emit" /\ now.pending # <<>> /\ next.pc = "notify"
        /\ next.pending = now.pending /\ next.trail = Append(now.trail, Head(now.pending))
        /\ next.listener = 0 /\ next.heard = now.heard /\ next.audience = size
    BY <1>5 DEF Stores, Bound
  <2>2. ASSUME NEW k \in 1..size
        PROVE  k > 0 /\ ~(k <= 0)
               /\ Lists(Append(now.heard[k], Head(now.pending)), next.trail, Told)
    <3>1. now.heard[k] \in Seq(Events)
      BY <1>0, <1>a
    <3>2. Lists(now.heard[k], now.trail, Told)
      BY <2>1 DEF Hears
    <3>3. Lists(Append(now.heard[k], Head(now.pending)),
                Append(now.trail, Head(now.pending)), Told)
      BY <1>0, <1>d, <2>1, <3>1, <3>2, ListsMore
    <3> QED
      BY <1>a, <2>1, <3>3
  <2>3. \A i \in DOMAIN next.pending : next.pending[i].type \in Told
    BY <2>1 DEF Hears
  <2> HIDE DEF size
  <2> QED
    BY <1>a, <2>1, <2>2, <2>3 DEF Hears
<1>6. CASE Passes(now, next)
  <2>1. /\ now.pc = "notify" /\ next.pc = "notify" /\ next.pending = now.pending
        /\ next.listener = now.listener + 1 /\ next.audience = size
        /\ next.heard = [now.heard EXCEPT ![now.listener + 1] = Append(@, Head(now.pending))]
        /\ next.trail = now.trail \/ next.trail = Append(now.trail, cf)
    BY <1>6 DEF Passes, Bound
  <2>2. ASSUME NEW told, Lists(told, now.trail, Told)
        PROVE  Lists(told, next.trail, Told)
    <3>1. Lists(told, Append(now.trail, cf), Told)
      BY <1>0, <1>b, <2>2, ListsKept
    <3> QED
      BY <2>1, <2>2, <3>1
  <2>3. ASSUME NEW k \in 1..size
        PROVE  /\ k <= next.listener => Lists(next.heard[k], next.trail, Told)
               /\ k > next.listener =>
                    Lists(Append(next.heard[k], Head(now.pending)), next.trail, Told)
    <3>1. k \in 1..MaxCallbacks
      BY <1>a
    <3>2. CASE k = now.listener + 1
      <4>1. next.heard[k] = Append(now.heard[k], Head(now.pending))
        BY <1>0, <2>1, <3>1, <3>2
      <4>2. k > now.listener
        BY <1>a, <3>2
      <4>3. Lists(Append(now.heard[k], Head(now.pending)), now.trail, Told)
        BY <2>1, <4>2 DEF Hears
      <4>4. Lists(Append(now.heard[k], Head(now.pending)), next.trail, Told)
        BY <2>2, <4>3
      <4> QED
        BY <1>a, <2>1, <3>2, <4>1, <4>4
    <3>3. CASE k # now.listener + 1
      <4>1. next.heard[k] = now.heard[k]
        BY <1>0, <2>1, <3>1, <3>3
      <4>2. (k <= next.listener => k <= now.listener) /\ (k > next.listener => k > now.listener)
        BY <1>a, <2>1, <3>3
      <4>3. /\ k <= now.listener => Lists(now.heard[k], now.trail, Told)
            /\ k > now.listener => Lists(Append(now.heard[k], Head(now.pending)), now.trail, Told)
        BY <2>1 DEF Hears
      <4> QED
        BY <2>2, <4>1, <4>2, <4>3
    <3> QED
      BY <3>2, <3>3
  <2>4. \A i \in DOMAIN next.pending : next.pending[i].type \in Told
    BY <2>1 DEF Hears
  <2> HIDE DEF size
  <2> QED
    BY <1>a, <2>1, <2>3, <2>4 DEF Hears
<1>7. CASE Advances(now, next)
  <2>1. /\ now.pc = "notify" /\ next.pc = "emit" /\ now.pending # <<>>
        /\ now.listener >= callbacks /\ next.pending = Tail(now.pending)
        /\ next.trail = now.trail /\ next.heard = now.heard /\ next.audience = size
    BY <1>7 DEF Advances, Bound
  <2>2. ASSUME NEW k \in 1..size
        PROVE  Lists(next.heard[k], next.trail, Told)
    <3>1. k <= now.listener
      BY <1>a, <2>1
    <3> QED
      BY <2>1, <3>1 DEF Hears
  <2>3. ASSUME NEW i \in DOMAIN Tail(now.pending)
        PROVE  Tail(now.pending)[i].type \in Told
    <3>1. /\ DOMAIN Tail(now.pending) = 1..(Len(now.pending) - 1)
          /\ DOMAIN now.pending = 1..Len(now.pending) /\ Len(now.pending) \in Nat
          /\ \A j \in 1..(Len(now.pending) - 1) : Tail(now.pending)[j] = now.pending[j + 1]
      BY <1>0, <2>1, HeadTailProperties, LenProperties, EmptySeq
    <3>2. i + 1 \in DOMAIN now.pending /\ Tail(now.pending)[i] = now.pending[i + 1]
      BY <3>1
    <3> QED
      BY <2>1, <3>2 DEF Hears
  <2> HIDE DEF size
  <2> QED
    BY <1>a, <2>1, <2>2, <2>3 DEF Hears
<1>8. CASE Concludes(now, next)
  <2>1. Silent(now, next) /\ now.pc = "emit" /\ next.pc \notin {"emit", "notify"}
    BY <1>8 DEF Concludes
  <2> QED
    BY <2>1, SilentHears
<1> QED
  BY <1>1, <1>2, <1>3, <1>4, <1>5, <1>6, <1>7, <1>8 DEF Moves

LEMMA HearStep ==
  ASSUME TypeInv, HearInv, [Next]_vars
  PROVE  HearInv'
<1>1. ASSUME NEW d \in Caller
      PROVE  Hears(call'[d], callbacks')
  <2>1. PICK mid : (mid = call[d] \/ Moves(call[d], mid)) /\ Alike(mid, call'[d])
    BY EveryCallMoves
  <2>2. Hears(mid, callbacks)
    BY <2>1, HearMoves DEF HearInv
  <2>3. call'[d].audience \in Nat
    <3>1. TypeOK'
      BY TypeStep DEF TypeInv
    <3>2. call' \in [Caller -> Call]
      BY <3>1 DEF TypeOK, Call, Events
    <3>3. call'[d].audience \in 0..MaxCallbacks
      BY <3>2 DEF Call
    <3> QED
      BY <3>3, CallbacksAssumption
  <2>4. call'[d].audience <= callbacks'
    BY <2>1, <2>2, <2>3, CallbacksGrow DEF Alike, Hears
  <2> QED
    BY <2>1, <2>2, <2>4 DEF Alike, Hears
<1> QED
  BY <1>1 DEF HearInv

\* A callback that was registered before a call is given every event of the call,
\* once and in order, no matter which callbacks raise, manage the guard or are
\* registered meanwhile; only the events about raising callbacks are left out.
THEOREM EveryCallbackIsTold == Spec => []EveryoneIsTold
<1> DEFINE Inv == TypeInv /\ HearInv
<1>1. Init => Inv
  <2>1. Init => HearInv
    <3> SUFFICES ASSUME Init, NEW c \in Caller
                 PROVE  Hears(NoCall, callbacks)
      BY DEF Init, HearInv
    <3>1. NoCall.pc = "over" /\ NoCall.audience = 0
      BY DEF NoCall
    <3>2. callbacks \in Nat
      BY CallbacksAssumption DEF Init, RegistryInit
    <3> QED
      BY <3>1, <3>2 DEF Hears
  <2> QED
    BY <2>1, TypeInit
<1>2. Inv /\ [Next]_vars => Inv'
  BY TypeStep, HearStep
<1>3. Inv => EveryoneIsTold
  BY DEF HearInv, Hears, Over, Told, EveryoneIsTold
<1> QED
  BY <1>1, <1>2, <1>3, PTL DEF Spec
=============================================================================
