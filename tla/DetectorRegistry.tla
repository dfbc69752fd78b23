-------------------------- MODULE DetectorRegistry --------------------------
(***************************************************************************)
(* The part of AgentGuard that changes at runtime                            *)
(* (core/guards/agent_guard.py: register_detector, unregister_detector,      *)
(* disable_detector, enable_detector, register_callback).                    *)
(*                                                                         *)
(* None of these operations takes a lock.  Each one looks first and writes   *)
(* afterwards, and unregister writes twice, so each is two or three steps    *)
(* here; other threads, inspections above all, run in between.  An operation *)
(* whose check fails raises ValueError and changes nothing: it is no step.   *)
(*                                                                         *)
(* Callbacks are told apart by their place in the list only, so the list is  *)
(* its length.                                                              *)
(***************************************************************************)
EXTENDS SequencesExt

CONSTANTS
  Detector,          \* detector objects
  Name,              \* detector names
  NameOf,            \* NameOf[d]: d.name; two objects may have the same name
  NoDetector,        \* stands for no detector object
  Admin,             \* threads that manage the guard
  InitialDetectors,  \* the lists a guard is constructed with
  InitialCallbacks,  \* the numbers of callbacks a guard is constructed with
  MaxCallbacks       \* bound: register_callback is not called beyond it

\* No two entries of a list have the same name.
Unique(list) ==
  \A i, j \in DOMAIN list : NameOf[list[i]] = NameOf[list[j]] => i = j

ASSUME NameOfAssumption == NameOf \in [Detector -> Name]
ASSUME NoDetectorAssumption == NoDetector \notin Detector
\* AgentGuard.__init__ rejects a list with a duplicate name.
ASSUME InitialDetectorsAssumption ==
  \A list \in InitialDetectors : list \in Seq(Detector) /\ Unique(list)
ASSUME CallbacksAssumption ==
  MaxCallbacks \in Nat /\ InitialCallbacks \subseteq 0..MaxCallbacks

VARIABLES
  detectors,  \* self.detectors, a live list
  disabled,   \* self._disabled, a set of names
  callbacks,  \* len(self.event_callbacks)
  task        \* task[a]: what admin thread a is in the middle of

registryVars == <<detectors, disabled, callbacks, task>>

Idle == [do |-> "nothing"]

Task ==
  {Idle}
  \cup [do : {"append"}, detector : Detector]
  \cup [do : {"pop"}, name : Name, at : Nat \ {0}]
  \cup [do : {"discard", "disable", "enable"}, name : Name]

Registered(n) == \E i \in DOMAIN detectors : NameOf[detectors[i]] = n

\* The detectors an inspection is supposed to run.
Active == {d \in ToSet(detectors) : NameOf[d] \notin disabled}

\* Where unregister_detector finds a name: its first place in the list.
Position(n) == SelectInSeq(detectors, LAMBDA d : NameOf[d] = n)

RegistryInit ==
  /\ detectors \in InitialDetectors
  /\ disabled = {}
  /\ callbacks \in InitialCallbacks
  /\ task = [a \in Admin |-> Idle]
-----------------------------------------------------------------------------
(* The writes, each one bytecode long *)

AppendDetector(d) ==
  /\ detectors' = Append(detectors, d)
  /\ UNCHANGED <<disabled, callbacks>>

PopDetector(i) ==
  /\ detectors' = RemoveAt(detectors, i)
  /\ UNCHANGED <<disabled, callbacks>>

AddDisabled(n) ==
  /\ disabled' = disabled \cup {n}
  /\ UNCHANGED <<detectors, callbacks>>

DiscardDisabled(n) ==
  /\ disabled' = disabled \ {n}
  /\ UNCHANGED <<detectors, callbacks>>

AddCallback ==
  /\ callbacks < MaxCallbacks
  /\ callbacks' = callbacks + 1
  /\ UNCHANGED <<detectors, disabled>>
-----------------------------------------------------------------------------
(* The operations, called by a thread of their own *)

Start(a, next) ==
  /\ task[a] = Idle
  /\ task' = [task EXCEPT ![a] = next]
  /\ UNCHANGED <<detectors, disabled, callbacks>>

Then(a, next) == task' = [task EXCEPT ![a] = next]

\* Slip: only the object itself is looked for, not its name.
RegisterDetector_ByIdentity(a, d) ==
  /\ ~Contains(detectors, d)
  /\ Start(a, [do |-> "append", detector |-> d])

\* register_detector: the names of the list are compared ...
RegisterDetector(a, d) ==
  /\ ~Registered(NameOf[d])
  /\ Start(a, [do |-> "append", detector |-> d])

\* ... and the detector is appended.
FinishRegister(a) ==
  /\ task[a].do = "append"
  /\ AppendDetector(task[a].detector)
  /\ Then(a, Idle)

\* unregister_detector: the name is found in the list ...
UnregisterDetector(a, n) ==
  /\ Registered(n)
  /\ Start(a, [do |-> "pop", name |-> n, at |-> Position(n)])

\* ... whatever is at that place by then is popped (IndexError if nothing) ...
PopFound(a) ==
  /\ task[a].do = "pop"
  /\ \/ /\ task[a].at <= Len(detectors)
        /\ PopDetector(task[a].at)
        /\ Then(a, [do |-> "discard", name |-> task[a].name])
     \/ /\ task[a].at > Len(detectors)
        /\ Then(a, Idle)
        /\ UNCHANGED <<detectors, disabled, callbacks>>

\* Slip: the name of a removed detector stays in the disabled set.
FinishUnregister_KeepsDisabled(a) ==
  /\ task[a].do = "discard"
  /\ Then(a, Idle)
  /\ UNCHANGED <<detectors, disabled, callbacks>>

\* ... and the name leaves the disabled set.
FinishUnregister(a) ==
  /\ task[a].do = "discard"
  /\ DiscardDisabled(task[a].name)
  /\ Then(a, Idle)

\* disable_detector and enable_detector: the name is looked up ...
DisableDetector(a, n) ==
  /\ Registered(n)
  /\ Start(a, [do |-> "disable", name |-> n])

EnableDetector(a, n) ==
  /\ Registered(n)
  /\ Start(a, [do |-> "enable", name |-> n])

\* ... and put into the disabled set or taken out of it.
FinishToggle(a) ==
  /\ \/ task[a].do = "disable" /\ AddDisabled(task[a].name)
     \/ task[a].do = "enable" /\ DiscardDisabled(task[a].name)
  /\ Then(a, Idle)

RegisterCallback(a) ==
  /\ task[a] = Idle
  /\ AddCallback
  /\ UNCHANGED task

AdminBegins(a) ==
  \/ \E d \in Detector : RegisterDetector(a, d)
  \/ \E n \in Name : UnregisterDetector(a, n) \/ DisableDetector(a, n) \/ EnableDetector(a, n)
  \/ RegisterCallback(a)

AdminFinishes(a) ==
  \/ FinishRegister(a)
  \/ PopFound(a)
  \/ FinishUnregister(a)
  \/ FinishToggle(a)

AdminStep == \E a \in Admin : AdminBegins(a) \/ AdminFinishes(a)

\* One operation from end to end, the way an event callback calls it on the
\* thread that is inspecting.
ManageAtOnce ==
  \/ \E d \in Detector : ~Registered(NameOf[d]) /\ AppendDetector(d)
  \/ \E n \in Name :
       /\ Registered(n)
       /\ \/ /\ detectors' = RemoveAt(detectors, Position(n))
             /\ disabled' = disabled \ {n}
             /\ UNCHANGED callbacks
          \/ AddDisabled(n)
          \/ DiscardDisabled(n)
  \/ AddCallback

RegistrySpec == RegistryInit /\ [][AdminStep]_registryVars
-----------------------------------------------------------------------------
(* What must hold *)

RegistryTypeOK ==
  /\ detectors \in Seq(Detector)
  /\ disabled \subseteq Name
  /\ callbacks \in 0..MaxCallbacks
  /\ task \in [Admin -> Task]

\* Two detectors of one guard never have the same name (the constructor's and
\* register_detector's check).  It takes a guard that one thread manages at a
\* time: the check and the append are two steps.
UniqueNames == Unique(detectors)

\* A name is disabled only while a detector of that name is registered, or while
\* the operation that removed it is about to forget the name: a detector that is
\* registered again later does not come back switched off.
DisabledAreRegistered ==
  \A n \in disabled :
    \/ Registered(n)
    \/ \E a \in Admin : task[a] = [do |-> "discard", name |-> n]
=============================================================================
