---------------------------- MODULE GuardService ----------------------------
(***************************************************************************)
(* What AgentGuard promises to the code that calls it (the policy executor,  *)
(* the LangChain middleware, the CrewAI hooks), whatever its detectors,      *)
(* callbacks and managing threads do meanwhile: a call that has begun ends   *)
(* with one of the answers below, which depend on the guard's settings only. *)
(*                                                                         *)
(* AgentGuard.tla implements this module (its Service instance).            *)
(***************************************************************************)
EXTENDS GuardAnswers

CONSTANTS
  Caller,   \* threads that call the guard
  BuiltIn   \* the severity policies guards are given

VARIABLES
  settings,  \* the guard's settings, fixed when it is constructed
  answer     \* answer[c]: what the latest call of c was answered

serviceVars == <<settings, answer>>

ServiceInit ==
  /\ settings \in GuardSettings(BuiltIn)
  /\ answer = [c \in Caller |-> NoAnswer]

Idle(c) == answer[c].outcome # "waiting"

Ask(c, op) ==
  /\ Idle(c)
  /\ answer' = [answer EXCEPT ![c] = Waiting(op)]
  /\ UNCHANGED settings

Refuse(c) ==
  /\ Idle(c)
  /\ answer' = [answer EXCEPT ![c] = RedactRefused]
  /\ UNCHANGED settings

Reply(c) ==
  /\ \/ answer[c] = Waiting("inspect") /\ \E a \in InspectAnswers(settings) :
                                            answer' = [answer EXCEPT ![c] = a]
     \/ answer[c] = Waiting("redact") /\ \E a \in RedactAnswers(settings) :
                                           answer' = [answer EXCEPT ![c] = a]
  /\ UNCHANGED settings

ServiceNext == \E c \in Caller : Ask(c, "inspect") \/ Ask(c, "redact") \/ Refuse(c) \/ Reply(c)

ServiceSpec == ServiceInit /\ [][ServiceNext]_serviceVars
=============================================================================
