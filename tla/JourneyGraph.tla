---------------------------- MODULE JourneyGraph ----------------------------
(***************************************************************************)
(* A journey as its step processors see it: a set of steps, the type of    *)
(* each, and where a processor may send a customer next.  A destination    *)
(* lookup (cache first, then stepsService.lazyFindByID) may come back      *)
(* empty; NoStep stands for that.                                          *)
(***************************************************************************)
EXTENDS Integers

CONSTANTS
  Steps,             \* the steps of one journey
  StartStep,         \* its start step
  NoStep,            \* the result of a destination lookup that finds nothing
  Type,              \* Type[s]: the StepType of step s
  Destination,       \* Destination[s]: the lookups that may follow s; for a
                     \*   waitUntil step those of its time branch
  EventDestination,  \* EventDestination[s][b]: where branch b of a waitUntil
                     \*   step leads
  Windowed,          \* the steps whose time condition is a window
  TimeBranched,      \* the waitUntil steps that have a time branch
  Delay              \* Delay[s]: the delay of a step that is not windowed

(***************************************************************************)
(* "branch" abstracts the two processors that choose among destinations:   *)
(* multisplit (by segment) and experiment (at random).                     *)
(***************************************************************************)
StepTypes ==
  {"start", "jumpTo", "branch", "message", "timeDelay", "timeWindow",
   "waitUntil", "exit"}

Target == Steps \cup {NoStep}

ASSUME GraphAssumption ==
  /\ NoStep \notin Steps
  /\ StartStep \in Steps
  /\ Type \in [Steps -> StepTypes]
  /\ Type[StartStep] = "start"
  /\ Destination \in [Steps -> SUBSET Target]
  /\ \A s \in Steps : Destination[s] # {}
  /\ \A s \in Steps : /\ DOMAIN EventDestination[s] \subseteq Nat
                      /\ \A b \in DOMAIN EventDestination[s] :
                           EventDestination[s][b] \in Target
  /\ Windowed \subseteq Steps
  /\ TimeBranched \subseteq Steps
  /\ Delay \in [Steps -> Nat]

(***************************************************************************)
(* The steps a customer waits in.  Every processor compares the type of    *)
(* the next step with these three; the cron selects customers by them.     *)
(***************************************************************************)
TimeBased == {s \in Steps : Type[s] \in {"timeDelay", "timeWindow", "waitUntil"}}

MessageSteps == {s \in Steps : Type[s] = "message"}

(***************************************************************************)
(* The steps a processor can leave a customer in: a time based step, a     *)
(* message step (held or requeued by a limit), an exit, or a step whose    *)
(* destination lookup may find nothing.                                    *)
(***************************************************************************)
MayEnd(s) ==
  \/ NoStep \in Destination[s]
  \/ \E b \in DOMAIN EventDestination[s] : EventDestination[s][b] = NoStep

RestingPlaces ==
  TimeBased \cup MessageSteps
    \cup {s \in Steps : Type[s] = "exit" \/ MayEnd(s)}
=============================================================================
