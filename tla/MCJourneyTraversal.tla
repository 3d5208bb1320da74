-------------------------- MODULE MCJourneyTraversal ------------------------
(* Instances of JourneyTraversal for TLC.                                  *)
EXTENDS JourneyTraversal, TLC

(***************************************************************************)
(* A journey that the cron alone drives:                                   *)
(*                                                                         *)
(*   start -> split -> delay -> message -> window -> exit                  *)
(*                `------------^         `-> days ---^                     *)
(*                                                                         *)
(* where days waits for events that never come, or a window by days.       *)
(***************************************************************************)
CronSteps == {"start", "split", "delay", "message", "window", "days", "exit"}

CronType ==
  [s \in CronSteps |->
     CASE s = "start"   -> "start"
       [] s = "split"   -> "branch"
       [] s = "delay"   -> "timeDelay"
       [] s = "message" -> "message"
       [] s = "window"  -> "timeWindow"
       [] s = "days"    -> "waitUntil"
       [] s = "exit"    -> "exit"]

CronDestination ==
  [s \in CronSteps |->
     CASE s = "start"   -> {"split"}
       [] s = "split"   -> {"delay", "message"}
       [] s = "delay"   -> {"message"}
       [] s = "message" -> {"window", "days"}
       [] s = "days"    -> {"exit"}
       [] s = "window"  -> {"exit", NoStep}   \* the exit may be deleted
       [] s = "exit"    -> {NoStep}]

(***************************************************************************)
(* A journey that events also drive, with a loop back:                     *)
(*                                                                         *)
(*   start -> wait --(time)----> message -> exit                           *)
(*             | ^ `-(event 0)---^                                         *)
(*             | `--- jump <--(event 1)                                    *)
(***************************************************************************)
EventSteps == {"start", "wait", "jump", "message", "exit"}

EventType ==
  [s \in EventSteps |->
     CASE s = "start"   -> "start"
       [] s = "wait"    -> "waitUntil"
       [] s = "jump"    -> "jumpTo"
       [] s = "message" -> "message"
       [] s = "exit"    -> "exit"]

EventGraph ==
  [s \in EventSteps |->
     CASE s = "start"   -> {"wait"}
       [] s = "wait"    -> {"message"}
       [] s = "jump"    -> {"wait"}
       [] s = "message" -> {"exit"}
       [] s = "exit"    -> {NoStep}]

EventBranches ==
  [s \in EventSteps |->
     IF s = "wait" THEN [b \in {0, 1} |-> IF b = 0 THEN "message" ELSE "jump"]
                   ELSE <<>>]

OneCustomer == [e \in Events |-> CHOOSE c \in Customers : TRUE]

\* Every event matches branch b of the waitUntil step.
AllMatch == [e \in Events |-> {"wait"}]
Branch1 == [e \in Events |-> 1]

NoBranches == [s \in Steps |-> <<>>]

DelayZero == [s \in Steps |-> 0]
DelayOne == [s \in Steps |-> 1]

NoEvents == [e \in {} |-> e]
=============================================================================
