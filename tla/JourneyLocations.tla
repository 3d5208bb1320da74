-------------------------- MODULE JourneyLocations --------------------------
(***************************************************************************)
(* The journey_location row of one (journey, customer) and what            *)
(* JourneyLocationsService writes into it.  The service reads a row, hands *)
(* the object to its caller, and every later write is made from that       *)
(* object: nothing ties an update to the row still being what was read.    *)
(*                                                                         *)
(* A timestamp is kept as its age, which is all the code looks at: waited  *)
(* is Date.now() - stepEntry, held is Date.now() - moveStarted, capped at  *)
(* Horizon, beyond every delay, and at LockTimeout.                        *)
(***************************************************************************)
EXTENDS JourneyGraph

CONSTANTS
  Horizon,      \* the age at which the clock of a stay stops
  LockTimeout,  \* LOCATION_LOCK_TIMEOUT_MS
  LockExpires   \* whether a lock may grow that old while its holder works

ASSUME ClockAssumption ==
  /\ Horizon \in Nat
  /\ LockTimeout \in Nat
  /\ LockExpires \in BOOLEAN

Location ==
  [step : Steps, locked : BOOLEAN, waited : 0..Horizon, held : 0..LockTimeout,
   messageSent : BOOLEAN]

\* createAndLock, createAndLockBulk: a new row sits in the start step, moving.
Created ==
  [step |-> StartStep, locked |-> TRUE, waited |-> 0, held |-> 0,
   messageSent |-> FALSE]

\* Stands for the row of a customer who is not enrolled, and for an object
\* that a handler no longer holds.
Blank == [Created EXCEPT !.locked = FALSE]

\* (Slip: the age of the lock is not looked at.)
StillMovingForEver(location) == location.locked

\* lock: the test made on the object that was read.
StillMoving(location) ==
  location.locked /\ (LockExpires => location.held < LockTimeout)

\* (Slip: moveStarted is read but not written.)
LockNothing(row) == [row EXCEPT !.held = 0]

\* lock: the update made on the row.
Lock(row) == [row EXCEPT !.locked = TRUE, !.held = 0]

\* unlock(location, step): the row after it.  stepEntry restarts whether or
\* not the step changes, and messageSent is the object's, not the row's.
Unlock(location, step) ==
  [step |-> step, locked |-> FALSE, waited |-> 0, held |-> 0,
   messageSent |-> location.messageSent]

Older(age, cap) == IF age < cap THEN age + 1 ELSE age

\* One tick of the clock, seen through a row or an object.
Aged(location) ==
  [location EXCEPT !.waited = Older(@, Horizon),
                   !.held = IF location.locked THEN Older(@, LockTimeout) ELSE @]
=============================================================================
