------------------------- MODULE JourneyDisturbance -------------------------
(***************************************************************************)
(* What the moveStarted lock is good for.  lock() tests the object it is   *)
(* given and updates the row whatever the row has become, an old lock may  *)
(* be taken over, and a job may be delivered twice: so a lock does not     *)
(* keep the others out.  This module remembers whom that has happened to,  *)
(* and states what holds of everybody else: of every customer whose locks  *)
(* were all taken from an object that was the row, and whose jobs all ran  *)
(* once, whatever happens to the other customers.                          *)
(*                                                                         *)
(* The history variable is set by the steps of JourneyTraversal and read   *)
(* by none: HistorySpec has the behaviours of Spec.                        *)
(***************************************************************************)
EXTENDS JourneyTraversal

VARIABLE disturbed   \* the customers somebody came in the way of

historyVars == <<vars, disturbed>>

(***************************************************************************)
(* Somebody locks c from an object that is not the row any more, where an  *)
(* update that asked for the row it was made from would have found none;   *)
(* or takes over a lock that has expired.                                  *)
(***************************************************************************)
LockedStale(c) ==
  \/ \E k \in Crons :
       /\ CronLock(k)
       /\ \E claim \in cron[k].claims :
            claim.customer = c /\ claim.location # row[c]
  \/ \E e \in Events :
       /\ EventLock(e)
       /\ EventCustomer[e] = c
       /\ event[e].location.locked \/ event[e].location # row[c]

\* A job that moves c comes a second time, or sends its message a second
\* time because it was interrupted.
RunAgain(c) ==
  \E i \in JobIds :
    \/ /\ Redeliver(i) \/ Duplicate(i)
       /\ jobs[i].customer = c /\ ~jobs[i].malformed
    \/ Interrupt(i) /\ sends'[c] # sends[c]

HistoryNext ==
  /\ Next
  /\ disturbed' = disturbed \cup {c \in Customers : LockedStale(c) \/ RunAgain(c)}

HistoryInit == Init /\ disturbed = {}

HistorySpec == HistoryInit /\ [][HistoryNext]_historyVars

FairHistorySpec == HistorySpec /\ Fairness

-----------------------------------------------------------------------------
(* Properties.                                                             *)

\* The write lock works for whoever is not disturbed: at most one job, cron
\* run or event at a time is moving the customer, and it holds the lock.
OneMover ==
  \A c \in Customers \ disturbed :
    /\ \A x, y \in Movers(c) : x = y
    /\ Movers(c) # {} => row[c].locked

(***************************************************************************)
(* The location object a job carries still describes the row when a        *)
(* processor acts on it, so that the unlock made from it writes back       *)
(* nothing stale.                                                          *)
(***************************************************************************)
Describes(location, r) ==
  /\ location.step = r.step
  /\ location.waited = r.waited
  /\ r.messageSent => location.messageSent

JobLocationCurrent ==
  \A i \in JobIds :
    jobs[i].phase = "ready" /\ ~jobs[i].malformed /\ jobs[i].customer \notin disturbed =>
      Describes(jobs[i].location, row[jobs[i].customer])

(***************************************************************************)
(* A customer leaves a delay only when the delay has passed since the row  *)
(* says the customer entered it.                                           *)
(***************************************************************************)
DelayHonoured ==
  [][\A c \in enrolled \ disturbed' :
       LET s == row[c].step
       IN Type[s] = "timeDelay" /\ s \notin Windowed /\ row'[c].step # s
            => row[c].waited > Delay[s]]_historyVars

\* A customer counted as messaged stays counted: the journey's limit on
\* customers messaged counts these marks.
MessagedStaysMarked ==
  [][\A c \in Customers \ disturbed' :
       row[c].messageSent => row'[c].messageSent]_historyVars

(***************************************************************************)
(* A customer who has stopped moving is marked as messaged exactly if a    *)
(* message went out: between the send and the unlock that records it the   *)
(* mark is only in the job.                                                *)
(***************************************************************************)
MarkMatchesSends ==
  \A c \in enrolled \ disturbed :
    ~row[c].locked => (row[c].messageSent <=> sends[c] > 0)

\* In a journey whose every path has one message step, nobody undisturbed
\* gets two.
NoSecondMessage == \A c \in Customers \ disturbed : sends[c] <= 1

(***************************************************************************)
(* With the cron alone, one run of minuteTasks at a time, nobody is        *)
(* disturbed until a delivery is repeated: nothing moves a customer        *)
(* between the cron's query and its locks.                                 *)
(***************************************************************************)
CronAlone ==
  /\ Events = {}
  /\ \A j, k \in Crons : j = k
  /\ redeliveries = 0

CronDisturbsNobody == CronAlone => disturbed = {}

(***************************************************************************)
(* The traversal implements the walk of JourneyWalk, which leaves out of   *)
(* its promise whoever has been disturbed: whatever the jobs, claims,      *)
(* events and transactions do in between, everybody else sets off from     *)
(* where the row says, and arrives, once, where the journey's edges lead   *)
(* in one move.                                                            *)
(***************************************************************************)
Walk == INSTANCE JourneyWalk WITH
  place <- [c \in Customers |-> row[c].step],
  moving <- [c \in Customers |-> row[c].locked],
  astray <- disturbed

FollowsWalk == Walk!WalkSpec

=============================================================================
