-------------------------- MODULE JourneyTraversal --------------------------
(***************************************************************************)
(* How customers move through one running journey.  Four kinds of actor    *)
(* touch a customer's location row, each from an object it read earlier:   *)
(*                                                                         *)
(*   enrollment   creates the row locked and queues a job for the start    *)
(*                step (EnrollmentProcessor, then StartProcessor);         *)
(*   processors   take a step job and either publish a job for the next    *)
(*                step, keeping the lock, or unlock the row (the step      *)
(*                processors);                                             *)
(*   cron         selects unlocked customers whose time has come, locks    *)
(*                them in one transaction, commits, and publishes their    *)
(*                jobs; then requeues messages (CronService.minuteTasks);  *)
(*   events       reads a customer's row, locks it, and either publishes a *)
(*                waitUntil job or unlocks it (EventsProcessor).           *)
(*                                                                         *)
(* Queues deliver at least once: a job or an event whose handler ran but   *)
(* was not acknowledged may be delivered again.                            *)
(***************************************************************************)
EXTENDS JourneyLocations

CONSTANTS
  Customers,
  Crons,             \* overlapping runs of minuteTasks
  Events,            \* the events ingested for this journey
  EventCustomer,     \* EventCustomer[e]: whose event e is
  Matches,           \* Matches[e]: the waitUntil steps with a branch e matches
  LastBranch,        \* LastBranch[e]: index of the last branch e matched
  DayWindowed,       \* the waitUntil steps whose window is by days of the week
  MessageSendTypes,  \* what the journey's settings let a message step decide
  JobIds,            \* bound: jobs queued or unacknowledged at once
  RequeueIds,        \* bound: rows of the requeue table at once
  MaxSends,          \* bound: the count of messages stops here
  MaxRedeliveries,   \* bound: deliveries repeated after a crash
  MaxLosses          \* bound: jobs lost to an error or a crash

SendTypes == {"SEND", "QUIET_ABORT", "LIMIT_HOLD", "REQUEUE"}

ASSUME TraversalAssumption ==
  /\ Crons # {}
  /\ EventCustomer \in [Events -> Customers]
  /\ Matches \in [Events -> SUBSET Steps]
  /\ \A e \in Events : \A s \in Matches[e] : Type[s] = "waitUntil"
  /\ LastBranch \in [Events -> Nat]
  /\ DayWindowed \subseteq {s \in Windowed : Type[s] = "waitUntil"}
  /\ MessageSendTypes \subseteq SendTypes
  /\ MaxSends \in Nat \ {0}   \* tells a message from none
  /\ MaxRedeliveries \in Nat
  /\ MaxLosses \in Nat

VARIABLES
  enrolled,      \* customers with a row
  row,           \* row[c]: the row of c
  starting,      \* rows created, start job not yet published
  jobs,          \* jobs[i]: a step job, or NoJob
  cron,          \* cron[k]: what a run of minuteTasks holds
  event,         \* event[e]: what the handler of e holds
  requeued,      \* the requeue table
  sends,         \* sends[c]: messages handed to a provider for c
  openWindows,   \* the windowed steps whose window is open
  redeliveries,
  losses

vars == <<enrolled, row, starting, jobs, cron, event, requeued, sends,
          openWindows, redeliveries, losses>>

-----------------------------------------------------------------------------
(* State.                                                                  *)

TimeBranch == -1   \* the branch of a job that no event caused

NoJob == [phase |-> "free"]

Job ==
  [phase : {"ready", "handled"}, customer : Customers, step : Steps,
   branch : Int, location : Location, malformed : BOOLEAN]

Claim == [customer : Customers, location : Location]

RequeueRow == [id : RequeueIds, customer : Customers, step : Steps]

CronRun ==
  [phase : {"idle", "selected", "locked", "requeueing"},
   claims : SUBSET Claim, due : SUBSET RequeueRow, taken : SUBSET RequeueRow]

IdleCron == [phase |-> "idle", claims |-> {}, due |-> {}, taken |-> {}]

EventRun ==
  [phase : {"queued", "read", "locked", "done", "acked"}, location : Location]

TypeOK ==
  /\ enrolled \subseteq Customers
  /\ row \in [Customers -> Location]
  /\ starting \subseteq Customers
  /\ jobs \in [JobIds -> Job \cup {NoJob}]
  /\ cron \in [Crons -> CronRun]
  /\ event \in [Events -> EventRun]
  /\ requeued \subseteq RequeueRow
  /\ sends \in [Customers -> 0..MaxSends]
  /\ openWindows \subseteq Windowed
  /\ redeliveries \in 0..MaxRedeliveries
  /\ losses \in 0..MaxLosses

Init ==
  /\ enrolled = {}
  /\ row = [c \in Customers |-> Blank]
  /\ starting = {}
  /\ jobs = [i \in JobIds |-> NoJob]
  /\ cron = [k \in Crons |-> IdleCron]
  /\ event = [e \in Events |-> [phase |-> "queued", location |-> Blank]]
  /\ requeued = {}
  /\ sends = [c \in Customers |-> 0]
  /\ openWindows \in SUBSET Windowed
  /\ redeliveries = 0
  /\ losses = 0

-----------------------------------------------------------------------------
(* The queue.                                                              *)

HasSlot == \E i \in JobIds : jobs[i] = NoJob

Slot == CHOOSE i \in JobIds : jobs[i] = NoJob

\* (Slip: the job is given only the columns that say where the customer is.)
StepJobUnmarked(c, s, b, location) ==
  [phase |-> "ready", customer |-> c, step |-> s, branch |-> b,
   location |-> [location EXCEPT !.messageSent = FALSE], malformed |-> FALSE]

StepJob(c, s, b, location) ==
  [phase |-> "ready", customer |-> c, step |-> s, branch |-> b,
   location |-> location, malformed |-> FALSE]

\* The last free slot is kept for the processors (and Redeliver leaves one),
\* so that the bound on JobIds never stops them for good.
HasRoom == \E i, j \in JobIds : i # j /\ jobs[i] = NoJob /\ jobs[j] = NoJob

Publish(job) ==
  /\ HasRoom
  /\ jobs' = [jobs EXCEPT ![Slot] = job]

\* The handler of job i is over; the acknowledgement is still to come.
Handled(i) == jobs' = [jobs EXCEPT ![i].phase = "handled"]

HandledAndPublish(i, job) ==
  /\ HasSlot
  /\ jobs' = [jobs EXCEPT ![i].phase = "handled", ![Slot] = job]

\* completeJob: the broker forgets the job.
Ack(i) ==
  /\ jobs[i].phase = "handled"
  /\ jobs' = [jobs EXCEPT ![i] = NoJob]
  /\ UNCHANGED <<enrolled, row, starting, cron, event, requeued, sends,
                 openWindows, redeliveries, losses>>

\* The worker died between the handler's last effect and the
\* acknowledgement: the broker delivers the job again.
Redeliver(i) ==
  /\ jobs[i].phase = "handled"
  /\ HasSlot
  /\ redeliveries < MaxRedeliveries
  /\ redeliveries' = redeliveries + 1
  /\ jobs' = [jobs EXCEPT ![i].phase = "ready"]
  /\ UNCHANGED <<enrolled, row, starting, cron, event, requeued, sends,
                 openWindows, losses>>

\* The worker died between queueing a job again and acknowledging its old
\* message, or was cut off from the broker and went on: the job and its copy
\* are both there (WorkOrchestrator).
Duplicate(i) ==
  /\ jobs[i].phase = "ready"
  /\ redeliveries < MaxRedeliveries
  /\ redeliveries' = redeliveries + 1
  /\ Publish(jobs[i])
  /\ UNCHANGED <<enrolled, row, starting, cron, event, requeued, sends,
                 openWindows, losses>>

-----------------------------------------------------------------------------
(* Open transactions.                                                      *)

Requeueing(k) == {r.customer : r \in cron[k].due \cup cron[k].taken}

\* An update waits for the transaction that has updated the row to end.
Writable(c) == \A k \in Crons : c \notin Requeueing(k)

-----------------------------------------------------------------------------
(* Enrollment.                                                             *)

\* createAndLockBulk has committed and the START job is queued.
Enroll(c) ==
  /\ c \notin enrolled
  /\ enrolled' = enrolled \cup {c}
  /\ row' = [row EXCEPT ![c] = Created]
  /\ starting' = starting \cup {c}
  /\ UNCHANGED <<jobs, cron, event, requeued, sends, openWindows,
                 redeliveries, losses>>

\* The START job publishes the customer's first step job.
StartJourney(c) ==
  /\ c \in starting
  /\ starting' = starting \ {c}
  /\ Publish(StepJob(c, StartStep, TimeBranch, row[c]))
  /\ UNCHANGED <<enrolled, row, cron, event, requeued, sends, openWindows,
                 redeliveries, losses>>

-----------------------------------------------------------------------------
(* Step processors.  A job in phase "ready" may already be running: every  *)
(* processor has one effect on the row or the queue, and it is last.       *)

\* (Slip: only messages are queued, every other step is rested in.)
MovesOnToMessages(d) == d \in MessageSteps

\* Whether a processor goes on to d with a job of its own.
MovesOn(d) == d \in Steps \ TimeBased

\* (Slip: the result of the lookup is not tested.)
RestsInUntested(step, d) == d

\* Where it leaves the customer otherwise.
RestsIn(step, d) == IF d = NoStep THEN step ELSE d

(***************************************************************************)
(* What every processor does once it knows its destination d: with none,   *)
(* the customer stays in the job's step; if d is time based, the customer  *)
(* rests there; otherwise the job for d carries the same location object   *)
(* on and the lock is kept.                                                *)
(***************************************************************************)
ProceedWith(i, location, d) ==
  LET job == jobs[i]
  IN IF MovesOn(d)
     THEN /\ HandledAndPublish(i, StepJob(job.customer, d, TimeBranch, location))
          /\ UNCHANGED row
     ELSE /\ Writable(job.customer)
          /\ row' = [row EXCEPT ![job.customer] =
                       Unlock(location, RestsIn(job.step, d))]
          /\ Handled(i)

Proceed(i, d) == ProceedWith(i, jobs[i].location, d)

\* The customer has stopped moving and stays in the job's step.
Stay(i) ==
  /\ Writable(jobs[i].customer)
  /\ row' = [row EXCEPT ![jobs[i].customer] = Unlock(jobs[i].location, jobs[i].step)]
  /\ Handled(i)

Running(i, type) ==
  /\ jobs[i].phase = "ready"
  /\ ~jobs[i].malformed
  /\ Type[jobs[i].step] = type

\* StartStepProcessor, JumpToStepProcessor, MultisplitStepProcessor and
\* ExperimentStepProcessor.
ProcessForward(i) ==
  /\ \E type \in {"start", "jumpTo", "branch"} : Running(i, type)
  /\ \E d \in Destination[jobs[i].step] : Proceed(i, d)
  /\ UNCHANGED <<enrolled, starting, cron, event, requeued, sends, openWindows,
                 redeliveries, losses>>

\* ExitStepProcessor.
ProcessExit(i) ==
  /\ Running(i, "exit")
  /\ Stay(i)
  /\ UNCHANGED <<enrolled, starting, cron, event, requeued, sends, openWindows,
                 redeliveries, losses>>

\* (Slip: the mark is left out.)
MarkedNot(location) == location

\* The mark the processor puts on the job's own location object.
Marked(location) == [location EXCEPT !.messageSent = TRUE]

Sent(c) == [sends EXCEPT ![c] = IF @ < MaxSends THEN @ + 1 ELSE @]

(***************************************************************************)
(* MessageStepProcessor.  The journey's quiet hours and limits decide what *)
(* becomes of the message.  When it is sent, messageSent is set on the     *)
(* job's object only and reaches the row with the next unlock.             *)
(***************************************************************************)
SendMessage(i) ==
  /\ "SEND" \in MessageSendTypes
  /\ sends' = Sent(jobs[i].customer)
  /\ \E d \in Destination[jobs[i].step] :
       ProceedWith(i, Marked(jobs[i].location), d)
  /\ UNCHANGED requeued

SkipMessage(i) ==
  /\ "QUIET_ABORT" \in MessageSendTypes
  /\ \E d \in Destination[jobs[i].step] : Proceed(i, d)
  /\ UNCHANGED <<sends, requeued>>

HoldMessage(i) ==
  /\ "LIMIT_HOLD" \in MessageSendTypes
  /\ Stay(i)
  /\ UNCHANGED <<sends, requeued>>

FreeRequeueIds == RequeueIds \ {r.id : r \in requeued}

\* A row of its own for each message put off, even of one customer and step.
RequeueOf(job) ==
  [id |-> CHOOSE id \in FreeRequeueIds : TRUE,
   customer |-> job.customer, step |-> job.step]

PutOff(job) ==
  /\ FreeRequeueIds # {}
  /\ requeued' = requeued \cup {RequeueOf(job)}

RequeueMessage(i) ==
  /\ "REQUEUE" \in MessageSendTypes
  /\ PutOff(jobs[i])
  /\ Stay(i)
  /\ UNCHANGED sends

ProcessMessage(i) ==
  /\ Running(i, "message")
  /\ SendMessage(i) \/ SkipMessage(i) \/ HoldMessage(i) \/ RequeueMessage(i)
  /\ UNCHANGED <<enrolled, starting, cron, event, openWindows, redeliveries,
                 losses>>

\* (Slip: the delay may be just over.)
TimeOverAtDelay(s, location) ==
  IF s \in Windowed THEN s \in openWindows ELSE location.waited >= Delay[s]

\* The condition the processors test: the delay is strictly over.
TimeOver(s, location) ==
  IF s \in Windowed THEN s \in openWindows ELSE location.waited > Delay[s]

\* TimeDelayStepProcessor and TimeWindowStepProcessor.
ProcessTimed(i) ==
  /\ \E type \in {"timeDelay", "timeWindow"} : Running(i, type)
  /\ IF TimeOver(jobs[i].step, jobs[i].location)
     THEN \E d \in Destination[jobs[i].step] : Proceed(i, d)
     ELSE Stay(i)
  /\ UNCHANGED <<enrolled, starting, cron, event, requeued, sends, openWindows,
                 redeliveries, losses>>

Branches(s) == DOMAIN EventDestination[s]

ByTime(job) == job.branch = TimeBranch /\ job.step \in TimeBranched

ByEvent(job) == job.branch > TimeBranch /\ Branches(job.step) # {}

\* The branch an event chose does not exist in the job's step.
BranchMissing(job) ==
  /\ Type[job.step] = "waitUntil"
  /\ ByEvent(job)
  /\ job.branch \notin Branches(job.step)

\* WaitUntilStepProcessor: the time branch, or the branch an event chose.
ProcessWaitUntil(i) ==
  LET job == jobs[i]
  IN /\ Running(i, "waitUntil")
     /\ ~BranchMissing(job)
     /\ \/ /\ ByTime(job) /\ TimeOver(job.step, job.location)
           /\ \E d \in Destination[job.step] : Proceed(i, d)
        \/ /\ ByTime(job) => ~TimeOver(job.step, job.location)
           /\ ~ByEvent(job)
           /\ Stay(i)
        \/ /\ ByEvent(job)
           /\ Proceed(i, EventDestination[job.step][job.branch])
     /\ UNCHANGED <<enrolled, starting, cron, event, requeued, sends,
                    openWindows, redeliveries, losses>>

-----------------------------------------------------------------------------
(* Failures of a processor.                                                *)

(***************************************************************************)
(* Jobs that throw on every delivery: a requeued message, whose job has    *)
(* neither owner nor customer nor location, and a branch that is missing.  *)
(***************************************************************************)
Throws(job) == job.malformed \/ BranchMissing(job)

\* failJob: retries are used up, the job goes to the FAILED queue, which
\* nothing consumes.  Nobody unlocks the row.
FailBroken(i) ==
  /\ jobs[i].phase = "ready"
  /\ Throws(jobs[i])
  /\ jobs' = [jobs EXCEPT ![i] = NoJob]
  /\ UNCHANGED <<enrolled, row, starting, cron, event, requeued, sends,
                 openWindows, redeliveries, losses>>

\* What a message processor may have done before it stops half way.
PartialMessage(job) ==
  \/ UNCHANGED <<sends, requeued>>
  \/ /\ Type[job.step] = "message" /\ "SEND" \in MessageSendTypes
     /\ sends' = Sent(job.customer)
     /\ UNCHANGED requeued
  \/ /\ Type[job.step] = "message" /\ "REQUEUE" \in MessageSendTypes
     /\ PutOff(job)
     /\ UNCHANGED sends

\* The same for a sound job whose lookups, sends or queries keep failing.
FailSound(i) ==
  /\ jobs[i].phase = "ready"
  /\ ~Throws(jobs[i])
  /\ losses < MaxLosses
  /\ losses' = losses + 1
  /\ jobs' = [jobs EXCEPT ![i] = NoJob]
  /\ PartialMessage(jobs[i])
  /\ UNCHANGED <<enrolled, row, starting, cron, event, openWindows, redeliveries>>

\* The worker dies half way through a message step and the broker delivers
\* the job again.
Interrupt(i) ==
  /\ jobs[i].phase = "ready"
  /\ ~Throws(jobs[i])
  /\ redeliveries < MaxRedeliveries
  /\ redeliveries' = redeliveries + 1
  /\ PartialMessage(jobs[i])
  /\ UNCHANGED <<enrolled, row, starting, jobs, cron, event, openWindows, losses>>

-----------------------------------------------------------------------------
(* The cron: CronService.minuteTasks.                                      *)

\* The condition the cron tests: the delay is over, or just over.
CronDue(s, location) ==
  /\ s \in TimeBased
  /\ Type[s] = "waitUntil" => s \in TimeBranched
  /\ IF s \in Windowed THEN s \in openWindows ELSE location.waited >= Delay[s]

\* (Slip: "moveStarted: IsNull()" is dropped from the query.)
SelectedMoving(c) == CronDue(row[c].step, row[c])

\* findAllStaticCustomersInTimeBasedSteps, then the time test of each row.
Selected(c) == ~row[c].locked /\ CronDue(row[c].step, row[c])

\* In its hours, a window by days of the week is looked for in the wrong place
\* and the test throws.
TestThrows(c) ==
  /\ ~row[c].locked
  /\ row[c].step \in DayWindowed \cap TimeBranched \cap openWindows

\* A test that throws rolls the whole batch back: there is no such run.
CronSelect(k) ==
  LET due == {c \in enrolled : Selected(c)}
  IN /\ cron[k].phase = "idle"
     /\ \A c \in enrolled : ~TestThrows(c)
     /\ due # {}
     /\ cron' = [cron EXCEPT
                  ![k].phase = "selected",
                  ![k].claims = {[customer |-> c, location |-> row[c]] : c \in due}]
     /\ UNCHANGED <<enrolled, row, starting, jobs, event, requeued, sends,
                    openWindows, redeliveries, losses>>

Claimed(k) == {claim.customer : claim \in cron[k].claims}

(***************************************************************************)
(* lock() on every selected object, and the commit.  The test in lock      *)
(* passes, for each object was selected unlocked, and the update does not  *)
(* look at the row.  An owner or customer lookup that fails after lock()   *)
(* is swallowed: the row is committed locked and its job is not kept.      *)
(***************************************************************************)
CronLock(k) ==
  /\ cron[k].phase = "selected"
  /\ \A c \in Claimed(k) : Writable(c)
  /\ row' = [c \in Customers |-> IF c \in Claimed(k) THEN Lock(row[c]) ELSE row[c]]
  /\ \/ /\ cron' = [cron EXCEPT ![k].phase = "locked"]
        /\ UNCHANGED losses
     \/ /\ losses < MaxLosses
        /\ losses' = losses + 1
        /\ \E claim \in cron[k].claims :
             cron' = [cron EXCEPT ![k].phase = "locked", ![k].claims = @ \ {claim}]
  /\ UNCHANGED <<enrolled, starting, jobs, event, requeued, sends, openWindows,
                 redeliveries>>

\* After the commit, one job at a time.
CronPublish(k) ==
  /\ cron[k].phase = "locked"
  /\ \E claim \in cron[k].claims :
       /\ Publish(StepJob(claim.customer, claim.location.step, TimeBranch,
                          claim.location))
       /\ cron' = [cron EXCEPT ![k].claims = @ \ {claim}]
  /\ UNCHANGED <<enrolled, row, starting, event, requeued, sends, openWindows,
                 redeliveries, losses>>

CronDone(k) ==
  /\ cron[k].phase = "locked"
  /\ cron[k].claims = {}
  /\ cron' = [cron EXCEPT ![k] = IdleCron]
  /\ UNCHANGED <<enrolled, row, starting, jobs, event, requeued, sends,
                 openWindows, redeliveries, losses>>

\* getRequeuedMessages (any rows may be due) and findAndLock for each, in one
\* transaction: one customer still moving rolls the whole batch back, and so
\* does a second row of a customer, who is moving since the first.
RequeueSelect(k) ==
  /\ cron[k].phase = "idle"
  /\ \E due \in SUBSET requeued \ {{}} :
       /\ \A r \in due : Writable(r.customer) /\ ~StillMoving(row[r.customer])
       /\ \A r, s \in due : r.customer = s.customer => r = s
       /\ cron' = [cron EXCEPT ![k].phase = "requeueing", ![k].due = due]
  /\ UNCHANGED <<enrolled, row, starting, jobs, event, requeued, sends,
                 openWindows, redeliveries, losses>>

\* The job it queues has no location, no customer and no loaded owner, and
\* goes out before the transaction commits.
RequeuePublish(k) ==
  /\ cron[k].phase = "requeueing"
  /\ \E r \in cron[k].due :
       /\ Publish([StepJob(r.customer, r.step, TimeBranch, Blank)
                     EXCEPT !.malformed = TRUE])
       /\ cron' = [cron EXCEPT ![k].due = @ \ {r}, ![k].taken = @ \cup {r}]
  /\ UNCHANGED <<enrolled, row, starting, event, requeued, sends, openWindows,
                 redeliveries, losses>>

\* The rows are removed and the locks become visible together.
RequeueCommit(k) ==
  LET locking == Requeueing(k)
  IN /\ cron[k].phase = "requeueing"
     /\ cron[k].due = {}
     /\ requeued' = requeued \ cron[k].taken
     /\ row' = [c \in Customers |-> IF c \in locking THEN Lock(row[c]) ELSE row[c]]
     /\ cron' = [cron EXCEPT ![k] = IdleCron]
     /\ UNCHANGED <<enrolled, starting, jobs, event, sends, openWindows,
                    redeliveries, losses>>

\* The cron process dies: an open transaction is rolled back, jobs not yet
\* published are gone.
CronCrash(k) ==
  /\ cron[k].phase # "idle"
  /\ losses < MaxLosses
  /\ losses' = losses + 1
  /\ cron' = [cron EXCEPT ![k] = IdleCron]
  /\ UNCHANGED <<enrolled, row, starting, jobs, event, requeued, sends,
                 openWindows, redeliveries>>

-----------------------------------------------------------------------------
(* Events: EventsProcessor.handleEvent.                                    *)

EventUnchanged == UNCHANGED <<enrolled, starting, cron, requeued, sends, openWindows>>

\* findForWrite: a plain read.
EventRead(e) ==
  LET c == EventCustomer[e]
  IN /\ event[e].phase = "queued"
     /\ event' = [event EXCEPT ![e] =
                    IF c \in enrolled THEN [phase |-> "read", location |-> row[c]]
                                      ELSE [@ EXCEPT !.phase = "done"]]
     /\ EventUnchanged
     /\ UNCHANGED <<row, jobs, redeliveries, losses>>

\* lock() on the object that was read.
EventLock(e) ==
  /\ event[e].phase = "read"
  /\ ~StillMoving(event[e].location)
  /\ Writable(EventCustomer[e])
  /\ row' = [row EXCEPT ![EventCustomer[e]] = Lock(@)]
  /\ event' = [event EXCEPT ![e].phase = "locked"]
  /\ EventUnchanged
  /\ UNCHANGED <<jobs, redeliveries, losses>>

\* CUSTOMER_STILL_MOVING: retryJob queues the event again, without limit.
EventRetry(e) ==
  /\ event[e].phase = "read"
  /\ StillMoving(event[e].location)
  /\ event' = [event EXCEPT ![e] = [phase |-> "queued", location |-> Blank]]
  /\ EventUnchanged
  /\ UNCHANGED <<row, jobs, redeliveries, losses>>

\* The customer is in a step the event matches: queue that step, with the
\* branch index left over from the last match in any step.
EventMatch(e) ==
  LET location == event[e].location
  IN /\ event[e].phase = "locked"
     /\ location.step \in Matches[e]
     /\ Publish(StepJob(EventCustomer[e], location.step, LastBranch[e], location))
     /\ event' = [event EXCEPT ![e] = [phase |-> "done", location |-> Blank]]
     /\ EventUnchanged
     /\ UNCHANGED <<row, redeliveries, losses>>

\* No step matches, or the customer is in none of them: unlock in place.
EventMiss(e) ==
  LET location == event[e].location
  IN /\ event[e].phase = "locked"
     /\ location.step \notin Matches[e]
     /\ Writable(EventCustomer[e])
     /\ row' = [row EXCEPT ![EventCustomer[e]] = Unlock(location, location.step)]
     /\ event' = [event EXCEPT ![e] = [phase |-> "done", location |-> Blank]]
     /\ EventUnchanged
     /\ UNCHANGED <<jobs, redeliveries, losses>>

EventAck(e) ==
  /\ event[e].phase = "done"
  /\ event' = [event EXCEPT ![e].phase = "acked"]
  /\ EventUnchanged
  /\ UNCHANGED <<row, jobs, redeliveries, losses>>

\* The worker died before the acknowledgement: the event comes again.
EventRedeliver(e) ==
  /\ event[e].phase \in {"read", "locked", "done"}
  /\ redeliveries < MaxRedeliveries
  /\ redeliveries' = redeliveries + 1
  /\ event' = [event EXCEPT ![e] = [phase |-> "queued", location |-> Blank]]
  /\ EventUnchanged
  /\ UNCHANGED <<row, jobs, losses>>

-----------------------------------------------------------------------------
(* Time passes for every row and every object, and windows open and close. *)

Tick ==
  /\ row' = [c \in Customers |-> IF c \in enrolled THEN Aged(row[c]) ELSE row[c]]
  /\ jobs' = [i \in JobIds |->
               IF jobs[i].phase = "free" \/ jobs[i].malformed THEN jobs[i]
               ELSE [jobs[i] EXCEPT !.location = Aged(@)]]
  /\ cron' = [k \in Crons |->
               [cron[k] EXCEPT !.claims =
                 {[claim EXCEPT !.location = Aged(@)] : claim \in @}]]
  /\ event' = [e \in Events |->
                IF event[e].phase \in {"read", "locked"}
                THEN [event[e] EXCEPT !.location = Aged(@)] ELSE event[e]]
  /\ openWindows' \in SUBSET Windowed
  /\ UNCHANGED <<enrolled, starting, requeued, sends, redeliveries, losses>>

-----------------------------------------------------------------------------
Process(i) ==
  \/ ProcessForward(i) \/ ProcessExit(i) \/ ProcessMessage(i)
  \/ ProcessTimed(i) \/ ProcessWaitUntil(i) \/ FailBroken(i)

Minute(k) ==
  \/ CronSelect(k) \/ CronLock(k) \/ CronPublish(k) \/ CronDone(k)
  \/ RequeueSelect(k) \/ RequeuePublish(k) \/ RequeueCommit(k)

HandleEvent(e) ==
  \/ EventRead(e) \/ EventLock(e) \/ EventRetry(e) \/ EventMatch(e)
  \/ EventMiss(e) \/ EventAck(e)

Fault ==
  \/ \E i \in JobIds : FailSound(i) \/ Interrupt(i) \/ Redeliver(i) \/ Duplicate(i)
  \/ \E k \in Crons : CronCrash(k)
  \/ \E e \in Events : EventRedeliver(e)

Next ==
  \/ \E c \in Customers : Enroll(c) \/ StartJourney(c)
  \/ \E i \in JobIds : Process(i) \/ Ack(i)
  \/ \E k \in Crons : Minute(k)
  \/ \E e \in Events : HandleEvent(e)
  \/ Fault
  \/ Tick

Spec == Init /\ [][Next]_vars

(***************************************************************************)
(* Workers keep consuming, a started cron run goes on, each run of         *)
(* minuteTasks reaches both of its parts, and time passes.  Nothing is     *)
(* assumed of faults, of ingestion or of which branch is taken.            *)
(***************************************************************************)
Fairness ==
  /\ \A c \in Customers : WF_vars(StartJourney(c))
  /\ \A i \in JobIds : WF_vars(Process(i)) /\ WF_vars(Ack(i))
  /\ \A k \in Crons : /\ WF_vars(Minute(k))
                      /\ SF_vars(RequeueSelect(k))
  /\ \A e \in Events : WF_vars(HandleEvent(e))
  /\ WF_vars(Tick)

FairSpec == Spec /\ Fairness

-----------------------------------------------------------------------------
(* Properties.                                                             *)

(***************************************************************************)
(* A row never names a step a customer only passes through: it names the   *)
(* start step or a place some processor leaves customers in, whatever is   *)
(* lost, repeated or raced.  Every unlock is involved, with every object   *)
(* it may be made from.                                                    *)
(***************************************************************************)
RowAtRest ==
  \A c \in enrolled : row[c].step \in RestingPlaces \cup {StartStep}

(***************************************************************************)
(* A customer who is not moving is in a resting place.  This needs locks   *)
(* that outlive the handlers: an event that takes over an expired lock of  *)
(* a customer still being started leaves that customer in the start step.  *)
(***************************************************************************)
UnlockedAtRest ==
  \A c \in enrolled : ~row[c].locked => row[c].step \in RestingPlaces

\* Whoever is in charge of moving customer c.  A malformed job moves nobody.
Movers(c) ==
  {<<"enrollment", c>> : x \in starting \cap {c}}
    \cup {<<"job", i>> : i \in {j \in JobIds : /\ jobs[j].phase = "ready"
                                              /\ ~jobs[j].malformed
                                              /\ jobs[j].customer = c}}
    \cup {<<"cron", k>> : k \in {m \in Crons : /\ cron[m].phase = "locked"
                                              /\ c \in Claimed(m)}}
    \cup {<<"event", e>> : e \in {f \in Events : /\ event[f].phase = "locked"
                                                /\ EventCustomer[f] = c}}

(***************************************************************************)
(* Whoever moves a customer holds the customer's lock.  It does not hold   *)
(* of everybody: JourneyDisturbance says of whom it does.                  *)
(***************************************************************************)
MoverHoldsLock == \A c \in Customers : Movers(c) # {} => row[c].locked

\* A customer who starts to move stops moving, unless the job that moves the
\* customer is lost: no lock is held for ever.
MoveEnds == \A c \in Customers : row[c].locked ~> ~row[c].locked \/ losses > 0

\* A message put off until quiet hours are over goes out.
RequeuedIsSent ==
  \A c \in Customers : (\E r \in requeued : r.customer = c) ~> sends[c] > 0

=============================================================================
