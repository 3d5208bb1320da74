----------------------- MODULE JourneyTraversalProofs -----------------------
(***************************************************************************)
(* What holds of JourneyTraversal for every journey, every number of       *)
(* customers, cron runs, events and jobs, and every bound.                 *)
(***************************************************************************)
EXTENDS JourneyTraversal, TLAPS

-----------------------------------------------------------------------------
(* The row operators.                                                      *)

\* A new row, and the object that stands for none, are locations.
LEMMA CreatedType == Created \in Location /\ Blank \in Location
<1>1. Created \in Location
  BY GraphAssumption, ClockAssumption DEF Created, Location
<1>2. Blank \in Location
  BY <1>1 DEF Blank, Location
<1> QED BY <1>1, <1>2

\* unlock writes a location, whatever object it is made from, at the step
\* it is given.
LEMMA UnlockType ==
  ASSUME NEW location \in Location, NEW step \in Steps
  PROVE  /\ Unlock(location, step) \in Location
         /\ Unlock(location, step).step = step
BY ClockAssumption DEF Unlock, Location

\* lock only touches moveStarted.
LEMMA LockType ==
  ASSUME NEW location \in Location
  PROVE  /\ Lock(location) \in Location
         /\ Lock(location).step = location.step
         /\ Lock(location).locked
<1>1. 0 \in 0..LockTimeout
  BY ClockAssumption
<1>2. Lock(location) \in Location
  BY <1>1 DEF Lock, Location
<1>3. Lock(location).step = location.step
  BY DEF Lock, Location
<1>4. Lock(location).locked
  BY DEF Lock, Location
<1> QED BY <1>2, <1>3, <1>4

\* Time changes neither the step of a row nor its lock.
LEMMA AgedType ==
  ASSUME NEW location \in Location
  PROVE  /\ Aged(location) \in Location
         /\ Aged(location).step = location.step
         /\ Aged(location).locked = location.locked
<1>1. Older(location.waited, Horizon) \in 0..Horizon
  BY ClockAssumption DEF Older, Location
<1>2. Older(location.held, LockTimeout) \in 0..LockTimeout
  BY ClockAssumption DEF Older, Location
<1>3. Aged(location) \in Location
  BY <1>1, <1>2 DEF Aged, Location
<1>4. Aged(location).step = location.step
  BY DEF Aged, Location
<1>5. Aged(location).locked = location.locked
  BY DEF Aged, Location
<1> QED BY <1>3, <1>4, <1>5

\* The mark touches nothing else.
LEMMA MarkedType ==
  ASSUME NEW location \in Location
  PROVE  /\ Marked(location) \in Location
         /\ Marked(location).step = location.step
         /\ Marked(location).locked = location.locked
BY DEF Marked, Location

-----------------------------------------------------------------------------
(* The queue operators.                                                    *)

JobsType == [JobIds -> Job \cup {NoJob}]

\* A slot that is not free holds a job.
LEMMA BusySlot ==
  ASSUME jobs \in JobsType, NEW i \in JobIds, jobs[i].phase # "free"
  PROVE  jobs[i] \in Job
BY DEF JobsType, NoJob

\* The slot a job is published into is free.
LEMMA FreeSlot ==
  ASSUME HasSlot
  PROVE  Slot \in JobIds /\ jobs[Slot] = NoJob
BY DEF HasSlot, Slot

\* A step job made from a location is a job.
LEMMA StepJobType ==
  ASSUME NEW c \in Customers, NEW s \in Steps, NEW b \in Int,
         NEW location \in Location
  PROVE  StepJob(c, s, b, location) \in Job
BY DEF StepJob, Job

\* Publishing and handling keep the queue well typed.
LEMMA PublishType ==
  ASSUME jobs \in JobsType, NEW job \in Job, Publish(job)
  PROVE  jobs' \in JobsType
<1>1. Slot \in JobIds
  BY FreeSlot DEF Publish, HasRoom, HasSlot
<1> QED BY <1>1 DEF Publish, JobsType

LEMMA HandledType ==
  ASSUME jobs \in JobsType, NEW i \in JobIds, jobs[i].phase = "ready", Handled(i)
  PROVE  jobs' \in JobsType
<1>1. jobs[i] \in Job
  BY BusySlot
<1>2. [jobs[i] EXCEPT !.phase = "handled"] \in Job
  BY <1>1 DEF Job
<1> QED BY <1>2 DEF Handled, JobsType

LEMMA HandledAndPublishType ==
  ASSUME jobs \in JobsType, NEW i \in JobIds, jobs[i].phase = "ready",
         NEW job \in Job, HandledAndPublish(i, job)
  PROVE  jobs' \in JobsType
<1>1. jobs[i] \in Job
  BY BusySlot
<1>2. [jobs[i] EXCEPT !.phase = "handled"] \in Job
  BY <1>1 DEF Job
<1>3. Slot \in JobIds
  BY FreeSlot DEF HandledAndPublish
<1> QED BY <1>2, <1>3 DEF HandledAndPublish, JobsType

-----------------------------------------------------------------------------
(* Type correctness.                                                       *)

\* What a processor may find as its destination.
LEMMA DestinationType ==
  ASSUME NEW s \in Steps
  PROVE  /\ \A d \in Destination[s] : d \in Target
         /\ \A b \in DOMAIN EventDestination[s] : EventDestination[s][b] \in Target
BY GraphAssumption

\* Going on or resting keeps the row and the queue well typed.
LEMMA ProceedType ==
  ASSUME TypeOK, NEW i \in JobIds, jobs[i].phase = "ready",
         NEW location \in Location, NEW d \in Target,
         ProceedWith(i, location, d)
  PROVE  row' \in [Customers -> Location] /\ jobs' \in JobsType
<1>1. jobs \in JobsType /\ jobs[i] \in Job
  BY BusySlot DEF TypeOK, JobsType
<1>2. jobs[i].customer \in Customers /\ jobs[i].step \in Steps
  BY <1>1 DEF Job
<1>3. CASE MovesOn(d)
  <2>1. StepJob(jobs[i].customer, d, TimeBranch, location) \in Job
    BY <1>2, <1>3, StepJobType DEF MovesOn, TimeBranch
  <2>2. jobs' \in JobsType
    BY <1>1, <1>3, <2>1, HandledAndPublishType DEF ProceedWith
  <2> QED BY <1>3, <2>2 DEF ProceedWith, TypeOK
<1>4. CASE ~MovesOn(d)
  <2>1. RestsIn(jobs[i].step, d) \in Steps
    BY <1>2 DEF RestsIn, Target
  <2>2. Unlock(location, RestsIn(jobs[i].step, d)) \in Location
    BY <2>1, UnlockType
  <2>3. jobs' \in JobsType
    BY <1>1, <1>4, HandledType DEF ProceedWith
  <2> QED BY <1>4, <2>2, <2>3 DEF ProceedWith, TypeOK
<1> QED BY <1>3, <1>4

LEMMA StayType ==
  ASSUME TypeOK, NEW i \in JobIds, jobs[i].phase = "ready", Stay(i)
  PROVE  row' \in [Customers -> Location] /\ jobs' \in JobsType
<1>1. jobs \in JobsType /\ jobs[i] \in Job
  BY BusySlot DEF TypeOK, JobsType
<1>2. Unlock(jobs[i].location, jobs[i].step) \in Location
  BY <1>1, UnlockType DEF Job
<1>3. jobs' \in JobsType
  BY <1>1, HandledType DEF Stay
<1> QED BY <1>2, <1>3 DEF Stay, TypeOK

\* The count of messages stays within its bound.
LEMMA SentType ==
  ASSUME TypeOK, NEW c \in Customers
  PROVE  Sent(c) \in [Customers -> 0..MaxSends]
BY TraversalAssumption DEF TypeOK, Sent

\* A message put off is a row of its customer and step.
LEMMA PutOffType ==
  ASSUME requeued \subseteq RequeueRow, NEW job,
         job.customer \in Customers, job.step \in Steps, PutOff(job)
  PROVE  requeued' \subseteq RequeueRow
<1>1. FreeRequeueIds # {}
  BY DEF PutOff
<1>2. (CHOOSE id \in FreeRequeueIds : TRUE) \in FreeRequeueIds
  BY <1>1
<1>3. FreeRequeueIds \subseteq RequeueIds
  BY DEF FreeRequeueIds
<1>4. RequeueOf(job) \in RequeueRow
  BY <1>2, <1>3 DEF RequeueOf, RequeueRow
<1> QED BY <1>4 DEF PutOff

\* The enrollment steps keep the types.
LEMMA EnrollmentTyped ==
  ASSUME TypeOK, NEW c \in Customers, Enroll(c) \/ StartJourney(c)
  PROVE  TypeOK'
<1>1. CASE Enroll(c)
  BY <1>1, CreatedType DEF Enroll, TypeOK
<1>2. CASE StartJourney(c)
  <2>1. StepJob(c, StartStep, TimeBranch, row[c]) \in Job
    BY StepJobType, GraphAssumption DEF TypeOK, TimeBranch
  <2>2. jobs' \in JobsType
    BY <1>2, <2>1, PublishType DEF StartJourney, TypeOK, JobsType
  <2> QED BY <1>2, <2>2 DEF StartJourney, TypeOK, JobsType
<1> QED BY <1>1, <1>2

\* Each processor keeps the types.
LEMMA ProcessTyped ==
  ASSUME TypeOK, NEW i \in JobIds, Process(i)
  PROVE  TypeOK'
<1> DEFINE job == jobs[i]
<1>1. job.phase = "ready"
  BY DEF Process, ProcessForward, ProcessExit, ProcessMessage, ProcessTimed,
         ProcessWaitUntil, FailBroken, Running
<1>2. job \in Job /\ job.location \in Location /\ job.step \in Steps
        /\ job.customer \in Customers
  BY <1>1, BusySlot DEF TypeOK, JobsType, Job
<1>3. \A d \in Destination[job.step] : d \in Target
  BY <1>2, DestinationType
<1>4. Marked(job.location) \in Location
  BY <1>2, MarkedType
<1>5. ASSUME NEW d \in Target, Proceed(i, d)
      PROVE  row' \in [Customers -> Location] /\ jobs' \in JobsType
  BY <1>1, <1>2, <1>5, ProceedType DEF Proceed
<1>6. CASE ProcessForward(i)
  BY <1>3, <1>5, <1>6 DEF ProcessForward, TypeOK, JobsType
<1>7. CASE ProcessExit(i)
  BY <1>1, <1>7, StayType DEF ProcessExit, TypeOK, JobsType
<1>8. CASE ProcessMessage(i)
  <2>1. CASE SendMessage(i)
    <3>1. row' \in [Customers -> Location] /\ jobs' \in JobsType
      BY <1>1, <1>3, <1>4, <2>1, ProceedType DEF SendMessage
    <3>2. sends' \in [Customers -> 0..MaxSends]
      BY <1>2, <2>1, SentType DEF SendMessage
    <3> QED BY <1>8, <2>1, <3>1, <3>2
            DEF ProcessMessage, SendMessage, TypeOK, JobsType
  <2>2. CASE SkipMessage(i)
    <3>1. row' \in [Customers -> Location] /\ jobs' \in JobsType
      BY <1>3, <1>5, <2>2 DEF SkipMessage
    <3> QED BY <1>8, <2>2, <3>1 DEF ProcessMessage, SkipMessage, TypeOK, JobsType
  <2>3. CASE HoldMessage(i)
    BY <1>1, <1>8, <2>3, StayType
       DEF ProcessMessage, HoldMessage, TypeOK, JobsType
  <2>4. CASE RequeueMessage(i)
    <3>1. requeued' \subseteq RequeueRow
      BY <1>2, <2>4, PutOffType DEF RequeueMessage, TypeOK
    <3> QED BY <1>1, <1>8, <2>4, <3>1, StayType
            DEF ProcessMessage, RequeueMessage, TypeOK, JobsType
  <2> QED BY <1>8, <2>1, <2>2, <2>3, <2>4 DEF ProcessMessage
<1>9. CASE ProcessTimed(i)
  <2>1. row' \in [Customers -> Location] /\ jobs' \in JobsType
    BY <1>1, <1>3, <1>5, <1>9, StayType DEF ProcessTimed
  <2> QED BY <1>9, <2>1 DEF ProcessTimed, TypeOK, JobsType
<1>10. CASE ProcessWaitUntil(i)
  <2>1. CASE Stay(i)
    BY <1>1, <1>10, <2>1, StayType DEF ProcessWaitUntil, TypeOK, JobsType
  <2>2. CASE \E d \in Destination[job.step] : Proceed(i, d)
    BY <1>3, <1>5, <1>10, <2>2 DEF ProcessWaitUntil, TypeOK, JobsType
  <2>3. CASE ByEvent(job) /\ Proceed(i, EventDestination[job.step][job.branch])
    <3>1. job.branch \in DOMAIN EventDestination[job.step]
      BY <1>10, <2>3 DEF ProcessWaitUntil, Running, BranchMissing, Branches
    <3>2. EventDestination[job.step][job.branch] \in Target
      BY <1>2, <3>1, DestinationType
    <3> QED BY <1>5, <1>10, <2>3, <3>2 DEF ProcessWaitUntil, TypeOK, JobsType
  <2> QED BY <1>10, <2>1, <2>2, <2>3 DEF ProcessWaitUntil
<1>11. CASE FailBroken(i)
  BY <1>11 DEF FailBroken, TypeOK
<1> QED BY <1>6, <1>7, <1>8, <1>9, <1>10, <1>11 DEF Process

\* So do the acknowledgement and the faults that strike a processor.
LEMMA JobFaultTyped ==
  ASSUME TypeOK, NEW i \in JobIds,
         Ack(i) \/ FailSound(i) \/ Interrupt(i) \/ Redeliver(i) \/ Duplicate(i)
  PROVE  TypeOK'
<1>1. CASE Ack(i)
  BY <1>1 DEF Ack, TypeOK
<1>2. ASSUME jobs[i].phase = "ready", PartialMessage(jobs[i])
      PROVE  sends' \in [Customers -> 0..MaxSends] /\ requeued' \subseteq RequeueRow
  <2>1. jobs[i].customer \in Customers /\ jobs[i].step \in Steps
    BY <1>2, BusySlot DEF TypeOK, JobsType, Job
  <2>2. Sent(jobs[i].customer) \in [Customers -> 0..MaxSends]
    BY <2>1, SentType
  <2>3. requeued \subseteq RequeueRow
    BY DEF TypeOK
  <2> QED BY <1>2, <2>1, <2>2, <2>3, PutOffType DEF PartialMessage, TypeOK
<1>3. CASE FailSound(i)
  BY <1>2, <1>3, TraversalAssumption DEF FailSound, TypeOK
<1>4. CASE Interrupt(i)
  BY <1>2, <1>4, TraversalAssumption DEF Interrupt, TypeOK
<1>5. CASE Redeliver(i)
  <2>1. jobs[i] \in Job
    BY <1>5, BusySlot DEF Redeliver, TypeOK, JobsType
  <2>2. [jobs[i] EXCEPT !.phase = "ready"] \in Job
    BY <2>1 DEF Job
  <2>3. jobs' \in [JobIds -> Job \cup {NoJob}]
    BY <1>5, <2>2 DEF Redeliver, TypeOK
  <2>4. redeliveries' \in 0..MaxRedeliveries
    BY <1>5, TraversalAssumption DEF Redeliver, TypeOK
  <2> QED BY <1>5, <2>3, <2>4 DEF Redeliver, TypeOK
<1>6. CASE Duplicate(i)
  <2>1. jobs[i] \in Job /\ Publish(jobs[i])
    BY <1>6, BusySlot DEF Duplicate, TypeOK, JobsType
  <2>2. jobs' \in [JobIds -> Job \cup {NoJob}]
    BY <2>1, PublishType DEF TypeOK, JobsType
  <2>3. redeliveries' \in 0..MaxRedeliveries
    BY <1>6, TraversalAssumption DEF Duplicate, TypeOK
  <2> QED BY <1>6, <2>2, <2>3 DEF Duplicate, TypeOK
<1> QED BY <1>1, <1>3, <1>4, <1>5, <1>6

\* So do the steps of a run of minuteTasks and its death.
LEMMA CronTyped ==
  ASSUME TypeOK, NEW k \in Crons, Minute(k) \/ CronCrash(k)
  PROVE  TypeOK'
<1>1. cron[k] \in CronRun
  BY DEF TypeOK
<1>2. IdleCron \in CronRun
  BY DEF IdleCron, CronRun
<1>3. \A c \in Customers : Lock(row[c]) \in Location
  BY LockType DEF TypeOK
<1>4. CASE CronSelect(k)
  <2> DEFINE claims == {[customer |-> c, location |-> row[c]] :
                          c \in {x \in enrolled : Selected(x)}}
  <2>1. claims \subseteq Claim
    BY DEF TypeOK, Claim
  <2>2. cron' = [cron EXCEPT ![k].phase = "selected", ![k].claims = claims]
    BY <1>4 DEF CronSelect
  <2>3. [cron[k] EXCEPT !.phase = "selected", !.claims = claims] \in CronRun
    BY <1>1, <2>1 DEF CronRun
  <2>4. cron' \in [Crons -> CronRun]
    BY <2>2, <2>3 DEF TypeOK
  <2> QED BY <1>4, <2>4 DEF CronSelect, TypeOK
<1>5. CASE CronLock(k)
  <2>1. row' \in [Customers -> Location]
    BY <1>3, <1>5 DEF CronLock, TypeOK
  <2>2. CASE cron' = [cron EXCEPT ![k].phase = "locked"] /\ UNCHANGED losses
    <3>1. [cron[k] EXCEPT !.phase = "locked"] \in CronRun
      BY <1>1 DEF CronRun
    <3> QED BY <1>5, <2>1, <2>2, <3>1 DEF CronLock, TypeOK
  <2>3. ASSUME NEW claim \in cron[k].claims,
               cron' = [cron EXCEPT ![k].phase = "locked",
                                    ![k].claims = @ \ {claim}],
               losses < MaxLosses, losses' = losses + 1
        PROVE  TypeOK'
    <3>1. [cron[k] EXCEPT !.phase = "locked", !.claims = @ \ {claim}] \in CronRun
      BY <1>1 DEF CronRun
    <3>2. cron' \in [Crons -> CronRun]
      BY <2>3, <3>1 DEF TypeOK
    <3>3. losses' \in 0..MaxLosses
      BY <2>3, TraversalAssumption DEF TypeOK
    <3> QED BY <1>5, <2>1, <3>2, <3>3 DEF CronLock, TypeOK
  <2> QED BY <1>5, <2>2, <2>3 DEF CronLock
<1>6. CASE CronPublish(k)
  <2>1. PICK claim \in cron[k].claims :
          /\ Publish(StepJob(claim.customer, claim.location.step, TimeBranch,
                             claim.location))
          /\ cron' = [cron EXCEPT ![k].claims = @ \ {claim}]
    BY <1>6 DEF CronPublish
  <2>2. claim \in Claim
    BY <1>1, <2>1 DEF CronRun
  <2>3. StepJob(claim.customer, claim.location.step, TimeBranch, claim.location)
          \in Job
    BY <2>2, StepJobType DEF Claim, Location, TimeBranch
  <2>4. jobs' \in JobsType
    BY <2>1, <2>3, PublishType DEF TypeOK, JobsType
  <2>5. [cron[k] EXCEPT !.claims = @ \ {claim}] \in CronRun
    BY <1>1 DEF CronRun
  <2>6. cron' \in [Crons -> CronRun]
    BY <2>1, <2>5 DEF TypeOK
  <2> QED BY <1>6, <2>4, <2>6 DEF CronPublish, TypeOK, JobsType
<1>7. CASE CronDone(k)
  BY <1>2, <1>7 DEF CronDone, TypeOK
<1>8. CASE RequeueSelect(k)
  <2>1. PICK due \in SUBSET requeued \ {{}} :
          cron' = [cron EXCEPT ![k].phase = "requeueing", ![k].due = due]
    BY <1>8 DEF RequeueSelect
  <2>2. [cron[k] EXCEPT !.phase = "requeueing", !.due = due] \in CronRun
    BY <1>1, <2>1 DEF CronRun, TypeOK
  <2>3. cron' \in [Crons -> CronRun]
    BY <2>1, <2>2 DEF TypeOK
  <2> QED BY <1>8, <2>3 DEF RequeueSelect, TypeOK
<1>9. CASE RequeuePublish(k)
  <2>1. PICK r \in cron[k].due :
          /\ Publish([StepJob(r.customer, r.step, TimeBranch, Blank)
                        EXCEPT !.malformed = TRUE])
          /\ cron' = [cron EXCEPT ![k].due = @ \ {r}, ![k].taken = @ \cup {r}]
    BY <1>9 DEF RequeuePublish
  <2>2. r \in RequeueRow
    BY <1>1, <2>1 DEF CronRun
  <2>3. StepJob(r.customer, r.step, TimeBranch, Blank) \in Job
    BY <2>2, StepJobType, CreatedType DEF RequeueRow, TimeBranch
  <2>4. [StepJob(r.customer, r.step, TimeBranch, Blank)
           EXCEPT !.malformed = TRUE] \in Job
    BY <2>3 DEF Job
  <2>5. jobs' \in JobsType
    BY <2>1, <2>4, PublishType DEF TypeOK, JobsType
  <2>6. [cron[k] EXCEPT !.due = @ \ {r}, !.taken = @ \cup {r}] \in CronRun
    BY <1>1, <2>2 DEF CronRun
  <2>7. cron' \in [Crons -> CronRun]
    BY <2>1, <2>6 DEF TypeOK
  <2> QED BY <1>9, <2>5, <2>7 DEF RequeuePublish, TypeOK, JobsType
<1>10. CASE RequeueCommit(k)
  BY <1>2, <1>3, <1>10 DEF RequeueCommit, TypeOK
<1>11. CASE CronCrash(k)
  BY <1>2, <1>11, TraversalAssumption DEF CronCrash, TypeOK
<1> QED BY <1>4, <1>5, <1>6, <1>7, <1>8, <1>9, <1>10, <1>11 DEF Minute

\* So do the steps of an event's handler and its death.
LEMMA EventTyped ==
  ASSUME TypeOK, NEW e \in Events, HandleEvent(e) \/ EventRedeliver(e)
  PROVE  TypeOK'
<1> DEFINE c == EventCustomer[e]
<1>1. event[e] \in EventRun /\ c \in Customers /\ Blank \in Location
  BY TraversalAssumption, CreatedType DEF TypeOK
<1>2. row[c] \in Location /\ event[e].location \in Location
  BY <1>1 DEF TypeOK, EventRun
<1>3. ASSUME NEW run \in EventRun, event' = [event EXCEPT ![e] = run]
      PROVE  event' \in [Events -> EventRun]
  BY <1>3 DEF TypeOK
<1>4. CASE EventRead(e)
  <2>1. CASE c \in enrolled
    <3>1. [phase |-> "read", location |-> row[c]] \in EventRun
      BY <1>2 DEF EventRun
    <3> QED BY <1>3, <1>4, <2>1, <3>1 DEF EventRead, EventUnchanged, TypeOK
  <2>2. CASE c \notin enrolled
    <3>1. [event[e] EXCEPT !.phase = "done"] \in EventRun
      BY <1>1 DEF EventRun
    <3> QED BY <1>3, <1>4, <2>2, <3>1 DEF EventRead, EventUnchanged, TypeOK
  <2> QED BY <2>1, <2>2
<1>5. CASE EventLock(e)
  <2>1. Lock(row[c]) \in Location
    BY <1>2, LockType
  <2>2. [event[e] EXCEPT !.phase = "locked"] \in EventRun
    BY <1>1 DEF EventRun
  <2> QED BY <1>5, <2>1, <2>2 DEF EventLock, EventUnchanged, TypeOK
<1>6. CASE EventRetry(e)
  BY <1>1, <1>6 DEF EventRetry, EventUnchanged, EventRun, TypeOK
<1>7. CASE EventMatch(e)
  <2>1. StepJob(c, event[e].location.step, LastBranch[e], event[e].location)
          \in Job
    BY <1>1, <1>2, StepJobType, TraversalAssumption DEF Location
  <2>2. jobs' \in JobsType
    BY <1>7, <2>1, PublishType DEF EventMatch, TypeOK, JobsType
  <2>3. [phase |-> "done", location |-> Blank] \in EventRun
    BY <1>1 DEF EventRun
  <2> QED BY <1>7, <2>2, <2>3 DEF EventMatch, EventUnchanged, TypeOK, JobsType
<1>8. CASE EventMiss(e)
  <2>1. Unlock(event[e].location, event[e].location.step) \in Location
    BY <1>2, UnlockType DEF Location
  <2>2. [phase |-> "done", location |-> Blank] \in EventRun
    BY <1>1 DEF EventRun
  <2> QED BY <1>8, <2>1, <2>2 DEF EventMiss, EventUnchanged, TypeOK
<1>9. CASE EventAck(e)
  <2>1. [event[e] EXCEPT !.phase = "acked"] \in EventRun
    BY <1>1 DEF EventRun
  <2> QED BY <1>9, <2>1 DEF EventAck, EventUnchanged, TypeOK
<1>10. CASE EventRedeliver(e)
  <2>1. [phase |-> "queued", location |-> Blank] \in EventRun
    BY <1>1 DEF EventRun
  <2>2. event' \in [Events -> EventRun]
    BY <1>10, <2>1 DEF EventRedeliver, TypeOK
  <2>3. redeliveries' \in 0..MaxRedeliveries
    BY <1>10, TraversalAssumption DEF EventRedeliver, TypeOK
  <2> QED BY <1>10, <2>2, <2>3 DEF EventRedeliver, EventUnchanged, TypeOK
<1> QED BY <1>4, <1>5, <1>6, <1>7, <1>8, <1>9, <1>10 DEF HandleEvent

\* So does the passing of time.
LEMMA TickTyped ==
  ASSUME TypeOK, Tick
  PROVE  TypeOK'
<1>1. row' \in [Customers -> Location]
  BY AgedType DEF Tick, TypeOK
<1>2. jobs' \in [JobIds -> Job \cup {NoJob}]
  <2> SUFFICES ASSUME NEW i \in JobIds
               PROVE  jobs'[i] \in Job \cup {NoJob}
    BY DEF Tick
  <2>1. CASE jobs[i].phase = "free" \/ jobs[i].malformed
    BY <2>1 DEF Tick, TypeOK
  <2>2. CASE ~(jobs[i].phase = "free" \/ jobs[i].malformed)
    <3>1. jobs[i] \in Job /\ jobs[i].location \in Location
      BY <2>2, BusySlot DEF TypeOK, JobsType, Job
    <3>2. Aged(jobs[i].location) \in Location
      BY <3>1, AgedType
    <3>3. [jobs[i] EXCEPT !.location = Aged(jobs[i].location)] \in Job
      BY <3>1, <3>2 DEF Job
    <3> QED BY <2>2, <3>3 DEF Tick
  <2> QED BY <2>1, <2>2
<1>3. cron' \in [Crons -> CronRun]
  <2> SUFFICES ASSUME NEW k \in Crons
               PROVE  cron'[k] \in CronRun
    BY DEF Tick
  <2> DEFINE aged == {[claim EXCEPT !.location = Aged(claim.location)] :
                        claim \in cron[k].claims}
  <2>1. cron[k] \in CronRun
    BY DEF TypeOK
  <2>2. aged \subseteq Claim
    <3> SUFFICES ASSUME NEW claim \in cron[k].claims
                 PROVE  [claim EXCEPT !.location = Aged(claim.location)] \in Claim
      OBVIOUS
    <3>1. claim \in Claim
      BY <2>1 DEF CronRun
    <3>2. Aged(claim.location) \in Location
      BY <3>1, AgedType DEF Claim
    <3> QED BY <3>1, <3>2 DEF Claim
  <2>3. cron'[k] = [cron[k] EXCEPT !.claims = aged]
    BY DEF Tick
  <2>4. [cron[k] EXCEPT !.claims = aged] \in CronRun
    BY <2>1, <2>2 DEF CronRun
  <2> QED BY <2>3, <2>4
<1>4. event' \in [Events -> EventRun]
  <2> SUFFICES ASSUME NEW e \in Events
               PROVE  event'[e] \in EventRun
    BY DEF Tick
  <2>1. event[e] \in EventRun /\ event[e].location \in Location
    BY DEF TypeOK, EventRun
  <2>2. [event[e] EXCEPT !.location = Aged(event[e].location)] \in EventRun
    BY <2>1, AgedType DEF EventRun
  <2> QED BY <2>1, <2>2 DEF Tick
<1> QED BY <1>1, <1>2, <1>3, <1>4 DEF Tick, TypeOK

\* Nothing that happens to a journey, its faults included, leaves the types.
THEOREM TypeInvariant == Spec => []TypeOK
<1>1. Init => TypeOK
  BY CreatedType, TraversalAssumption
     DEF Init, TypeOK, CronRun, IdleCron, EventRun
<1>2. TypeOK /\ [Next]_vars => TypeOK'
  <2> SUFFICES ASSUME TypeOK, [Next]_vars
               PROVE  TypeOK'
    OBVIOUS
  <2>1. CASE UNCHANGED vars
    BY <2>1 DEF vars, TypeOK
  <2>2. CASE Next
    BY <2>2, EnrollmentTyped, ProcessTyped, JobFaultTyped, CronTyped, EventTyped,
       TickTyped DEF Next, Fault
  <2> QED BY <2>1, <2>2
<1> QED BY <1>1, <1>2, PTL DEF Spec

-----------------------------------------------------------------------------
(* Where customers rest.                                                   *)

Places == RestingPlaces \cup {StartStep}

\* Whether a processor of step s may come to destination d.
Leads(s, d) ==
  \/ d \in Destination[s]
  \/ \E b \in DOMAIN EventDestination[s] : d = EventDestination[s][b]

\* A processor that does not go on leaves the customer in a resting place:
\* the destination is time based, or the lookup found nothing.
LEMMA RestsInRestingPlace ==
  ASSUME NEW s \in Steps, NEW d \in Target, ~MovesOn(d), Leads(s, d)
  PROVE  /\ RestsIn(s, d) \in Steps \cap RestingPlaces
         /\ RestsIn(s, d) = s \/ Leads(s, RestsIn(s, d))
<1>1. CASE d = NoStep
  BY <1>1 DEF RestsIn, RestingPlaces, MayEnd, Leads
<1>2. CASE d \in TimeBased
  BY <1>2, GraphAssumption DEF RestsIn, RestingPlaces, TimeBased
<1> QED BY <1>1, <1>2 DEF MovesOn, Target

(***************************************************************************)
(* What a processor does with the customer: it hands the customer on to a  *)
(* job for a following step, which does not hold customers, and the row is *)
(* left alone;                                                             *)
(***************************************************************************)
HandsOn(i) ==
  /\ \E job \in Job : /\ HandledAndPublish(i, job)
                      /\ job.phase = "ready"
                      /\ job.customer = jobs[i].customer
                      /\ ~job.malformed
                      /\ job.step \notin TimeBased
                      /\ Leads(jobs[i].step, job.step)
  /\ UNCHANGED row

\* or it is over, and unlocks the row in a resting place, the job's step or
\* a following one;
Stops(i) ==
  /\ Handled(i)
  /\ \E l \in Location :
       /\ ~l.locked
       /\ l.step \in RestingPlaces
       /\ l.step = jobs[i].step \/ Leads(jobs[i].step, l.step)
       /\ row' = [row EXCEPT ![jobs[i].customer] = l]

\* or the job is given up, and the row stays as it is.
GivesUp(i) == jobs' = [jobs EXCEPT ![i] = NoJob] /\ UNCHANGED row

LEMMA ProceedEffect ==
  ASSUME TypeOK, NEW i \in JobIds, jobs[i].phase = "ready",
         NEW location \in Location, NEW d \in Target, Leads(jobs[i].step, d),
         ProceedWith(i, location, d)
  PROVE  HandsOn(i) \/ Stops(i)
<1>1. jobs[i] \in Job /\ jobs[i].customer \in Customers /\ jobs[i].step \in Steps
  BY BusySlot DEF TypeOK, JobsType, Job
<1>2. CASE MovesOn(d)
  <2>1. StepJob(jobs[i].customer, d, TimeBranch, location) \in Job
    <3>1. d \in Steps /\ TimeBranch \in Int
      BY <1>2 DEF MovesOn, TimeBranch
    <3> QED BY <1>1, <3>1, StepJobType
  <2> DEFINE job == StepJob(jobs[i].customer, d, TimeBranch, location)
  <2>2. /\ job.phase = "ready"
        /\ job.customer = jobs[i].customer
        /\ job.step = d
        /\ ~job.malformed
    BY DEF StepJob
  <2> QED BY <1>2, <2>1, <2>2 DEF ProceedWith, HandsOn, MovesOn
<1>3. CASE ~MovesOn(d)
  <2> DEFINE s == RestsIn(jobs[i].step, d)
             l == Unlock(location, s)
  <2>1. /\ s \in Steps \cap RestingPlaces
        /\ s = jobs[i].step \/ Leads(jobs[i].step, s)
    BY <1>1, <1>3, RestsInRestingPlace
  <2>2. l \in Location /\ l.step = s
    BY <2>1, UnlockType
  <2>3. ~l.locked
    BY DEF Unlock
  <2> QED BY <1>3, <2>1, <2>2, <2>3 DEF ProceedWith, Stops
<1> QED BY <1>2, <1>3

LEMMA StayEffect ==
  ASSUME TypeOK, NEW i \in JobIds, jobs[i].phase = "ready", Stay(i),
         Type[jobs[i].step] \in
           {"exit", "message", "timeDelay", "timeWindow", "waitUntil"}
  PROVE  Stops(i)
<1> DEFINE l == Unlock(jobs[i].location, jobs[i].step)
<1>1. jobs[i].step \in Steps /\ jobs[i].location \in Location
  BY BusySlot DEF TypeOK, JobsType, Job
<1>2. jobs[i].step \in RestingPlaces
  BY <1>1 DEF RestingPlaces, TimeBased, MessageSteps
<1>3. l \in Location /\ l.step = jobs[i].step
  BY <1>1, UnlockType
<1>4. ~l.locked
  BY DEF Unlock
<1> QED BY <1>2, <1>3, <1>4 DEF Stay, Stops

LEMMA ProcessEffect ==
  ASSUME TypeOK, NEW i \in JobIds, Process(i)
  PROVE  /\ jobs[i].phase = "ready"
         /\ UNCHANGED <<enrolled, starting, cron, event>>
         /\ \/ ~jobs[i].malformed /\ (HandsOn(i) \/ Stops(i))
            \/ GivesUp(i)
<1> DEFINE job == jobs[i]
<1>1. job.phase = "ready" /\ UNCHANGED <<enrolled, starting, cron, event>>
  BY DEF Process, ProcessForward, ProcessExit, ProcessMessage, ProcessTimed,
         ProcessWaitUntil, FailBroken, Running
<1>2. job.location \in Location /\ job.step \in Steps
  BY <1>1, BusySlot DEF TypeOK, JobsType, Job
<1>3. ASSUME NEW d \in Destination[job.step], NEW location \in Location,
             ProceedWith(i, location, d)
      PROVE  HandsOn(i) \/ Stops(i)
  <2>1. d \in Target /\ Leads(job.step, d)
    BY <1>2, DestinationType DEF Leads
  <2> QED BY <1>1, <1>3, <2>1, ProceedEffect
<1>4. Marked(job.location) \in Location
  BY <1>2, MarkedType
<1>5. CASE ProcessForward(i)
  BY <1>1, <1>2, <1>3, <1>5 DEF ProcessForward, Proceed, Running
<1>6. CASE ProcessExit(i)
  BY <1>1, <1>6, StayEffect DEF ProcessExit, Running
<1>7. CASE ProcessMessage(i)
  <2>1. CASE SendMessage(i)
    BY <1>1, <1>3, <1>4, <1>7, <2>1 DEF SendMessage, ProcessMessage, Running
  <2>2. CASE SkipMessage(i)
    BY <1>1, <1>2, <1>3, <1>7, <2>2 DEF SkipMessage, Proceed, ProcessMessage, Running
  <2>3. CASE HoldMessage(i) \/ RequeueMessage(i)
    BY <1>1, <1>7, <2>3, StayEffect
       DEF ProcessMessage, HoldMessage, RequeueMessage, Running
  <2> QED BY <1>7, <2>1, <2>2, <2>3 DEF ProcessMessage
<1>8. CASE ProcessTimed(i)
  <2>1. CASE Stay(i)
    BY <1>1, <1>8, <2>1, StayEffect DEF ProcessTimed, Running
  <2>2. CASE \E d \in Destination[job.step] : Proceed(i, d)
    BY <1>1, <1>2, <1>3, <1>8, <2>2 DEF Proceed, ProcessTimed, Running
  <2> QED BY <1>8, <2>1, <2>2 DEF ProcessTimed
<1>9. CASE ProcessWaitUntil(i)
  <2>1. CASE Stay(i)
    BY <1>1, <1>9, <2>1, StayEffect DEF ProcessWaitUntil, Running
  <2>2. CASE \E d \in Destination[job.step] : Proceed(i, d)
    BY <1>1, <1>2, <1>3, <1>9, <2>2 DEF Proceed, ProcessWaitUntil, Running
  <2>3. CASE ByEvent(job) /\ Proceed(i, EventDestination[job.step][job.branch])
    <3> DEFINE d == EventDestination[job.step][job.branch]
    <3>1. job.branch \in DOMAIN EventDestination[job.step]
      BY <1>9, <2>3 DEF ProcessWaitUntil, Running, BranchMissing, Branches
    <3>2. d \in Target /\ Leads(job.step, d)
      BY <1>2, <3>1, DestinationType DEF Leads
    <3>3. ProceedWith(i, job.location, d)
      BY <2>3 DEF Proceed
    <3>4. HandsOn(i) \/ Stops(i)
      BY <1>1, <1>2, <3>2, <3>3, ProceedEffect
    <3> QED BY <1>1, <1>9, <3>4 DEF ProcessWaitUntil, Running
  <2> QED BY <1>9, <2>1, <2>2, <2>3 DEF ProcessWaitUntil
<1>10. CASE FailBroken(i)
  BY <1>1, <1>10 DEF FailBroken, GivesUp
<1> QED BY <1>1, <1>5, <1>6, <1>7, <1>8, <1>9, <1>10 DEF Process

\* Every step names a resting place or the start step in every row, and so
\* does every object an event may unlock a row from.
RestInv ==
  /\ \A c \in Customers : row[c].step \in Places
  /\ \A e \in Events : event[e].location.step \in Places

LEMMA RestInvKept ==
  ASSUME TypeOK, RestInv, [Next]_vars
  PROVE  RestInv'
<1> USE DEF RestInv
<1>1. Created.step \in Places /\ Blank.step \in Places
  BY DEF Created, Blank, Places
<1>2. ASSUME NEW c \in Customers
      PROVE  /\ row[c] \in Location
             /\ Lock(row[c]).step \in Places
             /\ Aged(row[c]).step \in Places
  BY LockType, AgedType DEF TypeOK
<1>3. ASSUME NEW c \in Customers, Enroll(c) \/ StartJourney(c)
      PROVE  RestInv'
  BY <1>1, <1>3 DEF Enroll, StartJourney, TypeOK
<1>4. ASSUME NEW i \in JobIds, Process(i)
      PROVE  RestInv'
  <2>1. UNCHANGED event
    BY <1>4, ProcessEffect
  <2>2. HandsOn(i) \/ Stops(i) \/ GivesUp(i)
    BY <1>4, ProcessEffect
  <2> QED BY <2>1, <2>2 DEF HandsOn, Stops, GivesUp, TypeOK, Places
<1>5. ASSUME NEW i \in JobIds,
             Ack(i) \/ FailSound(i) \/ Interrupt(i) \/ Redeliver(i) \/ Duplicate(i)
      PROVE  RestInv'
  BY <1>5 DEF Ack, FailSound, Interrupt, Redeliver, Duplicate
<1>6. ASSUME NEW k \in Crons, Minute(k) \/ CronCrash(k)
      PROVE  RestInv'
  <2>1. UNCHANGED event
    BY <1>6 DEF Minute, CronSelect, CronLock, CronPublish, CronDone,
                RequeueSelect, RequeuePublish, RequeueCommit, CronCrash
  <2>2. \/ UNCHANGED row
        \/ \E S : row' = [c \in Customers |->
                             IF c \in S THEN Lock(row[c]) ELSE row[c]]
    BY <1>6 DEF Minute, CronSelect, CronLock, CronPublish, CronDone,
                RequeueSelect, RequeuePublish, RequeueCommit, CronCrash
  <2> QED BY <1>2, <2>1, <2>2
<1>7. ASSUME NEW e \in Events, HandleEvent(e) \/ EventRedeliver(e)
      PROVE  RestInv'
  <2> DEFINE c == EventCustomer[e]
  <2>1. c \in Customers /\ event[e] \in EventRun /\ event[e].location \in Location
    BY TraversalAssumption DEF TypeOK, EventRun
  <2>2. CASE EventRead(e)
    BY <2>1, <2>2 DEF EventRead, EventUnchanged, TypeOK, EventRun
  <2>3. CASE EventLock(e)
    BY <1>2, <2>1, <2>3 DEF EventLock, EventUnchanged, TypeOK, EventRun
  <2>4. CASE EventMiss(e)
    <3>1. Unlock(event[e].location, event[e].location.step).step \in Places
      BY <2>1, UnlockType DEF Location
    <3> QED BY <1>1, <2>1, <2>4, <3>1 DEF EventMiss, EventUnchanged, TypeOK
  <2>5. CASE EventRetry(e) \/ EventMatch(e) \/ EventRedeliver(e)
    BY <1>1, <2>5 DEF EventRetry, EventMatch, EventRedeliver, EventUnchanged, TypeOK
  <2>6. CASE EventAck(e)
    BY <2>1, <2>6 DEF EventAck, EventUnchanged, TypeOK, EventRun
  <2> QED BY <1>7, <2>2, <2>3, <2>4, <2>5, <2>6 DEF HandleEvent
<1>8. CASE Tick
  <2>1. \A e \in Events : Aged(event[e].location).step \in Places
    BY AgedType DEF TypeOK, EventRun
  <2> QED BY <1>2, <1>8, <2>1 DEF Tick, TypeOK, EventRun
<1>9. CASE UNCHANGED vars
  BY <1>9 DEF vars
<1> QED BY <1>3, <1>4, <1>5, <1>6, <1>7, <1>8, <1>9 DEF Next, Fault

(***************************************************************************)
(* Whatever is lost, repeated, raced or timed out, and whatever journey it *)
(* is, no row ever names a step that customers only pass through.          *)
(***************************************************************************)
THEOREM RowsAtRest == Spec => []RowAtRest
<1>1. Init => RestInv
  BY DEF Init, RestInv, Places, Blank, Created
<1>2. TypeOK /\ RestInv /\ [Next]_vars => RestInv'
  BY RestInvKept
<1>3. TypeOK /\ RestInv => RowAtRest
  BY DEF TypeOK, RestInv, RowAtRest, Places
<1> QED BY <1>1, <1>2, <1>3, TypeInvariant, PTL DEF Spec

\* If locks outlive their holders, whoever reads a row unlocked reads it in
\* a resting place, and only unlocked rows are locked by an event.
UnlockedInv ==
  /\ \A c \in enrolled : ~row[c].locked => row[c].step \in RestingPlaces
  /\ \A e \in Events :
       /\ event[e].phase \in {"read", "locked"} /\ ~event[e].location.locked
            => event[e].location.step \in RestingPlaces
       /\ event[e].phase = "locked" => ~event[e].location.locked

LEMMA UnlockedInvKept ==
  ASSUME ~LockExpires, TypeOK, UnlockedInv, [Next]_vars
  PROVE  UnlockedInv'
<1> USE DEF UnlockedInv
<1>1. ASSUME NEW c \in Customers
      PROVE  /\ row[c] \in Location
             /\ Lock(row[c]).locked
             /\ Aged(row[c]).step = row[c].step
             /\ Aged(row[c]).locked = row[c].locked
  BY LockType, AgedType DEF TypeOK
<1>2. enrolled \subseteq Customers
  BY DEF TypeOK
<1>3. ASSUME NEW c \in Customers, Enroll(c) \/ StartJourney(c)
      PROVE  UnlockedInv'
  BY <1>3 DEF Enroll, StartJourney, TypeOK, Created
<1>4. ASSUME NEW i \in JobIds, Process(i)
      PROVE  UnlockedInv'
  <2>1. UNCHANGED <<event, enrolled>>
    BY <1>4, ProcessEffect
  <2>2. HandsOn(i) \/ Stops(i) \/ GivesUp(i)
    BY <1>4, ProcessEffect
  <2> QED BY <1>2, <2>1, <2>2 DEF HandsOn, Stops, GivesUp, TypeOK
<1>5. ASSUME NEW i \in JobIds,
             Ack(i) \/ FailSound(i) \/ Interrupt(i) \/ Redeliver(i) \/ Duplicate(i)
      PROVE  UnlockedInv'
  BY <1>5 DEF Ack, FailSound, Interrupt, Redeliver, Duplicate
<1>6. ASSUME NEW k \in Crons, Minute(k) \/ CronCrash(k)
      PROVE  UnlockedInv'
  <2>1. UNCHANGED <<event, enrolled>>
    BY <1>6 DEF Minute, CronSelect, CronLock, CronPublish, CronDone,
                RequeueSelect, RequeuePublish, RequeueCommit, CronCrash
  <2>2. \/ UNCHANGED row
        \/ \E S : row' = [c \in Customers |->
                             IF c \in S THEN Lock(row[c]) ELSE row[c]]
    BY <1>6 DEF Minute, CronSelect, CronLock, CronPublish, CronDone,
                RequeueSelect, RequeuePublish, RequeueCommit, CronCrash
  <2> QED BY <1>1, <1>2, <2>1, <2>2
<1>7. ASSUME NEW e \in Events, HandleEvent(e) \/ EventRedeliver(e)
      PROVE  UnlockedInv'
  <2> DEFINE c == EventCustomer[e]
  <2>1. c \in Customers /\ event[e] \in EventRun /\ event[e].location \in Location
    BY TraversalAssumption DEF TypeOK, EventRun
  <2>2. UNCHANGED enrolled
    BY <1>7 DEF HandleEvent, EventRead, EventLock, EventRetry, EventMatch,
                EventMiss, EventAck, EventRedeliver, EventUnchanged
  <2>3. CASE EventRead(e)
    BY <2>1, <2>2, <2>3 DEF EventRead, TypeOK, EventRun
  <2>4. CASE EventLock(e)
    <3>1. ~event[e].location.locked
      BY <2>4 DEF EventLock, StillMoving
    <3> QED BY <1>1, <1>2, <2>1, <2>2, <2>4, <3>1 DEF EventLock, TypeOK, EventRun
  <2>5. CASE EventMiss(e)
    <3>1. event[e].location.step \in RestingPlaces
      BY <2>5 DEF EventMiss
    <3>2. Unlock(event[e].location, event[e].location.step).step \in RestingPlaces
      BY <2>1, <3>1, UnlockType DEF Location
    <3> QED BY <1>2, <2>1, <2>2, <2>5, <3>2 DEF EventMiss, TypeOK
  <2>6. CASE EventRetry(e) \/ EventMatch(e) \/ EventRedeliver(e)
    BY <2>2, <2>6 DEF EventRetry, EventMatch, EventRedeliver, TypeOK
  <2>7. CASE EventAck(e)
    BY <2>1, <2>2, <2>7 DEF EventAck, TypeOK, EventRun
  <2> QED BY <1>7, <2>3, <2>4, <2>5, <2>6, <2>7 DEF HandleEvent
<1>8. CASE Tick
  <2>1. ASSUME NEW e \in Events
        PROVE  /\ event'[e].phase = event[e].phase
               /\ event'[e].location.step = event[e].location.step
               /\ event'[e].location.locked = event[e].location.locked
    <3>1. event[e] \in EventRun /\ event[e].location \in Location
      BY DEF TypeOK, EventRun
    <3>2. event'[e] = event[e] \/
            event'[e] = [event[e] EXCEPT !.location = Aged(event[e].location)]
      BY <1>8 DEF Tick
    <3> QED BY <3>1, <3>2, AgedType DEF EventRun
  <2> QED BY <1>1, <1>2, <1>8, <2>1 DEF Tick
<1>9. CASE UNCHANGED vars
  BY <1>9 DEF vars
<1> QED BY <1>3, <1>4, <1>5, <1>6, <1>7, <1>8, <1>9 DEF Next, Fault

(***************************************************************************)
(* If no lock expires while its holder works, a customer who is not moving *)
(* is always in a resting place: whatever races, losses and repeated       *)
(* deliveries there are, nobody is left in a step that is passed through,  *)
(* the start step included.                                                *)
(***************************************************************************)
THEOREM UnlockedRowsAtRest == ASSUME ~LockExpires PROVE Spec => []UnlockedAtRest
<1>1. Init => UnlockedInv
  BY DEF Init, UnlockedInv
<1>2. TypeOK /\ UnlockedInv /\ [Next]_vars => UnlockedInv'
  BY UnlockedInvKept
<1>3. UnlockedInv => UnlockedAtRest
  BY DEF UnlockedInv, UnlockedAtRest
<1> QED BY <1>1, <1>2, <1>3, TypeInvariant, PTL DEF Spec

=============================================================================
