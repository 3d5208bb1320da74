# Laudspeaker's journey engine in TLA+

Laudspeaker moves customers through journeys. A journey is a graph of steps; a
customer's place in it is one row of `journey_location`; and four kinds of actor,
in several processes, move that row from objects they read earlier, through
queues that deliver at least once. This directory models that core and what it
stands on: how a journey is started, paused and stopped, how its audience enters,
how segments are filled and kept up, how requests find the customer they are about,
how messages are sent under limits, and how a worker runs and retries jobs. TLC
checks small instances and TLAPS proves the main properties for every value of the
constants.

Paths below are relative to `src/packages/server/src/`.

## 1. Inventory

The server runs as three process types (`LAUDSPEAKER_PROCESS_TYPE`): WEB serves
the API, QUEUE runs every processor, CRON runs the scheduled tasks. They share
PostgreSQL (journeys, steps, locations, requeues, segments), MongoDB (customers,
events), Redis (cache, limits), RabbitMQ (jobs), and ClickHouse/Kafka (message events,
customers' changes).

| Component | State it keeps | Operations | What is hard | What makes it correct | Modules |
|---|---|---|---|---|---|
| **Journey locations** `api/journeys/journey-locations.service.ts` | a row per (journey, customer): step, stepEntry, moveStarted, messageSent | createAndLock(Bulk), lock, unlock, findAndLock, findForWrite, findAllStaticCustomersInTimeBasedSteps | moveStarted is a lock that is tested on an object read earlier and written without a condition; unlock writes back the object's fields; locks expire | one mover per customer; a row never names a step that is only passed through; marks are not lost | JourneyLocations, JourneyTraversal |
| **Step processors** `api/steps/processors/*` | none of their own: the job, with a copy of the location | process, one per step type | processing again after a crash; the job's copy may be stale; failing half way leaves the row locked | a customer leaves a step only by its rules; every move ends in a place that holds customers | JourneyTraversal |
| **Minute cron** `app.cron.service.ts` minuteTasks | a batch of claimed rows, the requeue table | select, lock, commit, publish; requeue | the commit precedes the publications; runs overlap; errors are swallowed | whoever is locked has a job; delays are honoured; a requeued message goes out | JourneyTraversal |
| **Event processor** `api/events/processors/events.processor.ts` | the location it read | handleEvent for waitUntil steps | read, lock and publish are three steps; requeues itself while the customer moves | an event and the cron never move one customer together; a lock it leaves behind is taken over | JourneyTraversal |
| **Work orchestrator, producer** `common/services/queue/classes/*` | a job's delivery count, unacknowledged messages | publish, deliver, process, complete, retry, fail, acknowledge | crash between queueing again and acknowledging; no publisher confirms; a closed connection under a live process | no job is lost; one is given up only after its retries; without faults it is processed once | WorkOrchestrator |
| **Enrollment** `api/journeys/processors/*`, `steps.service.ts` triggerStart | rows created locked, START jobs with a range each | count, copy page by page, commit, publish; halve, find, enter | publication after the commit; the audience listed live; the limit read while rows are added; retries of what was committed | everyone with a row enters, once, and with the row; no more than the maximum enter | Enrollment |
| **Entry timing** `app.cron.service.ts` handleEntryTiming | enrollment_count | enroll the journeys whose time has come | one variable for the start tasks of all journeys; races with the ENROLLMENT job | nobody enters twice, and none before the time | Enrollment |
| **Journey lifecycle** `api/journeys/journeys.service.ts` | the journey's flags and counts | start, pause, resume, stop, delete, update, updateLayout | whole entities saved from an earlier read | a stop is not undone; a started journey enrolls | JourneyLifecycle |
| **Segments** `api/segments/**` | a segment's query, isUpdating, rows of segment_customers; counts of filled system segments | create, edit, fill, update a customer's membership; count, enqueue the enrollment | counts read and written back under a lock released before the commit; several evaluations of one query; changes while updating | the last system segment starts the enrollment; a segment ends with whom its query selects | JourneyLifecycle, CustomerQuery, SegmentMembership |
| **Event ingestion, identity** `api/events/**` | customers: primary key, other_ids, device tokens | find or create, $identify, merge, upsert, delete | each is several awaits; a device creates its customer again while it is merged | one customer per person; an identified device is found as its person | CustomerIdentity |
| **Message sending** `api/steps/processors/message.step.processor.ts`, `journeys.service.ts` rateLimit* | messageSent, a counter per minute in Redis | check, send, mark, count, release | checks precede the send and counts follow it, for several jobs at once | limits are passed by a known number at most; whoever got a message is counted | MessageSending |
| **Cache** `common/services/cache.service.ts` | cached steps, journeys, templates | get with a loader, delete, expire | the load races the invalidation | a read after an update that is done sees it | MessageSending |
| Customers and imports, providers and webhooks, websocket gateway, accounts and organizations, integrations, infrastructure adapters, web client | records of their own | CRUD, queries, provider calls, session I/O | not coordination | | section 8 |

How they interact. Starting a journey saves it and queues the jobs that fill its
system segments, the last of which queues an ENROLLMENT job, or that job itself; it
creates the rows locked and queues a START job; START jobs halve their range and
publish one job per customer for the start step. A step processor either publishes a
job for the next step, with the same location object, leaving the row locked, or
unlocks the row in a step that holds customers. The cron wakes customers in time based
steps, and events those in waitUntil steps; both lock the row and publish a job for the
step it names. An event is first given its customer, then fanned out to the journeys and
to the segments. Every job goes through the producer, RabbitMQ and a work orchestrator.

`PROJECT.json` lists each hazard at its line, with the properties that would catch it,
or a note why none does.

## 2. Modules

```
JourneyGraph            the journey: types of steps, destinations, resting places
  |- JourneyLocations   the row: Created, Lock, Unlock, StillMoving, Aged
  |    `- JourneyTraversal        enrollment, processors, cron, events, faults
  |         |- MCJourneyTraversal          graphs and events for TLC
  |         |- JourneyTraversalProofs      types, RowAtRest, UnlockedAtRest
  |         `- JourneyDisturbance          who came in whose way; the lock, the walk
  |              |- MCJourneyDisturbance
  |              `- JourneyMoveProofs      the same for every journey
  `- JourneyWalk        the abstract walk that JourneyDisturbance implements
WorkOrchestrator        the life of a job
  |- MCWorkOrchestrator
  `- WorkOrchestratorProofs
Enrollment              ENROLLMENT and START jobs, handleEntryTiming
  |- MCEnrollment       settings of a journey
  `- EnrollmentProofs
JourneyLifecycle        the journey's row and all that saves it; system segments
  `- JourneyLifecycleProofs  types, EnrollsWhenFilled, EndStays
CustomerData            customers' documents and message statuses
  |- CustomerQuery      the evaluations of a query
  `- SegmentMembership  a dynamic segment: created, edited, kept up
       |- MCSegmentMembership             with CustomerQuery's evaluations, for TLC
       `- SegmentMembershipProofs
CustomerIdentity        which customer a request is about
  |- MCCustomerIdentity
  `- CustomerIdentityProofs
MessageSending          limits, template, send, marks
  |- MCMessageSending
  `- MessageSendingProofs
```

**JourneyGraph.** A journey is `Type`, `Destination` (the lookups that may follow
a step; multisplit and experiment are a choice, type "branch"), `EventDestination`
and the time conditions. A lookup may find nothing, because steps are deleted while
jobs and cached metadata still name them: `NoStep`. `RestingPlaces` are the steps in
which some processor can leave a customer.

**JourneyLocations.** A location is a record. `locked` stands for `moveStarted`
being set; `held` and `waited` are the ages of `moveStarted` and `stepEntry`, all the
code looks at. The same record type serves the row and the objects read from it,
and the difference between the two is what most properties are about. `Lock(row)`
updates the row as `lock()` does, whatever the row holds; `StillMoving(object)` is
the test made before it on the object; `Unlock(object, step)` restarts stepEntry even
in place and takes messageSent from the object.

**JourneyTraversal.** One action per handler or transaction:

| Code | Actions |
|---|---|
| triggerStart, StartProcessor | `Enroll`, `StartJourney` |
| start, jumpTo, multisplit, experiment, exit processors | `ProcessForward`, `ProcessExit` |
| MessageStepProcessor: send, abort in quiet hours, hold by limit, requeue | `ProcessMessage` |
| timeDelay, timeWindow, waitUntil processors | `ProcessTimed`, `ProcessWaitUntil` |
| acknowledgement, redelivery, failure of a step job | `Ack`, `Redeliver`, `Duplicate`, `FailBroken`, `FailSound`, `Interrupt` |
| minuteTasks, first part | `CronSelect`, `CronLock` (lock and commit), `CronPublish`, `CronDone` |
| minuteTasks, requeued messages (one transaction) | `RequeueSelect`, `RequeuePublish`, `RequeueCommit` |
| cron process dies | `CronCrash` |
| handleEvent | `EventRead`, `EventLock`, `EventRetry`, `EventMatch`, `EventMiss`, `EventAck`, `EventRedeliver` |
| time, windows | `Tick` |

A processor is one action. It looks things up and then has one effect on the row
or the queue, and that effect is last, so that what interleaves is decided by the
job's own (possibly stale) location object, which the model keeps. The message
processor also sends or writes a requeue entry before that; `Interrupt` and
`FailSound` stop it in between (and MessageSending takes it apart). The cron's lock
loop runs in one transaction, so its updates appear together; `RequeueSelect` to
`RequeueCommit` is the other transaction, whose jobs go out before it commits. Rows
updated in an open transaction block other writers (`Writable`). A batch is all or
nothing: a test that throws while its rows are looked through rolls it back, so there is
no such run. A window by days throws in its hours (`TestThrows`), and two requeue rows
of one customer make the second lock fail (the guard of `RequeueSelect`).

**JourneyDisturbance.** The lock is a column that is tested on a copy, so what holds of
a customer depends on whether somebody came in the way. The module adds one history
variable to the traversal, `disturbed`, which no step reads. A customer is disturbed from
the moment somebody takes the lock from an object that is no longer the row, or takes it
over because it has expired (`LockedStale`), or a job that moves the customer comes a
second time or sends a second time (`RunAgain`). Those are the steps a version check on
the update, or a record of handled jobs, would have refused. The properties of moving
customers (OneMover, JobLocationCurrent, MarkMatchesSends, DelayHonoured,
MessagedStaysMarked, NoSecondMessage, FollowsWalk) are stated of everybody else, while
events, cron runs, repetitions and expired locks do what they like to the others. Nobody
can be disturbed by being enrolled, losing a job, or a cron run that dies.
`CronDisturbsNobody` says until when that is everybody.

**JourneyWalk.** The promise: a customer rests or moves; a move starts where the row
says, follows the journey's edges through steps that do not hold customers, and
ends, once, in a resting place. Of customers gone astray it promises nothing, and who
has gone astray stays so. `JourneyDisturbance` maps `place` to `row[c].step`, `moving` to
`row[c].locked` and `astray` to `disturbed`; `FollowsWalk` says it implements the walk.

**WorkOrchestrator.** A message is on its way, queued, or with a worker; a handler
goes through processing, returned or caught, completed, retried or failed, and
acknowledges last. Producer and consumer have connections of their own: `LosePublish`
loses an unconfirmed publish, `CutOff` closes a consumer's connection under its
handlers, whose acknowledgements then throw (`AckThrows`: inside the try for
`completeJob`, as an unhandled rejection that ends the process for the other two),
`Crash` ends the process, `Restart` starts it.

The other modules do not INSTANCE `WorkOrchestrator`; they use what it shows about
jobs: one is delivered at least once, may be delivered again after its handler
finished (`Redeliver`, `copy`, `SegmentDies`), may exist twice (`Duplicate`), may be
processed from the middle again (`Interrupt`, `Dies`), and is given up after its
retries (`FailSound`, `Drop`).

**Enrollment.** `enrollment[e]` is an ENROLLMENT job (one for each request that starts
the journey) or a run of handleEntryTiming; `starts` is the set of START jobs.

| Code | Actions |
|---|---|
| EnrollmentProcessor.process, triggerStart | `Count`, `CopyPage` (a page; waits for another writer of the same rows), `Commit`, `PublishStart`, `Acknowledge` |
| its errors, its process's end | `CopyThrows`, `Fails`, `Dies` |
| handleEntryTiming | `CronCount`, `CronSave`, `CopyPage`, `CronCommit`, `CronPublish`, `CronFails` |
| StartProcessor.process | `Split` in halves; `Find`, `Enter` (the limit, the publication); delivered again (`Handled`), given up (`Drop`) |
| customers of the workspace, the time | `AudienceChanges`, `TimeComes` |

`settings` is chosen at first: a query or all customers, a maximum of entries, a
specific time, one start or two. A query's audience is frozen in a collection, all
customers are listed live (`Listed`). `orphaned` are rows no START job will come for.

**JourneyLifecycle.** `journey` is the committed row. A save is three steps, reading,
loading and writing (`Read`, `Load`, `Write` of a request; `ReadJourney`,
`LoadJourney`, `SaveJourney`, `CommitSegment` of a segment's job; `EnrollLoad`,
`EnrollCommit` of the ENROLLMENT job), because TypeORM's `save` loads the row and
writes the columns in which the entity it was given differs. `Delete` is one statement,
as markDeleted is. `Publish`, `Fill` and `PublishEnrollment` carry a start to its
ENROLLMENT job. `advisory` is PostgreSQL's session lock 12345; `SegmentThrows` in
between leaks it to the pool.

**CustomerData, CustomerQuery, SegmentMembership.** `Selected` is what getSegmentCustomersFromQuery
collects, with the error of one of its pipelines (`Fails`); `Matches` what
checkCustomerMatchesQuery decides of one customer; `CheckInclusion` what is left of
audiences, which still serves the edit of a segment. They recurse over queries, so
SegmentMembership has the evaluations as constant operators (`Collects`, `Errs`,
`Decides`, `Includes`, `Names`) and its proofs hold for any; the run's configuration
gives them the values CustomerQuery defines. `Agrees(d, q)` is where the first and the
third can be expected to agree; its value, `Comparable`, names the exceptions, and
`EvaluationsAgree` checks that they are all: of every statement, by itself and beside
each query of the run, on every database two changes lead to, it checks what the proofs
assume. `Create`, `Select`, `Fill` create
a segment; `Edit`, `SelectIncluded`, `Assign`, `FinishUpdate` change its query;
`AttributeChanges` and `EventOccurs` queue a customer's job; `Decide` and `Apply` handle
it. `stale` and `raced` record of whom the code cannot know: those passed over after the
selection, or not looked at since an edit; and those of whom two jobs were about to write
the opposite. The next job that looks at the customer ends either.

**CustomerIdentity.** `customers[i]` is the document with `_id` i; `request[r]` is the
handler of an event, $identify or upsert, one await a step: `Find` (by the order of
FindType), `Create` and `FindAgain` after a duplicate key, `SetToken`, and for $identify
`Alias`, `ReadDuplicate`, `CopyToken`, `DeleteDuplicate`, `SetKey`. Unique indexes are
`Allowed`. `Delete`, `Dies` and `Repeat` come between.

**MessageSending.** `handler[h]` is MessageStepProcessor with one job in hand: `Begin`
(quiet hours), `CheckCustomers`, `CheckMinute`, `GetTemplate`, `LoadTemplate`,
`StoreTemplate`, then `Send` and `Increment`, `Abort`, `Requeue` or `Release`, then
`MoveOn` and `Acknowledge`; `Throws` and `Dies` at any point. `Arrive` is the unlock at
the end of the move, which writes the mark. `ClearTemplate` and `WriteTemplate` are
TemplatesService.update, `ExpireTemplate` the cache's own expiry, `Tick` the clock.
No step reads `lapsed` (this minute's key expired early), `spoilt` and `overlapped` (what
is cached, or was read, was loaded during an update), `repeated` and `failed` (whose job
came again or threw): they are what the properties except, and no more.

Definitions marked "(Slip: ...)" are not part of the specifications: each is a
plausible slip in the definition that follows it, and a property is shown to
notice it.

## 3. Runs

| Run | Instance | Checks | States |
|---|---|---|---|
| `traversal_cron` | one customer, one cron, all message decisions, a window by days, one loss, one repetition | TypeOK, UnlockedAtRest, MarkMatchesSends, NoSecondMessage, CronDisturbsNobody, DelayHonoured, MessagedStaysMarked | 1,743,700 |
| `traversal_heal` | cron and event, expiring locks, messages sent or held, one repetition, fairness | RowAtRest, JobLocationCurrent, OneMover, FollowsWalk, MoveEnds | 301,525 |
| `traversal_lock` | cron and event, no fault at all | MoverHoldsLock is violated | |
| `traversal_requeue` | cron, messages sent or requeued, fairness | RequeuedIsSent is violated | |
| `orchestrator` | one job, two workers, prefetch 2, one crash, cut and loss, fairness | TypeOK, NoJobLost, FailedAfterRetries, OneHandler, NotRunAgain, JobSettles | 145,917 |
| `enrollment` | three customers, two starts or one start and cron runs, five settings, fairness | TypeOK, EnteredOnce, EnteredWithRow, RowsAccounted, EntriesWithinMax, EnteredInTheEnd | 520,264 |
| `entry_timing` | a journey to be entered at a time | EntersAtItsTime is violated | |
| `lifecycle_segments` | two requests, two system segments, one death, one error, fairness | TypeOK, EnrollsWhenFilled, EnrollsInTheEnd, EndStays | 135,207 |
| `lifecycle_stop` | a start and a stop, no fault | StopIsFinal is violated | |
| `segment_fresh` | two customers, four queries, three changes or edits, fairness | TypeOK, UpToDate, EvaluationsAgree, ReadyInTheEnd | 663,496 |
| `identity` | two devices of one person, one shared by two others, three requests, one death, repetition and deletion | TypeOK, IdentifiedResolves, PersonKept | 1,373,395 |
| `message_limits` | three customers, two handlers, both limits, quiet hours, one update, one fault | TypeOK, RateKept, HeldAtLimit, NewTemplate, MarksKept | 2,078,971 |

What they show:

- Driven by the cron alone, with every outcome of a message step and a job lost or a
  cron killed at any point, a customer's row rests where it should, delays are
  honoured, the mark the limit counts matches what was sent and stays, no second
  message goes out; all of who is not disturbed, and nobody is until a delivery is repeated.
- With events, expiring locks and a repetition, several actors may move a
  customer at once, and still a row never names a step that is only passed through;
  until that happens to the customer there is one mover with the lock, jobs carry current
  locations, and jobs, claims, events and commits together are the walk; and an event
  whose handler died between lock and publish does not leave its customer moving for
  ever.
- A job's messages, counts and handlers stay in step: nothing is lost to a crash
  or a closed connection, nothing is given up early, and every job is settled.
- However ENROLLMENT jobs fail, die and are retried, and whoever else enrolls the
  journey, the ranges of START jobs cover the rows of a query once: nobody enters twice
  or without a row, and whoever has a row enters unless it was orphaned. No more enter
  with a row than the maximum, though the rows are counted while they grow. (Of a live
  audience that is counted while it is empty, customers enter without a row, whom the
  maximum does not count: section 7.)
- The enrollment begins only when every system segment is filled, whichever saves of
  the journey overlap. It does begin, and a stop stays, while saves do not overlap.
- A segment ends with whom its query selects, for every customer looked at since the
  last thing the segment passed over; filling a segment and deciding about one customer
  give the same but for the cases `Comparable` names. The segment becomes ready unless the
  selection fails, which one of the run's queries makes it do.
- A merge never loses the customer of the person, and an identified device is found as
  its person, with any two devices' requests interleaved.
- A minute's limit is passed by the jobs in hand at most, and by as much again if its key
  expires early; the limit of customers holds nobody before it is used; templates are as
  new as the handler could know, unless it finds one loaded during an update; marks follow
  messages, whatever becomes of the jobs of others.

## 4. Bounds

- *Graphs.* `CronSteps` is start, split, delay, message, window, days, exit: one step of
  each kind that the cron and the processors treat differently, the waitUntil whose window
  by days the cron cannot test among them, a choice, a pass through two steps in one move,
  and a lookup that may find nothing. `EventSteps` has a
  waitUntil step with a time branch and two event branches, one leading back through a
  jump, so that a customer can come to the same step twice and a stale object can look
  current.
- *Customers of the traversal.* One: customers meet only in the cron's batch, and the
  theorems hold for any number, of whom some are disturbed and some not.
- *Clock.* Horizon 2 with delay 1 has the three cases under, at and over the delay,
  which the cron and the processors tell apart differently. LockTimeout 1 has a fresh
  and an expired lock; it is 0 where locks do not expire.
- *Jobs.* Three slots: a job, the one it publishes before it is acknowledged, and one
  more; the last free slot is kept for processors, so the bound never blocks them
  (`HasRoom`).
- *Counts.* MaxSends 2 tells no, one and more messages apart, as NoSecondMessage needs;
  `traversal_heal`, which does not look for a second, has 1, the least that tells a
  message from none, which is what the assumption on it asks. MaxRedeliveries 1
  (`traversal_heal`, `traversal_cron`) and MaxLosses 1 (`traversal_cron`) put one fault of
  each kind at every point of a behaviour. `traversal_heal` has no loss, since MoveEnds
  excepts what comes after one, and the theorems for the safety properties hold for any
  number of both. Two rows of the requeue table (RequeueIds) are what makes a batch fail.
- *Events.* One event. A second would bring event against event; the race of
  read-then-lock is the same as that of the event and the cron.
- *Orchestrator.* One job: jobs meet only in prefetch, and the theorems hold for any
  number. Four copies: the job and the copies it may gain. One crash, one cut and one
  loss meet at any points. NoJobLost is stated until the first loss, for with a lost
  publish a retried job is lost.
- *Enrollment.* Three customers, pages and batches of two: a full and a partial page, and
  a range that is halved unevenly. A maximum of one is under the audience. Two faults
  among a death, a repeated and a dropped START job, one change of the audience.
- *Lifecycle.* Two requests, one of them a start: two are enough for a save to overlap
  another. Two segments, so that one is the last. One death and one error.
- *Segments.* `Declared` and `Custom` attributes, because a declared one is never missing
  from a document; values 1 and 2 under, at and over the statements' values; events
  that name their customer by `_id` and by primary key. Three changes: one while updating,
  and two of one customer, or one before and one after an edit. The four queries have every
  kind of statement and both connectives, and "has not performed", whose selection fails.
  EvaluationsAgree goes further: all statements over these attributes and values, alone and
  beside each query, two changes away from the first database, and four mailings. Each
  exception in `Comparable` is needed: without any one of them TLC finds the evaluations
  apart, and so are `stale`, `raced`, `Agrees` and `Errs` in UpToDate and ReadyInTheEnd.
- *Identity.* Two devices of one person have the merge of one against the event of
  another; the third device has two other people, who write over each other's key; three
  requests are two that race and one that comes after. The token is a key, as in a
  workspace that declares it.
- *Message sending.* Two handlers for three customers: one more than are handled at once.
  Limits of two customers and one message a minute; minutes of two seconds, so that a key
  can expire before its minute ends; one quiet minute, the second. One fault, in the run;
  with two the properties hold as well (15,375,307 states).

Symmetry is used in `identity` and `message_limits`, which check no liveness.

Deadlock checking is off where the system may stop (all jobs settled, all requests
answered, the clock at its bound). In the traversal time always passes, so there is no
deadlock to find, and what would be one shows up as MoveEnds failing.

## 5. Fairness

- *Traversal.* Weak fairness of `StartJourney`, of each job's processing and
  acknowledgement, of each cron run and of each event's handler: workers keep
  consuming while their process is up, and a handler that began goes on. Strong
  fairness of `RequeueSelect`: every run of minuteTasks comes to its second part, so
  the first cannot keep it from requeued messages for ever. Weak fairness of `Tick`.
  None of faults, of enrollment, or of which destination or event comes.
- *Orchestrator.* Weak fairness of a published message's arrival, of each handler, and
  of `Restart` (the deployments restart a process that ended); strong fairness of
  delivering a given message, since the broker serves a queue in order and a prefetch
  that is full is free again later. A consumer that was cut off is not served: the
  fairness is of some worker, and one is never cut off.
- *Enrollment.* Weak fairness of each ENROLLMENT job's steps and of some START job, both
  of which workers consume in order. None of cron runs, errors or faults.
- *Lifecycle.* Weak fairness of a request once accepted, of each segment's job and of
  each ENROLLMENT job.
- *Segments.* Weak fairness of the creation's or update's job and of some customer's job.

## 6. Proofs

TLAPS checks every theorem for all values of the constants that the named ASSUMEs
allow. Extra assumptions are part of a theorem's statement.

| Theorem | Shows | Extra assumption |
|---|---|---|
| JourneyTraversalProofs!TypeInvariant | TypeOK | none |
| JourneyTraversalProofs!RowsAtRest | RowAtRest | none |
| JourneyTraversalProofs!UnlockedRowsAtRest | UnlockedAtRest | `~LockExpires` |
| JourneyMoveProofs!OneMoverAtATime | OneMover | none |
| JourneyMoveProofs!TraversalFollowsWalk | FollowsWalk (HistorySpec => WalkSpec) | none |
| JourneyMoveProofs!JobObjectsCurrent | JobLocationCurrent | none |
| JourneyMoveProofs!MarksMatchSends | MarkMatchesSends | none |
| JourneyMoveProofs!MarksStay | MessagedStaysMarked | none |
| JourneyMoveProofs!DelaysHonoured | DelayHonoured | none |
| JourneyMoveProofs!NobodyMessagedTwice | NoSecondMessage | no message step leads to one |
| JourneyMoveProofs!NobodyDisturbed | CronDisturbsNobody | none |
| WorkOrchestratorProofs!TypeInvariant | TypeOK | none |
| WorkOrchestratorProofs!FailsAfterRetries | FailedAfterRetries | none |
| WorkOrchestratorProofs!NeverLost | NoJobLost | none |
| WorkOrchestratorProofs!OneHandlerAtATime | OneHandler | none |
| WorkOrchestratorProofs!ProcessedOnce | NotRunAgain | none |
| EnrollmentProofs!TypeInvariant | TypeOK | none |
| EnrollmentProofs!EntersOnce | EnteredOnce | none |
| EnrollmentProofs!EntersWithRow | EnteredWithRow | none |
| EnrollmentProofs!AccountsForRows | RowsAccounted | none |
| EnrollmentProofs!EntersWithinMaximum | EntriesWithinMax | none |
| EnrollmentProofs!QueryEntersWithinMaximum | of a query, no more customers enter at all | none |
| JourneyLifecycleProofs!TypeInvariant | TypeOK | none |
| JourneyLifecycleProofs!EnrollsOnlyWhenFilled | EnrollsWhenFilled | none |
| JourneyLifecycleProofs!EndIsKept | EndStays | none |
| SegmentMembershipProofs!TypeInvariant | TypeOK | `EvaluationsTyped` |
| SegmentMembershipProofs!SegmentUpToDate | UpToDate | `EvaluationsTyped`, `EvaluationsAgreeing` |
| CustomerIdentityProofs!TypeInvariant | TypeOK | none |
| CustomerIdentityProofs!PersonStays | PersonKept | none |
| CustomerIdentityProofs!IdentifiedFinds | IdentifiedResolves | none |
| MessageSendingProofs!SendingType | TypeOK | none |
| MessageSendingProofs!RateIsKept | RateKept | none |
| MessageSendingProofs!TemplateIsNew | NewTemplate | none |
| MessageSendingProofs!MarksAreKept | MarksKept | none |
| MessageSendingProofs!HeldOnlyAtLimit | HeldAtLimit | none |

The theorems of JourneyMoveProofs are of HistorySpec and put no condition on the
instance: any events, cron runs at once, repetitions, losses, failures, deaths and
expiring locks. What limits them is in the properties, customer by customer and in the
behaviour itself: they are of those not disturbed so far. It is as little as the code
allows: `traversal_lock` violates MoverHoldsLock, the same property of everybody, with one
event and no fault, by a lock taken from a stale object; two cron runs race in the same
way; and a repeated delivery is a second mover. `NobodyDisturbed` gives the instances in
which nobody is ever excepted. `NobodyMessagedTwice` is about journeys in which the steps
that come after a message step, by any edge or time branch, can be collected in a set
without message steps (`AfterMessages`); a journey with two messages in a row may send
both. That the history is only a history is how HistoryNext is written (`Next`, and an
equation for `disturbed'`); that HistorySpec implies Spec, so that the theorems of
JourneyTraversalProofs can be used, is a lemma (`HistoryIsSpec`).

`EnrollsOnlyWhenFilled` puts no condition on the instance: any number of requests may
start the journey, and segments may match nobody. The property excepts the behaviours in
which two starts have both queued jobs, which count in one journey row (`StartedOnce`),
and, if a segment is empty, those in which something died, since the job of an empty
segment, delivered again, counts it again (`CountedOnce`).

The two theorems of CustomerIdentityProofs put no condition on the instance either: the
properties are of each person on whose devices nobody else identifies (`Sole`), whatever
the others do. A device shared by two people is a hazard of the code: `$identify` of a
second person, who is not a customer yet, finds the device's customer, and writes the
second key over the first (`SetKey`), so that the first person has no customer left. TLC
finds that violation of PersonKept as soon as `Sole` is left out of it.

`EvaluationsTyped` is: an evaluation selects customers, or says yes or no.
`EvaluationsAgreeing` is: on every database that changes lead to, and for the queries in
use, where `Agrees` holds, selecting at once gives whom deciding one by one gives, what is
decided of a customer does not depend on other customers, and no change makes `Agrees`
true that was false (`Agreement`). It is what `EvaluationsAgree` checks of the code's
evaluations and `Comparable`; section 7 lists the queries for which the code breaks it.

How the arguments go:

- *RowAtRest* is not inductive: an event's handler unlocks from its own object, and
  so may write a step the row has left. `RestInv` adds that the location each handler
  of an event holds is itself in a resting place or the start step. Objects in jobs
  need no such clause, since a processor unlocks in its own step or its destination,
  and both are resting places whenever it unlocks.
- *UnlockedAtRest*: `UnlockedInv` adds that an event's object, if it is unlocked, is in
  a resting place, and that only an unlocked object is ever locked from. The second
  clause is what an expiring lock breaks, hence the assumption.
- *Undisturbed customers*: whoever may write a row carries an object read before: a job,
  a claim of a run that has locked, an event that has locked (`Hands`). `HandInv` says of
  an undisturbed customer: in one hand at most; in one only while the row is locked; and
  the object in it describes the row that its unlock will overwrite, has the mark the row
  is to get (`Carries`), and its step lies within one move of the row's, reached from a
  delay only if the delay was over (`OnTheWay`). Who has not begun is in none, and who is
  unlocked rests in a resting place with the right mark. `EnrolledInv` is what holds of
  the disturbed too, and is needed because an actor reads before it locks.
- The step lemma is `StepIsPassage`: every step of the system is, for each customer it
  does not disturb, one of eight passages (`Stands`, `Enters`, `Starts`, `GetsLocked`,
  `Passes`, `Drops`, `Lands`, `Ages`). It is the only place that goes through the actions.
  The passages then speak of one customer: that they keep `HandInv` (`PassageKeeps`), are
  steps of the walk (`PassageWalks`), take no mark away (`PassageMarks`), leave no delay
  early (`PassageDelays`), and send no second message (`PassageSent`).
- *FollowsWalk*: `Lands` is `Arrive`, `GetsLocked` is `SetOff`, `Enters` is `Join`, and the
  rest stutters. `WithinMove` is an intersection of closed sets, which needs no induction.
- *NoSecondMessage*: `SentInv(After)` says that a customer who has had a message is past
  the message steps: the hand, or the row at rest from which the next would be taken,
  is in `After`.
- *CronDisturbsNobody*: with the cron alone nothing touches a row between the cron's query
  and its locks, since whoever is selected is at rest, and in no hand (`SelectedCurrent`).
- *WorkOrchestrator*: `Sync` ties messages to handlers and links (a worker that is up
  has a handler for exactly the messages it holds). `Counted` bounds every delivery
  count by the job's errors. `NotLost` says that an unsettled job has an open message,
  one that is queued or whose handler has not yet queued it again, and that a
  handler that is about to acknowledge has recorded the outcome. `Lone` says that the
  open messages of a job are at most one.
- *Enrollment*: the rows of a query are written in the order of a frozen listing, so
  what a job has copied is a beginning of it (`Copying`), what one has committed the
  whole (`Committed`), and no two commit the same rows (`Apart`), which is what the
  table's key is for. A START job's range lies in rows (`Located`). `Counted` counts the
  entries of a customer together with the START jobs that will make one more
  (`Holding`): one, and one more for each job delivered again; `Split` replaces a job by
  two with the same union of ranges, so it moves a customer from one holder to another.
  `Accounted` is RowsAccounted with the job that has committed and not published. A
  maximum of 0 is apart (`ShutInv`): its jobs have limit 0, which the look-up takes for
  no limit, but nobody gets past the count. *EntriesWithinMax* needs none of that:
  whoever entered has a row or is known to have none (`RowOrNone`), and the rows were
  below the maximum when the last batch entered.
- *MessageSending*: `RateInv` counts each message of the minute with the counter, with a
  handler that will count it, or with one that ended before (`Accounted`), and bounds them
  together with the handlers that are going to send (`Bounded`). A key is set within its
  minute and lives all seconds but one, so that one that lapses does so in the minute's
  last second, and no second one does (`KeyInMinute`). `TemplateInv` says that what is
  cached, or about to be, is newest and no update is under way, unless it was loaded during
  one (`Fresh`). `MarkInv` says of every customer whose job did not come twice that it is in
  one place at a time, in a job queued, a handler, or a job further on (`PlaceOf`), so that
  no other location of the customer can take back the mark. *HeldAtLimit* is kept because
  these marks stay and those of the others are counted in any case (`Reached`).
- *JourneyLifecycle*: `FillInv` says that nothing that is or may be saved counts more
  segments than are filled (`RowsWithin`), and that a segment's job under way counts one
  more, its own, which it has not filled before (`JobsWithin`, `JobsFillOnce`). So the job
  that counts to the total, which is at least 1, finds all filled. A save over another
  can only take the count back, or the total to 0, which no job's count equals. A start
  that has queued no job yet has filled nothing (`Unpublished`). `FillInv` holds as long
  as neither exception has occurred (`Once`), and neither is undone by a step
  (`OnceBefore`), so the step lemma may assume it of the state before. `EndInv`
  says that while saves do not overlap there is one reader (`Alone`), and what it will
  write keeps the flags (`ReadersKeep`).
- *CustomerIdentity*: `IdentityInv(p)` follows one person p who shares no device, and
  divides all documents in p's and others by who has made up their _id (`Mine`): p's have
  p's key or none, and only names of p's devices, others have neither (`OwnedDocs`). So
  nothing that goes on among others, keys written over included, reaches p's. One
  customer at most has p's key (`Unique`); a customer other than a device's own that the
  device's token or id leads to has p's key, if the device is p's (`NamedKeys`). Of each
  handler it says the same of what it read (`LinkedHandler`), and what it will still do:
  that a merge deletes the customer of a device of p's only while it holds another with
  p's key (`Going`). Steps are of few kinds: none loses p's customer or its other ids
  (`Keeps`), and the own customer of p's device goes in a merge only (`Leaves`), which is
  what the other handlers need to know of them.
- *SegmentMembership*: `MemberInv` has a clause per phase. Before the fill, who was
  selected matches, or changed since and has a job (`BeforeFill`); during an edit nobody
  is known (`DuringEdit`); and in a ready segment, if the evaluations agree, of a customer who is known
  and has no job to be decided all jobs decided say what the query has, and if there is
  none the customer is in as the query has it (`WhenReady`). UpToDate is the last with no
  jobs left.

Every safety property and action property of a passing run is stated by a theorem, but
one: EvaluationsAgree, since the evaluations recurse over queries, and what a recursive
definition computes is beyond the prover. Only model-checked are therefore that one, the
liveness properties (MoveEnds, JobSettles, EnteredInTheEnd, EnrollsInTheEnd,
ReadyInTheEnd), as temporal reasoning from fairness and ENABLED is beyond the prover too,
and the properties that the code violates, of which TLC finds the behaviour.

## 7. Findings

1. **The lock is not exclusive** (`traversal_lock`). `lock()` tests the object its
   caller read and updates the row unconditionally
   (`api/journeys/journey-locations.service.ts:734`). An event and a cron run that both
   read the row unlocked both take the lock; the first to finish unlocks the row while
   the other still moves the customer. Comments call it a write lock on (journey,
   customer) (`:104`), released when the customer has stopped moving
   (`api/steps/processors/time.delay.step.processor.ts:163`).
2. **A requeued message never goes out** (`traversal_requeue`). `app.cron.service.ts:600`
   queues it without customer and location and with an owner whose teams are not
   loaded; `MessageStepProcessor.process` reads all three, throws, has no retries, and
   the row locked for it stays locked. `message.step.processor.ts:169` says "quiet hours,
   requeue message when quiet hours over".
3. **A stop can be undone** (`lifecycle_stop`). `enrollment.processor.ts:160` saves the
   journey it was given when the journey was started. A stop since then differs from
   it, and is written back: the journey is active again. The client's
   `FlowViewerStopModal.tsx:33` says that "stopping the journey is an irreversible action".
4. **A journey for a specific time is entered at once** (`entry_timing`).
   `journeys.service.ts:1914` publishes the ENROLLMENT job whatever the entry timing.
   The client's `FlowBuilderSegmentEditor.tsx:105` offers "Enter users at specific time"
   beside "Enter users as soon as this journey published" (`:100`).

**Conditions.** A property that needs one says so, and each marks a hazard in
`PROJECT.json`: UnlockedAtRest holds without expiring locks; those of
JourneyDisturbance of customers not disturbed; NotRunAgain without repeated deliveries;
NoJobLost until a publish is lost; MoveEnds
without failed jobs; JobSettles with a consumer that is not cut off; EnteredInTheEnd
for rows that are not orphaned; EnrollsInTheEnd and EndStays while saves do not overlap
(and, the first, nothing dies or throws); CronDisturbsNobody until a delivery is repeated;
UpToDate for queries on which the evaluations agree, and for customers whom no change
passed by (`stale`, `raced`) or who have had another job since; ReadyInTheEnd unless the
selection fails; PersonKept and IdentifiedResolves for people who share no device, the
second neither erased nor created again;
EntriesWithinMax for customers with a row; EnrollsWhenFilled while one start has queued
jobs, and none of an empty segment was delivered again;
RateKept with twice the bound if the minute's counter expired early; NewTemplate but for
who reads an entry loaded during an update; MarksKept and HeldAtLimit but for those whose
own job came twice, or, the first, threw.

**Deviations seen and not run.** Read in the code while modelling; the models follow the
code or leave the input out, and no run has a property about them.

- Entries: the maximum is compared with all rows of the journey, those just created
  included, so where the rows reach it START enters nobody (`journeys.service.ts:2941`).
  `enrollment_count` is a bigint, which arrives as a string, to which 1 is appended.
  `START_BATCH_SIZE` unset becomes NaN (`start.processor.ts:27`). A START job for nobody
  finds everybody, as a limit of 0 is none (`start.processor.ts:153`): the customers of a
  live audience that was counted while it was empty enter without rows, beyond any maximum.
- handleEntryTiming: the start tasks of one journey are overwritten by those of the next
  (`app.cron.service.ts:1449`); the collection is dropped before START is published;
  a journey for all customers throws; rows that are there already abort all journeys of
  the run, every minute; recurrence is a TODO.
- minuteTasks: a waitUntil branch's window by days of the week is looked for in
  `step.metadata.window`, where it is not (`app.cron.service.ts:344`), and throws: while its
  hours are open, the batch of all journeys is rolled back every minute. Two requeue rows of
  one customer roll the requeue batch back every minute too, since the second finds the
  customer locked by the first (`:585`).
- Journeys: a save under way can undo markDeleted (`journeys.service.ts:1710`).
  `updateEnrollmentForCustomer` passes the wrong query (`:671`).
- Segments: an edit removes nobody, since the body of what removes them is commented out
  (`segments.service.ts:1086`); it adds by audiences' checkInclusion, which knows only
  comparisons of top-level attributes, and looks at all other automatic segments too; a
  process that dies between update and publication leaves the segment updating (`:562`);
  a duplicated segment is never filled (`:1114`); create publishes before it commits
  (`:435`); two CUSTOMER_CHANGE jobs of one customer race (`:676`).
- Queries: of one customer, "not exist" and "is not equal to" are false on a missing
  attribute (`customers.service.ts:5733`), an event by primary key is never counted
  (`:5591`), message statements count the whole workspace (`:5444`), segment statements
  fall through (`:5370`). The pipeline of "has not performed" fails on duplicates, and
  the segment stays updating (`:4922`). The bulk insert stops at the first duplicate (`:3875`).
- Identity: `$identify` by a second person on a shared device writes over the key of the
  first (`events.service.ts:1597`). The merge and the upsert miss cases in `events.service.ts:1409`, `1526`,
  `1592` and `customers.service.ts:1634`, `1671`.
- Imports (`customers/imports.processor.ts`): updates of existing customers look for the
  account's id as their workspace (`:385`); when another request creates one of a batch's
  people meanwhile, the rest of the batch is inserted and none of it gets into the
  segment; batches that take over 30 seconds after the file's end fail the job while they
  go on.
- Messages: the minute's counter expires 59 seconds after its last increment
  (`journeys.service.ts:3028`); a delivery repeated after the unlock takes a mark back;
  `templates.service.ts:531` clears the cache before it writes; a mail without an address
  is marked and counted as sent; customers held by the limit never leave the step.
- Events: names are not compared when exactly one of event and branch has the provider
  posthog (`events.processor.ts:265`); `branch` is one variable for all steps (`:459`).

## 8. Not modelled

- *Computations.* Which event matches a waitUntil branch is a constant (`Matches`,
  `LastBranch`); quiet hours and time windows are intervals of the clock; formatting of
  messages is left out. Job priorities (`getJobOptions`) are, too: no property of the
  models depends on the order between jobs, which is arbitrary in them.
- *Journeys.* The content of duplicate and updateLayout; several journeys in one run of
  handleEntryTiming (only what it does to one); recurrence.
- *Segments.* Manual segments and their files; segment sizes; two edits that race;
  a customer deleted during an edit.
- *Events.* `$set` and the legacy calls; the fan-out of an event to journeys, which
  queues a job per journey.
- *Messages.* What providers do with a message; webhooks and delivery callbacks; a push
  to all platforms counts as one send.
- *Imports.* To who a customer is an import does what an upsert does in `CustomerIdentity`
  (a look-up by primary key, a random id, an error on a duplicate); its batches, and the
  segment it fills, are not modelled.
- *The rest.* Accounts, workspaces, integrations, modals and the web client are
  record keeping, queries and screens without a protocol of their own. The websocket
  gateway is dead code: `handleConnection` returns at once. Set-up of queues and
  connections runs once and yields the state `WorkOrchestrator` starts in.
- *Code that is commented out.* `transition.processor.ts`, `app.cron.service.ts:1494-2940`,
  and the handlers for attribute changes and messages in `events.processor.ts`.

The map therefore covers a small share of the repository's lines: most of them are the
web client and record keeping. It covers the journey engine's coordination nearly whole.

## 9. Plan

Done: all modules of section 2. Left, in order of weight:

| Module | Code | Properties | Theorems |
|---|---|---|---|
| EventBranchMatch | `events.processor.ts` 223-506, pre- and postprocessor | the job's branch exists in the job's step; refines `Matches` and `LastBranch` | a match is recorded for the step that is queued |
| ManualSegments | `segment.processor.ts` handleCreateManual, handleUpdateManual | members are those of the file | |
| CustomerImport | `imports.processor.ts` | every person of the file is a customer, and in its segment, when the segment is ready | |
| StepPriority | `producer.ts` 58-139 | priorities are in range and grow with depth | for all depths |
| FlowBuilder | `packages/client/src/reducers/flow-builder.reducer.ts` | the edited graph is a journey JourneyGraph accepts | |
