------------------------------ MODULE Enrollment ------------------------------
(***************************************************************************)
(* How the audience of a journey enters it.  An ENROLLMENT job counts the  *)
(* audience, writes a locked row for every customer in one transaction,    *)
(* page by page (EnrollmentProcessor, StepsService.triggerStart), and then *)
(* publishes one START job for the whole range.  A START job halves its    *)
(* range until it is small (StartProcessor), then finds the customers of   *)
(* the range and queues the first step job of each, unless the journey has *)
(* its maximum of entries.                                                 *)
(*                                                                         *)
(* The audience of a query is a collection frozen when it is counted; all  *)
(* customers of the workspace are listed live.  There is one ENROLLMENT    *)
(* job per start of the journey, and two requests may start it at once     *)
(* (settings.jobs).                                                        *)
(*                                                                         *)
(* If users are to enter at a specific time, handleEntryTiming enrolls the *)
(* journey once that time has come, in every minute that finds it not yet  *)
(* counted; the ENROLLMENT jobs of its start there are all the same.       *)
(***************************************************************************)
EXTENDS Integers, Sequences, FiniteSets

CONSTANTS
  Customers,
  Audience,      \* what the inclusion criteria select at first, as listed
  Enrollments,   \* ENROLLMENT jobs
  Crons,         \* processes that run handleEntryTiming
  Settings,      \* what the journey may be set to
  PageSize,      \* CUSTOMERS_PER_BATCH
  BatchSize,     \* START_BATCH_SIZE
  MaxEntries,    \* journeySettings.maxEntries.maxEntries
  MaxRetries,    \* of an ENROLLMENT job
  MaxDeaths,     \* bound: enrollments whose process dies
  MaxRepeats,    \* bound: START jobs delivered again after they published
  MaxDrops,      \* bound: START jobs whose retries are used up
  MaxFaults,     \* bound: deaths, repeated and given up START jobs together
  MaxChurn       \* bound: customers that enter or leave the audience

\* No customer is listed twice.
Listing == {s \in Seq(Customers) : \A i, k \in DOMAIN s : s[i] = s[k] => i = k}

\* frozen: the criteria are a query, not all customers; maxEnabled:
\* journeySettings.maxEntries.enabled; timed: entryTiming.type is SpecificTime;
\* jobs: one for every request that starts the journey.
Setting ==
  [frozen : BOOLEAN, maxEnabled : BOOLEAN, timed : BOOLEAN,
   jobs : SUBSET Enrollments]

ASSUME EnrollmentAssumption ==
  /\ IsFiniteSet(Customers)
  /\ Audience \in Listing
  /\ Enrollments \cap Crons = {}
  /\ Settings \subseteq Setting
  /\ PageSize \in Nat \ {0}
  /\ BatchSize \in Nat \ {0}
  /\ MaxEntries \in Nat
  /\ MaxRetries \in Nat
  /\ MaxDeaths \in Nat
  /\ MaxRepeats \in Nat
  /\ MaxDrops \in Nat
  /\ MaxFaults \in Nat
  /\ MaxChurn \in Nat

VARIABLES
  settings,     \* of the journey; they do not change once it is started
  due,          \* the specific time has come
  enrollmentCount,
  audience,     \* what the criteria select now
  enrollment,   \* enrollment[e]: how far job e, or cron run e, has come
  rows,         \* customers with a committed journey_location
  starts,       \* the START jobs
  entered,      \* entered[c]: START_STEP jobs queued for c
  unlocated,    \* customers whose START_STEP job had no location
  orphaned,     \* rows for which there is no START job any more
  deaths, repeats, drops, churn

timing == <<settings, due, enrollmentCount>>

vars == <<timing, audience, enrollment, rows, starts, entered, unlocated,
          orphaned, deaths, repeats, drops, churn>>

-----------------------------------------------------------------------------
(* State.                                                                  *)

Runs == Enrollments \cup Crons

\* Waiting for a handler (a cron run: for the next minute); about to save the
\* journey (a cron run); in the transaction; committed; START published;
\* acknowledged; given up.
Points == {"queued", "selected", "counted", "committed", "published", "done",
           "failed"}

Handler ==
  [point : Points, listing : Listing, size : Nat, batch : Nat,
   copied : SUBSET Customers, attempts : 0..MaxRetries]

StartJob ==
  [listing : Listing, skip : Nat, limit : Nat, copy : 0..MaxRepeats,
   found : SUBSET Customers, at : {"queued", "found"}]

TypeOK ==
  /\ settings \in Settings
  /\ due \in BOOLEAN
  /\ enrollmentCount \in {0, 1}
  /\ audience \in Listing
  /\ enrollment \in [Runs -> Handler]
  /\ rows \subseteq Customers
  /\ starts \subseteq StartJob
  /\ entered \in [Customers -> Nat]
  /\ unlocated \subseteq Customers
  /\ orphaned \subseteq Customers
  /\ deaths \in 0..MaxDeaths
  /\ repeats \in 0..MaxRepeats
  /\ drops \in 0..MaxDrops
  /\ churn \in 0..MaxChurn

Waiting ==
  [point |-> "queued", listing |-> << >>, size |-> 0, batch |-> 0,
   copied |-> {}, attempts |-> 0]

\* start counts the enrollment unless it is to come at a specific time.
CountedAtStart == IF settings.timed THEN 0 ELSE 1

Init ==
  /\ settings \in Settings
  /\ due = FALSE
  /\ enrollmentCount = CountedAtStart
  /\ audience = Audience
  /\ enrollment = [e \in Runs |-> Waiting]
  /\ rows = {}
  /\ starts = {}
  /\ entered = [c \in Customers |-> 0]
  /\ unlocated = {}
  /\ orphaned = {}
  /\ deaths = 0
  /\ repeats = 0
  /\ drops = 0
  /\ churn = 0

FaultsLeft == deaths + repeats + drops < MaxFaults

-----------------------------------------------------------------------------
(* The audience.                                                           *)

InAudience(c) == \E i \in DOMAIN audience : audience[i] = c

\* The position of the i-th entry once the k-th is gone.
Behind(i, k) == IF i < k THEN i ELSE i + 1

Without(s, k) == [i \in 1..(Len(s) - 1) |-> s[Behind(i, k)]]

AudienceChanges ==
  /\ churn < MaxChurn
  /\ churn' = churn + 1
  /\ \/ \E c \in Customers : ~InAudience(c) /\ audience' = Append(audience, c)
     \/ \E k \in DOMAIN audience : audience' = Without(audience, k)
  /\ UNCHANGED <<timing, enrollment, rows, starts, entered, unlocated,
                 orphaned, deaths, repeats, drops>>

\* CustomersService.find: a limit of 0 is none.
Page(s, skip, limit) ==
  {s[i] : i \in {n \in DOMAIN s :
                   n > skip /\ (limit = 0 \/ n <= skip + limit)}}

\* What find lists for a job that carries the name of collection s.
Listed(s) == IF settings.frozen THEN s ELSE audience

-----------------------------------------------------------------------------
(* EnrollmentProcessor.process.                                            *)

\* The size triggerStart is called with.
SizeOf(count) ==
  IF settings.maxEnabled /\ count > MaxEntries THEN MaxEntries ELSE count

Count(e) ==
  /\ enrollment[e].point = "queued"
  /\ enrollment' = [enrollment EXCEPT ![e] =
       [@ EXCEPT !.point = "counted", !.listing = audience,
                 !.size = SizeOf(Len(audience)), !.batch = 0, !.copied = {}]]
  /\ UNCHANGED <<timing, audience, rows, starts, entered, unlocated, orphaned,
                 deaths, repeats, drops, churn>>

\* (Slip: the last page is left out.)
PagesLeftButOne(e) ==
  (enrollment[e].batch + 1) * PageSize <= enrollment[e].size

\* The loop of triggerStart.
PagesLeft(e) == enrollment[e].batch * PageSize <= enrollment[e].size

PageOf(e) ==
  Page(Listed(enrollment[e].listing), enrollment[e].batch * PageSize, PageSize)

\* (Slip: the table has no primary key on journey and customer.)
RepeatsRowNever(e) == FALSE

\* COPY fails on a row that is there.
RepeatsRow(e) == PageOf(e) \cap (rows \cup enrollment[e].copied) # {}

\* COPY waits for another transaction that has written one of the rows.
Waits(e) ==
  \E f \in Runs \ {e} :
    enrollment[f].point = "counted" /\ PageOf(e) \cap enrollment[f].copied # {}

WithPage(e) ==
  [enrollment[e] EXCEPT !.batch = @ + 1, !.copied = @ \cup PageOf(e)]

CopyPage(e) ==
  /\ enrollment[e].point = "counted"
  /\ PagesLeft(e)
  /\ ~Waits(e)
  /\ ~RepeatsRow(e)
  /\ enrollment' = [enrollment EXCEPT ![e] = WithPage(e)]
  /\ UNCHANGED <<timing, audience, rows, starts, entered, unlocated, orphaned,
                 deaths, repeats, drops, churn>>

\* A cron run holds the journey's row from its save to its commit.
JourneyLocked == \E k \in Crons : enrollment[k].point = "counted"

\* The journey is saved as it was at start: the columns that differ from the
\* row as read, which may be before a cron run commits that it waits for.
Commit(e) ==
  /\ enrollment[e].point = "counted"
  /\ ~PagesLeft(e)
  /\ ~JourneyLocked
  /\ enrollment' = [enrollment EXCEPT ![e] = [@ EXCEPT !.point = "committed"]]
  /\ rows' = rows \cup enrollment[e].copied
  /\ enrollmentCount' \in {enrollmentCount, CountedAtStart}
  /\ UNCHANGED <<settings, due, audience, starts, entered, unlocated, orphaned,
                 deaths, repeats, drops, churn>>

PublishStart(e) ==
  /\ enrollment[e].point = "committed"
  /\ enrollment' = [enrollment EXCEPT ![e] = [@ EXCEPT !.point = "published"]]
  /\ starts' = starts \cup
       {[listing |-> enrollment[e].listing, skip |-> 0,
         limit |-> enrollment[e].size, copy |-> 0, found |-> {},
         at |-> "queued"]}
  /\ UNCHANGED <<timing, audience, rows, entered, unlocated, orphaned,
                 deaths, repeats, drops, churn>>

Acknowledge(e) ==
  /\ enrollment[e].point = "published"
  /\ enrollment' = [enrollment EXCEPT ![e] = [@ EXCEPT !.point = "done"]]
  /\ UNCHANGED <<timing, audience, rows, starts, entered, unlocated, orphaned,
                 deaths, repeats, drops, churn>>

\* What a handler leaves behind that ends before it has published.
Orphans(e) ==
  IF enrollment[e].point = "committed" THEN enrollment[e].copied ELSE {}

\* (Slip: one more retry than the option.)
RetriesLeftLate(e) == enrollment[e].attempts <= MaxRetries

RetriesLeft(e) == enrollment[e].attempts < MaxRetries

Retried(e) ==
  [enrollment[e] EXCEPT
     !.point = IF RetriesLeft(e) THEN "queued" ELSE "failed",
     !.attempts = IF RetriesLeft(e) THEN @ + 1 ELSE @,
     !.copied = {}]

\* The transaction is rolled back; the job is queued again or given up.
Throws(e) ==
  /\ enrollment' = [enrollment EXCEPT ![e] = Retried(e)]
  /\ orphaned' = orphaned \cup Orphans(e)
  /\ UNCHANGED <<timing, audience, rows, starts, entered, unlocated, deaths,
                 repeats, drops, churn>>

CopyThrows(e) ==
  /\ enrollment[e].point = "counted"
  /\ PagesLeft(e)
  /\ ~Waits(e)
  /\ RepeatsRow(e)
  /\ Throws(e)

\* Any other error: of a query, of a connection, of the publish.
Fails(e) ==
  /\ enrollment[e].point \in {"queued", "counted", "committed"}
  /\ Throws(e)

\* The broker delivers the job again and does not count the attempt.
Dies(e) ==
  /\ enrollment[e].point \in {"counted", "committed", "published"}
  /\ FaultsLeft /\ deaths < MaxDeaths
  /\ deaths' = deaths + 1
  /\ enrollment' = [enrollment EXCEPT ![e] =
                      [@ EXCEPT !.point = "queued", !.copied = {}]]
  /\ orphaned' = orphaned \cup Orphans(e)
  /\ UNCHANGED <<timing, audience, rows, starts, entered, unlocated, repeats,
                 drops, churn>>

-----------------------------------------------------------------------------
(* CronService.handleEntryTiming.                                          *)

TimeComes ==
  /\ settings.timed
  /\ ~due
  /\ due' = TRUE
  /\ UNCHANGED <<settings, enrollmentCount, audience, enrollment, rows, starts,
                 entered, unlocated, orphaned, deaths, repeats, drops, churn>>

\* The journey is selected, and its audience counted.
CronCount(k) ==
  /\ settings.timed
  /\ due
  /\ enrollmentCount = 0
  /\ enrollment[k].point = "queued"
  /\ enrollment' = [enrollment EXCEPT ![k] =
       [Waiting EXCEPT !.point = "selected", !.listing = audience,
                       !.size = SizeOf(Len(audience))]]
  /\ UNCHANGED <<timing, audience, rows, starts, entered, unlocated, orphaned,
                 deaths, repeats, drops, churn>>

\* What it saves is committed with the rows.
CronSave(k) ==
  /\ enrollment[k].point = "selected"
  /\ ~JourneyLocked
  /\ enrollment' = [enrollment EXCEPT ![k] = [@ EXCEPT !.point = "counted"]]
  /\ UNCHANGED <<timing, audience, rows, starts, entered, unlocated, orphaned,
                 deaths, repeats, drops, churn>>

\* The collection has been dropped before the commit, so that no START job
\* finds these customers.
CronCommit(k) ==
  /\ enrollment[k].point = "counted"
  /\ ~PagesLeft(k)
  /\ settings.frozen
  /\ enrollment' = [enrollment EXCEPT ![k] =
                      [@ EXCEPT !.point = "committed", !.copied = {}]]
  /\ rows' = rows \cup enrollment[k].copied
  /\ orphaned' = orphaned \cup enrollment[k].copied
  /\ enrollmentCount' = 1
  /\ UNCHANGED <<settings, due, audience, starts, entered, unlocated, deaths,
                 repeats, drops, churn>>

\* The START job is published unless the run enrolled another journey after
\* this one.
CronPublish(k) ==
  /\ enrollment[k].point = "committed"
  /\ enrollment' = [enrollment EXCEPT ![k] = Waiting]
  /\ \/ starts' = starts \cup
          {[listing |-> << >>, skip |-> 0, limit |-> enrollment[k].size,
            copy |-> 0, found |-> {}, at |-> "queued"]}
     \/ UNCHANGED starts
  /\ UNCHANGED <<timing, audience, rows, entered, unlocated, orphaned, deaths,
                 repeats, drops, churn>>

\* A row that is there; no collection to drop, as all customers are listed;
\* an error of another journey in the same transaction; a deadlock with an
\* ENROLLMENT job that waits for the journey's row; the end of the process.
CronFails(k) ==
  /\ enrollment[k].point # "queued"
  /\ enrollment' = [enrollment EXCEPT ![k] = Waiting]
  /\ UNCHANGED <<timing, audience, rows, starts, entered, unlocated, orphaned,
                 deaths, repeats, drops, churn>>

-----------------------------------------------------------------------------
(* StartProcessor.process.                                                 *)

\* job j has published what it had to; the broker may deliver it once more.
Handled(j, published) ==
  \/ /\ starts' = (starts \ {j}) \cup published
     /\ UNCHANGED repeats
  \/ /\ FaultsLeft /\ repeats < MaxRepeats
     /\ repeats' = repeats + 1
     /\ starts' = (starts \ {j})
          \cup {[j EXCEPT !.copy = repeats', !.at = "queued", !.found = {}]}
          \cup published

\* (Slip: Math.floor for both halves.)
SecondHalfFloor(j) ==
  [j EXCEPT !.skip = @ + j.limit \div 2, !.limit = @ \div 2]

FirstHalf(j) == [j EXCEPT !.limit = @ \div 2]

SecondHalf(j) ==
  [j EXCEPT !.skip = @ + j.limit \div 2, !.limit = (@ + 1) \div 2]

\* (Slip: the START job waits until an ENROLLMENT job is acknowledged.)
SplitAfterDone(j) ==
  /\ \E e \in Enrollments : enrollment[e].point = "done"
  /\ j.limit > BatchSize
  /\ j.at = "queued"
  /\ Handled(j, {FirstHalf(j), SecondHalf(j)})
  /\ UNCHANGED <<timing, audience, enrollment, rows, entered, unlocated,
                 orphaned, deaths, drops, churn>>

Split(j) ==
  /\ j.limit > BatchSize
  /\ j.at = "queued"
  /\ Handled(j, {FirstHalf(j), SecondHalf(j)})
  /\ UNCHANGED <<timing, audience, enrollment, rows, entered, unlocated,
                 orphaned, deaths, drops, churn>>

Find(j) ==
  /\ j.limit <= BatchSize
  /\ j.at = "queued"
  /\ starts' = (starts \ {j})
       \cup {[j EXCEPT !.at = "found",
                       !.found = Page(Listed(j.listing), j.skip, j.limit)]}
  /\ UNCHANGED <<timing, audience, enrollment, rows, entered, unlocated,
                 orphaned, deaths, repeats, drops, churn>>

\* (Slip: the limit is not looked at.)
EntriesNeverLimited == FALSE

\* rateLimitEntryByUniqueEnrolledCustomers: who has a row is enrolled.
EntriesLimited == settings.maxEnabled /\ Cardinality(rows) >= MaxEntries

\* findForWriteBulk, enrollCustomersInJourney and the publication of its
\* jobs.  Rows are only ever added, so that the count of every customer of
\* the batch is taken as one.
Enter(j) ==
  /\ j.at = "found"
  /\ IF EntriesLimited
     THEN UNCHANGED <<entered, unlocated>>
     ELSE /\ entered' =
               [c \in Customers |->
                  IF c \in j.found THEN entered[c] + 1 ELSE entered[c]]
          /\ unlocated' = unlocated \cup (j.found \ rows)
  /\ Handled(j, {})
  /\ UNCHANGED <<timing, audience, enrollment, rows, orphaned, deaths, drops,
                 churn>>

\* A START job whose retries are used up.
Drop(j) ==
  /\ FaultsLeft /\ drops < MaxDrops
  /\ drops' = drops + 1
  /\ starts' = starts \ {j}
  /\ orphaned' = orphaned \cup Page(j.listing, j.skip, j.limit)
  /\ UNCHANGED <<timing, audience, enrollment, rows, entered, unlocated,
                 deaths, repeats, churn>>

-----------------------------------------------------------------------------
Enroll(e) ==
  Count(e) \/ CopyPage(e) \/ CopyThrows(e) \/ Commit(e) \/ PublishStart(e)
    \/ Acknowledge(e)

EntryTiming(k) ==
  CronCount(k) \/ CronSave(k) \/ CopyPage(k) \/ CronCommit(k) \/ CronPublish(k)

Start(j) == Split(j) \/ Find(j) \/ Enter(j)

Next ==
  \/ AudienceChanges
  \/ \E e \in settings.jobs : Enroll(e) \/ Fails(e) \/ Dies(e)
  \/ TimeComes
  \/ \E k \in Crons : EntryTiming(k) \/ CronFails(k)
  \/ \E j \in starts : Start(j) \/ Drop(j)

Spec == Init /\ [][Next]_vars

\* Handlers go on, and START jobs are delivered.
Fairness ==
  /\ \A e \in Enrollments : WF_vars(e \in settings.jobs /\ Enroll(e))
  /\ WF_vars(\E j \in starts : Start(j))

FairSpec == Spec /\ Fairness

-----------------------------------------------------------------------------
(* Properties.                                                             *)

Entered == {c \in Customers : entered[c] > 0}

(***************************************************************************)
(* However the ranges are halved, whichever ENROLLMENT job is retried or   *)
(* delivered again, if two requests start the journey and a cron run       *)
(* enrolls it too: the first step job of a customer of a query is queued   *)
(* once, and once more for each START job that is delivered again after it *)
(* has published.                                                          *)
(***************************************************************************)
EnteredOnce ==
  settings.frozen => \A c \in Customers : entered[c] <= 1 + repeats

(***************************************************************************)
(* The START jobs of a query never find a customer without a row, whose    *)
(* first step job would have no location to carry on.                      *)
(***************************************************************************)
EnteredWithRow == settings.frozen => unlocated = {}

(***************************************************************************)
(* Without a maximum of entries, every locked row of a query's audience is *)
(* accounted for at all times: its customer has entered, is in the range   *)
(* of a START job, or its ENROLLMENT job is about to publish one; or that  *)
(* job ended just before it could, a START job was given up, or it was a   *)
(* cron run that wrote the row.                                            *)
(***************************************************************************)
Underway(c) ==
  \/ \E j \in starts : c \in Page(j.listing, j.skip, j.limit)
  \/ \E e \in Enrollments :
       enrollment[e].point = "committed" /\ c \in enrollment[e].copied

RowsAccounted ==
  settings.frozen /\ ~settings.maxEnabled =>
    \A c \in rows : entered[c] > 0 \/ Underway(c) \/ c \in orphaned

(***************************************************************************)
(* No more customers enter with a row to carry them on than the journey's  *)
(* maximum, however the audience changes between the ENROLLMENT jobs and   *)
(* their START jobs.  Of a query that is all who enter (EnteredWithRow).   *)
(***************************************************************************)
EntriesWithinMax ==
  settings.maxEnabled => Cardinality(Entered \ unlocated) <= MaxEntries

\* The rows an ENROLLMENT job writes do not stay in the start step for ever,
\* unless it ended between its commit and its publish, or a START job was
\* given up.
EnteredInTheEnd ==
  []<>(settings.frozen /\ ~settings.maxEnabled
         => rows \subseteq Entered \cup orphaned)

\* "Enter users at specific time", says the journey's editor
\* (FlowBuilderSegmentEditor.tsx): nobody enters a journey before that time.
EntersAtItsTime == settings.timed /\ ~due => Entered = {}
=============================================================================
