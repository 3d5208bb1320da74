--------------------------- MODULE JourneyLifecycle ---------------------------
(***************************************************************************)
(* The row of a journey and everything that saves it: the requests of      *)
(* users (JourneysService), the jobs that fill the system segments of a    *)
(* started journey (SegmentUpdateProcessor.handleCreateSystem) and the     *)
(* ENROLLMENT job (EnrollmentProcessor).                                   *)
(*                                                                         *)
(* All of them but markDeleted save a whole journey which they read, or    *)
(* were given in their job, earlier.  TypeORM's save loads the row again   *)
(* and writes the columns in which the journey it was given differs, so    *)
(* that a save is three steps here: reading, loading, writing.             *)
(***************************************************************************)
EXTENDS Integers, FiniteSets

CONSTANTS
  Requests,     \* the requests users send
  Kinds,        \* what they may ask for
  Segments,     \* the system segments of the journey, one for each branch
  Filled,       \* those that some customer matches
  Nothing,      \* no segment job
  MaxStarts,    \* bound: requests that start the journey
  MaxDeaths,    \* bound: requests and segment jobs whose process dies
  MaxErrors     \* bound: segment jobs that throw

ASSUME LifecycleAssumption ==
  /\ Kinds \subseteq {"start", "pause", "resume", "stop", "delete", "update",
                      "layout"}
  /\ IsFiniteSet(Requests)
  /\ IsFiniteSet(Segments)
  /\ Filled \subseteq Segments
  /\ Nothing \notin Requests \X Segments
  /\ MaxStarts \in Nat
  /\ MaxDeaths \in Nat
  /\ MaxErrors \in Nat

Jobs == Requests \X Segments

VARIABLES
  journey,      \* the committed row
  request,      \* request[r]: how far request r has come
  segment,      \* segment[j]: how far the createSystem job j has come
  enrollment,   \* enrollment[r]: the ENROLLMENT job of the start r
  enrolled,     \* the audience has its rows
  advisory,     \* the session that holds advisory lock 12345
  leaked,       \* that session went back to the pool with the lock
  overlapped,   \* one has read the journey before another had saved it
  deaths, errors

vars == <<journey, request, segment, enrollment, enrolled, advisory, leaked,
          overlapped, deaths, errors>>

-----------------------------------------------------------------------------
(* The row, and saves.                                                     *)

Journey ==
  [isActive : BOOLEAN, isEnrolling : BOOLEAN, isPaused : BOOLEAN,
   isStopped : BOOLEAN, isDeleted : BOOLEAN,
   completedSystemSegments : Nat, totalSystemSegments : Nat]

Draft ==
  [isActive |-> FALSE, isEnrolling |-> FALSE, isPaused |-> FALSE,
   isStopped |-> FALSE, isDeleted |-> FALSE,
   completedSystemSegments |-> 0, totalSystemSegments |-> 0]

Columns == DOMAIN Draft

\* Which columns a save writes, and with what.
Change == [columns : SUBSET Columns, values : Journey]

\* The columns a save writes: those that differ from the row it loads.
Difference(values) ==
  [columns |-> {col \in Columns : values[col] # journey[col]},
   values |-> values]

Written(change) ==
  [col \in Columns |->
     IF col \in change.columns THEN change.values[col] ELSE journey[col]]

\* Someone has read the journey and not saved it yet.
Overlaps ==
  \/ \E r \in Requests : request[r].at \in {"read", "loaded"}
  \/ \E j \in Jobs : segment[j].at \in {"read", "loaded", "saved"}
  \/ \E r \in Requests : enrollment[r].at = "loaded"

\* The row is locked from a segment job's save to its commit.
RowLocked == \E j \in Jobs : segment[j].at = "saved"

-----------------------------------------------------------------------------
(* State.                                                                  *)

RequestPoints == {"idle", "read", "loaded", "saved", "done", "refused"}
JobPoints == {"none", "queued", "filled", "read", "loaded", "saved",
              "committed", "done", "failed"}

NoChange == [columns |-> {}, values |-> Draft]

RequestState ==
  [at : RequestPoints, kind : Kinds \cup {"none"}, values : Journey,
   change : Change]

SegmentState ==
  [at : JobPoints, filled : BOOLEAN, values : Journey, change : Change]

EnrollmentState ==
  [at : {"none", "queued", "loaded", "done", "failed"}, values : Journey,
   change : Change]

TypeOK ==
  /\ journey \in Journey
  /\ request \in [Requests -> RequestState]
  /\ segment \in [Jobs -> SegmentState]
  /\ enrollment \in [Requests -> EnrollmentState]
  /\ enrolled \in BOOLEAN
  /\ advisory \in Jobs \cup {Nothing}
  /\ leaked \in BOOLEAN
  /\ overlapped \in BOOLEAN
  /\ deaths \in 0..MaxDeaths
  /\ errors \in 0..MaxErrors

Init ==
  /\ journey = Draft
  /\ request = [r \in Requests |->
       [at |-> "idle", kind |-> "none", values |-> Draft, change |-> NoChange]]
  /\ segment = [j \in Jobs |->
       [at |-> "none", filled |-> FALSE, values |-> Draft,
        change |-> NoChange]]
  /\ enrollment = [r \in Requests |->
       [at |-> "none", values |-> Draft, change |-> NoChange]]
  /\ enrolled = FALSE
  /\ advisory = Nothing
  /\ leaked = FALSE
  /\ overlapped = FALSE
  /\ deaths = 0
  /\ errors = 0

-----------------------------------------------------------------------------
(* Requests.                                                               *)

Starts == {r \in Requests : request[r].kind = "start"}

\* The checks each request makes of the journey it has read.
Allowed(kind, j) ==
  CASE kind = "start" -> ~j.isActive /\ ~j.isStopped /\ ~j.isDeleted
    [] kind \in {"pause", "resume"} ->
         ~j.isStopped /\ j.isActive /\ ~j.isDeleted
    [] kind = "stop" -> j.isActive
    [] kind = "update" -> ~j.isDeleted /\ ~j.isStopped
    [] kind = "layout" ->
         ~j.isActive /\ ~j.isDeleted /\ ~j.isPaused
    [] OTHER -> TRUE

\* The journey it saves.  (What update and layout change besides is not
\* modelled; enrollment_count is not.)
Saved(kind, j) ==
  CASE kind = "start" ->
         [j EXCEPT !.isActive = TRUE, !.isEnrolling = TRUE,
                   !.totalSystemSegments = Cardinality(Segments)]
    [] kind = "pause" -> [j EXCEPT !.isPaused = TRUE]
    [] kind = "resume" -> [j EXCEPT !.isPaused = FALSE]
    [] kind = "stop" -> [j EXCEPT !.isStopped = TRUE, !.isActive = FALSE,
                                  !.isPaused = TRUE]
    [] OTHER -> j

Read(r) ==
  /\ request[r].at = "idle"
  /\ \E kind \in Kinds \ {"delete"} :
       /\ kind = "start" => Cardinality(Starts) < MaxStarts
       /\ request' = [request EXCEPT ![r] =
            IF Allowed(kind, journey)
            THEN [@ EXCEPT !.kind = kind, !.at = "read",
                           !.values = Saved(kind, journey)]
            ELSE [@ EXCEPT !.kind = kind, !.at = "refused"]]
  /\ overlapped' = (overlapped \/ Overlaps)
  /\ UNCHANGED <<journey, segment, enrollment, enrolled, advisory, leaked,
                 deaths, errors>>

Load(r) ==
  /\ request[r].at = "read"
  /\ request' = [request EXCEPT ![r] =
       [@ EXCEPT !.at = "loaded", !.change = Difference(request[r].values)]]
  /\ UNCHANGED <<journey, segment, enrollment, enrolled, advisory, leaked,
                 deaths, errors, overlapped>>

Write(r) ==
  /\ request[r].at = "loaded"
  /\ ~RowLocked
  /\ journey' = Written(request[r].change)
  /\ request' = [request EXCEPT ![r].at =
                   IF request[r].kind = "start" THEN "saved" ELSE "done"]
  /\ UNCHANGED <<segment, enrollment, enrolled, advisory, leaked, deaths,
                 errors, overlapped>>

\* start has committed: one createSystem job for each segment, or else the
\* ENROLLMENT job, each with the journey as it was saved.
Publish(r) ==
  /\ request[r].at = "saved"
  /\ request' = [request EXCEPT ![r].at = "done"]
  /\ IF Segments # {}
     THEN /\ segment' = [j \in Jobs |->
               IF j[1] = r THEN [segment[j] EXCEPT !.at = "queued"]
               ELSE segment[j]]
          /\ UNCHANGED enrollment
     ELSE /\ enrollment' = [enrollment EXCEPT ![r] =
               [@ EXCEPT !.at = "queued", !.values = request[r].values]]
          /\ UNCHANGED segment
  /\ UNCHANGED <<journey, enrolled, advisory, leaked, deaths, errors,
                 overlapped>>

\* markDeleted updates the row in one statement.
Delete(r) ==
  /\ request[r].at = "idle"
  /\ "delete" \in Kinds
  /\ ~RowLocked
  /\ request' = [request EXCEPT ![r] =
       [@ EXCEPT !.at = "done", !.kind = "delete"]]
  /\ journey' = [journey EXCEPT !.isActive = FALSE, !.isDeleted = TRUE,
                                !.isPaused = TRUE, !.isStopped = TRUE]
  /\ overlapped' = (overlapped \/ Overlaps)
  /\ UNCHANGED <<segment, enrollment, enrolled, advisory, leaked, deaths,
                 errors>>

\* The process of a request dies.  What start has committed stays, and its
\* jobs are not published.
RequestDies(r) ==
  /\ request[r].at \in {"read", "loaded", "saved"}
  /\ deaths < MaxDeaths
  /\ deaths' = deaths + 1
  /\ request' = [request EXCEPT ![r].at = "done"]
  /\ UNCHANGED <<journey, segment, enrollment, enrolled, advisory, leaked,
                 errors, overlapped>>

-----------------------------------------------------------------------------
(* SegmentUpdateProcessor.handleCreateSystem.                              *)

Handled(j) ==
  segment[j].at \in {"filled", "read", "loaded", "saved", "committed"}

\* COPY of the customers that match into the segment.  It fails if they are
\* there already.
Fill(j) ==
  /\ segment[j].at = "queued"
  /\ segment' = [segment EXCEPT ![j].at =
       IF segment[j].filled /\ j[2] \in Filled THEN "failed" ELSE "filled"]
  /\ UNCHANGED <<journey, request, enrollment, enrolled, advisory, leaked,
                 deaths, errors, overlapped>>

\* (Slip: the count is taken down.)
CountedDown ==
  [journey EXCEPT !.completedSystemSegments =
     journey.completedSystemSegments - 1]

Counted ==
  [journey EXCEPT !.completedSystemSegments =
     journey.completedSystemSegments + 1]

\* (Slip: the journey the job was given is saved, not the one read.)
ReadJourneyOfJob(j) ==
  /\ segment[j].at = "filled"
  /\ advisory = Nothing \/ leaked
  /\ advisory' = j
  /\ segment' = [segment EXCEPT ![j] =
       [@ EXCEPT !.at = "read",
                 !.values = [request[j[1]].values EXCEPT
                   !.completedSystemSegments =
                     journey.completedSystemSegments + 1]]]
  /\ overlapped' = (overlapped \/ Overlaps)
  /\ UNCHANGED <<journey, request, enrollment, enrolled, leaked, deaths,
                 errors>>

\* A leaked lock can be taken again only over the connection that has it.
ReadJourney(j) ==
  /\ segment[j].at = "filled"
  /\ advisory = Nothing \/ leaked
  /\ advisory' = j
  /\ segment' = [segment EXCEPT ![j] =
       [@ EXCEPT !.at = "read", !.values = Counted]]
  /\ overlapped' = (overlapped \/ Overlaps)
  /\ UNCHANGED <<journey, request, enrollment, enrolled, leaked, deaths,
                 errors>>

LoadJourney(j) ==
  /\ segment[j].at = "read"
  /\ segment' = [segment EXCEPT ![j] =
       [@ EXCEPT !.at = "loaded", !.change = Difference(segment[j].values)]]
  /\ UNCHANGED <<journey, request, enrollment, enrolled, advisory, leaked,
                 deaths, errors, overlapped>>

\* (Slip: no pg_advisory_unlock.)
SaveJourneyLocked(j) ==
  /\ segment[j].at = "loaded"
  /\ ~RowLocked
  /\ segment' = [segment EXCEPT ![j].at = "saved"]
  /\ UNCHANGED <<journey, request, enrollment, enrolled, advisory, leaked,
                 deaths, errors, overlapped>>

\* The save, and pg_advisory_unlock.
SaveJourney(j) ==
  /\ segment[j].at = "loaded"
  /\ ~RowLocked
  /\ segment' = [segment EXCEPT ![j].at = "saved"]
  /\ advisory' = IF leaked THEN advisory ELSE Nothing
  /\ UNCHANGED <<journey, request, enrollment, enrolled, leaked, deaths,
                 errors, overlapped>>

CommitSegment(j) ==
  /\ segment[j].at = "saved"
  /\ journey' = Written(segment[j].change)
  /\ segment' = [segment EXCEPT ![j] =
       [@ EXCEPT !.at = "committed", !.filled = TRUE]]
  /\ UNCHANGED <<request, enrollment, enrolled, advisory, leaked, deaths,
                 errors, overlapped>>

\* (Slip: the segment that begins to be the last is taken for the last.)
LastTooSoon(j) ==
  segment[j].values.completedSystemSegments + 1
    >= segment[j].values.totalSystemSegments

Last(j) ==
  segment[j].values.completedSystemSegments
    = segment[j].values.totalSystemSegments

\* The ENROLLMENT job has the journey of the segment's job.  (A second one
\* for the same start would change nothing: see EnrollLoad.)
PublishEnrollment(j) ==
  /\ segment[j].at = "committed"
  /\ segment' = [segment EXCEPT ![j].at = "done"]
  /\ enrollment' =
       IF Last(j) /\ enrollment[j[1]].at = "none"
       THEN [enrollment EXCEPT ![j[1]] =
               [@ EXCEPT !.at = "queued", !.values = request[j[1]].values]]
       ELSE enrollment
  /\ UNCHANGED <<journey, request, enrolled, advisory, leaked, deaths, errors,
                 overlapped>>

\* The error is swallowed and the transaction rolled back; between lock and
\* unlock the connection goes back to the pool with the lock.
SegmentThrows(j) ==
  /\ segment[j].at \in {"queued", "filled", "read", "loaded", "saved"}
  /\ errors < MaxErrors
  /\ errors' = errors + 1
  /\ segment' = [segment EXCEPT ![j].at = "failed"]
  /\ leaked' = (leaked \/ segment[j].at \in {"read", "loaded"})
  /\ UNCHANGED <<journey, request, enrollment, enrolled, advisory, deaths,
                 overlapped>>

\* The process dies before the acknowledgement has arrived: the job is
\* delivered again, and a lock of the session is released.
SegmentDies(j) ==
  /\ Handled(j) \/ segment[j].at = "done"
  /\ deaths < MaxDeaths
  /\ deaths' = deaths + 1
  /\ segment' = [segment EXCEPT ![j].at = "queued"]
  /\ advisory' = IF advisory = j THEN Nothing ELSE advisory
  /\ leaked' = (leaked /\ advisory # j)
  /\ UNCHANGED <<journey, request, enrollment, enrolled, errors, overlapped>>

-----------------------------------------------------------------------------
(* EnrollmentProcessor.process, seen from the journey's row.               *)

\* The rows of the audience are copied; a second COPY waits for the first
\* transaction and then fails.
EnrollLoad(r) ==
  /\ enrollment[r].at = "queued"
  /\ \A q \in Requests : enrollment[q].at # "loaded"
  /\ enrollment' = [enrollment EXCEPT ![r] =
       [@ EXCEPT !.at = IF enrolled THEN "failed" ELSE "loaded",
                 !.change = Difference([enrollment[r].values EXCEPT
                                          !.isEnrolling = FALSE])]]
  /\ overlapped' = (overlapped \/ Overlaps)
  /\ UNCHANGED <<journey, request, segment, enrolled, advisory, leaked,
                 deaths, errors>>

EnrollCommit(r) ==
  /\ enrollment[r].at = "loaded"
  /\ ~RowLocked
  /\ journey' = Written(enrollment[r].change)
  /\ enrolled' = TRUE
  /\ enrollment' = [enrollment EXCEPT ![r].at = "done"]
  /\ UNCHANGED <<request, segment, advisory, leaked, deaths, errors,
                 overlapped>>

-----------------------------------------------------------------------------
Serve(r) == Load(r) \/ Write(r) \/ Publish(r)

Process(j) ==
  Fill(j) \/ ReadJourney(j) \/ LoadJourney(j) \/ SaveJourney(j)
    \/ CommitSegment(j) \/ PublishEnrollment(j)

Enroll(r) == EnrollLoad(r) \/ EnrollCommit(r)

Next ==
  \/ \E r \in Requests : 
       Read(r) \/ Delete(r) \/ Serve(r) \/ RequestDies(r) \/ Enroll(r)
  \/ \E j \in Jobs : Process(j) \/ SegmentThrows(j) \/ SegmentDies(j)

Spec == Init /\ [][Next]_vars

\* A request that was accepted is carried out, and jobs are handled.
FairSpec ==
  /\ Spec
  /\ \A r \in Requests : WF_vars(Serve(r)) /\ WF_vars(Enroll(r))
  /\ \A j \in Jobs : WF_vars(Process(j))

-----------------------------------------------------------------------------
(* Properties.                                                             *)

\* No two starts of the journey have both queued jobs for its segments.
StartedOnce ==
  \A j, k \in Jobs : segment[j].at # "none" /\ segment[k].at # "none" => j[1] = k[1]

\* No job of an empty segment was delivered again, which counts it again.
CountedOnce == deaths = 0 \/ Filled = Segments

(***************************************************************************)
(* Customers are enrolled only when every system segment has its           *)
(* customers: the multisplits of the journey decide by membership.  It     *)
(* rests on the count never running ahead of the segments, whichever saves *)
(* of the row overlap, unless the journey was started twice, or the job of *)
(* an empty segment was delivered again.                                   *)
(***************************************************************************)
EnrollsWhenFilled ==
  StartedOnce /\ CountedOnce =>
    \A r \in Requests :
      enrollment[r].at # "none" => \A s \in Segments : segment[<<r, s>>].filled

(***************************************************************************)
(* A started journey is enrolled and leaves the state "Enrolling": the     *)
(* count of its segments reaches the total, and the last of them publishes *)
(* the ENROLLMENT job.  Excepted are the journeys whose count may be lost: *)
(* one has read the row before another had saved it, a segment's job has   *)
(* thrown, or a process has died.                                          *)
(***************************************************************************)
Disturbed == overlapped \/ deaths + errors > 0

EnrollsInTheEnd ==
  journey.isEnrolling ~> (enrolled /\ ~journey.isEnrolling) \/ Disturbed

(***************************************************************************)
(* A journey that is stopped or deleted stays so, as long as no save of    *)
(* the row overlaps another, nor an ENROLLMENT job under way holds the     *)
(* journey as it was before: setPaused, stop, start, update and the jobs   *)
(* save whole journeys and still undo nothing.                             *)
(***************************************************************************)
Enrolling == \E r \in Requests : enrollment[r].at \in {"queued", "loaded"}

EndStays ==
  [][~overlapped /\ ~Enrolling =>
       \A flag \in {"isStopped", "isDeleted"} :
         journey[flag] => journey'[flag]]_vars

(***************************************************************************)
(* FlowViewerStopModal.tsx:33: "Please note that stopping the journey is   *)
(* an irreversible action, and cannot be resumed".                         *)
(***************************************************************************)
StopIsFinal == [][journey.isStopped => journey'.isStopped]_vars
=============================================================================
