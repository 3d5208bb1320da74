------------------------ MODULE JourneyLifecycleProofs ------------------------
(***************************************************************************)
(* What holds of JourneyLifecycle for every number of requests, segments,  *)
(* errors and deaths: the enrollment waits for the last segment, and an    *)
(* end of the journey stays while saves do not overlap.                    *)
(***************************************************************************)
EXTENDS JourneyLifecycle, FiniteSetTheorems, TLAPS

-----------------------------------------------------------------------------
(* Type correctness.                                                       *)

LEMMA SegmentCount == Cardinality(Segments) \in Nat
BY FS_CardinalityType, LifecycleAssumption

\* What a save writes is a journey.
LEMMA WrittenType ==
  ASSUME NEW change \in Change, journey \in Journey
  PROVE  Written(change) \in Journey
<1>1. Columns = {"isActive", "isEnrolling", "isPaused", "isStopped",
                 "isDeleted", "completedSystemSegments",
                 "totalSystemSegments"}
  BY DEF Columns, Draft
<1>2. change.values \in Journey
  BY DEF Change
<1>3. \A col \in Columns :
        Written(change)[col] \in {change.values[col], journey[col]}
  BY DEF Written
<1> QED BY <1>1, <1>2, <1>3 DEF Written, Journey

LEMMA DifferenceType ==
  ASSUME NEW values \in Journey
  PROVE  Difference(values) \in Change
BY DEF Difference, Change

LEMMA SavedType ==
  ASSUME NEW kind \in Kinds, NEW j \in Journey
  PROVE  Saved(kind, j) \in Journey
BY SegmentCount DEF Saved, Journey

LEMMA CountedType ==
  ASSUME journey \in Journey
  PROVE  Counted \in Journey
BY DEF Counted, Journey

LEMMA DraftType == Draft \in Journey /\ NoChange \in Change
<1>1. Draft \in Journey
  BY DEF Draft, Journey
<1> QED BY <1>1 DEF NoChange, Change

\* Whatever a request, a segment's job or an ENROLLMENT job comes to is one
\* of its states.
LEMMA StateTypes ==
  ASSUME TypeOK
  PROVE  /\ \A r \in Requests, at \in RequestPoints :
              [request[r] EXCEPT !.at = at] \in RequestState
         /\ \A j \in Jobs, at \in JobPoints :
              /\ [segment[j] EXCEPT !.at = at] \in SegmentState
              /\ [segment[j] EXCEPT !.at = at, !.filled = TRUE] \in SegmentState
BY DEF TypeOK, RequestState, SegmentState

\* The type invariant is inductive.
LEMMA TypeStep == TypeOK /\ [Next]_vars => TypeOK'
<1> SUFFICES ASSUME TypeOK, [Next]_vars PROVE TypeOK'
  OBVIOUS
<1> USE LifecycleAssumption
<1>1. ASSUME NEW r \in Requests, Read(r) PROVE TypeOK'
  <2>1. PICK kind \in Kinds :
          request' = [request EXCEPT ![r] =
            IF Allowed(kind, journey)
            THEN [@ EXCEPT !.kind = kind, !.at = "read",
                           !.values = Saved(kind, journey)]
            ELSE [@ EXCEPT !.kind = kind, !.at = "refused"]]
    BY <1>1 DEF Read
  <2>2. Saved(kind, journey) \in Journey
    BY SavedType DEF TypeOK
  <2>3. /\ [request[r] EXCEPT !.kind = kind, !.at = "read",
                             !.values = Saved(kind, journey)] \in RequestState
        /\ [request[r] EXCEPT !.kind = kind, !.at = "refused"] \in RequestState
    BY <2>2 DEF TypeOK, RequestState, RequestPoints
  <2>4. request' \in [Requests -> RequestState]
    BY <2>1, <2>3 DEF TypeOK
  <2> QED BY <1>1, <2>4 DEF Read, TypeOK
<1>2. ASSUME NEW r \in Requests, Load(r) PROVE TypeOK'
  <2>1. Difference(request[r].values) \in Change
    BY DifferenceType DEF TypeOK, RequestState
  <2>2. [request[r] EXCEPT !.at = "loaded", !.change = Difference(request[r].values)]
          \in RequestState
    BY <2>1 DEF TypeOK, RequestState, RequestPoints
  <2> QED BY <1>2, <2>2 DEF Load, TypeOK
<1>3. ASSUME NEW r \in Requests, Write(r) PROVE TypeOK'
  <2>1. Written(request[r].change) \in Journey
    BY WrittenType DEF TypeOK, RequestState
  <2>2. \A at \in {"saved", "done"} : [request[r] EXCEPT !.at = at] \in RequestState
    BY StateTypes DEF RequestPoints
  <2> QED BY <1>3, <2>1, <2>2 DEF Write, TypeOK
<1>4. ASSUME NEW r \in Requests, Publish(r) PROVE TypeOK'
  <2>1. \A j \in Jobs : [segment[j] EXCEPT !.at = "queued"] \in SegmentState
    BY StateTypes DEF JobPoints
  <2>2. [enrollment[r] EXCEPT !.at = "queued", !.values = request[r].values]
          \in EnrollmentState
    BY DEF TypeOK, EnrollmentState, RequestState
  <2>3. [request[r] EXCEPT !.at = "done"] \in RequestState
    BY StateTypes DEF RequestPoints
  <2> QED BY <1>4, <2>1, <2>2, <2>3 DEF Publish, TypeOK
<1>5. ASSUME NEW r \in Requests, Delete(r) PROVE TypeOK'
  <2>1. journey' \in Journey
    BY <1>5 DEF Delete, TypeOK, Journey
  <2>2. [request[r] EXCEPT !.at = "done", !.kind = "delete"] \in RequestState
    BY <1>5 DEF Delete, TypeOK, RequestState, RequestPoints
  <2> QED BY <1>5, <2>1, <2>2 DEF Delete, TypeOK
<1>6. ASSUME NEW r \in Requests, RequestDies(r) PROVE TypeOK'
  <2>1. [request[r] EXCEPT !.at = "done"] \in RequestState
    BY StateTypes DEF RequestPoints
  <2> QED BY <1>6, <2>1 DEF RequestDies, TypeOK
<1>7. ASSUME NEW j \in Jobs, Fill(j) PROVE TypeOK'
  <2>1. \A at \in {"failed", "filled"} : [segment[j] EXCEPT !.at = at] \in SegmentState
    BY StateTypes DEF JobPoints
  <2> QED BY <1>7, <2>1 DEF Fill, TypeOK
<1>8. ASSUME NEW j \in Jobs, ReadJourney(j) PROVE TypeOK'
  <2>1. [segment[j] EXCEPT !.at = "read", !.values = Counted] \in SegmentState
    BY CountedType DEF TypeOK, SegmentState, JobPoints
  <2> QED BY <1>8, <2>1 DEF ReadJourney, TypeOK
<1>9. ASSUME NEW j \in Jobs, LoadJourney(j) PROVE TypeOK'
  <2>1. Difference(segment[j].values) \in Change
    BY DifferenceType DEF TypeOK, SegmentState
  <2>2. [segment[j] EXCEPT !.at = "loaded", !.change = Difference(segment[j].values)]
          \in SegmentState
    BY <2>1 DEF TypeOK, SegmentState, JobPoints
  <2> QED BY <1>9, <2>2 DEF LoadJourney, TypeOK
<1>10. ASSUME NEW j \in Jobs, SaveJourney(j) PROVE TypeOK'
  <2>1. [segment[j] EXCEPT !.at = "saved"] \in SegmentState
    BY StateTypes DEF JobPoints
  <2> QED BY <1>10, <2>1 DEF SaveJourney, TypeOK
<1>11. ASSUME NEW j \in Jobs, CommitSegment(j) PROVE TypeOK'
  <2>1. Written(segment[j].change) \in Journey
    BY WrittenType DEF TypeOK, SegmentState
  <2>2. [segment[j] EXCEPT !.at = "committed", !.filled = TRUE] \in SegmentState
    BY StateTypes DEF JobPoints
  <2> QED BY <1>11, <2>1, <2>2 DEF CommitSegment, TypeOK
<1>12. ASSUME NEW j \in Jobs, PublishEnrollment(j) PROVE TypeOK'
  <2>1. j[1] \in Requests
    BY DEF Jobs
  <2>2. [enrollment[j[1]] EXCEPT !.at = "queued", !.values = request[j[1]].values]
          \in EnrollmentState
    BY <2>1 DEF TypeOK, EnrollmentState, RequestState
  <2>3. [segment[j] EXCEPT !.at = "done"] \in SegmentState
    BY StateTypes DEF JobPoints
  <2> QED BY <1>12, <2>2, <2>3 DEF PublishEnrollment, TypeOK
<1>13. ASSUME NEW j \in Jobs, SegmentThrows(j) PROVE TypeOK'
  <2>1. [segment[j] EXCEPT !.at = "failed"] \in SegmentState
    BY StateTypes DEF JobPoints
  <2> QED BY <1>13, <2>1 DEF SegmentThrows, TypeOK
<1>14. ASSUME NEW j \in Jobs, SegmentDies(j) PROVE TypeOK'
  <2>1. [segment[j] EXCEPT !.at = "queued"] \in SegmentState
    BY StateTypes DEF JobPoints
  <2> QED BY <1>14, <2>1 DEF SegmentDies, TypeOK
<1>15. ASSUME NEW r \in Requests, EnrollLoad(r) PROVE TypeOK'
  <2>1. [enrollment[r].values EXCEPT !.isEnrolling = FALSE] \in Journey
    BY DEF TypeOK, EnrollmentState, Journey
  <2>2. Difference([enrollment[r].values EXCEPT !.isEnrolling = FALSE]) \in Change
    BY <2>1, DifferenceType
  <2>3. \A change \in Change, at \in {"failed", "loaded"} :
          [enrollment[r] EXCEPT !.at = at, !.change = change] \in EnrollmentState
    BY DEF TypeOK, EnrollmentState
  <2>4. enrollment' \in [Requests -> EnrollmentState]
    BY <1>15, <2>2, <2>3 DEF EnrollLoad, TypeOK
  <2> QED BY <1>15, <2>4 DEF EnrollLoad, TypeOK
<1>16. ASSUME NEW r \in Requests, EnrollCommit(r) PROVE TypeOK'
  <2>1. Written(enrollment[r].change) \in Journey
    BY WrittenType DEF TypeOK, EnrollmentState
  <2>2. [enrollment[r] EXCEPT !.at = "done"] \in EnrollmentState
    BY DEF TypeOK, EnrollmentState
  <2> QED BY <1>16, <2>1, <2>2 DEF EnrollCommit, TypeOK
<1>17. CASE UNCHANGED vars
  BY <1>17 DEF vars, TypeOK
<1> QED
  BY <1>1, <1>2, <1>3, <1>4, <1>5, <1>6, <1>7, <1>8, <1>9, <1>10, <1>11, <1>12,
     <1>13, <1>14, <1>15, <1>16, <1>17
  DEF Next, Serve, Enroll, Process

\* Every step is typed: counts saved over one another stay numbers.
THEOREM TypeInvariant == Spec => []TypeOK
<1>1. ASSUME Init PROVE TypeOK
  <2>1. [at |-> "idle", kind |-> "none", values |-> Draft, change |-> NoChange]
          \in RequestState
    BY DraftType DEF RequestState, RequestPoints
  <2>2. [at |-> "none", filled |-> FALSE, values |-> Draft, change |-> NoChange]
          \in SegmentState
    BY DraftType DEF SegmentState, JobPoints
  <2>3. [at |-> "none", values |-> Draft, change |-> NoChange] \in EnrollmentState
    BY DraftType DEF EnrollmentState
  <2>4. deaths \in 0..MaxDeaths /\ errors \in 0..MaxErrors
    BY <1>1, LifecycleAssumption DEF Init
  <2>5. /\ request \in [Requests -> RequestState]
        /\ segment \in [Jobs -> SegmentState]
        /\ enrollment \in [Requests -> EnrollmentState]
    BY <1>1, <2>1, <2>2, <2>3 DEF Init
  <2> QED BY <1>1, <2>4, <2>5, DraftType DEF Init, TypeOK
<1> QED BY <1>1, TypeStep, PTL DEF Spec

-----------------------------------------------------------------------------
(* The count never runs ahead of the segments.                             *)

FilledSegments ==
  {s \in Segments : \E r \in Requests : segment[<<r, s>>].filled}

Count == Cardinality(FilledSegments)

\* A row that counts at most n segments, and expects all or, as before the
\* start, none.
Within(row, n) ==
  /\ row.completedSystemSegments <= n
  /\ row.totalSystemSegments \in {0, Cardinality(Segments)}

\* A request that has not published has no jobs; one that starts nothing never
\* will.
Unpublished ==
  \A j \in Jobs :
    request[j[1]].at # "done" => segment[j].at = "none" /\ ~segment[j].filled

\* A job that is under way has not filled its segment before; nor has one
\* that waits to be handled for the first time.
JobsFillOnce ==
  \A j \in Jobs :
    /\ segment[j].filled => segment[j].at # "none"
    /\ segment[j].at \in {"filled", "read", "loaded", "saved"} =>
         ~segment[j].filled
    /\ segment[j].at = "queued" /\ deaths = 0 => ~segment[j].filled

\* What is, or may be, saved.
RowsWithin ==
  /\ Within(journey, Count)
  /\ \A r \in Requests :
       /\ Within(request[r].values, Count)
       /\ Within(request[r].change.values, Count)
       /\ Within(enrollment[r].values, Count)
       /\ Within(enrollment[r].change.values, Count)

\* A segment's job counts one more, which is its own.
JobsWithin ==
  \A j \in Jobs :
    /\ segment[j].at \in {"read", "loaded", "saved", "committed"} =>
         segment[j].values.completedSystemSegments >= 1
    /\ segment[j].at \in {"read", "loaded", "saved"} =>
         Within(segment[j].values, Count + 1)
    /\ segment[j].at \in {"loaded", "saved"} =>
         Within(segment[j].change.values, Count + 1)
    /\ segment[j].at = "committed" => Within(segment[j].values, Count)

\* The enrollment itself.
Enrolls ==
  \A r \in Requests :
    enrollment[r].at # "none" => \A s \in Segments : segment[<<r, s>>].filled

\* The journey was started once so far, and no empty segment counted twice.
Once == StartedOnce /\ CountedOnce

FillInv == Unpublished /\ JobsFillOnce /\ RowsWithin /\ JobsWithin /\ Enrolls

LEMMA CountType == Count \in Nat
<1>1. FilledSegments \in SUBSET Segments
  BY DEF FilledSegments
<1> QED BY <1>1, FS_Subset, FS_CardinalityType, LifecycleAssumption DEF Count

\* A save of what counts at most n leaves a row that counts at most n.
LEMMA WrittenWithin ==
  ASSUME NEW n, NEW change \in Change, Within(journey, n),
         Within(change.values, n)
  PROVE  Within(Written(change), n)
BY DEF Within, Written, Columns, Draft

LEMMA DifferenceValues ==
  ASSUME NEW values PROVE Difference(values).values = values
BY DEF Difference

\* Requests count no segments.
LEMMA SavedWithin ==
  ASSUME NEW kind \in Kinds, NEW j \in Journey, NEW n, Within(j, n)
  PROVE  Within(Saved(kind, j), n)
BY DEF Saved, Within, Journey

\* Nothing but the commit of its job makes a segment filled.
LEMMA SameCount ==
  ASSUME \A j \in Jobs : segment'[j].filled = segment[j].filled
  PROVE  Count' = Count /\ FilledSegments' = FilledSegments
<1>1. FilledSegments' = FilledSegments
  BY DEF FilledSegments, Jobs
<1> QED BY <1>1 DEF Count

LEMMA CommitCounts ==
  ASSUME TypeOK, FillInv, Once, NEW j \in Jobs, CommitSegment(j)
  PROVE  Count' = Count + 1
<1>1. PICK q \in Requests, s \in Segments : j = <<q, s>>
  BY DEF Jobs
<1>2. s \notin FilledSegments
  <2>1. SUFFICES ASSUME NEW r \in Requests, segment[<<r, s>>].filled PROVE FALSE
    BY DEF FilledSegments
  <2>2. <<r, s>> \in Jobs /\ <<r, s>>[1] = r /\ j[1] = q
    BY <1>1 DEF Jobs
  <2>3. segment[<<r, s>>].at # "none" /\ segment[j].at # "none"
    BY <2>1, <2>2 DEF FillInv, JobsFillOnce, CommitSegment
  <2>4. r = q
    BY <2>2, <2>3 DEF Once, StartedOnce
  <2> QED BY <1>1, <2>1, <2>4 DEF FillInv, JobsFillOnce, CommitSegment
<1>3. FilledSegments' = FilledSegments \cup {s}
  <2>1. \A k \in Jobs : segment'[k].filled = (k = j \/ segment[k].filled)
    BY DEF CommitSegment, TypeOK, SegmentState
  <2> QED BY <1>1, <2>1 DEF FilledSegments, Jobs
<1>4. IsFiniteSet(FilledSegments)
  <2>1. FilledSegments \in SUBSET Segments
    BY DEF FilledSegments
  <2> QED BY <2>1, FS_Subset, LifecycleAssumption
<1> QED BY <1>2, <1>3, <1>4, FS_AddElement DEF Count

\* A segment's job that has committed nothing disturbs no part of the
\* invariant but those about jobs.
LEMMA JobMoves ==
  ASSUME FillInv, UNCHANGED <<journey, request, enrollment>>,
         \A j \in Jobs : /\ segment'[j].filled = segment[j].filled
                         /\ segment[j].at = "none" => segment'[j].at = "none"
  PROVE  /\ Count' = Count
         /\ Unpublished' /\ RowsWithin' /\ Enrolls'
<1>1. Count' = Count
  BY SameCount
<1>2. Unpublished'
  BY DEF FillInv, Unpublished
<1>3. RowsWithin'
  BY <1>1 DEF FillInv, RowsWithin, Within
<1>4. Enrolls'
  BY DEF FillInv, Enrolls, Jobs
<1> QED BY <1>1, <1>2, <1>3, <1>4

\* Nor does a step of a request or an ENROLLMENT job disturb those.
LEMMA OthersMove ==
  ASSUME FillInv, UNCHANGED segment, deaths' = 0 => deaths = 0,
         \A r \in Requests : request[r].at = "done" => request'[r].at = "done"
  PROVE  Count' = Count /\ Unpublished' /\ JobsFillOnce' /\ JobsWithin'
<1>1. Count' = Count
  BY SameCount
<1>2. Unpublished'
  BY DEF FillInv, Unpublished, Jobs
<1>3. JobsFillOnce'
  BY DEF FillInv, JobsFillOnce
<1>4. JobsWithin'
  BY <1>1 DEF FillInv, JobsWithin, Within
<1> QED BY <1>1, <1>2, <1>3, <1>4

\* The last job to commit finds all segments filled.
LEMMA LastIsLast ==
  ASSUME TypeOK, FillInv, Once, NEW j \in Jobs, segment[j].at = "committed",
         Last(j)
  PROVE  \A s \in Segments : segment[<<j[1], s>>].filled
<1> USE CountType, SegmentCount
<1>1. /\ segment[j].values \in Journey
      /\ segment[j].values.completedSystemSegments >= 1
      /\ Within(segment[j].values, Count)
  BY DEF TypeOK, SegmentState, FillInv, JobsWithin
<1>2. Cardinality(Segments) <= Count
  BY <1>1 DEF Last, Within, Journey
<1>3. FilledSegments = Segments
  <2>1. FilledSegments \in SUBSET Segments
    BY DEF FilledSegments
  <2>2. Cardinality(FilledSegments) <= Cardinality(Segments)
    BY <2>1, FS_Subset, LifecycleAssumption
  <2> QED BY <1>2, <2>1, <2>2, FS_Subset, LifecycleAssumption DEF Count
<1>4. SUFFICES ASSUME NEW s \in Segments PROVE segment[<<j[1], s>>].filled
  OBVIOUS
<1>5. PICK r \in Requests : segment[<<r, s>>].filled
  BY <1>3 DEF FilledSegments
<1>6. <<r, s>> \in Jobs /\ <<r, s>>[1] = r
  BY DEF Jobs
<1>7. segment[<<r, s>>].at # "none"
  BY <1>5, <1>6 DEF FillInv, JobsFillOnce
<1> QED BY <1>5, <1>6, <1>7 DEF Once, StartedOnce

\* What was twice stays so.
LEMMA OnceBefore ==
  ASSUME TypeOK, [Next]_vars, Once'
  PROVE  Once
<1>1. /\ \A j \in Jobs : segment[j].at # "none" => segment'[j].at # "none"
      /\ deaths' = 0 => deaths = 0
  <2> USE LifecycleAssumption DEF TypeOK
  <2>1. ASSUME NEW r \in Requests, Publish(r)
        PROVE  \A j \in Jobs : segment[j].at # "none" => segment'[j].at # "none"
    BY <2>1 DEF Publish, SegmentState
  <2>2. ASSUME NEW r \in Requests,
               Read(r) \/ Delete(r) \/ Load(r) \/ Write(r) \/ Enroll(r)
        PROVE  UNCHANGED <<segment, deaths>>
    BY <2>2 DEF Read, Delete, Load, Write, Enroll, EnrollLoad, EnrollCommit
  <2>3. ASSUME NEW r \in Requests, RequestDies(r)
        PROVE  UNCHANGED segment /\ deaths' # 0
    BY <2>3 DEF RequestDies
  <2>4. ASSUME NEW j \in Jobs, Process(j) \/ SegmentThrows(j) \/ SegmentDies(j)
        PROVE  /\ segment'[j].at # "none"
               /\ \A k \in Jobs \ {j} : segment'[k] = segment[k]
    <3>1. segment[j] \in SegmentState /\ segment \in [Jobs -> SegmentState]
      OBVIOUS
    <3>2. CASE \/ Fill(j) \/ SaveJourney(j) \/ PublishEnrollment(j)
               \/ SegmentThrows(j) \/ SegmentDies(j)
      BY <3>1, <3>2 DEF Fill, SaveJourney, PublishEnrollment, SegmentThrows,
         SegmentDies, SegmentState
    <3>3. CASE CommitSegment(j)
      BY <3>1, <3>3 DEF CommitSegment, SegmentState
    <3>4. CASE ReadJourney(j)
      <4>1. [segment[j] EXCEPT !.at = "read", !.values = Counted].at = "read"
        BY <3>1 DEF SegmentState
      <4> QED BY <3>1, <3>4, <4>1 DEF ReadJourney
    <3>5. CASE LoadJourney(j)
      <4>1. [segment[j] EXCEPT !.at = "loaded",
                               !.change = Difference(segment[j].values)].at = "loaded"
        BY <3>1 DEF SegmentState
      <4> QED BY <3>1, <3>5, <4>1 DEF LoadJourney
    <3> QED BY <2>4, <3>2, <3>3, <3>4, <3>5 DEF Process
  <2>5. ASSUME NEW j \in Jobs, Process(j) \/ SegmentThrows(j) \/ SegmentDies(j)
        PROVE  deaths' = deaths \/ deaths' # 0
    BY <2>5 DEF Process, Fill, ReadJourney, LoadJourney, SaveJourney,
       CommitSegment, PublishEnrollment, SegmentThrows, SegmentDies
  <2>6. ASSUME NEW r \in Requests, Publish(r) PROVE deaths' = deaths
    BY <2>6 DEF Publish
  <2>7. CASE UNCHANGED vars
    BY <2>7 DEF vars
  <2> QED BY <2>1, <2>2, <2>3, <2>4, <2>5, <2>6, <2>7 DEF Next, Serve
<1> QED BY <1>1 DEF Once, StartedOnce, CountedOnce

\* The invariant is inductive, as long as it was once.
LEMMA FillStep ==
  TypeOK /\ TypeOK' /\ FillInv /\ Once /\ [Next]_vars => FillInv'
<1> SUFFICES ASSUME TypeOK, TypeOK', FillInv, Once, [Next]_vars PROVE FillInv'
  OBVIOUS
<1> USE CountType, SegmentCount
<1>1. ASSUME NEW r \in Requests, Read(r) PROVE FillInv'
  <2>1. PICK kind \in Kinds \ {"delete"} :
          request' = [request EXCEPT ![r] =
            IF Allowed(kind, journey)
            THEN [@ EXCEPT !.kind = kind, !.at = "read",
                           !.values = Saved(kind, journey)]
            ELSE [@ EXCEPT !.kind = kind, !.at = "refused"]]
    BY <1>1 DEF Read
  <2>2. Count' = Count
    BY <1>1, SameCount DEF Read
  <2>3. /\ request'[r].kind = kind /\ request'[r].at \in {"read", "refused"}
        /\ request'[r].change = request[r].change
        /\ request'[r].values \in {request[r].values, Saved(kind, journey)}
        /\ \A q \in Requests \ {r} : request'[q] = request[q]
    BY <2>1 DEF TypeOK, RequestState
  <2>4. Unpublished' /\ JobsFillOnce' /\ JobsWithin'
    BY <1>1, <2>3, OthersMove DEF Read
  <2>5. RowsWithin'
    <3>1. Within(Saved(kind, journey), Count)
      BY SavedWithin DEF FillInv, RowsWithin, TypeOK
    <3> QED BY <1>1, <2>2, <2>3, <3>1 DEF Read, FillInv, RowsWithin, Within
  <2> QED BY <1>1, <2>4, <2>5 DEF Read, FillInv, Enrolls
<1>2. ASSUME NEW r \in Requests, Load(r) PROVE FillInv'
  <2>1. Count' = Count /\ Unpublished' /\ JobsFillOnce' /\ JobsWithin'
    BY <1>2, OthersMove DEF Load, TypeOK, RequestState
  <2>2. RowsWithin'
    BY <1>2, <2>1, DifferenceValues
    DEF Load, FillInv, RowsWithin, Within, TypeOK, RequestState
  <2> QED BY <1>2, <2>1, <2>2 DEF Load, FillInv, Enrolls
<1>3. ASSUME NEW r \in Requests, Write(r) PROVE FillInv'
  <2>1. Count' = Count /\ Unpublished' /\ JobsFillOnce' /\ JobsWithin'
    BY <1>3, OthersMove DEF Write, TypeOK, RequestState
  <2>2. Within(journey', Count)
    BY <1>3, WrittenWithin DEF Write, FillInv, RowsWithin, TypeOK, RequestState
  <2>3. RowsWithin'
    BY <1>3, <2>1, <2>2
    DEF Write, FillInv, RowsWithin, Within, TypeOK, RequestState
  <2> QED BY <1>3, <2>1, <2>3 DEF Write, FillInv, Enrolls
<1>4. ASSUME NEW r \in Requests, Publish(r) PROVE FillInv'
  <2>1. \A j \in Jobs : segment'[j].filled = segment[j].filled
    BY <1>4 DEF Publish, TypeOK, SegmentState
  <2>2. Count' = Count
    BY <2>1, SameCount
  <2>3. /\ request[r].at = "saved" /\ request'[r].at = "done"
        /\ \A q \in Requests \ {r} : request'[q] = request[q]
        /\ deaths' = deaths
    BY <1>4 DEF Publish, TypeOK, RequestState
  <2>5. RowsWithin'
    <3>1. \A q \in Requests :
            /\ request'[q].values = request[q].values
            /\ request'[q].change = request[q].change
            /\ enrollment'[q].values \in {enrollment[q].values, request[q].values}
            /\ enrollment'[q].change = enrollment[q].change
      <4>1. CASE Segments # {}
        BY <1>4, <4>1 DEF Publish, TypeOK, RequestState
      <4>2. CASE Segments = {}
        <5>1. /\ request' = [request EXCEPT ![r].at = "done"]
              /\ enrollment' = [enrollment EXCEPT ![r] =
                   [@ EXCEPT !.at = "queued", !.values = request[r].values]]
          BY <1>4, <4>2 DEF Publish
        <5>2. enrollment[r] \in EnrollmentState
          BY DEF TypeOK
        <5>3. /\ enrollment'[r].values = request[r].values
              /\ enrollment'[r].change = enrollment[r].change
          BY <5>1, <5>2 DEF TypeOK, EnrollmentState
        <5>4. \A q \in Requests \ {r} : enrollment'[q] = enrollment[q]
          BY <5>1 DEF TypeOK
        <5> QED BY <5>1, <5>3, <5>4 DEF TypeOK, RequestState
      <4> QED BY <4>1, <4>2
    <3> QED
      BY <1>4, <2>2, <3>1 DEF Publish, FillInv, RowsWithin, Within
  <2>6. \A j \in Jobs : segment'[j] = segment[j] \/
          (j[1] = r /\ segment'[j] = [segment[j] EXCEPT !.at = "queued"])
    BY <1>4 DEF Publish
  <2>4. Unpublished'
    BY <2>3, <2>6 DEF FillInv, Unpublished, Jobs
  <2>7. JobsFillOnce'
    BY <2>3, <2>6 DEF FillInv, Unpublished, JobsFillOnce, TypeOK, SegmentState
  <2>8. JobsWithin'
    BY <2>2, <2>6 DEF FillInv, JobsWithin, Within, TypeOK, SegmentState
  <2>9. Enrolls'
    BY <1>4, <2>1 DEF Publish, FillInv, Enrolls, Jobs
  <2> QED BY <2>4, <2>5, <2>7, <2>8, <2>9 DEF FillInv
<1>5. ASSUME NEW r \in Requests, Delete(r) PROVE FillInv'
  <2>2. Count' = Count /\ Unpublished' /\ JobsFillOnce' /\ JobsWithin'
    BY <1>5, OthersMove DEF Delete, TypeOK, RequestState
  <2>3. RowsWithin'
    BY <1>5, <2>2
    DEF Delete, FillInv, RowsWithin, Within, TypeOK, RequestState, Journey
  <2> QED
    BY <1>5, <2>2, <2>3 DEF Delete, FillInv, Enrolls
<1>6. ASSUME NEW r \in Requests, RequestDies(r) PROVE FillInv'
  <2>1. Count' = Count /\ Unpublished' /\ JobsFillOnce' /\ JobsWithin'
    BY <1>6, OthersMove DEF RequestDies, TypeOK, RequestState
  <2>2. RowsWithin'
    BY <1>6, <2>1
    DEF RequestDies, FillInv, RowsWithin, Within, TypeOK, RequestState
  <2> QED BY <1>6, <2>1, <2>2 DEF RequestDies, FillInv, Enrolls
<1>7. ASSUME NEW j \in Jobs, Fill(j) PROVE FillInv'
  <2>1. /\ segment[j].at = "queued"
        /\ segment'[j].at \in {"failed", "filled"}
        /\ segment'[j].at = "filled" => ~segment[j].filled \/ j[2] \notin Filled
        /\ segment'[j].filled = segment[j].filled
        /\ \A k \in Jobs \ {j} : segment'[k] = segment[k]
    BY <1>7 DEF Fill, TypeOK, SegmentState
  <2>2. Count' = Count /\ Unpublished' /\ RowsWithin' /\ Enrolls'
    BY <1>7, <2>1, JobMoves DEF Fill
  <2>3. JobsFillOnce'
    <3>1. segment'[j].at = "filled" => ~segment[j].filled
      BY <2>1 DEF FillInv, JobsFillOnce, Once, CountedOnce, Jobs
    <3> QED BY <1>7, <2>1, <3>1 DEF Fill, FillInv, JobsFillOnce
  <2>4. JobsWithin'
    BY <2>1, <2>2 DEF FillInv, JobsWithin, Within
  <2> QED BY <2>2, <2>3, <2>4 DEF FillInv
<1>8. ASSUME NEW j \in Jobs, ReadJourney(j) PROVE FillInv'
  <2>1. /\ segment[j].at = "filled" /\ segment'[j].at = "read"
        /\ segment'[j].filled = segment[j].filled
        /\ segment'[j].values = Counted
        /\ \A k \in Jobs \ {j} : segment'[k] = segment[k]
    BY <1>8 DEF ReadJourney, TypeOK, SegmentState
  <2>2. Count' = Count /\ Unpublished' /\ RowsWithin' /\ Enrolls'
    BY <1>8, <2>1, JobMoves DEF ReadJourney
  <2>3. JobsFillOnce'
    BY <1>8, <2>1 DEF ReadJourney, FillInv, JobsFillOnce
  <2>4. /\ Counted.completedSystemSegments >= 1
        /\ Within(Counted, Count + 1)
    BY DEF Counted, Within, FillInv, RowsWithin, TypeOK, Journey
  <2>5. JobsWithin'
    BY <2>1, <2>2, <2>4 DEF FillInv, JobsWithin, Within
  <2> QED BY <2>2, <2>3, <2>5 DEF FillInv
<1>9. ASSUME NEW j \in Jobs, LoadJourney(j) PROVE FillInv'
  <2>1. /\ segment[j].at = "read" /\ segment'[j].at = "loaded"
        /\ segment'[j].filled = segment[j].filled
        /\ segment'[j].values = segment[j].values
        /\ segment'[j].change.values = segment[j].values
        /\ \A k \in Jobs \ {j} : segment'[k] = segment[k]
    BY <1>9, DifferenceValues DEF LoadJourney, TypeOK, SegmentState
  <2>2. Count' = Count /\ Unpublished' /\ RowsWithin' /\ Enrolls'
    BY <1>9, <2>1, JobMoves DEF LoadJourney
  <2>3. JobsFillOnce'
    BY <1>9, <2>1 DEF LoadJourney, FillInv, JobsFillOnce
  <2>4. JobsWithin'
    BY <2>1, <2>2 DEF FillInv, JobsWithin, Within
  <2> QED BY <2>2, <2>3, <2>4 DEF FillInv
<1>10. ASSUME NEW j \in Jobs, SaveJourney(j) PROVE FillInv'
  <2>1. /\ segment[j].at = "loaded" /\ segment'[j].at = "saved"
        /\ segment'[j].filled = segment[j].filled
        /\ segment'[j].values = segment[j].values
        /\ segment'[j].change = segment[j].change
        /\ \A k \in Jobs \ {j} : segment'[k] = segment[k]
    BY <1>10 DEF SaveJourney, TypeOK, SegmentState
  <2>2. Count' = Count /\ Unpublished' /\ RowsWithin' /\ Enrolls'
    BY <1>10, <2>1, JobMoves DEF SaveJourney
  <2>3. JobsFillOnce'
    BY <1>10, <2>1 DEF SaveJourney, FillInv, JobsFillOnce
  <2>4. JobsWithin'
    BY <2>1, <2>2 DEF FillInv, JobsWithin, Within
  <2> QED BY <2>2, <2>3, <2>4 DEF FillInv
<1>11. ASSUME NEW j \in Jobs, CommitSegment(j) PROVE FillInv'
  <2>1. /\ segment[j].at = "saved" /\ segment'[j].at = "committed"
        /\ segment'[j].filled
        /\ segment'[j].values = segment[j].values
        /\ \A k \in Jobs \ {j} : segment'[k] = segment[k]
        /\ UNCHANGED <<request, enrollment, deaths>>
    BY <1>11 DEF CommitSegment, TypeOK, SegmentState
  <2>2. Count' = Count + 1
    BY <1>11, CommitCounts
  <2>3. Unpublished'
    BY <2>1 DEF FillInv, Unpublished
  <2>4. Within(journey', Count + 1)
    <3>1. Within(journey, Count + 1)
      BY DEF FillInv, RowsWithin, Within, TypeOK, Journey
    <3>2. Within(segment[j].change.values, Count + 1)
      BY <2>1 DEF FillInv, JobsWithin
    <3> QED
      BY <1>11, <3>1, <3>2, WrittenWithin DEF CommitSegment, TypeOK, SegmentState
  <2>5. RowsWithin'
    <3>1. \A r \in Requests :
            /\ request[r].values \in Journey
            /\ request[r].change.values \in Journey
            /\ enrollment[r].values \in Journey
            /\ enrollment[r].change.values \in Journey
      BY DEF TypeOK, RequestState, EnrollmentState, Change
    <3>2. \A row \in Journey : Within(row, Count) => Within(row, Count + 1)
      BY DEF Within, Journey
    <3> QED
      BY <2>1, <2>2, <2>4, <3>1, <3>2 DEF FillInv, RowsWithin, Within
  <2>6. JobsFillOnce'
    BY <2>1 DEF FillInv, JobsFillOnce
  <2>7. JobsWithin'
    <3>1. \A k \in Jobs :
            segment[k].values \in Journey /\ segment[k].change.values \in Journey
      BY DEF TypeOK, SegmentState, Change
    <3> QED BY <2>1, <2>2, <3>1 DEF FillInv, JobsWithin, Within, Journey
  <2>8. Enrolls'
    BY <2>1 DEF FillInv, Enrolls, Jobs
  <2> QED BY <2>3, <2>5, <2>6, <2>7, <2>8 DEF FillInv
<1>12. ASSUME NEW j \in Jobs, PublishEnrollment(j) PROVE FillInv'
  <2>1. /\ segment[j].at = "committed" /\ segment'[j].at = "done"
        /\ segment'[j].filled = segment[j].filled
        /\ \A k \in Jobs \ {j} : segment'[k] = segment[k]
        /\ UNCHANGED <<journey, request, deaths>>
        /\ j[1] \in Requests
    BY <1>12 DEF PublishEnrollment, TypeOK, SegmentState, Jobs
  <2>2. Count' = Count
    BY <2>1, SameCount
  <2>3. \A r \in Requests :
          /\ enrollment'[r].change = enrollment[r].change
          /\ enrollment'[r].values \in {enrollment[r].values, request[r].values}
          /\ enrollment'[r].at # enrollment[r].at => Last(j) /\ r = j[1]
    BY <1>12, <2>1 DEF PublishEnrollment, TypeOK, EnrollmentState
  <2>4. Unpublished'
    BY <2>1 DEF FillInv, Unpublished
  <2>5. RowsWithin'
    BY <2>1, <2>2, <2>3 DEF FillInv, RowsWithin, Within
  <2>6. JobsFillOnce'
    BY <2>1 DEF FillInv, JobsFillOnce
  <2>7. JobsWithin'
    BY <2>1, <2>2 DEF FillInv, JobsWithin, Within
  <2>8. Enrolls'
    BY <2>1, <2>3, LastIsLast DEF FillInv, Enrolls, Jobs
  <2> QED BY <2>4, <2>5, <2>6, <2>7, <2>8 DEF FillInv
<1>13. ASSUME NEW j \in Jobs, SegmentThrows(j) \/ SegmentDies(j) PROVE FillInv'
  <2>1. /\ segment[j].at # "none"
        /\ segment'[j].at \in {"failed", "queued"}
        /\ segment'[j].filled = segment[j].filled
        /\ \A k \in Jobs \ {j} : segment'[k] = segment[k]
        /\ IF segment'[j].at = "queued" THEN deaths' # 0 ELSE deaths' = deaths
    BY <1>13, LifecycleAssumption
    DEF SegmentThrows, SegmentDies, Handled, TypeOK, SegmentState
  <2>2. Count' = Count /\ Unpublished' /\ RowsWithin' /\ Enrolls'
    BY <1>13, <2>1, JobMoves DEF SegmentThrows, SegmentDies
  <2>3. JobsFillOnce'
    BY <1>13, <2>1, LifecycleAssumption
    DEF SegmentThrows, SegmentDies, TypeOK, FillInv, JobsFillOnce
  <2>4. JobsWithin'
    BY <2>1, <2>2 DEF FillInv, JobsWithin, Within
  <2> QED BY <2>2, <2>3, <2>4 DEF FillInv
<1>14. ASSUME NEW r \in Requests, EnrollLoad(r) PROVE FillInv'
  <2>1. Count' = Count /\ Unpublished' /\ JobsFillOnce' /\ JobsWithin'
    BY <1>14, OthersMove DEF EnrollLoad
  <2>2. /\ enrollment[r].at # "none"
        /\ enrollment'[r].values = enrollment[r].values
        /\ enrollment'[r].change.values =
             [enrollment[r].values EXCEPT !.isEnrolling = FALSE]
        /\ \A q \in Requests \ {r} : enrollment'[q] = enrollment[q]
    BY <1>14, DifferenceValues DEF EnrollLoad, TypeOK, EnrollmentState
  <2>3. RowsWithin'
    BY <1>14, <2>1, <2>2 DEF EnrollLoad, FillInv, RowsWithin, Within, TypeOK,
       EnrollmentState, Journey
  <2>5. Enrolls'
    BY <1>14, <2>2 DEF EnrollLoad, FillInv, Enrolls
  <2> QED BY <2>1, <2>3, <2>5 DEF FillInv
<1>15. ASSUME NEW r \in Requests, EnrollCommit(r) PROVE FillInv'
  <2>1. Count' = Count /\ Unpublished' /\ JobsFillOnce' /\ JobsWithin'
    BY <1>15, OthersMove DEF EnrollCommit
  <2>2. /\ enrollment[r].at # "none"
        /\ enrollment'[r].values = enrollment[r].values
        /\ enrollment'[r].change = enrollment[r].change
        /\ \A q \in Requests \ {r} : enrollment'[q] = enrollment[q]
    BY <1>15 DEF EnrollCommit, TypeOK, EnrollmentState
  <2>3. Within(journey', Count)
    BY <1>15, WrittenWithin
    DEF EnrollCommit, FillInv, RowsWithin, TypeOK, EnrollmentState
  <2>4. RowsWithin'
    BY <1>15, <2>1, <2>2, <2>3 DEF EnrollCommit, FillInv, RowsWithin, Within
  <2>6. Enrolls'
    BY <1>15, <2>2 DEF EnrollCommit, FillInv, Enrolls
  <2> QED BY <2>1, <2>4, <2>6 DEF FillInv
<1>16. CASE UNCHANGED vars
  <2>1. Count' = Count /\ Unpublished' /\ JobsFillOnce' /\ JobsWithin'
    BY <1>16, OthersMove DEF vars
  <2> QED
    BY <1>16, <2>1
    DEF vars, FillInv, RowsWithin, Within, Enrolls
<1> QED
  BY <1>1, <1>2, <1>3, <1>4, <1>5, <1>6, <1>7, <1>8, <1>9, <1>10, <1>11, <1>12,
     <1>13, <1>14, <1>15, <1>16
  DEF Next, Serve, Enroll, Process

\* Customers are enrolled only when every system segment is filled, however
\* the saves of the journey overlap and the jobs fail, die and are repeated:
\* unless two starts fill the same segments, or an empty one is counted twice.
THEOREM EnrollsOnlyWhenFilled == Spec => []EnrollsWhenFilled
<1> DEFINE OnceInv == Once => FillInv
<1>1. ASSUME Init PROVE FillInv
  <2>1. Count \in Nat
    BY CountType
  <2>2. Unpublished /\ JobsFillOnce /\ Enrolls
    BY <1>1 DEF Init, Unpublished, JobsFillOnce, Enrolls
  <2>3. Within(Draft, Count)
    BY <2>1 DEF Within, Draft
  <2>4. RowsWithin
    BY <1>1, <2>3 DEF Init, RowsWithin, NoChange
  <2>5. JobsWithin
    BY <1>1 DEF Init, JobsWithin
  <2> QED BY <2>2, <2>4, <2>5 DEF FillInv
<1>2. TypeOK /\ TypeOK' /\ OnceInv /\ [Next]_vars => OnceInv'
  BY FillStep, OnceBefore
<1>3. OnceInv => EnrollsWhenFilled
  BY DEF FillInv, Once, Enrolls, EnrollsWhenFilled
<1> QED BY <1>1, <1>2, <1>3, TypeInvariant, PTL DEF Spec

-----------------------------------------------------------------------------
(* While saves do not overlap.                                             *)

\* Who has read the journey and not saved it yet.
ReadingRequest(r) == request[r].at \in {"read", "loaded"}
ReadingJob(j) == segment[j].at \in {"read", "loaded", "saved"}
ReadingEnrollment(r) == enrollment[r].at = "loaded"

Nobody ==
  /\ \A r \in Requests : ~ReadingRequest(r) /\ ~ReadingEnrollment(r)
  /\ \A j \in Jobs : ~ReadingJob(j)

Alone ==
  /\ \A r \in Requests : ReadingRequest(r) =>
       /\ \A q \in Requests : ReadingRequest(q) => q = r
       /\ \A q \in Requests : ~ReadingEnrollment(q)
       /\ \A j \in Jobs : ~ReadingJob(j)
  /\ \A j \in Jobs : ReadingJob(j) =>
       /\ \A k \in Jobs : ReadingJob(k) => k = j
       /\ \A q \in Requests : ~ReadingEnrollment(q)
  /\ \A r \in Requests : ReadingEnrollment(r) =>
       \A q \in Requests : ReadingEnrollment(q) => q = r

\* A save of the row does not take the end of the journey back.
Keeps(row) ==
  /\ journey.isStopped => row.isStopped
  /\ journey.isDeleted => row.isDeleted

ReadersKeep ==
  /\ \A r \in Requests :
       /\ ReadingRequest(r) => Keeps(request[r].values)
       /\ request[r].at = "loaded" => Keeps(request[r].change.values)
  /\ \A j \in Jobs :
       /\ ReadingJob(j) => Keeps(segment[j].values)
       /\ segment[j].at \in {"loaded", "saved"} => Keeps(segment[j].change.values)

EndInv == ~overlapped => Alone /\ ReadersKeep

LEMMA OverlapsUnlessNobody == Nobody <=> ~Overlaps
BY DEF Nobody, Overlaps, ReadingRequest, ReadingJob, ReadingEnrollment

LEMMA SavedKeeps ==
  ASSUME NEW kind \in Kinds, journey \in Journey
  PROVE  Keeps(Saved(kind, journey))
BY DEF Saved, Keeps, Journey

LEMMA WrittenKeeps ==
  ASSUME NEW change \in Change, Keeps(change.values)
  PROVE  Keeps(Written(change))
BY DEF Keeps, Written, Columns, Draft

\* With no reader left there is nothing to keep.
LEMMA NobodyIsAlone == Nobody => Alone /\ ReadersKeep
BY DEF Nobody, Alone, ReadersKeep, ReadingRequest, ReadingJob

LEMMA OverlappedStays == [Next]_vars /\ overlapped => overlapped'
<1> SUFFICES ASSUME [Next]_vars, overlapped PROVE overlapped'
  OBVIOUS
<1>1. ASSUME NEW r \in Requests, Read(r) \/ Delete(r) \/ Enroll(r)
      PROVE  overlapped'
  BY <1>1, Zenon DEF Read, Delete, Enroll, EnrollLoad, EnrollCommit
<1>2. ASSUME NEW r \in Requests, Serve(r) \/ RequestDies(r) PROVE overlapped'
  BY <1>2, Zenon DEF Serve, Load, Write, Publish, RequestDies
<1>3. ASSUME NEW j \in Jobs, Process(j) PROVE overlapped'
  BY <1>3, Zenon DEF Process, Fill, ReadJourney, LoadJourney, SaveJourney,
     CommitSegment, PublishEnrollment
<1>4. ASSUME NEW j \in Jobs, SegmentThrows(j) \/ SegmentDies(j)
      PROVE  overlapped'
  BY <1>4, Zenon DEF SegmentThrows, SegmentDies
<1>5. CASE UNCHANGED vars
  BY <1>5, Zenon DEF vars
<1> QED BY <1>1, <1>2, <1>3, <1>4, <1>5 DEF Next

LEMMA EndStep == TypeOK /\ EndInv /\ [Next]_vars => EndInv'
<1> SUFFICES ASSUME TypeOK, EndInv, [Next]_vars, ~overlapped' PROVE Alone' /\ ReadersKeep'
  BY DEF EndInv
<1> USE DEF ReadingRequest, ReadingJob, ReadingEnrollment
<1>0. Alone /\ ReadersKeep
  BY OverlappedStays DEF EndInv
<1>1. ASSUME NEW r \in Requests, Read(r) PROVE Alone' /\ ReadersKeep'
  <2>1. Nobody
    BY <1>1, OverlapsUnlessNobody DEF Read
  <2>2. PICK kind \in Kinds :
          request' = [request EXCEPT ![r] =
            IF Allowed(kind, journey)
            THEN [@ EXCEPT !.kind = kind, !.at = "read",
                           !.values = Saved(kind, journey)]
            ELSE [@ EXCEPT !.kind = kind, !.at = "refused"]]
    BY <1>1 DEF Read
  <2>3. /\ request'[r].at \in {"read", "refused"}
        /\ request'[r].at = "read" => request'[r].values = Saved(kind, journey)
        /\ \A q \in Requests \ {r} : request'[q] = request[q]
    BY <2>2 DEF TypeOK, RequestState
  <2>4. Alone'
    BY <1>1, <2>1, <2>3 DEF Read, Nobody, Alone
  <2>5. Keeps(Saved(kind, journey))
    BY SavedKeeps DEF TypeOK
  <2>6. ReadersKeep'
    BY <1>1, <2>1, <2>3, <2>5 DEF Read, Nobody, ReadersKeep, Keeps
  <2> QED BY <2>4, <2>6
<1>2. ASSUME NEW r \in Requests, Load(r) PROVE Alone' /\ ReadersKeep'
  <2>1. /\ request[r].at = "read" /\ request'[r].at = "loaded"
        /\ request'[r].values = request[r].values
        /\ request'[r].change.values = request[r].values
        /\ \A q \in Requests \ {r} : request'[q] = request[q]
        /\ UNCHANGED <<journey, segment, enrollment>>
    BY <1>2, DifferenceValues DEF Load, TypeOK, RequestState
  <2>2. Alone'
    BY <1>0, <2>1 DEF Alone
  <2> QED BY <1>0, <2>1, <2>2 DEF ReadersKeep, Keeps
<1>3. ASSUME NEW r \in Requests, Write(r) PROVE Alone' /\ ReadersKeep'
  <2>1. /\ request[r].at = "loaded" /\ request'[r].at \in {"saved", "done"}
        /\ \A q \in Requests \ {r} : request'[q] = request[q]
        /\ UNCHANGED <<segment, enrollment>>
    BY <1>3 DEF Write, TypeOK, RequestState
  <2>2. Nobody'
    BY <1>0, <2>1 DEF Alone, Nobody
  <2> QED BY <2>2, NobodyIsAlone, PTL
<1>4. ASSUME NEW r \in Requests, Publish(r) PROVE Alone' /\ ReadersKeep'
  <2>1. /\ request'[r].at = "done" /\ UNCHANGED journey
        /\ \A q \in Requests \ {r} : request'[q] = request[q]
    BY <1>4 DEF Publish, TypeOK, RequestState
  <2>2. \A j \in Jobs : segment'[j] = segment[j] \/ segment'[j].at = "queued"
    BY <1>4 DEF Publish, TypeOK, SegmentState
  <2>3. \A q \in Requests :
          enrollment'[q] = enrollment[q] \/ enrollment'[q].at = "queued"
    BY <1>4 DEF Publish, TypeOK, EnrollmentState
  <2>4. Alone'
    BY <1>0, <2>1, <2>2, <2>3 DEF Alone
  <2> QED BY <1>0, <2>1, <2>2, <2>4 DEF ReadersKeep, Keeps
<1>5. ASSUME NEW r \in Requests, Delete(r) PROVE Alone' /\ ReadersKeep'
  <2>1. Nobody
    BY <1>5, OverlapsUnlessNobody DEF Delete
  <2>2. Nobody'
    BY <1>5, <2>1 DEF Delete, Nobody, TypeOK, RequestState
  <2> QED BY <2>2, NobodyIsAlone, PTL
<1>6. ASSUME NEW r \in Requests, RequestDies(r) PROVE Alone' /\ ReadersKeep'
  <2>1. /\ request'[r].at = "done"
        /\ \A q \in Requests \ {r} : request'[q] = request[q]
        /\ UNCHANGED <<journey, segment, enrollment>>
    BY <1>6 DEF RequestDies, TypeOK, RequestState
  <2>2. Alone'
    BY <1>0, <2>1 DEF Alone
  <2> QED BY <1>0, <2>1, <2>2 DEF ReadersKeep, Keeps
<1>7. ASSUME NEW j \in Jobs, \/ Fill(j) \/ SegmentThrows(j) \/ SegmentDies(j)
                            \/ PublishEnrollment(j)
      PROVE  Alone' /\ ReadersKeep'
  <2>1. /\ ~ReadingJob(j)'
        /\ \A k \in Jobs \ {j} : segment'[k] = segment[k]
        /\ UNCHANGED <<journey, request>>
    BY <1>7 DEF Fill, SegmentThrows, SegmentDies, PublishEnrollment, TypeOK,
       SegmentState
  <2>2. \A q \in Requests :
          enrollment'[q] = enrollment[q] \/ enrollment'[q].at = "queued"
    <3>1. CASE UNCHANGED enrollment
      BY <3>1
    <3>2. CASE enrollment' = [enrollment EXCEPT ![j[1]] =
                 [@ EXCEPT !.at = "queued", !.values = request[j[1]].values]]
      BY <3>2 DEF TypeOK, EnrollmentState
    <3> QED
      BY <1>7, <3>1, <3>2
      DEF Fill, SegmentThrows, SegmentDies, PublishEnrollment
  <2>3. Alone'
    BY <1>0, <2>1, <2>2 DEF Alone
  <2> QED BY <1>0, <2>1, <2>3 DEF ReadersKeep, Keeps
<1>8. ASSUME NEW j \in Jobs, ReadJourney(j) PROVE Alone' /\ ReadersKeep'
  <2>1. Nobody
    BY <1>8, OverlapsUnlessNobody DEF ReadJourney
  <2>2. /\ segment'[j].at = "read" /\ segment'[j].values = Counted
        /\ \A k \in Jobs \ {j} : segment'[k] = segment[k]
    BY <1>8 DEF ReadJourney, TypeOK, SegmentState
  <2>3. Alone'
    BY <1>8, <2>1, <2>2 DEF ReadJourney, Nobody, Alone
  <2>4. Keeps(Counted)
    BY DEF Keeps, Counted, TypeOK, Journey
  <2>5. ReadersKeep'
    BY <1>8, <2>1, <2>2, <2>4 DEF ReadJourney, Nobody, ReadersKeep, Keeps
  <2> QED BY <2>3, <2>5
<1>9. ASSUME NEW j \in Jobs, LoadJourney(j) \/ SaveJourney(j)
      PROVE  Alone' /\ ReadersKeep'
  <2>1. /\ ReadingJob(j) /\ ReadingJob(j)'
        /\ segment'[j].values = segment[j].values
        /\ \/ segment'[j].change.values = segment[j].values
           \/ segment[j].at = "loaded" /\ segment'[j].change = segment[j].change
        /\ \A k \in Jobs \ {j} : segment'[k] = segment[k]
    <3>1. CASE LoadJourney(j)
      BY <3>1, DifferenceValues DEF LoadJourney, TypeOK, SegmentState
    <3>2. CASE SaveJourney(j)
      BY <3>2 DEF SaveJourney, TypeOK, SegmentState
    <3> QED BY <1>9, <3>1, <3>2
  <2>2. UNCHANGED <<journey, request, enrollment>>
    BY <1>9 DEF LoadJourney, SaveJourney
  <2>3. Alone'
    BY <1>0, <2>1, <2>2 DEF Alone
  <2> QED BY <1>0, <2>1, <2>2, <2>3 DEF ReadersKeep, Keeps
<1>10. ASSUME NEW j \in Jobs, CommitSegment(j) PROVE Alone' /\ ReadersKeep'
  <2>1. /\ segment[j].at = "saved" /\ segment'[j].at = "committed"
        /\ \A k \in Jobs \ {j} : segment'[k] = segment[k]
        /\ UNCHANGED <<request, enrollment>>
    BY <1>10 DEF CommitSegment, TypeOK, SegmentState
  <2>2. Nobody'
    BY <1>0, <2>1 DEF Alone, Nobody
  <2> QED BY <2>2, NobodyIsAlone, PTL
<1>11. ASSUME NEW r \in Requests, EnrollLoad(r) PROVE Alone' /\ ReadersKeep'
  <2>1. Nobody
    BY <1>11, OverlapsUnlessNobody DEF EnrollLoad
  <2>2. /\ \A q \in Requests \ {r} : enrollment'[q] = enrollment[q]
        /\ UNCHANGED <<request, segment>>
    BY <1>11 DEF EnrollLoad, TypeOK
  <2>3. Alone'
    BY <2>1, <2>2 DEF Nobody, Alone
  <2>4. ReadersKeep'
    BY <2>1, <2>2 DEF Nobody, ReadersKeep
  <2> QED BY <2>3, <2>4
<1>12. ASSUME NEW r \in Requests, EnrollCommit(r) PROVE Alone' /\ ReadersKeep'
  <2>1. /\ enrollment[r].at = "loaded" /\ enrollment'[r].at = "done"
        /\ \A q \in Requests \ {r} : enrollment'[q] = enrollment[q]
        /\ UNCHANGED <<request, segment>>
    BY <1>12 DEF EnrollCommit, TypeOK, EnrollmentState
  <2>2. Nobody'
    BY <1>0, <2>1 DEF Alone, Nobody
  <2> QED BY <2>2, NobodyIsAlone, PTL
<1>13. CASE UNCHANGED vars
  <2>1. UNCHANGED <<journey, request, segment, enrollment>>
    BY <1>13 DEF vars
  <2> QED BY <1>0, <2>1 DEF Alone, ReadersKeep, Keeps
<1> QED
  BY <1>1, <1>2, <1>3, <1>4, <1>5, <1>6, <1>7, <1>8, <1>9, <1>10, <1>11,
     <1>12, <1>13
  DEF Next, Serve, Enroll, Process

\* What a row keeps that is written with what keeps.
LEMMA KeptFlags ==
  ASSUME Keeps(journey')
  PROVE  \A flag \in {"isStopped", "isDeleted"} : journey[flag] => journey'[flag]
BY DEF Keeps

\* A journey stays stopped and deleted while no save overlaps another and no
\* ENROLLMENT job is under way.
THEOREM EndIsKept == Spec => EndStays
<1>1. Init => EndInv
  BY NobodyIsAlone
  DEF Init, EndInv, Nobody, ReadingRequest, ReadingJob, ReadingEnrollment
<1>2. ASSUME TypeOK, EndInv, [Next]_vars, ~overlapped, ~Enrolling,
             NEW flag \in {"isStopped", "isDeleted"}, journey[flag]
      PROVE  journey'[flag]
  <2>1. ASSUME NEW r \in Requests, Write(r) PROVE Keeps(journey')
    BY <1>2, <2>1, WrittenKeeps
    DEF Write, EndInv, ReadersKeep, TypeOK, RequestState
  <2>2. ASSUME NEW j \in Jobs, CommitSegment(j) PROVE Keeps(journey')
    BY <1>2, <2>2, WrittenKeeps
    DEF CommitSegment, EndInv, ReadersKeep, TypeOK, SegmentState
  <2>3. ASSUME NEW r \in Requests, Delete(r) PROVE Keeps(journey')
    BY <2>3 DEF Delete, Keeps, TypeOK, Journey
  <2>4. ASSUME NEW r \in Requests PROVE ~EnrollCommit(r)
    BY <1>2 DEF Enrolling, EnrollCommit
  <2>5. UNCHANGED journey \/ Keeps(journey')
    BY <1>2, <2>1, <2>2, <2>3, <2>4
    DEF Next, vars, Serve, Enroll, Process, Read, Load, Publish, RequestDies,
        Fill, ReadJourney, LoadJourney, SaveJourney, PublishEnrollment,
        SegmentThrows, SegmentDies, EnrollLoad
  <2> QED BY <1>2, <2>5, KeptFlags
<1>3. TypeOK /\ EndInv /\ [Next]_vars =>
        [~overlapped /\ ~Enrolling =>
           \A flag \in {"isStopped", "isDeleted"} :
             journey[flag] => journey'[flag]]_vars
  BY <1>2
<1> QED BY <1>1, <1>3, EndStep, TypeInvariant, PTL DEF Spec, EndStays
=============================================================================
