---------------------------- MODULE MCEnrollment ----------------------------
(* Instances of Enrollment for TLC.                                        *)
EXTENDS Enrollment, TLC

CONSTANTS c1, c2, c3

Three == <<c1, c2, c3>>

Query ==
  [frozen |-> TRUE, maxEnabled |-> FALSE, timed |-> FALSE, jobs |-> Enrollments]
LimitedQuery == [Query EXCEPT !.maxEnabled = TRUE]
LimitedAll == [LimitedQuery EXCEPT !.frozen = FALSE]

\* Started once.
TimedQueries == {[Query EXCEPT !.timed = TRUE, !.jobs = {e}] : e \in Enrollments}
TimedQuery == CHOOSE q \in TimedQueries : TRUE
TimedAll == [TimedQuery EXCEPT !.frozen = FALSE, !.maxEnabled = TRUE]

Several == {Query, LimitedQuery, TimedQuery, LimitedAll, TimedAll}
Timed == {TimedQuery}
=============================================================================
