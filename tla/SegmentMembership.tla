-------------------------- MODULE SegmentMembership --------------------------
(***************************************************************************)
(* A dynamic segment from its creation on.  SegmentsService.create queues  *)
(* a job that selects the customers of its query and writes their rows     *)
(* (SegmentUpdateProcessor.handleCreateDynamic).  Every change of a        *)
(* customer queues a CUSTOMER_CHANGE job, and every event an EVENTS_POST   *)
(* job; each decides whether the customer belongs to the segment and adds  *)
(* or removes the row (updateCustomerSegments,                             *)
(* updateCustomerSegmentsUsingEvent).                                      *)
(*                                                                         *)
(* When the query is edited (SegmentsService.update), a job adds customers *)
(* by a third, older evaluation (AudiencesHelper.checkInclusion), and      *)
(* nobody is taken out: the removal is commented out.                      *)
(*                                                                         *)
(* Jobs are handled by several workers, up to RMQ_QUEUE_PREFETCH_COUNT at  *)
(* a time in each.                                                         *)
(***************************************************************************)
EXTENDS CustomerData

\* The evaluations of a query (CustomerQuery).
CONSTANTS
  Collects(_, _),    \* the customers the database selects for a query
  Errs(_, _),        \* the selection throws
  Decides(_, _, _),  \* whether a customer matches a query
  Includes(_, _, _), \* whether a customer is included in a query
  Names(_),          \* whether a query names the event
  Agrees(_, _)       \* whether the first and the third agree on a query

CONSTANTS
  Values,       \* of attributes
  Queries,      \* the queries a segment may have
  Databases,    \* what the customers are like when the segment is created
  MaxChanges,   \* bound: changes of attributes, events, edits of the query
  MaxRetries    \* of the segment's job

Database ==
  [attribute : [Keys -> [Customers -> Values \cup {Missing}]],
   performed : [Customers -> [Channels -> Nat]],
   statuses : Seq(Status)]

ASSUME MembershipAssumption ==
  /\ Values \subseteq Int
  /\ Databases \subseteq Database
  /\ MaxChanges \in Nat
  /\ MaxRetries \in Nat

VARIABLES
  db,         \* the customers in MongoDB
  query,      \* inclusionCriteria.query
  segment,    \* "absent", "updating" (isUpdating), "ready"
  creation,   \* the createDynamic job
  update,     \* the updateDynamic job
  members,    \* the committed rows of segment_customers
  jobs,       \* CUSTOMER_CHANGE and EVENTS_POST jobs not yet acknowledged
  stale,      \* customers not decided since a change of theirs was passed
              \*   over, after the selection, or the query was edited
  raced,      \* customers whose last job was decided while another one was
              \*   still to be written that had been decided otherwise
  changes

vars ==
  <<db, query, segment, creation, update, members, jobs, stale, raced, changes>>

-----------------------------------------------------------------------------
Creation ==
  [at : {"none", "queued", "selected", "done", "failed"},
   selected : SUBSET Customers, attempts : 0..MaxRetries]

Update == [at : {"none", "queued", "selected"}, selected : SUBSET Customers]

CustomerJob ==
  [id : 1..MaxChanges, customer : Customers, type : {"change", "event"},
   at : {"queued", "decided"}, include : BOOLEAN]

TypeOK ==
  /\ db \in Database
  /\ query \in Queries
  /\ segment \in {"absent", "updating", "ready"}
  /\ creation \in Creation
  /\ update \in Update
  /\ segment = "ready" <=> creation.at = "done" /\ update.at = "none"
  /\ members \subseteq Customers
  /\ jobs \subseteq CustomerJob
  /\ stale \subseteq Customers
  /\ raced \subseteq Customers
  /\ changes \in 0..MaxChanges

Init ==
  /\ db \in Databases
  /\ query \in Queries
  /\ segment = "absent"
  /\ creation = [at |-> "none", selected |-> {}, attempts |-> 0]
  /\ update = [at |-> "none", selected |-> {}]
  /\ members = {}
  /\ jobs = {}
  /\ stale = {}
  /\ raced = {}
  /\ changes = 0

-----------------------------------------------------------------------------
(* Customers change, and perform events.                                   *)

Queued(c, type) ==
  jobs \cup {[id |-> changes + 1, customer |-> c, type |-> type,
              at |-> "queued", include |-> FALSE]}

AttributeChanged(d, c) ==
  UNION {{[d EXCEPT !.attribute[k][c] = v] :
            v \in (Values \cup {Missing}) \ {d.attribute[k][c]}} : k \in Keys}

Performed(d, c) ==
  {[d EXCEPT !.performed[c][ch] = d.performed[c][ch] + 1] : ch \in Channels}

AttributeChanges(c) ==
  /\ changes < MaxChanges
  /\ changes' = changes + 1
  /\ db' \in AttributeChanged(db, c)
  /\ jobs' = Queued(c, "change")
  /\ UNCHANGED <<query, segment, creation, update, members, stale, raced>>

\* handleCustom has found the customer: it stores the event and queues the
\* EVENTS_POST job.
EventOccurs(c) ==
  /\ changes < MaxChanges
  /\ changes' = changes + 1
  /\ db' \in Performed(db, c)
  /\ jobs' = Queued(c, "event")
  /\ UNCHANGED <<query, segment, creation, update, members, stale, raced>>

-----------------------------------------------------------------------------
(* The segment is created.                                                 *)

Create ==
  /\ segment = "absent"
  /\ segment' = "updating"
  /\ creation' = [creation EXCEPT !.at = "queued"]
  /\ UNCHANGED <<db, query, update, members, jobs, stale, raced, changes>>

Select ==
  /\ creation.at = "queued"
  /\ creation' =
       IF ~Errs(db, query)
       THEN [creation EXCEPT !.at = "selected",
                             !.selected = Collects(db, query)]
       ELSE IF creation.attempts < MaxRetries
            THEN [creation EXCEPT !.attempts = creation.attempts + 1]
            ELSE [creation EXCEPT !.at = "failed"]
  /\ stale' = {}
  /\ UNCHANGED <<db, query, segment, update, members, jobs, raced, changes>>

\* (Slip: isUpdating is not cleared.)
FillUpdating ==
  /\ creation.at = "selected"
  /\ creation' = [creation EXCEPT !.at = "done"]
  /\ members' = members \cup creation.selected
  /\ UNCHANGED <<db, query, segment, update, jobs, stale, raced, changes>>

\* COPY, isUpdating cleared, commit.
Fill ==
  /\ creation.at = "selected"
  /\ creation' = [creation EXCEPT !.at = "done"]
  /\ members' = members \cup creation.selected
  /\ segment' = "ready"
  /\ UNCHANGED <<db, query, update, jobs, stale, raced, changes>>

-----------------------------------------------------------------------------
(* Its query is edited.                                                    *)

\* SegmentsService.update, which refuses while the segment is updating.
Edit ==
  /\ segment = "ready"
  /\ changes < MaxChanges
  /\ changes' = changes + 1
  /\ \E q \in Queries \ {query} : query' = q
  /\ segment' = "updating"
  /\ update' = [update EXCEPT !.at = "queued"]
  /\ stale' = Customers
  /\ UNCHANGED <<db, creation, members, jobs, raced>>

\* A batch of customers is read, and those included are picked out.
SelectIncluded ==
  /\ update.at = "queued"
  /\ update' = [at |-> "selected",
                selected |-> {c \in Customers : Includes(db, query, c)}]
  /\ UNCHANGED <<db, query, segment, creation, members, jobs, stale, raced,
                 changes>>

\* (Slip: the error of a row that is there already is not caught.)
AssignOnce(c) ==
  /\ c \in update.selected \ members
  /\ update' = [update EXCEPT !.selected = update.selected \ {c}]
  /\ members' = members \cup {c}
  /\ UNCHANGED <<db, query, segment, creation, jobs, stale, raced, changes>>

\* assignCustomer; a row that is there already is an error that is logged.
Assign(c) ==
  /\ c \in update.selected
  /\ update' = [update EXCEPT !.selected = update.selected \ {c}]
  /\ members' = members \cup {c}
  /\ UNCHANGED <<db, query, segment, creation, jobs, stale, raced, changes>>

\* isUpdating cleared, commit.
FinishUpdate ==
  /\ update.at = "selected"
  /\ update.selected = {}
  /\ update' = [update EXCEPT !.at = "none"]
  /\ segment' = "ready"
  /\ UNCHANGED <<db, query, creation, members, jobs, stale, raced, changes>>

-----------------------------------------------------------------------------
(* A customer's job.                                                       *)

Concerns(j) == j.type = "change" \/ Names(query)

\* getSegments, without those that are being updated.
Sees == segment = "ready"

\* Another job of the customer's is about to write the opposite.
Contradicted(c) ==
  \E k \in jobs : /\ k.at = "decided" /\ k.customer = c
                  /\ k.include # Decides(db, query, c)

Decide(j) ==
  /\ j.at = "queued"
  /\ IF Concerns(j) /\ Sees
     THEN /\ jobs' = (jobs \ {j}) \cup
               {[j EXCEPT !.at = "decided",
                          !.include = Decides(db, query, j.customer)]}
          /\ raced' = IF Contradicted(j.customer) THEN raced \cup {j.customer}
                      ELSE raced \ {j.customer}
          /\ stale' = stale \ {j.customer}
     ELSE /\ jobs' = jobs \ {j}
          /\ stale' = IF Concerns(j) /\ segment = "updating"
                       THEN stale \cup {j.customer} ELSE stale
          /\ UNCHANGED raced
  /\ UNCHANGED <<db, query, segment, creation, update, members, changes>>

\* (Slip: rows are added only.)
ApplyAdds(j) ==
  /\ j.at = "decided"
  /\ members' = IF j.include THEN members \cup {j.customer} ELSE members
  /\ jobs' = jobs \ {j}
  /\ UNCHANGED <<db, query, segment, creation, update, stale, raced, changes>>

\* isCustomerMemberOf, the row added or removed, and the commit.
Apply(j) ==
  /\ j.at = "decided"
  /\ members' = IF j.include THEN members \cup {j.customer}
                ELSE members \ {j.customer}
  /\ jobs' = jobs \ {j}
  /\ UNCHANGED <<db, query, segment, creation, update, stale, raced, changes>>

-----------------------------------------------------------------------------
Build ==
  \/ Select \/ Fill
  \/ SelectIncluded \/ (\E c \in Customers : Assign(c)) \/ FinishUpdate

Keep(j) == Decide(j) \/ Apply(j)

Next ==
  \/ \E c \in Customers : AttributeChanges(c) \/ EventOccurs(c)
  \/ Create
  \/ Edit
  \/ Build
  \/ \E j \in jobs : Keep(j)

Spec == Init /\ [][Next]_vars

\* Jobs are handled.
FairSpec == Spec /\ WF_vars(Build) /\ WF_vars(\E j \in jobs : Keep(j))

-----------------------------------------------------------------------------
(* Properties.                                                             *)

(***************************************************************************)
(* What it means that the evaluations agree on query q and database d:     *)
(* selecting at once (getSegmentCustomersFromQuery) gives those that are   *)
(* included one by one (checkCustomerMatchesQuery), and what is decided of *)
(* a customer is not changed by other customers, nor by events the query   *)
(* does not name.  Queries do not come to agree by changes.                *)
(***************************************************************************)
Agreement(d, q) ==
  /\ \A c \in Customers :
       \A e \in AttributeChanged(d, c) \cup Performed(d, c) :
         Agrees(e, q) => Agrees(d, q)
  /\ Agrees(d, q) => \A c \in Customers :
       /\ c \in Collects(d, q) <=> Decides(d, q, c)
       /\ \A o \in Customers \ {c} :
            \A e \in AttributeChanged(d, o) \cup Performed(d, o) :
              Decides(e, q, c) <=> Decides(d, q, c)
       /\ ~Names(q) => \A e \in Performed(d, c) :
                         Decides(e, q, c) <=> Decides(d, q, c)

AtRest == segment = "ready" /\ jobs = {}

(***************************************************************************)
(* Once no job is left, a segment has the customers that its query would   *)
(* select if it were created now, if the evaluations agree on the query.   *)
(* All but those who have not changed since a change of theirs was passed  *)
(* over after the selection, or the query was edited, or two of their jobs *)
(* were about to write the opposite at once.  (updateCustomerSegments,     *)
(* segments.service.ts:639: "Goes through all account segments and updates *)
(* membership of the DYNAMIC segments based on the customer's              *)
(* attributes.")                                                           *)
(***************************************************************************)
UpToDate ==
  AtRest /\ Agrees(db, query) =>
    \A c \in Customers \ (stale \cup raced) :
      c \in members <=> c \in Collects(db, query)

\* A segment does not stay "updating" (getSegments passes such segments over
\* for ever), unless selecting its customers fails, and would still.
ReadyInTheEnd ==
  segment = "updating" ~> segment = "ready" \/ Errs(db, query)
=============================================================================
