---------------------------- MODULE CustomerQuery ----------------------------
(***************************************************************************)
(* The evaluations of a segment's query.  CustomersService selects the     *)
(* customers of a query at once when the segment is created                *)
(* (getSegmentCustomersFromQuery: every statement writes a collection, and *)
(* the collections are joined), and decides for one customer when the      *)
(* customer changes (checkCustomerMatchesQuery).  A third one is left over *)
(* from audiences (AudiencesHelper.checkInclusion).                        *)
(***************************************************************************)
EXTENDS CustomerData, FiniteSets, FiniteSetsExt

\* Of the inserts of customersFromMessageStatement.
CONSTANT BatchSize

ASSUME QueryAssumption == BatchSize \in Nat \ {0}

-----------------------------------------------------------------------------
(* Many customers: collections.                                            *)

Has(db, s, c) == db.attribute[s.key][c] # Missing

\* The match of customersFromAttributeStatement.
AttributeMatches(db, s, c) ==
  LET value == db.attribute[s.key][c] IN
  CASE s.comparisonType = "is equal to" -> value = s.value
    [] s.comparisonType = "is not equal to" -> value # s.value
    [] s.comparisonType = "exist" -> Has(db, s, c)
    [] s.comparisonType = "not exist" -> ~Has(db, s, c)
    [] s.comparisonType = "is greater than" ->
         Has(db, s, c) /\ value > s.value
    [] s.comparisonType = "is less than" -> Has(db, s, c) /\ value < s.value

\* Three pipelines, each of which counts on its own.
HasPerformed(db, s) ==
  {c \in Customers : \E ch \in Channels : db.performed[c][ch] >= s.value}

\* The pipeline for other_ids is put together and not run.
HasNotPerformed(db) ==
  {c \in Customers :
     \A ch \in Channels \ {"other_ids"} : db.performed[c][ch] = 0}

\* The performers are written out one for each event, under their _id; those
\* on mobile devices are merged.
NotPerformedFails(db) ==
  \E c \in Customers :
    "primaryKey" \in Channels /\ db.performed[c]["primaryKey"] > 1

\* "has not received": a status other than sent, opened and clicked.
StatusMatches(s, status) ==
  status.event = (IF s.happenCondition = "has" THEN "sent" ELSE "delivered")

Matching(db, s) == SelectSeq(db.statuses, LAMBDA st : StatusMatches(s, st))

\* Row i of a batch is inserted unless it, or one before it in the batch,
\* repeats a row: insertMany stops there, and the error is only logged.
Inserted(rows, i) ==
  LET first == ((i - 1) \div BatchSize) * BatchSize + 1 IN
  \A k \in first..i : \A n \in 1..(k - 1) :
    rows[n].customer # rows[k].customer

Receivers(db, s) ==
  LET rows == Matching(db, s) IN
  {rows[i].customer : i \in {n \in DOMAIN rows : Inserted(rows, n)}}

StatementSelects(db, s) ==
  CASE s.type = "Attribute" -> {c \in Customers : AttributeMatches(db, s, c)}
    [] s.type = "Event" -> IF s.comparisonType = "has performed"
                           THEN HasPerformed(db, s) ELSE HasNotPerformed(db)
    [] s.type = "Email" -> Receivers(db, s)
    [] s.type = "Segment" -> s.members

\* An error of one statement is an error of the query.
StatementFails(db, s) ==
  s.type = "Event" /\ s.comparisonType = "has not performed"
    /\ NotPerformedFails(db)

IsQuery(s) == s.type \in {"all", "any"}

\* (Slip: a customer of any collection is in all of them.)
InEachOnce(c, sets) == \E i \in DOMAIN sets : c \in sets[i]

\* The collections are added up, and customers counted.
InEach(c, sets) ==
  Cardinality({i \in DOMAIN sets : c \in sets[i]}) = Len(sets)

RECURSIVE Selected(_, _), Fails(_, _)

Selected(db, s) ==
  IF ~IsQuery(s) THEN StatementSelects(db, s)
  ELSE LET sets == [i \in DOMAIN s.statements |->
                      Selected(db, s.statements[i])]
       IN IF s.type = "all"
          THEN {c \in Customers : InEach(c, sets)}
          ELSE UNION {sets[i] : i \in DOMAIN sets}

Fails(db, s) ==
  IF ~IsQuery(s) THEN StatementFails(db, s)
  ELSE \E i \in DOMAIN s.statements : Fails(db, s.statements[i])

-----------------------------------------------------------------------------
(* One customer.                                                           *)

\* (key in customer): a property declared in the schema is always there.
HasKey(db, s, c) == s.key \in Declared \/ Has(db, s, c)

EvaluateAttribute(db, s, c) ==
  HasKey(db, s, c) /\ AttributeMatches(db, s, c)

\* The condition on the primary key never applies (currentPK is a document,
\* not a key), and a list of properties of which any may hold replaces the
\* condition on the customer.
EventsOf(db, s, c) ==
  IF s.anyProperty
  THEN FoldSet(LAMBDA p, n : n + db.performed[p[1]][p[2]], 0,
               Customers \X Channels)
  ELSE IF "_id" \in Channels THEN db.performed[c]["_id"] ELSE 0

EvaluateEvent(db, s, c) ==
  IF s.comparisonType = "has performed"
  THEN EventsOf(db, s, c) >= s.value
  ELSE EventsOf(db, s, c) < 1

\* The statuses of the whole workspace are counted.
EvaluateMessage(db, s, c) == Matching(db, s) # << >>

\* A statement about a segment falls through the switch.
EvaluateSingleStatement(db, s, c) ==
  CASE s.type = "Attribute" -> EvaluateAttribute(db, s, c)
    [] s.type = "Event" -> EvaluateEvent(db, s, c)
    [] s.type = "Email" -> EvaluateMessage(db, s, c)
    [] s.type = "Segment" -> FALSE

RECURSIVE Matches(_, _, _)

\* checkCustomerMatchesQuery and evaluateStatementWithSubQuery.
Matches(db, s, c) ==
  IF ~IsQuery(s) THEN EvaluateSingleStatement(db, s, c)
  ELSE IF s.type = "all"
       THEN \A i \in DOMAIN s.statements : Matches(db, s.statements[i], c)
       ELSE \E i \in DOMAIN s.statements : Matches(db, s.statements[i], c)

-----------------------------------------------------------------------------
(* Segments' events.                                                       *)

RECURSIVE NamesEvent(_)

\* containsEventNameWithValue: an event changes only the segments that name
\* it.
NamesEvent(s) ==
  IF IsQuery(s) THEN \E i \in DOMAIN s.statements : NamesEvent(s.statements[i])
  ELSE s.type = "Event"

-----------------------------------------------------------------------------
(* One customer, as audiences had it.                                      *)

\* Every statement is taken for a comparison of an attribute with a value;
\* "exists", which needs none, is written "exist" in segments.
Compares(db, s, c) ==
  /\ s.type = "Attribute"
  /\ s.comparisonType \in {"is equal to", "is not equal to",
                           "is greater than", "is less than"}
  /\ s.value # 0
  /\ AttributeMatches(db, s, c)

CheckInclusion(db, q, c) ==
  \/ q.statements = << >>
  \/ /\ q.type = "all"
     /\ \A i \in DOMAIN q.statements : Compares(db, q.statements[i], c)
  \/ /\ q.type = "any"
     /\ \E i \in DOMAIN q.statements : Compares(db, q.statements[i], c)

-----------------------------------------------------------------------------
(* Where the first two can be expected to agree.                           *)

\* A missing attribute that is declared, or asked for; events of customers by
\* _id alone, whatever their properties; a message to everybody or nobody; an
\* empty segment.
StatementComparable(db, s) ==
  CASE s.type = "Attribute" ->
         \/ s.key \in Declared
         \/ s.comparisonType \notin {"is not equal to", "not exist"}
    [] s.type = "Event" ->
         /\ ~s.anyProperty
         /\ \A c \in Customers : \A ch \in Channels \ {"_id"} :
              db.performed[c][ch] = 0
    [] s.type = "Email" -> Receivers(db, s) \in {{}, Customers}
    [] s.type = "Segment" -> s.members = {}

RECURSIVE Comparable(_, _)

Comparable(db, s) ==
  IF IsQuery(s)
  THEN \A i \in DOMAIN s.statements : Comparable(db, s.statements[i])
  ELSE StatementComparable(db, s)
=============================================================================
