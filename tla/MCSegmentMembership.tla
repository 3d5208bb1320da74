------------------------- MODULE MCSegmentMembership -------------------------
(* Instances of SegmentMembership for TLC.                                *)
EXTENDS SegmentMembership, CustomerQuery

CONSTANTS c1, c2, email, plan

Attribute(key, comparison, value) ==
  [type |-> "Attribute", key |-> key, comparisonType |-> comparison,
   value |-> value]

Event(comparison, value, anyProperty) ==
  [type |-> "Event", comparisonType |-> comparison, value |-> value,
   anyProperty |-> anyProperty]

All(statements) == [type |-> "all", statements |-> statements]
Any(statements) == [type |-> "any", statements |-> statements]

NoEvents == [c \in Customers |-> [ch \in Channels |-> 0]]

\* c1 has the declared attribute, c2 the custom one.
Two ==
  {[attribute |-> [k \in Keys |-> [c \in Customers |->
      IF (k = email) = (c = c1) THEN 1 ELSE Missing]],
    performed |-> NoEvents, statuses |-> << >>]}

Attributes ==
  {All(<<Attribute(email, "is not equal to", 1),
         Attribute(plan, "is equal to", 1)>>)}

Events ==
  {Any(<<Event("has not performed", 0, FALSE),
         All(<<Event("has performed", 2, FALSE),
               Attribute(email, "exist", 0)>>)>>),
   Any(<<Attribute(plan, "is greater than", 1),
         All(<<Event("has performed", 1, FALSE),
               Attribute(email, "exist", 0)>>)>>)}

\* Messages were sent to both, to c1 twice.
Sent(c) == [customer |-> c, event |-> "sent"]
Delivered(c) == [customer |-> c, event |-> "delivered"]
Emailed ==
  {[d EXCEPT !.statuses = <<Sent(c1), Delivered(c1), Sent(c2), Sent(c1)>>] :
     d \in Two}

Email == [type |-> "Email", happenCondition |-> "has"]
NoSegment == [type |-> "Segment", members |-> {}]

Others ==
  {All(<<Email, Any(<<NoSegment, Attribute(email, "exist", 0)>>)>>)}

\* Queries a segment has.
Created == Attributes \cup Events \cup Others

-----------------------------------------------------------------------------
(* The evaluations, on many more queries.                                  *)

Statements ==
  {Attribute(key, comparison, value) :
     key \in Keys, value \in Values,
     comparison \in {"is equal to", "is not equal to", "is greater than",
                     "is less than", "exist", "not exist"}}
  \cup {Event(comparison, value, anyProperty) :
          comparison \in {"has performed", "has not performed"},
          value \in Values, anyProperty \in BOOLEAN}
  \cup {[type |-> "Email", happenCondition |-> condition] :
          condition \in {"has", "has not"}}
  \cup {[type |-> "Segment", members |-> m] : m \in SUBSET Customers}

\* Any statement, by itself and beside query q.
Around(q) ==
  {q} \cup {[type |-> type, statements |-> with] :
             type \in {"all", "any"},
             with \in UNION {{<<s>>, <<s, q>>} : s \in Statements}}

\* Databases a change leads to, and the statuses that may be.
Changed(d) ==
  UNION {AttributeChanged(d, c) \cup Performed(d, c) : c \in Customers}

Near(d) == {d} \cup UNION {{e} \cup Changed(e) : e \in Changed(d)}

Mailings ==
  {<< >>, <<Sent(c1)>>, <<Sent(c1), Sent(c1), Sent(c2)>>,
   <<Sent(c1), Delivered(c1), Sent(c2)>>}

(***************************************************************************)
(* The two evaluations of a query agree wherever they can be expected to,  *)
(* for every statement, beside the segment's query, and whatever customers *)
(* have come to be by two changes.                                         *)
(***************************************************************************)
EvaluationsAgree ==
  segment = "absent" /\ changes = 0 =>
    \A d \in Near(db), mailing \in Mailings, q \in Around(query) :
      Agreement([d EXCEPT !.statuses = mailing], q)
=============================================================================
