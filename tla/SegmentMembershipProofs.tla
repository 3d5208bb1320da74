----------------------- MODULE SegmentMembershipProofs -----------------------
(***************************************************************************)
(* What holds of SegmentMembership for any customers, queries and          *)
(* evaluations of them.                                                    *)
(***************************************************************************)
EXTENDS SegmentMembership, TLAPS

-----------------------------------------------------------------------------
(* Type correctness.                                                       *)

\* Databases customers' changes lead to: statuses do not change.
Reachable ==
  {d \in Database : \E e \in Databases : d.statuses = e.statuses}

\* An evaluation selects customers, or says yes or no.
EvaluationsTyped ==
  \A d \in Database : \A q \in Queries :
    /\ Collects(d, q) \subseteq Customers
    /\ \A c \in Customers : Decides(d, q, c) \in BOOLEAN

\* An edit waits for the end of the creation.
Typed ==
  /\ TypeOK
  /\ db \in Reachable
  /\ segment = "absent" <=> creation.at = "none"
  /\ update.at # "none" => creation.at = "done"
  /\ update.selected # {} => update.at = "selected"

LEMMA ChangedReachable ==
  ASSUME NEW d \in Reachable, NEW c \in Customers,
         NEW e \in AttributeChanged(d, c) \cup Performed(d, c)
  PROVE  e \in Reachable
<1>0. d \in Database
  BY DEF Reachable
<1>1. CASE e \in AttributeChanged(d, c)
  <2>1. PICK k \in Keys :
          e \in {[d EXCEPT !.attribute[k][c] = v] :
                   v \in (Values \cup {Missing}) \ {d.attribute[k][c]}}
    BY <1>1 DEF AttributeChanged
  <2>2. PICK v \in Values \cup {Missing} : e = [d EXCEPT !.attribute[k][c] = v]
    BY <2>1
  <2>3. [d.attribute EXCEPT ![k][c] = v]
          \in [Keys -> [Customers -> Values \cup {Missing}]]
    BY <1>0 DEF Database
  <2> QED BY <1>0, <2>2, <2>3 DEF Reachable, Database
<1>2. CASE e \in Performed(d, c)
  <2>1. PICK ch \in Channels :
          e = [d EXCEPT !.performed[c][ch] = d.performed[c][ch] + 1]
    BY <1>2 DEF Performed
  <2>2. d.performed \in [Customers -> [Channels -> Nat]]
    BY <1>0 DEF Database
  <2>3. d.performed[c][ch] + 1 \in Nat
    BY <2>2
  <2>4. [d.performed EXCEPT ![c][ch] = d.performed[c][ch] + 1]
          \in [Customers -> [Channels -> Nat]]
    BY <2>2, <2>3
  <2> QED BY <1>0, <2>1, <2>4 DEF Reachable, Database
<1> QED BY <1>1, <1>2

\* A customer's job is queued.
LEMMA QueuedTyped ==
  ASSUME Typed, changes < MaxChanges, NEW c \in Customers,
         NEW type \in {"change", "event"}
  PROVE  Queued(c, type) \subseteq CustomerJob /\ changes + 1 \in 0..MaxChanges
<1>1. changes + 1 \in 1..MaxChanges /\ changes + 1 \in 0..MaxChanges
  BY MembershipAssumption DEF Typed, TypeOK
<1>2. [id |-> changes + 1, customer |-> c, type |-> type, at |-> "queued",
       include |-> FALSE] \in CustomerJob
  BY <1>1 DEF CustomerJob
<1> QED BY <1>1, <1>2 DEF Queued, Typed, TypeOK

LEMMA ChangeTyped ==
  ASSUME Typed, NEW c \in Customers, AttributeChanges(c) \/ EventOccurs(c)
  PROVE  Typed'
<1>1. db' \in Reachable
  BY ChangedReachable DEF AttributeChanges, EventOccurs, Typed
<1>2. jobs' \subseteq CustomerJob /\ changes' \in 0..MaxChanges
  BY QueuedTyped DEF AttributeChanges, EventOccurs
<1>3. db' \in Database
  BY <1>1 DEF Reachable
<1> QED BY <1>1, <1>2, <1>3 DEF AttributeChanges, EventOccurs, Typed, TypeOK

LEMMA CreateTyped ==
  ASSUME Typed, Create
  PROVE  Typed'
BY DEF Create, Typed, TypeOK, Creation, Update

LEMMA SelectTyped ==
  ASSUME EvaluationsTyped, Typed, Select
  PROVE  Typed'
<1>1. Collects(db, query) \subseteq Customers
  BY DEF EvaluationsTyped, Typed, TypeOK
<1>2. creation' \in Creation /\ creation'.at \in {"queued", "selected", "failed"}
  <2>1. creation \in Creation /\ creation.at = "queued"
    BY DEF Select, Typed, TypeOK
  <2>2. creation.attempts < MaxRetries => creation.attempts + 1 \in 0..MaxRetries
    BY <2>1, MembershipAssumption DEF Creation
  <2> QED BY <1>1, <2>1, <2>2 DEF Select, Creation
<1> QED BY <1>2 DEF Select, Typed, TypeOK

LEMMA FillTyped ==
  ASSUME Typed, Fill
  PROVE  Typed'
<1>1. creation \in Creation /\ creation.selected \subseteq Customers
  BY DEF Typed, TypeOK, Creation
<1>2. creation' \in Creation /\ creation'.at = "done"
  BY <1>1 DEF Fill, Creation
<1>3. update.at = "none"
  BY DEF Fill, Typed, TypeOK, Update
<1> QED BY <1>1, <1>2, <1>3 DEF Fill, Typed, TypeOK

LEMMA UpdateTyped ==
  ASSUME Typed,
         Edit \/ SelectIncluded \/ (\E c \in Customers : Assign(c)) \/ FinishUpdate
  PROVE  Typed'
<1>1. update \in Update /\ update.selected \subseteq Customers
  BY DEF Typed, TypeOK, Update
<1>2. CASE Edit
  BY <1>1, <1>2, MembershipAssumption DEF Edit, Typed, TypeOK, Update
<1>3. CASE SelectIncluded
  BY <1>1, <1>3 DEF SelectIncluded, Typed, TypeOK, Update
<1>4. ASSUME NEW c \in Customers, Assign(c)
      PROVE  Typed'
  <2>1. update' \in Update /\ update'.at = update.at
    BY <1>1, <1>4 DEF Assign, Update
  <2> QED BY <1>4, <2>1 DEF Assign, Typed, TypeOK
<1>5. CASE FinishUpdate
  BY <1>1, <1>5 DEF FinishUpdate, Typed, TypeOK, Update
<1> QED BY <1>2, <1>3, <1>4, <1>5

LEMMA KeepTyped ==
  ASSUME EvaluationsTyped, Typed, NEW j \in jobs, Keep(j)
  PROVE  Typed'
<1>1. j \in CustomerJob /\ j.customer \in Customers
  BY DEF Typed, TypeOK, CustomerJob
<1>2. Decides(db, query, j.customer) \in BOOLEAN
  BY <1>1 DEF EvaluationsTyped, Typed, TypeOK
<1>3. [j EXCEPT !.at = "decided", !.include = Decides(db, query, j.customer)]
        \in CustomerJob
  BY <1>1, <1>2 DEF CustomerJob
<1>4. CASE Decide(j)
  BY <1>1, <1>3, <1>4 DEF Decide, Typed, TypeOK
<1>5. CASE Apply(j)
  BY <1>1, <1>5 DEF Apply, Typed, TypeOK
<1> QED BY <1>4, <1>5 DEF Keep

LEMMA TypedStep ==
  ASSUME EvaluationsTyped, Typed, [Next]_vars
  PROVE  Typed'
<1>1. CASE UNCHANGED vars
  BY <1>1 DEF vars, Typed, TypeOK
<1> QED BY <1>1, ChangeTyped, CreateTyped, SelectTyped, FillTyped, UpdateTyped,
           KeepTyped
    DEF Next, Build

LEMMA TypedInit == Init => Typed
BY MembershipAssumption
DEF Init, Typed, TypeOK, Reachable, Creation, Update, CustomerJob

LEMMA TypedInvariant ==
  ASSUME EvaluationsTyped
  PROVE  Spec => []Typed
<1>1. Typed /\ [Next]_vars => Typed'
  BY TypedStep
<1> QED BY <1>1, TypedInit, PTL DEF Spec

\* Every step is typed, whatever queries and evaluations select.
THEOREM TypeInvariant ==
  ASSUME EvaluationsTyped
  PROVE  Spec => []TypeOK
<1>1. Typed => TypeOK
  BY DEF Typed
<1> QED BY <1>1, TypedInvariant, PTL

-----------------------------------------------------------------------------
(* Who is in the segment.                                                  *)

EvaluationsAgreeing ==
  \A d \in Reachable : \A q \in Queries : Agreement(d, q)

\* A job of customer c is to be decided, and has been.
ToDecide(c) ==
  \E j \in jobs : j.customer = c /\ j.at = "queued" /\ Concerns(j)

Decided(c) == {j \in jobs : j.customer = c /\ j.at = "decided"}

Known(c) == c \notin stale /\ c \notin raced

(***************************************************************************)
(* Before the segment is filled it has no members and nothing has been     *)
(* decided; those selected are those who match, unless they have changed   *)
(* since and have a job.                                                   *)
(***************************************************************************)
BeforeFill ==
  creation.at # "done" =>
    /\ members = {}
    /\ \A c \in Customers :
         /\ Decided(c) = {}
         /\ creation.at = "selected" /\ Agrees(db, query) /\ Known(c) =>
              \/ ToDecide(c)
              \/ c \in creation.selected <=> Decides(db, query, c)

\* During an edit nobody is known.
DuringEdit ==
  creation.at = "done" /\ segment = "updating" => stale = Customers

\* Once the segment is ready a customer is in as the query has it, or will be.
WhenReady ==
  segment = "ready" /\ Agrees(db, query) =>
    \A c \in Customers : Known(c) /\ ~ToDecide(c) =>
      /\ \A j \in Decided(c) : j.include <=> Decides(db, query, c)
      /\ Decided(c) = {} => (c \in members <=> Decides(db, query, c))

MemberInv == Typed /\ BeforeFill /\ DuringEdit /\ WhenReady

\* A customer changes, or somebody else.
LEMMA ChangeStep ==
  ASSUME EvaluationsAgreeing, MemberInv, NEW o \in Customers,
         AttributeChanges(o) \/ EventOccurs(o)
  PROVE  BeforeFill' /\ DuringEdit' /\ WhenReady'
<1>1. PICK type \in {"change", "event"} :
        /\ jobs' = Queued(o, type)
        /\ type = "change" => db' \in AttributeChanged(db, o)
        /\ type = "event" => db' \in Performed(db, o)
  BY DEF AttributeChanges, EventOccurs
<1>2. UNCHANGED <<query, segment, creation, update, members, stale, raced>>
  BY DEF AttributeChanges, EventOccurs
<1> DEFINE new == [id |-> changes + 1, customer |-> o, type |-> type,
                   at |-> "queued", include |-> FALSE]
<1>3. jobs' = jobs \cup {new} /\ new.at = "queued" /\ new.customer = o
      /\ new.type = type
  BY <1>1 DEF Queued
<1> HIDE DEF new
<1>4. \A c \in Customers : Decided(c)' = Decided(c) /\ Known(c)' = Known(c)
  BY <1>2, <1>3 DEF Decided, Known
<1>5. \A c \in Customers : ToDecide(c) => ToDecide(c)'
  BY <1>2, <1>3 DEF ToDecide, Concerns
<1>6. Agreement(db, query)
  BY DEF EvaluationsAgreeing, MemberInv, Typed, TypeOK
<1>7. Agrees(db', query') => Agrees(db, query)
  BY <1>1, <1>2, <1>6 DEF Agreement
<1>8. ASSUME NEW c \in Customers, ~ToDecide(c)', Agrees(db', query')
      PROVE  Decides(db', query', c) <=> Decides(db, query, c)
  <2>1. Agreement(db, query) /\ Agrees(db, query)
    BY <1>8, <1>6, <1>7
  <2>2. CASE c # o
    <3>1. db' \in AttributeChanged(db, o) \cup Performed(db, o) /\ o \in Customers \ {c}
      BY <1>1, <2>2
    <3>2. Decides(db', query, c) <=> Decides(db, query, c)
      BY <2>1, <3>1 DEF Agreement
    <3> QED BY <1>2, <3>2
  <2>3. CASE c = o
    <3>1. type = "event" /\ ~Names(query)
      BY <1>2, <1>3, <1>8, <2>3 DEF ToDecide, Concerns
    <3>2. Decides(db', query, c) <=> Decides(db, query, c)
      BY <1>1, <2>1, <2>3, <3>1 DEF Agreement
    <3> QED BY <1>2, <3>2
  <2> QED BY <2>2, <2>3
<1>9. BeforeFill'
  BY <1>2, <1>4, <1>5, <1>8, <1>7 DEF MemberInv, BeforeFill
<1>10. DuringEdit'
  BY <1>2 DEF MemberInv, DuringEdit
<1>11. WhenReady'
  BY <1>2, <1>4, <1>5, <1>8, <1>7 DEF MemberInv, WhenReady
<1> QED BY <1>9, <1>10, <1>11

\* The segment is created and filled.
LEMMA CreationStep ==
  ASSUME EvaluationsAgreeing, MemberInv, Create \/ Select \/ Fill
  PROVE  BeforeFill' /\ DuringEdit' /\ WhenReady'
<1>1. UNCHANGED <<db, query, jobs, raced>>
  BY DEF Create, Select, Fill
<1>2. /\ Agrees(db, query)' = Agrees(db, query)
      /\ \A c \in Customers : /\ Decided(c)' = Decided(c)
                              /\ ToDecide(c)' = ToDecide(c)
                              /\ Decides(db, query, c)' = Decides(db, query, c)
  BY <1>1 DEF Decided, ToDecide, Concerns
<1>3. creation \in Creation
  BY DEF MemberInv, Typed, TypeOK
<1>4. CASE Create
  <2>1. creation'.at = "queued" /\ creation.at # "done" /\ segment' = "updating"
    BY <1>3, <1>4 DEF Create, Creation, MemberInv, Typed, TypeOK
  <2> QED BY <1>1, <1>2, <1>4, <2>1
          DEF Create, MemberInv, BeforeFill, DuringEdit, WhenReady
<1>5. CASE Select
  <2>1. /\ creation'.at \in {"queued", "selected", "failed"}
        /\ creation'.at = "selected" => creation'.selected = Collects(db, query)
    BY <1>3, <1>5 DEF Select, Creation
  <2>2. Agrees(db, query) =>
          \A c \in Customers : c \in Collects(db, query) <=> Decides(db, query, c)
    BY DEF EvaluationsAgreeing, Agreement, MemberInv, Typed, TypeOK
  <2>3. creation.at = "queued" /\ segment' = segment /\ members' = members
    BY <1>5 DEF Select
  <2>4. segment # "ready"
    BY <2>3 DEF MemberInv, Typed, TypeOK
  <2>5. BeforeFill'
    BY <1>2, <2>1, <2>2, <2>3 DEF MemberInv, BeforeFill
  <2> QED BY <2>1, <2>3, <2>4, <2>5 DEF DuringEdit, WhenReady
<1>6. CASE Fill
  <2>1. /\ creation.at = "selected" /\ creation'.at = "done" /\ segment' = "ready"
        /\ members' = members \cup creation.selected /\ UNCHANGED stale
    BY <1>3, <1>6 DEF Fill, Creation
  <2>2. WhenReady'
    BY <1>1, <1>2, <2>1 DEF MemberInv, BeforeFill, WhenReady, Known
  <2> QED BY <2>1, <2>2 DEF BeforeFill, DuringEdit
<1> QED BY <1>4, <1>5, <1>6

\* Its query is edited.
LEMMA EditStep ==
  ASSUME MemberInv,
         Edit \/ SelectIncluded \/ (\E c \in Customers : Assign(c)) \/ FinishUpdate
  PROVE  BeforeFill' /\ DuringEdit' /\ WhenReady'
<1>1. creation.at = "done" /\ UNCHANGED <<db, creation, jobs, raced>>
  <2>1. segment = "ready" \/ update.at # "none"
    BY DEF Edit, SelectIncluded, Assign, FinishUpdate, MemberInv, Typed
  <2> QED BY <2>1 DEF Edit, SelectIncluded, Assign, FinishUpdate, MemberInv, Typed, TypeOK
<1>2. stale' = Customers
  <2>1. CASE Edit
    BY <2>1 DEF Edit
  <2>2. CASE ~Edit
    <3>1. update.at # "none" /\ stale' = stale
      BY <2>2 DEF SelectIncluded, Assign, FinishUpdate, MemberInv, Typed
    <3>2. segment = "updating"
      BY <1>1, <3>1 DEF MemberInv, Typed, TypeOK
    <3> QED BY <1>1, <3>1, <3>2 DEF MemberInv, DuringEdit
  <2> QED BY <2>1, <2>2
<1> QED BY <1>1, <1>2 DEF BeforeFill, DuringEdit, WhenReady, Known

\* A customer's job is decided: the others' stay.
LEMMA DecideStep ==
  ASSUME MemberInv, NEW j \in jobs, Decide(j)
  PROVE  BeforeFill' /\ DuringEdit' /\ WhenReady'
<1>1. j \in CustomerJob /\ j.customer \in Customers /\ j.at = "queued"
  BY DEF Decide, MemberInv, Typed, TypeOK, CustomerJob
<1>2. UNCHANGED <<db, query, segment, creation, update, members>>
  BY DEF Decide
<1>3. CASE Concerns(j) /\ Sees
  <2>1. PICK k : k = [j EXCEPT !.at = "decided",
                              !.include = Decides(db, query, j.customer)]
    OBVIOUS
  <2>2. /\ k.at = "decided" /\ k.customer = j.customer
        /\ k.include = Decides(db, query, j.customer)
    BY <1>1, <2>1 DEF CustomerJob
  <2>3. /\ jobs' = (jobs \ {j}) \cup {k}
        /\ raced' = IF Contradicted(j.customer) THEN raced \cup {j.customer}
                    ELSE raced \ {j.customer}
        /\ stale' = stale \ {j.customer}
    BY <1>3, <2>1 DEF Decide
  <2>4. ASSUME NEW c \in Customers, c # j.customer
        PROVE  /\ Decided(c)' = Decided(c) /\ Known(c)' = Known(c)
               /\ ToDecide(c)' = ToDecide(c)
    BY <1>1, <1>2, <2>2, <2>3, <2>4 DEF Decided, Known, ToDecide, Concerns
  <2>5. ASSUME j.customer \notin raced'
        PROVE  \A i \in Decided(j.customer)' :
                 i.include <=> Decides(db, query, j.customer)
    <3>1. ~Contradicted(j.customer)
      BY <1>1, <2>3, <2>5
    <3>2. \A i \in Decided(j.customer) :
            i.include = Decides(db, query, j.customer)
      BY <3>1 DEF Contradicted, Decided
    <3> QED BY <2>2, <2>3, <3>2 DEF Decided
  <2>6. creation.at = "done" /\ segment = "ready"
    BY <1>3 DEF Sees, MemberInv, Typed, TypeOK
  <2>7. WhenReady'
    <3>1. ASSUME NEW c \in Customers, Known(c)', ~ToDecide(c)',
                 Agrees(db, query)
          PROVE  /\ \A i \in Decided(c)' : i.include <=> Decides(db, query, c)'
                 /\ Decided(c)' = {} => (c \in members' <=> Decides(db, query, c)')
      <4>1. CASE c = j.customer
        <5>1. c \notin raced'
          BY <3>1 DEF Known
        <5>2. k \in Decided(c)'
          BY <2>2, <2>3, <4>1 DEF Decided
        <5> QED BY <1>2, <2>5, <4>1, <5>1, <5>2
      <4>2. CASE c # j.customer
        BY <1>2, <2>4, <2>6, <3>1, <4>2 DEF MemberInv, WhenReady
      <4> QED BY <4>1, <4>2
    <3> QED BY <1>2, <3>1 DEF WhenReady
  <2> QED BY <1>2, <2>6, <2>7 DEF BeforeFill, DuringEdit
<1>4. CASE ~(Concerns(j) /\ Sees)
  <2>1. /\ jobs' = jobs \ {j} /\ raced' = raced
        /\ stale' = IF Concerns(j) /\ segment = "updating"
                    THEN stale \cup {j.customer} ELSE stale
    BY <1>4 DEF Decide
  <2>2. \A c \in Customers : Decided(c)' = Decided(c) /\ (Known(c)' => Known(c))
    BY <1>1, <2>1 DEF Decided, Known
  <2>3. ASSUME NEW c \in Customers, Known(c)', segment # "absent", ToDecide(c)
        PROVE  ToDecide(c)'
    <3>1. PICK i \in jobs : i.customer = c /\ i.at = "queued" /\ Concerns(i)
      BY <2>3 DEF ToDecide
    <3>2. i # j
      <4>1. CASE Sees
        BY <1>4, <3>1, <4>1
      <4>2. CASE ~Sees
        <5>1. segment = "updating"
          BY <2>3, <4>2 DEF Sees, MemberInv, Typed, TypeOK
        <5> QED BY <2>1, <2>3, <3>1, <5>1 DEF Known
      <4> QED BY <4>1, <4>2
    <3> QED BY <1>2, <2>1, <3>1, <3>2 DEF ToDecide, Concerns
  <2>4. BeforeFill'
    <3>1. creation.at = "selected" => segment # "absent"
      BY DEF MemberInv, Typed
    <3> QED BY <1>2, <2>2, <2>3, <3>1 DEF MemberInv, BeforeFill
  <2>5. DuringEdit'
    BY <1>1, <1>2, <2>1 DEF MemberInv, DuringEdit
  <2>6. WhenReady'
    BY <1>2, <2>2, <2>3 DEF MemberInv, WhenReady
  <2> QED BY <2>4, <2>5, <2>6
<1> QED BY <1>3, <1>4

\* What was decided is written.
LEMMA ApplyStep ==
  ASSUME MemberInv, NEW j \in jobs, Apply(j)
  PROVE  BeforeFill' /\ DuringEdit' /\ WhenReady'
<1>1. /\ j.customer \in Customers /\ j.at = "decided" /\ j \in Decided(j.customer)
      /\ j.include \in BOOLEAN
  BY DEF Apply, Decided, MemberInv, Typed, TypeOK, CustomerJob
<1>2. /\ UNCHANGED <<db, query, segment, creation, update, stale, raced>>
      /\ jobs' = jobs \ {j}
      /\ members' = IF j.include THEN members \cup {j.customer}
                    ELSE members \ {j.customer}
  BY DEF Apply
<1>3. creation.at = "done"
  BY <1>1 DEF MemberInv, BeforeFill
<1>4. \A c \in Customers : /\ Decided(c)' = Decided(c) \ {j} /\ Known(c)' = Known(c)
                           /\ ToDecide(c)' = ToDecide(c)
                           /\ Decides(db, query, c)' = Decides(db, query, c)
  BY <1>1, <1>2 DEF Decided, Known, ToDecide, Concerns
<1>5. WhenReady'
  <2>1. ASSUME NEW c \in Customers, segment = "ready", Agrees(db, query),
               Known(c), ~ToDecide(c)
        PROVE  /\ \A i \in Decided(c) \ {j} : i.include <=> Decides(db, query, c)
               /\ Decided(c) \ {j} = {} => (c \in members' <=> Decides(db, query, c))
    <3>1. CASE c = j.customer
      <4>1. j.include <=> Decides(db, query, c)
        BY <1>1, <2>1, <3>1 DEF MemberInv, WhenReady
      <4>2. c \in members' <=> j.include
        BY <1>2, <3>1
      <4> QED BY <2>1, <4>1, <4>2 DEF MemberInv, WhenReady
    <3>2. CASE c # j.customer
      <4>1. j \notin Decided(c) /\ (c \in members' <=> c \in members)
        BY <1>2, <3>2 DEF Decided
      <4> QED BY <2>1, <4>1 DEF MemberInv, WhenReady
    <3> QED BY <3>1, <3>2
  <2> QED BY <1>2, <1>4, <2>1 DEF WhenReady
<1> QED BY <1>2, <1>3, <1>5 DEF MemberInv, BeforeFill, DuringEdit

LEMMA MemberStep ==
  ASSUME EvaluationsTyped, EvaluationsAgreeing, MemberInv, [Next]_vars
  PROVE  MemberInv'
<1>1. Typed'
  BY TypedStep DEF MemberInv
<1>2. CASE UNCHANGED vars
  <2>1. \A c \in Customers : /\ Decided(c)' = Decided(c) /\ Known(c)' = Known(c)
                             /\ ToDecide(c)' = ToDecide(c)
                             /\ Decides(db, query, c)' = Decides(db, query, c)
    BY <1>2 DEF vars, Decided, Known, ToDecide, Concerns
  <2> QED BY <1>1, <1>2, <2>1
          DEF vars, MemberInv, BeforeFill, DuringEdit, WhenReady
<1>3. CASE Next
  <2>1. BeforeFill' /\ DuringEdit' /\ WhenReady'
    BY <1>3, ChangeStep, CreationStep, EditStep, DecideStep, ApplyStep
    DEF Next, Build, Keep
  <2> QED BY <1>1, <2>1 DEF MemberInv
<1> QED BY <1>2, <1>3

LEMMA MemberInit == Init => MemberInv
<1> SUFFICES ASSUME Init PROVE MemberInv
  OBVIOUS
<1>1. Typed
  BY TypedInit
<1> QED BY <1>1
        DEF Init, MemberInv, BeforeFill, DuringEdit, WhenReady, Decided

(***************************************************************************)
(* A segment whose jobs are done has whom its query would select now, if   *)
(* selecting at once and deciding one by one agree on the query: except    *)
(* customers passed over, and those of whom two jobs were about to write   *)
(* the opposite, until the next job of theirs, for any number of           *)
(* customers, changes and jobs in any order.                               *)
(***************************************************************************)
THEOREM SegmentUpToDate ==
  ASSUME EvaluationsTyped, EvaluationsAgreeing
  PROVE  Spec => []UpToDate
<1>1. MemberInv /\ [Next]_vars => MemberInv'
  BY MemberStep
<1>2. ASSUME MemberInv PROVE UpToDate
  <2>1. SUFFICES ASSUME AtRest, Agrees(db, query),
                        NEW c \in Customers \ (stale \cup raced)
                 PROVE  c \in members <=> c \in Collects(db, query)
    BY DEF UpToDate
  <2>2. ~ToDecide(c) /\ Decided(c) = {} /\ Known(c)
    BY <2>1 DEF AtRest, ToDecide, Decided, Known
  <2>3. c \in members <=> Decides(db, query, c)
    BY <1>2, <2>1, <2>2 DEF MemberInv, WhenReady, AtRest
  <2>4. c \in Collects(db, query) <=> Decides(db, query, c)
    BY <1>2, <2>1 DEF EvaluationsAgreeing, Agreement, MemberInv, Typed, TypeOK
  <2> QED BY <2>3, <2>4
<1> QED BY <1>1, <1>2, MemberInit, PTL DEF Spec
=============================================================================
