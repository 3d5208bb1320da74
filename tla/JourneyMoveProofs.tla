-------------------------- MODULE JourneyMoveProofs --------------------------
(***************************************************************************)
(* What JourneyDisturbance states of the customers nobody came in the way  *)
(* of, for every journey, every number of customers, jobs, cron runs and   *)
(* events, and whatever is lost, repeated, raced or timed out around them. *)
(*                                                                         *)
(* The proof has two halves that meet in the passages of one customer.     *)
(* Whoever may write a customer's row carries an object read before: a     *)
(* job, a claim of a cron run that has locked it, an event that has: a     *)
(* hand.  The first half shows that every step of the system, for every    *)
(* customer it does not disturb, is one of eight passages: the customer    *)
(* stands, is locked, goes from hand to hand, lands, and so on.  The       *)
(* second half looks at one customer and the eight passages only.          *)
(***************************************************************************)
EXTENDS JourneyTraversalProofs, JourneyDisturbance

-----------------------------------------------------------------------------
(* Hands.                                                                  *)

JobMoves(i, c) ==
  /\ jobs[i].phase = "ready"
  /\ ~jobs[i].malformed
  /\ jobs[i].customer = c

ClaimMoves(k, x, c) ==
  /\ cron[k].phase = "locked"
  /\ x \in cron[k].claims
  /\ x.customer = c

EventMoves(e, c) == event[e].phase = "locked" /\ EventCustomer[e] = c

JobHand(i) ==
  [kind |-> "job", id |-> i, step |-> jobs[i].step, location |-> jobs[i].location]

ClaimHand(k, x) ==
  [kind |-> "cron", id |-> k, step |-> x.location.step, location |-> x.location]

EventHand(e) ==
  [kind |-> "event", id |-> e, step |-> event[e].location.step,
   location |-> event[e].location]

ClaimHands(k, c) == {ClaimHand(k, x) : x \in {y \in cron[k].claims : y.customer = c}}

\* The hands customer c is in.  An enrollment that has not queued its job
\* holds no object: it reads the row.
Hands(c) ==
  {JobHand(i) : i \in {j \in JobIds : JobMoves(j, c)}}
    \cup {EventHand(e) : e \in {f \in Events : EventMoves(f, c)}}
    \cup UNION {ClaimHands(k, c) : k \in {m \in Crons : cron[m].phase = "locked"}}

Holds(c, h) ==
  \/ \E i \in JobIds : JobMoves(i, c) /\ h = JobHand(i)
  \/ \E e \in Events : EventMoves(e, c) /\ h = EventHand(e)
  \/ \E k \in Crons : \E x \in cron[k].claims :
       ClaimMoves(k, x, c) /\ h = ClaimHand(k, x)

-----------------------------------------------------------------------------
(* The invariants.                                                         *)

Messaged(c) == sends[c] > 0

\* The delay of the step, if it has one, is over.
DelayOver(step, location) ==
  Type[step] = "timeDelay" /\ step \notin Windowed
    => location.waited > Delay[step]

\* The steps a move from s can come to, as the walk defines them.
Within(s) == Walk!WithinMove(s)

(***************************************************************************)
(* What any customer's jobs, claims, events and messages tell, disturbed   *)
(* or not: the customer is enrolled; a claim was made on a customer at     *)
(* rest in a time based step, by a run that has selected or locked.        *)
(***************************************************************************)
ClaimsSound(k) ==
  /\ cron[k].claims # {} => cron[k].phase \in {"selected", "locked"}
  /\ \A x \in cron[k].claims :
       /\ x.customer \in enrolled
       /\ x.location.step \in TimeBased
       /\ ~x.location.locked

EnrolledInv ==
  /\ starting \subseteq enrolled
  /\ \A i \in JobIds : jobs[i].phase # "free" => jobs[i].customer \in enrolled
  /\ \A k \in Crons : ClaimsSound(k)
  /\ \A k \in Crons : Requeueing(k) \subseteq enrolled
  /\ \A r \in requeued : r.customer \in enrolled
  /\ \A e \in Events :
       event[e].phase \in {"read", "locked"} => EventCustomer[e] \in enrolled
  /\ \A c \in Customers \ enrolled : ~row[c].messageSent /\ sends[c] = 0

\* The object in hand h describes the row of c, and has the mark the row
\* will get.
Carries(h, c) ==
  /\ Describes(h.location, row[c])
  /\ h.location.messageSent <=> Messaged(c)

\* The hand is where the row is, or further on, within one move that left no
\* delay early.
OnTheWay(h, c) ==
  \/ h.step = row[c].step
  \/ /\ h.step \in Within(row[c].step) \ TimeBased
     /\ DelayOver(row[c].step, row[c])

(***************************************************************************)
(* Who has not been disturbed is in one hand at most; is locked while in   *)
(* one; and it carries the row.  Who has not begun is in none.  Who rests, *)
(* rests in a resting place, marked if and only if messaged.               *)
(***************************************************************************)
InHand(c, h) ==
  /\ row[c].locked
  /\ Carries(h, c)
  /\ OnTheWay(h, c)
  /\ h.kind = "event" => h.step \in RestingPlaces

NotBegun(c) ==
  /\ Hands(c) = {}
  /\ row[c].locked /\ row[c].step = StartStep
  /\ ~row[c].messageSent /\ ~Messaged(c)

AtRest(c) ==
  /\ row[c].step \in RestingPlaces
  /\ row[c].messageSent <=> Messaged(c)

HandInv(c) ==
  /\ \A g, h \in Hands(c) : g = h
  /\ \A h \in Hands(c) : InHand(c, h)
  /\ c \in starting => NotBegun(c)
  /\ c \in enrolled /\ ~row[c].locked => AtRest(c)

HandsInv == \A c \in Customers \ disturbed : HandInv(c)

-----------------------------------------------------------------------------
(* The passages of one customer.                                           *)

\* The customer stays in the journey, and does not begin again.
StaysIn(c) ==
  /\ c \in enrolled' <=> c \in enrolled
  /\ c \in starting' => c \in starting

Still(c) == row'[c] = row[c] /\ sends'[c] = sends[c]

\* Nothing happens to c, or the hand c is in lets go.
Stands(c) == StaysIn(c) /\ Still(c) /\ Hands(c)' \subseteq Hands(c)

Enters(c) ==
  /\ c \notin enrolled /\ c \in enrolled'
  /\ row'[c] = Created /\ sends'[c] = sends[c]
  /\ Hands(c)' = {}

\* The job for the start step takes c.
Starts(c) ==
  /\ StaysIn(c) /\ Still(c)
  /\ c \in starting /\ c \notin starting'
  /\ \E h :
       /\ Hands(c)' \subseteq {h}
       /\ h.kind = "job" /\ h.step = StartStep /\ h.location = row[c]

\* c is locked, by whoever takes c from the row as it is, or by a requeueing
\* that takes nothing.
GetsLocked(c) ==
  /\ StaysIn(c) /\ c \in enrolled
  /\ row'[c] = Lock(row[c]) /\ sends'[c] = sends[c]
  /\ \/ Hands(c)' \subseteq Hands(c)
     \/ /\ ~row[c].locked
        /\ \E h :
             /\ Hands(c)' \subseteq {h}
             /\ h.location = row[c] /\ h.step = row[c].step
             /\ h.kind = "event" \/ h.step \in TimeBased

\* The object goes on as it is, or marked by the message a job just sent.
GoesOnWith(c, h, location) ==
  \/ location = h.location /\ sends'[c] = sends[c]
  \/ /\ location = Marked(h.location)
     /\ h.kind = "job" /\ h.step \in MessageSteps
     /\ Messaged(c)' /\ sends'[c] <= sends[c] + 1

\* A job takes c over from another hand for the same step: an event hands on
\* customers in time based steps only.
TakesOver(c, h, g) ==
  /\ g.step = h.step /\ g.location = h.location
  /\ sends'[c] = sends[c]
  /\ h.kind = "event" => h.step \in TimeBased

\* A job takes c on to a step that the processor leads to.
LeadsOn(c, h, g) ==
  /\ h.kind = "job" /\ Leads(h.step, g.step)
  /\ g.step \in Steps \ TimeBased
  /\ DelayOver(h.step, g.location)
  /\ GoesOnWith(c, h, g.location)

PassesTo(c, h, g) ==
  /\ Hands(c)' \subseteq {g} /\ g.kind = "job"
  /\ TakesOver(c, h, g) \/ LeadsOn(c, h, g)

Passes(c) ==
  /\ StaysIn(c) /\ row'[c] = row[c]
  /\ \E h \in Hands(c) : \E g : PassesTo(c, h, g)

\* The job is lost, with its message sent.
Drops(c) ==
  /\ StaysIn(c) /\ row'[c] = row[c]
  /\ Hands(c)' = {}
  /\ \E h \in Hands(c) : /\ h.kind = "job" /\ h.step \in MessageSteps
                         /\ Messaged(c)' /\ sends'[c] <= sends[c] + 1

\* The hand c is in unlocks the row and is gone.
Lands(c) ==
  /\ StaysIn(c) /\ Hands(c)' = {}
  /\ \E h \in Hands(c), location \in Location, s \in Steps \cap RestingPlaces :
       /\ row'[c] = Unlock(location, s)
       /\ GoesOnWith(c, h, location)
       /\ \/ s = h.step
          \/ h.kind = "job" /\ Leads(h.step, s) /\ DelayOver(h.step, location)

\* Time passes for the row and for the object alike.
Ages(c) ==
  /\ StaysIn(c) /\ c \in enrolled
  /\ row'[c] = Aged(row[c]) /\ sends'[c] = sends[c]
  /\ \A g \in Hands(c)' : \E h \in Hands(c) :
       g = [h EXCEPT !.location = Aged(h.location)]

Passage(c) ==
  \/ Stands(c) \/ Enters(c) \/ Starts(c) \/ GetsLocked(c)
  \/ Passes(c) \/ Drops(c) \/ Lands(c) \/ Ages(c)

-----------------------------------------------------------------------------
(* Who is in whose hand.                                                   *)

LEMMA InHands == \A c, h : h \in Hands(c) <=> Holds(c, h)
<1> SUFFICES ASSUME NEW c, NEW h
             PROVE  h \in Hands(c) <=> Holds(c, h)
  OBVIOUS
<1>1. h \in {JobHand(i) : i \in {j \in JobIds : JobMoves(j, c)}}
        <=> \E i \in JobIds : JobMoves(i, c) /\ h = JobHand(i)
  OBVIOUS
<1>2. h \in {EventHand(e) : e \in {f \in Events : EventMoves(f, c)}}
        <=> \E e \in Events : EventMoves(e, c) /\ h = EventHand(e)
  OBVIOUS
<1>3. \A k : h \in ClaimHands(k, c)
               <=> \E x \in cron[k].claims : x.customer = c /\ h = ClaimHand(k, x)
  BY DEF ClaimHands
<1>4. h \in UNION {ClaimHands(k, c) : k \in {m \in Crons : cron[m].phase = "locked"}}
        <=> \E k \in Crons : \E x \in cron[k].claims :
              ClaimMoves(k, x, c) /\ h = ClaimHand(k, x)
  <2>1. h \in UNION {ClaimHands(k, c) : k \in {m \in Crons : cron[m].phase = "locked"}}
          <=> \E k \in Crons : cron[k].phase = "locked" /\ h \in ClaimHands(k, c)
    OBVIOUS
  <2> QED BY <1>3, <2>1 DEF ClaimMoves
<1> QED BY <1>1, <1>2, <1>4 DEF Hands, Holds

LEMMA InHandsNext == \A c, h : h \in Hands(c)' <=> Holds(c, h)'
<1>1. (\A c, h : h \in Hands(c) <=> Holds(c, h))'
  BY InHands, PTL
<1> QED BY <1>1

\* Everybody's hands are where steps and locations are.
LEMMA HandType ==
  ASSUME TypeOK, NEW c \in Customers, NEW h \in Hands(c)
  PROVE  /\ h.step \in Steps /\ h.location \in Location
         /\ h = [kind |-> h.kind, id |-> h.id, step |-> h.step,
                 location |-> h.location]
<1>1. CASE \E i \in JobIds : JobMoves(i, c) /\ h = JobHand(i)
  <2>1. PICK i \in JobIds : JobMoves(i, c) /\ h = JobHand(i)
    BY <1>1
  <2>2. jobs[i] \in Job
    BY <2>1, BusySlot DEF TypeOK, JobsType, JobMoves
  <2> QED BY <2>1, <2>2 DEF JobHand, Job
<1>2. CASE \E e \in Events : EventMoves(e, c) /\ h = EventHand(e)
  BY <1>2 DEF EventHand, TypeOK, EventRun, Location
<1>3. CASE \E k \in Crons : \E x \in cron[k].claims :
             ClaimMoves(k, x, c) /\ h = ClaimHand(k, x)
  <2>1. PICK k \in Crons : \E x \in cron[k].claims : h = ClaimHand(k, x)
    BY <1>3
  <2>2. PICK x \in Claim : h = ClaimHand(k, x)
    BY <2>1 DEF TypeOK, CronRun
  <2> QED BY <2>2 DEF ClaimHand, Claim, Location
<1> QED BY <1>1, <1>2, <1>3, InHands DEF Holds

\* Nobody is in hand who is not enrolled.
LEMMA HandsEnrolled ==
  ASSUME TypeOK, EnrolledInv, NEW c \in Customers, Hands(c) # {}
  PROVE  c \in enrolled
<1>1. PICK h : Holds(c, h)
  BY InHands
<1>2. CASE \E i \in JobIds : JobMoves(i, c)
  BY <1>2 DEF EnrolledInv, JobMoves
<1>3. CASE \E e \in Events : EventMoves(e, c)
  BY <1>3 DEF EnrolledInv, EventMoves
<1>4. CASE \E k \in Crons : \E x \in cron[k].claims : ClaimMoves(k, x, c)
  BY <1>4 DEF EnrolledInv, ClaimsSound, ClaimMoves
<1> QED BY <1>1, <1>2, <1>3, <1>4 DEF Holds

NobodyMoves(c) ==
  /\ \A j \in JobIds : ~JobMoves(j, c)
  /\ \A f \in Events : ~EventMoves(f, c)
  /\ \A m \in Crons : \A y \in cron[m].claims : ~ClaimMoves(m, y, c)

LEMMA NoHands ==
  ASSUME NEW c \in Customers, Hands(c) = {}
  PROVE  NobodyMoves(c)
<1>1. \A h : ~Holds(c, h)
  BY InHands
<1> QED BY <1>1 DEF Holds, NobodyMoves

\* An unlocked customer is in no hand.
LEMMA UnlockedIsFree ==
  ASSUME NEW c \in Customers, HandInv(c), ~row[c].locked
  PROVE  Hands(c) = {} /\ c \notin starting
BY DEF HandInv, InHand, NotBegun

\* Whoever is in one hand is in no other.
LEMMA SoleJob ==
  ASSUME NEW c \in Customers, HandInv(c), NEW i \in JobIds, JobMoves(i, c)
  PROVE  /\ JobHand(i) \in Hands(c)
         /\ \A j \in JobIds : JobMoves(j, c) => j = i
         /\ \A f \in Events : ~EventMoves(f, c)
         /\ \A m \in Crons : \A y \in cron[m].claims : ~ClaimMoves(m, y, c)
<1>1. \A h : Holds(c, h) => h = JobHand(i)
  BY InHands DEF HandInv, Holds
<1>2. \A j : JobHand(j) = JobHand(i) => j = i
  BY DEF JobHand
<1>3. \A f : EventHand(f) # JobHand(i)
  BY DEF JobHand, EventHand
<1>4. \A m, y : ClaimHand(m, y) # JobHand(i)
  BY DEF JobHand, ClaimHand
<1>5. JobHand(i) \in Hands(c)
  BY InHands DEF Holds
<1>6. /\ \A j \in JobIds : JobMoves(j, c) => j = i
      /\ \A f \in Events : ~EventMoves(f, c)
  BY <1>1, <1>2, <1>3 DEF Holds
<1>7. \A m \in Crons : \A y \in cron[m].claims : ~ClaimMoves(m, y, c)
  BY <1>1, <1>4 DEF Holds
<1> QED BY <1>5, <1>6, <1>7

LEMMA SoleEvent ==
  ASSUME NEW c \in Customers, HandInv(c), NEW e \in Events, EventMoves(e, c)
  PROVE  /\ EventHand(e) \in Hands(c)
         /\ \A f \in Events : EventMoves(f, c) => f = e
         /\ \A j \in JobIds : ~JobMoves(j, c)
         /\ \A m \in Crons : \A y \in cron[m].claims : ~ClaimMoves(m, y, c)
<1>1. \A h : Holds(c, h) => h = EventHand(e)
  BY InHands DEF HandInv, Holds
<1>2. \A f : EventHand(f) = EventHand(e) => f = e
  BY DEF EventHand
<1>3. \A j : JobHand(j) # EventHand(e)
  BY DEF JobHand, EventHand
<1>4. \A m, y : ClaimHand(m, y) # EventHand(e)
  BY DEF EventHand, ClaimHand
<1>5. EventHand(e) \in Hands(c)
  BY InHands DEF Holds
<1>6. /\ \A j \in JobIds : ~JobMoves(j, c)
      /\ \A f \in Events : EventMoves(f, c) => f = e
  BY <1>1, <1>2, <1>3 DEF Holds
<1>7. \A m \in Crons : \A y \in cron[m].claims : ~ClaimMoves(m, y, c)
  BY <1>1, <1>4 DEF Holds
<1> QED BY <1>5, <1>6, <1>7

LEMMA SoleClaim ==
  ASSUME TypeOK, NEW c \in Customers, HandInv(c),
         NEW k \in Crons, NEW x \in cron[k].claims, ClaimMoves(k, x, c)
  PROVE  /\ ClaimHand(k, x) \in Hands(c)
         /\ \A j \in JobIds : ~JobMoves(j, c)
         /\ \A f \in Events : ~EventMoves(f, c)
         /\ \A m \in Crons : \A y \in cron[m].claims :
              ClaimMoves(m, y, c) => m = k /\ y = x
<1>1. \A h : Holds(c, h) => h = ClaimHand(k, x)
  BY InHands DEF HandInv, Holds
<1>2. ASSUME NEW m \in Crons, NEW y \in cron[m].claims, ClaimMoves(m, y, c)
      PROVE  m = k /\ y = x
  <2>1. ClaimHand(m, y) = ClaimHand(k, x)
    BY <1>1, <1>2 DEF Holds
  <2>2. m = k /\ y.location = x.location
    BY <2>1 DEF ClaimHand
  <2>3. x \in Claim /\ y \in Claim
    BY DEF TypeOK, CronRun
  <2> QED BY <1>2, <2>2, <2>3 DEF Claim, ClaimMoves
<1>3. \A j : JobHand(j) # ClaimHand(k, x)
  BY DEF JobHand, ClaimHand
<1>4. \A f : EventHand(f) # ClaimHand(k, x)
  BY DEF EventHand, ClaimHand
<1>5. ClaimHand(k, x) \in Hands(c)
  BY InHands DEF Holds
<1>6. \A j \in JobIds : ~JobMoves(j, c)
  BY <1>1, <1>3 DEF Holds
<1>7. \A f \in Events : ~EventMoves(f, c)
  BY <1>1, <1>4 DEF Holds
<1> QED BY <1>2, <1>5, <1>6, <1>7

-----------------------------------------------------------------------------
(* What becomes of the hands in a step.                                    *)

NoNewJob(c) ==
  \A j \in JobIds : JobMoves(j, c)' => JobMoves(j, c) /\ jobs'[j] = jobs[j]

NoNewClaim(c) ==
  \A k \in Crons : \A x \in cron'[k].claims :
    ClaimMoves(k, x, c)' => x \in cron[k].claims /\ ClaimMoves(k, x, c)

NoNewEvent(c) ==
  \A e \in Events : EventMoves(e, c)' => EventMoves(e, c) /\ event'[e] = event[e]

LEMMA HandsKept ==
  ASSUME NEW c \in Customers, NoNewJob(c), NoNewClaim(c), NoNewEvent(c)
  PROVE  Hands(c)' \subseteq Hands(c)
<1> SUFFICES ASSUME NEW h, Holds(c, h)'
             PROVE  Holds(c, h)
  BY InHands, InHandsNext
<1>1. CASE \E i \in JobIds : JobMoves(i, c)' /\ h = JobHand(i)'
  BY <1>1 DEF NoNewJob, JobHand, Holds
<1>2. CASE \E e \in Events : EventMoves(e, c)' /\ h = EventHand(e)'
  BY <1>2 DEF NoNewEvent, EventHand, Holds
<1>3. CASE \E k \in Crons : \E x \in cron'[k].claims :
             ClaimMoves(k, x, c)' /\ h = ClaimHand(k, x)
  BY <1>3 DEF NoNewClaim, Holds
<1> QED BY <1>1, <1>2, <1>3 DEF Holds, ClaimHand

LEMMA Unmoved ==
  ASSUME NEW c \in Customers
  PROVE  /\ UNCHANGED jobs => NoNewJob(c)
         /\ UNCHANGED cron => NoNewClaim(c)
         /\ UNCHANGED event => NoNewEvent(c)
<1>1. UNCHANGED jobs => NoNewJob(c)
  BY DEF NoNewJob, JobMoves
<1>2. UNCHANGED cron => NoNewClaim(c)
  BY DEF NoNewClaim, ClaimMoves
<1>3. UNCHANGED event => NoNewEvent(c)
  BY DEF NoNewEvent, EventMoves
<1> QED BY <1>1, <1>2, <1>3

\* What the hands of c come from after a step: if all new ones are one job.
LEMMA HandedToJob ==
  ASSUME NEW c \in Customers, NEW s \in JobIds,
         \A j \in JobIds : JobMoves(j, c)' => j = s,
         \A e \in Events : ~EventMoves(e, c)',
         \A k \in Crons : \A x \in cron'[k].claims : ~ClaimMoves(k, x, c)'
  PROVE  Hands(c)' \subseteq {JobHand(s)'}
<1> SUFFICES ASSUME NEW h, Holds(c, h)'
             PROVE  h = JobHand(s)'
  BY InHandsNext
<1> QED BY DEF Holds

LEMMA HandedToNobody ==
  ASSUME NEW c \in Customers,
         \A j \in JobIds : ~JobMoves(j, c)',
         \A e \in Events : ~EventMoves(e, c)',
         \A k \in Crons : \A x \in cron'[k].claims : ~ClaimMoves(k, x, c)'
  PROVE  Hands(c)' = {}
<1> SUFFICES ASSUME NEW h, Holds(c, h)'
             PROVE  FALSE
  BY InHandsNext
<1> QED BY DEF Holds

\* A job is published into a free slot, and moves its customer.
LEMMA PublishedJob ==
  ASSUME TypeOK, NEW job \in Job, Publish(job)
  PROVE  \E s \in JobIds :
           /\ jobs[s] = NoJob
           /\ jobs'[s] = job
           /\ \A j \in JobIds \ {s} : jobs'[j] = jobs[j]
<1>1. Slot \in JobIds /\ jobs[Slot] = NoJob
  BY FreeSlot DEF Publish, HasRoom, HasSlot
<1> QED BY <1>1 DEF Publish, TypeOK

\* For everybody else it is as if nothing had been published.
LEMMA PublishedForAnother ==
  ASSUME TypeOK, NEW job \in Job, Publish(job), NEW c \in Customers,
         job.customer # c \/ job.malformed
  PROVE  NoNewJob(c)
<1>1. PICK s \in JobIds : /\ jobs'[s] = job
                          /\ \A j \in JobIds \ {s} : jobs'[j] = jobs[j]
  BY PublishedJob
<1> QED BY <1>1 DEF NoNewJob, JobMoves

\* A job that hands its customer on is replaced by the new one.
LEMMA HandedOnJob ==
  ASSUME TypeOK, NEW i \in JobIds, jobs[i].phase = "ready",
         NEW job \in Job, HandledAndPublish(i, job)
  PROVE  \E s \in JobIds :
           /\ s # i
           /\ jobs'[i].phase = "handled"
           /\ jobs'[s] = job
           /\ \A j \in JobIds \ {i, s} : jobs'[j] = jobs[j]
<1>1. Slot \in JobIds /\ jobs[Slot] = NoJob /\ Slot # i
  BY FreeSlot DEF HandledAndPublish, NoJob
<1>2. jobs[i] \in Job
  BY BusySlot DEF TypeOK, JobsType
<1>3. /\ jobs'[i].phase = "handled"
      /\ jobs'[Slot] = job
      /\ \A j \in JobIds \ {i, Slot} : jobs'[j] = jobs[j]
  BY <1>1, <1>2 DEF HandledAndPublish, TypeOK, Job
<1> QED BY <1>1, <1>3

\* A job that is over or gone moves nobody.
LEMMA JobOver ==
  ASSUME TypeOK, NEW i \in JobIds,
         \/ jobs[i].phase = "ready" /\ Handled(i)
         \/ jobs' = [jobs EXCEPT ![i] = NoJob]
  PROVE  /\ jobs'[i].phase # "ready"
         /\ \A j \in JobIds \ {i} : jobs'[j] = jobs[j]
         /\ \A c \in Customers : NoNewJob(c)
<1>1. jobs'[i].phase # "ready"
  <2>1. CASE jobs[i].phase = "ready" /\ Handled(i)
    <3>1. jobs[i] \in Job
      BY <2>1, BusySlot DEF TypeOK, JobsType
    <3> QED BY <2>1, <3>1 DEF Handled, TypeOK, Job
  <2>2. CASE jobs' = [jobs EXCEPT ![i] = NoJob]
    BY <2>2 DEF TypeOK, NoJob
  <2> QED BY <2>1, <2>2
<1>2. \A j \in JobIds \ {i} : jobs'[j] = jobs[j]
  BY DEF Handled, TypeOK
<1> QED BY <1>1, <1>2 DEF NoNewJob, JobMoves

-----------------------------------------------------------------------------
(* Every step is a passage of everybody it does not disturb: enrollment.   *)

LEMMA EnrollmentPassage ==
  ASSUME TypeOK, EnrolledInv, NEW c \in Customers, HandInv(c),
         NEW d \in Customers, Enroll(d) \/ StartJourney(d)
  PROVE  Passage(c)
<1>1. CASE Enroll(d)
  <2>1. /\ enrolled' = enrolled \cup {d} /\ d \notin enrolled
        /\ starting' = starting \cup {d}
        /\ UNCHANGED <<jobs, cron, event, sends>>
        /\ row'[c] = IF c = d THEN Created ELSE row[c]
    BY <1>1 DEF Enroll, TypeOK
  <2>2. Hands(c)' \subseteq Hands(c)
    BY <2>1, HandsKept, Unmoved
  <2>3. CASE c = d
    <3>1. Hands(c)' = {}
      BY <2>1, <2>2, <2>3, HandsEnrolled
    <3> QED BY <2>1, <2>3, <3>1 DEF Passage, Enters
  <2>4. CASE c # d
    BY <2>1, <2>2, <2>4 DEF Passage, Stands, StaysIn, Still
  <2> QED BY <2>3, <2>4
<1>2. CASE StartJourney(d)
  <2> DEFINE job == StepJob(d, StartStep, TimeBranch, row[d])
  <2>1. /\ d \in starting /\ starting' = starting \ {d}
        /\ Publish(job)
        /\ UNCHANGED <<enrolled, row, cron, event, sends>>
    BY <1>2 DEF StartJourney
  <2>2. job \in Job
    <3>1. row[d] \in Location /\ StartStep \in Steps /\ TimeBranch \in Int
      BY GraphAssumption DEF TypeOK, TimeBranch
    <3> QED BY <3>1, StepJobType
  <2>3. job.customer = d /\ job.step = StartStep /\ job.location = row[d]
    BY DEF StepJob
  <2>4. StaysIn(c) /\ Still(c)
    BY <2>1 DEF StaysIn, Still
  <2>5. CASE c = d
    <3>1. NobodyMoves(c)
      BY <2>1, <2>5, NoHands DEF HandInv, NotBegun
    <3>2. PICK s \in JobIds : /\ jobs'[s] = job
                              /\ \A j \in JobIds \ {s} : jobs'[j] = jobs[j]
      BY <2>1, <2>2, PublishedJob
    <3>3. \A j \in JobIds : JobMoves(j, c)' => j = s
      BY <3>1, <3>2 DEF NobodyMoves, JobMoves
    <3>4. /\ \A e \in Events : ~EventMoves(e, c)'
          /\ \A k \in Crons : \A x \in cron'[k].claims : ~ClaimMoves(k, x, c)'
      BY <2>1, <3>1 DEF NobodyMoves, EventMoves, ClaimMoves
    <3>5. Hands(c)' \subseteq {JobHand(s)'}
      BY <3>3, <3>4, HandedToJob
    <3>6. /\ JobHand(s)'.kind = "job"
          /\ JobHand(s)'.step = StartStep
          /\ JobHand(s)'.location = row[c]
      BY <2>3, <2>5, <3>2 DEF JobHand
    <3>7. Starts(c)
      BY <2>1, <2>4, <2>5, <3>5, <3>6 DEF Starts
    <3> QED BY <3>7 DEF Passage
  <2>6. CASE c # d
    <3>1. Hands(c)' \subseteq Hands(c)
      BY <2>1, <2>2, <2>3, <2>6, PublishedForAnother, HandsKept, Unmoved
    <3> QED BY <2>4, <3>1 DEF Passage, Stands
  <2> QED BY <2>5, <2>6
<1> QED BY <1>1, <1>2

-----------------------------------------------------------------------------
(* Processors.                                                             *)

\* The object a processor goes on with: marked exactly if it sent a message.
Sends(i, location) ==
  \/ location = jobs[i].location /\ UNCHANGED sends
  \/ /\ location = Marked(jobs[i].location)
     /\ jobs[i].step \in MessageSteps
     /\ sends' = Sent(jobs[i].customer)

\* It hands the customer on with that object,
Forwards(i, location) ==
  /\ \E job \in Job : /\ HandledAndPublish(i, job)
                      /\ job.customer = jobs[i].customer
                      /\ job.location = location
                      /\ job.step \notin TimeBased
                      /\ Leads(jobs[i].step, job.step)
  /\ DelayOver(jobs[i].step, location)
  /\ UNCHANGED row

\* or unlocks the row from it, in the job's step or in a following one.
Unlocks(i, location) ==
  /\ Handled(i)
  /\ \E s \in Steps \cap RestingPlaces :
       /\ row' = [row EXCEPT ![jobs[i].customer] = Unlock(location, s)]
       /\ s = jobs[i].step \/ Leads(jobs[i].step, s)
       /\ s = jobs[i].step \/ DelayOver(jobs[i].step, location)

LEMMA ProceedDetail ==
  ASSUME TypeOK, NEW i \in JobIds, jobs[i].phase = "ready",
         NEW location \in Location, NEW d \in Target, Leads(jobs[i].step, d),
         ProceedWith(i, location, d), DelayOver(jobs[i].step, location)
  PROVE  Forwards(i, location) \/ Unlocks(i, location)
<1>1. jobs[i] \in Job /\ jobs[i].customer \in Customers /\ jobs[i].step \in Steps
  BY BusySlot DEF TypeOK, JobsType, Job
<1>2. CASE MovesOn(d)
  <2> DEFINE job == StepJob(jobs[i].customer, d, TimeBranch, location)
  <2>1. job \in Job
    <3>1. d \in Steps /\ TimeBranch \in Int
      BY <1>2 DEF MovesOn, TimeBranch
    <3> QED BY <1>1, <3>1, StepJobType
  <2>2. job.customer = jobs[i].customer /\ job.step = d /\ job.location = location
    BY DEF StepJob
  <2>3. d \notin TimeBased
    BY <1>2 DEF MovesOn
  <2> QED BY <1>2, <2>1, <2>2, <2>3 DEF ProceedWith, Forwards
<1>3. CASE ~MovesOn(d)
  <2> DEFINE s == RestsIn(jobs[i].step, d)
  <2>1. s \in Steps \cap RestingPlaces /\ (s = jobs[i].step \/ Leads(jobs[i].step, s))
    BY <1>1, <1>3, RestsInRestingPlace
  <2>2. /\ Handled(i)
        /\ row' = [row EXCEPT ![jobs[i].customer] = Unlock(location, s)]
    BY <1>3 DEF ProceedWith
  <2> QED BY <2>1, <2>2 DEF Unlocks
<1> QED BY <1>2, <1>3

LEMMA ProcessDetail ==
  ASSUME TypeOK, NEW i \in JobIds, Process(i)
  PROVE  /\ jobs[i].phase = "ready"
         /\ UNCHANGED <<enrolled, starting, cron, event>>
         /\ \/ /\ ~jobs[i].malformed
               /\ \E location \in Location :
                    /\ Sends(i, location)
                    /\ Forwards(i, location) \/ Unlocks(i, location)
            \/ GivesUp(i) /\ UNCHANGED sends
<1> DEFINE job == jobs[i]
<1>1. job.phase = "ready" /\ UNCHANGED <<enrolled, starting, cron, event>>
  BY ProcessEffect
<1>2. job.location \in Location /\ job.step \in Steps
  BY <1>1, BusySlot DEF TypeOK, JobsType, Job
<1>3. ASSUME NEW d \in Destination[job.step], NEW location \in Location,
             ProceedWith(i, location, d), DelayOver(job.step, location)
      PROVE  Forwards(i, location) \/ Unlocks(i, location)
  <2>1. d \in Target /\ Leads(job.step, d)
    BY <1>2, DestinationType DEF Leads
  <2> QED BY <1>1, <1>3, <2>1, ProceedDetail
<1>4. ASSUME ~job.malformed, UNCHANGED sends,
             Forwards(i, job.location) \/ Unlocks(i, job.location)
      PROVE  ~job.malformed /\ \E location \in Location :
               /\ Sends(i, location)
               /\ Forwards(i, location) \/ Unlocks(i, location)
  BY <1>2, <1>4 DEF Sends
<1>5. ASSUME Stay(i), job.step \in RestingPlaces
      PROVE  Unlocks(i, job.location)
  BY <1>2, <1>5 DEF Stay, Unlocks
<1>6. ASSUME NEW d \in Destination[job.step], Proceed(i, d),
             DelayOver(job.step, job.location)
      PROVE  Forwards(i, job.location) \/ Unlocks(i, job.location)
  BY <1>2, <1>3, <1>6 DEF Proceed
<1>7. CASE ProcessForward(i)
  <2>1. ~job.malformed /\ UNCHANGED sends /\ DelayOver(job.step, job.location)
    BY <1>7 DEF ProcessForward, Running, DelayOver
  <2> QED BY <1>1, <1>4, <1>6, <1>7, <2>1 DEF ProcessForward
<1>8. CASE ProcessExit(i)
  <2>1. job.step \in RestingPlaces
    BY <1>2, <1>8 DEF ProcessExit, Running, RestingPlaces
  <2> QED BY <1>1, <1>4, <1>5, <1>8, <2>1 DEF ProcessExit, Running
<1>9. CASE ProcessMessage(i)
  <2>1. ~job.malformed /\ job.step \in MessageSteps /\ job.step \in RestingPlaces
    BY <1>2, <1>9 DEF ProcessMessage, Running, MessageSteps, RestingPlaces
  <2>2. ASSUME NEW location PROVE DelayOver(job.step, location)
    BY <2>1 DEF DelayOver, MessageSteps
  <2>3. CASE SendMessage(i)
    <3>1. Marked(job.location) \in Location /\ Sends(i, Marked(job.location))
      BY <1>2, <2>1, <2>3, MarkedType DEF SendMessage, Sends
    <3> QED BY <1>1, <1>3, <2>1, <2>2, <2>3, <3>1 DEF SendMessage
  <2>4. CASE SkipMessage(i)
    BY <1>1, <1>4, <1>6, <2>1, <2>2, <2>4 DEF SkipMessage
  <2>5. CASE HoldMessage(i) \/ RequeueMessage(i)
    BY <1>1, <1>4, <1>5, <2>1, <2>5 DEF HoldMessage, RequeueMessage
  <2> QED BY <1>9, <2>3, <2>4, <2>5 DEF ProcessMessage
<1>10. CASE ProcessTimed(i)
  <2>1. ~job.malformed /\ UNCHANGED sends /\ job.step \in RestingPlaces
    BY <1>2, <1>10 DEF ProcessTimed, Running, RestingPlaces, TimeBased
  <2>2. TimeOver(job.step, job.location) => DelayOver(job.step, job.location)
    BY DEF TimeOver, DelayOver
  <2> QED BY <1>1, <1>4, <1>5, <1>6, <1>10, <2>1, <2>2 DEF ProcessTimed
<1>11. CASE ProcessWaitUntil(i)
  <2>1. ~job.malformed /\ UNCHANGED sends /\ DelayOver(job.step, job.location)
    BY <1>11 DEF ProcessWaitUntil, Running, DelayOver
  <2>2. job.step \in RestingPlaces
    BY <1>2, <1>11 DEF ProcessWaitUntil, Running, RestingPlaces, TimeBased
  <2>3. CASE Stay(i)
    BY <1>1, <1>4, <1>5, <2>1, <2>2, <2>3
  <2>4. CASE \E d \in Destination[job.step] : Proceed(i, d)
    BY <1>1, <1>4, <1>6, <2>1, <2>4
  <2>5. CASE ByEvent(job) /\ Proceed(i, EventDestination[job.step][job.branch])
    <3> DEFINE d == EventDestination[job.step][job.branch]
    <3>1. job.branch \in DOMAIN EventDestination[job.step]
      BY <1>11, <2>5 DEF ProcessWaitUntil, Running, BranchMissing, Branches
    <3>2. d \in Target /\ Leads(job.step, d)
      BY <1>2, <3>1, DestinationType DEF Leads
    <3> QED BY <1>1, <1>2, <1>4, <2>1, <2>5, <3>2, ProceedDetail DEF Proceed
  <2> QED BY <1>11, <2>3, <2>4, <2>5 DEF ProcessWaitUntil
<1>12. CASE FailBroken(i)
  BY <1>1, <1>12 DEF FailBroken, GivesUp
<1> QED BY <1>7, <1>8, <1>9, <1>10, <1>11, <1>12 DEF Process

LEMMA SentCounts ==
  ASSUME TypeOK, NEW c \in Customers, sends' = Sent(c)
  PROVE  /\ Messaged(c)'
         /\ sends'[c] <= sends[c] + 1
         /\ \A d \in Customers \ {c} : sends'[d] = sends[d]
<1>1. sends[c] \in 0..MaxSends /\ MaxSends \in Nat \ {0}
  BY TraversalAssumption DEF TypeOK
<1>2. sends'[c] = IF sends[c] < MaxSends THEN sends[c] + 1 ELSE sends[c]
  BY DEF Sent, TypeOK
<1>3. \A d \in Customers \ {c} : sends'[d] = sends[d]
  BY DEF Sent, TypeOK
<1> QED BY <1>1, <1>2, <1>3 DEF Messaged

\* A processor and the faults that strike it move nobody else.
LEMMA OthersStand ==
  ASSUME UNCHANGED <<enrolled, starting, cron, event>>, NEW c \in Customers,
         Still(c), NoNewJob(c)
  PROVE  Passage(c)
<1>1. Hands(c)' \subseteq Hands(c)
  BY HandsKept, Unmoved
<1> QED BY <1>1 DEF Passage, Stands, StaysIn

LEMMA ProcessPassage ==
  ASSUME TypeOK, EnrolledInv, NEW c \in Customers, HandInv(c),
         NEW i \in JobIds, Process(i)
  PROVE  Passage(c)
<1>1. jobs[i].phase = "ready" /\ UNCHANGED <<enrolled, starting, cron, event>>
  BY ProcessDetail
<1>2. PICK d \in Customers : d = jobs[i].customer
  BY <1>1, BusySlot DEF TypeOK, JobsType, Job
<1>3. CASE GivesUp(i) /\ UNCHANGED sends
  <2>1. NoNewJob(c) /\ Still(c)
    BY <1>3, JobOver DEF GivesUp, Still
  <2> QED BY <1>1, <2>1, OthersStand
<1>4. ASSUME ~jobs[i].malformed, NEW location \in Location, Sends(i, location),
             Forwards(i, location) \/ Unlocks(i, location)
      PROVE  Passage(c)
  <2> DEFINE h == JobHand(i)
  <2>1. JobMoves(i, d)
    BY <1>1, <1>2, <1>4 DEF JobMoves
  <2>2. sends'[c] = sends[c] \/ c = d
    BY <1>2, <1>4, SentCounts DEF Sends
  <2>3. /\ h.kind = "job" /\ h.step = jobs[i].step /\ h.location = jobs[i].location
    BY DEF JobHand
  <2>4. c = d => GoesOnWith(c, h, location)
    BY <1>2, <1>4, <2>3, SentCounts DEF Sends, GoesOnWith
  <2>5. StaysIn(c)
    BY <1>1 DEF StaysIn
  <2>6. ASSUME c = d
        PROVE  /\ h \in Hands(c)
               /\ \A j \in JobIds : JobMoves(j, c) => j = i
               /\ \A e \in Events : ~EventMoves(e, c)'
               /\ \A k \in Crons : \A x \in cron'[k].claims : ~ClaimMoves(k, x, c)'
    BY <1>1, <2>1, <2>6, SoleJob DEF EventMoves, ClaimMoves
  <2>7. CASE Forwards(i, location)
    <3>1. PICK job \in Job :
            /\ HandledAndPublish(i, job)
            /\ job.customer = d
            /\ job.location = location
            /\ job.step \notin TimeBased
            /\ Leads(jobs[i].step, job.step)
      BY <1>2, <2>7 DEF Forwards
    <3>2. PICK s \in JobIds : /\ s # i
                              /\ jobs'[i].phase = "handled"
                              /\ jobs'[s] = job
                              /\ \A j \in JobIds \ {i, s} : jobs'[j] = jobs[j]
      BY <1>1, <3>1, HandedOnJob
    <3>3. UNCHANGED row /\ DelayOver(jobs[i].step, location)
      BY <2>7 DEF Forwards
    <3>4. CASE c # d
      <4>1. NoNewJob(c)
        BY <3>1, <3>2, <3>4 DEF NoNewJob, JobMoves
      <4> QED BY <1>1, <2>2, <3>3, <3>4, <4>1, OthersStand DEF Still
    <3>5. CASE c = d
      <4>1. \A j \in JobIds : JobMoves(j, c)' => j = s
        BY <2>6, <3>2, <3>5 DEF JobMoves
      <4>2. Hands(c)' \subseteq {JobHand(s)'}
        BY <2>6, <3>5, <4>1, HandedToJob
      <4>3. /\ JobHand(s)'.kind = "job"
            /\ JobHand(s)'.step = job.step
            /\ JobHand(s)'.location = location
        BY <3>1, <3>2 DEF JobHand
      <4>4. job.step \in Steps \ TimeBased
        BY <3>1 DEF Job
      <4>5. Passes(c)
        BY <2>3, <2>4, <2>5, <2>6, <3>1, <3>3, <3>5, <4>2, <4>3, <4>4
           DEF Passes, PassesTo, LeadsOn
      <4> QED BY <4>5 DEF Passage
    <3> QED BY <3>4, <3>5
  <2>8. CASE Unlocks(i, location)
    <3>1. PICK s \in Steps \cap RestingPlaces :
            /\ row' = [row EXCEPT ![d] = Unlock(location, s)]
            /\ s = jobs[i].step \/ Leads(jobs[i].step, s)
            /\ s = jobs[i].step \/ DelayOver(jobs[i].step, location)
      BY <1>2, <2>8 DEF Unlocks
    <3>2. /\ jobs'[i].phase # "ready"
          /\ \A j \in JobIds \ {i} : jobs'[j] = jobs[j]
          /\ NoNewJob(c)
      BY <1>1, <2>8, JobOver DEF Unlocks
    <3>3. row'[c] = IF c = d THEN Unlock(location, s) ELSE row[c]
      BY <3>1 DEF TypeOK
    <3>4. CASE c # d
      BY <1>1, <2>2, <3>2, <3>3, <3>4, OthersStand DEF Still
    <3>5. CASE c = d
      <4>1. \A j \in JobIds : ~JobMoves(j, c)'
        BY <2>6, <3>2, <3>5 DEF JobMoves
      <4>2. Hands(c)' = {}
        BY <2>6, <3>5, <4>1, HandedToNobody
      <4>3. Lands(c)
        BY <2>3, <2>4, <2>5, <2>6, <3>1, <3>3, <3>5, <4>2 DEF Lands
      <4> QED BY <4>3 DEF Passage
    <3> QED BY <3>4, <3>5
  <2> QED BY <1>4, <2>7, <2>8
<1> QED BY <1>3, <1>4, ProcessDetail

\* A job that comes a second time disturbs its customer, and one that is
\* interrupted after its message too.
LEMMA JobFaultPassage ==
  ASSUME TypeOK, EnrolledInv, NEW c \in Customers, HandInv(c), ~RunAgain(c),
         NEW i \in JobIds,
         Ack(i) \/ FailSound(i) \/ Interrupt(i) \/ Redeliver(i) \/ Duplicate(i)
  PROVE  Passage(c)
<1>1. UNCHANGED <<enrolled, row, starting, cron, event>>
  BY DEF Ack, FailSound, Interrupt, Redeliver, Duplicate
<1>2. StaysIn(c)
  BY <1>1 DEF StaysIn
<1>3. CASE Ack(i)
  <2>1. NoNewJob(c) /\ Still(c)
    BY <1>3, JobOver DEF Ack, Still
  <2> QED BY <1>1, <2>1, OthersStand
<1>4. CASE FailSound(i)
  <2>1. /\ jobs[i].phase = "ready" /\ ~jobs[i].malformed
        /\ jobs' = [jobs EXCEPT ![i] = NoJob]
        /\ \/ UNCHANGED sends
           \/ Type[jobs[i].step] = "message" /\ sends' = Sent(jobs[i].customer)
    BY <1>4 DEF FailSound, Throws, PartialMessage
  <2>2. PICK d \in Customers : d = jobs[i].customer
    BY <2>1, BusySlot DEF TypeOK, JobsType, Job
  <2>3. NoNewJob(c)
    BY <2>1, JobOver
  <2>4. CASE sends'[c] = sends[c]
    BY <1>1, <2>3, <2>4, OthersStand DEF Still
  <2>5. CASE sends'[c] # sends[c]
    <3>1. c = d /\ Messaged(c)' /\ sends'[c] <= sends[c] + 1
      BY <2>1, <2>2, <2>5, SentCounts
    <3>2. JobMoves(i, c)
      BY <2>1, <2>2, <3>1 DEF JobMoves
    <3>3. jobs[i].step \in MessageSteps
      BY <2>1, <2>5, BusySlot DEF TypeOK, JobsType, Job, MessageSteps
    <3>4. /\ JobHand(i) \in Hands(c)
          /\ \A j \in JobIds : JobMoves(j, c) => j = i
          /\ \A e \in Events : ~EventMoves(e, c)'
          /\ \A k \in Crons : \A x \in cron'[k].claims : ~ClaimMoves(k, x, c)'
      BY <1>1, <3>2, SoleJob DEF EventMoves, ClaimMoves
    <3>5. \A j \in JobIds : ~JobMoves(j, c)'
      BY <2>1, <3>4, JobOver DEF JobMoves
    <3>6. Hands(c)' = {}
      BY <3>4, <3>5, HandedToNobody
    <3>7. JobHand(i).kind = "job" /\ JobHand(i).step = jobs[i].step
      BY DEF JobHand
    <3>8. Drops(c)
      BY <1>1, <1>2, <3>1, <3>3, <3>4, <3>6, <3>7 DEF Drops
    <3> QED BY <3>8 DEF Passage
  <2> QED BY <2>4, <2>5
<1>5. CASE Interrupt(i)
  <2>1. sends'[c] = sends[c]
    BY <1>5 DEF RunAgain
  <2>2. UNCHANGED jobs
    BY <1>5 DEF Interrupt
  <2> QED BY <1>1, <2>1, <2>2, OthersStand, Unmoved DEF Still
<1>6. CASE Redeliver(i)
  <2>1. jobs[i].phase = "handled" /\ jobs[i] \in Job
    BY <1>6, BusySlot DEF Redeliver, TypeOK, JobsType
  <2>2. jobs[i].customer # c \/ jobs[i].malformed
    BY <1>6 DEF RunAgain
  <2>3. /\ jobs'[i] = [jobs[i] EXCEPT !.phase = "ready"]
        /\ \A j \in JobIds \ {i} : jobs'[j] = jobs[j]
    BY <1>6 DEF Redeliver, TypeOK
  <2>4. jobs'[i].customer = jobs[i].customer /\ jobs'[i].malformed = jobs[i].malformed
    BY <2>1, <2>3 DEF Job
  <2>5. NoNewJob(c) /\ Still(c)
    BY <1>6, <2>2, <2>3, <2>4 DEF NoNewJob, JobMoves, Still, Redeliver
  <2> QED BY <1>1, <2>5, OthersStand
<1>7. CASE Duplicate(i)
  <2>1. jobs[i] \in Job /\ Publish(jobs[i])
    BY <1>7, BusySlot DEF Duplicate, TypeOK, JobsType
  <2>2. jobs[i].customer # c \/ jobs[i].malformed
    BY <1>7 DEF RunAgain
  <2>3. NoNewJob(c) /\ Still(c)
    BY <1>7, <2>1, <2>2, PublishedForAnother DEF Duplicate, Still
  <2> QED BY <1>1, <2>3, OthersStand
<1> QED BY <1>3, <1>4, <1>5, <1>6, <1>7

-----------------------------------------------------------------------------
(* The cron.                                                               *)

LEMMA HandedToClaim ==
  ASSUME NEW c \in Customers, NEW k, NEW x,
         \A j \in JobIds : ~JobMoves(j, c)',
         \A e \in Events : ~EventMoves(e, c)',
         \A m \in Crons : \A y \in cron'[m].claims :
           ClaimMoves(m, y, c)' => m = k /\ y = x
  PROVE  Hands(c)' \subseteq {ClaimHand(k, x)}
<1> SUFFICES ASSUME NEW h, Holds(c, h)'
             PROVE  h = ClaimHand(k, x)
  BY InHandsNext
<1>1. ASSUME NEW m \in Crons, NEW y \in cron'[m].claims, ClaimMoves(m, y, c)',
             h = ClaimHand(m, y)
      PROVE  h = ClaimHand(k, x)
  BY <1>1
<1>2. \E m \in Crons : \E y \in cron'[m].claims :
        ClaimMoves(m, y, c)' /\ h = ClaimHand(m, y)
  BY DEF Holds, ClaimHand
<1> QED BY <1>1, <1>2

LEMMA CronPassage ==
  ASSUME TypeOK, EnrolledInv, NEW c \in Customers, HandInv(c), ~LockedStale(c),
         NEW k \in Crons, Minute(k) \/ CronCrash(k)
  PROVE  Passage(c)
<1>1. cron[k] \in CronRun
  BY DEF TypeOK
<1>2. /\ UNCHANGED <<enrolled, starting, sends, event>>
      /\ StaysIn(c) /\ sends'[c] = sends[c]
      /\ NoNewEvent(c)
  <2>1. UNCHANGED <<enrolled, starting, sends, event>>
    BY DEF Minute, CronSelect, CronLock, CronPublish, CronDone, RequeueSelect,
           RequeuePublish, RequeueCommit, CronCrash
  <2> QED BY <2>1, Unmoved DEF StaysIn
<1>3. ASSUME cron'[k].phase # "locked", \A m \in Crons \ {k} : cron'[m] = cron[m]
      PROVE  NoNewClaim(c)
  BY <1>3 DEF NoNewClaim, ClaimMoves
<1>4. CASE CronSelect(k) \/ RequeueSelect(k) \/ CronDone(k) \/ CronCrash(k)
  <2>1. /\ UNCHANGED <<row, jobs>>
        /\ cron'[k].phase # "locked"
        /\ \A m \in Crons \ {k} : cron'[m] = cron[m]
    BY <1>1, <1>4 DEF CronSelect, RequeueSelect, CronDone, CronCrash, TypeOK, CronRun,
                      IdleCron
  <2>2. Hands(c)' \subseteq Hands(c)
    BY <1>2, <1>3, <2>1, HandsKept, Unmoved
  <2> QED BY <1>2, <2>1, <2>2 DEF Passage, Stands, Still
<1>5. CASE CronLock(k)
  <2>1. /\ UNCHANGED jobs
        /\ row'[c] = IF c \in Claimed(k) THEN Lock(row[c]) ELSE row[c]
        /\ cron'[k].claims \subseteq cron[k].claims
        /\ \A m \in Crons \ {k} : cron'[m] = cron[m]
    BY <1>1, <1>5 DEF CronLock, TypeOK, CronRun
  <2>2. CASE c \notin Claimed(k)
    <3>1. NoNewClaim(c)
      BY <2>1, <2>2 DEF NoNewClaim, ClaimMoves, Claimed
    <3>2. Hands(c)' \subseteq Hands(c)
      BY <1>2, <2>1, <3>1, HandsKept, Unmoved
    <3> QED BY <1>2, <2>1, <2>2, <3>2 DEF Passage, Stands, Still
  <2>3. CASE c \in Claimed(k)
    <3>1. PICK x \in cron[k].claims : x.customer = c
      BY <2>3 DEF Claimed
    <3>2. \A y \in cron[k].claims : y.customer = c => y.location = row[c]
      BY <1>5 DEF LockedStale
    <3>3. /\ c \in enrolled
          /\ row[c].step \in TimeBased
          /\ ~row[c].locked
      BY <3>1, <3>2 DEF EnrolledInv, ClaimsSound
    <3>4. NobodyMoves(c)
      BY <3>3, UnlockedIsFree, NoHands
    <3>5. \A y \in cron[k].claims : y.customer = c => y = x
      BY <1>1, <3>1, <3>2 DEF CronRun, Claim
    <3>6. \A m \in Crons : \A y \in cron'[m].claims :
            ClaimMoves(m, y, c)' => m = k /\ y = x
      BY <2>1, <3>4, <3>5 DEF NobodyMoves, ClaimMoves
    <3>7. /\ \A j \in JobIds : ~JobMoves(j, c)'
          /\ \A e \in Events : ~EventMoves(e, c)'
      BY <1>2, <2>1, <3>4 DEF NobodyMoves, JobMoves, EventMoves
    <3>8. Hands(c)' \subseteq {ClaimHand(k, x)}
      BY <3>6, <3>7, HandedToClaim
    <3>9. ClaimHand(k, x).location = row[c] /\ ClaimHand(k, x).step = row[c].step
      BY <3>1, <3>2 DEF ClaimHand
    <3>10. GetsLocked(c)
      BY <1>2, <2>1, <2>3, <3>3, <3>8, <3>9 DEF GetsLocked
    <3> QED BY <3>10 DEF Passage
  <2> QED BY <2>2, <2>3
<1>6. CASE CronPublish(k)
  <2>1. PICK x \in cron[k].claims :
          /\ Publish(StepJob(x.customer, x.location.step, TimeBranch, x.location))
          /\ cron' = [cron EXCEPT ![k].claims = @ \ {x}]
    BY <1>6 DEF CronPublish
  <2> DEFINE job == StepJob(x.customer, x.location.step, TimeBranch, x.location)
  <2>2. x \in Claim /\ UNCHANGED row /\ cron[k].phase = "locked"
    BY <1>1, <1>6, <2>1 DEF CronRun, CronPublish
  <2>3. job \in Job
    <3>1. /\ x.customer \in Customers /\ x.location.step \in Steps
          /\ x.location \in Location /\ TimeBranch \in Int
      BY <2>2 DEF Claim, Location, TimeBranch
    <3> QED BY <3>1, StepJobType
  <2>4. /\ job.customer = x.customer
        /\ job.step = x.location.step
        /\ job.location = x.location
    BY DEF StepJob
  <2>5. /\ cron'[k].claims = cron[k].claims \ {x}
        /\ cron'[k].phase = "locked"
        /\ \A m \in Crons \ {k} : cron'[m] = cron[m]
    BY <1>1, <2>1, <2>2 DEF TypeOK, CronRun
  <2>6. CASE x.customer # c
    <3>1. NoNewClaim(c)
      BY <2>2, <2>5 DEF NoNewClaim, ClaimMoves
    <3>2. NoNewJob(c)
      BY <2>1, <2>3, <2>4, <2>6, PublishedForAnother
    <3>3. Hands(c)' \subseteq Hands(c)
      BY <1>2, <3>1, <3>2, HandsKept
    <3> QED BY <1>2, <2>2, <3>3 DEF Passage, Stands, Still
  <2>7. CASE x.customer = c
    <3>1. PICK s \in JobIds : /\ jobs'[s] = job
                              /\ \A j \in JobIds \ {s} : jobs'[j] = jobs[j]
      BY <2>1, <2>3, PublishedJob
    <3>2. ClaimMoves(k, x, c)
      BY <2>1, <2>2, <2>7 DEF ClaimMoves
    <3>3. /\ ClaimHand(k, x) \in Hands(c)
          /\ \A j \in JobIds : ~JobMoves(j, c)
          /\ \A f \in Events : ~EventMoves(f, c)
          /\ \A m \in Crons : \A y \in cron[m].claims :
               ClaimMoves(m, y, c) => m = k /\ y = x
      BY <2>1, <3>2, SoleClaim
    <3>4. \A j \in JobIds : JobMoves(j, c)' => j = s
      BY <3>1, <3>3 DEF JobMoves
    <3>5. \A f \in Events : ~EventMoves(f, c)'
      BY <1>2, <3>3 DEF EventMoves
    <3>6. \A m \in Crons : \A y \in cron'[m].claims : ~ClaimMoves(m, y, c)'
      BY <2>2, <2>5, <3>3 DEF ClaimMoves
    <3>7. Hands(c)' \subseteq {JobHand(s)'}
      BY <3>4, <3>5, <3>6, HandedToJob
    <3>8. /\ JobHand(s)'.kind = "job"
          /\ JobHand(s)'.step = ClaimHand(k, x).step
          /\ JobHand(s)'.location = ClaimHand(k, x).location
          /\ ClaimHand(k, x).kind # "event"
      BY <2>4, <3>1 DEF JobHand, ClaimHand
    <3>9. Passes(c)
      BY <1>2, <2>2, <3>3, <3>7, <3>8 DEF Passes, PassesTo, TakesOver
    <3> QED BY <3>9 DEF Passage
  <2> QED BY <2>6, <2>7
<1>7. CASE RequeuePublish(k)
  <2>1. PICK r \in cron[k].due :
          /\ Publish([StepJob(r.customer, r.step, TimeBranch, Blank)
                        EXCEPT !.malformed = TRUE])
          /\ cron' = [cron EXCEPT ![k].due = @ \ {r}, ![k].taken = @ \cup {r}]
    BY <1>7 DEF RequeuePublish
  <2> DEFINE sound == StepJob(r.customer, r.step, TimeBranch, Blank)
             job == [sound EXCEPT !.malformed = TRUE]
  <2>2. sound \in Job
    BY <1>1, <2>1, StepJobType, CreatedType DEF CronRun, RequeueRow, TimeBranch
  <2>3. job \in Job /\ job.malformed
    BY <2>2 DEF Job
  <2>4. /\ UNCHANGED row /\ cron'[k].phase # "locked"
        /\ \A m \in Crons \ {k} : cron'[m] = cron[m]
    BY <1>1, <1>7, <2>1 DEF RequeuePublish, TypeOK, CronRun
  <2>5. Hands(c)' \subseteq Hands(c)
    BY <1>2, <1>3, <2>1, <2>3, <2>4, PublishedForAnother, HandsKept
  <2> QED BY <1>2, <2>4, <2>5 DEF Passage, Stands, Still
<1>8. CASE RequeueCommit(k)
  <2>1. /\ UNCHANGED jobs
        /\ row'[c] = IF c \in Requeueing(k) THEN Lock(row[c]) ELSE row[c]
        /\ cron'[k].phase # "locked"
        /\ \A m \in Crons \ {k} : cron'[m] = cron[m]
    BY <1>8 DEF RequeueCommit, TypeOK, IdleCron
  <2>2. Hands(c)' \subseteq Hands(c)
    BY <1>2, <1>3, <2>1, HandsKept, Unmoved
  <2>3. c \in Requeueing(k) => c \in enrolled
    BY DEF EnrolledInv
  <2> QED BY <1>2, <2>1, <2>2, <2>3 DEF Passage, Stands, GetsLocked, Still
<1> QED BY <1>4, <1>5, <1>6, <1>7, <1>8 DEF Minute

-----------------------------------------------------------------------------
(* Events.                                                                 *)

LEMMA HandedToEvent ==
  ASSUME NEW c \in Customers, NEW e \in Events,
         \A j \in JobIds : ~JobMoves(j, c)',
         \A f \in Events : EventMoves(f, c)' => f = e,
         \A k \in Crons : \A x \in cron'[k].claims : ~ClaimMoves(k, x, c)'
  PROVE  Hands(c)' \subseteq {EventHand(e)'}
<1> SUFFICES ASSUME NEW h, Holds(c, h)'
             PROVE  h = EventHand(e)'
  BY InHandsNext
<1> QED BY DEF Holds

LEMMA EventPassage ==
  ASSUME TypeOK, EnrolledInv, NEW c \in Customers, HandInv(c), ~LockedStale(c),
         NEW e \in Events, HandleEvent(e) \/ EventRedeliver(e)
  PROVE  Passage(c)
<1> DEFINE d == EventCustomer[e]
<1>1. event[e] \in EventRun /\ d \in Customers /\ event[e].location \in Location
  BY TraversalAssumption DEF TypeOK, EventRun
<1>2. /\ UNCHANGED <<enrolled, starting, cron, sends>>
      /\ StaysIn(c) /\ sends'[c] = sends[c]
      /\ NoNewClaim(c)
  <2>1. UNCHANGED <<enrolled, starting, cron, sends>>
    BY DEF HandleEvent, EventRead, EventLock, EventRetry, EventMatch, EventMiss,
           EventAck, EventRedeliver, EventUnchanged
  <2> QED BY <2>1, Unmoved DEF StaysIn
<1>3. \A f \in Events \ {e} : event'[f] = event[f]
  BY DEF HandleEvent, EventRead, EventLock, EventRetry, EventMatch, EventMiss,
         EventAck, EventRedeliver, TypeOK
<1>4. ASSUME event'[e].phase # "locked" \/ c # d
      PROVE  NoNewEvent(c)
  BY <1>3, <1>4 DEF NoNewEvent, EventMoves
<1>5. CASE EventRead(e) \/ EventRetry(e) \/ EventAck(e) \/ EventRedeliver(e)
  <2>1. UNCHANGED <<row, jobs>> /\ event'[e].phase # "locked"
    BY <1>1, <1>5 DEF EventRead, EventRetry, EventAck, EventRedeliver, TypeOK, EventRun
  <2>2. Hands(c)' \subseteq Hands(c)
    BY <1>2, <1>4, <2>1, HandsKept, Unmoved
  <2> QED BY <1>2, <2>1, <2>2 DEF Passage, Stands, Still
<1>6. CASE EventLock(e)
  <2>1. /\ UNCHANGED jobs
        /\ row'[c] = IF c = d THEN Lock(row[c]) ELSE row[c]
        /\ event[e].phase = "read"
        /\ event'[e].location = event[e].location
    BY <1>1, <1>6 DEF EventLock, TypeOK, EventRun
  <2>2. CASE c # d
    <3>1. Hands(c)' \subseteq Hands(c)
      BY <1>2, <1>4, <2>1, <2>2, HandsKept, Unmoved
    <3> QED BY <1>2, <2>1, <2>2, <3>1 DEF Passage, Stands, Still
  <2>3. CASE c = d
    <3>1. event[e].location = row[c] /\ ~row[c].locked
      BY <1>6, <2>3 DEF LockedStale
    <3>2. NobodyMoves(c) /\ c \in enrolled
      BY <2>1, <2>3, <3>1, UnlockedIsFree, NoHands DEF EnrolledInv
    <3>3. /\ \A j \in JobIds : ~JobMoves(j, c)'
          /\ \A f \in Events : EventMoves(f, c)' => f = e
          /\ \A k \in Crons : \A x \in cron'[k].claims : ~ClaimMoves(k, x, c)'
      BY <1>2, <1>3, <2>1, <3>2 DEF NobodyMoves, JobMoves, EventMoves, ClaimMoves
    <3>4. Hands(c)' \subseteq {EventHand(e)'}
      BY <3>3, HandedToEvent
    <3>5. /\ EventHand(e)'.kind = "event"
          /\ EventHand(e)'.location = row[c]
          /\ EventHand(e)'.step = row[c].step
      BY <2>1, <3>1 DEF EventHand
    <3>6. GetsLocked(c)
      BY <1>2, <2>1, <2>3, <3>1, <3>2, <3>4, <3>5 DEF GetsLocked
    <3> QED BY <3>6 DEF Passage
  <2> QED BY <2>2, <2>3
<1>7. ASSUME c = d, event[e].phase = "locked"
      PROVE  /\ EventHand(e) \in Hands(c)
             /\ EventHand(e).kind = "event"
             /\ EventHand(e).step = event[e].location.step
             /\ EventHand(e).location = event[e].location
             /\ \A f \in Events : EventMoves(f, c) => f = e
             /\ \A j \in JobIds : ~JobMoves(j, c)
             /\ \A k \in Crons : \A x \in cron'[k].claims : ~ClaimMoves(k, x, c)'
  <2>1. EventMoves(e, c)
    BY <1>7 DEF EventMoves
  <2>2. /\ EventHand(e) \in Hands(c)
        /\ \A f \in Events : EventMoves(f, c) => f = e
        /\ \A j \in JobIds : ~JobMoves(j, c)
        /\ \A k \in Crons : \A x \in cron[k].claims : ~ClaimMoves(k, x, c)
    BY <2>1, SoleEvent
  <2>3. \A k \in Crons : \A x \in cron'[k].claims : ~ClaimMoves(k, x, c)'
    BY <1>2, <2>2 DEF ClaimMoves
  <2> QED BY <2>2, <2>3 DEF EventHand
<1>8. CASE EventMatch(e)
  <2> DEFINE job == StepJob(d, event[e].location.step, LastBranch[e],
                            event[e].location)
  <2>1. /\ event[e].phase = "locked"
        /\ event[e].location.step \in Matches[e]
        /\ Publish(job)
        /\ event'[e].phase # "locked"
        /\ UNCHANGED row
    BY <1>1, <1>8 DEF EventMatch, TypeOK
  <2>2. job \in Job
    <3>1. LastBranch[e] \in Int /\ event[e].location.step \in Steps
      BY <1>1, TraversalAssumption DEF Location
    <3> QED BY <1>1, <3>1, StepJobType
  <2>3. /\ job.customer = d
        /\ job.step = event[e].location.step
        /\ job.location = event[e].location
    BY DEF StepJob
  <2>4. CASE c # d
    <3>1. Hands(c)' \subseteq Hands(c)
      BY <1>2, <1>4, <2>1, <2>2, <2>3, <2>4, PublishedForAnother, HandsKept
    <3> QED BY <1>2, <2>1, <3>1 DEF Passage, Stands, Still
  <2>5. CASE c = d
    <3>1. PICK s \in JobIds : /\ jobs'[s] = job
                              /\ \A j \in JobIds \ {s} : jobs'[j] = jobs[j]
      BY <2>1, <2>2, PublishedJob
    <3>2. \A j \in JobIds : JobMoves(j, c)' => j = s
      BY <1>7, <2>1, <2>5, <3>1 DEF JobMoves
    <3>3. \A f \in Events : ~EventMoves(f, c)'
      BY <1>3, <1>7, <2>1, <2>5 DEF EventMoves
    <3>4. Hands(c)' \subseteq {JobHand(s)'}
      BY <1>7, <2>1, <2>5, <3>2, <3>3, HandedToJob
    <3>5. /\ JobHand(s)'.kind = "job"
          /\ JobHand(s)'.step = event[e].location.step
          /\ JobHand(s)'.location = event[e].location
      BY <2>3, <3>1 DEF JobHand
    <3>6. event[e].location.step \in TimeBased
      BY <1>1, <2>1, TraversalAssumption DEF Location, TimeBased
    <3>7. Passes(c)
      BY <1>2, <1>7, <2>1, <2>5, <3>4, <3>5, <3>6 DEF Passes, PassesTo, TakesOver
    <3> QED BY <3>7 DEF Passage
  <2> QED BY <2>4, <2>5
<1>9. CASE EventMiss(e)
  <2> DEFINE location == event[e].location
  <2>1. /\ event[e].phase = "locked"
        /\ event'[e].phase # "locked"
        /\ UNCHANGED jobs
        /\ row'[c] = IF c = d THEN Unlock(location, location.step) ELSE row[c]
    BY <1>1, <1>9 DEF EventMiss, TypeOK
  <2>2. CASE c # d
    <3>1. Hands(c)' \subseteq Hands(c)
      BY <1>2, <1>4, <2>1, <2>2, HandsKept, Unmoved
    <3> QED BY <1>2, <2>1, <2>2, <3>1 DEF Passage, Stands, Still
  <2>3. CASE c = d
    <3>1. /\ \A j \in JobIds : ~JobMoves(j, c)'
          /\ \A f \in Events : ~EventMoves(f, c)'
      BY <1>3, <1>7, <2>1, <2>3 DEF JobMoves, EventMoves
    <3>2. Hands(c)' = {}
      BY <1>7, <2>1, <2>3, <3>1, HandedToNobody
    <3>3. location.step \in Steps \cap RestingPlaces
      BY <1>1, <1>7, <2>1, <2>3 DEF HandInv, InHand, Location
    <3>4. GoesOnWith(c, EventHand(e), location)
      BY <1>2, <1>7, <2>1, <2>3 DEF GoesOnWith
    <3>5. Lands(c)
      BY <1>1, <1>2, <1>7, <2>1, <2>3, <3>2, <3>3, <3>4 DEF Lands
    <3> QED BY <3>5 DEF Passage
  <2> QED BY <2>2, <2>3
<1> QED BY <1>5, <1>6, <1>8, <1>9 DEF HandleEvent

-----------------------------------------------------------------------------
(* Time.                                                                   *)

LEMMA TickPassage ==
  ASSUME TypeOK, EnrolledInv, NEW c \in Customers, HandInv(c), Tick
  PROVE  Passage(c)
<1>1. /\ UNCHANGED <<enrolled, starting, sends>>
      /\ row'[c] = IF c \in enrolled THEN Aged(row[c]) ELSE row[c]
  BY DEF Tick
<1>2. ASSUME NEW g \in Hands(c)'
      PROVE  \E h \in Hands(c) : g = [h EXCEPT !.location = Aged(h.location)]
  <2>1. ASSUME NEW i \in JobIds, JobMoves(i, c)', g = JobHand(i)'
        PROVE  Holds(c, JobHand(i))
               /\ g = [JobHand(i) EXCEPT !.location = Aged(JobHand(i).location)]
    <3>1. ~(jobs[i].phase = "free" \/ jobs[i].malformed)
      BY <2>1 DEF Tick, JobMoves
    <3>2. jobs[i] \in Job
      BY <3>1, BusySlot DEF TypeOK, JobsType
    <3>3. jobs'[i] = [jobs[i] EXCEPT !.location = Aged(jobs[i].location)]
      BY <3>1 DEF Tick
    <3>4. /\ jobs'[i].phase = jobs[i].phase
          /\ jobs'[i].customer = jobs[i].customer
          /\ jobs'[i].step = jobs[i].step
          /\ jobs'[i].location = Aged(jobs[i].location)
      BY <3>2, <3>3 DEF Job
    <3>5. JobMoves(i, c)
      BY <2>1, <3>1, <3>4 DEF JobMoves
    <3> QED BY <2>1, <3>4, <3>5 DEF Holds, JobHand
  <2>2. ASSUME NEW e \in Events, EventMoves(e, c)', g = EventHand(e)'
        PROVE  Holds(c, EventHand(e))
               /\ g = [EventHand(e) EXCEPT !.location = Aged(EventHand(e).location)]
    <3>1. event[e] \in EventRun /\ event[e].location \in Location
      BY DEF TypeOK, EventRun
    <3>2. /\ event'[e].phase = event[e].phase
          /\ event[e].phase = "locked" =>
               event'[e].location = Aged(event[e].location)
      BY <3>1 DEF Tick, EventRun
    <3>3. EventMoves(e, c) /\ event'[e].location = Aged(event[e].location)
      BY <2>2, <3>2 DEF EventMoves
    <3>4. event'[e].location.step = event[e].location.step
      BY <3>1, <3>3, AgedType
    <3> QED BY <2>2, <3>3, <3>4 DEF Holds, EventHand
  <2>3. ASSUME NEW k \in Crons, NEW x \in cron'[k].claims, ClaimMoves(k, x, c)',
               g = ClaimHand(k, x)
        PROVE  \E y : /\ Holds(c, ClaimHand(k, y))
                      /\ g = [ClaimHand(k, y) EXCEPT
                                !.location = Aged(ClaimHand(k, y).location)]
    <3> DEFINE aged == {[y EXCEPT !.location = Aged(y.location)] :
                          y \in cron[k].claims}
    <3>1. cron[k] \in CronRun
      BY DEF TypeOK
    <3>2. cron'[k] = [cron[k] EXCEPT !.claims = aged]
      BY DEF Tick
    <3>3. cron'[k].claims = aged /\ cron'[k].phase = cron[k].phase
      BY <3>1, <3>2 DEF CronRun
    <3>4. PICK y \in cron[k].claims : x = [y EXCEPT !.location = Aged(y.location)]
      BY <2>3, <3>3
    <3>5. y \in Claim
      BY <3>1 DEF CronRun
    <3>6. /\ x.customer = y.customer
          /\ x.location = Aged(y.location)
          /\ x.location.step = y.location.step
      BY <3>4, <3>5, AgedType DEF Claim
    <3>7. ClaimMoves(k, y, c)
      BY <2>3, <3>3, <3>6 DEF ClaimMoves
    <3>8. Holds(c, ClaimHand(k, y))
      BY <3>7 DEF Holds
    <3>9. g = [ClaimHand(k, y) EXCEPT
                 !.location = Aged(ClaimHand(k, y).location)]
      BY <2>3, <3>6 DEF ClaimHand
    <3> QED BY <3>8, <3>9
  <2>4. Holds(c, g)'
    BY InHandsNext
  <2>5. CASE \E i \in JobIds : JobMoves(i, c)' /\ g = JobHand(i)'
    BY <2>1, <2>5, InHands
  <2>6. CASE \E e \in Events : EventMoves(e, c)' /\ g = EventHand(e)'
    BY <2>2, <2>6, InHands
  <2>7. CASE \E k \in Crons : \E x \in cron'[k].claims :
               ClaimMoves(k, x, c)' /\ g = ClaimHand(k, x)
    BY <2>3, <2>7, InHands
  <2> QED BY <2>4, <2>5, <2>6, <2>7 DEF Holds, ClaimHand
<1>3. CASE c \in enrolled
  BY <1>1, <1>2, <1>3 DEF Passage, Ages, StaysIn
<1>4. CASE c \notin enrolled
  <2>1. Hands(c) = {}
    BY <1>4, HandsEnrolled
  <2>2. Hands(c)' \subseteq Hands(c)
    BY <1>2, <2>1
  <2> QED BY <1>1, <1>4, <2>2 DEF Passage, Stands, StaysIn, Still
<1> QED BY <1>3, <1>4

-----------------------------------------------------------------------------
(* All steps together.                                                     *)

LEMMA StepIsPassage ==
  ASSUME TypeOK, EnrolledInv, HandsInv, [HistoryNext]_historyVars,
         NEW c \in Customers \ disturbed'
  PROVE  Passage(c)
<1>1. CASE UNCHANGED historyVars
  <2>1. UNCHANGED <<enrolled, row, starting, jobs, cron, event, sends>>
    BY <1>1 DEF historyVars, vars
  <2>2. Hands(c)' \subseteq Hands(c)
    BY <2>1, HandsKept, Unmoved
  <2> QED BY <2>1, <2>2 DEF Passage, Stands, StaysIn, Still
<1>2. CASE HistoryNext
  <2>1. Next /\ c \notin disturbed /\ ~LockedStale(c) /\ ~RunAgain(c)
    BY <1>2 DEF HistoryNext
  <2>2. HandInv(c)
    BY <2>1 DEF HandsInv
  <2> QED BY <2>1, <2>2, EnrollmentPassage, ProcessPassage, JobFaultPassage,
             CronPassage, EventPassage, TickPassage DEF Next, Fault
<1> QED BY <1>1, <1>2

-----------------------------------------------------------------------------
(* What holds of the disturbed too.                                        *)

JobsEnrolled == \A i \in JobIds : jobs[i].phase # "free" => jobs[i].customer \in enrolled

StrangersClean == \A c \in Customers \ enrolled : ~row[c].messageSent /\ sends[c] = 0

LEMMA PublishedEnrolled ==
  ASSUME TypeOK, JobsEnrolled, NEW job \in Job, Publish(job),
         job.customer \in enrolled, UNCHANGED enrolled
  PROVE  JobsEnrolled'
<1>1. PICK s \in JobIds : /\ jobs'[s] = job
                          /\ \A j \in JobIds \ {s} : jobs'[j] = jobs[j]
  BY PublishedJob
<1> QED BY <1>1 DEF JobsEnrolled

LEMMA EnrollmentEnrolled ==
  ASSUME TypeOK, EnrolledInv, NEW c \in Customers, Enroll(c) \/ StartJourney(c)
  PROVE  EnrolledInv'
<1>1. CASE Enroll(c)
  <2>1. /\ enrolled' = enrolled \cup {c} /\ starting' = starting \cup {c}
        /\ UNCHANGED <<jobs, cron, event, requeued, sends>>
        /\ \A d \in Customers \ enrolled' : row'[d] = row[d]
    BY <1>1 DEF Enroll, TypeOK
  <2> QED BY <2>1 DEF EnrolledInv, ClaimsSound, Requeueing
<1>2. CASE StartJourney(c)
  <2> DEFINE job == StepJob(c, StartStep, TimeBranch, row[c])
  <2>1. /\ UNCHANGED <<enrolled, row, cron, event, requeued, sends>>
        /\ c \in starting /\ starting' \subseteq starting
        /\ Publish(job)
    BY <1>2 DEF StartJourney
  <2>2. job \in Job
    <3>1. row[c] \in Location /\ StartStep \in Steps /\ TimeBranch \in Int
      BY GraphAssumption DEF TypeOK, TimeBranch
    <3> QED BY <3>1, StepJobType
  <2>3. job.customer = c /\ c \in enrolled /\ JobsEnrolled
    BY <2>1 DEF StepJob, EnrolledInv, JobsEnrolled
  <2>4. JobsEnrolled'
    BY <2>1, <2>2, <2>3, PublishedEnrolled
  <2> QED BY <2>1, <2>4 DEF EnrolledInv, ClaimsSound, Requeueing, JobsEnrolled
<1> QED BY <1>1, <1>2

\* A message is put off by the job of its customer.
LEMMA RequeuedByJob ==
  ASSUME NEW i \in JobIds, Process(i) \/ FailSound(i) \/ Interrupt(i)
  PROVE  requeued' \subseteq requeued \cup {RequeueOf(jobs[i])}
<1>1. ASSUME ProcessMessage(i)
      PROVE  requeued' \subseteq requeued \cup {RequeueOf(jobs[i])}
  BY <1>1 DEF ProcessMessage, SendMessage, SkipMessage, HoldMessage, RequeueMessage,
              PutOff
<1>2. ASSUME PartialMessage(jobs[i])
      PROVE  requeued' \subseteq requeued \cup {RequeueOf(jobs[i])}
  BY <1>2 DEF PartialMessage, PutOff
<1> QED BY <1>1, <1>2 DEF Process, ProcessForward, ProcessExit, ProcessTimed,
                          ProcessWaitUntil, FailBroken, FailSound, Interrupt

LEMMA ProcessEnrolled ==
  ASSUME TypeOK, EnrolledInv, NEW i \in JobIds, Process(i)
  PROVE  EnrolledInv'
<1>1. /\ jobs[i].phase = "ready"
      /\ UNCHANGED <<enrolled, starting, cron, event>>
  BY ProcessDetail
<1>2. jobs[i].customer \in enrolled /\ jobs[i].customer \in Customers
  BY <1>1, BusySlot DEF EnrolledInv, TypeOK, JobsType, Job
<1>3. \A r \in requeued' : r.customer \in enrolled
  BY <1>2, RequeuedByJob DEF EnrolledInv, RequeueOf
<1>4. JobsEnrolled' /\ StrangersClean'
  <2>1. CASE GivesUp(i) /\ UNCHANGED sends
    <3>1. \A j \in JobIds : jobs'[j] = jobs[j] \/ jobs'[j] = NoJob
      BY <2>1 DEF GivesUp, TypeOK
    <3> QED BY <1>1, <2>1, <3>1
            DEF GivesUp, EnrolledInv, JobsEnrolled, StrangersClean, NoJob
  <2>2. ASSUME NEW location \in Location, Sends(i, location),
               Forwards(i, location) \/ Unlocks(i, location)
        PROVE  JobsEnrolled' /\ StrangersClean'
    <3>1. \A d \in Customers \ enrolled : sends'[d] = sends[d]
      BY <1>2, <2>2, SentCounts DEF Sends
    <3>2. CASE Forwards(i, location)
      <4>1. PICK job \in Job : /\ HandledAndPublish(i, job)
                               /\ job.customer = jobs[i].customer
        BY <3>2 DEF Forwards
      <4>2. PICK s \in JobIds : /\ jobs'[s] = job
                                /\ \A j \in JobIds \ {i, s} : jobs'[j] = jobs[j]
        BY <1>1, <4>1, HandedOnJob
      <4>3. jobs'[i].customer = jobs[i].customer
        BY <1>1, <4>1, <4>2, BusySlot DEF HandledAndPublish, TypeOK, JobsType, Job
      <4> QED BY <1>1, <1>2, <3>1, <3>2, <4>1, <4>2, <4>3
              DEF Forwards, EnrolledInv, JobsEnrolled, StrangersClean
    <3>3. CASE Unlocks(i, location)
      <4>1. \A j \in JobIds \ {i} : jobs'[j] = jobs[j]
        BY <1>1, <3>3, JobOver DEF Unlocks
      <4>2. jobs'[i].customer = jobs[i].customer
        BY <1>1, <3>3, BusySlot DEF Unlocks, Handled, TypeOK, JobsType, Job
      <4>3. \A d \in Customers \ enrolled : row'[d] = row[d]
        BY <1>2, <3>3 DEF Unlocks, TypeOK
      <4> QED BY <1>1, <1>2, <3>1, <4>1, <4>2, <4>3
              DEF EnrolledInv, JobsEnrolled, StrangersClean
    <3> QED BY <2>2, <3>2, <3>3
  <2> QED BY <2>1, <2>2, ProcessDetail
<1> QED BY <1>1, <1>3, <1>4
        DEF EnrolledInv, ClaimsSound, Requeueing, JobsEnrolled, StrangersClean

LEMMA JobFaultEnrolled ==
  ASSUME TypeOK, EnrolledInv, NEW i \in JobIds,
         Ack(i) \/ FailSound(i) \/ Interrupt(i) \/ Redeliver(i) \/ Duplicate(i)
  PROVE  EnrolledInv'
<1>1. /\ UNCHANGED <<enrolled, row, starting, cron, event>>
      /\ jobs[i].phase # "free"
  BY DEF Ack, FailSound, Interrupt, Redeliver, Duplicate
<1>2. jobs[i] \in Job /\ jobs[i].customer \in enrolled
  BY <1>1, BusySlot DEF EnrolledInv, TypeOK, JobsType
<1>3. \A r \in requeued' : r.customer \in enrolled
  <2>1. CASE FailSound(i) \/ Interrupt(i)
    BY <1>2, <2>1, RequeuedByJob DEF EnrolledInv, RequeueOf
  <2>2. CASE Ack(i) \/ Redeliver(i) \/ Duplicate(i)
    BY <2>2 DEF Ack, Redeliver, Duplicate, EnrolledInv
  <2> QED BY <2>1, <2>2
<1>4. StrangersClean'
  <2>1. UNCHANGED sends \/ sends' = Sent(jobs[i].customer)
    BY DEF Ack, FailSound, Interrupt, Redeliver, Duplicate, PartialMessage
  <2>2. jobs[i].customer \in Customers
    BY <1>2 DEF Job
  <2>3. \A d \in Customers \ enrolled : sends'[d] = sends[d]
    BY <1>2, <2>1, <2>2, SentCounts
  <2> QED BY <1>1, <2>3 DEF EnrolledInv, StrangersClean
<1>5. JobsEnrolled'
  <2>1. CASE Duplicate(i)
    BY <1>1, <1>2, <2>1, PublishedEnrolled DEF Duplicate, EnrolledInv, JobsEnrolled
  <2>2. CASE Ack(i) \/ FailSound(i) \/ Interrupt(i) \/ Redeliver(i)
    <3>1. \A j \in JobIds \ {i} : jobs'[j] = jobs[j]
      BY <2>2 DEF Ack, FailSound, Interrupt, Redeliver, TypeOK
    <3>2. jobs'[i] = NoJob \/ jobs'[i].customer = jobs[i].customer
      BY <1>2, <2>2 DEF Ack, FailSound, Interrupt, Redeliver, TypeOK, Job
    <3> QED BY <1>1, <1>2, <3>1, <3>2 DEF EnrolledInv, JobsEnrolled, NoJob
  <2> QED BY <2>1, <2>2
<1> QED BY <1>1, <1>3, <1>4, <1>5
        DEF EnrolledInv, ClaimsSound, Requeueing, JobsEnrolled, StrangersClean

\* A selected customer rests in a time based step, unlocked.
LEMMA CronEnrolled ==
  ASSUME TypeOK, EnrolledInv, NEW k \in Crons, Minute(k) \/ CronCrash(k)
  PROVE  EnrolledInv'
<1>1. cron[k] \in CronRun /\ enrolled \subseteq Customers
  BY DEF TypeOK
<1>2. /\ UNCHANGED <<enrolled, starting, sends, event>>
      /\ \A m \in Crons \ {k} : cron'[m] = cron[m]
  BY DEF Minute, CronSelect, CronLock, CronPublish, CronDone, RequeueSelect,
         RequeuePublish, RequeueCommit, CronCrash, TypeOK
<1>3. ClaimsSound(k) /\ Requeueing(k) \subseteq enrolled
  BY DEF EnrolledInv
<1>4. JobsEnrolled /\ StrangersClean
  BY DEF EnrolledInv, JobsEnrolled, StrangersClean
<1>5. \/ UNCHANGED row
      \/ \E S \in SUBSET enrolled :
           row' = [c \in Customers |-> IF c \in S THEN Lock(row[c]) ELSE row[c]]
  <2>1. CASE CronLock(k)
    <3>1. Claimed(k) \subseteq enrolled
      BY <1>3 DEF ClaimsSound, Claimed
    <3> QED BY <2>1, <3>1 DEF CronLock
  <2>2. CASE RequeueCommit(k)
    BY <1>3, <2>2 DEF RequeueCommit
  <2> QED BY <2>1, <2>2 DEF Minute, CronSelect, CronPublish, CronDone,
                            RequeueSelect, RequeuePublish, CronCrash
<1>6. StrangersClean'
  BY <1>2, <1>4, <1>5 DEF StrangersClean
<1>7. requeued' \subseteq requeued
  BY DEF Minute, CronSelect, CronLock, CronPublish, CronDone, RequeueSelect,
         RequeuePublish, RequeueCommit, CronCrash
<1>8. /\ JobsEnrolled'
      /\ ClaimsSound(k)'
      /\ Requeueing(k)' \subseteq enrolled
  <2>1. CASE CronSelect(k)
    <3>1. /\ cron[k].phase = "idle" /\ cron'[k].phase = "selected"
          /\ cron'[k].claims = {[customer |-> c, location |-> row[c]] :
                                  c \in {c \in enrolled : Selected(c)}}
          /\ cron'[k].due = cron[k].due /\ cron'[k].taken = cron[k].taken
          /\ UNCHANGED jobs
      BY <1>1, <2>1 DEF CronSelect, TypeOK, CronRun
    <3>2. \A c \in enrolled : Selected(c) => ~row[c].locked /\ row[c].step \in TimeBased
      BY DEF Selected, CronDue
    <3>3. ClaimsSound(k)'
      BY <1>2, <3>1, <3>2 DEF ClaimsSound
    <3> QED BY <1>2, <1>3, <1>4, <3>1, <3>3 DEF Requeueing, JobsEnrolled
  <2>2. CASE CronLock(k)
    <3>1. /\ cron'[k].phase = "locked"
          /\ cron'[k].claims \subseteq cron[k].claims
          /\ cron'[k].due = cron[k].due /\ cron'[k].taken = cron[k].taken
          /\ UNCHANGED jobs
      BY <1>1, <2>2 DEF CronLock, TypeOK, CronRun
    <3> QED BY <1>2, <1>3, <1>4, <3>1 DEF ClaimsSound, Requeueing, JobsEnrolled
  <2>3. CASE CronPublish(k)
    <3>1. PICK x \in cron[k].claims :
            /\ Publish(StepJob(x.customer, x.location.step, TimeBranch, x.location))
            /\ cron' = [cron EXCEPT ![k].claims = @ \ {x}]
      BY <2>3 DEF CronPublish
    <3> DEFINE job == StepJob(x.customer, x.location.step, TimeBranch, x.location)
    <3>2. /\ cron'[k].phase = cron[k].phase
          /\ cron'[k].claims \subseteq cron[k].claims
          /\ cron'[k].due = cron[k].due /\ cron'[k].taken = cron[k].taken
      BY <1>1, <3>1 DEF TypeOK, CronRun
    <3>3. x \in Claim
      BY <1>1 DEF CronRun
    <3>4. job \in Job
      <4>1. /\ x.customer \in Customers /\ x.location.step \in Steps
            /\ x.location \in Location /\ TimeBranch \in Int
        BY <3>3 DEF Claim, Location, TimeBranch
      <4> QED BY <4>1, StepJobType
    <3>5. job.customer \in enrolled
      BY <1>3 DEF StepJob, ClaimsSound
    <3>6. JobsEnrolled'
      BY <1>2, <1>4, <3>1, <3>4, <3>5, PublishedEnrolled
    <3> QED BY <1>2, <1>3, <3>2, <3>6 DEF ClaimsSound, Requeueing
  <2>4. CASE RequeueSelect(k)
    <3>1. PICK due \in SUBSET requeued :
            cron' = [cron EXCEPT ![k].phase = "requeueing", ![k].due = due]
      BY <2>4 DEF RequeueSelect
    <3>2. /\ cron[k].phase = "idle"
          /\ cron'[k].claims = cron[k].claims
          /\ cron'[k].due = due /\ cron'[k].taken = cron[k].taken
          /\ UNCHANGED jobs
      BY <1>1, <2>4, <3>1 DEF RequeueSelect, TypeOK, CronRun
    <3>3. \A r \in due : r.customer \in enrolled
      BY DEF EnrolledInv
    <3> QED BY <1>2, <1>3, <1>4, <3>2, <3>3 DEF ClaimsSound, Requeueing, JobsEnrolled
  <2>5. CASE RequeuePublish(k)
    <3>1. PICK r \in cron[k].due :
            /\ Publish([StepJob(r.customer, r.step, TimeBranch, Blank)
                          EXCEPT !.malformed = TRUE])
            /\ cron' = [cron EXCEPT ![k].due = @ \ {r}, ![k].taken = @ \cup {r}]
      BY <2>5 DEF RequeuePublish
    <3> DEFINE sound == StepJob(r.customer, r.step, TimeBranch, Blank)
               job == [sound EXCEPT !.malformed = TRUE]
    <3>2. sound \in Job
      BY <1>1, StepJobType, CreatedType DEF CronRun, RequeueRow, TimeBranch
    <3>3. job \in Job /\ job.customer = sound.customer
      BY <3>2 DEF Job
    <3>4. job.customer \in enrolled
      BY <1>3, <3>3 DEF StepJob, Requeueing
    <3>5. JobsEnrolled'
      BY <1>2, <1>4, <3>1, <3>3, <3>4, PublishedEnrolled
    <3>6. /\ cron'[k].phase = cron[k].phase
          /\ cron'[k].claims = cron[k].claims
          /\ cron'[k].due = cron[k].due \ {r}
          /\ cron'[k].taken = cron[k].taken \cup {r}
      BY <1>1, <3>1 DEF TypeOK, CronRun
    <3>7. Requeueing(k)' \subseteq Requeueing(k)
      BY <3>6 DEF Requeueing
    <3> QED BY <1>2, <1>3, <3>5, <3>6, <3>7 DEF ClaimsSound
  <2>6. CASE CronDone(k) \/ RequeueCommit(k) \/ CronCrash(k)
    <3>1. cron'[k] = IdleCron /\ UNCHANGED jobs
      BY <2>6 DEF CronDone, RequeueCommit, CronCrash, TypeOK
    <3> QED BY <1>2, <1>4, <3>1 DEF IdleCron, ClaimsSound, Requeueing, JobsEnrolled
  <2> QED BY <2>1, <2>2, <2>3, <2>4, <2>5, <2>6 DEF Minute
<1>9. \A m \in Crons \ {k} : ClaimsSound(m)' /\ Requeueing(m)' \subseteq enrolled
  BY <1>2 DEF EnrolledInv, ClaimsSound, Requeueing
<1> QED BY <1>2, <1>6, <1>7, <1>8, <1>9
        DEF EnrolledInv, JobsEnrolled, StrangersClean

LEMMA EventEnrolled ==
  ASSUME TypeOK, EnrolledInv, NEW e \in Events, HandleEvent(e) \/ EventRedeliver(e)
  PROVE  EnrolledInv'
<1> DEFINE c == EventCustomer[e]
<1>1. event[e] \in EventRun /\ c \in Customers /\ event[e].location \in Location
  BY TraversalAssumption DEF TypeOK, EventRun
<1>2. /\ UNCHANGED <<enrolled, starting, cron, requeued, sends>>
      /\ \A f \in Events \ {e} : event'[f] = event[f]
  BY DEF HandleEvent, EventRead, EventLock, EventRetry, EventMatch, EventMiss,
         EventAck, EventRedeliver, EventUnchanged, TypeOK
<1>3. JobsEnrolled /\ StrangersClean
  BY DEF EnrolledInv, JobsEnrolled, StrangersClean
<1>4. event'[e].phase \in {"read", "locked"} => c \in enrolled
  <2>1. CASE EventRead(e)
    BY <2>1 DEF EventRead, TypeOK, EventRun
  <2>2. CASE EventLock(e)
    BY <2>2 DEF EventLock, EnrolledInv
  <2>3. CASE EventRetry(e) \/ EventMatch(e) \/ EventMiss(e) \/ EventAck(e)
             \/ EventRedeliver(e)
    BY <1>1, <2>3 DEF EventRetry, EventMatch, EventMiss, EventAck, EventRedeliver,
                      TypeOK, EventRun
  <2> QED BY <2>1, <2>2, <2>3 DEF HandleEvent
<1>5. \A d \in Customers \ enrolled : row'[d] = row[d]
  <2>1. event[e].phase \in {"read", "locked"} => c \in enrolled
    BY DEF EnrolledInv
  <2> QED BY <2>1 DEF HandleEvent, EventRead, EventLock, EventRetry, EventMatch,
                      EventMiss, EventAck, EventRedeliver, TypeOK
<1>6. JobsEnrolled'
  <2>1. CASE EventMatch(e)
    <3> DEFINE job == StepJob(c, event[e].location.step, LastBranch[e],
                              event[e].location)
    <3>1. Publish(job) /\ event[e].phase = "locked"
      BY <2>1 DEF EventMatch
    <3>2. job \in Job
      <4>1. LastBranch[e] \in Int /\ event[e].location.step \in Steps
        BY <1>1, TraversalAssumption DEF Location
      <4> QED BY <1>1, <4>1, StepJobType
    <3>3. job.customer \in enrolled
      BY <3>1 DEF StepJob, EnrolledInv
    <3> QED BY <1>2, <1>3, <3>1, <3>2, <3>3, PublishedEnrolled
  <2>2. CASE UNCHANGED jobs
    BY <1>2, <1>3, <2>2 DEF JobsEnrolled
  <2> QED BY <2>1, <2>2 DEF HandleEvent, EventRead, EventLock, EventRetry,
                            EventMiss, EventAck, EventRedeliver
<1> QED BY <1>2, <1>3, <1>4, <1>5, <1>6
        DEF EnrolledInv, ClaimsSound, Requeueing, JobsEnrolled, StrangersClean

LEMMA TickEnrolled ==
  ASSUME TypeOK, EnrolledInv, Tick
  PROVE  EnrolledInv'
<1>1. /\ UNCHANGED <<enrolled, starting, requeued, sends>>
      /\ \A c \in Customers \ enrolled : row'[c] = row[c]
  BY DEF Tick
<1>2. JobsEnrolled'
  <2>1. ASSUME NEW i \in JobIds, jobs'[i].phase # "free"
        PROVE  jobs'[i].customer = jobs[i].customer /\ jobs[i].phase # "free"
    <3>1. CASE jobs'[i] = jobs[i]
      BY <2>1, <3>1
    <3>2. CASE jobs'[i] # jobs[i]
      <4>1. /\ jobs[i].phase # "free"
            /\ jobs'[i] = [jobs[i] EXCEPT !.location = Aged(jobs[i].location)]
        BY <3>2 DEF Tick
      <4> QED BY <4>1, BusySlot DEF TypeOK, JobsType, Job
    <3> QED BY <3>1, <3>2
  <2> QED BY <1>1, <2>1 DEF EnrolledInv, JobsEnrolled
<1>3. ASSUME NEW k \in Crons
      PROVE  ClaimsSound(k)' /\ Requeueing(k)' \subseteq enrolled
  <2> DEFINE aged == {[y EXCEPT !.location = Aged(y.location)] : y \in cron[k].claims}
  <2>1. cron[k] \in CronRun
    BY DEF TypeOK
  <2>2. cron'[k] = [cron[k] EXCEPT !.claims = aged]
    BY DEF Tick
  <2>3. /\ cron'[k].claims = aged
        /\ cron'[k].phase = cron[k].phase
        /\ cron'[k].due = cron[k].due /\ cron'[k].taken = cron[k].taken
    BY <2>1, <2>2 DEF CronRun
  <2>4. ASSUME NEW x \in cron'[k].claims
        PROVE  \E y \in cron[k].claims : /\ x.customer = y.customer
                                         /\ x.location.step = y.location.step
                                         /\ x.location.locked = y.location.locked
    <3>1. PICK y \in cron[k].claims : x = [y EXCEPT !.location = Aged(y.location)]
      BY <2>3
    <3>2. y \in Claim
      BY <2>1 DEF CronRun
    <3>3. x.customer = y.customer /\ x.location = Aged(y.location)
      BY <3>1, <3>2 DEF Claim
    <3> QED BY <3>2, <3>3, AgedType DEF Claim
  <2>5. ClaimsSound(k) /\ Requeueing(k) \subseteq enrolled
    BY DEF EnrolledInv
  <2>6. cron'[k].claims # {} => cron[k].claims # {}
    BY <2>4
  <2>7. ClaimsSound(k)'
    BY <1>1, <2>3, <2>4, <2>5, <2>6 DEF ClaimsSound
  <2> QED BY <2>3, <2>5, <2>7 DEF Requeueing
<1>4. \A e \in Events :
        event'[e].phase \in {"read", "locked"} => EventCustomer[e] \in enrolled
  <2>1. \A e \in Events : event'[e].phase = event[e].phase
    BY DEF Tick, TypeOK, EventRun
  <2> QED BY <2>1 DEF EnrolledInv
<1> QED BY <1>1, <1>2, <1>3, <1>4 DEF EnrolledInv, JobsEnrolled

LEMMA EnrolledInvKept ==
  ASSUME TypeOK, EnrolledInv, [Next]_vars
  PROVE  EnrolledInv'
<1>1. CASE UNCHANGED vars
  BY <1>1 DEF vars, EnrolledInv, ClaimsSound, Requeueing
<1>2. CASE Next
  BY <1>2, EnrollmentEnrolled, ProcessEnrolled, JobFaultEnrolled, CronEnrolled,
     EventEnrolled, TickEnrolled DEF Next, Fault
<1> QED BY <1>1, <1>2

-----------------------------------------------------------------------------
(* Moves.                                                                  *)

LEMMA WalkRestingPlaces ==
  Walk!RestingPlaces = RestingPlaces /\ Walk!TimeBased = TimeBased
BY DEF Walk!RestingPlaces, RestingPlaces, Walk!TimeBased, TimeBased,
       Walk!MessageSteps, MessageSteps, Walk!MayEnd, MayEnd

LEMMA MoveBegins == ASSUME NEW s \in Steps PROVE s \in Within(s)
BY DEF Within, Walk!WithinMove, Walk!ClosedFrom

LEMMA MoveGoesOn ==
  ASSUME NEW s \in Steps, NEW x \in Within(s), x = s \/ x \notin TimeBased,
         NEW d \in Steps, Leads(x, d)
  PROVE  d \in Within(s)
<1>1. ASSUME NEW S \in SUBSET Steps, Walk!ClosedFrom(s, S)
      PROVE  d \in S
  <2>1. x \in S /\ x \in Steps
    BY <1>1 DEF Within, Walk!WithinMove
  <2>2. Walk!Edges(x) \subseteq S
    BY <1>1, <2>1, WalkRestingPlaces DEF Walk!ClosedFrom
  <2> QED BY <2>2 DEF Walk!Edges, Leads
<1> QED BY <1>1 DEF Within, Walk!WithinMove

-----------------------------------------------------------------------------
(* Objects.                                                                *)

LEMMA MarksOf ==
  ASSUME NEW location \in Location, NEW s \in Steps
  PROVE  /\ Marked(location).messageSent
         /\ Marked(location).step = location.step
         /\ Marked(location).waited = location.waited
         /\ Unlock(location, s).messageSent = location.messageSent
         /\ Unlock(location, s).step = s
         /\ ~Unlock(location, s).locked
BY DEF Location, Marked, Unlock

LEMMA LockedFields ==
  ASSUME NEW location \in Location
  PROVE  /\ Lock(location).locked
         /\ Lock(location).step = location.step
         /\ Lock(location).waited = location.waited
         /\ Lock(location).messageSent = location.messageSent
BY DEF Location, Lock

LEMMA AgedObjects ==
  ASSUME NEW location \in Location, NEW r \in Location, Describes(location, r)
  PROVE  /\ Describes(Aged(location), Aged(r))
         /\ Aged(location).messageSent = location.messageSent
BY DEF Describes, Aged, Location

\* A delay that is over stays over.
LEMMA DelayStaysOver ==
  ASSUME NEW s \in Steps, NEW location \in Location, DelayOver(s, location)
  PROVE  DelayOver(s, Aged(location))
<1>1. location.waited \in Nat /\ Delay[s] \in Nat
  BY GraphAssumption, ClockAssumption DEF Location
<1>2. Aged(location).waited = Older(location.waited, Horizon)
  BY DEF Aged, Location
<1>3. Older(location.waited, Horizon) \in Nat
      /\ Older(location.waited, Horizon) >= location.waited
  BY <1>1, ClockAssumption DEF Older
<1> QED BY <1>1, <1>2, <1>3 DEF DelayOver

\* Whatever the processor goes on with has the mark of what was sent, is as
\* old as the row, and loses no mark.
LEMMA GoesOnCarries ==
  ASSUME TypeOK, NEW c \in Customers, NEW h \in Hands(c), Carries(h, c),
         NEW location \in Location, GoesOnWith(c, h, location)
  PROVE  /\ Describes(location, row[c])
         /\ location.messageSent <=> Messaged(c)'
<1>1. h.location \in Location
  BY HandType
<1>2. CASE location = h.location /\ sends'[c] = sends[c]
  BY <1>2 DEF Carries, Messaged
<1>3. CASE location = Marked(h.location) /\ Messaged(c)'
  <2>1. /\ location.messageSent
        /\ location.step = h.location.step
        /\ location.waited = h.location.waited
    BY <1>1, <1>3 DEF Marked, Location
  <2> QED BY <1>3, <2>1 DEF Carries, Describes
<1> QED BY <1>2, <1>3 DEF GoesOnWith

\* What comes after a hand's step is within the move, and no delay is cut
\* short.
LEMMA LedOnTheWay ==
  ASSUME TypeOK, NEW c \in Customers, NEW h \in Hands(c), OnTheWay(h, c),
         NEW location, Describes(location, row[c]), DelayOver(h.step, location),
         NEW s \in Steps, Leads(h.step, s)
  PROVE  s \in Within(row[c].step) /\ DelayOver(row[c].step, row[c])
<1>1. row[c].step \in Steps
  BY DEF TypeOK, Location
<1>2. CASE h.step = row[c].step
  <2>1. s \in Within(row[c].step)
    BY <1>1, <1>2, MoveBegins, MoveGoesOn
  <2>2. DelayOver(row[c].step, row[c])
    BY <1>2 DEF DelayOver, Describes
  <2> QED BY <2>1, <2>2
<1>3. CASE /\ h.step \in Within(row[c].step) \ TimeBased
           /\ DelayOver(row[c].step, row[c])
  BY <1>1, <1>3, MoveGoesOn
<1> QED BY <1>2, <1>3 DEF OnTheWay

-----------------------------------------------------------------------------
(* One customer, passage by passage: the invariant is kept.                *)

\* Whoever is in a hand has begun.
LEMMA InHandBegun ==
  ASSUME NEW c \in Customers, HandInv(c), NEW h \in Hands(c)
  PROVE  /\ InHand(c, h)
         /\ c \notin starting
BY DEF HandInv, NotBegun

LEMMA PassageKeeps ==
  ASSUME TypeOK, TypeOK', EnrolledInv, NEW c \in Customers, HandInv(c), Passage(c)
  PROVE  HandInv(c)'
<1>1. row[c] \in Location
  BY DEF TypeOK
<1>2. CASE Stands(c)
  BY <1>2 DEF Stands, StaysIn, Still, HandInv, InHand, Carries, OnTheWay, NotBegun,
              AtRest, Messaged
<1>3. CASE Enters(c)
  <2>1. ~Messaged(c)'
    BY <1>3 DEF Enters, EnrolledInv, Messaged
  <2>2. /\ Created.locked /\ Created.step = StartStep /\ ~Created.messageSent
    BY DEF Created
  <2> QED BY <1>3, <2>1, <2>2 DEF Enters, HandInv, NotBegun
<1>4. CASE Starts(c)
  <2>1. NotBegun(c) /\ row'[c] = row[c] /\ c \notin starting' /\ ~Messaged(c)'
    BY <1>4 DEF Starts, Still, HandInv, NotBegun, Messaged
  <2>2. PICK h : /\ Hands(c)' \subseteq {h}
                 /\ h.kind = "job" /\ h.step = StartStep /\ h.location = row[c]
    BY <1>4 DEF Starts
  <2>3. InHand(c, h)'
    BY <2>1, <2>2 DEF NotBegun, InHand, Carries, Describes, OnTheWay
  <2> QED BY <2>1, <2>2, <2>3 DEF HandInv, NotBegun
<1>5. CASE GetsLocked(c)
  <2>1. /\ row'[c].locked
        /\ row'[c].step = row[c].step
        /\ row'[c].waited = row[c].waited
        /\ row'[c].messageSent = row[c].messageSent
        /\ Messaged(c)' <=> Messaged(c)
    BY <1>1, <1>5, LockedFields DEF GetsLocked, Messaged
  <2>2. \A location : Describes(location, row[c]) => Describes(location, row'[c])
    BY <2>1 DEF Describes
  <2>3. \A s : DelayOver(s, row[c]) => DelayOver(s, row'[c])
    BY <2>1 DEF DelayOver
  <2>4. CASE Hands(c)' \subseteq Hands(c)
    <3>1. \A h \in Hands(c)' : InHand(c, h)'
      BY <2>1, <2>2, <2>3, <2>4 DEF HandInv, InHand, Carries, OnTheWay
    <3>2. c \in starting' => NotBegun(c)'
      BY <1>5, <2>1, <2>4 DEF GetsLocked, StaysIn, HandInv, NotBegun
    <3> QED BY <2>1, <2>4, <3>1, <3>2 DEF HandInv
  <2>5. ASSUME ~row[c].locked, NEW h, Hands(c)' \subseteq {h},
               h.location = row[c], h.step = row[c].step
        PROVE  HandInv(c)'
    <3>1. AtRest(c) /\ c \notin starting'
      BY <1>5, <2>5, UnlockedIsFree DEF GetsLocked, StaysIn, HandInv
    <3>2. Describes(h.location, row[c])
      BY <2>5 DEF Describes
    <3>3. InHand(c, h)'
      BY <2>1, <2>2, <2>5, <3>1, <3>2 DEF AtRest, InHand, Carries, OnTheWay
    <3> QED BY <2>1, <2>5, <3>1, <3>3 DEF HandInv
  <2> QED BY <1>5, <2>4, <2>5 DEF GetsLocked
<1>6. CASE Passes(c)
  <2>0. PICK h \in Hands(c) : \E g : PassesTo(c, h, g)
    BY <1>6 DEF Passes
  <2>1. PICK g : PassesTo(c, h, g)
    BY <2>0
  <2>2. InHand(c, h) /\ c \notin starting
    BY InHandBegun
  <2>3. row'[c] = row[c] /\ c \notin starting' /\ row'[c].locked
    BY <1>6, <2>2 DEF Passes, StaysIn, InHand
  <2>4. CASE TakesOver(c, h, g)
    <3>1. InHand(c, g)'
      BY <2>1, <2>2, <2>3, <2>4
         DEF PassesTo, TakesOver, InHand, Carries, OnTheWay, Messaged
    <3> QED BY <2>1, <2>3, <3>1 DEF PassesTo, HandInv
  <2>5. CASE LeadsOn(c, h, g)
    <3>1. h.location \in Location
      BY HandType
    <3>2. g.location \in Location
      BY <2>5, <3>1, MarkedType DEF LeadsOn, GoesOnWith
    <3>3. Describes(g.location, row[c]) /\ (g.location.messageSent <=> Messaged(c)')
      BY <2>2, <2>5, <3>2, GoesOnCarries DEF LeadsOn, InHand
    <3>4. g.step \in Within(row[c].step) /\ DelayOver(row[c].step, row[c])
      BY <2>2, <2>5, <3>3, LedOnTheWay DEF LeadsOn, InHand
    <3>5. Carries(g, c)'
      BY <2>3, <3>3 DEF Carries
    <3>6. OnTheWay(g, c)'
      BY <2>3, <2>5, <3>4 DEF LeadsOn, OnTheWay
    <3>7. InHand(c, g)'
      BY <2>1, <2>3, <3>5, <3>6 DEF PassesTo, InHand
    <3> QED BY <2>1, <2>3, <3>7 DEF PassesTo, HandInv
  <2> QED BY <2>1, <2>4, <2>5 DEF PassesTo
<1>7. CASE Drops(c)
  <2>1. PICK h \in Hands(c) : TRUE
    BY <1>7 DEF Drops
  <2>2. c \notin starting' /\ row'[c].locked
    BY <1>7, <2>1, InHandBegun DEF Drops, StaysIn, InHand
  <2> QED BY <1>7, <2>2 DEF Drops, HandInv
<1>8. CASE Lands(c)
  <2>1. PICK h \in Hands(c), location \in Location, s \in Steps \cap RestingPlaces :
          row'[c] = Unlock(location, s) /\ GoesOnWith(c, h, location)
    BY <1>8 DEF Lands
  <2>2. InHand(c, h) /\ c \notin starting'
    BY <1>8, InHandBegun DEF Lands, StaysIn
  <2>3. location.messageSent <=> Messaged(c)'
    BY <2>1, <2>2, GoesOnCarries DEF InHand
  <2>4. AtRest(c)'
    BY <2>1, <2>3, MarksOf DEF AtRest
  <2> QED BY <1>8, <2>2, <2>4 DEF Lands, HandInv
<1>9. CASE Ages(c)
  <2>1. /\ row'[c] = Aged(row[c])
        /\ Messaged(c)' <=> Messaged(c)
        /\ StaysIn(c)
    BY <1>9 DEF Ages, Messaged
  <2>2. /\ row'[c].step = row[c].step
        /\ row'[c].locked = row[c].locked
        /\ row'[c].messageSent = row[c].messageSent
    BY <1>1, <2>1 DEF Aged, Location
  <2>3. ASSUME NEW g \in Hands(c)'
        PROVE  \E h \in Hands(c) : g = [h EXCEPT !.location = Aged(h.location)]
    BY <1>9 DEF Ages
  <2>4. ASSUME NEW g \in Hands(c)'
        PROVE  InHand(c, g)'
    <3>1. PICK h \in Hands(c) : g = [h EXCEPT !.location = Aged(h.location)]
      BY <2>3
    <3>2. /\ g.step = h.step /\ g.kind = h.kind
          /\ g.location = Aged(h.location)
          /\ h.location \in Location
      BY <3>1, HandType
    <3>3. InHand(c, h)
      BY InHandBegun
    <3>4. Carries(g, c)'
      BY <1>1, <2>1, <3>2, <3>3, AgedObjects DEF InHand, Carries
    <3>5. DelayOver(row[c].step, row[c]) => DelayOver(row'[c].step, row'[c])
      BY <1>1, <2>1, <2>2, DelayStaysOver DEF Location
    <3>6. OnTheWay(g, c)'
      BY <2>2, <3>2, <3>3, <3>5 DEF InHand, OnTheWay
    <3> QED BY <2>2, <3>2, <3>3, <3>4, <3>6 DEF InHand
  <2>5. \A g, h \in Hands(c)' : g = h
    BY <2>3 DEF HandInv
  <2>6. c \in starting' => NotBegun(c)'
    BY <2>1, <2>2, <2>3 DEF HandInv, NotBegun, StaysIn
  <2>7. c \in enrolled' /\ ~row'[c].locked => AtRest(c)'
    BY <2>1, <2>2 DEF HandInv, AtRest, StaysIn
  <2> QED BY <2>4, <2>5, <2>6, <2>7 DEF HandInv
<1> QED BY <1>2, <1>3, <1>4, <1>5, <1>6, <1>7, <1>8, <1>9 DEF Passage

-----------------------------------------------------------------------------
(* One customer, passage by passage: what the step does to the row.        *)

\* The customer walks: stays, joins, sets off, or arrives within one move.
LEMMA PassageWalks ==
  ASSUME TypeOK, TypeOK', EnrolledInv, NEW c \in Customers, HandInv(c), Passage(c)
  PROVE  Walk!Stays(c) \/ Walk!Join(c) \/ Walk!SetOff(c) \/ Walk!Arrive(c)
<1>1. row[c] \in Location /\ row[c].locked \in BOOLEAN /\ row[c].step \in Steps
  BY DEF TypeOK, Location
<1>2. CASE row'[c] = row[c] /\ StaysIn(c)
  BY <1>2 DEF StaysIn, Walk!Stays
<1>3. CASE Enters(c)
  BY <1>3 DEF Enters, Created, Walk!Join
<1>4. CASE GetsLocked(c)
  <2>1. /\ row'[c].locked = TRUE
        /\ row'[c].step = row[c].step
        /\ c \in enrolled /\ c \in enrolled'
    BY <1>1, <1>4 DEF GetsLocked, StaysIn, Lock, Location
  <2>2. CASE row[c].locked
    BY <1>1, <2>1, <2>2 DEF Walk!Stays
  <2>3. CASE ~row[c].locked
    BY <2>1, <2>3 DEF Walk!SetOff
  <2> QED BY <2>2, <2>3
<1>5. CASE Lands(c)
  <2>1. PICK h \in Hands(c), location \in Location, s \in Steps \cap RestingPlaces :
          /\ row'[c] = Unlock(location, s)
          /\ GoesOnWith(c, h, location)
          /\ s = h.step \/ (Leads(h.step, s) /\ DelayOver(h.step, location))
    BY <1>5 DEF Lands
  <2>2. InHand(c, h)
    BY InHandBegun
  <2>3. s \in Within(row[c].step)
    <3>1. CASE s = h.step
      BY <1>1, <2>2, <3>1, MoveBegins DEF InHand, OnTheWay
    <3>2. CASE Leads(h.step, s) /\ DelayOver(h.step, location)
      BY <2>1, <2>2, <3>2, GoesOnCarries, LedOnTheWay DEF InHand
    <3> QED BY <2>1, <3>1, <3>2
  <2>4. row'[c].step = s /\ ~row'[c].locked /\ row[c].locked
    BY <2>1, <2>2, MarksOf DEF InHand
  <2>5. c \in enrolled /\ c \in enrolled'
    BY <1>5, HandsEnrolled DEF Lands, StaysIn
  <2> QED BY <2>3, <2>4, <2>5, WalkRestingPlaces DEF Walk!Arrive, Within
<1>6. CASE Ages(c)
  BY <1>1, <1>6, AgedType DEF Ages, StaysIn, Walk!Stays
<1> QED BY <1>2, <1>3, <1>4, <1>5, <1>6
        DEF Passage, Stands, Still, Starts, Passes, Drops

LEMMA PassageMarks ==
  ASSUME TypeOK, EnrolledInv, NEW c \in Customers, HandInv(c), Passage(c),
         row[c].messageSent
  PROVE  row'[c].messageSent
<1>1. row[c] \in Location
  BY DEF TypeOK
<1>2. CASE Enters(c)
  BY <1>2 DEF Enters, EnrolledInv
<1>3. CASE GetsLocked(c)
  BY <1>1, <1>3, LockedFields DEF GetsLocked
<1>4. CASE Lands(c)
  <2>1. PICK h \in Hands(c), location \in Location, s \in Steps :
          row'[c] = Unlock(location, s) /\ GoesOnWith(c, h, location)
    BY <1>4 DEF Lands
  <2>2. location.messageSent
    BY <2>1, InHandBegun, GoesOnCarries DEF InHand, Describes
  <2> QED BY <2>1, <2>2, MarksOf
<1>5. CASE Ages(c)
  BY <1>1, <1>5 DEF Ages, Aged, Location
<1> QED BY <1>2, <1>3, <1>4, <1>5 DEF Passage, Stands, Still, Starts, Passes, Drops

\* A passage takes a customer out of a step only if its delay is over.
LEMMA PassageDelays ==
  ASSUME TypeOK, NEW c \in Customers, HandInv(c), Passage(c), c \in enrolled,
         row'[c].step # row[c].step
  PROVE  DelayOver(row[c].step, row[c])
<1>1. row[c] \in Location
  BY DEF TypeOK
<1>2. Lands(c)
  BY <1>1, LockedFields, AgedType
     DEF Passage, Stands, Still, Enters, Starts, GetsLocked, Passes, Drops, Ages
<1>3. PICK h \in Hands(c), location \in Location, s \in Steps :
        /\ row'[c] = Unlock(location, s)
        /\ GoesOnWith(c, h, location)
        /\ s = h.step \/ (Leads(h.step, s) /\ DelayOver(h.step, location))
  BY <1>2 DEF Lands
<1>4. InHand(c, h)
  BY InHandBegun
<1>5. CASE s = h.step
  <2>1. h.step # row[c].step
    BY <1>3, <1>5, MarksOf
  <2> QED BY <1>4, <2>1 DEF InHand, OnTheWay
<1>6. CASE Leads(h.step, s) /\ DelayOver(h.step, location)
  BY <1>3, <1>4, <1>6, GoesOnCarries, LedOnTheWay DEF InHand
<1> QED BY <1>3, <1>5, <1>6

-----------------------------------------------------------------------------
(* One message.                                                            *)

(***************************************************************************)
(* The journeys in which a message step leads to no message step: After    *)
(* holds every step that comes after one.                                  *)
(***************************************************************************)
AfterMessages(After) ==
  /\ After \cap MessageSteps = {}
  /\ \A s \in MessageSteps \cup After : \A d \in Steps : Leads(s, d) => d \in After

(***************************************************************************)
(* Who has been sent a message has had one, and whatever goes on from here *)
(* goes on after the message steps.  An event may hold a customer who      *)
(* rests in the message step itself; but events go on from time based      *)
(* steps only.                                                             *)
(***************************************************************************)
SentOf(After, c) ==
  /\ sends[c] <= 1
  /\ Messaged(c) =>
       /\ \A h \in Hands(c) :
            h.step \in After \/ (h.kind = "event" /\ h.step \notin TimeBased)
       /\ ~row[c].locked /\ row[c].step \in TimeBased => row[c].step \in After

SentInv(After) == \A c \in Customers \ disturbed : SentOf(After, c)

LEMMA PassageSent ==
  ASSUME TypeOK, EnrolledInv, NEW c \in Customers, HandInv(c), Passage(c),
         NEW After \in SUBSET Steps, AfterMessages(After), SentOf(After, c)
  PROVE  SentOf(After, c)'
<1>1. row[c] \in Location
  BY DEF TypeOK
<1>2. CASE Stands(c)
  BY <1>2 DEF Stands, Still, SentOf, Messaged
<1>3. CASE Enters(c)
  BY <1>3 DEF Enters, EnrolledInv, SentOf, Messaged
<1>4. CASE Starts(c)
  BY <1>4 DEF Starts, Still, HandInv, NotBegun, SentOf, Messaged
<1>5. CASE GetsLocked(c)
  <2>1. row'[c].locked /\ sends'[c] = sends[c]
    BY <1>1, <1>5, LockedFields DEF GetsLocked
  <2>2. CASE Hands(c)' \subseteq Hands(c)
    BY <2>1, <2>2 DEF SentOf, Messaged
  <2>3. ASSUME ~row[c].locked, NEW h, Hands(c)' \subseteq {h},
               h.step = row[c].step, h.kind = "event" \/ h.step \in TimeBased
        PROVE  SentOf(After, c)'
    BY <2>1, <2>3 DEF SentOf, Messaged
  <2> QED BY <1>5, <2>2, <2>3 DEF GetsLocked
<1>6. ASSUME NEW h \in Hands(c), NEW location, GoesOnWith(c, h, location),
             h.kind # "event"
      PROVE  /\ sends'[c] <= 1
             /\ Messaged(c)' => h.step \in MessageSteps \cup After
  <2>1. Messaged(c) => h.step \in After
    BY <1>6 DEF SentOf
  <2>2. sends[c] \in Nat
    BY TraversalAssumption DEF TypeOK
  <2>3. CASE sends'[c] = sends[c]
    BY <2>1, <2>3 DEF SentOf, Messaged
  <2>4. CASE h.step \in MessageSteps /\ sends'[c] <= sends[c] + 1
    <3>1. ~Messaged(c)
      BY <2>1, <2>4 DEF AfterMessages
    <3>2. sends[c] = 0
      BY <2>2, <3>1 DEF Messaged
    <3> QED BY <2>4, <3>2
  <2> QED BY <1>6, <2>3, <2>4 DEF GoesOnWith
<1>7. CASE Passes(c)
  <2>1. row'[c] = row[c]
    BY <1>7 DEF Passes
  <2>2. PICK h \in Hands(c) : \E g : PassesTo(c, h, g)
    BY <1>7 DEF Passes
  <2>3. PICK g : PassesTo(c, h, g)
    BY <2>2
  <2>4. row[c].locked
    BY InHandBegun DEF InHand
  <2>5. CASE TakesOver(c, h, g)
    BY <2>1, <2>3, <2>4, <2>5 DEF PassesTo, TakesOver, SentOf, Messaged
  <2>6. CASE LeadsOn(c, h, g)
    <3>1. sends'[c] <= 1 /\ (Messaged(c)' => h.step \in MessageSteps \cup After)
      BY <1>6, <2>6 DEF LeadsOn
    <3>2. Messaged(c)' => g.step \in After
      BY <2>6, <3>1 DEF LeadsOn, AfterMessages
    <3> QED BY <2>1, <2>3, <2>4, <3>1, <3>2 DEF PassesTo, SentOf
  <2> QED BY <2>3, <2>5, <2>6 DEF PassesTo
<1>8. CASE Drops(c)
  <2>1. PICK h \in Hands(c) : /\ h.kind = "job" /\ h.step \in MessageSteps
                              /\ Messaged(c)' /\ sends'[c] <= sends[c] + 1
    BY <1>8 DEF Drops
  <2>2. GoesOnWith(c, h, Marked(h.location)) /\ h.kind # "event"
    BY <2>1 DEF GoesOnWith
  <2>3. sends'[c] <= 1
    BY <1>6, <2>2
  <2>4. row'[c].locked /\ Hands(c)' = {}
    BY <1>8, InHandBegun DEF Drops, InHand
  <2> QED BY <2>3, <2>4 DEF SentOf
<1>9. CASE Lands(c)
  <2>1. PICK h \in Hands(c), location \in Location, s \in Steps :
          /\ row'[c] = Unlock(location, s)
          /\ GoesOnWith(c, h, location)
          /\ s = h.step \/ (h.kind = "job" /\ Leads(h.step, s))
    BY <1>9 DEF Lands
  <2>2. Hands(c)' = {} /\ row'[c].step = s
    BY <1>9, <2>1, MarksOf DEF Lands
  <2>3. CASE h.kind = "event"
    <3>1. s = h.step
      BY <2>1, <2>3
    <3>2. sends'[c] = sends[c]
      BY <2>1, <2>3 DEF GoesOnWith
    <3> QED BY <2>2, <3>1, <3>2 DEF SentOf, Messaged
  <2>4. CASE h.kind # "event"
    <3>1. sends'[c] <= 1 /\ (Messaged(c)' => h.step \in MessageSteps \cup After)
      BY <1>6, <2>1, <2>4
    <3>2. h.step \in MessageSteps => h.step \notin TimeBased
      BY DEF MessageSteps, TimeBased
    <3>3. Messaged(c)' => s \in After \/ s \notin TimeBased
      BY <2>1, <3>1, <3>2 DEF AfterMessages
    <3> QED BY <2>2, <3>1, <3>3 DEF SentOf
  <2> QED BY <2>3, <2>4
<1>10. CASE Ages(c)
  <2>1. /\ row'[c].step = row[c].step
        /\ row'[c].locked = row[c].locked
        /\ sends'[c] = sends[c]
    BY <1>1, <1>10, AgedType DEF Ages
  <2>2. ASSUME NEW g \in Hands(c)'
        PROVE  \E h \in Hands(c) : g.step = h.step /\ g.kind = h.kind
    <3>1. PICK h \in Hands(c) : g = [h EXCEPT !.location = Aged(h.location)]
      BY <1>10 DEF Ages
    <3> QED BY <3>1, HandType
  <2> QED BY <2>1, <2>2 DEF SentOf, Messaged
<1> QED BY <1>2, <1>3, <1>4, <1>5, <1>7, <1>8, <1>9, <1>10 DEF Passage

-----------------------------------------------------------------------------
(* The invariants hold.                                                    *)

\* The history variable adds nothing to what the system does.
LEMMA HistoryStep == ASSUME [HistoryNext]_historyVars PROVE [Next]_vars
BY DEF HistoryNext, historyVars

LEMMA HistoryIsSpec == HistorySpec => Spec
<1>1. HistoryInit => Init
  BY DEF HistoryInit
<1>2. [HistoryNext]_historyVars => [Next]_vars
  BY HistoryStep
<1> QED BY <1>1, <1>2, PTL DEF HistorySpec, Spec

LEMMA DisturbedGrows ==
  ASSUME [HistoryNext]_historyVars
  PROVE  /\ disturbed \subseteq disturbed'
         /\ disturbed \subseteq Customers => disturbed' \subseteq Customers
BY DEF HistoryNext, historyVars

\* Initially nobody is in hand.
LEMMA NoHandsInitially ==
  ASSUME Init, NEW c \in Customers
  PROVE  Hands(c) = {}
<1>1. \A h : ~Holds(c, h)
  BY DEF Init, Holds, JobMoves, EventMoves, ClaimMoves, NoJob, IdleCron
<1> QED BY <1>1, InHands

LEMMA HandsInvKept ==
  ASSUME TypeOK, TypeOK', EnrolledInv, HandsInv, [HistoryNext]_historyVars
  PROVE  HandsInv'
<1> SUFFICES ASSUME NEW c \in Customers \ disturbed'
             PROVE  HandInv(c)'
  BY DEF HandsInv
<1>1. HandInv(c)
  BY DisturbedGrows DEF HandsInv
<1> QED BY <1>1, StepIsPassage, PassageKeeps

LEMMA EnrolledInvHolds == Spec => []EnrolledInv
<1>1. Init => EnrolledInv
  BY DEF Init, EnrolledInv, ClaimsSound, Requeueing, NoJob, IdleCron, Blank, Created
<1>2. TypeOK /\ EnrolledInv /\ [Next]_vars => EnrolledInv'
  BY EnrolledInvKept
<1> QED BY <1>1, <1>2, TypeInvariant, PTL DEF Spec

LEMMA HandsInvHolds == HistorySpec => [](TypeOK /\ EnrolledInv /\ HandsInv)
<1>1. HistoryInit => HandsInv
  BY NoHandsInitially DEF HistoryInit, Init, HandsInv, HandInv
<1>2. TypeOK /\ TypeOK' /\ EnrolledInv /\ HandsInv /\ [HistoryNext]_historyVars
        => HandsInv'
  BY HandsInvKept
<1> QED BY <1>1, <1>2, HistoryIsSpec, TypeInvariant, EnrolledInvHolds, PTL
        DEF HistorySpec

LEMMA SentInvHolds ==
  ASSUME NEW After \in SUBSET Steps, AfterMessages(After)
  PROVE  HistorySpec => []SentInv(After)
<1>1. HistoryInit => SentInv(After)
  BY DEF HistoryInit, Init, SentInv, SentOf, Messaged
<1>2. TypeOK /\ EnrolledInv /\ HandsInv /\ SentInv(After) /\ [HistoryNext]_historyVars
        => SentInv(After)'
  <2> SUFFICES ASSUME TypeOK, EnrolledInv, HandsInv, SentInv(After),
                      [HistoryNext]_historyVars, NEW c \in Customers \ disturbed'
               PROVE  SentOf(After, c)'
    BY DEF SentInv
  <2>1. HandInv(c) /\ SentOf(After, c)
    BY DisturbedGrows DEF HandsInv, SentInv
  <2> QED BY <2>1, StepIsPassage, PassageSent
<1> QED BY <1>1, <1>2, HandsInvHolds, PTL DEF HistorySpec

-----------------------------------------------------------------------------
(* The theorems.                                                           *)

\* Movers are hands, and the enrollment that has not yet queued its job.
LEMMA MoversAre ==
  ASSUME NEW c \in Customers, NEW x \in Movers(c)
  PROVE  \/ c \in starting /\ x = <<"enrollment", c>>
         \/ \E h \in Hands(c) : x = <<h.kind, h.id>>
<1>1. CASE \E i \in JobIds : JobMoves(i, c) /\ x = <<"job", i>>
  <2>1. PICK i \in JobIds : JobMoves(i, c) /\ x = <<"job", i>>
    BY <1>1
  <2>2. JobHand(i) \in Hands(c)
    BY <2>1, InHands DEF Holds
  <2> QED BY <2>1, <2>2 DEF JobHand
<1>2. CASE \E e \in Events : EventMoves(e, c) /\ x = <<"event", e>>
  <2>1. PICK e \in Events : EventMoves(e, c) /\ x = <<"event", e>>
    BY <1>2
  <2>2. EventHand(e) \in Hands(c)
    BY <2>1, InHands DEF Holds
  <2> QED BY <2>1, <2>2 DEF EventHand
<1>3. CASE \E k \in Crons : /\ cron[k].phase = "locked" /\ c \in Claimed(k)
                            /\ x = <<"cron", k>>
  <2>1. PICK k \in Crons : /\ cron[k].phase = "locked" /\ c \in Claimed(k)
                           /\ x = <<"cron", k>>
    BY <1>3
  <2>2. PICK y \in cron[k].claims : ClaimMoves(k, y, c)
    BY <2>1 DEF Claimed, ClaimMoves
  <2>3. ClaimHand(k, y) \in Hands(c)
    BY <2>2, InHands DEF Holds
  <2> QED BY <2>1, <2>3 DEF ClaimHand
<1>4. CASE c \in starting /\ x = <<"enrollment", c>>
  BY <1>4
<1> QED BY <1>1, <1>2, <1>3, <1>4 DEF Movers, JobMoves, EventMoves

(***************************************************************************)
(* At most one job, cron run or event at a time moves a customer nobody    *)
(* has disturbed, and it holds the customer's lock for as long as it does, *)
(* through the queue and from job to job: in every journey, whatever is    *)
(* lost and whatever happens to the others, who locks a row it has read    *)
(* unlocked and unchanged takes the customer from nobody.                  *)
(***************************************************************************)
THEOREM OneMoverAtATime == HistorySpec => []OneMover
<1>1. HandsInv => OneMover
  <2> SUFFICES ASSUME HandsInv, NEW c \in Customers \ disturbed,
                      NEW x \in Movers(c), NEW y \in Movers(c)
               PROVE  x = y /\ row[c].locked
    BY DEF OneMover
  <2>1. HandInv(c)
    BY DEF HandsInv
  <2>2. CASE c \in starting
    BY <2>1, <2>2, MoversAre DEF HandInv, NotBegun
  <2>3. CASE c \notin starting
    BY <2>1, <2>3, MoversAre DEF HandInv, InHand
  <2> QED BY <2>2, <2>3
<1> QED BY <1>1, HandsInvHolds, PTL

(***************************************************************************)
(* The traversal implements the walk: whoever is not disturbed joins,      *)
(* sets off, and arrives within one move of the journey's edges, whichever *)
(* jobs, cron runs and events carried the customer there.                  *)
(***************************************************************************)
THEOREM TraversalFollowsWalk == HistorySpec => FollowsWalk
<1>1. HistoryInit => Walk!WalkInit
  <2>1. Blank.step = StartStep /\ Blank.locked = FALSE
    BY DEF Blank, Created
  <2> QED BY <2>1 DEF HistoryInit, Init, Walk!WalkInit
<1>2. TypeOK /\ TypeOK' /\ EnrolledInv /\ HandsInv /\ disturbed \subseteq Customers
        /\ [HistoryNext]_historyVars
        => [Walk!WalkNext]_(Walk!walkVars)
  <2> SUFFICES ASSUME TypeOK, TypeOK', EnrolledInv, HandsInv,
                      disturbed \subseteq Customers, [HistoryNext]_historyVars
               PROVE  Walk!WalkNext
    OBVIOUS
  <2>1. Walk!WalkTypeOK'
    <3>1. disturbed' \subseteq Customers
      BY DisturbedGrows
    <3>2. /\ enrolled' \subseteq Customers
          /\ \A c \in Customers : row'[c].step \in Steps /\ row'[c].locked \in BOOLEAN
      BY DEF TypeOK, Location
    <3> QED BY <3>1, <3>2 DEF Walk!WalkTypeOK
  <2>2. ASSUME NEW c \in Customers \ disturbed'
        PROVE  Walk!Stays(c) \/ Walk!Join(c) \/ Walk!SetOff(c) \/ Walk!Arrive(c)
    <3>1. HandInv(c)
      BY DisturbedGrows DEF HandsInv
    <3> QED BY <3>1, StepIsPassage, PassageWalks
  <2> QED BY <2>1, <2>2, DisturbedGrows DEF Walk!WalkNext
<1>3. HistorySpec => [](disturbed \subseteq Customers)
  <2>1. HistoryInit => disturbed \subseteq Customers
    BY DEF HistoryInit
  <2>2. disturbed \subseteq Customers /\ [HistoryNext]_historyVars
          => (disturbed \subseteq Customers)'
    BY DisturbedGrows
  <2> QED BY <2>1, <2>2, PTL DEF HistorySpec
<1> QED BY <1>1, <1>2, <1>3, HandsInvHolds, PTL
        DEF HistorySpec, FollowsWalk, Walk!WalkSpec

(***************************************************************************)
(* The object in a job that a processor may act on describes the row it    *)
(* will write: no unlock puts back a step, an entry time or a mark that is *)
(* out of date, however long the job was queued and wherever it came from. *)
(***************************************************************************)
THEOREM JobObjectsCurrent == HistorySpec => []JobLocationCurrent
<1>1. TypeOK /\ HandsInv => JobLocationCurrent
  <2> SUFFICES ASSUME TypeOK, HandsInv, NEW i \in JobIds,
                      jobs[i].phase = "ready", ~jobs[i].malformed,
                      jobs[i].customer \notin disturbed
               PROVE  Describes(jobs[i].location, row[jobs[i].customer])
    BY DEF JobLocationCurrent
  <2>1. PICK c \in Customers : c = jobs[i].customer
    BY BusySlot DEF TypeOK, JobsType, Job
  <2>2. JobHand(i) \in Hands(c)
    BY <2>1, InHands DEF Holds, JobMoves
  <2>3. Carries(JobHand(i), c)
    BY <2>1, <2>2 DEF HandsInv, HandInv, InHand
  <2> QED BY <2>1, <2>3 DEF Carries, JobHand
<1> QED BY <1>1, HandsInvHolds, PTL

(***************************************************************************)
(* Such a customer at rest is marked as messaged exactly if a message went *)
(* out, though between the send and the unlock the mark is only in an      *)
(* object in the queue, and a job may be lost with it: then the customer   *)
(* is not at rest.                                                         *)
(***************************************************************************)
THEOREM MarksMatchSends == HistorySpec => []MarkMatchesSends
<1>1. TypeOK /\ HandsInv => MarkMatchesSends
  BY DEF TypeOK, HandsInv, HandInv, AtRest, MarkMatchesSends, Messaged
<1> QED BY <1>1, HandsInvHolds, PTL

(***************************************************************************)
(* The mark once in such a customer's row is never taken back: every       *)
(* unlock writes the mark of an object that has it if the row does.        *)
(***************************************************************************)
THEOREM MarksStay == HistorySpec => MessagedStaysMarked
<1>1. TypeOK /\ EnrolledInv /\ HandsInv /\ [HistoryNext]_historyVars
        => [\A c \in Customers \ disturbed' :
              row[c].messageSent => row'[c].messageSent]_historyVars
  <2> SUFFICES ASSUME TypeOK, EnrolledInv, HandsInv, [HistoryNext]_historyVars,
                      NEW c \in Customers \ disturbed', row[c].messageSent
               PROVE  row'[c].messageSent
    OBVIOUS
  <2>1. HandInv(c)
    BY DisturbedGrows DEF HandsInv
  <2> QED BY <2>1, StepIsPassage, PassageMarks
<1> QED BY <1>1, HandsInvHolds, PTL DEF HistorySpec, MessagedStaysMarked

(***************************************************************************)
(* Such a customer leaves a delay only when it has passed since the row    *)
(* says the customer entered it, though it is the cron that tests the row, *)
(* minutes before, a processor that tests its copy, and perhaps another    *)
(* that writes the row, steps later.                                       *)
(***************************************************************************)
THEOREM DelaysHonoured == HistorySpec => DelayHonoured
<1> DEFINE LeavesLate(c) ==
      LET s == row[c].step
      IN Type[s] = "timeDelay" /\ s \notin Windowed /\ row'[c].step # s
           => row[c].waited > Delay[s]
<1>1. TypeOK /\ EnrolledInv /\ HandsInv /\ [HistoryNext]_historyVars
        => [\A c \in enrolled \ disturbed' : LeavesLate(c)]_historyVars
  <2> SUFFICES ASSUME TypeOK, EnrolledInv, HandsInv, [HistoryNext]_historyVars,
                      NEW c \in enrolled \ disturbed', row'[c].step # row[c].step
               PROVE  DelayOver(row[c].step, row[c])
    BY DEF DelayOver
  <2>1. c \in Customers \ disturbed'
    BY DEF TypeOK
  <2>2. HandInv(c)
    BY <2>1, DisturbedGrows DEF HandsInv
  <2> QED BY <2>1, <2>2, StepIsPassage, PassageDelays
<1>2. DelayHonoured <=> [][\A c \in enrolled \ disturbed' : LeavesLate(c)]_historyVars
  BY PTL DEF DelayHonoured
<1> QED BY <1>1, <1>2, HandsInvHolds, PTL DEF HistorySpec

(***************************************************************************)
(* In a journey in which no message step leads to a message step, nobody   *)
(* undisturbed is sent two messages, whatever jobs fail after sending      *)
(* theirs, however often a message was put off or held first, and whatever *)
(* events came in between.                                                 *)
(***************************************************************************)
THEOREM NobodyMessagedTwice ==
  ASSUME \E After \in SUBSET Steps : AfterMessages(After)
  PROVE  HistorySpec => []NoSecondMessage
<1>1. PICK After \in SUBSET Steps : AfterMessages(After)
  OBVIOUS
<1>2. SentInv(After) => NoSecondMessage
  BY DEF SentInv, SentOf, NoSecondMessage
<1> QED BY <1>1, <1>2, SentInvHolds, PTL

-----------------------------------------------------------------------------
(* The cron alone.                                                         *)

\* What a run has selected is still what it selected.
SelectedCurrent ==
  \A k \in Crons : \A x \in cron[k].claims :
    cron[k].phase = "selected" => x.location = row[x.customer]

\* Deliveries repeated are never forgotten.
LEMMA AloneBefore ==
  ASSUME TypeOK, [Next]_vars, CronAlone'
  PROVE  CronAlone
<1>1. redeliveries \in Nat /\ redeliveries' = 0
  BY DEF TypeOK, CronAlone
<1>2. redeliveries' = redeliveries \/ redeliveries' = redeliveries + 1
  <2>1. ASSUME NEW c \in Customers, Enroll(c) \/ StartJourney(c)
        PROVE  redeliveries' = redeliveries
    BY <2>1 DEF Enroll, StartJourney
  <2>2. ASSUME NEW i \in JobIds, Process(i)
        PROVE  redeliveries' = redeliveries
    BY <2>2 DEF Process, ProcessForward, ProcessExit, ProcessMessage, SendMessage,
                SkipMessage, HoldMessage, RequeueMessage, ProcessTimed,
                ProcessWaitUntil, FailBroken, Proceed, ProceedWith, Stay
  <2>3. ASSUME NEW i \in JobIds,
               Ack(i) \/ FailSound(i) \/ Interrupt(i) \/ Redeliver(i) \/ Duplicate(i)
        PROVE  redeliveries' = redeliveries \/ redeliveries' = redeliveries + 1
    BY <2>3 DEF Ack, FailSound, Interrupt, Redeliver, Duplicate
  <2>4. ASSUME NEW k \in Crons, Minute(k) \/ CronCrash(k)
        PROVE  redeliveries' = redeliveries
    BY <2>4 DEF Minute, CronSelect, CronLock, CronPublish, CronDone, RequeueSelect,
                RequeuePublish, RequeueCommit, CronCrash
  <2>5. CASE Tick
    BY <2>5 DEF Tick
  <2>6. \A e \in Events : FALSE
    BY DEF CronAlone
  <2>7. CASE UNCHANGED vars
    BY <2>7 DEF vars
  <2> QED BY <2>1, <2>2, <2>3, <2>4, <2>5, <2>6, <2>7 DEF Next, Fault
<1> QED BY <1>1, <1>2 DEF CronAlone

LEMMA AloneUndisturbed ==
  ASSUME CronAlone, CronAlone', TypeOK, SelectedCurrent, disturbed = {},
         [HistoryNext]_historyVars
  PROVE  disturbed' = {}
<1>1. \A e \in Events : FALSE
  BY DEF CronAlone
<1>2. \A i \in JobIds : ~Redeliver(i) /\ ~Duplicate(i) /\ ~Interrupt(i)
  <2>1. redeliveries = 0 /\ redeliveries' = 0
    BY DEF CronAlone
  <2>2. redeliveries' # redeliveries + 1
    BY <2>1
  <2> QED BY <2>2 DEF Redeliver, Duplicate, Interrupt
<1>3. \A c \in Customers : ~RunAgain(c)
  BY <1>2 DEF RunAgain
<1>4. ASSUME NEW c \in Customers, NEW k \in Crons, CronLock(k),
             NEW x \in cron[k].claims, x.customer = c
      PROVE  x.location = row[c]
  BY <1>4 DEF CronLock, SelectedCurrent
<1>5. \A c \in Customers : ~LockedStale(c)
  BY <1>1, <1>4 DEF LockedStale
<1> QED BY <1>3, <1>5 DEF HistoryNext, historyVars

LEMMA SelectedStaysCurrent ==
  ASSUME CronAlone, TypeOK, EnrolledInv, HandsInv, disturbed = {}, SelectedCurrent,
         [Next]_vars
  PROVE  SelectedCurrent'
<1> SUFFICES ASSUME NEW k \in Crons, NEW x \in cron'[k].claims,
                    cron'[k].phase = "selected"
             PROVE  x.location = row'[x.customer]
  BY DEF SelectedCurrent
<1>1. cron[k] \in CronRun /\ enrolled \subseteq Customers
  BY DEF TypeOK
<1>2. ASSUME UNCHANGED cron
      PROVE  /\ x \in cron[k].claims
             /\ x.customer \in enrolled /\ x.customer \in Customers
             /\ x.location = row[x.customer]
             /\ ~row[x.customer].locked
  BY <1>1, <1>2 DEF SelectedCurrent, EnrolledInv, ClaimsSound
<1>3. ASSUME NEW c \in Customers, Enroll(c) \/ StartJourney(c)
      PROVE  x.location = row'[x.customer]
  BY <1>2, <1>3 DEF Enroll, StartJourney, TypeOK
<1>4. ASSUME NEW i \in JobIds, Process(i)
      PROVE  x.location = row'[x.customer]
  <2>1. jobs[i].phase = "ready" /\ UNCHANGED cron
    BY <1>4, ProcessDetail
  <2>2. CASE UNCHANGED row
    BY <1>2, <2>1, <2>2
  <2>3. ASSUME ~jobs[i].malformed, NEW location, Unlocks(i, location)
        PROVE  x.location = row'[x.customer]
    <3>1. PICK d \in Customers : d = jobs[i].customer
      BY <2>1, BusySlot DEF TypeOK, JobsType, Job
    <3>2. JobMoves(i, d) /\ HandInv(d)
      BY <2>1, <2>3, <3>1 DEF JobMoves, HandsInv
    <3>3. row[d].locked
      BY <3>2, SoleJob DEF HandInv, InHand
    <3>4. x.customer # d
      BY <1>2, <2>1, <3>3
    <3>5. row'[x.customer] = row[x.customer]
      BY <1>2, <2>1, <2>3, <3>1, <3>4 DEF Unlocks, TypeOK
    <3> QED BY <1>2, <2>1, <3>5
  <2> QED BY <1>4, <2>2, <2>3, ProcessDetail DEF GivesUp, Forwards
<1>5. ASSUME NEW i \in JobIds,
             Ack(i) \/ FailSound(i) \/ Interrupt(i) \/ Redeliver(i) \/ Duplicate(i)
      PROVE  x.location = row'[x.customer]
  BY <1>2, <1>5 DEF Ack, FailSound, Interrupt, Redeliver, Duplicate
<1>6. ASSUME NEW m \in Crons, Minute(m) \/ CronCrash(m)
      PROVE  x.location = row'[x.customer]
  <2>1. m = k
    BY DEF CronAlone
  <2>2. CASE CronSelect(k)
    <3>1. /\ cron'[k].claims = {[customer |-> c, location |-> row[c]] :
                                  c \in {c \in enrolled : Selected(c)}}
          /\ UNCHANGED row
      BY <1>1, <2>2 DEF CronSelect, TypeOK, CronRun
    <3> QED BY <3>1
  <2>3. CASE CronLock(k) \/ CronPublish(k) \/ CronDone(k) \/ RequeueSelect(k)
             \/ RequeuePublish(k) \/ RequeueCommit(k) \/ CronCrash(k)
    <3>1. CASE CronLock(k) \/ CronPublish(k)
      <4>1. CASE CronLock(k)
        <5>1. cron'[k].phase = "locked"
          BY <1>1, <4>1 DEF CronLock, TypeOK, CronRun
        <5> QED BY <5>1
      <4>2. CASE CronPublish(k)
        <5>1. cron'[k].phase = cron[k].phase /\ cron[k].phase = "locked"
          BY <1>1, <4>2 DEF CronPublish, TypeOK, CronRun
        <5> QED BY <5>1
      <4> QED BY <3>1, <4>1, <4>2
    <3>2. CASE RequeueSelect(k) \/ RequeuePublish(k)
      <4>1. CASE RequeueSelect(k)
        <5>1. cron'[k].phase = "requeueing"
          BY <1>1, <4>1 DEF RequeueSelect, TypeOK, CronRun
        <5> QED BY <5>1
      <4>2. CASE RequeuePublish(k)
        <5>1. cron'[k].phase = cron[k].phase /\ cron[k].phase = "requeueing"
          BY <1>1, <4>2 DEF RequeuePublish, TypeOK, CronRun
        <5> QED BY <5>1
      <4> QED BY <3>2, <4>1, <4>2
    <3>3. CASE CronDone(k) \/ RequeueCommit(k) \/ CronCrash(k)
      BY <3>3 DEF CronDone, RequeueCommit, CronCrash, TypeOK, IdleCron
    <3> QED BY <2>3, <3>1, <3>2, <3>3
  <2> QED BY <1>6, <2>1, <2>2, <2>3 DEF Minute
<1>7. CASE Tick
  <2> DEFINE aged == {[y EXCEPT !.location = Aged(y.location)] : y \in cron[k].claims}
  <2>1. cron'[k] = [cron[k] EXCEPT !.claims = aged]
    BY <1>7 DEF Tick
  <2>2. cron'[k].claims = aged /\ cron[k].phase = "selected"
    BY <1>1, <2>1 DEF CronRun
  <2>3. PICK y \in cron[k].claims : x = [y EXCEPT !.location = Aged(y.location)]
    BY <2>2
  <2>4. y \in Claim
    BY <1>1 DEF CronRun
  <2>5. x.customer = y.customer /\ x.location = Aged(y.location)
    BY <2>3, <2>4 DEF Claim
  <2>6. y.location = row[y.customer] /\ y.customer \in enrolled
    BY <2>2 DEF SelectedCurrent, EnrolledInv, ClaimsSound
  <2>7. row'[y.customer] = Aged(row[y.customer])
    BY <1>1, <1>7, <2>6 DEF Tick
  <2> QED BY <2>5, <2>6, <2>7
<1>8. CASE UNCHANGED vars
  BY <1>2, <1>8 DEF vars
<1>9. \A e \in Events : FALSE
  BY DEF CronAlone
<1> QED BY <1>3, <1>4, <1>5, <1>6, <1>7, <1>8, <1>9 DEF Next, Fault

(***************************************************************************)
(* With the cron alone, one run at a time, nobody is disturbed until a     *)
(* delivery is repeated, so that all of the above holds of everybody till  *)
(* then: whom the cron's query finds unlocked stays as found until it      *)
(* locks.                                                                  *)
(***************************************************************************)
THEOREM NobodyDisturbed == HistorySpec => []CronDisturbsNobody
<1> DEFINE AloneInv == CronAlone => disturbed = {} /\ SelectedCurrent
<1>1. HistoryInit => AloneInv
  BY DEF HistoryInit, Init, SelectedCurrent, IdleCron
<1>2. TypeOK /\ EnrolledInv /\ HandsInv /\ AloneInv /\ [HistoryNext]_historyVars
        => AloneInv'
  <2> SUFFICES ASSUME TypeOK, EnrolledInv, HandsInv, AloneInv,
                      [HistoryNext]_historyVars, CronAlone'
               PROVE  disturbed' = {} /\ SelectedCurrent'
    OBVIOUS
  <2>1. [Next]_vars
    BY HistoryStep
  <2>2. CronAlone
    BY <2>1, AloneBefore
  <2>3. disturbed = {} /\ SelectedCurrent
    BY <2>2
  <2> QED BY <2>1, <2>2, <2>3, AloneUndisturbed, SelectedStaysCurrent
<1>3. AloneInv => CronDisturbsNobody
  BY DEF CronDisturbsNobody
<1> QED BY <1>1, <1>2, <1>3, HandsInvHolds, PTL DEF HistorySpec

=============================================================================
