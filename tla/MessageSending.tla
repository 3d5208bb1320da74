---------------------------- MODULE MessageSending ----------------------------
(***************************************************************************)
(* What a message step does with the jobs of its customers                 *)
(* (MessageStepProcessor.process): quiet hours, the journey's limit of     *)
(* customers who receive messages, its limit of messages a minute, the     *)
(* template from the cache, the send, and the marks by which the limits    *)
(* count.  Every await is a step, for several jobs are handled at once by  *)
(* each worker.                                                            *)
(*                                                                         *)
(* The customers messaged are counted by the rows of journey_location that *)
(* have messageSent, which is written only when the customer's move ends;  *)
(* the messages of a minute by a key in Redis that is read before the send *)
(* and incremented after it, and that expires 59 seconds later.            *)
(***************************************************************************)
EXTENDS Integers, FiniteSets

CONSTANTS
  Customers,     \* each has one job in the step
  Handlers,      \* jobs handled at once: workers by prefetch
  Nobody,        \* no customer
  Limited,       \* maxUsersReceive is set
  MaxCustomers,  \* maxUsersReceive
  MaxRate,       \* maxSendRate, which is always set here
  QuietMinutes,  \* the minutes of the journey's quiet hours
  Fallback,      \* fallbackBehavior of quiet hours
  Seconds,       \* seconds in a minute
  Horizon,       \* bound: the clock stops
  MaxUpdates,    \* bound: updates of the template
  MaxFaults      \* bound: handlers that throw or whose process dies

ASSUME SendingAssumption ==
  /\ IsFiniteSet(Customers)
  /\ IsFiniteSet(Handlers)
  /\ Nobody \notin Customers
  /\ Limited \in BOOLEAN
  /\ MaxCustomers \in Nat
  /\ MaxRate \in Nat \ {0}
  /\ QuietMinutes \subseteq Nat
  /\ Fallback \in {"QUIET_REQUEUE", "QUIET_ABORT"}
  /\ Seconds \in Nat \ {0, 1}
  /\ Horizon \in Nat
  /\ MaxUpdates \in Nat
  /\ MaxFaults \in Nat

VARIABLES
  row,        \* row[c]: messageSent, and whether c is held for the limit
  job,        \* job[c]: the job of the message step
  onward,     \* the jobs of later steps, each with its location's mark
  handler,    \* handler[h]: how far its job has come
  counter,    \* the key of the current minute in Redis
  template,   \* the version in the database
  cached,     \* the version in the cache, or None
  spoilt,     \* the version in the cache was loaded while it was being updated
  editor,     \* an update has cleared the cache and not written yet
  time,
  sent,       \* messages that went out in this minute
  messaged,   \* customers to whom one went out
  lapsed,     \* this minute's key has expired already
  repeated,   \* customers whose job has been delivered again
  failed,     \* customers whose job has thrown
  faults      \* jobs delivered again or thrown

store == <<template, cached, spoilt, editor>>
endings == <<repeated, failed, faults>>
vars == <<row, job, onward, handler, counter, store, time, sent, messaged,
          lapsed, endings>>

-----------------------------------------------------------------------------
None == -1

Minute(t) == t \div Seconds

\* expire(rateLimitKey, 59)
Lifetime == Seconds - 1

NoKey == [value |-> 0, since |-> 0]

MessageSendType ==
  {"SEND", "QUIET_REQUEUE", "QUIET_ABORT", "LIMIT_REQUEUE", "LIMIT_HOLD"}

Points ==
  {"idle", "customers", "minute", "template", "load", "store", "act",
   "count", "next", "release", "ack"}

\* template is what it has read, newest what it should have at least, and
\* overlapped says that the template was loaded while it was being updated: by
\* the handler, which is about to store it, or by the one it has it from.
Handler ==
  [at : Points, customer : Customers \cup {Nobody},
   messageSendType : MessageSendType, messageSent : BOOLEAN,
   template : Nat \cup {None}, newest : Nat, overlapped : BOOLEAN]

Idle ==
  [at |-> "idle", customer |-> Nobody, messageSendType |-> "SEND",
   messageSent |-> FALSE, template |-> None, newest |-> 0,
   overlapped |-> FALSE]

TypeOK ==
  /\ row \in [Customers -> [messageSent : BOOLEAN, held : BOOLEAN]]
  /\ job \in [Customers -> {"queued", "handled", "ended"}]
  /\ onward \subseteq Customers \X BOOLEAN
  /\ handler \in [Handlers -> Handler]
  /\ counter \in [value : Nat, since : Nat]
  /\ template \in Nat
  /\ cached \in Nat \cup {None}
  /\ cached <= template
  /\ spoilt \in BOOLEAN
  /\ editor \in {"idle", "cleared"}
  /\ time \in 0..Horizon
  /\ sent \in Nat
  /\ messaged \subseteq Customers
  /\ lapsed \in BOOLEAN
  /\ repeated \subseteq Customers
  /\ failed \subseteq Customers
  /\ faults \in 0..MaxFaults

Init ==
  /\ row = [c \in Customers |-> [messageSent |-> FALSE, held |-> FALSE]]
  /\ job = [c \in Customers |-> "queued"]
  /\ onward = {}
  /\ handler = [h \in Handlers |-> Idle]
  /\ counter = NoKey
  /\ template = 0
  /\ cached = None
  /\ spoilt = FALSE
  /\ editor = "idle"
  /\ time = 0
  /\ sent = 0
  /\ messaged = {}
  /\ lapsed = FALSE
  /\ repeated = {}
  /\ failed = {}
  /\ faults = 0

-----------------------------------------------------------------------------
(* What the checks read.                                                   *)

Marked == {c \in Customers : row[c].messageSent}

\* (Slip: the customer at hand is counted as well.)
CustomersLimitedEarly == Limited /\ Cardinality(Marked) + 1 >= MaxCustomers

CustomersLimited == Limited /\ Cardinality(Marked) >= MaxCustomers

\* (Slip: > for >=.)
RateLimitedLate == counter.value > MaxRate

RateLimited == counter.value >= MaxRate

-----------------------------------------------------------------------------
(* A handler.                                                              *)

With(h, point) == handler' = [handler EXCEPT ![h].at = point]

\* Done with the template, and with the type of the send.
Leaves(h, point, mark) ==
  handler' = [handler EXCEPT
    ![h] = [Idle EXCEPT !.at = point, !.messageSent = mark,
                        !.customer = handler[h].customer]]

Begin(h, c) ==
  /\ handler[h].at = "idle"
  /\ job[c] = "queued"
  /\ job' = [job EXCEPT ![c] = "handled"]
  /\ handler' = [handler EXCEPT ![h] =
       IF Minute(time) \in QuietMinutes
       THEN [Idle EXCEPT !.at = "template", !.customer = c,
                         !.messageSendType = Fallback, !.newest = template]
       ELSE [Idle EXCEPT !.at = "customers", !.customer = c]]
  /\ UNCHANGED <<row, onward, counter, store, time, sent, messaged, lapsed,
                 endings>>

CheckCustomers(h) ==
  /\ handler[h].at = "customers"
  /\ handler' = [handler EXCEPT ![h] =
       IF CustomersLimited
       THEN [handler[h] EXCEPT !.at = "template", !.newest = template,
                               !.messageSendType = "LIMIT_HOLD"]
       ELSE [handler[h] EXCEPT !.at = "minute"]]
  /\ UNCHANGED <<row, job, onward, counter, store, time, sent, messaged,
                 lapsed, endings>>

CheckMinute(h) ==
  /\ handler[h].at = "minute"
  /\ handler' = [handler EXCEPT ![h] =
       [handler[h] EXCEPT !.at = "template", !.newest = template,
                          !.messageSendType = IF RateLimited
                                              THEN "LIMIT_REQUEUE" ELSE "SEND"]]
  /\ UNCHANGED <<row, job, onward, counter, store, time, sent, messaged,
                 lapsed, endings>>

\* cacheService.getRaw: the cache, or the database and then the cache.
GetTemplate(h) ==
  /\ handler[h].at = "template"
  /\ IF cached = None
     THEN With(h, "load")
     ELSE handler' = [handler EXCEPT
            ![h] = [handler[h] EXCEPT !.at = "act", !.template = cached,
                                      !.overlapped = spoilt]]
  /\ UNCHANGED <<row, job, onward, counter, store, time, sent, messaged,
                 lapsed, endings>>

LoadTemplate(h) ==
  /\ handler[h].at = "load"
  /\ handler' = [handler EXCEPT
       ![h] = [handler[h] EXCEPT !.at = "store", !.template = template,
                                 !.overlapped = (editor = "cleared")]]
  /\ UNCHANGED <<row, job, onward, counter, store, time, sent, messaged,
                 lapsed, endings>>

StoreTemplate(h) ==
  /\ handler[h].at = "store"
  /\ cached' = handler[h].template
  /\ spoilt' = handler[h].overlapped
  /\ handler' = [handler EXCEPT
       ![h] = [handler[h] EXCEPT !.at = "act", !.overlapped = FALSE]]
  /\ UNCHANGED <<row, job, onward, counter, template, editor, time, sent,
                 messaged, lapsed, endings>>

\* A sender: nothing goes out if the customer has no address, or if it answers
\* with a record of an error.
GoesOut(c) ==
  \/ UNCHANGED <<sent, messaged>>
  \/ sent' = sent + 1 /\ messaged' = messaged \cup {c}

Send(h) ==
  /\ handler[h].at = "act"
  /\ handler[h].messageSendType = "SEND"
  /\ Leaves(h, "count", FALSE)
  /\ GoesOut(handler[h].customer)
  /\ UNCHANGED <<row, job, onward, counter, store, time, lapsed, endings>>

\* The location's mark, and rateLimitByMinuteIncrement: the minute is that
\* of the increment.
Increment(h) ==
  /\ handler[h].at = "count"
  /\ Leaves(h, "next", TRUE)
  /\ counter' = [value |-> counter.value + 1, since |-> time]
  /\ UNCHANGED <<row, job, onward, store, time, sent, messaged, lapsed,
                 endings>>

Abort(h) ==
  /\ handler[h].at = "act"
  /\ handler[h].messageSendType = "QUIET_ABORT"
  /\ Leaves(h, "next", FALSE)
  /\ UNCHANGED <<row, job, onward, counter, store, time, sent, messaged,
                 lapsed, endings>>

\* requeueMessage writes the requeue entry, which minuteTasks takes up.
Requeue(h) ==
  /\ handler[h].at = "act"
  /\ handler[h].messageSendType \in {"QUIET_REQUEUE", "LIMIT_REQUEUE"}
  /\ Leaves(h, "release", FALSE)
  /\ UNCHANGED <<row, job, onward, counter, store, time, sent, messaged,
                 lapsed, endings>>

Unlock(c, mark, held) ==
  row' = [row EXCEPT ![c] = [messageSent |-> mark, held |-> held]]

\* Unlocked in the message step.
Release(h) ==
  LET held == handler[h].messageSendType = "LIMIT_HOLD" IN
  /\ handler[h].at = "release" \/ (handler[h].at = "act" /\ held)
  /\ Unlock(handler[h].customer, FALSE, held)
  /\ Leaves(h, "ack", FALSE)
  /\ UNCHANGED <<job, onward, counter, store, time, sent, messaged, lapsed,
                 endings>>

\* (Slip: the later steps get the location as the job had it.)
MoveOnUnmarked(h) ==
  /\ handler[h].at = "next"
  /\ \/ /\ Unlock(handler[h].customer, FALSE, FALSE)
        /\ UNCHANGED onward
     \/ /\ onward' = onward \cup {<<handler[h].customer, FALSE>>}
        /\ UNCHANGED row
  /\ Leaves(h, "ack", FALSE)
  /\ UNCHANGED <<job, counter, store, time, sent, messaged, lapsed, endings>>

\* The next step holds customers, or there is none; or its job is published.
MoveOn(h) ==
  LET c == handler[h].customer
      mark == handler[h].messageSent
  IN
  /\ handler[h].at = "next"
  /\ \/ Unlock(c, mark, FALSE) /\ UNCHANGED onward
     \/ onward' = onward \cup {<<c, mark>>} /\ UNCHANGED row
  /\ Leaves(h, "ack", FALSE)
  /\ UNCHANGED <<job, counter, store, time, sent, messaged, lapsed, endings>>

Acknowledge(h) ==
  /\ handler[h].at = "ack"
  /\ job' = [job EXCEPT ![handler[h].customer] = "ended"]
  /\ handler' = [handler EXCEPT ![h] = Idle]
  /\ UNCHANGED <<row, onward, counter, store, time, sent, messaged, lapsed,
                 endings>>

\* The processor has no retries.
Throws(h) ==
  /\ handler[h].at \notin {"idle", "ack"}
  /\ faults < MaxFaults
  /\ faults' = faults + 1
  /\ failed' = failed \cup {handler[h].customer}
  /\ job' = [job EXCEPT ![handler[h].customer] = "ended"]
  /\ handler' = [handler EXCEPT ![h] = Idle]
  /\ UNCHANGED <<row, onward, counter, store, time, sent, messaged, lapsed,
                 repeated>>

\* The process dies, and the job is delivered again as it was.
Dies(h) ==
  /\ handler[h].at # "idle"
  /\ faults < MaxFaults
  /\ faults' = faults + 1
  /\ repeated' = repeated \cup {handler[h].customer}
  /\ job' = [job EXCEPT ![handler[h].customer] = "queued"]
  /\ handler' = [handler EXCEPT ![h] = Idle]
  /\ UNCHANGED <<row, onward, counter, store, time, sent, messaged, lapsed,
                 failed>>

\* The move of a customer ends in a later step.
Arrive(j) ==
  /\ onward' = onward \ {j}
  /\ Unlock(j[1], j[2], FALSE)
  /\ UNCHANGED <<job, handler, counter, store, time, sent, messaged, lapsed,
                 endings>>

-----------------------------------------------------------------------------
(* TemplatesService.update, the cache's own expiry, and the clock.         *)

\* What a handler has loaded and not yet stored is overlapped by an update.
OverlapLoads ==
  handler' = [h \in Handlers |->
    IF handler[h].at = "store" THEN [handler[h] EXCEPT !.overlapped = TRUE]
                               ELSE handler[h]]

\* (Slip: the cache is not told.)
ClearTemplateForgotten ==
  /\ editor = "idle"
  /\ template < MaxUpdates
  /\ editor' = "cleared"
  /\ OverlapLoads
  /\ UNCHANGED <<row, job, onward, counter, template, cached, spoilt, time,
                 sent, messaged, lapsed, endings>>

\* (Slip: the new version is put into the cache before it is written.)
ClearTemplateFilled ==
  /\ editor = "idle"
  /\ template < MaxUpdates
  /\ editor' = "cleared"
  /\ cached' = template + 1
  /\ OverlapLoads
  /\ UNCHANGED <<row, job, onward, counter, template, spoilt, time, sent,
                 messaged, lapsed, endings>>

ClearTemplate ==
  /\ editor = "idle"
  /\ template < MaxUpdates
  /\ editor' = "cleared"
  /\ cached' = None
  /\ spoilt' = FALSE
  /\ OverlapLoads
  /\ UNCHANGED <<row, job, onward, counter, template, time, sent, messaged,
                 lapsed, endings>>

WriteTemplate ==
  /\ editor = "cleared"
  /\ editor' = "idle"
  /\ template' = template + 1
  /\ UNCHANGED <<row, job, onward, handler, counter, cached, spoilt, time,
                 sent, messaged, lapsed, endings>>

\* REDIS_CACHE_TTL
ExpireTemplate ==
  /\ cached # None
  /\ cached' = None
  /\ spoilt' = FALSE
  /\ UNCHANGED <<row, job, onward, handler, counter, template, editor, time,
                 sent, messaged, lapsed, endings>>

\* A minute has a key of its own, and the key expires.
Tick ==
  LET over == Minute(time + 1) # Minute(time)
      expires == counter # NoKey /\ time + 1 >= counter.since + Lifetime
  IN
  /\ time < Horizon
  /\ time' = time + 1
  /\ counter' = IF over \/ expires THEN NoKey ELSE counter
  /\ sent' = IF over THEN 0 ELSE sent
  /\ lapsed' = (~over /\ (lapsed \/ expires))
  /\ UNCHANGED <<row, job, onward, handler, store, messaged, endings>>

-----------------------------------------------------------------------------
Process(h) ==
  \/ CheckCustomers(h) \/ CheckMinute(h)
  \/ GetTemplate(h) \/ LoadTemplate(h) \/ StoreTemplate(h)
  \/ Send(h) \/ Increment(h) \/ Abort(h) \/ Requeue(h) \/ Release(h)
  \/ MoveOn(h) \/ Acknowledge(h)

Next ==
  \/ \E h \in Handlers :
       \/ \E c \in Customers : Begin(h, c)
       \/ Process(h) \/ Throws(h) \/ Dies(h)
  \/ \E j \in onward : Arrive(j)
  \/ ClearTemplate \/ WriteTemplate \/ ExpireTemplate
  \/ Tick

Spec == Init /\ [][Next]_vars

-----------------------------------------------------------------------------
(* Properties.                                                             *)

(***************************************************************************)
(* The rate is read, the message sent, and only then counted: how far a    *)
(* minute's messages may pass maxSendRate.  By as many as are handled at   *)
(* once, less one, and by those whose handlers end before they count; and  *)
(* a key that expires before its minute is over lets the rate begin anew,  *)
(* but not more often than once.                                           *)
(***************************************************************************)
RateKept ==
  sent <= (IF lapsed THEN 2 ELSE 1) * (MaxRate - 1 + Cardinality(Handlers))
            + faults

(***************************************************************************)
(* Nobody is held in the message step for the sake of the limit unless as  *)
(* many customers as it allows have been marked: no mark is taken back     *)
(* again, but that of a customer whose job is delivered a second time.     *)
(***************************************************************************)
HeldAtLimit ==
  \A c \in Customers :
    row[c].held => Cardinality(Marked \cup repeated) >= MaxCustomers

(***************************************************************************)
(* A message is written from the template as it was when its handler asked *)
(* for it, or from a newer one: an update that is done is heeded, but by   *)
(* those who find in the cache what was loaded while the template was      *)
(* being updated, until it is cleared or expires.                          *)
(***************************************************************************)
NewTemplate ==
  \A h \in Handlers :
    handler[h].at = "act" /\ ~handler[h].overlapped
      => handler[h].template >= handler[h].newest

(***************************************************************************)
(* Who has got a message is counted, or will be: the mark is with the      *)
(* handler or in the location of a job until it is in the row, and no      *)
(* unlock takes it back, whatever becomes of the jobs of others.           *)
(***************************************************************************)
Carried(c) ==
  \/ <<c, TRUE>> \in onward
  \/ \E h \in Handlers :
       /\ handler[h].customer = c
       /\ handler[h].at = "count" \/ handler[h].messageSent

MarksKept ==
  \A c \in messaged \ (repeated \cup failed) :
    row[c].messageSent \/ Carried(c)
=============================================================================
