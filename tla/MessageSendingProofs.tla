------------------------- MODULE MessageSendingProofs -------------------------
(***************************************************************************)
(* The limits of a message step, proved for any number of customers and    *)
(* handlers, any limits and any number of faults.                          *)
(***************************************************************************)
EXTENDS MessageSending, FiniteSetTheorems, TLAPS

-----------------------------------------------------------------------------
(* The inductive invariants.                                               *)

Busy(h) == handler[h].at # "idle"

HandlersOK ==
  \A h \in Handlers :
    /\ Busy(h) => handler[h].customer \in Customers
    /\ handler[h].template <= template

TypeInv == TypeOK /\ HandlersOK

\* Handlers that will send, unless they end before.
Sending(r) ==
  r.at \in {"template", "load", "store", "act"} /\ r.messageSendType = "SEND"

Senders == {h \in Handlers : Sending(handler[h])}

\* Handlers that have sent and not counted.
Uncounted == {h \in Handlers : handler[h].at = "count"}

\* How far a key may let the messages pass the rate, and how far the key that
\* has lapsed has.
Passed == MaxRate - 1 + Cardinality(Handlers)

Lost == IF lapsed THEN Passed ELSE 0

\* What went out has been counted, will be, or its handler has ended.
Accounted ==
  sent <= Lost + counter.value + Cardinality(Uncounted) + faults

\* Those who will send are within the bound already.
Bounded ==
  sent + Cardinality(Senders) <= Lost + Passed + faults

\* A key is of this minute, and one has lapsed only in the minute's last second.
KeyInMinute ==
  /\ counter # NoKey
       => counter.since <= time /\ Minute(counter.since) = Minute(time)
  /\ lapsed => Minute(time + 1) # Minute(time)

RateInv == TypeInv /\ Accounted /\ Bounded /\ KeyInMinute

\* What is cached or about to be is the template as it is, and no update is
\* under way, or it is known to have been loaded in the course of one.
Fresh ==
  /\ cached # None /\ ~spoilt => cached = template /\ editor = "idle"
  /\ \A h \in Handlers :
       handler[h].at = "store" /\ ~handler[h].overlapped
         => editor = "idle" /\ handler[h].template = template

\* What a handler has loaded itself is no older than it asked for.
LoadedNew ==
  \A h \in Handlers :
    handler[h].at = "store" => handler[h].template >= handler[h].newest

\* No handler asks for a version that is not written yet.
NewestKnown == \A h \in Handlers : handler[h].newest <= template

TemplateInv ==
  /\ TypeInv
  /\ NewestKnown
  /\ Fresh
  /\ LoadedNew
  /\ NewTemplate

\* Handler h has the job of c.
Has(h, c) == Busy(h) /\ handler[h].customer = c

\* It has the mark, or is about to set it.
Carries(h) == handler[h].at = "count" \/ handler[h].messageSent

\* A customer's mark has one place: its job, its handler, a later job, the row.
Untouched(c) ==
  /\ ~row[c].messageSent
  /\ \A b \in BOOLEAN : <<c, b>> \notin onward

Queued(c) ==
  job[c] = "queued" => /\ Untouched(c)
                       /\ c \notin messaged
                       /\ \A h \in Handlers : ~Has(h, c)

InHand(c) ==
  \A h \in Handlers : Has(h, c) =>
    /\ job[c] = "handled"
    /\ handler[h].messageSent => handler[h].at = "next"
    /\ handler[h].at # "ack" => Untouched(c)
    /\ handler[h].at # "ack" /\ c \in messaged => Carries(h)
    /\ \A g \in Handlers : Has(g, c) => g = h

Later(c) ==
  \A b \in BOOLEAN : <<c, b>> \in onward
    => /\ ~row[c].messageSent
       /\ <<c, ~b>> \notin onward
       /\ c \in messaged => b

Kept(c) ==
  c \in messaged \ failed =>
    \/ row[c].messageSent
    \/ <<c, TRUE>> \in onward
    \/ \E h \in Handlers : Has(h, c) /\ Carries(h)

PlaceOf(c) == Queued(c) /\ InHand(c) /\ Later(c) /\ Kept(c)

MarkInv == TypeInv /\ \A c \in Customers \ repeated : PlaceOf(c)

\* Who is to be held was found when the limit had been reached.
Reached == Cardinality(Marked \cup repeated) >= MaxCustomers

Holding ==
  \A h \in Handlers :
    handler[h].messageSendType = "LIMIT_HOLD" => Reached

LimitInv == MarkInv /\ HeldAtLimit /\ Holding

-----------------------------------------------------------------------------
(* What a step of a handler does to the handlers.                          *)

\* Only h moves, to a state of a handler.
Moves(h) ==
  /\ handler' \in [Handlers -> Handler]
  /\ \A g \in Handlers \ {h} : handler'[g] = handler[g]

\* A handler's new state replaces its old one.
LEMMA Replaced ==
  ASSUME TypeOK, NEW h \in Handlers, NEW r \in Handler,
         handler' = [handler EXCEPT ![h] = r]
  PROVE  Moves(h) /\ handler'[h] = r
BY DEF TypeOK, Moves

\* A handler that waits for jobs is as it was at first.
LEMMA IdleType ==
  /\ Idle \in Handler
  /\ Idle.at = "idle" /\ ~Idle.messageSent /\ Idle.messageSendType = "SEND"
  /\ Idle.customer = Nobody /\ Idle.template = None /\ Idle.newest = 0
  /\ ~Idle.overlapped
BY DEF Idle, Handler, Points, MessageSendType, None

\* With changes the point alone.
LEMMA WithFacts ==
  ASSUME TypeOK, NEW h \in Handlers, NEW point \in Points, With(h, point)
  PROVE  /\ Moves(h)
         /\ handler'[h].at = point
         /\ handler'[h].customer = handler[h].customer
         /\ handler'[h].messageSendType = handler[h].messageSendType
         /\ handler'[h].messageSent = handler[h].messageSent
         /\ handler'[h].template = handler[h].template
         /\ handler'[h].newest = handler[h].newest
<1> DEFINE r == [handler[h] EXCEPT !.at = point]
<1>1. handler[h] \in Handler
  BY DEF TypeOK
<1>2. r \in Handler
  BY <1>1 DEF Handler
<1>3. handler' = [handler EXCEPT ![h] = r]
  BY DEF With
<1>4. Moves(h) /\ handler'[h] = r
  BY <1>2, <1>3, Replaced
<1>5. /\ r.at = point
      /\ r.customer = handler[h].customer
      /\ r.messageSendType = handler[h].messageSendType
      /\ r.messageSent = handler[h].messageSent
      /\ r.template = handler[h].template
      /\ r.newest = handler[h].newest
  BY <1>1 DEF Handler
<1> QED BY <1>4, <1>5

\* Leaves keeps the customer alone.
LEMMA LeavesFacts ==
  ASSUME TypeOK, NEW h \in Handlers, NEW point \in Points,
         NEW mark \in BOOLEAN, Leaves(h, point, mark)
  PROVE  /\ Moves(h)
         /\ handler'[h].at = point
         /\ handler'[h].customer = handler[h].customer
         /\ handler'[h].messageSendType = "SEND"
         /\ handler'[h].messageSent = mark
         /\ handler'[h].template = None
         /\ handler'[h].newest = 0
<1> DEFINE r == [Idle EXCEPT !.at = point, !.messageSent = mark,
                             !.customer = handler[h].customer]
<1>1. handler[h] \in Handler
  BY DEF TypeOK
<1>2. r \in Handler
  BY <1>1, IdleType DEF Handler
<1>3. /\ r.at = point /\ r.customer = handler[h].customer
      /\ r.messageSendType = "SEND" /\ r.messageSent = mark
      /\ r.template = None /\ r.newest = 0
  BY IdleType DEF Handler
<1>4. handler' = [handler EXCEPT ![h] = r]
  BY DEF Leaves
<1>5. Moves(h) /\ handler'[h] = r
  BY <1>2, <1>4, Replaced
<1> QED BY <1>3, <1>5

\* The job ends and the handler waits again.
LEMMA IdleFacts ==
  ASSUME TypeOK, NEW h \in Handlers, handler' = [handler EXCEPT ![h] = Idle]
  PROVE  Moves(h) /\ handler'[h] = Idle /\ handler'[h].at = "idle"
         /\ ~handler'[h].messageSent /\ handler'[h].messageSendType = "SEND"
         /\ handler'[h].template = None /\ handler'[h].newest = 0
BY Replaced, IdleType

\* A job is taken.
LEMMA BeginFacts ==
  ASSUME TypeOK, NEW h \in Handlers, NEW c \in Customers, Begin(h, c)
  PROVE  /\ Moves(h)
         /\ handler'[h].at \in {"template", "customers"}
         /\ handler'[h].customer = c
         /\ handler'[h].messageSendType # "LIMIT_HOLD"
         /\ ~handler'[h].messageSent
         /\ ~Sending(handler'[h])
         /\ handler'[h].template = None
         /\ handler'[h].newest <= template
<1> USE SendingAssumption
<1>1. CASE Minute(time) \in QuietMinutes
  <2> DEFINE r == [Idle EXCEPT !.at = "template", !.customer = c,
                         !.messageSendType = Fallback, !.newest = template]
  <2>1. /\ r.at = "template" /\ r.customer = c /\ ~r.messageSent
        /\ r.messageSendType = Fallback /\ r.newest = template
        /\ r.template = None
    BY IdleType DEF Handler
  <2>2. r \in Handler
    BY IdleType DEF Handler, Points, MessageSendType, TypeOK
  <2>3. handler' = [handler EXCEPT ![h] = r]
    BY <1>1 DEF Begin
  <2>4. Moves(h) /\ handler'[h] = r
    BY <2>2, <2>3, Replaced
  <2> QED BY <2>1, <2>4 DEF Sending, TypeOK
<1>2. CASE Minute(time) \notin QuietMinutes
  <2> DEFINE r == [Idle EXCEPT !.at = "customers", !.customer = c]
  <2>1. /\ r.at = "customers" /\ r.customer = c /\ ~r.messageSent
        /\ r.messageSendType = "SEND" /\ r.newest = 0
        /\ r.template = None
    BY IdleType DEF Handler
  <2>2. r \in Handler
    BY IdleType DEF Handler, Points
  <2>3. handler' = [handler EXCEPT ![h] = r]
    BY <1>2 DEF Begin
  <2>4. Moves(h) /\ handler'[h] = r
    BY <2>2, <2>3, Replaced
  <2> QED BY <2>1, <2>4 DEF Sending, TypeOK
<1> QED BY <1>1, <1>2

\* The limits are looked at: the customer stays, and the type is decided.
LEMMA CheckFacts ==
  ASSUME TypeOK, NEW h \in Handlers, CheckCustomers(h) \/ CheckMinute(h)
  PROVE  /\ Moves(h)
         /\ handler[h].at \in {"customers", "minute"}
         /\ handler'[h].at \in {"template", "minute"}
         /\ handler'[h].customer = handler[h].customer
         /\ handler'[h].messageSent = handler[h].messageSent
         /\ handler'[h].template = handler[h].template
         /\ handler'[h].newest \in {handler[h].newest, template}
         /\ \/ handler'[h].messageSendType = handler[h].messageSendType
            \/ handler'[h].messageSendType = "LIMIT_HOLD" /\ CustomersLimited
            \/ handler'[h].messageSendType = "LIMIT_REQUEUE"
            \/ handler'[h].messageSendType = "SEND"
         /\ Sending(handler'[h]) => CheckMinute(h) /\ ~RateLimited
<1>1. handler[h] \in Handler /\ template \in Nat
  BY DEF TypeOK
<1>2. CASE CheckCustomers(h) /\ CustomersLimited
  <2> DEFINE r == [handler[h] EXCEPT !.at = "template", !.newest = template,
                               !.messageSendType = "LIMIT_HOLD"]
  <2>1. r \in Handler
    BY <1>1 DEF Handler, Points, MessageSendType
  <2>2. handler' = [handler EXCEPT ![h] = r]
    BY <1>2 DEF CheckCustomers
  <2>3. Moves(h) /\ handler'[h] = r
    BY <2>1, <2>2, Replaced
  <2>4. /\ r.at = "template" /\ r.customer = handler[h].customer
        /\ r.messageSendType = "LIMIT_HOLD" /\ r.newest = template
        /\ r.messageSent = handler[h].messageSent
        /\ r.template = handler[h].template
    BY <1>1 DEF Handler
  <2> QED BY <1>2, <2>3, <2>4 DEF CheckCustomers, Sending
<1>3. CASE CheckCustomers(h) /\ ~CustomersLimited
  <2> DEFINE r == [handler[h] EXCEPT !.at = "minute"]
  <2>1. r \in Handler
    BY <1>1 DEF Handler, Points
  <2>2. handler' = [handler EXCEPT ![h] = r]
    BY <1>3 DEF CheckCustomers
  <2>3. Moves(h) /\ handler'[h] = r
    BY <2>1, <2>2, Replaced
  <2>4. /\ r.at = "minute" /\ r.customer = handler[h].customer
        /\ r.messageSendType = handler[h].messageSendType
        /\ r.messageSent = handler[h].messageSent
        /\ r.template = handler[h].template
        /\ r.newest = handler[h].newest
    BY <1>1 DEF Handler
  <2> QED BY <1>3, <2>3, <2>4 DEF CheckCustomers, Sending
<1>4. CASE CheckMinute(h)
  <2> DEFINE type == IF RateLimited THEN "LIMIT_REQUEUE" ELSE "SEND"
             r == [handler[h] EXCEPT !.at = "template", !.newest = template,
                                     !.messageSendType = type]
  <2>1. r \in Handler
    BY <1>1 DEF Handler, Points, MessageSendType
  <2>2. handler' = [handler EXCEPT ![h] = r]
    BY <1>4 DEF CheckMinute
  <2>3. Moves(h) /\ handler'[h] = r
    BY <2>1, <2>2, Replaced
  <2>4. /\ r.at = "template" /\ r.customer = handler[h].customer
        /\ r.messageSendType = type /\ r.newest = template
        /\ r.messageSent = handler[h].messageSent
        /\ r.template = handler[h].template
    BY <1>1 DEF Handler
  <2> QED BY <1>4, <2>3, <2>4 DEF CheckMinute, Sending
<1> QED BY <1>2, <1>3, <1>4

\* The template is fetched: the customer and the type stay.
LEMMA FetchFacts ==
  ASSUME TypeOK, NEW h \in Handlers,
         GetTemplate(h) \/ LoadTemplate(h) \/ StoreTemplate(h)
  PROVE  /\ Moves(h)
         /\ handler[h].at \in {"template", "load", "store"}
         /\ handler'[h].at \in {"load", "store", "act"}
         /\ handler'[h].customer = handler[h].customer
         /\ handler'[h].messageSendType = handler[h].messageSendType
         /\ handler'[h].messageSent = handler[h].messageSent
         /\ handler'[h].newest = handler[h].newest
         /\ handler'[h].template \in {handler[h].template, template, cached}
         /\ handler'[h].at = "store"
              => LoadTemplate(h) /\ handler'[h].template = template
         /\ handler'[h].at = "store"
              => handler'[h].overlapped = (editor = "cleared")
         /\ handler'[h].at = "act"
              => \/ /\ GetTemplate(h) /\ cached # None
                    /\ handler'[h].template = cached
                    /\ handler'[h].overlapped = spoilt
                 \/ /\ StoreTemplate(h)
                    /\ handler'[h].template = handler[h].template
<1>1. /\ handler[h] \in Handler /\ template \in Nat
      /\ cached \in Nat \cup {None} /\ spoilt \in BOOLEAN
  BY DEF TypeOK
<1>2. CASE GetTemplate(h) /\ cached # None
  <2> DEFINE r == [handler[h] EXCEPT !.at = "act", !.template = cached,
                               !.overlapped = spoilt]
  <2>1. r \in Handler
    BY <1>1 DEF Handler, Points
  <2>2. handler' = [handler EXCEPT ![h] = r]
    BY <1>2 DEF GetTemplate
  <2>3. Moves(h) /\ handler'[h] = r
    BY <2>1, <2>2, Replaced
  <2>4. /\ r.at = "act" /\ r.customer = handler[h].customer
        /\ r.messageSendType = handler[h].messageSendType
        /\ r.messageSent = handler[h].messageSent
        /\ r.newest = handler[h].newest /\ r.template = cached
        /\ r.overlapped = spoilt
    BY <1>1 DEF Handler
  <2> QED BY <1>2, <2>3, <2>4 DEF GetTemplate
<1>3. CASE GetTemplate(h) /\ cached = None
  <2>1. With(h, "load") /\ handler[h].at = "template"
    BY <1>3 DEF GetTemplate
  <2> QED BY <2>1, WithFacts DEF Points
<1>4. CASE LoadTemplate(h)
  <2> DEFINE r == [handler[h] EXCEPT !.at = "store", !.template = template,
                               !.overlapped = (editor = "cleared")]
  <2>1. r \in Handler
    BY <1>1 DEF Handler, Points
  <2>2. handler' = [handler EXCEPT ![h] = r]
    BY <1>4 DEF LoadTemplate
  <2>3. Moves(h) /\ handler'[h] = r
    BY <2>1, <2>2, Replaced
  <2>4. /\ r.at = "store" /\ r.customer = handler[h].customer
        /\ r.messageSendType = handler[h].messageSendType
        /\ r.messageSent = handler[h].messageSent
        /\ r.newest = handler[h].newest /\ r.template = template
        /\ r.overlapped = (editor = "cleared")
    BY <1>1 DEF Handler
  <2> QED BY <1>4, <2>3, <2>4 DEF LoadTemplate
<1>5. CASE StoreTemplate(h)
  <2> DEFINE r == [handler[h] EXCEPT !.at = "act", !.overlapped = FALSE]
  <2>1. r \in Handler
    BY <1>1 DEF Handler, Points
  <2>2. handler' = [handler EXCEPT ![h] = r]
    BY <1>5 DEF StoreTemplate
  <2>3. Moves(h) /\ handler'[h] = r
    BY <2>1, <2>2, Replaced
  <2>4. /\ r.at = "act" /\ r.customer = handler[h].customer
        /\ r.messageSendType = handler[h].messageSendType
        /\ r.messageSent = handler[h].messageSent
        /\ r.newest = handler[h].newest
        /\ r.template = handler[h].template
    BY <1>1 DEF Handler
  <2> QED BY <1>5, <2>3, <2>4 DEF StoreTemplate
<1> QED BY <1>2, <1>3, <1>4, <1>5
\* Where the remaining steps lead.
LEMMA AfterFacts ==
  ASSUME TypeInv, NEW h \in Handlers,
         \/ Send(h) \/ Increment(h) \/ Abort(h) \/ Requeue(h)
         \/ Release(h) \/ MoveOn(h)
  PROVE  /\ Moves(h)
         /\ handler[h].at \notin {"idle", "ack"}
         /\ handler[h].customer \in Customers
         /\ handler'[h].customer = handler[h].customer
         /\ handler'[h].at \in {"count", "next", "release", "ack"}
         /\ handler'[h].messageSendType = "SEND"
         /\ handler'[h].messageSent => Increment(h)
         /\ handler'[h].at = "count" => Send(h)
         /\ handler'[h].at = "next" => Increment(h) \/ Abort(h)
         /\ handler'[h].template = None /\ handler'[h].newest = 0
<1>1. TypeOK
  BY DEF TypeInv
<1>2. \E point \in {"count", "next", "release", "ack"}, mark \in BOOLEAN :
        /\ Leaves(h, point, mark)
        /\ mark => Increment(h)
        /\ point = "count" => Send(h)
        /\ point = "next" => Increment(h) \/ Abort(h)
  BY DEF Send, Increment, Abort, Requeue, Release, MoveOn
<1>3. handler[h].at \notin {"idle", "ack"}
  BY DEF Send, Increment, Abort, Requeue, Release, MoveOn
<1>4. handler[h].customer \in Customers
  BY <1>3 DEF TypeInv, HandlersOK, Busy
<1> QED BY <1>1, <1>2, <1>3, <1>4, LeavesFacts DEF Points

\* The mark comes to the row, or to the job of a later step.
Moved(h, c, mark) ==
  /\ handler[h].at = "next"
  /\ handler[h].customer = c
  /\ handler[h].messageSent = mark
  /\ \/ Unlock(c, mark, FALSE) /\ UNCHANGED onward
     \/ onward' = onward \cup {<<c, mark>>} /\ UNCHANGED row
  /\ UNCHANGED <<job, counter, store, time, sent, messaged, lapsed, endings>>

\* An update marks what is loaded, and no more.
LEMMA OverlapFacts ==
  ASSUME TypeOK, OverlapLoads
  PROVE  /\ handler' \in [Handlers -> Handler]
         /\ \A h \in Handlers :
              /\ handler'[h].at = handler[h].at
              /\ handler'[h].customer = handler[h].customer
              /\ handler'[h].messageSendType = handler[h].messageSendType
              /\ handler'[h].messageSent = handler[h].messageSent
              /\ handler'[h].template = handler[h].template
              /\ handler'[h].newest = handler[h].newest
              /\ handler'[h].overlapped
                   = (handler[h].overlapped \/ handler[h].at = "store")
<1>1. \A h \in Handlers : handler[h] \in Handler
  BY DEF TypeOK
<1>2. ASSUME NEW h \in Handlers
      PROVE  /\ handler'[h] \in Handler
             /\ handler'[h].at = handler[h].at
             /\ handler'[h].customer = handler[h].customer
             /\ handler'[h].messageSendType = handler[h].messageSendType
             /\ handler'[h].messageSent = handler[h].messageSent
             /\ handler'[h].template = handler[h].template
             /\ handler'[h].newest = handler[h].newest
             /\ handler'[h].overlapped
                  = (handler[h].overlapped \/ handler[h].at = "store")
  <2> DEFINE r == [handler[h] EXCEPT !.overlapped = TRUE]
  <2>1. r \in Handler /\ r.overlapped = TRUE
        /\ r.at = handler[h].at /\ r.customer = handler[h].customer
        /\ r.messageSendType = handler[h].messageSendType
        /\ r.messageSent = handler[h].messageSent
        /\ r.template = handler[h].template /\ r.newest = handler[h].newest
    BY <1>1 DEF Handler
  <2>2. handler'[h] = IF handler[h].at = "store" THEN r ELSE handler[h]
    BY DEF OverlapLoads
  <2> HIDE DEF r
  <2>3. handler[h].overlapped \in BOOLEAN
    BY <1>1 DEF Handler
  <2>4. CASE handler[h].at = "store"
    BY <2>1, <2>2, <2>4
  <2>5. CASE handler[h].at # "store"
    BY <1>1, <2>2, <2>3, <2>5
  <2> QED BY <2>4, <2>5
<1>3. handler' \in [Handlers -> Handler]
  <2>1. /\ DOMAIN handler' = Handlers
        /\ handler' = [h \in Handlers |-> handler'[h]]
    BY DEF OverlapLoads
  <2> QED BY <1>2, <2>1
<1> QED BY <1>2, <1>3

\* What MoveOn does, in the cases the proofs tell apart.
LEMMA MoveFacts ==
  ASSUME TypeInv, NEW h \in Handlers, MoveOn(h)
  PROVE  \E c \in Customers, mark \in BOOLEAN : Moved(h, c, mark)
<1>1. handler[h].messageSent \in BOOLEAN
  BY DEF TypeInv, TypeOK, Handler
<1>2. handler[h].customer \in Customers
  BY AfterFacts
<1>3. Moved(h, handler[h].customer, handler[h].messageSent)
  BY DEF MoveOn, Moved
<1> QED BY <1>1, <1>2, <1>3

-----------------------------------------------------------------------------
(* Type correctness.                                                       *)

\* A step of one handler leaves all of them in order.
LEMMA HandlersStay ==
  ASSUME TypeInv, NEW h \in Handlers, Moves(h), UNCHANGED template,
         handler'[h].at # "idle" => handler'[h].customer \in Customers,
         handler'[h].template <= template
  PROVE  handler' \in [Handlers -> Handler] /\ HandlersOK'
BY DEF TypeInv, HandlersOK, Moves, Busy

\* What goes out is counted.
LEMMA SendType ==
  ASSUME TypeOK, NEW c \in Customers, GoesOut(c)
  PROVE  sent' \in Nat /\ messaged' \subseteq Customers
BY DEF GoesOut, TypeOK

\* An unlock writes one row.
LEMMA UnlockType ==
  ASSUME TypeOK, NEW c \in Customers, NEW mark \in BOOLEAN,
         NEW held \in BOOLEAN, Unlock(c, mark, held)
  PROVE  /\ row' \in [Customers -> [messageSent : BOOLEAN, held : BOOLEAN]]
         /\ row'[c].messageSent = mark /\ row'[c].held = held
         /\ \A d \in Customers \ {c} : row'[d] = row[d]
BY DEF Unlock, TypeOK

\* The type invariant is inductive.
LEMMA TypeStep == TypeInv /\ [Next]_vars => TypeInv'
<1> SUFFICES ASSUME TypeInv, [Next]_vars PROVE TypeInv'
  OBVIOUS
<1> USE SendingAssumption
<1>1. TypeOK
  BY DEF TypeInv
<1>2. ASSUME NEW h \in Handlers, NEW c \in Customers, Begin(h, c)
      PROVE  TypeInv'
  <2>1. handler' \in [Handlers -> Handler] /\ HandlersOK'
    <3>1. None <= template /\ UNCHANGED template
      BY <1>1, <1>2 DEF TypeOK, None, Begin, store
    <3> QED BY <1>1, <1>2, <3>1, BeginFacts, HandlersStay
  <2>2. job' \in [Customers -> {"queued", "handled", "ended"}]
    BY <1>1, <1>2 DEF Begin, TypeOK
  <2> QED BY <1>1, <1>2, <2>1, <2>2 DEF Begin, TypeInv, TypeOK, store, endings
<1>3. ASSUME NEW h \in Handlers, CheckCustomers(h) \/ CheckMinute(h)
      PROVE  TypeInv'
  <2>1. /\ handler[h].customer \in Customers
        /\ handler[h].template <= template /\ UNCHANGED template
    BY <1>1, <1>3, CheckFacts
       DEF TypeInv, HandlersOK, Busy, CheckCustomers, CheckMinute, store
  <2>2. handler' \in [Handlers -> Handler] /\ HandlersOK'
    BY <1>1, <1>3, <2>1, CheckFacts, HandlersStay
  <2> QED BY <1>1, <1>3, <2>2
          DEF CheckCustomers, CheckMinute, TypeInv, TypeOK, store, endings
<1>4. ASSUME NEW h \in Handlers,
             GetTemplate(h) \/ LoadTemplate(h) \/ StoreTemplate(h)
      PROVE  TypeInv'
  <2>1. /\ handler[h].customer \in Customers
        /\ handler[h].template <= template /\ UNCHANGED template
        /\ cached <= template /\ template <= template
    <3>1. /\ handler[h].customer \in Customers
          /\ handler[h].template <= template
      BY <1>1, <1>4, FetchFacts DEF TypeInv, HandlersOK, Busy
    <3>2. UNCHANGED template
      BY <1>4 DEF GetTemplate, LoadTemplate, StoreTemplate, store
    <3>3. cached <= template /\ template <= template
      BY <1>1 DEF TypeOK
    <3> QED BY <3>1, <3>2, <3>3
  <2>2. handler' \in [Handlers -> Handler] /\ HandlersOK'
    BY <1>1, <1>4, <2>1, FetchFacts, HandlersStay
  <2>3. CASE StoreTemplate(h)
    <3>1. /\ handler[h].template \in Nat \cup {None}
          /\ handler[h].template <= template
      BY <1>1, <2>3 DEF TypeInv, TypeOK, HandlersOK, Handler, StoreTemplate
    <3> QED BY <1>1, <2>2, <2>3, <3>1
            DEF StoreTemplate, TypeInv, TypeOK, Handler, endings
  <2>4. CASE GetTemplate(h)
    BY <1>1, <2>2, <2>4 DEF GetTemplate, TypeInv, TypeOK, store, endings
  <2>5. CASE LoadTemplate(h)
    BY <1>1, <2>2, <2>5 DEF LoadTemplate, TypeInv, TypeOK, store, endings
  <2> QED BY <1>4, <2>3, <2>4, <2>5
<1>5. ASSUME NEW h \in Handlers,
             \/ Send(h) \/ Increment(h) \/ Abort(h) \/ Requeue(h)
             \/ Release(h) \/ MoveOn(h)
      PROVE  TypeInv'
  <2>1. handler[h].customer \in Customers
    BY <1>5, AfterFacts
  <2>9. None <= template /\ UNCHANGED template
    <3>1. None <= template
      BY <1>1 DEF TypeOK, None
    <3>2. UNCHANGED template
      BY <1>5 DEF Send, Increment, Abort, Requeue, Release, MoveOn, store
    <3> QED BY <3>1, <3>2
  <2>2. handler' \in [Handlers -> Handler] /\ HandlersOK'
    BY <1>5, <2>1, <2>9, AfterFacts, HandlersStay
  <2>3. CASE Send(h)
    <3>1. sent' \in Nat /\ messaged' \subseteq Customers
      BY <1>1, <2>1, <2>3, SendType DEF Send
    <3> QED BY <1>1, <2>2, <2>3, <3>1
            DEF Send, TypeInv, TypeOK, store, endings
  <2>4. CASE Increment(h)
    <3>1. counter' \in [value : Nat, since : Nat]
      BY <1>1, <2>4 DEF Increment, TypeOK
    <3> QED BY <1>1, <2>2, <2>4, <3>1
            DEF Increment, TypeInv, TypeOK, store, endings
  <2>5. CASE Abort(h)
    BY <1>1, <2>2, <2>5 DEF Abort, TypeInv, TypeOK, store, endings
  <2>6. CASE Requeue(h)
    BY <1>1, <2>2, <2>6 DEF Requeue, TypeInv, TypeOK, store, endings
  <2>7. CASE Release(h)
    <3>1. row' \in [Customers -> [messageSent : BOOLEAN, held : BOOLEAN]]
      BY <1>1, <2>1, <2>7, UnlockType DEF Release
    <3> QED BY <1>1, <2>2, <2>7, <3>1
            DEF Release, TypeInv, TypeOK, store, endings
  <2>8. CASE MoveOn(h)
    <3>1. PICK c \in Customers, mark \in BOOLEAN : Moved(h, c, mark)
      BY <2>8, MoveFacts
    <3>2. <<c, mark>> \in Customers \X BOOLEAN
      OBVIOUS
    <3>3. row' \in [Customers -> [messageSent : BOOLEAN, held : BOOLEAN]]
      BY <1>1, <3>1, UnlockType DEF Moved, TypeOK
    <3>4. onward' \subseteq Customers \X BOOLEAN
      BY <1>1, <3>1, <3>2 DEF Moved, Unlock, TypeOK
    <3> QED BY <1>1, <2>2, <2>8, <3>3, <3>4
            DEF MoveOn, TypeInv, TypeOK, store, endings
  <2> QED BY <1>5, <2>3, <2>4, <2>5, <2>6, <2>7, <2>8
<1>6. ASSUME NEW h \in Handlers, Acknowledge(h) \/ Throws(h) \/ Dies(h)
      PROVE  TypeInv'
  <2>1. handler' = [handler EXCEPT ![h] = Idle]
    BY <1>6 DEF Acknowledge, Throws, Dies
  <2>9. None <= template /\ UNCHANGED template
    BY <1>1, <1>6 DEF TypeOK, None, Acknowledge, Throws, Dies, store
  <2>2. handler' \in [Handlers -> Handler] /\ HandlersOK'
    BY <1>1, <2>1, <2>9, IdleFacts, HandlersStay
  <2>3. CASE Acknowledge(h)
    BY <1>1, <2>2, <2>3 DEF Acknowledge, TypeInv, TypeOK, store, endings
  <2>4. CASE Throws(h)
    <3>1. handler[h].customer \in Customers /\ faults' \in 0..MaxFaults
      BY <1>1, <2>4 DEF Throws, TypeInv, HandlersOK, Busy, TypeOK
    <3> QED BY <1>1, <2>2, <2>4, <3>1
            DEF Throws, TypeInv, TypeOK, store, endings
  <2>5. CASE Dies(h)
    <3>1. handler[h].customer \in Customers /\ faults' \in 0..MaxFaults
      BY <1>1, <2>5 DEF Dies, TypeInv, HandlersOK, Busy, TypeOK
    <3> QED BY <1>1, <2>2, <2>5, <3>1
            DEF Dies, TypeInv, TypeOK, store, endings
  <2> QED BY <1>6, <2>3, <2>4, <2>5
<1>7. ASSUME NEW j \in onward, Arrive(j) PROVE TypeInv'
  <2>1. j[1] \in Customers /\ j[2] \in BOOLEAN
    BY <1>1 DEF TypeOK
  <2>2. row' \in [Customers -> [messageSent : BOOLEAN, held : BOOLEAN]]
    BY <1>1, <1>7, <2>1, UnlockType DEF Arrive
  <2> QED BY <1>1, <1>7, <2>2
          DEF Arrive, TypeInv, TypeOK, HandlersOK, Busy, store, endings
<1>8. CASE ClearTemplate
  <2>1. handler' \in [Handlers -> Handler] /\ HandlersOK'
    BY <1>1, <1>8, OverlapFacts DEF ClearTemplate, TypeInv, HandlersOK, Busy
  <2>2. cached' \in Nat \cup {None} /\ cached' <= template
    BY <1>1, <1>8 DEF ClearTemplate, TypeOK, None
  <2> QED BY <1>1, <1>8, <2>1, <2>2
          DEF ClearTemplate, TypeInv, TypeOK, endings
<1>9. CASE WriteTemplate
  <2>1. template' \in Nat /\ cached' <= template'
    BY <1>1, <1>9 DEF WriteTemplate, TypeOK, None
  <2>2. \A h \in Handlers : handler[h].template \in Nat \cup {None}
    BY <1>1 DEF TypeOK, Handler
  <2>3. UNCHANGED handler /\ template' = template + 1 /\ template \in Nat
    BY <1>1, <1>9 DEF WriteTemplate, TypeOK
  <2>4. HandlersOK'
    BY <2>2, <2>3 DEF HandlersOK, TypeInv, Busy, None
  <2> QED BY <1>1, <1>9, <2>1, <2>4
          DEF WriteTemplate, TypeInv, TypeOK, endings
<1>10. CASE ExpireTemplate
  <2>1. cached' \in Nat \cup {None} /\ cached' <= template
    BY <1>1, <1>10 DEF ExpireTemplate, TypeOK, None
  <2> QED BY <1>1, <1>10, <2>1
          DEF ExpireTemplate, TypeInv, TypeOK, HandlersOK, Busy, endings
<1>11. CASE Tick
  <2>1. counter' \in [value : Nat, since : Nat] /\ sent' \in Nat
    BY <1>1, <1>11 DEF Tick, TypeOK, NoKey
  <2>2. time' \in 0..Horizon /\ lapsed' \in BOOLEAN
    BY <1>1, <1>11 DEF Tick, TypeOK
  <2> QED BY <1>1, <1>11, <2>1, <2>2
          DEF Tick, TypeInv, TypeOK, HandlersOK, Busy, store, endings
<1>12. CASE UNCHANGED vars
  BY <1>1, <1>12 DEF vars, TypeInv, TypeOK, HandlersOK, Busy, store, endings
<1> QED BY <1>2, <1>3, <1>4, <1>5, <1>6, <1>7, <1>8, <1>9, <1>10, <1>11, <1>12
        DEF Next, Process

\* The shape holds at the start.
LEMMA TypeInit == Init => TypeInv
<1> SUFFICES ASSUME Init PROVE TypeInv
  OBVIOUS
<1> USE SendingAssumption
<1>1. handler \in [Handlers -> Handler]
  <2>1. Idle \in Handler
    BY IdleType
  <2>2. handler = [h \in Handlers |-> Idle]
    BY DEF Init
  <2> QED BY <2>1, <2>2
<1>2. TypeOK
  <2>1. /\ cached \in Nat \cup {None} /\ cached <= template
        /\ time \in 0..Horizon /\ faults \in 0..MaxFaults
        /\ counter \in [value : Nat, since : Nat]
    BY DEF Init, NoKey, None
  <2>2. row \in [Customers -> [messageSent : BOOLEAN, held : BOOLEAN]]
    BY DEF Init
  <2>3. job \in [Customers -> {"queued", "handled", "ended"}]
    BY DEF Init
  <2> QED BY <1>1, <2>1, <2>2, <2>3 DEF Init, TypeOK
<1>3. HandlersOK
  BY IdleType DEF Init, HandlersOK, Busy, None
<1> QED BY <1>2, <1>3 DEF TypeInv

\* The state of the message step keeps its shape, and no more than MaxFaults
\* handlers are lost.
THEOREM SendingType == Spec => []TypeOK
<1>1. TypeInv => TypeOK
  BY DEF TypeInv
<1> QED BY <1>1, TypeInit, TypeStep, PTL DEF Spec

-----------------------------------------------------------------------------
(* The rate of a minute.                                                   *)

\* The sets whose sizes matter.
LEMMA Sizes ==
  /\ IsFiniteSet(Handlers) /\ Cardinality(Handlers) \in Nat
  /\ IsFiniteSet(Senders) /\ Cardinality(Senders) \in Nat
  /\ IsFiniteSet(Uncounted) /\ Cardinality(Uncounted) \in Nat
  /\ Cardinality(Senders) <= Cardinality(Handlers)
<1>1. Senders \in SUBSET Handlers /\ Uncounted \in SUBSET Handlers
  BY DEF Senders, Uncounted
<1> QED BY <1>1, SendingAssumption, FS_Subset, FS_CardinalityType

\* A handler that sends has not sent yet.
LEMMA Apart ==
  Cardinality(Senders) + Cardinality(Uncounted) <= Cardinality(Handlers)
<1>1. Senders \cap Uncounted = {}
  BY DEF Senders, Uncounted, Sending
<1>2. Senders \cup Uncounted \in SUBSET Handlers
  BY DEF Senders, Uncounted
<1>3. Cardinality(Senders \cup Uncounted) <= Cardinality(Handlers)
  BY <1>2, SendingAssumption, FS_Subset
<1>4. Cardinality(Senders \cup Uncounted)
        = Cardinality(Senders) + Cardinality(Uncounted)
           - Cardinality(Senders \cap Uncounted)
  BY Sizes, FS_Union
<1> QED BY <1>1, <1>3, <1>4, FS_EmptySet, Sizes

\* What one handler's step does to the sets.
LEMMA Counted ==
  ASSUME NEW h \in Handlers, Moves(h)
  PROVE  /\ Senders' = IF Sending(handler'[h]) THEN Senders \cup {h}
                       ELSE Senders \ {h}
         /\ Uncounted' = IF handler'[h].at = "count" THEN Uncounted \cup {h}
                         ELSE Uncounted \ {h}
<1>1. \A g \in Handlers : g # h => handler'[g] = handler[g]
  BY DEF Moves
<1>2. /\ Senders' = {g \in Handlers : Sending(handler'[g])}
      /\ Uncounted' = {g \in Handlers : handler'[g].at = "count"}
  BY DEF Senders, Uncounted, Sending
<1>3. /\ h \in Senders' <=> Sending(handler'[h])
      /\ h \in Uncounted' <=> handler'[h].at = "count"
  BY <1>2
<1>4. \A g \in Handlers : g # h
        => (g \in Senders' <=> g \in Senders)
             /\ (g \in Uncounted' <=> g \in Uncounted)
  BY <1>1, <1>2 DEF Senders, Uncounted
<1>5. /\ Senders \subseteq Handlers /\ Senders' \subseteq Handlers
      /\ Uncounted \subseteq Handlers /\ Uncounted' \subseteq Handlers
  BY <1>2 DEF Senders, Uncounted
<1>6. Senders' = IF Sending(handler'[h]) THEN Senders \cup {h}
                 ELSE Senders \ {h}
  BY <1>3, <1>4, <1>5
<1>7. Uncounted' = IF handler'[h].at = "count" THEN Uncounted \cup {h}
                   ELSE Uncounted \ {h}
  BY <1>3, <1>4, <1>5
<1> QED BY <1>6, <1>7

\* The sizes of the sets after a handler's step.
LEMMA CountedSizes ==
  ASSUME NEW h \in Handlers, Moves(h)
  PROVE  /\ Sending(handler'[h]) \/ ~Sending(handler[h])
              => Cardinality(Senders') <= Cardinality(Senders) + 1
         /\ ~Sending(handler'[h])
              => Cardinality(Senders')
                   = IF Sending(handler[h]) THEN Cardinality(Senders) - 1
                     ELSE Cardinality(Senders)
         /\ Sending(handler'[h]) /\ Sending(handler[h])
              => Cardinality(Senders') = Cardinality(Senders)
         /\ handler'[h].at = "count" /\ handler[h].at # "count"
              => Cardinality(Uncounted') = Cardinality(Uncounted) + 1
         /\ handler'[h].at # "count"
              => Cardinality(Uncounted')
                   = IF handler[h].at = "count" THEN Cardinality(Uncounted) - 1
                     ELSE Cardinality(Uncounted)
<1>1. h \in Senders <=> Sending(handler[h])
  BY DEF Senders
<1>2. h \in Uncounted <=> handler[h].at = "count"
  BY DEF Uncounted
<1>3. /\ Cardinality(Senders \cup {h}) = IF h \in Senders
                                          THEN Cardinality(Senders)
                                          ELSE Cardinality(Senders) + 1
      /\ Cardinality(Senders \ {h}) = IF h \in Senders
                                       THEN Cardinality(Senders) - 1
                                       ELSE Cardinality(Senders)
  BY Sizes, FS_AddElement, FS_RemoveElement
<1>4. /\ Cardinality(Uncounted \cup {h}) = IF h \in Uncounted
                                            THEN Cardinality(Uncounted)
                                            ELSE Cardinality(Uncounted) + 1
      /\ Cardinality(Uncounted \ {h}) = IF h \in Uncounted
                                         THEN Cardinality(Uncounted) - 1
                                         ELSE Cardinality(Uncounted)
  BY Sizes, FS_AddElement, FS_RemoveElement
<1>5. /\ Sending(handler'[h]) \/ ~Sending(handler[h])
           => Cardinality(Senders') <= Cardinality(Senders) + 1
      /\ ~Sending(handler'[h])
           => Cardinality(Senders')
                = IF Sending(handler[h]) THEN Cardinality(Senders) - 1
                  ELSE Cardinality(Senders)
      /\ Sending(handler'[h]) /\ Sending(handler[h])
           => Cardinality(Senders') = Cardinality(Senders)
  <2>1. /\ Sending(handler'[h]) => Senders' = Senders \cup {h}
        /\ ~Sending(handler'[h]) => Senders' = Senders \ {h}
    BY Counted, Zenon
  <2>2. h \in Senders' <=> Sending(handler'[h])
    BY <2>1, Zenon
  <2>3. /\ h \in Senders' => Senders' = Senders \cup {h}
        /\ h \notin Senders' => Senders' = Senders \ {h}
    BY <2>1, <2>2, Zenon
  <2>4. /\ h \in Senders' \/ h \notin Senders
             => Cardinality(Senders') <= Cardinality(Senders) + 1
        /\ h \notin Senders'
             => Cardinality(Senders')
                  = IF h \in Senders THEN Cardinality(Senders) - 1
                    ELSE Cardinality(Senders)
        /\ h \in Senders' /\ h \in Senders
             => Cardinality(Senders') = Cardinality(Senders)
    <3>1. Cardinality(Senders) \in Nat
      BY Sizes
    <3>2. CASE h \in Senders'
      BY <1>3, <2>3, <3>1, <3>2
    <3>3. CASE h \notin Senders'
      BY <1>3, <2>3, <3>1, <3>3
    <3> QED BY <3>2, <3>3
  <2> QED BY <1>1, <2>2, <2>4, Zenon
<1>6. /\ handler'[h].at = "count" /\ handler[h].at # "count"
           => Cardinality(Uncounted') = Cardinality(Uncounted) + 1
      /\ handler'[h].at # "count"
           => Cardinality(Uncounted')
                = IF handler[h].at = "count" THEN Cardinality(Uncounted) - 1
                  ELSE Cardinality(Uncounted)
  BY <1>2, <1>4, Counted
<1> QED BY <1>5, <1>6

\* As long as nothing goes out and no key is lost, the bounds stay.
LEMMA RateStays ==
  ASSUME RateInv, Sizes', TypeInv',
         UNCHANGED <<time, counter, lapsed, sent>>,
         Cardinality(Uncounted') + faults' >= Cardinality(Uncounted) + faults,
         Cardinality(Senders') <= Cardinality(Senders),
         faults' >= faults
  PROVE  RateInv'
<1>1. /\ sent \in Nat /\ faults \in Nat /\ faults' \in Nat
      /\ counter.value \in Nat
  BY DEF RateInv, TypeInv, TypeOK
<1>2. /\ Passed \in Nat /\ Lost \in Nat /\ Passed' = Passed /\ Lost' = Lost
      /\ Cardinality(Senders) \in Nat /\ Cardinality(Senders') \in Nat
      /\ Cardinality(Uncounted) \in Nat /\ Cardinality(Uncounted') \in Nat
  BY Sizes, SendingAssumption DEF Passed, Lost
<1>3. Accounted'
  BY <1>1, <1>2 DEF RateInv, Accounted
<1>4. Bounded'
  BY <1>1, <1>2 DEF RateInv, Bounded
<1>5. KeyInMinute'
  BY DEF RateInv, KeyInMinute
<1> QED BY <1>3, <1>4, <1>5 DEF RateInv

\* A key that expires in its minute does so in the last second of it.
LEMMA ExpiresLast ==
  ASSUME NEW u \in Nat, NEW t \in Nat,
         Minute(u) = Minute(t), t >= u + Lifetime
  PROVE  Minute(t + 1) # Minute(t)
BY SendingAssumption DEF Minute, Lifetime

\* The clock: a new minute begins with nothing sent, and in the course of one
\* the key lapses once at most.
LEMMA RateTick == RateInv /\ TypeInv' /\ Tick => RateInv'
<1> SUFFICES ASSUME RateInv, TypeInv', Tick PROVE RateInv'
  OBVIOUS
<1> DEFINE over == Minute(time + 1) # Minute(time)
           expires == counter # NoKey /\ time + 1 >= counter.since + Lifetime
<1>1. UNCHANGED <<handler, faults>> /\ time' = time + 1
  BY DEF Tick, endings
<1>2. Senders' = Senders /\ Uncounted' = Uncounted
  BY <1>1 DEF Senders, Uncounted, Sending
<1>3. /\ sent \in Nat /\ faults \in Nat /\ time \in Nat
      /\ counter.value \in Nat /\ counter.since \in Nat
      /\ NoKey.value = 0
  BY DEF RateInv, TypeInv, TypeOK, NoKey
<1>4. /\ Passed \in Nat /\ Passed' = Passed
      /\ Cardinality(Senders) \in Nat /\ Cardinality(Uncounted) \in Nat
      /\ Cardinality(Senders) <= Passed
  BY Sizes, SendingAssumption DEF Passed
<1>5. CASE over
  <2>1. sent' = 0 /\ lapsed' = FALSE /\ counter' = NoKey
    BY <1>5 DEF Tick
  <2>2. Accounted' /\ Bounded'
    BY <1>1, <1>2, <1>3, <1>4, <2>1 DEF Accounted, Bounded, Lost
  <2>3. KeyInMinute'
    BY <2>1 DEF KeyInMinute
  <2> QED BY <2>2, <2>3 DEF RateInv
<1>6. CASE ~over
  <2>1. ~lapsed /\ sent' = sent
    BY <1>6 DEF RateInv, KeyInMinute, Tick
  <2>2. CASE expires
    <3>1. lapsed' = TRUE /\ counter' = NoKey
      BY <1>6, <2>2 DEF Tick
    <3>2. Accounted' /\ Bounded'
      BY <1>1, <1>2, <1>3, <1>4, <2>1, <3>1
         DEF RateInv, Accounted, Bounded, Lost
    <3>3. Minute(time + 1 + 1) # Minute(time + 1)
      <4>1. Minute(counter.since) = Minute(time + 1)
        BY <1>6, <2>2 DEF RateInv, KeyInMinute
      <4> QED BY <1>3, <2>2, <4>1, ExpiresLast
    <3>4. KeyInMinute'
      BY <1>1, <3>1, <3>3 DEF KeyInMinute
    <3> QED BY <3>2, <3>4 DEF RateInv
  <2>3. CASE ~expires
    <3>1. lapsed' = FALSE /\ counter' = counter
      BY <1>6, <2>1, <2>3 DEF Tick
    <3>2. Accounted' /\ Bounded'
      BY <1>1, <1>2, <1>3, <1>4, <2>1, <3>1
         DEF RateInv, Accounted, Bounded, Lost
    <3>3. KeyInMinute'
      BY <1>1, <1>3, <1>6, <3>1 DEF RateInv, KeyInMinute
    <3> QED BY <3>2, <3>3 DEF RateInv
  <2> QED BY <2>2, <2>3
<1> QED BY <1>5, <1>6

\* A check that passes: those who will send, and those who have not counted,
\* are different handlers, and the counter is below the rate.
LEMMA RatePassed ==
  ASSUME RateInv, TypeInv', NEW h \in Handlers, CheckMinute(h), ~RateLimited
  PROVE  RateInv'
<1>1. UNCHANGED <<time, counter, sent, lapsed, faults>>
  BY DEF CheckMinute, endings
<1>2. Moves(h) /\ handler[h].at = "minute" /\ handler'[h].at # "count"
  BY CheckFacts DEF RateInv, TypeInv, CheckMinute
<1>3. Sizes' /\ Apart'
  BY Sizes, Apart, PTL
<1>4. Cardinality(Uncounted') = Cardinality(Uncounted)
  BY <1>2, CountedSizes
<1>5. /\ sent \in Nat /\ faults \in Nat /\ counter.value \in Nat
  BY DEF RateInv, TypeInv, TypeOK
<1>6. counter.value <= MaxRate - 1
  BY <1>5, SendingAssumption DEF RateLimited
<1>7. /\ Cardinality(Handlers) \in Nat /\ MaxRate \in Nat
      /\ Cardinality(Senders') \in Nat /\ Cardinality(Uncounted') \in Nat
      /\ Cardinality(Senders') + Cardinality(Uncounted')
           <= Cardinality(Handlers)
      /\ Passed = MaxRate - 1 + Cardinality(Handlers) /\ Passed' = Passed
      /\ Lost \in Int /\ Lost' = Lost
  BY <1>1, <1>3, SendingAssumption, Sizes DEF Apart, Passed, Lost
<1>8. Accounted'
  BY <1>1, <1>4, <1>7 DEF RateInv, Accounted
<1>9. Bounded'
  BY <1>1, <1>4, <1>5, <1>6, <1>7 DEF RateInv, Accounted, Bounded
<1>10. KeyInMinute'
  BY <1>1 DEF RateInv, KeyInMinute
<1> QED BY <1>8, <1>9, <1>10 DEF RateInv

\* A message goes out: its handler was within the bound, and now is to count.
LEMMA RateSent ==
  ASSUME RateInv, TypeInv', NEW h \in Handlers, Send(h)
  PROVE  RateInv'
<1>1. /\ UNCHANGED <<time, counter, lapsed, faults>>
      /\ sent' = sent \/ sent' = sent + 1
  BY DEF Send, GoesOut, endings
<1>2. /\ Moves(h) /\ Sending(handler[h]) /\ handler[h].at # "count"
      /\ handler'[h].at = "count" /\ ~Sending(handler'[h])
  <2>1. Leaves(h, "count", FALSE) /\ handler[h].at = "act"
        /\ handler[h].messageSendType = "SEND"
    BY DEF Send
  <2>2. Moves(h) /\ handler'[h].at = "count"
    BY <2>1, LeavesFacts DEF RateInv, TypeInv, Points
  <2> QED BY <2>1, <2>2 DEF Sending
<1>3. /\ Cardinality(Senders') = Cardinality(Senders) - 1
      /\ Cardinality(Uncounted') = Cardinality(Uncounted) + 1
  BY <1>2, CountedSizes
<1>4. /\ sent \in Nat /\ faults \in Nat /\ counter.value \in Nat
  BY DEF RateInv, TypeInv, TypeOK
<1>5. /\ Passed \in Nat /\ Lost \in Nat /\ Passed' = Passed /\ Lost' = Lost
      /\ Cardinality(Senders) \in Nat /\ Cardinality(Uncounted) \in Nat
  BY <1>1, SendingAssumption, Sizes DEF Passed, Lost
<1>6. Accounted'
  BY <1>1, <1>3, <1>4, <1>5 DEF RateInv, Accounted
<1>7. Bounded'
  BY <1>1, <1>3, <1>4, <1>5 DEF RateInv, Bounded
<1>8. KeyInMinute'
  BY <1>1 DEF RateInv, KeyInMinute
<1> QED BY <1>6, <1>7, <1>8 DEF RateInv

\* A message is counted, in the key of this minute.
LEMMA RateCounted ==
  ASSUME RateInv, TypeInv', NEW h \in Handlers, Increment(h)
  PROVE  RateInv'
<1>1. /\ UNCHANGED <<time, lapsed, sent, faults>>
      /\ counter' = [value |-> counter.value + 1, since |-> time]
  BY DEF Increment, endings
<1>2. /\ Moves(h) /\ handler[h].at = "count" /\ handler'[h].at # "count"
      /\ ~Sending(handler[h]) /\ ~Sending(handler'[h])
  <2>1. Leaves(h, "next", TRUE) /\ handler[h].at = "count"
    BY DEF Increment
  <2>2. Moves(h) /\ handler'[h].at = "next"
    BY <2>1, LeavesFacts DEF RateInv, TypeInv, Points
  <2> QED BY <2>1, <2>2 DEF Sending
<1>3. /\ Cardinality(Senders') = Cardinality(Senders)
      /\ Cardinality(Uncounted') = Cardinality(Uncounted) - 1
  BY <1>2, CountedSizes
<1>4. /\ counter.value \in Nat /\ faults \in Nat /\ sent \in Nat
      /\ time \in Nat
  BY DEF RateInv, TypeInv, TypeOK
<1>5. /\ Passed \in Nat /\ Lost \in Nat /\ Passed' = Passed /\ Lost' = Lost
      /\ Cardinality(Senders) \in Nat /\ Cardinality(Uncounted) \in Nat
  BY <1>1, SendingAssumption, Sizes DEF Passed, Lost
<1>6. Accounted'
  BY <1>1, <1>3, <1>4, <1>5 DEF RateInv, Accounted
<1>7. Bounded'
  BY <1>1, <1>3, <1>4, <1>5 DEF RateInv, Bounded
<1>8. KeyInMinute'
  BY <1>1, <1>4 DEF RateInv, KeyInMinute
<1> QED BY <1>6, <1>7, <1>8 DEF RateInv

\* Every step keeps the bounds.
LEMMA RateStep == RateInv /\ [Next]_vars => RateInv'
<1> SUFFICES ASSUME RateInv, [Next]_vars PROVE RateInv'
  OBVIOUS
<1>1. TypeInv /\ TypeOK
  BY DEF RateInv, TypeInv
<1>2. TypeInv' /\ Sizes'
  BY <1>1, TypeStep, Sizes, PTL
<1>3. /\ faults \in Nat
      /\ Cardinality(Senders) \in Nat /\ Cardinality(Uncounted) \in Nat
  BY <1>1, Sizes DEF TypeOK
<1>4. ASSUME NEW h \in Handlers, NEW c \in Customers, Begin(h, c)
      PROVE  RateInv'
  <2>1. /\ Moves(h) /\ handler[h].at = "idle"
        /\ ~Sending(handler'[h]) /\ handler'[h].at # "count"
    BY <1>1, <1>4, BeginFacts DEF Begin
  <2>2. UNCHANGED <<time, counter, sent, lapsed, faults>>
    BY <1>4 DEF Begin, endings
  <2>3. ~Sending(handler[h])
    BY <2>1 DEF Sending
  <2>4. /\ Cardinality(Senders') = Cardinality(Senders)
        /\ Cardinality(Uncounted') = Cardinality(Uncounted)
    BY <2>1, <2>3, CountedSizes
  <2> QED BY <1>2, <1>3, <2>2, <2>4, RateStays
<1>5. ASSUME NEW h \in Handlers, CheckCustomers(h) \/ CheckMinute(h)
      PROVE  RateInv'
  <2>1. CASE Sending(handler'[h])
    BY <1>1, <1>2, <1>5, <2>1, CheckFacts, RatePassed
  <2>2. CASE ~Sending(handler'[h])
    <3>1. /\ Moves(h) /\ handler[h].at \in {"customers", "minute"}
          /\ handler'[h].at # "count"
      BY <1>1, <1>5, CheckFacts
    <3>2. UNCHANGED <<time, counter, sent, lapsed, faults>>
      BY <1>5 DEF CheckCustomers, CheckMinute, endings
    <3>3. ~Sending(handler[h])
      BY <3>1 DEF Sending
    <3>4. /\ Cardinality(Senders') = Cardinality(Senders)
          /\ Cardinality(Uncounted') = Cardinality(Uncounted)
      BY <2>2, <3>1, <3>3, CountedSizes
    <3> QED BY <1>2, <1>3, <3>2, <3>4, RateStays
  <2> QED BY <2>1, <2>2
<1>6. ASSUME NEW h \in Handlers,
             GetTemplate(h) \/ LoadTemplate(h) \/ StoreTemplate(h)
      PROVE  RateInv'
  <2>1. /\ Moves(h) /\ handler[h].at \in {"template", "load", "store"}
        /\ handler'[h].at \in {"load", "store", "act"}
        /\ handler'[h].messageSendType = handler[h].messageSendType
    BY <1>1, <1>6, FetchFacts
  <2>2. UNCHANGED <<time, counter, sent, lapsed, faults>>
    BY <1>6 DEF GetTemplate, LoadTemplate, StoreTemplate, endings
  <2>3. Sending(handler'[h]) <=> Sending(handler[h])
    BY <2>1 DEF Sending
  <2>4. /\ Cardinality(Senders') = Cardinality(Senders)
        /\ Cardinality(Uncounted') = Cardinality(Uncounted)
    BY <2>1, <2>3, CountedSizes
  <2> QED BY <1>2, <1>3, <2>2, <2>4, RateStays
<1>7. ASSUME NEW h \in Handlers, Send(h) PROVE RateInv'
  BY <1>2, <1>7, RateSent
<1>8. ASSUME NEW h \in Handlers, Increment(h) PROVE RateInv'
  BY <1>2, <1>8, RateCounted
<1>9. ASSUME NEW h \in Handlers,
             Abort(h) \/ Requeue(h) \/ Release(h) \/ MoveOn(h)
      PROVE  RateInv'
  <2>1. /\ Moves(h) /\ handler[h].at # "count"
        /\ handler'[h].at \in {"next", "release", "ack"}
    <3>1. handler[h].at \in {"act", "release", "next"}
      BY <1>9 DEF Abort, Requeue, Release, MoveOn
    <3>2. /\ Moves(h)
          /\ handler'[h].at \in {"count", "next", "release", "ack"}
          /\ handler'[h].at = "count" => Send(h)
      BY <1>1, <1>9, AfterFacts
    <3>3. ~Send(h)
      BY <1>9 DEF Send, Abort, Requeue, Release, MoveOn
    <3> QED BY <3>1, <3>2, <3>3
  <2>2. UNCHANGED <<time, counter, sent, lapsed, faults>>
    BY <1>9 DEF Abort, Requeue, Release, MoveOn, endings
  <2>3. ~Sending(handler'[h]) /\ handler'[h].at # "count"
    BY <2>1 DEF Sending
  <2>4. /\ Cardinality(Senders') <= Cardinality(Senders)
        /\ Cardinality(Uncounted') = Cardinality(Uncounted)
    BY <1>3, <2>1, <2>3, CountedSizes
  <2> QED BY <1>2, <1>3, <2>2, <2>4, RateStays
<1>10. ASSUME NEW h \in Handlers, Acknowledge(h) \/ Throws(h) \/ Dies(h)
       PROVE  RateInv'
  <2>1. Moves(h) /\ handler'[h].at = "idle"
    <3>1. handler' = [handler EXCEPT ![h] = Idle]
      BY <1>10 DEF Acknowledge, Throws, Dies
    <3> QED BY <1>1, <3>1, IdleFacts
  <2>2. ~Sending(handler'[h]) /\ handler'[h].at # "count"
    BY <2>1 DEF Sending
  <2>3. /\ UNCHANGED <<time, counter, sent, lapsed>>
        /\ handler[h].at = "ack" \/ faults' = faults + 1
        /\ faults' \in {faults, faults + 1}
    BY <1>3, <1>10 DEF Acknowledge, Throws, Dies, endings
  <2>4. /\ Cardinality(Senders') <= Cardinality(Senders)
        /\ \/ Cardinality(Uncounted') = Cardinality(Uncounted)
           \/ /\ Cardinality(Uncounted') = Cardinality(Uncounted) - 1
              /\ handler[h].at = "count"
    BY <1>3, <2>1, <2>2, CountedSizes
  <2>5. Cardinality(Uncounted') + faults' >= Cardinality(Uncounted) + faults
    BY <1>3, <2>3, <2>4
  <2> QED BY <1>2, <1>3, <2>3, <2>4, <2>5, RateStays
<1>11. CASE \/ \E j \in onward : Arrive(j)
            \/ ClearTemplate \/ WriteTemplate \/ ExpireTemplate
            \/ UNCHANGED vars
  <2>1. UNCHANGED <<time, counter, sent, lapsed, faults>>
    BY <1>11 DEF Arrive, ClearTemplate, WriteTemplate, ExpireTemplate, vars,
                 endings
  <2>2. \A h \in Handlers :
          /\ handler'[h].at = handler[h].at
          /\ handler'[h].messageSendType = handler[h].messageSendType
    <3>1. OverlapLoads \/ UNCHANGED handler
      BY <1>11 DEF Arrive, ClearTemplate, WriteTemplate, ExpireTemplate, vars
    <3> QED BY <1>1, <3>1, OverlapFacts
  <2>3. Senders' = Senders /\ Uncounted' = Uncounted
    BY <2>2 DEF Senders, Uncounted, Sending
  <2> QED BY <1>2, <1>3, <2>1, <2>3, RateStays
<1>12. CASE Tick
  BY <1>2, <1>12, RateTick
<1> QED BY <1>4, <1>5, <1>6, <1>7, <1>8, <1>9, <1>10, <1>11, <1>12
        DEF Next, Process

\* The messages of a minute are at most maxSendRate, and those handled at once
\* less one, and those whose handlers ended before they counted; twice that in
\* a minute whose key expires before it is over: however many customers are in
\* the step.
THEOREM RateIsKept == Spec => []RateKept
<1>1. Init => RateInv
  <2> SUFFICES ASSUME Init PROVE RateInv
    OBVIOUS
  <2>1. TypeInv
    BY TypeInit
  <2>2. /\ sent = 0 /\ faults = 0 /\ counter.value = 0
        /\ ~lapsed /\ counter = NoKey
    BY DEF Init, NoKey
  <2>3. Senders = {}
    BY DEF Init, Senders, Sending, Idle
  <2>4. /\ Cardinality(Senders) = 0 /\ Cardinality(Uncounted) \in Nat
        /\ Cardinality(Handlers) \in Nat /\ MaxRate \in Nat \ {0}
    BY <2>3, FS_EmptySet, Sizes, SendingAssumption
  <2> QED BY <2>1, <2>2, <2>4
          DEF RateInv, Accounted, Bounded, KeyInMinute, Passed, Lost
<1>2. RateInv => RateKept
  <2> SUFFICES ASSUME RateInv PROVE RateKept
    OBVIOUS
  <2>1. sent \in Nat /\ faults \in Nat
    BY DEF RateInv, TypeInv, TypeOK
  <2>2. Passed \in Nat /\ Cardinality(Senders) \in Nat
    BY Sizes, SendingAssumption DEF Passed
  <2>3. Lost + Passed = (IF lapsed THEN 2 ELSE 1) * Passed
    BY <2>2 DEF Lost
  <2>4. sent <= Lost + Passed + faults
    BY <2>1, <2>2 DEF RateInv, Bounded, Lost
  <2> QED BY <2>3, <2>4 DEF RateKept, Passed
<1> QED BY <1>1, <1>2, RateStep, PTL DEF Spec
-----------------------------------------------------------------------------
(* The template.                                                           *)

\* A step of a handler that neither loads nor has the template.
LEMMA TemplateStays ==
  ASSUME TemplateInv, TypeInv', NEW h \in Handlers, Moves(h),
         UNCHANGED store,
         handler'[h].at \notin {"store", "act"},
         handler'[h].newest <= template
  PROVE  TemplateInv'
<1>1. \A g \in Handlers : g # h => handler'[g] = handler[g]
  BY DEF Moves
<1>2. UNCHANGED <<template, cached, spoilt, editor>>
  BY DEF store
<1>3. NewestKnown'
  BY <1>1, <1>2 DEF TemplateInv, NewestKnown
<1>4. Fresh'
  BY <1>1, <1>2 DEF TemplateInv, Fresh
<1>5. LoadedNew' /\ NewTemplate'
  BY <1>1 DEF TemplateInv, LoadedNew, NewTemplate
<1> QED BY <1>3, <1>4, <1>5 DEF TemplateInv

\* A step that fetches the template.
LEMMA TemplateFetched ==
  ASSUME TemplateInv, TypeInv', NEW h \in Handlers,
         GetTemplate(h) \/ LoadTemplate(h) \/ StoreTemplate(h)
  PROVE  TemplateInv'
<1>1. TypeOK
  BY DEF TemplateInv, TypeInv
<1>2. /\ \A g \in Handlers : g # h => handler'[g] = handler[g]
      /\ handler'[h].newest = handler[h].newest
      /\ handler'[h].at = "store"
           => /\ LoadTemplate(h) /\ handler'[h].template = template
              /\ handler'[h].overlapped = (editor = "cleared")
      /\ handler'[h].at = "act"
           => \/ /\ GetTemplate(h) /\ cached # None
                 /\ handler'[h].template = cached
                 /\ handler'[h].overlapped = spoilt
              \/ StoreTemplate(h) /\ handler'[h].template = handler[h].template
  BY <1>1, FetchFacts DEF Moves
<1>3. UNCHANGED <<template, editor>>
  BY DEF GetTemplate, LoadTemplate, StoreTemplate, store
<1>4. NewestKnown'
  BY <1>2, <1>3 DEF TemplateInv, NewestKnown
<1>5. \/ UNCHANGED <<cached, spoilt>>
      \/ /\ handler[h].at = "store" /\ cached' = handler[h].template
         /\ spoilt' = handler[h].overlapped
  BY DEF GetTemplate, LoadTemplate, StoreTemplate, store
<1>6. /\ editor \in {"idle", "cleared"} /\ template \in Nat
      /\ handler[h].newest <= template /\ handler[h].newest \in Nat
  BY <1>1 DEF TypeOK, Handler, TemplateInv, NewestKnown
<1>7. Fresh'
  BY <1>2, <1>3, <1>5, <1>6 DEF TemplateInv, Fresh
<1>8. LoadedNew'
  BY <1>2, <1>6 DEF TemplateInv, LoadedNew
<1>9. NewTemplate'
  <2> SUFFICES ASSUME NEW g \in Handlers, handler'[g].at = "act",
                      ~handler'[g].overlapped
               PROVE  handler'[g].template >= handler'[g].newest
    BY DEF NewTemplate
  <2>1. CASE g # h
    BY <1>2, <2>1 DEF TemplateInv, NewTemplate
  <2>2. CASE g = h /\ StoreTemplate(h)
    <3>1. handler[h].at = "store"
      BY <2>2 DEF StoreTemplate
    <3>2. ~GetTemplate(h)
      BY <3>1 DEF GetTemplate
    <3> QED BY <1>2, <2>2, <3>1, <3>2 DEF TemplateInv, LoadedNew
  <2>3. CASE g = h /\ ~StoreTemplate(h)
    BY <1>2, <1>6, <2>3 DEF TemplateInv, Fresh
  <2> QED BY <2>1, <2>2, <2>3
<1> QED BY <1>4, <1>7, <1>8, <1>9 DEF TemplateInv, NewestKnown

\* Every step keeps the cache in order.
LEMMA TemplateStep == TemplateInv /\ [Next]_vars => TemplateInv'
<1> SUFFICES ASSUME TemplateInv, [Next]_vars PROVE TemplateInv'
  OBVIOUS
<1>1. TypeInv /\ TypeOK /\ TypeInv'
  BY TypeStep DEF TemplateInv, TypeInv
<1>2. template \in Nat
  BY <1>1 DEF TypeOK
<1>3. ASSUME NEW h \in Handlers, NEW c \in Customers, Begin(h, c)
      PROVE  TemplateInv'
  <2>1. UNCHANGED store
    BY <1>3 DEF Begin
  <2> QED BY <1>1, <1>3, <2>1, BeginFacts, TemplateStays
<1>4. ASSUME NEW h \in Handlers, CheckCustomers(h) \/ CheckMinute(h)
      PROVE  TemplateInv'
  <2>1. UNCHANGED store
    BY <1>4 DEF CheckCustomers, CheckMinute
  <2>2. handler[h].newest <= template /\ template <= template
    BY <1>2 DEF TemplateInv, NewestKnown
  <2>3. /\ Moves(h) /\ handler'[h].at \in {"template", "minute"}
        /\ handler'[h].newest \in {handler[h].newest, template}
    BY <1>1, <1>4, CheckFacts
  <2> QED BY <1>1, <2>1, <2>2, <2>3, TemplateStays
<1>5. ASSUME NEW h \in Handlers,
             GetTemplate(h) \/ LoadTemplate(h) \/ StoreTemplate(h)
      PROVE  TemplateInv'
  BY <1>1, <1>5, TemplateFetched
<1>6. ASSUME NEW h \in Handlers,
             \/ Send(h) \/ Increment(h) \/ Abort(h) \/ Requeue(h)
             \/ Release(h) \/ MoveOn(h)
      PROVE  TemplateInv'
  <2>1. UNCHANGED store
    BY <1>6 DEF Send, Increment, Abort, Requeue, Release, MoveOn
  <2>2. /\ Moves(h) /\ handler'[h].at \notin {"store", "act"}
        /\ handler'[h].newest <= template
    BY <1>1, <1>2, <1>6, AfterFacts
  <2> QED BY <1>1, <2>1, <2>2, TemplateStays
<1>7. ASSUME NEW h \in Handlers, Acknowledge(h) \/ Throws(h) \/ Dies(h)
      PROVE  TemplateInv'
  <2>1. UNCHANGED store
    BY <1>7 DEF Acknowledge, Throws, Dies
  <2>2. handler' = [handler EXCEPT ![h] = Idle]
    BY <1>7 DEF Acknowledge, Throws, Dies
  <2>3. /\ Moves(h) /\ handler'[h].at \notin {"store", "act"}
        /\ handler'[h].newest <= template
    <3>1. Moves(h) /\ handler'[h].at = "idle" /\ handler'[h].newest = 0
      BY <1>1, <2>2, IdleFacts
    <3> QED BY <1>2, <3>1
  <2> QED BY <1>1, <2>1, <2>3, TemplateStays
<1>8. CASE \/ \E j \in onward : Arrive(j)
           \/ Tick \/ UNCHANGED vars
  <2>1. UNCHANGED <<handler, template, cached, spoilt, editor>>
    BY <1>8 DEF Arrive, Tick, vars, store
  <2> QED BY <1>1, <2>1
          DEF TemplateInv, NewestKnown, Fresh, LoadedNew, NewTemplate
<1>9. CASE ClearTemplate
  <2>1. UNCHANGED template /\ cached' = None
    BY <1>9 DEF ClearTemplate
  <2>2. \A h \in Handlers :
          /\ handler'[h].at = handler[h].at
          /\ handler'[h].template = handler[h].template
          /\ handler'[h].newest = handler[h].newest
          /\ handler'[h].overlapped
               = (handler[h].overlapped \/ handler[h].at = "store")
    BY <1>1, <1>9, OverlapFacts DEF ClearTemplate
  <2>3. NewestKnown'
    BY <2>1, <2>2 DEF TemplateInv, NewestKnown
  <2>4. Fresh'
    BY <2>1, <2>2 DEF Fresh
  <2>5. LoadedNew' /\ NewTemplate'
    BY <2>2 DEF TemplateInv, LoadedNew, NewTemplate
  <2> QED BY <1>1, <2>3, <2>4, <2>5 DEF TemplateInv
<1>10. CASE WriteTemplate
  <2>1. /\ UNCHANGED <<handler, cached, spoilt>>
        /\ editor = "cleared" /\ template' = template + 1
    BY <1>10 DEF WriteTemplate
  <2>2. \A h \in Handlers : handler[h].newest \in Nat
    BY <1>1 DEF TypeOK, Handler
  <2>3. NewestKnown'
    BY <1>2, <2>1, <2>2 DEF TemplateInv, NewestKnown
  <2>4. Fresh'
    BY <2>1 DEF TemplateInv, Fresh
  <2>5. LoadedNew' /\ NewTemplate'
    BY <2>1 DEF TemplateInv, LoadedNew, NewTemplate
  <2> QED BY <1>1, <2>3, <2>4, <2>5 DEF TemplateInv
<1>11. CASE ExpireTemplate
  <2>1. UNCHANGED <<handler, template, editor>> /\ cached' = None
    BY <1>11 DEF ExpireTemplate
  <2> QED BY <1>1, <2>1
          DEF TemplateInv, NewestKnown, Fresh, LoadedNew, NewTemplate
<1> QED BY <1>3, <1>4, <1>5, <1>6, <1>7, <1>8, <1>9, <1>10, <1>11
        DEF Next, Process

\* Unless it finds in the cache what was loaded in the course of an update, a
\* message is never written from a template older than that of the database
\* when its handler asked for it.
THEOREM TemplateIsNew == Spec => []NewTemplate
<1>1. Init => TemplateInv
  <2> SUFFICES ASSUME Init PROVE TemplateInv
    OBVIOUS
  <2>1. TypeInv
    BY TypeInit
  <2>2. /\ cached = None /\ template = 0
        /\ \A h \in Handlers : handler[h] = Idle
    BY DEF Init
  <2> QED BY <2>1, <2>2, IdleType
          DEF TemplateInv, NewestKnown, Fresh, LoadedNew, NewTemplate
<1>2. TemplateInv => NewTemplate
  BY DEF TemplateInv
<1> QED BY <1>1, <1>2, TemplateStep, PTL DEF Spec
-----------------------------------------------------------------------------
(* The marks of those who were messaged.                                   *)

\* A step that is not about c.
SameFor(c) ==
  /\ job'[c] = job[c]
  /\ row'[c].messageSent = row[c].messageSent
  /\ \A b \in BOOLEAN : <<c, b>> \in onward' <=> <<c, b>> \in onward
  /\ c \in messaged' <=> c \in messaged
  /\ c \in failed' <=> c \in failed
  /\ \A h \in Handlers :
       /\ Has(h, c)' <=> Has(h, c)
       /\ Has(h, c) => /\ handler'[h].at = handler[h].at
                       /\ handler'[h].messageSent = handler[h].messageSent

LEMMA PlaceElsewhere ==
  ASSUME NEW c \in Customers, PlaceOf(c), SameFor(c)
  PROVE  PlaceOf(c)'
<1>1. Untouched(c)' <=> Untouched(c)
  BY DEF SameFor, Untouched
<1>2. Queued(c)'
  BY <1>1 DEF SameFor, PlaceOf, Queued
<1>3. InHand(c)'
  BY <1>1 DEF SameFor, PlaceOf, InHand, Carries
<1>4. Later(c)'
  BY DEF SameFor, PlaceOf, Later
<1>5. Kept(c)'
  BY DEF SameFor, PlaceOf, Kept, Carries
<1> QED BY <1>2, <1>3, <1>4, <1>5 DEF PlaceOf

\* A step of a handler that has and takes the job of another.
LEMMA OtherHandler ==
  ASSUME TypeInv, NEW c \in Customers, NEW h \in Handlers, Moves(h),
         ~Has(h, c), ~Has(h, c)',
         job'[c] = job[c], row'[c].messageSent = row[c].messageSent,
         \A b \in BOOLEAN : <<c, b>> \in onward' <=> <<c, b>> \in onward,
         c \in messaged' <=> c \in messaged, c \in failed' <=> c \in failed
  PROVE  SameFor(c)
BY DEF SameFor, Has, Busy, Moves

\* Every step is about one customer or none.
LEMMA StepOf ==
  ASSUME TypeInv, [Next]_vars, NEW c \in Customers
  PROVE  \/ SameFor(c)
         \/ \E h \in Handlers : Begin(h, c)
         \/ \E h \in Handlers :
              Has(h, c) /\ (Process(h) \/ Throws(h) \/ Dies(h))
         \/ \E b \in BOOLEAN : <<c, b>> \in onward /\ Arrive(<<c, b>>)
<1>1. ASSUME NEW h \in Handlers, NEW d \in Customers, Begin(h, d), d # c
      PROVE  SameFor(c)
  <2>1. /\ Moves(h) /\ handler'[h].customer = d
        /\ UNCHANGED <<row, onward, messaged, failed>>
        /\ ~Busy(h) /\ job' = [job EXCEPT ![d] = "handled"]
    BY <1>1, BeginFacts DEF Begin, Busy, TypeInv, endings
  <2>2. ~Has(h, c) /\ ~Has(h, c)'
    BY <1>1, <2>1 DEF Has
  <2>3. job'[c] = job[c]
    BY <1>1, <2>1 DEF TypeInv, TypeOK
  <2> QED BY <2>1, <2>2, <2>3, OtherHandler
<1>2. ASSUME NEW h \in Handlers, ~Has(h, c),
             CheckCustomers(h) \/ CheckMinute(h) \/ GetTemplate(h)
               \/ LoadTemplate(h) \/ StoreTemplate(h)
      PROVE  SameFor(c)
  <2>1. /\ Moves(h) /\ handler'[h].customer = handler[h].customer /\ Busy(h)
        /\ UNCHANGED <<job, row, onward, messaged, failed>>
    <3>1. /\ Moves(h) /\ handler'[h].customer = handler[h].customer
          /\ handler[h].at # "idle"
      BY <1>2, CheckFacts, FetchFacts DEF TypeInv
    <3>2. UNCHANGED <<job, row, onward, messaged, failed>>
      BY <1>2 DEF CheckCustomers, CheckMinute, GetTemplate, LoadTemplate,
                  StoreTemplate, endings
    <3> QED BY <3>1, <3>2 DEF Busy
  <2>2. ~Has(h, c)'
    BY <1>2, <2>1 DEF Has
  <2> QED BY <1>2, <2>1, <2>2, OtherHandler
<1>3. ASSUME NEW h \in Handlers, ~Has(h, c),
             \/ Send(h) \/ Increment(h) \/ Abort(h) \/ Requeue(h)
             \/ Release(h) \/ MoveOn(h)
      PROVE  SameFor(c)
  <2>1. /\ Moves(h) /\ Busy(h) /\ handler[h].customer \in Customers
        /\ handler'[h].customer = handler[h].customer
    BY <1>3, AfterFacts DEF Busy
  <2>2. handler[h].customer # c /\ ~Has(h, c)'
    BY <1>3, <2>1 DEF Has
  <2>3. UNCHANGED <<job, failed>>
    BY <1>3 DEF Send, Increment, Abort, Requeue, Release, MoveOn, endings
  <2>4. row'[c].messageSent = row[c].messageSent
    BY <1>3, <2>1, <2>2 DEF Send, Increment, Abort, Requeue, Release, MoveOn,
                            Unlock, TypeInv, TypeOK
  <2>5. \A b \in BOOLEAN : <<c, b>> \in onward' <=> <<c, b>> \in onward
    <3>1. CASE MoveOn(h)
      <4>1. PICK d \in Customers, mark \in BOOLEAN : Moved(h, d, mark)
        BY <3>1, MoveFacts
      <4>2. d # c /\ onward' \subseteq onward \cup {<<d, mark>>}
            /\ onward \subseteq onward'
        BY <2>2, <4>1 DEF Moved
      <4> QED BY <4>2
    <3>2. CASE UNCHANGED onward
      BY <3>2
    <3> QED BY <1>3, <3>1, <3>2 DEF Send, Increment, Abort, Requeue, Release
  <2>6. c \in messaged' <=> c \in messaged
    BY <1>3, <2>2 DEF Send, Increment, Abort, Requeue, Release, MoveOn, GoesOut
  <2> QED BY <1>3, <2>1, <2>2, <2>3, <2>4, <2>5, <2>6, OtherHandler
<1>4. ASSUME NEW h \in Handlers, ~Has(h, c),
             Acknowledge(h) \/ Throws(h) \/ Dies(h)
      PROVE  SameFor(c)
  <2>1. /\ Busy(h) /\ handler' = [handler EXCEPT ![h] = Idle]
        /\ UNCHANGED <<row, onward, messaged>>
        /\ \E end \in {"queued", "ended"} :
             job' = [job EXCEPT ![handler[h].customer] = end]
        /\ failed' \in {failed, failed \cup {handler[h].customer}}
    BY <1>4 DEF Acknowledge, Throws, Dies, Busy, endings
  <2>2. handler[h].customer # c /\ handler[h].customer \in Customers
    BY <1>4, <2>1 DEF Has, TypeInv, HandlersOK
  <2>3. Moves(h) /\ handler'[h].at = "idle"
    BY <2>1, IdleFacts DEF TypeInv
  <2>4. ~Has(h, c)'
    BY <2>3 DEF Has, Busy
  <2>5. job'[c] = job[c] /\ (c \in failed' <=> c \in failed)
    BY <2>1, <2>2 DEF TypeInv, TypeOK
  <2> QED BY <1>4, <2>1, <2>3, <2>4, <2>5, OtherHandler
<1>5. ASSUME NEW j \in onward, Arrive(j)
      PROVE  \/ SameFor(c)
             \/ \E b \in BOOLEAN : <<c, b>> \in onward /\ Arrive(<<c, b>>)
  <2>1. PICK d \in Customers, b \in BOOLEAN : j = <<d, b>>
    BY DEF TypeInv, TypeOK
  <2>2. CASE d = c
    BY <1>5, <2>1, <2>2
  <2>3. CASE d # c
    <3>1. /\ UNCHANGED <<job, handler, messaged, failed>>
          /\ onward' = onward \ {<<d, b>>} /\ Unlock(d, b, FALSE)
      BY <1>5, <2>1 DEF Arrive, endings
    <3>2. row'[c] = row[c]
      BY <2>3, <3>1, UnlockType DEF TypeInv
    <3> QED BY <2>3, <3>1, <3>2 DEF SameFor, Has, Busy
  <2> QED BY <2>2, <2>3
<1>6. ASSUME \/ ClearTemplate \/ WriteTemplate \/ ExpireTemplate
             \/ Tick \/ UNCHANGED vars
      PROVE  SameFor(c)
  <2>1. UNCHANGED <<job, row, onward, messaged, failed>>
    BY <1>6 DEF ClearTemplate, WriteTemplate, ExpireTemplate, Tick, vars,
                endings
  <2>2. \A h \in Handlers :
          /\ handler'[h].at = handler[h].at
          /\ handler'[h].customer = handler[h].customer
          /\ handler'[h].messageSent = handler[h].messageSent
    <3>1. OverlapLoads \/ UNCHANGED handler
      BY <1>6 DEF ClearTemplate, WriteTemplate, ExpireTemplate, Tick, vars
    <3> QED BY <3>1, OverlapFacts DEF TypeInv
  <2> QED BY <2>1, <2>2 DEF SameFor, Has, Busy
<1> QED BY <1>1, <1>2, <1>3, <1>4, <1>5, <1>6 DEF Next, Process

\* A step of the handler that has the job of c, and keeps it.
LEMMA StillInHand ==
  ASSUME NEW c \in Customers, PlaceOf(c),
         NEW h \in Handlers, Has(h, c), Has(h, c)', Moves(h),
         handler[h].at # "ack",
         job'[c] = job[c], row'[c].messageSent = row[c].messageSent,
         UNCHANGED onward,
         handler'[h].messageSent => handler'[h].at = "next",
         c \in messaged' => Carries(h)'
  PROVE  PlaceOf(c)'
<1>1. \A g \in Handlers : Has(g, c) => g = h
  BY DEF PlaceOf, InHand
<1>2. \A g \in Handlers : Has(g, c)' => g = h
  BY <1>1 DEF Moves, Has, Busy
<1>3. job'[c] = "handled" /\ Untouched(c) /\ Untouched(c)'
  BY DEF PlaceOf, InHand, Untouched
<1>4. Queued(c)'
  BY <1>3 DEF Queued
<1>5. InHand(c)'
  BY <1>2, <1>3 DEF InHand, Carries
<1>6. Later(c)'
  BY <1>3 DEF Later, Untouched
<1>7. Kept(c)'
  BY DEF Kept
<1> QED BY <1>4, <1>5, <1>6, <1>7 DEF PlaceOf

\* A job whose message has not gone out.
LEMMA Unsent ==
  ASSUME NEW c \in Customers, PlaceOf(c), NEW h \in Handlers, Has(h, c),
         handler[h].at \notin {"ack", "count", "next"}
  PROVE  ~handler[h].messageSent /\ c \notin messaged /\ Untouched(c)
BY DEF PlaceOf, InHand, Carries

\* The checks and the template.
LEMMA PlaceBefore ==
  ASSUME TypeInv, NEW c \in Customers, PlaceOf(c),
         NEW h \in Handlers, Has(h, c),
         \/ CheckCustomers(h) \/ CheckMinute(h)
         \/ GetTemplate(h) \/ LoadTemplate(h) \/ StoreTemplate(h)
  PROVE  PlaceOf(c)'
<1>1. /\ Moves(h)
      /\ handler[h].at \in {"customers", "minute", "template", "load", "store"}
      /\ handler'[h].at \in {"minute", "template", "load", "store", "act"}
      /\ handler'[h].customer = handler[h].customer
      /\ handler'[h].messageSent = handler[h].messageSent
  BY CheckFacts, FetchFacts DEF TypeInv
<1>2. UNCHANGED <<job, row, onward, messaged>>
  BY DEF CheckCustomers, CheckMinute, GetTemplate, LoadTemplate, StoreTemplate
<1>3. ~handler[h].messageSent /\ c \notin messaged
  BY <1>1, Unsent
<1>4. Has(h, c)'
  BY <1>1 DEF Has, Busy
<1> QED BY <1>1, <1>2, <1>3, <1>4, StillInHand

\* The send and the count.
LEMMA PlaceSent ==
  ASSUME TypeInv, NEW c \in Customers, PlaceOf(c),
         NEW h \in Handlers, Has(h, c), Send(h) \/ Increment(h)
  PROVE  PlaceOf(c)'
<1>1. /\ UNCHANGED <<job, row, onward>> /\ handler[h].at \in {"act", "count"}
      /\ Leaves(h, "count", FALSE) \/ Leaves(h, "next", TRUE)
  BY DEF Send, Increment
<1>2. /\ Moves(h) /\ handler'[h].customer = handler[h].customer
      /\ \/ handler'[h].at = "count" /\ ~handler'[h].messageSent
         \/ handler'[h].at = "next" /\ handler'[h].messageSent
  BY <1>1, LeavesFacts DEF TypeInv, Points
<1>3. Has(h, c)'
  BY <1>2 DEF Has, Busy
<1>4. Carries(h)'
  BY <1>2 DEF Carries
<1> QED BY <1>1, <1>2, <1>3, <1>4, StillInHand

\* What is not sent: the row loses no mark, for it has none.
LEMMA PlaceGivenUp ==
  ASSUME TypeInv, NEW c \in Customers, PlaceOf(c),
         NEW h \in Handlers, Has(h, c), Abort(h) \/ Requeue(h) \/ Release(h)
  PROVE  PlaceOf(c)'
<1>1. /\ handler[h].at \in {"act", "release"}
      /\ UNCHANGED <<job, onward, messaged>>
      /\ \E point \in {"next", "release", "ack"} : Leaves(h, point, FALSE)
  BY DEF Abort, Requeue, Release
<1>2. /\ Moves(h) /\ handler'[h].at \in {"next", "release", "ack"}
      /\ ~handler'[h].messageSent
      /\ handler'[h].customer = handler[h].customer
  BY <1>1, LeavesFacts DEF TypeInv, Points
<1>3. c \notin messaged /\ Untouched(c)
  BY <1>1, Unsent
<1>4. row'[c].messageSent = row[c].messageSent
  <2>1. CASE Release(h)
    <3>1. \E held \in BOOLEAN : Unlock(c, FALSE, held)
      BY <2>1 DEF Release, Has
    <3>2. row'[c].messageSent = FALSE
      BY <3>1, UnlockType DEF TypeInv
    <3>3. row[c].messageSent = FALSE
      BY <1>3 DEF Untouched, TypeInv, TypeOK
    <3> QED BY <3>2, <3>3
  <2>2. CASE Abort(h) \/ Requeue(h)
    BY <2>2 DEF Abort, Requeue
  <2> QED BY <2>1, <2>2
<1>5. Has(h, c)'
  BY <1>2 DEF Has, Busy
<1> QED BY <1>1, <1>2, <1>3, <1>4, <1>5, StillInHand

\* A mark moves on, with the customer.
LEMMA PlaceMoves ==
  ASSUME TypeInv, NEW c \in Customers, PlaceOf(c),
         NEW h \in Handlers, Has(h, c), MoveOn(h)
  PROVE  PlaceOf(c)'
<1>1. PICK d \in Customers, mark \in BOOLEAN : Moved(h, d, mark)
  BY MoveFacts
<1>2. /\ d = c /\ handler[h].at = "next" /\ handler[h].messageSent = mark
      /\ UNCHANGED <<job, messaged>>
  BY <1>1 DEF Moved, Has
<1>3. /\ Moves(h) /\ handler'[h].at = "ack" /\ ~handler'[h].messageSent
      /\ handler'[h].customer = c
  <2>1. Leaves(h, "ack", FALSE)
    BY DEF MoveOn
  <2> QED BY <2>1, LeavesFacts DEF TypeInv, Points, Has
<1>4. /\ \A g \in Handlers : Has(g, c)' => g = h
      /\ job'[c] = "handled" /\ Untouched(c)
      /\ c \in messaged' => mark
  <2>1. \A g \in Handlers : Has(g, c) => g = h
    BY DEF PlaceOf, InHand
  <2> QED BY <1>2, <1>3, <2>1 DEF PlaceOf, InHand, Moves, Has, Busy, Carries
<1>5. Queued(c)'
  BY <1>4 DEF Queued
<1>6. InHand(c)'
  BY <1>3, <1>4 DEF InHand
<1>7. CASE Unlock(c, mark, FALSE) /\ UNCHANGED onward
  <2>1. row'[c].messageSent = mark
    BY <1>7, UnlockType DEF TypeInv
  <2> QED BY <1>4, <1>5, <1>6, <1>7, <2>1
          DEF PlaceOf, Later, Kept, Untouched
<1>8. CASE onward' = onward \cup {<<c, mark>>} /\ UNCHANGED row
  <2>1. \A b \in BOOLEAN : <<c, b>> \in onward' => b = mark
    BY <1>4, <1>8 DEF Untouched
  <2>2. ~row'[c].messageSent
    BY <1>4, <1>8 DEF Untouched
  <2>3. Later(c)'
    BY <1>4, <2>1, <2>2 DEF Later
  <2>4. Kept(c)'
    BY <1>4, <1>8 DEF Kept
  <2> QED BY <1>5, <1>6, <2>3, <2>4 DEF PlaceOf
<1> QED BY <1>1, <1>2, <1>7, <1>8 DEF Moved

\* A job ends.
LEMMA PlaceEnds ==
  ASSUME TypeInv, NEW c \in Customers, PlaceOf(c),
         NEW h \in Handlers, Has(h, c), Acknowledge(h) \/ Throws(h)
  PROVE  PlaceOf(c)'
<1>1. /\ UNCHANGED <<row, onward, messaged>>
      /\ job' = [job EXCEPT ![c] = "ended"]
      /\ handler' = [handler EXCEPT ![h] = Idle]
  BY DEF Acknowledge, Throws, Has
<1>2. Moves(h) /\ handler'[h].at = "idle"
  BY <1>1, IdleFacts DEF TypeInv
<1>3. \A g \in Handlers : ~Has(g, c)'
  BY <1>2 DEF PlaceOf, InHand, Moves, Has, Busy
<1>4. job'[c] = "ended"
  BY <1>1 DEF TypeInv, TypeOK
<1>5. Kept(c)'
  <2>1. CASE Acknowledge(h)
    <3>1. handler[h].at = "ack" /\ UNCHANGED failed
      BY <2>1 DEF Acknowledge, endings
    <3>2. \A g \in Handlers : Has(g, c) => ~Carries(g)
      BY <3>1 DEF PlaceOf, InHand, Carries
    <3> QED BY <1>1, <3>1, <3>2 DEF PlaceOf, Kept
  <2>2. CASE Throws(h)
    BY <2>2 DEF Throws, Kept, Has
  <2> QED BY <2>1, <2>2
<1> QED BY <1>1, <1>3, <1>4, <1>5 DEF PlaceOf, Queued, InHand, Later

\* A job begins.
LEMMA PlaceBegins ==
  ASSUME TypeInv, NEW c \in Customers, PlaceOf(c),
         NEW h \in Handlers, Begin(h, c)
  PROVE  PlaceOf(c)'
<1>1. /\ job[c] = "queued" /\ UNCHANGED <<row, onward, messaged, failed>>
      /\ job' = [job EXCEPT ![c] = "handled"]
  BY DEF Begin, endings
<1>2. /\ Moves(h) /\ handler'[h].at \notin {"idle", "ack", "count"}
      /\ handler'[h].customer = c /\ ~handler'[h].messageSent
  BY BeginFacts DEF TypeInv
<1>3. /\ Untouched(c) /\ c \notin messaged
      /\ \A g \in Handlers : ~Has(g, c)
  BY <1>1 DEF PlaceOf, Queued
<1>4. \A g \in Handlers : Has(g, c)' => g = h
  BY <1>2, <1>3 DEF Moves, Has, Busy
<1>5. job'[c] = "handled" /\ Untouched(c)'
  BY <1>1, <1>3 DEF Untouched, TypeInv, TypeOK
<1>6. Queued(c)' /\ InHand(c)'
  BY <1>1, <1>2, <1>3, <1>4, <1>5 DEF Queued, InHand
<1>7. Later(c)' /\ Kept(c)'
  BY <1>1, <1>3, <1>5 DEF Later, Kept, Untouched
<1> QED BY <1>6, <1>7 DEF PlaceOf

\* A mark arrives in its row.
LEMMA PlaceArrives ==
  ASSUME TypeInv, NEW c \in Customers, PlaceOf(c),
         NEW b \in BOOLEAN, <<c, b>> \in onward, Arrive(<<c, b>>)
  PROVE  PlaceOf(c)'
<1>1. /\ UNCHANGED <<job, handler, messaged>>
      /\ onward' = onward \ {<<c, b>>} /\ Unlock(c, b, FALSE)
  BY DEF Arrive
<1>2. row'[c].messageSent = b
  BY <1>1, UnlockType DEF TypeInv
<1>3. /\ \A a \in BOOLEAN : <<c, a>> \notin onward'
      /\ c \in messaged => b
  BY <1>1 DEF PlaceOf, Later
<1>4. ~Untouched(c)
  BY DEF Untouched
<1>5. Queued(c)'
  BY <1>1, <1>4 DEF PlaceOf, Queued
<1>6. \A h \in Handlers : Has(h, c) => handler[h].at = "ack"
  BY <1>4 DEF PlaceOf, InHand
<1>7. InHand(c)'
  BY <1>1, <1>6 DEF PlaceOf, InHand, Has, Busy
<1>8. Later(c)' /\ Kept(c)'
  BY <1>1, <1>2, <1>3 DEF Later, Kept
<1> QED BY <1>5, <1>7, <1>8 DEF PlaceOf

\* Who was given a job again is known for ever.
LEMMA RepeatedGrows ==
  ASSUME TypeInv, [Next]_vars
  PROVE  /\ repeated \subseteq repeated'
         /\ \A h \in Handlers : Dies(h) => handler[h].customer \in repeated'
BY DEF Next, Process, Begin, CheckCustomers, CheckMinute, GetTemplate,
       LoadTemplate, StoreTemplate, Send, Increment, Abort, Requeue, Release,
       MoveOn, Acknowledge, Throws, Dies, Arrive, ClearTemplate, WriteTemplate,
       ExpireTemplate, Tick, vars, endings

\* Every step keeps the places of those whose jobs are delivered once.
LEMMA MarkStep == MarkInv /\ [Next]_vars => MarkInv'
<1> SUFFICES ASSUME MarkInv, [Next]_vars PROVE MarkInv'
  OBVIOUS
<1>1. TypeInv /\ TypeInv'
  BY TypeStep DEF MarkInv
<1> SUFFICES ASSUME NEW c \in Customers \ repeated' PROVE PlaceOf(c)'
  BY <1>1 DEF MarkInv
<1>2. PlaceOf(c) /\ \A h \in Handlers : Has(h, c) => ~Dies(h)
  BY <1>1, RepeatedGrows DEF MarkInv, Has
<1>3. CASE SameFor(c)
  BY <1>2, <1>3, PlaceElsewhere
<1>4. CASE \E h \in Handlers : Begin(h, c)
  BY <1>1, <1>2, <1>4, PlaceBegins
<1>5. ASSUME NEW h \in Handlers, Has(h, c), Process(h) \/ Throws(h)
      PROVE  PlaceOf(c)'
  BY <1>1, <1>2, <1>5, PlaceBefore, PlaceSent, PlaceGivenUp, PlaceMoves,
     PlaceEnds DEF Process
<1>6. CASE \E b \in BOOLEAN : <<c, b>> \in onward /\ Arrive(<<c, b>>)
  BY <1>1, <1>2, <1>6, PlaceArrives
<1> QED BY <1>1, <1>2, <1>3, <1>4, <1>5, <1>6, StepOf

\* At the start each customer has a job, and nothing else.
LEMMA MarkInit == Init => MarkInv
<1> SUFFICES ASSUME Init PROVE MarkInv
  OBVIOUS
<1>1. /\ onward = {} /\ messaged = {}
      /\ \A h \in Handlers : handler[h].at = "idle"
      /\ \A c \in Customers : row[c].messageSent = FALSE
  BY IdleType DEF Init
<1>2. ASSUME NEW c \in Customers PROVE PlaceOf(c)
  BY <1>1 DEF PlaceOf, Queued, InHand, Later, Kept, Has, Busy, Untouched
<1> QED BY <1>2, TypeInit DEF MarkInv

\* Whoever got a message is counted as one who did, in the row or in a job
\* that will write it: all but those whose own job threw or came twice.
THEOREM MarksAreKept == Spec => []MarksKept
<1>1. MarkInv => MarksKept
  <2> SUFFICES ASSUME MarkInv,
                      NEW c \in messaged \ (repeated \cup failed)
               PROVE  row[c].messageSent \/ Carried(c)
    BY DEF MarksKept
  <2>1. c \in Customers /\ Kept(c)
    BY DEF MarkInv, TypeInv, TypeOK, PlaceOf
  <2> QED BY <2>1 DEF Kept, Carried, Carries, Has
<1> QED BY <1>1, MarkInit, MarkStep, PTL DEF Spec

-----------------------------------------------------------------------------
(* The limit of customers.                                                 *)

\* A row that is marked stays so, unless its customer's job comes twice.
LEMMA MarkStays ==
  ASSUME MarkInv, [Next]_vars, NEW c \in Customers \ repeated',
         row[c].messageSent
  PROVE  row'[c].messageSent
<1>1. TypeInv /\ PlaceOf(c) /\ ~Untouched(c)
  BY RepeatedGrows DEF MarkInv, Untouched
<1>2. ASSUME NEW h \in Handlers, Has(h, c) PROVE handler[h].at = "ack"
  BY <1>1, <1>2 DEF PlaceOf, InHand
<1>3. ASSUME NEW h \in Handlers, Has(h, c), Process(h) \/ Throws(h) \/ Dies(h)
      PROVE  UNCHANGED row
  BY <1>2, <1>3 DEF Process, CheckCustomers, CheckMinute, GetTemplate,
                    LoadTemplate, StoreTemplate, Send, Increment, Abort,
                    Requeue, Release, MoveOn, Acknowledge, Throws, Dies
<1>4. \A b \in BOOLEAN : <<c, b>> \notin onward
  BY <1>1 DEF PlaceOf, Later
<1>5. CASE SameFor(c)
  BY <1>5 DEF SameFor
<1>6. ASSUME NEW h \in Handlers, Begin(h, c) PROVE UNCHANGED row
  BY <1>6 DEF Begin
<1> QED BY <1>1, <1>3, <1>4, <1>5, <1>6, StepOf

\* So those marked or given a job again become no fewer.
LEMMA MarksGrow ==
  ASSUME MarkInv, [Next]_vars
  PROVE  /\ Cardinality((Marked \cup repeated)')
              >= Cardinality(Marked \cup repeated)
         /\ Cardinality(Marked \cup repeated) >= Cardinality(Marked)
         /\ Cardinality((Marked \cup repeated)') \in Nat
         /\ Cardinality(Marked \cup repeated) \in Nat
         /\ Cardinality(Marked) \in Nat
<1>1. TypeInv /\ TypeInv'
  BY TypeStep DEF MarkInv
<1>2. /\ repeated \subseteq Customers /\ repeated' \subseteq Customers
      /\ Marked \subseteq Customers /\ Marked' \subseteq Customers
  BY <1>1 DEF TypeInv, TypeOK, Marked
<1>3. Marked \cup repeated \subseteq (Marked \cup repeated)'
  BY <1>1, <1>2, MarkStays, RepeatedGrows DEF Marked
<1>4. IsFiniteSet((Marked \cup repeated)') /\ IsFiniteSet(Marked \cup repeated)
  BY <1>2, SendingAssumption, FS_Subset
<1> QED BY <1>3, <1>4, FS_Subset, FS_CardinalityType

\* The rows of one customer may change in a step.
LEMMA RowSteps ==
  ASSUME TypeInv, [Next]_vars
  PROVE  \/ UNCHANGED row
         \/ \E h \in Handlers : Release(h) \/ MoveOn(h)
         \/ \E j \in onward : Arrive(j)
BY DEF Next, Process, Begin, CheckCustomers, CheckMinute, GetTemplate,
       LoadTemplate, StoreTemplate, Send, Increment, Abort, Requeue,
       Acknowledge, Throws, Dies, ClearTemplate, WriteTemplate,
       ExpireTemplate, Tick, vars

\* Who is held now was so before, or was to be.
LEMMA HeldFrom ==
  ASSUME TypeInv, [Next]_vars, NEW c \in Customers, row'[c].held
  PROVE  \/ row[c].held
         \/ \E h \in Handlers : handler[h].messageSendType = "LIMIT_HOLD"
<1>1. ASSUME NEW h \in Handlers, Release(h),
             handler[h].messageSendType # "LIMIT_HOLD"
      PROVE  row[c].held
  <2>1. Unlock(handler[h].customer, FALSE, FALSE)
    BY <1>1 DEF Release
  <2>2. handler[h].customer \in Customers
    BY <1>1, AfterFacts
  <2> QED BY <2>1, <2>2, UnlockType DEF TypeInv
<1>2. ASSUME NEW h \in Handlers, MoveOn(h) PROVE row[c].held
  <2>1. PICK d \in Customers, mark \in BOOLEAN : Moved(h, d, mark)
    BY <1>2, MoveFacts
  <2>2. UNCHANGED row \/ Unlock(d, mark, FALSE)
    BY <2>1 DEF Moved
  <2> QED BY <2>2, UnlockType DEF TypeInv
<1>3. ASSUME NEW j \in onward, Arrive(j) PROVE row[c].held
  <2>1. PICK d \in Customers, mark \in BOOLEAN : j = <<d, mark>>
    BY DEF TypeInv, TypeOK
  <2>2. Unlock(d, mark, FALSE)
    BY <1>3, <2>1 DEF Arrive
  <2> QED BY <2>2, UnlockType DEF TypeInv
<1> QED BY <1>1, <1>2, <1>3, RowSteps

\* Who is to be held now was so before, or the limit has just been seen.
LEMMA HoldingFrom ==
  ASSUME TypeInv, [Next]_vars, NEW h \in Handlers,
         handler'[h].messageSendType = "LIMIT_HOLD"
  PROVE  handler[h].messageSendType = "LIMIT_HOLD" \/ CustomersLimited
<1>1. ASSUME NEW g \in Handlers, Moves(g),
             handler'[g].messageSendType # "LIMIT_HOLD"
      PROVE  handler[h].messageSendType = "LIMIT_HOLD"
  BY <1>1 DEF Moves
<1>2. ASSUME NEW g \in Handlers, NEW c \in Customers, Begin(g, c)
      PROVE  handler[h].messageSendType = "LIMIT_HOLD"
  BY <1>1, <1>2, BeginFacts DEF TypeInv
<1>3. ASSUME NEW g \in Handlers, CheckCustomers(g) \/ CheckMinute(g)
      PROVE  handler[h].messageSendType = "LIMIT_HOLD" \/ CustomersLimited
  <2>1. /\ Moves(g)
        /\ \/ handler'[g].messageSendType = handler[g].messageSendType
           \/ handler'[g].messageSendType = "LIMIT_HOLD" /\ CustomersLimited
           \/ handler'[g].messageSendType = "LIMIT_REQUEUE"
           \/ handler'[g].messageSendType = "SEND"
    BY <1>3, CheckFacts DEF TypeInv
  <2> QED BY <2>1 DEF Moves
<1>4. ASSUME NEW g \in Handlers,
             GetTemplate(g) \/ LoadTemplate(g) \/ StoreTemplate(g)
      PROVE  handler[h].messageSendType = "LIMIT_HOLD"
  <2>1. Moves(g) /\ handler'[g].messageSendType = handler[g].messageSendType
    BY <1>4, FetchFacts DEF TypeInv
  <2> QED BY <2>1 DEF Moves
<1>5. ASSUME NEW g \in Handlers,
             \/ Send(g) \/ Increment(g) \/ Abort(g) \/ Requeue(g)
             \/ Release(g) \/ MoveOn(g)
      PROVE  handler[h].messageSendType = "LIMIT_HOLD"
  BY <1>1, <1>5, AfterFacts
<1>6. ASSUME NEW g \in Handlers, Acknowledge(g) \/ Throws(g) \/ Dies(g)
      PROVE  handler[h].messageSendType = "LIMIT_HOLD"
  <2>1. handler' = [handler EXCEPT ![g] = Idle]
    BY <1>6 DEF Acknowledge, Throws, Dies
  <2> QED BY <1>1, <2>1, IdleFacts DEF TypeInv
<1>7. ASSUME \/ \E j \in onward : Arrive(j)
             \/ ClearTemplate \/ WriteTemplate \/ ExpireTemplate
             \/ Tick \/ UNCHANGED vars
      PROVE  handler[h].messageSendType = "LIMIT_HOLD"
  <2>1. OverlapLoads \/ UNCHANGED handler
    BY <1>7 DEF Arrive, ClearTemplate, WriteTemplate, ExpireTemplate, Tick, vars
  <2> QED BY <2>1, OverlapFacts DEF TypeInv
<1> QED BY <1>2, <1>3, <1>4, <1>5, <1>6, <1>7 DEF Next, Process

\* Nobody is held before the limit is reached, and then it stays reached.
LEMMA LimitStep == LimitInv /\ [Next]_vars => LimitInv'
<1> SUFFICES ASSUME LimitInv, [Next]_vars PROVE LimitInv'
  OBVIOUS
<1>1. TypeInv /\ MarkInv /\ MarkInv'
  BY MarkStep DEF LimitInv, MarkInv
<1> SUFFICES ASSUME \/ \E c \in Customers : row'[c].held
                    \/ \E h \in Handlers :
                         handler'[h].messageSendType = "LIMIT_HOLD"
             PROVE  Reached'
  BY <1>1 DEF LimitInv, HeldAtLimit, Holding, Reached
<1>2. \/ \E c \in Customers : row[c].held
      \/ \E h \in Handlers : handler[h].messageSendType = "LIMIT_HOLD"
      \/ CustomersLimited
  BY <1>1, HeldFrom, HoldingFrom
<1>3. Reached \/ Cardinality(Marked) >= MaxCustomers
  BY <1>2 DEF LimitInv, HeldAtLimit, Holding, Reached, CustomersLimited
<1> QED BY <1>1, <1>3, MarksGrow, SendingAssumption DEF Reached

\* A customer is held only when as many as the limit allows have been marked,
\* those counted whose own job came twice and may have taken the mark back.
THEOREM HeldOnlyAtLimit == Spec => []HeldAtLimit
<1>1. Init => LimitInv
  <2> SUFFICES ASSUME Init PROVE LimitInv
    OBVIOUS
  <2>1. /\ \A c \in Customers : row[c].held = FALSE
        /\ \A h \in Handlers : handler[h] = Idle
    BY DEF Init
  <2> QED BY <2>1, MarkInit, IdleType DEF LimitInv, HeldAtLimit, Holding
<1>2. LimitInv => HeldAtLimit
  BY DEF LimitInv
<1> QED BY <1>1, <1>2, LimitStep, PTL DEF Spec
=============================================================================
