----------------------- MODULE WorkOrchestratorProofs -----------------------
(***************************************************************************)
(* Proofs about the life of a job: that it is typed, that no job is lost   *)
(* while every publish arrives, that a job fails only after its retries,   *)
(* and that without crashes and closed connections it has one handler.     *)
(***************************************************************************)
EXTENDS WorkOrchestrator, TLAPS

Handlers == [Copies -> Handler \cup {Idle}]

LEMMA Busy ==
  ASSUME TypeOK, NEW w \in Workers, NEW m \in Copies, handler[w][m].point # "idle"
  PROVE  handler[w][m] \in Handler
BY DEF TypeOK, Idle

LEMMA FreeCopy ==
  ASSUME HasFree
  PROVE  Free \in Copies /\ message[Free] = NoMessage
BY DEF HasFree, Free

LEMMA SendTyped ==
  ASSUME TypeOK, NEW j \in Jobs, NEW n \in 0..MaxRetries, SendJobToQueue(j, n)
  PROVE  message' \in [Copies -> Message \cup {NoMessage}]
<1>1. [job |-> j, deliveryCount |-> n, at |-> "sent"] \in Message
  BY DEF Message
<1> QED BY <1>1, FreeCopy DEF SendJobToQueue, TypeOK

LEMMA MessageTyped ==
  ASSUME TypeOK, NEW m \in Copies, message[m] # NoMessage,
         NEW at \in {"sent", "queued"} \cup Workers
  PROVE  [message[m] EXCEPT !.at = at] \in Message
BY DEF TypeOK, Message

LEMMA TakenBackTyped ==
  ASSUME TypeOK, NEW w \in Workers
  PROVE  TakenBackFrom(w) \in [Copies -> Message \cup {NoMessage}]
BY MessageTyped DEF TakenBackFrom, Delivered, TypeOK

LEMMA ComesTyped ==
  ASSUME TypeOK, NEW w \in Workers, NEW m \in Copies, NEW p \in HandlerPoint,
         handler[w][m].point # "idle", Comes(w, m, p)
  PROVE  handler' \in [Workers -> Handlers]
<1>1. [handler[w][m] EXCEPT !.point = p] \in Handler
  BY Busy DEF Handler
<1>2. handler' = [handler EXCEPT ![w] =
                    [handler[w] EXCEPT ![m] = [handler[w][m] EXCEPT !.point = p]]]
  BY DEF Comes
<1> QED BY <1>1, <1>2 DEF TypeOK, Handlers

LEMMA StoppedTyped ==
  ASSUME TypeOK, NEW w \in Workers, Stopped(w)
  PROVE  /\ link' \in [Workers -> {"up", "cut", "down"}]
         /\ message' \in [Copies -> Message \cup {NoMessage}]
         /\ handler' \in [Workers -> Handlers]
BY TakenBackTyped DEF Stopped, TypeOK, Handlers

LEMMA CaughtTyped ==
  ASSUME TypeOK, NEW j \in Jobs, Caught(j)
  PROVE  errors' \in [Jobs -> 0..MaxErrors]
<1>1. MaxErrors \in Nat
  BY OrchestratorAssumption DEF MaxErrors
<1>2. (IF errors[j] < MaxErrors THEN errors[j] + 1 ELSE errors[j]) \in 0..MaxErrors
  BY <1>1 DEF TypeOK
<1> QED BY <1>2 DEF Caught, TypeOK

LEMMA HandleTyped ==
  ASSUME TypeOK, NEW w \in Workers, NEW m \in Copies, Handle(w, m)
  PROVE  TypeOK'
<1> DEFINE h == handler[w][m]
<1>1. h.point # "idle"
  BY DEF Handle, ProcessReturns, ProcessThrows, CompleteJob, RetryJob, FailJob,
         MessageACK, AckThrows, AtAck
<1>2. h \in Handler /\ h.job \in Jobs /\ h.deliveryCount \in 0..MaxRetries
  BY <1>1, Busy DEF Handler
<1>3. ASSUME NEW p \in HandlerPoint, Comes(w, m, p)
      PROVE  handler' \in [Workers -> [Copies -> Handler \cup {Idle}]]
  BY <1>1, <1>3, ComesTyped DEF Handlers
<1>4. {"returned", "completed", "caught", "retried", "failed"} \subseteq HandlerPoint
  BY DEF HandlerPoint
<1>5. CASE ProcessReturns(w, m)
  BY <1>2, <1>3, <1>4, <1>5 DEF ProcessReturns, TypeOK
<1>6. CASE ProcessThrows(w, m)
  BY <1>2, <1>3, <1>4, <1>6, CaughtTyped DEF ProcessThrows, TypeOK
<1>7. CASE CompleteJob(w, m)
  BY <1>2, <1>3, <1>4, <1>7 DEF CompleteJob, TypeOK
<1>8. CASE RetryJob(w, m)
  <2>1. CountAfterError(h) \in 0..MaxRetries
    BY <1>2, <1>8, OrchestratorAssumption DEF RetryJob, RetriesUsedUp, CountAfterError
  <2>2. message' \in [Copies -> Message \cup {NoMessage}]
    BY <1>2, <1>8, <2>1, SendTyped DEF RetryJob
  <2> QED BY <1>3, <1>4, <1>8, <2>2 DEF RetryJob, TypeOK
<1>9. CASE FailJob(w, m)
  BY <1>2, <1>3, <1>4, <1>9 DEF FailJob, TypeOK
<1>10. CASE MessageACK(w, m)
  BY <1>10 DEF MessageACK, TypeOK
<1>11. CASE AckThrows(w, m)
  <2>1. CASE h.point = "completed"
    BY <1>2, <1>3, <1>4, <1>11, <2>1, CaughtTyped DEF AckThrows, TypeOK
  <2>2. CASE h.point # "completed"
    BY <1>11, <2>2, StoppedTyped DEF AckThrows, TypeOK, Handlers
  <2> QED BY <2>1, <2>2
<1> QED BY <1>5, <1>6, <1>7, <1>8, <1>9, <1>10, <1>11 DEF Handle

(***************************************************************************)
(* Every step is typed: a delivery count never passes the retries of the   *)
(* processor, and every handler belongs to a message.                      *)
(***************************************************************************)
THEOREM TypeInvariant == Spec => []TypeOK
<1>1. Init => TypeOK
  <2>1. 0 \in 0..MaxErrors /\ 0 \in 0..MaxCrashes /\ 0 \in 0..MaxCuts
          /\ 0 \in 0..MaxLosses
    BY OrchestratorAssumption DEF MaxErrors
  <2> QED BY <2>1 DEF Init, TypeOK
<1>2. TypeOK /\ [Next]_vars => TypeOK'
  <2> SUFFICES ASSUME TypeOK, [Next]_vars
               PROVE  TypeOK'
    OBVIOUS
  <2>1. ASSUME NEW j \in Jobs, Add(j)
        PROVE  TypeOK'
    <3>1. 0 \in 0..MaxRetries
      BY OrchestratorAssumption
    <3> QED BY <2>1, <3>1, SendTyped DEF Add, TypeOK
  <2>2. ASSUME NEW m \in Copies, Arrive(m)
        PROVE  TypeOK'
    <3>1. [message[m] EXCEPT !.at = "queued"] \in Message
      BY <2>2, MessageTyped DEF Arrive
    <3> QED BY <2>2, <3>1 DEF Arrive, TypeOK
  <2>3. ASSUME NEW m \in Copies, LosePublish(m)
        PROVE  TypeOK'
    <3>1. losses' \in 0..MaxLosses
      BY <2>3, OrchestratorAssumption DEF LosePublish, TypeOK
    <3> QED BY <2>3, <3>1 DEF LosePublish, TypeOK
  <2>4. ASSUME NEW w \in Workers, NEW m \in Copies, Deliver(w, m)
        PROVE  TypeOK'
    <3> DEFINE h == [point |-> "processing", job |-> message[m].job,
                     deliveryCount |-> message[m].deliveryCount]
    <3>1. h \in Handler
      BY <2>4 DEF Deliver, TypeOK, Message, Handler, HandlerPoint
    <3>2. [message[m] EXCEPT !.at = w] \in Message
      BY <2>4, MessageTyped DEF Deliver
    <3>3. handler' = [handler EXCEPT ![w] = [handler[w] EXCEPT ![m] = h]]
      BY <2>4 DEF Deliver
    <3>4. handler' \in [Workers -> [Copies -> Handler \cup {Idle}]]
      BY <3>1, <3>3 DEF TypeOK
    <3>5. message' \in [Copies -> Message \cup {NoMessage}]
      BY <2>4, <3>2 DEF Deliver, TypeOK
    <3> QED BY <2>4, <3>4, <3>5 DEF Deliver, TypeOK
  <2>5. ASSUME NEW w \in Workers, Crash(w)
        PROVE  TypeOK'
    <3>1. crashes' \in 0..MaxCrashes
      BY <2>5, OrchestratorAssumption DEF Crash, TypeOK
    <3> QED BY <2>5, <3>1, StoppedTyped DEF Crash, TypeOK, Handlers
  <2>6. ASSUME NEW w \in Workers, CutOff(w)
        PROVE  TypeOK'
    <3>1. cuts' \in 0..MaxCuts
      BY <2>6, OrchestratorAssumption DEF CutOff, TypeOK
    <3> QED BY <2>6, <3>1, TakenBackTyped DEF CutOff, TypeOK
  <2>7. ASSUME NEW w \in Workers, Restart(w)
        PROVE  TypeOK'
    BY <2>7 DEF Restart, TypeOK
  <2>8. CASE UNCHANGED vars
    BY <2>8 DEF vars, TypeOK
  <2> QED BY <2>1, <2>2, <2>3, <2>4, <2>5, <2>6, <2>7, <2>8, HandleTyped DEF Next
<1> QED BY <1>1, <1>2, PTL DEF Spec

-----------------------------------------------------------------------------
(* What the steps do, point by point.                                      *)

LEMMA ComesEffect ==
  ASSUME TypeOK, NEW w \in Workers, NEW m \in Copies, NEW p \in HandlerPoint \ {"idle"},
         handler[w][m].point # "idle", Comes(w, m, p)
  PROVE  /\ handler'[w][m].point = p
         /\ handler'[w][m].point # "idle"
         /\ handler'[w][m].job = handler[w][m].job
         /\ handler'[w][m].deliveryCount = handler[w][m].deliveryCount
         /\ \A v \in Workers, n \in Copies :
              v # w \/ n # m => handler'[v][n] = handler[v][n]
<1>1. handler[w][m] \in Handler
  BY Busy
<1>2. handler' = [handler EXCEPT ![w] =
                    [handler[w] EXCEPT ![m] = [handler[w][m] EXCEPT !.point = p]]]
  BY DEF Comes
<1>3. handler'[w][m] = [handler[w][m] EXCEPT !.point = p]
  BY <1>2 DEF TypeOK
<1> QED BY <1>1, <1>2, <1>3 DEF TypeOK, Handler

LEMMA SendEffect ==
  ASSUME TypeOK, NEW j \in Jobs, NEW n \in 0..MaxRetries, SendJobToQueue(j, n)
  PROVE  \E m \in Copies :
           /\ message[m] = NoMessage
           /\ message'[m] # NoMessage
           /\ message'[m].job = j
           /\ message'[m].deliveryCount = n
           /\ message'[m].at = "sent"
           /\ \A k \in Copies \ {m} : message'[k] = message[k]
<1> DEFINE new == [job |-> j, deliveryCount |-> n, at |-> "sent"]
<1>1. new \in Message
  BY DEF Message
<1>2. new # NoMessage
  BY <1>1, OrchestratorAssumption
<1>3. Free \in Copies /\ message[Free] = NoMessage
  BY FreeCopy DEF SendJobToQueue
<1>4. message' = [message EXCEPT ![Free] = new]
  BY DEF SendJobToQueue
<1>5. message'[Free] = new /\ \A k \in Copies \ {Free} : message'[k] = message[k]
  BY <1>3, <1>4 DEF TypeOK
<1> QED BY <1>2, <1>3, <1>5

\* Moving a message keeps its job and its count.
LEMMA MovedMessage ==
  ASSUME TypeOK, NEW m \in Copies, message[m] # NoMessage,
         NEW at \in {"sent", "queued"} \cup Workers
  PROVE  LET moved == [message[m] EXCEPT !.at = at]
         IN /\ moved # NoMessage
            /\ moved.job = message[m].job
            /\ moved.deliveryCount = message[m].deliveryCount
            /\ moved.at = at
<1>1. message[m] \in Message
  BY DEF TypeOK
<1>2. [message[m] EXCEPT !.at = at] # NoMessage
  BY MessageTyped, OrchestratorAssumption
<1> QED BY <1>1, <1>2 DEF Message

LEMMA ArriveEffect ==
  ASSUME TypeOK, NEW m \in Copies, Arrive(m)
  PROVE  /\ message[m] # NoMessage /\ message'[m] # NoMessage
         /\ message'[m].job = message[m].job
         /\ message'[m].deliveryCount = message[m].deliveryCount
         /\ message[m].at = "sent" /\ message'[m].at = "queued"
         /\ \A n \in Copies \ {m} : message'[n] = message[n]
<1>1. message'[m] = [message[m] EXCEPT !.at = "queued"]
        /\ \A n \in Copies \ {m} : message'[n] = message[n]
  BY DEF Arrive, TypeOK
<1>2. message[m] # NoMessage /\ message[m].at = "sent"
  BY DEF Arrive
<1> QED BY <1>1, <1>2, MovedMessage

LEMMA TakenBackEffect ==
  ASSUME TypeOK, NEW w \in Workers, message' = TakenBackFrom(w)
  PROVE  \A m \in Copies :
           /\ message'[m] = NoMessage <=> message[m] = NoMessage
           /\ message[m] # NoMessage =>
                /\ message'[m].job = message[m].job
                /\ message'[m].deliveryCount = message[m].deliveryCount
                /\ message'[m].at = IF message[m].at = w THEN "queued" ELSE message[m].at
<1> SUFFICES ASSUME NEW m \in Copies
             PROVE  /\ message'[m] = NoMessage <=> message[m] = NoMessage
                    /\ message[m] # NoMessage =>
                         /\ message'[m].job = message[m].job
                         /\ message'[m].deliveryCount = message[m].deliveryCount
                         /\ message'[m].at = IF message[m].at = w THEN "queued"
                                                                  ELSE message[m].at
  OBVIOUS
<1>1. CASE m \in Delivered(w)
  <2>1. message'[m] = [message[m] EXCEPT !.at = "queued"]
    BY <1>1 DEF TakenBackFrom
  <2>2. message[m] # NoMessage /\ message[m].at = w
    BY <1>1 DEF Delivered
  <2> QED BY <2>1, <2>2, MovedMessage
<1>2. CASE m \notin Delivered(w)
  BY <1>2 DEF TakenBackFrom, Delivered
<1> QED BY <1>1, <1>2

LEMMA StoppedEffect ==
  ASSUME TypeOK, NEW w \in Workers, Stopped(w)
  PROVE  /\ link'[w] = "down" /\ \A v \in Workers \ {w} : link'[v] = link[v]
         /\ message' = TakenBackFrom(w)
         /\ \A m \in Copies : handler'[w][m].point = "idle"
         /\ \A v \in Workers \ {w} : handler'[v] = handler[v]
BY DEF Stopped, TypeOK, Idle

LEMMA DeliverEffect ==
  ASSUME TypeOK, NEW w \in Workers, NEW m \in Copies, Deliver(w, m)
  PROVE  /\ message[m] # NoMessage /\ message'[m] # NoMessage
         /\ message'[m].job = message[m].job
         /\ message'[m].deliveryCount = message[m].deliveryCount
         /\ message'[m].at = w
         /\ \A n \in Copies \ {m} : message'[n] = message[n]
         /\ handler'[w][m].point = "processing"
         /\ handler'[w][m].job = message[m].job
         /\ handler'[w][m].deliveryCount = message[m].deliveryCount
         /\ \A v \in Workers, n \in Copies :
              v # w \/ n # m => handler'[v][n] = handler[v][n]
<1> DEFINE h == [point |-> "processing", job |-> message[m].job,
                 deliveryCount |-> message[m].deliveryCount]
<1>1. message'[m] = [message[m] EXCEPT !.at = w]
        /\ \A n \in Copies \ {m} : message'[n] = message[n]
  BY DEF Deliver, TypeOK
<1>2. handler' = [handler EXCEPT ![w] = [handler[w] EXCEPT ![m] = h]]
  BY DEF Deliver
<1>3. handler'[w][m] = h
        /\ \A v \in Workers, n \in Copies :
             v # w \/ n # m => handler'[v][n] = handler[v][n]
  BY <1>2 DEF TypeOK
<1>4. message[m] # NoMessage
  BY DEF Deliver
<1> QED BY <1>1, <1>3, <1>4, MovedMessage

LEMMA AckEffect ==
  ASSUME TypeOK, NEW w \in Workers, NEW m \in Copies, MessageACK(w, m)
  PROVE  /\ message'[m] = NoMessage
         /\ \A n \in Copies \ {m} : message'[n] = message[n]
         /\ handler'[w][m].point = "idle"
         /\ \A v \in Workers, n \in Copies :
              v # w \/ n # m => handler'[v][n] = handler[v][n]
BY DEF MessageACK, TypeOK, Idle

\* A handler that does not retry, acknowledge or stop its worker only moves
\* on, in the order of handleMessage.
Moves(w, m, p, q) ==
  /\ handler[w][m].point = p
  /\ Comes(w, m, q)
  /\ UNCHANGED <<added, message, link>>

LEMMA HandleEffect ==
  ASSUME NEW w \in Workers, NEW m \in Copies, Handle(w, m)
  PROVE  /\ UNCHANGED added
         /\ \/ Moves(w, m, "processing", "returned") /\ ProcessReturns(w, m)
            \/ Moves(w, m, "processing", "caught") /\ ProcessThrows(w, m)
            \/ Moves(w, m, "returned", "completed") /\ CompleteJob(w, m)
            \/ Moves(w, m, "caught", "failed") /\ FailJob(w, m)
            \/ /\ Moves(w, m, "completed", "caught")
               /\ AckThrows(w, m) /\ link[w] = "cut"
               /\ Caught(handler[w][m].job)
            \/ RetryJob(w, m)
            \/ MessageACK(w, m)
            \/ /\ Stopped(w) /\ UNCHANGED errors
               /\ AckThrows(w, m) /\ link[w] = "cut"
BY DEF Handle, ProcessReturns, ProcessThrows, CompleteJob, RetryJob, FailJob,
       MessageACK, AckThrows, AtAck, Moves
-----------------------------------------------------------------------------
(* A message that is delivered and the handler it was delivered to.        *)

At(w, m) == message[m] # NoMessage /\ message[m].at = w

Sync ==
  /\ \A w \in Workers, m \in Copies :
       At(w, m) => /\ link[w] = "up"
                   /\ handler[w][m].point # "idle"
                   /\ handler[w][m].job = message[m].job
  /\ \A w \in Workers, m \in Copies :
       link[w] = "up" /\ handler[w][m].point # "idle" => At(w, m)
  /\ \A w \in Workers, m \in Copies :
       link[w] = "down" => handler[w][m].point = "idle"

LEMMA SyncStopped ==
  ASSUME TypeOK, Sync, NEW w \in Workers, Stopped(w)
  PROVE  Sync'
<1>1. /\ link'[w] = "down"
      /\ \A v \in Workers \ {w} : link'[v] = link[v] /\ handler'[v] = handler[v]
      /\ message' = TakenBackFrom(w)
      /\ \A m \in Copies : handler'[w][m].point = "idle"
  BY StoppedEffect
<1>2. \A v \in Workers, m \in Copies : At(v, m)' <=> At(v, m) /\ v # w
  BY <1>1, TakenBackEffect, OrchestratorAssumption DEF At
<1>3. \A v \in Workers, m \in Copies : At(v, m)' => message'[m].job = message[m].job
  BY <1>1, TakenBackEffect DEF At
<1> QED BY <1>1, <1>2, <1>3 DEF Sync

LEMMA SyncSend ==
  ASSUME TypeOK, Sync, NEW j \in Jobs, NEW n \in 0..MaxRetries, SendJobToQueue(j, n)
  PROVE  \A w \in Workers, m \in Copies :
           /\ At(w, m)' <=> At(w, m)
           /\ At(w, m) => message'[m].job = message[m].job
BY SendEffect, OrchestratorAssumption DEF At

LEMMA SyncMoves ==
  ASSUME TypeOK, Sync, NEW w \in Workers, NEW m \in Copies,
         NEW p \in HandlerPoint \ {"idle"}, NEW q \in HandlerPoint \ {"idle"},
         Moves(w, m, p, q)
  PROVE  Sync'
<1>1. /\ handler'[w][m].point # "idle"
      /\ handler'[w][m].job = handler[w][m].job
      /\ \A v \in Workers, n \in Copies :
           v # w \/ n # m => handler'[v][n] = handler[v][n]
  BY ComesEffect DEF Moves
<1>2. UNCHANGED <<message, link>> /\ handler[w][m].point # "idle"
  BY DEF Moves
<1>3. \A v \in Workers, n \in Copies : At(v, n)' <=> At(v, n)
  BY <1>2 DEF At
<1> QED BY <1>1, <1>2, <1>3 DEF Sync

LEMMA SyncHandle ==
  ASSUME TypeOK, Sync, NEW w \in Workers, NEW m \in Copies, Handle(w, m)
  PROVE  Sync'
<1>1. {"processing", "returned", "completed", "caught", "retried", "failed"}
        \subseteq HandlerPoint \ {"idle"}
  BY DEF HandlerPoint
<1>2. ASSUME NEW p \in HandlerPoint \ {"idle"}, NEW q \in HandlerPoint \ {"idle"},
             Moves(w, m, p, q)
      PROVE  Sync'
  BY <1>2, SyncMoves
<1>3. CASE RetryJob(w, m)
  <2>1. handler[w][m].job \in Jobs /\ CountAfterError(handler[w][m]) \in 0..MaxRetries
    BY <1>3, Busy, OrchestratorAssumption
    DEF RetryJob, RetriesUsedUp, CountAfterError, Handler
  <2>2. SendJobToQueue(handler[w][m].job, CountAfterError(handler[w][m]))
    BY <1>3 DEF RetryJob
  <2>3. \A v \in Workers, n \in Copies :
          /\ At(v, n)' <=> At(v, n)
          /\ At(v, n) => message'[n].job = message[n].job
    BY <2>1, <2>2, SyncSend
  <2>4. handler[w][m].point # "idle" /\ Comes(w, m, "retried") /\ UNCHANGED link
    BY <1>3 DEF RetryJob
  <2>5. /\ handler'[w][m].point # "idle"
        /\ handler'[w][m].job = handler[w][m].job
        /\ \A v \in Workers, n \in Copies :
             v # w \/ n # m => handler'[v][n] = handler[v][n]
    BY <1>1, <2>4, ComesEffect
  <2> QED BY <2>3, <2>4, <2>5 DEF Sync
<1>4. CASE MessageACK(w, m)
  <2>1. /\ message'[m] = NoMessage
        /\ \A n \in Copies \ {m} : message'[n] = message[n]
        /\ handler'[w][m].point = "idle"
        /\ \A v \in Workers, n \in Copies :
             v # w \/ n # m => handler'[v][n] = handler[v][n]
    BY <1>4, AckEffect
  <2>2. At(w, m) /\ UNCHANGED link
    BY <1>4 DEF MessageACK, AtAck, Sync
  <2>3. \A v \in Workers, n \in Copies : At(v, n)' <=> At(v, n) /\ n # m
    BY <2>1 DEF At
  <2>4. \A v \in Workers : At(v, m) => v = w
    BY <2>2 DEF At
  <2>5. \A v \in Workers : link[v] = "up" /\ handler'[v][m].point # "idle" => FALSE
    BY <2>1, <2>4 DEF Sync
  <2> QED BY <2>1, <2>2, <2>3, <2>5 DEF Sync
<1>5. CASE Stopped(w)
  BY <1>5, SyncStopped
<1> QED BY <1>1, <1>2, <1>3, <1>4, <1>5, HandleEffect

LEMMA SyncDeliver ==
  ASSUME TypeOK, Sync, NEW w \in Workers, NEW m \in Copies, Deliver(w, m)
  PROVE  Sync'
<1>1. /\ message[m] # NoMessage /\ message'[m] # NoMessage
      /\ message'[m].job = message[m].job
      /\ message'[m].at = w
      /\ \A n \in Copies \ {m} : message'[n] = message[n]
      /\ handler'[w][m].point = "processing"
      /\ handler'[w][m].job = message[m].job
      /\ \A v \in Workers, n \in Copies :
           v # w \/ n # m => handler'[v][n] = handler[v][n]
  BY DeliverEffect
<1>2. link[w] = "up" /\ UNCHANGED link /\ message[m].at = "queued"
  BY DEF Deliver
<1>3. \A v \in Workers : ~At(v, m)
  BY <1>2, OrchestratorAssumption DEF At
<1>4. \A v \in Workers, n \in Copies :
        At(v, n)' <=> IF n = m THEN v = w ELSE At(v, n)
  BY <1>1 DEF At
<1>5. \A v \in Workers \ {w}, n \in Copies : n = m => ~At(v, n)'
  BY <1>4
<1> QED BY <1>1, <1>2, <1>3, <1>4, <1>5 DEF Sync

LEMMA SyncStep ==
  ASSUME TypeOK, Sync, [Next]_vars
  PROVE  Sync'
<1>1. ASSUME NEW j \in Jobs, Add(j)
      PROVE  Sync'
  <2>1. 0 \in 0..MaxRetries
    BY OrchestratorAssumption
  <2>2. \A v \in Workers, n \in Copies :
          /\ At(v, n)' <=> At(v, n)
          /\ At(v, n) => message'[n].job = message[n].job
    BY <1>1, <2>1, SyncSend DEF Add
  <2> QED BY <1>1, <2>2 DEF Add, Sync
<1>2. ASSUME NEW m \in Copies, Arrive(m) \/ LosePublish(m)
      PROVE  Sync'
  <2>1. UNCHANGED <<handler, link>> /\ message[m].at = "sent"
    BY <1>2 DEF Arrive, LosePublish
  <2>2. \A n \in Copies \ {m} : message'[n] = message[n]
    BY <1>2 DEF Arrive, LosePublish, TypeOK
  <2>3. message'[m] = NoMessage \/ message'[m].at = "queued"
    BY <1>2, ArriveEffect DEF LosePublish, TypeOK
  <2>4. \A v \in Workers, n \in Copies :
          (At(v, n)' <=> At(v, n)) /\ (At(v, n)' => n # m)
    BY <2>1, <2>2, <2>3, OrchestratorAssumption DEF At
  <2> QED BY <2>1, <2>2, <2>4 DEF Sync
<1>3. ASSUME NEW w \in Workers, Crash(w)
      PROVE  Sync'
  BY <1>3, SyncStopped DEF Crash
<1>4. ASSUME NEW w \in Workers, CutOff(w)
      PROVE  Sync'
  <2>1. /\ message' = TakenBackFrom(w) /\ UNCHANGED handler
        /\ link'[w] = "cut" /\ \A v \in Workers \ {w} : link'[v] = link[v]
    BY <1>4 DEF CutOff, TypeOK
  <2>2. \A v \in Workers, m \in Copies :
          /\ At(v, m)' <=> At(v, m) /\ v # w
          /\ At(v, m)' => message'[m].job = message[m].job
    BY <2>1, TakenBackEffect, OrchestratorAssumption DEF At
  <2> QED BY <2>1, <2>2 DEF Sync
<1>5. ASSUME NEW w \in Workers, Restart(w)
      PROVE  Sync'
  <2>1. /\ UNCHANGED <<message, handler>> /\ link[w] = "down" /\ link'[w] = "up"
        /\ \A v \in Workers \ {w} : link'[v] = link[v]
    BY <1>5 DEF Restart, TypeOK
  <2>2. \A v \in Workers, m \in Copies : At(v, m)' <=> At(v, m)
    BY <2>1 DEF At
  <2> QED BY <2>1, <2>2 DEF Sync
<1>6. CASE UNCHANGED vars
  BY <1>6 DEF vars, Sync, At
<1> QED BY <1>1, <1>2, <1>3, <1>4, <1>5, <1>6, SyncHandle, SyncDeliver DEF Next

LEMMA SyncInvariant == Spec => [](TypeOK /\ Sync)
<1>1. Init => Sync
  BY DEF Init, Sync, At, Idle
<1> QED BY <1>1, TypeInvariant, SyncStep, PTL DEF Spec
-----------------------------------------------------------------------------
(* The deliveries a copy of a job counts are errors of the job; a handler  *)
(* that has caught an error has one more than its copy counts.             *)

MessageCounted(m) ==
  message[m] # NoMessage => message[m].deliveryCount <= errors[message[m].job]

HandlerCounted(w, m) ==
  LET h == handler[w][m]
  IN /\ h.point # "idle" => h.deliveryCount <= errors[h.job]
     /\ h.point \in {"caught", "retried", "failed"} => h.deliveryCount < errors[h.job]

Counted ==
  /\ \A m \in Copies : MessageCounted(m)
  /\ \A w \in Workers, m \in Copies : HandlerCounted(w, m)
  /\ \A j \in failed : errors[j] > MaxRetries

\* Errors are never forgotten.
LEMMA CaughtEffect ==
  ASSUME TypeOK, NEW j \in Jobs, Caught(j)
  PROVE  /\ errors'[j] >= errors[j]
         /\ \A n \in 0..MaxRetries : n <= errors[j] => n < errors'[j]
         /\ \A i \in Jobs \ {j} : errors'[i] = errors[i]
<1>1. errors'[j] = (IF errors[j] < MaxErrors THEN errors[j] + 1 ELSE errors[j])
        /\ \A i \in Jobs \ {j} : errors'[i] = errors[i]
  BY DEF Caught, TypeOK
<1>2. errors[j] \in 0..MaxErrors /\ MaxErrors = MaxRetries + 1 /\ MaxRetries \in Nat
  BY OrchestratorAssumption DEF TypeOK, MaxErrors
<1> QED BY <1>1, <1>2

LEMMA CountsTyped ==
  ASSUME TypeOK
  PROVE  /\ MaxRetries \in Nat
         /\ \A j \in Jobs : errors[j] \in Nat
         /\ \A m \in Copies : message[m] # NoMessage =>
              message[m].job \in Jobs /\ message[m].deliveryCount \in 0..MaxRetries
         /\ \A w \in Workers, m \in Copies : handler[w][m].point # "idle" =>
              /\ handler[w][m].job \in Jobs
              /\ handler[w][m].deliveryCount \in 0..MaxRetries
         /\ failed \subseteq Jobs
<1>1. \A j \in Jobs : errors[j] \in Nat
  BY OrchestratorAssumption DEF TypeOK, MaxErrors
<1>2. \A m \in Copies : message[m] # NoMessage => message[m] \in Message
  BY DEF TypeOK
<1>3. \A w \in Workers, m \in Copies : handler[w][m].point # "idle" =>
        handler[w][m] \in Handler
  BY Busy
<1> QED BY <1>1, <1>2, <1>3, OrchestratorAssumption DEF TypeOK, Message, Handler

\* A handler that catches an error, whatever it was doing before.
LEMMA CountedCaught ==
  ASSUME TypeOK, Counted, NEW w \in Workers, NEW m \in Copies,
         handler[w][m].point # "idle", Comes(w, m, "caught"),
         Caught(handler[w][m].job), UNCHANGED <<message, failed>>
  PROVE  Counted'
<1> DEFINE j == handler[w][m].job
<1>1. j \in Jobs /\ handler[w][m].deliveryCount \in 0..MaxRetries
        /\ handler[w][m].deliveryCount <= errors[j]
  BY CountsTyped DEF Counted, HandlerCounted
<1>2. /\ errors'[j] >= errors[j]
      /\ handler[w][m].deliveryCount < errors'[j]
      /\ \A i \in Jobs \ {j} : errors'[i] = errors[i]
  BY <1>1, CaughtEffect
<1>3. errors'[j] \in Nat
  BY <1>1, CaughtTyped, OrchestratorAssumption DEF MaxErrors
<1>4. \A i \in Jobs : errors'[i] >= errors[i] /\ errors'[i] \in Nat /\ errors[i] \in Nat
  BY <1>1, <1>2, <1>3, CountsTyped
<1>5. /\ handler'[w][m].point = "caught"
      /\ handler'[w][m].job = j
      /\ handler'[w][m].deliveryCount = handler[w][m].deliveryCount
      /\ \A v \in Workers, n \in Copies :
           v # w \/ n # m => handler'[v][n] = handler[v][n]
  BY ComesEffect DEF HandlerPoint
<1>6. \A n \in Copies : MessageCounted(n)'
  <2> SUFFICES ASSUME NEW n \in Copies, message[n] # NoMessage
               PROVE  message[n].deliveryCount <= errors'[message[n].job]
    BY DEF MessageCounted
  <2> QED BY <1>4, CountsTyped DEF Counted, MessageCounted
<1>7. HandlerCounted(w, m)'
  BY <1>1, <1>2, <1>3, <1>5 DEF HandlerCounted
<1>8. ASSUME NEW v \in Workers, NEW n \in Copies, v # w \/ n # m
      PROVE  HandlerCounted(v, n)'
  <2>1. handler'[v][n] = handler[v][n] /\ HandlerCounted(v, n)
    BY <1>5, <1>8 DEF Counted
  <2> QED BY <2>1, <1>4, CountsTyped DEF HandlerCounted
<1>9. \A i \in failed' : errors'[i] > MaxRetries
  BY <1>4, CountsTyped DEF Counted
<1> QED BY <1>6, <1>7, <1>8, <1>9 DEF Counted

\* A copy that counts no more than the errors of its job.
LEMMA CountedSend ==
  ASSUME TypeOK, Counted, NEW j \in Jobs, NEW n \in 0..MaxRetries,
         SendJobToQueue(j, n), n <= errors[j], UNCHANGED errors
  PROVE  \A m \in Copies : MessageCounted(m)'
<1>1. PICK k \in Copies :
        /\ message'[k].job = j
        /\ message'[k].deliveryCount = n
        /\ \A m \in Copies \ {k} : message'[m] = message[m]
  BY SendEffect
<1>2. MessageCounted(k)'
  BY <1>1 DEF MessageCounted
<1>3. \A m \in Copies \ {k} : MessageCounted(m)'
  BY <1>1 DEF MessageCounted, Counted
<1> QED BY <1>2, <1>3

\* A handler that goes on with no new error.
LEMMA CountedComes ==
  ASSUME TypeOK, Counted, NEW w \in Workers, NEW m \in Copies,
         NEW q \in HandlerPoint \ {"idle"}, handler[w][m].point # "idle",
         Comes(w, m, q), UNCHANGED errors,
         q \in {"retried", "failed"} => handler[w][m].point = "caught",
         q # "caught"
  PROVE  \A v \in Workers, n \in Copies : HandlerCounted(v, n)'
<1>1. /\ handler'[w][m].point = q
      /\ handler'[w][m].job = handler[w][m].job
      /\ handler'[w][m].deliveryCount = handler[w][m].deliveryCount
      /\ \A v \in Workers, n \in Copies :
           v # w \/ n # m => handler'[v][n] = handler[v][n]
  BY ComesEffect
<1>2. HandlerCounted(w, m)'
  BY <1>1 DEF HandlerCounted, Counted
<1>3. \A v \in Workers, n \in Copies : v # w \/ n # m => HandlerCounted(v, n)'
  BY <1>1 DEF HandlerCounted, Counted
<1> QED BY <1>2, <1>3

LEMMA CountedStopped ==
  ASSUME TypeOK, Counted, NEW w \in Workers, Stopped(w), UNCHANGED <<errors, failed>>
  PROVE  Counted'
<1>1. /\ message' = TakenBackFrom(w)
      /\ \A m \in Copies : handler'[w][m].point = "idle"
      /\ \A v \in Workers \ {w} : handler'[v] = handler[v]
  BY StoppedEffect
<1>2. \A m \in Copies : MessageCounted(m)'
  BY <1>1, TakenBackEffect DEF Counted, MessageCounted
<1>3. \A v \in Workers, m \in Copies : HandlerCounted(v, m)'
  BY <1>1 DEF Counted, HandlerCounted
<1> QED BY <1>2, <1>3 DEF Counted

LEMMA CountedHandle ==
  ASSUME TypeOK, Counted, NEW w \in Workers, NEW m \in Copies, Handle(w, m)
  PROVE  Counted'
<1> DEFINE h == handler[w][m]
<1>1. {"returned", "completed", "retried", "failed"} \subseteq HandlerPoint \ {"idle"}
  BY DEF HandlerPoint
<1>2. h.point # "idle" => h.job \in Jobs /\ h.deliveryCount \in 0..MaxRetries
  BY CountsTyped
<1>3. CASE ProcessReturns(w, m)
  <2>1. \A v \in Workers, n \in Copies : HandlerCounted(v, n)'
    BY <1>1, <1>3, CountedComes DEF ProcessReturns
  <2> QED BY <1>3, <2>1 DEF ProcessReturns, Counted, MessageCounted
<1>4. CASE ProcessThrows(w, m)
  BY <1>4, CountedCaught DEF ProcessThrows
<1>5. CASE CompleteJob(w, m)
  <2>1. \A v \in Workers, n \in Copies : HandlerCounted(v, n)'
    BY <1>1, <1>5, CountedComes DEF CompleteJob
  <2> QED BY <1>5, <2>1 DEF CompleteJob, Counted, MessageCounted
<1>6. CASE FailJob(w, m)
  <2>1. \A v \in Workers, n \in Copies : HandlerCounted(v, n)'
    BY <1>1, <1>6, CountedComes DEF FailJob
  <2>2. h.deliveryCount >= MaxRetries /\ h.deliveryCount < errors[h.job]
    BY <1>6 DEF FailJob, RetriesUsedUp, Counted, HandlerCounted
  <2>3. errors[h.job] > MaxRetries
    BY <1>2, <1>6, <2>2, CountsTyped DEF FailJob
  <2>4. \A j \in failed' : errors'[j] > MaxRetries
    BY <1>6, <2>3 DEF FailJob, Counted
  <2> QED BY <1>6, <2>1, <2>4 DEF FailJob, Counted, MessageCounted
<1>7. CASE RetryJob(w, m)
  <2>1. \A v \in Workers, n \in Copies : HandlerCounted(v, n)'
    BY <1>1, <1>7, CountedComes DEF RetryJob
  <2>2. h.point = "caught" /\ ~(h.deliveryCount >= MaxRetries)
          /\ h.deliveryCount < errors[h.job]
    BY <1>7 DEF RetryJob, RetriesUsedUp, Counted, HandlerCounted
  <2>3. h.job \in Jobs /\ CountAfterError(h) \in 0..MaxRetries
          /\ CountAfterError(h) <= errors[h.job]
    BY <1>2, <2>2, CountsTyped DEF CountAfterError
  <2>4. \A n \in Copies : MessageCounted(n)'
    BY <1>7, <2>3, CountedSend DEF RetryJob
  <2> QED BY <1>7, <2>1, <2>4 DEF RetryJob, Counted
<1>8. CASE MessageACK(w, m)
  <2>1. /\ message'[m] = NoMessage
        /\ \A n \in Copies \ {m} : message'[n] = message[n]
        /\ handler'[w][m].point = "idle"
        /\ \A v \in Workers, n \in Copies :
             v # w \/ n # m => handler'[v][n] = handler[v][n]
    BY <1>8, AckEffect
  <2>2. UNCHANGED <<errors, failed>>
    BY <1>8 DEF MessageACK
  <2>3. \A n \in Copies : MessageCounted(n)'
    BY <2>1, <2>2 DEF Counted, MessageCounted
  <2>4. HandlerCounted(w, m)'
    BY <2>1 DEF HandlerCounted
  <2>5. \A v \in Workers, n \in Copies : v # w \/ n # m => HandlerCounted(v, n)'
    BY <2>1, <2>2 DEF Counted, HandlerCounted
  <2> QED BY <2>2, <2>3, <2>4, <2>5 DEF Counted
<1>9. CASE AckThrows(w, m)
  <2>1. CASE h.point = "completed"
    BY <1>9, <2>1, CountedCaught DEF AckThrows
  <2>2. CASE h.point # "completed"
    BY <1>9, <2>2, CountedStopped DEF AckThrows
  <2> QED BY <2>1, <2>2
<1> QED BY <1>3, <1>4, <1>5, <1>6, <1>7, <1>8, <1>9 DEF Handle

LEMMA CountedStep ==
  ASSUME TypeOK, Counted, [Next]_vars
  PROVE  Counted'
<1>1. ASSUME NEW j \in Jobs, Add(j)
      PROVE  Counted'
  <2>1. 0 \in 0..MaxRetries /\ 0 <= errors[j]
    BY CountsTyped
  <2>2. \A m \in Copies : MessageCounted(m)'
    BY <1>1, <2>1, CountedSend DEF Add
  <2> QED BY <1>1, <2>2 DEF Add, Counted, HandlerCounted
<1>2. ASSUME NEW m \in Copies, Arrive(m)
      PROVE  Counted'
  <2>1. \A n \in Copies : MessageCounted(n)'
    BY <1>2, ArriveEffect DEF Arrive, Counted, MessageCounted
  <2> QED BY <1>2, <2>1 DEF Arrive, Counted, HandlerCounted
<1>3. ASSUME NEW m \in Copies, LosePublish(m)
      PROVE  Counted'
  <2>1. \A n \in Copies : MessageCounted(n)'
    BY <1>3 DEF LosePublish, Counted, MessageCounted, TypeOK
  <2> QED BY <1>3, <2>1 DEF LosePublish, Counted, HandlerCounted
<1>4. ASSUME NEW w \in Workers, NEW m \in Copies, Deliver(w, m)
      PROVE  Counted'
  <2>1. /\ message[m] # NoMessage /\ message'[m] # NoMessage
        /\ message'[m].job = message[m].job
        /\ message'[m].deliveryCount = message[m].deliveryCount
        /\ \A n \in Copies \ {m} : message'[n] = message[n]
        /\ handler'[w][m].point = "processing"
        /\ handler'[w][m].job = message[m].job
        /\ handler'[w][m].deliveryCount = message[m].deliveryCount
        /\ \A v \in Workers, n \in Copies :
             v # w \/ n # m => handler'[v][n] = handler[v][n]
    BY <1>4, DeliverEffect
  <2>2. UNCHANGED <<errors, failed>>
    BY <1>4 DEF Deliver
  <2>3. \A n \in Copies : MessageCounted(n)'
    BY <2>1, <2>2 DEF Counted, MessageCounted
  <2>4. HandlerCounted(w, m)'
    BY <2>1, <2>2 DEF Counted, MessageCounted, HandlerCounted
  <2>5. \A v \in Workers, n \in Copies : v # w \/ n # m => HandlerCounted(v, n)'
    BY <2>1, <2>2 DEF Counted, HandlerCounted
  <2> QED BY <2>2, <2>3, <2>4, <2>5 DEF Counted
<1>5. ASSUME NEW w \in Workers, Crash(w)
      PROVE  Counted'
  BY <1>5, CountedStopped DEF Crash
<1>6. ASSUME NEW w \in Workers, CutOff(w)
      PROVE  Counted'
  <2>1. \A m \in Copies : MessageCounted(m)'
    BY <1>6, TakenBackEffect DEF CutOff, Counted, MessageCounted
  <2> QED BY <1>6, <2>1 DEF CutOff, Counted, HandlerCounted
<1>7. ASSUME NEW w \in Workers, Restart(w)
      PROVE  Counted'
  BY <1>7 DEF Restart, Counted, MessageCounted, HandlerCounted
<1>8. CASE UNCHANGED vars
  BY <1>8 DEF vars, Counted, MessageCounted, HandlerCounted
<1> QED BY <1>1, <1>2, <1>3, <1>4, <1>5, <1>6, <1>7, <1>8, CountedHandle DEF Next

(***************************************************************************)
(* handleProcessorError gives a job up only after more errors than its     *)
(* processor has retries, for any number of workers, copies, crashes and   *)
(* closed connections.                                                     *)
(***************************************************************************)
THEOREM FailsAfterRetries == Spec => []FailedAfterRetries
<1>1. Init => Counted
  BY DEF Init, Counted, MessageCounted, HandlerCounted, Idle
<1>2. Counted => FailedAfterRetries
  BY DEF Counted, FailedAfterRetries
<1> QED BY <1>1, <1>2, TypeInvariant, CountedStep, PTL DEF Spec
-----------------------------------------------------------------------------
(* A message is open until its handler has done all but acknowledge that   *)
(* the job was queued again.                                               *)

Open(m) ==
  /\ message[m] # NoMessage
  /\ ~ \E w \in Workers : message[m].at = w /\ handler[w][m].point = "retried"

OpenFor(m, j) == Open(m) /\ message[m].job = j

HasOpen(j) == \E m \in Copies : OpenFor(m, j)

HandlerRecorded(w, m) ==
  /\ handler[w][m].point = "completed" => handler[w][m].job \in completed
  /\ handler[w][m].point = "failed" => handler[w][m].job \in failed

NotLost ==
  /\ \A j \in added : Settled(j) \/ HasOpen(j)
  /\ \A w \in Workers, m \in Copies : HandlerRecorded(w, m)

\* A message in nobody's hands is open.
LEMMA OpenQueued ==
  ASSUME NEW m \in Copies, message[m] # NoMessage,
         message[m].at \in {"sent", "queued"}
  PROVE  Open(m)
BY OrchestratorAssumption DEF Open

\* What a handler does short of queueing the job again leaves its message open.
LEMMA OpenComes ==
  ASSUME TypeOK, NEW w \in Workers, NEW m \in Copies,
         NEW q \in HandlerPoint \ {"idle", "retried"},
         handler[w][m].point # "idle", Comes(w, m, q), UNCHANGED message
  PROVE  \A n \in Copies, j \in Jobs : OpenFor(n, j) => OpenFor(n, j)'
<1>1. /\ handler'[w][m].point = q
      /\ \A v \in Workers, n \in Copies :
           v # w \/ n # m => handler'[v][n] = handler[v][n]
  BY ComesEffect
<1> QED BY <1>1 DEF Open, OpenFor

LEMMA RecordedComes ==
  ASSUME TypeOK, NotLost, NEW w \in Workers, NEW m \in Copies,
         NEW q \in HandlerPoint \ {"idle"},
         handler[w][m].point # "idle", Comes(w, m, q),
         q = "completed" => handler[w][m].job \in completed',
         q = "failed" => handler[w][m].job \in failed',
         completed \subseteq completed', failed \subseteq failed'
  PROVE  \A v \in Workers, n \in Copies : HandlerRecorded(v, n)'
<1>1. /\ handler'[w][m].point = q
      /\ handler'[w][m].job = handler[w][m].job
      /\ \A v \in Workers, n \in Copies :
           v # w \/ n # m => handler'[v][n] = handler[v][n]
  BY ComesEffect
<1>2. HandlerRecorded(w, m)'
  BY <1>1 DEF HandlerRecorded
<1>3. \A v \in Workers, n \in Copies : v # w \/ n # m => HandlerRecorded(v, n)'
  BY <1>1 DEF HandlerRecorded, NotLost
<1> QED BY <1>2, <1>3

LEMMA NotLostStopped ==
  ASSUME TypeOK, NotLost, NEW w \in Workers, Stopped(w),
         UNCHANGED <<added, completed, failed>>
  PROVE  NotLost'
<1>1. /\ message' = TakenBackFrom(w)
      /\ \A m \in Copies : handler'[w][m].point = "idle"
      /\ \A v \in Workers \ {w} : handler'[v] = handler[v]
  BY StoppedEffect
<1>2. \A m \in Copies, j \in Jobs : OpenFor(m, j) => OpenFor(m, j)'
  <2> SUFFICES ASSUME NEW m \in Copies, NEW j \in Jobs, OpenFor(m, j)
               PROVE  OpenFor(m, j)'
    OBVIOUS
  <2>1. /\ message'[m] # NoMessage /\ message'[m].job = j
        /\ message'[m].at = IF message[m].at = w THEN "queued" ELSE message[m].at
    BY <1>1, TakenBackEffect DEF Open, OpenFor
  <2>2. ASSUME NEW v \in Workers, message'[m].at = v
        PROVE  handler'[v][m].point # "retried"
    <3>1. v # w
      BY <2>1, <2>2, OrchestratorAssumption
    <3>2. message[m].at = v
      BY <2>1, <2>2, <3>1, OrchestratorAssumption
    <3> QED BY <1>1, <3>1, <3>2 DEF Open, OpenFor
  <2> QED BY <2>1, <2>2 DEF Open, OpenFor
<1>3. \A v \in Workers, m \in Copies : HandlerRecorded(v, m)'
  BY <1>1 DEF HandlerRecorded, NotLost
<1> QED BY <1>2, <1>3 DEF NotLost, HasOpen, Settled, TypeOK

LEMMA NotLostHandle ==
  ASSUME TypeOK, Sync, NotLost, NEW w \in Workers, NEW m \in Copies, Handle(w, m)
  PROVE  NotLost'
<1> DEFINE h == handler[w][m]
<1>1. {"returned", "completed", "caught", "failed"}
        \subseteq HandlerPoint \ {"idle", "retried"}
  BY DEF HandlerPoint
<1>2. h.point # "idle" => h.job \in Jobs /\ h.deliveryCount \in 0..MaxRetries
  BY CountsTyped
<1>3. ASSUME NEW q \in {"returned", "completed", "caught", "failed"},
             h.point # "idle", Comes(w, m, q), UNCHANGED <<added, message>>,
             q = "completed" => h.job \in completed',
             q = "failed" => h.job \in failed',
             completed \subseteq completed', failed \subseteq failed'
      PROVE  NotLost'
  <2>1. q \in HandlerPoint \ {"idle", "retried"}
    BY <1>1
  <2>2. \A n \in Copies, j \in Jobs : OpenFor(n, j) => OpenFor(n, j)'
    BY <1>3, <2>1, OpenComes
  <2>3. \A v \in Workers, n \in Copies : HandlerRecorded(v, n)'
    BY <1>3, <2>1, RecordedComes
  <2> QED BY <1>3, <2>2, <2>3 DEF NotLost, HasOpen, Settled, TypeOK
<1>4. CASE ProcessReturns(w, m)
  BY <1>3, <1>4 DEF ProcessReturns
<1>5. CASE ProcessThrows(w, m)
  BY <1>3, <1>5 DEF ProcessThrows
<1>6. CASE CompleteJob(w, m)
  BY <1>3, <1>6 DEF CompleteJob
<1>7. CASE FailJob(w, m)
  BY <1>3, <1>7 DEF FailJob
<1>8. CASE RetryJob(w, m)
  <2>1. h.point = "caught" /\ CountAfterError(h) \in 0..MaxRetries
          /\ UNCHANGED <<added, completed, failed>>
    BY <1>2, <1>8, OrchestratorAssumption DEF RetryJob, RetriesUsedUp, CountAfterError
  <2>2. PICK k \in Copies :
          /\ message[k] = NoMessage
          /\ message'[k] # NoMessage /\ message'[k].job = h.job
          /\ message'[k].at = "sent"
          /\ \A n \in Copies \ {k} : message'[n] = message[n]
    BY <1>2, <1>8, <2>1, SendEffect DEF RetryJob
  <2>3. /\ handler'[w][m].point = "retried"
        /\ \A v \in Workers, n \in Copies :
             v # w \/ n # m => handler'[v][n] = handler[v][n]
    BY <1>8, <2>1, ComesEffect DEF RetryJob, HandlerPoint
  <2>4. Open(k)' /\ message'[k].job = h.job
    BY <2>2, OrchestratorAssumption DEF Open
  <2>5. ASSUME NEW j \in added, HasOpen(j)
        PROVE  HasOpen(j)'
    <3>1. PICK n \in Copies : OpenFor(n, j)
      BY <2>5 DEF HasOpen
    <3>2. n # k /\ message'[n] = message[n]
      BY <2>2, <3>1 DEF Open, OpenFor
    <3>3. CASE At(w, m) /\ n = m
      <4>1. h.job = j
        BY <3>1, <3>3 DEF Sync, At, OpenFor
      <4> QED BY <2>4, <4>1 DEF HasOpen, OpenFor
    <3>4. CASE ~(At(w, m) /\ n = m)
      <4>1. OpenFor(n, j)'
        BY <2>3, <3>1, <3>2, <3>4 DEF Open, OpenFor, At
      <4> QED BY <4>1 DEF HasOpen
    <3> QED BY <3>3, <3>4
  <2>6. \A v \in Workers, n \in Copies : HandlerRecorded(v, n)'
    BY <1>8, <2>1, RecordedComes DEF RetryJob, HandlerPoint
  <2> QED BY <2>1, <2>5, <2>6 DEF NotLost, Settled
<1>9. CASE MessageACK(w, m)
  <2>1. /\ message'[m] = NoMessage
        /\ \A n \in Copies \ {m} : message'[n] = message[n]
        /\ handler'[w][m].point = "idle"
        /\ \A v \in Workers, n \in Copies :
             v # w \/ n # m => handler'[v][n] = handler[v][n]
    BY <1>9, AckEffect
  <2>2. /\ h.point \in {"completed", "retried", "failed"} /\ link[w] = "up"
        /\ UNCHANGED <<added, completed, failed>>
    BY <1>9 DEF MessageACK, AtAck
  <2>3. At(w, m) /\ h.job = message[m].job
    BY <2>2 DEF Sync
  <2>4. Open(m) => Settled(message[m].job)
    BY <2>2, <2>3 DEF Open, At, NotLost, HandlerRecorded, Settled
  <2>5. ASSUME NEW j \in added, HasOpen(j)
        PROVE  Settled(j) \/ HasOpen(j)'
    <3>1. PICK n \in Copies : OpenFor(n, j)
      BY <2>5 DEF HasOpen
    <3>2. n # m => OpenFor(n, j)'
      BY <2>1, <3>1 DEF Open, OpenFor
    <3> QED BY <2>4, <3>1, <3>2 DEF HasOpen, OpenFor
  <2>6. \A v \in Workers, n \in Copies : HandlerRecorded(v, n)'
    BY <2>1, <2>2 DEF NotLost, HandlerRecorded
  <2> QED BY <2>2, <2>5, <2>6 DEF NotLost, Settled
<1>10. CASE AckThrows(w, m)
  <2>1. CASE h.point = "completed"
    BY <1>3, <1>10, <2>1 DEF AckThrows
  <2>2. CASE h.point # "completed"
    BY <1>10, <2>2, NotLostStopped DEF AckThrows
  <2> QED BY <2>1, <2>2
<1> QED BY <1>4, <1>5, <1>6, <1>7, <1>8, <1>9, <1>10 DEF Handle

LEMMA NotLostStep ==
  ASSUME TypeOK, Sync, NotLost, [Next]_vars, losses' = 0
  PROVE  NotLost'
<1>1. ASSUME NEW j \in Jobs, Add(j)
      PROVE  NotLost'
  <2>1. 0 \in 0..MaxRetries
    BY OrchestratorAssumption
  <2>2. PICK k \in Copies :
          /\ message[k] = NoMessage
          /\ message'[k] # NoMessage /\ message'[k].job = j
          /\ message'[k].at = "sent"
          /\ \A n \in Copies \ {k} : message'[n] = message[n]
    BY <1>1, <2>1, SendEffect DEF Add
  <2>3. added' = added \cup {j} /\ UNCHANGED <<handler, completed, failed>>
    BY <1>1 DEF Add
  <2>4. OpenFor(k, j)'
    BY <2>2, OrchestratorAssumption DEF Open, OpenFor
  <2>5. \A n \in Copies, i \in added : OpenFor(n, i) => OpenFor(n, i)'
    BY <2>2, <2>3 DEF Open, OpenFor
  <2> QED BY <2>3, <2>4, <2>5 DEF NotLost, HasOpen, Settled, HandlerRecorded
<1>2. ASSUME NEW m \in Copies, Arrive(m)
      PROVE  NotLost'
  <2>1. /\ message'[m] # NoMessage
        /\ message'[m].job = message[m].job
        /\ message'[m].at = "queued"
        /\ \A n \in Copies \ {m} : message'[n] = message[n]
    BY <1>2, ArriveEffect
  <2>2. UNCHANGED <<added, handler, completed, failed>>
    BY <1>2 DEF Arrive
  <2>3. Open(m)'
    BY <2>1, OrchestratorAssumption DEF Open
  <2>4. \A n \in Copies, j \in added : OpenFor(n, j) => OpenFor(n, j)'
    BY <2>1, <2>2, <2>3 DEF Open, OpenFor
  <2> QED BY <2>2, <2>4 DEF NotLost, HasOpen, Settled, HandlerRecorded
<1>3. ASSUME NEW m \in Copies, LosePublish(m)
      PROVE  FALSE
  BY <1>3, OrchestratorAssumption DEF LosePublish, TypeOK
<1>4. ASSUME NEW w \in Workers, NEW m \in Copies, Deliver(w, m)
      PROVE  NotLost'
  <2>1. /\ message'[m] # NoMessage
        /\ message'[m].job = message[m].job
        /\ message'[m].at = w
        /\ \A n \in Copies \ {m} : message'[n] = message[n]
        /\ handler'[w][m].point = "processing"
        /\ \A v \in Workers, n \in Copies :
             v # w \/ n # m => handler'[v][n] = handler[v][n]
    BY <1>4, DeliverEffect
  <2>2. UNCHANGED <<added, completed, failed>>
    BY <1>4 DEF Deliver
  <2>3. Open(m)'
    BY <2>1 DEF Open
  <2>4. \A n \in Copies, j \in added : OpenFor(n, j) => OpenFor(n, j)'
    BY <2>1, <2>3 DEF Open, OpenFor
  <2>5. \A v \in Workers, n \in Copies : HandlerRecorded(v, n)'
    BY <2>1, <2>2 DEF NotLost, HandlerRecorded
  <2> QED BY <2>2, <2>4, <2>5 DEF NotLost, HasOpen, Settled
<1>5. ASSUME NEW w \in Workers, Crash(w)
      PROVE  NotLost'
  BY <1>5, NotLostStopped DEF Crash
<1>6. ASSUME NEW w \in Workers, CutOff(w)
      PROVE  NotLost'
  <2>1. message' = TakenBackFrom(w) /\ UNCHANGED <<added, handler, completed, failed>>
    BY <1>6 DEF CutOff
  <2>2. ASSUME NEW n \in Copies, NEW j \in added, OpenFor(n, j)
        PROVE  OpenFor(n, j)'
    <3>1. /\ message'[n] # NoMessage /\ message'[n].job = j
          /\ message'[n].at = IF message[n].at = w THEN "queued" ELSE message[n].at
      BY <2>1, <2>2, TakenBackEffect DEF Open, OpenFor
    <3>2. \A v \in Workers : message'[n].at = v => message[n].at = v
      BY <3>1, OrchestratorAssumption
    <3> QED BY <2>1, <2>2, <3>1, <3>2 DEF Open, OpenFor
  <2> QED BY <2>1, <2>2 DEF NotLost, HasOpen, Settled, HandlerRecorded
<1>7. ASSUME NEW w \in Workers, Restart(w)
      PROVE  NotLost'
  BY <1>7 DEF Restart, NotLost, HasOpen, OpenFor, Open, Settled, HandlerRecorded
<1>8. CASE UNCHANGED vars
  BY <1>8 DEF vars, NotLost, HasOpen, OpenFor, Open, Settled, HandlerRecorded
<1> QED BY <1>1, <1>2, <1>3, <1>4, <1>5, <1>6, <1>7, <1>8, NotLostHandle DEF Next

\* What was lost or broken stays counted.
LEMMA CountsGrow ==
  ASSUME TypeOK, [Next]_vars
  PROVE  /\ losses' = 0 => losses = 0
         /\ crashes' = 0 /\ cuts' = 0 => crashes = 0 /\ cuts = 0
<1>1. crashes \in Nat /\ cuts \in Nat /\ losses \in Nat
  BY OrchestratorAssumption DEF TypeOK
<1>2. ASSUME NEW w \in Workers, NEW m \in Copies, Handle(w, m)
      PROVE  UNCHANGED <<crashes, cuts, losses>>
  BY <1>2 DEF Handle, ProcessReturns, ProcessThrows, CompleteJob, RetryJob,
              FailJob, MessageACK, AckThrows
<1>3. CASE \E w \in Workers, m \in Copies : Handle(w, m)
  BY <1>2, <1>3
<1>4. CASE \E w \in Workers, m \in Copies : Deliver(w, m)
  BY <1>4 DEF Deliver
<1>5. CASE \E j \in Jobs : Add(j)
  BY <1>5 DEF Add
<1>6. CASE \E m \in Copies : Arrive(m) \/ LosePublish(m)
  BY <1>1, <1>6 DEF Arrive, LosePublish
<1>7. CASE \E w \in Workers : Crash(w) \/ CutOff(w) \/ Restart(w)
  BY <1>1, <1>7 DEF Crash, CutOff, Restart
<1>8. CASE UNCHANGED vars
  BY <1>8 DEF vars
<1> QED BY <1>3, <1>4, <1>5, <1>6, <1>7, <1>8 DEF Next

(***************************************************************************)
(* While every publish reaches the broker no job is lost: between its      *)
(* addition and its record as completed or failed some message carries it, *)
(* because handleMessage acknowledges last.                                *)
(***************************************************************************)
THEOREM NeverLost == Spec => []NoJobLost
<1> DEFINE IInv == losses = 0 => NotLost
<1>1. Init => IInv
  BY DEF Init, NotLost, HandlerRecorded, Idle
<1>2. IInv => NoJobLost
  BY DEF NotLost, NoJobLost, HasOpen, OpenFor, Open
<1>3. TypeOK /\ Sync /\ IInv /\ [Next]_vars => IInv'
  BY NotLostStep, CountsGrow
<1> HIDE DEF IInv
<1> QED BY <1>1, <1>2, <1>3, SyncInvariant, PTL DEF Spec
-----------------------------------------------------------------------------
(* Without crashes and closed connections a job has at most one open       *)
(* message, and once the processor has returned that message only waits    *)
(* for its acknowledgement.                                                *)

AllUp == \A w \in Workers : link[w] = "up"

Awaits(m) ==
  \E w \in Workers : At(w, m) /\ handler[w][m].point \in {"returned", "completed"}

Lone ==
  /\ AllUp
  /\ processed \subseteq added
  /\ \A m \in Copies : message[m] # NoMessage => message[m].job \in added
  /\ \A m, n \in Copies :
       Open(m) /\ Open(n) /\ message[m].job = message[n].job => m = n
  /\ \A m \in Copies : Open(m) /\ message[m].job \in processed => Awaits(m)

\* The message of a busy handler is open while the handler has not retried.
LEMMA BusyOpen ==
  ASSUME Sync, AllUp, NEW w \in Workers, NEW m \in Copies,
         handler[w][m].point \notin {"idle", "retried"}
  PROVE  At(w, m) /\ Open(m) /\ message[m].job = handler[w][m].job
BY DEF Sync, AllUp, Open, At

\* A new message for a job that has no open message, or whose only one is
\* closed by the same step.
LEMMA LoneSend ==
  ASSUME TypeOK, Sync, Lone, NEW j \in Jobs, NEW n \in 0..MaxRetries,
         SendJobToQueue(j, n), UNCHANGED <<link, processed>>,
         j \in added', added \subseteq added', j \notin processed,
         \A m \in Copies : Open(m) /\ message[m].job = j => ~Open(m)',
         \A m \in Copies : message[m] # NoMessage /\ Open(m)' => Open(m),
         \A m \in Copies : Awaits(m) => Awaits(m)'
  PROVE  Lone'
<1>1. PICK k \in Copies :
        /\ message[k] = NoMessage
        /\ message'[k] # NoMessage /\ message'[k].job = j
        /\ \A m \in Copies \ {k} : message'[m] = message[m]
  BY SendEffect
<1>2. \A m \in Copies \ {k} :
        Open(m)' => Open(m) /\ message'[m].job = message[m].job /\ message[m].job # j
  <2> SUFFICES ASSUME NEW m \in Copies \ {k}, Open(m)'
               PROVE  Open(m) /\ message'[m].job = message[m].job
                        /\ message[m].job # j
    OBVIOUS
  <2>1. message[m] # NoMessage
    BY <1>1 DEF Open
  <2> QED BY <1>1, <2>1
<1>3. AllUp' /\ processed' \subseteq added'
  BY DEF AllUp, Lone
<1>4. \A m \in Copies : message'[m] # NoMessage => message'[m].job \in added'
  BY <1>1 DEF Lone
<1>5. \A m, i \in Copies :
        Open(m)' /\ Open(i)' /\ message'[m].job = message'[i].job => m = i
  BY <1>1, <1>2 DEF Lone
<1>6. \A m \in Copies : Open(m)' /\ message'[m].job \in processed' => Awaits(m)'
  BY <1>1, <1>2 DEF Lone
<1> QED BY <1>3, <1>4, <1>5, <1>6 DEF Lone

\* A step that moves one message and its handler only.
LEMMA LoneKeeps ==
  ASSUME Lone, UNCHANGED <<added, link>>,
         processed' \subseteq added,
         \A m \in Copies : message'[m] # NoMessage =>
           message[m] # NoMessage /\ message'[m].job = message[m].job,
         \A m \in Copies : Open(m)' => Open(m),
         \A m \in Copies : Open(m)' /\ message[m].job \in processed' => Awaits(m)'
  PROVE  Lone'
<1>1. \A m \in Copies : Open(m)' => Open(m) /\ message'[m].job = message[m].job
  BY DEF Open
<1>2. AllUp' /\ processed' \subseteq added'
  BY DEF Lone, AllUp
<1>3. \A m \in Copies : message'[m] # NoMessage => message'[m].job \in added'
  BY DEF Lone
<1>4. \A m, n \in Copies :
        Open(m)' /\ Open(n)' /\ message'[m].job = message'[n].job => m = n
  BY <1>1 DEF Lone
<1>5. \A m \in Copies : Open(m)' /\ message'[m].job \in processed' => Awaits(m)'
  BY <1>1
<1> QED BY <1>2, <1>3, <1>4, <1>5 DEF Lone

LEMMA LoneComes ==
  ASSUME TypeOK, Sync, Lone, NEW w \in Workers, NEW m \in Copies,
         NEW q \in HandlerPoint \ {"idle", "retried"},
         handler[w][m].point \notin {"idle", "retried"}, Comes(w, m, q),
         UNCHANGED <<added, message, link>>,
         processed' \subseteq processed \cup {handler[w][m].job},
         handler[w][m].job \in processed' => q \in {"returned", "completed"}
  PROVE  Lone'
<1> DEFINE j == handler[w][m].job
<1>1. /\ handler'[w][m].point = q
      /\ \A v \in Workers, n \in Copies :
           v # w \/ n # m => handler'[v][n] = handler[v][n]
  BY ComesEffect
<1>2. At(w, m) /\ Open(m) /\ message[m].job = j
  BY BusyOpen DEF Lone
<1>3. \A v \in Workers, n \in Copies : At(v, n)' <=> At(v, n)
  BY DEF At
<1>4. \A n \in Copies : Open(n)' => Open(n)
  <2>1. \A n \in Copies \ {m} : Open(n)' => Open(n)
    BY <1>1 DEF Open
  <2> QED BY <1>2, <2>1
<1>5. ASSUME NEW n \in Copies, Open(n)', message[n].job \in processed'
      PROVE  Awaits(n)'
  <2>1. CASE n = m
    BY <1>1, <1>2, <1>3, <1>5, <2>1 DEF Awaits
  <2>2. CASE n # m
    <3>1. Open(n) /\ message[n].job # j
      BY <1>2, <1>4, <1>5, <2>2 DEF Lone
    <3>2. Awaits(n)
      BY <1>5, <3>1 DEF Lone
    <3>3. PICK v \in Workers :
            At(v, n) /\ handler[v][n].point \in {"returned", "completed"}
      BY <3>2 DEF Awaits
    <3>4. handler'[v][n] = handler[v][n]
      BY <1>1, <2>2
    <3> QED BY <1>3, <3>3, <3>4 DEF Awaits
  <2> QED BY <2>1, <2>2
<1>6. processed' \subseteq added
  BY <1>2 DEF Lone, Open
<1> QED BY <1>4, <1>5, <1>6, LoneKeeps

LEMMA LoneHandle ==
  ASSUME TypeOK, Sync, Lone, NEW w \in Workers, NEW m \in Copies, Handle(w, m)
  PROVE  Lone'
<1> DEFINE h == handler[w][m]
<1>1. {"returned", "completed", "caught", "failed"}
        \subseteq HandlerPoint \ {"idle", "retried"}
  BY DEF HandlerPoint
<1>2. h.point # "idle" => h.job \in Jobs /\ h.deliveryCount \in 0..MaxRetries
  BY CountsTyped
<1>3. h.point \notin {"idle", "retried"} =>
        At(w, m) /\ Open(m) /\ message[m].job = h.job
  BY BusyOpen DEF Lone
<1>4. h.point \in {"processing", "caught"} => h.job \notin processed
  <2>1. ASSUME h.point \in {"processing", "caught"}, h.job \in processed
        PROVE  FALSE
    <3>1. At(w, m) /\ Awaits(m)
      BY <1>3, <2>1 DEF Lone
    <3> QED BY <2>1, <3>1 DEF Awaits, At
  <2> QED BY <2>1
<1>5. CASE ProcessReturns(w, m)
  <2>1. /\ h.point = "processing" /\ Comes(w, m, "returned")
        /\ processed' = processed \cup {h.job} /\ UNCHANGED <<added, message, link>>
    BY <1>5 DEF ProcessReturns
  <2> QED BY <1>1, <2>1, LoneComes
<1>6. CASE ProcessThrows(w, m)
  <2>1. /\ h.point = "processing" /\ Comes(w, m, "caught")
        /\ UNCHANGED <<added, message, link, processed>>
    BY <1>6 DEF ProcessThrows
  <2> QED BY <1>1, <1>4, <2>1, LoneComes
<1>7. CASE CompleteJob(w, m)
  <2>1. /\ h.point = "returned" /\ Comes(w, m, "completed")
        /\ UNCHANGED <<added, message, link, processed>>
    BY <1>7 DEF CompleteJob
  <2> QED BY <1>1, <2>1, LoneComes
<1>8. CASE FailJob(w, m)
  <2>1. /\ h.point = "caught" /\ Comes(w, m, "failed")
        /\ UNCHANGED <<added, message, link, processed>>
    BY <1>8 DEF FailJob
  <2> QED BY <1>1, <1>4, <2>1, LoneComes
<1>9. CASE RetryJob(w, m)
  <2>1. /\ h.point = "caught" /\ CountAfterError(h) \in 0..MaxRetries
        /\ Comes(w, m, "retried") /\ UNCHANGED <<added, link, processed>>
        /\ SendJobToQueue(h.job, CountAfterError(h))
    BY <1>2, <1>9, OrchestratorAssumption DEF RetryJob, RetriesUsedUp, CountAfterError
  <2>2. /\ handler'[w][m].point = "retried"
        /\ \A v \in Workers, n \in Copies :
             v # w \/ n # m => handler'[v][n] = handler[v][n]
    BY <2>1, ComesEffect DEF HandlerPoint
  <2>3. At(w, m) /\ Open(m) /\ message[m].job = h.job /\ h.job \notin processed
    BY <1>3, <1>4, <2>1
  <2>4. h.job \in added /\ h.job \in Jobs
    BY <1>2, <2>1, <2>3 DEF Lone, Open
  <2>5. \A n \in Copies : message[n] # NoMessage => message'[n] = message[n]
    BY <2>1, <2>4, SendEffect
  <2>6. ~Open(m)'
    BY <2>2, <2>3, <2>5 DEF Open, At
  <2>7. \A n \in Copies : Open(n) /\ message[n].job = h.job => ~Open(n)'
    BY <2>3, <2>6 DEF Lone
  <2>8. \A n \in Copies : message[n] # NoMessage /\ Open(n)' => Open(n)
    <3>1. \A n \in Copies \ {m} : message[n] # NoMessage /\ Open(n)' => Open(n)
      BY <2>2, <2>5 DEF Open
    <3> QED BY <2>3, <3>1
  <2>9. ASSUME NEW n \in Copies, Awaits(n)
        PROVE  Awaits(n)'
    <3>1. PICK v \in Workers :
            At(v, n) /\ handler[v][n].point \in {"returned", "completed"}
      BY <2>9 DEF Awaits
    <3>2. handler'[v][n] = handler[v][n]
      BY <2>1, <2>2, <3>1
    <3> QED BY <2>5, <3>1, <3>2 DEF Awaits, At
  <2> QED BY <2>1, <2>3, <2>4, <2>7, <2>8, <2>9, LoneSend
<1>10. CASE MessageACK(w, m)
  <2>1. /\ message'[m] = NoMessage
        /\ \A n \in Copies \ {m} : message'[n] = message[n]
        /\ \A v \in Workers, n \in Copies :
             v # w \/ n # m => handler'[v][n] = handler[v][n]
    BY <1>10, AckEffect
  <2>2. UNCHANGED <<added, link, processed>>
    BY <1>10 DEF MessageACK
  <2>3. \A n \in Copies : Open(n)' => Open(n) /\ n # m
    BY <2>1 DEF Open
  <2>4. ASSUME NEW n \in Copies, Open(n)', message[n].job \in processed'
        PROVE  Awaits(n)'
    <3>1. PICK v \in Workers :
            At(v, n) /\ handler[v][n].point \in {"returned", "completed"}
      BY <2>2, <2>3, <2>4 DEF Lone, Awaits
    <3>2. handler'[v][n] = handler[v][n] /\ message'[n] = message[n]
      BY <2>1, <2>3, <2>4
    <3> QED BY <3>1, <3>2 DEF Awaits, At
  <2>5. \A n \in Copies : message'[n] # NoMessage =>
          message[n] # NoMessage /\ message'[n].job = message[n].job
    BY <2>1
  <2>6. processed' \subseteq added
    BY <2>2 DEF Lone
  <2> QED BY <2>2, <2>3, <2>4, <2>5, <2>6, LoneKeeps
<1>11. CASE AckThrows(w, m)
  BY <1>11 DEF AckThrows, Lone, AllUp
<1> QED BY <1>5, <1>6, <1>7, <1>8, <1>9, <1>10, <1>11 DEF Handle

LEMMA LoneStep ==
  ASSUME TypeOK, Sync, Lone, [Next]_vars, crashes' = 0, cuts' = 0
  PROVE  Lone'
<1>1. ASSUME NEW j \in Jobs, Add(j)
      PROVE  Lone'
  <2>1. /\ 0 \in 0..MaxRetries /\ SendJobToQueue(j, 0) /\ j \notin added
        /\ added' = added \cup {j} /\ UNCHANGED <<handler, link, processed>>
    BY <1>1, OrchestratorAssumption DEF Add
  <2>2. \A m \in Copies : message[m] # NoMessage => message'[m] = message[m]
    BY <2>1, SendEffect
  <2>3. j \notin processed /\ \A m \in Copies : ~(Open(m) /\ message[m].job = j)
    BY <2>1 DEF Lone, Open
  <2>4. \A m \in Copies : message[m] # NoMessage /\ Open(m)' => Open(m)
    BY <2>1, <2>2 DEF Open
  <2>5. \A m \in Copies : Awaits(m) => Awaits(m)'
    BY <2>1, <2>2 DEF Awaits, At
  <2> QED BY <2>1, <2>3, <2>4, <2>5, LoneSend
<1>2. ASSUME NEW m \in Copies, Arrive(m) \/ LosePublish(m)
      PROVE  Lone'
  <2>1. /\ UNCHANGED <<added, handler, link, processed>>
        /\ message[m] # NoMessage /\ message[m].at = "sent"
    BY <1>2 DEF Arrive, LosePublish
  <2>2. \A n \in Copies \ {m} : message'[n] = message[n]
    BY <1>2 DEF Arrive, LosePublish, TypeOK
  <2>3. message'[m] = NoMessage \/ message'[m].job = message[m].job
    BY <1>2, ArriveEffect DEF LosePublish, TypeOK
  <2>4. Open(m) /\ ~Awaits(m)
    BY <2>1, OpenQueued, OrchestratorAssumption DEF Awaits, At
  <2>5. \A n \in Copies : Open(n)' => Open(n)
    <3>1. \A n \in Copies \ {m} : Open(n)' => Open(n)
      BY <2>1, <2>2 DEF Open
    <3> QED BY <2>4, <3>1
  <2>6. message[m].job \notin processed
    BY <2>4 DEF Lone
  <2>7. ASSUME NEW n \in Copies, Open(n)', message[n].job \in processed'
        PROVE  Awaits(n)'
    <3>1. n # m /\ Awaits(n)
      BY <2>1, <2>5, <2>6, <2>7 DEF Lone
    <3> QED BY <2>1, <2>2, <3>1 DEF Awaits, At
  <2>8. processed' \subseteq added
    BY <2>1 DEF Lone
  <2> QED BY <2>1, <2>2, <2>3, <2>5, <2>7, <2>8, LoneKeeps
<1>3. ASSUME NEW w \in Workers, NEW m \in Copies, Deliver(w, m)
      PROVE  Lone'
  <2>1. /\ message[m] # NoMessage /\ message'[m] # NoMessage
        /\ message'[m].job = message[m].job
        /\ \A n \in Copies \ {m} : message'[n] = message[n]
        /\ \A v \in Workers, n \in Copies :
             v # w \/ n # m => handler'[v][n] = handler[v][n]
    BY <1>3, DeliverEffect
  <2>2. UNCHANGED <<added, link, processed>> /\ message[m].at = "queued"
    BY <1>3 DEF Deliver
  <2>3. Open(m) /\ ~Awaits(m)
    BY <2>1, <2>2, OpenQueued, OrchestratorAssumption DEF Awaits, At
  <2>4. \A n \in Copies : Open(n)' => Open(n)
    <3>1. \A n \in Copies \ {m} : Open(n)' => Open(n)
      BY <2>1 DEF Open
    <3> QED BY <2>3, <3>1
  <2>5. message[m].job \notin processed
    BY <2>3 DEF Lone
  <2>6. ASSUME NEW n \in Copies, Open(n)', message[n].job \in processed'
        PROVE  Awaits(n)'
    <3>1. n # m /\ Awaits(n)
      BY <2>2, <2>4, <2>5, <2>6 DEF Lone
    <3> QED BY <2>1, <3>1 DEF Awaits, At
  <2>7. processed' \subseteq added
    BY <2>2 DEF Lone
  <2> QED BY <2>1, <2>2, <2>4, <2>6, <2>7, LoneKeeps
<1>4. ASSUME NEW w \in Workers, Crash(w) \/ CutOff(w) \/ Restart(w)
      PROVE  FALSE
  BY <1>4, OrchestratorAssumption DEF Crash, CutOff, Restart, TypeOK, Lone, AllUp
<1>5. CASE UNCHANGED vars
  BY <1>5 DEF vars, Lone, AllUp, Open, Awaits, At
<1> QED BY <1>1, <1>2, <1>3, <1>4, <1>5, LoneHandle DEF Next

Quiet == crashes = 0 /\ cuts = 0 => Lone

LEMMA QuietInvariant == Spec => [](Sync /\ Quiet)
<1>1. Init => Quiet
  BY DEF Init, Quiet, Lone, AllUp, Open
<1>2. TypeOK /\ Sync /\ Quiet /\ [Next]_vars => Quiet'
  BY LoneStep, CountsGrow DEF Quiet
<1> QED BY <1>1, <1>2, SyncInvariant, PTL DEF Spec

(***************************************************************************)
(* As long as no process dies and no consumer is cut off, a job is in the  *)
(* hands of one handler at most, whatever the prefetch and however many    *)
(* workers consume the queue.                                              *)
(***************************************************************************)
THEOREM OneHandlerAtATime == Spec => []OneHandler
<1>1. Sync /\ Quiet => OneHandler
  <2> SUFFICES ASSUME Sync, Lone, NEW j \in Jobs, NEW g \in Working(j),
                      NEW h \in Working(j)
               PROVE  g = h
    BY DEF OneHandler, Quiet
  <2>1. /\ g[1] \in Workers /\ g[2] \in Copies /\ g = <<g[1], g[2]>>
        /\ h[1] \in Workers /\ h[2] \in Copies /\ h = <<h[1], h[2]>>
    BY DEF Working
  <2>2. /\ handler[g[1]][g[2]].point \notin {"idle", "retried"}
        /\ handler[h[1]][h[2]].point \notin {"idle", "retried"}
        /\ handler[g[1]][g[2]].job = j /\ handler[h[1]][h[2]].job = j
    BY DEF Working
  <2>3. /\ At(g[1], g[2]) /\ Open(g[2]) /\ message[g[2]].job = j
        /\ At(h[1], h[2]) /\ Open(h[2]) /\ message[h[2]].job = j
    BY <2>1, <2>2, BusyOpen DEF Lone
  <2>4. g[2] = h[2]
    BY <2>1, <2>3 DEF Lone
  <2>5. g[1] = h[1]
    BY <2>3, <2>4 DEF At
  <2> QED BY <2>1, <2>4, <2>5
<1> QED BY <1>1, QuietInvariant, PTL

(***************************************************************************)
(* Under the same assumption a job whose processor has returned does not   *)
(* reach the processor again: completeJob cannot throw.                    *)
(***************************************************************************)
THEOREM ProcessedOnce == Spec => []NotRunAgain
<1>1. Sync /\ Quiet => NotRunAgain
  <2> SUFFICES ASSUME Sync, Lone, NEW w \in Workers, NEW m \in Copies,
                      handler[w][m].point = "processing",
                      handler[w][m].job \in processed
               PROVE  FALSE
    BY DEF NotRunAgain, Quiet
  <2>1. At(w, m) /\ Open(m) /\ message[m].job = handler[w][m].job
    BY BusyOpen DEF Lone
  <2>2. Awaits(m)
    BY <2>1 DEF Lone
  <2> QED BY <2>1, <2>2 DEF Awaits, At
<1> QED BY <1>1, QuietInvariant, PTL

=============================================================================
