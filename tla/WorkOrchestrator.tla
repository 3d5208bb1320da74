-------------------------- MODULE WorkOrchestrator --------------------------
(***************************************************************************)
(* The life of a job between the producer and the processor.  A worker     *)
(* process consumes one queue and runs up to Prefetch handlers at once     *)
(* (WorkOrchestrator.handleMessage).  A handler runs the processor; then   *)
(* it records the job as completed, or queues it again with one more       *)
(* delivery counted, or records it as failed; and then it acknowledges the *)
(* message.  These are two connections: what a handler publishes goes      *)
(* through the producer's, the acknowledgement through the consumer's.     *)
(*                                                                         *)
(* A process may die, and a consumer's connection may be closed under it.  *)
(* Either way the broker delivers its unacknowledged messages again; in    *)
(* the second case the handlers go on, and their acknowledgements throw.   *)
(***************************************************************************)
EXTENDS Integers, FiniteSets

CONSTANTS
  Jobs,
  Workers,      \* worker processes consuming the queue
  Copies,       \* bound: messages in the broker at once
  NoMessage,
  MaxRetries,   \* processorOptions.maxRetries.count
  Prefetch,     \* processorOptions.prefetchCount
  MaxCrashes,   \* bound: processes that die
  MaxCuts,      \* bound: consumer connections closed under a live process
  MaxLosses     \* bound: publishes that never reach the broker

\* On its way to the queue, in it, or delivered to a worker.
Message ==
  [job : Jobs, deliveryCount : 0..MaxRetries, at : {"sent", "queued"} \cup Workers]

ASSUME OrchestratorAssumption ==
  /\ NoMessage \notin Message
  /\ {"sent", "queued"} \cap Workers = {}
  /\ MaxRetries \in Nat
  /\ Prefetch \in Nat
  /\ MaxCrashes \in Nat
  /\ MaxCuts \in Nat
  /\ MaxLosses \in Nat

VARIABLES
  added,      \* the jobs that producers have added
  message,    \* message[m]: a message in the broker, or on its way there
  handler,    \* handler[w][m]: what w's handler of message m has come to
  link,       \* link[w]: the process and its consumer connection
  processed,  \* jobs whose processor has returned
  completed,  \* jobs recorded in the COMPLETED queue
  failed,     \* jobs recorded in the FAILED queue
  errors,     \* errors[j]: how often a handler of j has caught an error
  crashes, cuts, losses

vars == <<added, message, handler, link, processed, completed, failed, errors,
          crashes, cuts, losses>>

-----------------------------------------------------------------------------
(* State.                                                                  *)

\* Idle, in process(), returned, recorded as completed, caught an error,
\* queued again, recorded as failed.
HandlerPoint ==
  {"idle", "processing", "returned", "completed", "caught", "retried", "failed"}

Handler == [point : HandlerPoint, job : Jobs, deliveryCount : 0..MaxRetries]

Idle == [point |-> "idle"]

\* Errors that a copy of the job has not accounted for are not told apart.
MaxErrors == MaxRetries + 1

TypeOK ==
  /\ added \subseteq Jobs
  /\ message \in [Copies -> Message \cup {NoMessage}]
  /\ handler \in [Workers -> [Copies -> Handler \cup {Idle}]]
  /\ link \in [Workers -> {"up", "cut", "down"}]
  /\ processed \subseteq Jobs
  /\ completed \subseteq Jobs
  /\ failed \subseteq Jobs
  /\ errors \in [Jobs -> 0..MaxErrors]
  /\ crashes \in 0..MaxCrashes
  /\ cuts \in 0..MaxCuts
  /\ losses \in 0..MaxLosses

Init ==
  /\ added = {}
  /\ message = [m \in Copies |-> NoMessage]
  /\ handler = [w \in Workers |-> [m \in Copies |-> Idle]]
  /\ link = [w \in Workers |-> "up"]
  /\ processed = {}
  /\ completed = {}
  /\ failed = {}
  /\ errors = [j \in Jobs |-> 0]
  /\ crashes = 0
  /\ cuts = 0
  /\ losses = 0

-----------------------------------------------------------------------------
(* The producer and the broker.                                            *)

HasFree == \E m \in Copies : message[m] = NoMessage

Free == CHOOSE m \in Copies : message[m] = NoMessage

\* sendJobToQueue returns when the message is written, not when the broker
\* has it.
SendJobToQueue(job, count) ==
  /\ HasFree
  /\ message' = [message EXCEPT
                   ![Free] = [job |-> job, deliveryCount |-> count, at |-> "sent"]]

Add(j) ==
  /\ j \notin added
  /\ added' = added \cup {j}
  /\ SendJobToQueue(j, 0)
  /\ UNCHANGED <<handler, link, processed, completed, failed, errors, crashes,
                 cuts, losses>>

Arrive(m) ==
  /\ message[m] # NoMessage
  /\ message[m].at = "sent"
  /\ message' = [message EXCEPT ![m].at = "queued"]
  /\ UNCHANGED <<added, handler, link, processed, completed, failed, errors,
                 crashes, cuts, losses>>

\* The producer's connection breaks with the message still unsent: the
\* channel has no publisher confirms.
LosePublish(m) ==
  /\ message[m] # NoMessage
  /\ message[m].at = "sent"
  /\ losses < MaxLosses
  /\ losses' = losses + 1
  /\ message' = [message EXCEPT ![m] = NoMessage]
  /\ UNCHANGED <<added, handler, link, processed, completed, failed, errors,
                 crashes, cuts>>

Delivered(w) == {m \in Copies : message[m] # NoMessage /\ message[m].at = w}

\* The broker forgets that w has any message, and delivers them all again.
TakenBackFrom(w) ==
  [m \in Copies |-> IF m \in Delivered(w) THEN [message[m] EXCEPT !.at = "queued"]
                                          ELSE message[m]]

-----------------------------------------------------------------------------
(* handleMessage.                                                          *)

Comes(w, m, point) == handler' = [handler EXCEPT ![w][m].point = point]

Deliver(w, m) ==
  /\ link[w] = "up"
  /\ message[m] # NoMessage
  /\ message[m].at = "queued"
  /\ Cardinality(Delivered(w)) < Prefetch
  /\ message' = [message EXCEPT ![m].at = w]
  /\ handler' = [handler EXCEPT
                   ![w][m] = [point |-> "processing", job |-> message[m].job,
                              deliveryCount |-> message[m].deliveryCount]]
  /\ UNCHANGED <<added, link, processed, completed, failed, errors, crashes,
                 cuts, losses>>

ProcessReturns(w, m) ==
  /\ handler[w][m].point = "processing"
  /\ Comes(w, m, "returned")
  /\ processed' = processed \cup {handler[w][m].job}
  /\ UNCHANGED <<added, message, link, completed, failed, errors, crashes, cuts,
                 losses>>

Caught(j) == errors' = [errors EXCEPT ![j] = IF @ < MaxErrors THEN @ + 1 ELSE @]

ProcessThrows(w, m) ==
  /\ handler[w][m].point = "processing"
  /\ Comes(w, m, "caught")
  /\ Caught(handler[w][m].job)
  /\ UNCHANGED <<added, message, link, processed, completed, failed, crashes,
                 cuts, losses>>

\* (Slip: completeJob throws inside the try of handleMessage.)
CompleteJobThrows(w, m) ==
  /\ handler[w][m].point = "returned"
  /\ Comes(w, m, "caught")
  /\ Caught(handler[w][m].job)
  /\ UNCHANGED <<added, message, link, processed, completed, failed, crashes,
                 cuts, losses>>

\* completeJob, up to the acknowledgement.
CompleteJob(w, m) ==
  /\ handler[w][m].point = "returned"
  /\ Comes(w, m, "completed")
  /\ completed' = completed \cup {handler[w][m].job}
  /\ UNCHANGED <<added, message, link, processed, failed, errors, crashes, cuts,
                 losses>>

\* (Slip: the delivery under way is counted.)
RetriesUsedUpEarly(h) == h.deliveryCount + 1 >= MaxRetries

\* (Slip: the count may pass the option.)
RetriesUsedUpLate(h) == h.deliveryCount > MaxRetries

\* handleProcessorError: getJobDeliveryCount against the processor's option.
RetriesUsedUp(h) == h.deliveryCount >= MaxRetries

\* (Slip: the job is queued again as it came.)
CountUnchanged(h) == h.deliveryCount

\* getNewJobAfterError.
CountAfterError(h) == h.deliveryCount + 1

\* retryJob, up to the acknowledgement.
RetryJob(w, m) ==
  LET h == handler[w][m]
  IN /\ h.point = "caught"
     /\ ~RetriesUsedUp(h)
     /\ SendJobToQueue(h.job, CountAfterError(h))
     /\ Comes(w, m, "retried")
     /\ UNCHANGED <<added, link, processed, completed, failed, errors, crashes,
                    cuts, losses>>

\* failJob, up to the acknowledgement.
FailJob(w, m) ==
  LET h == handler[w][m]
  IN /\ h.point = "caught"
     /\ RetriesUsedUp(h)
     /\ failed' = failed \cup {h.job}
     /\ Comes(w, m, "failed")
     /\ UNCHANGED <<added, message, link, processed, completed, errors, crashes,
                    cuts, losses>>

\* (Slip: the message is acknowledged before the job is queued again.)
AtAckEarly(w, m) ==
  handler[w][m].point \in {"completed", "caught", "retried", "failed"}

AtAck(w, m) == handler[w][m].point \in {"completed", "retried", "failed"}

\* (Slip: retryJob ends in messgaeNACK, and the broker queues it as well.)
MessageNACKRetried(w, m) ==
  /\ AtAck(w, m)
  /\ link[w] = "up"
  /\ message' = IF handler[w][m].point = "retried"
                THEN [message EXCEPT ![m].at = "queued"]
                ELSE [message EXCEPT ![m] = NoMessage]
  /\ handler' = [handler EXCEPT ![w][m] = Idle]
  /\ UNCHANGED <<added, link, processed, completed, failed, errors, crashes,
                 cuts, losses>>

MessageACK(w, m) ==
  /\ AtAck(w, m)
  /\ link[w] = "up"
  /\ message' = [message EXCEPT ![m] = NoMessage]
  /\ handler' = [handler EXCEPT ![w][m] = Idle]
  /\ UNCHANGED <<added, link, processed, completed, failed, errors, crashes,
                 cuts, losses>>

Stopped(w) ==
  /\ link' = [link EXCEPT ![w] = "down"]
  /\ message' = TakenBackFrom(w)
  /\ handler' = [handler EXCEPT ![w] = [m \in Copies |-> Idle]]

(***************************************************************************)
(* channel.ack throws on a closed channel.  The acknowledgement of         *)
(* completeJob is inside the try of handleMessage, so the error is taken   *)
(* for one of the processor; those of retryJob and failJob are not, and    *)
(* the unhandled rejection ends the process.                               *)
(***************************************************************************)
AckThrows(w, m) ==
  /\ AtAck(w, m)
  /\ link[w] = "cut"
  /\ IF handler[w][m].point = "completed"
     THEN /\ Comes(w, m, "caught")
          /\ Caught(handler[w][m].job)
          /\ UNCHANGED <<link, message>>
     ELSE Stopped(w) /\ UNCHANGED errors
  /\ UNCHANGED <<added, processed, completed, failed, crashes, cuts, losses>>

-----------------------------------------------------------------------------
(* Processes and connections.                                              *)

\* Also what comes of a closed producer's channel: the publish of completeJob
\* throws, and then so does the one of retryJob or failJob, which nothing
\* catches.
Crash(w) ==
  /\ link[w] # "down"
  /\ crashes < MaxCrashes
  /\ crashes' = crashes + 1
  /\ Stopped(w)
  /\ UNCHANGED <<added, processed, completed, failed, errors, cuts, losses>>

\* The broker closes the consumer's connection.  Nothing listens for that,
\* and nothing consumes the queue again until the process is restarted.
CutOff(w) ==
  /\ link[w] = "up"
  /\ cuts < MaxCuts
  /\ cuts' = cuts + 1
  /\ link' = [link EXCEPT ![w] = "cut"]
  /\ message' = TakenBackFrom(w)
  /\ UNCHANGED <<added, handler, processed, completed, failed, errors, crashes,
                 losses>>

\* setupListeners of the new process.
Restart(w) ==
  /\ link[w] = "down"
  /\ link' = [link EXCEPT ![w] = "up"]
  /\ UNCHANGED <<added, message, handler, processed, completed, failed, errors,
                 crashes, cuts, losses>>

-----------------------------------------------------------------------------
Handle(w, m) ==
  \/ ProcessReturns(w, m) \/ ProcessThrows(w, m) \/ CompleteJob(w, m)
  \/ RetryJob(w, m) \/ FailJob(w, m) \/ MessageACK(w, m) \/ AckThrows(w, m)

Next ==
  \/ \E j \in Jobs : Add(j)
  \/ \E m \in Copies : Arrive(m) \/ LosePublish(m)
  \/ \E w \in Workers, m \in Copies : Deliver(w, m) \/ Handle(w, m)
  \/ \E w \in Workers : Crash(w) \/ CutOff(w) \/ Restart(w)

Spec == Init /\ [][Next]_vars

(***************************************************************************)
(* The broker delivers, a message that can be delivered again and again in *)
(* the end is; handlers go on; and a process that died is started again.   *)
(***************************************************************************)
Fairness ==
  /\ \A m \in Copies : WF_vars(Arrive(m))
  /\ \A m \in Copies : SF_vars(\E w \in Workers : Deliver(w, m))
  /\ \A w \in Workers, m \in Copies : WF_vars(Handle(w, m))
  /\ \A w \in Workers : WF_vars(Restart(w))

FairSpec == Spec /\ Fairness

-----------------------------------------------------------------------------
(* Properties.                                                             *)

Settled(j) == j \in completed \cup failed

(***************************************************************************)
(* At least once: as long as every publish arrives, a job that was added   *)
(* is in a message somewhere until it is recorded as completed or failed,  *)
(* whoever dies and whichever connection is closed at whatever point.      *)
(***************************************************************************)
NoJobLost ==
  losses = 0 =>
    \A j \in added :
      Settled(j) \/ \E m \in Copies : message[m] # NoMessage /\ message[m].job = j

\* A job is given up only after more errors than its processor has retries,
\* however its copies are counted, delivered again and raced.
FailedAfterRetries == \A j \in failed : errors[j] > MaxRetries

Working(j) ==
  {h \in Workers \X Copies :
     /\ handler[h[1]][h[2]].point \in {"processing", "returned", "caught"}
     /\ handler[h[1]][h[2]].job = j}

\* Until a process dies or a connection is closed, no two handlers work on
\* the same job at the same time.
OneHandler ==
  crashes = 0 /\ cuts = 0 => \A j \in Jobs : \A g, h \in Working(j) : g = h

\* Until then, a job whose processor has returned is not given to the
\* processor again.
NotRunAgain ==
  crashes = 0 /\ cuts = 0 =>
    \A w \in Workers, m \in Copies :
      handler[w][m].point = "processing" => handler[w][m].job \notin processed

\* Every job is settled in the end, if no publish is lost and not every
\* consumer is cut off.
JobSettles == \A j \in Jobs : j \in added ~> Settled(j) \/ losses > 0
=============================================================================
