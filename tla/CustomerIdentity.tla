--------------------------- MODULE CustomerIdentity ---------------------------
(***************************************************************************)
(* Who a request is about.  A device names itself by an id it has made up  *)
(* (correlationValue), which is the _id of its customer until the person   *)
(* is identified by the workspace's primary key.  Events, $identify events *)
(* and upserts find or create their customer                               *)
(* (CustomersService.findOrCreateCustomerBySearchOptions); $identify then  *)
(* merges the device's customer into the person's                          *)
(* (EventsService.handleIdentify, deduplication).                          *)
(*                                                                         *)
(* Every await is a step: requests are handled at once by any number of    *)
(* processes, and MongoDB sees each query and each update by itself.  Of a *)
(* customer the model keeps what it is found by: the primary key,          *)
(* other_ids and the token of one kind of device.                          *)
(***************************************************************************)
EXTENDS Integers, FiniteSets

CONSTANTS
  Devices,      \* correlation values
  People,       \* values of the primary key
  Users,        \* Users[d]: who identifies on device d
  Requests,
  Nobody,       \* no value of the primary key
  NoDevice,     \* no token
  NoCustomer,
  TokenIsKey,   \* the workspace has the token as an attribute
  MaxDeletes,   \* bound: customers deleted through the API
  MaxDeaths,    \* bound: processes that die with a request in hand
  MaxRepeats    \* bound: failed requests that are sent again

\* An upsert has no correlation value: its new customer gets a random id.
Ids == Devices \cup Requests

Customer ==
  [key : People \cup {Nobody}, other_ids : SUBSET Devices,
   token : Devices \cup {NoDevice}, setAt : Nat, inWorkspace : BOOLEAN]

EventInput ==
  {[kind |-> "event", device |-> d, key |-> Nobody, token |-> t] :
     d \in Devices, t \in BOOLEAN}

\* What users identify themselves with on device d.
IdentifyInput(d) ==
  {[kind |-> "identify", device |-> d, key |-> p, token |-> t] :
     p \in Users[d], t \in BOOLEAN}

UpsertInput ==
  {[kind |-> "upsert", device |-> NoDevice, key |-> p, token |-> FALSE] :
     p \in People}

Input ==
  EventInput \cup UpsertInput \cup UNION {IdentifyInput(d) : d \in Devices}

ASSUME IdentityAssumption ==
  /\ Users \in [Devices -> SUBSET People]
  /\ Nobody \notin People
  /\ NoDevice \notin Devices
  /\ Devices \cap Requests = {}
  /\ NoCustomer \notin Ids \cup Customer \cup Input
  /\ TokenIsKey \in BOOLEAN
  /\ MaxDeletes \in Nat
  /\ MaxDeaths \in Nat
  /\ MaxRepeats \in Nat

VARIABLES
  customers,   \* customers[i]: the document with _id i, if there is one
  request,     \* request[r]: what the handler of request r has come to
  clock,       \* orders the times at which tokens were set
  erased,      \* people deleted through the API
  revived,     \* devices that got a customer of their own after a merge
  deaths, repeats

vars == <<customers, request, clock, erased, revived, deaths, repeats>>

-----------------------------------------------------------------------------
Points ==
  {"none", "find", "create", "findAgain", "setToken", "alias", "readDuplicate",
   "copyToken", "deleteDuplicate", "setKey", "done", "failed"}

\* seen is the customer as it was read, duplicate the one to be merged.
Handler ==
  [at : Points, input : Input \cup {NoCustomer}, customer : Ids \cup {NoCustomer},
   seen : Customer \cup {NoCustomer}, duplicate : Customer \cup {NoCustomer}]

TypeOK ==
  /\ customers \in [Ids -> Customer \cup {NoCustomer}]
  /\ request \in [Requests -> Handler]
  /\ clock \in Nat
  /\ erased \subseteq People
  /\ revived \subseteq Devices
  /\ deaths \in 0..MaxDeaths
  /\ repeats \in 0..MaxRepeats
  /\ \A r \in Requests :
       request[r].at \in {"setToken", "alias", "readDuplicate", "copyToken",
                          "deleteDuplicate", "setKey"}
         => request[r].customer # NoCustomer

Init ==
  /\ customers = [i \in Ids |-> NoCustomer]
  /\ request = [r \in Requests |->
       [at |-> "none", input |-> NoCustomer, customer |-> NoCustomer,
        seen |-> NoCustomer, duplicate |-> NoCustomer]]
  /\ clock = 0
  /\ erased = {}
  /\ revived = {}
  /\ deaths = 0
  /\ repeats = 0

-----------------------------------------------------------------------------
(* The collection.                                                         *)

Exists(i) == customers[i] # NoCustomer

Here(i) == Exists(i) /\ customers[i].inWorkspace

WithKey(p) == {i \in Ids : Here(i) /\ customers[i].key = p}

WithToken(d) == {i \in Ids : Here(i) /\ customers[i].token = d}

\* The unique indexes on (primary key, workspaceId) and (token, workspaceId).
Allowed(i, c) ==
  \A k \in Ids \ {i} :
    Exists(k) /\ customers[k].inWorkspace = c.inWorkspace =>
      /\ c.key = Nobody \/ customers[k].key # c.key
      /\ c.token = NoDevice \/ customers[k].token # c.token

-----------------------------------------------------------------------------
(* findCustomersBySearchOptions.                                           *)

ByKey(n) == IF n.key = Nobody THEN {} ELSE WithKey(n.key)

ByToken(n) == IF TokenIsKey /\ n.token THEN WithToken(n.device) ELSE {}

ById(n) == {i \in Devices : i = n.device /\ Here(i)}

ByOtherIds(n) == {i \in Ids : Here(i) /\ n.device \in customers[i].other_ids}

\* The first customer by the order of FindType.
Found(n) ==
  IF ByKey(n) # {} THEN ByKey(n)
  ELSE IF ByToken(n) # {} THEN ByToken(n)
  ELSE IF ById(n) # {} THEN ById(n)
  ELSE ByOtherIds(n)

-----------------------------------------------------------------------------
(* A handler goes on.                                                      *)

\* (Slip: the id of the customer is not compared with the device's.)
AliasesAlways(n, i) == TRUE

Aliases(n, i) == i # n.device

\* Once the customer is known, and its token is set.
PointAfterToken(n, i) ==
  CASE n.kind # "identify" -> "done"
    [] n.kind = "identify" /\ Aliases(n, i) -> "alias"
    [] n.kind = "identify" /\ ~Aliases(n, i) -> "setKey"

PointAfterFind(n, i, c) ==
  IF n.token /\ c.token # n.device THEN "setToken" ELSE PointAfterToken(n, i)

\* (Slip: identify does not notice that it has no customer.)
PointWithoutGoesOn(n) == IF n.kind = "identify" THEN "setKey" ELSE "done"

\* identify reads the _id of the customer it has not got.
PointWithout(n) == IF n.kind = "identify" THEN "failed" ELSE "done"

Goes(r, point) == request' = [request EXCEPT ![r].at = point]

Holds(r, i, c, point) ==
  request' = [request EXCEPT
    ![r] = [@ EXCEPT !.at = point, !.customer = i, !.seen = c]]

HistoryUnchanged == UNCHANGED <<erased, revived, deaths, repeats>>

Send(r) ==
  /\ request[r].at = "none"
  /\ \E n \in Input :
       request' = [request EXCEPT ![r] = [@ EXCEPT !.at = "find", !.input = n]]
  /\ UNCHANGED <<customers, clock>>
  /\ HistoryUnchanged

Find(r) ==
  LET n == request[r].input IN
  /\ request[r].at = "find"
  /\ IF Found(n) = {}
     THEN Goes(r, "create")
     ELSE \E i \in Found(n) :
            Holds(r, i, customers[i], PointAfterFind(n, i, customers[i]))
  /\ UNCHANGED <<customers, clock>>
  /\ HistoryUnchanged

NewId(r) ==
  IF request[r].input.kind = "upsert" THEN r ELSE request[r].input.device

NewCustomer(r) ==
  [key |-> request[r].input.key, other_ids |-> {}, token |-> NoDevice,
   setAt |-> 0, inWorkspace |-> TRUE]

Create(r) ==
  LET n == request[r].input
      i == NewId(r)
      c == NewCustomer(r)
  IN
  /\ request[r].at = "create"
  /\ IF ~Exists(i) /\ Allowed(i, c)
     THEN /\ customers' = [customers EXCEPT ![i] = c]
          /\ Holds(r, i, c, PointAfterFind(n, i, c))
          /\ revived' = IF ByOtherIds(n) # {} THEN revived \cup {i} ELSE revived
     ELSE /\ Goes(r, "findAgain")
          /\ UNCHANGED <<customers, revived>>
  /\ UNCHANGED <<clock, erased, deaths, repeats>>

\* After a duplicate key the customer is looked for by the new id, whichever
\* key the duplicate was.
FindAgain(r) ==
  LET n == request[r].input
      i == NewId(r)
  IN
  /\ request[r].at = "findAgain"
  /\ IF Here(i)
     THEN Holds(r, i, customers[i], PointAfterFind(n, i, customers[i]))
     ELSE Goes(r, IF n.kind = "upsert" THEN "failed" ELSE PointWithout(n))
  /\ UNCHANGED <<customers, clock>>
  /\ HistoryUnchanged

\* The token of an event, set on the customer it is about.
SetToken(r) ==
  LET n == request[r].input
      i == request[r].customer
      c == [customers[i] EXCEPT !.token = n.device, !.setAt = clock + 1]
  IN
  /\ request[r].at = "setToken"
  /\ IF ~Here(i)
     THEN Goes(r, PointWithout(n)) /\ UNCHANGED <<customers, clock>>
     ELSE IF ~Allowed(i, c)
     THEN Goes(r, "failed") /\ UNCHANGED <<customers, clock>>
     ELSE /\ customers' = [customers EXCEPT ![i] = c]
          /\ clock' = clock + 1
          /\ Holds(r, i, c, PointAfterToken(n, i))
  /\ HistoryUnchanged

-----------------------------------------------------------------------------
(* deduplication, and the rest of handleIdentify.                          *)

\* (Slip: the device's id is not kept.)
AliasForgotten(r) ==
  /\ request[r].at = "alias"
  /\ Goes(r, "readDuplicate")
  /\ UNCHANGED <<customers, clock>>
  /\ HistoryUnchanged

Alias(r) ==
  LET i == request[r].customer IN
  /\ request[r].at = "alias"
  /\ customers' =
       IF Exists(i)
       THEN [customers EXCEPT
               ![i].other_ids = customers[i].other_ids \cup {request[r].input.device}]
       ELSE customers
  /\ Goes(r, "readDuplicate")
  /\ UNCHANGED clock
  /\ HistoryUnchanged

\* The duplicate's token is the newer one.
TokenToCopy(c, duplicate) ==
  /\ duplicate # NoCustomer
  /\ duplicate.setAt > c.setAt

ReadDuplicate(r) ==
  LET duplicate == customers[request[r].input.device] IN
  /\ request[r].at = "readDuplicate"
  /\ request' = [request EXCEPT
       ![r] = [@ EXCEPT !.duplicate = duplicate,
                 !.at = IF TokenToCopy(request[r].seen, duplicate)
                        THEN "copyToken" ELSE "deleteDuplicate"]]
  /\ UNCHANGED <<customers, clock>>
  /\ HistoryUnchanged

CopyToken(r) ==
  LET i == request[r].customer
      c == [customers[i] EXCEPT !.token = request[r].duplicate.token,
                                !.setAt = request[r].duplicate.setAt]
  IN
  /\ request[r].at = "copyToken"
  /\ IF Exists(i) /\ ~Allowed(i, c)
     THEN Goes(r, "failed") /\ UNCHANGED customers
     ELSE /\ Goes(r, "deleteDuplicate")
          /\ customers' = IF Exists(i) THEN [customers EXCEPT ![i] = c]
                          ELSE customers
  /\ UNCHANGED clock
  /\ HistoryUnchanged

DeleteDuplicate(r) ==
  /\ request[r].at = "deleteDuplicate"
  /\ customers' = [customers EXCEPT ![request[r].input.device] = NoCustomer]
  /\ Goes(r, "setKey")
  /\ UNCHANGED clock
  /\ HistoryUnchanged

\* An upsert: a customer that is gone is inserted again, without workspace.
SetKey(r) ==
  LET i == request[r].customer
      p == request[r].input.key
      c == IF Exists(i) THEN [customers[i] EXCEPT !.key = p]
           ELSE [key |-> p, other_ids |-> {}, token |-> NoDevice, setAt |-> 0,
                 inWorkspace |-> FALSE]
  IN
  /\ request[r].at = "setKey"
  /\ IF Allowed(i, c)
     THEN customers' = [customers EXCEPT ![i] = c] /\ Goes(r, "done")
     ELSE Goes(r, "failed") /\ UNCHANGED customers
  /\ UNCHANGED clock
  /\ HistoryUnchanged

-----------------------------------------------------------------------------
(* CustomersService.delete.                                                *)
Delete(p) ==
  /\ Cardinality(erased) < MaxDeletes
  /\ \E i \in WithKey(p) :
       customers' = [customers EXCEPT ![i] = NoCustomer]
  /\ erased' = erased \cup {p}
  /\ UNCHANGED <<request, clock, revived, deaths, repeats>>

Underway(r) == request[r].at \notin {"none", "done", "failed"}

\* The process dies.  A job of an event is delivered again.
Dies(r) ==
  /\ Underway(r)
  /\ deaths < MaxDeaths
  /\ deaths' = deaths + 1
  /\ Goes(r, IF request[r].input.kind = "event" THEN "find" ELSE "failed")
  /\ UNCHANGED <<customers, clock, erased, revived, repeats>>

\* The job of an event is retried; a device sends its batch again.
Repeat(r) ==
  /\ request[r].at = "failed"
  /\ repeats < MaxRepeats
  /\ repeats' = repeats + 1
  /\ Goes(r, "find")
  /\ UNCHANGED <<customers, clock, erased, revived, deaths>>

-----------------------------------------------------------------------------
Handle(r) ==
  \/ Find(r) \/ Create(r) \/ FindAgain(r) \/ SetToken(r)
  \/ Alias(r) \/ ReadDuplicate(r) \/ CopyToken(r) \/ DeleteDuplicate(r)
  \/ SetKey(r)

Next ==
  \/ \E r \in Requests : Send(r) \/ Handle(r) \/ Dies(r) \/ Repeat(r)
  \/ \E p \in People : Delete(p)

Spec == Init /\ [][Next]_vars

-----------------------------------------------------------------------------
(* Properties.                                                             *)

\* Nobody else identifies on the devices of person p.
Sole(p) == \A d \in Devices : p \in Users[d] => Users[d] = {p}

(***************************************************************************)
(* The customer of a person is not lost in a merge: once there is one with *)
(* the primary key of somebody who shares no device there always is, until *)
(* the person is deleted, whichever requests of however many devices are   *)
(* handled at once, and whatever others do on devices they share.          *)
(***************************************************************************)
PersonKept ==
  [][\A p \in People :
       Sole(p) /\ WithKey(p) # {} /\ p \notin erased' => (WithKey(p) # {})']_vars

(***************************************************************************)
(* Once a device has identified its person, what the device sends is about *)
(* that person's customer: its id has become the customer's or one of its  *)
(* other_ids.  (Excepted are devices for which a request that had found    *)
(* nobody before the merge created a customer after it, and people who     *)
(* share a device.)                                                        *)
(***************************************************************************)
Resolved(d, p) ==
  LET found == Found([kind |-> "event", device |-> d, key |-> Nobody,
                      token |-> FALSE])
  IN found # {} /\ \A i \in found : customers[i].key = p

IdentifiedResolves ==
  \A r \in Requests :
    LET n == request[r].input IN
    request[r].at = "done" /\ n.kind = "identify" /\ Sole(n.key)
      => n.key \in erased \/ n.device \in revived \/ Resolved(n.device, n.key)
=============================================================================
