------------------------ MODULE CustomerIdentityProofs ------------------------
(***************************************************************************)
(* What holds of CustomerIdentity for any number of devices, people and    *)
(* requests, whoever dies, is sent again or is deleted.                    *)
(***************************************************************************)
EXTENDS CustomerIdentity, TLAPS

-----------------------------------------------------------------------------
(* Requests.                                                               *)

LEMMA InputFacts ==
  ASSUME NEW n \in Input
  PROVE  /\ n.kind \in {"event", "identify", "upsert"}
         /\ n.kind # "upsert" => n.device \in Devices
         /\ n.kind = "event" => n.key = Nobody
         /\ n.kind = "identify" => n.key \in People /\ n.key \in Users[n.device]
         /\ n.kind = "upsert" => /\ n.key \in People
                                 /\ n.device = NoDevice
                                 /\ n.token = FALSE
         /\ n.key \in People \cup {Nobody}
<1>1. CASE n \in EventInput
  BY <1>1 DEF EventInput
<1>2. CASE n \in UNION {IdentifyInput(d) : d \in Devices}
  <2>0. PICK d \in Devices : n \in IdentifyInput(d)
    BY <1>2
  <2>1. PICK p \in Users[d], t \in BOOLEAN :
          n = [kind |-> "identify", device |-> d, key |-> p, token |-> t]
    BY <2>0 DEF IdentifyInput
  <2>2. p \in People
    BY <2>1, IdentityAssumption
  <2> QED BY <2>1, <2>2
<1>3. CASE n \in UpsertInput
  BY <1>3 DEF UpsertInput
<1> QED BY <1>1, <1>2, <1>3 DEF Input

\* A handler that holds a customer, and one that merges another into it.
Merging == {"alias", "readDuplicate", "copyToken", "deleteDuplicate"}
Held == Merging \cup {"setToken", "setKey"}

HandlerOK(h) ==
  /\ h \in Handler
  /\ h.at # "none" => h.input \in Input
  /\ h.at = "setToken" => h.input.token
  /\ h.at \in Merging \cup {"setKey"} => h.input.kind = "identify"
  /\ h.at \in Merging => h.customer # h.input.device
  /\ h.at = "copyToken" => h.duplicate \in Customer
  /\ h.at \in Held => h.customer \in Ids

HandlersOK == \A r \in Requests : HandlerOK(request[r])

Typed == TypeOK /\ HandlersOK

\* Where a handler goes on with customer i.
LEMMA AfterToken ==
  ASSUME NEW n \in Input, NEW i
  PROVE  \/ PointAfterToken(n, i) = "done" /\ n.kind # "identify"
         \/ PointAfterToken(n, i) = "alias" /\ n.kind = "identify" /\ i # n.device
         \/ PointAfterToken(n, i) = "setKey" /\ n.kind = "identify" /\ i = n.device
BY InputFacts DEF PointAfterToken, Aliases

LEMMA AfterFind ==
  ASSUME NEW n \in Input, NEW i, NEW c
  PROVE  \/ PointAfterFind(n, i, c) = "setToken" /\ n.token
         \/ PointAfterFind(n, i, c) = "done" /\ n.kind # "identify"
         \/ PointAfterFind(n, i, c) = "alias" /\ n.kind = "identify" /\ i # n.device
         \/ PointAfterFind(n, i, c) = "setKey" /\ n.kind = "identify" /\ i = n.device
<1>1. CASE n.token /\ c.token # n.device
  BY <1>1 DEF PointAfterFind
<1>2. CASE ~(n.token /\ c.token # n.device)
  BY <1>2, AfterToken DEF PointAfterFind
<1> QED BY <1>1, <1>2

LEMMA AfterNone ==
  ASSUME NEW n
  PROVE  /\ PointWithout(n) \in {"done", "failed"}
         /\ n.kind = "identify" => PointWithout(n) = "failed"
BY DEF PointWithout

\* A handler that takes customer i, and one that ends or starts over.
LEMMA HoldsOK ==
  ASSUME Typed, NEW r \in Requests, request[r].at \notin {"none"},
         NEW i \in Ids, NEW c \in Customer, NEW point,
         Holds(r, i, c, point),
         \/ point = PointAfterFind(request[r].input, i, c)
         \/ point = PointAfterToken(request[r].input, i)
  PROVE  request' \in [Requests -> Handler] /\ HandlersOK'
<1>1. HandlerOK(request[r]) /\ request[r].input \in Input
  BY DEF Typed, HandlersOK, HandlerOK
<1>2. PICK n \in Input : n = request[r].input
  BY <1>1
<1>3. \/ point = "setToken" /\ n.token
      \/ point = "done"
      \/ point = "alias" /\ n.kind = "identify" /\ i # n.device
      \/ point = "setKey" /\ n.kind = "identify" /\ i = n.device
  BY <1>2, AfterFind, AfterToken
<1> DEFINE h == [request[r] EXCEPT !.at = point, !.customer = i, !.seen = c]
<1>4. /\ h.at = point /\ h.customer = i /\ h.input = n /\ h.seen = c
      /\ h.duplicate = request[r].duplicate
      /\ h \in Handler
  BY <1>1, <1>2, <1>3 DEF HandlerOK, Handler, Points
<1>5. request' = [request EXCEPT ![r] = h]
  BY DEF Holds
<1> HIDE DEF h
<1>6. HandlerOK(h)
  BY <1>3, <1>4 DEF HandlerOK, Merging, Held
<1> QED BY <1>4, <1>5, <1>6 DEF Typed, TypeOK, HandlersOK

LEMMA GoesOK ==
  ASSUME Typed, NEW r \in Requests, NEW point \in Points, Goes(r, point),
         request[r].at # "none",
         point = "setToken" => FALSE,
         point \in Merging \cup {"setKey"} => request[r].at \in Merging,
         point = "copyToken" => FALSE
  PROVE  request' \in [Requests -> Handler] /\ HandlersOK'
<1>1. HandlerOK(request[r])
  BY DEF Typed, HandlersOK
<1> DEFINE h == [request[r] EXCEPT !.at = point]
<1>2. /\ h.at = point /\ h.customer = request[r].customer
      /\ h.input = request[r].input /\ h.duplicate = request[r].duplicate
      /\ h \in Handler
  BY <1>1 DEF HandlerOK, Handler
<1>3. request' = [request EXCEPT ![r] = h]
  BY <1>1 DEF Goes, HandlerOK, Handler
<1> HIDE DEF h
<1>4. HandlerOK(h)
  BY <1>1, <1>2 DEF HandlerOK, Merging, Held
<1> QED BY <1>2, <1>3, <1>4 DEF Typed, TypeOK, HandlersOK

\* One document is written.
LEMMA DocumentType ==
  ASSUME TypeOK, NEW i \in Ids, NEW c \in Customer \cup {NoCustomer},
         customers' = [customers EXCEPT ![i] = c]
  PROVE  customers' \in [Ids -> Customer \cup {NoCustomer}]
BY DEF TypeOK

-----------------------------------------------------------------------------
(* Type correctness.                                                       *)

\* TypeOK says what the handlers do, with the types of the rest.
LEMMA TypedFrom ==
  ASSUME Typed,
         customers' \in [Ids -> Customer \cup {NoCustomer}],
         request' \in [Requests -> Handler], HandlersOK',
         clock' \in Nat, erased' \subseteq People, revived' \subseteq Devices,
         deaths' \in 0..MaxDeaths, repeats' \in 0..MaxRepeats
  PROVE  Typed'
<1>1. \A r \in Requests : request'[r].at \in Held => request'[r].customer # NoCustomer
  BY IdentityAssumption DEF HandlersOK, HandlerOK
<1> QED BY <1>1 DEF Typed, TypeOK, Held, Merging

LEMMA SendTyped ==
  ASSUME Typed, NEW r \in Requests, Send(r) PROVE Typed'
<1>1. PICK n \in Input :
        request' = [request EXCEPT ![r] = [@ EXCEPT !.at = "find", !.input = n]]
  BY DEF Send
<1> DEFINE h == [request[r] EXCEPT !.at = "find", !.input = n]
<1>2. h \in Handler /\ h.at = "find" /\ h.input = n
  BY DEF Typed, HandlersOK, HandlerOK, Handler, Points
<1>3. request' = [request EXCEPT ![r] = h]
  BY <1>1
<1> HIDE DEF h
<1>4. HandlerOK(h)
  BY <1>2 DEF HandlerOK, Merging, Held
<1>5. request' \in [Requests -> Handler] /\ HandlersOK'
  BY <1>2, <1>3, <1>4 DEF Typed, TypeOK, HandlersOK
<1> QED BY <1>5, TypedFrom DEF Send, HistoryUnchanged, Typed, TypeOK

\* A customer that is found is one.
LEMMA FoundIds ==
  ASSUME TypeOK, NEW n, NEW i \in Found(n)
  PROVE  i \in Ids /\ Here(i) /\ customers[i] \in Customer
<1>1. i \in Ids /\ Here(i)
  BY DEF Found, ByKey, ByToken, ById, ByOtherIds, WithKey, WithToken, Ids
<1> QED BY <1>1 DEF TypeOK, Here, Exists

LEMMA FindTyped ==
  ASSUME Typed, NEW r \in Requests, Find(r) PROVE Typed'
<1>1. request' \in [Requests -> Handler] /\ HandlersOK'
  <2>1. CASE Goes(r, "create")
    BY <2>1, GoesOK DEF Find, Points, Merging
  <2>2. ASSUME NEW i \in Found(request[r].input),
               Holds(r, i, customers[i],
                     PointAfterFind(request[r].input, i, customers[i]))
        PROVE  request' \in [Requests -> Handler] /\ HandlersOK'
    BY <2>2, FoundIds, HoldsOK DEF Find, Typed
  <2> QED BY <2>1, <2>2 DEF Find
<1> QED BY <1>1, TypedFrom DEF Find, HistoryUnchanged, Typed, TypeOK

\* The document a handler creates.
LEMMA NewType ==
  ASSUME Typed, NEW r \in Requests, request[r].at # "none"
  PROVE  /\ NewId(r) \in Ids
         /\ NewCustomer(r) \in Customer
         /\ request[r].input.kind # "upsert" => NewId(r) \in Devices
         /\ request[r].input.kind = "upsert" => NewId(r) = r
<1>1. request[r].input \in Input
  BY DEF Typed, HandlersOK, HandlerOK
<1> QED BY <1>1, InputFacts DEF NewId, NewCustomer, Ids, Customer

LEMMA CreateTyped ==
  ASSUME Typed, NEW r \in Requests, Create(r) PROVE Typed'
<1>1. /\ NewId(r) \in Ids /\ NewCustomer(r) \in Customer
      /\ request[r].input.kind # "upsert" => NewId(r) \in Devices
      /\ request[r].input \in Input
  BY NewType DEF Create, Typed, HandlersOK, HandlerOK
<1>2. CASE ~Exists(NewId(r)) /\ Allowed(NewId(r), NewCustomer(r))
  <2>1. customers' \in [Ids -> Customer \cup {NoCustomer}]
    BY <1>1, <1>2, DocumentType DEF Create, Typed
  <2>2. request' \in [Requests -> Handler] /\ HandlersOK'
    BY <1>1, <1>2, HoldsOK DEF Create
  <2>3. revived' \subseteq Devices
    <3>1. ByOtherIds(request[r].input) # {} => NewId(r) \in Devices
      <4>1. \A i \in Ids : Here(i) => customers[i].other_ids \subseteq Devices
        BY DEF Typed, TypeOK, Here, Exists, Customer
      <4>2. ByOtherIds(request[r].input) # {} => request[r].input.device \in Devices
        BY <4>1 DEF ByOtherIds
      <4>3. request[r].input.device \in Devices => request[r].input.kind # "upsert"
        BY <1>1, InputFacts, IdentityAssumption
      <4> QED BY <1>1, <4>2, <4>3
    <3> QED BY <1>2, <3>1 DEF Create, Typed, TypeOK
  <2> QED BY <2>1, <2>2, <2>3, TypedFrom DEF Create, Typed, TypeOK
<1>3. CASE ~(~Exists(NewId(r)) /\ Allowed(NewId(r), NewCustomer(r)))
  <2>1. Goes(r, "findAgain") /\ request[r].at = "create"
    BY <1>3 DEF Create
  <2>2. request' \in [Requests -> Handler] /\ HandlersOK'
    BY <2>1, GoesOK DEF Points, Merging
  <2> QED BY <1>3, <2>2, TypedFrom DEF Create, Typed, TypeOK
<1> QED BY <1>2, <1>3

LEMMA FindAgainTyped ==
  ASSUME Typed, NEW r \in Requests, FindAgain(r) PROVE Typed'
<1>1. NewId(r) \in Ids /\ request[r].at = "findAgain"
  BY NewType DEF FindAgain
<1>2. request' \in [Requests -> Handler] /\ HandlersOK'
  <2>1. CASE Here(NewId(r))
    <3>1. customers[NewId(r)] \in Customer
      BY <1>1, <2>1 DEF Typed, TypeOK, Here, Exists
    <3> QED BY <1>1, <2>1, <3>1, HoldsOK DEF FindAgain
  <2>2. CASE ~Here(NewId(r))
    <3>1. PICK point \in {"failed", "done"} : Goes(r, point)
      BY <2>2, AfterNone DEF FindAgain
    <3> QED BY <1>1, <3>1, GoesOK DEF Points, Merging
  <2> QED BY <2>1, <2>2
<1> QED BY <1>2, TypedFrom DEF FindAgain, HistoryUnchanged, Typed, TypeOK

LEMMA SetTokenTyped ==
  ASSUME Typed, NEW r \in Requests, SetToken(r) PROVE Typed'
<1>1. /\ request[r].at = "setToken" /\ request[r].customer \in Ids
      /\ request[r].input \in Input /\ request[r].input.device \in Devices
  <2>1. HandlerOK(request[r]) /\ request[r].at = "setToken"
    BY DEF Typed, HandlersOK, SetToken
  <2>2. request[r].input \in Input /\ request[r].input.token
    BY <2>1 DEF HandlerOK
  <2> QED BY <2>1, <2>2, InputFacts DEF HandlerOK, Held
<1> DEFINE c == [customers[request[r].customer] EXCEPT
                   !.token = request[r].input.device, !.setAt = clock + 1]
<1>2. CASE ~Here(request[r].customer) \/ ~Allowed(request[r].customer, c)
  <2>1. PICK point \in {"failed", "done"} : Goes(r, point)
    BY <1>2, AfterNone DEF SetToken
  <2>2. request' \in [Requests -> Handler] /\ HandlersOK'
    BY <1>1, <2>1, GoesOK DEF Points, Merging
  <2>3. UNCHANGED <<customers, clock>>
    BY <1>2 DEF SetToken
  <2> QED BY <2>2, <2>3, TypedFrom DEF SetToken, HistoryUnchanged, Typed, TypeOK
<1>3. CASE Here(request[r].customer) /\ Allowed(request[r].customer, c)
  <2>1. customers[request[r].customer] \in Customer
    BY <1>1, <1>3 DEF Typed, TypeOK, Here, Exists
  <2>2. c \in Customer
    <3>1. clock + 1 \in Nat
      BY DEF Typed, TypeOK
    <3> QED BY <1>1, <2>1, <3>1 DEF Customer
  <2>3. customers' = [customers EXCEPT ![request[r].customer] = c]
    BY <1>3 DEF SetToken
  <2>4. customers' \in [Ids -> Customer \cup {NoCustomer}]
    BY <1>1, <2>2, <2>3, DocumentType DEF Typed
  <2>5. Holds(r, request[r].customer, c,
              PointAfterToken(request[r].input, request[r].customer))
    BY <1>3 DEF SetToken
  <2> HIDE DEF c
  <2>6. request' \in [Requests -> Handler] /\ HandlersOK'
    BY <1>1, <2>2, <2>5, HoldsOK
  <2>7. clock' \in Nat
    BY <1>3 DEF SetToken, Typed, TypeOK, c
  <2> QED BY <2>4, <2>6, <2>7, TypedFrom DEF SetToken, HistoryUnchanged, Typed, TypeOK
<1> QED BY <1>2, <1>3

LEMMA AliasTyped ==
  ASSUME Typed, NEW r \in Requests, Alias(r) PROVE Typed'
<1>1. /\ request[r].at = "alias" /\ request[r].customer \in Ids
      /\ request[r].input.device \in Devices
  <2>1. HandlerOK(request[r]) /\ request[r].at = "alias"
    BY DEF Typed, HandlersOK, Alias
  <2> QED BY <2>1, InputFacts DEF HandlerOK, Held, Merging
<1>2. request' \in [Requests -> Handler] /\ HandlersOK'
  BY <1>1, GoesOK DEF Alias, Points, Merging
<1>3. customers' \in [Ids -> Customer \cup {NoCustomer}]
  <2>1. CASE Exists(request[r].customer)
    <3>1. customers[request[r].customer] \in Customer
      BY <1>1, <2>1 DEF Typed, TypeOK, Exists
    <3>2. [customers[request[r].customer] EXCEPT
             !.other_ids = customers[request[r].customer].other_ids
                             \cup {request[r].input.device}] \in Customer
      BY <1>1, <3>1 DEF Customer
    <3> QED BY <1>1, <2>1, <3>2 DEF Alias, Typed, TypeOK
  <2> QED BY <2>1 DEF Alias, Typed, TypeOK
<1> QED BY <1>2, <1>3, TypedFrom DEF Alias, HistoryUnchanged, Typed, TypeOK

LEMMA ReadDuplicateTyped ==
  ASSUME Typed, NEW r \in Requests, ReadDuplicate(r) PROVE Typed'
<1>1. /\ HandlerOK(request[r]) /\ request[r].at = "readDuplicate"
      /\ request[r].customer \in Ids /\ request[r].input.device \in Devices
  <2>1. HandlerOK(request[r]) /\ request[r].at = "readDuplicate"
    BY DEF Typed, HandlersOK, ReadDuplicate
  <2> QED BY <2>1, InputFacts DEF HandlerOK, Held, Merging
<1>2. PICK duplicate \in Customer \cup {NoCustomer} :
        duplicate = customers[request[r].input.device]
  BY <1>1 DEF Typed, TypeOK, Ids
<1>3. PICK point \in {"copyToken", "deleteDuplicate"} :
        /\ request' = [request EXCEPT
             ![r] = [@ EXCEPT !.duplicate = duplicate, !.at = point]]
        /\ point = "copyToken" => duplicate # NoCustomer
  BY <1>2 DEF ReadDuplicate, TokenToCopy
<1> DEFINE h == [request[r] EXCEPT !.duplicate = duplicate, !.at = point]
<1>4. /\ h \in Handler /\ h.at = point /\ h.duplicate = duplicate
      /\ h.input = request[r].input /\ h.customer = request[r].customer
  BY <1>1, <1>2 DEF HandlerOK, Handler, Points
<1>5. request' = [request EXCEPT ![r] = h]
  BY <1>3
<1> HIDE DEF h
<1>6. HandlerOK(h)
  BY <1>1, <1>2, <1>3, <1>4 DEF HandlerOK, Merging, Held
<1>7. request' \in [Requests -> Handler] /\ HandlersOK'
  BY <1>4, <1>5, <1>6 DEF Typed, TypeOK, HandlersOK
<1> QED BY <1>7, TypedFrom DEF ReadDuplicate, HistoryUnchanged, Typed, TypeOK

LEMMA CopyTokenTyped ==
  ASSUME Typed, NEW r \in Requests, CopyToken(r) PROVE Typed'
<1>1. /\ request[r].at = "copyToken" /\ request[r].customer \in Ids
      /\ request[r].duplicate \in Customer
  BY DEF Typed, HandlersOK, CopyToken, HandlerOK, Held, Merging
<1>2. PICK point \in {"failed", "deleteDuplicate"} : Goes(r, point)
  BY DEF CopyToken
<1>3. request' \in [Requests -> Handler] /\ HandlersOK'
  BY <1>1, <1>2, GoesOK DEF Points, Merging
<1>4. customers' \in [Ids -> Customer \cup {NoCustomer}]
  <2>1. CASE Exists(request[r].customer)
    <3>1. customers[request[r].customer] \in Customer
      BY <1>1, <2>1 DEF Typed, TypeOK, Exists
    <3>2. [customers[request[r].customer] EXCEPT
             !.token = request[r].duplicate.token,
             !.setAt = request[r].duplicate.setAt] \in Customer
      BY <1>1, <3>1 DEF Customer
    <3> QED BY <1>1, <2>1, <3>2 DEF CopyToken, Typed, TypeOK
  <2>2. CASE ~Exists(request[r].customer)
    BY <2>2 DEF CopyToken, Typed, TypeOK
  <2> QED BY <2>1, <2>2
<1> QED BY <1>3, <1>4, TypedFrom DEF CopyToken, HistoryUnchanged, Typed, TypeOK

LEMMA DeleteDuplicateTyped ==
  ASSUME Typed, NEW r \in Requests, DeleteDuplicate(r) PROVE Typed'
<1>1. request' \in [Requests -> Handler] /\ HandlersOK'
  BY GoesOK DEF DeleteDuplicate, Points, Merging
<1>2. customers' \in [Ids -> Customer \cup {NoCustomer}]
  BY DEF DeleteDuplicate, Typed, TypeOK
<1> QED BY <1>1, <1>2, TypedFrom DEF DeleteDuplicate, HistoryUnchanged, Typed, TypeOK

\* What SetKey writes.
WithTheKey(i, p) ==
  IF Exists(i) THEN [customers[i] EXCEPT !.key = p]
  ELSE [key |-> p, other_ids |-> {}, token |-> NoDevice, setAt |-> 0,
        inWorkspace |-> FALSE]

LEMMA SetKeyFacts ==
  ASSUME Typed, NEW r \in Requests, SetKey(r)
  PROVE  /\ request[r].at = "setKey" /\ request[r].customer \in Ids
         /\ request[r].input \in Input /\ request[r].input.kind = "identify"
         /\ request[r].input.key \in People
         /\ WithTheKey(request[r].customer, request[r].input.key) \in Customer
         /\ \/ /\ Goes(r, "done")
               /\ Allowed(request[r].customer,
                          WithTheKey(request[r].customer, request[r].input.key))
               /\ customers' = [customers EXCEPT ![request[r].customer] =
                    WithTheKey(request[r].customer, request[r].input.key)]
            \/ Goes(r, "failed") /\ UNCHANGED customers
<1>1. /\ request[r].at = "setKey" /\ request[r].customer \in Ids
      /\ request[r].input \in Input /\ request[r].input.kind = "identify"
      /\ request[r].input.key \in People
  <2>1. HandlerOK(request[r]) /\ request[r].at = "setKey"
    BY DEF Typed, HandlersOK, SetKey
  <2> QED BY <2>1, InputFacts DEF HandlerOK, Held
<1>2. WithTheKey(request[r].customer, request[r].input.key) \in Customer
  <2>1. Exists(request[r].customer) => customers[request[r].customer] \in Customer
    BY <1>1 DEF Typed, TypeOK, Exists
  <2> QED BY <1>1, <2>1 DEF WithTheKey, Customer
<1> QED BY <1>1, <1>2 DEF SetKey, WithTheKey

LEMMA SetKeyTyped ==
  ASSUME Typed, NEW r \in Requests, SetKey(r) PROVE Typed'
<1>1. PICK point \in {"done", "failed"} : Goes(r, point) /\ request[r].at = "setKey"
  BY SetKeyFacts
<1>2. request' \in [Requests -> Handler] /\ HandlersOK'
  BY <1>1, GoesOK DEF Points, Merging
<1>3. customers' \in [Ids -> Customer \cup {NoCustomer}]
  BY SetKeyFacts DEF Typed, TypeOK
<1> QED BY <1>2, <1>3, TypedFrom DEF SetKey, HistoryUnchanged, Typed, TypeOK

LEMMA DeleteTyped ==
  ASSUME Typed, NEW p \in People, Delete(p) PROVE Typed'
<1>1. customers' \in [Ids -> Customer \cup {NoCustomer}]
  BY DEF Delete, WithKey, Typed, TypeOK
<1>2. request' \in [Requests -> Handler] /\ HandlersOK'
  BY DEF Delete, Typed, TypeOK, HandlersOK
<1> QED BY <1>1, <1>2, TypedFrom DEF Delete, Typed, TypeOK

LEMMA AgainTyped ==
  ASSUME Typed, NEW r \in Requests, Dies(r) \/ Repeat(r) PROVE Typed'
<1>1. PICK point \in {"find", "failed"} : Goes(r, point) /\ request[r].at # "none"
  BY DEF Dies, Repeat, Underway
<1>2. request' \in [Requests -> Handler] /\ HandlersOK'
  BY <1>1, GoesOK DEF Points, Merging
<1>3. deaths' \in 0..MaxDeaths /\ repeats' \in 0..MaxRepeats
  BY IdentityAssumption DEF Dies, Repeat, Typed, TypeOK
<1> QED BY <1>2, <1>3, TypedFrom DEF Dies, Repeat, Typed, TypeOK

LEMMA TypedStep == Typed /\ [Next]_vars => Typed'
<1> SUFFICES ASSUME Typed, [Next]_vars PROVE Typed'
  OBVIOUS
<1>1. CASE UNCHANGED vars
  BY <1>1 DEF vars, Typed, TypeOK, HandlersOK
<1> QED
  BY <1>1, SendTyped, FindTyped, CreateTyped, FindAgainTyped, SetTokenTyped,
     AliasTyped, ReadDuplicateTyped, CopyTokenTyped, DeleteDuplicateTyped,
     SetKeyTyped, DeleteTyped, AgainTyped
  DEF Next, Handle

LEMMA TypedInit == Init => Typed
BY IdentityAssumption
DEF Init, Typed, TypeOK, HandlersOK, HandlerOK, Handler, Points, Merging, Held

\* Every step is typed.
THEOREM TypeInvariant == Spec => []TypeOK
<1>1. Spec => []Typed
  BY TypedInit, TypedStep, PTL DEF Spec
<1> QED BY <1>1, PTL DEF Typed

-----------------------------------------------------------------------------
(* Whose a document is.  The rest follows one person p who shares no       *)
(* device: documents, devices and handlers are p's or not, and nothing     *)
(* leads from one to the other.                                            *)

\* The document with _id i is p's, if a device of p's has made the _id up or
\* an upsert that was about p; and somebody has.
Mine(p, i) ==
  IF i \in Devices THEN p \in Users[i]
  ELSE request[i].at # "none" /\ p = request[i].input.key

Known(i) == i \in Devices \/ request[i].at # "none"

\* What device d sends can be about document i.
Linked(p, d, i) == Known(i) /\ (p \in Users[d] <=> Mine(p, i))

NamedBy(c, d) == c.token = d \/ d \in c.other_ids

\* p's documents have p's key, if any, and the names of p's devices; others
\* have neither.
OwnedDocs(p) ==
  \A i \in Ids : Exists(i) =>
    /\ Known(i)
    /\ customers[i].key = p => Mine(p, i)
    /\ Mine(p, i) => customers[i].key \in {p, Nobody}
    /\ \A d \in Devices : NamedBy(customers[i], d) => Linked(p, d, i)

\* So it is with those in the hands of handlers.
LinkedHandler(p, h) ==
  /\ h.at = "copyToken" =>
       \A d \in Devices : h.duplicate.token = d => Linked(p, d, h.input.device)
  /\ h.at \in Held => Linked(p, h.input.device, h.customer)

Unique(p) ==
  \A i, k \in Ids :
    Here(i) /\ Here(k) /\ customers[i].key = p /\ customers[k].key = p => i = k

-----------------------------------------------------------------------------
(* Who is merged into whom.                                                *)

\* Device d is p's, and p has not been deleted.
Safe(p, d) == p \in Users[d] /\ p \notin erased

\* A customer other than d's own that d's token or id leads to is p's.
NamedKeys(p) ==
  \A i \in Ids : \A d \in Devices :
    i # d /\ Safe(p, d) /\ Here(i) /\ NamedBy(customers[i], d)
      => customers[i].key = p

Merged(d) == \E i \in Ids : i # d /\ Here(i) /\ d \in customers[i].other_ids

(***************************************************************************)
(* A handler for p that holds another customer than the device's own holds *)
(* p's, and has the device among the customer's other_ids once it has      *)
(* passed alias; when it has deleted the device's own, that stays away or  *)
(* is revived.  One that holds the device's own finds it, or the one it    *)
(* was merged into.                                                        *)
(***************************************************************************)
GoingOther(p, h) ==
  h.at \in Held /\ h.customer # h.input.device /\ Safe(p, h.input.device) =>
    /\ Here(h.customer)
    /\ customers[h.customer].key = p
    /\ h.at \notin {"setToken", "alias"} =>
         h.input.device \in customers[h.customer].other_ids
    /\ h.at = "setKey" => ~Here(h.input.device) \/ h.input.device \in revived

GoingOwn(p, h) ==
  h.at \in Held /\ h.customer = h.input.device /\ Safe(p, h.input.device) =>
    Here(h.input.device) \/ Merged(h.input.device)

\* And one that is done leaves the device with p.
Gone(p, h) ==
  h.at = "done" /\ h.input.kind = "identify" /\ Safe(p, h.input.device) =>
    \/ Here(h.input.device) /\ customers[h.input.device].key = p
    \/ ~Here(h.input.device) /\ Merged(h.input.device)
    \/ h.input.device \in revived

Going(p, h) == GoingOther(p, h) /\ GoingOwn(p, h) /\ Gone(p, h)

Documents(p) == OwnedDocs(p) /\ Unique(p) /\ NamedKeys(p)

Handled(p) ==
  \A r \in Requests : LinkedHandler(p, request[r]) /\ Going(p, request[r])

IdentityInv(p) == Typed /\ Documents(p) /\ Handled(p)

-----------------------------------------------------------------------------
(* What no step does.                                                      *)

\* No customer of p is lost, nor loses another id.
Keeps(p) ==
  p \notin erased' =>
    \A i \in Ids : Here(i) /\ customers[i].key = p =>
      /\ Here(i)'
      /\ customers'[i].key = p
      /\ customers[i].other_ids \subseteq customers'[i].other_ids

\* The own customer of p's device goes away in a merge, and comes back revived.
Leaves(p) ==
  \A d \in Devices : Safe(p, d)' =>
    /\ Here(d) /\ ~Here(d)' => Merged(d)'
    /\ ~Here(d) /\ Here(d)' /\ Merged(d) => d \in revived'

\* What has been sent stays.
SentStays ==
  \A r \in Requests : request[r].at # "none" =>
    request'[r].at # "none" /\ request'[r].input = request[r].input

Grows == erased \subseteq erased' /\ revived \subseteq revived' /\ SentStays

LEMMA KnownStays ==
  ASSUME Grows, NEW p, NEW i \in Ids, Known(i)
  PROVE  Known(i)' /\ (Mine(p, i)' <=> Mine(p, i))
<1>1. CASE i \in Devices
  BY <1>1 DEF Known, Mine
<1>2. CASE i \in Requests /\ i \notin Devices
  BY <1>2 DEF Known, Mine, Grows, SentStays
<1> QED BY <1>1, <1>2 DEF Ids

LEMMA LinkStays ==
  ASSUME Grows, NEW p, NEW i \in Ids, NEW d, Linked(p, d, i)
  PROVE  Linked(p, d, i)'
BY KnownStays DEF Linked

LEMMA SafeBefore ==
  ASSUME Grows, NEW p, NEW d, Safe(p, d)' PROVE Safe(p, d)
BY DEF Safe, Grows

\* A device's own document is linked to it.
LEMMA LinkedOwn ==
  ASSUME NEW p, NEW d \in Devices
  PROVE  Linked(p, d, d)
BY DEF Linked, Known, Mine

\* What leads to the customer of a device leads to what the device leads to.
LEMMA LinkedOn ==
  ASSUME NEW p, NEW t, NEW d \in Devices, NEW i, Linked(p, t, d), Linked(p, d, i)
  PROVE  Linked(p, t, i)
BY DEF Linked, Mine

\* Who identifies on p's devices is p.
LEMMA SoleUser ==
  ASSUME NEW p, Sole(p), NEW d \in Devices, NEW q \in Users[d], p \in Users[d]
  PROVE  q = p
BY DEF Sole

LEMMA MergedStays ==
  ASSUME Typed, NEW p \in People, NamedKeys(p), Keeps(p), Grows, NEW d \in Devices,
         Safe(p, d)', Merged(d)
  PROVE  Merged(d)'
<1>1. PICK i \in Ids : i # d /\ Here(i) /\ d \in customers[i].other_ids
  BY DEF Merged
<1>2. customers[i].key = p
  BY <1>1, SafeBefore DEF NamedKeys, NamedBy
<1>3. p \notin erased'
  BY DEF Safe
<1>4. Here(i)' /\ d \in customers'[i].other_ids
  BY <1>1, <1>2, <1>3 DEF Keeps
<1> QED BY <1>1, <1>4 DEF Merged

\* A handler that waits stays as it is.
LEMMA GoingStays ==
  ASSUME Typed, NEW p \in People, NamedKeys(p), Keeps(p), Leaves(p), Grows,
         NEW h, HandlerOK(h), Going(p, h)
  PROVE  Going(p, h)'
<1>1. ASSUME h.at \in Held
      PROVE  h.input \in Input /\ h.input.device \in Devices /\ h.customer \in Ids
  <2>1. h.input \in Input /\ (h.input.kind = "identify" \/ h.input.token)
    BY <1>1 DEF HandlerOK, Held, Merging
  <2> QED BY <1>1, <2>1, InputFacts DEF HandlerOK
<1>2. ASSUME h.at \in Held, h.customer # h.input.device, Safe(p, h.input.device)'
      PROVE  /\ Here(h.customer)'
             /\ customers'[h.customer].key = p
             /\ h.at \notin {"setToken", "alias"} =>
                  h.input.device \in customers'[h.customer].other_ids
             /\ h.at = "setKey" =>
                  ~Here(h.input.device)' \/ h.input.device \in revived'
  <2>1. PICK d \in Devices, i \in Ids : d = h.input.device /\ i = h.customer
    BY <1>1, <1>2
  <2>2. Safe(p, d)' /\ Safe(p, d) /\ i # d /\ p \notin erased'
    BY <1>2, <2>1, SafeBefore DEF Safe
  <2>3. /\ Here(i) /\ customers[i].key = p
        /\ h.at \notin {"setToken", "alias"} => d \in customers[i].other_ids
        /\ h.at = "setKey" => ~Here(d) \/ d \in revived
    BY <1>2, <2>1, <2>2 DEF Going, GoingOther
  <2>4. /\ Here(i)' /\ customers'[i].key = p
        /\ customers[i].other_ids \subseteq customers'[i].other_ids
    BY <2>2, <2>3 DEF Keeps
  <2>5. h.at = "setKey" => Merged(d)
    BY <2>2, <2>3 DEF Merged
  <2>6. h.at = "setKey" => ~Here(d)' \/ d \in revived'
    BY <2>2, <2>3, <2>5 DEF Leaves, Grows
  <2> QED BY <2>1, <2>3, <2>4, <2>6
<1>3. ASSUME h.at \in Held, h.customer = h.input.device, Safe(p, h.input.device)'
      PROVE  Here(h.input.device)' \/ Merged(h.input.device)'
  <2>1. PICK d \in Devices : d = h.input.device
    BY <1>1, <1>3
  <2>2. Safe(p, d)' /\ Safe(p, d)
    BY <1>3, <2>1, SafeBefore
  <2>3. Here(d) \/ Merged(d)
    BY <1>3, <2>1, <2>2 DEF Going, GoingOwn
  <2>4. Here(d)' \/ Merged(d)'
    BY <2>2, <2>3, MergedStays DEF Leaves
  <2> QED BY <2>1, <2>4
<1>4. ASSUME h.at = "done", h.input.kind = "identify", Safe(p, h.input.device)'
      PROVE  \/ Here(h.input.device)' /\ customers'[h.input.device].key = p
             \/ ~Here(h.input.device)' /\ Merged(h.input.device)'
             \/ h.input.device \in revived'
  <2>1. h.input \in Input
    BY <1>4 DEF HandlerOK
  <2>2. PICK d \in Devices : d = h.input.device
    BY <1>4, <2>1, InputFacts
  <2>3. Safe(p, d)' /\ Safe(p, d) /\ p \notin erased'
    BY <1>4, <2>2, SafeBefore DEF Safe
  <2>4. \/ Here(d) /\ customers[d].key = p
        \/ ~Here(d) /\ Merged(d)
        \/ d \in revived
    BY <1>4, <2>2, <2>3 DEF Going, Gone
  <2>5. CASE Here(d) /\ customers[d].key = p
    BY <2>2, <2>3, <2>5 DEF Keeps, Ids
  <2>6. CASE ~Here(d) /\ Merged(d)
    BY <2>2, <2>3, <2>6, MergedStays DEF Leaves
  <2>7. CASE d \in revived
    BY <2>2, <2>7 DEF Grows
  <2> QED BY <2>4, <2>5, <2>6, <2>7
<1> QED BY <1>2, <1>3, <1>4 DEF Going, GoingOther, GoingOwn, Gone

\* Nor does what it is linked to change.
LEMMA LinkedStays ==
  ASSUME Grows, NEW p, NEW h, HandlerOK(h), LinkedHandler(p, h)
  PROVE  LinkedHandler(p, h)'
<1>1. ASSUME h.at \in Held
      PROVE  /\ h.input \in Input /\ h.input.device \in Devices
             /\ h.customer \in Ids /\ h.input.device \in Ids
  <2>1. h.input \in Input /\ (h.input.kind = "identify" \/ h.input.token)
    BY <1>1 DEF HandlerOK, Held, Merging
  <2> QED BY <1>1, <2>1, InputFacts DEF HandlerOK, Ids
<1> QED BY <1>1, LinkStays DEF LinkedHandler, Held, Merging

-----------------------------------------------------------------------------
(* Documents.                                                              *)

DocsKept(p) == Keeps(p) /\ Leaves(p) /\ Documents(p)'

\* What is said of a document that keeps what it says.
LEMMA OwnedStays ==
  ASSUME Grows, NEW p, OwnedDocs(p), NEW k \in Ids, Exists(k)
  PROVE  /\ Known(k)'
         /\ customers[k].key = p => Mine(p, k)'
         /\ Mine(p, k)' => customers[k].key \in {p, Nobody}
         /\ \A d \in Devices : NamedBy(customers[k], d) => Linked(p, d, k)'
BY KnownStays, LinkStays DEF OwnedDocs

LEMMA SameDocs ==
  ASSUME NEW p, Documents(p), Grows, UNCHANGED customers
  PROVE  DocsKept(p)
<1>1. Keeps(p) /\ Leaves(p)
  BY DEF Keeps, Leaves, Here, Exists
<1>2. OwnedDocs(p)'
  BY OwnedStays DEF Documents, OwnedDocs, Exists
<1>3. Unique(p)' /\ NamedKeys(p)'
  BY SafeBefore DEF Documents, Unique, NamedKeys, Here, Exists
<1> QED BY <1>1, <1>2, <1>3 DEF DocsKept, Documents

\* A document is given a name, of a device that leads to it.
LEMMA RenameDocs ==
  ASSUME Typed, NEW p, Documents(p), Grows, NEW i \in Ids, NEW c \in Customer,
         Exists(i), customers' = [customers EXCEPT ![i] = c],
         c.key = customers[i].key, c.inWorkspace = customers[i].inWorkspace,
         customers[i].other_ids \subseteq c.other_ids,
         \A d \in Devices :
           \/ NamedBy(c, d) => NamedBy(customers[i], d)
           \/ /\ Linked(p, d, i)
              /\ Safe(p, d) /\ d # i /\ Here(i) => c.key = p
  PROVE  DocsKept(p)
<1>1. /\ customers'[i] = c /\ c # NoCustomer
      /\ \A k \in Ids : k # i => customers'[k] = customers[k]
  BY IdentityAssumption DEF Typed, TypeOK
<1>2. \A k \in Ids : /\ Exists(k)' = Exists(k) /\ Here(k)' = Here(k)
                     /\ customers'[k].key = customers[k].key
                     /\ customers[k].other_ids \subseteq customers'[k].other_ids
  BY <1>1 DEF Exists, Here
<1>3. Keeps(p)
  BY <1>2 DEF Keeps
<1>4. Leaves(p)
  BY <1>2 DEF Leaves, Ids
<1>5. OwnedDocs(p)'
  <2>1. ASSUME NEW k \in Ids, Exists(k)', NEW d \in Devices, NamedBy(customers'[k], d)
        PROVE  Linked(p, d, k)'
    BY <1>1, <1>2, <2>1, LinkStays DEF Documents, OwnedDocs
  <2>2. ASSUME NEW k \in Ids, Exists(k)'
        PROVE  /\ Known(k)'
               /\ customers'[k].key = p => Mine(p, k)'
               /\ Mine(p, k)' => customers'[k].key \in {p, Nobody}
    BY <1>2, <2>2, OwnedStays DEF Documents
  <2> QED BY <2>1, <2>2 DEF OwnedDocs
<1>6. Unique(p)'
  BY <1>2 DEF Documents, Unique
<1>7. NamedKeys(p)'
  BY <1>1, <1>2, SafeBefore DEF Documents, NamedKeys
<1> QED BY <1>3, <1>4, <1>5, <1>6, <1>7 DEF DocsKept, Documents

\* A document goes away.
LEMMA RemoveDocs ==
  ASSUME Typed, NEW p, Documents(p), Grows, NEW i \in Ids,
         customers' = [customers EXCEPT ![i] = NoCustomer]
  PROVE  /\ Documents(p)'
         /\ ~Exists(i)' /\ ~Here(i)'
         /\ \A k \in Ids : k # i => /\ Exists(k)' = Exists(k) /\ Here(k)' = Here(k)
                                    /\ customers'[k] = customers[k]
<1>1. /\ ~Exists(i)' /\ ~Here(i)'
      /\ \A k \in Ids : k # i => /\ Exists(k)' = Exists(k) /\ Here(k)' = Here(k)
                                 /\ customers'[k] = customers[k]
  BY DEF Typed, TypeOK, Exists, Here
<1>2. OwnedDocs(p)'
  <2>1. ASSUME NEW k \in Ids, Exists(k)'
        PROVE  Exists(k) /\ customers'[k] = customers[k]
    BY <1>1, <2>1
  <2> QED BY <2>1, OwnedStays DEF Documents, OwnedDocs
<1>3. Unique(p)'
  BY <1>1 DEF Documents, Unique
<1>4. NamedKeys(p)'
  BY <1>1, SafeBefore DEF Documents, NamedKeys
<1> QED BY <1>1, <1>2, <1>3, <1>4 DEF Documents

-----------------------------------------------------------------------------
(* Every step keeps documents and handlers.                                *)

\* What a handler about to act on its customer has.
LEMMA HoldsCustomer ==
  ASSUME Typed, NEW p \in People, Handled(p), NEW r \in Requests, request[r].at \in Held
  PROVE  \E d \in Devices, i \in Ids, n \in Input :
           /\ n = request[r].input /\ d = n.device /\ i = request[r].customer
           /\ Linked(p, d, i)
           /\ request[r].at \in Merging => i # d
           /\ i # d /\ Safe(p, d) => Here(i) /\ customers[i].key = p
<1>1. HandlerOK(request[r]) /\ LinkedHandler(p, request[r]) /\ Going(p, request[r])
  BY DEF Typed, HandlersOK, Handled
<1>2. /\ request[r].input \in Input /\ request[r].customer \in Ids
      /\ request[r].input.kind = "identify" \/ request[r].input.token
      /\ request[r].at \in Merging => request[r].customer # request[r].input.device
  BY <1>1 DEF HandlerOK, Held, Merging
<1>3. request[r].input.device \in Devices
  BY <1>2, InputFacts
<1> QED BY <1>1, <1>2, <1>3 DEF LinkedHandler, Going, GoingOther

\* A handler that the step is not of.
LEMMA WaitsOn ==
  ASSUME Typed, NEW p \in People, Handled(p), NamedKeys(p), Keeps(p),
         Leaves(p), Grows, NEW q \in Requests,
         request'[q] = request[q]
  PROVE  LinkedHandler(p, request[q])' /\ Going(p, request[q])'
<1>1. PICK h : h = request[q]
  OBVIOUS
<1>2. HandlerOK(h) /\ LinkedHandler(p, h) /\ Going(p, h)
  BY <1>1 DEF Typed, HandlersOK, Handled
<1>3. LinkedHandler(p, h)' /\ Going(p, h)'
  BY <1>2, GoingStays, LinkedStays
<1>4. request'[q] = h
  BY <1>1
<1> QED BY <1>3, <1>4 DEF LinkedHandler, Going, GoingOther, GoingOwn, Gone

\* A step of handler r: the others stay, and r's new state is to be looked at.
LEMMA HandledFrom ==
  ASSUME Typed, NEW p \in People, Handled(p), NamedKeys(p), Keeps(p),
         Leaves(p), Grows, NEW r \in Requests,
         \A q \in Requests : q # r => request'[q] = request[q],
         LinkedHandler(p, request[r])' /\ Going(p, request[r])'
  PROVE  Handled(p)'
<1>1. ASSUME NEW q \in Requests, q # r
      PROVE  LinkedHandler(p, request[q])' /\ Going(p, request[q])'
  BY <1>1, WaitsOn
<1> QED BY <1>1 DEF Handled

\* What has been sent is not changed, nor is history.
LEMMA GrowsStep ==
  ASSUME Typed, [Next]_vars
  PROVE  Grows
<1>1. SentStays
  <2>1. CASE UNCHANGED vars
    BY <2>1 DEF vars, SentStays
  <2>2. ASSUME NEW r \in Requests, Send(r) PROVE SentStays
    BY <2>2 DEF Send, SentStays, Typed, TypeOK
  <2>3. ASSUME NEW r \in Requests, NEW point \in Points \ {"none"}, Goes(r, point)
        PROVE  SentStays
    <3>1. \A q \in Requests : request[q] \in Handler
      BY DEF Typed, TypeOK
    <3> QED BY <2>3, <3>1 DEF Goes, SentStays, Typed, TypeOK, Handler
  <2>4. ASSUME NEW r \in Requests, NEW i, NEW c, NEW point, point # "none",
               Holds(r, i, c, point)
        PROVE  SentStays
    <3>1. \A q \in Requests : request[q] \in Handler
      BY DEF Typed, TypeOK
    <3> QED BY <2>4, <3>1 DEF Holds, SentStays, Typed, TypeOK, Handler
  <2>5. ASSUME NEW r \in Requests, request[r].at # "none",
               Find(r) \/ Create(r) \/ FindAgain(r) \/ SetToken(r)
        PROVE  SentStays
    <3>1. request[r].input \in Input
      BY <2>5 DEF Typed, HandlersOK, HandlerOK
    <3>2. \A i, c : /\ PointAfterFind(request[r].input, i, c) # "none"
                    /\ PointAfterToken(request[r].input, i) # "none"
      BY <3>1, AfterFind, AfterToken
    <3>3. PointWithout(request[r].input) \in Points \ {"none"}
      BY AfterNone DEF Points
    <3> QED BY <2>3, <2>4, <2>5, <3>2, <3>3
            DEF Find, Create, FindAgain, SetToken, Points
  <2>6. ASSUME NEW r \in Requests, ReadDuplicate(r) PROVE SentStays
    <3>1. \A q \in Requests : request[q] \in Handler
      BY DEF Typed, TypeOK
    <3> QED BY <2>6, <3>1 DEF ReadDuplicate, SentStays, Typed, TypeOK, Handler
  <2>7. ASSUME NEW r \in Requests,
               \/ Alias(r) \/ CopyToken(r) \/ DeleteDuplicate(r) \/ SetKey(r)
               \/ Dies(r) \/ Repeat(r)
        PROVE  SentStays
    BY <2>3, <2>7
    DEF Alias, CopyToken, DeleteDuplicate, SetKey, Dies, Repeat, Points
  <2>8. ASSUME NEW p \in People, Delete(p) PROVE SentStays
    BY <2>8 DEF Delete, SentStays
  <2>9. ASSUME NEW r \in Requests, Find(r) \/ Create(r) \/ FindAgain(r) \/ SetToken(r)
        PROVE  request[r].at # "none"
    BY <2>9 DEF Find, Create, FindAgain, SetToken
  <2> QED BY <2>1, <2>2, <2>5, <2>6, <2>7, <2>8, <2>9 DEF Next, Handle
<1>2. erased \subseteq erased' /\ revived \subseteq revived'
  <2>1. CASE UNCHANGED vars
    BY <2>1 DEF vars
  <2>2. ASSUME NEW r \in Requests, Create(r) PROVE revived \subseteq revived'
    BY <2>2 DEF Create
  <2>3. ASSUME NEW r \in Requests, Create(r) PROVE erased' = erased
    BY <2>3 DEF Create
  <2> QED BY <2>1, <2>2, <2>3
      DEF Next, Handle, HistoryUnchanged, Send, Find, FindAgain, SetToken, Alias,
          ReadDuplicate, CopyToken, DeleteDuplicate, SetKey, Dies, Repeat, Delete
<1> QED BY <1>1, <1>2 DEF Grows

\* Handler r ends or starts over, and identify does not end well.
LEMMA GoesHandled ==
  ASSUME Typed, NEW p \in People, Handled(p), NamedKeys(p), Keeps(p),
         Leaves(p), Grows,
         NEW r \in Requests, NEW point, Goes(r, point), point \notin Held,
         point = "done" => request[r].input.kind # "identify"
  PROVE  Handled(p)'
<1>1. request[r] \in Handler /\ request \in [Requests -> Handler]
  BY DEF Typed, TypeOK
<1>2. PICK h : h = [request[r] EXCEPT !.at = point]
  OBVIOUS
<1>3. h.at = point /\ h.input = request[r].input
  BY <1>1, <1>2 DEF Handler
<1>4. request'[r] = h /\ \A q \in Requests : q # r => request'[q] = request[q]
  BY <1>1, <1>2 DEF Goes
<1>5. LinkedHandler(p, h)' /\ Going(p, h)'
  BY <1>3 DEF LinkedHandler, Going, GoingOther, GoingOwn, Gone, Held, Merging
<1>6. LinkedHandler(p, request[r])' /\ Going(p, request[r])'
  BY <1>4, <1>5 DEF LinkedHandler, Going, GoingOther, GoingOwn, Gone
<1> QED BY <1>4, <1>6, HandledFrom

\* Handler r takes customer i.
LEMMA HoldsHandled ==
  ASSUME Typed, NEW p \in People, Handled(p), NamedKeys(p), Keeps(p),
         Leaves(p), Grows,
         NEW r \in Requests, NEW n \in Input, n = request[r].input,
         NEW i \in Ids, NEW c, NEW point, Holds(r, i, c, point),
         point = PointAfterFind(n, i, c) \/ point = PointAfterToken(n, i),
         n.device \in Devices => Linked(p, n.device, i),
         n.device \in Devices /\ Safe(p, n.device)' =>
           Here(i)' /\ (i # n.device => customers'[i].key = p)
  PROVE  Handled(p)'
<1>1. request[r] \in Handler /\ request \in [Requests -> Handler]
  BY DEF Typed, TypeOK
<1>2. PICK h : h = [request[r] EXCEPT !.at = point, !.customer = i, !.seen = c]
  OBVIOUS
<1>3. h.at = point /\ h.input = n /\ h.customer = i
  BY <1>1, <1>2 DEF Handler
<1>4. request'[r] = h /\ \A q \in Requests : q # r => request'[q] = request[q]
  BY <1>1, <1>2 DEF Holds
<1>5. \/ point = "setToken" /\ n.token
      \/ point = "done" /\ n.kind # "identify"
      \/ point = "alias" /\ n.kind = "identify" /\ i # n.device
      \/ point = "setKey" /\ n.kind = "identify" /\ i = n.device
  BY AfterFind, AfterToken
<1>6. point \in Held => n.device \in Devices
  BY <1>5, InputFacts DEF Held, Merging
<1>7. point \in Held => Linked(p, n.device, i)'
  BY <1>6, LinkStays
<1>8. LinkedHandler(p, h)'
  BY <1>3, <1>5, <1>7 DEF LinkedHandler
<1>9. Going(p, h)'
  BY <1>3, <1>5, <1>6 DEF Going, GoingOther, GoingOwn, Gone, Held, Merging
<1>10. LinkedHandler(p, request[r])' /\ Going(p, request[r])'
  BY <1>4, <1>8, <1>9 DEF LinkedHandler, Going, GoingOther, GoingOwn, Gone
<1> QED BY <1>4, <1>10, HandledFrom

\* Handler r goes on with the merge.
LEMMA MergeHandled ==
  ASSUME Typed, NEW p \in People, Handled(p), NamedKeys(p), Keeps(p),
         Leaves(p), Grows,
         NEW r \in Requests, request[r].at \in Merging,
         NEW g, request' = [request EXCEPT ![r] = g],
         g.input = request[r].input, g.customer = request[r].customer,
         g.at \in Merging \cup {"setKey"},
         g.at = "copyToken" =>
           \A d \in Devices : g.duplicate.token = d => Linked(p, d, g.input.device),
         request[r].at = "alias" /\ Here(g.customer)' =>
           g.input.device \in customers'[g.customer].other_ids,
         g.at = "setKey" => ~Here(g.input.device)'
  PROVE  Handled(p)'
<1>1. PICK h : h = request[r]
  OBVIOUS
<1>2. HandlerOK(h) /\ LinkedHandler(p, h) /\ Going(p, h) /\ h.at \in Merging
  BY <1>1 DEF Typed, HandlersOK, Handled
<1>3. /\ h.input \in Input /\ h.input.device \in Devices /\ h.customer \in Ids
      /\ h.customer # h.input.device /\ h.at \in Held /\ h.at # "setToken"
      /\ h.input.device \in Ids
  BY <1>2, InputFacts DEF HandlerOK, Held, Merging, Ids
<1>4. LinkedHandler(p, h)' /\ Going(p, h)'
  BY <1>2, GoingStays, LinkedStays
<1>5. LinkedHandler(p, g)'
  BY <1>1, <1>3, <1>4, LinkStays DEF LinkedHandler
<1>6. g.at \in Held /\ g.at # "done"
  BY DEF Held, Merging
<1>7. Going(p, g)'
  BY <1>1, <1>3, <1>4, <1>6 DEF Going, GoingOther, GoingOwn, Gone
<1>8. request'[r] = g /\ \A q \in Requests : q # r => request'[q] = request[q]
  BY DEF Typed, TypeOK
<1>9. LinkedHandler(p, request[r])' /\ Going(p, request[r])'
  BY <1>5, <1>7, <1>8 DEF LinkedHandler, Going, GoingOther, GoingOwn, Gone
<1> QED BY <1>8, <1>9, HandledFrom

-----------------------------------------------------------------------------
(* Requests are sent, and look for their customers.                        *)

StepOK(p) == DocsKept(p) /\ Handled(p)'

\* A step of handler r that ends or starts over and writes nothing.
LEMMA QuietStep ==
  ASSUME NEW p \in People, Sole(p), IdentityInv(p), Grows,
         NEW r \in Requests, NEW point, Goes(r, point),
         point \notin Held, point = "done" => request[r].input.kind # "identify",
         UNCHANGED customers
  PROVE  StepOK(p)
<1>1. DocsKept(p)
  BY SameDocs DEF IdentityInv
<1>2. Handled(p)'
  BY <1>1, GoesHandled DEF IdentityInv, DocsKept, Documents
<1> QED BY <1>1, <1>2 DEF StepOK

LEMMA SendStep ==
  ASSUME NEW p \in People, Sole(p), IdentityInv(p), Grows,
         NEW r \in Requests, Send(r)
  PROVE  StepOK(p)
<1>1. DocsKept(p)
  BY SameDocs DEF IdentityInv, Send
<1>2. PICK n \in Input :
        request' = [request EXCEPT ![r] = [@ EXCEPT !.at = "find", !.input = n]]
  BY DEF Send
<1>3. request[r] \in Handler /\ request \in [Requests -> Handler]
  BY DEF IdentityInv, Typed, TypeOK
<1>4. request'[r].at = "find" /\ \A q \in Requests : q # r => request'[q] = request[q]
  BY <1>2, <1>3 DEF Handler
<1>5. LinkedHandler(p, request[r])' /\ Going(p, request[r])'
  BY <1>4 DEF LinkedHandler, Going, GoingOther, GoingOwn, Gone, Held, Merging
<1>6. Handled(p)'
  BY <1>1, <1>4, <1>5, HandledFrom DEF IdentityInv, DocsKept, Documents
<1> QED BY <1>1, <1>6 DEF StepOK

\* Who is found for a device is linked to it.
LEMMA FoundLinked ==
  ASSUME NEW p \in People, Sole(p), IdentityInv(p),
         NEW n \in Input, n.device \in Devices, NEW i \in Found(n)
  PROVE  /\ Linked(p, n.device, i)
         /\ i # n.device /\ Safe(p, n.device) => customers[i].key = p
<1>1. i \in Ids /\ Here(i) /\ Exists(i)
  BY FoundIds DEF IdentityInv, Typed, Here
<1>2. CASE i = n.device
  BY <1>2, LinkedOwn
<1>3. CASE i # n.device /\ NamedBy(customers[i], n.device)
  BY <1>1, <1>3 DEF IdentityInv, Documents, OwnedDocs, NamedKeys
<1>4. CASE n.key # Nobody /\ customers[i].key = n.key
  <2>1. n.key \in Users[n.device]
    BY <1>4, InputFacts, IdentityAssumption
  <2>2. p \in Users[n.device] => n.key = p
    BY <2>1, SoleUser
  <2>3. /\ Known(i) /\ (n.key = p => Mine(p, i))
        /\ Mine(p, i) => n.key \in {p, Nobody}
    BY <1>1, <1>4 DEF IdentityInv, Documents, OwnedDocs
  <2> QED BY <1>4, <2>1, <2>2, <2>3 DEF Linked, Safe
<1>5. \/ i = n.device
      \/ NamedBy(customers[i], n.device)
      \/ n.key # Nobody /\ customers[i].key = n.key
  <2>1. \/ i \in ByKey(n) \/ i \in ByToken(n) \/ i \in ById(n) \/ i \in ByOtherIds(n)
    BY DEF Found
  <2> QED BY <2>1 DEF ByKey, ByToken, ById, ByOtherIds, WithKey, WithToken, NamedBy
<1> QED BY <1>2, <1>3, <1>4, <1>5

LEMMA FindStep ==
  ASSUME NEW p \in People, Sole(p), IdentityInv(p), Grows,
         NEW r \in Requests, Find(r)
  PROVE  StepOK(p)
<1>1. CASE Goes(r, "create")
  BY <1>1, QuietStep DEF Find, Held, Merging
<1>2. ASSUME NEW i \in Found(request[r].input),
             Holds(r, i, customers[i],
                   PointAfterFind(request[r].input, i, customers[i]))
      PROVE  StepOK(p)
  <2>1. DocsKept(p) /\ UNCHANGED customers
    BY SameDocs DEF IdentityInv, Find
  <2>2. PICK n \in Input : n = request[r].input
    BY DEF IdentityInv, Typed, HandlersOK, HandlerOK, Find
  <2>3. i \in Ids /\ Here(i)
    BY <1>2, FoundIds DEF IdentityInv, Typed
  <2>4. n.device \in Devices =>
          /\ Linked(p, n.device, i)
          /\ i # n.device /\ Safe(p, n.device) => customers[i].key = p
    BY <1>2, <2>2, FoundLinked
  <2>5. n.device \in Devices /\ Safe(p, n.device)' =>
          Here(i)' /\ (i # n.device => customers'[i].key = p)
    BY <2>1, <2>3, <2>4, SafeBefore DEF Here, Exists
  <2>6. Handled(p)'
    BY <1>2, <2>1, <2>2, <2>3, <2>4, <2>5, HoldsHandled
    DEF IdentityInv, DocsKept, Documents
  <2> QED BY <2>1, <2>6 DEF StepOK
<1> QED BY <1>1, <1>2 DEF Find

LEMMA FindAgainStep ==
  ASSUME NEW p \in People, Sole(p), IdentityInv(p), Grows,
         NEW r \in Requests, FindAgain(r)
  PROVE  StepOK(p)
<1>1. CASE ~Here(NewId(r))
  <2>1. PICK point : /\ Goes(r, point) /\ point \in {"failed", "done"}
                     /\ point = "done" => request[r].input.kind # "identify"
    BY <1>1, AfterNone DEF FindAgain
  <2> QED BY <2>1, QuietStep DEF FindAgain, Held, Merging
<1>2. CASE Here(NewId(r))
  <2>1. DocsKept(p) /\ UNCHANGED customers
    BY SameDocs DEF IdentityInv, FindAgain
  <2>2. PICK n \in Input, i \in Ids : n = request[r].input /\ i = NewId(r)
    BY NewType DEF IdentityInv, Typed, HandlersOK, HandlerOK, FindAgain
  <2>3. n.device \in Devices => i = n.device
    BY <2>2, InputFacts, IdentityAssumption DEF NewId
  <2>4. Holds(r, i, customers[i], PointAfterFind(n, i, customers[i]))
    BY <1>2, <2>2 DEF FindAgain
  <2>5. Here(i)'
    BY <1>2, <2>1, <2>2 DEF Here, Exists
  <2>6. Handled(p)'
    BY <2>1, <2>2, <2>3, <2>4, <2>5, LinkedOwn, HoldsHandled
    DEF IdentityInv, DocsKept, Documents
  <2> QED BY <2>1, <2>6 DEF StepOK
<1> QED BY <1>1, <1>2

\* A new customer has its owner's key, and no names.
LEMMA CreateStep ==
  ASSUME NEW p \in People, Sole(p), IdentityInv(p), Grows,
         NEW r \in Requests, Create(r)
  PROVE  StepOK(p)
<1>1. CASE ~(~Exists(NewId(r)) /\ Allowed(NewId(r), NewCustomer(r)))
  <2>1. Goes(r, "findAgain") /\ UNCHANGED customers
    BY <1>1 DEF Create
  <2> QED BY <2>1, QuietStep DEF Held, Merging
<1>2. CASE ~Exists(NewId(r)) /\ Allowed(NewId(r), NewCustomer(r))
  <2>1. PICK n \in Input : n = request[r].input /\ request[r].at # "none"
    BY DEF IdentityInv, Typed, HandlersOK, HandlerOK, Create
  <2>2. PICK i \in Ids, c \in Customer : i = NewId(r) /\ c = NewCustomer(r)
    BY <2>1, NewType DEF IdentityInv
  <2>3. /\ customers' = [customers EXCEPT ![i] = c]
        /\ Holds(r, i, c, PointAfterFind(n, i, c))
        /\ ByOtherIds(n) # {} => i \in revived'
    BY <1>2, <2>1, <2>2 DEF Create
  <2>4. c.key = n.key /\ c.other_ids = {} /\ c.token = NoDevice /\ c.inWorkspace = TRUE
    BY <2>1, <2>2 DEF NewCustomer
  <2>5. ~Exists(i) /\ ~Here(i) /\ Allowed(i, c)
    BY <1>2, <2>2 DEF Here
  <2>6. n.device \in Devices => i = n.device
    BY <2>1, <2>2, InputFacts, IdentityAssumption DEF NewId
  <2>7. i \in Devices => i = n.device
    BY <2>1, <2>2, IdentityAssumption DEF NewId
  <2>8. /\ customers'[i] = c /\ c # NoCustomer /\ Here(i)' /\ Exists(i)'
        /\ \A k \in Ids : k # i => /\ customers'[k] = customers[k]
                                   /\ Here(k)' = Here(k) /\ Exists(k)' = Exists(k)
    BY <2>2, <2>3, <2>4, IdentityAssumption DEF IdentityInv, Typed, TypeOK, Here, Exists
  <2>9. \A d \in Devices : ~NamedBy(c, d)
    BY <2>4, IdentityAssumption DEF NamedBy
  <2>10. Keeps(p)
    BY <2>5, <2>8 DEF Keeps
  <2>11. Leaves(p)
    <3>1. ASSUME NEW d \in Devices, ~Here(d), Here(d)', Merged(d)
          PROVE  d \in revived'
      <4>1. d = i /\ d = n.device
        BY <2>7, <2>8, <3>1 DEF Ids
      <4>2. ByOtherIds(n) # {}
        BY <3>1, <4>1 DEF Merged, ByOtherIds
      <4> QED BY <2>3, <4>1, <4>2
    <3>2. \A d \in Devices : Here(d) => Here(d)'
      BY <2>5, <2>8 DEF Ids
    <3> QED BY <3>1, <3>2 DEF Leaves
  <2>12. OwnedDocs(p)'
    <3>1. Known(i) /\ (Mine(p, i) => c.key \in {p, Nobody}) /\ (c.key = p => Mine(p, i))
      <4>1. CASE n.kind = "upsert"
        <5>1. i = r /\ i \notin Devices
          BY <2>1, <2>2, <4>1, IdentityAssumption DEF NewId
        <5> QED BY <2>1, <2>4, <4>1, <5>1 DEF Mine, Known
      <4>2. CASE n.kind = "identify"
        <5>1. n.device \in Devices /\ i = n.device /\ n.key \in Users[i]
          BY <2>6, <4>2, InputFacts
        <5> QED BY <2>4, <5>1, SoleUser DEF Mine, Known
      <4>3. CASE n.kind = "event"
        BY <2>4, <2>6, <4>3, InputFacts, IdentityAssumption DEF Known
      <4> QED BY <4>1, <4>2, <4>3, InputFacts
    <3>2. ASSUME NEW k \in Ids, Exists(k)'
          PROVE  /\ Known(k)'
                 /\ customers'[k].key = p => Mine(p, k)'
                 /\ Mine(p, k)' => customers'[k].key \in {p, Nobody}
                 /\ \A d \in Devices : NamedBy(customers'[k], d) => Linked(p, d, k)'
      <4>1. CASE k = i
        BY <2>8, <2>9, <3>1, <4>1, KnownStays
      <4>2. CASE k # i
        BY <2>8, <3>2, <4>2, OwnedStays DEF IdentityInv, Documents
      <4> QED BY <4>1, <4>2
    <3> QED BY <3>2 DEF OwnedDocs
  <2>13. Unique(p)'
    <3>1. ASSUME NEW k \in Ids, k # i, Here(k), c.key = p
          PROVE  customers[k].key # p
      <4>1. Exists(k) /\ customers[k].inWorkspace = TRUE
        BY <3>1 DEF IdentityInv, Typed, TypeOK, Here, Exists, Customer
      <4> QED BY <2>4, <2>5, <3>1, <4>1, IdentityAssumption DEF Allowed
    <3> QED BY <2>8, <3>1 DEF IdentityInv, Documents, Unique
  <2>14. NamedKeys(p)'
    BY <2>8, <2>9, SafeBefore DEF IdentityInv, Documents, NamedKeys
  <2>15. n.device \in Devices => Linked(p, n.device, i)
    BY <2>6, LinkedOwn
  <2>16. Handled(p)'
    BY <2>1, <2>3, <2>6, <2>8, <2>10, <2>11, <2>15, HoldsHandled
    DEF IdentityInv, Documents
  <2> QED BY <2>10, <2>11, <2>12, <2>13, <2>14, <2>16 DEF StepOK, DocsKept, Documents
<1> QED BY <1>1, <1>2

-----------------------------------------------------------------------------
(* Names are written.                                                      *)

LEMMA SetTokenStep ==
  ASSUME NEW p \in People, Sole(p), IdentityInv(p), Grows,
         NEW r \in Requests, SetToken(r)
  PROVE  StepOK(p)
<1>1. PICK d \in Devices, i \in Ids, n \in Input :
        /\ n = request[r].input /\ d = n.device /\ i = request[r].customer
        /\ Linked(p, d, i)
        /\ i # d /\ Safe(p, d) => Here(i) /\ customers[i].key = p
  <2>1. request[r].at \in Held
    BY DEF SetToken, Held
  <2> QED BY <2>1, HoldsCustomer DEF IdentityInv
<1> DEFINE c == [customers[i] EXCEPT !.token = n.device, !.setAt = clock + 1]
<1>2. CASE ~Here(i) \/ ~Allowed(i, c)
  <2>1. PICK point : /\ Goes(r, point) /\ point \in {"failed", "done"}
                     /\ point = "done" => request[r].input.kind # "identify"
    BY <1>1, <1>2, AfterNone DEF SetToken
  <2>2. UNCHANGED customers
    BY <1>1, <1>2 DEF SetToken
  <2> QED BY <2>1, <2>2, QuietStep DEF Held, Merging
<1>3. CASE Here(i) /\ Allowed(i, c)
  <2>1. customers[i] \in Customer /\ clock \in Nat
    BY <1>3 DEF IdentityInv, Typed, TypeOK, Here, Exists
  <2>2. c \in Customer
    <3>1. clock + 1 \in Nat
      BY <2>1
    <3> QED BY <1>1, <2>1, <3>1 DEF Customer
  <2>3. /\ c.key = customers[i].key /\ c.inWorkspace = customers[i].inWorkspace
        /\ c.other_ids = customers[i].other_ids /\ c.token = d
    BY <1>1, <2>1 DEF Customer
  <2>4. /\ customers' = [customers EXCEPT ![i] = c]
        /\ Holds(r, i, c, PointAfterToken(n, i))
    BY <1>1, <1>3 DEF SetToken
  <2> HIDE DEF c
  <2>5. \A e \in Devices : NamedBy(c, e) => NamedBy(customers[i], e) \/ e = d
    BY <2>3 DEF NamedBy
  <2>6. DocsKept(p)
    <3>1. Exists(i)
      BY <1>3 DEF Here
    <3> QED BY <1>1, <2>2, <2>3, <2>4, <2>5, <3>1, RenameDocs DEF IdentityInv
  <2>7. Here(i)' /\ customers'[i] = c
    BY <1>3, <2>2, <2>3, <2>4, IdentityAssumption
    DEF IdentityInv, Typed, TypeOK, Here, Exists
  <2>8. Safe(p, d)' /\ i # d => customers'[i].key = p
    BY <1>1, <2>3, <2>7, SafeBefore
  <2>9. Handled(p)'
    BY <1>1, <2>4, <2>6, <2>7, <2>8, HoldsHandled DEF IdentityInv, DocsKept, Documents
  <2> QED BY <2>6, <2>9 DEF StepOK
<1> QED BY <1>2, <1>3

LEMMA AliasStep ==
  ASSUME NEW p \in People, Sole(p), IdentityInv(p), Grows,
         NEW r \in Requests, Alias(r)
  PROVE  StepOK(p)
<1>1. request[r].at \in Merging
  BY DEF Alias, Merging
<1>2. PICK d \in Devices, i \in Ids, n \in Input :
        /\ n = request[r].input /\ d = n.device /\ i = request[r].customer
        /\ Linked(p, d, i) /\ i # d
        /\ Safe(p, d) => Here(i) /\ customers[i].key = p
  BY <1>1, HoldsCustomer DEF IdentityInv, Held
<1> DEFINE c == [customers[i] EXCEPT !.other_ids = customers[i].other_ids \cup {d}]
<1>3. DocsKept(p) /\ (Here(i)' => d \in customers'[i].other_ids)
  <2>1. CASE Exists(i)
    <3>1. customers[i] \in Customer
      BY <2>1 DEF IdentityInv, Typed, TypeOK, Exists
    <3>2. /\ c \in Customer /\ c.key = customers[i].key
          /\ c.inWorkspace = customers[i].inWorkspace /\ c.token = customers[i].token
          /\ c.other_ids = customers[i].other_ids \cup {d}
      BY <3>1 DEF Customer
    <3>3. customers' = [customers EXCEPT ![i] = c]
      BY <1>2, <2>1, <3>1 DEF Alias, Customer, IdentityInv, Typed, TypeOK
    <3> HIDE DEF c
    <3>4. \A e \in Devices : NamedBy(c, e) => NamedBy(customers[i], e) \/ e = d
      BY <3>2 DEF NamedBy
    <3>5. DocsKept(p)
      BY <1>2, <2>1, <3>2, <3>3, <3>4, RenameDocs DEF IdentityInv
    <3>6. customers'[i] = c
      BY <3>3 DEF IdentityInv, Typed, TypeOK
    <3> QED BY <3>2, <3>5, <3>6
  <2>2. CASE ~Exists(i)
    <3>1. UNCHANGED customers
      BY <1>2, <2>2 DEF Alias
    <3> QED BY <2>2, <3>1, SameDocs DEF IdentityInv, Here, Exists
  <2> QED BY <2>1, <2>2
<1>4. request[r] \in Handler /\ request \in [Requests -> Handler]
  BY DEF IdentityInv, Typed, TypeOK
<1>5. PICK g : g = [request[r] EXCEPT !.at = "readDuplicate"]
  OBVIOUS
<1>6. g.at = "readDuplicate" /\ g.input = request[r].input
      /\ g.customer = request[r].customer
  BY <1>4, <1>5 DEF Handler
<1>7. request' = [request EXCEPT ![r] = g]
  BY <1>4, <1>5 DEF Alias, Goes, Handler
<1>8. Handled(p)'
  BY <1>1, <1>2, <1>3, <1>6, <1>7, MergeHandled
  DEF IdentityInv, DocsKept, Documents, Merging
<1> QED BY <1>3, <1>8 DEF StepOK

LEMMA ReadDuplicateStep ==
  ASSUME NEW p \in People, Sole(p), IdentityInv(p), Grows,
         NEW r \in Requests, ReadDuplicate(r)
  PROVE  StepOK(p)
<1>1. request[r].at \in Merging /\ request[r].at # "alias"
  BY DEF ReadDuplicate, Merging
<1>2. PICK d \in Devices : d = request[r].input.device
  BY <1>1, HoldsCustomer DEF IdentityInv, Held
<1>3. DocsKept(p)
  BY SameDocs DEF IdentityInv, ReadDuplicate
<1>4. request[r] \in Handler /\ request \in [Requests -> Handler]
  BY DEF IdentityInv, Typed, TypeOK
<1>5. PICK point \in {"copyToken", "deleteDuplicate"} :
        /\ request' = [request EXCEPT
             ![r] = [@ EXCEPT !.duplicate = customers[d], !.at = point]]
        /\ point = "copyToken" => Exists(d)
  BY <1>2 DEF ReadDuplicate, TokenToCopy, Exists
<1>6. PICK g : g = [request[r] EXCEPT !.duplicate = customers[d], !.at = point]
  OBVIOUS
<1>7. g.at = point /\ g.input = request[r].input /\ g.duplicate = customers[d]
      /\ g.customer = request[r].customer
  BY <1>4, <1>6 DEF Handler
<1>8. request' = [request EXCEPT ![r] = g]
  BY <1>4, <1>5, <1>6
<1>9. g.at = "copyToken" =>
        \A e \in Devices : g.duplicate.token = e => Linked(p, e, g.input.device)
  BY <1>2, <1>5, <1>7 DEF IdentityInv, Documents, OwnedDocs, NamedBy, Ids
<1>10. Handled(p)'
  BY <1>1, <1>3, <1>5, <1>7, <1>8, <1>9, MergeHandled
  DEF IdentityInv, DocsKept, Documents, Merging
<1> QED BY <1>3, <1>10 DEF StepOK

LEMMA CopyTokenStep ==
  ASSUME NEW p \in People, Sole(p), IdentityInv(p), Grows,
         NEW r \in Requests, CopyToken(r)
  PROVE  StepOK(p)
<1>1. request[r].at \in Merging /\ request[r].at # "alias"
  BY DEF CopyToken, Merging
<1>2. PICK d \in Devices, i \in Ids, n \in Input :
        /\ n = request[r].input /\ d = n.device /\ i = request[r].customer
        /\ Linked(p, d, i) /\ i # d
        /\ Safe(p, d) => Here(i) /\ customers[i].key = p
  BY <1>1, HoldsCustomer DEF IdentityInv, Held
<1>3. request[r].duplicate \in Customer
  BY DEF CopyToken, IdentityInv, Typed, HandlersOK, HandlerOK
<1>4. \A e \in Devices : request[r].duplicate.token = e => Linked(p, e, d)
  BY <1>2 DEF CopyToken, IdentityInv, Handled, LinkedHandler
<1> DEFINE c == [customers[i] EXCEPT !.token = request[r].duplicate.token,
                                     !.setAt = request[r].duplicate.setAt]
<1>5. CASE Exists(i) /\ ~Allowed(i, c)
  <2>1. Goes(r, "failed") /\ UNCHANGED customers
    BY <1>2, <1>5 DEF CopyToken
  <2> QED BY <2>1, QuietStep DEF Held, Merging
<1>6. CASE ~(Exists(i) /\ ~Allowed(i, c))
  <2>1. DocsKept(p)
    <3>1. CASE Exists(i)
      <4>1. customers[i] \in Customer
        BY <3>1 DEF IdentityInv, Typed, TypeOK, Exists
      <4>2. /\ c \in Customer /\ c.key = customers[i].key
            /\ c.inWorkspace = customers[i].inWorkspace
            /\ c.other_ids = customers[i].other_ids
            /\ c.token = request[r].duplicate.token
        BY <1>3, <4>1 DEF Customer
      <4>3. customers' = [customers EXCEPT ![i] = c]
        BY <1>2, <1>6, <3>1 DEF CopyToken
      <4> HIDE DEF c
      <4>4. ASSUME NEW e \in Devices, NamedBy(c, e), ~NamedBy(customers[i], e)
            PROVE  /\ Linked(p, e, i)
                   /\ Safe(p, e) /\ e # i /\ Here(i) => c.key = p
        <5>1. request[r].duplicate.token = e
          BY <4>2, <4>4 DEF NamedBy
        <5>2. Linked(p, e, d) /\ Linked(p, e, i)
          BY <1>2, <1>4, <5>1, LinkedOn
        <5>3. Safe(p, e) => Safe(p, d)
          BY <5>2 DEF Linked, Mine, Safe
        <5> QED BY <1>2, <4>2, <5>2, <5>3
      <4> QED BY <3>1, <4>2, <4>3, <4>4, RenameDocs DEF IdentityInv
    <3>2. CASE ~Exists(i)
      BY <1>2, <3>2, SameDocs DEF CopyToken, IdentityInv
    <3> QED BY <3>1, <3>2
  <2>2. request[r] \in Handler /\ request \in [Requests -> Handler]
    BY DEF IdentityInv, Typed, TypeOK
  <2>3. PICK g : g = [request[r] EXCEPT !.at = "deleteDuplicate"]
    OBVIOUS
  <2>4. g.at = "deleteDuplicate" /\ g.input = request[r].input
        /\ g.customer = request[r].customer
    BY <2>2, <2>3 DEF Handler
  <2>5. Goes(r, "deleteDuplicate")
    BY <1>2, <1>6 DEF CopyToken
  <2>6. request' = [request EXCEPT ![r] = g]
    BY <2>2, <2>3, <2>5 DEF Goes, Handler
  <2>7. Handled(p)'
    BY <1>1, <2>1, <2>4, <2>6, MergeHandled
    DEF IdentityInv, DocsKept, Documents, Merging
  <2> QED BY <2>1, <2>7 DEF StepOK
<1> QED BY <1>5, <1>6

-----------------------------------------------------------------------------
(* Customers are merged, identified and deleted.                           *)

\* The device's own customer goes, for the one it was merged into.
LEMMA DeleteDuplicateStep ==
  ASSUME NEW p \in People, Sole(p), IdentityInv(p), Grows,
         NEW r \in Requests, DeleteDuplicate(r)
  PROVE  StepOK(p)
<1>1. /\ request[r].at \in Merging /\ request[r].at # "alias"
      /\ request[r].at = "deleteDuplicate"
  BY DEF DeleteDuplicate, Merging
<1>2. PICK d \in Devices, i \in Ids, n \in Input :
        /\ n = request[r].input /\ d = n.device /\ i = request[r].customer
        /\ Linked(p, d, i) /\ i # d
        /\ Safe(p, d) => Here(i) /\ customers[i].key = p
  BY <1>1, HoldsCustomer DEF IdentityInv, Held
<1>3. Safe(p, d) => d \in customers[i].other_ids
  BY <1>1, <1>2 DEF IdentityInv, Handled, Going, GoingOther, Held
<1>4. customers' = [customers EXCEPT ![d] = NoCustomer] /\ d \in Ids
  BY <1>2 DEF DeleteDuplicate, Ids
<1>5. /\ Documents(p)'
      /\ ~Exists(d)' /\ ~Here(d)'
      /\ \A k \in Ids : k # d => /\ Exists(k)' = Exists(k) /\ Here(k)' = Here(k)
                                 /\ customers'[k] = customers[k]
  BY <1>4, RemoveDocs DEF IdentityInv
<1>6. erased' = erased
  BY DEF DeleteDuplicate, HistoryUnchanged
<1>7. Keeps(p)
  <2>1. ASSUME p \notin erased', Here(d), customers[d].key = p
        PROVE  FALSE
    <3>1. Safe(p, d)
      BY <1>4, <1>6, <2>1 DEF IdentityInv, Documents, OwnedDocs, Here, Mine, Safe
    <3> QED BY <1>2, <1>4, <2>1, <3>1 DEF IdentityInv, Documents, Unique
  <2> QED BY <1>5, <2>1 DEF Keeps
<1>8. Leaves(p)
  <2>1. ASSUME NEW e \in Devices, Safe(p, e)', Here(e), ~Here(e)'
        PROVE  Merged(e)'
    <3>1. e = d
      BY <1>5, <2>1 DEF Ids
    <3>2. Safe(p, d)
      BY <2>1, <3>1, SafeBefore
    <3> QED BY <1>2, <1>3, <1>5, <3>1, <3>2 DEF Merged
  <2>2. \A e \in Devices : ~Here(e) => ~Here(e)'
    BY <1>5 DEF Ids
  <2> QED BY <2>1, <2>2 DEF Leaves
<1>9. request[r] \in Handler /\ request \in [Requests -> Handler]
  BY DEF IdentityInv, Typed, TypeOK
<1>10. PICK g : g = [request[r] EXCEPT !.at = "setKey"]
  OBVIOUS
<1>11. g.at = "setKey" /\ g.input = request[r].input
       /\ g.customer = request[r].customer
  BY <1>9, <1>10 DEF Handler
<1>12. request' = [request EXCEPT ![r] = g]
  BY <1>9, <1>10 DEF DeleteDuplicate, Goes, Handler
<1>13. Handled(p)'
  BY <1>1, <1>2, <1>5, <1>7, <1>8, <1>11, <1>12, MergeHandled
  DEF IdentityInv, Documents
<1> QED BY <1>5, <1>7, <1>8, <1>13 DEF StepOK, DocsKept

\* The customer gets the key of whom the request is about: p's gets p's.
LEMMA SetKeyStep ==
  ASSUME NEW p \in People, Sole(p), IdentityInv(p), Grows,
         NEW r \in Requests, SetKey(r)
  PROVE  StepOK(p)
<1>1. request[r].at = "setKey" /\ request[r].at \in Held
  BY DEF SetKey, Held
<1>2. PICK d \in Devices, i \in Ids, n \in Input :
        /\ n = request[r].input /\ d = n.device /\ i = request[r].customer
        /\ Linked(p, d, i)
        /\ i # d /\ Safe(p, d) => Here(i) /\ customers[i].key = p
  BY <1>1, HoldsCustomer DEF IdentityInv
<1>3. PICK q \in Users[d] : q = n.key /\ q \in People /\ q # Nobody
                            /\ n.kind = "identify"
  <2>1. n.kind = "identify"
    BY <1>2, SetKeyFacts DEF IdentityInv
  <2>2. n.key \in People /\ n.key \in Users[d]
    BY <1>2, <2>1, InputFacts
  <2> QED BY <2>1, <2>2, IdentityAssumption
<1>4. Known(i) /\ (Mine(p, i) <=> q = p) /\ (p \in Users[d] <=> q = p)
  <2>1. p \in Users[d] <=> q = p
    BY SoleUser
  <2> QED BY <1>2, <2>1 DEF Linked
<1>5. PICK c \in Customer : c = WithTheKey(i, q)
  BY <1>2, <1>3, SetKeyFacts DEF IdentityInv
<1>6. CASE Goes(r, "failed") /\ UNCHANGED customers
  BY <1>6, QuietStep DEF Held, Merging
<1>7. CASE /\ Goes(r, "done") /\ Allowed(i, c)
           /\ customers' = [customers EXCEPT ![i] = c]
  <2>1. /\ Exists(i) => /\ customers[i] \in Customer
                        /\ c.other_ids = customers[i].other_ids
                        /\ c.token = customers[i].token
                        /\ c.inWorkspace = customers[i].inWorkspace
        /\ ~Exists(i) => /\ c.other_ids = {} /\ c.token = NoDevice
                         /\ c.inWorkspace = FALSE
        /\ c.key = q
    <3>1. Exists(i) => customers[i] \in Customer
      BY DEF IdentityInv, Typed, TypeOK, Exists
    <3> QED BY <1>5, <3>1 DEF WithTheKey, Customer
  <2>2. /\ customers'[i] = c /\ c # NoCustomer
        /\ \A k \in Ids : k # i => customers'[k] = customers[k]
    BY <1>7, IdentityAssumption DEF IdentityInv, Typed, TypeOK
  <2>3. \A k \in Ids : Here(k)' = Here(k)
    BY <2>1, <2>2 DEF Here, Exists
  <2>4. \A e \in Devices : NamedBy(c, e) => Exists(i) /\ NamedBy(customers[i], e)
    BY <2>1, IdentityAssumption DEF NamedBy
  <2>5. /\ Exists(i) /\ q = p => customers[i].key \in {p, Nobody}
        /\ Exists(i) /\ customers[i].key = p => q = p
    BY <1>4 DEF IdentityInv, Documents, OwnedDocs
  <2>6. Keeps(p)
    <3>1. Here(i) /\ customers[i].key = p
            => c.key = p /\ c.other_ids = customers[i].other_ids
      BY <2>1, <2>5 DEF Here
    <3> QED BY <2>2, <2>3, <3>1 DEF Keeps
  <2>7. Leaves(p)
    BY <2>3 DEF Leaves, Ids
  <2>8. OwnedDocs(p)'
    <3>1. ASSUME NEW k \in Ids, Exists(k)'
          PROVE  /\ Known(k)'
                 /\ customers'[k].key = p => Mine(p, k)'
                 /\ Mine(p, k)' => customers'[k].key \in {p, Nobody}
                 /\ \A e \in Devices : NamedBy(customers'[k], e) => Linked(p, e, k)'
      <4>1. CASE k = i
        <5>1. Known(k)' /\ (Mine(p, k)' <=> q = p)
          BY <1>4, <4>1, KnownStays
        <5>2. \A e \in Devices : NamedBy(c, e) => Linked(p, e, i)'
          BY <2>4, OwnedStays DEF IdentityInv, Documents
        <5> QED BY <2>1, <2>2, <4>1, <5>1, <5>2
      <4>2. CASE k # i
        <5>1. Exists(k) /\ customers'[k] = customers[k]
          BY <2>2, <3>1, <4>2 DEF Exists
        <5> QED BY <5>1, OwnedStays DEF IdentityInv, Documents
      <4> QED BY <4>1, <4>2
    <3> QED BY <3>1 DEF OwnedDocs
  <2>9. Unique(p)'
    <3>1. ASSUME NEW k \in Ids, k # i, q = p, Here(i), Here(k)
          PROVE  customers[k].key # p
      <4>1. /\ Exists(k) /\ customers[k].inWorkspace = TRUE
            /\ Exists(i) /\ customers[i].inWorkspace = TRUE
        BY <3>1 DEF IdentityInv, Typed, TypeOK, Here, Exists, Customer
      <4> QED BY <1>3, <1>7, <2>1, <3>1, <4>1 DEF Allowed
    <3> QED BY <2>1, <2>2, <2>3, <3>1 DEF IdentityInv, Documents, Unique
  <2>10. NamedKeys(p)'
    <3>1. ASSUME NEW k \in Ids, NEW e \in Devices, k # e, Safe(p, e), Here(k),
                 NamedBy(customers'[k], e)
          PROVE  customers'[k].key = p
      <4>1. CASE k = i
        <5>1. NamedBy(customers[i], e)
          BY <2>2, <2>4, <3>1, <4>1
        <5>2. customers[i].key = p
          BY <3>1, <4>1, <5>1 DEF IdentityInv, Documents, NamedKeys
        <5>3. Exists(i)
          BY <3>1, <4>1 DEF Here
        <5> QED BY <2>1, <2>2, <2>5, <4>1, <5>2, <5>3
      <4>2. CASE k # i
        BY <2>2, <3>1, <4>2 DEF IdentityInv, Documents, NamedKeys
      <4> QED BY <4>1, <4>2
    <3> QED BY <2>3, <3>1, SafeBefore DEF NamedKeys
  <2>11. request[r] \in Handler /\ request \in [Requests -> Handler]
    BY DEF IdentityInv, Typed, TypeOK
  <2>12. PICK g : g = [request[r] EXCEPT !.at = "done"]
    OBVIOUS
  <2>13. g.at = "done" /\ g.input = n
    BY <1>2, <2>11, <2>12 DEF Handler
  <2>14. request'[r] = g /\ \A o \in Requests : o # r => request'[o] = request[o]
    BY <1>7, <2>11, <2>12 DEF Goes
  <2>15. LinkedHandler(p, g)'
    BY <2>13 DEF LinkedHandler, Held, Merging
  <2>16. ASSUME Safe(p, d)'
         PROVE  \/ Here(d)' /\ customers'[d].key = p
                \/ ~Here(d)' /\ Merged(d)'
                \/ d \in revived'
    <3>1. Safe(p, d) /\ q = p
      BY <1>4, <2>16, SafeBefore DEF Safe
    <3>2. Going(p, request[r])
      BY DEF IdentityInv, Handled
    <3>3. CASE i = d
      <4>1. Here(d) \/ Merged(d)
        BY <1>1, <1>2, <3>1, <3>2, <3>3 DEF Going, GoingOwn
      <4>2. Merged(d) => Merged(d)'
        BY <2>6, <2>16, MergedStays DEF IdentityInv, Documents
      <4> QED BY <2>1, <2>2, <2>3, <3>1, <3>3, <4>1, <4>2
    <3>4. CASE i # d
      <4>1. /\ ~Here(d) \/ d \in revived
            /\ Here(i) /\ d \in customers[i].other_ids
        BY <1>1, <1>2, <3>1, <3>2, <3>4 DEF Going, GoingOther, Held
      <4>2. Merged(d)'
        BY <2>6, <2>16, <3>4, <4>1, MergedStays DEF IdentityInv, Documents, Merged
      <4> QED BY <2>3, <4>1, <4>2 DEF Ids, Grows
    <3> QED BY <3>3, <3>4
  <2>17. Going(p, g)'
    BY <1>2, <1>3, <2>13, <2>16 DEF Going, GoingOther, GoingOwn, Gone, Held, Merging
  <2>18. LinkedHandler(p, request[r])' /\ Going(p, request[r])'
    BY <2>14, <2>15, <2>17 DEF LinkedHandler, Going, GoingOther, GoingOwn, Gone
  <2>19. Handled(p)'
    BY <2>6, <2>7, <2>14, <2>18, HandledFrom DEF IdentityInv, Documents
  <2> QED BY <2>6, <2>7, <2>8, <2>9, <2>10, <2>19 DEF StepOK, DocsKept, Documents
<1> QED BY <1>2, <1>3, <1>5, <1>6, <1>7, SetKeyFacts DEF IdentityInv

LEMMA DeleteStep ==
  ASSUME NEW p \in People, Sole(p), IdentityInv(p), Grows,
         NEW q \in People, Delete(q)
  PROVE  StepOK(p)
<1>1. PICK i \in Ids :
        /\ Here(i) /\ customers[i].key = q
        /\ customers' = [customers EXCEPT ![i] = NoCustomer]
  BY DEF Delete, WithKey
<1>2. q \in erased' /\ request' = request
  BY DEF Delete
<1>3. /\ Documents(p)'
      /\ ~Exists(i)' /\ ~Here(i)'
      /\ \A k \in Ids : k # i => /\ Exists(k)' = Exists(k) /\ Here(k)' = Here(k)
                                 /\ customers'[k] = customers[k]
  BY <1>1, RemoveDocs DEF IdentityInv
<1>4. Keeps(p)
  BY <1>1, <1>2, <1>3 DEF Keeps
<1>5. Leaves(p)
  <2>1. ASSUME i \in Devices PROVE ~Safe(p, i)'
    <3>1. p \in Users[i] => q = p
      BY <1>1, <2>1, IdentityAssumption
      DEF IdentityInv, Documents, OwnedDocs, Here, Mine
    <3> QED BY <1>2, <3>1 DEF Safe
  <2> QED BY <1>3, <2>1 DEF Leaves, Ids
<1>6. ASSUME NEW r \in Requests
      PROVE  LinkedHandler(p, request[r])' /\ Going(p, request[r])'
  BY <1>2, <1>3, <1>4, <1>5, WaitsOn DEF IdentityInv, Documents
<1>7. Handled(p)'
  BY <1>6 DEF Handled
<1> QED BY <1>3, <1>4, <1>5, <1>7 DEF StepOK, DocsKept

-----------------------------------------------------------------------------
(* The results.                                                            *)

LEMMA IdentityInit ==
  ASSUME Init, NEW p \in People PROVE IdentityInv(p)
<1>1. Typed
  BY TypedInit
<1>2. \A i \in Ids : ~Exists(i) /\ ~Here(i)
  BY DEF Init, Exists, Here
<1>3. Documents(p)
  BY <1>2 DEF Documents, OwnedDocs, Unique, NamedKeys
<1>4. Handled(p)
  BY DEF Init, Handled, LinkedHandler, Going, GoingOther, GoingOwn, Gone, Held, Merging
<1> QED BY <1>1, <1>3, <1>4 DEF IdentityInv

LEMMA IdentityStep ==
  ASSUME NEW p \in People, Sole(p), IdentityInv(p), [Next]_vars
  PROVE  IdentityInv(p)' /\ Keeps(p)
<1>1. Grows /\ Typed'
  BY GrowsStep, TypedStep DEF IdentityInv
<1>2. StepOK(p)
  <2>1. CASE UNCHANGED vars
    <3>1. DocsKept(p)
      BY <1>1, <2>1, SameDocs DEF IdentityInv, vars
    <3>2. ASSUME NEW q \in Requests
          PROVE  LinkedHandler(p, request[q])' /\ Going(p, request[q])'
      BY <1>1, <2>1, <3>1, WaitsOn DEF IdentityInv, DocsKept, Documents, vars
    <3> QED BY <3>1, <3>2 DEF StepOK, Handled
  <2>2. ASSUME NEW r \in Requests, Dies(r) \/ Repeat(r) PROVE StepOK(p)
    <3>1. PICK point \in {"find", "failed"} : Goes(r, point) /\ UNCHANGED customers
      BY <2>2 DEF Dies, Repeat
    <3> QED BY <1>1, <3>1, QuietStep DEF Held, Merging
  <2> QED BY <1>1, <2>1, <2>2, SendStep, FindStep, CreateStep, FindAgainStep,
             SetTokenStep, AliasStep, ReadDuplicateStep, CopyTokenStep,
             DeleteDuplicateStep, SetKeyStep, DeleteStep
      DEF Next, Handle
<1> QED BY <1>1, <1>2 DEF StepOK, DocsKept, IdentityInv

\* For everybody who shares no device.
EveryIdentity == \A p \in People : Sole(p) => IdentityInv(p)

LEMMA IdentityInvariant == Spec => [](Typed /\ EveryIdentity)
<1>1. Init => Typed /\ EveryIdentity
  BY TypedInit, IdentityInit DEF EveryIdentity
<1>2. EveryIdentity /\ [Next]_vars => EveryIdentity'
  BY IdentityStep DEF EveryIdentity, Sole
<1> QED BY <1>1, <1>2, TypedStep, PTL DEF Spec

(***************************************************************************)
(* The customer of a person who shares no device is never lost while       *)
(* requests find, create, merge and identify customers, whatever fails and *)
(* whatever people do on the devices they share.                           *)
(***************************************************************************)
THEOREM PersonStays == Spec => PersonKept
<1>1. ASSUME EveryIdentity, [Next]_vars,
             NEW p \in People, Sole(p), WithKey(p) # {}, p \notin erased'
      PROVE  (WithKey(p) # {})'
  <2>1. Keeps(p)
    BY <1>1, IdentityStep DEF EveryIdentity
  <2> QED BY <1>1, <2>1 DEF Keeps, WithKey
<1>2. EveryIdentity /\ [Next]_vars
        => [\A p \in People :
              Sole(p) /\ WithKey(p) # {} /\ p \notin erased'
                => (WithKey(p) # {})']_vars
  BY <1>1
<1> QED BY <1>2, IdentityInvariant, PTL DEF Spec, PersonKept

(***************************************************************************)
(* And what a device sends after such a person was identified on it is     *)
(* about that person's customer, unless the device was revived.            *)
(***************************************************************************)
THEOREM IdentifiedFinds == Spec => []IdentifiedResolves
<1>1. ASSUME Typed, EveryIdentity PROVE IdentifiedResolves
  <2>1. SUFFICES ASSUME NEW r \in Requests, request[r].at = "done",
                        request[r].input.kind = "identify",
                        Sole(request[r].input.key),
                        request[r].input.key \notin erased,
                        request[r].input.device \notin revived
                 PROVE  Resolved(request[r].input.device, request[r].input.key)
    BY DEF IdentifiedResolves
  <2>2. request[r].input \in Input
    BY <1>1, <2>1 DEF Typed, HandlersOK, HandlerOK
  <2>3. PICK d \in Devices, p \in People :
          d = request[r].input.device /\ p = request[r].input.key /\ p \in Users[d]
    BY <2>1, <2>2, InputFacts
  <2>4. Safe(p, d) /\ IdentityInv(p)
    BY <1>1, <2>1, <2>3 DEF Safe, EveryIdentity
  <2>5. \/ Here(d) /\ customers[d].key = p
        \/ ~Here(d) /\ Merged(d)
    BY <2>1, <2>3, <2>4 DEF IdentityInv, Handled, Going, Gone
  <2> DEFINE n == [kind |-> "event", device |-> d, key |-> Nobody, token |-> FALSE]
  <2>6. Found(n) = IF ById(n) # {} THEN ById(n) ELSE ByOtherIds(n)
    BY DEF Found, ByKey, ByToken
  <2>7. CASE Here(d) /\ customers[d].key = p
    <3>1. ById(n) = {d}
      BY <2>7 DEF ById
    <3> QED BY <2>3, <2>6, <2>7, <3>1 DEF Resolved
  <2>8. CASE ~Here(d) /\ Merged(d)
    <3>1. ById(n) = {}
      BY <2>8 DEF ById
    <3>2. ByOtherIds(n) # {}
      BY <2>8 DEF ByOtherIds, Merged
    <3>3. ASSUME NEW i \in ByOtherIds(n) PROVE customers[i].key = p
      <4>1. i \in Ids /\ Here(i) /\ d \in customers[i].other_ids
        BY <3>3 DEF ByOtherIds
      <4> QED BY <2>4, <2>8, <4>1 DEF IdentityInv, Documents, NamedKeys, NamedBy
    <3> QED BY <2>3, <2>6, <3>1, <3>2, <3>3 DEF Resolved
  <2> QED BY <2>5, <2>7, <2>8
<1> QED BY <1>1, IdentityInvariant, PTL
=============================================================================
