----------------------------- MODULE CustomerData -----------------------------
(***************************************************************************)
(* What the queries of segments are about: customers' attributes, the      *)
(* events they have performed, and the statuses of messages to them.       *)
(* Attributes are numbers; the event and the message are the ones a        *)
(* statement asks for.                                                     *)
(***************************************************************************)
EXTENDS Integers, Sequences

CONSTANTS
  Customers,
  Declared,    \* attributes declared in CustomerSchema
  Custom,      \* attributes customers of the workspace have besides
  Missing,     \* the value of an attribute a customer does not have
  Channels     \* how the events of the workspace name their customer

\* By the workspace's primary key; by _id from a mobile device; by an id the
\* device had before.
ASSUME DataAssumption ==
  /\ Channels \subseteq {"primaryKey", "_id", "other_ids"}
  /\ Missing \notin Int

Keys == Declared \cup Custom

\* db.attribute[k][c], db.performed[c][channel], db.statuses \in Seq(...)
Status == [customer : Customers, event : {"sent", "delivered"}]
=============================================================================
