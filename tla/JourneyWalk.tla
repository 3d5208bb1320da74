----------------------------- MODULE JourneyWalk -----------------------------
(***************************************************************************)
(* What moving customers through a journey promises, without jobs, cron    *)
(* runs or events: a customer is in one place, and either rests there or   *)
(* moves; a move follows the edges of the journey through steps that do    *)
(* not hold customers, and ends in a resting place.  Nothing is promised   *)
(* of customers gone astray.                                               *)
(***************************************************************************)
EXTENDS JourneyGraph

CONSTANT Customers

VARIABLES
  enrolled,  \* customers in the journey
  place,     \* place[c]: where c last rested
  moving,    \* moving[c]: whether c is on the move
  astray     \* customers of whom nothing is promised any more

walkVars == <<enrolled, place, moving, astray>>

WalkTypeOK ==
  /\ enrolled \subseteq Customers
  /\ place \in [Customers -> Steps]
  /\ moving \in [Customers -> BOOLEAN]
  /\ astray \subseteq Customers

Edges(s) ==
  {d \in Steps : \/ d \in Destination[s]
                 \/ \E b \in DOMAIN EventDestination[s] : d = EventDestination[s][b]}

(***************************************************************************)
(* A set of steps that a move from s cannot leave: a move goes on from s   *)
(* itself and from every step that is not time based.                      *)
(***************************************************************************)
ClosedFrom(s, S) ==
  /\ s \in S
  /\ \A x \in S : x = s \/ x \notin TimeBased => Edges(x) \subseteq S

\* The steps one move from s can come to.
WithinMove(s) == {d \in Steps : \A S \in SUBSET Steps : ClosedFrom(s, S) => d \in S}

WalkInit ==
  /\ enrolled = {}
  /\ place = [c \in Customers |-> StartStep]
  /\ moving = [c \in Customers |-> FALSE]
  /\ astray = {}

Stays(c) ==
  /\ c \in enrolled' <=> c \in enrolled
  /\ place'[c] = place[c]
  /\ moving'[c] = moving[c]

Join(c) ==
  /\ c \notin enrolled /\ c \in enrolled'
  /\ place'[c] = StartStep
  /\ moving'[c]

SetOff(c) ==
  /\ c \in enrolled /\ c \in enrolled'
  /\ place'[c] = place[c]
  /\ ~moving[c] /\ moving'[c]

Arrive(c) ==
  /\ c \in enrolled /\ c \in enrolled'
  /\ moving[c] /\ ~moving'[c]
  /\ place'[c] \in WithinMove(place[c]) \cap RestingPlaces

\* Customers move independently of each other, several at once in one
\* transaction, and one who goes astray does not come back.
WalkNext ==
  /\ WalkTypeOK'
  /\ astray \subseteq astray'
  /\ \A c \in Customers \ astray' : Stays(c) \/ Join(c) \/ SetOff(c) \/ Arrive(c)

WalkSpec == WalkInit /\ [][WalkNext]_walkVars
=============================================================================
