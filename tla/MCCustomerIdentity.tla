-------------------------- MODULE MCCustomerIdentity --------------------------
(* Instances of CustomerIdentity for TLC.                                  *)
EXTENDS CustomerIdentity, TLC

CONSTANTS d3, p1

\* d3 is shared by the others; the other devices are p1's.
OneShared == [d \in Devices |-> IF d = d3 THEN People \ {p1} ELSE {p1}]

IdentitySymmetry ==
  Permutations(Devices \ {d3}) \cup Permutations(People \ {p1})
    \cup Permutations(Requests)
=============================================================================
