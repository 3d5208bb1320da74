-------------------------- MODULE MCMessageSending --------------------------
(* Instances of MessageSending for TLC.                                    *)
EXTENDS MessageSending, TLC

SendingSymmetry == Permutations(Customers) \cup Permutations(Handlers)
=============================================================================
