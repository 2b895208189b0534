------------------------------ MODULE MCRenewal ------------------------------
(* Instances of Renewal for TLC: both domains belong to the first user.       *)
EXTENDS Renewal

CONSTANTS d1, d2, u1, u2
MCInitialOwner == [d \in Domain |-> u1]
=============================================================================
