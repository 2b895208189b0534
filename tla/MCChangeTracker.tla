-------------------------- MODULE MCChangeTracker --------------------------
(***************************************************************************)
(* Model values for the runs of ChangeTracker.  One domain is enough for     *)
(* its life in the block and in pdns, and two items make one RRset's fate    *)
(* independent of another's; the theorems are about any number of both.      *)
(***************************************************************************)
EXTENDS ChangeTrackerInv, TLC

CONSTANTS ns, a, nsd, d1
=============================================================================
