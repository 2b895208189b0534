-------------------------- MODULE MCRRsetRequests --------------------------
(***************************************************************************)
(* Model values and payloads for the runs of RRsetRequests alone.  Two workers *)
(* suffice for every interleaving of two transactions; a third request, on  *)
(* a worker that has finished its first, is what makes a row stale twice.   *)
(***************************************************************************)
EXTENDS RRsetRequests, TLC

CONSTANTS w1, w2, a, r1, r2

AllPayloads == UNION {[D -> Values] : D \in SUBSET Item \ {{}}}

\* Workers are interchangeable, and so are the contents of records.
Symmetry == Permutations({w1, w2}) \cup Permutations({r1, r2})
=============================================================================
