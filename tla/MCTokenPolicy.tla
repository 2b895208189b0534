---------------------------- MODULE MCTokenPolicy ----------------------------
(* An instance of TokenPolicy: the default policy and one for a domain. *)
EXTENDS TokenPolicy, TLC
CONSTANTS w1, w2, d1, sub, A
MCPattern == {Default, WholeDomain(d1)}
WorkerSymmetry == Permutations(Worker)
=============================================================================
