---------------------------- MODULE MCSyncToPdns ----------------------------
(***************************************************************************)
(* Model values and payloads for RRsetRequests with sync-to-pdns next to it.  *)
(* Two workers suffice for every interleaving of two transactions; the third  *)
(* activity is a request on a worker that has finished its first, which makes *)
(* a row stale twice, or a run of the command.                                *)
(***************************************************************************)
EXTENDS SyncToPdns, TLC

CONSTANTS w1, w2, a, aaaa, cname, r1, r2

AllPayloads == UNION {[D -> Values] : D \in SUBSET Item \ {{}}}

\* Payloads about every item, for the run about waiting in different orders.
FullPayloads == [Item -> Values]

\* Workers are interchangeable, and so are the contents of records.
Symmetry == Permutations({w1, w2}) \cup Permutations({r1, r2})
=============================================================================
