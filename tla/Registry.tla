------------------------------ MODULE Registry ------------------------------
(***************************************************************************)
(* What the registration of domains promises, without HTTP, transactions,   *)
(* pdns or delegations.  A request claims a free name when it is validated   *)
(* and registers it later; a request that gives a domain up does so for the  *)
(* registration it was made for, and loses its object when somebody else     *)
(* is faster.  A domain never lies inside a zone of another user, unless     *)
(* the two names were claimed at the same time.                              *)
(***************************************************************************)
CONSTANTS
  User, Name,
  Request,          \* what can hold a claim
  Inside,           \* pairs <<n, m>>: a zone m would hold the name n
  Nobody, NoClaim   \* no owner, no claim: neither users nor claims

VARIABLES
  owner,            \* the owner of each name
  claim,            \* the user and the name that each request is to register
  leaving,          \* the name that each request is to release
  together          \* history: pairs of names that were claimed at one time

vars == <<owner, claim, leaving, together>>

Related(m, n) == <<m, n>> \in Inside \/ <<n, m>> \in Inside

Init ==
  /\ owner \in [Name -> User \cup {Nobody}]
  /\ \A m, n \in Name :
       <<n, m>> \in Inside /\ Nobody \notin {owner[m], owner[n]} => owner[m] = owner[n]
  /\ claim = [r \in Request |-> NoClaim] /\ leaving = claim
  /\ together = {}

\* The names that other requests have claimed.
Claimed(r) == {claim[q][2] : q \in {q \in Request \ {r} : claim[q] # NoClaim}}

Claim(r, u, n) ==
  /\ claim[r] = NoClaim
  /\ owner[n] = Nobody
  /\ claim' = [claim EXCEPT ![r] = <<u, n>>]
  /\ \A m \in Name : Related(m, n) => owner[m] \in {u, Nobody}
  /\ together' = together \cup {{m, n} : m \in Claimed(r)}
  /\ UNCHANGED <<owner, leaving>>

Register(r) ==
  /\ claim[r] # NoClaim /\ owner[claim[r][2]] = Nobody
  /\ owner' = [owner EXCEPT ![claim[r][2]] = claim[r][1]]
  /\ claim' = [claim EXCEPT ![r] = NoClaim]
  /\ UNCHANGED <<leaving, together>>

Leave(r, n) ==
  /\ leaving[r] = NoClaim
  /\ owner[n] # Nobody
  /\ leaving' = [leaving EXCEPT ![r] = n]
  /\ UNCHANGED <<owner, claim, together>>

\* All requests that were to release this registration are served by this.
Release(r) ==
  /\ leaving[r] # NoClaim /\ owner[leaving[r]] # Nobody
  /\ owner' = [owner EXCEPT ![leaving[r]] = Nobody]
  /\ leaving' = [q \in Request |-> IF leaving[q] = leaving[r] THEN NoClaim ELSE leaving[q]]
  /\ UNCHANGED <<claim, together>>

Withdraw(r) ==
  /\ claim' = [claim EXCEPT ![r] = NoClaim]
  /\ leaving' = [leaving EXCEPT ![r] = NoClaim]
  /\ UNCHANGED <<owner, together>>

Next ==
  \E r \in Request :
    \/ Register(r) \/ Release(r) \/ Withdraw(r)
    \/ \E u \in User, n \in Name : Claim(r, u, n)
    \/ \E n \in Name : Leave(r, n)

Spec == Init /\ [][Next]_vars

\* No domain lies in somebody else's zone unless both were claimed at one time.
Exclusive ==
  \A m, n \in Name :
    <<n, m>> \in Inside /\ Nobody \notin {owner[m], owner[n]} /\ owner[m] # owner[n]
      => {m, n} \in together
=============================================================================
