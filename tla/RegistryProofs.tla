--------------------------- MODULE RegistryProofs ---------------------------
(***************************************************************************)
(* Registry keeps domains of different users apart, for all sets of users,   *)
(* names and requests.  The inductive invariant says so of claims as well:   *)
(* a claim agrees with the zones there are, and any two claims that exist at *)
(* one moment have been recorded as made at one time.                        *)
(***************************************************************************)
EXTENDS Registry, TLAPS

Pairs == User \X Name
Claims(r) == claim[r] # NoClaim

IInv ==
  /\ owner \in [Name -> User \cup {Nobody}]
  /\ claim \in [Request -> Pairs \cup {NoClaim}]
  /\ leaving \in [Request -> Name \cup {NoClaim}]
  /\ Exclusive
  /\ \A r \in Request : Claims(r) =>
       \A m \in Name : Related(m, claim[r][2]) =>
         owner[m] \in {claim[r][1], Nobody} \/ {m, claim[r][2]} \in together
  /\ \A r, q \in Request : Claims(r) /\ Claims(q) /\ r # q =>
       {claim[r][2], claim[q][2]} \in together

LEMMA IInvInit == Init => IInv
<1> SUFFICES ASSUME Init PROVE IInv
  OBVIOUS
<1>1. Exclusive
  BY DEF Init, Exclusive
<1>2. QED BY <1>1 DEF Init, IInv, Claims

LEMMA ClaimStep ==
  ASSUME IInv, NEW r \in Request, NEW u \in User, NEW n \in Name, Claim(r, u, n)
  PROVE  IInv'
<1>1. /\ owner' = owner /\ leaving' = leaving
      /\ claim' = [claim EXCEPT ![r] = <<u, n>>]
      /\ \A m \in Name : Related(m, n) => owner[m] \in {u, Nobody}
      /\ together' = together \cup {{m, n} : m \in Claimed(r)}
  BY DEF Claim
<1>2. claim \in [Request -> Pairs \cup {NoClaim}]
  BY DEF IInv
<1>3. <<u, n>> \in Pairs
  BY DEF Pairs
<1>4. claim' \in [Request -> Pairs \cup {NoClaim}]
  BY <1>1, <1>2, <1>3
<1>5. Exclusive'
  BY <1>1 DEF IInv, Exclusive
<1>6. ASSUME NEW q \in Request, Claims(q)', NEW m \in Name, Related(m, claim'[q][2])
      PROVE  owner'[m] \in {claim'[q][1], Nobody} \/ {m, claim'[q][2]} \in together'
  <2>1. CASE q = r
    BY <2>1, <1>6, <1>1, <1>2
  <2>2. CASE q # r
    <3>1. claim'[q] = claim[q] /\ Claims(q)
      BY <2>2, <1>6, <1>1, <1>2 DEF Claims
    <3>2. QED BY <3>1, <1>6, <1>1 DEF IInv
  <2>3. QED BY <2>1, <2>2
<1>7. ASSUME NEW q \in Request, q # r, Claims(q)
      PROVE  {claim[q][2], n} \in together'
  BY <1>1, <1>7 DEF Claimed, Claims
<1>8. ASSUME NEW p \in Request, NEW q \in Request, Claims(p)', Claims(q)', p # q
      PROVE  {claim'[p][2], claim'[q][2]} \in together'
  <2>1. CASE p = r
    <3>1. claim'[q] = claim[q] /\ Claims(q) /\ claim'[p] = <<u, n>>
      BY <2>1, <1>8, <1>1, <1>2 DEF Claims
    <3>2. {claim'[p][2], claim'[q][2]} = {claim[q][2], n}
      BY <3>1
    <3>3. QED BY <3>1, <3>2, <1>7, <1>8, <2>1
  <2>2. CASE q = r
    <3>1. claim'[p] = claim[p] /\ Claims(p) /\ claim'[q] = <<u, n>>
      BY <2>2, <1>8, <1>1, <1>2 DEF Claims
    <3>2. QED BY <3>1, <1>7, <1>8, <2>2
  <2>3. CASE p # r /\ q # r
    <3>1. claim'[p] = claim[p] /\ claim'[q] = claim[q] /\ Claims(p) /\ Claims(q)
      BY <2>3, <1>8, <1>1, <1>2 DEF Claims
    <3>2. QED BY <3>1, <1>8, <1>1 DEF IInv
  <2>4. QED BY <2>1, <2>2, <2>3
<1>9. QED BY <1>1, <1>4, <1>5, <1>6, <1>8 DEF IInv, Related

LEMMA RegisterStep ==
  ASSUME IInv, NEW r \in Request, Register(r)
  PROVE  IInv'
<1> DEFINE u == claim[r][1]
           n == claim[r][2]
<1>1. /\ Claims(r) /\ owner[n] = Nobody
      /\ owner' = [owner EXCEPT ![n] = u]
      /\ claim' = [claim EXCEPT ![r] = NoClaim]
      /\ leaving' = leaving /\ together' = together
  BY DEF Register, Claims
<1>2. claim[r] \in Pairs /\ u \in User /\ n \in Name
  BY <1>1 DEF IInv, Claims, Pairs
<1>3. owner' \in [Name -> User \cup {Nobody}] /\ claim' \in [Request -> Pairs \cup {NoClaim}]
  BY <1>1, <1>2 DEF IInv
<1>4. \A m \in Name : owner'[m] = IF m = n THEN u ELSE owner[m]
  BY <1>1 DEF IInv
<1>5. \A q \in Request : Claims(q)' => q # r /\ Claims(q) /\ claim'[q] = claim[q]
  BY <1>1 DEF IInv, Claims
<1>6. \A m \in Name : Related(m, n) =>
        owner[m] \in {u, Nobody} \/ {m, n} \in together
  BY <1>1 DEF IInv
<1>7. Exclusive'
  <2> SUFFICES ASSUME NEW m \in Name, NEW k \in Name, <<k, m>> \in Inside,
                      Nobody \notin {owner'[m], owner'[k]}, owner'[m] # owner'[k]
               PROVE  {m, k} \in together
    BY <1>1 DEF Exclusive
  <2>1. CASE m = n
    <3>1. Related(k, n) BY <2>1 DEF Related
    <3>2. k # n /\ owner[k] \notin {u, Nobody} BY <2>1, <1>4
    <3>3. {k, n} \in together BY <3>1, <3>2, <1>6
    <3>4. {m, k} = {k, n} BY <2>1
    <3>5. QED BY <3>3, <3>4
  <2>2. CASE k = n
    <3>1. Related(m, n) BY <2>2 DEF Related
    <3>2. m # n /\ owner[m] \notin {u, Nobody} BY <2>2, <1>4
    <3>3. QED BY <3>1, <3>2, <1>6, <2>2
  <2>3. CASE m # n /\ k # n
    BY <2>3, <1>4 DEF IInv, Exclusive
  <2>4. QED BY <2>1, <2>2, <2>3
<1>8. ASSUME NEW q \in Request, Claims(q)', NEW m \in Name, Related(m, claim'[q][2])
      PROVE  owner'[m] \in {claim'[q][1], Nobody} \/ {m, claim'[q][2]} \in together'
  <2>1. q # r /\ Claims(q) /\ claim'[q] = claim[q]
    BY <1>5, <1>8
  <2>2. CASE m = n
    <3>1. {claim[r][2], claim[q][2]} \in together
      BY <2>1, <1>1 DEF IInv
    <3>2. QED BY <3>1, <2>1, <2>2, <1>1
  <2>3. CASE m # n
    BY <2>1, <2>3, <1>1, <1>4, <1>8 DEF IInv
  <2>4. QED BY <2>2, <2>3
<1>9. \A p, q \in Request : Claims(p)' /\ Claims(q)' /\ p # q =>
        {claim'[p][2], claim'[q][2]} \in together'
  BY <1>1, <1>5 DEF IInv
<1>10. QED BY <1>1, <1>3, <1>7, <1>8, <1>9 DEF IInv, Related

\* Owners and claims that only become less.
LEMMA LessStep ==
  ASSUME IInv, together' = together,
         owner' \in [Name -> User \cup {Nobody}],
         \A m \in Name : owner'[m] \in {owner[m], Nobody},
         claim' \in [Request -> Pairs \cup {NoClaim}],
         \A r \in Request : claim'[r] \in {claim[r], NoClaim},
         leaving' \in [Request -> Name \cup {NoClaim}]
  PROVE  IInv'
<1>1. Exclusive'
  BY DEF IInv, Exclusive
<1>2. \A r \in Request : Claims(r)' => Claims(r) /\ claim'[r] = claim[r]
  BY DEF Claims
<1>3. ASSUME NEW q \in Request, Claims(q)', NEW m \in Name, Related(m, claim'[q][2])
      PROVE  owner'[m] \in {claim'[q][1], Nobody} \/ {m, claim'[q][2]} \in together'
  <2>1. Claims(q) /\ claim'[q] = claim[q]
    BY <1>2, <1>3
  <2>2. QED BY <2>1, <1>3 DEF IInv
<1>4. \A p, q \in Request : Claims(p)' /\ Claims(q)' /\ p # q =>
        {claim'[p][2], claim'[q][2]} \in together'
  BY <1>2 DEF IInv
<1>5. QED BY <1>1, <1>3, <1>4 DEF IInv, Related

LEMMA IInvStep == IInv /\ [Next]_vars => IInv'
<1> SUFFICES ASSUME IInv, [Next]_vars PROVE IInv'
  OBVIOUS
<1>1. ASSUME NEW r \in Request, Register(r) PROVE IInv'
  BY <1>1, RegisterStep
<1>2. ASSUME NEW r \in Request, Release(r) PROVE IInv'
  BY <1>2, LessStep DEF Release, IInv
<1>3. ASSUME NEW r \in Request, Withdraw(r) PROVE IInv'
  BY <1>3, LessStep DEF Withdraw, IInv
<1>4. ASSUME NEW r \in Request, NEW u \in User, NEW n \in Name, Claim(r, u, n) PROVE IInv'
  BY <1>4, ClaimStep
<1>5. ASSUME NEW r \in Request, NEW n \in Name, Leave(r, n) PROVE IInv'
  BY <1>5, LessStep DEF Leave, IInv
<1>6. ASSUME UNCHANGED vars PROVE IInv'
  BY <1>6, LessStep DEF vars, IInv
<1>7. QED BY <1>1, <1>2, <1>3, <1>4, <1>5, <1>6 DEF Next

\* Whoever implements the registry keeps the zones of different users apart.
THEOREM RegistryExclusive == Spec => []Exclusive
<1>1. IInv => Exclusive
  BY DEF IInv
<1>2. QED BY <1>1, IInvInit, IInvStep, PTL DEF Spec
=============================================================================
