------------------------ MODULE DomainLifecycleProofs ------------------------
(***************************************************************************)
(* Proofs about DomainLifecycle, for all sets of names, suffixes, users and   *)
(* workers: its types, that it implements Registry, that zones of different   *)
(* users stay apart, by how much a quota is exceeded, and how far rows, zones,  *)
(* delegations and the catalog zone agree.                                   *)
(*                                                                          *)
(* The invariant IInv is about primary keys and row locks: what a request has  *)
(* loaded is found again by its key, keys are used once, and a name that is    *)
(* being inserted is free and being inserted by nobody else.  A step of a      *)
(* request either keeps its claim (Goes), drops it (Quits), commits it or      *)
(* makes it.  AgreeInv says for a name that one request at a time is about     *)
(* how far that request has brought it; CatalogInv who has changed a zone     *)
(* last, and what align-catalog-zone has read of it.                         *)
(***************************************************************************)
EXTENDS DomainLifecycle, FiniteSetTheorems, TLAPS

Leaving(w) == Is(w, "delete") /\ job[w].stage \in {"erase"} \cup InBlock1
Inserting(w) == Is(w, "create") /\ job[w].stage \in InBlock1
Bound == {"insert", "erase"} \cup InBlock1

TypeInv ==
  /\ owner \in [Name -> User \cup {Operator, Nobody}]
  /\ pk \in [Name -> 0 .. MaxRequests] /\ deleg \in [Name -> 0 .. MaxRequests]
  /\ zones \subseteq Name /\ catalog \subseteq Name /\ served \subseteq Name
  /\ there \in BOOLEAN /\ num \in 1 .. MaxRequests
  /\ job \in [Worker -> JobType]
  /\ align \in [stage : {"idle", "purge", "create"}, zones : SUBSET Name, missed : SUBSET Name]
  /\ together \subseteq SUBSET Name /\ mixed \subseteq Name /\ lagging \subseteq Name

\* A row has an owner and a key that no other row and no pending one has.
RowInv ==
  /\ \A n \in Name : (owner[n] = Nobody <=> pk[n] = 0) /\ pk[n] <= num
  /\ \A m, n \in Name : pk[m] = pk[n] /\ pk[n] > 1 => m = n

ClaimInv ==
  /\ \A w \in Worker : At(w, "insert") => Is(w, "create")
  /\ \A w \in Worker : At(w, "erase") => Is(w, "delete")
  /\ \A w \in Worker : Claims(w) =>
       /\ job[w].user \in User /\ 1 < job[w].pk /\ job[w].pk <= num
       /\ \A n \in Name : pk[n] # job[w].pk
  /\ \A v, w \in Worker : Claims(v) /\ Claims(w) /\ v # w => job[v].pk # job[w].pk
  /\ \A w \in Worker : Leaving(w) => 1 <= job[w].pk /\ job[w].pk <= num
  /\ \A v, w \in Worker : Leaving(v) /\ Claims(w) => job[v].pk # job[w].pk

LockInv ==
  /\ \A w \in Worker : Inserting(w) => owner[job[w].name] = Nobody
  /\ \A v, w \in Worker : Inserting(v) /\ Inserting(w) /\ v # w => job[v].name # job[w].name

IInv == TypeInv /\ RowInv /\ ClaimInv /\ LockInv

-----------------------------------------------------------------------------
(* The four kinds of step                                                   *)

Same == owner' = owner /\ pk' = pk /\ num' = num /\ together' = together

\* The request gives its claim up, or has none.
Quits(w) ==
  /\ Same
  /\ \E J \in JobType : J.stage \notin Bound /\ job' = [job EXCEPT ![w] = J]

\* The request moves on, and waits for others before it enters the block.
Goes(w) ==
  /\ Same
  /\ \E s \in InBlock1 : job' = [job EXCEPT ![w].stage = s]
  /\ job[w].stage \in Bound
  /\ At(w, "insert") => /\ owner[job[w].name] = Nobody
                        /\ \A v \in Others(w) : ~Holds(v)

LEMMA IdleType == Idle \in JobType /\ Idle.stage \notin Bound
<1>1. (CHOOSE n \in Name : TRUE) \in Name
  BY FiniteAssumption
<1>2. QED BY <1>1, LimitAssumption DEF Idle, JobType, Stage, Bound, InBlock1

LEMMA Kept ==
  ASSUME IInv, UNCHANGED <<owner, pk, num, job>>
  PROVE  RowInv' /\ ClaimInv' /\ LockInv'
BY DEF IInv, RowInv, ClaimInv, LockInv, At, Is, Claims, Leaving, Inserting

LEMMA QuitsKeeps ==
  ASSUME IInv, NEW w \in Worker, Quits(w)
  PROVE  RowInv' /\ ClaimInv' /\ LockInv'
<1>1. PICK J \in JobType : J.stage \notin Bound /\ job' = [job EXCEPT ![w] = J]
  BY DEF Quits
<1>2. job \in [Worker -> JobType] /\ Same
  BY DEF IInv, TypeInv, Quits
<1>3. \A v \in Worker : v # w => job'[v] = job[v]
  BY <1>1, <1>2
<1>4. job'[w] = J
  BY <1>1, <1>2
<1>5. ~Claims(w)' /\ ~Leaving(w)' /\ ~Inserting(w)' /\ ~At(w, "insert")' /\ ~At(w, "erase")'
  BY <1>1, <1>4 DEF Claims, Leaving, Inserting, At, Is, Bound, Claiming, InBlock1
<1>6. \A v \in Worker : v # w =>
        /\ Claims(v)' = Claims(v) /\ Leaving(v)' = Leaving(v) /\ Inserting(v)' = Inserting(v)
        /\ At(v, "insert")' = At(v, "insert") /\ At(v, "erase")' = At(v, "erase")
        /\ Is(v, "create")' = Is(v, "create") /\ Is(v, "delete")' = Is(v, "delete")
  BY <1>3 DEF Claims, Leaving, Inserting, At, Is
<1>7. RowInv'
  BY <1>2 DEF IInv, RowInv, Same
<1>8. ClaimInv'
  BY <1>2, <1>3, <1>5, <1>6 DEF IInv, ClaimInv, Same
<1>9. LockInv'
  BY <1>2, <1>3, <1>5, <1>6 DEF IInv, LockInv, Same
<1>10. QED BY <1>7, <1>8, <1>9

LEMMA GoesKeeps ==
  ASSUME IInv, NEW w \in Worker, Goes(w)
  PROVE  RowInv' /\ ClaimInv' /\ LockInv'
<1>1. PICK s \in InBlock1 : job' = [job EXCEPT ![w].stage = s]
  BY DEF Goes
<1>2. job \in [Worker -> JobType] /\ Same /\ job[w].stage \in Bound
  BY DEF IInv, TypeInv, Goes
<1>3. \A v \in Worker : v # w => job'[v] = job[v]
  BY <1>1, <1>2
<1>4. /\ job'[w].stage = s /\ job'[w].kind = job[w].kind /\ job'[w].name = job[w].name
      /\ job'[w].pk = job[w].pk /\ job'[w].user = job[w].user
  BY <1>1, <1>2 DEF JobType
<1>5. (job[w].kind = "create" \/ job[w].kind = "delete") /\ job[w].stage \in Stage
  BY <1>2 DEF JobType
<1>6. /\ Claims(w)' = Claims(w) /\ Leaving(w)' = Leaving(w)
      /\ ~At(w, "insert")' /\ ~At(w, "erase")'
  BY <1>1, <1>2, <1>4, <1>5
     DEF Claims, Leaving, At, Is, Bound, Claiming, InBlock1, IInv, ClaimInv
<1>7. \A v \in Worker : v # w =>
        /\ Claims(v)' = Claims(v) /\ Leaving(v)' = Leaving(v) /\ Inserting(v)' = Inserting(v)
        /\ At(v, "insert")' = At(v, "insert") /\ At(v, "erase")' = At(v, "erase")
        /\ Is(v, "create")' = Is(v, "create") /\ Is(v, "delete")' = Is(v, "delete")
  BY <1>3 DEF Claims, Leaving, Inserting, At, Is
<1>8. RowInv'
  BY <1>2 DEF IInv, RowInv, Same
<1>9. \A v \in Worker : /\ job'[v].pk = job[v].pk /\ job'[v].user = job[v].user
                        /\ job'[v].name = job[v].name
                        /\ Claims(v)' = Claims(v) /\ Leaving(v)' = Leaving(v)
  BY <1>3, <1>4, <1>6, <1>7
<1>10. ClaimInv'
  BY <1>2, <1>6, <1>7, <1>9 DEF IInv, ClaimInv, Same
<1>11. Inserting(w)' => owner[job[w].name] = Nobody
  <2> SUFFICES ASSUME Inserting(w)' PROVE owner[job[w].name] = Nobody
    OBVIOUS
  <2>1. Is(w, "create")
    BY <1>4 DEF Inserting, Is
  <2>2. CASE At(w, "insert")
    BY <2>2 DEF Goes
  <2>3. CASE ~At(w, "insert")
    <3>1. Inserting(w)
      BY <2>1, <2>3, <1>2 DEF Inserting, Is, At, Bound, IInv, ClaimInv
    <3>2. QED BY <3>1 DEF IInv, LockInv
  <2>4. QED BY <2>2, <2>3
<1>12. ASSUME NEW v \in Worker, v # w, Inserting(v), Inserting(w)'
       PROVE  job[v].name # job[w].name
  <2>1. Is(w, "create")
    BY <1>4, <1>12 DEF Inserting, Is
  <2>2. CASE At(w, "insert")
    <3>1. \A x \in Others(w) : ~Holds(x)
      BY <2>2 DEF Goes
    <3>2. Holds(v) /\ ~At(v, "idle")
      BY <1>12 DEF Inserting, Holds, At, InBlock1
    <3>3. QED BY <3>1, <3>2, <1>12 DEF Others
  <2>3. CASE ~At(w, "insert")
    <3>1. Inserting(w)
      BY <2>1, <2>3, <1>2 DEF Inserting, Is, At, Bound, IInv, ClaimInv
    <3>2. QED BY <3>1, <1>12 DEF IInv, LockInv
  <2>4. QED BY <2>2, <2>3
<1>13. LockInv'
  <2>1. ASSUME NEW v \in Worker, Inserting(v)' PROVE owner'[job'[v].name] = Nobody
    BY <2>1, <1>2, <1>7, <1>9, <1>11 DEF IInv, LockInv, Same
  <2>2. ASSUME NEW v \in Worker, NEW x \in Worker, Inserting(v)', Inserting(x)', v # x
        PROVE  job'[v].name # job'[x].name
    <3>1. CASE v = w
      BY <3>1, <2>2, <1>7, <1>9, <1>12
    <3>2. CASE x = w
      BY <3>2, <2>2, <1>7, <1>9, <1>12
    <3>3. CASE v # w /\ x # w
      BY <3>3, <2>2, <1>7, <1>9 DEF IInv, LockInv
    <3>4. QED BY <3>1, <3>2, <3>3
  <2>3. QED BY <2>1, <2>2 DEF LockInv
<1>14. QED BY <1>8, <1>10, <1>13
-----------------------------------------------------------------------------
(* The steps of requests and of align-catalog-zone                          *)

\* A request that moves on or ends, with the types of what it changes.
LEMMA GotoIs ==
  ASSUME IInv, NEW w \in Worker, NEW s \in Stage, job' = [job EXCEPT ![w].stage = s]
  PROVE  /\ job' \in [Worker -> JobType]
         /\ Same /\ s \notin Bound => Quits(w)
         /\ Same /\ s \in InBlock1 /\ job[w].stage \in {"erase"} \cup InBlock1 => Goes(w)
<1>1. job[w] \in JobType /\ job \in [Worker -> JobType]
  BY DEF IInv, TypeInv
<1>2. [job[w] EXCEPT !.stage = s] \in JobType /\ [job[w] EXCEPT !.stage = s].stage = s
  BY <1>1 DEF JobType
<1>3. job' = [job EXCEPT ![w] = [job[w] EXCEPT !.stage = s]]
  BY <1>1
<1>4. ASSUME Same, s \notin Bound PROVE Quits(w)
  BY <1>2, <1>3, <1>4 DEF Quits
<1>5. ASSUME Same, s \in InBlock1, job[w].stage \in {"erase"} \cup InBlock1 PROVE Goes(w)
  BY <1>5 DEF Goes, Bound, At, InBlock1
<1>6. QED BY <1>1, <1>2, <1>3, <1>4, <1>5

LEMMA FinishIs ==
  ASSUME IInv, NEW w \in Worker, Finish(w)
  PROVE  job' \in [Worker -> JobType] /\ (Same => Quits(w))
BY IdleType DEF IInv, TypeInv, Finish, Quits

\* Steps of one request, without Commit.
Plain(w) ==
  \/ Insert(w) \/ BodyRaises(w) \/ Erase(w) \/ ChangeZone(w) \/ UpdateCatalog(w)
  \/ FindParent(w) \/ DropDelegation(w) \/ FetchKeys(w) \/ InsertDelegation(w)
  \/ Patch(w) \/ Commit2(w) \/ Fails(w)

LEMMA NamesOfJobs == IInv => \A w \in Worker : job[w].name \in Name /\ job[w].pk \in 0 .. MaxRequests
BY DEF IInv, TypeInv, JobType

LEMMA PlainSteps ==
  ASSUME IInv, NEW w \in Worker, Plain(w)
  PROVE  (Quits(w) \/ Goes(w)) /\ TypeInv'
<1>0. /\ job[w].name \in Name /\ job[w].pk \in 0 .. MaxRequests
      /\ \A v \in Worker : job[v].name \in Name
      /\ TypeInv
  BY NamesOfJobs DEF IInv
<1> USE DEF rows, pdns, history, Goto, Same
<1>1. CASE Insert(w)
  <2>1. CASE owner[job[w].name] = Nobody
    <3>1. job' = [job EXCEPT ![w].stage = "zone"] /\ Same
      BY <1>1, <2>1 DEF Insert
    <3>2. job' \in [Worker -> JobType]
      BY <3>1, GotoIs DEF Stage
    <3>3. Goes(w)
      BY <1>1, <2>1, <3>1 DEF Goes, Insert, InBlock1, Bound, At
    <3>4. QED BY <3>2, <3>3, <1>0, <1>1 DEF TypeInv, Insert
  <2>2. CASE owner[job[w].name] # Nobody
    <3>1. Finish(w) /\ Same
      BY <1>1, <2>2 DEF Insert
    <3>2. QED BY <3>1, FinishIs, <1>0, <1>1 DEF TypeInv, Insert
  <2>3. QED BY <2>1, <2>2
<1>2. CASE BodyRaises(w)
  <2>1. Finish(w) /\ Same
    BY <1>2 DEF BodyRaises
  <2>2. QED BY <2>1, FinishIs, <1>0, <1>2 DEF TypeInv, BodyRaises
<1>3. CASE Erase(w)
  <2>1. job' = [job EXCEPT ![w].stage = "zone"] /\ Same /\ job[w].stage = "erase"
    BY <1>3 DEF Erase, At
  <2>2. job' \in [Worker -> JobType] /\ Goes(w)
    BY <2>1, GotoIs DEF Stage, InBlock1
  <2>3. QED BY <2>2, <1>0, <1>3 DEF TypeInv, Erase
<1>4. CASE ChangeZone(w)
  <2>1. job' = [job EXCEPT ![w].stage = "catalog"] /\ Same /\ job[w].stage = "zone"
    BY <1>4 DEF ChangeZone, At
  <2>2. job' \in [Worker -> JobType] /\ Goes(w)
    BY <2>1, GotoIs DEF Stage, InBlock1
  <2>3. zones' \subseteq Name
    BY <1>0, <1>4 DEF TypeInv, ChangeZone
  <2>4. QED BY <2>2, <2>3, <1>0, <1>4 DEF TypeInv, ChangeZone
<1>5. CASE UpdateCatalog(w)
  <2>1. job' = [job EXCEPT ![w].stage = "commit"] /\ Same /\ job[w].stage = "catalog"
    BY <1>5 DEF UpdateCatalog, At
  <2>2. job' \in [Worker -> JobType] /\ Goes(w)
    BY <2>1, GotoIs DEF Stage, InBlock1
  <2>3. catalog' \subseteq Name
    BY <1>0, <1>5 DEF TypeInv, UpdateCatalog
  <2>4. NoteMissed(job[w].name) \in SUBSET Name
    BY <1>0 DEF TypeInv, NoteMissed
  <2>5. align' \in [stage : {"idle", "purge", "create"}, zones : SUBSET Name, missed : SUBSET Name]
    BY <2>4, <1>0, <1>5 DEF TypeInv, UpdateCatalog
  <2>6. lagging' \subseteq Name
    BY <1>0, <1>5 DEF TypeInv, UpdateCatalog, Others
  <2>7. QED BY <2>2, <2>3, <2>5, <2>6, <1>0, <1>5 DEF TypeInv, UpdateCatalog
<1>6. CASE FindParent(w)
  <2> DEFINE J == [job[w] EXCEPT !.stage = "drop", !.picked = deleg[job[w].name]]
  <2>1. job[w] \in JobType /\ deleg[job[w].name] \in 0 .. MaxRequests
    BY <1>0 DEF TypeInv
  <2>2. J \in JobType /\ J.stage = "drop"
    BY <2>1 DEF JobType, Stage
  <2>3. job' = [job EXCEPT ![w] = J]
    BY <1>6, <1>0 DEF FindParent, TypeInv
  <2>4. Quits(w)
    BY <2>2, <2>3, <1>6 DEF Quits, FindParent, Bound, InBlock1
  <2>5. QED BY <2>2, <2>3, <2>4, <1>0, <1>6 DEF TypeInv, FindParent
<1>7. CASE DropDelegation(w)
  <2>1. \E s \in {"keys", "patch"} : job' = [job EXCEPT ![w].stage = s]
    BY <1>7 DEF DropDelegation
  <2>2. Same
    BY <1>7 DEF DropDelegation
  <2>3. job' \in [Worker -> JobType] /\ Quits(w)
    BY <2>1, <2>2, GotoIs DEF Stage, Bound, InBlock1
  <2>4. QED BY <2>3, <1>0, <1>7 DEF TypeInv, DropDelegation
<1>8. CASE FetchKeys(w)
  <2>1. job' = [job EXCEPT ![w].stage = "delegate"] /\ Same
    BY <1>8 DEF FetchKeys
  <2>2. job' \in [Worker -> JobType] /\ Quits(w)
    BY <2>1, GotoIs DEF Stage, Bound, InBlock1
  <2>3. QED BY <2>2, <1>0, <1>8 DEF TypeInv, FetchKeys
<1>9. CASE InsertDelegation(w)
  <2>1. job' = [job EXCEPT ![w].stage = "patch"] /\ Same
    BY <1>9 DEF InsertDelegation
  <2>2. job' \in [Worker -> JobType] /\ Quits(w)
    BY <2>1, GotoIs DEF Stage, Bound, InBlock1
  <2>3. QED BY <2>2, <1>0, <1>9 DEF TypeInv, InsertDelegation
<1>10. CASE Patch(w)
  <2>1. job' = [job EXCEPT ![w].stage = "commit2"] /\ Same
    BY <1>10 DEF Patch
  <2>2. job' \in [Worker -> JobType] /\ Quits(w)
    BY <2>1, GotoIs DEF Stage, Bound, InBlock1
  <2>3. served' \subseteq Name
    BY <1>0, <1>10 DEF TypeInv, Patch
  <2>4. QED BY <2>2, <2>3, <1>0, <1>10 DEF TypeInv, Patch
<1>11. CASE Commit2(w)
  <2>1. Finish(w) /\ Same
    BY <1>11 DEF Commit2
  <2>2. deleg' \in [Name -> 0 .. MaxRequests]
    BY <1>0, <1>11, LimitAssumption DEF TypeInv, Commit2
  <2>3. QED BY <2>1, <2>2, FinishIs, <1>0, <1>11 DEF TypeInv, Commit2
<1>12. CASE Fails(w)
  <2>1. Finish(w) /\ Same
    BY <1>12 DEF Fails
  <2>2. mixed' \subseteq Name /\ lagging' \subseteq Name
    BY <1>0, <1>12 DEF TypeInv, Fails
  <2>3. NoteMissed(job[w].name) \in SUBSET Name
    BY <1>0 DEF TypeInv, NoteMissed
  <2>4. align' \in [stage : {"idle", "purge", "create"}, zones : SUBSET Name, missed : SUBSET Name]
    BY <2>3, <1>0, <1>12 DEF TypeInv, Fails
  <2>5. QED BY <2>1, <2>2, <2>4, FinishIs, <1>0, <1>12 DEF TypeInv, Fails
<1>13. QED
  BY <1>1, <1>2, <1>3, <1>4, <1>5, <1>6, <1>7, <1>8, <1>9, <1>10, <1>11, <1>12 DEF Plain

LEMMA AlignSteps ==
  ASSUME IInv, Align
  PROVE  Same /\ job' = job /\ TypeInv'
<1> USE DEF rows, pdns, history, Same
<1>0. TypeInv /\ \A w \in Worker : job[w].name \in Name
  BY NamesOfJobs DEF IInv
<1>1. CASE AlignFetch
  BY <1>0, <1>1 DEF AlignFetch, TypeInv
<1>2. CASE AlignPurge
  BY <1>0, <1>2 DEF AlignPurge, TypeInv
<1>3. CASE AlignCreate
  BY <1>0, <1>3 DEF AlignCreate, TypeInv, AlignIdle, Overlapped
<1>4. CASE AlignFails
  BY <1>0, <1>4 DEF AlignFails, TypeInv, AlignIdle
<1>5. QED BY <1>1, <1>2, <1>3, <1>4 DEF Align
-----------------------------------------------------------------------------
(* New requests, and the commit of the first block                          *)

\* What Accept does, whatever the job.
LEMMA Accepted ==
  ASSUME IInv, NEW w \in Worker, NEW j \in JobType, Free(w), Accept(w, j)
  PROVE  /\ job \in [Worker -> JobType] /\ job' = [job EXCEPT ![w] = j]
         /\ \A v \in Worker : v # w => job'[v] = job[v]
         /\ job'[w] = j /\ job' \in [Worker -> JobType]
         /\ num' = num + 1 /\ num + 1 \in 2 .. MaxRequests
         /\ owner' = owner /\ pk' = pk
         /\ job[w].stage = "idle"
         /\ together' \subseteq SUBSET Name => TypeInv'
<1>1. job \in [Worker -> JobType] /\ job' = [job EXCEPT ![w] = j]
  BY DEF IInv, TypeInv, Accept
<1>2. num' = num + 1 /\ num + 1 \in 2 .. MaxRequests
  BY LimitAssumption DEF IInv, TypeInv, Accept, Free
<1>3. job'[w] = j /\ job' \in [Worker -> JobType]
  BY <1>1
<1>4. mixed' \subseteq Name
  BY DEF IInv, TypeInv, Accept, JobType
<1>5. ASSUME together' \subseteq SUBSET Name PROVE TypeInv'
  BY <1>2, <1>3, <1>4, <1>5 DEF IInv, TypeInv, Accept, rows, pdns
<1>6. QED BY <1>1, <1>2, <1>3, <1>5 DEF Accept, rows, Free, At

LEMMA CreateKeeps ==
  ASSUME IInv, NEW w \in Worker, NEW u \in User, NEW n \in Name, Create(w, u, n)
  PROVE  IInv'
<1> DEFINE j == [stage |-> "insert", kind |-> "create", user |-> u, name |-> n,
                 pk |-> num + 1, picked |-> 0]
<1>1. Free(w) /\ Accept(w, j)
  BY DEF Create
<1>2. j \in JobType
  BY <1>1, LimitAssumption DEF JobType, Stage, Free, IInv, TypeInv
<1>3. /\ job'[w] = j /\ \A v \in Worker : v # w => job'[v] = job[v]
      /\ num' = num + 1 /\ owner' = owner /\ pk' = pk
      /\ together' \subseteq SUBSET Name => TypeInv'
  BY <1>1, <1>2, Accepted
<1>4. num \in Nat /\ \A m \in Name : pk[m] \in Nat
  BY DEF IInv, TypeInv
<1>5. \A v \in Worker : job[v].pk \in Nat
  BY DEF IInv, TypeInv, JobType
<1>6. TypeInv'
  <2>1. \A v \in Worker : job[v].name \in Name
    BY NamesOfJobs
  <2>2. together' \subseteq SUBSET Name
    BY <2>1 DEF Create, IInv, TypeInv
  <2>3. QED BY <2>2, <1>3
<1>7. /\ Claims(w)' /\ ~Leaving(w)' /\ ~Inserting(w)' /\ At(w, "insert")' /\ ~At(w, "erase")'
      /\ Is(w, "create")'
  BY <1>3 DEF Claims, Leaving, Inserting, At, Is, Claiming, InBlock1
<1>8. \A v \in Worker : v # w =>
        /\ Claims(v)' = Claims(v) /\ Leaving(v)' = Leaving(v) /\ Inserting(v)' = Inserting(v)
        /\ At(v, "insert")' = At(v, "insert") /\ At(v, "erase")' = At(v, "erase")
        /\ Is(v, "create")' = Is(v, "create") /\ Is(v, "delete")' = Is(v, "delete")
  BY <1>3 DEF Claims, Leaving, Inserting, At, Is
<1>9. RowInv'
  BY <1>3, <1>4 DEF IInv, RowInv
<1>10. ClaimInv'
  <2>1. \A v \in Worker : (At(v, "insert")' => Is(v, "create")')
                          /\ (At(v, "erase")' => Is(v, "delete")')
    BY <1>7, <1>8 DEF IInv, ClaimInv
  <2>2. ASSUME NEW v \in Worker, Claims(v)'
        PROVE  /\ job'[v].user \in User /\ 1 < job'[v].pk /\ job'[v].pk <= num'
               /\ \A m \in Name : pk'[m] # job'[v].pk
    <3>1. CASE v = w
      <4>1. 1 < num + 1 /\ \A m \in Name : pk[m] # num + 1
        BY <1>4 DEF IInv, RowInv, TypeInv
      <4>2. QED BY <4>1, <3>1, <1>3, <1>4
    <3>2. CASE v # w
      BY <3>2, <2>2, <1>3, <1>4, <1>5, <1>8 DEF IInv, ClaimInv
    <3>3. QED BY <3>1, <3>2
  <2>3. ASSUME NEW v \in Worker, Leaving(v)'
        PROVE  1 <= job'[v].pk /\ job'[v].pk <= num'
    <3>1. v # w /\ Leaving(v)
      BY <2>3, <1>7, <1>8
    <3>2. QED BY <3>1, <1>3, <1>4, <1>5 DEF IInv, ClaimInv
  <2>4. \A v \in Worker : v # w /\ (Claims(v) \/ Leaving(v)) => job[v].pk # num + 1
    BY <1>4, <1>5 DEF IInv, ClaimInv
  <2>5. \A v, x \in Worker : Claims(v)' /\ Claims(x)' /\ v # x => job'[v].pk # job'[x].pk
    BY <2>4, <1>3, <1>8 DEF IInv, ClaimInv
  <2>6. \A v, x \in Worker : Leaving(v)' /\ Claims(x)' => job'[v].pk # job'[x].pk
    BY <2>4, <1>3, <1>7, <1>8 DEF IInv, ClaimInv
  <2>7. QED BY <2>1, <2>2, <2>3, <2>5, <2>6 DEF ClaimInv
<1>11. LockInv'
  BY <1>3, <1>7, <1>8 DEF IInv, LockInv
<1>12. QED BY <1>6, <1>9, <1>10, <1>11 DEF IInv

LEMMA DeleteKeeps ==
  ASSUME IInv, NEW w \in Worker, NEW u \in User, NEW n \in Name, Delete(w, u, n)
  PROVE  IInv'
<1> DEFINE j == [stage |-> "erase", kind |-> "delete", user |-> u, name |-> n,
                 pk |-> pk[n], picked |-> 0]
<1>1. Free(w) /\ Accept(w, j) /\ owner[n] = u /\ together' = together
  BY DEF Delete
<1>2. num \in Nat /\ \A m \in Name : pk[m] \in 0 .. MaxRequests
  BY DEF IInv, TypeInv
<1>3. j \in JobType
  BY <1>2, LimitAssumption DEF JobType, Stage
<1>4. /\ job'[w] = j /\ \A v \in Worker : v # w => job'[v] = job[v]
      /\ num' = num + 1 /\ owner' = owner /\ pk' = pk
      /\ together' \subseteq SUBSET Name => TypeInv'
  BY <1>1, <1>3, Accepted
<1>5. TypeInv'
  BY <1>1, <1>4 DEF IInv, TypeInv
<1>6. \A v \in Worker : job[v].pk \in Nat
  BY DEF IInv, TypeInv, JobType
<1>7. /\ ~Claims(w)' /\ Leaving(w)' /\ ~Inserting(w)' /\ ~At(w, "insert")' /\ Is(w, "delete")'
  BY <1>4 DEF Claims, Leaving, Inserting, At, Is, Claiming, InBlock1
<1>8. \A v \in Worker : v # w =>
        /\ Claims(v)' = Claims(v) /\ Leaving(v)' = Leaving(v) /\ Inserting(v)' = Inserting(v)
        /\ At(v, "insert")' = At(v, "insert") /\ At(v, "erase")' = At(v, "erase")
        /\ Is(v, "create")' = Is(v, "create") /\ Is(v, "delete")' = Is(v, "delete")
  BY <1>4 DEF Claims, Leaving, Inserting, At, Is
<1>9. RowInv'
  BY <1>4, <1>2 DEF IInv, RowInv
<1>10. pk[n] # 0 /\ pk[n] <= num
  BY <1>1, UserAssumption DEF IInv, RowInv
<1>11. ClaimInv'
  <2>1. \A v \in Worker : (At(v, "insert")' => Is(v, "create")')
                          /\ (At(v, "erase")' => Is(v, "delete")')
    BY <1>7, <1>8 DEF IInv, ClaimInv
  <2>2. ASSUME NEW v \in Worker, Claims(v)'
        PROVE  /\ job'[v].user \in User /\ 1 < job'[v].pk /\ job'[v].pk <= num'
               /\ \A m \in Name : pk'[m] # job'[v].pk
    <3>1. v # w /\ Claims(v)
      BY <2>2, <1>7, <1>8
    <3>2. QED BY <3>1, <1>2, <1>4, <1>6 DEF IInv, ClaimInv
  <2>3. ASSUME NEW v \in Worker, Leaving(v)'
        PROVE  1 <= job'[v].pk /\ job'[v].pk <= num'
    <3>1. CASE v = w
      BY <3>1, <1>4, <1>2, <1>10
    <3>2. CASE v # w
      BY <3>2, <2>3, <1>2, <1>4, <1>6, <1>8 DEF IInv, ClaimInv
    <3>3. QED BY <3>1, <3>2
  <2>4. \A v, x \in Worker : Claims(v)' /\ Claims(x)' /\ v # x => job'[v].pk # job'[x].pk
    BY <1>4, <1>7, <1>8 DEF IInv, ClaimInv
  <2>5. \A v, x \in Worker : Leaving(v)' /\ Claims(x)' => job'[v].pk # job'[x].pk
    BY <1>4, <1>7, <1>8 DEF IInv, ClaimInv
  <2>6. QED BY <2>1, <2>2, <2>3, <2>4, <2>5 DEF ClaimInv
<1>12. LockInv'
  BY <1>4, <1>7, <1>8 DEF IInv, LockInv
<1>13. QED BY <1>5, <1>9, <1>11, <1>12 DEF IInv

\* The name that a request commits is the only one whose row changes, and the
\* request is over as far as claims are concerned.
LEMMA Committed ==
  ASSUME IInv, NEW w \in Worker, Commit(w)
  PROVE  /\ \E J \in JobType : J.stage \notin Bound /\ job' = [job EXCEPT ![w] = J]
         /\ job' \in [Worker -> JobType]
         /\ \A v \in Worker : v # w => job'[v] = job[v]
         /\ ~Claims(w)' /\ ~Leaving(w)' /\ ~Inserting(w)'
         /\ ~At(w, "insert")' /\ ~At(w, "erase")'
         /\ \A v \in Worker : v # w =>
              /\ Claims(v)' = Claims(v) /\ Leaving(v)' = Leaving(v)
              /\ Inserting(v)' = Inserting(v)
              /\ At(v, "insert")' = At(v, "insert") /\ At(v, "erase")' = At(v, "erase")
              /\ Is(v, "create")' = Is(v, "create") /\ Is(v, "delete")' = Is(v, "delete")
         /\ num' = num /\ together' = together
<1>1. job \in [Worker -> JobType]
  BY DEF IInv, TypeInv
<1>2. PICK J \in JobType : J.stage \notin Bound /\ job' = [job EXCEPT ![w] = J]
  <2>1. CASE IsLocallyRegistrable(job[w].name)
    <3> DEFINE J == [job[w] EXCEPT !.stage = "parent"]
    <3>1. job' = [job EXCEPT ![w] = J]
      BY <2>1, <1>1 DEF Commit, Goto
    <3>2. J \in JobType /\ J.stage \notin Bound
      BY <1>1 DEF JobType, Stage, Bound, InBlock1
    <3>3. QED BY <3>1, <3>2
  <2>2. CASE ~IsLocallyRegistrable(job[w].name)
    BY <2>2, IdleType DEF Commit, Finish
  <2>3. QED BY <2>1, <2>2
<1>3. job'[w] = J /\ job' \in [Worker -> JobType]
  BY <1>1, <1>2
<1>4. \A v \in Worker : v # w => job'[v] = job[v]
  BY <1>1, <1>2
<1>5. ~Claims(w)' /\ ~Leaving(w)' /\ ~Inserting(w)' /\ ~At(w, "insert")' /\ ~At(w, "erase")'
  BY <1>2, <1>3 DEF Claims, Leaving, Inserting, At, Is, Bound, Claiming, InBlock1
<1>6. \A v \in Worker : v # w =>
        /\ Claims(v)' = Claims(v) /\ Leaving(v)' = Leaving(v) /\ Inserting(v)' = Inserting(v)
        /\ At(v, "insert")' = At(v, "insert") /\ At(v, "erase")' = At(v, "erase")
        /\ Is(v, "create")' = Is(v, "create") /\ Is(v, "delete")' = Is(v, "delete")
  BY <1>4 DEF Claims, Leaving, Inserting, At, Is
<1>7. QED BY <1>2, <1>3, <1>4, <1>5, <1>6 DEF Commit, history
LEMMA CommitKeeps ==
  ASSUME IInv, NEW w \in Worker, Commit(w)
  PROVE  IInv'
<1> DEFINE n == job[w].name
<1>1. /\ job' \in [Worker -> JobType]
      /\ \A v \in Worker : v # w => job'[v] = job[v]
      /\ ~Claims(w)' /\ ~Leaving(w)' /\ ~Inserting(w)'
      /\ ~At(w, "insert")' /\ ~At(w, "erase")'
      /\ \A v \in Worker : v # w =>
           /\ Claims(v)' = Claims(v) /\ Leaving(v)' = Leaving(v)
           /\ Inserting(v)' = Inserting(v)
           /\ At(v, "insert")' = At(v, "insert") /\ At(v, "erase")' = At(v, "erase")
           /\ Is(v, "create")' = Is(v, "create") /\ Is(v, "delete")' = Is(v, "delete")
      /\ num' = num /\ together' = together
  BY Committed
<1>2. /\ n \in Name /\ job[w].pk \in 0 .. MaxRequests /\ At(w, "commit")
      /\ owner \in [Name -> User \cup {Operator, Nobody}] /\ pk \in [Name -> 0 .. MaxRequests]
  BY NamesOfJobs DEF IInv, TypeInv, Commit
<1>3. ASSUME owner' \in [Name -> User \cup {Operator, Nobody}],
             pk' \in [Name -> 0 .. MaxRequests]
      PROVE  TypeInv'
  BY <1>1, <1>3 DEF Commit, IInv, TypeInv, pdns, history
<1>4. CASE Is(w, "create")
  <2>1. /\ owner' = [owner EXCEPT ![n] = job[w].user] /\ pk' = [pk EXCEPT ![n] = job[w].pk]
    BY <1>4 DEF Commit, Is
  <2>2. Claims(w) /\ Inserting(w)
    BY <1>2, <1>4 DEF Claims, Inserting, At, Claiming, InBlock1
  <2>3. /\ job[w].user \in User /\ 1 < job[w].pk /\ job[w].pk <= num
        /\ \A m \in Name : pk[m] # job[w].pk
        /\ owner[n] = Nobody
    BY <2>2 DEF IInv, ClaimInv, LockInv
  <2>4. TypeInv'
    BY <1>2, <1>3, <2>1, <2>3
  <2>5. \A m \in Name : /\ owner'[m] = IF m = n THEN job[w].user ELSE owner[m]
                        /\ pk'[m] = IF m = n THEN job[w].pk ELSE pk[m]
    BY <1>2, <2>1
  <2>6. RowInv'
    <3>1. \A m \in Name : (owner'[m] = Nobody <=> pk'[m] = 0) /\ pk'[m] <= num'
      BY <1>1, <1>2, <2>3, <2>5, UserAssumption DEF IInv, RowInv
    <3>2. \A k, m \in Name : pk'[k] = pk'[m] /\ pk'[m] > 1 => k = m
      BY <2>3, <2>5 DEF IInv, RowInv
    <3>3. QED BY <3>1, <3>2 DEF RowInv
  <2>7. ASSUME NEW v \in Worker, Claims(v)'
        PROVE  \A m \in Name : pk'[m] # job'[v].pk
    <3>1. v # w /\ Claims(v) /\ job'[v] = job[v]
      BY <1>1, <2>7
    <3>2. QED BY <3>1, <2>2, <2>5 DEF IInv, ClaimInv
  <2>8. ClaimInv'
    BY <1>1, <2>7 DEF IInv, ClaimInv
  <2>9. ASSUME NEW v \in Worker, Inserting(v)'
        PROVE  owner'[job'[v].name] = Nobody
    <3>1. v # w /\ Inserting(v) /\ job'[v] = job[v]
      BY <1>1, <2>9
    <3>2. job[v].name # n /\ owner[job[v].name] = Nobody /\ job[v].name \in Name
      BY <3>1, <2>2, NamesOfJobs DEF IInv, LockInv
    <3>3. QED BY <3>1, <3>2, <2>5
  <2>10. LockInv'
    BY <1>1, <2>9 DEF IInv, LockInv
  <2>11. QED BY <2>4, <2>6, <2>8, <2>10 DEF IInv
<1>5. CASE Is(w, "delete") /\ Exists(w)
  <2>1. owner' = [owner EXCEPT ![n] = Nobody] /\ pk' = [pk EXCEPT ![n] = 0]
    BY <1>5 DEF Commit, Is
  <2>2. TypeInv'
    BY <1>2, <1>3, <2>1, LimitAssumption
  <2>3. \A m \in Name : /\ owner'[m] = IF m = n THEN Nobody ELSE owner[m]
                        /\ pk'[m] = IF m = n THEN 0 ELSE pk[m]
    BY <1>2, <2>1
  <2>4. num \in Nat
    BY DEF IInv, TypeInv
  <2>5. RowInv'
    BY <1>1, <1>2, <2>3, <2>4 DEF IInv, RowInv
  <2>6. ClaimInv'
    <3>1. ASSUME NEW v \in Worker, Claims(v)' PROVE \A m \in Name : pk'[m] # job'[v].pk
      <4>1. Claims(v) /\ job'[v] = job[v]
        BY <1>1, <3>1
      <4>2. 1 < job[v].pk /\ \A m \in Name : pk[m] # job[v].pk
        BY <4>1 DEF IInv, ClaimInv
      <4>3. QED BY <4>1, <4>2, <2>3
    <3>2. QED BY <1>1, <3>1 DEF IInv, ClaimInv
  <2>7. LockInv'
    BY <1>1, <2>3, NamesOfJobs DEF IInv, LockInv
  <2>8. QED BY <2>2, <2>5, <2>6, <2>7 DEF IInv
<1>6. CASE ~Is(w, "create") /\ ~(Is(w, "delete") /\ Exists(w))
  <2>1. owner' = owner /\ pk' = pk
    BY <1>6 DEF Commit, Is
  <2>2. TypeInv'
    BY <1>2, <1>3, <2>1
  <2>3. RowInv' /\ ClaimInv' /\ LockInv'
    BY <1>1, <2>1 DEF IInv, RowInv, ClaimInv, LockInv
  <2>4. QED BY <2>2, <2>3 DEF IInv
<1>7. QED BY <1>4, <1>5, <1>6

LEMMA IInvInit == Init => IInv
<1> SUFFICES ASSUME Init PROVE IInv
  OBVIOUS
<1>1. 0 \in 0 .. MaxRequests /\ 1 \in 0 .. MaxRequests /\ 1 \in 1 .. MaxRequests
  BY LimitAssumption
<1>2. TypeInv
  BY <1>1, IdleType, RegisteredAssumption DEF Init, TypeInv, AlignIdle, Delegated
<1>3. RowInv
  BY DEF Init, RowInv
<1>4. \A w \in Worker : ~Claims(w) /\ ~Leaving(w) /\ ~Inserting(w)
                        /\ ~At(w, "insert") /\ ~At(w, "erase")
  BY DEF Init, Claims, Leaving, Inserting, At, Is, Idle, Claiming, InBlock1
<1>5. QED BY <1>2, <1>3, <1>4 DEF IInv, ClaimInv, LockInv

\* The steps once more, by what they do to claims.
LEMMA StepKinds ==
  ASSUME IInv, NEW w \in Worker, NewRequest(w) \/ Step(w)
  PROVE  \/ (Quits(w) \/ Goes(w)) /\ TypeInv'
         \/ Commit(w)
         \/ \E u \in User, n \in Name : Create(w, u, n) \/ Delete(w, u, n)
<1>1. CASE Step(w)
  BY <1>1, PlainSteps DEF Step, Plain
<1>2. CASE NewRequest(w)
  BY <1>2 DEF NewRequest
<1>3. QED BY <1>1, <1>2

LEMMA IInvStep == IInv /\ [Next]_vars => IInv'
<1> SUFFICES ASSUME IInv, [Next]_vars PROVE IInv'
  OBVIOUS
<1>1. ASSUME NEW w \in Worker, NewRequest(w) \/ Step(w) PROVE IInv'
  <2>1. ASSUME Quits(w) \/ Goes(w), TypeInv' PROVE IInv'
    BY <2>1, QuitsKeeps, GoesKeeps DEF IInv
  <2>2. QED BY <1>1, <2>1, StepKinds, CommitKeeps, CreateKeeps, DeleteKeeps
<1>2. ASSUME Align PROVE IInv'
  BY <1>2, AlignSteps, Kept DEF Same, IInv
<1>3. ASSUME UNCHANGED vars PROVE IInv'
  <2>1. RowInv' /\ ClaimInv' /\ LockInv'
    BY <1>3, Kept DEF vars, rows
  <2>2. TypeInv'
    BY <1>3 DEF IInv, TypeInv, vars, rows, pdns, history
  <2>3. QED BY <2>1, <2>2 DEF IInv
<1>4. QED BY <1>1, <1>2, <1>3 DEF Next

LEMMA Invariance == Spec => []IInv
<1>1. QED BY IInvInit, IInvStep, PTL DEF Spec

\* Every row has an owner and a key of its own.
THEOREM LifecycleTypeOK == Spec => []TypeOK
<1>1. IInv => TypeOK
  BY DEF IInv, TypeInv, RowInv, TypeOK
<1>2. QED BY <1>1, Invariance, PTL
-----------------------------------------------------------------------------
(* DomainLifecycle implements Registry                                      *)

\* The claim and the release of a request, as Registry sees them.
LeavingOf(w) == IF Leaves(w) THEN job[w].name ELSE NoClaim

LEMMA ClaimsApart ==
  ASSUME IInv, NEW w \in Worker
  PROVE  /\ Claims(w) => /\ Claim(w) = <<job[w].user, job[w].name>> /\ Claim(w) # NoClaim
                         /\ LeavingOf(w) = NoClaim
         /\ ~Claims(w) => Claim(w) = NoClaim
         /\ Leaves(w) => Leaving(w) /\ LeavingOf(w) = job[w].name /\ LeavingOf(w) # NoClaim
                         /\ owner[job[w].name] # Nobody
         /\ ~Leaves(w) => LeavingOf(w) = NoClaim
<1>1. job[w].name \in Name /\ (Claims(w) => job[w].user \in User)
  BY NamesOfJobs DEF IInv, ClaimInv
<1>2. Claims(w) => ~Leaves(w)
  BY DEF Claims, Leaves, Is
<1>3. Leaves(w) => Leaving(w) /\ 1 <= job[w].pk /\ pk[job[w].name] = job[w].pk
  BY DEF Leaves, Leaving, Exists, IInv, ClaimInv
<1>4. pk[job[w].name] = 0 <=> owner[job[w].name] = Nobody
  BY <1>1 DEF IInv, RowInv
<1>5. QED BY <1>1, <1>2, <1>3, <1>4, UserAssumption DEF Claim, LeavingOf

LEMMA InitMaps == Init => R!Init
<1> SUFFICES ASSUME Init PROVE R!Init
  OBVIOUS
<1>1. owner \in [Name -> (User \cup {Operator}) \cup {Nobody}]
  BY RegisteredAssumption DEF Init
<1>2. \A m, n \in Name :
        <<n, m>> \in Inside /\ Nobody \notin {owner[m], owner[n]} => owner[m] = owner[n]
  <2> SUFFICES ASSUME NEW m \in Name, NEW n \in Name, <<n, m>> \in Inside,
                      Nobody \notin {owner[m], owner[n]}
               PROVE  owner[m] = owner[n]
    OBVIOUS
  <2>1. Nobody \in {Registered[n], Registered[m]} \/ Registered[n] = Registered[m]
    BY RegisteredAssumption
  <2>2. QED BY <2>1 DEF Init
<1>3. \A w \in Worker : Claim(w) = NoClaim /\ ~Leaves(w)
  BY DEF Init, Idle, Claim, Claims, Leaves, Is, Claiming, InBlock1
<1>4. QED BY <1>1, <1>2, <1>3 DEF Init, R!Init

\* A step that keeps owners and claims is none of Registry's.
LEMMA StutterMaps ==
  ASSUME owner' = owner, together' = together,
         \A v \in Worker : Claim(v)' = Claim(v) /\ LeavingOf(v)' = LeavingOf(v)
  PROVE  UNCHANGED R!vars
BY DEF R!vars, LeavingOf

LEMMA QuitsMaps ==
  ASSUME IInv, NEW w \in Worker, Quits(w)
  PROVE  R!Withdraw(w)
<1>1. PICK J \in JobType : J.stage \notin Bound /\ job' = [job EXCEPT ![w] = J]
  BY DEF Quits
<1>2. job \in [Worker -> JobType] /\ Same
  BY DEF IInv, TypeInv, Quits
<1>3. job'[w] = J /\ \A v \in Worker : v # w => job'[v] = job[v]
  BY <1>1, <1>2
<1>4. Claim(w)' = NoClaim /\ LeavingOf(w)' = NoClaim
  BY <1>1, <1>3 DEF Claim, Claims, LeavingOf, Leaves, Is, Bound, Claiming, InBlock1
<1>5. \A v \in Worker : v # w => Claim(v)' = Claim(v) /\ LeavingOf(v)' = LeavingOf(v)
  BY <1>2, <1>3 DEF Claim, Claims, LeavingOf, Leaves, Is, Exists, Same
<1>6. QED BY <1>2, <1>4, <1>5 DEF R!Withdraw, Same, LeavingOf

LEMMA GoesMaps ==
  ASSUME IInv, NEW w \in Worker, Goes(w)
  PROVE  UNCHANGED R!vars
<1>1. PICK s \in InBlock1 : job' = [job EXCEPT ![w].stage = s]
  BY DEF Goes
<1>2. job \in [Worker -> JobType] /\ Same /\ job[w].stage \in Bound
  BY DEF IInv, TypeInv, Goes
<1>3. \A v \in Worker : v # w => job'[v] = job[v]
  BY <1>1, <1>2
<1>4. /\ job'[w].stage = s /\ job'[w].kind = job[w].kind /\ job'[w].name = job[w].name
      /\ job'[w].pk = job[w].pk /\ job'[w].user = job[w].user
  BY <1>1, <1>2 DEF JobType
<1>5. Claims(w)' = Claims(w) /\ Leaves(w)' = Leaves(w)
  <2>1. (job[w].stage = "insert" => job[w].kind = "create")
        /\ (job[w].stage = "erase" => job[w].kind = "delete")
    BY DEF IInv, ClaimInv, At, Is
  <2>2. pk' = pk
    BY <1>2 DEF Same
  <2>3. QED BY <1>1, <1>2, <1>4, <2>1, <2>2
            DEF Claims, Leaves, Exists, Is, Bound, Claiming, InBlock1
<1>6. Claim(w)' = Claim(w) /\ LeavingOf(w)' = LeavingOf(w)
  BY <1>4, <1>5 DEF Claim, LeavingOf
<1>7. \A v \in Worker : v # w => Claim(v)' = Claim(v) /\ LeavingOf(v)' = LeavingOf(v)
  BY <1>2, <1>3 DEF Claim, Claims, LeavingOf, Leaves, Is, Exists, Same
<1>8. QED BY <1>2, <1>6, <1>7, StutterMaps DEF Same

\* What the validation of a new domain says of the zones around its name.
LEMMA RegistrableIsClear ==
  ASSUME NEW u \in User, NEW n \in Name, NEW up \in BOOLEAN, IsRegistrable(u, n, up),
         NEW m \in Name, R!Related(m, n)
  PROVE  owner[m] \in {u, Nobody}
<1>1. ~IsCoveredByForeignZone(u, n, up) /\ ~CoversForeignZone(u, n)
  BY DEF IsRegistrable
<1>2. CASE <<m, n>> \in Inside
  BY <1>1, <1>2 DEF Inside, CoversForeignZone, Mine
<1>3. CASE <<n, m>> \in Inside
  <2>1. <<n, m>> \in Below /\ Len(m) > Len(PublicSuffix[n, TRUE])
    BY <1>3 DEF Inside
  <2>2. Len(m) \in Nat
    BY NameAssumption
  <2>3. Len(m) > Len(PublicSuffix[n, up])
    <3>1. /\ Len(PublicSuffix[n, TRUE]) \in Nat /\ Len(PublicSuffix[n, FALSE]) \in Nat
          /\ Len(PublicSuffix[n, FALSE]) <= Len(PublicSuffix[n, TRUE])
      BY SuffixAssumption
    <3>2. Len(m) > Len(PublicSuffix[n, FALSE])
      <4>1. \A a, b, c \in Nat : a > b /\ c <= b => a > c
        OBVIOUS
      <4>2. QED BY <2>1, <2>2, <3>1, <4>1
    <3>3. up = TRUE \/ up = FALSE
      OBVIOUS
    <3>4. QED BY <2>1, <3>2, <3>3
  <2>4. QED BY <1>1, <2>1, <2>3 DEF IsCoveredByForeignZone, Mine
<1>4. QED BY <1>2, <1>3 DEF R!Related

LEMMA CreateMaps ==
  ASSUME IInv, NEW w \in Worker, NEW u \in User, NEW n \in Name, Create(w, u, n)
  PROVE  R!Claim(w, u, n)
<1> DEFINE j == [stage |-> "insert", kind |-> "create", user |-> u, name |-> n,
                 pk |-> num + 1, picked |-> 0]
<1>1. Free(w) /\ Accept(w, j)
      /\ together' = together \cup {{job[v].name, n} : v \in {v \in Worker : Claims(v)}}
  BY DEF Create
<1>2. j \in JobType
  BY <1>1, LimitAssumption DEF JobType, Stage, Free, IInv, TypeInv
<1>3. /\ job'[w] = j /\ \A v \in Worker : v # w => job'[v] = job[v]
      /\ owner' = owner /\ pk' = pk /\ job[w].stage = "idle"
  BY <1>1, <1>2, Accepted
<1>4. PICK up \in BOOLEAN : Passes(u, n, up)
  BY DEF Create
<1>5. owner[n] = Nobody /\ \A m \in Name : R!Related(m, n) => owner[m] \in {u, Nobody}
  BY <1>4, RegistrableIsClear DEF Passes
<1>6. ~Claims(w) /\ ~Leaves(w) /\ Claims(w)' /\ ~Leaves(w)'
  BY <1>3 DEF Claims, Leaves, Is, Claiming, InBlock1
<1>7. Claim(w) = NoClaim /\ Claim(w)' = <<u, n>> /\ LeavingOf(w)' = LeavingOf(w)
  BY <1>3, <1>6 DEF Claim, LeavingOf
<1>8. \A v \in Worker : v # w => Claim(v)' = Claim(v) /\ LeavingOf(v)' = LeavingOf(v)
  BY <1>3 DEF Claim, Claims, LeavingOf, Leaves, Is, Exists
<1>9. R!Claimed(w) = {job[v].name : v \in {v \in Worker : Claims(v)}}
  <2>1. \A v \in Worker : Claims(v) <=> Claim(v) # NoClaim
    BY ClaimsApart
  <2>2. \A v \in Worker : Claims(v) => v # w /\ Claim(v)[2] = job[v].name
    BY <1>6, ClaimsApart
  <2>3. R!Claimed(w) = {Claim(q)[2] : q \in {q \in Worker \ {w} : Claim(q) # NoClaim}}
    BY DEF R!Claimed
  <2>4. {q \in Worker \ {w} : Claim(q) # NoClaim} = {v \in Worker : Claims(v)}
    BY <2>1, <2>2
  <2>5. QED BY <2>2, <2>3, <2>4
<1>10. together' = together \cup {{m, n} : m \in R!Claimed(w)}
  BY <1>1, <1>9
<1>11. QED BY <1>3, <1>5, <1>7, <1>8, <1>10 DEF R!Claim, LeavingOf

LEMMA DeleteMaps ==
  ASSUME IInv, NEW w \in Worker, NEW u \in User, NEW n \in Name, Delete(w, u, n)
  PROVE  R!Leave(w, n)
<1> DEFINE j == [stage |-> "erase", kind |-> "delete", user |-> u, name |-> n,
                 pk |-> pk[n], picked |-> 0]
<1>1. Free(w) /\ Accept(w, j) /\ owner[n] = u /\ together' = together
  BY DEF Delete
<1>2. j \in JobType
  BY LimitAssumption DEF JobType, Stage, IInv, TypeInv
<1>3. /\ job'[w] = j /\ \A v \in Worker : v # w => job'[v] = job[v]
      /\ owner' = owner /\ pk' = pk /\ job[w].stage = "idle"
  BY <1>1, <1>2, Accepted
<1>4. owner[n] # Nobody
  BY <1>1, UserAssumption
<1>5. ~Claims(w) /\ ~Leaves(w) /\ ~Claims(w)' /\ Leaves(w)'
  BY <1>3 DEF Claims, Leaves, Is, Exists, Claiming, InBlock1
<1>6. Claim(w)' = Claim(w) /\ LeavingOf(w) = NoClaim /\ LeavingOf(w)' = n
  BY <1>3, <1>5 DEF Claim, LeavingOf
<1>7. \A v \in Worker : v # w => Claim(v)' = Claim(v) /\ LeavingOf(v)' = LeavingOf(v)
  BY <1>3 DEF Claim, Claims, LeavingOf, Leaves, Is, Exists
<1>8. QED BY <1>1, <1>3, <1>4, <1>6, <1>7 DEF R!Leave, LeavingOf
LEMMA CommitMaps ==
  ASSUME IInv, NEW w \in Worker, Commit(w)
  PROVE  R!Register(w) \/ R!Release(w) \/ UNCHANGED R!vars
<1> DEFINE n == job[w].name
<1>1. /\ \A v \in Worker : v # w => job'[v] = job[v]
      /\ ~Claims(w)' /\ ~Leaving(w)'
      /\ \A v \in Worker : v # w => Claims(v)' = Claims(v) /\ Leaving(v)' = Leaving(v)
      /\ together' = together
  BY Committed
<1>2. /\ n \in Name /\ At(w, "commit") /\ \A v \in Worker : job[v].name \in Name
      /\ owner \in [Name -> User \cup {Operator, Nobody}] /\ pk \in [Name -> 0 .. MaxRequests]
  BY NamesOfJobs DEF IInv, TypeInv, Commit
<1>3. /\ Claim(w)' = NoClaim /\ LeavingOf(w)' = NoClaim
      /\ \A v \in Worker : v # w => Claim(v)' = Claim(v)
  BY <1>1 DEF Claim, LeavingOf, Leaves, Leaving
<1>4. \A v \in Worker : v # w =>
        /\ Leaves(v) <=> Leaving(v) /\ pk[job[v].name] = job[v].pk
        /\ Leaves(v)' <=> Leaving(v) /\ pk'[job[v].name] = job[v].pk
        /\ LeavingOf(v)' = IF Leaves(v)' THEN job[v].name ELSE NoClaim
  BY <1>1 DEF Leaves, Leaving, LeavingOf, Exists
<1>5. \A v \in Worker : Leaving(v) => 1 <= job[v].pk
  BY DEF IInv, ClaimInv
<1>6. CASE Is(w, "create")
  <2>1. /\ owner' = [owner EXCEPT ![n] = job[w].user] /\ pk' = [pk EXCEPT ![n] = job[w].pk]
    BY <1>6 DEF Commit, Is
  <2>2. Claims(w) /\ Inserting(w)
    BY <1>2, <1>6 DEF Claims, Inserting, At, Claiming, InBlock1
  <2>3. owner[n] = Nobody /\ pk[n] = 0
    BY <2>2, <1>2 DEF IInv, LockInv, RowInv
  <2>4. Claim(w) = <<job[w].user, n>> /\ Claim(w) # NoClaim /\ LeavingOf(w) = NoClaim
    BY <2>2, ClaimsApart
  <2>5. ASSUME NEW v \in Worker, v # w PROVE LeavingOf(v)' = LeavingOf(v)
    <3>1. Leaving(v) => job[v].pk # job[w].pk /\ job[v].pk # 0
      BY <2>2, <1>5 DEF IInv, ClaimInv
    <3>2. pk'[job[v].name] = IF job[v].name = n THEN job[w].pk ELSE pk[job[v].name]
      BY <1>2, <2>1
    <3>3. Leaves(v)' <=> Leaves(v)
      BY <1>4, <2>5, <3>1, <3>2, <2>3
    <3>4. QED BY <3>3, <1>4, <2>5 DEF LeavingOf
  <2>6. Claim(w)[1] = job[w].user /\ Claim(w)[2] = n
    BY <2>4
  <2>7. \A v \in Worker : LeavingOf(v)' = LeavingOf(v)
    BY <1>3, <2>4, <2>5
  <2>8. R!Register(w)
    BY <1>1, <1>3, <2>1, <2>3, <2>4, <2>6, <2>7 DEF R!Register, LeavingOf
  <2>9. QED BY <2>8
<1>7. CASE Is(w, "delete") /\ Exists(w)
  <2>1. owner' = [owner EXCEPT ![n] = Nobody] /\ pk' = [pk EXCEPT ![n] = 0]
    BY <1>7 DEF Commit, Is
  <2>2. Leaves(w) /\ ~Claims(w)
    BY <1>2, <1>7 DEF Leaves, Claims, Is, At, InBlock1
  <2>3. LeavingOf(w) = n /\ n # NoClaim /\ owner[n] # Nobody /\ Claim(w) = NoClaim
    BY <2>2, ClaimsApart
  <2>4. ASSUME NEW v \in Worker, v # w
        PROVE  LeavingOf(v)' = IF LeavingOf(v) = n THEN NoClaim ELSE LeavingOf(v)
    <3>1. pk'[job[v].name] = IF job[v].name = n THEN 0 ELSE pk[job[v].name]
      BY <1>2, <2>1
    <3>2. Leaves(v)' <=> Leaves(v) /\ job[v].name # n
      BY <1>4, <1>5, <2>4, <3>1
    <3>3. QED BY <3>2, <1>4, <2>4, <2>3 DEF LeavingOf
  <2>5. R!Release(w)
    BY <1>1, <1>3, <2>1, <2>3, <2>4 DEF R!Release, LeavingOf
  <2>6. QED BY <2>5
<1>8. CASE ~Is(w, "create") /\ ~(Is(w, "delete") /\ Exists(w))
  <2>1. owner' = owner /\ pk' = pk
    BY <1>8 DEF Commit, Is
  <2>2. ~Claims(w) /\ ~Leaves(w)
    BY <1>8 DEF Claims, Leaves
  <2>3. \A v \in Worker : Claim(v)' = Claim(v) /\ LeavingOf(v)' = LeavingOf(v)
    BY <1>3, <1>4, <2>1, <2>2 DEF Claim, LeavingOf
  <2>4. QED BY <1>1, <2>1, <2>3, StutterMaps
<1>9. QED BY <1>6, <1>7, <1>8

LEMMA StepMaps == IInv /\ [Next]_vars => [R!Next]_(R!vars)
<1> SUFFICES ASSUME IInv, [Next]_vars PROVE R!Next \/ UNCHANGED R!vars
  OBVIOUS
<1>1. ASSUME NEW w \in Worker, NewRequest(w) \/ Step(w)
      PROVE  R!Next \/ UNCHANGED R!vars
  <2>1. CASE Quits(w)
    BY <2>1, QuitsMaps DEF R!Next
  <2>2. CASE Goes(w)
    BY <2>2, GoesMaps
  <2>3. CASE Commit(w)
    BY <2>3, CommitMaps DEF R!Next
  <2>4. ASSUME NEW u \in User, NEW n \in Name, Create(w, u, n) PROVE R!Next
    BY <2>4, CreateMaps DEF R!Next
  <2>5. ASSUME NEW u \in User, NEW n \in Name, Delete(w, u, n) PROVE R!Next
    BY <2>5, DeleteMaps DEF R!Next
  <2>6. QED BY <1>1, <2>1, <2>2, <2>3, <2>4, <2>5, StepKinds
<1>2. ASSUME Same, job' = job PROVE UNCHANGED R!vars
  BY <1>2, StutterMaps DEF Same, Claim, Claims, LeavingOf, Leaves, Is, Exists
<1>3. CASE Align
  BY <1>2, <1>3, AlignSteps
<1>4. CASE UNCHANGED vars
  BY <1>2, <1>4 DEF vars, rows, history, Same
<1>5. QED BY <1>1, <1>3, <1>4 DEF Next

\* The requests implement the abstract registry.
THEOREM ImplementsRegistry == Spec => RegistryKept
<1>1. QED BY InitMaps, StepMaps, Invariance, PTL DEF Spec, RegistryKept, R!Spec

-----------------------------------------------------------------------------
(* What follows from Registry                                               *)

RP == INSTANCE RegistryProofs WITH
        User <- User \cup {Operator}, Request <- Worker,
        claim <- [w \in Worker |-> Claim(w)],
        leaving <- [w \in Worker |-> IF Leaves(w) THEN job[w].name ELSE NoClaim]

\* No domain lies in somebody else's zone unless both were claimed at one time.
THEOREM LifecycleExclusive == Spec => []Exclusive
<1>1. RP!Spec => []RP!Exclusive
  BY RP!RegistryExclusive
<1>2. RP!Exclusive <=> Exclusive
  BY DEF RP!Exclusive, Exclusive
<1>3. R!Init <=> RP!Init
  BY DEF R!Init, RP!Init
<1>4. [R!Next]_(R!vars) <=> [RP!Next]_(RP!vars)
  <2>1. \A w \in Worker :
          /\ R!Register(w) <=> RP!Register(w)
          /\ R!Release(w) <=> RP!Release(w)
          /\ R!Withdraw(w) <=> RP!Withdraw(w)
    BY DEF R!Register, RP!Register, R!Release, RP!Release, R!Withdraw, RP!Withdraw
  <2>2. \A w \in Worker, u \in User \cup {Operator}, n \in Name :
          R!Claim(w, u, n) <=> RP!Claim(w, u, n)
    BY DEF R!Claim, RP!Claim, R!Claimed, RP!Claimed, R!Related, RP!Related
  <2>3. \A w \in Worker, n \in Name : R!Leave(w, n) <=> RP!Leave(w, n)
    BY DEF R!Leave, RP!Leave
  <2>4. R!Next <=> RP!Next
    BY <2>1, <2>2, <2>3 DEF R!Next, RP!Next
  <2>5. (UNCHANGED R!vars) <=> (UNCHANGED RP!vars)
    BY DEF R!vars, RP!vars
  <2>6. QED BY <2>4, <2>5
<1>5. QED BY <1>1, <1>2, <1>3, <1>4, ImplementsRegistry, PTL DEF RegistryKept, R!Spec, RP!Spec
-----------------------------------------------------------------------------
(* Quotas                                                                   *)

ClaimsOf(u) == {w \in Worker : Claims(w) /\ job[w].user = u}

\* Domains and claims of a user together; this is what Create bounds.
LimitInv ==
  \A u \in User :
    Cardinality(Owned(u)) + Cardinality(ClaimsOf(u)) <= Limit[u] + Cardinality(Worker) - 1

LEMMA Sizes ==
  ASSUME NEW u \in User
  PROVE  /\ IsFiniteSet(Owned(u)) /\ Cardinality(Owned(u)) \in Nat
         /\ IsFiniteSet(ClaimsOf(u)) /\ Cardinality(ClaimsOf(u)) \in Nat
         /\ Cardinality(ClaimsOf(u)) <= Cardinality(Worker)
         /\ Cardinality(Worker) \in Nat /\ Cardinality(Worker) # 0 /\ Limit[u] \in Nat
<1>1. Owned(u) \in SUBSET Name /\ ClaimsOf(u) \in SUBSET Worker
  BY DEF Owned, ClaimsOf
<1>2. QED BY <1>1, FS_Subset, FS_CardinalityType, FS_EmptySet, FiniteAssumption, LimitAssumption

\* Fewer domains and claims of one user.
LEMMA Fewer ==
  ASSUME LimitInv, NEW u \in User, Owned(u)' \subseteq Owned(u), ClaimsOf(u)' \subseteq ClaimsOf(u)
  PROVE  Cardinality(Owned(u)') + Cardinality(ClaimsOf(u)') <= Limit[u] + Cardinality(Worker) - 1
<1>1. /\ Cardinality(Owned(u)') \in Nat /\ Cardinality(Owned(u)') <= Cardinality(Owned(u))
      /\ Cardinality(ClaimsOf(u)') \in Nat
      /\ Cardinality(ClaimsOf(u)') <= Cardinality(ClaimsOf(u))
  BY Sizes, FS_Subset, FS_CardinalityType
<1>2. Cardinality(Owned(u)) + Cardinality(ClaimsOf(u)) <= Limit[u] + Cardinality(Worker) - 1
  BY DEF LimitInv
<1>3. \A a, b, c, d, l, k \in Nat : a <= b /\ c <= d /\ b + d <= l + k - 1 => a + c <= l + k - 1
  OBVIOUS
<1>4. QED BY <1>1, <1>2, <1>3, Sizes

LEMMA LimitInit == Init => LimitInv
<1> SUFFICES ASSUME Init, NEW u \in User
             PROVE  Cardinality(Owned(u)) + Cardinality(ClaimsOf(u))
                      <= Limit[u] + Cardinality(Worker) - 1
  BY DEF LimitInv
<1>1. ClaimsOf(u) = {}
  BY DEF Init, ClaimsOf, Claims, Idle, Claiming, InBlock1
<1>2. Owned(u) = {n \in Name : Registered[n] = u}
  BY DEF Init, Owned
<1>3. Cardinality(Owned(u)) <= Limit[u] /\ Cardinality(ClaimsOf(u)) = 0
  BY <1>1, <1>2, RegisteredAssumption, FS_EmptySet
<1>4. QED BY <1>3, Sizes

LEMMA LimitCreate ==
  ASSUME IInv, LimitInv, NEW w \in Worker, NEW u \in User, NEW n \in Name, Create(w, u, n)
  PROVE  LimitInv'
<1> DEFINE j == [stage |-> "insert", kind |-> "create", user |-> u, name |-> n,
                 pk |-> num + 1, picked |-> 0]
<1>1. Free(w) /\ Accept(w, j)
  BY DEF Create
<1>2. j \in JobType
  BY <1>1, LimitAssumption DEF JobType, Stage, Free, IInv, TypeInv
<1>3. /\ job'[w] = j /\ \A v \in Worker : v # w => job'[v] = job[v]
      /\ owner' = owner
  BY <1>1, <1>2, Accepted
<1>4. ASSUME NEW x \in User
      PROVE  Cardinality(Owned(x)') + Cardinality(ClaimsOf(x)') <= Limit[x] + Cardinality(Worker) - 1
  <2>1. Owned(x)' = Owned(x)
    BY <1>3 DEF Owned
  <2>2. CASE x = u
    <3>1. Cardinality(Owned(u)) < Limit[u]
      BY DEF Create, WithinDomainLimit
    <3>2. ClaimsOf(u)' \in SUBSET Worker
      BY DEF ClaimsOf
    <3>3. Cardinality(ClaimsOf(u)') \in Nat /\ Cardinality(ClaimsOf(u)') <= Cardinality(Worker)
      BY <3>2, FS_Subset, FS_CardinalityType, FiniteAssumption
    <3>4. \A a, c, l, k \in Nat : a < l /\ c <= k => a + c <= l + k - 1
      OBVIOUS
    <3>5. QED BY <2>1, <2>2, <3>1, <3>3, <3>4, Sizes
  <2>3. CASE x # u
    <3>1. ClaimsOf(x)' \subseteq ClaimsOf(x)
      BY <2>3, <1>3 DEF ClaimsOf, Claims, Is
    <3>2. QED BY <2>1, <3>1, Fewer
  <2>4. QED BY <2>2, <2>3
<1>5. QED BY <1>4 DEF LimitInv

LEMMA LimitCommit ==
  ASSUME IInv, LimitInv, NEW w \in Worker, Commit(w)
  PROVE  LimitInv'
<1> DEFINE n == job[w].name
<1>1. /\ \A v \in Worker : v # w => job'[v] = job[v]
      /\ ~Claims(w)'
      /\ \A v \in Worker : v # w => Claims(v)' = Claims(v)
  BY Committed
<1>2. n \in Name /\ At(w, "commit") /\ owner \in [Name -> User \cup {Operator, Nobody}]
  BY NamesOfJobs DEF IInv, TypeInv, Commit
<1>3. \A x \in User : ClaimsOf(x)' \subseteq ClaimsOf(x) \ {w}
  BY <1>1 DEF ClaimsOf
<1>4. ASSUME NEW x \in User
      PROVE  Cardinality(Owned(x)') + Cardinality(ClaimsOf(x)') <= Limit[x] + Cardinality(Worker) - 1
  <2>1. CASE Is(w, "create") /\ job[w].user = x
    <3>1. owner' = [owner EXCEPT ![n] = x]
      BY <2>1 DEF Commit, Is
    <3>2. Claims(w) /\ Inserting(w)
      BY <1>2, <2>1 DEF Claims, Inserting, At, Claiming, InBlock1
    <3>3. n \notin Owned(x)
      BY <3>2, UserAssumption DEF IInv, LockInv, Owned
    <3>4. Owned(x)' = Owned(x) \cup {n}
      BY <1>2, <3>1 DEF Owned
    <3>5. Cardinality(Owned(x)') = Cardinality(Owned(x)) + 1
      BY <3>3, <3>4, Sizes, FS_AddElement
    <3>6. w \in ClaimsOf(x)
      BY <3>2, <2>1 DEF ClaimsOf
    <3>7. /\ IsFiniteSet(ClaimsOf(x) \ {w})
          /\ Cardinality(ClaimsOf(x) \ {w}) = Cardinality(ClaimsOf(x)) - 1
      BY <3>6, Sizes, FS_RemoveElement
    <3>8. /\ Cardinality(ClaimsOf(x)') <= Cardinality(ClaimsOf(x)) - 1
          /\ Cardinality(ClaimsOf(x)') \in Nat
      BY <3>7, <1>3, FS_Subset, FS_CardinalityType
    <3>9. Cardinality(Owned(x)) + Cardinality(ClaimsOf(x)) <= Limit[x] + Cardinality(Worker) - 1
      BY DEF LimitInv
    <3>10. \A a, b, c, d, l, k \in Nat :
             a = b + 1 /\ c <= d - 1 /\ b + d <= l + k - 1 => a + c <= l + k - 1
      OBVIOUS
    <3>11. Cardinality(Owned(x)') \in Nat
      BY <3>5, Sizes
    <3>12. QED BY <3>5, <3>8, <3>9, <3>10, <3>11, Sizes
  <2>2. CASE ~(Is(w, "create") /\ job[w].user = x)
    <3>1. Owned(x)' \subseteq Owned(x)
      BY <2>2, <1>2, UserAssumption DEF Commit, Owned, Is
    <3>2. QED BY <3>1, <1>3, Fewer
  <2>3. QED BY <2>1, <2>2
<1>5. QED BY <1>4 DEF LimitInv

LEMMA LimitStep == IInv /\ LimitInv /\ [Next]_vars => LimitInv'
<1> SUFFICES ASSUME IInv, LimitInv, [Next]_vars PROVE LimitInv'
  OBVIOUS
<1>1. ASSUME owner' = owner, NEW w \in Worker,
             \A v \in Worker : v # w => job'[v] = job[v],
             Claims(w)' => Claims(w) /\ job'[w].user = job[w].user
      PROVE  LimitInv'
  <2>1. \A u \in User : Owned(u)' \subseteq Owned(u) /\ ClaimsOf(u)' \subseteq ClaimsOf(u)
    BY <1>1 DEF Owned, ClaimsOf, Claims, Is
  <2>2. QED BY <2>1, Fewer DEF LimitInv
<1>2. ASSUME owner' = owner, job' = job PROVE LimitInv'
  <2>1. \A u \in User : Owned(u)' \subseteq Owned(u) /\ ClaimsOf(u)' \subseteq ClaimsOf(u)
    BY <1>2 DEF Owned, ClaimsOf, Claims, Is
  <2>2. QED BY <2>1, Fewer DEF LimitInv
<1>3. ASSUME NEW w \in Worker, NewRequest(w) \/ Step(w) PROVE LimitInv'
  <2>1. job \in [Worker -> JobType]
    BY DEF IInv, TypeInv
  <2>2. CASE Quits(w)
    <3>1. PICK J \in JobType : J.stage \notin Bound /\ job' = [job EXCEPT ![w] = J]
      BY <2>2 DEF Quits
    <3>2. ~Claims(w)' /\ \A v \in Worker : v # w => job'[v] = job[v]
      BY <2>1, <3>1 DEF Claims, Is, Bound, Claiming, InBlock1
    <3>3. QED BY <2>2, <3>2, <1>1 DEF Quits, Same
  <2>3. CASE Goes(w)
    <3>1. PICK s \in InBlock1 : job' = [job EXCEPT ![w].stage = s]
      BY <2>3 DEF Goes
    <3>2. /\ job'[w].kind = job[w].kind /\ job'[w].user = job[w].user
          /\ \A v \in Worker : v # w => job'[v] = job[v]
      BY <2>1, <3>1 DEF JobType
    <3>3. Is(w, "create") => Claims(w)
      BY <2>3 DEF Goes, Claims, Claiming, Bound, IInv, ClaimInv, At, Is
    <3>4. QED BY <2>3, <3>2, <3>3, <1>1 DEF Goes, Same, Claims, Is
  <2>4. CASE Commit(w)
    BY <2>4, LimitCommit
  <2>5. ASSUME NEW u \in User, NEW n \in Name, Create(w, u, n) PROVE LimitInv'
    BY <2>5, LimitCreate
  <2>6. ASSUME NEW u \in User, NEW n \in Name, Delete(w, u, n) PROVE LimitInv'
    <3> DEFINE j == [stage |-> "erase", kind |-> "delete", user |-> u, name |-> n,
                     pk |-> pk[n], picked |-> 0]
    <3>1. Free(w) /\ Accept(w, j) /\ j \in JobType
      BY <2>6, LimitAssumption DEF Delete, JobType, Stage, IInv, TypeInv
    <3>2. /\ job'[w] = j /\ \A v \in Worker : v # w => job'[v] = job[v]
          /\ owner' = owner
      BY <3>1, Accepted
    <3>3. ~Claims(w)'
      BY <3>2 DEF Claims, Is
    <3>4. QED BY <3>2, <3>3, <1>1
  <2>7. QED BY <1>3, <2>2, <2>3, <2>4, <2>5, <2>6, StepKinds
<1>4. CASE Align
  BY <1>2, <1>4, AlignSteps DEF Same
<1>5. CASE UNCHANGED vars
  BY <1>2, <1>5 DEF vars, rows
<1>6. QED BY <1>3, <1>4, <1>5 DEF Next

\* A quota is exceeded by less than one domain per worker.
THEOREM OvershootBounded == Spec => []LimitOvershoot
<1>1. LimitInv => LimitOvershoot
  <2> SUFFICES ASSUME LimitInv, NEW u \in User
               PROVE  Cardinality(Owned(u)) <= Limit[u] + Cardinality(Worker) - 1
    BY DEF LimitOvershoot
  <2>1. Cardinality(Owned(u)) + Cardinality(ClaimsOf(u)) <= Limit[u] + Cardinality(Worker) - 1
    BY DEF LimitInv
  <2>2. QED BY <2>1, Sizes
<1>2. QED BY <1>1, LimitInit, LimitStep, IInvInit, IInvStep, PTL DEF Spec

-----------------------------------------------------------------------------
(* Agreement: where requests on a name neither fail nor meet, what is stored, *)
(* the zone and the delegation follow the one request there is                *)

On(w, n) == ~At(w, "idle") /\ job[w].name = n
Settled(n) ==
  /\ n \in zones <=> owner[n] # Nobody
  /\ (deleg[n] # 0) <=> (owner[n] # Nobody /\ IsLocallyRegistrable(n))
  /\ n \in served <=> deleg[n] # 0
Block2 == {"parent", "drop"} \cup Dropped

\* How far a request has brought the name it is about.
Underway(j) ==
  /\ j.stage \in Block2 => IsLocallyRegistrable(j.name)
  /\ j.kind = "create" =>
       /\ j.stage # "erase" /\ j.pk # 0 /\ j.picked = 0 /\ deleg[j.name] = 0
       /\ owner[j.name] # Nobody <=> j.stage \in Block2
       /\ j.name \in zones <=> j.stage \notin {"insert", "zone"}
       /\ j.name \in served <=> j.stage = "commit2"
  /\ j.kind = "delete" =>
       /\ j.stage # "insert"
       /\ IF j.stage \in Block2 THEN owner[j.name] = Nobody
          ELSE owner[j.name] # Nobody /\ pk[j.name] = j.pk
       /\ j.name \in zones <=> j.stage \in {"erase", "zone"}
       /\ (deleg[j.name] # 0) <=> IsLocallyRegistrable(j.name)
       /\ j.name \in served <=> (IsLocallyRegistrable(j.name) /\ j.stage # "commit2")
       /\ j.stage \in {"drop"} \cup Dropped => j.picked = deleg[j.name]


\* Requests on one name at a time, unless the name is marked.
Overlap ==
  \A v, w \in Worker : v # w /\ ~At(w, "idle") /\ On(v, job[w].name) => job[w].name \in mixed
AgreeInv ==
  /\ Overlap
  /\ \A n \in Name \ (mixed \cup Local) :
       /\ ~Busy(n) => Settled(n)
       /\ \A w \in Worker : On(w, n) => Underway(job[w])

-----------------------------------------------------------------------------
(* Agreement: the steps                                                     *)

Elsewhere(n) ==
  \A m \in Name \ {n} :
    /\ owner'[m] = owner[m] /\ pk'[m] = pk[m] /\ deleg'[m] = deleg[m]
    /\ m \in zones' <=> m \in zones
    /\ m \in served' <=> m \in served

\* A request goes on, or ends, and changes no other name.
LEMMA AgreeMoves ==
  ASSUME IInv, AgreeInv, NEW w \in Worker, NEW n \in Name, On(w, n), NEW J \in JobType,
         job' = [job EXCEPT ![w] = J], J.stage = "idle" \/ J.name = n,
         mixed \subseteq mixed', Elsewhere(n),
         n \notin mixed' \cup Local => IF J.stage = "idle" THEN Settled(n)' ELSE Underway(J)'
  PROVE  AgreeInv'
<1>1. job \in [Worker -> JobType] /\ job[w].name = n /\ ~At(w, "idle")
  BY DEF IInv, TypeInv, On
<1>2. job'[w] = J /\ \A v \in Worker \ {w} : job'[v] = job[v]
  BY <1>1
<1>3. Overlap'
  BY <1>1, <1>2 DEF AgreeInv, Overlap, On, At
<1>4. ASSUME NEW m \in Name \ (mixed' \cup Local), ~Busy(m)' PROVE Settled(m)'
  <2>1. CASE m = n
    <3>1. J.stage = "idle"
      BY <1>2, <1>4, <2>1 DEF Busy, At
    <3> QED BY <1>4, <2>1, <3>1
  <2>2. CASE m # n
    <3>1. ~Busy(m)
      BY <1>1, <1>2, <1>4, <2>2 DEF Busy, At
    <3>2. Settled(m)
      BY <1>4, <3>1 DEF AgreeInv
    <3> QED BY <1>4, <2>2, <3>2 DEF Settled, Elsewhere
  <2> QED BY <2>1, <2>2
<1>5. ASSUME NEW m \in Name \ (mixed' \cup Local), NEW v \in Worker, On(v, m)'
      PROVE  Underway(job[v])'
  <2>1. CASE v = w
    <3>1. J.stage # "idle" /\ J.name = m /\ m = n
      BY <1>2, <1>5, <2>1 DEF On, At
    <3>2. Underway(J)'
      BY <1>5, <3>1
    <3> QED BY <1>2, <2>1, <3>2 DEF Underway
  <2>2. CASE v # w
    <3>1. On(v, m) /\ job'[v] = job[v]
      BY <1>2, <1>5, <2>2 DEF On, At
    <3>2. m # n
      BY <1>1, <1>5, <2>2, <3>1 DEF AgreeInv, Overlap
    <3>3. Underway(job[v]) /\ job[v].name = m
      BY <1>5, <3>1 DEF AgreeInv, On
    <3> QED BY <1>5, <3>1, <3>2, <3>3 DEF Underway, Elsewhere
  <2> QED BY <2>1, <2>2
<1> QED
  BY <1>3, <1>4, <1>5 DEF AgreeInv

\* A request begins.
LEMMA AgreeAccept ==
  ASSUME IInv, AgreeInv, NEW w \in Worker, At(w, "idle"), NEW J \in JobType,
         J.stage # "idle", Accept(w, J), Settled(J.name) => Underway(J)
  PROVE  AgreeInv'
<1> DEFINE n == J.name
<1>1. job \in [Worker -> JobType] /\ n \in Name
  BY DEF IInv, TypeInv, JobType
<1>2. /\ job' = [job EXCEPT ![w] = J] /\ mixed' = mixed \cup (IF Busy(n) THEN {n} ELSE {})
      /\ UNCHANGED <<rows, zones, served>>
  BY DEF Accept, pdns
<1>3. job'[w] = J /\ \A v \in Worker \ {w} : job'[v] = job[v]
  BY <1>1, <1>2
<1>4. \A v \in Worker \ {w} : \A m : On(v, m)' <=> On(v, m)
  BY <1>3 DEF On, At
<1>5. Busy(n) => n \in mixed'
  BY <1>2
<1>6. Overlap'
  <2> SUFFICES ASSUME NEW v \in Worker, NEW u \in Worker, v # u, ~At(u, "idle")',
                      On(v, job[u].name)'
               PROVE  job'[u].name \in mixed'
    BY DEF Overlap
  <2>1. CASE u = w
    <3>1. On(v, n) /\ job'[u].name = n
      BY <1>3, <2>1 DEF On, At
    <3> QED BY <1>5, <3>1 DEF On, Busy
  <2>2. CASE v = w
    <3>1. ~At(u, "idle") /\ job'[u].name = n /\ job[u].name = n
      BY <1>3, <2>2 DEF On, At
    <3> QED BY <1>5, <3>1 DEF Busy
  <2>3. CASE u # w /\ v # w
    BY <1>2, <1>3, <2>3 DEF AgreeInv, Overlap, On, At
  <2> QED BY <2>1, <2>2, <2>3
<1>7. ASSUME NEW m \in Name \ (mixed' \cup Local), ~Busy(m)' PROVE Settled(m)'
  <2>1. ~Busy(m)
    BY <1>3, <1>7 DEF Busy, At
  <2>2. Settled(m)
    BY <1>2, <1>7, <2>1 DEF AgreeInv
  <2> QED BY <1>2, <2>2 DEF Settled, rows
<1>8. ASSUME NEW m \in Name \ (mixed' \cup Local), NEW v \in Worker, On(v, m)'
      PROVE  Underway(job[v])'
  <2>1. CASE v = w
    <3>1. m = n /\ ~Busy(n)
      BY <1>3, <1>5, <1>8, <2>1 DEF On
    <3>2. Underway(J)
      BY <1>2, <1>8, <3>1 DEF AgreeInv
    <3> QED BY <1>2, <1>3, <2>1, <3>2 DEF Underway, rows
  <2>2. CASE v # w
    <3>1. Underway(job[v]) /\ job'[v] = job[v]
      BY <1>2, <1>3, <1>4, <1>8, <2>2 DEF AgreeInv
    <3> QED BY <1>2, <3>1 DEF Underway, rows
  <2> QED BY <2>1, <2>2
<1> QED
  BY <1>6, <1>7, <1>8 DEF AgreeInv

\* The two ways to apply AgreeMoves.
LEMMA AgreeGoto ==
  ASSUME IInv, AgreeInv, NEW w \in Worker, NEW n \in Name, On(w, n),
         NEW s \in Stage \ {"idle"}, Goto(w, s), mixed \subseteq mixed', Elsewhere(n),
         n \notin mixed' \cup Local /\ Underway(job[w]) =>
           \A J \in JobType :
             /\ J.stage = s /\ J.kind = job[w].kind /\ J.name = n
             /\ J.pk = job[w].pk /\ J.picked = job[w].picked /\ J.user = job[w].user
             => Underway(J)'
  PROVE  AgreeInv'
<1> DEFINE J == [job[w] EXCEPT !.stage = s]
<1>1. job[w] \in JobType
  BY DEF IInv, TypeInv
<1>2. /\ J \in JobType /\ J.stage = s /\ J.kind = job[w].kind /\ J.name = n
      /\ J.pk = job[w].pk /\ J.picked = job[w].picked /\ J.user = job[w].user
  BY <1>1 DEF JobType, On
<1>3. job' = [job EXCEPT ![w] = J]
  BY DEF Goto
<1>4. n \notin mixed' \cup Local => Underway(job[w])
  BY DEF AgreeInv
<1>5. PICK K \in JobType : K = J
  BY <1>2
<1> HIDE DEF J
<1>6. n \notin mixed' \cup Local => Underway(K)'
  BY <1>2, <1>4, <1>5
<1> QED
  BY <1>2, <1>3, <1>5, <1>6, AgreeMoves

LEMMA AgreeFinish ==
  ASSUME IInv, AgreeInv, NEW w \in Worker, NEW n \in Name, On(w, n), Finish(w),
         mixed \subseteq mixed', Elsewhere(n),
         n \notin mixed' \cup Local /\ Underway(job[w]) => Settled(n)'
  PROVE  AgreeInv'
<1>1. PICK K \in JobType : K = Idle
  BY IdleType
<1>2. K.stage = "idle" /\ job' = [job EXCEPT ![w] = K]
  BY <1>1 DEF Idle, Finish
<1>3. n \notin mixed' \cup Local => Underway(job[w])
  BY DEF AgreeInv
<1> QED
  BY <1>2, <1>3, AgreeMoves

\* Requests that begin.
LEMMA AgreeRequest ==
  ASSUME IInv, AgreeInv, NEW w \in Worker, NewRequest(w)
  PROVE  AgreeInv'
<1>1. num \in Nat /\ num + 1 \in 0 .. MaxRequests /\ num + 1 # 0
  BY LimitAssumption DEF IInv, TypeInv, NewRequest, Create, Delete, Free
<1>2. ASSUME NEW u \in User, NEW n \in Name, Create(w, u, n) PROVE AgreeInv'
  <2> DEFINE K == [stage |-> "insert", kind |-> "create", user |-> u, name |-> n,
                   pk |-> num + 1, picked |-> 0]
  <2>0. 0 \in 0 .. MaxRequests
    BY LimitAssumption
  <2>1. PICK J \in JobType : J = K
    BY <1>1, <2>0, Zenon DEF JobType, Stage
  <2>2. Accept(w, J) /\ At(w, "idle") /\ owner[n] = Nobody
    BY <1>2, <2>1 DEF Create, Free, Passes
  <2>3. J.stage = "insert" /\ J.kind = "create" /\ J.name = n /\ J.pk # 0 /\ J.picked = 0
    BY <1>1, <2>1
  <2>4. Settled(n) => Underway(J)
    BY <2>2, <2>3 DEF Settled, Underway, Block2, Dropped
  <2> QED BY <2>2, <2>3, <2>4, AgreeAccept
<1>3. ASSUME NEW u \in User, NEW n \in Name, Delete(w, u, n) PROVE AgreeInv'
  <2> DEFINE K == [stage |-> "erase", kind |-> "delete", user |-> u, name |-> n,
                   pk |-> pk[n], picked |-> 0]
  <2>0. pk[n] \in 0 .. MaxRequests /\ 0 \in 0 .. MaxRequests
    BY LimitAssumption DEF IInv, TypeInv
  <2>1. PICK J \in JobType : J = K
    BY <2>0 DEF JobType, Stage
  <2>2. Accept(w, J) /\ At(w, "idle") /\ owner[n] # Nobody
    BY <1>3, <2>1, UserAssumption DEF Delete, Free
  <2>3. J.stage = "erase" /\ J.kind = "delete" /\ J.name = n /\ J.pk = pk[n]
    BY <2>1
  <2>4. Settled(n) => Underway(J)
    BY <2>2, <2>3 DEF Settled, Underway, Block2, Dropped
  <2> QED BY <2>2, <2>3, <2>4, AgreeAccept
<1> QED
  BY <1>2, <1>3 DEF NewRequest

\* The first tracker block.
LEMMA AgreeBlock1 ==
  ASSUME IInv, AgreeInv, NEW w \in Worker,
         Insert(w) \/ BodyRaises(w) \/ Erase(w) \/ ChangeZone(w) \/ UpdateCatalog(w) \/ Commit(w)
  PROVE  AgreeInv'
<1>1. PICK n \in Name : n = job[w].name
  BY DEF IInv, TypeInv, JobType
<1>2. On(w, n)
  BY <1>1 DEF On, At, Insert, BodyRaises, Erase, ChangeZone, UpdateCatalog, Commit
<1>3. job[w] \in JobType
  BY DEF IInv, TypeInv
<1> USE DEF Stage, At, Is
<1>4. UNCHANGED <<rows, zones, served>> => Elsewhere(n)
  BY DEF rows, Elsewhere
<1>5. CASE Insert(w)
  <2>1. UNCHANGED <<rows, zones, served, mixed>> /\ job[w].stage = "insert"
    BY <1>5 DEF Insert, pdns, history
  <2>2. CASE owner[n] = Nobody
    <3>1. Goto(w, "zone")
      BY <1>1, <1>5, <2>2 DEF Insert
    <3> QED
      BY <1>1, <1>2, <1>4, <2>1, <3>1, AgreeGoto DEF Underway, rows, Block2, Dropped
  <2>3. CASE owner[n] # Nobody
    <3>1. Finish(w)
      BY <1>1, <1>5, <2>3 DEF Insert
    <3>2. ~Underway(job[w])
      BY <1>1, <1>3, <2>1, <2>3 DEF Underway, JobType, Block2, Dropped
    <3> QED
      BY <1>2, <1>4, <2>1, <3>1, <3>2, AgreeFinish
  <2> QED BY <2>2, <2>3
<1>6. CASE BodyRaises(w)
  <2>1. /\ UNCHANGED <<rows, zones, served, mixed>> /\ Finish(w)
        /\ job[w].stage = "zone" /\ job[w].kind = "create"
    BY <1>6 DEF BodyRaises, pdns, history
  <2>2. Underway(job[w]) => Settled(n)
    BY <1>1, <2>1 DEF Underway, Settled, Block2, Dropped
  <2>3. Underway(job[w]) => Settled(n)'
    BY <2>1, <2>2 DEF Settled, rows
  <2> QED
    BY <1>2, <1>4, <2>1, <2>3, AgreeFinish
<1>7. CASE Erase(w)
  <2>1. UNCHANGED <<rows, zones, served, mixed>> /\ job[w].stage = "erase" /\ Goto(w, "zone")
    BY <1>7 DEF Erase, pdns, history
  <2> QED
    BY <1>1, <1>2, <1>4, <2>1, AgreeGoto DEF Underway, rows, Block2, Dropped
<1>8. CASE ChangeZone(w)
  <2>1. /\ UNCHANGED <<rows, served, mixed>> /\ job[w].stage = "zone" /\ Goto(w, "catalog")
        /\ zones' = IF job[w].kind = "create" THEN zones \cup {n} ELSE zones \ {n}
    BY <1>1, <1>8 DEF ChangeZone, history
  <2>2. Elsewhere(n)
    BY <2>1 DEF Elsewhere, rows
  <2>3. job[w].kind \in {"create", "delete"}
    BY <1>3 DEF JobType
  <2> QED
    BY <1>1, <1>2, <2>1, <2>2, <2>3, AgreeGoto DEF Underway, rows, Block2, Dropped
<1>9. CASE UpdateCatalog(w)
  <2>1. UNCHANGED <<rows, zones, served, mixed>> /\ job[w].stage = "catalog" /\ Goto(w, "commit")
    BY <1>9 DEF UpdateCatalog
  <2> QED
    BY <1>1, <1>2, <1>4, <2>1, AgreeGoto DEF Underway, rows, Block2, Dropped
<1>10. CASE Commit(w)
  <2>1. /\ UNCHANGED <<deleg, zones, served, mixed>> /\ job[w].stage = "commit"
        /\ IF IsLocallyRegistrable(n) THEN Goto(w, "parent") ELSE Finish(w)
    BY <1>1, <1>10 DEF Commit, pdns, history
  <2>2. owner \in [Name -> User \cup {Operator, Nobody}] /\ pk \in [Name -> 0 .. MaxRequests]
    BY DEF IInv, TypeInv
  <2>3. Elsewhere(n)
    BY <1>1, <1>10, <2>1, <2>2 DEF Commit, Elsewhere
  <2>4. CASE job[w].kind = "create"
    <3>1. owner' = [owner EXCEPT ![n] = job[w].user]
      BY <1>1, <1>10, <2>4 DEF Commit
    <3>2. owner'[n] # Nobody
      BY <1>3, <2>2, <3>1, UserAssumption DEF JobType
    <3>3. IsLocallyRegistrable(n) => AgreeInv'
      BY <1>1, <1>2, <2>1, <2>3, <2>4, <3>2, AgreeGoto DEF Underway, Block2, Dropped
    <3>4. ~IsLocallyRegistrable(n) /\ Underway(job[w]) => Settled(n)'
      BY <1>1, <2>1, <2>4, <3>2 DEF Underway, Block2, Dropped, Settled
    <3> QED BY <1>2, <2>1, <2>3, <3>3, <3>4, AgreeFinish
  <2>5. CASE job[w].kind = "delete"
    <3>1. Underway(job[w]) => owner'[n] = Nobody
      <4>1. Underway(job[w]) => Exists(w)
        BY <1>1, <2>1, <2>5 DEF Underway, Exists, Block2, Dropped
      <4> QED BY <1>1, <1>10, <2>2, <2>5, <4>1 DEF Commit
    <3>2. IsLocallyRegistrable(n) => AgreeInv'
      BY <1>1, <1>2, <2>1, <2>3, <2>5, <3>1, AgreeGoto DEF Underway, Block2, Dropped
    <3>3. ~IsLocallyRegistrable(n) /\ Underway(job[w]) => Settled(n)'
      BY <1>1, <2>1, <2>5, <3>1 DEF Underway, Block2, Dropped, Settled
    <3> QED BY <1>2, <2>1, <2>3, <3>2, <3>3, AgreeFinish
  <2> QED BY <1>3, <2>4, <2>5 DEF JobType
<1> QED
  BY <1>5, <1>6, <1>7, <1>8, <1>9, <1>10

\* The second tracker block, and failures.
LEMMA AgreeBlock2 ==
  ASSUME IInv, AgreeInv, NEW w \in Worker,
         \/ FindParent(w) \/ DropDelegation(w) \/ FetchKeys(w) \/ InsertDelegation(w)
         \/ Patch(w) \/ Commit2(w) \/ Fails(w)
  PROVE  AgreeInv'
<1>1. PICK n \in Name : n = job[w].name
  BY DEF IInv, TypeInv, JobType
<1>2. On(w, n)
  BY <1>1 DEF On, At, FindParent, DropDelegation, FetchKeys, InsertDelegation, Patch,
              Commit2, Fails, InBlock1, Dropped
<1>3. job[w] \in JobType
  BY DEF IInv, TypeInv
<1> USE DEF Stage, At, Is
<1>4. UNCHANGED <<rows, zones, served>> => Elsewhere(n)
  BY DEF rows, Elsewhere
<1>5. deleg \in [Name -> 0 .. MaxRequests] /\ job[w].kind \in {"create", "delete"}
  BY <1>3 DEF IInv, TypeInv, JobType
<1>6. CASE FindParent(w)
  <2> DEFINE K == [job[w] EXCEPT !.stage = "drop", !.picked = deleg[n]]
  <2>1. /\ UNCHANGED <<rows, zones, served, mixed>> /\ job[w].stage = "parent"
        /\ job' = [job EXCEPT ![w].stage = "drop", ![w].picked = deleg[n]]
    BY <1>1, <1>6 DEF FindParent, pdns, history
  <2>2. job' = [job EXCEPT ![w] = K]
    BY <2>1 DEF IInv, TypeInv
  <2>3. PICK J \in JobType : J = K
    BY <1>3, <1>5 DEF JobType
  <2>4. /\ J.stage = "drop" /\ J.kind = job[w].kind /\ J.name = n /\ J.pk = job[w].pk
        /\ J.picked = deleg[n]
    BY <1>1, <1>3, <2>3 DEF JobType
  <2> HIDE DEF K
  <2>5. n \notin mixed \cup Local => Underway(job[w])
    BY <1>2 DEF AgreeInv
  <2>6. n \notin mixed' \cup Local => Underway(J)'
    BY <1>1, <1>5, <2>1, <2>4, <2>5 DEF Underway, rows, Block2, Dropped
  <2> QED BY <1>2, <1>4, <2>1, <2>2, <2>3, <2>4, <2>6, AgreeMoves
<1>7. CASE DropDelegation(w)
  <2>1. /\ UNCHANGED <<rows, zones, served, mixed>> /\ job[w].stage = "drop"
        /\ Goto(w, IF job[w].kind = "create" THEN "keys" ELSE "patch")
    BY <1>7 DEF DropDelegation, pdns, history
  <2>2. ASSUME NEW s \in {"keys", "patch"}, Goto(w, s) PROVE AgreeInv'
    BY <1>1, <1>2, <1>4, <2>1, <2>2, AgreeGoto DEF Underway, rows, Block2, Dropped
  <2> QED BY <2>1, <2>2
<1>8. CASE FetchKeys(w)
  <2>1. UNCHANGED <<rows, zones, served, mixed>> /\ job[w].stage = "keys" /\ Goto(w, "delegate")
    BY <1>8 DEF FetchKeys, pdns, history
  <2> QED BY <1>1, <1>2, <1>4, <2>1, AgreeGoto DEF Underway, rows, Block2, Dropped
<1>9. CASE InsertDelegation(w)
  <2>1. UNCHANGED <<rows, zones, served, mixed>> /\ job[w].stage = "delegate" /\ Goto(w, "patch")
    BY <1>9 DEF InsertDelegation, pdns, history
  <2> QED BY <1>1, <1>2, <1>4, <2>1, AgreeGoto DEF Underway, rows, Block2, Dropped
<1>10. CASE Patch(w)
  <2>1. /\ UNCHANGED <<rows, zones, mixed>> /\ job[w].stage = "patch" /\ Goto(w, "commit2")
        /\ served' = IF job[w].kind = "create" THEN served \cup {n}
                     ELSE IF job[w].picked # 0 THEN served \ {n} ELSE served
    BY <1>1, <1>5, <1>10 DEF Patch, history
  <2>2. Elsewhere(n)
    BY <2>1 DEF Elsewhere, rows
  <2> QED BY <1>1, <1>2, <1>5, <2>1, <2>2, AgreeGoto DEF Underway, rows, Block2, Dropped
<1>11. CASE Commit2(w)
  <2>1. /\ UNCHANGED <<owner, pk, zones, served, mixed>> /\ job[w].stage = "commit2" /\ Finish(w)
        /\ deleg' = [deleg EXCEPT ![n] =
             IF job[w].kind = "create" THEN job[w].pk
             ELSE IF deleg[n] = job[w].picked THEN 0 ELSE deleg[n]]
    BY <1>1, <1>5, <1>11 DEF Commit2, pdns, history
  <2>2. Elsewhere(n)
    BY <1>5, <2>1 DEF Elsewhere
  <2>3. Underway(job[w]) => Settled(n)'
    BY <1>1, <1>5, <2>1 DEF Underway, Settled, Block2, Dropped
  <2> QED BY <1>2, <2>1, <2>2, <2>3, AgreeFinish
<1>12. CASE Fails(w)
  <2>1. UNCHANGED <<rows, zones, served>> /\ Finish(w) /\ mixed' = mixed \cup {n}
    BY <1>1, <1>12 DEF Fails, pdns
  <2> QED BY <1>2, <1>4, <2>1, AgreeFinish
<1> QED
  BY <1>6, <1>7, <1>8, <1>9, <1>10, <1>11, <1>12

\* The domains there are at the start agree, except for the local public suffixes.
LEMMA AgreeInit == Init => AgreeInv
<1> SUFFICES ASSUME Init PROVE AgreeInv
  OBVIOUS
<1>1. \A w \in Worker : At(w, "idle")
  BY DEF Init, At, Idle
<1>2. \A n \in Name : Settled(n)
  BY DEF Init, Settled, Delegated
<1> QED
  BY <1>1, <1>2 DEF AgreeInv, Overlap, On

LEMMA AgreeStep == IInv /\ AgreeInv /\ [Next]_vars => AgreeInv'
<1> SUFFICES ASSUME IInv, AgreeInv, [Next]_vars PROVE AgreeInv'
  OBVIOUS
<1>1. CASE UNCHANGED <<rows, zones, served, job, mixed>>
  BY <1>1 DEF rows, AgreeInv, Overlap, On, At, Busy, Settled, Underway
<1>2. ASSUME NEW w \in Worker, NewRequest(w) PROVE AgreeInv'
  BY <1>2, AgreeRequest
<1>3. ASSUME NEW w \in Worker, Step(w) PROVE AgreeInv'
  BY <1>3, AgreeBlock1, AgreeBlock2 DEF Step
<1>4. CASE Align
  BY <1>1, <1>4 DEF Align, AlignFetch, AlignPurge, AlignCreate, AlignFails, pdns, history
<1> QED
  BY <1>1, <1>2, <1>3, <1>4 DEF Next, vars, pdns, history

LEMMA AlwaysAgreeInv == Spec => []AgreeInv
<1>1. IInv /\ AgreeInv /\ [Next]_vars => AgreeInv'
  BY AgreeStep
<1> QED BY <1>1, AgreeInit, Invariance, PTL DEF Spec

\* For any names, users and workers: a name on which no request failed or met
\* another one is stored iff its zone exists, and delegated, in the database and on
\* pdns, iff it is stored below a local public suffix, whenever no request is at it.
THEOREM LifecycleAgrees == Spec => []Agreement
<1>1. AgreeInv => Agreement
  BY DEF AgreeInv, Agreement, Settled
<1> QED BY <1>1, AlwaysAgreeInv, PTL

-----------------------------------------------------------------------------
(* The catalog zone                                                         *)

AtCatalog(n) == {w \in Worker : At(w, "catalog") /\ job[w].name = n}

\* A request that is about to write the entry of a name, and no other is, has changed
\* its zone last; the entries that nobody is about to write are right, and so
\* are the zones that align-catalog-zone has read, unless marked.
LastChange(w) ==
  LET n == job[w].name IN
  At(w, "catalog") /\ n \notin mixed \cap lagging /\ AtCatalog(n) = {w}
    => (n \in zones <=> Is(w, "create"))
CatalogInv ==
  /\ \A w \in Worker : LastChange(w)
  /\ there => \A n \in Name \ lagging : AtCatalog(n) = {} => (n \in catalog <=> n \in zones)
  /\ align.stage # "idle" =>
       \A n \in Name \ align.missed : AtCatalog(n) = {} => (n \in align.zones <=> n \in zones)

LEMMA CatalogInit == Init => CatalogInv
  BY DEF Init, CatalogInv, LastChange, At, Idle, AlignIdle

\* Steps that do not concern the catalog zone.
LEMMA CatalogKept ==
  ASSUME CatalogInv, UNCHANGED <<zones, catalog, there, lagging>>, mixed \subseteq mixed',
         align'.stage = align.stage, align'.zones = align.zones,
         align.missed \subseteq align'.missed,
         \A v \in Worker : IF At(v, "catalog") THEN job'[v] = job[v] ELSE ~At(v, "catalog")'
  PROVE  CatalogInv'
<1>1. \A n : AtCatalog(n)' = AtCatalog(n)
  BY DEF AtCatalog, At
<1>2. ASSUME NEW w \in Worker PROVE LastChange(w)'
  <2>1. LastChange(w)
    BY DEF CatalogInv
  <2>2. CASE At(w, "catalog")
    BY <1>1, <2>1, <2>2 DEF LastChange, At, Is
  <2>3. CASE ~At(w, "catalog")
    BY <2>3 DEF LastChange
  <2> QED BY <2>2, <2>3
<1> QED
  BY <1>1, <1>2 DEF CatalogInv

\* What the steps of one request do to the set of those about to write an entry.
LEMMA CatalogSets ==
  ASSUME IInv, NEW w \in Worker, NEW n \in Name, n = job[w].name,
         \A v \in Worker \ {w} : job'[v] = job[v]
  PROVE  /\ \A m : m # n /\ (~At(w, "catalog")' \/ job'[w].name = n)
              => AtCatalog(m)' = AtCatalog(m)
         /\ \A v \in Worker \ {w} : /\ At(v, "catalog")' <=> At(v, "catalog")
                                    /\ Is(v, "create")' <=> Is(v, "create")
         /\ ~At(w, "catalog")' => AtCatalog(n)' = AtCatalog(n) \ {w}
  BY DEF AtCatalog, At, Is

LEMMA CatalogZone ==
  ASSUME IInv, CatalogInv, NEW w \in Worker, ChangeZone(w)
  PROVE  CatalogInv'
<1>1. PICK n \in Name : n = job[w].name
  BY DEF IInv, TypeInv, JobType
<1>2. job[w] \in JobType /\ job \in [Worker -> JobType]
  BY DEF IInv, TypeInv
<1>3. /\ \A v \in Worker \ {w} : job'[v] = job[v]
      /\ At(w, "catalog")' /\ job'[w].name = n /\ (Is(w, "create")' <=> Is(w, "create"))
  BY <1>1, <1>2 DEF ChangeZone, Goto, At, Is, JobType
<1>4. /\ UNCHANGED <<catalog, there, align, mixed, lagging>>
      /\ zones' = IF Is(w, "create") THEN zones \cup {n} ELSE zones \ {n}
  BY <1>1 DEF ChangeZone, history
<1>5. w \in AtCatalog(n)'
  BY <1>3 DEF AtCatalog
<1>6. \A m \in Name \ {n} : AtCatalog(m)' = AtCatalog(m) /\ (m \in zones' <=> m \in zones)
  BY <1>1, <1>3, <1>4, CatalogSets
<1>7. ASSUME NEW v \in Worker PROVE LastChange(v)'
  <2>1. CASE v = w
    BY <1>3, <1>4, <2>1 DEF LastChange
  <2>2. CASE v # w /\ job[v].name = n
    BY <1>3, <1>5, <2>2 DEF LastChange
  <2>3. CASE v # w /\ job[v].name # n
    <3>1. LastChange(v) /\ job'[v] = job[v] /\ job[v].name \in Name
      BY <1>3, <2>3 DEF CatalogInv, IInv, TypeInv, JobType
    <3> QED BY <1>4, <1>6, <2>3, <3>1 DEF LastChange, At, Is
  <2> QED BY <2>1, <2>2, <2>3
<1>8. \A m \in Name : AtCatalog(m)' = {} => m # n
  BY <1>5
<1> QED
  BY <1>4, <1>6, <1>7, <1>8 DEF CatalogInv

\* The entry is written, or the request to pdns fails and the name is marked.
LEMMA CatalogEntry ==
  ASSUME IInv, Overlap, CatalogInv, NEW w \in Worker,
         UpdateCatalog(w) \/ (Fails(w) /\ At(w, "catalog"))
  PROVE  CatalogInv'
<1>1. PICK n \in Name : n = job[w].name
  BY DEF IInv, TypeInv, JobType
<1>2. job[w] \in JobType /\ job \in [Worker -> JobType] /\ Idle.stage = "idle"
  BY DEF IInv, TypeInv, Idle
<1>3. /\ \A v \in Worker \ {w} : job'[v] = job[v]
      /\ At(w, "catalog") /\ ~At(w, "catalog")'
  BY <1>2 DEF UpdateCatalog, Fails, Goto, Finish, At, JobType
<1>4. /\ UNCHANGED <<zones, there>> /\ mixed \subseteq mixed'
      /\ align'.stage = align.stage /\ align'.zones = align.zones
      /\ align.missed \subseteq align'.missed
      /\ align.stage # "idle" => n \in align'.missed
  BY <1>1 DEF UpdateCatalog, Fails, NoteMissed, pdns, IInv, TypeInv
<1>5. \A m \in Name \ {n} : m \in catalog' <=> m \in catalog
  BY <1>1 DEF UpdateCatalog, Fails, pdns
<1>6. lagging \subseteq lagging' /\ lagging' \subseteq lagging \cup {n}
  BY <1>1 DEF UpdateCatalog, Fails, Others
<1>7. \A m \in Name \ {n} : AtCatalog(m)' = AtCatalog(m)
  BY <1>1, <1>3, CatalogSets
<1>8. AtCatalog(n)' = AtCatalog(n) \ {w}
  BY <1>1, <1>3, CatalogSets
<1>9. ASSUME AtCatalog(n)' # {} PROVE n \in mixed' \cap lagging'
  <2>1. PICK v \in Worker : v # w /\ At(v, "catalog") /\ job[v].name = n
    BY <1>8, <1>9 DEF AtCatalog
  <2>2. v \in Others(w)
    BY <1>1, <2>1 DEF Others, At
  <2>3. n \in lagging'
    BY <1>1, <1>3, <2>1, <2>2 DEF UpdateCatalog, Fails
  <2>4. n \in mixed
    BY <1>1, <1>3, <2>1 DEF Overlap, On, At
  <2> QED BY <1>4, <2>3, <2>4
<1>10. ASSUME NEW v \in Worker PROVE LastChange(v)'
  <2>1. CASE v = w
    BY <1>3, <2>1 DEF LastChange
  <2>2. CASE v # w /\ job[v].name = n
    BY <1>3, <1>9, <2>2 DEF LastChange
  <2>3. CASE v # w /\ job[v].name # n
    <3>1. LastChange(v) /\ job'[v] = job[v] /\ job[v].name \in Name
      BY <1>3, <2>3 DEF CatalogInv, IInv, TypeInv, JobType
    <3> QED BY <1>4, <1>6, <1>7, <2>3, <3>1 DEF LastChange, At, Is
  <2> QED BY <2>1, <2>2, <2>3
<1>11. ASSUME n \notin lagging', AtCatalog(n)' = {} PROVE n \in catalog' <=> n \in zones'
  <2>1. UpdateCatalog(w)
    BY <1>1, <1>3, <1>11 DEF Fails
  <2>2. AtCatalog(n) = {w}
    BY <1>1, <1>3, <1>8, <1>11 DEF AtCatalog
  <2>3. n \in zones <=> Is(w, "create")
    BY <1>1, <1>3, <1>6, <1>11, <2>2 DEF CatalogInv, LastChange
  <2> QED BY <1>1, <1>4, <2>1, <2>3 DEF UpdateCatalog
<1>12. there' => \A m \in Name \ lagging' :
                   AtCatalog(m)' = {} => (m \in catalog' <=> m \in zones')
  BY <1>4, <1>5, <1>6, <1>7, <1>11 DEF CatalogInv
<1>13. align'.stage # "idle" => \A m \in Name \ align'.missed :
                   AtCatalog(m)' = {} => (m \in align'.zones <=> m \in zones')
  BY <1>4, <1>7 DEF CatalogInv
<1> QED
  BY <1>10, <1>12, <1>13 DEF CatalogInv

\* Every other step of a request leaves the entries to those that are about to write.
LEMMA CatalogOther ==
  ASSUME IInv, CatalogInv, NEW w \in Worker,
         \/ NewRequest(w) \/ Insert(w) \/ BodyRaises(w) \/ Erase(w) \/ Commit(w)
         \/ FindParent(w) \/ DropDelegation(w) \/ FetchKeys(w) \/ InsertDelegation(w)
         \/ Patch(w) \/ Commit2(w) \/ (Fails(w) /\ ~At(w, "catalog"))
  PROVE  CatalogInv'
<1>1. job[w] \in JobType /\ job \in [Worker -> JobType]
  BY DEF IInv, TypeInv
<1>2. /\ \A v \in Worker \ {w} : job'[v] = job[v]
      /\ ~At(w, "catalog") /\ ~At(w, "catalog")'
  <2>1. ASSUME NEW s \in Stage \ {"catalog"}, Goto(w, s), ~At(w, "catalog") PROVE <1>2
    BY <1>1, <2>1 DEF Goto, At, JobType
  <2>2. ASSUME Finish(w), ~At(w, "catalog") PROVE <1>2
    BY <1>1, <2>2 DEF Finish, Idle, At
  <2>3. CASE NewRequest(w)
    BY <1>1, <2>3 DEF NewRequest, Create, Delete, Free, Accept, At
  <2>4. CASE FindParent(w)
    BY <1>1, <2>4 DEF FindParent, At, JobType
  <2>5. CASE \/ Insert(w) \/ BodyRaises(w) \/ Erase(w) \/ Commit(w)
    BY <2>1, <2>2, <2>5 DEF Insert, BodyRaises, Erase, Commit, At, Stage
  <2>6. CASE \/ DropDelegation(w) \/ FetchKeys(w) \/ InsertDelegation(w) \/ Patch(w)
             \/ Commit2(w) \/ (Fails(w) /\ ~At(w, "catalog"))
    BY <2>1, <2>2, <2>6
       DEF DropDelegation, FetchKeys, InsertDelegation, Patch, Commit2, Fails, At, Stage
  <2> QED BY <2>3, <2>4, <2>5, <2>6
<1>3. \A v \in Worker : IF At(v, "catalog") THEN job'[v] = job[v] ELSE ~At(v, "catalog")'
  BY <1>2 DEF At
<1>4. /\ UNCHANGED <<zones, catalog, there>> /\ mixed \subseteq mixed'
      /\ align'.stage = align.stage /\ align'.zones = align.zones
      /\ align.missed \subseteq align'.missed
  <2>1. CASE Fails(w)
    BY <2>1 DEF Fails, pdns, NoteMissed, IInv, TypeInv
  <2>2. CASE NewRequest(w)
    BY <2>2 DEF NewRequest, Create, Delete, Accept, pdns
  <2>3. CASE ~Fails(w) /\ ~NewRequest(w)
    BY <2>3 DEF Insert, BodyRaises, Erase, Commit, FindParent, DropDelegation, FetchKeys,
                InsertDelegation, Patch, Commit2, pdns, history
  <2> QED BY <2>1, <2>2, <2>3
<1>5. lagging' = lagging
  BY <1>2 DEF NewRequest, Create, Delete, Accept, Fails, Insert, BodyRaises, Erase, Commit,
              FindParent, DropDelegation, FetchKeys, InsertDelegation, Patch, Commit2, history
<1> QED
  BY <1>3, <1>4, <1>5, CatalogKept

\* align-catalog-zone writes what it has read, and marks what has changed since.
LEMMA CatalogAlign ==
  ASSUME IInv, CatalogInv, Align
  PROVE  CatalogInv'
<1>1. UNCHANGED <<zones, mixed, job>>
  BY DEF Align, AlignFetch, AlignPurge, AlignCreate, AlignFails, pdns, history
<1>2. \A n : AtCatalog(n)' = AtCatalog(n)
  BY <1>1 DEF AtCatalog, At
<1>3. AlignIdle.stage = "idle"
  BY DEF AlignIdle
<1>4. CASE AlignFetch
  BY <1>1, <1>2, <1>4 DEF AlignFetch, CatalogInv, LastChange, At, Is, pdns, history
<1>5. CASE AlignPurge
  <2>1. align'.stage # "idle" /\ align'.zones = align.zones /\ align'.missed = align.missed
        /\ align.stage # "idle" /\ ~there' /\ lagging' = lagging
    BY <1>5 DEF AlignPurge, history, IInv, TypeInv
  <2> QED BY <1>1, <1>2, <2>1 DEF CatalogInv, LastChange, At, Is
<1>6. CASE AlignCreate
  <2>1. /\ there' = TRUE /\ catalog' = align.zones /\ align' = AlignIdle
        /\ lagging' = align.missed \cup {job[w].name : w \in Overlapped}
        /\ align.stage # "idle"
    BY <1>6 DEF AlignCreate
  <2>2. ASSUME NEW w \in Worker PROVE LastChange(w)'
    <3> DEFINE n == job[w].name
    <3> SUFFICES ASSUME At(w, "catalog"), n \notin mixed \cap lagging', AtCatalog(n) = {w}
                 PROVE  n \in zones <=> Is(w, "create")
      BY <1>1, <1>2 DEF LastChange, At, Is
    <3>1. n \notin mixed
      BY <2>1 DEF Overlapped
    <3> QED BY <3>1 DEF CatalogInv, LastChange
  <2>3. \A n \in Name \ lagging' : AtCatalog(n) = {} => (n \in catalog' <=> n \in zones)
    BY <2>1 DEF CatalogInv
  <2> QED BY <1>1, <1>2, <1>3, <2>1, <2>2, <2>3 DEF CatalogInv
<1>7. CASE AlignFails
  BY <1>1, <1>2, <1>3, <1>7 DEF AlignFails, CatalogInv, LastChange, At, Is, pdns, history
<1> QED
  BY <1>4, <1>5, <1>6, <1>7 DEF Align

LEMMA CatalogStep == IInv /\ Overlap /\ CatalogInv /\ [Next]_vars => CatalogInv'
<1> SUFFICES ASSUME IInv, Overlap, CatalogInv, [Next]_vars PROVE CatalogInv'
  OBVIOUS
<1>1. CASE UNCHANGED vars
  BY <1>1, CatalogKept DEF vars, pdns, history, At
<1>2. ASSUME NEW w \in Worker, NewRequest(w) \/ Step(w) PROVE CatalogInv'
  <2>1. CASE ChangeZone(w)
    BY <2>1, CatalogZone
  <2>2. CASE UpdateCatalog(w) \/ (Fails(w) /\ At(w, "catalog"))
    BY <2>2, CatalogEntry
  <2> QED BY <1>2, <2>1, <2>2, CatalogOther DEF Step
<1>3. CASE Align
  BY <1>3, CatalogAlign
<1> QED
  BY <1>1, <1>2, <1>3 DEF Next

\* Whatever requests and align-catalog-zone do to the catalog zone at the same time:
\* while it exists, the entries that nobody is about to write are those of the zones
\* there are, except for names that are marked as lagging.
THEOREM CatalogFollowsZones == Spec => []CatalogAgrees
<1>1. IInv /\ AgreeInv /\ CatalogInv /\ [Next]_vars => CatalogInv'
  BY CatalogStep DEF AgreeInv
<1>2. CatalogInv => CatalogAgrees
  BY DEF CatalogInv, CatalogAgrees, AtCatalog
<1> QED BY <1>1, <1>2, CatalogInit, Invariance, AlwaysAgreeInv, PTL DEF Spec
=============================================================================
