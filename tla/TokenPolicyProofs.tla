-------------------------- MODULE TokenPolicyProofs --------------------------
(***************************************************************************)
(* Proofs about TokenPolicy: what the decisions mean, for every set of      *)
(* policies; that the deferred triggers keep the default policy (KeptInv);  *)
(* and, from the rows that the open transactions hold (PolicyInv), that     *)
(* policies stay unique, that auto_policy keeps its default policy          *)
(* restrictive, and what a domain created under it gives the token.         *)
(***************************************************************************)
EXTENDS TokenPolicy, TLAPS

-----------------------------------------------------------------------------
(* Decisions                                                                *)

\* For policies that match one RRset, "first in the order" is "least priority".
LEMMA BeforeIsPriority ==
  ASSUME NEW p \in Policy, NEW q \in Policy, NEW r \in RRset,
         Matches(p, r), Matches(q, r)
  PROVE  Before(q, p) <=> ~(Priority(p) <= Priority(q))
<1>1. r.domain # Null /\ r.subname # Null /\ r.type # Null
  BY NullAssumption DEF RRset
<1> QED
  BY <1>1 DEF Matches, Before, NullLast, Priority

\* Hence get_policy returns the policy of least priority number.
LEMMA PolicyByPriority ==
  ASSUME NEW P \in SUBSET Policy, NEW r \in RRset
  PROVE  GetPolicy(P, r) = ByPriority(P, r)
  BY BeforeIsPriority DEF GetPolicy, ByPriority

\* A policy of the domain shadows every policy without a domain.
LEMMA SafeDeletionRule ==
  ASSUME NEW P \in SUBSET Policy, NEW d \in Domain, CanSafelyDelete(P, d),
         NEW r \in RRset, r.domain = d
  PROVE  MayWrite(P, r)
<1> SUFFICES ASSUME NEW p \in GetPolicy(P, r) PROVE p.perm
  BY DEF MayWrite
<1>1. /\ p \in P /\ Matches(p, r)
      /\ \A q \in P : Matches(q, r) => ~Before(q, p)
  BY DEF GetPolicy
<1>2. d # Null
  BY NullAssumption
<1>3. CASE p.key.domain = d
  BY <1>1, <1>3 DEF CanSafelyDelete, Of
<1>4. CASE p.key.domain # d
  <2>1. p.key.domain = Null
    BY <1>1, <1>4 DEF Matches
  <2>2. ASSUME NEW q \in P, q.key = WholeDomain(d) PROVE FALSE
    <3>1. Matches(q, r)
      BY <2>2 DEF WholeDomain, Matches
    <3>2. Before(q, p)
      BY <1>2, <2>1, <2>2 DEF WholeDomain, Before, NullLast
    <3> QED
      BY <1>1, <3>1, <3>2
  <2> QED
    BY <1>1, <2>1, <2>2 DEF CanSafelyDelete, Of
<1> QED
  BY <1>3, <1>4

-----------------------------------------------------------------------------
(* The inductive invariant: what the open transaction of a request removes,  *)
(* and that a request whose triggers passed on the committed rows keeps the  *)
(* default policy when it commits                                            *)

JobRows(j) == (policies \ j.gone) \cup j.ins
JobAuto(j) == IF j.kind = "saveToken" THEN j.auto ELSE auto
KeepsDefault(j) == JobRows(j) # {} \/ JobAuto(j) => HasDefault(JobRows(j))

\* A request to write a policy has one until it is written; only the deletion or
\* the update of a policy, and the deletion of its domain, remove rows.
JobOK(j) ==
  /\ j.kind \in {"create", "update"} /\ j.pc \in {"clean", "write"} => j.row \in Policy
  /\ j.kind \in {"createDomain", "deleteDomain"} => j.dom \in Domain
  /\ j.kind = "deleteDomain" => \A p \in j.gone : p.key.domain = j.dom
  /\ j.kind \in {"create", "saveToken", "touch", "createDomain"} => j.gone = {}
  /\ j.kind = "update" /\ j.ins = {} => j.gone = {}

KeptInv ==
  /\ Types /\ DefaultKept
  /\ \A w \in Worker : Busy(w) =>
       /\ JobOK(job[w])
       /\ At(w, "commit") /\ job[w].sound => KeepsDefault(job[w])

\* A worker that is at a step has a request.
LEMMA BusyJob ==
  ASSUME Types, NEW w \in Worker
  PROVE  /\ Busy(w) => job[w] \in Job
         /\ \A s \in Step : At(w, s) => Busy(w)
  BY DEF Types, Busy, At, Idle, Step

\* Primary keys are drawn from Id.
LEMMA NewIdType ==
  ASSUME IdLeft PROVE NewId \in Id
  BY DEF IdLeft, NewId

\* A token is created with the default policy that auto_policy requires.
LEMMA KeptInit == Init => KeptInv
<1> SUFFICES ASSUME Init PROVE KeptInv
  OBVIOUS
<1>1. FirstId \in Id
  BY IdAssumption DEF FirstId
<1>2. Default \in Coordinates
  BY DEF Default, Coordinates
<1>3. [id |-> FirstId, key |-> Default, perm |-> FALSE] \in Policy
  BY <1>1, <1>2 DEF Policy
<1>4. Types
  BY <1>3 DEF Init, Types
<1>5. DefaultKept
  <2>1. CASE auto
    <3>1. policies = {[id |-> FirstId, key |-> Default, perm |-> FALSE]}
      BY <2>1 DEF Init
    <3>2. [id |-> FirstId, key |-> Default, perm |-> FALSE] \in Defaults(policies)
      BY <3>1 DEF Defaults
    <3>3. HasDefault(policies)
      BY <3>2 DEF HasDefault
    <3> QED
      BY <3>3 DEF DefaultKept
  <2>2. CASE ~auto
    BY <2>2 DEF Init, DefaultKept
  <2> QED
    BY <2>1, <2>2
<1>6. \A w \in Worker : ~Busy(w)
  BY DEF Init, Busy, Idle
<1> QED
  BY <1>4, <1>5, <1>6 DEF Init, KeptInv, Busy, Idle

\* A step that moves one request on and commits nothing.
LEMMA JobStep ==
  ASSUME KeptInv, NEW w \in Worker, NEW J \in Job, JobOK(J),
         J.pc = "commit" /\ J.sound => KeepsDefault(J),
         job' = [job EXCEPT ![w] = J], UNCHANGED committed
  PROVE  KeptInv'
<1>1. Types'
  BY DEF KeptInv, Types, committed
<1>2. DefaultKept'
  BY DEF KeptInv, DefaultKept, committed
<1>3. ASSUME NEW v \in Worker, Busy(v)'
      PROVE  (/\ JobOK(job[v])
              /\ At(v, "commit") /\ job[v].sound => KeepsDefault(job[v]))'
  <2>1. job' \in [Worker -> Job \cup {Idle}]
    BY <1>1 DEF Types
  <2>2. CASE v = w
    <3>1. job'[v] = J
      BY <2>2 DEF KeptInv, Types
    <3> QED
      BY <3>1 DEF committed, KeepsDefault, JobRows, JobAuto, HasDefault, JobOK, At
  <2>3. CASE v # w
    <3>1. job'[v] = job[v]
      BY <2>3 DEF KeptInv, Types
    <3>2. Busy(v)
      BY <1>3, <3>1 DEF Busy
    <3> QED
      BY <3>1, <3>2 DEF KeptInv, committed, KeepsDefault, JobRows, JobAuto, HasDefault,
                        JobOK, At
  <2> QED
    BY <2>2, <2>3
<1> QED
  BY <1>1, <1>2, <1>3 DEF KeptInv

\* A rollback leaves the committed rows alone.
LEMMA RollbackStep ==
  ASSUME KeptInv, NEW w \in Worker, Rollback(w), UNCHANGED committed
  PROVE  KeptInv'
<1>1. Types'
  BY DEF KeptInv, Types, committed, Rollback
<1>2. DefaultKept'
  BY DEF KeptInv, DefaultKept, committed
<1>3. ASSUME NEW v \in Worker, Busy(v)'
      PROVE  job'[v] = job[v] /\ Busy(v)
  BY <1>3 DEF KeptInv, Types, Rollback, Busy, Idle
<1> QED
  BY <1>1, <1>2, <1>3 DEF KeptInv, committed, At, JobOK, KeepsDefault, JobRows,
                          JobAuto, HasDefault

\* A step that only moves the request to another step, before its triggers pass.
LEMMA GotoStep ==
  ASSUME KeptInv, NEW w \in Worker, NEW s \in Step \ {"clean", "commit"}, Busy(w),
         s = "write" => At(w, "clean"), Goto(w, s), UNCHANGED committed
  PROVE  KeptInv'
<1> DEFINE J == [job[w] EXCEPT !.pc = s]
<1>1. job[w] \in Job
  BY BusyJob DEF KeptInv
<1>2. J \in Job /\ J.pc = s
  BY <1>1 DEF Job
<1>3. /\ J.kind = job[w].kind /\ J.dom = job[w].dom /\ J.row = job[w].row
      /\ J.gone = job[w].gone /\ J.ins = job[w].ins
  BY <1>1 DEF Job
<1>4. JobOK(J)
  BY <1>2, <1>3 DEF KeptInv, JobOK, At
<1>5. job' = [job EXCEPT ![w] = J]
  BY DEF Goto
<1> QED
  BY <1>2, <1>4, <1>5, JobStep

\* A request begins with nothing removed or inserted.
LEMMA AcceptStep ==
  ASSUME KeptInv, NEW w \in Worker, NEW s \in {"clean", "write"}, NEW k \in Kind,
         NEW row \in Policy \cup {Null}, NEW flag \in BOOLEAN, NEW d \in Domain \cup {Null},
         k \in {"createDomain", "deleteDomain"} => d \in Domain,
         k \in {"create", "update"} => row \in Policy, Accept(w, s, k, row, flag, d)
  PROVE  KeptInv'
<1> DEFINE J == [pc |-> s, kind |-> k, row |-> row, auto |-> flag, dom |-> d,
                 gone |-> {}, ins |-> {}, fresh |-> ~outdated, sound |-> FALSE]
<1>1. J \in Job
  BY DEF KeptInv, Types, Job, Step
<1>2. JobOK(J) /\ J.pc # "commit"
  BY DEF JobOK
<1>3. job' = [job EXCEPT ![w] = J] /\ UNCHANGED committed
  BY DEF Accept
<1> QED
  BY <1>1, <1>2, <1>3, JobStep

\* An INSERT or UPDATE: what it removes, if anything, is the row it replaces.
LEMMA PutStep ==
  ASSUME KeptInv, NEW w \in Worker, Busy(w), NEW old \in SUBSET Policy, NEW row \in Policy,
         job[w].kind # "deleteDomain", job[w].kind \in {"update", "delete"} \/ old = {},
         Put(w, old, row)
  PROVE  KeptInv'
<1>1. UNCHANGED committed
  BY DEF Put
<1>2. CASE Rollback(w)
  BY <1>1, <1>2, RollbackStep
<1>3. CASE ~Rollback(w)
  <2> DEFINE J == [job[w] EXCEPT !.gone = old, !.ins = {row}, !.row = Null, !.pc = "check"]
  <2>1. job[w] \in Job
    BY BusyJob DEF KeptInv
  <2>2. J \in Job /\ J.pc = "check"
    BY <2>1 DEF Job, Step
  <2>3. J.kind = job[w].kind /\ J.dom = job[w].dom /\ J.gone = old /\ J.ins = {row}
    BY <2>1 DEF Job
  <2>4. JobOK(J)
    BY <2>2, <2>3 DEF KeptInv, JobOK
  <2>5. job' = [job EXCEPT ![w] = J]
    BY <1>3 DEF Put
  <2> QED
    BY <1>1, <2>2, <2>4, <2>5, JobStep
<1> QED
  BY <1>2, <1>3

-----------------------------------------------------------------------------
(* One lemma per group of actions                                           *)

\* Requests that begin.
LEMMA RequestStep ==
  ASSUME KeptInv, NEW w \in Worker, Request(w)
  PROVE  KeptInv'
<1> USE DEF Kind
<1>1. ASSUME NEW k \in Pattern, NEW b \in BOOLEAN, CreatePolicy(w, k, b)
      PROVE  KeptInv'
  <2>1. [id |-> NewId, key |-> k, perm |-> b] \in Policy
    BY <1>1, NewIdType, PatternAssumption DEF CreatePolicy, Policy
  <2> QED
    BY <1>1, <2>1, AcceptStep DEF CreatePolicy
<1>2. ASSUME NEW p \in policies, NEW k \in Pattern, NEW b \in BOOLEAN, UpdatePolicy(w, p, k, b)
      PROVE  KeptInv'
  <2>1. [id |-> p.id, key |-> k, perm |-> b] \in Policy
    BY PatternAssumption DEF KeptInv, Types, Policy
  <2>2. auto \in BOOLEAN
    BY DEF KeptInv, Types
  <2> QED
    BY <1>2, <2>1, <2>2, AcceptStep DEF UpdatePolicy
<1>3. ASSUME NEW p \in policies, DeletePolicy(w, p)
      PROVE  KeptInv'
  <2>1. p \in Policy /\ auto \in BOOLEAN
    BY DEF KeptInv, Types
  <2> QED
    BY <1>3, <2>1, AcceptStep DEF DeletePolicy
<1>4. ASSUME NEW b \in BOOLEAN, SaveToken(w, b)
      PROVE  KeptInv'
  BY <1>4, AcceptStep DEF SaveToken
<1>5. CASE Touch(w)
  <2>1. auto \in BOOLEAN
    BY DEF KeptInv, Types
  <2> QED
    BY <1>5, <2>1, AcceptStep DEF Touch
<1>6. ASSUME NEW d \in Domain, NEW own \in BOOLEAN, CreateDomain(w, d, own)
      PROVE  KeptInv'
  <2>1. (own /\ auto) \in BOOLEAN
    OBVIOUS
  <2> QED
    BY <1>6, <2>1, AcceptStep DEF CreateDomain
<1>7. ASSUME NEW d \in Domain, NEW own \in BOOLEAN, DeleteDomain(w, d, own)
      PROVE  KeptInv'
  BY <1>7, AcceptStep DEF DeleteDomain
<1> QED
  BY <1>1, <1>2, <1>3, <1>4, <1>5, <1>6, <1>7 DEF Request

\* Validation and statements of an open transaction.
LEMMA StatementStep ==
  ASSUME KeptInv, NEW w \in Worker, Statement(w)
  PROVE  KeptInv'
<1> USE DEF Step
<1>1. \A s \in Step : At(w, s) => Busy(w)
  BY BusyJob DEF KeptInv
<1>2. Busy(w) => job[w] \in Job
  BY BusyJob DEF KeptInv
<1>3. policies \in SUBSET Policy
  BY DEF KeptInv, Types
<1>4. CASE Clean(w)
  BY <1>1, <1>4, RollbackStep, GotoStep DEF Clean
<1>5. CASE InsertPolicy(w)
  <2>1. job[w].row \in Policy
    BY <1>5 DEF InsertPolicy, OfKind, KeptInv, JobOK, At
  <2> QED
    BY <1>5, <2>1, PutStep DEF InsertPolicy, OfKind
<1>6. CASE SavePolicy(w)
  <2>1. job[w].row \in Policy
    BY <1>6 DEF SavePolicy, OfKind, KeptInv, JobOK, At
  <2>2. Stored(w) \in SUBSET Policy
    BY <1>3 DEF Stored
  <2> QED
    BY <1>6, <2>1, <2>2, PutStep DEF SavePolicy, OfKind
<1>7. CASE RemovePolicy(w)
  <2> DEFINE J == [job[w] EXCEPT !.gone = Stored(w), !.row = Null, !.pc = "check"]
  <2>1. job[w] \in Job /\ job[w].kind = "delete"
    BY <1>2, <1>7 DEF RemovePolicy, OfKind
  <2>2. Stored(w) \in SUBSET Policy
    BY <1>3 DEF Stored
  <2>3. J \in Job /\ J.pc = "check" /\ J.kind = "delete"
    BY <2>1, <2>2 DEF Job
  <2>4. JobOK(J)
    BY <2>3 DEF JobOK
  <2>5. job' = [job EXCEPT ![w] = J] /\ UNCHANGED committed
    BY <1>7 DEF RemovePolicy
  <2> QED
    BY <2>3, <2>4, <2>5, JobStep
<1>8. CASE UpdateToken(w)
  BY <1>1, <1>8, GotoStep DEF UpdateToken
<1>9. CASE Fill(w)
  BY <1>1, <1>9, GotoStep DEF Fill
<1>10. CASE InsertDefault(w)
  <2>1. [id |-> NewId, key |-> Default, perm |-> FALSE] \in Policy
    BY <1>10, NewIdType DEF InsertDefault, Policy, Default, Coordinates
  <2> QED
    BY <1>10, <2>1, PutStep DEF InsertDefault, OfKind
<1>11. CASE InsertDomain(w)
  BY <1>1, <1>11, RollbackStep, GotoStep DEF InsertDomain
<1>12. CASE Grant(w)
  BY <1>1, <1>12, RollbackStep, GotoStep DEF Grant
<1>13. CASE InsertGrant(w)
  <2>1. [id |-> NewId, key |-> WholeDomain(job[w].dom), perm |-> TRUE] \in Policy
    <3>1. job[w].dom \in Domain \cup {Null}
      BY <1>2, <1>13 DEF InsertGrant, OfKind, Job
    <3> QED
      BY <1>13, <3>1, NewIdType DEF InsertGrant, Policy, WholeDomain, Coordinates
  <2> QED
    BY <1>13, <2>1, PutStep DEF InsertGrant, OfKind
<1>14. CASE Cascade(w)
  <2> DEFINE J == [job[w] EXCEPT !.gone = Of(policies, job[w].dom), !.pc = "drop"]
  <2>1. job[w] \in Job /\ job[w].kind = "deleteDomain" /\ JobOK(job[w])
    BY <1>2, <1>14 DEF Cascade, OfKind, KeptInv
  <2>2. Of(policies, job[w].dom) \in SUBSET Policy
    BY <1>3 DEF Of
  <2>3. J \in Job /\ J.pc = "drop" /\ J.kind = "deleteDomain" /\ J.dom = job[w].dom
        /\ J.gone = Of(policies, job[w].dom)
    BY <2>1, <2>2 DEF Job
  <2>4. JobOK(J)
    BY <2>1, <2>3 DEF JobOK, Of
  <2>5. job' = [job EXCEPT ![w] = J] /\ UNCHANGED committed
    BY <1>14 DEF Cascade
  <2> QED
    BY <2>3, <2>4, <2>5, JobStep
<1>15. CASE DropDomain(w)
  BY <1>1, <1>15, RollbackStep, GotoStep DEF DropDomain
<1> QED
  BY <1>4, <1>5, <1>6, <1>7, <1>8, <1>9, <1>10, <1>11, <1>12, <1>13, <1>14, <1>15
     DEF Statement

\* The deferred triggers: what they leave unchecked, JobOK and the default policy
\* among the committed rows make up for.
LEMMA CheckStep ==
  ASSUME KeptInv, NEW w \in Worker, Check(w)
  PROVE  KeptInv'
<1>1. UNCHANGED committed /\ At(w, "check")
  BY DEF Check
<1>2. Busy(w) /\ job[w] \in Job /\ JobOK(job[w])
  BY <1>1, BusyJob DEF KeptInv, Step
<1>3. CASE ~TriggersPass(w)
  BY <1>1, <1>3, RollbackStep DEF Check
<1>4. CASE TriggersPass(w)
  <2> DEFINE J == [job[w] EXCEPT !.pc = "commit", !.sound = ~overtaken]
  <2>1. /\ J \in Job /\ J.pc = "commit" /\ J.sound = ~overtaken
        /\ J.kind = job[w].kind /\ J.auto = job[w].auto /\ J.dom = job[w].dom
        /\ J.gone = job[w].gone /\ J.ins = job[w].ins
    BY <1>2 DEF Job, Step, KeptInv, Types
  <2>2. JobOK(J)
    BY <1>2, <2>1 DEF JobOK
  <2>3. job' = [job EXCEPT ![w] = J]
    BY <1>4 DEF Check
  <2>4. ASSUME ~overtaken, JobRows(job[w]) # {} \/ JobAuto(job[w])
        PROVE  HasDefault(JobRows(job[w]))
    <3>1. JobRows(job[w]) = MyRows(w)
      BY DEF JobRows, MyRows
    <3>2. CASE job[w].gone \cup job[w].ins = {}
      <4>1. MyRows(w) = policies
        BY <3>2 DEF MyRows
      <4>2. CASE policies # {} \/ auto
        BY <2>4, <3>1, <4>1, <4>2 DEF KeptInv, DefaultKept
      <4>3. CASE ~(policies # {} \/ auto)
        BY <1>2, <1>4, <2>4, <3>1, <4>1, <4>3 DEF JobAuto, TriggersPass, OfKind
      <4> QED
        BY <4>2, <4>3
    <3>3. CASE job[w].gone \cup job[w].ins # {} /\ MyRows(w) # {}
      BY <1>4, <3>1, <3>3 DEF TriggersPass
    <3>4. CASE MyRows(w) = {} /\ job[w].kind = "saveToken"
      BY <1>2, <1>4, <2>4, <3>1, <3>4 DEF JobAuto, TriggersPass, OfKind
    <3>5. CASE MyRows(w) = {} /\ job[w].kind # "saveToken"
      <4>1. auto
        BY <2>4, <3>1, <3>5 DEF JobAuto
      <4>2. PICK p \in policies : p.key = Default
        BY <2>4, <4>1 DEF KeptInv, DefaultKept, HasDefault, Defaults
      <4>3. p \in job[w].gone /\ job[w].ins = {}
        BY <3>5 DEF MyRows
      <4>4. job[w].kind \in {"delete", "deleteDomain"}
        BY <1>2, <3>5, <4>3 DEF JobOK, Job, Kind
      <4>5. job[w].kind # "deleteDomain"
        BY <1>2, <4>2, <4>3, NullAssumption DEF JobOK, Default
      <4>6. HasDefault(job[w].gone)
        BY <4>2, <4>3 DEF HasDefault, Defaults
      <4> QED
        BY <1>2, <1>4, <4>1, <4>4, <4>5, <4>6 DEF TriggersPass, OfKind
    <3> QED
      BY <3>2, <3>3, <3>4, <3>5
  <2>5. J.sound => KeepsDefault(J)
    BY <2>1, <2>4 DEF KeepsDefault, JobRows, JobAuto
  <2> QED
    BY <1>1, <2>1, <2>2, <2>3, <2>5, JobStep
<1> QED
  BY <1>3, <1>4

\* The commit: with rows of others in between, overtaken; without, as checked.
LEMMA CommitStep ==
  ASSUME KeptInv, NEW w \in Worker, Commit(w)
  PROVE  KeptInv'
<1> DEFINE changed == <<MyRows(w), NewAuto(w), NewDomains(w)>> # <<policies, auto, domains>>
<1>1. At(w, "commit") /\ Busy(w) /\ job[w] \in Job
  BY BusyJob DEF Commit, KeptInv, Step
<1>2. /\ policies' = MyRows(w) /\ auto' = NewAuto(w) /\ domains' = NewDomains(w)
      /\ outdated' = (outdated \/ (changed /\ ~job[w].fresh))
      /\ overtaken' = (overtaken \/ (changed /\ ~job[w].sound))
      /\ job' = [v \in Worker |->
           IF v = w THEN Idle
           ELSE IF changed /\ Busy(v) THEN [job[v] EXCEPT !.fresh = FALSE, !.sound = FALSE]
           ELSE job[v]]
  BY DEF Commit
<1> HIDE DEF changed
<1>3. policies' = JobRows(job[w]) /\ auto' = JobAuto(job[w])
  BY <1>2 DEF MyRows, JobRows, NewAuto, JobAuto
<1>4. ASSUME NEW v \in Worker, v # w, Busy(v)
      PROVE  /\ job'[v] \in Job
             /\ job'[v].kind = job[v].kind /\ job'[v].pc = job[v].pc
             /\ job'[v].auto = job[v].auto /\ job'[v].dom = job[v].dom
             /\ job'[v].row = job[v].row
             /\ job'[v].gone = job[v].gone /\ job'[v].ins = job[v].ins
             /\ job'[v].sound => job[v].sound /\ ~changed
  <2>1. job[v] \in Job
    BY <1>4, BusyJob DEF KeptInv
  <2>2. CASE changed
    <3>1. job'[v] = [job[v] EXCEPT !.fresh = FALSE, !.sound = FALSE]
      BY <1>2, <1>4, <2>2
    <3> QED
      BY <2>1, <3>1 DEF Job
  <2>3. CASE ~changed
    BY <1>2, <1>4, <2>1, <2>3
  <2> QED
    BY <2>2, <2>3
<1>5. Types'
  <2>1. policies' \subseteq Policy
    BY <1>1, <1>3 DEF KeptInv, Types, Job, JobRows
  <2>2. auto' \in BOOLEAN
    BY <1>1, <1>3 DEF KeptInv, Types, Job, JobAuto
  <2>3. domains' \subseteq Domain
    BY <1>1, <1>2 DEF KeptInv, Types, JobOK, NewDomains
  <2>4. outdated' \in BOOLEAN /\ overtaken' \in BOOLEAN
    BY <1>2 DEF KeptInv, Types
  <2>5. job' \in [Worker -> Job \cup {Idle}]
    <3>1. ASSUME NEW v \in Worker PROVE job'[v] \in Job \cup {Idle}
      <4>1. CASE v = w
        BY <1>2, <4>1
      <4>2. CASE v # w /\ Busy(v)
        BY <1>4, <4>2
      <4>3. CASE v # w /\ ~Busy(v)
        BY <1>2, <4>3 DEF KeptInv, Types
      <4> QED
        BY <4>1, <4>2, <4>3
    <3>2. job' = [v \in Worker |-> job'[v]]
      BY <1>2
    <3> QED
      BY <3>1, <3>2
  <2> QED
    BY <2>1, <2>2, <2>3, <2>4, <2>5 DEF Types
<1>6. ~changed => policies' = policies /\ auto' = auto
  BY <1>2 DEF changed
<1>7. DefaultKept'
  <2> SUFFICES ASSUME ~overtaken', policies' # {} \/ auto'
               PROVE  HasDefault(policies')
    BY DEF DefaultKept, HasDefault, Defaults
  <2>1. CASE changed
    <3>1. job[w].sound
      BY <1>2, <2>1
    <3> QED
      BY <1>1, <1>3, <3>1 DEF KeptInv, KeepsDefault
  <2>2. CASE ~changed
    BY <1>2, <1>6, <2>2 DEF KeptInv, DefaultKept
  <2> QED
    BY <2>1, <2>2
<1>8. ASSUME NEW v \in Worker, Busy(v)'
      PROVE  (/\ JobOK(job[v])
              /\ At(v, "commit") /\ job[v].sound => KeepsDefault(job[v]))'
  <2>1. v # w
    BY <1>2, <1>8 DEF Busy, Idle
  <2>2. Busy(v)
    BY <1>2, <1>8, <2>1 DEF Busy
  <2>3. JobOK(job[v])'
    BY <1>4, <2>1, <2>2 DEF KeptInv, JobOK
  <2>4. ASSUME At(v, "commit")', job'[v].sound PROVE KeepsDefault(job[v])'
    <3>1. At(v, "commit") /\ job[v].sound /\ ~changed
      BY <1>4, <2>1, <2>2, <2>4 DEF At
    <3>2. KeepsDefault(job[v])
      BY <2>2, <3>1 DEF KeptInv
    <3>3. policies' = policies /\ auto' = auto /\ job'[v] = job[v]
      BY <1>2, <1>6, <2>1, <3>1
    <3> QED
      BY <3>2, <3>3 DEF KeepsDefault, JobRows, JobAuto, HasDefault, Defaults
  <2> QED
    BY <2>3, <2>4
<1> QED
  BY <1>5, <1>7, <1>8 DEF KeptInv

\* Every step preserves the invariant.
LEMMA KeptStep == KeptInv /\ [Next]_vars => KeptInv'
<1> SUFFICES ASSUME KeptInv, [Next]_vars PROVE KeptInv'
  OBVIOUS
<1>1. CASE UNCHANGED vars
  BY <1>1 DEF vars, KeptInv, Types, DefaultKept, HasDefault, Busy, At, JobOK,
              KeepsDefault, JobRows, JobAuto
<1>2. ASSUME NEW w \in Worker, Request(w) PROVE KeptInv'
  BY <1>2, RequestStep
<1>3. ASSUME NEW w \in Worker, Statement(w) PROVE KeptInv'
  BY <1>3, StatementStep
<1>4. ASSUME NEW w \in Worker, Check(w) PROVE KeptInv'
  BY <1>4, CheckStep
<1>5. ASSUME NEW w \in Worker, PdnsFails(w) PROVE KeptInv'
  BY <1>5, RollbackStep DEF PdnsFails
<1>6. ASSUME NEW w \in Worker, Commit(w) PROVE KeptInv'
  BY <1>6, CommitStep
<1> QED
  BY <1>1, <1>2, <1>3, <1>4, <1>5, <1>6 DEF Next

-----------------------------------------------------------------------------
(* Theorems                                                                 *)

\* The invariant holds throughout.
LEMMA AlwaysKept == Spec => []KeptInv
  BY KeptInit, KeptStep, PTL DEF Spec

\* However requests overlap, and for any number of them: as long as nothing is
\* committed between the deferred triggers of a transaction and its COMMIT, a token
\* with policies, or with auto_policy, has a default policy.
THEOREM DefaultAlwaysKept == Spec => []DefaultKept
<1>1. KeptInv => DefaultKept
  BY DEF KeptInv
<1> QED
  BY <1>1, AlwaysKept, PTL

\* get_policy always finds what the documented table of priorities names.
THEOREM PriorityAlwaysDocumented == Spec => []DocumentedPriority
<1>1. KeptInv => DocumentedPriority
  BY PolicyByPriority DEF KeptInv, Types, DocumentedPriority
<1> QED
  BY <1>1, AlwaysKept, PTL

\* can_safely_delete_domain, a conservative test, never lets a token delete RRsets
\* that it may not write.
THEOREM DeletionAlwaysSafe == Spec => []SafeDeletion
<1>1. KeptInv => SafeDeletion
  BY SafeDeletionRule DEF KeptInv, Types, SafeDeletion
<1> QED
  BY <1>1, AlwaysKept, PTL

-----------------------------------------------------------------------------
(* The rows of open transactions, the domains they depend on and the flag:   *)
(* an invariant that rests on KeptInv                                        *)

Unwritten == {"clean", "write", "fill", "grant", "insert"}
Holding == {"grant", "insert", "check", "commit"}

\* A request for a new policy, whose primary key nobody else uses, and one that
\* holds the row of a domain that it creates or deletes.
IsNew(j) == j.kind = "create" /\ j.row # Null
Holds(j, d) == j.dom = d /\ j.pc \in Holding

\* The rows a request replaces are committed and the ones it inserts are new.
RowsOK(j) ==
  /\ j.pc \in Unwritten => j.gone = {} /\ j.ins = {}
  /\ j.pc = "drop" \/ j.kind = "delete" => j.ins = {}
  /\ j.gone \subseteq policies
  /\ \A p, q \in j.ins : p = q
  /\ \A p \in j.ins, q \in policies \ j.gone : p.id # q.id /\ p.key # q.key
  /\ IsNew(j) => \A q \in policies : q.id # j.row.id

\* Policies are of stored domains; what creates or deletes one keeps it so.
DomainOK(j) ==
  /\ j.dom # Null => j.kind \in {"createDomain", "deleteDomain"}
  /\ j.pc = "fill" => j.kind \in {"saveToken", "touch"}
  /\ j.pc = "drop" => j.kind = "deleteDomain"
  /\ j.pc = "grant" => j.kind = "createDomain"
  /\ \A p \in j.ins : \/ p.key.domain \in domains \cup {Null}
                      \/ j.kind = "createDomain" /\ p.key.domain = j.dom
  /\ j.kind = "createDomain" =>
       /\ j.gone = {} /\ \A p \in j.ins : p.key = WholeDomain(j.dom) /\ p.perm
       /\ j.pc \in Holding => j.dom \notin domains
       /\ j.pc \in {"check", "commit"} /\ j.auto => j.ins # {}
  /\ j.kind = "deleteDomain" =>
       /\ j.ins = {}
       /\ j.pc \in Holding => Of(policies, j.dom) \subseteq j.gone

\* A fresh request knows the committed flag and policies, and what was validated
\* for them is still right.
FlagOK(j) ==
  /\ j.kind \in {"saveToken", "touch"} => \A p \in j.ins : ~p.perm
  /\ j.fresh =>
       /\ ~outdated /\ (j.pc = "commit" => j.sound)
       /\ j.kind = "update" => j.auto = auto
       /\ j.kind = "update" /\ auto =>
            /\ j.pc = "write" /\ j.row.key = Default => ~j.row.perm
            /\ \A p \in j.ins : p.key = Default => ~p.perm
       /\ j.kind = "saveToken" /\ j.auto /\ j.pc # "clean" =>
            \A p \in Defaults(policies) : ~p.perm

\* Two open transactions.
Clear(j, k) ==
  /\ \A p \in j.gone \cup j.ins, q \in k.gone \cup k.ins : p.id # q.id
  /\ \A p \in j.ins, q \in k.ins : p.key # q.key
  /\ IsNew(j) => \A q \in k.gone \cup k.ins \cup ({k.row} \ {Null}) : q.id # j.row.id
  /\ \A d \in Domain : Holds(j, d) => ~Holds(k, d) /\ \A p \in k.ins : p.key.domain # d

Unique == \A p, q \in policies : p.key = q.key \/ p.id = q.id => p = q
Placed == \A p \in policies : p.key.domain \in domains \cup {Null}
Committed == Unique /\ Placed /\ AutoRestrictive /\ (~outdated => ~overtaken)
PolicyInv ==
  /\ KeptInv /\ Committed
  /\ \A w \in Worker : Busy(w) => RowsOK(job[w]) /\ DomainOK(job[w]) /\ FlagOK(job[w])
  /\ \A v, w \in Worker : v # w /\ Busy(v) /\ Busy(w) => Clear(job[v], job[w])

\* A new key is nobody's.
LEMMA NewIdFresh ==
  ASSUME IdLeft
  PROVE  /\ \A q \in policies : q.id # NewId
         /\ \A v \in Worker : Busy(v) =>
              \A q \in job[v].gone \cup job[v].ins \cup ({job[v].row} \ {Null}) : q.id # NewId
<1>1. NewId \notin UsedIds
  BY DEF IdLeft, NewId
<1> QED
  BY <1>1 DEF UsedIds

\* A step of one request that commits nothing.
LEMMA Advance ==
  ASSUME PolicyInv, NEW w \in Worker, NEW J, job' = [job EXCEPT ![w] = J],
         UNCHANGED committed, KeptInv',
         J = Idle \/ (RowsOK(J) /\ DomainOK(J) /\ FlagOK(J)),
         J = Idle \/ \A v \in Worker \ {w} : Busy(v) => Clear(J, job[v]) /\ Clear(job[v], J)
  PROVE  PolicyInv'
<1>1. UNCHANGED <<policies, auto, domains, outdated, overtaken>>
  BY DEF committed
<1>2. job'[w] = J /\ \A v \in Worker \ {w} : job'[v] = job[v]
  BY DEF PolicyInv, KeptInv, Types
<1>3. Committed'
  BY <1>1 DEF PolicyInv, Committed, Unique, Placed, AutoRestrictive, Defaults
<1>4. ASSUME NEW v \in Worker, Busy(v)'
      PROVE  RowsOK(job'[v]) /\ DomainOK(job'[v]) /\ FlagOK(job'[v])
  BY <1>2, <1>4 DEF PolicyInv, Busy, Idle
<1>5. ASSUME NEW v \in Worker, Busy(v)'
      PROVE  (RowsOK(job[v]) /\ DomainOK(job[v]) /\ FlagOK(job[v]))'
  <2>1. RowsOK(job[v])'
    BY <1>1, <1>4, <1>5 DEF RowsOK, IsNew
  <2>2. DomainOK(job[v])'
    BY <1>1, <1>4, <1>5 DEF DomainOK, Of
  <2>3. FlagOK(job[v])'
    BY <1>1, <1>4, <1>5 DEF FlagOK, Defaults
  <2> QED BY <2>1, <2>2, <2>3
<1>6. ASSUME NEW u \in Worker, NEW v \in Worker, u # v, Busy(u)', Busy(v)'
      PROVE  Clear(job[u], job[v])'
  <2>1. Clear(job'[u], job'[v])
    BY <1>2, <1>6 DEF PolicyInv, Busy, Idle
  <2> QED BY <2>1 DEF Clear, IsNew, Holds
<1> QED
  BY <1>3, <1>5, <1>6 DEF PolicyInv

\* A rollback.
LEMMA PolicyRollback ==
  ASSUME PolicyInv, NEW w \in Worker, Rollback(w), UNCHANGED committed, KeptInv'
  PROVE  PolicyInv'
  BY Advance DEF Rollback

\* What is known of a request under way.
LEMMA JobFacts ==
  ASSUME PolicyInv, NEW w \in Worker, Busy(w)
  PROVE  /\ job[w] \in Job /\ JobOK(job[w])
         /\ RowsOK(job[w]) /\ DomainOK(job[w]) /\ FlagOK(job[w])
         /\ \A v \in Worker \ {w} : Busy(v) => Clear(job[w], job[v]) /\ Clear(job[v], job[w])
  BY BusyJob DEF PolicyInv, KeptInv

\* A request begins.
LEMMA PolicyAccept ==
  ASSUME PolicyInv, KeptInv', NEW w \in Worker, NEW s \in {"clean", "write"}, NEW k \in Kind,
         NEW row \in Policy \cup {Null}, NEW flag \in BOOLEAN, NEW d \in Domain \cup {Null},
         Accept(w, s, k, row, flag, d),
         s = "write" => k \notin {"update", "saveToken"},
         d # Null => k \in {"createDomain", "deleteDomain"}, k = "update" => flag = auto,
         IF k = "create" THEN IdLeft /\ row.id = NewId
         ELSE row = Null \/ \E p \in policies : row.id = p.id
  PROVE  PolicyInv'
<1> DEFINE J == [pc |-> s, kind |-> k, row |-> row, auto |-> flag, dom |-> d,
                 gone |-> {}, ins |-> {}, fresh |-> ~outdated, sound |-> FALSE]
<1>1. job' = [job EXCEPT ![w] = J] /\ UNCHANGED committed
  BY DEF Accept
<1>2. /\ J.pc = s /\ J.kind = k /\ J.row = row /\ J.auto = flag /\ J.dom = d
      /\ J.gone = {} /\ J.ins = {} /\ J.fresh = ~outdated
  OBVIOUS
<1> HIDE DEF J
<1>3. RowsOK(J)
  BY <1>2, NewIdFresh DEF RowsOK, IsNew
<1>4. DomainOK(J)
  BY <1>2 DEF DomainOK, Holding
<1>5. FlagOK(J)
  BY <1>2 DEF FlagOK
<1>6. ASSUME NEW v \in Worker \ {w}, Busy(v) PROVE Clear(J, job[v]) /\ Clear(job[v], J)
  <2>1. \A e \in Domain : ~Holds(J, e)
    BY <1>2 DEF Holds, Holding
  <2>2. IsNew(J) => \A q \in job[v].gone \cup job[v].ins \cup ({job[v].row} \ {Null}) :
                      q.id # J.row.id
    BY <1>2, <1>6, NewIdFresh DEF IsNew
  <2>3. ASSUME IsNew(job[v]), J.row # Null PROVE J.row.id # job[v].row.id
    <3>1. CASE k = "create"
      BY <1>2, <1>6, <2>3, <3>1, NewIdFresh DEF IsNew
    <3>2. CASE k # "create"
      BY <1>2, <1>6, <2>3, <3>2, JobFacts DEF RowsOK
    <3> QED BY <3>1, <3>2
  <2> QED BY <1>2, <2>1, <2>2, <2>3 DEF Clear
<1> QED
  BY <1>1, <1>3, <1>4, <1>5, <1>6, Advance

\* A request goes on to another step; s does not come after the triggers.
LEMMA PolicyGoto ==
  ASSUME PolicyInv, KeptInv', NEW w \in Worker, Busy(w),
         NEW s \in {"write", "fill", "grant", "insert", "check"},
         Goto(w, s), UNCHANGED committed,
         s \in Unwritten => job[w].pc \in Unwritten,
         s = "fill" => job[w].kind \in {"saveToken", "touch"},
         s = "grant" => job[w].kind = "createDomain",
         job[w].kind = "update" /\ job[w].fresh /\ auto /\ s = "write"
           /\ job[w].row.key = Default => ~job[w].row.perm,
         job[w].kind = "saveToken" /\ job[w].auto /\ job[w].fresh =>
           \A p \in Defaults(policies) : ~p.perm,
         s \in Holding /\ job[w].kind = "createDomain" => job[w].dom \notin domains,
         s = "check" => job[w].kind # "createDomain" \/ ~job[w].auto,
         s \in Holding /\ job[w].kind = "deleteDomain"
           => Of(policies, job[w].dom) \subseteq job[w].gone,
         s \in Holding /\ job[w].dom # Null => \A v \in Rivals(w) :
           ~Holds(job[v], job[w].dom) /\ \A p \in job[v].ins : p.key.domain # job[w].dom
  PROVE  PolicyInv'
<1> DEFINE J == [job[w] EXCEPT !.pc = s]
<1>1. job' = [job EXCEPT ![w] = J]
  BY DEF Goto
<1>2. job[w] \in Job /\ RowsOK(job[w]) /\ DomainOK(job[w]) /\ FlagOK(job[w])
  BY JobFacts
<1>3. /\ J.pc = s /\ J.kind = job[w].kind /\ J.row = job[w].row /\ J.auto = job[w].auto
      /\ J.dom = job[w].dom /\ J.gone = job[w].gone /\ J.ins = job[w].ins
      /\ J.fresh = job[w].fresh
  BY <1>2 DEF Job
<1> HIDE DEF J
<1>4. RowsOK(J)
  BY <1>2, <1>3 DEF RowsOK, IsNew
<1>5. DomainOK(J)
  BY <1>2, <1>3 DEF DomainOK
<1>6. FlagOK(J)
  BY <1>2, <1>3 DEF FlagOK
<1>7. ASSUME NEW v \in Worker \ {w}, Busy(v) PROVE Clear(J, job[v]) /\ Clear(job[v], J)
  <2>1. Clear(job[w], job[v]) /\ Clear(job[v], job[w])
    BY <1>7, JobFacts
  <2>2. \A d \in Domain : Holds(J, d) => d # Null /\ d = job[w].dom /\ s \in Holding
    BY <1>3, NullAssumption DEF Holds
  <2>3. \A d \in Domain :
          Holds(J, d) => ~Holds(job[v], d) /\ \A p \in job[v].ins : p.key.domain # d
    BY <1>7, <2>2 DEF Rivals
  <2> QED BY <1>3, <2>1, <2>3 DEF Clear, IsNew
<1> QED
  BY <1>1, <1>4, <1>5, <1>6, <1>7, Advance

\* An INSERT or UPDATE of a row.
LEMMA PolicyPut ==
  ASSUME PolicyInv, KeptInv', NEW w \in Worker, Busy(w), NEW old \in SUBSET policies,
         NEW row \in Policy,
         Put(w, old, row), job[w].kind \notin {"delete", "deleteDomain"},
         \A q \in policies \ old : q.id # row.id,
         \A q \in old : q.id = row.id,
         \A v \in Rivals(w) : \A q \in job[v].gone \cup job[v].ins : q.id # row.id,
         \A v \in Rivals(w) : IsNew(job[v]) => job[v].row.id # row.id,
         job[w].kind \in {"saveToken", "touch"} => ~row.perm,
         job[w].kind = "update" /\ job[w].fresh /\ auto /\ row.key = Default => ~row.perm,
         job[w].kind = "saveToken" /\ job[w].auto /\ job[w].fresh =>
           \A p \in Defaults(policies) : ~p.perm,
         job[w].kind = "createDomain" =>
           old = {} /\ row.key = WholeDomain(job[w].dom) /\ row.perm /\ job[w].pc \in Holding
  PROVE  PolicyInv'
<1>1. UNCHANGED committed
  BY DEF Put
<1>2. CASE Rollback(w)
  BY <1>1, <1>2, PolicyRollback
<1>3. CASE ~Rollback(w)
  <2> DEFINE J == [job[w] EXCEPT !.gone = old, !.ins = {row}, !.row = Null, !.pc = "check"]
  <2>1. /\ job' = [job EXCEPT ![w] = J]
        /\ \A p \in policies \ old : p.key # row.key
        /\ row.key.domain \in domains \cup {Null, job[w].dom}
        /\ ~KeyBusy(w, row.key) /\ ~DomainBusy(w, row.key.domain)
    BY <1>3 DEF Put
  <2>2. job[w] \in Job /\ JobOK(job[w]) /\ RowsOK(job[w]) /\ DomainOK(job[w]) /\ FlagOK(job[w])
    BY JobFacts
  <2>3. /\ J.pc = "check" /\ J.kind = job[w].kind /\ J.row = Null /\ J.auto = job[w].auto
        /\ J.dom = job[w].dom /\ J.gone = old /\ J.ins = {row} /\ J.fresh = job[w].fresh
    BY <2>2 DEF Job
  <2> HIDE DEF J
  <2>4. RowsOK(J)
    BY <2>1, <2>3 DEF RowsOK, IsNew, Unwritten
  <2>5. DomainOK(J)
    BY <2>1, <2>2, <2>3 DEF DomainOK
  <2>6. FlagOK(J)
    BY <2>2, <2>3 DEF FlagOK
  <2>7. ASSUME NEW v \in Worker \ {w}, Busy(v) PROVE Clear(J, job[v]) /\ Clear(job[v], J)
    <3>1. Clear(job[w], job[v]) /\ Clear(job[v], job[w]) /\ v \in Rivals(w)
      BY <2>7, JobFacts DEF Rivals
    <3>2. \A q \in job[v].gone \cup job[v].ins : q.id # row.id /\ q.key # row.key
      BY <2>1, <3>1 DEF KeyBusy
    <3>3. \A d \in Domain : Holds(job[v], d) => row.key.domain # d
      BY <2>1, <3>1, NullAssumption DEF DomainBusy, Holds, Holding
    <3>4. \A d \in Domain : Holds(J, d) => Holds(job[w], d)
      <4>1. ASSUME NEW d \in Domain, Holds(J, d) PROVE job[w].kind = "createDomain"
        BY <2>2, <2>3, <4>1, NullAssumption DEF DomainOK, Holds
      <4> QED BY <2>3, <4>1 DEF Holds
    <3>5. ~IsNew(J)
      BY <2>3 DEF IsNew
    <3>6. Clear(J, job[v])
      BY <2>3, <3>1, <3>2, <3>4, <3>5 DEF Clear
    <3>7. Clear(job[v], J)
      <4>1. \A d \in Domain : Holds(job[v], d) => ~Holds(J, d)
        BY <3>1, <3>4 DEF Clear
      <4>2. IsNew(job[v]) => job[v].row.id # row.id
        BY <3>1
      <4> QED BY <2>3, <3>2, <3>3, <4>1, <4>2 DEF Clear
    <3> QED BY <3>6, <3>7
  <2> QED
    BY <1>1, <2>1, <2>4, <2>5, <2>6, <2>7, Advance
<1> QED
  BY <1>2, <1>3

\* A token is created with its default policy, or with none.
LEMMA PolicyInit == Init => PolicyInv
<1> SUFFICES ASSUME Init PROVE PolicyInv
  OBVIOUS
<1>1. KeptInv
  BY KeptInit
<1>2. \A p \in policies : p.key = Default /\ ~p.perm /\ p.id = FirstId
  BY DEF Init
<1>3. \A p, q \in policies : p = q
  BY DEF Init
<1>4. Committed
  BY <1>2, <1>3 DEF Init, Committed, Unique, Placed, AutoRestrictive, Default, Defaults
<1>5. \A w \in Worker : ~Busy(w)
  BY DEF Init, Busy, Idle
<1> QED
  BY <1>1, <1>4, <1>5 DEF PolicyInv

\* What the requests load when they begin.
LEMMA PolicyRequest ==
  ASSUME PolicyInv, KeptInv', NEW w \in Worker, Request(w)
  PROVE  PolicyInv'
<1> USE DEF Kind
<1>1. auto \in BOOLEAN /\ policies \subseteq Policy
  BY DEF PolicyInv, KeptInv, Types
<1>2. ASSUME NEW k \in Pattern, NEW b \in BOOLEAN, CreatePolicy(w, k, b) PROVE PolicyInv'
  <2> DEFINE row == [id |-> NewId, key |-> k, perm |-> b]
  <2>1. row \in Policy /\ row.id = NewId
    BY <1>2, NewIdType, PatternAssumption DEF CreatePolicy, Policy
  <2>2. IdLeft /\ Accept(w, "clean", "create", row, FALSE, Null)
    BY <1>2 DEF CreatePolicy
  <2> HIDE DEF row
  <2> QED BY <2>1, <2>2, PolicyAccept
<1>3. ASSUME NEW p \in policies, NEW k \in Pattern, NEW b \in BOOLEAN, UpdatePolicy(w, p, k, b)
      PROVE  PolicyInv'
  <2> DEFINE row == [id |-> p.id, key |-> k, perm |-> b]
  <2>1. row \in Policy /\ row.id = p.id
    BY <1>1, PatternAssumption DEF Policy
  <2>2. Accept(w, "clean", "update", row, auto, Null)
    BY <1>3 DEF UpdatePolicy
  <2> HIDE DEF row
  <2> QED BY <1>1, <2>1, <2>2, PolicyAccept
<1>4. ASSUME NEW p \in policies, DeletePolicy(w, p) PROVE PolicyInv'
  BY <1>1, <1>4, PolicyAccept DEF DeletePolicy
<1>5. ASSUME NEW b \in BOOLEAN, SaveToken(w, b) PROVE PolicyInv'
  BY <1>5, PolicyAccept DEF SaveToken
<1>6. CASE Touch(w)
  BY <1>1, <1>6, PolicyAccept DEF Touch
<1>7. ASSUME NEW d \in Domain, NEW own \in BOOLEAN, CreateDomain(w, d, own) PROVE PolicyInv'
  <2>1. (own /\ auto) \in BOOLEAN
    OBVIOUS
  <2> QED BY <1>7, <2>1, PolicyAccept DEF CreateDomain
<1>8. ASSUME NEW d \in Domain, NEW own \in BOOLEAN, DeleteDomain(w, d, own) PROVE PolicyInv'
  BY <1>8, PolicyAccept DEF DeleteDomain
<1> QED
  BY <1>2, <1>3, <1>4, <1>5, <1>6, <1>7, <1>8 DEF Request

\* Validation: what it accepts is right for what the request loaded.
LEMMA PolicyClean ==
  ASSUME PolicyInv, KeptInv', NEW w \in Worker, Clean(w)
  PROVE  PolicyInv'
<1>1. UNCHANGED committed /\ At(w, "clean")
  BY DEF Clean
<1>2. Busy(w)
  BY <1>1, BusyJob DEF PolicyInv, KeptInv, Step
<1>3. CASE Refused(w)
  BY <1>1, <1>3, PolicyRollback DEF Clean
<1>4. CASE ~Refused(w)
  <2>1. Goto(w, "write")
    BY <1>4 DEF Clean
  <2>2. FlagOK(job[w]) /\ job[w].row = job[w].row
    BY <1>2, JobFacts
  <2>3. job[w].kind = "saveToken" /\ job[w].auto => \A p \in Defaults(policies) : ~p.perm
    BY <1>4 DEF Refused
  <2>4. job[w].kind = "update" /\ job[w].fresh /\ auto /\ job[w].row.key = Default
          => ~job[w].row.perm
    <3> SUFFICES ASSUME job[w].kind = "update", job[w].fresh, auto, job[w].row.key = Default,
                        job[w].row.perm
                 PROVE  FALSE
      OBVIOUS
    <3>1. job[w].auto
      BY <2>2 DEF FlagOK
    <3> QED BY <1>4, <3>1 DEF Refused
  <2> QED
    BY <1>1, <1>2, <2>1, <2>3, <2>4, PolicyGoto DEF Unwritten, Holding, At
<1> QED
  BY <1>3, <1>4

\* The INSERT, UPDATE or DELETE of a policy.
LEMMA PolicyWrite ==
  ASSUME PolicyInv, KeptInv', NEW w \in Worker,
         InsertPolicy(w) \/ SavePolicy(w) \/ RemovePolicy(w)
  PROVE  PolicyInv'
<1>1. Busy(w) /\ job[w].pc = "write" /\ policies \subseteq Policy
  BY DEF InsertPolicy, SavePolicy, RemovePolicy, OfKind, At, PolicyInv, KeptInv, Types
<1>2. job[w] \in Job /\ JobOK(job[w]) /\ RowsOK(job[w]) /\ DomainOK(job[w]) /\ FlagOK(job[w])
  BY <1>1, JobFacts
<1>3. \A v \in Rivals(w) : /\ v \in Worker \ {w} /\ Busy(v)
                           /\ Clear(job[w], job[v]) /\ Clear(job[v], job[w])
  BY <1>1, JobFacts DEF Rivals
<1>4. CASE InsertPolicy(w)
  <2>1. job[w].kind = "create" /\ job[w].row \in Policy /\ Put(w, {}, job[w].row)
    BY <1>1, <1>2, <1>4 DEF InsertPolicy, OfKind, JobOK
  <2>2. job[w].row # Null
    BY <2>1, NullAssumption
  <2>3. \A q \in policies : q.id # job[w].row.id
    BY <1>2, <2>1, <2>2 DEF RowsOK, IsNew
  <2>4. \A v \in Rivals(w) :
          \A q \in job[v].gone \cup job[v].ins \cup ({job[v].row} \ {Null}) : q.id # job[w].row.id
    BY <1>3, <2>1, <2>2 DEF Clear, IsNew
  <2>5. \A v \in Rivals(w) : IsNew(job[v]) => job[v].row.id # job[w].row.id
    BY <2>4 DEF IsNew
  <2> QED BY <1>1, <2>1, <2>3, <2>4, <2>5, PolicyPut
<1>5. CASE SavePolicy(w)
  <2>1. /\ job[w].kind = "update" /\ job[w].row \in Policy /\ Put(w, Stored(w), job[w].row)
        /\ ~RowBusy(w, job[w].row.id)
    BY <1>1, <1>2, <1>5 DEF SavePolicy, OfKind, JobOK
  <2>2. job[w].row # Null
    BY <2>1, NullAssumption
  <2>3. /\ Stored(w) \in SUBSET policies
        /\ \A q \in policies \ Stored(w) : q.id # job[w].row.id
        /\ \A q \in Stored(w) : q.id = job[w].row.id
    BY DEF Stored
  <2>4. \A v \in Rivals(w) : \A q \in job[v].gone \cup job[v].ins : q.id # job[w].row.id
    BY <2>1 DEF RowBusy
  <2>5. \A v \in Rivals(w) : IsNew(job[v]) => job[v].row.id # job[w].row.id
    BY <1>3, <2>2 DEF Clear
  <2>6. job[w].fresh /\ auto /\ job[w].row.key = Default => ~job[w].row.perm
    BY <1>1, <1>2, <2>1 DEF FlagOK
  <2> QED BY <1>1, <2>1, <2>3, <2>4, <2>5, <2>6, PolicyPut
<1>6. CASE RemovePolicy(w)
  <2> DEFINE J == [job[w] EXCEPT !.gone = Stored(w), !.row = Null, !.pc = "check"]
  <2>1. /\ job' = [job EXCEPT ![w] = J] /\ UNCHANGED committed
        /\ job[w].kind = "delete" /\ ~RowBusy(w, job[w].row.id)
    BY <1>6 DEF RemovePolicy, OfKind
  <2>2. /\ J.pc = "check" /\ J.kind = "delete" /\ J.row = Null /\ J.auto = job[w].auto
        /\ J.dom = job[w].dom /\ J.gone = Stored(w) /\ J.ins = {} /\ J.fresh = job[w].fresh
    BY <1>1, <1>2, <2>1 DEF Job, RowsOK
  <2> HIDE DEF J
  <2>3. RowsOK(J)
    BY <2>2 DEF RowsOK, IsNew, Unwritten, Stored
  <2>4. DomainOK(J)
    BY <1>2, <2>1, <2>2 DEF DomainOK
  <2>5. FlagOK(J)
    BY <1>2, <2>1, <2>2 DEF FlagOK
  <2>6. ASSUME NEW v \in Worker \ {w}, Busy(v) PROVE Clear(J, job[v]) /\ Clear(job[v], J)
    <3>1. v \in Rivals(w)
      BY <2>6 DEF Rivals
    <3>2. \A q \in job[v].gone \cup job[v].ins, p \in Stored(w) : q.id # p.id
      BY <2>1, <3>1 DEF RowBusy, Stored
    <3>3. \A d \in Domain : ~Holds(J, d)
      BY <1>2, <2>1, <2>2, NullAssumption DEF Holds, DomainOK
    <3>4. IsNew(job[v]) => \A q \in Stored(w) : q.id # job[v].row.id
      BY <1>3, <3>1, JobFacts DEF RowsOK, Stored
    <3> QED BY <2>2, <3>2, <3>3, <3>4 DEF Clear, IsNew
  <2> QED
    BY <2>1, <2>3, <2>4, <2>5, <2>6, Advance
<1> QED
  BY <1>4, <1>5, <1>6

\* Token.save(), and the default policy it inserts.
LEMMA PolicySave ==
  ASSUME PolicyInv, KeptInv', NEW w \in Worker,
         UpdateToken(w) \/ Fill(w) \/ InsertDefault(w)
  PROVE  PolicyInv'
<1>1. Busy(w) /\ job[w].pc \in Unwritten \ {"clean"}
  BY BusyJob
     DEF UpdateToken, Fill, InsertDefault, OfKind, At, Unwritten, PolicyInv, KeptInv, Step
<1>2. job[w] \in Job /\ DomainOK(job[w]) /\ FlagOK(job[w])
  BY <1>1, JobFacts
<1>3. job[w].kind \in {"saveToken", "touch"}
  BY <1>2 DEF UpdateToken, Fill, InsertDefault, OfKind, DomainOK, At
<1>4. job[w].dom = Null
  BY <1>2, <1>3 DEF DomainOK
<1>5. job[w].kind = "saveToken" /\ job[w].auto /\ job[w].fresh =>
        \A p \in Defaults(policies) : ~p.perm
  BY <1>1, <1>2 DEF FlagOK
<1>6. ASSUME NEW s \in {"fill", "insert", "check"}, Goto(w, s), UNCHANGED committed
      PROVE  PolicyInv'
  BY <1>1, <1>3, <1>4, <1>5, <1>6, PolicyGoto
<1>7. CASE UpdateToken(w)
  BY <1>6, <1>7 DEF UpdateToken
<1>8. CASE Fill(w)
  BY <1>6, <1>8 DEF Fill
<1>9. CASE InsertDefault(w)
  <2> DEFINE row == [id |-> NewId, key |-> Default, perm |-> FALSE]
  <2>1. IdLeft /\ Put(w, {}, row)
    BY <1>9 DEF InsertDefault
  <2>2. row \in Policy /\ row.id = NewId /\ ~row.perm
    BY <2>1, NewIdType DEF Policy, Default, Coordinates
  <2> HIDE DEF row
  <2>3. \A v \in Rivals(w) : v \in Worker /\ Busy(v)
    BY DEF Rivals
  <2>4. \A v \in Rivals(w) : \A q \in job[v].gone \cup job[v].ins : q.id # row.id
    BY <2>1, <2>2, <2>3, NewIdFresh
  <2>5. \A v \in Rivals(w) : IsNew(job[v]) => job[v].row.id # row.id
    BY <2>1, <2>2, <2>3, NewIdFresh DEF IsNew
  <2>6. \A q \in policies : q.id # row.id
    BY <2>1, <2>2, NewIdFresh
  <2> QED BY <1>1, <1>3, <1>5, <2>1, <2>2, <2>4, <2>5, <2>6, PolicyPut
<1> QED
  BY <1>7, <1>8, <1>9

\* A domain is created, under auto_policy with the policy that grants it.
LEMMA PolicyCreateDomain ==
  ASSUME PolicyInv, KeptInv', NEW w \in Worker,
         InsertDomain(w) \/ Grant(w) \/ InsertGrant(w)
  PROVE  PolicyInv'
<1>1. Busy(w) /\ job[w].pc \in {"write", "grant", "insert"}
  BY BusyJob DEF InsertDomain, Grant, InsertGrant, OfKind, At, PolicyInv, KeptInv, Step
<1>2. job[w] \in Job /\ JobOK(job[w]) /\ RowsOK(job[w]) /\ DomainOK(job[w]) /\ FlagOK(job[w])
  BY <1>1, JobFacts
<1>3. job[w].kind = "createDomain" /\ job[w].dom \in Domain
  BY <1>2 DEF InsertDomain, Grant, InsertGrant, OfKind, DomainOK, JobOK, At
<1>4. \A v \in Rivals(w) : v \in Worker \ {w} /\ Busy(v)
  BY DEF Rivals
<1>5. CASE InsertDomain(w)
  <2>1. /\ UNCHANGED committed /\ job[w].pc = "write"
        /\ ~DomainBusy(w, job[w].dom) /\ ~Held(w, job[w].dom)
    BY <1>5 DEF InsertDomain, At
  <2>2. CASE job[w].dom \in domains
    BY <1>5, <2>1, <2>2, PolicyRollback DEF InsertDomain
  <2>3. CASE job[w].dom \notin domains
    <3>1. ASSUME NEW v \in Rivals(w)
          PROVE  ~Holds(job[v], job[w].dom) /\ \A p \in job[v].ins : p.key.domain # job[w].dom
      <4>1. ~Holds(job[v], job[w].dom)
        BY <1>3, <2>1, NullAssumption DEF DomainBusy, Holds, Holding
      <4>2. DomainOK(job[v]) /\ RowsOK(job[v])
        BY <1>4, JobFacts
      <4>3. ASSUME NEW p \in job[v].ins, p.key.domain = job[w].dom PROVE FALSE
        <5>1. job[v].kind = "createDomain" /\ job[v].dom = job[w].dom
          BY <1>3, <2>3, <4>2, <4>3, NullAssumption DEF DomainOK
        <5>2. job[v].pc \notin Unwritten \cup {"drop"}
          BY <4>2, <4>3 DEF RowsOK
        <5>3. job[v] \in Job
          BY <1>4, JobFacts
        <5> QED BY <4>1, <5>1, <5>2, <5>3 DEF Holds, Holding, Unwritten, Job, Step
      <4> QED BY <4>1, <4>3
    <3>2. Goto(w, IF job[w].auto THEN "grant" ELSE "check")
      BY <1>5, <2>3 DEF InsertDomain
    <3>3. CASE job[w].auto
      BY <1>1, <1>3, <2>1, <2>3, <3>1, <3>2, <3>3, PolicyGoto DEF Unwritten
    <3>4. CASE ~job[w].auto
      BY <1>1, <1>3, <2>1, <2>3, <3>1, <3>2, <3>4, PolicyGoto DEF Unwritten
    <3> QED BY <3>3, <3>4
  <2> QED BY <2>2, <2>3
<1>6. CASE Grant(w)
  <2>1. UNCHANGED committed /\ job[w].pc = "grant"
    BY <1>6 DEF Grant, At
  <2>2. CASE ~HasDefault(policies)
    BY <1>6, <2>1, <2>2, PolicyRollback DEF Grant
  <2>3. CASE HasDefault(policies)
    <3>1. Goto(w, "insert")
      BY <1>6, <2>3 DEF Grant
    <3>2. job[w].dom \notin domains /\ Holds(job[w], job[w].dom)
      BY <1>2, <1>3, <2>1 DEF DomainOK, Holding, Holds
    <3>3. \A v \in Rivals(w) :
            ~Holds(job[v], job[w].dom) /\ \A p \in job[v].ins : p.key.domain # job[w].dom
      BY <1>1, <1>3, <1>4, <3>2, JobFacts DEF Clear
    <3> QED
      BY <1>1, <1>3, <2>1, <3>1, <3>2, <3>3, PolicyGoto DEF Unwritten
  <2> QED BY <2>2, <2>3
<1>7. CASE InsertGrant(w)
  <2> DEFINE row == [id |-> NewId, key |-> WholeDomain(job[w].dom), perm |-> TRUE]
  <2>1. IdLeft /\ Put(w, {}, row) /\ job[w].pc = "insert"
    BY <1>7 DEF InsertGrant, At
  <2>2. /\ row \in Policy /\ row.id = NewId /\ row.perm
        /\ row.key = WholeDomain(job[w].dom)
    BY <1>3, <2>1, NewIdType DEF Policy, WholeDomain, Coordinates
  <2> HIDE DEF row
  <2>3. \A v \in Rivals(w) : \A q \in job[v].gone \cup job[v].ins : q.id # row.id
    BY <1>4, <2>1, <2>2, NewIdFresh
  <2>4. \A v \in Rivals(w) : IsNew(job[v]) => job[v].row.id # row.id
    BY <1>4, <2>1, <2>2, NewIdFresh DEF IsNew
  <2>5. \A q \in policies : q.id # row.id
    BY <2>1, <2>2, NewIdFresh
  <2> QED BY <1>1, <1>3, <2>1, <2>2, <2>3, <2>4, <2>5, PolicyPut DEF Holding
<1> QED
  BY <1>5, <1>6, <1>7

\* A domain is deleted, after the policies that refer to it.
LEMMA PolicyDeleteDomain ==
  ASSUME PolicyInv, KeptInv', NEW w \in Worker, Cascade(w) \/ DropDomain(w)
  PROVE  PolicyInv'
<1>1. Busy(w) /\ job[w].pc \in {"write", "drop"}
  BY BusyJob DEF Cascade, DropDomain, OfKind, At, PolicyInv, KeptInv, Step
<1>2. job[w] \in Job /\ JobOK(job[w]) /\ RowsOK(job[w]) /\ DomainOK(job[w]) /\ FlagOK(job[w])
  BY <1>1, JobFacts
<1>3. job[w].kind = "deleteDomain" /\ job[w].dom \in Domain
  BY <1>2 DEF Cascade, DropDomain, OfKind, DomainOK, JobOK, At
<1>4. \A v \in Rivals(w) : v \in Worker \ {w} /\ Busy(v)
  BY DEF Rivals
<1>5. CASE Cascade(w)
  <2> DEFINE J == [job[w] EXCEPT !.gone = Of(policies, job[w].dom), !.pc = "drop"]
  <2>1. /\ job' = [job EXCEPT ![w] = J] /\ UNCHANGED committed
        /\ \A p \in Of(policies, job[w].dom) : ~RowBusy(w, p.id)
    BY <1>5 DEF Cascade
  <2>2. /\ J.pc = "drop" /\ J.kind = "deleteDomain" /\ J.row = job[w].row
        /\ J.auto = job[w].auto /\ J.dom = job[w].dom /\ J.ins = {}
        /\ J.gone = Of(policies, job[w].dom) /\ J.fresh = job[w].fresh
    BY <1>2, <1>3 DEF Job, DomainOK
  <2> HIDE DEF J
  <2>3. RowsOK(J)
    BY <2>2 DEF RowsOK, IsNew, Unwritten, Of
  <2>4. DomainOK(J)
    BY <1>2, <1>3, <2>2 DEF DomainOK, Holding
  <2>5. FlagOK(J)
    BY <1>2, <1>3, <2>2 DEF FlagOK
  <2>6. ASSUME NEW v \in Worker \ {w}, Busy(v) PROVE Clear(J, job[v]) /\ Clear(job[v], J)
    <3>1. v \in Rivals(w) /\ Clear(job[w], job[v]) /\ Clear(job[v], job[w])
      BY <1>1, <2>6, JobFacts DEF Rivals
    <3>2. \A q \in job[v].gone \cup job[v].ins, p \in J.gone : q.id # p.id
      BY <2>1, <2>2, <3>1 DEF RowBusy
    <3>3. \A d \in Domain : ~Holds(J, d)
      BY <2>2 DEF Holds, Holding
    <3>4. IsNew(job[v]) => \A q \in J.gone \cup ({J.row} \ {Null}) : q.id # job[v].row.id
      <4>1. IsNew(job[v]) => \A q \in policies : q.id # job[v].row.id
        BY <2>6, JobFacts DEF RowsOK
      <4>2. IsNew(job[v]) => \A q \in {job[w].row} \ {Null} : q.id # job[v].row.id
        BY <3>1 DEF Clear
      <4> QED BY <2>2, <4>1, <4>2 DEF Of
    <3> QED BY <2>2, <3>2, <3>3, <3>4 DEF Clear, IsNew
  <2> QED
    BY <2>1, <2>3, <2>4, <2>5, <2>6, Advance
<1>6. CASE DropDomain(w)
  <2>1. /\ UNCHANGED committed /\ job[w].pc = "drop" /\ ~DomainBusy(w, job[w].dom)
        /\ \A v \in Rivals(w) : Of(job[v].ins, job[w].dom) = {}
    BY <1>6 DEF DropDomain, At
  <2>2. CASE ~(Of(policies, job[w].dom) \subseteq job[w].gone)
    BY <1>6, <2>1, <2>2, PolicyRollback DEF DropDomain
  <2>3. CASE Of(policies, job[w].dom) \subseteq job[w].gone
    <3>1. Goto(w, "check")
      BY <1>6, <2>3 DEF DropDomain
    <3>2. \A v \in Rivals(w) :
            ~Holds(job[v], job[w].dom) /\ \A p \in job[v].ins : p.key.domain # job[w].dom
      BY <1>3, <2>1, NullAssumption DEF DomainBusy, Holds, Holding, Of
    <3> QED
      BY <1>1, <1>3, <2>1, <2>3, <3>1, <3>2, PolicyGoto DEF Unwritten
  <2> QED BY <2>2, <2>3
<1> QED
  BY <1>5, <1>6

\* The triggers: a request that has read nothing outdated has not been overtaken.
LEMMA PolicyCheck ==
  ASSUME PolicyInv, KeptInv', NEW w \in Worker, Check(w)
  PROVE  PolicyInv'
<1>1. UNCHANGED committed /\ Busy(w) /\ job[w].pc = "check"
  BY BusyJob DEF Check, At, PolicyInv, KeptInv, Step
<1>2. job[w] \in Job /\ JobOK(job[w]) /\ RowsOK(job[w]) /\ DomainOK(job[w]) /\ FlagOK(job[w])
  BY <1>1, JobFacts
<1>3. CASE ~TriggersPass(w)
  BY <1>1, <1>3, PolicyRollback DEF Check
<1>4. CASE TriggersPass(w)
  <2> DEFINE J == [job[w] EXCEPT !.pc = "commit", !.sound = ~overtaken]
  <2>1. job' = [job EXCEPT ![w] = J]
    BY <1>4 DEF Check
  <2>2. /\ J.pc = "commit" /\ J.kind = job[w].kind /\ J.row = job[w].row
        /\ J.auto = job[w].auto /\ J.dom = job[w].dom /\ J.ins = job[w].ins
        /\ J.gone = job[w].gone /\ J.fresh = job[w].fresh /\ J.sound = ~overtaken
    BY <1>2 DEF Job
  <2> HIDE DEF J
  <2>3. RowsOK(J)
    BY <1>1, <1>2, <2>2 DEF RowsOK, IsNew, Unwritten
  <2>4. DomainOK(J)
    BY <1>1, <1>2, <2>2 DEF DomainOK, Holding
  <2>5. FlagOK(J)
    <3>1. ~outdated => ~overtaken
      BY DEF PolicyInv, Committed
    <3> QED BY <1>1, <1>2, <2>2, <3>1 DEF FlagOK
  <2>6. ASSUME NEW v \in Worker \ {w}, Busy(v) PROVE Clear(J, job[v]) /\ Clear(job[v], J)
    <3>1. Clear(job[w], job[v]) /\ Clear(job[v], job[w])
      BY <1>1, <2>6, JobFacts
    <3>2. \A d \in Domain : Holds(J, d) <=> Holds(job[w], d)
      BY <1>1, <2>2 DEF Holds, Holding
    <3> QED BY <2>2, <3>1, <3>2 DEF Clear, IsNew
  <2> QED
    BY <1>1, <2>1, <2>3, <2>4, <2>5, <2>6, Advance
<1> QED
  BY <1>3, <1>4

\* What another request's COMMIT leaves a request with: its own part, while nothing
\* has changed what it read.
LEMMA OthersAfterCommit ==
  ASSUME KeptInv, NEW w \in Worker, Commit(w), NEW v \in Worker, v # w
  PROVE  /\ Busy(v)' <=> Busy(v)
         /\ Busy(v) =>
              /\ job'[v].pc = job[v].pc /\ job'[v].kind = job[v].kind
              /\ job'[v].row = job[v].row /\ job'[v].auto = job[v].auto
              /\ job'[v].dom = job[v].dom
              /\ job'[v].gone = job[v].gone /\ job'[v].ins = job[v].ins
              /\ job'[v].fresh => /\ job[v].fresh /\ job'[v].sound = job[v].sound
                                  /\ policies' = policies /\ auto' = auto /\ outdated' = outdated
<1> DEFINE changed == <<MyRows(w), NewAuto(w), NewDomains(w)>> # <<policies, auto, domains>>
<1>1. /\ policies' = MyRows(w) /\ auto' = NewAuto(w) /\ domains' = NewDomains(w)
      /\ outdated' = (outdated \/ (changed /\ ~job[w].fresh))
      /\ job'[v] = IF changed /\ Busy(v) THEN [job[v] EXCEPT !.fresh = FALSE, !.sound = FALSE]
                   ELSE job[v]
  BY DEF Commit
<1>2. Busy(v) => job[v] \in Job
  BY BusyJob DEF KeptInv
<1>3. ~changed => policies' = policies /\ auto' = auto
  BY <1>1
<1>4. outdated \in BOOLEAN
  BY DEF KeptInv, Types
<1> HIDE DEF changed
<1>5. CASE changed /\ Busy(v)
  <2>1. job'[v] = [job[v] EXCEPT !.fresh = FALSE, !.sound = FALSE]
    BY <1>1, <1>5
  <2> QED BY <1>2, <1>5, <2>1 DEF Job, Busy
<1>6. CASE ~(changed /\ Busy(v))
  BY <1>1, <1>3, <1>4, <1>6 DEF Busy
<1> QED
  BY <1>5, <1>6

\* The committed rows after a COMMIT.
LEMMA CommittedCommit ==
  ASSUME PolicyInv, NEW w \in Worker, Commit(w)
  PROVE  Committed'
<1> DEFINE changed == <<MyRows(w), NewAuto(w), NewDomains(w)>> # <<policies, auto, domains>>
<1>1. Busy(w) /\ job[w].pc = "commit"
  BY BusyJob DEF Commit, At, PolicyInv, KeptInv, Step
<1>2. job[w] \in Job /\ JobOK(job[w]) /\ RowsOK(job[w]) /\ DomainOK(job[w]) /\ FlagOK(job[w])
  BY <1>1, JobFacts
<1>3. /\ policies' = (policies \ job[w].gone) \cup job[w].ins
      /\ auto' = NewAuto(w) /\ domains' = NewDomains(w)
      /\ outdated' = (outdated \/ (changed /\ ~job[w].fresh))
      /\ overtaken' = (overtaken \/ (changed /\ ~job[w].sound))
  BY DEF Commit, MyRows
<1>4. ~changed => policies' = policies /\ auto' = auto
  BY <1>3 DEF MyRows
<1> HIDE DEF changed
<1>5. Unique /\ Placed /\ AutoRestrictive /\ (~outdated => ~overtaken)
  BY DEF PolicyInv, Committed
<1>6. Unique'
  <2> SUFFICES ASSUME NEW p \in policies', NEW q \in policies', p.key = q.key \/ p.id = q.id
               PROVE  p = q
    BY DEF Unique
  <2>1. CASE p \in job[w].ins /\ q \in job[w].ins
    BY <1>2, <2>1 DEF RowsOK
  <2>2. CASE p \in job[w].ins /\ q \in policies \ job[w].gone
    BY <1>2, <2>2 DEF RowsOK
  <2>3. CASE q \in job[w].ins /\ p \in policies \ job[w].gone
    BY <1>2, <2>3 DEF RowsOK
  <2>4. CASE p \in policies /\ q \in policies
    BY <1>5, <2>4 DEF Unique
  <2> QED BY <1>3, <2>1, <2>2, <2>3, <2>4
<1>7. Placed'
  <2> SUFFICES ASSUME NEW p \in policies' PROVE p.key.domain \in domains' \cup {Null}
    BY DEF Placed
  <2>1. CASE p \in policies \ job[w].gone
    <3>1. p.key.domain \in domains \cup {Null}
      BY <1>5, <2>1 DEF Placed
    <3>2. job[w].kind = "deleteDomain" => p.key.domain # job[w].dom
      BY <1>1, <1>2, <2>1 DEF DomainOK, Holding, Of
    <3> QED BY <1>3, <3>1, <3>2 DEF NewDomains
  <2>2. CASE p \in job[w].ins
    <3>1. job[w].kind # "deleteDomain"
      BY <1>2, <2>2 DEF DomainOK
    <3> QED BY <1>2, <1>3, <2>2, <3>1 DEF NewDomains, DomainOK
  <2> QED BY <1>3, <2>1, <2>2
<1>8. AutoRestrictive'
  <2> SUFFICES ASSUME ~outdated', auto', NEW p \in Defaults(policies)' PROVE ~p.perm
    BY DEF AutoRestrictive
  <2>1. p \in policies' /\ p.key = Default
    BY DEF Defaults
  <2>2. ~outdated
    BY <1>3
  <2>3. CASE ~changed
    BY <1>4, <1>5, <2>1, <2>2, <2>3 DEF AutoRestrictive, Defaults
  <2>4. CASE changed
    <3>1. job[w].fresh /\ job[w].kind \in Kind
      BY <1>2, <1>3, <2>4 DEF Job
    <3>2. CASE job[w].kind = "saveToken"
      <4>1. job[w].auto
        BY <1>3, <3>2 DEF NewAuto
      <4> QED BY <1>1, <1>2, <1>3, <2>1, <3>1, <3>2, <4>1 DEF FlagOK, Defaults
    <3>3. CASE job[w].kind # "saveToken"
      <4>1. auto
        BY <1>3, <3>3 DEF NewAuto
      <4>2. CASE p \in policies
        BY <1>5, <2>1, <2>2, <4>1, <4>2 DEF AutoRestrictive, Defaults
      <4>3. CASE p \in job[w].ins
        <5>1. job[w].kind \notin {"delete", "deleteDomain"}
          BY <1>2, <4>3 DEF RowsOK, DomainOK
        <5>2. job[w].kind # "createDomain"
          <6> SUFFICES ASSUME job[w].kind = "createDomain" PROVE FALSE
            OBVIOUS
          <6>1. p.key = WholeDomain(job[w].dom) /\ job[w].dom \in Domain
            BY <1>2, <4>3 DEF DomainOK, JobOK
          <6> QED BY <2>1, <6>1, NullAssumption DEF WholeDomain, Default
        <5>3. job[w].kind # "create"
          <6> SUFFICES ASSUME job[w].kind = "create" PROVE FALSE
            OBVIOUS
          <6>1. HasDefault(policies)
            BY <1>5, <2>2, <4>1 DEF PolicyInv, KeptInv, DefaultKept
          <6>2. PICK q \in policies : q.key = Default
            BY <6>1 DEF HasDefault, Defaults
          <6>3. job[w].gone = {}
            BY <1>2 DEF JobOK
          <6> QED BY <1>2, <2>1, <4>3, <6>2, <6>3 DEF RowsOK
        <5>4. CASE job[w].kind = "touch"
          BY <1>2, <4>3, <5>4 DEF FlagOK
        <5>5. CASE job[w].kind = "update"
          BY <1>2, <2>1, <3>1, <4>1, <4>3, <5>5 DEF FlagOK
        <5> QED BY <3>1, <3>3, <5>1, <5>2, <5>3, <5>4, <5>5 DEF Kind
      <4> QED BY <1>3, <2>1, <4>2, <4>3
    <3> QED BY <3>2, <3>3
  <2> QED BY <2>3, <2>4
<1>9. (~outdated => ~overtaken)'
  <2> SUFFICES ASSUME ~outdated' PROVE ~overtaken'
    OBVIOUS
  <2>1. ~outdated /\ ~overtaken
    BY <1>3, <1>5
  <2>2. changed => job[w].fresh
    BY <1>3
  <2>3. changed => job[w].sound
    BY <1>1, <1>2, <2>2 DEF FlagOK
  <2> QED BY <1>3, <2>1, <2>3
<1> QED
  BY <1>6, <1>7, <1>8, <1>9 DEF Committed

\* The others keep what they hold when a request commits, for it held none of that.
LEMMA PolicyCommit ==
  ASSUME PolicyInv, KeptInv', NEW w \in Worker, Commit(w)
  PROVE  PolicyInv'
<1>1. Busy(w) /\ job[w].pc = "commit"
  BY BusyJob DEF Commit, At, PolicyInv, KeptInv, Step
<1>2. job[w] \in Job /\ JobOK(job[w]) /\ RowsOK(job[w]) /\ DomainOK(job[w]) /\ FlagOK(job[w])
  BY <1>1, JobFacts
<1>3. /\ policies' = (policies \ job[w].gone) \cup job[w].ins
      /\ domains' = NewDomains(w) /\ job'[w] = Idle
  BY DEF Commit, MyRows
<1>4. ASSUME NEW v \in Worker, Busy(v)'
      PROVE  /\ v # w /\ Busy(v)
             /\ job'[v].pc = job[v].pc /\ job'[v].kind = job[v].kind
             /\ job'[v].row = job[v].row /\ job'[v].auto = job[v].auto
             /\ job'[v].dom = job[v].dom
             /\ job'[v].gone = job[v].gone /\ job'[v].ins = job[v].ins
             /\ job'[v].fresh => /\ job[v].fresh /\ job'[v].sound = job[v].sound
                                 /\ policies' = policies /\ auto' = auto /\ outdated' = outdated
  <2>1. v # w
    BY <1>3, <1>4 DEF Busy, Idle
  <2> QED BY <1>4, <2>1, OthersAfterCommit DEF PolicyInv
<1>5. ASSUME NEW v \in Worker, Busy(v)'
      PROVE  (RowsOK(job[v]) /\ DomainOK(job[v]) /\ FlagOK(job[v]))'
  <2>1. v # w /\ Busy(v)
    BY <1>4, <1>5
  <2>2. /\ job'[v].pc = job[v].pc /\ job'[v].kind = job[v].kind /\ job'[v].row = job[v].row
        /\ job'[v].auto = job[v].auto /\ job'[v].dom = job[v].dom
        /\ job'[v].gone = job[v].gone /\ job'[v].ins = job[v].ins
        /\ job'[v].fresh => /\ job[v].fresh /\ job'[v].sound = job[v].sound
                      /\ policies' = policies /\ auto' = auto /\ outdated' = outdated
    BY <1>4, <1>5
  <2>3. /\ RowsOK(job[v]) /\ DomainOK(job[v]) /\ FlagOK(job[v]) /\ JobOK(job[v])
        /\ Clear(job[w], job[v]) /\ Clear(job[v], job[w])
    BY <1>1, <2>1, JobFacts
  <2>4. RowsOK(job[v])'
    <3>1. job'[v].gone \subseteq policies'
      BY <1>3, <2>2, <2>3 DEF RowsOK, Clear
    <3>2. \A p \in job'[v].ins, q \in policies' \ job'[v].gone : p.id # q.id /\ p.key # q.key
      BY <1>3, <2>2, <2>3 DEF RowsOK, Clear
    <3>3. IsNew(job[v])' => \A q \in policies' : q.id # job'[v].row.id
      BY <1>3, <2>2, <2>3 DEF RowsOK, Clear, IsNew
    <3> QED BY <2>2, <2>3, <3>1, <3>2, <3>3 DEF RowsOK, IsNew
  <2>5. DomainOK(job[v])'
    <3>1. ASSUME NEW p \in job'[v].ins
          PROVE  \/ p.key.domain \in domains' \cup {Null}
                 \/ job'[v].kind = "createDomain" /\ p.key.domain = job'[v].dom
      <4>1. CASE p.key.domain \in domains \cup {Null}
        <5>1. ASSUME job[w].kind = "deleteDomain" PROVE p.key.domain # job[w].dom
          <6>1. job[w].dom \in Domain /\ Holds(job[w], job[w].dom)
            BY <1>1, <1>2, <5>1 DEF JobOK, Holds, Holding
          <6> QED BY <2>2, <2>3, <3>1, <6>1 DEF Clear
        <5> QED BY <1>3, <4>1, <5>1 DEF NewDomains
      <4>2. CASE p.key.domain \notin domains \cup {Null}
        BY <2>2, <2>3, <3>1, <4>2 DEF DomainOK
      <4> QED BY <4>1, <4>2
    <3>2. job'[v].kind = "createDomain" /\ job'[v].pc \in Holding => job'[v].dom \notin domains'
      <4> SUFFICES ASSUME job'[v].kind = "createDomain", job'[v].pc \in Holding
                   PROVE  job'[v].dom \notin domains'
        OBVIOUS
      <4>1. job[v].dom \in Domain /\ Holds(job[v], job[v].dom) /\ job[v].dom \notin domains
        BY <2>2, <2>3 DEF DomainOK, JobOK, Holds
      <4>2. job[w].dom # job[v].dom
        BY <1>1, <2>3, <4>1 DEF Clear, Holds, Holding
      <4> QED BY <1>3, <2>2, <4>1, <4>2 DEF NewDomains
    <3>3. job'[v].kind = "deleteDomain" /\ job'[v].pc \in Holding =>
            Of(policies', job'[v].dom) \subseteq job'[v].gone
      <4> SUFFICES ASSUME job'[v].kind = "deleteDomain", job'[v].pc \in Holding,
                          NEW p \in policies', p.key.domain = job'[v].dom
                   PROVE  p \in job'[v].gone
        BY DEF Of
      <4>1. /\ job[v].dom \in Domain /\ Holds(job[v], job[v].dom)
            /\ Of(policies, job[v].dom) \subseteq job[v].gone
        BY <2>2, <2>3 DEF DomainOK, JobOK, Holds
      <4>2. p \notin job[w].ins
        BY <2>2, <2>3, <4>1 DEF Clear
      <4> QED BY <1>3, <2>2, <4>1, <4>2 DEF Of
    <3> QED BY <2>2, <2>3, <3>1, <3>2, <3>3 DEF DomainOK, Of
  <2>6. FlagOK(job[v])'
    BY <2>2, <2>3 DEF FlagOK, Defaults
  <2> QED BY <2>4, <2>5, <2>6
<1>6. ASSUME NEW u \in Worker, NEW v \in Worker, u # v, Busy(u)', Busy(v)'
      PROVE  Clear(job[u], job[v])'
  <2>1. Clear(job[u], job[v])
    BY <1>4, <1>6 DEF PolicyInv
  <2>2. /\ job'[u].pc = job[u].pc /\ job'[u].kind = job[u].kind /\ job'[u].row = job[u].row
        /\ job'[u].dom = job[u].dom /\ job'[u].gone = job[u].gone /\ job'[u].ins = job[u].ins
    BY <1>4, <1>6
  <2>3. /\ job'[v].pc = job[v].pc /\ job'[v].kind = job[v].kind /\ job'[v].row = job[v].row
        /\ job'[v].dom = job[v].dom /\ job'[v].gone = job[v].gone /\ job'[v].ins = job[v].ins
    BY <1>4, <1>6
  <2> QED BY <2>1, <2>2, <2>3 DEF Clear, IsNew, Holds
<1> QED
  BY <1>5, <1>6, CommittedCommit DEF PolicyInv

\* Every step preserves the invariant.
LEMMA PolicyStep == PolicyInv /\ [Next]_vars => PolicyInv'
<1> SUFFICES ASSUME PolicyInv, [Next]_vars PROVE PolicyInv'
  OBVIOUS
<1>1. KeptInv'
  BY KeptStep DEF PolicyInv
<1>2. CASE UNCHANGED vars
  BY <1>1, <1>2
     DEF vars, PolicyInv, Committed, Unique, Placed, AutoRestrictive, Defaults, Busy,
         RowsOK, IsNew, DomainOK, FlagOK, Clear, Of
<1>3. ASSUME NEW w \in Worker, Request(w) PROVE PolicyInv'
  BY <1>1, <1>3, PolicyRequest
<1>4. ASSUME NEW w \in Worker, Statement(w) PROVE PolicyInv'
  BY <1>1, <1>4, PolicyClean, PolicyWrite, PolicySave, PolicyCreateDomain, PolicyDeleteDomain
     DEF Statement
<1>5. ASSUME NEW w \in Worker, Check(w) PROVE PolicyInv'
  BY <1>1, <1>5, PolicyCheck
<1>6. ASSUME NEW w \in Worker, PdnsFails(w) PROVE PolicyInv'
  BY <1>1, <1>6, PolicyRollback DEF PdnsFails
<1>7. ASSUME NEW w \in Worker, Commit(w) PROVE PolicyInv'
  BY <1>1, <1>7, PolicyCommit
<1> QED
  BY <1>2, <1>3, <1>4, <1>5, <1>6, <1>7 DEF Next

\* The invariant holds throughout.
LEMMA AlwaysPolicyInv == Spec => []PolicyInv
  BY PolicyInit, PolicyStep, PTL DEF Spec

\* Whatever requests overlap, no two policies of a token share their coordinates or
\* primary key: what checks the unique index when a row is written still holds when
\* it is committed.
THEOREM PoliciesUnique == Spec => []TypeOK
<1>1. PolicyInv => TypeOK
  BY DEF PolicyInv, KeptInv, Committed, Unique, TypeOK
<1> QED
  BY <1>1, AlwaysPolicyInv, PTL

\* As long as no request commits a change that is based on outdated reads, the
\* default policy of a token with auto_policy is restrictive.
THEOREM AutoAlwaysRestrictive == Spec => []AutoRestrictive
<1>1. PolicyInv => AutoRestrictive
  BY DEF PolicyInv, Committed
<1> QED
  BY <1>1, AlwaysPolicyInv, PTL

\* A policy for the whole of a domain that has no policies yet decides on its RRsets
\* and on no others.
LEMMA GrantRule ==
  ASSUME NEW P \in SUBSET Policy, NEW p0 \in Policy, NEW d \in Domain,
         p0.key = WholeDomain(d), p0.perm, \A p \in P : p.key.domain # d,
         NEW r \in RRset
  PROVE  MayWrite(P \cup {p0}, r) <=> r.domain = d \/ MayWrite(P, r)
<1>1. d # Null /\ p0.key.domain = d
  BY NullAssumption DEF WholeDomain
<1>2. CASE r.domain = d
  <2>1. Matches(p0, r)
    BY <1>2 DEF Matches, WholeDomain
  <2>2. ASSUME NEW p \in P, Matches(p, r) PROVE Before(p0, p)
    BY <1>1, <1>2, <2>2 DEF Matches, Before, NullLast
  <2>3. \A p \in GetPolicy(P \cup {p0}, r) : p = p0
    BY <2>1, <2>2 DEF GetPolicy
  <2> QED BY <1>2, <2>3 DEF MayWrite
<1>3. CASE r.domain # d
  <2>1. ~Matches(p0, r)
    BY <1>1, <1>3 DEF Matches
  <2>2. GetPolicy(P \cup {p0}, r) = GetPolicy(P, r)
    BY <2>1 DEF GetPolicy
  <2> QED BY <1>3, <2>2 DEF MayWrite
<1> QED
  BY <1>2, <1>3

\* What a domain created under auto_policy gives the token: the domain, no more and
\* no less, whatever the other requests do until it is committed.
THEOREM AutoPolicyGrantsDomain == Spec => AutoPolicyScope
<1>1. ASSUME PolicyInv, NEW w \in Worker, Commit(w), OfKind(w, {"createDomain"}), job[w].auto,
             NEW r \in RRset
      PROVE  MayWrite(policies', r) <=> r.domain = job[w].dom \/ MayWrite(policies, r)
  <2>1. Busy(w) /\ job[w].pc = "commit" /\ job[w].kind = "createDomain"
    BY <1>1 DEF Commit, At, OfKind
  <2>2. job[w] \in Job /\ JobOK(job[w]) /\ RowsOK(job[w]) /\ DomainOK(job[w])
    BY <1>1, <2>1, JobFacts
  <2>3. job[w].dom \in Domain /\ job[w].gone = {} /\ job[w].dom \notin domains
    BY <2>1, <2>2 DEF JobOK, DomainOK, Holding
  <2>4. PICK p0 \in job[w].ins : p0.key = WholeDomain(job[w].dom) /\ p0.perm
    BY <1>1, <2>1, <2>2 DEF DomainOK
  <2>5. job[w].ins = {p0} /\ p0 \in Policy
    BY <2>2, <2>4 DEF RowsOK, Job
  <2>6. policies' = policies \cup {p0}
    BY <1>1, <2>3, <2>5 DEF Commit, MyRows
  <2>7. policies \in SUBSET Policy /\ \A p \in policies : p.key.domain # job[w].dom
    BY <1>1, <2>3, NullAssumption DEF PolicyInv, KeptInv, Types, Committed, Placed
  <2> QED BY <2>3, <2>4, <2>5, <2>6, <2>7, GrantRule
<1>2. PolicyInv /\ [Next]_vars =>
        [\A w \in Worker : Commit(w) /\ OfKind(w, {"createDomain"}) /\ job[w].auto =>
           \A r \in RRset :
             MayWrite(policies', r) <=> r.domain = job[w].dom \/ MayWrite(policies, r)]_vars
  BY <1>1
<1> QED
  BY <1>2, AlwaysPolicyInv, PTL DEF Spec, AutoPolicyScope
=============================================================================
