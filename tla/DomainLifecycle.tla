--------------------------- MODULE DomainLifecycle ---------------------------
(***************************************************************************)
(* Creation and deletion of domains (views/domains.py, serializers/         *)
(* domains.py, models/domains.py) by concurrent workers.  A request reads    *)
(* the quota and the rules of registration, changes the domain and its zone  *)
(* in one tracker block, and the delegation in the zone of the local public  *)
(* suffix in a second one.  align-catalog-zone rebuilds the catalog zone     *)
(* meanwhile.  Any request to pdns may fail, and takes its block with it.     *)
(*                                                                          *)
(* Abstractions: nslord and nsmaster are one server, the NS and DS RRsets    *)
(* of a delegation one row; quota and rules of registration are read at one    *)
(* moment; the domain's own RRsets are in ChangeTracker.  The local public   *)
(* suffixes belong to the operator and are not requested.                    *)
(***************************************************************************)
EXTENDS Naturals, FiniteSets, SequencesExt

CONSTANTS
  Worker, User, Name,
  Suffix,         \* public suffixes, as the PSL knows them
  Local,          \* settings.LOCAL_PUBLIC_SUFFIXES
  Internal,       \* names under .internal
  ReservedLabel,  \* labels with a reserved prefix
  RegisterLPS,    \* settings.REGISTER_LPS
  Limit,          \* limit_domains of each user
  Registered,     \* the owners of the domains there are at the start
  Operator, Nobody, NoClaim,
  MaxRequests     \* bound on the numbers of requests, which count from 2

ASSUME NameAssumption == Name \subseteq Seq(STRING) \ {<<>>} /\ Local \subseteq Name
ASSUME UserAssumption ==
  /\ Operator \notin User /\ Nobody \notin User \cup {Operator}
  /\ NoClaim \notin Name \cup ((User \cup {Operator}) \X Name)
ASSUME FiniteAssumption ==
  IsFiniteSet(Name) /\ Name # {} /\ IsFiniteSet(Worker) /\ Worker # {}
ASSUME LimitAssumption == Limit \in [User -> Nat] /\ MaxRequests \in Nat \ {0}

VARIABLES
  owner, pk,       \* committed rows of Domain: owner and primary key per name
  deleg,           \* committed delegation rows: 0, or the request that made it
  zones, catalog, served, \* pdns: zones, member zones, delegations served
  there,           \* the catalog zone exists
  job,             \* what each worker is doing
  align,           \* what align-catalog-zone is doing
  num,             \* number of requests accepted so far
  together,        \* history: names claimed by requests at the same time
  mixed,           \* history: names with a failed or an overlapped request
  lagging          \* history: names whose catalog entry was not brought up to date

rows == <<owner, pk, deleg>>
pdns == <<zones, catalog, served, there>>
history == <<together, mixed, lagging>>
vars == <<rows, pdns, job, align, num, history>>

Stage == {"idle", "insert", "erase", "zone", "catalog", "commit",
          "parent", "drop", "keys", "delegate", "patch", "commit2"}
InBlock1 == {"zone", "catalog", "commit"}
Dropped == {"keys", "delegate", "patch", "commit2"}
Claiming == {"insert"} \cup InBlock1

Idle == [stage |-> "idle", kind |-> "create", user |-> Operator,
         name |-> CHOOSE n \in Name : TRUE, pk |-> 0, picked |-> 0]
AlignIdle == [stage |-> "idle", zones |-> {}, missed |-> {}]

At(w, stage) == job[w].stage = stage
Is(w, kind) == job[w].kind = kind
Others(w) == {v \in Worker \ {w} : ~At(v, "idle") /\ job[v].name = job[w].name}
Busy(n) == \E w \in Worker : ~At(w, "idle") /\ job[w].name = n

-----------------------------------------------------------------------------
(* The rules of registration                                                *)

Parent(n) == Tail(n)                       \* parent_domain_name
IsLocallyRegistrable(n) == Parent(n) \in Local

\* public_suffix: the longest one that matches.  When the PSL does not answer,
\* the top level domain stands in for it; local public suffixes are known.
PublicSuffix ==
  [n \in Name, up \in BOOLEAN |->
     LET known == {s \in (IF up THEN Suffix ELSE {<<Last(n)>>}) \cup Local : IsSuffix(s, n)}
     IN CHOOSE s \in known : \A t \in known : Len(t) <= Len(s)]
ASSUME SuffixAssumption ==
  \A n \in Name : /\ \A up \in BOOLEAN : Len(PublicSuffix[n, up]) \in Nat
                  /\ Len(PublicSuffix[n, FALSE]) <= Len(PublicSuffix[n, TRUE])

\* The names that a zone holds: those below it, up to their own public suffix.
Below == {p \in Name \X Name : IsStrictSuffix(p[2], p[1])}
Inside == {p \in Below : Len(p[2]) > Len(PublicSuffix[p[1], TRUE])}

ASSUME RegisteredAssumption ==
  /\ Registered \in [Name -> User \cup {Operator, Nobody}]
  /\ \A n \in Name : Registered[n] = Operator <=> n \in Local
  /\ \A p \in Inside : Nobody \in {Registered[p[1]], Registered[p[2]]}
                          \/ Registered[p[1]] = Registered[p[2]]
  /\ \A u \in User : Cardinality({n \in Name : Registered[n] = u}) <= Limit[u]

Mine(u, m) == owner[m] \in {u, Nobody}
IsCoveredByForeignZone(u, n, up) ==
  \E m \in Name : /\ m = n \/ <<n, m>> \in Below
                  /\ Len(m) > Len(PublicSuffix[n, up]) /\ ~Mine(u, m)
CoversForeignZone(u, n) == \E m \in Name : <<m, n>> \in Below /\ ~Mine(u, m)

IsRegistrableUpwards(u, n, up) ==       \* mutant: covers_foreign_zone forgotten
  n \notin Internal /\ ~IsCoveredByForeignZone(u, n, up)
IsRegistrable(u, n, up) ==
  LET generation == Len(n) - Len(PublicSuffix[n, up]) IN
  /\ n \notin Internal
  /\ generation = 0 => n \in Local
  /\ generation = 1 => Head(n) \notin ReservedLabel
  /\ ~IsCoveredByForeignZone(u, n, up) /\ ~CoversForeignZone(u, n)

Owned(u) == {n \in Name : owner[n] = u}

\* Rows that exist at the start have the key 1, requests count from 2.
Delegated == {n \in Name : owner[n] # Nobody /\ IsLocallyRegistrable(n)}
Init ==
  /\ owner = Registered
  /\ pk = [n \in Name |-> IF owner[n] # Nobody THEN 1 ELSE 0]
  /\ deleg = [n \in Name |-> IF n \in Delegated THEN 1 ELSE 0]
  /\ zones = {n \in Name : owner[n] # Nobody} /\ catalog = zones
  /\ served = Delegated /\ there = TRUE
  /\ job = [w \in Worker |-> Idle] /\ align = AlignIdle
  /\ num = 1 /\ together = {} /\ mixed = {} /\ lagging = {}

-----------------------------------------------------------------------------
(* A request: permissions, validation                                       *)

Goto(w, stage) == job' = [job EXCEPT ![w].stage = stage]
Finish(w) == job' = [job EXCEPT ![w] = Idle]

Free(w) == At(w, "idle") /\ num < MaxRequests

Accept(w, j) ==
  /\ num' = num + 1
  /\ job' = [job EXCEPT ![w] = j]
  /\ mixed' = mixed \cup (IF Busy(j.name) THEN {j.name} ELSE {})
  /\ UNCHANGED <<rows, pdns, align, lagging>>

WithinDomainLimitInclusive(u) ==        \* mutant: off by one
  Cardinality(Owned(u)) <= Limit[u]
WithinDomainLimit(u) == Cardinality(Owned(u)) < Limit[u]

\* The field's UniqueValidator, validate_name, perform_create.
Passes(u, n, up) ==
  owner[n] = Nobody /\ IsRegistrable(u, n, up) /\ (RegisterLPS \/ ~IsLocallyRegistrable(n))

Claims(w) == Is(w, "create") /\ job[w].stage \in Claiming

\* A request that is refused here leaves no trace and is not modelled.
Create(w, u, n) ==
  /\ Free(w) /\ n \notin Local /\ WithinDomainLimit(u)
  /\ \E up \in BOOLEAN : Passes(u, n, up)
  /\ Accept(w, [stage |-> "insert", kind |-> "create", user |-> u, name |-> n,
                pk |-> num + 1, picked |-> 0])
  /\ together' = together \cup {{job[v].name, n} : v \in {v \in Worker : Claims(v)}}

\* get_queryset shows the user's own domains only.
Delete(w, u, n) ==
  /\ Free(w) /\ owner[n] = u
  /\ Accept(w, [stage |-> "erase", kind |-> "delete", user |-> u, name |-> n,
                pk |-> pk[n], picked |-> 0])
  /\ UNCHANGED together

-----------------------------------------------------------------------------
(* The first tracker block: the domain and its zone                         *)

\* An uncommitted row, or a committed one that is being deleted, makes others wait.
Exists(w) == pk[job[w].name] = job[w].pk
Holds(v) == job[v].stage \in InBlock1 /\ (Is(v, "create") \/ Exists(v))

Insert(w) ==
  /\ At(w, "insert")
  /\ \A v \in Others(w) : ~Holds(v)
  /\ IF owner[job[w].name] = Nobody THEN Goto(w, "zone") ELSE Finish(w)
  /\ UNCHANGED <<rows, pdns, align, num, history>>

\* A zone file or a policy that is refused: nothing was sent to pdns yet.
BodyRaises(w) ==
  /\ At(w, "zone") /\ Is(w, "create")
  /\ Finish(w)
  /\ UNCHANGED <<rows, pdns, align, num, history>>

\* An instance that another request has deleted is deleted once more.
Erase(w) ==
  /\ At(w, "erase")
  /\ \A v \in Others(w) : ~(Holds(v) /\ Is(v, "delete"))
  /\ Goto(w, "zone")
  /\ UNCHANGED <<rows, pdns, align, num, history>>

ChangeZone(w) ==
  /\ At(w, "zone")
  /\ (job[w].name \in zones) = Is(w, "delete")
  /\ zones' = IF Is(w, "create") THEN zones \cup {job[w].name} ELSE zones \ {job[w].name}
  /\ Goto(w, "catalog")
  /\ UNCHANGED <<rows, catalog, served, there, align, num, history>>

NoteMissed(n) == IF align.stage = "idle" THEN align.missed ELSE align.missed \cup {n}

UpdateCatalogAdds(w) ==                 \* mutant: the entry is never deleted
  /\ At(w, "catalog") /\ there
  /\ catalog' = catalog \cup {job[w].name}
  /\ align' = [align EXCEPT !.missed = NoteMissed(job[w].name)]
  /\ lagging' = lagging \cup {job[v].name : v \in {v \in Others(w) : At(v, "catalog")}}
  /\ Goto(w, "commit")
  /\ UNCHANGED <<rows, zones, served, there, num, together, mixed>>
UpdateCatalog(w) ==
  /\ At(w, "catalog") /\ there
  /\ catalog' = IF Is(w, "create") THEN catalog \cup {job[w].name} ELSE catalog \ {job[w].name}
  /\ align' = [align EXCEPT !.missed = NoteMissed(job[w].name)]
  /\ lagging' = lagging \cup {job[v].name : v \in {v \in Others(w) : At(v, "catalog")}}
  /\ Goto(w, "commit")
  /\ UNCHANGED <<rows, zones, served, there, num, together, mixed>>

CommitByName(w) ==                      \* mutant: whoever owns the name now loses it
  /\ At(w, "commit")
  /\ owner' = [owner EXCEPT ![job[w].name] = IF Is(w, "create") THEN job[w].user ELSE Nobody]
  /\ pk' = [pk EXCEPT ![job[w].name] = IF Is(w, "create") THEN job[w].pk ELSE 0]
  /\ IF IsLocallyRegistrable(job[w].name) THEN Goto(w, "parent") ELSE Finish(w)
  /\ UNCHANGED <<deleg, pdns, align, num, history>>
CommitKeepsKey(w) ==                    \* mutant: a deleted row keeps its key
  /\ At(w, "commit")
  /\ owner' = [owner EXCEPT ![job[w].name] = IF Is(w, "create") THEN job[w].user ELSE Nobody]
  /\ pk' = [pk EXCEPT ![job[w].name] = IF Is(w, "create") THEN job[w].pk ELSE @]
  /\ IF IsLocallyRegistrable(job[w].name) THEN Goto(w, "parent") ELSE Finish(w)
  /\ UNCHANGED <<deleg, pdns, align, num, history>>
Commit(w) ==
  LET n == job[w].name IN
  /\ At(w, "commit")
  /\ CASE Is(w, "create") ->
            owner' = [owner EXCEPT ![n] = job[w].user] /\ pk' = [pk EXCEPT ![n] = job[w].pk]
       [] Is(w, "delete") /\ Exists(w) ->
            owner' = [owner EXCEPT ![n] = Nobody] /\ pk' = [pk EXCEPT ![n] = 0]
       [] OTHER -> UNCHANGED <<owner, pk>>
  /\ IF IsLocallyRegistrable(n) THEN Goto(w, "parent") ELSE Finish(w)
  /\ UNCHANGED <<deleg, pdns, align, num, history>>

-----------------------------------------------------------------------------
(* The second tracker block: auto_delegate, update_delegation               *)

FindParent(w) ==
  /\ At(w, "parent")
  /\ job' = [job EXCEPT ![w].stage = "drop", ![w].picked = deleg[job[w].name]]
  /\ UNCHANGED <<rows, pdns, align, num, history>>

\* v has deleted the delegation that w selected, too, and may still commit.
Drops(v, row) == job[v].stage \in Dropped /\ job[v].picked = row /\ row # 0

DropDelegation(w) ==
  /\ At(w, "drop")
  /\ \A v \in Others(w) : ~Drops(v, job[w].picked)
  /\ Goto(w, IF Is(w, "create") THEN "keys" ELSE "patch")
  /\ UNCHANGED <<rows, pdns, align, num, history>>

FetchKeys(w) ==
  /\ At(w, "keys") /\ job[w].name \in zones
  /\ Goto(w, "delegate")
  /\ UNCHANGED <<rows, pdns, align, num, history>>

InsertDelegation(w) ==
  LET n == job[w].name IN
  /\ At(w, "delegate")
  /\ \A v \in Others(w) : ~Drops(v, deleg[n]) /\ ~(Is(v, "create") /\ job[v].stage \in {"patch", "commit2"})
  /\ deleg[n] \in {0, job[w].picked}
  /\ Goto(w, "patch")
  /\ UNCHANGED <<rows, pdns, align, num, history>>

PatchKeeps(w) ==                        \* mutant: only new delegations are sent
  /\ At(w, "patch")
  /\ served' = IF Is(w, "create") THEN served \cup {job[w].name} ELSE served
  /\ Goto(w, "commit2")
  /\ UNCHANGED <<rows, zones, catalog, there, align, num, history>>
Patch(w) ==
  /\ At(w, "patch")
  /\ served' = CASE Is(w, "create") -> served \cup {job[w].name}
                 [] Is(w, "delete") /\ job[w].picked # 0 -> served \ {job[w].name}
                 [] OTHER -> served
  /\ Goto(w, "commit2")
  /\ UNCHANGED <<rows, zones, catalog, there, align, num, history>>

Commit2(w) ==
  /\ At(w, "commit2")
  /\ deleg' = [deleg EXCEPT ![job[w].name] =
                 IF Is(w, "create") THEN job[w].pk ELSE IF @ = job[w].picked THEN 0 ELSE @]
  /\ Finish(w)
  /\ UNCHANGED <<owner, pk, pdns, align, num, history>>

\* pdns refuses or does not answer, the parent or the keys are missing, another
\* delegation was inserted, a COMMIT is refused: the open block is rolled back.
Fails(w) ==
  /\ job[w].stage \in InBlock1 \cup {"parent"} \cup Dropped
  /\ mixed' = mixed \cup {job[w].name}
  /\ lagging' = lagging \cup (IF At(w, "catalog") THEN {job[w].name} ELSE {})
  /\ align' = [align EXCEPT !.missed = NoteMissed(job[w].name)]
  /\ Finish(w)
  /\ UNCHANGED <<rows, pdns, num, together>>

-----------------------------------------------------------------------------
(* align-catalog-zone                                                       *)

AlignFetch ==
  /\ align.stage = "idle"
  /\ align' = [stage |-> "purge", zones |-> zones, missed |-> {}]
  /\ UNCHANGED <<rows, pdns, job, num, history>>

AlignPurge ==
  /\ align.stage = "purge"
  /\ there' = FALSE /\ catalog' = {}
  /\ align' = [align EXCEPT !.stage = "create"]
  /\ UNCHANGED <<rows, zones, served, job, num, history>>

\* Requests about to write an entry whose zone may have changed since.
Overlapped == {w \in Worker : At(w, "catalog") /\ job[w].name \in mixed}

AlignCreate ==
  /\ align.stage = "create"
  /\ there' = TRUE /\ catalog' = align.zones
  /\ lagging' = align.missed \cup {job[w].name : w \in Overlapped}
  /\ align' = AlignIdle
  /\ UNCHANGED <<rows, zones, served, job, num, together, mixed>>

AlignFails ==
  /\ align.stage # "idle"
  /\ align' = AlignIdle
  /\ UNCHANGED <<rows, pdns, job, num, history>>

-----------------------------------------------------------------------------
NewRequest(w) == \E u \in User, n \in Name : Create(w, u, n) \/ Delete(w, u, n)

Step(w) ==
  \/ Insert(w) \/ BodyRaises(w) \/ Erase(w) \/ ChangeZone(w)
  \/ UpdateCatalog(w) \/ Commit(w)
  \/ FindParent(w) \/ DropDelegation(w) \/ FetchKeys(w) \/ InsertDelegation(w)
  \/ Patch(w) \/ Commit2(w) \/ Fails(w)

Align == AlignFetch \/ AlignPurge \/ AlignCreate \/ AlignFails

Next == (\E w \in Worker : NewRequest(w) \/ Step(w)) \/ Align

Spec == Init /\ [][Next]_vars

-----------------------------------------------------------------------------
(* Properties                                                               *)

JobType ==
  [stage : Stage, kind : {"create", "delete"}, user : User \cup {Operator}, name : Name,
   pk : 0 .. MaxRequests, picked : 0 .. MaxRequests]
\* The types; a row has an owner and a key of its own.
TypeOK ==
  /\ \A n \in Name : owner[n] = Nobody <=> pk[n] = 0
  /\ \A m, n \in Name : pk[m] = pk[n] /\ pk[n] > 1 => m = n
  /\ owner \in [Name -> User \cup {Operator, Nobody}]
  /\ pk \in [Name -> 0 .. MaxRequests] /\ deleg \in [Name -> 0 .. MaxRequests]
  /\ zones \subseteq Name /\ catalog \subseteq Name /\ served \subseteq Name
  /\ there \in BOOLEAN /\ num \in 0 .. MaxRequests
  /\ job \in [Worker -> JobType]
  /\ align \in [stage : {"idle", "purge", "create"}, zones : SUBSET Name, missed : SUBSET Name]
  /\ together \subseteq SUBSET Name /\ mixed \subseteq Name /\ lagging \subseteq Name

\* No domain lies in the zone of another user, unless both names passed
\* validation before either was stored (is_covered_by_foreign_zone and
\* covers_foreign_zone read what is committed).
Exclusive ==
  \A m, n \in Name :
    <<n, m>> \in Inside /\ Nobody \notin {owner[m], owner[n]} /\ owner[m] # owner[n]
      => {m, n} \in together

\* WithinDomainLimit counts before the domain is stored: a user can exceed the
\* limit by one domain for each other worker, and never by more.
LimitOvershoot ==
  \A u \in User : Cardinality(Owned(u)) <= Limit[u] + Cardinality(Worker) - 1

\* Where no request on a name failed or met another one: the domain is stored
\* iff its zone exists, and it is delegated, in the database and on pdns, iff
\* its parent is a local public suffix.
Agreement ==
  \A n \in Name \ (mixed \cup Local) :
    ~Busy(n) =>
      /\ n \in zones <=> owner[n] # Nobody
      /\ (deleg[n] # 0) <=> (owner[n] # Nobody /\ IsLocallyRegistrable(n))
      /\ n \in served <=> deleg[n] # 0

\* The catalog zone lists the zones that exist, also after align-catalog-zone,
\* except those whose entry a request changed while the command was at work, or
\* failed to change.
CatalogAgrees ==
  there => \A n \in Name \ lagging :
    \/ \E w \in Worker : At(w, "catalog") /\ job[w].name = n
    \/ n \in catalog <=> n \in zones

Claim(w) == IF Claims(w) THEN <<job[w].user, job[w].name>> ELSE NoClaim
Leaves(w) == Is(w, "delete") /\ job[w].stage \in {"erase"} \cup InBlock1 /\ Exists(w)
R == INSTANCE Registry WITH
       User <- User \cup {Operator}, Request <- Worker,
       claim <- [w \in Worker |-> Claim(w)],
       leaving <- [w \in Worker |-> IF Leaves(w) THEN job[w].name ELSE NoClaim]

\* The requests implement the registry: stale instances, failing blocks and
\* retries never give a name to two users or take it from its owner.
RegistryKept == R!Spec
=============================================================================
