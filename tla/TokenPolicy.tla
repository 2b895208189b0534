----------------------------- MODULE TokenPolicy -----------------------------
(***************************************************************************)
(* The scoping policies of one API token (desecapi/models/tokens.py): which *)
(* policy decides on an RRset, when a domain may be deleted, and how        *)
(* concurrent requests change the policies, the auto_policy flag and the    *)
(* domains of the token's user.                                             *)
(*                                                                          *)
(* A request validates against committed rows (clean), writes inside a      *)
(* transaction, and is checked once more by deferred triggers when it       *)
(* commits.  Each of these is a step of its own: between them, other        *)
(* requests read and commit.  PostgreSQL (READ COMMITTED) contributes row   *)
(* locks, the unique index, foreign keys and the moment of the triggers.    *)
(***************************************************************************)
EXTENDS Naturals, FiniteSets

CONSTANTS
  Worker,                 \* processes that serve requests
  Domain, Subname, Type,  \* coordinates of RRsets
  Null,                   \* an unset coordinate of a policy
  Pattern,                \* (domain, subname, type) of the policies requested
  Id                      \* primary keys (bound: no more policies at a time)

Coordinates == [domain : Domain \cup {Null}, subname : Subname \cup {Null},
                type : Type \cup {Null}]
Default == [domain |-> Null, subname |-> Null, type |-> Null]
WholeDomain(d) == [domain |-> d, subname |-> Null, type |-> Null]

ASSUME IdAssumption == Id # {}
ASSUME PatternAssumption ==
  /\ Pattern \subseteq Coordinates /\ Default \in Pattern
  /\ \A d \in Domain : WholeDomain(d) \in Pattern

RRset == [domain : Domain, subname : Subname, type : Type]
Policy == [id : Id, key : Coordinates, perm : BOOLEAN]

ASSUME NullAssumption == Null \notin Domain \cup Subname \cup Type \cup Policy

-----------------------------------------------------------------------------
(* Decisions                                                                *)

\* The filter of get_policy: each coordinate is the RRset's, or null.
Matches(p, r) ==
  /\ p.key.domain \in {r.domain, Null}
  /\ p.key.subname \in {r.subname, Null}
  /\ p.key.type \in {r.type, Null}

\* ORDER BY domain, subname, type with nulls last, for rows that match one RRset:
\* of two different coordinates, one is null.
NullFirst(a, b) == a = Null /\ b # Null    \* mutant: descending order
NullLast(a, b) == a # Null /\ b = Null
Before(p, q) ==
  \/ NullLast(p.key.domain, q.key.domain)
  \/ /\ p.key.domain = q.key.domain
     /\ \/ NullLast(p.key.subname, q.key.subname)
        \/ p.key.subname = q.key.subname /\ NullLast(p.key.type, q.key.type)

\* get_policy(rrset): the first row, or none.
GetPolicy(P, r) ==
  {p \in P : Matches(p, r) /\ \A q \in P : Matches(q, r) => ~Before(q, p)}

\* TokenHasRRsetPermission: no policy at all permits everything.
MayWrite(P, r) == \A p \in GetPolicy(P, r) : p.perm

\* get_policy() without an RRset finds the default policy.
Defaults(P) == {p \in P : p.key = Default}
HasDefault(P) == Defaults(P) # {}

Of(P, d) == {p \in P : p.key.domain = d}

\* mutant: restrictions of this domain only
CanSafelyDeleteOwn(P, d) == \A p \in Of(P, d) : p.perm
CanSafelyDelete(P, d) ==
  /\ \A p \in Of(P, d) : p.perm
  /\ \/ \E p \in P : p.key = WholeDomain(d) /\ p.perm
     \/ \A p \in Of(P, Null) : p.perm

-----------------------------------------------------------------------------
VARIABLES
  policies,    \* committed rows of TokenDomainPolicy
  auto,        \* Token.auto_policy, committed
  domains,     \* domains of the token's user, committed
  job,         \* the request each worker is busy with
  outdated,    \* history: a request committed after another had changed what
               \* it read when it began
  overtaken    \* history: ... what its deferred triggers had read

vars == <<policies, auto, domains, job, outdated, overtaken>>

Kind == {"create", "update", "delete", "saveToken", "touch", "createDomain", "deleteDomain"}
Idle == [pc |-> "idle"]
Step == {"clean", "write", "fill", "grant", "insert", "drop", "check", "commit"}

\* row: the policy as the request wants it, until it is written, auto: the token's
\* flag as loaded or to be saved, gone and ins: rows of the open transaction, fresh and sound:
\* nobody has committed since the request, or its triggers, began to read (kept
\* until the history variables are set).
Job == [pc : Step, kind : Kind, row : Policy \cup {Null}, auto : BOOLEAN,
        dom : Domain \cup {Null}, gone : SUBSET Policy, ins : SUBSET Policy,
        fresh : BOOLEAN, sound : BOOLEAN]

Busy(w) == job[w].pc # "idle"
At(w, step) == job[w].pc = step
OfKind(w, kinds) == Busy(w) /\ job[w].kind \in kinds
Rivals(w) == {v \in Worker \ {w} : Busy(v)}

\* What a statement of w sees: committed rows and its own.
MyRows(w) == (policies \ job[w].gone) \cup job[w].ins

UsedIds == {p.id : p \in policies} \cup
           UNION {{p.id : p \in job[w].gone \cup job[w].ins \cup ({job[w].row} \ {Null})} :
                  w \in {v \in Worker : Busy(v)}}
IdLeft == Id \ UsedIds # {}
NewId == CHOOSE i \in Id : i \notin UsedIds
FirstId == CHOOSE i \in Id : TRUE

Init ==
  /\ auto \in BOOLEAN
  /\ policies = IF auto THEN {[id |-> FirstId, key |-> Default, perm |-> FALSE]}
                ELSE {}
  /\ domains = {}
  /\ job = [w \in Worker |-> Idle]
  /\ outdated = FALSE /\ overtaken = FALSE

committed == <<policies, auto, domains, outdated, overtaken>>

Rollback(w) == job' = [job EXCEPT ![w] = Idle]
Goto(w, step) == job' = [job EXCEPT ![w].pc = step]

-----------------------------------------------------------------------------
(* The requests: what is loaded when they begin                             *)

Accept(w, step, kind, row, flag, d) ==
  /\ ~Busy(w)
  /\ job' = [job EXCEPT ![w] =
       [pc |-> step, kind |-> kind, row |-> row, auto |-> flag, dom |-> d,
        gone |-> {}, ins |-> {}, fresh |-> ~outdated, sound |-> FALSE]]
  /\ UNCHANGED committed

Requestable(k) == k.domain \in domains \cup {Null}

CreatePolicy(w, k, b) ==
  /\ Requestable(k) /\ IdLeft
  /\ Accept(w, "clean", "create", [id |-> NewId, key |-> k, perm |-> b], FALSE, Null)

\* PUT, or PATCH that leaves some of the fields as they were loaded.
UpdatePolicy(w, p, k, b) ==
  /\ p \in policies /\ Requestable(k)
  /\ Accept(w, "clean", "update", [id |-> p.id, key |-> k, perm |-> b], auto, Null)

DeletePolicy(w, p) ==
  /\ p \in policies
  /\ Accept(w, "clean", "delete", p, auto, Null)

\* PUT or PATCH of the token; every field is saved, auto_policy too.
SaveToken(w, b) == Accept(w, "clean", "saveToken", Null, b, Null)

\* Authentication with the token: save(update_fields=["last_used"]) skips clean.
Touch(w) == Accept(w, "write", "touch", Null, auto, Null)

\* own: the request is authorized by this token, not by another of the user's.
CreateDomain(w, d, own) ==
  /\ d \in Domain \ domains
  /\ Accept(w, "write", "createDomain", Null, own /\ auto, d)

DeleteDomain(w, d, own) ==
  /\ d \in domains /\ (own => CanSafelyDelete(policies, d))
  /\ Accept(w, "write", "deleteDomain", Null, FALSE, d)

-----------------------------------------------------------------------------
(* Validation                                                               *)

IsDefault(row) == \E p \in Defaults(policies) : p.id = row.id

\* mutant: the default policy may be relaxed although auto_policy is in effect
RefusedLax(w) ==
  LET row == job[w].row IN
  CASE job[w].kind = "create" -> ~HasDefault(policies) /\ row.key # Default
    [] job[w].kind = "update" -> IsDefault(row) # (row.key = Default)
    [] job[w].kind = "delete" ->
         IsDefault(row) /\ (job[w].auto \/ \E p \in policies : p.id # row.id)
    [] job[w].kind = "saveToken" -> job[w].auto /\ \E p \in Defaults(policies) : p.perm

Refused(w) ==
  LET row == job[w].row IN
  CASE job[w].kind = "create" -> ~HasDefault(policies) /\ row.key # Default
    [] job[w].kind = "update" ->
         \/ IsDefault(row) # (row.key = Default)
         \/ row.perm /\ IsDefault(row) /\ job[w].auto
    [] job[w].kind = "delete" ->
         IsDefault(row) /\ (job[w].auto \/ \E p \in policies : p.id # row.id)
    [] job[w].kind = "saveToken" -> job[w].auto /\ \E p \in Defaults(policies) : p.perm

Clean(w) ==
  /\ At(w, "clean")
  /\ IF Refused(w) THEN Rollback(w) ELSE Goto(w, "write")
  /\ UNCHANGED committed

-----------------------------------------------------------------------------
(* Statements                                                               *)

\* Another transaction holds the row, or an entry of the unique index.
RowBusy(w, id) ==
  \E v \in Rivals(w) : \E p \in job[v].gone \cup job[v].ins : p.id = id
KeyBusy(w, k) ==
  \E v \in Rivals(w) : \E p \in job[v].gone \cup job[v].ins : p.key = k
DomainBusy(w, d) ==
  d # Null /\ \E v \in Rivals(w) :
    job[v].dom = d /\ job[v].pc \in {"grant", "insert", "check", "commit"}
TokenBusy(w) ==
  \E v \in Rivals(w) : /\ job[v].kind \in {"saveToken", "touch"}
                       /\ job[v].pc \in {"fill", "insert", "check", "commit"}

\* mutant: unique_policy treats nulls as distinct
PutNullsDistinct(w, old, row) ==
  /\ ~KeyBusy(w, row.key) /\ ~DomainBusy(w, row.key.domain)
  /\ IF row.key.domain \in domains \cup {Null, job[w].dom}
       THEN job' = [job EXCEPT ![w] =
              [@ EXCEPT !.gone = old, !.ins = {row}, !.row = Null, !.pc = "check"]]
       ELSE Rollback(w)
  /\ UNCHANGED committed

\* INSERT of a row, or UPDATE of the rows old; IntegrityError (409) if another
\* policy has these coordinates or the domain is gone.
Put(w, old, row) ==
  /\ ~KeyBusy(w, row.key) /\ ~DomainBusy(w, row.key.domain)
  /\ IF /\ \A p \in policies \ old : p.key # row.key
        /\ row.key.domain \in domains \cup {Null, job[w].dom}
       THEN job' = [job EXCEPT ![w] =
              [@ EXCEPT !.gone = old, !.ins = {row}, !.row = Null, !.pc = "check"]]
       ELSE Rollback(w)
  /\ UNCHANGED committed

Stored(w) == {p \in policies : p.id = job[w].row.id}

InsertPolicy(w) == At(w, "write") /\ OfKind(w, {"create"}) /\ Put(w, {}, job[w].row)

\* Model.save(): an UPDATE that finds no row is followed by an INSERT.
SavePolicy(w) ==
  /\ At(w, "write") /\ OfKind(w, {"update"})
  /\ ~RowBusy(w, job[w].row.id)
  /\ Put(w, Stored(w), job[w].row)

RemovePolicy(w) ==
  /\ At(w, "write") /\ OfKind(w, {"delete"})
  /\ ~RowBusy(w, job[w].row.id)
  /\ job' = [job EXCEPT ![w] = [@ EXCEPT !.gone = Stored(w), !.row = Null, !.pc = "check"]]
  /\ UNCHANGED committed

UpdateToken(w) ==
  /\ At(w, "write") /\ OfKind(w, {"saveToken", "touch"})
  /\ ~TokenBusy(w)
  /\ Goto(w, "fill")
  /\ UNCHANGED committed

\* Token.save(): "if self.auto_policy and self.get_policy() is None"
Fill(w) ==
  /\ At(w, "fill")
  /\ Goto(w, IF job[w].auto /\ ~HasDefault(policies) THEN "insert" ELSE "check")
  /\ UNCHANGED committed

InsertDefault(w) ==
  /\ At(w, "insert") /\ OfKind(w, {"saveToken", "touch"}) /\ IdLeft
  /\ Put(w, {}, [id |-> NewId, key |-> Default, perm |-> FALSE])

\* Bound: a domain that is created again is a new row, so a member of Domain is
\* not used again while a request still refers to the row it stood for.
Held(w, d) ==
  d \notin domains /\ \E v \in Rivals(w) :
    \/ OfKind(v, {"deleteDomain"}) /\ job[v].dom = d
    \/ job[v].row # Null /\ job[v].row.key.domain = d

InsertDomain(w) ==
  /\ At(w, "write") /\ OfKind(w, {"createDomain"})
  /\ ~DomainBusy(w, job[w].dom) /\ ~Held(w, job[w].dom)
  /\ IF job[w].dom \in domains THEN Rollback(w)
     ELSE Goto(w, IF job[w].auto THEN "grant" ELSE "check")
  /\ UNCHANGED committed

\* perform_create, inside the tracker block: clean of the new policy.
Grant(w) ==
  /\ At(w, "grant")
  /\ IF HasDefault(policies) THEN Goto(w, "insert") ELSE Rollback(w)
  /\ UNCHANGED committed

InsertGrantRestrictive(w) ==         \* mutant: perm_write has its default
  /\ At(w, "insert") /\ OfKind(w, {"createDomain"}) /\ IdLeft
  /\ Put(w, {}, [id |-> NewId, key |-> WholeDomain(job[w].dom), perm |-> FALSE])
InsertGrant(w) ==
  /\ At(w, "insert") /\ OfKind(w, {"createDomain"}) /\ IdLeft
  /\ Put(w, {}, [id |-> NewId, key |-> WholeDomain(job[w].dom), perm |-> TRUE])

\* Deleting a domain: first the policies that cascade, then the row itself,
\* which waits for transactions that refer to it.
Cascade(w) ==
  /\ At(w, "write") /\ OfKind(w, {"deleteDomain"})
  /\ \A p \in Of(policies, job[w].dom) : ~RowBusy(w, p.id)
  /\ job' = [job EXCEPT ![w].gone = Of(policies, job[w].dom), ![w].pc = "drop"]
  /\ UNCHANGED committed

DropDomain(w) ==
  /\ At(w, "drop")
  /\ ~DomainBusy(w, job[w].dom)
  /\ \A v \in Rivals(w) : Of(job[v].ins, job[w].dom) = {}
  /\ IF Of(policies, job[w].dom) \subseteq job[w].gone THEN Goto(w, "check") ELSE Rollback(w)
  /\ UNCHANGED committed

-----------------------------------------------------------------------------
(* COMMIT: the deferred triggers, then the commit itself                    *)

\* default_policy_primacy, token_auto_policy, default_policy_when_auto_policy
TriggersPassNoPrimacy(w) ==          \* mutant: the first trigger is missing
  /\ OfKind(w, {"saveToken"}) /\ job[w].auto => HasDefault(MyRows(w))
  /\ OfKind(w, {"delete"}) /\ HasDefault(job[w].gone) => ~auto
TriggersPass(w) ==
  /\ job[w].gone \cup job[w].ins # {} /\ MyRows(w) # {} => HasDefault(MyRows(w))
  /\ OfKind(w, {"saveToken"}) /\ job[w].auto => HasDefault(MyRows(w))
  /\ OfKind(w, {"delete"}) /\ HasDefault(job[w].gone) => ~auto

Check(w) ==
  /\ At(w, "check")
  /\ IF TriggersPass(w) THEN job' = [job EXCEPT ![w].pc = "commit", ![w].sound = ~overtaken]
     ELSE Rollback(w)
  /\ UNCHANGED committed

\* The requests to pdns come before the COMMIT and may fail.
PdnsFails(w) ==
  /\ At(w, "check") /\ OfKind(w, {"createDomain", "deleteDomain"})
  /\ Rollback(w)
  /\ UNCHANGED committed

NewAuto(w) == IF job[w].kind = "saveToken" THEN job[w].auto ELSE auto
NewDomains(w) ==
  CASE job[w].kind = "createDomain" -> domains \cup {job[w].dom}
    [] job[w].kind = "deleteDomain" -> domains \ {job[w].dom}
    [] OTHER -> domains

Commit(w) ==
  /\ At(w, "commit")
  /\ policies' = MyRows(w) /\ auto' = NewAuto(w) /\ domains' = NewDomains(w)
  /\ LET changed == <<MyRows(w), NewAuto(w), NewDomains(w)>> # <<policies, auto, domains>> IN
     /\ outdated' = (outdated \/ (changed /\ ~job[w].fresh))
     /\ overtaken' = (overtaken \/ (changed /\ ~job[w].sound))
     /\ job' = [v \in Worker |->
          IF v = w THEN Idle
          ELSE IF changed /\ Busy(v) THEN [job[v] EXCEPT !.fresh = FALSE, !.sound = FALSE]
          ELSE job[v]]

-----------------------------------------------------------------------------
Request(w) ==
  \/ \E k \in Pattern, b \in BOOLEAN : CreatePolicy(w, k, b)
  \/ \E p \in policies, k \in Pattern, b \in BOOLEAN : UpdatePolicy(w, p, k, b)
  \/ \E p \in policies : DeletePolicy(w, p)
  \/ \E b \in BOOLEAN : SaveToken(w, b)
  \/ Touch(w)
  \/ \E d \in Domain, own \in BOOLEAN : CreateDomain(w, d, own) \/ DeleteDomain(w, d, own)

Statement(w) ==
  \/ Clean(w) \/ InsertPolicy(w) \/ SavePolicy(w) \/ RemovePolicy(w)
  \/ UpdateToken(w) \/ Fill(w) \/ InsertDefault(w)
  \/ InsertDomain(w) \/ Grant(w) \/ InsertGrant(w) \/ Cascade(w) \/ DropDomain(w)

Next == \E w \in Worker : Request(w) \/ Statement(w) \/ Check(w) \/ PdnsFails(w) \/ Commit(w)

Spec == Init /\ [][Next]_vars

-----------------------------------------------------------------------------
(* Properties                                                               *)

\* The types, and that no two policies of a token have the same coordinates or
\* primary key (unique_policy), however requests overlap.
Types ==
  /\ policies \subseteq Policy /\ auto \in BOOLEAN /\ domains \subseteq Domain
  /\ job \in [Worker -> Job \cup {Idle}]
  /\ outdated \in BOOLEAN /\ overtaken \in BOOLEAN
TypeOK == Types /\ \A p, q \in policies : p.key = q.key \/ p.id = q.id => p = q

\* The policy that get_policy finds is the one that the documentation's table of
\* priorities 1 to 8 names (docs/auth/tokens.rst, "Token Scoping: Policies").
Priority(p) ==
  1 + (IF p.key.domain = Null THEN 4 ELSE 0)
    + (IF p.key.subname = Null THEN 2 ELSE 0)
    + (IF p.key.type = Null THEN 1 ELSE 0)
ByPriority(P, r) ==
  {p \in P : Matches(p, r) /\ \A q \in P : Matches(q, r) => Priority(p) <= Priority(q)}
DocumentedPriority == \A r \in RRset : GetPolicy(policies, r) = ByPriority(policies, r)

\* A token that may delete a domain may write every RRset of it: deletion is no
\* way around a policy that protects some of them.
SafeDeletion ==
  \A d \in Domain : CanSafelyDelete(policies, d) =>
    \A r \in RRset : r.domain = d => MayWrite(policies, r)

\* Although requests decide on what they read earlier, the triggers keep a default
\* policy wherever there are policies or auto_policy is set, as long as nothing
\* is committed between the triggers of a transaction and its COMMIT.
DefaultKept ==
  ~overtaken => (policies # {} \/ auto => HasDefault(policies))

\* While auto_policy is set the default policy is restrictive.  No trigger checks
\* this, so it holds only as long as no request commits on outdated reads.
AutoRestrictive ==
  ~outdated /\ auto => \A p \in Defaults(policies) : ~p.perm

\* A domain created under auto_policy can be written by the token, and the token
\* gains and loses nothing on other domains.
AutoPolicyScope ==
  [][\A w \in Worker : Commit(w) /\ OfKind(w, {"createDomain"}) /\ job[w].auto =>
       \A r \in RRset :
         MayWrite(policies', r) <=> r.domain = job[w].dom \/ MayWrite(policies, r)]_vars

\* "Ensure that if there is *any* domain policy for a given token, there is always
\* one with domain=None." (models/tokens.py:282)
DefaultPrimacy == policies # {} => HasDefault(policies)
=============================================================================
