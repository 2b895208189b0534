# A TLA+ model of desec-stack

deSEC is a DNS hosting service: a Django REST API (`api/desecapi`) in front of
PowerDNS.  The API's PostgreSQL database is the authority on users, tokens,
domains and RRsets; `nslord` (hidden primary, signing) and `nsmaster`
(distributing secondary, holder of the catalog zone) must follow it.  Everything
that makes the service hard to get right sits between these stores: one database
transaction, several requests to two servers that know nothing of transactions,
and up to 128 API processes that do this at the same time.

Paths below are relative to the repository; `desecapi/` stands for
`api/desecapi/`.

## 1. Inventory

| component | state | operations | depends on |
|---|---|---|---|
| **PDNS change tracker** `pdns_change_tracker.py`, `pdns.py`, `pch.py` | five sets of pending changes, an open transaction; on the other side the zones of nslord and nsmaster, the catalog zone, nsmaster's AXFR queue | `__enter__`, the signal handlers for Domain, RRset and RR, `__exit__` (compute, send, commit, AXFR) | called by every writer of domains and RRsets |
| **RRset requests** `views/records.py`, `serializers/records.py`, `models/records.py` | rows of RRset and RR | POST, PUT, PATCH, DELETE, single and bulk | a tracker block per request |
| **dynDNS update** `views/dyndns.py` | none of its own; reads and writes A and AAAA | find host names and addresses in a GET request, renumber stored addresses | a bulk PATCH of RRsets |
| **sync-to-pdns** | none of its own | recreate and overwrite the zones of domains | uses the tracker's change classes without its sets |
| **Domain lifecycle** `views/domains.py`, `models/domains.py`, `serializers/domains.py` | rows of Domain, delegation RRsets in the parent | create (with coverage rules and a limit), delegate, delete | two tracker blocks per request, in separate transactions |
| **align-catalog-zone** | none of its own | rebuild the catalog from nslord's list of zones | races with creation and deletion |
| **Token policies** `models/tokens.py`, `serializers/tokens.py`, `views/tokens.py`, `permissions.py` | tokens, their policies, `auto_policy` | policy create, update, delete; token update; permission checks | triggers of the database run at COMMIT |
| **Renewal** `scavenge-unused.py` | `renewal_state`, `renewal_changed`, `touched`, `published` | renew, notify, warn, delete | mails authenticated actions, deletes through the tracker |
| **Authenticated actions** `*/authenticated_actions.py`, `crypto.py` | none: a code carries a hash of the state it was made for | confirm (late, twice, concurrently) | users, MFA, domains, renewal |
| **Users, sessions, MFA** `users.py`, `mfa.py`, `authentication.py` | users, login tokens, TOTP factors with the last time step | register, activate, log in, verify, change email or password, delete | authenticated actions |
| **Captcha, throttling, serial list** | rows or cache entries | verify once; count requests; cached answer with a sentinel | cache, read-modify-write |
| **Operator commands** `stop-abuse`, `limit`, `chores`, `check-secondaries`, `outreach-email`, `sync-from-pdns` | none of their own | full saves, deletions, mails | the same rows as the API |
| **Web application, containers, mail, metrics, donations, record syntax** | none that matters here | | |

How they interact: an API worker authenticates a token, checks its policies,
validates the payload against committed rows and enters a tracker block.  Django
signals report every change of a Domain, RRset or RR to the tracker.  At the end
of the block the tracker turns its sets into requests to nslord and nsmaster,
commits, and tells nsmaster to fetch what changed.  nsmaster does so some time
later.  Commands run by cron or by an operator do the same in processes of their
own.

What is hard: requests cannot be undone when a later one fails; COMMIT comes after
them and can fail; a request may be applied although its answer is lost; READ
COMMITTED lets each statement of a request see other rows; signals speak of types
and subnames, statements of primary keys; validation, permission checks and domain
limits are read before the transaction that relies on them; renewal and account
actions read a row, wait for a human or a mail, and write it later.

What makes each component correct is listed with its hazards in `PROJECT.json`.
In one line each: *tracker*: what is committed is what pdns has, except where a
request failed, and there sync-to-pdns repairs it; *requests*: what concurrent
requests publish is what they store; *domains*: no two users hold nested names, the
parent delegates exactly the children that exist; *policies*: a token writes and
deletes exactly what its most specific policy allows, and a restricted token never
becomes unrestricted; *renewal*: a domain is deleted only after two notices and only
if nobody used it; *account actions*: a code acts at most once and only on the state
it was issued for.

## 2. Plan

| order | modules | status |
|---|---|---|
| 1 | `ChangeTracker`, `ChangeTrackerInv`, `ChangeTrackerProofs`, `MCChangeTracker`: one process, two servers, failures | done: checked, and every safety property proved |
| 2 | `RRsetRequests`, `RRsetRequestsProofs`, `MCRRsetRequests`: several processes, one database | done: checked, and every safety property proved |
| 2b | `SyncToPdns`, `MCSyncToPdns`, theorems in `RRsetRequestsProofs`: sync-to-pdns as one more actor next to the requests of `RRsetRequests`, each of its reads a step | done; every property proved, but `AppliedExactly` without the command only |
| 3 | `TokenPolicy`, `MCTokenPolicy`, `TokenPolicyProofs`: precedence of policies and `can_safely_delete_domain` as operators; requests on policies, flag and domains, with validation, triggers and COMMIT as separate steps | done; every property proved; to add: `user_override` with its trigger |
| 4 | `Registry`, abstract: claims on names and their owners; `DomainLifecycle`: registration, delegation, deletion and align-catalog-zone as concurrent actors, shown to implement `Registry`; `RegistryProofs`, `DomainLifecycleProofs`, `MCDomainLifecycle` | done; every property proved |
| 5 | `Renewal`, `RenewalProofs`, `MCRenewal`: the four passes of scavenge-unused against owners, confirmations and failures; days pass | done; safety proved |
| 6 | `AccountActions`, `AccountActionsProofs`, `MCAccountActions`: codes, activation, credentials, TOTP, captcha, locks | done; every property proved |
| 7 | `DynDns`, `DynDnsProofs`, `MCDynDns`: what an update request means, and what it does to records that others write | done; every property proved |

`RRsetRequests` abstracts a block's set keeping to what `ChangeTracker` shows about
it (one item is in `adds`, `mods`, `dels` by the same rules) and adds what
`ChangeTracker` leaves out, other processes.  `DomainLifecycle`
looks at a block from outside: it may fail before or after each of its requests, the
outcomes that ChangeTracker's invariants leave.  `Renewal` takes a deletion, and
`DynDns` a bulk PATCH, as the one step that `DomainLifecycle` and `RRsetRequests`
resolve further.

## 3. Modules and the code

**ChangeTracker.**  `dbDom`, `dbRR` are the committed rows and `dom`, `rr` what the
open transaction sees.  The body of a block is any sequence of the model
operations; each action does what the operation does to the rows *and* what the
signal handler does to the sets (`RRsetCreated` is `post_save(created=True)` of an
RRset, and so on; `DomainDeleted` includes the cascade over RRs and RRsets).
`stage` is the program counter of `__exit__`: `ComputeChanges`, then per change
`BeginDelete` or `BeginUpdate`, one `RequestSucceeds` per HTTP request in the order
of the code, `InsertDefaultNS` for `api_do`, `PchSucceeds` for `pch_do`, `Commit`,
`RequestAxfr`.  `ChangeFails` may replace any of them: the request fails or is
applied nevertheless, the transaction is rolled back.  A crash of the process is the
same step, because PostgreSQL rolls back then.  `Transfer` is nsmaster.
`SyncBegin` to `SyncFails` are `_sync_domain`; its PATCH (`ReplaceZone`) is computed as
in the code, from what the database has (`SyncModifications`) and what only the zone has
(`SyncDeletions`), and leaves the rest of the zone alone (`Synced`).

`CallerDiscipline` states how the callers in the repository use a block: an RRset
that is deleted and created again in one block is neither deleted once more nor left
empty.  Without it the sets lose the deletion (created again removes it from
`deletions`, and an empty addition is filtered).  Callers that recreate RRsets are
`update_delegation` and `stop-abuse`; both write records into them.  (A child all of
whose keys lack DS records would break it: see the hazard at
`models/domains.py:278`.)

`driftZones` and `driftRecords` are history variables: the domains for which a
request failed since their zone, or its records, were last rewritten.  They state
precisely what a failure may damage; every other domain must be right.

**RRsetRequests.**  A worker's record `job[w]` is one request: its kind, its payload,
the instances it holds, its uncommitted inserts, deletes and locks, and its tracker
sets.  Actions are the statements in the order the code issues them: `Accept`
(validation against committed rows, before the transaction), `Begin` (the list
serializer reads its instances again), then deletions, creations and updates, each
in any order: `StartDelete`/`Remove` is the SELECT of the RRs and the DELETEs of
`RRset.delete()`, `Create` the INSERTs, `StartUpdate`/`Drop`/`Compare`/`Save` the
DELETE, SELECT and INSERT of `save_records` with `RRset.save()`, or the UPDATE of
`touched`; then `Compute` (the queries that build the PATCH), `Send`, `Commit`.
What PostgreSQL contributes is modelled as external: a statement sees committed
rows and its own (`MyRows`, `MyRRs`), waits for row locks and uncommitted keys
(`Waits`), fails on the unique key and on `cname_exclusivity` (`Forbids`), loses a
deadlock (`DeadlockVictim`), and the deferred foreign key is checked at COMMIT
(`Dangling`).  Primary keys matter: a row is an item *and* the request that inserted
it, so an RRset that was recreated is another row.

`torn` and `stale` are history variables for the two findings below; the safety
properties hold outside the items they name.

**SyncToPdns** adds `_sync_domain` to the workers of `RRsetRequests`.  It holds no lock
and reads five times: the RRset rows (`SyncBegin`: `modifications`), the zone
(`SyncFetch`: `deletions` is the `Surplus` over what was read before), then for each
RRset its TTL (`SyncFind`, which raises if the row has gone) and its records
(`SyncRead`), and one PATCH (`SyncPatch`, refused unless `Acceptable`; `SyncAnswerLost`,
`SyncFails`).  Requests take their steps between any two of these: `RequestStep` is
`Next` of `RRsetRequests` by its actions, each with `Beside`, what it does to the
history `sync.met`: the RRsets that a request was publishing, from its PATCH to its
COMMIT, since the command read them.  A PATCH with older records makes these
`stale`, and repairs all others, also what earlier requests and runs had left `torn`.

**TokenPolicy.**  One token: its committed rows `policies`, its flag `auto`, and the
`domains` of its user.  `Matches`, `Before` and `GetPolicy` are `get_policy`, with
its ORDER BY; `MayWrite` and `CanSafelyDelete` are the permissions built on it.  A
worker's record `job[w]` is one request: a policy to create, update or delete, the
token to save, the `last_used` of an authentication (`Touch`, which skips `clean` but
not the default policy), a domain to create or delete.  Its steps are those of the
code: `Clean` (reads committed rows and refuses or not), the statements
(`InsertPolicy`, `SavePolicy`, `RemovePolicy`, `UpdateToken` and `Fill` and
`InsertDefault`, `InsertDomain` and `Grant` and `InsertGrant`, `Cascade` and
`DropDomain`), `Check` (the deferred triggers) and `Commit`.  `gone` and `ins` are
the rows of the open transaction.  `Put` contains the unique index, whose nulls are
not distinct, and the foreign key, which is not deferred; a violation is answered
409.  Locks and snapshots are PostgreSQL's and external.

`outdated` and `overtaken` are history variables.  The first tells that a request
committed although another had committed since it began to read; the second, that
this happened even since its triggers ran.  They separate what validation guarantees
(`AutoRestrictive`: only while no request is outdated) from what the triggers
guarantee (`DefaultKept`: only the moment between triggers and COMMIT remains).

**Registry, DomainLifecycle.**  A worker's record is one request.  `Create` is
validation: `WithinDomainLimit`, `IsRegistrable` (the public suffix
rules of `Domain.is_registrable`, with `CoversForeignZone` and
`IsCoveredByForeignZone`), all of it against committed rows and without a lock.  The
INSERT waits for an uncommitted row of the same name and fails on a committed one;
the zone, the catalog entry and COMMIT follow; then, in a block of its own,
`update_delegation` locks the parent, drops the delegation, asks nslord for the keys,
writes the delegation and publishes it.  Deletions hold an instance with its primary
key, so that a name registered again is another row.  `Fails` takes any step's
place.  align-catalog-zone is `AlignFetch`, `AlignPurge` and one `AlignCreate` per zone,
between which requests go on.  `Registry` knows none of this: requests claim, register, leave,
release and withdraw.  The refinement mapping (at the end of `DomainLifecycle`) calls
what a request holds between validation and COMMIT its claim.  `together` tells which
names passed validation at the same time, `mixed` the names with a failed or
overlapped request, `lagging` those whose catalog entry somebody was changing.

**Renewal.**  A time is an age in days, kept up to the age from which the code makes
no difference; `newer` stands for the comparison of `last_active` with
`renewal_changed`.  `Renew`, `SelectFresh`, `SelectNotified`, `SelectExpired` are the
queries of scavenge-unused, each evaluated once; `Announce` is the transaction and the
mail per user, `DeleteDomain` the deletion of one domain, `DeleteOwner` the count of the
owner's domains after it and the deletion of the owner (`leaving` is the owner to be
looked at; others' requests come between the two), and `Undelegate` the end.  Owners write, delete and publish records, confirm through the
link of a mail (`ConfirmLoad`, `Confirm`: load, then save), delete and register at any
time.  A removed RRset leaves no `touched`: only the publication counts.  `stale` are
instances whose row has gone: `delete()` of such an instance deletes nothing in the
database and the zone of whoever has the name now (`DeleteStale`).  `Abort` is an
exception anywhere.  `care` and `notice` are ages of the last use and of the first
mail as an observer would know them; `excused` and `botched` name what the properties
do not cover.

**AccountActions.**  The account's row, its factor, its login session, captchas, the
codes in the mailbox, and what each worker has loaded.  A request with a code goes
through `Authenticate` (loads the user), `SaveVerified` (saves all its columns, then
looks at `is_active`), `Load` (the serializer loads the user again, and perhaps a
captcha), `Solve`, and the action: `Activate` with `CreateDomain`,
`ChangeCredentials`, `CreateFactor`, `DeleteUser`, or a refusal because the state has
changed.  `Settings`/`Save` is any other full save.  `Verify`, `LoadFactor`, `Accept`,
`StepUp` are the verification of a TOTP code; `Unfactor`, `DeleteFactor` its removal.
`Lock` is stop-abuse, `SelectNeverActivated` and `DeleteNeverActivated` the chores.
`raced` records that something was saved from, or accepted by, an instance that was no
longer current; the properties hold until then, and say for what.

**DynDns.**  The pure part is operators: `QNames` (the four places host names are
found in), `About` and `ActionOf` (`_find_action`: which elements of a parameter are
about a type, and what they ask for), `FindAction` with `Told` (the order of parameters, and the
client's address).  The request reads the stored records of all its names (`Read`),
computes and validates (`Validate`, with 429 as `Conflict`, because the list
serializer finds another set of RRsets than the view has read), and writes (`Save`).
An address is a network and a host part, which is what renumbering with a subnet tells
apart.  `Documented`, `Meant`, `Expected` say in terms of `docs/dyndns/update-api.rst`
what a request is to do, independently of the code's order.

## 4. Runs

| run | instance | shows |
|---|---|---|
| `tracker` | 1 domain, RRsets {NS, A}, 1 content, PCH on; 141 K states | all invariants of the tracker, and liveness |
| `requests` | 2 workers and sync-to-pdns, {A, CNAME}, 2 records, 3 requests or syncs, every payload over them; 2.7 M states | publication agrees with storage; a request alone does what it says; sync-to-pdns repairs what failures left and harms only what met a publication while it ran |
| `requests_pairs` | 2 workers and sync-to-pdns, {A, AAAA}, 1 record, 2 requests or syncs, payloads that name both types; 229 K states | deadlocks are reached and resolved, every request ends, with the command next to it, too |
| `policies` | 2 workers, 1 domain, policies {default, whole domain}, 4 primary keys; 1.8 M states | every request on a token against every other: uniqueness, precedence, safe deletion, the default policy |
| `domain_lifecycle` | 2 workers, 2 users with a limit of 1, a local suffix, a name below it, one below that, a public suffix; 3 requests; 1.2 M states | zones of different users, limits, agreement of database, zones, delegations and catalog; `Registry` is implemented |
| `renewal` | 1 name, 2 users; periods of 4, 3 and 1 days; 519 K states | what scavenge-unused may delete and what it leaves; expiry in the end |
| `account_actions` | 2 workers, 2 captchas, 2 time steps, 3 requests; 3.0 M states with symmetry | codes, captchas, TOTP codes, locks and deletions under overlapping requests |
| `dyndns` | 3 names in 2 domains, 2 networks, 2 hosts; 352 K states | every parameter with every kind of value, pairs of parameters, all places of host names, against other writers |
| `sync_creates_zone`, `bulk_atomic`, `published_immediately`, `default_primacy` | small instances of the same modules | each violates one documented promise (section 7) |

Bounds, and why they suffice.  The tracker's sets treat domains and items
independently, except that domains share the order of changes and a rollback; the run
has one domain with two items, the theorems of section 5 cover any number of domains.
One content suffices because Empty, Absent and one content already distinguish every
branch of the code (created, emptied, filled, deleted); another content would only be
another value of "modified".  Two workers are all that two transactions need; the
third request, by a worker that has finished its first, is what makes an instance
stale (deleted and recreated by others), and any of the three may be a run of
sync-to-pdns instead: next to two requests, or after one that failed.  Two records are
needed for partial overwrites.  `MaxRequests` is the only counter; it bounds requests,
runs of sync-to-pdns (`syncs`) and primary keys.  `policies` is bounded by its keys
alone: two policies, of which one is needed by the other, are what the triggers
relate; each worker may hold one key more, so four never run out and no request waits
for one.  With two policies `DocumentedPriority` and `SafeDeletion` meet few orders;
the theorems below cover all.  `Held` keeps the identity of a deleted domain unused
while a request still refers to it.  Symmetry permutes workers and records, or workers
and captchas (no liveness is checked in those runs).

`domain_lifecycle`: two requests that overlap and a third that meets what they left are
what every history variable distinguishes (`MaxRequests` = 4, as numbers count from
2; number 1 made what was there at the start).  The names cover the rules: a local
suffix that delegates, a child, a
name inside the child's zone, a public suffix that nobody may have; the limit of one is
exceeded and hit.  `renewal`: the periods are as small as their order admits
(`WarnDays` < `NotifyDays` <= `FreshDays`, with a day between), one name because domains
share nothing but a transaction per owner, which `DomainLifecycle` and the theorem for
all sets of domains cover; a second user registers the name again during a run.
`account_actions`: two requests overlap, a third issues or repeats a code; 2 time steps
allow a code to be older or newer than the last.  `dyndns`: one worker, since whatever a
second one would write is among the `Writes`, at any point; queries are enumerated as
`MCDynDns` says, and the theorems hold for all.

Fairness.  `ChangeTracker`: weak fairness of the process's own steps (a body ends,
each request is answered or fails, as Python runs on), of a sync in progress, and of
each transfer nsmaster was told to make.  The environment (new blocks, new syncs) is
not fair.  `RRsetRequests`: weak fairness of each worker's next step, with
PostgreSQL's deadlock detection among them; nothing obliges clients to send requests,
nor anybody to run the command.
`CHECK_DEADLOCK FALSE` in the runs of `RRsetRequests`: when `MaxRequests` requests
are answered the system stops, as the bound intends.  So it is
in `AccountActions`.  `Renewal`: days pass (weak fairness of `NextDay`), and cron runs the
command, which does not stop half-way for ever (weak fairness of `Scavenge`); owners and
failures are not fair, and `Expires` speaks of domains whose owners do nothing and of
runs that get to their end.  `ChangeTracker` never stops, nor do `TokenPolicy`,
`DomainLifecycle` and `DynDns`, of which only safety is checked.

## 5. Properties and proofs

ChangeTracker.  `AssertionsHold`: the assertions in `_rr_set_updated` cannot fire in
one process.  `DomainsTracked`, `ChangesTracked`: the sets are the difference between
the transaction and the database, exactly for domains, and without omissions for
RRsets.  `ZonesAgree`, `RecordsAgree`: between blocks, zones, catalog and records are
those of the database for every domain that has not drifted.  `RequestsAccepted`: such
domains never provoke a 404 or 409.  A successful sync ends the drift of a domain, so
`RecordsAgree` also says that its difference of database and zone was the right one.
`ChangesServed` (liveness): nsmaster
eventually serves what nslord has.

RRsetRequests.  `DnsAgrees`: whenever no request is under way, nslord serves what the
database stores.  `OnePublisher`: between reading an RRset for the PATCH and COMMIT a
request is alone with it; this is the lock that the UPDATE of `touched` takes, the
reason `DnsAgrees` holds.  `AppliedExactly`: a request without rivals succeeds and
has exactly the effect of its payload, so validation admits nothing that the
constraints or pdns refuse.  `RequestsEnd`: every request is answered.

SyncToPdns.  `SyncRepairs`: a run that gets through leaves every RRset on nslord as it is
stored at that moment, though it was read in several queries and other requests commit in
between; the exceptions are those a request was publishing since.  The run `requests` has
the command in it, so that `DnsAgrees`, `OnePublisher` and `AppliedExactly` are checked
with one more writer of nslord.

TokenPolicy.  `TypeOK` includes that no two policies share key or coordinates.
`DocumentedPriority`: the policy `get_policy` finds is the one of least number in the
table of `docs/auth/tokens.rst`.  `SafeDeletion`: whoever may delete a domain may write
all of it, though `can_safely_delete_domain` never looks at an RRset.  `DefaultKept`,
`AutoRestrictive`: see the history variables in section 3.  `AutoPolicyScope`: creating
a domain under `auto_policy` makes that domain writable and changes nothing else.

DomainLifecycle.  `RegistryKept`: the refinement.  `Exclusive`: nobody's domain lies
in somebody else's zone, unless both names passed validation before either was stored.
`LimitOvershoot`: a user exceeds the limit by at most one domain for each other worker.
`Agreement`: where no request failed or met another, a domain is stored, has a zone and
is delegated, or none of it.  `CatalogAgrees`: the catalog lists the zones, also after
align-catalog-zone, except names somebody was at work on.

Renewal.  `NotDeletedEarly`: no domain is deleted before a lifetime without use, nor
before the date its owner was told first, unless it was used while the run had it
selected.  `NothingLeftBehind`: between runs zones and delegations belong to stored
domains, outside what a run has botched.  `Expires` (liveness): an unused domain goes.

AccountActions.  `Lasting`: a lock, a deletion, a logout, a removed factor stay, unless
an old instance is saved over them.  `CodesExpire`: a code does nothing once credentials
or activation have changed; in particular it acts once.  `CaptchaOnce`, `StepOnce`: one
captcha, one request; one time step, one acceptance; unless two requests have loaded the
row.  `HumanFirst`: even so, nobody becomes active without a captcha.

DynDns.  `DocumentedEffect`: an update leaves every RRset that nobody else has written
meanwhile as the documentation says, and the others alone; the RRsets of `Silent`, whose
own parameter says nothing about their type, are excluded: there the code departs from the
documentation (section 7).  `NoFalseConflict`: 429 has a
rival's write as its cause.

Proved by TLAPS, for every value of the constants that satisfies the named `ASSUME`s
(next to the declarations, and evaluated by TLC in the runs): every safety property
and every action property of the passing runs, in the modules `ChangeTrackerProofs`,
`RRsetRequestsProofs`, `TokenPolicyProofs`, `RegistryProofs`, `DomainLifecycleProofs`,
`RenewalProofs`, `AccountActionsProofs` and `DynDnsProofs`.

| theorem | states |
|---|---|
| `TypeCorrect` | `Spec => []TypeOK` |
| `AssertionsNeverFire` | `Spec => []AssertionsHold` |
| `DomainsAlwaysTracked` | `Spec => []DomainsTracked` |
| `ChangesAlwaysTracked` | `CallerDiscipline` implies `Spec => []ChangesTracked` |
| `ZonesAlwaysAgree` | `CallerDiscipline` implies `Spec => []ZonesAgree` |
| `RecordsAlwaysAgree` | `CallerDiscipline` implies `Spec => []RecordsAgree` |
| `NoRequestRefused` | `CallerDiscipline` implies `Spec => []RequestsAccepted` |
| `Typed`, `PublishesAlone`, `DnsFollows` | `Spec => []TypeOK`, `Spec => []OnePublisher`, `Spec => []DnsAgrees`, of `RRsetRequests` |
| `AloneIsExact` | `Spec => AppliedExactly` |
| `SyncTyped`, `SyncPublishesAlone`, `SyncKeepsAgreement`, `SyncAlwaysRepairs` | `SyncSpec => []SyncTypeOK`, `SyncSpec => []OnePublisher`, `SyncSpec => []DnsAgrees`, `SyncSpec => SyncRepairs` |
| `DefaultAlwaysKept` | `Spec => []DefaultKept` |
| `PoliciesUnique`, `AutoAlwaysRestrictive` | `Spec => []TypeOK` (unique keys and coordinates), `Spec => []AutoRestrictive` |
| `AutoPolicyGrantsDomain` | `Spec => AutoPolicyScope` |
| `PriorityAlwaysDocumented` | `Spec => []DocumentedPriority` |
| `DeletionAlwaysSafe` | `Spec => []SafeDeletion` |
| `RegistryExclusive` | `Spec => []Exclusive`, of `Registry` |
| `LifecycleTypeOK`, `ImplementsRegistry` | `Spec => []TypeOK`, `Spec => RegistryKept` |
| `LifecycleExclusive`, `OvershootBounded` | `Spec => []Exclusive`, `Spec => []LimitOvershoot` |
| `LifecycleAgrees`, `CatalogFollowsZones` | `Spec => []Agreement`, `Spec => []CatalogAgrees` |
| `RenewalTypeOK`, `RunsLeaveNothing`, `DeletionsAreDue` | `Spec => []TypeOK`, `Spec => []NothingLeftBehind`, `Spec => NotDeletedEarly` |
| `AccountTypeOK`, `EndsLast`, `CaptchasAreSpent`, `StepsAreSpent`, `HumansFirst` | `Spec => []TypeOK`, and `Lasting`, `CaptchaOnce`, `StepOnce`, `HumanFirst` likewise |
| `CodesAreSpent` | `Spec => CodesExpire` |
| `RecordsWellTyped`, `EffectAsDocumented`, `ConflictsAreReal` | `Spec => []TypeOK`, `Spec => DocumentedEffect`, `Spec => NoFalseConflict` |

What they assume.  `ChangeTracker`: the marker values differ from the contents and from
zones.  `RRsetRequests`: there is an item, the exclusive ones (CNAME) are among them,
payloads are partial functions on items, and `Keep` (a payload without records) is not
a set of records.  `TokenPolicy`: null is not a coordinate of an RRset nor a policy,
there is a key, the requested policies include the default one and those of whole
domains.  `DomainLifecycle`: names are non-empty sequences of strings, names and workers
are finite sets (limits count domains), the special values are neither users nor names,
and what its ASSUMEs say of suffixes.  `Renewal`: the order of the periods.
`AccountActions`: "none" is not a value.  `DynDns`: queries and writes are well formed.

The argument for `ChangeTracker`.  None of these is inductive: they speak of the body,
and the sets live through `__exit__` until Commit or Rollback.  `TrackInv` (in
`ChangeTrackerInv`) adds what holds in the meantime: outside a block nothing is
tracked and the two views of the database are equal (`OutsideBlock`); the domain sets
are the difference at any time (`DomainSets`); only domains have RRsets
(`RowsBelong`); what the sets know of an RRset in the body (`BodySets`) and while
changes are applied (`ApplySets`); and which changes wait, are begun or done
(`Bookkeeping`).  The module proves `Init => TrackInv`, one lemma per action for the
step, and the consequences. `PdnsInv` is the corresponding invariant about the
servers, inductive relative to `TrackInv`.  Its parts follow a domain through a block:
`Untouched` (no change of the block has reached it: the servers are as the committed
database says), `InProgress` (what has been done of the change under way, stage by
stage), `Complete` (its change is done: the servers are as the transaction says, even
if they had drifted before, for a domain that was created or deleted).  Commit turns
the second view of the database into the first, so `Complete` becomes `Untouched`;
`ChangeFails` marks what was begun as drifted, so that nothing is claimed of it.
`PatchedView` is the heart of the matter: a PATCH built from the three sets makes the
zone equal to the whole transaction, because by `ApplySets` every item outside the
sets is seen alike on both sides.  `Syncing` says what each request of `_sync_domain`
can rely on: it creates a zone only where one was missing, hence only for drifted
domains.  `PdnsAtCur` and `PdnsSyncFrame` state once that such a step concerns one
domain only; the lemma of each action then speaks of that domain.

The argument for `RRsetRequests`.  The type invariant alone says nothing about
concurrency; `IInv` adds, of each request, what its transaction has done (`JobOK`): an
item it has still to deal with is untouched (`Ordered`), whatever it inserted or deleted
is a row it has locked (`Locked`), and all of it is in the tracker's sets (`Tracked`).
`OnRows` relates that to the committed rows, and `Apart` to the transactions of others:
two requests never hold a lock on the same row.  Locks are on rows and a PATCH is about
items, so the step from one to the other needs `Keys`: at most one committed row per
item, because an INSERT waits for uncommitted keys.  Hence two requests that have
locked rows of one item have locked the same row, unless one of them had lost its row
before (`ItemsApart`), which is what `stale` records; this is `PublishesAlone`.
`DnsInv` then says that outside `torn` and `stale` nslord serves the committed rows,
or, for an item that a request has sent, what that request sees: since it is alone
with the item, COMMIT makes that the committed rows.

`AloneIsExact` is about one request while all others are idle.  `AloneInv` follows its
payload through the statements.  `Done`: the transaction sees the target of every item
that is no longer ahead, and the old records of all others.  `InHand`: what the current
statement has picked or found is what the payload requires.  `Exact` says so while
nothing is torn or stale.  The other half is that it is not refused: `Compatible`, an
invariant of the whole system, says that rows that exclude each other are never stored
nor inserted together, so that a payload that validation admits meets no constraint
(`NeverRaises`), its target is one that pdns accepts (`TargetAcceptable`), and nothing
is left for `ComputeFails`, `SendRefused`, `CommitFails` or a deadlock (`NeverFails`).

The argument for `SyncToPdns`.  A step of a request changes nslord or the stored records
only of RRsets that it is publishing (`RequestTouches`).  Hence, outside `sync.met`, what
the command has read stays what is stored, and an RRset in neither of its sets is neither
stored nor on nslord (`SyncInv`); so its PATCH writes what is stored (`SyncedIsStored`),
which is `SyncAlwaysRepairs`.  With the items of `sync.met` in `stale` after the PATCH,
`DnsInv` survives it (`SyncDns`).  That a request alone does exactly what it says is proved
without the command (`AloneIsExact`) and model-checked with it.

The argument for `TokenPolicy`.  The two decision theorems follow from lemmas about
any set of policies: among those that match one RRset, ORDER BY and the priorities
agree (`BeforeIsPriority`), and a policy of a domain shadows all without one
(`SafeDeletionRule`).  `DefaultKept` speaks of committed rows, and a commit writes
what a transaction computed earlier, so `KeptInv` says of each request whose triggers
passed on the rows that are still committed that it leaves a default policy.  That the
triggers suffice needs `JobOK`: when no policy remains, the first trigger is silent;
the default policy can then be missing only because a request deleted it, which the
third trigger checks, since an update replaces what it removes and a domain's policies
are never the default.  `PolicyInv` contains `KeptInv` and serves the other three.  Of the
committed rows (`Committed`): keys and coordinates are unique, policies belong to
stored domains, and a token with `auto_policy` has a restrictive default unless a
request was outdated.  Of each request: what it has inserted would be unique among what
it leaves (`RowsOK`), belongs to its domain or a stored one (`DomainOK`), and respects
the flag as long as nobody committed since it read it (`FlagOK`).  Of any two
(`Clear`): they touch different rows and insert different keys, coordinates and
domains.  The last is what makes uniqueness survive COMMIT: it is checked when a row is
written, against rows that another request may be about to replace.

The argument for `DomainLifecycle`.  `Registry`'s own invariant says that whoever holds a
claim passed validation, so that a foreign zone above or below a name is either
registered, which validation excludes, or claimed at the same time.  To use it, each step
of the detailed module must be one of the registry's or a stutter.  That needs what
instances and locks guarantee: keys are used once and found again only by the request that
loaded them (`RowInv`, `ClaimInv`), and a name that is being inserted is free and inserted
by one worker (`LockInv`).  Every action then has one of four forms: the request goes on
(`Goes`), gives up its claim (`Quits`), makes one, or commits.  `ImplementsRegistry` is by
these forms, and `LifecycleExclusive` is `RegistryExclusive` carried over.  `LimitInv` adds
to the domains of a user those that are validated and not yet stored, each of another
worker.  `Agreement` follows from `AgreeInv`: two requests on one name mix it (`Overlap`),
so that a name outside `mixed` is settled (`Settled`) or in the hands of one request,
and then `Underway` tells from its stage which of the row, the zone, the delegation and
its publication exist.  `CatalogAgrees` follows from `CatalogInv`.  A request that is
about to write a catalog entry, and is alone there with the name, writes what the zones
say (`LastChange`); the list that align-catalog-zone fetched is the list of zones but
for names it has since missed, and these become `lagging` when it is done.

The argument for `Renewal`.  `AgeInv` relates what the code stores (`renewal_state`,
`renewal_changed`, `last_active`) to what the observer knows (`care`, `notice`), state by
state: an announced domain whose stored ages are due is due indeed.  Deletion is decided
by the selection, and days and requests pass between the two; `PickInv` says what remains
true of a selected domain: it is due for its stage, or excused, or its instance is stale.
`LeftInv` follows zones and delegations of what a run has deleted so far.

The argument for `AccountActions`.  `JobsOK` says what a worker has at each stage.
`Current` is the heart: as long as nothing stale was saved, every code that matches the
account was made in its present epoch, since each change of credentials gives a new
`credentials_changed`, and activation leaves `pending`, which no code made before an
activation can survive.  `CodesOK` (no code is bound to a locked account) makes locks
last.  `HumanInv` is about every instance as well as the row, so that stale saves do not
matter.  `NoAccount` covers the first registration.  The many actions reduce to the few
forms of `Effect` (for the account and its codes) and `RowEffect` (for the other rows).

The argument for `DynDns`.  First, the operators: for any query `_find_action` and the
lookup of names compute what `Expected` states.  Then `JobRight`: what a request has
computed from what it read is right for every key nobody has written since.

Only model-checked: liveness (`ChangesServed`, `RequestsEnd`, `Expires`), since rules for
fairness need ENABLED, which is outside the prover's reach; and the four promises that
are violated (section 7), which a trace refutes.

## 6. Not modelled

Components: throttling and the serial list (a cache with timeouts in seconds),
check-secondaries, sync-from-pdns, mail lanes, metrics, donations (input and output
only), record syntax and validators (data), HTTP plumbing, the web application and the
containers.

Within the modelled parts.  *Tracker and requests*: TTLs (a free choice where a
changed TTL makes a difference), the SOA record, pagination; timeouts of requests to
pdns; sync-to-pdns for several domains with its catalog alignment; `_compute_changes`
failing on a database error, which would leave the transaction open (hazard at
`pdns_change_tracker.py:241`); a worker that dies between PATCH and COMMIT in
`RRsetRequests` (ChangeTracker has it).  *Tokens*: `user_override`, creation and
deletion of tokens, their ages and `last_used` periods, permissions that are flags or
identities, blocked subnets.  *Domains*: nslord and nsmaster are one server here (two
in ChangeTracker); the zonefile import; the limit's `ttl` variant.  *Account actions*:
e-mail addresses and passwords (only that they change), `last_login`, several factors
and sessions, the validity periods of codes (a code may arrive at any time or never),
the RRsets that stop-abuse deletes.  *DynDns*: prefix lengths other than one, the
CNAME rule, token policies, throttling.

`save_records` under concurrency: two requests that overwrite one RRset at the same time
leave the union of their records, as `RRsetRequests` allows; `DnsAgrees` says that this is
at least what the DNS serves.

## 7. Where code and documents disagree

* `SyncCreatesZone`: if a block or a sync dies after nslord created a zone and before
  nsmaster did, sync-to-pdns gets 409 from nslord, concludes that the domain exists and
  never creates it on nsmaster; the comment says "Create domain on pdns if it does not
  exist".
* `PublishedOnlyIfAccepted`: deleting an RRset while another request adds a record to
  it publishes the deletion and then fails at COMMIT (409); `docs/dns/rrsets.rst`
  promises that bulk operations are accepted and published or neither.
* `PublishedImmediately`: a DELETE that read its RRset before others deleted and
  recreated it deletes no row but empties the RRset on nslord; all requests succeed
  and the database has an RRset the DNS lacks, until the next change or sync.
* `DefaultPrimacy`: a request deletes the default policy, the last one, while another
  inserts a policy for a new domain; the deferred triggers of both pass before either
  commits.  The comment on the trigger says "Ensure that if there is *any* domain
  policy for a given token, there is always one with domain=None".

These four are runs that end with a trace.  Two more follow from what the properties
leave out, by name:

* `sync.met` in `SyncRepairs`: sync-to-pdns ("Sync RRsets from local API database to
  pdns.") reads the rows, then the zone.  An RRset that a request had published and commits
  between the two is surplus in its eyes and deleted from nslord; command and request
  succeed, and the DNS lacks an RRset of the database until the next change or sync
  ("As we publish record modifications immediately", `docs/dns/domains.rst`).
* `Silent` in `DocumentedEffect`: a parameter for one host without an element of its type
  (an IPv6 address in `myipv4:host`) makes the code leave the RRset as it is.
  `docs/dyndns/update-api.rst` gives these parameters the semantics of the general ones:
  such a value does not count there, and what is not found is deleted; only `preserve`
  keeps.  Whichever way one reads it, the record on file is not what it promises.
