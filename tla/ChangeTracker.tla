---------------------------- MODULE ChangeTracker ----------------------------
(***************************************************************************)
(* One PDNSChangeTracker block (desecapi/pdns_change_tracker.py): the model *)
(* signals that fill its five sets while the body runs inside a database    *)
(* transaction, and __exit__, which turns the sets into requests to the two *)
(* PowerDNS servers and only then commits.  pdns requests may be refused,   *)
(* fail, or be applied although the caller sees an error.  The module also  *)
(* models _sync_domain of the sync-to-pdns command, the operator's repair.  *)
(*                                                                          *)
(* Abstractions: an item is a (type, subname) pair; the TTL and records of  *)
(* an RRset are one value of Content; SOA is left out.  One process runs    *)
(* the tracker, as the class requires of its users; RRsetRequests models    *)
(* the interleaving of several processes.                                   *)
(***************************************************************************)
EXTENDS FiniteSets

CONSTANTS
  Domain,            \* names of zones
  Item,              \* (type, subname) pairs
  Content,           \* values of a nonempty RRset
  Empty,             \* an RRset row without records; on pdns: no such RRset
  Absent,            \* no RRset row in the database
  NoZone,            \* pdns: the zone does not exist
  NSItem,            \* ("NS", "")
  DefaultNS,         \* settings.DEFAULT_NS
  UsePCH,            \* settings.PCH_API and not settings.DEBUG
  CallerDiscipline   \* the body recreates RRsets only as callers in src/ do

ASSUME ContentAssumption ==
  /\ Empty \notin Content /\ Absent \notin Content /\ Empty # Absent
ASSUME NSAssumption == NSItem \in Item /\ DefaultNS \in Content
ASSUME FlagAssumption == UsePCH \in BOOLEAN /\ CallerDiscipline \in BOOLEAN

Served == Content \cup {Empty}      \* what a pdns zone holds for an item
Stored == Served \cup {Absent}      \* what the database holds for an item
Zone == [Item -> Served]

\* NoZone is none of the zones (a function is never a model value).
ASSUME NoZoneAssumption == NoZone \notin Zone

Requests == {"delLord", "delMaster", "delCatalog", "addLord", "addMaster",
             "addCatalog", "patch"}
SyncRequests == {"syncLord", "syncMaster", "syncCatalog", "syncPatch", "syncNewPatch"}
Stage == Requests \cup SyncRequests \cup
         {"idle", "body", "apply", "delPch", "addNS", "addPch", "axfr",
          "syncAxfr", "syncNewAxfr"}

VARIABLES
  dbDom, dbRR,       \* committed rows of Domain and RRset
  dom, rr,           \* the same, as the open transaction sees them
  domAdd, domDel,    \* _domain_additions, _domain_deletions
  rrAdd, rrMod, rrDel, \* _rr_set_additions, _modifications, _deletions
  stage,             \* where the process is
  cur,               \* the domain of the change being applied
  delTodo, updTodo,  \* changes of _compute_changes not yet begun
  begun,             \* domains whose change was begun in this __exit__
  axfrTodo,          \* axfr_required
  lord, master,      \* zones on nslord and nsmaster
  catalog,           \* member zones of the catalog zone on nsmaster
  queue,             \* AXFRs nsmaster was told to make
  driftZones, driftRecords \* history: domains hit by a failed request since
                           \* their zone, or its records, were last rewritten

dbVars == <<dbDom, dbRR>>
txVars == <<dom, rr>>
trackVars == <<domAdd, domDel, rrAdd, rrMod, rrDel>>
exitVars == <<cur, delTodo, updTodo, begun, axfrTodo>>
zoneVars == <<lord, master, catalog>>
driftVars == <<driftZones, driftRecords>>
vars == <<dbVars, txVars, trackVars, stage, exitVars, zoneVars, queue, driftVars>>

-----------------------------------------------------------------------------
NoItems == [d \in Domain |-> {}]
NoRRsets == [i \in Item |-> Absent]

\* What pdns has to serve for a stored RRset: a row without records is not there.
Visible(c) == IF c = Absent THEN Empty ELSE c
View(rows) == [i \in Item |-> Visible(rows[i])]

\* create_zone_lord sends the default nameservers and a SOA record.
FreshZone == [i \in Item |-> IF i = NSItem THEN DefaultNS ELSE Empty]
\* create_zone_master makes a secondary zone that holds nothing before an AXFR.
BlankZone == [i \in Item |-> Empty]

Present(d) == {i \in Item : rr[d][i] # Absent}

\* RRsets that are on pdns and were deleted and created again in this block.
Recreated(d) == {i \in rrAdd[d] : dbRR[d][i] \notin {Absent, Empty}}

Init ==
  /\ dbDom = {} /\ dbRR = [d \in Domain |-> NoRRsets]
  /\ dom = dbDom /\ rr = dbRR
  /\ domAdd = {} /\ domDel = {}
  /\ rrAdd = NoItems /\ rrMod = NoItems /\ rrDel = NoItems
  /\ stage = "idle"
  /\ cur \in Domain
  /\ delTodo = {} /\ updTodo = {} /\ begun = {} /\ axfrTodo = {}
  /\ lord = [d \in Domain |-> NoZone] /\ master = lord /\ catalog = {}
  /\ queue = {}
  /\ driftZones = {} /\ driftRecords = {}

-----------------------------------------------------------------------------
(* The body: model operations and the signal handlers they trigger.         *)

Enter ==
  /\ stage = "idle"
  /\ stage' = "body"
  /\ UNCHANGED <<dbVars, txVars, trackVars, exitVars, zoneVars, queue, driftVars>>

\* mutant: creation does not cancel a deletion
DomainCreatedAddsAlways(d) ==
  /\ stage = "body" /\ d \notin dom
  /\ dom' = dom \cup {d} /\ domAdd' = domAdd \cup {d}
  /\ UNCHANGED <<dbVars, rr, domDel, rrAdd, rrMod, rrDel, stage, exitVars,
                 zoneVars, queue, driftVars>>

DomainCreated(d) ==
  /\ stage = "body" /\ d \notin dom
  /\ dom' = dom \cup {d}
  /\ IF d \in domDel
       THEN domDel' = domDel \ {d} /\ UNCHANGED domAdd
       ELSE domAdd' = domAdd \cup {d} /\ UNCHANGED domDel
  /\ UNCHANGED <<dbVars, rr, rrAdd, rrMod, rrDel, stage, exitVars, zoneVars,
                 queue, driftVars>>

\* Deleting a domain cascades: each RR, then each RRset, then the domain send
\* post_delete, so an RRset passes through the modifications on its way out.
DomainDeleted(d) ==
  /\ stage = "body" /\ d \in dom
  /\ CallerDiscipline => Recreated(d) = {}
  /\ dom' = dom \ {d}
  /\ rr' = [rr EXCEPT ![d] = NoRRsets]
  /\ rrAdd' = [rrAdd EXCEPT ![d] = @ \ Present(d)]
  /\ rrMod' = [rrMod EXCEPT ![d] = @ \ Present(d)]
  /\ rrDel' = [rrDel EXCEPT ![d] = @ \cup (Present(d) \ rrAdd[d])]
  /\ IF d \in domAdd
       THEN domAdd' = domAdd \ {d} /\ UNCHANGED domDel
       ELSE domDel' = domDel \cup {d} /\ UNCHANGED domAdd
  /\ UNCHANGED <<dbVars, stage, exitVars, zoneVars, queue, driftVars>>

RRsetCreated(d, i) ==
  /\ stage = "body" /\ d \in dom /\ rr[d][i] = Absent
  /\ i \notin rrMod[d]                     \* assert item not in modifications
  /\ rr' = [rr EXCEPT ![d][i] = Empty]
  /\ rrAdd' = [rrAdd EXCEPT ![d] = @ \cup {i}]
  /\ rrDel' = [rrDel EXCEPT ![d] = @ \ {i}]
  /\ UNCHANGED <<dbVars, dom, domAdd, domDel, rrMod, stage, exitVars, zoneVars,
                 queue, driftVars>>

\* mutant: deleting the records of an RRset goes unnoticed
RRsetModifiedOnSaveOnly(d, i, c) ==
  /\ stage = "body" /\ d \in dom /\ rr[d][i] # Absent /\ i \notin rrDel[d]
  /\ rr' = [rr EXCEPT ![d][i] = c]
  /\ rrMod' = IF c = Empty THEN rrMod ELSE [rrMod EXCEPT ![d] = @ \cup {i}]
  /\ UNCHANGED <<dbVars, dom, domAdd, domDel, rrAdd, rrDel, stage, exitVars,
                 zoneVars, queue, driftVars>>

\* Records written or deleted, or the RRset row saved with another TTL.
RRsetModified(d, i, c) ==
  /\ stage = "body" /\ d \in dom /\ rr[d][i] # Absent
  /\ i \notin rrDel[d]                     \* assert item not in deletions
  /\ rr' = [rr EXCEPT ![d][i] = c]
  /\ rrMod' = [rrMod EXCEPT ![d] = @ \cup {i}]
  /\ UNCHANGED <<dbVars, dom, domAdd, domDel, rrAdd, rrDel, stage, exitVars,
                 zoneVars, queue, driftVars>>

\* mutant: a deleted RRset stays in the modifications
RRsetDeletedKeepsModification(d, i) ==
  /\ stage = "body" /\ d \in dom /\ rr[d][i] # Absent
  /\ CallerDiscipline => i \notin Recreated(d)
  /\ rr' = [rr EXCEPT ![d][i] = Absent]
  /\ IF i \in rrAdd[d]
       THEN rrAdd' = [rrAdd EXCEPT ![d] = @ \ {i}] /\ UNCHANGED rrDel
       ELSE rrDel' = [rrDel EXCEPT ![d] = @ \cup {i}] /\ UNCHANGED rrAdd
  /\ UNCHANGED <<dbVars, dom, domAdd, domDel, rrMod, stage, exitVars, zoneVars,
                 queue, driftVars>>

RRsetDeleted(d, i) ==
  /\ stage = "body" /\ d \in dom /\ rr[d][i] # Absent
  /\ CallerDiscipline => i \notin Recreated(d)
  /\ rr' = [rr EXCEPT ![d][i] = Absent]
  /\ IF i \in rrAdd[d]
       THEN rrAdd' = [rrAdd EXCEPT ![d] = @ \ {i}] /\ UNCHANGED rrDel
       ELSE rrDel' = [rrDel EXCEPT ![d] = @ \cup {i}] /\ UNCHANGED rrAdd
  /\ rrMod' = [rrMod EXCEPT ![d] = @ \ {i}]
  /\ UNCHANGED <<dbVars, dom, domAdd, domDel, stage, exitVars, zoneVars, queue,
                 driftVars>>

-----------------------------------------------------------------------------
(* __exit__                                                                 *)

Forget ==
  /\ domAdd' = {} /\ domDel' = {}
  /\ rrAdd' = NoItems /\ rrMod' = NoItems /\ rrDel' = NoItems
  /\ delTodo' = {} /\ updTodo' = {} /\ begun' = {}
  /\ UNCHANGED cur

\* mutant: the transaction is closed as if nothing had failed
RollbackCommits ==
  /\ dbDom' = dom /\ dbRR' = rr
  /\ Forget /\ axfrTodo' = {}
  /\ stage' = "idle"
  /\ UNCHANGED <<txVars, queue>>

\* The database transaction is rolled back; nothing is undone on pdns.
Rollback ==
  /\ dom' = dbDom /\ rr' = dbRR
  /\ Forget /\ axfrTodo' = {}
  /\ stage' = "idle"
  /\ UNCHANGED <<dbVars, queue>>

BodyRaises == stage = "body" /\ Rollback /\ UNCHANGED <<zoneVars, driftVars>>

\* Additions of RRsets that have no records are not sent.
NonemptyAdditions(d) == {i \in rrAdd[d] : rr[d][i] # Empty}

\* The RRset changes of a deleted domain are popped.
KeptAll(d, items) == items          \* mutant: they are not
Kept(d, items) == IF d \in domDel THEN {} ELSE items

ComputeChanges ==
  /\ stage = "body"
  /\ CallerDiscipline => \A d \in Domain : Recreated(d) \subseteq NonemptyAdditions(d)
  /\ rrAdd' = [d \in Domain |-> Kept(d, NonemptyAdditions(d))]
  /\ rrMod' = [d \in Domain |-> Kept(d, rrMod[d])]
  /\ rrDel' = [d \in Domain |-> Kept(d, rrDel[d])]
  /\ delTodo' = domDel
  /\ updTodo' = domAdd \cup {d \in Domain : rrAdd'[d] \cup rrMod'[d] \cup rrDel'[d] # {}}
  /\ begun' = {} /\ axfrTodo' = {}
  /\ stage' = "apply"
  /\ UNCHANGED <<dbVars, txVars, domAdd, domDel, cur, zoneVars, queue, driftVars>>

BeginDelete(d) ==
  /\ stage = "apply" /\ d \in delTodo
  /\ delTodo' = delTodo \ {d}
  /\ begun' = begun \cup {d} /\ cur' = d
  /\ stage' = "delLord"
  /\ UNCHANGED <<dbVars, txVars, trackVars, updTodo, axfrTodo, zoneVars, queue,
                 driftVars>>

\* axfr_required: true of CreateDomain and of CreateUpdateDeleteRRSets.
AxfrOnCreation(d) == {d} \cap domAdd  \* mutant: of CreateDomain only
AxfrRequired(d) == {d}

BeginUpdate(d) ==
  /\ stage = "apply" /\ delTodo = {} /\ d \in updTodo
  /\ updTodo' = updTodo \ {d}
  /\ begun' = begun \cup {d} /\ cur' = d
  /\ axfrTodo' = axfrTodo \cup AxfrRequired(d)
  /\ stage' = IF d \in domAdd THEN "addLord" ELSE "patch"
  /\ UNCHANGED <<dbVars, txVars, trackVars, delTodo, zoneVars, queue, driftVars>>

\* The effect of a request that the server accepts, as pdns.py sends it.
CreateZoneLord(d) ==
  /\ lord[d] = NoZone
  /\ lord' = [lord EXCEPT ![d] = FreshZone] /\ UNCHANGED <<master, catalog>>
CreateZoneMaster(d) ==
  /\ master[d] = NoZone
  /\ master' = [master EXCEPT ![d] = BlankZone] /\ UNCHANGED <<lord, catalog>>
AddToCatalog(d) == catalog' = catalog \cup {d} /\ UNCHANGED <<lord, master>>
DeleteZoneLord(d) ==
  /\ lord[d] # NoZone
  /\ lord' = [lord EXCEPT ![d] = NoZone] /\ UNCHANGED <<master, catalog>>
DeleteZoneMaster(d) ==
  /\ master[d] # NoZone
  /\ master' = [master EXCEPT ![d] = NoZone] /\ UNCHANGED <<lord, catalog>>
RemoveFromCatalog(d) == catalog' = catalog \ {d} /\ UNCHANGED <<lord, master>>

\* CreateUpdateDeleteRRSets.pdns_do: deletions as empty RRsets, the rest as
\* the transaction reads it at this point.
SentAdditions(d) == rrAdd[d] \ rrDel[d]   \* mutant: modifications forgotten
Sent(d) == (rrAdd[d] \cup rrMod[d]) \ rrDel[d]
PatchedAlike(d) ==   \* mutant: deletions are sent like the rest, as stored
  [i \in Item |-> IF i \in Sent(d) \cup rrDel[d] THEN rr[d][i] ELSE lord[d][i]]
Patched(d) ==
  [i \in Item |-> IF i \in rrDel[d] THEN Empty
                  ELSE IF i \in Sent(d) THEN Visible(rr[d][i]) ELSE lord[d][i]]
UpdateZone(d) ==
  /\ lord[d] # NoZone
  /\ lord' = [lord EXCEPT ![d] = Patched(d)] /\ UNCHANGED <<master, catalog>>

\* _sync_domain computes the two sets of CreateUpdateDeleteRRSets from the rows
\* and from what get_rrset_datas finds in the pdns zone (the SOA is left out).
SyncModifications(d) == Present(d)
SyncDeletionsNone(d) == {}          \* mutant: what the database lacks stays there
SyncDeletions(d) == {i \in Item : lord[d][i] # Empty} \ SyncModifications(d)
Synced(d) ==
  [i \in Item |-> IF i \in SyncDeletions(d) THEN Empty
                  ELSE IF i \in SyncModifications(d) THEN Visible(rr[d][i])
                  ELSE lord[d][i]]
ReplaceZone(d) ==
  /\ lord[d] # NoZone
  /\ lord' = [lord EXCEPT ![d] = Synced(d)] /\ UNCHANGED <<master, catalog>>

Effect ==
  \/ stage \in {"addLord", "syncLord"} /\ CreateZoneLord(cur)
  \/ stage \in {"addMaster", "syncMaster"} /\ CreateZoneMaster(cur)
  \/ stage \in {"addCatalog", "syncCatalog"} /\ AddToCatalog(cur)
  \/ stage = "delLord" /\ DeleteZoneLord(cur)
  \/ stage = "delMaster" /\ DeleteZoneMaster(cur)
  \/ stage = "delCatalog" /\ RemoveFromCatalog(cur)
  \/ stage = "patch" /\ UpdateZone(cur)
  \/ stage \in {"syncPatch", "syncNewPatch"} /\ ReplaceZone(cur)

\* After CreateDomain comes the RRset change of the same domain, if it has one.
AfterCreate == IF rrAdd[cur] \cup rrMod[cur] \cup rrDel[cur] # {} THEN "patch" ELSE "apply"

NextStage ==
  [s \in Requests |->
    CASE s = "delLord" -> "delMaster"
      [] s = "delMaster" -> "delCatalog"
      [] s = "delCatalog" -> IF UsePCH THEN "delPch" ELSE "apply"
      [] s = "addLord" -> "addMaster"
      [] s = "addMaster" -> "addCatalog"
      [] s = "addCatalog" -> "addNS"
      [] s = "patch" -> "apply"]

RequestSucceeds ==
  /\ stage \in Requests
  /\ Effect
  /\ stage' = NextStage[stage]
  /\ UNCHANGED <<dbVars, txVars, trackVars, exitVars, queue, driftVars>>

\* CreateDomain.api_do, with the signals already disconnected.
InsertDefaultNS ==
  /\ stage = "addNS" /\ rr[cur][NSItem] = Absent
  /\ rr' = [rr EXCEPT ![cur][NSItem] = DefaultNS]
  /\ stage' = IF UsePCH THEN "addPch" ELSE AfterCreate
  /\ UNCHANGED <<dbVars, dom, trackVars, exitVars, zoneVars, queue, driftVars>>

PchSucceeds ==
  /\ stage \in {"delPch", "addPch"}
  /\ stage' = IF stage = "delPch" THEN "apply" ELSE AfterCreate
  /\ UNCHANGED <<dbVars, txVars, trackVars, exitVars, zoneVars, queue, driftVars>>

\* A request, api_do, pch_do or the COMMIT raises, or the process dies: the
\* server may have applied the request nevertheless.
ChangeFails ==
  /\ stage \in Requests \cup {"apply", "addNS", "delPch", "addPch"}
  /\ Rollback
  /\ Effect \/ UNCHANGED zoneVars
  /\ driftZones' = driftZones \cup (begun \cap (domAdd \cup domDel))
  /\ driftRecords' = driftRecords \cup begun

Commit ==
  /\ stage = "apply" /\ delTodo = {} /\ updTodo = {}
  /\ dbDom' = dom /\ dbRR' = rr
  /\ driftZones' = driftZones \ (begun \cap (domAdd \cup domDel))
  /\ driftRecords' = driftRecords \ (begun \cap (domAdd \cup domDel))
  /\ Forget
  /\ stage' = "axfr"
  /\ UNCHANGED <<txVars, axfrTodo, zoneVars, queue>>

\* axfr_to_master: nsmaster answers 404 for a zone it does not have.
RequestAxfr(d) ==
  /\ stage = "axfr" /\ d \in axfrTodo /\ master[d] # NoZone
  /\ axfrTodo' = axfrTodo \ {d} /\ queue' = queue \cup {d}
  /\ UNCHANGED <<dbVars, txVars, trackVars, stage, cur, delTodo, updTodo, begun,
                 zoneVars, driftVars>>

\* An AXFR request raises (or the process dies): the rest is never requested.
AxfrFails ==
  /\ stage = "axfr" /\ axfrTodo # {}
  /\ driftRecords' = driftRecords \cup axfrTodo
  /\ axfrTodo' = {} /\ stage' = "idle"
  /\ UNCHANGED <<dbVars, txVars, trackVars, cur, delTodo, updTodo, begun,
                 zoneVars, queue, driftZones>>

Done ==
  /\ stage = "axfr" /\ axfrTodo = {}
  /\ stage' = "idle"
  /\ UNCHANGED <<dbVars, txVars, trackVars, exitVars, zoneVars, queue, driftVars>>

\* nsmaster fetches a zone; a zone that is gone on either side is skipped.
Transfer(d) ==
  /\ d \in queue
  /\ queue' = queue \ {d}
  /\ master' = IF lord[d] # NoZone /\ master[d] # NoZone
                 THEN [master EXCEPT ![d] = lord[d]] ELSE master
  /\ UNCHANGED <<dbVars, txVars, trackVars, stage, exitVars, lord, catalog,
                 driftVars>>

-----------------------------------------------------------------------------
(* sync-to-pdns for one domain                                              *)

SyncBegin(d) ==
  /\ stage = "idle" /\ d \in dbDom
  /\ stage' = "syncLord" /\ cur' = d
  /\ UNCHANGED <<dbVars, txVars, trackVars, delTodo, updTodo, begun, axfrTodo,
                 zoneVars, queue, driftVars>>

NextSyncStage ==
  [s \in SyncRequests |->
    CASE s = "syncLord" -> "syncMaster"
      [] s = "syncMaster" -> "syncCatalog"
      [] s = "syncCatalog" -> "syncNewPatch"
      [] s = "syncPatch" -> "syncAxfr"
      [] s = "syncNewPatch" -> "syncNewAxfr"]

SyncRequestSucceeds ==
  /\ stage \in SyncRequests
  /\ Effect
  /\ stage' = NextSyncStage[stage]
  /\ UNCHANGED <<dbVars, txVars, trackVars, exitVars, queue, driftVars>>

\* A 409 ends CreateDomain.pdns_do and is taken for "Domain already exists".
SyncConflict ==
  /\ \/ stage = "syncLord" /\ lord[cur] # NoZone
     \/ stage = "syncMaster" /\ master[cur] # NoZone
  /\ stage' = "syncPatch"
  /\ UNCHANGED <<dbVars, txVars, trackVars, exitVars, zoneVars, queue, driftVars>>

SyncAxfr ==
  /\ stage \in {"syncAxfr", "syncNewAxfr"} /\ master[cur] # NoZone
  /\ queue' = queue \cup {cur}
  /\ driftRecords' = driftRecords \ {cur}
  /\ driftZones' = IF stage = "syncNewAxfr" THEN driftZones \ {cur} ELSE driftZones
  /\ stage' = "idle"
  /\ UNCHANGED <<dbVars, txVars, trackVars, exitVars, zoneVars>>

\* CommandError; as above, the failed request may have been applied.
SyncFails ==
  /\ stage \in SyncRequests \cup {"syncAxfr", "syncNewAxfr"}
  /\ Effect \/ UNCHANGED zoneVars
  /\ driftRecords' = driftRecords \cup {cur}
  /\ stage' = "idle"
  /\ UNCHANGED <<dbVars, txVars, trackVars, exitVars, queue, driftZones>>

-----------------------------------------------------------------------------
Body ==
  \/ BodyRaises
  \/ \E d \in Domain : DomainCreated(d) \/ DomainDeleted(d)
  \/ \E d \in Domain, i \in Item : RRsetCreated(d, i) \/ RRsetDeleted(d, i)
  \/ \E d \in Domain, i \in Item, c \in Served : RRsetModified(d, i, c)

Exit ==
  \/ ComputeChanges \/ RequestSucceeds \/ InsertDefaultNS \/ PchSucceeds
  \/ ChangeFails \/ Commit \/ AxfrFails \/ Done
  \/ \E d \in Domain : BeginDelete(d) \/ BeginUpdate(d) \/ RequestAxfr(d)

Sync == SyncRequestSucceeds \/ SyncConflict \/ SyncAxfr \/ SyncFails

Next ==
  \/ Enter \/ Body \/ Exit \/ Sync
  \/ \E d \in Domain : SyncBegin(d) \/ Transfer(d)

\* The process runs its own steps to the end (the body ends, every request is
\* answered or fails), and nsmaster makes the transfers it was told to make.
Fairness ==
  /\ WF_vars(BodyRaises \/ Exit) /\ WF_vars(Sync)
  /\ \A d \in Domain : WF_vars(Transfer(d))

Spec == Init /\ [][Next]_vars
FairSpec == Spec /\ Fairness

-----------------------------------------------------------------------------
(* Properties                                                               *)

TypeOK ==
  /\ dbDom \subseteq Domain /\ dbRR \in [Domain -> [Item -> Stored]]
  /\ dom \subseteq Domain /\ rr \in [Domain -> [Item -> Stored]]
  /\ domAdd \subseteq Domain /\ domDel \subseteq Domain
  /\ rrAdd \in [Domain -> SUBSET Item]
  /\ rrMod \in [Domain -> SUBSET Item]
  /\ rrDel \in [Domain -> SUBSET Item]
  /\ stage \in Stage /\ cur \in Domain
  /\ delTodo \subseteq Domain /\ updTodo \subseteq Domain
  /\ begun \subseteq Domain /\ axfrTodo \subseteq Domain
  /\ lord \in [Domain -> Zone \cup {NoZone}]
  /\ master \in [Domain -> Zone \cup {NoZone}]
  /\ catalog \subseteq Domain /\ queue \subseteq Domain
  /\ driftZones \subseteq Domain /\ driftRecords \subseteq Domain

\* The two assertions of _rr_set_updated never fire for one process: a row that
\* is not there is in no modifications set, a row that is there in no deletions
\* set, and the sets are disjoint as the class docstring promises.
AssertionsHold ==
  stage = "body" =>
    \A d \in Domain, i \in Item :
      /\ rr[d][i] = Absent => i \notin rrMod[d] \cup rrAdd[d]
      /\ rr[d][i] # Absent => i \notin rrDel[d]

\* However the body creates, deletes and recreates domains, the domain sets are
\* the difference between what the transaction sees and what is committed.
DomainsTracked ==
  stage = "body" => domAdd = dom \ dbDom /\ domDel = dbDom \ dom

\* Every RRset whose visible content differs from the committed one will be
\* sent, and nothing is sent that the database no longer holds.
ChangesTracked ==
  stage = "body" =>
    \A d \in dom, i \in Item :
      /\ Visible(rr[d][i]) # Visible(dbRR[d][i])
           => i \in rrAdd[d] \cup rrMod[d] \cup rrDel[d]
      /\ i \in Sent(d) => rr[d][i] # Absent

\* Between blocks, a domain no failed request has touched exists on nslord, on
\* nsmaster and in the catalog exactly if it exists in the database.
ZonesAgree ==
  stage = "idle" =>
    \A d \in Domain \ driftZones :
      /\ lord[d] # NoZone <=> d \in dbDom
      /\ master[d] # NoZone <=> d \in dbDom
      /\ d \in catalog <=> d \in dbDom

\* ... its records on nslord are those of the database, and nsmaster has them
\* or has been told to fetch them.
RecordsAgree ==
  stage = "idle" =>
    \A d \in dbDom \ driftRecords :
      /\ lord[d] = View(dbRR[d])
      /\ master[d] = lord[d] \/ d \in queue

\* pdns refuses no request (404, 409) for a domain that has not drifted.
RequestsAccepted ==
  /\ cur \notin driftZones =>
       /\ stage = "addLord" => lord[cur] = NoZone
       /\ stage = "addMaster" => master[cur] = NoZone
       /\ stage \in {"delLord", "patch"} => lord[cur] # NoZone
       /\ stage = "delMaster" => master[cur] # NoZone
  /\ stage = "axfr" => \A d \in axfrTodo \ driftZones : master[d] # NoZone

\* nsmaster serves the records of nslord again and again: no change is left
\* behind on nslord unless a request for it failed.
ChangesServed ==
  \A d \in Domain :
    []<>(d \notin dbDom \/ d \in driftRecords \/ master[d] = lord[d])

\* "Create domain on pdns if it does not exist" (sync-to-pdns.py:53): when the
\* RRsets are about to be sent, the zone exists on both servers.
SyncCreatesZone ==
  stage \in {"syncPatch", "syncNewPatch"} => lord[cur] # NoZone /\ master[cur] # NoZone
=============================================================================
