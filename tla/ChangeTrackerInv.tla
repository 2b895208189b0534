-------------------------- MODULE ChangeTrackerInv --------------------------
(***************************************************************************)
(* The inductive invariants of ChangeTracker: TrackInv about the tracker's  *)
(* sets and the database, PdnsInv about the two pdns servers.  Neither      *)
(* DomainsTracked, ChangesTracked, ZonesAgree nor RecordsAgree is inductive *)
(* by itself: they speak of the body and of the moments between blocks, and *)
(* these are the facts that hold in the middle of __exit__.                 *)
(***************************************************************************)
EXTENDS ChangeTracker

DeleteStages == {"delLord", "delMaster", "delCatalog", "delPch"}
CreateStages == {"addLord", "addMaster", "addCatalog", "addNS", "addPch"}
ApplyStages == {"apply", "patch"} \cup DeleteStages \cup CreateStages
SyncStages == SyncRequests \cup {"syncAxfr", "syncNewAxfr"}

Tracked(d) == rrAdd[d] \cup rrMod[d] \cup rrDel[d]

\* Outside a block there is nothing open and nothing tracked.
OutsideBlock ==
  stage \notin {"body"} \cup ApplyStages =>
    /\ dom = dbDom /\ rr = dbRR
    /\ rrAdd = NoItems /\ rrMod = NoItems /\ rrDel = NoItems
    /\ delTodo = {} /\ updTodo = {} /\ begun = {}

\* In the body and at idle no change is begun or waits.
NothingBegun ==
  /\ stage = "body" => delTodo = {} /\ updTodo = {} /\ begun = {}
  /\ stage \in {"idle", "body"} \cup SyncStages => axfrTodo = {}

\* The domain sets are the difference of the two views of the database.
DomainSets == domAdd = dom \ dbDom /\ domDel = dbDom \ dom

\* Only domains have RRsets.
RowsBelong ==
  \A d \in Domain, i \in Item :
    /\ d \notin dom => rr[d][i] = Absent
    /\ d \notin dbDom => dbRR[d][i] = Absent

\* The RRset sets while the body runs, for one RRset.
BodyItem(d, i) ==
  /\ rr[d][i] = Absent => i \notin rrAdd[d] \cup rrMod[d]
  /\ rr[d][i] # Absent => i \notin rrDel[d]
  /\ rr[d][i] # Absent /\ i \notin rrAdd[d] => dbRR[d][i] # Absent
  /\ i \in rrDel[d] => dbRR[d][i] # Absent
  /\ CallerDiscipline /\ Visible(rr[d][i]) # Visible(dbRR[d][i]) => i \in Tracked(d)

BodySets == stage = "body" => \A d \in Domain, i \in Item : BodyItem(d, i)

\* The RRset sets while the changes are applied: those of deleted domains are
\* popped, and the default NS RRset of a created domain is in none of them.
ApplyItem(d, i) ==
  /\ rr[d][i] = Absent => i \notin rrAdd[d] \cup rrMod[d]
  /\ rr[d][i] # Absent => i \notin rrDel[d]
  /\ i \in rrDel[d] => dbRR[d][i] # Absent
  /\ d \in domDel => i \notin Tracked(d)
  /\ CallerDiscipline /\ d \in dom /\ Visible(rr[d][i]) # Visible(dbRR[d][i])
       => \/ i \in Tracked(d)
          \/ i = NSItem /\ d \in domAdd \cap begun /\ rr[d][i] = DefaultNS

ApplySets == stage \in ApplyStages => \A d \in Domain, i \in Item : ApplyItem(d, i)

\* Every change is waiting, begun or finished; deletions come first.
Bookkeeping ==
  stage \in ApplyStages =>
    /\ delTodo \cap begun = {} /\ updTodo \cap begun = {}
    /\ domDel \subseteq delTodo \cup begun /\ delTodo \subseteq domDel
    /\ domAdd \subseteq updTodo \cup begun
    /\ \A d \in Domain : Tracked(d) # {} => d \in updTodo \cup begun
    /\ updTodo \subseteq dom
    /\ axfrTodo = begun \ domDel /\ axfrTodo \subseteq dom
    /\ stage # "apply" => cur \in begun
    /\ stage \in DeleteStages => cur \in domDel
    /\ stage \in CreateStages => cur \in domAdd
    /\ stage = "patch" => cur \notin domDel

TrackInv ==
  /\ TypeOK /\ OutsideBlock /\ NothingBegun /\ DomainSets /\ RowsBelong
  /\ BodySets /\ ApplySets /\ Bookkeeping

-----------------------------------------------------------------------------
On(d) == lord[d] # NoZone /\ master[d] # NoZone /\ d \in catalog
Off(d) == lord[d] = NoZone /\ master[d] = NoZone /\ d \notin catalog

\* The change of d is complete, up to COMMIT.
Finished(d) == d \in begun /\ (stage = "apply" \/ d # cur)

\* pdns as the committed database has it.
ZoneAsCommitted(d) == IF d \in dbDom THEN On(d) ELSE Off(d)
RecordsAsCommitted(d) ==
  /\ lord[d] = View(dbRR[d]) /\ master[d] # NoZone
  /\ master[d] = lord[d] \/ d \in queue \cup axfrTodo

\* Domains that no change of this block has reached.
Untouched ==
  \A d \in Domain \ begun :
    /\ d \notin driftZones => ZoneAsCommitted(d)
    /\ d \in dbDom \ driftRecords => RecordsAsCommitted(d)

\* Domains whose change is complete: what was created or deleted is right
\* even if it had drifted before.
Complete ==
  stage \in ApplyStages =>
    \A d \in Domain :
      Finished(d) =>
        /\ d \notin driftZones \/ d \in domAdd \cup domDel
             => IF d \in dom THEN On(d) ELSE Off(d)
        /\ d \in dom /\ (d \notin driftRecords \/ d \in domAdd)
             => lord[d] = View(rr[d]) /\ master[d] # NoZone

\* The domain whose change is under way.
InProgress ==
  /\ stage = "delLord" /\ cur \notin driftZones => On(cur)
  /\ stage = "delMaster" =>
       lord[cur] = NoZone /\ (cur \notin driftZones => master[cur] # NoZone)
  /\ stage = "delCatalog" => lord[cur] = NoZone /\ master[cur] = NoZone
  /\ stage = "delPch" => Off(cur)
  /\ stage = "addLord" /\ cur \notin driftZones => Off(cur)
  /\ stage = "addMaster" =>
       lord[cur] = FreshZone /\ (cur \notin driftZones => master[cur] = NoZone)
  /\ stage = "addCatalog" => lord[cur] = FreshZone /\ master[cur] # NoZone
  /\ stage \in {"addNS", "addPch"} \/ (stage = "patch" /\ cur \in domAdd)
       => lord[cur] = FreshZone /\ On(cur)
  /\ stage = "addPch" \/ (stage = "patch" /\ cur \in domAdd)
       => rr[cur][NSItem] = DefaultNS /\ NSItem \notin Tracked(cur)
  /\ stage = "patch" /\ cur \notin domAdd =>
       /\ cur \notin driftZones => On(cur)
       /\ cur \notin driftRecords => lord[cur] = View(dbRR[cur]) /\ master[cur] # NoZone

\* sync-to-pdns creates a zone only where one was missing.
Syncing ==
  /\ stage \in SyncStages => cur \in dbDom
  /\ stage \in {"syncMaster", "syncCatalog", "syncNewPatch", "syncNewAxfr"}
       => cur \in driftZones /\ lord[cur] # NoZone
  /\ stage \in {"syncMaster", "syncCatalog"} => cur \in driftRecords
  /\ stage \in {"syncCatalog", "syncNewPatch", "syncNewAxfr"} => master[cur] # NoZone
  /\ stage \in {"syncNewPatch", "syncNewAxfr"} => cur \in catalog
  /\ stage \in {"syncAxfr", "syncNewAxfr"} => lord[cur] = View(dbRR[cur])

AxfrPending == stage = "axfr" => axfrTodo \subseteq dbDom

PdnsInv == Untouched /\ Complete /\ InProgress /\ Syncing /\ AxfrPending

IInv == TrackInv /\ PdnsInv
=============================================================================
