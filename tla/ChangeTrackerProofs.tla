------------------------ MODULE ChangeTrackerProofs ------------------------
(***************************************************************************)
(* Proofs about ChangeTracker, for every set of domains, items and values.  *)
(***************************************************************************)
EXTENDS ChangeTrackerInv, TLAPS

USE DEF dbVars, txVars, trackVars, exitVars, zoneVars, driftVars

LEMMA ZoneTypes ==
  /\ FreshZone \in Zone /\ BlankZone \in Zone
  /\ NoItems \in [Domain -> SUBSET Item]
  /\ [d \in Domain |-> NoRRsets] \in [Domain -> [Item -> Stored]]
  /\ NoRRsets \in [Item -> Stored]
  /\ \A r \in [Item -> Stored] : View(r) \in Zone
  BY NSAssumption DEF FreshZone, BlankZone, NoItems, NoRRsets, View, Visible,
     Zone, Served, Stored

LEMMA TypeInit == Init => TypeOK
  BY ZoneTypes DEF Init, TypeOK, Stage

\* The type of what a body operation does.
LEMMA TypeBody == TypeOK /\ Body => TypeOK'
<1> SUFFICES ASSUME TypeOK, Body PROVE TypeOK'
  OBVIOUS
<1>1. CASE BodyRaises
  BY <1>1, ZoneTypes DEF TypeOK, BodyRaises, Rollback, Forget, Stage
<1>2. ASSUME NEW d \in Domain, DomainCreated(d) PROVE TypeOK'
  BY <1>2 DEF TypeOK, DomainCreated
<1>3. ASSUME NEW d \in Domain, DomainDeleted(d) PROVE TypeOK'
  BY <1>3, ZoneTypes DEF TypeOK, DomainDeleted, Present
<1>4. ASSUME NEW d \in Domain, NEW i \in Item, RRsetCreated(d, i) PROVE TypeOK'
  BY <1>4 DEF TypeOK, RRsetCreated, Stored, Served
<1>5. ASSUME NEW d \in Domain, NEW i \in Item, RRsetDeleted(d, i) PROVE TypeOK'
  <2>1. rr' \in [Domain -> [Item -> Stored]]
    BY <1>5 DEF TypeOK, RRsetDeleted, Stored
  <2>2. rrMod' \in [Domain -> SUBSET Item]
    BY <1>5 DEF TypeOK, RRsetDeleted
  <2>3. rrAdd' \in [Domain -> SUBSET Item]
    BY <1>5 DEF TypeOK, RRsetDeleted
  <2>4. rrDel' \in [Domain -> SUBSET Item]
    BY <1>5 DEF TypeOK, RRsetDeleted
  <2> QED
    BY <1>5, <2>1, <2>2, <2>3, <2>4 DEF TypeOK, RRsetDeleted
<1>6. ASSUME NEW d \in Domain, NEW i \in Item, NEW c \in Served, RRsetModified(d, i, c)
      PROVE TypeOK'
  BY <1>6 DEF TypeOK, RRsetModified, Stored, Served
<1> QED
  BY <1>1, <1>2, <1>3, <1>4, <1>5, <1>6 DEF Body

\* The two sets that _sync_domain computes make up the whole difference between
\* the zone and the database: what is left alone was empty and has to be.
LEMMA SyncedIsView ==
  ASSUME TypeOK, lord[cur] # NoZone
  PROVE  Synced(cur) = View(rr[cur]) /\ Synced(cur) \in Zone
<1>1. lord[cur] \in [Item -> Served] /\ rr[cur] \in [Item -> Stored] /\ cur \in Domain
  BY DEF TypeOK, Zone
<1>2. ASSUME NEW i \in Item
      PROVE  /\ Synced(cur)[i] = Visible(rr[cur][i])
             /\ Visible(rr[cur][i]) \in Served
  <2>1. CASE rr[cur][i] # Absent
    <3>1. i \in SyncModifications(cur) /\ i \notin SyncDeletions(cur)
      BY <2>1 DEF SyncModifications, SyncDeletions, Present
    <3>2. rr[cur][i] \in Served
      BY <1>1, <2>1 DEF Stored
    <3> QED
      BY <2>1, <3>1, <3>2 DEF Synced, Visible
  <2>2. CASE rr[cur][i] = Absent
    <3>1. i \notin SyncModifications(cur)
      BY <2>2 DEF SyncModifications, Present
    <3>2. i \in SyncDeletions(cur) \/ lord[cur][i] = Empty
      BY <3>1 DEF SyncDeletions
    <3>3. Synced(cur)[i] = Empty
      BY <3>1, <3>2 DEF Synced
    <3> QED
      BY <2>2, <3>3 DEF Visible, Served
  <2> QED
    BY <2>1, <2>2
<1>3. Synced(cur) = [i \in Item |-> Synced(cur)[i]]
  BY DEF Synced
<1> QED
  BY <1>2, <1>3 DEF View, Zone

\* The type of what a request does to the servers.
LEMMA TypeEffect ==
  ASSUME TypeOK, Effect
  PROVE  /\ lord' \in [Domain -> Zone \cup {NoZone}]
         /\ master' \in [Domain -> Zone \cup {NoZone}]
         /\ catalog' \subseteq Domain
<1>1. CASE stage = "patch" /\ UpdateZone(cur)
  <2>1. lord[cur] \in Zone
    BY <1>1 DEF UpdateZone, TypeOK
  <2>2. Patched(cur) \in Zone
    BY <2>1 DEF Patched, Visible, Zone, Served, Stored, TypeOK
  <2> QED
    BY <1>1, <2>2 DEF UpdateZone, TypeOK
<1>2. CASE stage \in {"syncPatch", "syncNewPatch"} /\ ReplaceZone(cur)
  <2>1. Synced(cur) \in Zone
    BY <1>2, SyncedIsView DEF ReplaceZone
  <2> QED
    BY <1>2, <2>1 DEF ReplaceZone, TypeOK
<1> QED
  <2>1. lord' \in [Domain -> Zone \cup {NoZone}]
    BY <1>1, <1>2, ZoneTypes DEF Effect, TypeOK, CreateZoneLord, CreateZoneMaster,
       AddToCatalog, DeleteZoneLord, DeleteZoneMaster, RemoveFromCatalog
  <2>2. master' \in [Domain -> Zone \cup {NoZone}]
    BY <1>1, <1>2, ZoneTypes DEF Effect, TypeOK, CreateZoneLord, CreateZoneMaster,
       AddToCatalog, DeleteZoneLord, DeleteZoneMaster, RemoveFromCatalog
  <2>3. catalog' \subseteq Domain
    BY <1>1, <1>2 DEF Effect, TypeOK, CreateZoneLord, CreateZoneMaster,
       AddToCatalog, DeleteZoneLord, DeleteZoneMaster, RemoveFromCatalog
  <2> QED
    BY <2>1, <2>2, <2>3

LEMMA TypeExit == TypeOK /\ Exit => TypeOK'
<1> SUFFICES ASSUME TypeOK, Exit PROVE TypeOK'
  OBVIOUS
<1>1. CASE ComputeChanges
  BY <1>1 DEF TypeOK, ComputeChanges, Kept, NonemptyAdditions, Stage
<1>2. CASE RequestSucceeds
  BY <1>2, TypeEffect DEF TypeOK, RequestSucceeds, NextStage, AfterCreate, Requests, Stage
<1>3. CASE InsertDefaultNS
  BY <1>3, NSAssumption DEF TypeOK, InsertDefaultNS, AfterCreate, Stored, Served,
     Stage, Requests
<1>4. CASE PchSucceeds
  BY <1>4 DEF TypeOK, PchSucceeds, AfterCreate, Stage, Requests
<1>5. CASE ChangeFails
  BY <1>5, TypeEffect, ZoneTypes DEF TypeOK, ChangeFails, Rollback, Forget, Stage
<1>6. CASE Commit
  BY <1>6, ZoneTypes DEF TypeOK, Commit, Forget, Stage
<1>7. CASE AxfrFails
  BY <1>7 DEF TypeOK, AxfrFails, Stage
<1>8. CASE Done
  BY <1>8 DEF TypeOK, Done, Stage
<1>9. ASSUME NEW d \in Domain, BeginDelete(d) PROVE TypeOK'
  BY <1>9 DEF TypeOK, BeginDelete, Stage, Requests
<1>10. ASSUME NEW d \in Domain, BeginUpdate(d) PROVE TypeOK'
  BY <1>10 DEF TypeOK, BeginUpdate, AxfrRequired, Stage, Requests
<1>11. ASSUME NEW d \in Domain, RequestAxfr(d) PROVE TypeOK'
  BY <1>11 DEF TypeOK, RequestAxfr
<1> QED
  BY <1>1, <1>2, <1>3, <1>4, <1>5, <1>6, <1>7, <1>8, <1>9, <1>10, <1>11 DEF Exit

LEMMA TypeSync == TypeOK /\ Sync => TypeOK'
<1> SUFFICES ASSUME TypeOK, Sync PROVE TypeOK'
  OBVIOUS
<1>1. CASE SyncRequestSucceeds
  BY <1>1, TypeEffect DEF TypeOK, SyncRequestSucceeds, NextSyncStage, SyncRequests, Stage
<1>2. CASE SyncConflict
  BY <1>2 DEF TypeOK, SyncConflict, SyncRequests, Stage
<1>3. CASE SyncAxfr
  BY <1>3 DEF TypeOK, SyncAxfr, Stage
<1>4. CASE SyncFails
  BY <1>4, TypeEffect DEF TypeOK, SyncFails, Stage
<1> QED
  BY <1>1, <1>2, <1>3, <1>4 DEF Sync

LEMMA TypeStep == TypeOK /\ [Next]_vars => TypeOK'
<1> SUFFICES ASSUME TypeOK, [Next]_vars PROVE TypeOK'
  OBVIOUS
<1>1. CASE Enter
  BY <1>1 DEF TypeOK, Enter, Stage
<1>2. ASSUME NEW d \in Domain, SyncBegin(d) PROVE TypeOK'
  BY <1>2 DEF TypeOK, SyncBegin, SyncRequests, Stage
<1>3. ASSUME NEW d \in Domain, Transfer(d) PROVE TypeOK'
  BY <1>3 DEF TypeOK, Transfer
<1>4. CASE UNCHANGED vars
  BY <1>4 DEF TypeOK, vars
<1> QED
  BY <1>1, <1>2, <1>3, <1>4, TypeBody, TypeExit, TypeSync DEF Next

\* Every reachable state is well typed.
THEOREM TypeCorrect == Spec => []TypeOK
  BY TypeInit, TypeStep, PTL DEF Spec

-----------------------------------------------------------------------------
(* TrackInv.  Most actions leave the sets and the rows alone, or change them *)
(* in a way the solver follows once the parts of the invariant are expanded; *)
(* the actions that move one RRset between the sets are split by whether the *)
(* RRset in question is the one that moves.                                  *)

USE DEF OutsideBlock, NothingBegun, DomainSets, RowsBelong, BodySets, ApplySets,
        Bookkeeping, ApplyStages, DeleteStages, CreateStages, SyncStages,
        SyncRequests, Requests

LEMMA TrackInit == Init => TrackInv
  BY TypeInit DEF Init, TrackInv, NoRRsets, NoItems, BodyItem, ApplyItem, Tracked

LEMMA TrackEnter ==
  ASSUME TrackInv, Enter, TypeOK'
  PROVE  TrackInv'
<1>1. BodySets'
  BY DEF TrackInv, Enter, BodyItem, Tracked, NoItems
<1> QED
  BY <1>1 DEF TrackInv, TypeOK, BodyItem, ApplyItem, Tracked, Enter

LEMMA TrackBodyRaises ==
  ASSUME TrackInv, BodyRaises, TypeOK'
  PROVE  TrackInv'
  BY DEF TrackInv, TypeOK, Rollback, Forget, NoItems, BodyItem, ApplyItem, Tracked, BodyRaises

LEMMA TrackDomainCreated ==
  ASSUME TrackInv, NEW d \in Domain, DomainCreated(d), TypeOK'
  PROVE  TrackInv'
  BY DEF TrackInv, TypeOK, BodyItem, ApplyItem, Tracked, DomainCreated

LEMMA TrackDomainDeleted ==
  ASSUME TrackInv, NEW d \in Domain, DomainDeleted(d), TypeOK'
  PROVE  TrackInv'
<1>1. BodySets'
  <2> SUFFICES ASSUME NEW e \in Domain, NEW j \in Item PROVE BodyItem(e, j)'
    BY DEF BodySets
  <2>0. BodyItem(e, j)
    BY DEF TrackInv, BodySets, DomainDeleted
  <2>1. CASE e # d
    <3>1. /\ rr'[e][j] = rr[e][j] /\ dbRR' = dbRR
          /\ rrAdd'[e] = rrAdd[e] /\ rrMod'[e] = rrMod[e] /\ rrDel'[e] = rrDel[e]
      BY <2>1 DEF DomainDeleted, TrackInv, TypeOK
    <3> QED
      BY <2>0, <3>1 DEF BodyItem, Tracked
  <2>2. CASE e = d
    <3>1. /\ rr'[d][j] = Absent /\ dbRR' = dbRR
          /\ rrAdd'[d] = rrAdd[d] \ Present(d) /\ rrMod'[d] = rrMod[d] \ Present(d)
          /\ rrDel'[d] = rrDel[d] \cup (Present(d) \ rrAdd[d])
          /\ CallerDiscipline => Recreated(d) = {}
      BY <2>2 DEF DomainDeleted, TrackInv, TypeOK, NoRRsets
    <3>2. CASE rr[d][j] = Absent
      BY <2>0, <2>2, <3>1, <3>2 DEF BodyItem, Tracked, Present
    <3>3. CASE rr[d][j] # Absent /\ j \in rrAdd[d]
      BY <2>0, <2>2, <3>1, <3>3 DEF BodyItem, Tracked, Present, Recreated, Visible
    <3>4. CASE rr[d][j] # Absent /\ j \notin rrAdd[d]
      BY <2>0, <2>2, <3>1, <3>4 DEF BodyItem, Tracked, Present
    <3> QED
      BY <3>2, <3>3, <3>4
  <2> QED
    BY <2>1, <2>2
<1> QED
  BY <1>1 DEF TrackInv, TypeOK, BodyItem, ApplyItem, Tracked, NoRRsets, Present, DomainDeleted

LEMMA TrackRRsetCreated ==
  ASSUME TrackInv, NEW d \in Domain, NEW i \in Item, RRsetCreated(d, i), TypeOK'
  PROVE  TrackInv'
<1>1. BodySets'
  <2> SUFFICES ASSUME NEW e \in Domain, NEW j \in Item PROVE BodyItem(e, j)'
    BY DEF BodySets
  <2>0. BodyItem(e, j)
    BY DEF TrackInv, BodySets, RRsetCreated
  <2>1. CASE e # d \/ j # i
    BY <2>0, <2>1 DEF RRsetCreated, TrackInv, TypeOK, BodyItem, Tracked
  <2>2. CASE e = d /\ j = i
    BY <2>0, <2>2, ContentAssumption DEF RRsetCreated, TrackInv, TypeOK, BodyItem, Tracked
  <2> QED
    BY <2>1, <2>2
<1> QED
  BY <1>1 DEF TrackInv, TypeOK, BodyItem, ApplyItem, Tracked, RRsetCreated

LEMMA TrackRRsetDeleted ==
  ASSUME TrackInv, NEW d \in Domain, NEW i \in Item, RRsetDeleted(d, i), TypeOK'
  PROVE  TrackInv'
  BY DEF TrackInv, TypeOK, Recreated, Visible, BodyItem, ApplyItem, Tracked, RRsetDeleted

LEMMA TrackRRsetModified ==
  ASSUME TrackInv, NEW d \in Domain, NEW i \in Item, NEW c \in Served, RRsetModified(d, i, c), TypeOK'
  PROVE  TrackInv'
<1>1. BodySets'
  <2> SUFFICES ASSUME NEW e \in Domain, NEW j \in Item PROVE BodyItem(e, j)'
    BY DEF BodySets
  <2>0. BodyItem(e, j)
    BY DEF TrackInv, BodySets, RRsetModified
  <2>1. CASE e # d \/ j # i
    BY <2>0, <2>1 DEF RRsetModified, TrackInv, TypeOK, BodyItem, Tracked
  <2>2. CASE e = d /\ j = i
    BY <2>0, <2>2, ContentAssumption DEF RRsetModified, TrackInv, TypeOK, BodyItem, Tracked, Served
  <2> QED
    BY <2>1, <2>2
<1> QED
  BY <1>1 DEF TrackInv, TypeOK, BodyItem, ApplyItem, Tracked, RRsetModified

LEMMA TrackComputeChanges ==
  ASSUME TrackInv, ComputeChanges, TypeOK'
  PROVE  TrackInv'
<1>1. ApplySets'
  <2> SUFFICES ASSUME NEW e \in Domain, NEW j \in Item PROVE ApplyItem(e, j)'
    BY DEF ApplySets
  <2>0. BodyItem(e, j)
    BY DEF TrackInv, BodySets, ComputeChanges
  <2>1. /\ rr' = rr /\ dbRR' = dbRR /\ dom' = dom /\ dbDom' = dbDom /\ domDel' = domDel
        /\ rrAdd'[e] = Kept(e, NonemptyAdditions(e))
        /\ rrMod'[e] = Kept(e, rrMod[e]) /\ rrDel'[e] = Kept(e, rrDel[e])
        /\ CallerDiscipline => Recreated(e) \subseteq NonemptyAdditions(e)
        /\ domDel = dbDom \ dom
    BY DEF ComputeChanges, TrackInv, DomainSets
  <2>2. CASE e \in domDel
    BY <2>0, <2>1, <2>2 DEF ApplyItem, BodyItem, Tracked, Kept
  <2>3. CASE e \notin domDel
    BY <2>0, <2>1, <2>3 DEF ApplyItem, BodyItem, Tracked, Kept, NonemptyAdditions, Recreated, Visible
  <2> QED
    BY <2>2, <2>3
<1>2. Bookkeeping'
  <2>1. updTodo' \subseteq dom'
    <3> SUFFICES ASSUME NEW e \in updTodo' PROVE e \in dom
      BY DEF ComputeChanges
    <3>1. CASE e \in domAdd
      BY <3>1 DEF TrackInv, DomainSets
    <3>2. CASE e \notin domAdd
      <4>1. e \in Domain /\ Tracked(e)' # {}
        BY <3>2 DEF ComputeChanges, Tracked
      <4>2. PICK j \in Item : j \in Tracked(e)'
        BY <4>1 DEF Tracked, TypeOK
      <4>3. e \notin domDel /\ j \in Tracked(e)
        BY <4>1, <4>2 DEF ComputeChanges, Tracked, Kept, NonemptyAdditions
      <4>4. BodyItem(e, j)
        BY <4>1 DEF TrackInv, BodySets, ComputeChanges
      <4> QED
        BY <4>1, <4>3, <4>4 DEF BodyItem, Tracked, TrackInv, RowsBelong, DomainSets
    <3> QED
      BY <3>1, <3>2
  <2> QED
    BY <2>1 DEF TrackInv, TypeOK, NothingBegun, ComputeChanges, Bookkeeping, Tracked, DomainSets, DeleteStages, CreateStages
<1>3. (OutsideBlock /\ NothingBegun /\ DomainSets /\ RowsBelong /\ BodySets)'
  BY DEF TrackInv, ComputeChanges
<1> QED
  BY <1>1, <1>2, <1>3 DEF TrackInv

LEMMA TrackBeginDelete ==
  ASSUME TrackInv, NEW d \in Domain, BeginDelete(d), TypeOK'
  PROVE  TrackInv'
<1>1. /\ UNCHANGED <<dbDom, dbRR, dom, rr, domAdd, domDel, rrAdd, rrMod, rrDel, updTodo>>
      /\ stage = "apply" /\ stage' = "delLord" /\ d \in delTodo /\ delTodo' = delTodo \ {d}
      /\ begun' = begun \cup {d} /\ cur' = d /\ axfrTodo' = axfrTodo
  BY DEF BeginDelete
<1>2. ApplySets'
  <2> SUFFICES ASSUME NEW e \in Domain, NEW i \in Item PROVE ApplyItem(e, i)'
    OBVIOUS
  <2>1. ApplyItem(e, i)
    BY <1>1 DEF TrackInv
  <2> QED BY <1>1, <2>1 DEF ApplyItem, Tracked
<1>3. Bookkeeping'
  BY <1>1 DEF TrackInv, TypeOK, Tracked
<1>4. (OutsideBlock /\ NothingBegun /\ DomainSets /\ RowsBelong /\ BodySets)'
  BY <1>1 DEF TrackInv
<1> QED
  BY <1>2, <1>3, <1>4 DEF TrackInv

LEMMA TrackBeginUpdate ==
  ASSUME TrackInv, NEW d \in Domain, BeginUpdate(d), TypeOK'
  PROVE  TrackInv'
  BY DEF TrackInv, TypeOK, AxfrRequired, BodyItem, ApplyItem, Tracked, BeginUpdate

LEMMA TrackRequestSucceeds ==
  ASSUME TrackInv, RequestSucceeds, TypeOK'
  PROVE  TrackInv'
<1>1. /\ UNCHANGED <<dbDom, dbRR, dom, rr, domAdd, domDel, rrAdd, rrMod, rrDel, cur>>
      /\ UNCHANGED <<delTodo, updTodo, begun, axfrTodo>>
      /\ stage \in Requests /\ stage' = NextStage[stage]
  BY DEF RequestSucceeds
<1>2. /\ stage \in ApplyStages \ {"apply"} /\ stage' \in ApplyStages
      /\ stage' \in DeleteStages => stage \in DeleteStages
      /\ stage' \in CreateStages => stage \in CreateStages
      /\ stage' # "patch"
  BY <1>1 DEF NextStage
<1>3. ApplySets'
  <2> SUFFICES ASSUME NEW e \in Domain, NEW i \in Item PROVE ApplyItem(e, i)'
    OBVIOUS
  <2>1. ApplyItem(e, i)
    BY <1>2 DEF TrackInv
  <2> QED BY <1>1, <2>1 DEF ApplyItem, Tracked
<1>4. Bookkeeping'
  BY <1>1, <1>2 DEF TrackInv, Tracked
<1>5. (OutsideBlock /\ NothingBegun /\ DomainSets /\ RowsBelong /\ BodySets)'
  BY <1>1, <1>2 DEF TrackInv
<1> QED
  BY <1>3, <1>4, <1>5 DEF TrackInv

LEMMA TrackInsertDefaultNS ==
  ASSUME TrackInv, InsertDefaultNS, TypeOK'
  PROVE  TrackInv'
  BY DEF TrackInv, TypeOK, AfterCreate, Visible, BodyItem, ApplyItem, Tracked, InsertDefaultNS

LEMMA TrackPchSucceeds ==
  ASSUME TrackInv, PchSucceeds, TypeOK'
  PROVE  TrackInv'
  BY DEF TrackInv, TypeOK, AfterCreate, BodyItem, ApplyItem, Tracked, PchSucceeds

LEMMA TrackChangeFails ==
  ASSUME TrackInv, ChangeFails, TypeOK'
  PROVE  TrackInv'
  BY DEF TrackInv, TypeOK, Rollback, Forget, NoItems, BodyItem, ApplyItem, Tracked, ChangeFails

LEMMA TrackCommit ==
  ASSUME TrackInv, Commit, TypeOK'
  PROVE  TrackInv'
  BY DEF TrackInv, TypeOK, Forget, NoItems, BodyItem, ApplyItem, Tracked, Commit

LEMMA TrackRequestAxfr ==
  ASSUME TrackInv, NEW d \in Domain, RequestAxfr(d), TypeOK'
  PROVE  TrackInv'
  BY DEF TrackInv, TypeOK, BodyItem, ApplyItem, Tracked, RequestAxfr

LEMMA TrackAxfrFails ==
  ASSUME TrackInv, AxfrFails, TypeOK'
  PROVE  TrackInv'
  BY DEF TrackInv, TypeOK, BodyItem, ApplyItem, Tracked, AxfrFails

LEMMA TrackDone ==
  ASSUME TrackInv, Done, TypeOK'
  PROVE  TrackInv'
  BY DEF TrackInv, TypeOK, BodyItem, ApplyItem, Tracked, Done

LEMMA TrackTransfer ==
  ASSUME TrackInv, NEW d \in Domain, Transfer(d), TypeOK'
  PROVE  TrackInv'
  BY DEF TrackInv, TypeOK, BodyItem, ApplyItem, Tracked, Transfer

LEMMA TrackSyncBegin ==
  ASSUME TrackInv, NEW d \in Domain, SyncBegin(d), TypeOK'
  PROVE  TrackInv'
  BY DEF TrackInv, TypeOK, BodyItem, ApplyItem, Tracked, SyncBegin

LEMMA TrackSyncRequestSucceeds ==
  ASSUME TrackInv, SyncRequestSucceeds, TypeOK'
  PROVE  TrackInv'
  BY DEF TrackInv, TypeOK, NextSyncStage, BodyItem, ApplyItem, Tracked, SyncRequestSucceeds

LEMMA TrackSyncConflict ==
  ASSUME TrackInv, SyncConflict, TypeOK'
  PROVE  TrackInv'
  BY DEF TrackInv, TypeOK, BodyItem, ApplyItem, Tracked, SyncConflict

LEMMA TrackSyncAxfr ==
  ASSUME TrackInv, SyncAxfr, TypeOK'
  PROVE  TrackInv'
  BY DEF TrackInv, TypeOK, BodyItem, ApplyItem, Tracked, SyncAxfr

LEMMA TrackSyncFails ==
  ASSUME TrackInv, SyncFails, TypeOK'
  PROVE  TrackInv'
  BY DEF TrackInv, TypeOK, BodyItem, ApplyItem, Tracked, SyncFails

LEMMA TrackStep == TrackInv /\ [Next]_vars => TrackInv'
<1> SUFFICES ASSUME TrackInv, [Next]_vars PROVE TrackInv'
  OBVIOUS
<1>1. TypeOK'
  BY TypeStep DEF TrackInv
<1>2. CASE UNCHANGED vars
  BY <1>1, <1>2 DEF TrackInv, vars, BodyItem, ApplyItem, Tracked
<1>3. CASE Enter \/ \E d \in Domain : SyncBegin(d) \/ Transfer(d)
  BY <1>1, <1>3, TrackEnter, TrackSyncBegin, TrackTransfer
<1>4. CASE Body
  BY <1>1, <1>4, TrackBodyRaises, TrackDomainCreated, TrackDomainDeleted,
     TrackRRsetCreated, TrackRRsetDeleted, TrackRRsetModified DEF Body
<1>5. CASE Exit
  BY <1>1, <1>5, TrackComputeChanges, TrackBeginDelete, TrackBeginUpdate,
     TrackRequestSucceeds, TrackInsertDefaultNS, TrackPchSucceeds,
     TrackChangeFails, TrackCommit, TrackRequestAxfr, TrackAxfrFails, TrackDone
     DEF Exit
<1>6. CASE Sync
  BY <1>1, <1>6, TrackSyncRequestSucceeds, TrackSyncConflict, TrackSyncAxfr,
     TrackSyncFails DEF Sync
<1> QED
  BY <1>2, <1>3, <1>4, <1>5, <1>6 DEF Next

LEMMA TrackInvariant == Spec => []TrackInv
  BY TrackInit, TrackStep, PTL DEF Spec

\* In one process the assertions of _rr_set_updated never fire, whatever the body
\* does with the rows.
THEOREM AssertionsNeverFire == Spec => []AssertionsHold
<1>1. TrackInv => AssertionsHold
  BY DEF TrackInv, AssertionsHold, BodyItem
<1> QED
  BY <1>1, TrackInvariant, PTL

\* The domain sets are exact for every sequence of domain creations and deletions.
THEOREM DomainsAlwaysTracked == Spec => []DomainsTracked
<1>1. TrackInv => DomainsTracked
  BY DEF TrackInv, DomainsTracked
<1> QED
  BY <1>1, TrackInvariant, PTL

\* If the body recreates RRsets only as the callers do, no change of a visible
\* RRset escapes the tracker.
THEOREM ChangesAlwaysTracked ==
  ASSUME CallerDiscipline
  PROVE  Spec => []ChangesTracked
<1>1. TrackInv => ChangesTracked
  BY DEF TrackInv, TypeOK, ChangesTracked, BodyItem, Tracked, Sent
<1> QED
  BY <1>1, TrackInvariant, PTL

-----------------------------------------------------------------------------
(***************************************************************************)
(* PdnsInv is inductive relative to TrackInv, and what follows: wherever no *)
(* request has failed, the two pdns servers and the catalog agree with the  *)
(* database.                                                                *)
(***************************************************************************)

USE DEF ApplyStages, DeleteStages, CreateStages, SyncStages, SyncRequests, Requests

\* An action that leaves the zones of e alone.
SameZones(e) ==
  lord'[e] = lord[e] /\ master'[e] = master[e] /\ (e \in catalog' <=> e \in catalog)

\* What Complete says of one domain.
CompleteFor(d) ==
  /\ d \notin driftZones \/ d \in domAdd \cup domDel
       => IF d \in dom THEN On(d) ELSE Off(d)
  /\ d \in dom /\ (d \notin driftRecords \/ d \in domAdd)
       => lord[d] = View(rr[d]) /\ master[d] # NoZone

-----------------------------------------------------------------------------
(* Zones as values                                                          *)

LEMMA ViewIsZone ==
  ASSUME TypeOK, NEW d \in Domain
  PROVE  /\ View(rr[d]) \in Zone /\ View(dbRR[d]) \in Zone
         /\ View(rr[d]) # NoZone /\ View(dbRR[d]) # NoZone
  BY ZoneTypes, NoZoneAssumption DEF TypeOK

LEMMA NewZones == FreshZone # NoZone /\ BlankZone # NoZone
  BY ZoneTypes, NoZoneAssumption

\* A created domain that holds nothing but the default nameservers.
LEMMA FreshView ==
  ASSUME NEW rows \in [Item -> Stored], rows[NSItem] = DefaultNS,
         \A i \in Item : i # NSItem => Visible(rows[i]) = Empty
  PROVE  FreshZone = View(rows)
<1>1. Visible(DefaultNS) = DefaultNS
  BY NSAssumption, ContentAssumption DEF Visible
<1> QED
  BY <1>1 DEF FreshZone, View

\* Rows that are seen alike give the same zone.
LEMMA SameView ==
  ASSUME NEW r1, NEW r2, \A i \in Item : Visible(r1[i]) = Visible(r2[i])
  PROVE  View(r1) = View(r2)
  BY DEF View

LEMMA BookkeepingFacts ==
  ASSUME TrackInv, stage \in ApplyStages
  PROVE  /\ domAdd = dom \ dbDom /\ domDel = dbDom \ dom
         /\ axfrTodo = begun \ domDel /\ axfrTodo \subseteq dom
         /\ delTodo \cap begun = {} /\ updTodo \cap begun = {}
         /\ delTodo \subseteq domDel /\ updTodo \subseteq dom
         /\ domDel \subseteq delTodo \cup begun /\ domAdd \subseteq updTodo \cup begun
         /\ begun \subseteq Domain /\ dom \subseteq Domain /\ dbDom \subseteq Domain
         /\ cur \in Domain
         /\ stage # "apply" => cur \in begun
         /\ stage \in DeleteStages => cur \in domDel
         /\ stage \in CreateStages => cur \in domAdd
         /\ stage = "patch" => cur \notin domDel
  BY DEF TrackInv, TypeOK, DomainSets, Bookkeeping

\* A domain without a change is seen in the transaction as it is committed.
LEMMA UntrackedView ==
  ASSUME CallerDiscipline, TrackInv, stage \in ApplyStages,
         NEW d \in dom, d \notin begun \cup updTodo
  PROVE  View(rr[d]) = View(dbRR[d])
<1>1. d \in Domain
  BY DEF TrackInv, TypeOK
<1>2. Tracked(d) = {}
  BY <1>1 DEF TrackInv, Bookkeeping
<1>3. \A i \in Item : Visible(rr[d][i]) = Visible(dbRR[d][i])
  BY <1>1, <1>2 DEF TrackInv, ApplySets, ApplyItem
<1> QED
  BY <1>3, SameView

\* What a PATCH leaves on nslord, if the zone was right before.
LEMMA PatchedView ==
  ASSUME CallerDiscipline, TrackInv, stage = "patch",
         cur \notin domAdd => lord[cur] = View(dbRR[cur]),
         cur \in domAdd => /\ lord[cur] = FreshZone
                           /\ rr[cur][NSItem] = DefaultNS /\ NSItem \notin Tracked(cur)
  PROVE  Patched(cur) = View(rr[cur])
<1>1. cur \in Domain /\ cur \in dom /\ (cur \in domAdd => cur \notin dbDom)
  <2>1. stage \in ApplyStages
    OBVIOUS
  <2> QED
    BY <2>1, BookkeepingFacts
<1>2. ASSUME NEW i \in Item PROVE Patched(cur)[i] = Visible(rr[cur][i])
  <2>1. ApplyItem(cur, i)
    BY <1>1 DEF TrackInv, ApplySets
  <2>2. CASE i \in rrDel[cur]
    BY <2>1, <2>2 DEF ApplyItem, Patched, Visible
  <2>3. CASE i \notin rrDel[cur] /\ i \in Sent(cur)
    BY <2>3 DEF Patched
  <2>4. CASE i \notin Tracked(cur)
    <3>1. Patched(cur)[i] = lord[cur][i]
      BY <2>4 DEF Patched, Sent, Tracked
    <3>2. CASE cur \notin domAdd
      BY <1>1, <2>1, <2>4, <3>1, <3>2 DEF ApplyItem, View
    <3>3. CASE cur \in domAdd
      <4>1. Visible(dbRR[cur][i]) = Empty
        BY <1>1, <3>3 DEF TrackInv, RowsBelong, Visible
      <4>2. CASE i = NSItem
        BY <3>1, <3>3, <4>2, NSAssumption, ContentAssumption DEF FreshZone, Visible
      <4>3. CASE i # NSItem
        BY <1>1, <2>1, <2>4, <3>1, <3>3, <4>1, <4>3 DEF ApplyItem, FreshZone
      <4> QED
        BY <4>2, <4>3
    <3> QED
      BY <3>2, <3>3
  <2> QED
    BY <2>2, <2>3, <2>4 DEF Tracked, Sent
<1> QED
  BY <1>2 DEF Patched, View

-----------------------------------------------------------------------------
(* The body, and the moments without a change under way                     *)

LEMMA PdnsInit == Init => PdnsInv
  BY DEF Init, PdnsInv, Untouched, Complete, InProgress, Syncing, AxfrPending,
     ZoneAsCommitted, Off

LEMMA PdnsQuiet ==
  ASSUME PdnsInv, stage' \in {"idle", "body"}, begun' = begun, axfrTodo' = axfrTodo,
         UNCHANGED <<dbVars, zoneVars, queue, driftVars>>
  PROVE  PdnsInv'
  BY DEF PdnsInv, Untouched, Complete, InProgress, Syncing, AxfrPending,
     ZoneAsCommitted, RecordsAsCommitted, On, Off

LEMMA PdnsEnter ==
  ASSUME PdnsInv, Enter
  PROVE  PdnsInv'
  BY PdnsQuiet DEF Enter

LEMMA PdnsBody ==
  ASSUME TrackInv, PdnsInv, Body
  PROVE  PdnsInv'
<1>1. CASE BodyRaises
  BY <1>1, PdnsQuiet DEF BodyRaises, Rollback, Forget, TrackInv, NothingBegun
<1>2. ASSUME NEW d \in Domain, DomainCreated(d) \/ DomainDeleted(d) PROVE PdnsInv'
  BY <1>2, PdnsQuiet DEF DomainCreated, DomainDeleted
<1>3. ASSUME NEW d \in Domain, NEW i \in Item, RRsetCreated(d, i) \/ RRsetDeleted(d, i)
      PROVE  PdnsInv'
  BY <1>3, PdnsQuiet DEF RRsetCreated, RRsetDeleted
<1>4. ASSUME NEW d \in Domain, NEW i \in Item, NEW c \in Served, RRsetModified(d, i, c)
      PROVE  PdnsInv'
  BY <1>4, PdnsQuiet DEF RRsetModified
<1> QED
  BY <1>1, <1>2, <1>3, <1>4 DEF Body

LEMMA PdnsDone ==
  ASSUME PdnsInv, Done
  PROVE  PdnsInv'
  BY PdnsQuiet DEF Done

-----------------------------------------------------------------------------
(* Applying the changes                                                     *)

LEMMA PdnsComputeChanges ==
  ASSUME TrackInv, PdnsInv, ComputeChanges
  PROVE  PdnsInv'
<1>1. begun = {} /\ axfrTodo = {}
  BY DEF TrackInv, NothingBegun, ComputeChanges
<1> QED
  BY <1>1 DEF PdnsInv, Untouched, Complete, InProgress, Syncing, AxfrPending, Finished,
     ZoneAsCommitted, RecordsAsCommitted, On, Off, ComputeChanges

LEMMA PdnsBeginDelete ==
  ASSUME TrackInv, PdnsInv, NEW d \in Domain, BeginDelete(d)
  PROVE  PdnsInv'
<1>1. /\ stage = "apply" /\ d \notin begun /\ d \in dbDom
      /\ stage' = "delLord" /\ cur' = d /\ begun' = begun \cup {d}
      /\ UNCHANGED <<dbVars, txVars, trackVars, axfrTodo, zoneVars, queue, driftVars>>
  BY BookkeepingFacts DEF BeginDelete
<1>2. Untouched'
  BY <1>1 DEF PdnsInv, Untouched, ZoneAsCommitted, RecordsAsCommitted, On, Off
<1>3. Complete'
  BY <1>1 DEF PdnsInv, Complete, Finished, On, Off
<1>4. InProgress'
  BY <1>1 DEF PdnsInv, Untouched, ZoneAsCommitted, InProgress, On
<1> QED
  BY <1>1, <1>2, <1>3, <1>4 DEF PdnsInv, Syncing, AxfrPending

LEMMA PdnsBeginUpdate ==
  ASSUME TrackInv, PdnsInv, NEW d \in Domain, BeginUpdate(d)
  PROVE  PdnsInv'
<1>1. /\ stage = "apply" /\ d \notin begun /\ d \in dom
      /\ d \in domAdd <=> d \notin dbDom
      /\ stage' = IF d \in domAdd THEN "addLord" ELSE "patch"
      /\ cur' = d /\ begun' = begun \cup {d} /\ axfrTodo' = axfrTodo \cup {d}
      /\ UNCHANGED <<dbVars, txVars, trackVars, zoneVars, queue, driftVars>>
  BY BookkeepingFacts DEF BeginUpdate, AxfrRequired
<1>2. Untouched'
  BY <1>1 DEF PdnsInv, Untouched, ZoneAsCommitted, RecordsAsCommitted, On, Off
<1>3. Complete'
  BY <1>1 DEF PdnsInv, Complete, Finished, On, Off
<1>4. InProgress'
  <2>1. d \notin driftZones => ZoneAsCommitted(d)
    BY <1>1 DEF PdnsInv, Untouched
  <2>2. d \in dbDom \ driftRecords => RecordsAsCommitted(d)
    BY <1>1 DEF PdnsInv, Untouched
  <2> QED
    BY <1>1, <2>1, <2>2 DEF ZoneAsCommitted, RecordsAsCommitted, InProgress, On, Off
<1> QED
  BY <1>1, <1>2, <1>3, <1>4 DEF PdnsInv, Syncing, AxfrPending

\* A step of the change of cur, to which only cur's zones matter.
LEMMA PdnsAtCur ==
  ASSUME TrackInv, PdnsInv, stage \in ApplyStages \ {"apply"}, stage' \in ApplyStages,
         cur' = cur, begun' = begun, dom' = dom,
         UNCHANGED <<dbVars, domAdd, domDel, queue, axfrTodo, driftVars>>,
         \A e \in Domain : e # cur => SameZones(e) /\ rr'[e] = rr[e],
         stage' = "apply" => CompleteFor(cur)',
         InProgress'
  PROVE  PdnsInv'
<1>1. cur \in begun
  BY BookkeepingFacts
<1>2. Untouched'
  BY <1>1 DEF PdnsInv, Untouched, ZoneAsCommitted, RecordsAsCommitted, On, Off, SameZones
<1>3. Complete'
  <2> SUFFICES ASSUME NEW e \in Domain, Finished(e)' PROVE CompleteFor(e)'
    BY DEF Complete, CompleteFor
  <2>1. CASE e = cur
    BY <2>1 DEF Finished
  <2>2. CASE e # cur
    <3>1. CompleteFor(e)
      BY <2>2 DEF PdnsInv, Complete, CompleteFor, Finished
    <3> QED
      BY <2>2, <3>1 DEF CompleteFor, On, Off, SameZones
  <2> QED
    BY <2>1, <2>2
<1> QED
  BY <1>2, <1>3 DEF PdnsInv, Syncing, AxfrPending

\* What a request does to the zones of other domains: nothing.
LEMMA EffectAtCur ==
  ASSUME TypeOK, Effect, NEW e \in Domain, e # cur
  PROVE  SameZones(e)
  BY DEF SameZones, TypeOK, Effect, CreateZoneLord, CreateZoneMaster, AddToCatalog,
     DeleteZoneLord, DeleteZoneMaster, RemoveFromCatalog, UpdateZone, ReplaceZone

LEMMA PatchedIsZone ==
  ASSUME TypeOK, lord[cur] # NoZone
  PROVE  Patched(cur) \in Zone /\ Patched(cur) # NoZone
<1>1. lord[cur] \in Zone
  BY DEF TypeOK
<1>2. Patched(cur) \in Zone
  BY <1>1 DEF Patched, Visible, Zone, Served, Stored, TypeOK
<1> QED
  BY <1>2, NoZoneAssumption

\* A created domain to which no RRset change belongs.
LEMMA CreatedRows ==
  ASSUME CallerDiscipline, TrackInv, stage \in ApplyStages, cur \in domAdd,
         Tracked(cur) = {}, NEW i \in Item, i # NSItem
  PROVE  Visible(rr[cur][i]) = Empty
<1>1. cur \in Domain /\ cur \in dom /\ cur \notin dbDom
  BY BookkeepingFacts
<1>2. Visible(dbRR[cur][i]) = Empty
  BY <1>1 DEF TrackInv, RowsBelong, Visible
<1>3. ApplyItem(cur, i)
  BY <1>1 DEF TrackInv, ApplySets
<1> QED
  BY <1>1, <1>2, <1>3 DEF ApplyItem

LEMMA PdnsDeleteRequest ==
  ASSUME TrackInv, PdnsInv, RequestSucceeds, stage \in {"delLord", "delMaster", "delCatalog"}
  PROVE  InProgress' /\ (stage' = "apply" => CompleteFor(cur)')
<1>1. /\ cur \in Domain /\ cur \in domDel /\ cur \notin dom
      /\ UNCHANGED <<cur, dom, domAdd, domDel, driftVars>>
  BY BookkeepingFacts DEF RequestSucceeds
<1>2. lord \in [Domain -> Zone \cup {NoZone}] /\ master \in [Domain -> Zone \cup {NoZone}]
  BY DEF TrackInv, TypeOK
<1>3. CASE stage = "delLord"
  BY <1>1, <1>2, <1>3 DEF RequestSucceeds, NextStage, Effect, DeleteZoneLord, PdnsInv,
     InProgress, On
<1>4. CASE stage = "delMaster"
  BY <1>1, <1>2, <1>4 DEF RequestSucceeds, NextStage, Effect, DeleteZoneMaster, PdnsInv,
     InProgress
<1>5. CASE stage = "delCatalog"
  <2>1. Off(cur)' /\ stage' \in {"delPch", "apply"}
    BY <1>1, <1>5 DEF RequestSucceeds, NextStage, Effect, RemoveFromCatalog, PdnsInv,
       InProgress, Off
  <2> QED
    BY <1>1, <2>1 DEF InProgress, CompleteFor
<1> QED
  BY <1>3, <1>4, <1>5

LEMMA PdnsCreateRequest ==
  ASSUME TrackInv, PdnsInv, RequestSucceeds, stage \in {"addLord", "addMaster", "addCatalog"}
  PROVE  InProgress' /\ stage' # "apply"
<1>1. cur \in Domain /\ UNCHANGED <<cur, domAdd, driftVars>>
  BY BookkeepingFacts DEF RequestSucceeds
<1>2. lord \in [Domain -> Zone \cup {NoZone}] /\ master \in [Domain -> Zone \cup {NoZone}]
  BY DEF TrackInv, TypeOK
<1>3. FreshZone' = FreshZone
  BY DEF FreshZone
<1>4. CASE stage = "addLord"
  BY <1>1, <1>2, <1>3, <1>4 DEF RequestSucceeds, NextStage, Effect, CreateZoneLord,
     PdnsInv, InProgress, Off
<1>5. CASE stage = "addMaster"
  BY <1>1, <1>2, <1>3, <1>5, NewZones DEF RequestSucceeds, NextStage, Effect,
     CreateZoneMaster, PdnsInv, InProgress
<1>6. CASE stage = "addCatalog"
  BY <1>1, <1>3, <1>6, NewZones DEF RequestSucceeds, NextStage, Effect, AddToCatalog,
     PdnsInv, InProgress, On
<1> QED
  BY <1>4, <1>5, <1>6

LEMMA PdnsPatchRequest ==
  ASSUME CallerDiscipline, TrackInv, PdnsInv, RequestSucceeds, stage = "patch"
  PROVE  InProgress' /\ CompleteFor(cur)'
<1>1. /\ cur \in Domain /\ cur \in dom /\ cur \notin domDel /\ stage' = "apply"
      /\ UNCHANGED <<cur, dom, domAdd, domDel, rr, driftVars>>
  BY BookkeepingFacts DEF RequestSucceeds, NextStage
<1>2. lord[cur] # NoZone /\ lord'[cur] = Patched(cur) /\ master' = master /\ catalog' = catalog
  BY <1>1 DEF RequestSucceeds, Effect, UpdateZone, TrackInv, TypeOK
<1>3. Patched(cur) # NoZone
  BY <1>2, PatchedIsZone DEF TrackInv
<1>4. cur \notin driftZones \/ cur \in domAdd => On(cur)
  BY DEF PdnsInv, InProgress
<1>5. cur \notin driftRecords \/ cur \in domAdd
        => Patched(cur) = View(rr[cur]) /\ master[cur] # NoZone
  <2>1. CASE cur \in domAdd
    BY <2>1, PatchedView DEF PdnsInv, InProgress, On
  <2>2. CASE cur \notin domAdd /\ cur \notin driftRecords
    BY <2>2, PatchedView DEF PdnsInv, InProgress
  <2> QED
    BY <2>1, <2>2
<1>6. View(rr[cur])' = View(rr[cur])
  BY <1>1 DEF View
<1> QED
  BY <1>1, <1>2, <1>3, <1>4, <1>5, <1>6 DEF InProgress, CompleteFor, On

LEMMA PdnsRequestSucceeds ==
  ASSUME CallerDiscipline, TrackInv, PdnsInv, RequestSucceeds
  PROVE  PdnsInv'
<1>1. /\ stage \in ApplyStages \ {"apply"} /\ stage' \in ApplyStages
      /\ UNCHANGED <<cur, begun, dom, rr, domAdd, domDel, dbVars, queue, axfrTodo, driftVars>>
  BY DEF RequestSucceeds, NextStage
<1>2. \A e \in Domain : e # cur => SameZones(e)
  BY EffectAtCur DEF TrackInv, RequestSucceeds
<1>3. InProgress' /\ (stage' = "apply" => CompleteFor(cur)')
  BY PdnsDeleteRequest, PdnsCreateRequest, PdnsPatchRequest DEF RequestSucceeds
<1> QED
  BY <1>1, <1>2, <1>3, PdnsAtCur

\* What follows CreateDomain, once the default nameservers are in the database.
LEMMA PdnsCreated ==
  ASSUME CallerDiscipline, TrackInv, PdnsInv, stage \in {"addNS", "addPch"},
         UNCHANGED <<cur, begun, dom, domAdd, domDel, rrAdd, rrMod, rrDel, dbVars,
                     zoneVars, queue, axfrTodo, driftVars>>,
         rr' \in [Domain -> [Item -> Stored]], rr'[cur][NSItem] = DefaultNS,
         \A e \in Domain : e # cur => rr'[e] = rr[e],
         \A i \in Item : i # NSItem => rr'[cur][i] = rr[cur][i],
         NSItem \notin Tracked(cur),
         stage' = "addPch" \/ stage' = AfterCreate
  PROVE  PdnsInv'
<1>1. cur \in domAdd /\ cur \in dom /\ cur \in Domain
  BY BookkeepingFacts
<1>2. lord[cur] = FreshZone /\ On(cur) /\ FreshZone' = FreshZone
  BY DEF PdnsInv, InProgress, FreshZone
<1>3. stage' \in {"addPch", "patch", "apply"} /\ (stage' = "apply" => Tracked(cur) = {})
  BY DEF AfterCreate, Tracked
<1>4. InProgress'
  BY <1>1, <1>2, <1>3 DEF InProgress, On, Tracked
<1>5. ASSUME stage' = "apply" PROVE CompleteFor(cur)'
  <2>1. \A i \in Item : i # NSItem => Visible(rr'[cur][i]) = Empty
    BY <1>1, <1>3, <1>5, CreatedRows
  <2>2. FreshZone = View(rr'[cur])
    BY <1>1, <2>1, FreshView
  <2>3. View(rr[cur])' = View(rr'[cur])
    BY DEF View, Visible
  <2> QED
    BY <1>1, <1>2, <2>2, <2>3 DEF CompleteFor, On
<1>6. \A e \in Domain : e # cur => SameZones(e)
  BY DEF SameZones
<1> QED
  BY <1>3, <1>4, <1>5, <1>6, PdnsAtCur

LEMMA PdnsInsertDefaultNS ==
  ASSUME CallerDiscipline, TrackInv, PdnsInv, InsertDefaultNS
  PROVE  PdnsInv'
<1>1. cur \in Domain /\ cur \notin dbDom /\ ApplyItem(cur, NSItem)
  BY BookkeepingFacts, NSAssumption DEF InsertDefaultNS, TrackInv, ApplySets
<1>2. NSItem \notin Tracked(cur)
  BY <1>1, NSAssumption DEF InsertDefaultNS, ApplyItem, Tracked, TrackInv, RowsBelong
<1>3. /\ rr' \in [Domain -> [Item -> Stored]] /\ rr'[cur][NSItem] = DefaultNS
      /\ \A e \in Domain : e # cur => rr'[e] = rr[e]
      /\ \A i \in Item : i # NSItem => rr'[cur][i] = rr[cur][i]
  BY <1>1, NSAssumption DEF InsertDefaultNS, TrackInv, TypeOK, Stored, Served
<1> QED
  BY <1>2, <1>3, PdnsCreated DEF InsertDefaultNS

LEMMA PdnsPchSucceeds ==
  ASSUME CallerDiscipline, TrackInv, PdnsInv, PchSucceeds
  PROVE  PdnsInv'
<1>1. CASE stage = "addPch"
  <2>1. rr[cur][NSItem] = DefaultNS /\ NSItem \notin Tracked(cur)
    BY <1>1 DEF PdnsInv, InProgress
  <2>2. rr' = rr /\ rr \in [Domain -> [Item -> Stored]]
    BY DEF PchSucceeds, TrackInv, TypeOK
  <2> QED
    BY <1>1, <2>1, <2>2, PdnsCreated DEF PchSucceeds
<1>2. CASE stage = "delPch"
  <2>1. cur \in Domain /\ cur \notin dom
    BY <1>2, BookkeepingFacts
  <2>2. stage' = "apply" /\ Off(cur)
    BY <1>2 DEF PchSucceeds, PdnsInv, InProgress
  <2>3. InProgress' /\ CompleteFor(cur)'
    BY <2>1, <2>2 DEF PchSucceeds, InProgress, CompleteFor, Off
  <2>4. \A e \in Domain : e # cur => SameZones(e) /\ rr'[e] = rr[e]
    BY DEF PchSucceeds, SameZones
  <2> QED
    BY <1>2, <2>2, <2>3, <2>4, PdnsAtCur DEF PchSucceeds
<1> QED
  BY <1>1, <1>2 DEF PchSucceeds

-----------------------------------------------------------------------------
(* The end of the block: rollback or commit, then the transfers             *)

LEMMA PdnsChangeFails ==
  ASSUME TrackInv, PdnsInv, ChangeFails
  PROVE  PdnsInv'
<1>1. /\ stage \in ApplyStages /\ stage' = "idle" /\ begun' = {} /\ axfrTodo' = {}
      /\ UNCHANGED <<dbVars, queue, cur>>
      /\ driftZones' = driftZones \cup (begun \cap (domAdd \cup domDel))
      /\ driftRecords' = driftRecords \cup begun
  BY DEF ChangeFails, Rollback, Forget
<1>2. ASSUME NEW e \in Domain, e \notin begun PROVE SameZones(e)
  <2>1. CASE UNCHANGED zoneVars
    BY <2>1 DEF SameZones
  <2>2. CASE Effect
    <3>1. e # cur
      BY <1>1, <1>2, <2>2, BookkeepingFacts DEF Effect
    <3> QED
      BY <2>2, <3>1, EffectAtCur DEF TrackInv
  <2> QED
    BY <2>1, <2>2 DEF ChangeFails
<1>3. ASSUME NEW e \in begun, e \notin driftZones'
      PROVE  e \in dbDom /\ On(e)'
  <2>1. e \in Domain /\ e \in dom /\ e \in dbDom /\ e \notin domAdd \cup domDel
    BY <1>1, <1>3, BookkeepingFacts
  <2>2. On(e)
    <3>1. CASE Finished(e)
      BY <1>1, <1>3, <2>1, <3>1 DEF PdnsInv, Complete
    <3>2. CASE ~Finished(e)
      BY <1>1, <1>3, <2>1, <3>2, BookkeepingFacts DEF Finished, PdnsInv, InProgress
    <3> QED
      BY <3>1, <3>2
  <2>3. CASE UNCHANGED zoneVars
    BY <2>1, <2>2, <2>3 DEF On
  <2>4. CASE Effect /\ e # cur
    BY <2>1, <2>2, <2>4, EffectAtCur DEF TrackInv, SameZones, On
  <2>5. CASE Effect /\ e = cur
    <3>1. stage = "patch" /\ UpdateZone(cur)
      BY <1>1, <2>1, <2>5, BookkeepingFacts DEF Effect
    <3>2. lord'[cur] = Patched(cur) /\ Patched(cur) # NoZone
      BY <2>1, <2>5, <3>1, PatchedIsZone DEF UpdateZone, TrackInv, TypeOK
    <3> QED
      BY <2>1, <2>2, <2>5, <3>1, <3>2 DEF UpdateZone, On
  <2> QED
    BY <2>1, <2>3, <2>4, <2>5 DEF ChangeFails
<1>4. Untouched'
  <2> SUFFICES ASSUME NEW e \in Domain
               PROVE  /\ e \notin driftZones' => ZoneAsCommitted(e)'
                      /\ e \in dbDom \ driftRecords' => RecordsAsCommitted(e)'
    BY <1>1 DEF Untouched
  <2>1. CASE e \in begun
    BY <1>1, <1>3, <2>1 DEF ZoneAsCommitted
  <2>2. CASE e \notin begun
    <3>1. /\ e \notin driftZones' => ZoneAsCommitted(e)
          /\ e \in dbDom \ driftRecords' => RecordsAsCommitted(e)
      BY <1>1, <2>2 DEF PdnsInv, Untouched
    <3>2. e \notin axfrTodo
      BY <1>1, <2>2, BookkeepingFacts
    <3>3. SameZones(e) /\ View(dbRR[e])' = View(dbRR[e])
      BY <1>1, <1>2, <2>2 DEF View
    <3> QED
      BY <1>1, <3>1, <3>2, <3>3 DEF ZoneAsCommitted, RecordsAsCommitted, On, Off, SameZones
  <2> QED
    BY <2>1, <2>2
<1> QED
  BY <1>1, <1>4 DEF PdnsInv, Complete, Finished, InProgress, Syncing, AxfrPending

LEMMA PdnsCommit ==
  ASSUME CallerDiscipline, TrackInv, PdnsInv, Commit
  PROVE  PdnsInv'
<1>1. /\ stage = "apply" /\ stage' = "axfr" /\ begun' = {} /\ delTodo = {} /\ updTodo = {}
      /\ dbDom' = dom /\ dbRR' = rr /\ UNCHANGED <<axfrTodo, zoneVars, queue>>
      /\ driftZones' = driftZones \ (begun \cap (domAdd \cup domDel))
      /\ driftRecords' = driftRecords \ (begun \cap (domAdd \cup domDel))
  BY DEF Commit, Forget
<1>2. /\ domAdd = dom \ dbDom /\ domDel = dbDom \ dom /\ domAdd \cup domDel \subseteq begun
      /\ axfrTodo = begun \ domDel /\ axfrTodo \subseteq dom
  BY <1>1, BookkeepingFacts
<1>3. Untouched'
  <2> SUFFICES ASSUME NEW e \in Domain
               PROVE  /\ e \notin driftZones' => ZoneAsCommitted(e)'
                      /\ e \in dom \ driftRecords' => RecordsAsCommitted(e)'
    BY <1>1 DEF Untouched
  <2>0. View(dbRR[e])' = View(rr[e])
    BY <1>1 DEF View, Visible
  <2>1. CASE e \in begun
    <3>1. Finished(e)
      BY <1>1, <2>1 DEF Finished
    <3>2. /\ e \notin driftZones \/ e \in domAdd \cup domDel
               => IF e \in dom THEN On(e) ELSE Off(e)
          /\ e \in dom /\ (e \notin driftRecords \/ e \in domAdd)
               => lord[e] = View(rr[e]) /\ master[e] # NoZone
      BY <1>1, <3>1 DEF PdnsInv, Complete
    <3> QED
      BY <1>1, <1>2, <2>0, <2>1, <3>2 DEF ZoneAsCommitted, RecordsAsCommitted, On, Off
  <2>2. CASE e \notin begun
    <3>1. e \in dom <=> e \in dbDom
      BY <1>2, <2>2
    <3>2. /\ e \notin driftZones' => ZoneAsCommitted(e)
          /\ e \in dbDom \ driftRecords' => RecordsAsCommitted(e)
      BY <1>1, <2>2 DEF PdnsInv, Untouched
    <3>3. e \in dom => View(rr[e]) = View(dbRR[e])
      BY <1>1, <2>2, UntrackedView
    <3> QED
      BY <1>1, <2>0, <3>1, <3>2, <3>3 DEF ZoneAsCommitted, RecordsAsCommitted, On, Off
  <2> QED
    BY <2>1, <2>2
<1> QED
  BY <1>1, <1>2, <1>3 DEF PdnsInv, Complete, InProgress, Syncing, AxfrPending

LEMMA PdnsRequestAxfr ==
  ASSUME PdnsInv, NEW d \in Domain, RequestAxfr(d)
  PROVE  PdnsInv'
<1>1. /\ stage = "axfr" /\ stage' = "axfr" /\ queue' \cup axfrTodo' = queue \cup axfrTodo
      /\ axfrTodo' \subseteq axfrTodo
      /\ UNCHANGED <<dbVars, begun, zoneVars, driftVars>>
  BY DEF RequestAxfr
<1>2. Untouched'
  <2> SUFFICES ASSUME NEW e \in Domain \ begun
               PROVE  /\ e \notin driftZones => ZoneAsCommitted(e)'
                      /\ e \in dbDom \ driftRecords => RecordsAsCommitted(e)'
    BY <1>1 DEF Untouched
  <2>1. /\ e \notin driftZones => ZoneAsCommitted(e)
        /\ e \in dbDom \ driftRecords => RecordsAsCommitted(e)
    BY DEF PdnsInv, Untouched
  <2>2. View(dbRR[e])' = View(dbRR[e])
    BY <1>1 DEF View, Visible
  <2> QED
    BY <1>1, <2>1, <2>2 DEF ZoneAsCommitted, RecordsAsCommitted, On, Off
<1> QED
  BY <1>1, <1>2 DEF PdnsInv, Complete, InProgress, Syncing, AxfrPending

LEMMA PdnsAxfrFails ==
  ASSUME PdnsInv, AxfrFails
  PROVE  PdnsInv'
<1>1. /\ stage = "axfr" /\ stage' = "idle" /\ driftRecords' = driftRecords \cup axfrTodo
      /\ UNCHANGED <<dbVars, begun, zoneVars, queue, driftZones>>
  BY DEF AxfrFails
<1>2. Untouched'
  <2> SUFFICES ASSUME NEW e \in Domain \ begun
               PROVE  /\ e \notin driftZones => ZoneAsCommitted(e)'
                      /\ e \in dbDom \ (driftRecords \cup axfrTodo) => RecordsAsCommitted(e)'
    BY <1>1 DEF Untouched
  <2>1. /\ e \notin driftZones => ZoneAsCommitted(e)
        /\ e \in dbDom \ driftRecords => RecordsAsCommitted(e)
    BY DEF PdnsInv, Untouched
  <2>2. View(dbRR[e])' = View(dbRR[e])
    BY <1>1 DEF View, Visible
  <2> QED
    BY <1>1, <2>1, <2>2 DEF ZoneAsCommitted, RecordsAsCommitted, On, Off
<1> QED
  BY <1>1, <1>2 DEF PdnsInv, Complete, Finished, InProgress, Syncing, AxfrPending

\* A transfer makes no zone come or go, and gives nsmaster what nslord has.
LEMMA PdnsTransfer ==
  ASSUME TrackInv, PdnsInv, NEW d \in Domain, Transfer(d)
  PROVE  PdnsInv'
<1>1. UNCHANGED <<dbVars, txVars, trackVars, stage, exitVars, lord, catalog, driftVars>>
  BY DEF Transfer
<1>2. ASSUME NEW e \in Domain
      PROVE  /\ master'[e] = NoZone <=> master[e] = NoZone
             /\ e # d => master'[e] = master[e] /\ (e \in queue' <=> e \in queue)
             /\ e = d /\ lord[d] # NoZone /\ master[d] # NoZone => master'[d] = lord[d]
  BY DEF Transfer, TrackInv, TypeOK
<1>3. Untouched'
  <2> SUFFICES ASSUME NEW e \in Domain \ begun
               PROVE  /\ e \notin driftZones => ZoneAsCommitted(e)'
                      /\ e \in dbDom \ driftRecords => RecordsAsCommitted(e)'
    BY <1>1 DEF Untouched
  <2>1. /\ e \notin driftZones => ZoneAsCommitted(e)
        /\ e \in dbDom \ driftRecords => RecordsAsCommitted(e)
    BY DEF PdnsInv, Untouched
  <2>2. View(dbRR[e])' = View(dbRR[e]) /\ View(dbRR[e]) # NoZone
    BY <1>1, ViewIsZone DEF TrackInv, View, Visible
  <2> QED
    BY <1>1, <1>2, <2>1, <2>2 DEF ZoneAsCommitted, RecordsAsCommitted, On, Off
<1>4. Complete'
  <2> SUFFICES ASSUME stage \in ApplyStages, NEW e \in Domain, Finished(e)
               PROVE  CompleteFor(e)'
    BY <1>1 DEF Complete, CompleteFor, Finished
  <2>1. CompleteFor(e)
    BY DEF PdnsInv, Complete, CompleteFor
  <2>2. View(rr[e])' = View(rr[e])
    BY <1>1 DEF View, Visible
  <2> QED
    BY <1>1, <1>2, <2>1, <2>2 DEF CompleteFor, On, Off
<1>5. cur \in Domain /\ cur' = cur /\ On(cur)' = On(cur) /\ Off(cur)' = Off(cur)
      /\ View(dbRR[cur])' = View(dbRR[cur]) /\ FreshZone' = FreshZone
  BY <1>1, <1>2 DEF On, Off, View, Visible, FreshZone, TrackInv, TypeOK
<1>6. InProgress'
  BY <1>1, <1>2, <1>5 DEF PdnsInv, InProgress, Tracked
<1>7. Syncing'
  BY <1>1, <1>2, <1>5 DEF PdnsInv, Syncing
<1> QED
  BY <1>1, <1>3, <1>4, <1>6, <1>7 DEF PdnsInv, AxfrPending

-----------------------------------------------------------------------------
(* sync-to-pdns                                                             *)

LEMMA SyncFacts ==
  ASSUME TrackInv, PdnsInv, stage \in SyncStages
  PROVE  /\ cur \in Domain /\ cur \in dbDom /\ rr = dbRR /\ begun = {} /\ axfrTodo = {}
         /\ cur \notin driftZones => On(cur)
         /\ cur \notin driftRecords => RecordsAsCommitted(cur)
         /\ View(dbRR[cur]) \in Zone /\ View(dbRR[cur]) # NoZone
<1>1. cur \in Domain /\ cur \in dbDom /\ rr = dbRR /\ begun = {} /\ axfrTodo = {}
  BY DEF TrackInv, TypeOK, OutsideBlock, NothingBegun, PdnsInv, Syncing
<1> QED
  BY <1>1, ViewIsZone DEF TrackInv, PdnsInv, Untouched, ZoneAsCommitted

\* A step of sync-to-pdns, to which only the zones of its domain matter.
LEMMA PdnsSyncFrame ==
  ASSUME TrackInv, PdnsInv, stage \in SyncStages, stage' \in SyncStages \cup {"idle"},
         UNCHANGED <<cur, begun, axfrTodo, dbVars>>,
         queue \subseteq queue',
         \A e \in Domain : e # cur =>
           /\ SameZones(e)
           /\ e \in driftZones <=> e \in driftZones'
           /\ e \in driftRecords <=> e \in driftRecords',
         cur \notin driftZones' => On(cur)',
         cur \notin driftRecords' => RecordsAsCommitted(cur)',
         Syncing'
  PROVE  PdnsInv'
<1>1. cur \in dbDom /\ begun = {} /\ axfrTodo = {}
  BY SyncFacts
<1>2. Untouched'
  <2> SUFFICES ASSUME NEW e \in Domain
               PROVE  /\ e \notin driftZones' => ZoneAsCommitted(e)'
                      /\ e \in dbDom \ driftRecords' => RecordsAsCommitted(e)'
    BY DEF Untouched
  <2>1. CASE e = cur
    <3>1. e \in dbDom'
      BY <1>1, <2>1
    <3> QED
      BY <2>1, <3>1 DEF ZoneAsCommitted, RecordsAsCommitted, On
  <2>2. CASE e # cur
    <3>1. /\ e \notin driftZones' => ZoneAsCommitted(e)
          /\ e \in dbDom \ driftRecords' => RecordsAsCommitted(e)
      BY <1>1, <2>2 DEF PdnsInv, Untouched
    <3>2. View(dbRR[e])' = View(dbRR[e])
      BY DEF View, Visible
    <3> QED
      BY <1>1, <2>2, <3>1, <3>2 DEF ZoneAsCommitted, RecordsAsCommitted, On, Off, SameZones
  <2> QED
    BY <2>1, <2>2
<1> QED
  BY <1>2 DEF PdnsInv, Complete, InProgress, AxfrPending

LEMMA PdnsSyncBegin ==
  ASSUME TrackInv, PdnsInv, NEW d \in Domain, SyncBegin(d)
  PROVE  PdnsInv'
<1>1. /\ stage' = "syncLord" /\ cur' = d /\ d \in dbDom
      /\ UNCHANGED <<dbVars, begun, axfrTodo, zoneVars, queue, driftVars>>
  BY DEF SyncBegin
<1>2. Untouched'
  BY <1>1 DEF PdnsInv, Untouched, ZoneAsCommitted, RecordsAsCommitted, On, Off
<1> QED
  BY <1>1, <1>2 DEF PdnsInv, Complete, InProgress, Syncing, AxfrPending

\* The effect of each request of _sync_domain on the domain it is about.
LEMMA SyncEffect ==
  ASSUME TrackInv, PdnsInv, stage \in SyncRequests, Effect, cur' = cur, dbRR' = dbRR,
         dbDom' = dbDom, queue' = queue, axfrTodo' = axfrTodo
  PROVE  /\ cur \notin driftZones => On(cur)'
         /\ cur \notin driftRecords => RecordsAsCommitted(cur)'
         /\ stage = "syncLord" => /\ cur \in driftZones /\ cur \in driftRecords
                                  /\ lord'[cur] # NoZone
         /\ stage \in {"syncMaster", "syncCatalog"} =>
              lord'[cur] # NoZone /\ master'[cur] # NoZone
         /\ stage = "syncCatalog" => cur \in catalog'
         /\ stage \in {"syncPatch", "syncNewPatch"} =>
              /\ lord'[cur] = View(dbRR[cur]) /\ lord'[cur] # NoZone
              /\ master' = master /\ catalog' = catalog
<1>1. /\ lord \in [Domain -> Zone \cup {NoZone}] /\ master \in [Domain -> Zone \cup {NoZone}]
  BY DEF TrackInv, TypeOK
<1>2. View(dbRR[cur])' = View(dbRR[cur])
  BY DEF View, Visible
<1>3. CASE stage = "syncLord"
  <2>1. lord[cur] = NoZone /\ lord'[cur] = FreshZone
    BY <1>1, <1>3, SyncFacts DEF Effect, CreateZoneLord
  <2>2. cur \in driftZones /\ cur \in driftRecords
    BY <2>1, SyncFacts DEF On, RecordsAsCommitted
  <2> QED
    BY <1>3, <2>1, <2>2, NewZones
<1>4. CASE stage = "syncMaster"
  <2>1. cur \in driftZones /\ cur \in driftRecords /\ lord[cur] # NoZone
    BY <1>4 DEF PdnsInv, Syncing
  <2>2. lord' = lord /\ master'[cur] = BlankZone
    BY <1>1, <1>4, SyncFacts DEF Effect, CreateZoneMaster
  <2> QED
    BY <1>4, <2>1, <2>2, NewZones
<1>5. CASE stage = "syncCatalog"
  <2>1. /\ cur \in driftZones /\ cur \in driftRecords /\ lord[cur] # NoZone
        /\ master[cur] # NoZone
    BY <1>5 DEF PdnsInv, Syncing
  <2>2. lord' = lord /\ master' = master /\ cur \in catalog'
    BY <1>5, SyncFacts DEF Effect, AddToCatalog
  <2> QED
    BY <1>5, <2>1, <2>2
<1>6. CASE stage \in {"syncPatch", "syncNewPatch"}
  <2>1. lord'[cur] = View(dbRR[cur]) /\ master' = master /\ catalog' = catalog
    BY <1>1, <1>6, SyncFacts, SyncedIsView DEF Effect, ReplaceZone, TrackInv
  <2>2. cur \notin driftZones => On(cur)'
    BY <2>1, SyncFacts DEF On
  <2>3. cur \notin driftRecords => RecordsAsCommitted(cur)'
    BY <1>2, <2>1, SyncFacts DEF RecordsAsCommitted
  <2> QED
    BY <1>6, <2>1, <2>2, <2>3, SyncFacts
<1> QED
  BY <1>3, <1>4, <1>5, <1>6

LEMMA PdnsSyncRequestSucceeds ==
  ASSUME TrackInv, PdnsInv, SyncRequestSucceeds
  PROVE  PdnsInv'
<1>1. /\ stage \in SyncRequests /\ stage \in SyncStages /\ stage' = NextSyncStage[stage]
      /\ stage' \in SyncStages /\ Effect
      /\ UNCHANGED <<cur, dbVars, begun, axfrTodo, queue, driftVars>>
  BY DEF SyncRequestSucceeds, NextSyncStage
<1>2. /\ cur \notin driftZones => On(cur)'
      /\ cur \notin driftRecords => RecordsAsCommitted(cur)'
  BY <1>1, SyncEffect
<1>3. cur \in dbDom /\ View(dbRR[cur])' = View(dbRR[cur])
  BY <1>1, SyncFacts DEF View, Visible
<1>4. Syncing'
  <2>1. CASE stage = "syncLord"
    BY <1>1, <1>3, <2>1, SyncEffect DEF NextSyncStage, Syncing
  <2>2. CASE stage = "syncMaster"
    <3>1. cur \in driftZones /\ cur \in driftRecords
      BY <2>2 DEF PdnsInv, Syncing
    <3>2. stage' = "syncCatalog" /\ lord'[cur] # NoZone /\ master'[cur] # NoZone
      BY <1>1, <2>2, SyncEffect DEF NextSyncStage
    <3> QED
      BY <1>1, <1>3, <3>1, <3>2 DEF Syncing
  <2>3. CASE stage = "syncCatalog"
    <3>1. cur \in driftZones
      BY <2>3 DEF PdnsInv, Syncing
    <3>2. stage' = "syncNewPatch" /\ lord'[cur] # NoZone /\ master'[cur] # NoZone
          /\ cur \in catalog'
      BY <1>1, <2>3, SyncEffect DEF NextSyncStage
    <3> QED
      BY <1>1, <1>3, <3>1, <3>2 DEF Syncing
  <2>4. CASE stage = "syncPatch"
    <3>1. stage' = "syncAxfr" /\ lord'[cur] = View(dbRR[cur])
      BY <1>1, <2>4, SyncEffect DEF NextSyncStage
    <3> QED
      BY <1>1, <1>3, <3>1 DEF Syncing
  <2>5. CASE stage = "syncNewPatch"
    <3>1. cur \in driftZones /\ master[cur] # NoZone /\ cur \in catalog
      BY <2>5 DEF PdnsInv, Syncing
    <3>2. /\ stage' = "syncNewAxfr" /\ lord'[cur] = View(dbRR[cur]) /\ lord'[cur] # NoZone
          /\ master' = master /\ catalog' = catalog
      BY <1>1, <2>5, SyncEffect DEF NextSyncStage
    <3> QED
      BY <1>1, <1>3, <3>1, <3>2 DEF Syncing
  <2> QED
    BY <1>1, <2>1, <2>2, <2>3, <2>4, <2>5
<1>5. \A e \in Domain : e # cur => SameZones(e)
  BY <1>1, EffectAtCur DEF TrackInv
<1> QED
  BY <1>1, <1>2, <1>4, <1>5, PdnsSyncFrame

LEMMA PdnsSyncConflict ==
  ASSUME TrackInv, PdnsInv, SyncConflict
  PROVE  PdnsInv'
<1>1. /\ stage \in SyncStages /\ stage' = "syncPatch"
      /\ UNCHANGED <<cur, dbVars, begun, axfrTodo, queue, driftVars, zoneVars>>
  BY DEF SyncConflict
<1>2. /\ cur \notin driftZones => On(cur)'
      /\ cur \notin driftRecords => RecordsAsCommitted(cur)'
  <2>1. View(dbRR[cur])' = View(dbRR[cur])
    BY <1>1 DEF View, Visible
  <2> QED
    BY <1>1, <2>1, SyncFacts DEF On, RecordsAsCommitted
<1>3. Syncing'
  BY <1>1, SyncFacts DEF Syncing
<1>4. \A e \in Domain : SameZones(e)
  BY <1>1 DEF SameZones
<1> QED
  BY <1>1, <1>2, <1>3, <1>4, PdnsSyncFrame

LEMMA PdnsSyncAxfr ==
  ASSUME TrackInv, PdnsInv, SyncAxfr
  PROVE  PdnsInv'
<1>1. /\ stage \in {"syncAxfr", "syncNewAxfr"} /\ stage \in SyncStages /\ stage' = "idle"
      /\ master[cur] # NoZone
      /\ queue' = queue \cup {cur} /\ driftRecords' = driftRecords \ {cur}
      /\ driftZones' = IF stage = "syncNewAxfr" THEN driftZones \ {cur} ELSE driftZones
      /\ UNCHANGED <<cur, dbVars, begun, axfrTodo, zoneVars>>
  BY DEF SyncAxfr
<1>2. View(dbRR[cur])' = View(dbRR[cur]) /\ lord[cur] = View(dbRR[cur])
  BY <1>1 DEF View, Visible, PdnsInv, Syncing
<1>3. cur \notin driftZones' => On(cur)'
  <2>1. CASE cur \notin driftZones
    BY <1>1, <2>1, SyncFacts DEF On
  <2>2. CASE stage = "syncNewAxfr"
    BY <1>1, <2>2 DEF PdnsInv, Syncing, On
  <2> QED
    BY <1>1, <2>1, <2>2
<1>4. RecordsAsCommitted(cur)'
  BY <1>1, <1>2 DEF RecordsAsCommitted
<1>5. Syncing' /\ \A e \in Domain : SameZones(e)
  BY <1>1 DEF Syncing, SameZones
<1> QED
  BY <1>1, <1>3, <1>4, <1>5, PdnsSyncFrame

LEMMA PdnsSyncFails ==
  ASSUME TrackInv, PdnsInv, SyncFails
  PROVE  PdnsInv'
<1>1. /\ stage \in SyncStages /\ stage' = "idle" /\ driftRecords' = driftRecords \cup {cur}
      /\ UNCHANGED <<cur, dbVars, begun, axfrTodo, queue, driftZones>>
  BY DEF SyncFails
<1>2. CASE Effect
  <2>1. stage \in SyncRequests
    BY <1>1, <1>2 DEF Effect
  <2>2. cur \notin driftZones => On(cur)'
    BY <1>1, <1>2, <2>1, SyncEffect
  <2>3. Syncing' /\ \A e \in Domain : e # cur => SameZones(e)
    BY <1>1, <1>2, EffectAtCur DEF TrackInv, Syncing
  <2> QED
    BY <1>1, <2>2, <2>3, PdnsSyncFrame
<1>3. CASE UNCHANGED zoneVars
  <2>1. cur \notin driftZones => On(cur)'
    BY <1>1, <1>3, SyncFacts DEF On
  <2>2. Syncing' /\ \A e \in Domain : SameZones(e)
    BY <1>1, <1>3 DEF Syncing, SameZones
  <2> QED
    BY <1>1, <2>1, <2>2, PdnsSyncFrame
<1> QED
  BY <1>2, <1>3 DEF SyncFails

-----------------------------------------------------------------------------
(* The theorems                                                             *)

LEMMA PdnsStep ==
  ASSUME CallerDiscipline
  PROVE  TrackInv /\ PdnsInv /\ [Next]_vars => PdnsInv'
<1> SUFFICES ASSUME TrackInv, PdnsInv, [Next]_vars PROVE PdnsInv'
  OBVIOUS
<1>1. CASE UNCHANGED vars
  <2>1. /\ UNCHANGED <<dbVars, txVars, trackVars, stage, exitVars, zoneVars, queue, driftVars>>
        /\ FreshZone' = FreshZone
        /\ \A d : View(dbRR[d])' = View(dbRR[d]) /\ View(rr[d])' = View(rr[d])
    BY <1>1 DEF vars, View, Visible, FreshZone
  <2>2. Untouched'
    BY <2>1 DEF PdnsInv, Untouched, ZoneAsCommitted, RecordsAsCommitted, On, Off
  <2>3. Complete'
    BY <2>1 DEF PdnsInv, Complete, Finished, On, Off
  <2>4. InProgress'
    BY <2>1 DEF PdnsInv, InProgress, On, Off, Tracked
  <2>5. Syncing' /\ AxfrPending'
    BY <2>1 DEF PdnsInv, Syncing, AxfrPending
  <2> QED
    BY <2>2, <2>3, <2>4, <2>5 DEF PdnsInv
<1>2. CASE Enter \/ \E d \in Domain : SyncBegin(d) \/ Transfer(d)
  BY <1>2, PdnsEnter, PdnsSyncBegin, PdnsTransfer
<1>3. CASE Body
  BY <1>3, PdnsBody
<1>4. CASE Exit
  BY <1>4, PdnsComputeChanges, PdnsBeginDelete, PdnsBeginUpdate, PdnsRequestSucceeds,
     PdnsInsertDefaultNS, PdnsPchSucceeds, PdnsChangeFails, PdnsCommit,
     PdnsRequestAxfr, PdnsAxfrFails, PdnsDone DEF Exit
<1>5. CASE Sync
  BY <1>5, PdnsSyncRequestSucceeds, PdnsSyncConflict, PdnsSyncAxfr, PdnsSyncFails
     DEF Sync
<1> QED
  BY <1>1, <1>2, <1>3, <1>4, <1>5 DEF Next

LEMMA PdnsInvariant ==
  ASSUME CallerDiscipline
  PROVE  Spec => []PdnsInv
<1>1. Init => PdnsInv
  BY PdnsInit
<1>2. TrackInv /\ PdnsInv /\ [Next]_vars => PdnsInv'
  BY PdnsStep
<1> QED
  BY <1>1, <1>2, TrackInvariant, PTL DEF Spec

\* Between blocks, a domain that no failed request has touched exists on both
\* servers and in the catalog exactly if it exists in the database.
THEOREM ZonesAlwaysAgree ==
  ASSUME CallerDiscipline
  PROVE  Spec => []ZonesAgree
<1>1. TrackInv /\ PdnsInv => ZonesAgree
  BY DEF TrackInv, OutsideBlock, PdnsInv, Untouched, ZoneAsCommitted, On, Off, ZonesAgree
<1> QED
  BY <1>1, TrackInvariant, PdnsInvariant, PTL

\* ... and nslord serves its records as the database has them, for whatever
\* sequence of creations, changes, recreations and deletions; nsmaster has them
\* or was told to fetch them.
THEOREM RecordsAlwaysAgree ==
  ASSUME CallerDiscipline
  PROVE  Spec => []RecordsAgree
<1>1. TrackInv /\ PdnsInv => RecordsAgree
  BY DEF TrackInv, TypeOK, OutsideBlock, NothingBegun, PdnsInv, Untouched,
     RecordsAsCommitted, RecordsAgree
<1> QED
  BY <1>1, TrackInvariant, PdnsInvariant, PTL

\* No request about a domain that has not drifted is refused with 404 or 409.
THEOREM NoRequestRefused ==
  ASSUME CallerDiscipline
  PROVE  Spec => []RequestsAccepted
<1>1. ASSUME TrackInv, PdnsInv PROVE RequestsAccepted
  <2>1. ASSUME stage = "axfr", NEW d \in axfrTodo \ driftZones PROVE master[d] # NoZone
    <3>1. d \in Domain /\ d \in dbDom /\ d \notin begun
      BY <1>1, <2>1 DEF TrackInv, TypeOK, OutsideBlock, PdnsInv, AxfrPending
    <3> QED
      BY <1>1, <2>1, <3>1 DEF PdnsInv, Untouched, ZoneAsCommitted, On
  <2> QED
    BY <1>1, <2>1 DEF PdnsInv, InProgress, On, Off, RequestsAccepted
<1> QED
  BY <1>1, TrackInvariant, PdnsInvariant, PTL

=============================================================================
