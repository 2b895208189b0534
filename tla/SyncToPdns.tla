----------------------------- MODULE SyncToPdns -----------------------------
(***************************************************************************)
(* sync-to-pdns next to the API: _sync_domain of                            *)
(* management/commands/sync-to-pdns.py composed with the requests of        *)
(* RRsetRequests.  The command reads the RRset rows, fetches the zone from  *)
(* nslord, reads every RRset in two queries and sends one PATCH.  It is in a *)
(* READ COMMITTED transaction of its own and locks nothing, so requests      *)
(* publish and commit between any two of these steps.                        *)
(*                                                                          *)
(* Abstractions: those of RRsetRequests; the zone exists on nslord, which    *)
(* answers 409 to its creation (ChangeTracker has the creation, the AXFR      *)
(* request and the failures of requests of the API).                          *)
(***************************************************************************)
EXTENDS RRsetRequests

VARIABLES
  sync,   \* what the command is doing
  syncs   \* number of its runs: MaxRequests bounds requests and runs together

syncVars == <<vars, sync, syncs>>

SyncStage == {"idle", "fetch", "ttl", "records"}
SyncIdle ==
  [stage |-> "idle",
   mods |-> {}, dels |-> {},               \* modifications, deletions
   cur |-> CHOOSE i \in Item : TRUE,       \* the RRset being read
   sent |-> None,                          \* the records read so far
   met |-> {}]    \* history: items a request was publishing since they were read

\* Items on nslord that an open transaction has sent and not committed yet.
Publishing ==
  UNION {DOMAIN job[w].sent : w \in {v \in Worker : job[v].stage = "commit"}}

SyncInit == Init /\ sync = SyncIdle /\ syncs = 0

-----------------------------------------------------------------------------
(* _sync_domain                                                             *)

SyncBegin ==
  /\ sync.stage = "idle" /\ served + syncs < MaxRequests
  /\ sync' = [SyncIdle EXCEPT !.stage = "fetch", !.mods = Known, !.met = Publishing]
  /\ syncs' = syncs + 1
  /\ UNCHANGED vars

SurplusNone == {}   \* mutant: what the database lacks stays on nslord
\* What get_rrset_datas finds on nslord and the database did not have.
Surplus == {i \in Item : dns[i] # {}} \ sync.mods

SyncFetch ==
  /\ sync.stage = "fetch"
  /\ sync' = [sync EXCEPT !.stage = "ttl", !.dels = Surplus]
  /\ UNCHANGED <<vars, syncs>>

\* CreateUpdateDeleteRRSets.pdns_do, for each RRset: the query for the TTL, which
\* fails if the row has gone, and the query for the records.
Unread == (sync.mods \ sync.dels) \ DOMAIN sync.sent

SyncFind(i) ==
  /\ sync.stage = "ttl" /\ i \in Unread \cap Known
  /\ sync' = [sync EXCEPT !.stage = "records", !.cur = i]
  /\ UNCHANGED <<vars, syncs>>

SyncRead ==
  /\ sync.stage = "records"
  /\ sync' = [sync EXCEPT !.stage = "ttl",
       !.sent = [i \in DOMAIN @ \cup {sync.cur} |->
                     IF i = sync.cur THEN Stored(i) ELSE sync.sent[i]],
       !.met = (@ \ {sync.cur}) \cup ({sync.cur} \cap Publishing)]
  /\ UNCHANGED <<vars, syncs>>

SyncTouches == sync.dels \cup DOMAIN sync.sent
SyncedZone ==
  [i \in Item |-> IF i \in sync.dels THEN {}
                  ELSE IF i \in DOMAIN sync.sent THEN sync.sent[i] ELSE dns[i]]
ReadyToPatch ==
  /\ sync.stage = "ttl" /\ Unread = {}
  /\ SyncTouches = {} \/ Acceptable(SyncedZone)

\* Items that were published meanwhile may now be on nslord as they were before;
\* what had gone wrong with the others is repaired.
SyncPatch ==
  /\ ReadyToPatch
  /\ dns' = SyncedZone
  /\ stale' = sync.met \cap (stale \cup SyncTouches) /\ torn' = torn \cap sync.met
  /\ sync' = SyncIdle
  /\ UNCHANGED <<dbVars, job, served, syncs>>

\* RRset.DoesNotExist, a refused or failed request to nslord, or the process dies.
SyncFails ==
  /\ sync.stage # "idle"
  /\ sync' = SyncIdle
  /\ UNCHANGED <<vars, syncs>>

\* The PATCH is applied although the command gets no answer.
SyncAnswerLost ==
  /\ ReadyToPatch
  /\ dns' = SyncedZone
  /\ stale' = stale \cup (sync.met \cap SyncTouches)
  /\ sync' = SyncIdle
  /\ UNCHANGED <<dbVars, job, served, torn, syncs>>

SyncStep ==
  \/ SyncBegin \/ SyncFetch \/ SyncRead \/ SyncPatch \/ SyncFails \/ SyncAnswerLost
  \/ \E i \in Item : SyncFind(i)

-----------------------------------------------------------------------------
(* Requests, next to the command                                             *)

\* What a step of a request does to the history.
Beside ==
  /\ UNCHANGED syncs
  /\ sync' = IF sync.stage = "idle" THEN sync
             ELSE [sync EXCEPT !.met = @ \cup Publishing']

\* Next of RRsetRequests by its actions, so that TLC counts each; MaxRequests is for both.
RequestStep(w) ==
  \/ (Begin(w) /\ Beside) \/ (StartDelete(w) /\ Beside) \/ (StartCreate(w) /\ Beside)
  \/ (StartUpdate(w) /\ Beside) \/ (Remove(w) /\ Beside) \/ (Create(w) /\ Beside)
  \/ (Drop(w) /\ Beside) \/ (Compare(w) /\ Beside) \/ (Save(w) /\ Beside)
  \/ (BodyRaises(w) /\ Beside) \/ (Compute(w) /\ Beside) \/ (ComputeFails(w) /\ Beside)
  \/ (Send(w) /\ Beside) \/ (SendRefused(w) /\ Beside) \/ (Commit(w) /\ Beside)
  \/ (CommitFails(w) /\ Beside) \/ (DeadlockVictim(w) /\ Beside)
  \/ MayAccept(w) /\ served + syncs < MaxRequests
     /\ (\E kind \in Kind, data \in Payloads : Accept(w, kind, data)) /\ Beside

SyncNext == SyncStep \/ \E w \in Worker : RequestStep(w)
SyncSpec == SyncInit /\ [][SyncNext]_syncVars
SyncFairSpec == SyncSpec /\ Fairness

-----------------------------------------------------------------------------
(* Properties; DnsAgrees, OnePublisher and AppliedExactly of RRsetRequests      *)
(* are checked with the command, too.                                        *)

\* The types, those of the requests among them; no RRset is both deleted and sent,
\* and every one that is sent was stored when the command began.
SyncTypeOK ==
  /\ TypeOK
  /\ sync.stage \in SyncStage /\ sync.cur \in Item
  /\ sync.mods \subseteq Item /\ sync.dels \subseteq Item \ sync.mods
  /\ DOMAIN sync.sent \subseteq sync.mods
  /\ \A i \in DOMAIN sync.sent : sync.sent[i] \subseteq Record
  /\ sync.met \subseteq Item
  /\ syncs \in 0 .. MaxRequests

\* A sync-to-pdns that gets through leaves every RRset on nslord as the database
\* has it at that moment, whatever earlier requests and runs had left there: added,
\* changed or missing; except RRsets that a request was publishing after the
\* command had read them.
SyncRepairs ==
  [][SyncPatch => \A i \in Item \ sync.met : dns'[i] = Stored(i)]_syncVars
=============================================================================
