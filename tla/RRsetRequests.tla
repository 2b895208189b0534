--------------------------- MODULE RRsetRequests ---------------------------
(***************************************************************************)
(* Concurrent requests that write the RRsets of one name: POST, PUT, PATCH  *)
(* and DELETE of views/records.py and the dynDNS update of views/dyndns.py. *)
(* Each worker process validates against the committed rows, opens a tracker*)
(* block (one READ COMMITTED transaction), issues the statements of         *)
(* serializers/records.py and models/records.py one by one, sends one PATCH *)
(* to nslord and commits.  Statements wait for the row locks and unique     *)
(* keys of other open transactions; PostgreSQL aborts one of a deadlock.    *)
(*                                                                          *)
(* Abstractions: one domain and one subname, so an item is an RRset type;   *)
(* the TTL is a free choice where it matters (a payload may change it).     *)
(* Failures of pdns itself are in ChangeTracker and left out here.          *)
(***************************************************************************)
EXTENDS Naturals, FiniteSets

CONSTANTS
  Worker,       \* API processes
  Item,         \* RRset types of one subname
  Exclusive,    \* the types that tolerate no other RRset and one record (CNAME)
  Record,       \* contents of resource records
  Keep,         \* a payload without "records"
  Payloads,     \* the payloads clients send: functions on sets of items
  MaxRequests   \* bound on the number of requests

Values == (SUBSET Record) \cup {Keep}
ASSUME KeepAssumption == \A s \in SUBSET Record : s # Keep
ASSUME ItemAssumption == Item # {} /\ Exclusive \subseteq Item /\ MaxRequests \in Nat
ASSUME PayloadAssumption == Payloads \subseteq UNION {[D -> Values] : D \in SUBSET Item}

\* A row of RRset is its item and the number of the request that inserted it
\* (its primary key); a row of RR is an RRset row, a content and such a number.
Row == Item \X (0 .. MaxRequests)
RRow == Row \X Record \X (0 .. MaxRequests)
Stage == {"idle", "begin", "next", "remove", "create", "drop", "compare", "save",
          "compute", "send", "commit"}
Kind == {"post", "detail", "bulk", "dyndns"}

VARIABLES
  rows, rrs,    \* committed rows of RRset and RR
  dns,          \* what nslord serves for each item
  job,          \* what each worker is doing
  served,       \* number of requests accepted so far
  torn,         \* history: items patched by a request whose COMMIT then failed
  stale         \* history: items published by a request whose row had vanished

vars == <<rows, rrs, dns, job, served, torn, stale>>
dbVars == <<rows, rrs>>

None == [i \in {} |-> i]

Idle ==
  [stage |-> "idle", kind |-> "bulk", data |-> None, num |-> 0,
   inst |-> {},      \* the RRset rows the worker holds as instances
   seen |-> {},      \* prefetched RR rows (dynDNS)
   todo |-> {}, cur |-> CHOOSE i \in Item : TRUE,
   picked |-> {},    \* RR rows a DELETE statement is about to delete
   fresh |-> {},     \* contents to be inserted
   insRows |-> {}, delRows |-> {}, insRRs |-> {}, delRRs |-> {}, \* uncommitted
   locked |-> {},    \* RRset rows it has locked
   adds |-> {}, mods |-> {}, dels |-> {},  \* the tracker's sets
   lost |-> {},      \* items whose row a statement did not find
   sent |-> None, alone |-> FALSE]

-----------------------------------------------------------------------------
(* What a statement of worker w sees: committed rows and its own changes.   *)

MyRows(w) == (rows \ job[w].delRows) \cup job[w].insRows
MyRRs(w) == (rrs \ job[w].delRRs) \cup job[w].insRRs
RRsOf(set, row) == {x \in set : x[1] = row}
Contents(set) == {x[2] : x \in set}
RowsFor(set, i) == {r \in set : r[1] = i}
Stored(i) == Contents({x \in rrs : x[1] \in RowsFor(rows, i)})

CurRow(w) == CHOOSE r \in job[w].inst : r[1] = job[w].cur
New(w) == job[w].data[job[w].cur]

\* The exclusion constraint cname_exclusivity.
Conflicting(i, k) == (i \in Exclusive) # (k \in Exclusive)

Empties(data) == {i \in DOMAIN data : data[i] = {}}

Init ==
  /\ \E db \in [Item -> SUBSET Record] :
       /\ \A i, k \in Item : Conflicting(i, k) => db[i] = {} \/ db[k] = {}
       /\ \A i \in Exclusive : Cardinality(db[i]) <= 1
       /\ rows = {<<i, 0>> : i \in {k \in Item : db[k] # {}}}
       /\ rrs = {x \in RRow : x[1] \in rows /\ x[2] \in db[x[1][1]] /\ x[3] = 0}
       /\ dns = db
  /\ job = [w \in Worker |-> Idle]
  /\ served = 0 /\ torn = {} /\ stale = {}

-----------------------------------------------------------------------------
(* Validation, before the transaction                                       *)

Known == {r[1] : r \in rows}

\* clean_records: a singleton RRset cannot have several records.
Singletons(data) ==
  \A i \in DOMAIN data \cap Exclusive : data[i] # Keep => Cardinality(data[i]) <= 1

\* RRsetListSerializer.to_internal_value: no RRset that stays or is written
\* conflicts with one that is written.
NoConflicts(data) ==
  \A i \in DOMAIN data \ Empties(data) :
    \A k \in (Known \cup DOMAIN data) \ Empties(data) : ~Conflicting(i, k)

Valid(kind, data) ==
  /\ DOMAIN data # {} /\ Singletons(data)
  /\ CASE kind = "post" ->
            /\ Empties(data) = {} /\ DOMAIN data \cap Known = {}
            /\ \A i \in DOMAIN data : data[i] # Keep
            /\ NoConflicts(data)
       [] kind = "detail" -> \E i \in Known : DOMAIN data = {i}
       [] OTHER ->
            /\ \A i \in DOMAIN data \ Known : data[i] # Keep
            /\ NoConflicts(data)

\* A process serves one request at a time.
MayAccept(w) == job[w].stage = "idle" /\ served < MaxRequests

Accept(w, kind, data) ==
  /\ MayAccept(w) /\ Valid(kind, data)
  /\ served' = served + 1
  /\ job' = [v \in Worker |->
       IF v = w
         THEN [Idle EXCEPT !.stage = "begin", !.kind = kind, !.data = data,
                           !.num = served + 1,
                           !.inst = IF kind = "detail"
                                      THEN {r \in rows : r[1] \in DOMAIN data} ELSE {},
                           !.alone = \A u \in Worker \ {w} : job[u].stage = "idle"]
         ELSE [job[v] EXCEPT !.alone = FALSE]]
  /\ UNCHANGED <<dbVars, dns, torn, stale>>

-----------------------------------------------------------------------------
(* The body of the tracker block                                            *)

\* dynDNS prefetches the RRs of its instances and does not read them again.
Prefetched(w) == IF job[w].kind = "dyndns" THEN rrs ELSE {}

\* RRsetListSerializer.update reads its instances again, in the transaction;
\* unknown items with records == [] need nothing.
Begin(w) ==
  LET bulk == job[w].kind \in {"bulk", "dyndns"}
      inst == IF bulk THEN {r \in rows : r[1] \in DOMAIN job[w].data} ELSE job[w].inst
  IN /\ job[w].stage = "begin"
     /\ job' = [job EXCEPT ![w] = [job[w] EXCEPT !.stage = "next", !.inst = inst,
                  !.seen = Prefetched(w),
                  !.todo = {i \in DOMAIN job[w].data :
                                 job[w].data[i] # {} \/ \E r \in inst : r[1] = i}]]
     /\ UNCHANGED <<dbVars, dns, served, torn, stale>>

Deletions(w) == job[w].todo \cap Empties(job[w].data)
Creations(w) == {i \in job[w].todo \ Deletions(w) : \A r \in job[w].inst : r[1] # i}
Updates(w) == job[w].todo \ (Deletions(w) \cup Creations(w))

\* Rollback: every lock is released, nothing on pdns is undone.
Abort(w) ==
  /\ job' = [job EXCEPT ![w] = Idle]
  /\ UNCHANGED <<dbVars, dns, served>>

\* Deletions come first, then creations, then updates; within each a Python set
\* is walked.  Deleting and updating begin with a SELECT of the RRs concerned.
StartDelete(w) ==
  /\ job[w].stage = "next"
  /\ \E r \in job[w].inst :
       /\ r[1] \in Deletions(w)
       /\ job' = [job EXCEPT ![w] = [job[w] EXCEPT !.stage = "remove", !.cur = r[1],
                             !.todo = @ \ {r[1]}, !.picked = RRsOf(MyRRs(w), r)]]
  /\ UNCHANGED <<dbVars, dns, served, torn, stale>>

\* mutant: creations do not wait for the deletions
StartCreateAnytime(w) ==
  /\ job[w].stage = "next"
  /\ \E i \in Creations(w) :
       job' = [job EXCEPT ![w] = [job[w] EXCEPT !.stage = "create", !.cur = i,
                                                !.todo = @ \ {i}]]
  /\ UNCHANGED <<dbVars, dns, served, torn, stale>>

StartCreate(w) ==
  /\ job[w].stage = "next" /\ Deletions(w) = {}
  /\ \E i \in Creations(w) :
       job' = [job EXCEPT ![w] = [job[w] EXCEPT !.stage = "create", !.cur = i,
                                                !.todo = @ \ {i}]]
  /\ UNCHANGED <<dbVars, dns, served, torn, stale>>

StartUpdate(w) ==
  /\ job[w].stage = "next" /\ Deletions(w) \cup Creations(w) = {}
  /\ \E r \in job[w].inst :
       /\ r[1] \in Updates(w)
       /\ LET new == job[w].data[r[1]] IN
          job' = [job EXCEPT ![w] = [job[w] EXCEPT
                    !.cur = r[1], !.todo = @ \ {r[1]}, !.fresh = {},
                    !.stage = IF new = Keep THEN "save" ELSE "drop",
                    !.picked = IF new = Keep THEN {}
                                  ELSE {x \in RRsOf(MyRRs(w), r) : x[2] \notin new}]]
  /\ UNCHANGED <<dbVars, dns, served, torn, stale>>

\* Inserting an RRset row of item i has to wait for v: both constraints look at
\* rows whose insertion or deletion is not committed.
InsertWaits(i, v) ==
  \E r \in job[v].insRows \cup job[v].delRows : r[1] = i \/ Conflicting(r[1], i)

\* The row locks and uncommitted keys of v stop the next statement of w.
Waits(w, v) ==
  LET s == job[w].stage IN
  /\ w # v
  /\ \/ s \in {"remove", "drop"} /\ job[w].picked \cap job[v].delRRs # {}
     \/ s \in {"remove", "save"} /\ CurRow(w) \in job[v].locked
     \/ s = "create" /\ InsertWaits(job[w].cur, v)
     \/ s = "save" /\ CurRow(w) \notin MyRows(w) /\ InsertWaits(job[w].cur, v)
     \/ s = "save" /\ \E x \in job[v].insRRs \cup job[v].delRRs :
                        x[1] = CurRow(w) /\ x[2] \in job[w].fresh

Free(w) == \A v \in Worker : ~Waits(w, v)

\* Visible rows that the unique key or the exclusion constraint forbids.
Forbids(w, i) == \E r \in MyRows(w) : r[1] = i \/ Conflicting(r[1], i)

\* RRset.delete(): DELETE of the RRs selected before and of the RRset row; the
\* signals are sent whether or not a row was found.
Remove(w) ==
  /\ job[w].stage = "remove" /\ Free(w)
  /\ LET i == job[w].cur
         found == {CurRow(w)} \cap MyRows(w) IN
     job' = [job EXCEPT ![w] = [job[w] EXCEPT !.stage = "next",
               !.delRRs = @ \cup (job[w].picked \cap rrs),
               !.delRows = @ \cup found, !.locked = @ \cup found,
               !.lost = IF found = {} THEN @ \cup {i} ELSE @,
               !.mods = @ \ {i}, !.dels = @ \cup {i}]]
  /\ UNCHANGED <<dbVars, dns, served, torn, stale>>

\* A payload without records cannot create: KeyError.
Create(w) ==
  LET i == job[w].cur
      row == <<i, job[w].num>> IN
  /\ job[w].stage = "create" /\ Free(w)
  /\ New(w) # Keep /\ ~Forbids(w, i)
  /\ job' = [job EXCEPT ![w] = [job[w] EXCEPT !.stage = "next",
               !.insRows = @ \cup {row}, !.locked = @ \cup {row},
               !.insRRs = @ \cup {<<row, c, job[w].num>> : c \in New(w)},
               !.adds = @ \cup {i}, !.mods = @ \cup {i}]]
  /\ UNCHANGED <<dbVars, dns, served, torn, stale>>

\* save_records, first statement: the RRs that are not wanted are deleted.
Drop(w) ==
  /\ job[w].stage = "drop" /\ Free(w)
  /\ job' = [job EXCEPT ![w] = [job[w] EXCEPT !.stage = "compare",
               !.delRRs = @ \cup (job[w].picked \cap rrs),
               !.mods = IF job[w].picked = {} THEN @ ELSE @ \cup {job[w].cur}]]
  /\ UNCHANGED <<dbVars, dns, served, torn, stale>>

\* save_records, second statement: which of the wanted RRs are missing.
Compare(w) ==
  /\ job[w].stage = "compare"
  /\ LET old == RRsOf(IF job[w].kind = "dyndns" THEN job[w].seen ELSE MyRRs(w), CurRow(w))
     IN job' = [job EXCEPT ![w] = [job[w] EXCEPT !.stage = "save",
                                            !.fresh = New(w) \ Contents(old)]]
  /\ UNCHANGED <<dbVars, dns, served, torn, stale>>

\* mutant: touched is not written, so the row is not locked
SaveTouchUnlocked(w) ==
  LET i == job[w].cur
      row == CurRow(w)
      fresh == {<<row, c, job[w].num>> : c \in job[w].fresh}
      found == row \in MyRows(w) IN
  /\ job[w].stage = "save" /\ Free(w)
  /\ \A x \in RRsOf(MyRRs(w), row) : x[2] \notin job[w].fresh
  /\ IF fresh # {}
       THEN /\ found \/ (~Forbids(w, i) /\ i \notin job[w].mods)
            /\ job' = [job EXCEPT ![w] = [job[w] EXCEPT !.stage = "next",
                         !.insRRs = @ \cup fresh, !.locked = @ \cup {row},
                         !.insRows = IF found THEN @ ELSE @ \cup {row},
                         !.adds = IF found THEN @ ELSE @ \cup {i},
                         !.mods = IF found THEN @ \cup {i} ELSE @]]
       ELSE job' = [job EXCEPT ![w].stage = "next"]
  /\ UNCHANGED <<dbVars, dns, served, torn, stale>>

\* bulk_create of the missing RRs and RRset.save(), or, if nothing is inserted
\* and the TTL stays, an UPDATE of touched that sends no signal.  A row that is
\* gone is inserted again by save(), and that signal says "created".
Save(w) ==
  LET i == job[w].cur
      row == CurRow(w)
      fresh == {<<row, c, job[w].num>> : c \in job[w].fresh}
      found == row \in MyRows(w) IN
  /\ job[w].stage = "save" /\ Free(w)
  /\ \A x \in RRsOf(MyRRs(w), row) : x[2] \notin job[w].fresh
  /\ \E changesTTL \in BOOLEAN :
       IF fresh # {} \/ changesTTL
         THEN /\ found \/ (~Forbids(w, i) /\ i \notin job[w].mods)
              /\ job' = [job EXCEPT ![w] = [job[w] EXCEPT !.stage = "next",
                           !.insRRs = @ \cup fresh, !.locked = @ \cup {row},
                           !.insRows = IF found THEN @ ELSE @ \cup {row},
                           !.adds = IF found THEN @ ELSE @ \cup {i},
                           !.mods = IF found \/ (fresh # {} /\ changesTTL)
                                         THEN @ \cup {i} ELSE @]]
         ELSE job' = [job EXCEPT ![w] = [job[w] EXCEPT !.stage = "next",
                        !.locked = IF found THEN @ \cup {row} ELSE @,
                        !.lost = IF found THEN @ ELSE @ \cup {i}]]
  /\ UNCHANGED <<dbVars, dns, served, torn, stale>>

\* A constraint, an assertion of the tracker or a missing key: the body raises.
BodyRaises(w) ==
  /\ Free(w)
  /\ \/ job[w].stage = "create" /\ (New(w) = Keep \/ Forbids(w, job[w].cur))
     \/ /\ job[w].stage = "save"
        /\ \/ \E x \in RRsOf(MyRRs(w), CurRow(w)) : x[2] \in job[w].fresh
           \/ CurRow(w) \notin MyRows(w)
              /\ (Forbids(w, job[w].cur) \/ job[w].cur \in job[w].mods)
  /\ Abort(w) /\ UNCHANGED <<torn, stale>>

DeadlockedNever(w) == FALSE   \* mutant: nobody resolves a deadlock

\* PostgreSQL's deadlock detection ends one of the waiting transactions.
Deadlocked(w) ==
  \E S \in SUBSET Worker :
    w \in S /\ \A u \in S : \E v \in S : Waits(u, v)
DeadlockVictim(w) ==
  ~Free(w) /\ Deadlocked(w) /\ Abort(w) /\ UNCHANGED <<torn, stale>>

-----------------------------------------------------------------------------
(* __exit__                                                                 *)

\* mutant: the row objects are sent instead of their contents
MineRows(w, i) == {x \in MyRRs(w) : x[1] \in RowsFor(MyRows(w), i)}

\* The records of item i as the queries of the transaction find them.
Mine(w, i) == Contents({x \in MyRRs(w) : x[1] \in RowsFor(MyRows(w), i)})

ToSend(w) ==
  LET filled == {i \in job[w].adds : Mine(w, i) # {}}
  IN (filled \cup job[w].mods) \ job[w].dels

\* mutant: the transaction is over before the changes are sent
ComputeReleasesLocks(w) ==
  /\ job[w].stage = "next" /\ job[w].todo = {}
  /\ \A i \in ToSend(w) : RowsFor(MyRows(w), i) # {}
  /\ job' = [job EXCEPT ![w] = [job[w] EXCEPT !.stage = "send", !.locked = {},
               !.sent = [i \in ToSend(w) \cup job[w].dels |->
                              IF i \in job[w].dels THEN {} ELSE Mine(w, i)]]]
  /\ UNCHANGED <<dbVars, dns, served, torn, stale>>

\* _compute_changes and the queries of pdns_do.
Compute(w) ==
  /\ job[w].stage = "next" /\ job[w].todo = {}
  /\ \A i \in ToSend(w) : RowsFor(MyRows(w), i) # {}
  /\ job' = [job EXCEPT ![w] = [job[w] EXCEPT !.stage = "send",
               !.sent = [i \in ToSend(w) \cup job[w].dels |->
                              IF i \in job[w].dels THEN {} ELSE Mine(w, i)]]]
  /\ UNCHANGED <<dbVars, dns, served, torn, stale>>

\* An RRset to be sent is not there: RRset.DoesNotExist.
ComputeFails(w) ==
  /\ job[w].stage = "next" /\ job[w].todo = {}
  /\ \E i \in ToSend(w) : RowsFor(MyRows(w), i) = {}
  /\ Abort(w) /\ UNCHANGED <<torn, stale>>

After(w) == [i \in Item |-> IF i \in DOMAIN job[w].sent THEN job[w].sent[i] ELSE dns[i]]

\* pdns refuses a zone with a multiple CNAME or data next to a CNAME.
Acceptable(zone) ==
  /\ \A i \in Exclusive : Cardinality(zone[i]) <= 1
  /\ \A i, k \in Item : Conflicting(i, k) => zone[i] = {} \/ zone[k] = {}

Send(w) ==
  /\ job[w].stage = "send" /\ (DOMAIN job[w].sent = {} \/ Acceptable(After(w)))
  /\ dns' = After(w)
  /\ job' = [job EXCEPT ![w].stage = "commit"]
  /\ stale' = stale \cup (job[w].lost \cap DOMAIN job[w].sent)
  /\ UNCHANGED <<dbVars, served, torn>>

SendRefused(w) ==
  /\ job[w].stage = "send" /\ DOMAIN job[w].sent # {} /\ ~Acceptable(After(w))
  /\ Abort(w) /\ UNCHANGED <<torn, stale>>

\* The foreign key of RR is checked at COMMIT: no RR may be left that belongs
\* to an RRset row deleted here.
Dangling(w) == \E x \in MyRRs(w) : x[1] \in job[w].delRows

Commit(w) ==
  /\ job[w].stage = "commit" /\ ~Dangling(w)
  /\ rows' = MyRows(w) /\ rrs' = MyRRs(w)
  /\ job' = [job EXCEPT ![w] = Idle]
  /\ UNCHANGED <<dns, served, torn, stale>>

CommitFails(w) ==
  /\ job[w].stage = "commit" /\ Dangling(w)
  /\ torn' = torn \cup DOMAIN job[w].sent
  /\ Abort(w) /\ UNCHANGED stale

-----------------------------------------------------------------------------
Step(w) ==
  \/ Begin(w) \/ StartDelete(w) \/ StartCreate(w) \/ StartUpdate(w)
  \/ Remove(w) \/ Create(w) \/ Drop(w) \/ Compare(w) \/ Save(w) \/ BodyRaises(w)
  \/ Compute(w) \/ ComputeFails(w) \/ Send(w) \/ SendRefused(w)
  \/ Commit(w) \/ CommitFails(w) \/ DeadlockVictim(w)

Next ==
  \E w \in Worker :
    \/ Step(w)
    \/ MayAccept(w) /\ \E kind \in Kind, data \in Payloads : Accept(w, kind, data)

\* A process goes on with its request; PostgreSQL breaks every deadlock.
Fairness == \A w \in Worker : WF_vars(Step(w))
Spec == Init /\ [][Next]_vars
FairSpec == Spec /\ Fairness

-----------------------------------------------------------------------------
(* Properties                                                               *)

TypeOK ==
  /\ rows \subseteq Row /\ rrs \subseteq RRow
  /\ dns \in [Item -> SUBSET Record]
  /\ served \in 0 .. MaxRequests
  /\ torn \subseteq Item /\ stale \subseteq Item
  /\ \A w \in Worker :
       LET j == job[w] IN
       /\ j.stage \in Stage /\ j.kind \in Kind /\ j.num \in 0 .. MaxRequests
       /\ DOMAIN j.data \subseteq Item /\ \A i \in DOMAIN j.data : j.data[i] \in Values
       /\ j.inst \cup j.insRows \cup j.delRows \cup j.locked \subseteq Row
       /\ j.seen \cup j.picked \cup j.insRRs \cup j.delRRs \subseteq RRow
       /\ j.todo \cup j.adds \cup j.mods \cup j.dels \cup j.lost \subseteq Item
       /\ j.cur \in Item /\ j.fresh \subseteq Record /\ j.alone \in BOOLEAN

\* When no request is under way, nslord serves what the database holds: the row
\* lock that every write ends with (even the silent UPDATE of touched) keeps two
\* requests from publishing views that lack each other's changes.
DnsAgrees ==
  (\A w \in Worker : job[w].stage = "idle") =>
    \A i \in Item \ (torn \cup stale) : dns[i] = Stored(i)

\* Between reading an RRset for its PATCH and COMMIT a request is alone with it.
OnePublisher ==
  \A v, w \in Worker : \A i \in Item :
    /\ v # w /\ {job[v].stage, job[w].stage} \subseteq {"send", "commit"}
    /\ i \in DOMAIN job[v].sent \cap DOMAIN job[w].sent
    => i \in job[v].lost \cup job[w].lost

\* A request that runs without another one, on data that agree, succeeds and
\* does exactly what its payload says: validation admits nothing that the
\* constraints, the tracker or pdns would then refuse.
AppliedExactly ==
  [][\A w \in Worker :
       job[w].alone /\ torn \cup stale = {} /\ job'[w].stage = "idle" =>
         \A i \in Item :
           IF i \in DOMAIN job[w].data /\ job[w].data[i] # Keep
             THEN Stored(i)' = job[w].data[i]
             ELSE Stored(i)' = Stored(i)]_vars

\* Every accepted request is answered: no set of requests waits on itself.
RequestsEnd == \A w \in Worker : job[w].stage # "idle" ~> job[w].stage = "idle"

\* "Bulk operations are performed atomically, i.e. either all given RRsets are
\* accepted and published in (or deleted from) the DNS, or none of them are."
\* (docs/dns/rrsets.rst:489-490)
PublishedOnlyIfAccepted == torn = {}

\* "As we publish record modifications immediately [...]" (docs/dns/domains.rst:104):
\* when every accepted request has been carried out, nslord has the records.
PublishedImmediately ==
  (\A w \in Worker : job[w].stage = "idle") /\ torn = {} =>
    \A i \in Item : dns[i] = Stored(i)
=============================================================================
